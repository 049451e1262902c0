-------------------------------- MODULE InputPath --------------------------------
(***************************************************************************)
(* From the keyboard to the control TUI: what a terminal sends, cut into   *)
(* conn.Reads in any way, through TerminalInput and keyDecoder, as         *)
(* pumpTCPToWS and tuiFeed of gateway-go do it while the TUI is open.  The *)
(* console bytes are the same when it is closed.                           *)
(*                                                                         *)
(* A terminal sends tokens: a key pressed, or a Telnet command.  What each *)
(* stands for is stated here from README and RFC 854, RFC 1073, not from   *)
(* the code that has to recover it.                                        *)
(***************************************************************************)
EXTENDS TerminalInput, KeyDecoder, Functions, FiniteSets

CONSTANTS
  Modes,      \* the values of cfg.Mode considered
  Eols,       \* the values of cfg.EOL considered
  Enters,     \* the forms of Enter considered: "cr", "crlf", "crnul", "lf"
  MaxTokens   \* bound: tokens sent

ASSUME InputAssumption ==
  /\ Modes \subseteq {"auto", "telnet", "raw"} /\ Eols \subseteq {"cr", "crlf", "lf", "raw"}
  /\ Enters \subseteq {"cr", "crlf", "crnul", "lf"} /\ MaxTokens \in Nat

VARIABLES
  mode,     \* cfg.Mode
  eol,      \* cfg.EOL
  enter,    \* how the terminal sends Enter
  tokens,   \* what the terminal has sent
  nRead,    \* how many of its bytes have been read
  cut,      \* auxiliary: a read has ended inside the escape sequence of a key
  t,        \* s.term
  d,        \* m.dec
  console,  \* all bytes of toWS
  replies,  \* all bytes of toClient
  keys      \* all keys of decode

vars == <<mode, eol, enter, tokens, nRead, cut, t, d, console, replies, keys>>

(* The terminal.                                                           *)

Windows == [naws80 |-> <<80, 24>>, naws255 |-> <<255, 24>>, nawsNoRows |-> <<80, 0>>]

Other == 5   \* an option the gateway knows nothing of

\* Every request and offer about four options; the 255 of a width is doubled inside
\* a subnegotiation.
Telnet ==
  [doEcho |-> <<IAC, DO, ECHO>>, dontEcho |-> <<IAC, DONT, ECHO>>,
   willEcho |-> <<IAC, WILL, ECHO>>, wontEcho |-> <<IAC, WONT, ECHO>>,
   doSga |-> <<IAC, DO, SGA>>, dontSga |-> <<IAC, DONT, SGA>>,
   willSga |-> <<IAC, WILL, SGA>>, wontSga |-> <<IAC, WONT, SGA>>,
   doNaws |-> <<IAC, DO, NAWS>>, dontNaws |-> <<IAC, DONT, NAWS>>,
   willNaws |-> <<IAC, WILL, NAWS>>, wontNaws |-> <<IAC, WONT, NAWS>>,
   doOther |-> <<IAC, DO, Other>>, dontOther |-> <<IAC, DONT, Other>>,
   willOther |-> <<IAC, WILL, Other>>, wontOther |-> <<IAC, WONT, Other>>,
   goAhead |-> <<IAC, 249>>,
   naws80 |-> <<IAC, SB, NAWS, 0, 80, 0, 24, IAC, SE>>,
   naws255 |-> <<IAC, SB, NAWS, 0, IAC, IAC, 0, 24, IAC, SE>>,
   nawsNoRows |-> <<IAC, SB, NAWS, 0, 80, 0, 0, IAC, SE>>]

EnterBytes == [cr |-> <<CR>>, crlf |-> <<CR, LF>>, crnul |-> <<CR, NUL>>, lf |-> <<LF>>]

EscapeSequences ==
  [up |-> <<ESC, Bracket, 65>>, pgup |-> <<ESC, Bracket, 53, Tilde>>, pgdn |-> <<ESC, Bracket, 54, Tilde>>]

\* A Telnet terminal doubles the data byte 255.
Wire(tok) ==
  CASE tok \in DOMAIN Telnet -> Telnet[tok]
    [] tok \in DOMAIN EscapeSequences -> EscapeSequences[tok]
    [] tok = "enter" -> EnterBytes[enter]
    [] tok = "ctrlJ" -> <<LF>>
    [] tok = "x" -> <<120>>
    [] tok = "ff" -> IF mode = "raw" THEN <<IAC>> ELSE <<IAC, IAC>>
    [] tok = "esc" -> <<ESC>>

\* Ctrl+J after an Enter that is a bare CR is indistinguishable from CR LF.
Tokens ==
  {"enter", "x", "ff", "esc"} \cup DOMAIN EscapeSequences
  \cup (IF enter = "cr" THEN {} ELSE {"ctrlJ"})
  \cup (IF mode = "raw" THEN {} ELSE DOMAIN Telnet)

\* The console bytes a token stands for: Enter is one cfg.EOL, Telnet nothing.
Meant(tok) ==
  CASE tok \in DOMAIN Telnet -> <<>>
    [] tok \in DOMAIN EscapeSequences -> EscapeSequences[tok]
    [] tok \in {"enter", "ctrlJ"} -> IF eol = "raw" THEN Wire(tok) ELSE emitEOL(eol)
    [] tok = "x" -> <<120>>
    [] tok = "ff" -> <<IAC>>
    [] tok = "esc" -> <<ESC>>

\* The key a token stands for.
KeyOf(tok) ==
  CASE tok \in DOMAIN Telnet -> <<>>
    [] tok \in DOMAIN EscapeSequences \cup {"esc"} -> <<Named(tok)>>
    [] tok \in {"enter", "ctrlJ"} -> <<Named("enter")>>
    [] tok = "x" -> <<Char(120)>>
    [] tok = "ff" -> <<Char(IAC)>>

All(Of(_)) == FlattenSeq([i \in DOMAIN tokens |-> Of(tokens[i])])

Stream == All(Wire)

\* The positions inside the escape sequence of a key.
InsideKeys ==
  UNION {LET from == Len(FlattenSeq([j \in 1..(i - 1) |-> Wire(tokens[j])]))
         IN (from + 1)..(from + Len(Wire(tokens[i])) - 1)
         : i \in {k \in DOMAIN tokens : tokens[k] \in DOMAIN EscapeSequences}}

Init ==
  /\ mode \in Modes /\ eol \in Eols /\ enter \in Enters
  /\ tokens = <<>> /\ nRead = 0 /\ cut = FALSE
  /\ t = Initial(NewInput, mode).t /\ replies = Initial(NewInput, mode).rep
  /\ d = NewDecoder
  /\ console = <<>> /\ keys = <<>>

Send ==
  /\ Len(tokens) < MaxTokens
  /\ \E tok \in Tokens : tokens' = Append(tokens, tok)
  /\ UNCHANGED <<mode, eol, enter, nRead, cut, t, d, console, replies, keys>>

\* conn.Read returns some of what was sent.
Read ==
  /\ \E n \in (nRead + 1)..Len(Stream) :
       LET in == Process(t, mode, eol, SubSeq(Stream, nRead + 1, n))
           k  == decode(d, in.raw)
       IN /\ nRead' = n /\ cut' = (cut \/ n \in InsideKeys)
          /\ t' = in.t /\ console' = console \o in.raw /\ replies' = replies \o in.rep
          /\ d' = k.d /\ keys' = keys \o k.keys
  /\ UNCHANGED <<mode, eol, enter, tokens>>

Next == Send \/ Read

Spec == Init /\ [][Next]_vars

--------------------------------------------------------------------------------
(* Properties.                                                             *)

AllRead == nRead = Len(Stream)

TypeOK ==
  /\ mode \in Modes /\ eol \in Eols /\ enter \in Enters
  /\ tokens \in Seq(Tokens) /\ nRead \in 0..Len(Stream) /\ cut \in BOOLEAN
  /\ t.state \in {"data", "iac", "opt", "sb", "sbiac"} /\ t.cmd \in Bytes /\ t.sb \in Seq(Bytes)
  /\ t.will \subseteq Bytes /\ t.do \subseteq Bytes /\ {t.announced, t.lastCR} \subseteq BOOLEAN
  /\ t.size = NoSize \/ (t.size.cols \in 1..Word /\ t.size.rows \in 1..Word)
  /\ d.esc \in {0, 2} /\ d.param \in Seq(Digits)
  /\ console \in Seq(Bytes) /\ replies \in Seq(Bytes) /\ keys \in Seq([kind : KeyKinds, ch : Bytes])

\* "The gateway collapses CR, CR LF, CR NUL and a lone LF down to one" Enter
\* (README.md:194-196) and no Telnet byte reaches the console, wherever the reads
\* cut the stream.
ConsoleAsTyped == AllRead => console = All(Meant)

\* What a reply of three bytes says: WILL or WONT of the gateway's own side of an
\* option, DO or DONT of the terminal's.
Said(rep, i) == rep[3 * i - 1]

Own  == {WILL, WONT}
Peer == {DO, DONT}

\* The replies about one side of an option.
About(rep, opt, side) ==
  {i \in 1..Len(rep) : 3 * i <= Len(rep) /\ rep[3 * i] = opt /\ Said(rep, i) \in side}

\* No two replies in a row say the same, and the last one says what is on.
Settled(rep, opt, side, yes, on) ==
  LET A == About(rep, opt, side)
  IN /\ \A i, j \in A : i < j /\ (\A k \in A : k <= i \/ j <= k) => Said(rep, i) # Said(rep, j)
     /\ on <=> A # {} /\ Said(rep, Max(A)) = yes

\* Negotiation cannot loop (terminal.go:101).  Of the sides the gateway supports, its
\* own ECHO and SGA and the terminal's SGA and NAWS, it speaks only to change them:
\* never the same twice in a row, and what it said last is how it behaves.  Of every
\* other side it says no and nothing else, as often as it is asked (terminal.go:112,
\* 127), and never turns it on.
NegotiationSettles ==
  /\ \A opt \in {ECHO, SGA} : Settled(replies, opt, Own, WILL, opt \in t.will)
  /\ \A opt \in {SGA, NAWS} : Settled(replies, opt, Peer, DO, opt \in t.do)
  /\ \A opt \in {NAWS, Other} : \A i \in About(replies, opt, Own) : Said(replies, i) = WONT
  /\ \A opt \in {ECHO, Other} : \A i \in About(replies, opt, Peer) : Said(replies, i) = DONT
  /\ t.will \subseteq {ECHO, SGA} /\ t.do \subseteq {SGA, NAWS}

\* The window size in use is the last one the terminal reported that is one.
SizeIsLastReported ==
  AllRead =>
    LET reported == {i \in DOMAIN tokens : tokens[i] \in {"naws80", "naws255"}}
        window   == Windows[tokens[Max(reported)]]
    IN t.size = IF reported = {} THEN NoSize ELSE [cols |-> window[1], rows |-> window[2]]

\* One key event per key pressed, if no read ends inside an escape sequence and
\* Enter reaches the decoder as one byte.
KeysAsTyped == AllRead /\ ~cut /\ eol \in {"cr", "lf"} => keys = All(KeyOf)

================================================================================
