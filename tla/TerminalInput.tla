------------------------------ MODULE TerminalInput ------------------------------
(***************************************************************************)
(* The inbound processor of a session: type TerminalInput of               *)
(* gateway-go/terminal.go.  Process turns the bytes of one conn.Read into  *)
(* console bytes and Telnet replies; what it must remember from one read   *)
(* to the next is the record t.                                            *)
(***************************************************************************)
EXTENDS Naturals, Sequences, SequencesExt

IAC  == 255
DONT == 254
DO   == 253
WONT == 252
WILL == 251
SB   == 250
SE   == 240

ECHO == 1
SGA  == 3
NAWS == 31

CR  == 13
LF  == 10
NUL == 0

Bytes == 0..255
Word  == 65535   \* the greatest uint16

NoSize == [cols |-> 0, rows |-> 0]   \* hasSize = FALSE

\* NewTerminalInput.
NewInput ==
  [state |-> "data", cmd |-> NUL, sb |-> <<>>, announced |-> FALSE, will |-> {}, do |-> {},
   lastCR |-> FALSE, size |-> NoSize]

\* The result of feeding bytes: the new state, console bytes, Telnet replies.
Fed(t, raw, rep) == [t |-> t, raw |-> raw, rep |-> rep]

announce(t) ==
  IF t.announced
    THEN Fed(t, <<>>, <<>>)
    ELSE Fed([t EXCEPT !.announced = TRUE, !.will = @ \cup {ECHO, SGA}],
             <<>>, <<IAC, WILL, ECHO, IAC, WILL, SGA>>)

Initial(t, mode) == IF mode \in {"telnet", "auto"} THEN announce(t) ELSE Fed(t, <<>>, <<>>)

\* Mutant: every DO is acknowledged.
Known_Never(opts, opt) == FALSE

\* The option is already in the requested state.
Known(opts, opt) == opt \in opts

\* Accept, refuse or acknowledge; a request for what is already so is not
\* answered, nor is one to stop what was never started.
negotiate(t, opt) ==
  CASE t.cmd = DO /\ opt \in {ECHO, SGA} ->
         IF Known(t.will, opt) THEN Fed(t, <<>>, <<>>)
         ELSE Fed([t EXCEPT !.will = @ \cup {opt}], <<>>, <<IAC, WILL, opt>>)
    [] t.cmd = DO /\ opt \notin {ECHO, SGA} -> Fed(t, <<>>, <<IAC, WONT, opt>>)
    [] t.cmd = DONT ->
         IF opt \in t.will THEN Fed([t EXCEPT !.will = @ \ {opt}], <<>>, <<IAC, WONT, opt>>)
         ELSE Fed(t, <<>>, <<>>)
    [] t.cmd = WILL /\ opt \in {SGA, NAWS} ->
         IF Known(t.do, opt) THEN Fed(t, <<>>, <<>>)
         ELSE Fed([t EXCEPT !.do = @ \cup {opt}], <<>>, <<IAC, DO, opt>>)
    [] t.cmd = WILL /\ opt \notin {SGA, NAWS} -> Fed(t, <<>>, <<IAC, DONT, opt>>)
    [] t.cmd = WONT ->
         IF opt \in t.do THEN Fed([t EXCEPT !.do = @ \ {opt}], <<>>, <<IAC, DONT, opt>>)
         ELSE Fed(t, <<>>, <<>>)

\* Mutant: a window without rows is taken for a size.
IsSize_AnyRows(cols, rows) == cols > 0

IsSize(cols, rows) == cols > 0 /\ rows > 0

\* handleSubneg: the payload of NAWS, widths and heights of 16 bits.
SizeAfter(t) ==
  LET cols == t.sb[2] * 256 + t.sb[3]
      rows == t.sb[4] * 256 + t.sb[5]
  IN IF Len(t.sb) >= 5 /\ t.sb[1] = NAWS /\ IsSize(cols, rows) THEN [cols |-> cols, rows |-> rows]
     ELSE t.size

\* Mutant: the payload of the last subnegotiation is still there.
SbAtStart_Kept(t) == t.sb

SbAtStart(t) == <<>>

feedTelnet(t, mode, b) ==
  CASE t.state = "data" /\ b = IAC ->
         IF mode = "auto" THEN announce([t EXCEPT !.state = "iac"]) ELSE Fed([t EXCEPT !.state = "iac"], <<>>, <<>>)
    [] t.state = "data" /\ b # IAC -> Fed(t, <<b>>, <<>>)
    [] t.state = "iac" /\ b = IAC -> Fed([t EXCEPT !.state = "data"], <<IAC>>, <<>>)
    [] t.state = "iac" /\ b \in {WILL, WONT, DO, DONT} ->
         Fed([t EXCEPT !.cmd = b, !.state = "opt"], <<>>, <<>>)
    [] t.state = "iac" /\ b = SB -> Fed([t EXCEPT !.sb = SbAtStart(t), !.state = "sb"], <<>>, <<>>)
    [] t.state = "iac" /\ b \notin {IAC, WILL, WONT, DO, DONT, SB} ->
         Fed([t EXCEPT !.state = "data"], <<>>, <<>>)
    [] t.state = "opt" -> negotiate([t EXCEPT !.state = "data"], b)
    [] t.state = "sb" /\ b = IAC -> Fed([t EXCEPT !.state = "sbiac"], <<>>, <<>>)
    [] t.state = "sb" /\ b # IAC -> Fed([t EXCEPT !.sb = Append(@, b)], <<>>, <<>>)
    [] t.state = "sbiac" /\ b = SE -> Fed([t EXCEPT !.size = SizeAfter(t), !.state = "data"], <<>>, <<>>)
    [] t.state = "sbiac" /\ b # SE -> Fed([t EXCEPT !.sb = Append(@, b), !.state = "sb"], <<>>, <<>>)

emitEOL(eol) ==
  CASE eol = "cr" -> <<CR>> [] eol = "crlf" -> <<CR, LF>> [] eol = "lf" -> <<LF>> [] eol = "raw" -> <<>>

\* Mutant: the NUL of CR NUL is dropped, but the CR is still remembered.
CRAfter_NulKept(t, b) == b = CR \/ (b = NUL /\ t.lastCR)

CRAfter(t, b) == b = CR

\* One byte of normalizeEOL: every form of Enter becomes one emitEOL.
normalizeByte(t, eol, b) ==
  Fed([t EXCEPT !.lastCR = CRAfter(t, b)],
      CASE b = CR  -> emitEOL(eol)
        [] b = LF  -> IF t.lastCR THEN <<>> ELSE emitEOL(eol)
        [] b = NUL -> <<>>
        [] b \notin {CR, LF, NUL} -> <<b>>,
      <<>>)

\* Feed(acc, b) appended to what has been fed so far.
Then(acc, f) == Fed(f.t, acc.raw \o f.raw, acc.rep \o f.rep)

normalizeEOL(t, eol, data) ==
  IF eol = "raw" THEN Fed(t, data, <<>>)
  ELSE FoldLeft(LAMBDA acc, b : Then(acc, normalizeByte(acc.t, eol, b)), Fed(t, <<>>, <<>>), data)

\* toWS is raw, toClient is rep.
Process(t, mode, eol, data) ==
  LET clean == IF mode = "raw" THEN Fed(t, data, <<>>)
               ELSE FoldLeft(LAMBDA acc, b : Then(acc, feedTelnet(acc.t, mode, b)), Fed(t, <<>>, <<>>), data)
      out   == normalizeEOL(clean.t, eol, clean.raw)
  IN Fed(out.t, out.raw, clean.rep)

================================================================================
