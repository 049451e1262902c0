------------------------------- MODULE OutputPath -------------------------------
(***************************************************************************)
(* Console output from the device to the screen: the bytes of /tty through *)
(* the filter of pumpWSToTCP to a terminal that is wider than Cols, next   *)
(* to the same bytes on a console of Cols columns that wraps by itself.    *)
(* After a reconnect the filter is a new one and the terminal the same.    *)
(*                                                                         *)
(* How /tty cuts its output into messages does not matter to a filter that *)
(* goes byte by byte, so a step is one byte.  The control TUI is left out: *)
(* it restores the cursor (ESC[?1049l) and the output it held back.        *)
(*                                                                         *)
(* The terminals are stated from ECMA-48 and xterm, not from the code.     *)
(***************************************************************************)
EXTENDS OutputFilter

CONSTANTS
  Alphabet,   \* the bytes the device sends
  Columns,    \* where a sequence the filter does not know may leave the cursor
  MaxOutput,  \* bound: bytes the device sends
  MaxConns    \* bound: /tty connections of the session

ASSUME PathAssumption ==
  /\ Alphabet \subseteq 0..255 /\ Columns \subseteq Nat \ {0}
  /\ MaxOutput \in Nat /\ MaxConns \in Nat

VARIABLES
  sent,     \* how many bytes the device has sent
  conns,    \* how many /tty connections there have been
  proc,     \* proc of pumpWSToTCP
  screen,   \* the user's terminal
  console,  \* the console of Cols columns the device writes for
  strayed   \* auxiliary: since its last absolute position the output did what depends on the width

vars == <<sent, conns, proc, screen, console, strayed>>

(* Terminals.                                                              *)

\* margin: a character has been printed in the last column, and the next one will
\* wrap.  at: where the last character since the cursor was positioned was printed.
NewTerminal ==
  [row |-> 1, col |-> 1, margin |-> FALSE, mode |-> "text", csi |-> <<0>>, at |-> <<0, 0>>]

\* The cursor at a column, on a terminal of that width; width 0: as wide as needed.
ToColumn(x, width, col) ==
  [x EXCEPT !.col = IF width > 0 /\ col > width THEN width ELSE AtLeastOne(col), !.margin = FALSE]

Prints(x, width) ==
  LET row == IF x.margin THEN x.row + 1 ELSE x.row
      col == IF x.margin THEN 1 ELSE x.col
  IN [x EXCEPT !.row = row, !.at = <<row, col>>, !.margin = (width > 0 /\ col = width),
               !.col = IF width > 0 /\ col = width THEN col ELSE col + 1]

\* A sequence the filter does not know leaves the cursor in column u.
Sequence(x, width, b, u) ==
  LET n == AtLeastOne(csiParam1(x.csi))
  IN CASE b \in Cup -> [ToColumn(x, width, csiParam2(x.csi)) EXCEPT !.row = n, !.at = <<0, 0>>]
       [] b \in Cha -> ToColumn(x, width, n)
       [] b = Forward -> ToColumn(x, width, x.col + n)
       [] b = Back -> ToColumn(x, width, x.col - n)
       [] b \in NoMove -> x
       [] b \notin Cup \cup Cha \cup NoMove \cup {Forward, Back} -> ToColumn(x, width, u)

Text(x, width, b) ==
  CASE b = ESC -> [x EXCEPT !.mode = "esc"]
    [] b = CR -> ToColumn(x, width, 1)
    [] b = LF -> [x EXCEPT !.row = @ + 1, !.margin = FALSE]
    [] b = BS -> ToColumn(x, width, x.col - 1)
    [] b = TAB -> ToColumn(x, width, NextTab(x.col))
    [] b \in Printable -> Prints(x, width)
    [] b \notin {ESC, CR, LF, BS, TAB} \cup Printable -> x

Receives(x, width, b, u) ==
  CASE x.mode = "csi" /\ b \in Finals -> [Sequence(x, width, b, u) EXCEPT !.mode = "text"]
    [] x.mode = "csi" /\ b \notin Finals -> [x EXCEPT !.csi = CsiAfter(x.csi, b)]
    [] x.mode = "esc" /\ b = Bracket -> [x EXCEPT !.mode = "csi", !.csi = <<0>>]
    [] x.mode = "esc" /\ b # Bracket -> [ToColumn(x, width, u) EXCEPT !.mode = "text"]
    [] x.mode = "text" -> Text(x, width, b)

\* For one byte in, at most three go out.
Shows(x, width, bytes, u) ==
  LET x1 == Receives(x, width, bytes[1], u)
      x2 == Receives(x1, width, bytes[2], u)
  IN CASE Len(bytes) = 1 -> x1
       [] Len(bytes) = 2 -> x2
       [] Len(bytes) = 3 -> Receives(x2, width, bytes[3], u)

(* The device.                                                             *)

\* Programs send complete sequences: no control characters in one, no private
\* markers in one that moves the cursor.
WellFormed(b) ==
  /\ proc.inEsc => b \in 48..126
  /\ proc.inCSI => b \in Digits \cup {Semicolon} \cup Finals

\* What a console of Cols columns and a wider terminal do not do alike: to move
\* past the last column, to move from the margin, and what the filter, for want of
\* the column, does not wrap.
DependsOnWidth(b) ==
  LET n == AtLeastOne(csiParam1(console.csi))
  IN CASE console.mode = "text" ->
            (b = TAB /\ NextTab(console.col) > Cols) \/ (b \in {BS, TAB} /\ console.margin)
       [] console.mode = "esc" -> b # Bracket
       [] console.mode = "csi" ->
            \/ b \in Cup /\ csiParam2(console.csi) > Cols
            \/ b \in Cha /\ n > Cols
            \/ b = Forward /\ console.col + n > Cols
            \/ b = Back /\ console.margin
            \/ b \in Finals \ (Cup \cup Cha \cup NoMove \cup {Forward, Back})

\* The cursor is put at a position of the screen.
Positions(b) == console.mode = "csi" /\ b \in Cup /\ csiParam2(console.csi) <= Cols

Init ==
  /\ sent = 0 /\ conns = 1
  /\ proc = NewOutProc
  /\ screen = NewTerminal /\ console = NewTerminal
  /\ strayed = FALSE

Output ==
  /\ sent < MaxOutput
  /\ \E b \in Alphabet, u \in Columns :
       LET out == process(proc, b)
       IN /\ WellFormed(b)
          /\ proc' = out.p
          /\ screen' = Shows(screen, 0, out.bytes, u)
          /\ console' = Shows(console, Cols, IF console.mode = "text" /\ b = LF THEN <<CR, LF>> ELSE <<b>>, u)
          /\ strayed' = (~Positions(b) /\ (strayed \/ DependsOnWidth(b)))
  /\ sent' = sent + 1
  /\ UNCHANGED conns

\* Mutant: the new filter goes on from where the old one was.
ProcAfterReconnect_Kept == proc

ProcAfterReconnect == NewOutProc

\* The gateway's messages leave the cursor at the start of a line, in whatever
\* state a sequence that was cut short has left the terminal.
Announced(x) == [ToColumn(x, 0, 1) EXCEPT !.row = @ + 3, !.mode = "text"]

Reconnect ==
  /\ conns < MaxConns
  /\ conns' = conns + 1
  /\ proc' = ProcAfterReconnect
  /\ screen' = Announced(screen) /\ console' = Announced(console)
  /\ UNCHANGED <<sent, strayed>>

Next == Output \/ Reconnect

Spec == Init /\ [][Next]_vars

--------------------------------------------------------------------------------
(* Properties.                                                             *)

\* The fields of a sequence, and the states a terminal can be in.
Fields == {csi \in Seq(Nat \cup {NoNumber}) : Len(csi) > 0}

Places == Nat \X Nat

Terminals ==
  [row : Nat, col : Nat \ {0}, margin : BOOLEAN, mode : {"text", "esc", "csi"}, csi : Fields,
   at : Places]

\* Types; a column is never negative and the parser is in one mode at a time.
TypeOK ==
  /\ sent \in Nat /\ conns \in Nat /\ strayed \in BOOLEAN
  /\ proc \in [col : Nat, inEsc : BOOLEAN, inCSI : BOOLEAN, csi : Fields]
  /\ ~(proc.inEsc /\ proc.inCSI)
  /\ screen \in Terminals /\ console \in Terminals

\* Whenever the filter has a column, it is the cursor's column on the terminal
\* (outwrap.go:7), over sequences cut short by a reconnect as well: 0 is the only
\* way to be wrong.
ColumnTracked == proc.col > 0 => proc.col = screen.col

\* No character is shown right of column Cols by a filter that knew the column, so
\* full-width output does not run past the margin (outwrap.go:9-11).
NothingPastMargin ==
  [][Cols > 0 /\ proc.col > 0 /\ screen'.at # screen.at => screen'.at[2] <= Cols]_vars

\* "Forcing the wrap at N reproduces an N-column console" (outwrap.go:11-12): on the
\* wider terminal each character is where a console of Cols columns has it, but
\* for what DependsOnWidth names.
AsOnConsole == Cols > 0 /\ ~strayed => screen.at = console.at

================================================================================
