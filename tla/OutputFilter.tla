------------------------------ MODULE OutputFilter ------------------------------
(***************************************************************************)
(* The output filter of a /tty connection: type outProc of                 *)
(* gateway-go/outwrap.go.  It turns a bare LF into CR LF and starts a new  *)
(* line when a printable character would pass column Cols.                 *)
(*                                                                         *)
(* The code keeps the bytes of an ESC[ sequence and reads its first two    *)
(* numbers at its end; here the fields are kept as numbers while they      *)
(* grow.  Blanks around a number, which the code trims, are not modelled.  *)
(***************************************************************************)
EXTENDS Integers, Sequences

CONSTANTS
  Cols,    \* cfg.Cols, 0: no wrapping
  CRLFOut  \* cfg.CRLFOut

ASSUME FilterAssumption == Cols \in Nat /\ CRLFOut \in BOOLEAN

BS  == 8
TAB == 9
LF  == 10
CR  == 13
ESC == 27

Digits    == 48..57
Semicolon == 59
Bracket   == 91
Printable == 32..255
Finals    == 64..126    \* the bytes that end an ESC[ sequence

\* The finals whose effect on the column the filter knows.
Cup     == {72, 102}             \* H f
Cha     == {71, 96}              \* G `
Forward == 67                    \* C
Back    == 68                    \* D
NoMove  == {109, 75, 74, 110}    \* m K J n

\* newOutProc.
NewOutProc == [col |-> 1, inEsc |-> FALSE, inCSI |-> FALSE, csi |-> <<0>>]

AtLeastOne(n) == IF n < 1 THEN 1 ELSE n

\* A field with a byte that is no digit.
NoNumber == -1

atoiDefault(field) == IF field = NoNumber THEN 0 ELSE field

\* A field after one more byte, and the fields of a sequence after one more byte.
FieldAfter(field, b) ==
  IF field # NoNumber /\ b \in Digits THEN 10 * field + (b - 48) ELSE NoNumber

CsiAfter(csi, b) ==
  IF b = Semicolon THEN Append(csi, 0) ELSE [csi EXCEPT ![Len(csi)] = FieldAfter(@, b)]

csiParam1(csi) == atoiDefault(csi[1])
csiParam2(csi) == IF Len(csi) >= 2 THEN atoiDefault(csi[2]) ELSE 0

CupColumn(csi) == AtLeastOne(csiParam2(csi))

NextTab(col) == ((col - 1) \div 8 + 1) * 8 + 1

\* Mutant: the column goes below 1.
BackTo_Unclamped(p) == p.col - AtLeastOne(csiParam1(p.csi))

BackTo(p) == AtLeastOne(p.col - AtLeastOne(csiParam1(p.csi)))

\* endCSI: the column after the sequence csi with final byte b.
endCSI(p, b) ==
  CASE b \in Cup -> CupColumn(p.csi)
    [] b \in Cha -> AtLeastOne(csiParam1(p.csi))
    [] b = Forward -> IF p.col > 0 THEN p.col + AtLeastOne(csiParam1(p.csi)) ELSE 0
    [] b = Back -> IF p.col > 0 THEN BackTo(p) ELSE 0
    [] b \in NoMove -> p.col
    [] b \notin Cup \cup Cha \cup NoMove \cup {Forward, Back} -> 0

\* One byte: the state after it, and the bytes that go out.
Out(p, bytes) == [p |-> p, bytes |-> bytes]

\* Mutant: the line is wrapped one column late.
MustWrap_Late(p) == Cols > 0 /\ p.col > 0 /\ p.col > Cols + 1

MustWrap(p) == Cols > 0 /\ p.col > 0 /\ p.col > Cols

\* Mutant: the wrap is not recorded, the filter stays behind the margin.
ColAfterWrap_Kept(p) == p.col

ColAfterWrap(p) == 1

print(p, b) ==
  LET col == IF MustWrap(p) THEN ColAfterWrap(p) ELSE p.col
  IN Out([p EXCEPT !.col = IF col > 0 THEN col + 1 ELSE 0],
         IF ~MustWrap(p) THEN <<b>> ELSE IF CRLFOut THEN <<CR, LF, b>> ELSE <<LF, b>>)

inText(p, b) ==
  CASE b = ESC -> Out([p EXCEPT !.inEsc = TRUE], <<b>>)
    [] b = CR -> Out([p EXCEPT !.col = 1], <<b>>)
    [] b = LF -> Out([p EXCEPT !.col = 1], IF CRLFOut THEN <<CR, LF>> ELSE <<LF>>)
    [] b = BS -> Out([p EXCEPT !.col = IF @ > 1 THEN @ - 1 ELSE @], <<b>>)
    [] b = TAB -> Out([p EXCEPT !.col = IF @ > 0 THEN NextTab(@) ELSE 0], <<b>>)
    [] b \in Printable -> print(p, b)
    [] b \notin {ESC, CR, LF, BS, TAB} \cup Printable -> Out(p, <<b>>)

process(p, b) ==
  CASE p.inCSI /\ b \in Finals ->
         Out([p EXCEPT !.col = endCSI(p, b), !.inCSI = FALSE], <<b>>)
    [] p.inCSI /\ b \notin Finals -> Out([p EXCEPT !.csi = CsiAfter(p.csi, b)], <<b>>)
    [] ~p.inCSI /\ p.inEsc /\ b = Bracket ->
         Out([p EXCEPT !.inEsc = FALSE, !.inCSI = TRUE, !.csi = <<0>>], <<b>>)
    [] ~p.inCSI /\ p.inEsc /\ b # Bracket ->
         Out([p EXCEPT !.inEsc = FALSE, !.col = 0], <<b>>)
    [] ~p.inCSI /\ ~p.inEsc -> inText(p, b)

================================================================================
