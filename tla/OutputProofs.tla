------------------------------ MODULE OutputProofs ------------------------------
(***************************************************************************)
(* Proofs about OutputPath, for every width, alphabet and length of the    *)
(* output: the types, the filter's column, and the margin it keeps.        *)
(***************************************************************************)
EXTENDS OutputPath, TLAPS

(* Lemmas about the filter.                                                *)

LEMMA EmptyField == <<0>> \in Fields
<1>1. <<0>> \in Seq(Nat \cup {NoNumber}) /\ Len(<<0>>) = 1
  OBVIOUS
<1>2. QED
  BY <1>1 DEF Fields

LEMMA FieldsGrow ==
  ASSUME NEW csi \in Fields, NEW b \in 0..255
  PROVE  CsiAfter(csi, b) \in Fields
<1>1. FieldAfter(csi[Len(csi)], b) \in Nat \cup {NoNumber}
  BY DEF Fields, FieldAfter, Digits, NoNumber
<1>2. CASE b = Semicolon
  BY <1>2 DEF Fields, CsiAfter
<1>3. CASE b # Semicolon
  BY <1>1, <1>3 DEF Fields, CsiAfter
<1>4. QED
  BY <1>2, <1>3

LEMMA ParamsAreNat ==
  ASSUME NEW csi \in Fields
  PROVE  csiParam1(csi) \in Nat /\ csiParam2(csi) \in Nat
  BY DEF Fields, csiParam1, csiParam2, atoiDefault, NoNumber

LEMMA AtLeastOneType ==
  ASSUME NEW n \in Int
  PROVE  AtLeastOne(n) \in Nat \ {0} /\ (n > 0 => AtLeastOne(n) = n)
  BY DEF AtLeastOne

LEMMA NextTabType ==
  ASSUME NEW col \in Nat \ {0}
  PROVE  NextTab(col) \in Nat \ {0} /\ NextTab(col) > col
  BY DEF NextTab

(* Types.                                                                  *)

Procs == [col : Nat, inEsc : BOOLEAN, inCSI : BOOLEAN, csi : Fields]

LEMMA EndCSIType ==
  ASSUME NEW p \in Procs, NEW b \in 0..255
  PROVE  endCSI(p, b) \in Nat
<1>1. /\ csiParam1(p.csi) \in Nat /\ csiParam2(p.csi) \in Nat
      /\ AtLeastOne(csiParam1(p.csi)) \in Nat \ {0} /\ CupColumn(p.csi) \in Nat
  BY ParamsAreNat, AtLeastOneType DEF Procs, CupColumn
<1>2. BackTo(p) \in Nat
  BY <1>1, AtLeastOneType DEF Procs, BackTo
<1>3. QED
  BY <1>1, <1>2 DEF endCSI, Procs, Cup, Cha, Forward, Back, NoMove

LEMMA InTextType ==
  ASSUME NEW p \in Procs, NEW b \in 0..255
  PROVE  inText(p, b).p \in Procs /\ inText(p, b).p.inCSI = p.inCSI
<1>1. p.col > 0 => NextTab(p.col) \in Nat
  BY NextTabType DEF Procs
<1>2. print(p, b).p \in Procs /\ print(p, b).p.inCSI = p.inCSI
  BY DEF Procs, print, Out, ColAfterWrap
<1>3. \A c \in Nat : [p EXCEPT !.col = c] \in Procs /\ [p EXCEPT !.col = c].inCSI = p.inCSI
  BY DEF Procs
<1>4. [p EXCEPT !.inEsc = TRUE] \in Procs /\ [p EXCEPT !.inEsc = TRUE].inCSI = p.inCSI
  BY DEF Procs
<1>5. p.col \in Nat /\ (p.col > 1 => p.col - 1 \in Nat)
  BY DEF Procs
<1>6. QED
  BY <1>1, <1>2, <1>3, <1>4, <1>5 DEF inText, Out

LEMMA ProcessType ==
  ASSUME NEW p \in Procs, ~(p.inEsc /\ p.inCSI), NEW b \in 0..255
  PROVE  process(p, b).p \in Procs /\ ~(process(p, b).p.inEsc /\ process(p, b).p.inCSI)
<1>1. endCSI(p, b) \in Nat /\ CsiAfter(p.csi, b) \in Fields
  BY EndCSIType, FieldsGrow DEF Procs
<1>a. <<0>> \in Fields
  BY EmptyField
<1>2. inText(p, b).p \in Procs /\ inText(p, b).p.inCSI = p.inCSI
  BY InTextType
<1>3. p.inCSI => process(p, b).p \in Procs /\ ~process(p, b).p.inEsc
  BY <1>1, <1>a DEF Procs, process, Out
<1>4. ~p.inCSI /\ p.inEsc => process(p, b).p \in Procs /\ ~process(p, b).p.inEsc
  BY <1>1, <1>a DEF Procs, process, Out
<1>5. ~p.inCSI /\ ~p.inEsc => process(p, b).p \in Procs /\ ~process(p, b).p.inCSI
  BY <1>2 DEF Procs, process
<1>6. QED
  BY <1>3, <1>4, <1>5 DEF Procs

LEMMA BytesType ==
  ASSUME NEW p \in Procs, NEW b \in 0..255
  PROVE  process(p, b).bytes \in {<<b>>, <<LF>>, <<CR, LF>>, <<LF, b>>, <<CR, LF, b>>}
<1>2. print(p, b).bytes \in {<<b>>, <<LF, b>>, <<CR, LF, b>>}
  BY DEF print, Out
<1>3. inText(p, b).bytes \in {<<b>>, <<LF>>, <<CR, LF>>, <<LF, b>>, <<CR, LF, b>>}
  BY <1>2 DEF inText, Out
<1>4. QED
  BY <1>3 DEF process, Out, Procs

LEMMA ToColumnType ==
  ASSUME NEW x \in Terminals, NEW width \in Nat, NEW col \in Int
  PROVE  /\ ToColumn(x, width, col) \in Terminals
         /\ width = 0 => ToColumn(x, width, col).col = AtLeastOne(col)
         /\ ToColumn(x, width, col).at = x.at /\ ToColumn(x, width, col).row = x.row
         /\ ToColumn(x, width, col).mode = x.mode /\ ToColumn(x, width, col).csi = x.csi
         /\ ~ToColumn(x, width, col).margin
<1> DEFINE c == IF width > 0 /\ col > width THEN width ELSE AtLeastOne(col)
<1>1. c \in Nat \ {0} /\ (width = 0 => c = AtLeastOne(col))
  BY AtLeastOneType
<1> HIDE DEF c
<1>2. ToColumn(x, width, col) = [x EXCEPT !.col = c, !.margin = FALSE]
  BY DEF ToColumn, c
<1>3. QED
  BY <1>1, <1>2 DEF Terminals

LEMMA PrintsType ==
  ASSUME NEW x \in Terminals, NEW width \in Nat
  PROVE  Prints(x, width) \in Terminals /\ Prints(x, width).mode = x.mode
<1> DEFINE row == IF x.margin THEN x.row + 1 ELSE x.row
           col == IF x.margin THEN 1 ELSE x.col
           full == width > 0 /\ col = width
           next == IF full THEN col ELSE col + 1
<1>1. row \in Nat /\ col \in Nat \ {0} /\ full \in BOOLEAN /\ next \in Nat \ {0}
  BY DEF Terminals
<1>2. <<row, col>> \in Places
  BY <1>1 DEF Places
<1>3. Prints(x, width) = [x EXCEPT !.row = row, !.at = <<row, col>>, !.margin = full, !.col = next]
  BY DEF Prints
<1> HIDE DEF row, col, full, next
<1>4. QED
  BY <1>1, <1>2, <1>3 DEF Terminals

LEMMA SequenceType ==
  ASSUME NEW x \in Terminals, NEW width \in Nat, NEW b \in 0..255, NEW u \in Nat \ {0}
  PROVE  Sequence(x, width, b, u) \in Terminals
<1> DEFINE n == AtLeastOne(csiParam1(x.csi))
<1>1. n \in Nat \ {0} /\ csiParam2(x.csi) \in Nat /\ x.col \in Nat
  BY ParamsAreNat, AtLeastOneType DEF Terminals
<1>2. b \in Cup => Sequence(x, width, b, u) = [ToColumn(x, width, csiParam2(x.csi)) EXCEPT !.row = n, !.at = <<0, 0>>]
  BY DEF Sequence, Cup, Cha, Forward, Back, NoMove
<1>3. b \in Cup => Sequence(x, width, b, u) \in Terminals
  <2>1. ToColumn(x, width, csiParam2(x.csi)) \in Terminals
    BY <1>1, ToColumnType
  <2>2. QED
    <3>1. <<0, 0>> \in Places
      BY DEF Places
    <3> HIDE DEF n
    <3>2. \A y \in Terminals : [y EXCEPT !.row = n, !.at = <<0, 0>>] \in Terminals
      BY <1>1, <3>1 DEF Terminals
    <3>3. QED
      BY <1>2, <2>1, <3>2
<1>4. \A col \in Int : ToColumn(x, width, col) \in Terminals
  BY ToColumnType
<1> HIDE DEF n
<1>a. n \in Int /\ x.col + n \in Int /\ x.col - n \in Int /\ u \in Int
  BY <1>1
<1>5. b \notin Cup => Sequence(x, width, b, u) \in Terminals
  BY <1>4, <1>a DEF Sequence, n
<1>6. QED
  BY <1>3, <1>5

LEMMA ReceivesType ==
  ASSUME NEW x \in Terminals, NEW width \in Nat, NEW b \in 0..255, NEW u \in Nat \ {0}
  PROVE  Receives(x, width, b, u) \in Terminals
<1>1. Sequence(x, width, b, u) \in Terminals /\ <<0>> \in Fields
  BY SequenceType, EmptyField
<1>d. CsiAfter(x.csi, b) \in Fields
  BY FieldsGrow DEF Terminals
<1>2. \A col \in Int : ToColumn(x, width, col) \in Terminals
  BY ToColumnType
<1>e. ToColumn(x, width, u) \in Terminals
  BY <1>2
<1>a. x.col - 1 \in Int /\ NextTab(x.col) \in Int /\ x.row \in Nat
  BY NextTabType DEF Terminals
<1>3. Prints(x, width) \in Terminals
  BY PrintsType
<1>b. [x EXCEPT !.mode = "esc"] \in Terminals
  BY DEF Terminals
<1>c. [x EXCEPT !.row = @ + 1, !.margin = FALSE] \in Terminals
  <2>1. \A r \in Nat : [x EXCEPT !.row = r, !.margin = FALSE] \in Terminals
    BY DEF Terminals
  <2>2. QED
    <3>1. x.row + 1 \in Nat
      BY <1>a
    <3>2. QED
      BY <2>1, <3>1
<1>4. Text(x, width, b) \in Terminals
  BY <1>2, <1>3, <1>a, <1>b, <1>c DEF Text
<1>5. x.mode \in {"text", "esc", "csi"}
  BY DEF Terminals
<1>6. CASE x.mode = "csi"
  BY <1>1, <1>d, <1>6 DEF Receives, Terminals
<1>7. CASE x.mode = "esc"
  BY <1>1, <1>e, <1>7 DEF Receives, Terminals
<1>8. CASE x.mode = "text"
  BY <1>4, <1>8 DEF Receives
<1>9. QED
  BY <1>5, <1>6, <1>7, <1>8

LEMMA ShowsType ==
  ASSUME NEW x \in Terminals, NEW width \in Nat, NEW b \in 0..255, NEW u \in Nat \ {0},
         NEW bytes \in {<<b>>, <<LF>>, <<CR, LF>>, <<LF, b>>, <<CR, LF, b>>}
  PROVE  Shows(x, width, bytes, u) \in Terminals
<1> DEFINE x1 == Receives(x, width, bytes[1], u)
           x2 == Receives(x1, width, bytes[2], u)
           x3 == Receives(x2, width, bytes[3], u)
<1>1. /\ Len(bytes) \in 1..3 /\ bytes[1] \in 0..255
      /\ Len(bytes) >= 2 => bytes[2] \in 0..255
      /\ Len(bytes) = 3 => bytes[3] \in 0..255
  <2>1. CASE bytes = <<b>>
    BY <2>1
  <2>2. CASE bytes = <<LF>>
    BY <2>2 DEF LF
  <2>3. CASE bytes = <<CR, LF>>
    BY <2>3 DEF CR, LF
  <2>4. CASE bytes = <<LF, b>>
    BY <2>4 DEF LF
  <2>5. CASE bytes = <<CR, LF, b>>
    BY <2>5 DEF CR, LF
  <2>6. QED
    BY <2>1, <2>2, <2>3, <2>4, <2>5
<1>2. x1 \in Terminals
  BY <1>1, ReceivesType
<1> HIDE DEF x1
<1>3. Len(bytes) >= 2 => x2 \in Terminals
  BY <1>1, <1>2, ReceivesType
<1> HIDE DEF x2
<1>4. Len(bytes) = 3 => x3 \in Terminals
  <2>1. Len(bytes) = 3 => x2 \in Terminals /\ bytes[3] \in 0..255
    BY <1>1, <1>3
  <2>2. QED
    BY <2>1, ReceivesType
<1> HIDE DEF x3
<1>5. Shows(x, width, bytes, u) =
        CASE Len(bytes) = 1 -> x1 [] Len(bytes) = 2 -> x2 [] Len(bytes) = 3 -> x3
  BY DEF Shows, x1, x2, x3
<1>6. QED
  BY <1>1, <1>2, <1>3, <1>4, <1>5

(* The terminal, byte by byte.                                             *)

LEMMA ReceivesText ==
  ASSUME NEW x \in Terminals, x.mode = "text", NEW width \in Nat, NEW b \in 0..255, NEW u \in Nat \ {0}
  PROVE  Receives(x, width, b, u) = Text(x, width, b)
  BY DEF Receives

LEMMA ReceivesControl ==
  ASSUME NEW x \in Terminals, x.mode = "text", NEW width \in Nat, NEW u \in Nat \ {0}
  PROVE  /\ Receives(x, width, ESC, u) = [x EXCEPT !.mode = "esc"]
         /\ Receives(x, width, CR, u) = ToColumn(x, width, 1)
         /\ Receives(x, width, LF, u) = [x EXCEPT !.row = @ + 1, !.margin = FALSE]
         /\ Receives(x, width, BS, u) = ToColumn(x, width, x.col - 1)
         /\ Receives(x, width, TAB, u) = ToColumn(x, width, NextTab(x.col))
<1>1. {ESC, CR, LF, BS, TAB} \subseteq 0..255
  BY DEF ESC, CR, LF, BS, TAB
<1>2. \A b \in {ESC, CR, LF, BS, TAB} : Receives(x, width, b, u) = Text(x, width, b)
  BY <1>1, ReceivesText
<1>3. Text(x, width, ESC) = [x EXCEPT !.mode = "esc"]
  BY DEF Text, ESC, CR, LF, BS, TAB, Printable
<1>4. Text(x, width, CR) = ToColumn(x, width, 1)
  BY DEF Text, ESC, CR, LF, BS, TAB, Printable
<1>5. Text(x, width, LF) = [x EXCEPT !.row = @ + 1, !.margin = FALSE]
  BY DEF Text, ESC, CR, LF, BS, TAB, Printable
<1>6. Text(x, width, BS) = ToColumn(x, width, x.col - 1)
  BY DEF Text, ESC, CR, LF, BS, TAB, Printable
<1>7. Text(x, width, TAB) = ToColumn(x, width, NextTab(x.col))
  BY DEF Text, ESC, CR, LF, BS, TAB, Printable
<1>8. QED
  BY <1>2, <1>3, <1>4, <1>5, <1>6, <1>7

LEMMA ReceivesEscape ==
  ASSUME NEW x \in Terminals, x.mode = "text", NEW u \in Nat \ {0}
  PROVE  Receives(x, 0, ESC, u) = [x EXCEPT !.mode = "esc"]
<1>1. ESC \in 0..255 /\ 0 \in Nat
  BY DEF ESC
<1>2. Receives(x, 0, ESC, u) = Text(x, 0, ESC)
  BY <1>1, ReceivesText
<1>3. Text(x, 0, ESC) = [x EXCEPT !.mode = "esc"]
  BY DEF Text, ESC, CR, LF, BS, TAB, Printable
<1>4. QED
  BY <1>2, <1>3

LEMMA ReceivesPrintable ==
  ASSUME NEW x \in Terminals, x.mode = "text", NEW width \in Nat, NEW u \in Nat \ {0},
         NEW b \in Printable
  PROVE  Receives(x, width, b, u) = Prints(x, width)
<1>1. b \in 0..255
  BY DEF Printable
<1>2. Receives(x, width, b, u) = Text(x, width, b)
  BY <1>1, ReceivesText
<1>3. Text(x, width, b) = Prints(x, width)
  BY DEF Text, ESC, CR, LF, BS, TAB, Printable
<1>4. QED
  BY <1>2, <1>3

LEMMA PrintsFree ==
  ASSUME NEW x \in Terminals, ~x.margin
  PROVE  /\ Prints(x, 0).at = <<x.row, x.col>> /\ Prints(x, 0).col = x.col + 1
         /\ Prints(x, 0).mode = x.mode /\ Prints(x, 0).csi = x.csi
         /\ ~Prints(x, 0).margin /\ Prints(x, 0).row = x.row
  BY DEF Terminals, Prints

\* A new line on the wider terminal, and a character after it.
LEMMA NewLineThenPrint ==
  ASSUME NEW x \in Terminals, x.mode = "text", NEW u \in Nat \ {0}, NEW b \in Printable
  PROVE  LET y == Shows(x, 0, <<CR, LF>>, u)
             z == Shows(x, 0, <<CR, LF, b>>, u)
         IN /\ y \in Terminals /\ y.row = x.row + 1 /\ y.col = 1 /\ ~y.margin
            /\ y.mode = "text" /\ y.at = x.at
            /\ z \in Terminals /\ z.row = x.row + 1 /\ z.col = 2 /\ ~z.margin
            /\ z.mode = "text" /\ z.at = <<x.row + 1, 1>>
<1> DEFINE x1 == ToColumn(x, 0, 1)
           y == [x1 EXCEPT !.row = @ + 1, !.margin = FALSE]
           z == Prints(y, 0)
<1>1. Receives(x, 0, CR, u) = x1
  BY ReceivesControl
<1>2. /\ x1 \in Terminals /\ x1.mode = "text" /\ x1.row = x.row /\ x1.col = 1 /\ x1.at = x.at
  <2>1. 1 \in Int /\ 0 \in Nat /\ AtLeastOne(1) = 1
    BY DEF AtLeastOne
  <2>2. QED
    BY <2>1, ToColumnType
<1> HIDE DEF x1
<1>3. Receives(x1, 0, LF, u) = y
  <2>1. \A v \in Terminals : v.mode = "text" =>
          Receives(v, 0, LF, u) = [v EXCEPT !.row = v.row + 1, !.margin = FALSE]
    BY 0 \in Nat, ReceivesControl
  <2>2. QED
    BY <1>2, <2>1
<1>4. y \in Terminals /\ y.mode = "text" /\ y.row = x.row + 1 /\ y.col = 1 /\ ~y.margin /\ y.at = x.at
  <2>1. LF \in 0..255
    BY DEF LF
  <2>2. y \in Terminals
    <3>1. 0 \in Nat /\ Receives(x1, 0, LF, u) \in Terminals
      BY <1>2, <2>1, ReceivesType
    <3>2. QED
      BY <1>3, <3>1
  <2>3. QED
    BY <1>2, <2>2 DEF Terminals
<1> HIDE DEF y
<1>5. Receives(y, 0, b, u) = z
  BY <1>4, ReceivesPrintable
<1>6. /\ z \in Terminals /\ z.mode = "text" /\ z.row = x.row + 1 /\ z.col = 2
      /\ ~z.margin /\ z.at = <<x.row + 1, 1>>
  <2>1. y.row = x.row + 1 /\ y.col = 1
    BY <1>4
  <2>2. z.at = <<y.row, y.col>> /\ z.col = y.col + 1 /\ z.mode = y.mode /\ ~z.margin /\ z.row = y.row
    BY <1>4, PrintsFree
  <2>3. z \in Terminals
    BY <1>4, PrintsType
  <2>4. QED
    BY <1>4, <2>1, <2>2, <2>3
<1> HIDE DEF z
<1>7. Shows(x, 0, <<CR, LF>>, u) = y /\ Shows(x, 0, <<CR, LF, b>>, u) = z
  BY <1>1, <1>3, <1>5 DEF Shows
<1> HIDE DEF y, z
<1>8. QED
  BY <1>4, <1>6, <1>7

(* The filter and the terminal.                                            *)

\* The filter and the terminal are in the same place of a sequence, and agree on
\* the column if the filter has one.  A terminal that is wide enough has no margin.
Tracks(p, x) ==
  /\ p.inCSI <=> x.mode = "csi"
  /\ p.inEsc <=> x.mode = "esc"
  /\ p.inCSI => p.csi = x.csi
  /\ p.col > 0 => p.col = x.col
  /\ ~x.margin

\* What a step of both is to preserve and to show.
Follows(p, x, b, u) ==
  LET y == Shows(x, 0, process(p, b).bytes, u)
  IN /\ Tracks(process(p, b).p, y)
     /\ Cols > 0 /\ p.col > 0 /\ y.at # x.at => y.at[2] <= Cols

LEMMA FollowsSequence ==
  ASSUME NEW p \in Procs, NEW x \in Terminals, Tracks(p, x), NEW b \in 0..255, NEW u \in Nat \ {0},
         p.inCSI
  PROVE  Follows(p, x, b, u)
<1> DEFINE n == AtLeastOne(csiParam1(x.csi))
           y == Receives(x, 0, b, u)
<1>1. /\ x.mode = "csi" /\ p.csi = x.csi /\ p.inEsc = FALSE /\ (p.col > 0 => p.col = x.col)
      /\ ~x.margin
  BY DEF Tracks
<1>2. process(p, b).bytes = <<b>> /\ Shows(x, 0, <<b>>, u) = y
  BY DEF process, Out, Shows
<1>3. CASE b \notin Finals
  <2>1. process(p, b).p = [p EXCEPT !.csi = CsiAfter(p.csi, b)]
    BY <1>3 DEF process, Out
  <2>2. y = [x EXCEPT !.csi = CsiAfter(x.csi, b)]
    BY <1>1, <1>3 DEF Receives
  <2>3. Tracks([p EXCEPT !.csi = CsiAfter(p.csi, b)], y) /\ y.at = x.at
    BY <1>1, <2>2 DEF Tracks, Procs, Terminals
  <2>4. QED
    BY <1>2, <2>1, <2>3 DEF Follows
<1>4. CASE b \in Finals
  <2>1. process(p, b).p = [p EXCEPT !.col = endCSI(p, b), !.inCSI = FALSE]
    BY <1>4 DEF process, Out
  <2>2. y = [Sequence(x, 0, b, u) EXCEPT !.mode = "text"]
    BY <1>1, <1>4 DEF Receives
  <2>3. /\ n \in Nat \ {0} /\ csiParam2(x.csi) \in Nat /\ x.col \in Nat \ {0} /\ 0 \in Nat
        /\ x.col + n \in Nat \ {0} /\ x.col - n \in Int /\ AtLeastOne(n) = n
        /\ AtLeastOne(x.col + n) = x.col + n
    BY ParamsAreNat, AtLeastOneType DEF Terminals
  <2>4. \A c \in Int : /\ ToColumn(x, 0, c) \in Terminals /\ ToColumn(x, 0, c).col = AtLeastOne(c)
                       /\ ~ToColumn(x, 0, c).margin /\ ToColumn(x, 0, c).at = x.at
    <3>1. 0 \in Nat
      OBVIOUS
    <3>2. QED
      BY <3>1, ToColumnType
  <2> DEFINE z == Sequence(x, 0, b, u)
  <2>5. /\ endCSI(p, b) > 0 => endCSI(p, b) = z.col
        /\ ~z.margin /\ z.at \in {x.at, <<0, 0>>}
    <3> HIDE DEF n
    <3>1. CASE b \in Cup
      <4>1. z = [ToColumn(x, 0, csiParam2(x.csi)) EXCEPT !.row = n, !.at = <<0, 0>>]
        BY <3>1 DEF Sequence, Cup, Cha, Forward, Back, NoMove, n
      <4>2. /\ ToColumn(x, 0, csiParam2(x.csi)) \in Terminals /\ ~ToColumn(x, 0, csiParam2(x.csi)).margin
            /\ ToColumn(x, 0, csiParam2(x.csi)).col = AtLeastOne(csiParam2(x.csi))
        BY <2>3, <2>4
      <4>3. z.col = ToColumn(x, 0, csiParam2(x.csi)).col /\ z.at = <<0, 0>>
            /\ z.margin = ToColumn(x, 0, csiParam2(x.csi)).margin
        BY <4>1, <4>2 DEF Terminals
      <4>4. endCSI(p, b) = AtLeastOne(csiParam2(x.csi))
        BY <1>1, <3>1 DEF endCSI, CupColumn, Cup, Cha, Forward, Back, NoMove
      <4>5. QED
        BY <4>2, <4>3, <4>4
    <3>2. CASE b \in Cha
      <4>1. z = ToColumn(x, 0, n)
        BY <3>2 DEF Sequence, Cup, Cha, Forward, Back, NoMove, n
      <4>2. endCSI(p, b) = n
        BY <1>1, <3>2 DEF endCSI, Cup, Cha, Forward, Back, NoMove, n
      <4>3. QED
        BY <1>1, <2>3, <2>4, <4>1, <4>2
    <3>3. CASE b = Forward
      <4>1. z = ToColumn(x, 0, x.col + n)
        BY <3>3 DEF Sequence, Cup, Cha, Forward, Back, NoMove, n
      <4>2. endCSI(p, b) = IF p.col > 0 THEN p.col + n ELSE 0
        BY <1>1, <3>3 DEF endCSI, Cup, Cha, Forward, Back, NoMove, n
      <4>3. QED
        BY <1>1, <2>3, <2>4, <4>1, <4>2
    <3>4. CASE b = Back
      <4>1. z = ToColumn(x, 0, x.col - n)
        BY <3>4 DEF Sequence, Cup, Cha, Forward, Back, NoMove, n
      <4>2. endCSI(p, b) = IF p.col > 0 THEN AtLeastOne(p.col - n) ELSE 0
        BY <1>1, <3>4 DEF endCSI, BackTo, Cup, Cha, Forward, Back, NoMove, n
      <4>3. QED
        BY <1>1, <2>3, <2>4, <4>1, <4>2
    <3>5. CASE b \in NoMove
      BY <1>1, <2>3, <2>4, <3>5 DEF endCSI, Sequence, Cup, Cha, Forward, Back, NoMove
    <3>6. CASE b \notin Cup \cup Cha \cup NoMove \cup {Forward, Back}
      BY <1>1, <2>3, <2>4, <3>6 DEF endCSI, Sequence
    <3>7. QED
      BY <3>1, <3>2, <3>3, <3>4, <3>5, <3>6
  <2>6. z \in Terminals
    BY <2>3, SequenceType
  <2> HIDE DEF z
  <2>7. /\ y.mode = "text" /\ y.col = z.col /\ y.margin = z.margin /\ y.at = z.at
    BY <2>2, <2>6 DEF Terminals, z
  <2>8. /\ process(p, b).p.col = endCSI(p, b)
        /\ process(p, b).p.inCSI = FALSE /\ process(p, b).p.inEsc = FALSE
    BY <1>1, <2>1 DEF Procs
  <2>9. Cols > 0 /\ y.at # x.at => y.at[2] <= Cols
    BY <2>5, <2>7, FilterAssumption DEF FilterAssumption
  <2>10. QED
    BY <1>2, <2>5, <2>7, <2>8, <2>9 DEF Follows, Tracks
<1>5. QED
  BY <1>3, <1>4

LEMMA FollowsEscape ==
  ASSUME NEW p \in Procs, NEW x \in Terminals, Tracks(p, x), NEW b \in 0..255, NEW u \in Nat \ {0},
         ~p.inCSI, p.inEsc
  PROVE  Follows(p, x, b, u)
<1>1. x.mode = "esc" /\ (p.col > 0 => p.col = x.col) /\ ~x.margin
  BY DEF Tracks
<1>2. process(p, b).bytes = <<b>> /\ Shows(x, 0, <<b>>, u) = Receives(x, 0, b, u)
  BY DEF process, Out, Shows
<1>3. CASE b = Bracket
  <2>1. process(p, b).p = [p EXCEPT !.inEsc = FALSE, !.inCSI = TRUE, !.csi = <<0>>]
    BY <1>3 DEF process, Out
  <2>2. Receives(x, 0, b, u) = [x EXCEPT !.mode = "csi", !.csi = <<0>>]
    BY <1>1, <1>3 DEF Receives
  <2>3. /\ Tracks([p EXCEPT !.inEsc = FALSE, !.inCSI = TRUE, !.csi = <<0>>], Receives(x, 0, b, u))
        /\ Receives(x, 0, b, u).at = x.at
    BY <1>1, <2>2 DEF Tracks, Procs, Terminals
  <2>4. QED
    BY <1>2, <2>1, <2>3 DEF Follows
<1>4. CASE b # Bracket
  <2>1. process(p, b).p = [p EXCEPT !.inEsc = FALSE, !.col = 0]
    BY <1>4 DEF process, Out
  <2>2. Receives(x, 0, b, u) = [ToColumn(x, 0, u) EXCEPT !.mode = "text"]
    BY <1>1, <1>4 DEF Receives
  <2>3. ToColumn(x, 0, u) \in Terminals /\ ~ToColumn(x, 0, u).margin /\ ToColumn(x, 0, u).at = x.at
    BY 0 \in Nat, ToColumnType
  <2> DEFINE y == ToColumn(x, 0, u)
  <2>4. y \in Terminals /\ ~y.margin /\ y.at = x.at
    BY <2>3
  <2> HIDE DEF y
  <2> DEFINE q == [p EXCEPT !.inEsc = FALSE, !.col = 0]
             z == [y EXCEPT !.mode = "text"]
  <2>7. q.col = 0 /\ q.inCSI = FALSE /\ q.inEsc = FALSE
    BY DEF Procs
  <2>8. z.mode = "text" /\ ~z.margin /\ z.at = x.at
    BY <2>4 DEF Terminals
  <2> HIDE DEF q, z
  <2>5. Tracks(q, z) /\ z.at = x.at
    BY <2>7, <2>8 DEF Tracks
  <2>6. QED
    BY <1>2, <2>1, <2>2, <2>5 DEF Follows, y, q, z
<1>5. QED
  BY <1>3, <1>4

LEMMA FollowsText ==
  ASSUME CRLFOut = TRUE, NEW p \in Procs, NEW x \in Terminals, Tracks(p, x), NEW b \in 0..255,
         NEW u \in Nat \ {0}, ~p.inCSI, ~p.inEsc
  PROVE  Follows(p, x, b, u)
<1>1. /\ x.mode = "text" /\ (p.col > 0 => p.col = x.col) /\ ~x.margin
      /\ p.inCSI = FALSE /\ p.inEsc = FALSE /\ p.col \in Nat /\ x.col \in Nat \ {0} /\ 0 \in Nat
  BY DEF Tracks, Procs, Terminals
<1>2. process(p, b) = inText(p, b)
  BY <1>1 DEF process
<1>3. \A c \in Int : /\ ToColumn(x, 0, c) \in Terminals /\ ToColumn(x, 0, c).col = AtLeastOne(c)
                     /\ ~ToColumn(x, 0, c).margin /\ ToColumn(x, 0, c).at = x.at
                     /\ ToColumn(x, 0, c).mode = "text"
  BY <1>1, ToColumnType
<1>4. \A c \in Nat : [p EXCEPT !.col = c].col = c /\ [p EXCEPT !.col = c].inCSI = FALSE
                     /\ [p EXCEPT !.col = c].inEsc = FALSE
  BY <1>1 DEF Procs
\* A control character that goes out as it is, and moves the filter to column c and
\* the terminal to column d.
<1>5. ASSUME NEW c \in Nat, NEW d \in Int, c > 0 => c = AtLeastOne(d),
             inText(p, b) = Out([p EXCEPT !.col = c], <<b>>),
             Receives(x, 0, b, u) = ToColumn(x, 0, d)
      PROVE  Follows(p, x, b, u)
  <2>1. Tracks([p EXCEPT !.col = c], ToColumn(x, 0, d)) /\ ToColumn(x, 0, d).at = x.at
    BY <1>3, <1>4, <1>5 DEF Tracks
  <2>2. QED
    BY <1>2, <1>5, <2>1 DEF Follows, Shows, Out
<1>6. CASE b = ESC
  <2>1. inText(p, b) = Out([p EXCEPT !.inEsc = TRUE], <<b>>)
    BY <1>6 DEF inText, ESC, CR, LF, BS, TAB, Printable
  <2> DEFINE q == [p EXCEPT !.inEsc = TRUE]
             y == [x EXCEPT !.mode = "esc"]
  <2>2. Receives(x, 0, ESC, u) = y
    BY <1>1, ReceivesEscape
  <2>3. Tracks(q, y) /\ y.at = x.at
    BY <1>1 DEF Tracks, Procs, Terminals
  <2> HIDE DEF y
  <2>4. Shows(x, 0, <<b>>, u) = y
    BY <1>6, <2>2 DEF Shows
  <2>5. QED
    BY <1>2, <2>1, <2>3, <2>4 DEF Follows, Out
<1>7. CASE b = CR
  <2>1. inText(p, b) = Out([p EXCEPT !.col = 1], <<b>>)
    BY <1>7 DEF inText, ESC, CR, LF, BS, TAB, Printable
  <2>2. Receives(x, 0, b, u) = ToColumn(x, 0, 1)
    BY <1>1, <1>7, ReceivesControl
  <2>3. QED
    BY <1>5, <2>1, <2>2, AtLeastOneType
<1>8. CASE b = BS
  <2> DEFINE c == IF p.col > 1 THEN p.col - 1 ELSE p.col
  <2>1. inText(p, b) = Out([p EXCEPT !.col = c], <<b>>)
    BY <1>8 DEF inText, ESC, CR, LF, BS, TAB, Printable
  <2>2. Receives(x, 0, b, u) = ToColumn(x, 0, x.col - 1)
    BY <1>1, <1>8, ReceivesControl
  <2>3. c \in Nat /\ x.col - 1 \in Int /\ (c > 0 => c = AtLeastOne(x.col - 1))
    BY <1>1 DEF AtLeastOne
  <2> HIDE DEF c
  <2>4. QED
    BY <1>5, <2>1, <2>2, <2>3
<1>9. CASE b = TAB
  <2> DEFINE c == IF p.col > 0 THEN NextTab(p.col) ELSE 0
  <2>1. inText(p, b) = Out([p EXCEPT !.col = c], <<b>>)
    BY <1>9 DEF inText, ESC, CR, LF, BS, TAB, Printable
  <2>2. Receives(x, 0, b, u) = ToColumn(x, 0, NextTab(x.col))
    BY <1>1, <1>9, ReceivesControl
  <2>3. c \in Nat /\ NextTab(x.col) \in Int /\ (c > 0 => c = AtLeastOne(NextTab(x.col)))
    BY <1>1, NextTabType, AtLeastOneType
  <2> HIDE DEF c
  <2>4. QED
    BY <1>5, <2>1, <2>2, <2>3
<1>10. CASE b = LF
  <2>1. inText(p, b) = Out([p EXCEPT !.col = 1], <<CR, LF>>)
    BY <1>10 DEF inText, ESC, CR, LF, BS, TAB, Printable
  <2> DEFINE y == Shows(x, 0, <<CR, LF>>, u)
  <2>2. y.col = 1 /\ ~y.margin /\ y.mode = "text" /\ y.at = x.at
    <3>1. 65 \in Printable
      BY DEF Printable
    <3>2. QED
      BY <1>1, <3>1, NewLineThenPrint
  <2> HIDE DEF y
  <2>3. Tracks([p EXCEPT !.col = 1], y)
    BY <1>4, <2>2 DEF Tracks
  <2>4. QED
    BY <1>2, <2>1, <2>2, <2>3 DEF Follows, Out, y
<1>11. CASE b \in Printable
  <2>1. inText(p, b) = print(p, b)
    BY <1>11 DEF inText, ESC, CR, LF, BS, TAB, Printable
  <2>2. CASE MustWrap(p)
    <3>1. p.col > 0 /\ Cols > 0
      BY <2>2 DEF MustWrap
    <3>2. print(p, b) = Out([p EXCEPT !.col = 2], <<CR, LF, b>>)
      BY <2>2 DEF print, ColAfterWrap
    <3> DEFINE y == Shows(x, 0, <<CR, LF, b>>, u)
    <3>3. y.col = 2 /\ ~y.margin /\ y.mode = "text" /\ y.at[2] = 1
      <4>1. y.at = <<x.row + 1, 1>> /\ y.col = 2 /\ ~y.margin /\ y.mode = "text"
        BY <1>1, <1>11, NewLineThenPrint
      <4>2. QED
        BY <4>1
    <3> HIDE DEF y
    <3>4. Tracks([p EXCEPT !.col = 2], y) /\ y.at[2] <= Cols
      <4>1. Tracks([p EXCEPT !.col = 2], y)
        BY <1>4, <3>3 DEF Tracks
      <4>2. QED
        BY <4>1, <3>1, <3>3, FilterAssumption DEF FilterAssumption
    <3>5. QED
      BY <1>2, <2>1, <3>2, <3>4 DEF Follows, Out, y
  <2>3. CASE ~MustWrap(p)
    <3> DEFINE c == IF p.col > 0 THEN p.col + 1 ELSE 0
               y == Prints(x, 0)
    <3>1. print(p, b) = Out([p EXCEPT !.col = c], <<b>>)
      BY <2>3 DEF print
    <3>2. y.at = <<x.row, x.col>> /\ y.col = x.col + 1 /\ y.mode = "text" /\ ~y.margin
      BY <1>1, PrintsFree
    <3>3. Receives(x, 0, b, u) = y
      BY <1>1, <1>11, ReceivesPrintable
    <3>4. c \in Nat /\ (c > 0 => c = x.col + 1)
      BY <1>1
    <3>5. Cols > 0 /\ p.col > 0 => x.col <= Cols
      BY <1>1, <2>3, FilterAssumption DEF MustWrap, FilterAssumption
    <3> HIDE DEF c, y
    <3>6. Tracks([p EXCEPT !.col = c], y) /\ (Cols > 0 /\ p.col > 0 => y.at[2] <= Cols)
      <4>1. Tracks([p EXCEPT !.col = c], y)
        BY <1>4, <3>2, <3>4 DEF Tracks
      <4>2. y.at[2] = x.col
        BY <3>2
      <4>3. QED
        BY <4>1, <4>2, <3>5
    <3>7. QED
      BY <1>2, <2>1, <3>1, <3>3, <3>6 DEF Follows, Shows, Out
  <2>4. QED
    BY <2>2, <2>3
<1>12. CASE b \notin {ESC, CR, LF, BS, TAB} \cup Printable
  <2>1. inText(p, b) = Out(p, <<b>>)
    BY <1>12 DEF inText, ESC, CR, LF, BS, TAB, Printable
  <2>2. Receives(x, 0, b, u) = x
    <3>1. Receives(x, 0, b, u) = Text(x, 0, b)
      BY <1>1, ReceivesText
    <3>2. Text(x, 0, b) = x
      BY <1>12 DEF Text
    <3>3. QED
      BY <3>1, <3>2
  <2>3. QED
    BY <1>2, <2>1, <2>2 DEF Follows, Shows, Out
<1>13. QED
  BY <1>6, <1>7, <1>8, <1>9, <1>10, <1>11, <1>12

LEMMA FilterFollows ==
  ASSUME CRLFOut = TRUE, NEW p \in Procs, NEW x \in Terminals, Tracks(p, x), NEW b \in 0..255,
         NEW u \in Nat \ {0}
  PROVE  Follows(p, x, b, u)
<1>1. CASE p.inCSI
  BY <1>1, FollowsSequence
<1>2. CASE ~p.inCSI /\ p.inEsc
  BY <1>2, FollowsEscape
<1>3. CASE ~p.inCSI /\ ~p.inEsc
  BY <1>3, FollowsText
<1>4. QED
  BY <1>1, <1>2, <1>3

--------------------------------------------------------------------------------
(* The theorems.                                                           *)

LEMMA InitTypes == Init => TypeOK /\ Tracks(proc, screen)
<1>1. <<0, 0>> \in Places
  BY DEF Places
<1>2. NewTerminal \in Terminals /\ NewOutProc \in Procs
  BY <1>1, EmptyField DEF NewTerminal, NewOutProc, Terminals, Procs
<1>3. /\ NewOutProc.col = 1 /\ NewOutProc.inEsc = FALSE /\ NewOutProc.inCSI = FALSE
      /\ NewTerminal.mode = "text" /\ NewTerminal.col = 1 /\ ~NewTerminal.margin
  BY DEF NewOutProc, NewTerminal
<1>4. Tracks(NewOutProc, NewTerminal)
  BY <1>3 DEF Tracks
<1>5. SUFFICES ASSUME Init PROVE TypeOK /\ Tracks(proc, screen)
  OBVIOUS
<1>6. proc = NewOutProc /\ screen = NewTerminal /\ console = NewTerminal
  BY <1>5 DEF Init
<1>7. sent \in Nat /\ conns \in Nat /\ strayed \in BOOLEAN
  BY <1>5 DEF Init
<1>8. TypeOK
  BY <1>2, <1>3, <1>6, <1>7 DEF TypeOK, Procs
<1>9. QED
  BY <1>4, <1>6, <1>8

LEMMA AnnouncedType ==
  ASSUME NEW x \in Terminals
  PROVE  /\ Announced(x) \in Terminals /\ Announced(x).at = x.at
         /\ Announced(x).mode = "text" /\ Announced(x).col = 1 /\ ~Announced(x).margin
<1> DEFINE y == ToColumn(x, 0, 1)
<1>1. y \in Terminals /\ y.col = 1 /\ ~y.margin /\ y.at = x.at
  BY 0 \in Nat, 1 \in Int, ToColumnType DEF AtLeastOne
<1>2. Announced(x) = [y EXCEPT !.row = @ + 3, !.mode = "text"]
  BY DEF Announced
<1> HIDE DEF y
<1>3. y.row + 3 \in Nat
  BY <1>1 DEF Terminals
<1>4. \A r \in Nat : [y EXCEPT !.row = r, !.mode = "text"] \in Terminals
  BY <1>1 DEF Terminals
<1>5. Announced(x) \in Terminals
  BY <1>2, <1>3, <1>4
<1>6. QED
  BY <1>1, <1>2, <1>5 DEF Terminals

LEMMA StepTypes == TypeOK /\ [Next]_vars => TypeOK'
<1> SUFFICES ASSUME TypeOK, [Next]_vars PROVE TypeOK'
  OBVIOUS
<1> USE DEF TypeOK
<1>1. CASE Output
  <2>1. PICK b \in Alphabet, u \in Columns :
          /\ proc' = process(proc, b).p
          /\ screen' = Shows(screen, 0, process(proc, b).bytes, u)
          /\ console' = Shows(console, Cols, IF console.mode = "text" /\ b = LF THEN <<CR, LF>> ELSE <<b>>, u)
          /\ strayed' = (~Positions(b) /\ (strayed \/ DependsOnWidth(b)))
    BY <1>1 DEF Output
  <2>2. b \in 0..255 /\ u \in Nat \ {0} /\ Cols \in Nat /\ 0 \in Nat /\ proc \in Procs
    BY PathAssumption, FilterAssumption DEF PathAssumption, FilterAssumption, Procs
  <2>3. proc' \in Procs /\ ~(proc'.inEsc /\ proc'.inCSI)
    BY <2>1, <2>2, ProcessType
  <2>4. screen' \in Terminals
    <3>1. process(proc, b).bytes \in {<<b>>, <<LF>>, <<CR, LF>>, <<LF, b>>, <<CR, LF, b>>}
      BY <2>2, BytesType
    <3>2. QED
      BY <2>1, <2>2, <3>1, ShowsType
  <2>5. console' \in Terminals
    BY <2>1, <2>2, ShowsType
  <2>6. strayed' \in BOOLEAN /\ sent' \in Nat /\ conns' \in Nat
    BY <1>1, <2>1 DEF Output
  <2>7. QED
    BY <2>3, <2>4, <2>5, <2>6 DEF Procs
<1>2. CASE Reconnect
  <2>1. NewOutProc \in Procs /\ ~(NewOutProc.inEsc /\ NewOutProc.inCSI)
    BY EmptyField DEF NewOutProc, Procs
  <2>2. Announced(screen) \in Terminals /\ Announced(console) \in Terminals
    BY AnnouncedType
  <2>3. QED
    BY <1>2, <2>1, <2>2 DEF Reconnect, ProcAfterReconnect, Procs
<1>3. CASE UNCHANGED vars
  BY <1>3 DEF vars
<1>4. QED
  BY <1>1, <1>2, <1>3 DEF Next

\* The filter's column is a column or unknown, its parser is in one mode at a time, and the
\* terminals have the states a terminal can have, whatever the device sends.
THEOREM TypeCorrect == Spec => []TypeOK
<1>1. Init => TypeOK
  BY InitTypes
<1>2. QED
  BY <1>1, StepTypes, PTL DEF Spec

LEMMA StepTracks ==
  ASSUME CRLFOut = TRUE
  PROVE  TypeOK /\ Tracks(proc, screen) /\ [Next]_vars => Tracks(proc, screen)'
<1> SUFFICES ASSUME TypeOK, Tracks(proc, screen), [Next]_vars PROVE Tracks(proc', screen')
  OBVIOUS
<1>1. CASE Output
  <2>1. PICK b \in Alphabet, u \in Columns :
          /\ proc' = process(proc, b).p
          /\ screen' = Shows(screen, 0, process(proc, b).bytes, u)
    BY <1>1 DEF Output
  <2>2. b \in 0..255 /\ u \in Nat \ {0} /\ proc \in Procs /\ screen \in Terminals
    BY PathAssumption DEF PathAssumption, Procs, TypeOK
  <2>3. Follows(proc, screen, b, u)
    BY <2>2, FilterFollows
  <2>4. QED
    BY <2>1, <2>3 DEF Follows
<1>2. CASE Reconnect
  <2>1. /\ screen'.mode = "text" /\ screen'.col = 1 /\ ~screen'.margin
        /\ proc'.col = 1 /\ ~proc'.inCSI /\ ~proc'.inEsc
    BY <1>2, AnnouncedType DEF Reconnect, ProcAfterReconnect, NewOutProc, TypeOK
  <2>2. QED
    BY <2>1 DEF Tracks
<1>3. CASE UNCHANGED vars
  BY <1>3 DEF vars, Tracks
<1>4. QED
  BY <1>1, <1>2, <1>3 DEF Next

\* With ONLCR on, a column the filter has is the cursor's column, at every width, over every
\* output and over reconnects that cut a sequence short.
THEOREM ColumnCorrect ==
  ASSUME CRLFOut = TRUE
  PROVE  Spec => []ColumnTracked
<1>1. Init => TypeOK /\ Tracks(proc, screen)
  BY InitTypes
<1>2. TypeOK /\ Tracks(proc, screen) /\ [Next]_vars => (TypeOK /\ Tracks(proc, screen))'
  BY StepTypes, StepTracks
<1>3. Tracks(proc, screen) => ColumnTracked
  BY DEF Tracks, ColumnTracked
<1>4. QED
  BY <1>1, <1>2, <1>3, PTL DEF Spec

\* With ONLCR on, a filter that knows the column lets no character be shown right of the
\* last one.
THEOREM MarginKept ==
  ASSUME CRLFOut = TRUE
  PROVE  Spec => NothingPastMargin
<1>1. Init => TypeOK /\ Tracks(proc, screen)
  BY InitTypes
<1>2. TypeOK /\ Tracks(proc, screen) /\ [Next]_vars => (TypeOK /\ Tracks(proc, screen))'
  BY StepTypes, StepTracks
<1>3. TypeOK /\ Tracks(proc, screen) /\ [Next]_vars
      => [Cols > 0 /\ proc.col > 0 /\ screen'.at # screen.at => screen'.at[2] <= Cols]_vars
  <2> SUFFICES ASSUME TypeOK, Tracks(proc, screen), [Next]_vars,
                      Cols > 0, proc.col > 0, screen'.at # screen.at
               PROVE  screen'.at[2] <= Cols
    OBVIOUS
  <2>1. CASE Output
    <3>1. PICK b \in Alphabet, u \in Columns :
            screen' = Shows(screen, 0, process(proc, b).bytes, u)
      BY <2>1 DEF Output
    <3>2. b \in 0..255 /\ u \in Nat \ {0} /\ proc \in Procs /\ screen \in Terminals
      BY PathAssumption DEF PathAssumption, Procs, TypeOK
    <3>3. Follows(proc, screen, b, u)
      BY <3>2, FilterFollows
    <3>4. QED
      BY <3>1, <3>3 DEF Follows
  <2>2. CASE Reconnect
    BY <2>2, AnnouncedType DEF Reconnect, TypeOK
  <2>3. CASE UNCHANGED vars
    BY <2>3 DEF vars
  <2>4. QED
    BY <2>1, <2>2, <2>3 DEF Next
<1>4. QED
  BY <1>1, <1>2, <1>3, PTL DEF Spec, NothingPastMargin

--------------------------------------------------------------------------------
(* The console of Cols columns.                                            *)

\* The filter and a terminal are in the same place of a sequence.
SameMode(p, x) ==
  /\ p.inCSI <=> x.mode = "csi"
  /\ p.inEsc <=> x.mode = "esc"
  /\ p.inCSI => p.csi = x.csi

\* The wider terminal x shows what the console c does, and the next character will go to the
\* same place on both: if the console is at its margin, the filter will start a new line.
SamePlace(p, x, c) ==
  /\ p.col > 0 /\ x.row = c.row /\ x.at = c.at /\ c.col <= Cols
  /\ c.margin => c.col = Cols /\ p.col = Cols + 1
  /\ ~c.margin => p.col = c.col

\* What the device sends, as the console receives it.
ToConsole(c, b) == IF c.mode = "text" /\ b = LF THEN <<CR, LF>> ELSE <<b>>

LEMMA ConsoleColumn ==
  ASSUME NEW c \in Terminals, Cols > 0, NEW d \in Int, d <= Cols
  PROVE  /\ ToColumn(c, Cols, d).col = AtLeastOne(d) /\ ~ToColumn(c, Cols, d).margin
         /\ ToColumn(c, Cols, d).row = c.row /\ ToColumn(c, Cols, d).at = c.at
         /\ ToColumn(c, Cols, d).mode = c.mode /\ AtLeastOne(d) <= Cols
         /\ ToColumn(c, Cols, d) \in Terminals
<1>1. Cols \in Nat
  BY FilterAssumption DEF FilterAssumption
<1>2. ToColumn(c, Cols, d) = [c EXCEPT !.col = AtLeastOne(d), !.margin = FALSE]
  <2>1. (IF Cols > 0 /\ d > Cols THEN Cols ELSE AtLeastOne(d)) = AtLeastOne(d)
    BY <1>1
  <2>2. QED
    BY <2>1 DEF ToColumn
<1>3. AtLeastOne(d) <= Cols
  BY <1>1 DEF AtLeastOne
<1>4. QED
  BY <1>1, <1>2, <1>3, ToColumnType DEF Terminals

LEMMA WideColumn ==
  ASSUME NEW x \in Terminals, NEW d \in Int
  PROVE  /\ ToColumn(x, 0, d).col = AtLeastOne(d) /\ ToColumn(x, 0, d).row = x.row
         /\ ToColumn(x, 0, d).at = x.at /\ ToColumn(x, 0, d).mode = x.mode
         /\ ToColumn(x, 0, d) \in Terminals
  BY 0 \in Nat, ToColumnType

\* A control character that moves both cursors to column d, and the filter with them.
LEMMA SameColumn ==
  ASSUME NEW p \in Procs, NEW x \in Terminals, NEW c \in Terminals, Cols > 0, SamePlace(p, x, c),
         NEW d \in Int, d <= Cols, NEW q, q.col = AtLeastOne(d)
  PROVE  SamePlace(q, ToColumn(x, 0, d), ToColumn(c, Cols, d))
<1>1. q.col > 0
  BY AtLeastOneType
<1>2. QED
  BY <1>1, ConsoleColumn, WideColumn DEF SamePlace

LEMMA SamePlaceText ==
  ASSUME CRLFOut = TRUE, Cols > 0,
         NEW p \in Procs, NEW x \in Terminals, NEW c \in Terminals, NEW b \in 0..255,
         NEW u \in Nat \ {0},
         Tracks(p, x), SameMode(p, c), ~p.inCSI, ~p.inEsc, SamePlace(p, x, c),
         ~(b = TAB /\ NextTab(c.col) > Cols), ~(b \in {BS, TAB} /\ c.margin)
  PROVE  SamePlace(process(p, b).p, Shows(x, 0, process(p, b).bytes, u),
                   Shows(c, Cols, ToConsole(c, b), u))
<1>1. /\ x.mode = "text" /\ c.mode = "text" /\ p.col = x.col /\ ~x.margin
      /\ p.inCSI = FALSE /\ p.inEsc = FALSE /\ p.col \in Nat /\ x.col \in Nat \ {0} /\ 0 \in Nat
      /\ c.col \in Nat \ {0} /\ x.row \in Nat /\ c.row \in Nat /\ p.col > 0
  BY DEF Tracks, SameMode, SamePlace, Procs, Terminals
<1>2. Cols \in Nat
  BY FilterAssumption DEF FilterAssumption
<1>3. process(p, b) = inText(p, b)
  BY <1>1 DEF process
<1>4. \A d \in Nat : [p EXCEPT !.col = d].col = d
  BY DEF Procs
\* A control character that goes out as it is.
<1>5. ASSUME NEW d \in Int, d <= Cols, b # LF,
             inText(p, b) = Out([p EXCEPT !.col = AtLeastOne(d)], <<b>>),
             Receives(x, 0, b, u) = ToColumn(x, 0, d), Receives(c, Cols, b, u) = ToColumn(c, Cols, d)
      PROVE  SamePlace(process(p, b).p, Shows(x, 0, process(p, b).bytes, u),
                       Shows(c, Cols, ToConsole(c, b), u))
  <2>1. AtLeastOne(d) \in Nat
    BY <1>5, AtLeastOneType
  <2>2. SamePlace([p EXCEPT !.col = AtLeastOne(d)], ToColumn(x, 0, d), ToColumn(c, Cols, d))
    BY <1>4, <1>5, <2>1, SameColumn
  <2>3. QED
    BY <1>3, <1>5, <2>2 DEF Out, Shows, ToConsole
<1>6. CASE b = ESC
  <2> DEFINE y == [x EXCEPT !.mode = "esc"]
             z == [c EXCEPT !.mode = "esc"]
  <2>1. inText(p, b) = Out([p EXCEPT !.inEsc = TRUE], <<b>>)
    BY <1>6 DEF inText, ESC, CR, LF, BS, TAB, Printable
  <2>2. Receives(x, 0, b, u) = y
    BY <1>1, <1>6, ReceivesEscape
  <2>3. Receives(c, Cols, b, u) = z
    <3>1. b \in 0..255 /\ Receives(c, Cols, b, u) = Text(c, Cols, b)
      BY <1>1, <1>2, ReceivesText
    <3>2. Text(c, Cols, b) = z
      BY <1>6 DEF Text, ESC, CR, LF, BS, TAB, Printable
    <3>3. QED
      BY <3>1, <3>2
  <2>4. SamePlace([p EXCEPT !.inEsc = TRUE], y, z)
    BY DEF SamePlace, Procs, Terminals
  <2> HIDE DEF y, z
  <2>5. b # LF
    BY <1>6 DEF ESC, LF
  <2>6. QED
    BY <1>3, <2>1, <2>2, <2>3, <2>4, <2>5 DEF Out, Shows, ToConsole
<1>7. CASE b = CR
  <2>1. inText(p, b) = Out([p EXCEPT !.col = AtLeastOne(1)], <<b>>)
    BY <1>7 DEF inText, ESC, CR, LF, BS, TAB, Printable, AtLeastOne
  <2>2. Receives(x, 0, b, u) = ToColumn(x, 0, 1)
    BY <1>1, <1>7, ReceivesControl
  <2>3. Receives(c, Cols, b, u) = ToColumn(c, Cols, 1)
    BY <1>1, <1>2, <1>7, ReceivesControl
  <2>4. b # LF /\ 1 <= Cols
    BY <1>2, <1>7 DEF CR, LF
  <2>5. QED
    BY <1>5, <2>1, <2>2, <2>3, <2>4
<1>8. CASE b = BS
  <2>1. ~c.margin /\ p.col = c.col
    BY <1>8 DEF SamePlace
  <2>2. inText(p, b) = Out([p EXCEPT !.col = AtLeastOne(c.col - 1)], <<b>>)
    <3>1. AtLeastOne(c.col - 1) = IF p.col > 1 THEN p.col - 1 ELSE p.col
      BY <1>1, <2>1 DEF AtLeastOne
    <3>2. inText(p, b) = Out([p EXCEPT !.col = IF @ > 1 THEN @ - 1 ELSE @], <<b>>)
      BY <1>8 DEF inText, ESC, CR, LF, BS, TAB, Printable
    <3>3. QED
      BY <3>1, <3>2
  <2>3. Receives(x, 0, b, u) = ToColumn(x, 0, c.col - 1)
    <3>1. Receives(x, 0, BS, u) = ToColumn(x, 0, x.col - 1)
      BY <1>1, ReceivesControl
    <3>2. x.col = c.col
      BY <1>1, <2>1
    <3>3. QED
      BY <1>8, <3>1, <3>2
  <2>4. Receives(c, Cols, b, u) = ToColumn(c, Cols, c.col - 1)
    BY <1>1, <1>2, <1>8, ReceivesControl
  <2>5. b # LF /\ c.col - 1 \in Int /\ c.col - 1 <= Cols
    BY <1>1, <1>2, <1>8 DEF BS, LF, SamePlace
  <2>6. QED
    BY <1>5, <2>2, <2>3, <2>4, <2>5
<1>9. CASE b = TAB
  <2>1. ~c.margin /\ p.col = c.col /\ NextTab(c.col) \in Nat \ {0} /\ NextTab(c.col) <= Cols
    BY <1>1, <1>2, <1>9, NextTabType DEF SamePlace
  <2>2. inText(p, b) = Out([p EXCEPT !.col = AtLeastOne(NextTab(c.col))], <<b>>)
    <3>1. AtLeastOne(NextTab(c.col)) = IF p.col > 0 THEN NextTab(p.col) ELSE 0
      BY <1>1, <2>1, AtLeastOneType
    <3>2. inText(p, b) = Out([p EXCEPT !.col = IF @ > 0 THEN NextTab(@) ELSE 0], <<b>>)
      BY <1>9 DEF inText, ESC, CR, LF, BS, TAB, Printable
    <3>3. QED
      BY <3>1, <3>2
  <2>3. Receives(x, 0, b, u) = ToColumn(x, 0, NextTab(c.col))
    <3>1. Receives(x, 0, TAB, u) = ToColumn(x, 0, NextTab(x.col))
      BY <1>1, ReceivesControl
    <3>2. x.col = c.col
      BY <1>1, <2>1
    <3>3. QED
      BY <1>9, <3>1, <3>2
  <2>4. Receives(c, Cols, b, u) = ToColumn(c, Cols, NextTab(c.col))
    BY <1>1, <1>2, <1>9, ReceivesControl
  <2>5. b # LF /\ NextTab(c.col) \in Int
    BY <1>9, <2>1 DEF TAB, LF
  <2>6. QED
    BY <1>5, <2>1, <2>2, <2>3, <2>4, <2>5
<1>10. CASE b = LF
  <2>1. inText(p, b) = Out([p EXCEPT !.col = 1], <<CR, LF>>)
    BY <1>10 DEF inText, ESC, CR, LF, BS, TAB, Printable
  <2> DEFINE y == Shows(x, 0, <<CR, LF>>, u)
             c1 == ToColumn(c, Cols, 1)
             z == [c1 EXCEPT !.row = @ + 1, !.margin = FALSE]
  <2>2. y.row = x.row + 1 /\ y.at = x.at
    <3>1. 65 \in Printable
      BY DEF Printable
    <3>2. QED
      BY <1>1, <3>1, NewLineThenPrint
  <2>3. /\ c1 \in Terminals /\ c1.mode = "text" /\ c1.row = c.row /\ c1.col = 1 /\ c1.at = c.at
    <3>1. 1 \in Int /\ 1 <= Cols /\ AtLeastOne(1) = 1
      BY <1>2 DEF AtLeastOne
    <3>2. QED
      BY <1>1, <3>1, ConsoleColumn
  <2>4. Shows(c, Cols, <<CR, LF>>, u) = z
    <3>1. Receives(c, Cols, CR, u) = c1
      BY <1>1, <1>2, ReceivesControl
    <3> HIDE DEF c1
    <3>2. Receives(c1, Cols, LF, u) = [c1 EXCEPT !.row = c1.row + 1, !.margin = FALSE]
      <4>1. \A v \in Terminals : v.mode = "text" =>
              Receives(v, Cols, LF, u) = [v EXCEPT !.row = v.row + 1, !.margin = FALSE]
        BY <1>2, ReceivesControl
      <4>2. QED
        BY <2>3, <4>1
    <3>3. QED
      BY <3>1, <3>2 DEF Shows
  <2> HIDE DEF c1
  <2>5. z.row = c.row + 1 /\ z.col = 1 /\ z.at = c.at /\ ~z.margin
    BY <2>3 DEF Terminals
  <2> HIDE DEF y, z
  <2>6. SamePlace([p EXCEPT !.col = 1], y, z)
    BY <1>2, <1>4, <2>2, <2>5 DEF SamePlace
  <2>7. QED
    BY <1>1, <1>3, <1>10, <2>1, <2>4, <2>6 DEF Out, ToConsole, y
<1>11. CASE b \in Printable
  <2> DEFINE z == Prints(c, Cols)
  <2>1. inText(p, b) = print(p, b) /\ b # LF
    BY <1>11 DEF inText, ESC, CR, LF, BS, TAB, Printable
  <2>2. Receives(c, Cols, b, u) = z
    BY <1>1, <1>2, <1>11, ReceivesPrintable
  <2>3. CASE c.margin
    <3>1. p.col = Cols + 1 /\ MustWrap(p)
      BY <1>2, <2>3 DEF SamePlace, MustWrap
    <3>2. print(p, b) = Out([p EXCEPT !.col = 2], <<CR, LF, b>>)
      BY <3>1 DEF print, ColAfterWrap
    <3> DEFINE y == Shows(x, 0, <<CR, LF, b>>, u)
    <3>3. y.row = x.row + 1 /\ y.at = <<x.row + 1, 1>>
      BY <1>1, <1>11, NewLineThenPrint
    <3>4. /\ z.row = c.row + 1 /\ z.at = <<c.row + 1, 1>>
          /\ z.margin <=> Cols = 1
          /\ z.col = IF Cols = 1 THEN 1 ELSE 2
      <4>1. z = [c EXCEPT !.row = c.row + 1, !.at = <<c.row + 1, 1>>, !.margin = (Cols > 0 /\ 1 = Cols),
                          !.col = IF Cols > 0 /\ 1 = Cols THEN 1 ELSE 1 + 1]
        BY <2>3 DEF Prints
      <4> HIDE DEF z
      <4>2. z.row = c.row + 1 /\ z.at = <<c.row + 1, 1>>
        BY <4>1 DEF Terminals
      <4>3. z.margin <=> Cols = 1
        BY <1>2, <4>1 DEF Terminals
      <4>4. z.col = IF Cols = 1 THEN 1 ELSE 2
        BY <1>2, <4>1 DEF Terminals
      <4>5. QED
        BY <4>2, <4>3, <4>4
    <3> HIDE DEF y, z
    <3>5. SamePlace([p EXCEPT !.col = 2], y, z)
      <4>1. x.row = c.row /\ [p EXCEPT !.col = 2].col = 2
        BY <1>4 DEF SamePlace
      <4>2. y.row = z.row /\ y.at = z.at
        BY <3>3, <3>4, <4>1
      <4>3. z.col <= Cols /\ (z.margin => z.col = Cols /\ 2 = Cols + 1) /\ (~z.margin => z.col = 2)
        BY <1>2, <3>4
      <4>4. QED
        BY <4>1, <4>2, <4>3 DEF SamePlace
    <3>6. QED
      BY <1>3, <2>1, <2>2, <3>2, <3>5 DEF Out, Shows, ToConsole, y
  <2>4. CASE ~c.margin
    <3>1. p.col = c.col /\ ~MustWrap(p)
      BY <1>1, <1>2, <2>4 DEF SamePlace, MustWrap
    <3>2. print(p, b) = Out([p EXCEPT !.col = c.col + 1], <<b>>)
      BY <1>1, <3>1 DEF print
    <3> DEFINE y == Prints(x, 0)
    <3>3. Receives(x, 0, b, u) = y /\ y.row = x.row /\ y.at = <<x.row, x.col>>
      BY <1>1, <1>11, ReceivesPrintable, PrintsFree
    <3>4. /\ z.row = c.row /\ z.at = <<c.row, c.col>>
          /\ z.margin <=> c.col = Cols
          /\ z.col = IF c.col = Cols THEN c.col ELSE c.col + 1
      BY <1>2, <2>4 DEF Prints, Terminals
    <3> HIDE DEF y, z
    <3>5. SamePlace([p EXCEPT !.col = c.col + 1], y, z)
      <4>1. /\ x.row = c.row /\ x.col = c.col /\ c.col <= Cols
            /\ [p EXCEPT !.col = c.col + 1].col = c.col + 1
        BY <1>1, <1>4, <3>1 DEF SamePlace
      <4>2. y.row = z.row /\ y.at = z.at
        BY <3>3, <3>4, <4>1
      <4>3. /\ z.col <= Cols /\ c.col + 1 > 0
            /\ z.margin => z.col = Cols /\ c.col + 1 = Cols + 1
            /\ ~z.margin => c.col + 1 = z.col
        BY <1>1, <1>2, <3>4, <4>1
      <4>4. QED
        BY <4>1, <4>2, <4>3 DEF SamePlace
    <3>6. QED
      BY <1>3, <2>1, <2>2, <3>2, <3>3, <3>5 DEF Out, Shows, ToConsole
  <2>5. QED
    BY <2>3, <2>4
<1>12. CASE b \notin {ESC, CR, LF, BS, TAB} \cup Printable
  <2>1. inText(p, b) = Out(p, <<b>>) /\ b # LF
    BY <1>12 DEF inText
  <2>2. Receives(x, 0, b, u) = x
    <3>1. Receives(x, 0, b, u) = Text(x, 0, b)
      BY <1>1, ReceivesText
    <3>2. QED
      BY <1>12, <3>1 DEF Text
  <2>3. Receives(c, Cols, b, u) = c
    <3>1. Receives(c, Cols, b, u) = Text(c, Cols, b)
      BY <1>1, <1>2, ReceivesText
    <3>2. QED
      BY <1>12, <3>1 DEF Text
  <2>4. QED
    BY <1>3, <2>1, <2>2, <2>3 DEF Out, Shows, ToConsole
<1>13. QED
  BY <1>6, <1>7, <1>8, <1>9, <1>10, <1>11, <1>12

LEMMA SameModeStep ==
  ASSUME NEW p \in Procs, NEW x \in Terminals, NEW b \in 0..255, NEW u \in Nat \ {0},
         NEW width \in Nat, SameMode(p, x), ~(p.inEsc /\ p.inCSI)
  PROVE  SameMode(process(p, b).p, Shows(x, width, ToConsole(x, b), u))
<1>1. CASE p.inCSI
  <2>1. x.mode = "csi" /\ p.csi = x.csi /\ p.inEsc = FALSE
    BY <1>1 DEF SameMode, Procs
  <2> DEFINE y == Receives(x, width, b, u)
  <2>2. Shows(x, width, ToConsole(x, b), u) = y
    BY <2>1 DEF ToConsole, Shows
  <2>3. CASE b \in Finals
    <3>1. process(p, b).p = [p EXCEPT !.col = endCSI(p, b), !.inCSI = FALSE]
      BY <1>1, <2>3 DEF process, Out
    <3>2. y = [Sequence(x, width, b, u) EXCEPT !.mode = "text"] /\ Sequence(x, width, b, u) \in Terminals
      BY <2>1, <2>3, SequenceType DEF Receives
    <3>3. process(p, b).p.inCSI = FALSE /\ process(p, b).p.inEsc = FALSE
      BY <2>1, <3>1 DEF Procs
    <3>4. y.mode = "text"
      BY <3>2 DEF Terminals
    <3>5. QED
      BY <2>2, <3>3, <3>4 DEF SameMode
  <2>4. CASE b \notin Finals
    <3>1. process(p, b).p = [p EXCEPT !.csi = CsiAfter(p.csi, b)]
      BY <1>1, <2>4 DEF process, Out
    <3>2. y = [x EXCEPT !.csi = CsiAfter(x.csi, b)]
      BY <2>1, <2>4 DEF Receives
    <3>3. SameMode([p EXCEPT !.csi = CsiAfter(p.csi, b)], y)
      BY <1>1, <2>1, <3>2 DEF SameMode, Procs, Terminals
    <3>4. QED
      BY <2>2, <3>1, <3>3
  <2>5. QED
    BY <2>3, <2>4
<1>2. CASE ~p.inCSI /\ p.inEsc
  <2>1. x.mode = "esc"
    BY <1>2 DEF SameMode
  <2> DEFINE y == Receives(x, width, b, u)
  <2>2. Shows(x, width, ToConsole(x, b), u) = y
    BY <2>1 DEF ToConsole, Shows
  <2>3. CASE b = Bracket
    <3>1. process(p, b).p = [p EXCEPT !.inEsc = FALSE, !.inCSI = TRUE, !.csi = <<0>>]
      BY <1>2, <2>3 DEF process, Out
    <3>2. y = [x EXCEPT !.mode = "csi", !.csi = <<0>>]
      BY <2>1, <2>3 DEF Receives
    <3>3. SameMode([p EXCEPT !.inEsc = FALSE, !.inCSI = TRUE, !.csi = <<0>>], y)
      BY <3>2 DEF SameMode, Procs, Terminals
    <3>4. QED
      BY <2>2, <3>1, <3>3
  <2>4. CASE b # Bracket
    <3>1. process(p, b).p = [p EXCEPT !.inEsc = FALSE, !.col = 0]
      BY <1>2, <2>4 DEF process, Out
    <3>2. y = [ToColumn(x, width, u) EXCEPT !.mode = "text"] /\ ToColumn(x, width, u) \in Terminals
      BY <2>1, <2>4, u \in Int, ToColumnType DEF Receives
    <3>3. y.mode = "text"
      BY <3>2 DEF Terminals
    <3>4. process(p, b).p.inCSI = FALSE /\ process(p, b).p.inEsc = FALSE
      BY <1>2, <3>1 DEF Procs
    <3>5. QED
      BY <2>2, <3>3, <3>4 DEF SameMode
  <2>5. QED
    BY <2>3, <2>4
<1>3. CASE ~p.inCSI /\ ~p.inEsc
  <2>1. x.mode = "text" /\ process(p, b) = inText(p, b) /\ p.inCSI = FALSE /\ p.inEsc = FALSE
    BY <1>3 DEF SameMode, Procs, Terminals, process
  <2>2. inText(p, b).p.inCSI = FALSE /\ (inText(p, b).p.inEsc <=> b = ESC)
    <3>1. \A d \in Nat : [p EXCEPT !.col = d].inEsc = FALSE /\ [p EXCEPT !.inEsc = TRUE].inEsc = TRUE
      BY <2>1 DEF Procs
    <3>2. p.col \in Nat /\ (p.col > 1 => p.col - 1 \in Nat) /\ (p.col > 0 => NextTab(p.col) \in Nat)
      BY NextTabType DEF Procs
    <3>3. print(p, b).p.inEsc = FALSE
      BY <2>1, <3>2 DEF print, Out, ColAfterWrap, Procs
    <3>4. inText(p, b).p.inEsc <=> b = ESC
      BY <2>1, <3>1, <3>2, <3>3 DEF inText, Out, ESC, CR, LF, BS, TAB, Printable
    <3>5. QED
      BY <2>1, <3>4, InTextType
  <2> DEFINE y == Shows(x, width, ToConsole(x, b), u)
  <2>3. \A v \in Terminals : v.mode = "text" =>
          \A e \in 0..255 : Receives(v, width, e, u).mode = IF e = ESC THEN "esc" ELSE "text"
    <3> SUFFICES ASSUME NEW v \in Terminals, v.mode = "text", NEW e \in 0..255
                 PROVE  Receives(v, width, e, u).mode = IF e = ESC THEN "esc" ELSE "text"
      OBVIOUS
    <3>1. Receives(v, width, e, u) = Text(v, width, e)
      BY ReceivesText
    <3>2. \A d \in Int : ToColumn(v, width, d).mode = "text"
      BY ToColumnType
    <3>3. v.col - 1 \in Int /\ NextTab(v.col) \in Int /\ 1 \in Int
      BY NextTabType DEF Terminals
    <3>4. Prints(v, width).mode = "text"
      BY PrintsType
    <3>5. Text(v, width, e).mode = IF e = ESC THEN "esc" ELSE "text"
      BY <3>2, <3>3, <3>4 DEF Text, Terminals, ESC, CR, LF, BS, TAB, Printable
    <3>6. QED
      BY <3>1, <3>5
  <2>4. y.mode = IF b = ESC THEN "esc" ELSE "text"
    <3>1. CASE b = LF
      <4>1. CR \in 0..255 /\ LF \in 0..255 /\ CR # ESC /\ LF # ESC
        BY DEF CR, LF, ESC
      <4>2. Receives(x, width, CR, u) \in Terminals /\ Receives(x, width, CR, u).mode = "text"
        BY <2>1, <2>3, <4>1, ReceivesType
      <4>3. y = Receives(Receives(x, width, CR, u), width, LF, u)
        BY <2>1, <3>1 DEF Shows, ToConsole
      <4>4. QED
        BY <2>3, <3>1, <4>1, <4>2, <4>3
    <3>2. CASE b # LF
      <4>1. y = Receives(x, width, b, u)
        BY <2>1, <3>2 DEF Shows, ToConsole
      <4>2. QED
        BY <2>1, <2>3, <4>1
    <3>3. QED
      BY <3>1, <3>2
  <2> HIDE DEF y
  <2>5. SameMode(process(p, b).p, y)
    BY <2>1, <2>2, <2>4 DEF SameMode
  <2>6. QED
    BY <2>5 DEF y
<1>4. QED
  BY <1>1, <1>2, <1>3

LEMMA SamePlaceSequence ==
  ASSUME Cols > 0, NEW p \in Procs, NEW x \in Terminals, NEW c \in Terminals, NEW b \in 0..255,
         NEW u \in Nat \ {0}, Tracks(p, x), SameMode(p, c), p.inCSI,
         \/ b \in Cup /\ csiParam2(c.csi) <= Cols
         \/ /\ SamePlace(p, x, c)
            /\ ~(b \in Cup /\ csiParam2(c.csi) > Cols)
            /\ ~(b \in Cha /\ AtLeastOne(csiParam1(c.csi)) > Cols)
            /\ ~(b = Forward /\ c.col + AtLeastOne(csiParam1(c.csi)) > Cols)
            /\ ~(b = Back /\ c.margin)
            /\ b \notin Finals \ (Cup \cup Cha \cup NoMove \cup {Forward, Back})
  PROVE  SamePlace(process(p, b).p, Shows(x, 0, process(p, b).bytes, u),
                   Shows(c, Cols, ToConsole(c, b), u))
<1> DEFINE n == AtLeastOne(csiParam1(c.csi))
           m == csiParam2(c.csi)
           y == Receives(x, 0, b, u)
           z == Receives(c, Cols, b, u)
<1>1. /\ x.mode = "csi" /\ c.mode = "csi" /\ p.csi = c.csi /\ x.csi = c.csi /\ ~x.margin
      /\ p.col > 0 => p.col = x.col
  BY DEF Tracks, SameMode
<1>2. /\ Cols \in Nat /\ n \in Nat \ {0} /\ m \in Nat /\ AtLeastOne(n) = n /\ 0 \in Nat
      /\ c.col \in Nat \ {0} /\ x.col \in Nat \ {0} /\ p.col \in Nat
  BY FilterAssumption, ParamsAreNat, AtLeastOneType DEF FilterAssumption, Terminals, Procs
<1>3. /\ process(p, b).bytes = <<b>> /\ Shows(x, 0, <<b>>, u) = y
      /\ Shows(c, Cols, ToConsole(c, b), u) = z
  BY <1>1 DEF process, Out, Shows, ToConsole
<1> DEFINE sx == Sequence(x, 0, b, u)
           sc == Sequence(c, Cols, b, u)
<1>4. CASE b \in Finals
  <2>1. process(p, b).p = [p EXCEPT !.col = endCSI(p, b), !.inCSI = FALSE]
    BY <1>4 DEF process, Out
  <2>2. y = [sx EXCEPT !.mode = "text"] /\ z = [sc EXCEPT !.mode = "text"]
    BY <1>1, <1>4 DEF Receives
  <2>3. sx \in Terminals /\ sc \in Terminals /\ endCSI(p, b) \in Nat
    BY <1>2, SequenceType, EndCSIType
  \* The effect on the column, before the mode is text again.
  <2>4. \A q : q.col = endCSI(p, b) => SamePlace(q, sx, sc)
    <3> HIDE DEF n, m
    <3>1. CASE b \in Cup
      <4>1. m <= Cols
        BY <1>2, <3>1 DEF m
      <4> DEFINE wx == ToColumn(x, 0, m)
                 wc == ToColumn(c, Cols, m)
      <4>2. /\ sx = [wx EXCEPT !.row = n, !.at = <<0, 0>>]
            /\ sc = [wc EXCEPT !.row = n, !.at = <<0, 0>>]
        BY <1>1, <3>1 DEF Sequence, Cup, Cha, Forward, Back, NoMove, n, m
      <4>3. endCSI(p, b) = AtLeastOne(m)
        BY <1>1, <3>1 DEF endCSI, CupColumn, Cup, Cha, Forward, Back, NoMove, m
      <4>4. m \in Int /\ AtLeastOne(m) > 0
        BY <1>2, AtLeastOneType
      <4>5. wc \in Terminals /\ wc.col = AtLeastOne(m) /\ ~wc.margin /\ AtLeastOne(m) <= Cols
        BY <4>1, <4>4, ConsoleColumn
      <4>6. wx \in Terminals /\ wx.col = AtLeastOne(m)
        BY <4>4, WideColumn
      <4> HIDE DEF wx, wc
      <4>7. sx.row = n /\ sx.at = <<0, 0>> /\ sx.col = AtLeastOne(m)
        BY <4>2, <4>6 DEF Terminals
      <4>8. sc.row = n /\ sc.at = <<0, 0>> /\ sc.col = AtLeastOne(m) /\ ~sc.margin
        BY <4>2, <4>5 DEF Terminals
      <4> HIDE DEF sx, sc
      <4>9. QED
        BY <4>3, <4>4, <4>5, <4>7, <4>8 DEF SamePlace
    <3>2. CASE b \notin Cup
      <4>1. /\ SamePlace(p, x, c)
            /\ ~(b \in Cha /\ n > Cols)
            /\ ~(b = Forward /\ c.col + n > Cols)
            /\ ~(b = Back /\ c.margin)
            /\ b \in Cha \cup NoMove \cup {Forward, Back}
        BY <1>4, <3>2 DEF n
      <4>2. /\ p.col > 0 /\ c.col <= Cols /\ p.col = x.col
            /\ c.margin => c.col = Cols
            /\ ~c.margin => x.col = c.col
        BY <1>1, <4>1 DEF SamePlace
      <4>3. ASSUME NEW d \in Int, d <= Cols, endCSI(p, b) = AtLeastOne(d),
                   sx = ToColumn(x, 0, d), sc = ToColumn(c, Cols, d)
            PROVE  \A q : q.col = endCSI(p, b) => SamePlace(q, sx, sc)
        <5> SUFFICES ASSUME NEW q, q.col = AtLeastOne(d)
                     PROVE  SamePlace(q, ToColumn(x, 0, d), ToColumn(c, Cols, d))
          BY <4>3
        <5> QED
          BY <4>1, <4>3, SameColumn
      <4>4. CASE b \in Cha
        <5>1. sx = ToColumn(x, 0, n) /\ sc = ToColumn(c, Cols, n)
          BY <1>1, <4>4 DEF Sequence, Cup, Cha, Forward, Back, NoMove, n
        <5>2. endCSI(p, b) = AtLeastOne(n)
          BY <1>1, <1>2, <4>4 DEF endCSI, Cup, Cha, Forward, Back, NoMove, n
        <5>3. n \in Int /\ n <= Cols
          BY <1>2, <4>1, <4>4
        <5> HIDE DEF sx, sc
        <5>4. QED
          BY <4>3, <5>1, <5>2, <5>3
      <4>5. CASE b = Forward
        <5>1. sx = ToColumn(x, 0, x.col + n) /\ sc = ToColumn(c, Cols, c.col + n)
          BY <1>1, <4>5 DEF Sequence, Cup, Cha, Forward, Back, NoMove, n
        <5>2. endCSI(p, b) = p.col + n
          BY <1>1, <4>2, <4>5 DEF endCSI, Cup, Cha, Forward, Back, NoMove, n
        <5>3. c.col + n <= Cols /\ ~c.margin /\ x.col = c.col /\ p.col = c.col /\ c.col + n \in Int
          BY <1>2, <4>1, <4>2, <4>5
        <5>4. p.col + n = AtLeastOne(c.col + n)
          BY <1>2, <5>3 DEF AtLeastOne
        <5> HIDE DEF sx, sc
        <5>5. QED
          BY <4>3, <5>1, <5>2, <5>3, <5>4
      <4>6. CASE b = Back
        <5>1. sx = ToColumn(x, 0, x.col - n) /\ sc = ToColumn(c, Cols, c.col - n)
          BY <1>1, <4>6 DEF Sequence, Cup, Cha, Forward, Back, NoMove, n
        <5>2. endCSI(p, b) = AtLeastOne(p.col - n)
          BY <1>1, <4>2, <4>6 DEF endCSI, BackTo, Cup, Cha, Forward, Back, NoMove, n
        <5>3. x.col = c.col /\ p.col = c.col /\ c.col - n \in Int /\ c.col - n <= Cols
          BY <1>2, <4>1, <4>2, <4>6
        <5> HIDE DEF sx, sc
        <5>4. QED
          BY <4>3, <5>1, <5>2, <5>3
      <4>7. CASE b \in NoMove
        <5>1. sx = x /\ sc = c /\ endCSI(p, b) = p.col
          BY <4>7 DEF Sequence, endCSI, Cup, Cha, Forward, Back, NoMove
        <5>2. QED
          BY <4>1, <5>1 DEF SamePlace
      <4>8. QED
        BY <4>1, <4>4, <4>5, <4>6, <4>7
    <3>3. QED
      BY <3>1, <3>2
  <2> HIDE DEF sx, sc, y, z
  <2>5. /\ y.row = sx.row /\ y.at = sx.at
        /\ z.row = sc.row /\ z.at = sc.at /\ z.col = sc.col /\ z.margin = sc.margin
    BY <2>2, <2>3 DEF Terminals
  <2>6. process(p, b).p.col = endCSI(p, b)
    BY <2>1, <2>3 DEF Procs
  <2>7. SamePlace(process(p, b).p, sx, sc)
    BY <2>4, <2>6
  <2>8. SamePlace(process(p, b).p, y, z)
    BY <2>5, <2>7 DEF SamePlace
  <2>9. QED
    BY <1>3, <2>8 DEF y
<1>5. CASE b \notin Finals
  <2>1. process(p, b).p = [p EXCEPT !.csi = CsiAfter(p.csi, b)]
    BY <1>5 DEF process, Out
  <2>2. y = [x EXCEPT !.csi = CsiAfter(x.csi, b)] /\ z = [c EXCEPT !.csi = CsiAfter(c.csi, b)]
    BY <1>1, <1>5 DEF Receives
  <2>3. SamePlace(p, x, c)
    BY <1>5 DEF Cup, Finals
  <2>4. SamePlace([p EXCEPT !.csi = CsiAfter(p.csi, b)], y, z)
    BY <2>2, <2>3 DEF SamePlace, Procs, Terminals
  <2>5. QED
    BY <1>3, <2>1, <2>4
<1>6. QED
  BY <1>4, <1>5

LEMMA SamePlaceEscape ==
  ASSUME NEW p \in Procs, NEW x \in Terminals, NEW c \in Terminals, NEW u \in Nat \ {0},
         Tracks(p, x), SameMode(p, c), ~p.inCSI, p.inEsc, SamePlace(p, x, c)
  PROVE  SamePlace(process(p, Bracket).p, Shows(x, 0, process(p, Bracket).bytes, u),
                   Shows(c, Cols, ToConsole(c, Bracket), u))
<1> DEFINE y == [x EXCEPT !.mode = "csi", !.csi = <<0>>]
           z == [c EXCEPT !.mode = "csi", !.csi = <<0>>]
           q == [p EXCEPT !.inEsc = FALSE, !.inCSI = TRUE, !.csi = <<0>>]
<1>1. x.mode = "esc" /\ c.mode = "esc"
  BY DEF Tracks, SameMode
<1>2. process(p, Bracket) = Out(q, <<Bracket>>)
  BY DEF process
<1>3. Receives(x, 0, Bracket, u) = y /\ Receives(c, Cols, Bracket, u) = z
  BY <1>1 DEF Receives
<1>4. SamePlace(q, y, z)
  BY DEF SamePlace, Procs, Terminals
<1> HIDE DEF q, y, z
<1>5. ToConsole(c, Bracket) = <<Bracket>>
  BY <1>1 DEF ToConsole
<1>6. QED
  BY <1>2, <1>3, <1>4, <1>5 DEF Out, Shows

Agrees ==
  /\ Tracks(proc, screen) /\ SameMode(proc, console)
  /\ ~strayed => SamePlace(proc, screen, console)

LEMMA StepAgrees ==
  ASSUME CRLFOut = TRUE, Cols > 0
  PROVE  TypeOK /\ Agrees /\ [Next]_vars => Agrees'
<1> SUFFICES ASSUME TypeOK, Agrees, [Next]_vars
             PROVE  /\ Tracks(proc', screen') /\ SameMode(proc', console')
                    /\ ~strayed' => SamePlace(proc', screen', console')
  BY DEF Agrees
<1>1. Tracks(proc', screen')
  BY StepTracks DEF Agrees
<1>2. CASE Output
  <2>1. PICK b \in Alphabet, u \in Columns :
          /\ proc' = process(proc, b).p
          /\ screen' = Shows(screen, 0, process(proc, b).bytes, u)
          /\ console' = Shows(console, Cols, ToConsole(console, b), u)
          /\ strayed' = (~Positions(b) /\ (strayed \/ DependsOnWidth(b)))
    BY <1>2 DEF Output, ToConsole
  <2>2. /\ b \in 0..255 /\ u \in Nat \ {0} /\ Cols \in Nat /\ proc \in Procs
        /\ screen \in Terminals /\ console \in Terminals /\ ~(proc.inEsc /\ proc.inCSI)
    BY PathAssumption, FilterAssumption DEF PathAssumption, FilterAssumption, Procs, TypeOK
  <2>3. SameMode(proc', console')
    BY <2>1, <2>2, SameModeStep DEF Agrees
  <2>4. ASSUME ~strayed' PROVE SamePlace(proc', screen', console')
    <3>1. Tracks(proc, screen) /\ SameMode(proc, console)
      BY DEF Agrees
    <3>2. Positions(b) \/ (SamePlace(proc, screen, console) /\ ~DependsOnWidth(b))
      BY <2>1, <2>4 DEF Agrees
    <3>3. CASE proc.inCSI
      <4>1. console.mode = "csi"
        BY <3>1, <3>3 DEF SameMode
      <4>2. \/ b \in Cup /\ csiParam2(console.csi) <= Cols
            \/ /\ SamePlace(proc, screen, console)
               /\ ~(b \in Cup /\ csiParam2(console.csi) > Cols)
               /\ ~(b \in Cha /\ AtLeastOne(csiParam1(console.csi)) > Cols)
               /\ ~(b = Forward /\ console.col + AtLeastOne(csiParam1(console.csi)) > Cols)
               /\ ~(b = Back /\ console.margin)
               /\ b \notin Finals \ (Cup \cup Cha \cup NoMove \cup {Forward, Back})
        BY <3>2, <4>1 DEF Positions, DependsOnWidth
      <4>3. QED
        BY <2>1, <2>2, <3>1, <3>3, <4>2, SamePlaceSequence
    <3>4. CASE ~proc.inCSI /\ proc.inEsc
      <4>1. console.mode = "esc"
        BY <3>1, <3>4 DEF SameMode
      <4>2. b = Bracket /\ SamePlace(proc, screen, console)
        BY <3>2, <4>1 DEF Positions, DependsOnWidth
      <4>3. QED
        BY <2>1, <2>2, <3>1, <3>4, <4>2, SamePlaceEscape
    <3>5. CASE ~proc.inCSI /\ ~proc.inEsc
      <4>1. console.mode = "text"
        BY <2>2, <3>1, <3>5 DEF SameMode, Terminals
      <4>2. /\ SamePlace(proc, screen, console)
            /\ ~(b = TAB /\ NextTab(console.col) > Cols) /\ ~(b \in {BS, TAB} /\ console.margin)
        BY <3>2, <4>1 DEF Positions, DependsOnWidth
      <4>3. QED
        BY <2>1, <2>2, <3>1, <3>5, <4>2, SamePlaceText
    <3>6. QED
      BY <3>3, <3>4, <3>5
  <2>5. QED
    BY <1>1, <2>3, <2>4
<1>3. CASE Reconnect
  <2>1. screen \in Terminals /\ console \in Terminals /\ Cols \in Nat
    BY FilterAssumption DEF FilterAssumption, TypeOK
  <2>2. /\ proc' = NewOutProc /\ screen' = Announced(screen) /\ console' = Announced(console)
        /\ strayed' = strayed
    BY <1>3 DEF Reconnect, ProcAfterReconnect
  <2>3. /\ proc'.col = 1 /\ ~proc'.inCSI /\ ~proc'.inEsc
    BY <2>2 DEF NewOutProc
  <2>4. /\ console'.mode = "text" /\ console'.col = 1 /\ ~console'.margin
        /\ console'.at = console.at /\ screen'.at = screen.at
    BY <2>1, <2>2, AnnouncedType
  <2>5. SameMode(proc', console')
    BY <2>3, <2>4 DEF SameMode
  <2>6. \A x \in Terminals : Announced(x).row = x.row + 3
    <3> SUFFICES ASSUME NEW x \in Terminals PROVE Announced(x).row = x.row + 3
      OBVIOUS
    <3> DEFINE y == ToColumn(x, 0, 1)
    <3>1. y \in Terminals /\ y.row = x.row
      BY 1 \in Int, WideColumn
    <3>2. Announced(x) = [y EXCEPT !.row = @ + 3, !.mode = "text"]
      BY DEF Announced
    <3> HIDE DEF y
    <3>3. QED
      BY <3>1, <3>2 DEF Terminals
  <2>7. ~strayed => SamePlace(proc', screen', console')
    BY <2>1, <2>2, <2>3, <2>4, <2>6 DEF Agrees, SamePlace
  <2>8. QED
    BY <1>1, <2>2, <2>5, <2>7
<1>4. CASE UNCHANGED vars
  BY <1>1, <1>4 DEF vars, Agrees
<1>5. QED
  BY <1>2, <1>3, <1>4 DEF Next

\* With ONLCR on, a terminal wider than Cols shows every character where a console of Cols
\* columns has it, until the output does what DependsOnWidth names.
THEOREM ConsoleReproduced ==
  ASSUME CRLFOut = TRUE
  PROVE  Spec => []AsOnConsole
<1>1. CASE Cols > 0
  <2>1. Init => TypeOK /\ Agrees
    <3> SUFFICES ASSUME Init PROVE TypeOK /\ Agrees
      OBVIOUS
    <3>1. TypeOK /\ Tracks(proc, screen)
      BY InitTypes
    <3>2. /\ proc.col = 1 /\ ~proc.inEsc /\ ~proc.inCSI
          /\ screen.row = 1 /\ screen.at = <<0, 0>>
          /\ console.row = 1 /\ console.col = 1 /\ ~console.margin /\ console.mode = "text"
          /\ console.at = <<0, 0>>
      BY DEF Init, NewOutProc, NewTerminal
    <3>3. Cols \in Nat
      BY FilterAssumption DEF FilterAssumption
    <3>4. SameMode(proc, console) /\ SamePlace(proc, screen, console)
      BY <1>1, <3>2, <3>3 DEF SameMode, SamePlace
    <3>5. QED
      BY <3>1, <3>4 DEF Agrees
  <2>2. TypeOK /\ Agrees /\ [Next]_vars => (TypeOK /\ Agrees)'
    BY <1>1, StepTypes, StepAgrees
  <2>3. Agrees => AsOnConsole
    BY DEF Agrees, AsOnConsole, SamePlace
  <2>4. QED
    BY <2>1, <2>2, <2>3, PTL DEF Spec
<1>2. CASE ~(Cols > 0)
  <2>1. AsOnConsole
    BY <1>2 DEF AsOnConsole
  <2>2. QED
    BY <2>1, PTL
<1>3. QED
  BY <1>1, <1>2

================================================================================
