------------------------------- MODULE ConfigProofs -------------------------------
(***************************************************************************)
(* Proof that the gateway starts as configured, for every set of words, of *)
(* hotkeys and of window sizes, and however much the sources give.  The    *)
(* invariant Resolved says what cfg is while buildConfig goes from one     *)
(* source to the next.  And proof of which hotkeys open the TUI: what a    *)
(* terminal sends for one is followed through Process, whose folds over    *)
(* one byte, or over ESC and a byte, are unfolded, to handleInput.         *)
(***************************************************************************)
EXTENDS Configuration, LibraryProofs

(* A key press goes through Process.                                       *)

TelnetRun(m, acc, data) == FoldLeft(LAMBDA a, b : Then(a, feedTelnet(a.t, m, b)), acc, data)
EolRun(e, acc, data)    == FoldLeft(LAMBDA a, b : Then(a, normalizeByte(a.t, e, b)), acc, data)

\* What is left of one byte.
Emitted(e, b) ==
  IF e = "raw" \/ b \notin {CR, LF, NUL} THEN <<b>> ELSE IF b = NUL THEN <<>> ELSE emitEOL(e)

\* The sets a fold over one or two bytes goes through, from the greatest place down.
LEMMA FromTheTop ==
  /\ \A s \in SUBSET {1} : s = {} \/ s = {1}
  /\ \A s \in SUBSET {1, 2} : s = {} \/ s = {1} \/ s = {2} \/ s = {1, 2}
  /\ Max({1}) = 1 /\ Max({2}) = 2 /\ Max({1, 2}) = 2
  /\ {1} \ {1} = {} /\ {2} \ {2} = {} /\ {1, 2} \ {2} = {1}
<1>1. Max({1}) = 1
  <2>1. 1 \in Nat /\ {1} \in SUBSET (1..1) /\ {1} # {}
    OBVIOUS
  <2> QED
    BY <2>1, MaxIs
<1>2. Max({2}) = 2
  <2>1. 2 \in Nat /\ {2} \in SUBSET (1..2) /\ {2} # {}
    OBVIOUS
  <2> QED
    BY <2>1, MaxIs
<1>3. Max({1, 2}) = 2
  <2>1. 2 \in Nat /\ {1, 2} \in SUBSET (1..2) /\ {1, 2} # {}
    OBVIOUS
  <2>2. Max({1, 2}) \in {1, 2} /\ Max({1, 2}) >= 2
    BY <2>1, MaxIs
  <2> QED
    BY <2>2
<1>4. ASSUME NEW s \in SUBSET {1, 2} PROVE s = {} \/ s = {1} \/ s = {2} \/ s = {1, 2}
  <2>1. CASE 1 \in s /\ 2 \in s
    BY <2>1
  <2>2. CASE 1 \in s /\ 2 \notin s
    <3>1. s = {1}
      BY <2>2
    <3> QED
      BY <3>1
  <2>3. CASE 1 \notin s /\ 2 \in s
    <3>1. s = {2}
      BY <2>3
    <3> QED
      BY <3>1
  <2>4. CASE 1 \notin s /\ 2 \notin s
    <3>1. s = {}
      BY <2>4
    <3> QED
      BY <3>1
  <2> QED
    BY <2>1, <2>2, <2>3, <2>4
<1>5. \A s \in SUBSET {1} : s = {} \/ s = {1}
  OBVIOUS
<1>6. {1} \ {1} = {} /\ {2} \ {2} = {} /\ {1, 2} \ {2} = {1}
  OBVIOUS
<1> QED
  BY <1>1, <1>2, <1>3, <1>4, <1>5, <1>6

\* A byte that is none of Telnet's stays as it is; one that is no Enter and no padding stays,
\* too, and normalizeEOL remembers nothing of it.
LEMMA ByteStays ==
  ASSUME NEW m, NEW t, t.state = "data", NEW b \in 0..126
  PROVE  feedTelnet(t, m, b) = Fed(t, <<b>>, <<>>)
<1>1. b # IAC
  BY DEF IAC
<1> QED
  BY <1>1 DEF feedTelnet

LEMMA ByteEmitted ==
  ASSUME NEW e \in {"cr", "crlf", "lf"}, NEW t, t.lastCR = FALSE, NEW b \in 0..126
  PROVE  normalizeByte(t, e, b).raw = Emitted(e, b)
<1>1. normalizeByte(t, e, b).raw =
        CASE b = CR  -> emitEOL(e)
          [] b = LF  -> IF t.lastCR THEN <<>> ELSE emitEOL(e)
          [] b = NUL -> <<>>
          [] b \notin {CR, LF, NUL} -> <<b>>
  BY DEF normalizeByte, Fed
<1>2. CR # LF /\ CR # NUL /\ LF # NUL
  BY DEF CR, LF, NUL
<1> QED
  BY <1>1, <1>2 DEF Emitted

LEMMA EscStays ==
  ASSUME NEW e
  PROVE  \E t : normalizeByte(NewInput, e, 27) = Fed(t, <<27>>, <<>>) /\ t.lastCR = FALSE
<1> DEFINE t == [NewInput EXCEPT !.lastCR = CRAfter(NewInput, 27)]
<1>1. 27 \notin {CR, LF, NUL} /\ 27 # CR /\ 27 # LF /\ 27 # NUL
  BY DEF CR, LF, NUL
<1>2. normalizeByte(NewInput, e, 27) = Fed(t, <<27>>, <<>>)
  BY <1>1 DEF normalizeByte
<1>3. t.lastCR = FALSE
  BY <1>1 DEF CRAfter, NewInput
<1> QED
  BY <1>2, <1>3

LEMMA EmittedIs ==
  ASSUME NEW e \in {"cr", "crlf", "lf", "raw"}, NEW b \in 0..126
  PROVE  Emitted(e, b) \in Seq(0..126)
<1>1. CR \in 0..126 /\ LF \in 0..126
  BY DEF CR, LF
<1>2. <<>> \in Seq(0..126) /\ <<b>> \in Seq(0..126)
  OBVIOUS
<1>3. <<CR>> \in Seq(0..126) /\ <<LF>> \in Seq(0..126) /\ <<CR, LF>> \in Seq(0..126)
  BY <1>1
<1>4. emitEOL(e) \in Seq(0..126)
  BY <1>2, <1>3 DEF emitEOL
<1> QED
  BY <1>2, <1>4 DEF Emitted

\* One byte, and a byte after ESC, through feedTelnet: they stay as they are.
LEMMA TelnetOne ==
  ASSUME NEW m, NEW b \in 0..126
  PROVE  TelnetRun(m, Fed(NewInput, <<>>, <<>>), <<b>>) = Fed(NewInput, <<b>>, <<>>)
<1> DEFINE base == Fed(NewInput, <<>>, <<>>)
           Op(a, x) == Then(a, feedTelnet(a.t, m, x))
           data == <<b>>
           P(f) == f = [s \in SUBSET DOMAIN data |->
                          IF s = {} THEN base ELSE Op(f[s \ {Max(s)}], data[Max(s)])]
           g == [s \in SUBSET DOMAIN data |-> IF s = {} THEN base ELSE Op(base, b)]
<1>1. DOMAIN data = {1} /\ data[1] = b
  OBVIOUS
<1>2. P(g)
  <2> HIDE DEF Op, base, data
  <2>1. g[{}] = base
    BY <1>1
  <2>2. ASSUME NEW s \in SUBSET {1}, s # {} PROVE Max(s) = 1 /\ s \ {Max(s)} = {}
    <3>1. s = {1}
      BY <2>2
    <3> QED
      BY <3>1, FromTheTop
  <2> QED
    BY <1>1, <2>1, <2>2
<1>3. P(CHOOSE f : P(f))
  <2> HIDE DEF P, g
  <2> QED
    BY <1>2
<1>4. TelnetRun(m, base, data) = (CHOOSE f : P(f))[DOMAIN data]
  BY DEF TelnetRun, FoldLeft, MapThenFoldSet
<1>5. PICK c : P(c) /\ TelnetRun(m, base, data) = c[DOMAIN data]
  <2> HIDE DEF P
  <2> QED
    BY <1>3, <1>4
<1>6. c[{1}] = Op(base, b)
  <2> HIDE DEF Op, base, data
  <2>1. {} \in SUBSET DOMAIN data /\ {1} \in SUBSET DOMAIN data /\ {1} # {}
    BY <1>1
  <2>2. c[{}] = base /\ c[{1}] = Op(c[{1} \ {Max({1})}], data[Max({1})])
    BY <1>5, <2>1
  <2> QED
    BY <1>1, <2>2, FromTheTop
<1>7. Op(base, b) = Fed(NewInput, <<b>>, <<>>)
  <2>1. base.t = NewInput /\ base.raw = <<>> /\ base.rep = <<>>
    BY DEF Fed
  <2> HIDE DEF base, P, data
  <2>2. feedTelnet(NewInput, m, b) = Fed(NewInput, <<b>>, <<>>)
    BY ByteStays DEF NewInput
  <2>3. Op(base, b) = Then(base, Fed(NewInput, <<b>>, <<>>))
    BY <2>1, <2>2
  <2>4. <<>> \o <<b>> = <<b>> /\ <<>> \o <<>> = <<>>
    OBVIOUS
  <2> QED
    BY <2>1, <2>3, <2>4 DEF Then, Fed
<1> QED
  BY <1>1, <1>5, <1>6, <1>7

LEMMA EscThen == ASSUME NEW b \in 0..126 PROVE <<27>> \o <<b>> = <<27, b>>
<1> DEFINE x == <<27>>
           y == <<b>>
           z == <<27, b>>
<1>1. /\ x \in Seq(0..126) /\ y \in Seq(0..126) /\ z \in Seq(0..126)
      /\ Len(x) = 1 /\ Len(y) = 1 /\ Len(z) = 2 /\ x[1] = 27 /\ y[1] = b /\ z[1] = 27 /\ z[2] = b
  OBVIOUS
<1> HIDE DEF x, y, z
<1>2. x \o y \in Seq(0..126) /\ Len(x \o y) = 2 /\ (x \o y)[1] = 27 /\ (x \o y)[2] = b
  <2>1. /\ x \o y \in Seq(0..126) /\ Len(x \o y) = Len(x) + Len(y)
        /\ \A i \in 1..Len(x) + Len(y) : (x \o y)[i] = IF i <= Len(x) THEN x[i] ELSE y[i - Len(x)]
    BY <1>1, ConcatProperties
  <2>2. Len(x) + Len(y) = 2 /\ 1 \in 1..2 /\ 2 \in 1..2
    BY <1>1
  <2>3. (x \o y)[1] = x[1] /\ (x \o y)[2] = y[1]
    BY <1>1, <2>1, <2>2
  <2> QED
    BY <1>1, <2>1, <2>2, <2>3
<1>3. x \o y = z
  BY <1>1, <1>2, SeqEqual
<1> QED
  BY <1>3 DEF x, y, z

LEMMA TelnetTwo ==
  ASSUME NEW m, NEW b \in 0..126
  PROVE  TelnetRun(m, Fed(NewInput, <<>>, <<>>), <<27, b>>) = Fed(NewInput, <<27, b>>, <<>>)
<1> DEFINE base == Fed(NewInput, <<>>, <<>>)
           Op(a, x) == Then(a, feedTelnet(a.t, m, x))
           data == <<27, b>>
           P(f) == f = [s \in SUBSET DOMAIN data |->
                          IF s = {} THEN base ELSE Op(f[s \ {Max(s)}], data[Max(s)])]
           g == [s \in SUBSET DOMAIN data |->
                   IF s = {} THEN base ELSE IF s = {1} THEN Op(base, 27) ELSE IF s = {2} THEN Op(base, b)
                   ELSE Op(Op(base, 27), b)]
<1>1. DOMAIN data = {1, 2} /\ data[1] = 27 /\ data[2] = b
  OBVIOUS
<1>2. P(g)
  <2> HIDE DEF Op, base, data
  <2>1. {1} # {} /\ {2} # {} /\ {1, 2} # {} /\ {1} # {2} /\ {1} # {1, 2} /\ {2} # {1, 2}
    OBVIOUS
  <2>2. g[{}] = base /\ g[{1}] = Op(base, 27)
    BY <1>1, <2>1
  <2>3. ASSUME NEW s \in SUBSET {1, 2}
        PROVE  g[s] = IF s = {} THEN base ELSE Op(g[s \ {Max(s)}], data[Max(s)])
    <3> DEFINE h == g
    <3>1. g[s] = IF s = {} THEN base ELSE IF s = {1} THEN Op(base, 27) ELSE IF s = {2} THEN Op(base, b)
                 ELSE Op(Op(base, 27), b)
      BY <1>1
    <3> HIDE DEF g
    <3> QED
      BY <1>1, <2>1, <2>2, <3>1, FromTheTop
  <2> QED
    BY <1>1, <2>3
<1>3. P(CHOOSE f : P(f))
  <2> HIDE DEF P, g
  <2> QED
    BY <1>2
<1>4. TelnetRun(m, base, data) = (CHOOSE f : P(f))[DOMAIN data]
  BY DEF TelnetRun, FoldLeft, MapThenFoldSet
<1>5. PICK c : P(c) /\ TelnetRun(m, base, data) = c[DOMAIN data]
  <2> HIDE DEF P
  <2> QED
    BY <1>3, <1>4
<1>6. c[{1, 2}] = Op(Op(base, 27), b)
  <2> HIDE DEF Op, base, data
  <2>1. {} \in SUBSET DOMAIN data /\ {1} \in SUBSET DOMAIN data /\ {1, 2} \in SUBSET DOMAIN data
        /\ {1} # {} /\ {1, 2} # {}
    BY <1>1
  <2>2. /\ c[{}] = base /\ c[{1}] = Op(c[{1} \ {Max({1})}], data[Max({1})])
        /\ c[{1, 2}] = Op(c[{1, 2} \ {Max({1, 2})}], data[Max({1, 2})])
    BY <1>5, <2>1
  <2> QED
    BY <1>1, <2>2, FromTheTop
<1>7. Op(Op(base, 27), b) = Fed(NewInput, <<27, b>>, <<>>)
  <2>1. base.t = NewInput /\ base.raw = <<>> /\ base.rep = <<>>
    BY DEF Fed
  <2> HIDE DEF base, P, data
  <2>2. feedTelnet(NewInput, m, b) = Fed(NewInput, <<b>>, <<>>) /\ feedTelnet(NewInput, m, 27) = Fed(NewInput, <<27>>, <<>>)
    <3>1. NewInput.state = "data" /\ 27 \in 0..126
      BY DEF NewInput
    <3> QED
      BY <3>1, ByteStays
  <2>3. Op(base, 27) = Then(base, Fed(NewInput, <<27>>, <<>>))
    BY <2>1, <2>2
  <2>4. <<>> \o <<27>> = <<27>> /\ <<>> \o <<>> = <<>> /\ <<27>> \o <<b>> = <<27, b>>
    <3>1. <<27>> \o <<b>> = <<27, b>>
      BY EscThen
    <3>2. <<>> \o <<27>> = <<27>> /\ <<>> \o <<>> = <<>>
      OBVIOUS
    <3> QED
      BY <3>1, <3>2
  <2>5. Op(base, 27) = Fed(NewInput, <<27>>, <<>>)
    BY <2>1, <2>3, <2>4 DEF Then, Fed
  <2>6. Op(Op(base, 27), b) = Then(Fed(NewInput, <<27>>, <<>>), Fed(NewInput, <<b>>, <<>>))
    BY <2>2, <2>5 DEF Fed
  <2> QED
    BY <2>4, <2>6 DEF Then, Fed
<1> QED
  BY <1>1, <1>5, <1>6, <1>7

\* And through normalizeEOL.
LEMMA EolOne ==
  ASSUME NEW e \in {"cr", "crlf", "lf"}, NEW b \in 0..126
  PROVE  EolRun(e, Fed(NewInput, <<>>, <<>>), <<b>>).raw = Emitted(e, b)
<1> DEFINE base == Fed(NewInput, <<>>, <<>>)
           Op(a, x) == Then(a, normalizeByte(a.t, e, x))
           data == <<b>>
           P(f) == f = [s \in SUBSET DOMAIN data |->
                          IF s = {} THEN base ELSE Op(f[s \ {Max(s)}], data[Max(s)])]
           g == [s \in SUBSET DOMAIN data |-> IF s = {} THEN base ELSE Op(base, b)]
<1>1. DOMAIN data = {1} /\ data[1] = b
  OBVIOUS
<1>2. P(g)
  <2> HIDE DEF Op, base, data
  <2>1. g[{}] = base
    BY <1>1
  <2>2. ASSUME NEW s \in SUBSET {1}, s # {} PROVE Max(s) = 1 /\ s \ {Max(s)} = {}
    <3>1. s = {1}
      BY <2>2
    <3> QED
      BY <3>1, FromTheTop
  <2> QED
    BY <1>1, <2>1, <2>2
<1>3. P(CHOOSE f : P(f))
  <2> HIDE DEF P, g
  <2> QED
    BY <1>2
<1>4. EolRun(e, base, data) = (CHOOSE f : P(f))[DOMAIN data]
  BY DEF EolRun, FoldLeft, MapThenFoldSet
<1>5. PICK c : P(c) /\ EolRun(e, base, data) = c[DOMAIN data]
  <2> HIDE DEF P
  <2> QED
    BY <1>3, <1>4
<1>6. c[{1}] = Op(base, b)
  <2> HIDE DEF Op, base, data
  <2>1. {} \in SUBSET DOMAIN data /\ {1} \in SUBSET DOMAIN data /\ {1} # {}
    BY <1>1
  <2>2. c[{}] = base /\ c[{1}] = Op(c[{1} \ {Max({1})}], data[Max({1})])
    BY <1>5, <2>1
  <2> QED
    BY <1>1, <2>2, FromTheTop
<1>7. Op(base, b).raw = Emitted(e, b)
  <2>1. base.t = NewInput /\ base.raw = <<>> /\ base.rep = <<>>
    BY DEF Fed
  <2> HIDE DEF base, P, data
  <2>2. normalizeByte(NewInput, e, b).raw = Emitted(e, b)
    BY ByteEmitted DEF NewInput
  <2>3. Op(base, b).raw = <<>> \o Emitted(e, b)
    BY <2>1, <2>2 DEF Then, Fed
  <2>4. <<>> \o Emitted(e, b) = Emitted(e, b)
    BY EmittedIs
  <2> QED
    BY <2>3, <2>4
<1> QED
  BY <1>1, <1>5, <1>6, <1>7

LEMMA EolTwo ==
  ASSUME NEW e \in {"cr", "crlf", "lf"}, NEW b \in 0..126
  PROVE  EolRun(e, Fed(NewInput, <<>>, <<>>), <<27, b>>).raw = <<27>> \o Emitted(e, b)
<1> DEFINE base == Fed(NewInput, <<>>, <<>>)
           Op(a, x) == Then(a, normalizeByte(a.t, e, x))
           data == <<27, b>>
           P(f) == f = [s \in SUBSET DOMAIN data |->
                          IF s = {} THEN base ELSE Op(f[s \ {Max(s)}], data[Max(s)])]
           g == [s \in SUBSET DOMAIN data |->
                   IF s = {} THEN base ELSE IF s = {1} THEN Op(base, 27) ELSE IF s = {2} THEN Op(base, b)
                   ELSE Op(Op(base, 27), b)]
<1>1. DOMAIN data = {1, 2} /\ data[1] = 27 /\ data[2] = b
  OBVIOUS
<1>2. P(g)
  <2> HIDE DEF Op, base, data
  <2>1. {1} # {} /\ {2} # {} /\ {1, 2} # {} /\ {1} # {2} /\ {1} # {1, 2} /\ {2} # {1, 2}
    OBVIOUS
  <2>2. g[{}] = base /\ g[{1}] = Op(base, 27)
    BY <1>1, <2>1
  <2>3. ASSUME NEW s \in SUBSET {1, 2}
        PROVE  g[s] = IF s = {} THEN base ELSE Op(g[s \ {Max(s)}], data[Max(s)])
    <3> DEFINE h == g
    <3>1. g[s] = IF s = {} THEN base ELSE IF s = {1} THEN Op(base, 27) ELSE IF s = {2} THEN Op(base, b)
                 ELSE Op(Op(base, 27), b)
      BY <1>1
    <3> HIDE DEF g
    <3> QED
      BY <1>1, <2>1, <2>2, <3>1, FromTheTop
  <2> QED
    BY <1>1, <2>3
<1>3. P(CHOOSE f : P(f))
  <2> HIDE DEF P, g
  <2> QED
    BY <1>2
<1>4. EolRun(e, base, data) = (CHOOSE f : P(f))[DOMAIN data]
  BY DEF EolRun, FoldLeft, MapThenFoldSet
<1>5. PICK c : P(c) /\ EolRun(e, base, data) = c[DOMAIN data]
  <2> HIDE DEF P
  <2> QED
    BY <1>3, <1>4
<1>6. c[{1, 2}] = Op(Op(base, 27), b)
  <2> HIDE DEF Op, base, data
  <2>1. {} \in SUBSET DOMAIN data /\ {1} \in SUBSET DOMAIN data /\ {1, 2} \in SUBSET DOMAIN data
        /\ {1} # {} /\ {1, 2} # {}
    BY <1>1
  <2>2. /\ c[{}] = base /\ c[{1}] = Op(c[{1} \ {Max({1})}], data[Max({1})])
        /\ c[{1, 2}] = Op(c[{1, 2} \ {Max({1, 2})}], data[Max({1, 2})])
    BY <1>5, <2>1
  <2> QED
    BY <1>1, <2>2, FromTheTop
<1>7. Op(Op(base, 27), b).raw = <<27>> \o Emitted(e, b)
  <2>1. base.t = NewInput /\ base.raw = <<>> /\ base.rep = <<>>
    BY DEF Fed
  <2> HIDE DEF base, P, data
  <2>2. PICK t : normalizeByte(NewInput, e, 27) = Fed(t, <<27>>, <<>>) /\ t.lastCR = FALSE
    BY EscStays
  <2>3. normalizeByte(t, e, b).raw = Emitted(e, b)
    BY <2>2, ByteEmitted
  <2>4. Op(base, 27).t = t /\ Op(base, 27).raw = <<27>>
    <3>1. <<>> \o <<27>> = <<27>>
      OBVIOUS
    <3> QED
      BY <2>1, <2>2, <3>1 DEF Then, Fed
  <2>5. \A a : Op(a, b).raw = a.raw \o normalizeByte(a.t, e, b).raw
    BY DEF Then, Fed
  <2> QED
    BY <2>3, <2>4, <2>5
<1> QED
  BY <1>1, <1>5, <1>6, <1>7

Modes == {"raw", "telnet", "auto"}
Eols  == {"cr", "crlf", "lf", "raw"}

\* What Process makes of a key press.
LEMMA Pressed ==
  ASSUME NEW m \in Modes, NEW e \in Eols, NEW b \in 0..126
  PROVE  /\ Process(NewInput, m, e, <<b>>).raw = Emitted(e, b)
         /\ Process(NewInput, m, e, <<27, b>>).raw = <<27>> \o Emitted(e, b)
<1>1. ASSUME NEW data,
             m # "raw" => TelnetRun(m, Fed(NewInput, <<>>, <<>>), data) = Fed(NewInput, data, <<>>)
      PROVE  Process(NewInput, m, e, data).raw =
               IF e = "raw" THEN data ELSE EolRun(e, Fed(NewInput, <<>>, <<>>), data).raw
  <2> DEFINE clean == IF m = "raw" THEN Fed(NewInput, data, <<>>)
                      ELSE TelnetRun(m, Fed(NewInput, <<>>, <<>>), data)
             out == normalizeEOL(clean.t, e, clean.raw)
  <2>1. clean = Fed(NewInput, data, <<>>)
    BY <1>1
  <2>2. Process(NewInput, m, e, data) = Fed(out.t, out.raw, clean.rep)
    BY DEF Process, TelnetRun
  <2>3. Process(NewInput, m, e, data).raw = out.raw
    BY <2>2 DEF Fed
  <2>4. clean.t = NewInput /\ clean.raw = data
    BY <2>1 DEF Fed
  <2> HIDE DEF clean
  <2>5. out = IF e = "raw" THEN Fed(NewInput, data, <<>>) ELSE EolRun(e, Fed(NewInput, <<>>, <<>>), data)
    BY <2>4 DEF normalizeEOL, EolRun
  <2>6. Fed(NewInput, data, <<>>).raw = data
    BY DEF Fed
  <2> HIDE DEF out
  <2> QED
    BY <2>3, <2>5, <2>6
<1>2. Process(NewInput, m, e, <<b>>).raw =
        IF e = "raw" THEN <<b>> ELSE EolRun(e, Fed(NewInput, <<>>, <<>>), <<b>>).raw
  BY <1>1, TelnetOne
<1>3. Process(NewInput, m, e, <<27, b>>).raw =
        IF e = "raw" THEN <<27, b>> ELSE EolRun(e, Fed(NewInput, <<>>, <<>>), <<27, b>>).raw
  BY <1>1, TelnetTwo
<1>4. e # "raw" => e \in {"cr", "crlf", "lf"}
  BY DEF Eols
<1>5. e = "raw" => Emitted(e, b) = <<b>>
  BY DEF Emitted
<1> QED
  BY <1>2, <1>3, <1>4, <1>5, EolOne, EolTwo, EscThen

\* Where a hotkey of one byte is found, and one of two that begins with ESC.
LEMMA FoundOne ==
  ASSUME NEW h \in 0..126, hotkey = <<h>>, NEW r \in Seq(0..126)
  PROVE  Found(r) <=> \E k \in 1..Len(r) : r[k] = h
<1>1. Len(hotkey) = 1 /\ hotkey[1] = h /\ Len(r) \in Nat
  OBVIOUS
<1>2. Found(r) <=> \E i \in 0..Len(r) - 1 : r[i + 1] = h
  BY <1>1 DEF Found
<1>3. ASSUME NEW k \in 1..Len(r), r[k] = h PROVE \E i \in 0..Len(r) - 1 : r[i + 1] = h
  <2>1. k - 1 \in 0..Len(r) - 1 /\ (k - 1) + 1 = k
    BY <1>1
  <2> QED
    BY <1>3, <2>1
<1>4. ASSUME NEW i \in 0..Len(r) - 1, r[i + 1] = h PROVE \E k \in 1..Len(r) : r[k] = h
  <2>1. i + 1 \in 1..Len(r)
    BY <1>1
  <2> QED
    BY <1>4, <2>1
<1> QED
  BY <1>2, <1>3, <1>4

LEMMA FoundTwo ==
  ASSUME NEW h \in 0..126, hotkey = <<27, h>>, NEW r \in Seq(0..126), 27 \notin {r[k] : k \in 1..Len(r) - 1}
  PROVE  Found(<<27>> \o r) <=> Len(r) > 0 /\ r[1] = h
<1> DEFINE q == <<27>> \o r
<1>1. /\ Len(hotkey) = 2 /\ hotkey[1] = 27 /\ hotkey[2] = h
      /\ Len(r) \in Nat /\ <<27>> \in Seq(0..126) /\ Len(<<27>>) = 1
  OBVIOUS
<1>2. Len(q) = Len(r) + 1 /\ q[1] = 27 /\ \A i \in 1..Len(r) : q[i + 1] = r[i]
  <2>1. /\ Len(q) = Len(<<27>>) + Len(r)
        /\ \A i \in 1..Len(<<27>>) + Len(r) : q[i] = IF i <= Len(<<27>>) THEN <<27>>[i] ELSE r[i - Len(<<27>>)]
    BY <1>1, ConcatProperties
  <2> HIDE DEF q
  <2>2. q[1] = 27
    <3>1. 1 \in 1..1 + Len(r)
      BY <1>1
    <3> QED
      BY <1>1, <2>1, <3>1
  <2>3. ASSUME NEW i \in 1..Len(r) PROVE q[i + 1] = r[i]
    <3>1. i + 1 \in 1..1 + Len(r) /\ ~(i + 1 <= 1) /\ (i + 1) - 1 = i
      BY <1>1
    <3> QED
      BY <1>1, <2>1, <3>1
  <2> QED
    BY <1>1, <2>1, <2>2, <2>3
<1> HIDE DEF q
<1>3. Found(q) <=> \E i \in 0..Len(r) - 1 : q[i + 1] = 27 /\ q[i + 2] = h
  <2>1. Found(q) <=> \E i \in 0..(Len(r) + 1) - 2 : \A k \in 1..2 : q[i + k] = hotkey[k]
    BY <1>1, <1>2 DEF Found
  <2>2. (Len(r) + 1) - 2 = Len(r) - 1
    BY <1>1
  <2> QED
    BY <1>1, <2>1, <2>2
<1>4. ASSUME Len(r) > 0, r[1] = h PROVE Found(q)
  <2>1. 0 \in 0..Len(r) - 1 /\ 1 \in 1..Len(r) /\ 0 + 1 = 1 /\ 0 + 2 = 1 + 1
    BY <1>1, <1>4
  <2>2. q[0 + 1] = 27 /\ q[0 + 2] = h
    BY <1>2, <1>4, <2>1
  <2> QED
    BY <1>3, <2>1, <2>2
<1>5. ASSUME NEW i \in 0..Len(r) - 1, q[i + 1] = 27, q[i + 2] = h PROVE Len(r) > 0 /\ r[1] = h
  <2>1. CASE i = 0
    <3>1. 1 \in 1..Len(r) /\ i + 2 = 1 + 1
      BY <1>1, <2>1
    <3> QED
      BY <1>1, <1>2, <1>5, <3>1
  <2>2. CASE i # 0
    <3>1. i \in 1..Len(r) - 1 /\ i \in 1..Len(r)
      BY <1>1, <2>2
    <3>2. r[i] = 27
      BY <1>2, <1>5, <3>1
    <3> QED
      BY <3>1, <3>2
  <2> QED
    BY <2>1, <2>2
<1>6. Found(q) <=> Len(r) > 0 /\ r[1] = h
  BY <1>3, <1>4, <1>5
<1> QED
  BY <1>6 DEF q

\* What is left of a byte: nothing, the byte, or an Enter.
LEMMA EmittedCases ==
  ASSUME NEW e \in Eols, NEW b \in 0..126, NEW r, r = Emitted(e, b)
  PROVE  /\ r \in Seq(0..126)
         /\ \/ e # "raw" /\ b = 0 /\ Len(r) = 0
            \/ ~(e # "raw" /\ b \in {0, 10, 13}) /\ Len(r) = 1 /\ r[1] = b
            \/ e = "cr" /\ b \in {10, 13} /\ Len(r) = 1 /\ r[1] = 13
            \/ e = "lf" /\ b \in {10, 13} /\ Len(r) = 1 /\ r[1] = 10
            \/ e = "crlf" /\ b \in {10, 13} /\ Len(r) = 2 /\ r[1] = 13 /\ r[2] = 10
<1>1. r \in Seq(0..126)
  BY EmittedIs DEF Eols
<1>2. r = IF e = "raw" \/ b \notin {13, 10, 0} THEN <<b>>
          ELSE IF b = 0 THEN <<>> ELSE IF e = "cr" THEN <<13>> ELSE IF e = "crlf" THEN <<13, 10>> ELSE <<10>>
  BY DEF Emitted, emitEOL, CR, LF, NUL, Eols
<1>3. CASE e = "raw" \/ b \notin {13, 10, 0}
  BY <1>1, <1>2, <1>3
<1>4. CASE e # "raw" /\ b = 0
  BY <1>1, <1>2, <1>4
<1>5. CASE e # "raw" /\ b \in {13, 10}
  BY <1>1, <1>2, <1>5 DEF Eols
<1> QED
  BY <1>3, <1>4, <1>5

\* A hotkey of one byte is found when it is pressed, and one that begins with ESC, but for
\* the bytes that are dropped or become another Enter.
LEMMA OutcomeOne ==
  ASSUME NEW e \in Eols, NEW h \in 0..126, hotkey = <<h>>
  PROVE  Found(Emitted(e, h)) <=> ~((h = 0 /\ e # "raw") \/ (h = 13 /\ e = "lf") \/ (h = 10 /\ e = "cr"))
<1> DEFINE r == Emitted(e, h)
<1>1. /\ r \in Seq(0..126)
      /\ \/ e # "raw" /\ h = 0 /\ Len(r) = 0
         \/ ~(e # "raw" /\ h \in {0, 10, 13}) /\ Len(r) = 1 /\ r[1] = h
         \/ e = "cr" /\ h \in {10, 13} /\ Len(r) = 1 /\ r[1] = 13
         \/ e = "lf" /\ h \in {10, 13} /\ Len(r) = 1 /\ r[1] = 10
         \/ e = "crlf" /\ h \in {10, 13} /\ Len(r) = 2 /\ r[1] = 13 /\ r[2] = 10
  BY EmittedCases
<1> HIDE DEF r
<1>2. Found(r) <=> \E k \in 1..Len(r) : r[k] = h
  BY <1>1, FoundOne
<1>3. Found(r) <=> ~((h = 0 /\ e # "raw") \/ (h = 13 /\ e = "lf") \/ (h = 10 /\ e = "cr"))
  <2>1. Len(r) = 0 => ~Found(r)
    BY <1>2
  <2>2. Len(r) = 1 => (Found(r) <=> r[1] = h)
    BY <1>2
  <2>3. Len(r) = 2 => (Found(r) <=> r[1] = h \/ r[2] = h)
    BY <1>2
  <2>4. CASE e # "raw" /\ h = 0 /\ Len(r) = 0
    BY <2>1, <2>4
  <2>5. CASE ~(e # "raw" /\ h \in {0, 10, 13}) /\ Len(r) = 1 /\ r[1] = h
    BY <2>2, <2>5
  <2>6. CASE e = "cr" /\ h \in {10, 13} /\ Len(r) = 1 /\ r[1] = 13
    BY <2>2, <2>6
  <2>7. CASE e = "lf" /\ h \in {10, 13} /\ Len(r) = 1 /\ r[1] = 10
    BY <2>2, <2>7
  <2>8. CASE e = "crlf" /\ h \in {10, 13} /\ Len(r) = 2 /\ r[1] = 13 /\ r[2] = 10
    BY <2>3, <2>8
  <2> QED
    BY <1>1, <2>4, <2>5, <2>6, <2>7, <2>8
<1> QED
  BY <1>3 DEF r

LEMMA OutcomeTwo ==
  ASSUME NEW e \in Eols, NEW h \in 0..126, hotkey = <<27, h>>, NEW ch \in 0..126,
         ch = h \/ (h \in UpperCase /\ ch = h + 32)
  PROVE  Found(<<27>> \o Emitted(e, ch)) <=>
           ~((h = 0 /\ e # "raw") \/ (h = 13 /\ e = "lf") \/ (h = 10 /\ (e = "cr" \/ e = "crlf")) \/ ch # h)
<1> DEFINE r == Emitted(e, ch)
<1>1. /\ r \in Seq(0..126)
      /\ \/ e # "raw" /\ ch = 0 /\ Len(r) = 0
         \/ ~(e # "raw" /\ ch \in {0, 10, 13}) /\ Len(r) = 1 /\ r[1] = ch
         \/ e = "cr" /\ ch \in {10, 13} /\ Len(r) = 1 /\ r[1] = 13
         \/ e = "lf" /\ ch \in {10, 13} /\ Len(r) = 1 /\ r[1] = 10
         \/ e = "crlf" /\ ch \in {10, 13} /\ Len(r) = 2 /\ r[1] = 13 /\ r[2] = 10
  BY EmittedCases
<1> HIDE DEF r
<1>2. 27 \notin {r[k] : k \in 1..Len(r) - 1}
  <2>1. ASSUME NEW k \in 1..Len(r) - 1 PROVE r[k] # 27
    <3>1. Len(r) = 0 \/ Len(r) = 1 \/ (Len(r) = 2 /\ r[1] = 13)
      BY <1>1
    <3>2. Len(r) # 0 /\ Len(r) # 1
      <4>1. CASE Len(r) = 0
        <5>1. Len(r) - 1 = -1
          BY <4>1
        <5>2. k \in 1..-1
          BY <5>1
        <5> QED
          BY <5>2
      <4>2. CASE Len(r) = 1
        <5>1. Len(r) - 1 = 0
          BY <4>2
        <5>2. k \in 1..0
          BY <5>1
        <5> QED
          BY <5>2
      <4> QED
        BY <4>1, <4>2
    <3>3. Len(r) = 2 /\ r[1] = 13
      BY <3>1, <3>2
    <3>4. k = 1
      BY <3>3
    <3> QED
      BY <3>3, <3>4
  <2> QED
    BY <2>1
<1>3. Found(<<27>> \o r) <=> Len(r) > 0 /\ r[1] = h
  BY <1>1, <1>2, FoundTwo
<1>4. ch # h => ch \notin {0, 10, 13} /\ h \notin {0, 10, 13}
  BY DEF UpperCase
<1>5. Found(<<27>> \o r) <=>
        ~((h = 0 /\ e # "raw") \/ (h = 13 /\ e = "lf") \/ (h = 10 /\ (e = "cr" \/ e = "crlf")) \/ ch # h)
  <2>1. CASE ch # h
    <3>1. Len(r) = 1 /\ r[1] = ch
      BY <1>1, <1>4, <2>1
    <3> QED
      BY <1>3, <2>1, <3>1
  <2>2. CASE ch = h
    <3>1. CASE e # "raw" /\ ch = 0 /\ Len(r) = 0
      BY <1>3, <2>2, <3>1
    <3>2. CASE ~(e # "raw" /\ ch \in {0, 10, 13}) /\ Len(r) = 1 /\ r[1] = ch
      BY <1>3, <2>2, <3>2
    <3>3. CASE e = "cr" /\ ch \in {10, 13} /\ Len(r) = 1 /\ r[1] = 13
      BY <1>3, <2>2, <3>3
    <3>4. CASE e = "lf" /\ ch \in {10, 13} /\ Len(r) = 1 /\ r[1] = 10
      BY <1>3, <2>2, <3>4
    <3>5. CASE e = "crlf" /\ ch \in {10, 13} /\ Len(r) = 2 /\ r[1] = 13 /\ r[2] = 10
      BY <1>3, <2>2, <3>5
    <3> QED
      BY <1>1, <3>1, <3>2, <3>3, <3>4, <3>5
  <2> QED
    BY <2>1, <2>2
<1> QED
  BY <1>5 DEF r

\* What a terminal sends for the key of a hotkey is the hotkey's byte, but for the upper-case
\* letter that is named with Alt alone.
Char(spec) ==
  CASE Has(spec, Ctrl) /\ Key(spec) \in LowerCase -> Key(spec) - 96
    [] Has(spec, Ctrl) /\ Key(spec) \notin LowerCase -> Key(spec) - 64
    [] ~Has(spec, Ctrl) /\ Has(spec, Shift) -> Key(spec) - 32
    [] ~Has(spec, Ctrl) /\ ~Has(spec, Shift) -> Key(spec)

AltUpper(spec) == Has(spec, Alt) /\ ~Has(spec, Ctrl) /\ ~Has(spec, Shift) /\ spec.key[1] \in UpperCase

LEMMA ModifiedIs ==
  ASSUME NEW spec PROVE Modified(spec) <=> Has(spec, Ctrl) \/ Has(spec, Alt) \/ Has(spec, Shift)
BY DEF Modified, Has

LEMMA CharIs ==
  ASSUME NEW spec, Agreed(spec)
  PROVE  /\ Char(spec) \in 0..126 /\ KeyByte(spec) \in 0..126
         /\ IF AltUpper(spec) THEN KeyByte(spec) \in UpperCase /\ Char(spec) = KeyByte(spec) + 32
            ELSE Char(spec) = KeyByte(spec)
<1> DEFINE c == spec.key[1]
           k == Key(spec)
<1>1. /\ c \in 33..126
      /\ k = IF (Has(spec, Ctrl) \/ Has(spec, Alt) \/ Has(spec, Shift)) /\ c \in UpperCase THEN c + 32 ELSE c
      /\ Has(spec, Ctrl) => k \in LowerCase \cup {64} \cup 91..95
      /\ Has(spec, Shift) => k \in LowerCase
  BY ModifiedIs DEF Agreed, Key
<1>2. KeyByte(spec) =
        LET ch == IF (Has(spec, Shift) \/ Has(spec, Ctrl)) /\ c \in LowerCase THEN c - 32 ELSE c
        IN IF Has(spec, Ctrl) THEN ch % 32 ELSE ch
  BY DEF KeyByte
<1> HIDE DEF c, k
<1>3. CASE Has(spec, Ctrl) /\ k \in LowerCase
  <2>1. Char(spec) = k - 96 /\ ~AltUpper(spec)
    BY <1>3 DEF Char, AltUpper, k
  <2>2. (c \in UpperCase /\ k = c + 32) \/ (c \in LowerCase /\ k = c)
    BY <1>1, <1>3 DEF UpperCase, LowerCase
  <2>3. KeyByte(spec) = (k - 32) % 32
    BY <1>1, <1>2, <1>3, <2>2 DEF UpperCase, LowerCase
  <2>4. k \in 97..122
    BY <1>3 DEF LowerCase
  <2>5. (k - 32) % 32 = k - 96 /\ k - 96 \in 0..126
    BY <2>4
  <2> QED
    BY <2>1, <2>3, <2>5
<1>4. CASE Has(spec, Ctrl) /\ k \notin LowerCase
  <2>1. Char(spec) = k - 64 /\ ~AltUpper(spec)
    BY <1>4 DEF Char, AltUpper, k
  <2>2. k \in {64} \cup 91..95 /\ c = k
    BY <1>1, <1>4 DEF UpperCase, LowerCase
  <2>3. KeyByte(spec) = k % 32
    BY <1>2, <1>4, <2>2
  <2>4. k % 32 = k - 64 /\ k - 64 \in 0..126
    BY <2>2
  <2> QED
    BY <2>1, <2>3, <2>4
<1>5. CASE ~Has(spec, Ctrl) /\ Has(spec, Shift)
  <2>1. Char(spec) = k - 32 /\ ~AltUpper(spec)
    BY <1>5 DEF Char, AltUpper, k
  <2>2. (c \in UpperCase /\ k = c + 32) \/ (c \in LowerCase /\ k = c)
    BY <1>1, <1>5 DEF UpperCase, LowerCase
  <2>3. KeyByte(spec) = k - 32
    BY <1>1, <1>2, <1>5, <2>2 DEF UpperCase, LowerCase
  <2>4. k - 32 \in 0..126
    BY <1>1, <1>5 DEF LowerCase
  <2> QED
    BY <2>1, <2>3, <2>4
<1>6. CASE ~Has(spec, Ctrl) /\ ~Has(spec, Shift)
  <2>1. Char(spec) = k /\ KeyByte(spec) = c
    BY <1>2, <1>6 DEF Char, k
  <2>2. AltUpper(spec) <=> Has(spec, Alt) /\ c \in UpperCase
    BY <1>6 DEF AltUpper, c
  <2>3. k = IF AltUpper(spec) THEN c + 32 ELSE c
    BY <1>1, <1>6, <2>2
  <2> QED
    BY <1>1, <2>1, <2>2, <2>3 DEF UpperCase
<1> QED
  BY <1>3, <1>4, <1>5, <1>6

\* What the user presses is found exactly if it is not one of the keys that Unreachable names.
LEMMA Reaches ==
  ASSUME NEW spec, Agreed(spec), hotkey = parseHotkey(spec), hotkey # <<>>,
         cfg.eol \in Eols, cfg.mode \in Modes
  PROVE  Found(Process(NewInput, cfg.mode, cfg.eol, Sent(spec)).raw) <=> ~Unreachable(spec)
<1> DEFINE h == KeyByte(spec)
           c == Char(spec)
           e == cfg.eol
<1>1. hotkey = IF Has(spec, Alt) THEN <<27, h>> ELSE <<h>>
  BY DEF parseHotkey
<1>2. Sent(spec) = IF Has(spec, Alt) THEN <<27, c>> ELSE <<c>>
  BY DEF Sent, Char
<1>3. /\ c \in 0..126 /\ h \in 0..126
      /\ IF AltUpper(spec) THEN h \in UpperCase /\ c = h + 32 ELSE c = h
  BY CharIs
<1>4. hotkey[Len(hotkey)] = h
  BY <1>1
<1>5. Unreachable(spec) <=>
        \/ h = 0 /\ e # "raw"
        \/ h = 13 /\ e = "lf"
        \/ h = 10 /\ (e = "cr" \/ (e = "crlf" /\ Has(spec, Alt)))
        \/ AltUpper(spec)
  BY <1>4 DEF Unreachable, AltUpper, NUL, CR, LF
<1>6. AltUpper(spec) => Has(spec, Alt)
  BY DEF AltUpper
<1> HIDE DEF h, c, e
<1>7. e \in Eols
  BY DEF e
<1>8. /\ Process(NewInput, cfg.mode, e, <<c>>).raw = Emitted(e, c)
      /\ Process(NewInput, cfg.mode, e, <<27, c>>).raw = <<27>> \o Emitted(e, c)
  BY <1>3, <1>7, Pressed
<1>9. CASE ~Has(spec, Alt)
  <2>1. hotkey = <<h>> /\ Sent(spec) = <<c>> /\ c = h
    BY <1>1, <1>2, <1>3, <1>6, <1>9
  <2>2. Process(NewInput, cfg.mode, cfg.eol, Sent(spec)).raw = Emitted(e, h)
    BY <1>8, <2>1 DEF e
  <2>3. Found(Emitted(e, h)) <=> ~((h = 0 /\ e # "raw") \/ (h = 13 /\ e = "lf") \/ (h = 10 /\ e = "cr"))
    BY <1>3, <1>7, <2>1, OutcomeOne
  <2> QED
    BY <1>5, <1>6, <1>9, <2>2, <2>3
<1>10. CASE Has(spec, Alt)
  <2>1. hotkey = <<27, h>> /\ Sent(spec) = <<27, c>>
    BY <1>1, <1>2, <1>10
  <2>2. Process(NewInput, cfg.mode, cfg.eol, Sent(spec)).raw = <<27>> \o Emitted(e, c)
    BY <1>8, <2>1 DEF e
  <2>3. c = h \/ (h \in UpperCase /\ c = h + 32)
    BY <1>3
  <2>4. Found(<<27>> \o Emitted(e, c)) <=>
          ~((h = 0 /\ e # "raw") \/ (h = 13 /\ e = "lf") \/ (h = 10 /\ (e = "cr" \/ e = "crlf")) \/ c # h)
    BY <1>3, <1>7, <2>1, <2>3, OutcomeTwo
  <2>5. c # h <=> AltUpper(spec)
    BY <1>3
  <2> QED
    BY <1>5, <1>10, <2>2, <2>4, <2>5
<1> QED
  BY <1>9, <1>10

--------------------------------------------------------------------------------
(* Starting.                                                               *)

\* The setting after the file, after the environment, and after the flags.
FromFile(s) ==
  IF s \in DOMAIN Given(file) /\ FileReads(s, Given(file)[s]) THEN FileValue(s, Given(file)[s])
  ELSE defaultConfig[s]

FromEnv(s) == IF s \in DOMAIN env /\ EnvReads(s, env[s]) THEN EnvValue(s, env[s]) ELSE FromFile(s)

FromFlags(s) == IF s \in DOMAIN flags THEN FlagValue(s, flags[s]) ELSE FromEnv(s)

\* What the settings amount to when all sources have been read.
Final == [s \in Settings |-> IF s = "log_level" THEN Upper(FromFlags(s)) ELSE FromFlags(s)]

\* A value of the file has a type that its word has.
Literals(g) ==
  \A s \in DOMAIN g : g[s].type \in {"str", "int", "float", "bool"} /\ Literal(g[s].type, g[s].word)

Resolved ==
  /\ pc \in {"parse", "file", "env", "flags", "validate", "serving", "pressed", "dead"}
  /\ pc \in {"parse", "file"} => cfg = defaultConfig
  /\ pc \notin {"parse", "dead"} => Readable
  /\ pc \notin {"file", "dead"} => ~fileFatal
  /\ pc = "file" => ~fileFatal
  /\ Literals(Given(file)) /\ DOMAIN flags \subseteq Settings
  /\ pc = "env" => cfg = [s \in Settings |-> FromFile(s)]
  /\ pc = "flags" => cfg = [s \in Settings |-> FromEnv(s)]
  /\ pc = "validate" => cfg = [s \in Settings |-> FromFlags(s)]
  /\ pc \in {"serving", "pressed"} =>
       /\ cfg = Final /\ Acceptable(Final)
       /\ window = IF Lower(Final.resize) \in Off THEN <<>> ELSE parseResize(Final.resize)
  /\ pc = "dead" => ~Readable \/ fileFatal \/ ~Acceptable(Final)

\* Settings a configuration is checked for.
LEMMA Checked == {"host", "resize", "mode", "eol", "framing", "log_level", "tui", "hotkey"} \subseteq Settings
BY DEF Settings, Strings, Switches

LEMMA Kinds ==
  /\ \A s \in Settings : Kind[s] \in {"str", "int", "float", "bool"}
  /\ Kind["log_level"] = "str" /\ Kind["resize"] = "str" /\ Kind["tui"] = "bool"
BY DEF Kind, Settings, Strings, Integral, Delays, Switches

(* The readers and what words say.                                         *)

\* A word is the lower case of all it is alike to, a level the upper case.
LEMMA SpellingIs ==
  ASSUME NEW f \in Spellings, NEW w \in f.all PROVE Spelled(w) /\ Spelling(w) = f
<1>1. Spelled(w)
  BY DEF Spelled
<1>2. Spelling(w) \in Spellings /\ w \in Spelling(w).all
  BY DEF Spelling
<1> QED
  BY <1>1, <1>2, ConfigAssumption

LEMMA LowerIs == ASSUME NEW w, NEW y \in On \cup Off PROVE Lower(w) = y <=> Alike(y, w)
<1>1. CASE Spelled(w)
  <2>1. PICK f \in Spellings : w \in f.all
    BY <1>1 DEF Spelled
  <2>2. Lower(w) = f.lower
    BY <1>1, <2>1, SpellingIs DEF Lower
  <2>3. f.lower \in f.all /\ f.all \cap (Off \cup On) \subseteq {f.lower}
    BY ConfigAssumption
  <2>4. ASSUME Alike(y, w) PROVE y \in f.all
    <3>1. CASE y = w
      BY <2>1, <3>1
    <3>2. CASE y # w
      <4>1. PICK g \in Spellings : {y, w} \subseteq g.all
        BY <2>4, <3>2 DEF Alike
      <4>2. f.all \cap g.all # {}
        BY <2>1, <4>1
      <4>3. g = f
        BY <4>2, ConfigAssumption
      <4> QED
        BY <4>1, <4>3
    <3> QED
      BY <3>1, <3>2
  <2>5. Alike(y, w) => Lower(w) = y
    BY <2>2, <2>3, <2>4
  <2>6. ASSUME Lower(w) = y PROVE Alike(y, w)
    <3>1. {y, w} \subseteq f.all
      BY <2>1, <2>2, <2>3, <2>6
    <3> QED
      BY <3>1 DEF Alike
  <2> QED
    BY <2>5, <2>6
<1>2. CASE ~Spelled(w)
  <2>1. Alike(y, w) <=> y = w
    BY <1>2 DEF Alike, Spelled
  <2> QED
    BY <1>2, <2>1 DEF Lower
<1> QED
  BY <1>1, <1>2

LEMMA UpperIs == ASSUME NEW w, NEW y \in Levels PROVE Upper(w) = y <=> Alike(y, w)
<1>1. CASE Spelled(w)
  <2>1. PICK f \in Spellings : w \in f.all
    BY <1>1 DEF Spelled
  <2>2. Upper(w) = f.upper
    BY <1>1, <2>1, SpellingIs DEF Upper
  <2>3. f.upper \in f.all /\ f.all \cap Levels \subseteq {f.upper}
    BY ConfigAssumption
  <2>4. ASSUME Alike(y, w) PROVE y \in f.all
    <3>1. CASE y = w
      BY <2>1, <3>1
    <3>2. CASE y # w
      <4>1. PICK g \in Spellings : {y, w} \subseteq g.all
        BY <2>4, <3>2 DEF Alike
      <4>2. f.all \cap g.all # {}
        BY <2>1, <4>1
      <4>3. g = f
        BY <4>2, ConfigAssumption
      <4> QED
        BY <4>1, <4>3
    <3> QED
      BY <3>1, <3>2
  <2>5. Alike(y, w) => Upper(w) = y
    BY <2>2, <2>3, <2>4
  <2>6. ASSUME Upper(w) = y PROVE Alike(y, w)
    <3>1. {y, w} \subseteq f.all
      BY <2>1, <2>2, <2>3, <2>6
    <3> QED
      BY <3>1 DEF Alike
  <2> QED
    BY <2>5, <2>6
<1>2. CASE ~Spelled(w)
  <2>1. Alike(y, w) <=> y = w
    BY <1>2 DEF Alike, Spelled
  <2> QED
    BY <1>2, <2>1 DEF Upper
<1> QED
  BY <1>1, <1>2

\* A setting but the log level is read as what its word says; the log level is folded later.
LEMMA FlagIs ==
  ASSUME NEW s \in Settings, NEW w
  PROVE  /\ FlagReads(s, w) <=> Understood("flag", s, w)
         /\ FlagReads(s, w) /\ s # "log_level" => FlagValue(s, w) = Says("flag", s, w)
<1> DEFINE k == Kind[s]
<1>1. k \in {"str", "int", "float", "bool"}
  BY Kinds
<1>2. "flag" # "env" /\ "flag" # "file"
  OBVIOUS
<1>3. Forms["flag"]["int"] = {"decimal", "based"} /\ Forms["flag"]["float"] = {"decimal", "fraction"}
  BY DEF Forms
<1>4. CASE k = "str"
  BY <1>4 DEF FlagReads, FlagValue, Understood, Says, Numeric
<1>5. CASE k = "int"
  BY <1>3, <1>5 DEF FlagReads, FlagValue, Understood, Says, Numeric, Number
<1>6. CASE k = "float"
  BY <1>3, <1>6 DEF FlagReads, FlagValue, Understood, Says, Numeric, Number
<1>7. CASE k = "bool"
  <2>1. ParsedTrue \cap ParsedFalse = {}
    BY DEF ParsedTrue, ParsedFalse
  <2>2. FlagReads(s, w) <=> Understood("flag", s, w)
    BY <1>7 DEF FlagReads, Understood, Numeric
  <2>3. FlagReads(s, w) => (w \in ParsedFalse <=> w \notin ParsedTrue)
    BY <1>7, <2>1 DEF FlagReads
  <2>4. FlagValue(s, w) = (w \in ParsedFalse)
    BY <1>7 DEF FlagValue
  <2>5. s # "log_level" => Says("flag", s, w) = (w \notin ParsedTrue)
    BY <1>2, <1>7 DEF Says, Numeric
  <2> QED
    BY <2>2, <2>3, <2>4, <2>5
<1> QED
  BY <1>1, <1>4, <1>5, <1>6, <1>7

LEMMA EnvIs ==
  ASSUME NEW s \in Settings, NEW w
  PROVE  /\ EnvReads(s, w) <=> Understood("env", s, w)
         /\ s # "log_level" => EnvValue(s, w) = Says("env", s, w)
<1> DEFINE k == Kind[s]
<1>1. k \in {"str", "int", "float", "bool"}
  BY Kinds
<1>2. "flag" # "env" /\ "env" # "file"
  OBVIOUS
<1>3. Forms["env"]["int"] = {"decimal"} /\ Forms["env"]["float"] = {"decimal", "fraction"}
  BY DEF Forms
<1>4. CASE k = "str"
  BY <1>4 DEF EnvReads, EnvValue, Understood, Says, Numeric
<1>5. CASE k = "int"
  BY <1>3, <1>5 DEF EnvReads, EnvValue, Understood, Says, Numeric, Number
<1>6. CASE k = "float"
  BY <1>3, <1>6 DEF EnvReads, EnvValue, Understood, Says, Numeric, Number
<1>7. CASE k = "bool"
  <2>1. Lower(w) \in On <=> \E y \in On : Alike(y, w)
    BY LowerIs
  <2>2. EnvReads(s, w) /\ Understood("env", s, w)
    BY <1>2, <1>7 DEF EnvReads, Understood, Numeric
  <2>3. EnvValue(s, w) = (Lower(w) \in On)
    BY <1>7 DEF EnvValue
  <2>4. s # "log_level" => Says("env", s, w) = (\E y \in On : Alike(y, w))
    BY <1>2, <1>7 DEF Says, Numeric
  <2>5. CASE Lower(w) \in On
    <3>1. EnvValue(s, w) = TRUE /\ (s # "log_level" => Says("env", s, w) = TRUE)
      BY <2>1, <2>3, <2>4, <2>5
    <3> QED
      BY <2>2, <3>1
  <2>6. CASE Lower(w) \notin On
    <3>1. (Lower(w) \in On) = FALSE
      BY <2>6
    <3>2. EnvValue(s, w) = FALSE
      BY <2>3, <3>1
    <3>3. s # "log_level" => Says("env", s, w) = FALSE
      BY <2>1, <2>4, <2>6
    <3> QED
      BY <2>2, <3>2, <3>3
  <2> QED
    BY <2>5, <2>6
<1> QED
  BY <1>1, <1>4, <1>5, <1>6, <1>7

LEMMA FileIs ==
  ASSUME NEW s \in Settings, NEW v, v.type \in {"str", "int", "float", "bool"}, Literal(v.type, v.word)
  PROVE  /\ FileReads(s, v) <=> Typed(s, v) /\ Understood("file", s, v.word)
         /\ FileReads(s, v) /\ s # "log_level" => FileValue(s, v) = Says("file", s, v.word)
<1> DEFINE k == Kind[s]
<1>1. k \in {"str", "int", "float", "bool"}
  BY Kinds
<1>2. "flag" # "file" /\ "env" # "file"
  OBVIOUS
<1>3. Forms["file"]["int"] = {"decimal", "based"} /\ Forms["file"]["float"] = {"decimal", "based", "fraction"}
  BY DEF Forms
<1>a. /\ v.type = "int" => Number(v.word, {"decimal", "based"})
      /\ v.type = "float" => Number(v.word, {"fraction"})
  BY DEF Literal
<1>4. CASE k = "str"
  BY <1>2, <1>4 DEF FileReads, FileValue, Understood, Says, Numeric, Typed
<1>5. CASE k = "int"
  BY <1>3, <1>5, <1>a DEF FileReads, FileValue, Understood, Says, Numeric, Number, Typed
<1>6. CASE k = "float"
  BY <1>3, <1>6, <1>a DEF FileReads, FileValue, Understood, Says, Numeric, Number, Typed
<1>7. CASE k = "bool"
  BY <1>2, <1>7 DEF FileReads, FileValue, Understood, Says, Numeric, Typed
<1> QED
  BY <1>1, <1>4, <1>5, <1>6, <1>7

\* What is read is what is meant.
LEMMA ReadAsMeant ==
  ASSUME Readable, Literals(Given(file)), NEW s \in Settings, s # "log_level" PROVE FromFlags(s) = Meant(s)
<1>1. CASE s \in DOMAIN flags
  <2>1. FlagReads(s, flags[s])
    BY <1>1 DEF Readable
  <2> QED
    BY <1>1, <2>1, FlagIs DEF FromFlags, Meant
<1>2. CASE s \notin DOMAIN flags /\ s \in DOMAIN env /\ EnvReads(s, env[s])
  BY <1>2, EnvIs DEF FromFlags, FromEnv, Meant
<1>3. CASE s \notin DOMAIN flags /\ ~(s \in DOMAIN env /\ EnvReads(s, env[s]))
  <2>1. FromFlags(s) = FromFile(s)
    BY <1>3 DEF FromFlags, FromEnv
  <2> DEFINE v == Given(file)[s]
  <2>2. Meant(s) = IF s \in DOMAIN Given(file) /\ Typed(s, v) /\ Understood("file", s, v.word)
                     THEN Says("file", s, v.word) ELSE defaultConfig[s]
    BY <1>3, EnvIs DEF Meant
  <2>3. CASE s \in DOMAIN Given(file)
    <3>1. v.type \in {"str", "int", "float", "bool"} /\ Literal(v.type, v.word)
      BY <2>3 DEF Literals
    <3>2. /\ FileReads(s, v) <=> Typed(s, v) /\ Understood("file", s, v.word)
          /\ FileReads(s, v) => FileValue(s, v) = Says("file", s, v.word)
      <4> HIDE DEF v
      <4> QED
        BY <3>1, FileIs
    <3> QED
      BY <2>1, <2>2, <2>3, <3>2 DEF FromFile
  <2>4. CASE s \notin DOMAIN Given(file)
    BY <2>1, <2>2, <2>4 DEF FromFile
  <2> QED
    BY <2>3, <2>4
<1> QED
  BY <1>1, <1>2, <1>3

\* The log level is meant, once it is folded, if it is one, and else it is none either way.
Level(w) == IF \E l \in Levels : Alike(l, w) THEN CHOOSE l \in Levels : Alike(l, w) ELSE w

LEMMA LevelIs ==
  ASSUME NEW w
  PROVE  (Upper(w) \in Levels <=> Level(w) \in Levels) /\ (Upper(w) \in Levels => Upper(w) = Level(w))
<1>1. CASE \E l \in Levels : Alike(l, w)
  <2>1. Level(w) \in Levels /\ Alike(Level(w), w)
    BY <1>1 DEF Level
  <2>2. Upper(w) = Level(w)
    BY <2>1, UpperIs
  <2> QED
    BY <2>1, <2>2
<1>2. CASE ~\E l \in Levels : Alike(l, w)
  <2>1. Upper(w) \notin Levels
    BY <1>2, UpperIs
  <2>2. Level(w) = w /\ w \notin Levels
    BY <1>2 DEF Level, Alike
  <2> QED
    BY <2>1, <2>2
<1> QED
  BY <1>1, <1>2

LEMMA LevelMeant ==
  ASSUME Readable, Literals(Given(file)), NEW s, s = "log_level" PROVE Meant(s) = Level(FromFlags(s))
<1>1. s \in Settings /\ Kind[s] = "str"
  BY Checked, Kinds
<1>2. \A source, w : Says(source, s, w) = Level(w)
  BY <1>1 DEF Says, Numeric, Level
<1>3. \A w : /\ EnvReads(s, w) /\ FlagValue(s, w) = w /\ EnvValue(s, w) = w
             /\ Understood("env", s, w) /\ Understood("file", s, w)
  BY <1>1 DEF EnvReads, FlagValue, EnvValue, Understood, Numeric
<1>4. \A v : (FileReads(s, v) => FileValue(s, v) = v.word) /\ (FileReads(s, v) <=> v.type = "str")
  BY <1>1 DEF FileReads, FileValue
<1>5. \A v : Typed(s, v) <=> v.type = "str" /\ v.type # "bool"
  BY <1>1 DEF Typed
<1>6. defaultConfig[s] = "INFO" /\ Level("INFO") = "INFO"
  <2>1. defaultConfig[s] = "INFO"
    BY DEF defaultConfig
  <2>2. Upper("INFO") = "INFO" <=> Alike("INFO", "INFO")
    BY UpperIs DEF Levels
  <2>3. Alike("INFO", "INFO") /\ "INFO" \in Levels
    BY DEF Alike, Levels
  <2>4. Upper("INFO") = Level("INFO")
    BY <2>2, <2>3, LevelIs
  <2> QED
    BY <2>1, <2>2, <2>3, <2>4
<1>7. CASE s \in DOMAIN flags
  BY <1>2, <1>3, <1>7 DEF FromFlags, Meant
<1>8. CASE s \notin DOMAIN flags /\ s \in DOMAIN env
  BY <1>2, <1>3, <1>8 DEF FromFlags, FromEnv, Meant
<1>9. CASE s \notin DOMAIN flags /\ s \notin DOMAIN env
  <2>1. FromFlags(s) = FromFile(s)
    BY <1>9 DEF FromFlags, FromEnv
  <2>2. CASE s \in DOMAIN Given(file) /\ Given(file)[s].type = "str"
    <3>1. FromFile(s) = Given(file)[s].word
      BY <1>4, <2>2 DEF FromFile
    <3>2. Typed(s, Given(file)[s]) /\ Understood("file", s, Given(file)[s].word)
      BY <1>3, <1>5, <2>2
    <3>3. Meant(s) = Says("file", s, Given(file)[s].word)
      BY <1>9, <2>2, <3>2 DEF Meant
    <3> QED
      BY <1>2, <2>1, <3>1, <3>3
  <2>3. CASE ~(s \in DOMAIN Given(file) /\ Given(file)[s].type = "str")
    <3>1. FromFile(s) = defaultConfig[s]
      BY <1>4, <2>3 DEF FromFile
    <3>2. Meant(s) = defaultConfig[s]
      BY <1>5, <1>9, <2>3 DEF Meant
    <3> QED
      BY <1>6, <2>1, <3>1, <3>2
  <2> QED
    BY <2>2, <2>3
<1> QED
  BY <1>7, <1>8, <1>9

\* What makes StartsAsConfigured call the meant settings wrong is what Acceptable refuses.
MeantAll == [s \in Settings |-> Meant(s)]

NoWindow == \E w \in Off : Alike(w, MeantAll.resize)

Wrong ==
  \/ MeantAll.host = ""
  \/ ~NoWindow /\ parseResize(MeantAll.resize) = <<>>
  \/ \E s \in {"mode", "eol", "framing", "log_level"} : MeantAll[s] \notin Allowed(s)
  \/ MeantAll.tui /\ parseHotkey(HotkeySpec[MeantAll.hotkey]) = <<>>

LEMMA ClearIs ==
  ASSUME DOMAIN flags \subseteq Settings
  PROVE  Readable <=> \A s \in DOMAIN flags : Understood("flag", s, flags[s])
BY FlagIs DEF Readable

LEMMA MeantIs ==
  ASSUME Readable, Literals(Given(file))
  PROVE  /\ Wrong <=> ~Acceptable(Final)
         /\ ~Wrong => MeantAll = Final
         /\ NoWindow <=> Lower(Final.resize) \in Off
         /\ MeantAll.resize = Final.resize
<1> DEFINE m == MeantAll
           f == Final
<1>1. \A s \in Settings : s # "log_level" => m[s] = f[s]
  BY ReadAsMeant DEF MeantAll, Final
<1>2. /\ m["log_level"] \in Levels <=> f["log_level"] \in Levels
      /\ m["log_level"] \in Levels => m["log_level"] = f["log_level"]
  <2>1. m["log_level"] = Level(FromFlags("log_level")) /\ f["log_level"] = Upper(FromFlags("log_level"))
    BY LevelMeant, Checked DEF MeantAll, Final
  <2> HIDE DEF m, f
  <2> QED
    BY <2>1, LevelIs
<1>3. Allowed("log_level") = Levels
  BY DEF Allowed
<1>4. m = [s \in Settings |-> m[s]] /\ f = [s \in Settings |-> f[s]]
  BY DEF MeantAll, Final
<1> HIDE DEF m, f
<1>5. /\ m["host"] = f["host"] /\ m["resize"] = f["resize"] /\ m["tui"] = f["tui"] /\ m["hotkey"] = f["hotkey"]
      /\ m["mode"] = f["mode"] /\ m["eol"] = f["eol"] /\ m["framing"] = f["framing"]
  BY <1>1, Checked
<1>6. (\E w \in Off : Alike(w, m["resize"])) <=> Lower(f["resize"]) \in Off
  BY <1>5, LowerIs
<1>7. \A s \in {"mode", "eol", "framing", "log_level"} : m[s] \notin Allowed(s) <=> f[s] \notin Allowed(s)
  BY <1>2, <1>3, <1>5
<1>8. Wrong <=> ~Acceptable(f)
  <2>1. Wrong <=> \/ m["host"] = ""
                  \/ ~(\E w \in Off : Alike(w, m["resize"])) /\ parseResize(m["resize"]) = <<>>
                  \/ \E s \in {"mode", "eol", "framing", "log_level"} : m[s] \notin Allowed(s)
                  \/ m["tui"] /\ parseHotkey(HotkeySpec[m["hotkey"]]) = <<>>
    BY DEF Wrong, NoWindow, m
  <2>2. ~Acceptable(f) <=> \/ f["host"] = ""
                           \/ Lower(f["resize"]) \notin Off /\ parseResize(f["resize"]) = <<>>
                           \/ \E s \in {"mode", "eol", "framing", "log_level"} : f[s] \notin Allowed(s)
                           \/ f["tui"] /\ parseHotkey(HotkeySpec[f["hotkey"]]) = <<>>
    BY DEF Acceptable, HotkeyNeeded, BadResize
  <2> QED
    BY <1>5, <1>6, <1>7, <2>1, <2>2
<1>9. ASSUME ~Wrong PROVE m = f
  <2>1. f["log_level"] \in Levels
    BY <1>3, <1>8, <1>9 DEF Acceptable
  <2>2. \A s \in Settings : m[s] = f[s]
    BY <1>1, <1>2, <2>1
  <2> QED
    BY <1>4, <2>2
<1> QED
  BY <1>5, <1>6, <1>8, <1>9 DEF m, f, NoWindow

LEMMA FilesAreLiteral == ASSUME NEW n, NEW f \in Files(n) PROVE Literals(Given(f))
<1>1. ASSUME NEW k, NEW g \in Giving(FileValues, k) PROVE Literals(g)
  <2>1. \A s \in DOMAIN g : g[s] \in FileValues(s)
    BY <1>1 DEF Giving
  <2>2. ASSUME NEW s \in DOMAIN g
        PROVE  g[s].type \in {"str", "int", "float", "bool"} /\ Literal(g[s].type, g[s].word)
    <3>1. PICK t \in {"str", "int", "float", "bool"}, w \in Words[s] : g[s] = [type |-> t, word |-> w] /\ Literal(t, w)
      BY <2>1, <2>2 DEF FileValues
    <3> QED
      BY <3>1
  <2> QED
    BY <2>2 DEF Literals
<1>2. CASE f \in {[top |-> g, tabled |-> FALSE, table |-> Nothing] : g \in Giving(FileValues, n)}
  BY <1>1, <1>2 DEF Given
<1>3. CASE f \notin {[top |-> g, tabled |-> FALSE, table |-> Nothing] : g \in Giving(FileValues, n)}
  <2>1. PICK g, k : f \in {[top |-> g, tabled |-> TRUE, table |-> h] : h \in Giving(FileValues, k)}
    BY <1>3 DEF Files
  <2> QED
    BY <1>1, <2>1 DEF Given
<1> QED
  BY <1>2, <1>3

LEMMA NoFileIsLiteral == Literals(Given(NoFile))
BY DEF Literals, Given, NoFile, Nothing

LEMMA ResolvedInit == Init => Resolved
<1> SUFFICES ASSUME Init PROVE Resolved
  OBVIOUS
<1>1. DOMAIN flags \subseteq Settings
  <2>1. flags \in Giving(LAMBDA s : Words[s], MaxGiven)
    BY DEF Init
  <2>2. PICK S \in UNION {kSubset(k, DOMAIN Words) : k \in 0..MaxGiven} : DOMAIN flags = S
    BY <2>1 DEF Giving
  <2>3. S \subseteq DOMAIN Words
    BY <2>2 DEF kSubset
  <2> QED
    BY <2>2, <2>3, ConfigAssumption
<1> QED
  BY <1>1, NoFileIsLiteral DEF Init, Resolved

LEMMA ResolvedNext == Resolved /\ [Next]_vars => Resolved'
<1> SUFFICES ASSUME Resolved, [Next]_vars PROVE Resolved'
  OBVIOUS
<1>1. CASE LoadFile
  <2>1. UNCHANGED <<env, flags, hotkey, window>> /\ pc = "file" /\ pc' = IF fileFatal' THEN "dead" ELSE "env"
    BY <1>1 DEF LoadFile
  <2>2. Literals(Given(file'))
    BY <1>1, FilesAreLiteral, NoFileIsLiteral DEF LoadFile
  <2>3. cfg' = [s \in Settings |-> FromFile(s)']
    BY <1>1, <2>1 DEF LoadFile, Resolved, FromFile
  <2>4. Literals(Given(file))' /\ (Readable' <=> Readable) /\ DOMAIN flags' \subseteq Settings
    BY <2>1, <2>2 DEF Resolved, Readable, Literals, Given
  <2>5. fileFatal' \in BOOLEAN
    BY <1>1 DEF LoadFile
  <2> QED
    BY <2>1, <2>3, <2>4, <2>5 DEF Resolved
<1>2. CASE ~LoadFile
  <2>1. UNCHANGED <<file, env, flags, fileFatal>>
    BY <1>2 DEF Next, vars, ParseFlags, ReadEnv, ReadFlags, Validate, PressHotkey
  <2>2. \A s : FromFile(s)' = FromFile(s)
    BY <2>1 DEF FromFile, Given
  <2>3. \A s : FromEnv(s)' = FromEnv(s)
    BY <2>1, <2>2 DEF FromEnv
  <2>4. \A s : FromFlags(s)' = FromFlags(s)
    BY <2>1, <2>3 DEF FromFlags
  <2>5. Final' = Final
    BY <2>4 DEF Final
  <2>6. Acceptable(Final)' <=> Acceptable(Final)
    BY <2>5 DEF Acceptable, HotkeyNeeded
  <2>7. (Readable' <=> Readable) /\ DOMAIN flags' \subseteq Settings /\ (Literals(Given(file))' <=> Literals(Given(file)))
    BY <2>1 DEF Readable, Resolved, Literals, Given
  <2>8. CASE ParseFlags
    BY <2>1, <2>2, <2>3, <2>4, <2>5, <2>6, <2>7, <2>8 DEF ParseFlags, Resolved
  <2>9. CASE ReadEnv
    <3>1. cfg = [s \in Settings |-> FromFile(s)] /\ pc' = "flags"
      BY <2>9 DEF ReadEnv, Resolved
    <3>2. cfg' = [s \in Settings |-> FromEnv(s)]
      BY <2>9, <3>1 DEF ReadEnv, FromEnv
    <3> QED
      BY <2>1, <2>3, <2>7, <2>9, <3>1, <3>2 DEF ReadEnv, Resolved
  <2>10. CASE ReadFlags
    <3>1. cfg = [s \in Settings |-> FromEnv(s)] /\ pc' = "validate"
      BY <2>10 DEF ReadFlags, Resolved
    <3>2. cfg' = [s \in Settings |-> FromFlags(s)]
      BY <2>10, <3>1 DEF ReadFlags, FromFlags
    <3> QED
      BY <2>1, <2>4, <2>7, <2>10, <3>1, <3>2 DEF ReadFlags, Resolved
  <2>11. CASE Validate
    <3> DEFINE c == [cfg EXCEPT !.log_level = Upper(@)]
    <3>1. c = Final
      <4>1. cfg = [s \in Settings |-> FromFlags(s)] /\ "log_level" \in Settings
        BY <2>11, Checked DEF Validate, Resolved
      <4>2. cfg["log_level"] = FromFlags("log_level")
        BY <4>1
      <4> QED
        BY <4>1, <4>2 DEF Final
    <3>2. /\ pc = "validate" /\ cfg' = c
          /\ \/ /\ pc' = "serving" /\ Acceptable(c)
                /\ window' = IF Lower(c.resize) \in Off THEN <<>> ELSE parseResize(c.resize)
             \/ pc' = "dead" /\ ~Acceptable(c)
      BY <2>11 DEF Validate
    <3> HIDE DEF c
    <3>3. /\ pc = "validate" /\ cfg' = Final
          /\ \/ /\ pc' = "serving" /\ Acceptable(Final)
                /\ window' = IF Lower(Final.resize) \in Off THEN <<>> ELSE parseResize(Final.resize)
             \/ pc' = "dead" /\ ~Acceptable(Final)
      BY <3>1, <3>2
    <3> QED
      BY <2>1, <2>5, <2>6, <2>7, <3>3 DEF Resolved
  <2>12. CASE PressHotkey
    <3>1. pc = "serving" /\ pc' = "pressed" /\ cfg' = cfg /\ window' = window
      BY <2>12 DEF PressHotkey
    <3> QED
      BY <2>1, <2>5, <2>6, <2>7, <3>1 DEF Resolved
  <2>13. CASE UNCHANGED vars
    <3>1. pc' = pc /\ cfg' = cfg /\ window' = window
      BY <2>13 DEF vars
    <3> QED
      BY <2>1, <2>2, <2>3, <2>4, <2>5, <2>6, <2>7, <3>1 DEF Resolved
  <2> QED
    BY <1>2, <2>8, <2>9, <2>10, <2>11, <2>12, <2>13 DEF Next
<1> QED
  BY <1>1, <1>2

\* A window that serves is the pair of numbers the word says.
LEMMA WindowIs ==
  ASSUME Acceptable(Final), Lower(Final.resize) \notin Off
  PROVE  parseResize(Final.resize) = ResizeSpec[Final.resize]
BY DEF Acceptable, BadResize, parseResize

\* The gateway serves with what the words of the sources say, each taken from the first source
\* where it is understood, and it ends for what is wrong among those settings, a flag or a
\* file nobody can read, and for nothing else (buildConfig and the readers it uses): for every
\* set of words, numerals and spellings.
THEOREM StartedAsConfigured == Spec => []StartsAsConfigured
<1>1. ASSUME Resolved PROVE StartsAsConfigured
  <2>1. Readable <=> \A s \in DOMAIN flags : Understood("flag", s, flags[s])
    BY <1>1, ClearIs DEF Resolved
  <2>2. Literals(Given(file))
    BY <1>1 DEF Resolved
  <2>3. CASE pc \in {"serving", "pressed"}
    <3>1. /\ Readable /\ ~fileFatal /\ cfg = Final /\ Acceptable(Final)
          /\ window = IF Lower(Final.resize) \in Off THEN <<>> ELSE parseResize(Final.resize)
      BY <1>1, <2>3 DEF Resolved
    <3>2. ~Wrong /\ MeantAll = Final /\ (NoWindow <=> Lower(Final.resize) \in Off)
      BY <2>2, <3>1, MeantIs
    <3>3. window = IF NoWindow THEN <<>> ELSE ResizeSpec[MeantAll.resize]
      BY <3>1, <3>2, WindowIs
    <3>4. cfg = MeantAll
      BY <3>1, <3>2
    <3> QED
      BY <2>1, <2>3, <3>1, <3>2, <3>3, <3>4 DEF StartsAsConfigured, Wrong, NoWindow, MeantAll
  <2>4. CASE pc = "dead"
    <3>1. ~Readable \/ fileFatal \/ ~Acceptable(Final)
      BY <1>1, <2>4 DEF Resolved
    <3>2. ~Readable \/ fileFatal \/ Wrong
      BY <2>2, <3>1, MeantIs
    <3> QED
      BY <2>1, <2>4, <3>2 DEF StartsAsConfigured, Wrong, NoWindow, MeantAll
  <2>5. CASE pc \notin {"serving", "pressed", "dead"}
    BY <2>5 DEF StartsAsConfigured
  <2> QED
    BY <2>3, <2>4, <2>5
<1> QED
  BY ResolvedInit, ResolvedNext, <1>1, PTL DEF Spec

--------------------------------------------------------------------------------
(* The hotkey.                                                             *)

\* What is matched is the setting's hotkey, and pressing it has had the outcome it has.
Pressing ==
  /\ pc \in {"serving", "pressed"} =>
       hotkey = IF cfg.tui THEN parseHotkey(HotkeySpec[cfg.hotkey]) ELSE <<>>
  /\ HotkeyOpens

LEMMA PressingInit == Init => Pressing
BY DEF Init, Pressing, HotkeyOpens

LEMMA PressingNext == Resolved /\ Pressing /\ [Next]_vars => Pressing'
<1> SUFFICES ASSUME Resolved, Pressing, [Next]_vars PROVE Pressing'
  OBVIOUS
<1>1. CASE ParseFlags \/ LoadFile \/ ReadEnv \/ ReadFlags
  <2>1. pc' \in {"file", "env", "flags", "validate", "dead"}
    BY <1>1 DEF ParseFlags, LoadFile, ReadEnv, ReadFlags
  <2> QED
    BY <2>1 DEF Pressing, HotkeyOpens
<1>2. CASE Validate
  <2> DEFINE c == [cfg EXCEPT !.log_level = Upper(@)]
  <2>1. /\ cfg' = c
        /\ \/ pc' = "serving" /\ hotkey' = IF c.tui THEN parseHotkey(HotkeySpec[c.hotkey]) ELSE <<>>
           \/ pc' = "dead"
    BY <1>2 DEF Validate
  <2> HIDE DEF c
  <2>2. pc' = "serving" =>
          hotkey' = IF cfg'.tui THEN parseHotkey(HotkeySpec[cfg'.hotkey]) ELSE <<>>
    BY <2>1
  <2> QED
    BY <2>1, <2>2 DEF Pressing, HotkeyOpens
<1>3. CASE PressHotkey
  <2> DEFINE spec == HotkeySpec[cfg.hotkey]
  <2>1. pc = "serving" /\ cfg.tui /\ pc' = "pressed" /\ cfg' = cfg /\ hotkey' = hotkey
    BY <1>3 DEF PressHotkey
  <2>2. hotkey = parseHotkey(spec)
    BY <2>1 DEF Pressing
  <2>3. /\ cfg.eol \in Eols /\ cfg.mode \in Modes
        /\ hotkey # <<>>
    <3>1. Acceptable(cfg)
      BY <2>1 DEF Resolved
    <3>2. cfg["eol"] \in Allowed("eol") /\ cfg["mode"] \in Allowed("mode")
      BY <3>1 DEF Acceptable
    <3> QED
      BY <2>1, <2>2, <3>1, <3>2 DEF Acceptable, HotkeyNeeded, Allowed, Eols, Modes
  <2>4. Agreed(spec) => opened' = Found(Process(NewInput, cfg.mode, cfg.eol, Sent(spec)).raw)
    BY <1>3 DEF PressHotkey
  <2> HIDE DEF spec
  <2>5. Agreed(spec) => (opened' <=> ~Unreachable(spec))
    BY <2>2, <2>3, <2>4, Reaches
  <2>6. Unreachable(spec)' <=> Unreachable(spec)
    BY <2>1 DEF Unreachable, spec
  <2>7. HotkeyOpens'
    BY <2>1, <2>5, <2>6 DEF HotkeyOpens, spec
  <2> QED
    BY <2>1, <2>7 DEF Pressing
<1>4. CASE UNCHANGED vars
  BY <1>4 DEF vars, Pressing, HotkeyOpens, Unreachable
<1> QED
  BY <1>1, <1>2, <1>3, <1>4 DEF Next

\* Of the keys that terminals agree on, whatever the mode and the EOL setting, the one that is
\* configured opens the TUI when it is pressed, or is one of those that Unreachable names and
\* never does (parseHotkey of config.go, Process of terminal.go, handleInput of bridge.go).
THEOREM HotkeyReaches == Spec => []HotkeyOpens
<1>1. Init => Resolved /\ Pressing
  BY ResolvedInit, PressingInit
<1>2. Resolved /\ Pressing /\ [Next]_vars => (Resolved /\ Pressing)'
  BY ResolvedNext, PressingNext
<1>3. Pressing => HotkeyOpens
  BY DEF Pressing
<1> QED
  BY <1>1, <1>2, <1>3, PTL DEF Spec

================================================================================
