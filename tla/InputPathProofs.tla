---------------------------- MODULE InputPathProofs ----------------------------
(***************************************************************************)
(* What a terminal sends is what the console and the control TUI receive,  *)
(* however it is cut into reads: proved for InputPath.                     *)
(***************************************************************************)
EXTENDS InputPath, LibraryProofs

--------------------------------------------------------------------------------
(* The parsers, byte by byte.                                              *)

Sizes == {NoSize} \cup [cols : 1..Word, rows : 1..Word]

Inputs ==
  {i \in [state : {"data", "iac", "opt", "sb", "sbiac"}, cmd : Bytes, sb : Seq(Bytes),
          announced : BOOLEAN, will : SUBSET Bytes, do : SUBSET Bytes, lastCR : BOOLEAN, size : Sizes] :
     i.state = "opt" => i.cmd \in {WILL, WONT, DO, DONT}}

Feds == [t : Inputs, raw : Seq(Bytes), rep : Seq(Bytes)]

Decoders == [esc : {0, 1, 2}, param : Seq(Digits)]
KeyEvents == [kind : KeyKinds, ch : Bytes]
Decodings == [d : Decoders, keys : Seq(KeyEvents)]

TelnetByte(m, acc, b) == Then(acc, feedTelnet(acc.t, m, b))
EolByte(e, acc, b)    == Then(acc, normalizeByte(acc.t, e, b))
KeyByte(acc, b)       == LET r == decodeByte(acc.d, b) IN Decoded(r.d, acc.keys \o r.keys)

TelnetStep(m) == [x \in Feds \X Bytes |-> TelnetByte(m, x[1], x[2])]
EolStep(e) == [x \in Feds \X Bytes |-> EolByte(e, x[1], x[2])]
KeyStep == [x \in Decodings \X Bytes |-> KeyByte(x[1], x[2])]

TelnetRun(m, acc, data) == FoldLeft(LAMBDA a, b : Then(a, feedTelnet(a.t, m, b)), acc, data)
EolRun(e, acc, data)    == FoldLeft(LAMBDA a, b : Then(a, normalizeByte(a.t, e, b)), acc, data)
KeyRun(acc, data) ==
  FoldLeft(LAMBDA a, b : LET r == decodeByte(a.d, b) IN Decoded(r.d, a.keys \o r.keys), acc, data)

LEMMA ByteIs == \A b : b \in Bytes <=> b \in Int /\ 0 <= b /\ b <= 255
<1>1. 0 \in Int /\ 255 \in Int
  OBVIOUS
<1> QED
  BY <1>1, Interval, Zenon DEF Bytes

LEMMA SixteenBits == \A h, l \in Bytes : h * 256 + l > 0 => h * 256 + l \in 1..Word
<1> SUFFICES ASSUME NEW h \in Bytes, NEW l \in Bytes, h * 256 + l > 0 PROVE h * 256 + l \in 1..Word
  OBVIOUS
<1>1. h \in Int /\ l \in Int /\ 0 <= h /\ h <= 255 /\ 0 <= l /\ l <= 255
  BY ByteIs
<1>2. h * 256 + l \in Int /\ 1 <= h * 256 + l /\ h * 256 + l <= 65535
  BY <1>1
<1>3. Word \in Int /\ h * 256 + l <= Word
  BY <1>2, SMT DEF Word
<1> QED
  BY <1>2, <1>3, Interval

\* A window size that is taken over fits 16 bits and is not zero.
LEMMA SizeAfterIs == ASSUME NEW i \in Inputs PROVE SizeAfter(i) \in Sizes
<1>0. i.size \in Sizes /\ i.sb \in Seq(Bytes)
  BY DEF Inputs
<1> DEFINE W == i.sb[2] * 256 + i.sb[3]
           H == i.sb[4] * 256 + i.sb[5]
<1>1. ASSUME Len(i.sb) >= 5, W > 0, H > 0 PROVE W \in 1..Word /\ H \in 1..Word
  <2>1. 2 \in 1..Len(i.sb) /\ 3 \in 1..Len(i.sb) /\ 4 \in 1..Len(i.sb) /\ 5 \in 1..Len(i.sb)
    BY <1>0, <1>1, LenProperties
  <2>2. i.sb[2] \in Bytes /\ i.sb[3] \in Bytes /\ i.sb[4] \in Bytes /\ i.sb[5] \in Bytes
    BY <1>0, <2>1, ElementOfSeq
  <2> QED
    BY <1>1, <2>2, SixteenBits, Zenon
<1>2. SizeAfter(i) = IF Len(i.sb) >= 5 /\ i.sb[1] = NAWS /\ IsSize(W, H)
                       THEN [cols |-> W, rows |-> H] ELSE i.size
  BY DEF SizeAfter
<1>3. CASE Len(i.sb) >= 5 /\ i.sb[1] = NAWS /\ IsSize(W, H)
  <2>1. W > 0 /\ H > 0
    BY <1>3, Zenon DEF IsSize
  <2>2. W \in 1..Word /\ H \in 1..Word
    BY <1>1, <1>3, <2>1, Zenon
  <2>3. [cols |-> W, rows |-> H] \in Sizes
    <3> HIDE DEF W, H
    <3> DEFINE N == 1..Word
    <3>1. W \in N /\ H \in N
      BY <2>2
    <3>2. Sizes = {NoSize} \cup [cols : N, rows : N]
      BY Zenon DEF Sizes
    <3> HIDE DEF N
    <3> QED
      BY <3>1, <3>2
  <2>4. SizeAfter(i) = [cols |-> W, rows |-> H]
    BY <1>2, <1>3, Zenon
  <2> QED
    BY <2>3, <2>4, Zenon
<1>4. CASE ~(Len(i.sb) >= 5 /\ i.sb[1] = NAWS /\ IsSize(W, H))
  <2>1. SizeAfter(i) = i.size
    BY <1>2, <1>4, Zenon
  <2> QED
    BY <1>0, <2>1, Zenon
<1> QED
  BY <1>3, <1>4, Zenon

\* What feedTelnet, Then, normalizeEOL and decode return is of the types they work on.
LEMMA FeedIs ==
  ASSUME NEW i \in Inputs, NEW m, NEW b \in Bytes
  PROVE  feedTelnet(i, m, b) \in Feds
<1> DEFINE S == {"data", "iac", "opt", "sb", "sbiac"}
<1>0. /\ i.state \in S /\ i.cmd \in Bytes /\ i.sb \in Seq(Bytes) /\ i.announced \in BOOLEAN
      /\ i.will \in SUBSET Bytes /\ i.do \in SUBSET Bytes /\ i.lastCR \in BOOLEAN /\ i.size \in Sizes
      /\ i.state = "opt" => i.cmd \in {WILL, WONT, DO, DONT}
  BY DEF Inputs
<1>1. IAC \in Bytes /\ WILL \in Bytes /\ WONT \in Bytes /\ DO \in Bytes /\ DONT \in Bytes /\ ECHO \in Bytes
      /\ SGA \in Bytes /\ NAWS \in Bytes
  BY ByteIs DEF IAC, WILL, WONT, DO, DONT, ECHO, SGA, NAWS
<1>2. ASSUME NEW s \in S \ {"opt"} PROVE [i EXCEPT !.state = s] \in Inputs
  BY <1>0 DEF Inputs
<1>3. ASSUME NEW j \in Inputs PROVE announce(j) \in Feds
  <2>1. [j EXCEPT !.announced = TRUE, !.will = @ \cup {ECHO, SGA}] \in Inputs
    BY <1>1 DEF Inputs
  <2>2. <<>> \in Seq(Bytes) /\ <<IAC, WILL, ECHO, IAC, WILL, SGA>> \in Seq(Bytes)
    BY <1>1
  <2> QED
    BY <1>3, <2>1, <2>2 DEF announce, Fed, Feds
<1>4. ASSUME NEW j \in Inputs, j.cmd \in {WILL, WONT, DO, DONT} PROVE negotiate(j, b) \in Feds
  <2>1. ASSUME NEW r \in SUBSET Bytes PROVE [j EXCEPT !.will = r] \in Inputs /\ [j EXCEPT !.do = r] \in Inputs
    BY DEF Inputs
  <2>2. j.will \cup {b} \in SUBSET Bytes /\ j.will \ {b} \in SUBSET Bytes /\ j.do \cup {b} \in SUBSET Bytes
        /\ j.do \ {b} \in SUBSET Bytes
    BY DEF Inputs
  <2>3. <<>> \in Seq(Bytes) /\ \A c \in {WILL, WONT, DO, DONT} : <<IAC, c, b>> \in Seq(Bytes)
    BY <1>1
  <2>4. WILL # DO /\ WILL # DONT /\ WILL # WONT /\ WONT # DO /\ WONT # DONT /\ DO # DONT
    BY DEF WILL, WONT, DO, DONT
  <2>5. CASE j.cmd = DO
    BY <2>1, <2>2, <2>3, <2>4, <2>5 DEF negotiate, Fed, Feds
  <2>6. CASE j.cmd = DONT
    BY <2>1, <2>2, <2>3, <2>4, <2>6 DEF negotiate, Fed, Feds
  <2>7. CASE j.cmd = WILL
    BY <2>1, <2>2, <2>3, <2>4, <2>7 DEF negotiate, Fed, Feds
  <2>8. CASE j.cmd = WONT
    BY <2>1, <2>2, <2>3, <2>4, <2>8 DEF negotiate, Fed, Feds
  <2> QED
    BY <1>4, <2>5, <2>6, <2>7, <2>8
<1>5. <<>> \in Seq(Bytes) /\ <<b>> \in Seq(Bytes) /\ <<IAC>> \in Seq(Bytes)
  BY <1>1
<1>6. CASE i.state = "data"
  BY <1>2, <1>3, <1>5, <1>6 DEF feedTelnet, Fed, Feds
<1>7. CASE i.state = "iac"
  <2>1. ASSUME b \in {WILL, WONT, DO, DONT} PROVE [i EXCEPT !.cmd = b, !.state = "opt"] \in Inputs
    BY <1>0, <2>1 DEF Inputs
  <2>2. [i EXCEPT !.sb = SbAtStart(i), !.state = "sb"] \in Inputs
    BY <1>0, <1>5 DEF Inputs, SbAtStart
  <2>3. IAC # SB /\ \A c \in {WILL, WONT, DO, DONT} : c # IAC /\ c # SB
    BY DEF IAC, SB, WILL, WONT, DO, DONT
  <2> QED
    BY <1>2, <1>5, <1>7, <2>1, <2>2, <2>3 DEF feedTelnet, Fed, Feds
<1>8. CASE i.state = "opt"
  <2>1. [i EXCEPT !.state = "data"] \in Inputs /\ [i EXCEPT !.state = "data"].cmd \in {WILL, WONT, DO, DONT}
    BY <1>0, <1>2, <1>8 DEF Inputs
  <2>2. feedTelnet(i, m, b) = negotiate([i EXCEPT !.state = "data"], b)
    BY <1>8 DEF feedTelnet
  <2> QED
    BY <1>4, <2>1, <2>2
<1>9. CASE i.state = "sb"
  <2>1. Append(i.sb, b) \in Seq(Bytes)
    BY <1>0
  <2>2. [i EXCEPT !.sb = Append(@, b)] \in Inputs
    BY <1>0, <2>1 DEF Inputs
  <2> QED
    BY <1>2, <1>5, <1>9, <2>2 DEF feedTelnet, Fed, Feds
<1>10. CASE i.state = "sbiac"
  <2>1. Append(i.sb, b) \in Seq(Bytes)
    BY <1>0
  <2>2. [i EXCEPT !.sb = Append(@, b), !.state = "sb"] \in Inputs
    BY <1>0, <2>1 DEF Inputs
  <2>3. [i EXCEPT !.size = SizeAfter(i), !.state = "data"] \in Inputs
    BY <1>0, SizeAfterIs DEF Inputs
  <2> QED
    BY <1>2, <1>5, <1>10, <2>2, <2>3 DEF feedTelnet, Fed, Feds
<1> QED
  BY <1>0, <1>6, <1>7, <1>8, <1>9, <1>10

LEMMA ThenIs ==
  ASSUME NEW acc \in Feds, NEW f \in Feds
  PROVE  Then(acc, f) \in Feds
BY DEF Then, Fed, Feds

LEMMA TelnetByteIs ==
  ASSUME NEW m, NEW acc \in Feds, NEW b \in Bytes
  PROVE  TelnetByte(m, acc, b) \in Feds
<1>1. feedTelnet(acc.t, m, b) \in Feds
  BY FeedIs DEF Feds
<1> QED
  BY <1>1, ThenIs DEF TelnetByte

\* The function the fold is made with.
LEMMA TelnetFolds ==
  ASSUME NEW m, NEW acc \in Feds, NEW data \in Seq(Bytes)
  PROVE  \E c : Steps(c, TelnetStep(m), Feds, acc, data) /\ TelnetRun(m, acc, data) = c[1..Len(data)]
<1> DEFINE step == TelnetStep(m)
           D == DOMAIN data
           P(f) == f = [s \in SUBSET D |->
                          IF s = {} THEN acc
                          ELSE Then(f[s \ {Max(s)}], feedTelnet(f[s \ {Max(s)}].t, m, data[Max(s)]))]
<1>0. /\ Len(data) \in Nat /\ D = 1..Len(data) /\ \A i \in D : data[i] \in Bytes
  BY LenProperties, ElementOfSeq
<1>1. step \in [Feds \X Bytes -> Feds]
  BY TelnetByteIs DEF TelnetStep
<1>2. \A a \in Feds, b \in Bytes : step[<<a, b>>] = Then(a, feedTelnet(a.t, m, b))
  BY DEF TelnetByte, TelnetStep
<1>3. PICK g \in [SUBSET D -> Feds] :
        \A s \in SUBSET D : g[s] = IF s = {} THEN acc ELSE step[<<g[s \ {Max(s)}], data[Max(s)]>>]
  <2> HIDE DEF step
  <2>1. \E g \in [SUBSET (DOMAIN data) -> Feds] : IsFold(g, step, acc, data)
    BY <1>1, FoldExists
  <2> QED
    BY <2>1 DEF IsFold
<1>4. P(g)
  <2>1. ASSUME NEW s \in SUBSET D, s # {}
        PROVE  g[s] = Then(g[s \ {Max(s)}], feedTelnet(g[s \ {Max(s)}].t, m, data[Max(s)]))
    <3>1. s \ {Max(s)} \in SUBSET D /\ Max(s) \in D
      BY <1>0, <2>1, MaxIs
    <3>2. g[s \ {Max(s)}] \in Feds /\ data[Max(s)] \in Bytes
      BY <1>0, <3>1
    <3> HIDE DEF step
    <3> QED
      BY <1>2, <1>3, <2>1, <3>2
  <2> HIDE DEF step
  <2> QED
    BY <1>3, <2>1
<1>5. P(CHOOSE f : P(f))
  <2> HIDE DEF P
  <2> QED
    BY <1>4
<1>6. TelnetRun(m, acc, data) = (CHOOSE f : P(f))[D]
  BY DEF TelnetRun, FoldLeft, MapThenFoldSet
<1>7. PICK c : P(c) /\ TelnetRun(m, acc, data) = c[D]
  <2> HIDE DEF P
  <2> QED
    BY <1>5, <1>6
<1>8. c[{}] = acc
  BY <1>7
<1>9. ASSUME NEW k \in 1..Len(data) PROVE c[1..k] = TelnetByte(m, c[1..(k - 1)], data[k])
  <2>1. k \in Nat \ {0} /\ 1..k \in SUBSET D /\ 1..k # {}
    BY <1>0
  <2>2. Max(1..k) = k /\ (1..k) \ {k} = 1..(k - 1)
    BY <2>1, MaxOfInterval
  <2>3. c[1..k] = Then(c[(1..k) \ {Max(1..k)}], feedTelnet(c[(1..k) \ {Max(1..k)}].t, m, data[Max(1..k)]))
    BY <1>7, <2>1
  <2> QED
    BY <2>2, <2>3 DEF TelnetByte
<1>10. Steps(c, TelnetStep(m), Feds, acc, data)
  <2>1. ASSUME NEW k \in 1..Len(data), c[1..(k - 1)] \in Feds
        PROVE  c[1..k] = step[<<c[1..(k - 1)], data[k]>>]
    <3>1. data[k] \in Bytes
      BY <1>0
    <3> HIDE DEF step
    <3> QED
      BY <1>2, <1>9, <2>1, <3>1 DEF TelnetByte
  <2> QED
    BY <1>8, <2>1 DEF Steps
<1> QED
  BY <1>0, <1>7, <1>10

LEMMA EolIs == \A e \in {"cr", "crlf", "lf"} : emitEOL(e) \in Seq(Bytes)
<1>1. CR \in Bytes /\ LF \in Bytes
  BY ByteIs DEF CR, LF
<1> QED
  BY <1>1 DEF emitEOL

LEMMA EolByteIs ==
  ASSUME NEW e \in {"cr", "crlf", "lf"}, NEW acc \in Feds, NEW b \in Bytes
  PROVE  EolByte(e, acc, b) \in Feds
<1>1. [acc.t EXCEPT !.lastCR = CRAfter(acc.t, b)] \in Inputs
  <2>1. acc.t \in Inputs /\ CRAfter(acc.t, b) \in BOOLEAN
    BY DEF Feds, CRAfter
  <2> QED
    BY <2>1 DEF Inputs
<1>2. <<>> \in Seq(Bytes) /\ <<b>> \in Seq(Bytes)
  OBVIOUS
<1>3. normalizeByte(acc.t, e, b) \in Feds
  BY <1>1, <1>2, EolIs DEF normalizeByte, Fed, Feds
<1> QED
  BY <1>3, ThenIs DEF EolByte

LEMMA EolFolds ==
  ASSUME NEW e \in {"cr", "crlf", "lf"}, NEW acc \in Feds, NEW data \in Seq(Bytes)
  PROVE  \E c : Steps(c, EolStep(e), Feds, acc, data) /\ EolRun(e, acc, data) = c[1..Len(data)]
<1> DEFINE step == EolStep(e)
           D == DOMAIN data
           P(f) == f = [s \in SUBSET D |->
                          IF s = {} THEN acc
                          ELSE Then(f[s \ {Max(s)}], normalizeByte(f[s \ {Max(s)}].t, e, data[Max(s)]))]
<1>0. /\ Len(data) \in Nat /\ D = 1..Len(data) /\ \A i \in D : data[i] \in Bytes
  BY LenProperties, ElementOfSeq
<1>1. step \in [Feds \X Bytes -> Feds]
  BY EolByteIs DEF EolStep
<1>2. \A a \in Feds, b \in Bytes : step[<<a, b>>] = Then(a, normalizeByte(a.t, e, b))
  BY DEF EolByte, EolStep
<1>3. PICK g \in [SUBSET D -> Feds] :
        \A s \in SUBSET D : g[s] = IF s = {} THEN acc ELSE step[<<g[s \ {Max(s)}], data[Max(s)]>>]
  <2> HIDE DEF step
  <2>1. \E g \in [SUBSET (DOMAIN data) -> Feds] : IsFold(g, step, acc, data)
    BY <1>1, FoldExists
  <2> QED
    BY <2>1 DEF IsFold
<1>4. P(g)
  <2>1. ASSUME NEW s \in SUBSET D, s # {}
        PROVE  g[s] = Then(g[s \ {Max(s)}], normalizeByte(g[s \ {Max(s)}].t, e, data[Max(s)]))
    <3>1. s \ {Max(s)} \in SUBSET D /\ Max(s) \in D
      BY <1>0, <2>1, MaxIs
    <3>2. g[s \ {Max(s)}] \in Feds /\ data[Max(s)] \in Bytes
      BY <1>0, <3>1
    <3> HIDE DEF step
    <3> QED
      BY <1>2, <1>3, <2>1, <3>2
  <2> HIDE DEF step
  <2> QED
    BY <1>3, <2>1
<1>5. P(CHOOSE f : P(f))
  <2> HIDE DEF P
  <2> QED
    BY <1>4
<1>6. EolRun(e, acc, data) = (CHOOSE f : P(f))[D]
  BY DEF EolRun, FoldLeft, MapThenFoldSet
<1>7. PICK c : P(c) /\ EolRun(e, acc, data) = c[D]
  <2> HIDE DEF P
  <2> QED
    BY <1>5, <1>6
<1>8. c[{}] = acc
  BY <1>7
<1>9. ASSUME NEW k \in 1..Len(data) PROVE c[1..k] = EolByte(e, c[1..(k - 1)], data[k])
  <2>1. k \in Nat \ {0} /\ 1..k \in SUBSET D /\ 1..k # {}
    BY <1>0
  <2>2. Max(1..k) = k /\ (1..k) \ {k} = 1..(k - 1)
    BY <2>1, MaxOfInterval
  <2>3. c[1..k] = Then(c[(1..k) \ {Max(1..k)}], normalizeByte(c[(1..k) \ {Max(1..k)}].t, e, data[Max(1..k)]))
    BY <1>7, <2>1
  <2> QED
    BY <2>2, <2>3 DEF EolByte
<1>10. Steps(c, EolStep(e), Feds, acc, data)
  <2>1. ASSUME NEW k \in 1..Len(data), c[1..(k - 1)] \in Feds
        PROVE  c[1..k] = step[<<c[1..(k - 1)], data[k]>>]
    <3>1. data[k] \in Bytes
      BY <1>0
    <3> HIDE DEF step
    <3> QED
      BY <1>2, <1>9, <2>1, <3>1 DEF EolByte
  <2> QED
    BY <1>8, <2>1 DEF Steps
<1> QED
  BY <1>0, <1>7, <1>10

LEMMA NamedIs == \A k \in KeyKinds : Named(k) \in KeyEvents /\ <<Named(k)>> \in Seq(KeyEvents)
<1>1. 0 \in Bytes
  BY ByteIs
<1>2. \A k \in KeyKinds : Named(k) \in KeyEvents
  BY <1>1 DEF KeyEvents, Named
<1> QED
  BY <1>2

LEMMA PlainIs == \A b \in Bytes : emitPlain(b) \in Seq(KeyEvents)
<1>1. \A b \in Bytes : Char(b) \in KeyEvents
  BY DEF KeyEvents, Char, KeyKinds
<1>2. Named("enter") \in KeyEvents
  BY NamedIs DEF KeyKinds
<1> QED
  BY <1>1, <1>2 DEF emitPlain

LEMMA ArrowIs == \A b \in 65..68 : Arrow(b) \in KeyKinds
<1> SUFFICES ASSUME NEW b \in 65..68 PROVE Arrow(b) \in KeyKinds
  OBVIOUS
<1>1. b = 65 \/ b = 66 \/ b = 67 \/ b = 68
  OBVIOUS
<1> QED
  BY <1>1 DEF Arrow, KeyKinds

LEMMA PageKeyIs == \A p : PageKey(p) \in Seq(KeyEvents)
<1>1. <<>> \in Seq(KeyEvents)
  OBVIOUS
<1>2. <<Named("pgup")>> \in Seq(KeyEvents) /\ <<Named("pgdn")>> \in Seq(KeyEvents)
  BY NamedIs DEF KeyKinds
<1> SUFFICES ASSUME NEW p PROVE PageKey(p) \in Seq(KeyEvents)
  OBVIOUS
<1>3. CASE p = <<53>>
  BY <1>2, <1>3 DEF PageKey
<1>4. CASE p = <<54>> /\ p # <<53>>
  BY <1>2, <1>4 DEF PageKey
<1>5. CASE p # <<53>> /\ p # <<54>>
  BY <1>1, <1>5 DEF PageKey
<1> QED
  BY <1>3, <1>4, <1>5

LEMMA DecodeIs ==
  ASSUME NEW q \in Decoders, NEW b \in Bytes
  PROVE  decodeByte(q, b) \in Decodings
<1> DEFINE r == decodeByte(q, b)
<1>0. q.esc \in {0, 1, 2} /\ q.param \in Seq(Digits)
  BY DEF Decoders
<1>1. <<>> \in Seq(KeyEvents) /\ emitPlain(b) \in Seq(KeyEvents) /\ \A k \in KeyKinds : <<Named(k)>> \in Seq(KeyEvents)
  BY NamedIs, PlainIs
<1>2. [q EXCEPT !.esc = 0] \in Decoders /\ [q EXCEPT !.esc = 1] \in Decoders
  BY <1>0 DEF Decoders
<1>3. r \in Decodings
  <2>1. CASE q.esc = 0
    <3>1. CASE b = ESC
      <4>1. r = Decoded([q EXCEPT !.esc = 1], <<>>)
        BY <2>1, <3>1 DEF decodeByte
      <4> QED
        BY <1>1, <1>2, <4>1 DEF Decoded, Decodings
    <3>2. CASE b # ESC
      <4>1. r = Decoded(q, emitPlain(b))
        BY <2>1, <3>2 DEF decodeByte
      <4> QED
        BY <1>1, <4>1 DEF Decoded, Decodings
    <3> QED
      BY <3>1, <3>2
  <2>2. CASE q.esc = 1
    <3>1. [esc |-> 2, param |-> ParamAtStart(q)] \in Decoders
      BY DEF Decoders, ParamAtStart
    <3>2. <<Named("esc")>> \in Seq(KeyEvents) /\ <<Named("esc")>> \o emitPlain(b) \in Seq(KeyEvents)
      BY <1>1, ConcatProperties DEF KeyKinds
    <3>3. Bracket # ESC /\ LetterO # ESC
      BY DEF Bracket, LetterO, ESC
    <3> QED
      BY <1>0, <1>1, <1>2, <2>2, <3>1, <3>2, <3>3 DEF decodeByte, Decoded, Decodings
  <2>3. CASE q.esc = 2
    <3>1. CASE b \in 65..68
      <4>1. Arrow(b) \in KeyKinds
        BY <3>1, ArrowIs
      <4>2. r = Decoded([q EXCEPT !.esc = 0], <<Named(Arrow(b))>>)
        BY <2>3, <3>1 DEF decodeByte, Digits, Tilde, Semicolon
      <4> QED
        BY <1>1, <1>2, <4>1, <4>2 DEF Decoded, Decodings
    <3>2. CASE b = Tilde
      <4>1. PageKey(q.param) \in Seq(KeyEvents)
        BY PageKeyIs
      <4>2. r = Decoded([q EXCEPT !.esc = 0], PageKey(q.param))
        BY <2>3, <3>2 DEF decodeByte, Digits, Tilde, Semicolon
      <4> QED
        BY <1>1, <1>2, <4>1, <4>2 DEF Decoded, Decodings
    <3>3. CASE b \in Digits
      <4>1. Append(q.param, b) \in Seq(Digits)
        BY <1>0, <3>3
      <4>2. [q EXCEPT !.param = Append(@, b)] \in Decoders
        BY <1>0, <4>1 DEF Decoders
      <4>3. r = Decoded([q EXCEPT !.param = Append(@, b)], <<>>)
        BY <2>3, <3>3 DEF decodeByte, Digits, Tilde, Semicolon
      <4> QED
        BY <1>1, <4>2, <4>3 DEF Decoded, Decodings
    <3>4. CASE b \notin (65..68) \cup Digits \cup {Tilde}
      <4>1. CASE b = Semicolon
        <5>1. r = Decoded(q, <<>>)
          BY <2>3, <3>4, <4>1 DEF decodeByte
        <5> QED
          BY <1>1, <5>1 DEF Decoded, Decodings
      <4>2. CASE b # Semicolon
        <5>1. r = Decoded([q EXCEPT !.esc = 0], <<>>)
          BY <2>3, <3>4, <4>2 DEF decodeByte
        <5> QED
          BY <1>1, <1>2, <5>1 DEF Decoded, Decodings
      <4> QED
        BY <4>1, <4>2
    <3> QED
      BY <3>1, <3>2, <3>3, <3>4
  <2> QED
    BY <1>0, <2>1, <2>2, <2>3
<1> QED
  BY <1>3

LEMMA KeyByteIs ==
  ASSUME NEW acc \in Decodings, NEW b \in Bytes
  PROVE  KeyByte(acc, b) \in Decodings
<1> DEFINE r == decodeByte(acc.d, b)
<1>3. r.d \in Decoders /\ r.keys \in Seq(KeyEvents) /\ acc.keys \in Seq(KeyEvents)
  BY DecodeIs DEF Decodings
<1>4. acc.keys \o r.keys \in Seq(KeyEvents)
  BY <1>3, ConcatProperties
<1>5. KeyByte(acc, b) = [d |-> r.d, keys |-> acc.keys \o r.keys]
  BY DEF KeyByte, Decoded
<1> HIDE DEF r
<1> QED
  BY <1>3, <1>4, <1>5 DEF Decodings

LEMMA KeyFolds ==
  ASSUME NEW acc \in Decodings, NEW data \in Seq(Bytes)
  PROVE  \E c : Steps(c, KeyStep, Decodings, acc, data) /\ KeyRun(acc, data) = c[1..Len(data)]
<1> DEFINE step == KeyStep
           D == DOMAIN data
           P(f) == f = [s \in SUBSET D |->
                          IF s = {} THEN acc
                          ELSE LET r == decodeByte(f[s \ {Max(s)}].d, data[Max(s)])
                               IN Decoded(r.d, f[s \ {Max(s)}].keys \o r.keys)]
<1>0. /\ Len(data) \in Nat /\ D = 1..Len(data) /\ \A i \in D : data[i] \in Bytes
  BY LenProperties, ElementOfSeq
<1>1. step \in [Decodings \X Bytes -> Decodings]
  BY KeyByteIs DEF KeyStep
<1>2. \A a \in Decodings, b \in Bytes : step[<<a, b>>] = KeyByte(a, b)
  BY DEF KeyStep
<1>3. PICK g \in [SUBSET D -> Decodings] :
        \A s \in SUBSET D : g[s] = IF s = {} THEN acc ELSE step[<<g[s \ {Max(s)}], data[Max(s)]>>]
  <2> HIDE DEF step
  <2>1. \E g \in [SUBSET (DOMAIN data) -> Decodings] : IsFold(g, step, acc, data)
    BY <1>1, FoldExists
  <2> QED
    BY <2>1 DEF IsFold
<1>4. P(g)
  <2>1. ASSUME NEW s \in SUBSET D, s # {}
        PROVE  g[s] = KeyByte(g[s \ {Max(s)}], data[Max(s)])
    <3>1. s \ {Max(s)} \in SUBSET D /\ Max(s) \in D
      BY <1>0, <2>1, MaxIs
    <3>2. g[s \ {Max(s)}] \in Decodings /\ data[Max(s)] \in Bytes
      BY <1>0, <3>1
    <3> HIDE DEF step
    <3> QED
      BY <1>2, <1>3, <2>1, <3>2
  <2> HIDE DEF step
  <2> QED
    BY <1>3, <2>1 DEF KeyByte
<1>5. P(CHOOSE f : P(f))
  <2> HIDE DEF P
  <2> QED
    BY <1>4
<1>6. KeyRun(acc, data) = (CHOOSE f : P(f))[D]
  BY DEF KeyRun, FoldLeft, MapThenFoldSet
<1>7. PICK c : P(c) /\ KeyRun(acc, data) = c[D]
  <2> HIDE DEF P
  <2> QED
    BY <1>5, <1>6
<1>8. c[{}] = acc
  BY <1>7
<1>9. ASSUME NEW k \in 1..Len(data) PROVE c[1..k] = KeyByte(c[1..(k - 1)], data[k])
  <2>1. k \in Nat \ {0} /\ 1..k \in SUBSET D /\ 1..k # {}
    BY <1>0
  <2>2. Max(1..k) = k /\ (1..k) \ {k} = 1..(k - 1)
    BY <2>1, MaxOfInterval
  <2>3. c[1..k] = KeyByte(c[(1..k) \ {Max(1..k)}], data[Max(1..k)])
    BY <1>7, <2>1 DEF KeyByte
  <2> QED
    BY <2>2, <2>3
<1>10. Steps(c, KeyStep, Decodings, acc, data)
  <2>1. ASSUME NEW k \in 1..Len(data), c[1..(k - 1)] \in Decodings
        PROVE  c[1..k] = step[<<c[1..(k - 1)], data[k]>>]
    <3>1. data[k] \in Bytes
      BY <1>0
    <3> HIDE DEF step
    <3> QED
      BY <1>2, <1>9, <2>1, <3>1
  <2> QED
    BY <1>8, <2>1 DEF Steps
<1> QED
  BY <1>0, <1>7, <1>10

(* What a fold of nothing is, and of one byte more.                        *)

LEMMA TelnetNil == ASSUME NEW m, NEW acc \in Feds PROVE TelnetRun(m, acc, <<>>) = acc
<1>1. <<>> \in Seq(Bytes) /\ Len(<<>>) = 0
  OBVIOUS
<1>2. PICK c : Steps(c, TelnetStep(m), Feds, acc, <<>>) /\ TelnetRun(m, acc, <<>>) = c[1..Len(<<>>)]
  BY <1>1, TelnetFolds
<1> QED
  BY <1>1, <1>2, FoldsNothing

LEMMA TelnetMore ==
  ASSUME NEW m, NEW acc \in Feds, NEW data \in Seq(Bytes), NEW b \in Bytes
  PROVE  /\ TelnetRun(m, acc, data) \in Feds
         /\ TelnetRun(m, acc, Append(data, b)) = TelnetByte(m, TelnetRun(m, acc, data), b)
<1>1. Append(data, b) \in Seq(Bytes)
  BY AppendProperties
<1>2. TelnetStep(m) \in [Feds \X Bytes -> Feds]
  BY TelnetByteIs DEF TelnetStep
<1>3. PICK c : Steps(c, TelnetStep(m), Feds, acc, data) /\ TelnetRun(m, acc, data) = c[1..Len(data)]
  BY TelnetFolds
<1>4. PICK u : /\ Steps(u, TelnetStep(m), Feds, acc, Append(data, b))
               /\ TelnetRun(m, acc, Append(data, b)) = u[1..Len(Append(data, b))]
  BY <1>1, TelnetFolds
<1>5. c[1..Len(data)] \in Feds /\ u[1..Len(Append(data, b))] = TelnetStep(m)[<<c[1..Len(data)], b>>]
  <2> DEFINE step == TelnetStep(m)
  <2>1. IsStep(step, Feds, Bytes) /\ Steps(c, step, Feds, acc, data) /\ Steps(u, step, Feds, acc, Append(data, b))
    BY <1>2, <1>3, <1>4 DEF IsStep
  <2> HIDE DEF step
  <2>2. c[1..Len(data)] \in Feds /\ u[1..Len(Append(data, b))] = step[<<c[1..Len(data)], b>>]
    BY <2>1, FoldsOneMore
  <2> QED
    BY <2>2 DEF step
<1>6. TelnetStep(m)[<<c[1..Len(data)], b>>] = TelnetByte(m, c[1..Len(data)], b)
  BY <1>5 DEF TelnetStep
<1> QED
  BY <1>3, <1>4, <1>5, <1>6

LEMMA EolNil == ASSUME NEW e \in {"cr", "crlf", "lf"}, NEW acc \in Feds PROVE EolRun(e, acc, <<>>) = acc
<1>1. <<>> \in Seq(Bytes) /\ Len(<<>>) = 0
  OBVIOUS
<1>2. PICK c : Steps(c, EolStep(e), Feds, acc, <<>>) /\ EolRun(e, acc, <<>>) = c[1..Len(<<>>)]
  BY <1>1, EolFolds
<1> QED
  BY <1>1, <1>2, FoldsNothing

LEMMA EolMore ==
  ASSUME NEW e \in {"cr", "crlf", "lf"}, NEW acc \in Feds, NEW data \in Seq(Bytes), NEW b \in Bytes
  PROVE  /\ EolRun(e, acc, data) \in Feds
         /\ EolRun(e, acc, Append(data, b)) = EolByte(e, EolRun(e, acc, data), b)
<1>1. Append(data, b) \in Seq(Bytes)
  BY AppendProperties
<1>2. EolStep(e) \in [Feds \X Bytes -> Feds]
  BY EolByteIs DEF EolStep
<1>3. PICK c : Steps(c, EolStep(e), Feds, acc, data) /\ EolRun(e, acc, data) = c[1..Len(data)]
  BY EolFolds
<1>4. PICK u : /\ Steps(u, EolStep(e), Feds, acc, Append(data, b))
               /\ EolRun(e, acc, Append(data, b)) = u[1..Len(Append(data, b))]
  BY <1>1, EolFolds
<1>5. c[1..Len(data)] \in Feds /\ u[1..Len(Append(data, b))] = EolStep(e)[<<c[1..Len(data)], b>>]
  <2> DEFINE step == EolStep(e)
  <2>1. IsStep(step, Feds, Bytes) /\ Steps(c, step, Feds, acc, data) /\ Steps(u, step, Feds, acc, Append(data, b))
    BY <1>2, <1>3, <1>4 DEF IsStep
  <2> HIDE DEF step
  <2>2. c[1..Len(data)] \in Feds /\ u[1..Len(Append(data, b))] = step[<<c[1..Len(data)], b>>]
    BY <2>1, FoldsOneMore
  <2> QED
    BY <2>2 DEF step
<1>6. EolStep(e)[<<c[1..Len(data)], b>>] = EolByte(e, c[1..Len(data)], b)
  BY <1>5 DEF EolStep
<1> QED
  BY <1>3, <1>4, <1>5, <1>6

LEMMA KeyNil == ASSUME NEW acc \in Decodings PROVE KeyRun(acc, <<>>) = acc
<1>1. <<>> \in Seq(Bytes) /\ Len(<<>>) = 0
  OBVIOUS
<1>2. PICK c : Steps(c, KeyStep, Decodings, acc, <<>>) /\ KeyRun(acc, <<>>) = c[1..Len(<<>>)]
  BY <1>1, KeyFolds
<1> QED
  BY <1>1, <1>2, FoldsNothing

LEMMA KeyMore ==
  ASSUME NEW acc \in Decodings, NEW data \in Seq(Bytes), NEW b \in Bytes
  PROVE  /\ KeyRun(acc, data) \in Decodings
         /\ KeyRun(acc, Append(data, b)) = KeyByte(KeyRun(acc, data), b)
<1>1. Append(data, b) \in Seq(Bytes)
  BY AppendProperties
<1>2. KeyStep \in [Decodings \X Bytes -> Decodings]
  BY KeyByteIs DEF KeyStep
<1>3. PICK c : Steps(c, KeyStep, Decodings, acc, data) /\ KeyRun(acc, data) = c[1..Len(data)]
  BY KeyFolds
<1>4. PICK u : /\ Steps(u, KeyStep, Decodings, acc, Append(data, b))
               /\ KeyRun(acc, Append(data, b)) = u[1..Len(Append(data, b))]
  BY <1>1, KeyFolds
<1>5. c[1..Len(data)] \in Decodings /\ u[1..Len(Append(data, b))] = KeyStep[<<c[1..Len(data)], b>>]
  <2> DEFINE step == KeyStep
  <2>1. IsStep(step, Decodings, Bytes) /\ Steps(c, step, Decodings, acc, data) /\ Steps(u, step, Decodings, acc, Append(data, b))
    BY <1>2, <1>3, <1>4 DEF IsStep
  <2> HIDE DEF step
  <2>2. c[1..Len(data)] \in Decodings /\ u[1..Len(Append(data, b))] = step[<<c[1..Len(data)], b>>]
    BY <2>1, FoldsOneMore
  <2> QED
    BY <2>2 DEF step
<1>6. KeyStep[<<c[1..Len(data)], b>>] = KeyByte(c[1..Len(data)], b)
  BY <1>5 DEF KeyStep
<1> QED
  BY <1>3, <1>4, <1>5, <1>6

--------------------------------------------------------------------------------
(* A read, byte by byte.                                                   *)

Telneted(m, i, data) == IF m = "raw" THEN Fed(i, data, <<>>) ELSE TelnetRun(m, Fed(i, <<>>, <<>>), data)

\* One byte through feedTelnet, and what it yields through normalizeEOL.
Unwrapped(m, i, b)  == IF m = "raw" THEN Fed(i, <<b>>, <<>>) ELSE feedTelnet(i, m, b)
Normalized(e, i, b) == IF e = "raw" THEN Fed(i, <<b>>, <<>>) ELSE normalizeByte(i, e, b)

ByteIn(m, e, i, b) ==
  LET f == Unwrapped(m, i, b)
      g == Normalized(e, f.t, f.raw[1])
  IN IF f.raw = <<>> THEN f ELSE Fed(g.t, g.raw, f.rep)

ModeNames == {"auto", "telnet", "raw"}
EolNames  == {"cr", "crlf", "lf", "raw"}

LEMMA ProcessIs ==
  ASSUME NEW m, NEW e, NEW i, NEW data
  PROVE  LET clean == Telneted(m, i, data)
             out   == normalizeEOL(clean.t, e, clean.raw)
         IN Process(i, m, e, data) = Fed(out.t, out.raw, clean.rep)
BY DEF Process, Telneted, TelnetRun

LEMMA NormalizeIs ==
  ASSUME NEW e, NEW i, NEW data
  PROVE  normalizeEOL(i, e, data) = IF e = "raw" THEN Fed(i, data, <<>>) ELSE EolRun(e, Fed(i, <<>>, <<>>), data)
BY DEF normalizeEOL, EolRun

LEMMA DecodeRead ==
  ASSUME NEW q, NEW data
  PROVE  decode(q, data) = AtEndOfRead(KeyRun(Decoded(q, <<>>), data))
BY DEF decode, KeyRun

LEMMA FedParts ==
  \A i, x, y : Fed(i, x, y).t = i /\ Fed(i, x, y).raw = x /\ Fed(i, x, y).rep = y
BY DEF Fed

LEMMA FedIs ==
  ASSUME NEW i \in Inputs, NEW x \in Seq(Bytes), NEW y \in Seq(Bytes)
  PROVE  Fed(i, x, y) \in Feds
BY DEF Fed, Feds

LEMMA UnwrappedIs ==
  ASSUME NEW m, NEW i \in Inputs, NEW b \in Bytes
  PROVE  Unwrapped(m, i, b) \in Feds
<1>1. <<>> \in Seq(Bytes) /\ <<b>> \in Seq(Bytes)
  OBVIOUS
<1> QED
  BY <1>1, FedIs, FeedIs DEF Unwrapped

LEMMA NormalizedIs ==
  ASSUME NEW e \in EolNames, NEW i \in Inputs, NEW b \in Bytes
  PROVE  Normalized(e, i, b) \in Feds
<1>1. <<>> \in Seq(Bytes) /\ <<b>> \in Seq(Bytes)
  OBVIOUS
<1>2. [i EXCEPT !.lastCR = CRAfter(i, b)] \in Inputs
  BY DEF Inputs, CRAfter
<1> QED
  BY <1>1, <1>2, FedIs, EolIs DEF Normalized, normalizeByte, EolNames

LEMMA TelnetedNil ==
  ASSUME NEW m, NEW i \in Inputs
  PROVE  Telneted(m, i, <<>>) = Fed(i, <<>>, <<>>)
<1>1. <<>> \in Seq(Bytes)
  OBVIOUS
<1> QED
  BY <1>1, FedIs, TelnetNil DEF Telneted

LEMMA ConcatOne ==
  ASSUME NEW S, NEW data \in Seq(S), NEW b \in S
  PROVE  data \o <<b>> = Append(data, b) /\ data \o <<>> = data /\ data \in Seq(S) /\ Append(data, b) \in Seq(S)
BY AppendIsConcat, ConcatEmptySeq, AppendProperties

LEMMA TelnetedMore ==
  ASSUME NEW m, NEW i \in Inputs, NEW data \in Seq(Bytes), NEW b \in Bytes
  PROVE  /\ Telneted(m, i, data) \in Feds
         /\ Telneted(m, i, Append(data, b))
              = Then(Telneted(m, i, data), Unwrapped(m, Telneted(m, i, data).t, b))
<1>1. <<>> \in Seq(Bytes) /\ Fed(i, <<>>, <<>>) \in Feds /\ Fed(i, data, <<>>) \in Feds
  BY FedIs, EmptySeq
<1>2. CASE m = "raw"
  BY <1>1, <1>2, ConcatOne, ConcatEmptySeq DEF Telneted, Unwrapped, Then, Fed
<1>3. CASE m # "raw"
  BY <1>1, <1>3, TelnetMore DEF Telneted, Unwrapped, TelnetByte
<1> QED
  BY <1>2, <1>3

LEMMA NormalizeNil ==
  ASSUME NEW e \in EolNames, NEW i \in Inputs
  PROVE  normalizeEOL(i, e, <<>>) = Fed(i, <<>>, <<>>)
<1>1. <<>> \in Seq(Bytes) /\ Fed(i, <<>>, <<>>) \in Feds
  BY FedIs, EmptySeq
<1> QED
  BY <1>1, EolNil, NormalizeIs DEF EolNames

LEMMA NormalizeMore ==
  ASSUME NEW e \in EolNames, NEW i \in Inputs, NEW data \in Seq(Bytes), NEW b \in Bytes
  PROVE  /\ normalizeEOL(i, e, data) \in Feds
         /\ normalizeEOL(i, e, Append(data, b))
              = Then(normalizeEOL(i, e, data), Normalized(e, normalizeEOL(i, e, data).t, b))
<1>1. <<>> \in Seq(Bytes) /\ Fed(i, <<>>, <<>>) \in Feds /\ Fed(i, data, <<>>) \in Feds
  BY FedIs, EmptySeq
<1>2. CASE e = "raw"
  BY <1>1, <1>2, NormalizeIs, ConcatOne, ConcatEmptySeq DEF Normalized, Then, Fed
<1>3. CASE e # "raw"
  <2>1. e \in {"cr", "crlf", "lf"}
    BY <1>3 DEF EolNames
  <2> QED
    BY <1>1, <1>3, <2>1, NormalizeIs, EolMore DEF Normalized, EolByte
<1> QED
  BY <1>2, <1>3

\* feedTelnet neither looks at lastCR nor changes it, and a byte in is at most one
\* byte out.
Same(f, g, x) == g = Fed([f.t EXCEPT !.lastCR = x], f.raw, f.rep)

\* The parser neither reads nor writes lastCR, and keeps at most the byte it was given:
\* that is what lets the two passes of Process be taken one byte at a time.
LEMMA NegotiateFrame ==
  ASSUME NEW i \in Inputs, NEW b \in Bytes, NEW x \in BOOLEAN, i.cmd \in {WILL, WONT, DO, DONT}
  PROVE  /\ Same(negotiate(i, b), negotiate([i EXCEPT !.lastCR = x], b), x)
         /\ negotiate(i, b).raw = <<>> /\ negotiate(i, b).t.lastCR = i.lastCR
<1> DEFINE j == [i EXCEPT !.lastCR = x]
<1>1. j.cmd = i.cmd /\ j.will = i.will /\ j.do = i.do
  BY DEF Inputs
<1>2. /\ \A r : [j EXCEPT !.will = r] = [[i EXCEPT !.will = r] EXCEPT !.lastCR = x]
      /\ \A r : [j EXCEPT !.do = r] = [[i EXCEPT !.do = r] EXCEPT !.lastCR = x]
      /\ \A r : [i EXCEPT !.will = r].lastCR = i.lastCR /\ [i EXCEPT !.do = r].lastCR = i.lastCR
  BY DEF Inputs
<1>3. WILL # DO /\ WILL # DONT /\ WILL # WONT /\ WONT # DO /\ WONT # DONT /\ DO # DONT
  BY DEF WILL, WONT, DO, DONT
<1>4. CASE i.cmd = DO
  BY <1>1, <1>2, <1>3, <1>4 DEF negotiate, Fed, Same, Known
<1>5. CASE i.cmd = DONT
  BY <1>1, <1>2, <1>3, <1>5 DEF negotiate, Fed, Same, Known
<1>6. CASE i.cmd = WILL
  BY <1>1, <1>2, <1>3, <1>6 DEF negotiate, Fed, Same, Known
<1>7. CASE i.cmd = WONT
  BY <1>1, <1>2, <1>3, <1>7 DEF negotiate, Fed, Same, Known
<1> QED
  BY <1>4, <1>5, <1>6, <1>7

LEMMA FeedFrame ==
  ASSUME NEW m, NEW i \in Inputs, NEW b \in Bytes, NEW x \in BOOLEAN
  PROVE  /\ Same(feedTelnet(i, m, b), feedTelnet([i EXCEPT !.lastCR = x], m, b), x)
         /\ feedTelnet(i, m, b).raw \in {<<>>, <<b>>} /\ feedTelnet(i, m, b).t.lastCR = i.lastCR
<1> DEFINE j == [i EXCEPT !.lastCR = x]
<1>0. i.state \in {"data", "iac", "opt", "sb", "sbiac"} /\ (i.state = "opt" => i.cmd \in {WILL, WONT, DO, DONT})
  BY DEF Inputs
<1>1. j.state = i.state /\ j.cmd = i.cmd /\ j.sb = i.sb /\ j.announced = i.announced
  BY DEF Inputs
<1>2. CASE i.state = "data"
  <2>1. [j EXCEPT !.state = "iac"] = [[i EXCEPT !.state = "iac"] EXCEPT !.lastCR = x]
        /\ [i EXCEPT !.state = "iac"].lastCR = i.lastCR /\ [i EXCEPT !.state = "iac"] \in Inputs
    BY DEF Inputs
  <2>2. ASSUME NEW k \in Inputs
        PROVE  Same(announce(k), announce([k EXCEPT !.lastCR = x]), x) /\ announce(k).raw = <<>>
               /\ announce(k).t.lastCR = k.lastCR
    BY DEF announce, Fed, Same, Inputs
  <2>3. CASE b = IAC /\ m = "auto"
    BY <1>1, <1>2, <2>1, <2>2, <2>3 DEF feedTelnet
  <2>4. CASE b = IAC /\ m # "auto"
    BY <1>1, <1>2, <2>1, <2>4 DEF feedTelnet, Fed, Same
  <2>5. CASE b # IAC
    BY <1>1, <1>2, <2>5 DEF feedTelnet, Fed, Same, Inputs
  <2> QED
    BY <2>3, <2>4, <2>5
<1>3. CASE i.state = "iac"
  <2>1. IAC # SB /\ \A c \in {WILL, WONT, DO, DONT} : c # IAC /\ c # SB
    BY DEF IAC, SB, WILL, WONT, DO, DONT
  <2>2. CASE b \in {WILL, WONT, DO, DONT}
    BY <1>1, <1>3, <2>1, <2>2 DEF feedTelnet, Fed, Same, Inputs
  <2>3. CASE b = SB
    BY <1>1, <1>3, <2>1, <2>3 DEF feedTelnet, Fed, Same, Inputs, SbAtStart
  <2>4. CASE b = IAC
    BY <1>1, <1>3, <2>1, <2>4 DEF feedTelnet, Fed, Same, Inputs
  <2>5. CASE b \notin {IAC, WILL, WONT, DO, DONT, SB}
    BY <1>1, <1>3, <2>1, <2>5 DEF feedTelnet, Fed, Same, Inputs
  <2> QED
    BY <2>2, <2>3, <2>4, <2>5
<1>4. CASE i.state = "opt"
  <2> DEFINE k == [i EXCEPT !.state = "data"]
  <2>1. k \in Inputs /\ k.cmd \in {WILL, WONT, DO, DONT} /\ k.lastCR = i.lastCR
    BY <1>0, <1>4 DEF Inputs
  <2>2. [j EXCEPT !.state = "data"] = [k EXCEPT !.lastCR = x]
    BY DEF Inputs
  <2>3. feedTelnet(i, m, b) = negotiate(k, b) /\ feedTelnet(j, m, b) = negotiate([k EXCEPT !.lastCR = x], b)
    BY <1>1, <1>4, <2>2 DEF feedTelnet
  <2> HIDE DEF j, k
  <2>4. /\ Same(negotiate(k, b), negotiate([k EXCEPT !.lastCR = x], b), x)
        /\ negotiate(k, b).raw = <<>> /\ negotiate(k, b).t.lastCR = k.lastCR
    BY <2>1, NegotiateFrame
  <2> QED
    BY <2>1, <2>3, <2>4 DEF j
<1>5. CASE i.state = "sb"
  <2>1. CASE b = IAC
    BY <1>1, <1>5, <2>1 DEF feedTelnet, Fed, Same, Inputs
  <2>2. CASE b # IAC
    BY <1>1, <1>5, <2>2 DEF feedTelnet, Fed, Same, Inputs
  <2> QED
    BY <2>1, <2>2
<1>6. CASE i.state = "sbiac"
  <2>1. SizeAfter(j) = SizeAfter(i)
    BY <1>1 DEF SizeAfter, Inputs
  <2>2. CASE b = SE
    BY <1>1, <1>6, <2>1, <2>2 DEF feedTelnet, Fed, Same, Inputs
  <2>3. CASE b # SE
    BY <1>1, <1>6, <2>3 DEF feedTelnet, Fed, Same, Inputs
  <2> QED
    BY <2>2, <2>3
<1> QED
  BY <1>0, <1>2, <1>3, <1>4, <1>5, <1>6

LEMMA UnwrappedFrame ==
  ASSUME NEW m, NEW i \in Inputs, NEW b \in Bytes, NEW x \in BOOLEAN
  PROVE  /\ Same(Unwrapped(m, i, b), Unwrapped(m, [i EXCEPT !.lastCR = x], b), x)
         /\ Unwrapped(m, i, b).raw \in {<<>>, <<b>>} /\ Unwrapped(m, i, b).t.lastCR = i.lastCR
<1>1. CASE m = "raw"
  BY <1>1 DEF Unwrapped, Same, Fed
<1>2. CASE m # "raw"
  BY <1>2, FeedFrame DEF Unwrapped
<1> QED
  BY <1>1, <1>2

\* What normalizeEOL does depends on lastCR alone, and changes nothing else.
Effect(e, cr, data, x, y) ==
  \A i \in Inputs : i.lastCR = cr => normalizeEOL(i, e, data) = Fed([i EXCEPT !.lastCR = x], y, <<>>)

\* What the second pass does to lastCR and to the bytes depends on lastCR alone.
LEMMA NormalizedEffect ==
  ASSUME NEW e \in EolNames, NEW cr \in BOOLEAN, NEW b \in Bytes
  PROVE  \E x \in BOOLEAN, y \in Seq(Bytes) :
           \A i \in Inputs : i.lastCR = cr => Normalized(e, i, b) = Fed([i EXCEPT !.lastCR = x], y, <<>>)
<1>0. <<>> \in Seq(Bytes) /\ <<b>> \in Seq(Bytes)
  OBVIOUS
<1>1. CASE e = "raw"
  <2>1. \A i \in Inputs : i.lastCR = cr => [i EXCEPT !.lastCR = cr] = i
    BY DEF Inputs
  <2>2. \A i \in Inputs : i.lastCR = cr => Normalized(e, i, b) = Fed([i EXCEPT !.lastCR = cr], <<b>>, <<>>)
    BY <1>1, <2>1 DEF Normalized
  <2> QED
    BY <1>0, <2>2
<1>2. CASE e # "raw"
  <2> DEFINE y == CASE b = CR -> emitEOL(e) [] b = LF -> IF cr THEN <<>> ELSE emitEOL(e)
                    [] b = NUL -> <<>> [] b \notin {CR, LF, NUL} -> <<b>>
  <2>1. \A i \in Inputs : i.lastCR = cr => Normalized(e, i, b) = Fed([i EXCEPT !.lastCR = (b = CR)], y, <<>>)
    BY <1>2 DEF Normalized, normalizeByte, CRAfter
  <2>2. emitEOL(e) \in Seq(Bytes)
    BY <1>2, EolIs DEF EolNames
  <2>3. y \in Seq(Bytes)
    BY <1>0, <2>2
  <2>4. (b = CR) \in BOOLEAN
    OBVIOUS
  <2> HIDE DEF y
  <2> QED
    BY <2>1, <2>3, <2>4
<1> QED
  BY <1>1, <1>2

LEMMA EffectMore ==
  ASSUME NEW e \in EolNames, NEW cr \in BOOLEAN, NEW data \in Seq(Bytes), NEW b \in Bytes,
         NEW x \in BOOLEAN, NEW y \in Seq(Bytes), Effect(e, cr, data, x, y)
  PROVE  \E v \in BOOLEAN, w \in Seq(Bytes) : Effect(e, cr, Append(data, b), v, w)
<1>1. PICK v \in BOOLEAN, z \in Seq(Bytes) :
        \A i \in Inputs : i.lastCR = x => Normalized(e, i, b) = Fed([i EXCEPT !.lastCR = v], z, <<>>)
  BY NormalizedEffect, ZenonT(30)
<1>2. ASSUME NEW i \in Inputs, i.lastCR = cr
      PROVE  normalizeEOL(i, e, Append(data, b)) = Fed([i EXCEPT !.lastCR = v], y \o z, <<>>)
  <2> DEFINE j == [i EXCEPT !.lastCR = x]
             k == [i EXCEPT !.lastCR = v]
  <2>1. normalizeEOL(i, e, data) = Fed(j, y, <<>>)
    BY <1>2 DEF Effect
  <2>2. j \in Inputs /\ j.lastCR = x /\ [j EXCEPT !.lastCR = v] = k
    BY DEF Inputs
  <2>3. Normalized(e, j, b) = Fed(k, z, <<>>)
    BY <1>1, <2>2
  <2> HIDE DEF j, k
  <2>4. normalizeEOL(i, e, Append(data, b))
          = Then(normalizeEOL(i, e, data), Normalized(e, normalizeEOL(i, e, data).t, b))
    BY NormalizeMore
  <2>5. <<>> \o <<>> = <<>>
    OBVIOUS
  <2>6. normalizeEOL(i, e, Append(data, b))
          = Then(Fed(j, y, <<>>), Fed(k, z, <<>>))
    BY <2>1, <2>3, <2>4, FedParts
  <2>7. normalizeEOL(i, e, Append(data, b)) = Fed(k, y \o z, <<>>)
    <3>1. Then(Fed(j, y, <<>>), Fed(k, z, <<>>)) = Fed(k, y \o z, <<>> \o <<>>)
      BY DEF Then, Fed
    <3> QED
      BY <2>5, <2>6, <3>1
  <2> QED
    BY <2>7 DEF k
<1>3. y \o z \in Seq(Bytes)
  BY ConcatProperties
<1>4. Effect(e, cr, Append(data, b), v, y \o z)
  BY <1>2 DEF Effect
<1> QED
  BY <1>3, <1>4

\* The same for a whole read.
LEMMA EffectExists ==
  ASSUME NEW e \in EolNames, NEW cr \in BOOLEAN, NEW data \in Seq(Bytes)
  PROVE  \E x \in BOOLEAN, y \in Seq(Bytes) : Effect(e, cr, data, x, y)
<1> DEFINE Q(s) == \E x \in BOOLEAN, y \in Seq(Bytes) : Effect(e, cr, s, x, y)
           T == {n \in Nat : \A s \in Seq(Bytes) : Len(s) = n => Q(s)}
<1>1. 0 \in T
  <2>1. \A i \in Inputs : i.lastCR = cr => [i EXCEPT !.lastCR = cr] = i
    BY DEF Inputs
  <2>2. Effect(e, cr, <<>>, cr, <<>>)
    BY <2>1, NormalizeNil DEF Effect
  <2>3. Q(<<>>)
    BY <2>2, EmptySeq
  <2>4. \A s \in Seq(Bytes) : Len(s) = 0 => s = <<>>
    BY EmptySeq
  <2> HIDE DEF Q
  <2> QED
    BY <2>3, <2>4
<1>2. ASSUME NEW n \in T PROVE n + 1 \in T
  <2>1. ASSUME NEW s \in Seq(Bytes), Len(s) = n + 1 PROVE Q(s)
    <3>1. n \in Nat /\ \A r \in Seq(Bytes) : Len(r) = n => Q(r)
      <4> HIDE DEF Q
      <4> QED
        BY <1>2
    <3>2. s # <<>>
      BY <2>1, <3>1, EmptySeq
    <3>3. PICK r \in Seq(Bytes), b \in Bytes : s = Append(r, b)
      BY <3>2, SequenceEmptyOrAppend
    <3>4. Len(r) = n
      BY <2>1, <3>1, <3>3, AppendProperties, LenProperties
    <3>5. PICK x \in BOOLEAN, y \in Seq(Bytes) : Effect(e, cr, r, x, y)
      BY <3>1, <3>4
    <3> QED
      BY <3>3, <3>5, EffectMore
  <2>2. n + 1 \in Nat
    BY <1>2
  <2> HIDE DEF Q
  <2> QED
    BY <2>1, <2>2
<1>3. Nat \subseteq T
  <2> HIDE DEF T
  <2> QED
    BY <1>1, <1>2, SetInduction
<1>4. Len(data) \in T
  BY <1>3, LenProperties
<1> QED
  BY <1>4

LEMMA ProcessNil ==
  ASSUME NEW m, NEW e \in EolNames, NEW i \in Inputs
  PROVE  Process(i, m, e, <<>>) = Fed(i, <<>>, <<>>)
BY TelnetedNil, NormalizeNil, ProcessIs DEF Fed

\* A read of one byte more is that byte more, through both.
LEMMA ProcessMore ==
  ASSUME NEW m, NEW e \in EolNames, NEW i \in Inputs, NEW data \in Seq(Bytes), NEW b \in Bytes
  PROVE  /\ Process(i, m, e, data) \in Feds
         /\ Process(i, m, e, Append(data, b))
              = Then(Process(i, m, e, data), ByteIn(m, e, Process(i, m, e, data).t, b))
<1> DEFINE c == Telneted(m, i, data)
           f == Unwrapped(m, c.t, b)
           o == normalizeEOL(c.t, e, c.raw)
           p == Process(i, m, e, data)
<1>1. c \in Feds /\ c.t \in Inputs /\ c.raw \in Seq(Bytes) /\ c.rep \in Seq(Bytes)
      /\ Telneted(m, i, Append(data, b)) = Then(c, f)
  BY TelnetedMore DEF Feds
<1> HIDE DEF c
<1>2. f \in Feds /\ f.t \in Inputs /\ f.rep \in Seq(Bytes) /\ f.raw \in {<<>>, <<b>>} /\ f.t.lastCR = c.t.lastCR
  BY <1>1, UnwrappedIs, UnwrappedFrame DEF Feds
<1>3. PICK x \in BOOLEAN, y \in Seq(Bytes) : Effect(e, c.t.lastCR, c.raw, x, y)
  <2>1. c.t.lastCR \in BOOLEAN
    BY <1>1 DEF Inputs
  <2> QED
    BY <1>1, <2>1, EffectExists
<1>4. o = Fed([c.t EXCEPT !.lastCR = x], y, <<>>)
  BY <1>1, <1>3 DEF Effect
<1>5. p = Fed([c.t EXCEPT !.lastCR = x], y, c.rep)
  BY <1>4, ProcessIs DEF Fed, c
<1>6. [c.t EXCEPT !.lastCR = x] \in Inputs /\ [f.t EXCEPT !.lastCR = x] \in Inputs
  BY <1>1, <1>2 DEF Inputs
<1>7. Same(f, Unwrapped(m, p.t, b), x)
  BY <1>1, <1>5, UnwrappedFrame DEF Fed
<1>8. normalizeEOL(f.t, e, c.raw) = Fed([f.t EXCEPT !.lastCR = x], y, <<>>)
  BY <1>1, <1>2, <1>3 DEF Effect
<1>9. p \in Feds
  BY <1>1, <1>5, <1>6, FedIs
<1> DEFINE u == Unwrapped(m, p.t, b)
<1>10. u.t = [f.t EXCEPT !.lastCR = x] /\ u.raw = f.raw /\ u.rep = f.rep
  BY <1>7 DEF Same, Fed
<1> DEFINE r == Process(i, m, e, Append(data, b))
<1>11. r = Fed(normalizeEOL(f.t, e, c.raw \o f.raw).t, normalizeEOL(f.t, e, c.raw \o f.raw).raw, c.rep \o f.rep)
  <2>1. Then(c, f).t = f.t /\ Then(c, f).raw = c.raw \o f.raw /\ Then(c, f).rep = c.rep \o f.rep
    BY DEF Then, Fed
  <2> QED
    BY <1>1, <2>1, ProcessIs, Zenon
<1> HIDE DEF f, p, u, r
<1>12. CASE f.raw = <<>>
  <2>1. c.raw \o f.raw = c.raw /\ y \o <<>> = y
    BY <1>1, <1>12, ConcatEmptySeq
  <2>2. r = Fed([f.t EXCEPT !.lastCR = x], y, c.rep \o f.rep)
    <3>1. r = Fed(normalizeEOL(f.t, e, c.raw).t, normalizeEOL(f.t, e, c.raw).raw, c.rep \o f.rep)
      BY <1>11, <2>1
    <3>2. normalizeEOL(f.t, e, c.raw).t = [f.t EXCEPT !.lastCR = x] /\ normalizeEOL(f.t, e, c.raw).raw = y
      BY <1>8 DEF Fed
    <3> QED
      BY <3>1, <3>2
  <2>3. ByteIn(m, e, p.t, b) = u
    BY <1>10, <1>12 DEF ByteIn, u
  <2>4. Then(p, u) = Fed([f.t EXCEPT !.lastCR = x], y, c.rep \o f.rep)
    BY <1>5, <1>10, <1>12, <2>1 DEF Then, Fed
  <2> QED
    BY <1>9, <2>2, <2>3, <2>4 DEF p, r
<1>13. CASE f.raw = <<b>>
  <2>1. c.raw \o f.raw = Append(c.raw, b)
    BY <1>1, <1>13, ConcatOne
  <2> DEFINE g == Normalized(e, [f.t EXCEPT !.lastCR = x], b)
  <2>2. normalizeEOL(f.t, e, Append(c.raw, b)) = Then(normalizeEOL(f.t, e, c.raw), g)
    <3>1. normalizeEOL(f.t, e, Append(c.raw, b))
            = Then(normalizeEOL(f.t, e, c.raw), Normalized(e, normalizeEOL(f.t, e, c.raw).t, b))
      BY <1>1, <1>2, NormalizeMore
    <3>2. normalizeEOL(f.t, e, c.raw).t = [f.t EXCEPT !.lastCR = x]
      BY <1>8 DEF Fed
    <3> QED
      BY <3>1, <3>2, Zenon
  <2>3. r = Fed(g.t, y \o g.raw, c.rep \o f.rep)
    BY <1>8, <1>11, <2>1, <2>2 DEF Then, Fed
  <2>4. ByteIn(m, e, p.t, b) = Fed(g.t, g.raw, f.rep)
    <3>1. u.raw[1] = b /\ u.raw # <<>>
      BY <1>10, <1>13
    <3> QED
      BY <1>10, <3>1 DEF ByteIn, u
  <2>5. Then(p, Fed(g.t, g.raw, f.rep)) = Fed(g.t, y \o g.raw, c.rep \o f.rep)
    BY <1>5 DEF Then, Fed
  <2> QED
    BY <1>9, <2>3, <2>4, <2>5 DEF p, r
<1> QED
  BY <1>2, <1>12, <1>13

--------------------------------------------------------------------------------
(* What has been sent, token by token.                                     *)

\* What the tokens s stand for, one after the other, w[x] being what x stands for.
Mapped(w, s) == [i \in DOMAIN s |-> w[s[i]]]
Flat(w, s)   == FlattenSeq(Mapped(w, s))

\* The function that FlattenSeq is the last value of.
Flattens(c, ss) == \A i \in 1..Len(ss) : c[i] = IF i = 1 THEN ss[i] ELSE c[i - 1] \o ss[i]

\* FlattenSeq is defined on every sequence.
LEMMA FlattenExists ==
  ASSUME NEW ss, Len(ss) \in Nat
  PROVE  \E g : g = [i \in 1..Len(ss) |-> IF i = 1 THEN ss[i] ELSE g[i - 1] \o ss[i]]
<1> DEFINE Good(k, g) == g = [i \in 1..k |-> IF i = 1 THEN ss[i] ELSE g[i - 1] \o ss[i]]
           T == {k \in Nat : \E g : Good(k, g)}
<1>1. 0 \in T
  <2> DEFINE g == [i \in 1..0 |-> ss[i]]
  <2>1. Good(0, g)
    OBVIOUS
  <2> HIDE DEF Good, g
  <2> QED
    BY <2>1
<1>2. ASSUME NEW k \in T PROVE k + 1 \in T
  <2>1. k \in Nat /\ k + 1 \in Nat /\ (k + 1) - 1 = k
    OBVIOUS
  <2>2. PICK g : Good(k, g)
    <3> HIDE DEF Good
    <3> QED
      BY <1>2
  <2> DEFINE h == [i \in 1..(k + 1) |-> IF i = k + 1 THEN (IF i = 1 THEN ss[i] ELSE g[i - 1] \o ss[i]) ELSE g[i]]
  <2>3. ASSUME NEW i \in 1..(k + 1)
        PROVE  h[i] = IF i = 1 THEN ss[i] ELSE h[i - 1] \o ss[i]
    <3>1. CASE i = k + 1 /\ i # 1
      <4>1. i - 1 \in 1..(k + 1) /\ i - 1 # k + 1
        BY <2>1, <3>1
      <4>2. h[i - 1] = g[i - 1]
        BY <4>1
      <4> QED
        BY <3>1, <4>2
    <3>2. CASE i = k + 1 /\ i = 1
      BY <3>2
    <3>3. CASE i # k + 1
      <4>1. i \in 1..k
        BY <2>1, <3>3
      <4>2. g[i] = IF i = 1 THEN ss[i] ELSE g[i - 1] \o ss[i]
        BY <2>2, <4>1
      <4>3. i # 1 => i - 1 \in 1..(k + 1) /\ i - 1 # k + 1
        BY <2>1, <4>1
      <4>4. i # 1 => h[i - 1] = g[i - 1]
        BY <4>3
      <4>5. h[i] = g[i]
        BY <3>3
      <4> QED
        BY <4>2, <4>4, <4>5
    <3> QED
      BY <3>1, <3>2, <3>3
  <2>4. Good(k + 1, h)
    <3>1. h = [i \in 1..(k + 1) |-> h[i]]
      OBVIOUS
    <3> HIDE DEF h
    <3> QED
      BY <2>3, <3>1
  <2> HIDE DEF Good, h
  <2> QED
    BY <2>1, <2>4
<1>3. Nat \subseteq T
  <2> HIDE DEF T
  <2> QED
    BY <1>1, <1>2, SetInduction
<1>4. \E g : Good(Len(ss), g)
  <2> HIDE DEF Good
  <2> QED
    BY <1>3
<1> QED
  BY <1>4

LEMMA FlattenIs ==
  ASSUME NEW ss, Len(ss) \in Nat \ {0}
  PROVE  \E c : Flattens(c, ss) /\ FlattenSeq(ss) = c[Len(ss)]
<1> DEFINE P(g) == g = [i \in 1..Len(ss) |-> IF i = 1 THEN ss[i] ELSE g[i - 1] \o ss[i]]
           c == CHOOSE g : P(g)
<1>1. P(c)
  <2>1. \E g : P(g)
    BY FlattenExists
  <2> HIDE DEF P
  <2> QED
    BY <2>1
<1>2. FlattenSeq(ss) = c[Len(ss)]
  BY DEF FlattenSeq
<1>3. Flattens(c, ss)
  <2> HIDE DEF c
  <2> QED
    BY <1>1 DEF Flattens
<1> HIDE DEF c
<1> QED
  BY <1>2, <1>3

\* One more sequence at the end is one more at the end of what they flatten to.
LEMMA FlattenMore ==
  ASSUME NEW S, NEW ss \in Seq(Seq(S)), NEW x \in Seq(S), FlattenSeq(ss) \in Seq(S)
  PROVE  FlattenSeq(Append(ss, x)) = FlattenSeq(ss) \o x
<1> DEFINE n == Len(ss)
           rr == Append(ss, x)
<1>0. n \in Nat /\ Len(rr) = n + 1 /\ rr[n + 1] = x /\ \A i \in 1..n : rr[i] = ss[i] /\ ss[i] \in Seq(S)
  BY LenProperties, AppendProperties, ElementOfSeq
<1>1. PICK e : Flattens(e, rr) /\ FlattenSeq(rr) = e[n + 1]
  <2>1. Len(rr) \in Nat \ {0}
    BY <1>0
  <2> HIDE DEF rr
  <2>2. \E c : Flattens(c, rr) /\ FlattenSeq(rr) = c[Len(rr)]
    BY <2>1, FlattenIs
  <2> QED
    BY <1>0, <2>2
<1>2. CASE n = 0
  <2>1. ss = <<>> /\ FlattenSeq(ss) = ss
    BY <1>2, EmptySeq DEF FlattenSeq
  <2>2. e[1] = rr[1]
    BY <1>0, <1>1, <1>2 DEF Flattens
  <2> QED
    BY <1>0, <1>1, <1>2, <2>1, <2>2, ConcatEmptySeq
<1>3. CASE n # 0
  <2>1. PICK c : Flattens(c, ss) /\ FlattenSeq(ss) = c[n]
    BY <1>0, <1>3, FlattenIs
  <2> DEFINE T == {k \in Nat : k + 1 <= n => e[k + 1] = c[k + 1]}
  <2>2. 0 \in T
    <3>1. 1 \in 1..n /\ 1 \in 1..Len(rr)
      BY <1>0, <1>3
    <3>2. e[1] = rr[1] /\ c[1] = ss[1]
      BY <1>1, <2>1, <3>1 DEF Flattens
    <3> QED
      BY <1>0, <3>1, <3>2
  <2>3. ASSUME NEW k \in T PROVE k + 1 \in T
    <3>1. k \in Nat /\ k + 1 \in Nat /\ (k + 2) - 1 = k + 1 /\ (k + 1) + 1 = k + 2 /\ k + 2 # 1
      OBVIOUS
    <3>2. ASSUME k + 2 <= n PROVE e[k + 2] = c[k + 2]
      <4>1. k + 1 <= n /\ k + 2 \in 1..n /\ k + 2 \in 1..Len(rr)
        BY <1>0, <3>1, <3>2
      <4>2. e[k + 1] = c[k + 1]
        BY <4>1
      <4>3. e[k + 2] = e[k + 1] \o rr[k + 2] /\ c[k + 2] = c[k + 1] \o ss[k + 2]
        BY <1>1, <2>1, <3>1, <4>1 DEF Flattens
      <4> QED
        BY <1>0, <4>1, <4>2, <4>3
    <3> QED
      BY <3>1, <3>2
  <2>4. Nat \subseteq T
    <3> HIDE DEF T
    <3> QED
      BY <2>2, <2>3, SetInduction
  <2>5. e[n] = c[n]
    <3>1. n - 1 \in Nat /\ (n - 1) + 1 = n
      BY <1>0, <1>3
    <3>2. n - 1 \in T
      <4> HIDE DEF T
      <4> QED
        BY <2>4, <3>1
    <3> QED
      BY <1>0, <3>1, <3>2
  <2>6. e[n + 1] = e[n] \o x
    <3>1. n + 1 \in 1..Len(rr) /\ n + 1 # 1 /\ (n + 1) - 1 = n
      BY <1>0, <1>3
    <3> QED
      BY <1>0, <1>1, <3>1 DEF Flattens
  <2> QED
    BY <1>1, <2>1, <2>5, <2>6
<1> QED
  BY <1>2, <1>3

LEMMA FlatNil == ASSUME NEW w PROVE Flat(w, <<>>) = <<>>
<1>1. Mapped(w, <<>>) = <<>>
  BY DEF Mapped
<1>2. Len(<<>>) = 0
  OBVIOUS
<1> QED
  BY <1>1, <1>2 DEF Flat, FlattenSeq

IsMap(w, A, Q) == w \in [A -> Q]

LEMMA MappedIs ==
  ASSUME NEW A, NEW Q, NEW w, IsMap(w, A, Q), NEW s \in Seq(A)
  PROVE  Mapped(w, s) \in Seq(Q) /\ Len(Mapped(w, s)) = Len(s) /\ \A i \in 1..Len(s) : Mapped(w, s)[i] = w[s[i]]
<1>1. Len(s) \in Nat /\ DOMAIN s = 1..Len(s) /\ \A i \in 1..Len(s) : w[s[i]] \in Q
  BY LenProperties, ElementOfSeq DEF IsMap
<1>2. Mapped(w, s) = [i \in 1..Len(s) |-> w[s[i]]]
  BY <1>1 DEF Mapped
<1> QED
  BY <1>1, <1>2

LEMMA MappedMore ==
  ASSUME NEW A, NEW Q, NEW w, IsMap(w, A, Q), NEW s \in Seq(A), NEW x \in A
  PROVE  Mapped(w, Append(s, x)) = Append(Mapped(w, s), w[x])
<1>1. /\ Append(s, x) \in Seq(A) /\ Len(Append(s, x)) = Len(s) + 1 /\ Append(s, x)[Len(s) + 1] = x
      /\ \A i \in 1..Len(s) : Append(s, x)[i] = s[i]
      /\ Len(s) \in Nat /\ w[x] \in Q
  BY AppendProperties, LenProperties DEF IsMap
<1>2. /\ Mapped(w, s) \in Seq(Q) /\ Len(Mapped(w, s)) = Len(s) /\ \A i \in 1..Len(s) : Mapped(w, s)[i] = w[s[i]]
      /\ Mapped(w, Append(s, x)) \in Seq(Q) /\ Len(Mapped(w, Append(s, x))) = Len(s) + 1
      /\ \A i \in 1..(Len(s) + 1) : Mapped(w, Append(s, x))[i] = w[Append(s, x)[i]]
  <2>1. Mapped(w, s) \in Seq(Q) /\ Len(Mapped(w, s)) = Len(s) /\ \A i \in 1..Len(s) : Mapped(w, s)[i] = w[s[i]]
    BY MappedIs
  <2> DEFINE r == Append(s, x)
  <2>2. r \in Seq(A)
    BY <1>1
  <2> HIDE DEF r
  <2>3. Mapped(w, r) \in Seq(Q) /\ Len(Mapped(w, r)) = Len(r) /\ \A i \in 1..Len(r) : Mapped(w, r)[i] = w[r[i]]
    BY <2>2, MappedIs
  <2> QED
    BY <1>1, <2>1, <2>3 DEF r
<1>3. /\ Append(Mapped(w, s), w[x]) \in Seq(Q) /\ Len(Append(Mapped(w, s), w[x])) = Len(s) + 1
      /\ Append(Mapped(w, s), w[x])[Len(s) + 1] = w[x]
      /\ \A i \in 1..Len(s) : Append(Mapped(w, s), w[x])[i] = Mapped(w, s)[i]
  BY <1>1, <1>2, AppendProperties
<1>4. \A i \in 1..(Len(s) + 1) : Mapped(w, Append(s, x))[i] = Append(Mapped(w, s), w[x])[i]
  BY <1>1, <1>2, <1>3
<1> QED
  BY <1>2, <1>3, <1>4, SeqEqual

\* One token more.
LEMMA FlatMore ==
  ASSUME NEW A, NEW S, NEW w, IsMap(w, A, Seq(S)), NEW s \in Seq(A), NEW x \in A, Flat(w, s) \in Seq(S)
  PROVE  Flat(w, Append(s, x)) = Flat(w, s) \o w[x]
<1> DEFINE Q == Seq(S)
<1>1. IsMap(w, A, Q)
  OBVIOUS
<1>2. FlattenSeq(Mapped(w, s)) \in Seq(S) /\ w[x] \in Seq(S)
  BY DEF Flat, IsMap
<1> HIDE DEF Q
<1>3. Mapped(w, s) \in Seq(Q) /\ Mapped(w, Append(s, x)) = Append(Mapped(w, s), w[x])
  BY <1>1, MappedIs, MappedMore
<1>4. FlattenSeq(Append(Mapped(w, s), w[x])) = FlattenSeq(Mapped(w, s)) \o w[x]
  BY <1>2, <1>3, FlattenMore DEF Q
<1> QED
  BY <1>3, <1>4 DEF Flat

\* Induction over sequences, as a statement about a set of them.
LEMMA SeqInduction ==
  ASSUME NEW S, NEW T, <<>> \in T, \A s \in Seq(S), x \in S : s \in T => Append(s, x) \in T
  PROVE  Seq(S) \subseteq T
<1> DEFINE N == {n \in Nat : \A s \in Seq(S) : Len(s) = n => s \in T}
<1>1. 0 \in N
  BY EmptySeq
<1>2. ASSUME NEW n \in N PROVE n + 1 \in N
  <2>1. ASSUME NEW s \in Seq(S), Len(s) = n + 1 PROVE s \in T
    <3>1. n \in Nat /\ s # <<>>
      BY <2>1, EmptySeq
    <3>2. PICK r \in Seq(S), x \in S : s = Append(r, x)
      BY <3>1, SequenceEmptyOrAppend
    <3>3. Len(r) = n
      BY <2>1, <3>1, <3>2, AppendProperties, LenProperties
    <3> QED
      BY <3>2, <3>3
  <2> QED
    BY <2>1
<1>3. Nat \subseteq N
  <2> HIDE DEF N
  <2> QED
    BY <1>1, <1>2, SetInduction
<1> QED
  BY <1>3, LenProperties

LEMMA FlatIs ==
  ASSUME NEW A, NEW S, NEW w, IsMap(w, A, Seq(S)), NEW s \in Seq(A)
  PROVE  Flat(w, s) \in Seq(S)
<1> DEFINE T == {r \in Seq(A) : Flat(w, r) \in Seq(S)}
<1>1. <<>> \in T
  BY FlatNil, EmptySeq
<1>2. ASSUME NEW r \in Seq(A), NEW x \in A, r \in T PROVE Append(r, x) \in T
  <2>1. Flat(w, Append(r, x)) = Flat(w, r) \o w[x] /\ Flat(w, r) \in Seq(S)
    BY <1>2, FlatMore
  <2>2. w[x] \in Seq(S) /\ Append(r, x) \in Seq(A)
    BY AppendProperties DEF IsMap
  <2> QED
    BY <2>1, <2>2, ConcatProperties
<1>3. Seq(A) \subseteq T
  <2> HIDE DEF T
  <2> QED
    BY <1>1, <1>2, SeqInduction
<1> QED
  BY <1>3

LEMMA FlatAppend ==
  ASSUME NEW A, NEW S, NEW w, IsMap(w, A, Seq(S)), NEW s \in Seq(A), NEW x \in A
  PROVE  /\ Flat(w, s) \in Seq(S) /\ w[x] \in Seq(S)
         /\ Flat(w, Append(s, x)) = Flat(w, s) \o w[x] /\ Flat(w, Append(s, x)) \in Seq(S)
<1>1. Flat(w, s) \in Seq(S) /\ w[x] \in Seq(S) /\ Append(s, x) \in Seq(A)
  BY FlatIs, AppendProperties DEF IsMap
<1>2. Flat(w, Append(s, x)) = Flat(w, s) \o w[x]
  BY <1>1, FlatMore
<1>3. Flat(w, s) \o w[x] \in Seq(S)
  BY <1>1, ConcatProperties
<1> QED
  BY <1>1, <1>2, <1>3

LEMMA PrefixOfAppend ==
  ASSUME NEW A, NEW s \in Seq(A), NEW x \in A, NEW k \in 0..Len(s)
  PROVE  SubSeq(Append(s, x), 1, k) = SubSeq(s, 1, k)
<1>1. Append(s, x) \in Seq(A) /\ Len(s) \in Nat /\ \A i \in 1..Len(s) : Append(s, x)[i] = s[i] /\ s[i] \in A
  BY AppendProperties, LenProperties, ElementOfSeq
<1>2. \A i \in 1..k : i \in 1..Len(s)
  BY <1>1
<1> QED
  BY <1>1, <1>2

\* What the first tokens stand for comes first.
LEMMA FlatPrefix ==
  ASSUME NEW A, NEW S, NEW w, IsMap(w, A, Seq(S)), NEW s \in Seq(A), NEW k \in 0..Len(s)
  PROVE  \E r \in Seq(S) : Flat(w, s) = Flat(w, SubSeq(s, 1, k)) \o r
<1> DEFINE Starts(q, j) == \E r \in Seq(S) : Flat(w, q) = Flat(w, SubSeq(q, 1, j)) \o r
           T == {q \in Seq(A) : \A j \in 0..Len(q) : Starts(q, j)}
<1>0. ASSUME NEW q \in Seq(A) PROVE Starts(q, Len(q))
  <2>1. Flat(w, q) \in Seq(S) /\ SubSeq(q, 1, Len(q)) = q
    BY FlatIs, SubSeqFull
  <2> QED
    BY <2>1, EmptySeq, ConcatEmptySeq
<1>1. <<>> \in T
  <2>1. <<>> \in Seq(A) /\ \A j \in 0..Len(<<>>) : j = Len(<<>>)
    BY EmptySeq
  <2> HIDE DEF Starts
  <2> QED
    BY <1>0, <2>1
<1>2. ASSUME NEW q \in Seq(A), NEW x \in A, q \in T PROVE Append(q, x) \in T
  <2>1. Append(q, x) \in Seq(A) /\ Len(Append(q, x)) = Len(q) + 1 /\ Len(q) \in Nat
    BY AppendProperties, LenProperties
  <2>2. ASSUME NEW j \in 0..Len(q) PROVE Starts(Append(q, x), j)
    <3>1. PICK r \in Seq(S) : Flat(w, q) = Flat(w, SubSeq(q, 1, j)) \o r
      BY <1>2
    <3>2. Flat(w, Append(q, x)) = Flat(w, q) \o w[x] /\ w[x] \in Seq(S)
      BY FlatAppend
    <3>3. SubSeq(q, 1, j) \in Seq(A)
      BY <2>1, SubSeqProperties, ElementOfSeq
    <3>4. Flat(w, SubSeq(q, 1, j)) \in Seq(S)
      BY <3>3, FlatIs
    <3>5. Flat(w, Append(q, x)) = Flat(w, SubSeq(q, 1, j)) \o (r \o w[x])
      <4> DEFINE f == Flat(w, SubSeq(q, 1, j))
                 v == w[x]
      <4>1. Flat(w, Append(q, x)) = (f \o r) \o v
        BY <3>1, <3>2
      <4>2. f \in Seq(S) /\ v \in Seq(S)
        BY <3>2, <3>4
      <4> HIDE DEF f, v, Starts, T
      <4>3. (f \o r) \o v = f \o (r \o v)
        BY <4>2
      <4> QED
        BY <4>1, <4>3 DEF f, v
    <3>6. r \o w[x] \in Seq(S)
      BY <3>2, ConcatProperties
    <3> QED
      BY <3>5, <3>6, PrefixOfAppend
  <2>3. ASSUME NEW j \in 0..Len(Append(q, x)) PROVE Starts(Append(q, x), j)
    <3> HIDE DEF Starts
    <3>1. j \in 0..Len(q) \/ j = Len(Append(q, x))
      BY <2>1
    <3> QED
      BY <1>0, <2>1, <2>2, <3>1
  <2> HIDE DEF Starts
  <2> QED
    BY <2>1, <2>3
<1>3. Seq(A) \subseteq T
  <2> HIDE DEF T
  <2> QED
    BY <1>1, <1>2, SeqInduction
<1>4. Starts(s, k)
  <2> HIDE DEF Starts
  <2> QED
    BY <1>3
<1> QED
  BY <1>4

--------------------------------------------------------------------------------
(* All of the input path, byte by byte.                                    *)

LEMMA Assoc ==
  ASSUME NEW S, NEW x \in Seq(S), NEW y \in Seq(S), NEW z \in Seq(S)
  PROVE  (x \o y) \o z = x \o (y \o z)
OBVIOUS

LEMMA AssocBytes == \A x, y, z \in Seq(Bytes) : (x \o y) \o z = x \o (y \o z)
BY Assoc

LEMMA ConcatAppend ==
  ASSUME NEW S, NEW x \in Seq(S), NEW y \in Seq(S), NEW b \in S
  PROVE  x \o Append(y, b) = Append(x \o y, b) /\ x \o y \in Seq(S)
OBVIOUS

LEMMA KeyRunIs == \A acc \in Decodings, x \in Seq(Bytes) : KeyRun(acc, x) \in Decodings
<1>1. 0 \in Bytes
  BY ByteIs
<1> QED
  BY <1>1, KeyMore

\* The decoder may be interrupted between any two bytes.
LEMMA KeyConcat ==
  ASSUME NEW acc \in Decodings, NEW x \in Seq(Bytes), NEW y \in Seq(Bytes)
  PROVE  KeyRun(acc, x \o y) = KeyRun(KeyRun(acc, x), y)
<1> DEFINE T == {z \in Seq(Bytes) : KeyRun(acc, x \o z) = KeyRun(KeyRun(acc, x), z)}
<1>0. KeyRun(acc, x) \in Decodings
  BY KeyRunIs
<1>1. <<>> \in T
  BY <1>0, KeyNil, EmptySeq, ConcatEmptySeq
<1>2. ASSUME NEW z \in Seq(Bytes), NEW b \in Bytes, z \in T PROVE Append(z, b) \in T
  <2>1. x \o Append(z, b) = Append(x \o z, b) /\ x \o z \in Seq(Bytes)
    BY ConcatAppend
  <2>2. KeyRun(acc, x \o Append(z, b)) = KeyByte(KeyRun(acc, x \o z), b)
    <3> DEFINE u == x \o z
    <3>1. u \in Seq(Bytes) /\ x \o Append(z, b) = Append(u, b)
      BY <2>1
    <3> HIDE DEF u
    <3>2. KeyRun(acc, Append(u, b)) = KeyByte(KeyRun(acc, u), b)
      BY <3>1, KeyMore
    <3> QED
      BY <3>1, <3>2 DEF u
  <2>3. KeyRun(KeyRun(acc, x), Append(z, b)) = KeyByte(KeyRun(KeyRun(acc, x), z), b)
    BY <1>0, KeyMore
  <2>4. Append(z, b) \in Seq(Bytes)
    BY AppendProperties
  <2> QED
    BY <1>2, <2>2, <2>3, <2>4
<1>3. Seq(Bytes) \subseteq T
  <2> HIDE DEF T
  <2> QED
    BY <1>1, <1>2, SeqInduction
<1> QED
  BY <1>3

\* The keys of earlier reads do not matter.
LEMMA KeyShift ==
  ASSUME NEW q \in Decoders, NEW ks \in Seq(KeyEvents), NEW x \in Seq(Bytes)
  PROVE  LET r == KeyRun(Decoded(q, <<>>), x)
         IN r \in Decodings /\ KeyRun(Decoded(q, ks), x) = Decoded(r.d, ks \o r.keys)
<1> DEFINE R(z) == KeyRun(Decoded(q, <<>>), z)
           T == {z \in Seq(Bytes) : KeyRun(Decoded(q, ks), z) = Decoded(R(z).d, ks \o R(z).keys)}
<1>0. Decoded(q, <<>>) \in Decodings /\ Decoded(q, ks) \in Decodings
  BY EmptySeq DEF Decoded, Decodings
<1>1. <<>> \in T
  <2>1. R(<<>>) = Decoded(q, <<>>) /\ KeyRun(Decoded(q, ks), <<>>) = Decoded(q, ks)
    BY <1>0, KeyNil
  <2>2. ks \o <<>> = ks
    BY ConcatEmptySeq
  <2> QED
    <3>1. R(<<>>).d = q /\ R(<<>>).keys = <<>>
      BY <2>1 DEF Decoded
    <3>2. <<>> \in Seq(Bytes)
      BY EmptySeq
    <3> HIDE DEF R
    <3> QED
      BY <2>1, <2>2, <3>1, <3>2
<1>2. ASSUME NEW z \in Seq(Bytes), NEW b \in Bytes, z \in T PROVE Append(z, b) \in T
  <2> DEFINE r == R(z)
  <2>1. r \in Decodings /\ R(Append(z, b)) = KeyByte(r, b)
    BY <1>0, KeyMore
  <2>2. KeyRun(Decoded(q, ks), Append(z, b)) = KeyByte(Decoded(r.d, ks \o r.keys), b)
    BY <1>0, <1>2, KeyMore
  <2>3. r.d \in Decoders /\ r.keys \in Seq(KeyEvents)
    BY <2>1 DEF Decodings
  <2>4. decodeByte(r.d, b).keys \in Seq(KeyEvents)
    BY <2>3, DecodeIs DEF Decodings
  <2>5. (ks \o r.keys) \o decodeByte(r.d, b).keys = ks \o (r.keys \o decodeByte(r.d, b).keys)
    <3> DEFINE v == decodeByte(r.d, b).keys
               u == r.keys
    <3>1. v \in Seq(KeyEvents) /\ u \in Seq(KeyEvents)
      BY <2>3, <2>4
    <3> HIDE DEF v, u
    <3>2. (ks \o u) \o v = ks \o (u \o v)
      BY <3>1, Assoc
    <3> QED
      BY <3>2 DEF u, v
  <2>6. Append(z, b) \in Seq(Bytes)
    BY AppendProperties
  <2> HIDE DEF r
  <2>7. KeyByte(Decoded(r.d, ks \o r.keys), b) = Decoded(KeyByte(r, b).d, ks \o KeyByte(r, b).keys)
    BY <2>5 DEF KeyByte, Decoded
  <2> QED
    BY <2>1, <2>2, <2>6, <2>7
<1>3. Seq(Bytes) \subseteq T
  <2> HIDE DEF T
  <2> QED
    BY <1>1, <1>2, SeqInduction
<1> QED
  BY <1>0, <1>3, KeyRunIs

\* All that changes: t, the console bytes, the replies, m.dec and the keys.
Moments == [t : Inputs, raw : Seq(Bytes), rep : Seq(Bytes), d : Decoders, keys : Seq(KeyEvents)]

Moment(i, raw, rep, k) == [t |-> i, raw |-> raw, rep |-> rep, d |-> k.d, keys |-> k.keys]

\* The bytes that became f, on top of y.
Onward(y, f) == Moment(f.t, y.raw \o f.raw, y.rep \o f.rep, KeyRun(Decoded(y.d, y.keys), f.raw))

AfterRead(y, c) == Onward(y, Process(y.t, mode, eol, c))
AfterByte(y, b) == Onward(y, ByteIn(mode, eol, y.t, b))

LEMMA OnwardIs ==
  ASSUME NEW y \in Moments, NEW f \in Feds
  PROVE  Onward(y, f) \in Moments
<1>1. /\ y.raw \in Seq(Bytes) /\ y.rep \in Seq(Bytes) /\ f.t \in Inputs /\ f.raw \in Seq(Bytes)
      /\ f.rep \in Seq(Bytes) /\ Decoded(y.d, y.keys) \in Decodings
  BY DEF Moments, Feds, Decoded, Decodings
<1>2. y.raw \o f.raw \in Seq(Bytes) /\ y.rep \o f.rep \in Seq(Bytes)
  BY <1>1, ConcatProperties
<1> DEFINE k == KeyRun(Decoded(y.d, y.keys), f.raw)
<1>3. k.d \in Decoders /\ k.keys \in Seq(KeyEvents)
  BY <1>1, KeyRunIs DEF Decodings
<1> HIDE DEF k
<1> QED
  BY <1>1, <1>2, <1>3 DEF Onward, Moment, Moments, k

\* Taking in one result after the other is taking in both at once.
LEMMA OnwardThen ==
  ASSUME NEW y \in Moments, NEW f \in Feds, NEW g \in Feds
  PROVE  Onward(y, Then(f, g)) = Onward(Onward(y, f), g)
<1> DEFINE a == Decoded(y.d, y.keys)
           z == Onward(y, f)
<1>1. /\ y.raw \in Seq(Bytes) /\ y.rep \in Seq(Bytes) /\ f.raw \in Seq(Bytes) /\ g.raw \in Seq(Bytes)
      /\ f.rep \in Seq(Bytes) /\ g.rep \in Seq(Bytes) /\ a \in Decodings
  BY DEF Moments, Feds, Decoded, Decodings
<1>2. Then(f, g).t = g.t /\ Then(f, g).raw = f.raw \o g.raw /\ Then(f, g).rep = f.rep \o g.rep
  BY DEF Then, Fed
<1>3. KeyRun(a, f.raw) \in Decodings /\ KeyRun(a, f.raw \o g.raw) = KeyRun(KeyRun(a, f.raw), g.raw)
  BY <1>1, KeyRunIs, KeyConcat
<1>4. Decoded(z.d, z.keys) = KeyRun(a, f.raw)
  <2> DEFINE k == KeyRun(a, f.raw)
  <2>1. k \in Decodings
    BY <1>3
  <2> HIDE DEF k, a
  <2>2. Decoded(k.d, k.keys) = k
    BY <2>1 DEF Decoded, Decodings
  <2>3. z.d = k.d /\ z.keys = k.keys
    BY DEF Onward, Moment, k, a
  <2> QED
    BY <2>2, <2>3 DEF k
<1>5. z.raw = y.raw \o f.raw /\ z.rep = y.rep \o f.rep
  BY DEF Onward, Moment
<1>6. (y.raw \o f.raw) \o g.raw = y.raw \o (f.raw \o g.raw) /\ (y.rep \o f.rep) \o g.rep = y.rep \o (f.rep \o g.rep)
  <2> DEFINE p == y.raw
             q == f.raw
             r == g.raw
             u == y.rep
             v == f.rep
             w == g.rep
  <2>1. p \in Seq(Bytes) /\ q \in Seq(Bytes) /\ r \in Seq(Bytes) /\ u \in Seq(Bytes) /\ v \in Seq(Bytes) /\ w \in Seq(Bytes)
    BY <1>1
  <2> HIDE DEF a, z, p, q, r, u, v, w
  <2>2. (p \o q) \o r = p \o (q \o r)
    BY <2>1, AssocBytes, ZenonT(30)
  <2>3. (u \o v) \o w = u \o (v \o w)
    BY <2>1, AssocBytes, ZenonT(30)
  <2> QED
    BY <2>2, <2>3 DEF p, q, r, u, v, w
<1> HIDE DEF a, z
<1>7. Onward(y, Then(f, g)) = Moment(g.t, y.raw \o (f.raw \o g.raw), y.rep \o (f.rep \o g.rep),
                                     KeyRun(KeyRun(a, f.raw), g.raw))
  BY <1>2, <1>3 DEF Onward, a
<1>8. Onward(z, g) = Moment(g.t, (y.raw \o f.raw) \o g.raw, (y.rep \o f.rep) \o g.rep,
                            KeyRun(KeyRun(a, f.raw), g.raw))
  BY <1>4, <1>5 DEF Onward
<1> QED
  BY <1>6, <1>7, <1>8 DEF z

LEMMA ByteInIs ==
  ASSUME NEW m, NEW e \in EolNames, NEW i \in Inputs, NEW b \in Bytes
  PROVE  ByteIn(m, e, i, b) \in Feds
<1> DEFINE f == Unwrapped(m, i, b)
           g == Normalized(e, f.t, f.raw[1])
<1>1. f \in Feds /\ f.t \in Inputs /\ f.raw \in {<<>>, <<b>>} /\ f.rep \in Seq(Bytes)
  BY UnwrappedIs, UnwrappedFrame DEF Feds
<1>2. CASE f.raw = <<>>
  BY <1>1, <1>2 DEF ByteIn
<1>3. CASE f.raw = <<b>>
  <2>1. f.raw[1] = b /\ f.raw # <<>>
    BY <1>3
  <2>2. g \in Feds
    BY <1>1, <2>1, NormalizedIs
  <2>3. g.t \in Inputs /\ g.raw \in Seq(Bytes)
    BY <2>2 DEF Feds
  <2>4. ByteIn(m, e, i, b) = Fed(g.t, g.raw, f.rep)
    BY <2>1 DEF ByteIn
  <2> HIDE DEF f, g
  <2> QED
    BY <1>1, <2>3, <2>4, FedIs
<1> QED
  BY <1>1, <1>2, <1>3

\* A read of one byte more.
LEMMA AfterMore ==
  ASSUME NEW y \in Moments, NEW c \in Seq(Bytes), NEW b \in Bytes, eol \in EolNames
  PROVE  /\ AfterRead(y, <<>>) = y /\ AfterRead(y, c) \in Moments
         /\ AfterRead(y, Append(c, b)) = AfterByte(AfterRead(y, c), b)
<1> DEFINE f == Process(y.t, mode, eol, c)
           g == ByteIn(mode, eol, f.t, b)
           a == Decoded(y.d, y.keys)
<1>0. y.t \in Inputs /\ y.raw \in Seq(Bytes) /\ y.rep \in Seq(Bytes) /\ a \in Decodings
  BY DEF Moments, Decoded, Decodings
<1>1. f \in Feds /\ Process(y.t, mode, eol, Append(c, b)) = Then(f, g)
  BY <1>0, ProcessMore
<1>2. f.t \in Inputs
  BY <1>1 DEF Feds
<1>3. g \in Feds
  BY <1>2, ByteInIs
<1>4. AfterRead(y, <<>>) = y
  <2>1. Process(y.t, mode, eol, <<>>) = Fed(y.t, <<>>, <<>>) /\ KeyRun(a, <<>>) = a
    BY <1>0, ProcessNil, KeyNil
  <2>2. y.raw \o <<>> = y.raw /\ y.rep \o <<>> = y.rep
    BY <1>0, ConcatEmptySeq
  <2>3. AfterRead(y, <<>>) = Moment(y.t, y.raw \o <<>>, y.rep \o <<>>, KeyRun(a, <<>>))
    <3> DEFINE n == Process(y.t, mode, eol, <<>>)
    <3>1. n.t = y.t /\ n.raw = <<>> /\ n.rep = <<>>
      BY <2>1 DEF Fed
    <3>2. AfterRead(y, <<>>) = Moment(n.t, y.raw \o n.raw, y.rep \o n.rep, KeyRun(a, n.raw))
      BY DEF AfterRead, Onward
    <3> HIDE DEF n, a
    <3> QED
      BY <3>1, <3>2
  <2>4. Moment(y.t, y.raw, y.rep, a) = y
    BY DEF Moment, Moments, Decoded
  <2> QED
    BY <2>1, <2>2, <2>3, <2>4
<1>5. Onward(y, f).t = f.t
  BY DEF Onward, Moment
<1> HIDE DEF f
<1>6. Onward(y, Then(f, g)) = Onward(Onward(y, f), g)
  BY <1>1, <1>3, OnwardThen
<1>7. Onward(y, f) \in Moments
  BY <1>1, OnwardIs
<1> QED
  BY <1>1, <1>4, <1>5, <1>6, <1>7 DEF AfterRead, AfterByte, f

--------------------------------------------------------------------------------
(* The tokens.                                                             *)

Negotiations ==
  {"doEcho", "dontEcho", "willEcho", "wontEcho",
   "doSga", "dontSga", "willSga", "wontSga",
   "doNaws", "dontNaws", "willNaws", "wontNaws",
   "doOther", "dontOther", "willOther", "wontOther"}
Reports      == {"naws80", "naws255", "nawsNoRows"}
KeyTokens    == {"up", "pgup", "pgdn"}
Commands     == Negotiations \cup Reports \cup {"goAhead"}
TokenNames   == Commands \cup KeyTokens \cup {"enter", "ctrlJ", "x", "ff", "esc"}

\* What each token is made of.
LEMMA Domains ==
  DOMAIN Windows = Reports /\ DOMAIN Telnet = Commands /\ DOMAIN EscapeSequences = KeyTokens
BY DEF Windows, Telnet, EscapeSequences, Reports, Commands, Negotiations, KeyTokens

LEMMA RequestsAre ==
  /\ Telnet["doEcho"] = <<IAC, DO, ECHO>> /\ Telnet["dontEcho"] = <<IAC, DONT, ECHO>>
  /\ Telnet["willEcho"] = <<IAC, WILL, ECHO>> /\ Telnet["wontEcho"] = <<IAC, WONT, ECHO>>
  /\ Telnet["doSga"] = <<IAC, DO, SGA>> /\ Telnet["dontSga"] = <<IAC, DONT, SGA>>
  /\ Telnet["willSga"] = <<IAC, WILL, SGA>> /\ Telnet["wontSga"] = <<IAC, WONT, SGA>>
  /\ Telnet["doNaws"] = <<IAC, DO, NAWS>> /\ Telnet["dontNaws"] = <<IAC, DONT, NAWS>>
  /\ Telnet["willNaws"] = <<IAC, WILL, NAWS>> /\ Telnet["wontNaws"] = <<IAC, WONT, NAWS>>
  /\ Telnet["doOther"] = <<IAC, DO, Other>> /\ Telnet["dontOther"] = <<IAC, DONT, Other>>
  /\ Telnet["willOther"] = <<IAC, WILL, Other>> /\ Telnet["wontOther"] = <<IAC, WONT, Other>>
BY DEF Telnet

LEMMA TelnetIs ==
  /\ Telnet["goAhead"] = <<IAC, 249>>
  /\ Telnet["naws80"] = <<IAC, SB, NAWS, 0, 80, 0, 24, IAC, SE>>
  /\ Telnet["naws255"] = <<IAC, SB, NAWS, 0, IAC, IAC, 0, 24, IAC, SE>>
  /\ Telnet["nawsNoRows"] = <<IAC, SB, NAWS, 0, 80, 0, 0, IAC, SE>>
BY DEF Telnet

Verbs == {WILL, WONT, DO, DONT}

\* A request or an offer: a verb and an option.
LEMMA NegotiationIs ==
  ASSUME NEW tok \in Negotiations PROVE \E v \in Verbs, b \in {ECHO, SGA, NAWS, Other} : Telnet[tok] = <<IAC, v, b>>
<1> USE DEF Verbs
<1>1. CASE tok \in {"doEcho", "dontEcho", "willEcho", "wontEcho"}
  BY <1>1, RequestsAre
<1>2. CASE tok \in {"doSga", "dontSga", "willSga", "wontSga"}
  BY <1>2, RequestsAre
<1>3. CASE tok \in {"doNaws", "dontNaws", "willNaws", "wontNaws"}
  BY <1>3, RequestsAre
<1>4. CASE tok \in {"doOther", "dontOther", "willOther", "wontOther"}
  BY <1>4, RequestsAre
<1> QED
  BY <1>1, <1>2, <1>3, <1>4 DEF Negotiations

EnterNames == {"cr", "crlf", "crnul", "lf"}

Set == mode \in ModeNames /\ eol \in EolNames /\ enter \in EnterNames

LEMMA TokensAre ==
  /\ Tokens \subseteq TokenNames /\ (mode = "raw" => Tokens \cap Commands = {}) /\ (enter = "cr" => "ctrlJ" \notin Tokens)
BY Domains DEF Tokens, TokenNames, Commands, Negotiations, Reports, KeyTokens

LEMMA WireIs ==
  /\ \A tok \in Commands : Wire(tok) = Telnet[tok] /\ Meant(tok) = <<>> /\ KeyOf(tok) = <<>>
  /\ \A tok \in KeyTokens : Wire(tok) = EscapeSequences[tok] /\ Meant(tok) = EscapeSequences[tok]
                            /\ KeyOf(tok) = <<Named(tok)>>
  /\ Wire("enter") = EnterBytes[enter] /\ Wire("ctrlJ") = <<LF>>
  /\ \A tok \in {"enter", "ctrlJ"} : Meant(tok) = (IF eol = "raw" THEN Wire(tok) ELSE emitEOL(eol))
                                     /\ KeyOf(tok) = <<Named("enter")>>
  /\ Wire("x") = <<120>> /\ Meant("x") = <<120>> /\ KeyOf("x") = <<Char(120)>>
  /\ Wire("ff") = (IF mode = "raw" THEN <<IAC>> ELSE <<IAC, IAC>>) /\ Meant("ff") = <<IAC>>
  /\ KeyOf("ff") = <<Char(IAC)>>
  /\ Wire("esc") = <<ESC>> /\ Meant("esc") = <<ESC>> /\ KeyOf("esc") = <<Named("esc")>>
<1>1. \A tok \in Commands : tok \notin KeyTokens
  BY DEF Commands, Negotiations, Reports, KeyTokens
<1>2. \A tok \in {"enter", "ctrlJ", "x", "ff", "esc"} : tok \notin KeyTokens /\ tok \notin Commands
  BY DEF Commands, Negotiations, Reports, KeyTokens
<1>3. \A tok \in KeyTokens : tok \notin Commands /\ tok \notin {"enter", "ctrlJ", "x", "ff", "esc"}
  BY <1>1, <1>2
<1>4. \A tok \in Commands : tok \notin {"enter", "ctrlJ", "x", "ff", "esc"}
  BY <1>2
<1>5. \A tok \in Commands : Wire(tok) = Telnet[tok] /\ Meant(tok) = <<>> /\ KeyOf(tok) = <<>>
  BY <1>1, <1>4, Domains DEF Wire, Meant, KeyOf
<1>6. \A tok \in KeyTokens : Wire(tok) = EscapeSequences[tok] /\ Meant(tok) = EscapeSequences[tok]
                             /\ KeyOf(tok) = <<Named(tok)>>
  BY <1>3, Domains DEF Wire, Meant, KeyOf
<1>7. /\ Wire("enter") = EnterBytes[enter] /\ Wire("ctrlJ") = <<LF>> /\ Wire("x") = <<120>>
      /\ Wire("ff") = (IF mode = "raw" THEN <<IAC>> ELSE <<IAC, IAC>>) /\ Wire("esc") = <<ESC>>
  BY <1>2, Domains DEF Wire
<1>8. /\ \A tok \in {"enter", "ctrlJ"} : Meant(tok) = IF eol = "raw" THEN Wire(tok) ELSE emitEOL(eol)
      /\ Meant("x") = <<120>> /\ Meant("ff") = <<IAC>> /\ Meant("esc") = <<ESC>>
  BY <1>2, Domains DEF Meant
<1>9. /\ \A tok \in {"enter", "ctrlJ"} : KeyOf(tok) = <<Named("enter")>>
      /\ KeyOf("x") = <<Char(120)>> /\ KeyOf("ff") = <<Char(IAC)>> /\ KeyOf("esc") = <<Named("esc")>>
  BY <1>2, Domains DEF KeyOf
<1> QED
  BY <1>5, <1>6, <1>7, <1>8, <1>9

LEMMA KeySequences ==
  /\ EscapeSequences["up"] = <<ESC, Bracket, 65>> /\ EscapeSequences["pgup"] = <<ESC, Bracket, 53, Tilde>>
  /\ EscapeSequences["pgdn"] = <<ESC, Bracket, 54, Tilde>>
BY DEF EscapeSequences

LEMMA EnterIs ==
  /\ EnterBytes["cr"] = <<CR>> /\ EnterBytes["crlf"] = <<CR, LF>> /\ EnterBytes["crnul"] = <<CR, NUL>>
  /\ EnterBytes["lf"] = <<LF>>
BY DEF EnterBytes

WireOf  == [tok \in Tokens |-> Wire(tok)]
MeantOf == [tok \in Tokens |-> Meant(tok)]
KeysOf  == [tok \in Tokens |-> KeyOf(tok)]

LEMMA SomeBytes ==
  /\ IAC \in Bytes /\ DO \in Bytes /\ DONT \in Bytes /\ WILL \in Bytes /\ WONT \in Bytes /\ SB \in Bytes
  /\ SE \in Bytes /\ ECHO \in Bytes /\ SGA \in Bytes /\ NAWS \in Bytes /\ CR \in Bytes /\ LF \in Bytes
  /\ NUL \in Bytes /\ ESC \in Bytes /\ Bracket \in Bytes /\ Tilde \in Bytes /\ 0 \in Bytes /\ Other \in Bytes
  /\ 24 \in Bytes /\ 53 \in Bytes /\ 54 \in Bytes /\ 65 \in Bytes /\ 80 \in Bytes /\ 120 \in Bytes /\ 249 \in Bytes
BY ByteIs DEF IAC, DO, DONT, WILL, WONT, SB, SE, ECHO, SGA, NAWS, Other, CR, LF, NUL, ESC, Bracket, Tilde

Text(x) == x \in Seq(Bytes) /\ x # <<>>

LEMMA Texts ==
  /\ \A b \in Bytes : Text(<<b>>)
  /\ \A b, c \in Bytes : Text(<<b, c>>)
  /\ \A b, c, e \in Bytes : Text(<<b, c, e>>)
  /\ \A b, c, e, f \in Bytes : Text(<<b, c, e, f>>)
BY DEF Text

LEMMA WireText == ASSUME Set, NEW tok \in Tokens PROVE Text(Wire(tok))
<1>1. CASE tok \in Negotiations \cup {"goAhead"}
  <2>1. ASSUME tok \in Negotiations PROVE Text(Telnet[tok])
    <3>1. PICK v \in Verbs, b \in {ECHO, SGA, NAWS, Other} : Telnet[tok] = <<IAC, v, b>>
      BY <2>1, NegotiationIs
    <3>2. v \in Bytes /\ b \in Bytes
      BY SomeBytes DEF Verbs
    <3> QED
      BY <3>1, <3>2, SomeBytes, Texts
  <2>3. Text(<<IAC, 249>>)
    BY SomeBytes, Texts
  <2>2. Text(Telnet[tok])
    BY <1>1, <2>1, <2>3, TelnetIs
  <2> QED
    BY <1>1, <2>2, WireIs DEF Commands
<1>2. CASE tok \in Reports
  <2>1. Text(<<IAC, SB, NAWS, 0, 80, 0, 24, IAC, SE>>)
    BY SomeBytes DEF Text
  <2>2. Text(<<IAC, SB, NAWS, 0, IAC, IAC, 0, 24, IAC, SE>>)
    BY SomeBytes DEF Text
  <2>3. Text(<<IAC, SB, NAWS, 0, 80, 0, 0, IAC, SE>>)
    BY SomeBytes DEF Text
  <2>4. Text(Telnet[tok])
    BY <1>2, <2>1, <2>2, <2>3, TelnetIs DEF Reports
  <2> QED
    BY <1>2, <2>4, WireIs DEF Commands
<1>3. CASE tok \in KeyTokens
  <2>1. Text(<<ESC, Bracket, 65>>) /\ Text(<<ESC, Bracket, 53, Tilde>>) /\ Text(<<ESC, Bracket, 54, Tilde>>)
    BY SomeBytes, Texts
  <2> QED
    BY <1>3, <2>1, KeySequences, WireIs DEF KeyTokens
<1>4. CASE tok = "enter"
  <2>1. Text(<<CR>>) /\ Text(<<CR, LF>>) /\ Text(<<CR, NUL>>) /\ Text(<<LF>>)
    BY SomeBytes, Texts
  <2> QED
    BY <1>4, <2>1, EnterIs, WireIs DEF Set, EnterNames
<1>5. CASE tok \in {"ctrlJ", "x", "ff", "esc"}
  <2>1. Text(<<LF>>) /\ Text(<<120>>) /\ Text(<<IAC>>) /\ Text(<<IAC, IAC>>) /\ Text(<<ESC>>)
    BY SomeBytes, Texts
  <2> QED
    BY <1>5, <2>1, WireIs
<1> QED
  BY <1>1, <1>2, <1>3, <1>4, <1>5, TokensAre DEF TokenNames, Commands

LEMMA MapsAre ==
  ASSUME Set
  PROVE  /\ IsMap(WireOf, Tokens, Seq(Bytes)) /\ IsMap(MeantOf, Tokens, Seq(Bytes)) /\ IsMap(KeysOf, Tokens, Seq(KeyEvents))
         /\ \A tok \in Tokens : WireOf[tok] # <<>>
<1>1. ASSUME NEW tok \in Tokens PROVE Meant(tok) \in Seq(Bytes)
  <2>1. Wire(tok) \in Seq(Bytes)
    BY WireText DEF Text
  <2>2. emitEOL(eol) \in Seq(Bytes) \/ eol = "raw"
    BY EolIs DEF Set, EolNames
  <2>3. <<120>> \in Seq(Bytes) /\ <<IAC>> \in Seq(Bytes) /\ <<ESC>> \in Seq(Bytes) /\ <<>> \in Seq(Bytes)
    BY SomeBytes
  <2>4. CASE tok \in Commands
    BY <2>3, <2>4, WireIs
  <2>5. CASE tok \in KeyTokens
    BY <2>1, <2>5, WireIs
  <2>6. CASE tok \in {"enter", "ctrlJ"}
    BY <2>1, <2>2, <2>6, WireIs
  <2>7. CASE tok \in {"x", "ff", "esc"}
    BY <2>3, <2>7, WireIs
  <2> QED
    BY <2>4, <2>5, <2>6, <2>7, TokensAre DEF TokenNames
<1>6. ASSUME NEW tok \in Tokens PROVE Wire(tok) \in Seq(Bytes) /\ Wire(tok) # <<>> /\ Meant(tok) \in Seq(Bytes)
  BY <1>1, WireText DEF Text
<1>7. ASSUME NEW tok \in Tokens PROVE KeyOf(tok) \in Seq(KeyEvents)
  <2>1. \A k \in {"enter", "esc", "up", "pgup", "pgdn"} : <<Named(k)>> \in Seq(KeyEvents)
    BY NamedIs DEF KeyKinds
  <2>2. \A b \in {120, IAC} : <<Char(b)>> \in Seq(KeyEvents)
    <3>1. \A b \in {120, IAC} : Char(b) \in KeyEvents
      BY SomeBytes DEF Char, KeyEvents, KeyKinds
    <3> QED
      BY <3>1
  <2>3. <<>> \in Seq(KeyEvents)
    BY EmptySeq
  <2> QED
    <3>1. CASE tok \in Commands
      BY <2>3, <3>1, WireIs
    <3>2. CASE tok \in KeyTokens
      BY <2>1, <3>2, WireIs DEF KeyTokens
    <3>3. CASE tok \in {"enter", "ctrlJ"}
      BY <2>1, <3>3, WireIs
    <3>4. CASE tok \in {"x", "ff", "esc"}
      BY <2>1, <2>2, <3>4, WireIs
    <3> QED
      BY <3>1, <3>2, <3>3, <3>4, TokensAre DEF TokenNames
<1>8. IsMap(WireOf, Tokens, Seq(Bytes)) /\ \A tok \in Tokens : WireOf[tok] # <<>>
  BY <1>6 DEF WireOf, IsMap
<1>9. IsMap(MeantOf, Tokens, Seq(Bytes))
  BY <1>6 DEF MeantOf, IsMap
<1>10. IsMap(KeysOf, Tokens, Seq(KeyEvents))
  BY <1>7 DEF KeysOf, IsMap
<1> QED
  BY <1>8, <1>9, <1>10

LEMMA AllIs ==
  ASSUME tokens \in Seq(Tokens)
  PROVE  Stream = Flat(WireOf, tokens) /\ All(Meant) = Flat(MeantOf, tokens) /\ All(KeyOf) = Flat(KeysOf, tokens)
<1>1. \A i \in DOMAIN tokens : tokens[i] \in Tokens
  BY LenProperties, ElementOfSeq
<1>2. [i \in DOMAIN tokens |-> Wire(tokens[i])] = Mapped(WireOf, tokens)
  BY <1>1 DEF Mapped, WireOf
<1>3. [i \in DOMAIN tokens |-> Meant(tokens[i])] = Mapped(MeantOf, tokens)
  BY <1>1 DEF Mapped, MeantOf
<1>4. [i \in DOMAIN tokens |-> KeyOf(tokens[i])] = Mapped(KeysOf, tokens)
  BY <1>1 DEF Mapped, KeysOf
<1> QED
  BY <1>2, <1>3, <1>4 DEF Stream, All, Flat

--------------------------------------------------------------------------------
(* Where in the stream a byte is.                                          *)

Beginning(k) == SubSeq(tokens, 1, k)

\* The nth byte was the oth of token k + 1; o is 0 between tokens.
At(n, k, o) ==
  /\ k \in 0..Len(tokens) /\ o \in Nat /\ n = Len(Flat(WireOf, Beginning(k))) + o
  /\ o # 0 => k < Len(tokens) /\ o < Len(WireOf[tokens[k + 1]])

LEMMA BeginningIs ==
  ASSUME tokens \in Seq(Tokens), NEW k \in 0..Len(tokens)
  PROVE  /\ Beginning(k) \in Seq(Tokens) /\ Len(Beginning(k)) = k /\ Beginning(0) = <<>>
         /\ Beginning(Len(tokens)) = tokens
         /\ k < Len(tokens) => tokens[k + 1] \in Tokens /\ Beginning(k + 1) = Append(Beginning(k), tokens[k + 1])
<1>1. Len(tokens) \in Nat /\ \A i \in 1..Len(tokens) : tokens[i] \in Tokens
  BY LenProperties, ElementOfSeq
<1>2. Beginning(k) \in Seq(Tokens) /\ Len(Beginning(k)) = k
  BY <1>1, SubSeqProperties DEF Beginning
<1>3. Beginning(0) = <<>> /\ Beginning(Len(tokens)) = tokens
  BY SubSeqEmpty, SubSeqFull DEF Beginning
<1>4. ASSUME k < Len(tokens) PROVE tokens[k + 1] \in Tokens /\ Beginning(k + 1) = Append(Beginning(k), tokens[k + 1])
  <2>1. k + 1 \in 1..Len(tokens) /\ 1 \in 1..Len(tokens) /\ k + 1 \in 1..Len(tokens) /\ (k + 1) - 1 = k
    BY <1>1, <1>4
  <2>2. tokens[k + 1] \in Tokens
    BY <1>1, <2>1
  <2>3. SubSeq(tokens, 1, k + 1) = SubSeq(tokens, 1, k) \o <<tokens[k + 1]>>
    BY <2>1, SubSeqRecursiveSecond
  <2> QED
    BY <1>2, <2>2, <2>3, AppendIsConcat DEF Beginning
<1> QED
  BY <1>2, <1>3, <1>4

LEMMA TokenIs ==
  ASSUME Set, tokens \in Seq(Tokens), NEW k \in 0..Len(tokens), k < Len(tokens)
  PROVE  LET n == Len(Flat(WireOf, Beginning(k)))
             u == WireOf[tokens[k + 1]]
         IN /\ n \in Nat /\ u \in Seq(Bytes) /\ Len(u) \in Nat \ {0} /\ n + Len(u) <= Len(Stream)
            /\ Len(Flat(WireOf, Beginning(k + 1))) = n + Len(u)
            /\ \A i \in 1..Len(u) : Stream[n + i] = u[i] /\ u[i] \in Bytes
<1> DEFINE f == Flat(WireOf, Beginning(k))
           g == Flat(WireOf, Beginning(k + 1))
           n == Len(f)
           u == WireOf[tokens[k + 1]]
<1>1. /\ Beginning(k) \in Seq(Tokens) /\ tokens[k + 1] \in Tokens
      /\ Beginning(k + 1) = Append(Beginning(k), tokens[k + 1])
  BY BeginningIs
<1>2. IsMap(WireOf, Tokens, Seq(Bytes)) /\ u # <<>>
  BY <1>1, MapsAre
<1>3. f \in Seq(Bytes) /\ u \in Seq(Bytes) /\ g = f \o u /\ g \in Seq(Bytes)
  <2> DEFINE s == Beginning(k)
             x == tokens[k + 1]
             W == WireOf
             A == Tokens
  <2>1. s \in Seq(A) /\ x \in A /\ IsMap(W, A, Seq(Bytes)) /\ Beginning(k + 1) = Append(s, x)
    BY <1>1, <1>2
  <2> HIDE DEF s, x, W, A
  <2>2. Flat(W, s) \in Seq(Bytes) /\ W[x] \in Seq(Bytes) /\ Flat(W, Append(s, x)) = Flat(W, s) \o W[x]
        /\ Flat(W, Append(s, x)) \in Seq(Bytes)
    BY <2>1, FlatAppend
  <2> QED
    BY <2>1, <2>2 DEF s, x, W
<1>4. \E r \in Seq(Bytes) : Flat(WireOf, tokens) = Flat(WireOf, SubSeq(tokens, 1, k + 1)) \o r
  <2> DEFINE s == tokens
             j == k + 1
             W == WireOf
             A == Tokens
  <2>1. j \in 0..Len(s)
    BY LenProperties
  <2>2. s \in Seq(A) /\ IsMap(W, A, Seq(Bytes))
    BY <1>2
  <2> HIDE DEF s, j, W, A
  <2>3. \E r \in Seq(Bytes) : Flat(W, s) = Flat(W, SubSeq(s, 1, j)) \o r
    BY <2>1, <2>2, FlatPrefix
  <2> QED
    BY <2>3 DEF s, j, W
<1>5. PICK r \in Seq(Bytes) : Stream = g \o r
  BY <1>4, AllIs DEF Beginning
<1> HIDE DEF f, g, u
<1>6. n \in Nat /\ Len(u) \in Nat \ {0} /\ Len(r) \in Nat /\ Len(g) = n + Len(u) /\ Len(Stream) = Len(g) + Len(r)
  <2>1. n \in Nat /\ Len(u) \in Nat \ {0} /\ Len(r) \in Nat
    BY <1>2, <1>3, LenProperties, EmptySeq
  <2>2. Len(g) = n + Len(u)
    BY <1>3, ConcatProperties
  <2>3. Len(Stream) = Len(g) + Len(r)
    BY <1>3, <1>5, ConcatProperties
  <2> QED
    BY <2>1, <2>2, <2>3
<1>7. ASSUME NEW i \in 1..Len(u) PROVE Stream[n + i] = u[i] /\ u[i] \in Bytes
  <2>1. n + i \in 1..(n + Len(u)) /\ ~(n + i <= n) /\ (n + i) - n = i /\ n + i \in 1..(Len(g) + Len(r)) /\ n + i <= Len(g)
    BY <1>6
  <2>2. g[n + i] = u[i]
    BY <1>3, <2>1, ConcatProperties
  <2>3. Stream[n + i] = g[n + i]
    BY <1>3, <1>5, <2>1, ConcatProperties
  <2>4. u[i] \in Bytes
    BY <1>3, ElementOfSeq
  <2> QED
    BY <2>2, <2>3, <2>4
<1> QED
  BY <1>3, <1>6, <1>7 DEF f, g, u

\* The next byte, and where it leads.
LEMMA NextByteIs ==
  ASSUME Set, tokens \in Seq(Tokens), NEW n, NEW k, NEW o, At(n, k, o), n < Len(Stream)
  PROVE  LET tok == tokens[k + 1]
             u   == WireOf[tok]
         IN /\ k \in 0..Len(tokens) /\ k < Len(tokens) /\ tok \in Tokens /\ o \in 0..(Len(u) - 1)
            /\ Stream[n + 1] = u[o + 1] /\ u[o + 1] \in Bytes /\ Len(u) \in Nat
            /\ o + 1 < Len(u) => At(n + 1, k, o + 1)
            /\ o + 1 = Len(u) => At(n + 1, k + 1, 0)
<1> DEFINE tok == tokens[k + 1]
           u   == WireOf[tok]
           f   == Flat(WireOf, Beginning(k))
<1>1. k \in 0..Len(tokens) /\ o \in Nat /\ n = Len(f) + o /\ Len(tokens) \in Nat
      /\ (o # 0 => k < Len(tokens) /\ o < Len(u))
  BY LenProperties DEF At
<1>2. k < Len(tokens)
  <2> SUFFICES ASSUME k = Len(tokens) PROVE FALSE
    BY <1>1
  <2>1. Beginning(k) = tokens
    BY <1>1, BeginningIs
  <2>2. Stream = f /\ o = 0
    BY <1>1, <2>1, AllIs
  <2>3. IsMap(WireOf, Tokens, Seq(Bytes))
    BY MapsAre
  <2>4. f \in Seq(Bytes)
    BY <2>1, <2>3, FlatIs
  <2>5. Len(f) \in Nat
    BY <2>4, LenProperties
  <2> QED
    BY <1>1, <2>2, <2>5
<1>3. tok \in Tokens /\ Beginning(k + 1) = Append(Beginning(k), tok)
  BY <1>1, <1>2, BeginningIs
<1>4. /\ Len(f) \in Nat /\ u \in Seq(Bytes) /\ Len(u) \in Nat \ {0}
      /\ Len(Flat(WireOf, Beginning(k + 1))) = Len(f) + Len(u)
      /\ \A i \in 1..Len(u) : Stream[Len(f) + i] = u[i] /\ u[i] \in Bytes
  BY <1>1, <1>2, TokenIs
<1> HIDE DEF f, u, tok
<1>5. o \in 0..(Len(u) - 1) /\ o + 1 \in 1..Len(u) /\ n + 1 = Len(f) + (o + 1)
  BY <1>1, <1>4
<1>6. Stream[n + 1] = u[o + 1] /\ u[o + 1] \in Bytes
  BY <1>4, <1>5
<1>7. o + 1 < Len(u) => At(n + 1, k, o + 1)
  BY <1>1, <1>2, <1>5 DEF At, f, u, tok
<1>8. ASSUME o + 1 = Len(u) PROVE At(n + 1, k + 1, 0)
  <2>1. k + 1 \in 0..Len(tokens) /\ n + 1 = Len(Flat(WireOf, Beginning(k + 1))) + 0
    BY <1>1, <1>2, <1>4, <1>5, <1>8
  <2> QED
    BY <2>1 DEF At
<1> QED
  BY <1>1, <1>2, <1>3, <1>4, <1>5, <1>6, <1>7, <1>8 DEF u, tok

\* When all bytes are read, all tokens are, and no part of one is left.
LEMMA AtTheEnd ==
  ASSUME Set, tokens \in Seq(Tokens), NEW k, NEW o, At(Len(Stream), k, o)
  PROVE  k = Len(tokens) /\ o = 0 /\ Beginning(k) = tokens
<1>1. k \in 0..Len(tokens) /\ o \in Nat /\ Len(Stream) = Len(Flat(WireOf, Beginning(k))) + o /\ Len(tokens) \in Nat
      /\ (o # 0 => k < Len(tokens) /\ o < Len(WireOf[tokens[k + 1]]))
  BY LenProperties DEF At
<1>2. ~(k < Len(tokens))
  <2> SUFFICES ASSUME k < Len(tokens) PROVE FALSE
    OBVIOUS
  <2> DEFINE n == Len(Flat(WireOf, Beginning(k)))
             l == Len(WireOf[tokens[k + 1]])
  <2>1. n \in Nat /\ l \in Nat \ {0} /\ n + l <= Len(Stream)
    BY <1>1, TokenIs
  <2>2. Len(Stream) = n + o /\ (o # 0 => o < l)
    BY <1>1
  <2> HIDE DEF n, l
  <2> QED
    BY <1>1, <2>1, <2>2
<1>3. k = Len(tokens) /\ o = 0
  BY <1>1, <1>2
<1> QED
  BY <1>1, <1>3, BeginningIs

--------------------------------------------------------------------------------
(* What one byte does to TerminalInput.                                    *)

Keeps(i, j) == j.will = i.will /\ j.do = i.do /\ j.announced = i.announced /\ j.size = i.size

\* A byte without a reply.
Quiet(i, f) == f.rep = <<>> /\ Keeps(i, f.t)

\* A byte of a Telnet command.
Swallowed(i, f) == f.raw = <<>> /\ f.t.lastCR = i.lastCR

\* A data byte that is no part of an Enter.
LEMMA PassesByte ==
  ASSUME NEW m, NEW e \in EolNames, NEW i \in Inputs, NEW b \in Bytes, b \notin {CR, LF, NUL},
         (i.state = "data" /\ (b # IAC \/ m = "raw")) \/ (i.state = "iac" /\ b = IAC /\ m # "raw")
  PROVE  LET f == ByteIn(m, e, i, b)
         IN f.raw = <<b>> /\ Quiet(i, f) /\ f.t.state = "data" /\ (f.t.lastCR => i.lastCR)
<1> DEFINE u == Unwrapped(m, i, b)
           g == Normalized(e, u.t, b)
           f == ByteIn(m, e, i, b)
<1>1. /\ u \in Feds /\ u.t \in Inputs /\ u.raw = <<b>> /\ u.rep = <<>>
      /\ Keeps(i, u.t) /\ u.t.state = "data" /\ u.t.lastCR = i.lastCR
  <2>1. u \in Feds
    BY UnwrappedIs
  <2>2. CASE i.state = "data"
    <3>1. u = Fed(i, <<b>>, <<>>)
      BY <2>2 DEF Unwrapped, feedTelnet
    <3> QED
      BY <2>1, <2>2, <3>1 DEF Fed, Feds, Keeps
  <2>3. CASE i.state = "iac"
    <3>0. b = IAC /\ m # "raw"
      BY <2>3
    <3>1. u = Fed([i EXCEPT !.state = "data"], <<b>>, <<>>)
      <4>1. u = feedTelnet(i, m, b)
        BY <3>0 DEF Unwrapped
      <4>2. feedTelnet(i, m, b) = Fed([i EXCEPT !.state = "data"], <<IAC>>, <<>>)
        <5>1. IAC \notin {WILL, WONT, DO, DONT, SB}
          BY DEF IAC, SB, WILL, WONT, DO, DONT
        <5> QED
          BY <2>3, <3>0, <5>1 DEF feedTelnet
      <4> QED
        BY <3>0, <4>1, <4>2
    <3>2. u.t = [i EXCEPT !.state = "data"] /\ u.raw = <<b>> /\ u.rep = <<>>
      BY <3>1 DEF Fed
    <3>3. Keeps(i, [i EXCEPT !.state = "data"]) /\ [i EXCEPT !.state = "data"].state = "data"
          /\ [i EXCEPT !.state = "data"].lastCR = i.lastCR
      BY DEF Keeps, Inputs
    <3> QED
      BY <2>1, <3>2, <3>3 DEF Feds
  <2> QED
    BY <2>2, <2>3
<1>2. u.raw # <<>> /\ u.raw[1] = b
  BY <1>1
<1>3. f = Fed(g.t, g.raw, u.rep)
  BY <1>2 DEF ByteIn
<1> HIDE DEF u
<1>4. g.raw = <<b>> /\ Keeps(u.t, g.t) /\ g.t.state = "data" /\ (g.t.lastCR => u.t.lastCR)
  <2>1. CASE e = "raw"
    BY <1>1, <2>1 DEF Normalized, Fed, Keeps
  <2>2. CASE e # "raw"
    <3>1. g = Fed([u.t EXCEPT !.lastCR = FALSE], <<b>>, <<>>)
      BY <2>2 DEF Normalized, normalizeByte, CRAfter
    <3>2. g.t = [u.t EXCEPT !.lastCR = FALSE] /\ g.raw = <<b>>
      BY <3>1 DEF Fed
    <3>3. Keeps(u.t, [u.t EXCEPT !.lastCR = FALSE]) /\ [u.t EXCEPT !.lastCR = FALSE].state = u.t.state
          /\ [u.t EXCEPT !.lastCR = FALSE].lastCR = FALSE
      BY <1>1 DEF Keeps, Inputs
    <3> QED
      BY <1>1, <3>2, <3>3
  <2> QED
    BY <2>1, <2>2
<1>5. f.t = g.t /\ f.raw = g.raw /\ f.rep = u.rep
  BY <1>3 DEF Fed
<1> HIDE DEF f, g
<1>6. Quiet(i, f)
  BY <1>1, <1>4, <1>5 DEF Quiet, Keeps
<1> QED
  BY <1>1, <1>4, <1>5, <1>6 DEF f

\* A byte of an Enter.
LEMMA EnterByte ==
  ASSUME NEW m, NEW e \in EolNames, NEW i \in Inputs, NEW b \in {CR, LF, NUL}, i.state = "data"
  PROVE  LET f == ByteIn(m, e, i, b)
         IN /\ Quiet(i, f) /\ f.t.state = "data"
            /\ f.raw = IF e = "raw" THEN <<b>>
                       ELSE IF b = CR \/ (b = LF /\ ~i.lastCR) THEN emitEOL(e) ELSE <<>>
            /\ f.t.lastCR = IF e = "raw" THEN i.lastCR ELSE (b = CR)
<1> DEFINE u == Unwrapped(m, i, b)
           g == Normalized(e, u.t, b)
           f == ByteIn(m, e, i, b)
<1>0. b # IAC /\ CR # LF /\ CR # NUL /\ LF # NUL
  BY DEF CR, LF, NUL, IAC
<1>1. u = Fed(i, <<b>>, <<>>)
  BY <1>0 DEF Unwrapped, feedTelnet
<1>2. u.t = i /\ u.raw = <<b>> /\ u.rep = <<>> /\ u.raw # <<>> /\ u.raw[1] = b
  BY <1>1 DEF Fed
<1>3. f = Fed(g.t, g.raw, u.rep)
  BY <1>2 DEF ByteIn
<1>4. f.t = g.t /\ f.raw = g.raw /\ f.rep = <<>> /\ g = Normalized(e, i, b)
  BY <1>2, <1>3 DEF Fed
<1>5. CASE e = "raw"
  <2>1. g = Fed(i, <<b>>, <<>>)
    BY <1>4, <1>5 DEF Normalized
  <2>2. g.t = i /\ g.raw = <<b>>
    BY <2>1 DEF Fed
  <2> HIDE DEF u, f, g
  <2> QED
    BY <1>4, <1>5, <2>2 DEF Quiet, Keeps, f
<1>6. CASE e # "raw"
  <2> DEFINE j == [i EXCEPT !.lastCR = (b = CR)]
  <2>1. g = Fed(j, IF b = CR \/ (b = LF /\ ~i.lastCR) THEN emitEOL(e) ELSE <<>>, <<>>)
    BY <1>0, <1>4, <1>6 DEF Normalized, normalizeByte, CRAfter
  <2>2. g.t = j /\ g.raw = IF b = CR \/ (b = LF /\ ~i.lastCR) THEN emitEOL(e) ELSE <<>>
    BY <2>1 DEF Fed
  <2>3. Keeps(i, j) /\ j.state = i.state /\ j.lastCR = (b = CR)
    BY DEF Keeps, Inputs
  <2> HIDE DEF u, f, g, j
  <2> QED
    BY <1>4, <1>6, <2>2, <2>3 DEF Quiet, f
<1> QED
  BY <1>5, <1>6

--------------------------------------------------------------------------------
(* The bytes of a Telnet command.                                          *)

LEMMA CommandByte ==
  ASSUME NEW m, m # "raw", NEW e, NEW i, NEW b, feedTelnet(i, m, b).raw = <<>>
  PROVE  ByteIn(m, e, i, b) = feedTelnet(i, m, b)
BY DEF ByteIn, Unwrapped

Greeting == <<IAC, WILL, ECHO, IAC, WILL, SGA>>

LEMMA IacByte ==
  ASSUME NEW m \in {"auto", "telnet"}, NEW e, NEW i \in Inputs, i.state = "data"
  PROVE  LET f == ByteIn(m, e, i, IAC)
         IN /\ Swallowed(i, f) /\ f.t.state = "iac" /\ f.t.do = i.do /\ f.t.size = i.size
            /\ f.t.announced = (i.announced \/ m = "auto")
            /\ IF m = "auto" /\ ~i.announced THEN f.rep = Greeting /\ f.t.will = i.will \cup {ECHO, SGA}
               ELSE f.rep = <<>> /\ f.t.will = i.will
<1> DEFINE j == [i EXCEPT !.state = "iac"]
           f == feedTelnet(i, m, IAC)
<1>1. j.state = "iac" /\ j.will = i.will /\ j.do = i.do /\ j.size = i.size /\ j.announced = i.announced
      /\ j.lastCR = i.lastCR /\ j \in Inputs
  BY DEF Inputs
<1> HIDE DEF j
<1>2. m # "raw"
  OBVIOUS
<1>3. CASE m = "auto" /\ ~i.announced
  <2> DEFINE k == [j EXCEPT !.announced = TRUE, !.will = @ \cup {ECHO, SGA}]
  <2>1. f = Fed(k, <<>>, Greeting)
    BY <1>1, <1>3 DEF feedTelnet, announce, Greeting, j
  <2>2. f.t = k /\ f.raw = <<>> /\ f.rep = Greeting
    BY <2>1 DEF Fed
  <2>3. k.state = "iac" /\ k.will = i.will \cup {ECHO, SGA} /\ k.do = i.do /\ k.size = i.size
        /\ k.announced = TRUE /\ k.lastCR = i.lastCR
    BY <1>1 DEF Inputs
  <2>4. ByteIn(m, e, i, IAC) = f
    BY <1>2, <2>2, CommandByte
  <2> HIDE DEF f, k
  <2> QED
    BY <1>3, <2>2, <2>3, <2>4 DEF Swallowed
<1>4. CASE ~(m = "auto" /\ ~i.announced)
  <2>1. f = Fed(j, <<>>, <<>>)
    BY <1>1, <1>4 DEF feedTelnet, announce, j
  <2>2. f.t = j /\ f.raw = <<>> /\ f.rep = <<>>
    BY <2>1 DEF Fed
  <2>3. ByteIn(m, e, i, IAC) = f
    BY <1>2, <2>2, CommandByte
  <2>4. i.announced \in BOOLEAN
    BY DEF Inputs
  <2> HIDE DEF f
  <2> QED
    BY <1>1, <1>4, <2>2, <2>3, <2>4 DEF Swallowed
<1> QED
  BY <1>3, <1>4

LEMMA VerbByte ==
  ASSUME NEW m, m # "raw", NEW e, NEW i \in Inputs, i.state = "iac", NEW b \in {WILL, WONT, DO, DONT}
  PROVE  LET f == ByteIn(m, e, i, b)
         IN Swallowed(i, f) /\ Quiet(i, f) /\ f.t.state = "opt" /\ f.t.cmd = b
<1> DEFINE j == [i EXCEPT !.cmd = b, !.state = "opt"]
           f == feedTelnet(i, m, b)
<1>1. b # IAC
  BY DEF IAC, WILL, WONT, DO, DONT
<1>2. f = Fed(j, <<>>, <<>>)
  <2>1. IAC # SB /\ b # SB
    BY DEF IAC, SB, WILL, WONT, DO, DONT
  <2> QED
    BY <1>1, <2>1 DEF feedTelnet
<1>3. f.t = j /\ f.raw = <<>> /\ f.rep = <<>>
  BY <1>2 DEF Fed
<1>4. j.state = "opt" /\ j.cmd = b /\ j.lastCR = i.lastCR /\ Keeps(i, j)
  BY DEF Inputs, Keeps
<1>5. ByteIn(m, e, i, b) = f
  BY <1>3, CommandByte
<1> HIDE DEF f, j
<1> QED
  BY <1>3, <1>4, <1>5 DEF Swallowed, Quiet

LEMMA SbByte ==
  ASSUME NEW m, m # "raw", NEW e, NEW i \in Inputs, i.state = "iac"
  PROVE  LET f == ByteIn(m, e, i, SB)
         IN Swallowed(i, f) /\ Quiet(i, f) /\ f.t.state = "sb" /\ f.t.sb = <<>>
<1> DEFINE j == [i EXCEPT !.sb = <<>>, !.state = "sb"]
           f == feedTelnet(i, m, SB)
<1>1. SB # IAC /\ SB \notin {WILL, WONT, DO, DONT}
  BY DEF IAC, SB, WILL, WONT, DO, DONT
<1>2. f = Fed(j, <<>>, <<>>)
  BY <1>1 DEF feedTelnet, SbAtStart
<1>3. f.t = j /\ f.raw = <<>> /\ f.rep = <<>>
  BY <1>2 DEF Fed
<1>4. j.state = "sb" /\ j.sb = <<>> /\ j.lastCR = i.lastCR /\ Keeps(i, j)
  BY DEF Inputs, Keeps
<1>5. ByteIn(m, e, i, SB) = f
  BY <1>3, CommandByte
<1> HIDE DEF f, j
<1> QED
  BY <1>3, <1>4, <1>5 DEF Swallowed, Quiet

LEMMA GoAheadByte ==
  ASSUME NEW m, m # "raw", NEW e, NEW i \in Inputs, i.state = "iac"
  PROVE  LET f == ByteIn(m, e, i, 249)
         IN Swallowed(i, f) /\ Quiet(i, f) /\ f.t.state = "data"
<1> DEFINE j == [i EXCEPT !.state = "data"]
           f == feedTelnet(i, m, 249)
<1>1. 249 \notin {IAC, WILL, WONT, DO, DONT, SB}
  BY DEF IAC, SB, WILL, WONT, DO, DONT
<1>2. f = Fed(j, <<>>, <<>>)
  BY <1>1 DEF feedTelnet
<1>3. f.t = j /\ f.raw = <<>> /\ f.rep = <<>>
  BY <1>2 DEF Fed
<1>4. j.state = "data" /\ j.lastCR = i.lastCR /\ Keeps(i, j)
  BY DEF Inputs, Keeps
<1>5. ByteIn(m, e, i, 249) = f
  BY <1>3, CommandByte
<1> HIDE DEF f, j
<1> QED
  BY <1>3, <1>4, <1>5 DEF Swallowed, Quiet

\* A byte of a subnegotiation, in it and after an IAC in it.
LEMMA SbDataByte ==
  ASSUME NEW m, m # "raw", NEW e, NEW i \in Inputs, NEW b \in Bytes,
         (i.state = "sb" /\ b # IAC) \/ (i.state = "sbiac" /\ b # SE)
  PROVE  LET f == ByteIn(m, e, i, b)
         IN Swallowed(i, f) /\ Quiet(i, f) /\ f.t.state = "sb" /\ f.t.sb = Append(i.sb, b)
<1> DEFINE j == [i EXCEPT !.sb = Append(i.sb, b), !.state = "sb"]
           f == feedTelnet(i, m, b)
<1>1. f = Fed(j, <<>>, <<>>)
  <2>1. CASE i.state = "sb"
    <3>1. [i EXCEPT !.sb = Append(@, b)] = j
      BY <2>1 DEF Inputs
    <3>2. f = Fed([i EXCEPT !.sb = Append(@, b)], <<>>, <<>>)
      BY <2>1 DEF feedTelnet
    <3> QED
      BY <3>1, <3>2
  <2>2. CASE i.state = "sbiac"
    BY <2>2 DEF feedTelnet
  <2> QED
    BY <2>1, <2>2
<1>3. f.t = j /\ f.raw = <<>> /\ f.rep = <<>>
  BY <1>1 DEF Fed
<1>4. j.state = "sb" /\ j.sb = Append(i.sb, b) /\ j.lastCR = i.lastCR /\ Keeps(i, j)
  BY DEF Inputs, Keeps
<1>5. ByteIn(m, e, i, b) = f
  BY <1>3, CommandByte
<1> HIDE DEF f, j
<1> QED
  BY <1>3, <1>4, <1>5 DEF Swallowed, Quiet

LEMMA SbIacByte ==
  ASSUME NEW m, m # "raw", NEW e, NEW i \in Inputs, i.state = "sb"
  PROVE  LET f == ByteIn(m, e, i, IAC)
         IN Swallowed(i, f) /\ Quiet(i, f) /\ f.t.state = "sbiac" /\ f.t.sb = i.sb
<1> DEFINE j == [i EXCEPT !.state = "sbiac"]
           f == feedTelnet(i, m, IAC)
<1>2. f = Fed(j, <<>>, <<>>)
  BY DEF feedTelnet
<1>3. f.t = j /\ f.raw = <<>> /\ f.rep = <<>>
  BY <1>2 DEF Fed
<1>4. j.state = "sbiac" /\ j.sb = i.sb /\ j.lastCR = i.lastCR /\ Keeps(i, j)
  BY DEF Inputs, Keeps
<1>5. ByteIn(m, e, i, IAC) = f
  BY <1>3, CommandByte
<1> HIDE DEF f, j
<1> QED
  BY <1>3, <1>4, <1>5 DEF Swallowed, Quiet

LEMMA SeByte ==
  ASSUME NEW m, m # "raw", NEW e, NEW i \in Inputs, i.state = "sbiac"
  PROVE  LET f == ByteIn(m, e, i, SE)
         IN /\ Swallowed(i, f) /\ f.rep = <<>> /\ f.t.state = "data" /\ f.t.size = SizeAfter(i)
            /\ f.t.will = i.will /\ f.t.do = i.do /\ f.t.announced = i.announced
<1> DEFINE j == [i EXCEPT !.size = SizeAfter(i), !.state = "data"]
           f == feedTelnet(i, m, SE)
<1>2. f = Fed(j, <<>>, <<>>)
  BY DEF feedTelnet
<1>3. f.t = j /\ f.raw = <<>> /\ f.rep = <<>>
  BY <1>2 DEF Fed
<1>4. j.state = "data" /\ j.size = SizeAfter(i) /\ j.lastCR = i.lastCR /\ j.will = i.will /\ j.do = i.do
      /\ j.announced = i.announced
  BY DEF Inputs
<1>5. ByteIn(m, e, i, SE) = f
  BY <1>3, CommandByte
<1> HIDE DEF f, j
<1> QED
  BY <1>3, <1>4, <1>5 DEF Swallowed

\* The option of a request: what is answered and what changes.
Said3(verb, opt) == <<IAC, verb, opt>>

Answered(i, f, b) ==
  /\ i.cmd = DO /\ b \in {ECHO, SGA} =>
       /\ f.t.do = i.do
       /\ IF b \in i.will THEN f.rep = <<>> /\ f.t.will = i.will
          ELSE f.rep = Said3(WILL, b) /\ f.t.will = i.will \cup {b}
  /\ i.cmd = DO /\ b \notin {ECHO, SGA} => f.t.do = i.do /\ f.t.will = i.will /\ f.rep = Said3(WONT, b)
  /\ i.cmd = DONT =>
       /\ f.t.do = i.do
       /\ IF b \in i.will THEN f.rep = Said3(WONT, b) /\ f.t.will = i.will \ {b}
          ELSE f.rep = <<>> /\ f.t.will = i.will
  /\ i.cmd = WILL /\ b \in {SGA, NAWS} =>
       /\ f.t.will = i.will
       /\ IF b \in i.do THEN f.rep = <<>> /\ f.t.do = i.do
          ELSE f.rep = Said3(DO, b) /\ f.t.do = i.do \cup {b}
  /\ i.cmd = WILL /\ b \notin {SGA, NAWS} => f.t.do = i.do /\ f.t.will = i.will /\ f.rep = Said3(DONT, b)
  /\ i.cmd = WONT =>
       /\ f.t.will = i.will
       /\ IF b \in i.do THEN f.rep = Said3(DONT, b) /\ f.t.do = i.do \ {b}
          ELSE f.rep = <<>> /\ f.t.do = i.do

LEMMA NegotiateIs ==
  ASSUME NEW i \in Inputs, i.cmd \in {WILL, WONT, DO, DONT}, NEW b \in Bytes
  PROVE  LET f == negotiate(i, b)
         IN /\ Swallowed(i, f) /\ f.t.state = i.state /\ f.t.size = i.size /\ f.t.announced = i.announced
            /\ Answered(i, f, b)
<1>0. WILL # DO /\ WILL # DONT /\ WILL # WONT /\ WONT # DO /\ WONT # DONT /\ DO # DONT
  BY DEF WILL, WONT, DO, DONT
<1>1. ASSUME NEW r
      PROVE  LET j == [i EXCEPT !.will = r]
             IN j.will = r /\ j.do = i.do /\ j.state = i.state /\ j.size = i.size /\ j.announced = i.announced
                /\ j.lastCR = i.lastCR
  BY DEF Inputs
<1>2. ASSUME NEW r
      PROVE  LET j == [i EXCEPT !.do = r]
             IN j.do = r /\ j.will = i.will /\ j.state = i.state /\ j.size = i.size /\ j.announced = i.announced
                /\ j.lastCR = i.lastCR
  BY DEF Inputs
<1> DEFINE f == negotiate(i, b)
<1>3. CASE i.cmd = DO
  <2>1. CASE b \in {ECHO, SGA} /\ b \in i.will
    <3>1. f = Fed(i, <<>>, <<>>)
      BY <1>0, <1>3, <2>1 DEF negotiate, Known
    <3>2. f.t = i /\ f.raw = <<>> /\ f.rep = <<>>
      BY <3>1 DEF Fed
    <3> HIDE DEF f
    <3> QED
      BY <1>0, <1>3, <2>1, <3>2 DEF Swallowed, Answered, f
  <2>2. CASE b \in {ECHO, SGA} /\ b \notin i.will
    <3>1. f = Fed([i EXCEPT !.will = i.will \cup {b}], <<>>, Said3(WILL, b))
      BY <1>0, <1>3, <2>2 DEF negotiate, Known, Said3
    <3>2. f.t = [i EXCEPT !.will = i.will \cup {b}] /\ f.raw = <<>> /\ f.rep = Said3(WILL, b)
      BY <3>1 DEF Fed
    <3> HIDE DEF f
    <3> QED
      BY <1>0, <1>1, <1>3, <2>2, <3>2 DEF Swallowed, Answered, f
  <2>3. CASE b \notin {ECHO, SGA}
    <3>1. f = Fed(i, <<>>, Said3(WONT, b))
      BY <1>0, <1>3, <2>3 DEF negotiate, Said3
    <3>2. f.t = i /\ f.raw = <<>> /\ f.rep = Said3(WONT, b)
      BY <3>1 DEF Fed
    <3> HIDE DEF f
    <3> QED
      BY <1>0, <1>3, <2>3, <3>2 DEF Swallowed, Answered, f
  <2> QED
    BY <2>1, <2>2, <2>3
<1>4. CASE i.cmd = DONT
  <2>1. CASE b \in i.will
    <3>1. f = Fed([i EXCEPT !.will = i.will \ {b}], <<>>, Said3(WONT, b))
      BY <1>0, <1>4, <2>1 DEF negotiate, Said3
    <3>2. f.t = [i EXCEPT !.will = i.will \ {b}] /\ f.raw = <<>> /\ f.rep = Said3(WONT, b)
      BY <3>1 DEF Fed
    <3> HIDE DEF f
    <3> QED
      BY <1>0, <1>1, <1>4, <2>1, <3>2 DEF Swallowed, Answered, f
  <2>2. CASE b \notin i.will
    <3>1. f = Fed(i, <<>>, <<>>)
      BY <1>0, <1>4, <2>2 DEF negotiate
    <3>2. f.t = i /\ f.raw = <<>> /\ f.rep = <<>>
      BY <3>1 DEF Fed
    <3> HIDE DEF f
    <3> QED
      BY <1>0, <1>4, <2>2, <3>2 DEF Swallowed, Answered, f
  <2> QED
    BY <2>1, <2>2
<1>5. CASE i.cmd = WILL
  <2>1. CASE b \in {SGA, NAWS} /\ b \in i.do
    <3>1. f = Fed(i, <<>>, <<>>)
      BY <1>0, <1>5, <2>1 DEF negotiate, Known
    <3>2. f.t = i /\ f.raw = <<>> /\ f.rep = <<>>
      BY <3>1 DEF Fed
    <3> HIDE DEF f
    <3> QED
      BY <1>0, <1>5, <2>1, <3>2 DEF Swallowed, Answered, f
  <2>2. CASE b \in {SGA, NAWS} /\ b \notin i.do
    <3>1. f = Fed([i EXCEPT !.do = i.do \cup {b}], <<>>, Said3(DO, b))
      BY <1>0, <1>5, <2>2 DEF negotiate, Known, Said3
    <3>2. f.t = [i EXCEPT !.do = i.do \cup {b}] /\ f.raw = <<>> /\ f.rep = Said3(DO, b)
      BY <3>1 DEF Fed
    <3> HIDE DEF f
    <3> QED
      BY <1>0, <1>2, <1>5, <2>2, <3>2 DEF Swallowed, Answered, f
  <2>3. CASE b \notin {SGA, NAWS}
    <3>1. f = Fed(i, <<>>, Said3(DONT, b))
      BY <1>0, <1>5, <2>3 DEF negotiate, Said3
    <3>2. f.t = i /\ f.raw = <<>> /\ f.rep = Said3(DONT, b)
      BY <3>1 DEF Fed
    <3> HIDE DEF f
    <3> QED
      BY <1>0, <1>5, <2>3, <3>2 DEF Swallowed, Answered, f
  <2> QED
    BY <2>1, <2>2, <2>3
<1>6. CASE i.cmd = WONT
  <2>1. CASE b \in i.do
    <3>1. f = Fed([i EXCEPT !.do = i.do \ {b}], <<>>, Said3(DONT, b))
      BY <1>0, <1>6, <2>1 DEF negotiate, Said3
    <3>2. f.t = [i EXCEPT !.do = i.do \ {b}] /\ f.raw = <<>> /\ f.rep = Said3(DONT, b)
      BY <3>1 DEF Fed
    <3> HIDE DEF f
    <3> QED
      BY <1>0, <1>2, <1>6, <2>1, <3>2 DEF Swallowed, Answered, f
  <2>2. CASE b \notin i.do
    <3>1. f = Fed(i, <<>>, <<>>)
      BY <1>0, <1>6, <2>2 DEF negotiate
    <3>2. f.t = i /\ f.raw = <<>> /\ f.rep = <<>>
      BY <3>1 DEF Fed
    <3> HIDE DEF f
    <3> QED
      BY <1>0, <1>6, <2>2, <3>2 DEF Swallowed, Answered, f
  <2> QED
    BY <2>1, <2>2
<1> QED
  BY <1>3, <1>4, <1>5, <1>6

LEMMA OptByte ==
  ASSUME NEW m, m # "raw", NEW e, NEW i \in Inputs, i.state = "opt", NEW b \in Bytes
  PROVE  LET f == ByteIn(m, e, i, b)
         IN /\ Swallowed(i, f) /\ f.t.state = "data" /\ f.t.size = i.size /\ f.t.announced = i.announced
            /\ Answered(i, f, b)
<1> DEFINE j == [i EXCEPT !.state = "data"]
           f == negotiate(j, b)
<1>1. i.cmd \in {WILL, WONT, DO, DONT}
  BY DEF Inputs
<1>2. j \in Inputs /\ j.cmd = i.cmd /\ j.state = "data" /\ j.will = i.will /\ j.do = i.do /\ j.size = i.size
      /\ j.announced = i.announced /\ j.lastCR = i.lastCR
  BY DEF Inputs
<1>3. feedTelnet(i, m, b) = f
  BY DEF feedTelnet
<1> HIDE DEF j
<1>4. Swallowed(j, f) /\ f.t.state = j.state /\ f.t.size = j.size /\ f.t.announced = j.announced /\ Answered(j, f, b)
  BY <1>1, <1>2, NegotiateIs
<1>5. ByteIn(m, e, i, b) = f
  BY <1>3, <1>4, CommandByte DEF Swallowed
<1> HIDE DEF f
<1>6. Answered(i, f, b)
  BY <1>2, <1>4 DEF Answered
<1> QED
  BY <1>2, <1>4, <1>5, <1>6 DEF Swallowed

--------------------------------------------------------------------------------
(* Where the parser is inside a token.                                     *)

Payload ==
  [naws80 |-> <<NAWS, 0, 80, 0, 24>>, naws255 |-> <<NAWS, 0, IAC, 0, 24>>, nawsNoRows |-> <<NAWS, 0, 80, 0, 0>>]

\* After each byte of a report: the state, and how much of the payload is in sb.
ReportStates ==
  [naws80 |-> <<"iac", "sb", "sb", "sb", "sb", "sb", "sb", "sbiac">>,
   naws255 |-> <<"iac", "sb", "sb", "sb", "sbiac", "sb", "sb", "sb", "sbiac">>,
   nawsNoRows |-> <<"iac", "sb", "sb", "sb", "sb", "sb", "sb", "sbiac">>]

Gathered ==
  [naws80 |-> <<0, 0, 1, 2, 3, 4, 5, 5>>, naws255 |-> <<0, 0, 1, 2, 2, 3, 4, 5, 5>>,
   nawsNoRows |-> <<0, 0, 1, 2, 3, 4, 5, 5>>]

StateAt(tok, o) ==
  IF o = 0 THEN "data"
  ELSE IF tok \in Negotiations THEN (IF o = 1 THEN "iac" ELSE "opt")
  ELSE IF tok \in {"goAhead", "ff"} THEN "iac"
  ELSE IF tok \in Reports THEN ReportStates[tok][o]
  ELSE "data"

\* The parser after o bytes of tok.
Parser(tok, o, i) ==
  /\ i.state = StateAt(tok, o)
  /\ tok \in Negotiations /\ o = 2 => i.cmd = WireOf[tok][2]
  /\ tok \in Reports /\ o >= 2 => i.sb = SubSeq(Payload[tok], 1, Gathered[tok][o])
  /\ mode = "telnet" \/ i.state # "data" => i.announced
  /\ IF tok = "enter" /\ o = 1 /\ eol # "raw" THEN i.lastCR ELSE (i.lastCR => enter = "cr")

\* Where the next byte leads.
After(tok, o) == IF o + 1 < Len(WireOf[tok]) THEN o + 1 ELSE 0

\* The console bytes of the next byte.
Yield(tok, o) ==
  IF tok \in Commands THEN <<>>
  ELSE IF tok = "ff" THEN (IF After(tok, o) = 0 THEN <<IAC>> ELSE <<>>)
  ELSE IF tok \in {"enter", "ctrlJ"} /\ eol # "raw" THEN (IF o = 0 THEN emitEOL(eol) ELSE <<>>)
  ELSE <<WireOf[tok][o + 1]>>

\* What the next byte changes of the options.
Negotiates(tok, o, i, f) ==
  IF tok \in Commands \cup {"ff"} /\ mode # "raw" /\ o = 0
    THEN /\ f.t.do = i.do /\ f.t.announced
         /\ IF mode = "auto" /\ ~i.announced THEN f.rep = Greeting /\ f.t.will = i.will \cup {ECHO, SGA}
            ELSE f.rep = <<>> /\ f.t.will = i.will
  ELSE IF tok \in Negotiations /\ o = 2
    THEN i.cmd = WireOf[tok][2] /\ Answered(i, f, WireOf[tok][3]) /\ f.t.announced = i.announced /\ i.announced
  ELSE f.rep = <<>> /\ f.t.will = i.will /\ f.t.do = i.do /\ f.t.announced = i.announced

NewSize(tok, o, size) ==
  IF tok \in {"naws80", "naws255"} /\ After(tok, o) = 0 THEN [cols |-> Windows[tok][1], rows |-> Windows[tok][2]]
  ELSE size

Moves(tok, o, i, f) ==
  /\ f.raw = Yield(tok, o) /\ Parser(tok, After(tok, o), f.t)
  /\ f.t.size = NewSize(tok, o, i.size) /\ Negotiates(tok, o, i, f)

LEMMA Triple == \A u, b, c, e : u = <<b, c, e>> => Len(u) = 3 /\ u[1] = b /\ u[2] = c /\ u[3] = e
OBVIOUS

LEMMA WireLengths ==
  ASSUME Set
  PROVE  /\ \A tok \in Tokens : WireOf[tok] = Wire(tok) /\ Len(WireOf[tok]) \in Nat \ {0}
         /\ \A tok \in Tokens \cap Negotiations : Len(WireOf[tok]) = 3 /\ WireOf[tok][1] = IAC
         /\ "goAhead" \in Tokens => WireOf["goAhead"] = <<IAC, 249>>
         /\ \A tok \in Tokens \cap {"naws80", "nawsNoRows"} : Len(WireOf[tok]) = 9 /\ WireOf[tok][1] = IAC
         /\ "naws255" \in Tokens => Len(WireOf["naws255"]) = 10 /\ WireOf["naws255"][1] = IAC
         /\ \A tok \in Tokens \cap {"x", "esc", "ctrlJ"} : Len(WireOf[tok]) = 1
         /\ \A tok \in Tokens \cap KeyTokens : Len(WireOf[tok]) \in {3, 4}
<1>1. \A tok \in Tokens : WireOf[tok] = Wire(tok)
  BY DEF WireOf
<1>2. ASSUME NEW tok \in Tokens PROVE Len(WireOf[tok]) \in Nat \ {0}
  <2>1. Wire(tok) \in Seq(Bytes) /\ Wire(tok) # <<>>
    BY WireText DEF Text
  <2> QED
    BY <1>1, <2>1, LenProperties, EmptySeq
<1>3. ASSUME NEW tok \in Tokens, tok \in Negotiations PROVE Len(WireOf[tok]) = 3 /\ WireOf[tok][1] = IAC
  <2>1. WireOf[tok] = Telnet[tok]
    BY <1>1, <1>3, WireIs DEF Commands
  <2>2. \E c, e : Telnet[tok] = <<IAC, c, e>>
    BY <1>3, NegotiationIs
  <2> QED
    BY <2>1, <2>2, Triple
<1>4. ASSUME "goAhead" \in Tokens PROVE WireOf["goAhead"] = <<IAC, 249>>
  BY <1>1, <1>4, WireIs, TelnetIs DEF Commands
<1>5. ASSUME NEW tok \in Tokens, tok \in {"naws80", "nawsNoRows"} PROVE Len(WireOf[tok]) = 9 /\ WireOf[tok][1] = IAC
  <2>1. WireOf[tok] = Telnet[tok]
    BY <1>1, <1>5, WireIs DEF Commands, Reports
  <2>2. \A b, c : Len(<<IAC, SB, NAWS, 0, 80, 0, b, IAC, SE>>) = 9 /\ <<IAC, SB, NAWS, 0, 80, 0, b, IAC, SE>>[1] = IAC
    OBVIOUS
  <2> QED
    BY <1>5, <2>1, <2>2, TelnetIs
<1>6. ASSUME "naws255" \in Tokens PROVE Len(WireOf["naws255"]) = 10 /\ WireOf["naws255"][1] = IAC
  <2>1. WireOf["naws255"] = Telnet["naws255"]
    BY <1>1, <1>6, WireIs DEF Commands, Reports
  <2>2. Len(<<IAC, SB, NAWS, 0, IAC, IAC, 0, 24, IAC, SE>>) = 10 /\ <<IAC, SB, NAWS, 0, IAC, IAC, 0, 24, IAC, SE>>[1] = IAC
    OBVIOUS
  <2> QED
    BY <2>1, <2>2, TelnetIs
<1>7. ASSUME NEW tok \in Tokens, tok \in {"x", "esc", "ctrlJ"} PROVE Len(WireOf[tok]) = 1
  BY <1>1, <1>7, WireIs
<1>8. ASSUME NEW tok \in Tokens, tok \in KeyTokens PROVE Len(WireOf[tok]) \in {3, 4}
  <2>1. WireOf[tok] = EscapeSequences[tok]
    BY <1>1, <1>8, WireIs
  <2>2. \A b, c, e, f : Len(<<b, c, e>>) = 3 /\ Len(<<b, c, e, f>>) = 4
    OBVIOUS
  <2>3. Len(EscapeSequences["up"]) = 3 /\ Len(EscapeSequences["pgup"]) = 4 /\ Len(EscapeSequences["pgdn"]) = 4
    BY <2>2, KeySequences
  <2> QED
    BY <1>8, <2>1, <2>3 DEF KeyTokens
<1> QED
  BY <1>1, <1>2, <1>3, <1>4, <1>5, <1>6, <1>7, <1>8

LEMMA Kinds ==
  /\ \A tok \in KeyTokens \cup {"x", "esc"} : tok \notin Commands \cup {"ff", "enter", "ctrlJ"}
  /\ \A tok \in Commands : tok \notin {"ff", "enter", "ctrlJ"}
  /\ \A tok \in Negotiations : tok \in Commands /\ tok \notin Reports /\ tok # "goAhead"
  /\ \A tok \in Reports : tok \in Commands /\ tok \notin Negotiations /\ tok # "goAhead"
  /\ "goAhead" \in Commands /\ "goAhead" \notin Negotiations /\ "goAhead" \notin Reports
  /\ \A tok \in {"ff", "enter", "ctrlJ", "x", "esc"} \cup KeyTokens :
       tok \notin Commands /\ tok \notin Negotiations /\ tok \notin Reports /\ tok # "goAhead"
BY DEF Commands, Negotiations, Reports, KeyTokens

\* Moves, for a token that is not a report.
LEMMA MovesOn ==
  ASSUME NEW tok, tok \notin Reports, NEW o, NEW i, NEW f, f.raw = Yield(tok, o), f.t.size = i.size,
         Parser(tok, After(tok, o), f.t), Negotiates(tok, o, i, f)
  PROVE  Moves(tok, o, i, f)
<1>1. tok \notin {"naws80", "naws255"}
  BY DEF Reports
<1> QED
  BY <1>1 DEF Moves, NewSize

LEMMA TypedMoves ==
  ASSUME Set, NEW tok \in Tokens, tok \in KeyTokens \cup {"x", "esc"}, NEW o \in 0..(Len(WireOf[tok]) - 1),
         NEW i \in Inputs, Parser(tok, o, i)
  PROVE  Moves(tok, o, i, ByteIn(mode, eol, i, WireOf[tok][o + 1]))
<1> DEFINE b == WireOf[tok][o + 1]
           f == ByteIn(mode, eol, i, b)
<1>0. tok \notin Commands \cup {"ff", "enter", "ctrlJ"} /\ tok \notin Negotiations /\ tok \notin Reports /\ tok # "goAhead"
  BY Kinds
<1>1. b \in Bytes /\ b \notin {IAC, CR, LF, NUL}
  <2>1. CASE tok \in KeyTokens
    <3>1. WireOf[tok] = EscapeSequences[tok]
      BY <2>1, WireLengths, WireIs
    <3>2. CASE tok = "up"
      <4>1. o + 1 \in 1..3 /\ b = <<ESC, Bracket, 65>>[o + 1]
        BY <3>1, <3>2, KeySequences
      <4>2. b \in {ESC, Bracket, 65}
        BY <4>1
      <4> QED
        BY <4>2, SomeBytes DEF ESC, Bracket, IAC, CR, LF, NUL
    <3>3. CASE tok \in {"pgup", "pgdn"}
      <4>1. \E c \in {53, 54} : WireOf[tok] = <<ESC, Bracket, c, Tilde>>
        BY <3>1, <3>3, KeySequences
      <4>2. b \in {ESC, Bracket, 53, 54, Tilde}
        <5>1. PICK c \in {53, 54} : WireOf[tok] = <<ESC, Bracket, c, Tilde>>
          BY <4>1
        <5>2. Len(WireOf[tok]) = 4 /\ WireOf[tok][1] = ESC /\ WireOf[tok][2] = Bracket /\ WireOf[tok][3] = c
              /\ WireOf[tok][4] = Tilde
          BY <5>1
        <5>3. o + 1 \in {1, 2, 3, 4}
          BY <5>2
        <5> QED
          BY <5>2, <5>3
      <4> QED
        BY <4>2, SomeBytes DEF ESC, Bracket, Tilde, IAC, CR, LF, NUL
    <3> QED
      BY <2>1, <3>2, <3>3 DEF KeyTokens
  <2>2. CASE tok = "x"
    <3>0. WireOf[tok] = <<120>>
      BY <2>2, WireLengths, WireIs
    <3>1. Len(WireOf[tok]) = 1 /\ o = 0 /\ WireOf[tok][1] = 120
      BY <3>0
    <3> QED
      BY <3>1, SomeBytes DEF IAC, CR, LF, NUL
  <2>3. CASE tok = "esc"
    <3>0. WireOf[tok] = <<ESC>>
      BY <2>3, WireLengths, WireIs
    <3>1. Len(WireOf[tok]) = 1 /\ o = 0 /\ WireOf[tok][1] = ESC
      BY <3>0
    <3> QED
      BY <3>1, SomeBytes DEF IAC, CR, LF, NUL, ESC
  <2> QED
    BY <2>1, <2>2, <2>3
<1>2. \A p : StateAt(tok, p) = "data"
  BY <1>0 DEF StateAt
<1>3. i.state = "data" /\ (mode = "telnet" => i.announced) /\ (i.lastCR => enter = "cr")
  BY <1>0, <1>2 DEF Parser
<1>4. f.raw = <<b>> /\ Quiet(i, f) /\ f.t.state = "data" /\ (f.t.lastCR => i.lastCR)
  BY <1>1, <1>3, PassesByte DEF Set
<1> HIDE DEF f
<1>5. f.raw = Yield(tok, o)
  BY <1>0, <1>4 DEF Yield
<1>6. Parser(tok, After(tok, o), f.t)
  BY <1>0, <1>2, <1>3, <1>4 DEF Parser, Quiet, Keeps
<1>7. Negotiates(tok, o, i, f)
  BY <1>0, <1>4 DEF Negotiates, Quiet, Keeps
<1>8. f.t.size = i.size
  BY <1>4 DEF Quiet, Keeps
<1>9. Moves(tok, o, i, f)
  BY <1>0, <1>5, <1>6, <1>7, <1>8, MovesOn
<1> QED
  BY <1>9 DEF f

LEMMA EnterMoves ==
  ASSUME Set, NEW tok \in Tokens, tok \in {"enter", "ctrlJ"}, NEW o \in 0..(Len(WireOf[tok]) - 1),
         NEW i \in Inputs, Parser(tok, o, i)
  PROVE  Moves(tok, o, i, ByteIn(mode, eol, i, WireOf[tok][o + 1]))
<1> DEFINE b == WireOf[tok][o + 1]
           f == ByteIn(mode, eol, i, b)
<1>0. tok \notin Commands \cup {"ff"} /\ tok \notin Negotiations /\ tok \notin Reports /\ tok # "goAhead"
  BY Kinds
<1>a. CR # LF /\ CR # NUL /\ LF # NUL
  BY DEF CR, LF, NUL
<1>1. /\ b \in {CR, LF, NUL} /\ (tok = "ctrlJ" => enter # "cr")
      /\ o = 0 /\ b = CR => tok = "enter"
      /\ o = 0 /\ b = CR /\ After(tok, o) = 0 => enter = "cr"
      /\ o = 0 => b = CR \/ (b = LF /\ enter # "cr" /\ After(tok, o) = 0)
      /\ o = 0 /\ After(tok, o) # 0 => After(tok, o) = 1 /\ b = CR /\ tok = "enter"
      /\ o # 0 => o = 1 /\ After(tok, o) = 0 /\ tok = "enter" /\ b \in {LF, NUL} /\ enter # "cr"
  <2>1. CASE tok = "ctrlJ"
    <3>0. WireOf[tok] = <<LF>>
      BY <2>1, WireLengths, WireIs
    <3>1. Len(WireOf[tok]) = 1 /\ o = 0 /\ WireOf[tok][1] = LF
      BY <3>0
    <3>2. enter # "cr"
      BY <2>1, TokensAre
    <3> QED
      BY <1>a, <2>1, <3>1, <3>2 DEF After
  <2>2. CASE tok = "enter" /\ enter \in {"cr", "lf"}
    <3>1. WireOf[tok] = IF enter = "cr" THEN <<CR>> ELSE <<LF>>
      BY <2>2, WireLengths, WireIs, EnterIs
    <3>2. o = 0 /\ After(tok, o) = 0
      BY <2>2, <3>1 DEF After
    <3> QED
      BY <1>a, <2>2, <3>1, <3>2
  <2>3. CASE tok = "enter" /\ enter \in {"crlf", "crnul"}
    <3>1. WireOf[tok] = IF enter = "crlf" THEN <<CR, LF>> ELSE <<CR, NUL>>
      BY <2>3, WireLengths, WireIs, EnterIs
    <3>2. Len(WireOf[tok]) = 2 /\ WireOf[tok][1] = CR /\ WireOf[tok][2] \in {LF, NUL}
      BY <3>1
    <3>3. o \in {0, 1} /\ (o = 0 => After(tok, o) = 1 /\ b = CR) /\ (o = 1 => After(tok, o) = 0 /\ b \in {LF, NUL})
      BY <3>2 DEF After
    <3> QED
      BY <1>a, <2>3, <3>3
  <2> QED
    BY <2>1, <2>2, <2>3 DEF Set, EnterNames
<1>2. \A p : StateAt(tok, p) = "data"
  BY <1>0 DEF StateAt
<1>3. /\ i.state = "data" /\ (mode = "telnet" => i.announced) /\ i.lastCR \in BOOLEAN
      /\ IF tok = "enter" /\ o = 1 /\ eol # "raw" THEN i.lastCR ELSE (i.lastCR => enter = "cr")
  BY <1>2 DEF Parser, Inputs
<1>4. /\ Quiet(i, f) /\ f.t.state = "data"
      /\ f.raw = IF eol = "raw" THEN <<b>> ELSE IF b = CR \/ (b = LF /\ ~i.lastCR) THEN emitEOL(eol) ELSE <<>>
      /\ f.t.lastCR = IF eol = "raw" THEN i.lastCR ELSE (b = CR)
  BY <1>1, <1>3, EnterByte DEF Set
<1> HIDE DEF f, b
<1>5. f.raw = Yield(tok, o)
  <2>1. CASE eol = "raw"
    BY <1>0, <1>4, <2>1 DEF Yield, b
  <2>2. CASE eol # "raw" /\ o = 0
    BY <1>0, <1>1, <1>3, <1>4, <2>2 DEF Yield
  <2>3. CASE eol # "raw" /\ o # 0
    BY <1>0, <1>a, <1>1, <1>3, <1>4, <2>3 DEF Yield
  <2> QED
    BY <2>1, <2>2, <2>3
<1>6. Parser(tok, After(tok, o), f.t)
  <2>1. IF tok = "enter" /\ After(tok, o) = 1 /\ eol # "raw" THEN f.t.lastCR ELSE (f.t.lastCR => enter = "cr")
    <3>1. CASE eol = "raw"
      BY <1>3, <1>4, <3>1
    <3>2. CASE eol # "raw" /\ b = CR
      <4>1. f.t.lastCR
        BY <1>4, <3>2
      <4>2. After(tok, o) = 1 \/ enter = "cr"
        BY <1>a, <1>1, <3>2
      <4>3. CASE tok = "enter" /\ After(tok, o) = 1 /\ eol # "raw"
        BY <4>1, <4>3, Zenon
      <4>4. CASE ~(tok = "enter" /\ After(tok, o) = 1 /\ eol # "raw")
        <5>1. After(tok, o) # 1
          BY <1>1, <3>2, <4>4
        <5>2. enter = "cr"
          BY <4>2, <5>1, Zenon
        <5> QED
          BY <4>4, <5>2, Zenon
      <4> QED
        BY <4>3, <4>4, Zenon
    <3>3. CASE eol # "raw" /\ b # CR
      <4>1. ~f.t.lastCR
        BY <1>4, <3>3
      <4>2. After(tok, o) # 1
        <5>1. CASE o = 0
          BY <1>1, <3>3, <5>1
        <5>2. CASE o # 0
          BY <1>1, <5>2
        <5> QED
          BY <5>1, <5>2
      <4>3. ~(tok = "enter" /\ After(tok, o) = 1 /\ eol # "raw") /\ (f.t.lastCR => enter = "cr")
        BY <4>1, <4>2
      <4> QED
        BY <4>3, Zenon
    <3> QED
      BY <3>1, <3>2, <3>3
  <2> QED
    BY <1>0, <1>2, <1>3, <1>4, <2>1 DEF Parser, Quiet, Keeps
<1>7. Negotiates(tok, o, i, f)
  BY <1>0, <1>4 DEF Negotiates, Quiet, Keeps
<1>8. f.t.size = i.size
  BY <1>4 DEF Quiet, Keeps
<1>9. Moves(tok, o, i, f)
  BY <1>0, <1>5, <1>6, <1>7, <1>8, MovesOn
<1> QED
  BY <1>9 DEF f, b

\* The first byte of a Telnet command and of a doubled 255.
LEMMA FirstMoves ==
  ASSUME Set, NEW tok \in Tokens, mode # "raw", tok \in Commands \cup {"ff"}, NEW i \in Inputs, Parser(tok, 0, i)
  PROVE  Len(WireOf[tok]) \in Nat /\ Len(WireOf[tok]) > 1 /\ Moves(tok, 0, i, ByteIn(mode, eol, i, WireOf[tok][0 + 1]))
<1> DEFINE f == ByteIn(mode, eol, i, IAC)
<1>1. tok \notin {"enter", "ctrlJ"}
  BY Kinds
<1>2. Len(WireOf[tok]) \in Nat /\ Len(WireOf[tok]) > 1 /\ WireOf[tok][1] = IAC
  <2>a. \A n : n \in {2, 3, 9, 10} => n \in Nat /\ n > 1
    OBVIOUS
  <2>1. CASE tok \in Negotiations
    <3>1. Len(WireOf[tok]) = 3 /\ WireOf[tok][1] = IAC
      BY <2>1, WireLengths
    <3> QED
      BY <2>a, <3>1
  <2>2. CASE tok \in Reports
    <3>1. Len(WireOf[tok]) \in {9, 10} /\ WireOf[tok][1] = IAC
      BY <2>2, WireLengths DEF Reports
    <3> QED
      BY <2>a, <3>1
  <2>3. CASE tok = "goAhead"
    <3>1. WireOf[tok] = <<IAC, 249>>
      BY <2>3, WireLengths
    <3>2. Len(WireOf[tok]) = 2 /\ WireOf[tok][1] = IAC
      BY <3>1
    <3> QED
      BY <2>a, <3>2
  <2>4. CASE tok = "ff"
    <3>1. WireOf[tok] = <<IAC, IAC>>
      BY <2>4, WireLengths, WireIs
    <3> QED
      BY <3>1
  <2> QED
    BY <2>1, <2>2, <2>3, <2>4 DEF Commands
<1>3. After(tok, 0) = 1
  BY <1>2 DEF After
<1>4. StateAt(tok, 0) = "data" /\ StateAt(tok, 1) = "iac"
  <2>1. CASE tok \in Negotiations
    BY <2>1 DEF StateAt
  <2>2. CASE tok \in Reports
    <3>1. ReportStates[tok][1] = "iac"
      BY <2>2 DEF ReportStates, Reports
    <3> QED
      BY <2>2, <3>1, Kinds DEF StateAt
  <2>3. CASE tok \in {"goAhead", "ff"}
    BY <2>3, Kinds DEF StateAt
  <2> QED
    BY <2>1, <2>2, <2>3 DEF Commands
<1>5. i.state = "data" /\ (mode = "telnet" => i.announced) /\ (i.lastCR => enter = "cr")
  BY <1>4 DEF Parser
<1>6. mode \in {"auto", "telnet"}
  BY DEF Set, ModeNames
<1>7. /\ Swallowed(i, f) /\ f.t.state = "iac" /\ f.t.do = i.do /\ f.t.size = i.size
      /\ f.t.announced = (i.announced \/ mode = "auto")
      /\ IF mode = "auto" /\ ~i.announced THEN f.rep = Greeting /\ f.t.will = i.will \cup {ECHO, SGA}
         ELSE f.rep = <<>> /\ f.t.will = i.will
  BY <1>5, <1>6, IacByte
<1> HIDE DEF f
<1>8. f.t.announced
  BY <1>5, <1>6, <1>7
<1>9. f.raw = Yield(tok, 0)
  BY <1>1, <1>3, <1>7 DEF Yield, Swallowed
<1>10. Parser(tok, After(tok, 0), f.t)
  <2>1. (f.t.lastCR => enter = "cr") /\ tok # "enter"
    BY <1>1, <1>5, <1>7 DEF Swallowed
  <2>2. ~(1 >= 2) /\ 1 # 2
    OBVIOUS
  <2> QED
    BY <1>3, <1>4, <1>7, <1>8, <2>1, <2>2 DEF Parser
<1>11. Negotiates(tok, 0, i, f)
  BY <1>7, <1>8 DEF Negotiates
<1>12. f.t.size = NewSize(tok, 0, i.size)
  BY <1>3, <1>7 DEF NewSize
<1> QED
  BY <1>2, <1>9, <1>10, <1>11, <1>12 DEF Moves, f

\* A later byte of a Telnet command.
LEMMA LaterMoves ==
  ASSUME Set, NEW tok \in Tokens, tok \in Commands, NEW o \in 1..(Len(WireOf[tok]) - 1),
         NEW i, NEW f, Parser(tok, o, i), StateAt(tok, o) # "data", Swallowed(i, f),
         f.t.state = StateAt(tok, After(tok, o)), f.t.announced = i.announced, f.t.size = NewSize(tok, o, i.size),
         tok \in Negotiations /\ o = 1 => f.t.cmd = WireOf[tok][2],
         tok \in Reports /\ After(tok, o) # 0 => f.t.sb = SubSeq(Payload[tok], 1, Gathered[tok][After(tok, o)]),
         IF tok \in Negotiations /\ o = 2 THEN Answered(i, f, WireOf[tok][3])
         ELSE f.rep = <<>> /\ f.t.will = i.will /\ f.t.do = i.do
  PROVE  Moves(tok, o, i, f)
<1>1. tok # "enter"
  BY Kinds
<1>2. i.state # "data" /\ i.announced /\ (i.lastCR => enter = "cr") /\ o # 0
  BY <1>1 DEF Parser
<1>3. After(tok, o) = 2 => o = 1
  BY DEF After
<1>4. After(tok, o) >= 2 => After(tok, o) # 0
  OBVIOUS
<1>5. Parser(tok, After(tok, o), f.t)
  BY <1>1, <1>2, <1>3, <1>4 DEF Parser, Swallowed
<1>6. f.raw = Yield(tok, o)
  BY DEF Yield, Swallowed
<1>7. Negotiates(tok, o, i, f)
  <2>1. CASE tok \in Negotiations /\ o = 2
    <3>1. i.cmd = WireOf[tok][2]
      BY <2>1 DEF Parser
    <3> QED
      BY <1>2, <2>1, <3>1 DEF Negotiates
  <2>2. CASE ~(tok \in Negotiations /\ o = 2)
    BY <1>2, <2>2 DEF Negotiates
  <2> QED
    BY <2>1, <2>2
<1> QED
  BY <1>5, <1>6, <1>7 DEF Moves

LEMMA FfMoves ==
  ASSUME Set, "ff" \in Tokens, NEW o \in 0..(Len(WireOf["ff"]) - 1), NEW i \in Inputs, Parser("ff", o, i)
  PROVE  Moves("ff", o, i, ByteIn(mode, eol, i, WireOf["ff"][o + 1]))
<1> DEFINE f == ByteIn(mode, eol, i, IAC)
<1>0. "ff" \notin Commands /\ "ff" \notin Negotiations /\ "ff" \notin Reports
  BY Kinds
<1>a. IAC \in Bytes /\ IAC \notin {CR, LF, NUL}
  BY SomeBytes DEF IAC, CR, LF, NUL
<1>1. ASSUME WireOf["ff"][o + 1] = IAC, After("ff", o) = 0, mode = "raw" \/ o # 0,
             f.raw = <<IAC>>, Quiet(i, f), f.t.state = "data", f.t.lastCR => i.lastCR
      PROVE  Moves("ff", o, i, f)
  <2> HIDE DEF f
  <2>1. f.raw = Yield("ff", o)
    BY <1>0, <1>1 DEF Yield
  <2>2. StateAt("ff", 0) = "data"
    BY DEF StateAt
  <2>3. i.state = StateAt("ff", o) /\ (i.lastCR => enter = "cr") /\ (mode = "telnet" => i.announced)
    BY DEF Parser
  <2>4. Parser("ff", After("ff", o), f.t)
    BY <1>0, <1>1, <2>2, <2>3 DEF Parser, Quiet, Keeps
  <2>5. Negotiates("ff", o, i, f)
    BY <1>0, <1>1 DEF Negotiates, Quiet, Keeps
  <2>6. f.t.size = i.size
    BY <1>1 DEF Quiet, Keeps
  <2> QED
    BY <1>0, <2>1, <2>4, <2>5, <2>6, MovesOn
<1>2. CASE mode = "raw"
  <2>1. WireOf["ff"] = <<IAC>>
    BY <1>2, WireLengths, WireIs
  <2>2. o = 0 /\ After("ff", o) = 0 /\ WireOf["ff"][o + 1] = IAC
    BY <2>1 DEF After
  <2>3. i.state = "data"
    BY <2>2 DEF Parser, StateAt
  <2>4. f.raw = <<IAC>> /\ Quiet(i, f) /\ f.t.state = "data" /\ (f.t.lastCR => i.lastCR)
    BY <1>a, <1>2, <2>3, PassesByte DEF Set
  <2> QED
    BY <1>1, <1>2, <2>2, <2>4
<1>3. CASE mode # "raw"
  <2>1. WireOf["ff"] = <<IAC, IAC>>
    BY <1>3, WireLengths, WireIs
  <2>2. o \in {0, 1}
    BY <2>1
  <2>3. CASE o = 0
    BY <1>3, <2>3, FirstMoves
  <2>4. CASE o = 1
    <3>1. After("ff", o) = 0 /\ WireOf["ff"][o + 1] = IAC
      BY <2>1, <2>4 DEF After
    <3>2. i.state = "iac"
      BY <1>0, <2>4 DEF Parser, StateAt
    <3>3. f.raw = <<IAC>> /\ Quiet(i, f) /\ f.t.state = "data" /\ (f.t.lastCR => i.lastCR)
      BY <1>a, <1>3, <3>2, PassesByte DEF Set
    <3> QED
      BY <1>1, <2>4, <3>1, <3>3
  <2> QED
    BY <2>2, <2>3, <2>4
<1> QED
  BY <1>2, <1>3

LEMMA GoAheadMoves ==
  ASSUME Set, "goAhead" \in Tokens, NEW o \in 0..(Len(WireOf["goAhead"]) - 1), NEW i \in Inputs,
         Parser("goAhead", o, i)
  PROVE  Moves("goAhead", o, i, ByteIn(mode, eol, i, WireOf["goAhead"][o + 1]))
<1>0. "goAhead" \in Commands /\ "goAhead" \notin Negotiations /\ "goAhead" \notin Reports /\ mode # "raw"
      /\ "goAhead" \notin {"naws80", "naws255"}
  BY Kinds, TokensAre
<1>1. WireOf["goAhead"] = <<IAC, 249>>
  BY WireLengths
<1>2. o \in {0, 1}
  BY <1>1
<1>3. CASE o = 0
  BY <1>0, <1>3, FirstMoves
<1>4. CASE o = 1
  <2> DEFINE f == ByteIn(mode, eol, i, 249)
  <2>1. After("goAhead", o) = 0 /\ WireOf["goAhead"][o + 1] = 249 /\ o \in 1..(Len(WireOf["goAhead"]) - 1)
    BY <1>1, <1>4 DEF After
  <2>2. StateAt("goAhead", o) = "iac" /\ StateAt("goAhead", 0) = "data"
    BY <1>0, <1>4 DEF StateAt
  <2>3. i.state = "iac"
    BY <2>2 DEF Parser
  <2>4. Swallowed(i, f) /\ Quiet(i, f) /\ f.t.state = "data"
    BY <1>0, <2>3, GoAheadByte
  <2> HIDE DEF f
  <2>5. f.t.size = NewSize("goAhead", o, i.size)
    BY <1>0, <2>4 DEF NewSize, Quiet, Keeps
  <2>6. Moves("goAhead", o, i, f)
    BY <1>0, <2>1, <2>2, <2>4, <2>5, LaterMoves DEF Quiet, Keeps
  <2> QED
    BY <2>1, <2>6 DEF f
<1> QED
  BY <1>2, <1>3, <1>4

LEMMA RequestIs ==
  ASSUME Set, NEW tok \in Tokens, tok \in Negotiations
  PROVE  /\ WireOf[tok] = <<IAC, WireOf[tok][2], WireOf[tok][3]>> /\ WireOf[tok][2] \in Verbs
         /\ WireOf[tok][3] \in Bytes
<1> DEFINE u == WireOf[tok]
<1>1. u = Telnet[tok]
  BY WireLengths, WireIs DEF Commands
<1> HIDE DEF u
<1>2. PICK v \in Verbs, b \in {ECHO, SGA, NAWS, Other} : u = <<IAC, v, b>>
  BY <1>1, NegotiationIs
<1>3. u[2] = v /\ u[3] = b
  BY <1>2, Triple
<1>4. b \in Bytes
  BY SomeBytes
<1> QED
  BY <1>2, <1>3, <1>4 DEF u

\* A request or an offer moves the parser by one byte at a time.
LEMMA NegotiationMoves ==
  ASSUME Set, NEW tok \in Tokens, tok \in Negotiations, NEW o \in 0..(Len(WireOf[tok]) - 1), NEW i \in Inputs,
         Parser(tok, o, i)
  PROVE  Moves(tok, o, i, ByteIn(mode, eol, i, WireOf[tok][o + 1]))
<1>0. tok \in Commands /\ tok \notin Reports /\ tok # "goAhead" /\ mode # "raw" /\ tok \notin {"naws80", "naws255"}
  <2>1. tok \in Commands /\ tok \notin Reports /\ tok # "goAhead"
    BY Kinds
  <2> QED
    BY <2>1, TokensAre DEF Reports
<1>1. Len(WireOf[tok]) = 3 /\ WireOf[tok][2] \in {WILL, WONT, DO, DONT} /\ WireOf[tok][3] \in Bytes
  BY WireLengths, RequestIs DEF Verbs
<1>2. o \in {0, 1, 2}
  BY <1>1
<1>3. CASE o = 0
  BY <1>0, <1>3, FirstMoves
<1>4. CASE o = 1
  <2> DEFINE f == ByteIn(mode, eol, i, WireOf[tok][2])
  <2>1. After(tok, o) = 2 /\ o + 1 = 2 /\ o \in 1..(Len(WireOf[tok]) - 1)
    BY <1>1, <1>4 DEF After
  <2>2. StateAt(tok, o) = "iac" /\ StateAt(tok, 2) = "opt"
    BY <1>4 DEF StateAt
  <2>3. i.state = "iac"
    BY <2>2 DEF Parser
  <2>4. Swallowed(i, f) /\ Quiet(i, f) /\ f.t.state = "opt" /\ f.t.cmd = WireOf[tok][2]
    BY <1>0, <1>1, <2>3, VerbByte
  <2> HIDE DEF f
  <2>5. f.t.size = NewSize(tok, o, i.size)
    BY <1>0, <2>4 DEF NewSize, Quiet, Keeps
  <2>6. Moves(tok, o, i, f)
    BY <1>0, <1>4, <2>1, <2>2, <2>4, <2>5, LaterMoves DEF Quiet, Keeps
  <2> QED
    BY <2>1, <2>6 DEF f
<1>5. CASE o = 2
  <2> DEFINE f == ByteIn(mode, eol, i, WireOf[tok][3])
  <2>1. After(tok, o) = 0 /\ o + 1 = 3 /\ o \in 1..(Len(WireOf[tok]) - 1)
    BY <1>1, <1>5 DEF After
  <2>2. StateAt(tok, o) = "opt" /\ StateAt(tok, 0) = "data"
    BY <1>5 DEF StateAt
  <2>3. i.state = "opt"
    BY <2>2 DEF Parser
  <2>4. Swallowed(i, f) /\ f.t.state = "data" /\ f.t.size = i.size /\ f.t.announced = i.announced
        /\ Answered(i, f, WireOf[tok][3])
    BY <1>0, <1>1, <2>3, OptByte
  <2> HIDE DEF f
  <2>5. f.t.size = NewSize(tok, o, i.size)
    BY <1>0, <2>4 DEF NewSize
  <2>6. Moves(tok, o, i, f)
    BY <1>0, <1>5, <2>1, <2>2, <2>4, <2>5, LaterMoves
  <2> QED
    BY <2>1, <2>6 DEF f
<1> QED
  BY <1>2, <1>3, <1>4, <1>5

LEMMA NineOf ==
  \A u, a, b, c, e, f, g, h, j, k :
    u = <<a, b, c, e, f, g, h, j, k>> =>
      /\ Len(u) = 9 /\ u[1] = a /\ u[2] = b /\ u[3] = c /\ u[4] = e /\ u[5] = f /\ u[6] = g /\ u[7] = h
      /\ u[8] = j /\ u[9] = k
OBVIOUS

LEMMA EightOf ==
  \A u, a, b, c, e, f, g, h, j :
    u = <<a, b, c, e, f, g, h, j>> =>
      u[1] = a /\ u[2] = b /\ u[3] = c /\ u[4] = e /\ u[5] = f /\ u[6] = g /\ u[7] = h /\ u[8] = j
OBVIOUS

LEMMA TenOf ==
  \A u, a, b, c, e, f, g, h, j, k, l :
    u = <<a, b, c, e, f, g, h, j, k, l>> =>
      /\ Len(u) = 10 /\ u[1] = a /\ u[2] = b /\ u[3] = c /\ u[4] = e /\ u[5] = f /\ u[6] = g /\ u[7] = h
      /\ u[8] = j /\ u[9] = k /\ u[10] = l
OBVIOUS

LEMMA FiveOf ==
  \A u, a, b, c, e, f :
    u = <<a, b, c, e, f>> => Len(u) = 5 /\ u[1] = a /\ u[2] = b /\ u[3] = c /\ u[4] = e /\ u[5] = f
OBVIOUS

\* The bytes of a window size, the doubled 255 counted once.
LEMMA PayloadIs ==
  ASSUME NEW tok \in Reports
  PROVE  /\ Payload[tok] \in Seq(Bytes) /\ Len(Payload[tok]) = 5 /\ Payload[tok][1] = NAWS /\ Payload[tok][2] = 0
         /\ Payload[tok][3] = (IF tok = "naws255" THEN IAC ELSE 80) /\ Payload[tok][4] = 0
         /\ Payload[tok][5] = (IF tok = "nawsNoRows" THEN 0 ELSE 24)
<1>1. /\ Payload["naws80"] = <<NAWS, 0, 80, 0, 24>> /\ Payload["naws255"] = <<NAWS, 0, IAC, 0, 24>>
      /\ Payload["nawsNoRows"] = <<NAWS, 0, 80, 0, 0>>
  BY DEF Payload
<1>2. <<NAWS, 0, 80, 0, 24>> \in Seq(Bytes) /\ <<NAWS, 0, IAC, 0, 24>> \in Seq(Bytes) /\ <<NAWS, 0, 80, 0, 0>> \in Seq(Bytes)
  BY SomeBytes
<1> DEFINE p == Payload[tok]
<1>3. CASE tok = "naws80"
  <2>1. p = <<NAWS, 0, 80, 0, 24>>
    BY <1>1, <1>3
  <2> HIDE DEF p
  <2>2. Len(p) = 5 /\ p[1] = NAWS /\ p[2] = 0 /\ p[3] = 80 /\ p[4] = 0 /\ p[5] = 24
    BY <2>1, FiveOf
  <2> QED
    BY <1>2, <1>3, <2>1, <2>2 DEF p
<1>4. CASE tok = "naws255"
  <2>1. p = <<NAWS, 0, IAC, 0, 24>>
    BY <1>1, <1>4
  <2> HIDE DEF p
  <2>2. Len(p) = 5 /\ p[1] = NAWS /\ p[2] = 0 /\ p[3] = IAC /\ p[4] = 0 /\ p[5] = 24
    BY <2>1, FiveOf
  <2> QED
    BY <1>2, <1>4, <2>1, <2>2 DEF p
<1>5. CASE tok = "nawsNoRows"
  <2>1. p = <<NAWS, 0, 80, 0, 0>>
    BY <1>1, <1>5
  <2> HIDE DEF p
  <2>2. Len(p) = 5 /\ p[1] = NAWS /\ p[2] = 0 /\ p[3] = 80 /\ p[4] = 0 /\ p[5] = 0
    BY <2>1, FiveOf
  <2> QED
    BY <1>2, <1>5, <2>1, <2>2 DEF p
<1> QED
  BY <1>3, <1>4, <1>5 DEF Reports

\* The byte after the oth of a report, and what the parser makes of it.
Row(tok, o, b) ==
  \/ o = 1 /\ b = SB /\ After(tok, o) = 2 /\ ReportStates[tok][1] = "iac" /\ ReportStates[tok][2] = "sb" /\ Gathered[tok][2] = 0
  \/ /\ o >= 2 /\ After(tok, o) = o + 1 /\ ReportStates[tok][o + 1] = "sb"
     /\ (ReportStates[tok][o] = "sb" /\ b # IAC) \/ (ReportStates[tok][o] = "sbiac" /\ b # SE)
     /\ Gathered[tok][o] \in 0..4 /\ Gathered[tok][o + 1] = Gathered[tok][o] + 1 /\ b = Payload[tok][Gathered[tok][o] + 1]
  \/ /\ o >= 2 /\ After(tok, o) = o + 1 /\ b = IAC /\ ReportStates[tok][o] = "sb" /\ ReportStates[tok][o + 1] = "sbiac"
     /\ Gathered[tok][o + 1] = Gathered[tok][o]
  \/ o >= 2 /\ After(tok, o) = 0 /\ b = SE /\ ReportStates[tok][o] = "sbiac" /\ Gathered[tok][o] = 5

\* Where the parser is inside a window size, byte by byte.
LEMMA Rows80 ==
  ASSUME Set, NEW tok \in Tokens, tok \in {"naws80", "nawsNoRows"}, NEW o \in 1..8
  PROVE  Len(WireOf[tok]) = 9 /\ Row(tok, o, WireOf[tok][o + 1]) /\ WireOf[tok][o + 1] \in Bytes
<1> DEFINE u == WireOf[tok]
           s == ReportStates[tok]
           g == Gathered[tok]
           p == Payload[tok]
<1>1. \E last \in {0, 24} : u = <<IAC, SB, NAWS, 0, 80, 0, last, IAC, SE>> /\ p[5] = last
  <2>1. u = Telnet[tok]
    BY WireLengths, WireIs DEF Commands, Reports
  <2>2. CASE tok = "naws80"
    <3>1. u = <<IAC, SB, NAWS, 0, 80, 0, 24, IAC, SE>> /\ p[5] = 24
      BY <2>1, <2>2, TelnetIs, PayloadIs DEF Reports
    <3> QED
      BY <3>1
  <2>3. CASE tok = "nawsNoRows"
    <3>1. u = <<IAC, SB, NAWS, 0, 80, 0, 0, IAC, SE>> /\ p[5] = 0
      BY <2>1, <2>3, TelnetIs, PayloadIs DEF Reports
    <3> QED
      BY <3>1
  <2> QED
    BY <2>2, <2>3
<1>2. s = <<"iac", "sb", "sb", "sb", "sb", "sb", "sb", "sbiac">> /\ g = <<0, 0, 1, 2, 3, 4, 5, 5>>
  BY DEF ReportStates, Gathered
<1>3. p[1] = NAWS /\ p[2] = 0 /\ p[3] = 80 /\ p[4] = 0
  BY PayloadIs DEF Reports
<1> HIDE DEF u, s, g, p
<1>4. s[1] = "iac" /\ s[2] = "sb" /\ s[3] = "sb" /\ s[4] = "sb" /\ s[5] = "sb" /\ s[6] = "sb" /\ s[7] = "sb" /\ s[8] = "sbiac"
  BY <1>2, EightOf
<1>5. g[1] = 0 /\ g[2] = 0 /\ g[3] = 1 /\ g[4] = 2 /\ g[5] = 3 /\ g[6] = 4 /\ g[7] = 5 /\ g[8] = 5
  BY <1>2, EightOf
<1>6. /\ Len(u) = 9 /\ u[2] = SB /\ u[3] = NAWS /\ u[4] = 0 /\ u[5] = 80 /\ u[6] = 0 /\ u[7] \in {0, 24} /\ u[7] = p[5]
      /\ u[8] = IAC /\ u[9] = SE
  <2>1. PICK last \in {0, 24} : u = <<IAC, SB, NAWS, 0, 80, 0, last, IAC, SE>> /\ p[5] = last
    BY <1>1
  <2> QED
    BY <2>1, NineOf
<1>7. NAWS # IAC /\ 0 # IAC /\ 80 # IAC /\ 24 # IAC
  BY DEF NAWS, IAC
<1>8. After(tok, o) = IF o < 8 THEN o + 1 ELSE 0
  BY <1>6 DEF After, u
<1>9. u[o + 1] \in Bytes
  <2>1. o + 1 \in {2, 3, 4, 5, 6, 7, 8, 9}
    OBVIOUS
  <2> QED
    BY <1>6, <2>1, SomeBytes
<1>10. Row(tok, o, u[o + 1])
  <2>1. CASE o = 1
    BY <1>4, <1>5, <1>6, <1>8, <2>1 DEF Row, s, g
  <2>2. CASE o = 2
    BY <1>3, <1>4, <1>5, <1>6, <1>7, <1>8, <2>2 DEF Row, s, g, p
  <2>3. CASE o = 3
    BY <1>3, <1>4, <1>5, <1>6, <1>7, <1>8, <2>3 DEF Row, s, g, p
  <2>4. CASE o = 4
    BY <1>3, <1>4, <1>5, <1>6, <1>7, <1>8, <2>4 DEF Row, s, g, p
  <2>5. CASE o = 5
    BY <1>3, <1>4, <1>5, <1>6, <1>7, <1>8, <2>5 DEF Row, s, g, p
  <2>6. CASE o = 6
    BY <1>3, <1>4, <1>5, <1>6, <1>7, <1>8, <2>6 DEF Row, s, g, p
  <2>7. CASE o = 7
    BY <1>4, <1>5, <1>6, <1>8, <2>7 DEF Row, s, g
  <2>8. CASE o = 8
    BY <1>4, <1>5, <1>6, <1>8, <2>8 DEF Row, s, g
  <2> QED
    BY <2>1, <2>2, <2>3, <2>4, <2>5, <2>6, <2>7, <2>8
<1> QED
  BY <1>6, <1>9, <1>10 DEF u

LEMMA Rows255 ==
  ASSUME Set, "naws255" \in Tokens, NEW o \in 1..9
  PROVE  Len(WireOf["naws255"]) = 10 /\ Row("naws255", o, WireOf["naws255"][o + 1]) /\ WireOf["naws255"][o + 1] \in Bytes
<1> DEFINE u == WireOf["naws255"]
           s == ReportStates["naws255"]
           g == Gathered["naws255"]
           p == Payload["naws255"]
<1>1. u = <<IAC, SB, NAWS, 0, IAC, IAC, 0, 24, IAC, SE>>
  <2>1. u = Telnet["naws255"]
    BY WireLengths, WireIs DEF Commands, Reports
  <2> QED
    BY <2>1, TelnetIs
<1>2. s = <<"iac", "sb", "sb", "sb", "sbiac", "sb", "sb", "sb", "sbiac">> /\ g = <<0, 0, 1, 2, 2, 3, 4, 5, 5>>
  BY DEF ReportStates, Gathered
<1>3. p[1] = NAWS /\ p[2] = 0 /\ p[3] = IAC /\ p[4] = 0 /\ p[5] = 24
  BY PayloadIs DEF Reports
<1> HIDE DEF u, s, g, p
<1>4. /\ s[1] = "iac" /\ s[2] = "sb" /\ s[3] = "sb" /\ s[4] = "sb" /\ s[5] = "sbiac" /\ s[6] = "sb" /\ s[7] = "sb"
      /\ s[8] = "sb" /\ s[9] = "sbiac"
  BY <1>2, NineOf
<1>5. g[1] = 0 /\ g[2] = 0 /\ g[3] = 1 /\ g[4] = 2 /\ g[5] = 2 /\ g[6] = 3 /\ g[7] = 4 /\ g[8] = 5 /\ g[9] = 5
  BY <1>2, NineOf
<1>6. /\ Len(u) = 10 /\ u[2] = SB /\ u[3] = NAWS /\ u[4] = 0 /\ u[5] = IAC /\ u[6] = IAC /\ u[7] = 0 /\ u[8] = 24
      /\ u[9] = IAC /\ u[10] = SE
  BY <1>1, TenOf
<1>7. NAWS # IAC /\ 0 # IAC /\ 24 # IAC /\ IAC # SE
  BY DEF NAWS, IAC, SE
<1>8. After("naws255", o) = IF o < 9 THEN o + 1 ELSE 0
  BY <1>6 DEF After, u
<1>9. u[o + 1] \in Bytes
  <2>1. o + 1 \in {2, 3, 4, 5, 6, 7, 8, 9, 10}
    OBVIOUS
  <2> QED
    BY <1>6, <2>1, SomeBytes
<1>10. Row("naws255", o, u[o + 1])
  <2>1. CASE o = 1
    BY <1>4, <1>5, <1>6, <1>8, <2>1 DEF Row, s, g
  <2>2. CASE o = 2
    BY <1>3, <1>4, <1>5, <1>6, <1>7, <1>8, <2>2 DEF Row, s, g, p
  <2>3. CASE o = 3
    BY <1>3, <1>4, <1>5, <1>6, <1>7, <1>8, <2>3 DEF Row, s, g, p
  <2>4. CASE o = 4
    BY <1>4, <1>5, <1>6, <1>8, <2>4 DEF Row, s, g
  <2>5. CASE o = 5
    BY <1>3, <1>4, <1>5, <1>6, <1>7, <1>8, <2>5 DEF Row, s, g, p
  <2>6. CASE o = 6
    BY <1>3, <1>4, <1>5, <1>6, <1>7, <1>8, <2>6 DEF Row, s, g, p
  <2>7. CASE o = 7
    BY <1>3, <1>4, <1>5, <1>6, <1>7, <1>8, <2>7 DEF Row, s, g, p
  <2>8. CASE o = 8
    BY <1>4, <1>5, <1>6, <1>8, <2>8 DEF Row, s, g
  <2>9. CASE o = 9
    BY <1>4, <1>5, <1>6, <1>8, <2>9 DEF Row, s, g
  <2> QED
    BY <2>1, <2>2, <2>3, <2>4, <2>5, <2>6, <2>7, <2>8, <2>9
<1> QED
  BY <1>6, <1>9, <1>10 DEF u

LEMMA GatherOne ==
  ASSUME NEW tok \in Reports, NEW n \in 0..4
  PROVE  SubSeq(Payload[tok], 1, n + 1) = Append(SubSeq(Payload[tok], 1, n), Payload[tok][n + 1])
<1> DEFINE p == Payload[tok]
<1>1. p \in Seq(Bytes) /\ Len(p) = 5
  BY PayloadIs
<1> HIDE DEF p
<1>2. n + 1 \in 1..Len(p) /\ 1 \in 1..Len(p) /\ (n + 1) - 1 = n
  BY <1>1
<1>3. SubSeq(p, 1, n + 1) = SubSeq(p, 1, n) \o <<p[n + 1]>>
  BY <1>1, <1>2, SubSeqRecursiveSecond
<1>a. p[n + 1] \in Bytes
  BY <1>1, <1>2, ElementOfSeq
<1>b. \A k \in 1..n : p[k] \in Bytes
  <2>1. \A k \in 1..n : k \in 1..Len(p)
    BY <1>1
  <2> QED
    BY <1>1, <2>1, ElementOfSeq
<1>c. SubSeq(p, 1, n) \in Seq(Bytes)
  <2>1. 1 \in Int /\ n \in Int
    OBVIOUS
  <2> QED
    BY <1>b, <2>1, SubSeqProperties
<1>4. SubSeq(p, 1, n) \in Seq(Bytes) /\ p[n + 1] \in Bytes
  BY <1>a, <1>c
<1> QED
  BY <1>3, <1>4, AppendIsConcat DEF p

\* A window size of 0 rows is not taken over; any other is.
LEMMA WindowIs ==
  ASSUME NEW tok \in Reports, NEW i, i.sb = Payload[tok]
  PROVE  SizeAfter(i) = IF tok = "nawsNoRows" THEN i.size ELSE [cols |-> Windows[tok][1], rows |-> Windows[tok][2]]
<1>1. /\ Len(i.sb) = 5 /\ i.sb[1] = NAWS /\ i.sb[2] = 0
      /\ i.sb[3] = (IF tok = "naws255" THEN IAC ELSE 80) /\ i.sb[4] = 0
      /\ i.sb[5] = (IF tok = "nawsNoRows" THEN 0 ELSE 24)
  BY PayloadIs
<1>2. Windows["naws80"] = <<80, 24>> /\ Windows["naws255"] = <<255, 24>>
  BY DEF Windows
<1>3. CASE tok = "naws80"
  <2>1. i.sb[2] * 256 + i.sb[3] = 80 /\ i.sb[4] * 256 + i.sb[5] = 24
    BY <1>1, <1>3
  <2>2. Windows[tok][1] = 80 /\ Windows[tok][2] = 24
    BY <1>2, <1>3
  <2>3. Len(i.sb) >= 5 /\ i.sb[1] = NAWS /\ IsSize(80, 24)
    BY <1>1 DEF IsSize
  <2> QED
    BY <1>3, <2>1, <2>2, <2>3 DEF SizeAfter
<1>4. CASE tok = "naws255"
  <2>1. i.sb[2] * 256 + i.sb[3] = 255 /\ i.sb[4] * 256 + i.sb[5] = 24
    BY <1>1, <1>4 DEF IAC
  <2>2. Windows[tok][1] = 255 /\ Windows[tok][2] = 24
    BY <1>2, <1>4
  <2>3. Len(i.sb) >= 5 /\ i.sb[1] = NAWS /\ IsSize(255, 24)
    BY <1>1 DEF IsSize
  <2> QED
    BY <1>4, <2>1, <2>2, <2>3 DEF SizeAfter
<1>5. CASE tok = "nawsNoRows"
  <2>1. i.sb[4] * 256 + i.sb[5] = 0
    BY <1>1, <1>5
  <2>2. \A c : ~IsSize(c, 0)
    BY DEF IsSize
  <2> QED
    BY <1>5, <2>1, <2>2 DEF SizeAfter
<1> QED
  BY <1>3, <1>4, <1>5 DEF Reports

\* A window size moves the parser by one byte at a time.
LEMMA ReportMoves ==
  ASSUME Set, NEW tok \in Tokens, tok \in Reports, NEW o \in 0..(Len(WireOf[tok]) - 1), NEW i \in Inputs,
         Parser(tok, o, i)
  PROVE  Moves(tok, o, i, ByteIn(mode, eol, i, WireOf[tok][o + 1]))
<1>0. tok \in Commands /\ tok \notin Negotiations /\ tok # "goAhead" /\ tok # "ff" /\ mode # "raw"
  <2>1. tok \in Commands /\ tok \notin Negotiations /\ tok # "goAhead" /\ tok # "ff"
    BY Kinds
  <2> QED
    BY <2>1, TokensAre
<1>1. CASE o = 0
  BY <1>0, <1>1, FirstMoves
<1>2. CASE o # 0
  <2> DEFINE b == WireOf[tok][o + 1]
             f == ByteIn(mode, eol, i, b)
  <2>0. o \in 1..(Len(WireOf[tok]) - 1) /\ (Len(WireOf[tok]) = 9 \/ Len(WireOf[tok]) = 10)
    BY <1>2, WireLengths DEF Reports
  <2>1. Row(tok, o, b) /\ b \in Bytes
    <3>1. CASE tok \in {"naws80", "nawsNoRows"}
      <4>0. Len(WireOf[tok]) = 9
        BY <3>1, WireLengths
      <4>1. o \in 1..8
        BY <2>0, <4>0
      <4> QED
        BY <3>1, <4>1, Rows80
    <3>2. CASE tok = "naws255"
      <4>0. Len(WireOf[tok]) = 10
        BY <3>2, WireLengths
      <4>1. o \in 1..9
        BY <2>0, <4>0
      <4> QED
        BY <3>2, <4>1, Rows255
    <3> QED
      BY <3>1, <3>2 DEF Reports
  <2> HIDE DEF b, f
  <2> SUFFICES Moves(tok, o, i, f)
    BY DEF f, b
  <2>2. \A x : x # 0 => StateAt(tok, x) = ReportStates[tok][x]
    BY <1>0 DEF StateAt
  <2>3. StateAt(tok, 0) = "data"
    BY DEF StateAt
  <2>4. i.state = ReportStates[tok][o] /\ (o >= 2 => i.sb = SubSeq(Payload[tok], 1, Gathered[tok][o]))
    BY <1>2, <2>2 DEF Parser
  <2>5. ASSUME StateAt(tok, o) # "data", Swallowed(i, f), Quiet(i, f), After(tok, o) # 0,
               f.t.state = StateAt(tok, After(tok, o)),
               f.t.sb = SubSeq(Payload[tok], 1, Gathered[tok][After(tok, o)])
        PROVE  Moves(tok, o, i, f)
    <3>1. f.t.size = NewSize(tok, o, i.size) /\ f.t.announced = i.announced /\ f.rep = <<>> /\ f.t.will = i.will
          /\ f.t.do = i.do
      BY <2>5 DEF NewSize, Quiet, Keeps
    <3> QED
      BY <1>0, <2>0, <2>5, <3>1, LaterMoves
  <2>6. CASE o = 1 /\ b = SB /\ After(tok, o) = 2 /\ ReportStates[tok][1] = "iac" /\ ReportStates[tok][2] = "sb"
             /\ Gathered[tok][2] = 0
    <3>1. Swallowed(i, f) /\ Quiet(i, f) /\ f.t.state = "sb" /\ f.t.sb = <<>>
      BY <1>0, <2>4, <2>6, SbByte DEF f
    <3>2. SubSeq(Payload[tok], 1, 0) = <<>>
      BY SubSeqEmpty
    <3>3. f.t.sb = SubSeq(Payload[tok], 1, Gathered[tok][After(tok, o)])
      BY <2>6, <3>1, <3>2
    <3>4. StateAt(tok, o) = "iac" /\ After(tok, o) # 0 /\ StateAt(tok, After(tok, o)) = "sb"
      BY <2>2, <2>6
    <3> QED
      BY <2>5, <3>1, <3>3, <3>4
  <2>7. CASE /\ o >= 2 /\ After(tok, o) = o + 1 /\ ReportStates[tok][o + 1] = "sb"
             /\ (ReportStates[tok][o] = "sb" /\ b # IAC) \/ (ReportStates[tok][o] = "sbiac" /\ b # SE)
             /\ Gathered[tok][o] \in 0..4 /\ Gathered[tok][o + 1] = Gathered[tok][o] + 1
             /\ b = Payload[tok][Gathered[tok][o] + 1]
    <3>1. Swallowed(i, f) /\ Quiet(i, f) /\ f.t.state = "sb" /\ f.t.sb = Append(i.sb, b)
      BY <1>0, <2>1, <2>4, <2>7, SbDataByte DEF f
    <3>2. SubSeq(Payload[tok], 1, Gathered[tok][o] + 1) = Append(SubSeq(Payload[tok], 1, Gathered[tok][o]), b)
      BY <2>7, GatherOne
    <3>3. f.t.sb = SubSeq(Payload[tok], 1, Gathered[tok][After(tok, o)])
      BY <2>4, <2>7, <3>1, <3>2
    <3>4. After(tok, o) # 0 /\ o # 0
      BY <2>7
    <3>5. StateAt(tok, o) # "data" /\ StateAt(tok, After(tok, o)) = "sb"
      BY <2>2, <2>7, <3>4
    <3> QED
      BY <2>5, <3>1, <3>3, <3>4, <3>5
  <2>8. CASE /\ o >= 2 /\ After(tok, o) = o + 1 /\ b = IAC /\ ReportStates[tok][o] = "sb"
             /\ ReportStates[tok][o + 1] = "sbiac" /\ Gathered[tok][o + 1] = Gathered[tok][o]
    <3>1. Swallowed(i, f) /\ Quiet(i, f) /\ f.t.state = "sbiac" /\ f.t.sb = i.sb
      BY <1>0, <2>4, <2>8, SbIacByte DEF f
    <3>3. f.t.sb = SubSeq(Payload[tok], 1, Gathered[tok][After(tok, o)])
      BY <2>4, <2>8, <3>1
    <3>4. After(tok, o) # 0 /\ o # 0
      BY <2>8
    <3>5. StateAt(tok, o) # "data" /\ StateAt(tok, After(tok, o)) = "sbiac"
      BY <2>2, <2>8, <3>4
    <3> QED
      BY <2>5, <3>1, <3>3, <3>4, <3>5
  <2>9. CASE o >= 2 /\ After(tok, o) = 0 /\ b = SE /\ ReportStates[tok][o] = "sbiac" /\ Gathered[tok][o] = 5
    <3>1. /\ Swallowed(i, f) /\ f.rep = <<>> /\ f.t.state = "data" /\ f.t.size = SizeAfter(i)
          /\ f.t.will = i.will /\ f.t.do = i.do /\ f.t.announced = i.announced
      BY <1>0, <2>4, <2>9, SeByte DEF f
    <3>2. i.sb = Payload[tok]
      <4>1. Payload[tok] \in Seq(Bytes) /\ Len(Payload[tok]) = 5
        BY PayloadIs
      <4>2. SubSeq(Payload[tok], 1, 5) = Payload[tok]
        BY <4>1, SubSeqFull
      <4> QED
        BY <2>4, <2>9, <4>2
    <3>3. f.t.size = NewSize(tok, o, i.size)
      BY <2>9, <3>1, <3>2, WindowIs DEF NewSize, Reports
    <3>4. StateAt(tok, o) # "data" /\ StateAt(tok, After(tok, o)) = "data"
      BY <1>2, <2>2, <2>3, <2>9
    <3> QED
      BY <1>0, <2>0, <2>9, <3>1, <3>3, <3>4, LaterMoves
  <2> QED
    BY <2>1, <2>6, <2>7, <2>8, <2>9 DEF Row
<1> QED
  BY <1>1, <1>2

\* Every byte of every token.
LEMMA TokenMoves ==
  ASSUME Set, NEW tok \in Tokens, NEW o \in 0..(Len(WireOf[tok]) - 1), NEW i \in Inputs, Parser(tok, o, i)
  PROVE  Moves(tok, o, i, ByteIn(mode, eol, i, WireOf[tok][o + 1]))
<1>1. CASE tok \in KeyTokens \cup {"x", "esc"}
  BY <1>1, TypedMoves
<1>2. CASE tok \in {"enter", "ctrlJ"}
  BY <1>2, EnterMoves
<1>3. CASE tok = "ff"
  BY <1>3, FfMoves
<1>4. CASE tok = "goAhead"
  BY <1>4, GoAheadMoves
<1>5. CASE tok \in Negotiations
  BY <1>5, NegotiationMoves
<1>6. CASE tok \in Reports
  BY <1>6, ReportMoves
<1> QED
  BY <1>1, <1>2, <1>3, <1>4, <1>5, <1>6, TokensAre DEF TokenNames, Commands

\* Between two tokens the parser does not depend on the token.
Between(i) == i.state = "data" /\ (mode = "telnet" => i.announced) /\ (i.lastCR => enter = "cr")

LEMMA ParserBetween == ASSUME NEW tok, NEW i PROVE Parser(tok, 0, i) <=> Between(i)
<1>1. StateAt(tok, 0) = "data"
  BY DEF StateAt
<1>2. ~(0 >= 2) /\ 0 # 2 /\ 0 # 1
  OBVIOUS
<1> QED
  BY <1>1, <1>2 DEF Parser, Between

--------------------------------------------------------------------------------
(* The console bytes of a token that has been read in part.                *)

Partly(tok, o) ==
  IF o = 0 \/ tok \in Commands \cup {"ff"} THEN <<>>
  ELSE IF tok \in {"enter", "ctrlJ"} /\ eol # "raw" THEN emitEOL(eol)
  ELSE SubSeq(WireOf[tok], 1, o)

\* The bytes a token has yielded so far, and those its next byte yields, are what it
\* means once its last byte is read.
LEMMA YieldAdds ==
  ASSUME Set, NEW tok \in Tokens, NEW o \in 0..(Len(WireOf[tok]) - 1)
  PROVE  /\ Partly(tok, o) \in Seq(Bytes) /\ Yield(tok, o) \in Seq(Bytes)
         /\ Partly(tok, o) \o Yield(tok, o) = IF After(tok, o) = 0 THEN MeantOf[tok] ELSE Partly(tok, After(tok, o))
<1> DEFINE u == WireOf[tok]
<1>1. u \in Seq(Bytes) /\ u = Wire(tok) /\ Len(u) \in Nat /\ MeantOf[tok] = Meant(tok)
  BY WireText, LenProperties DEF WireOf, MeantOf, Text
<1>2. o \in Nat /\ After(tok, o) = (IF o + 1 < Len(u) THEN o + 1 ELSE 0) /\ o + 1 \in 1..Len(u) /\ o + 1 # 0
  BY <1>1 DEF After
<1>3. u[o + 1] \in Bytes
  BY <1>1, <1>2, ElementOfSeq
<1> HIDE DEF u
<1>4. <<>> \in Seq(Bytes) /\ <<IAC>> \in Seq(Bytes) /\ <<u[o + 1]>> \in Seq(Bytes)
  BY <1>3, SomeBytes
<1>5. \A x \in Seq(Bytes) : x \o <<>> = x /\ <<>> \o x = x
  OBVIOUS
<1>6. CASE tok \in Commands
  <2>1. Partly(tok, o) = <<>> /\ Yield(tok, o) = <<>> /\ Partly(tok, After(tok, o)) = <<>> /\ MeantOf[tok] = <<>>
    BY <1>1, <1>6, WireIs DEF Partly, Yield
  <2> QED
    BY <1>4, <1>5, <2>1
<1>7. CASE tok = "ff"
  <2>1. /\ Partly(tok, o) = <<>> /\ Yield(tok, o) = (IF After(tok, o) = 0 THEN <<IAC>> ELSE <<>>)
        /\ Partly(tok, After(tok, o)) = <<>> /\ MeantOf[tok] = <<IAC>>
    BY <1>1, <1>7, WireIs, Kinds DEF Partly, Yield
  <2> QED
    BY <1>4, <1>5, <2>1
<1>8. CASE tok \in {"enter", "ctrlJ"} /\ eol # "raw"
  <2>0. emitEOL(eol) \in Seq(Bytes) /\ tok \notin Commands \cup {"ff"}
    BY <1>8, EolIs, Kinds DEF Set, EolNames
  <2>1. /\ Partly(tok, o) = (IF o = 0 THEN <<>> ELSE emitEOL(eol))
        /\ Yield(tok, o) = (IF o = 0 THEN emitEOL(eol) ELSE <<>>)
        /\ (After(tok, o) # 0 => Partly(tok, After(tok, o)) = emitEOL(eol)) /\ MeantOf[tok] = emitEOL(eol)
    BY <1>1, <1>8, <2>0, WireIs DEF Partly, Yield
  <2>2. CASE o = 0
    BY <1>4, <1>5, <2>0, <2>1, <2>2
  <2>3. CASE o # 0
    BY <1>4, <1>5, <2>0, <2>1, <2>3
  <2> QED
    BY <2>2, <2>3
<1>9. CASE tok \notin Commands \cup {"ff"} /\ ~(tok \in {"enter", "ctrlJ"} /\ eol # "raw")
  <2>1. MeantOf[tok] = u
    <3>1. CASE tok \in {"enter", "ctrlJ"}
      BY <1>1, <1>9, <3>1, WireIs
    <3>2. CASE tok \in KeyTokens \cup {"x", "esc"}
      BY <1>1, <1>9, <3>2, WireIs
    <3> QED
      BY <1>9, <3>1, <3>2, TokensAre DEF TokenNames
  <2>2. Yield(tok, o) = <<u[o + 1]>>
    BY <1>9 DEF Yield, u
  <2>3. \A n \in Nat : Partly(tok, n) = SubSeq(u, 1, n)
    <3>1. SubSeq(u, 1, 0) = <<>>
      BY SubSeqEmpty
    <3> QED
      BY <1>9, <3>1 DEF Partly, u
  <2>4. SubSeq(u, 1, o + 1) = SubSeq(u, 1, o) \o <<u[o + 1]>>
    <3>1. 1 \in 1..Len(u) /\ (o + 1) - 1 = o
      BY <1>1, <1>2
    <3> QED
      BY <1>1, <1>2, <3>1, SubSeqRecursiveSecond
  <2>5. SubSeq(u, 1, Len(u)) = u
    BY <1>1, SubSeqFull
  <2>6. SubSeq(u, 1, o) \in Seq(Bytes)
    <3>1. 1 \in Int /\ o \in Int
      BY <1>2
    <3>2. \A k \in 1..o : u[k] \in Bytes
      <4>1. \A k \in 1..o : k \in 1..Len(u)
        BY <1>1, <1>2
      <4> QED
        BY <1>1, <4>1, ElementOfSeq
    <3> QED
      BY <3>1, <3>2, SubSeqProperties
  <2>7. o + 1 < Len(u) => After(tok, o) = o + 1 /\ After(tok, o) # 0 /\ o + 1 \in Nat
    BY <1>2
  <2>8. ~(o + 1 < Len(u)) => After(tok, o) = 0 /\ o + 1 = Len(u)
    BY <1>1, <1>2
  <2>9. Partly(tok, o) \o Yield(tok, o) = SubSeq(u, 1, o + 1)
    BY <1>2, <2>2, <2>3, <2>4
  <2>10. Partly(tok, o) \in Seq(Bytes) /\ Yield(tok, o) \in Seq(Bytes)
    <3>1. Partly(tok, o) = SubSeq(u, 1, o)
      BY <1>2, <2>3
    <3>2. <<u[o + 1]>> \in Seq(Bytes)
      BY <1>2, <1>4
    <3> QED
      BY <2>2, <2>6, <3>1, <3>2, Zenon
  <2>11. CASE o + 1 < Len(u)
    <3>1. Partly(tok, After(tok, o)) = SubSeq(u, 1, o + 1) /\ After(tok, o) # 0
      BY <2>3, <2>7, <2>11, ZenonT(30)
    <3> QED
      BY <2>9, <2>10, <3>1, Zenon
  <2>12. CASE ~(o + 1 < Len(u))
    BY <2>1, <2>5, <2>8, <2>9, <2>10, <2>12, ZenonT(30)
  <2> QED
    BY <2>11, <2>12
<1> QED
  BY <1>6, <1>7, <1>8, <1>9

\* What the first k + 1 tokens stand for.
LEMMA FlatNext ==
  ASSUME tokens \in Seq(Tokens), NEW k \in 0..Len(tokens), k < Len(tokens), NEW S, NEW w, IsMap(w, Tokens, Seq(S))
  PROVE  /\ Flat(w, Beginning(k)) \in Seq(S) /\ w[tokens[k + 1]] \in Seq(S)
         /\ Flat(w, Beginning(k + 1)) = Flat(w, Beginning(k)) \o w[tokens[k + 1]]
<1> DEFINE s == Beginning(k)
           x == tokens[k + 1]
           A == Tokens
<1>1. s \in Seq(A) /\ x \in A /\ Beginning(k + 1) = Append(s, x) /\ IsMap(w, A, Seq(S))
  BY BeginningIs
<1> HIDE DEF s, x, A
<1>2. Flat(w, s) \in Seq(S) /\ w[x] \in Seq(S) /\ Flat(w, Append(s, x)) = Flat(w, s) \o w[x]
  BY <1>1, FlatAppend
<1> QED
  BY <1>1, <1>2 DEF s, x

\* The place after the next byte.
NextK(k, o) == IF After(tokens[k + 1], o) = 0 THEN k + 1 ELSE k
NextO(k, o) == After(tokens[k + 1], o)

ConsoleAt(raw, k, o) == raw = Flat(MeantOf, Beginning(k)) \o Partly(tokens[k + 1], o)

LEMMA PartlyNothing == \A tok : Partly(tok, 0) = <<>>
BY DEF Partly

\* The console has received what the tokens read so far mean, and one byte later still.
LEMMA ConsoleNext ==
  ASSUME Set, tokens \in Seq(Tokens), NEW k \in 0..Len(tokens), k < Len(tokens),
         NEW o \in 0..(Len(WireOf[tokens[k + 1]]) - 1), NEW raw, ConsoleAt(raw, k, o)
  PROVE  ConsoleAt(raw \o Yield(tokens[k + 1], o), NextK(k, o), NextO(k, o))
<1> DEFINE tok == tokens[k + 1]
           f == Flat(MeantOf, Beginning(k))
           p == Partly(tok, o)
           v == Yield(tok, o)
           q == Partly(tok, After(tok, o))
<1>1. tok \in Tokens
  BY BeginningIs
<1>2. p \in Seq(Bytes) /\ v \in Seq(Bytes) /\ p \o v = IF After(tok, o) = 0 THEN MeantOf[tok] ELSE q
  BY <1>1, YieldAdds
<1>3. f \in Seq(Bytes) /\ MeantOf[tok] \in Seq(Bytes) /\ Flat(MeantOf, Beginning(k + 1)) = f \o MeantOf[tok]
  <2>1. IsMap(MeantOf, Tokens, Seq(Bytes))
    BY MapsAre
  <2> QED
    BY <2>1, FlatNext
<1>4. raw = f \o p
  BY DEF ConsoleAt
<1> HIDE DEF f, p, v, q, tok
<1>5. (f \o p) \o v = f \o (p \o v)
  <2>1. f \in Seq(Bytes) /\ p \in Seq(Bytes) /\ v \in Seq(Bytes)
    BY <1>2, <1>3
  <2> QED
    BY <2>1, AssocBytes, Zenon
<1>6. CASE After(tok, o) = 0
  <2>1. (f \o MeantOf[tok]) \o <<>> = f \o MeantOf[tok]
    <3>1. f \o MeantOf[tok] \in Seq(Bytes)
      BY <1>3, ConcatProperties
    <3> QED
      BY <3>1, ConcatEmptySeq
  <2>2. NextK(k, o) = k + 1 /\ NextO(k, o) = 0
    BY <1>6 DEF NextK, NextO, tok
  <2>3. raw \o v = (f \o MeantOf[tok]) \o <<>>
    BY <1>2, <1>4, <1>5, <1>6, <2>1
  <2>4. Partly(tokens[NextK(k, o) + 1], 0) = <<>>
    BY PartlyNothing
  <2> QED
    BY <1>3, <2>2, <2>3, <2>4 DEF ConsoleAt, v, tok
<1>7. CASE After(tok, o) # 0
  <2>1. NextK(k, o) = k /\ NextO(k, o) = After(tok, o)
    BY <1>7 DEF NextK, NextO, tok
  <2>2. raw \o v = f \o q
    BY <1>2, <1>4, <1>5, <1>7
  <2> QED
    BY <2>1, <2>2 DEF ConsoleAt, f, q, v, tok
<1> QED
  BY <1>6, <1>7

--------------------------------------------------------------------------------
(* The last window size reported.                                          *)

Reported(k) == {i \in 1..k : tokens[i] \in {"naws80", "naws255"}}

SizeAt(k) ==
  IF Reported(k) = {} THEN NoSize
  ELSE [cols |-> Windows[tokens[Max(Reported(k))]][1], rows |-> Windows[tokens[Max(Reported(k))]][2]]

\* The window size after a token is the last one reported.
LEMMA SizeNext ==
  ASSUME NEW k \in Nat, NEW o
  PROVE  /\ Reported(0) = {}
         /\ NewSize(tokens[k + 1], o, SizeAt(k)) = SizeAt(NextK(k, o))
<1>1. Reported(0) = {}
  BY DEF Reported
<1> DEFINE tok == tokens[k + 1]
<1>2. CASE After(tok, o) # 0
  BY <1>1, <1>2 DEF NewSize, NextK
<1>3. CASE After(tok, o) = 0 /\ tok \in {"naws80", "naws255"}
  <2> DEFINE R == Reported(k + 1)
  <2>1. k + 1 \in R /\ R \in SUBSET (1..(k + 1)) /\ k + 1 \in Nat /\ R # {}
    BY <1>3 DEF Reported
  <2>2. Max(R) \in R /\ \A y \in R : Max(R) >= y
    BY <2>1, MaxIs
  <2>3. Max(R) = k + 1
    <3> DEFINE m == Max(R)
    <3>1. m \in 1..(k + 1) /\ m >= k + 1
      BY <2>1, <2>2
    <3> HIDE DEF m, R
    <3>2. m = k + 1
      BY <3>1
    <3> QED
      BY <3>2 DEF m
  <2>4. SizeAt(k + 1) = [cols |-> Windows[tok][1], rows |-> Windows[tok][2]]
    BY <2>1, <2>3 DEF SizeAt
  <2> QED
    BY <1>1, <1>3, <2>4 DEF NewSize, NextK
<1>4. CASE After(tok, o) = 0 /\ tok \notin {"naws80", "naws255"}
  <2>1. Reported(k + 1) = Reported(k)
    <3>1. ASSUME NEW i PROVE i \in Reported(k + 1) <=> i \in Reported(k)
      <4>1. i \in 1..(k + 1) <=> i \in 1..k \/ i = k + 1
        OBVIOUS
      <4> QED
        BY <1>4, <4>1 DEF Reported
    <3> QED
      BY <3>1
  <2> QED
    BY <1>1, <1>4, <2>1 DEF NewSize, NextK, SizeAt
<1> QED
  BY <1>2, <1>3, <1>4

--------------------------------------------------------------------------------
(* What has been said about an option.                                     *)

Alternates(rep, opt, side) ==
  \A i, j \in About(rep, opt, side) :
    i < j /\ (\A k \in About(rep, opt, side) : k <= i \/ j <= k) => Said(rep, i) # Said(rep, j)

\* A side the gateway supports: on, if it is on now, is what was said last.
Agreed(rep, opt, on, yes, no) ==
  /\ \A i \in About(rep, opt, {yes, no}) : Said(rep, i) \in {yes, no}
  /\ Alternates(rep, opt, {yes, no})
  /\ on <=> About(rep, opt, {yes, no}) # {} /\ Said(rep, Max(About(rep, opt, {yes, no}))) = yes

\* A side it does not support: nothing but refusals.
Denied(rep, opt, yes, no) == \A i \in About(rep, opt, {yes, no}) : Said(rep, i) = no

Triples(rep, n) == rep \in Seq(Bytes) /\ n \in Nat /\ Len(rep) = 3 * n

LEMMA AboutIs ==
  ASSUME NEW rep, NEW n, Triples(rep, n), NEW opt, NEW side
  PROVE  About(rep, opt, side) = {i \in 1..n : rep[3 * i] = opt /\ Said(rep, i) \in side}
<1>1. n \in Nat /\ Len(rep) = 3 * n
  BY DEF Triples
<1>2. \A i : i \in 1..(3 * n) /\ 3 * i <= 3 * n <=> i \in 1..n
  BY <1>1
<1> QED
  BY <1>1, <1>2 DEF About

LEMMA ConcatBytes ==
  \A x, y \in Seq(Bytes) :
    /\ x \o y \in Seq(Bytes) /\ Len(x \o y) = Len(x) + Len(y)
    /\ \A i \in 1..(Len(x) + Len(y)) : (x \o y)[i] = IF i <= Len(x) THEN x[i] ELSE y[i - Len(x)]
BY ConcatProperties

\* r is rep and one reply more.
OneMore(r, rep, n, v, o) ==
  /\ Triples(r, n + 1) /\ Said(r, n + 1) = v /\ r[3 * (n + 1)] = o
  /\ \A i \in 1..n : Said(r, i) = Said(rep, i) /\ r[3 * i] = rep[3 * i]

\* One reply more about an option.
LEMMA SaidMore ==
  ASSUME NEW rep, NEW n, Triples(rep, n), NEW v \in Bytes, NEW o \in Bytes
  PROVE  OneMore(rep \o Said3(v, o), rep, n, v, o)
<1> DEFINE u == Said3(v, o)
           r == rep \o u
<1>1. rep \in Seq(Bytes) /\ n \in Nat /\ Len(rep) = 3 * n
  BY DEF Triples
<1>2. u \in Seq(Bytes) /\ Len(u) = 3 /\ u[2] = v /\ u[3] = o
  BY SomeBytes DEF Said3
<1> HIDE DEF u
<1>3. /\ r \in Seq(Bytes) /\ Len(r) = Len(rep) + Len(u)
      /\ \A i \in 1..(Len(rep) + Len(u)) : r[i] = IF i <= Len(rep) THEN rep[i] ELSE u[i - Len(rep)]
  BY <1>1, <1>2, ConcatProperties
<1> HIDE DEF r
<1>4. Len(r) = 3 * (n + 1) /\ n + 1 \in Nat
  BY <1>1, <1>2, <1>3
<1>5. r[3 * n + 2] = v /\ r[3 * n + 3] = o
  <2>1. /\ 3 * n + 2 \in 1..(3 * n + 3) /\ ~(3 * n + 2 <= 3 * n) /\ (3 * n + 2) - 3 * n = 2
        /\ 3 * n + 3 \in 1..(3 * n + 3) /\ ~(3 * n + 3 <= 3 * n) /\ (3 * n + 3) - 3 * n = 3
    BY <1>1
  <2> QED
    BY <1>1, <1>2, <1>3, <2>1
<1>6. 3 * (n + 1) = 3 * n + 3 /\ 3 * (n + 1) - 1 = 3 * n + 2
  BY <1>1
<1>7. ASSUME NEW i \in 1..n PROVE r[3 * i - 1] = rep[3 * i - 1] /\ r[3 * i] = rep[3 * i]
  <2>1. /\ 3 * i - 1 \in 1..(3 * n + 3) /\ 3 * i - 1 <= 3 * n
        /\ 3 * i \in 1..(3 * n + 3) /\ 3 * i <= 3 * n
    BY <1>1
  <2> QED
    BY <1>1, <1>2, <1>3, <2>1
<1> QED
  BY <1>3, <1>4, <1>5, <1>6, <1>7 DEF OneMore, Triples, Said, r, u

\* A reply about another option or the other side leaves the agreement about this one as
\* it was; a reply about this one, made only when it changes, turns it over.
LEMMA AgreedOther ==
  ASSUME NEW rep, NEW n, Triples(rep, n), NEW v \in Bytes, NEW o \in Bytes, NEW opt,
         NEW on, NEW yes, NEW no, opt # o \/ v \notin {yes, no}, Agreed(rep, opt, on, yes, no)
  PROVE  Agreed(rep \o Said3(v, o), opt, on, yes, no)
<1> DEFINE r == rep \o Said3(v, o)
<1>1. /\ Triples(r, n + 1) /\ Said(r, n + 1) = v /\ r[3 * (n + 1)] = o
      /\ \A i \in 1..n : Said(r, i) = Said(rep, i) /\ r[3 * i] = rep[3 * i]
  <2>1. OneMore(r, rep, n, v, o)
    BY SaidMore
  <2> HIDE DEF r
  <2> QED
    BY <2>1 DEF OneMore
<1> HIDE DEF r
<1> DEFINE side == {yes, no}
<1>a. opt # o \/ v \notin side
  OBVIOUS
<1> HIDE DEF side
<1>2. /\ About(rep, opt, side) = {i \in 1..n : rep[3 * i] = opt /\ Said(rep, i) \in side}
      /\ About(r, opt, side) = {i \in 1..(n + 1) : r[3 * i] = opt /\ Said(r, i) \in side}
  BY <1>1, AboutIs
<1>3. n \in Nat
  BY DEF Triples
<1>4. About(r, opt, side) = About(rep, opt, side)
  <2>1. ASSUME NEW i PROVE i \in About(r, opt, side) <=> i \in About(rep, opt, side)
    <3>1. i \in 1..(n + 1) <=> i \in 1..n \/ i = n + 1
      BY <1>3
    <3> QED
      BY <1>1, <1>a, <1>2, <3>1
  <2> QED
    BY <2>1
<1> DEFINE A == About(rep, opt, side)
<1>5. \A i \in A : Said(r, i) = Said(rep, i)
  BY <1>1, <1>2
<1>6. A # {} => Max(A) \in A
  BY <1>2, <1>3, MaxIs
<1> HIDE DEF A
<1>7. /\ \A i \in A : Said(rep, i) \in {yes, no}
      /\ \A i, j \in A : i < j /\ (\A k \in A : k <= i \/ j <= k) => Said(rep, i) # Said(rep, j)
      /\ on <=> A # {} /\ Said(rep, Max(A)) = yes
  BY DEF Agreed, Alternates, A, side
<1>8. /\ \A i \in A : Said(r, i) \in {yes, no}
      /\ \A i, j \in A : i < j /\ (\A k \in A : k <= i \/ j <= k) => Said(r, i) # Said(r, j)
  BY <1>5, <1>7
<1>9. on <=> A # {} /\ Said(r, Max(A)) = yes
  BY <1>5, <1>6, <1>7
<1>10. About(r, opt, side) = A
  BY <1>4 DEF A
<1> QED
  BY <1>8, <1>9, <1>10 DEF Agreed, Alternates, r, side

\* What is said changes what is on.
LEMMA DeniedMore ==
  ASSUME NEW rep, NEW n, Triples(rep, n), NEW v \in Bytes, NEW o \in Bytes, NEW opt,
         NEW yes, NEW no, opt # o \/ v # yes, Denied(rep, opt, yes, no)
  PROVE  Denied(rep \o Said3(v, o), opt, yes, no)
<1> DEFINE r == rep \o Said3(v, o)
<1>1. OneMore(r, rep, n, v, o)
  BY SaidMore
<1> HIDE DEF r
<1>2. ASSUME NEW i \in About(r, opt, {yes, no}) PROVE Said(r, i) = no
  <2>1. i \in 1..(n + 1) /\ r[3 * i] = opt /\ Said(r, i) \in {yes, no}
    BY <1>1, AboutIs DEF OneMore
  <2>2. CASE i \in 1..n
    <3>1. Said(r, i) = Said(rep, i) /\ r[3 * i] = rep[3 * i]
      BY <1>1, <2>2 DEF OneMore
    <3>2. i \in About(rep, opt, {yes, no})
      BY <2>1, <2>2, <3>1, AboutIs
    <3> QED
      BY <3>1, <3>2 DEF Denied
  <2>3. CASE i = n + 1
    BY <1>1, <2>1, <2>3 DEF OneMore
  <2>4. i \in 1..n \/ i = n + 1
    BY <2>1 DEF Triples
  <2> QED
    BY <2>2, <2>3, <2>4
<1> QED
  BY <1>2 DEF Denied, r

\* What is said changes what is on.
LEMMA AgreedMore ==
  ASSUME NEW rep, NEW n, Triples(rep, n), NEW opt \in Bytes, NEW yes \in Bytes, NEW no \in Bytes, yes # no,
         NEW on \in BOOLEAN, Agreed(rep, opt, on, yes, no)
  PROVE  Agreed(rep \o Said3(IF on THEN no ELSE yes, opt), opt, ~on, yes, no)
<1> DEFINE v == IF on THEN no ELSE yes
           r == rep \o Said3(v, opt)
           side == {yes, no}
           A == About(rep, opt, side)
           B == About(r, opt, side)
<1>0. v \in Bytes /\ v \in {yes, no} /\ v \in side /\ (v = yes <=> ~on)
  OBVIOUS
<1> HIDE DEF v, side
<1>1. /\ Triples(r, n + 1) /\ Said(r, n + 1) = v /\ r[3 * (n + 1)] = opt
      /\ \A i \in 1..n : Said(r, i) = Said(rep, i) /\ r[3 * i] = rep[3 * i]
  <2>1. OneMore(r, rep, n, v, opt)
    BY <1>0, SaidMore
  <2> HIDE DEF r
  <2> QED
    BY <2>1 DEF OneMore
<1> HIDE DEF r
<1>2. /\ A = {i \in 1..n : rep[3 * i] = opt /\ Said(rep, i) \in side}
      /\ B = {i \in 1..(n + 1) : r[3 * i] = opt /\ Said(r, i) \in side}
  BY <1>1, AboutIs
<1>3. n \in Nat
  BY DEF Triples
<1>7. /\ \A i \in A : Said(rep, i) \in {yes, no}
      /\ \A i, j \in A : i < j /\ (\A k \in A : k <= i \/ j <= k) => Said(rep, i) # Said(rep, j)
      /\ on <=> A # {} /\ Said(rep, Max(A)) = yes
  BY DEF Agreed, Alternates, side
<1> HIDE DEF A, B
<1>4. B = A \cup {n + 1}
  <2>1. ASSUME NEW i PROVE i \in B <=> i \in A \/ i = n + 1
    <3>1. i \in 1..(n + 1) <=> i \in 1..n \/ i = n + 1
      BY <1>3
    <3>2. n + 1 \in 1..(n + 1)
      BY <1>3
    <3> QED
      BY <1>0, <1>1, <1>2, <3>1, <3>2
  <2> QED
    BY <2>1
<1>5. (\A i \in A : Said(r, i) = Said(rep, i) /\ i \in 1..n) /\ Said(r, n + 1) = v
  BY <1>1, <1>2
<1>6. A # {} => Max(A) \in A /\ \A y \in A : Max(A) >= y
  BY <1>2, <1>3, MaxIs
<1>8. Max(B) = n + 1
  <2>1. B \in SUBSET (1..(n + 1)) /\ B # {} /\ n + 1 \in B /\ n + 1 \in Nat
    BY <1>2, <1>3, <1>4
  <2>2. Max(B) \in B /\ \A y \in B : Max(B) >= y
    BY <2>1, MaxIs
  <2> DEFINE m == Max(B)
  <2>3. m \in 1..(n + 1) /\ m >= n + 1
    BY <2>1, <2>2
  <2> HIDE DEF m
  <2>4. m = n + 1
    BY <1>3, <2>3
  <2> QED
    BY <2>4 DEF m
<1>9. \A i \in B : Said(r, i) \in {yes, no}
  BY <1>0, <1>4, <1>5, <1>7
<1>10. ASSUME NEW i \in B, NEW j \in B, i < j, \A k \in B : k <= i \/ j <= k PROVE Said(r, i) # Said(r, j)
  <2>1. i \in A
    BY <1>3, <1>4, <1>5, <1>10
  <2>2. CASE j \in A
    <3>1. \A k \in A : k <= i \/ j <= k
      BY <1>4, <1>10
    <3> QED
      BY <1>5, <1>7, <1>10, <2>1, <2>2, <3>1
  <2>3. CASE j = n + 1
    <3>1. Max(A) \in A /\ Max(A) >= i /\ Max(A) \in 1..n
      BY <1>5, <1>6, <2>1
    <3>2. Max(A) <= i \/ n + 1 <= Max(A)
      BY <1>4, <1>10, <2>3, <3>1
    <3>3. Max(A) = i
      <4> DEFINE m == Max(A)
      <4>1. m \in 1..n /\ i \in 1..n /\ m >= i /\ (m <= i \/ n + 1 <= m)
        BY <1>5, <2>1, <3>1, <3>2
      <4> HIDE DEF m
      <4>2. m = i
        BY <1>3, <4>1
      <4> QED
        BY <4>2 DEF m
    <3>4. on <=> Said(rep, i) = yes
      BY <1>7, <2>1, <3>3
    <3>5. Said(r, i) = Said(rep, i) /\ Said(rep, i) \in {yes, no}
      BY <1>5, <1>7, <2>1
    <3>6. Said(r, j) = v
      BY <1>5, <2>3
    <3> QED
      BY <1>0, <3>4, <3>5, <3>6
  <2> QED
    BY <1>4, <2>2, <2>3
<1>11. Alternates(r, opt, {yes, no})
  BY <1>10 DEF Alternates, B, side
<1>12. ~on <=> B # {} /\ Said(r, Max(B)) = yes
  BY <1>0, <1>4, <1>5, <1>8
<1>13. Agreed(r, opt, ~on, yes, no)
  BY <1>9, <1>11, <1>12 DEF Agreed, B, side
<1> QED
  BY <1>13 DEF r, v

\* All that has been said about the sides of the options there are.
Talk(i, rep) ==
  /\ \E n : Triples(rep, n)
  /\ ~i.announced => rep = <<>> /\ i.will = {}
  /\ i.will \subseteq {ECHO, SGA} /\ i.do \subseteq {SGA, NAWS}
  /\ \A opt \in {ECHO, SGA} : Agreed(rep, opt, opt \in i.will, WILL, WONT)
  /\ \A opt \in {SGA, NAWS} : Agreed(rep, opt, opt \in i.do, DO, DONT)
  /\ \A opt \in {NAWS, Other} : Denied(rep, opt, WILL, WONT)
  /\ \A opt \in {ECHO, Other} : Denied(rep, opt, DO, DONT)

LEMMA NothingSaid ==
  ASSUME NEW opt, NEW yes, NEW no
  PROVE  Triples(<<>>, 0) /\ Agreed(<<>>, opt, FALSE, yes, no) /\ Denied(<<>>, opt, yes, no)
<1>1. Triples(<<>>, 0)
  BY EmptySeq DEF Triples
<1>2. About(<<>>, opt, {yes, no}) = {}
  BY DEF About
<1> QED
  BY <1>1, <1>2 DEF Agreed, Alternates, Denied

LEMMA TalkSame ==
  ASSUME NEW i, NEW rep, Talk(i, rep), NEW j, i.announced => j.announced, j.will = i.will, j.do = i.do
  PROVE  Talk(j, rep \o <<>>)
<1>1. rep \o <<>> = rep
  <2>1. rep \in Seq(Bytes)
    BY DEF Talk, Triples
  <2> QED
    BY <2>1, ConcatEmptySeq
<1> QED
  BY <1>1 DEF Talk

LEMMA OptionsDiffer ==
  /\ ECHO # SGA /\ ECHO # NAWS /\ SGA # NAWS /\ Other # ECHO /\ Other # SGA /\ Other # NAWS
  /\ WILL # DO /\ WILL # DONT /\ WILL # WONT /\ WONT # DO /\ WONT # DONT /\ DO # DONT
BY DEF ECHO, SGA, NAWS, Other, WILL, WONT, DO, DONT

\* One reply more leaves all other sides as they were, and is itself right if it is a refusal.
LEMMA OtherSides ==
  ASSUME NEW i, NEW rep, Talk(i, rep), NEW v \in Bytes, NEW o \in Bytes
  PROVE  /\ \E n : Triples(rep \o Said3(v, o), n)
         /\ \A opt \in {ECHO, SGA} :
              opt # o \/ v \notin {WILL, WONT} => Agreed(rep \o Said3(v, o), opt, opt \in i.will, WILL, WONT)
         /\ \A opt \in {SGA, NAWS} :
              opt # o \/ v \notin {DO, DONT} => Agreed(rep \o Said3(v, o), opt, opt \in i.do, DO, DONT)
         /\ \A opt \in {NAWS, Other} : opt # o \/ v # WILL => Denied(rep \o Said3(v, o), opt, WILL, WONT)
         /\ \A opt \in {ECHO, Other} : opt # o \/ v # DO => Denied(rep \o Said3(v, o), opt, DO, DONT)
<1>1. PICK n : Triples(rep, n)
  BY DEF Talk
<1>2. Triples(rep \o Said3(v, o), n + 1)
  BY <1>1, SaidMore DEF OneMore
<1>3. ASSUME NEW opt \in {ECHO, SGA}, opt # o \/ v \notin {WILL, WONT}
      PROVE  Agreed(rep \o Said3(v, o), opt, opt \in i.will, WILL, WONT)
  <2>1. Agreed(rep, opt, opt \in i.will, WILL, WONT)
    BY DEF Talk
  <2> QED
    BY <1>1, <1>3, <2>1, AgreedOther
<1>4. ASSUME NEW opt \in {SGA, NAWS}, opt # o \/ v \notin {DO, DONT}
      PROVE  Agreed(rep \o Said3(v, o), opt, opt \in i.do, DO, DONT)
  <2>1. Agreed(rep, opt, opt \in i.do, DO, DONT)
    BY DEF Talk
  <2> QED
    BY <1>1, <1>4, <2>1, AgreedOther
<1>5. ASSUME NEW opt \in {NAWS, Other}, opt # o \/ v # WILL PROVE Denied(rep \o Said3(v, o), opt, WILL, WONT)
  <2>1. Denied(rep, opt, WILL, WONT)
    BY DEF Talk
  <2> QED
    BY <1>1, <1>5, <2>1, DeniedMore
<1>6. ASSUME NEW opt \in {ECHO, Other}, opt # o \/ v # DO PROVE Denied(rep \o Said3(v, o), opt, DO, DONT)
  <2>1. Denied(rep, opt, DO, DONT)
    BY DEF Talk
  <2> QED
    BY <1>1, <1>6, <2>1, DeniedMore
<1> QED
  BY <1>2, <1>3, <1>4, <1>5, <1>6

\* The gateway turns one of its own options on or off, and says so.
LEMMA OwnTurns ==
  ASSUME NEW i, NEW rep, Talk(i, rep), NEW b \in {ECHO, SGA}, NEW j, j.announced, j.do = i.do,
         j.will = IF b \in i.will THEN i.will \ {b} ELSE i.will \cup {b}
  PROVE  Talk(j, rep \o Said3(IF b \in i.will THEN WONT ELSE WILL, b))
<1> DEFINE on == b \in i.will
           v  == IF on THEN WONT ELSE WILL
           r  == rep \o Said3(v, b)
<1>1. v \in Bytes /\ v \in {WILL, WONT} /\ v \notin {DO, DONT} /\ b \in Bytes
  BY SomeBytes, OptionsDiffer
<1>2. /\ \E n : Triples(r, n)
      /\ \A opt \in {ECHO, SGA} : opt # b \/ v \notin {WILL, WONT} => Agreed(r, opt, opt \in i.will, WILL, WONT)
      /\ \A opt \in {SGA, NAWS} : opt # b \/ v \notin {DO, DONT} => Agreed(r, opt, opt \in i.do, DO, DONT)
      /\ \A opt \in {NAWS, Other} : opt # b \/ v # WILL => Denied(r, opt, WILL, WONT)
      /\ \A opt \in {ECHO, Other} : opt # b \/ v # DO => Denied(r, opt, DO, DONT)
  <2> HIDE DEF v
  <2> QED
    BY <1>1, OtherSides
<1>3. Agreed(r, b, ~on, WILL, WONT)
  <2>1. PICK n : Triples(rep, n)
    BY DEF Talk
  <2>2. Agreed(rep, b, on, WILL, WONT)
    BY DEF Talk
  <2>3. on \in BOOLEAN
    OBVIOUS
  <2> HIDE DEF on
  <2> QED
    BY <1>1, <2>1, <2>2, <2>3, AgreedMore, SomeBytes, OptionsDiffer
<1>4. (b \in j.will <=> ~on) /\ (\A opt : opt # b => (opt \in j.will <=> opt \in i.will))
  OBVIOUS
<1>5. j.will \subseteq {ECHO, SGA} /\ j.do \subseteq {SGA, NAWS}
  BY DEF Talk
<1>6. b # NAWS /\ b # Other
  BY OptionsDiffer
<1> HIDE DEF r, v, on
<1>7. \A opt \in {ECHO, SGA} : Agreed(r, opt, opt \in j.will, WILL, WONT)
  <2> TAKE opt \in {ECHO, SGA}
  <2>1. CASE opt = b
    BY <1>3, <1>4, <2>1 DEF Agreed
  <2>2. CASE opt # b
    <3>1. Agreed(r, opt, opt \in i.will, WILL, WONT) /\ (opt \in j.will <=> opt \in i.will)
      BY <1>2, <1>4, <2>2
    <3> QED
      BY <3>1 DEF Agreed
  <2> QED
    BY <2>1, <2>2
<1>8. Talk(j, r)
  BY <1>1, <1>2, <1>5, <1>6, <1>7 DEF Talk
<1> QED
  BY <1>8 DEF r, v, on

\* It accepts or stops an option of the terminal, and says so.
LEMMA PeerTurns ==
  ASSUME NEW i, NEW rep, Talk(i, rep), NEW b \in {SGA, NAWS}, NEW j, j.announced, j.will = i.will,
         j.do = IF b \in i.do THEN i.do \ {b} ELSE i.do \cup {b}
  PROVE  Talk(j, rep \o Said3(IF b \in i.do THEN DONT ELSE DO, b))
<1> DEFINE on == b \in i.do
           v  == IF on THEN DONT ELSE DO
           r  == rep \o Said3(v, b)
<1>1. v \in Bytes /\ v \in {DO, DONT} /\ v \notin {WILL, WONT} /\ b \in Bytes
  BY SomeBytes, OptionsDiffer
<1>2. /\ \E n : Triples(r, n)
      /\ \A opt \in {ECHO, SGA} : opt # b \/ v \notin {WILL, WONT} => Agreed(r, opt, opt \in i.will, WILL, WONT)
      /\ \A opt \in {SGA, NAWS} : opt # b \/ v \notin {DO, DONT} => Agreed(r, opt, opt \in i.do, DO, DONT)
      /\ \A opt \in {NAWS, Other} : opt # b \/ v # WILL => Denied(r, opt, WILL, WONT)
      /\ \A opt \in {ECHO, Other} : opt # b \/ v # DO => Denied(r, opt, DO, DONT)
  <2> HIDE DEF v
  <2> QED
    BY <1>1, OtherSides
<1>3. Agreed(r, b, ~on, DO, DONT)
  <2>1. PICK n : Triples(rep, n)
    BY DEF Talk
  <2>2. Agreed(rep, b, on, DO, DONT)
    BY DEF Talk
  <2>3. on \in BOOLEAN
    OBVIOUS
  <2> HIDE DEF on
  <2> QED
    BY <1>1, <2>1, <2>2, <2>3, AgreedMore, SomeBytes, OptionsDiffer
<1>4. (b \in j.do <=> ~on) /\ (\A opt : opt # b => (opt \in j.do <=> opt \in i.do))
  OBVIOUS
<1>5. j.will \subseteq {ECHO, SGA} /\ j.do \subseteq {SGA, NAWS}
  BY DEF Talk
<1>6. b # ECHO /\ b # Other
  BY OptionsDiffer
<1> HIDE DEF r, v, on
<1>7. \A opt \in {SGA, NAWS} : Agreed(r, opt, opt \in j.do, DO, DONT)
  <2> TAKE opt \in {SGA, NAWS}
  <2>1. CASE opt = b
    BY <1>3, <1>4, <2>1 DEF Agreed
  <2>2. CASE opt # b
    <3>1. Agreed(r, opt, opt \in i.do, DO, DONT) /\ (opt \in j.do <=> opt \in i.do)
      BY <1>2, <1>4, <2>2
    <3> QED
      BY <3>1 DEF Agreed
  <2> QED
    BY <2>1, <2>2
<1>8. Talk(j, r)
  BY <1>1, <1>2, <1>5, <1>6, <1>7 DEF Talk
<1> QED
  BY <1>8 DEF r, v, on

\* It refuses what it does not support.
LEMMA Refusals ==
  ASSUME NEW i, NEW rep, Talk(i, rep), NEW v, NEW b \in Bytes,
         \/ v = WONT /\ b \notin {ECHO, SGA}
         \/ v = DONT /\ b \notin {SGA, NAWS},
         NEW j, j.announced, j.will = i.will, j.do = i.do
  PROVE  Talk(j, rep \o Said3(v, b))
<1> DEFINE r == rep \o Said3(v, b)
<1>1. v \in Bytes /\ v # WILL /\ v # DO
  BY SomeBytes, OptionsDiffer
<1>2. /\ \E n : Triples(r, n)
      /\ \A opt \in {ECHO, SGA} : opt # b \/ v \notin {WILL, WONT} => Agreed(r, opt, opt \in i.will, WILL, WONT)
      /\ \A opt \in {SGA, NAWS} : opt # b \/ v \notin {DO, DONT} => Agreed(r, opt, opt \in i.do, DO, DONT)
      /\ \A opt \in {NAWS, Other} : opt # b \/ v # WILL => Denied(r, opt, WILL, WONT)
      /\ \A opt \in {ECHO, Other} : opt # b \/ v # DO => Denied(r, opt, DO, DONT)
  BY <1>1, OtherSides
<1> HIDE DEF r
<1>3. (v \notin {WILL, WONT} \/ b \notin {ECHO, SGA}) /\ (v \notin {DO, DONT} \/ b \notin {SGA, NAWS})
  BY OptionsDiffer
<1>4. j.will \subseteq {ECHO, SGA} /\ j.do \subseteq {SGA, NAWS}
  BY DEF Talk
<1>5. Talk(j, r)
  BY <1>1, <1>2, <1>3, <1>4 DEF Talk
<1> QED
  BY <1>5 DEF r

\* The greeting offers ECHO and SGA, once.
LEMMA TalkGreeting ==
  ASSUME NEW i, NEW rep, Talk(i, rep), ~i.announced, NEW j, j.announced, j.will = i.will \cup {ECHO, SGA}, j.do = i.do
  PROVE  Talk(j, rep \o Greeting)
<1> DEFINE q == <<>> \o Said3(WILL, ECHO)
           r == q \o Said3(WILL, SGA)
           k == [announced |-> TRUE, will |-> {ECHO}, do |-> i.do]
<1>1. rep = <<>> /\ i.will = {}
  BY DEF Talk
<1>2. r = Greeting /\ rep \o Greeting = Greeting
  <2>1. q = <<IAC, WILL, ECHO>>
    BY DEF Said3
  <2>2. <<IAC, WILL, ECHO>> \o <<IAC, WILL, SGA>> = <<IAC, WILL, ECHO, IAC, WILL, SGA>>
    <3> DEFINE u == <<IAC, WILL, ECHO>>
               v == <<IAC, WILL, SGA>>
               w == <<IAC, WILL, ECHO, IAC, WILL, SGA>>
    <3>1. /\ u \in Seq(Bytes) /\ Len(u) = 3 /\ u[1] = IAC /\ u[2] = WILL /\ u[3] = ECHO
          /\ v \in Seq(Bytes) /\ Len(v) = 3 /\ v[1] = IAC /\ v[2] = WILL /\ v[3] = SGA
          /\ w \in Seq(Bytes) /\ Len(w) = 6 /\ w[1] = IAC /\ w[2] = WILL /\ w[3] = ECHO
          /\ w[4] = IAC /\ w[5] = WILL /\ w[6] = SGA
      BY SomeBytes
    <3> HIDE DEF u, v, w
    <3>2. /\ u \o v \in Seq(Bytes) /\ Len(u \o v) = Len(u) + Len(v)
          /\ \A x \in 1..(Len(u) + Len(v)) : (u \o v)[x] = IF x <= Len(u) THEN u[x] ELSE v[x - Len(u)]
      BY <3>1, ConcatBytes, Zenon
    <3> DEFINE c == u \o v
    <3>3. /\ c \in Seq(Bytes) /\ Len(c) = 6 /\ c[1] = u[1] /\ c[2] = u[2] /\ c[3] = u[3] /\ c[4] = v[1]
          /\ c[5] = v[2] /\ c[6] = v[3]
      BY <3>1, <3>2
    <3> HIDE DEF c
    <3>4. \A x \in 1..6 : c[x] = w[x]
      <4>1. \A x \in 1..6 : x \in {1, 2, 3, 4, 5, 6}
        OBVIOUS
      <4> QED
        BY <3>1, <3>3, <4>1
    <3>5. c \in Seq(Bytes) /\ w \in Seq(Bytes) /\ Len(c) = Len(w) /\ \A x \in 1..Len(c) : c[x] = w[x]
      BY <3>1, <3>3, <3>4
    <3>6. c = w
      BY <3>5, SeqEqual, Zenon
    <3> QED
      BY <3>6 DEF c, u, v, w
  <2>3. r = Greeting
    BY <2>1, <2>2 DEF Said3, Greeting
  <2>4. Greeting \in Seq(Bytes)
    BY SomeBytes DEF Greeting
  <2>5. <<>> \o Greeting = Greeting
    BY <2>4, ConcatEmptySeq
  <2> QED
    BY <1>1, <2>3, <2>5
<1>3. k.announced /\ k.will = {ECHO} /\ k.do = i.do
  OBVIOUS
<1> HIDE DEF k
<1>4. Talk(k, q)
  <2>1. ECHO \notin i.will /\ k.will = i.will \cup {ECHO}
    BY <1>1, <1>3
  <2>2. Talk(k, rep \o Said3(WILL, ECHO))
    BY <1>3, <2>1, OwnTurns
  <2> QED
    BY <1>1, <2>2
<1> HIDE DEF q
<1>5. Talk(j, r)
  <2>1. SGA \notin k.will /\ j.will = k.will \cup {SGA} /\ j.do = k.do
    BY <1>1, <1>3, OptionsDiffer
  <2> QED
    BY <1>4, <2>1, OwnTurns
<1> QED
  BY <1>2, <1>5

\* An answer to a request or an offer about any option.
LEMMA TalkAnswer ==
  ASSUME NEW i, NEW rep, Talk(i, rep), i.announced, i.cmd \in Verbs, NEW b \in Bytes,
         NEW f, Answered(i, f, b), f.t.announced
  PROVE  Talk(f.t, rep \o f.rep)
<1>1. ASSUME f.rep = <<>>, f.t.will = i.will, f.t.do = i.do PROVE Talk(f.t, rep \o f.rep)
  BY <1>1, TalkSame
<1>2. i.will \subseteq {ECHO, SGA} /\ i.do \subseteq {SGA, NAWS}
  BY DEF Talk
<1>3. CASE i.cmd = DO /\ b \in {ECHO, SGA}
  <2>1. CASE b \in i.will
    BY <1>1, <1>3, <2>1 DEF Answered
  <2>2. CASE b \notin i.will
    <3>1. f.t.do = i.do /\ f.rep = Said3(WILL, b) /\ f.t.will = i.will \cup {b}
      BY <1>3, <2>2 DEF Answered
    <3> QED
      BY <1>3, <2>2, <3>1, OwnTurns
  <2> QED
    BY <2>1, <2>2
<1>4. CASE i.cmd = DO /\ b \notin {ECHO, SGA}
  <2>1. f.t.do = i.do /\ f.t.will = i.will /\ f.rep = Said3(WONT, b)
    BY <1>4 DEF Answered
  <2> QED
    BY <1>4, <2>1, Refusals
<1>5. CASE i.cmd = DONT
  <2>1. CASE b \notin i.will
    BY <1>1, <1>5, <2>1 DEF Answered
  <2>2. CASE b \in i.will
    <3>1. f.t.do = i.do /\ f.rep = Said3(WONT, b) /\ f.t.will = i.will \ {b} /\ b \in {ECHO, SGA}
      BY <1>2, <1>5, <2>2 DEF Answered
    <3> QED
      BY <2>2, <3>1, OwnTurns
  <2> QED
    BY <2>1, <2>2
<1>6. CASE i.cmd = WILL /\ b \in {SGA, NAWS}
  <2>1. CASE b \in i.do
    BY <1>1, <1>6, <2>1 DEF Answered
  <2>2. CASE b \notin i.do
    <3>1. f.t.will = i.will /\ f.rep = Said3(DO, b) /\ f.t.do = i.do \cup {b}
      BY <1>6, <2>2 DEF Answered
    <3> QED
      BY <1>6, <2>2, <3>1, PeerTurns
  <2> QED
    BY <2>1, <2>2
<1>7. CASE i.cmd = WILL /\ b \notin {SGA, NAWS}
  <2>1. f.t.do = i.do /\ f.t.will = i.will /\ f.rep = Said3(DONT, b)
    BY <1>7 DEF Answered
  <2> QED
    BY <1>7, <2>1, Refusals
<1>8. CASE i.cmd = WONT
  <2>1. CASE b \notin i.do
    BY <1>1, <1>8, <2>1 DEF Answered
  <2>2. CASE b \in i.do
    <3>1. f.t.will = i.will /\ f.rep = Said3(DONT, b) /\ f.t.do = i.do \ {b} /\ b \in {SGA, NAWS}
      BY <1>2, <1>8, <2>2 DEF Answered
    <3> QED
      BY <2>2, <3>1, PeerTurns
  <2> QED
    BY <2>1, <2>2
<1> QED
  BY <1>3, <1>4, <1>5, <1>6, <1>7, <1>8 DEF Verbs

\* One byte keeps what has been said and what holds together.
LEMMA TalkNext ==
  ASSUME Set, NEW tok \in Tokens, NEW o, NEW i, NEW f, Negotiates(tok, o, i, f), NEW rep, Talk(i, rep)
  PROVE  Talk(f.t, rep \o f.rep)
<1>1. CASE tok \in Commands \cup {"ff"} /\ mode # "raw" /\ o = 0
  <2>1. /\ f.t.do = i.do /\ f.t.announced
        /\ IF mode = "auto" /\ ~i.announced THEN f.rep = Greeting /\ f.t.will = i.will \cup {ECHO, SGA}
           ELSE f.rep = <<>> /\ f.t.will = i.will
    BY <1>1 DEF Negotiates
  <2>2. CASE mode = "auto" /\ ~i.announced
    BY <2>1, <2>2, TalkGreeting
  <2>3. CASE ~(mode = "auto" /\ ~i.announced)
    BY <2>1, <2>3, TalkSame
  <2> QED
    BY <2>2, <2>3
<1>2. CASE ~(tok \in Commands \cup {"ff"} /\ mode # "raw" /\ o = 0) /\ tok \in Negotiations /\ o = 2
  <2>1. i.cmd = WireOf[tok][2] /\ Answered(i, f, WireOf[tok][3]) /\ f.t.announced /\ i.announced
    BY <1>2 DEF Negotiates
  <2>2. WireOf[tok][2] \in Verbs /\ WireOf[tok][3] \in Bytes
    BY <1>2, RequestIs
  <2> QED
    BY <2>1, <2>2, TalkAnswer
<1>3. CASE ~(tok \in Commands \cup {"ff"} /\ mode # "raw" /\ o = 0) /\ ~(tok \in Negotiations /\ o = 2)
  <2>1. f.rep = <<>> /\ f.t.will = i.will /\ f.t.do = i.do /\ f.t.announced = i.announced
    BY <1>3 DEF Negotiates
  <2> QED
    BY <2>1, TalkSame
<1> QED
  BY <1>1, <1>2, <1>3

--------------------------------------------------------------------------------
(* The keys.                                                               *)

\* The keys are those of got, or will be when the read ends: an ESC may be the Esc key.
Ready(q, ks, got) == (q.esc = 0 /\ ks = got) \/ (q.esc = 1 /\ Append(ks, Named("esc")) = got)

\* After o bytes of tok, the keys before it being those of got.
KeysAt(q, ks, tok, o, got) ==
  IF tok \in KeyTokens /\ o # 0
    THEN /\ ks = got /\ q.esc = (IF o = 1 THEN 1 ELSE 2)
         /\ o = 2 => q.param = <<>>
         /\ o = 3 => q.param = <<WireOf[tok][3]>>
    ELSE Ready(q, ks, IF tok = "enter" /\ o # 0 THEN got \o KeysOf[tok] ELSE got)

KeysAfter(r, tok, o, got) ==
  IF After(tok, o) = 0 THEN Ready(r.d, r.keys, got \o KeysOf[tok])
  ELSE KeysAt(r.d, r.keys, tok, After(tok, o), got)

LEMMA KeyOne == ASSUME NEW acc \in Decodings, NEW b \in Bytes PROVE KeyRun(acc, <<b>>) = KeyByte(acc, b)
<1>1. <<>> \in Seq(Bytes) /\ Append(<<>>, b) = <<b>>
  OBVIOUS
<1> QED
  BY <1>1, KeyNil, KeyMore

LEMMA AssocKeys == \A x, y, z \in Seq(KeyEvents) : (x \o y) \o z = x \o (y \o z)
BY Assoc

LEMMA AppendKey == \A x \in Seq(KeyEvents), e \in KeyEvents : Append(x, e) = x \o <<e>> /\ x \o <<>> = x /\ <<>> \o x = x
OBVIOUS

\* A byte of which decodeByte makes the keys x.
LEMMA KeyGives ==
  ASSUME NEW q, NEW ks, NEW b, NEW c, NEW x, decodeByte(q, b) = Decoded(c, x)
  PROVE  LET r == KeyByte(Decoded(q, ks), b) IN r.d = c /\ r.keys = ks \o x
BY DEF KeyByte, Decoded

\* Keys of one byte.
LEMMA PlainKey ==
  ASSUME NEW q \in Decoders, NEW ks \in Seq(KeyEvents), NEW got \in Seq(KeyEvents), Ready(q, ks, got),
         NEW b \in Bytes, b \notin {ESC, Bracket, LetterO}
  PROVE  LET r == KeyByte(Decoded(q, ks), b) IN Ready(r.d, r.keys, got \o emitPlain(b))
<1> DEFINE v == decodeByte(q, b)
           u == emitPlain(b)
           e == Named("esc")
           r == KeyByte(Decoded(q, ks), b)
<1> SUFFICES r.d.esc = 0 /\ r.keys = got \o u
  BY DEF Ready
<1>1. u \in Seq(KeyEvents) /\ e \in KeyEvents /\ <<e>> \in Seq(KeyEvents)
  BY PlainIs, NamedIs DEF KeyKinds
<1>2. CASE q.esc = 0
  <2>1. v = Decoded(q, u)
    BY <1>2 DEF decodeByte
  <2>2. r.d = q /\ r.keys = ks \o u
    BY <2>1, KeyGives
  <2>3. ks = got
    BY <1>2 DEF Ready
  <2> QED
    BY <1>2, <2>2, <2>3
<1>3. CASE q.esc = 1
  <2> DEFINE j == [q EXCEPT !.esc = 0]
  <2>1. v = Decoded(j, <<e>> \o u)
    BY <1>3 DEF decodeByte
  <2>3. got = Append(ks, e)
    BY <1>3 DEF Ready
  <2>4. j.esc = 0
    BY DEF Decoders
  <2> HIDE DEF u, e, j
  <2>2. r.d = j /\ r.keys = ks \o (<<e>> \o u)
    <3> DEFINE x == <<e>> \o u
    <3>1. decodeByte(q, b) = Decoded(j, x)
      BY <2>1
    <3> HIDE DEF x, r
    <3>2. r.d = j /\ r.keys = ks \o x
      BY <3>1, KeyGives DEF r
    <3> QED
      BY <3>2 DEF x
  <2> HIDE DEF r
  <2>5. ks \o (<<e>> \o u) = got \o u
    <3>1. got = ks \o <<e>>
      BY <1>1, <2>3, AppendKey
    <3>2. (ks \o <<e>>) \o u = ks \o (<<e>> \o u)
      BY <1>1, AssocKeys, Zenon
    <3> QED
      BY <3>1, <3>2
  <2> QED
    BY <2>2, <2>4, <2>5
<1> QED
  BY <1>2, <1>3 DEF Ready

LEMMA EscKey ==
  ASSUME NEW q \in Decoders, NEW ks \in Seq(KeyEvents), NEW got \in Seq(KeyEvents), Ready(q, ks, got)
  PROVE  LET r == KeyByte(Decoded(q, ks), ESC) IN r.d.esc = 1 /\ r.keys = got
<1> DEFINE v == decodeByte(q, ESC)
           e == Named("esc")
           r == KeyByte(Decoded(q, ks), ESC)
<1>1. e \in KeyEvents
  BY NamedIs DEF KeyKinds
<1>2. CASE q.esc = 0
  <2> DEFINE j == [q EXCEPT !.esc = 1]
  <2>1. v = Decoded(j, <<>>)
    BY <1>2 DEF decodeByte
  <2>3. ks = got /\ ks \o <<>> = ks
    BY <1>1, <1>2, AppendKey DEF Ready
  <2>4. j.esc = 1
    BY DEF Decoders
  <2> HIDE DEF j
  <2>2. r.d = j /\ r.keys = ks \o <<>>
    BY <2>1, KeyGives
  <2> HIDE DEF r
  <2> QED
    BY <2>2, <2>3, <2>4 DEF r
<1>3. CASE q.esc = 1
  <2>1. v = Decoded(q, <<e>>)
    <3>1. ESC \notin {Bracket, LetterO}
      BY DEF ESC, Bracket, LetterO
    <3> QED
      BY <1>3, <3>1 DEF decodeByte
  <2>2. r.d = q /\ r.keys = ks \o <<e>>
    <3> DEFINE x == <<e>>
    <3>1. decodeByte(q, ESC) = Decoded(q, x)
      BY <2>1
    <3> HIDE DEF x, r
    <3>2. r.d = q /\ r.keys = ks \o x
      BY <3>1, KeyGives DEF r
    <3> QED
      BY <3>2 DEF x
  <2>3. got = Append(ks, e)
    BY <1>3 DEF Ready
  <2> HIDE DEF e, r
  <2>4. ks \o <<e>> = got
    BY <1>1, <2>3, AppendKey
  <2> QED
    BY <1>3, <2>2, <2>4 DEF r
<1> QED
  BY <1>2, <1>3 DEF Ready, r

\* A byte inside the escape sequence of a key.
LEMMA InsideKey ==
  ASSUME NEW q \in Decoders, NEW ks \in Seq(KeyEvents), NEW b \in Bytes
  PROVE  LET r == KeyByte(Decoded(q, ks), b)
         IN /\ q.esc = 1 /\ b = Bracket => r.d.esc = 2 /\ r.d.param = <<>> /\ r.keys = ks
            /\ q.esc = 2 /\ b = 65 => r.d.esc = 0 /\ r.keys = ks \o <<Named("up")>>
            /\ q.esc = 2 /\ b \in {53, 54} => r.d.esc = 2 /\ r.d.param = Append(q.param, b) /\ r.keys = ks
            /\ q.esc = 2 /\ b = Tilde => r.d.esc = 0 /\ r.keys = ks \o PageKey(q.param)
<1> DEFINE v == decodeByte(q, b)
           r == KeyByte(Decoded(q, ks), b)
<1>0. ks \o <<>> = ks
  OBVIOUS
<1>1. \A c, x : v = Decoded(c, x) => r.d = c /\ r.keys = ks \o x
  BY KeyGives
<1>2. ASSUME q.esc = 1, b = Bracket PROVE r.d.esc = 2 /\ r.d.param = <<>> /\ r.keys = ks
  <2>1. v = Decoded([esc |-> 2, param |-> <<>>], <<>>)
    <3>1. b \in {Bracket, LetterO} /\ b # ESC /\ q.esc # 0
      BY <1>2 DEF Bracket, ESC
    <3> QED
      BY <1>2, <3>1 DEF decodeByte, ParamAtStart
  <2> HIDE DEF v, r
  <2> QED
    BY <1>0, <1>1, <2>1
<1>3. ASSUME q.esc = 2, b = 65 PROVE r.d.esc = 0 /\ r.keys = ks \o <<Named("up")>>
  <2>1. b \in 65..68 /\ Arrow(b) = "up"
    BY <1>3 DEF Arrow
  <2>2. v = Decoded([q EXCEPT !.esc = 0], <<Named("up")>>)
    <3>1. b # Tilde /\ b # Semicolon /\ b \notin Digits
      BY <1>3 DEF Tilde, Semicolon, Digits
    <3> QED
      BY <1>3, <2>1, <3>1 DEF decodeByte
  <2>3. [q EXCEPT !.esc = 0].esc = 0
    BY DEF Decoders
  <2> HIDE DEF v, r
  <2> QED
    BY <1>1, <2>2, <2>3
<1>4. ASSUME q.esc = 2, b \in {53, 54} PROVE r.d.esc = 2 /\ r.d.param = Append(q.param, b) /\ r.keys = ks
  <2>1. b \notin 65..68 /\ b # Tilde /\ b # Semicolon /\ b \in Digits
    BY <1>4 DEF Tilde, Semicolon, Digits
  <2>2. v = Decoded([q EXCEPT !.param = Append(@, b)], <<>>)
    BY <1>4, <2>1 DEF decodeByte
  <2> DEFINE j == [q EXCEPT !.param = Append(@, b)]
  <2>3. j.esc = q.esc /\ j.param = Append(q.param, b)
    BY DEF Decoders
  <2> HIDE DEF v, r, j
  <2>4. r.d = j /\ r.keys = ks \o <<>>
    BY <1>1, <2>2 DEF j
  <2> QED
    BY <1>0, <1>4, <2>3, <2>4
<1>5. ASSUME q.esc = 2, b = Tilde PROVE r.d.esc = 0 /\ r.keys = ks \o PageKey(q.param)
  <2>1. b \notin 65..68 /\ b # Semicolon /\ b \notin Digits
    BY <1>5 DEF Tilde, Semicolon, Digits
  <2>2. v = Decoded([q EXCEPT !.esc = 0], PageKey(q.param))
    BY <1>5, <2>1 DEF decodeByte
  <2>3. [q EXCEPT !.esc = 0].esc = 0
    BY DEF Decoders
  <2> HIDE DEF v, r
  <2> QED
    BY <1>1, <2>2, <2>3
<1> QED
  BY <1>2, <1>3, <1>4, <1>5

\* The control TUI has received the keys read so far, and one byte later still.
LEMMA KeyTokenNext ==
  ASSUME Set, NEW tok \in Tokens, tok \in KeyTokens, NEW o \in 0..(Len(WireOf[tok]) - 1), NEW q \in Decoders,
         NEW ks \in Seq(KeyEvents), NEW got \in Seq(KeyEvents), KeysAt(q, ks, tok, o, got)
  PROVE  KeysAfter(KeyRun(Decoded(q, ks), Yield(tok, o)), tok, o, got)
<1> DEFINE u == WireOf[tok]
           b == u[o + 1]
           r == KeyByte(Decoded(q, ks), b)
<1>1. tok \notin Commands \cup {"ff", "enter", "ctrlJ"}
  BY Kinds
<1>2. Decoded(q, ks) \in Decodings
  BY DEF Decoded, Decodings
<1>3. u = EscapeSequences[tok] /\ KeysOf[tok] = <<Named(tok)>>
  BY WireLengths, WireIs DEF KeysOf
<1>4. /\ u[1] = ESC /\ u[2] = Bracket
      /\ tok = "up" => Len(u) = 3 /\ u[3] = 65
      /\ tok # "up" => Len(u) = 4 /\ u[3] = (IF tok = "pgup" THEN 53 ELSE 54) /\ u[4] = Tilde
  <2>1. CASE tok = "up"
    <3>1. u = <<ESC, Bracket, 65>>
      BY <1>3, <2>1, KeySequences
    <3> QED
      BY <2>1, <3>1
  <2>2. CASE tok = "pgup"
    <3>1. u = <<ESC, Bracket, 53, Tilde>>
      BY <1>3, <2>2, KeySequences
    <3> QED
      BY <2>2, <3>1
  <2>3. CASE tok = "pgdn"
    <3>1. u = <<ESC, Bracket, 54, Tilde>>
      BY <1>3, <2>3, KeySequences
    <3> QED
      BY <2>3, <3>1
  <2> QED
    BY <2>1, <2>2, <2>3 DEF KeyTokens
<1> HIDE DEF u
<1>5. o \in {0, 1, 2, 3} /\ (tok = "up" => o # 3)
  <2>1. o \in 0..(Len(u) - 1)
    BY DEF u
  <2>2. Len(u) = 3 => o \in {0, 1, 2}
    BY <2>1
  <2>3. Len(u) = 4 => o \in {0, 1, 2, 3}
    BY <2>1
  <2> QED
    BY <1>4, <2>2, <2>3
<1>6. After(tok, o) = (IF o = 3 \/ (o = 2 /\ tok = "up") THEN 0 ELSE o + 1)
  <2>1. After(tok, o) = IF o + 1 < Len(u) THEN o + 1 ELSE 0
    BY DEF After, u
  <2>2. Len(u) = 3 => (o + 1 < Len(u) <=> o # 2 /\ o # 3)
    BY <1>5
  <2>3. Len(u) = 4 => (o + 1 < Len(u) <=> o # 3)
    BY <1>5
  <2> QED
    BY <1>4, <1>5, <2>1, <2>2, <2>3
<1>7. b \in Bytes
  BY <1>4, <1>5, SomeBytes
<1>8. KeyRun(Decoded(q, ks), Yield(tok, o)) = r
  <2>1. Yield(tok, o) = <<b>>
    BY <1>1 DEF Yield, u
  <2> QED
    BY <1>2, <1>7, <2>1, KeyOne
<1> SUFFICES KeysAfter(r, tok, o, got)
  BY <1>8
<1>9. CASE o = 0
  <2>1. Ready(q, ks, got) /\ b = ESC
    BY <1>1, <1>4, <1>9 DEF KeysAt
  <2>2. r.d.esc = 1 /\ r.keys = got
    BY <2>1, EscKey
  <2>3. After(tok, o) = 1
    BY <1>6, <1>9
  <2> HIDE DEF r
  <2> QED
    BY <2>2, <2>3 DEF KeysAfter, KeysAt
<1>10. CASE o = 1
  <2>1. ks = got /\ q.esc = 1 /\ b = Bracket
    BY <1>4, <1>10 DEF KeysAt
  <2>2. r.d.esc = 2 /\ r.d.param = <<>> /\ r.keys = ks
    BY <1>7, <2>1, InsideKey
  <2>3. After(tok, o) = 2
    BY <1>6, <1>10
  <2> HIDE DEF r, b
  <2> QED
    BY <2>1, <2>2, <2>3 DEF KeysAfter, KeysAt
<1>11. CASE o = 2 /\ tok = "up"
  <2>1. ks = got /\ q.esc = 2 /\ b = 65
    BY <1>4, <1>11 DEF KeysAt
  <2>2. r.d.esc = 0 /\ r.keys = ks \o <<Named("up")>>
    BY <1>7, <2>1, InsideKey
  <2>3. After(tok, o) = 0
    BY <1>6, <1>11
  <2> HIDE DEF r, b
  <2> QED
    BY <1>3, <1>11, <2>1, <2>2, <2>3 DEF KeysAfter, Ready
<1>12. CASE o = 2 /\ tok # "up"
  <2>1. ks = got /\ q.esc = 2 /\ q.param = <<>> /\ b = u[3] /\ b \in {53, 54}
    BY <1>4, <1>12 DEF KeysAt
  <2>2. r.d.esc = 2 /\ r.d.param = Append(q.param, b) /\ r.keys = ks
    BY <1>7, <2>1, InsideKey
  <2>3. After(tok, o) = 3
    BY <1>6, <1>12
  <2>4. r.d.param = <<u[3]>>
    BY <2>1, <2>2
  <2> HIDE DEF r, b
  <2> QED
    BY <2>1, <2>2, <2>3, <2>4 DEF KeysAfter, KeysAt, u
<1>13. CASE o = 3
  <2>0. tok # "up"
    BY <1>5, <1>13
  <2>1. ks = got /\ q.esc = 2 /\ q.param = <<u[3]>> /\ b = Tilde
    BY <1>4, <1>13, <2>0 DEF KeysAt, u
  <2>2. r.d.esc = 0 /\ r.keys = ks \o PageKey(q.param)
    BY <1>7, <2>1, InsideKey
  <2>3. After(tok, o) = 0
    BY <1>6, <1>13
  <2>4. PageKey(q.param) = <<Named(tok)>>
    <3>1. <<53>> # <<54>>
      OBVIOUS
    <3>2. CASE tok = "pgup"
      BY <1>4, <2>1, <3>1, <3>2 DEF PageKey
    <3>3. CASE tok = "pgdn"
      BY <1>4, <2>1, <3>1, <3>3 DEF PageKey
    <3> QED
      BY <2>0, <3>2, <3>3 DEF KeyTokens
  <2> HIDE DEF r, b
  <2> QED
    BY <1>3, <2>1, <2>2, <2>3, <2>4 DEF KeysAfter, Ready
<1> QED
  BY <1>5, <1>9, <1>10, <1>11, <1>12, <1>13

LEMMA KeysNext ==
  ASSUME Set, eol \in {"cr", "lf"}, NEW tok \in Tokens, NEW o \in 0..(Len(WireOf[tok]) - 1), NEW q \in Decoders,
         NEW ks \in Seq(KeyEvents), NEW got \in Seq(KeyEvents), KeysAt(q, ks, tok, o, got)
  PROVE  KeysAfter(KeyRun(Decoded(q, ks), Yield(tok, o)), tok, o, got)
<1> DEFINE a == Decoded(q, ks)
           r == KeyRun(a, Yield(tok, o))
<1>1. a \in Decodings /\ a.d = q /\ a.keys = ks
  BY DEF Decoded, Decodings
<1>2. got \o <<>> = got
  OBVIOUS
<1>3. KeyRun(a, <<>>) = a
  BY <1>1, KeyNil
<1>4. ASSUME Ready(q, ks, got), NEW b \in Bytes, b \notin {ESC, Bracket, LetterO}
      PROVE  LET z == KeyRun(a, <<b>>) IN Ready(z.d, z.keys, got \o emitPlain(b))
  BY <1>1, <1>4, KeyOne, PlainKey
<1>5. CASE tok \in Commands
  <2>1. tok \notin KeyTokens /\ tok # "enter" /\ KeysOf[tok] = <<>> /\ Yield(tok, o) = <<>>
    BY <1>5, Kinds, WireIs DEF KeysOf, Yield
  <2>2. Ready(q, ks, got) /\ r = a
    BY <1>3, <2>1 DEF KeysAt
  <2> HIDE DEF a, r
  <2>3. KeysAfter(r, tok, o, got)
    BY <1>1, <1>2, <2>1, <2>2 DEF KeysAfter, KeysAt
  <2> QED
    BY <2>3 DEF a, r
<1>6. CASE tok = "ff"
  <2>1. /\ tok \notin KeyTokens /\ KeysOf[tok] = <<Char(IAC)>>
        /\ Yield(tok, o) = IF After(tok, o) = 0 THEN <<IAC>> ELSE <<>>
    BY <1>6, Kinds, WireIs DEF KeysOf, Yield
  <2>2. Ready(q, ks, got)
    BY <1>6, <2>1 DEF KeysAt
  <2>3. CASE After(tok, o) = 0
    <3>1. IAC \in Bytes /\ IAC \notin {ESC, Bracket, LetterO} /\ emitPlain(IAC) = <<Char(IAC)>>
      BY SomeBytes DEF IAC, ESC, Bracket, LetterO, emitPlain
    <3>2. Ready(r.d, r.keys, got \o emitPlain(IAC))
      BY <1>4, <2>1, <2>2, <2>3, <3>1
    <3> HIDE DEF a, r
    <3>3. KeysAfter(r, tok, o, got)
      BY <2>1, <2>3, <3>1, <3>2 DEF KeysAfter
    <3> QED
      BY <3>3 DEF a, r
  <2>4. CASE After(tok, o) # 0
    <3>1. r = a
      BY <1>3, <2>1, <2>4
    <3> HIDE DEF a, r
    <3>2. KeysAfter(r, tok, o, got)
      BY <1>1, <1>6, <2>1, <2>2, <2>4, <3>1 DEF KeysAfter, KeysAt
    <3> QED
      BY <3>2 DEF a, r
  <2> QED
    BY <2>3, <2>4
<1>7. CASE tok \in {"enter", "ctrlJ"}
  <2>0. tok \notin KeyTokens /\ tok \notin Commands \cup {"ff"} /\ KeysOf[tok] = <<Named("enter")>>
    BY <1>7, Kinds, WireIs DEF KeysOf
  <2>1. Yield(tok, o) = IF o = 0 THEN emitEOL(eol) ELSE <<>>
    BY <1>7, <2>0 DEF Yield
  <2>2. CASE o = 0
    <3>1. Ready(q, ks, got)
      BY <2>0, <2>2 DEF KeysAt
    <3>2. \E b \in {CR, LF} : emitEOL(eol) = <<b>>
      BY DEF emitEOL
    <3>3. PICK b \in {CR, LF} : emitEOL(eol) = <<b>>
      BY <3>2
    <3>4. b \in Bytes /\ b \notin {ESC, Bracket, LetterO} /\ emitPlain(b) = <<Named("enter")>>
      BY SomeBytes DEF CR, LF, ESC, Bracket, LetterO, emitPlain
    <3>5. Ready(r.d, r.keys, got \o emitPlain(b))
      BY <1>4, <2>1, <2>2, <3>1, <3>3, <3>4
    <3>6. tok = "ctrlJ" => After(tok, o) = 0
      <4>1. tok = "ctrlJ" => Len(WireOf[tok]) = 1
        BY WireLengths
      <4>2. Len(WireOf[tok]) = 1 => ~(o + 1 < Len(WireOf[tok]))
        BY <2>2
      <4> QED
        BY <4>1, <4>2 DEF After
    <3> HIDE DEF a, r
    <3>7. KeysAfter(r, tok, o, got)
      <4>1. Ready(r.d, r.keys, got \o KeysOf[tok])
        BY <2>0, <3>4, <3>5
      <4>2. CASE After(tok, o) = 0
        BY <4>1, <4>2 DEF KeysAfter
      <4>3. CASE After(tok, o) # 0
        BY <1>7, <2>0, <3>6, <4>1, <4>3 DEF KeysAfter, KeysAt
      <4> QED
        BY <4>2, <4>3
    <3> QED
      BY <3>7 DEF a, r
  <2>3. CASE o # 0
    <3>0. tok = "enter"
      <4>1. tok = "ctrlJ" => Len(WireOf[tok]) = 1
        BY WireLengths
      <4>2. Len(WireOf[tok]) = 1 => o = 0
        OBVIOUS
      <4> QED
        BY <1>7, <2>3, <4>1, <4>2
    <3>1. Ready(q, ks, got \o KeysOf[tok]) /\ r = a
      BY <1>3, <2>0, <2>1, <2>3, <3>0 DEF KeysAt
    <3> HIDE DEF a, r
    <3>2. KeysAfter(r, tok, o, got)
      BY <1>1, <2>0, <3>0, <3>1 DEF KeysAfter, KeysAt
    <3> QED
      BY <3>2 DEF a, r
  <2> QED
    BY <2>2, <2>3
<1>8. CASE tok \in {"x", "esc"}
  <2>0. tok \notin KeyTokens /\ tok \notin Commands \cup {"ff", "enter", "ctrlJ"}
    BY <1>8, Kinds DEF KeyTokens
  <2>1. o = 0 /\ After(tok, o) = 0
    <3>1. Len(WireOf[tok]) = 1
      BY <1>8, WireLengths
    <3>2. Len(WireOf[tok]) = 1 => o = 0 /\ ~(o + 1 < Len(WireOf[tok]))
      OBVIOUS
    <3> QED
      BY <3>1, <3>2 DEF After
  <2>2. Ready(q, ks, got)
    BY <2>0, <2>1 DEF KeysAt
  <2>3. CASE tok = "x"
    <3>1. Yield(tok, o) = <<120>> /\ KeysOf[tok] = <<Char(120)>>
      <4>1. Yield(tok, o) = <<WireOf[tok][1]>> /\ WireOf[tok] = <<120>>
        BY <2>0, <2>1, <2>3, WireLengths, WireIs DEF Yield
      <4> QED
        BY <2>3, <4>1, WireIs DEF KeysOf
    <3>2. 120 \in Bytes /\ 120 \notin {ESC, Bracket, LetterO} /\ emitPlain(120) = <<Char(120)>>
      BY SomeBytes DEF ESC, Bracket, LetterO, emitPlain
    <3>3. Ready(r.d, r.keys, got \o emitPlain(120))
      BY <1>4, <2>2, <3>1, <3>2
    <3> HIDE DEF a, r
    <3>4. KeysAfter(r, tok, o, got)
      BY <2>1, <3>1, <3>2, <3>3 DEF KeysAfter
    <3> QED
      BY <3>4 DEF a, r
  <2>4. CASE tok = "esc"
    <3>1. Yield(tok, o) = <<ESC>> /\ KeysOf[tok] = <<Named("esc")>>
      <4>1. Yield(tok, o) = <<WireOf[tok][1]>> /\ WireOf[tok] = <<ESC>>
        BY <2>0, <2>1, <2>4, WireLengths, WireIs DEF Yield
      <4> QED
        BY <2>4, <4>1, WireIs DEF KeysOf
    <3>2. r = KeyByte(a, ESC)
      BY <1>1, <3>1, KeyOne, SomeBytes
    <3>3. r.d.esc = 1 /\ r.keys = got
      BY <2>2, <3>2, EscKey
    <3>4. Named("esc") \in KeyEvents
      BY NamedIs DEF KeyKinds
    <3>5. Append(got, Named("esc")) = got \o <<Named("esc")>>
      BY <3>4, AppendKey
    <3> HIDE DEF a, r
    <3>6. KeysAfter(r, tok, o, got)
      BY <2>1, <3>1, <3>3, <3>5 DEF KeysAfter, Ready
    <3> QED
      BY <3>6 DEF a, r
  <2> QED
    BY <1>8, <2>3, <2>4
<1>9. CASE tok \in KeyTokens
  BY <1>9, KeyTokenNext
<1> QED
  BY <1>5, <1>6, <1>7, <1>8, <1>9, TokensAre DEF TokenNames

--------------------------------------------------------------------------------
(* What has been made of the first bytes of the stream.                    *)

\* y is what was made of k tokens and o bytes of the next one.
Fits(y, k, o, bad) ==
  /\ IF o = 0 THEN Between(y.t) ELSE Parser(tokens[k + 1], o, y.t)
  /\ ConsoleAt(y.raw, k, o)
  /\ y.t.size = SizeAt(k)
  /\ Talk(y.t, y.rep)
  /\ ~bad /\ eol \in {"cr", "lf"} => KeysAt(y.d, y.keys, tokens[k + 1], o, Flat(KeysOf, Beginning(k)))

LEMMA OnwardParts ==
  ASSUME NEW y, NEW f, KeyRun(Decoded(y.d, y.keys), f.raw) \in Decodings
  PROVE  LET z == Onward(y, f)
         IN /\ z.t = f.t /\ z.raw = y.raw \o f.raw /\ z.rep = y.rep \o f.rep
            /\ z.d = KeyRun(Decoded(y.d, y.keys), f.raw).d /\ z.keys = KeyRun(Decoded(y.d, y.keys), f.raw).keys
BY DEF Onward, Moment

LEMMA KeysBetween == ASSUME NEW q, NEW ks, NEW tok, NEW got PROVE KeysAt(q, ks, tok, 0, got) <=> Ready(q, ks, got)
BY DEF KeysAt

\* One byte more: the step of the induction over a read.
LEMMA FitsMore ==
  ASSUME Set, tokens \in Seq(Tokens), NEW n, NEW k, NEW o, At(n, k, o), n < Len(Stream),
         NEW y \in Moments, NEW bad, Fits(y, k, o, bad)
  PROVE  /\ Stream[n + 1] \in Bytes /\ At(n + 1, NextK(k, o), NextO(k, o))
         /\ Fits(AfterByte(y, Stream[n + 1]), NextK(k, o), NextO(k, o), bad)
<1> DEFINE tok == tokens[k + 1]
           u == WireOf[tok]
           b == u[o + 1]
           f == ByteIn(mode, eol, y.t, b)
           a == Decoded(y.d, y.keys)
           r == KeyRun(a, f.raw)
           z == AfterByte(y, Stream[n + 1])
           got == Flat(KeysOf, Beginning(k))
           v == Yield(tok, o)
<1>1. /\ k \in 0..Len(tokens) /\ k < Len(tokens) /\ tok \in Tokens /\ o \in 0..(Len(u) - 1)
      /\ Stream[n + 1] = b /\ b \in Bytes /\ Len(u) \in Nat
      /\ o + 1 < Len(u) => At(n + 1, k, o + 1)
      /\ o + 1 = Len(u) => At(n + 1, k + 1, 0)
  BY NextByteIs
<1>2. At(n + 1, NextK(k, o), NextO(k, o))
  <2> HIDE DEF u
  <2>1. o + 1 < Len(u) \/ (o + 1 = Len(u) /\ ~(o + 1 < Len(u)))
    BY <1>1
  <2>2. After(tok, o) = IF o + 1 < Len(u) THEN o + 1 ELSE 0
    BY DEF After, u
  <2>3. o + 1 # 0
    BY <1>1
  <2>4. CASE o + 1 < Len(u)
    <3>1. NextK(k, o) = k /\ NextO(k, o) = o + 1
      BY <2>2, <2>3, <2>4 DEF NextK, NextO
    <3> QED
      BY <1>1, <2>4, <3>1
  <2>5. CASE o + 1 = Len(u) /\ ~(o + 1 < Len(u))
    <3>1. NextK(k, o) = k + 1 /\ NextO(k, o) = 0
      BY <2>2, <2>5 DEF NextK, NextO
    <3> QED
      BY <1>1, <2>5, <3>1
  <2> QED
    BY <2>1, <2>4, <2>5
<1>3. y.t \in Inputs /\ y.raw \in Seq(Bytes) /\ y.d \in Decoders /\ y.keys \in Seq(KeyEvents) /\ a \in Decodings
  BY DEF Moments, Decoded, Decodings
<1>4. Parser(tok, o, y.t)
  <2>1. CASE o = 0
    BY <2>1, ParserBetween DEF Fits
  <2>2. CASE o # 0
    BY <2>2 DEF Fits
  <2> QED
    BY <2>1, <2>2
<1>5. Moves(tok, o, y.t, f)
  BY <1>1, <1>3, <1>4, TokenMoves
<1>6. f.raw = v /\ v \in Seq(Bytes) /\ r \in Decodings
  <2>1. f.raw = v
    BY <1>5 DEF Moves
  <2>2. v \in Seq(Bytes)
    BY <1>1, YieldAdds
  <2> HIDE DEF v, f, a
  <2> QED
    BY <1>3, <2>1, <2>2, KeyRunIs
<1>7. z.t = f.t /\ z.raw = y.raw \o v /\ z.rep = y.rep \o f.rep /\ z.d = r.d /\ z.keys = r.keys
  <2>1. z = Onward(y, f)
    BY <1>1 DEF AfterByte
  <2> HIDE DEF f, z, v
  <2> QED
    BY <1>6, <2>1, OnwardParts
<1> HIDE DEF z, f, a
<1>8. IF NextO(k, o) = 0 THEN Between(z.t) ELSE Parser(tokens[NextK(k, o) + 1], NextO(k, o), z.t)
  <2>1. Parser(tok, After(tok, o), f.t)
    BY <1>5 DEF Moves
  <2>2. CASE After(tok, o) = 0
    BY <1>7, <2>1, <2>2, ParserBetween DEF NextO
  <2>3. CASE After(tok, o) # 0
    <3>1. NextK(k, o) = k
      BY <2>3 DEF NextK
    <3> QED
      BY <1>7, <2>1, <2>3, <3>1 DEF NextO
  <2> QED
    BY <2>2, <2>3
<1>9. ConsoleAt(z.raw, NextK(k, o), NextO(k, o))
  <2>1. ConsoleAt(y.raw, k, o)
    BY DEF Fits
  <2>2. ConsoleAt(y.raw \o Yield(tokens[k + 1], o), NextK(k, o), NextO(k, o))
    BY <1>1, <2>1, ConsoleNext
  <2> QED
    BY <1>7, <2>2
<1>10. z.t.size = SizeAt(NextK(k, o))
  <2>1. z.t.size = NewSize(tok, o, SizeAt(k))
    BY <1>5, <1>7 DEF Moves, Fits
  <2>2. k \in Nat
    BY <1>1
  <2> QED
    BY <2>1, <2>2, SizeNext
<1>11. Talk(z.t, z.rep)
  <2>1. Negotiates(tok, o, y.t, f) /\ Talk(y.t, y.rep)
    BY <1>5 DEF Moves, Fits
  <2> HIDE DEF tok
  <2>2. Talk(f.t, y.rep \o f.rep)
    BY <1>1, <2>1, TalkNext
  <2> QED
    BY <1>7, <2>2
<1>12. ASSUME ~bad, eol \in {"cr", "lf"}
       PROVE  KeysAt(z.d, z.keys, tokens[NextK(k, o) + 1], NextO(k, o), Flat(KeysOf, Beginning(NextK(k, o))))
  <2>1. KeysAt(y.d, y.keys, tok, o, got)
    BY <1>12 DEF Fits
  <2>2. /\ got \in Seq(KeyEvents) /\ KeysOf[tok] \in Seq(KeyEvents)
        /\ Flat(KeysOf, Beginning(k + 1)) = got \o KeysOf[tok]
    <3>1. IsMap(KeysOf, Tokens, Seq(KeyEvents))
      BY MapsAre
    <3> QED
      BY <1>1, <3>1, FlatNext
  <2>3. KeysAfter(r, tok, o, got)
    <3> DEFINE q == y.d
               ks == y.keys
    <3>1. q \in Decoders /\ ks \in Seq(KeyEvents) /\ KeysAt(q, ks, tok, o, got) /\ got \in Seq(KeyEvents)
      BY <1>3, <2>1, <2>2
    <3> HIDE DEF q, ks, got, tok
    <3>2. KeysAfter(KeyRun(Decoded(q, ks), Yield(tok, o)), tok, o, got)
      BY <1>1, <1>12, <3>1, KeysNext DEF tok
    <3> QED
      BY <1>6, <3>2 DEF a, q, ks
  <2> HIDE DEF r, got
  <2>4. CASE After(tok, o) = 0
    <3>1. Ready(r.d, r.keys, got \o KeysOf[tok])
      BY <2>3, <2>4 DEF KeysAfter
    <3>2. NextK(k, o) = k + 1 /\ NextO(k, o) = 0
      BY <2>4 DEF NextK, NextO
    <3> QED
      BY <1>7, <2>2, <3>1, <3>2, KeysBetween
  <2>5. CASE After(tok, o) # 0
    <3>1. KeysAt(r.d, r.keys, tok, After(tok, o), got)
      BY <2>3, <2>5 DEF KeysAfter
    <3>2. NextK(k, o) = k /\ NextO(k, o) = After(tok, o)
      BY <2>5 DEF NextK, NextO
    <3> QED
      BY <1>7, <3>1, <3>2 DEF got
  <2> QED
    BY <2>4, <2>5
<1>13. Fits(z, NextK(k, o), NextO(k, o), bad)
  BY <1>8, <1>9, <1>10, <1>11, <1>12 DEF Fits
<1> QED
  BY <1>1, <1>2, <1>13 DEF z

LEMMA StreamIs == ASSUME Set, tokens \in Seq(Tokens) PROVE Stream \in Seq(Bytes) /\ Len(Stream) \in Nat
<1>1. IsMap(WireOf, Tokens, Seq(Bytes)) /\ Stream = Flat(WireOf, tokens)
  BY MapsAre, AllIs
<1>2. Flat(WireOf, tokens) \in Seq(Bytes)
  BY <1>1, FlatIs
<1> QED
  BY <1>1, <1>2, LenProperties

\* What is read of the stream, byte by byte.
Chunk(n, j) == SubSeq(Stream, n + 1, n + j)

LEMMA ChunkMore ==
  ASSUME Set, tokens \in Seq(Tokens), NEW n \in Nat, NEW j \in Nat, n + (j + 1) <= Len(Stream)
  PROVE  /\ Chunk(n, 0) = <<>> /\ Chunk(n, j) \in Seq(Bytes) /\ Stream[(n + j) + 1] \in Bytes
         /\ Chunk(n, j + 1) = Append(Chunk(n, j), Stream[(n + j) + 1])
<1> DEFINE S == Stream
           l == (n + j) + 1
<1>1. S \in Seq(Bytes) /\ Len(S) \in Nat
  BY StreamIs
<1>2. l \in 1..Len(S) /\ n + 1 \in 1..l /\ l = n + (j + 1) /\ l - 1 = n + j /\ n + 1 \in 1..Len(S) /\ l \in (n + 1)..Len(S)
  BY <1>1
<1>3. S[l] \in Bytes
  BY <1>1, <1>2, ElementOfSeq
<1>4. Chunk(n, 0) = <<>>
  BY <1>1, SubSeqEmpty DEF Chunk
<1> HIDE DEF S
<1>5. SubSeq(S, n + 1, n + j) \in Seq(Bytes)
  <2>1. n + 1 \in Int /\ n + j \in Int
    OBVIOUS
  <2>2. \A i \in (n + 1)..(n + j) : S[i] \in Bytes
    <3>1. \A i \in (n + 1)..(n + j) : i \in 1..Len(S)
      BY <1>1, <1>2
    <3> QED
      BY <1>1, <3>1, ElementOfSeq
  <2> QED
    BY <2>1, <2>2, SubSeqProperties
<1>6. SubSeq(S, n + 1, l) = SubSeq(S, n + 1, l - 1) \o <<S[l]>>
  BY <1>1, <1>2, SubSeqRecursiveSecond
<1>7. Chunk(n, j) = SubSeq(S, n + 1, n + j) /\ Chunk(n, j + 1) = SubSeq(S, n + 1, l)
  BY <1>2 DEF Chunk, S
<1> QED
  BY <1>2, <1>3, <1>4, <1>5, <1>6, <1>7, AppendIsConcat DEF S

\* Any number of bytes more.
Reaches(y, n, j, bad) ==
  /\ Chunk(n, j) \in Seq(Bytes) /\ AfterRead(y, Chunk(n, j)) \in Moments
  /\ \E k, o : At(n + j, k, o) /\ Fits(AfterRead(y, Chunk(n, j)), k, o, bad)

\* Any number of bytes more: the induction over a read, which may end anywhere.
LEMMA ChunkFits ==
  ASSUME Set, tokens \in Seq(Tokens), NEW n \in Nat, NEW k, NEW o, At(n, k, o), NEW y \in Moments, NEW bad,
         Fits(y, k, o, bad), NEW m \in Nat, n + m <= Len(Stream)
  PROVE  Reaches(y, n, m, bad)
<1> DEFINE T == {j \in Nat : n + j <= Len(Stream) => Reaches(y, n, j, bad)}
<1>0. eol \in EolNames /\ Len(Stream) \in Nat
  BY StreamIs DEF Set
<1>1. 0 \in T
  <2>1. Chunk(n, 0) = <<>> /\ <<>> \in Seq(Bytes) /\ n + 0 = n
    <3>1. Chunk(n, 0) = <<>>
      BY StreamIs, SubSeqEmpty DEF Chunk
    <3> QED
      BY <3>1, EmptySeq
  <2>2. AfterRead(y, <<>>) = y
    BY <1>0, <2>1, AfterMore, SomeBytes
  <2> QED
    BY <2>1, <2>2 DEF Reaches
<1>2. ASSUME NEW j \in T PROVE j + 1 \in T
  <2> SUFFICES ASSUME n + (j + 1) <= Len(Stream) PROVE Reaches(y, n, j + 1, bad)
    OBVIOUS
  <2>1. j \in Nat /\ n + j <= Len(Stream) /\ n + j < Len(Stream) /\ (n + j) + 1 = n + (j + 1)
    BY <1>0
  <2>2. Reaches(y, n, j, bad)
    BY <1>2, <2>1
  <2> DEFINE c == Chunk(n, j)
             b == Stream[(n + j) + 1]
             z == AfterRead(y, c)
  <2>3. c \in Seq(Bytes) /\ b \in Bytes /\ Chunk(n, j + 1) = Append(c, b)
    BY <2>1, ChunkMore
  <2>4. AfterRead(y, Append(c, b)) = AfterByte(z, b) /\ z \in Moments /\ AfterRead(y, Append(c, b)) \in Moments
    <3>1. Append(c, b) \in Seq(Bytes)
      BY <2>3, AppendProperties
    <3> HIDE DEF c, b
    <3>2. AfterRead(y, Append(c, b)) = AfterByte(z, b) /\ z \in Moments
      BY <1>0, <2>3, AfterMore
    <3> DEFINE x == Append(c, b)
    <3>3. x \in Seq(Bytes)
      BY <3>1
    <3> HIDE DEF x
    <3>4. AfterRead(y, x) \in Moments
      BY <1>0, <2>3, <3>3, AfterMore
    <3> QED
      BY <3>2, <3>4 DEF x
  <2>5. PICK p, q : At(n + j, p, q) /\ Fits(z, p, q, bad)
    BY <2>2 DEF Reaches
  <2> HIDE DEF z
  <2>6. At((n + j) + 1, NextK(p, q), NextO(p, q)) /\ Fits(AfterByte(z, b), NextK(p, q), NextO(p, q), bad)
    BY <2>1, <2>4, <2>5, FitsMore
  <2> HIDE DEF c, b
  <2>7. Append(c, b) \in Seq(Bytes)
    BY <2>3, AppendProperties
  <2> QED
    BY <2>1, <2>3, <2>4, <2>6, <2>7 DEF Reaches
<1>3. Nat \subseteq T
  <2> HIDE DEF T
  <2> QED
    BY <1>1, <1>2, SetInduction
<1> QED
  BY <1>3

--------------------------------------------------------------------------------
(* What has been sent stays sent.                                          *)

LEMMA SameMaps ==
  ASSUME UNCHANGED <<mode, eol, enter>>
  PROVE  /\ Tokens' = Tokens /\ WireOf' = WireOf /\ MeantOf' = MeantOf /\ KeysOf' = KeysOf
         /\ \A tok : Wire(tok)' = Wire(tok)
<1>1. Tokens' = Tokens /\ \A tok : Wire(tok)' = Wire(tok)
  BY DEF Tokens, Wire
<1>2. WireOf' = WireOf
  BY <1>1 DEF WireOf
<1>3. MeantOf' = MeantOf
  <2>1. \A tok : Meant(tok)' = Meant(tok)
    BY <1>1 DEF Meant
  <2> QED
    BY <1>1, <2>1 DEF MeantOf
<1>4. KeysOf' = KeysOf
  BY <1>1 DEF KeysOf
<1> QED
  BY <1>1, <1>2, <1>3, <1>4

\* A step that at most sends one token more.
Sends ==
  /\ UNCHANGED <<mode, eol, enter>>
  /\ tokens' = tokens \/ \E tok \in Tokens : tokens' = Append(tokens, tok)

LEMMA SendsKeeps ==
  ASSUME Sends, tokens \in Seq(Tokens)
  PROVE  /\ tokens' \in Seq(Tokens) /\ Len(tokens) \in Nat /\ Len(tokens) <= Len(tokens') /\ Len(tokens') \in Nat
         /\ \A i \in 1..Len(tokens) : tokens'[i] = tokens[i]
         /\ \A k \in 0..Len(tokens) : Beginning(k)' = Beginning(k)
<1>1. CASE tokens' = tokens
  BY <1>1, LenProperties DEF Beginning
<1>2. ASSUME NEW tok \in Tokens, tokens' = Append(tokens, tok)
      PROVE  /\ tokens' \in Seq(Tokens) /\ Len(tokens) \in Nat /\ Len(tokens) <= Len(tokens') /\ Len(tokens') \in Nat
             /\ \A i \in 1..Len(tokens) : tokens'[i] = tokens[i]
             /\ \A k \in 0..Len(tokens) : Beginning(k)' = Beginning(k)
  <2>1. /\ Append(tokens, tok) \in Seq(Tokens) /\ Len(tokens) \in Nat /\ Len(Append(tokens, tok)) = Len(tokens) + 1
        /\ \A i \in 1..Len(tokens) : Append(tokens, tok)[i] = tokens[i]
    BY LenProperties, AppendProperties
  <2>2. ASSUME NEW k \in 0..Len(tokens) PROVE SubSeq(Append(tokens, tok), 1, k) = SubSeq(tokens, 1, k)
    BY PrefixOfAppend
  <2>3. \A k \in 0..Len(tokens) : Beginning(k)' = Beginning(k)
    BY <1>2, <2>2 DEF Beginning
  <2> QED
    BY <1>2, <2>1, <2>3
<1> QED
  BY <1>1, <1>2 DEF Sends

\* What is sent later is behind what has been sent before.
LEMMA StreamGrows ==
  ASSUME Set, Sends, tokens \in Seq(Tokens)
  PROVE  Len(Stream') \in Nat /\ Len(Stream) <= Len(Stream')
<1>0. UNCHANGED <<mode, eol, enter>>
  BY DEF Sends
<1>1. CASE tokens' = tokens
  <2>1. Stream' = Stream
    BY <1>0, <1>1, SameMaps DEF Stream, All
  <2> QED
    BY <2>1, StreamIs
<1>2. ASSUME NEW tok \in Tokens, tokens' = Append(tokens, tok)
      PROVE  Len(Stream') \in Nat /\ Len(Stream) <= Len(Stream')
  <2>1. Append(tokens, tok) \in Seq(Tokens)
    BY AppendProperties
  <2>2. Stream' = Flat(WireOf, Append(tokens, tok))
    <3> DEFINE s == Append(tokens, tok)
    <3>1. \A i \in DOMAIN s : s[i] \in Tokens
      BY <2>1
    <3> HIDE DEF s
    <3>2. Stream' = FlattenSeq([i \in DOMAIN s |-> Wire(s[i])])
      BY <1>0, <1>2, SameMaps DEF Stream, All, s
    <3>3. [i \in DOMAIN s |-> Wire(s[i])] = Mapped(WireOf, s)
      BY <3>1 DEF Mapped, WireOf
    <3> QED
      BY <3>2, <3>3 DEF Flat, s
  <2>3. /\ Stream = Flat(WireOf, tokens) /\ Stream \in Seq(Bytes) /\ WireOf[tok] \in Seq(Bytes)
        /\ Flat(WireOf, Append(tokens, tok)) = Flat(WireOf, tokens) \o WireOf[tok]
    <3> DEFINE A == Tokens
               w == WireOf
    <3>1. Stream = Flat(w, tokens) /\ Stream \in Seq(Bytes)
      BY AllIs, StreamIs
    <3>2. IsMap(w, A, Seq(Bytes)) /\ tokens \in Seq(A) /\ tok \in A
      BY MapsAre
    <3> HIDE DEF A, w
    <3>3. w[tok] \in Seq(Bytes) /\ Flat(w, Append(tokens, tok)) = Flat(w, tokens) \o w[tok]
      BY <3>2, FlatAppend
    <3> QED
      BY <3>1, <3>3 DEF w
  <2>4. /\ Len(Stream) \in Nat /\ Len(WireOf[tok]) \in Nat
        /\ Len(Stream \o WireOf[tok]) = Len(Stream) + Len(WireOf[tok])
    BY <2>3, LenProperties, ConcatProperties
  <2>5. Stream' = Stream \o WireOf[tok]
    BY <2>2, <2>3
  <2> QED
    BY <2>4, <2>5
<1> QED
  BY <1>1, <1>2 DEF Sends

LEMMA AtStill ==
  ASSUME Sends, tokens \in Seq(Tokens), NEW n, NEW k, NEW o, At(n, k, o)
  PROVE  At(n, k, o)'
<1>1. WireOf' = WireOf
  BY SameMaps DEF Sends
<1>2. /\ k \in 0..Len(tokens) /\ o \in Nat /\ n = Len(Flat(WireOf, Beginning(k))) + o
      /\ o # 0 => k < Len(tokens) /\ o < Len(WireOf[tokens[k + 1]])
  BY DEF At
<1>3. Beginning(k)' = Beginning(k) /\ Len(tokens) \in Nat /\ Len(tokens') \in Nat /\ Len(tokens) <= Len(tokens')
      /\ \A i \in 1..Len(tokens) : tokens'[i] = tokens[i]
  BY <1>2, SendsKeeps
<1>4. k \in 0..Len(tokens') /\ (k < Len(tokens) => k + 1 \in 1..Len(tokens) /\ k < Len(tokens'))
  BY <1>2, <1>3
<1> QED
  BY <1>1, <1>2, <1>3, <1>4 DEF At

LEMMA FitsStill ==
  ASSUME Sends, tokens \in Seq(Tokens), NEW n, NEW k, NEW o, At(n, k, o), NEW y, NEW bad, Fits(y, k, o, bad)
  PROVE  Fits(y, k, o, bad)'
<1>0. mode' = mode /\ eol' = eol /\ enter' = enter
  BY DEF Sends
<1>1. WireOf' = WireOf /\ MeantOf' = MeantOf /\ KeysOf' = KeysOf
  BY <1>0, SameMaps
<1>2. k \in 0..Len(tokens) /\ o \in Nat /\ (o # 0 => k < Len(tokens))
  BY DEF At
<1>3. Beginning(k)' = Beginning(k) /\ Len(tokens) \in Nat /\ \A i \in 1..Len(tokens) : tokens'[i] = tokens[i]
  BY <1>2, SendsKeeps
<1>4. o # 0 => tokens'[k + 1] = tokens[k + 1]
  <2>1. k < Len(tokens) => k + 1 \in 1..Len(tokens)
    BY <1>2, <1>3
  <2> QED
    BY <1>2, <1>3, <2>1
<1>5. (IF o = 0 THEN Between(y.t) ELSE Parser(tokens[k + 1], o, y.t))'
  <2>1. CASE o = 0
    <3>1. Between(y.t)
      BY <2>1 DEF Fits
    <3> QED
      BY <1>0, <2>1, <3>1 DEF Between
  <2>2. CASE o # 0
    <3>1. Parser(tokens[k + 1], o, y.t)
      BY <2>2 DEF Fits
    <3> QED
      BY <1>0, <1>1, <1>4, <2>2, <3>1 DEF Parser
  <2> QED
    BY <2>1, <2>2
<1>6. ConsoleAt(y.raw, k, o)'
  <2>1. y.raw = Flat(MeantOf, Beginning(k)) \o Partly(tokens[k + 1], o)
    BY DEF Fits, ConsoleAt
  <2>2. Partly(tokens[k + 1], o)' = Partly(tokens[k + 1], o)
    <3>1. CASE o = 0
      BY <3>1 DEF Partly
    <3>2. CASE o # 0
      BY <1>0, <1>1, <1>4, <3>2 DEF Partly
    <3> QED
      BY <3>1, <3>2
  <2> QED
    BY <1>1, <1>3, <2>1, <2>2 DEF ConsoleAt
<1>7. (y.t.size = SizeAt(k))'
  <2>1. y.t.size = SizeAt(k)
    BY DEF Fits
  <2>2. Reported(k)' = Reported(k)
    <3>1. \A i \in 1..k : i \in 1..Len(tokens)
      BY <1>2, <1>3
    <3> QED
      BY <1>3, <3>1 DEF Reported
  <2>3. Reported(k) # {} => tokens'[Max(Reported(k))] = tokens[Max(Reported(k))]
    <3> SUFFICES ASSUME Reported(k) # {} PROVE tokens'[Max(Reported(k))] = tokens[Max(Reported(k))]
      OBVIOUS
    <3> DEFINE R == Reported(k)
    <3>1. R \in SUBSET (1..k) /\ k \in Nat /\ R # {}
      BY <1>2 DEF Reported
    <3> HIDE DEF R
    <3>2. Max(R) \in R
      BY <3>1, MaxIs
    <3>3. Max(R) \in 1..k
      BY <3>1, <3>2
    <3>4. \A i \in 1..k : i \in 1..Len(tokens)
      BY <1>2, <1>3
    <3> QED
      BY <1>3, <3>3, <3>4 DEF R
  <2> QED
    BY <2>1, <2>2, <2>3 DEF SizeAt
<1>8. ~bad /\ eol \in {"cr", "lf"} =>
        KeysAt(y.d, y.keys, tokens[k + 1], o, Flat(KeysOf, Beginning(k)))'
  <2> SUFFICES ASSUME ~bad, eol \in {"cr", "lf"}
               PROVE  KeysAt(y.d, y.keys, tokens[k + 1], o, Flat(KeysOf, Beginning(k)))'
    OBVIOUS
  <2>1. KeysAt(y.d, y.keys, tokens[k + 1], o, Flat(KeysOf, Beginning(k)))
    BY DEF Fits
  <2>2. CASE o = 0
    BY <1>1, <1>3, <2>1, <2>2 DEF KeysAt
  <2>3. CASE o # 0
    BY <1>1, <1>3, <1>4, <2>1, <2>3 DEF KeysAt
  <2> QED
    BY <2>2, <2>3
<1>9. Talk(y.t, y.rep)
  BY DEF Fits
<1> QED
  BY <1>0, <1>5, <1>6, <1>7, <1>8, <1>9 DEF Fits

--------------------------------------------------------------------------------
(* The inductive invariant.                                                *)

Now == [t |-> t, raw |-> console, rep |-> replies, d |-> d, keys |-> keys]

\* The bytes read so far are k tokens and o bytes of the next one, and all there is
\* is what was made of them.
Place == \E n, y, bad, k, o : n = nRead /\ y = Now /\ bad = cut /\ At(n, k, o) /\ Fits(y, k, o, bad)

IInv ==
  /\ mode \in Modes /\ eol \in Eols /\ enter \in Enters
  /\ tokens \in Seq(Tokens) /\ nRead \in Nat /\ nRead <= Len(Stream) /\ cut \in BOOLEAN
  /\ Now \in Moments /\ d.esc # 1
  /\ Place

LEMMA SetIs == mode \in Modes /\ eol \in Eols /\ enter \in Enters => Set
BY InputAssumption DEF Set, ModeNames, EolNames, EnterNames

(* The first state.                                                        *)

LEMMA NewInputIs ==
  /\ NewInput \in Inputs /\ Between([NewInput EXCEPT !.announced = TRUE]) /\ (mode # "telnet" => Between(NewInput))
  /\ NewInput.will = {} /\ NewInput.do = {} /\ ~NewInput.announced /\ NewInput.size = NoSize
  /\ NewInput.lastCR = FALSE /\ NewInput.state = "data"
BY EmptySeq, SomeBytes DEF NewInput, Inputs, Between, Sizes

\* What a session starts with.
LEMMA InitialIs ==
  ASSUME mode \in ModeNames
  PROVE  LET f == Initial(NewInput, mode)
         IN /\ f.t \in Inputs /\ f.rep \in Seq(Bytes) /\ Between(f.t) /\ f.t.size = NoSize /\ Talk(f.t, f.rep)
<1> DEFINE f == Initial(NewInput, mode)
           i == NewInput
           j == [i EXCEPT !.announced = TRUE, !.will = @ \cup {ECHO, SGA}]
<1>0. /\ i \in Inputs /\ i.will = {} /\ i.do = {} /\ i.announced = FALSE /\ i.size = NoSize /\ i.lastCR = FALSE
      /\ i.state = "data"
  BY NewInputIs
<1> HIDE DEF i
<1>1. Talk(i, <<>>)
  <2>1. Triples(<<>>, 0)
    BY NothingSaid
  <2>2. \A opt, yes, no : Agreed(<<>>, opt, FALSE, yes, no) /\ Denied(<<>>, opt, yes, no)
    BY NothingSaid
  <2>3. \A opt : opt \notin i.will /\ opt \notin i.do
    BY <1>0
  <2>4. ASSUME NEW opt PROVE Agreed(<<>>, opt, opt \in i.will, WILL, WONT) /\ Agreed(<<>>, opt, opt \in i.do, DO, DONT)
    BY <2>2, <2>3 DEF Agreed
  <2> QED
    BY <1>0, <2>1, <2>2, <2>4 DEF Talk
<1>2. CASE mode = "raw"
  <2>1. f = Fed(i, <<>>, <<>>)
    BY <1>2 DEF Initial, i
  <2>2. f.t = i /\ f.rep = <<>>
    BY <2>1 DEF Fed
  <2> HIDE DEF f
  <2>3. Between(i)
    BY <1>0, <1>2 DEF Between
  <2> QED
    BY <1>0, <1>1, <2>2, <2>3, EmptySeq DEF f
<1>3. CASE mode # "raw"
  <2>1. f = Fed(j, <<>>, Greeting)
    <3>1. f = announce(i)
      BY <1>3 DEF Initial, i, ModeNames
    <3> QED
      BY <1>0, <3>1 DEF announce, Greeting
  <2>2. f.t = j /\ f.rep = Greeting
    BY <2>1 DEF Fed
  <2>3. j \in Inputs /\ j.announced = TRUE /\ j.will = i.will \cup {ECHO, SGA} /\ j.do = i.do /\ j.size = i.size
        /\ j.lastCR = i.lastCR /\ j.state = i.state
    BY <1>0, SomeBytes DEF Inputs
  <2> HIDE DEF f, j
  <2>4. Greeting \in Seq(Bytes) /\ <<>> \o Greeting = Greeting
    <3>1. Greeting \in Seq(Bytes)
      BY SomeBytes DEF Greeting
    <3> QED
      BY <3>1, ConcatEmptySeq
  <2>5. Talk(j, <<>> \o Greeting)
    BY <1>0, <1>1, <2>3, TalkGreeting
  <2>6. Between(j)
    BY <1>0, <2>3 DEF Between
  <2> QED
    BY <1>0, <2>2, <2>3, <2>4, <2>5, <2>6 DEF f
<1> QED
  BY <1>2, <1>3

LEMMA InitIInv == Init => IInv
<1> SUFFICES ASSUME Init PROVE IInv
  OBVIOUS
<1>1. Set
  BY SetIs DEF Init
<1>2. t \in Inputs /\ replies \in Seq(Bytes) /\ Between(t) /\ t.size = NoSize /\ Talk(t, replies)
  BY <1>1, InitialIs DEF Init, Set
<1>3. /\ tokens \in Seq(Tokens) /\ Beginning(0) = <<>> /\ Len(tokens) = 0 /\ nRead = 0 /\ cut = FALSE
      /\ console = <<>> /\ keys = <<>> /\ d = NewDecoder
  BY EmptySeq DEF Init, Beginning
<1>4. d \in Decoders /\ d.esc = 0
  BY <1>3, EmptySeq DEF NewDecoder, Decoders
<1>5. Now \in Moments
  BY <1>2, <1>3, <1>4, EmptySeq DEF Now, Moments
<1>6. At(0, 0, 0)
  BY <1>3, FlatNil DEF At
<1>7. Fits(Now, 0, 0, FALSE)
  <2>1. Now.t = t /\ Now.raw = <<>> /\ Now.rep = replies /\ Now.d = d /\ Now.keys = <<>>
    BY <1>3 DEF Now
  <2>2. ConsoleAt(Now.raw, 0, 0)
    BY <1>3, <2>1, FlatNil, PartlyNothing DEF ConsoleAt
  <2>3. SizeAt(0) = NoSize
    BY SizeNext DEF SizeAt
  <2>4. KeysAt(Now.d, Now.keys, tokens[0 + 1], 0, Flat(KeysOf, Beginning(0)))
    BY <1>3, <1>4, <2>1, FlatNil DEF KeysAt, Ready
  <2> QED
    BY <1>2, <2>1, <2>2, <2>3, <2>4 DEF Fits
<1>8. Place
  BY <1>3, <1>6, <1>7 DEF Place
<1>9. 0 <= Len(Stream)
  BY <1>1, <1>3, StreamIs
<1>10. mode \in Modes /\ eol \in Eols /\ enter \in Enters
  BY DEF Init
<1>11. nRead \in Nat /\ nRead <= Len(Stream) /\ cut \in BOOLEAN /\ d.esc # 1
  <2>1. nRead \in Nat /\ nRead <= Len(Stream)
    BY <1>3, <1>9
  <2>2. cut \in BOOLEAN
    BY <1>3
  <2>3. d.esc # 1
    BY <1>4
  <2> QED
    BY <2>1, <2>2, <2>3
<1> QED
  BY <1>3, <1>5, <1>8, <1>10, <1>11 DEF IInv

(* The steps.                                                              *)

LEMMA SendIInv == IInv /\ Send => IInv'
<1> SUFFICES ASSUME IInv, Send PROVE IInv'
  OBVIOUS
<1>1. Set
  BY SetIs DEF IInv
<1>2. Sends /\ UNCHANGED <<mode, eol, enter, nRead, cut, t, d, console, replies, keys>> /\ tokens \in Seq(Tokens)
  BY DEF Send, Sends, IInv
<1>3. Tokens' = Tokens /\ tokens' \in Seq(Tokens) /\ Len(Stream') \in Nat /\ Len(Stream) <= Len(Stream') /\ Len(Stream) \in Nat
  BY <1>1, <1>2, SameMaps, SendsKeeps, StreamGrows, StreamIs
<1>4. nRead' <= Len(Stream')
  <2>1. nRead \in Nat /\ nRead <= Len(Stream) /\ nRead' = nRead
    BY <1>2 DEF IInv
  <2> QED
    BY <1>3, <2>1
<1>5. Now' = Now
  BY <1>2 DEF Now
<1>6. Place'
  <2>1. PICK n, y, bad, k, o : n = nRead /\ y = Now /\ bad = cut /\ At(n, k, o) /\ Fits(y, k, o, bad)
    BY DEF IInv, Place
  <2>2. At(n, k, o)' /\ Fits(y, k, o, bad)'
    BY <1>2, <2>1, AtStill, FitsStill
  <2> QED
    BY <1>2, <1>5, <2>1, <2>2 DEF Place
<1> QED
  BY <1>2, <1>3, <1>4, <1>5, <1>6 DEF IInv

\* A byte inside the escape sequence of a key.
LEMMA InsideKeysAre ==
  ASSUME Set, tokens \in Seq(Tokens), NEW n, NEW k, NEW o, At(n, k, o), o # 0, tokens[k + 1] \in KeyTokens
  PROVE  n \in InsideKeys
<1>1. k \in 0..Len(tokens) /\ o \in Nat /\ n = Len(Flat(WireOf, Beginning(k))) + o /\ k < Len(tokens)
      /\ o < Len(WireOf[tokens[k + 1]])
  BY DEF At
<1>2. /\ Beginning(k) \in Seq(Tokens) /\ Len(Beginning(k)) = k /\ tokens[k + 1] \in Tokens /\ DOMAIN tokens = 1..Len(tokens)
      /\ Len(tokens) \in Nat
  BY <1>1, BeginningIs, LenProperties
<1>3. k + 1 \in {i \in DOMAIN tokens : tokens[i] \in DOMAIN EscapeSequences} /\ (k + 1) - 1 = k
  BY <1>1, <1>2, Domains
<1>4. [j \in 1..((k + 1) - 1) |-> Wire(tokens[j])] = Mapped(WireOf, Beginning(k))
  <2>1. DOMAIN Beginning(k) = 1..k
    BY <1>2
  <2>2. \A j \in 1..k : Beginning(k)[j] = tokens[j] /\ Beginning(k)[j] \in Tokens
    <3>1. \A j \in 1..k : j \in 1..Len(tokens)
      BY <1>1, <1>2
    <3>2. \A j \in 1..k : tokens[j] \in Tokens
      BY <3>1, ElementOfSeq
    <3>3. \A j \in 1..k : SubSeq(tokens, 1, k)[j] = tokens[j]
      BY <1>1
    <3> QED
      BY <3>2, <3>3 DEF Beginning
  <2>3. \A j \in 1..k : WireOf[Beginning(k)[j]] = Wire(tokens[j])
    BY <2>2 DEF WireOf
  <2> QED
    BY <1>3, <2>1, <2>3 DEF Mapped
<1> DEFINE from == Len(Flat(WireOf, Beginning(k)))
           l == Len(Wire(tokens[k + 1]))
<1>5. from \in Nat /\ l \in Nat /\ n = from + o /\ o < l
  <2>1. WireOf[tokens[k + 1]] = Wire(tokens[k + 1])
    BY <1>2 DEF WireOf
  <2>2. from \in Nat /\ Len(WireOf[tokens[k + 1]]) \in Nat
    BY <1>1, TokenIs
  <2> QED
    BY <1>1, <2>1, <2>2
<1>6. n \in (from + 1)..(from + l - 1)
  <2> HIDE DEF from, l
  <2> QED
    BY <1>1, <1>5
<1>7. from = Len(FlattenSeq([j \in 1..((k + 1) - 1) |-> Wire(tokens[j])]))
  BY <1>4 DEF Flat
<1> HIDE DEF from
<1> QED
  BY <1>3, <1>6, <1>7 DEF InsideKeys

\* What a read leaves when it ends.
Ended(z) ==
  IF z.d.esc = 1 THEN Moment(z.t, z.raw, z.rep, Decoded([z.d EXCEPT !.esc = 0], Append(z.keys, Named("esc")))) ELSE z

\* The end of a read settles a lone ESC and nothing else.
LEMMA EndedIs ==
  ASSUME NEW z \in Moments
  PROVE  LET w == Ended(z)
         IN /\ w \in Moments /\ w.t = z.t /\ w.raw = z.raw /\ w.rep = z.rep /\ w.d.esc # 1
            /\ \A got : Ready(z.d, z.keys, got) => Ready(w.d, w.keys, got)
<1>0. z.t \in Inputs /\ z.raw \in Seq(Bytes) /\ z.rep \in Seq(Bytes) /\ z.d \in Decoders /\ z.keys \in Seq(KeyEvents)
  BY DEF Moments
<1>1. CASE z.d.esc = 1
  <2> DEFINE c == [z.d EXCEPT !.esc = 0]
             ks == Append(z.keys, Named("esc"))
             w == Ended(z)
  <2>1. c \in Decoders /\ c.esc = 0
    BY <1>0 DEF Decoders
  <2>2. Named("esc") \in KeyEvents
    BY NamedIs DEF KeyKinds
  <2>3. ks \in Seq(KeyEvents)
    BY <1>0, <2>2, AppendProperties
  <2>4. w.t = z.t /\ w.raw = z.raw /\ w.rep = z.rep /\ w.d = c /\ w.keys = ks
    BY <1>1 DEF Ended, Moment, Decoded
  <2>5. w \in Moments
    <3>1. w = [t |-> z.t, raw |-> z.raw, rep |-> z.rep, d |-> c, keys |-> ks]
      BY <1>1 DEF Ended, Moment, Decoded
    <3> HIDE DEF c, ks, w
    <3> QED
      BY <1>0, <2>1, <2>3, <3>1 DEF Moments
  <2>6. \A got : Ready(z.d, z.keys, got) => ks = got
    BY <1>1 DEF Ready
  <2> HIDE DEF c, ks, w
  <2>7. \A got : Ready(z.d, z.keys, got) => Ready(w.d, w.keys, got)
    BY <2>1, <2>4, <2>6 DEF Ready
  <2>8. w.d.esc # 1
    BY <2>1, <2>4
  <2> QED
    BY <2>4, <2>5, <2>7, <2>8 DEF w
<1>2. CASE z.d.esc # 1
  BY <1>0, <1>2 DEF Ended
<1> QED
  BY <1>1, <1>2

\* A read, in these terms.
LEMMA ReadIs ==
  ASSUME Set, tokens \in Seq(Tokens), Now \in Moments, nRead \in Nat, Read
  PROVE  \E m \in Nat : /\ nRead' = nRead + m /\ nRead + m <= Len(Stream)
                        /\ cut' = (cut \/ nRead + m \in InsideKeys)
                        /\ Now' = Ended(AfterRead(Now, Chunk(nRead, m)))
                        /\ UNCHANGED <<mode, eol, enter, tokens>>
<1>1. PICK l \in (nRead + 1)..Len(Stream) :
        LET in == Process(t, mode, eol, SubSeq(Stream, nRead + 1, l))
            k  == decode(d, in.raw)
        IN /\ nRead' = l /\ cut' = (cut \/ l \in InsideKeys)
           /\ t' = in.t /\ console' = console \o in.raw /\ replies' = replies \o in.rep
           /\ d' = k.d /\ keys' = keys \o k.keys
  BY DEF Read
<1> DEFINE m == l - nRead
           c == Chunk(nRead, m)
           in == Process(t, mode, eol, c)
           r == KeyRun(Decoded(d, <<>>), in.raw)
           k == decode(d, in.raw)
           z == AfterRead(Now, c)
<1>2. m \in Nat /\ nRead + m = l /\ l <= Len(Stream) /\ Len(Stream) \in Nat
  BY StreamIs
<1>3. c = SubSeq(Stream, nRead + 1, l)
  BY <1>2 DEF Chunk
<1>4. /\ nRead' = l /\ cut' = (cut \/ l \in InsideKeys)
      /\ t' = in.t /\ console' = console \o in.raw /\ replies' = replies \o in.rep
      /\ d' = k.d /\ keys' = keys \o k.keys
  BY <1>1, <1>3
<1>5. c \in Seq(Bytes)
  <2>1. nRead + 1 \in Int /\ l \in Int
    OBVIOUS
  <2>2. \A i \in (nRead + 1)..l : Stream[i] \in Bytes
    <3>1. \A i \in (nRead + 1)..l : i \in 1..Len(Stream)
      BY <1>2
    <3> QED
      BY <3>1, StreamIs, ElementOfSeq
  <2> QED
    BY <1>3, <2>1, <2>2, SubSeqProperties
<1>6. t \in Inputs /\ d \in Decoders /\ keys \in Seq(KeyEvents)
  BY DEF Now, Moments
<1>7. in \in Feds
  <2>1. eol \in EolNames /\ 0 \in Bytes
    BY SomeBytes DEF Set
  <2> HIDE DEF c
  <2> QED
    BY <1>5, <1>6, <2>1, ProcessMore
<1> HIDE DEF c, in
<1>8. in.raw \in Seq(Bytes)
  BY <1>7 DEF Feds
<1>9. r \in Decodings /\ KeyRun(Decoded(d, keys), in.raw) = Decoded(r.d, keys \o r.keys)
  BY <1>6, <1>8, KeyShift
<1>10. k = AtEndOfRead(r)
  BY DecodeRead
<1> HIDE DEF r, k
<1>11. z = Moment(in.t, console \o in.raw, replies \o in.rep, Decoded(r.d, keys \o r.keys))
  BY <1>9 DEF AfterRead, Onward, Now, in
<1>12. z.t = in.t /\ z.raw = console \o in.raw /\ z.rep = replies \o in.rep /\ z.d = r.d /\ z.keys = keys \o r.keys
  BY <1>11 DEF Moment, Decoded
<1> HIDE DEF z
<1>13. Now' = [t |-> z.t, raw |-> z.raw, rep |-> z.rep, d |-> k.d, keys |-> keys \o k.keys]
  BY <1>4, <1>12 DEF Now
<1>14. Now' = Ended(z)
  <2>1. CASE r.d.esc = 1
    <3> DEFINE e == Named("esc")
    <3>1. k.d = [z.d EXCEPT !.esc = 0] /\ k.keys = Append(r.keys, e)
      BY <1>10, <1>12, <2>1 DEF AtEndOfRead, Decoded
    <3>2. e \in KeyEvents /\ r.keys \in Seq(KeyEvents)
      BY <1>9, NamedIs DEF KeyKinds, Decodings
    <3> HIDE DEF e
    <3>3. keys \o Append(r.keys, e) = Append(z.keys, e)
      <4> DEFINE x == keys
                 v == r.keys
      <4>1. x \in Seq(KeyEvents) /\ v \in Seq(KeyEvents)
        BY <1>6, <3>2
      <4> HIDE DEF x, v
      <4>2. x \o Append(v, e) = Append(x \o v, e)
        BY <3>2, <4>1, ConcatAppend
      <4> QED
        BY <1>12, <4>2 DEF x, v
    <3>4. Ended(z) = Moment(z.t, z.raw, z.rep, Decoded([z.d EXCEPT !.esc = 0], Append(z.keys, e)))
      BY <1>12, <2>1 DEF Ended, e
    <3> DEFINE g == [z.d EXCEPT !.esc = 0]
    <3> HIDE DEF g
    <3>5. Ended(z) = [t |-> z.t, raw |-> z.raw, rep |-> z.rep, d |-> g, keys |-> Append(z.keys, e)]
      BY <3>4 DEF Moment, Decoded, g
    <3>6. k.d = g /\ keys \o k.keys = Append(z.keys, e)
      BY <3>1, <3>3 DEF g
    <3> QED
      BY <1>13, <3>5, <3>6
  <2>2. CASE r.d.esc # 1
    <3>1. k = r
      BY <1>10, <2>2 DEF AtEndOfRead
    <3>2. Ended(z) = z
      BY <1>12, <2>2 DEF Ended
    <3>3. z = [t |-> z.t, raw |-> z.raw, rep |-> z.rep, d |-> z.d, keys |-> z.keys]
      BY <1>11, <1>12 DEF Moment, Decoded
    <3> QED
      BY <1>12, <1>13, <3>1, <3>2, <3>3
  <2> QED
    BY <2>1, <2>2
<1>15. UNCHANGED <<mode, eol, enter, tokens>>
  BY DEF Read
<1> QED
  BY <1>2, <1>4, <1>14, <1>15 DEF z, c

LEMMA ReadIInv == IInv /\ Read => IInv'
<1> SUFFICES ASSUME IInv, Read PROVE IInv'
  OBVIOUS
<1>0. Set
  BY SetIs DEF IInv
<1>1. tokens \in Seq(Tokens) /\ Now \in Moments /\ nRead \in Nat /\ nRead <= Len(Stream) /\ cut \in BOOLEAN
  BY DEF IInv
<1>2. PICK m \in Nat : /\ nRead' = nRead + m /\ nRead + m <= Len(Stream)
                       /\ cut' = (cut \/ nRead + m \in InsideKeys)
                       /\ Now' = Ended(AfterRead(Now, Chunk(nRead, m)))
                       /\ UNCHANGED <<mode, eol, enter, tokens>>
  BY <1>0, <1>1, ReadIs
<1>3. PICK n, y, bad, k, o : n = nRead /\ y = Now /\ bad = cut /\ At(n, k, o) /\ Fits(y, k, o, bad)
  BY DEF IInv, Place
<1>4. Reaches(y, n, m, bad)
  <2>1. n \in Nat /\ y \in Moments /\ n + m <= Len(Stream)
    BY <1>1, <1>2, <1>3
  <2> QED
    BY <1>0, <1>1, <1>3, <2>1, ChunkFits
<1>5. PICK z : z = AfterRead(y, Chunk(n, m))
  OBVIOUS
<1>6. z \in Moments /\ \E p, q : At(n + m, p, q) /\ Fits(z, p, q, bad)
  BY <1>4, <1>5 DEF Reaches
<1>7. PICK p, q : At(n + m, p, q) /\ Fits(z, p, q, bad)
  BY <1>6
<1>8. PICK w : w = Ended(z)
  OBVIOUS
<1>9. /\ w \in Moments /\ w.t = z.t /\ w.raw = z.raw /\ w.rep = z.rep /\ w.d.esc # 1
      /\ \A got : Ready(z.d, z.keys, got) => Ready(w.d, w.keys, got)
  BY <1>6, <1>8, EndedIs
<1>10. PICK worse : worse = (bad \/ n + m \in InsideKeys)
  OBVIOUS
<1>11. Fits(w, p, q, worse)
  <2>1. ASSUME ~worse, eol \in {"cr", "lf"}
        PROVE  KeysAt(w.d, w.keys, tokens[p + 1], q, Flat(KeysOf, Beginning(p)))
    <3>1. ~bad /\ n + m \notin InsideKeys
      BY <1>10, <2>1
    <3>2. ~(tokens[p + 1] \in KeyTokens /\ q # 0)
      BY <1>0, <1>1, <1>7, <3>1, InsideKeysAre
    <3>3. KeysAt(z.d, z.keys, tokens[p + 1], q, Flat(KeysOf, Beginning(p)))
      BY <1>7, <2>1, <3>1 DEF Fits
    <3> QED
      BY <1>9, <3>2, <3>3 DEF KeysAt
  <2> QED
    BY <1>7, <1>9, <2>1 DEF Fits
<1>12. Sends
  BY <1>2 DEF Sends
<1>13. At(n + m, p, q)' /\ Fits(w, p, q, worse)'
  BY <1>1, <1>7, <1>11, <1>12, AtStill, FitsStill
<1>14. n + m = nRead' /\ w = Now' /\ worse = cut'
  BY <1>2, <1>3, <1>5, <1>8, <1>10
<1>15. Place'
  BY <1>13, <1>14 DEF Place
<1>16. Tokens' = Tokens /\ tokens' \in Seq(Tokens) /\ Len(Stream') \in Nat /\ Len(Stream) <= Len(Stream') /\ Len(Stream) \in Nat
  BY <1>0, <1>1, <1>2, <1>12, SameMaps, SendsKeeps, StreamGrows, StreamIs
<1>17. nRead' \in Nat /\ nRead' <= Len(Stream') /\ cut' \in BOOLEAN
  <2>1. nRead' \in Nat /\ nRead' <= Len(Stream')
    BY <1>1, <1>2, <1>16
  <2>2. cut' \in BOOLEAN
    BY <1>1, <1>2
  <2> QED
    BY <2>1, <2>2
<1>18. Now' \in Moments' /\ d'.esc # 1
  <2>1. Now'.d = d'
    BY DEF Now
  <2> QED
    BY <1>9, <1>14, <2>1
<1>19. mode' \in Modes /\ eol' \in Eols /\ enter' \in Enters
  BY <1>2 DEF IInv
<1> QED
  BY <1>15, <1>16, <1>17, <1>18, <1>19 DEF IInv

\* Wherever TCP has cut the stream, what the gateway has made of the bytes read so far is
\* what the tokens read so far mean, and the state of both parsers is that of the byte of
\* the token they are in (Process, normalizeEOL and decode of pumpTCPToWS).
THEOREM Invariance == Spec => []IInv
<1>1. IInv /\ UNCHANGED vars => IInv'
  <2> SUFFICES ASSUME IInv, UNCHANGED vars PROVE IInv'
    OBVIOUS
  <2>0. Set /\ tokens \in Seq(Tokens)
    BY SetIs DEF IInv
  <2>1. Sends
    BY DEF vars, Sends
  <2>2. Tokens' = Tokens /\ tokens' = tokens /\ nRead' = nRead /\ cut' = cut /\ Now' = Now
    BY <2>1, SameMaps DEF vars, Sends, Now
  <2>3. Stream' = Stream
    BY <2>1, SameMaps DEF vars, Sends, Stream, All
  <2>4. Place'
    <3>1. PICK n, y, bad, k, o : n = nRead /\ y = Now /\ bad = cut /\ At(n, k, o) /\ Fits(y, k, o, bad)
      BY DEF IInv, Place
    <3>2. At(n, k, o)' /\ Fits(y, k, o, bad)'
      BY <2>0, <2>1, <3>1, AtStill, FitsStill
    <3> QED
      BY <2>2, <3>1, <3>2 DEF Place
  <2> QED
    BY <2>2, <2>3, <2>4 DEF IInv, vars
<1>2. IInv /\ [Next]_vars => IInv'
  BY <1>1, SendIInv, ReadIInv DEF Next
<1> QED
  BY <1>2, InitIInv, PTL DEF Spec

(* What the invariant says.                                                *)

LEMMA IsTyped == IInv => TypeOK
<1> SUFFICES ASSUME IInv PROVE TypeOK
  OBVIOUS
<1>1. Set
  BY SetIs DEF IInv
<1>2. t \in Inputs /\ d \in Decoders /\ console \in Seq(Bytes) /\ replies \in Seq(Bytes) /\ keys \in Seq(KeyEvents)
  BY DEF IInv, Now, Moments
<1>3. /\ t.state \in {"data", "iac", "opt", "sb", "sbiac"} /\ t.cmd \in Bytes /\ t.sb \in Seq(Bytes)
      /\ t.will \subseteq Bytes /\ t.do \subseteq Bytes /\ {t.announced, t.lastCR} \subseteq BOOLEAN
      /\ t.size \in Sizes
  BY <1>2 DEF Inputs
<1>4. t.size = NoSize \/ (t.size.cols \in 1..Word /\ t.size.rows \in 1..Word)
  <2> DEFINE N == 1..Word
  <2>1. Sizes = {NoSize} \cup [cols : N, rows : N]
    BY Zenon DEF Sizes
  <2> HIDE DEF N
  <2>2. t.size = NoSize \/ (t.size.cols \in N /\ t.size.rows \in N)
    BY <1>3, <2>1
  <2> QED
    BY <2>2 DEF N
<1>5. d.esc \in {0, 2} /\ d.param \in Seq(Digits)
  BY <1>2 DEF Decoders, IInv
<1>6. nRead \in 0..Len(Stream)
  <2>1. Len(Stream) \in Nat /\ nRead \in Nat /\ nRead <= Len(Stream)
    BY <1>1, StreamIs DEF IInv
  <2> QED
    BY <2>1
<1>7. mode \in Modes /\ eol \in Eols /\ enter \in Enters /\ tokens \in Seq(Tokens) /\ cut \in BOOLEAN
  BY DEF IInv
<1>8. keys \in Seq([kind : KeyKinds, ch : Bytes])
  BY <1>2 DEF KeyEvents
<1> QED
  BY <1>2, <1>3, <1>4, <1>5, <1>6, <1>7, <1>8, Zenon DEF TypeOK

\* When all has been read, all tokens have been.
LEMMA WhenAllRead ==
  ASSUME IInv, AllRead
  PROVE  /\ console = All(Meant) /\ t.size = SizeAt(Len(tokens))
         /\ ~cut /\ eol \in {"cr", "lf"} => keys = All(KeyOf)
<1>1. Set /\ tokens \in Seq(Tokens) /\ d.esc # 1
  BY SetIs DEF IInv
<1>2. PICK n, y, bad, k, o : n = nRead /\ y = Now /\ bad = cut /\ At(n, k, o) /\ Fits(y, k, o, bad)
  BY DEF IInv, Place
<1>3. k = Len(tokens) /\ o = 0 /\ Beginning(k) = tokens
  <2>1. At(Len(Stream), k, o)
    BY <1>2 DEF AllRead
  <2> QED
    BY <1>1, <2>1, AtTheEnd
<1>4. y.t = t /\ y.raw = console /\ y.d = d /\ y.keys = keys
  BY <1>2 DEF Now
<1>5. console = Flat(MeantOf, tokens) \o <<>>
  BY <1>2, <1>3, <1>4, PartlyNothing DEF Fits, ConsoleAt
<1>6. Flat(MeantOf, tokens) \in Seq(Bytes)
  <2> DEFINE A == Tokens
             w == MeantOf
  <2>1. IsMap(w, A, Seq(Bytes)) /\ tokens \in Seq(A)
    BY <1>1, MapsAre
  <2> HIDE DEF A, w
  <2>2. Flat(w, tokens) \in Seq(Bytes)
    BY <2>1, FlatIs
  <2> QED
    BY <2>2 DEF w
<1>7. console = All(Meant)
  <2>1. Flat(MeantOf, tokens) \o <<>> = Flat(MeantOf, tokens)
    BY <1>6, ConcatEmptySeq
  <2> QED
    BY <1>1, <1>5, <2>1, AllIs
<1>8. t.size = SizeAt(Len(tokens))
  BY <1>2, <1>3, <1>4 DEF Fits
<1>9. ASSUME ~cut, eol \in {"cr", "lf"} PROVE keys = All(KeyOf)
  <2>1. KeysAt(y.d, y.keys, tokens[k + 1], o, Flat(KeysOf, Beginning(k)))
    BY <1>2, <1>9 DEF Fits
  <2>2. Ready(d, keys, Flat(KeysOf, tokens))
    BY <1>3, <1>4, <2>1, KeysBetween
  <2>3. keys = Flat(KeysOf, tokens)
    BY <1>1, <2>2 DEF Ready
  <2> QED
    BY <1>1, <2>3, AllIs
<1> QED
  BY <1>7, <1>8, <1>9

LEMMA IsSettled == IInv => NegotiationSettles
<1> SUFFICES ASSUME IInv PROVE NegotiationSettles
  OBVIOUS
<1>1. PICK n, y, bad, k, o : n = nRead /\ y = Now /\ bad = cut /\ At(n, k, o) /\ Fits(y, k, o, bad)
  BY DEF IInv, Place
<1>2. y.t = t /\ y.rep = replies
  BY <1>1 DEF Now
<1>3. Talk(t, replies)
  BY <1>1, <1>2 DEF Fits
<1>4. /\ \A opt \in {ECHO, SGA} : Agreed(replies, opt, opt \in t.will, WILL, WONT)
      /\ \A opt \in {SGA, NAWS} : Agreed(replies, opt, opt \in t.do, DO, DONT)
      /\ \A opt \in {NAWS, Other} : Denied(replies, opt, WILL, WONT)
      /\ \A opt \in {ECHO, Other} : Denied(replies, opt, DO, DONT)
      /\ t.will \subseteq {ECHO, SGA} /\ t.do \subseteq {SGA, NAWS}
  BY <1>3 DEF Talk
<1>5. ASSUME NEW opt \in {ECHO, SGA} PROVE Settled(replies, opt, Own, WILL, opt \in t.will)
  <2>1. Agreed(replies, opt, opt \in t.will, WILL, WONT)
    BY <1>4
  <2> QED
    BY <2>1 DEF Agreed, Alternates, Settled, Own
<1>6. ASSUME NEW opt \in {SGA, NAWS} PROVE Settled(replies, opt, Peer, DO, opt \in t.do)
  <2>1. Agreed(replies, opt, opt \in t.do, DO, DONT)
    BY <1>4
  <2> QED
    BY <2>1 DEF Agreed, Alternates, Settled, Peer
<1>7. /\ \A opt \in {NAWS, Other} : \A i \in About(replies, opt, Own) : Said(replies, i) = WONT
      /\ \A opt \in {ECHO, Other} : \A i \in About(replies, opt, Peer) : Said(replies, i) = DONT
  BY <1>4 DEF Denied, Own, Peer
<1> QED
  BY <1>4, <1>5, <1>6, <1>7 DEF NegotiationSettles

LEMMA IsLastSize == IInv => SizeIsLastReported
<1> SUFFICES ASSUME IInv, AllRead
             PROVE  LET reported == {i \in DOMAIN tokens : tokens[i] \in {"naws80", "naws255"}}
                        window   == Windows[tokens[Max(reported)]]
                    IN t.size = IF reported = {} THEN NoSize ELSE [cols |-> window[1], rows |-> window[2]]
  BY DEF SizeIsLastReported
<1>1. tokens \in Seq(Tokens)
  BY DEF IInv
<1>2. {i \in DOMAIN tokens : tokens[i] \in {"naws80", "naws255"}} = Reported(Len(tokens))
  BY <1>1, LenProperties DEF Reported
<1>3. t.size = SizeAt(Len(tokens))
  BY WhenAllRead
<1> QED
  BY <1>2, <1>3 DEF SizeAt

--------------------------------------------------------------------------------
(* The theorems.                                                           *)

\* The parsers stay within their types for any number of tokens and reads: a command or an
\* option is a byte, a window size is two uint16 other than 0, and no read leaves the key
\* decoder behind a lone ESC (terminal.go:29-48, tui.go:89-92, 157-160).
THEOREM TypeCorrect == Spec => []TypeOK
BY Invariance, IsTyped, PTL

\* Every byte of every key reaches the console as typed, each form of Enter as one EOL, and
\* no Telnet command leaves a byte behind, for all cuts of the stream into reads; with
\* eol = "raw" an Enter is what was sent for it (terminal.go:138-255).
THEOREM AsTyped == Spec => []ConsoleAsTyped
<1>1. IInv => ConsoleAsTyped
  BY WhenAllRead DEF ConsoleAsTyped
<1> QED
  BY <1>1, Invariance, PTL

\* For all requests and offers, of the sides supported (the gateway's ECHO and SGA, the
\* terminal's SGA and NAWS) the same thing is never said twice in a row, and a side is on
\* exactly when the last word about it was WILL or DO; of the others nothing but refusals
\* is said, and none is ever on (terminal.go:90-136).
THEOREM Settles == Spec => []NegotiationSettles
BY Invariance, IsSettled, PTL

\* The window size is the last one the terminal has reported with rows in it, whichever
\* bytes 255 it holds and wherever its subnegotiation is cut (terminal.go:153-218).
THEOREM LastReported == Spec => []SizeIsLastReported
BY Invariance, IsLastSize, PTL

\* The control TUI receives the keys typed, each once, where Enter is one byte (eol "cr" or
\* "lf"), unless a read ends inside a cursor or page key, whose first byte may then be taken
\* for the Esc key (tui.go:94-162).
THEOREM KeysTyped == Spec => []KeysAsTyped
<1>1. IInv => KeysAsTyped
  BY WhenAllRead DEF KeysAsTyped
<1> QED
  BY <1>1, Invariance, PTL

================================================================================
