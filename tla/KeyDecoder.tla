------------------------------- MODULE KeyDecoder -------------------------------
(***************************************************************************)
(* The input decoder of the control TUI: type keyDecoder of                *)
(* gateway-go/tui.go.  decode turns the console bytes of one read into key *)
(* events; what it remembers from one read to the next is the record d.    *)
(***************************************************************************)
EXTENDS Naturals, Sequences, SequencesExt

ESC == 27

\* The bytes the decoder tells apart.
Bracket   == 91    \* [
LetterO   == 79    \* O
Tilde     == 126
Semicolon == 59
Digits    == 48..57

KeyKinds == {"char", "enter", "esc", "up", "down", "left", "right", "pgup", "pgdn"}

Char(b) == [kind |-> "char", ch |-> b]
Named(k) == [kind |-> k, ch |-> 0]

NewDecoder == [esc |-> 0, param |-> <<>>]

Decoded(d, keys) == [d |-> d, keys |-> keys]

emitPlain(b) == <<IF b \in {13, 10} THEN Named("enter") ELSE Char(b)>>

\* Mutant: the parameter of the last sequence is still there.
ParamAtStart_Kept(d) == d.param

ParamAtStart(d) == <<>>

Arrow(b) == CASE b = 65 -> "up" [] b = 66 -> "down" [] b = 67 -> "right" [] b = 68 -> "left"

\* ESC [ 5 ~ and ESC [ 6 ~.
PageKey(param) ==
  CASE param = <<53>> -> <<Named("pgup")>>
    [] param = <<54>> -> <<Named("pgdn")>>
    [] param \notin {<<53>>, <<54>>} -> <<>>

decodeByte(d, b) ==
  CASE d.esc = 0 /\ b = ESC -> Decoded([d EXCEPT !.esc = 1], <<>>)
    [] d.esc = 0 /\ b # ESC -> Decoded(d, emitPlain(b))
    [] d.esc = 1 /\ b \in {Bracket, LetterO} -> Decoded([esc |-> 2, param |-> ParamAtStart(d)], <<>>)
    [] d.esc = 1 /\ b = ESC -> Decoded(d, <<Named("esc")>>)
    [] d.esc = 1 /\ b \notin {Bracket, LetterO, ESC} ->
         Decoded([d EXCEPT !.esc = 0], <<Named("esc")>> \o emitPlain(b))
    [] d.esc = 2 /\ b \in 65..68 -> Decoded([d EXCEPT !.esc = 0], <<Named(Arrow(b))>>)
    [] d.esc = 2 /\ b = Tilde -> Decoded([d EXCEPT !.esc = 0], PageKey(d.param))
    [] d.esc = 2 /\ b \in Digits -> Decoded([d EXCEPT !.param = Append(@, b)], <<>>)
    [] d.esc = 2 /\ b = Semicolon -> Decoded(d, <<>>)
    [] d.esc = 2 /\ b \notin (65..68) \cup Digits \cup {Tilde, Semicolon} -> Decoded([d EXCEPT !.esc = 0], <<>>)

\* A read that ends in ESC ends in the Esc key.
AtEndOfRead(r) == IF r.d.esc = 1 THEN Decoded([r.d EXCEPT !.esc = 0], Append(r.keys, Named("esc"))) ELSE r

decode(d, data) ==
  AtEndOfRead(FoldLeft(LAMBDA acc, b : LET r == decodeByte(acc.d, b) IN Decoded(r.d, acc.keys \o r.keys),
                       Decoded(d, <<>>), data))

================================================================================
