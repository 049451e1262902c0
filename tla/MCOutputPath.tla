------------------------------ MODULE MCOutputPath ------------------------------
(* Values for the model-checking runs of OutputPath.                       *)
EXTENDS OutputPath

\* BEL BS TAB LF CR ESC 9 ; A C D G H [ m: A is text, and the end of a sequence the
\* filter does not know.
MCAlphabet == {7, BS, TAB, LF, CR, ESC, 57, Semicolon, 65, Forward, Back, 71, 72, Bracket, 109}
================================================================================
