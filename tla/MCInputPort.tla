---------------------------- MODULE MCInputPort -----------------------------
(* Model-checking instance of InputPort: one narrow, one wide and one      *)
(* illegal character; texts of up to three characters; the model values   *)
(* come from the .cfg files.                                               *)
EXTENDS InputPort

CONSTANTS a, k, x

MCNarrow == {a}
MCWide == {k}
MCBad == {x}
=============================================================================
