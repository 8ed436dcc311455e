---------------------------- MODULE MCOutputPort ----------------------------
(* Model-checking instance of OutputPort: one narrow, one wide and one bad *)
(* character, given as model values in the .cfg files.                    *)
EXTENDS OutputPort

CONSTANTS a, k, x

MCNarrow == {a}
MCWide == {k}
MCBad == {x}
=============================================================================
