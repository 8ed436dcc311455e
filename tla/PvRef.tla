-------------------------------- MODULE PvRef --------------------------------
(***************************************************************************)
(* Pattern variable references of src/gauche/priv/macroP.h: an immediate   *)
(* word that packs a pattern variable's nesting level and index,           *)
(*   SCM_MAKE_PVREF(level, count)                                          *)
(*     = (level << 24) | (count << 16) | SCM_PVREF_TAG                     *)
(* and the macros that recognise and take one apart.  A word is the        *)
(* function from byte index (0 least significant) to byte of its 64 bits,  *)
(* so the shifts and the OR are taken byte by byte.  The state is the last *)
(* reference made and what it was made of.                                 *)
(***************************************************************************)
EXTENDS Integers, Bitwise

CONSTANTS
    Levels,   \* levels the syntax-rules compiler passes
    Counts    \* pattern variable indices it passes

ASSUME Levels \cup Counts \subseteq 0..65535

SCM_PVREF_TAG == 19  \* 0x13

Bytes8 == 0..7

\* Byte i of the word SCM_WORD(v) << (8 * k), for v of two bytes.
ShiftedByte(v, k, i) ==
    IF i - k \in {0, 1} THEN (v \div 256^(i - k)) % 256 ELSE 0

SCM_MAKE_PVREF(level, count) ==
    [i \in Bytes8 |->
        ShiftedByte(level, 3, i) | ShiftedByte(count, 2, i)
            | (IF i = 0 THEN SCM_PVREF_TAG ELSE 0)]

\* (SCM_WORD(obj) & 0xff) == SCM_PVREF_TAG
SCM_PVREF_P(w) == w[0] = SCM_PVREF_TAG

\* (SCM_WORD(obj) >> 24) & 0xff
SCM_PVREF_LEVEL(w) == w[3]

(* A mutation: the index read from the level's byte. *)
PvrefCountHighByte(w) == w[3]

\* (SCM_WORD(obj) >> 16) & 0xff
SCM_PVREF_COUNT(w) == w[2]

VARIABLES
    pvref,   \* the last SCM_MAKE_PVREF result, or the empty word
    made     \* <<level, count>> it was made of, or <<>> before the first

pvars == <<pvref, made>>

PInit ==
    /\ pvref = [i \in Bytes8 |-> 0]
    /\ made = <<>>

\* The compiler makes a reference for a pattern variable.
MakePvref ==
    \E l \in Levels, c \in Counts :
        /\ pvref' = SCM_MAKE_PVREF(l, c)
        /\ made' = <<l, c>>

PNext == MakePvref

PSpec == PInit /\ [][PNext]_pvars

-----------------------------------------------------------------------------
(***************************************************************************)
(* A reference decodes to what it was made of (SCM_MAKE_PVREF against      *)
(* SCM_PVREF_P, SCM_PVREF_LEVEL, SCM_PVREF_COUNT): for every level and     *)
(* index below 256, the word is recognised as a reference and yields that  *)
(* level and that index back.                                              *)
(***************************************************************************)
PvrefRoundTrip ==
    made # <<>> =>
        /\ SCM_PVREF_P(pvref)
        /\ SCM_PVREF_LEVEL(pvref) = made[1]
        /\ SCM_PVREF_COUNT(pvref) = made[2]
=============================================================================
