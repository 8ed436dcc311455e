------------------------------ MODULE GuessMap ------------------------------
(***************************************************************************)
(* What the guessing-procedure registry promises (spec 4.1, design note on *)
(* override semantics): for each scheme name, compared without regard to   *)
(* case, a lookup answers the procedure registered last under that name,   *)
(* or nothing.  Registration and lookup are atomic.                        *)
(***************************************************************************)
CONSTANTS Threads, Keys, Procs, NoProc

VARIABLES latest,  \* key -> the procedure registered last, or NoProc
          found    \* thread -> what its last lookup answered

Init ==
    /\ latest = [f \in Keys |-> NoProc]
    /\ found = [t \in Threads |-> NoProc]

Register(f, p) ==
    /\ latest' = [latest EXCEPT ![f] = p]
    /\ UNCHANGED found

Find(t, f) ==
    /\ found' = [found EXCEPT ![t] = latest[f]]
    /\ UNCHANGED latest

Next == \E t \in Threads, f \in Keys :
            \/ \E p \in Procs : Register(f, p)
            \/ Find(t, f)

Spec == Init /\ [][Next]_<<latest, found>>
=============================================================================
