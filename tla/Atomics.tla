------------------------------ MODULE Atomics ------------------------------
(***************************************************************************)
(* The atomic helpers of src/core.c, built when SCM_ATOMIC_NEED_HELPER     *)
(* (libatomic_ops without GNU C atomics):                                  *)
(*   Scm__AtomicCompareExchange(loc, expectedloc, newval)                  *)
(*   Scm__AtomicExchange(loc, newval)                                      *)
(* called by several threads on one ScmAtomicVar.  The AO_ primitives are  *)
(* single atomic steps; the loads of *loc and the helper's own statements  *)
(* are steps of their own.  won[t] records the values the successful       *)
(* compare-and-swaps of t's current exchange replaced.                     *)
(***************************************************************************)
EXTENDS Naturals

CONSTANTS
    Threads,
    Words,     \* ScmAtomicWord values
    MaxOps     \* helper calls per thread

ASSUME MaxOps \in Nat

VARIABLES
    loc,       \* *loc
    pc,        \* thread -> "idle" | "x_load" | "x_cas" | "cx_cas"
    op,        \* thread -> "xchg" | "cmpxchg": its current or last call
    newval,    \* thread -> newval
    current,   \* thread -> Scm__AtomicExchange's current
    expected,  \* thread -> *expectedloc
    ret,       \* thread -> what its last call returned
    won,       \* thread -> values its exchange's successful CASes replaced
    ops        \* thread -> calls made

vars == <<loc, pc, op, newval, current, expected, ret, won, ops>>

Init ==
    /\ loc \in Words
    /\ pc = [t \in Threads |-> "idle"]
    /\ op = [t \in Threads |-> "xchg"]
    /\ newval \in [Threads -> Words]
    /\ current \in [Threads -> Words]
    /\ expected \in [Threads -> Words]
    /\ ret = [t \in Threads |-> 0]
    /\ won = [t \in Threads |-> {}]
    /\ ops = [t \in Threads |-> 0]

Goto(t, p) == pc' = [pc EXCEPT ![t] = p]

Start(t, o, v) ==
    /\ pc[t] = "idle" /\ ops[t] < MaxOps
    /\ op' = [op EXCEPT ![t] = o]
    /\ newval' = [newval EXCEPT ![t] = v]
    /\ ops' = [ops EXCEPT ![t] = @ + 1]

\* Scm__AtomicExchange(loc, v) is entered.
CallExchange(t) ==
    /\ \E v \in Words : Start(t, "xchg", v)
    /\ won' = [won EXCEPT ![t] = {}]
    /\ Goto(t, "x_load")
    /\ UNCHANGED <<loc, current, expected, ret>>

\* do { current = *loc;
ExchangeLoad(t) ==
    /\ pc[t] = "x_load"
    /\ current' = [current EXCEPT ![t] = loc]
    /\ Goto(t, "x_cas")
    /\ UNCHANGED <<loc, op, newval, expected, ret, won, ops>>

\* } while (AO_compare_and_swap_full(loc, current, newval)); return current;
\* The loop goes round again when the swap succeeded and returns when it
\* failed.
ExchangeCas(t) ==
    /\ pc[t] = "x_cas"
    /\ IF loc = current[t]
       THEN /\ loc' = newval[t]
            /\ won' = [won EXCEPT ![t] = @ \cup {current[t]}]
            /\ Goto(t, "x_load")
            /\ UNCHANGED ret
       ELSE /\ ret' = [ret EXCEPT ![t] = current[t]]
            /\ Goto(t, "idle")
            /\ UNCHANGED <<loc, won>>
    /\ UNCHANGED <<op, newval, current, expected, ops>>

\* Scm__AtomicCompareExchange(loc, expectedloc, v): expected = *expectedloc.
CallCompareExchange(t) ==
    /\ \E v, e \in Words :
          /\ Start(t, "cmpxchg", v)
          /\ expected' = [expected EXCEPT ![t] = e]
    /\ Goto(t, "cx_cas")
    /\ UNCHANGED <<loc, current, ret, won>>

\* oldval = AO_fetch_compare_and_swap_full(loc, expected, newval);
\* *expectedloc = expected; return oldval == expected;
CompareExchangeCas(t) ==
    /\ pc[t] = "cx_cas"
    /\ loc' = IF loc = expected[t] THEN newval[t] ELSE loc
    /\ ret' = [ret EXCEPT ![t] = IF loc = expected[t] THEN 1 ELSE 0]
    /\ Goto(t, "idle")
    /\ UNCHANGED <<op, newval, current, expected, won, ops>>

\* Every thread has made its calls.
AllReturned ==
    /\ \A t \in Threads : pc[t] = "idle" /\ ops[t] = MaxOps
    /\ UNCHANGED vars

Next ==
    \/ \E t \in Threads :
          \/ CallExchange(t) \/ ExchangeLoad(t) \/ ExchangeCas(t)
          \/ CallCompareExchange(t) \/ CompareExchangeCas(t)
    \/ AllReturned

Spec == Init /\ [][Next]_vars

-----------------------------------------------------------------------------
(***************************************************************************)
(* Exchange is atomic (Scm__AtomicExchange stands for atomic_exchange):    *)
(* when a call returns, it has stored newval by exactly one swap, and that *)
(* swap replaced the value it returns.                                     *)
(***************************************************************************)
ExchangeIsAtomic ==
    \A t \in Threads : pc[t] = "idle" /\ op[t] = "xchg" /\ ops[t] > 0 =>
        won[t] = {ret[t]}
=============================================================================
