------------------------------ MODULE LazyFile ------------------------------
(***************************************************************************)
(* The lazily read file cord of gc/cord/cordxtra.c:                        *)
(*   CORD_from_file_lazy_inner  the state: FILE, lf_current, empty cache   *)
(*   CORD_lf_func               a character: cache probe, or refill        *)
(*   refill_cache               under the allocation lock: fseek if the    *)
(*                              FILE is elsewhere, fread a line, publish   *)
(* Several threads may read one cord.  The cache is direct mapped: slot    *)
(* DIV_LINE_SZ(MOD_CACHE_SZ(i)) holds a pointer to a line, lines are never *)
(* changed once published (CORD_USE_GCC_ATOMIC: a release store and an     *)
(* acquire load).  The FILE's position and lf_current are shared and only  *)
(* touched under the lock.                                                 *)
(*                                                                         *)
(* Data abstraction: byte n of the file is the number n, so a character    *)
(* read tells where in the file it came from; "none" is a byte fread did   *)
(* not fill.  Lines are numbered in allocation order; 0 is NULL.           *)
(***************************************************************************)
EXTENDS Naturals, Sequences

CONSTANTS
    Threads,
    FileLen,     \* len: the file's size
    LineSz,      \* LINE_SZ
    CacheLines,  \* CACHE_SZ / LINE_SZ
    MaxReads,    \* CORD_lf_func calls per thread
    NoThread

ASSUME /\ FileLen \in Nat \ {0}
       /\ LineSz \in Nat \ {0} /\ CacheLines \in Nat \ {0}
       /\ MaxReads \in Nat /\ NoThread \notin Threads

CacheSz == CacheLines * LineSz
Slots == 0..(CacheLines - 1)
Offsets == 0..(LineSz - 1)

VARIABLES
    cache,      \* lf_cache: slot -> line, or 0
    heap,       \* line -> [tag, data]
    filePos,    \* the FILE's position
    lfCurrent,  \* lf_current
    lock,       \* holder of the allocation lock, or NoThread
    aborted,    \* ABORT() was called
    pc,         \* thread -> "idle" | "probe" | "lock" | "seek" | "read" | "publish"
    pos,        \* thread -> i, the character it wants
    nc,         \* thread -> rd.new_cache
    res,        \* thread -> the character its last call returned
    reads       \* thread -> calls made

vars == <<cache, heap, filePos, lfCurrent, lock, aborted, pc, pos, nc, res,
          reads>>

\* LINE_START, DIV_LINE_SZ and the slot of file position n.
LINE_START(n) == n - (n % LineSz)
DIV_LINE_SZ(n) == n \div LineSz

(* A mutation: the slot computed by dividing where the code masks. *)
SlotOfDivided(n) == (n \div LineSz) \div CacheLines

\* DIV_LINE_SZ(MOD_CACHE_SZ(n))
SlotOf(n) == DIV_LINE_SZ(n % CacheSz)

(* A mutation: seeking only when the FILE is behind the line. *)
NeedSeekForwardOnly(lineStart) == lineStart > lfCurrent

\* line_start != state->lf_current: the FILE is not at the line already.
NeedSeek(lineStart) == lineStart # lfCurrent

(* A mutation: lf_current left at the start of the line just read. *)
CurrentAfterLineStart(lineStart) == lineStart

\* state->lf_current = line_start + LINE_SZ
CurrentAfter(lineStart) == lineStart + LineSz

(* A mutation: a lock that does not exclude. *)
CanLockAlways(t) == TRUE

\* GC_call_with_alloc_lock can run t's callback.
CanLock(t) == lock = NoThread

\* CORD_from_file_lazy_inner: the dummy read and fseek(f, 0) leave the
\* FILE at 0; every slot NULL; lf_current = 0.
Init ==
    /\ cache = [s \in Slots |-> 0]
    /\ heap = <<>>
    /\ filePos = 0
    /\ lfCurrent = 0
    /\ lock = NoThread
    /\ aborted = FALSE
    /\ pc = [t \in Threads |-> "idle"]
    /\ pos = [t \in Threads |-> 0]
    /\ nc = [t \in Threads |-> 0]
    /\ res = [t \in Threads |-> 0]
    /\ reads = [t \in Threads |-> 0]

Goto(t, p) == pc' = [pc EXCEPT ![t] = p]

\* The cord asks for character i (CORD_pos_fetch and friends).
Fetch(t) ==
    /\ pc[t] = "idle" /\ reads[t] < MaxReads /\ ~aborted
    /\ \E i \in 0..(FileLen - 1) : pos' = [pos EXCEPT ![t] = i]
    /\ Goto(t, "probe")
    /\ UNCHANGED <<cache, heap, filePos, lfCurrent, lock, aborted, nc, res,
                   reads>>

\* CORD_lf_func: cl = __atomic_load_n(slot); a hit returns cl->data[...];
\* a miss allocates rd.new_cache (GC_NEW_ATOMIC: contents not cleared).
Probe(t) ==
    /\ pc[t] = "probe"
    /\ LET cl == cache[SlotOf(pos[t])] IN
       IF cl # 0 /\ heap[cl].tag = DIV_LINE_SZ(pos[t])
       THEN /\ res' = [res EXCEPT ![t] = heap[cl].data[pos[t] % LineSz]]
            /\ reads' = [reads EXCEPT ![t] = @ + 1]
            /\ Goto(t, "idle")
            /\ UNCHANGED <<heap, nc>>
       ELSE /\ heap' = Append(heap, [tag |-> FileLen, data |-> [k \in Offsets |-> "none"]])
            /\ nc' = [nc EXCEPT ![t] = Len(heap) + 1]
            /\ Goto(t, "lock")
            /\ UNCHANGED <<res, reads>>
    /\ UNCHANGED <<cache, filePos, lfCurrent, lock, aborted, pos>>

Lock(t) ==
    /\ pc[t] = "lock"
    /\ CanLock(t)
    /\ lock' = t
    /\ Goto(t, "seek")
    /\ UNCHANGED <<cache, heap, filePos, lfCurrent, aborted, pos, nc, res, reads>>

\* refill_cache: if (line_start != lf_current && fseek(f, line_start) != 0)
RefillSeek(t) ==
    /\ pc[t] = "seek"
    /\ filePos' = IF NeedSeek(LINE_START(pos[t])) THEN LINE_START(pos[t])
                  ELSE filePos
    /\ Goto(t, "read")
    /\ UNCHANGED <<cache, heap, lfCurrent, lock, aborted, pos, nc, res, reads>>

\* fread(new_cache->data, 1, LINE_SZ, f) from wherever the FILE is; a read
\* that stops short of i is ABORT("fread failed").
RefillRead(t) ==
    /\ pc[t] = "read"
    /\ LET n == IF FileLen - filePos < LineSz THEN FileLen - filePos ELSE LineSz
       IN  /\ heap' = [heap EXCEPT ![nc[t]].data =
                          [k \in Offsets |-> IF k < n THEN filePos + k ELSE @[k]]]
           /\ filePos' = filePos + n
           /\ IF n <= pos[t] - LINE_START(pos[t])
              THEN aborted' = TRUE /\ Goto(t, "aborted")
              ELSE UNCHANGED aborted /\ Goto(t, "publish")
    /\ UNCHANGED <<cache, lfCurrent, lock, pos, nc, res, reads>>

\* new_cache->tag = DIV_LINE_SZ(file_pos); the release store into the slot;
\* lf_current = line_start + LINE_SZ; return the character; unlock.
RefillPublish(t) ==
    /\ pc[t] = "publish"
    /\ heap' = [heap EXCEPT ![nc[t]].tag = DIV_LINE_SZ(pos[t])]
    /\ cache' = [cache EXCEPT ![SlotOf(pos[t])] = nc[t]]
    /\ lfCurrent' = CurrentAfter(LINE_START(pos[t]))
    /\ res' = [res EXCEPT ![t] = heap[nc[t]].data[pos[t] % LineSz]]
    /\ reads' = [reads EXCEPT ![t] = @ + 1]
    /\ lock' = NoThread
    /\ Goto(t, "idle")
    /\ UNCHANGED <<filePos, aborted, pos, nc>>

\* Every thread has made its calls, or ABORT() ended the process.
AllReturned ==
    /\ \/ \A t \in Threads : pc[t] = "idle" /\ reads[t] = MaxReads
       \/ aborted
    /\ UNCHANGED vars

Next ==
    \/ \E t \in Threads :
          \/ Fetch(t) \/ Probe(t) \/ Lock(t)
          \/ RefillSeek(t) \/ RefillRead(t) \/ RefillPublish(t)
    \/ AllReturned

Spec == Init /\ [][Next]_vars

-----------------------------------------------------------------------------
(***************************************************************************)
(* Reads return the file (CORD_lf_func): whatever the threads read and in  *)
(* whatever order their probes and refills interleave, a call returns the  *)
(* byte at its position, and the refill never aborts.  It fails if the     *)
(* FILE is not where lf_current says when a refill skips the fseek, or if  *)
(* two refills share the FILE at once.                                     *)
(***************************************************************************)
ReadReturnsFileByte ==
    /\ ~aborted
    /\ \A t \in Threads : pc[t] = "idle" /\ reads[t] > 0 => res[t] = pos[t]

(***************************************************************************)
(* The cache is coherent (the comment on lf_state): every published line   *)
(* sits in the slot of its tag and holds the bytes of that line of the     *)
(* file, so a probe that checks the tag can trust the data.                *)
(***************************************************************************)
CacheCoherent ==
    \A s \in Slots : cache[s] # 0 =>
        LET l == heap[cache[s]] IN
        /\ SlotOf(l.tag * LineSz) = s
        /\ \A k \in Offsets :
              l.tag * LineSz + k < FileLen => l.data[k] = l.tag * LineSz + k
=============================================================================
