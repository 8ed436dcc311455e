# TLA+ models of Gauche's charconv, core runtime and cord search

The sources modelled are:

- `src/ext/charconv/charconv.c`: the conversion ports, the guess registry and the UCS4 bridge;
- `src/src/core.c`: initialisation, `Scm_SimpleMain` and the ways a process exits, cleanup handlers, cond-expand features and the atomic helpers;
- `src/src/test-extra.c`: the main program that drives core.c;
- `src/src/gauche/priv/macroP.h`: pattern variable references;
- `src/gc/cord/cordxtra.c`: cord comparison, search, iteration procs, eager and lazy file cords.

Every module is translated from those lines. `PROJECT.json` maps each definition to the lines it models.

## The system and its parts

**charconv** (`spec.md`) puts a character-set conversion between a Scheme port and a remote port.
- Reading goes through an *input conversion port*. The buffered-port layer calls `conv_input_filler` whenever its buffer empties. The filler:
  1. tops up the scratch buffer `info->buf` from the remote (`Scm_Getz`);
  2. runs the engine (`jconv`) into the port's buffer;
  3. moves the unconverted tail to the front.

  At end of input it asks the engine for the reset sequence and closes an owned remote.
- Writing goes through an *output conversion port*. The layer calls `conv_output_flusher` with its write buffer. The flusher loops, converting into the scratch buffer and writing it out with `Scm_Putz` each time it fills. `conv_output_closer` flushes the scratch buffer, writes the reset sequence and closes the engine.
- Two process-wide singletons are shared by all threads:
  - the *guess registry*: a linked list of `(name, proc)` under `guess.mutex`, which `Scm_GuessCES` and the `*JP`-style input ports consult;
  - the *UCS4 bridge*: two shared `jconv` contexts under `ucsconv.mutex`, used by `ucstochar` and `chartoucs`.

**core.c**
- Initialises the runtime once (`Scm_Init`, which panics on an ABI signature mismatch). `Scm_SimpleMain` runs the Scheme procedure `main` and exits with its result. `Scm_Exit` runs the cleanup handlers and exits with the low byte of its code; `Scm_ObjToExitCode` turns `(exit obj)`'s argument into that code. `Scm_Panic` and `Scm_Abort` leave without cleaning up.
- Keeps the cleanup-handler list that `Scm_Cleanup` and `Scm_Exit` run once.
- Keeps the cond-expand feature lists (`alist` plus the disabled `dlist`) under a mutex.
- Provides `Scm__AtomicCompareExchange` and `Scm__AtomicExchange` on top of libatomic_ops, where GNU C atomics are missing.

**cordxtra.c**
- Compares cords (`CORD_cmp`, `CORD_ncmp`) and searches them (`CORD_str`, with a sliding window packed into an `unsigned long`; `CORD_chr`, `CORD_rchr`).
- Copies cords out (`CORD_fill_buf`, `CORD_to_char_star`) through procs that `CORD_iter5` and `CORD_riter4` call on each character or on the rest of each string leaf.
- Reads small files eagerly (`CORD_from_file_eager`), through an extensible-cord buffer and `CORD_nul` runs for NULs.
- Implements lazy file cords: a direct-mapped cache of file lines. `refill_cache` fills it under the GC allocation lock, and several threads may read one cord.

**test-extra.c** is a main program: `Scm_Init(GAUCHE_SIGNATURE)`, some set-up, then `Scm_SimpleMain`.

**macroP.h** packs a pattern variable's level and index into an immediate word (`SCM_MAKE_PVREF`) and takes it apart again.

The three source areas do not call each other. The input and output ports depend on the engine contract, and the registry feeds the input port's choice of decoder.

## Modules

| Module | Models | State ↔ code |
|---|---|---|
| `ConvEngine` | The engine contract (spec §6; its code is not among the sources; spec-modelled) | `Jconv(in, room, mode)` is one convert call. It returns consumed, produced, the new shift mode and a result in {Consumed, InputNotEnough, OutputNotEnough, IllegalSequence}. `JconvReset` is the reset. Characters are model values (narrow, wide, bad). The target is a shift encoding with an `EscLen`-byte escape. |
| `InputPort` | `Scm_MakeInputConversionPort`, `conv_input_filler`, `conv_input_closer` | `pending` is `info->buf[0..ptr)`; `remote` holds the remote's bytes; `delivered` is what the port's buffer handed to the client; `mode` is the engine state. One action per call of the filler or closer. |
| `OutputPort` | `Scm_MakeOutputConversionPort`, `conv_output_flusher` (one action per pass of its `for(;;)`), `conv_output_closer` | `scratch` is `info->buf[0..ptr)`, `sink` is what `Scm_Putz` wrote, and `portBuf` is the buffered port's write buffer. |
| `GuessMap` | The abstract registry: an atomic map from name to latest procedure | `latest`, `found` |
| `GuessRegistry` | `Scm_RegisterCodeGuessingProc` and `findGuessingProc` statement by statement under the mutex | `procs` is the list; per thread: `pc` and locals. `RefinesGuessMap` instantiates `GuessMap` with a refinement mapping. |
| `UcsBridge` | `ucstochar` and `chartoucs` (lock, jconv on the shared context, unlock, UTF-8 unpacking); `Scm_Init_libcharconv` opens the contexts | `handle` is each shared context's input; `out` is its output; per thread: `pc`, argument and result |
| `Cleanup` | `Scm_AddCleanupHandler`, `Scm_DeleteCleanupHandler` (one action per loop pass), `Scm_Cleanup`, `Scm_Exit` | `handlers` is the list (handles numbered by registration); `dirty`; `ran` is the handlers called |
| `Lifecycle` | test-extra.c's `main`; `Scm_Init`, `Scm_SimpleMain`, `Scm_Exit` with `EXIT_CODE`, `Scm_ObjToExitCode`, `Scm_Panic`, `Scm_Abort`, `Scm_SetRuntimeReplState`; extends `Cleanup` | `runtime_state`; `stage` is where the main thread is (start, setup, simple_main, running, gone); `status` is the status passed to `exit`/`_exit`; `request` records how the exit was asked for and with which object. Scheme objects are records of a kind (#t, #f, fixnum, bignum, other) and a value. While `main` runs, the Scheme program may call the cleanup operations, `Scm_Init` again, set the REPL state, `exit` or abort. |
| `Features` | `Scm_AddFeature`, `Scm_DisableFeature`, `Scm_DeleteFeature`, each statement inside the mutex a step; `init_cond_features`, which `Scm_Init` calls once, as one step that folds `Scm_AddFeature` over its table | `alist`, `dlist`, `lock`; per thread: `pc`, op, feature; `inited` once the table has been added. Calls may come before it (a main program disabling a feature ahead of `Scm_Init`). |
| `Atomics` | `Scm__AtomicCompareExchange`, `Scm__AtomicExchange` from several threads | `loc`; per thread: `pc`, `newval`, `current`, `expected`, `ret`. Each AO_ primitive is one atomic step; each load of `*loc` is a step. `won` is a history variable: the values the current exchange's successful swaps replaced. |
| `PvRef` | `SCM_MAKE_PVREF`, `SCM_PVREF_P`, `SCM_PVREF_LEVEL`, `SCM_PVREF_COUNT` | A word is the function from byte index to byte, so shifts and `|` are taken byte by byte (TLC's integers are 32-bit; the word is 64). `pvref` is the last reference made, `made` the level and index it was made of. |
| `LazyFile` | `CORD_from_file_lazy_inner` (Init), `CORD_lf_func` (fetch, probe), `refill_cache` (lock, seek, read, publish) | `cache` maps slot to line; `heap` holds lines (tag and data); `filePos` is the FILE's position; `lfCurrent` |
| `CordOps` | As RECURSIVE operators: `CORD_cmp`, `CORD_ncmp`, `CORD_str`, `CORD_chr`, `CORD_rchr` and their procs, `CORD_fill_buf`, `CORD_to_char_star` and the fill procs, `CORD_ec_flush_buf`, `CORD_from_file_eager`, `CORD_put` and its procs (the FILE is what it has written and how many more bytes it accepts before a write error). The reference definitions are `LexCmp`, `FirstOccurrence`, the nearest occurrence, the characters themselves and the file. | A cord is a sequence of leaves, each a C string or a function node. `CORD_iter5` and `CORD_riter4` (cordbscs.c, not among the sources) are modelled from cord.h: a string leaf's rest goes to the batched proc, and a function node's characters go one by one. A proc pair is named by a record (`F1`, `F2` dispatch on it), as the C code passes function pointers. `CORD_cmp` and `CORD_ncmp` walk a `CORD_pos`, also modelled from cord_pos.h and cordbscs.c: `cur_pos`, the leaf its path ends in, `cur_start`, `cur_end`, and the bytes known at `cur_leaf` (a string leaf and its NUL, or `function_buf`). Entering a function node sets `cur_end` to 0 and leaves `cur_leaf` stale. A `strncmp` that reads memory the model does not know may give any sign, so `CORD_cmp` is a set of outcomes. Cords have at most two leaves, where `CORD__next`'s path pop reduces to "invalid after the last leaf". The state is `x`, plus the one call made on it (`op`, `args`, `out`). |

`MC*` modules give the model values. Three of them put all the components of one source file into a single run:
- `MCCharconv`: input port, output port, guess registry, UCS4 bridge;
- `MCCore`: lifecycle with cleanup, features, pattern variable references;
- `MCCord`: cord operations, lazy file.

Their components share no state, so the composition is a **union**, not a product:
- a variable `part` picks one component in the initial state;
- only that component moves, and the others keep one fixed initial state;
- the reachable states are the sum of the components' states, and each property, re-exported as `P == Comp!P`, is the component's own.

`MCInputPort`, `MCOutputPort`, `MCCleanup`, `MCAtomics` and `MCCordOps` instantiate a single module for the runs that show a violation.

## Runs

| Run | Checks | Result |
|---|---|---|
| `charconv` | Input port: `TypeOK`, `DeliveredIsPrefix`, `EOFMeansComplete`, `InvalidSequenceDiagnostic` with whole reads, every split and texts of up to 3 characters (narrow, wide, bad). Output port: `SinkIsPrefix`, `ClosedSinkComplete` (the reset is written exactly once, after everything else), `FlusherReturns` (liveness); bufsiz 3. Guess registry: `RefinesGuessMap`, with two threads, three registrations and names equal under `strcasecmp`. UCS4 bridge: `BridgeAnswersRight`, with two threads, the boundary code points of every UTF-8 length (0 … 0x7fffffff), contexts opened or failed, and unmapped and native-only characters. | pass, 141,539 states |
| `input_port_short_reads` | `EOFMeansComplete` when `Scm_Getz` may return 1..n bytes | **violation**: a read that ends inside a character makes the filler return 0, which is end of file (charconv.c:184) |
| `input_port_close_owned` | `ClosedPortReleasesRemote`: an owning port, closed at any point | **violation**: `conv_input_closer` only closes the engine, so a port closed before EOF leaves its owned remote open (charconv.c:206). The spec's ConversionContext lifecycle says port-close closes an owned remote. |
| `output_port_tiny_buffer` | `FlusherReturns` with bufsiz 2 (smaller than escape + wide character) | **violation**: endless flush loop (charconv.c:363). This contradicts spec §8.6. |
| `core` | `ExitStatusAsRequested`: every way out of test-extra.c's process (ABI mismatch, no main, main returning or failing, `exit` with fixnums -1, 3, 255, 256, a bignum -257, #t, #f or another object, abort, each after any cleanup calls). `HandlersRunOnce`, `DeleteUnlinksHandle` (up to 3 handlers). `DisabledNeverEnabled` (two threads, two feature calls each, two features, one of them in `init_cond_features`' table, calls before and after it). `PvrefRoundTrip` (levels 0, 1, 255; indices 0, 1, 128, 255). | pass, 28,369 states |
| `cleanup_delete` | `DeleteReturns` | **violation**: the loop never advances (core.c:448) |
| `atomic_exchange` | `ExchangeIsAtomic`: two threads, one helper call each, values {0, 1} | **violation**: the exchange loops while its CAS succeeds. It returns only after a failed swap, with a value it did not replace, and its value is never stored (core.c:326). |
| `cord` | `StrFindsFirst` (through `CORD_ncmp`'s walk), `ChrFindsNearest`, `FillBufFillsExactly`, `EagerReadsFile`, `PutReportsFailure` (a FILE that accepts 0 to 4 bytes): unsigned char, a 2-byte `unsigned long`, a 2-byte ec buffer, cords of up to 3 characters from {1, 2, 200} in up to 2 leaves, files of up to 3 bytes with NULs. `ReadReturnsFileByte`, `CacheCoherent`: a 5-byte file, 2-byte lines, 2 slots (so lines evict each other and the last line is short), two threads with two reads each. | pass, 633,572 states |
| `cord_cmp_signed` | `CmpOrdersLikeStrcmp` with signed char, one-leaf cords | **violation**: at a function node's first character the comparison subtracts signed chars (cordxtra.c:185) |
| `cord_cmp_stale_leaf` | `CmpOrdersLikeStrcmp` with unsigned char, two-leaf cords | **violation**: `avail` is `size_t` and tested `== 0` (cordxtra.c:167, 179-181). A function node entered past position 0 has chars left `-cur_pos`, which wraps, so `strncmp` reads through the stale `cur_leaf`. "11" against "1" + fn "1" returns 1. `CORD_ncmp` keeps `long` and `<= 0`, and does not have this fault. |
| `cord_str_past_end` | `StrReturnsOccurrence`: a found position is where `s` occurs in `x` | **violation**: `CORD_str(x, start, "")` returns `start` before the bounds test, even past the end of `x` (cordxtra.c:397) |
| `cord_chr_nul` | `ChrFindsNearest` with the target NUL | **violation**: strchr matches a string leaf's terminator, so `CORD_chr(x, i, '\0')` on a cord without NULs returns the end of the leaf instead of `CORD_NOT_FOUND` (cordxtra.c:340) |

Every property of a passing run has a mutant in `PROJECT.json`: a plausible bug in a mapped definition that makes TLC report the property violated. Examples:
- the lock that does not exclude;
- the filler forgetting the pending bytes;
- the scratch pointer not rewound;
- the exit code not masked with 0xff;
- a pattern variable's index read from the level's byte;
- the seek skipped when the FILE is ahead;
- the window compared without the mask;
- `CORD_ncmp`'s chars-left count held in `size_t` and tested `== 0`, as `CORD_cmp` does (breaks `StrFindsFirst`);
- the batched chr proc not advancing past a leaf;
- the NUL run appended before the ec buffer is flushed;
- putc's failure ignored by `CORD_put_proc`.

**Why the bounds are enough.** Each bound is the smallest that makes the interesting case happen:
- bufsiz 3 lets a wide character straddle two fills and the scratch buffer;
- three registrations let two threads race on one name;
- two cache slots over three lines force eviction, plus a short final line;
- a 2-byte window with 3-character cords covers patterns shorter than, equal to and longer than the window;
- a 2-byte ec buffer with 3-byte files makes a flush happen both before a NUL run and when the buffer is full;
- one call per thread is enough to race an exchange against another thread's write;
- code points at every UTF-8 length boundary;
- exit values on both sides of 0 and of 255, and a bignum, cover each branch of the masking;
- levels and indices 0, 1, 128 and 255 set the low, high and every bit of their byte.

## Fairness

Only steps of the caller's own thread get weak fairness:
- the flusher's loop passes (`WF_vars(conv_output_flusher)`; in `MCCharconv` the same action, with the other parts unchanged);
- the passes of `Scm_DeleteCleanupHandler`'s loop (`Cleanup`, and in `MCCore` that step of the lifecycle);

Once called, these run on the calling thread until they return, with no lock or I/O wait inside. The loops are modelled one step per pass, so a loop that never ends shows up as a fair behaviour that stays in it. No fairness is assumed for lock acquisition or for callers, and no liveness property depends on one.

**Symmetry.** The threads and the guessing procedures are interchangeable model values, so the union runs declare them symmetric. Feature names are not symmetric, because only one of them is in the initial table. The only liveness property checked under symmetry is `FlusherReturns`, which concerns the output port, where none of them occurs.

## Not modelled, and the plan for later sittings

The following are not modelled, and why:
- The subsystem initialisations inside `Scm_Init` are one step. None of their state is among the sources. `init_cond_features` is modelled in `Features`, but MCCore runs it in a separate part from the lifecycle's `Scm_Init`. The two parts share no state, and running them as one product is out of TLC's reach at these bounds.
- `Scm_GetFeatures`: a single unlocked read of a pointer to an immutable list.
- `Scm__AtomicExchange` alone never returns, by the same inverted loop condition that `atomic_exchange` shows; it is not checked as a liveness run of its own.
- The GC and finalizer wrappers (`Scm_GC`, `Scm_RegisterFinalizer`, `finalizable`, `Scm_VMFinalizerRun` …): each is one call into bdwgc, or a VM flag whose protocol lies in bdwgc and the VM loop.
- `writerP.h`, and the rest of `macroP.h`: struct and field declarations for write.c and macro.c, with no behaviour of their own.
- `Scm_ConversionSupportedP` and the naming helpers: one engine call or formatting each.
- `CORD_fill_buf` with len 0 (cordxtra.c:114): the fill procs store `buf[0]` before comparing `count` with `len` and return 1, against the comment's promise. The cord run asks only for len >= 1, and no violation run checks this, because the run limit went to the `CORD_cmp` stale-leaf fault.
- The rest of cordxtra.c, each one call into cordbscs.c or stdio:
  - `CORD_cat_char`, `CORD_catn`, `CORD_from_char_star`, `CORD_to_const_char_star`, `CORD_fetch`;
  - `CORD_ec_append_cord`, `CORD_chars`, `CORD_nul_func`;
  - `CORD_from_file_lazy` and `CORD_from_file` (a size probe, then a choice).
- The lazy file cache built without `CORD_USE_GCC_ATOMIC` (cordxtra.c:564-583). There, a probe reads the slot inside `GC_call_with_alloc_lock(get_cache_line)`. That only adds a guard to `Probe`, so its behaviours are a subset of the atomic build's, which `LazyFile` checks. Checking both builds doubles the cord run's state space to 1.2 million states and adds nothing the invariants could tell apart.

Next, in order:
1. **Scm__AtomicCompareExchange.** It writes back the expected value it read, not the value it found. Its callers (atomicP.h) are not among the sources.
2. **Concurrent cleanup.** The cleanup list is unlocked, so two threads adding at once can lose a handler. Decide whether to model that against the code's (unstated) single-thread use.
3. **Finalizer.** Model the lazy-file finalizer and `CORD_from_file`'s choice between eager and lazy reading.
