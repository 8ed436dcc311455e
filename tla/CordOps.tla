------------------------------- MODULE CordOps -------------------------------
(***************************************************************************)
(* Searching and comparing cords, gc/cord/cordxtra.c:                      *)
(*   CORD_cmp   compare two cords                                          *)
(*   CORD_ncmp  compare len characters of two cords from given positions   *)
(*   CORD_str   first occurrence of s in x at or after start               *)
(* as pure operators over bounded inputs, each checked against a           *)
(* reference definition.                                                   *)
(*                                                                         *)
(* A cord is a sequence of leaves; a leaf is a C string ("str") or a       *)
(* function node ("fn"), and holds bytes 1..255.  A position walks the     *)
(* characters; CORD_pos_chars_left is the rest of the current string leaf, *)
(* 0 in a function node (its characters are fetched one at a time).       *)
(* char is signed or not as the build's ABI says (CharSigned).             *)
(***************************************************************************)
EXTENDS Integers, Sequences, SequencesExt, Bitwise

CONSTANTS
    Bytes,       \* the byte values inputs are made of (no NUL)
    MaxLen,      \* the longest cord, in characters
    MaxLeaves,   \* the most leaves of a cord
    LongBytes,   \* sizeof(unsigned long)
    CharSigned,  \* char is a signed type
    EcBufSz,     \* CORD_BUFSZ
    ChrTargets,  \* the characters CORD_chr and CORD_rchr are asked for
    FillLens     \* the lengths CORD_fill_buf is asked for

ASSUME /\ Bytes \subseteq 1..255
       /\ MaxLen \in Nat /\ MaxLeaves \in 0..2 /\ LongBytes \in Nat \ {0}
       /\ CharSigned \in BOOLEAN /\ EcBufSz \in Nat \ {0}
       /\ ChrTargets \subseteq 0..255 /\ FillLens \subseteq 0..MaxLen

CORD_NOT_FOUND == -1

Chars(c) == FlattenSeq([i \in DOMAIN c |-> c[i].bytes])

\* Cords of at most MaxLeaves leaves and MaxLen characters.
Cords == {c \in BoundedSeq([kind : {"str", "fn"},
                            bytes : BoundedSeq(Bytes, MaxLen) \ {<<>>}], MaxLeaves) :
              Len(Chars(c)) <= MaxLen}

\* CORD_IS_STRING: the cord is one C string.
IsString(c) == Len(c) = 1 /\ c[1].kind = "str"

\* A char converted to int, as in xcurrent - ycurrent.
CharVal(b) == IF CharSigned /\ b >= 128 THEN b - 256 ELSE b

\* strcmp / strncmp: unsigned bytes, the sign of the first difference.
RECURSIVE Strncmp(_, _, _)
Strncmp(a, b, n) ==
    CASE n = 0 \/ (a = <<>> /\ b = <<>>) -> 0
      [] a = <<>>                        -> -1
      [] b = <<>>                        -> 1
      [] Head(a) # Head(b)               -> Head(a) - Head(b)
      [] OTHER                           -> Strncmp(Tail(a), Tail(b), n - 1)

Sign(n) == IF n > 0 THEN 1 ELSE IF n < 0 THEN -1 ELSE 0
Rest(s, i) == SubSeq(s, i, Len(s))

-----------------------------------------------------------------------------
(***************************************************************************)
(* A CORD_pos (cord_pos.h, cordbscs.c) on a cord of at most two leaves:    *)
(* cur_pos; leafk, the leaf its path ends in; cur_start and cur_end; and   *)
(* mem, the bytes the model knows at cur_leaf (a string leaf and its NUL,  *)
(* or the characters cached in function_buf).  Memory past mem is memory   *)
(* the model does not know.  Entering a function node sets cur_end to 0    *)
(* and leaves cur_leaf and cur_start as they were.                         *)
(***************************************************************************)
FUNCTION_BUF_SZ == 8

LeafStart(c, k) == Len(Chars(SubSeq(c, 1, k - 1)))
LeafEnd(c, k) == LeafStart(c, k) + Len(c[k].bytes)
LeafAt(c, p) == CHOOSE k \in DOMAIN c : LeafStart(c, k) <= p /\ p < LeafEnd(c, k)

\* CORD__extend_path to character p.
ExtendPath(c, P, p) ==
    LET k == LeafAt(c, p) IN
    IF c[k].kind = "str"
    THEN [pos |-> p, leafk |-> k, start |-> LeafStart(c, k),
          end |-> LeafEnd(c, k), mem |-> c[k].bytes \o <<0>>]
    ELSE [P EXCEPT !.pos = p, !.leafk = k, !.end = 0]

\* CORD_set_pos(p, c, i) into a fresh CORD_pos: cur_leaf uninitialized.
CORD_set_pos(c, i) ==
    ExtendPath(c, [pos |-> 0, leafk |-> 0, start |-> 0, end |-> 0, mem |-> <<>>], i)

CORD_pos_valid(c, P) == P.pos < Len(Chars(c))

\* CORD__next: inside a function node, fill function_buf from cur_pos+1;
\* at the end of the last leaf the position becomes invalid; else extend.
CORD__next(c, P) ==
    LET q == P.pos + 1  k == P.leafk IN
    IF c[k].kind = "fn" /\ q < LeafEnd(c, k)
    THEN LET lim == IF q + FUNCTION_BUF_SZ < LeafEnd(c, k)
                    THEN q + FUNCTION_BUF_SZ ELSE LeafEnd(c, k)
         IN  [P EXCEPT !.pos = q, !.start = q, !.end = lim,
                       !.mem = SubSeq(Chars(c), q + 1, lim)]
    ELSE IF k = Len(c) THEN [P EXCEPT !.pos = q]
    ELSE ExtendPath(c, P, q)

CORD_next(c, P) ==
    IF P.pos + 1 < P.end THEN [P EXCEPT !.pos = @ + 1] ELSE CORD__next(c, P)

CORD_pos_advance(c, P, n) == CORD_next(c, [P EXCEPT !.pos = @ + n - 1])

\* long: cur_end - cur_pos, negative in a function node entered past 0.
CORD_pos_chars_left(P) == P.end - P.pos

\* From cur_leaf, or from the node itself when cur_end is 0: always right.
CORD_pos_fetch(c, P) == Chars(c)[P.pos + 1]

\* The known bytes at CORD_pos_cur_char_addr.
CurCharMem(P) ==
    LET o == P.pos - P.start
    IN  IF o < Len(P.mem) THEN SubSeq(P.mem, o + 1, Len(P.mem)) ELSE <<>>

\* A long held in size_t: a negative count wraps above every count
\* (2^30 stands for 2^64: only the order of counts matters).
SIZE_T_WRAP == 2^30
SizeT(n) == IF n < 0 THEN SIZE_T_WRAP + n ELSE n
Wrapped(n) == n > MaxLen

\* strncmp on memory: an outcome set, any sign once it reads unknown memory.
Signs == {-1, 0, 1}
RECURSIVE StrncmpMem(_, _, _)
StrncmpMem(a, b, n) ==
    CASE n = 0                  -> {0}
      [] a = <<>> \/ b = <<>>   -> Signs
      [] Head(a) # Head(b)      -> {Head(a) - Head(b)}
      [] Head(a) = 0            -> {0}
      [] OTHER                  -> StrncmpMem(Tail(a), Tail(b), n - 1)

\* size_t avail = CORD_pos_chars_left(pos); avail == 0
AvailZero(P) == SizeT(CORD_pos_chars_left(P)) = 0

(***************************************************************************)
(* The for(;;) of CORD_cmp, a set of outcomes: where either count is 0,    *)
(* compare one char as ints; otherwise strncmp the smaller count from both *)
(* cur_char_addrs.  A walk advanced by a wrapped count leaves both cords:  *)
(* any outcome.                                                            *)
(***************************************************************************)
RECURSIVE CmpLoop(_, _, _, _)
CmpLoop(x, y, P, Q) ==
    CASE ~CORD_pos_valid(x, P) -> IF CORD_pos_valid(y, Q) THEN {-1} ELSE {0}
      [] ~CORD_pos_valid(y, Q) -> {1}
      [] AvailZero(P) \/ AvailZero(Q) ->
            LET xc == CORD_pos_fetch(x, P)  yc == CORD_pos_fetch(y, Q) IN
            IF xc # yc THEN {CharVal(xc) - CharVal(yc)}
            ELSE CmpLoop(x, y, CORD_next(x, P), CORD_next(y, Q))
      [] OTHER ->
            LET a == SizeT(CORD_pos_chars_left(P))
                b == SizeT(CORD_pos_chars_left(Q))
                n == IF a > b THEN b ELSE a
            IN  UNION {IF r # 0 THEN {r}
                       ELSE IF Wrapped(n) THEN Signs
                       ELSE CmpLoop(x, y, CORD_pos_advance(x, P, n),
                                          CORD_pos_advance(y, Q, n))
                       : r \in StrncmpMem(CurCharMem(P), CurCharMem(Q), n)}

CORD_cmp(x, y) ==
    CASE y = <<>> -> {IF x # <<>> THEN 1 ELSE 0}
      [] x = <<>> -> {-1}
      [] IsString(x) /\ IsString(y) -> {Strncmp(Chars(x), Chars(y), MaxLen + 1)}
      [] OTHER    -> CmpLoop(x, y, CORD_set_pos(x, 0), CORD_set_pos(y, 0))

\* long avail = CORD_pos_chars_left(pos); avail <= 0
LongAvailNone(P) == CORD_pos_chars_left(P) <= 0

(***************************************************************************)
(* CORD_ncmp(x, xs, y, ys, len): the same walk from xs and ys with long    *)
(* counts tested <= 0, counting up to len and cutting the last strncmp.    *)
(***************************************************************************)
RECURSIVE NcmpLoop(_, _, _, _, _, _)
NcmpLoop(x, y, P, Q, count, len) ==
    CASE count >= len -> {0}
      [] ~CORD_pos_valid(x, P) -> IF CORD_pos_valid(y, Q) THEN {-1} ELSE {0}
      [] ~CORD_pos_valid(y, Q) -> {1}
      [] LongAvailNone(P) \/ LongAvailNone(Q) ->
            LET xc == CORD_pos_fetch(x, P)  yc == CORD_pos_fetch(y, Q) IN
            IF xc # yc THEN {CharVal(xc) - CharVal(yc)}
            ELSE NcmpLoop(x, y, CORD_next(x, P), CORD_next(y, Q), count + 1, len)
      [] OTHER ->
            LET a0 == CORD_pos_chars_left(P)  b == CORD_pos_chars_left(Q)
                a == IF a0 > b THEN b ELSE a0
                n == IF count + a > len THEN a - (count + a - len) ELSE a
            IN  UNION {IF r # 0 THEN {r}
                       ELSE NcmpLoop(x, y, CORD_pos_advance(x, P, n),
                                     CORD_pos_advance(y, Q, n), count + a, len)
                       : r \in StrncmpMem(CurCharMem(P), CurCharMem(Q), n)}

CORD_ncmp(x, xs, y, ys, len) ==
    NcmpLoop(x, y, CORD_set_pos(x, xs), CORD_set_pos(y, ys), 0, len)

-----------------------------------------------------------------------------
(***************************************************************************)
(* CORD_str.  The first start_len = min(slen, sizeof(unsigned long))       *)
(* characters of s are packed into s_buf, and a window of x slides through *)
(* x_buf, an unsigned long (arithmetic modulo 2^(8 * LongBytes)); mask     *)
(* keeps the window's last start_len bytes.  A window that matches is      *)
(* confirmed by CORD_ncmp on the rest of s.                                *)
(***************************************************************************)
ULong == 2^(8 * LongBytes)
ShiftIn(w, b) == ((w * 256) % ULong) | b

\* The for loop that loads mask, s_buf and x_buf, folded over 0..n-1.
RECURSIVE Pack(_, _, _)
Pack(w, bytes, n) == IF n = 0 THEN w
                     ELSE Pack(ShiftIn(w, Head(bytes)), Tail(bytes), n - 1)

(* A mutation: the window compared without the mask. *)
WindowMatchesUnmasked(xbuf, mask, sbuf) == xbuf = sbuf

\* (x_buf & mask) == s_buf
WindowMatches(xbuf, mask, sbuf) == (xbuf & mask) = sbuf

\* for (match_pos = start; ; match_pos++): fetch is the 0-based position of
\* the next character of x to shift in.
RECURSIVE StrScan(_, _, _, _, _, _, _, _)
StrScan(x, s, slen, startLen, mask, sbuf, xbuf, matchPos) ==
    LET fx == Chars(x) IN
    IF /\ WindowMatches(xbuf, mask, sbuf)
       /\ \/ slen = startLen
          \/ CORD_ncmp(x, matchPos + startLen, s, startLen, slen - startLen) = {0}
    THEN matchPos
    ELSE IF matchPos = Len(fx) - slen THEN CORD_NOT_FOUND
    ELSE StrScan(x, s, slen, startLen, mask, sbuf,
                 ShiftIn(xbuf, fx[matchPos + startLen + 1]), matchPos + 1)

CORD_str(x, start, s) ==
    LET fx == Chars(x)  fs == Chars(s)
        slen == Len(fs)
        startLen == IF slen > LongBytes THEN LongBytes ELSE slen
    IN  CASE s = <<>> -> start
          [] Len(fx) < start \/ Len(fx) - start < slen -> CORD_NOT_FOUND
          [] OTHER ->
               StrScan(x, s, slen, startLen,
                       Pack(0, [i \in 1..startLen |-> 255], startLen),
                       Pack(0, fs, startLen),
                       Pack(0, Rest(fx, start + 1), startLen),
                       start)

-----------------------------------------------------------------------------
(***************************************************************************)
(* The procs CORD_iter5 and CORD_riter4 call.                             *)
(* CORD_fill_buf(x, i, len, buf): the client data is [count, buf]; buf is  *)
(* a function from offsets 0..MaxLen to bytes, Unset where nothing was     *)
(* stored.                                                                 *)
(***************************************************************************)
Unset == -1
EmptyBuf == [k \in 0..MaxLen |-> Unset]

\* (d->buf)[count] = c; d->count = ++count; return count >= d->len
CORD_fill_proc(len, c, d) ==
    [r |-> IF d.count + 1 >= len THEN 1 ELSE 0,
     d |-> [count |-> d.count + 1, buf |-> [d.buf EXCEPT ![d.count] = c]]]

(* A mutation: the batched proc stops only past max (count > max). *)
RECURSIVE BatchedFillPastMax(_, _, _)
BatchedFillPastMax(len, s, d) ==
    LET c == IF s = <<>> THEN 0 ELSE Head(s)
        d2 == [d EXCEPT !.buf[d.count] = c]
    IN  CASE c = 0                -> [r |-> 0, d |-> d2]
          [] d.count + 1 > len    -> [r |-> 1, d |-> [d2 EXCEPT !.count = @ + 1]]
          [] OTHER -> BatchedFillPastMax(len, Tail(s), [d2 EXCEPT !.count = @ + 1])

\* while ((buf[count] = *t++) != '\0') { count++; if (count >= max) ... }
\* s is the leaf's rest; its terminating NUL is stored too.
RECURSIVE CORD_batched_fill_proc(_, _, _)
CORD_batched_fill_proc(len, s, d) ==
    LET c == IF s = <<>> THEN 0 ELSE Head(s)
        d2 == [d EXCEPT !.buf[d.count] = c]
    IN  CASE c = 0                -> [r |-> 0, d |-> d2]
          [] d.count + 1 >= len   -> [r |-> 1, d |-> [d2 EXCEPT !.count = @ + 1]]
          [] OTHER -> CORD_batched_fill_proc(len, Tail(s), [d2 EXCEPT !.count = @ + 1])

(***************************************************************************)
(* CORD_chr(x, i, c) and CORD_rchr(x, i, c): the client data is d.pos,     *)
(* target is (char)c; the batched proc runs strchr on the leaf's rest.     *)
(***************************************************************************)
CORD_chr_proc(t, c, d) == IF c = t THEN [r |-> 1, d |-> d] ELSE [r |-> 0, d |-> d + 1]
CORD_rchr_proc(t, c, d) == IF c = t THEN [r |-> 1, d |-> d] ELSE [r |-> 0, d |-> d - 1]

\* strchr(s, target): the first offset of target in s, where the
\* terminating NUL counts as part of s; -1 for NULL.
StrChr(s, t) ==
    IF t = 0 THEN Len(s)
    ELSE IF \E k \in DOMAIN s : s[k] = t
         THEN (CHOOSE k \in DOMAIN s : s[k] = t /\ \A m \in 1..(k - 1) : s[m] # t) - 1
         ELSE -1

(* A mutation: a leaf without the target does not advance pos. *)
BatchedChrNoAdvance(t, s, d) ==
    IF StrChr(s, t) = -1 THEN [r |-> 0, d |-> d] ELSE [r |-> 1, d |-> d + StrChr(s, t)]

CORD_batched_chr_proc(t, s, d) ==
    IF StrChr(s, t) = -1 THEN [r |-> 0, d |-> d + Len(s)]
    ELSE [r |-> 1, d |-> d + StrChr(s, t)]

(***************************************************************************)
(* CORD_put(x, f): the client data is the FILE, here what it has written  *)
(* and the bytes it still accepts before a write error (a full disk, a     *)
(* closed pipe).  putc writes one byte or returns EOF; fputs writes as     *)
(* much of the leaf's rest as fits and returns EOF when it did not all     *)
(* fit.  A proc returns 1 when its call returned EOF.                      *)
(***************************************************************************)
EOF == -1

(* A mutation: putc's result ignored, the walk goes on after a failure. *)
PutProcIgnoresError(c, f) ==
    [r |-> 0, d |-> IF f.room = 0 THEN f
                    ELSE [written |-> Append(f.written, c), room |-> f.room - 1]]

\* return(putc(c, f) == EOF)
CORD_put_proc(c, f) ==
    IF f.room = 0 THEN [r |-> 1, d |-> f]
    ELSE [r |-> 0, d |-> [written |-> Append(f.written, c), room |-> f.room - 1]]

\* return(fputs(s, f) == EOF)
CORD_batched_put_proc(s, f) ==
    LET n == IF Len(s) > f.room THEN f.room ELSE Len(s)
    IN  [r |-> IF Len(s) > f.room THEN 1 ELSE 0,
         d |-> [written |-> f.written \o SubSeq(s, 1, n), room |-> f.room - n]]

(***************************************************************************)
(* CORD_iter5(x, i, f1, f2, d) (cordbscs.c): walk x from character i; the  *)
(* rest of a string leaf goes to f2 at once (a C string, so it ends at the *)
(* leaf's NUL), a function node's characters go one by one to f1; a        *)
(* non-zero result stops the walk and is returned.  The pair of procs is   *)
(* named by a record p (which client, and its fixed arguments); a proc     *)
(* maps (its input, client data) to [r, d].  CORD_riter4 walks from i down *)
(* to 0, every character through f1.                                       *)
(***************************************************************************)
\* The leaves of x from character i (0-based), the first one cut at i.
Pieces(x, i) ==
    LET ends == [k \in DOMAIN x |-> Len(Chars(SubSeq(x, 1, k)))]
        from(k) == i - (ends[k] - Len(x[k].bytes))
        keep == SelectSeq([k \in DOMAIN x |-> k], LAMBDA k : ends[k] > i)
    IN  [n \in DOMAIN keep |->
           [x[keep[n]] EXCEPT !.bytes =
               IF from(keep[n]) > 0 THEN Rest(@, from(keep[n]) + 1) ELSE @]]

\* The per-character proc f1 and the batched proc f2 of each client.
F1(p, c, d) ==
    CASE p.proc = "fill" -> CORD_fill_proc(p.len, c, d)
      [] p.proc = "chr"  -> CORD_chr_proc(p.target, c, d)
      [] p.proc = "rchr" -> CORD_rchr_proc(p.target, c, d)
      [] p.proc = "put"  -> CORD_put_proc(c, d)

F2(p, s, d) ==
    CASE p.proc = "fill" -> CORD_batched_fill_proc(p.len, s, d)
      [] p.proc = "chr"  -> CORD_batched_chr_proc(p.target, s, d)
      [] p.proc = "put"  -> CORD_batched_put_proc(s, d)

RECURSIVE IterChars(_, _, _)
IterChars(bs, p, d) ==
    IF bs = <<>> THEN [r |-> 0, d |-> d]
    ELSE LET o == F1(p, Head(bs), d)
         IN  IF o.r # 0 THEN o ELSE IterChars(Tail(bs), p, o.d)

RECURSIVE IterPieces(_, _, _)
IterPieces(ps, p, d) ==
    IF ps = <<>> THEN [r |-> 0, d |-> d]
    ELSE LET o == IF Head(ps).kind = "str" THEN F2(p, Head(ps).bytes, d)
                  ELSE IterChars(Head(ps).bytes, p, d)
         IN  IF o.r # 0 THEN o ELSE IterPieces(Tail(ps), p, o.d)

CORD_iter5(x, i, p, d) == IterPieces(Pieces(x, i), p, d)

CORD_riter4(x, i, p, d) == IterChars(Reverse(SubSeq(Chars(x), 1, i + 1)), p, d)

CORD_fill_buf(x, i, len) ==
    CORD_iter5(x, i, [proc |-> "fill", len |-> len], [count |-> 0, buf |-> EmptyBuf])

\* CORD_to_char_star: fill len characters, ABORT unless that returns 1,
\* then result[len] = '\0'.  "abort" stands for the ABORT.
CORD_to_char_star(x) ==
    LET len == Len(Chars(x))  o == CORD_fill_buf(x, 0, len)
    IN  IF len > 0 /\ o.r # 1 THEN "abort"
        ELSE [(IF len > 0 THEN o.d.buf ELSE EmptyBuf) EXCEPT ![len] = 0]

CORD_chr(x, i, c) ==
    LET o == CORD_iter5(x, i, [proc |-> "chr", target |-> c], i)
    IN  IF o.r # 0 THEN o.d ELSE CORD_NOT_FOUND

CORD_rchr(x, i, c) ==
    LET o == CORD_riter4(x, i, [proc |-> "rchr", target |-> c], i)
    IN  IF o.r # 0 THEN o.d ELSE CORD_NOT_FOUND

\* CORD_put(x, f): EOF if the walk was stopped by a failed write, else 1;
\* with it, what the FILE holds.
CORD_put(x, room) ==
    LET o == CORD_iter5(x, 0, [proc |-> "put"], [written |-> <<>>, room |-> room])
    IN  [ret |-> IF o.r # 0 THEN EOF ELSE 1, written |-> o.d.written]

(***************************************************************************)
(* CORD_from_file_eager builds the cord in an extensible cord (ec.h): a    *)
(* cord and a buffer of up to CORD_BUFSZ (EcBufSz) characters.             *)
(*   CORD_ec_append(x, c): flush if the buffer is full, then store c;      *)
(*   CORD_ec_to_cord(x): flush, then the cord.                             *)
(* CORD_cat appends leaves; CORD_nul(n) is a function node of n NULs;      *)
(* CORD_balance keeps the characters.                                      *)
(***************************************************************************)
CORD_nul(n) == <<[kind |-> "fn", bytes |-> [k \in 1..n |-> 0]]>>

\* if (len == 0) return; ec_cord = CORD_cat_char_star(ec_cord, s, len);
\* ec_bufptr = ec_buf
CORD_ec_flush_buf(ec) ==
    IF ec.buf = <<>> THEN ec
    ELSE [cord |-> Append(ec.cord, [kind |-> "str", bytes |-> ec.buf]), buf |-> <<>>]

CORD_ec_append(ec, c) ==
    LET e == IF Len(ec.buf) = EcBufSz THEN CORD_ec_flush_buf(ec) ELSE ec
    IN  [e EXCEPT !.buf = Append(@, c)]

(* A mutation: the NUL run appended without flushing the buffer first. *)
NulRunNoFlush(ec, n) == [ec EXCEPT !.cord = @ \o CORD_nul(n)]

\* CORD_ec_flush_buf(ecord); ... ecord[0].ec_cord = CORD_cat(..., CORD_nul(count))
NulRun(ec, n) == [CORD_ec_flush_buf(ec) EXCEPT !.cord = @ \o CORD_nul(n)]

\* The number of NULs at the head of f.
ZeroRun(f) == IF \A k \in DOMAIN f : f[k] = 0 THEN Len(f)
              ELSE (CHOOSE k \in DOMAIN f : f[k] # 0 /\ \A m \in 1..(k - 1) : f[m] = 0) - 1

\* for (;;) { c = getc(f); if (c == 0) { count NULs; flush; cat nul }
\*            if (c == EOF) break; CORD_ec_append(ecord, c); }
RECURSIVE EagerLoop(_, _)
EagerLoop(ec, f) ==
    CASE f = <<>>     -> ec
      [] Head(f) = 0  -> LET n == ZeroRun(f)  rest == Rest(f, n + 1) IN
                         IF rest = <<>> THEN NulRun(ec, n)
                         ELSE EagerLoop(CORD_ec_append(NulRun(ec, n), Head(rest)),
                                        Tail(rest))
      [] OTHER        -> EagerLoop(CORD_ec_append(ec, Head(f)), Tail(f))

CORD_from_file_eager(f) ==
    CORD_ec_flush_buf(EagerLoop([cord |-> <<>>, buf |-> <<>>], f)).cord

-----------------------------------------------------------------------------
(* The reference definitions. *)

\* strcmp of the two cords' characters: the order CORD_cmp promises.
LexCmp(x, y) == Sign(Strncmp(Chars(x), Chars(y), MaxLen + 1))

\* The least k >= start where s occurs in x, or CORD_NOT_FOUND.
FirstOccurrence(x, start, s) ==
    LET fx == Chars(x)  fs == Chars(s)
        at == {k \in start..Len(fx) : k + Len(fs) <= Len(fx)
                   /\ SubSeq(fx, k + 1, k + Len(fs)) = fs}
    IN  IF at = {} THEN CORD_NOT_FOUND
        ELSE CHOOSE k \in at : \A m \in at : k <= m
-----------------------------------------------------------------------------
(***************************************************************************)
(* A caller: x is any cord of the bounds; one call is made, its other      *)
(* arguments chosen with it (args), its result in out.                     *)
(***************************************************************************)
VARIABLES x, op, args, out

vars == <<x, op, args, out>>

Files == BoundedSeq({0} \cup Bytes, MaxLen)

Init == x \in Cords /\ op = "none" /\ args = [none |-> 0] /\ out = 0

Call(o, a, r) == op' = o /\ args' = a /\ out' = r /\ UNCHANGED x

CallCmp ==
    /\ op = "none"
    /\ \E y \in Cords : \E r \in CORD_cmp(x, y) : Call("cmp", [y |-> y], r)

CallStr ==
    /\ op = "none"
    /\ \E s \in Cords, start \in 0..MaxLen :
           Call("str", [s |-> s, start |-> start], CORD_str(x, start, s))

CallChr ==
    /\ op = "none"
    /\ \E i \in 0..MaxLen, c \in ChrTargets :
           Call("chr", [i |-> i, c |-> c], CORD_chr(x, i, c))

\* CORD_rchr's i is a valid position of x (cord.h).
CallRchr ==
    /\ op = "none"
    /\ \E i \in 0..(Len(Chars(x)) - 1), c \in ChrTargets :
           Call("rchr", [i |-> i, c |-> c], CORD_rchr(x, i, c))

\* CORD_fill_buf assumes len characters are available from i.
CallFill ==
    /\ op = "none"
    /\ \E i \in 0..MaxLen, len \in FillLens :
           /\ i + len <= Len(Chars(x))
           /\ Call("fill", [i |-> i, len |-> len], CORD_fill_buf(x, i, len))

CallToCharStar ==
    /\ op = "none"
    /\ Call("to_char_star", [none |-> 0], CORD_to_char_star(x))

CallEager ==
    /\ op = "none"
    /\ \E f \in Files : Call("eager", [f |-> f], CORD_from_file_eager(f))

\* The FILE accepts any number of bytes up to one past the cord's length.
CallPut ==
    /\ op = "none"
    /\ \E room \in 0..(MaxLen + 1) :
           Call("put", [room |-> room], CORD_put(x, room))

Returned == op # "none" /\ UNCHANGED vars

Next == \/ CallCmp \/ CallStr \/ CallChr \/ CallRchr \/ CallFill
        \/ CallToCharStar \/ CallEager \/ CallPut \/ Returned

Spec == Init /\ [][Next]_vars

(***************************************************************************)
(* CORD_cmp orders like strcmp (as cord.h documents it): the sign of       *)
(* CORD_cmp(x, y) is that of strcmp on the two cords' characters, however  *)
(* each is split into string leaves and function nodes.                    *)
(***************************************************************************)
CmpOrdersLikeStrcmp == op = "cmp" => Sign(out) = LexCmp(x, args.y)

(***************************************************************************)
(* CORD_str finds the first occurrence: the packed window, its mask and    *)
(* the CORD_ncmp confirmation return the least position at or after start  *)
(* where s occurs in x, and CORD_NOT_FOUND when there is none, for every   *)
(* start inside x.  (Past the end of x, an empty s gives start back.)      *)
(***************************************************************************)
StrFindsFirst ==
    op = "str" /\ args.start <= Len(Chars(x)) =>
        out = FirstOccurrence(x, args.start, args.s)

(***************************************************************************)
(* CORD_str answers with an occurrence (cord.h: the position of the first  *)
(* occurrence of s in x at or after start, or CORD_NOT_FOUND): whatever    *)
(* start it is given, a result other than CORD_NOT_FOUND is a position of  *)
(* x at which s occurs.                                                    *)
(***************************************************************************)
StrReturnsOccurrence ==
    LET fx == Chars(x)  fs == Chars(args.s)
    IN  op = "str" /\ out # CORD_NOT_FOUND =>
            /\ out + Len(fs) <= Len(fx)
            /\ SubSeq(fx, out + 1, out + Len(fs)) = fs

(***************************************************************************)
(* CORD_chr and CORD_rchr find the nearest occurrence: the position the    *)
(* per-character and strchr-batched procs count up (or down) to is the     *)
(* first occurrence of c at or after i (the last at or before i), across   *)
(* string leaves and function nodes, and CORD_NOT_FOUND when there is none.*)
(***************************************************************************)
ChrFindsNearest ==
    LET fx == Chars(x)
        at == {k \in 0..(Len(fx) - 1) : fx[k + 1] = args.c}
    IN  /\ op = "chr" =>
              out = IF \E k \in at : k >= args.i
                    THEN CHOOSE k \in at : k >= args.i /\ \A m \in at : m >= args.i => k <= m
                    ELSE CORD_NOT_FOUND
        /\ op = "rchr" =>
              out = IF \E k \in at : k <= args.i
                    THEN CHOOSE k \in at : k <= args.i /\ \A m \in at : m <= args.i => m <= k
                    ELSE CORD_NOT_FOUND

(***************************************************************************)
(* CORD_fill_buf fills exactly len characters (its comment): it returns 1  *)
(* when buf holds characters i..i+len-1 of x, 0 otherwise, and stores      *)
(* nothing at or past buf[len]; CORD_to_char_star never aborts and returns *)
(* x's characters followed by a NUL.                                       *)
(***************************************************************************)
FillBufFillsExactly ==
    LET fx == Chars(x) IN
    /\ op = "fill" =>
         /\ out.r = (IF args.len > 0 THEN 1 ELSE 0)
         /\ \A k \in 0..MaxLen :
              out.d.buf[k] = IF k < args.len THEN fx[args.i + k + 1] ELSE Unset
    /\ op = "to_char_star" =>
         out = [k \in 0..MaxLen |-> IF k < Len(fx) THEN fx[k + 1]
                                    ELSE IF k = Len(fx) THEN 0 ELSE Unset]

(***************************************************************************)
(* CORD_from_file_eager reads the file: the cord built through the ec      *)
(* buffer, its flushes and the CORD_nul runs holds the file's bytes, NULs  *)
(* included, in order.                                                     *)
(***************************************************************************)
EagerReadsFile == op = "eager" => Chars(out) = args.f

(***************************************************************************)
(* CORD_put reports a failed write (cord.h: it returns EOF if a write      *)
(* error occurs, 1 otherwise): whichever putc or fputs of the walk fails,  *)
(* the file holds a prefix of x's characters, and CORD_put returns 1      *)
(* exactly when it holds all of them.                                      *)
(***************************************************************************)
PutReportsFailure ==
    op = "put" =>
        /\ IsPrefix(out.written, Chars(x))
        /\ (out.ret = 1) = (out.written = Chars(x))
=============================================================================
