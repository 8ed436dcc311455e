----------------------------- MODULE ConvEngine -----------------------------
(***************************************************************************)
(* The conversion engine (jconv / iconv) that charconv.c drives.  Its code *)
(* is not part of the modelled sources, so this module states only the     *)
(* contract of spec.md section 6:                                          *)
(*   convert(handle, in, inRoom, out, outRoom)                             *)
(*       -> Consumed | InputNotEnough | OutputNotEnough | IllegalSequence  *)
(*   reset(handle, out, outRoom) -> bytesWritten | NoRoom                  *)
(*                                                                         *)
(* Data abstraction.  Characters are model values of three kinds:          *)
(*   NarrowChars  one byte in the source encoding, one byte in the target; *)
(*   WideChars    two bytes in the source encoding, two in the target;     *)
(*   BadChars     a one-byte sequence that is illegal in the source.       *)
(* The source encoding is stateless (EUC-JP, UTF-8, the runtime's native   *)
(* encoding); the target is a shift encoding (ISO-2022-JP): a narrow       *)
(* character needs the engine in mode 1, a wide one in mode 2, and a mode  *)
(* change is announced by an escape sequence of EscLen bytes.  A byte is   *)
(* a record [ch, pos]: byte pos of character ch, or ch = "ESC" for a byte  *)
(* of the escape sequence that switches to mode pos.  The engine never    *)
(* writes part of a character: either the escape and the whole character  *)
(* fit in the output room, or it stops with OutputNotEnough.               *)
(***************************************************************************)
EXTENDS Naturals, Sequences, SequencesExt

CONSTANTS NarrowChars, WideChars, BadChars, EscLen

ASSUME /\ NarrowChars \cap WideChars = {}
       /\ BadChars \cap (NarrowChars \cup WideChars) = {}
       /\ EscLen \in Nat \ {0}

Chars == NarrowChars \cup WideChars \cup BadChars

\* The shift mode of the target encoding; 1 is the initial mode.
Modes == {1, 2}
InitialMode == 1

\* Outcomes of one call of the engine.
Results == {"ok", "input_not_enough", "output_not_enough", "illegal"}

SrcWidth(c) == IF c \in WideChars THEN 2 ELSE 1
ModeOf(c) == IF c \in WideChars THEN 2 ELSE 1

\* The source bytes of one character, and of a text.
CharBytes(c) == [i \in 1..SrcWidth(c) |-> [ch |-> c, pos |-> i]]
SrcBytes(text) == FlattenSeq([i \in DOMAIN text |-> CharBytes(text[i])])

EscSeq(m) == [i \in 1..EscLen |-> [ch |-> "ESC", pos |-> m]]

\* What the target encoding emits for c when the engine is in mode m.
TargetUnit(c, m) ==
    (IF ModeOf(c) = m THEN <<>> ELSE EscSeq(ModeOf(c))) \o CharBytes(c)

SrcByte == [ch : Chars, pos : {1, 2}]
TgtByte == [ch : NarrowChars \cup WideChars, pos : {1, 2}]
             \cup [ch : {"ESC"}, pos : Modes]

(***************************************************************************)
(* jconv(info, &inbuf, &inroom, &outbuf, &outroom): convert characters of *)
(* in from the front while they are complete and their target unit fits   *)
(* in room.  used is the number of input bytes consumed, out the bytes    *)
(* written, mode the shift state afterwards.  Output written before the   *)
(* engine stops stays written, as with iconv.                             *)
(***************************************************************************)
RECURSIVE Jconv(_, _, _)
Jconv(in, room, mode) ==
    LET stop(res) == [res |-> res, used |-> 0, out |-> <<>>, mode |-> mode]
    IN  IF in = <<>> THEN stop("ok")
        ELSE LET c == in[1].ch
                 w == SrcWidth(c)
                 u == TargetUnit(c, mode)
             IN  CASE c \in BadChars \/ in[1].pos # 1 -> stop("illegal")
                   [] Len(in) < w                    -> stop("input_not_enough")
                   [] Len(u) > room                  -> stop("output_not_enough")
                   [] OTHER ->
                        LET r == Jconv(SubSeq(in, w + 1, Len(in)),
                                       room - Len(u), ModeOf(c))
                        IN  [r EXCEPT !.used = @ + w, !.out = u \o @]

\* jconv_reset(info, outbuf, outroom): the escape back to the initial mode,
\* or "noroom" when it does not fit.
JconvReset(mode, room) ==
    CASE mode = InitialMode -> [res |-> "ok", out |-> <<>>, mode |-> mode]
      [] EscLen > room      -> [res |-> "noroom", out |-> <<>>, mode |-> mode]
      [] OTHER              -> [res |-> "ok", out |-> EscSeq(InitialMode),
                                mode |-> InitialMode]

\* The whole text converted in one call with unlimited room, then reset:
\* the reference output a streaming conversion must reproduce.
WholeConversion(text) ==
    LET bytes == SrcBytes(text)
        r == Jconv(bytes, Len(bytes) * (EscLen + 2), InitialMode)
    IN  IF r.res = "ok"
        THEN r.out \o JconvReset(r.mode, EscLen).out
        ELSE r.out

WellFormed(text) == \A i \in DOMAIN text : text[i] \notin BadChars
=============================================================================
