---------------------------- MODULE IniEncoding ----------------------------
(***************************************************************************)
(* The encodings of a configuration file: the byte order marks and the     *)
(* conversion to and from UTF-8 in ini/ini_fileobj.c.  iconv is external.  *)
(*                                                                         *)
(* The alphabet has a character of every kind the code can tell apart: the *)
(* NUL byte, one of one byte in UTF-8 and one of three.  Every encoding is *)
(* given to the byte, so that a chunk may end inside a character.          *)
(***************************************************************************)
EXTENDS Integers, Sequences, SequencesExt

CONSTANT ICONV_BUFFER  \* bytes read, and bytes of output, at a time

\* A mark and the widest character fit in a buffer.
ASSUME BufferAssumption == ICONV_BUFFER \in Nat /\ ICONV_BUFFER >= 4

UTF8 == "UTF8"
NOBOM == "UTF8NOBOM"
Boms == {"UTF32BE", "UTF32LE", "UTF16BE", "UTF16LE", UTF8, NOBOM}

Chars == {"nul", "a", "euro"}

\* The 16 bits of a character, and its bytes in an encoding.
High(c) == IF c = "euro" THEN 32 ELSE 0
Low(c) == CASE c = "nul" -> 0 [] c = "a" -> 97 [] c = "euro" -> 172

Units(bom, c) ==
    CASE bom \in {UTF8, NOBOM} -> IF c = "euro" THEN <<226, 130, 172>> ELSE <<Low(c)>>
      [] bom = "UTF16BE" -> <<High(c), Low(c)>>
      [] bom = "UTF16LE" -> <<Low(c), High(c)>>
      [] bom = "UTF32BE" -> <<0, 0, High(c), Low(c)>>
      [] bom = "UTF32LE" -> <<Low(c), High(c), 0, 0>>

Encoded(bom, text) == FlattenSeq([i \in 1..Len(text) |-> Units(bom, text[i])])

\* The mark that write_bom puts before the text.
Mark(bom) ==
    CASE bom = "UTF32BE" -> <<0, 0, 254, 255>>
      [] bom = "UTF32LE" -> <<255, 254, 0, 0>>
      [] bom = UTF8 -> <<239, 187, 191>>
      [] bom = "UTF16BE" -> <<254, 255>>
      [] bom = "UTF16LE" -> <<255, 254>>
      [] bom = NOBOM -> <<>>

\* The mark of UTF-16LE begins that of UTF-32LE: the long marks come first.
check_bom(buffer) ==
    LET at == {b \in Boms \ {NOBOM} : IsPrefix(Mark(b), buffer)}
        longest == {b \in at : \A o \in at : Len(Mark(b)) >= Len(Mark(o))}
    IN  IF at = {} THEN NOBOM ELSE CHOOSE b \in longest : TRUE

Bytes == Seq(0..255)

(* iconv: converts whole characters while there is room in dest.           *)
iconv[from \in Boms, to \in Boms, src \in Bytes, dest \in Bytes] ==
    LET first == {c \in Chars : IsPrefix(Units(from, c), src)}
        Stop(res) == [res |-> res, src |-> src, dest |-> dest]
    IN  IF src = <<>> THEN Stop("EOK")
        ELSE IF first = {}
        THEN Stop(IF \E c \in Chars : IsStrictPrefix(src, Units(from, c)) THEN "EINVAL" ELSE "EILSEQ")
        ELSE LET c == CHOOSE x \in first : TRUE
             IN  IF Len(dest) + Len(Units(to, c)) > ICONV_BUFFER THEN Stop("E2BIG")
                 ELSE iconv[from, to, SubSeq(src, Len(Units(from, c)) + 1, Len(src)), dest \o Units(to, c)]

(* The inner loop of the conversion: a full output buffer is stored and    *)
(* the conversion goes on.  When it fails, at bytes that are no character  *)
(* or at a part of one that is the last of the file, what the output       *)
(* buffer holds is not stored.                                             *)
Fails(res, last) == res = "EILSEQ" \/ (res = "EINVAL" /\ last)

Stored(step, out, last) ==
    [res |-> step.res, src |-> step.src, out |-> IF Fails(step.res, last) THEN out ELSE out \o step.dest]

Converted[from \in Boms, to \in Boms, src \in Bytes, out \in Bytes, last \in BOOLEAN] ==
    LET done == Stored(iconv[from, to, src, <<>>], out, last)
    IN  IF done.res = "E2BIG" THEN Converted[from, to, done.src, done.out, last] ELSE done

\* do_encoding: the text of a file object in its own encoding.
do_encoding(bom, data) == Converted[NOBOM, bom, data, <<>>, TRUE]
-----------------------------------------------------------------------------
(* The loop of common_file_convert.  read_buf is left as it was where a    *)
(* read does not reach; cnt is the count of the last read that succeeded.  *)

StartConv(size) ==
    [size |-> size, total |-> 0, buf |-> [i \in 1..ICONV_BUFFER |-> 0], in |-> 0, cnt |-> 0,
     pos |-> 0, eof |-> FALSE, bom |-> NOBOM, started |-> FALSE, out |-> <<>>, res |-> "EOK"]

how_much_to_read(left, increment) == IF left > increment THEN increment ELSE left

\* fread puts what there is of the next bytes into the buffer.
Overlay(buf, pos, bytes) ==
    [i \in 1..ICONV_BUFFER |-> IF i > pos /\ i <= pos + Len(bytes) THEN bytes[i - pos] ELSE buf[i]]

\* A file that ends before the chunk is full is no error, and cnt stays what it
\* was.  The stream stays at its end, even if the file grows again.
Chunk(conv, bytes, want) ==
    IF conv.eof THEN <<>>
    ELSE SubSeq(bytes, conv.pos + 1, IF conv.pos + want > Len(bytes) THEN Len(bytes) ELSE conv.pos + want)

Received(conv, got, want) ==
    [conv EXCEPT !.buf = Overlay(@, conv.in, got), !.pos = @ + Len(got),
                 !.eof = @ \/ Len(got) < want, !.cnt = IF Len(got) = want THEN want ELSE @]

read_chunk(conv, bytes, want) == Received(conv, Chunk(conv, bytes, want), want)

\* More bytes to convert than the read buffer has.
Overread(conv) == conv.cnt + conv.in > ICONV_BUFFER

initialize_conv(conv) ==
    IF conv.started THEN conv
    ELSE [conv EXCEPT !.started = TRUE, !.bom = check_bom(SubSeq(conv.buf, 1, conv.cnt))]

\* One turn: the characters of the chunk go to the output, and the bytes of one
\* that is not complete stay at the front of the buffer for the next turn.
Turned_dropped(conv, done, total) ==
    [conv EXCEPT !.total = total, !.out = done.out, !.in = 0,
                 !.res = IF Fails(done.res, total = conv.size) THEN done.res ELSE "EOK"]

Turned(conv, done, total) ==
    LET more == done.res = "EINVAL"
    IN  [conv EXCEPT !.total = total, !.out = done.out,
                     !.res = IF Fails(done.res, total = conv.size) THEN done.res ELSE "EOK",
                     !.in = IF more THEN Len(done.src) ELSE 0,
                     !.buf = IF more THEN Overlay(@, 0, done.src) ELSE @]

\* What the chunk is converted to.  old is the state before it was read: the mark
\* is skipped once.
ChunkConverted(old, conv) ==
    Converted[conv.bom, NOBOM,
              SubSeq(conv.buf, (IF old.started THEN 0 ELSE Len(Mark(conv.bom))) + 1, conv.cnt + conv.in),
              conv.out, conv.total + conv.cnt = conv.size]

ConvDone(conv) == conv.total >= conv.size
=============================================================================
