---------------------------- MODULE MinizInflate ----------------------------
(***************************************************************************)
(* The decompressor of mcpe-vv-module/src/miniz.c: the coroutine           *)
(* tinfl_decompress, which may stop at any byte of input or of output and  *)
(* is resumed there, the zlib-style stream over its window, and the        *)
(* one-call helpers.                                                       *)
(*                                                                         *)
(* A compressed stream is a function from bit positions to the fields that *)
(* start there, <<kind, width, a, b>>.  The bits of a field are left out;  *)
(* where each one starts is not: the decoder finds its place only from the *)
(* bytes it has read and the bits it still holds, and a field looked up at *)
(* a position where none starts is a corrupted stream.                     *)
(***************************************************************************)
EXTENDS Integers, Sequences, SequencesExt

CONSTANTS Streams, \* sequences of blocks, see BlockFields
          Window,  \* TINFL_LZ_DICT_SIZE, a power of two
          Trail,   \* bytes that follow the stream in the input
          Grow,    \* the first capacity of tinfl_decompress_mem_to_heap
          Chunks, Rooms

VARIABLES stream, \* the compressed stream, see Compressed
          r,      \* tinfl_decompressor
          z,      \* inflate_state: window, first call, flushed
          tin,    \* total_in
          got,    \* what the application received
          ret     \* what the last call returned

vars == <<stream, r, z, tin, got, ret>>

Least(a, b) == IF a < b THEN a ELSE b
Most(a, b) == IF a > b THEN a ELSE b

(***************************************************************************)
(* A stream and what it stands for                                         *)
(***************************************************************************)

\* A block is a stored one, <<"raw", bytes>>, or a compressed one whose
\* symbols are literals <<"lit", width, v>> and matches <<"match", width,
\* length, extra bits, distance>>.
BlockFields(b, last) ==
  LET h == <<"hdr", 3, IF last THEN 1 ELSE 0, IF b[1] = "raw" THEN 0 ELSE 2>>
  IN IF b[1] = "raw"
     THEN <<h, <<"pad", 0, 0, 0>>>>
          \o [i \in 1..4 |-> <<"rawlen", 8, Len(b[2]), 0>>]
          \o [i \in 1..Len(b[2]) |-> <<"raw", 8, b[2][i], 0>>]
     ELSE <<h, <<"table", 14, 0, 0>>>>
          \o FlattenSeq([i \in 1..Len(b[2]) |->
               LET t == b[2][i]
               IN IF t[1] = "lit" THEN <<<<"lit", t[2], t[3], 0>>>>
                  ELSE <<<<"len", t[2], t[3], t[4]>>>>
                       \o (IF t[4] > 0 THEN <<<<"lenx", t[4], 0, 0>>>> ELSE <<>>)
                       \o <<<<"dist", 5, t[5], t[4]>>>>
                       \o (IF t[4] > 0 THEN <<<<"distx", t[4], 0, 0>>>> ELSE <<>>)])
          \o <<<<"end", 7, 0, 0>>>>

AllFields(blocks) ==
  <<<<"zhdr", 8, 0, 0>>, <<"zhdr", 8, 0, 0>>>>
  \o FlattenSeq([i \in 1..Len(blocks) |-> BlockFields(blocks[i], i = Len(blocks))])
  \o <<<<"pad", 0, 0, 0>>>> \o [i \in 1..4 |-> <<"adler", 8, 0, 0>>]

\* Lay the fields out from bit `at`: a pad takes what is left of its byte.
RECURSIVE Laid(_, _, _)
Laid(fields, at, done) ==
  LET f == Head(fields)
  IN IF fields = <<>> THEN [at |-> at, f |-> done]
     ELSE IF f[1] = "pad" THEN Laid(Tail(fields), at + ((8 - (at % 8)) % 8), done)
     ELSE Laid(Tail(fields), at + f[2], (at :> f) @@ done)

\* The bytes the stream decodes to.
Reference(blocks) ==
  FoldLeft(LAMBDA acc, t :
             IF t[1] = "lit" THEN Append(acc, t[3])
             ELSE acc \o [i \in 1..t[3] |-> acc[Len(acc) - t[5] + 1 + ((i - 1) % t[5])]],
           <<>>,
           FlattenSeq([i \in 1..Len(blocks) |->
             IF blocks[i][1] = "raw"
             THEN [j \in 1..Len(blocks[i][2]) |-> <<"lit", 8, blocks[i][2][j]>>]
             ELSE blocks[i][2]]))

\* The stream of a list of blocks: the field at each bit position where one
\* starts, its length in bytes, and the bytes it decodes to.
Compressed(blocks) ==
  LET laid == Laid(AllFields(blocks), 0, <<>>)
  IN [fields |-> laid.f, bytes |-> laid.at \div 8, plain |-> Reference(blocks)]

(***************************************************************************)
(* tinfl_decompress                                                        *)
(*                                                                         *)
(* x: pc is the place in the coroutine, cur the bytes of input taken, nb   *)
(* the bits held, oc the output cursor, fin m_final, and m_counter,        *)
(* m_dist and m_dist_from_out_buf_start as in the code.                    *)
(* k: the call: first input byte, end of input, end of output, whether the *)
(* output is a window that wraps, whether more input may come.             *)
(***************************************************************************)

\* tinfl_init
Start == [pc |-> "zhdr", cur |-> 0, nb |-> 0, fin |-> 0, counter |-> 0,
          dist |-> 0, dfo |-> 0, val |-> 0, oc |-> 0, buf |-> <<>>, st |-> "none"]

\* The field at the decoder's place in the stream.
Field(x) ==
  LET at == 8 * x.cur - x.nb
  IN IF at \in DOMAIN stream.fields THEN stream.fields[at] ELSE <<"none", 8, 0, 0>>

\* common_exit: unless more input is needed, whole bytes the decoder looked
\* ahead go back to the caller, as far as this call took them.
PutBack(x, k, st) ==
  LET n == IF st \in {"needs", "stuck"} THEN 0 ELSE Least(x.cur - k.in0, x.nb \div 8)
  IN [x EXCEPT !.cur = @ - n, !.nb = @ - 8 * n, !.st = st]

Starved(x, k) == PutBack(x, k, IF k.more THEN "needs" ELSE "stuck")

\* TINFL_NEED_BITS: one byte at a time until w bits are there.
Fill(x, k, w) ==
  LET n == IF x.nb >= w THEN 0 ELSE Least(k.inEnd - x.cur, (w - x.nb + 7) \div 8)
  IN [x EXCEPT !.cur = @ + n, !.nb = @ + 8 * n]

\* TINFL_HUFF_DECODE: two bytes at once when they are there.
FillCode(x, k, w) == IF x.nb >= 15 THEN x
                     ELSE IF k.inEnd - x.cur < 2 THEN Fill(x, k, w)
                     ELSE [x EXCEPT !.cur = @ + 2, !.nb = @ + 16]

Skip(x, w) == [x EXCEPT !.nb = @ - w]
Put(x, v) == [x EXCEPT !.buf = (x.oc :> v) @@ @, !.oc = @ + 1]

\* The source index of a copy: masked in a window, plain otherwise.
From(k, i) == IF k.wraps THEN i % Window ELSE i

\* After a symbol was decoded: a literal waits for room, a length for its
\* extra bits and distance, the end of a block for the next one.
Symbol(x, f) ==
  CASE f[1] = "lit" -> [x EXCEPT !.pc = "lit", !.val = f[3]]
    [] f[1] = "len" -> [x EXCEPT !.pc = IF f[4] > 0 THEN "lenx" ELSE "dist",
                                 !.counter = f[3]]
    [] f[1] = "end" -> [x EXCEPT !.pc = IF x.fin = 1 THEN "endpad" ELSE "hdr"]
    [] OTHER -> [x EXCEPT !.pc = "failed"]

\* A distance is complete: copy at once when source and target lie before
\* the end of the output, byte by byte otherwise.
StartCopy(x, k) ==
  LET src == From(k, x.oc - x.dist)
      n == x.counter
      Copied[i \in 0..n] ==
        IF i = 0 THEN x.buf
        ELSE ((x.oc + i - 1) :> Copied[i - 1][src + i - 1]) @@ Copied[i - 1]
  IN IF ~k.wraps /\ x.dist > x.oc THEN [x EXCEPT !.pc = "failed"]
     ELSE IF Most(x.oc, src) + n > k.oEnd
          THEN [x EXCEPT !.pc = "copy", !.dfo = x.oc]
          ELSE [x EXCEPT !.buf = Copied[n], !.oc = @ + n, !.pc = "sym", !.dfo = x.oc]

\* The symbol loop's fast path: four bytes of input and room for two bytes
\* of output, so two symbols are decoded without looking again.
FastSymbols(x, k) ==
  LET a == IF x.nb < 30 THEN [x EXCEPT !.cur = @ + 4, !.nb = @ + 32] ELSE x
      f1 == Field(a)
      b == Skip(a, f1[2])
      f2 == Field(b)
      c == Put(Skip(b, f2[2]), f1[3])
  IN IF f1[1] # "lit" THEN Symbol(b, f1)
     ELSE IF f2[1] # "lit" THEN Symbol(c, f2)
     ELSE Put(c, f2[3])

\* One turn of the coroutine at a place that reads no field of its own.
Turn(x, k, room) ==
  CASE x.pc = "failed" -> PutBack(x, k, "failed")
    [] x.pc = "done" -> PutBack(x, k, "done")
    [] x.pc = "copy" /\ x.counter = 0 -> [x EXCEPT !.pc = "sym"]
    [] x.pc = "raw" /\ x.counter = 0 ->
         [x EXCEPT !.pc = IF x.fin = 1 THEN "endpad" ELSE "hdr"]
    [] x.pc \in {"lit", "copy", "raw", "rawlit"} /\ ~room -> PutBack(x, k, "output")
    [] x.pc = "lit" -> [Put(x, x.val) EXCEPT !.pc = "sym"]
    [] x.pc = "copy" -> [Put(x, x.buf[From(k, x.dfo - x.dist)])
                           EXCEPT !.counter = @ - 1, !.dfo = @ + 1]
    [] x.pc = "startcopy" -> StartCopy(x, k)
    [] x.pc = "rawlit" -> [Put(x, x.val) EXCEPT !.pc = "raw", !.counter = @ - 1]
    [] x.pc = "rawpad" -> [Skip(x, x.nb % 8) EXCEPT !.pc = "rawlen", !.counter = 0]

\* The bytes of a stored block, as many as there are input and room for.
CopyRaw(x, n) ==
  LET RawAt(i) == Field([x EXCEPT !.cur = @ + i, !.nb = 0])[3]
  IN [x EXCEPT !.cur = @ + n, !.oc = @ + n, !.counter = @ - n,
               !.buf = [i \in x.oc..(x.oc + n - 1) |-> RawAt(i - x.oc)] @@ @]

\* The end of the last block: the rest of its byte is skipped, and whole
\* bytes this call looked ahead go back.
EndPad(x, m) == [x EXCEPT !.cur = @ - m, !.nb = @ - 8 * m, !.pc = "adler", !.counter = 0]

\* A field f was read whole: s is the decoder after it.
Take(s, f) ==
  CASE s.pc = "raw" -> [s EXCEPT !.pc = "rawlit", !.val = f[3]]
    [] s.pc = "zhdr" -> [s EXCEPT !.counter = @ + 1,
                                  !.pc = IF s.counter = 1 THEN "hdr" ELSE "zhdr"]
    [] s.pc = "hdr" /\ f[1] = "hdr" ->
         [s EXCEPT !.fin = f[3], !.pc = IF f[4] = 0 THEN "rawpad" ELSE "table"]
    [] s.pc = "rawlen" /\ f[1] = "rawlen" ->
         IF s.counter < 3 THEN [s EXCEPT !.counter = @ + 1]
         ELSE [s EXCEPT !.counter = f[3], !.pc = "raw"]
    [] s.pc = "table" /\ f[1] = "table" -> [s EXCEPT !.pc = "sym"]
    [] s.pc = "sym" -> Symbol(s, f)
    [] s.pc = "lenx" /\ f[1] = "lenx" -> [s EXCEPT !.pc = "dist"]
    [] s.pc = "dist" /\ f[1] = "dist" ->
         [s EXCEPT !.dist = f[3], !.pc = IF f[4] > 0 THEN "distx" ELSE "startcopy"]
    [] s.pc = "distx" /\ f[1] = "distx" -> [s EXCEPT !.pc = "startcopy"]
    [] s.pc = "adler" /\ f[1] = "adler" ->
         [s EXCEPT !.counter = @ + 1, !.pc = IF s.counter = 3 THEN "done" ELSE "adler"]
    [] OTHER -> [s EXCEPT !.pc = "failed"]

\* y is the decoder with what input there is for a field of w bits.
TakeFrom(y, k, f, w) == IF y.nb < w THEN Starved(y, k) ELSE Take(Skip(y, w), f)

\* Reading the field f that the place in the coroutine waits for.
Read(x, k, f) ==
  CASE x.pc = "raw" -> TakeFrom(Fill(x, k, 8), k, f, 8)
    [] x.pc \in {"sym", "dist"} -> TakeFrom(FillCode(x, k, f[2]), k, f, f[2])
    [] OTHER -> TakeFrom(Fill(x, k, f[2]), k, f, f[2])

Step(x, k) ==
  LET room == x.oc < k.oEnd
      spare == x.nb % 8
  IN CASE x.pc = "raw" /\ x.counter > 0 /\ x.nb > 0 -> Read(x, k, Field(x))
       [] x.pc = "raw" /\ x.counter > 0 /\ room ->
            IF x.cur >= k.inEnd THEN Starved(x, k)
            ELSE CopyRaw(x, Least(Least(k.oEnd - x.oc, k.inEnd - x.cur), x.counter))
       [] x.pc \in {"failed", "done", "lit", "copy", "startcopy", "raw", "rawlit",
                    "rawpad"} -> Turn(x, k, room)
       [] x.pc = "endpad" ->
            EndPad(Skip(x, spare), Least(x.cur - k.in0, (x.nb - spare) \div 8))
       [] x.pc = "sym" /\ k.inEnd - x.cur >= 4 /\ k.oEnd - x.oc >= 2 ->
            FastSymbols(x, k)
       [] OTHER -> Read(x, k, Field(x))

\* The coroutine runs until it has a status to return.
RECURSIVE Run(_, _)
Run(x, k) == IF x.st # "none" THEN x ELSE Run(Step(x, k), k)

\* One call: the input up to inEnd, the output from oc up to oEnd of buf.
Decompress(x, inEnd, buf, oc, oEnd, wraps, more) ==
  Run([x EXCEPT !.buf = buf, !.oc = oc, !.st = "none"],
      [in0 |-> x.cur, inEnd |-> inEnd, oEnd |-> oEnd, wraps |-> wraps, more |-> more])

Written(x, oc) == [i \in 1..(x.oc - oc) |-> x.buf[oc + i - 1]]
Kept(x) == [x EXCEPT !.buf = <<>>, !.oc = 0]
Failing == {"failed", "stuck"}

(***************************************************************************)
(* mz_inflate                                                              *)
(***************************************************************************)

\* The loop over the window: decode into it, hand out what fits.  acc is
\* what this call has handed out, room what the application has left.
RECURSIVE InflateLoop(_, _, _, _, _, _, _)

\* c is the decoder after one turn of the loop.
HandOut(c, w, inEnd, orig, room, finish, acc) ==
  LET out == Written(c, w.ofs)
      n == Least(Len(out), room)
      avail == Len(out) - n
      w2 == [w EXCEPT !.dict = c.buf, !.ofs = (@ + n) % Window, !.avail = avail,
                      !.last = c.st]
      all == acc \o SubSeq(out, 1, n)
      Res(v) == [x |-> Kept(c), w |-> w2, out |-> all, ret |-> v]
      Again == InflateLoop(Kept(c), w2, inEnd, orig, room - n, finish, all)
  IN IF c.st \in Failing THEN Res("data_error")
     ELSE IF c.st = "needs" /\ orig = 0 THEN Res("buf_error")
     ELSE IF finish
          THEN IF c.st = "done" THEN Res(IF avail > 0 THEN "buf_error" ELSE "stream_end")
               ELSE IF room = n THEN Res("buf_error") ELSE Again
     ELSE IF c.st = "done" \/ c.cur = inEnd \/ room = n \/ avail > 0
          THEN Res(IF c.st = "done" /\ avail = 0 THEN "stream_end" ELSE "ok")
          ELSE Again

InflateLoop(x, w, inEnd, orig, room, finish, acc) ==
  HandOut(Decompress(x, inEnd, w.dict, w.ofs, Window, TRUE, ~finish),
          w, inEnd, orig, room, finish, acc)

\* Handing out what an earlier call left in the window.
Drain(room) ==
  LET n == Least(z.avail, room)
      out == [i \in 1..n |-> z.dict[z.ofs + i - 1]]
      w == [z EXCEPT !.avail = @ - n, !.ofs = (@ + n) % Window]
  IN [x |-> r, w |-> w, out |-> out,
      ret |-> IF z.last = "done" /\ w.avail = 0 THEN "stream_end" ELSE "ok"]

\* MZ_FINISH on the first call decodes straight into the application's buffer.
Delivered(c) ==
  [x |-> Kept(c), out |-> Written(c, 0),
   w |-> [z EXCEPT !.last = IF c.st = "done" THEN "done" ELSE "failed"],
   ret |-> IF c.st \in Failing THEN "data_error"
           ELSE IF c.st = "done" THEN "stream_end" ELSE "buf_error"]
Straight(inEnd, room) == Delivered(Decompress(r, inEnd, <<>>, 0, room, FALSE, FALSE))

Total == stream.bytes + Trail
Fresh == [dict |-> [i \in 0..(Window - 1) |-> 2], ofs |-> 0, avail |-> 0,
          last |-> "needs", first |-> TRUE, flushed |-> FALSE]
None == [st |-> "none", moved |-> TRUE, whole |-> FALSE]

Init == /\ stream \in {Compressed(b) : b \in Streams}
        /\ r = Start /\ z = Fresh /\ tin = 0 /\ got = <<>> /\ ret = None

\* The stream takes over what a call decoded.
Took(res, inEnd, room, finish) ==
  /\ r' = res.x
  /\ z' = [res.w EXCEPT !.first = FALSE, !.flushed = z.flushed \/ finish]
  /\ tin' = res.x.cur
  /\ got' = got \o res.out
  /\ ret' = [st |-> res.ret, whole |-> inEnd = Total,
             moved |-> res.x.cur > tin \/ res.out # <<>> \/ inEnd = tin \/ room = 0]

\* mz_inflate with n more bytes of input and room for `room` bytes.
Inflate(n, room, finish) ==
  LET inEnd == Least(tin + n, Total)
  IN /\ ret.st \notin {"stream_error", "helper"}
     /\ IF z.last \in Failing
        THEN /\ ret' = [st |-> "data_error", moved |-> TRUE, whole |-> FALSE]
             /\ z' = [z EXCEPT !.first = FALSE]
             /\ UNCHANGED <<r, tin, got>>
        ELSE IF z.flushed /\ ~finish
        THEN /\ ret' = [st |-> "stream_error", moved |-> TRUE, whole |-> FALSE]
             /\ UNCHANGED <<r, z, tin, got>>
        ELSE Took(IF finish /\ z.first THEN Straight(inEnd, room)
                  ELSE IF z.avail > 0 THEN Drain(room)
                  ELSE InflateLoop(r, z, inEnd, inEnd - tin, room, finish, <<>>),
                  inEnd, room, finish)
     /\ UNCHANGED stream

\* mz_inflateReset, which leaves the window's bytes and what else is in r.
Reset == /\ ret.st \in {"stream_end", "data_error", "stream_error"}
         /\ r' = Start
         /\ z' = [Fresh EXCEPT !.dict = z.dict]
         /\ tin' = 0 /\ got' = <<>> /\ ret' = None
         /\ UNCHANGED stream

(***************************************************************************)
(* The one-call helpers, given the whole stream                            *)
(***************************************************************************)

\* tinfl_decompress_mem_to_heap: double the buffer until everything fits.
RECURSIVE ToHeap(_, _, _)
Grown(c, cap) ==
  IF c.st = "done" THEN [ok |-> TRUE, out |-> Written(c, 0), in |-> c.cur]
  ELSE IF c.st = "output" THEN ToHeap(c, c.buf, Most(Grow, 2 * cap))
  ELSE [ok |-> FALSE, out |-> <<>>, in |-> c.cur]
ToHeap(x, buf, cap) == Grown(Decompress(x, Total, buf, x.oc, cap, FALSE, FALSE), cap)

\* tinfl_decompress_mem_to_mem
InMem(c) == [ok |-> c.st = "done", out |-> Written(c, 0), in |-> c.cur]
ToMem(room) == InMem(Decompress(Start, Total, <<>>, 0, room, FALSE, FALSE))

\* tinfl_decompress_mem_to_callback: the sink takes `takes` windows and then
\* refuses.
RECURSIVE ToCallback(_, _, _, _, _)
CalledBack(c, out, takes, acc) ==
  IF out # <<>> /\ takes = 0 THEN [ok |-> FALSE, out |-> acc, in |-> c.cur]
  ELSE IF c.st # "output"
       THEN [ok |-> c.st = "done", out |-> acc \o out, in |-> c.cur]
       ELSE ToCallback(Kept(c), c.buf, c.oc % Window, takes - 1, acc \o out)
ToCallback(x, dict, ofs, takes, acc) ==
  LET c == Decompress(x, Total, dict, ofs, Window, TRUE, FALSE)
  IN CalledBack(c, Written(c, ofs), takes, acc)

\* mz_uncompress2 is mz_inflate's first call with MZ_FINISH on a new stream.
Helped(res) ==
  /\ ret.st = "none"
  /\ got' = res.out
  /\ tin' = res.in
  /\ ret' = [st |-> "helper", moved |-> res.ok, whole |-> TRUE]
  /\ UNCHANGED <<stream, r, z>>
Helper(kind, room) ==
  Helped(CASE kind = "heap" -> ToHeap(Start, <<>>, 0)
           [] kind = "mem" -> ToMem(room)
           [] kind = "callback" -> ToCallback(Start, Fresh.dict, 0, room, <<>>))

Next == \/ \E n \in Chunks, room \in Rooms, finish \in BOOLEAN : Inflate(n, room, finish)
        \/ Reset
        \/ \E kind \in {"heap", "mem", "callback"}, room \in Rooms : Helper(kind, room)

Spec == Init /\ [][Next]_vars

(***************************************************************************)
(* Properties                                                              *)
(***************************************************************************)

\* Whatever the sizes of the buffers, the application has received a prefix
\* of what the stream stands for; at the end it has all of it, and not a byte
\* of what follows the stream was taken.
InflateExact ==
  /\ IsPrefix(got, stream.plain)
  /\ ret.st = "stream_end" => got = stream.plain /\ tin = stream.bytes
  /\ ret.st = "helper" /\ ret.moved => got = stream.plain /\ tin = stream.bytes

\* A sound stream is never called corrupt: data_error comes only to a caller
\* that announced the last of its input or room (MZ_FINISH) too early, and a
\* call that was given input and room gets further.
NeverStuck ==
  /\ ret.st = "data_error" => z.flushed
  /\ ret.st = "ok" => ret.moved
  /\ ret.st = "buf_error" /\ ~z.flushed => tin < stream.bytes + Trail
=============================================================================
