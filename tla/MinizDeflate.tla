---------------------------- MODULE MinizDeflate ----------------------------
(***************************************************************************)
(* The compressor of mcpe-vv-module/src/miniz.c: the sliding dictionary    *)
(* with its mirrored head, the hash chains of 16-bit positions, the lazy   *)
(* parser, the blocks it flushes, and the zlib-style stream on top of it.  *)
(*                                                                         *)
(* A byte is a bit, so that a hash of three bytes is a number.  An output  *)
(* byte is a token <<kind, a, b>>: a literal, a match (length, distance),  *)
(* the header of a block, its end, the zlib header and trailer.  Whether a *)
(* compressed block came out longer than its bytes is decided by the bits  *)
(* of its codes, which the model leaves out: pref stands for the outcome.  *)
(***************************************************************************)
EXTENDS Integers, Sequences, FiniteSets, SequencesExt

CONSTANTS Inputs,    \* the byte sequences an application compresses
          Modes,     \* parser flags: lazy, greedy, rle, raw, filter
          Dict,      \* TDEFL_LZ_DICT_SIZE, a power of two
          PosMod,    \* the range of a stored position, 2^16 for 2^15 bytes
          MaxMatch,  \* TDEFL_MAX_MATCH_LEN
          LongMatch, \* a match taken at once, 128
          FarDist,   \* the distance at which a shortest match is dropped, 8 K
          ShortMatch,\* TDEFL_FILTER_MATCHES drops matches up to this length
          Probes,    \* m_max_probes
          CodeMax,   \* the bytes of codes a block holds
          RawMax,    \* 31 K: from here a block of literals is cut
          Garbage,   \* what m_next may hold when tdefl_init leaves it alone
          Chunks, Rooms, \* sizes of the application's buffers
          MaxFlushes \* sync and full flushes of one stream

MinMatch == 3
HashSize == 4
NoFlush == 0
Sync == 2
Full == 3
Finish == 4

VARIABLES inp,     \* the input of this stream
          mode,
          d,       \* tdefl_compressor
          fed,     \* total_in
          sent,    \* every token the application received
          ret,     \* what the last call returned, its flush and room left
          flushes  \* sync and full flushes asked for so far

vars == <<inp, mode, d, fed, sent, ret, flushes>>

Less(a, b) == IF a < b THEN a ELSE b

\* tdefl_init: everything but m_next is cleared.
Fresh(next) ==
  [dict |-> [i \in 0..(Dict + MaxMatch - 2) |-> 0], next |-> next,
   hash |-> [h \in 0..(HashSize - 1) |-> 0],
   lp |-> 0, ls |-> 0, ds |-> 0, sl |-> 0, sd |-> 0, slit |-> 0,
   codes |-> <<>>, total |-> 0, dpos |-> 0, blk |-> 0,
   pend |-> <<>>, fin |-> FALSE, wants |-> FALSE, st |-> "okay",
   src |-> <<>>, out |-> <<>>, room |-> 0, pref |-> FALSE, put |-> TRUE,
   cut |-> 0]   \* ghost: where the last full flush ended

(***************************************************************************)
(* The dictionary and the hash chains                                      *)
(***************************************************************************)

\* One byte enters the window: its cell, the cell's mirror, and the chain of
\* the three bytes that end with it.
TakeByte(e) ==
  LET c == Head(e.src)
      dst == (e.lp + e.ls) % Dict
      near == IF dst < MaxMatch - 1 THEN {dst, Dict + dst} ELSE {dst}
      dict == [i \in DOMAIN e.dict |-> IF i \in near THEN c ELSE e.dict[i]]
      ins == e.lp + e.ls - 2
      h == (2 * dict[(ins + 1) % Dict] + c) % HashSize
  IN [e EXCEPT !.dict = dict, !.src = Tail(@), !.ls = @ + 1,
               !.next = IF e.ls + e.ds >= MinMatch - 1
                        THEN [@ EXCEPT ![ins % Dict] = e.hash[h]] ELSE @,
               !.hash = IF e.ls + e.ds >= MinMatch - 1
                        THEN [@ EXCEPT ![h] = ins % PosMod] ELSE @]

RECURSIVE FillLookahead(_)
FillLookahead(e) == IF e.src = <<>> \/ e.ls >= MaxMatch
                    THEN [e EXCEPT !.ds = Less(Dict - e.ls, @)]
                    ELSE FillLookahead(TakeByte(e))

\* The bytes two positions of the window have in common, at most max.
Common(e, p, q, max) ==
  CHOOSE n \in 0..max : /\ \A k \in 0..(n - 1) : e.dict[p + k] = e.dict[q + k]
                        /\ n < max => e.dict[p + n] # e.dict[q + n]

\* tdefl_find_match from probe position pp: three probes for one unit of
\* effort, and a candidate is compared only when it could beat the best match.
RECURSIVE Search(_, _, _, _, _, _)
Search(e, pp, left, k, dist, len) ==
  LET nxt == e.next[pp]
      away == (e.lp - nxt) % PosMod
      q == nxt % Dict
      pos == e.lp % Dict
      n == Common(e, pos, q, e.ls)
      go == IF k = 0 THEN left - 1 ELSE left
  IN IF go = 0 \/ nxt = 0 \/ away > e.ds THEN <<dist, len>>
     ELSE IF ~(/\ e.dict[q + len] = e.dict[pos + len]
               /\ e.dict[q + len - 1] = e.dict[pos + len - 1])
          THEN Search(e, q, go, (k + 1) % 3, dist, len)
          ELSE IF away = 0 THEN <<dist, len>>
          ELSE IF n <= len THEN Search(e, q, go, 0, dist, len)
          ELSE IF n = e.ls THEN <<away, n>>
          ELSE Search(e, q, go, 0, away, n)

FindMatch(e, len) == IF e.ls <= len THEN <<0, len>>
                     ELSE Search(e, e.lp % Dict, Probes, 0, 0, len)

\* TDEFL_RLE_MATCHES: only runs of the previous byte.
RunMatch(e) ==
  LET p == e.lp % Dict
      c == e.dict[(p - 1) % Dict]
      n == CHOOSE m \in 0..e.ls : /\ \A k \in 0..(m - 1) : e.dict[p + k] = c
                                  /\ m < e.ls => e.dict[p + m] # c
  IN IF n < MinMatch THEN <<0, 0>> ELSE <<1, n>>

(***************************************************************************)
(* The parser                                                              *)
(***************************************************************************)

Literal(e, v) == [e EXCEPT !.codes = Append(@, <<"lit", v, 0>>), !.total = @ + 1]
Match(e, len, dist) ==
  [e EXCEPT !.codes = Append(@, <<"match", len, dist>>), !.total = @ + len]
Save(e, len, dist) ==
  [e EXCEPT !.sl = len, !.sd = dist, !.slit = e.dict[e.lp % Dict]]

\* Move the lookahead forward.
Move(e, n) == [e EXCEPT !.lp = @ + n, !.ls = @ - n, !.ds = Less(@ + n, Dict)]

\* A shortest match far away costs more than its literals.
Worth(e, m) ==
  LET dropped == \/ m[2] = MinMatch /\ m[1] >= FarDist
                 \/ e.lp % Dict = m[1]
                 \/ mode = "filter" /\ m[2] <= ShortMatch
  IN IF dropped THEN <<0, 0>> ELSE m

Candidate(e) ==
  LET least == IF e.sl > 0 THEN e.sl ELSE MinMatch - 1
  IN Worth(e, CASE mode = "rle" /\ e.ds > 0 -> RunMatch(e)
                [] mode \in {"rle", "raw"} -> <<0, least>>
                [] OTHER -> FindMatch(e, least))

\* One turn of the lazy state machine: record a literal, a match, or keep a
\* match to see whether the next position has a longer one.
Parse(e, dist, len) ==
     IF e.sl > 0
     THEN IF len > e.sl
          THEN IF len >= LongMatch
               THEN Move([Match(Literal(e, e.slit), len, dist) EXCEPT !.sl = 0], len)
               ELSE Move(Save(Literal(e, e.slit), len, dist), 1)
          ELSE Move([Match(e, e.sl, e.sd) EXCEPT !.sl = 0], e.sl - 1)
     ELSE IF dist = 0 THEN Move(Literal(e, e.dict[e.lp % Dict]), 1)
     ELSE IF mode \in {"greedy", "rle"} \/ len >= LongMatch
          THEN Move(Match(e, len, dist), len)
          ELSE Move(Save(e, len, dist), 1)

ParseMatch(e, m) == Parse(e, m[1], m[2])
ParseOne(e) == ParseMatch(e, Candidate(e))

\* The bytes the codes of the block take: one flag byte for eight of them.
CodeBytes(e) ==
  LET matches == Cardinality({i \in 1..Len(e.codes) : e.codes[i][1] = "match"})
  IN 1 + Len(e.codes) \div 8 + Len(e.codes) + 2 * matches

BlockFull(e) == \/ CodeBytes(e) > CodeMax
                \/ /\ e.total > RawMax
                   /\ (CodeBytes(e) * 115) \div 128 >= e.total \/ mode = "raw"

(***************************************************************************)
(* Blocks and the output buffer                                            *)
(***************************************************************************)

BlockInDictMutAlways(e) == TRUE

\* The dictionary still holds every byte of the block.
BlockInDict(e) == e.lp - e.dpos <= e.ds

RawBytes(e) == [i \in 1..e.total |-> <<"lit", e.dict[(e.dpos + i - 1) % Dict], 0>>]

\* The tokens of a block: a compressed one or a raw one, and what a flush adds.
BlockTokens(e, flush, raw) ==
  (IF e.blk = 0 THEN <<<<"zlib", 0, 0>>>> ELSE <<>>)
  \o <<<<"block", IF flush = Finish THEN 1 ELSE 0, IF raw THEN e.total ELSE -1>>>>
  \o (IF raw THEN RawBytes(e) ELSE e.codes \o <<<<"end", 0, 0>>>>)
  \o (CASE flush = Finish -> <<<<"adler", 0, 0>>>>
        [] flush \in {Sync, Full} -> <<<<"block", 0, 0>>>>
        [] OTHER -> <<>>)

\* What fits goes to the application, the rest waits.
Deliver(e, toks, n) ==
  [e EXCEPT !.out = @ \o SubSeq(toks, 1, n), !.room = @ - n,
            !.pend = SubSeq(toks, n + 1, Len(toks))]
DeliverAll(e, toks) == Deliver(e, toks, Less(Len(toks), e.room))

\* tdefl_flush_block
FlushBlock(e, flush) ==
  LET raw == (mode = "raw" \/ (e.total > 0 /\ e.pref)) /\ BlockInDict(e)
      f == [e EXCEPT !.codes = <<>>, !.dpos = @ + e.total, !.total = 0, !.blk = 1]
  IN IF e.put THEN DeliverAll(f, BlockTokens(e, flush, raw))
              ELSE [f EXCEPT !.st = "put_failed"]

\* One turn of tdefl_compress_normal, and whether it goes on: f has its
\* lookahead filled, g is one symbol on, b has flushed its full block.
GoOn(e) == [e |-> e, on |-> TRUE]
Stop(e) == [e |-> e, on |-> FALSE]
AfterBlock(b) == IF b.pend # <<>> \/ b.st = "put_failed" THEN Stop(b) ELSE GoOn(b)
AfterSymbol(g) == IF BlockFull(g) THEN AfterBlock(FlushBlock(g, NoFlush)) ELSE GoOn(g)
Filled(f, flush) == IF flush = NoFlush /\ f.ls < MaxMatch THEN Stop(f)
                    ELSE AfterSymbol(ParseOne(f))
NormalTurn(e, flush) ==
  IF e.src = <<>> /\ (flush = NoFlush \/ e.ls = 0) THEN Stop(e)
  ELSE Filled(FillLookahead(e), flush)

\* tdefl_compress_normal
RECURSIVE NormalTurns(_, _)
NormalTurns(t, flush) == IF t.on THEN NormalTurns(NormalTurn(t.e, flush), flush) ELSE t.e
CompressNormal(e, flush) == NormalTurns(GoOn(e), flush)

\* tdefl_flush_output_buffer, and the status the call leaves behind.
Settled(e) == [e EXCEPT !.st = IF e.fin /\ e.pend = <<>> THEN "done" ELSE "okay"]
FlushOutput(e) == Settled(DeliverAll(e, e.pend))

\* A full flush forgets the chains and the window.
ClearChains(e) == [e EXCEPT !.hash = [h \in DOMAIN @ |-> 0],
                            !.next = [i \in DOMAIN @ |-> 0], !.ds = 0]

\* The end of tdefl_compress: b is after the flush of the last block.
AfterFlush(b, flush) ==
  LET f == [b EXCEPT !.fin = (flush = Finish),
                     !.cut = IF flush = Full THEN b.lp ELSE @]
  IN IF b.st = "put_failed" THEN b
     ELSE FlushOutput(IF flush = Full THEN ClearChains(f) ELSE f)

\* c is after the parser took what it could of the input.
AfterInput(c, flush) ==
  IF c.st = "put_failed" THEN c
  ELSE IF flush # NoFlush /\ c.ls = 0 /\ c.src = <<>> /\ c.pend = <<>>
       THEN AfterFlush(FlushBlock(c, flush), flush)
       ELSE FlushOutput(c)

\* tdefl_compress with the bytes src and room for `room` tokens; put is
\* whether the sink of tdefl_compress_mem_to_output takes what it is given.
Compress(e0, src, room, flush, pref, put) ==
  LET e == [e0 EXCEPT !.src = src, !.out = <<>>, !.room = room,
                      !.pref = pref, !.put = put]
      w == [e EXCEPT !.wants = @ \/ flush = Finish]
  IN IF e.st # "okay" \/ (e.wants /\ flush # Finish)
     THEN [e EXCEPT !.st = "bad_param"]
     ELSE IF w.pend # <<>> \/ w.fin THEN FlushOutput(w)
     ELSE AfterInput(CompressNormal(w, flush), flush)

(***************************************************************************)
(* The stream                                                              *)
(***************************************************************************)

\* mz_deflate: compress until the stream ends, the output is full, or there
\* is nothing left to do.  acc is what this call has written, c the
\* compressor after one turn of the loop.
RECURSIVE DeflateLoop(_, _, _, _, _, _, _)
Looped(c, used, flush, pref, done) ==
  LET Res(r) == [d |-> c, out |-> done, ret |-> r, left |-> c.src, room |-> c.room]
  IN CASE c.st = "bad_param" -> Res("stream_error")
       [] c.st = "done" -> Res("stream_end")
       [] c.st = "okay" /\ c.room = 0 -> Res("ok")
       [] c.st = "okay" /\ c.room > 0 /\ c.src = <<>> /\ flush # Finish ->
            Res(IF flush # NoFlush \/ used THEN "ok" ELSE "buf_error")
       [] OTHER -> DeflateLoop(c, c.src, c.room, flush, pref, done, used)
DeflateLoop(e, src, room, flush, pref, acc, moved) ==
  LET c == Compress(e, src, room, flush, pref, TRUE)
  IN Looped(c, moved \/ Len(c.src) < Len(src) \/ c.out # <<>>, flush, pref,
            acc \o c.out)

Init == /\ inp \in Inputs /\ mode \in Modes
        /\ \E g \in Garbage : d = Fresh([i \in 0..(Dict - 1) |-> g])
        /\ fed = 0 /\ sent = <<>> /\ flushes = 0
        /\ ret = [st |-> "none", flush |-> NoFlush, room |-> 0, given |-> 0,
                  held |-> FALSE]

Tidy(e) == [e EXCEPT !.src = <<>>, !.out = <<>>, !.room = 0,
                     !.pref = FALSE, !.put = TRUE]

\* The stream takes over what the loop did with the bytes src.
Took(r, src, flush) ==
  /\ d' = Tidy(r.d)
  /\ fed' = fed + Len(src) - Len(r.left)
  /\ sent' = sent \o r.out
  /\ ret' = [st |-> r.ret, flush |-> flush, room |-> r.room,
             given |-> fed + Len(src), held |-> d.pend # <<>> /\ src = <<>>]

\* mz_deflate called with up to n more bytes and room for `room` bytes.
Deflate(n, room, flush, pref) ==
  LET src == SubSeq(inp, fed + 1, Less(fed + n, Len(inp)))
  IN /\ d.st # "bad_param"
     /\ flush \in {Sync, Full} => flushes < MaxFlushes
     /\ flushes' = IF flush \in {Sync, Full} THEN flushes + 1 ELSE flushes
     /\ IF d.st \in {"done", "put_failed"}
        THEN /\ ret' = [st |-> IF d.st = "put_failed" THEN "stream_error"
                               ELSE IF flush = Finish THEN "stream_end"
                               ELSE "buf_error",
                        flush |-> flush, room |-> room, given |-> fed,
                        held |-> FALSE]
             /\ UNCHANGED <<d, fed, sent>>
        ELSE Took(DeflateLoop(d, src, room, flush, pref, <<>>, FALSE), src, flush)
     /\ UNCHANGED <<inp, mode>>

\* tdefl_compress_mem_to_output: one call that feeds everything into a sink,
\* which may refuse.
PutOut(c) ==
  /\ d' = Tidy(c)
  /\ fed' = Len(inp) - Len(c.src)
  /\ sent' = c.out
  /\ ret' = [st |-> c.st, flush |-> Finish, room |-> 1, given |-> Len(inp),
             held |-> FALSE]
MemToOutput(pref, put) ==
  /\ ret.st = "none"
  /\ PutOut(Compress(d, inp, Len(inp) * 4 + 8, Finish, pref, put))
  /\ UNCHANGED <<inp, mode, flushes>>

\* mz_deflateReset: tdefl_init, which leaves m_next as the last stream left it.
Reset ==
  /\ ret.st \in {"stream_end", "stream_error"}
  /\ d' = Fresh(d.next)
  /\ fed' = 0 /\ sent' = <<>> /\ flushes' = MaxFlushes
  /\ ret' = [st |-> "none", flush |-> NoFlush, room |-> 0, given |-> 0,
                  held |-> FALSE]
  /\ UNCHANGED <<inp, mode>>

Next == \/ \E n \in Chunks, room \in Rooms, pref \in BOOLEAN,
              flush \in {NoFlush, Sync, Full, Finish} : Deflate(n, room, flush, pref)
        \/ \E pref, put \in BOOLEAN : MemToOutput(pref, put)
        \/ Reset

Spec == Init /\ [][Next]_vars

(***************************************************************************)
(* Properties                                                              *)
(***************************************************************************)

\* What a reader of the tokens gets: the reference the format prescribes.
DecodeOne(acc, t) ==
  CASE t[1] = "lit" -> Append(acc, t[2])
    [] t[1] = "match" ->
         acc \o [i \in 1..t[2] |-> acc[Len(acc) - t[3] + 1 + ((i - 1) % t[3])]]
    [] OTHER -> acc
RECURSIVE Decode(_)
Decode(p) == IF p.rest = <<>> THEN p.acc
             ELSE Decode([rest |-> Tail(p.rest), acc |-> DecodeOne(p.acc, Head(p.rest))])
Decoded(toks) == Decode([rest |-> toks, acc |-> <<>>])

Sound == d.st # "put_failed"
All == sent \o d.pend \o d.codes

\* Everything put out so far, the block in the making included, decodes to
\* the input up to the position the parser has recorded; a saved match holds
\* back one byte; the lookahead holds the rest of what was consumed.
StreamExact ==
  Sound => /\ Decoded(All) = SubSeq(inp, 1, d.dpos + d.total)
           /\ d.dpos + d.total + (IF d.sl > 0 THEN 1 ELSE 0) = d.lp
           /\ d.lp + d.ls = fed

\* A call that ends the stream, or a flush that came back with room to spare,
\* has delivered every byte the application handed over.  (A flush without
\* input that finds output of an earlier call only drains it: mz_deflate then
\* returns although the flush itself has not begun.)
FlushDelivers ==
  \/ ret.st \in {"done", "stream_end"}
  \/ ret.st = "ok" /\ ret.flush \in {Sync, Full} /\ ret.room > 0 /\ ~ret.held
  => /\ ret.flush # Finish \/ d.fin
     /\ Decoded(sent) = SubSeq(inp, 1, fed)
     /\ (ret.st = "ok" => fed = ret.given)

\* No match reaches back over a full flush, so a reader may start there.
FullFlushCuts ==
  LET Starts(k) == Len(Decoded(SubSeq(All, 1, k)))
  IN Sound => \A k \in 1..Len(All) :
       All[k][1] = "match" /\ Starts(k - 1) >= d.cut
         => All[k][3] <= Starts(k - 1) - d.cut
=============================================================================
