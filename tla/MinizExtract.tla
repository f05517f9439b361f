---------------------------- MODULE MinizExtract ----------------------------
(***************************************************************************)
(* Taking one entry out of an archive (miniz.c): into one buffer, through a *)
(* callback, or piecewise with an iterator, from memory or from a file that *)
(* is read a buffer at a time.  The compressed data is a sequence of cells, *)
(* each of which inflates to some bytes; the last one ends the stream.      *)
(***************************************************************************)
EXTENDS Integers, Sequences, SequencesExt

CONSTANTS
    Entries,    \* [method, cells, size, crc]: cells is the stored data or the stream
    IoBuf,      \* MZ_ZIP_MAX_IO_BUF_SIZE
    Dict,       \* TINFL_LZ_DICT_SIZE
    Asks,       \* buffer sizes the iterator's caller reads with
    Fails,      \* which read of the file, or which callback, fails (0: none)
    MaxReads    \* bound: iterator reads, over a behaviour

VARIABLES
    entry, inMem,
    it,         \* the iterator, [open |-> FALSE] when there is none
    out,        \* ghost: bytes the caller holds
    faulty,     \* ghost: a read or a callback failed
    ret         \* [kind, ok, drained] of the last finished extraction

vars == <<entry, inMem, it, out, faulty, ret>>

Low(a, b) == IF a < b THEN a ELSE b
Content(e) == IF e.method = 0 THEN e.cells ELSE FlattenSeq(e.cells)

(* The CRC of some bytes, as far as it tells contents apart *)
CrcOk(e, bytes) == bytes = e.crc

(* A cell that was never read from the file: its buffer holds anything *)
Junk == <<-1>>

-----------------------------------------------------------------------------
(* tinfl_decompress, given cells and room: t.left is how many cells of the  *)
(* stream are still to come, t.pend what has been decoded and not put out.  *)
RECURSIVE Decompress(_, _, _, _, _, _)
Decompress(t, in, room, more, used, got) ==
    IF t.pend # <<>> THEN
        LET n == Low(room, Len(t.pend))
            rest == SubSeq(t.pend, n + 1, Len(t.pend))
            g == got \o SubSeq(t.pend, 1, n)
        IN  IF rest # <<>> THEN [t |-> [t EXCEPT !.pend = rest], used |-> used, got |-> g, st |-> "output"]
            ELSE Decompress([t EXCEPT !.pend = <<>>], in, room - n, more, used, g)
    ELSE IF t.left = 0 THEN [t |-> t, used |-> used, got |-> got, st |-> "done"]
    ELSE IF used = Len(in) THEN
        [t |-> t, used |-> used, got |-> got, st |-> IF more THEN "input" ELSE "failed"]
    ELSE Decompress([left |-> t.left - 1, pend |-> in[used + 1]], in, room, more, used + 1, got)

Fresh(e) == [left |-> Len(e.cells), pend |-> <<>>]

(* Where the compressed data comes from.  s.buf is what is in the read      *)
(* buffer, s.left how much of the entry is still in the file (comp_remaining).*)
Source(e, mem) ==
    IF mem THEN [buf |-> e.cells, left |-> 0, at |-> Len(e.cells), reads |-> 0, ok |-> TRUE]
    ELSE [buf |-> <<>>, left |-> Len(e.cells), at |-> 0, reads |-> 0, ok |-> TRUE]

(* One m_pRead of at most n cells *)
Refill(e, s, n, fail) ==
    LET k == Low(n, s.left)
    IN  IF s.reads + 1 = fail
        THEN [s EXCEPT !.reads = @ + 1, !.ok = FALSE, !.buf = [i \in 1..k |-> Junk]]
        ELSE [s EXCEPT !.reads = @ + 1, !.buf = SubSeq(e.cells, s.at + 1, s.at + k),
                       !.left = @ - k, !.at = @ + k]

Drop(s, n) == [s EXCEPT !.buf = SubSeq(@, n + 1, Len(@))]

Checked(e, st, bytes) ==
    IF st = "done" /\ (Len(bytes) # e.size \/ ~CrcOk(e, bytes)) THEN "failed" ELSE st

-----------------------------------------------------------------------------
(* mz_zip_reader_extract_to_mem_no_alloc1 (and to_mem, to_heap): the buffer *)
(* has room for the size the directory gives.                               *)
RECURSIVE InflateToBuffer(_, _, _, _, _, _)
InflateToBuffer(e, mem, fail, t, s0, got) ==
    LET s == IF s0.buf = <<>> /\ ~mem THEN Refill(e, s0, Low(Len(e.cells), IoBuf), fail) ELSE s0
        d == Decompress(t, s.buf, e.size - Len(got), s.left > 0, 0, <<>>)
    IN  IF ~s.ok THEN [st |-> "failed", got |-> got]
        ELSE IF d.st = "input" THEN InflateToBuffer(e, mem, fail, d.t, Drop(s, d.used), got \o d.got)
        ELSE [st |-> d.st, got |-> got \o d.got]

ExtractToMem(e, mem, fail) ==
    IF e.cells = <<>> THEN [st |-> "done", got |-> <<>>]
    ELSE IF e.method = 0
    THEN IF ~mem /\ fail = 1 THEN [st |-> "failed", got |-> <<>>]
         ELSE [st |-> IF CrcOk(e, e.cells) THEN "done" ELSE "failed", got |-> e.cells]
    ELSE LET r == InflateToBuffer(e, mem, fail, Fresh(e), Source(e, mem), <<>>)
         IN  [r EXCEPT !.st = Checked(e, r.st, r.got)]

(* mz_zip_reader_extract_to_callback (and to_file, validate_file): bytes go *)
(* out as they are produced, through a window that wraps.                   *)
RECURSIVE CopyToCallback(_, _, _, _, _)
CopyToCallback(e, fail, cbFail, s, got) ==
    LET k == Low(Low(Len(e.cells), IoBuf), s.left)
        r == Refill(e, s, k, fail)
    IN  IF s.left = 0 THEN [st |-> "done", got |-> got]
        ELSE IF ~r.ok \/ r.reads = cbFail THEN [st |-> "failed", got |-> got]
        ELSE CopyToCallback(e, fail, cbFail, [r EXCEPT !.buf = <<>>], got \o r.buf)

RECURSIVE InflateToCallback(_, _, _, _, _, _, _, _)
InflateToCallback(e, mem, fail, cbFail, t, s0, got, puts) ==
    LET s == IF s0.buf = <<>> /\ ~mem THEN Refill(e, s0, Low(Len(e.cells), IoBuf), fail) ELSE s0
        d == Decompress(t, s.buf, Dict - (Len(got) % Dict), s.left > 0, 0, <<>>)
        n == IF d.got = <<>> THEN puts ELSE puts + 1
        all == got \o d.got
    IN  IF ~s.ok THEN [st |-> "failed", got |-> got]
        ELSE IF d.got # <<>> /\ n = cbFail THEN [st |-> "failed", got |-> got]
        ELSE IF Len(all) > e.size THEN [st |-> "failed", got |-> all]
        ELSE IF d.st \in {"input", "output"}
        THEN InflateToCallback(e, mem, fail, cbFail, d.t, Drop(s, d.used), all, n)
        ELSE [st |-> d.st, got |-> all]

ExtractToCallback(e, mem, fail, cbFail) ==
    IF e.cells = <<>> THEN [st |-> "done", got |-> <<>>]
    ELSE LET r == IF e.method # 0
                  THEN InflateToCallback(e, mem, fail, cbFail, Fresh(e), Source(e, mem), <<>>, 0)
                  ELSE IF mem
                  THEN IF cbFail = 1 THEN [st |-> "failed", got |-> <<>>]
                       ELSE [st |-> "done", got |-> e.cells]
                  ELSE CopyToCallback(e, fail, cbFail, Source(e, mem), <<>>)
         IN  [r EXCEPT !.st = Checked(e, r.st, r.got)]

-----------------------------------------------------------------------------
(* The iterator.  blk is what the window holds beyond out_buf_ofs (its      *)
(* out_blk_remain bytes); from memory the whole entry counts as remaining.  *)
Closed == [open |-> FALSE]

IterNew(e, mem) ==
    [open |-> TRUE, st |-> "done", s |-> Source(e, mem), more |-> Len(e.cells),
     t |-> Fresh(e), blk |-> <<>>, got |-> <<>>, reads |-> 0, short |-> FALSE]

(* Stored data is copied or read straight into the caller's buffer. *)
ReadStored(e, i, mem, ask, fail) ==
    LET k == Low(ask, i.more)
        bytes == SubSeq(e.cells, Len(e.cells) - i.more + 1, Len(e.cells) - i.more + k)
    IN  IF ~mem /\ fail # 0
        THEN [i EXCEPT !.st = "failed", !.short = k < ask \/ ask > 0]
        ELSE [i EXCEPT !.more = @ - k, !.got = @ \o bytes, !.short = k < ask]

RECURSIVE ReadInflated(_, _, _, _, _, _)
ReadInflated(e, i0, mem, ask, fail, given) ==
    LET dry == i0.blk = <<>>
        s == IF dry /\ i0.s.buf = <<>> /\ ~mem
             THEN Refill(e, [i0.s EXCEPT !.reads = 0, !.ok = TRUE], Low(Len(e.cells), IoBuf), fail)
             ELSE [i0.s EXCEPT !.ok = TRUE]
        d == Decompress(i0.t, s.buf, Dict - (Len(i0.got) % Dict), mem \/ s.left > 0, 0, <<>>)
        i1 == IF ~dry THEN i0
              ELSE [i0 EXCEPT !.s = Drop(s, d.used), !.t = d.t, !.st = d.st, !.blk = d.got]
        n == Low(ask - given, Len(i1.blk))
        i2 == [i1 EXCEPT !.blk = SubSeq(@, n + 1, Len(@)), !.got = @ \o SubSeq(i1.blk, 1, n)]
    IN  IF ~s.ok THEN [i0 EXCEPT !.st = "failed", !.s = s, !.short = TRUE]
        ELSE IF Len(i2.got) > e.size THEN [i2 EXCEPT !.st = "failed", !.short = TRUE]
        ELSE IF given + n < ask /\ i2.st \in {"input", "output"}
        THEN ReadInflated(e, i2, mem, ask, fail, given + n)
        ELSE [i2 EXCEPT !.short = given + n < ask]

(* mz_zip_reader_extract_iter_read *)
IterRead(e, i, mem, ask, fail) ==
    IF e.method = 0 THEN ReadStored(e, i, mem, ask, fail)
    ELSE ReadInflated(e, i, mem, ask, fail, 0)

-----------------------------------------------------------------------------
Nothing == [kind |-> "none", ok |-> FALSE, drained |-> FALSE]

Init ==
    /\ entry \in Entries /\ inMem \in BOOLEAN
    /\ it = Closed /\ out = <<>> /\ faulty = FALSE /\ ret = Nothing

Finish(kind, r, fault, drained) ==
    /\ out' = r.got /\ faulty' = fault
    /\ ret' = [kind |-> kind, ok |-> r.st = "done", drained |-> drained]

ToMem(fail) ==
    /\ ret = Nothing /\ ~it.open
    /\ Finish("mem", ExtractToMem(entry, inMem, fail), fail # 0 /\ ~inMem, TRUE)
    /\ UNCHANGED <<entry, inMem, it>>

ToCallback(fail, cbFail) ==
    /\ ret = Nothing /\ ~it.open
    /\ Finish("callback", ExtractToCallback(entry, inMem, fail, cbFail),
              (fail # 0 /\ ~inMem) \/ cbFail # 0, TRUE)
    /\ UNCHANGED <<entry, inMem, it>>

New ==
    /\ ret = Nothing /\ ~it.open
    /\ it' = IterNew(entry, inMem)
    /\ UNCHANGED <<entry, inMem, out, faulty, ret>>

Read(ask, fail) ==
    /\ it.open /\ it.reads < MaxReads
    /\ it' = [IterRead(entry, it, inMem, ask, fail) EXCEPT !.reads = @ + 1]
    /\ out' = it'.got
    /\ faulty' = (faulty \/ it'.st = "failed")
    /\ UNCHANGED <<entry, inMem, ret>>

(* mz_zip_reader_extract_iter_free *)
Free ==
    /\ it.open
    /\ Finish("iter", [st |-> Checked(entry, it.st, it.got), got |-> it.got], faulty, it.short)
    /\ it' = Closed
    /\ UNCHANGED <<entry, inMem>>

Next ==
    \/ New \/ Free
    \/ \E fail \in Fails : ToMem(fail)
    \/ \E fail, cbFail \in Fails : ToCallback(fail, cbFail)
    \/ \E ask \in Asks, fail \in Fails : Read(ask, fail)

Spec == Init /\ [][Next]_vars

-----------------------------------------------------------------------------
(* An extraction that reports success has handed over the whole entry, in   *)
(* order and with the CRC the directory gives, however the reads cut the    *)
(* data, also when the caller went on reading after an error.               *)
SuccessIsExact ==
    ret.ok => out = Content(entry) /\ CrcOk(entry, out) /\ Len(out) = entry.size

(* And one that met no error succeeds when the entry is intact and, with an *)
(* iterator, the caller read until it was given less than it asked for.     *)
IntactSucceeds ==
    /\ ret.kind # "none" /\ ~faulty /\ ret.drained
    /\ entry.crc = Content(entry) /\ entry.size = Len(entry.crc)
    => ret.ok
=============================================================================
