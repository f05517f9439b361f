------------------------------ MODULE MinizZip ------------------------------
(***************************************************************************)
(* The ZIP archive writer and reader of miniz.c, with which vvpatch reads a *)
(* package, copies its entries and adds the patched one: what a finalized   *)
(* archive reads back as, when additions fail half way, when the archive    *)
(* passes the limits of the 32-bit format and zip64 records take over, when *)
(* it is reopened and appended to in place, and when its entries are copied *)
(* into another archive.                                                    *)
(*                                                                          *)
(* A file is a sequence of cells: a header, a name, an extra block, a       *)
(* descriptor word group or one unit of data is one cell (a 64-bit          *)
(* descriptor is two), so offsets and sizes are counted in cells.  U16 and  *)
(* U32 stand for the largest values of the 16 and 32-bit fields.            *)
(***************************************************************************)
EXTENDS Integers, Sequences, SequencesExt, FiniteSets, FiniteSetsExt

CONSTANTS
    Additions,  \* the entries callers add: [via, name, data, level, max, sized]
    Rooms,      \* how many cells the medium takes during one call
    Scan,       \* how far from the end the end record is looked for
    Align,      \* m_file_offset_alignment
    StoreMax,   \* contents up to this size are stored (3 bytes)
    Slack,      \* the 1024 or 64 bytes the size estimates add
    U16, U32,   \* MZ_UINT16_MAX, MZ_UINT32_MAX
    MaxEntries, \* bound: entries of an archive
    MaxCalls,   \* bound: calls that write, over a behaviour
    MaxCut      \* bound: finalizations that fail, over a behaviour

VARIABLES
    file,       \* the cells of the archive being written; <<"none">>: no file
    zip,        \* the mz_zip_archive: mode, size, cd (its central directory), zip64
    src,        \* the cells of the archive entries are copied from
    held,       \* ghost: what src holds
    added,      \* ghost: the name and contents of every entry added
    sound,      \* ghost: the last finalization of file succeeded
    calls,      \* calls that wrote
    cut         \* finalizations that failed

vars == <<file, zip, src, held, added, sound, calls, cut>>

None == <<<<"none">>>>
Closed == [mode |-> "closed", size |-> 0, cd |-> <<>>, zip64 |-> FALSE]
Low(a, b) == IF a < b THEN a ELSE b

-----------------------------------------------------------------------------
(* Names.  A character is a number: 0 is the slash, and 2k and 2k+1 are the *)
(* two cases of one letter.                                                 *)
Lower(c) == c \div 2

Lowered(n) == [i \in 1..Len(n) |-> Lower(n[i])]

(* mz_zip_reader_filename_less and mz_zip_filename_compare *)
FilenameLess(a, b) ==
    LET n == Low(Len(a), Len(b))
        differ == {i \in 1..n : Lower(a[i]) # Lower(b[i])}
    IN  IF differ = {} THEN Len(a) < Len(b)
        ELSE LET i == Min(differ) IN Lower(a[i]) < Lower(b[i])

ValidName(n) == n = <<>> \/ n[1] # 0
DirectoryName(n) == n # <<>> /\ Last(n) = 0

-----------------------------------------------------------------------------
(* Writing.  w.at is where the next cell goes, w.room how many cells the    *)
(* medium still takes; a write that does not fit is cut short and fails     *)
(* (m_pWrite: mz_zip_file_write_func, mz_zip_heap_write_func).              *)
Overwrite(f, at, cells) ==
    SubSeq(f, 1, at) \o cells \o SubSeq(f, at + Len(cells) + 1, Len(f))

Emit(w, cells) ==
    IF ~w.ok THEN w
    ELSE LET n == Low(Len(cells), w.room)
         IN  [f |-> Overwrite(w.f, w.at, SubSeq(cells, 1, n)), room |-> w.room - n,
              ok |-> n = Len(cells), at |-> IF n = Len(cells) THEN w.at + n ELSE w.at]

Padding(z) == (Align - (z.size % Align)) % Align
Zeros(n) == [i \in 1..n |-> <<"zero">>]

Stored(data) == [i \in 1..Len(data) |-> <<"raw", data[i]>>]

(* tdefl through mz_zip_writer_add_put_buf_callback: half as many cells,    *)
(* each useless without the others.                                         *)
Deflated(data) == [i \in 1..((Len(data) + 1) \div 2) |-> <<"def", data, i>>]

(* What the entry of an addition holds: a callback is not read at all when  *)
(* the caller announced nothing.                                            *)
Contents(a) == IF a.via = "callback" /\ a.max = 0 THEN <<>> ELSE a.data

LocalHeader(x, method, desc, c, u) == <<"lh", Len(x), method, desc, c, u>>

Descriptor32(data, c) == <<<<"dd", data, c, Len(data), 0>>>>
Descriptor64(data, c) ==
    <<<<"dd", data, c, Len(data), 1>>, <<"dd", data, c, Len(data), 2>>>>

(* mz_zip_writer_create_zip64_extra_data: the block holds the two sizes     *)
(* when big, and the offset when it is past 32 bits.                        *)
Extra(big, u, c, ofs) ==
    <<<<"x64", (IF big THEN <<u, c>> ELSE <<>>) \o (IF ofs >= U32 THEN <<ofs>> ELSE <<>>)>>>>

(* mz_zip_writer_create_central_dir_header *)
CentralRecord(name, method, data, c, u, ofs, x) ==
    [name |-> name, method |-> method, crc |-> data,
     c |-> Low(c, U32), u |-> Low(u, U32), ofs |-> Low(ofs, U32), x |-> x]

CentralDirFull(z) == Len(z.cd) + 1 >= U32

(* The archive becomes zip64 when the entries no longer fit 16 bits or the  *)
(* estimate of its size no longer fits 32 (header, name, record, end,       *)
(* descriptor; not the data).                                               *)
CountNeeds64(z) == z.zip64 \/ Len(z.cd) = U16
SizeNeeds64(z, slack) ==
    z.size + Padding(z) + 2 + 1 + Len(z.cd) + 1 + 1 + slack > U32

Result(z, w) == [zip |-> z, f |-> w.f, ok |-> w.ok]
Refused(z, f) == [zip |-> z, f |-> f, ok |-> FALSE]
Begin(f, z, room) ==
    Emit([f |-> f, at |-> z.size, room |-> room, ok |-> TRUE], Zeros(Padding(z)))

CommitMutFailed(z, w, record) ==
    Result([z EXCEPT !.cd = Append(@, record), !.size = w.at], w)

(* The addition counts only when everything was written. *)
Commit(z, w, record) ==
    IF w.ok /\ ~CentralDirFull(z)
    THEN Result([z EXCEPT !.cd = Append(@, record), !.size = w.at], w)
    ELSE Refused(z, w.f)

-----------------------------------------------------------------------------
(* mz_zip_writer_add_mem_ex_v2 *)
AddMem(f, z0, a, room) ==
    LET z1 == [z0 EXCEPT !.zip64 = CountNeeds64(z0) \/ Len(a.data) > U32]
        z == [z1 EXCEPT !.zip64 = @ \/ SizeNeeds64(z1, 0)]
        u == Len(a.data)
        stored == a.level = 0 \/ u <= StoreMax
        body == IF stored THEN Stored(a.data) ELSE Deflated(a.data)
        c == Len(body)
        method == IF stored THEN 0 ELSE 8
        begun == Begin(f, z, room)
        ofs == z.size + Padding(z)
        wide == z.zip64 /\ (u >= U32 \/ ofs >= U32)
        x(cs) == IF wide THEN Extra(u >= U32, u, cs, ofs) ELSE <<>>
        headed == Emit(begun, <<LocalHeader(x(0), method, u > 0, 0, 0), <<"nm", a.name>>>> \o x(0))
        filled == Emit(headed, body)
        tail == IF u = 0 THEN <<>>
                ELSE IF wide THEN Descriptor64(a.data, c) ELSE Descriptor32(a.data, c)
        done == Emit(filled, tail)
    IN  CASE ~ValidName(a.name) -> Refused(z1, f)
          [] CentralDirFull(z1) -> Refused(z1, f)
          [] DirectoryName(a.name) /\ u > 0 -> Refused(z, f)
          [] OTHER -> Commit(z, done, CentralRecord(a.name, method, a.data, c, u, ofs, x(c)))

(* mz_zip_writer_add_read_buf_callback (and add_file, add_cfile): max is    *)
(* the size the caller announces, sized is MZ_ZIP_FLAG_WRITE_HEADER_SET_SIZE,*)
(* with which the header is written again once the sizes are known.         *)
AddCallback(f, z0, a, room) ==
    LET z1 == [z0 EXCEPT !.zip64 = @ \/ a.max > U32]
        z2 == [z1 EXCEPT !.zip64 = CountNeeds64(z1)]
        z == [z2 EXCEPT !.zip64 = @ \/ SizeNeeds64(z2, Slack)]
        deflate == a.max > StoreMax /\ a.level > 0
        method == IF deflate THEN 8 ELSE 0
        data == Contents(a)
        u == Len(data)
        body == IF a.max = 0 THEN <<>> ELSE IF deflate THEN Deflated(data) ELSE Stored(data)
        c == Len(body)
        ofs == z.size + Padding(z)
        wide == z.zip64 /\ (a.max >= U32 \/ ofs >= U32)
        first == IF ~wide THEN <<>> ELSE Extra(a.sized /\ a.max >= U32, 0, 0, ofs)
        again == IF ~wide THEN <<>> ELSE Extra(a.max >= U32, u, c, ofs)
        last == IF ~wide THEN <<>> ELSE Extra(u >= U32, u, c, ofs)
        headed == Emit(Begin(f, z, room),
                       <<LocalHeader(first, method, ~a.sized, 0, 0), <<"nm", a.name>>>> \o first)
        filled == Emit(headed, body)
        closed == IF a.sized THEN filled
                  ELSE Emit(filled, IF wide THEN Descriptor64(data, c) ELSE Descriptor32(data, c))
        rewritten == IF ~a.sized THEN closed
                     ELSE LET big == a.max >= U32
                              head == LocalHeader(again, method, FALSE,
                                          IF big THEN U32 ELSE c, IF big THEN U32 ELSE u)
                          IN  Emit([closed EXCEPT !.at = ofs],
                                   IF wide THEN <<head, <<"nm", a.name>>>> \o again ELSE <<head>>)
    IN  CASE ~ValidName(a.name) -> Refused(z1, f)
          [] CentralDirFull(z2) -> Refused(z2, f)
          [] a.max > 0 /\ Len(a.data) > a.max -> Refused(z, headed.f)
          [] OTHER -> Commit(z, [rewritten EXCEPT !.at = closed.at],
                             CentralRecord(a.name, method, data, c, u, ofs, last))

Add(f, z, a, room) ==
    IF a.via = "mem" THEN AddMem(f, z, a, room) ELSE AddCallback(f, z, a, room)

-----------------------------------------------------------------------------
(* Reading.  mz_zip_reader_locate_header_sig: the last end record within    *)
(* reach of the end of the file; 0 when there is none.                      *)
EndRecord(f) ==
    LET at == {i \in 1..Len(f) : f[i][1] = "end" /\ Len(f) - i < Scan}
    IN  IF at = {} THEN 0 ELSE Max(at)

(* mz_zip_file_stat_internal: a field that holds the sentinel is taken from *)
(* the extra block, in the order sizes, offset.                             *)
Stat(r) ==
    LET given == IF r.x = <<>> THEN <<>> ELSE r.x[1][2]
        u64 == r.u = U32
        c64 == r.c = U32
        o64 == r.ofs = U32
        uAt == 1
        cAt == IF u64 THEN 2 ELSE 1
        oAt == cAt + IF c64 THEN 1 ELSE 0
        need == (IF u64 THEN 1 ELSE 0) + (IF c64 THEN 1 ELSE 0) + (IF o64 THEN 1 ELSE 0)
        present == r.x # <<>>
    IN  [ok |-> present => Len(given) >= need,
         u |-> IF present /\ u64 /\ Len(given) >= uAt THEN given[uAt] ELSE r.u,
         c |-> IF present /\ c64 /\ Len(given) >= cAt THEN given[cAt] ELSE r.c,
         ofs |-> IF present /\ o64 /\ Len(given) >= oAt THEN given[oAt] ELSE r.ofs]

(* The checks mz_zip_reader_read_central_dir makes of one record *)
RecordPlausible(r, size) ==
    /\ r.c # U32 /\ r.u # U32 => ~(r.method = 0 /\ r.u # r.c) /\ ~(r.u > 0 /\ r.c = 0)
    /\ r.c # U32 => r.ofs + 1 + r.c <= size

Unreadable == [ok |-> FALSE, cd |-> <<>>, zip64 |-> FALSE, cdofs |-> 0, size |-> 0]

(* mz_zip_reader_read_central_dir *)
ReadCentralDir(f) ==
    LET e == EndRecord(f)
        located == e > 2 /\ f[e - 1][1] = "loc64"
        e64 == IF located THEN f[e - 1][2] ELSE 0
        wide == located /\ e64 < Len(f) /\ f[e64 + 1][1] = "end64"
        rec == IF wide THEN f[e64 + 1] ELSE f[e]
        total == rec[2]
        size == rec[3]
        ofs == rec[4]
        cells == SubSeq(f, ofs + 1, ofs + size)
        cd == [i \in 1..total |-> cells[i][2]]
        extended == \E i \in 1..total :
                        cd[i].x # <<>> /\ Max({cd[i].c, cd[i].u, cd[i].ofs}) = U32
    IN  IF e = 0 THEN Unreadable
        ELSE IF located /\ e64 > Len(f) - 1 THEN Unreadable
        ELSE IF size < total \/ ofs + size > Len(f) THEN Unreadable
        ELSE IF \E i \in 1..total : cells[i][1] # "cd" THEN Unreadable
        ELSE IF \E i \in 1..total : ~RecordPlausible(cd[i], Len(f)) THEN Unreadable
        ELSE [ok |-> TRUE, cd |-> cd, zip64 |-> wide \/ extended, cdofs |-> ofs, size |-> Len(f)]

(* mz_zip_reader_extract_to_heap of one record: the local header is found   *)
(* and skipped, the data read, inflated and checked against its CRC.        *)
Extract(f, r) ==
    LET st == Stat(r)
        head == f[st.ofs + 1]
        at == st.ofs + 2 + head[2]
        cells == SubSeq(f, at + 1, at + st.c)
        plain == IF r.method = 0 THEN [i \in 1..st.c |-> cells[i][2]] ELSE cells[1][2]
        whole == IF r.method = 0 THEN \A i \in 1..st.c : cells[i][1] = "raw"
                 ELSE /\ \A i \in 1..st.c : cells[i][1] = "def" /\ cells[i][3] = i
                      /\ cells = Deflated(cells[1][2])
    IN  IF ~st.ok THEN <<FALSE, <<>>>>
        ELSE IF DirectoryName(r.name) \/ st.c = 0 THEN <<TRUE, <<>>>>
        ELSE IF st.ofs >= Len(f) \/ head[1] # "lh" \/ at + st.c > Len(f) THEN <<FALSE, <<>>>>
        ELSE IF ~whole \/ Len(plain) # st.u \/ plain # r.crc THEN <<FALSE, <<>>>>
        ELSE <<TRUE, plain>>

(* mz_zip_validate_file: the local header, or the descriptor behind the     *)
(* data, must agree with the directory.  In a zip64 archive the descriptor  *)
(* is read as a 64-bit one.                                                 *)
Validate(f, rd, r) ==
    LET st == Stat(r)
        head == f[st.ofs + 1]
        dd == f[st.ofs + 3 + head[2] + st.c]
    IN  IF DirectoryName(r.name) \/ st.u = 0 THEN TRUE
        ELSE /\ head[1] = "lh" /\ f[st.ofs + 2] = <<"nm", r.name>>
             /\ IF head[4] /\ head[5] = 0
                THEN /\ dd[1] = "dd" /\ (dd[5] # 0) = rd.zip64
                     /\ dd[2] = r.crc /\ dd[3] = st.c /\ dd[4] = st.u
                ELSE head[5] = st.c /\ head[6] = st.u
             /\ Extract(f, r)[1]

-----------------------------------------------------------------------------
(* mz_zip_writer_add_from_zip_reader: entry i of the archive s, read as rd *)
CopyFrom(f, z, s, rd, i, room) ==
    LET r == rd.cd[i]
        st == Stat(r)
        head == s[st.ofs + 1]
        n == 1 + head[2] + st.c
        begun == Begin(f, z, room)
        ofs == z.size + Padding(z)
        copied == Emit(begun, SubSeq(s, st.ofs + 1, st.ofs + 1 + n))
        dd == st.ofs + 2 + n
        tail == IF ~head[4] THEN <<>>
                ELSE IF rd.zip64 THEN SubSeq(s, dd, dd + 1)
                ELSE IF z.zip64 THEN Descriptor64(s[dd][2], s[dd][3])
                ELSE SubSeq(s, dd, dd)
        done == Emit(copied, tail)
        record == IF z.zip64
                  THEN [r EXCEPT !.c = U32, !.u = U32, !.ofs = U32,
                                 !.x = <<<<"x64", <<st.u, st.c, ofs>>>>>>]
                  ELSE [r EXCEPT !.ofs = ofs]
        estimate == z.size + Padding(z) + 1 + n + 1 + Len(z.cd) + 1 + 1 + Slack
    IN  CASE rd.zip64 /\ ~z.zip64 -> Refused(z, f)
          [] CentralDirFull(z) -> Refused(z, f)
          [] ~z.zip64 /\ Len(z.cd) = U16 -> Refused(z, f)
          [] ~st.ok -> Refused(z, f)
          [] head[1] # "lh" -> Refused(z, f)
          [] ~z.zip64 /\ estimate >= U32 -> Refused(z, f)
          [] OTHER -> Commit(z, done, record)

(* mz_zip_writer_finalize_archive.  Every part written moves m_archive_size,*)
(* whether or not the next part can be written.                             *)
Finalized(f, z, room) ==
    LET n == Len(z.cd)
        ofs == IF n = 0 THEN 0 ELSE z.size
        w0 == [f |-> f, at |-> z.size, room |-> room, ok |-> TRUE]
        w1 == Emit(w0, [i \in 1..n |-> <<"cd", z.cd[i]>>])
        w2 == IF z.zip64 THEN Emit(w1, <<<<"end64", n, n, ofs>>>>) ELSE w1
        w3 == IF z.zip64 THEN Emit(w2, <<<<"loc64", w1.at>>>>) ELSE w2
        w4 == Emit(w3, <<<<"end", Low(n, U16), Low(n, U32), Low(ofs, U32)>>>>)
    IN  IF IF z.zip64 THEN n >= U32 ELSE n > U16 \/ z.size + n + 1 > U32
        THEN Refused(z, f)
        ELSE Result([z EXCEPT !.size = w4.at, !.mode = IF w4.ok THEN "final" ELSE "writing"], w4)

(* mz_zip_writer_init_from_reader_v2: new files go where the old central    *)
(* directory was.                                                           *)
CanAppend(rd) ==
    /\ rd.ok
    /\ rd.zip64 \/ (Len(rd.cd) # U16 /\ rd.size + 2 <= U32)
FromReader(rd) == [mode |-> "writing", size |-> rd.cdofs, cd |-> rd.cd, zip64 |-> rd.zip64]

-----------------------------------------------------------------------------
(* Finding an entry.  mz_zip_reader_sort_central_dir_offsets_by_filename: a *)
(* heap sort of the indices; SiftDown is its inner loop (indices from 0).   *)
RECURSIVE SiftDown(_, _, _, _)
SiftDown(cd, p, root, size) ==
    LET left == 2 * root + 1
        less(i, j) == FilenameLess(cd[p[i + 1]].name, cd[p[j + 1]].name)
        child == IF left + 1 < size /\ less(left, left + 1) THEN left + 1 ELSE left
    IN  IF left >= size \/ ~less(root, child) THEN p
        ELSE SiftDown(cd, [p EXCEPT ![root + 1] = p[child + 1], ![child + 1] = p[root + 1]],
                      child, size)

Sorted(cd) ==
    LET n == Len(cd)
        heap == FoldLeft(LAMBDA p, k : SiftDown(cd, p, (n - 2) \div 2 - k, n),
                         [i \in 1..n |-> i], [k \in 1..(n \div 2) |-> k - 1])
        take(p, k) == LET end == n - k
                      IN  SiftDown(cd, [p EXCEPT ![end + 1] = p[1], ![1] = p[end + 1]], 0, end)
    IN  IF n <= 1 THEN [i \in 1..n |-> i]
        ELSE FoldLeft(take, heap, [k \in 1..(n - 1) |-> k])

(* mz_zip_locate_file_binary_search; 0: not found *)
RECURSIVE Search(_, _, _, _, _)
Search(cd, p, name, l, h) ==
    LET m == l + (h - l) \div 2
        at == p[m + 1]
    IN  IF l > h THEN 0
        ELSE IF Lowered(cd[at].name) = Lowered(name) THEN at
        ELSE IF FilenameLess(cd[at].name, name) THEN Search(cd, p, name, m + 1, h)
        ELSE Search(cd, p, name, l, m - 1)

(* mz_zip_reader_locate_file_v2 without the sorted indices, or when asked   *)
(* to tell the cases apart: the first entry with the name.                  *)
Scanned(cd, name, exact) ==
    LET same == {i \in 1..Len(cd) : IF exact THEN cd[i].name = name
                                    ELSE Lowered(cd[i].name) = Lowered(name)}
    IN  IF same = {} THEN 0 ELSE Min(same)

-----------------------------------------------------------------------------
Init ==
    /\ file = None /\ zip = Closed /\ src = None /\ held = <<>>
    /\ added = <<>> /\ sound = FALSE /\ calls = 0 /\ cut = 0

Spend == calls < MaxCalls /\ calls' = calls + 1

(* mz_zip_writer_init_v2, _heap_v2 and _file_v2 *)
WriterInit ==
    /\ zip.mode = "closed" /\ file = None
    /\ \E wide \in BOOLEAN : zip' = [Closed EXCEPT !.mode = "writing", !.zip64 = wide]
    /\ file' = <<>> /\ added' = <<>> /\ sound' = FALSE
    /\ UNCHANGED <<src, held, calls, cut>>

Step(r, entry) ==
    /\ zip' = r.zip /\ file' = r.f
    /\ added' = IF r.ok THEN Append(added, entry) ELSE added

AddEntry(a, room) ==
    /\ zip.mode = "writing" /\ Len(zip.cd) < MaxEntries /\ Spend
    /\ Step(Add(file, zip, a, room), <<a.name, Contents(a)>>)
    /\ UNCHANGED <<src, held, sound, cut>>

CopyEntry(i, room) ==
    /\ zip.mode = "writing" /\ src # None /\ Len(zip.cd) < MaxEntries /\ Spend
    /\ i <= Len(held)
    /\ Step(CopyFrom(file, zip, src, ReadCentralDir(src), i, room), held[i])
    /\ UNCHANGED <<src, held, sound, cut>>

(* Left out: an empty archive whose first finalization failed.  Its end     *)
(* record says the directory is at offset 0 although it comes later, so     *)
(* files added afterwards start at 0 and the old end record can outlive     *)
(* them at the end of the file.                                             *)
Finalize(room) ==
    /\ zip.mode = "writing" /\ Spend
    /\ LET r == Finalized(file, zip, room)
       IN  /\ zip' = r.zip /\ file' = r.f /\ sound' = r.ok
           /\ cut' = IF r.ok THEN cut ELSE cut + 1
           /\ cut' <= MaxCut
           /\ cut' = cut \/ zip.cd # <<>>
    /\ UNCHANGED <<src, held, added>>

(* mz_zip_writer_end *)
WriterEnd ==
    /\ zip.mode = "final"
    /\ zip' = Closed
    /\ UNCHANGED <<file, src, held, added, sound, calls, cut>>

(* The finished archive is opened as the source of copies (vvpatch.c). *)
Adopt ==
    /\ zip.mode = "closed" /\ sound /\ src = None
    /\ src' = file /\ held' = added
    /\ file' = None /\ added' = <<>> /\ sound' = FALSE
    /\ UNCHANGED <<zip, calls, cut>>

(* mz_zip_reader_init_file, then mz_zip_writer_init_from_reader *)
Reopen ==
    /\ zip.mode = "closed" /\ sound
    /\ CanAppend(ReadCentralDir(file))
    /\ zip' = FromReader(ReadCentralDir(file))
    /\ sound' = FALSE
    /\ UNCHANGED <<file, src, held, added, calls, cut>>

(* mz_zip_add_mem_to_archive_file_in_place_v2: the archive is finalized     *)
(* whether or not the addition succeeded; a new one that failed is deleted. *)
InPlace(a, room, room2) ==
    LET new == file = None
        rd == ReadCentralDir(file)
        z == IF new THEN [Closed EXCEPT !.mode = "writing"] ELSE FromReader(rd)
        r == AddMem(IF new THEN <<>> ELSE file, z, a, room)
        e == Finalized(r.f, r.zip, room2)
    IN  /\ zip.mode = "closed" /\ a.via = "mem" /\ ValidName(a.name) /\ Spend
        /\ new \/ (sound /\ CanAppend(rd) /\ Len(rd.cd) < MaxEntries)
        /\ file' = IF new /\ ~(r.ok /\ e.ok) THEN None ELSE e.f
        /\ added' = IF r.ok /\ (~new \/ e.ok) THEN Append(added, <<a.name, a.data>>) ELSE added
        /\ sound' = (e.ok /\ ~(new /\ ~r.ok))
        /\ UNCHANGED <<zip, src, held, cut>>

Next ==
    \/ WriterInit \/ WriterEnd \/ Adopt \/ Reopen
    \/ \E a \in Additions, room \in Rooms : AddEntry(a, room)
    \/ \E i \in 1..MaxEntries, room \in Rooms : CopyEntry(i, room)
    \/ \E room \in Rooms : Finalize(room)
    \/ \E a \in Additions, room, room2 \in Rooms : InPlace(a, room, room2)

Spec == Init /\ [][Next]_vars

-----------------------------------------------------------------------------
(* What was added is what is there: an archive whose finalization succeeded *)
(* opens, lists exactly the entries whose addition succeeded, in order, and *)
(* every one extracts to its contents, whatever additions, copies and       *)
(* finalizations failed half way before, and wherever the archive turned    *)
(* zip64.                                                                   *)
ReadsBack ==
    sound =>
        LET rd == ReadCentralDir(file)
        IN  /\ rd.ok
            /\ Len(rd.cd) = Len(added)
            /\ \A i \in 1..Len(added) :
                  /\ rd.cd[i].name = added[i][1]
                  /\ Extract(file, rd.cd[i]) = <<TRUE, added[i][2]>>

(* Every entry of an archive written without zip64 also validates: header,  *)
(* descriptor, directory and data agree.  In a zip64 archive exactly the    *)
(* entries with a 32-bit descriptor do not, which the writer gives every    *)
(* entry below the 32-bit limits.                                           *)
Validates ==
    sound =>
        LET rd == ReadCentralDir(file)
        IN  \A r \in ToSet(rd.cd) :
                LET st == Stat(r)
                    head == file[st.ofs + 1]
                    short == /\ head[4] /\ st.u > 0
                             /\ file[st.ofs + 3 + head[2] + st.c][5] = 0
                IN  Validate(file, rd, r) <=> ~(rd.zip64 /\ short)

(* Sorted search finds what a scan of the directory finds: an entry with    *)
(* the same letters whenever there is one, also with duplicate names and    *)
(* names that differ in case only.                                          *)
SearchExact ==
    sound =>
        LET cd == ReadCentralDir(file).cd
            p == Sorted(cd)
        IN  \A a \in Additions :
                LET at == Search(cd, p, a.name, 0, Len(cd) - 1)
                IN  /\ at = 0 <=> Scanned(cd, a.name, FALSE) = 0
                    /\ at # 0 => Lowered(cd[at].name) = Lowered(a.name)
                    /\ Scanned(cd, a.name, TRUE) # 0 => at # 0

(* Every local header starts on the requested alignment, also after a       *)
(* failed addition and after reopening (the assertions of the add calls).   *)
HeadersAligned ==
    sound => \A r \in ToSet(ReadCentralDir(file).cd) : Stat(r).ofs % Align = 0
=============================================================================
