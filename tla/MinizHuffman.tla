---------------------------- MODULE MinizHuffman ----------------------------
(***************************************************************************)
(* The Huffman tables of miniz.c, both ways: the code sizes and codes the  *)
(* compressor builds from symbol counts, their run-length packing in the   *)
(* header of a dynamic block, and the lookup table and tree that the       *)
(* decompressor builds from the unpacked sizes.  Arrays are functions from *)
(* 0, as in the code; a step runs one table or one list of sizes through   *)
(* both sides.                                                             *)
(***************************************************************************)
EXTENDS Integers, Sequences, FiniteSets, SequencesExt, FiniteSetsExt

CONSTANTS Counts,    \* symbol counts a table is built from
          TableLen,  \* symbols of such a table
          Limits,    \* code_size_limit
          FastBits,  \* TINFL_FAST_LOOKUP_BITS (10 in the code)
          Digit,     \* the radix of tdefl_radix_sort_syms (256 in the code)
          MaxZeros,  \* zeros one code stands for (138 in the code)
          Runs       \* lengths of runs of equal code sizes

MaxSize == 32        \* TDEFL_MAX_SUPPORTED_HUFF_CODESIZE

VARIABLES table,     \* the last table: counts, limit, sizes, codes, decoder
          packed     \* the last list of sizes, packed and unpacked again
vars == <<table, packed>>

Syms(n) == 0 .. n - 1
RECURSIVE Sum(_, _, _)
Sum(f, lo, hi) == IF lo > hi THEN 0 ELSE IF lo = hi THEN f[lo]
                  ELSE Sum(f, lo, (lo + hi) \div 2) + Sum(f, (lo + hi) \div 2 + 1, hi)

-----------------------------------------------------------------------------
(* The compressor's tables *)

\* One pass of the radix sort: stable, by one digit of the key.
SortPass(s, shift) ==
    FlattenSeq([d \in 1 .. Digit |->
                   SelectSeq(s, LAMBDA x : (x.key \div shift) % Digit = d - 1)])
\* tdefl_radix_sort_syms: the pass over the high digit is left out when it is
\* zero everywhere.
RadixSort(s) ==
    LET low == SortPass(s, 1) IN
    IF \A k \in DOMAIN s : s[k].key \div Digit = 0 THEN low ELSE SortPass(low, Digit)

\* tdefl_calculate_minimum_redundancy, first loop: the two least of the
\* leaves left and of the nodes without a parent are joined; a joined node's
\* key becomes its parent.
Join(st, next, n) ==
    LET a == IF st.leaf >= n \/ st.A[st.root] < st.A[st.leaf]
             THEN [st EXCEPT !.A = [@ EXCEPT ![next] = st.A[st.root], ![st.root] = next],
                             !.root = @ + 1]
             ELSE [st EXCEPT !.A[next] = st.A[st.leaf], !.leaf = @ + 1]
    IN  IF a.leaf >= n \/ (a.root < next /\ a.A[a.root] < a.A[a.leaf])
        THEN [a EXCEPT !.A = [@ EXCEPT ![next] = a.A[next] + a.A[a.root], ![a.root] = next],
                       !.root = @ + 1]
        ELSE [a EXCEPT !.A[next] = @ + a.A[a.leaf], !.leaf = @ + 1]
\* Second loop: from parents to depths of the inner nodes.
ToDepth(A, next) == [A EXCEPT ![next] = A[A[next]] + 1]
\* Third loop: from depths of inner nodes to depths of leaves.
RECURSIVE LeafDepths(_, _, _, _, _)
LeafDepths(A, avbl, dpth, root, next) ==
    IF avbl = 0 THEN A
    ELSE LET used == Cardinality({k \in 0 .. root : \A j \in k .. root : A[j] = dpth})
             left == next - (avbl - used)
         IN  LeafDepths([k \in DOMAIN A |-> IF k > left /\ k <= next THEN dpth ELSE A[k]],
                        2 * used, dpth + 1, root - used, left)
MinimumRedundancy(A, n) ==
    IF n = 0 THEN A
    ELSE IF n = 1 THEN [A EXCEPT ![0] = 1]
    ELSE LET joined == FoldLeft(LAMBDA st, next : Join(st, next, n),
                                [A |-> [A EXCEPT ![0] = @ + A[1]], root |-> 0, leaf |-> 2],
                                [i \in 1 .. n - 2 |-> i]).A
             inner  == FoldLeft(ToDepth, [joined EXCEPT ![n - 2] = 0],
                                [i \in 1 .. n - 2 |-> n - 2 - i])
         IN  LeafDepths(inner, 1, 0, n - 2, n - 1)

\* tdefl_huffman_enforce_max_code_size: codes that are too long are cut to
\* the limit, then shorter ones are lengthened until the code is complete.
RECURSIVE Complete(_, _, _)
Complete(num, total, max) ==
    IF total = 2 ^ max THEN num
    ELSE LET i == Max({k \in 1 .. max - 1 : num[k] # 0})
             a == [num EXCEPT ![max] = @ - 1]
         IN  Complete([a EXCEPT ![i] = @ - 1, ![i + 1] = a[i + 1] + 2], total - 1, max)
EnforceMaxCodeSize(num, len, max) ==
    LET cut == [num EXCEPT ![max] = Sum(num, max, MaxSize)] IN
    IF len <= 1 THEN num
    ELSE Complete(cut, Sum([i \in 1 .. max |-> cut[i] * 2 ^ (max - i)], 1, max), max)

Histogram(f) == [i \in 0 .. MaxSize |-> Cardinality({k \in DOMAIN f : f[k] = i})]

\* The codes of a list of sizes: the first code of every size, then in
\* symbol order; the compressor and the decompressor both count them so.
RECURSIVE FirstCode(_, _)
FirstCode(num, i) == IF i <= 1 THEN 0 ELSE (FirstCode(num, i - 1) + num[i - 1]) * 2
CodeOf(sizes, num, s) ==
    FirstCode(num, sizes[s]) + Cardinality({k \in DOMAIN sizes : k < s /\ sizes[k] = sizes[s]})
RECURSIVE RevCode(_, _)
RevCode(code, size) ==
    IF size = 0 THEN 0 ELSE (code % 2) * 2 ^ (size - 1) + RevCode(code \div 2, size - 1)

\* tdefl_optimize_huffman_table of a dynamic table: the most frequent symbols
\* get the shortest codes.
OptimizeTable(count, len, limit) ==
    LET used   == SelectSeq([i \in 1 .. len |-> [key |-> count[i - 1], sym |-> i - 1]],
                            LAMBDA x : x.key # 0)
        n      == Len(used)
        sorted == RadixSort(used)
        depth  == MinimumRedundancy([k \in 0 .. n - 1 |-> sorted[k + 1].key], n)
        num    == EnforceMaxCodeSize(Histogram(depth), n, limit)
        rank(s) == n + 1 - (CHOOSE k \in 1 .. n : sorted[k].sym = s)
        sizes  == [s \in Syms(len) |->
                     IF count[s] = 0 THEN 0
                     ELSE CHOOSE i \in 1 .. limit : /\ Sum(num, 1, i) >= rank(s)
                                                    /\ Sum(num, 1, i - 1) < rank(s)]
    IN  [sizes |-> sizes,
         codes |-> [s \in Syms(len) |-> RevCode(CodeOf(sizes, num, s), sizes[s])]]

-----------------------------------------------------------------------------
(* The decompressor's tables *)

\* One code longer than the lookup: a chain of tree nodes, two slots each,
\* numbered -1, -3, ... from the lookup slot of its first bits.
RECURSIVE Descend(_, _, _, _)
Descend(t, cur, rev, left) ==
    LET at == -(cur - (rev % 2)) - 1 IN
    IF left = 1 THEN [t EXCEPT !.leaf = at]
    ELSE IF t.tree[at] = 0
         THEN Descend([t EXCEPT !.tree = (at :> t.next) @@ @, !.next = @ - 2], t.next, rev \div 2, left - 1)
         ELSE Descend(t, t.tree[at], rev \div 2, left - 1)
EnterCode(t, sym, size, rev, fast) ==
    IF size = 0 THEN t
    ELSE IF size <= fast
    THEN [t EXCEPT !.look = [r \in {r \in DOMAIN @ : r % 2 ^ size = rev} |-> size * 512 + sym] @@ @]
    ELSE LET slot == rev % 2 ^ fast
             new  == t.look[slot] = 0
             cur  == IF new THEN t.next ELSE t.look[slot]
             t1   == IF new THEN [t EXCEPT !.look = (slot :> t.next) @@ @, !.next = @ - 2] ELSE t
             t2   == Descend(t1, cur, rev \div 2 ^ fast, size - fast)
         IN  [t2 EXCEPT !.tree = (t2.leaf :> sym) @@ @]

\* tinfl_decompress, the tables of a block: refused unless the code is
\* complete or has at most one symbol.
BuildTable(sizes, fast) ==
    LET num    == Histogram(sizes)
        used   == {s \in DOMAIN sizes : sizes[s] # 0}
        total  == Sum([i \in 1 .. 15 |-> num[i] * 2 ^ (16 - i)], 1, 15)
        n      == Cardinality(DOMAIN sizes)
        empty  == [look |-> [r \in Syms(2 ^ fast) |-> 0], tree |-> [k \in Syms(2 * n) |-> 0],
                   next |-> -1, leaf |-> 0, ok |-> TRUE]
    IN  IF total # 65536 /\ Cardinality(used) > 1 THEN [empty EXCEPT !.ok = FALSE]
        ELSE FoldLeft(LAMBDA t, s : EnterCode(t, s, sizes[s],
                                              RevCode(CodeOf(sizes, num, s), sizes[s]), fast),
                      empty, [i \in 1 .. n |-> i - 1])

\* TINFL_HUFF_DECODE with the bits at hand.
RECURSIVE Walk(_, _, _, _)
Walk(t, temp, bits, len) ==
    LET next == t.tree[(-temp - 1) + ((bits \div 2 ^ len) % 2)] IN
    IF next < 0 THEN Walk(t, next, bits, len + 1) ELSE <<next, len + 1>>
HuffDecode(t, bits, fast) ==
    LET temp == t.look[bits % 2 ^ fast] IN
    IF temp >= 0 THEN <<temp % 512, temp \div 512>> ELSE Walk(t, temp, bits, fast)

-----------------------------------------------------------------------------
(* The sizes in the header of a dynamic block *)

\* TDEFL_RLE_PREV_CODE_SIZE and TDEFL_RLE_ZERO_CODE_SIZE
FlushRepeat(p) ==
    [p EXCEPT !.rep = 0,
              !.out = @ \o (IF p.rep < 3 THEN [k \in 1 .. p.rep |-> <<p.prev, 0>>]
                            ELSE <<<<16, p.rep - 3>>>>)]
FlushZeros(p) ==
    [p EXCEPT !.z = 0,
              !.out = @ \o (IF p.z < 3 THEN [k \in 1 .. p.z |-> <<0, 0>>]
                            ELSE IF p.z <= 10 THEN <<<<17, p.z - 3>>>>
                            ELSE <<<<18, p.z - 11>>>>)]
\* The loop of tdefl_start_dynamic_block over the sizes of both tables.
PackOne(p, size) ==
    LET zero == [FlushRepeat(p) EXCEPT !.z = @ + 1]
        nz   == FlushZeros(p)
        new  == [FlushRepeat(nz) EXCEPT !.out = Append(@, <<size, 0>>)]
        more == [nz EXCEPT !.rep = @ + 1]
        next == IF size = 0 THEN (IF zero.z = MaxZeros THEN FlushZeros(zero) ELSE zero)
                ELSE IF size # p.prev THEN new
                ELSE IF more.rep = 6 THEN FlushRepeat(more) ELSE more
    IN  [next EXCEPT !.prev = size]
RECURSIVE PackAll(_)
PackAll(p) == IF p.rest = <<>> THEN p
              ELSE PackAll(PackOne([p EXCEPT !.rest = Tail(@)], Head(p.rest)))
Packed(end) == IF end.rep # 0 THEN FlushRepeat(end).out ELSE FlushZeros(end).out
Pack(sizes) ==
    Packed(PackAll([z |-> 0, rep |-> 0, prev |-> 255, out |-> <<>>, rest |-> sizes]))

\* tinfl_decompress: the sizes of both tables again; <<>> when refused.
UnpackOne(u, code) ==
    LET n == code[2] + (IF code[1] = 18 THEN 11 ELSE 3)
        v == IF code[1] = 16 THEN Last(u.out) ELSE 0
    IN  IF ~u.ok \/ Len(u.out) >= u.len THEN [u EXCEPT !.ok = FALSE]
        ELSE IF code[1] < 16 THEN [u EXCEPT !.out = Append(@, code[1])]
        ELSE IF code[1] = 16 /\ u.out = <<>> THEN [u EXCEPT !.ok = FALSE]
        ELSE [u EXCEPT !.out = @ \o [k \in 1 .. n |-> v]]
RECURSIVE UnpackAll(_)
UnpackAll(u) == IF u.rest = <<>> THEN u
                ELSE UnpackAll(UnpackOne([u EXCEPT !.rest = Tail(@)], Head(u.rest)))
Unpacked(end) == IF end.ok /\ Len(end.out) = end.len THEN end.out ELSE <<>>
Unpack(codes, len) ==
    Unpacked(UnpackAll([out |-> <<>>, ok |-> TRUE, len |-> len, rest |-> codes]))

-----------------------------------------------------------------------------
NoTable == <<>>
NoList  == [sizes |-> <<>>, back |-> <<>>]

Init == table = NoTable /\ packed = NoList

\* A dynamic table of the compressor, and the decompressor's of its sizes.
DynamicTable(count, limit) ==
    LET t == OptimizeTable(count, TableLen, limit) IN
    /\ table = NoTable
    /\ table' = [count |-> count, limit |-> limit, sizes |-> t.sizes,
                 codes |-> t.codes, dec |-> BuildTable(t.sizes, FastBits)]
    /\ UNCHANGED packed

\* The code sizes of a block's header, given as runs.
Header(runs) ==
    LET sizes == FlattenSeq([k \in DOMAIN runs |-> [i \in 1 .. runs[k][2] |-> runs[k][1]]]) IN
    /\ packed = NoList
    /\ packed' = [sizes |-> sizes, back |-> Unpack(Pack(sizes), Len(sizes))]
    /\ UNCHANGED table

RunLists == {<<>>} \cup UNION {[1 .. n -> {0, 1, 2} \X Runs] : n \in 1 .. 2}
Next ==
    \/ \E count \in [Syms(TableLen) -> Counts], limit \in Limits :
          packed = NoList /\ DynamicTable(count, limit)
    \/ \E runs \in RunLists : table = NoTable /\ runs # <<>> /\ Header(runs)

Spec == Init /\ [][Next]_vars

-----------------------------------------------------------------------------
Used(t) == {s \in DOMAIN t.sizes : t.sizes[s] # 0}

\* Every symbol that occurs has a code within the size limit, and the
\* decompressor, given the code followed by any bits, reads that symbol and
\* consumes exactly its bits: tinfl_decompress accepts every table that
\* tdefl_optimize_huffman_table builds, through the lookup as through the
\* tree (miniz.c:871-922 against 2585-2642).
TablesAgree ==
    table # NoTable =>
       /\ table.dec.ok
       /\ Used(table) = {s \in DOMAIN table.count : table.count[s] # 0}
       /\ \A s \in Used(table) : table.sizes[s] <= table.limit
       /\ \A s \in Used(table), tail \in 0 .. 3 :
             HuffDecode(table.dec, table.codes[s] + 2 ^ table.sizes[s] * tail, FastBits)
                = <<s, table.sizes[s]>>

\* The cost of an optimal prefix code of a bag of counts, by joining the two
\* least; a single symbol has one bit.
RECURSIVE Joined(_)
Joined(s) ==
    IF Len(s) <= 1 THEN 0
    ELSE LET t == SortSeq(s, LAMBDA x, y : x < y)
             w == t[1] + t[2]
         IN  w + Joined(Append(SubSeq(t, 3, Len(t)), w))
BestCost(count) ==
    LET u == SelectSeq([i \in 1 .. TableLen |-> count[i - 1]], LAMBDA x : x # 0) IN
    IF Len(u) = 1 THEN u[1] ELSE Joined(u)

\* The code sizes are optimal for the counts unless the limit cut a code, and
\* then no size is longer than the limit (tdefl_calculate_minimum_redundancy
\* works in place on the array that holds its input).
SizesOptimal ==
    table # NoTable =>
       LET cost == Sum([s \in Syms(TableLen) |-> table.count[s] * table.sizes[s]], 0, TableLen - 1)
       IN  /\ cost >= BestCost(table.count)
           /\ cost > BestCost(table.count) => \E s \in Used(table) : table.sizes[s] = table.limit

\* The decompressor unpacks the code sizes the compressor packed, at every
\* length of run (miniz.c:1014-1053 against 2645-2671).
HeaderAgrees == packed.back = packed.sizes
=============================================================================
