----------------------------- MODULE MCPayloads -----------------------------
(***************************************************************************)
(* Components around the RM backend checked by one run: the timeline words *)
(* of 32-bit hosts, the storage of deferred reclamation, the C glue of the *)
(* Vulkan driver, its contexts and its memory, the package patcher of      *)
(* mcpe-vv-module with the ZIP and deflate code it is built from, and the  *)
(* allocators of graphics buffers. They are separate specifications: a     *)
(* behaviour belongs to one of them, named by part, and its variables are  *)
(* v1, v2, ... in the order the component declares them.                   *)
(***************************************************************************)
EXTENDS Integers, Sequences, FiniteSets, TLC

VARIABLES part, v1, v2, v3, v4, v5, v6, v7, v8, v9, v10, v11, v12, v13, v14
vars == <<part, v1, v2, v3, v4, v5, v6, v7, v8, v9, v10, v11, v12, v13, v14>>

\* Compressed streams: short and long literals, matches, raw blocks.
Lit(v) == <<"lit", 3, v>>
Wide(v) == <<"lit", 15, v>>
Copy(n, x, d) == <<"match", 4, n, x, d>>
Streams == { << <<"lz", <<Lit(0), Lit(1), Wide(1), Copy(5, 0, 3), Lit(0),
                      Copy(4, 2, 7), Wide(0), Lit(1)>> >>, <<"raw", <<1, 0, 1>> >>,
                <<"lz", <<Copy(3, 3, 1), Lit(0)>> >> >>,
             << <<"raw", <<0, 1, 1, 0>> >>, <<"raw", <<>> >>,
                <<"lz", <<Wide(0), Wide(1), Copy(6, 1, 4), Copy(7, 0, 8)>> >> >> }
\* Entries added to archives: a file, a directory, and two from callbacks.
Addition(via, name, data, level, max, sized) ==
    [via |-> via, name |-> name, data |-> data, level |-> level, max |-> max,
     sized |-> sized]
Additions == { Addition("mem", <<4>>, <<1, 2, 3>>, 6, 0, FALSE),
               Addition("mem", <<2, 0>>, <<>>, 6, 0, FALSE),
               Addition("callback", <<5>>, <<1, 2>>, 0, 2, TRUE),
               Addition("callback", <<2, 4>>, <<3, 2, 3>>, 6, 2, FALSE) }
\* Entries of archives that are read: intact ones and corrupted ones.
Entry(method, cells, size, crc) ==
    [method |-> method, cells |-> cells, size |-> size, crc |-> crc]
Entries == { Entry(0, <<1, 2, 3, 4, 5>>, 5, <<1, 2, 3, 4, 5>>),
             Entry(0, <<1, 2, 3>>, 3, <<1, 2, 4>>), Entry(0, <<>>, 0, <<>>),
             Entry(8, <<<<>>, <<1>>, <<2, 3, 2, 3, 2>>, <<>>, <<4>>>>, 7,
                   <<1, 2, 3, 2, 3, 2, 4>>),
             Entry(8, <<<<1>>, <<2, 3, 2>>, <<>>>>, 4, <<1, 2, 3, 2>>),
             Entry(8, <<<<1>>, <<2, 3, 2>>, <<>>>>, 4, <<1, 2, 3, 3>>) }
\* Renderer strings: 1 is a space, 2 and 3 are parentheses, 4 a comma.
Renderers == { <<10, 1, 2, 11, 4, 1, 12, 1, 2, 13, 3, 1, 2, 14, 3, 4, 1, 15, 3>>,
               <<11, 1, 12, 13>>, <<12, 1, 2, 2, 13, 3, 1, 14, 3>>, <<5, 2, 6>> }
Row(name, tier) == [name |-> name, tier |-> tier]
TierTables == { <<Row(<<20, 21>>, 1), Row(<<11>>, 3)>>, <<Row(<<5, 6, 7, 8>>, 5)>>,
            <<Row(<<9, 9, 9, 9, 9>>, 0)>> }
\* Formats as drivers report them: block-linear and LINEAR, LINEAR only, and
\* layouts that take more than one plane.
Format(k, log, planes, more) ==
    [kind |-> k, log |-> log, planes |-> planes, feats |-> {"sampled", "src", "dst"} \cup more]
FormatTables ==
    { {Format("linear", 0, 1, {}), Format("block", 0, 1, {"color", "storage"}),
       Format("block", 1, 1, {"color"}), Format("block", 2, 1, {"color", "storage"})},
      {Format("linear", 0, 1, {"color", "storage"}), Format("block", 2, 1, {"color"}),
       Format("invalid", 0, 1, {"color"})},
      {Format("linear", 0, 1, {"color"}), Format("other", 0, 2, {"color"})},
      {Format("linear", 0, 1, {}), Format("other", 0, 1, {"color"}),
       Format("block", 1, 1, {"color"})} }
Gpu(nvidia, render) == [nvidia |-> nvidia, render |-> render]
Gpus == { <<Gpu(FALSE, 1), Gpu(TRUE, 2)>>, <<Gpu(TRUE, 1), Gpu(TRUE, 2)>>, <<Gpu(FALSE, 1)>> }
Types == << {"local", "visible", "coherent", "cached"}, {"visible", "coherent"},
            {"visible", "cached"}, {"visible", "coherent", "cached"} >>
Request(format, cpu, w, h) == [format |-> format, cpu |-> cpu, w |-> w, h |-> h]
Requests ==
    {Request("rgb", FALSE, 3, 3), Request("r8", FALSE, 3, 3), Request("nv12", FALSE, 5, 3),
     Request("rgb", TRUE, 1, 2)}
Modifier(linear, planes, more) ==
    [linear |-> linear, planes |-> planes, feats |-> {"sampled"} \cup more]
Offered ==
    [rgb |-> {Modifier(TRUE, 1, {"color"}), Modifier(FALSE, 1, {"color"}),
              Modifier(FALSE, 2, {"color"})},
     r8 |-> {Modifier(FALSE, 1, {}), Modifier(FALSE, 1, {"color", "storage"})}]

T == INSTANCE SplitTimeline WITH Epoch <- 6, Readers <- {"r1"},
    Maximum1st <- {}, MaxPending <- 2, MaxValue <- 7, value <- v1,
    maximum <- v2, armed <- v3, pending <- v4, waits <- v5, reader <- v6,
    host <- v7
D == INSTANCE ReclaimDeques WITH Objects <- {"o1", "o3"},
    Parts <- [o1 |-> <<"memory">>, o3 |-> <<"mapping", "mapping", "va">>],
    MaxQueues <- 2, MaxToken <- 1, RECLAIM_BUDGET <- 1, queue <- v1,
    last <- v2, done <- v3, object <- v4, lost <- v5, pc <- v6, then <- v7,
    budget <- v8, next <- v9, need <- v10, counts <- v11, tokens <- v12,
    items <- v13, open <- v14
CT == INSTANCE NvkmdCtx WITH ChunkMax <- 2, Syncs <- {"x", "y"},
    MaxPushes <- 3, MaxCalls <- 4, pending <- v1, waits <- v2, accepted <- v3,
    recorded <- v4, before <- v5, issued <- v6, signalled <- v7, calls <- v8
ME == INSTANCE NvkmdMem WITH Mems <- {"m1", "m2"}, Images <- {"i1"},
    Pages <- 1 .. 3, ImagePages <- 2, MaxOps <- 2, st <- v1, va <- v2,
    bindings <- v3, heap <- v4, pte <- v5, allocs <- v6, deferred <- v7,
    leases <- v8, maps <- v9, lost <- v10, ops <- v11
HF == INSTANCE MinizHuffman WITH Counts <- {0, 1, 2, 5}, TableLen <- 5,
    Limits <- {3, 4}, FastBits <- 2, Digit <- 4, MaxZeros <- 14,
    Runs <- {1, 2, 3, 4, 6, 7, 10, 11, 14, 15}, table <- v1, packed <- v2
DF == INSTANCE MinizDeflate WITH
    Inputs <- {<<0, 0, 1, 0, 1, 0, 0, 1, 0, 1, 0, 0, 0, 0, 1, 0, 0, 1, 0, 1, 0, 0>>},
    Modes <- {"lazy", "greedy", "rle", "raw", "filter"}, Dict <- 8,
    PosMod <- 16, MaxMatch <- 4, LongMatch <- 4, FarDist <- 4,
    ShortMatch <- 3, Probes <- 3, CodeMax <- 8, RawMax <- 4, Garbage <- {5},
    Chunks <- {12, 22}, Rooms <- {7, 40}, MaxFlushes <- 1, inp <- v1,
    mode <- v2, d <- v3, fed <- v4, sent <- v5, ret <- v6, flushes <- v7
NF == INSTANCE MinizInflate WITH Window <- 8, Trail <- 2, Grow <- 5,
    Chunks <- {0, 1, 3, 30}, Rooms <- {0, 1, 4, 30}, stream <- v1, r <- v2,
    z <- v3, tin <- v4, got <- v5, ret <- v6
ZA == INSTANCE MinizZip WITH Rooms <- {3, 99}, Scan <- 30, Align <- 2,
    StoreMax <- 1, Slack <- 1, U16 <- 2, U32 <- 14, MaxEntries <- 4,
    MaxCalls <- 5, MaxCut <- 1, file <- v1, zip <- v2, src <- v3, held <- v4,
    added <- v5, sound <- v6, calls <- v7, cut <- v8
XA == INSTANCE MinizExtract WITH IoBuf <- 2, Dict <- 4, Asks <- {1, 2, 4, 9},
    Fails <- {0, 1, 2, 3}, MaxReads <- 6, entry <- v1, inMem <- v2, it <- v3,
    out <- v4, faulty <- v5, ret <- v6
VV == INSTANCE VvPatch WITH Tables <- TierTables,
    Packages <- {<<"a", "t", "b">>, <<"t">>}, Seeds <- {0, 5, 63},
    Tiers <- "t", M <- 64, Base <- 5, NameMax <- 5, KeyMax <- 25, MaxK <- 30,
    Passes <- 4, Failing <- {0, 1, 2, 3}, renderer <- v1, table <- v2,
    seed <- v3, package <- v4, pc <- v5, r0 <- v6, keys <- v7, pass <- v8,
    base <- v9, entries <- v10, output <- v11
GR == INSTANCE Gralloc WITH Procs <- {"p1", "p2"}, Bufs <- {1, 2},
    Linear <- {2}, Areas <- {1, 2}, Values <- {0, 1}, MaxCalls <- 6,
    content <- v1, want <- v2, bo <- v3, map <- v4, xfer <- v5, hung <- v6,
    calls <- v7
GA == INSTANCE GrallocAlloc WITH Tables <- FormatTables, Nodes <- {0, 2},
    SourceRM <- TRUE, Bpp <- 2, Widths <- {2}, Heights <- {2, 4, 5},
    Pitches <- {2, 4, 5}, GobRows <- 2, Sizes <- {1, 3}, Aligns <- {0, 2},
    Offsets <- {0, 2, 5}, Max32 <- 6, MaxCalls <- 3, vk <- v1, node <- v2,
    table <- v3, a <- v4, out <- v5, bo <- v6, live <- v7, given <- v8,
    calls <- v9
VT == INSTANCE VtestAlloc WITH BppOf <- [rgb |-> 4, r8 |-> 1, nv12 |-> 1],
    Align <- 4, Page <- 4, MaxCache <- 2, Max32 <- 24, MaxConns <- 3,
    MaxCalls <- 2, sock <- v1, call <- v2, out <- v3, conn <- v4, work <- v5,
    vk <- v6, bufs <- v7, live <- v8, calls <- v9

\* The variables that a part with fewer of them leaves unused.
Rest12 == <<v12, v13, v14>>
Zero12 == v12 = 0 /\ v13 = 0 /\ v14 = 0
Rest10 == <<v10, v11, Rest12>>
Zero10 == v10 = 0 /\ v11 = 0 /\ Zero12
Rest9 == <<v9, Rest10>>
Zero9 == v9 = 0 /\ Zero10
Rest8 == <<v8, Rest9>>
Zero8 == v8 = 0 /\ Zero9
Rest7 == <<v7, Rest8>>
Zero7 == v7 = 0 /\ Zero8
Rest3 == <<v3, v4, v5, v6, Rest7>>
Zero3 == v3 = 0 /\ v4 = 0 /\ v5 = 0 /\ v6 = 0 /\ Zero7

Init ==
    \/ part = "split" /\ T!Init /\ Zero8
    \/ part = "deques" /\ D!Init
    \/ part = "ctx" /\ CT!Init /\ Zero9
    \/ part = "mem" /\ ME!Init /\ Zero12
    \/ part = "huffman" /\ HF!Init /\ Zero3
    \/ part = "deflate" /\ DF!Init /\ Zero8
    \/ part = "inflate" /\ NF!Init /\ Zero7
    \/ part = "zip" /\ ZA!Init /\ Zero9
    \/ part = "extract" /\ XA!Init /\ Zero7
    \/ part = "vvpatch" /\ VV!Init /\ Zero12
    \/ part = "gralloc" /\ GR!Init /\ Zero8
    \/ part = "alloc" /\ GA!Init /\ Zero10
    \/ part = "vtest" /\ VT!Init /\ Zero10

Next ==
    \/ part = "split" /\ T!Next /\ UNCHANGED <<part, Rest8>>
    \/ part = "deques" /\ D!Next /\ UNCHANGED part
    \/ part = "ctx" /\ CT!Next /\ UNCHANGED <<part, Rest9>>
    \/ part = "mem" /\ ME!Next /\ UNCHANGED <<part, Rest12>>
    \/ part = "huffman" /\ HF!Next /\ UNCHANGED <<part, Rest3>>
    \/ part = "deflate" /\ DF!Next /\ UNCHANGED <<part, Rest8>>
    \/ part = "inflate" /\ NF!Next /\ UNCHANGED <<part, Rest7>>
    \/ part = "zip" /\ ZA!Next /\ UNCHANGED <<part, Rest9>>
    \/ part = "extract" /\ XA!Next /\ UNCHANGED <<part, Rest7>>
    \/ part = "vvpatch" /\ VV!Next /\ UNCHANGED <<part, Rest12>>
    \/ part = "gralloc" /\ GR!Next /\ UNCHANGED <<part, Rest8>>
    \/ part = "alloc" /\ GA!Next /\ UNCHANGED <<part, Rest10>>
    \/ part = "vtest" /\ VT!Next /\ UNCHANGED <<part, Rest10>>

Spec == Init /\ [][Next]_vars

-----------------------------------------------------------------------------
\* The 64-bit value a reader extends from the low word is one the timeline
\* had during the read, and the GPU's circular comparison of low words
\* decides as the 64-bit comparison would.
SplitExact == part = "split" => T!ReadExact /\ T!AcquireExact
\* A host signal never moves the timeline back.
NeverRegresses == [][part = "split" => v1' >= v1]_vars
\* The flattened deques of reclaim.rs behave as the queue of groups that
\* module Reclaim describes: begin, commit and pop_retired keep the three
\* deques and the counts aligned.
ImplementsGroups ==
    /\ part = "deques" => D!R!Init
    /\ [][part = "deques" => D!R!Next \/ D!R!vars' = D!R!vars]_vars
\* A push recorded into a context is submitted at most once and in order,
\* after every wait recorded before it, whatever submission fails; the GPU
\* address ranges of memories and images never overlap, the page tables say
\* what the bindings say, and a failed call strands nothing (nvkmd_rm.c).
GlueExact ==
    /\ part = "ctx" => CT!NeverReplayed /\ CT!GatesHold
    /\ part = "mem" => ME!RangesDisjoint /\ ME!BindingsExact /\ ME!NothingStranded
\* Both ends of a compressed stream agree (miniz.c): the tables and headers
\* the compressor builds are the ones the decompressor builds, a stream
\* decodes to the bytes that went in whatever the chunks, the rooms and the
\* flushes, a flush delivers everything before it, and the decompressor
\* resumes at any byte and never stops while input and room are left.
StreamsExact ==
    /\ part = "huffman" => HF!TablesAgree /\ HF!SizesOptimal /\ HF!HeaderAgrees
    /\ part = "deflate" => DF!StreamExact /\ DF!FlushDelivers /\ DF!FullFlushCuts
    /\ part = "inflate" => NF!InflateExact /\ NF!NeverStuck
\* An archive reads back as what was added, whatever failed on the way
\* (miniz.c): it lists the entries whose addition succeeded, in order and
\* aligned, each validates, is found by name and extracts to its contents,
\* and an extraction that reports success delivered them.  The patched
\* package holds every entry and a table with the hash of every key of the
\* renderer (vvpatch.c).
ArchivesExact ==
    /\ part = "zip" => ZA!ReadsBack /\ ZA!Validates /\ ZA!SearchExact /\ ZA!HeadersAligned
    /\ part = "extract" => XA!SuccessIsExact /\ XA!IntactSucceeds
    /\ part = "vvpatch" => VV!HashesHit /\ VV!KeysClosed /\ VV!PackageWhole
\* A buffer is allocated on the GPU it is for, in a layout its image fills
\* and its users can read, without leaking what a failed call made; a CPU
\* lock shows its contents and an unlock publishes what was written; and an
\* allocation over the vtest socket returns the answer to its own request.
BuffersExact ==
    /\ part = "gralloc" => /\ GR!LockShowsContent
                           /\ GR!ContentExact
                           /\ GR!GivenUpForGood
    /\ part = "alloc" => /\ GA!ContextExact
                         /\ GA!LayoutRule
                         /\ GA!NothingLeaks
                         /\ GA!StagingExact
                         /\ GA!PlanesExact
    /\ part = "vtest" => /\ VT!ResponseIsOwn
                         /\ VT!LayoutOfFormat
                         /\ VT!InStep
                         /\ VT!NothingStranded
                         /\ VT!PlanesInside
=============================================================================
