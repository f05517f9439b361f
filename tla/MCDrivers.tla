------------------------------ MODULE MCDrivers -----------------------------
(***************************************************************************)
(* Instances of the components of the user-space drivers: the gallium      *)
(* driver (its pipeline state, its linear shadows, its batches, queries    *)
(* and shaders), the Vulkan HAL and the EGL front end. A run takes the     *)
(* parts named by RunParts. They are separate specifications: a behaviour  *)
(* belongs to one of them, named by part, and its variables are v1, v2,    *)
(* ... in the order the component declares them.                           *)
(***************************************************************************)
EXTENDS Integers, Sequences, FiniteSets, TLC

CONSTANTS RunParts,                \* the parts of a run
          Contexts, BatchContexts  \* GLES contexts, interchangeable

VARIABLES part, v1, v2, v3, v4, v5, v6, v7, v8, v9, v10, v11, v12, v13, v14,
          v15, v16, v17, v18, v19, v20, v21, v22, v23, v24, v25, v26, v27,
          v28, v29
vars == <<part, v1, v2, v3, v4, v5, v6, v7, v8, v9, v10, v11, v12, v13, v14,
          v15, v16, v17, v18, v19, v20, v21, v22, v23, v24, v25, v26, v27,
          v28, v29>>

Shaders == {"s1", "s2", "s3"}
KeyOf == [s \in Shaders |-> IF s = "s3" THEN "k2" ELSE "k1"]
Sym == Permutations(Contexts)

St == INSTANCE NvrmState WITH Ring <- 2, PoolSlots <- 2, MaxSets <- 1,
    MaxCmds <- 3, MaxOther <- 1, st <- v1, dirty <- v2, cbDirty <- v3,
    inval <- v4, batch <- v5, cur <- v6, next <- v7, table <- v8,
    shadow <- v9, csPools <- v10, pool <- v11, chan <- v12, sets <- v13,
    cmds <- v14, other <- v15
Sh == INSTANCE NvrmShadow WITH Bufs <- {"b1", "b2"}, MaxOps <- 5, bound <- v1,
    target <- v2, dirtyFB <- v3, loaded <- v4, written <- v5, discarded <- v6,
    pending <- v7, lin <- v8, sh <- v9, ideal <- v10, undef <- v11,
    lapse <- v12, ops <- v13
B == INSTANCE NvrmBatch WITH Contexts <- BatchContexts, Ring <- 2,
    ChunkCmds <- 1, BatchMax <- 2, SeqRing <- 2, Staging <- {"b1"},
    MaxFlush <- 4, MaxCmds <- 7, chunk <- v1, pos <- v2, batchChunks <- v3,
    freeChunks <- v4, chunkTok <- v5, owned <- v6, mem <- v7, open <- v8,
    slot <- v9, slotTok <- v10, poolOf <- v11, kept <- v12, lastTok <- v13,
    seq <- v14, seqTok <- v15, seqTrue <- v16, fences <- v17,
    uploading <- v18, resTok <- v19, holder <- v20, gen <- v21, cache <- v22,
    early <- v23, flight <- v24, last <- v25, done <- v26, cmds <- v27,
    flushes <- v28, abort <- v29
Q == INSTANCE NvrmQuery WITH MaxDraws <- 3, MaxCalls <- 4, query <- v1,
    qseq <- v2, got <- v3, enabled <- v4, dirtySo <- v5, num <- v6,
    active <- v7, load <- v8, written <- v9, cseq <- v10, seq <- v11,
    batch <- v12, splitting <- v13, chan <- v14, want <- v15, fresh <- v16,
    stalled <- v17, ndraws <- v18, calls <- v19, abort <- v20
P == INSTANCE NvrmShader WITH Ranges <- {1}, BarFull <- FALSE, MaxDraws <- 2,
    job <- v1, bin <- v2, refs <- v3, table <- v4, range <- v5,
    committed <- v6, heap <- v7, code <- v8, gen <- v9, seen <- v10,
    batch <- v11, queue <- v12, done <- v13, frees <- v14, pending <- v15,
    icache <- v16, wrong <- v17, orphan <- v18, ndraws <- v19
CS == INSTANCE HalCmdState WITH NSets <- 2, MaxPush <- 2, MaxOps <- 3,
    app <- v1, cb <- v2, sh <- v3, ops <- v4, merged <- v5
IM == INSTANCE HalImages WITH Threads <- {"t1", "t2"}, Wrappers <- {1, 2},
    IcdImages <- {1, 2}, IcdMems <- {1, 2}, MaxCalls <- 5, wr <- v1, ms <- v2,
    tbl <- v3, icd <- v4, refs <- v5, pc <- v6, calls <- v7, app <- v8,
    gone <- v9, dead <- v10
HT == INSTANCE HalHash WITH Keys <- {1, 2, 3, 5, 9}, Vals <- {1, 2},
    Cap0 <- 4, MaxCap <- 8, h <- v1, ref <- v2
CB == INSTANCE HalCmds WITH Threads <- {"t1", "t2"}, Cmds <- {1, 2},
    Pools <- {"p", "q"}, Blocks <- {1, 2}, MaxGen <- 3, owner <- v1,
    cmdPool <- v2, tbl <- v3, blk <- v4, gen <- v5, cache <- v6, pc <- v7,
    torn <- v8
RG == INSTANCE HalRegistry WITH Threads <- {"t1", "t2"}, Handles <- {1, 2},
    Kids <- {1, 2}, Structs <- {1, 2}, MaxCreates <- 4, map <- v1, kid <- v2,
    drv <- v3, drvKid <- v4, heap <- v5, own <- v6, pc <- v7, creates <- v8
XL == INSTANCE HalXlate WITH MaxArr <- 3, Stack <- 2, Room <- 64,
    Objs <- {1, 2}, Slots <- {1, 2}, Data <- {1, 2}, MaxSets <- 3, call <- v1,
    pd <- v2, pdRef <- v3, sets <- v4
GT == INSTANCE HalGputime WITH PoolSize <- 2, MaxPools <- 2, Headroom <- 1,
    MaxTab <- 2, Pipes <- {1}, MaxCmds <- 5, MaxRecordings <- 2,
    MaxClock <- 1, level <- v1, c <- v2, sec <- v3, rec <- v4, stream <- v5,
    app <- v6, query <- v7, clock <- v8, win <- v9, charges <- v10,
    total <- v11, begun <- v12
GN == INSTANCE HalGtNames WITH Handles <- {1, 2}, Codes <- {1, 2},
    Bindings <- {1, 2}, MaxEntries <- 2, MaxOps <- 6, module <- v1,
    pipe <- v2, mem <- v3, buf <- v4, set <- v5, gt_modules <- v6,
    gt_pipes <- v7, gt_mem <- v8, gt_buf <- v9, gt_sets <- v10, census <- v11,
    ops <- v12
AN == INSTANCE HalAnb WITH Threads <- {"t1", "t2"}, Fences <- {1, 2},
    Images <- {1, 2}, Memories <- {1, 2}, MaxJobs <- 2, MaxImages <- 1,
    pool <- v1, cap <- v2, fence <- v3, job <- v4, lost <- v5, running <- v6,
    jobs <- v7, given <- v8, anb <- v9, icdImg <- v10, icdMem <- v11,
    app <- v12, made <- v13, up <- v14, th <- v15
AS == INSTANCE HalAstc WITH Emulated <- {1, 2}, Plain <- {3},
    Class <- <<2, 3>>, Width <- 5, Mips <- 2, Values <- {1, 2},
    Layouts <- {0, 1}, MaxOps <- 3, on <- v1, icd <- v2, block <- v3,
    texel <- v4, ref <- v5, lay <- v6, blay <- v7, skew <- v8, raw <- v9,
    out <- v10, init <- v11, pipe <- v12, ops <- v13
DV == INSTANCE HalDevice WITH MaxQueues <- 2, MaxUses <- 2, icd <- v1,
    offered <- v2, dev <- v3, result <- v4, queues <- v5, early <- v6,
    fn <- v7, out <- v8, uses <- v9
W2 == INSTANCE EglWindow WITH Bufs <- {1, 2}, NSlots <- 2, Sizes <- {1, 2},
    MaxFrames <- 2, MaxGen <- 1, MaxGpu <- 2, own <- v1, rel <- v2, gen <- v3,
    size <- v4, want <- v5, reading <- v6, ready <- v7, gpu <- v8,
    content <- v9, frames <- v10, slots <- v11, back <- v12, stamp <- v13,
    lost <- v14, surf <- v15, current <- v16, blind <- v17
W3 == INSTANCE EglWindow WITH Bufs <- 1 .. 3, NSlots <- 2, Sizes <- {1},
    MaxFrames <- 2, MaxGen <- 1, MaxGpu <- 2, own <- v1, rel <- v2, gen <- v3,
    size <- v4, want <- v5, reading <- v6, ready <- v7, gpu <- v8,
    content <- v9, frames <- v10, slots <- v11, back <- v12, stamp <- v13,
    lost <- v14, surf <- v15, current <- v16, blind <- v17
FR == INSTANCE EglFront WITH Threads <- {"t1", "t2"},
    Contexts <- {"c1", "c2"}, NoContext <- "none", MaxWaits <- 2, line <- v1,
    bound <- v2, pc <- v3, prev <- v4, depth <- v5, early <- v6, err <- v7

\* The variables that a part with fewer of them leaves unused.
Rest21 == <<v21, v22, v23, v24, v25, v26, v27, v28, v29>>
Zero21 == /\ v21 = 0 /\ v22 = 0 /\ v23 = 0 /\ v24 = 0 /\ v25 = 0 /\ v26 = 0
          /\ v27 = 0 /\ v28 = 0 /\ v29 = 0
Rest20 == <<v20, Rest21>>
Zero20 == v20 = 0 /\ Zero21
Rest18 == <<v18, v19, Rest20>>
Zero18 == v18 = 0 /\ v19 = 0 /\ Zero20
Rest16 == <<v16, v17, Rest18>>
Zero16 == v16 = 0 /\ v17 = 0 /\ Zero18
Rest14 == <<v14, v15, Rest16>>
Zero14 == v14 = 0 /\ v15 = 0 /\ Zero16
Rest13 == <<v13, Rest14>>
Zero13 == v13 = 0 /\ Zero14
Rest11 == <<v11, v12, Rest13>>
Zero11 == v11 = 0 /\ v12 = 0 /\ Zero13
Rest10 == <<v10, Rest11>>
Zero10 == v10 = 0 /\ Zero11
Rest9 == <<v9, Rest10>>
Zero9 == v9 = 0 /\ Zero10
Rest8 == <<v8, Rest9>>
Zero8 == v8 = 0 /\ Zero9
Rest6 == <<v6, v7, Rest8>>
Zero6 == v6 = 0 /\ v7 = 0 /\ Zero8
Rest5 == <<v5, Rest6>>
Zero5 == v5 = 0 /\ Zero6
Rest3 == <<v3, v4, Rest5>>
Zero3 == v3 = 0 /\ v4 = 0 /\ Zero5

Init ==
    /\ part \in RunParts
    /\ \/ part = "state" /\ St!Init /\ Zero16
       \/ part = "shadow" /\ Sh!Init /\ Zero14
       \/ part = "batch" /\ B!Init
       \/ part = "query" /\ Q!Init /\ Zero21
       \/ part = "shader" /\ P!Init /\ Zero20
       \/ part = "cmdstate" /\ CS!Init /\ Zero6
       \/ part = "images" /\ IM!Init /\ Zero11
       \/ part = "hash" /\ HT!Init /\ Zero3
       \/ part = "cmds" /\ CB!Init /\ Zero9
       \/ part = "registry" /\ RG!Init /\ Zero9
       \/ part = "xlate" /\ XL!Init /\ Zero5
       \/ part = "gputime" /\ GT!Init /\ Zero13
       \/ part = "gtnames" /\ GN!Init /\ Zero13
       \/ part = "anb" /\ AN!Init /\ Zero16
       \/ part = "astc" /\ AS!Init /\ Zero14
       \/ part = "device" /\ DV!Init /\ Zero10
       \/ part = "window" /\ W2!Init /\ Zero18
       \/ part = "window3" /\ W3!Init /\ Zero18
       \/ part = "front" /\ FR!Init /\ Zero8

Next ==
    \/ part = "state" /\ St!Next /\ UNCHANGED <<part, Rest16>>
    \/ part = "shadow" /\ Sh!Next /\ UNCHANGED <<part, Rest14>>
    \/ part = "batch" /\ B!Next /\ UNCHANGED part
    \/ part = "query" /\ Q!Next /\ UNCHANGED <<part, Rest21>>
    \/ part = "shader" /\ P!Next /\ UNCHANGED <<part, Rest20>>
    \/ part = "cmdstate" /\ CS!Next /\ UNCHANGED <<part, Rest6>>
    \/ part = "images" /\ IM!Next /\ UNCHANGED <<part, Rest11>>
    \/ part = "hash" /\ HT!Next /\ UNCHANGED <<part, Rest3>>
    \/ part = "cmds" /\ CB!Next /\ UNCHANGED <<part, Rest9>>
    \/ part = "registry" /\ RG!Next /\ UNCHANGED <<part, Rest9>>
    \/ part = "xlate" /\ XL!Next /\ UNCHANGED <<part, Rest5>>
    \/ part = "gputime" /\ GT!Next /\ UNCHANGED <<part, Rest13>>
    \/ part = "gtnames" /\ GN!Next /\ UNCHANGED <<part, Rest13>>
    \/ part = "anb" /\ AN!Next /\ UNCHANGED <<part, Rest16>>
    \/ part = "astc" /\ AS!Next /\ UNCHANGED <<part, Rest14>>
    \/ part = "device" /\ DV!Next /\ UNCHANGED <<part, Rest10>>
    \/ part = "window" /\ W2!Next /\ UNCHANGED <<part, Rest18>>
    \/ part = "window3" /\ W3!Next /\ UNCHANGED <<part, Rest18>>
    \/ part = "front" /\ FR!Next /\ UNCHANGED <<part, Rest8>>

Spec == Init /\ [][Next]_vars

-----------------------------------------------------------------------------
\* Every draw and dispatch executes with the state its own context set,
\* whatever the other contexts of the channel left in it.
DrawsSeeTheirState == part = "state" => St!DrawsSeeTheirState
\* What a pass that nothing cut short drew is in the linear buffers when
\* its batch is submitted.
UncutPassesReachLinear == part = "shadow" => Sh!UncutPassesReachLinear
\* Nothing the GPU has not read yet is overwritten: push chunks, texture
\* pools, and the staging buffers a batch keeps; a fence, and a wait for a
\* flush sequence, cover everything recorded before.
BatchIntact == part = "batch" => B!RecordedIntact /\ B!StagingIntact /\ B!WaitsCover
\* A query counts the samples between its begin and its end, and stream
\* output resumes where it paused.
CountersExact == part = "query" => Q!QueryExact /\ Q!CaptureExact
\* A call that names wrapped or emulated images reaches the driver with its
\* real handles, whole or not at all.
CallsExact == part = "xlate" => XL!CallsExact
\* An emulated compressed image holds the decoded form of its blocks, reads
\* back the blocks, and its parts follow it in layout and in life.
TexelsAreDecoded ==
    /\ part = "astc" => /\ AS!TexelsAreDecoded
                        /\ AS!ReadBackExact
                        /\ AS!LayoutsAgree
                        /\ AS!PartsExact
\* A device gives what its extensions offered: every enabled extension has
\* its prerequisites, exported fences cover the work before them, and a
\* command the application was given reaches the driver.
DeviceHoldsOffers ==
    /\ part = "device" => /\ DV!OffersHold
                          /\ DV!FencesCover
                          /\ DV!CallsReach
\* GPU time is charged to the region it was spent in, from queries reset in
\* the same recording, told or counted as dropped, and labelled with the
\* programs of the pipeline that ran.
GpuTimeExact ==
    /\ part = "gputime" => /\ GT!ChargesExact
                           /\ GT!QueriesReset
                           /\ GT!ChargesTold
                           /\ GT!BusyExact
    /\ part = "gtnames" => /\ GN!LabelsExact
                           /\ GN!CensusCovers
=============================================================================
