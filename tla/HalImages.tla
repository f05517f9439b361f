------------------------------ MODULE HalImages ------------------------------
(***************************************************************************)
(* Wrapper images and AHB-backed memory of the Vulkan HAL (hal/src/ahb.c,  *)
(* the private-data commands of imgxlate.c).  An AHardwareBuffer image, or *)
(* an image bound to a swapchain, is a HAL object until its buffer is      *)
(* known; then the driver's image is created and the wrapper points to it. *)
(* The application calls from several threads, as Vulkan's external        *)
(* synchronization allows: a call that destroys an object excludes other   *)
(* calls naming that object, but destroying an image and freeing its       *)
(* memory are calls on different objects.                                  *)
(***************************************************************************)
EXTENDS Integers, FiniteSets

CONSTANTS Threads,
          Wrappers,  \* addresses of struct nvhal_image (numbers from 1), each used once
          IcdImages, IcdMems,  \* the driver's handles (from 1), reused after destruction
          MaxCalls   \* bound on the calls of the application

Structs == 1 .. MaxCalls   \* struct ahb_mem blocks, each used once
None    == 0
Values  == {0, 1}          \* private data, and names; 0 until set

VARIABLES wr,     \* wrapper -> the fields of struct nvhal_image
          ms,     \* struct -> the fields of struct ahb_mem
          tbl,    \* ahb_mems: memory handle -> struct
          icd,    \* the driver's objects
          refs,   \* references of the HAL on AHardwareBuffers
          pc, calls,
          app,    \* handles the application holds
          gone,   \* the device is destroyed
          dead    \* what was read through a dangling pointer
vars == <<wr, ms, tbl, icd, refs, pc, calls, app, gone, dead>>

Idle    == [op |-> "idle", w |-> None, mem |-> None, s |-> 0, own |-> FALSE]
NoWrap  == [st |-> "none", kind |-> "none", real |-> None, memory |-> None, pd |-> 0]
NoMem   == [st |-> "none", image |-> None]
NoImage == [live |-> FALSE, pd |-> 0]
NoBacking == -1            \* a memory handle not in use; None: memory of no image
FreeImages == {i \in IcdImages : ~icd.image[i].live}
FreeMems   == {m \in IcdMems : icd.mem[m] = NoBacking}

\* objects a call in progress names
Busy(x) == \E t \in Threads : pc[t].op # "idle" /\ x \in {pc[t].w, pc[t].mem}
Call(t) == /\ ~gone /\ pc[t] = Idle /\ calls < MaxCalls /\ calls' = calls + 1
Live    == {w \in Wrappers : wr[w].st = "live"}

-----------------------------------------------------------------------------
\* nvhal_ahb_CreateImage with parse_ci, nvhal_sc_CreateImage: the wrapper is
\* registered in the hash; a create info that is refused, or no memory for the
\* wrapper or its hash entry, leaves nothing behind.
CreateImage(t, w, kind) ==
    /\ Call(t)
    /\ wr[w].st = "none"
    /\ wr' = [wr EXCEPT ![w] = [st |-> "live", kind |-> kind, real |-> None, memory |-> None, pd |-> 0]]
    /\ app' = [app EXCEPT !.images = @ \cup {w}]
    /\ UNCHANGED <<ms, tbl, icd, refs, pc, gone, dead>>

\* nvhal_ahb_DestroyImage: the wrapper leaves the hash, and its memory's
\* record is looked up.
DestroyImage(t, w) ==
    LET s == IF wr[w].kind = "ahb" /\ wr[w].memory # None THEN tbl[wr[w].memory] ELSE 0
    IN /\ Call(t)
       /\ w \in app.images /\ ~Busy(w)
       /\ app' = [app EXCEPT !.images = @ \ {w}]
       /\ wr' = [wr EXCEPT ![w].st = "dying"]
       /\ pc' = [pc EXCEPT ![t] = [Idle EXCEPT !.op = "unlink", !.w = w, !.s = s]]
       /\ UNCHANGED <<ms, tbl, icd, refs, gone, dead>>

\* m->image is cleared when it is this wrapper; no lock protects m.
DestroyUnlink(t) ==
    LET s == pc[t].s
    IN /\ pc[t].op = "unlink"
       /\ dead' = IF s # 0 /\ ms[s].st = "freed" THEN dead \cup {"ahb_mem"} ELSE dead
       /\ ms' = IF s # 0 /\ ms[s].image = pc[t].w THEN [ms EXCEPT ![s].image = None] ELSE ms
       /\ pc' = [pc EXCEPT ![t].op = "destroy"]
       /\ UNCHANGED <<wr, tbl, icd, refs, calls, app, gone>>

\* The driver's image, the imported memory of a swapchain image, the wrapper.
DestroyFinish(t) ==
    LET w == wr[pc[t].w]
        i == IF w.real = None THEN icd.image ELSE [icd.image EXCEPT ![w.real] = NoImage]
        m == IF w.kind = "swapchain" /\ w.memory # None
             THEN [icd.mem EXCEPT ![w.memory] = NoBacking] ELSE icd.mem
    IN /\ pc[t].op = "destroy"
       /\ icd' = [icd EXCEPT !.image = i, !.mem = m]
       /\ wr' = [wr EXCEPT ![pc[t].w].st = "freed"]
       /\ pc' = [pc EXCEPT ![t] = Idle]
       /\ UNCHANGED <<ms, tbl, refs, calls, app, gone, dead>>

-----------------------------------------------------------------------------
\* realise and import_dmabuf under the wrapper's lock: the driver's image, the
\* memory imported for it, the object state replayed on it, then `real`.
Realised(w, i, m) ==
    /\ icd' = [icd EXCEPT !.image[i] = [live |-> TRUE, pd |-> wr[w].pd], !.mem[m] = i]
    /\ wr' = [wr EXCEPT ![w].real = i, ![w].memory = m]

\* nvhal_AllocateMemory up to the import.  An export allocates its buffer and
\* owns that reference; an import only names it.  A wrapper that already has
\* its image, and a failure of the checks, of vkCreateImage or of the import,
\* leave nothing behind (fail_buf).
AllocateMemory(t, w, export, i, m) ==
    /\ Call(t)
    /\ w \in app.images /\ wr[w].kind = "ahb" /\ wr[w].real = None
    /\ ~\E u \in Threads : pc[u].w = w /\ pc[u].op \in {"record", "undo"}
    /\ i \in FreeImages /\ m \in FreeMems
    /\ Realised(w, i, m)
    /\ refs' = IF export THEN refs + 1 ELSE refs
    /\ pc' = [pc EXCEPT ![t] = [Idle EXCEPT !.op = "record", !.w = w, !.mem = m, !.own = export]]
    /\ UNCHANGED <<ms, tbl, app, gone, dead>>

\* the same for a BLOB buffer: memory alone, of a driver's own image or buffer
AllocateBlob(t, m) ==
    /\ Call(t)
    /\ m \in FreeMems
    /\ icd' = [icd EXCEPT !.mem[m] = None]
    /\ pc' = [pc EXCEPT ![t] = [Idle EXCEPT !.op = "record", !.mem = m]]
    /\ UNCHANGED <<wr, ms, tbl, refs, app, gone, dead>>

\* The record enters ahb_mems; an import takes its own reference now.
AllocateRecord(t) ==
    \E s \in Structs :
       /\ pc[t].op = "record"
       /\ ms[s].st = "none" /\ \A r \in 1 .. s - 1 : ms[r].st # "none"
       /\ ms' = [ms EXCEPT ![s] = [st |-> "live", image |-> pc[t].w]]
       /\ tbl' = [tbl EXCEPT ![pc[t].mem] = s]
       /\ refs' = IF pc[t].own THEN refs ELSE refs + 1
       /\ app' = [app EXCEPT !.mems = @ \cup {pc[t].mem}]
       /\ pc' = [pc EXCEPT ![t] = Idle]
       /\ UNCHANGED <<wr, icd, calls, gone, dead>>

\* No memory for the record: the wrapper is unrealised first ...
AllocateUndo(t) ==
    /\ pc[t].op = "record"
    /\ wr' = IF pc[t].w = None THEN wr
             ELSE [wr EXCEPT ![pc[t].w].real = None, ![pc[t].w].memory = None]
    /\ pc' = [pc EXCEPT ![t].op = "undo"]
    /\ UNCHANGED <<ms, tbl, icd, refs, calls, app, gone, dead>>

\* ... then the driver's image and memory go, and an export's buffer.
AllocateUndone(t) ==
    /\ pc[t].op = "undo"
    /\ icd' = [icd EXCEPT !.image = [i \in IcdImages |-> IF icd.mem[pc[t].mem] = i THEN NoImage ELSE @[i]],
                          !.mem[pc[t].mem] = NoBacking]
    /\ refs' = IF pc[t].own THEN refs - 1 ELSE refs
    /\ pc' = [pc EXCEPT ![t] = Idle]
    /\ UNCHANGED <<wr, ms, tbl, calls, app, gone, dead>>

-----------------------------------------------------------------------------
\* nvhal_FreeMemory: the record leaves the table before the driver may hand
\* the handle out again.
FreeMemory(t, m) ==
    /\ Call(t)
    /\ m \in app.mems /\ ~Busy(m)
    /\ app' = [app EXCEPT !.mems = @ \ {m}]
    /\ tbl' = [tbl EXCEPT ![m] = 0]
    /\ pc' = [pc EXCEPT ![t] = [Idle EXCEPT !.op = "free", !.mem = m, !.s = tbl[m]]]
    /\ UNCHANGED <<wr, ms, icd, refs, gone, dead>>
FreeInDriver(t) ==
    /\ pc[t].op = "free"
    /\ icd' = [icd EXCEPT !.mem[pc[t].mem] = NoBacking]
    /\ pc' = [pc EXCEPT ![t] = IF @.s = 0 THEN Idle
                               ELSE [@ EXCEPT !.op = "image", !.mem = None]]
    /\ UNCHANGED <<wr, ms, tbl, refs, calls, app, gone, dead>>
\* m->image is read, without a lock
FreeReadImage(t) ==
    /\ pc[t].op = "image"
    /\ pc' = [pc EXCEPT ![t].op = "forget", ![t].own = (ms[pc[t].s].image # None)]
    /\ UNCHANGED <<wr, ms, tbl, icd, refs, calls, app, gone, dead>>
\* the wrapper's memory is cleared under its lock, the buffer released
FreeForget(t) ==
    LET s == pc[t].s
        w == ms[s].image
    IN /\ pc[t].op = "forget"
       /\ dead' = IF pc[t].own /\ (w = None \/ wr[w].st = "freed")
                  THEN dead \cup {"nvhal_image"} ELSE dead
       /\ wr' = IF pc[t].own /\ w # None THEN [wr EXCEPT ![w].memory = None] ELSE wr
       /\ refs' = refs - 1
       /\ ms' = [ms EXCEPT ![s].st = "freed"]
       /\ pc' = [pc EXCEPT ![t] = Idle]
       /\ UNCHANGED <<tbl, icd, calls, app, gone>>

-----------------------------------------------------------------------------
\* nvhal_sc_bind: an image bound to a swapchain is realised once, at the bind.
SwapchainBind(t, w, i, m) ==
    /\ Call(t)
    /\ w \in app.images /\ wr[w].kind = "swapchain" /\ wr[w].real = None
    /\ i \in FreeImages /\ m \in FreeMems
    /\ Realised(w, i, m)
    /\ UNCHANGED <<ms, tbl, refs, pc, app, gone, dead>>

\* set_pd, xl_SetDebugUtilsObjectNameEXT: the value is kept on the wrapper
\* under its lock, for the replay ...
SetObjectState(t, w) ==
    /\ Call(t)
    /\ w \in app.images /\ ~\E u \in Threads : pc[u].op = "set" /\ pc[u].w = w
    /\ wr' = [wr EXCEPT ![w].pd = 1]
    /\ pc' = [pc EXCEPT ![t] = [Idle EXCEPT !.op = "set", !.w = w]]
    /\ UNCHANGED <<ms, tbl, icd, refs, app, gone, dead>>
\* ... and forwarded when the wrapper has its image by then (real_handle).
ForwardObjectState(t) ==
    LET r == wr[pc[t].w].real
    IN /\ pc[t].op = "set"
       /\ icd' = IF r = None THEN icd ELSE [icd EXCEPT !.image[r].pd = wr[pc[t].w].pd]
       /\ pc' = [pc EXCEPT ![t] = Idle]
       /\ UNCHANGED <<wr, ms, tbl, refs, calls, app, gone, dead>>

\* nvhal_ahb_device_teardown in vkDestroyDevice: leaked swapchain images give
\* their image and memory back, leaked records their buffer; the driver frees
\* the rest with the device.
DeviceTeardown ==
    LET linked == {tbl[m] : m \in IcdMems} \ {0}
        sc     == {w \in Live : wr[w].kind = "swapchain" /\ wr[w].memory # None}
    IN /\ ~gone /\ \A t \in Threads : pc[t] = Idle
       /\ gone' = TRUE
       /\ refs' = refs - Cardinality(linked)
       /\ ms' = [s \in Structs |-> IF s \in linked THEN [ms[s] EXCEPT !.st = "freed"] ELSE ms[s]]
       /\ tbl' = [m \in IcdMems |-> 0]
       /\ icd' = [image |-> [i \in IcdImages |-> IF \E w \in sc : wr[w].real = i THEN NoImage ELSE icd.image[i]],
                  mem   |-> [m \in IcdMems |-> IF \E w \in sc : wr[w].memory = m THEN NoBacking ELSE icd.mem[m]]]
       /\ wr' = [w \in Wrappers |-> IF w \in Live THEN [wr[w] EXCEPT !.st = "dropped"] ELSE wr[w]]
       /\ UNCHANGED <<pc, calls, app, dead>>

Init ==
    /\ wr = [w \in Wrappers |-> NoWrap] /\ ms = [s \in Structs |-> NoMem]
    /\ tbl = [m \in IcdMems |-> 0]
    /\ icd = [image |-> [i \in IcdImages |-> NoImage], mem |-> [m \in IcdMems |-> NoBacking]]
    /\ refs = 0 /\ pc = [t \in Threads |-> Idle] /\ calls = 0
    /\ app = [images |-> {}, mems |-> {}] /\ gone = FALSE /\ dead = {}

Next ==
    \/ \E t \in Threads :
          \/ \E w \in Wrappers, kind \in {"ahb", "swapchain"} : CreateImage(t, w, kind)
          \/ \E w \in Wrappers : DestroyImage(t, w) \/ SetObjectState(t, w)
          \/ \E w \in Wrappers, x \in BOOLEAN, i \in IcdImages, m \in IcdMems : AllocateMemory(t, w, x, i, m)
          \/ \E w \in Wrappers, i \in IcdImages, m \in IcdMems : SwapchainBind(t, w, i, m)
          \/ \E m \in IcdMems : AllocateBlob(t, m) \/ FreeMemory(t, m)
          \/ DestroyUnlink(t) \/ DestroyFinish(t) \/ AllocateRecord(t) \/ AllocateUndo(t)
          \/ AllocateUndone(t) \/ FreeInDriver(t) \/ FreeReadImage(t) \/ FreeForget(t)
          \/ ForwardObjectState(t)
    \/ DeviceTeardown

Spec == Init /\ [][Next]_vars
-----------------------------------------------------------------------------
Having(ops) == {t \in Threads : pc[t].op \in ops}
RealOf(i) == {w \in Wrappers : wr[w].st \in {"live", "dying"} /\ wr[w].real = i}

\* Every AHardwareBuffer reference the HAL took is held by exactly one record
\* of AHB memory or by the export that allocated it (nvhal_AllocateMemory,
\* nvhal_FreeMemory, mem_release); every live image of the driver belongs to
\* exactly one wrapper or to the failing allocation that is about to destroy
\* it, and a wrapper's image is live: none is leaked, shared or destroyed
\* twice, whatever fails in between and whichever calls overlap.
ObjectsExact ==
    /\ refs = Cardinality({s \in Structs : ms[s].st = "live"})
              + Cardinality({t \in Having({"record", "undo"}) : pc[t].own})
    /\ \A i \in IcdImages : ~gone =>
          /\ ~icd.image[i].live => RealOf(i) = {}
          /\ icd.image[i].live =>
                Cardinality(RealOf(i)) + Cardinality({t \in Having({"undo"}) : icd.mem[pc[t].mem] = i}) = 1
    /\ \A m \in IcdMems : ~gone /\ icd.mem[m] = NoBacking =>
          tbl[m] = 0 /\ ~\E w \in Live : wr[w].kind = "swapchain" /\ wr[w].memory = m

\* A name or private-data value set on a wrapper is on the driver's image once
\* both calls have returned, whether the image was realised before, after or
\* during the call that set it (replay_object_state, set_pd).
StateReachesImage ==
    \A w \in Live : wr[w].real # None /\ ~(\E t \in Having({"set"}) : pc[t].w = w)
        => icd.image[wr[w].real].pd = wr[w].pd

\* What struct ahb_mem says of its image pointer: it is cleared when the
\* wrapper dies first, so no call follows it to a wrapper that is gone, nor
\* reads a record that was freed.
ClearedWhenWrapperDies == dead = {}
=============================================================================
