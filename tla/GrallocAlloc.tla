---------------------------- MODULE GrallocAlloc ----------------------------
(***************************************************************************)
(* Allocation of gralloc buffers (gralloc/nvidia_gbm_wrapper.c): the one   *)
(* Vulkan context of the process, nvg_alloc with its layout rule, the      *)
(* import and staging buffer that CPU locks of a block-linear buffer use,  *)
(* and the plane layout of video buffers.  Every driver call may fail and  *)
(* every path ends in the code's cleanup; live counts what the driver and  *)
(* the kernel still hold for the process.                                  *)
(***************************************************************************)
EXTENDS Integers, Sequences, FiniteSets, FiniteSetsExt

CONSTANTS Gpus,      \* lists of physical devices: NVIDIA or not, render node
          Nodes,     \* render node that minigbm opened; 0 is none
          SourceRM,  \* built with NVG_SOURCE_RM
          Tables,    \* modifiers a driver reports for the format
          Types,     \* memory types of the device: their property flags
          Bpp, Widths, Heights, Pitches,
          GobRows,   \* rows of a GOB (8 in the code)
          Sizes, Aligns,  \* plane requirements
          Offsets,   \* where minigbm puts the second plane
          Max32,     \* UINT32_MAX
          MaxCalls

VARIABLES vk,      \* g_vk_state, what vk_init_locked made and where
          node,    \* rdev of the DRM fd
          table,   \* what the driver reports
          a,       \* the nvg_alloc call in progress
          out,     \* what a completed call returned
          bo,      \* handles of one imported block-linear buffer
          live,    \* objects the driver and the kernel hold
          given,   \* fds handed to minigbm
          calls
vars == <<vk, node, table, a, out, bo, live, given, calls>>

Idle == [pc |-> "idle", held |-> {}]
Error == [op |-> "error"]
Need == {"sampled", "src", "dst"}
Objects == {"image", "memory", "buffer", "fd"}

Init ==
    /\ vk = [state |-> 0, device |-> FALSE, instance |-> FALSE, render |-> 0, nvidia |-> 0,
             inits |-> 0]
    /\ node \in Nodes /\ table \in Tables
    /\ a = Idle /\ out = Error /\ bo = {}
    /\ live = [o \in Objects |-> 0] /\ given = 0 /\ calls = 0

Call == calls < MaxCalls /\ a = Idle /\ out = Error /\ calls' = calls + 1
\* The caller has taken the result of its call.
Taken == out # Error /\ out' = Error /\ UNCHANGED <<vk, node, table, a, bo, live, given, calls>>

-----------------------------------------------------------------------------
(* vk_get and vk_init_locked: once per process, under g_vk_lock.           *)

Nvidia(list) == { i \in DOMAIN list : list[i].nvidia }

\* The NVIDIA GPU whose render node minigbm opened, else the only NVIDIA GPU.
Pick(list, rdev) ==
    LET nv == Nvidia(list)
        same == { i \in nv : rdev # 0 /\ list[i].render = rdev }
    IN  IF same # {} THEN Max(same) ELSE IF Cardinality(nv) = 1 THEN Min(nv) ELSE 0

\* The instance goes only when no device was made and vkDestroyInstance was
\* already loaded; the ICD stays loaded, and the failure is remembered.
Failed(instance, loaded, device) ==
    vk' = [vk EXCEPT !.state = -1, !.inits = @ + 1, !.device = device,
                     !.instance = instance /\ (device \/ ~loaded)]
\* The device of the GPU picked and its functions.
MakeDevice(list) ==
    \/ Failed(TRUE, TRUE, FALSE)       \* an extension, a queue family, vkCreateDevice
    \/ Failed(TRUE, TRUE, TRUE)        \* a device function is missing
    \/ vk' = [state |-> 1, device |-> TRUE, instance |-> TRUE, inits |-> vk.inits + 1,
              render |-> list[Pick(list, node)].render, nvidia |-> Cardinality(Nvidia(list))]
VkInit ==
    \/ Failed(FALSE, FALSE, FALSE)     \* dlopen .. vkCreateInstance
    \/ Failed(TRUE, FALSE, FALSE)      \* an instance function is missing
    \/ Failed(TRUE, TRUE, FALSE)       \* no memory, or no GPU to pick
    \/ \E list \in Gpus : Pick(list, node) # 0 /\ MakeDevice(list)

VkGet == IF vk.state = 0 THEN VkInit ELSE UNCHANGED vk

-----------------------------------------------------------------------------
(* nvg_alloc_impl                                                          *)

RECURSIVE Halvings(_)
Halvings(n) == IF n <= 1 THEN 0 ELSE 1 + Halvings((n \div 2) + (n % 2))

\* modifier_fits_height
FitsHeight(m, h) ==
    m.kind # "block" \/ m.log <= Halvings((h \div GobRows) + (IF h % GobRows # 0 THEN 1 ELSE 0))

\* The loop over the reported modifiers.
Candidates(linear, h) ==
    { m \in table : /\ m.kind # "invalid" /\ (m.kind = "linear") = linear /\ m.planes = 1
                    /\ Need \cup (IF linear THEN {} ELSE {"color"}) \subseteq m.feats
                    /\ FitsHeight(m, h) }

\* Formats without a block-linear modifier: LINEAR when it can be rendered.
Fallback ==
    { m \in table : SourceRM /\ m.kind = "linear" /\ m.planes = 1
                    /\ Need \cup {"color"} \subseteq m.feats }

\* Usage stays within what every candidate supports.
Usage(mods) == Need \cup { u \in {"color", "storage"} : \A m \in mods : u \in m.feats }

Requests == [w : Widths, h : Heights, linear : BOOLEAN, map : BOOLEAN, often : BOOLEAN]

\* The image query drops candidates that cannot be exported at this size;
\* without any the call fails.
Exportable(mods) == SUBSET mods \ {{}}

\* An unknown format, an empty extent and unknown flags fail before vk_get.
Alloc(req) ==
    LET first == Candidates(req.linear, req.h)
        falls == first = {} /\ ~req.linear
        mods == IF falls THEN Fallback ELSE first
    IN  /\ Call /\ VkGet
        /\ out' = Error
        /\ \/ UNCHANGED a
           \/ /\ vk'.state > 0
              /\ \E keep \in Exportable(mods) :
                    a' = [pc |-> "image", req |-> req, mods |-> keep, usage |-> Usage(mods),
                          linear |-> req.linear \/ falls, held |-> {}, type |-> 0]
        /\ UNCHANGED <<node, table, bo, live, given>>

Counts(l, made, n) == [o \in Objects |-> l[o] + n * (IF o \in made THEN 1 ELSE 0)]
Rest == UNCHANGED <<vk, node, table, bo, calls>>

\* The label out: the handles are transient; on success fd has been reset,
\* because the caller has it.
Out(l, held) == Counts(l, held, -1)
LeaveError == a' = Idle /\ out' = Error /\ live' = Out(live, a.held) /\ UNCHANGED given

Makes(o, pc) ==
    /\ a' = [a EXCEPT !.pc = pc, !.held = @ \cup {o}]
    /\ live' = Counts(live, {o}, 1) /\ UNCHANGED <<out, given>>
CreateImage == a.pc = "image" /\ Rest /\ (LeaveError \/ Makes("image", "type"))

First(bits, want) ==
    LET fit == { i \in bits : want \subseteq Types[i] } IN IF fit = {} THEN 0 ELSE Min(fit)
Often == a.linear /\ a.req.often

\* A LINEAR buffer takes host memory, else device memory; one that the CPU
\* reads often takes cached host memory or fails; block-linear is local.
MemoryType(bits) ==
    LET host == IF a.linear
                THEN First(bits, {"visible", "coherent"} \cup (IF Often THEN {"cached"} ELSE {}))
                ELSE 0
    IN  IF host # 0 \/ Often THEN host ELSE First(bits, {"local"})
ChooseType ==
    /\ a.pc = "type" /\ Rest
    /\ \/ LeaveError
       \/ \E bits \in SUBSET DOMAIN Types :
             /\ MemoryType(bits) # 0
             /\ a' = [a EXCEPT !.pc = "memory", !.type = MemoryType(bits)]
             /\ UNCHANGED <<out, live, given>>
AllocateMemory == a.pc = "memory" /\ Rest /\ (LeaveError \/ Makes("memory", "layout"))

\* One plane at offset 0; a pitch that the CPU sees is whole pixels.
LayoutOk(pitch) ==
    pitch # 0 /\ (a.req.linear \/ a.req.map => pitch % Bpp = 0 /\ pitch >= a.req.w * Bpp)

\* vkBindImageMemory .. vkGetMemoryFdKHR and the outputs; the driver chose
\* one of the modifiers it was given.
Export ==
    /\ a.pc = "layout" /\ Rest
    /\ \/ LeaveError
       \/ \E m \in a.mods, pitch \in Pitches :
             /\ LayoutOk(pitch)
             /\ a' = Idle /\ given' = given + 1
             /\ out' = [op |-> "alloc", req |-> a.req, mod |-> m, usage |-> a.usage,
                        type |-> a.type, stride |-> pitch,
                        map |-> IF ~a.linear /\ (a.req.linear \/ a.req.map) THEN pitch ELSE 0]
             /\ live' = Out(Counts(live, {"fd"}, 1), a.held)

-----------------------------------------------------------------------------
(* nvg_import, tiled_setup_locked, tiled_release_locked and nvg_free of one *)
(* buffer; bo is the set of its handles that are not null.                 *)

CopyHandles == {"img", "img_mem", "stg", "stg_mem"}
KindOf(x) == CASE x = "img" -> "image" [] x = "stg" -> "buffer" [] x = "fd" -> "fd"
               [] OTHER -> "memory"
CountsOf(l, xs, n) ==
    [o \in Objects |-> l[o] + n * Cardinality({ x \in xs : KindOf(x) = o })]

\* The buffer keeps a dup of the fd it is imported from.
Import ==
    /\ Call /\ bo = {}
    /\ \/ UNCHANGED <<bo, live>>
       \/ bo' = {"fd"} /\ live' = CountsOf(live, {"fd"}, 1)
    /\ UNCHANGED <<vk, node, table, a, out, given>>

\* The first lock of a block-linear buffer.
Setup ==
    /\ bo = {"fd"} /\ Call /\ VkGet
    /\ a' = IF vk'.state > 0 THEN [pc |-> "img", held |-> {}] ELSE a
    /\ UNCHANGED <<node, table, out, bo, live, given>>

\* tiled_release_locked destroys every handle that is set and forgets it.
Release(l) ==
    /\ bo' = bo \ CopyHandles
    /\ live' = CountsOf(l, bo \cap CopyHandles, -1)

At(pc) == a.pc = pc /\ UNCHANGED <<vk, node, table, given, calls>>
SetupFails(l) == Release(l) /\ a' = Idle /\ out' = Error
\* A call that makes handle x, after which the setup goes on at pc.
SetupMakes(x, pc) ==
    /\ bo' = bo \cup {x} /\ live' = CountsOf(live, {x}, 1)
    /\ a' = [a EXCEPT !.pc = pc] /\ UNCHANGED out
SetupGoes(pc) == a' = [a EXCEPT !.pc = pc] /\ UNCHANGED <<out, bo, live>>

SetupImage == At("img") /\ (SetupFails(live) \/ SetupMakes("img", "dup"))
\* A memory type of both image and fd, an image no larger than the dma-buf,
\* and a dup for the driver, which so far is the caller's to close.
SetupDup ==
    /\ At("dup")
    /\ \/ SetupFails(live)
       \/ /\ a' = [a EXCEPT !.pc = "img_mem", !.held = {"fd"}]
          /\ live' = CountsOf(live, {"fd"}, 1) /\ UNCHANGED <<out, bo>>
\* The dup passes to the driver on success only; a failure closes it.
SetupImport ==
    /\ At("img_mem")
    /\ \/ SetupFails(CountsOf(live, a.held, -1))
       \/ /\ bo' = bo \cup {"img_mem"} /\ a' = [a EXCEPT !.pc = "bind", !.held = {}]
          /\ live' = CountsOf(CountsOf(live, {"img_mem"}, 1), a.held, -1) /\ UNCHANGED out
SetupBind == At("bind") /\ (SetupFails(live) \/ SetupGoes("stg"))
SetupStaging == At("stg") /\ (SetupFails(live) \/ SetupMakes("stg", "stg_mem"))

\* Cached memory of the host, one that is coherent first; 0 is none.
StagingType(bits) ==
    LET host == { i \in bits : "local" \notin Types[i] }
        coherent == First(host, {"visible", "cached", "coherent"})
    IN  IF coherent # 0 THEN coherent ELSE First(host, {"visible", "cached"})
SetupStagingMemory ==
    /\ At("stg_mem")
    /\ \/ SetupFails(live)
       \/ \E bits \in SUBSET DOMAIN Types :
             /\ StagingType(bits) # 0
             /\ a' = [pc |-> "map", held |-> {}, type |-> StagingType(bits), bits |-> bits]
             /\ bo' = bo \cup {"stg_mem"} /\ live' = CountsOf(live, {"stg_mem"}, 1)
             /\ UNCHANGED out
\* vkBindBufferMemory and vkMapMemory
SetupMap ==
    /\ At("map")
    /\ \/ SetupFails(live)
       \/ /\ a' = Idle /\ UNCHANGED <<bo, live>>
          /\ out' = [op |-> "setup", type |-> a.type, bits |-> a.bits,
                     coherent |-> "coherent" \in Types[a.type]]

\* nvg_free; the copy objects go when there is an image or a staging buffer.
Free ==
    /\ Call /\ "fd" \in bo /\ bo' = {}
    /\ live' = CountsOf(live, IF {"img", "stg"} \cap bo # {} THEN bo ELSE {"fd"}, -1)
    /\ UNCHANGED <<vk, node, table, a, out, given>>

-----------------------------------------------------------------------------
(* nvg_plane_layout: where the two planes of a video buffer go.            *)

RoundUp(o, al) == LET k == IF al = 0 THEN 1 ELSE al IN ((o + k - 1) \div k) * k

\* Each plane aligned to its requirement, after the previous plane's size.
Place(size, align, asked) ==
    LET first == RoundUp(asked[1], align[1])
        end == first + size[1]
    IN  <<first, RoundUp(IF asked[2] > end THEN asked[2] ELSE end, align[2])>>

Pair(S) == [1..2 -> S]
\* Both trial images are destroyed again; whole is what the driver needs
\* for the image with the chosen offsets.
PlaneLayout(size, align, asked, whole) ==
    LET off == Place(size, align, asked)
        end == off[2] + size[2]
    IN  /\ Call /\ VkGet
        /\ \/ out' = Error
           \/ /\ vk'.state > 0 /\ off[1] <= Max32 /\ off[2] <= Max32
              /\ out' = [op |-> "planes", size |-> size, align |-> align, asked |-> asked,
                         whole |-> whole, off |-> off, total |-> IF whole > end THEN whole ELSE end]
        /\ UNCHANGED <<node, table, a, bo, live, given>>

Next ==
    \/ \E req \in Requests : Alloc(req)
    \/ CreateImage \/ ChooseType \/ AllocateMemory \/ Export
    \/ Import \/ Setup \/ SetupImage \/ SetupDup \/ SetupImport \/ SetupBind
    \/ SetupStaging \/ SetupStagingMemory \/ SetupMap
    \/ Free \/ Taken
    \/ \E size \in Pair(Sizes), align \in Pair(Aligns), second \in Offsets,
          whole \in Sizes : PlaneLayout(size, align, <<0, second>>, whole)

Spec == Init /\ [][Next]_vars

-----------------------------------------------------------------------------
\* The allocator works on the NVIDIA GPU whose render node minigbm opened,
\* or on the only one; its context is made once, and a process in which that
\* failed never allocates (nvidia_gbm_wrapper.c:453-479, 612-624).
ContextExact ==
    /\ vk.inits <= 1
    /\ vk.state = 1 => vk.device /\ (vk.nvidia = 1 \/ (node # 0 /\ vk.render = node))
    /\ out.op # "error" => vk.state = 1

\* A block of GOBs is no higher than the image needs: half of it would not
\* cover the rows.
Filled(m, h) == m.kind = "block" /\ m.log > 0 => GobRows * 2^(m.log - 1) < h

\* The layout rule (README "Layout rule", nvidia_gbm_wrapper.c:739-747).  A
\* buffer is LINEAR when that was forced, or when NVK reports no renderable
\* block-linear modifier that the image fills; the image is used only in
\* ways its modifier supports, and can be rendered unless LINEAR was forced.
\* The pitch that CPU users compute with is whole pixels and covers a row; a
\* LINEAR buffer that the CPU reads often is in cached coherent memory, and
\* a block-linear one in device memory.
LayoutRule ==
    out.op = "alloc" =>
       LET r == out.req
           linear == out.mod.kind = "linear"
           tiled == { m \in table : /\ m.kind \notin {"linear", "invalid"} /\ m.planes = 1
                                    /\ Need \cup {"color"} \subseteq m.feats /\ Filled(m, r.h) }
           cpu == IF out.map = 0 THEN out.stride ELSE out.map
       IN  /\ linear <=> r.linear \/ tiled = {}
           /\ linear /\ ~r.linear => SourceRM
           /\ out.mod \in table /\ Filled(out.mod, r.h)
           /\ out.usage \subseteq out.mod.feats
           /\ ~r.linear => "color" \in out.usage
           /\ r.linear \/ r.map => cpu % Bpp = 0 /\ cpu >= r.w * Bpp
           /\ linear /\ r.often => {"visible", "coherent", "cached"} \subseteq Types[out.type]
           /\ ~linear => "local" \in Types[out.type]

\* Whatever fails, the driver and the kernel hold what the code still has
\* handles for: a call in progress, the fd and the copy objects of a buffer,
\* and the fds that minigbm owns.  Between calls a buffer has all its copy
\* objects or none, which nvg_map_tiled relies on when it tests the image
\* alone, and nvg_free when it tests the image and the staging buffer.
NothingLeaks ==
    /\ a = Idle => bo \in {{}, {"fd"}, CopyHandles \cup {"fd"}}
    /\ \A o \in Objects :
          live[o] = (IF o \in a.held THEN 1 ELSE 0) + (IF o = "fd" THEN given ELSE 0)
                    + Cardinality({ x \in bo : KindOf(x) = o })

\* The CPU reads a staging copy from cached system memory, never from VRAM,
\* and skips the cache maintenance only where the memory is coherent, which
\* it is whenever the buffer could have such memory
\* (nvidia_gbm_wrapper.c:1432-1459).
StagingExact ==
    out.op = "setup" =>
       /\ {"visible", "cached"} \subseteq Types[out.type] /\ "local" \notin Types[out.type]
       /\ out.type \in out.bits
       /\ out.coherent = (\E i \in out.bits : /\ {"visible", "cached", "coherent"} \subseteq Types[i]
                                            /\ "local" \notin Types[i])

\* The planes of a video buffer are aligned, disjoint, inside the buffer and
\* not before the place minigbm asked for, so that the driver can bind each
\* as a plane of a DISJOINT image.
PlanesExact ==
    out.op = "planes" =>
       /\ \A p \in 1..2 : /\ out.align[p] # 0 => out.off[p] % out.align[p] = 0
                          /\ out.off[p] >= out.asked[p] /\ out.off[p] <= Max32
                          /\ out.off[p] + out.size[p] <= out.total
       /\ out.off[1] + out.size[1] <= out.off[2]
       /\ out.whole <= out.total
=============================================================================
