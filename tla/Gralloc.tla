------------------------------ MODULE Gralloc -------------------------------
(***************************************************************************)
(* CPU locks of gralloc buffers (gralloc/nvidia_gbm_wrapper.c).  A LINEAR  *)
(* buffer is mapped directly.  A block-linear one is locked through a      *)
(* staging copy: map copies image -> staging and unmap copies it back when *)
(* the lock could write.  Each process has its own copy context, which is  *)
(* unusable for good once a copy has not completed in time; such a copy    *)
(* may still land later.  A buffer's content is a value per area; the      *)
(* gralloc contract keeps a writer alone on the buffer.                    *)
(***************************************************************************)
EXTENDS Naturals, FiniteSets

CONSTANTS Procs, Bufs, Linear, Areas, Values, MaxCalls

VARIABLES
    content,    \* what the dma-buf of every buffer holds
    want,       \* what the gralloc contract says it holds
    bo,         \* struct nvg_bo of every process and buffer
    map,        \* struct nvg_map handed to minigbm
    xfer,       \* g_xfer_state of every process: 0, 1 or 2 (failed)
    hung,       \* copies that were given up and may still land
    calls

vars == <<content, want, bo, map, xfer, hung, calls>>

NoBo == [open |-> FALSE, img |-> FALSE, stg |-> [a \in Areas |-> 0], locked |-> FALSE]
NoMap == [on |-> FALSE, tiled |-> FALSE, flags |-> {}, edits |-> {}]

Init ==
    /\ content = [b \in Bufs |-> [a \in Areas |-> 0]]
    /\ want = content
    /\ bo = [p \in Procs |-> [b \in Bufs |-> NoBo]]
    /\ map = [p \in Procs |-> [b \in Bufs |-> NoMap]]
    /\ xfer = [p \in Procs |-> 0]
    /\ hung = {} /\ calls = 0

Call == calls < MaxCalls /\ calls' = calls + 1
SetBo(p, b, v) == bo' = [bo EXCEPT ![p][b] = v]
SetMap(p, b, v) == map' = [map EXCEPT ![p][b] = v]

\* The gralloc contract: a lock that may write is alone, and nobody else
\* produces into a locked buffer.
MayLock(b, flags) ==
    \A q \in Procs : map[q][b].on => "write" \notin map[q][b].flags /\ "write" \notin flags
Unlocked(b) == \A q \in Procs : ~map[q][b].on

\* nvg_import: a struct of its own per process, without any copy objects.
Import(p, b) ==
    /\ Call /\ ~bo[p][b].open
    /\ SetBo(p, b, [NoBo EXCEPT !.open = TRUE])
    /\ UNCHANGED <<content, want, map, xfer, hung>>

\* tiled_release_locked
Released(v) == [v EXCEPT !.img = FALSE, !.stg = [a \in Areas |-> 0], !.locked = FALSE]

\* nvg_free: the staging copy goes too, locked or not, and with it what the
\* CPU wrote since the lock.
Free(p, b) ==
    /\ Call /\ bo[p][b].open
    /\ SetBo(p, b, [(IF bo[p][b].img THEN Released(bo[p][b]) ELSE bo[p][b])
                       EXCEPT !.open = FALSE])
    /\ SetMap(p, b, NoMap)
    /\ UNCHANGED <<content, want, xfer, hung>>

\* A copy of tiled_copy_locked that the GPU has been given: it completes, or
\* the wait fails and the process never copies again.
InFlight(p, b, dir) == [proc |-> p, buf |-> b, dir |-> dir, data |-> bo[p][b].stg]
GivesUp(p, b, dir) ==
    /\ xfer' = [xfer EXCEPT ![p] = 2]
    /\ hung' = hung \cup {InFlight(p, b, dir)}

\* xfer_ready_locked: made once; a failure is sticky.
XferReady(p) == xfer[p] < 2

CopyInMutWriteOnly(p, b, flags) ==
    IF "read" \in flags THEN content[b] ELSE bo[p][b].stg

\* What map starts from: the image copied into the staging buffer.
CopyIn(p, b, flags) == content[b]

\* nvg_map_tiled, whole under g_xfer_lock.
MapTiled(p, b, flags) ==
    /\ Call /\ bo[p][b].open /\ b \notin Linear /\ MayLock(b, flags)
    /\ ~map[p][b].on /\ ~bo[p][b].locked /\ XferReady(p)
    /\ \/ \* the copy context, the import or the staging buffer cannot be made
          /\ ~bo[p][b].img
          /\ \/ xfer[p] = 0 /\ xfer' = [xfer EXCEPT ![p] = 2] /\ UNCHANGED bo
             \/ xfer' = [xfer EXCEPT ![p] = 1] /\ SetBo(p, b, Released(bo[p][b]))
          /\ UNCHANGED <<map, hung>>
       \/ \* the copy is not submitted
          /\ xfer' = [xfer EXCEPT ![p] = 1]
          /\ SetBo(p, b, [bo[p][b] EXCEPT !.img = TRUE])
          /\ UNCHANGED <<map, hung>>
       \/ \* the copy does not complete
          /\ GivesUp(p, b, "in")
          /\ SetBo(p, b, [bo[p][b] EXCEPT !.img = TRUE])
          /\ UNCHANGED map
       \/ \* the mapped range cannot be invalidated
          /\ xfer' = [xfer EXCEPT ![p] = 1]
          /\ SetBo(p, b, [bo[p][b] EXCEPT !.img = TRUE, !.stg = CopyIn(p, b, flags)])
          /\ UNCHANGED <<map, hung>>
       \/ /\ xfer' = [xfer EXCEPT ![p] = 1]
          /\ SetBo(p, b, [bo[p][b] EXCEPT !.img = TRUE, !.stg = CopyIn(p, b, flags),
                                          !.locked = TRUE])
          /\ SetMap(p, b, [on |-> TRUE, tiled |-> TRUE, flags |-> flags, edits |-> {}])
          /\ UNCHANGED hung
    /\ UNCHANGED <<content, want>>

\* nvg_map_impl of a LINEAR buffer: mmap and DMA_BUF_IOCTL_SYNC.
MapLinear(p, b, flags) ==
    /\ Call /\ bo[p][b].open /\ b \in Linear /\ MayLock(b, flags) /\ ~map[p][b].on
    /\ SetMap(p, b, [on |-> TRUE, tiled |-> FALSE, flags |-> flags, edits |-> {}])
    /\ UNCHANGED <<content, want, bo, xfer, hung>>

\* The CPU stores to the mapping.  Stores through a read-only lock happen
\* too; only those to a staging copy are kept from the buffer.
CpuWrite(p, b, a, v) ==
    LET m == map[p][b] IN
    /\ Call /\ m.on /\ ("write" \in m.flags \/ m.tiled)
    /\ SetMap(p, b, [m EXCEPT !.edits = @ \cup {a}])
    /\ IF m.tiled
       THEN SetBo(p, b, [bo[p][b] EXCEPT !.stg[a] = v]) /\ UNCHANGED <<content, want>>
       ELSE /\ content' = [content EXCEPT ![b][a] = v]
            /\ want' = [want EXCEPT ![b][a] = v]
            /\ UNCHANGED bo
    /\ UNCHANGED <<xfer, hung>>

\* nvg_unmap_tiled: flags may be wider than at map; only a lock that could
\* write is copied back.  A write-back that fails is logged: the buffer keeps
\* its content.
Writes(m, flags) == "write" \in m.flags \cup flags
Promised(p, b) ==
    [a \in Areas |-> IF a \in map[p][b].edits THEN bo[p][b].stg[a] ELSE want[b][a]]
UnmapTiled(p, b, flags) ==
    LET m == map[p][b]
        s == bo[p][b]
    IN  /\ Call /\ m.on /\ m.tiled
        /\ "write" \in flags \ m.flags => \A q \in Procs \ {p} : ~map[q][b].on
        /\ SetMap(p, b, NoMap) /\ SetBo(p, b, [s EXCEPT !.locked = FALSE])
        /\ \/ /\ ~Writes(m, flags)
              /\ UNCHANGED <<content, want, xfer, hung>>
           \/ /\ Writes(m, flags) /\ s.locked /\ xfer[p] = 1
              /\ content' = [content EXCEPT ![b] = s.stg]
              /\ want' = [want EXCEPT ![b] = Promised(p, b)]
              /\ UNCHANGED <<xfer, hung>>
           \/ /\ Writes(m, flags)
              /\ UNCHANGED <<content, want, xfer, hung>>
           \/ /\ Writes(m, flags) /\ s.locked /\ xfer[p] = 1
              /\ GivesUp(p, b, "out")
              /\ UNCHANGED <<content, want>>

UnmapLinear(p, b) ==
    /\ Call /\ map[p][b].on /\ ~map[p][b].tiled
    /\ SetMap(p, b, NoMap)
    /\ UNCHANGED <<content, want, bo, xfer, hung>>

\* A producer (GPU, another API) fills the whole buffer between locks.
Produce(b, v) ==
    /\ Call /\ Unlocked(b)
    /\ content' = [content EXCEPT ![b] = [a \in Areas |-> v]]
    /\ want' = [want EXCEPT ![b] = [a \in Areas |-> v]]
    /\ UNCHANGED <<bo, map, xfer, hung>>

\* A copy that was given up lands after all, if it ever does.
Lands(c) ==
    /\ c \in hung /\ c.dir = "out"
    /\ content' = [content EXCEPT ![c.buf] = c.data]
    /\ UNCHANGED <<want, bo, map, xfer, hung, calls>>

Flags == {{"read"}, {"write"}, {"read", "write"}}

Next ==
    \/ \E p \in Procs, b \in Bufs :
          \/ Import(p, b) \/ Free(p, b) \/ UnmapLinear(p, b)
          \/ \E f \in Flags : MapTiled(p, b, f) \/ MapLinear(p, b, f)
          \/ \E f \in Flags \cup {{}} : UnmapTiled(p, b, f)
          \/ \E a \in Areas, v \in Values : CpuWrite(p, b, a, v)
    \/ \E b \in Bufs, v \in Values : Produce(b, v)
    \/ \E c \in hung : Lands(c)

Spec == Init /\ [][Next]_vars

-----------------------------------------------------------------------------
Disturbed(b) == \E c \in hung : c.buf = b

\* A locked block-linear buffer shows the CPU the buffer's content except
\* where the CPU itself has stored since the lock, for every combination of
\* access flags, cached staging copies of earlier locks and other processes'
\* read locks (nvidia_gbm_wrapper.c:1650-1723, "every lock copies tiled ->
\* staging at map").
LockShowsContent ==
    \A p \in Procs, b \in Bufs :
       map[p][b].on /\ map[p][b].tiled /\ ~Disturbed(b) =>
          \A a \in Areas \ map[p][b].edits : bo[p][b].stg[a] = content[b][a]

\* What the buffer holds is what producers and writing locks put there: a
\* read-only lock never writes the buffer, a writing one changes only what
\* the CPU stored, and a lock whose write-back failed changes nothing.  Only
\* a copy that was given up after its time limit may still land.
ContentExact == \A b \in Bufs : ~Disturbed(b) => content[b] = want[b]

\* A process that gave up on a copy never hands out a staging copy again, so
\* the one command buffer and fence are not used while the copy may be
\* running (nvidia_gbm_wrapper.c:1583-1592).
GivenUpForGood ==
    \A c \in hung : xfer[c.proc] = 2
=============================================================================
