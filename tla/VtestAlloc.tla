----------------------------- MODULE VtestAlloc -----------------------------
(***************************************************************************)
(* Allocation over the vtest socket: the gralloc wrapper in the container  *)
(* (minigbm-vtest/vtest_wrapper.c) asks, and the vtest server on the host  *)
(* (virglrenderer-vtest/vtest_gpu_alloc.c) makes the buffer and passes its *)
(* dma-buf.  The server may restart, and answers may be late or lost.  A   *)
(* socket is a stream: one that was abandoned half read would give every   *)
(* later call the answer of the call before it.  dev->mutex is held for    *)
(* the whole of a call, so the calls of a device are sequential.  The      *)
(* server's dispatcher is external (the patched virglrenderer).            *)
(***************************************************************************)
EXTENDS Integers, Sequences, FiniteSets, FiniteSetsExt

CONSTANTS Requests,  \* format, force_linear or needs_map_stride, extent
          BppOf,     \* bytes per pixel of every format
          Offered,   \* modifiers the driver reports, per format
          MaxCache,  \* slots of the modifier cache (8 in the code)
          Align, Page,  \* 256 and 4096 in the code
          Max32,     \* UINT32_MAX
          MaxConns, MaxCalls

VARIABLES sock,     \* dev->sock: a connection, 0 when there is none
          call,     \* the vtest_alloc in progress
          out,      \* what the last call returned
          conn,     \* every connection: its two ends, requests and answers
          work,     \* the request in the hands of the server, per connection
          vk,       \* alloc_vk and alloc_vk_failed of the server
          bufs,     \* dma-bufs made: the call they answer and their layout
          live,     \* handles and fds of the server process, per kind
          calls
vars == <<sock, call, out, conn, work, vk, bufs, live, calls>>

Conns == 1 .. MaxConns
Kinds == {"image", "memory", "memfd", "ufd"}
NoCall == [pc |-> "idle"]
NoOut == [ret |-> "none"]
NoWork == [pc |-> "idle", held |-> {}]
NoVk == [device |-> FALSE, failed |-> FALSE, usable |-> FALSE, cache |-> <<>>]
Linear == [linear |-> TRUE]
NoHandles == [k \in Kinds |-> 0]

Init ==
    /\ sock = 0 /\ call = NoCall /\ out = NoOut
    /\ conn = <<>>
    /\ work = [c \in Conns |-> NoWork]
    /\ vk = NoVk /\ bufs = <<>> /\ live = NoHandles /\ calls = 0

-----------------------------------------------------------------------------
(* vtest_alloc in the container                                            *)

\* CPU buffers, and NV12 always, are asked for as mappable.
Mappable(req) == req.cpu \/ req.format = "nv12"

Begin(req) ==
    /\ call = NoCall /\ calls < MaxCalls
    /\ calls' = calls + 1
    /\ call' = [pc |-> "connect", id |-> calls + 1, req |-> req, attempt |-> 0, resp |-> 0]
    /\ out' = NoOut
    /\ UNCHANGED <<sock, conn, work, vk, bufs, live>>

Return(v) == call' = NoCall /\ out' = v
Fails == Return([ret |-> "error"])

\* What the kernel does with a closed end: unread fds are dropped with it.
Closed(c) == conn' = [conn EXCEPT ![c].client = FALSE, ![c].answers = <<>>]
CloseSock == Closed(sock) /\ sock' = 0

NewConn(client) ==
    /\ Len(conn) < MaxConns
    /\ conn' = Append(conn, [client |-> client, server |-> TRUE, reqs |-> <<>>, answers |-> <<>>])

\* vtest_connect, when there is no connection.  A socket on which no
\* CREATE_RENDERER could be written is closed; without one the call ends.
Connect ==
    /\ call.pc = "connect"
    /\ \/ /\ sock # 0 /\ call' = [call EXCEPT !.pc = "send"] /\ UNCHANGED <<sock, conn, out>>
       \/ /\ sock = 0 /\ NewConn(TRUE) /\ sock' = Len(conn) + 1
          /\ call' = [call EXCEPT !.pc = "send"] /\ UNCHANGED out
       \/ sock = 0 /\ Fails /\ (NewConn(FALSE) \/ UNCHANGED conn) /\ UNCHANGED sock
    /\ UNCHANGED <<work, vk, bufs, live, calls>>

\* A failed write or read: the connection is given up, and once more tried.
Again ==
    /\ CloseSock
    /\ IF call.attempt = 0
       THEN call' = [call EXCEPT !.pc = "connect", !.attempt = 1] /\ UNCHANGED out
       ELSE Fails

Send ==
    /\ call.pc = "send"
    /\ \/ /\ conn[sock].server
          /\ conn' = [conn EXCEPT ![sock].reqs = Append(@, [id |-> call.id, req |-> call.req])]
          /\ call' = [call EXCEPT !.pc = "recv"] /\ UNCHANGED <<sock, out>>
       \/ Again
    /\ UNCHANGED <<work, vk, bufs, live, calls>>

Next1 == Head(conn[sock].answers)
Pop == conn' = [conn EXCEPT ![sock].answers = Tail(@)]

\* The response: its header is checked, a status ends the call, and an fd
\* must follow.  The read may time out or meet the end of the stream.
Recv ==
    /\ call.pc = "recv"
    /\ \/ /\ conn[sock].answers # <<>>
          /\ IF Next1.is # "resp" THEN CloseSock /\ Fails
             ELSE /\ Pop /\ UNCHANGED sock
                  /\ IF Next1.ok
                     THEN call' = [call EXCEPT !.pc = "fd", !.resp = Next1] /\ UNCHANGED out
                     ELSE Fails
       \/ Again
    /\ UNCHANGED <<work, vk, bufs, live, calls>>

\* sock_recv_fd failed: the stream is out of step and is given up.
RecvFdFails == Fails /\ CloseSock
RecvFd ==
    /\ call.pc = "fd"
    /\ \/ /\ conn[sock].answers # <<>> /\ Next1.is = "fd" /\ Pop /\ UNCHANGED sock
          /\ Return([ret |-> "ok", id |-> call.id, req |-> call.req, resp |-> call.resp,
                     buf |-> Next1.buf])
       \/ RecvFdFails
    /\ UNCHANGED <<work, vk, bufs, live, calls>>

\* vtest_dev_destroy and vtest_dev_create
Reopen ==
    /\ call = NoCall /\ sock # 0 /\ CloseSock
    /\ UNCHANGED <<call, out, work, vk, bufs, live, calls>>

-----------------------------------------------------------------------------
(* The server                                                              *)

\* The server process ends and is started again: the kernel closes what it
\* had; what it had written can still be read.
Restarted ==
    /\ conn' = [c \in DOMAIN conn |-> [conn[c] EXCEPT !.server = FALSE, !.reqs = <<>>]]
    /\ work' = [c \in Conns |-> NoWork] /\ vk' = NoVk /\ live' = NoHandles
    /\ bufs' = [b \in DOMAIN bufs |-> [bufs[b] EXCEPT !.server = FALSE]]
Restart ==
    /\ \E c \in DOMAIN conn : conn[c].server
    /\ Restarted /\ UNCHANGED <<sock, call, out, calls>>

\* The steps of a request in hand: they make and destroy handles.
Step(c) == conn[c].server /\ UNCHANGED <<sock, call, out, conn, calls>>
Counts(l, ks, n) == [k \in Kinds |-> l[k] + n * (IF k \in ks THEN 1 ELSE 0)]
Makes(c, k, pc) ==
    /\ work' = [work EXCEPT ![c].pc = pc, ![c].held = @ \cup {k}]
    /\ live' = Counts(live, {k}, 1) /\ UNCHANGED bufs

\* What the request is answered with: a status, or a dma-buf whose only fd is
\* the server's.
Status(c) ==
    /\ work' = [work EXCEPT ![c] = [pc |-> "resp", id |-> @.id, ok |-> FALSE, buf |-> 0, held |-> {}]]
    /\ UNCHANGED bufs
Answer(c, buf) ==
    /\ bufs' = Append(bufs, buf)
    /\ work' = [work EXCEPT ![c] = [pc |-> "resp", id |-> @.id, ok |-> TRUE, buf |-> Len(bufs) + 1,
                                    held |-> {}]]

\* One request of a client: vtest_resource_alloc_gpu of the dispatcher.
Serve(c) ==
    /\ conn[c].server /\ conn[c].reqs # <<>> /\ work[c] = NoWork
    /\ LET r == Head(conn[c].reqs) IN
       work' = [work EXCEPT ![c] = [pc |-> IF Mappable(r.req) THEN "cpu" ELSE "gpu", id |-> r.id,
                                    req |-> r.req, held |-> {}, mods |-> {}]]
    /\ conn' = [conn EXCEPT ![c].reqs = Tail(@)]
    /\ UNCHANGED <<sock, call, out, vk, bufs, live, calls>>

-----------------------------------------------------------------------------
(* vtest_gpu_alloc_gpu, under alloc_vk_mutex                               *)

InVk == {"image", "type", "bind"}
VkFree == \A d \in DOMAIN conn : work[d].pc \notin InVk

\* alloc_vk_init_locked: a device that was made counts as success even when
\* an entry point was missing; every other failure is remembered.
VkInit ==
    IF vk.device \/ vk.failed THEN {vk}
    ELSE { [vk EXCEPT !.failed = TRUE],
           [vk EXCEPT !.failed = TRUE, !.device = TRUE],
           [vk EXCEPT !.device = TRUE, !.usable = TRUE] }

\* Block-linear, one plane, renderable and sampled.
Renderable(f) ==
    { m \in Offered[f] : m.linear = FALSE /\ m.planes = 1 /\ {"color", "sampled"} \subseteq m.feats }
Slot(f) == { i \in DOMAIN vk.cache : vk.cache[i].format = f }

\* The image of a request, from one of the modifiers.
WithModifiers(c, mods) ==
    IF mods = {} THEN Status(c) ELSE work' = [work EXCEPT ![c].pc = "image", ![c].mods = mods]

VkFormats == DOMAIN BppOf \ {"nv12"}
Rejected(req) == req.w = 0 \/ req.h = 0 \/ req.format \notin VkFormats

\* Up to the modifiers, which are asked for once per format and kept even
\* when there are none.
AllocGpu(c) ==
    LET f == work[c].req.format
        known == Slot(f) # {}
    IN  /\ work[c].pc = "gpu" /\ Step(c) /\ UNCHANGED <<bufs, live>>
        /\ \/ Rejected(work[c].req) /\ Status(c) /\ UNCHANGED vk
           \/ /\ ~Rejected(work[c].req) /\ VkFree
              /\ \E v \in VkInit :
                    LET ready == vk.device \/ v.usable IN
                    \/ ~(ready /\ known) /\ vk' = v /\ Status(c)
                    \/ ready /\ known /\ vk' = v /\ WithModifiers(c, vk.cache[Min(Slot(f))].mods)
                    \/ /\ ready /\ ~known /\ Len(vk.cache) < MaxCache
                       /\ vk' = [v EXCEPT !.cache = Append(@, [format |-> f, mods |-> Renderable(f)])]
                       /\ WithModifiers(c, Renderable(f))
\* A call through an entry point that is missing.
Crash(c) ==
    /\ work[c].pc \in {"gpu", "bind"} /\ conn[c].server /\ vk.device /\ ~vk.usable
    /\ work[c].pc = "gpu" => VkFree /\ ~Rejected(work[c].req)
    /\ Restarted /\ UNCHANGED <<sock, call, out, calls>>

\* The label out: the handles are transient, the exported fd keeps the memory.
Out(c) == live' = Counts(live, work[c].held, -1) /\ UNCHANGED vk

CreateImage(c) ==
    /\ work[c].pc = "image" /\ Step(c)
    /\ \/ Out(c) /\ Status(c)
       \/ Makes(c, "image", "type") /\ UNCHANGED vk

\* Device-local memory, else the first type that the image can have; an
\* image that can have none fails like the allocation.
AllocateMemory(c) ==
    /\ work[c].pc = "type" /\ Step(c)
    /\ \/ Out(c) /\ Status(c)
       \/ Makes(c, "memory", "bind") /\ UNCHANGED vk

\* vkBindImageMemory .. vkGetMemoryFdKHR: the driver chose one of the
\* modifiers it was given, and the pitch of its rows.
Export(c) ==
    /\ work[c].pc = "bind" /\ Step(c) /\ Out(c)
    /\ \/ Status(c)
       \/ /\ vk.usable
          /\ \E m \in work[c].mods :
                Answer(c, [id |-> work[c].id, mod |-> m, stride |-> 0, size |-> 0, server |-> TRUE])

-----------------------------------------------------------------------------
(* vtest_gpu_alloc_cpu: a dma-buf over a memfd                             *)

RoundUp(n, k) == ((n + k - 1) \div k) * k
StrideOf(req) == RoundUp(req.w * BppOf[req.format], Align)

\* NV12 has a half-height plane of the same stride.
CpuSize(req) ==
    IF req.format = "nv12"
    THEN RoundUp(StrideOf(req) * req.h + StrideOf(req) * ((req.h + 1) \div 2), Page)
    ELSE RoundUp(StrideOf(req) * req.h, Page)

TooLarge(req) == req.w = 0 \/ req.h = 0 \/ req.w * BppOf[req.format] > Max32 - (Align - 1)
Memfd(c) ==
    /\ work[c].pc = "cpu" /\ Step(c) /\ UNCHANGED vk
    /\ \/ Status(c) /\ UNCHANGED live
       \/ ~TooLarge(work[c].req) /\ Makes(c, "memfd", "udmabuf")
\* ftruncate, the seal and open("/dev/udmabuf")
OpenUdmabuf(c) ==
    /\ work[c].pc = "udmabuf" /\ Step(c)
    /\ \/ Out(c) /\ Status(c)
       \/ Makes(c, "ufd", "create") /\ UNCHANGED vk
\* UDMABUF_CREATE; both fds are closed whatever it returns.
Create(c) ==
    /\ work[c].pc = "create" /\ Step(c) /\ Out(c)
    /\ \/ Status(c)
       \/ Answer(c, [id |-> work[c].id, mod |-> Linear, stride |-> StrideOf(work[c].req),
                     size |-> CpuSize(work[c].req), server |-> TRUE])

-----------------------------------------------------------------------------
(* The answer                                                              *)

Hung(c) == [conn EXCEPT ![c].server = FALSE, ![c].reqs = <<>>]
CloseOwn(b) == bufs' = IF b = 0 THEN bufs ELSE [bufs EXCEPT ![b].server = FALSE]

\* The response and then the fd are written; a client that has hung up ends
\* the connection.  The server's own fd is closed either way.
Respond(c) ==
    /\ work[c].pc = "resp"
    /\ IF conn[c].client
       THEN /\ conn' = [conn EXCEPT ![c].answers = Append(@, [is |-> "resp", id |-> work[c].id,
                                                              ok |-> work[c].ok])]
            /\ IF work[c].ok
               THEN work' = [work EXCEPT ![c].pc = "fd"] /\ UNCHANGED bufs
               ELSE work' = [work EXCEPT ![c] = NoWork] /\ UNCHANGED bufs
       ELSE /\ conn' = Hung(c) /\ work' = [work EXCEPT ![c] = NoWork] /\ CloseOwn(work[c].buf)
    /\ UNCHANGED <<sock, call, out, vk, live, calls>>
SendFd(c) ==
    /\ work[c].pc = "fd" /\ work' = [work EXCEPT ![c] = NoWork] /\ CloseOwn(work[c].buf)
    /\ conn' = IF conn[c].client
               THEN [conn EXCEPT ![c].answers = Append(@, [is |-> "fd", buf |-> work[c].buf])]
               ELSE Hung(c)
    /\ UNCHANGED <<sock, call, out, vk, live, calls>>

Next ==
    \/ \E req \in Requests : Begin(req)
    \/ Connect \/ Send \/ Recv \/ RecvFd \/ Reopen \/ Restart
    \/ \E c \in DOMAIN conn :
          \/ Serve(c) \/ AllocGpu(c) \/ Crash(c) \/ CreateImage(c) \/ AllocateMemory(c) \/ Export(c)
          \/ Memfd(c) \/ OpenUdmabuf(c) \/ Create(c) \/ Respond(c) \/ SendFd(c)

Spec == Init /\ [][Next]_vars

-----------------------------------------------------------------------------
\* A call returns the buffer that was made for it, described by its own
\* response: never one of an earlier call, whatever timed out, was retried
\* or was cut off by a restart of the server (vtest_wrapper.c:272-318).
ResponseIsOwn ==
    out.ret = "ok" => out.resp.id = out.id /\ bufs[out.buf].id = out.id

\* A buffer for the CPU is LINEAR; any other has a layout that the driver
\* reports for its own format and that can be rendered, which LINEAR cannot
\* (vtest_gpu_alloc.c:277-281), however the list of modifiers was cached.
LayoutOfFormat ==
    out.ret = "ok" =>
       LET m == bufs[out.buf].mod IN
       IF Mappable(out.req) THEN m.linear
       ELSE m \in Offered[out.req.format] /\ ~m.linear /\ {"color", "sampled"} \subseteq m.feats

\* Between calls a connection that is kept has nothing under way: no request
\* unanswered and no answer unread, so the next call starts in step.
InStep ==
    call = NoCall /\ sock # 0 =>
       conn[sock].reqs = <<>> /\ conn[sock].answers = <<>> /\ work[sock] = NoWork

\* The server holds handles only for requests in hand.  A buffer that no call
\* returned is gone once nobody works on it: its fd is the server's only
\* while the request is in hand, and in a stream only while the wrapper has
\* the connection open.
NothingStranded ==
    /\ \A k \in Kinds : live[k] = Cardinality({ c \in Conns : k \in work[c].held })
    /\ \A b \in DOMAIN bufs :
          bufs[b].server => \E c \in DOMAIN conn : work[c].pc \in {"resp", "fd"} /\ work[c].buf = b
    /\ \A c \in DOMAIN conn : \A i \in DOMAIN conn[c].answers :
          conn[c].answers[i].is = "fd" => conn[c].client /\ c = sock

\* minigbm computes the planes of a CPU buffer from the stride and the extent
\* alone; all of them lie inside the buffer that was made.
PlanesInside ==
    out.ret = "ok" /\ bufs[out.buf].mod.linear =>
       LET s == bufs[out.buf].stride
           rows == out.req.h + (IF out.req.format = "nv12" THEN (out.req.h + 1) \div 2 ELSE 0)
       IN  /\ s <= Max32 /\ s >= out.req.w * BppOf[out.req.format]
           /\ s * rows <= bufs[out.buf].size
=============================================================================
