------------------------------- MODULE HalAnb -------------------------------
(***************************************************************************)
(* VK_ANDROID_native_buffer in the glibc-shim HAL (hal/src/anb.c): the     *)
(* table that ties a swapchain image to the memory imported for it, and    *)
(* the pool of export fences behind vkQueueSignalReleaseImageANDROID.      *)
(* nvhal_lock protects the two arrays only; every ICD call is made outside *)
(* it, so the calls of two threads interleave at the ICD.  A job is one    *)
(* submission of the release call; a sync file stands for its job.         *)
(***************************************************************************)
EXTENDS Naturals, Sequences, FiniteSets, SequencesExt

CONSTANTS Threads, Fences, Images, Memories, MaxJobs, MaxImages

VARIABLES
    pool,       \* d->fence_pool[0 .. fence_count - 1]
    cap,        \* d->fence_cap
    fence,      \* ICD: the state of every fence
    job,        \* ICD: the submission a fence was last given to
    lost,       \* fences the HAL no longer names and has not destroyed
    running,    \* submissions the GPU has not finished
    jobs,       \* submissions so far
    given,      \* what the loader was handed: <<submission, sync file's job>>
    anb,        \* d->anb_images[0 .. anb_count - 1]
    icdImg,     \* ICD: live images
    icdMem,     \* ICD: live imported memories
    app,        \* images the loader owns
    made,       \* images created so far
    up,         \* the device exists
    th          \* what every thread is doing

vars == <<pool, cap, fence, job, lost, running, jobs, given, anb, icdImg, icdMem,
          app, made, up, th>>

release == <<pool, cap, fence, job, lost, running, jobs, given>>
images == <<anb, icdImg, icdMem, app, made>>

Idle == [pc |-> "idle", f |-> 0, j |-> 0, fd |-> 0, img |-> 0, mem |-> 0]

Init ==
    /\ pool = <<>> /\ cap = 0
    /\ fence = [f \in Fences |-> "none"] /\ job = [f \in Fences |-> 0]
    /\ lost = {} /\ running = {} /\ jobs = 0 /\ given = {}
    /\ anb = <<>> /\ icdImg = {} /\ icdMem = {} /\ app = {} /\ made = 0
    /\ up = TRUE
    /\ th = [t \in Threads |-> Idle]

At(t, pc) == up /\ th[t].pc = pc
Goto(t, r) == th' = [th EXCEPT ![t] = r]
Move(t, pc) == Goto(t, [th[t] EXCEPT !.pc = pc])
Set(f, s) == fence' = [fence EXCEPT ![f] = s]

-----------------------------------------------------------------------------
(* nvhal_QueueSignalReleaseImageANDROID *)

\* pool_get: the pop under nvhal_lock, or a new export fence from the ICD.
PoolGet(t) ==
    /\ At(t, "idle") /\ jobs < MaxJobs
    /\ \/ /\ pool # <<>>
          /\ pool' = Front(pool)
          /\ Goto(t, [Idle EXCEPT !.pc = "status", !.f = Last(pool)])
          /\ UNCHANGED fence
       \/ /\ pool = <<>>
          /\ \E f \in Fences :
                /\ fence[f] = "none"
                /\ Set(f, "idle")
                /\ Goto(t, [Idle EXCEPT !.pc = "submit", !.f = f])
          /\ UNCHANGED pool
    /\ UNCHANGED <<cap, job, lost, running, jobs, given, images, up>>


\* pool_get: the status of a pooled fence.  A signalled one is reset, or
\* destroyed when the reset fails; an error of vkGetFenceStatus returns
\* without the fence, which nothing names any more.
PoolStatus(t) ==
    LET f == th[t].f IN
    /\ At(t, "status")
    /\ \/ /\ fence[f] = "signalled"
          /\ \/ Set(f, "idle") /\ Move(t, "submit")
             \/ Set(f, "none") /\ Goto(t, Idle)
          /\ UNCHANGED lost
       \/ fence[f] # "signalled" /\ Move(t, "submit") /\ UNCHANGED <<fence, lost>>
       \/ lost' = lost \cup {f} /\ Goto(t, Idle) /\ UNCHANGED fence
    /\ UNCHANGED <<pool, cap, job, running, jobs, given, images, up>>

\* vkQueueSubmit with the fence; a failed submit puts the fence back.
QueueSubmit(t) ==
    LET f == th[t].f IN
    /\ At(t, "submit") /\ jobs < MaxJobs
    /\ \/ /\ jobs' = jobs + 1
          /\ running' = running \cup {jobs + 1}
          /\ Set(f, "pending") /\ job' = [job EXCEPT ![f] = jobs + 1]
          /\ Goto(t, [th[t] EXCEPT !.pc = "export", !.j = jobs + 1])
       \/ Move(t, "put") /\ UNCHANGED <<jobs, running, fence, job>>
    /\ UNCHANGED <<pool, cap, lost, given, images, up>>

\* The GPU finishes a submission; the fence that still carries it signals.
Complete(j) ==
    /\ up /\ j \in running
    /\ running' = running \ {j}
    /\ fence' = [f \in Fences |->
                   IF fence[f] = "pending" /\ job[f] = j THEN "signalled" ELSE fence[f]]
    /\ UNCHANGED <<pool, cap, job, lost, jobs, given, images, up, th>>

\* vkGetFenceFdKHR: the sync file carries the fence's submission.  The
\* export resets the fence; an ICD may leave a signalled one signalled.
GetFenceFd(t) ==
    LET f == th[t].f IN
    /\ At(t, "export")
    /\ \/ /\ Set(f, "idle") \/ (fence[f] = "signalled" /\ UNCHANGED fence)
          /\ Goto(t, [th[t] EXCEPT !.pc = "put", !.fd = job[f]])
       \/ Move(t, "wait") /\ UNCHANGED fence
    /\ UNCHANGED <<pool, cap, job, lost, running, jobs, given, images, up>>

\* The export failed: the pending signal is waited out and the fence reset
\* before it is pooled; a failing wait or reset loses the fence.
WaitOut(t) ==
    LET f == th[t].f IN
    /\ At(t, "wait")
    /\ \/ /\ fence[f] = "signalled"
          /\ Set(f, "idle") /\ Move(t, "put") /\ UNCHANGED lost
       \/ lost' = lost \cup {f} /\ Goto(t, Idle) /\ UNCHANGED fence
    /\ UNCHANGED <<pool, cap, job, running, jobs, given, images, up>>

\* What the call returns: a sync file only after a successful export.
Given(t) == IF th[t].fd # 0 THEN given \cup {<<th[t].j, th[t].fd>>} ELSE given

\* pool_put under nvhal_lock; a full array is doubled, and a fence that does
\* not fit is destroyed after the lock is dropped.
PoolPut(t) ==
    /\ At(t, "put")
    /\ \/ /\ pool' = Append(pool, th[t].f)
          /\ cap' = IF Len(pool) < cap THEN cap ELSE IF cap = 0 THEN 4 ELSE cap * 2
          /\ given' = Given(t) /\ Goto(t, Idle)
       \/ Len(pool) = cap /\ Move(t, "drop") /\ UNCHANGED <<pool, cap, given>>
    /\ UNCHANGED <<fence, job, lost, running, jobs, images, up>>

PoolDrop(t) ==
    /\ At(t, "drop")
    /\ Set(th[t].f, "none")
    /\ given' = Given(t) /\ Goto(t, Idle)
    /\ UNCHANGED <<pool, cap, job, lost, running, jobs, images, up>>

-----------------------------------------------------------------------------
(* nvhal_CreateImage, nvhal_DestroyImage *)

\* nvhal_anb_import: image, imported memory and binding, or nothing.  A plain
\* image of the ICD has no entry in the table.
Import(t) ==
    /\ At(t, "idle") /\ made < MaxImages
    /\ made' = made + 1
    /\ \E i \in Images \ icdImg :
          /\ icdImg' = icdImg \cup {i}
          /\ \/ /\ app' = app \cup {i} /\ UNCHANGED <<icdMem, th>>
             \/ \E m \in Memories \ icdMem :
                   /\ icdMem' = icdMem \cup {m}
                   /\ Goto(t, [Idle EXCEPT !.pc = "track", !.img = i, !.mem = m])
                   /\ UNCHANGED app
    /\ UNCHANGED <<release, anb, up>>

\* anb_track, and anb_create_image's undo when the array cannot grow.
Track(t) ==
    /\ At(t, "track")
    /\ \/ /\ anb' = Append(anb, [image |-> th[t].img, memory |-> th[t].mem])
          /\ app' = app \cup {th[t].img}
          /\ Goto(t, Idle)
       \/ Move(t, "destroy") /\ UNCHANGED <<anb, app>>
    /\ UNCHANGED <<release, icdImg, icdMem, made, up>>

\* anb_untrack: the entry found is overwritten by the last one.
Untracked(k) ==
    IF k = Len(anb) THEN Front(anb) ELSE [Front(anb) EXCEPT ![k] = Last(anb)]

\* nvhal_DestroyImage: anb_count is read without the lock ...
DestroyImage(t) ==
    /\ At(t, "idle")
    /\ \E i \in app :
          /\ app' = app \ {i}
          /\ Goto(t, [Idle EXCEPT !.pc = IF anb = <<>> THEN "destroy" ELSE "untrack",
                                  !.img = i])
    /\ UNCHANGED <<release, anb, icdImg, icdMem, made, up>>

\* ... the entry is taken out under it ...
Untrack(t) ==
    LET S == {k \in DOMAIN anb : anb[k].image = th[t].img} IN
    /\ At(t, "untrack")
    /\ IF S = {}
       THEN Move(t, "destroy") /\ UNCHANGED anb
       ELSE LET k == CHOOSE k \in S : \A l \in S : k <= l IN
            /\ anb' = Untracked(k)
            /\ Goto(t, [th[t] EXCEPT !.pc = "destroy", !.mem = anb[k].memory])
    /\ UNCHANGED <<release, icdImg, icdMem, app, made, up>>

\* ... and the image goes before its memory.
IcdDestroyImage(t) ==
    /\ At(t, "destroy")
    /\ icdImg' = icdImg \ {th[t].img}
    /\ IF th[t].mem = 0 THEN Goto(t, Idle) ELSE Move(t, "free")
    /\ UNCHANGED <<release, anb, icdMem, app, made, up>>

IcdFreeMemory(t) ==
    /\ At(t, "free")
    /\ icdMem' = icdMem \ {th[t].mem}
    /\ Goto(t, Idle)
    /\ UNCHANGED <<release, anb, icdImg, app, made, up>>

\* nvhal_anb_device_teardown in vkDestroyDevice; the application has ended
\* its other calls.
Teardown ==
    /\ up /\ \A t \in Threads : th[t].pc = "idle"
    /\ up' = FALSE
    /\ icdMem' = icdMem \ {anb[k].memory : k \in DOMAIN anb}
    /\ fence' = [f \in Fences |-> IF f \in Range(pool) THEN "none" ELSE fence[f]]
    /\ anb' = <<>> /\ pool' = <<>> /\ cap' = 0
    /\ UNCHANGED <<job, lost, running, jobs, given, icdImg, app, made, th>>

Next ==
    \/ \E t \in Threads :
          PoolGet(t) \/ PoolStatus(t) \/ QueueSubmit(t) \/ GetFenceFd(t)
             \/ WaitOut(t) \/ PoolPut(t) \/ PoolDrop(t)
             \/ Import(t) \/ Track(t) \/ DestroyImage(t) \/ Untrack(t)
             \/ IcdDestroyImage(t) \/ IcdFreeMemory(t)
    \/ \E j \in running : Complete(j)
    \/ Teardown

Spec == Init /\ [][Next]_vars

-----------------------------------------------------------------------------
HeldFences == {th[t].f : t \in Threads} \ {0}
Busy(t) == th[t].f # 0

\* Two releases on two threads never share a fence, a fence is submitted only
\* with no payload of its own, and a fence the HAL still names is pooled or
\* held, so every fence is destroyed with the device except those the two
\* error paths of pool_get and of the failed export give up (anb.c:684-791).
FencesExclusive ==
    /\ IsInjective(pool)
    /\ Range(pool) \cap HeldFences = {}
    /\ \A t, u \in Threads : t # u /\ Busy(t) => th[t].f # th[u].f
    /\ \A t \in Threads : At(t, "submit") => fence[th[t].f] = "idle"
    /\ {f \in Fences : fence[f] # "none"} = Range(pool) \cup HeldFences \cup lost

\* The sync file the loader receives signals with the very submission that
\* waited for its semaphores, never with another thread's (anb.c:741-795).
ReleaseFenceIsOwn == \A g \in given : g[1] = g[2]

\* Every imported memory lives exactly as long as its image: it is in the
\* table under a live image or in the hands of one call, although the table
\* is searched by a handle the ICD may give to another thread as soon as the
\* image is destroyed (anb.c:123-151, 471-483).
MemoryFollowsImage ==
    LET tabled == {anb[k].memory : k \in DOMAIN anb}
        inHand == {th[t].mem : t \in Threads} \ {0}
    IN  /\ icdMem = tabled \cup inHand /\ tabled \cap inHand = {}
        /\ \A k, l \in DOMAIN anb :
              k # l => anb[k].image # anb[l].image /\ anb[k].memory # anb[l].memory
        /\ \A k \in DOMAIN anb : anb[k].image \in icdImg
        /\ \A i \in icdImg : up =>
              i \in app \/ \E t \in Threads : th[t].img = i
=============================================================================
