---------------------------- MODULE QueueSubmit ----------------------------
(***************************************************************************)
(* vkQueueSubmit over finite rings: the submit threads Mesa starts on      *)
(* demand (rm-integration.patch, vk_queue.c) and the wait for ring space   *)
(* of the native backend (nvkmd_rm.c).  A submission runs on the caller    *)
(* when all its waits are pending, and on the queue's submit thread        *)
(* otherwise; its binary signals are then reserved when the call returns.  *)
(*                                                                         *)
(* Binary semaphores are abstracted to the submission whose signal a wait  *)
(* consumes.  Applications use Vulkan validly: calls on one queue and on   *)
(* one semaphore do not overlap, and a binary wait follows the submission  *)
(* of its signal and of all the signals that depends on.                   *)
(***************************************************************************)
EXTENDS Naturals, Sequences, FiniteSets

CONSTANTS
    Threads,    \* application threads
    Queues,
    HostTimelines, \* timelines the application signals from the CPU
    GpuTimelines, \* queues whose batches signal a timeline, named after the queue
    Binaries,   \* binary semaphores
    RingSize,   \* bound: batches a ring holds (QUEUE_ENTRIES)
    MaxSubs,    \* bound: calls of vkQueueSubmit
    MaxValue,   \* bound: timeline values
    MaxOps      \* bound: waits, and signals, of a submission

ASSUME QueueSubmitAssumption ==
    /\ GpuTimelines \subseteq Queues /\ GpuTimelines \cap HostTimelines = {}
    /\ RingSize \in Nat \ {0} /\ MaxSubs \in Nat /\ MaxValue \in Nat /\ MaxOps \in Nat

Timelines == HostTimelines \cup GpuTimelines
Ids == 1..MaxSubs
Points == Timelines \X (1..MaxValue)

VARIABLES
    subs,       \* the submissions, in the order of the calls
    returned,   \* submissions whose call has returned
    accepted,   \* submissions a ring has taken
    done,       \* submissions the GPU has finished
    host,       \* value of each host timeline
    current,    \* the submission whose signal a binary semaphore holds, or 0
    call,       \* the threads' calls
    list,       \* submissions of each queue's submit thread
    started,    \* queues with a submit thread (VK_QUEUE_SUBMIT_MODE_THREADED)
    worker,     \* where each submit thread is
    ring        \* batches in each queue's ring

vars == <<subs, returned, accepted, done, host, current, call, list, started,
          worker, ring>>

Init ==
    /\ subs = <<>> /\ returned = {} /\ accepted = {} /\ done = {}
    /\ host = [t \in HostTimelines |-> 0]
    /\ current = [s \in Binaries |-> 0]
    /\ call = [t \in Threads |-> [pc |-> "idle", sub |-> 0]]
    /\ list = [q \in Queues |-> <<>>] /\ started = {}
    /\ worker = [q \in Queues |-> "idle"]
    /\ ring = [q \in Queues |-> <<>>]

-----------------------------------------------------------------------------
(* Timelines.                                                              *)

Signalled(ids, t, v) == \E i \in ids : \E w \in v..MaxValue : <<t, w>> \in subs[i].signals

HostReached(t, v) == t \in HostTimelines /\ host[t] >= v

(* SyncObj::ready: the value is reached, or with WAIT_PENDING its signal   *)
(* is in a ring.                                                           *)
Pending(t, v) == HostReached(t, v) \/ Signalled(accepted, t, v)
Complete(t, v) == HostReached(t, v) \/ Signalled(done, t, v)

(* WAIT_PENDING on the waits of a submission; a binary one is pending from *)
(* its reservation on.                                                     *)
AllPending(i) == \A p \in subs[i].waits : Pending(p[1], p[2])

-----------------------------------------------------------------------------
(* Applications.                                                           *)

Before(i) == {j \in DOMAIN subs : subs[j].queue = subs[i].queue /\ j < i}

(* The submissions that will run with nothing more submitted: what is      *)
(* before them in their queue, and a signal for each of their waits, is    *)
(* submitted, and so for those in turn.  A cycle of waits is not grounded. *)
Ground(ids) ==
    {i \in returned :
        /\ Before(i) \subseteq ids /\ subs[i].after \subseteq ids
        /\ \A p \in subs[i].waits : HostReached(p[1], p[2]) \/ Signalled(ids, p[1], p[2])}

Grounded ==
    LET ids[n \in 0..MaxSubs] == IF n = 0 THEN {} ELSE Ground(ids[n - 1])
    IN  ids[MaxSubs]

InUse == {call[t].sub : t \in Threads} \ {0}

(* A call of vkQueueSubmit with valid arguments.                           *)
Call(t, q, waits, takes, signals, gives) ==
    /\ call[t].pc = "idle" /\ Len(subs) < MaxSubs
    /\ Cardinality(waits) + Cardinality(takes) <= MaxOps
    /\ Cardinality(signals) + Cardinality(gives) <= MaxOps
    /\ \A i \in InUse : /\ subs[i].queue # q
                        /\ (subs[i].takes \cup subs[i].gives) \cap (takes \cup gives) = {}
    /\ \A p \in signals : /\ p[1] \in GpuTimelines /\ p[1] = q
                          /\ \A i \in DOMAIN subs : \A r \in subs[i].signals : r[1] = p[1] => r[2] < p[2]
    /\ \A s \in takes : current[s] \in Grounded
    /\ \A s \in gives : current[s] = 0 \/ s \in takes
    /\ subs' = Append(subs, [queue |-> q, waits |-> waits, signals |-> signals,
                             takes |-> takes, gives |-> gives,
                             after |-> {current[s] : s \in takes}])
    /\ call' = [call EXCEPT ![t] = [pc |-> "mode", sub |-> Len(subs) + 1]]
    /\ UNCHANGED <<returned, accepted, done, host, current, list, started, worker, ring>>

(* vkSignalSemaphore.                                                      *)
HostSignal(t, tl) ==
    /\ call[t].pc = "idle" /\ host[tl] < MaxValue
    /\ host' = [host EXCEPT ![tl] = @ + 1]
    /\ UNCHANGED <<subs, returned, accepted, done, current, call, list, started, worker, ring>>

-----------------------------------------------------------------------------
(* vkQueueSubmit.                                                          *)

(* vk_queue_submit_on_caller_allowed.                                      *)
CallerAllowedMutAlways(q) == TRUE
CallerAllowed(q) == q \in started => list[q] = <<>>

(* The choice of the mode; a wait that is not pending starts the thread.   *)
Mode(t) ==
    LET i == call[t].sub
        q == subs[i].queue
        direct == CallerAllowed(q) /\ AllPending(i)
    IN  /\ call[t].pc = "mode"
        /\ call' = [call EXCEPT ![t].pc = IF direct THEN "driver" ELSE "defer"]
        /\ started' = IF direct THEN started ELSE started \cup {q}
        /\ UNCHANGED <<subs, returned, accepted, done, host, current, list, worker, ring>>

Taken(i) == [s \in Binaries |-> IF s \in subs[i].gives THEN i
                                ELSE IF s \in subs[i].takes THEN 0 ELSE current[s]]

(* The threaded branch: consume the binary waits into temporaries, reserve *)
(* the binary signals, hand the submission over.                           *)
Defer(t) ==
    LET i == call[t].sub
        q == subs[i].queue
    IN  /\ call[t].pc = "defer"
        /\ current' = Taken(i)
        /\ list' = [list EXCEPT ![q] = Append(@, i)]
        /\ returned' = returned \cup {i}
        /\ call' = [call EXCEPT ![t] = [pc |-> "idle", sub |-> 0]]
        /\ UNCHANGED <<subs, accepted, done, host, started, worker, ring>>

RingFull(q) == Len(ring[q]) >= RingSize

Accept(q, i) ==
    /\ ring' = [ring EXCEPT ![q] = Append(@, i)]
    /\ accepted' = accepted \cup {i}

(* rm_ctx_submit on the caller: full, accepted, or waiting for the oldest  *)
(* batch of the ring.                                                      *)
DriverFull(t) ==
    /\ call[t].pc = "driver" /\ RingFull(subs[call[t].sub].queue)
    /\ call' = [call EXCEPT ![t].pc = "full"]
    /\ UNCHANGED <<subs, returned, accepted, done, host, current, list, started, worker, ring>>

DriverAccept(t) ==
    LET i == call[t].sub
        q == subs[i].queue
    IN  /\ call[t].pc = "driver" /\ ~RingFull(q)
        /\ Accept(q, i)
        /\ current' = Taken(i)
        /\ returned' = returned \cup {i}
        /\ call' = [call EXCEPT ![t] = [pc |-> "idle", sub |-> 0]]
        /\ UNCHANGED <<subs, done, host, list, started, worker>>

DriverWaited(t) ==
    /\ call[t].pc = "full" /\ ~RingFull(subs[call[t].sub].queue)
    /\ call' = [call EXCEPT ![t].pc = "driver"]
    /\ UNCHANGED <<subs, returned, accepted, done, host, current, list, started, worker, ring>>

-----------------------------------------------------------------------------
(* vk_queue_submit_thread_func.                                            *)

(* WAIT_PENDING on the head of the list.                                   *)
WorkerPending(q) ==
    /\ worker[q] = "idle" /\ list[q] # <<>> /\ AllPending(Head(list[q]))
    /\ worker' = [worker EXCEPT ![q] = "driver"]
    /\ UNCHANGED <<subs, returned, accepted, done, host, current, call, list, started, ring>>

WorkerFull(q) ==
    /\ worker[q] = "driver" /\ RingFull(q)
    /\ worker' = [worker EXCEPT ![q] = "full"]
    /\ UNCHANGED <<subs, returned, accepted, done, host, current, call, list, started, ring>>

WorkerAccept(q) ==
    /\ worker[q] = "driver" /\ ~RingFull(q)
    /\ Accept(q, Head(list[q]))
    /\ worker' = [worker EXCEPT ![q] = "remove"]
    /\ UNCHANGED <<subs, returned, done, host, current, call, list, started>>

\* Mutant: the wait names the token of the submission that was refused.
WorkerWaitedMutOwn(q) ==
    /\ worker[q] = "full" /\ Head(list[q]) \in done
    /\ worker' = [worker EXCEPT ![q] = "driver"]
    /\ UNCHANGED <<subs, returned, accepted, done, host, current, call, list, started, ring>>

WorkerWaited(q) ==
    /\ worker[q] = "full" /\ ~RingFull(q)
    /\ worker' = [worker EXCEPT ![q] = "driver"]
    /\ UNCHANGED <<subs, returned, accepted, done, host, current, call, list, started, ring>>

(* The submission leaves the list only after the driver took it.           *)
WorkerRemove(q) ==
    /\ worker[q] = "remove"
    /\ list' = [list EXCEPT ![q] = Tail(@)]
    /\ worker' = [worker EXCEPT ![q] = "idle"]
    /\ UNCHANGED <<subs, returned, accepted, done, host, current, call, started, ring>>

-----------------------------------------------------------------------------
(* The GPU runs each ring in order; a batch waits for its acquires.        *)
GpuFinish(q) ==
    /\ ring[q] # <<>>
    /\ LET i == Head(ring[q])
       IN  /\ \A p \in subs[i].waits : Complete(p[1], p[2])
           /\ subs[i].after \subseteq done
           /\ done' = done \cup {i}
    /\ ring' = [ring EXCEPT ![q] = Tail(@)]
    /\ UNCHANGED <<subs, returned, accepted, host, current, call, list, started, worker>>

-----------------------------------------------------------------------------
CallStep(t) == Mode(t) \/ Defer(t) \/ DriverFull(t) \/ DriverAccept(t) \/ DriverWaited(t)
Worker(q) ==
    \/ WorkerPending(q) \/ WorkerFull(q) \/ WorkerAccept(q)
    \/ WorkerWaited(q) \/ WorkerRemove(q)

Next ==
    \/ \E t \in Threads :
         \/ CallStep(t)
         \/ \E tl \in HostTimelines : HostSignal(t, tl)
         \/ \E q \in Queues, w \in SUBSET Points, b \in SUBSET Binaries,
               s \in SUBSET Points, g \in SUBSET Binaries : Call(t, q, w, b, s, g)
    \/ \E q \in Queues : Worker(q) \/ GpuFinish(q)

(* Calls in progress, submit threads and the GPU run; nothing obliges an   *)
(* application to make another call.                                       *)
Spec == /\ Init /\ [][Next]_vars
        /\ \A t \in Threads : WF_vars(CallStep(t))
        /\ \A q \in Queues : WF_vars(Worker(q)) /\ WF_vars(GpuFinish(q))

-----------------------------------------------------------------------------
(* Properties.                                                             *)

(* The batches of a queue reach its ring, and finish, in the order of the  *)
(* calls, though some go through the submit thread and some do not, and    *)
(* none twice (vk_queue_submit, vk_queue_submit_thread_func,               *)
(* rm_ctx_submit).                                                         *)
QueueOrder ==
    [][/\ \A i \in accepted' \ accepted : Before(i)' \subseteq accepted
       /\ \A i \in done' \ done : Before(i)' \subseteq done
       /\ \A q \in Queues : Len(ring'[q]) > Len(ring[q])
                            => ring'[q][Len(ring'[q])] \notin accepted]_vars

(* vkQueueSubmit returns without another call of the application: the wait *)
(* for ring space, on the caller or on a submit thread, never depends on   *)
(* what the blocked thread would do next.                                  *)
SubmitReturns == \A t \in Threads : call[t].pc # "idle" ~> call[t].pc = "idle"

(* A deferred submission whose dependencies are all submitted reaches the  *)
(* GPU and finishes.                                                       *)
GroundedFinishes ==
    \A i \in Ids : i \in Grounded ~> i \in done

(* A submission call returns, and a submission whose waits are all         *)
(* grounded in work that was submitted or in host signals finishes         *)
(* (vk_queue_submit, the queue worker).                                    *)
SubmitsComplete == SubmitReturns /\ GroundedFinishes
=============================================================================
