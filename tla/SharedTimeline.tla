-------------------------- MODULE SharedTimeline ---------------------------
(***************************************************************************)
(* A timeline semaphore shared between processes through a sealed memfd    *)
(* (syncobj.rs Shared) and each process's watcher thread (watcher.rs): it  *)
(* publishes the process's finished GPU signals into the memfd and opens   *)
(* the gates of GPU work that waits for the semaphore.  A change of the    *)
(* memfd is announced by a HOST event, which reaches every process that    *)
(* listens, as the interrupt of a finished batch does.                     *)
(*                                                                         *)
(* Applications signal increasing values, in that order: value v is        *)
(* signalled once v - 1 is.                                                *)
(***************************************************************************)
EXTENDS Integers, FiniteSets, FiniteSetsExt

CONSTANTS
    Procs,
    Signallers, \* processes whose batches or threads signal
    GpuWaiters, \* processes that submit batches waiting for the semaphore
    MaxValue,   \* bound: values signalled
    MaxQueries  \* bound: status queries of each process

ASSUME SharedAssumption ==
    /\ Signallers \subseteq Procs /\ GpuWaiters \subseteq Procs
    /\ MaxValue \in Nat /\ MaxQueries \in Nat

Values == 1..MaxValue

VARIABLES
    completed, \* memfd word: published value
    pending,   \* memfd word: highest value submitted
    error,     \* memfd word: the producer failed
    points,    \* each process's GPU signals still to publish
    publish,   \* whether the watcher has the payload on its publish list
    gates,     \* values for which the watcher holds a gate
    opened,    \* gates that let their batch run
    wake,      \* the watcher's eventfd
    host,      \* readiness of the watcher's HOST listener
    watcher,   \* the watcher thread: where it is, what its poll observed
    call,      \* the submission in progress
    owing,     \* another thread's call is about to broadcast
    queries,   \* status queries left
    lost,      \* the process's device is lost
    done,      \* values whose signal operation has happened
    announced, \* completed when it was last broadcast
    irq        \* interrupts of finished batches not delivered yet

vars == <<completed, pending, error, points, publish, gates, opened, wake, host,
          watcher, call, owing, queries, lost, done, irq, announced>>

Off == [pc |-> "off", host |-> FALSE, owed |-> FALSE]
NoCall == [pc |-> "none", value |-> 0]

Init ==
    /\ completed = 0 /\ pending = 0 /\ error = FALSE
    /\ points = [p \in Procs |-> {}] /\ publish = [p \in Procs |-> FALSE]
    /\ gates = [p \in Procs |-> {}] /\ opened = {}
    /\ wake = [p \in Procs |-> FALSE] /\ host = [p \in Procs |-> FALSE]
    /\ watcher = [p \in Procs |-> Off] /\ call = [p \in Procs |-> NoCall]
    /\ owing = [p \in Procs |-> FALSE]
    /\ queries = [p \in Procs |-> MaxQueries] /\ lost = [p \in Procs |-> FALSE]
    /\ done = {} /\ irq = {} /\ announced = 0

At(p, pc) == watcher[p].pc = pc
Idle(p) == call[p] = NoCall

(* ensure_started: the thread starts with the first registration.          *)
Started(p) == IF At(p, "off") THEN [watcher EXCEPT ![p].pc = "snapshot"] ELSE watcher

(* A HOST event reaches the listeners, opened before the first             *)
(* registration (ensure_watcher_host).                                     *)
HostEvent == host' = [p \in Procs |-> host[p] \/ ~At(p, "off")]

(* Shared::refresh: finished local points raise the word and are dropped.  *)
Refreshed(p) == Max({completed} \cup (points[p] \cap done))
Refresh(p) ==
    /\ completed' = Refreshed(p)
    /\ points' = [points EXCEPT ![p] = {v \in @ : v > Refreshed(p)}]

-----------------------------------------------------------------------------
(* The API side.                                                           *)

(* A batch that signals the next value is accepted: the GPU may run it.    *)
SubmitSignal(p) ==
    /\ p \in Signallers /\ Idle(p) /\ ~lost[p] /\ pending < MaxValue
    /\ \A q \in Procs : call[q].pc # "add_point"
    /\ call' = [call EXCEPT ![p] = [pc |-> "add_point", value |-> pending + 1]]
    /\ UNCHANGED <<completed, pending, error, points, publish, gates, opened, wake, host,
                   watcher, owing, queries, lost, done, irq, announced>>

(* Phase 3 of the submission: add_point, ...                               *)
AddPoint(p) ==
    /\ call[p].pc = "add_point"
    /\ points' = [points EXCEPT ![p] = @ \cup {call[p].value}]
    /\ pending' = Max({pending, call[p].value})
    /\ call' = [call EXCEPT ![p].pc = "publish"]
    /\ UNCHANGED <<completed, error, publish, gates, opened, wake, host, watcher,
                   owing, queries, lost, done, irq, announced>>

(* ... then Watcher::publish, which waits while the watcher services.      *)
PublishWakes(p) == ~publish[p]

Publish(p) ==
    /\ call[p].pc = "publish" /\ ~At(p, "service") /\ ~At(p, "retain")
    /\ watcher' = Started(p)
    /\ wake' = [wake EXCEPT ![p] = @ \/ PublishWakes(p)]
    /\ publish' = [publish EXCEPT ![p] = TRUE]
    /\ call' = [call EXCEPT ![p] = NoCall]
    /\ UNCHANGED <<completed, pending, error, points, gates, opened, host, owing, queries,
                   lost, done, irq, announced>>

(* A batch waiting for v: the refresh of plan_wait, then a gate unless the *)
(* value is reached.                                                       *)
PlanWait(p, v) ==
    /\ p \in GpuWaiters /\ Idle(p) /\ ~lost[p] /\ ~error /\ v \notin gates[p]
    /\ <<p, v>> \notin opened
    /\ Refresh(p)
    /\ call' = IF Refreshed(p) >= v THEN call
               ELSE [call EXCEPT ![p] = [pc |-> "gate", value |-> v]]
    /\ UNCHANGED <<pending, error, publish, gates, opened, wake, host, watcher,
                   owing, queries, lost, done, irq, announced>>

GateWakes(p) == [wake EXCEPT ![p] = TRUE]

Gate(p) ==
    /\ call[p].pc = "gate" /\ ~At(p, "service") /\ ~At(p, "retain")
    /\ watcher' = Started(p)
    /\ gates' = [gates EXCEPT ![p] = @ \cup {call[p].value}]
    /\ wake' = GateWakes(p)
    /\ call' = [call EXCEPT ![p] = NoCall]
    /\ UNCHANGED <<completed, pending, error, points, publish, opened, host, owing, queries,
                   lost, done, irq, announced>>

(* nv_rm_sync_value or a status query: refresh, and a broadcast if owed.   *)
Query(p) ==
    /\ ~owing[p] /\ ~lost[p] /\ queries[p] > 0
    /\ queries' = [queries EXCEPT ![p] = @ - 1]
    /\ Refresh(p)
    /\ owing' = [owing EXCEPT ![p] = completed' # completed]
    /\ UNCHANGED <<pending, error, publish, gates, opened, wake, host, watcher, call,
                   lost, done, irq, announced>>

(* nv_rm_sync_signal: a thread signals the next value.                     *)
CpuSignal(p) ==
    /\ p \in Signallers /\ ~owing[p] /\ ~lost[p] /\ pending < MaxValue
    /\ \A q \in Procs : call[q].pc # "add_point"
    /\ done = 1..pending
    /\ pending' = pending + 1 /\ completed' = pending + 1
    /\ done' = done \cup {pending + 1}
    /\ owing' = [owing EXCEPT ![p] = TRUE]
    /\ UNCHANGED <<error, points, publish, gates, opened, wake, host, watcher, call,
                   queries, lost, irq, announced>>

(* Bridge::broadcast.                                                      *)
Trigger(p) ==
    /\ owing[p]
    /\ HostEvent
    /\ announced' = completed
    /\ owing' = [owing EXCEPT ![p] = FALSE]
    /\ UNCHANGED <<completed, pending, error, points, publish, gates, opened, wake,
                   watcher, call, queries, lost, done, irq>>

(* The device is lost: mark_lost wakes the watcher.                        *)
Lose(p) ==
    /\ ~lost[p]
    /\ lost' = [lost EXCEPT ![p] = TRUE]
    /\ wake' = [wake EXCEPT ![p] = TRUE]
    /\ UNCHANGED <<completed, pending, error, points, publish, gates, opened, host,
                   watcher, call, owing, queries, done, irq, announced>>

-----------------------------------------------------------------------------
(* The GPU: a batch finishes, its interrupt follows.                       *)

InFlight(v) ==
    \E p \in Procs : /\ ~lost[p]
                     /\ v \in points[p] \/ (call[p].pc \in {"add_point", "publish"}
                                            /\ call[p].value = v)

GpuRelease(v) ==
    /\ InFlight(v) /\ v \notin done /\ 1..(v - 1) \subseteq done
    /\ done' = done \cup {v} /\ irq' = irq \cup {v}
    /\ UNCHANGED <<completed, pending, error, points, publish, gates, opened, wake, host,
                   watcher, call, owing, queries, lost, announced>>

GpuInterrupt(v) ==
    /\ v \in irq
    /\ HostEvent
    /\ irq' = irq \ {v}
    /\ UNCHANGED <<completed, pending, error, points, publish, gates, opened, wake,
                   watcher, call, owing, queries, lost, done, announced>>

-----------------------------------------------------------------------------
(* The watcher thread.                                                     *)

Goto(p, pc) == [watcher EXCEPT ![p].pc = pc]

(* run: the descriptors to poll, the HOST listener only while needed.      *)
Snapshot(p) ==
    /\ At(p, "snapshot")
    /\ watcher' = [watcher EXCEPT ![p] = [pc |-> "poll", owed |-> FALSE,
                                          host |-> publish[p] \/ gates[p] # {}]]
    /\ UNCHANGED <<completed, pending, error, points, publish, gates, opened, wake, host,
                   call, owing, queries, lost, done, irq, announced>>

(* dispatch: the poll itself consumes the readiness it reports.            *)
DrainedMutKept(p) == wake
Drained(p) == [wake EXCEPT ![p] = FALSE]

Poll(p) ==
    /\ At(p, "poll") /\ (wake[p] \/ (watcher[p].host /\ host[p]))
    /\ wake' = Drained(p)
    /\ host' = [host EXCEPT ![p] = @ /\ ~watcher[p].host]
    /\ watcher' = Goto(p, "service")
    /\ UNCHANGED <<completed, pending, error, points, publish, gates, opened, call,
                   owing, queries, lost, done, irq, announced>>

AfterMutQuiet(p, owed) == [watcher EXCEPT ![p].pc = "snapshot", ![p].owed = FALSE]
After(p, owed) == [watcher EXCEPT ![p].pc = IF owed THEN "trigger" ELSE "snapshot",
                                  ![p].owed = FALSE]

(* service after loss, Watcher::fail_all.                                  *)
FailAll(p) ==
    /\ At(p, "service") /\ lost[p]
    /\ IF publish[p] /\ points[p] # {}
       THEN Refresh(p) /\ error' = TRUE /\ watcher' = After(p, ~error)
       ELSE UNCHANGED <<completed, points, error>> /\ watcher' = After(p, FALSE)
    /\ publish' = [publish EXCEPT ![p] = FALSE]
    /\ gates' = [gates EXCEPT ![p] = {}]
    /\ UNCHANGED <<pending, opened, wake, host, call, owing, queries, lost, done, irq, announced>>

(* service: the publish list is refreshed, ...                             *)
ServicePublish(p) ==
    /\ At(p, "service") /\ ~lost[p]
    /\ IF publish[p] THEN Refresh(p) ELSE UNCHANGED <<completed, points>>
    /\ watcher' = [watcher EXCEPT ![p].pc = "retain", ![p].owed = completed' # completed]
    /\ UNCHANGED <<pending, error, publish, gates, opened, wake, host, call, owing, queries,
                   lost, done, irq, announced>>

(* ... kept while it has local work, and the gates are opened or failed.   *)
Openable(p) == {v \in gates[p] : v <= completed'}

StillLocalMutNever(p) == FALSE
StillLocal(p) == points[p] # {}

ServiceGates(p) ==
    /\ At(p, "retain")
    /\ publish' = [publish EXCEPT ![p] = @ /\ StillLocal(p)]
    /\ IF gates[p] = {} THEN UNCHANGED <<completed, points>> ELSE Refresh(p)
    /\ LET failed == error /\ gates[p] \ Openable(p) # {}
       IN /\ opened' = opened \cup {<<p, v>> : v \in Openable(p)}
          /\ gates' = [gates EXCEPT ![p] = IF error THEN {} ELSE @ \ Openable(p)]
          /\ lost' = [lost EXCEPT ![p] = @ \/ failed]
          /\ wake' = [wake EXCEPT ![p] = @ \/ (failed /\ ~lost[p])]
    /\ watcher' = After(p, watcher[p].owed \/ completed' # completed)
    /\ UNCHANGED <<pending, error, host, call, owing, queries, done, irq, announced>>

WatcherTrigger(p) ==
    /\ At(p, "trigger")
    /\ HostEvent
    /\ announced' = completed
    /\ watcher' = Goto(p, "snapshot")
    /\ UNCHANGED <<completed, pending, error, points, publish, gates, opened, wake, call,
                   owing, queries, lost, done, irq>>

WatcherStep(p) ==
    \/ Snapshot(p) \/ Poll(p) \/ FailAll(p) \/ ServicePublish(p) \/ ServiceGates(p)
    \/ WatcherTrigger(p)

CallStep(p) == AddPoint(p) \/ Publish(p) \/ Gate(p)

GpuStep == \E v \in Values : GpuRelease(v) \/ GpuInterrupt(v)

Next ==
    \/ \E p \in Procs : \/ SubmitSignal(p) \/ Query(p) \/ CpuSignal(p) \/ Lose(p)
                        \/ CallStep(p) \/ Trigger(p) \/ WatcherStep(p)
                        \/ \E v \in Values : PlanWait(p, v)
    \/ GpuStep

(* A call in progress returns, a watcher thread keeps running, batches     *)
(* that are not blocked finish.  Nothing obliges an application to make    *)
(* another call.                                                           *)
Fairness ==
    /\ \A p \in Procs : WF_vars(CallStep(p)) /\ WF_vars(Trigger(p)) /\ WF_vars(WatcherStep(p))
    /\ WF_vars(GpuStep)

Spec == Init /\ [][Next]_vars /\ Fairness

-----------------------------------------------------------------------------
(* Properties.                                                             *)

(* The shared word never runs ahead: every value it covers has been        *)
(* signalled, by a finished batch or by a thread (Shared::refresh).        *)
CompletedTruth == 1..completed \subseteq done

(* A gate opens only once its value has been signalled; work waiting for a *)
(* failed producer never runs (watcher.rs service).                        *)
GateTruth == \A g \in opened : g[2] \in done

(* A point is dropped only once its value is published or its failure is   *)
(* announced: no process forgets a signal others wait for (Shared::refresh *)
(* and Watcher::fail_all).                                                 *)
NoPointForgotten ==
    \A v \in 1..pending :
        v > completed => \E p \in Procs :
            /\ v \in points[p]
            /\ \/ publish[p] \/ error
               \/ call[p].pc = "publish"
               \/ lost[p]

(* The word shared between processes runs behind the signals, a gate opens *)
(* after its value's signal, and no finished value is forgotten.           *)
SharedTruth == CompletedTruth /\ GateTruth /\ NoPointForgotten

(* A finished signal of this process is published, unless its device is    *)
(* lost: the watcher gets to know of it by an interrupt or by its wakeup   *)
(* (SYNCHRONIZATION.md: "local GPU points are published by caller paths    *)
(* and the watcher").                                                      *)
PointsPublished ==
    \A p \in Procs, v \in Values :
        (v \in points[p] /\ v \in done) ~> (completed >= v \/ lost[p])

(* A change of the shared word is followed by a HOST broadcast             *)
(* (Shared::refresh: "the caller then broadcasts HOST once"), unless the   *)
(* payload failed, which released everyone.                                *)
Announced == \A v \in Values : (completed >= v) ~> (announced >= v \/ error)

(* Work gated on a value that has been signalled runs, or its device is    *)
(* lost: no wakeup of the watcher is missed.                               *)
GateOpens ==
    \A p \in Procs, v \in Values :
        (v \in gates[p] /\ v \in done) ~> (<<p, v>> \in opened \/ lost[p])

(* Work gated on a value whose producer failed ends in device loss, never  *)
(* in an endless wait.                                                     *)
FailureReaches ==
    \A p \in Procs : (gates[p] # {} /\ error) ~> (gates[p] = {})

(* The watcher comes to rest: it does not spin on descriptors it does not  *)
(* consume ("Idle otherwise: blocked in poll with no timeout").            *)
ComesToRest == \A p \in Procs : <>[](At(p, "off") \/ (At(p, "poll") /\ ~ENABLED Poll(p)))

=============================================================================
