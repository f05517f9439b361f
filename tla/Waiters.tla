------------------------------ MODULE Waiters ------------------------------
(***************************************************************************)
(* CPU waits (waiters.rs, Bridge::wait_until, Core::mark_lost): of the     *)
(* threads that wait, one at a time leads and polls the device; the others *)
(* sleep on a condition variable.  Signallers store a value and notify();  *)
(* the GPU writes a word and raises the HOST event, whose kernel flag poll *)
(* reads and clears; device loss is published by mark_lost.                *)
(*                                                                         *)
(* Every atomic operation of the source is a step of its own.  Three       *)
(* counters are modelled by what the code tests of them: `registered' and  *)
(* `followers' (fetch_add/fetch_sub by the same thread, compared with 0)   *)
(* are sets of threads, and `generation' (u64, compared for equality with  *)
(* an earlier load) is the set of threads whose load is still current.     *)
(***************************************************************************)
EXTENDS Naturals

CONSTANTS
    Waiting,    \* threads that call wait
    CpuEvents,  \* threads that signal a value each, or find the device lost
    GpuEvents,  \* words written by the GPU, each followed by one interrupt
    Needs,      \* the value each waiter's predicate reads
    Timed,      \* waiters with a deadline
    None

ASSUME WaitersAssumption ==
    /\ Needs \in [Waiting -> CpuEvents \cup GpuEvents]
    /\ Timed \subseteq Waiting
    /\ None \notin Waiting \cup CpuEvents \cup GpuEvents
    /\ Waiting \cap (CpuEvents \cup GpuEvents) = {} /\ CpuEvents \cap GpuEvents = {}

Threads == Waiting \cup CpuEvents \cup GpuEvents

(* For model checking: no two waiters read the same value.                 *)
DistinctNeeds ==
    CHOOSE f \in [Waiting -> CpuEvents \cup GpuEvents] :
        \A v, w \in Waiting : f[v] = f[w] => v = w

VARIABLES
    pc,         \* where each thread is
    result,     \* what each waiter is about to return: "none", "true", "false", "err"
    registered, \* waiters counted in Waiters.registered
    followers,  \* waiters counted in Waiters.followers
    leader,     \* the waiter that set Waiters.leader (None: false)
    current,    \* waiters whose loaded generation equals Waiters.generation
    mutex,      \* holder of Waiters.lock
    wake,       \* the private eventfd is readable
    host,       \* the HOST descriptor's flag, kept by the kernel until polled
    ready,      \* the values stored so far
    lost        \* Core.lost

vars == <<pc, result, registered, followers, leader, current, mutex, wake, host, ready, lost>>

waiterVars == <<result, registered, followers, leader, mutex>>
deviceVars == <<wake, host, ready, lost>>

Labels == {"start", "load", "predicate", "claim", "recheck", "poll", "drain", "drainScan",
           "scan", "drop", "bump", "bumpLoad", "bumpLock", "follow", "lock",
           "checkGen", "checkLeader", "asleep", "unfollow", "unregister", "mark",
           "store", "notify", "notifyLeader", "wake", "interrupt", "done"}

Init ==
    /\ pc = [t \in Threads |-> IF t \in Waiting THEN "start" ELSE "store"]
    /\ result = [w \in Waiting |-> "none"]
    /\ registered = {} /\ followers = {} /\ leader = None /\ current = {} /\ mutex = None
    /\ wake = FALSE /\ host = FALSE /\ ready = {} /\ lost = FALSE

Goto(t, l) == pc' = [pc EXCEPT ![t] = l]

Satisfied(w) == lost \/ Needs[w] \in ready

-----------------------------------------------------------------------------
(* wait: registration, the Dekker load and the predicate.                  *)

Register(w) ==
    /\ pc[w] = "start"
    /\ registered' = registered \cup {w}
    /\ Goto(w, "load")
    /\ UNCHANGED <<result, followers, leader, current, mutex, deviceVars>>

LoadGeneration(w) ==
    /\ pc[w] = "load"
    /\ current' = current \cup {w}
    /\ Goto(w, "predicate")
    /\ UNCHANGED <<waiterVars, deviceVars>>

Return(w, r) ==
    /\ result' = [result EXCEPT ![w] = r]
    /\ Goto(w, "unregister")

(* The predicate of wait_until: core.live()? first, then the value.        *)
Predicate(w) ==
    /\ pc[w] = "predicate"
    /\ \/ lost /\ Return(w, "err")
       \/ ~lost /\ Needs[w] \in ready /\ Return(w, "true")
       \/ ~lost /\ Needs[w] \notin ready /\ Goto(w, "claim") /\ UNCHANGED result
    /\ UNCHANGED <<registered, followers, leader, current, mutex, deviceVars>>

DeadlinePassed(w) ==
    /\ pc[w] = "claim" /\ w \in Timed
    /\ Return(w, "false")
    /\ UNCHANGED <<registered, followers, leader, current, mutex, deviceVars>>

Claim(w) ==
    /\ pc[w] = "claim"
    /\ \/ leader = None /\ leader' = w /\ Goto(w, "recheck")
       \/ leader # None /\ Goto(w, "follow") /\ UNCHANGED leader
    /\ UNCHANGED <<result, registered, followers, current, mutex, deviceVars>>

-----------------------------------------------------------------------------
(* The leader.                                                             *)

Recheck(w) ==
    /\ pc[w] = "recheck"
    /\ Goto(w, IF w \in current THEN "poll" ELSE "drop")
    /\ UNCHANGED <<waiterVars, current, deviceVars>>

(* poll returns because a descriptor is readable; evaluating the HOST      *)
(* descriptor clears its flag.                                             *)
PollEvent(w) ==
    /\ pc[w] = "poll" /\ (wake \/ host)
    /\ host' = FALSE
    /\ Goto(w, IF wake THEN "drain" ELSE "drop")
    /\ UNCHANGED <<waiterVars, current, wake, ready, lost>>

(* The caller's deadline ends the poll.                                    *)
PollDeadline(w) ==
    /\ pc[w] = "poll" /\ w \in Timed /\ ~wake /\ ~host
    /\ Goto(w, "drop")
    /\ UNCHANGED <<waiterVars, current, deviceVars>>

(* RC readiness, EINTR or the scan period, before or during the poll: an   *)
(* interrupted poll may or may not have evaluated (and cleared) HOST.      *)
PollScan(w) ==
    /\ \/ pc[w] = "recheck" /\ w \in current /\ UNCHANGED host /\ Goto(w, "scan")
       \/ pc[w] = "poll" /\ host' \in {host, FALSE} /\ Goto(w, "drainScan")
       \/ pc[w] = "poll" /\ ~wake /\ host' = FALSE /\ Goto(w, "scan")
    /\ UNCHANGED <<waiterVars, current, wake, ready, lost>>

(* HUP or ERR on an RM descriptor, or a failed ppoll.                      *)
PollFails(w) ==
    /\ pc[w] = "poll"
    /\ host' = FALSE
    /\ result' = [result EXCEPT ![w] = "err"]
    /\ Goto(w, "drop")
    /\ UNCHANGED <<registered, followers, leader, mutex, current, wake, ready, lost>>

Drain(w) ==
    /\ pc[w] \in {"drain", "drainScan"}
    /\ wake' = FALSE
    /\ Goto(w, IF pc[w] = "drain" THEN "drop" ELSE "scan")
    /\ UNCHANGED <<waiterVars, current, host, ready, lost>>

(* scan_locked: the channels are well, or the device is lost; mark_lost    *)
(* broadcasts only on its first publication.                               *)
Scan(w) ==
    /\ pc[w] = "scan" /\ ~lost
    /\ Goto(w, "drop")
    /\ UNCHANGED <<waiterVars, current, deviceVars>>

ScanFinds(w) ==
    /\ pc[w] = "scan"
    /\ lost' = TRUE
    /\ result' = [result EXCEPT ![w] = "err"]
    /\ Goto(w, IF lost THEN "drop" ELSE "bump")
    /\ UNCHANGED <<registered, followers, leader, mutex, current, wake, host, ready>>

DropLeadership(w) ==
    /\ pc[w] = "drop"
    /\ leader' = None
    /\ Goto(w, "bump")
    /\ UNCHANGED <<result, registered, followers, mutex, current, deviceVars>>

-----------------------------------------------------------------------------
(* bump, shared by everyone who wakes waiters; AfterBump is where its      *)
(* caller continues: the leader that published loss drops its leadership,  *)
(* broadcast writes the eventfd, notify looks at the leader flag.          *)

AfterBump(t) ==
    IF t \in Waiting
    THEN IF leader = t THEN "wake"
         ELSE IF result[t] = "none" THEN "load"
         ELSE IF t \in registered THEN "unregister" ELSE "wake"
    ELSE IF t \in ready THEN "notifyLeader" ELSE "wake"

Bump(t) ==
    /\ pc[t] = "bump"
    /\ current' = {}
    /\ Goto(t, "bumpLoad")
    /\ UNCHANGED <<waiterVars, deviceVars>>

BumpLoad(t) ==
    /\ pc[t] = "bumpLoad"
    /\ Goto(t, IF followers = {} THEN AfterBump(t) ELSE "bumpLock")
    /\ UNCHANGED <<waiterVars, current, deviceVars>>

(* lock, notify_all, unlock: every sleeper goes to reacquire the mutex.    *)
BumpNotify(t) ==
    /\ pc[t] = "bumpLock" /\ mutex = None
    /\ pc' = [u \in Threads |-> IF u = t THEN AfterBump(t)
                                ELSE IF pc[u] = "asleep" THEN "lock" ELSE pc[u]]
    /\ UNCHANGED <<waiterVars, current, deviceVars>>

-----------------------------------------------------------------------------
(* A follower.                                                             *)

Follow(w) ==
    /\ pc[w] = "follow"
    /\ followers' = followers \cup {w}
    /\ Goto(w, "lock")
    /\ UNCHANGED <<result, registered, leader, mutex, current, deviceVars>>

Lock(w) ==
    /\ pc[w] = "lock" /\ mutex = None
    /\ mutex' = w
    /\ Goto(w, "checkGen")
    /\ UNCHANGED <<result, registered, followers, leader, current, deviceVars>>

CheckGenMutNone(w) ==
    /\ pc[w] = "checkGen"
    /\ Goto(w, "checkLeader") /\ UNCHANGED mutex
    /\ UNCHANGED <<result, registered, followers, leader, current, deviceVars>>

CheckGen(w) ==
    /\ pc[w] = "checkGen"
    /\ \/ w \notin current /\ mutex' = None /\ Goto(w, "unfollow")
       \/ w \in current /\ Goto(w, "checkLeader") /\ UNCHANGED mutex
    /\ UNCHANGED <<result, registered, followers, leader, current, deviceVars>>

(* No leader, or a deadline that has passed: stop following.  Otherwise    *)
(* release the mutex and sleep in one step.                                *)
CheckLeader(w) ==
    /\ pc[w] = "checkLeader"
    /\ mutex' = None
    /\ Goto(w, IF leader = None THEN "unfollow" ELSE "asleep")
    /\ UNCHANGED <<result, registered, followers, leader, current, deviceVars>>

FollowerDeadline(w) ==
    /\ pc[w] = "checkLeader" /\ w \in Timed
    /\ mutex' = None
    /\ Goto(w, "unfollow")
    /\ UNCHANGED <<result, registered, followers, leader, current, deviceVars>>

(* wait_timeout expires, or a spurious wake of the condition variable.     *)
SleepEnds(w) ==
    /\ pc[w] = "asleep"
    /\ Goto(w, "lock")
    /\ UNCHANGED <<waiterVars, current, deviceVars>>

UnfollowMutNoPredicate(w) ==
    /\ pc[w] = "unfollow"
    /\ followers' = followers \ {w}
    /\ Goto(w, "follow")
    /\ UNCHANGED <<result, registered, leader, mutex, current, deviceVars>>

Unfollow(w) ==
    /\ pc[w] = "unfollow"
    /\ followers' = followers \ {w}
    /\ Goto(w, "load")
    /\ UNCHANGED <<result, registered, leader, mutex, current, deviceVars>>

-----------------------------------------------------------------------------
(* Leaving wait; wait_until publishes the loss an error stands for.        *)

Unregister(w) ==
    /\ pc[w] = "unregister"
    /\ registered' = registered \ {w}
    /\ Goto(w, IF result[w] = "err" THEN "mark" ELSE "done")
    /\ UNCHANGED <<result, followers, leader, mutex, current, deviceVars>>

MarkLost(w) ==
    /\ pc[w] = "mark"
    /\ lost' = TRUE
    /\ Goto(w, IF lost THEN "done" ELSE "bump")
    /\ UNCHANGED <<waiterVars, current, wake, host, ready>>

-----------------------------------------------------------------------------
(* Signallers, one of which may call mark_lost instead, and the GPU.       *)

Store(t) ==
    /\ pc[t] = "store"
    /\ \/ t \in CpuEvents \cup GpuEvents /\ ready' = ready \cup {t} /\ UNCHANGED lost
          /\ Goto(t, IF t \in CpuEvents THEN "notify" ELSE "interrupt")
       \/ t \in CpuEvents /\ lost' = TRUE /\ UNCHANGED ready
          /\ Goto(t, IF lost THEN "done" ELSE "bump")
    /\ UNCHANGED <<waiterVars, current, wake, host>>

Notify(s) ==
    /\ pc[s] = "notify"
    /\ Goto(s, IF registered = {} THEN "done" ELSE "bump")
    /\ UNCHANGED <<waiterVars, current, deviceVars>>

NotifyLeader(s) ==
    /\ pc[s] = "notifyLeader"
    /\ Goto(s, IF leader = None THEN "done" ELSE "wake")
    /\ UNCHANGED <<waiterVars, current, deviceVars>>

Wake(t) ==
    /\ pc[t] = "wake"
    /\ wake' = TRUE
    /\ Goto(t, IF leader = t THEN "drop" ELSE "done")
    /\ UNCHANGED <<waiterVars, current, host, ready, lost>>

Interrupt(g) ==
    /\ pc[g] = "interrupt"
    /\ host' = TRUE
    /\ Goto(g, "done")
    /\ UNCHANGED <<waiterVars, current, wake, ready, lost>>

-----------------------------------------------------------------------------
(* Progress is what a thread does by itself; Chance is what may happen to  *)
(* it: deadlines, spurious wakes, interrupted or failing polls.            *)

WaiterProgress(w) ==
    \/ Register(w) \/ LoadGeneration(w) \/ Predicate(w) \/ Claim(w) \/ Recheck(w)
    \/ PollEvent(w) \/ Drain(w) \/ Scan(w) \/ ScanFinds(w) \/ DropLeadership(w)
    \/ Follow(w) \/ Lock(w) \/ CheckGen(w) \/ CheckLeader(w) \/ Unfollow(w)
    \/ Unregister(w) \/ MarkLost(w)

WaiterChance(w) ==
    \/ DeadlinePassed(w) \/ PollDeadline(w) \/ PollScan(w) \/ PollFails(w)
    \/ FollowerDeadline(w) \/ SleepEnds(w)

BumpProgress(t) == Bump(t) \/ BumpLoad(t) \/ BumpNotify(t) \/ Wake(t)

SignalProgress(t) == Store(t) \/ Notify(t) \/ NotifyLeader(t) \/ Interrupt(t)

Progress(t) ==
    \/ t \in Waiting /\ WaiterProgress(t)
    \/ t \notin Waiting /\ SignalProgress(t)
    \/ BumpProgress(t)

Next ==
    \/ \E t \in Threads : Progress(t)
    \/ \E w \in Waiting : WaiterChance(w)

Spec == Init /\ [][Next]_vars

(* Every thread is scheduled, and a thread waiting for the mutex gets it   *)
(* if it is free again and again.  A signaller need not ever start.        *)
Fairness ==
    /\ \A t \in Threads : WF_vars(pc[t] # "store" /\ Progress(t))
    /\ \A w \in Waiting : SF_vars(Lock(w))
    /\ \A t \in Threads \ GpuEvents : SF_vars(BumpNotify(t))

FairSpec == Spec /\ Fairness

-----------------------------------------------------------------------------
(* Properties.                                                             *)

(* Type invariant of the wait state of waiters.rs and mesa.rs Core: only   *)
(* registered threads lead or follow, and only a follower holds the lock,  *)
(* on the error paths of wait too.                                         *)
TypeOK ==
    /\ pc \in [Threads -> Labels]
    /\ result \in [Waiting -> {"none", "true", "false", "err"}]
    /\ registered \subseteq Waiting /\ followers \subseteq registered
    /\ leader \in registered \cup {None} /\ mutex \in followers \cup {None}
    /\ current \subseteq Waiting
    /\ ready \subseteq CpuEvents \cup GpuEvents
    /\ wake \in BOOLEAN /\ host \in BOOLEAN /\ lost \in BOOLEAN

Polling(t) == pc[t] \in {"poll", "drain", "drainScan", "scan"}
Waking(t) == pc[t] \in {"bump", "bumpLoad", "bumpLock"}

(* wait: "exactly one waiting thread at a time (the leader) polls the      *)
(* device HOST and RC descriptors": two pollers would steal each other's   *)
(* readiness.                                                              *)
SinglePoller ==
    \A v, w \in Waiting : Polling(v) /\ Polling(w) => v = w

(* Whenever a follower sleeps, somebody will wake it in time.  If nobody    *)
(* leads (Leadership::drop releases the flag before it wakes the others),  *)
(* some thread is on its way to notify_all.  If the predicate of the       *)
(* sleeper holds, some thread is between its store and its notify_all, or  *)
(* the HOST event will bring the leader out of poll, or the leader is      *)
(* already on its way to the bump.                                         *)
AsleepIsCovered ==
    \A w \in Waiting : pc[w] = "asleep" =>
        /\ leader = None => \E t \in Threads : Waking(t)
        /\ Satisfied(w) =>
              \/ host
              \/ \E t \in Threads :
                    Waking(t) \/ pc[t] \in {"notify", "interrupt", "drain", "drainScan", "scan", "drop"}

Notified(w) == lost \/ Needs[w] \in ready \cap CpuEvents

WillInterruptPoll ==
    \/ wake \/ host
    \/ \E t \in Threads :
          \/ pc[t] \in {"notify", "interrupt", "wake", "notifyLeader"}
          \/ Waking(t) /\ (t \notin Waiting \/ t \notin registered)

(* The Dekker pair of notify and wait: a leader that blocks in poll        *)
(* although its CPU value was stored or the device was lost has a readable *)
(* descriptor, or some thread is still on its way to writing the eventfd.  *)
NotifyReachesPoll ==
    \A w \in Waiting : pc[w] = "poll" /\ Notified(w) => WillInterruptPoll

(* Every wait is watched: one waiter at a time polls the device for all    *)
(* (the leader flag of wait), a follower sleeps only while somebody leads  *)
(* or its wake is on the way, and a notification made while the leader is  *)
(* about to poll reaches that poll.                                        *)
EveryWaitIsWatched == SinglePoller /\ AsleepIsCovered /\ NotifyReachesPoll

(* The same for a word the GPU wrote, as the test of waiters.rs expects:   *)
(* "device_event_wakes_leader_and_every_follower_without_cpu_notify".      *)
InterruptReachesPoll ==
    \A w \in Waiting : pc[w] = "poll" /\ Needs[w] \in ready \cap GpuEvents
                            => WillInterruptPoll

(* A waiter whose CPU value was stored, or whose device was lost, returns  *)
(* with no help from deadlines, spurious wakes or the periodic scan.       *)
NotifiedWaitReturns ==
    \A w \in Waiting : (pc[w] # "start" /\ Notified(w)) ~> (pc[w] = "done")
=============================================================================
