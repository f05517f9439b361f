------------------------------ MODULE Reclaim ------------------------------
(***************************************************************************)
(* Deferred reclamation (reclaim.rs and its callers in mesa.rs): an object *)
(* (a memory object, or a VA range with its mappings) freed while GPU work *)
(* is outstanding joins a group with a snapshot of every queue's last      *)
(* unretired token, and is reclaimed when the whole snapshot has retired.  *)
(*                                                                         *)
(* Every call runs under the Bridge's Inner lock, so calls do not overlap  *)
(* and nothing is submitted during one; the GPU retires work at any time,  *)
(* also between two reads of one call.  Any batch may use every object     *)
(* that was not freed before it was submitted.                             *)
(***************************************************************************)
EXTENDS Naturals, Sequences

CONSTANTS
    Objects,        \* what applications free: buffers and VA ranges
    MaxQueues,      \* bound: contexts ever created
    MaxToken,       \* bound: batches per queue
    RECLAIM_BUDGET  \* groups reclaimed by one call

ASSUME ReclaimAssumption ==
    MaxQueues \in Nat /\ MaxToken \in Nat /\ RECLAIM_BUDGET \in Nat \ {0}

Queues == 1..MaxQueues

VARIABLES
    queue,      \* Inner.queues: "absent", "open", "error" (channel error), "freed"
    last,       \* last_token of each queue
    done,       \* its retirement word
    groups,     \* Reclaim: oldest first
    object,     \* "live", "freeing", "deferred", "released", "kept" (unmap failed)
    lost,       \* Core.lost
    pc,         \* the call that holds Inner: "idle", "reclaim", "begin", ...
    then,       \* what it does after reclaim_locked
    budget,     \* groups it may still reclaim
    snapshot,   \* tokens appended by begin
    next,       \* next queue begin looks at
    need        \* history: last of every queue when the object was freed

gpuVars == <<queue, last, done>>
callVars == <<pc, then, budget, snapshot, next>>
vars == <<gpuVars, groups, object, lost, callVars, need>>

Tokens == Queues \X (0..MaxToken)
Group == [snapshot : SUBSET Tokens, item : Objects]

Init ==
    /\ queue = [q \in Queues |-> "absent"]
    /\ last = [q \in Queues |-> 0] /\ done = [q \in Queues |-> 0]
    /\ groups = <<>> /\ object = [o \in Objects |-> "live"] /\ lost = FALSE
    /\ pc = "idle" /\ then = "idle" /\ budget = 0 /\ snapshot = {} /\ next = 1
    /\ need = [o \in Objects |-> [q \in Queues |-> 0]]

-----------------------------------------------------------------------------
(* The device.                                                             *)

(* QueueShared::retired as the closures of mesa.rs use it: a destroyed     *)
(* context counts as retired, a channel in error never does.               *)

RetiredMutStrict(q, t) == queue[q] = "freed" \/ (queue[q] = "open" /\ done[q] > t)

Retired(q, t) == queue[q] = "freed" \/ (queue[q] = "open" /\ done[q] >= t)

GpuRetire(q) ==
    /\ queue[q] = "open" /\ done[q] < last[q]
    /\ done' = [done EXCEPT ![q] = @ + 1]
    /\ UNCHANGED <<queue, last, groups, object, lost, callVars, need>>

(* check_error or a failed retire_completion: the channel will not retire. *)
ChannelError(q) ==
    /\ queue[q] = "open" /\ pc = "idle"
    /\ queue' = [queue EXCEPT ![q] = "error"] /\ lost' = TRUE
    /\ UNCHANGED <<last, done, groups, object, callVars, need>>

-----------------------------------------------------------------------------
(* reclaim_locked, the first thing every call does.                        *)

Call(action) ==
    /\ pc = "idle"
    /\ pc' = "reclaim" /\ then' = action /\ budget' = RECLAIM_BUDGET
    /\ UNCHANGED <<snapshot, next>>

GroupRetired(g) == \A e \in g.snapshot : Retired(e[1], e[2])

HeadRetired == groups # <<>> /\ GroupRetired(Head(groups))

(* reclaim_item over the items of one group: a failed unmap keeps the VA   *)
(* range reserved and loses the device.                                    *)
ReclaimItem(o) ==
    \/ object' = [object EXCEPT ![o] = "released"] /\ UNCHANGED lost
    \/ object' = [object EXCEPT ![o] = "kept"] /\ lost' = TRUE

PopRetiredMutKeep(force) ==
    /\ groups # <<>> /\ (force \/ HeadRetired)
    /\ groups' = groups
    /\ ReclaimItem(Head(groups).item)

PopRetired(force) ==
    /\ groups # <<>> /\ (force \/ HeadRetired)
    /\ groups' = Tail(groups)
    /\ ReclaimItem(Head(groups).item)

ReclaimOne ==
    /\ pc = "reclaim" /\ budget > 0
    /\ PopRetired(FALSE)
    /\ budget' = budget - 1
    /\ UNCHANGED <<gpuVars, pc, then, snapshot, next, need>>

ReclaimEnd ==
    /\ pc = "reclaim"
    /\ budget = 0 \/ ~HeadRetired
    /\ pc' = then /\ next' = 1
    /\ UNCHANGED <<gpuVars, groups, object, lost, then, budget, snapshot, need>>

-----------------------------------------------------------------------------
(* nv_rm_free and nv_rm_va_free: take the object, reclaim older groups,    *)
(* record the snapshot, then defer or reclaim at once.                     *)

Free(o) ==
    /\ object[o] = "live"
    /\ Call("begin")
    /\ object' = [object EXCEPT ![o] = "freeing"]
    /\ need' = [need EXCEPT ![o] = last]
    /\ UNCHANGED <<gpuVars, groups, lost>>

(* nv_rm_free: the CPU mapping could not be removed, the object stays.     *)
EvictFails(o) ==
    /\ pc = "idle" /\ object[o] = "live"
    /\ lost' = TRUE
    /\ UNCHANGED <<gpuVars, groups, object, callVars, need>>

(* reclaim_begin looks at one queue after the other.                       *)
UnretiredMutPrevious(q) ==
    queue[q] \in {"open", "error"} /\ last[q] # 0 /\ ~Retired(q, last[q] - 1)

Unretired(q) ==
    queue[q] \in {"open", "error"} /\ last[q] # 0 /\ ~Retired(q, last[q])

ReclaimBegin ==
    /\ pc = "begin" /\ next <= MaxQueues
    /\ snapshot' = IF Unretired(next) THEN snapshot \cup {<<next, last[next]>>} ELSE snapshot
    /\ next' = next + 1
    /\ UNCHANGED <<gpuVars, groups, object, lost, pc, then, budget, need>>

Freeing(o) == pc = "begin" /\ next > MaxQueues /\ object[o] = "freeing"

CommitMutFront(o) ==
    /\ Freeing(o) /\ snapshot # {}
    /\ groups' = <<[snapshot |-> snapshot, item |-> o]>> \o groups
    /\ object' = [object EXCEPT ![o] = "deferred"]
    /\ snapshot' = {} /\ pc' = "idle"
    /\ UNCHANGED <<gpuVars, lost, then, budget, next, need>>

Commit(o) ==
    /\ Freeing(o) /\ snapshot # {}
    /\ groups' = Append(groups, [snapshot |-> snapshot, item |-> o])
    /\ object' = [object EXCEPT ![o] = "deferred"]
    /\ snapshot' = {} /\ pc' = "idle"
    /\ UNCHANGED <<gpuVars, lost, then, budget, next, need>>

ReclaimNow(o) ==
    /\ Freeing(o) /\ snapshot = {}
    /\ ReclaimItem(o)
    /\ pc' = "idle"
    /\ UNCHANGED <<gpuVars, groups, then, budget, snapshot, next, need>>

-----------------------------------------------------------------------------
(* The other calls.                                                        *)

(* create_context pushes; an index is never used again.                    *)
CreateContext(q) ==
    /\ pc = "idle" /\ ~lost /\ queue[q] = "absent"
    /\ \A p \in 1..(q - 1) : queue[p] # "absent"
    /\ queue' = [queue EXCEPT ![q] = "open"]
    /\ UNCHANGED <<last, done, groups, object, lost, callVars, need>>

Submit ==
    /\ ~lost
    /\ Call("submit")
    /\ UNCHANGED <<gpuVars, groups, object, lost, need>>

(* An accepted batch; a full ring or a refused call changes nothing here.  *)
Accept(q) ==
    /\ pc = "submit" /\ ~lost
    /\ queue[q] = "open" /\ last[q] < MaxToken
    /\ last' = [last EXCEPT ![q] = @ + 1]
    /\ pc' = "idle"
    /\ UNCHANGED <<queue, done, groups, object, lost, then, budget, snapshot, next, need>>

Refuse ==
    /\ pc = "submit"
    /\ pc' = "idle"
    /\ UNCHANGED <<gpuVars, groups, object, lost, then, budget, snapshot, next, need>>

(* Allocation, mapping, binding, unbinding, import, and the status and     *)
(* wait calls (reclaim_try): they reclaim and free nothing.                *)
Reclaiming ==
    /\ groups # <<>>
    /\ Call("idle")
    /\ UNCHANGED <<gpuVars, groups, object, lost, need>>

(* nv_rm_context_destroy waits for the last token; after 5 s, or when the  *)
(* device is lost, the channel is freed all the same.                      *)
DestroyContext(q) ==
    /\ queue[q] \in {"open", "error"}
    /\ queue' = [queue EXCEPT ![q] = "freed"]
    /\ lost' \in {lost, TRUE} /\ (Retired(q, last[q]) \/ lost')
    /\ Call("idle")
    /\ UNCHANGED <<last, done, groups, object, need>>

(* Bridge::drop: the channels first, then every group by force.            *)
Close ==
    /\ pc = "idle"
    /\ queue' = [q \in Queues |-> IF queue[q] = "absent" THEN "absent" ELSE "freed"]
    /\ pc' = "closing"
    /\ lost' \in {lost, TRUE}
    /\ lost' \/ \A q \in Queues : queue[q] = "absent" \/ Retired(q, last[q])
    /\ UNCHANGED <<last, done, groups, object, then, budget, snapshot, next, need>>

CloseReclaim ==
    /\ pc = "closing"
    /\ PopRetired(TRUE)
    /\ UNCHANGED <<gpuVars, callVars, need>>

CloseEnd ==
    /\ pc = "closing" /\ groups = <<>>
    /\ pc' = "closed"
    /\ UNCHANGED <<gpuVars, groups, object, lost, then, budget, snapshot, next, need>>

-----------------------------------------------------------------------------
Finish == ReclaimOne \/ ReclaimEnd \/ ReclaimBegin \/ Refuse \/ CloseReclaim \/ CloseEnd

Next ==
    \/ Finish \/ Submit \/ Reclaiming \/ Close
    \/ \E o \in Objects : Free(o) \/ EvictFails(o) \/ Commit(o) \/ ReclaimNow(o)
    \/ \E q \in Queues : \/ GpuRetire(q) \/ ChannelError(q) \/ CreateContext(q)
                         \/ Accept(q) \/ DestroyContext(q)

Spec == Init /\ [][Next]_vars

(* Calls run to their end, the GPU retires what was submitted to channels  *)
(* without error, and the application goes on calling the driver.          *)
Fairness ==
    /\ WF_vars(Finish \/ \E o \in Objects : Commit(o) \/ ReclaimNow(o))
    /\ WF_vars(Reclaiming)
    /\ \A q \in Queues : WF_vars(GpuRetire(q))

FairSpec == Spec /\ Fairness

-----------------------------------------------------------------------------
(* Properties.                                                             *)

(* Type invariant of reclaim.rs and the state of Inner it depends on; the  *)
(* groups hold exactly the deferred objects, each once.                    *)
TypeOK ==
    /\ queue \in [Queues -> {"absent", "open", "error", "freed"}]
    /\ last \in [Queues -> 0..MaxToken] /\ done \in [Queues -> 0..MaxToken]
    /\ \A q \in Queues : done[q] <= last[q]
    /\ groups \in Seq(Group)
    /\ object \in [Objects -> {"live", "freeing", "deferred", "released", "kept"}]
    /\ lost \in BOOLEAN
    /\ pc \in {"idle", "reclaim", "begin", "submit", "closing", "closed"}
    /\ then \in {"idle", "begin", "submit"}
    /\ budget \in 0..RECLAIM_BUDGET
    /\ snapshot \in SUBSET Tokens /\ next \in 1..(MaxQueues + 1)
    /\ need \in [Objects -> [Queues -> 0..MaxToken]]

(* nv_rm_free and nv_rm_va_free: memory goes back to RM, and an address    *)
(* range to the heap, only when every batch submitted before the free that *)
(* could still run has retired.                                            *)
NoUseAfterReclaim ==
    \A o \in Objects : object[o] = "released" =>
        \A q \in Queues : queue[q] \in {"absent", "freed"} \/ done[q] >= need[o][q]

(* An object is reclaimed once: pop_retired neither repeats nor loses a    *)
(* deferred item, and none is left when nv_rm_close has returned.          *)
ReclaimedOnce ==
    /\ \A i, k \in 1..Len(groups) : groups[i].item = groups[k].item => i = k
    /\ \A i \in 1..Len(groups) : object[groups[i].item] = "deferred"
    /\ \A o \in Objects : object[o] = "deferred" =>
            \E i \in 1..Len(groups) : groups[i].item = o
    /\ pc = "closed" => groups = <<>>

(* reclaim.rs: "if a group's snapshot has not retired, no later group's    *)
(* has either", the reason why reclamation may stop at the first           *)
(* unretired group.  A channel error turns retired work into unretired     *)
(* work again, and then only delays later groups until close.              *)
FifoSound ==
    (\A q \in Queues : queue[q] # "error") =>
        \A i, k \in 1..Len(groups) :
            i < k /\ GroupRetired(groups[k]) => GroupRetired(groups[i])

(* reclaim_or_defer: "If the new snapshot is empty, every older group has  *)
(* retired as well", the reason why it may overtake them.                  *)
EmptySnapshotSound ==
    pc = "begin" /\ next > MaxQueues /\ snapshot = {} =>
        \A i \in 1..Len(groups) : GroupRetired(groups[i])

(* A deferred object is reclaimed, unless some channel failed: then its    *)
(* objects wait for nv_rm_close.                                           *)
DeferredIsReclaimed ==
    \A o \in Objects : object[o] = "deferred" ~>
        (object[o] \in {"released", "kept"} \/ \E q \in Queues : queue[q] = "error")

-----------------------------------------------------------------------------
(* The inductive invariant behind the safety properties.                   *)

Gone(q) == queue[q] \in {"absent", "freed"}

(* What was read of a queue at a free stays true of it later.              *)
Histories ==
    /\ \A o \in Objects, q \in Queues : need[o][q] <= last[q]
    /\ \A q \in Queues : queue[q] = "absent" => last[q] = 0
    /\ \A o \in Objects : object[o] = "freeing" =>
            /\ pc = "begin" \/ (pc = "reclaim" /\ then = "begin")
            /\ need[o] = last
    /\ \A o, p \in Objects : object[o] = "freeing" /\ object[p] = "freeing" => o = p
    /\ pc \in {"closing", "closed"} => \A q \in Queues : Gone(q)

(* Every queue begin has passed is idle, or in the snapshot.               *)
SnapshotCovers ==
    pc = "begin" => \A q \in Queues : q < next =>
        \/ Gone(q) \/ last[q] = 0 \/ (queue[q] = "open" /\ done[q] >= last[q])
        \/ <<q, last[q]>> \in snapshot

(* A snapshot names batches that were submitted.                           *)
Submitted(tokens) ==
    \A q \in Queues, t \in 0..MaxToken :
        <<q, t>> \in tokens => t # 0 /\ t <= last[q] /\ queue[q] # "absent"

(* A group waits for all that its object needs.                            *)
GroupCovers(g) ==
    /\ \A q \in Queues :
        \/ Gone(q) \/ done[q] >= need[g.item][q]
        \/ <<q, need[g.item][q]>> \in g.snapshot
    /\ Submitted(g.snapshot)

(* A later group waits for all that an earlier one still waits for.        *)
Follows(g, h) ==
    \A q \in Queues, t \in 0..MaxToken : <<q, t>> \in g.snapshot =>
        \/ Gone(q) \/ done[q] >= t
        \/ \E u \in 0..MaxToken : u >= t /\ <<q, u>> \in h.snapshot

GroupsOrdered ==
    /\ \A i \in 1..Len(groups) : GroupCovers(groups[i])
    /\ \A i, k \in 1..Len(groups) : i < k => Follows(groups[i], groups[k])

IInv ==
    /\ TypeOK /\ Histories /\ SnapshotCovers /\ Submitted(snapshot) /\ GroupsOrdered
    /\ NoUseAfterReclaim /\ ReclaimedOnce

(* pop_retired neither repeats nor loses a deferred item, and an object    *)
(* freed with an empty snapshot may overtake the queue because every older *)
(* group has retired (reclaim_or_defer).                                   *)
ReclaimSound == ReclaimedOnce /\ EmptySnapshotSound

\* Objects are interchangeable.
Symmetry == {p \in [Objects -> Objects] : {p[x] : x \in Objects} = Objects}
=============================================================================
