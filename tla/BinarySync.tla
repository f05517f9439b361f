---------------------------- MODULE BinarySync -----------------------------
(***************************************************************************)
(* Binary payloads of the native backend: reference-counted semaphore      *)
(* slots (slots.rs), the payloads bound to them (syncobj.rs), submission   *)
(* in three phases (mesa.rs), the slots accepted batches hold (gpu.rs) and *)
(* the watcher's gates for imported sync_files (watcher.rs).               *)
(*                                                                         *)
(* A signal operation is a number, an imported fence stands for itself.    *)
(* The variables source and fired say what Vulkan says of each payload:    *)
(* which signal operation it stands for, and which operations have         *)
(* happened.  Applications use payloads validly: calls on one object do    *)
(* not overlap, a wait follows the submission of its signal, and a signal  *)
(* finds the payload unsignalled.                                          *)
(***************************************************************************)
EXTENDS Integers, Sequences, FiniteSets, TLC

CONSTANTS
    Slots,      \* bound: the pool's slots
    Objects,    \* bound: payload objects
    Queues,
    ExportQueue, \* the internal queue of sync_file exports
    Foreigns,   \* imported sync_files
    MaxBatch,   \* bound: accepted batches
    MaxOps      \* bound: signal operations

ASSUME BinarySyncAssumption ==
    /\ MaxBatch \in Nat /\ MaxOps \in Nat
    /\ ExportQueue \notin Queues
    /\ Slots \cap Foreigns = {} /\ \A x \in Slots \cup Foreigns : x \notin Int
    /\ IsFiniteSet(Slots) /\ IsFiniteSet(Objects)

NoOp == 0
HostOp == -1     \* a signal by the CPU: it has happened when it is made
NoSlot == 0
Reserved == -1  \* SyncState::pending of a reserved signal
Unsubmitted == 0 \* SyncState::pending = None

VARIABLES
    pool,       \* reference count and semaphore word of each slot
    payload,    \* the slot or the sync_file of each object, NoSlot: no object
    pending,    \* batch whose release targets the payload's slot, or Reserved
    batches,    \* the accepted batches
    status,     \* sync_file status of each import: 0 active, 1 success, -1 error
    gates,      \* the watcher's registrations <<sync_file, slot>>
    sub,        \* the submission in progress, under the device lock
    cpu,        \* another thread's call in progress
    deferred,   \* temporaries whose reserved signal is not submitted yet
    lost,       \* device loss is published
    source,     \* the signal operation each payload stands for
    fired,      \* signal operations that have happened
    ops         \* signal operations so far

vars == <<pool, payload, pending, batches, status, gates, sub, cpu,
          deferred, lost, source, fired, ops>>

NoSub == [pc |-> "none"]
NoCpu == [pc |-> "none"]

Init ==
    /\ pool = [s \in Slots |-> [refs |-> 0, word |-> 0]]
    /\ payload = [o \in Objects |-> NoSlot]
    /\ pending = [o \in Objects |-> Unsubmitted]
    /\ batches = <<>> /\ status = [f \in Foreigns |-> 0] /\ gates = {}
    /\ sub = NoSub /\ cpu = NoCpu /\ deferred = {} /\ lost = FALSE
    /\ source = [o \in Objects |-> NoOp] /\ fired = {HostOp} /\ ops = 0

-----------------------------------------------------------------------------
(* The pool.                                                               *)

Word(s) == pool[s].word
Refs(s) == pool[s].refs
Free == {s \in Slots : Refs(s) = 0}

(* The slots n calls of try_allocate pop: free slots are alike.            *)
CanAllocate(n) == Cardinality(Free) >= n
Fresh(n) == CHOOSE new \in SUBSET Free : Cardinality(new) = n
FreshSlot == CHOOSE s \in Free : TRUE

(* store32, or the GPU's release.                                          *)
Written(p, set, value) ==
    [s \in Slots |-> IF s \in set THEN [p[s] EXCEPT !.word = value] ELSE p[s]]

(* try_allocate, retain and release; gained and dropped are sets of        *)
(* <<owner, slot>>.  A free slot reads 0: try_allocate zeroes it.          *)
Count(pairs, s) == Cardinality({p \in pairs : p[2] = s})
Zeroed(count, w) == IF count = 0 THEN 0 ELSE w
Counted(p, gained, dropped) ==
    [s \in Slots |->
        LET count == p[s].refs + Count(gained, s) - Count(dropped, s)
        IN [refs |-> count, word |-> Zeroed(count, p[s].word)]]

Native(o) == payload[o] \in Slots
Held(o) == IF Native(o) THEN {<<<<"payload", o>>, payload[o]>>} ELSE {}

-----------------------------------------------------------------------------
(* Use of the objects.                                                     *)

SubObjects == IF sub = NoSub THEN {} ELSE sub.waits \cup sub.signals
CpuObjects == IF cpu = NoCpu THEN {} ELSE cpu.objects
Live(o) == payload[o] # NoSlot /\ o \notin SubObjects \cup CpuObjects

(* nv_rm_sync_create, unsignalled.                                         *)
Create(o) ==
    /\ ~lost /\ payload[o] = NoSlot /\ o \notin SubObjects \cup CpuObjects
    /\ CanAllocate(1)
    /\ payload' = [payload EXCEPT ![o] = FreshSlot]
    /\ pool' = Counted(pool, {<<<<"payload", o>>, FreshSlot>>}, {})
    /\ pending' = [pending EXCEPT ![o] = Unsubmitted]
    /\ source' = [source EXCEPT ![o] = NoOp]
    /\ UNCHANGED <<batches, status, gates, sub, cpu, deferred, lost, fired, ops>>

(* nv_rm_sync_destroy: accepted batches keep their references.             *)
Destroy(o) ==
    /\ Live(o) /\ (o \in deferred => lost)
    /\ pool' = Counted(pool, {}, Held(o))
    /\ payload' = [payload EXCEPT ![o] = NoSlot]
    /\ pending' = [pending EXCEPT ![o] = Unsubmitted]
    /\ source' = [source EXCEPT ![o] = NoOp]
    /\ deferred' = deferred \ {o}
    /\ UNCHANGED <<batches, status, gates, sub, cpu, lost, fired, ops>>

(* nv_rm_sync_import_fd of a sync_file.                                    *)
Import(o, f) ==
    /\ ~lost /\ Live(o) /\ o \notin deferred
    /\ pool' = Counted(pool, {}, Held(o))
    /\ payload' = [payload EXCEPT ![o] = f]
    /\ pending' = [pending EXCEPT ![o] = Unsubmitted]
    /\ source' = [source EXCEPT ![o] = f]
    /\ UNCHANGED <<batches, status, gates, sub, cpu, deferred, lost, fired, ops>>

(* The producer of an imported sync_file.                                  *)
ForeignSignals(f, result) ==
    /\ status[f] = 0
    /\ status' = [status EXCEPT ![f] = result]
    /\ fired' = IF result = 1 THEN fired \cup {f} ELSE fired
    /\ UNCHANGED <<pool, payload, pending, batches, gates, sub, cpu,
                   deferred, lost, source, ops>>

-----------------------------------------------------------------------------
(* nv_rm_sync_reset (value 0) and nv_rm_sync_signal (value 1).             *)

NeedsFresh(o) == Native(o) => Refs(payload[o]) # 1

(* The hint, and the slot it asks for.                                     *)
SetBegin(o, value) ==
    /\ ~lost /\ cpu = NoCpu /\ Live(o) /\ o \notin deferred
    /\ NeedsFresh(o) => CanAllocate(1)
    /\ LET new == IF NeedsFresh(o) THEN FreshSlot ELSE NoSlot
       IN /\ cpu' = [pc |-> "set", objects |-> {o}, value |-> value, fresh |-> new]
          /\ pool' = Counted(pool, {<<<<"cpu">>, new>>}, {})
    /\ UNCHANGED <<payload, pending, batches, status, gates, sub, deferred, lost,
                   source, fired, ops>>

CpuOwned == IF cpu = NoCpu \/ cpu.fresh = NoSlot THEN {} ELSE {<<<<"cpu">>, cpu.fresh>>}

SoleOwner(o) == Native(o) /\ Refs(payload[o]) = 1

Means(o, value) == source' = [source EXCEPT ![o] = IF value = 1 THEN HostOp ELSE NoOp]

(* Sole owner: written in place, a fresh slot goes back.                   *)
SetInPlace(o) ==
    /\ cpu.pc = "set" /\ o \in cpu.objects /\ SoleOwner(o)
    /\ pool' = Counted(Written(pool, {payload[o]}, cpu.value), {}, CpuOwned)
    /\ pending' = IF cpu.value = 0 THEN [pending EXCEPT ![o] = Unsubmitted] ELSE pending
    /\ cpu' = NoCpu
    /\ Means(o, cpu.value)
    /\ UNCHANGED <<payload, batches, status, gates, sub, deferred, lost, fired, ops>>

(* Captured by a batch, or foreign: replaced, never written.               *)
SetReplace(o) ==
    /\ cpu.pc = "set" /\ o \in cpu.objects /\ ~SoleOwner(o) /\ cpu.fresh # NoSlot
    /\ payload' = [payload EXCEPT ![o] = cpu.fresh]
    /\ pending' = [pending EXCEPT ![o] = Unsubmitted]
    /\ pool' = Counted(Written(pool, {cpu.fresh}, cpu.value), {}, Held(o))
    /\ cpu' = NoCpu
    /\ Means(o, cpu.value)
    /\ UNCHANGED <<batches, status, gates, sub, deferred, lost, fired, ops>>

-----------------------------------------------------------------------------
(* nv_rm_sync_move: dst takes src's payload, src a fresh unsignalled one.  *)
(* Both objects belong to the caller, so its two steps are one here.       *)
Move(src, dst) ==
    /\ ~lost /\ src # dst /\ Live(src) /\ Live(dst) /\ {src, dst} \cap deferred = {}
    /\ CanAllocate(1)
    /\ pool' = Counted(pool, {<<<<"payload", src>>, FreshSlot>>}, Held(dst))
    /\ payload' = [payload EXCEPT ![src] = FreshSlot, ![dst] = payload[src]]
    /\ pending' = [pending EXCEPT ![src] = Unsubmitted, ![dst] = pending[src]]
    /\ source' = [source EXCEPT ![src] = NoOp, ![dst] = source[src]]
    /\ UNCHANGED <<batches, status, gates, sub, cpu, deferred, lost, fired, ops>>

(* nv_rm_sync_reserve: the deferred batch will signal dst, which shares    *)
(* src's slot.                                                             *)
Reservable(o) == Native(o) /\ pending[o] = Unsubmitted /\ Word(payload[o]) = 0

Reserve(src, dst) ==
    /\ ~lost /\ src # dst /\ ops < MaxOps
    /\ Live(src) /\ Live(dst) /\ {src, dst} \cap deferred = {}
    /\ source[src] = NoOp /\ source[dst] = NoOp
    /\ Reservable(src)
    /\ pool' = Counted(pool, {<<<<"payload", dst>>, payload[src]>>}, Held(dst))
    /\ payload' = [payload EXCEPT ![dst] = payload[src]]
    /\ pending' = [pending EXCEPT ![src] = Reserved, ![dst] = Unsubmitted]
    /\ ops' = ops + 1
    /\ source' = [source EXCEPT ![src] = ops + 1, ![dst] = ops + 1]
    /\ deferred' = deferred \cup {dst}
    /\ UNCHANGED <<batches, status, gates, sub, cpu, lost, fired>>

-----------------------------------------------------------------------------
(* Submission.  Phase 1 plans: slots are allocated, payloads unchanged.    *)

Consumed(W, S) == W \cup {o \in S : ~Native(o)}
Gated(W) == {o \in W : ~Native(o) /\ status[payload[o]] = 0}

Plan(q, W, S) ==
    /\ ~lost /\ sub = NoSub
    /\ \A o \in W \cup S : Live(o)
    /\ \A o \in W : /\ source[o] # NoOp /\ o \notin deferred
                    /\ ~Native(o) => status[payload[o]] # -1
    /\ \A o \in S : source[o] = NoOp \/ o \in W \cup deferred
    /\ LET need == ({"fresh"} \X Consumed(W, S)) \cup ({"gate"} \X Gated(W))
           new == Fresh(Cardinality(need))
           slot == CHOOSE f \in [need -> new] : \A x, y \in need : f[x] = f[y] => x = y
       IN /\ CanAllocate(Cardinality(need))
          /\ sub' = [pc |-> "planned", queue |-> q, waits |-> W, signals |-> S,
                     fresh |-> [o \in Consumed(W, S) |-> slot[<<"fresh", o>>]],
                     gate |-> [o \in Gated(W) |-> slot[<<"gate", o>>]]]
          /\ pool' = Counted(pool, {<<x, slot[x]>> : x \in need}, {})
    /\ UNCHANGED <<payload, pending, batches, status, gates, cpu, deferred, lost,
                   source, fired, ops>>

SubFresh == {<<<<"fresh", o>>, sub.fresh[o]>> : o \in DOMAIN sub.fresh}
SubGates == {<<<<"gate", o>>, sub.gate[o]>> : o \in DOMAIN sub.gate}
SubAllocated == SubFresh \cup SubGates
AcquireSlot(o) == IF Native(o) THEN payload[o] ELSE sub.gate[o]
ReleaseSlot(o) == IF o \in DOMAIN sub.fresh THEN sub.fresh[o] ELSE payload[o]
OpOf(o) == IF o \in deferred THEN source[o] ELSE ops + 1

(* retire_completion: retired batches of the queue give up their slots.    *)
Retired(q) == {b \in DOMAIN batches : batches[b].queue = q /\ batches[b].state = "retired"}
HeldBy(b) == {<<<<"batch", b, h[1]>>, h[2]>> : h \in batches[b].held}
Retire(q) == [b \in DOMAIN batches |->
                 IF b \in Retired(q)
                 THEN [batches[b] EXCEPT !.state = "freed", !.acq = {}, !.held = {}]
                 ELSE batches[b]]
RetiredSlots(q) == UNION {HeldBy(b) : b \in Retired(q)}

HeldSet(acq, rel) == {<<<<"wait", a.obj>>, a.slot>> : a \in acq}
                     \cup {<<<<"signal", r.obj>>, r.slot>> : r \in rel}

(* The queue accepts a batch, retains its slots and rings the doorbell.    *)
Enqueue(q, acq, rel) ==
    /\ Len(batches) < MaxBatch
    /\ LET b == Len(batches) + 1
           held == HeldSet(acq, rel)
       IN /\ batches' = Append(Retire(q), [queue |-> q, acq |-> acq, rel |-> rel,
                                           held |-> held, state |-> "queued"])
          /\ pool' = Counted(pool, {<<<<"batch", b, h[1]>>, h[2]>> : h \in held}, RetiredSlots(q))

Doorbell ==
    /\ sub.pc = "planned"
    /\ LET acq == {[slot |-> AcquireSlot(o), op |-> source[o], obj |-> o] :
                      o \in {w \in sub.waits : Native(w) \/ w \in DOMAIN sub.gate}}
           rel == {[slot |-> ReleaseSlot(o), op |-> OpOf(o), obj |-> o] : o \in sub.signals}
       IN Enqueue(sub.queue, acq, rel)
    /\ ops' = IF sub.signals \subseteq deferred THEN ops ELSE ops + 1
    /\ ops' <= MaxOps
    /\ sub' = [sub EXCEPT !.pc = "accepted"]
    /\ UNCHANGED <<payload, pending, status, gates, cpu, deferred, lost, source, fired>>

(* Ring pressure: everything allocated is released, payloads untouched.    *)
Full ==
    /\ sub.pc = "planned"
    /\ \E b \in DOMAIN batches : batches[b].queue = sub.queue /\ batches[b].state # "freed"
    /\ pool' = Counted(pool, {}, SubAllocated \cup RetiredSlots(sub.queue))
    /\ batches' = Retire(sub.queue)
    /\ sub' = NoSub
    /\ UNCHANGED <<payload, pending, status, gates, cpu, deferred, lost,
                   source, fired, ops>>

CommitPayloads(b) ==
    /\ payload' = [o \in Objects |-> IF o \in DOMAIN sub.fresh THEN sub.fresh[o] ELSE payload[o]]
    /\ pending' = [o \in Objects |-> IF o \in sub.signals THEN b
                                     ELSE IF o \in DOMAIN sub.fresh THEN Unsubmitted
                                     ELSE pending[o]]
    /\ pool' = Counted(pool, {}, UNION {Held(o) : o \in DOMAIN sub.fresh})

Registered == {<<payload[o], sub.gate[o]>> : o \in DOMAIN sub.gate}

Commit ==
    /\ sub.pc = "accepted"
    /\ LET b == Len(batches)
       IN /\ CommitPayloads(b)
          /\ source' = [o \in Objects |->
                           IF o \in sub.signals
                           THEN (CHOOSE r \in batches[b].rel : r.obj = o).op
                           ELSE IF o \in sub.waits THEN NoOp ELSE source[o]]
    /\ gates' = gates \cup Registered
    /\ deferred' = deferred \ sub.signals
    /\ sub' = NoSub
    /\ UNCHANGED <<batches, status, cpu, lost, fired, ops>>

(* nv_rm_sync_export of a reserved signal: the export queue acquires the   *)
(* reserved slot itself.                                                   *)
Exportable(o) == Native(o) /\ Word(payload[o]) = 0 /\ pending[o] = Reserved

ExportReserved(o) ==
    /\ ~lost /\ sub = NoSub /\ Live(o) /\ Exportable(o)
    /\ Enqueue(ExportQueue, {[slot |-> payload[o], op |-> source[o], obj |-> o]}, {})
    /\ UNCHANGED <<payload, pending, status, gates, sub, cpu, deferred, lost,
                   source, fired, ops>>

-----------------------------------------------------------------------------
(* The GPU runs each queue's batches in order.                             *)

Frontmost(b) ==
    \A c \in 1..(b - 1) : batches[c].queue = batches[b].queue
                              => batches[c].state \in {"retired", "freed"}

(* All acquires pass, the work runs, the releases are written.             *)
GpuRelease(b) ==
    /\ batches[b].state = "queued" /\ Frontmost(b)
    /\ \A a \in batches[b].acq : Word(a.slot) = 1
    /\ LET released == {r.slot : r \in batches[b].rel}
       IN pool' = Written(pool, released, 1)
    /\ fired' = fired \cup {r.op : r \in batches[b].rel}
    /\ batches' = [batches EXCEPT ![b].state = "released"]
    /\ UNCHANGED <<payload, pending, status, gates, sub, cpu, deferred, lost,
                   source, ops>>

(* The private retirement word.                                            *)
GpuRetire(b) ==
    /\ batches[b].state = "released"
    /\ batches' = [batches EXCEPT ![b].state = "retired"]
    /\ UNCHANGED <<pool, payload, pending, status, gates, sub, cpu, deferred,
                   lost, source, fired, ops>>

(* One pass of the watcher over a terminal sync_file: success opens its    *)
(* gates, an error loses the device; after loss every gate is dropped.     *)
OpensMutAny(f) == status[f] # 0
Opens(f) == status[f] = 1

Service(f) ==
    /\ ~lost /\ status[f] # 0 /\ \E g \in gates : g[1] = f
    /\ LET mine == {g \in gates : g[1] = f}
           opened == IF Opens(f) THEN {g[2] : g \in mine} ELSE {}
       IN /\ pool' = Counted(Written(pool, opened, 1), {}, mine)
          /\ gates' = gates \ mine
    /\ lost' = (status[f] = -1)
    /\ UNCHANGED <<payload, pending, batches, status, sub, cpu, deferred, source, fired, ops>>

FailAll ==
    /\ lost /\ gates # {}
    /\ pool' = Counted(pool, {}, gates)
    /\ gates' = {}
    /\ UNCHANGED <<payload, pending, batches, status, sub, cpu, deferred, lost,
                   source, fired, ops>>

Next ==
    \/ \E o \in Objects : \/ Create(o) \/ Destroy(o)
                          \/ SetBegin(o, 0) \/ SetBegin(o, 1)
                          \/ SetInPlace(o) \/ SetReplace(o)
                          \/ ExportReserved(o)
                          \/ \E f \in Foreigns : Import(o, f)
    \/ \E src, dst \in Objects : Move(src, dst) \/ Reserve(src, dst)
    \/ \E q \in Queues, W, S \in SUBSET Objects : W \cup S # {} /\ Plan(q, W, S)
    \/ Doorbell \/ Full \/ Commit
    \/ \E b \in DOMAIN batches : GpuRelease(b) \/ GpuRetire(b)
    \/ \E f \in Foreigns : Service(f) \/ \E result \in {1, -1} : ForeignSignals(f, result)
    \/ FailAll

Spec == Init /\ [][Next]_vars

-----------------------------------------------------------------------------
(* Properties.                                                             *)

(* Every reference of the pool has exactly one owner: a payload, a batch   *)
(* whose slots are not given up yet, a gate of the watcher, or a call in   *)
(* progress (slots.rs retain/release against every caller).  An error or a *)
(* Full submission leaks nothing, nothing is released twice.               *)
PayloadOwners == UNION {Held(o) : o \in Objects}
BatchOwners == UNION {HeldBy(b) : b \in DOMAIN batches}
Watched(registered) == {<<<<"watcher", g>>, g[2]>> : g \in registered}
SubOwned == IF sub = NoSub THEN {} ELSE SubAllocated
Owners == PayloadOwners \cup BatchOwners \cup Watched(gates) \cup SubOwned \cup CpuOwned


(* A payload reads signalled exactly when the signal operation it stands   *)
(* for has happened: neither a reset, a reuse of the slot nor another      *)
(* object's batch changes what it says (SyncObj::ready).                   *)
PayloadTruth ==
    \A o \in Objects : Native(o) /\ o \notin SubObjects
        => (Word(payload[o]) = 1 <=> source[o] \in fired)

(* The word a queued batch acquires is set only if the signal operation it *)
(* was submitted to wait for has happened, whatever became of the payload  *)
(* since; a failed import never opens its gate.                            *)
AcquireTruth ==
    \A b \in DOMAIN batches : \A a \in batches[b].acq :
        Word(a.slot) = 1 => a.op \in fired

(* No acquire is orphaned: while its word is unset and the device is not   *)
(* lost, an accepted batch will release that very slot, a temporary of a   *)
(* deferred submission is bound to it, or the watcher has its gate.        *)
NotOrphaned ==
    \A b \in DOMAIN batches : \A a \in batches[b].acq :
        Word(a.slot) = 0 /\ ~lost =>
            \/ \E c \in DOMAIN batches :
                 /\ batches[c].state = "queued"
                 /\ \E r \in batches[c].rel : r.slot = a.slot /\ r.op = a.op
            \/ \E o \in deferred : payload[o] = a.slot /\ source[o] = a.op
            \/ <<a.op, a.slot>> \in gates
            \/ sub.pc = "accepted" /\ \E o \in DOMAIN sub.gate : sub.gate[o] = a.slot

(* The batch a payload names as its pending signal is the one that signals *)
(* it: the SYNC_FD exported from it (a fence of that batch's token) is the *)
(* fence of the right operation (export_sync_file, Next::Fence).           *)
PendingNamesSignal ==
    \A o \in Objects : Native(o) /\ o \notin SubObjects /\ pending[o] > 0
                       /\ Word(payload[o]) = 0
        => \E r \in batches[pending[o]].rel : r.op = source[o] /\ r.slot = payload[o]

(* A binary payload reads as signalled, and lets a batch run, only after   *)
(* the signal operation it stands for; a pending payload names the batch   *)
(* that signals it and is not left without one by an export, an import or  *)
(* a reset (syncobj.rs, the commit of a submission).                       *)
BinaryTruth == AcquireTruth /\ PayloadTruth /\ NotOrphaned /\ PendingNamesSignal

-----------------------------------------------------------------------------
\* Queues, slots and objects are interchangeable.
Symmetry == Permutations(Queues) \cup Permutations(Slots) \cup Permutations(Objects)
=============================================================================
