--------------------------- MODULE ReclaimProofs ---------------------------
(***************************************************************************)
(* Proofs about Reclaim for every number of objects, queues, batches and   *)
(* every budget.  IInv is inductive; the safety properties follow from it. *)
(***************************************************************************)
EXTENDS Reclaim, TLAPS

States == {"absent", "open", "error", "freed"}
ObjectStates == {"live", "freeing", "deferred", "released", "kept"}

(* reclaim_item leaves a well-typed object table.                          *)
LEMMA ItemTypes ==
    ASSUME TypeOK, NEW o \in Objects, ReclaimItem(o)
    PROVE  object' \in [Objects -> ObjectStates] /\ lost' \in BOOLEAN
<1>1. object \in [Objects -> ObjectStates] /\ lost \in BOOLEAN
  BY DEF TypeOK, ObjectStates
<1>2. CASE object' = [object EXCEPT ![o] = "released"] /\ UNCHANGED lost
  BY <1>1, <1>2 DEF ObjectStates
<1>3. CASE object' = [object EXCEPT ![o] = "kept"] /\ lost' = TRUE
  BY <1>1, <1>3 DEF ObjectStates
<1> QED BY <1>2, <1>3, Zenon DEF ReclaimItem

(* The head of a non-empty queue of groups, and the rest of it.            *)
LEMMA TailFacts ==
    ASSUME TypeOK, groups # <<>>
    PROVE  /\ Tail(groups) \in Seq(Group) /\ Head(groups) = groups[1]
           /\ Len(groups) \in Nat \ {0} /\ Len(Tail(groups)) = Len(groups) - 1
           /\ \A i \in 1..Len(Tail(groups)) : Tail(groups)[i] = groups[i + 1]
           /\ Head(groups) \in Group /\ Head(groups).item \in Objects
<1>1. groups \in Seq(Group)
  BY DEF TypeOK
<1>2. Len(groups) \in Nat \ {0} /\ Head(groups) = groups[1]
  BY <1>1
<1>3. Tail(groups) \in Seq(Group) /\ Len(Tail(groups)) = Len(groups) - 1
  BY <1>1
<1>4. \A i \in 1..Len(Tail(groups)) : Tail(groups)[i] = groups[i + 1]
  BY <1>1, <1>2, <1>3
<1>5. groups[1] \in Group
  BY <1>1, <1>2
<1>6. groups[1].item \in Objects
  BY <1>5 DEF Group
<1> QED BY <1>2, <1>3, <1>4, <1>5, <1>6

(* pop_retired leaves well-typed state.                                    *)
LEMMA PopTypes ==
    ASSUME TypeOK, NEW force \in BOOLEAN, PopRetired(force)
    PROVE  /\ groups' \in Seq(Group)
           /\ object' \in [Objects -> ObjectStates] /\ lost' \in BOOLEAN
<1>1. groups # <<>> /\ groups' = Tail(groups) /\ ReclaimItem(Head(groups).item)
  BY DEF PopRetired
<1>2. Head(groups).item \in Objects /\ Tail(groups) \in Seq(Group)
  BY <1>1, TailFacts
<1> QED BY <1>1, <1>2, ItemTypes

(* A step of the device or of a call leaves well-typed state.              *)
LEMMA StepTypes ==
    ASSUME TypeOK, [Next]_vars
    PROVE  TypeOK'
<1> USE DEF TypeOK, gpuVars, callVars
<1>0. /\ queue \in [Queues -> States] /\ object \in [Objects -> ObjectStates]
      /\ lost \in BOOLEAN /\ MaxQueues \in Nat /\ MaxToken \in Nat /\ RECLAIM_BUDGET \in Nat \ {0}
  BY ReclaimAssumption DEF States, ObjectStates
<1>1. CASE ReclaimOne
  <2>1. /\ groups' \in Seq(Group)
        /\ object' \in [Objects -> ObjectStates] /\ lost' \in BOOLEAN
    BY <1>1, PopTypes, Zenon DEF ReclaimOne
  <2>2. budget' \in 0..RECLAIM_BUDGET
    BY <1>1, <1>0 DEF ReclaimOne
  <2> QED BY <1>1, <2>1, <2>2 DEF ReclaimOne, ObjectStates
<1>2. CASE ReclaimEnd
  <2>1. next' \in 1..(MaxQueues + 1)
    BY <1>2, <1>0 DEF ReclaimEnd
  <2>2. pc' \in {"idle", "begin", "submit"}
    BY <1>2 DEF ReclaimEnd
  <2> QED BY <1>2, <2>1, <2>2 DEF ReclaimEnd
<1>3. CASE ReclaimBegin
  <2>1. next \in 1..MaxQueues /\ next \in Queues /\ last[next] \in 0..MaxToken
    BY <1>3, <1>0 DEF ReclaimBegin, Queues
  <2>2. snapshot' \in SUBSET Tokens
    BY <1>3, <2>1 DEF ReclaimBegin, Tokens
  <2>3. next' \in 1..(MaxQueues + 1)
    BY <1>3, <2>1, <1>0 DEF ReclaimBegin
  <2> QED BY <1>3, <2>2, <2>3 DEF ReclaimBegin
<1>4. CASE Refuse
  BY <1>4 DEF Refuse
<1>5. CASE CloseReclaim
  <2>1. /\ groups' \in Seq(Group)
        /\ object' \in [Objects -> ObjectStates] /\ lost' \in BOOLEAN
    BY <1>5, PopTypes, Zenon DEF CloseReclaim
  <2> QED BY <1>5, <2>1 DEF CloseReclaim, ObjectStates
<1>6. CASE CloseEnd
  BY <1>6 DEF CloseEnd
<1>7. CASE Submit
  BY <1>7, <1>0 DEF Submit, Call
<1>8. CASE Reclaiming
  BY <1>8, <1>0 DEF Reclaiming, Call
<1>9. CASE Close
  <2>1. queue' \in [Queues -> States] /\ lost' \in BOOLEAN
    BY <1>9, <1>0, Zenon DEF Close, States
  <2> QED BY <1>9, <2>1 DEF Close, States
<1>10. ASSUME NEW o \in Objects, Free(o)
       PROVE  TypeOK'
  <2>1. object' \in [Objects -> ObjectStates] /\ need' \in [Objects -> [Queues -> 0..MaxToken]]
    BY <1>10, <1>0 DEF Free, ObjectStates
  <2> QED BY <1>10, <1>0, <2>1 DEF Free, Call, ObjectStates
<1>11. ASSUME NEW o \in Objects, EvictFails(o)
       PROVE  TypeOK'
  BY <1>11 DEF EvictFails
<1>12. ASSUME NEW o \in Objects, Commit(o)
       PROVE  TypeOK'
  <2>1. object' \in [Objects -> ObjectStates]
    BY <1>12, <1>0 DEF Commit, ObjectStates
  <2>2. [snapshot |-> snapshot, item |-> o] \in Group
    BY <1>12 DEF Group
  <2>3. groups' \in Seq(Group)
    BY <1>12, <2>2 DEF Commit
  <2> QED BY <1>12, <2>1, <2>3 DEF Commit, ObjectStates
<1>13. ASSUME NEW o \in Objects, ReclaimNow(o)
       PROVE  TypeOK'
  <2>1. object' \in [Objects -> ObjectStates] /\ lost' \in BOOLEAN
    BY <1>13, ItemTypes DEF ReclaimNow
  <2> QED BY <1>13, <2>1 DEF ReclaimNow, ObjectStates
<1>14. ASSUME NEW q \in Queues, GpuRetire(q)
       PROVE  TypeOK'
  <2>1. done' \in [Queues -> 0..MaxToken] /\ \A p \in Queues : done'[p] <= last[p]
    BY <1>14, <1>0 DEF GpuRetire
  <2> QED BY <1>14, <2>1, ZenonT(30) DEF GpuRetire
<1>15. ASSUME NEW q \in Queues, ChannelError(q)
       PROVE  TypeOK'
  BY <1>15 DEF ChannelError
<1>16. ASSUME NEW q \in Queues, CreateContext(q)
       PROVE  TypeOK'
  BY <1>16 DEF CreateContext
<1>17. ASSUME NEW q \in Queues, Accept(q)
       PROVE  TypeOK'
  <2>1. last' \in [Queues -> 0..MaxToken] /\ \A p \in Queues : done[p] <= last'[p]
    BY <1>17, <1>0 DEF Accept
  <2> QED BY <1>17, <2>1, ZenonT(30) DEF Accept
<1>18. ASSUME NEW q \in Queues, DestroyContext(q)
       PROVE  TypeOK'
  <2>1. queue' \in [Queues -> States] /\ lost' \in BOOLEAN
    BY <1>18, <1>0, Zenon DEF DestroyContext, States
  <2> QED BY <1>18, <1>0, <2>1 DEF DestroyContext, Call, States
<1>19. CASE UNCHANGED vars
  BY <1>19 DEF vars
<1> QED BY <1>1, <1>2, <1>3, <1>4, <1>5, <1>6, <1>7, <1>8, <1>9, <1>10, <1>11, <1>12, <1>13,
           <1>14, <1>15, <1>16, <1>17, <1>18, <1>19, ZenonT(30) DEF Next, Finish

(* Queues only make progress; one that was gone and is not was never used. *)
LEMMA StepMonotone ==
    ASSUME TypeOK, Histories, [Next]_vars, NEW q \in Queues
    PROVE  /\ done[q] <= done'[q] /\ last[q] <= last'[q]
           /\ Gone(q) => Gone(q)' \/ last[q] = 0
           /\ queue[q] # "absent" => queue'[q] # "absent"
<1>0. done[q] \in 0..MaxToken /\ last[q] \in 0..MaxToken /\ MaxToken \in Nat
  BY ReclaimAssumption DEF TypeOK
<1>1. CASE UNCHANGED gpuVars
  BY <1>0, <1>1 DEF gpuVars, Gone
<1>2. CASE Close
  <2>1. UNCHANGED <<last, done>>
    BY <1>2 DEF Close
  <2>2. queue'[q] = IF queue[q] = "absent" THEN "absent" ELSE "freed"
    BY <1>2 DEF Close
  <2> QED BY <1>0, <2>1, <2>2 DEF Gone
<1>3. ASSUME NEW p \in Queues, GpuRetire(p)
      PROVE  done[q] <= done'[q] /\ UNCHANGED <<queue, last>>
  BY <1>3, <1>0 DEF GpuRetire, TypeOK
<1>4. ASSUME NEW p \in Queues, ChannelError(p)
      PROVE  UNCHANGED <<last, done>> /\ (Gone(q) => Gone(q)') /\ (queue[q] # "absent" => queue'[q] # "absent")
  BY <1>4 DEF ChannelError, TypeOK, Gone
<1>5. ASSUME NEW p \in Queues, CreateContext(p)
      PROVE  /\ UNCHANGED <<last, done>> /\ (Gone(q) => Gone(q)' \/ last[q] = 0)
             /\ (queue[q] # "absent" => queue'[q] # "absent")
  BY <1>5 DEF CreateContext, TypeOK, Gone, Histories
<1>6. ASSUME NEW p \in Queues, Accept(p)
      PROVE  last[q] <= last'[q] /\ UNCHANGED <<queue, done>>
  BY <1>6, <1>0 DEF Accept, TypeOK
<1>7. ASSUME NEW p \in Queues, DestroyContext(p)
      PROVE  UNCHANGED <<last, done>> /\ (Gone(q) => Gone(q)') /\ (queue[q] # "absent" => queue'[q] # "absent")
  BY <1>7 DEF DestroyContext, TypeOK, Gone
<1>8. Finish \/ Submit \/ Reclaiming \/ (\E o \in Objects : Free(o) \/ EvictFails(o) \/ Commit(o) \/ ReclaimNow(o))
        => UNCHANGED gpuVars
  BY Zenon DEF Finish, ReclaimOne, ReclaimEnd, ReclaimBegin, Refuse, CloseReclaim, CloseEnd, Submit,
         Reclaiming, Free, EvictFails, Commit, ReclaimNow, gpuVars
<1>9. UNCHANGED vars => UNCHANGED gpuVars
  BY DEF vars
<1>10. CASE \E p \in Queues : GpuRetire(p) \/ Accept(p)
  BY <1>10, <1>3, <1>6, <1>0 DEF Gone
<1>11. CASE \E p \in Queues : ChannelError(p) \/ CreateContext(p) \/ DestroyContext(p)
  BY <1>11, <1>4, <1>5, <1>7, <1>0
<1> QED BY <1>1, <1>2, <1>8, <1>9, <1>10, <1>11 DEF Next

(* What a step does to objects: only a free changes what is needed, and an *)
(* object becomes released by pop_retired or by an immediate reclaim.      *)
LEMMA StepObjects ==
    ASSUME TypeOK, [Next]_vars
    PROVE  /\ \A o \in Objects : object[o] # "live" => need'[o] = need[o]
           /\ \/ UNCHANGED <<object, groups>>
              \/ \E p \in Objects : Free(p) \/ Commit(p) \/ ReclaimNow(p)
              \/ ReclaimOne \/ CloseReclaim
<1>1. CASE \E p \in Objects : Free(p)
  <2>1. PICK p \in Objects : Free(p)
    BY <1>1
  <2>2. object[p] = "live" /\ need' = [need EXCEPT ![p] = last]
    BY <2>1 DEF Free
  <2>3. \A o \in Objects : object[o] # "live" => need'[o] = need[o]
    BY <2>2 DEF TypeOK
  <2> QED BY <1>1, <2>3
<1>2. CASE \E p \in Objects : EvictFails(p) \/ Commit(p) \/ ReclaimNow(p)
  BY <1>2, ZenonT(30) DEF EvictFails, Commit, ReclaimNow
<1>3. CASE Finish
  BY <1>3, Zenon DEF Finish, ReclaimOne, ReclaimEnd, ReclaimBegin, Refuse, CloseReclaim, CloseEnd
<1>4. CASE Submit \/ Reclaiming \/ Close
  BY <1>4, Zenon DEF Submit, Reclaiming, Close
<1>5. CASE \E q \in Queues : GpuRetire(q) \/ ChannelError(q) \/ CreateContext(q) \/ Accept(q) \/ DestroyContext(q)
  BY <1>5, Zenon DEF GpuRetire, ChannelError, CreateContext, Accept, DestroyContext
<1>6. CASE UNCHANGED vars
  BY <1>6 DEF vars
<1> QED BY <1>1, <1>2, <1>3, <1>4, <1>5, <1>6 DEF Next

(* reclaim_item makes no object a freed one.                               *)
LEMMA ItemFrees ==
    ASSUME TypeOK, NEW o \in Objects, ReclaimItem(o), NEW p \in Objects
    PROVE  /\ p # o => object'[p] = object[p]
           /\ object'[o] \in {"released", "kept"}
BY DEF ReclaimItem, TypeOK

(* The object being freed is the one of the call in progress.              *)
LEMMA StepFreeing ==
    ASSUME TypeOK, Histories, [Next]_vars, NEW o \in Objects, object'[o] = "freeing"
    PROVE  /\ pc' = "begin" \/ (pc' = "reclaim" /\ then' = "begin")
           /\ need'[o] = last'
           /\ \A p \in Objects : object'[p] = "freeing" => p = o
<1> DEFINE Goal == /\ pc' = "begin" \/ (pc' = "reclaim" /\ then' = "begin")
                   /\ need'[o] = last'
                   /\ \A p \in Objects : object'[p] = "freeing" => p = o
<1>0. \A p \in Objects : object[p] = "freeing" =>
         /\ pc = "begin" \/ (pc = "reclaim" /\ then = "begin")
         /\ need[p] = last /\ (object[o] = "freeing" => p = o)
  BY DEF Histories
<1>1. CASE UNCHANGED <<object, need, last, pc, then>>
  BY <1>0, <1>1
<1>2. CASE UNCHANGED object /\ pc \notin {"reclaim", "begin"}
  BY <1>0, <1>2
<1>3. CASE ReclaimOne
  <2>1. /\ Head(groups).item \in Objects /\ ReclaimItem(Head(groups).item)
        /\ UNCHANGED <<need, last, pc, then>>
    BY <1>3, TailFacts DEF ReclaimOne, PopRetired, gpuVars
  <2>2. \A p \in Objects : object'[p] = "freeing" => object[p] = "freeing"
    BY <2>1, ItemFrees
  <2> QED BY <1>0, <2>1, <2>2
<1>4. CASE ReclaimEnd
  <2>1. UNCHANGED <<object, need, last>> /\ pc = "reclaim" /\ pc' = then
    BY <1>4 DEF ReclaimEnd, gpuVars
  <2> QED BY <1>0, <2>1
<1>5. CASE CloseReclaim
  <2>1. Head(groups).item \in Objects /\ ReclaimItem(Head(groups).item) /\ pc = "closing"
    BY <1>5, TailFacts DEF CloseReclaim, PopRetired
  <2>2. object[o] = "freeing"
    BY <2>1, ItemFrees
  <2> QED BY <1>0, <2>1, <2>2
<1>6. ASSUME NEW p \in Objects, Free(p)
      PROVE  Goal
  <2>1. /\ pc = "idle" /\ pc' = "reclaim" /\ then' = "begin" /\ last' = last
        /\ object' = [object EXCEPT ![p] = "freeing"] /\ need' = [need EXCEPT ![p] = last]
    BY <1>6 DEF Free, Call, gpuVars
  <2>2. \A r \in Objects : object'[r] = "freeing" => r = p
    BY <2>1, <1>0 DEF TypeOK
  <2>3. need'[p] = last
    BY <2>1 DEF TypeOK
  <2> QED BY <2>1, <2>2, <2>3
<1>7. ASSUME NEW p \in Objects, Commit(p)
      PROVE  Goal
  <2>1. object[p] = "freeing" /\ object' = [object EXCEPT ![p] = "deferred"]
    BY <1>7 DEF Commit, Freeing
  <2>2. object[o] = "freeing" /\ o # p
    BY <2>1 DEF TypeOK
  <2> QED BY <1>0, <2>1, <2>2
<1>8. ASSUME NEW p \in Objects, ReclaimNow(p)
      PROVE  Goal
  <2>1. object[p] = "freeing" /\ ReclaimItem(p)
    BY <1>8 DEF ReclaimNow, Freeing
  <2>2. object[o] = "freeing" /\ o # p
    BY <2>1, ItemFrees
  <2> QED BY <1>0, <2>1, <2>2
<1>9. CASE ReclaimBegin \/ (\E q \in Queues : GpuRetire(q)) \/ UNCHANGED vars
  <2>1. UNCHANGED <<object, need, last, pc, then>>
    BY <1>9 DEF ReclaimBegin, GpuRetire, vars, gpuVars, callVars
  <2> QED BY <1>1, <2>1
<1>10. CASE Refuse \/ CloseEnd \/ Submit \/ Reclaiming \/ Close \/ \E p \in Objects : EvictFails(p)
  <2>1. UNCHANGED object /\ pc \notin {"reclaim", "begin"}
    BY <1>10, Zenon DEF Refuse, CloseEnd, Submit, Reclaiming, Close, EvictFails, Call
  <2> QED BY <1>2, <2>1, SMTT(30)
<1>11. CASE \E q \in Queues : ChannelError(q) \/ CreateContext(q) \/ Accept(q) \/ DestroyContext(q)
  <2>1. UNCHANGED object /\ pc \notin {"reclaim", "begin"}
    BY <1>11, ZenonT(30) DEF ChannelError, CreateContext, Accept, DestroyContext, Call
  <2> QED BY <1>2, <2>1
<1> QED BY <1>3, <1>4, <1>5, <1>6, <1>7, <1>8, <1>9, <1>10, <1>11 DEF Next, Finish

(* The histories stay true.                                                *)
LEMMA StepHistories ==
    ASSUME TypeOK, Histories, [Next]_vars
    PROVE  Histories'
<1>1. ASSUME NEW o \in Objects, NEW q \in Queues
      PROVE  need'[o][q] <= last'[q]
  <2>1. need[o][q] <= last[q] /\ last[q] <= last'[q]
    BY StepMonotone DEF Histories
  <2>2. /\ need[o][q] \in 0..MaxToken /\ last[q] \in 0..MaxToken /\ last'[q] \in 0..MaxToken
        /\ MaxToken \in Nat
    BY StepTypes, ReclaimAssumption DEF TypeOK
  <2>3. need'[o] = need[o] \/ need'[o] = last
    <3>1. CASE \E p \in Objects : Free(p)
      BY <3>1, SMTT(30) DEF Free, TypeOK
    <3>2. CASE ~\E p \in Objects : Free(p)
      BY <3>2, Zenon DEF Next, Finish, ReclaimOne, ReclaimEnd, ReclaimBegin, Refuse, CloseReclaim, CloseEnd,
         Submit, Reclaiming, Close, EvictFails, Commit, ReclaimNow, GpuRetire, ChannelError,
         CreateContext, Accept, DestroyContext, vars
    <3> QED BY <3>1, <3>2
  <2> QED BY <2>1, <2>2, <2>3, SMTT(30)
<1>2. ASSUME NEW q \in Queues, queue'[q] = "absent"
      PROVE  last'[q] = 0
  <2>1. queue[q] = "absent" /\ last[q] = 0
    BY <1>2, StepMonotone DEF Histories
  <2>2. CASE \E p \in Queues : Accept(p)
    BY <2>1, <2>2 DEF Accept, TypeOK
  <2>3. CASE ~\E p \in Queues : Accept(p)
    <3>1. UNCHANGED last
      BY <2>3, Zenon DEF Next, Finish, ReclaimOne, ReclaimEnd, ReclaimBegin, Refuse, CloseReclaim, CloseEnd,
         Submit, Reclaiming, Close, Free, EvictFails, Commit, ReclaimNow, GpuRetire, ChannelError,
         CreateContext, Accept, DestroyContext, vars, gpuVars
    <3> QED BY <2>1, <3>1, SMTT(30)
  <2> QED BY <2>2, <2>3
<1>3. ASSUME pc' \in {"closing", "closed"}, NEW q \in Queues
      PROVE  Gone(q)'
  <2>1. CASE Close
    BY <2>1, Zenon DEF Close, Gone
  <2>2. CASE ~Close
    <3>1. pc \in {"closing", "closed"} /\ UNCHANGED queue
      BY <1>3, <2>2, Zenon DEF Next, Finish, ReclaimOne, ReclaimEnd, ReclaimBegin, Refuse, CloseReclaim, CloseEnd,
         Submit, Reclaiming, Close, Free, EvictFails, Commit, ReclaimNow, GpuRetire, ChannelError,
         CreateContext, Accept, DestroyContext, vars, gpuVars, callVars, Call, TypeOK, Freeing
    <3> QED BY <3>1, SMTT(30) DEF Histories, Gone
  <2> QED BY <2>1, <2>2
<1> QED BY <1>1, <1>2, <1>3, StepFreeing DEF Histories

(* begin covers one more queue with every step.                            *)
LEMMA StepSnapshot ==
    ASSUME TypeOK, Histories, SnapshotCovers, [Next]_vars
    PROVE  SnapshotCovers'
<1> SUFFICES ASSUME pc' = "begin", NEW q \in Queues, q < next'
             PROVE  \/ Gone(q)' \/ last'[q] = 0 \/ (queue'[q] = "open" /\ done'[q] >= last'[q])
                    \/ <<q, last'[q]>> \in snapshot'
  BY DEF SnapshotCovers
<1>0. q \in Nat /\ 1 <= q /\ next \in Nat /\ done[q] \in Nat /\ done'[q] \in Nat /\ last[q] \in Nat
  BY StepTypes, ReclaimAssumption DEF TypeOK, Queues
<1>1. CASE ReclaimEnd
  BY <1>0, <1>1 DEF ReclaimEnd
<1>2. CASE ReclaimBegin
  <2>1. /\ pc = "begin" /\ UNCHANGED <<queue, last, done>> /\ next' = next + 1
        /\ snapshot' = IF Unretired(next) THEN snapshot \cup {<<next, last[next]>>} ELSE snapshot
    BY <1>2 DEF ReclaimBegin, gpuVars
  <2>2. CASE q < next
    BY <2>1, <2>2 DEF SnapshotCovers, Gone
  <2>3. CASE q = next
    <3>1. CASE Unretired(q)
      BY <2>1, <2>3, <3>1
    <3>2. CASE ~Unretired(q)
      BY <2>1, <3>2, <1>0 DEF Unretired, Retired, Gone, TypeOK
    <3> QED BY <3>1, <3>2
  <2> QED BY <2>1, <2>2, <2>3, <1>0
<1>3. CASE (\E p \in Queues : GpuRetire(p)) \/ UNCHANGED vars
  <2>1. UNCHANGED <<pc, queue, last, next, snapshot>>
    BY <1>3 DEF GpuRetire, vars, gpuVars, callVars
  <2>2. done[q] <= done'[q]
    BY StepMonotone
  <2>3. \/ Gone(q) \/ last[q] = 0 \/ (queue[q] = "open" /\ done[q] >= last[q])
        \/ <<q, last[q]>> \in snapshot
    BY <2>1 DEF SnapshotCovers
  <2> QED BY <2>1, <2>2, <2>3, <1>0 DEF Gone
<1>4. CASE ReclaimOne \/ Refuse \/ CloseReclaim \/ CloseEnd \/ Submit \/ Reclaiming \/ Close
  BY <1>4, Zenon DEF ReclaimOne, Refuse, CloseReclaim, CloseEnd, Submit, Reclaiming, Close, Call, callVars
<1>5. CASE \E p \in Objects : Free(p) \/ EvictFails(p) \/ Commit(p) \/ ReclaimNow(p)
  BY <1>5 DEF Free, EvictFails, Commit, ReclaimNow, Call, callVars
<1>6. CASE \E p \in Queues : ChannelError(p) \/ CreateContext(p) \/ Accept(p) \/ DestroyContext(p)
  BY <1>6 DEF ChannelError, CreateContext, Accept, DestroyContext, Call, callVars
<1> QED BY <1>1, <1>2, <1>3, <1>4, <1>5, <1>6 DEF Next, Finish

(* Submitted work stays submitted.                                         *)
LEMMA KeepSubmitted ==
    ASSUME TypeOK, Histories, [Next]_vars, NEW tokens, Submitted(tokens)
    PROVE  Submitted(tokens)'
<1> SUFFICES ASSUME NEW q \in Queues, NEW t \in 0..MaxToken, <<q, t>> \in tokens
             PROVE  t # 0 /\ t <= last'[q] /\ queue'[q] # "absent"
  BY DEF Submitted
<1>1. t # 0 /\ t <= last[q] /\ queue[q] # "absent"
  BY DEF Submitted
<1>2. last[q] <= last'[q] /\ queue'[q] # "absent"
  BY <1>1, StepMonotone
<1>3. t \in Nat /\ last[q] \in Nat /\ last'[q] \in Nat
  BY StepTypes, ReclaimAssumption DEF TypeOK
<1> QED BY <1>1, <1>2, <1>3

(* The open snapshot names submitted work.                                 *)
LEMMA StepSubmitted ==
    ASSUME TypeOK, Histories, [Next]_vars, Submitted(snapshot)
    PROVE  Submitted(snapshot)'
<1>1. ASSUME NEW tokens, tokens = snapshot
      PROVE  Submitted(tokens)'
  BY <1>1, KeepSubmitted
<1>2. CASE snapshot' = snapshot
  BY <1>1, <1>2 DEF Submitted
<1>3. CASE snapshot' = {}
  BY <1>3 DEF Submitted
<1>4. CASE ReclaimBegin
  <2>1. /\ UNCHANGED <<queue, last>> /\ next \in Queues
        /\ snapshot' = IF Unretired(next) THEN snapshot \cup {<<next, last[next]>>} ELSE snapshot
    BY <1>4, ReclaimAssumption DEF ReclaimBegin, gpuVars, TypeOK, Queues
  <2>2. CASE Unretired(next)
    <3>0. last[next] \in Nat
      BY <2>1, ReclaimAssumption, SMTT(30) DEF TypeOK
    <3>1. queue[next] # "absent" /\ last[next] \in Nat /\ last[next] # 0
      BY ONLY <2>2, <3>0 DEF Unretired
    <3> QED BY <2>1, <2>2, <3>1 DEF Submitted
  <2>3. CASE ~Unretired(next)
    BY <1>2, <2>1, <2>3, SMTT(30)
  <2> QED BY <2>2, <2>3
<1>5. snapshot' = snapshot \/ snapshot' = {} \/ ReclaimBegin
  BY ZenonT(30) DEF Next, Finish, ReclaimOne, ReclaimEnd, Refuse, CloseReclaim, CloseEnd,
     Submit, Reclaiming, Close, Free, EvictFails, Commit, ReclaimNow, GpuRetire, ChannelError,
     CreateContext, Accept, DestroyContext, vars, callVars, Call
<1> QED BY <1>2, <1>3, <1>4, <1>5

(* A step that does not free the object of a group keeps it covered.       *)
LEMMA KeepCovers ==
    ASSUME TypeOK, Histories, [Next]_vars, NEW g \in Group, GroupCovers(g),
           need'[g.item] = need[g.item]
    PROVE  GroupCovers(g)'
<1>0. g.item \in Objects
  BY SMTT(30) DEF Group
<1>1. ASSUME NEW q \in Queues
      PROVE  \/ Gone(q)' \/ done'[q] >= need'[g.item][q]
             \/ <<q, need'[g.item][q]>> \in g.snapshot
  <2>1. /\ done[q] \in Nat /\ done'[q] \in Nat /\ last[q] \in Nat /\ need[g.item][q] \in Nat
    BY <1>0, StepTypes, ReclaimAssumption, SMTT(30) DEF TypeOK
  <2>2. done[q] <= done'[q] /\ (Gone(q) => Gone(q)' \/ last[q] = 0) /\ need[g.item][q] <= last[q]
    BY <1>0, StepMonotone DEF Histories
  <2>3. Gone(q) \/ done[q] >= need[g.item][q] \/ <<q, need[g.item][q]>> \in g.snapshot
    BY ZenonT(30) DEF GroupCovers
  <2>4. CASE Gone(q)
    <3>1. Gone(q)' \/ last[q] = 0
      BY <2>2, <2>4, Zenon
    <3> QED BY <2>1, <2>2, <3>1
  <2>5. CASE done[q] >= need[g.item][q]
    BY <2>1, <2>2, <2>5
  <2>6. CASE <<q, need[g.item][q]>> \in g.snapshot
    BY <2>6, Zenon
  <2> QED BY <2>3, <2>4, <2>5, <2>6, Zenon
<1>2. Submitted(g.snapshot)'
  BY KeepSubmitted, ZenonT(30) DEF GroupCovers
<1> QED BY <1>1, <1>2, ZenonT(30) DEF GroupCovers

(* A step keeps the order of two groups.                                   *)
LEMMA KeepFollows ==
    ASSUME TypeOK, Histories, [Next]_vars, NEW g \in Group, NEW h \in Group,
           GroupCovers(g), Follows(g, h)
    PROVE  Follows(g, h)'
<1> SUFFICES ASSUME NEW q \in Queues, NEW t \in 0..MaxToken, <<q, t>> \in g.snapshot
             PROVE  \/ Gone(q)' \/ done'[q] >= t
                    \/ \E u \in 0..MaxToken : u >= t /\ <<q, u>> \in h.snapshot
  BY DEF Follows
<1>1. done[q] \in Nat /\ done'[q] \in Nat /\ last[q] \in Nat /\ t \in Nat
  BY StepTypes, ReclaimAssumption DEF TypeOK
<1>2. done[q] <= done'[q] /\ (Gone(q) => Gone(q)' \/ last[q] = 0) /\ t <= last[q]
  BY StepMonotone DEF GroupCovers, Submitted
<1>3. Gone(q) \/ done[q] >= t \/ \E u \in 0..MaxToken : u >= t /\ <<q, u>> \in h.snapshot
  BY DEF Follows
<1>4. CASE Gone(q) \/ done[q] >= t
  BY <1>1, <1>2, <1>4
<1> QED BY <1>3, <1>4, ZenonT(30)

(* The groups of a queue are groups, their items deferred objects.         *)
LEMMA GroupFacts ==
    ASSUME TypeOK, ReclaimedOnce, NEW i \in 1..Len(groups)
    PROVE  /\ groups[i] \in Group /\ groups[i].item \in Objects
           /\ object[groups[i].item] = "deferred"
<1>1. groups[i] \in Group
  BY DEF TypeOK
<1> QED BY <1>1 DEF Group, ReclaimedOnce

(* A commit at the end of the queue.                                       *)
LEMMA AppendFacts ==
    ASSUME TypeOK, NEW o \in Objects, Commit(o)
    PROVE  /\ Len(groups) \in Nat /\ Len(groups') = Len(groups) + 1
           /\ \A i \in 1..Len(groups) : groups'[i] = groups[i]
           /\ groups'[Len(groups) + 1] = [snapshot |-> snapshot, item |-> o]
           /\ groups'[Len(groups) + 1] \in Group /\ groups'[Len(groups) + 1].item = o
           /\ groups'[Len(groups) + 1].snapshot = snapshot
<1> DEFINE g == [snapshot |-> snapshot, item |-> o]
<1>1. g \in Group /\ g.item = o /\ g.snapshot = snapshot /\ groups \in Seq(Group)
  BY DEF TypeOK, Group
<1>2. groups' = Append(groups, g)
  BY DEF Commit
<1> HIDE DEF g
<1>3. /\ Len(groups) \in Nat /\ Len(groups') = Len(groups) + 1
      /\ \A i \in 1..Len(groups) : groups'[i] = groups[i]
      /\ groups'[Len(groups) + 1] = g
  BY <1>1, <1>2
<1> QED BY <1>1, <1>3 DEF g

(* pop_retired takes the head and changes only the object of the head.     *)
LEMMA PopFacts ==
    ASSUME TypeOK, ReclaimedOnce, ReclaimOne \/ CloseReclaim
    PROVE  /\ Len(groups) \in Nat \ {0} /\ Len(groups') = Len(groups) - 1
           /\ \A i \in 1..Len(groups') : groups'[i] = groups[i + 1] /\ i + 1 \in 1..Len(groups)
           /\ groups[1].item \in Objects /\ object'[groups[1].item] \in {"released", "kept"}
           /\ \A p \in Objects : p # groups[1].item => object'[p] = object[p]
           /\ UNCHANGED <<pc, gpuVars, need>>
<1>1. /\ groups # <<>> /\ groups' = Tail(groups) /\ ReclaimItem(Head(groups).item)
      /\ UNCHANGED <<pc, gpuVars, need>>
  BY DEF ReclaimOne, CloseReclaim, PopRetired, callVars
<1>2. /\ Head(groups) = groups[1] /\ Head(groups).item \in Objects
      /\ Len(groups) \in Nat \ {0} /\ Len(groups') = Len(groups) - 1
      /\ \A i \in 1..Len(groups') : groups'[i] = groups[i + 1]
  BY <1>1, TailFacts
<1>3. \A i \in 1..Len(groups') : i + 1 \in 1..Len(groups)
  BY <1>2
<1>4. /\ object'[groups[1].item] \in {"released", "kept"}
      /\ \A p \in Objects : p # groups[1].item => object'[p] = object[p]
  BY <1>1, <1>2, ItemFrees
<1> QED BY <1>1, <1>2, <1>3, <1>4

(* No step repeats or loses a deferred object.                             *)
LEMMA StepOnce ==
    ASSUME TypeOK, Histories, ReclaimedOnce, [Next]_vars
    PROVE  ReclaimedOnce'
<1> DEFINE Same == \A i, k \in 1..Len(groups) : groups[i].item = groups[k].item => i = k
           Held == \A o \in Objects : object[o] = "deferred" => \E i \in 1..Len(groups) : groups[i].item = o
           Items == \A i \in 1..Len(groups) : object[groups[i].item] = "deferred"
<1>0. Same /\ Held /\ Items /\ (pc = "closed" => groups = <<>>)
  BY DEF ReclaimedOnce
<1>1. pc' = "closed" => groups' = <<>>
  <2>1. CASE CloseEnd
    BY <2>1, SMTT(30) DEF CloseEnd
  <2>2. CASE ~CloseEnd
    BY <2>2, <1>0, ZenonT(30) DEF Next, Finish, ReclaimOne, ReclaimEnd, ReclaimBegin, Refuse, CloseReclaim, CloseEnd,
       Submit, Reclaiming, Close, Free, EvictFails, Commit, ReclaimNow, GpuRetire, ChannelError,
       CreateContext, Accept, DestroyContext, vars, gpuVars, callVars, Call, TypeOK, Freeing
  <2> QED BY <2>1, <2>2
<1>2. CASE UNCHANGED <<object, groups>>
  BY <1>0, <1>1, <1>2, Zenon DEF ReclaimedOnce
<1>3. ASSUME NEW p \in Objects, Free(p) \/ ReclaimNow(p)
      PROVE  ReclaimedOnce'
  <2>1. groups' = groups /\ object[p] # "deferred"
    BY <1>3 DEF Free, ReclaimNow, Freeing
  <2>2. object'[p] # "deferred" /\ \A o \in Objects : o # p => object'[o] = object[o]
    <3>1. CASE Free(p)
      BY <3>1 DEF Free, TypeOK
    <3>2. CASE ReclaimNow(p)
      BY <3>2, ItemFrees DEF ReclaimNow
    <3> QED BY <1>3, <3>1, <3>2
  <2>3. Items'
    BY <2>1, <2>2, <1>0, GroupFacts
  <2>4. Held' /\ Same'
    BY <2>1, <2>2, <1>0
  <2> QED BY <1>1, <2>3, <2>4 DEF ReclaimedOnce
<1>4. ASSUME NEW p \in Objects, Commit(p)
      PROVE  ReclaimedOnce'
  <2>1. object[p] = "freeing" /\ object' = [object EXCEPT ![p] = "deferred"]
    BY <1>4 DEF Commit, Freeing
  <2>2. object'[p] = "deferred" /\ \A o \in Objects : o # p => object'[o] = object[o]
    BY <2>1 DEF TypeOK
  <2>3. /\ Len(groups) \in Nat /\ Len(groups') = Len(groups) + 1
        /\ \A i \in 1..Len(groups) : groups'[i] = groups[i]
        /\ groups'[Len(groups) + 1].item = p
    BY <1>4, AppendFacts, Zenon
  <2>4. \A i \in 1..Len(groups) : groups[i].item # p /\ groups[i].item \in Objects
    BY <2>1, GroupFacts
  <2>5. ASSUME NEW i \in 1..Len(groups'), NEW k \in 1..Len(groups'), groups'[i].item = groups'[k].item
        PROVE  i = k
    <3>1. i \in 1..Len(groups) \/ i = Len(groups) + 1
      BY <2>3
    <3>2. k \in 1..Len(groups) \/ k = Len(groups) + 1
      BY <2>3
    <3> QED BY <3>1, <3>2, <2>3, <2>4, <2>5, <1>0
  <2>6. ASSUME NEW i \in 1..Len(groups')
        PROVE  object'[groups'[i].item] = "deferred"
    <3>1. i \in 1..Len(groups) \/ i = Len(groups) + 1
      BY <2>3
    <3> QED BY <3>1, <2>2, <2>3, <2>4, <1>0
  <2>7. ASSUME NEW o \in Objects, object'[o] = "deferred"
        PROVE  \E i \in 1..Len(groups') : groups'[i].item = o
    <3>1. CASE o = p
      <4>1. Len(groups) + 1 \in 1..Len(groups')
        BY <2>3
      <4> QED BY <3>1, <4>1, <2>3
    <3>2. CASE o # p
      <4>1. PICK i \in 1..Len(groups) : groups[i].item = o
        BY <3>2, <2>2, <2>7, <1>0, ZenonT(30)
      <4>2. i \in 1..Len(groups') /\ groups'[i] = groups[i]
        BY <2>3
      <4> QED BY <4>1, <4>2
    <3> QED BY <3>1, <3>2
  <2> QED BY <1>1, <2>5, <2>6, <2>7 DEF ReclaimedOnce
<1>5. CASE ReclaimOne \/ CloseReclaim
  <2>1. /\ Len(groups) \in Nat \ {0} /\ Len(groups') = Len(groups) - 1
        /\ \A i \in 1..Len(groups') : groups'[i] = groups[i + 1] /\ i + 1 \in 1..Len(groups)
        /\ groups[1].item \in Objects /\ object'[groups[1].item] \in {"released", "kept"}
        /\ \A p \in Objects : p # groups[1].item => object'[p] = object[p]
    BY <1>5, PopFacts
  <2>2. 1 \in 1..Len(groups)
    BY <2>1
  <2>3. ASSUME NEW i \in 1..Len(groups'), NEW k \in 1..Len(groups'), groups'[i].item = groups'[k].item
        PROVE  i = k
    <3>1. i + 1 = k + 1
      BY <2>1, <2>3, <1>0
    <3> QED BY <3>1
  <2>4. ASSUME NEW i \in 1..Len(groups')
        PROVE  object'[groups'[i].item] = "deferred"
    <3>1. groups'[i] = groups[i + 1] /\ i + 1 \in 1..Len(groups) /\ i + 1 # 1
      BY <2>1
    <3>2. groups[i + 1].item # groups[1].item
      BY <3>1, <2>2, <1>0
    <3> QED BY <3>1, <3>2, <2>1, GroupFacts
  <2>5. ASSUME NEW o \in Objects, object'[o] = "deferred"
        PROVE  \E i \in 1..Len(groups') : groups'[i].item = o
    <3>1. o # groups[1].item /\ object[o] = "deferred"
      BY <2>1, <2>5
    <3>2. PICK i \in 1..Len(groups) : groups[i].item = o
      BY <3>1, <1>0
    <3>3. i - 1 \in 1..Len(groups') /\ (i - 1) + 1 = i
      BY <3>1, <3>2, <2>1
    <3>4. groups'[i - 1] = groups[i]
      BY <3>3, <2>1
    <3> QED BY <3>2, <3>3, <3>4, ZenonT(30)
  <2> QED BY <1>1, <2>3, <2>4, <2>5 DEF ReclaimedOnce
<1> QED BY <1>2, <1>3, <1>4, <1>5, StepObjects

(* Every group of the next state is covered, and follows the earlier ones. *)
LEMMA StepGroups ==
    ASSUME IInv, [Next]_vars
    PROVE  GroupsOrdered'
<1> USE DEF IInv
<1>1. ASSUME NEW i \in 1..Len(groups), NEW g, g = groups[i]
      PROVE  g \in Group /\ GroupCovers(g) /\ GroupCovers(g)'
  <2>1. g \in Group /\ need'[g.item] = need[g.item]
    BY <1>1, GroupFacts, StepObjects
  <2>2. GroupCovers(g)
    BY <1>1 DEF GroupsOrdered
  <2> QED BY <2>1, <2>2, KeepCovers, ZenonT(30)
<1>2. ASSUME NEW i \in 1..Len(groups), NEW k \in 1..Len(groups), i < k,
             NEW g, g = groups[i], NEW h, h = groups[k]
      PROVE  Follows(g, h)'
  <2>1. g \in Group /\ h \in Group /\ GroupCovers(g)
    BY <1>1, <1>2
  <2>2. Follows(g, h)
    BY <1>2, ZenonT(30) DEF GroupsOrdered
  <2> QED BY <2>1, <2>2, KeepFollows
<1>3. ASSUME \A i \in 1..Len(groups') : \E g : g = groups'[i] /\ GroupCovers(g)',
             \A i, k \in 1..Len(groups') : i < k =>
                \E g, h : g = groups'[i] /\ h = groups'[k] /\ Follows(g, h)'
      PROVE  GroupsOrdered'
  BY <1>3 DEF GroupsOrdered, GroupCovers, Follows, Gone, Submitted
<1>4. CASE groups' = groups
  <2>1. \A i \in 1..Len(groups') : \E g : g = groups'[i] /\ GroupCovers(g)'
    BY <1>1, <1>4
  <2>2. \A i, k \in 1..Len(groups') : i < k =>
            \E g, h : g = groups'[i] /\ h = groups'[k] /\ Follows(g, h)'
    BY <1>2, <1>4
  <2> QED BY <2>1, <2>2, <1>3
<1>5. CASE ReclaimOne \/ CloseReclaim
  <2>1. \A i \in 1..Len(groups') : groups'[i] = groups[i + 1] /\ i + 1 \in 1..Len(groups)
    BY <1>5, PopFacts
  <2>2. \A i \in 1..Len(groups') : \E g : g = groups'[i] /\ GroupCovers(g)'
    BY <1>1, <2>1
  <2>3. ASSUME NEW i \in 1..Len(groups'), NEW k \in 1..Len(groups'), i < k
        PROVE  \E g, h : g = groups'[i] /\ h = groups'[k] /\ Follows(g, h)'
    <3>1. i + 1 < k + 1
      BY <2>3
    <3> QED BY <1>2, <2>1, <3>1
  <2> QED BY <2>2, <2>3, <1>3
<1>6. ASSUME NEW o \in Objects, Commit(o)
      PROVE  GroupsOrdered'
  <2>1. PICK n : n = Len(groups) + 1
    OBVIOUS
  <2>2. PICK h : h = groups'[n]
    OBVIOUS
  <2>3. /\ Len(groups) \in Nat /\ Len(groups') = n
        /\ \A i \in 1..Len(groups) : groups'[i] = groups[i]
        /\ h \in Group /\ h.item = o /\ h.snapshot = snapshot
    BY <1>6, <2>1, <2>2, AppendFacts, ZenonT(30)
  <2>4. /\ pc = "begin" /\ next > MaxQueues /\ object[o] = "freeing"
        /\ UNCHANGED <<queue, last, done, need>>
    BY <1>6, ZenonT(30) DEF Commit, Freeing, gpuVars
  <2>5. need[o] = last
    BY <2>4 DEF Histories
  <2>6. ASSUME NEW q \in Queues
        PROVE  \/ Gone(q) \/ done[q] >= last[q] \/ <<q, last[q]>> \in snapshot
    <3>1. q < next /\ done[q] \in Nat
      BY <2>4, ReclaimAssumption DEF TypeOK, Queues
    <3>2. \/ Gone(q) \/ last[q] = 0 \/ done[q] >= last[q] \/ <<q, last[q]>> \in snapshot
      BY <3>1, <2>4, ZenonT(30) DEF SnapshotCovers
    <3> QED BY <3>1, <3>2
  <2>7. GroupCovers(h)'
    <3>1. ASSUME NEW q \in Queues
          PROVE  \/ Gone(q)' \/ done'[q] >= need'[h.item][q]
                 \/ <<q, need'[h.item][q]>> \in h.snapshot
      BY <2>3, <2>4, <2>5, <2>6, ZenonT(30) DEF Gone
    <3>2. Submitted(h.snapshot)'
      BY <2>3, KeepSubmitted, SMTT(30)
    <3> QED BY <3>1, <3>2, ZenonT(30) DEF GroupCovers
  <2>8. ASSUME NEW i \in 1..Len(groups), NEW g, g = groups[i]
        PROVE  Follows(g, h)'
    <3> SUFFICES ASSUME NEW q \in Queues, NEW t \in 0..MaxToken, <<q, t>> \in g.snapshot
                 PROVE  \/ Gone(q)' \/ done'[q] >= t
                        \/ \E u \in 0..MaxToken : u >= t /\ <<q, u>> \in h.snapshot
      BY ZenonT(30) DEF Follows
    <3>1. t <= last[q]
      BY <1>1, <2>8 DEF GroupCovers, Submitted
    <3>2. t \in Nat /\ last[q] \in 0..MaxToken /\ last[q] \in Nat /\ done[q] \in Nat
      <4>1. TypeOK
        BY Zenon
      <4>2. last[q] \in 0..MaxToken /\ done[q] \in 0..MaxToken
        BY ONLY <4>1, q \in Queues DEF TypeOK
      <4>3. MaxToken \in Nat
        BY ONLY ReclaimAssumption
      <4> QED BY ONLY <4>2, <4>3, t \in 0..MaxToken
    <3>3. CASE Gone(q) \/ done[q] >= last[q]
      BY <3>1, <3>2, <3>3, <2>4 DEF Gone
    <3>4. CASE <<q, last[q]>> \in snapshot
      BY <3>1, <3>2, <3>4, <2>3, ZenonT(30)
    <3> QED BY <3>3, <3>4, <2>6, Zenon
  <2>9. ASSUME NEW i \in 1..Len(groups')
        PROVE  i \in 1..Len(groups) \/ i = n
    BY <2>1, <2>3
  <2>10. \A i \in 1..Len(groups') : \E g : g = groups'[i] /\ GroupCovers(g)'
    BY <1>1, <2>2, <2>3, <2>7, <2>9
  <2>11. ASSUME NEW i \in 1..Len(groups'), NEW k \in 1..Len(groups'), i < k
         PROVE  \E g, f : g = groups'[i] /\ f = groups'[k] /\ Follows(g, f)'
    <3>1. i \in 1..Len(groups)
      BY <2>1, <2>3, <2>11
    <3>2. CASE k = n
      BY <3>1, <3>2, <2>2, <2>3, <2>8, ZenonT(30)
    <3>3. CASE k \in 1..Len(groups)
      BY <3>1, <3>3, <2>11, <2>3, <1>2, ZenonT(30)
    <3> QED BY <3>2, <3>3, <2>9
  <2> QED BY <2>10, <2>11, <1>3
<1> QED BY <1>4, <1>5, <1>6, StepObjects, ZenonT(30) DEF Free, ReclaimNow

(* An object becomes released only when all it needs has retired.          *)
LEMMA StepReleased ==
    ASSUME IInv, [Next]_vars
    PROVE  NoUseAfterReclaim'
<1> USE DEF IInv
<1> SUFFICES ASSUME NEW o \in Objects, object'[o] = "released", NEW q \in Queues
             PROVE  Gone(q)' \/ done'[q] >= need'[o][q]
  BY ZenonT(30) DEF NoUseAfterReclaim, Gone
<1>1. /\ done[q] \in Nat /\ done'[q] \in Nat /\ last[q] \in Nat /\ need[o][q] \in Nat
      /\ done[q] <= done'[q] /\ (Gone(q) => Gone(q)' \/ last[q] = 0) /\ need[o][q] <= last[q]
  <2>1. done[q] \in Nat /\ last[q] \in Nat /\ need[o][q] \in Nat
    BY ReclaimAssumption DEF TypeOK
  <2>2. done'[q] \in Nat
    BY StepTypes, ReclaimAssumption, SMTT(30) DEF TypeOK
  <2>3. need[o][q] <= last[q]
    BY DEF Histories
  <2>4. TypeOK /\ Histories
    BY ZenonT(30)
  <2>5. done[q] <= done'[q] /\ (Gone(q) => Gone(q)' \/ last[q] = 0)
    BY ONLY <2>4, [Next]_vars, q \in Queues, StepMonotone
  <2> QED BY ONLY <2>1, <2>2, <2>3, <2>5, ZenonT(30)
<1>2. object[o] # "live" => need'[o] = need[o]
  BY StepObjects, Zenon
<1>3. ASSUME object[o] # "live", Gone(q) \/ done[q] >= need[o][q]
      PROVE  Gone(q)' \/ done'[q] >= need'[o][q]
  BY <1>1, <1>2, <1>3
<1>4. CASE object[o] = "released"
  BY <1>3, <1>4, ZenonT(30) DEF NoUseAfterReclaim, Gone
<1>5. ASSUME NEW p \in Objects, Free(p) \/ Commit(p), object[o] # "released"
      PROVE  FALSE
  BY <1>5, SMTT(30) DEF Free, Commit, TypeOK
<1>6. ASSUME NEW p \in Objects, ReclaimNow(p), object[o] # "released"
      PROVE  Gone(q)' \/ done'[q] >= need'[o][q]
  <2>1. /\ pc = "begin" /\ next > MaxQueues /\ object[p] = "freeing" /\ snapshot = {}
        /\ ReclaimItem(p)
    BY <1>6, SMTT(30) DEF ReclaimNow, Freeing
  <2>2. o = p
    <3>1. TypeOK
      BY ZenonT(30)
    <3> QED BY ONLY <3>1, <2>1, <1>6, o \in Objects, object'[o] = "released", ItemFrees
  <2>3. need[o] = last
    BY <2>1, <2>2, ZenonT(30) DEF Histories
  <2>4. q < next
    BY <2>1, ReclaimAssumption, SMTT(30) DEF TypeOK, Queues
  <2>5. Gone(q) \/ last[q] = 0 \/ done[q] >= last[q]
    BY <2>1, <2>4, ZenonT(30) DEF SnapshotCovers
  <2>6. Gone(q) \/ done[q] >= need[o][q]
    BY ONLY <1>1, <2>3, <2>5
  <2>7. object[o] # "live"
    BY ONLY <2>1, <2>2, ZenonT(30)
  <2> QED BY <1>3, <2>6, <2>7, Zenon
<1>7. ASSUME ReclaimOne \/ CloseReclaim, object[o] # "released"
      PROVE  Gone(q)' \/ done'[q] >= need'[o][q]
  <2>1. PICK g : g = groups[1]
    BY ZenonT(30)
  <2>2. /\ 1 \in 1..Len(groups) /\ o = g.item
    BY <1>7, <2>1, PopFacts, SMTT(30)
  <2>3. g \in Group /\ object[o] = "deferred" /\ g = Head(groups) /\ GroupCovers(g)
    BY <2>1, <2>2, GroupFacts, TailFacts, <1>7, ZenonT(30) DEF GroupsOrdered, ReclaimOne, CloseReclaim, PopRetired
  <2>4. Gone(q) \/ done[q] >= need[o][q] \/ <<q, need[o][q]>> \in g.snapshot
    BY <2>2, <2>3 DEF GroupCovers
  <2>5. CASE CloseReclaim
    BY <2>5, <2>3, <1>3, Zenon DEF CloseReclaim, Histories
  <2>6. CASE ReclaimOne
    <3>1. GroupRetired(g)
      BY <2>6, <2>3 DEF ReclaimOne, PopRetired, HeadRetired
    <3>2. <<q, need[o][q]>> \in g.snapshot => Gone(q) \/ done[q] >= need[o][q]
      BY <3>1 DEF GroupRetired, Retired, Gone
    <3> QED BY <2>3, <2>4, <3>2, <1>3, ZenonT(30)
  <2> QED BY <1>7, <2>5, <2>6
<1> QED BY <1>4, <1>5, <1>6, <1>7, StepObjects, ZenonT(30)

(* The initial state satisfies the invariant.                              *)
LEMMA InitInv == Init => IInv
<1> SUFFICES ASSUME Init
             PROVE  IInv
  OBVIOUS
<1> USE ReclaimAssumption DEF Init
<1>1. TypeOK
  <2>1. groups \in Seq(Group) /\ snapshot \in SUBSET Tokens
    OBVIOUS
  <2>2. 0 \in 0..MaxToken /\ 1 \in 1..(MaxQueues + 1) /\ 0 \in 0..RECLAIM_BUDGET
    OBVIOUS
  <2>3. /\ last \in [Queues -> 0..MaxToken] /\ done \in [Queues -> 0..MaxToken]
        /\ \A q \in Queues : done[q] <= last[q]
    BY <2>2
  <2>4. need \in [Objects -> [Queues -> 0..MaxToken]]
    BY <2>2
  <2> QED BY <2>1, <2>2, <2>3, <2>4, Zenon DEF TypeOK
<1>2. Histories
  BY DEF Histories, Gone
<1>3. SnapshotCovers /\ Submitted(snapshot) /\ NoUseAfterReclaim
  BY DEF SnapshotCovers, Submitted, NoUseAfterReclaim
<1>4. GroupsOrdered /\ ReclaimedOnce
  <2>1. Len(groups) = 0 /\ 1..0 = {}
    OBVIOUS
  <2> QED BY <2>1 DEF GroupsOrdered, ReclaimedOnce
<1> QED BY <1>1, <1>2, <1>3, <1>4 DEF IInv

(* The invariant of deferred reclamation holds in every reachable state.   *)
THEOREM ReclaimInductive == Spec => []IInv
<1>1. IInv /\ [Next]_vars => IInv'
  <2> SUFFICES ASSUME IInv, [Next]_vars
               PROVE  IInv'
    OBVIOUS
  <2>1. TypeOK' /\ Histories' /\ SnapshotCovers' /\ Submitted(snapshot)' /\ ReclaimedOnce'
    BY StepTypes, StepHistories, StepSnapshot, StepSubmitted, StepOnce DEF IInv
  <2>2. GroupsOrdered' /\ NoUseAfterReclaim'
    BY StepGroups, StepReleased
  <2> QED BY <2>1, <2>2 DEF IInv
<1> QED BY InitInv, <1>1, PTL DEF Spec

(* nv_rm_free and nv_rm_va_free never give back memory or an address range *)
(* that submitted work can still reach, for any number of objects, queues  *)
(* and batches.                                                            *)
THEOREM ReclaimSafe == Spec => []NoUseAfterReclaim
BY ReclaimInductive, PTL DEF IInv

(* Every deferred object is in exactly one group, and none is left behind  *)
(* by nv_rm_close.                                                         *)
THEOREM ReclaimOnce == Spec => []ReclaimedOnce
BY ReclaimInductive, PTL DEF IInv

(* The state of reclaim.rs and its callers stays well typed.               *)
THEOREM ReclaimTypes == Spec => []TypeOK
BY ReclaimInductive, PTL DEF IInv

(* FIFO reclamation loses nothing by stopping at the first unretired       *)
(* group, as the header of reclaim.rs argues.                              *)
THEOREM ReclaimFifo == Spec => []FifoSound
<1>1. IInv => FifoSound
  <2> SUFFICES ASSUME IInv, \A q \in Queues : queue[q] # "error",
                      NEW i \in 1..Len(groups), NEW k \in 1..Len(groups), i < k,
                      GroupRetired(groups[k])
               PROVE  GroupRetired(groups[i])
    BY ZenonT(30) DEF FifoSound
  <2>1. GroupCovers(groups[i]) /\ Follows(groups[i], groups[k]) /\ groups[i] \in Group
    BY GroupFacts, ZenonT(30) DEF IInv, GroupsOrdered
  <2> SUFFICES ASSUME NEW e \in groups[i].snapshot
               PROVE  Retired(e[1], e[2])
    BY DEF GroupRetired
  <2>2. e \in Tokens
    BY <2>1 DEF Group
  <2>3. PICK q \in Queues, t \in 0..MaxToken : e = <<q, t>>
    BY <2>2, SMTT(30) DEF Tokens
  <2>0. done[q] \in Nat /\ t \in Nat /\ queue[q] \in {"absent", "open", "error", "freed"}
    BY <2>3, ReclaimAssumption DEF IInv, TypeOK
  <2>4. queue[q] \in {"open", "freed"} /\ done[q] \in Nat /\ t \in Nat
    BY <2>0, <2>1, <2>3, ZenonT(30) DEF GroupCovers, Submitted
  <2>5. Gone(q) \/ done[q] >= t \/ \E u \in 0..MaxToken : u >= t /\ <<q, u>> \in groups[k].snapshot
    BY <2>1, <2>3, ZenonT(30) DEF Follows
  <2>6. ASSUME NEW u \in 0..MaxToken, u >= t, <<q, u>> \in groups[k].snapshot
        PROVE  queue[q] = "freed" \/ done[q] >= t
    <3>1. queue[q] = "freed" \/ done[q] >= u
      BY <2>6 DEF GroupRetired, Retired
    <3> QED BY <3>1, <2>4, <2>6, ReclaimAssumption
  <2> QED BY <2>3, <2>4, <2>5, <2>6, Zenon DEF Gone, Retired
<1> QED BY ReclaimInductive, <1>1, PTL

(* An object that may be reclaimed at once may overtake all older groups:  *)
(* they have retired as well, as reclaim_or_defer says.                    *)
THEOREM ReclaimOvertakes == Spec => []EmptySnapshotSound
<1>1. IInv => EmptySnapshotSound
  <2> SUFFICES ASSUME IInv, pc = "begin", next > MaxQueues, snapshot = {},
                      NEW i \in 1..Len(groups), NEW e \in groups[i].snapshot
               PROVE  Retired(e[1], e[2])
    BY DEF EmptySnapshotSound, GroupRetired
  <2>1. GroupCovers(groups[i]) /\ groups[i] \in Group
    BY GroupFacts, ZenonT(30) DEF IInv, GroupsOrdered
  <2>2. e \in Tokens
    BY <2>1 DEF Group
  <2>3. PICK q \in Queues, t \in 0..MaxToken : e = <<q, t>>
    BY <2>2 DEF Tokens
  <2>0. t \in Nat /\ done[q] \in Nat /\ last[q] \in Nat
    BY <2>3, ReclaimAssumption, SMTT(30) DEF IInv, TypeOK
  <2>4. t # 0 /\ t <= last[q] /\ queue[q] # "absent"
    BY <2>1, <2>3 DEF GroupCovers, Submitted
  <2>5. q < next
    BY ReclaimAssumption DEF IInv, TypeOK, Queues
  <2>6. Gone(q) \/ last[q] = 0 \/ (queue[q] = "open" /\ done[q] >= last[q])
    BY <2>5 DEF IInv, SnapshotCovers
  <2> QED BY <2>0, <2>3, <2>4, <2>6 DEF Gone, Retired
<1> QED BY ReclaimInductive, <1>1, PTL

(* pop_retired neither repeats nor loses a deferred object, and an object  *)
(* freed with an empty snapshot overtakes only retired groups, for any     *)
(* number of objects, queues and batches.                                  *)
THEOREM ReclaimIsSound == Spec => []ReclaimSound
BY ReclaimOnce, ReclaimOvertakes, PTL DEF ReclaimSound
=============================================================================
