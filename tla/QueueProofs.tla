---------------------------- MODULE QueueProofs ----------------------------
(***************************************************************************)
(* Proof that the batches of a queue reach its ring and finish in the      *)
(* order of the calls of vkQueueSubmit, for any number of threads, queues  *)
(* and semaphores and every size of the rings.                             *)
(*                                                                         *)
(* The argument: a submission that no ring has taken is in the hands of    *)
(* the one call in progress on its queue, or in the list of the queue's    *)
(* submit thread; the list is in the order of the calls and before the     *)
(* call in progress; and a call that goes to the driver itself found the   *)
(* list empty.                                                             *)
(***************************************************************************)
EXTENDS QueueSubmit, TLAPS

Submission ==
    [queue : Queues, waits : SUBSET Points, signals : SUBSET Points,
     takes : SUBSET Binaries, gives : SUBSET Binaries, after : SUBSET Nat]

Types ==
    /\ subs \in Seq(Submission)
    /\ accepted \subseteq 1..Len(subs) /\ done \subseteq accepted
    /\ current \in [Binaries -> Nat]
    /\ call \in [Threads -> [pc : {"idle", "mode", "defer", "driver", "full"}, sub : Nat]]
    /\ list \in [Queues -> Seq(Nat)] /\ ring \in [Queues -> Seq(Nat)]
    /\ started \subseteq Queues
    /\ worker \in [Queues -> {"idle", "driver", "full", "remove"}]

Calling(t) == call[t].pc # "idle"
CallQueue(t) == subs[call[t].sub].queue

(* Calls on one queue do not overlap; one that may go to the driver itself *)
(* found the submit thread's list empty, any other started the thread.     *)
Calls ==
    /\ \A t \in Threads : Calling(t) => call[t].sub \in (1..Len(subs)) \ accepted
    /\ \A t, u \in Threads :
         Calling(t) /\ Calling(u) /\ t # u => CallQueue(t) # CallQueue(u)
    /\ \A t \in Threads : call[t].pc = "defer" => CallQueue(t) \in started
    /\ \A t \in Threads : call[t].pc \in {"driver", "full"} => list[CallQueue(t)] = <<>>

(* The list of a submit thread holds submissions of its queue, in the      *)
(* order of the calls, that no ring has taken, but for the head between    *)
(* the driver's return and its removal.                                    *)
ListOf(q) ==
    /\ q \notin started => list[q] = <<>>
    /\ worker[q] # "idle" => list[q] # <<>>
    /\ \A a \in 1..Len(list[q]) :
         /\ list[q][a] \in 1..Len(subs) /\ subs[list[q][a]].queue = q
         /\ list[q][a] \in accepted <=> a = 1 /\ worker[q] = "remove"
         /\ \A t \in Threads : Calling(t) /\ CallQueue(t) = q => list[q][a] < call[t].sub
    /\ \A a, b \in 1..Len(list[q]) : a < b => list[q][a] < list[q][b]

Lists == \A q \in Queues : ListOf(q)

(* Nothing is lost between a call and its ring.                            *)
Held(i) ==
    \/ \E t \in Threads : Calling(t) /\ call[t].sub = i
    \/ \E a \in 1..Len(list[subs[i].queue]) : list[subs[i].queue][a] = i

NothingLost == \A i \in (1..Len(subs)) \ accepted : Held(i)

(* A ring holds the accepted and unfinished batches of its queue, in the   *)
(* order of the calls.                                                     *)
RingOf(q) ==
    /\ \A a \in 1..Len(ring[q]) : ring[q][a] \in accepted \ done /\ subs[ring[q][a]].queue = q
    /\ \A a, b \in 1..Len(ring[q]) : a < b => ring[q][a] < ring[q][b]

InRing(i) == \E a \in 1..Len(ring[subs[i].queue]) : ring[subs[i].queue][a] = i

Rings ==
    /\ \A i \in accepted : Before(i) \subseteq accepted
    /\ \A q \in Queues : RingOf(q)
    /\ \A i \in accepted \ done : InRing(i)

IInv == Types /\ Calls /\ Lists /\ NothingLost /\ Rings

-----------------------------------------------------------------------------
(* What the driver is given next.                                          *)

(* The submission a caller brings to the driver, or the head of the list,  *)
(* has nothing of its queue before it outside the ring.                    *)
LEMMA CallerIsNext ==
    ASSUME IInv, NEW t \in Threads, call[t].pc = "driver"
    PROVE  /\ call[t].sub \in (1..Len(subs)) \ accepted
           /\ CallQueue(t) \in Queues
           /\ Before(call[t].sub) \subseteq accepted
<1> DEFINE i == call[t].sub
<1>1. Calling(t) /\ i \in (1..Len(subs)) \ accepted
  BY DEF IInv, Calls, Calling
<1>2. CallQueue(t) \in Queues /\ list[CallQueue(t)] = <<>>
  <2>1. subs[i] \in Submission
    BY <1>1 DEF IInv, Types
  <2> QED
    BY <2>1 DEF IInv, Calls, CallQueue, Submission
<1>3. ASSUME NEW j \in Before(i), j \notin accepted  PROVE FALSE
  <2>1. j \in 1..Len(subs) /\ subs[j].queue = CallQueue(t) /\ j < i
    BY <1>3 DEF Before, CallQueue, IInv, Types
  <2>2. Held(j)
    BY <1>3, <2>1 DEF IInv, NothingLost
  <2>3. PICK u \in Threads : Calling(u) /\ call[u].sub = j
    BY <1>2, <2>1, <2>2 DEF Held
  <2>4. u # t
    BY <2>1, <2>3
  <2> QED
    BY <1>1, <2>1, <2>3, <2>4 DEF IInv, Calls, CallQueue
<1> QED
  BY <1>1, <1>2, <1>3

LEMMA HeadIsNext ==
    ASSUME IInv, NEW q \in Queues, worker[q] = "driver"
    PROVE  /\ list[q] # <<>>
           /\ Head(list[q]) \in (1..Len(subs)) \ accepted
           /\ subs[Head(list[q])].queue = q
           /\ Before(Head(list[q])) \subseteq accepted
<1> DEFINE i == Head(list[q])
<1>1. list[q] \in Seq(Nat) /\ list[q] # <<>>
  BY DEF IInv, Types, Lists, ListOf
<1>2. 1 \in 1..Len(list[q]) /\ i = list[q][1]
  BY <1>1
<1>3. i \in (1..Len(subs)) \ accepted /\ subs[i].queue = q
  BY <1>2 DEF IInv, Lists, ListOf
<1>4. ASSUME NEW j \in Before(i), j \notin accepted  PROVE FALSE
  <2>1. j \in 1..Len(subs) /\ subs[j].queue = q /\ j < i
    BY <1>3, <1>4 DEF Before, IInv, Types
  <2>2. Held(j)
    BY <1>4, <2>1 DEF IInv, NothingLost
  <2>3. CASE \E u \in Threads : Calling(u) /\ call[u].sub = j
    BY <1>2, <2>1, <2>3 DEF IInv, Lists, ListOf, CallQueue
  <2>4. CASE \E a \in 1..Len(list[q]) : list[q][a] = j
    <3>1. PICK a \in 1..Len(list[q]) : list[q][a] = j
      BY <2>4
    <3>2. 1 < a
      BY <1>1, <1>2, <2>1, <3>1
    <3>3. list[q][1] < list[q][a]
      BY <1>2, <3>2 DEF IInv, Lists, ListOf
    <3> QED
      BY <1>1, <1>2, <2>1, <3>1, <3>3
  <2> QED
    BY <2>1, <2>2, <2>3, <2>4 DEF Held
<1> QED
  BY <1>1, <1>3, <1>4

(* The head of a ring is the oldest unfinished batch of its queue.         *)
LEMMA RingHeadIsOldest ==
    ASSUME IInv, NEW q \in Queues, ring[q] # <<>>
    PROVE  /\ Head(ring[q]) \in accepted \ done
           /\ subs[Head(ring[q])].queue = q
           /\ Before(Head(ring[q])) \subseteq done
<1> DEFINE i == Head(ring[q])
<1>1. ring[q] \in Seq(Nat)
  BY DEF IInv, Types
<1>2. 1 \in 1..Len(ring[q]) /\ i = ring[q][1]
  BY <1>1
<1>3. i \in accepted \ done /\ subs[i].queue = q
  BY <1>2 DEF IInv, Rings, RingOf, InRing
<1>4. ASSUME NEW j \in Before(i), j \notin done  PROVE FALSE
  <2>1. j \in accepted \ done /\ subs[j].queue = q /\ j < i
    BY <1>3, <1>4 DEF Before, IInv, Rings
  <2>2. PICK a \in 1..Len(ring[q]) : ring[q][a] = j
    BY <2>1 DEF IInv, Rings, RingOf, InRing
  <2>3. 1 < a
    BY <1>1, <1>2, <2>1, <2>2
  <2> QED
    BY <1>1, <1>2, <2>1, <2>2, <2>3 DEF IInv, Rings, RingOf, InRing
<1> QED
  BY <1>3, <1>4

-----------------------------------------------------------------------------
(* Each step keeps the invariant.                                          *)

(* Accepting the next submission of a queue extends its ring in order.     *)
LEMMA AcceptKeepsRings ==
    ASSUME IInv, NEW q \in Queues, NEW i \in (1..Len(subs)) \ accepted,
           subs[i].queue = q, Before(i) \subseteq accepted,
           Accept(q, i), UNCHANGED <<subs, done>>
    PROVE  Rings'
<1>1. /\ ring[q] \in Seq(Nat) /\ ring'[q] = Append(ring[q], i)
      /\ \A p \in Queues : p # q => ring'[p] = ring[p]
  BY DEF IInv, Types, Accept
<1>2. accepted' = accepted \cup {i} /\ i \notin done /\ i \in Nat
  BY DEF IInv, Types, Accept
<1>3. \A j \in accepted' : Before(j)' \subseteq accepted'
  BY <1>2 DEF IInv, Rings, RingOf, InRing, Before
<1>4. ASSUME NEW p \in Queues
      PROVE  /\ \A a \in 1..Len(ring'[p]) : ring'[p][a] \in accepted' \ done' /\ subs'[ring'[p][a]].queue = p
             /\ \A a, b \in 1..Len(ring'[p]) : a < b => ring'[p][a] < ring'[p][b]
  <2>1. CASE p # q
    BY <1>1, <1>2, <2>1 DEF IInv, Rings, RingOf, InRing
  <2>2. CASE p = q
    <3>1. Len(ring'[q]) = Len(ring[q]) + 1 /\ Len(ring[q]) \in Nat
      BY <1>1
    <3>2. ring'[q][Len(ring[q]) + 1] = i /\ \A a \in 1..Len(ring[q]) : ring'[q][a] = ring[q][a]
      BY <1>1
    <3>6. \A a \in 1..Len(ring'[q]) : a \in 1..Len(ring[q]) \/ a = Len(ring[q]) + 1
      BY <3>1
    <3>7. /\ \A a \in 1..Len(ring[q]) : ring[q][a] \in accepted \ done /\ subs[ring[q][a]].queue = q
          /\ \A a, b \in 1..Len(ring[q]) : a < b => ring[q][a] < ring[q][b]
      BY Zenon DEF IInv, Rings, RingOf, InRing
    <3>3. \A a \in 1..Len(ring[q]) : ring[q][a] < i
      <4>1. ASSUME NEW a \in 1..Len(ring[q]) PROVE ring[q][a] < i
        <5> DEFINE j == ring[q][a]
        <5>1. j \in accepted /\ subs[j].queue = q /\ j \in 1..Len(subs)
          BY DEF IInv, Rings, RingOf, InRing, Types
        <5>2. j < i \/ j = i \/ i < j
          BY <5>1
        <5>3. i < j => i \in Before(j)
          BY <5>1 DEF Before, IInv, Types
        <5> QED
          BY <5>1, <5>2, <5>3 DEF IInv, Rings, RingOf, InRing
      <4> QED
        BY <4>1
    <3>4. \A a \in 1..Len(ring'[q]) : ring'[q][a] \in accepted' \ done' /\ subs'[ring'[q][a]].queue = q
      BY <1>2, <3>6, <3>2, <3>7
    <3>5. \A a, b \in 1..Len(ring'[q]) : a < b => ring'[q][a] < ring'[q][b]
      <4> SUFFICES ASSUME NEW a \in 1..Len(ring'[q]), NEW b \in 1..Len(ring'[q]), a < b
                   PROVE  ring'[q][a] < ring'[q][b]
        OBVIOUS
      <4>1. a \in 1..Len(ring[q])
        BY <3>1
      <4>2. CASE b \in 1..Len(ring[q])
        BY <4>1, <4>2, <3>2, <3>7
      <4>3. CASE b = Len(ring[q]) + 1
        BY <4>1, <4>3, <3>2, <3>3, ZenonT(30)
      <4> QED
        BY <3>6, <4>2, <4>3
    <3> QED
      BY <2>2, <3>4, <3>5
  <2> QED
    BY <2>1, <2>2, ZenonT(30)
<1>5. ASSUME NEW j \in accepted' \ done'
      PROVE  \E a \in 1..Len(ring'[subs'[j].queue]) : ring'[subs'[j].queue][a] = j
  <2>1. CASE j = i
    BY <1>1, <2>1
  <2>2. CASE j # i
    <3>1. j \in accepted \ done
      BY <1>2, <2>2
    <3>2. subs[j] \in Submission
      BY <3>1 DEF IInv, Types
    <3>3. subs[j].queue \in Queues
      BY <3>2 DEF Submission
    <3>4. PICK a \in 1..Len(ring[subs[j].queue]) : ring[subs[j].queue][a] = j
      BY <3>1, ZenonT(30) DEF IInv, Rings, RingOf, InRing
    <3>5. a \in 1..Len(ring'[subs[j].queue]) /\ ring'[subs[j].queue][a] = ring[subs[j].queue][a]
      <4>1. CASE subs[j].queue = q
        <5>1. ring'[q] = Append(ring[q], i) /\ a \in 1..Len(ring[q]) /\ ring[q] \in Seq(Nat)
          BY <1>1, <3>4, <4>1
        <5>2. a \in 1..Len(ring'[q]) /\ ring'[q][a] = ring[q][a]
          BY <5>1
        <5> QED
          BY <4>1, <5>2
      <4>2. CASE subs[j].queue # q
        BY <1>1, <3>3, <3>4, <4>2
      <4> QED
        BY <4>1, <4>2
    <3> QED
      BY <3>4, <3>5
  <2> QED
    BY <2>1, <2>2
<1> QED
  BY <1>3, <1>4, <1>5 DEF Rings, RingOf, InRing
(* What a step that leaves submissions, lists and rings alone must keep.   *)
LEMMA QuietStep ==
    ASSUME IInv, UNCHANGED <<subs, accepted, done, current, call, list, ring>>,
           started' \in SUBSET Queues, started \subseteq started',
           worker' \in [Queues -> {"idle", "driver", "full", "remove"}],
           \A q \in Queues : /\ worker'[q] # "idle" => list[q] # <<>>
                             /\ worker'[q] = "remove" <=> worker[q] = "remove"
    PROVE  IInv'
<1>1. Types'
  BY DEF IInv, Types
<1>2. Calls'
  BY DEF IInv, Calls, Calling, CallQueue
<1>3. Lists'
  BY DEF IInv, Lists, ListOf, Calling, CallQueue
<1>4. NothingLost'
  BY DEF IInv, NothingLost, Held, Calling
<1>5. Rings'
  BY DEF IInv, Rings, RingOf, InRing, Before
<1> QED
  BY <1>1, <1>2, <1>3, <1>4, <1>5 DEF IInv

LEMMA InitKeeps == Init => IInv
<1> SUFFICES ASSUME Init PROVE IInv
  OBVIOUS
<1>1. Len(subs) = 0 /\ subs \in Seq(Submission)
  BY DEF Init
<1>2. Types
  BY <1>1 DEF Init, Types
<1>3. Calls
  BY DEF Init, Calls, Calling
<1>4. Lists
  BY DEF Init, Lists, ListOf, Calling
<1>5. NothingLost
  BY <1>1 DEF Init, NothingLost
<1>6. Rings
  BY DEF Init, Rings, RingOf, InRing
<1> QED
  BY <1>2, <1>3, <1>4, <1>5, <1>6 DEF IInv

(* A new call: its submission comes after every other.                     *)
LEMMA CallKeeps ==
    ASSUME IInv, NEW t \in Threads, NEW q \in Queues,
           NEW waits \in SUBSET Points, NEW takes \in SUBSET Binaries,
           NEW signals \in SUBSET Points, NEW gives \in SUBSET Binaries,
           Call(t, q, waits, takes, signals, gives)
    PROVE  IInv'
<1> DEFINE n == Len(subs) + 1
<1> DEFINE new == [queue |-> q, waits |-> waits, signals |-> signals,
                   takes |-> takes, gives |-> gives, after |-> {current[s] : s \in takes}]
<1>1. subs \in Seq(Submission) /\ Len(subs) \in Nat /\ n \notin accepted /\ n \in Nat
  BY DEF IInv, Types
<1>2. {current[s] : s \in takes} \in SUBSET Nat
  BY DEF IInv, Types
<1>3. new \in Submission
  BY <1>2 DEF Submission
<1>4. subs' = Append(subs, new)
  BY DEF Call
<1> HIDE DEF new
<1>5. /\ subs' \in Seq(Submission) /\ Len(subs') = n /\ subs'[n] = new
      /\ \A i \in 1..Len(subs) : subs'[i] = subs[i]
  BY <1>1, <1>3, <1>4
<1>6. new.queue = q
  BY DEF new
<1>7. /\ UNCHANGED <<accepted, done, current, list, started, worker, ring>>
      /\ call[t].pc = "idle" /\ call' = [call EXCEPT ![t] = [pc |-> "mode", sub |-> n]]
  BY DEF Call
<1>8. \A i \in 1..Len(subs') : i \in 1..Len(subs) \/ i = n
  BY <1>1, <1>5
<1>9. 1..Len(subs) \subseteq 1..Len(subs') /\ n \in 1..Len(subs') /\ \A i \in 1..Len(subs) : i < n
  BY <1>1, <1>5
<1>10. call'[t] = [pc |-> "mode", sub |-> n] /\ \A u \in Threads : u # t => call'[u] = call[u]
  BY <1>7, ZenonT(30) DEF IInv, Types
<1>11. \A u \in Threads : Calling(u) => u # t /\ call[u].sub \in (1..Len(subs)) \ accepted /\ CallQueue(u) # q
  <2>1. \A u \in Threads : Calling(u) => u # t /\ call[u].sub \in (1..Len(subs)) \ accepted
    BY <1>7 DEF IInv, Calls, Calling
  <2>2. \A u \in Threads : Calling(u) => call[u].sub \in InUse
    BY <2>1 DEF InUse
  <2> QED
    BY <2>1, <2>2 DEF Call, CallQueue
<1>12. Types'
  <2>1. accepted' \subseteq 1..Len(subs')
    BY <1>7, <1>9 DEF IInv, Types
  <2>2. call' \in [Threads -> [pc : {"idle", "mode", "defer", "driver", "full"}, sub : Nat]]
    BY <1>1, <1>7 DEF IInv, Types
  <2> QED
    BY <1>5, <1>7, <2>1, <2>2, ZenonT(30) DEF IInv, Types
<1>13. \A u \in Threads : Calling(u)' <=> Calling(u) \/ u = t
  BY <1>10 DEF Calling
<1>14. CallQueue(t)' = q /\ \A u \in Threads : Calling(u) => CallQueue(u)' = CallQueue(u)
  BY <1>5, <1>6, <1>10, <1>11 DEF CallQueue
<1>15. Calls'
  <2>1. \A u \in Threads : Calling(u)' => call'[u].sub \in (1..Len(subs')) \ accepted'
    BY <1>1, <1>7, <1>9, <1>10, <1>11, <1>13, SMTT(30)
  <2>2. \A u, v \in Threads : Calling(u)' /\ Calling(v)' /\ u # v => CallQueue(u)' # CallQueue(v)'
    BY <1>11, <1>13, <1>14, ZenonT(30) DEF IInv, Calls
  <2>3. \A u \in Threads : call'[u].pc = "defer" => CallQueue(u)' \in started'
    BY <1>7, <1>10, <1>14 DEF IInv, Calls, Calling
  <2>4. \A u \in Threads : call'[u].pc \in {"driver", "full"} => list'[CallQueue(u)'] = <<>>
    BY <1>7, <1>10, <1>14, SMTT(30) DEF IInv, Calls, Calling
  <2> QED
    BY <2>1, <2>2, <2>3, <2>4 DEF Calls
<1>16. Lists'
  <2> SUFFICES ASSUME NEW p \in Queues PROVE ListOf(p)'
    BY DEF Lists
  <2>1. ListOf(p) /\ UNCHANGED <<accepted, list, started, worker>>
    BY <1>7, ZenonT(30) DEF IInv, Lists
  <2>2. ASSUME NEW a \in 1..Len(list[p])
        PROVE  list[p][a] \in 1..Len(subs') /\ subs'[list[p][a]].queue = p
    BY <1>5, <1>9, <2>1, ZenonT(30) DEF ListOf
  <2>3. ASSUME NEW a \in 1..Len(list[p]), NEW u \in Threads, Calling(u)', CallQueue(u)' = p
        PROVE  list[p][a] < call'[u].sub
    <3>1. list[p][a] \in 1..Len(subs) /\ (Calling(u) /\ CallQueue(u) = p => list[p][a] < call[u].sub)
      BY <2>1, <2>3, ZenonT(30) DEF ListOf
    <3>2. CASE u = t
      BY <1>9, <1>10, <3>1, <3>2, SMTT(30)
    <3>3. CASE u # t
      BY <1>10, <1>13, <1>14, <2>3, <3>1, <3>3
    <3> QED
      BY <3>2, <3>3
  <2> QED
    BY <2>1, <2>2, <2>3 DEF ListOf
<1>17. NothingLost'
  <2> SUFFICES ASSUME NEW i \in (1..Len(subs')) \ accepted' PROVE Held(i)'
    BY DEF NothingLost
  <2>1. CASE i = n
    BY <1>10, <1>13, <2>1, SMTT(30) DEF Held
  <2>2. CASE i \in 1..Len(subs)
    <3>1. Held(i)
      BY <1>7, <2>2, ZenonT(30) DEF IInv, NothingLost
    <3> QED
      BY <1>5, <1>7, <1>10, <1>11, <1>13, <2>2, <3>1 DEF Held
  <2> QED
    BY <1>8, <2>1, <2>2
<1>18. Rings'
  <2>1. ASSUME NEW i \in accepted' PROVE Before(i)' \subseteq accepted' /\ subs'[i] = subs[i] /\ i \in accepted
    <3>1. i \in accepted /\ i \in 1..Len(subs) /\ DOMAIN subs' = 1..n /\ DOMAIN subs = 1..Len(subs)
      BY <1>1, <1>5, <1>7, SMTT(30) DEF IInv, Types
    <3>2. Before(i)' = Before(i)
      BY <1>1, <1>5, <1>8, <3>1 DEF Before
    <3> QED
      BY <1>5, <1>7, <3>1, <3>2, SMTT(30) DEF IInv, Rings, RingOf, InRing
  <2> QED
    BY <1>7, <2>1, SMTT(30) DEF IInv, Rings, RingOf, InRing
<1> QED
  BY <1>12, <1>15, <1>16, <1>17, <1>18 DEF IInv
(* A call that goes on with its submission: the choice of the mode, and    *)
(* the wait for the ring.                                                  *)
LEMMA CallMoves ==
    ASSUME IInv, NEW t \in Threads, Calling(t),
           NEW l \in {"defer", "driver", "full"},
           call' = [call EXCEPT ![t].pc = l],
           UNCHANGED <<subs, accepted, done, current, list, worker, ring>>,
           started' \in SUBSET Queues, started \subseteq started',
           l = "defer" => CallQueue(t) \in started',
           l # "defer" => list[CallQueue(t)] = <<>>
    PROVE  IInv'
<1>1. /\ call'[t].pc = l /\ call'[t].sub = call[t].sub
      /\ \A u \in Threads : u # t => call'[u] = call[u]
      /\ call' \in [Threads -> [pc : {"idle", "mode", "defer", "driver", "full"}, sub : Nat]]
  BY Zenon DEF IInv, Types
<1>2. \A u \in Threads : call'[u].sub = call[u].sub
  BY <1>1
<1>3. \A u \in Threads : (Calling(u)' <=> Calling(u)) /\ CallQueue(u)' = CallQueue(u)
  BY <1>1, <1>2 DEF Calling, CallQueue
<1>4. Types'
  BY <1>1, ZenonT(30) DEF IInv, Types
<1>5. Calls'
  <2>1. \A u \in Threads : Calling(u)' => call'[u].sub \in (1..Len(subs')) \ accepted'
    BY <1>2, <1>3 DEF IInv, Calls
  <2>2. \A u, v \in Threads : Calling(u)' /\ Calling(v)' /\ u # v => CallQueue(u)' # CallQueue(v)'
    BY <1>3 DEF IInv, Calls
  <2>3. \A u \in Threads : call'[u].pc = "defer" => CallQueue(u)' \in started'
    BY <1>1, <1>3 DEF IInv, Calls
  <2>4. \A u \in Threads : call'[u].pc \in {"driver", "full"} => list'[CallQueue(u)'] = <<>>
    BY <1>1, <1>3 DEF IInv, Calls
  <2> QED
    BY <2>1, <2>2, <2>3, <2>4 DEF Calls
<1>6. Lists'
  BY <1>2, <1>3 DEF IInv, Lists, ListOf
<1>7. NothingLost'
  BY <1>2, <1>3 DEF IInv, NothingLost, Held
<1>8. Rings'
  BY DEF IInv, Rings, RingOf, InRing, Before
<1> QED
  BY <1>4, <1>5, <1>6, <1>7, <1>8 DEF IInv

LEMMA ModeKeeps ==
    ASSUME IInv, NEW t \in Threads, Mode(t)
    PROVE  IInv'
<1> DEFINE q == CallQueue(t)
<1> DEFINE direct == CallerAllowed(q) /\ AllPending(call[t].sub)
<1>1. Calling(t) /\ call[t].sub \in 1..Len(subs)
  BY DEF Mode, Calling, IInv, Calls
<1>2. q \in Queues
  <2>1. subs[call[t].sub] \in Submission
    BY <1>1 DEF IInv, Types
  <2> QED
    BY <2>1 DEF CallQueue, Submission
<1>3. UNCHANGED <<subs, accepted, done, current, list, worker, ring>>
  BY DEF Mode
<1>4. CASE direct
  <2>1. call' = [call EXCEPT ![t].pc = "driver"] /\ started' = started
    BY <1>4, ZenonT(30) DEF Mode, CallQueue
  <2>2. list[q] = <<>>
    BY <1>2, <1>4 DEF CallerAllowed, IInv, Lists, ListOf
  <2> QED
    BY <1>1, <1>3, <2>1, <2>2, CallMoves, Zenon DEF IInv, Types
<1>5. CASE ~direct
  <2>1. call' = [call EXCEPT ![t].pc = "defer"] /\ started' = started \cup {q}
    BY <1>5, Zenon DEF Mode, CallQueue
  <2> QED
    BY <1>1, <1>2, <1>3, <2>1, CallMoves, Zenon DEF IInv, Types
<1> QED
  BY <1>4, <1>5

(* The call hands its submission over: it is the last of the list.         *)
LEMMA DeferKeeps ==
    ASSUME IInv, NEW t \in Threads, Defer(t)
    PROVE  IInv'
<1> DEFINE i == call[t].sub
<1> DEFINE q == CallQueue(t)
<1>1. Calling(t) /\ i \in (1..Len(subs)) \ accepted /\ i \in Nat
  <2>1. Calling(t)
    BY DEF Defer, Calling
  <2>2. i \in (1..Len(subs)) \ accepted
    BY <2>1 DEF IInv, Calls
  <2> QED
    BY <2>1, <2>2
<1>2. q \in Queues /\ subs[i].queue = q
  <2>1. subs[i] \in Submission
    BY <1>1, SMTT(30) DEF IInv, Types
  <2> QED
    BY <2>1 DEF CallQueue, Submission
<1>3. /\ UNCHANGED <<subs, accepted, done, started, worker, ring>>
      /\ call' = [call EXCEPT ![t] = [pc |-> "idle", sub |-> 0]]
      /\ list' = [list EXCEPT ![q] = Append(@, i)]
      /\ current' = Taken(i)
  BY DEF Defer, CallQueue
<1>4. call'[t].pc = "idle" /\ \A u \in Threads : u # t => call'[u] = call[u]
  BY <1>3 DEF IInv, Types
<1>5. \A u \in Threads : Calling(u)' <=> Calling(u) /\ u # t
  BY <1>4, ZenonT(30) DEF Calling
<1>6. \A u \in Threads : u # t => CallQueue(u)' = CallQueue(u)
  BY <1>3, <1>4, ZenonT(30) DEF CallQueue
<1>7. list[q] \in Seq(Nat) /\ list'[q] = Append(list[q], i) /\ \A p \in Queues : p # q => list'[p] = list[p]
  BY <1>2, <1>3, ZenonT(30) DEF IInv, Types
<1>8. /\ Len(list[q]) \in Nat /\ Len(list'[q]) = Len(list[q]) + 1
      /\ list'[q][Len(list[q]) + 1] = i
      /\ \A a \in 1..Len(list[q]) : list'[q][a] = list[q][a]
  BY <1>1, <1>7
<1>9. \A a \in 1..Len(list'[q]) : a \in 1..Len(list[q]) \/ a = Len(list[q]) + 1
  BY <1>8
<1>10. \A u \in Threads : Calling(u)' => CallQueue(u)' # q
  BY <1>1, <1>5, <1>6, ZenonT(30) DEF IInv, Calls
<1>11. Types'
  <2>1. current' \in [Binaries -> Nat]
    BY <1>1, <1>3 DEF IInv, Types, Taken
  <2>2. list' \in [Queues -> Seq(Nat)]
    <3>1. Append(list[q], i) \in Seq(Nat)
      BY <1>1, <1>7
    <3> QED
      BY <1>3, <3>1, Zenon DEF IInv, Types
  <2>3. call' \in [Threads -> [pc : {"idle", "mode", "defer", "driver", "full"}, sub : Nat]]
    BY <1>3, ZenonT(30) DEF IInv, Types
  <2> QED
    BY <1>3, <2>1, <2>2, <2>3, ZenonT(30) DEF IInv, Types
<1>12. Calls'
  <2>1. \A u \in Threads : Calling(u)' => call'[u].sub \in (1..Len(subs')) \ accepted'
    BY <1>3, <1>4, <1>5, ZenonT(30) DEF IInv, Calls
  <2>2. \A u, v \in Threads : Calling(u)' /\ Calling(v)' /\ u # v => CallQueue(u)' # CallQueue(v)'
    BY <1>5, <1>6, ZenonT(30) DEF IInv, Calls
  <2>3. \A u \in Threads : call'[u].pc = "defer" => CallQueue(u)' \in started'
    BY <1>3, <1>4, <1>6 DEF IInv, Calls
  <2>4. ASSUME NEW u \in Threads, call'[u].pc \in {"driver", "full"}
        PROVE  list'[CallQueue(u)'] = <<>>
    <3>1. u # t /\ Calling(u)' /\ Calling(u)
      BY <1>4, <1>5, <2>4, ZenonT(30) DEF Calling
    <3>2. CallQueue(u) # q /\ CallQueue(u)' = CallQueue(u) /\ list[CallQueue(u)] = <<>>
      BY <1>4, <1>6, <1>10, <2>4, <3>1 DEF IInv, Calls
    <3>3. subs[call[u].sub] \in Submission
      BY <3>1 DEF IInv, Calls, Types
    <3>4. CallQueue(u) \in Queues
      BY <3>3 DEF CallQueue, Submission
    <3> QED
      BY <1>7, <3>2, <3>4
  <2> QED
    BY <2>1, <2>2, <2>3, <2>4, ZenonT(30) DEF Calls
<1>16. UNCHANGED <<subs, accepted, started, worker>>
  BY <1>3
<1>13. Lists'
  <2> SUFFICES ASSUME NEW p \in Queues PROVE ListOf(p)'
    BY DEF Lists
  <2>3. ListOf(p)
    BY ZenonT(30) DEF IInv, Lists
  <2>1. CASE p # q
    <3>1. list'[p] = list[p]
      BY <1>7, <2>1, ZenonT(30)
    <3>2. ASSUME NEW a \in 1..Len(list[p]), NEW u \in Threads, Calling(u)', CallQueue(u)' = p
          PROVE  list[p][a] < call'[u].sub
      BY <1>4, <1>5, <1>6, <2>3, <3>2, ZenonT(30) DEF ListOf
    <3>3. /\ p \notin started => list[p] = <<>>
          /\ worker[p] # "idle" => list[p] # <<>>
          /\ \A a \in 1..Len(list[p]) :
               /\ list[p][a] \in 1..Len(subs) /\ subs[list[p][a]].queue = p
               /\ list[p][a] \in accepted <=> a = 1 /\ worker[p] = "remove"
          /\ \A a, b \in 1..Len(list[p]) : a < b => list[p][a] < list[p][b]
      BY SMTT(30) DEF IInv, Lists, ListOf
    <3> QED
      BY <1>16, <3>1, <3>2, <3>3, ZenonT(30) DEF ListOf
  <2>2. CASE p = q
    <3>1. /\ worker[q] # "idle" => list[q] # <<>>
          /\ \A a \in 1..Len(list[q]) :
               /\ list[q][a] \in 1..Len(subs) /\ subs[list[q][a]].queue = q
               /\ list[q][a] \in accepted <=> a = 1 /\ worker[q] = "remove"
               /\ list[q][a] < i
          /\ \A a, b \in 1..Len(list[q]) : a < b => list[q][a] < list[q][b]
      BY <1>1, <1>2, SMTT(30) DEF IInv, Lists, ListOf
    <3>2. q \in started /\ list'[q] # <<>>
      <4>1. q \in started
        BY DEF Defer, IInv, Calls, CallQueue
      <4>2. list'[q] # <<>>
        BY <1>7, SMTT(30)
      <4> QED
        BY <4>1, <4>2, ZenonT(30)
    <3>3. \A a \in 1..Len(list'[q]) : list'[q][a] \in 1..Len(subs) /\ subs[list'[q][a]].queue = q
      BY <1>1, <1>2, <1>8, <1>9, <3>1, Zenon
    <3>4. \A a \in 1..Len(list[q]) : list'[q][a] \in accepted <=> a = 1 /\ worker[q] = "remove"
      BY <1>8, <3>1, ZenonT(30)
    <3>5. Len(list[q]) + 1 = 1 => worker[q] # "remove"
      BY <1>7, <3>1
    <3>6. \A a \in 1..Len(list'[q]) : list'[q][a] \in accepted <=> a = 1 /\ worker[q] = "remove"
      BY <1>1, <1>8, <1>9, <3>4, <3>5
    <3>7. ASSUME NEW a \in 1..Len(list'[q]), NEW b \in 1..Len(list'[q]), a < b
          PROVE  list'[q][a] < list'[q][b]
      <4>1. a \in 1..Len(list[q])
        BY <1>8, <3>7
      <4>2. CASE b \in 1..Len(list[q])
        BY <1>8, <3>1, <3>7, <4>1, <4>2, ZenonT(30)
      <4>3. CASE b = Len(list[q]) + 1
        BY <1>8, <3>1, <4>1, <4>3, ZenonT(30)
      <4> QED
        BY <1>9, <4>2, <4>3
    <3> QED
      BY <1>16, <1>10, <2>2, <3>2, <3>3, <3>6, <3>7, ZenonT(30) DEF ListOf
  <2> QED
    BY <2>1, <2>2
<1>14. NothingLost'
  <2> SUFFICES ASSUME NEW j \in (1..Len(subs)) \ accepted PROVE Held(j)'
    BY <1>3 DEF NothingLost
  <2>1. subs[j] \in Submission /\ Held(j)
    BY DEF IInv, Types, NothingLost
  <2>2. subs[j].queue \in Queues
    BY <2>1, ZenonT(30) DEF Submission
  <2>3. CASE j = i
    BY <1>2, <1>3, <1>8, <2>3 DEF Held
  <2>4. CASE j # i /\ \E u \in Threads : Calling(u) /\ call[u].sub = j
    BY <1>4, <1>5, <2>4, ZenonT(30) DEF Held
  <2>5. CASE \E a \in 1..Len(list[subs[j].queue]) : list[subs[j].queue][a] = j
    <3>1. PICK a \in 1..Len(list[subs[j].queue]) : list[subs[j].queue][a] = j
      BY <2>5, ZenonT(30)
    <3>2. a \in 1..Len(list'[subs[j].queue]) /\ list'[subs[j].queue][a] = j
      <4>1. CASE subs[j].queue = q
        BY <1>8, <3>1, <4>1
      <4>2. CASE subs[j].queue # q
        BY <1>7, <2>2, <3>1, <4>2, ZenonT(30)
      <4> QED
        BY <4>1, <4>2, ZenonT(30)
    <3> QED
      BY <1>3, <3>2 DEF Held
  <2> QED
    BY <2>1, <2>3, <2>4, <2>5 DEF Held
<1>15. Rings'
  BY <1>3 DEF IInv, Rings, RingOf, InRing, Before
<1> QED
  BY <1>11, <1>12, <1>13, <1>14, <1>15 DEF IInv
(* The driver takes the submission of the caller; the list is empty.       *)
LEMMA DriverAcceptKeeps ==
    ASSUME IInv, NEW t \in Threads, DriverAccept(t)
    PROVE  IInv'
<1> DEFINE i == call[t].sub
<1> DEFINE q == CallQueue(t)
<1>1. call[t].pc = "driver" /\ Calling(t)
  BY ZenonT(30) DEF DriverAccept, Calling
<1>2. i \in (1..Len(subs)) \ accepted /\ i \in Nat /\ q \in Queues /\ subs[i].queue = q /\ Before(i) \subseteq accepted
  BY <1>1, CallerIsNext DEF CallQueue
<1>3. /\ UNCHANGED <<subs, done, list, started, worker>>
      /\ call' = [call EXCEPT ![t] = [pc |-> "idle", sub |-> 0]]
      /\ Accept(q, i) /\ current' = Taken(i)
  BY DEF DriverAccept, CallQueue
<1>4. accepted' = accepted \cup {i} /\ ring' = [ring EXCEPT ![q] = Append(@, i)]
  BY <1>3 DEF Accept
<1>5. call'[t].pc = "idle" /\ \A u \in Threads : u # t => call'[u] = call[u]
  BY <1>3 DEF IInv, Types
<1>6. \A u \in Threads : Calling(u)' <=> Calling(u) /\ u # t
  BY <1>5 DEF Calling
<1>7. \A u \in Threads : u # t => CallQueue(u)' = CallQueue(u)
  BY <1>3, <1>5, ZenonT(30) DEF CallQueue
<1>8. list[q] = <<>>
  BY <1>1 DEF IInv, Calls
<1>9. Types'
  <2>1. current' \in [Binaries -> Nat]
    BY <1>2, <1>3 DEF IInv, Types, Taken
  <2>2. ring' \in [Queues -> Seq(Nat)]
    <3>1. Append(ring[q], i) \in Seq(Nat)
      BY <1>2 DEF IInv, Types
    <3> QED
      BY <1>4, <3>1, Zenon DEF IInv, Types
  <2>3. call' \in [Threads -> [pc : {"idle", "mode", "defer", "driver", "full"}, sub : Nat]]
    BY <1>3 DEF IInv, Types
  <2>4. accepted' \subseteq 1..Len(subs) /\ done' \subseteq accepted'
    BY <1>2, <1>3, <1>4, Zenon DEF IInv, Types
  <2> QED
    BY <1>3, <2>1, <2>2, <2>3, <2>4, ZenonT(30) DEF IInv, Types
<1>10. Calls'
  <2>1. ASSUME NEW u \in Threads, Calling(u)'
        PROVE  call'[u].sub \in (1..Len(subs')) \ accepted'
    <3>1. u # t /\ Calling(u) /\ call'[u].sub = call[u].sub
      BY <1>5, <1>6, <2>1, ZenonT(30)
    <3>2. call[u].sub \in (1..Len(subs)) \ accepted
      BY <3>1, ZenonT(30) DEF IInv, Calls
    <3>3. call[u].sub # i
      BY <1>1, <3>1, ZenonT(30) DEF IInv, Calls, CallQueue
    <3> QED
      BY <1>3, <1>4, <3>1, <3>2, <3>3
  <2>2. \A u, v \in Threads : Calling(u)' /\ Calling(v)' /\ u # v => CallQueue(u)' # CallQueue(v)'
    BY <1>6, <1>7 DEF IInv, Calls
  <2>3. \A u \in Threads : call'[u].pc = "defer" => CallQueue(u)' \in started'
    BY <1>3, <1>5, <1>7, ZenonT(30) DEF IInv, Calls
  <2>4. \A u \in Threads : call'[u].pc \in {"driver", "full"} => list'[CallQueue(u)'] = <<>>
    BY <1>3, <1>5, <1>7, ZenonT(30) DEF IInv, Calls
  <2> QED
    BY <2>1, <2>2, <2>3, <2>4, ZenonT(30) DEF Calls
<1>11. Lists'
  <2>1. ASSUME NEW p \in Queues, NEW a \in 1..Len(list[p])
        PROVE  /\ list[p][a] \in accepted' <=> list[p][a] \in accepted
               /\ \A u \in Threads : Calling(u)' /\ CallQueue(u)' = p => list[p][a] < call'[u].sub
    <3>1. p # q
      <4>1. Len(list[q]) = 0
        BY <1>8, SMTT(30)
      <4> QED
        BY <2>1, <4>1
    <3>2. list[p][a] # i
      BY <1>2, <2>1, <3>1, SMTT(30) DEF IInv, Lists, ListOf
    <3>3. \A u \in Threads : Calling(u) /\ CallQueue(u) = p => list[p][a] < call[u].sub
      BY <2>1, ZenonT(30) DEF IInv, Lists, ListOf
    <3> QED
      BY <1>4, <1>5, <1>6, <1>7, <3>2, <3>3
  <2> QED
    BY <1>3, <2>1, SMTT(30) DEF IInv, Lists, ListOf
<1>12. NothingLost'
  <2> SUFFICES ASSUME NEW j \in (1..Len(subs)) \ accepted' PROVE Held(j)'
    BY <1>3 DEF NothingLost
  <2>1. Held(j) /\ j # i
    BY <1>4 DEF IInv, NothingLost
  <2> QED
    BY <1>3, <1>5, <1>6, <2>1 DEF Held
<1>13. Rings'
  BY <1>2, <1>3, AcceptKeepsRings
<1> QED
  BY <1>9, <1>10, <1>11, <1>12, <1>13 DEF IInv

(* The driver takes the head of the list, which stays there for now.       *)
LEMMA WorkerAcceptKeeps ==
    ASSUME IInv, NEW q \in Queues, WorkerAccept(q)
    PROVE  IInv'
<1> DEFINE i == Head(list[q])
<1>1. worker[q] = "driver"
  BY DEF WorkerAccept
<1>2. list[q] # <<>> /\ i \in (1..Len(subs)) \ accepted /\ i \in Nat /\ subs[i].queue = q /\ Before(i) \subseteq accepted
  BY <1>1, HeadIsNext
<1>3. /\ UNCHANGED <<subs, done, current, call, list, started>>
      /\ worker' = [worker EXCEPT ![q] = "remove"] /\ Accept(q, i)
  BY DEF WorkerAccept
<1>4. accepted' = accepted \cup {i} /\ ring' = [ring EXCEPT ![q] = Append(@, i)]
  BY <1>3 DEF Accept
<1>5. 1 \in 1..Len(list[q]) /\ list[q][1] = i /\ list[q] \in Seq(Nat)
  BY <1>2 DEF IInv, Types
<1>6. worker'[q] = "remove" /\ \A p \in Queues : p # q => worker'[p] = worker[p]
  BY <1>3, ZenonT(30) DEF IInv, Types
<1>7. \A u \in Threads : (Calling(u)' <=> Calling(u)) /\ CallQueue(u)' = CallQueue(u)
  BY <1>3 DEF Calling, CallQueue
<1>8. Types'
  <2>1. ring' \in [Queues -> Seq(Nat)]
    <3>1. Append(ring[q], i) \in Seq(Nat)
      BY <1>2 DEF IInv, Types
    <3> QED
      BY <1>4, <3>1 DEF IInv, Types
  <2>2. accepted' \subseteq 1..Len(subs) /\ done' \subseteq accepted'
    BY <1>2, <1>3, <1>4, ZenonT(30) DEF IInv, Types
  <2>3. worker' \in [Queues -> {"idle", "driver", "full", "remove"}]
    BY <1>3, ZenonT(30) DEF IInv, Types
  <2> QED
    BY <1>3, <2>1, <2>2, <2>3, ZenonT(30) DEF IInv, Types
<1>9. Calls'
  <2>1. ASSUME NEW u \in Threads, Calling(u)
        PROVE  call[u].sub \in (1..Len(subs)) \ accepted'
    <3>1. call[u].sub \in (1..Len(subs)) \ accepted
      BY <2>1, ZenonT(30) DEF IInv, Calls
    <3>2. CASE CallQueue(u) = q
      <4>1. i < call[u].sub
        <5>1. ListOf(q)
          BY DEF IInv, Lists
        <5> QED
          BY <1>5, <2>1, <3>2, <5>1 DEF ListOf
      <4> QED
        BY <1>2, <1>4, <3>1, <4>1
    <3>3. CASE CallQueue(u) # q
      BY <1>2, <1>4, <3>1, <3>3 DEF CallQueue
    <3> QED
      BY <3>2, <3>3, ZenonT(30)
  <2> QED
    BY <1>3, <1>7, <2>1, SMTT(30) DEF IInv, Calls
<1>13. UNCHANGED <<subs, call, list, started>>
  BY <1>3
<1>10. Lists'
  <2> SUFFICES ASSUME NEW p \in Queues PROVE ListOf(p)'
    BY DEF Lists
  <2>3. ListOf(p)
    BY ZenonT(30) DEF IInv, Lists
  <2>4. ASSUME worker'[p] # "idle" => list[p] # <<>>,
               \A a \in 1..Len(list[p]) : list[p][a] \in accepted' <=> a = 1 /\ worker'[p] = "remove"
        PROVE  ListOf(p)'
    BY <1>7, <1>13, <2>3, <2>4, SMTT(30) DEF ListOf
  <2>1. CASE p # q
    <3>1. \A a \in 1..Len(list[p]) : list[p][a] # i
      BY <1>2, <2>1, <2>3, ZenonT(30) DEF ListOf
    <3> QED
      BY <1>4, <1>6, <2>1, <2>3, <2>4, <3>1, ZenonT(30) DEF ListOf
  <2>2. CASE p = q
    <3>1. ASSUME NEW a \in 1..Len(list[q]) PROVE list[q][a] \in accepted' <=> a = 1
      <4>1. list[q][a] \notin accepted
        BY <1>1, <3>1 DEF IInv, Lists, ListOf
      <4>2. a # 1 => 1 < a
        OBVIOUS
      <4>3. a # 1 => i < list[q][a]
        BY <1>5, <4>2 DEF IInv, Lists, ListOf
      <4>4. a # 1 => list[q][a] # i
        BY <1>2, <4>3
      <4> QED
        BY <1>4, <1>5, <4>1, <4>4, ZenonT(30)
    <3> QED
      BY <1>2, <1>6, <2>2, <2>4, <3>1, ZenonT(30)
  <2> QED
    BY <2>1, <2>2
<1>11. NothingLost'
  <2>1. \A j \in (1..Len(subs)) \ accepted' : Held(j)
    BY <1>4, ZenonT(30) DEF IInv, NothingLost
  <2> QED
    BY <1>3, <1>7, <2>1 DEF NothingLost, Held
<1>12. Rings'
  BY <1>2, <1>3, AcceptKeepsRings
<1> QED
  BY <1>8, <1>9, <1>10, <1>11, <1>12 DEF IInv
(* The submit thread removes the head the driver took.                     *)
LEMMA WorkerRemoveKeeps ==
    ASSUME IInv, NEW q \in Queues, WorkerRemove(q)
    PROVE  IInv'
<1>1. /\ UNCHANGED <<subs, accepted, done, current, call, started, ring>>
      /\ worker[q] = "remove" /\ worker' = [worker EXCEPT ![q] = "idle"]
      /\ list' = [list EXCEPT ![q] = Tail(@)]
  BY DEF WorkerRemove
<1>2. list[q] \in Seq(Nat) /\ list[q] # <<>>
  BY <1>1 DEF IInv, Types, Lists, ListOf
<1>3. /\ list'[q] = Tail(list[q]) /\ worker'[q] = "idle"
      /\ \A p \in Queues : p # q => list'[p] = list[p] /\ worker'[p] = worker[p]
  BY <1>1 DEF IInv, Types
<1>4. /\ Len(list'[q]) = Len(list[q]) - 1 /\ Len(list[q]) \in Nat \ {0}
      /\ \A a \in 1..Len(list'[q]) : list'[q][a] = list[q][a + 1]
  BY <1>2, <1>3
<1>5. \A a \in 1..Len(list'[q]) : a + 1 \in 1..Len(list[q]) /\ a + 1 # 1 /\ a \in Nat
  BY <1>4
<1>6. \A u \in Threads : (Calling(u)' <=> Calling(u)) /\ CallQueue(u)' = CallQueue(u)
  BY <1>1 DEF Calling, CallQueue
<1>7. Types'
  <2>1. Tail(list[q]) \in Seq(Nat)
    BY <1>2
  <2>2. list' \in [Queues -> Seq(Nat)]
    BY <1>1, <2>1 DEF IInv, Types
  <2>3. worker' \in [Queues -> {"idle", "driver", "full", "remove"}]
    BY <1>1, ZenonT(30) DEF IInv, Types
  <2> QED
    BY <1>1, <2>2, <2>3, ZenonT(30) DEF IInv, Types
<1>8. Calls'
  <2>1. ASSUME NEW u \in Threads, call[u].pc \in {"driver", "full"}
        PROVE  list'[CallQueue(u)] = <<>>
    <3>1. list[CallQueue(u)] = <<>>
      BY <2>1, ZenonT(30) DEF IInv, Calls
    <3>2. Calling(u) /\ call[u].sub \in 1..Len(subs)
      BY <2>1 DEF IInv, Calls, Calling
    <3>3. subs[call[u].sub] \in Submission
      BY <3>2 DEF IInv, Types
    <3>4. CallQueue(u) \in Queues
      BY <3>3 DEF CallQueue, Submission
    <3> QED
      BY <1>2, <1>3, <3>1, <3>4, ZenonT(30)
  <2> QED
    BY <1>1, <1>6, <2>1 DEF IInv, Calls
<1>12. UNCHANGED <<subs, accepted, call, started>>
  BY <1>1, ZenonT(30)
<1>9. Lists'
  <2> SUFFICES ASSUME NEW p \in Queues PROVE ListOf(p)'
    BY DEF Lists
  <2>3. ListOf(p)
    BY DEF IInv, Lists
  <2>1. CASE p # q
    <3>1. list'[p] = list[p] /\ worker'[p] = worker[p]
      BY <1>3, <2>1, SMTT(30)
    <3> QED
      BY <1>12, <1>6, <2>3, <3>1 DEF ListOf
  <2>2. CASE p = q
    <3>1. q \in started
      BY <1>2 DEF IInv, Lists, ListOf
    <3>2. \A a \in 1..Len(list[q]) :
             /\ list[q][a] \in 1..Len(subs) /\ subs[list[q][a]].queue = q
             /\ a # 1 => list[q][a] \notin accepted
             /\ \A u \in Threads : Calling(u) /\ CallQueue(u) = q => list[q][a] < call[u].sub
      BY DEF IInv, Lists, ListOf
    <3>3. \A a \in 1..Len(list'[q]) :
             /\ list'[q][a] \in 1..Len(subs) /\ subs[list'[q][a]].queue = q
             /\ list'[q][a] \notin accepted
             /\ \A u \in Threads : Calling(u) /\ CallQueue(u) = q => list'[q][a] < call[u].sub
      BY <1>4, <1>5, <3>2, Zenon
    <3>4. ASSUME NEW a \in 1..Len(list'[q]), NEW b \in 1..Len(list'[q]), a < b
          PROVE  list'[q][a] < list'[q][b]
      <4>1. a + 1 \in 1..Len(list[q]) /\ b + 1 \in 1..Len(list[q]) /\ a + 1 < b + 1
        BY <1>5, <3>4, SMTT(30)
      <4>2. list[q][a + 1] < list[q][b + 1]
        BY <4>1, SMTT(30) DEF IInv, Lists, ListOf
      <4> QED
        BY <1>4, <4>2, SMTT(30)
    <3> QED
      BY <1>12, <1>3, <1>6, <2>2, <3>1, <3>3, <3>4, Zenon DEF ListOf
  <2> QED
    BY <2>1, <2>2
<1>10. NothingLost'
  <2> SUFFICES ASSUME NEW j \in (1..Len(subs)) \ accepted PROVE Held(j)'
    BY <1>1 DEF NothingLost
  <2>1. subs[j] \in Submission /\ Held(j)
    BY DEF IInv, Types, NothingLost
  <2>2. subs[j].queue \in Queues
    BY <2>1, ZenonT(30) DEF Submission
  <2>3. CASE \E u \in Threads : Calling(u) /\ call[u].sub = j
    BY <1>1, <1>6, <2>3 DEF Held
  <2>4. CASE \E a \in 1..Len(list[subs[j].queue]) : list[subs[j].queue][a] = j
    <3>1. PICK a \in 1..Len(list[subs[j].queue]) : list[subs[j].queue][a] = j
      BY <2>4
    <3>2. CASE subs[j].queue = q
      <4>1. a # 1
        <5>1. ListOf(q)
          BY DEF IInv, Lists
        <5> QED
          BY <1>1, <3>1, <3>2, <5>1 DEF ListOf
      <4>2. a - 1 \in 1..Len(list'[q]) /\ (a - 1) + 1 = a
        BY <1>4, <3>1, <3>2, <4>1
      <4>3. list'[q][a - 1] = j
        BY <1>4, <3>1, <3>2, <4>2, ZenonT(30)
      <4> QED
        BY <1>1, <3>2, <4>2, <4>3, ZenonT(30) DEF Held
    <3>3. CASE subs[j].queue # q
      <4>1. list'[subs[j].queue] = list[subs[j].queue]
        BY <1>3, <2>2, <3>3, ZenonT(30)
      <4> QED
        BY <1>1, <3>1, <4>1, Zenon DEF Held
    <3> QED
      BY <3>2, <3>3, ZenonT(30)
  <2> QED
    BY <2>1, <2>3, <2>4, ZenonT(30) DEF Held
<1>11. Rings'
  BY <1>1, ZenonT(30) DEF IInv, Rings, RingOf, InRing, Before
<1> QED
  BY <1>7, <1>8, <1>9, <1>10, <1>11 DEF IInv

(* The GPU finishes the oldest batch of a ring.                            *)
LEMMA GpuFinishKeeps ==
    ASSUME IInv, NEW q \in Queues, GpuFinish(q)
    PROVE  IInv'
<1> DEFINE i == Head(ring[q])
<1>1. /\ UNCHANGED <<subs, accepted, current, call, list, started, worker>>
      /\ ring[q] # <<>> /\ done' = done \cup {i} /\ ring' = [ring EXCEPT ![q] = Tail(@)]
  BY DEF GpuFinish
<1>2. i \in accepted \ done /\ subs[i].queue = q /\ Before(i) \subseteq done
  BY <1>1, RingHeadIsOldest
<1>3. ring[q] \in Seq(Nat)
  BY DEF IInv, Types
<1>4. ring'[q] = Tail(ring[q]) /\ \A p \in Queues : p # q => ring'[p] = ring[p]
  BY <1>1 DEF IInv, Types
<1>5. /\ Len(ring'[q]) = Len(ring[q]) - 1 /\ Len(ring[q]) \in Nat \ {0}
      /\ \A a \in 1..Len(ring'[q]) : ring'[q][a] = ring[q][a + 1]
      /\ i = ring[q][1] /\ 1 \in 1..Len(ring[q])
  <2>1. i = ring[q][1] /\ 1 \in 1..Len(ring[q]) /\ Len(ring[q]) \in Nat \ {0} /\ ring[q] # <<>>
    BY <1>1, <1>3
  <2>2. Len(ring'[q]) = Len(ring[q]) - 1 /\ \A a \in 1..Len(ring'[q]) : ring'[q][a] = ring[q][a + 1]
    BY <1>3, <1>4, <2>1
  <2> QED
    BY <2>1, <2>2
<1>6. \A a \in 1..Len(ring'[q]) : a + 1 \in 1..Len(ring[q]) /\ 1 < a + 1 /\ a \in Nat
  BY <1>5
<1>7. Types'
  <2>1. Tail(ring[q]) \in Seq(Nat)
    BY <1>1, <1>3
  <2>2. ring' \in [Queues -> Seq(Nat)]
    BY <1>1, <2>1, ZenonT(30) DEF IInv, Types
  <2> QED
    BY <1>1, <1>2, <2>2, Zenon DEF IInv, Types
<1>8. Calls'
  BY <1>1, ZenonT(30) DEF IInv, Calls, Calling, CallQueue
<1>9. Lists'
  BY <1>1 DEF IInv, Lists, ListOf, Calling, CallQueue
<1>10. NothingLost'
  BY <1>1, ZenonT(30) DEF IInv, NothingLost, Held, Calling
<1>11. Rings'
  <2>1. \A j \in accepted' : Before(j)' \subseteq accepted'
    BY <1>1 DEF IInv, Rings, RingOf, InRing, Before
  <2>2. ASSUME NEW p \in Queues PROVE RingOf(p)'
    <3>3. RingOf(p) /\ RingOf(q)
      BY DEF IInv, Rings
    <3>4. UNCHANGED <<subs, accepted>> /\ done' = done \cup {i}
      BY <1>1, ZenonT(30)
    <3>1. CASE p # q
      <4>1. ring'[p] = ring[p]
        BY <1>4, <3>1
      <4>2. \A a \in 1..Len(ring[p]) : ring[p][a] # i
        BY <1>2, <3>1, <3>3, ZenonT(30) DEF RingOf
      <4> QED
        BY <3>3, <3>4, <4>1, <4>2, ZenonT(30) DEF RingOf
    <3>2. CASE p = q
      <4>1. /\ \A a \in 1..Len(ring[q]) : ring[q][a] \in accepted \ done /\ subs[ring[q][a]].queue = q /\ ring[q][a] \in Nat
            /\ \A a, b \in 1..Len(ring[q]) : a < b => ring[q][a] < ring[q][b]
        BY <1>3, <3>3 DEF RingOf
      <4>2. \A a \in 1..Len(ring'[q]) : i < ring'[q][a] /\ ring'[q][a] \in Nat /\ i \in Nat
        BY <1>5, <1>6, <4>1
      <4>3. \A a \in 1..Len(ring'[q]) : ring'[q][a] # i
        BY <4>2
      <4>4. \A a \in 1..Len(ring'[q]) : ring'[q][a] \in accepted' \ done' /\ subs'[ring'[q][a]].queue = q
        BY <3>4, <1>5, <1>6, <4>1, <4>3, SMTT(30)
      <4>5. ASSUME NEW a \in 1..Len(ring'[q]), NEW b \in 1..Len(ring'[q]), a < b
            PROVE  ring'[q][a] < ring'[q][b]
        <5>1. a + 1 \in 1..Len(ring[q]) /\ b + 1 \in 1..Len(ring[q]) /\ a + 1 < b + 1
          BY <1>6, <4>5
        <5> QED
          BY <1>5, <4>1, <5>1, Zenon
      <4> QED
        BY <3>2, <4>4, <4>5, ZenonT(30) DEF RingOf
    <3> QED
      BY <3>1, <3>2
  <2>3. ASSUME NEW j \in accepted' \ done'
        PROVE  \E a \in 1..Len(ring'[subs'[j].queue]) : ring'[subs'[j].queue][a] = j
    <3>1. j \in accepted \ done /\ j # i /\ subs' = subs
      BY <1>1
    <3>2. subs[j] \in Submission
      BY <3>1 DEF IInv, Types
    <3>3. subs[j].queue \in Queues
      BY <3>2 DEF Submission
    <3>4. PICK a \in 1..Len(ring[subs[j].queue]) : ring[subs[j].queue][a] = j
      BY <3>1 DEF IInv, Rings, RingOf, InRing
    <3>5. CASE subs[j].queue = q
      <4>1. a - 1 \in 1..Len(ring'[q]) /\ (a - 1) + 1 = a
        BY <1>5, <3>1, <3>4, <3>5
      <4>2. ring'[q][a - 1] = j
        BY <1>5, <3>4, <3>5, <4>1, ZenonT(30)
      <4> QED
        BY <3>1, <3>5, <4>1, <4>2, ZenonT(30)
    <3>6. CASE subs[j].queue # q
      <4>1. ring'[subs[j].queue] = ring[subs[j].queue]
        BY <1>4, <3>3, <3>6, ZenonT(30)
      <4> QED
        BY <3>1, <3>4, <4>1
    <3> QED
      BY <3>5, <3>6
  <2> QED
    BY <2>1, <2>2, <2>3, ZenonT(30) DEF Rings, RingOf, InRing
<1> QED
  BY <1>7, <1>8, <1>9, <1>10, <1>11 DEF IInv
(* A submit thread between its waits.                                      *)
LEMMA WorkerMoves ==
    ASSUME IInv, NEW q \in Queues, worker[q] # "remove", list[q] # <<>>,
           NEW l \in {"driver", "full"}, worker' = [worker EXCEPT ![q] = l],
           UNCHANGED <<subs, accepted, done, current, call, list, started, ring>>
    PROVE  IInv'
<1>1. worker \in [Queues -> {"idle", "driver", "full", "remove"}] /\ started \in SUBSET Queues
  BY DEF IInv, Types
<1>2. worker' \in [Queues -> {"idle", "driver", "full", "remove"}]
  BY <1>1
<1>3. worker'[q] = l /\ \A p \in Queues : p # q => worker'[p] = worker[p]
  BY <1>1, ZenonT(30)
<1>4. \A p \in Queues : worker[p] # "idle" => list[p] # <<>>
  BY DEF IInv, Lists, ListOf
<1> QED
  BY <1>1, <1>2, <1>3, <1>4, QuietStep

LEMMA StepKeeps == IInv /\ [Next]_vars => IInv'
<1> SUFFICES ASSUME IInv, [Next]_vars PROVE IInv'
  OBVIOUS
<1>1. CASE UNCHANGED vars
  BY <1>1, QuietStep, Zenon DEF vars, IInv, Types, Lists, ListOf
<1>2. ASSUME NEW t \in Threads, CallStep(t) PROVE IInv'
  <2>1. CASE Mode(t)
    BY <2>1, ModeKeeps
  <2>2. CASE Defer(t)
    BY <2>2, DeferKeeps
  <2>3. CASE DriverAccept(t)
    BY <2>3, DriverAcceptKeeps
  <2>4. CASE DriverFull(t)
    <3>1. Calling(t) /\ list[CallQueue(t)] = <<>>
      BY <2>4 DEF DriverFull, Calling, IInv, Calls
    <3> QED
      BY <2>4, <3>1, CallMoves, Zenon DEF DriverFull, IInv, Types
  <2>5. CASE DriverWaited(t)
    <3>1. Calling(t) /\ list[CallQueue(t)] = <<>>
      BY <2>5 DEF DriverWaited, Calling, IInv, Calls
    <3> QED
      BY <2>5, <3>1, CallMoves, Zenon DEF DriverWaited, IInv, Types
  <2> QED
    BY <1>2, <2>1, <2>2, <2>3, <2>4, <2>5 DEF CallStep
<1>3. ASSUME NEW t \in Threads, NEW tl \in HostTimelines, HostSignal(t, tl) PROVE IInv'
  BY <1>3, QuietStep, Zenon DEF HostSignal, IInv, Types, Lists, ListOf
<1>5. ASSUME NEW q \in Queues, worker[q] # "idle" PROVE list[q] # <<>>
  BY <1>5, Zenon DEF IInv, Lists, ListOf
<1>4. ASSUME NEW q \in Queues, Worker(q) PROVE IInv'
  <2>1. CASE WorkerAccept(q)
    BY <2>1, WorkerAcceptKeeps
  <2>2. CASE WorkerRemove(q)
    BY <2>2, WorkerRemoveKeeps
  <2>3. CASE WorkerPending(q)
    BY <1>5, <2>3, WorkerMoves, Zenon DEF WorkerPending
  <2>4. CASE WorkerFull(q)
    BY <1>5, <2>4, WorkerMoves, Zenon DEF WorkerFull
  <2>5. CASE WorkerWaited(q)
    BY <1>5, <2>5, WorkerMoves, Zenon DEF WorkerWaited
  <2> QED
    BY <1>4, <2>1, <2>2, <2>3, <2>4, <2>5 DEF Worker
<1> QED
  BY <1>1, <1>2, <1>3, <1>4, CallKeeps, GpuFinishKeeps DEF Next

(* Whatever the number of threads, queues and semaphores and the size of   *)
(* the rings, a submission that has not reached its ring is held by its    *)
(* call or by its queue's submit thread, in the order of the calls.        *)
THEOREM QueueInvariant == Spec => []IInv
<1> QED
  BY InitKeeps, StepKeeps, PTL DEF Spec

-----------------------------------------------------------------------------
(* What one step does to a queue's order.                                  *)
InOrder ==
    /\ \A i \in accepted' \ accepted : Before(i)' \subseteq accepted
    /\ \A i \in done' \ done : Before(i)' \subseteq done
    /\ \A q \in Queues : Len(ring'[q]) > Len(ring[q])
                         => ring'[q][Len(ring'[q])] \notin accepted

LEMMA AcceptInOrder ==
    ASSUME IInv, NEW q \in Queues, NEW i \in (1..Len(subs)) \ accepted,
           Before(i) \subseteq accepted, Accept(q, i), UNCHANGED <<subs, done>>
    PROVE  InOrder
<1>1. accepted' = accepted \cup {i} /\ Before(i)' = Before(i)
  BY DEF Accept, Before
<1>2. ring[q] \in Seq(Nat) /\ ring'[q] = Append(ring[q], i) /\ \A p \in Queues : p # q => ring'[p] = ring[p]
  <2>1. ring \in [Queues -> Seq(Nat)] /\ ring' = [ring EXCEPT ![q] = Append(@, i)]
    BY DEF IInv, Types, Accept
  <2> QED
    BY ONLY <2>1, q \in Queues
<1>3. Len(ring'[q]) = Len(ring[q]) + 1 /\ ring'[q][Len(ring[q]) + 1] = i
  BY ONLY <1>2, i \in (1..Len(subs)) \ accepted
<1>4. \A p \in Queues : ring[p] \in Seq(Nat)
  BY DEF IInv, Types
<1>5. ASSUME NEW p \in Queues, Len(ring'[p]) > Len(ring[p])
      PROVE  ring'[p][Len(ring'[p])] \notin accepted
  <2>1. p = q
    BY <1>2, <1>4, <1>5
  <2> QED
    BY <1>3, <2>1
<1> QED
  BY <1>1, <1>5 DEF InOrder

LEMMA StepInOrder == IInv /\ [Next]_vars => InOrder
<1> SUFFICES ASSUME IInv, [Next]_vars PROVE InOrder
  OBVIOUS
<1>1. \A q \in Queues : ring[q] \in Seq(Nat) /\ Len(ring[q]) \in Nat
  BY DEF IInv, Types
<1>2. ASSUME UNCHANGED <<accepted, done, ring>> PROVE InOrder
  BY <1>1, <1>2 DEF InOrder
<1>3. ASSUME NEW t \in Threads, DriverAccept(t) PROVE InOrder
  <2>1. call[t].pc = "driver" /\ Accept(CallQueue(t), call[t].sub) /\ UNCHANGED <<subs, done>>
    BY <1>3 DEF DriverAccept, CallQueue
  <2> QED
    BY <2>1, CallerIsNext, AcceptInOrder, ZenonT(30)
<1>4. ASSUME NEW q \in Queues, WorkerAccept(q) PROVE InOrder
  <2>1. worker[q] = "driver" /\ Accept(q, Head(list[q])) /\ UNCHANGED <<subs, done>>
    BY <1>4 DEF WorkerAccept
  <2> QED
    BY <2>1, HeadIsNext, AcceptInOrder
<1>5. ASSUME NEW q \in Queues, GpuFinish(q) PROVE InOrder
  <2>1. /\ ring[q] # <<>> /\ done' = done \cup {Head(ring[q])}
        /\ UNCHANGED <<subs, accepted>> /\ ring' = [ring EXCEPT ![q] = Tail(@)]
    BY <1>5 DEF GpuFinish
  <2> DEFINE i == Head(ring[q])
  <2>6. Before(i) \subseteq done
    BY <2>1, RingHeadIsOldest
  <2>2. {j \in DOMAIN subs' : subs'[j].queue = subs'[i].queue /\ j < i} \subseteq done
    BY <2>1, <2>6 DEF Before
  <2>3. ring'[q] = Tail(ring[q]) /\ \A p \in Queues : p # q => ring'[p] = ring[p]
    BY <2>1 DEF IInv, Types
  <2>7. ring[q] # <<>> /\ ring[q] \in Seq(Nat)
    BY <1>1, <2>1
  <2>4. Len(ring'[q]) = Len(ring[q]) - 1
    BY <2>3, <2>7
  <2>5. ASSUME NEW p \in Queues, Len(ring'[p]) > Len(ring[p]) PROVE FALSE
    <3>1. CASE p = q
      BY <1>1, <2>4, <2>5, <3>1
    <3>2. CASE p # q
      <4>1. ring'[p] = ring[p] /\ Len(ring[p]) \in Nat
        BY <1>1, <2>3, <3>2
      <4> QED
        BY <2>5, <4>1
    <3> QED
      BY <3>1, <3>2
  <2>8. done' \ done \subseteq {i} /\ accepted' \ accepted = {}
    BY <2>1
  <2>9. \A j \in done' \ done : Before(j)' \subseteq done
    BY <2>2, <2>8 DEF Before
  <2> QED
    BY <2>5, <2>8, <2>9, ZenonT(30) DEF InOrder
<1>6. ASSUME NEW t \in Threads, CallStep(t) PROVE InOrder
  BY <1>2, <1>3, <1>6, Zenon DEF CallStep, Mode, Defer, DriverFull, DriverWaited
<1>7. ASSUME NEW q \in Queues, Worker(q) PROVE InOrder
  BY <1>2, <1>4, <1>7 DEF Worker, WorkerPending, WorkerFull, WorkerWaited, WorkerRemove
<1>8. ASSUME NEW t \in Threads, NEW tl \in HostTimelines, HostSignal(t, tl) PROVE InOrder
  BY <1>2, <1>8, ZenonT(30) DEF HostSignal
<1>9. ASSUME NEW t \in Threads, NEW q \in Queues, NEW w \in SUBSET Points, NEW b \in SUBSET Binaries,
             NEW s \in SUBSET Points, NEW g \in SUBSET Binaries, Call(t, q, w, b, s, g)
      PROVE  InOrder
  BY <1>2, <1>9 DEF Call
<1> QED
  BY <1>2, <1>5, <1>6, <1>7, <1>8, <1>9 DEF Next, vars

(* The batches of a queue reach its ring and finish in the order of the    *)
(* calls of vkQueueSubmit, none twice: the switch of vk_queue_submit       *)
(* between the caller and the submit thread reorders nothing.              *)
THEOREM QueueKeepsOrder == Spec => QueueOrder
<1>1. IInv /\ [Next]_vars => [InOrder]_vars
  BY StepInOrder
<1> QED
  BY <1>1, QueueInvariant, PTL DEF Spec, QueueOrder, InOrder
=============================================================================
