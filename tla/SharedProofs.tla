---------------------------- MODULE SharedProofs ----------------------------
(***************************************************************************)
(* SharedTruth for any number of processes and values, and that the shared *)
(* word never goes back.                                                   *)
(*                                                                         *)
(* The property becomes inductive with two facts about the order of        *)
(* signals: the values signalled so far are a prefix of the numbers, and   *)
(* the one submission between its acceptance and add_point signals the     *)
(* value after `pending'.                                                  *)
(***************************************************************************)
EXTENDS SharedTimeline, WellFoundedInduction, TLAPS

(* A set of naturals has a least element.                                  *)
LEMMA LeastExists ==
    ASSUME NEW S, S \subseteq Nat, S # {}
    PROVE  \E x \in S : \A y \in S : x <= y
<1> DEFINE R == OpToRel(<, Nat)
<1>1. IsWellFoundedOn(R, Nat)
  BY NatLessThanWellFounded, Zenon
<1>2. \A x, y \in Nat : x < y => <<x, y>> \in R
  BY DEF OpToRel
<1> HIDE DEF R
<1>3. PICK x \in S : \A y \in S : <<y, x>> \notin R
  BY <1>1, WFMin, Zenon
<1>4. ASSUME NEW y \in S PROVE x <= y
  <2>1. x \in Nat /\ y \in Nat /\ ~(y < x)
    BY <1>2, <1>3, Zenon
  <2>2. QED
    BY <2>1
<1>5. QED
  BY <1>4

(* A bounded set of naturals has the maximum that Max chooses.             *)
LEMMA MaxExists ==
    ASSUME NEW N \in Nat, NEW S, S \subseteq 0..N, S # {}
    PROVE  /\ Max(S) \in S
           /\ \A y \in S : Max(S) >= y
<1> DEFINE T == {N - x : x \in S}
<1>1. T \subseteq Nat /\ T # {}
  <2>1. ASSUME NEW x \in S PROVE N - x \in Nat
    <3>1. x \in 0..N
      OBVIOUS
    <3>2. QED
      BY <3>1
  <2>2. QED
    BY <2>1, Zenon
<1>2. PICK m \in T : \A y \in T : m <= y
  BY <1>1, LeastExists, Zenon
<1>3. PICK x \in S : m = N - x
  OBVIOUS
<1>4. \A y \in S : x >= y
  BY <1>2, <1>3
<1>5. QED
  BY <1>3, <1>4, Zenon DEF Max

CallLabels == {"none", "add_point", "publish", "gate"}

(* The variables SharedTruth speaks of; a call in progress names a value.  *)
Types ==
    /\ completed \in 0..MaxValue /\ pending \in 0..MaxValue /\ error \in BOOLEAN
    /\ points \in [Procs -> SUBSET Values] /\ publish \in [Procs -> BOOLEAN]
    /\ gates \in [Procs -> SUBSET Values] /\ opened \subseteq Procs \X Values
    /\ call \in [Procs -> [pc : CallLabels, value : 0..MaxValue]]
    /\ \A p \in Procs : call[p].pc # "none" => call[p].value # 0
    /\ lost \in [Procs -> BOOLEAN] /\ done \subseteq Values

(* The word, the points and the values done follow the order of the        *)
(* submissions.                                                            *)
Ordered ==
    /\ completed <= pending
    /\ \A p \in Procs : \A v \in points[p] : v <= pending
    /\ \A p \in Procs : call[p].pc = "add_point" => call[p].value = pending + 1
    /\ \A p, q \in Procs : call[p].pc = "add_point" /\ call[q].pc = "add_point" => p = q
    /\ \A v \in done : 1..v \subseteq done

(* The inductive invariant.                                                *)
IInv == Types /\ Ordered /\ SharedTruth

(* What a step of process p may do to the word and to its points.          *)
Advance(p) == Refresh(p) \/ UNCHANGED <<completed, points>>

(* Shared::refresh never lowers the word and never raises it over a value  *)
(* that has not been signalled.                                            *)
LEMMA RefreshedFacts ==
    ASSUME Types, Ordered, CompletedTruth, NEW p \in Procs
    PROVE  /\ Refreshed(p) \in 0..MaxValue
           /\ Refreshed(p) >= completed
           /\ Refreshed(p) <= pending
           /\ 1..Refreshed(p) \subseteq done
<1> DEFINE S == {completed} \cup (points[p] \cap done)
<1>1. S \subseteq 0..MaxValue /\ S # {}
  BY SharedAssumption DEF Types, Values
<1>2. Refreshed(p) \in S /\ \A y \in S : Refreshed(p) >= y
  BY <1>1, MaxExists, SharedAssumption DEF Refreshed
<1>3. QED
  BY <1>1, <1>2 DEF Types, Ordered, CompletedTruth

(* A refresh drops the published points only.                              *)
LEMMA AdvanceKeeps ==
    ASSUME Types, Ordered, CompletedTruth, NEW p \in Procs, Advance(p),
           UNCHANGED <<pending, done>>
    PROVE  /\ completed' \in 0..MaxValue /\ completed' >= completed /\ completed' <= pending
           /\ 1..completed' \subseteq done
           /\ points' \in [Procs -> SUBSET Values]
           /\ \A q \in Procs : points'[q] \subseteq points[q]
           /\ \A q \in Procs : \A v \in points[q] : v > completed' => v \in points'[q]
<1>1. CASE Refresh(p)
  BY <1>1, RefreshedFacts DEF Refresh, Types
<1>2. CASE UNCHANGED <<completed, points>>
  BY <1>2 DEF Types, Ordered, CompletedTruth
<1>3. QED
  BY <1>1, <1>2 DEF Advance

(* A step that at most refreshes forgets no point, as long as the payload  *)
(* of a process with points stays on its publish list or the process is    *)
(* lost.                                                                   *)
LEMMA PointsKept ==
    ASSUME Types, Ordered, CompletedTruth, NoPointForgotten, NEW p \in Procs, Advance(p),
           UNCHANGED <<pending, done>>, error => error',
           \A q \in Procs : lost[q] => lost'[q],
           \A q \in Procs : call[q].pc = "publish" => call'[q].pc = "publish",
           \A q \in Procs : publish[q] /\ points[q] # {} => publish'[q] \/ lost'[q]
    PROVE  NoPointForgotten'
<1> SUFFICES ASSUME NEW v \in 1..pending, v > completed'
             PROVE  \E q \in Procs : /\ v \in points'[q]
                                     /\ \/ publish'[q] \/ error' \/ call'[q].pc = "publish"
                                        \/ lost'[q]
  BY DEF NoPointForgotten
<1>1. v > completed
  BY AdvanceKeeps DEF Types
<1>2. PICK q \in Procs : /\ v \in points[q]
                         /\ publish[q] \/ error \/ call[q].pc = "publish" \/ lost[q]
  BY <1>1 DEF NoPointForgotten
<1>3. v \in points'[q]
  BY <1>2, AdvanceKeeps
<1>4. QED
  BY <1>2, <1>3, Zenon

(* A step of the watcher or of an interrupt that touches none of these.    *)
LEMMA QuietStep ==
    ASSUME IInv, UNCHANGED <<completed, pending, error, points, publish, gates, opened, call,
                             lost, done>>
    PROVE  IInv'
<1>1. Types' /\ Ordered'
  BY DEF IInv, Types, Ordered
<1>2. CompletedTruth' /\ GateTruth' /\ NoPointForgotten'
  BY ZenonT(30) DEF IInv, SharedTruth, CompletedTruth, GateTruth, NoPointForgotten
<1>3. QED
  BY <1>1, <1>2 DEF IInv, SharedTruth

(* Every step of the calls, the watchers and the GPU keeps the invariant.  *)
LEMMA StepKeeps == IInv /\ [Next]_vars => IInv'
<1> SUFFICES ASSUME IInv, [Next]_vars PROVE IInv'
  OBVIOUS
<1> USE SharedAssumption DEF IInv, SharedTruth
<1>1. ASSUME NEW p \in Procs, SubmitSignal(p) PROVE IInv'
  <2>1. Types'
    BY <1>1 DEF SubmitSignal, Ordered, Types, CallLabels, Idle, NoCall, Values
  <2>2. Ordered'
    BY <1>1 DEF SubmitSignal, Ordered, Types, CallLabels, Idle, NoCall, Values
  <2>3. CompletedTruth' /\ GateTruth'
    BY <1>1 DEF SubmitSignal, CompletedTruth, GateTruth, Ordered, Types
  <2>4. NoPointForgotten'
    <3>1. \A q \in Procs : call[q].pc = "publish" => call'[q].pc = "publish"
      BY <1>1 DEF SubmitSignal, Types, Idle, NoCall
    <3>2. UNCHANGED <<completed, pending, error, points, publish, lost>>
      BY <1>1 DEF SubmitSignal
    <3>3. QED
      BY <3>1, <3>2 DEF NoPointForgotten
  <2>5. QED
    BY <2>1, <2>2, <2>3, <2>4
<1>2. ASSUME NEW p \in Procs, AddPoint(p) PROVE IInv'
  <2>1. /\ call[p].value = pending + 1 /\ pending + 1 \in Values
        /\ pending' = pending + 1
    <3>1. call[p].value = pending + 1 /\ pending + 1 \in Values
      BY <1>2 DEF AddPoint, Ordered, Types, Values
    <3> DEFINE S == {pending, pending + 1}
    <3>2. S \subseteq 0..MaxValue /\ S # {}
      BY <3>1 DEF Types, Values
    <3>3. Max(S) \in S /\ \A y \in S : Max(S) >= y
      BY <3>2, MaxExists
    <3>4. Max(S) = pending + 1
      BY <3>3 DEF Types
    <3>5. QED
      BY <1>2, <3>1, <3>4 DEF AddPoint
  <2>2. /\ points' = [points EXCEPT ![p] = @ \cup {pending + 1}]
        /\ call' = [call EXCEPT ![p].pc = "publish"] /\ call[p].pc = "add_point"
        /\ UNCHANGED <<completed, error, publish, gates, opened, lost, done>>
    BY <1>2, <2>1 DEF AddPoint
  <2>3. Types'
    BY <2>1, <2>2 DEF Types, CallLabels, Values
  <2>4. Ordered'
    BY <2>1, <2>2 DEF Types, Ordered, Values
  <2>5. CompletedTruth' /\ GateTruth'
    BY <2>2 DEF CompletedTruth, GateTruth
  <2>6. \A q \in Procs : points[q] \subseteq points'[q] /\ (call[q].pc = "publish" => call'[q].pc = "publish")
    BY <2>2 DEF Types
  <2>7. pending + 1 \in points'[p] /\ call'[p].pc = "publish"
    BY <2>2 DEF Types
  <2>8. ASSUME NEW v \in 1..(pending + 1), v > completed
        PROVE  \E q \in Procs : /\ v \in points'[q]
                                /\ publish[q] \/ error \/ call'[q].pc = "publish" \/ lost[q]
    <3>1. CASE v = pending + 1
      BY <2>7, <3>1
    <3>2. CASE v # pending + 1
      <4>1. v \in 1..pending
        BY <3>2 DEF Types
      <4>2. PICK q \in Procs : /\ v \in points[q]
                               /\ publish[q] \/ error \/ call[q].pc = "publish" \/ lost[q]
        BY <2>8, <4>1 DEF NoPointForgotten
      <4>3. QED
        BY <2>6, <4>2, Zenon
    <3>3. QED
      BY <3>1, <3>2
  <2>9. NoPointForgotten'
    BY <2>1, <2>2, <2>8, Zenon DEF NoPointForgotten
  <2>10. QED
    BY <2>3, <2>4, <2>5, <2>9
<1>3. ASSUME NEW p \in Procs, Publish(p) PROVE IInv'
  <2>1. Types'
    BY <1>3 DEF Publish, Ordered, Types, NoCall, CallLabels, Values
  <2>2. Ordered'
    BY <1>3 DEF Publish, Ordered, Types, NoCall, CallLabels, Values
  <2>3. CompletedTruth' /\ GateTruth'
    BY <1>3 DEF Publish, CompletedTruth, GateTruth, Ordered, Types
  <2>4. NoPointForgotten'
    BY <1>3 DEF Publish, NoPointForgotten, Types, NoCall
  <2>5. QED
    BY <2>1, <2>2, <2>3, <2>4
<1>4. ASSUME NEW p \in Procs, NEW v \in Values, PlanWait(p, v) PROVE IInv'
  <2>1. Advance(p) /\ UNCHANGED <<pending, done>>
    BY <1>4, ZenonT(30) DEF PlanWait, Advance
  <2>2. Types'
    BY <1>4, <2>1, AdvanceKeeps DEF PlanWait, CompletedTruth, Ordered, Types, CallLabels,
       Openable, Idle, NoCall, Values
  <2>3. Ordered'
    BY <1>4, <2>1, AdvanceKeeps DEF PlanWait, CompletedTruth, Ordered, Types, CallLabels,
       Openable, Idle, NoCall, Values
  <2>4. CompletedTruth'
    BY <1>4, <2>1, AdvanceKeeps, ZenonT(30) DEF PlanWait, CompletedTruth, Ordered, Types, CallLabels,
       Openable, Idle, NoCall, Values
  <2>5. GateTruth'
    BY <1>4, <2>1, AdvanceKeeps DEF PlanWait, CompletedTruth, GateTruth, Ordered, Types,
       CallLabels, Openable, Idle, NoCall, Values
  <2>6. error => error'
    BY <1>4, Zenon DEF PlanWait
  <2>7. \A q \in Procs : lost[q] => lost'[q]
    BY <1>4 DEF PlanWait, Types
  <2>8. \A q \in Procs : call[q].pc = "publish" => call'[q].pc = "publish"
    BY <1>4 DEF PlanWait, Types, Idle, NoCall
  <2>9. \A q \in Procs : publish[q] /\ points[q] # {} => publish'[q] \/ lost'[q]
    BY <1>4 DEF PlanWait, Types, StillLocal
  <2>10. NoPointForgotten'
    BY <2>1, <2>6, <2>7, <2>8, <2>9, PointsKept, ZenonT(30)
  <2>11. QED
    BY <2>2, <2>3, <2>4, <2>5, <2>10
<1>5. ASSUME NEW p \in Procs, Gate(p) PROVE IInv'
  <2>1. Types'
    BY <1>5 DEF Gate, Ordered, Types, NoCall, CallLabels, Values
  <2>2. Ordered'
    BY <1>5 DEF Gate, Ordered, Types, NoCall, CallLabels, Values
  <2>3. CompletedTruth' /\ GateTruth'
    BY <1>5 DEF Gate, CompletedTruth, GateTruth, Ordered, Types
  <2>4. NoPointForgotten'
    BY <1>5, ZenonT(30) DEF Gate, NoPointForgotten, Types, NoCall
  <2>5. QED
    BY <2>1, <2>2, <2>3, <2>4
<1>6. ASSUME NEW p \in Procs, Query(p) PROVE IInv'
  <2>1. Advance(p) /\ UNCHANGED <<pending, done>>
    BY <1>6 DEF Query, Advance
  <2>2. Types'
    BY <1>6, <2>1, AdvanceKeeps, ZenonT(30) DEF Query, CompletedTruth, Ordered, Types, CallLabels, Openable,
       Idle, NoCall, Values
  <2>3. Ordered'
    BY <1>6, <2>1, AdvanceKeeps, ZenonT(30) DEF Query, CompletedTruth, Ordered, Types, CallLabels, Openable,
       Idle, NoCall, Values
  <2>4. CompletedTruth'
    BY <1>6, <2>1, AdvanceKeeps, ZenonT(30) DEF Query, CompletedTruth, Ordered, Types, CallLabels, Openable,
       Idle, NoCall, Values
  <2>5. GateTruth'
    BY <1>6, <2>1, AdvanceKeeps DEF Query, CompletedTruth, GateTruth, Ordered, Types, CallLabels,
       Openable, Idle, NoCall, Values
  <2>6. error => error'
    BY <1>6, Zenon DEF Query
  <2>7. \A q \in Procs : lost[q] => lost'[q]
    BY <1>6 DEF Query, Types
  <2>8. \A q \in Procs : call[q].pc = "publish" => call'[q].pc = "publish"
    BY <1>6 DEF Query, Types, Idle, NoCall
  <2>9. \A q \in Procs : publish[q] /\ points[q] # {} => publish'[q] \/ lost'[q]
    BY <1>6, ZenonT(30) DEF Query, Types, StillLocal
  <2>10. NoPointForgotten'
    BY <2>1, <2>6, <2>7, <2>8, <2>9, PointsKept, ZenonT(30)
  <2>11. QED
    BY <2>2, <2>3, <2>4, <2>5, <2>10
<1>7. ASSUME NEW p \in Procs, CpuSignal(p) PROVE IInv'
  <2>1. Types'
    BY <1>7 DEF CpuSignal, Ordered, Types, CallLabels, Values
  <2>2. Ordered'
    BY <1>7 DEF CpuSignal, Ordered, Types, CallLabels, Values
  <2>3. CompletedTruth' /\ GateTruth'
    BY <1>7 DEF CpuSignal, CompletedTruth, GateTruth, Ordered, Types
  <2>4. NoPointForgotten'
    BY <1>7 DEF CpuSignal, NoPointForgotten, Types, NoCall
  <2>5. QED
    BY <2>1, <2>2, <2>3, <2>4
<1>8. ASSUME NEW p \in Procs, Trigger(p) PROVE IInv'
  BY <1>8, QuietStep DEF Trigger
<1>9. ASSUME NEW p \in Procs, Lose(p) PROVE IInv'
  <2>1. Types'
    BY <1>9 DEF Lose, Ordered, Types, CallLabels, Values
  <2>2. Ordered'
    BY <1>9 DEF Lose, Ordered, Types, CallLabels, Values
  <2>3. CompletedTruth' /\ GateTruth'
    BY <1>9 DEF Lose, CompletedTruth, GateTruth, Ordered, Types
  <2>4. NoPointForgotten'
    BY <1>9 DEF Lose, NoPointForgotten, Types, NoCall
  <2>5. QED
    BY <2>1, <2>2, <2>3, <2>4
<1>10. ASSUME NEW p \in Procs, Snapshot(p) PROVE IInv'
  BY <1>10, QuietStep, ZenonT(30) DEF Snapshot
<1>11. ASSUME NEW p \in Procs, Poll(p) PROVE IInv'
  BY <1>11, QuietStep DEF Poll
<1>12. ASSUME NEW p \in Procs, FailAll(p) PROVE IInv'
  <2>1. Advance(p) /\ UNCHANGED <<pending, done>>
    BY <1>12, Zenon DEF FailAll, Advance
  <2>2. Types'
    BY <1>12, <2>1, AdvanceKeeps, ZenonT(30) DEF FailAll, CompletedTruth, Ordered, Types, CallLabels,
       Openable, Idle, NoCall, Values
  <2>3. Ordered'
    BY <1>12, <2>1, AdvanceKeeps, ZenonT(30) DEF FailAll, CompletedTruth, Ordered, Types, CallLabels,
       Openable, Idle, NoCall, Values
  <2>4. CompletedTruth'
    BY <1>12, <2>1, AdvanceKeeps, ZenonT(30) DEF FailAll, CompletedTruth, Ordered, Types, CallLabels,
       Openable, Idle, NoCall, Values
  <2>5. GateTruth'
    BY <1>12, <2>1, AdvanceKeeps DEF FailAll, CompletedTruth, GateTruth, Ordered, Types,
       CallLabels, Openable, Idle, NoCall, Values
  <2>6. error => error'
    BY <1>12, Zenon DEF FailAll
  <2>7. \A q \in Procs : lost[q] => lost'[q]
    BY <1>12 DEF FailAll, Types
  <2>8. \A q \in Procs : call[q].pc = "publish" => call'[q].pc = "publish"
    BY <1>12 DEF FailAll, Types, Idle, NoCall
  <2>9. \A q \in Procs : publish[q] /\ points[q] # {} => publish'[q] \/ lost'[q]
    BY <1>12 DEF FailAll, Types, StillLocal
  <2>10. NoPointForgotten'
    BY <2>1, <2>6, <2>7, <2>8, <2>9, PointsKept
  <2>11. QED
    BY <2>2, <2>3, <2>4, <2>5, <2>10
<1>13. ASSUME NEW p \in Procs, ServicePublish(p) PROVE IInv'
  <2>1. Advance(p) /\ UNCHANGED <<pending, done>>
    BY <1>13 DEF ServicePublish, Advance
  <2>2. Types'
    BY <1>13, <2>1, AdvanceKeeps DEF ServicePublish, CompletedTruth, Ordered, Types, CallLabels,
       Openable, Idle, NoCall, Values
  <2>3. Ordered'
    BY <1>13, <2>1, AdvanceKeeps DEF ServicePublish, CompletedTruth, Ordered, Types, CallLabels,
       Openable, Idle, NoCall, Values
  <2>4. CompletedTruth'
    BY <1>13, <2>1, AdvanceKeeps DEF ServicePublish, CompletedTruth, Ordered, Types, CallLabels,
       Openable, Idle, NoCall, Values
  <2>5. GateTruth'
    BY <1>13, <2>1, AdvanceKeeps DEF ServicePublish, CompletedTruth, GateTruth, Ordered, Types,
       CallLabels, Openable, Idle, NoCall, Values
  <2>6. error => error'
    BY <1>13, Zenon DEF ServicePublish
  <2>7. \A q \in Procs : lost[q] => lost'[q]
    BY <1>13 DEF ServicePublish, Types
  <2>8. \A q \in Procs : call[q].pc = "publish" => call'[q].pc = "publish"
    BY <1>13 DEF ServicePublish, Types, Idle, NoCall
  <2>9. \A q \in Procs : publish[q] /\ points[q] # {} => publish'[q] \/ lost'[q]
    BY <1>13, ZenonT(30) DEF ServicePublish, Types, StillLocal
  <2>10. NoPointForgotten'
    BY <2>1, <2>6, <2>7, <2>8, <2>9, PointsKept
  <2>11. QED
    BY <2>2, <2>3, <2>4, <2>5, <2>10
<1>14. ASSUME NEW p \in Procs, ServiceGates(p) PROVE IInv'
  <2>1. Advance(p) /\ UNCHANGED <<pending, done>>
    BY <1>14 DEF ServiceGates, Advance
  <2>2. Types'
    <3>1. completed' \in 0..MaxValue /\ points' \in [Procs -> SUBSET Values]
      BY <2>1, AdvanceKeeps, ZenonT(30)
    <3>2. UNCHANGED <<pending, error, call, done>>
      BY <1>14, ZenonT(30) DEF ServiceGates
    <3>3. publish' \in [Procs -> BOOLEAN] /\ lost' \in [Procs -> BOOLEAN]
      BY <1>14 DEF ServiceGates, Types
    <3>4. Openable(p) \subseteq Values
      BY ZenonT(30) DEF Openable, Types
    <3>5. gates' \in [Procs -> SUBSET Values]
      BY <1>14 DEF ServiceGates, Types
    <3>6. opened' \subseteq Procs \X Values
      <4>1. opened' = opened \cup {<<p, v>> : v \in Openable(p)}
        BY <1>14 DEF ServiceGates
      <4>2. opened \subseteq Procs \X Values
        BY DEF Types
      <4>3. QED
        BY ONLY <4>1, <4>2, <3>4, p \in Procs, SMTT(30)
    <3>7. Types
      BY ZenonT(30)
    <3>8. QED
      BY ONLY <3>1, <3>2, <3>3, <3>5, <3>6, <3>7 DEF Types
  <2>3. Ordered'
    BY <1>14, <2>1, AdvanceKeeps, ZenonT(30) DEF ServiceGates, CompletedTruth, Ordered, Types, CallLabels,
       Openable, Idle, NoCall, Values
  <2>4. CompletedTruth'
    BY <1>14, <2>1, AdvanceKeeps DEF ServiceGates, CompletedTruth, Ordered, Types, CallLabels,
       Openable, Idle, NoCall, Values
  <2>5. GateTruth'
    <3>1. completed' \in 0..MaxValue /\ 1..completed' \subseteq done
      BY <2>1, AdvanceKeeps
    <3>2. Openable(p) \subseteq done
      BY <3>1 DEF Openable, Types, Values
    <3>3. opened' = opened \cup {<<p, v>> : v \in Openable(p)} /\ done' = done
      BY <1>14, Zenon DEF ServiceGates
    <3>4. QED
      BY <3>2, <3>3 DEF GateTruth
  <2>6. error => error'
    BY <1>14, ZenonT(30) DEF ServiceGates
  <2>7. \A q \in Procs : lost[q] => lost'[q]
    BY <1>14, ZenonT(30) DEF ServiceGates, Types
  <2>8. \A q \in Procs : call[q].pc = "publish" => call'[q].pc = "publish"
    BY <1>14, ZenonT(30) DEF ServiceGates, Types, Idle, NoCall
  <2>9. \A q \in Procs : publish[q] /\ points[q] # {} => publish'[q] \/ lost'[q]
    BY <1>14 DEF ServiceGates, Types, StillLocal
  <2>10. NoPointForgotten'
    BY <2>1, <2>6, <2>7, <2>8, <2>9, PointsKept
  <2>11. QED
    BY <2>2, <2>3, <2>4, <2>5, <2>10
<1>15. ASSUME NEW p \in Procs, WatcherTrigger(p) PROVE IInv'
  BY <1>15, QuietStep DEF WatcherTrigger
<1>16. ASSUME NEW v \in Values, GpuRelease(v) PROVE IInv'
  <2>1. Types' /\ Ordered'
    BY <1>16 DEF GpuRelease, Types, Ordered, Values
  <2>2. CompletedTruth' /\ GateTruth'
    BY <1>16 DEF GpuRelease, CompletedTruth, GateTruth
  <2>3. NoPointForgotten'
    BY <1>16 DEF GpuRelease, NoPointForgotten
  <2>4. QED
    BY <2>1, <2>2, <2>3, ZenonT(30)
<1>17. ASSUME NEW v \in Values, GpuInterrupt(v) PROVE IInv'
  BY <1>17, QuietStep DEF GpuInterrupt
<1>18. CASE UNCHANGED vars
  BY <1>18, QuietStep DEF vars
<1>19. QED
  BY ZenonT(30), <1>1, <1>2, <1>3, <1>4, <1>5, <1>6, <1>7, <1>8, <1>9, <1>10, <1>11, <1>12, <1>13, <1>14,
     <1>15, <1>16, <1>17, <1>18 DEF Next, CallStep, WatcherStep, GpuStep

(* The initial state satisfies the invariant.                              *)
LEMMA InitKeeps == Init => IInv
<1> SUFFICES ASSUME Init PROVE IInv
  OBVIOUS
<1> USE SharedAssumption DEF Init
<1>1. Types
  <2>1. NoCall \in [pc : CallLabels, value : 0..MaxValue]
    BY DEF NoCall, CallLabels
  <2>2. call \in [Procs -> [pc : CallLabels, value : 0..MaxValue]]
    BY <2>1
  <2>3. \A p \in Procs : call[p].pc = "none"
    BY DEF NoCall
  <2>4. /\ completed \in 0..MaxValue /\ pending \in 0..MaxValue /\ opened \subseteq Procs \X Values
        /\ points \in [Procs -> SUBSET Values] /\ gates \in [Procs -> SUBSET Values]
        /\ done \subseteq Values
    OBVIOUS
  <2>5. error \in BOOLEAN /\ publish \in [Procs -> BOOLEAN] /\ lost \in [Procs -> BOOLEAN]
    BY ZenonT(30)
  <2>6. QED
    BY <2>2, <2>3, <2>4, <2>5, Zenon DEF Types
<1>2. Ordered
  BY DEF Ordered, NoCall
<1>3. SharedTruth
  BY DEF SharedTruth, CompletedTruth, GateTruth, NoPointForgotten
<1>4. QED
  BY <1>1, <1>2, <1>3 DEF IInv

(* The invariant holds in every reachable state.                           *)
THEOREM SharedInvariant == Spec => []IInv
BY InitKeeps, StepKeeps, PTL DEF Spec

(* For any number of processes and values: the shared word covers only     *)
(* signalled values, a gate opens after its value's signal, and no signal  *)
(* is forgotten by Shared::refresh or Watcher::fail_all.                   *)
THEOREM SharedIsTrue == Spec => []SharedTruth
<1>1. IInv => SharedTruth
  BY DEF IInv
<1>2. QED
  BY <1>1, SharedInvariant, PTL

(* The memfd words only go forward: no refresh, signal or failure of any   *)
(* process takes back a published value or an announced error.             *)
THEOREM WordAdvances == Spec => [][completed' >= completed /\ (error => error')]_vars
<1>1. IInv /\ [Next]_vars => [completed' >= completed /\ (error => error')]_vars
  <2> SUFFICES ASSUME IInv, Next PROVE completed' >= completed /\ (error => error')
    BY DEF vars
  <2> USE DEF IInv, SharedTruth
  <2>1. CASE \E p \in Procs : \/ Query(p) \/ FailAll(p) \/ ServicePublish(p) \/ ServiceGates(p)
                              \/ \E v \in Values : PlanWait(p, v)
    <3>1. PICK p \in Procs : \/ Query(p) \/ FailAll(p) \/ ServicePublish(p) \/ ServiceGates(p)
                             \/ \E v \in Values : PlanWait(p, v)
      BY <2>1
    <3>2. Advance(p) /\ UNCHANGED <<pending, done>>
      BY <3>1, Zenon DEF Query, FailAll, ServicePublish, ServiceGates, PlanWait, Advance
    <3>3. error => error'
      BY <3>1, Zenon DEF Query, FailAll, ServicePublish, ServiceGates, PlanWait
    <3>4. QED
      BY <3>2, <3>3, AdvanceKeeps
  <2>2. CASE \E p \in Procs : CpuSignal(p)
    BY <2>2 DEF CpuSignal, Types, Ordered
  <2>3. CASE UNCHANGED <<completed, error>>
    BY <2>3 DEF Types
  <2>4. QED
    BY <2>1, <2>2, <2>3, Zenon DEF Next, CallStep, WatcherStep, GpuStep, SubmitSignal, Lose,
       AddPoint,
       Publish, Gate, Trigger, Snapshot, Poll, WatcherTrigger, GpuRelease, GpuInterrupt
<1>2. QED
  BY <1>1, SharedInvariant, PTL DEF Spec
=============================================================================
