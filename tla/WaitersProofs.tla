--------------------------- MODULE WaitersProofs ---------------------------
(***************************************************************************)
(* EveryWaitIsWatched for every number of waiters, signallers and GPU      *)
(* words.                                                                  *)
(*                                                                         *)
(* The property is not inductive: whether a sleeper's wake is on the way   *)
(* depends on which generation the sleeper loaded.  The strengthening says *)
(* where the threads are (Places), and what a waiter that has evaluated    *)
(* its predicate may still rely on: while its generation is current, the   *)
(* thread that made the predicate true has not bumped it yet (CpuNews,     *)
(* GpuNews); once it is not, the thread that bumped it has not notified    *)
(* the sleepers yet (Overtaken).                                           *)
(***************************************************************************)
EXTENDS Waiters, TLAPS

Leading == {"recheck", "poll", "drain", "drainScan", "scan", "drop"}
Bumping == {"bump", "bumpLoad", "bumpLock"}
Following == {"lock", "checkGen", "checkLeader", "asleep", "unfollow"}
Outside == {"start", "mark", "done"}

(* After the predicate was false, before the next load of the generation.  *)
Checked == {"claim", "recheck", "poll", "follow", "lock", "checkGen", "checkLeader", "asleep"}

(* A waiter's place tells which of the shared counters and flags it holds. *)
(* Leadership is kept through the broadcast of a leader that found the     *)
(* device lost; a waiter that publishes the loss after wait has returned   *)
(* bumps unregistered.                                                     *)
Places ==
    \A w \in Waiting :
        /\ pc[w] \notin {"store", "notify", "notifyLeader", "interrupt"}
        /\ pc[w] \in Leading => leader = w
        /\ leader = w => pc[w] \in Leading \cup Bumping \cup {"wake"}
        /\ pc[w] \in Outside => w \notin registered
        /\ pc[w] \notin Outside \cup Bumping \cup {"wake"} => w \in registered
        /\ pc[w] \in Bumping \cup {"mark"} /\ w \notin registered => result[w] = "err"
        /\ pc[w] = "wake" /\ leader # w => w \notin registered
        /\ w \in followers <=> pc[w] \in Following
        /\ mutex = w <=> pc[w] \in {"checkGen", "checkLeader"}

NobodyLeads ==
    \A w \in Waiting : pc[w] = "asleep" /\ leader = None => \E t \in Threads : Waking(t)

(* The generation moved on after the sleeper compared it under the mutex.  *)
Overtaken ==
    \A w \in Waiting :
        pc[w] \in {"checkLeader", "asleep"} /\ w \notin current
            => \E t \in Threads : pc[t] \in {"bumpLoad", "bumpLock"}

(* Threads between a store or a first mark_lost and their bump.  A former  *)
(* leader's bump is not one of them: it writes no eventfd.                 *)
Announces(t) ==
    \/ pc[t] = "notify"
    \/ pc[t] = "bump" /\ (t \notin Waiting \/ t \notin registered \/ leader = t)

CpuNews ==
    \A w \in Waiting :
        pc[w] \in Checked /\ w \in current /\ Notified(w)
            => \E t \in Threads : Announces(t)

GpuNews ==
    \A w \in Waiting :
        pc[w] \in Checked /\ w \in current /\ Needs[w] \in ready \cap GpuEvents
            => \/ host
               \/ \E t \in Threads :
                     pc[t] \in {"interrupt", "drain", "drainScan", "scan", "drop", "bump"}

News == NobodyLeads /\ Overtaken /\ CpuNews /\ GpuNews /\ NotifyReachesPoll

(* The inductive invariant.                                                *)
IInv == TypeOK /\ Places /\ News

(* A step of thread t moves t alone.                                       *)
LEMMA Move ==
    ASSUME TypeOK, NEW t \in Threads, NEW l \in Labels, Goto(t, l)
    PROVE  /\ pc' \in [Threads -> Labels]
           /\ pc'[t] = l
           /\ \A u \in Threads : u # t => pc'[u] = pc[u]
BY SMTT(30) DEF TypeOK, Goto

(* Every step of wait, notify, bump, mark_lost and the GPU keeps the       *)
(* counters, the leader flag and the mutex with the threads that own them. *)
LEMMA PlacesKept == TypeOK /\ Places /\ [Next]_vars => TypeOK' /\ Places'
<1> SUFFICES ASSUME TypeOK, Places, [Next]_vars PROVE TypeOK' /\ Places'
  OBVIOUS
<1> USE WaitersAssumption DEF Leading, Bumping, Following, Outside
<1> Waiting \subseteq Threads
  BY DEF Threads
<1>0. /\ "load" \in Labels /\ "predicate" \in Labels /\ "claim" \in Labels
      /\ "recheck" \in Labels /\ "poll" \in Labels /\ "drain" \in Labels
      /\ "drainScan" \in Labels /\ "scan" \in Labels /\ "drop" \in Labels
      /\ "bump" \in Labels /\ "bumpLoad" \in Labels /\ "bumpLock" \in Labels
      /\ "follow" \in Labels /\ "lock" \in Labels /\ "checkGen" \in Labels
      /\ "checkLeader" \in Labels /\ "asleep" \in Labels /\ "unfollow" \in Labels
      /\ "unregister" \in Labels /\ "mark" \in Labels /\ "notify" \in Labels
      /\ "notifyLeader" \in Labels /\ "wake" \in Labels /\ "interrupt" \in Labels
      /\ "done" \in Labels
  BY DEF Labels
<1>1. ASSUME NEW w \in Waiting, Register(w) PROVE TypeOK' /\ Places'
  BY <1>0, <1>1, Move DEF Register, TypeOK, Places, deviceVars
<1>2. ASSUME NEW w \in Waiting, LoadGeneration(w) PROVE TypeOK' /\ Places'
  BY <1>0, <1>2, Move DEF LoadGeneration, TypeOK, Places, waiterVars, deviceVars
<1>3. ASSUME NEW w \in Waiting, Predicate(w) PROVE TypeOK' /\ Places'
  BY <1>0, <1>3, Move DEF Predicate, TypeOK, Places, Return, deviceVars
<1>4. ASSUME NEW w \in Waiting, Claim(w) PROVE TypeOK' /\ Places'
  BY <1>0, <1>4, Move DEF Claim, TypeOK, Places, deviceVars
<1>5. ASSUME NEW w \in Waiting, Recheck(w) PROVE TypeOK' /\ Places'
  BY <1>0, <1>5, Move DEF Recheck, TypeOK, Places, waiterVars, deviceVars
<1>6. ASSUME NEW w \in Waiting, PollEvent(w) PROVE TypeOK' /\ Places'
  <2>1. wake' \in BOOLEAN /\ host' \in BOOLEAN /\ lost' \in BOOLEAN
    BY <1>6, Zenon DEF PollEvent, TypeOK, deviceVars
  <2>2. PICK l \in {"drain", "drop"} : Goto(w, l)
    BY <1>6, Zenon DEF PollEvent
  <2>3. QED
    BY <1>0, <1>6, <2>1, <2>2, Move DEF PollEvent, TypeOK, Places, waiterVars, deviceVars
<1>7. ASSUME NEW w \in Waiting, Drain(w) PROVE TypeOK' /\ Places'
  <2>1. wake' \in BOOLEAN /\ host' \in BOOLEAN /\ lost' \in BOOLEAN
    BY <1>7, Zenon DEF Drain, TypeOK, deviceVars
  <2>2. PICK l \in {"drop", "scan"} : Goto(w, l)
    BY <1>7, Zenon DEF Drain
  <2>3. QED
    BY <1>0, <1>7, <2>1, <2>2, Move DEF Drain, TypeOK, Places, waiterVars, deviceVars
<1>8. ASSUME NEW w \in Waiting, Scan(w) PROVE TypeOK' /\ Places'
  BY <1>0, <1>8, Move DEF Scan, TypeOK, Places, waiterVars, deviceVars
<1>9. ASSUME NEW w \in Waiting, ScanFinds(w) PROVE TypeOK' /\ Places'
  BY <1>0, <1>9, Move DEF ScanFinds, TypeOK, Places, deviceVars
<1>10. ASSUME NEW w \in Waiting, DropLeadership(w) PROVE TypeOK' /\ Places'
  BY <1>0, <1>10, Move DEF DropLeadership, TypeOK, Places, deviceVars
<1>11. ASSUME NEW w \in Waiting, Follow(w) PROVE TypeOK' /\ Places'
  BY <1>0, <1>11, Move DEF Follow, TypeOK, Places, deviceVars
<1>12. ASSUME NEW w \in Waiting, Lock(w) PROVE TypeOK' /\ Places'
  BY <1>0, <1>12, Move DEF Lock, TypeOK, Places, deviceVars
<1>13. ASSUME NEW w \in Waiting, CheckGen(w) PROVE TypeOK' /\ Places'
  BY <1>0, <1>13, Move DEF CheckGen, TypeOK, Places, deviceVars
<1>14. ASSUME NEW w \in Waiting, CheckLeader(w) PROVE TypeOK' /\ Places'
  BY <1>0, <1>14, Move DEF CheckLeader, TypeOK, Places, deviceVars
<1>15. ASSUME NEW w \in Waiting, Unfollow(w) PROVE TypeOK' /\ Places'
  BY <1>0, <1>15, Move DEF Unfollow, TypeOK, Places, deviceVars
<1>16. ASSUME NEW w \in Waiting, Unregister(w) PROVE TypeOK' /\ Places'
  BY <1>0, <1>16, Move DEF Unregister, TypeOK, Places, deviceVars
<1>17. ASSUME NEW w \in Waiting, MarkLost(w) PROVE TypeOK' /\ Places'
  <2>1. wake' \in BOOLEAN /\ host' \in BOOLEAN /\ lost' \in BOOLEAN
    BY <1>17, Zenon DEF MarkLost, TypeOK, deviceVars
  <2>2. PICK l \in {"done", "bump"} : Goto(w, l)
    BY <1>17, Zenon DEF MarkLost
  <2>3. QED
    BY <1>0, <1>17, <2>1, <2>2, Move DEF MarkLost, TypeOK, Places, waiterVars, deviceVars
<1>18. ASSUME NEW w \in Waiting, DeadlinePassed(w) PROVE TypeOK' /\ Places'
  BY <1>0, <1>18, Move DEF DeadlinePassed, TypeOK, Places, Return, deviceVars
<1>19. ASSUME NEW w \in Waiting, PollDeadline(w) PROVE TypeOK' /\ Places'
  BY <1>0, <1>19, Move DEF PollDeadline, TypeOK, Places, waiterVars, deviceVars
<1>20. ASSUME NEW w \in Waiting, PollScan(w) PROVE TypeOK' /\ Places'
  <2>1. wake' \in BOOLEAN /\ host' \in BOOLEAN /\ lost' \in BOOLEAN
    BY <1>20, Zenon DEF PollScan, TypeOK, deviceVars
  <2>2. PICK l \in {"drainScan", "scan"} : Goto(w, l)
    BY <1>20, Zenon DEF PollScan
  <2>3. pc[w] \in {"recheck", "poll"} /\ UNCHANGED <<waiterVars, current, ready>>
    BY <1>20, Zenon DEF PollScan
  <2>4. QED
    BY <1>0, <2>1, <2>2, <2>3, Move DEF TypeOK, Places, waiterVars
<1>21. ASSUME NEW w \in Waiting, PollFails(w) PROVE TypeOK' /\ Places'
  <2>1. wake' \in BOOLEAN /\ host' \in BOOLEAN /\ lost' \in BOOLEAN
    BY <1>21, Zenon DEF PollFails, TypeOK, deviceVars
  <2>2. PICK l \in {"drop"} : Goto(w, l)
    BY <1>21, Zenon DEF PollFails
  <2>3. QED
    BY <1>0, <1>21, <2>1, <2>2, Move DEF PollFails, TypeOK, Places, deviceVars
<1>22. ASSUME NEW w \in Waiting, FollowerDeadline(w) PROVE TypeOK' /\ Places'
  BY <1>0, <1>22, Move DEF FollowerDeadline, TypeOK, Places, deviceVars
<1>23. ASSUME NEW w \in Waiting, SleepEnds(w) PROVE TypeOK' /\ Places'
  BY <1>0, <1>23, Move DEF SleepEnds, TypeOK, Places, waiterVars, deviceVars
<1>24. ASSUME NEW t \in Threads \ Waiting, Store(t) PROVE TypeOK' /\ Places'
  <2>1. wake' \in BOOLEAN /\ host' \in BOOLEAN /\ lost' \in BOOLEAN
    BY <1>24, Zenon DEF Store, TypeOK, deviceVars
  <2>2. PICK l \in {"notify", "interrupt", "done", "bump"} : Goto(t, l)
    <3>1. CASE t \in CpuEvents /\ lost
      BY <1>24, <3>1, Zenon DEF Store
    <3>2. CASE t \in CpuEvents /\ ~lost
      BY <1>24, <3>2, Zenon DEF Store
    <3>3. CASE t \notin CpuEvents
      BY <1>24, <3>3, Zenon DEF Store
    <3>4. QED
      BY <3>1, <3>2, <3>3
  <2>3. QED
    BY <1>0, <1>24, <2>1, <2>2, Move DEF Store, TypeOK, Places, waiterVars, deviceVars
<1>25. ASSUME NEW t \in Threads \ Waiting, Notify(t) PROVE TypeOK' /\ Places'
  BY <1>0, <1>25, Move DEF Notify, TypeOK, Places, waiterVars, deviceVars
<1>26. ASSUME NEW t \in Threads \ Waiting, NotifyLeader(t) PROVE TypeOK' /\ Places'
  BY <1>0, <1>26, Move DEF NotifyLeader, TypeOK, Places, waiterVars, deviceVars
<1>27. ASSUME NEW t \in Threads \ Waiting, Interrupt(t) PROVE TypeOK' /\ Places'
  BY <1>0, <1>27, Move DEF Interrupt, TypeOK, Places, waiterVars, deviceVars
<1>28. ASSUME NEW t \in Threads, Bump(t) PROVE TypeOK' /\ Places'
  BY <1>0, <1>28, Move DEF Bump, TypeOK, Places, waiterVars, deviceVars
<1>29. ASSUME NEW t \in Threads, BumpLoad(t) PROVE TypeOK' /\ Places'
  BY <1>0, <1>29, Move DEF BumpLoad, TypeOK, Places, waiterVars, AfterBump, deviceVars
<1>30. ASSUME NEW t \in Threads, BumpNotify(t) PROVE TypeOK' /\ Places'
  BY <1>0, <1>30, Move DEF BumpNotify, TypeOK, Places, waiterVars, AfterBump, deviceVars
<1>31. ASSUME NEW t \in Threads, Wake(t) PROVE TypeOK' /\ Places'
  BY <1>0, <1>31, Move DEF Wake, TypeOK, Places, waiterVars, deviceVars
<1>32. CASE UNCHANGED vars
  BY <1>32 DEF vars, TypeOK, Places
<1>33. QED
  BY <1>1, <1>2, <1>3, <1>4, <1>5, <1>6, <1>7, <1>8, <1>9, <1>10, <1>11, <1>12, <1>13, <1>14,
     <1>15, <1>16, <1>17, <1>18, <1>19, <1>20, <1>21, <1>22, <1>23, <1>24, <1>25, <1>26, <1>27,
        <1>28, <1>29, <1>30, <1>31, <1>32 DEF Next, Progress, WaiterProgress, WaiterChance,
           BumpProgress, SignalProgress

(* No step loses a wake-up: Bump makes every loaded generation stale and   *)
(* stays to notify, Recheck and CheckGen let only a current waiter block,  *)
(* and a consumed interrupt leaves the leader on its way to a bump.        *)
LEMMA NewsKept == TypeOK /\ Places /\ News /\ [Next]_vars => News'
<1> SUFFICES ASSUME TypeOK, Places, News, [Next]_vars PROVE News'
  OBVIOUS
<1>0. TypeOK' /\ Places'
  BY PlacesKept
<1> USE WaitersAssumption DEF Leading, Bumping, Following, Outside, Checked, Waking, Announces,
   Notified, WillInterruptPoll
<1> Waiting \subseteq Threads
  BY DEF Threads
<1>1. ASSUME NEW w \in Waiting, Register(w) PROVE News'
  BY <1>0, <1>1 DEF Register, TypeOK, Places, Goto, News, NobodyLeads, Overtaken,
     CpuNews, GpuNews, NotifyReachesPoll, deviceVars
<1>2. ASSUME NEW w \in Waiting, LoadGeneration(w) PROVE News'
  BY <1>0, <1>2 DEF LoadGeneration, TypeOK, Places, Goto, News, NobodyLeads, Overtaken,
     CpuNews, GpuNews, NotifyReachesPoll, waiterVars, deviceVars
<1>3. ASSUME NEW w \in Waiting, Predicate(w) PROVE News'
  BY <1>0, <1>3 DEF Predicate, TypeOK, Places, Goto, News, NobodyLeads, Overtaken,
     CpuNews, GpuNews, NotifyReachesPoll, Return, deviceVars
<1>4. ASSUME NEW w \in Waiting, Claim(w) PROVE News'
  BY <1>0, <1>4 DEF Claim, TypeOK, Places, Goto, News, NobodyLeads, Overtaken,
     CpuNews, GpuNews, NotifyReachesPoll, deviceVars
<1>5. ASSUME NEW w \in Waiting, Recheck(w) PROVE News'
  BY <1>0, <1>5 DEF Recheck, TypeOK, Places, Goto, News, NobodyLeads, Overtaken,
     CpuNews, GpuNews, NotifyReachesPoll, waiterVars, deviceVars
<1>6. ASSUME NEW w \in Waiting, PollEvent(w) PROVE News'
  BY <1>0, <1>6 DEF PollEvent, TypeOK, Places, Goto, News, NobodyLeads, Overtaken,
     CpuNews, GpuNews, NotifyReachesPoll, waiterVars, deviceVars
<1>7. ASSUME NEW w \in Waiting, Drain(w) PROVE News'
  BY <1>0, <1>7 DEF Drain, TypeOK, Places, Goto, News, NobodyLeads, Overtaken,
     CpuNews, GpuNews, NotifyReachesPoll, waiterVars, deviceVars
<1>8. ASSUME NEW w \in Waiting, Scan(w) PROVE News'
  BY <1>0, <1>8 DEF Scan, TypeOK, Places, Goto, News, NobodyLeads, Overtaken,
     CpuNews, GpuNews, NotifyReachesPoll, waiterVars, deviceVars
<1>9. ASSUME NEW w \in Waiting, ScanFinds(w) PROVE News'
  BY <1>0, <1>9 DEF ScanFinds, TypeOK, Places, Goto, News, NobodyLeads, Overtaken,
     CpuNews, GpuNews, NotifyReachesPoll, deviceVars
<1>10. ASSUME NEW w \in Waiting, DropLeadership(w) PROVE News'
  BY <1>0, <1>10 DEF DropLeadership, TypeOK, Places, Goto, News, NobodyLeads, Overtaken,
     CpuNews, GpuNews, NotifyReachesPoll, deviceVars
<1>11. ASSUME NEW w \in Waiting, Follow(w) PROVE News'
  BY <1>0, <1>11 DEF Follow, TypeOK, Places, Goto, News, NobodyLeads, Overtaken,
     CpuNews, GpuNews, NotifyReachesPoll, deviceVars
<1>12. ASSUME NEW w \in Waiting, Lock(w) PROVE News'
  BY <1>0, <1>12 DEF Lock, TypeOK, Places, Goto, News, NobodyLeads, Overtaken,
     CpuNews, GpuNews, NotifyReachesPoll, deviceVars
<1>13. ASSUME NEW w \in Waiting, CheckGen(w) PROVE News'
  BY <1>0, <1>13 DEF CheckGen, TypeOK, Places, Goto, News, NobodyLeads, Overtaken,
     CpuNews, GpuNews, NotifyReachesPoll, deviceVars
<1>14. ASSUME NEW w \in Waiting, CheckLeader(w) PROVE News'
  BY <1>0, <1>14 DEF CheckLeader, TypeOK, Places, Goto, News, NobodyLeads, Overtaken,
     CpuNews, GpuNews, NotifyReachesPoll, deviceVars
<1>15. ASSUME NEW w \in Waiting, Unfollow(w) PROVE News'
  BY <1>0, <1>15 DEF Unfollow, TypeOK, Places, Goto, News, NobodyLeads, Overtaken,
     CpuNews, GpuNews, NotifyReachesPoll, deviceVars
<1>16. ASSUME NEW w \in Waiting, Unregister(w) PROVE News'
  BY <1>0, <1>16 DEF Unregister, TypeOK, Places, Goto, News, NobodyLeads, Overtaken,
     CpuNews, GpuNews, NotifyReachesPoll, deviceVars
<1>17. ASSUME NEW w \in Waiting, MarkLost(w) PROVE News'
  BY <1>0, <1>17 DEF MarkLost, TypeOK, Places, Goto, News, NobodyLeads, Overtaken,
     CpuNews, GpuNews, NotifyReachesPoll, waiterVars, deviceVars
<1>18. ASSUME NEW w \in Waiting, DeadlinePassed(w) PROVE News'
  BY <1>0, <1>18 DEF DeadlinePassed, TypeOK, Places, Goto, News, NobodyLeads, Overtaken,
     CpuNews, GpuNews, NotifyReachesPoll, Return, deviceVars
<1>19. ASSUME NEW w \in Waiting, PollDeadline(w) PROVE News'
  BY <1>0, <1>19 DEF PollDeadline, TypeOK, Places, Goto, News, NobodyLeads, Overtaken,
     CpuNews, GpuNews, NotifyReachesPoll, waiterVars, deviceVars
<1>20. ASSUME NEW w \in Waiting, PollScan(w) PROVE News'
  <2>1. PICK l \in {"drainScan", "scan"} : Goto(w, l)
    BY <1>20, Zenon DEF PollScan
  <2>2. pc[w] \in {"recheck", "poll"} /\ UNCHANGED <<waiterVars, current, wake, ready, lost>>
    BY <1>20, Zenon DEF PollScan
  <2>3. QED
    BY <1>0, <2>1, <2>2 DEF TypeOK, Places, Goto, News, NobodyLeads, Overtaken, CpuNews,
       GpuNews, NotifyReachesPoll, waiterVars
<1>21. ASSUME NEW w \in Waiting, PollFails(w) PROVE News'
  BY <1>0, <1>21 DEF PollFails, TypeOK, Places, Goto, News, NobodyLeads, Overtaken,
     CpuNews, GpuNews, NotifyReachesPoll, deviceVars
<1>22. ASSUME NEW w \in Waiting, FollowerDeadline(w) PROVE News'
  BY <1>0, <1>22 DEF FollowerDeadline, TypeOK, Places, Goto, News, NobodyLeads, Overtaken,
     CpuNews, GpuNews, NotifyReachesPoll, deviceVars
<1>23. ASSUME NEW w \in Waiting, SleepEnds(w) PROVE News'
  BY <1>0, <1>23 DEF SleepEnds, TypeOK, Places, Goto, News, NobodyLeads, Overtaken,
     CpuNews, GpuNews, NotifyReachesPoll, waiterVars, deviceVars
<1>24. ASSUME NEW t \in Threads \ Waiting, Store(t) PROVE News'
  BY <1>0, <1>24 DEF Store, TypeOK, Places, Goto, News, NobodyLeads, Overtaken,
     CpuNews, GpuNews, NotifyReachesPoll, waiterVars, deviceVars
<1>25. ASSUME NEW t \in Threads \ Waiting, Notify(t) PROVE News'
  BY <1>0, <1>25 DEF Notify, TypeOK, Places, Goto, News, NobodyLeads, Overtaken,
     CpuNews, GpuNews, NotifyReachesPoll, waiterVars, deviceVars
<1>26. ASSUME NEW t \in Threads \ Waiting, NotifyLeader(t) PROVE News'
  BY <1>0, <1>26 DEF NotifyLeader, TypeOK, Places, Goto, News, NobodyLeads, Overtaken,
     CpuNews, GpuNews, NotifyReachesPoll, waiterVars, deviceVars
<1>27. ASSUME NEW t \in Threads \ Waiting, Interrupt(t) PROVE News'
  BY <1>0, <1>27 DEF Interrupt, TypeOK, Places, Goto, News, NobodyLeads, Overtaken,
     CpuNews, GpuNews, NotifyReachesPoll, waiterVars, deviceVars
<1>28. ASSUME NEW t \in Threads, Bump(t) PROVE News'
  BY <1>0, <1>28 DEF Bump, TypeOK, Places, Goto, News, NobodyLeads, Overtaken,
     CpuNews, GpuNews, NotifyReachesPoll, waiterVars, deviceVars
<1>29. ASSUME NEW t \in Threads, BumpLoad(t) PROVE News'
  BY <1>0, <1>29, SMTT(30) DEF BumpLoad, TypeOK, Places, Goto, News, NobodyLeads, Overtaken,
     CpuNews, GpuNews, NotifyReachesPoll, waiterVars, AfterBump, deviceVars
<1>30. ASSUME NEW t \in Threads, BumpNotify(t) PROVE News'
  BY <1>0, <1>30 DEF BumpNotify, TypeOK, Places, Goto, News, NobodyLeads, Overtaken,
     CpuNews, GpuNews, NotifyReachesPoll, waiterVars, AfterBump, deviceVars
<1>31. ASSUME NEW t \in Threads, Wake(t) PROVE News'
  <2>1. PICK l \in {"drop", "done"} : Goto(t, l)
    BY <1>31, Zenon DEF Wake
  <2>2. wake' /\ pc[t] = "wake" /\ UNCHANGED <<waiterVars, current, host, ready, lost>>
    BY <1>31, Zenon DEF Wake
  <2>3. NotifyReachesPoll'
    BY <2>2 DEF NotifyReachesPoll
  <2>4. NobodyLeads' /\ Overtaken' /\ GpuNews'
    BY <2>1, <2>2 DEF TypeOK, Goto, News, NobodyLeads, Overtaken, GpuNews, waiterVars
  <2>5. ASSUME NEW u \in Threads, Announces(u) PROVE Announces(u)'
    BY <2>1, <2>2, <2>5 DEF TypeOK, Goto, waiterVars
  <2>6. CpuNews'
    BY <2>1, <2>2, <2>5 DEF TypeOK, Goto, News, CpuNews, waiterVars
  <2>7. QED
    BY <2>3, <2>4, <2>6 DEF News
<1>32. CASE UNCHANGED vars
  BY <1>32 DEF vars, News, NobodyLeads, Overtaken, CpuNews, GpuNews, NotifyReachesPoll
<1>33. QED
  BY <1>1, <1>2, <1>3, <1>4, <1>5, <1>6, <1>7, <1>8, <1>9, <1>10, <1>11, <1>12, <1>13, <1>14,
     <1>15, <1>16, <1>17, <1>18, <1>19, <1>20, <1>21, <1>22, <1>23, <1>24, <1>25, <1>26, <1>27,
        <1>28, <1>29, <1>30, <1>31, <1>32 DEF Next, Progress, WaiterProgress, WaiterChance,
           BumpProgress, SignalProgress

(* The invariant holds in every reachable state.                           *)
LEMMA IInvHolds == Spec => []IInv
<1>1. Init => IInv
  <2>1. Init => TypeOK
    <3>1. {"start", "store"} \subseteq Labels
      BY DEF Labels
    <3>2. Init => pc \in [Threads -> Labels]
      BY <3>1 DEF Init
    <3>3. QED
      BY <3>2, Zenon DEF Init, TypeOK
  <2>2. Init => Places
    <3> SUFFICES ASSUME Init, NEW w \in Waiting
                 PROVE  /\ pc[w] = "start" /\ leader # w /\ mutex # w
                        /\ w \notin registered /\ w \notin followers
      BY Zenon DEF Places, Leading, Bumping, Following, Outside
    <3> QED
      BY WaitersAssumption DEF Init, Threads
  <2>3. Init => News
    BY DEF Init, News, NobodyLeads, Overtaken, CpuNews, GpuNews, NotifyReachesPoll, Threads,
       Checked, Leading, Following
  <2>4. QED
    BY <2>1, <2>2, <2>3 DEF IInv
<1>2. IInv /\ [Next]_vars => IInv'
  BY PlacesKept, NewsKept DEF IInv
<1>3. QED
  BY <1>1, <1>2, PTL DEF Spec

(* Only registered threads lead or follow and only a follower holds the    *)
(* lock of waiters.rs, on the error paths of wait too.                     *)
THEOREM WaitersTypes == Spec => []TypeOK
<1>1. IInv => TypeOK
  BY DEF IInv
<1>2. QED
  BY <1>1, IInvHolds, PTL

(* For any number of waiting threads, signallers and GPU words: at most    *)
(* one waiter polls, no sleeper is left without a wake on its way, and no  *)
(* notification misses a leader that is about to poll (waiters.rs wait,    *)
(* notify and bump, mesa.rs mark_lost).                                    *)
THEOREM WaitsAreWatched == Spec => []EveryWaitIsWatched
<1>1. IInv => SinglePoller
  BY DEF IInv, Places, SinglePoller, Polling, Leading
<1>2. IInv => AsleepIsCovered
  <2> SUFFICES ASSUME IInv, NEW w \in Waiting, pc[w] = "asleep"
               PROVE  /\ leader = None => \E t \in Threads : Waking(t)
                      /\ Satisfied(w) =>
                            \/ host
                            \/ \E t \in Threads :
                                  \/ Waking(t)
                                  \/ pc[t] \in {"notify", "interrupt", "drain", "drainScan",
                                               "scan", "drop"}
    BY DEF AsleepIsCovered
  <2>1. leader = None => \E t \in Threads : Waking(t)
    BY DEF IInv, News, NobodyLeads
  <2>2. CASE w \notin current
    BY <2>1, <2>2 DEF IInv, News, Overtaken, Waking
  <2>3. CASE w \in current /\ Notified(w)
    BY <2>1, <2>3 DEF IInv, News, CpuNews, Checked, Following, Announces, Waking
  <2>4. CASE w \in current /\ ~Notified(w) /\ Satisfied(w)
    <3>1. Needs[w] \in ready \cap GpuEvents
      BY <2>4, WaitersAssumption DEF Satisfied, Notified
    <3>2. QED
      BY <2>1, <2>4, <3>1 DEF IInv, News, GpuNews, Checked, Following, Waking
  <2>5. QED
    BY <2>1, <2>2, <2>3, <2>4
<1>3. IInv => NotifyReachesPoll
  BY DEF IInv, News
<1>4. QED
  BY <1>1, <1>2, <1>3, IInvHolds, PTL DEF EveryWaitIsWatched
=============================================================================
