------------------------------- MODULE NvkmdMem -------------------------------
(***************************************************************************)
(* Memory and virtual addresses of the NVK kernel-mode layer (nvkmd_rm.c): *)
(* an allocation is RM memory, a reserved range of the VA heap and a       *)
(* binding, taken one after the other and given back when a later one      *)
(* fails; images reserve ranges of their own and bind parts of them.       *)
(* Freed ranges return to the heap through the backend's deferred release, *)
(* when the work using them retired and RM unmapped them.                  *)
(***************************************************************************)
EXTENDS Integers, FiniteSets, FiniteSetsExt

CONSTANTS Mems, Images,
          Pages,       \* 1..n: the heap's 4096-byte pages
          ImagePages,  \* the size of an image's range
          MaxOps       \* bound on bind, unbind and map calls
None == "none"

VARIABLES st,        \* mem -> "none", "alloc", "va", "live"
          va,        \* mem or image -> its reserved pages ({}: no reservation)
          bindings,  \* mem or image -> set of [pages, mem]: va->bindings
          heap,      \* free pages of dev->heap
          pte,       \* page -> the memory RM maps there, or None
          allocs,    \* memories the backend holds
          deferred,  \* released ranges the backend has not unmapped yet
          leases, maps,  \* CPU map leases in the backend; maps the caller holds
          lost, ops

vars == <<st, va, bindings, heap, pte, allocs, deferred, leases, maps, lost, ops>>
Owners == Mems \cup Images

Runs(n, from) == {r \in SUBSET from : Cardinality(r) = n /\ Max(r) - Min(r) = n - 1}
Op == ops < MaxOps /\ ops' = ops + 1
SetPte(ps, m) == pte' = [p \in Pages |-> IF p \in ps THEN m ELSE pte[p]]

\* rm_va_alloc: under va_mutex, a free run of pages; FALSE when none fits.
VaAlloc(x, n) ==
    /\ \E r \in Runs(n, heap) : va' = [va EXCEPT ![x] = r] /\ heap' = heap \ r

\* rm_va_free: the backend takes the mappings and the range; if it refuses,
\* the device is lost and the range retained.  b is what was bound.
VaFree(x) ==
    /\ va' = [va EXCEPT ![x] = {}] /\ bindings' = [bindings EXCEPT ![x] = {}]
    /\ \/ deferred' = deferred \cup {va[x]} /\ lost' = lost
       \/ lost' = TRUE /\ UNCHANGED deferred

\* nv_rm_free, checked: a failure publishes device loss (rm_mem_lost).
RmFree(m, wasLost) ==
    \/ allocs' = allocs \ {m} /\ lost' = wasLost
    \/ lost' = TRUE /\ UNCHANGED allocs

-----------------------------------------------------------------------------
\* rm_mem_alloc_kind / rm_mem_import: nv_rm_alloc or nv_rm_import.
MemAlloc(m) ==
    /\ st[m] = "none"
    /\ st' = [st EXCEPT ![m] = "alloc"] /\ allocs' = allocs \cup {m}
    /\ UNCHANGED <<va, bindings, heap, pte, deferred, leases, maps, lost, ops>>

\* ... then the reservation; fail_mem gives the memory back.
MemVa(m) ==
    /\ st[m] = "alloc"
    /\ \/ VaAlloc(m, 1) /\ st' = [st EXCEPT ![m] = "va"] /\ UNCHANGED <<allocs, lost>>
       \/ RmFree(m, lost) /\ st' = [st EXCEPT ![m] = "none"] /\ UNCHANGED <<va, heap>>
    /\ UNCHANGED <<bindings, pte, deferred, leases, maps, ops>>

\* ... then the binding; a failure frees the reservation, then the memory.
MemBind(m) ==
    /\ st[m] = "va"
    /\ \/ /\ st' = [st EXCEPT ![m] = "live"]
          /\ bindings' = [bindings EXCEPT ![m] = {[pages |-> va[m], mem |-> m]}]
          /\ SetPte(va[m], m) /\ UNCHANGED <<va, deferred, allocs, lost>>
       \/ /\ st' = [st EXCEPT ![m] = "none"]
          /\ va' = [va EXCEPT ![m] = {}] /\ UNCHANGED <<bindings, pte>>
          /\ \E refused \in BOOLEAN :
                /\ deferred' = IF refused THEN deferred ELSE deferred \cup {va[m]}
                /\ RmFree(m, lost \/ refused)
    /\ UNCHANGED <<heap, leases, maps, ops>>

\* rm_mem_free
MemFree(m) ==
    /\ st[m] = "live" /\ maps[m] = 0
    /\ \A x \in Images : \A b \in bindings[x] : b.mem # m
    /\ st' = [st EXCEPT ![m] = "none"]
    /\ va' = [va EXCEPT ![m] = {}] /\ bindings' = [bindings EXCEPT ![m] = {}]
    /\ \E refused \in BOOLEAN :
          /\ deferred' = IF refused THEN deferred ELSE deferred \cup {va[m]}
          /\ RmFree(m, lost \/ refused)
    /\ UNCHANGED <<heap, pte, leases, maps, ops>>

\* rm_mem_map: a null address gives its lease back.  rm_mem_unmap.
MemMap(m) ==
    /\ Op /\ st[m] = "live"
    /\ \/ leases' = [leases EXCEPT ![m] = @ + 1] /\ maps' = [maps EXCEPT ![m] = @ + 1] /\ UNCHANGED lost
       \/ \E undone \in BOOLEAN :
             /\ leases' = IF undone THEN leases ELSE [leases EXCEPT ![m] = @ + 1]
             /\ lost' = (lost \/ ~undone) /\ UNCHANGED maps
    /\ UNCHANGED <<st, va, bindings, heap, pte, allocs, deferred>>
MemUnmap(m) ==
    /\ Op /\ maps[m] > 0
    /\ maps' = [maps EXCEPT ![m] = @ - 1]
    /\ \/ leases' = [leases EXCEPT ![m] = @ - 1] /\ UNCHANGED lost
       \/ lost' = TRUE /\ UNCHANGED leases
    /\ UNCHANGED <<st, va, bindings, heap, pte, allocs, deferred>>

-----------------------------------------------------------------------------
ImageVa(x) ==
    /\ va[x] = {} /\ VaAlloc(x, ImagePages)
    /\ UNCHANGED <<st, bindings, pte, allocs, deferred, leases, maps, lost, ops>>

ImageFree(x) ==
    /\ va[x] # {} /\ VaFree(x)
    /\ UNCHANGED <<st, heap, pte, allocs, leases, maps, ops>>

\* rm_va_unbind refuses a range that covers part of a binding; otherwise it
\* unbinds the covered bindings one by one and stops at the first failure.
Splits(x, ps) == \E b \in bindings[x] : b.pages \cap ps # {} /\ ~(b.pages \subseteq ps)
Covered(x, ps) == {b \in bindings[x] : b.pages \subseteq ps}

Unbind(x, ps) ==
    /\ Op /\ ps # {} /\ ps \subseteq va[x] /\ ~Splits(x, ps)
    /\ \E gone \in SUBSET Covered(x, ps) :
          /\ bindings' = [bindings EXCEPT ![x] = @ \ gone]
          /\ SetPte(UNION {b.pages : b \in gone}, None)
    /\ UNCHANGED <<st, va, heap, allocs, deferred, leases, maps, lost>>

BindMutOver(x, ps, m) ==
    /\ Op /\ ps # {} /\ ps \subseteq va[x] /\ st[m] = "live"
    /\ bindings' = [bindings EXCEPT ![x] = @ \cup {[pages |-> ps, mem |-> m]}]
    /\ SetPte(ps, m)
    /\ UNCHANGED <<st, va, heap, allocs, deferred, leases, maps, lost>>

\* rm_va_bind: unbinds what the new range covers, then binds; the allocation
\* of the record and nv_rm_bind may fail with the old bindings gone.
Bind(x, ps, m) ==
    /\ Op /\ ps # {} /\ ps \subseteq va[x] /\ ~Splits(x, ps) /\ st[m] = "live"
    /\ LET rest == bindings[x] \ Covered(x, ps) IN
       \/ bindings' = [bindings EXCEPT ![x] = rest \cup {[pages |-> ps, mem |-> m]}] /\ SetPte(ps, m)
       \/ bindings' = [bindings EXCEPT ![x] = rest]
          /\ SetPte(UNION {b.pages : b \in Covered(x, ps)}, None)
    /\ UNCHANGED <<st, va, heap, allocs, deferred, leases, maps, lost>>

\* The backend unmaps a released range once its work retired, then calls
\* rm_va_release, which returns it to the heap.
VaRelease(r) ==
    /\ deferred' = deferred \ {r}
    /\ SetPte(r, None)
    /\ heap' = heap \cup r
    /\ UNCHANGED <<st, va, bindings, allocs, leases, maps, lost, ops>>

Init ==
    /\ st = [m \in Mems |-> "none"] /\ va = [x \in Owners |-> {}] /\ bindings = [x \in Owners |-> {}]
    /\ heap = Pages /\ pte = [p \in Pages |-> None] /\ allocs = {} /\ deferred = {}
    /\ leases = [m \in Mems |-> 0] /\ maps = [m \in Mems |-> 0] /\ lost = FALSE /\ ops = 0

Next ==
    \/ \E m \in Mems : MemAlloc(m) \/ MemVa(m) \/ MemBind(m) \/ MemFree(m) \/ MemMap(m) \/ MemUnmap(m)
    \/ \E x \in Images : \/ ImageVa(x) \/ ImageFree(x)
                         \/ \E n \in 1..ImagePages : \E ps \in Runs(n, va[x]) :
                               Unbind(x, ps) \/ \E m \in Mems : Bind(x, ps, m)
    \/ \E r \in deferred : VaRelease(r)

Spec == Init /\ [][Next]_vars

-----------------------------------------------------------------------------
\* A free page of the VA heap is mapped to nothing, and no page is handed out
\* twice: live reservations, released ranges still mapped and the heap are
\* disjoint, whichever step of an allocation failed.
RangesDisjoint ==
    /\ \A p \in heap : pte[p] = None
    /\ \A x, y \in Owners : x # y => va[x] \cap va[y] = {}
    /\ \A x \in Owners : va[x] \cap (heap \cup UNION deferred) = {}
    /\ heap \cap UNION deferred = {}

\* The bindings a reservation lists are what RM maps in it, through rebinding
\* and failed rebinding.
BindingsExact ==
    \A x \in Owners :
        /\ \A b, c \in bindings[x] : b # c => b.pages \cap c.pages = {}
        /\ \A p \in va[x] : pte[p] = IF \E b \in bindings[x] : p \in b.pages
                                     THEN (CHOOSE b \in bindings[x] : p \in b.pages).mem ELSE None

\* While the device is not lost, failed allocations leave nothing behind: the
\* backend holds exactly the memories and CPU leases the callers own, and
\* every page is free, reserved or on its way back.
NothingStranded ==
    ~lost => /\ allocs = {m \in Mems : st[m] # "none"}
             /\ leases = maps
             /\ heap \cup UNION {va[x] : x \in Owners} \cup UNION deferred = Pages
=============================================================================
