------------------------------- MODULE HalHash -------------------------------
(***************************************************************************)
(* The handle tables of the Vulkan HAL (hal/src/util.c): open addressing   *)
(* with linear probing and tombstones, grown when three quarters of the    *)
(* slots are in use.  Every operation holds the table's lock, so each is   *)
(* one step.  `h` is the table, `ref` the map it stands for.               *)
(***************************************************************************)
EXTENDS Integers, FiniteSets

CONSTANTS Keys,     \* handles, positive
          Vals,     \* what a handle maps to, positive (0 is NULL)
          Cap0,     \* capacity of the first allocation (64 in the code)
          MaxCap    \* bound: no allocation beyond this succeeds

VARIABLES h, ref
vars == <<h, ref>>

Empty == 0
TOMB  == -1
NULL  == 0

\* hash_slot: the mixing is abstracted to the key itself, so that keys that
\* agree modulo the capacity collide.
HashSlot(key, cap) == key % cap

ProbeAt(key, cap, i) == (HashSlot(key, cap) + i) % cap

\* hash_find_locked: the slot that holds the key, or -1; a probe stops at the
\* first empty slot.
Find(t, key) ==
    LET hits  == {i \in 0 .. t.cap - 1 : t.k[ProbeAt(key, t.cap, i)] = key}
        holes == {i \in 0 .. t.cap - 1 : t.k[ProbeAt(key, t.cap, i)] = Empty}
        first == CHOOSE i \in hits : \A j \in hits : i <= j
    IN IF hits = {} \/ \E e \in holes : e < first THEN -1 ELSE ProbeAt(key, t.cap, first)

\* the first slot a new key may take
FreeSlot(t, key, free) ==
    LET open == {i \in 0 .. t.cap - 1 : t.k[ProbeAt(key, t.cap, i)] \in free}
    IN ProbeAt(key, t.cap, CHOOSE i \in open : \A j \in open : i <= j)

Insert(t, key, val, free) ==
    LET at == FreeSlot(t, key, free)
    IN [t EXCEPT !.k[at] = key, !.v[at] = val, !.n = @ + 1,
                 !.used = @ + (IF t.k[at] = Empty THEN 1 ELSE 0)]

Cleared(cap) ==
    [cap |-> cap, k |-> [i \in 0 .. cap - 1 |-> Empty], v |-> [i \in 0 .. cap - 1 |-> NULL],
     n |-> 0, used |-> 0]

\* hash_grow_locked: the capacity that leaves the load at most one half ...
NewCap(t) ==
    LET caps == {c \in {Cap0, 2 * Cap0, 4 * Cap0, 8 * Cap0} :
                    c >= t.cap /\ (t.n + 1) * 2 <= c}
    IN CHOOSE c \in caps : \A d \in caps : c <= d
\* ... and the live entries reinserted in slot order; tombstones are dropped.
Rehash(t, cap) ==
    LET Copy[i \in 0 .. t.cap] ==
            IF i = 0 THEN Cleared(cap)
            ELSE IF t.k[i - 1] \in {Empty, TOMB} THEN Copy[i - 1]
            ELSE Insert(Copy[i - 1], t.k[i - 1], t.v[i - 1], {Empty})
    IN Copy[t.cap]

NeedsGrowth(t) == (t.used + 1) * 4 > t.cap * 3

Overwrite(t, at, val) == [t EXCEPT !.v[at] = val]

Delete(t, at) == [t EXCEPT !.k[at] = TOMB, !.v[at] = NULL, !.n = @ - 1]

-----------------------------------------------------------------------------
\* nvhal_hash_get
Get(t, key) == LET at == Find(t, key) IN IF at = -1 THEN NULL ELSE t.v[at]

\* nvhal_hash_put; `memory` says whether calloc succeeds.
HashPut(key, val, memory) ==
    LET at    == Find(h, key)
        grown == IF NeedsGrowth(h) THEN Rehash(h, NewCap(h)) ELSE h
        fails == NeedsGrowth(h) /\ (~memory \/ NewCap(h) > MaxCap)
    IN IF at # -1
       THEN h' = Overwrite(h, at, val) /\ ref' = [ref EXCEPT ![key] = val]
       ELSE IF fails
       THEN UNCHANGED vars
       ELSE /\ h' = Insert(grown, key, val, {Empty, TOMB})
            /\ ref' = [ref EXCEPT ![key] = val]

\* nvhal_hash_del
HashDel(key) ==
    LET at == Find(h, key)
    IN /\ h' = IF at = -1 THEN h ELSE Delete(h, at)
       /\ ref' = [ref EXCEPT ![key] = NULL]

\* nvhal_hash_sweep: every entry whose value the predicate picks, deleted.
HashSweep(picked) ==
    LET swept == {i \in 0 .. h.cap - 1 : h.k[i] \notin {Empty, TOMB} /\ h.v[i] \in picked}
    IN /\ h' = [h EXCEPT !.k = [i \in DOMAIN @ |-> IF i \in swept THEN TOMB ELSE @[i]],
                         !.v = [i \in DOMAIN @ |-> IF i \in swept THEN NULL ELSE @[i]],
                         !.n = @ - Cardinality(swept)]
       /\ ref' = [x \in Keys |-> IF ref[x] \in picked THEN NULL ELSE ref[x]]

Init == h = Cleared(0) /\ ref = [x \in Keys |-> NULL]
Next ==
    \/ \E key \in Keys, val \in Vals, memory \in BOOLEAN : HashPut(key, val, memory)
    \/ \E key \in Keys : HashDel(key)
    \/ \E v \in Vals : HashSweep({v})
Spec == Init /\ [][Next]_vars

-----------------------------------------------------------------------------
\* Whatever was put, deleted, swept and regrown, a lookup (nvhal_hash_get)
\* finds exactly what the last operation on its key left; in particular a
\* tombstone never hides a key further down its probe sequence, and a key is
\* never stored twice.
HashIsMap == \A key \in Keys : Get(h, key) = ref[key]

\* The counts that decide when to grow are right, so an empty slot is left
\* whenever the table has slots: the loop of nvhal_hash_put that looks for
\* one, which is not bounded by the capacity, always ends.
ProbesEnd ==
    /\ h.n = Cardinality({i \in DOMAIN h.k : h.k[i] \notin {Empty, TOMB}})
    /\ h.used = Cardinality({i \in DOMAIN h.k : h.k[i] # Empty})
    /\ h.cap > 0 => \E i \in DOMAIN h.k : h.k[i] = Empty
=============================================================================
