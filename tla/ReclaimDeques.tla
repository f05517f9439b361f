--------------------------- MODULE ReclaimDeques ---------------------------
(***************************************************************************)
(* The storage of reclaim.rs: groups flattened into three deques, one of   *)
(* (token count, item count) pairs, one of snapshot tokens, one of items.  *)
(* Shown to implement the queue of groups of module Reclaim.               *)
(***************************************************************************)
EXTENDS Naturals, Sequences, SequencesExt

CONSTANTS Objects, MaxQueues, MaxToken, RECLAIM_BUDGET,
          Parts     \* the items of each object: a range has mappings

VARIABLES queue, last, done, object, lost, pc, then, budget, next, need,
          counts,   \* Reclaim.groups
          tokens,   \* Reclaim.tokens
          items,    \* Reclaim.items
          open      \* Reclaim.open

deques == <<counts, tokens, items, open>>
outer == <<queue, last, done, object, lost, pc, then, budget, next, need>>
vars == <<deques, outer>>

-----------------------------------------------------------------------------
(* The refinement mapping: cut the deques into groups.                     *)

Before(c) ==
    LET sum[i \in 1..(Len(counts) + 1)] == IF i = 1 THEN 0 ELSE sum[i - 1] + counts[i - 1][c]
    IN  sum

Groups ==
    [i \in 1..Len(counts) |->
        LET t == Before(1)[i]  n == Before(2)[i]
        IN  [snapshot |-> {tokens[t + k] : k \in 1..counts[i][1]},
             item |-> items[n + counts[i][2]].of]]

Snapshot == {tokens[k] : k \in (Len(tokens) - open + 1)..Len(tokens)}

R == INSTANCE Reclaim WITH groups <- Groups, snapshot <- Snapshot

-----------------------------------------------------------------------------
Init ==
    /\ counts = <<>> /\ tokens = <<>> /\ items = <<>> /\ open = 0
    /\ R!Init

(* Steps that leave the deques alone.                                      *)
Other ==
    /\ UNCHANGED deques
    /\ \/ R!Submit \/ R!Reclaiming \/ R!Close \/ R!Refuse \/ R!CloseEnd
       \/ \E o \in Objects : R!Free(o) \/ R!EvictFails(o)
       \/ \E q \in R!Queues : \/ R!GpuRetire(q) \/ R!ChannelError(q) \/ R!CreateContext(q)
                              \/ R!Accept(q) \/ R!DestroyContext(q)

(* begin: the snapshot goes to the end of the token deque.                 *)
Begin ==
    /\ pc = "begin" /\ next <= MaxQueues
    /\ IF R!Unretired(next)
       THEN tokens' = Append(tokens, <<next, last[next]>>) /\ open' = open + 1
       ELSE UNCHANGED <<tokens, open>>
    /\ next' = next + 1
    /\ UNCHANGED <<counts, items, queue, last, done, object, lost, pc, then, budget, need>>

CommitMutOne(o) ==
    /\ R!Freeing(o) /\ open # 0
    /\ items' = items \o [i \in 1..Len(Parts[o]) |-> [of |-> o, kind |-> Parts[o][i]]]
    /\ counts' = Append(counts, <<open, 1>>) /\ open' = 0
    /\ object' = [object EXCEPT ![o] = "deferred"] /\ pc' = "idle"
    /\ UNCHANGED <<tokens, queue, last, done, lost, then, budget, next, need>>

Commit(o) ==
    /\ R!Freeing(o) /\ open # 0
    /\ items' = items \o [i \in 1..Len(Parts[o]) |-> [of |-> o, kind |-> Parts[o][i]]]
    /\ counts' = Append(counts, <<open, Len(Parts[o])>>) /\ open' = 0
    /\ object' = [object EXCEPT ![o] = "deferred"] /\ pc' = "idle"
    /\ UNCHANGED <<tokens, queue, last, done, lost, then, budget, next, need>>

(* reclaim_item in order: after a failed unmap the range stays reserved.   *)
ReclaimItems(out) ==
    \E failed \in SUBSET {i \in 1..Len(out) : out[i].kind = "mapping"} :
        /\ object' = [o \in Objects |->
               IF \E i \in 1..Len(out) : out[i].of = o /\ out[i].kind # "mapping"
               THEN IF failed = {} THEN "released" ELSE "kept"
               ELSE object[o]]
        /\ lost' = (lost \/ failed # {})

ReclaimNow(o) ==
    /\ R!Freeing(o) /\ open = 0
    /\ ReclaimItems([i \in 1..Len(Parts[o]) |-> [of |-> o, kind |-> Parts[o][i]]])
    /\ pc' = "idle"
    /\ UNCHANGED <<deques, queue, last, done, then, budget, next, need>>

PopRetired(force) ==
    /\ counts # <<>>
    /\ LET t == Head(counts)[1]  n == Head(counts)[2]
       IN  /\ force \/ \A k \in 1..t : R!Retired(tokens[k][1], tokens[k][2])
           /\ tokens' = SubSeq(tokens, t + 1, Len(tokens))
           /\ items' = SubSeq(items, n + 1, Len(items))
           /\ ReclaimItems(SubSeq(items, 1, n))
    /\ counts' = Tail(counts)
    /\ UNCHANGED <<open, queue, last, done, pc, then, next, need>>

ReclaimOne ==
    /\ pc = "reclaim" /\ budget > 0
    /\ budget' = budget - 1
    /\ PopRetired(FALSE)

FrontRetired ==
    counts # <<>> /\ \A k \in 1..Head(counts)[1] : R!Retired(tokens[k][1], tokens[k][2])

ReclaimEnd ==
    /\ pc = "reclaim"
    /\ budget = 0 \/ ~FrontRetired
    /\ pc' = then /\ next' = 1
    /\ UNCHANGED <<deques, queue, last, done, object, lost, then, budget, need>>

CloseReclaim ==
    /\ pc = "closing"
    /\ PopRetired(TRUE)
    /\ UNCHANGED budget

Next ==
    \/ Other \/ Begin \/ ReclaimOne \/ ReclaimEnd \/ CloseReclaim
    \/ \E o \in Objects : Commit(o) \/ ReclaimNow(o)

Spec == Init /\ [][Next]_vars

-----------------------------------------------------------------------------
(* The flattened deques of reclaim.rs behave as the queue of groups that   *)
(* module Reclaim describes: begin, commit and pop_retired keep the three  *)
(* deques and the counts aligned.                                          *)
ImplementsGroups == R!Spec
=============================================================================
