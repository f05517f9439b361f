------------------------------- MODULE HalCmds -------------------------------
(***************************************************************************)
(* The command-buffer table of the Vulkan HAL (hal/src/imgxlate.c): handle *)
(* to a heap block with the HAL's state, a per-thread cache of the last    *)
(* lookup that a global generation invalidates, and the calls that insert  *)
(* and delete entries.  An application uses a command buffer and its pool  *)
(* from one thread at a time; different pools are used at the same time.   *)
(* `blk` keeps a freed block's contents: malloc does not clear it.         *)
(***************************************************************************)
EXTENDS Integers, FiniteSets

CONSTANTS Threads,  \* application threads
          Cmds,     \* command buffer handles of the driver, reused after a free
          Pools,    \* command pool handles of the driver, reused after a destroy
          Blocks,   \* heap blocks, positive (0 is NULL)
          MaxGen    \* bound on cmd_gen

NoPool == "none"

VARIABLES owner,   \* the thread that uses a live pool
          cmdPool, \* driver: the pool of a live command buffer
          tbl,     \* cmds
          blk,     \* block -> [live, pool], the contents kept after free
          gen,     \* cmd_gen
          cache,   \* per-thread cmd_cache
          pc,      \* the call a thread is in
          torn     \* a sweep took an entry that was not initialised yet
vars == <<owner, cmdPool, tbl, blk, gen, cache, pc, torn>>

Idle == [at |-> "idle", cb |-> 0, e |-> 0, pool |-> NoPool, g |-> 0, todo |-> {}, all |-> {}]
NoOwner == "nobody"
Mine(t, c) == cmdPool[c] # NoPool /\ owner[cmdPool[c]] = t
Goto(t, r) == pc' = [pc EXCEPT ![t] = r]
Step(t, at) == Goto(t, [pc[t] EXCEPT !.at = at])
Bumped == gen < MaxGen /\ gen' = gen + 1

-----------------------------------------------------------------------------
\* cs_CreateCommandPool
CreateCommandPool(t, p) ==
    /\ pc[t].at = "idle" /\ owner[p] = NoOwner
    /\ owner' = [owner EXCEPT ![p] = t]
    /\ UNCHANGED <<cmdPool, tbl, blk, gen, cache, pc, torn>>

\* nvhal_AllocateCommandBuffers, nvhal_cmd_track: the driver's handle, then
\* an entry that a recycled handle still has, or a new block in the table ...
AllocateCommandBuffer(t, p, c, b, memory) ==
    /\ pc[t].at = "idle" /\ owner[p] = t /\ cmdPool[c] = NoPool
    /\ cmdPool' = [cmdPool EXCEPT ![c] = p]
    /\ IF tbl[c] # 0
       THEN /\ blk' = [blk EXCEPT ![tbl[c]].pool = p]
            /\ Goto(t, [Idle EXCEPT !.at = "bump", !.cb = c, !.pool = p])
            /\ UNCHANGED tbl
       ELSE IF ~memory
       THEN UNCHANGED <<tbl, blk, pc>>
       ELSE /\ ~blk[b].live
            /\ tbl' = [tbl EXCEPT ![c] = b]
            /\ blk' = [blk EXCEPT ![b].live = TRUE]
            /\ Goto(t, [Idle EXCEPT !.at = "fill", !.cb = c, !.e = b, !.pool = p])
    /\ UNCHANGED <<owner, gen, cache, torn>>

\* ... whose contents are written after it is in the table ...
TrackFill(t) ==
    /\ pc[t].at = "fill"
    /\ blk' = [blk EXCEPT ![pc[t].e].pool = pc[t].pool]
    /\ Step(t, "bump")
    /\ UNCHANGED <<owner, cmdPool, tbl, gen, cache, torn>>

\* ... and the bump that ends every insertion.
TrackBump(t) ==
    /\ pc[t].at = "bump" /\ Bumped
    /\ Goto(t, Idle)
    /\ UNCHANGED <<owner, cmdPool, tbl, blk, cache, torn>>

\* nvhal_cmd_get: the generation, and a hit ends here ...
CmdGet(t, c) ==
    /\ pc[t].at = "idle" /\ Mine(t, c)
    /\ ~(cache[t].cb = c /\ cache[t].gen = gen)
    /\ Goto(t, [Idle EXCEPT !.at = "get", !.cb = c, !.g = gen, !.pool = cmdPool[c]])
    /\ UNCHANGED <<owner, cmdPool, tbl, blk, gen, cache, torn>>

\* ... or the table is asked, and the answer kept under the generation read.
CmdGetTable(t) ==
    /\ pc[t].at = "get"
    /\ cache' = [cache EXCEPT ![t] = [cb |-> pc[t].cb, e |-> tbl[pc[t].cb], gen |-> pc[t].g]]
    /\ Goto(t, Idle)
    /\ UNCHANGED <<owner, cmdPool, tbl, blk, gen, torn>>

\* xl_FreeCommandBuffers: the bump, each entry deleted and freed, the
\* driver's call.
FreeCommandBuffers(t, p, cs) ==
    /\ pc[t].at = "idle" /\ owner[p] = t
    /\ cs # {} /\ \A c \in cs : cmdPool[c] = p
    /\ Bumped
    /\ Goto(t, [Idle EXCEPT !.at = "del", !.pool = p, !.todo = cs, !.all = cs])
    /\ UNCHANGED <<owner, cmdPool, tbl, blk, cache, torn>>
FreeEntry(t, c) ==
    /\ pc[t].at = "del" /\ c \in pc[t].todo
    /\ tbl' = [tbl EXCEPT ![c] = 0]
    /\ blk' = [b \in Blocks |-> [blk[b] EXCEPT !.live = @ /\ b # tbl[c]]]
    /\ cmdPool' = IF pc[t].todo # {c} THEN cmdPool
                  ELSE [d \in Cmds |-> IF d \in pc[t].all THEN NoPool ELSE cmdPool[d]]
    /\ Goto(t, IF pc[t].todo = {c} THEN Idle ELSE [pc[t] EXCEPT !.todo = @ \ {c}])
    /\ UNCHANGED <<owner, gen, cache, torn>>

\* xl_DestroyCommandPool: the bump ...
DestroyCommandPool(t, p) ==
    /\ pc[t].at = "idle" /\ owner[p] = t /\ Bumped
    /\ Goto(t, [Idle EXCEPT !.at = "sweep", !.pool = p])
    /\ UNCHANGED <<owner, cmdPool, tbl, blk, cache, torn>>

\* the entries cmd_of_pool picks: it reads the block, filled or not
Swept(p) == {c \in Cmds : tbl[c] # 0 /\ blk[tbl[c]].pool = p}

\* ... the sweep under the table's lock ...
PoolSweep(t) ==
    LET gone == Swept(pc[t].pool)
    IN /\ pc[t].at = "sweep"
       /\ tbl' = [c \in Cmds |-> IF c \in gone THEN 0 ELSE tbl[c]]
       /\ blk' = [b \in Blocks |-> [blk[b] EXCEPT !.live = @ /\ \A c \in gone : tbl[c] # b]]
       /\ torn' = (torn \/ \E u \in Threads : pc[u].at = "fill" /\ pc[u].cb \in gone)
       /\ Step(t, "destroy")
       /\ UNCHANGED <<owner, cmdPool, gen, cache>>

\* ... nvhal_pool_forget and the driver's destroy, which ends the pool's
\* command buffers.
PoolDestroyed(t) ==
    LET p == pc[t].pool
    IN /\ pc[t].at = "destroy"
       /\ owner' = [owner EXCEPT ![p] = NoOwner]
       /\ cmdPool' = [c \in Cmds |-> IF cmdPool[c] = p THEN NoPool ELSE cmdPool[c]]
       /\ Goto(t, Idle)
       /\ UNCHANGED <<tbl, blk, gen, cache, torn>>

Init ==
    /\ owner = [p \in Pools |-> NoOwner]
    /\ cmdPool = [c \in Cmds |-> NoPool]
    /\ tbl = [c \in Cmds |-> 0]
    /\ blk = [b \in Blocks |-> [live |-> FALSE, pool |-> NoPool]]
    /\ gen = 1
    /\ cache = [t \in Threads |-> [cb |-> 0, e |-> 0, gen |-> 0]]
    /\ pc = [t \in Threads |-> Idle]
    /\ torn = FALSE

Next == \E t \in Threads :
    \/ \E p \in Pools : CreateCommandPool(t, p) \/ DestroyCommandPool(t, p)
    \/ \E p \in Pools, c \in Cmds, b \in Blocks, memory \in BOOLEAN :
          AllocateCommandBuffer(t, p, c, b, memory)
    \/ TrackFill(t) \/ TrackBump(t)
    \/ \E c \in Cmds : CmdGet(t, c) \/ FreeEntry(t, c)
    \/ CmdGetTable(t)
    \/ \E p \in Pools, cs \in SUBSET Cmds : FreeCommandBuffers(t, p, cs)
    \/ PoolSweep(t) \/ PoolDestroyed(t)
Spec == Init /\ [][Next]_vars

-----------------------------------------------------------------------------
\* the thread is in no call and uses the command buffer
Ready(t, c) == pc[t].at = "idle" /\ Mine(t, c)

\* A command buffer's entry, as nvhal_cmd_get hands it out, is the live block
\* of that command buffer and of no other, filled with its own pool: from the
\* table, and from the thread's cache while its generation is the current
\* one.  The exception is an entry swept before it was filled.
LookupExact ==
    torn \/ \A t \in Threads, c \in Cmds : Ready(t, c) =>
        /\ tbl[c] # 0 => /\ blk[tbl[c]] = [live |-> TRUE, pool |-> cmdPool[c]]
                         /\ \A d \in Cmds \ {c} : tbl[d] # tbl[c]
        /\ (cache[t].cb = c /\ cache[t].gen = gen) => cache[t].e = tbl[c]

\* The comment on nvhal_cmd_track's table: every insertion ends with its own
\* entry in place, whatever other threads free or destroy meanwhile.
InsertedStays == ~torn
=============================================================================
