------------------------------ MODULE NvrmBatch ------------------------------
(***************************************************************************)
(* Batches of the nvrm gallium driver: command chunks, batch slots with    *)
(* their texture pools, kept resources and the staging-buffer cache, the   *)
(* flush-sequence ring and fences (nvrm_context.c, nvrm_resource.c,        *)
(* nvrm_screen.c).                                                         *)
(*                                                                         *)
(* Contexts record on their own and submit to one in-order channel.  A     *)
(* submission gets the next token; the GPU retires tokens in order while   *)
(* the contexts go on recording.  Memory the GPU may still read is reused  *)
(* by the CPU only on the strength of a token comparison, so every token   *)
(* must be the right one.  A command is a number; a chunk holds ChunkCmds  *)
(* commands.                                                               *)
(***************************************************************************)
EXTENDS Integers, Sequences, FiniteSets

CONSTANTS Contexts,
          ChunkCmds,   \* commands a chunk holds (NVRM_PUSH_SIZE_B)
          BatchMax,    \* NVRM_PUSH_BATCH_MAX_CHUNKS; the budget is twice as many
          Ring,        \* NVRM_BATCH_RING
          SeqRing,     \* NVRM_SEQ_RING
          Staging,     \* staging buffer memory (nvrm_bo of one size and domain)
          MaxCmds,     \* bound: commands recorded
          MaxFlush     \* bound: flushes, submitting or not

Budget == 2 * BatchMax
Chunks == 1..Budget

VARIABLES chunk, pos,    \* push_chunk and push_cur of each context
          batchChunks,   \* push_batch_chunks
          freeChunks,    \* push_free_chunks
          chunkTok,      \* nvrm_push_chunk.token
          owned,         \* push_chunk_count
          mem,           \* contents of the chunks: mem[c][k][i]
          open,          \* ghost: the commands of the open batch, where they lie
          slot, slotTok, \* ring_cur, ring[].token
          poolOf,        \* contents of each batch slot's texture pool
          kept,          \* ctx->keep
          lastTok,       \* ctx->last_token
          seq, seqTok,   \* flush_seq, seq_token
          seqTrue,       \* ghost: the token that covers each flush sequence
          fences,        \* fences handed out, with what was recorded before
          uploading,     \* a staged upload between its keep and its push
          resTok,        \* nvrm_resource.last_token of each staging buffer
          holder,        \* the transfer that holds a staging buffer
          gen,           \* contents of a staging buffer (one per use)
          cache,         \* screen->bo_cache
          early,         \* staging uses recorded after a flush dropped their keep
          flight,        \* submitted batches the GPU has not retired
          last, done,    \* screen->last_token, the newest retired token
          cmds, flushes, abort

recVars == <<chunk, pos, batchChunks, freeChunks, chunkTok, owned, mem>>
seqVars == <<lastTok, seq, seqTok, seqTrue>>
resVars == <<uploading, resTok, holder, gen, cache, early>>
vars == <<recVars, open, slot, slotTok, poolOf, kept, seqVars, fences, resVars,
          flight, last, done, cmds, flushes, abort>>

TokenDone(t) == t <= done
HasPending(c) == open[c] # {}
ReturnedMut(c) == TRUE

\* The wait that ends nvrm_flush: the batch slot's previous batch retired.
Returned(c) == TokenDone(slotTok[c][slot[c]])

-----------------------------------------------------------------------------
(* Recording.                                                              *)
\* nvrm_push_reserve flushes a batch that filled its share of the chunks.
BatchFull(c) == Len(batchChunks[c]) >= BatchMax
NoRoom(c) == pos[c] = ChunkCmds

AtBudget(c) == owned[c] + 1 > Budget
Oldest(c) == Head(freeChunks[c])
TakesNew(c) == freeChunks[c] = <<>> \/ (~AtBudget(c) /\ ~TokenDone(chunkTok[c][Oldest(c)]))

\* nvrm_push_next_chunk and nvrm_push_get_chunk; at the budget it waits for
\* the oldest chunk's batch.
NextChunk(c) ==
    /\ batchChunks' = [batchChunks EXCEPT ![c] = Append(@, chunk[c])]
    /\ IF TakesNew(c)
       THEN /\ abort' = (abort \/ AtBudget(c))
            /\ owned' = [owned EXCEPT ![c] = @ + 1]
            /\ chunk' = [chunk EXCEPT ![c] = IF AtBudget(c) THEN @ ELSE owned[c] + 1]
            /\ UNCHANGED <<freeChunks, chunkTok>>
       ELSE /\ TokenDone(chunkTok[c][Oldest(c)])
            /\ chunk' = [chunk EXCEPT ![c] = Oldest(c)]
            /\ freeChunks' = [freeChunks EXCEPT ![c] = Tail(@)]
            /\ chunkTok' = [chunkTok EXCEPT ![c][Oldest(c)] = 0]
            /\ UNCHANGED <<owned, abort>>

\* nvrm_push_begin .. nvrm_push_end of one command that reads the staging
\* uses u; the batch's texture pool gets an entry for it.
Push(c, u) ==
    /\ ~BatchFull(c) /\ cmds < MaxCmds
    /\ cmds' = cmds + 1
    /\ IF NoRoom(c) THEN NextChunk(c)
       ELSE UNCHANGED <<chunk, batchChunks, freeChunks, chunkTok, owned, abort>>
    /\ LET at == IF NoRoom(c) THEN 0 ELSE pos[c] IN
       /\ mem' = [mem EXCEPT ![c][chunk'[c]][at] = cmds]
       /\ open' = [open EXCEPT ![c] = @ \cup {[id |-> cmds, at |-> <<chunk'[c], at>>, uses |-> u]}]
       /\ pos' = [pos EXCEPT ![c] = at + 1]
    /\ poolOf' = [poolOf EXCEPT ![c][slot[c]] = seq[c]]

Record(c) ==
    /\ Returned(c) /\ uploading[c] = {}
    /\ Push(c, {})
    /\ UNCHANGED <<slot, slotTok, kept, seqVars, fences, resVars, flight, last, done, flushes>>

\* nvrm_resource_map of a staging buffer (nvrm_bo_cache_get, or memory never
\* used before), its CPU write, and nvrm_resource_unmap up to the keep.
UploadBegin(c, b) ==
    /\ Returned(c) /\ uploading[c] = {} /\ holder[b] = {} /\ cmds < MaxCmds
    /\ \/ \E e \in cache : e.bo = b /\ TokenDone(e.token) /\ cache' = cache \ {e}
       \/ gen[b] = 0 /\ UNCHANGED cache
    /\ gen' = [gen EXCEPT ![b] = @ + 1]
    /\ resTok' = [resTok EXCEPT ![b] = 0]
    /\ holder' = [holder EXCEPT ![b] = {c}]
    /\ kept' = [kept EXCEPT ![c] = @ \cup {b}]
    /\ uploading' = [uploading EXCEPT ![c] = {b}]
    /\ UNCHANGED <<recVars, open, slot, slotTok, poolOf, seqVars, fences, early, flight,
                   last, done, cmds, flushes, abort>>

\* pipe_resource_reference to NULL: the last one recycles the memory with the
\* token of its last marked use (nvrm_bo_cache_put).
Drop(b, keeps) == IF \E c \in Contexts : b \in keeps[c] THEN {}
                  ELSE {[bo |-> b, token |-> resTok[b]]}

\* The rest of the unmap: the copy is pushed, the transfer drops its reference.
UploadPush(c) ==
    /\ Returned(c)
    /\ \E b \in uploading[c] :
         /\ Push(c, {<<b, gen[b]>>})
         /\ early' = IF b \in kept[c] THEN early ELSE early \cup {b}
         /\ holder' = [holder EXCEPT ![b] = {}]
         /\ cache' = cache \cup Drop(b, kept)
    /\ uploading' = [uploading EXCEPT ![c] = {}]
    /\ UNCHANGED <<slot, slotTok, kept, seqVars, fences, resTok, gen, flight, last, done, flushes>>

-----------------------------------------------------------------------------
(* nvrm_flush.                                                             *)
\* Releasing the kept resources: those nobody holds are recycled.
ReleaseKept(c, tok) ==
    /\ kept' = [kept EXCEPT ![c] = {}]
    /\ resTok' = [b \in Staging |-> IF b \in kept[c] /\ resTok[b] < tok THEN tok ELSE resTok[b]]
    /\ cache' = cache \cup {[bo |-> b, token |-> resTok'[b]] :
                    b \in {x \in kept[c] : holder[x] = {} /\
                                           \A d \in Contexts \ {c} : x \notin kept[d]}}

SeqRecord(c, tok) ==
    /\ lastTok' = [lastTok EXCEPT ![c] = tok]
    /\ seqTok' = [seqTok EXCEPT ![c][seq[c] % SeqRing] = [seq |-> seq[c], token |-> tok]]
    /\ seqTrue' = [seqTrue EXCEPT ![c] = Append(@, tok)]
    /\ seq' = [seq EXCEPT ![c] = @ + 1]

Submit(c) ==
    LET tok == last + 1 IN
    /\ flight' = Append(flight, [token |-> tok, ctx |-> c, cmds |-> open[c],
                                 slot |-> slot[c], seq |-> seq[c]])
    /\ last' = tok
    /\ open' = [open EXCEPT ![c] = {}]
    /\ freeChunks' = [freeChunks EXCEPT ![c] = @ \o batchChunks[c]]
    /\ chunkTok' = [chunkTok EXCEPT ![c] = [k \in Chunks |->
            IF k = chunk[c] \/ \E i \in DOMAIN batchChunks[c] : batchChunks[c][i] = k
            THEN tok ELSE @[k]]]
    /\ batchChunks' = [batchChunks EXCEPT ![c] = <<>>]
    /\ slotTok' = [slotTok EXCEPT ![c][slot[c]] = tok]
    /\ slot' = [slot EXCEPT ![c] = (@ + 1) % Ring]
    /\ ReleaseKept(c, tok)
    /\ SeqRecord(c, tok)

\* A flush with nothing recorded and no fence asked for submits nothing.
NoSubmit(c) ==
    /\ ReleaseKept(c, 0)
    /\ SeqRecord(c, lastTok[c])
    /\ UNCHANGED <<flight, last, open, freeChunks, chunkTok, batchChunks, slotTok, slot>>

Flush(c, fence) ==
    /\ Returned(c) /\ flushes < MaxFlush
    \* In the middle of an upload only a full batch flushes (push_reserve).
    /\ uploading[c] # {} => BatchFull(c) /\ ~fence
    /\ flushes' = flushes + 1
    /\ IF HasPending(c) \/ fence THEN Submit(c) ELSE NoSubmit(c)
    /\ fences' = IF fence THEN fences \cup {[token |-> last', ctx |-> c, upto |-> cmds]}
                 ELSE fences
    /\ UNCHANGED <<chunk, pos, owned, mem, poolOf, uploading, holder, gen, early, done, cmds, abort>>

\* The GPU retires the oldest batch.
Retire ==
    /\ flight # <<>>
    /\ done' = Head(flight).token
    /\ flight' = Tail(flight)
    /\ UNCHANGED <<recVars, open, slot, slotTok, poolOf, kept, seqVars, fences, resVars,
                   last, cmds, flushes, abort>>

Init ==
    /\ chunk = [c \in Contexts |-> 1] /\ pos = [c \in Contexts |-> 0]
    /\ batchChunks = [c \in Contexts |-> <<>>] /\ freeChunks = [c \in Contexts |-> <<>>]
    /\ chunkTok = [c \in Contexts |-> [k \in Chunks |-> 0]]
    /\ owned = [c \in Contexts |-> 1]
    /\ mem = [c \in Contexts |-> [k \in Chunks |-> [i \in 0..(ChunkCmds - 1) |-> -1]]]
    /\ open = [c \in Contexts |-> {}]
    /\ slot = [c \in Contexts |-> 0]
    /\ slotTok = [c \in Contexts |-> [i \in 0..(Ring - 1) |-> 0]]
    /\ poolOf = [c \in Contexts |-> [i \in 0..(Ring - 1) |-> -1]]
    /\ kept = [c \in Contexts |-> {}]
    /\ lastTok = [c \in Contexts |-> 0] /\ seq = [c \in Contexts |-> 0]
    /\ seqTok = [c \in Contexts |-> [i \in 0..(SeqRing - 1) |-> [seq |-> -1, token |-> 0]]]
    /\ seqTrue = [c \in Contexts |-> <<>>]
    /\ fences = {} /\ uploading = [c \in Contexts |-> {}]
    /\ resTok = [b \in Staging |-> 0] /\ holder = [b \in Staging |-> {}]
    /\ gen = [b \in Staging |-> 0] /\ cache = {} /\ early = {}
    /\ flight = <<>> /\ last = 0 /\ done = 0 /\ cmds = 0 /\ flushes = 0 /\ abort = FALSE

Next ==
    \/ \E c \in Contexts : \/ Record(c) \/ UploadPush(c)
                           \/ \E b \in Staging : UploadBegin(c, b)
                           \/ \E fence \in BOOLEAN : Flush(c, fence)
    \/ Retire

Spec == Init /\ [][Next]_vars

-----------------------------------------------------------------------------
(* nvrm_seq_token: what a query or stream-output counter waits for.        *)
SeqToken(c, s) ==
    LET q == IF s + SeqRing < seq[c] THEN seq[c] - SeqRing ELSE s
    IN seqTok[c][q % SeqRing].token

InFlight == {flight[i] : i \in DOMAIN flight}
Unretired(c) == open[c] \cup UNION {x.cmds : x \in {y \in InFlight : y.ctx = c}}

\* The CPU never writes over commands or texture-pool entries the GPU has yet
\* to read: chunks and batch slots are recycled only behind the tokens of all
\* the batches that used them, and the chunk budget is never exhausted by
\* unsubmitted commands (the abort nvrm_push_get_chunk calls unreachable).
RecordedIntact ==
    /\ \A c \in Contexts : \A x \in Unretired(c) : mem[c][x.at[1]][x.at[2]] = x.id
    /\ \A x \in InFlight : x.cmds # {} => poolOf[x.ctx][x.slot] = x.seq
    /\ ~abort

\* Staging memory is handed out again only when no recorded or submitted copy
\* still reads its previous contents - except for buffers whose keep was
\* dropped by a flush between nvrm_keep and the push of their copy.
StagingIntact ==
    \A c \in Contexts : \A x \in Unretired(c) : \A u \in x.uses :
        u[1] \notin early => gen[u[1]] = u[2]

\* The same without the exception ("The batch keeps both resources alive
\* until it is submitted", nvrm_copy_image_upload).
StagingAlwaysIntact ==
    \A c \in Contexts : \A x \in Unretired(c) : \A u \in x.uses : gen[u[1]] = u[2]

\* Waiting for a flush sequence number waits for that batch or a newer one,
\* never for one the context has not submitted; a fence's token covers every
\* command recorded before it.
WaitsCover ==
    /\ \A c \in Contexts : \A s \in 0..(seq[c] - 1) :
           SeqToken(c, s) >= seqTrue[c][s + 1] /\ SeqToken(c, s) <= lastTok[c]
    /\ \A f \in fences :
           /\ f.token > 0
           /\ TokenDone(f.token) => \A x \in Unretired(f.ctx) : x.id >= f.upto
=============================================================================
