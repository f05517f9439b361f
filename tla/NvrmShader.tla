------------------------------ MODULE NvrmShader ------------------------------
(***************************************************************************)
(* Shader objects of the nvrm gallium driver: the compile queue            *)
(* (nvrm_draw.c), the program cache with its reference counts              *)
(* (nvrm_shader_cache.c), the code heap all contexts share                 *)
(* (nvrm_screen.c), the instruction-cache generation, and the recycling of *)
(* deleted ranges (nvrm_context.c).                                        *)
(*                                                                         *)
(* Every shader needs one range of the heap; a range is a memory of the    *)
(* arena.  The GPU executes submitted batches in order, through an         *)
(* instruction cache that keeps what it fetched until it is invalidated.   *)
(***************************************************************************)
EXTENDS Integers, Sequences, SequencesExt, FiniteSets, FiniteSetsExt

CONSTANTS Contexts, Shaders,
          KeyOf,      \* [Shaders -> key]: equal keys are the same program
          Ranges,     \* bound: 1..n, the arena's memories
          BarFull,    \* screen->bar_full
          MaxDraws    \* bound: draws recorded

Free == "free"
Keys == {KeyOf[s] : s \in Shaders}

VARIABLES job,     \* shader -> "none", "queued", "miss", "built", "have", "copy", "ready", "failed", "gone"
          bin,     \* shader -> the shader whose compile made its binary, or Free
          refs,    \* binary (named by the shader that compiled it) -> refcnt
          table,   \* key -> binary or Free
          range,   \* shader -> its heap range, 0 if none
          committed, heap,    \* memories grown; the free ranges
          code,    \* range -> shader whose code is in memory, or Free
          gen, seen,          \* screen->shader_gen, ctx->shader_gen_seen
          batch, queue, done, \* recorded, submitted (a sequence of batches), completed count
          frees, pending,     \* ctx->shader_frees, screen->shader_pending
          icache,  \* range -> cached code or Free
          wrong,   \* draws that executed other code than their shader's
          orphan,  \* shaders deleted while another context had them recorded
          ndraws

vars == <<job, bin, refs, table, range, committed, heap, code, gen, seen, batch,
          queue, done, frees, pending, icache, wrong, orphan, ndraws>>

cacheVars == <<bin, refs, table>>
heapVars == <<range, committed, heap, code, gen>>
gpuVars == <<queue, done, icache, wrong>>
ctxVars == <<seen, batch, frees, pending, orphan, ndraws>>

SetJob(s, st) == job' = [job EXCEPT ![s] = st]

-----------------------------------------------------------------------------
\* nvrm_compile_shader: the object exists at once, its job is queued.
CompileShader(s) ==
    /\ job[s] = "none"
    /\ SetJob(s, "queued")
    /\ UNCHANGED <<cacheVars, heapVars, gpuVars, ctxVars>>

\* nvrm_shader_cache_find: the table's binary, with a reference.
CacheFind(s) ==
    /\ job[s] = "queued"
    /\ IF table[KeyOf[s]] # Free
       THEN /\ SetJob(s, "have")
            /\ bin' = [bin EXCEPT ![s] = table[KeyOf[s]]]
            /\ refs' = [refs EXCEPT ![table[KeyOf[s]]] = @ + 1]
       ELSE SetJob(s, "miss") /\ UNCHANGED <<bin, refs>>
    /\ UNCHANGED <<table, heapVars, gpuVars, ctxVars>>

\* nvrm_nak_compile, or a binary read from the disk cache: one reference, the
\* job's.  Either can fail; a failed disk read is a compile.
Build(s) ==
    /\ job[s] = "miss"
    /\ \/ SetJob(s, "failed") /\ UNCHANGED <<bin, refs>>
       \/ /\ SetJob(s, "built")
          /\ bin' = [bin EXCEPT ![s] = s] /\ refs' = [refs EXCEPT ![s] = 1]
    /\ UNCHANGED <<table, heapVars, gpuVars, ctxVars>>

\* nvrm_shader_cache_insert_locked: the first insert of a key wins.
CacheInsert(s) ==
    LET k == KeyOf[s] IN
    /\ job[s] = "built"
    /\ SetJob(s, "have")
    /\ IF table[k] # Free
       THEN /\ bin' = [bin EXCEPT ![s] = table[k]]
            /\ refs' = [refs EXCEPT ![table[k]] = @ + 1, ![s] = @ - 1]
            /\ UNCHANGED table
       ELSE /\ table' = [table EXCEPT ![k] = s]
            /\ refs' = [refs EXCEPT ![s] = @ + 1]
            /\ UNCHANGED bin
    /\ UNCHANGED <<heapVars, gpuVars, ctxVars>>

\* nvrm_shader_upload under shader_mutex: grow until the allocation fits
\* (nvrm_shader_heap_grow; an exhausted arena aborts).  With a full BAR the
\* code is written and the generation bumped in the same critical section.
UploadAlloc(s) ==
    /\ job[s] = "have"
    /\ heap # {} \/ committed < Cardinality(Ranges)
    /\ LET grown == IF heap # {} THEN heap ELSE {committed + 1}
           r == Min(grown)
       IN /\ committed' = IF heap # {} THEN committed ELSE committed + 1
          /\ heap' = grown \ {r}
          /\ range' = [range EXCEPT ![s] = r]
          /\ IF BarFull
             THEN code' = [code EXCEPT ![r] = s] /\ gen' = gen + 1 /\ SetJob(s, "ready")
             ELSE SetJob(s, "copy") /\ UNCHANGED <<code, gen>>
    /\ UNCHANGED <<cacheVars, gpuVars, ctxVars>>


\* Small BAR: a copy-engine upload outside the mutex, waited for (so it runs
\* behind everything submitted), then the generation under the mutex.
UploadCopy(s) ==
    /\ job[s] = "copy" /\ done = Len(queue)
    /\ code' = [code EXCEPT ![range[s]] = s]
    /\ gen' = gen + 1
    /\ SetJob(s, "ready")
    /\ UNCHANGED <<range, committed, heap, cacheVars, gpuVars, ctxVars>>

-----------------------------------------------------------------------------
\* nvrm_draw_vbo with shader s: nvrm_shader_wait, then nvrm_emit_invalidates.
Draw(c, s) ==
    /\ job[s] = "ready" /\ ndraws < MaxDraws
    /\ ndraws' = ndraws + 1
    /\ seen' = [seen EXCEPT ![c] = gen]
    /\ batch' = [batch EXCEPT ![c] = Append(@, [inval |-> seen[c] # gen, shader |-> s, range |-> range[s]])]
    /\ UNCHANGED <<job, cacheVars, heapVars, gpuVars, frees, pending, orphan>>

\* nvrm_free_shader: a queued job is dropped, a running one waited for.
FreeShader(c, s) ==
    /\ job[s] \in {"queued", "ready", "failed"}
    /\ SetJob(s, "gone")
    /\ frees' = IF range[s] # 0 THEN [frees EXCEPT ![c] = @ \cup {range[s]}] ELSE frees
    /\ IF bin[s] # Free
       THEN refs' = [refs EXCEPT ![bin[s]] = @ - 1] /\ bin' = [bin EXCEPT ![s] = Free]
       ELSE UNCHANGED <<refs, bin>>
    /\ orphan' = IF \E d \in Contexts \ {c} : \E i \in DOMAIN batch[d] : batch[d][i].shader = s
                 THEN orphan \cup {s} ELSE orphan
    /\ range' = [range EXCEPT ![s] = 0]
    /\ UNCHANGED <<table, committed, heap, code, gen, gpuVars, seen, batch, pending, ndraws>>

\* nvrm_flush: submit, tag the deleted ranges with the channel's last token,
\* and return the ranges whose token completed to the heap.
Flush(c) ==
    /\ batch[c] # <<>> \/ frees[c] # {} \/ \E p \in pending : p[2] <= done
    /\ LET q == IF batch[c] = <<>> THEN queue ELSE Append(queue, batch[c])
           all == pending \cup {<<r, Len(q)>> : r \in frees[c]}
           idle == {p \in all : p[2] <= done}
       IN /\ queue' = q
          /\ pending' = all \ idle
          /\ heap' = heap \cup {p[1] : p \in idle}
    /\ batch' = [batch EXCEPT ![c] = <<>>] /\ frees' = [frees EXCEPT ![c] = {}]
    /\ UNCHANGED <<job, cacheVars, range, committed, code, gen, done, icache, wrong, seen, orphan, ndraws>>

\* The GPU runs the next batch (external).
RunDraw(st, d) ==
    LET ic == IF d.inval THEN [r \in Ranges |-> Free] ELSE st.icache
        got == IF ic[d.range] # Free THEN ic[d.range] ELSE code[d.range]
    IN [icache |-> [ic EXCEPT ![d.range] = got],
        wrong |-> IF got # d.shader THEN st.wrong \cup {d.shader} ELSE st.wrong]
Execute ==
    /\ done < Len(queue)
    /\ LET st == FoldLeft(RunDraw, [icache |-> icache, wrong |-> wrong], queue[done + 1])
       IN icache' = st.icache /\ wrong' = st.wrong
    /\ done' = done + 1
    /\ UNCHANGED <<job, cacheVars, heapVars, queue, ctxVars>>

Init ==
    /\ job = [s \in Shaders |-> "none"] /\ bin = [s \in Shaders |-> Free]
    /\ refs = [s \in Shaders |-> 0] /\ table = [k \in Keys |-> Free]
    /\ range = [s \in Shaders |-> 0] /\ committed = 0 /\ heap = {}
    /\ code = [r \in Ranges |-> Free] /\ gen = 0 /\ seen = [c \in Contexts |-> 0]
    /\ batch = [c \in Contexts |-> <<>>] /\ queue = <<>> /\ done = 0
    /\ frees = [c \in Contexts |-> {}] /\ pending = {} /\ icache = [r \in Ranges |-> Free]
    /\ wrong = {} /\ orphan = {} /\ ndraws = 0

Next ==
    \/ \E s \in Shaders : CompileShader(s) \/ CacheFind(s) \/ Build(s) \/ CacheInsert(s)
                          \/ UploadAlloc(s) \/ UploadCopy(s)
    \/ \E c \in Contexts, s \in Shaders : Draw(c, s) \/ FreeShader(c, s)
    \/ \E c \in Contexts : Flush(c)
    \/ Execute

Spec == Init /\ [][Next]_vars

-----------------------------------------------------------------------------
\* Every draw executes its own shader's code: not what a recycled heap range
\* held before, not a stale instruction-cache line, not a newer shader's code
\* written over a range still in use - unless the shader was deleted while
\* another context had recorded, and not yet submitted, a draw with it.
ShaderRunsItsCode == wrong \subseteq orphan

\* "freed ranges return to shader_vma only after the work using them retired"
\* (nvrm_screen.c), with no exception for recorded, unsubmitted work.
FreedAfterItsWork == wrong = {}

\* A binary's reference count is the table's reference and one for every
\* shader object or running job that holds it, whoever lost the race to insert
\* the same key; so a held binary is never freed and an unheld one is.
BinRefsExact ==
    \A b \in Shaders :
        refs[b] = Cardinality({s \in Shaders : bin[s] = b}) + Cardinality({k \in Keys : table[k] = b})
=============================================================================
