----------------------------- MODULE HalGtNames -----------------------------
(***************************************************************************)
(* What the GPU timing of the Vulkan HAL remembers of the application's    *)
(* objects (hal/src/gputime.c): the hash of every shader module, the       *)
(* stages of every pipeline, the memory type behind every buffer and the   *)
(* storage buffers of every descriptor set.  The tables are keyed by       *)
(* handle, and the driver hands a destroyed object's handle out again.     *)
(***************************************************************************)
EXTENDS Integers, Sequences, FiniteSets, FiniteSetsExt, TLC

CONSTANTS Handles,     \* handles the driver gives out, per kind of object
          Codes,       \* SPIR-V programs, told apart by fnv1a
          Bindings,    \* bindings of a descriptor set
          MaxEntries,  \* 16: storage buffers remembered of a set
          MaxOps

Slots == {"vs", "fs", "cs"}
NoHash == 0
Sys == 1               \* a memory type that is not DEVICE_LOCAL
Local == 2
Types == {Sys, Local}

\* The objects as the driver has them.
VARIABLES module,      \* live shader modules: handle -> program
          pipe,        \* live pipelines: handle -> stage -> program
          mem,         \* live allocations: handle -> memory type
          buf,         \* live buffers: handle -> memory type, or unbound
          set,         \* live descriptor sets: handle -> binding -> buffer
          \* and as gputime.c remembers them.
          gt_modules, gt_pipes, gt_mem, gt_buf, gt_sets,
          census,      \* the last dispatch: what was counted and what is used
          ops
app == <<module, pipe, mem, buf, set>>
tables == <<gt_modules, gt_pipes, gt_mem, gt_buf, gt_sets>>
vars == <<module, pipe, mem, buf, set, gt_modules, gt_pipes, gt_mem, gt_buf,
          gt_sets, census, ops>>

NoCensus == [sys |-> 0, used |-> 0, full |-> FALSE]
Init ==
    /\ module = <<>> /\ pipe = <<>> /\ mem = <<>> /\ buf = <<>> /\ set = <<>>
    /\ gt_modules = <<>> /\ gt_pipes = <<>> /\ gt_mem = <<>> /\ gt_buf = <<>>
    /\ gt_sets = <<>>
    /\ census = NoCensus
    /\ ops = 0

Step == ops < MaxOps /\ ops' = ops + 1 /\ census' = NoCensus
Put(t, k, v) == (k :> v) @@ t
Drop(t, k) == [x \in DOMAIN t \ {k} |-> t[x]]
Get(t, k, none) == IF k \in DOMAIN t THEN t[k] ELSE none

----------------------------------------------------------------------------
(* Shader modules and pipelines                                            *)

CreateShaderModule(m, code) ==
    /\ Step /\ m \notin DOMAIN module
    /\ module' = Put(module, m, code)
    /\ gt_modules' = Put(gt_modules, m, code)
    /\ UNCHANGED <<pipe, mem, buf, set, gt_pipes, gt_mem, gt_buf, gt_sets>>

DestroyShaderModule(m) ==
    /\ Step /\ m \in DOMAIN module
    /\ module' = Drop(module, m)
    /\ gt_modules' = Drop(gt_modules, m)
    /\ UNCHANGED <<pipe, mem, buf, set, gt_pipes, gt_mem, gt_buf, gt_sets>>

\* A stage names a module, or carries its program inline.
Stage == [via : {"module"}, m : Handles] \cup [via : {"inline"}, m : Codes]
Program(s) == IF s.via = "module" THEN module[s.m] ELSE s.m
\* stage_hash
StageHash(s) == IF s.via = "module" THEN Get(gt_modules, s.m, NoHash) ELSE s.m

\* pipe_record: the hashes of the stages given, and of a library's where the
\* pipeline gives none.
NoStages == [k \in Slots |-> NoHash]
PipeRecord(stages, lib) ==
    [k \in Slots |->
        IF k \in DOMAIN stages /\ StageHash(stages[k]) # NoHash
        THEN StageHash(stages[k])
        ELSE IF lib \in DOMAIN gt_pipes THEN gt_pipes[lib][k] ELSE NoHash]

\* vkCreateGraphicsPipelines and vkCreateComputePipelines; the driver may
\* return no pipeline for a create info (VK_PIPELINE_COMPILE_REQUIRED), which
\* leaves the handle null.
CreatePipelines(p, stages, lib) ==
    /\ Step /\ p \notin DOMAIN pipe /\ lib \in DOMAIN pipe \cup {0}
    /\ \A k \in DOMAIN stages :
         stages[k].via = "module" => stages[k].m \in DOMAIN module
    /\ lib # 0 => \A k \in DOMAIN stages : pipe[lib][k] = NoHash
    /\ pipe' = Put(pipe, p, [k \in Slots |->
                   IF k \in DOMAIN stages THEN Program(stages[k])
                   ELSE IF lib # 0 THEN pipe[lib][k] ELSE NoHash])
    /\ gt_pipes' = Put(gt_pipes, p, PipeRecord(stages, lib))
    /\ UNCHANGED <<module, mem, buf, set, gt_modules, gt_mem, gt_buf, gt_sets>>

DestroyPipeline(p) ==
    /\ Step /\ p \in DOMAIN pipe
    /\ pipe' = Drop(pipe, p)
    /\ gt_pipes' = Drop(gt_pipes, p)
    /\ UNCHANGED <<module, mem, buf, set, gt_modules, gt_mem, gt_buf, gt_sets>>

\* The stage lists of the instance: one stage, or a vertex and a fragment one.
Stages == UNION {[D -> Stage] : D \in {{"cs"}, {"vs"}, {"vs", "fs"}}}

----------------------------------------------------------------------------
(* Memory placement of storage buffers                                     *)

AllocateMemory(m, type) ==
    /\ Step /\ m \notin DOMAIN mem
    /\ mem' = Put(mem, m, type)
    /\ gt_mem' = Put(gt_mem, m, type)
    /\ UNCHANGED <<module, pipe, buf, set, gt_modules, gt_pipes, gt_buf, gt_sets>>

\* The buffers bound to it are destroyed first, as the API asks.
FreeMemory(m) ==
    /\ Step /\ m \in DOMAIN mem
    /\ mem' = Drop(mem, m)
    /\ gt_mem' = Drop(gt_mem, m)
    /\ UNCHANGED <<module, pipe, buf, set, gt_modules, gt_pipes, gt_buf, gt_sets>>

\* vkDestroyBuffer and the creation of another under the same handle are not
\* wrapped.
RecreateBuffer(b) ==
    /\ Step
    /\ buf' = Put(buf, b, 0)
    /\ UNCHANGED <<module, pipe, mem, set, tables>>

\* buf_bound, from vkBindBufferMemory and vkBindBufferMemory2.
BindBufferMemory(b, m, fails) ==
    /\ Step /\ Get(buf, b, -1) = 0 /\ m \in DOMAIN mem
    /\ buf' = IF fails THEN buf ELSE Put(buf, b, mem[m])
    /\ gt_buf' = IF fails THEN gt_buf
                 ELSE IF m \in DOMAIN gt_mem THEN Put(gt_buf, b, gt_mem[m])
                 ELSE Drop(gt_buf, b)
    /\ UNCHANGED <<module, pipe, mem, set, gt_modules, gt_pipes, gt_mem, gt_sets>>

\* A set's handle is given out again with nothing written (not wrapped).
ReallocateSet(s) ==
    /\ Step
    /\ set' = Put(set, s, <<>>)
    /\ UNCHANGED <<module, pipe, mem, buf, tables>>

\* vkUpdateDescriptorSets: the entry of the binding, or a new one while there
\* is room.
Written(e, binding, b) ==
    IF binding \in DOMAIN e \/ Cardinality(DOMAIN e) < MaxEntries
    THEN Put(e, binding, b) ELSE e
UpdateDescriptorSets(s, binding, b) ==
    /\ Step /\ s \in DOMAIN set /\ b \in DOMAIN buf
    /\ set' = [set EXCEPT ![s] = Put(@, binding, b)]
    /\ gt_sets' = Put(gt_sets, s, Written(Get(gt_sets, s, <<>>), binding, b))
    /\ UNCHANGED <<module, pipe, mem, buf, gt_modules, gt_pipes, gt_mem, gt_buf>>

\* ssbo_census at a dispatch with set s bound, all of whose buffers have
\* memory.
Census(s) ==
    LET e == Get(gt_sets, s, <<>>)
    IN  Cardinality({k \in DOMAIN e : Get(gt_buf, e[k], Local) = Sys})
CmdDispatch(s) ==
    /\ ops < MaxOps /\ s \in DOMAIN set
    /\ \A k \in DOMAIN set[s] : buf[set[s][k]] # 0
    /\ census' = [sys |-> Census(s),
                  used |-> Cardinality({k \in DOMAIN set[s] : buf[set[s][k]] = Sys}),
                  full |-> Cardinality(DOMAIN Get(gt_sets, s, <<>>)) = MaxEntries]
    /\ UNCHANGED <<app, tables, ops>>

Naming ==
    \/ \E m \in Handles, code \in Codes : CreateShaderModule(m, code)
    \/ \E m \in Handles : DestroyShaderModule(m)
    \/ \E p \in Handles, st \in Stages, lib \in Handles \cup {0} :
         CreatePipelines(p, st, lib)
    \/ \E p \in Handles : DestroyPipeline(p)
Placing ==
    \/ \E m \in Handles, type \in Types : AllocateMemory(m, type)
    \/ \E m \in Handles : FreeMemory(m)
    \/ \E b \in Handles : RecreateBuffer(b)
    \/ \E b, m \in Handles, fails \in BOOLEAN : BindBufferMemory(b, m, fails)
    \/ \E s \in Handles : ReallocateSet(s)
    \/ \E s, b \in Handles, k \in Bindings : UpdateDescriptorSets(s, k, b)
    \/ \E s \in Handles : CmdDispatch(s)
\* The two halves share nothing: a behaviour exercises one of them.
Next == \/ mem = <<>> /\ buf = <<>> /\ set = <<>> /\ Naming
        \/ module = <<>> /\ pipe = <<>> /\ Placing

Spec == Init /\ [][Next]_vars

----------------------------------------------------------------------------
\* The report names a pipeline by the programs it was created from
\* (pipe_record, pipe_label), also after its modules are destroyed and their
\* handles and the pipeline's own are given out again, and through libraries.
LabelsExact ==
    /\ DOMAIN gt_pipes = DOMAIN pipe
    /\ \A p \in DOMAIN pipe : gt_pipes[p] = pipe[p]

\* ssbo_census reports every storage buffer in system memory a dispatch
\* reads, whatever handles were given out before, as long as the set's handle
\* has not been seen with MaxEntries bindings.
CensusCovers == ~census.full => census.sys >= census.used
============================================================================
