------------------------------ MODULE NvrmState ------------------------------
(***************************************************************************)
(* Dirty tracking of the nvrm gallium driver (mesa/gallium-nvrm).          *)
(*                                                                         *)
(* Every context records commands into its own batch; all contexts share   *)
(* the screen's one GPU channel, whose registers, caches and constant      *)
(* areas are changed by the batches in submission order.  A draw emits     *)
(* only the groups its context marked dirty, so it is right only when the  *)
(* channel, at the time the batch RUNS, already holds the rest.            *)
(*                                                                         *)
(* Data is abstracted to versions: an item of context state is 0 or 1, a   *)
(* register group holds the tuple of the items its emission reads.  A      *)
(* "plain" shader pair reads constant slot 0; a "rich" one also slot 1,    *)
(* the storage descriptors, one texture unit and local memory.  View v     *)
(* samples the texture that framebuffer v renders to.                      *)
(***************************************************************************)
EXTENDS Integers, Sequences, SequencesExt, FiniteSets, TLC

CONSTANTS Contexts,   \* gallium contexts of one screen
          Ring,       \* NVRM_BATCH_RING: batch slots, each with a texture pool
          PoolSlots,  \* NVRM_TEX_POOL_SLOTS
          MaxSets,    \* bound: state-setting calls, all contexts together
          MaxCmds,    \* bound: draws, clears, dispatches and copies
          MaxOther    \* bound: those of them that are not draws

VARIABLES st,       \* st[c]: the state the application set
          dirty,    \* ctx->dirty
          cbDirty,  \* ctx->cb_dirty of the fragment stage
          inval,    \* ctx->inval
          batch,    \* the commands recorded and not yet submitted
          cur,      \* ctx->ring_cur, which names ctx->tex_pool
          next,     \* ctx->tex_pool_next
          table,    \* ctx->tex_slots of the current generation: view -> slot
          shadow,   \* ctx->drv_cb_handles / drv_cb_uniforms
          csPools,  \* ctx->cs_pools_seq = flush_seq + 1: pools bound for compute
          pool,     \* pool[c][p]: texture pool contents, slot -> view
          chan,     \* the channel: registers, stale caches, constant areas
          sets, cmds, other

ctxVars == <<st, dirty, cbDirty, inval, batch, cur, next, table, shadow, csPools, pool>>
vars == <<ctxVars, chan, sets, cmds, other>>

None == -1
AllDirty == {"FB", "VIEWPORT", "RAST", "DSA_BLEND", "SHADERS", "CBUFS", "VERTEX",
             "TEXTURES", "POOLS", "SO", "COND", "SSBO", "BATCH"}
Versioned == {"fb", "viewport", "scissor", "rast", "dsa", "blend", "blend_color",
              "stencil_ref", "sample_mask", "velems", "vb", "cond", "so", "cb1",
              "ssbo", "view", "uniforms", "slm"}
Tex == {"tex0", "tex1"}
TexOf(v) == IF v = 0 THEN "tex0" ELSE "tex1"
Caches == Tex \cup {"header", "constant", "global"}
CbSlots == {"0", "1", "tex"}
\* nvrm_shader.cbuf_mask and what the "rich" shaders read besides.
CbufMask(s) == IF s.shaders = "rich" THEN {"0", "1"} ELSE {"0"}

\* Commands of a batch, as the channel runs them.
SetRegs(f) == <<[op |-> "set", regs |-> f]>>
Mark(S) == <<[op |-> "mark", caches |-> S]>>
Invalidate(S) == <<[op |-> "invalidate", caches |-> S]>>
Load(c, area, val) == <<[op |-> "load", ctx |-> c, area |-> area, val |-> val]>>

-----------------------------------------------------------------------------
(* What each emission writes, from the context state it reads.             *)
EmitTexPools(c, p) == "pools" :> <<c, p>>
EmitSlm(c, s) == IF s.slm = 0 THEN <<>> ELSE "slm" :> <<c, s.slm>>
EmitFramebuffer(s) == "fb" :> <<s.fb>>
EmitViewport(s) == "viewport" :> <<s.viewport, s.scissor, s.rast>>
EmitRasterizer(s) == "rast" :> <<s.rast, s.sample_mask>>
EmitDsaBlend(s) == "dsa_blend" :> <<s.dsa, s.stencil_ref, s.blend, s.blend_color, s.fb>>
EmitShaders(s) == "shaders" :> <<s.shaders>>
EmitSsboDesc(s) == IF s.shaders = "rich" THEN "desc" :> <<s.ssbo, s.cb1>> ELSE <<>>
EmitVertex(s) == "vertex" :> <<s.velems, s.vb>>
EmitRenderEnable(s) == "cond" :> <<s.cond>>
EmitSo(s) == "so" :> <<s.so>>
\* One slot: the driver's uniform area, or the bound buffer.
CbBinding(c, s, slot) ==
    CASE slot = "0" /\ s.cb_user -> <<c, "uniforms">>
      [] slot = "0" -> <<"buffer0">>
      [] slot = "1" -> <<"buffer1", s.cb1>>
      [] slot = "tex" -> <<c, "handles">>
CbReg(slot) == CASE slot = "0" -> "cb0" [] slot = "1" -> "cb1" [] slot = "tex" -> "cbtex"
EmitCbufs(c, s, slots) == [r \in {CbReg(x) : x \in slots} |->
                               CbBinding(c, s, CHOOSE x \in slots : CbReg(x) = r)]

\* nvrm_drv_cb_load: load what differs from the shadow.
DrvCbLoad(c, area, val) == IF shadow[c][area] = val THEN <<>> ELSE Load(c, area, val)

\* nvrm_tex_slot: an entry of this batch, or the next free slot.  The table
\* forgets its entries when the pool is empty (it rotated).
LiveTable(c) == IF next[c] = 0 THEN <<>> ELSE table[c]
Known(c, v) == v \in DOMAIN LiveTable(c)
TexSlot(c, v) == IF Known(c, v) THEN LiveTable(c)[v] ELSE next[c]
WriteSlot(c, v) ==
    IF Known(c, v)
    THEN UNCHANGED <<next, table, pool>>
    ELSE /\ next' = [next EXCEPT ![c] = @ + 1]
         /\ table' = [table EXCEPT ![c] = (v :> next[c]) @@ LiveTable(c)]
         /\ pool' = [pool EXCEPT ![c][cur[c]][next[c]] = v]

-----------------------------------------------------------------------------
(* The channel.  A draw is judged against what a full emission of its      *)
(* context's state at the call would have set.                             *)
Wanted(c, s, p) ==
    LET always == EmitFramebuffer(s) @@ EmitViewport(s) @@ EmitRasterizer(s)
                  @@ EmitDsaBlend(s) @@ EmitShaders(s) @@ EmitVertex(s)
                  @@ EmitRenderEnable(s) @@ EmitSo(s) @@ EmitCbufs(c, s, CbufMask(s))
    IN IF s.shaders = "rich"
       THEN always @@ EmitTexPools(c, p) @@ EmitSlm(c, s) @@ EmitSsboDesc(s)
                   @@ EmitCbufs(c, s, {"tex"})
       ELSE always

\* Caches a draw reads through: its constants, and with the rich shaders the
\* texture header, the texels (except of a texture it renders to: undefined
\* in GL without a barrier) and storage buffers.
ReadsThrough(s) == {"constant"} \cup
    (IF s.shaders = "rich"
     THEN {"header", "global"} \cup (IF s.view = s.fb THEN {} ELSE {TexOf(s.view)})
     ELSE {})

Draws(c, s, p) == <<[op |-> "draw", ctx |-> c, want |-> Wanted(c, s, p),
                     reads |-> ReadsThrough(s), s |-> s]>>
Clears(c, s) == <<[op |-> "clear", want |-> EmitFramebuffer(s) @@ EmitRenderEnable(s), s |-> s]>>
Launches(c, s, p, h) == <<[op |-> "launch", ctx |-> c, pool |-> <<c, p>>, handle |-> h, s |-> s]>>

Mismatch(ch, want) == {g \in DOMAIN want : ch.regs[g] # want[g]}
\* The texel a draw samples: the handle in its constant area names a slot of
\* the bound pool, read from the pool's memory as it is now.
WrongTexture(ch, d) ==
    IF d.s.shaders = "rich" /\ ch.regs["pools"] = d.want["pools"]
       /\ pool[d.ctx][ch.regs["pools"][2]][ch.area[d.ctx].handles] # d.s.view
    THEN {"texture"} ELSE {}
WrongUniforms(ch, d) ==
    IF d.s.cb_user /\ ch.area[d.ctx].uniforms # d.s.uniforms THEN {"uniforms"} ELSE {}

Exec(ch, x) ==
    CASE x.op = "set" -> [ch EXCEPT !.regs = x.regs @@ @]
      [] x.op = "mark" -> [ch EXCEPT !.stale = @ \cup x.caches]
      [] x.op = "invalidate" -> [ch EXCEPT !.stale = @ \ x.caches]
      [] x.op = "load" -> [ch EXCEPT !.area[x.ctx][x.area] = x.val]
      [] x.op = "draw" ->
            [ch EXCEPT !.wrong = @ \cup Mismatch(ch, x.want) \cup (ch.stale \cap x.reads)
                                   \cup WrongTexture(ch, x) \cup WrongUniforms(ch, x),
                       !.stale = @ \cup {TexOf(x.s.fb)}]
      [] x.op = "clear" ->
            [ch EXCEPT !.wrong = @ \cup Mismatch(ch, x.want),
                       !.stale = @ \cup {TexOf(x.s.fb)}]
      [] x.op = "launch" ->
            [ch EXCEPT !.wrong = @ \cup
                 (IF ch.regs["cspools"] # x.pool THEN {"cspools"} ELSE {}) \cup
                 (IF pool[x.ctx][x.pool[2]][x.handle] # x.s.view THEN {"cstexture"} ELSE {}),
                       !.stale = @ \cup Tex \cup {"global", "constant"}]

\* The GPU runs a batch: the channel runs batches whole and in submission
\* order, so its effect on the channel is taken at submission (what may still
\* be in flight when a pool is rewritten is NvrmBatch's concern).  The CPU
\* wrote memory since the batch before it: every cache may hold old lines.
RunBatch(xs) == chan' = FoldLeft(Exec, [chan EXCEPT !.stale = Caches], xs)

-----------------------------------------------------------------------------
Record(c, xs) == batch' = [batch EXCEPT ![c] = @ \o xs]

\* nvrm_flush: pause stream output, submit, move to the next batch slot, and
\* start from unknown channel state.
SubmitBatch(c) ==
    IF batch[c] = <<>>
    THEN UNCHANGED <<chan, batch, cur, next>>
    ELSE /\ RunBatch(batch[c] \o IF st[c].so = 1 /\ "SO" \notin dirty[c]
                                 THEN SetRegs("so" :> <<0>>) ELSE <<>>)
         /\ batch' = [batch EXCEPT ![c] = <<>>]
         /\ cur' = [cur EXCEPT ![c] = (@ + 1) % Ring]
         /\ next' = [next EXCEPT ![c] = 0]

Flush(c) ==
    /\ SubmitBatch(c)
    /\ dirty' = [dirty EXCEPT ![c] = AllDirty]
    /\ csPools' = [csPools EXCEPT ![c] = FALSE]
    /\ UNCHANGED <<st, cbDirty, inval, table, shadow, pool, sets, cmds, other>>

\* nvrm_slm_ensure: flush, replace the area, mark the pools group.
SlmEnsure(c) ==
    /\ st[c].slm = 0 /\ st[c].shaders = "rich"
    /\ SubmitBatch(c)
    /\ st' = [st EXCEPT ![c].slm = 1]
    /\ dirty' = [dirty EXCEPT ![c] = AllDirty]
    /\ csPools' = [csPools EXCEPT ![c] = FALSE]
    /\ UNCHANGED <<cbDirty, inval, table, shadow, pool, sets, cmds, other>>

-----------------------------------------------------------------------------
(* State-setting calls.                                                    *)
Put(c, item, bits) ==
    /\ sets < MaxSets
    /\ sets' = sets + 1
    /\ st' = [st EXCEPT ![c][item] = 1 - @]
    /\ dirty' = [dirty EXCEPT ![c] = @ \cup bits]
    /\ UNCHANGED <<cbDirty, inval, batch, cur, next, table, shadow, csPools, pool,
                   chan, cmds, other>>

SetFramebufferState(c) == Put(c, "fb", {"FB", "DSA_BLEND"})
SetViewportStates(c) == Put(c, "viewport", {"VIEWPORT"})
SetScissorStates(c) == Put(c, "scissor", {"VIEWPORT"})
BindRasterizerStateMut(c) == Put(c, "rast", {"RAST"})

BindRasterizerState(c) == Put(c, "rast", {"RAST", "VIEWPORT"})
BindDsaState(c) == Put(c, "dsa", {"DSA_BLEND"})
BindBlendState(c) == Put(c, "blend", {"DSA_BLEND"})
SetBlendColor(c) == Put(c, "blend_color", {"DSA_BLEND"})
SetStencilRef(c) == Put(c, "stencil_ref", {"DSA_BLEND"})
SetSampleMask(c) == Put(c, "sample_mask", {"RAST"})
BindVertexElements(c) == Put(c, "velems", {"VERTEX"})
SetVertexBuffers(c) == Put(c, "vb", {"VERTEX"})
RenderCondition(c) == Put(c, "cond", {"COND"})
SetShaderBuffers(c) == Put(c, "ssbo", {"SSBO"})
SetSamplerViews(c) == Put(c, "view", {"TEXTURES"})

BindShaders(c) ==
    /\ sets < MaxSets
    /\ sets' = sets + 1
    /\ st' = [st EXCEPT ![c].shaders = IF @ = "rich" THEN "plain" ELSE "rich"]
    /\ dirty' = [dirty EXCEPT ![c] = @ \cup {"SHADERS", "TEXTURES"}]
    /\ UNCHANGED <<cbDirty, inval, batch, cur, next, table, shadow, csPools, pool,
                   chan, cmds, other>>

\* nvrm_so_pause, then the new targets.
SetStreamOutputTargets(c) ==
    /\ sets < MaxSets
    /\ sets' = sets + 1
    /\ st' = [st EXCEPT ![c].so = 1 - @]
    /\ IF st[c].so = 1 /\ "SO" \notin dirty[c]
       THEN Record(c, SetRegs("so" :> <<0>>))
       ELSE UNCHANGED batch
    /\ dirty' = [dirty EXCEPT ![c] = @ \cup {"SO"}]
    /\ UNCHANGED <<cbDirty, inval, cur, next, table, shadow, csPools, pool, chan, cmds, other>>

\* Slot 0 with user constants: loaded now, in stream order; the binding is
\* marked only when the slot held a buffer.
SetUserConstants(c) ==
    /\ sets < MaxSets
    /\ sets' = sets + 1
    /\ LET v == 1 - st[c].uniforms IN
       /\ st' = [st EXCEPT ![c].uniforms = v, ![c].cb_user = TRUE]
       /\ cbDirty' = [cbDirty EXCEPT ![c] = IF st[c].cb_user THEN @ ELSE @ \cup {"0"}]
       /\ Record(c, DrvCbLoad(c, "uniforms", v))
       /\ shadow' = [shadow EXCEPT ![c].uniforms = v]
    /\ UNCHANGED <<dirty, inval, cur, next, table, csPools, pool, chan, cmds, other>>

SetConstantBuffer(c) ==
    /\ sets < MaxSets
    /\ sets' = sets + 1
    /\ dirty' = [dirty EXCEPT ![c] = @ \cup {"CBUFS"}]
    /\ \/ /\ st' = [st EXCEPT ![c].cb_user = FALSE]
          /\ cbDirty' = [cbDirty EXCEPT ![c] = @ \cup {"0"}]
       \/ /\ st' = [st EXCEPT ![c].cb1 = 1 - @]
          /\ cbDirty' = [cbDirty EXCEPT ![c] = @ \cup {"1"}]
    /\ UNCHANGED <<inval, batch, cur, next, table, shadow, csPools, pool, chan, cmds, other>>

-----------------------------------------------------------------------------
(* Commands.                                                               *)
Command(c) == cmds < MaxCmds /\ cmds' = cmds + 1
NotDraw(c) == Command(c) /\ other < MaxOther /\ other' = other + 1
\* nvrm_texture_reserve: with no room the call flushes first (Flush).
Reserved(c) == next[c] + 1 <= PoolSlots

When(cond, f) == IF cond THEN f ELSE <<>>

\* The caches nvrm_emit_invalidates invalidates for the pending bits.
InvalidatedBy(bits) ==
    (IF bits \cap {"BATCH", "HEADER"} # {} THEN {"header"} ELSE {}) \cup
    (IF bits \cap {"BATCH", "TEX_DATA"} # {} THEN Tex ELSE {}) \cup
    (IF bits \cap {"BATCH", "GLOBAL"} # {} THEN {"global"} ELSE {}) \cup
    (IF bits \cap {"BATCH", "CONSTANT"} # {} THEN {"constant"} ELSE {})

\* nvrm_draw_vbo, from the read of ctx->dirty after its push_begin.
DrawVbo(c) ==
    /\ Command(c)
    /\ st[c].shaders = "rich" => st[c].slm = 1 /\ Reserved(c)
    /\ LET s == st[c]
           d == dirty[c]
           cbd == IF "BATCH" \in d THEN CbSlots ELSE cbDirty[c]
           rebind == cbd \cap CbufMask(s)
           textures == "TEXTURES" \in d /\ s.shaders = "rich"
           handle == TexSlot(c, s.view)
           fresh == textures /\ ~Known(c, s.view)
           bits == inval[c] \cup (IF "BATCH" \in d THEN {"BATCH"} ELSE {})
                            \cup (IF "FB" \in d THEN {"TEX_DATA"} ELSE {})
                            \cup (IF fresh THEN {"HEADER"} ELSE {})
           regs == When("POOLS" \in d, EmitTexPools(c, cur[c]) @@ EmitSlm(c, s))
                   @@ When("FB" \in d, EmitFramebuffer(s))
                   @@ When("VIEWPORT" \in d, EmitViewport(s))
                   @@ When("RAST" \in d, EmitRasterizer(s))
                   @@ When("DSA_BLEND" \in d, EmitDsaBlend(s))
                   @@ When("SHADERS" \in d, EmitShaders(s))
                   @@ EmitCbufs(c, s, rebind)
                   @@ When(d \cap {"SSBO", "SHADERS", "CBUFS"} # {}, EmitSsboDesc(s))
                   @@ When("VERTEX" \in d, EmitVertex(s))
                   @@ When("COND" \in d, EmitRenderEnable(s))
                   @@ When("SO" \in d, EmitSo(s))
                   @@ When(textures /\ "tex" \in cbd, EmitCbufs(c, s, {"tex"}))
       IN /\ Record(c, SetRegs(regs)
                       \o (IF fresh THEN Mark({"header"}) ELSE <<>>)
                       \o (IF textures THEN DrvCbLoad(c, "handles", handle) ELSE <<>>)
                       \o Invalidate(InvalidatedBy(bits))
                       \o Draws(c, s, cur[c]))
          /\ IF textures
             THEN WriteSlot(c, s.view) /\ shadow' = [shadow EXCEPT ![c].handles = handle]
             ELSE UNCHANGED <<next, table, pool, shadow>>
          /\ cbDirty' = [cbDirty EXCEPT ![c] = cbd \ (rebind \cup IF textures THEN {"tex"} ELSE {})]
    /\ dirty' = [dirty EXCEPT ![c] = {}]
    /\ inval' = [inval EXCEPT ![c] = {}]
    /\ UNCHANGED <<st, cur, csPools, chan, sets, other>>

\* nvrm_clear: its own target and render-enable emission; the next draw
\* emits the framebuffer again.
Clear(c) ==
    /\ NotDraw(c)
    /\ Record(c, SetRegs(EmitFramebuffer(st[c]) @@ EmitRenderEnable(st[c])) \o Clears(c, st[c]))
    /\ dirty' = [dirty EXCEPT ![c] = @ \cup {"FB"}]
    /\ UNCHANGED <<st, cbDirty, inval, cur, next, table, shadow, csPools, pool, chan, sets>>

\* nvrm_launch_grid of a shader with one texture unit.
LaunchGrid(c) ==
    /\ NotDraw(c) /\ Reserved(c)
    /\ LET s == st[c]
           fresh == ~Known(c, s.view)
       IN /\ Record(c, Invalidate(Tex \cup {"global", "constant"})
                       \o (IF csPools[c] THEN <<>> ELSE SetRegs("cspools" :> <<c, cur[c]>>))
                       \o Launches(c, s, cur[c], TexSlot(c, s.view)))
          /\ WriteSlot(c, s.view)
          /\ inval' = [inval EXCEPT ![c] = @ \cup {"TEX_DATA", "GLOBAL", "CONSTANT"}
                                            \cup (IF fresh THEN {"HEADER"} ELSE {})]
    /\ csPools' = [csPools EXCEPT ![c] = TRUE]
    /\ UNCHANGED <<st, dirty, cbDirty, cur, shadow, chan, sets>>

\* nvrm_copy_image_upload and nvrm_buffer_unmap_staging: the copy engine
\* writes behind the caches, the next draw invalidates them.
CopyUpload(c) ==
    /\ NotDraw(c)
    /\ \/ /\ Record(c, Mark({"tex1"}))
          /\ inval' = [inval EXCEPT ![c] = @ \cup {"TEX_DATA"}]
       \/ /\ Record(c, Mark({"constant", "global"}))
          /\ inval' = [inval EXCEPT ![c] = @ \cup {"CONSTANT", "GLOBAL"}]
    /\ UNCHANGED <<st, dirty, cbDirty, cur, next, table, shadow, csPools, pool, chan, sets>>

\* nvrm_resource_copy_region (copy, then nvrm_copy_barrier_after).
CopyRegion(c) ==
    /\ NotDraw(c)
    /\ Record(c, Mark({"tex1", "constant", "global"})
                 \o Invalidate(Tex \cup {"global", "constant"}))
    /\ UNCHANGED <<st, dirty, cbDirty, inval, cur, next, table, shadow, csPools, pool,
                   chan, sets>>

ContextStep(c) ==
    \/ SetFramebufferState(c) \/ SetViewportStates(c) \/ SetScissorStates(c)
    \/ BindRasterizerState(c) \/ BindDsaState(c) \/ BindBlendState(c) \/ SetBlendColor(c)
    \/ SetStencilRef(c) \/ SetSampleMask(c) \/ BindVertexElements(c) \/ SetVertexBuffers(c)
    \/ RenderCondition(c) \/ SetShaderBuffers(c) \/ SetSamplerViews(c) \/ BindShaders(c)
    \/ SetStreamOutputTargets(c) \/ SetUserConstants(c) \/ SetConstantBuffer(c)
    \/ DrawVbo(c) \/ Clear(c) \/ LaunchGrid(c) \/ CopyUpload(c) \/ CopyRegion(c)
    \/ Flush(c) \/ SlmEnsure(c)

\* A fresh context, after the application bound its first shaders and slot 0:
\* everything dirty, an empty batch.
InitStates == {[i \in Versioned |-> 0] @@ [shaders |-> sh, cb_user |-> FALSE] :
                  sh \in {"plain", "rich"}}

Init ==
    /\ st \in [Contexts -> InitStates]
    /\ dirty = [c \in Contexts |-> AllDirty]
    /\ cbDirty = [c \in Contexts |-> {}]
    /\ inval = [c \in Contexts |-> {}]
    /\ batch = [c \in Contexts |-> <<>>]
    /\ cur = [c \in Contexts |-> 0]
    /\ next = [c \in Contexts |-> 0]
    /\ table = [c \in Contexts |-> <<>>]
    /\ shadow = [c \in Contexts |-> [handles |-> None, uniforms |-> None]]
    /\ csPools = [c \in Contexts |-> FALSE]
    /\ pool = [c \in Contexts |-> [p \in 0..(Ring - 1) |-> [i \in 0..(PoolSlots - 1) |-> None]]]
    /\ chan = [regs |-> [g \in {"pools", "slm", "fb", "viewport", "rast", "dsa_blend",
                                "shaders", "desc", "vertex", "cond", "so", "cb0", "cb1",
                                "cbtex", "cspools"} |-> <<>>],
               stale |-> {}, wrong |-> {},
               area |-> [c \in Contexts |-> [handles |-> None, uniforms |-> None]]]
    /\ sets = 0 /\ cmds = 0 /\ other = 0

Next == \E c \in Contexts : ContextStep(c)
Spec == Init /\ [][Next]_vars

-----------------------------------------------------------------------------
\* Every draw, clear and dispatch runs with exactly the channel state its
\* context had at the call: registers, constant areas, the texture its handle
\* names, and no cache line older than the memory it reads - although only
\* the dirty groups were emitted and other contexts' batches ran in between.
DrawsSeeTheirState == chan.wrong = {}
=============================================================================
