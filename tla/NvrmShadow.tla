------------------------------ MODULE NvrmShadow ------------------------------
(***************************************************************************)
(* Linear render shadows of the nvrm gallium driver (nvrm_context.c D1).   *)
(*                                                                         *)
(* A linear colour buffer that the GPU cannot render to is rendered        *)
(* through a block-linear shadow: copied in before the first draw of a     *)
(* pass (shadow_loaded), copied out at its end when a target emission      *)
(* named it (shadow_written).  The copies are recorded inline, so record   *)
(* order is execution order.                                               *)
(*                                                                         *)
(* Contents are the set of the drawing operations they show.  ideal is     *)
(* what the application asked for; undef marks a buffer whose contents it  *)
(* discarded.                                                              *)
(***************************************************************************)
EXTENDS Integers, FiniteSets

CONSTANTS Bufs,   \* the linear colour buffers of the framebuffer (shadow_mask)
          MaxOps  \* bound: drawing operations, copies and CPU writes

VARIABLES bound,      \* ctx->fb names the linear buffers (shadow_mask = Bufs) or not
          target,     \* the channel's colour targets are the shadows
          dirtyFB,    \* NVRM_DIRTY_FB
          loaded,     \* ctx->shadow_loaded
          written,    \* ctx->shadow_written
          discarded,  \* ctx->shadow_discarded
          pending,    \* nvrm_has_pending
          lin, sh,    \* contents of the linear buffers and of their shadows
          ideal, undef,
          lapse,      \* a pass was cut short (see UncutPassesReachLinear)
          ops

vars == <<bound, target, dirtyFB, loaded, written, discarded, pending, lin, sh,
          ideal, undef, lapse, ops>>

Op == ops < MaxOps /\ ops' = ops + 1
Mask == IF bound THEN Bufs ELSE {}

\* One pass of the driver over its own fields, threaded through a call.
Fields == [loaded |-> loaded, written |-> written, lin |-> lin, sh |-> sh,
           pending |-> pending, dirtyFB |-> dirtyFB, lapse |-> lapse]
\* Fields of a call that writes the buffers: shadow_discarded still counts the
\* discards made before it.
Writing == [Fields EXCEPT !.lapse = @ \/ discarded # {}]

\* nvrm_fb_shadow_copy
CopyIn(f) == [f EXCEPT !.sh = f.lin, !.pending = TRUE]
CopyOut(f) == [f EXCEPT !.lin = f.sh, !.pending = TRUE]

\* nvrm_fb_shadow_begin, nvrm_fb_shadow_begin_overwritten, nvrm_fb_shadow_end
ShadowBegin(f) == IF Mask = {} \/ f.loaded THEN f ELSE [CopyIn(f) EXCEPT !.loaded = TRUE]
ShadowBeginOverwritten(f) == IF Mask = {} \/ f.loaded THEN f ELSE [f EXCEPT !.loaded = TRUE]
ShadowEnd(f) == IF f.written THEN CopyOut([f EXCEPT !.written = FALSE]) ELSE f

FlushFieldsMut(f) == [ShadowEnd(f) EXCEPT !.pending = FALSE, !.loaded = FALSE]

\* nvrm_flush, as far as the shadows see it.
FlushFields(f) == [ShadowEnd(f) EXCEPT !.pending = FALSE, !.dirtyFB = TRUE, !.loaded = FALSE]

\* nvrm_push_begin: flushes first when the batch is full.
PushBegin(f, full) ==
    IF full THEN [FlushFields(f) EXCEPT !.lapse = @ \/ Mask # {}] ELSE f

\* nvrm_emit_color_target for linear buffers that cannot render linear.
EmitColorTarget(f) == [f EXCEPT !.written = @ \/ Mask # {}, !.pending = TRUE]

Commit(f) ==
    /\ loaded' = f.loaded /\ written' = f.written /\ lin' = f.lin /\ sh' = f.sh
    /\ pending' = f.pending /\ dirtyFB' = f.dirtyFB /\ lapse' = f.lapse

-----------------------------------------------------------------------------
\* nvrm_draw_vbo: begin the pass, open the push, emit the targets when they
\* are dirty, draw.
Draw(full) ==
    /\ Op
    /\ LET f == PushBegin(ShadowBegin(Writing), full)
           g == IF f.dirtyFB THEN EmitColorTarget(f) ELSE f
           t == IF f.dirtyFB THEN bound ELSE target
       IN /\ target' = t
          /\ Commit([g EXCEPT !.dirtyFB = FALSE, !.pending = TRUE,
                              !.sh = IF t THEN [b \in Bufs |-> @[b] \cup {ops}] ELSE @])
    /\ ideal' = IF bound THEN [b \in Bufs |-> ideal[b] \cup {ops}] ELSE ideal
    /\ UNCHANGED <<bound, discarded, undef>>

\* nvrm_clear of the colour buffers bs.  whole: over their whole extent;
\* cond: under conditional rendering, where the GPU may skip it.
Clear(bs, whole, cond, skipped, full) ==
    /\ Op
    /\ skipped => cond
    /\ LET overwrites == bs = Mask /\ whole /\ ~cond
           writes == bs # {}
           b0 == IF ~writes THEN Fields
                 ELSE IF overwrites THEN ShadowBeginOverwritten(Writing) ELSE ShadowBegin(Writing)
           f == EmitColorTarget(PushBegin(b0, full))
           kept == written /\ ~full
           cleared(c) == [b \in Bufs |-> IF b \in bs /\ ~skipped
                                         THEN (IF whole THEN {} ELSE c[b]) \cup {ops} ELSE c[b]]
       IN /\ Commit([f EXCEPT !.written = IF writes THEN @ ELSE kept,
                              !.sh = cleared(@), !.dirtyFB = TRUE])
          /\ ideal' = cleared(ideal)
          /\ undef' = [b \in Bufs |-> undef[b] /\ ~(b \in bs /\ whole /\ ~skipped)]
    /\ target' = bound
    /\ UNCHANGED <<bound, discarded>>

\* nvrm_set_framebuffer_state
SetFramebufferState ==
    /\ Op
    /\ bound' = ~bound
    /\ Commit([ShadowEnd(Fields) EXCEPT !.loaded = FALSE, !.dirtyFB = TRUE])
    /\ discarded' = {}
    /\ UNCHANGED <<target, ideal, undef>>

\* nvrm_invalidate_resource of buffer b.
InvalidateResource(b) ==
    /\ Op
    /\ b \in Mask
    /\ LET all == discarded \cup {b} = Mask IN
       /\ discarded' = IF all THEN {} ELSE discarded \cup {b}
       /\ IF all
          THEN Commit([ShadowBeginOverwritten([Fields EXCEPT !.written = FALSE])
                          EXCEPT !.dirtyFB = TRUE])
          ELSE UNCHANGED <<loaded, written, lin, sh, pending, dirtyFB, lapse>>
    /\ ideal' = [ideal EXCEPT ![b] = {}]
    /\ undef' = [undef EXCEPT ![b] = TRUE]
    /\ UNCHANGED <<bound, target>>

\* nvrm_resource_copy_region into linear buffer b: the pass ends first.
CopyRegion(b) ==
    /\ Op
    /\ LET f == IF written \/ loaded THEN [ShadowEnd(Writing) EXCEPT !.loaded = FALSE]
                ELSE Writing
       IN Commit([f EXCEPT !.lin[b] = @ \cup {ops}, !.pending = TRUE,
                           !.lapse = @ \/ (target /\ ~dirtyFB)])
    /\ ideal' = [ideal EXCEPT ![b] = @ \cup {ops}]
    /\ UNCHANGED <<bound, target, discarded, undef>>

\* nvrm_flush
Flush ==
    /\ Commit(FlushFields(Fields))
    /\ UNCHANGED <<bound, target, discarded, ideal, undef, ops>>

\* nvrm_resource_map of linear buffer b for writing: flush, wait, write.
MapWrite(b) ==
    /\ Op
    /\ Commit([FlushFields(Writing) EXCEPT !.lin[b] = @ \cup {ops}])
    /\ ideal' = [ideal EXCEPT ![b] = @ \cup {ops}]
    /\ UNCHANGED <<bound, target, discarded, undef>>

Init ==
    /\ bound = TRUE /\ target = FALSE /\ dirtyFB = TRUE
    /\ loaded = FALSE /\ written = FALSE /\ discarded = {} /\ pending = FALSE
    /\ lin = [b \in Bufs |-> {}] /\ sh = [b \in Bufs |-> {}]
    /\ ideal = [b \in Bufs |-> {}] /\ undef = [b \in Bufs |-> FALSE]
    /\ lapse = FALSE /\ ops = 0

Next ==
    \/ \E full \in BOOLEAN : Draw(full)
    \/ \E bs \in SUBSET Mask, whole, cond, skipped, full \in BOOLEAN :
           Clear(bs, whole, cond, skipped, full)
    \/ SetFramebufferState
    \/ \E b \in Bufs : InvalidateResource(b) \/ CopyRegion(b) \/ MapWrite(b)
    \/ Flush

Spec == Init /\ [][Next]_vars

-----------------------------------------------------------------------------
Shows(b) == IF undef[b] THEN ideal[b] \subseteq lin[b] ELSE lin[b] = ideal[b]

\* Between batches the linear buffers hold everything the application drew,
\* cleared and copied, and nothing it cleared away ("The linear buffers are
\* current when this batch completes", nvrm_flush).
LinearCurrent == ~pending => \A b \in Bufs : Shows(b)

\* The same, as long as no pass was cut short with its targets left emitted:
\* by a flush between the pass's begin and its target emission, by a copy
\* that ended the pass of a framebuffer whose targets stay on the channel, or
\* by the last of several discards with drawing in between.
UncutPassesReachLinear == ~lapse => LinearCurrent
=============================================================================
