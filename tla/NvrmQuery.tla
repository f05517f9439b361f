------------------------------ MODULE NvrmQuery ------------------------------
(***************************************************************************)
(* Occlusion queries and transform feedback of the nvrm gallium driver     *)
(* (nvrm_query.c) on the channel all contexts share.                       *)
(*                                                                         *)
(* The pixel counter, its enable and the stream-output write pointer are   *)
(* channel state.  A query's result is the difference of two reports; a    *)
(* flush pauses stream output into the target's counter and a later draw   *)
(* resumes from it.  A draw passes one sample and captures one element.    *)
(* The channel runs batches whole, in submission order.                    *)
(***************************************************************************)
EXTENDS Integers, Sequences, SequencesExt

CONSTANTS Contexts,
          MaxDraws,   \* bound: draws, all contexts together
          MaxCalls    \* bound: query, stream-output and flush calls

Append0 == -1          \* UINT32_MAX in ctx->so_load: append at the counter
None == "none"

VARIABLES query,    \* the context's query: "idle", "active" (begun), "ended" or "read"
          qseq,     \* the query's flush_seq
          got,      \* the result get_query_result returned
          enabled,  \* ctx->queries_enabled
          dirtySo,  \* NVRM_DIRTY_SO
          num,      \* ctx->num_so (0 or 1: one target per context)
          active,   \* ctx->so_active
          load,     \* ctx->so_load
          written,  \* the target's counter_written
          cseq,     \* the target's flush_seq
          seq,      \* ctx->flush_seq
          batch,    \* recorded commands
          splitting, \* a flush between its inner submission and its own
          chan,     \* the channel: counters, reports, captured elements
          want,     \* what the application asked for: samples and elements
          fresh,    \* the target was restarted at 0 and nothing drawn since
          stalled,  \* contexts that paused and resumed a fresh, undrawn restart
          ndraws, calls, abort

ctxVars == <<query, qseq, got, enabled, dirtySo, num, active, load, written, cseq, seq, batch, splitting>>
vars == <<ctxVars, chan, want, fresh, stalled, ndraws, calls, abort>>

Report(c, which) == <<[op |-> "report", ctx |-> c, which |-> which]>>
Count(c, on) == <<[op |-> "count", ctx |-> c, on |-> on]>>
SoOff(c) == <<[op |-> "so_off", ctx |-> c]>>
SoOn(c, at) == <<[op |-> "so_on", ctx |-> c, at |-> at]>>
SoPauseCmd(c, n) == <<[op |-> "so_pause", ctx |-> c, n |-> n]>>
DrawCmd(c, id) == <<[op |-> "draw", ctx |-> c, id |-> id]>>

\* The channel.  mem[c] is the capture buffer of c's target; owner is whose
\* stream output was last switched on; open the contexts whose query began.
\* overlap collects the contexts whose open query saw another context draw or
\* switch the counting, foreign those whose pause reported another context's
\* write pointer.
Write(m, at, v) == [i \in 1..(IF at > Len(m) THEN at ELSE Len(m)) |->
                       IF i = at THEN v ELSE IF i <= Len(m) THEN m[i] ELSE -1]
Exec(ch, x) ==
    CASE x.op = "count" ->
            [ch EXCEPT !.counting = x.on, !.overlap = @ \cup (ch.open \ {x.ctx})]
      [] x.op = "report" ->
            [ch EXCEPT !.reports[x.ctx][x.which] = ch.samples,
                       !.open = IF x.which = "begin" THEN @ \cup {x.ctx} ELSE @ \ {x.ctx}]
      [] x.op = "so_off" -> [ch EXCEPT !.so = None]
      [] x.op = "so_on" -> [ch EXCEPT !.so = x.ctx, !.owner = x.ctx, !.ptr = x.at]
      [] x.op = "so_pause" ->
            [ch EXCEPT !.so = None,
                       !.counter = IF x.n = 1 THEN [@ EXCEPT ![x.ctx] = ch.ptr] ELSE @,
                       !.foreign = IF ch.owner # x.ctx THEN @ \cup {x.ctx} ELSE @]
      [] x.op = "draw" ->
            [ch EXCEPT !.samples = IF ch.counting THEN @ + 1 ELSE @,
                       !.ptr = IF ch.so # None THEN @ + 1 ELSE @,
                       !.mem = IF ch.so # None
                               THEN [@ EXCEPT ![ch.so] = Write(@, ch.ptr + 1, x.id)] ELSE @,
                       !.overlap = @ \cup (ch.open \ {x.ctx})]

-----------------------------------------------------------------------------
(* A call threads the context's own fields f through the driver.           *)
FieldsOf(c) == [active |-> active[c], load |-> load[c], written |-> written[c],
                cseq |-> cseq[c], seq |-> seq[c], batch |-> batch[c],
                dirtySo |-> dirtySo[c], chan |-> chan]

\* nvrm_so_pause, once its push is open.
SoPause(c, f) ==
    IF ~f.active THEN f
    ELSE [f EXCEPT !.active = FALSE, !.batch = @ \o SoPauseCmd(c, num[c]),
                   !.written = @ \/ num[c] = 1,
                   !.cseq = IF num[c] = 1 THEN f.seq ELSE @,
                   !.load = IF num[c] = 1 THEN Append0 ELSE @]

SubmitOf(c, f) ==
    [f EXCEPT !.chan = FoldLeft(Exec, @, f.batch), !.batch = <<>>, !.seq = @ + 1, !.dirtySo = TRUE]
FlushOf(c, f) == SubmitOf(c, SoPause(c, f))

Store(c, f) ==
    /\ active' = [active EXCEPT ![c] = f.active] /\ load' = [load EXCEPT ![c] = f.load]
    /\ written' = [written EXCEPT ![c] = f.written] /\ cseq' = [cseq EXCEPT ![c] = f.cseq]
    /\ seq' = [seq EXCEPT ![c] = f.seq] /\ batch' = [batch EXCEPT ![c] = f.batch]
    /\ dirtySo' = [dirtySo EXCEPT ![c] = f.dirtySo]
    /\ chan' = f.chan

Call(c) == calls < MaxCalls /\ calls' = calls + 1 /\ ~splitting[c]

-----------------------------------------------------------------------------
\* nvrm_begin_query, nvrm_end_query, nvrm_set_active_query_state
BeginQuery(c) ==
    /\ Call(c) /\ query[c] = "idle"
    /\ query' = [query EXCEPT ![c] = "active"]
    /\ Store(c, [FieldsOf(c) EXCEPT !.batch = @ \o Count(c, enabled[c]) \o Report(c, "begin")])
    /\ UNCHANGED <<qseq, got, enabled, num, splitting, want, fresh, stalled, ndraws, abort>>

EndQuery(c) ==
    /\ Call(c) /\ query[c] = "active"
    /\ query' = [query EXCEPT ![c] = "ended"] /\ qseq' = [qseq EXCEPT ![c] = seq[c]]
    /\ Store(c, [FieldsOf(c) EXCEPT !.batch = @ \o Count(c, FALSE) \o Report(c, "end")])
    /\ UNCHANGED <<got, enabled, num, splitting, want, fresh, stalled, ndraws, abort>>

GetQueryResultMut(c) ==
    /\ Call(c) /\ query[c] = "ended"
    /\ query' = [query EXCEPT ![c] = "read"]
    /\ Store(c, FieldsOf(c))
    /\ got' = [got EXCEPT ![c] = chan.reports[c].end - chan.reports[c].begin]
    /\ UNCHANGED <<qseq, enabled, num, splitting, want, fresh, stalled, ndraws, abort>>

\* nvrm_get_query_result: flushes an end report that is still recorded.
GetQueryResult(c) ==
    /\ Call(c) /\ query[c] = "ended"
    /\ query' = [query EXCEPT ![c] = "read"]
    /\ LET f == IF qseq[c] = seq[c] THEN FlushOf(c, FieldsOf(c)) ELSE FieldsOf(c)
       IN /\ Store(c, f)
          /\ got' = [got EXCEPT ![c] = f.chan.reports[c].end - f.chan.reports[c].begin]
    /\ UNCHANGED <<qseq, enabled, num, splitting, want, fresh, stalled, ndraws, abort>>

SetActiveQueryState(c) ==
    /\ Call(c)
    /\ enabled' = [enabled EXCEPT ![c] = ~@]
    /\ Store(c, [FieldsOf(c) EXCEPT
                    !.batch = IF query[c] = "active" THEN @ \o Count(c, ~enabled[c]) ELSE @])
    /\ UNCHANGED <<query, qseq, got, num, splitting, want, fresh, stalled, ndraws, abort>>

\* nvrm_set_stream_output_targets: none, a fresh start, or an append.
SetStreamOutputTargets(c, n, at) ==
    /\ Call(c)
    /\ at = Append0 => written[c] \/ active[c]
    /\ Store(c, [SoPause(c, FieldsOf(c)) EXCEPT !.load = IF n = 0 THEN 0 ELSE at, !.dirtySo = TRUE])
    /\ num' = [num EXCEPT ![c] = n]
    /\ want' = IF n = 1 /\ at = 0 THEN [want EXCEPT ![c].elements = <<>>] ELSE want
    /\ fresh' = IF n = 1 /\ at = 0 THEN [fresh EXCEPT ![c] = TRUE] ELSE fresh
    /\ stalled' = IF n = 1 /\ at = Append0 /\ fresh[c] THEN stalled \cup {c} ELSE stalled
    /\ UNCHANGED <<query, qseq, got, enabled, splitting, ndraws, abort>>

\* nvrm_so_prepare: an append offset is read from the counter, after the
\* flush that runs the pause which wrote it.
SoPrepare(c, f) ==
    IF num[c] = 0 \/ f.load # Append0 THEN f
    ELSE LET g == IF f.written /\ f.cseq = f.seq THEN FlushOf(c, f) ELSE f
         IN [g EXCEPT !.load = IF g.written THEN g.chan.counter[c] ELSE 0]

\* nvrm_emit_so
EmitSo(c, f) ==
    IF ~f.dirtySo THEN f
    ELSE IF num[c] = 0 THEN [f EXCEPT !.batch = @ \o SoOff(c), !.dirtySo = FALSE]
    ELSE LET at == IF f.load = Append0 THEN f.chan.counter[c] ELSE f.load
         IN [f EXCEPT !.batch = @ \o SoOn(c, at), !.load = at, !.active = TRUE, !.dirtySo = FALSE]

\* nvrm_draw_vbo; full: its push_begin flushes.  emit_so aborts when the
\* counter it needs is still in the open batch.
Draw(c, full) ==
    /\ ndraws < MaxDraws /\ ~splitting[c]
    /\ ndraws' = ndraws + 1
    /\ LET f == SoPrepare(c, FieldsOf(c))
           g == IF full THEN FlushOf(c, f) ELSE f
           h == EmitSo(c, g)
       IN /\ abort' = (abort \/ (g.dirtySo /\ num[c] = 1 /\ g.load = Append0 /\ g.cseq = g.seq))
          /\ Store(c, [h EXCEPT !.batch = @ \o DrawCmd(c, ndraws)])
    /\ want' = [want EXCEPT
            ![c].samples = IF query[c] = "active" /\ enabled[c] THEN @ + 1 ELSE @,
            ![c].elements = IF num[c] = 1 THEN Append(@, ndraws) ELSE @]
    /\ fresh' = IF num[c] = 1 THEN [fresh EXCEPT ![c] = FALSE] ELSE fresh
    /\ UNCHANGED <<query, qseq, got, enabled, num, splitting, stalled, calls>>

Flush(c) ==
    /\ Call(c)
    /\ Store(c, FlushOf(c, FieldsOf(c)))
    /\ UNCHANGED <<query, qseq, got, enabled, num, splitting, want, fresh, stalled, ndraws, abort>>

\* nvrm_flush whose so_pause finds the batch full: the pause's push_begin
\* flushes what is there, and the pause itself is submitted next.
FlushSplit(c) ==
    /\ Call(c) /\ active[c]
    /\ Store(c, SoPause(c, [SubmitOf(c, [FieldsOf(c) EXCEPT !.active = FALSE]) EXCEPT !.active = TRUE]))
    /\ splitting' = [splitting EXCEPT ![c] = TRUE]
    /\ UNCHANGED <<query, qseq, got, enabled, num, want, fresh, stalled, ndraws, abort>>
FlushRest(c) ==
    /\ splitting[c]
    /\ Store(c, SubmitOf(c, FieldsOf(c)))
    /\ splitting' = [splitting EXCEPT ![c] = FALSE]
    /\ UNCHANGED <<query, qseq, got, enabled, num, want, fresh, stalled, ndraws, calls, abort>>

Init ==
    /\ query = [c \in Contexts |-> "idle"] /\ qseq = [c \in Contexts |-> 0]
    /\ got = [c \in Contexts |-> 0] /\ enabled = [c \in Contexts |-> TRUE]
    /\ dirtySo = [c \in Contexts |-> TRUE] /\ num = [c \in Contexts |-> 0]
    /\ active = [c \in Contexts |-> FALSE] /\ load = [c \in Contexts |-> 0]
    /\ written = [c \in Contexts |-> FALSE] /\ cseq = [c \in Contexts |-> 0]
    /\ seq = [c \in Contexts |-> 0] /\ batch = [c \in Contexts |-> <<>>]
    /\ splitting = [c \in Contexts |-> FALSE]
    /\ chan = [counting |-> FALSE, samples |-> 0, so |-> None, owner |-> None, ptr |-> 0,
               open |-> {}, overlap |-> {}, foreign |-> {},
               counter |-> [c \in Contexts |-> 0], mem |-> [c \in Contexts |-> <<>>],
               reports |-> [c \in Contexts |-> [begin |-> 0, end |-> 0]]]
    /\ want = [c \in Contexts |-> [samples |-> 0, elements |-> <<>>]]
    /\ fresh = [c \in Contexts |-> FALSE] /\ stalled = {} /\ ndraws = 0 /\ calls = 0 /\ abort = FALSE

Next == \E c \in Contexts :
    \/ BeginQuery(c) \/ EndQuery(c) \/ GetQueryResult(c) \/ SetActiveQueryState(c)
    \/ \E n \in {0, 1}, at \in {0, Append0} : SetStreamOutputTargets(c, n, at)
    \/ \E full \in BOOLEAN : Draw(c, full)
    \/ Flush(c) \/ FlushSplit(c) \/ FlushRest(c)

Spec == Init /\ [][Next]_vars

-----------------------------------------------------------------------------
\* get_query_result returns exactly the samples the context's own draws passed
\* while its query was active and not paused by the blitter, however many
\* flushes fell inside it - unless another context's batch ran inside it: the
\* pixel counter and its enable belong to the shared channel.
QueryExact ==
    \A c \in Contexts \ chan.overlap : query[c] = "read" => got[c] = want[c].samples

\* The same without the exception, which two contexts can break.
QueryOwn == \A c \in Contexts : query[c] = "read" => got[c] = want[c].samples

\* Stream output captures every element of the context's own draws, once, in
\* order and without a gap, across flushes, pauses, appends and other
\* contexts' batches, and resuming never finds its counter unsubmitted -
\* unless a full batch put the pause into a batch of its own and another
\* context's stream output ran in between, or a restarted target was resumed
\* before it was drawn to: so_prepare then reads the counter of the time
\* before the restart.
CaptureExact ==
    /\ ~abort
    /\ \A c \in Contexts \ (chan.foreign \cup stalled) : batch[c] = <<>> =>
           /\ Len(chan.mem[c]) >= Len(want[c].elements)
           /\ \A i \in DOMAIN want[c].elements : chan.mem[c][i] = want[c].elements[i]
=============================================================================
