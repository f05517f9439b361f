----------------------------- MODULE HalGputime -----------------------------
(***************************************************************************)
(* The opt-in GPU timing of the Vulkan HAL (hal/src/gputime.c) on one      *)
(* primary command buffer and one secondary.  The wrappers record each     *)
(* command through the driver and write timestamps around it into query    *)
(* pools owned by the command buffer; the results are read when the buffer *)
(* is begun again or freed and folded into a window.  Every command takes  *)
(* one tick of the GPU here, so a region's charge counts the commands it   *)
(* was charged for.                                                        *)
(***************************************************************************)
EXTENDS Integers, Sequences, FiniteSets, SequencesExt, TLC

CONSTANTS PoolSize,   \* GT_QP_SIZE: queries of one pool
          MaxPools,   \* GT_MAXPOOLS
          Headroom,   \* the 64 queries asked for beyond those of a recording
          MaxTab,     \* GT_TAB * 3 / 4: keys one window can hold
          Pipes,      \* pipelines of the application
          MaxCmds,    \* bound on the commands of a recording
          MaxRecordings,
          MaxClock    \* bound on the clock before a recording runs again

NoQ == -1             \* GT_NOQ

VARIABLES level,      \* debug.nvhal.gputime: 1 or 2
          c,          \* struct nvhal_gt_cb of the primary
          sec,        \* that of the secondary: first pipeline, draws
          rec,        \* c->rec: the regions of the current recording
          stream,     \* what the driver recorded into the command buffer
          app,        \* the application's side of the command buffer
          query,      \* the query pools as the GPU has them
          clock,
          win,        \* the window of struct nvhal_gt_dev
          charges,    \* the charges of the last harvest
          total,      \* charges made, reported and dropped in closed windows
          begun       \* recordings so far
vars == <<level, c, sec, rec, stream, app, query, clock, win, charges, total,
          begun>>

Empty == [tab |-> <<>>, dropped |-> 0, frames |-> 0, cbs |-> 0, overflows |-> 0]

Init ==
    /\ level \in {1, 2}
    /\ c = [active |-> FALSE, in_rp |-> FALSE, rp_secondary |-> FALSE,
            submitted |-> FALSE, nq |-> 0, last_q |-> NoQ, npools |-> 0,
            want_q |-> PoolSize, overflow |-> FALSE, rp_rec |-> 0, gfx |-> 0]
    /\ sec = [draws |-> 0, first |-> 0, work |-> 0]
    /\ rec = <<>> /\ stream = <<>>
    /\ app = [state |-> "initial", pass |-> "out", ran |-> FALSE]
    /\ query = [q \in 0..(PoolSize * MaxPools - 1) |-> NoQ]
    /\ clock = 0
    /\ win = Empty
    /\ charges = <<>>
    /\ total = [made |-> 0, told |-> 0]
    /\ begun = 0

Recording == app.state = "recording" /\ Len(stream) < MaxCmds

----------------------------------------------------------------------------
(* Timestamps and records.  A recording under construction is              *)
(* [c, rec, stream]; the operators below transform it.                      *)

\* Some commands the driver records, each one tick of work.
Worked(b, n) == [b EXCEPT !.stream = @ \o [i \in 1..n |-> <<"work", 0>>]]
WorkIn(st) == Len(SelectSeq(st, LAMBDA x : x[1] = "work"))

\* ts: the timestamp gets the next query, or none once the pools are full.
Stamped(b) ==
    IF ~b.c.active THEN b
    ELSE IF b.c.nq >= b.c.npools * PoolSize THEN [b EXCEPT !.c.overflow = TRUE]
    ELSE [b EXCEPT !.c.nq = @ + 1, !.c.last_q = b.c.nq,
                   !.stream = Append(@, <<"ts", b.c.nq>>)]
Fresh(b, b2) == IF b2.c.nq = b.c.nq THEN NoQ ELSE b.c.nq

\* push: the record of a region; out of host memory there is none.
Record(qs, qe, kind, key, from) ==
    [qs |-> qs, qe |-> qe, kind |-> kind, key |-> key, draws |-> 0,
     from |-> from, to |-> from]
Pushed(b, r, oom) == IF oom THEN b ELSE [b EXCEPT !.rec = Append(@, r)]

\* region: a command outside any render pass ends a region.  The work it
\* should be charged for is the last command of the stream.
Region(b, kind, key, oom) ==
    LET b2 == Stamped(b)
        q == Fresh(b, b2)
    IN  IF ~b.c.active \/ b.c.in_rp THEN b
        ELSE IF q = NoQ THEN b2
        ELSE Pushed(b2, [Record(b.c.last_q, q, kind, key, WorkIn(b.stream) - 1)
                         EXCEPT !.to = WorkIn(b.stream)], oom)

\* rp_pre and rp_begin, around the driver's begin.
RpBegin(b, secondary, oom) ==
    LET b2 == IF b.c.in_rp THEN b ELSE Stamped(b)
        q == Fresh(b, b2)
    IN  IF ~b.c.active \/ q = NoQ \/ oom THEN b2
        ELSE [Pushed(b2, Record(q, NoQ, "rp", 0, WorkIn(b.stream)), FALSE)
              EXCEPT !.c.rp_rec = Len(b.rec) + 1, !.c.in_rp = TRUE,
                     !.c.rp_secondary = secondary]

\* rp_end
RpEnd(b) ==
    LET b1 == [b EXCEPT !.c.in_rp = FALSE]
        b2 == Stamped(b1)
    IN  IF ~b.c.active \/ ~b.c.in_rp THEN b
        ELSE [b2 EXCEPT !.rec[b.c.rp_rec].qe = Fresh(b1, b2),
                        !.rec[b.c.rp_rec].to = WorkIn(b.stream)]

\* The render pass takes the pipeline of its first draw for its name.
Drawn(r, n, pipe) == [r EXCEPT !.draws = @ + n, !.key = IF @ = 0 THEN pipe ELSE @]

\* after_draw on the primary
AfterDraw(b, kind, oom) ==
    LET pipe == IF kind = "draw" THEN b.c.gfx ELSE 0
        b1 == [b EXCEPT !.rec[b.c.rp_rec] = Drawn(@, 1, pipe)]
        b2 == Stamped(b1)
        q == Fresh(b1, b2)
    IN  IF ~b.c.in_rp THEN b
        ELSE IF level < 2 \/ b.c.rp_secondary THEN b1
        ELSE IF q = NoQ THEN b2
        ELSE Pushed(b2, [Record(b1.c.last_q, q, kind, pipe, WorkIn(b.stream) - 1)
                         EXCEPT !.to = WorkIn(b.stream)], oom)

\* CmdExecuteCommands inside a pass: the secondary's draws are the pass's.
Executed(b) ==
    [b EXCEPT !.rec[b.c.rp_rec] = Drawn(@, sec.draws, sec.first)]

Buffer == [c |-> c, rec |-> rec, stream |-> stream]
Becomes(b) ==
    /\ c' = b.c /\ rec' = b.rec /\ stream' = b.stream
    /\ UNCHANGED <<level, query, clock, win, charges, total, begun>>

----------------------------------------------------------------------------
(* The window                                                              *)

StatAddMutSilent(w, r, ns) ==
    LET key == <<r.kind, r.key>>
        old == IF key \in DOMAIN w.tab THEN w.tab[key]
               ELSE [ns |-> 0, n |-> 0, max_ns |-> 0, draws |-> 0]
    IN  IF key \notin DOMAIN w.tab /\ Cardinality(DOMAIN w.tab) >= MaxTab THEN w
        ELSE [w EXCEPT !.tab = (key :> [old EXCEPT !.ns = @ + ns, !.n = @ + 1]) @@ @]

\* stat_add: one slot per key; a new key finds no slot in a full table.
StatAdd(w, r, ns) ==
    LET key == <<r.kind, r.key>>
        old == IF key \in DOMAIN w.tab THEN w.tab[key]
               ELSE [ns |-> 0, n |-> 0, max_ns |-> 0, draws |-> 0]
        new == [ns |-> old.ns + ns, n |-> old.n + 1,
                max_ns |-> IF ns > old.max_ns THEN ns ELSE old.max_ns,
                draws |-> old.draws + r.draws]
    IN  IF key \notin DOMAIN w.tab /\ Cardinality(DOMAIN w.tab) >= MaxTab
        THEN [w EXCEPT !.dropped = @ + 1]
        ELSE [w EXCEPT !.tab = (key :> new) @@ @]

\* harvest: the records both of whose timestamps are available.
Available(q) == q # NoQ /\ q < c.nq /\ query[q] # NoQ
Readable(r) == Available(r.qs) /\ Available(r.qe) /\ query[r.qe] >= query[r.qs]
Charge(r) == [rec |-> r, ns |-> query[r.qe] - query[r.qs], ran |-> app.ran]
Harvested ==
    IF ~c.submitted \/ c.nq = 0 \/ rec = <<>> THEN <<>>
    ELSE LET keep == SelectSeq(rec, Readable)
         IN  [i \in 1..Len(keep) |-> Charge(keep[i])]
Folded(w, cs) ==
    FoldLeft(LAMBDA a, x : StatAdd(a, x.rec, x.ns), [w EXCEPT !.cbs = @ + 1], cs)

\* The charges a window tells of: those in its table and those it dropped.
Told(w) == w.dropped + FoldFunction(LAMBDA s, a : s.n + a, 0, w.tab)

\* harvest, and the report it makes when the window is over.
Harvest(due) ==
    LET cs == Harvested
        read == c.submitted /\ c.nq > 0 /\ rec # <<>>
        w == IF read THEN Folded(win, cs) ELSE win
        report == read /\ due /\ w.frames > 0
    IN  /\ charges' = cs
        /\ win' = IF report THEN Empty ELSE w
        /\ total' = [made |-> total.made + Len(cs),
                     told |-> IF report THEN total.told + Told(w) ELSE total.told]

----------------------------------------------------------------------------
(* The wrapped commands                                                    *)

\* The pools a recording is given: those it wanted, as far as they can be
\* created.
Pooled(made) ==
    LET want == (c.want_q + PoolSize - 1) \div PoolSize
        cap == IF want > MaxPools THEN MaxPools ELSE want
    IN  IF c.npools + made > cap THEN (IF c.npools > cap THEN c.npools ELSE cap)
        ELSE c.npools + made

Resets(n) == [i \in 1..n |-> <<"reset", i - 1>>]

BeginCommandBuffer(due, made) ==
    /\ app.state \in {"initial", "done", "ready"} /\ begun < MaxRecordings
    /\ Harvest(due)
    /\ LET n == Pooled(made)
           c1 == [c EXCEPT !.nq = 0, !.submitted = FALSE, !.in_rp = FALSE,
                           !.rp_secondary = FALSE, !.overflow = FALSE,
                           !.gfx = 0, !.last_q = NoQ, !.npools = n,
                           !.active = n > 0]
           b == Stamped([c |-> c1, rec |-> <<>>,
                         stream |-> IF n > 0 THEN Resets(n) ELSE <<>>])
       IN  c' = b.c /\ rec' = b.rec /\ stream' = b.stream
    /\ app' = [state |-> "recording", pass |-> "out", ran |-> FALSE]
    /\ begun' = begun + 1
    /\ UNCHANGED <<level, sec, query, clock>>

EndCommandBuffer ==
    /\ app.state = "recording" /\ app.pass = "out"
    /\ c' = IF ~c.active THEN c
            ELSE IF c.overflow THEN [c EXCEPT !.want_q = c.npools * PoolSize * 2]
            ELSE IF c.nq + Headroom > c.want_q
                 THEN [c EXCEPT !.want_q = c.nq + Headroom]
            ELSE c
    /\ win' = IF c.active /\ c.overflow THEN [win EXCEPT !.overflows = @ + 1]
              ELSE win
    /\ app' = [app EXCEPT !.state = "ready"]
    /\ UNCHANGED <<level, sec, rec, stream, query, clock, charges, total, begun>>

\* gt_QueueSubmit marks the recording before the driver is asked.
QueueSubmit(fails) ==
    /\ app.state = "ready" \/ (app.state = "done" /\ clock < MaxClock)
    /\ c' = [c EXCEPT !.submitted = TRUE]
    /\ app' = IF fails THEN app ELSE [app EXCEPT !.state = "pending"]
    /\ UNCHANGED <<level, sec, rec, stream, query, clock, win, charges, total,
                   begun>>

\* The GPU runs a recording: each command takes a tick, a timestamp stores
\* the clock into its query.
RunItem(g, x) ==
    CASE x[1] = "work" -> [g EXCEPT !.clock = @ + 1]
      [] x[1] = "reset" -> [g EXCEPT !.query = [q \in DOMAIN @ |->
                               IF q \div PoolSize = x[2] THEN NoQ ELSE @[q]]]
      [] OTHER -> [g EXCEPT !.query[x[2]] = g.clock,
                            !.rewritten = @ \/ g.query[x[2]] # NoQ]
Ran == FoldLeft(RunItem, [query |-> query, clock |-> clock, rewritten |-> FALSE],
                stream)
Execute ==
    /\ app.state = "pending"
    /\ query' = Ran.query /\ clock' = Ran.clock
    /\ app' = [app EXCEPT !.state = "done", !.ran = TRUE]
    /\ UNCHANGED <<level, c, sec, rec, stream, win, charges, total, begun>>

CmdBindPipeline(p) ==
    /\ Recording /\ c.gfx # p
    /\ c' = [c EXCEPT !.gfx = p]
    /\ UNCHANGED <<level, sec, rec, stream, app, query, clock, win, charges,
                   total, begun>>

\* The dispatches and the transfers.
CmdRegion(oom) ==
    /\ Recording /\ app.pass = "out"
    /\ Becomes(Region(Worked(Buffer, 1), "command", 0, oom))
    /\ UNCHANGED <<sec, app>>

CmdBeginRendering(secondary, oom) ==
    /\ Recording /\ app.pass = "out"
    /\ Becomes(RpBegin(Buffer, secondary, oom))
    /\ app' = [app EXCEPT !.pass = IF secondary THEN "secondary" ELSE "inline"]
    /\ UNCHANGED sec

CmdEndRendering ==
    /\ app.state = "recording" /\ app.pass # "out"
    /\ Becomes(RpEnd(Buffer))
    /\ app' = [app EXCEPT !.pass = "out"]
    /\ UNCHANGED sec

CmdDraw(kind, oom) ==
    /\ Recording /\ app.pass = "inline" /\ c.gfx # 0
    /\ Becomes(AfterDraw(Worked(Buffer, 1), kind, oom))
    /\ UNCHANGED <<sec, app>>

CmdExecuteCommands(oom) ==
    /\ Recording /\ app.pass # "inline" /\ sec.work > 0
    /\ LET b == Worked(Buffer, sec.work)
       IN  Becomes(IF ~c.active THEN b
                   ELSE IF c.in_rp THEN Executed(b)
                   ELSE Region(b, "exec", 0, oom))
    /\ UNCHANGED <<sec, app>>

\* after_draw on the secondary, which has no pools of its own.
SecondaryDraw(p) ==
    /\ app.state = "initial" /\ sec.draws < 1
    /\ sec' = [draws |-> sec.draws + 1, work |-> sec.work + 1,
               first |-> IF sec.first = 0 THEN p ELSE sec.first]
    /\ UNCHANGED <<level, c, rec, stream, app, query, clock, win, charges,
                   total, begun>>

\* nvhal_gt_frame, at vkQueueSignalReleaseImageANDROID
Frame ==
    /\ win.frames = 0
    /\ win' = [win EXCEPT !.frames = 1]
    /\ UNCHANGED <<level, c, sec, rec, stream, app, query, clock, charges,
                   total, begun>>

\* vkFreeCommandBuffers: nvhal_gt_cb_free reads the results and drops the
\* pools.
CbFree(due) ==
    /\ app.state \in {"done", "ready"}
    /\ Harvest(due)
    /\ c' = [c EXCEPT !.active = FALSE, !.submitted = FALSE, !.nq = 0,
                      !.npools = 0]
    /\ rec' = <<>> /\ stream' = <<>>
    /\ query' = [q \in DOMAIN query |-> NoQ]
    /\ app' = [app EXCEPT !.state = "freed"]
    /\ UNCHANGED <<level, sec, clock, begun>>

Next ==
    \/ \E due \in BOOLEAN, made \in 0..MaxPools : BeginCommandBuffer(due, made)
    \/ EndCommandBuffer
    \/ \E fails \in BOOLEAN : QueueSubmit(fails)
    \/ Execute
    \/ \E p \in Pipes : CmdBindPipeline(p) \/ SecondaryDraw(p)
    \/ \E oom \in BOOLEAN : CmdRegion(oom)
    \/ \E s, oom \in BOOLEAN : CmdBeginRendering(s, oom)
    \/ CmdEndRendering
    \/ \E kind \in {"draw", "clear"}, oom \in BOOLEAN : CmdDraw(kind, oom)
    \/ \E oom \in BOOLEAN : CmdExecuteCommands(oom)
    \/ Frame
    \/ \E due \in BOOLEAN : CbFree(due)

Spec == Init /\ [][Next]_vars

----------------------------------------------------------------------------
(* GPU busy time of a window: the union of the command buffers' intervals  *)
(* [a, b], walked in the order of their starts.                            *)

MergeStep(m, x) ==
    IF x.a > m.b THEN [busy |-> m.busy + (m.b - m.a), a |-> x.a, b |-> x.b]
    ELSE IF x.b > m.b THEN [m EXCEPT !.b = x.b]
    ELSE m
Busy(iv) ==
    LET s == SortSeq(iv, LAMBDA x, y : x.a < y.a)
        m == FoldLeft(MergeStep, [busy |-> 0, a |-> s[1].a, b |-> s[1].b], Tail(s))
    IN  IF iv = <<>> THEN 0 ELSE m.busy + (m.b - m.a)

----------------------------------------------------------------------------
(* Properties                                                              *)

Sum(cs) == FoldLeft(LAMBDA s, x : s + x.ns, 0, cs)
Nested(x) == x.rec.kind \in {"draw", "clear"}

\* What a harvest charges (stat_add in harvest) is the time of the command:
\* a region's charge contains its own commands, a render pass or a timed
\* draw is charged for exactly its own, the charges of commands outside
\* passes and of passes never count a tick twice, and the draws of the passes
\* sum to no more than the passes.  Out of queries or of memory a command
\* goes uncharged and is not charged to another pass or draw.
ChargesExact ==
    (\A i \in DOMAIN charges : charges[i].ran) =>
    LET top == SelectSeq(charges, LAMBDA x : ~Nested(x))
        draws == SelectSeq(charges, Nested)
        passes == SelectSeq(charges, LAMBDA x : x.rec.kind = "rp")
    IN  /\ \A i \in DOMAIN charges :
             LET own == charges[i].rec.to - charges[i].rec.from
             IN  IF charges[i].rec.kind = "rp" \/ Nested(charges[i])
                 THEN charges[i].ns = own ELSE charges[i].ns >= own
        /\ \A i, j \in DOMAIN top : i < j => top[i].rec.qe <= top[j].rec.qs
        /\ \A i \in DOMAIN passes : passes[i].rec.draws <= passes[i].ns

\* No query is written twice without a reset between (the reset at the start
\* of a recording covers every pool a timestamp may reach), and no timestamp
\* is written beyond the pools the command buffer has.
QueriesReset ==
    /\ c.nq <= c.npools * PoolSize
    /\ app.state = "pending" => ~Ran.rewritten

\* Every charge is told of once: in the report of a closed window, in the
\* table of the open one, or counted as dropped by one of the two.
ChargesTold == total.made = total.told + Told(win)

\* report's busy time is the number of ticks inside some interval, for every
\* list of up to three intervals, in whatever order they were harvested.
Intervals == {x \in [a : 0..3, b : 1..4] : x.a < x.b}
BusyExact ==
    \A n \in 0..3 : \A iv \in [1..n -> Intervals] :
        Busy(iv) = Cardinality({t \in 0..3 : \E i \in 1..n :
                                    iv[i].a <= t /\ t < iv[i].b})
============================================================================
