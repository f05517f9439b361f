------------------------------- MODULE NvkmdCtx -------------------------------
(***************************************************************************)
(* A submission context of the NVK kernel-mode layer (nvkmd_rm.c): pushes  *)
(* collect in ctx->pending and borrowed waits in ctx->waits until a flush  *)
(* hands them to the RM backend in chunks the backend can take, never      *)
(* splitting a push continuation.  Every submission may fail; the caller   *)
(* then keeps the unaccepted suffix.                                       *)
(***************************************************************************)
EXTENDS Integers, Sequences, SequencesExt, FiniteSets

CONSTANTS ChunkMax,   \* 1000 entries of one nv_rm_submit_batch
          Syncs,      \* sync payloads
          MaxPushes, MaxCalls   \* bounds

VARIABLES pending,   \* ctx->pending: <<[id, incomplete]>>
          waits,     \* ctx->waits
          accepted,  \* the backend's batches: <<[pushes, waits, signals]>>
          recorded,  \* every push rm_ctx_exec recorded, in order
          before,    \* push id -> the syncs waited for before it was recorded
          issued,    \* syncs rm_ctx_wait accepted so far
          signalled, \* <<sync, number of pushes recorded>> of each successful signal call
          calls

vars == <<pending, waits, accepted, recorded, before, issued, signalled, calls>>

Call == calls < MaxCalls /\ calls' = calls + 1

\* The length of the next chunk: at most ChunkMax, shortened until it does not
\* end inside a continuation; 0 if nothing is left.
ChunkLen(ps) ==
    LET fits == {n \in 1..(IF Len(ps) < ChunkMax THEN Len(ps) ELSE ChunkMax) : ~ps[n].incomplete}
    IN IF fits = {} THEN 0 ELSE CHOOSE n \in fits : \A m \in fits : m <= n

\* Every continuation boundary is validated before any work is accepted.
Chunks[ps \in Seq([id : Nat, incomplete : BOOLEAN])] ==
    IF ps = <<>> \/ ChunkLen(ps) = 0 THEN <<>>
    ELSE <<ChunkLen(ps)>> \o Chunks[SubSeq(ps, ChunkLen(ps) + 1, Len(ps))]
SumTo(ls, n) == FoldLeft(+, 0, SubSeq(ls, 1, n))
Valid(ps) == SumTo(Chunks[ps], Len(Chunks[ps])) = Len(ps)

\* One accepted chunk: the first carries the waits, the last the signals.
Batch(ps, ls, i, ws, signals) ==
    [pushes |-> SubSeq(ps, SumTo(ls, i - 1) + 1, SumTo(ls, i)),
     waits |-> IF i = 1 THEN ws ELSE {},
     signals |-> IF i = Len(ls) THEN signals ELSE {}]

\* rm_ctx_flush_signals: its possible outcomes, by the number n of submissions
\* accepted before one failed.  Ring pressure (VK_NOT_READY) is waited out
\* inside rm_ctx_submit and shows only as a failed wait.
Outcome(ls, n, signals) ==
    [accepted |-> accepted \o [i \in 1..n |-> Batch(pending, ls, i, waits, signals)],
     pending |-> SubSeq(pending, SumTo(ls, n) + 1, Len(pending)),
     waits |-> IF n > 0 THEN {} ELSE waits,
     ok |-> n = Len(ls)]
FlushSignals(signals) ==
    IF pending = <<>>
    THEN LET ls == IF signals = {} /\ waits = {} THEN <<>> ELSE <<0>>
         IN {Outcome(ls, n, signals) : n \in 0..Len(ls)}
    ELSE IF Valid(pending)
    THEN {Outcome(Chunks[pending], n, signals) : n \in 0..Len(Chunks[pending])}
    ELSE {[Outcome(<<>>, 0, signals) EXCEPT !.ok = FALSE]}

Keep(o) == accepted' = o.accepted /\ pending' = o.pending /\ waits' = o.waits

\* rm_ctx_exec
Exec(incomplete) ==
    /\ Len(recorded) < MaxPushes
    /\ LET p == [id |-> Len(recorded) + 1, incomplete |-> incomplete] IN
       /\ pending' = Append(pending, p) /\ recorded' = Append(recorded, p)
       /\ before' = Append(before, issued)
    /\ UNCHANGED <<waits, accepted, issued, signalled, calls>>

\* rm_ctx_wait: earlier work is flushed first, so the wait gates only later
\* pushes; a failed flush leaves the wait unrecorded.
Wait(s) ==
    /\ Call
    /\ IF pending = <<>>
       THEN waits' = waits \cup {s} /\ issued' = issued \cup {s} /\ UNCHANGED <<pending, accepted>>
       ELSE \E o \in FlushSignals({}) :
                /\ Keep([o EXCEPT !.waits = IF o.ok THEN @ \cup {s} ELSE @])
                /\ issued' = IF o.ok THEN issued \cup {s} ELSE issued
    /\ UNCHANGED <<recorded, before, signalled>>

\* rm_ctx_signal
Signal(s) ==
    /\ Call
    /\ \E o \in FlushSignals({s}) :
           /\ Keep(o)
           /\ signalled' = IF o.ok THEN signalled \cup {<<s, Len(recorded)>>} ELSE signalled
    /\ UNCHANGED <<recorded, before, issued>>

\* rm_ctx_flush, and rm_ctx_sync and rm_ctx_bind, which begin with it
Flush ==
    /\ Call
    /\ \E o \in FlushSignals({}) : Keep(o)
    /\ UNCHANGED <<recorded, before, issued, signalled>>

Init ==
    /\ pending = <<>> /\ waits = {} /\ accepted = <<>> /\ recorded = <<>> /\ before = <<>>
    /\ issued = {} /\ signalled = {} /\ calls = 0

Next ==
    \/ \E incomplete \in BOOLEAN : Exec(incomplete)
    \/ \E s \in Syncs : Wait(s) \/ Signal(s)
    \/ Flush

Spec == Init /\ [][Next]_vars

-----------------------------------------------------------------------------
AcceptedPushes(n) == FlattenSeq([i \in 1..n |-> accepted[i].pushes])

\* Whatever submissions failed and were retried, the backend's batches followed
\* by what is still pending are exactly the recorded pushes: none replayed,
\* lost or reordered; and no batch is too large or ends inside a continuation.
NeverReplayed ==
    /\ AcceptedPushes(Len(accepted)) \o pending = recorded
    /\ \A i \in DOMAIN accepted :
           LET ps == accepted[i].pushes IN
           /\ Len(ps) <= ChunkMax
           /\ ps # <<>> => ~ps[Len(ps)].incomplete

\* A push runs only behind every wait recorded before it, and a signal only
\* behind every push recorded before it, although chunks are submitted one by
\* one and each may fail.
GatesHold ==
    /\ \A i \in DOMAIN accepted : \A j \in DOMAIN accepted[i].pushes :
           before[accepted[i].pushes[j].id] \subseteq UNION {accepted[h].waits : h \in 1..i}
    /\ \A x \in signalled : \E i \in DOMAIN accepted :
           x[1] \in accepted[i].signals /\ Len(AcceptedPushes(i)) >= x[2]
=============================================================================
