------------------------------- MODULE Ledger ------------------------------
(***************************************************************************)
(* One hardware queue (gpu.rs Queue, SubmissionLedger, QueueShared): the   *)
(* GPFIFO ring of QUEUE_ENTRIES entries, the equally long array of         *)
(* per-batch tail slots that hold the commands the driver itself writes,   *)
(* the ledger of unretired batches, and the GPU that consumes the ring.    *)
(*                                                                         *)
(* A batch is given by its shape: the kinds of the entries Queue::submit   *)
(* writes for it, in order.  "prefix" (the acquires) and "tail" (signals,  *)
(* public completion, private retirement) are fetched from the batch's     *)
(* tail slot, "overflow" from a segment the ledger keeps until the batch   *)
(* retires, "push" from the caller's memory.  A shape ends with its tail.  *)
(*                                                                         *)
(* MaxToken stands for u64::MAX and Epoch for 2^32.                        *)
(***************************************************************************)
EXTENDS Sem32, Sequences

CONSTANTS QUEUE_ENTRIES, Shapes, Native64, MaxToken

Kinds == {"push", "prefix", "overflow", "tail"}

ASSUME LedgerAssumption ==
    /\ QUEUE_ENTRIES \in Nat /\ QUEUE_ENTRIES >= 2
    /\ Native64 \in BOOLEAN
    /\ MaxToken \in Nat
    /\ \A s \in Shapes : /\ s \in Seq(Kinds)
                         /\ Len(s) \in 1..(QUEUE_ENTRIES - 1)
                         /\ \A i \in 1..Len(s) : s[i] = "tail" <=> i = Len(s)

VARIABLES
    sequence,   \* ledger.sequence, QueueShared.sequence and the SEMSURF maximum
    retired,    \* ledger.retired: last token whose storage was recycled
    used,       \* ledger.used_entries
    pending,    \* ledger.pending, with a history field: first
    overflow,   \* ledger.overflow: tokens whose segments are retained
    put,        \* ring index of the next entry, published to the GPU by kick
    ring,       \* GPFIFO contents
    tail,       \* token whose commands each tail slot holds (0: none yet)
    lost,       \* Queue.lost and QueueShared.lost
    stopped,    \* Queue.stopped
    pc,         \* where the submitting caller is
    shape,      \* shape of the batch it is submitting
    completed,  \* local of retire_completion: the retirement word it read
    oldest,     \* token of SubmitStatus::Full the caller waits for (0: none)
    get,        \* the GPU's ring index
    published,  \* the tail being executed has released the public word
    publicWord, \* SEMSURF payload written by the GPU
    retireWord, \* private retirement word written by the GPU
    done,       \* history: the token behind retireWord
    written,    \* history: number of entries ever written
    fetched,    \* history: number of entries the GPU has finished with
    inflight    \* history: the entries in between, as they were written

ledgerVars == <<sequence, retired, used, pending, overflow>>
ringVars == <<put, ring, tail, written>>
callVars == <<pc, shape, completed, oldest>>
gpuVars == <<get, published, publicWord, retireWord, done, fetched>>
vars == <<ledgerVars, ringVars, inflight, lost, stopped, callVars, gpuVars>>

Slots == 0..(QUEUE_ENTRIES - 1)
Entry == [token : Nat, kind : Kinds, slot : Slots]
Batch == [token : Nat, entries : Nat, slot : Slots, first : Nat]
NoEntry == [token |-> 0, kind |-> "push", slot |-> 0]

\* x % QUEUE_ENTRIES for the x < 2 * QUEUE_ENTRIES that occur.
Wrap(x) == IF x >= QUEUE_ENTRIES THEN x - QUEUE_ENTRIES ELSE x

Init ==
    /\ sequence = 0 /\ retired = 0 /\ used = 0
    /\ pending = <<>> /\ overflow = <<>>
    /\ put = 0 /\ get = 0
    /\ written = 0 /\ fetched = 0 /\ inflight = <<>>
    /\ ring = [i \in Slots |-> NoEntry]
    /\ tail = [i \in Slots |-> 0]
    /\ lost = FALSE /\ stopped = FALSE
    /\ pc = "idle" /\ shape = <<>> /\ completed = 0 /\ oldest = 0
    /\ published = FALSE /\ publicWord = 0 /\ retireWord = 0 /\ done = 0
-----------------------------------------------------------------------------
(* The two completion words: 64 bits, or the low 32 extended against the   *)
(* last token issued.                                                      *)

Payload(token) == IF Native64 THEN token ELSE Low(token)

Reconstruct(word) == IF Native64 THEN word ELSE ExtendPayload(word, sequence)
-----------------------------------------------------------------------------
(* The submitting caller.  Its steps run under the Bridge's Inner lock, so *)
(* there is one at a time; the GPU interleaves with all of them.           *)

\* Entry of Queue::submit and of retire_completion, for shape s.
Begin(s) ==
    /\ shape' = s
    /\ IF stopped \/ lost
       THEN pc' = "failed" /\ UNCHANGED completed
       ELSE IF pending = <<>>
       THEN pc' = "prepare" /\ UNCHANGED completed
       ELSE /\ completed' = Reconstruct(retireWord)
            /\ pc' = IF completed' \in Sem32Errors THEN "failed" ELSE "check"

Submit(s) ==
    /\ pc = "idle" /\ oldest = 0
    /\ Begin(s)
    /\ UNCHANGED <<ledgerVars, ringVars, inflight, lost, stopped, oldest, gpuVars>>

\* QueueShared::retired as the blocked caller evaluates it.
Retired(token) == Reconstruct(retireWord) >= token

\* rm_ctx_submit: the wait for the oldest batch returned; submit again.
Resubmit ==
    /\ pc = "idle" /\ oldest # 0
    /\ ~lost /\ ~stopped => Retired(oldest)
    /\ oldest' = 0
    /\ Begin(shape)
    /\ UNCHANGED <<ledgerVars, ringVars, inflight, lost, stopped, gpuVars>>

\* Mutant: a poll that finds nothing new is taken for an error.
PlausibleMutStrict(public) ==
    completed <= public /\ completed <= sequence /\ completed > retired

\* The value read must not be ahead of the public word, and must lie in the
\* issued timeline; otherwise the call fails and the queue is lost.
Plausible(public) ==
    /\ completed <= public
    /\ completed <= sequence
    /\ completed >= retired

CheckCompletion ==
    /\ pc = "check"
    /\ LET public == Reconstruct(publicWord)
       IN  IF Plausible(public)
           THEN pc' = "retire" /\ UNCHANGED lost
           ELSE pc' = "failed" /\ lost' = (lost \/ public \notin Sem32Errors)
    /\ UNCHANGED <<ledgerVars, ringVars, inflight, stopped, shape, completed,
                   oldest, gpuVars>>

\* One iteration of SubmissionLedger::retire's first loop.
RetireOne ==
    /\ pc = "retire"
    /\ pending # <<>> /\ Head(pending).token <= completed
    /\ pending' = Tail(pending)
    /\ used' = used - Head(pending).entries
    /\ retired' = Head(pending).token
    /\ UNCHANGED <<sequence, overflow, ringVars, inflight, lost, stopped,
                   callVars, gpuVars>>

\* Its second loop: free the overflow segments of retired batches.
RetireOverflow ==
    /\ pc = "retire"
    /\ pending # <<>> => Head(pending).token > completed
    /\ IF overflow # <<>> /\ Head(overflow) <= retired
       THEN overflow' = Tail(overflow) /\ UNCHANGED pc
       ELSE pc' = "prepare" /\ UNCHANGED overflow
    /\ UNCHANGED <<sequence, retired, used, pending, ringVars, inflight, lost,
                   stopped, shape, completed, oldest, gpuVars>>
-----------------------------------------------------------------------------
(* SubmissionLedger::prepare and prepare_for_mode for the current shape. *)

\* Mutant: every entry is used, PUT = GET can mean full.
RingFullMutNoGap == used + Len(shape) > QUEUE_ENTRIES

RingFull == used + Len(shape) >= QUEUE_ENTRIES

\* Mutant: tokens skip the zero payload word.
NextTokenMutNoZero == IF Low(sequence + 1) = 0 THEN sequence + 2 ELSE sequence + 1

NextToken == sequence + 1

Exhausted == NextToken > MaxToken

Wraps == NextToken \div Epoch # sequence \div Epoch

\* Mutant: the half range is exceeded by one.
TooFarMutOne == sequence + 1 - retired > HalfRange + 1

TooFar == NextToken - retired > HalfRange

\* SubmitStatus::Full: nothing is written, the caller waits.
MustWait ==
    \/ RingFull
    \/ ~Exhausted /\ ~Native64 /\ (Wraps \/ TooFar) /\ pending # <<>>

\* A contract error, which makes the queue lost.
MustFail ==
    /\ ~RingFull
    /\ Exhausted \/ (~Native64 /\ TooFar /\ pending = <<>>)

\* Mutant: the number of pending batches is taken for the next free slot.
NextSlotMutCount == Len(pending)

NextSlot == IF pending = <<>> THEN 0 ELSE Wrap(pending[Len(pending)].slot + 1)

\* Mutant: the caller is told to wait for the batch that was refused.
PrepareFullMutNewest ==
    /\ pc = "prepare"
    /\ MustWait
    /\ oldest' = NextToken
    /\ pc' = "idle"
    /\ UNCHANGED <<ledgerVars, ringVars, inflight, lost, stopped, shape,
                   completed, gpuVars>>

PrepareFull ==
    /\ pc = "prepare"
    /\ MustWait
    /\ oldest' = Head(pending).token
    /\ pc' = "idle"
    /\ UNCHANGED <<ledgerVars, ringVars, inflight, lost, stopped, shape,
                   completed, gpuVars>>

PrepareError ==
    /\ pc = "prepare"
    /\ MustFail
    /\ lost' = TRUE
    /\ pc' = "failed"
    /\ UNCHANGED <<ledgerVars, ringVars, inflight, stopped, shape, completed,
                   oldest, gpuVars>>

BatchEntry(k) == [token |-> NextToken, kind |-> shape[k], slot |-> NextSlot]

\* Which entry of the batch, counted from 1, ring index i receives.
FromPut(i) == IF i >= put THEN i - put + 1 ELSE i - put + QUEUE_ENTRIES + 1

\* Commands into the tail slot, token published and committed, entries
\* written, overflow segments retained, GP_PUT and doorbell (kick).
PrepareAccept ==
    /\ pc = "prepare"
    /\ ~MustWait /\ ~MustFail
    /\ tail' = [tail EXCEPT ![NextSlot] = NextToken]
    /\ sequence' = NextToken
    /\ used' = used + Len(shape)
    /\ pending' = Append(pending, [token |-> NextToken, entries |-> Len(shape),
                                   slot |-> NextSlot, first |-> written])
    /\ overflow' = IF \E k \in 1..Len(shape) : shape[k] = "overflow"
                   THEN Append(overflow, NextToken) ELSE overflow
    /\ ring' = [i \in Slots |-> IF FromPut(i) <= Len(shape)
                                THEN BatchEntry(FromPut(i)) ELSE ring[i]]
    /\ put' = Wrap(put + Len(shape))
    /\ written' = written + Len(shape)
    /\ inflight' = inflight \o [k \in 1..Len(shape) |-> BatchEntry(k)]
    /\ pc' = "idle"
    /\ UNCHANGED <<retired, lost, stopped, shape, completed, oldest, gpuVars>>

\* Device loss elsewhere refuses further submissions (lose_locked).
StopSubmissions ==
    /\ pc = "idle" /\ ~stopped
    /\ stopped' = TRUE
    /\ UNCHANGED <<ledgerVars, ringVars, inflight, lost, callVars, gpuVars>>
-----------------------------------------------------------------------------
(* The GPU host engine (external): it consumes entries up to GP_PUT in     *)
(* order, and executes a tail as public release, then private release of   *)
(* whatever token the tail slot holds at that moment.                      *)

GpuPush ==
    /\ get # put
    /\ ring[get].kind # "tail"
    /\ get' = Wrap(get + 1)
    /\ fetched' = fetched + 1
    /\ inflight' = Tail(inflight)
    /\ UNCHANGED <<ledgerVars, ringVars, lost, stopped, callVars,
                   published, publicWord, retireWord, done>>

GpuPublish ==
    /\ get # put
    /\ ring[get].kind = "tail" /\ ~published
    /\ publicWord' = Payload(tail[ring[get].slot])
    /\ published' = TRUE
    /\ UNCHANGED <<ledgerVars, ringVars, inflight, lost, stopped, callVars,
                   get, retireWord, done, fetched>>

GpuRetire ==
    /\ get # put
    /\ ring[get].kind = "tail" /\ published
    /\ retireWord' = Payload(tail[ring[get].slot])
    /\ done' = tail[ring[get].slot]
    /\ published' = FALSE
    /\ get' = Wrap(get + 1)
    /\ fetched' = fetched + 1
    /\ inflight' = Tail(inflight)
    /\ UNCHANGED <<ledgerVars, ringVars, lost, stopped, callVars, publicWord>>
-----------------------------------------------------------------------------
Caller ==
    \/ \E s \in Shapes : Submit(s)
    \/ Resubmit
    \/ CheckCompletion \/ RetireOne \/ RetireOverflow
    \/ PrepareFull \/ PrepareError \/ PrepareAccept

Gpu == GpuPush \/ GpuPublish \/ GpuRetire

Next == Caller \/ StopSubmissions \/ Gpu

Spec == Init /\ [][Next]_vars

\* A call once begun runs on, and the GPU works while the ring is not empty.
Fairness ==
    /\ WF_vars(Resubmit) /\ WF_vars(CheckCompletion)
    /\ WF_vars(RetireOne) /\ WF_vars(RetireOverflow)
    /\ WF_vars(PrepareFull) /\ WF_vars(PrepareError) /\ WF_vars(PrepareAccept)
    /\ WF_vars(Gpu)

FairSpec == Spec /\ Fairness
-----------------------------------------------------------------------------
TypeOK ==
    /\ sequence \in Nat /\ retired \in Nat /\ used \in Nat
    /\ pending \in Seq(Batch) /\ overflow \in Seq(Nat)
    /\ put \in Slots /\ get \in Slots
    /\ ring \in [Slots -> Entry] /\ tail \in [Slots -> Nat]
    /\ lost \in BOOLEAN /\ stopped \in BOOLEAN /\ published \in BOOLEAN
    /\ pc \in {"idle", "check", "retire", "prepare", "failed"}
    /\ shape \in Seq(Kinds) /\ completed \in Int /\ oldest \in Nat
    /\ publicWord \in Nat /\ retireWord \in Nat /\ done \in Nat
    /\ written \in Nat /\ fetched \in Nat /\ inflight \in Seq(Entry)

(* No entry the GPU has not finished with is overwritten, although the CPU *)
(* never reads GET and recycles entries from the retirement word alone     *)
(* (used_entries, "PUT==GET must never describe a full ring").             *)
RingIntact ==
    /\ (get = put) <=> (inflight = <<>>)
    /\ \A k \in 1..Len(inflight) : ring[Wrap(get + k - 1)] = inflight[k]

(* The commands behind an entry stay as written until the GPU is done with *)
(* it: its tail slot holds its own batch, its overflow segment is retained,*)
(* although slots restart at 0 whenever the ledger drains.                 *)
CommandsIntact ==
    \A k \in 1..Len(inflight) :
        LET e == inflight[k]
        IN  /\ e.kind \in {"prefix", "tail"} => tail[e.slot] = e.token
            /\ e.kind = "overflow" => \E i \in 1..Len(overflow) : overflow[i] = e.token

(* Ledger retirement never runs ahead of the GPU, and the value read back  *)
(* from a narrow retirement word is the GPU's true position.               *)
RetirementExact ==
    /\ retired <= done /\ done <= sequence
    /\ Reconstruct(retireWord) = done

(* The error paths of retire_completion and prepare_for_mode are reached   *)
(* only when the token space is exhausted or submissions were stopped:     *)
(* "retirement preceded public completion", "GPU completion outside issued *)
(* timeline", "sem32 submission exceeds half range" never fire otherwise.  *)
NoSpuriousFailure ==
    /\ lost => Exhausted
    /\ pc = "failed" => lost \/ stopped

(* Full always names a batch to wait for: the unwrap of pending.front() in *)
(* prepare never panics, for any batch within the ring's capacity.         *)
FullNamesABatch == pc = "prepare" /\ MustWait => pending # <<>>

(* Accepted batches execute exactly once and in submission order.          *)
ExecutesInOrder == [][done' # done => done' = done + 1]_vars

(* rm_ctx_submit's retry loop ends: a submission that met a full ring is   *)
(* eventually accepted or fails, because the oldest batch retires.         *)
SubmissionResolves ==
    (pc \in {"check", "retire", "prepare"} \/ oldest # 0)
        ~> (pc \in {"idle", "failed"} /\ oldest = 0)
-----------------------------------------------------------------------------
(* The inductive invariant behind these properties.  End(i) is the number  *)
(* of entries written up to and including those of the i-th pending batch. *)

End(i) == pending[i].first + pending[i].entries

\* Tokens of pending batches are consecutive, from retired + 1 to sequence.
TokensConsecutive ==
    /\ sequence = retired + Len(pending)
    /\ \A i \in 1..Len(pending) : pending[i].token = retired + i

\* Pending batches occupy adjacent stretches of the last `used` entries.
EntriesAdjacent ==
    /\ \A i \in 1..Len(pending) :
          /\ pending[i].entries >= 1
          /\ End(i) = IF i = Len(pending) THEN written ELSE pending[i + 1].first
          /\ written - pending[i].first >= Len(pending) - i + 1
          /\ End(i) <= written
    /\ \A i, j \in 1..Len(pending) : i < j => End(i) <= pending[j].first
    /\ used = IF pending = <<>> THEN 0 ELSE written - pending[1].first
    /\ used < QUEUE_ENTRIES

\* Pending batches occupy consecutive tail slots, which hold their commands.
SlotsConsecutive ==
    /\ \A i, j \in 1..Len(pending) :
          i < j => pending[j].slot = Wrap(pending[i].slot + (j - i))
    /\ \A i \in 1..Len(pending) : tail[pending[i].slot] = pending[i].token

\* The GPU is inside the batch after `done`.
GpuPosition ==
    /\ retired <= done /\ done <= sequence
    /\ IF done = sequence
       THEN fetched = written /\ ~published
       ELSE /\ pending[done + 1 - retired].first <= fetched
            /\ fetched < End(done + 1 - retired)

\* Entry k of inflight is entry fetched + k of all, and belongs to the
\* pending batch of its token.
InflightOf(k) ==
    LET i == inflight[k].token - retired
    IN  /\ i \in 1..Len(pending)
        /\ pending[i].first < fetched + k /\ fetched + k <= End(i)
        /\ inflight[k].slot = pending[i].slot
        /\ (inflight[k].kind = "tail") <=> (fetched + k = End(i))

InflightBelongs ==
    /\ Len(inflight) = written - fetched
    /\ \A k \in 1..Len(inflight) : InflightOf(k)

RingGeometry ==
    /\ put = Wrap(get + Len(inflight))
    /\ \A k \in 1..Len(inflight) : ring[Wrap(get + k - 1)] = inflight[k]

OverflowRetained ==
    \A k \in 1..Len(inflight) : inflight[k].kind = "overflow" =>
        \E i \in 1..Len(overflow) : overflow[i] = inflight[k].token

WordsTrack ==
    /\ retireWord = Payload(done)
    /\ publicWord = Payload(IF published THEN done + 1 ELSE done)
    /\ ~Native64 => sequence - retired <= HalfRange

CallerConsistent ==
    /\ pc \in {"check", "retire"} => retired <= completed /\ completed <= done
    /\ pc \in {"check", "retire", "prepare"} \/ oldest # 0 => shape \in Shapes

IInv ==
    /\ TypeOK /\ TokensConsecutive /\ EntriesAdjacent /\ SlotsConsecutive
    /\ GpuPosition /\ InflightBelongs /\ RingGeometry /\ OverflowRetained
    /\ WordsTrack /\ CallerConsistent /\ NoSpuriousFailure

\* Shapes for model checking: batches of one to three entries, with and
\* without a prefix and overflow.
SmallShapes == { <<"tail">>,
                 <<"prefix", "tail">>,
                 <<"push", "overflow", "tail">> }
=============================================================================
