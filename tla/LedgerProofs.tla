--------------------------- MODULE LedgerProofs ---------------------------
(***************************************************************************)
(* Proofs about Ledger for every ring size, token width and set of batch   *)
(* shapes: every step of the submitting thread and of the GPU keeps IInv,  *)
(* so IInv is inductive, and the safety properties follow from it.         *)
(***************************************************************************)
EXTENDS Ledger

-----------------------------------------------------------------------------
(* The steps of prepare except the one that accepts a batch.               *)

(* A token at a positive distance from another is above it.                *)
LEMMA PositiveDistance ==
    \A a, b, n \in Nat : a - b \in 1..n => a > b
  OBVIOUS


(* The two completion words are read back exactly, in both payload widths. *)
LEMMA WordsExact ==
    ASSUME IInv
    PROVE  /\ Reconstruct(retireWord) = done
           /\ Reconstruct(publicWord) = IF published THEN done + 1 ELSE done
<1> USE DEF IInv
<1> DEFINE public == IF published THEN done + 1 ELSE done
<1>1. done \in Nat /\ public \in Nat /\ sequence \in Nat /\ retired \in Nat
  BY DEF TypeOK
<1>2. done <= sequence /\ public <= sequence /\ retired <= done /\ done <= public
  BY <1>1 DEF GpuPosition
<1>3. CASE Native64
  BY <1>3 DEF WordsTrack, Reconstruct, Payload
<1>4. CASE ~Native64
  <2>1. HalfRange \in Int
    BY EpochAssumption DEF HalfRange
  <2>2. sequence - done <= HalfRange /\ sequence - public <= HalfRange
    BY <1>4, <1>1, <1>2, <2>1 DEF WordsTrack
  <2>3. ExtendPayload(Low(done), sequence) = done
    BY <1>1, <1>2, <2>2, ExtendExact
  <2>4. ExtendPayload(Low(public), sequence) = public
    BY <1>1, <1>2, <2>2, ExtendExact
  <2> QED
    BY <1>4, <2>3, <2>4 DEF WordsTrack, Reconstruct, Payload
<1> QED
  BY <1>3, <1>4

(* At most `used` entries, so fewer than the ring holds, are in flight.    *)
LEMMA InflightBounded ==
    ASSUME IInv
    PROVE  Len(inflight) <= used /\ Len(inflight) < QUEUE_ENTRIES
<1> USE DEF IInv
<1>1. CASE done = sequence
  BY <1>1, LedgerAssumption DEF GpuPosition, InflightBelongs, TypeOK, EntriesAdjacent
<1>2. CASE done # sequence
  <2> DEFINE d == done + 1 - retired
  <2>1. d \in 1..Len(pending) /\ pending # <<>>
    BY <1>2 DEF GpuPosition, TokensConsecutive, TypeOK
  <2>2. pending[d] \in Batch /\ pending[1] \in Batch /\ 1 \in 1..Len(pending)
    BY <2>1 DEF TypeOK
  <2>3. pending[1].first <= pending[d].first
    <3>1. CASE d = 1
      BY <3>1, <2>2 DEF Batch
    <3>2. CASE d # 1
      <4>1. End(1) <= pending[d].first /\ pending[1].entries >= 1
        BY <3>2, <2>1, <2>2 DEF EntriesAdjacent
      <4> QED BY <4>1, <2>2 DEF End, Batch
    <3> QED BY <3>1, <3>2
  <2>4. pending[d].first <= fetched
    BY <1>2 DEF GpuPosition
  <2>5. used = written - pending[1].first
    BY <2>1 DEF EntriesAdjacent
  <2>6. Len(inflight) = written - fetched
    BY DEF InflightBelongs
  <2>7. /\ pending[1].first \in Nat /\ pending[d].first \in Nat
        /\ written \in Nat /\ fetched \in Nat /\ used \in Nat
        /\ used < QUEUE_ENTRIES /\ QUEUE_ENTRIES \in Nat
    BY <2>2, LedgerAssumption, Zenon DEF TypeOK, Batch, EntriesAdjacent
  <2> QED BY <2>3, <2>4, <2>5, <2>6, <2>7
<1> QED
  BY <1>1, <1>2

(* A step of the caller that touches neither ledger nor ring nor GPU       *)
(* leaves every part of the invariant about these in place.                *)
LEMMA UntouchedKeeps ==
    ASSUME IInv, UNCHANGED <<ledgerVars, ringVars, inflight, gpuVars>>
    PROVE  /\ TokensConsecutive' /\ EntriesAdjacent' /\ SlotsConsecutive'
           /\ GpuPosition' /\ InflightBelongs' /\ RingGeometry'
           /\ OverflowRetained' /\ WordsTrack'
<1> USE DEF IInv, ledgerVars, ringVars, gpuVars
<1>1. TokensConsecutive'
  BY DEF TokensConsecutive
<1>2. EntriesAdjacent'
  BY DEF EntriesAdjacent, End
<1>3. SlotsConsecutive'
  BY DEF SlotsConsecutive, Wrap
<1>4. GpuPosition'
  BY DEF GpuPosition, End
<1>5. InflightBelongs'
  BY DEF InflightBelongs, InflightOf, End
<1>6. RingGeometry'
  BY DEF RingGeometry, Wrap
<1>7. OverflowRetained'
  BY DEF OverflowRetained
<1>8. WordsTrack'
  BY DEF WordsTrack, Payload
<1> QED
  BY <1>1, <1>2, <1>3, <1>4, <1>5, <1>6, <1>7, <1>8

(* Entering submit, first or again, reads the retirement word exactly.     *)
LEMMA BeginKeeps ==
    ASSUME IInv, NEW s \in Shapes, Begin(s), oldest' = 0,
           UNCHANGED <<ledgerVars, ringVars, inflight, lost, stopped, gpuVars>>
    PROVE  IInv'
<1> USE DEF IInv
<1>1. Reconstruct(retireWord) = done
  BY WordsExact
<1>2. done \in Nat /\ done \notin Sem32Errors
  BY DEF TypeOK, Sem32Errors, BeforeOrigin, BeyondHalf
<1>3. s \in Seq(Kinds)
  BY LedgerAssumption
<1>4. TypeOK'
  BY <1>1, <1>2, <1>3 DEF TypeOK, Begin, ledgerVars, ringVars, gpuVars
<1>5. CallerConsistent'
  BY <1>1, <1>2 DEF TypeOK, Begin, CallerConsistent, GpuPosition, ledgerVars, gpuVars
<1>6. NoSpuriousFailure'
  BY <1>1, <1>2 DEF NoSpuriousFailure, Begin, Exhausted, NextToken, ledgerVars
<1> QED
  BY <1>4, <1>5, <1>6, UntouchedKeeps

LEMMA CheckCompletionKeeps ==
    ASSUME IInv, CheckCompletion
    PROVE  IInv'
<1> USE DEF IInv, CheckCompletion
<1>1. Reconstruct(publicWord) = IF published THEN done + 1 ELSE done
  BY WordsExact
<1>2. Plausible(Reconstruct(publicWord))
  BY <1>1 DEF Plausible, CallerConsistent, TypeOK, GpuPosition
<1>3. pc' = "retire" /\ UNCHANGED lost
  BY <1>2
<1>4. TypeOK'
  BY <1>3 DEF TypeOK, ledgerVars, ringVars, gpuVars
<1>5. CallerConsistent'
  BY <1>3 DEF CallerConsistent, ledgerVars, gpuVars
<1>6. NoSpuriousFailure'
  BY <1>3 DEF NoSpuriousFailure, Exhausted, NextToken, ledgerVars
<1> QED
  BY <1>4, <1>5, <1>6, UntouchedKeeps

(* A batch whose shape is valid fits an empty ring, so Full implies that   *)
(* some batch is pending.                                                  *)
LEMMA FullImpliesPending ==
    ASSUME IInv, pc = "prepare", MustWait
    PROVE  pending # <<>> /\ Head(pending) \in Batch
<1> USE DEF IInv
<1>1. shape \in Shapes /\ Len(shape) \in 1..(QUEUE_ENTRIES - 1)
  BY LedgerAssumption DEF CallerConsistent
<1>2. pending # <<>>
  BY <1>1, LedgerAssumption DEF MustWait, RingFull, EntriesAdjacent
<1> QED
  BY <1>2 DEF TypeOK

LEMMA PrepareFullKeeps ==
    ASSUME IInv, PrepareFull
    PROVE  IInv'
<1> USE DEF IInv, PrepareFull
<1>1. Head(pending) \in Batch
  BY FullImpliesPending
<1>2. TypeOK'
  BY <1>1, ZenonT(30) DEF TypeOK, Batch, ledgerVars, ringVars, gpuVars
<1>3. CallerConsistent'
  BY DEF CallerConsistent, ledgerVars, gpuVars
<1>4. NoSpuriousFailure'
  BY DEF NoSpuriousFailure, Exhausted, NextToken, ledgerVars
<1> QED
  BY <1>2, <1>3, <1>4, UntouchedKeeps

(* prepare_for_mode fails only when the token space is exhausted.          *)
LEMMA PrepareErrorKeeps ==
    ASSUME IInv, PrepareError
    PROVE  IInv'
<1> USE DEF IInv, PrepareError
<1>1. Exhausted
  <2>1. HalfRange \in Int /\ HalfRange >= 1
    BY EpochAssumption DEF HalfRange
  <2>2. ASSUME pending = <<>>, TooFar PROVE FALSE
    BY <2>1, <2>2 DEF TooFar, NextToken, TokensConsecutive, TypeOK
  <2> QED BY <2>2 DEF MustFail
<1>2. TypeOK'
  BY DEF TypeOK, ledgerVars, ringVars, gpuVars
<1>3. CallerConsistent'
  BY DEF CallerConsistent, ledgerVars, gpuVars
<1>4. NoSpuriousFailure'
  BY <1>1 DEF NoSpuriousFailure, Exhausted, NextToken, ledgerVars
<1> QED
  BY <1>2, <1>3, <1>4, UntouchedKeeps

LEMMA StopSubmissionsKeeps ==
    ASSUME IInv, StopSubmissions
    PROVE  IInv'
<1> USE DEF IInv, StopSubmissions
<1>1. TypeOK'
  BY DEF TypeOK, ledgerVars, ringVars, gpuVars, callVars
<1>2. CallerConsistent'
  BY DEF CallerConsistent, ledgerVars, gpuVars, callVars
<1>3. NoSpuriousFailure'
  BY DEF NoSpuriousFailure, Exhausted, NextToken, ledgerVars, callVars
<1> QED
  BY <1>1, <1>2, <1>3, UntouchedKeeps

(* The fields of pending batches and of entries in flight, typed.          *)
LEMMA FieldTypes ==
    ASSUME TypeOK
    PROVE  /\ \A i \in 1..Len(pending) :
                 /\ pending[i].token \in Nat /\ pending[i].first \in Nat
                 /\ pending[i].entries \in Nat /\ pending[i].slot \in Slots
                 /\ End(i) \in Nat
           /\ \A k \in 1..Len(inflight) :
                 /\ inflight[k] \in Entry /\ inflight[k].token \in Nat
                 /\ inflight[k].slot \in Slots /\ inflight[k].kind \in Kinds
           /\ Len(pending) \in Nat /\ Len(inflight) \in Nat
<1>1. ASSUME NEW i \in 1..Len(pending)
      PROVE  pending[i] \in Batch
  BY DEF TypeOK
<1>2. ASSUME NEW k \in 1..Len(inflight)
      PROVE  inflight[k] \in Entry
  BY DEF TypeOK
<1>3. Len(pending) \in Nat /\ Len(inflight) \in Nat
  BY DEF TypeOK
<1> QED
  BY <1>1, <1>2, <1>3 DEF Batch, Entry, End

(* The numbers of the queue, without the records.                          *)
LEMMA Numbers ==
    ASSUME TypeOK
    PROVE  /\ QUEUE_ENTRIES \in Nat /\ get \in Nat /\ get < QUEUE_ENTRIES
           /\ done \in Nat /\ retired \in Nat /\ sequence \in Nat /\ used \in Nat
           /\ written \in Nat /\ fetched \in Nat
           /\ Len(pending) \in Nat /\ Len(inflight) \in Nat
<1>1. QUEUE_ENTRIES \in Nat
  BY LedgerAssumption
<1>2. get \in Nat /\ get < QUEUE_ENTRIES
  BY <1>1 DEF TypeOK, Slots
<1>3. /\ done \in Nat /\ retired \in Nat /\ sequence \in Nat /\ used \in Nat
      /\ written \in Nat /\ fetched \in Nat
  BY DEF TypeOK
<1>4. Len(pending) \in Nat /\ Len(inflight) \in Nat
  BY FieldTypes
<1> QED
  BY <1>1, <1>2, <1>3, <1>4

LEMMA RetireOverflowKeeps ==
    ASSUME IInv, RetireOverflow
    PROVE  IInv'
<1> USE DEF IInv
<1>0. /\ UNCHANGED <<sequence, retired, used, pending, inflight, lost, stopped>>
      /\ UNCHANGED <<put, ring, tail, written, shape, completed, oldest>>
      /\ UNCHANGED <<get, published, publicWord, retireWord, done, fetched>>
      /\ pc = "retire" /\ pc' \in {"retire", "prepare"}
  BY DEF RetireOverflow, ringVars, gpuVars
<1>1. TypeOK'
  <2>1. overflow \in Seq(Nat)
    BY DEF TypeOK
  <2>2. overflow # <<>> => Tail(overflow) \in Seq(Nat)
    BY <2>1
  <2>3. overflow' \in Seq(Nat)
    BY <2>1, <2>2, ZenonT(30) DEF RetireOverflow
  <2> QED BY <1>0, <2>3 DEF TypeOK
<1>2. TokensConsecutive' /\ EntriesAdjacent' /\ SlotsConsecutive'
  BY <1>0, Zenon DEF TokensConsecutive, EntriesAdjacent, End, SlotsConsecutive, Wrap
<1>3. GpuPosition' /\ InflightBelongs'
  BY <1>0 DEF GpuPosition, InflightBelongs, InflightOf, End
<1>4. RingGeometry' /\ WordsTrack'
  BY <1>0 DEF RingGeometry, Wrap, WordsTrack, Payload
<1>5. CallerConsistent'
  BY <1>0 DEF CallerConsistent
<1>6. NoSpuriousFailure'
  BY <1>0 DEF NoSpuriousFailure, Exhausted, NextToken
<1>7. OverflowRetained'
  <2> SUFFICES ASSUME NEW k \in 1..Len(inflight), inflight[k].kind = "overflow"
               PROVE  \E i \in 1..Len(overflow') : overflow'[i] = inflight[k].token
    BY <1>0 DEF OverflowRetained
  <2>1. PICK i \in 1..Len(overflow) : overflow[i] = inflight[k].token
    BY DEF OverflowRetained
  <2>2. CASE overflow' = overflow
    BY <2>1, <2>2
  <2>3. CASE overflow # <<>> /\ Head(overflow) <= retired /\ overflow' = Tail(overflow)
    <3>1. inflight[k].token - retired \in 1..Len(pending) /\ inflight[k].token \in Nat
      BY FieldTypes, ZenonT(30) DEF InflightBelongs, InflightOf
    <3>2. retired \in Nat /\ Len(pending) \in Nat /\ overflow \in Seq(Nat)
      BY FieldTypes DEF TypeOK
    <3>3. inflight[k].token > retired
      BY <3>1, <3>2, PositiveDistance, Zenon
    <3>4. i # 1
      BY <2>1, <2>3, <3>2, <3>3
    <3>5. i - 1 \in 1..Len(Tail(overflow)) /\ Tail(overflow)[i - 1] = overflow[i]
      BY <2>3, <3>2, <3>4
    <3> QED BY <2>1, <2>3, <3>5, Zenon
  <2> QED BY <2>2, <2>3, ZenonT(30) DEF RetireOverflow
<1> QED
  BY <1>1, <1>2, <1>3, <1>4, <1>5, <1>6, <1>7

(* The retired batch is the one after `retired`, and the GPU is past it.   *)
LEMMA RetireOneKeeps ==
    ASSUME IInv, RetireOne
    PROVE  IInv'
<1> USE DEF IInv
<1> DEFINE n == Len(pending)
<1>0. /\ UNCHANGED <<sequence, overflow, inflight, lost, stopped>>
      /\ UNCHANGED <<put, ring, tail, written, pc, shape, completed, oldest>>
      /\ UNCHANGED <<get, published, publicWord, retireWord, done, fetched>>
      /\ pc = "retire" /\ pending # <<>> /\ pending' = Tail(pending)
      /\ Head(pending).token <= completed
      /\ used' = used - Head(pending).entries /\ retired' = Head(pending).token
  BY DEF RetireOne, ringVars, gpuVars, callVars
<1>1. /\ pending \in Seq(Batch) /\ n \in Nat /\ n >= 1 /\ retired \in Nat
      /\ sequence \in Nat /\ done \in Nat /\ completed \in Int
      /\ written \in Nat /\ fetched \in Nat /\ used \in Nat
      /\ 1 \in 1..n
  BY <1>0 DEF TypeOK
<1>2. /\ pending' \in Seq(Batch)
      /\ Len(pending') = n - 1
      /\ \A i \in 1..(n - 1) : i + 1 \in 1..n /\ pending'[i] = pending[i + 1]
  BY <1>0, <1>1
<1>3. Head(pending) = pending[1] /\ pending[1].token = retired + 1
  BY <1>0, <1>1 DEF TokensConsecutive
<1>4. retired' = retired + 1 /\ retired + 1 <= done /\ retired + 1 <= completed
  BY <1>0, <1>1, <1>3 DEF CallerConsistent
<1>5. used' = used - pending[1].entries /\ used' \in Nat
  <2>1. used = written - pending[1].first /\ End(1) <= written
    BY <1>0, <1>1 DEF EntriesAdjacent
  <2>2. pending[1].first \in Nat /\ pending[1].entries \in Nat
    BY <1>1, FieldTypes
  <2>3. used' = used - pending[1].entries
    BY <1>0, <1>3
  <2>4. used - pending[1].entries \in Nat
    BY <2>1, <2>2, <1>1 DEF End
  <2> QED BY <2>3, <2>4, ZenonT(30)
<1>6. TypeOK'
  <2>1. pending' \in Seq(Batch) /\ used' \in Nat /\ retired' \in Nat
    BY <1>1, <1>2, <1>4, <1>5
  <2> QED BY <2>1, <1>0, Zenon DEF TypeOK
<1>7. TokensConsecutive'
  <2>1. sequence' = retired' + Len(pending')
    BY <1>0, <1>1, <1>2, <1>4 DEF TokensConsecutive
  <2>2. ASSUME NEW i \in 1..Len(pending') PROVE pending'[i].token = retired' + i
    <3>1. i + 1 \in 1..n /\ pending'[i] = pending[i + 1] /\ i \in Nat
      BY <1>1, <1>2
    <3>2. pending[i + 1].token = retired + (i + 1)
      BY <3>1 DEF TokensConsecutive
    <3> QED BY <3>1, <3>2, <1>1, <1>4
  <2> QED BY <2>1, <2>2 DEF TokensConsecutive
<1>8. ASSUME NEW i \in 1..Len(pending')
      PROVE  /\ i + 1 \in 1..n /\ i \in Nat /\ pending'[i] = pending[i + 1]
             /\ End(i)' = End(i + 1)
  BY <1>1, <1>2 DEF End
<1>9. EntriesAdjacent'
  <2>1. ASSUME NEW i \in 1..Len(pending')
        PROVE  /\ pending'[i].entries >= 1
               /\ End(i)' = IF i = Len(pending') THEN written' ELSE pending'[i + 1].first
               /\ written' - pending'[i].first >= Len(pending') - i + 1
               /\ End(i)' <= written'
    <3>1. /\ pending[i + 1].entries >= 1
          /\ End(i + 1) = IF i + 1 = n THEN written ELSE pending[(i + 1) + 1].first
          /\ written - pending[i + 1].first >= n - (i + 1) + 1
          /\ End(i + 1) <= written
      BY <1>8 DEF EntriesAdjacent
    <3>2. i # Len(pending') => pending'[i + 1] = pending[(i + 1) + 1]
      BY <1>1, <1>2, <1>8
    <3>3. pending[i + 1].first \in Nat
      BY <1>8, FieldTypes
    <3>4. written' = written /\ Len(pending') = n - 1 /\ i \in Nat
      BY <1>0, <1>2, <1>8
    <3>5. i + 1 = n <=> i = Len(pending')
      BY <3>4, <1>1
    <3>6. n - (i + 1) + 1 = Len(pending') - i + 1
      BY <3>4, <1>1
    <3> QED BY <3>1, <3>2, <3>4, <3>5, <3>6, <1>8, Zenon
  <2>2. ASSUME NEW i \in 1..Len(pending'), NEW j \in 1..Len(pending'), i < j
        PROVE  End(i)' <= pending'[j].first
    <3>1. /\ i + 1 \in 1..n /\ j + 1 \in 1..n /\ i + 1 < j + 1
          /\ End(i)' = End(i + 1) /\ pending'[j] = pending[j + 1]
      BY <2>2, <1>8
    <3> QED BY <3>1, ZenonT(30) DEF EntriesAdjacent
  <2>3. used' = IF pending' = <<>> THEN 0 ELSE written' - pending'[1].first
    <3>1. used = written - pending[1].first
      BY <1>0, <1>1 DEF EntriesAdjacent
    <3>2. pending[1].first + pending[1].entries
            = IF 1 = n THEN written ELSE pending[1 + 1].first
      BY <1>1, Zenon DEF EntriesAdjacent, End
    <3>3. pending[1].first \in Nat /\ pending[1].entries \in Nat
      BY <1>1, FieldTypes
    <3>4. CASE n = 1
      <4>1. pending' = <<>>
        BY <3>4, <1>2
      <4> QED BY <4>1, <3>1, <3>2, <3>3, <3>4, <1>1, <1>5
    <3>5. CASE n # 1
      <4>1. pending' # <<>> /\ pending'[1] = pending[1 + 1]
        BY <3>5, <1>1, <1>2
      <4>2. pending[1 + 1].first = pending[1].first + pending[1].entries
        BY <3>2, <3>5
      <4>3. written' = written /\ used' = used - pending[1].entries
        BY <1>0, <1>5
      <4>4. used - pending[1].entries = written - (pending[1].first + pending[1].entries)
        BY <3>1, <3>3, <1>1
      <4> QED BY <4>1, <4>2, <4>3, <4>4
    <3> QED BY <3>4, <3>5
  <2>4. used' < QUEUE_ENTRIES
    <3>1. used < QUEUE_ENTRIES /\ pending[1].entries \in Nat
      BY <1>1, FieldTypes, ZenonT(30) DEF EntriesAdjacent
    <3> QED BY <3>1, <1>1, <1>5, LedgerAssumption
  <2> QED BY <2>1, <2>2, <2>3, <2>4 DEF EntriesAdjacent
<1>10. SlotsConsecutive'
  <2>1. ASSUME NEW i \in 1..Len(pending'), NEW j \in 1..Len(pending'), i < j
        PROVE  pending'[j].slot = Wrap(pending'[i].slot + (j - i))
    <3>1. /\ i + 1 \in 1..n /\ j + 1 \in 1..n /\ i + 1 < j + 1
          /\ (j + 1) - (i + 1) = j - i
      BY <2>1, <1>8
    <3>2. pending[j + 1].slot = Wrap(pending[i + 1].slot + ((j + 1) - (i + 1)))
      BY <3>1 DEF SlotsConsecutive
    <3>3. pending'[i] = pending[i + 1] /\ pending'[j] = pending[j + 1]
      BY <1>8, <2>1, Zenon
    <3> QED BY <3>1, <3>2, <3>3, Zenon
  <2>2. ASSUME NEW i \in 1..Len(pending')
        PROVE  tail'[pending'[i].slot] = pending'[i].token
    BY <1>0, <1>8 DEF SlotsConsecutive
  <2> QED BY <2>1, <2>2 DEF SlotsConsecutive, Wrap
<1>11. GpuPosition'
  <2>1. retired' <= done' /\ done' <= sequence'
    BY <1>0, <1>1, <1>4, ZenonT(30) DEF GpuPosition
  <2>2. CASE done = sequence
    BY <1>0, <2>1, <2>2, ZenonT(30) DEF GpuPosition
  <2>3. CASE done # sequence
    <3> DEFINE d == done + 1 - retired
    <3>1. sequence = retired + n /\ done <= sequence
      BY DEF GpuPosition, TokensConsecutive
    <3>2. d \in 2..n /\ done' + 1 - retired' = d - 1
      BY <3>1, <1>0, <1>1, <1>4, <2>3, SMTT(30)
    <3>3. pending'[d - 1] = pending[d]
      BY <3>2, <1>1, <1>2
    <3> QED BY <1>0, <2>1, <2>3, <3>2, <3>3 DEF GpuPosition, End
  <2> QED BY <2>2, <2>3, ZenonT(30)
<1>12. fetched >= End(1)
  <2>1. CASE done = sequence
    BY <2>1, <1>1 DEF GpuPosition, EntriesAdjacent
  <2>2. CASE done # sequence
    <3> DEFINE d == done + 1 - retired
    <3>1. sequence = retired + n /\ done <= sequence
      BY DEF GpuPosition, TokensConsecutive
    <3>2. d \in 1..n /\ 1 < d
      BY <3>1, <1>1, <1>4, <2>2
    <3>3. End(1) <= pending[d].first /\ pending[d].first <= fetched
      <4>1. \A j \in 1..n : 1 < j => End(1) <= pending[j].first
        BY <1>1 DEF EntriesAdjacent
      <4>2. pending[d].first <= fetched
        BY <2>2, Zenon DEF GpuPosition
      <4> QED BY <4>1, <4>2, <3>2, Zenon
    <3>4. pending[d].first \in Nat /\ End(1) \in Nat
      BY <1>1, <3>2, FieldTypes
    <3> QED BY <3>3, <3>4, <1>1
  <2> QED BY <2>1, <2>2
<1>13. InflightBelongs'
  <2>1. Len(inflight') = written' - fetched'
    BY <1>0 DEF InflightBelongs
  <2>2. ASSUME NEW k \in 1..Len(inflight) PROVE InflightOf(k)'
    <3> DEFINE i == inflight[k].token - retired
    <3>1. /\ i \in 1..n
          /\ pending[i].first < fetched + k /\ fetched + k <= End(i)
          /\ inflight[k].slot = pending[i].slot
          /\ (inflight[k].kind = "tail") <=> (fetched + k = End(i))
      BY DEF InflightBelongs, InflightOf
    <3>2. inflight[k].token \in Nat /\ k \in Nat /\ k >= 1 /\ End(1) \in Nat
      BY <1>1, FieldTypes
    <3>3. i # 1
      BY <3>1, <3>2, <1>1, <1>12
    <3>4. inflight'[k].token - retired' = i - 1 /\ i - 1 \in 1..Len(pending')
      <4>1. inflight' = inflight /\ retired' = retired + 1 /\ Len(pending') = n - 1
        BY <1>0, <1>2, <1>4
      <4>2. inflight[k].token - (retired + 1) = i - 1
        BY <3>2, <1>1
      <4>3. i \in 1..n /\ i # 1
        BY <3>1, <3>3
      <4>4. \A m \in 1..n : m # 1 => m - 1 \in 1..(n - 1)
        BY <1>1
      <4> QED BY <4>1, <4>2, <4>3, <4>4
    <3>5. pending'[i - 1] = pending[i]
      BY <3>1, <3>3, <1>1, <1>2, SMTT(30)
    <3> DEFINE j == inflight'[k].token - retired'
    <3>6. inflight' = inflight /\ fetched' = fetched
      BY <1>0
    <3>7. j \in 1..Len(pending') /\ pending'[j] = pending[i]
      BY <3>4, <3>5
    <3>8. /\ pending'[j].first < fetched' + k
          /\ fetched' + k <= pending'[j].first + pending'[j].entries
          /\ inflight'[k].slot = pending'[j].slot
          /\ (inflight'[k].kind = "tail") <=> (fetched' + k = pending'[j].first + pending'[j].entries)
      <4> HIDE DEF i, j
      <4> QED BY <3>1, <3>6, <3>7, Zenon DEF End
    <3> QED BY <3>7, <3>8, Zenon DEF InflightOf, End
  <2> QED BY <1>0, <2>1, <2>2 DEF InflightBelongs
<1>14. RingGeometry' /\ OverflowRetained'
  BY <1>0 DEF RingGeometry, Wrap, OverflowRetained
<1>15. WordsTrack'
  <2>1. HalfRange \in Int
    BY EpochAssumption DEF HalfRange
  <2>2. ~Native64 => sequence' - retired' <= HalfRange
    BY <1>0, <1>1, <1>4, <2>1 DEF WordsTrack
  <2> QED BY <1>0, <2>2 DEF WordsTrack, Payload
<1>16. CallerConsistent'
  BY <1>0, <1>1, <1>4 DEF CallerConsistent
<1>17. NoSpuriousFailure'
  BY <1>0 DEF NoSpuriousFailure, Exhausted, NextToken
<1> QED
  BY <1>6, <1>7, <1>9, <1>10, <1>11, <1>13, <1>14, <1>15, <1>16, <1>17, ZenonT(30)

-----------------------------------------------------------------------------
(* Accepting a batch: the entries it writes are behind every entry still in *)
(* flight.                                                                 *)

(* What concatenating the entries of a batch yields.                       *)
LEMMA ConcatEntries ==
    ASSUME NEW s \in Seq(Entry), NEW t \in Seq(Entry)
    PROVE  /\ s \o t \in Seq(Entry)
           /\ Len(s \o t) = Len(s) + Len(t)
           /\ \A k \in 1..Len(s) : (s \o t)[k] = s[k]
           /\ \A k \in 1..Len(t) : (s \o t)[Len(s) + k] = t[k]
OBVIOUS

(* Stepping around the ring, and not coming back to the start too early.   *)
LEMMA WrapStep ==
    ASSUME NEW a \in Slots, NEW e \in Nat, e + 1 < QUEUE_ENTRIES
    PROVE  /\ Wrap(Wrap(a + e) + 1) = Wrap(a + (e + 1))
           /\ Wrap(a + (e + 1)) # a
           /\ Wrap(a + (e + 1)) \in Slots
<1>1. QUEUE_ENTRIES \in Nat /\ a \in Nat /\ a < QUEUE_ENTRIES
  BY LedgerAssumption DEF Slots
<1> QED
  BY <1>1 DEF Wrap, Slots

(* The tail slot taken next is a slot no pending batch occupies.           *)
LEMMA NextSlotFree ==
    ASSUME IInv, Len(pending) + 1 < QUEUE_ENTRIES
    PROVE  /\ NextSlot \in Slots
           /\ \A i \in 1..Len(pending) :
                 /\ NextSlot = Wrap(pending[i].slot + (Len(pending) + 1 - i))
                 /\ NextSlot # pending[i].slot
<1> USE DEF IInv
<1> DEFINE n == Len(pending)
<1>1. n \in Nat /\ QUEUE_ENTRIES \in Nat /\ QUEUE_ENTRIES >= 2
  BY FieldTypes, LedgerAssumption
<1>2. CASE n = 0
  <2>1. pending = <<>>
    BY <1>2 DEF TypeOK
  <2> QED BY <2>1, <1>1, <1>2 DEF NextSlot, Slots
<1>3. CASE n # 0
  <2>1. n \in 1..n /\ pending # <<>>
    BY <1>1, <1>3 DEF TypeOK
  <2>2. pending[n].slot \in Nat /\ pending[n].slot < QUEUE_ENTRIES
    BY <2>1, FieldTypes, <1>1 DEF Slots
  <2>3. NextSlot = Wrap(pending[n].slot + 1)
    BY <2>1 DEF NextSlot
  <2>4. NextSlot \in Slots
    BY <2>2, <2>3, <1>1 DEF Wrap, Slots
  <2>5. ASSUME NEW i \in 1..n
        PROVE  /\ NextSlot = Wrap(pending[i].slot + (n + 1 - i))
               /\ NextSlot # pending[i].slot
    <3> DEFINE e == n - i
    <3>1. /\ pending[i].slot \in Slots /\ e \in Nat /\ e + 1 < QUEUE_ENTRIES
          /\ n + 1 - i = e + 1
      BY FieldTypes, <1>1
    <3>2. NextSlot = Wrap(Wrap(pending[i].slot + e) + 1)
      <4>1. CASE i = n
        <5>1. pending[n].slot = Wrap(pending[i].slot + e)
          BY <4>1, <2>2, <1>1 DEF Wrap
        <5> QED BY <5>1, <2>3
      <4>2. CASE i # n
        <5>1. i < n
          BY <4>2, <1>1
        <5>2. pending[n].slot = Wrap(pending[i].slot + e)
          BY <5>1, <2>1 DEF SlotsConsecutive
        <5> QED BY <5>2, <2>3
      <4> QED BY <4>1, <4>2
    <3> HIDE DEF e
    <3>3. /\ Wrap(Wrap(pending[i].slot + e) + 1) = Wrap(pending[i].slot + (e + 1))
          /\ Wrap(pending[i].slot + (e + 1)) # pending[i].slot
      BY <3>1, WrapStep
    <3> QED BY <3>1, <3>2, <3>3
  <2> QED BY <2>4, <2>5
<1> QED BY <1>2, <1>3, ZenonT(30)

(* Each pending batch occupies at least one entry.                         *)
LEMMA PendingBounded ==
    ASSUME IInv
    PROVE  Len(pending) <= used
<1> USE DEF IInv
<1>1. Len(pending) \in Nat /\ used \in Nat /\ written \in Nat
  BY FieldTypes DEF TypeOK
<1>2. CASE pending = <<>>
  BY <1>1, <1>2
<1>3. CASE pending # <<>>
  <2>1. 1 \in 1..Len(pending)
    BY <1>1, <1>3 DEF TypeOK
  <2>2. used = written - pending[1].first /\ pending[1].first \in Nat
        /\ written - pending[1].first >= Len(pending) - 1 + 1
    BY <2>1, <1>3, FieldTypes, ZenonT(30) DEF EntriesAdjacent
  <2> QED BY <2>2, <1>1
<1> QED BY <1>2, <1>3, ZenonT(30)

(* Writing m entries behind L entries in flight hits each new place once   *)
(* and none of the old ones, provided they leave one entry free.           *)
LEMMA RingWrite ==
    ASSUME NEW L \in Nat, NEW m \in Nat, L + m < QUEUE_ENTRIES,
           get \in Slots, put = Wrap(get + L)
    PROVE  /\ \A k \in 1..L : /\ Wrap(get + k - 1) \in Slots
                              /\ FromPut(Wrap(get + k - 1)) > m
           /\ \A j \in 1..m : /\ Wrap(get + (L + j) - 1) \in Slots
                              /\ FromPut(Wrap(get + (L + j) - 1)) = j
           /\ Wrap(put + m) = Wrap(get + (L + m))
           /\ Wrap(put + m) \in Slots
<1>1. QUEUE_ENTRIES \in Nat /\ get \in Nat /\ get < QUEUE_ENTRIES
  BY LedgerAssumption DEF Slots
<1>2. ASSUME NEW k \in 1..L
      PROVE  Wrap(get + k - 1) \in Slots /\ FromPut(Wrap(get + k - 1)) > m
  BY <1>1 DEF Wrap, FromPut, Slots
<1>3. ASSUME NEW j \in 1..m
      PROVE  Wrap(get + (L + j) - 1) \in Slots /\ FromPut(Wrap(get + (L + j) - 1)) = j
  BY <1>1 DEF Wrap, FromPut, Slots
<1>4. Wrap(put + m) = Wrap(get + (L + m)) /\ Wrap(put + m) \in Slots
  BY <1>1 DEF Wrap, Slots
<1> QED
  BY <1>2, <1>3, <1>4

LEMMA PrepareAcceptKeeps ==
    ASSUME IInv, PrepareAccept
    PROVE  IInv'
<1> USE DEF IInv
<1> DEFINE n == Len(pending)
           m == Len(shape)
           L == Len(inflight)
           batch == [token |-> NextToken, entries |-> m, slot |-> NextSlot, first |-> written]
           new == [k \in 1..m |-> BatchEntry(k)]
<1>0. /\ UNCHANGED <<retired, lost, stopped, shape, completed, oldest>>
      /\ UNCHANGED <<get, published, publicWord, retireWord, done, fetched>>
      /\ pc = "prepare" /\ pc' = "idle" /\ ~MustWait
      /\ tail' = [tail EXCEPT ![NextSlot] = NextToken]
      /\ sequence' = NextToken /\ used' = used + m /\ pending' = Append(pending, batch)
      /\ overflow' = IF \E k \in 1..m : shape[k] = "overflow"
                     THEN Append(overflow, NextToken) ELSE overflow
      /\ ring' = [i \in Slots |-> IF FromPut(i) <= m THEN BatchEntry(FromPut(i)) ELSE ring[i]]
      /\ put' = Wrap(put + m) /\ written' = written + m /\ inflight' = inflight \o new
  BY ZenonT(30) DEF PrepareAccept, gpuVars
<1>1. /\ shape \in Shapes /\ shape \in Seq(Kinds) /\ m \in Nat /\ m >= 1
      /\ m = Len(shape)
      /\ \A k \in 1..m : shape[k] \in Kinds /\ (shape[k] = "tail" <=> k = m)
  BY <1>0, LedgerAssumption, SMTT(30) DEF CallerConsistent
<1>2. /\ n \in Nat /\ L \in Nat /\ used \in Nat /\ written \in Nat /\ fetched \in Nat
      /\ sequence \in Nat /\ retired \in Nat /\ done \in Nat /\ QUEUE_ENTRIES \in Nat
      /\ pending \in Seq(Batch) /\ inflight \in Seq(Entry) /\ get \in Slots
      /\ overflow \in Seq(Nat) /\ ring \in [Slots -> Entry] /\ tail \in [Slots -> Nat]
  <2>1. /\ pending \in Seq(Batch) /\ inflight \in Seq(Entry) /\ get \in Slots
        /\ overflow \in Seq(Nat) /\ ring \in [Slots -> Entry] /\ tail \in [Slots -> Nat]
    BY DEF TypeOK
  <2> QED
    BY <2>1, Numbers, ZenonT(30)
<1>a. /\ used' = used + m /\ written' = written + m /\ sequence' = NextToken
      /\ retired' = retired /\ done' = done /\ fetched' = fetched /\ get' = get
      /\ tail' = [tail EXCEPT ![NextSlot] = NextToken] /\ put' = Wrap(put + m)
  BY <1>0, Zenon
<1>b. /\ n \in Nat /\ L \in Nat /\ used \in Nat /\ written \in Nat /\ fetched \in Nat
      /\ sequence \in Nat /\ retired \in Nat /\ done \in Nat /\ QUEUE_ENTRIES \in Nat
  BY <1>2, Zenon
<1>f. ring' = [i \in Slots |-> IF FromPut(i) <= m THEN BatchEntry(FromPut(i)) ELSE ring[i]]
  BY <1>0, Zenon
<1>c. m \in Nat /\ m >= 1
  BY <1>1, ZenonT(30)
<1>3. used + m < QUEUE_ENTRIES
  BY <1>0, <1>1, <1>2 DEF MustWait, RingFull
<1>4. L + m < QUEUE_ENTRIES /\ n + 1 < QUEUE_ENTRIES
  BY <1>1, <1>2, <1>3, InflightBounded, PendingBounded
<1>5. /\ NextToken = sequence + 1 /\ NextToken \in Nat /\ NextSlot \in Slots
      /\ \A i \in 1..n : /\ NextSlot = Wrap(pending[i].slot + (n + 1 - i))
                         /\ NextSlot # pending[i].slot
  BY <1>2, <1>4, NextSlotFree, SMTT(30) DEF NextToken
<1>6. /\ batch \in Batch /\ pending' \in Seq(Batch) /\ Len(pending') = n + 1
      /\ pending'[n + 1] = batch /\ \A i \in 1..n : pending'[i] = pending[i]
  <2>1. batch \in Batch
    BY <1>1, <1>2, <1>5 DEF Batch
  <2> HIDE DEF batch
  <2> QED BY <2>1, <1>0, <1>2, SMTT(30)
<1>d. /\ Len(pending') = n + 1 /\ pending'[n + 1] = batch
      /\ \A i \in 1..n : pending'[i] = pending[i]
  BY <1>6, Zenon
<1>e. NextToken = sequence + 1 /\ NextToken \in Nat /\ NextSlot \in Slots
  BY <1>5, Zenon
<1>7. /\ batch.token = NextToken /\ batch.entries = m
      /\ batch.slot = NextSlot /\ batch.first = written
  BY ZenonT(30)
<1>8. ASSUME NEW k \in 1..m
      PROVE  /\ BatchEntry(k) \in Entry /\ BatchEntry(k).token = NextToken
             /\ BatchEntry(k).kind = shape[k] /\ BatchEntry(k).slot = NextSlot
  BY <1>1, <1>5, ZenonT(30) DEF BatchEntry, Entry
<1>9. /\ inflight' \in Seq(Entry) /\ Len(inflight') = L + m
      /\ \A k \in 1..L : inflight'[k] = inflight[k]
      /\ \A k \in 1..m : inflight'[L + k] = BatchEntry(k)
  <2>1. new \in Seq(Entry) /\ Len(new) = m /\ \A k \in 1..m : new[k] = BatchEntry(k)
    BY <1>1, <1>8
  <2>2. inflight' = inflight \o new
    BY <1>0, SMTT(30)
  <2> HIDE DEF new
  <2>3. /\ inflight \o new \in Seq(Entry)
        /\ Len(inflight \o new) = L + Len(new)
        /\ \A k \in 1..L : (inflight \o new)[k] = inflight[k]
        /\ \A k \in 1..Len(new) : (inflight \o new)[L + k] = new[k]
    BY <2>1, <1>2, ConcatEntries, ZenonT(30)
  <2> QED BY <2>1, <2>2, <2>3, ZenonT(30)
<1> HIDE DEF batch, new
\* Every entry in flight afterwards is an old one or one of the batch.
<1>10. ASSUME NEW k \in 1..Len(inflight')
       PROVE  k \in 1..L \/ \E j \in 1..m : k = L + j
  <2>1. k \in 1..L \/ (k - L \in 1..m /\ k = L + (k - L))
    BY <1>1, <1>2, <1>9, SMTT(30)
  <2> QED BY <2>1, ZenonT(30)
<1>11. RingGeometry' /\ put' \in Slots /\ ring' \in [Slots -> Entry]
  <2>1. put = Wrap(get + L)
    BY DEF RingGeometry
  <2>2. /\ \A k \in 1..L : /\ Wrap(get + k - 1) \in Slots
                           /\ FromPut(Wrap(get + k - 1)) > m
        /\ \A j \in 1..m : /\ Wrap(get + (L + j) - 1) \in Slots
                           /\ FromPut(Wrap(get + (L + j) - 1)) = j
        /\ Wrap(put + m) = Wrap(get + (L + m))
        /\ Wrap(put + m) \in Slots
    <3> HIDE DEF L, m
    <3> QED BY <2>1, <1>1, <1>2, <1>4, RingWrite, Zenon
  <2>3. ring' \in [Slots -> Entry]
    <3>1. ASSUME NEW i \in Slots
          PROVE  (IF FromPut(i) <= m THEN BatchEntry(FromPut(i)) ELSE ring[i]) \in Entry
      <4>1. put \in Slots /\ FromPut(i) \in Nat /\ FromPut(i) >= 1
        BY <1>2 DEF TypeOK, FromPut, Slots
      <4> QED BY <4>1, <1>1, <1>2, <1>8
    <3> QED BY <3>1, <1>f, ZenonT(30)
  <2>4. ASSUME NEW k \in 1..Len(inflight')
        PROVE  ring'[Wrap(get + k - 1)] = inflight'[k]
    <3>1. CASE k \in 1..L
      <4>1. ring'[Wrap(get + k - 1)] = ring[Wrap(get + k - 1)]
        <5>1. Wrap(get + k - 1) \in Slots /\ FromPut(Wrap(get + k - 1)) > m
          BY <2>2, <3>1
        <5>2. put \in Slots
          BY DEF TypeOK
        <5>3. ~(FromPut(Wrap(get + k - 1)) <= m)
          BY <5>1, <5>2, <1>b, <1>c DEF FromPut, Slots
        <5> QED BY <5>1, <5>3, <1>f, ZenonT(30)
      <4>2. ring[Wrap(get + k - 1)] = inflight[k]
        BY <3>1 DEF RingGeometry
      <4> QED BY <4>1, <4>2, <3>1, <1>9
    <3>2. CASE \E j \in 1..m : k = L + j
      <4>1. PICK j \in 1..m : k = L + j
        BY <3>2, ZenonT(30)
      <4>2. Wrap(get + k - 1) \in Slots /\ FromPut(Wrap(get + k - 1)) = j
        BY <4>1, <2>2
      <4>3. j <= m /\ j \in Nat
        BY <1>1
      <4>4. ring'[Wrap(get + k - 1)] = BatchEntry(j)
        BY <4>2, <4>3, <1>f, ZenonT(30)
      <4> QED BY <4>1, <4>4, <1>9
    <3> QED BY <3>1, <3>2, <1>10, ZenonT(30)
  <2>5. put' = Wrap(get' + Len(inflight')) /\ get' = get
    BY <2>2, <1>a, <1>9
  <2>6. put' \in Slots
    BY <2>2, <1>a, Zenon
  <2> QED BY <2>3, <2>4, <2>5, <2>6 DEF RingGeometry, Wrap
<1>12. TypeOK'
  <2>0. overflow' = overflow \/ overflow' = Append(overflow, NextToken)
    BY <1>0, Zenon
  <2>1. overflow' \in Seq(Nat) /\ tail' \in [Slots -> Nat]
    <3>1. Append(overflow, NextToken) \in Seq(Nat)
      <4>1. overflow \in Seq(Nat) /\ NextToken \in Nat
        BY <1>2, <1>e, Zenon
      <4> QED BY <4>1
    <3>2. overflow' \in Seq(Nat)
      BY <2>0, <3>1, <1>2, Zenon
    <3>3. tail' \in [Slots -> Nat]
      <4>1. tail \in [Slots -> Nat]
        BY <1>2, Zenon
      <4> QED BY <4>1, <1>a, <1>e
    <3> QED BY <3>2, <3>3
  <2>2. used' \in Nat /\ written' \in Nat /\ sequence' \in Nat
    BY <1>a, <1>b, <1>c, <1>e
  <2>3. pending' \in Seq(Batch) /\ inflight' \in Seq(Entry)
    BY <1>6, <1>9, Zenon
  <2>4. /\ UNCHANGED <<retired, lost, stopped, shape, completed, oldest>>
        /\ UNCHANGED <<get, published, publicWord, retireWord, done, fetched>>
        /\ pc' = "idle"
    BY <1>0, Zenon
  <2> QED BY <2>1, <2>2, <2>3, <2>4, <1>11, ZenonT(30) DEF TypeOK
<1>13. TokensConsecutive'
  <2>1. sequence = retired + n /\ sequence' = sequence + 1 /\ retired' = retired
    BY <1>a, <1>e, ZenonT(30) DEF TokensConsecutive
  <2>2. ASSUME NEW i \in 1..Len(pending') PROVE pending'[i].token = retired' + i
    <3>1. CASE i \in 1..n
      BY <3>1, <2>1, <1>d, Zenon DEF TokensConsecutive
    <3>2. CASE i = n + 1
      <4>1. pending'[i].token = NextToken
        BY <3>2, <1>d, <1>7, Zenon
      <4> QED BY <4>1, <3>2, <2>1, <1>b, <1>e
    <3> QED BY <3>1, <3>2, <1>b, <1>d
  <2>3. sequence' = retired' + Len(pending')
    BY <2>1, <1>b, <1>d
  <2> QED BY <2>2, <2>3, ZenonT(30) DEF TokensConsecutive
<1>14. ASSUME NEW i \in 1..Len(pending')
       PROVE  \/ /\ i \in 1..n /\ pending'[i] = pending[i] /\ End(i)' = End(i)
              \/ /\ i = n + 1 /\ pending'[i] = batch /\ End(i)' = written + m
  <2>1. i \in 1..n \/ i = n + 1
    BY <1>b, <1>d, SMTT(30)
  <2> QED BY <2>1, <1>d, <1>7, ZenonT(30) DEF End
<1>15. EntriesAdjacent'
  <2>1. ASSUME NEW i \in 1..Len(pending')
        PROVE  /\ pending'[i].entries >= 1
               /\ End(i)' = IF i = Len(pending') THEN written' ELSE pending'[i + 1].first
               /\ written' - pending'[i].first >= Len(pending') - i + 1
               /\ End(i)' <= written'
    <3>0. written' = written + m /\ Len(pending') = n + 1
      BY <1>a, <1>d, ZenonT(30)
    <3>1. CASE i \in 1..n
      <4>1. /\ pending[i].entries >= 1
            /\ End(i) = IF i = n THEN written ELSE pending[i + 1].first
            /\ written - pending[i].first >= n - i + 1
            /\ End(i) <= written /\ End(i) \in Nat /\ pending[i].first \in Nat
        <5>1. End(i) \in Nat /\ pending[i].first \in Nat
          BY <3>1, FieldTypes, Zenon
        <5> QED BY <5>1, <3>1, Zenon DEF EntriesAdjacent
      <4>2. pending'[i] = pending[i] /\ End(i)' = End(i) /\ i # n + 1 /\ i \in Nat
        BY <3>1, <1>b, <1>d, SMTT(30) DEF End
      <4>3. pending'[i + 1].first = IF i = n THEN written ELSE pending[i + 1].first
        <5>1. CASE i = n
          BY <5>1, <1>d, <1>7, ZenonT(30)
        <5>2. CASE i # n
          <6>1. i + 1 \in 1..n
            BY <3>1, <5>2, <1>b
          <6> QED BY <6>1, <5>2, <1>d
        <5> QED BY <5>1, <5>2, ZenonT(30)
      <4>4. written + m - pending[i].first >= (n + 1) - i + 1 /\ End(i) <= written + m
        <5>1. /\ written - pending[i].first >= n - i + 1 /\ End(i) <= written
              /\ End(i) \in Nat /\ pending[i].first \in Nat /\ i \in Nat
              /\ m \in Nat /\ m >= 1 /\ n \in Nat /\ written \in Nat
          BY <4>1, <4>2, <1>c, <1>b, SMTT(30)
        <5> HIDE DEF n, m
        <5> QED BY <5>1, SMTT(30)
      <4>5. i # Len(pending')
        BY <4>2, <3>0, ZenonT(30)
      <4>6. pending'[i].entries >= 1 /\ pending'[i].first = pending[i].first
        BY <4>1, <4>2, ZenonT(30)
      <4>7. End(i)' = pending'[i + 1].first
        BY <4>1, <4>2, <4>3, ZenonT(30)
      <4>8. written' - pending'[i].first >= Len(pending') - i + 1
        BY <4>1, <4>2, <4>4, <4>6, <3>0, <1>c, <1>b
      <4>9. End(i)' <= written'
        BY <4>2, <4>4, <3>0
      <4> QED BY <4>5, <4>6, <4>7, <4>8, <4>9, SMTT(30)
    <3>2. CASE i = n + 1
      <4>1. /\ pending'[i].entries = m /\ pending'[i].first = written
            /\ End(i)' = written + m
        BY <3>2, <1>d, <1>7 DEF End
      <4>2. written + m - written >= (n + 1) - (n + 1) + 1 /\ written + m <= written + m
        BY <1>c, <1>b
      <4>3. pending'[i].entries >= 1 /\ i = Len(pending')
        BY <4>1, <3>0, <3>2, <1>c, ZenonT(30)
      <4>4. End(i)' = written'
        BY <4>1, <3>0, ZenonT(30)
      <4>5. written' - pending'[i].first >= Len(pending') - i + 1
        BY <4>1, <3>0, <3>2, <1>c, <1>b
      <4>6. End(i)' <= written'
        BY <4>1, <4>2, <3>0, ZenonT(30)
      <4> QED BY <4>3, <4>4, <4>5, <4>6
    <3> QED BY <3>1, <3>2, <1>14, SMTT(30)
  <2>2. ASSUME NEW i \in 1..Len(pending'), NEW j \in 1..Len(pending'), i < j
        PROVE  End(i)' <= pending'[j].first
    <3>0. i # n + 1
      BY <2>2, <1>b, <1>d
    <3>1. i \in 1..n /\ End(i)' = End(i)
      BY <3>0, <1>14
    <3>2. CASE j \in 1..n
      BY <3>1, <3>2, <2>2, <1>d, Zenon DEF EntriesAdjacent
    <3>3. CASE j = n + 1
      <4>1. pending'[j].first = written
        BY <3>3, <1>d, <1>7
      <4> QED BY <4>1, <3>1 DEF EntriesAdjacent
    <3> QED BY <3>2, <3>3, <1>14
  <2>3. used' = IF pending' = <<>> THEN 0 ELSE written' - pending'[1].first
    <3>1. pending' # <<>> /\ used' = used + m /\ written' = written + m
      BY <1>a, <1>b, <1>d
    <3>2. CASE n = 0
      <4>1. pending = <<>> /\ pending'[1].first = written
        BY <3>2, <1>b, <1>d, <1>7
      <4>2. used = 0
        BY <4>1 DEF EntriesAdjacent
      <4> QED BY <4>1, <4>2, <3>1, <1>c, <1>b
    <3>3. CASE n # 0
      <4>1. pending # <<>> /\ 1 \in 1..n
        BY <3>3, <1>b, SMTT(30)
      <4>2. used = written - pending[1].first /\ pending'[1] = pending[1]
            /\ pending[1].first \in Nat
        BY <4>1, <1>d, FieldTypes, ZenonT(30) DEF EntriesAdjacent
      <4>3. used + m = (written + m) - pending[1].first
        BY <4>2, <1>c, <1>b, SMTT(30)
      <4>4. used' = written' - pending'[1].first
        <5>1. pending'[1].first = pending[1].first
          BY <4>2
        <5>2. used' = used + m /\ written' = written + m
          BY <3>1
        <5>3. used' = (written + m) - pending[1].first
          BY <5>2, <4>3
        <5>4. written' - pending'[1].first = (written + m) - pending[1].first
          BY <5>1, <5>2
        <5> QED BY <5>3, <5>4, ZenonT(30)
      <4> QED BY <4>4, <3>1
    <3> QED BY <3>2, <3>3
  <2>4. used' < QUEUE_ENTRIES
    BY <1>a, <1>3, ZenonT(30)
  <2> QED BY <2>1, <2>2, <2>3, <2>4 DEF EntriesAdjacent
<1>16. SlotsConsecutive'
  <2>1. ASSUME NEW i \in 1..Len(pending'), NEW j \in 1..Len(pending'), i < j
        PROVE  pending'[j].slot = Wrap(pending'[i].slot + (j - i))
    <3>0. i # n + 1
      BY <2>1, <1>b, <1>d
    <3>1. i \in 1..n /\ pending'[i] = pending[i]
      BY <3>0, <1>14, ZenonT(30)
    <3>2. CASE j \in 1..n
      BY <3>1, <3>2, <2>1, <1>d, SMTT(30) DEF SlotsConsecutive
    <3>3. CASE j = n + 1
      <4>1. NextSlot = Wrap(pending[i].slot + (n + 1 - i))
        BY <3>1, <1>5, ZenonT(30)
      <4>2. pending'[j].slot = NextSlot
        BY <3>3, <1>d, <1>7
      <4>3. j - i = n + 1 - i
        BY <3>3
      <4> QED BY <4>1, <4>2, <4>3, <3>1, ZenonT(30)
    <3> QED BY <3>2, <3>3, <1>14, ZenonT(30)
  <2>2. ASSUME NEW i \in 1..Len(pending')
        PROVE  tail'[pending'[i].slot] = pending'[i].token
    <3>1. CASE i \in 1..n
      <4>1. pending[i].slot \in Slots /\ pending[i].slot # NextSlot
        BY <3>1, <1>5, FieldTypes, ZenonT(30)
      <4>2. tail'[pending[i].slot] = tail[pending[i].slot]
        BY <4>1, <1>a, <1>2
      <4> QED BY <4>2, <3>1, <1>d, ZenonT(30) DEF SlotsConsecutive
    <3>2. CASE i = n + 1
      <4>1. pending'[i].slot = NextSlot /\ pending'[i].token = NextToken
        BY <3>2, <1>d, <1>7, Zenon
      <4>2. tail'[NextSlot] = NextToken
        BY <1>a, <1>e, <1>2
      <4> QED BY <4>1, <4>2, Zenon
    <3> QED BY <3>1, <3>2, <1>14, ZenonT(30)
  <2> QED BY <2>1, <2>2 DEF SlotsConsecutive, Wrap
<1>17. GpuPosition'
  <2>1. /\ sequence = retired + n /\ retired <= done /\ done <= sequence
        /\ retired' = retired /\ done' = done /\ fetched' = fetched
        /\ sequence' = sequence + 1
    BY <1>a, <1>5, Zenon DEF GpuPosition, TokensConsecutive
  <2>2. retired' <= done' /\ done' <= sequence' /\ done' # sequence'
    BY <2>1, <1>b, SMTT(30)
  <2>3. CASE done = sequence
    <3>1. done' + 1 - retired' = n + 1 /\ fetched' = written
      BY <2>1, <2>3, <1>b DEF GpuPosition
    <3>2. pending'[n + 1].first = written /\ pending'[n + 1].entries = m
      BY <1>d, <1>7
    <3>3. written <= written /\ written < written + m
      BY <1>c, <1>b, SMTT(30)
    <3> QED BY <2>2, <3>1, <3>2, <3>3, ZenonT(30) DEF GpuPosition, End
  <2>4. CASE done # sequence
    <3> DEFINE d == done + 1 - retired
    <3>1. d \in 1..n
      BY <2>1, <2>4, <1>b
    <3>2. pending'[d] = pending[d] /\ done' + 1 - retired' = d
      BY <3>1, <2>1, <1>d, ZenonT(30)
    <3>3. pending[d].first <= fetched /\ fetched < pending[d].first + pending[d].entries
      BY <2>4 DEF GpuPosition, End
    <3> QED BY <2>1, <2>2, <3>2, <3>3 DEF GpuPosition, End
  <2> QED BY <2>3, <2>4
<1>18. InflightBelongs'
  <2>0. /\ Len(inflight) = written - fetched /\ written' = written + m
        /\ fetched' = fetched /\ retired' = retired
    BY <1>a, ZenonT(30) DEF InflightBelongs
  <2>1. Len(inflight') = written' - fetched'
    BY <2>0, <1>c, <1>b, <1>9
  <2>2. ASSUME NEW k \in 1..Len(inflight') PROVE InflightOf(k)'
    <3>1. CASE k \in 1..L
      <4> DEFINE i == inflight[k].token - retired
      <4>1. /\ i \in 1..n
            /\ pending[i].first < fetched + k /\ fetched + k <= End(i)
            /\ inflight[k].slot = pending[i].slot
            /\ (inflight[k].kind = "tail") <=> (fetched + k = End(i))
        BY <3>1, ZenonT(30) DEF InflightBelongs, InflightOf
      <4>2. inflight'[k] = inflight[k] /\ pending'[i] = pending[i] /\ i \in 1..Len(pending')
        <5> HIDE DEF IInv, n, L, i
        <5>1. inflight'[k] = inflight[k]
          BY <3>1, <1>9, Zenon
        <5>2. pending'[i] = pending[i]
          BY <4>1, <1>d, ZenonT(30)
        <5>3. i \in 1..Len(pending')
          BY <4>1, <1>b, <1>d, SMTT(30)
        <5> QED BY <5>1, <5>2, <5>3, Zenon
      <4> QED BY <4>1, <4>2, <2>0, ZenonT(30) DEF InflightOf, End
    <3>2. CASE \E j \in 1..m : k = L + j
      <4>1. PICK j \in 1..m : k = L + j
        BY <3>2
      <4>2. inflight'[k].token = NextToken /\ inflight'[k].kind = shape[j]
            /\ inflight'[k].slot = NextSlot
        BY <4>1, <1>8, <1>9, ZenonT(30)
      <4>3. inflight'[k].token - retired' = n + 1 /\ n + 1 \in 1..Len(pending')
        BY <4>2, <2>0, <1>b, <1>5, <1>d DEF TokensConsecutive
      <4>4. fetched + k = written + j /\ j \in Nat /\ j >= 1 /\ j <= m
        <5>1. L = written - fetched /\ L \in Nat /\ m \in Nat
          BY <2>0, <1>c, <1>b, ZenonT(30)
        <5> HIDE DEF L, m
        <5> QED BY <5>1, <4>1, <1>b
      <4>5. /\ pending'[n + 1].first = written /\ pending'[n + 1].entries = m
            /\ pending'[n + 1].slot = NextSlot
        BY <1>d, <1>7, ZenonT(30)
      <4>6. written < written + j /\ written + j <= written + m
            /\ (j = m <=> written + j = written + m)
        <5>1. m \in Nat
          BY <1>c
        <5> HIDE DEF m
        <5> QED BY <5>1, <4>4, <1>b
      <4>7. shape[j] = "tail" <=> j = m
        BY <1>1
      <4> QED BY <4>2, <4>3, <4>4, <4>5, <4>6, <4>7, <2>0, ZenonT(30) DEF InflightOf, End
    <3> QED BY <3>1, <3>2, <1>10, SMTT(30)
  <2> QED BY <2>1, <2>2 DEF InflightBelongs
<1>19. OverflowRetained'
  <2> SUFFICES ASSUME NEW k \in 1..Len(inflight'), inflight'[k].kind = "overflow"
               PROVE  \E i \in 1..Len(overflow') : overflow'[i] = inflight'[k].token
    BY ZenonT(30) DEF OverflowRetained
  <2>1. CASE k \in 1..L
    <3>1. PICK i \in 1..Len(overflow) : overflow[i] = inflight[k].token
      BY <2>1, <1>9, SMTT(30) DEF OverflowRetained
    <3>2. overflow' = overflow \/ overflow' = Append(overflow, NextToken)
      BY <1>0, Zenon
    <3>3. CASE overflow' = overflow
      BY <3>1, <3>3, <2>1, <1>9, Zenon
    <3>4. CASE overflow' = Append(overflow, NextToken)
      <4>1. overflow \in Seq(Nat) /\ NextToken \in Nat
        BY <1>2, <1>e, Zenon
      <4>2. i \in 1..Len(overflow') /\ overflow'[i] = overflow[i]
        BY <4>1, <3>4
      <4> QED BY <4>2, <3>1, <2>1, <1>9, Zenon
    <3> QED BY <3>2, <3>3, <3>4, ZenonT(30)
  <2>2. CASE \E j \in 1..m : k = L + j
    <3>1. PICK j \in 1..m : k = L + j
      BY <2>2, ZenonT(30)
    <3>2. inflight'[k].token = NextToken /\ shape[j] = "overflow"
      BY <3>1, <1>8, <1>9, ZenonT(30)
    <3>3. overflow' = Append(overflow, NextToken)
      BY <3>2, <1>0, ZenonT(30)
    <3>4. Len(overflow) + 1 \in 1..Len(overflow') /\ overflow'[Len(overflow) + 1] = NextToken
      BY <3>3, <1>b, SMTT(30)
    <3> QED BY <3>2, <3>4, ZenonT(30)
  <2> QED BY <2>1, <2>2, <1>10, ZenonT(30)
<1>20. WordsTrack'
  <2>1. HalfRange \in Int /\ HalfRange >= 1
    BY EpochAssumption DEF HalfRange
  <2>2. ~Native64 => sequence' - retired' <= HalfRange
    <3> SUFFICES ASSUME ~Native64 PROVE NextToken - retired <= HalfRange
      BY <1>0
    <3>1. CASE pending = <<>>
      BY <3>1, <2>1, <1>b, <1>5 DEF TokensConsecutive
    <3>2. CASE pending # <<>>
      <4>1. Exhausted \/ ~TooFar
        BY <3>2, <1>0, ZenonT(30) DEF MustWait
      <4>2. ~Exhausted
        BY <1>0, ZenonT(30) DEF PrepareAccept, MustFail, MustWait
      <4> QED BY <4>1, <4>2, <2>1, <1>b, <1>5 DEF TooFar
    <3> QED BY <3>1, <3>2, ZenonT(30)
  <2> QED BY <1>0, <2>2 DEF WordsTrack, Payload
<1>21. CallerConsistent'
  BY <1>0, <1>1, ZenonT(30) DEF CallerConsistent
<1>22. NoSpuriousFailure'
  <2>1. lost => NextToken + 1 > MaxToken
    BY <1>b, <1>5, LedgerAssumption, SMTT(30) DEF NoSpuriousFailure, Exhausted
  <2> QED BY <1>0, <2>1, ZenonT(30) DEF NoSpuriousFailure, Exhausted, NextToken
<1> QED
  BY <1>11, <1>12, <1>13, <1>15, <1>16, <1>17, <1>18, <1>19, <1>20, <1>21, <1>22, ZenonT(30)

-----------------------------------------------------------------------------
(* The GPU, the inductive invariant and what follows from it.              *)

(* What the GPU finds at GET: the next entry of the batch after `done`,    *)
(* with its commands intact, and the tail exactly at that batch's end.     *)
LEMMA GpuHead ==
    ASSUME IInv, get # put
    PROVE  /\ Len(inflight) >= 1 /\ inflight # <<>>
           /\ ring[get] = inflight[1]
           /\ done + 1 <= sequence
           /\ done + 1 - retired \in 1..Len(pending)
           /\ inflight[1].token = done + 1
           /\ tail[ring[get].slot] = done + 1
           /\ fetched + 1 <= End(done + 1 - retired)
           /\ (ring[get].kind = "tail") <=> (fetched + 1 = End(done + 1 - retired))
<1> USE DEF IInv
<1> DEFINE n == Len(pending)
           d == done + 1 - retired
           i == inflight[1].token - retired
<1>1. /\ get \in Nat /\ get < QUEUE_ENTRIES /\ QUEUE_ENTRIES \in Nat
      /\ done \in Nat /\ retired \in Nat /\ sequence \in Nat
      /\ written \in Nat /\ fetched \in Nat /\ n \in Nat /\ Len(inflight) \in Nat
  BY Numbers, ZenonT(30)
<1>2. Len(inflight) >= 1 /\ 1 \in 1..Len(inflight) /\ inflight # <<>>
  <2>1. Len(inflight) # 0
    BY <1>1, SMTT(30) DEF RingGeometry, Wrap
  <2> QED BY <2>1, <1>1 DEF TypeOK
<1>3. ring[get] = inflight[1]
  <2>1. ring[Wrap(get + 1 - 1)] = inflight[1]
    BY <1>2 DEF RingGeometry
  <2>2. Wrap(get + 1 - 1) = get
    BY <1>1 DEF Wrap
  <2> QED BY <2>1, <2>2
<1>4. done # sequence
  BY <1>1, <1>2 DEF GpuPosition, InflightBelongs
<1>5. d \in 1..n /\ done + 1 <= sequence
  <2>1. sequence = retired + n /\ done <= sequence /\ retired <= done
    BY ZenonT(30) DEF GpuPosition, TokensConsecutive
  <2> QED BY <2>1, <1>1, <1>4
<1>6. pending[d].first <= fetched /\ fetched < End(d)
  BY <1>4, ZenonT(30) DEF GpuPosition
<1>7. /\ i \in 1..n /\ pending[i].first < fetched + 1 /\ fetched + 1 <= End(i)
      /\ inflight[1].slot = pending[i].slot
      /\ (inflight[1].kind = "tail") <=> (fetched + 1 = End(i))
  BY <1>2, ZenonT(30) DEF InflightBelongs, InflightOf
<1>8. /\ pending[d].first \in Nat /\ End(d) \in Nat
      /\ pending[i].first \in Nat /\ End(i) \in Nat /\ inflight[1].token \in Nat
  BY <1>2, <1>5, <1>7, FieldTypes, ZenonT(30)
<1>9. i = d
  <2>0. /\ pending[i].first < fetched + 1 /\ fetched + 1 <= End(i) /\ fetched \in Nat
        /\ i \in 1..n /\ d \in 1..n
    BY <1>1, <1>5, <1>7, ZenonT(30)
  <2> HIDE DEF i, d
  <2>1. ASSUME i < d PROVE FALSE
    <3>1. End(i) <= pending[d].first
      BY <2>1, <2>0, ZenonT(30) DEF EntriesAdjacent
    <3> QED BY <3>1, <2>0, <1>6, <1>8
  <2>2. ASSUME d < i PROVE FALSE
    <3>1. End(d) <= pending[i].first
      BY <2>2, <2>0 DEF EntriesAdjacent
    <3> QED BY <3>1, <2>0, <1>6, <1>8, SMTT(30)
  <2> QED BY <2>0, <2>1, <2>2, SMTT(30)
<1>10. inflight[1].token = done + 1
  BY <1>1, <1>8, <1>9, SMTT(30)
<1>11. tail[inflight[1].slot] = done + 1
  <2>1. tail[pending[d].slot] = pending[d].token
    BY <1>5, ZenonT(30) DEF SlotsConsecutive
  <2>2. pending[d].token = retired + d
    BY <1>5, ZenonT(30) DEF TokensConsecutive
  <2> QED BY <2>1, <2>2, <1>1, <1>7, <1>9, SMTT(30)
<1> QED
  BY <1>2, <1>3, <1>5, <1>7, <1>9, <1>10, <1>11

(* Consuming the entry at GET keeps ring and history aligned.              *)
LEMMA AdvanceKeeps ==
    ASSUME IInv, get # put,
           get' = Wrap(get + 1), fetched' = fetched + 1, inflight' = Tail(inflight),
           UNCHANGED <<put, ring, tail, written>>,
           UNCHANGED <<sequence, retired, used, pending, overflow>>
    PROVE  /\ get' \in Slots /\ fetched' \in Nat /\ inflight' \in Seq(Entry)
           /\ InflightBelongs' /\ RingGeometry' /\ OverflowRetained'
<1> USE DEF IInv
<1> DEFINE n == Len(inflight)
<1>1. /\ get \in Nat /\ get < QUEUE_ENTRIES /\ QUEUE_ENTRIES \in Nat
      /\ written \in Nat /\ fetched \in Nat /\ n \in Nat /\ n >= 1
      /\ inflight \in Seq(Entry) /\ inflight # <<>> /\ n < QUEUE_ENTRIES
  <2>1. n >= 1 /\ inflight # <<>>
    BY GpuHead
  <2>2. n < QUEUE_ENTRIES
    BY InflightBounded
  <2> QED BY <2>1, <2>2, LedgerAssumption, SMTT(30) DEF TypeOK, Slots
<1>2. /\ inflight' \in Seq(Entry) /\ Len(inflight') = n - 1
      /\ \A k \in 1..(n - 1) : k + 1 \in 1..n /\ inflight'[k] = inflight[k + 1]
  BY <1>1
<1>3. get' \in Slots /\ fetched' \in Nat
  BY <1>1, SMTT(30) DEF Wrap, Slots
<1>4. ASSUME NEW k \in 1..Len(inflight')
      PROVE  k + 1 \in 1..n /\ k \in Nat /\ inflight'[k] = inflight[k + 1]
  BY <1>1, <1>2
<1>5. InflightBelongs'
  <2>1. Len(inflight') = written' - fetched'
    BY <1>1, <1>2, SMTT(30) DEF InflightBelongs
  <2>2. ASSUME NEW k \in 1..Len(inflight') PROVE InflightOf(k)'
    <3>1. InflightOf(k + 1)
      BY <1>4, Zenon DEF InflightBelongs
    <3>2. fetched' + k = fetched + (k + 1)
      BY <1>1, <1>4
    <3> QED BY <1>4, <3>1, <3>2, Zenon DEF InflightOf, End
  <2> QED BY <2>1, <2>2, ZenonT(30) DEF InflightBelongs
<1>6. RingGeometry'
  <2>1. put = Wrap(get + n)
    BY ZenonT(30) DEF RingGeometry
  <2>2. Wrap(get + n) = Wrap(Wrap(get + 1) + (n - 1))
    BY <1>1, SMTT(30) DEF Wrap
  <2>3. put' = Wrap(get' + Len(inflight'))
    BY <2>1, <2>2, <1>2, ZenonT(30)
  <2>4. ASSUME NEW k \in 1..Len(inflight')
        PROVE  ring'[Wrap(get' + k - 1)] = inflight'[k]
    <3>1. ring[Wrap(get + (k + 1) - 1)] = inflight[k + 1]
      BY <1>4, ZenonT(30) DEF RingGeometry
    <3>2. k \in Nat /\ k >= 1 /\ k + 1 <= n
      BY <1>1, <1>4
    <3>3. Wrap(get + (k + 1) - 1) = Wrap(Wrap(get + 1) + k - 1)
      BY <1>1, <3>2 DEF Wrap
    <3>4. ring' = ring /\ Wrap(get' + k - 1) = Wrap(Wrap(get + 1) + k - 1)
      OBVIOUS
    <3> QED BY <3>1, <3>3, <3>4, <1>4, ZenonT(30)
  <2> QED BY <2>3, <2>4, ZenonT(30) DEF RingGeometry, Wrap
<1>7. OverflowRetained'
  BY <1>4 DEF OverflowRetained
<1> QED
  BY <1>2, <1>3, <1>5, <1>6, <1>7, ZenonT(30)

LEMMA GpuPushKeeps ==
    ASSUME IInv, GpuPush
    PROVE  IInv'
<1> USE DEF IInv
<1>0. /\ UNCHANGED <<sequence, retired, used, pending, overflow>>
      /\ UNCHANGED <<put, ring, tail, written, pc, shape, completed, oldest>>
      /\ UNCHANGED <<lost, stopped, published, publicWord, retireWord, done>>
      /\ get # put /\ ring[get].kind # "tail"
      /\ get' = Wrap(get + 1) /\ fetched' = fetched + 1 /\ inflight' = Tail(inflight)
  BY ZenonT(30) DEF GpuPush, ledgerVars, ringVars, callVars
<1>1. /\ get' \in Slots /\ fetched' \in Nat /\ inflight' \in Seq(Entry)
      /\ InflightBelongs' /\ RingGeometry' /\ OverflowRetained'
  BY <1>0, AdvanceKeeps, ZenonT(30)
<1>2. TypeOK'
  BY <1>0, <1>1, SMTT(30) DEF TypeOK
<1>3. TokensConsecutive' /\ EntriesAdjacent' /\ SlotsConsecutive'
  <2>1. TokensConsecutive'
    BY <1>0, ZenonT(30) DEF TokensConsecutive
  <2>2. EntriesAdjacent'
    BY <1>0 DEF EntriesAdjacent, End
  <2>3. SlotsConsecutive'
    BY <1>0, Zenon DEF SlotsConsecutive
  <2> QED
    BY <2>1, <2>2, <2>3, ZenonT(30)
<1>4. GpuPosition'
  <2> DEFINE d == done + 1 - retired
  <2>1. /\ done + 1 <= sequence /\ d \in 1..Len(pending)
        /\ fetched + 1 <= End(d) /\ fetched + 1 # End(d)
    BY <1>0, GpuHead, ZenonT(30)
  <2>2. done # sequence /\ done \in Nat /\ sequence \in Nat /\ fetched \in Nat
    BY <2>1, SMTT(30) DEF TypeOK
  <2>3. pending[d].first <= fetched /\ pending[d].first \in Nat /\ End(d) \in Nat
    BY <2>1, <2>2, FieldTypes, ZenonT(30) DEF GpuPosition
  <2>4. pending[d].first <= fetched + 1 /\ fetched + 1 < End(d)
    BY <2>1, <2>2, <2>3, SMTT(30)
  <2> QED BY <1>0, <2>2, <2>4, ZenonT(30) DEF GpuPosition, End
<1>5. WordsTrack' /\ CallerConsistent'
  <2>1. WordsTrack'
    BY <1>0, ZenonT(30) DEF WordsTrack, Payload
  <2>2. CallerConsistent'
    BY <1>0, ZenonT(30) DEF CallerConsistent
  <2> QED
    BY <2>1, <2>2
<1>6. NoSpuriousFailure'
  BY <1>0, ZenonT(30) DEF NoSpuriousFailure, Exhausted, NextToken
<1> QED
  BY <1>1, <1>2, <1>3, <1>4, <1>5, <1>6, ZenonT(30)

LEMMA GpuPublishKeeps ==
    ASSUME IInv, GpuPublish
    PROVE  IInv'
<1> USE DEF IInv
<1>0. /\ UNCHANGED <<sequence, retired, used, pending, overflow, inflight>>
      /\ UNCHANGED <<put, ring, tail, written, pc, shape, completed, oldest>>
      /\ UNCHANGED <<lost, stopped, get, retireWord, done, fetched>>
      /\ get # put /\ published' = TRUE
      /\ publicWord' = Payload(tail[ring[get].slot])
  BY Zenon DEF GpuPublish, ledgerVars, ringVars, callVars
<1>1. publicWord' = Payload(done + 1) /\ done + 1 <= sequence
  BY <1>0, GpuHead, Zenon
<1>2. Payload(done + 1) \in Nat
  BY EpochAssumption, SMTT(30) DEF Payload, Low, TypeOK
<1>3. TypeOK'
  BY <1>0, <1>1, <1>2, SMTT(30) DEF TypeOK
<1>4. TokensConsecutive' /\ EntriesAdjacent' /\ SlotsConsecutive'
  BY <1>0, ZenonT(30) DEF TokensConsecutive, EntriesAdjacent, End, SlotsConsecutive, Wrap
<1>5. GpuPosition'
  <2>1. done # sequence
    BY <1>1 DEF TypeOK
  <2> QED BY <2>1, <1>0, Zenon DEF GpuPosition, End
<1>6. InflightBelongs' /\ RingGeometry' /\ OverflowRetained'
  BY <1>0, ZenonT(30) DEF InflightBelongs, InflightOf, End, RingGeometry, Wrap, OverflowRetained
<1>7. WordsTrack' /\ CallerConsistent'
  BY <1>0, <1>1, ZenonT(30) DEF WordsTrack, Payload, CallerConsistent
<1>8. NoSpuriousFailure'
  BY <1>0, Zenon DEF NoSpuriousFailure, Exhausted, NextToken
<1> QED
  BY <1>3, <1>4, <1>5, <1>6, <1>7, <1>8, SMTT(30)

(* The tail of the batch after `done` releases exactly the next token.     *)
LEMMA GpuRetireKeeps ==
    ASSUME IInv, GpuRetire
    PROVE  IInv' /\ done' = done + 1
<1> USE DEF IInv
<1> DEFINE n == Len(pending)
           d == done + 1 - retired
<1>0. /\ UNCHANGED <<sequence, retired, used, pending, overflow>>
      /\ UNCHANGED <<put, ring, tail, written, pc, shape, completed, oldest>>
      /\ UNCHANGED <<lost, stopped, publicWord>>
      /\ get # put /\ ring[get].kind = "tail" /\ published' = FALSE
      /\ retireWord' = Payload(tail[ring[get].slot])
      /\ done' = tail[ring[get].slot]
      /\ get' = Wrap(get + 1) /\ fetched' = fetched + 1 /\ inflight' = Tail(inflight)
  BY Zenon DEF GpuRetire, ledgerVars, ringVars, callVars
<1>0a. published
  BY Zenon DEF GpuRetire
<1>1. /\ get' \in Slots /\ fetched' \in Nat /\ inflight' \in Seq(Entry)
      /\ InflightBelongs' /\ RingGeometry' /\ OverflowRetained'
  <2>1. /\ UNCHANGED <<put, ring, tail, written>>
        /\ UNCHANGED <<sequence, retired, used, pending, overflow>>
    BY <1>0, ZenonT(30)
  <2>2. /\ get # put /\ get' = Wrap(get + 1) /\ fetched' = fetched + 1
        /\ inflight' = Tail(inflight)
    BY <1>0, ZenonT(30)
  <2> QED
    BY <2>1, <2>2, AdvanceKeeps, ZenonT(30)
<1>2. /\ done' = done + 1 /\ retireWord' = Payload(done + 1)
      /\ done + 1 <= sequence /\ d \in 1..n /\ fetched + 1 = End(d)
  <2>1. /\ tail[ring[get].slot] = done + 1 /\ done + 1 <= sequence
        /\ d \in 1..n
        /\ (ring[get].kind = "tail") <=> (fetched + 1 = End(d))
    BY <1>0, GpuHead, ZenonT(30)
  <2> QED
    BY <1>0, <2>1, ZenonT(30)
<1>3. Payload(done + 1) \in Nat
  BY EpochAssumption DEF Payload, Low, TypeOK
<1>4. TypeOK'
  <2>1. done \in Nat
    BY DEF TypeOK
  <2>2. done' \in Nat /\ retireWord' \in Nat
    BY <1>2, <1>3, <2>1, SMTT(30)
  <2>3. published' \in BOOLEAN
    BY <1>0, Zenon
  <2> QED BY <1>0, <1>1, <2>2, <2>3, ZenonT(30) DEF TypeOK
<1>5. TokensConsecutive' /\ EntriesAdjacent' /\ SlotsConsecutive'
  BY <1>0, ZenonT(30) DEF TokensConsecutive, EntriesAdjacent, End, SlotsConsecutive, Wrap
<1>6. GpuPosition'
  <2>1. /\ done \in Nat /\ retired \in Nat /\ sequence \in Nat /\ n \in Nat
        /\ sequence = retired + n /\ retired <= done
        /\ written \in Nat /\ fetched \in Nat
    <3>1. sequence = retired + n
      BY DEF TokensConsecutive
    <3>2. retired <= done
      BY DEF GpuPosition
    <3> QED
      BY <3>1, <3>2, Numbers, ZenonT(30)
  <2>2. End(d) = IF d = n THEN written ELSE pending[d + 1].first
    BY <1>2, ZenonT(30) DEF EntriesAdjacent
  <2>3. CASE d = n
    <3>1. fetched + 1 = written
      BY <2>2, <2>3, <1>2, Zenon
    <3>2. done + 1 - retired = n /\ done + 1 = sequence
      <4>1. done + 1 - retired = n
        BY <2>3
      <4>2. sequence = retired + n /\ done \in Nat /\ retired \in Nat /\ n \in Nat
        BY <2>1
      <4> HIDE DEF n
      <4> QED BY <4>1, <4>2
    <3>3. done' = sequence' /\ fetched' = written' /\ ~published'
      BY <3>1, <3>2, <1>0, <1>2, Zenon
    <3>4. retired' = retired /\ sequence' = sequence /\ done' = done + 1
      BY <1>0, <1>2, Zenon
    <3>5. retired' <= done' /\ done' <= sequence'
      BY <3>2, <3>4, <2>1, SMTT(30)
    <3> QED BY <3>3, <3>5 DEF GpuPosition
  <2>4. CASE d # n
    <3>1. d + 1 \in 1..n /\ done + 1 # sequence /\ d + 1 = (done + 1) + 1 - retired
      BY <2>1, <2>4, <1>2, SMTT(30)
    <3>2. pending[d + 1].first = fetched + 1
      BY <2>2, <2>4, <1>2, ZenonT(30)
    <3>3. pending[d + 1].entries >= 1 /\ pending[d + 1].entries \in Nat
      BY <3>1, FieldTypes, ZenonT(30) DEF EntriesAdjacent
    <3>4. fetched + 1 < End(d + 1)
      BY <3>2, <3>3, <2>1 DEF End
    <3>4a. retired' = retired /\ sequence' = sequence /\ done' = done + 1
      BY <1>0, <1>2, Zenon
    <3>5. retired' <= done' /\ done' <= sequence'
      <4> HIDE DEF n
      <4> QED BY ONLY <2>1, <3>1, <3>4a
    <3>6. done' # sequence' /\ done' + 1 - retired' = d + 1
      <4> HIDE DEF n
      <4> QED BY ONLY <2>1, <3>1, <3>4a, ZenonT(30)
    <3>7. /\ pending'[d + 1].first <= fetched'
          /\ fetched' < pending'[d + 1].first + pending'[d + 1].entries
      <4>1. pending' = pending /\ fetched' = fetched + 1
        BY <1>0
      <4> QED
        BY <4>1, <3>2, <3>4, <2>1, SMTT(30) DEF End
    <3> QED BY <3>5, <3>6, <3>7, ZenonT(30) DEF GpuPosition, End
  <2> QED BY <2>3, <2>4
<1>7. WordsTrack'
  BY <1>0, <1>0a, <1>2, ZenonT(30) DEF WordsTrack, Payload
<1>8. CallerConsistent'
  <2>1. pc \in {"check", "retire"} => completed <= done + 1
    BY SMTT(30) DEF CallerConsistent, TypeOK
  <2> QED BY <2>1, <1>0, <1>2, ZenonT(30) DEF CallerConsistent
<1>9. NoSpuriousFailure'
  BY <1>0, Zenon DEF NoSpuriousFailure, Exhausted, NextToken
<1> QED
  BY <1>1, <1>2, <1>4, <1>5, <1>6, <1>7, <1>8, <1>9, SMTT(30)

(* The initial state satisfies the invariant.                              *)
LEMMA InitEstablishes == Init => IInv
<1> SUFFICES ASSUME Init PROVE IInv
  OBVIOUS
<1>1. QUEUE_ENTRIES \in Nat /\ QUEUE_ENTRIES >= 2 /\ 0 \in Slots
  BY LedgerAssumption DEF Slots
<1>2. HalfRange \in Int /\ HalfRange >= 1 /\ Low(0) = 0
  BY EpochAssumption DEF HalfRange, Low
<1>3. TypeOK
  <2>1. NoEntry \in Entry
    BY <1>1, ZenonT(30) DEF NoEntry, Entry, Kinds
  <2>2. ring \in [Slots -> Entry] /\ tail \in [Slots -> Nat]
    BY <2>1, ZenonT(30) DEF Init
  <2> QED BY <1>1, <2>2 DEF Init, TypeOK
<1>4. TokensConsecutive /\ EntriesAdjacent /\ SlotsConsecutive
  BY <1>1, SMTT(30) DEF Init, TokensConsecutive, EntriesAdjacent, SlotsConsecutive
<1>5. GpuPosition /\ InflightBelongs /\ RingGeometry /\ OverflowRetained
  BY <1>1 DEF Init, GpuPosition, InflightBelongs, RingGeometry, Wrap, OverflowRetained
<1>6. WordsTrack
  <2>1. Payload(0) = 0
    BY <1>2, ZenonT(30) DEF Payload
  <2>2. retireWord = 0 /\ publicWord = 0 /\ done = 0 /\ sequence = 0 /\ retired = 0
    BY DEF Init
  <2>3. (IF published THEN done + 1 ELSE done) = 0
    BY DEF Init
  <2> QED BY <1>2, <2>1, <2>2, <2>3 DEF WordsTrack
<1>7. CallerConsistent
  BY DEF Init, CallerConsistent
<1>8. NoSpuriousFailure
  BY DEF Init, NoSpuriousFailure
<1> QED
  BY <1>3, <1>4, <1>5, <1>6, <1>7, <1>8 DEF IInv

(* One case per action of the caller, of the loss path and of the GPU.     *)
LEMMA NextPreserves == IInv /\ [Next]_vars => IInv'
<1> SUFFICES ASSUME IInv, [Next]_vars PROVE IInv'
  BY ZenonT(30)
<1>1. ASSUME NEW s \in Shapes, Submit(s) PROVE IInv'
  BY <1>1, BeginKeeps, ZenonT(30) DEF Submit
<1>2. CASE Resubmit
  BY <1>2, BeginKeeps DEF Resubmit, IInv, CallerConsistent
<1>3. CASE CheckCompletion
  BY <1>3, CheckCompletionKeeps
<1>4. CASE RetireOne
  BY <1>4, RetireOneKeeps, ZenonT(30)
<1>5. CASE RetireOverflow
  BY <1>5, RetireOverflowKeeps
<1>6. CASE PrepareFull
  BY <1>6, PrepareFullKeeps
<1>7. CASE PrepareError
  BY <1>7, PrepareErrorKeeps
<1>8. CASE PrepareAccept
  BY <1>8, PrepareAcceptKeeps
<1>9. CASE StopSubmissions
  BY <1>9, StopSubmissionsKeeps
<1>10. CASE GpuPush
  BY <1>10, GpuPushKeeps
<1>11. CASE GpuPublish
  BY <1>11, GpuPublishKeeps
<1>12. CASE GpuRetire
  BY <1>12, GpuRetireKeeps, ZenonT(30)
<1>13. CASE UNCHANGED vars
  <2>1. UNCHANGED <<ledgerVars, ringVars, inflight, gpuVars>>
    BY <1>13, ZenonT(30) DEF vars
  <2>2. TypeOK'
    BY <1>13, ZenonT(30) DEF vars, IInv, TypeOK, ledgerVars, ringVars, gpuVars, callVars
  <2>3. CallerConsistent'
    BY <1>13, ZenonT(30) DEF vars, IInv, CallerConsistent, ledgerVars, gpuVars, callVars
  <2>4. NoSpuriousFailure'
    BY <1>13 DEF vars, IInv, NoSpuriousFailure, Exhausted, NextToken, ledgerVars, callVars
  <2> QED BY <2>1, <2>2, <2>3, <2>4, UntouchedKeeps, ZenonT(30) DEF IInv
<1> QED
  BY ZenonT(30), <1>1, <1>2, <1>3, <1>4, <1>5, <1>6, <1>7, <1>8, <1>9, <1>10, <1>11, <1>12,
     <1>13 DEF Next, Caller, Gpu

(* IInv holds in every reachable state of every queue.                     *)
THEOREM InvariantHolds == Spec => []IInv
BY InitEstablishes, NextPreserves, PTL DEF Spec

(* Type correctness of the queue.                                          *)
THEOREM TypeCorrect == Spec => []TypeOK
<1>1. IInv => TypeOK
  BY DEF IInv
<1> QED
  BY <1>1, InvariantHolds, PTL

LEMMA RingFollows == ASSUME IInv PROVE RingIntact
<1> USE DEF IInv
<1>1. /\ Len(inflight) \in Nat /\ Len(inflight) < QUEUE_ENTRIES
      /\ get \in Nat /\ get < QUEUE_ENTRIES /\ QUEUE_ENTRIES \in Nat
  BY Numbers, InflightBounded, ZenonT(30)
<1>2. get = put <=> Len(inflight) = 0
  BY <1>1 DEF RingGeometry, Wrap
<1>3. Len(inflight) = 0 <=> inflight = <<>>
  <2>1. inflight \in Seq(Entry)
    BY DEF TypeOK
  <2> QED
    BY <2>1
<1>4. \A k \in 1..Len(inflight) : ring[Wrap(get + k - 1)] = inflight[k]
  BY ZenonT(30) DEF RingGeometry
<1> QED
  BY <1>2, <1>3, <1>4 DEF RingIntact

LEMMA CommandsFollow == ASSUME IInv PROVE CommandsIntact
<1> USE DEF IInv
<1> SUFFICES ASSUME NEW k \in 1..Len(inflight)
             PROVE  /\ tail[inflight[k].slot] = inflight[k].token
                    /\ inflight[k].kind = "overflow" =>
                          \E i \in 1..Len(overflow) : overflow[i] = inflight[k].token
  BY ZenonT(30) DEF CommandsIntact
<1> DEFINE i == inflight[k].token - retired
<1>1. i \in 1..Len(pending) /\ inflight[k].slot = pending[i].slot
  BY ZenonT(30) DEF InflightBelongs, InflightOf
<1>2. tail[pending[i].slot] = pending[i].token /\ pending[i].token = retired + i
  <2>1. tail[pending[i].slot] = pending[i].token
    BY <1>1, ZenonT(30) DEF SlotsConsecutive
  <2>2. pending[i].token = retired + i
    BY <1>1, ZenonT(30) DEF TokensConsecutive
  <2> QED
    BY <2>1, <2>2, ZenonT(30)
<1>3. retired + i = inflight[k].token
  <2>1. inflight[k].token \in Nat
    BY FieldTypes, SMTT(30)
  <2> QED
    BY <2>1, Numbers, SMTT(30)
<1> QED
  BY <1>1, <1>2, <1>3, ZenonT(30) DEF OverflowRetained

(* For every ring size, payload width and mix of batches, the ring between *)
(* GET and PUT holds exactly the entries the GPU has still to read.        *)
THEOREM NothingRecycledEarly == Spec => []RingIntact
<1>1. IInv => RingIntact
  BY RingFollows
<1> QED
  BY <1>1, InvariantHolds, PTL

(* The commands an unread ring entry points to, in a tail slot or in an    *)
(* overflow segment, stay what they were when the batch was accepted.      *)
THEOREM CommandsStayIntact == Spec => []CommandsIntact
<1>1. IInv => CommandsIntact
  BY CommandsFollow, ZenonT(30)
<1> QED
  BY <1>1, InvariantHolds, PTL

(* The retirement word, narrow or wide, is always read back as the GPU's   *)
(* exact position, and the ledger never retires beyond it.                 *)
THEOREM RetirementIsExact == Spec => []RetirementExact
<1>1. IInv => RetirementExact
  BY WordsExact DEF RetirementExact, IInv, GpuPosition
<1> QED
  BY <1>1, InvariantHolds, PTL

(* No contract error, hence no device loss, before the tokens run out.     *)
THEOREM FailureIsNeverSpurious == Spec => [](NoSpuriousFailure /\ FullNamesABatch)
<1>1. IInv => NoSpuriousFailure /\ FullNamesABatch
  BY FullImpliesPending DEF IInv, FullNamesABatch
<1> QED
  BY <1>1, InvariantHolds, PTL

(* Accepted batches execute exactly once, in submission order.             *)
THEOREM OrderIsKept == Spec => ExecutesInOrder
<1>1. IInv /\ [Next]_vars => [done' # done => done' = done + 1]_vars
  <2> SUFFICES ASSUME IInv, Next PROVE done' # done => done' = done + 1
    BY DEF vars
  <2>1. CASE GpuRetire
    BY <2>1, GpuRetireKeeps
  <2>2. CASE GpuPush \/ GpuPublish
    BY <2>2, Zenon DEF GpuPush, GpuPublish
  <2>3. CASE Caller \/ StopSubmissions
    BY <2>3, Zenon DEF Caller, StopSubmissions, Submit, Resubmit, CheckCompletion, RetireOne,
       RetireOverflow, PrepareFull, PrepareError, PrepareAccept, gpuVars
  <2> QED BY <2>1, <2>2, <2>3, ZenonT(30) DEF Next, Gpu
<1> QED
  BY <1>1, InvariantHolds, PTL DEF Spec, ExecutesInOrder
=============================================================================
