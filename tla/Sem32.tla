------------------------------- MODULE Sem32 -------------------------------
(***************************************************************************)
(* Reconstruction of a wide counter from a narrow GPU word                 *)
(* (fences.rs extend_payload, slots.rs split_value).  Pre-Volta hosts      *)
(* release only the low 32 bits of a value; the CPU keeps the maximum      *)
(* value ever submitted and extends the low word against it.               *)
(*                                                                         *)
(* Epoch stands for 2^32.  A value is a natural number, a low word is a    *)
(* member of 0..Epoch-1, and the error results of the Rust code are the    *)
(* two members of Sem32Errors, which are no natural numbers.               *)
(***************************************************************************)
EXTENDS Integers, TLAPS

CONSTANT Epoch

ASSUME EpochAssumption == Epoch \in Nat /\ Epoch >= 4 /\ Epoch % 2 = 0

\* 0x7fff_ffff: the largest distance the narrow word can express.
HalfRange == Epoch \div 2 - 1

Low(value) == value % Epoch

\* Errors are negative so that results stay integers.
BeforeOrigin == -1
BeyondHalf == -2
Sem32Errors == {BeforeOrigin, BeyondHalf}

\* The epoch (a multiple of 2^32) the low word belongs to.
EpochOf(low, maximum) ==
    LET epoch == maximum - Low(maximum)
    IN  IF low > Low(maximum) THEN epoch - Epoch ELSE epoch

ExtendPayload(low, maximum) ==
    LET value == EpochOf(low, maximum) + low
    IN  IF EpochOf(low, maximum) < 0 THEN BeforeOrigin
        ELSE IF maximum - value > HalfRange THEN BeyondHalf
        ELSE value

-----------------------------------------------------------------------------
(* Division with remainder by Epoch, in the form the provers can use.      *)
LEMMA LowDivision ==
    ASSUME NEW v \in Nat
    PROVE  /\ Low(v) \in 0..(Epoch - 1)
           /\ \E q \in Nat : v = Epoch * q + Low(v)
<1>1. v % Epoch \in 0..(Epoch - 1)
  BY EpochAssumption
<1>2. v = Epoch * (v \div Epoch) + (v % Epoch)
  BY EpochAssumption
<1>3. v \div Epoch \in Nat
  BY EpochAssumption
<1> QED
  BY <1>1, <1>2, <1>3 DEF Low

(* Multiples of Epoch less than Epoch apart are equal.                     *)
LEMMA MultiplesApart ==
    ASSUME NEW p \in Nat, NEW q \in Nat, p > q
    PROVE  Epoch * p >= Epoch * q + Epoch
<1>1. PICK d \in Nat : p = q + 1 + d
  <2>1. p - q - 1 \in Nat /\ p = q + 1 + (p - q - 1)
    OBVIOUS
  <2> QED BY <2>1
<1>2. Epoch * p = Epoch * q + Epoch + Epoch * d
  BY <1>1, EpochAssumption
<1>3. Epoch * d \in Nat
  BY EpochAssumption
<1> QED
  BY <1>2, <1>3, EpochAssumption

(* extend_payload is exact: the low word of a value at most half the range *)
(* below the published maximum extends to that value.                      *)
THEOREM ExtendExact ==
    ASSUME NEW v \in Nat, NEW maximum \in Nat,
           v <= maximum, maximum - v <= HalfRange
    PROVE  ExtendPayload(Low(v), maximum) = v
<1> DEFINE lv == Low(v)
           lm == Low(maximum)
<1>1. PICK q \in Nat : v = Epoch * q + lv
  BY LowDivision
<1>2. PICK p \in Nat : maximum = Epoch * p + lm
  BY LowDivision
<1>3. lv \in 0..(Epoch - 1) /\ lm \in 0..(Epoch - 1)
  BY LowDivision
<1>4. HalfRange < Epoch /\ HalfRange \in Nat
  BY EpochAssumption DEF HalfRange
<1>5. Epoch * p \in Nat /\ Epoch * q \in Nat /\ Epoch \in Nat
  BY EpochAssumption
<1>6. ~(q > p)
  <2> SUFFICES ASSUME q > p PROVE FALSE
    OBVIOUS
  <2>1. Epoch * q >= Epoch * p + Epoch
    BY MultiplesApart
  <2> QED BY <2>1, <1>1, <1>2, <1>3, <1>5
<1>7. CASE p = q
  <2>1. lv <= lm
    BY <1>7, <1>1, <1>2, <1>3, <1>5
  <2>2. EpochOf(lv, maximum) = Epoch * q
    BY <2>1, <1>7, <1>2, <1>3, <1>5 DEF EpochOf
  <2> QED BY <2>2, <1>1, <1>5, <1>4, <1>3 DEF ExtendPayload
<1>8. CASE p > q
  <2>1. Epoch * p >= Epoch * q + Epoch
    BY <1>8, MultiplesApart
  <2>2. p = q + 1
    <3> SUFFICES ASSUME p > q + 1 PROVE FALSE
      BY <1>8
    <3>1. Epoch * p >= Epoch * (q + 1) + Epoch
      BY MultiplesApart
    <3>2. Epoch * (q + 1) = Epoch * q + Epoch
      BY <1>5
    <3> QED BY <3>1, <3>2, <1>1, <1>2, <1>3, <1>4, <1>5
  <2>3. Epoch * p = Epoch * q + Epoch
    BY <2>2, <1>5
  <2>4. lv > lm
    BY <2>3, <1>1, <1>2, <1>3, <1>4, <1>5
  <2>5. EpochOf(lv, maximum) = Epoch * q
    BY <2>4, <2>3, <1>2, <1>3, <1>5 DEF EpochOf
  <2> QED BY <2>5, <1>1, <1>5, <1>4, <1>3 DEF ExtendPayload
<1> QED
  BY <1>6, <1>7, <1>8
=============================================================================
