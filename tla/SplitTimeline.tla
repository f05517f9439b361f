--------------------------- MODULE SplitTimeline ---------------------------
(***************************************************************************)
(* One timeline on a host with 32-bit semaphores: a GPU word that holds    *)
(* the low half of the value, and a 64-bit maximum the CPU raises before   *)
(* any release can run (slots.rs, the split view; gpu.rs, a queue's        *)
(* retirement word and its issued sequence).  CPU readers take the two     *)
(* words one after the other, GPU acquires compare low words circularly.   *)
(*                                                                         *)
(* Applications follow the rules of Vulkan: a signal exceeds every value   *)
(* signalled or pending, and a host signal is below every pending signal,  *)
(* each of which waits for it.                                             *)
(***************************************************************************)
EXTENDS Sem32, Sequences

CONSTANTS
    Readers,    \* CPU threads that read the value
    Maximum1st, \* those of them that load the maximum before the low word
    MaxValue,   \* bound: values signalled
    MaxPending  \* bound: accepted releases that have not run

VARIABLES
    value,      \* the GPU word is Low(value)
    maximum,    \* shadow word, or QueueShared.sequence
    armed,      \* signals of a batch whose maximum is raised, not yet kicked
    pending,    \* releases the GPU will run, with the value each waits for
    waits,      \* targets of accepted GPU acquires that have not passed
    reader,     \* the readers' calls
    host        \* the host signal in progress

vars == <<value, maximum, armed, pending, waits, reader, host>>

Values == 0..MaxValue

Idle == [pc |-> "idle", low |-> 0, maximum |-> 0, floor |-> 0, result |-> 0]
NoHost == [pc |-> "idle", value |-> 0, low |-> 0]

Init ==
    /\ value = 0 /\ maximum = 0
    /\ armed = <<>> /\ pending = <<>> /\ waits = {}
    /\ reader = [r \in Readers |-> Idle] /\ host = NoHost

Larger(a, b) == IF a >= b THEN a ELSE b

Entries(s) == {s[i] : i \in 1..Len(s)}
Outstanding == Entries(armed) \cup Entries(pending)

-----------------------------------------------------------------------------
(* Applications.                                                           *)

(* Valid use: a new value is within 2^31 of the current value, of every    *)
(* queued acquire and of what a reader started from                        *)
(* (maxTimelineSemaphoreValueDifference).                                  *)
InWindow(v) ==
    /\ v - value <= HalfRange
    /\ \A t \in waits : v - t <= HalfRange
    /\ \A r \in Readers : reader[r].pc = "half" => v - reader[r].floor <= HalfRange

(* check_split_distance: abs_diff < 2^31.                                  *)
Distance(a, b) == IF a >= b THEN a - b ELSE b - a
SplitDistance(v) == Distance(v, maximum) <= HalfRange

(* submit_locked up to before_kick: check, then raise the maximum.         *)
Signal(v, after) ==
    /\ armed = <<>> /\ Len(pending) < MaxPending
    /\ v > maximum /\ \A e \in Outstanding : v > e.value
    /\ after \in {0} \cup (value + 1)..(v - 1)
    /\ (host.pc # "idle" => v > host.value /\ after >= host.value)
    /\ InWindow(v)
    /\ SplitDistance(v)
    /\ maximum' = Larger(maximum, v)
    /\ armed' = <<[value |-> v, after |-> after]>>
    /\ UNCHANGED <<value, pending, waits, reader, host>>

(* The doorbell: the batch can run.                                        *)
Kick ==
    /\ armed # <<>>
    /\ pending' = pending \o armed /\ armed' = <<>>
    /\ UNCHANGED <<value, maximum, waits, reader, host>>

(* plan_wait of a value that has been submitted or host-signalled: the     *)
(* current value is read first, and a value in reach is complete.          *)
Wait(t) ==
    /\ t <= maximum
    /\ LET current == ExtendPayload(Low(value), maximum)
       IN  current \notin Sem32Errors /\ current < t
    /\ SplitDistance(t)
    /\ waits' = waits \cup {t}
    /\ UNCHANGED <<value, maximum, armed, pending, reader, host>>

-----------------------------------------------------------------------------
(* The GPU.                                                                *)

(* Releases run in order, each after what it waits for.                    *)
GpuRelease ==
    /\ pending # <<>> /\ value >= Head(pending).after
    /\ value' = Head(pending).value /\ pending' = Tail(pending)
    /\ UNCHANGED <<maximum, armed, waits, reader, host>>

(* ACQ_GEQ on 32-bit words.                                                *)
CircularGeqMutPlain(low, target) == low >= Low(target)
CircularGeq(low, target) == (low - Low(target)) % Epoch < Epoch \div 2

GpuAcquire(t) ==
    /\ t \in waits /\ CircularGeq(Low(value), t)
    /\ waits' = waits \ {t}
    /\ UNCHANGED <<value, maximum, armed, pending, reader, host>>

-----------------------------------------------------------------------------
(* CPU readers: timeline_value and read_completed load the low word first, *)
(* QueueShared::completed loads the issued sequence first.                 *)

LowFirst(r) == r \notin Maximum1st

ReadFirst(r) ==
    /\ reader[r].pc \in {"idle", "done"}
    /\ reader' = [reader EXCEPT ![r] =
           [pc |-> "half", floor |-> value, result |-> 0,
            low |-> IF LowFirst(r) THEN Low(value) ELSE 0,
            maximum |-> IF LowFirst(r) THEN 0 ELSE maximum]]
    /\ UNCHANGED <<value, maximum, armed, pending, waits, host>>

ReadSecond(r) ==
    /\ reader[r].pc = "half"
    /\ LET low == IF LowFirst(r) THEN reader[r].low ELSE Low(value)
           max == IF LowFirst(r) THEN maximum ELSE reader[r].maximum
       IN  reader' = [reader EXCEPT ![r] = [Idle EXCEPT
               !.pc = "done", !.floor = reader[r].floor, !.result = ExtendPayload(low, max)]]
    /\ UNCHANGED <<value, maximum, armed, pending, waits, host>>

-----------------------------------------------------------------------------
(* host_signal, under the payload's lock: one at a time.                   *)

(* A value that has passed may be signalled again: unblock_locked does so. *)
HostSignal(v) ==
    /\ host.pc = "idle"
    /\ v <= value \/ \A e \in Outstanding : e.value > v /\ e.after >= v
    /\ InWindow(v)
    /\ host' = [NoHost EXCEPT !.pc = "read", !.value = v]
    /\ UNCHANGED <<value, maximum, armed, pending, waits, reader>>

HostLow ==
    /\ host.pc = "read"
    /\ host' = [host EXCEPT !.pc = "check", !.low = Low(value)]
    /\ UNCHANGED <<value, maximum, armed, pending, waits, reader>>

(* The value does not increase, or takes too large a step: nothing is      *)
(* written.                                                                *)
RefusedMutDistance(current) == current \in Sem32Errors \/ host.value - current > HalfRange

Refused(current) ==
    current \in Sem32Errors \/ host.value <= current \/ host.value - current > HalfRange

HostCheck ==
    /\ host.pc = "check"
    /\ host' = IF Refused(ExtendPayload(host.low, maximum)) THEN NoHost
               ELSE [host EXCEPT !.pc = "raise", !.low = 0]
    /\ UNCHANGED <<value, maximum, armed, pending, waits, reader>>

HostRaise ==
    /\ host.pc = "raise"
    /\ maximum' = Larger(maximum, host.value)
    /\ host' = [host EXCEPT !.pc = "store"]
    /\ UNCHANGED <<value, armed, pending, waits, reader>>

HostStore ==
    /\ host.pc = "store"
    /\ value' = host.value
    /\ host' = NoHost
    /\ UNCHANGED <<maximum, armed, pending, waits, reader>>

-----------------------------------------------------------------------------
Next ==
    \/ Kick \/ GpuRelease \/ HostLow \/ HostCheck \/ HostRaise \/ HostStore
    \/ \E v \in Values : \/ HostSignal(v) \/ Wait(v) \/ GpuAcquire(v)
                         \/ \E after \in Values : Signal(v, after)
    \/ \E r \in Readers : ReadFirst(r) \/ ReadSecond(r)

Spec == Init /\ [][Next]_vars

-----------------------------------------------------------------------------
(* Properties.                                                             *)

(* A CPU read (timeline_value, read_completed, QueueShared::completed)     *)
(* returns a value the timeline had during the read, and no error, however *)
(* submissions, releases and host signals fall between its two loads.      *)
ReadExact ==
    \A r \in Readers : reader[r].pc = "done" =>
        reader[r].result >= reader[r].floor /\ reader[r].result <= value

(* host_signal stores the low word without a compare, and still no store   *)
(* and no release takes the timeline back.                                 *)
NeverRegresses == [][value' >= value]_vars

(* The circular compare of an accepted acquire passes exactly when the     *)
(* timeline has reached its target.                                        *)
AcquireExact == \A t \in waits : CircularGeq(Low(value), t) <=> value >= t
=============================================================================
