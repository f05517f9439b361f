----------------------------- MODULE EglWindow ------------------------------
(***************************************************************************)
(* Window surfaces of the Android EGL platform (egl/src/window.c): gralloc *)
(* buffers dequeued from an ANativeWindow, imported once into a cache of   *)
(* slots, rendered by the GPU in order, queued with an acquire fence and   *)
(* dequeued again with the consumer's release fence, which the GPU waits   *)
(* for before the buffer is attached.  The consumer and the GPU run on     *)
(* their own; the window may be resized, which reallocates its buffers.    *)
(***************************************************************************)
EXTENDS Naturals, Sequences, FiniteSets, FiniteSetsExt, SequencesExt

CONSTANTS
    Bufs, NSlots, Sizes,
    MaxFrames, MaxGen, MaxGpu   \* bounds: frames queued, reallocations, GPU commands in flight

VARIABLES
    own,        \* every buffer: "free" in the window, "ours", or "queued"
    rel,        \* the fence a free buffer carries: "none", "consumer" or "gpu"
    gen, size,  \* allocation (native handle) and size of every buffer
    want,       \* the window's size now
    reading,    \* <<buffer, allocation, frame>> the consumer is reading
    ready,      \* queued buffers whose acquire fence has signalled
    gpu,        \* commands submitted and not executed
    content,    \* the frame a buffer shows, 0 if undefined
    frames,     \* frames queued so far
    slots, back, stamp, lost,   \* struct _EplImplSurface
    surf,       \* "none", "live", or "swap" between queueBuffer and dequeueBuffer
    current,    \* the surface is current on its thread
    blind       \* allocations given back without a fence while not current

vars == <<own, rel, gen, size, want, reading, ready, gpu, content, frames,
          slots, back, stamp, lost, surf, current, blind>>

window == <<own, rel, gen, size, want, reading, ready>>
surface == <<slots, back, stamp, lost, surf>>

Empty == [buf |-> 0, gen |-> 0, size |-> 0, age |-> 0, used |-> 0]
Slots == 1 .. NSlots

Init ==
    /\ own = [b \in Bufs |-> "free"] /\ rel = [b \in Bufs |-> "none"]
    /\ gen = [b \in Bufs |-> 1]
    /\ want \in Sizes /\ size = [b \in Bufs |-> want]
    /\ reading = {} /\ ready = {} /\ gpu = <<>>
    /\ content = [b \in Bufs |-> 0] /\ frames = 0
    /\ slots = [i \in Slots |-> Empty]
    /\ back = 0 /\ stamp = 0 /\ lost = FALSE /\ surf = "none"
    /\ current = FALSE /\ blind = {}

-----------------------------------------------------------------------------
(* The window and its consumer *)

\* dequeueBuffer: any free buffer; one of an old size is reallocated first.
Fresh(b) == size[b] # want
Dequeued(b) ==
    /\ own[b] = "free"
    /\ Fresh(b) => gen[b] < MaxGen
    /\ gen' = [gen EXCEPT ![b] = IF Fresh(b) THEN @ + 1 ELSE @]
    /\ size' = [size EXCEPT ![b] = want]
    /\ content' = [content EXCEPT ![b] = IF Fresh(b) THEN 0 ELSE @]

Pending(b) == IF Fresh(b) THEN "none" ELSE rel[b]

Resize ==
    /\ \E s \in Sizes \ {want} : want' = s
    /\ UNCHANGED <<own, rel, gen, size, reading, ready, gpu, content, frames, surface,
                   current, blind>>

Shown(b) == <<b, gen[b], content[b]>>

ConsumerAcquire(b) ==
    /\ own[b] = "queued" /\ b \in ready
    /\ reading' = reading \cup {Shown(b)} /\ ready' = ready \ {b}
    /\ UNCHANGED <<own, rel, gen, size, want, gpu, content, frames, surface, current, blind>>

\* The consumer gives the buffer back before its reads have finished.
ConsumerRelease(b) ==
    /\ own[b] = "queued" /\ Shown(b) \in reading
    /\ own' = [own EXCEPT ![b] = "free"] /\ rel' = [rel EXCEPT ![b] = "consumer"]
    /\ UNCHANGED <<gen, size, want, reading, ready, gpu, content, frames, surface, current, blind>>

ConsumerDone(b) ==
    /\ \E r \in reading :
          /\ r[1] = b /\ (r = Shown(b) => own[b] # "queued")
          /\ reading' = reading \ {r}
          /\ rel' = [rel EXCEPT ![b] = IF @ = "consumer" /\ r[2] = gen[b] THEN "none" ELSE @]
    /\ UNCHANGED <<own, gen, size, want, ready, gpu, content, frames, surface, current, blind>>

\* A frame replaced before it was acquired comes back with its own acquire fence.
ConsumerDrop(b) ==
    /\ own[b] = "queued" /\ Shown(b) \notin reading
    /\ own' = [own EXCEPT ![b] = "free"]
    /\ rel' = [rel EXCEPT ![b] = IF b \in ready THEN "none" ELSE "gpu"]
    /\ ready' = ready \ {b}
    /\ UNCHANGED <<gen, size, want, reading, gpu, content, frames, surface, current, blind>>

Reads(b, g) == \E r \in reading : r[1] = b /\ r[2] = g

Cmd(op, b, f) == [op |-> op, buf |-> b, gen |-> gen[b], frame |-> f]

\* The GPU executes commands in order; a wait blocks until the consumer is
\* done, the last fence of a buffer is the one it was given away with.
Execute ==
    /\ gpu # <<>>
    /\ LET c == Head(gpu)
           mine == /\ c.op = "signal" /\ c.gen = gen[c.buf]
                   /\ \A k \in 2 .. Len(gpu) :
                         ~(gpu[k].op = "signal" /\ gpu[k].buf = c.buf /\ gpu[k].gen = c.gen)
       IN
       /\ c.op = "wait" => ~Reads(c.buf, c.gen)
       /\ ready' = IF mine /\ own[c.buf] = "queued" THEN ready \cup {c.buf} ELSE ready
       /\ rel' = [rel EXCEPT ![c.buf] = IF mine /\ @ = "gpu" THEN "none" ELSE @]
    /\ gpu' = Tail(gpu)
    /\ UNCHANGED <<own, gen, size, want, reading, content, frames, surface, current, blind>>

-----------------------------------------------------------------------------
(* slot_for *)

Hit(b) == {i \in Slots : /\ slots[i].buf = b /\ slots[i].gen = gen'[b]
                         /\ slots[i].size = size'[b]}

\* A buffer of a new size drops every cached one of another size, the current
\* back slot excepted.
Swept(b) ==
    [i \in Slots |-> IF slots[i].buf # 0 /\ i # back /\ slots[i].size # size'[b]
                     THEN Empty ELSE slots[i]]

\* The first empty slot, or the least recently used one that is not the back.
Victim(s) ==
    LET empty == {i \in Slots : s[i].buf = 0}
        old == Slots \ {back}
    IN  IF empty # {} THEN Min(empty)
        ELSE CHOOSE i \in old : \A j \in old : s[i].used <= s[j].used

SlotFor(b, i) ==
    /\ stamp' = stamp + 1
    /\ IF Hit(b) # {}
       THEN /\ i = Min(Hit(b))
            /\ slots' = [slots EXCEPT ![i].used = stamp + 1]
       ELSE /\ i = Victim(Swept(b))
            /\ slots' = [Swept(b) EXCEPT ![i] =
                  [buf |-> b, gen |-> gen'[b], size |-> size'[b], age |-> 0,
                   used |-> stamp + 1]]

\* The buffer cannot be decoded, or the import is refused after the sweep and
\* the eviction.
SlotRefused(b) ==
    /\ Hit(b) = {}
    /\ slots' \in {slots, [Swept(b) EXCEPT ![Victim(Swept(b))] = Empty]}
    /\ UNCHANGED stamp

-----------------------------------------------------------------------------
(* nvnCreateWindowSurface, nvnSwapBuffers, nvnDestroySurface *)

Give(b, to, fence) ==
    /\ own' = [own EXCEPT ![b] = to] /\ rel' = [rel EXCEPT ![b] = fence]

\* The release fence of the first buffer is waited for on the CPU.  A failure
\* after the dequeue cancels the buffer and frees every slot.
CreateWindowSurface ==
    /\ surf = "none" /\ frames < MaxFrames
    /\ \E b \in Bufs :
          /\ Dequeued(b) /\ Pending(b) = "none"
          /\ \/ /\ \E i \in Slots : SlotFor(b, i) /\ back' = i
                /\ Give(b, "ours", "none")
                /\ surf' = "live" /\ lost' = FALSE /\ current' = TRUE
             \/ /\ Give(b, "free", "none")
                /\ UNCHANGED <<slots, back, stamp, surf, lost, current>>
    /\ UNCHANGED <<want, reading, ready, gpu, frames, blind>>

Draw ==
    /\ surf = "live" /\ back # 0 /\ current /\ frames < MaxFrames /\ Len(gpu) < MaxGpu
    /\ \A k \in DOMAIN gpu : gpu[k] # Cmd("draw", slots[back].buf, frames + 1)
    /\ gpu' = Append(gpu, Cmd("draw", slots[back].buf, frames + 1))
    /\ UNCHANGED <<window, content, frames, surface, current, blind>>

\* Ages: every presented slot by one; the queued one becomes 1.
Aged == [i \in Slots |->
           IF i = back THEN [slots[i] EXCEPT !.age = 1]
           ELSE IF slots[i].buf # 0 /\ slots[i].age > 0
           THEN [slots[i] EXCEPT !.age = @ + 1] ELSE slots[i]]

\* nvnSwapBuffers up to queueBuffer: the acquire fence covers all submitted
\* work.  Any failure before leaves the surface as it was.
SwapQueue ==
    LET b == slots[back].buf IN
    /\ surf = "live" /\ ~lost /\ back # 0 /\ current /\ frames < MaxFrames
    /\ Len(gpu) < MaxGpu
    /\ gpu' = Append(gpu, Cmd("signal", b, frames + 1))
    /\ Give(b, "queued", "none")
    /\ frames' = frames + 1
    /\ content' = [content EXCEPT ![b] = frames + 1]
    /\ slots' = Aged
    /\ surf' = "swap"
    /\ UNCHANGED <<gen, size, want, reading, ready, back, stamp, lost, current, blind>>

\* dequeueBuffer fails: the surface is lost.
SwapLost ==
    /\ surf = "swap"
    /\ surf' = "live" /\ lost' = TRUE /\ back' = 0
    /\ UNCHANGED <<window, gpu, content, frames, slots, stamp, current, blind>>


\* Wait first, attach second.  After any failure the buffer goes back to the
\* window with the consumer's release fence.
Waited(b) == IF Pending(b) = "none" THEN gpu ELSE Append(gpu, [op |-> "wait", buf |-> b, gen |-> gen[b], frame |-> 0])
SwapDequeue ==
    /\ surf = "swap"
    /\ \E b \in Bufs :
          /\ Dequeued(b)
          /\ \/ /\ \E i \in Slots : SlotFor(b, i) /\ back' = i
                /\ gpu' = Waited(b)
                /\ Give(b, "ours", "none")
                /\ UNCHANGED lost
             \/ /\ \/ SlotRefused(b) /\ UNCHANGED gpu
                   \/ (\E i \in Slots : SlotFor(b, i)) /\ gpu' \in {gpu, Waited(b)}
                /\ Give(b, "free", Pending(b))
                /\ lost' = TRUE /\ back' = 0
    /\ surf' = "live"
    /\ UNCHANGED <<want, reading, ready, frames, current, blind>>

MakeCurrent ==
    /\ surf = "live" /\ current' = ~current
    /\ UNCHANGED <<window, gpu, content, frames, surface, blind>>

\* The back buffer is cancelled with a fence for the rendering in flight, but
\* only when the surface is current on this thread and the fence can be made;
\* with none otherwise.
CancelBack(b) ==
    /\ \/ /\ current
          /\ gpu' = Append(gpu, Cmd("signal", b, 0)) /\ Give(b, "free", "gpu")
          /\ UNCHANGED blind
       \/ /\ Give(b, "free", "none") /\ blind' = blind \cup {<<b, gen[b]>>}
          /\ UNCHANGED gpu
    /\ content' = [content EXCEPT ![b] = 0]

DestroySurface ==
    /\ surf = "live" /\ Len(gpu) < MaxGpu
    /\ IF back # 0 /\ ~lost THEN CancelBack(slots[back].buf)
       ELSE UNCHANGED <<own, rel, gpu, content, blind>>
    /\ slots' = [i \in Slots |-> Empty] /\ back' = 0 /\ stamp' = 0
    /\ surf' = "none" /\ lost' = FALSE /\ current' = FALSE
    /\ UNCHANGED <<gen, size, want, reading, ready, frames>>

Next ==
    \/ Resize \/ Execute
    \/ \E b \in Bufs : ConsumerAcquire(b) \/ ConsumerRelease(b) \/ ConsumerDone(b)
                       \/ ConsumerDrop(b)
    \/ CreateWindowSurface \/ Draw \/ SwapQueue \/ SwapLost \/ SwapDequeue
    \/ MakeCurrent \/ DestroySurface

Spec == Init /\ [][Next]_vars

-----------------------------------------------------------------------------
DrawsTo(b) == \E k \in DOMAIN gpu :
    gpu[k].op = "draw" /\ gpu[k].buf = b /\ gpu[k].gen = gen[b]

\* The GPU never draws into a buffer the consumer still reads, although the
\* buffer is attached while its release fence is pending: the wait is ahead
\* of the draw in the same stream (window.c:15-20, 384-410).
RenderAfterRelease ==
    gpu # <<>> /\ Head(gpu).op = "draw" => ~Reads(Head(gpu).buf, Head(gpu).gen)

\* The consumer reads only complete frames: the acquire fence signals after
\* every draw of its frame (window.c:129-144, 366-376).
ReadsCompleteFrames ==
    \A r \in reading, k \in DOMAIN gpu :
       gpu[k].op = "draw" /\ gpu[k].buf = r[1] /\ gpu[k].gen = r[2] => gpu[k].frame > r[3]

\* Between calls the surface holds exactly the one buffer attached as its
\* back buffer, and none when it is lost or destroyed; cancelBuffer returns
\* every other one, on every failure path (window.c:282-306, 412-420).
HoldsOneBuffer ==
    {b \in Bufs : own[b] = "ours"} =
       (IF back # 0 /\ surf = "live" THEN {slots[back].buf} ELSE {})

\* The cached color buffer attached as the back buffer is the import of the
\* buffer's present allocation, after resizes and evictions (window.c:70-126).
SlotIsCurrentImport ==
    back # 0 /\ surf = "live" =>
       slots[back].gen = gen[slots[back].buf] /\ slots[back].size = size[slots[back].buf]

\* EGL_BUFFER_AGE: a back buffer of age n > 0 holds the frame presented n
\* swaps ago, through resizes, evictions and failed swaps (window.c:378-381,
\* 439-444).
AgeExact ==
    back # 0 /\ surf = "live" /\ slots[back].age > 0 =>
       content[slots[back].buf] = frames - slots[back].age + 1

\* A buffer given back without a fence has no rendering in flight, except
\* when the surface was destroyed while not current or no fence could be made
\* (window.c:314-336).
ReturnedIdle ==
    \A b \in Bufs : own[b] = "free" /\ rel[b] = "none" /\ <<b, gen[b]>> \notin blind =>
       ~DrawsTo(b)

\* The same for every destroyed surface, as window.c:318-320 has it: "when
\* the surface is current here (the only case in which this thread can have
\* submitted to it)".
DestroyedIdle ==
    \A b \in Bufs : own[b] = "free" /\ rel[b] = "none" => ~DrawsTo(b)
=============================================================================
