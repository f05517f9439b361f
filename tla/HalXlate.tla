------------------------------ MODULE HalXlate ------------------------------
(***************************************************************************)
(* Translation of calls that name images (hal/src/imgxlate.c) and the      *)
(* sparse-bind splitting of emulated images (hal/src/astc.c).  An image    *)
(* handle is a plain one, a wrapper whose ICD image exists, a wrapper      *)
(* without memory, or an emulated compressed image with its block images.  *)
(* Each call is an action that leaves in "call" what the ICD was given,    *)
(* what it may have been given.  Private data of the loader's objects is   *)
(* kept by the HAL.                                                        *)
(***************************************************************************)
EXTENDS Integers, Sequences, FiniteSets, SequencesExt

CONSTANTS
    MaxArr,     \* longest array of a call
    Stack,      \* structs that fit the stack copy
    Room,       \* bytes of storage of a pNext copy
    Objs, Slots, Data, MaxSets

VARIABLES call, pd, pdRef, sets

vars == <<call, pd, pdRef, sets>>

Images == {"plain", "wrapped", "memoryless", "emulated"}
Dropped == <<"dropped">>
None == <<>>
NoCall == [got |-> None, may |-> {None}]
Arrays == UNION {[1 .. n -> Images] : n \in 0 .. MaxArr}

Init ==
    /\ call = NoCall /\ pd = <<>> /\ pdRef = [k \in Objs \X Slots |-> 0] /\ sets = 0

-----------------------------------------------------------------------------
(* xl1 and xl_arr *)

Wrapper(i) == i \in {"wrapped", "memoryless"}
Real(i) == IF i = "wrapped" THEN "real" ELSE i

XlArrMutNoBad(src, stack, oom) ==
    [arr |-> IF Len(src) > stack /\ oom THEN src
             ELSE [k \in DOMAIN src |-> IF Wrapper(src[k]) THEN Real(src[k]) ELSE src[k]],
     bad |-> FALSE]

\* xl_arr: the array itself when no element is a wrapper; otherwise a copy, on
\* the stack when it fits.  Out of memory it is marked bad.
XlArr(src, stack, oom) ==
    LET hits == {k \in DOMAIN src : Wrapper(src[k])}
        heap == Len(src) > stack
    IN  IF hits = {} THEN [arr |-> src, bad |-> FALSE]
        ELSE IF heap /\ oom THEN [arr |-> src, bad |-> TRUE]
        ELSE [arr |-> [k \in DOMAIN src |-> IF k \in hits THEN Real(src[k]) ELSE src[k]],
              bad |-> \E k \in hits : src[k] = "memoryless"]

\* nvhal_astc_barriers: a barrier of an emulated image is repeated for its
\* block image after the array; out of memory the array is passed on alone.
Emulated(src) == SelectSeq(src, LAMBDA i : i = "emulated")
AstcBarriers(src, oom) ==
    IF oom THEN src ELSE src \o [k \in 1 .. Len(Emulated(src)) |-> "block"]

\* What the ICD should see: no wrapper, and nothing when one has no memory.
Resolved(src) ==
    IF \E k \in DOMAIN src : src[k] = "memoryless" THEN Dropped
    ELSE [k \in DOMAIN src |-> Real(src[k])]
Mirrored(src) ==
    IF Resolved(src) = Dropped THEN Dropped
    ELSE Resolved(src) \o [k \in 1 .. Len(Emulated(src)) |-> "block"]

\* want, or, when an allocation failed, one of the excuses.
Result(got, want, failed, excuses) ==
    [got |-> got, may |-> {want} \cup (IF failed THEN excuses ELSE {})]

-----------------------------------------------------------------------------
(* Calls *)

\* One or two images in a call or an info structure: blits, copies, resolves,
\* clears, host copies.
NamesImages(src) ==
    /\ Len(src) \in {1, 2}
    /\ LET bad == \E k \in DOMAIN src : src[k] = "memoryless"
           t == [k \in DOMAIN src |-> Real(src[k])]
       IN call' = Result(IF bad THEN Dropped ELSE t, Resolved(src), FALSE, {})
    /\ UNCHANGED <<pd, pdRef, sets>>

\* vkCmdPipelineBarrier, vkCmdWaitEvents, vkCmdPipelineBarrier2, vkCmdSetEvent2.
Barrier(src, oom1, oom2) ==
    LET t == XlArr(src, Stack, oom1)
        ta == AstcBarriers(t.arr, oom2)
    IN
    /\ call' = Result(IF t.bad THEN Dropped ELSE ta, Mirrored(src),
                      oom1 \/ oom2, {Dropped, Resolved(src)})
    /\ UNCHANGED <<pd, pdRef, sets>>

\* vkTransitionImageLayout, vkGetImageOpaqueCaptureDataEXT: an emulated image
\* is refused.
Transition(src, oom) ==
    LET t == XlArr(src, Stack, oom) IN
    /\ call' = IF Emulated(src) # <<>> THEN Result(Dropped, Dropped, FALSE, {})
               ELSE Result(IF t.bad THEN Dropped ELSE t.arr, Resolved(src), oom, {Dropped})
    /\ UNCHANGED <<pd, pdRef, sets>>

\* vkCmdWaitEvents2 and vkQueueBindSparse with no emulated image alive: an
\* array of arrays, copied from the first one that names a wrapper, up to the
\* first bad one.  fail is the array whose copy cannot be allocated, table
\* that the table of copies cannot.
WaitEvents2(deps, fail, table) ==
    LET ts == [k \in DOMAIN deps |-> XlArr(deps[k], 0, fail = k)]
        done == {k \in DOMAIN ts : \A j \in 1 .. k - 1 : ~ts[j].bad}
        copied == {k \in done : ts[k].arr # deps[k]}
        bad == (table /\ copied # {}) \/ \E k \in done : ts[k].bad
    IN
    /\ \A k \in DOMAIN deps : Emulated(deps[k]) = <<>>
    /\ call' = Result(IF bad THEN Dropped
                      ELSE [k \in DOMAIN deps |-> IF k \in copied THEN ts[k].arr ELSE deps[k]],
                      IF \E k \in DOMAIN deps : Resolved(deps[k]) = Dropped THEN Dropped
                      ELSE [k \in DOMAIN deps |-> Resolved(deps[k])],
                      table \/ fail # 0, {Dropped})
    /\ UNCHANGED <<pd, pdRef, sets>>

-----------------------------------------------------------------------------
(* nvhal_chain_replace: the structures before the dropped one are copied into
   storage, 16-aligned, and the rest is shared with the application *)

Align16(n) == ((n + 15) \div 16) * 16
StypeSize(s) == CASE s = "small" -> 16 [] s = "big" -> 40 [] OTHER -> 0
Kinds == {"small", "big", "unknown"}
Chains == UNION {[1 .. n -> Kinds] : n \in 0 .. 3}

UsedBy[n \in 0 .. 3, c \in Chains] ==
    IF n = 0 THEN 0 ELSE Align16(UsedBy[n - 1, c]) + StypeSize(c[n])

ChainReplace(c, drop, add) ==
    LET before == 1 .. drop - 1
        ok == drop = 0 \/ \A k \in before : c[k] # "unknown" /\ UsedBy[k, c] <= Room
        kept == IF drop = 0 THEN c
                ELSE SubSeq(c, 1, drop - 1) \o SubSeq(c, drop + 1, Len(c))
    IN  IF ~ok THEN Dropped ELSE IF add THEN <<"added">> \o kept ELSE kept

\* Every structure but the dropped one is kept, in order; the call fails only
\* for a chain that cannot be copied.
ReplacePNext(c, drop, add) ==
    /\ drop \in 0 .. Len(c)
    /\ LET got == ChainReplace(c, drop, add)
           rest == [k \in 1 .. Len(c) - (IF drop = 0 THEN 0 ELSE 1) |->
                       IF drop # 0 /\ k >= drop THEN c[k + 1] ELSE c[k]]
       IN call' = Result(got, IF add THEN <<"added">> \o rest ELSE rest,
                         \/ \E k \in 1 .. drop - 1 : c[k] = "unknown"
                         \/ drop > 2, {Dropped})
    /\ UNCHANGED <<pd, pdRef, sets>>

-----------------------------------------------------------------------------
(* Memory of an emulated image: combine, and nvhal_astc_bind_sparse *)

AlignUp(v, a) == ((v + a - 1) \div a) * a
MaxOf(S) == CHOOSE x \in S : \A y \in S : y <= x

\* combine: the parts one after another, each at its alignment, or at the
\* largest when the image is sparse.
PartAlign(parts, sparse) ==
    [k \in DOMAIN parts |-> IF sparse THEN MaxOf({parts[j].align : j \in DOMAIN parts})
                            ELSE parts[k].align]
Offsets(parts, sparse) ==
    LET f[k \in DOMAIN parts] ==
          AlignUp(IF k = 1 THEN 0 ELSE f[k - 1] + parts[k - 1].size, PartAlign(parts, sparse)[k])
    IN  f
\* The binds of one part: the app's ranges clipped to it.
SplitBind(b, ps, pe) ==
    LET s0 == IF b.at > ps THEN b.at ELSE ps
        e0 == IF b.at + b.size < pe THEN b.at + b.size ELSE pe
    IN  IF s0 >= e0 THEN {} ELSE {[at |-> s0 - ps, size |-> e0 - s0, mem |-> b.mem + (s0 - b.at)]}

\* The pages a bind maps: of the resource, of the memory.
Bound(b) == {<<b.at + k, b.mem + k>> : k \in 0 .. b.size - 1}

BindSparse(parts, b) ==
    LET off == Offsets(parts, TRUE)
        split == [k \in DOMAIN parts |-> SplitBind(b, off[k], off[k] + parts[k].size)]
    IN
    /\ call' = Result(
          [k \in DOMAIN parts |-> UNION {Bound(x) : x \in split[k]}],
          [k \in DOMAIN parts |->
              {<<p[1] - off[k], p[2]>> :
                  p \in {q \in Bound(b) : q[1] >= off[k] /\ q[1] < off[k] + parts[k].size}}],
          FALSE, {})
    /\ UNCHANGED <<pd, pdRef, sets>>

\* nvhal_astc_bind1, nvhal_astc_expand_binds: every part at its own offset of
\* the application's memory; the parts are aligned and do not meet.
BindParts(parts, sparse) ==
    LET off == Offsets(parts, sparse)
        apart == \A j, k \in DOMAIN parts :
                    j < k => off[j] + parts[j].size <= off[k]
        aligned == \A k \in DOMAIN parts : off[k] % parts[k].align = 0
    IN
    /\ call' = Result(<<apart, aligned>>, <<TRUE, TRUE>>, FALSE, {})
    /\ UNCHANGED <<pd, pdRef, sets>>

Part == [size : {1, 3}, align : {1, 2, 4}]
Binds == [at : 0 .. 6, size : 1 .. 5, mem : {10}]

-----------------------------------------------------------------------------
(* Private data of the loader's objects: an array searched from the front *)

Find(o, s) == {k \in DOMAIN pd : pd[k].obj = o /\ pd[k].slot = s}

\* loader_pd_set
SetPrivateData(o, s, v) ==
    /\ sets < MaxSets /\ sets' = sets + 1
    /\ pd' = IF Find(o, s) = {} THEN Append(pd, [obj |-> o, slot |-> s, data |-> v])
             ELSE [pd EXCEPT ![CHOOSE k \in Find(o, s) : TRUE].data = v]
    /\ pdRef' = [pdRef EXCEPT ![<<o, s>>] = v]
    /\ UNCHANGED call

\* loader_pd_get
GetPrivateData(o, s) ==
    LET v == IF Find(o, s) = {} THEN 0 ELSE pd[CHOOSE k \in Find(o, s) : TRUE].data IN
    /\ call' = Result(<<v>>, <<pdRef[<<o, s>>]>>, FALSE, {})
    /\ UNCHANGED <<pd, pdRef, sets>>

\* loader_pd_forget_slot: an entry of the slot is replaced by the last one,
\* which is looked at in its turn.
Forgotten(p, s) ==
    LET f[n \in 0 .. Len(p)] ==      \* n entries looked at or removed
          IF n = 0 THEN [i |-> 1, q |-> p]
          ELSE LET a == f[n - 1] IN
               IF a.i > Len(a.q) THEN a
               ELSE IF a.q[a.i].slot = s
               THEN [a EXCEPT !.q = SubSeq([a.q EXCEPT ![a.i] = a.q[Len(a.q)]], 1, Len(a.q) - 1)]
               ELSE [a EXCEPT !.i = @ + 1]
    IN  f[Len(p)].q
DestroyPrivateDataSlot(s) ==
    /\ sets < MaxSets /\ sets' = sets + 1
    /\ pd' = Forgotten(pd, s)
    /\ pdRef' = [k \in Objs \X Slots |-> IF k[2] = s THEN 0 ELSE pdRef[k]]
    /\ UNCHANGED call

Stateless ==
    \/ \E src \in Arrays :
          \/ NamesImages(src)
          \/ \E oom1, oom2 \in BOOLEAN : Barrier(src, oom1, oom2)
          \/ \E oom \in BOOLEAN : Transition(src, oom)
    \/ \E a, b \in {s \in Arrays : Len(s) <= 2}, fail \in 0 .. 2, table \in BOOLEAN :
          WaitEvents2(<<a, b>>, fail, table)
    \/ \E c \in Chains, drop \in 0 .. 3, add \in BOOLEAN : ReplacePNext(c, drop, add)
    \/ \E parts \in [1 .. 2 -> Part] :
          \/ \E b \in Binds : BindSparse(parts, b)
          \/ \E sparse \in BOOLEAN : BindParts(parts, sparse)

\* Calls that keep no state in the HAL are all made from the initial one.
Next ==
    \/ sets = 0 /\ call = NoCall /\ Stateless
    \/ \E o \in Objs, s \in Slots : GetPrivateData(o, s) \/ \E v \in Data : SetPrivateData(o, s, v)
    \/ \E s \in Slots : DestroyPrivateDataSlot(s)

Spec == Init /\ [][Next]_vars

-----------------------------------------------------------------------------
\* Every call reaches the ICD exactly as its definition says: no wrapper
\* handle, no call on an image without memory, every structure but the
\* replaced one, every page of a sparse bind at its place, the value last set.
\* A call is dropped, or passed on without the block images' barriers, only
\* when an allocation failed (imgxlate.c:128-207, 870-1060; astc.c:966-985, 1269-1352).
CallsExact == call.got \in call.may
=============================================================================
