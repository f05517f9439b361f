----------------------------- MODULE HalCmdState -----------------------------
(***************************************************************************)
(* The compute-state shadow of the Vulkan HAL (hal/src/cmdstate.c).  The   *)
(* HAL records its own compute dispatch (an ASTC/ETC2 decode) into the     *)
(* application's command buffer, which replaces the bound compute          *)
(* pipeline, disturbs the descriptor sets and overwrites push constants;   *)
(* it shadows what the application recorded and replays it afterwards.     *)
(* `app` is the state the application recorded, `cb` the state the         *)
(* driver's command buffer really has, `sh` the HAL's shadow.              *)
(***************************************************************************)
EXTENDS Integers, Sequences, SequencesExt, FiniteSets

CONSTANTS NSets,    \* CS_MAX_SETS (32 in the code)
          MaxPush,  \* CS_MAX_PUSH (32 in the code)
          MaxOps    \* bound on the commands the application records

SetIndex == 0 .. NSets - 1
Slots    == {1, 2}                    \* bindings of one set
Bytes    == {0, 1}                    \* 0: the 20 bytes the decode pushes
Stages   == {{"comp"}, {"gfx"}, {"comp", "gfx"}}
Undef    == -1
Hal      == -2                        \* whatever the decode left there

VARIABLES app, cb, sh, ops,
          merged   \* sets whose descriptors came from several push commands
vars == <<app, cb, sh, ops, merged>>

Fresh == [pipe |-> <<"none", Undef>>,
          desc |-> [k \in SetIndex |-> [s \in Slots |-> Undef]],
          push |-> [st \in {"comp", "gfx"} |-> [b \in Bytes |-> Undef]]]
NoShadow == [bound |-> "none", pipe |-> Undef, calls |-> <<>>, push |-> <<>>,
             pushCompute |-> FALSE, conditional |-> FALSE, lost |-> FALSE]

\* A recorded command; its number stands for the objects and data it names.
Op == ops < MaxOps /\ ops' = ops + 1
Lose == [sh EXCEPT !.lost = TRUE]

-----------------------------------------------------------------------------
\* What a descriptor command does to a command buffer: a binding replaces a
\* set, a push descriptor command replaces only the slots it writes.
Bind(s, c) ==
    [s EXCEPT !.desc = [k \in SetIndex |->
        IF k \notin c.first .. c.first + c.count - 1 THEN @[k]
        ELSE IF c.kind = "push_desc"
             THEN [x \in Slots |-> IF x \in c.writes THEN c.val ELSE @[k][x]]
             ELSE [x \in Slots |-> c.val]]]
PushBytes(s, p) ==
    [s EXCEPT !.push = [st \in DOMAIN @ |-> [b \in Bytes |->
        IF st \in p.stages /\ b \in p.range THEN p.val ELSE @[st][b]]]]

\* add_call: the new call owns its sets; a call that owns nothing any more
\* is dropped, the others keep their order.
AddCall(calls, c) ==
    LET sets    == c.first .. c.first + c.count - 1
        less    == [i \in DOMAIN calls |-> [calls[i] EXCEPT !.own = @ \ sets]]
    IN Append(SelectSeq(less, LAMBDA o : o.own # {}), [c EXCEPT !.own = sets])

\* new_call, record_bind, record_push_desc, record_db_offsets,
\* record_db_samplers: what cannot be copied is lost, and so is a set index
\* beyond the table.
RecordCall(c, copyable) ==
    IF ~copyable \/ c.first >= NSets \/ c.count > NSets - c.first THEN Lose
    ELSE [sh EXCEPT !.calls = AddCall(@, c)]


\* record_push
RecordPush(p, copyable) ==
    LET compute == "comp" \in p.stages
        same(q) == q.stages = p.stages /\ q.range = p.range
        rest    == SelectSeq(sh.push, LAMBDA q : ~same(q))
    IN IF ~compute /\ ~sh.pushCompute THEN sh
       ELSE IF ~copyable THEN Lose
       ELSE IF Len(rest) = MaxPush
            THEN [sh EXCEPT !.pushCompute = @ \/ compute, !.lost = TRUE]
            ELSE [sh EXCEPT !.pushCompute = @ \/ compute, !.push = Append(rest, p)]

-----------------------------------------------------------------------------
\* cs_BeginCommandBuffer: a command buffer that begins has no state.
BeginCommandBuffer ==
    /\ Op
    /\ app' = Fresh /\ cb' = Fresh /\ sh' = NoShadow /\ merged' = {}

\* cs_CmdBindPipeline, cs_CmdBindShadersEXT
BindPipeline(kind) ==
    /\ Op
    /\ app' = [app EXCEPT !.pipe = <<kind, ops>>] /\ cb' = [cb EXCEPT !.pipe = <<kind, ops>>]
    /\ sh' = [sh EXCEPT !.bound = kind, !.pipe = ops]
    /\ UNCHANGED merged

\* A descriptor command: the driver's command, then its copy.  A dynamic layout, a pNext structure
\* or an unknown descriptor type is not copyable.
DescriptorCall(c, copyable) ==
    /\ Op
    /\ c.first + c.count <= NSets
    /\ app' = Bind(app, c) /\ cb' = Bind(cb, c)
    /\ sh' = RecordCall(c, copyable)
    /\ merged' = IF c.kind = "push_desc"
                 THEN IF \E x \in Slots \ c.writes : app.desc[c.first][x] # Undef
                      THEN merged \cup {c.first} ELSE merged \ {c.first}
                 ELSE merged \ (c.first .. c.first + c.count - 1)

\* cs_CmdBindDescriptorSets{,2}
BindDescriptorSets(c, copyable) == DescriptorCall(c, copyable)
\* cs_CmdPushDescriptorSet{,2}
PushDescriptorSet(c, copyable) == DescriptorCall(c, copyable)
\* cs_CmdSetDescriptorBufferOffsets{,2},
\* cs_CmdBindDescriptorBufferEmbeddedSamplers{,2}
SetDescriptorBuffer(c) == DescriptorCall(c, TRUE)

\* cs_CmdPushDescriptorSetWithTemplate{,2}: the template's layout is not known.
PushTemplate(k) ==
    LET c == [kind |-> "push_desc", first |-> k, count |-> 1, val |-> ops,
              writes |-> Slots, own |-> {}]
    IN /\ Op
       /\ app' = Bind(app, c) /\ cb' = Bind(cb, c)
       /\ sh' = Lose
       /\ UNCHANGED merged

\* cs_CmdBindSamplerHeapEXT, cs_CmdBindResourceHeapEXT, cs_CmdPushDataEXT:
\* heap state is not shadowed.
BindHeap == Op /\ sh' = Lose /\ UNCHANGED <<app, cb, merged>>

\* cs_CmdPushConstants{,2}
PushConstants(p, copyable) ==
    /\ Op
    /\ app' = PushBytes(app, p) /\ cb' = PushBytes(cb, p)
    /\ sh' = RecordPush(p, copyable)
    /\ UNCHANGED merged

\* cs_CmdBeginConditionalRenderingEXT, cs_CmdEndConditionalRenderingEXT
ConditionalRendering(on) ==
    /\ Op
    /\ sh.conditional # on
    /\ sh' = [sh EXCEPT !.conditional = on]
    /\ UNCHANGED <<app, cb, merged>>

\* What the decode leaves behind: its pipeline, every set disturbed, its own
\* bytes in the compute stage (record_decode in astc.c).
Disturbed ==
    [cb EXCEPT !.pipe = <<"hal", Hal>>,
               !.desc = [k \in SetIndex |-> [s \in Slots |-> Hal]],
               !.push["comp"][0] = Hal]

\* nvhal_cs_restore: the pipeline or shader, the live descriptor calls in
\* recording order, the push constants from the first that reached the
\* compute stage on.
Restore(s) ==
    LET piped  == IF sh.bound = "none" THEN s
                  ELSE [s EXCEPT !.pipe = <<sh.bound, sh.pipe>>]
        bound  == FoldLeft(Bind, piped, sh.calls)
        comp   == {i \in DOMAIN sh.push : "comp" \in sh.push[i].stages}
        from   == IF comp = {} THEN Len(sh.push) + 1
                  ELSE CHOOSE i \in comp : \A j \in comp : i <= j
    IN FoldLeft(PushBytes, bound, SubSeq(sh.push, from, Len(sh.push)))

\* a decode recorded by the HAL; inside conditional rendering it still runs,
\* under the application's predicate (astc.c logs it).
Decode ==
    /\ cb' = Restore(Disturbed)
    /\ UNCHANGED <<app, sh, ops, merged>>

Init == /\ app = Fresh /\ cb = Fresh /\ sh = NoShadow /\ ops = 0 /\ merged = {}

BindCalls == [kind : {"set"}, first : SetIndex, count : 1 .. NSets,
              val : {ops}, writes : {{}}, own : {{}}]
PushDescCalls == [kind : {"push_desc"}, first : SetIndex, count : {1}, val : {ops},
                  writes : {{1}, {2}, {1, 2}}, own : {{}}]
PushInfos == [stages : Stages, range : {{0}, {1}, {0, 1}}, val : {ops}]

Next ==
    \/ BeginCommandBuffer
    \/ \E kind \in {"pipeline", "shader"} : BindPipeline(kind)
    \/ \E c \in BindCalls, copyable \in BOOLEAN : BindDescriptorSets(c, copyable)
    \/ \E c \in PushDescCalls, copyable \in BOOLEAN : PushDescriptorSet(c, copyable)
    \/ \E c \in BindCalls : SetDescriptorBuffer(c)
    \/ \E k \in SetIndex : PushTemplate(k)
    \/ BindHeap
    \/ \E p \in PushInfos, copyable \in BOOLEAN : PushConstants(p, copyable)
    \/ \E on \in BOOLEAN : ConditionalRendering(on)
    \/ Decode

Spec == Init /\ [][Next]_vars

-----------------------------------------------------------------------------
Restored(k) == \A x \in Slots : app.desc[k][x] \in {Undef, cb.desc[k][x]}


\* What the header of cmdstate.c says of descriptors: the calls kept are the
\* still-effective ones, so replaying them brings every set back.
DescriptorsRestored == sh.lost \/ \A k \in SetIndex : Restored(k)

\* A live call owns at least one set of its own, so the table of CS_MAX_CALLS
\* calls cannot overflow (the comment in add_call), and no two calls own the
\* same set.
CallsFit ==
    /\ Len(sh.calls) <= NSets
    /\ \A i, j \in DOMAIN sh.calls : i # j => sh.calls[i].own \cap sh.calls[j].own = {}
    /\ \A i \in DOMAIN sh.calls : sh.calls[i].own # {}
=============================================================================
