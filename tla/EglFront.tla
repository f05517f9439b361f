------------------------------ MODULE EglFront ------------------------------
(***************************************************************************)
(* The thread timelines of the EGL front (egl/src/front.c, eglMakeCurrent  *)
(* and start_thread_timeline).  The driver keeps one semaphore timeline    *)
(* per thread, made by the first bind of a context.  A GPU wait advances   *)
(* its value without starting it, and the first fence made on a timeline   *)
(* that is not started takes the wait's value, so it signals with the      *)
(* imported fence instead of with the work it should cover.  The front     *)
(* makes and destroys one fence inside every bind.                         *)
(***************************************************************************)
EXTENDS Naturals, FiniteSets

CONSTANTS Threads, Contexts, NoContext, MaxWaits

VARIABLES
    line,       \* driver: the thread's timeline, [on, value, started]
    bound,      \* driver: the context current on every thread
    pc, prev,   \* a thread inside eglMakeCurrent, and the binding before it
    depth,      \* t_bind_depth
    early,      \* a fence was made that may signal before its work
    err         \* t_err_set: the front's own error waits for eglGetError

vars == <<line, bound, pc, prev, depth, early, err>>

NoLine == [on |-> FALSE, value |-> 0, started |-> FALSE]

Init ==
    /\ line = [t \in Threads |-> NoLine]
    /\ bound = [t \in Threads |-> NoContext]
    /\ pc = [t \in Threads |-> "out"] /\ prev = [t \in Threads |-> NoContext]
    /\ depth = [t \in Threads |-> 0]
    /\ early = FALSE /\ err = [t \in Threads |-> FALSE]

Free(c, t) == \A u \in Threads \ {t} : bound[u] # c

\* The driver's eglMakeCurrent: a timeline comes with the first context.
DriverBinds(t, c) ==
    /\ bound' = [bound EXCEPT ![t] = c]
    /\ line' = [line EXCEPT ![t] = IF c # NoContext /\ ~@.on
                                   THEN [NoLine EXCEPT !.on = TRUE] ELSE @]

\* The driver makes a fence: on a timeline not started it takes the value the
\* waits have left there.
Fenced(t) ==
    /\ line' = [line EXCEPT ![t].started = TRUE]
    /\ early' = (early \/ (~line[t].started /\ line[t].value > 0))

\* eglMakeCurrent with no context, or nested in another one, is forwarded.
Unbind(t) ==
    /\ pc[t] = "out"
    /\ DriverBinds(t, NoContext) /\ err' = [err EXCEPT ![t] = FALSE]
    /\ UNCHANGED <<pc, prev, depth, early>>

\* eglMakeCurrent: the binding is saved and the driver's bind is made; when
\* that fails nothing has changed, except that the driver may have made the
\* thread's timeline.
MakeCurrent(t, c) ==
    /\ pc[t] = "out" /\ depth[t] = 0 /\ Free(c, t)
    /\ prev' = [prev EXCEPT ![t] = bound[t]]
    /\ err' = [err EXCEPT ![t] = FALSE]
    /\ \/ /\ DriverBinds(t, c)
          /\ pc' = [pc EXCEPT ![t] = "start"] /\ depth' = [depth EXCEPT ![t] = 1]
       \/ /\ line' \in {line, [line EXCEPT ![t].on = TRUE]}
          /\ UNCHANGED <<bound, pc, depth>>
    /\ UNCHANGED early

\* start_thread_timeline: one fence made and destroyed.
Started(t) == Fenced(t)
StartTimeline(t) ==
    /\ pc[t] = "start"
    /\ Started(t)
    /\ \/ pc' = [pc EXCEPT ![t] = "out"] /\ depth' = [depth EXCEPT ![t] = 0]
       \/ pc' = [pc EXCEPT ![t] = "undo"] /\ UNCHANGED depth
    /\ UNCHANGED <<bound, prev, err>>

\* eglCreateSync fails: the timeline is not started.
StartFails(t) ==
    /\ pc[t] = "start"
    /\ pc' = [pc EXCEPT ![t] = "undo"]
    /\ UNCHANGED <<line, bound, prev, depth, early, err>>

\* The bind is undone: the previous context, or none when that fails too.
Undo(t) ==
    /\ pc[t] = "undo"
    /\ \/ prev[t] # NoContext /\ Free(prev[t], t) /\ DriverBinds(t, prev[t])
       \/ DriverBinds(t, NoContext)
    /\ pc' = [pc EXCEPT ![t] = "out"] /\ depth' = [depth EXCEPT ![t] = 0]
    /\ err' = [err EXCEPT ![t] = TRUE]
    /\ UNCHANGED <<prev, early>>

\* eglWaitSync, the application's or nvnSwapBuffers' (gpu_wait in window.c).
WaitSync(t) ==
    /\ pc[t] = "out" /\ bound[t] # NoContext /\ line[t].value < MaxWaits
    /\ line' = [line EXCEPT ![t].value = @ + 1]
    /\ err' = [err EXCEPT ![t] = FALSE]
    /\ UNCHANGED <<bound, pc, prev, depth, early>>

\* eglCreateSync, the application's or make_fence's.
CreateSync(t) ==
    /\ pc[t] = "out" /\ bound[t] # NoContext
    /\ Fenced(t) /\ err' = [err EXCEPT ![t] = FALSE]
    /\ UNCHANGED <<bound, pc, prev, depth>>

\* eglReleaseThread drops the timeline with the binding.
ReleaseThread(t) ==
    /\ pc[t] = "out"
    /\ bound' = [bound EXCEPT ![t] = NoContext]
    /\ line' = [line EXCEPT ![t] = NoLine]
    /\ err' = [err EXCEPT ![t] = FALSE]
    /\ UNCHANGED <<pc, prev, depth, early>>

GetError(t) ==
    /\ pc[t] = "out" /\ err[t]
    /\ err' = [err EXCEPT ![t] = FALSE]
    /\ UNCHANGED <<line, bound, pc, prev, depth, early>>

Next == \E t \in Threads :
    \/ Unbind(t) \/ StartTimeline(t) \/ StartFails(t) \/ Undo(t)
    \/ WaitSync(t) \/ CreateSync(t) \/ ReleaseThread(t) \/ GetError(t)
    \/ \E c \in Contexts : MakeCurrent(t, c)

Spec == Init /\ [][Next]_vars

-----------------------------------------------------------------------------
\* Invariant I of front.c:196-214: the first fence on every timeline is made
\* while its value is 0, so no fence ever signals before the work it covers,
\* through failed binds, undone binds, released threads and contexts moving
\* between threads.  A thread with a context outside eglMakeCurrent has a
\* started timeline.
FencesCoverWork ==
    /\ ~early
    /\ \A t \in Threads : pc[t] = "out" /\ bound[t] # NoContext => line[t].started

\* An undone eglMakeCurrent leaves the thread as it was or unbound, never on
\* the context whose bind failed, and eglGetError still reports it.
UndoneBindIsGone ==
    [][\A t \in Threads : pc[t] = "undo" /\ pc'[t] = "out" =>
          bound'[t] \in {prev[t], NoContext} /\ err'[t]]_vars
=============================================================================
