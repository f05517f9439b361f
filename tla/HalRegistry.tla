----------------------------- MODULE HalRegistry -----------------------------
(***************************************************************************)
(* The HAL's maps of dispatchable objects (hal/src/hal.c, device.c):       *)
(* instances and devices by handle, and the physical devices and queues    *)
(* that belong to them, all under nvhal_lock.  A thread creates, uses and  *)
(* destroys its own instance and device; the driver reuses a handle as     *)
(* soon as its object is destroyed, so two threads meet in the maps.       *)
(* Level "inst" has physical devices for children, level "dev" queues.     *)
(***************************************************************************)
EXTENDS Integers, FiniteSets

CONSTANTS Threads,
          Handles,   \* the driver's handles of one level, positive
          Kids,      \* child handles of one level, positive
          Structs,   \* heap blocks of one level, positive (0 is NULL)
          MaxCreates \* bound on the objects created

Levels == {"inst", "dev"}

VARIABLES map,   \* instances / devices: handle -> struct
          kid,   \* physdevs / queues: child handle -> struct
          drv,   \* driver: handle -> the thread whose object it is
          drvKid,\* driver: child handle -> parent handle (0: none)
          heap,  \* struct -> [live, handle]
          own,   \* the object a thread has in hand (0: none)
          pc, creates
vars == <<map, kid, drv, drvKid, heap, own, pc, creates>>

Nobody == "nobody"
Idle == [at |-> "idle", lvl |-> "inst", h |-> 0, s |-> 0]
Step(t, at) == pc' = [pc EXCEPT ![t].at = at]
Done(t) == pc' = [pc EXCEPT ![t] = Idle]

\* The driver's create, then calloc of the HAL's struct.
Created(t, lvl, h, s) ==
    /\ pc[t].at = "idle" /\ own[t][lvl] = 0 /\ creates < MaxCreates
    /\ drv[lvl][h] = Nobody /\ ~heap[lvl][s].live
    /\ drv' = [drv EXCEPT ![lvl][h] = t]
    /\ heap' = [heap EXCEPT ![lvl][s] = [live |-> TRUE, handle |-> h]]
    /\ pc' = [pc EXCEPT ![t] = [at |-> "setup", lvl |-> lvl, h |-> h, s |-> s]]
    /\ creates' = creates + 1
    /\ UNCHANGED <<map, kid, drvKid, own>>

\* hal_CreateInstance up to the driver's instance and its struct
CreateInstance(t, h, s) == Created(t, "inst", h, s)

\* nvhal_CreateDevice up to the driver's device: the physical device must be
\* one this HAL enumerated (nvhal_physdev_instance).
CreateDevice(t, h, s) ==
    /\ \E p \in Kids : drvKid["inst"][p] = own[t]["inst"] /\ drvKid["inst"][p] # 0
                       /\ kid["inst"][p] # 0
    /\ Created(t, "dev", h, s)

\* the entry points, and for a device the emulation, the timing and the queue
\* timelines: any of them may fail
CreateSetup(t, ok) ==
    /\ pc[t].at = "setup"
    /\ Step(t, IF ok THEN "record" ELSE "undo")
    /\ UNCHANGED <<map, kid, drv, drvKid, heap, own, creates>>

\* nvhal_map_put under the lock
CreateRecord(t, memory) ==
    LET c == pc[t]
    IN /\ c.at = "record"
       /\ IF memory
          THEN /\ map' = [map EXCEPT ![c.lvl][c.h] = c.s]
               /\ own' = [own EXCEPT ![t][c.lvl] = c.h]
               /\ Done(t)
          ELSE UNCHANGED <<map, own>> /\ Step(t, "undo")
       /\ UNCHANGED <<kid, drv, drvKid, heap, creates>>

\* the failure paths: the driver's destroy, then free
CreateUndo(t) ==
    LET c == pc[t]
    IN /\ c.at = "undo"
       /\ drv' = [drv EXCEPT ![c.lvl][c.h] = Nobody]
       /\ heap' = [heap EXCEPT ![c.lvl][c.s].live = FALSE]
       /\ Done(t)
       /\ UNCHANGED <<map, kid, drvKid, own, creates>>

-----------------------------------------------------------------------------
\* the driver names a child of the object; it is recorded under the lock, or
\* its map cannot grow and it stays unknown
RecordKid(t, lvl, k, memory) ==
    LET h == own[t][lvl]
    IN /\ pc[t].at = "idle" /\ h # 0
       /\ drvKid[lvl][k] \in {0, h}
       /\ drvKid' = [drvKid EXCEPT ![lvl][k] = h]
       /\ kid' = IF memory THEN [kid EXCEPT ![lvl][k] = map[lvl][h]] ELSE kid
       /\ UNCHANGED <<map, drv, heap, own, pc, creates>>

\* hal_EnumeratePhysicalDevices, hal_EnumeratePhysicalDeviceGroups
\* (record_physdevs)
EnumeratePhysicalDevices(t, p, memory) == RecordKid(t, "inst", p, memory)
\* nvhal_GetDeviceQueue, nvhal_GetDeviceQueue2 (record_queue)
GetDeviceQueue(t, q, memory) == RecordKid(t, "dev", q, memory)

\* the maps without an object and its children
Forgotten(t, lvl) ==
    LET h == own[t][lvl]
        s == map[lvl][h]
    IN /\ map' = [map EXCEPT ![lvl][h] = 0]
       /\ kid' = [kid EXCEPT ![lvl] = [k \in Kids |-> IF @[k] = s THEN 0 ELSE @[k]]]

Destroyed(t, lvl) ==
    LET h == own[t][lvl]
    IN /\ pc[t].at = "idle" /\ h # 0
       /\ Forgotten(t, lvl)
       /\ own' = [own EXCEPT ![t][lvl] = 0]
       /\ pc' = [pc EXCEPT ![t] = [at |-> "driver", lvl |-> lvl, h |-> h, s |-> map[lvl][h]]]
       /\ UNCHANGED <<drv, drvKid, heap, creates>>

\* hal_DestroyInstance, nvhal_DestroyDevice: out of the maps first ...
DestroyInstance(t) == own[t]["dev"] = 0 /\ Destroyed(t, "inst")
DestroyDevice(t) == Destroyed(t, "dev")

\* ... then the driver's destroy, after which the handles may be reused ...
DestroyInDriver(t) ==
    LET c == pc[t]
    IN /\ c.at = "driver"
       /\ drv' = [drv EXCEPT ![c.lvl][c.h] = Nobody]
       /\ drvKid' = [drvKid EXCEPT ![c.lvl] = [k \in Kids |-> IF @[k] = c.h THEN 0 ELSE @[k]]]
       /\ Step(t, "free")
       /\ UNCHANGED <<map, kid, heap, own, creates>>

\* ... then the struct is freed.
DestroyFree(t) ==
    /\ pc[t].at = "free"
    /\ heap' = [heap EXCEPT ![pc[t].lvl][pc[t].s].live = FALSE]
    /\ Done(t)
    /\ UNCHANGED <<map, kid, drv, drvKid, own, creates>>

Init ==
    /\ map = [l \in Levels |-> [h \in Handles |-> 0]]
    /\ kid = [l \in Levels |-> [k \in Kids |-> 0]]
    /\ drv = [l \in Levels |-> [h \in Handles |-> Nobody]]
    /\ drvKid = [l \in Levels |-> [k \in Kids |-> 0]]
    /\ heap = [l \in Levels |-> [s \in Structs |-> [live |-> FALSE, handle |-> 0]]]
    /\ own = [t \in Threads |-> [l \in Levels |-> 0]]
    /\ pc = [t \in Threads |-> Idle]
    /\ creates = 0

Next == \E t \in Threads :
    \/ \E h \in Handles, s \in Structs : CreateInstance(t, h, s) \/ CreateDevice(t, h, s)
    \/ \E ok \in BOOLEAN : CreateSetup(t, ok) \/ CreateRecord(t, ok)
    \/ CreateUndo(t)
    \/ \E k \in Kids, memory \in BOOLEAN :
          EnumeratePhysicalDevices(t, k, memory) \/ GetDeviceQueue(t, k, memory)
    \/ DestroyInstance(t) \/ DestroyDevice(t) \/ DestroyInDriver(t) \/ DestroyFree(t)
Spec == Init /\ [][Next]_vars

-----------------------------------------------------------------------------
\* A handle in a map leads to the live struct of the driver object that has
\* the handle now, never to a freed struct or to the object that had it
\* before; a child leads to its own parent's struct; and whatever a thread
\* has in hand is found (nvhal_instance_get, nvhal_device_get,
\* nvhal_physdev_instance, nvhal_queue_device).
RegistryExact == \A lvl \in Levels :
    /\ \A h \in Handles : map[lvl][h] # 0 =>
          heap[lvl][map[lvl][h]] = [live |-> TRUE, handle |-> h] /\ drv[lvl][h] # Nobody
    /\ \A k \in Kids : kid[lvl][k] # 0 =>
          heap[lvl][kid[lvl][k]] = [live |-> TRUE, handle |-> drvKid[lvl][k]]
    /\ \A t \in Threads : own[t][lvl] # 0 =>
          map[lvl][own[t][lvl]] # 0 /\ drv[lvl][own[t][lvl]] = t
=============================================================================
