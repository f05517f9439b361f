------------------------------ MODULE HalDevice ------------------------------
(***************************************************************************)
(* What the glibc-shim Vulkan HAL offers, creates and hands out            *)
(* (hal/src/hal.c, hal/src/device.c): the extensions a device offers and   *)
(* vkCreateDevice accepts, the prerequisites enabled behind them, the      *)
(* start of every queue's fence timeline, and the entry point every        *)
(* command name resolves to.  Extensions and commands are classes of the   *)
(* tables in the two files; NVIDIA's ICD is chosen in Init.                *)
(***************************************************************************)
EXTENDS Naturals, Sequences, FiniteSets

CONSTANTS MaxQueues, MaxUses    \* bounds: queues of a device, uses of a device

VARIABLES
    icd,        \* the ICD: extensions, versions, what its lookups know
    offered,    \* what the application was offered
    dev,        \* the device, or NoDevice
    result,     \* of the last vkCreateDevice, with what was asked
    queues,     \* per queue: the timeline advanced, the timeline is started
    early,      \* a fence was exported that does not cover the work before it
    fn, out,    \* the entry point looked up last, the outcome of calling it
    uses

vars == <<icd, offered, dev, result, queues, early, fn, out, uses>>

-----------------------------------------------------------------------------
(* Extensions *)

Hidden == {"priority", "swapchain"}      \* hidden_device_exts and its groups
Unknown == {"unknown"}                   \* not in the registry
AnbRequired == {"memoryFd", "semaphoreFd", "fenceFd"}
AhbRequired == {"memoryFd"}
AhbSupported == {"formatFlags2"}
Required10 == {"externalMemory"}
Maintenance2 == "maintenance2"
Exts == {"plain"} \cup Hidden \cup Unknown \cup AnbRequired \cup AhbSupported
        \cup Required10 \cup {Maintenance2}
Android == {"anb", "ahb"}                \* what the HAL itself implements

\* ICDs with every extension but at most one, or with none.
Icds == {Exts, {}} \cup {Exts \ {e} : e \in Exts}

NoDevice == [live |-> FALSE, anb |-> FALSE, ahb |-> FALSE, astc |-> FALSE, sync |-> {}]
NoResult == [code |-> "none", asked |-> {}, names |-> {}, ready |-> FALSE]
NoFn == [cmd |-> "none", via |-> "none", is |-> "null"]

Init ==
    /\ \E e \in Icds, v \in {10, 14}, w \in {11, 14}, a, s \in BOOLEAN,
          k \in {"both", "instance", "neither"} :
          /\ e # Exts => k = "both"
          /\ icd = [exts |-> e, instApi |-> v, devApi |-> w, ahb |-> a, emulate |-> s, knows |-> k]
    /\ offered = {} /\ dev = NoDevice /\ result = NoResult /\ queues = <<>>
    /\ early = FALSE /\ fn = NoFn /\ out = "none" /\ uses = 0

\* api_min
Api == IF icd.instApi < icd.devApi THEN icd.instApi ELSE icd.devApi
Legacy == Api < 11

\* device_ext_exposed
Exposed(e) == e \notin Hidden /\ e \notin Unknown

\* anb_missing, ahb_missing
AnbMissing(legacy) == (AnbRequired \cup (IF legacy THEN Required10 ELSE {})) \ icd.exts
AhbMissing(legacy) ==
    (AhbRequired \cup AhbSupported \cup (IF legacy THEN Required10 ELSE {})) \ icd.exts

\* nvhal_EnumerateDeviceExtensionProperties: the loop's filter, then the
\* native-buffer extension always, and the AHardwareBuffer one if it can work.
EnumerateDeviceExtensionProperties ==
    /\ result = NoResult /\ ~dev.live
    /\ offered' = {e \in icd.exts : Exposed(e)} \cup {"anb"}
                  \cup (IF icd.ahb /\ AhbMissing(FALSE) = {} THEN {"ahb"} ELSE {})
    /\ UNCHANGED <<icd, dev, result, queues, early, fn, out, uses>>

-----------------------------------------------------------------------------
(* nvhal_CreateDevice *)

\* Prerequisites added behind the application's back.
Prereqs(req) ==
    (IF "anb" \in req THEN AnbRequired ELSE {}) \cup (IF "ahb" \in req THEN AhbRequired ELSE {})
    \cup (IF req \cap Android # {} /\ Legacy THEN Required10 ELSE {})
    \cup (IF icd.emulate /\ Legacy THEN {Maintenance2} ELSE {})

\* The checks in order; the global-priority structure is core from 1.4 on.
Refused(req, prio) ==
    \/ \E e \in req \ Android : ~Exposed(e) \/ e \notin icd.exts
    \/ "anb" \in req /\ AnbMissing(Legacy) # {}
    \/ "ahb" \in req /\ (~icd.ahb \/ AhbMissing(Legacy) # {})
    \/ icd.emulate /\ Legacy /\ Maintenance2 \notin icd.exts
    \/ \E e \in Prereqs(req) : e \in Hidden
    \/ prio /\ Api < 14

\* start_queue_timelines: every queue of every create info, in order, when the
\* device can export or import a sync_fd at all; the first failure stops it.
SyncFd == {"semaphoreFd", "fenceFd"}
NeedsStart(names) == names \cap SyncFd # {}
StartedMutFirst(names, n, fails) ==
    [k \in 1 .. n |-> [moved |-> FALSE, started |-> NeedsStart(names) /\ k = 1]]

Started(names, n, fails) ==
    [k \in 1 .. n |-> [moved |-> FALSE, started |-> NeedsStart(names) /\ k < fails]]

\* fails: the queue whose start fails, n + 1 for none; 0 for the ICD's own
\* refusal, a missing entry point, no memory.  Whatever fails after
\* the ICD created its device destroys that device again.
CreateDevice(req, prio, n, fails) ==
    LET names == (req \ Android) \cup Prereqs(req)
        qs == Started(names, n, fails)
        answer(code) == [code |-> code, asked |-> req,
                         names |-> IF code = "not present" THEN {} ELSE names,
                         ready |-> ~prio]
    IN
    /\ (prio => n = 1)
    /\ \/ /\ Refused(req, prio)
          /\ result' = answer("not present")
          /\ UNCHANGED <<dev, queues>>
       \/ /\ ~Refused(req, prio)
          /\ fails = 0 \/ (NeedsStart(names) /\ fails <= n)
          /\ result' = answer("failed")
          /\ UNCHANGED <<dev, queues>>
       \/ /\ ~Refused(req, prio) /\ fails # 0 /\ (fails > n \/ ~NeedsStart(names))
          /\ result' = answer("success")
          /\ dev' = [live |-> TRUE, anb |-> "anb" \in req, ahb |-> "ahb" \in req,
                     astc |-> icd.emulate, sync |-> names \cap SyncFd]
          /\ queues' = qs
    /\ UNCHANGED <<icd, offered, early, fn, out, uses>>

-----------------------------------------------------------------------------
(* The application's queues: NVIDIA's defect D1 *)

\* Earlier answers are forgotten when a device is used.
Use ==
    /\ dev.live /\ uses < MaxUses /\ uses' = uses + 1
    /\ offered' = {} /\ result' = NoResult

\* A GPU wait on an imported sync_fd advances the timeline without starting it.
WaitImported(k) ==
    /\ Use /\ "semaphoreFd" \in dev.sync
    /\ queues' = [queues EXCEPT ![k].moved = TRUE]
    /\ UNCHANGED <<icd, dev, early, fn, out>>

\* The first export of a timeline that moved unstarted covers nothing.
ExportFd(k) ==
    /\ Use /\ dev.sync # {}
    /\ early' = (early \/ (queues[k].moved /\ ~queues[k].started))
    /\ queues' = [queues EXCEPT ![k].started = TRUE]
    /\ UNCHANGED <<icd, dev, fn, out>>

-----------------------------------------------------------------------------
(* Entry points *)

\* Commands by the kind of their intercept: one of the image translators, of
\* the compute-state shadow, of the AHardwareBuffer memory calls, the ones of
\* the two Android extensions, core device calls, instance calls, and
\* commands the HAL does not intercept.
Commands == {"wrap", "shadow", "ahb", "ahbOnly", "anb", "device", "instance", "other"}

\* Extension commands may be known to the ICD's instance lookup only.
Optional == {"wrap", "shadow", "other"}
InstanceKnows(c) == c \notin {"anb", "ahbOnly"} /\ (c \in Optional => icd.knows # "neither")
DeviceKnows(c) ==
    c \notin {"anb", "ahbOnly", "instance"} /\ (c \in Optional => icd.knows = "both")

Icd(known) == IF known THEN "icd" ELSE "null"
Hal(known) == IF known THEN "hal" ELSE "null"

\* hal_GetInstanceProcAddr
InstanceProc(c) ==
    CASE c = "ahbOnly" -> Hal(icd.ahb)
      [] c \in {"wrap", "shadow"} -> Hal(InstanceKnows(c))
      [] c = "other" -> Icd(InstanceKnows(c))
      [] OTHER -> "hal"

\* device_proc
DeviceProc(c) ==
    CASE c = "anb" -> Hal(dev.anb)
      [] c = "ahbOnly" -> Hal(dev.ahb)
      [] c = "instance" -> "null"
      [] c = "ahb" /\ ~dev.ahb -> Icd(DeviceKnows(c))
      [] c = "wrap" /\ ~dev.ahb /\ ~dev.anb /\ ~dev.astc -> Icd(DeviceKnows(c))
      [] c = "shadow" /\ ~dev.astc -> Icd(DeviceKnows(c))
      [] c = "other" -> Icd(DeviceKnows(c))
      [] OTHER -> Hal(DeviceKnows(c))

GetInstanceProcAddr(c) ==
    /\ Use
    /\ fn' = [cmd |-> c, via |-> "instance", is |-> InstanceProc(c)]
    /\ UNCHANGED <<icd, dev, queues, early, out>>
GetDeviceProcAddr(c) ==
    /\ Use
    /\ fn' = [cmd |-> c, via |-> "device", is |-> DeviceProc(c)]
    /\ UNCHANGED <<icd, dev, queues, early, out>>

\* The entry point a wrapper forwards to: XL_FETCH, then XL_FETCH_GIPA; the
\* other tables are filled from the device's lookup alone.
Forward(c) ==
    CASE c = "wrap" -> DeviceKnows(c) \/ InstanceKnows(c)
      [] c = "shadow" -> DeviceKnows(c)
      [] OTHER -> TRUE

\* What a handle can be on this device.
Arguments ==
    {"plain"} \cup (IF dev.ahb \/ dev.anb THEN {"wrapper"} ELSE {})
    \cup (IF dev.astc THEN {"emulated"} ELSE {}) \cup (IF dev.ahb THEN {"ahb memory"} ELSE {})
Takes(c) ==
    CASE c = "wrap" -> {"plain", "wrapper", "emulated"}
      [] c = "ahb" -> {"plain", "ahb memory"}
      [] OTHER -> {"plain"}

\* A command of an extension that is not enabled is only called when it names
\* images (the debug names of device.c:713-721).
CallCommand(a) ==
    /\ dev.live /\ fn.is # "null" /\ a \in Arguments \cap Takes(fn.cmd)
    /\ fn.cmd = "shadow" => DeviceKnows("shadow")
    /\ out' = CASE fn.is = "icd" /\ a # "plain" -> "foreign handle in the ICD"
                [] fn.is = "hal" /\ ~Forward(fn.cmd) -> "no function"
                [] fn.is = "icd" /\ fn.cmd = "shadow" /\ dev.astc -> "not shadowed"
                [] OTHER -> "done"
    /\ fn' = NoFn
    /\ UNCHANGED <<icd, offered, dev, result, queues, early, uses>>

Requests == {p \cup a : p \in {{}} \cup {{e} : e \in Exts}, a \in SUBSET Android}

Next ==
    \/ EnumerateDeviceExtensionProperties
    \/ /\ ~dev.live /\ result = NoResult  \* a failed creation leaves nothing to start from
       /\ \E req \in Requests, prio \in BOOLEAN, n \in 1 .. MaxQueues :
             \E fails \in 0 .. n + 1 : CreateDevice(req, prio, n, fails)
    \/ \E k \in DOMAIN queues : WaitImported(k) \/ ExportFd(k)
    \/ \E c \in Commands : GetInstanceProcAddr(c) \/ GetDeviceProcAddr(c)
    \/ \E a \in {"plain", "wrapper", "emulated", "ahb memory"} : CallCommand(a)

Spec == Init /\ [][Next]_vars

-----------------------------------------------------------------------------
\* What was offered can be created: vkCreateDevice refuses a subset of the
\* offered extensions only for the native buffer of an ICD that lacks its
\* prerequisites (said in the log at the offer), for a 1.0 device without the
\* extensions that 1.1 made core, or for a global priority.  What the ICD is
\* asked for is never hidden and always exists (device.c:241-285, 568-680).
OffersHold ==
    /\ (result.code = "not present" /\ result.asked \subseteq offered /\ result.ready) =>
          \/ "anb" \in result.asked /\ AnbMissing(FALSE) # {}
          \/ Legacy /\ (Required10 \cup {Maintenance2}) \ icd.exts # {}
    /\ \A e \in result.names : Exposed(e) /\ e \in icd.exts

\* Invariant I of start_queue_timelines: no queue of a device that the
\* application can use ever exports a fence that signals before the work it
\* covers (device.c:358-382, 476-530).
FencesCover == ~early

\* However the application obtained a command, calling it neither reaches the
\* ICD with a handle only the HAL understands, nor escapes the shadow of the
\* compute state, nor finds no function behind the HAL's wrapper
\* (hal.c:480-558, device.c:700-735).
CallsReach == out \in {"none", "done"}
=============================================================================
