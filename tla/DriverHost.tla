------------------------------ MODULE DriverHost ------------------------------
(***************************************************************************)
(* The process that hosts the driver: DriverEntry (Driver.cpp) with the    *)
(* log it opens, and every device node of the driver from AddDevice to the *)
(* cleanup of its WDF object (Device.cpp), seen by which callback finds    *)
(* which object.                                                           *)
(*                                                                         *)
(* QubesIdd.inf puts all device nodes into one group (DeviceGroupId), so   *)
(* they share one process and with it the global l_wdfDevice.  PnP calls   *)
(* the driver for one node at a time, IddCx likewise for one monitor, but  *)
(* nothing orders the calls of two nodes, nor PnP's and IddCx's calls for  *)
(* the same node.  What happens inside a device context is IndirectDisplay.*)
(***************************************************************************)
EXTENDS LogRotation

CONSTANTS
  Device,       \* device nodes of the driver
  NoDevice

ASSUME DeviceAssumption == NoDevice \notin Device

VARIABLES
  l_wdfDevice,  \* the device the callbacks without an object are sent to
  stage,        \* [d]: where PnP is with the node
  context,      \* [d]: the wrapper of the WDF device holds a device context
  adapter,      \* [d]: "none", "pending", "finishing", "done"
  bound,        \* [d]: the wrapper of the adapter holds the device context
  monitor,      \* [d]: "none", "created", "arrived"
  held,         \* [d]: the wrapper of the monitor holds a monitor context
  assigned,     \* IddCx [d]: the monitor has a swap chain
  worker,       \* [d]: a swap chain worker runs, with a device context pointer
  answer,       \* [d]: who answered the last ParseMonitorDescription
  version,      \* IddCx's version is at least 1.10
  functions,    \* IddCx has the functions and callback fields of 1.10
  registered,   \* [d]: the callbacks of 1.10 were given to IddCx, not the older
  fp16,         \* [d]: m_canProcessFP16
  shared,       \* history: two nodes were in this process at once
  fault         \* history: the callback whose bad pointer ended the process

node_vars == <<stage, context, adapter, bound, monitor, held, assigned, worker,
               answer>>
ddi_vars  == <<version, functions, registered, fp16>>
vars == <<log_vars, l_wdfDevice, node_vars, ddi_vars, shared, fault>>

Everywhere(x) == [d \in Device |-> x]

Init ==
  /\ LogInit
  /\ l_wdfDevice = NoDevice
  /\ stage = Everywhere("none") /\ context = Everywhere(FALSE)
  /\ adapter = Everywhere("none") /\ bound = Everywhere(FALSE)
  /\ monitor = Everywhere("none") /\ held = Everywhere(FALSE)
  /\ assigned = Everywhere(FALSE) /\ worker = Everywhere(FALSE)
  /\ answer = Everywhere("unasked")
  /\ version \in BOOLEAN /\ functions \in BOOLEAN
  /\ registered = Everywhere(FALSE) /\ fp16 = Everywhere(FALSE)
  /\ shared = FALSE /\ fault = "none"

-----------------------------------------------------------------------------
(* The process.                                                            *)

\* DriverEntry begins with the log.  Windows may have been updated since.
Start ==
  /\ StartHost
  /\ version' \in BOOLEAN /\ functions' \in BOOLEAN
  /\ shared' = FALSE /\ fault' = "none"
  /\ UNCHANGED <<l_wdfDevice, node_vars, registered, fp16>>

InitLog ==
  /\ DeleteOldest \/ MoveLog \/ OpenLog
  /\ UNCHANGED <<l_wdfDevice, node_vars, ddi_vars, shared, fault>>

\* The rest of DriverEntry when WdfDriverCreate succeeds; the pipe is a stub
\* that never fails.
CreateDriver ==
  /\ GoOn
  /\ UNCHANGED <<l_wdfDevice, node_vars, ddi_vars, shared, fault>>

\* Everything in the process goes with it.
Die ==
  /\ EndHost
  /\ l_wdfDevice' = NoDevice
  /\ stage' = Everywhere("none") /\ context' = Everywhere(FALSE)
  /\ adapter' = Everywhere("none") /\ bound' = Everywhere(FALSE)
  /\ monitor' = Everywhere("none") /\ held' = Everywhere(FALSE)
  /\ assigned' = Everywhere(FALSE) /\ worker' = Everywhere(FALSE)
  /\ answer' = Everywhere("unasked")
  /\ registered' = Everywhere(FALSE) /\ fp16' = Everywhere(FALSE)
  /\ UNCHANGED <<version, functions>>

\* The process ends: DriverEntry failed, the driver was unloaded (its cleanup
\* callback only closes the pipe) or the host was killed.
Exit ==
  /\ Die
  /\ UNCHANGED <<shared, fault>>

\* A callback goes through a pointer to nothing.
Fault(callback) ==
  /\ Die
  /\ fault' = callback
  /\ UNCHANGED shared

-----------------------------------------------------------------------------
(* PnP: LGIddCreateDevice, D0Entry, the cleanup of the device.             *)

Up(d, s) == pc = "up" /\ stage[d] = s

Keep == UNCHANGED <<log_vars, version, functions, fault>>

\* LGIddCanUseIddCx110DDIs.
CanUse110 == version /\ functions

CreateDevice_NotCached(d) ==
  /\ Up(d, "none")
  /\ stage' = [stage EXCEPT ![d] = "created"]
  /\ registered' = [registered EXCEPT ![d] = CanUse110]
  /\ shared' = (shared \/ \E e \in Device : stage[e] # "none")
  /\ Keep /\ UNCHANGED <<l_wdfDevice, context, adapter, bound, monitor, held,
                         assigned, worker, answer, fp16>>

\* Up to the assignment of l_wdfDevice.  A failure before it leaves nothing.
CreateDevice(d) ==
  /\ Up(d, "none")
  /\ stage' = [stage EXCEPT ![d] = "created"]
  /\ l_wdfDevice' = d
  /\ registered' = [registered EXCEPT ![d] = CanUse110]
  /\ shared' = (shared \/ \E e \in Device : stage[e] # "none")
  /\ Keep /\ UNCHANGED <<context, adapter, bound, monitor, held, assigned, worker,
                         answer, fp16>>

\* IddCxDeviceInitialize may fail; the context is made all the same, and WDF
\* takes a device whose AddDevice failed away again.
InitializeDevice(d) ==
  /\ Up(d, "created")
  /\ stage' \in {[stage EXCEPT ![d] = s] : s \in {"added", "refused"}}
  /\ context' = [context EXCEPT ![d] = TRUE]
  /\ Keep /\ UNCHANGED <<l_wdfDevice, adapter, bound, monitor, held, assigned,
                         worker, answer, registered, fp16, shared>>

QueryCapabilities_NoVersion(b) == b \in {FALSE, functions}

\* QueryIddCxCapabilities; a failing IddCxGetVersion means no.
QueryCapabilities(b) == b \in {FALSE, CanUse110}

\* D0Entry: InitAdapter up to IddCxAdapterInitAsync.  When it is refused with
\* FP16 it is tried again without; an adapter there already is not replaced.
InitAdapter(d) ==
  /\ Up(d, "added")
  /\ \E capable \in BOOLEAN :
       /\ QueryCapabilities(capable)
       /\ \/ /\ adapter[d] = "none"
             /\ fp16' \in {[fp16 EXCEPT ![d] = b] : b \in {capable, FALSE}}
             /\ stage' = [stage EXCEPT ![d] = "entering"]
             /\ adapter' = [adapter EXCEPT ![d] = "pending"]
          \/ /\ fp16' = [fp16 EXCEPT ![d] = FALSE]
             /\ stage' = [stage EXCEPT ![d] = "started"]
             /\ UNCHANGED adapter
  /\ Keep /\ UNCHANGED <<l_wdfDevice, context, bound, monitor, held, assigned,
                         worker, answer, registered, shared>>

\* The rest of InitAdapter: the render adapter, then the adapter's wrapper.
BindAdapter(d) ==
  /\ Up(d, "entering")
  /\ stage' = [stage EXCEPT ![d] = "started"]
  /\ bound' = [bound EXCEPT ![d] = TRUE]
  /\ Keep /\ UNCHANGED <<l_wdfDevice, context, adapter, monitor, held, assigned,
                         worker, answer, registered, fp16, shared>>

\* The device leaves D0 and will enter it again; the driver has no callback
\* for that.  IddCx has unassigned the chain and may take its objects down.
PowerDown(d) ==
  /\ Up(d, "started")
  /\ adapter[d] # "finishing" /\ ~assigned[d]
  /\ stage' = [stage EXCEPT ![d] = "added"]
  /\ \/ /\ adapter' = [adapter EXCEPT ![d] = "none"]
        /\ bound' = [bound EXCEPT ![d] = FALSE]
        /\ monitor' = [monitor EXCEPT ![d] = "none"]
        /\ held' = [held EXCEPT ![d] = FALSE]
        /\ answer' = [answer EXCEPT ![d] = "unasked"]
     \/ UNCHANGED <<adapter, bound, monitor, held, answer>>
  /\ Keep /\ UNCHANGED <<l_wdfDevice, context, assigned, worker, registered, fp16,
                         shared>>

\* The node goes away.  IddCx has returned from its callbacks and unassigned
\* the chain; its objects go too.  The cleanup callback deletes the context ...
CleanupDevice(d) ==
  /\ \E s \in {"refused", "added", "started"} : Up(d, s)
  /\ adapter[d] # "finishing" /\ ~assigned[d]
  /\ stage' = [stage EXCEPT ![d] = "removing"]
  /\ context' = [context EXCEPT ![d] = FALSE]
  /\ adapter' = [adapter EXCEPT ![d] = "none"]
  /\ bound' = [bound EXCEPT ![d] = FALSE]
  /\ monitor' = [monitor EXCEPT ![d] = "none"]
  /\ held' = [held EXCEPT ![d] = FALSE]
  /\ answer' = [answer EXCEPT ![d] = "unasked"]
  /\ fp16' = [fp16 EXCEPT ![d] = FALSE]
  /\ registered' = [registered EXCEPT ![d] = FALSE]
  /\ Keep /\ UNCHANGED <<l_wdfDevice, assigned, worker, shared>>

\* ... and then clears the global, whichever device it names.
ForgetDevice(d) ==
  /\ Up(d, "removing")
  /\ stage' = [stage EXCEPT ![d] = "none"]
  /\ l_wdfDevice' = NoDevice
  /\ Keep /\ UNCHANGED <<context, adapter, bound, monitor, held, assigned, worker,
                         answer, registered, fp16, shared>>

-----------------------------------------------------------------------------
(* IddCx: the adapter's and the monitor's callbacks.                       *)

\* AdapterInitFinished comes any time after IddCxAdapterInitAsync, also before
\* InitAdapter has set the wrapper.  A failing status is ignored.
AdapterInitFinished(d) ==
  /\ pc = "up" /\ adapter[d] = "pending"
  /\ \/ /\ \/ adapter' = [adapter EXCEPT ![d] = "done"]
           \/ bound[d] /\ adapter' = [adapter EXCEPT ![d] = "finishing"]
        /\ Keep /\ UNCHANGED <<l_wdfDevice, stage, context, bound, monitor, held,
                               assigned, worker, answer, registered, fp16, shared>>
     \/ ~bound[d] /\ Fault("AdapterInitFinished")

CreateMonitor_NotHeld(d) ==
  /\ pc = "up" /\ adapter[d] = "finishing" /\ monitor[d] = "none"
  /\ \/ monitor' = [monitor EXCEPT ![d] = "created"] /\ UNCHANGED adapter
     \/ adapter' = [adapter EXCEPT ![d] = "done"] /\ UNCHANGED monitor
  /\ Keep /\ UNCHANGED <<l_wdfDevice, stage, context, bound, held, assigned, worker,
                         answer, registered, fp16, shared>>

\* FinishInit up to the monitor's wrapper.
CreateMonitor(d) ==
  /\ pc = "up" /\ adapter[d] = "finishing" /\ monitor[d] = "none"
  /\ \/ /\ monitor' = [monitor EXCEPT ![d] = "created"]
        /\ held' = [held EXCEPT ![d] = TRUE]
        /\ UNCHANGED adapter
     \/ adapter' = [adapter EXCEPT ![d] = "done"] /\ UNCHANGED <<monitor, held>>
  /\ Keep /\ UNCHANGED <<l_wdfDevice, stage, context, bound, assigned, worker,
                         answer, registered, fp16, shared>>

\* IddCxMonitorArrival, which may fail.
AnnounceMonitor(d) ==
  /\ pc = "up" /\ adapter[d] = "finishing" /\ monitor[d] = "created"
  /\ adapter' = [adapter EXCEPT ![d] = "done"]
  /\ monitor' \in {monitor, [monitor EXCEPT ![d] = "arrived"]}
  /\ Keep /\ UNCHANGED <<l_wdfDevice, stage, context, bound, held, assigned, worker,
                         answer, registered, fp16, shared>>

Arrived(d) == pc = "up" /\ monitor[d] = "arrived"

\* ParseMonitorDescription gets no object and goes through the global; both
\* versions of it do the same.
ParseMonitorDescription(d) ==
  /\ Arrived(d)
  /\ IF l_wdfDevice = NoDevice \/ context[l_wdfDevice]
     THEN /\ answer' = [answer EXCEPT ![d] =
                          CASE l_wdfDevice = NoDevice -> "refused"
                            [] l_wdfDevice = d -> "own"
                            [] OTHER -> "other"]
          /\ Keep /\ UNCHANGED <<l_wdfDevice, stage, context, adapter, bound, monitor,
                                 held, assigned, worker, registered, fp16, shared>>
     ELSE Fault("ParseMonitorDescription")

\* A callback for the monitor goes through its wrapper to the device context.
\* The mode queries and the constant answers change nothing; an assignment
\* starts a worker, unless one of its calls fails.
MonitorCallback(d) ==
  /\ Arrived(d)
  /\ IF held[d] /\ context[d]
     THEN /\ assigned' = [assigned EXCEPT ![d] = TRUE]
          /\ worker' \in {worker, [worker EXCEPT ![d] = TRUE]}
          /\ Keep /\ UNCHANGED <<l_wdfDevice, stage, context, adapter, bound, monitor,
                                 held, answer, registered, fp16, shared>>
     ELSE Fault("MonitorCallback")

UnassignSwapChain_NotJoined(d) ==
  /\ Arrived(d) /\ assigned[d]
  /\ assigned' = [assigned EXCEPT ![d] = FALSE]
  /\ Keep /\ UNCHANGED <<l_wdfDevice, stage, context, adapter, bound, monitor, held,
                         worker, answer, registered, fp16, shared>>

\* Unassigning joins the worker.
UnassignSwapChain(d) ==
  /\ Arrived(d) /\ assigned[d]
  /\ assigned' = [assigned EXCEPT ![d] = FALSE]
  /\ worker' = [worker EXCEPT ![d] = FALSE]
  /\ Keep /\ UNCHANGED <<l_wdfDevice, stage, context, adapter, bound, monitor, held,
                         answer, registered, fp16, shared>>

\* A worker that has lost its chain tells the device context and ends.
ReportLost(d) ==
  /\ pc = "up" /\ worker[d]
  /\ IF context[d]
     THEN /\ worker' = [worker EXCEPT ![d] = FALSE]
          /\ Keep /\ UNCHANGED <<l_wdfDevice, stage, context, adapter, bound, monitor,
                                 held, assigned, answer, registered, fp16, shared>>
     ELSE Fault("OnSwapChainLost")

-----------------------------------------------------------------------------

PnP(d) ==
  \/ CreateDevice(d) \/ InitializeDevice(d) \/ InitAdapter(d) \/ BindAdapter(d)
  \/ PowerDown(d) \/ CleanupDevice(d) \/ ForgetDevice(d)

IddCx(d) ==
  \/ AdapterInitFinished(d) \/ CreateMonitor(d) \/ AnnounceMonitor(d)
  \/ ParseMonitorDescription(d) \/ MonitorCallback(d) \/ UnassignSwapChain(d)

Next ==
  \/ Start \/ InitLog \/ CreateDriver \/ Exit
  \/ \E d \in Device : PnP(d) \/ IddCx(d) \/ ReportLost(d)

Spec == Init /\ [][Next]_vars

-----------------------------------------------------------------------------

Stage == {"none", "created", "refused", "added", "entering", "started", "removing"}
Callback == {"AdapterInitFinished", "ParseMonitorDescription", "MonitorCallback",
             "OnSwapChainLost"}

TypeOK ==
  /\ LogTypeOK
  /\ l_wdfDevice \in Device \cup {NoDevice}
  /\ stage \in [Device -> Stage]
  /\ adapter \in [Device -> {"none", "pending", "finishing", "done"}]
  /\ monitor \in [Device -> {"none", "created", "arrived"}]
  /\ answer \in [Device -> {"unasked", "own", "other", "refused"}]
  /\ {context, bound, held, assigned, worker, registered, fp16}
       \subseteq [Device -> BOOLEAN]
  /\ {version, functions, shared} \subseteq BOOLEAN
  /\ fault \in Callback \cup {"none"}

\* A callback or a worker finds the objects it goes through.  The process can
\* end on a bad pointer only when AdapterInitFinished overtakes the last line
\* of InitAdapter (CIndirectDeviceContext.cpp:188), or in
\* ParseMonitorDescription when two nodes share it: no worker outlives its
\* device context, and no monitor is announced (225) before it has one (222).
NoBadPointer ==
  \/ fault \in {"none", "AdapterInitFinished"}
  \/ fault = "ParseMonitorDescription" /\ shared

\* A device context goes over to the functions of 1.10 only when IddCx was given
\* the callbacks that belong to them: what Device.cpp:38-56 and
\* CIndirectDeviceContext.cpp:47-81 each find out for themselves agrees,
\* through refusals, power cycles and updates.
HdrHasItsCallbacks == \A d \in Device : fp16[d] => registered[d]

\* A monitor's description is parsed by the device it belongs to.
AnsweredByOwn == \A d \in Device : answer[d] \in {"unasked", "own"}

\* As long as the node is alone, through removals and restarts: what the
\* cleanup of one incarnation clears (261) is never what the next has set.
AloneAnsweredByOwn == shared \/ AnsweredByOwn

=============================================================================
