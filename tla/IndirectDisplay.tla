--------------------------- MODULE IndirectDisplay ---------------------------
(***************************************************************************)
(* The running driver: the device context (CIndirectDeviceContext), the    *)
(* monitor contexts (CIndirectMonitorContext) and their swap chain         *)
(* processors (SwapChainProcessor), driven by the DDI callbacks of         *)
(* Device.cpp.                                                             *)
(*                                                                         *)
(* Three kinds of threads run through the same unlocked fields:            *)
(*   "os"   the thread on which IddCx delivers callbacks, one at a time;   *)
(*   "ctl"  the caller of SetResolution (the control channel the stubs of  *)
(*          this commit leave room for; MaxSetCalls = 0 is the shipped     *)
(*          driver, in which nobody calls it);                             *)
(*   the worker of every swap chain processor.                             *)
(*                                                                         *)
(* Of a mode list only the extra mode, the one SetResolution puts first,   *)
(* is kept: the default modes never change.                                *)
(***************************************************************************)
EXTENDS Naturals, FiniteSets

CONSTANTS
  Chain, MaxFrame, MaxUnreleased, CreateFails,   \* see SwapChainProcessor
  Mode,         \* the modes SetResolution may be asked for
  NoMode,       \* no extra mode, nothing sent yet
  NoChain,
  MaxMonitors,  \* bound: monitor objects ever created
  MaxSetCalls,  \* bound: calls of SetResolution
  Faults        \* which calls may fail although their precondition holds, and
                \* what the environment may do that the driver does not count on

\* "unassign": the OS unassigns the chain of a plugged monitor; "early":
\* SetResolution is called although ReplugMonitor would find nothing to replug.
FaultKind == {"adapter", "create", "arrival", "update", "departure",
              "d3d", "registry", "unassign", "early"}

ASSUME DisplayAssumption ==
  /\ MaxMonitors \in Nat /\ MaxSetCalls \in Nat
  /\ MaxMonitors > MaxSetCalls      \* IddCx never runs out before the caller
  /\ Faults \subseteq FaultKind
  /\ NoMode \notin Mode
  /\ NoChain \notin Chain

Monitor   == 1 .. MaxMonitors
NoMonitor == 0
ExtraMode == Mode \cup {NoMode}
Thread    == {"os", "ctl"}

VARIABLES
  object, worker, hasEvent, terminate, deletes, lastFrame, unreleased,
  inTopology, available, frame, newFrame,       \* see SwapChainProcessor
  monitor,        \* m_monitor
  replugMonitor,  \* m_replugMonitor
  doSetMode, setMode,                           \* m_doSetMode, m_setMode
  replugQueued,   \* m_replugMonitorQueued
  recover,        \* m_recoverModeUpdateSwapChain
  displayModes,   \* extra mode in m_displayModes
  extraMode,      \* extra mode in the registry
  sent,           \* last mode given to g_pipe.SetDisplayMode
  swapChain,      \* [m]: chain of the monitor context's m_swapChain
  adapter,        \* IddCx: none, pending, failed, ready
  plug,           \* IddCx [m]: unborn, created, arrived, departed
  offered,        \* IddCx [m]: extra mode the monitor now offers as a target
  assigned,       \* IddCx [m]: chain assigned and not yet unassigned
  owner,          \* IddCx [c]: monitor the chain was made for
  pc,             \* [t]: where the thread is, "idle" outside every callback
  cb,             \* arguments of the callback "os" is in
  setCalls,       \* calls of SetResolution so far
  lapse           \* history: did the environment do what the driver counts on?

processor_vars == <<object, worker, hasEvent, terminate, deletes, lastFrame,
                    unreleased, inTopology, available, frame, newFrame>>
mode_vars  == <<doSetMode, setMode, displayModes, extraMode, sent, setCalls>>
flag_vars  == <<replugMonitor, replugQueued, recover>>
iddcx_vars == <<adapter, plug, offered, assigned, owner, lapse>>
vars == <<processor_vars, mode_vars, flag_vars, iddcx_vars,
          monitor, swapChain, pc, cb>>

P == INSTANCE SwapChainProcessor

ASSUME ChainsAssumption == P!ProcessorAssumption

Init ==
  /\ P!Init
  /\ monitor = NoMonitor
  /\ replugMonitor = FALSE
  /\ doSetMode = FALSE /\ setMode = NoMode
  /\ replugQueued = FALSE /\ recover = FALSE
  /\ extraMode \in ExtraMode                 \* the registry outlives the driver
  /\ displayModes = NoMode
  /\ sent = NoMode
  /\ swapChain = [m \in Monitor |-> NoChain]
  /\ adapter = "none"
  /\ plug = [m \in Monitor |-> "unborn"]
  /\ offered = [m \in Monitor |-> NoMode]
  /\ assigned = [m \in Monitor |-> NoChain]
  /\ owner = [c \in Chain |-> NoMonitor]
  /\ pc = [t \in Thread |-> "idle"]
  /\ cb = [mon |-> NoMonitor, chain |-> NoChain]
  /\ setCalls = 0
  /\ lapse = "none"

Goto(t, from, to) ==
  /\ pc[t] = from
  /\ pc' = [pc EXCEPT ![t] = to]

MayFail(kind) == kind \in Faults

\* The first "refused" (a request came to nothing, the monitor is as it was) or
\* "astray" (the driver has no way back) is kept; "astray" wins.
Lapse(l) == lapse' = IF lapse = "astray" THEN lapse ELSE l

-----------------------------------------------------------------------------
(* Adapter start-up (CIndirectDeviceContext::InitAdapter, FinishInit).     *)

PopulateDefaultModes_KeepsList == UNCHANGED displayModes

\* Reloads the mode list.  (The EDID is rebuilt with it; a monitor's modes are
\* what the mode callbacks copy from the list.)
PopulateDefaultModes == displayModes' = extraMode

\* D0Entry.  IddCxAdapterInitAsync is accepted or, also on the retry without
\* FP16, refused; the adapter's wrapper is set before the callback below.
InitAdapter ==
  /\ adapter = "none"
  /\ PopulateDefaultModes
  /\ adapter' \in {"pending"} \cup {a \in {"failed"} : MayFail("adapter")}
  /\ UNCHANGED <<processor_vars, doSetMode, setMode, extraMode, sent, setCalls,
                 flag_vars, plug, offered, assigned, owner, lapse, monitor,
                 swapChain, pc, cb>>

\* AdapterInitFinished: a failing status is ignored, and no monitor comes.
AdapterInitFinished ==
  /\ adapter = "pending"
  /\ \/ /\ Goto("os", "idle", "create")
        /\ adapter' = "ready"
     \/ /\ MayFail("adapter")
        /\ adapter' = "failed"
        /\ UNCHANGED pc
  /\ UNCHANGED <<processor_vars, mode_vars, flag_vars, plug, offered, assigned,
                 owner, lapse, monitor, swapChain, cb>>

\* FinishInit up to the assignment of m_monitor.  IddCx makes monitors only for
\* an adapter that is ready; when IddCxMonitorCreate fails, m_monitor keeps what
\* it held.
MonitorCreate(t) ==
  /\ \/ /\ adapter = "ready"
        /\ Goto(t, "create", "arrive")
        /\ \E m \in Monitor :
             /\ plug[m] = "unborn"
             /\ \A n \in Monitor : n < m => plug[n] # "unborn"
             /\ plug' = [plug EXCEPT ![m] = "created"]
             /\ monitor' = m
        /\ UNCHANGED lapse
     \/ /\ adapter # "ready" \/ MayFail("create")
        /\ Goto(t, "create", "idle")
        /\ Lapse("astray")
        /\ UNCHANGED <<plug, monitor>>
  /\ UNCHANGED <<processor_vars, mode_vars, flag_vars, adapter, offered, assigned,
                 owner, swapChain, cb>>

\* IddCxMonitorArrival on the field as it is now; a failure is only logged.  IddCx
\* asks the mode callbacks for the modes of a monitor that arrives.
MonitorArrival(t) ==
  /\ Goto(t, "arrive", "idle")
  /\ \/ /\ plug' = [plug EXCEPT ![monitor] = "arrived"]
        /\ offered' = [offered EXCEPT ![monitor] = displayModes]
        /\ UNCHANGED lapse
     \/ MayFail("arrival") /\ Lapse("astray") /\ UNCHANGED <<plug, offered>>
  /\ UNCHANGED <<processor_vars, mode_vars, flag_vars, adapter, assigned, owner,
                 monitor, swapChain, cb>>

-----------------------------------------------------------------------------
(* AssignSwapChain and UnassignSwapChain callbacks.                        *)

AssignBegin_NotStopping(m, c) ==
  /\ Goto("os", "idle", "a_build")
  /\ plug[m] = "arrived"
  /\ owner[c] = NoMonitor
  /\ owner' = [owner EXCEPT ![c] = m]
  /\ assigned' = [assigned EXCEPT ![m] = c]
  /\ cb' = [mon |-> m, chain |-> c]
  /\ UNCHANGED <<processor_vars, mode_vars, flag_vars, adapter, plug, offered,
                 lapse, monitor, swapChain>>

\* IddCx makes a chain for an arrived monitor and calls AssignSwapChain.
AssignBegin(m, c) ==
  /\ Goto("os", "idle", "a_stop")
  /\ plug[m] = "arrived"
  /\ owner[c] = NoMonitor
  /\ owner' = [owner EXCEPT ![c] = m]
  /\ assigned' = [assigned EXCEPT ![m] = c]
  /\ cb' = [mon |-> m, chain |-> c]
  /\ UNCHANGED <<processor_vars, mode_vars, flag_vars, adapter, plug, offered,
                 lapse, monitor, swapChain>>

\* IddCx calls UnassignSwapChain for an assigned chain, in particular for that
\* of a departed monitor.
UnassignBegin(m) ==
  /\ Goto("os", "idle", "u_stop")
  /\ assigned[m] # NoChain
  /\ cb' = [mon |-> m, chain |-> NoChain]
  /\ \/ plug[m] = "departed" /\ UNCHANGED lapse
     \/ plug[m] # "departed" /\ MayFail("unassign") /\ Lapse("astray")
  /\ UNCHANGED <<processor_vars, mode_vars, flag_vars, adapter, plug, offered,
                 assigned, owner, monitor, swapChain>>

\* CIndirectMonitorContext::UnassignSwapChain, which AssignSwapChain calls
\* too: m_swapChain.reset() destroys the processor, if there is one.
StopProcessor(from, join, next) ==
  /\ pc["os"] = from
  /\ \/ /\ swapChain[cb.mon] = NoChain
        /\ Goto("os", from, next)
        /\ UNCHANGED processor_vars
     \/ /\ swapChain[cb.mon] # NoChain
        /\ Goto("os", from, join)
        /\ P!BeginDestroy(swapChain[cb.mon])
  /\ UNCHANGED <<mode_vars, flag_vars, iddcx_vars, monitor, swapChain, cb>>

JoinProcessor_Detached(join, next) ==
  /\ Goto("os", join, next)
  /\ P!EndDestroy_NoWait(swapChain[cb.mon])
  /\ swapChain' = [swapChain EXCEPT ![cb.mon] = NoChain]
  /\ UNCHANGED <<mode_vars, flag_vars, iddcx_vars, monitor, cb>>

JoinProcessor_KeepsPointer(join, next) ==
  /\ Goto("os", join, next)
  /\ P!EndDestroy(swapChain[cb.mon])
  /\ UNCHANGED <<mode_vars, flag_vars, iddcx_vars, monitor, swapChain, cb>>

\* The destructor comes back, and m_swapChain is null.
JoinProcessor(join, next) ==
  /\ Goto("os", join, next)
  /\ P!EndDestroy(swapChain[cb.mon])
  /\ swapChain' = [swapChain EXCEPT ![cb.mon] = NoChain]
  /\ UNCHANGED <<mode_vars, flag_vars, iddcx_vars, monitor, cb>>

\* The rest of AssignSwapChain: without a D3D device the chain is deleted at
\* once, otherwise a processor is built and its worker starts.
BuildProcessor ==
  /\ Goto("os", "a_build", "a_notify")
  /\ \/ /\ P!Build(cb.chain)
        /\ swapChain' = [swapChain EXCEPT ![cb.mon] = cb.chain]
     \/ /\ MayFail("d3d")
        /\ P!Discard(cb.chain)
        /\ UNCHANGED swapChain
  /\ UNCHANGED <<mode_vars, flag_vars, iddcx_vars, monitor, cb>>

\* OnAssignSwapChain, first statement.
NotifyAssign ==
  /\ Goto("os", "a_notify", "a_mode")
  /\ recover' = FALSE
  /\ UNCHANGED <<processor_vars, mode_vars, replugMonitor, replugQueued,
                 iddcx_vars, monitor, swapChain, cb>>

\* OnAssignSwapChain, the pending mode.
SendPendingMode ==
  /\ Goto("os", "a_mode", "idle")
  /\ doSetMode' = FALSE
  /\ sent' = IF doSetMode THEN setMode ELSE sent
  /\ UNCHANGED <<processor_vars, setMode, displayModes, extraMode, setCalls,
                 flag_vars, iddcx_vars, monitor, swapChain, cb>>

NotifyUnassign_KeepsQueued ==
  /\ Goto("os", "u_notify", IF replugMonitor THEN "create" ELSE "idle")
  /\ recover' = FALSE
  /\ replugMonitor' = FALSE
  /\ assigned' = [assigned EXCEPT ![cb.mon] = NoChain]
  /\ UNCHANGED <<processor_vars, mode_vars, replugQueued, adapter, plug, offered, owner,
                 lapse, monitor, swapChain, cb>>

NotifyUnassign_Replugs ==
  /\ Goto("os", "u_notify", IF replugMonitor THEN "replug" ELSE "idle")
  /\ replugQueued' = FALSE
  /\ recover' = FALSE
  /\ replugMonitor' = FALSE
  /\ assigned' = [assigned EXCEPT ![cb.mon] = NoChain]
  /\ UNCHANGED <<processor_vars, mode_vars, adapter, plug, offered, owner,
                 lapse, monitor, swapChain, cb>>

\* OnUnassignedSwapChain.  The test-and-clear of m_replugMonitor is one step:
\* the only other writer, ReplugMonitor, sets it after seeing it clear.
NotifyUnassign ==
  /\ Goto("os", "u_notify", IF replugMonitor THEN "create" ELSE "idle")
  /\ replugQueued' = FALSE
  /\ recover' = FALSE
  /\ replugMonitor' = FALSE
  /\ assigned' = [assigned EXCEPT ![cb.mon] = NoChain]
  /\ UNCHANGED <<processor_vars, mode_vars, adapter, plug, offered, owner,
                 lapse, monitor, swapChain, cb>>

-----------------------------------------------------------------------------
(* SetResolution on the control thread.                                    *)

\* What ReplugMonitor counts on: a plugged monitor with a chain, so that its
\* departure will be followed by an unassign.
Replugable ==
  /\ pc["os"] = "idle" /\ ~replugMonitor
  /\ monitor # NoMonitor /\ assigned[monitor] # NoChain

\* m_setMode is filled and SetExtraMode writes the registry, which may fail
\* silently.  Nothing in the code keeps a caller from calling at any moment.
SetResolution(mode) ==
  /\ Goto("ctl", "idle", "populate")
  /\ setCalls < MaxSetCalls /\ setCalls' = setCalls + 1
  /\ setMode' = mode
  /\ extraMode' \in {mode} \cup {x \in {extraMode} : MayFail("registry")}
  /\ Replugable \/ MayFail("early")
  /\ IF ~Replugable THEN Lapse("astray")
     ELSE IF extraMode' # mode THEN Lapse("refused") ELSE UNCHANGED lapse
  /\ UNCHANGED <<processor_vars, doSetMode, displayModes, sent, flag_vars,
                 adapter, plug, offered, assigned, owner, monitor, swapChain, cb>>

SetPopulate ==
  /\ Goto("ctl", "populate", "update")
  /\ PopulateDefaultModes
  /\ UNCHANGED <<processor_vars, doSetMode, setMode, extraMode, sent, setCalls,
                 flag_vars, iddcx_vars, monitor, swapChain, cb>>

\* UpdateMonitorModes; IddCx accepts it for an arrived monitor.
UpdateMonitorModes ==
  /\ \/ /\ monitor # NoMonitor /\ plug[monitor] = "arrived"
        /\ Goto("ctl", "update", "disarm")
        /\ offered' = [offered EXCEPT ![monitor] = displayModes]
     \/ /\ \/ monitor = NoMonitor
           \/ monitor # NoMonitor /\ plug[monitor] # "arrived"
           \/ MayFail("update")
        /\ Goto("ctl", "update", "fallback")
        /\ UNCHANGED offered
  /\ UNCHANGED <<processor_vars, mode_vars, flag_vars, adapter, plug, assigned,
                 owner, lapse, monitor, swapChain, cb>>

ClearPendingMode ==
  /\ Goto("ctl", "disarm", "arm")
  /\ doSetMode' = FALSE
  /\ UNCHANGED <<processor_vars, setMode, displayModes, extraMode, sent,
                 setCalls, flag_vars, iddcx_vars, monitor, swapChain, cb>>

\* The recovery is armed and the mode sent, after the update took effect.
ArmRecovery ==
  /\ Goto("ctl", "arm", "idle")
  /\ recover' = TRUE
  /\ sent' = setMode
  /\ UNCHANGED <<processor_vars, doSetMode, setMode, displayModes, extraMode,
                 setCalls, replugMonitor, replugQueued, iddcx_vars, monitor,
                 swapChain, cb>>

FallBack_NotPending ==
  /\ Goto("ctl", "fallback", "replug")
  /\ doSetMode' = FALSE
  /\ recover' = FALSE
  /\ UNCHANGED <<processor_vars, setMode, displayModes, extraMode, sent,
                 setCalls, replugMonitor, replugQueued, iddcx_vars, monitor,
                 swapChain, cb>>

FallBack ==
  /\ Goto("ctl", "fallback", "replug")
  /\ doSetMode' = TRUE
  /\ recover' = FALSE
  /\ UNCHANGED <<processor_vars, setMode, displayModes, extraMode, sent,
                 setCalls, replugMonitor, replugQueued, iddcx_vars, monitor,
                 swapChain, cb>>

ReplugMonitor_NoDeparture ==
  /\ Goto("ctl", "replug", "create")
  /\ UNCHANGED <<processor_vars, mode_vars, flag_vars, iddcx_vars,
                 monitor, swapChain, cb>>

ReplugMonitor_NoFlag ==
  /\ Goto("ctl", "replug", IF monitor = NoMonitor THEN "create" ELSE "depart")
  /\ UNCHANGED <<processor_vars, mode_vars, flag_vars, iddcx_vars,
                 monitor, swapChain, cb>>

\* ReplugMonitor up to the call of IddCxMonitorDeparture.
ReplugMonitor ==
  /\ Goto("ctl", "replug", IF monitor = NoMonitor THEN "create"
                           ELSE IF replugMonitor THEN "idle" ELSE "depart")
  /\ replugMonitor' = (replugMonitor \/ monitor # NoMonitor)
  /\ UNCHANGED <<processor_vars, mode_vars, replugQueued, recover, iddcx_vars,
                 monitor, swapChain, cb>>

MonitorDeparture_KeepsFlag ==
  /\ Goto("ctl", "depart", "idle")
  /\ \/ /\ plug[monitor] = "arrived"
        /\ plug' = [plug EXCEPT ![monitor] = "departed"]
        /\ UNCHANGED lapse
     \/ /\ plug[monitor] # "arrived" \/ MayFail("departure")
        /\ Lapse("refused")
        /\ UNCHANGED plug
  /\ UNCHANGED <<processor_vars, mode_vars, flag_vars, adapter, offered, assigned,
                 owner, monitor, swapChain, cb>>

\* IddCxMonitorDeparture on the field as it is now; a failure gives up.
MonitorDeparture ==
  /\ Goto("ctl", "depart", "idle")
  /\ \/ /\ plug[monitor] = "arrived"
        /\ plug' = [plug EXCEPT ![monitor] = "departed"]
        /\ UNCHANGED <<replugMonitor, lapse>>
     \/ /\ plug[monitor] # "arrived" \/ MayFail("departure")
        /\ replugMonitor' = FALSE
        /\ Lapse("refused")
        /\ UNCHANGED plug
  /\ UNCHANGED <<processor_vars, mode_vars, replugQueued, recover, adapter, offered,
                 assigned, owner, monitor, swapChain, cb>>

-----------------------------------------------------------------------------
(* Workers and the operating system, as seen from the device context.      *)

OnSwapChainLost_TearsDown(c) ==
  /\ pc["os"] = "idle"
  /\ P!ReportLost(c)
  /\ replugQueued' = (replugQueued \/ recover)
  /\ UNCHANGED <<mode_vars, replugMonitor, recover, iddcx_vars, monitor,
                 swapChain, pc, cb>>

\* The worker calls OnSwapChainLost: a replug is queued if a mode update armed
\* the recovery.  (The two interlocked operations are one step: the test only
\* decides whether the second happens.)
OnSwapChainLost(c) ==
  /\ P!ReportLost(c)
  /\ replugQueued' = (replugQueued \/ recover)
  /\ UNCHANGED <<mode_vars, replugMonitor, recover, iddcx_vars, monitor,
                 swapChain, pc, cb>>

WorkerStep(c) ==
  /\ P!WorkerStep(c)
  /\ UNCHANGED <<mode_vars, flag_vars, iddcx_vars, monitor, swapChain, pc, cb>>

ChainEvent(c) ==
  /\ P!Present(c) \/ P!LosePath(c)
  /\ UNCHANGED <<mode_vars, flag_vars, iddcx_vars, monitor, swapChain, pc, cb>>

\* A handle comes back as a new chain once nothing refers to the old one.
RecycleChain(c) ==
  /\ P!Recycle(c)
  /\ \A m \in Monitor : assigned[m] # c /\ swapChain[m] # c
  /\ cb.chain # c \/ pc["os"] = "idle"
  /\ owner' = [owner EXCEPT ![c] = NoMonitor]
  /\ cb' = IF cb.chain = c THEN [cb EXCEPT !.chain = NoChain] ELSE cb
  /\ UNCHANGED <<mode_vars, flag_vars, adapter, plug, offered, assigned, lapse,
                 monitor, swapChain, pc>>

-----------------------------------------------------------------------------

FinishInit(t) == MonitorCreate(t) \/ MonitorArrival(t)

OsReturn ==
  \/ StopProcessor("a_stop", "a_join", "a_build") \/ JoinProcessor("a_join", "a_build")
  \/ StopProcessor("u_stop", "u_join", "u_notify") \/ JoinProcessor("u_join", "u_notify")
  \/ BuildProcessor \/ NotifyAssign \/ SendPendingMode
  \/ NotifyUnassign \/ FinishInit("os")

CtlReturn ==
  \/ SetPopulate \/ UpdateMonitorModes \/ ClearPendingMode \/ ArmRecovery
  \/ FallBack \/ ReplugMonitor \/ MonitorDeparture \/ FinishInit("ctl")

Assign     == \E m \in Monitor, c \in Chain : AssignBegin(m, c)
Unassign   == \E m \in Monitor : UnassignBegin(m)
Departed   == \E m \in Monitor : plug[m] = "departed" /\ UnassignBegin(m)

Next ==
  \/ InitAdapter \/ AdapterInitFinished
  \/ Assign \/ Unassign \/ OsReturn
  \/ \E mode \in Mode : SetResolution(mode)
  \/ CtlReturn
  \/ \E c \in Chain :
       WorkerStep(c) \/ OnSwapChainLost(c) \/ ChainEvent(c) \/ RecycleChain(c)

Spec == Init /\ [][Next]_vars

\* Threads inside the driver keep running.  IddCx finishes the adapter, gives
\* an arrived monitor a chain and unassigns that of a departed one.
Fairness ==
  /\ WF_vars(OsReturn) /\ WF_vars(CtlReturn)
  /\ \A c \in Chain : WF_vars(WorkerStep(c) \/ OnSwapChainLost(c))
  /\ WF_vars(InitAdapter) /\ WF_vars(AdapterInitFinished)
  /\ WF_vars(Assign) /\ WF_vars(Departed)
  /\ \A c \in Chain : WF_vars(RecycleChain(c))

FairSpec == Spec /\ Fairness

-----------------------------------------------------------------------------

OsPC  == {"idle", "create", "arrive", "a_stop", "a_join", "a_build", "a_notify",
          "a_mode", "u_stop", "u_join", "u_notify"}
CtlPC == {"idle", "populate", "update", "disarm", "arm", "fallback", "replug",
          "depart", "create", "arrive"}

TypeOK ==
  /\ P!TypeOK
  /\ monitor \in Monitor \cup {NoMonitor}
  /\ {replugMonitor, doSetMode, replugQueued, recover} \subseteq BOOLEAN
  /\ {setMode, displayModes, extraMode, sent} \subseteq ExtraMode
  /\ swapChain \in [Monitor -> Chain \cup {NoChain}]
  /\ adapter \in {"none", "pending", "failed", "ready"}
  /\ plug \in [Monitor -> {"unborn", "created", "arrived", "departed"}]
  /\ offered \in [Monitor -> ExtraMode]
  /\ assigned \in [Monitor -> Chain \cup {NoChain}]
  /\ owner \in [Chain -> Monitor \cup {NoMonitor}]
  /\ pc["os"] \in OsPC /\ pc["ctl"] \in CtlPC
  /\ cb \in [mon : Monitor \cup {NoMonitor}, chain : Chain \cup {NoChain}]
  /\ setCalls \in 0 .. MaxSetCalls
  /\ lapse \in {"none", "refused", "astray"}

Running(c) == worker[c] \in P!Running

\* A worker that runs is the one its monitor context can still stop; so there
\* is at most one per monitor, also while the OS replaces a chain without
\* unassigning it: AssignSwapChain stops the old processor (39) before it
\* builds the new one (51).
WorkerIsHeld ==
  \A c \in Chain : Running(c) => swapChain[owner[c]] = c

\* A driver callback always returns: the destructor's wait ends because the
\* worker needs nothing the waiting callback holds.  Only a terminate event
\* that could not be created can make it wait forever.
CallbackReturns ==
  pc["os"] # "idle"
    ~> \/ pc["os"] = "idle"
       \/ \E c \in Chain : object[c] = "dying" /\ ~hasEvent[c]

-----------------------------------------------------------------------------
(* While the environment does what the driver counts on: the OS unassigns  *)
(* only what departed, SetResolution finds a monitor with a chain, and no  *)
(* monitor fails to be created or to arrive.                               *)

\* What ReplugMonitor (233-253) would need if the timer called it now: m_monitor
\* names a monitor with a chain, whose departure will therefore be followed by an
\* unassign, and which has not departed unless that unassign is already due.
ReplugCanRun ==
  /\ monitor # NoMonitor /\ assigned[monitor] # NoChain
  /\ plug[monitor] = "arrived" \/ replugMonitor

\* A queued replug can be run at any moment it stands, although it outlives the
\* chain that raised it when the OS replaces that chain (OnAssignSwapChain,
\* 255-264, leaves it): an unassign joins the worker (Device.cpp:200) before it
\* clears the flag (201) and only then plugs the next monitor, so none is left for
\* a monitor that has no chain.
QueuedReplugCanRun == replugQueued /\ lapse # "astray" => ReplugCanRun

\* Monitors the driver has plugged in or is plugging in.
Plugged == {m \in Monitor : plug[m] \in {"created", "arrived"}}

\* caps.MaxMonitorsSupported = 1 (CIndirectDeviceContext.cpp:120).
OneMonitor == Cardinality(Plugged) <= 1

\* One monitor at a time, across every replug.
NeverTwoMonitors == lapse # "astray" => OneMonitor

\* Between calls the driver has its one monitor, and m_monitor names it.
NoMonitorLost ==
  /\ \A t \in Thread : pc[t] = "idle"
  /\ adapter = "ready" /\ ~replugMonitor /\ lapse # "astray"
  => monitor # NoMonitor /\ Plugged = {monitor}

\* m_replugMonitor stands only while its monitor really is departed (or about
\* to be): otherwise the next Unassign would plug a second one.
ReplugMeansDeparted ==
  replugMonitor /\ pc["ctl"] # "depart" /\ lapse # "astray"
    => plug[monitor] = "departed"

\* The plugged monitor offers the mode last asked for, which has been sent.
Delivered ==
  Plugged = {monitor} /\ offered[monitor] = setMode /\ sent = setMode

\* When SetResolution has returned, no replug is due and no mode is pending
\* (CIndirectDeviceContext.cpp:255-276, 508-531), the last mode asked for has
\* been delivered, whatever the callbacks did meanwhile: nothing but a failed
\* registry write, a failed departure or an event gone astray drops it.
DeliveredWhenQuiet ==
  /\ \A t \in Thread : pc[t] = "idle"
  /\ ~replugMonitor /\ ~doSetMode /\ setCalls > 0 /\ lapse = "none"
  => Delivered

\* ... and the driver does come to that point, and stays there.
ModeDelivered ==
  setCalls = MaxSetCalls ~> [](lapse = "none" => Delivered)

-----------------------------------------------------------------------------
(* The driver implements ChainCustody.                                     *)

Custody ==
  INSTANCE ChainCustody WITH
    custody <- [c \in Chain |-> IF deletes[c] > 0 THEN "released"
                                ELSE IF owner[c] # NoMonitor THEN "driver" ELSE "os"],
    home    <- owner,
    serving <- [m \in Monitor |->
                  IF swapChain[m] # NoChain /\ Running(swapChain[m])
                  THEN swapChain[m] ELSE NoChain]

\* Chains are taken, served one at a time per monitor and deleted once.
KeepsCustody == Custody!Spec

\* The driver calls a processor in turn, although no action above checks that it
\* does: its callbacks build only for a chain nobody has touched
\* (CIndirectMonitorContext.cpp:51), delete a chain only instead of building for
\* it (44), destroy what they built once and not before (56), and no worker runs
\* on but as a processor's own worker does.
RunsProcessors == P!Spec

\* CIndirectDeviceContext.cpp:280-283: a chain lost after a mode update is
\* recovered by a replug.
LostChainReplugs == replugQueued ~> replugMonitor

=============================================================================
