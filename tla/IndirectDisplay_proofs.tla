------------------------ MODULE IndirectDisplay_proofs ------------------------
(***************************************************************************)
(* The running driver, for any set of chains, any number of monitors and   *)
(* calls of SetResolution, and whichever calls fail.                       *)
(***************************************************************************)
EXTENDS IndirectDisplay, FiniteSetTheorems, TLAPS

USE DisplayAssumption, ChainsAssumption
    DEF DisplayAssumption, P!ProcessorAssumption, Monitor, NoMonitor, Thread

-----------------------------------------------------------------------------
(* The processors.  What SwapChainProcessor_proofs shows of them is used   *)
(* through Proc; Proc and P are two instances of the same module.          *)

Proc == INSTANCE SwapChainProcessor_proofs

LEMMA ProcAssumption == Proc!ProcessorAssumption
BY DEF Proc!ProcessorAssumption

LEMMA SameProcessors ==
  /\ P!Init <=> Proc!Init
  /\ P!TypeOK <=> Proc!TypeOK
BY DEF P!Init, P!TypeOK, P!ObjectState, P!WorkerPC, P!FrameNumber, P!Running, P!Loop,
       Proc!Init, Proc!TypeOK, Proc!ObjectState, Proc!WorkerPC, Proc!FrameNumber,
       Proc!Running, Proc!Loop

LEMMA SameProcessorSteps == [P!Next]_(P!vars) <=> [Proc!Next]_(Proc!vars)
<1>1. P!Next <=> Proc!Next
  BY DEF P!Next, P!Owner, P!WorkerStep, P!Refuse, P!Fresh, P!Construct, P!SignalTerminate,
         P!Join, P!Discard, P!Build, P!BeginDestroy, P!EndDestroy, P!Setup, P!CheckTerminate, P!TakeTerminate, P!AcquireBuffer, P!Acquired,
         P!Wait, P!FinishFrame, P!ReportLost, P!DeleteChain, P!Present, P!LosePath,
         P!Recycle, P!Goto, P!Min2, P!os_vars, P!worker_vars,
         Proc!Next, Proc!Owner, Proc!WorkerStep, Proc!Refuse, Proc!Fresh, Proc!Construct,
         Proc!SignalTerminate, Proc!Join, Proc!Discard, Proc!Build, Proc!BeginDestroy,
         Proc!EndDestroy, Proc!Setup, Proc!CheckTerminate,
         Proc!TakeTerminate, Proc!AcquireBuffer, Proc!Acquired, Proc!Wait,
         Proc!FinishFrame, Proc!ReportLost, Proc!DeleteChain, Proc!Present,
         Proc!LosePath, Proc!Recycle, Proc!Goto, Proc!Min2, Proc!os_vars,
         Proc!worker_vars
<1>2. P!vars = Proc!vars
  BY DEF P!vars, Proc!vars
<1> QED
  BY <1>1, <1>2 DEF P!vars, Proc!vars

\* A step of a processor keeps the types of its variables.
LEMMA ProcessorTyped == P!TypeOK /\ [P!Next]_(P!vars) => P!TypeOK'
<1>1. (P!TypeOK <=> Proc!TypeOK) /\ (P!TypeOK' <=> Proc!TypeOK')
  BY SameProcessors, PTL
<1>2. Proc!TypeOK /\ [Proc!Next]_(Proc!vars) => Proc!TypeOK'
  BY Proc!NextTypeOK, ProcAssumption
<1> QED
  BY <1>1, <1>2, SameProcessorSteps

-----------------------------------------------------------------------------
(* Types.                                                                  *)

\* pc as a function of the threads.
PcTyped ==
  pc \in [Thread -> OsPC \cup CtlPC] /\ pc["os"] \in OsPC /\ pc["ctl"] \in CtlPC

\* TypeOK one variable at a time.
Typed ==
  /\ monitor \in Monitor \cup {NoMonitor}
  /\ replugMonitor \in BOOLEAN /\ doSetMode \in BOOLEAN
  /\ replugQueued \in BOOLEAN /\ recover \in BOOLEAN
  /\ setMode \in ExtraMode /\ displayModes \in ExtraMode
  /\ extraMode \in ExtraMode /\ sent \in ExtraMode
  /\ swapChain \in [Monitor -> Chain \cup {NoChain}]
  /\ adapter \in {"none", "pending", "failed", "ready"}
  /\ plug \in [Monitor -> {"unborn", "created", "arrived", "departed"}]
  /\ offered \in [Monitor -> ExtraMode]
  /\ assigned \in [Monitor -> Chain \cup {NoChain}]
  /\ owner \in [Chain -> Monitor \cup {NoMonitor}]
  /\ PcTyped
  /\ cb \in [mon : Monitor \cup {NoMonitor}, chain : Chain \cup {NoChain}]
  /\ setCalls \in 0 .. MaxSetCalls
  /\ lapse \in {"none", "refused", "astray"}

LEMMA InitTyped == Init => Typed /\ P!TypeOK
<1> SUFFICES ASSUME Init PROVE Typed /\ P!TypeOK
  OBVIOUS
<1>1. P!TypeOK
  BY DEF Init, P!Init, P!TypeOK, P!ObjectState, P!WorkerPC, P!FrameNumber
<1>2. PcTyped
  BY DEF Init, PcTyped, OsPC, CtlPC
<1>3. cb \in [mon : Monitor \cup {NoMonitor}, chain : Chain \cup {NoChain}]
  BY DEF Init
<1>4. /\ swapChain \in [Monitor -> Chain \cup {NoChain}]
      /\ assigned \in [Monitor -> Chain \cup {NoChain}]
      /\ owner \in [Chain -> Monitor \cup {NoMonitor}]
  BY DEF Init
<1>5. /\ offered \in [Monitor -> ExtraMode]
      /\ plug \in [Monitor -> {"unborn", "created", "arrived", "departed"}]
  BY DEF Init, ExtraMode
<1>6. setCalls \in 0 .. MaxSetCalls
  BY DEF Init
<1> QED
  BY <1>1, <1>2, <1>3, <1>4, <1>5, <1>6 DEF Init, Typed, ExtraMode

\* A thread goes where its code goes.
LEMMA OsGoes ==
  ASSUME PcTyped, NEW from, NEW to \in OsPC, Goto("os", from, to)
  PROVE  PcTyped' /\ pc' = [pc EXCEPT !["os"] = to]
  BY DEF PcTyped, Goto

LEMMA CtlGoes ==
  ASSUME PcTyped, NEW from, NEW to \in CtlPC, Goto("ctl", from, to)
  PROVE  PcTyped' /\ pc' = [pc EXCEPT !["ctl"] = to]
  BY DEF PcTyped, Goto

\* Every step leaves both threads at a place of their code.
LEMMA NextPcTyped == PcTyped /\ Next => PcTyped'
<1> SUFFICES ASSUME PcTyped, Next PROVE PcTyped'
  OBVIOUS
<1> USE DEF OsPC, CtlPC
<1>0. UNCHANGED pc => PcTyped'
  BY DEF PcTyped
<1>1. CASE InitAdapter \/ AdapterInitFinished
  BY <1>0, <1>1, OsGoes DEF InitAdapter, AdapterInitFinished
<1>2. ASSUME NEW m \in Monitor, NEW c \in Chain, AssignBegin(m, c) PROVE PcTyped'
  BY <1>2, OsGoes DEF AssignBegin
<1>3. ASSUME NEW m \in Monitor, UnassignBegin(m) PROVE PcTyped'
  BY <1>3, OsGoes DEF UnassignBegin
<1>4. CASE \/ StopProcessor("a_stop", "a_join", "a_build")
           \/ StopProcessor("u_stop", "u_join", "u_notify")
  BY <1>4, OsGoes DEF StopProcessor
<1>5. CASE JoinProcessor("a_join", "a_build") \/ JoinProcessor("u_join", "u_notify")
  BY <1>5, OsGoes DEF JoinProcessor
<1>6. CASE BuildProcessor \/ NotifyAssign \/ SendPendingMode
  BY <1>6, OsGoes DEF BuildProcessor, NotifyAssign, SendPendingMode
<1>7. CASE NotifyUnassign
  <2>1. CASE replugMonitor
    BY <1>7, <2>1, OsGoes DEF NotifyUnassign
  <2>2. CASE ~replugMonitor
    BY <1>7, <2>2, OsGoes DEF NotifyUnassign
  <2> QED
    BY <2>1, <2>2
<1>8. CASE FinishInit("os")
  <2>1. CASE MonitorCreate("os")
    BY <2>1, OsGoes DEF MonitorCreate
  <2>2. CASE MonitorArrival("os")
    BY <2>2, OsGoes DEF MonitorArrival
  <2> QED
    BY <1>8, <2>1, <2>2 DEF FinishInit
<1>9. CASE FinishInit("ctl")
  <2>1. CASE MonitorCreate("ctl")
    BY <2>1, CtlGoes DEF MonitorCreate
  <2>2. CASE MonitorArrival("ctl")
    BY <2>2, CtlGoes DEF MonitorArrival
  <2> QED
    BY <1>9, <2>1, <2>2 DEF FinishInit
<1>10. ASSUME NEW mode \in Mode, SetResolution(mode) PROVE PcTyped'
  BY <1>10, CtlGoes DEF SetResolution
<1>11. CASE SetPopulate \/ UpdateMonitorModes
  BY <1>11, CtlGoes DEF SetPopulate, UpdateMonitorModes
<1>12. CASE ClearPendingMode \/ ArmRecovery \/ FallBack
  BY <1>12, CtlGoes DEF ClearPendingMode, ArmRecovery, FallBack
<1>13. CASE ReplugMonitor
  BY <1>0, <1>13, CtlGoes DEF ReplugMonitor
<1>14. CASE MonitorDeparture
  BY <1>0, <1>14, CtlGoes DEF MonitorDeparture
<1>15. ASSUME NEW c \in Chain,
              WorkerStep(c) \/ ChainEvent(c) \/ OnSwapChainLost(c) \/ RecycleChain(c)
       PROVE  PcTyped'
  BY <1>0, <1>15 DEF WorkerStep, ChainEvent, OnSwapChainLost, RecycleChain
<1> QED
  BY <1>1, <1>2, <1>3, <1>4, <1>5, <1>6, <1>7, <1>8, <1>9, <1>10, <1>11, <1>12,
     <1>13, <1>14, <1>15
     DEF Next, Assign, Unassign, OsReturn, CtlReturn

\* The history variable takes one of its three values.
LEMMA LapseTyped ==
  ASSUME lapse \in {"none", "refused", "astray"}, NEW l \in {"refused", "astray"},
         Lapse(l)
  PROVE  lapse' \in {"none", "refused", "astray"}
  BY DEF Lapse

\* Every step keeps the types of the driver's variables ...
LEMMA NextTyped == Typed /\ Next => Typed'
<1> SUFFICES ASSUME Typed, Next PROVE Typed'
  OBVIOUS
<1> USE DEF Typed, flag_vars, mode_vars, iddcx_vars
<1>0. PcTyped'
  BY NextPcTyped
<1>1. CASE InitAdapter
  BY <1>1, <1>0 DEF InitAdapter, PopulateDefaultModes
<1>2. CASE AdapterInitFinished
  BY <1>2, <1>0 DEF AdapterInitFinished
<1>3. ASSUME NEW m \in Monitor, NEW c \in Chain, AssignBegin(m, c) PROVE Typed'
  BY <1>3, <1>0 DEF AssignBegin
<1>4. ASSUME NEW m \in Monitor, UnassignBegin(m) PROVE Typed'
  BY <1>4, <1>0, LapseTyped DEF UnassignBegin
<1>5. CASE \/ StopProcessor("a_stop", "a_join", "a_build")
           \/ StopProcessor("u_stop", "u_join", "u_notify")
  BY <1>5, <1>0 DEF StopProcessor
<1>6. CASE JoinProcessor("a_join", "a_build") \/ JoinProcessor("u_join", "u_notify")
  BY <1>6, <1>0 DEF JoinProcessor
<1>7. CASE BuildProcessor
  BY <1>7, <1>0 DEF BuildProcessor
<1>8. CASE NotifyAssign
  BY <1>8, <1>0 DEF NotifyAssign
<1>9. CASE SendPendingMode
  BY <1>9, <1>0 DEF SendPendingMode
<1>10. CASE NotifyUnassign
  BY <1>10, <1>0 DEF NotifyUnassign
<1>11. ASSUME NEW t \in Thread, MonitorCreate(t) PROVE Typed'
  <2>1. /\ plug' \in [Monitor -> {"unborn", "created", "arrived", "departed"}]
        /\ monitor' \in Monitor \cup {NoMonitor}
    BY <1>11 DEF MonitorCreate
  <2>2. lapse' \in {"none", "refused", "astray"}
    BY <1>11, LapseTyped DEF MonitorCreate
  <2> QED
    BY <1>0, <1>11, <2>1, <2>2 DEF MonitorCreate
<1>12. ASSUME NEW t \in Thread, MonitorArrival(t) PROVE Typed'
  BY <1>12, <1>0, LapseTyped DEF MonitorArrival
<1>13. ASSUME NEW mode \in Mode, SetResolution(mode) PROVE Typed'
  BY <1>13, <1>0, LapseTyped DEF SetResolution, ExtraMode
<1>14. CASE SetPopulate
  BY <1>14, <1>0 DEF SetPopulate, PopulateDefaultModes
<1>15. CASE UpdateMonitorModes
  BY <1>15, <1>0 DEF UpdateMonitorModes
<1>16. CASE ClearPendingMode \/ ArmRecovery \/ FallBack
  BY <1>16, <1>0 DEF ClearPendingMode, ArmRecovery, FallBack
<1>17. CASE ReplugMonitor
  BY <1>17, <1>0 DEF ReplugMonitor
<1>18. CASE MonitorDeparture
  <2>1. /\ plug' \in [Monitor -> {"unborn", "created", "arrived", "departed"}]
        /\ replugMonitor' \in BOOLEAN /\ lapse' \in {"none", "refused", "astray"}
    BY <1>18 DEF MonitorDeparture, Lapse
  <2> QED
    BY <1>0, <1>18, <2>1 DEF MonitorDeparture
<1>19. ASSUME NEW c \in Chain, WorkerStep(c) \/ ChainEvent(c) PROVE Typed'
  BY <1>19, <1>0 DEF WorkerStep, ChainEvent
<1>20. ASSUME NEW c \in Chain, OnSwapChainLost(c) PROVE Typed'
  BY <1>20, <1>0 DEF OnSwapChainLost
<1>21. ASSUME NEW c \in Chain, RecycleChain(c) PROVE Typed'
  <2>1. [cb EXCEPT !.chain = NoChain]
          \in [mon : Monitor \cup {NoMonitor}, chain : Chain \cup {NoChain}]
    OBVIOUS
  <2>2. cb' \in [mon : Monitor \cup {NoMonitor}, chain : Chain \cup {NoChain}]
    BY <1>21, <2>1 DEF RecycleChain
  <2>3. owner' \in [Chain -> Monitor \cup {NoMonitor}]
    BY <1>21 DEF RecycleChain
  <2> QED
    BY <1>0, <1>21, <2>2, <2>3 DEF RecycleChain
<1>22. FinishInit("os") \/ FinishInit("ctl") => Typed'
  BY <1>11, <1>12 DEF FinishInit
<1> QED
  BY <1>1, <1>2, <1>3, <1>4, <1>5, <1>6, <1>7, <1>8, <1>9, <1>10, <1>11, <1>12, <1>13,
     <1>14, <1>15, <1>16, <1>17, <1>18, <1>19, <1>20, <1>21, <1>22
     DEF Next, Assign, Unassign, OsReturn, CtlReturn

-----------------------------------------------------------------------------
(* Custody of the chains.                                                  *)

InUse(c) == object[c] \in {"alive", "dying"}
Untouched(c) == object[c] = "none" /\ deletes[c] = 0

Stopping  == {"a_join", "u_join"}
Assigning == {"a_stop", "a_join", "a_build"}
CallbackPC == Assigning \cup {"a_notify", "a_mode", "u_stop", "u_join", "u_notify"}

\* A processor in use is held by the monitor context of its chain's monitor; its
\* destructor runs only in a callback for that monitor; a worker runs only in a
\* processor in use, on a chain nobody has deleted.
ChainsInPlace ==
  \A c \in Chain :
    /\ object[c] = "none" => worker[c] = "none"
    /\ Running(c) => InUse(c) /\ deletes[c] = 0
    /\ InUse(c) => owner[c] \in Monitor /\ swapChain[owner[c]] = c
    /\ object[c] = "dying" => pc["os"] \in Stopping /\ cb.mon = owner[c]
    /\ owner[c] = NoMonitor => Untouched(c)

\* A monitor context holds a processor in use, of a chain assigned to it.
MonitorsInPlace ==
  \A m \in Monitor : swapChain[m] # NoChain =>
    owner[swapChain[m]] = m /\ InUse(swapChain[m]) /\ assigned[m] # NoChain

\* A callback has a monitor; until it is built, an assign callback has a fresh
\* chain; what it was to stop has been stopped before the next is built; while it
\* waits, the processor it waits for is the one it signalled.
CallbackInPlace ==
  /\ pc["os"] \in CallbackPC => cb.mon \in Monitor
  /\ pc["os"] \in Assigning =>
       /\ cb.chain \in Chain /\ owner[cb.chain] = cb.mon /\ Untouched(cb.chain)
       /\ assigned[cb.mon] # NoChain
  /\ pc["os"] \in {"a_build", "u_notify"} => swapChain[cb.mon] = NoChain
  /\ pc["os"] \in Stopping =>
       swapChain[cb.mon] # NoChain /\ object[swapChain[cb.mon]] = "dying"

CustodyInv == ChainsInPlace /\ MonitorsInPlace /\ CallbackInPlace

LEMMA InitCustody == Init => CustodyInv
  BY DEF Init, P!Init, CustodyInv, ChainsInPlace, MonitorsInPlace, CallbackInPlace, Running,
         P!Running, P!Loop, InUse, Untouched, CallbackPC, Assigning, Stopping

\* What a step of a worker is to the rest: it runs on, or deletes the chain as
\* its last step.
LEMMA WorkerSteps ==
  ASSUME P!TypeOK, NEW c \in Chain, P!WorkerStep(c) \/ P!ReportLost(c), deletes[c] = 0
  PROVE  /\ object' = object /\ Running(c)
         /\ \A d \in Chain : d # c => worker'[d] = worker[d] /\ deletes'[d] = deletes[d]
         /\ \/ Running(c)' /\ deletes' = deletes
            \/ worker'[c] = "exited" /\ deletes'[c] = 1
<1> USE DEF P!TypeOK, P!Goto, P!Running, P!Loop, Running
<1>1. CASE P!Setup(c)
  BY <1>1 DEF P!Setup
<1>2. CASE P!CheckTerminate(c)
  BY <1>2 DEF P!CheckTerminate, P!TakeTerminate
<1>3. CASE P!AcquireBuffer(c)
  BY <1>3 DEF P!AcquireBuffer, P!Acquired
<1>4. CASE P!Wait(c)
  BY <1>4 DEF P!Wait, P!TakeTerminate
<1>5. CASE P!FinishFrame(c) \/ P!ReportLost(c)
  BY <1>5 DEF P!FinishFrame, P!ReportLost
<1>6. CASE P!DeleteChain(c)
  BY <1>6 DEF P!DeleteChain, P!Min2
<1> QED
  BY <1>1, <1>2, <1>3, <1>4, <1>5, <1>6 DEF P!WorkerStep

\* A worker that steps is running, so its chain has not been deleted.
LEMMA StepsOnlyRunning ==
  ASSUME P!TypeOK, NEW c \in Chain, P!WorkerStep(c) \/ P!ReportLost(c)
  PROVE  Running(c)
  BY DEF P!WorkerStep, P!Setup, P!CheckTerminate, P!TakeTerminate, P!AcquireBuffer,
         P!Acquired, P!Wait, P!FinishFrame, P!ReportLost, P!DeleteChain, P!Goto, Running,
         P!Running, P!Loop

\* A worker's step, and what the operating system does to a chain.
LEMMA WorkerKeepsCustody ==
  ASSUME Typed, P!TypeOK, CustodyInv, NEW c \in Chain,
         WorkerStep(c) \/ OnSwapChainLost(c) \/ ChainEvent(c)
  PROVE  CustodyInv'
<1>1. /\ UNCHANGED <<swapChain, owner, assigned, pc, cb>>
      /\ UNCHANGED <<object, worker, deletes>> \/ P!WorkerStep(c) \/ P!ReportLost(c)
  BY DEF WorkerStep, OnSwapChainLost, ChainEvent, iddcx_vars, P!Present, P!LosePath,
         P!worker_vars
<1>2. CASE UNCHANGED <<object, worker, deletes>>
  BY <1>1, <1>2 DEF CustodyInv, ChainsInPlace, MonitorsInPlace, CallbackInPlace, Running,
     InUse, Untouched
<1>3. CASE P!WorkerStep(c) \/ P!ReportLost(c)
  <2>1. InUse(c) /\ Running(c) /\ deletes[c] = 0
    BY <1>3, StepsOnlyRunning DEF CustodyInv, ChainsInPlace
  <2>2. /\ object' = object
        /\ \A d \in Chain : d # c => worker'[d] = worker[d] /\ deletes'[d] = deletes[d]
        /\ \/ Running(c)' /\ deletes' = deletes
           \/ worker'[c] = "exited" /\ deletes'[c] = 1
    BY <1>3, <2>1, WorkerSteps
  <2>3. ~Untouched(c) /\ object[c] # "none"
    BY <2>1 DEF InUse, Untouched
  <2>4. \A d \in Chain : (Running(d)' => Running(d)) /\ (InUse(d)' <=> InUse(d))
    BY <2>1, <2>2 DEF Running, InUse, P!Running, P!Loop
  <2>5. \A d \in Chain : Untouched(d) => Untouched(d)'
    BY <2>2, <2>3 DEF Untouched
  <2>6. \A d \in Chain : Running(d)' => deletes'[d] = 0
    BY <2>1, <2>2, <2>4 DEF CustodyInv, ChainsInPlace, Running, P!Running, P!Loop
  <2>7. \A d \in Chain : object'[d] = "none" => worker'[d] = "none"
    BY <2>2, <2>3 DEF CustodyInv, ChainsInPlace
  <2>8. ChainsInPlace'
    BY <1>1, <2>2, <2>4, <2>5, <2>6, <2>7 DEF CustodyInv, ChainsInPlace
  <2>9. MonitorsInPlace'
    BY <1>1, <2>2 DEF CustodyInv, MonitorsInPlace, InUse
  <2>10. CallbackInPlace'
    BY <1>1, <2>2, <2>5 DEF CustodyInv, CallbackInPlace
  <2> QED
    BY <2>8, <2>9, <2>10 DEF CustodyInv
<1> QED
  BY <1>1, <1>2, <1>3

\* A destructor begins, or there is nothing to destroy.
LEMMA StopKeepsCustody ==
  ASSUME Typed, P!TypeOK, CustodyInv,
         NEW from, NEW join, NEW next, StopProcessor(from, join, next),
         <<from, join, next>> \in {<<"a_stop", "a_join", "a_build">>,
                                   <<"u_stop", "u_join", "u_notify">>}
  PROVE  CustodyInv'
<1> DEFINE c == swapChain[cb.mon]
<1>1. /\ UNCHANGED <<swapChain, owner, assigned, cb, worker, deletes>>
      /\ cb.mon \in Monitor /\ pc["os"] = from
  BY DEF StopProcessor, iddcx_vars, processor_vars, P!BeginDestroy, P!worker_vars,
         CustodyInv, CallbackInPlace, CallbackPC, Assigning
<1>2. CASE c = NoChain
  <2>1. UNCHANGED object /\ pc'["os"] = next
    BY <1>2 DEF StopProcessor, Goto, processor_vars, Typed, PcTyped
  <2>2. \A d \in Chain : object[d] # "dying"
    BY <1>1 DEF CustodyInv, ChainsInPlace, Stopping
  <2>3. ChainsInPlace'
    BY <1>1, <2>1, <2>2 DEF CustodyInv, ChainsInPlace, Running, InUse, Untouched
  <2>4. MonitorsInPlace'
    BY <1>1, <2>1 DEF CustodyInv, MonitorsInPlace, InUse
  <2>5. CallbackInPlace'
    BY <1>1, <1>2, <2>1 DEF CustodyInv, CallbackInPlace, CallbackPC, Assigning, Stopping,
       Untouched
  <2> QED
    BY <2>3, <2>4, <2>5 DEF CustodyInv
<1>3. CASE c # NoChain
  <2>1. c \in Chain /\ owner[c] = cb.mon
    BY <1>1, <1>3 DEF Typed, CustodyInv, MonitorsInPlace
  <2>2. object' = [object EXCEPT ![c] = "dying"] /\ object[c] = "alive" /\ pc'["os"] = join
    <3>1. object[c] # "dying"
      BY <1>1, <2>1 DEF CustodyInv, ChainsInPlace, Stopping
    <3>2. object[c] = "alive"
      BY <1>1, <1>3, <3>1 DEF CustodyInv, MonitorsInPlace, InUse
    <3> QED
      BY <1>3, <3>2 DEF StopProcessor, Goto, P!BeginDestroy, Typed, PcTyped
  <2>3. \A d \in Chain : d # c => object'[d] = object[d]
    BY <2>1, <2>2 DEF P!TypeOK
  <2>4. object'[c] = "dying"
    BY <2>1, <2>2 DEF P!TypeOK
  <2>5. \A d \in Chain : d # c => object[d] # "dying"
    BY <1>1 DEF CustodyInv, ChainsInPlace, Stopping
  <2>6. \A d \in Chain : InUse(d)' <=> InUse(d)
    BY <2>2, <2>3, <2>4 DEF InUse
  <2>7. \A d \in Chain : Untouched(d)' <=> Untouched(d)
    BY <1>1, <2>2, <2>3, <2>4 DEF Untouched
  <2>8. ChainsInPlace'
    BY <1>1, <2>1, <2>2, <2>3, <2>4, <2>5, <2>6, <2>7 DEF CustodyInv, ChainsInPlace,
       Running, Stopping
  <2>9. MonitorsInPlace'
    BY <1>1, <2>6, <2>1 DEF CustodyInv, MonitorsInPlace, Typed
  <2>10. CallbackInPlace'
    BY <1>1, <1>3, <2>2, <2>4, <2>7 DEF CustodyInv, CallbackInPlace, CallbackPC, Assigning,
       Stopping
  <2> QED
    BY <2>8, <2>9, <2>10 DEF CustodyInv
<1> QED
  BY <1>2, <1>3

\* A destructor ends.
LEMMA JoinKeepsCustody ==
  ASSUME Typed, P!TypeOK, CustodyInv,
         NEW join, NEW next, JoinProcessor(join, next),
         <<join, next>> \in {<<"a_join", "a_build">>, <<"u_join", "u_notify">>}
  PROVE  CustodyInv'
<1> DEFINE c == swapChain[cb.mon]
<1>1. /\ UNCHANGED <<owner, assigned, cb, worker, deletes>>
      /\ swapChain' = [swapChain EXCEPT ![cb.mon] = NoChain]
      /\ pc["os"] = join /\ pc'["os"] = next /\ cb.mon \in Monitor
  BY DEF JoinProcessor, Goto, iddcx_vars, P!EndDestroy, P!worker_vars, Typed, PcTyped,
         CustodyInv, CallbackInPlace, CallbackPC, Assigning
<1>2. object[c] = "dying" /\ worker[c] \in {"none", "exited"}
      /\ object' = [object EXCEPT ![c] = "freed"]
  BY <1>1 DEF JoinProcessor, P!EndDestroy, CustodyInv, CallbackInPlace, Stopping
<1>3. \A d \in Chain : object'[d] = IF d = c THEN "freed" ELSE object[d]
  BY <1>2 DEF P!TypeOK
<1>4. \A m \in Monitor : swapChain'[m] = IF m = cb.mon THEN NoChain ELSE swapChain[m]
  BY <1>1 DEF Typed
<1>5. \A d \in Chain : d # c => object[d] # "dying"
  <2> SUFFICES ASSUME NEW d \in Chain, object[d] = "dying" PROVE d = c
    OBVIOUS
  <2> QED
    BY DEF CustodyInv, ChainsInPlace, InUse
<1>6. ~Running(c)
  BY <1>2 DEF Running, P!Running, P!Loop
<1>7. \A d \in Chain : InUse(d)' <=> d # c /\ InUse(d)
  BY <1>3 DEF InUse
<1>8. \A d \in Chain : Untouched(d)' <=> Untouched(d)
  BY <1>1, <1>2, <1>3 DEF Untouched
<1>9. \A d \in Chain : d # c /\ InUse(d) => swapChain'[owner[d]] = d
  <2> SUFFICES ASSUME NEW d \in Chain, d # c, InUse(d) PROVE swapChain'[owner[d]] = d
    OBVIOUS
  <2>1. owner[d] \in Monitor /\ swapChain[owner[d]] = d
    BY DEF CustodyInv, ChainsInPlace
  <2>2. owner[d] # cb.mon
    BY <2>1
  <2> QED
    BY <1>4, <2>1, <2>2
<1>10. ChainsInPlace'
  BY <1>1, <1>2, <1>3, <1>5, <1>6, <1>7, <1>8, <1>9 DEF CustodyInv, ChainsInPlace, Running
<1>11. MonitorsInPlace'
  <2> SUFFICES ASSUME NEW m \in Monitor, swapChain'[m] # NoChain
               PROVE  owner[swapChain'[m]] = m
                      /\ object'[swapChain'[m]] \in {"alive", "dying"}
                      /\ assigned[m] # NoChain
    BY <1>1 DEF MonitorsInPlace, InUse
  <2>1. m # cb.mon /\ swapChain'[m] = swapChain[m] /\ swapChain[m] \in Chain
    BY <1>4 DEF Typed
  <2>2. owner[swapChain[m]] = m /\ InUse(swapChain[m]) /\ assigned[m] # NoChain
    BY <2>1 DEF CustodyInv, MonitorsInPlace
  <2>3. swapChain[m] # c
    BY <1>1, <2>1, <2>2 DEF CustodyInv, MonitorsInPlace
  <2> QED
    BY <1>3, <2>1, <2>2, <2>3 DEF InUse
<1>12. CallbackInPlace'
  BY <1>1, <1>4, <1>8 DEF CustodyInv, CallbackInPlace, CallbackPC, Assigning, Stopping
<1> QED
  BY <1>10, <1>11, <1>12 DEF CustodyInv

\* A processor is built for a fresh chain, or the chain is deleted at once.
LEMMA BuildKeepsCustody ==
  ASSUME Typed, P!TypeOK, CustodyInv, BuildProcessor
  PROVE  CustodyInv'
<1> DEFINE c == cb.chain
           m == cb.mon
<1>1. /\ UNCHANGED <<owner, assigned, cb>>
      /\ pc["os"] = "a_build" /\ pc'["os"] = "a_notify"
      /\ m \in Monitor /\ c \in Chain /\ owner[c] = m /\ Untouched(c)
      /\ assigned[m] # NoChain /\ swapChain[m] = NoChain
  BY DEF BuildProcessor, Goto, iddcx_vars, Typed, PcTyped, CustodyInv, CallbackInPlace,
         CallbackPC, Assigning
<1>2. \A d \in Chain : InUse(d) => owner[d] # m
  BY <1>1 DEF CustodyInv, ChainsInPlace, Typed
<1>3. \A d \in Chain : object[d] # "dying"
  BY <1>1 DEF CustodyInv, ChainsInPlace, Stopping
<1>4. CallbackInPlace'
  BY <1>1 DEF CallbackInPlace, CallbackPC, Assigning, Stopping
<1>5. CASE P!Build(c) /\ swapChain' = [swapChain EXCEPT ![m] = c]
  <2>1. \A d \in Chain : object'[d] = IF d = c THEN "alive" ELSE object[d]
    BY <1>5 DEF P!Build, P!TypeOK
  <2>2. UNCHANGED deletes /\ \A d \in Chain : d # c => worker'[d] = worker[d]
    BY <1>5 DEF P!Build, P!TypeOK
  <2>3. \A n \in Monitor : swapChain'[n] = IF n = m THEN c ELSE swapChain[n]
    BY <1>5 DEF Typed
  <2>4. \A d \in Chain : InUse(d)' <=> d = c \/ InUse(d)
    BY <2>1 DEF InUse
  <2>5. \A d \in Chain : d # c => (Untouched(d)' <=> Untouched(d))
    BY <2>1, <2>2 DEF Untouched
  <2>6. \A d \in Chain : d # c => (Running(d)' <=> Running(d))
    BY <2>2 DEF Running
  <2>7. ChainsInPlace'
    <3> SUFFICES ASSUME NEW d \in Chain
                 PROVE  /\ object'[d] = "none" => worker'[d] = "none"
                        /\ Running(d)' => InUse(d)' /\ deletes'[d] = 0
                        /\ InUse(d)' => owner'[d] \in Monitor /\ swapChain'[owner'[d]] = d
                        /\ object'[d] # "dying"
                        /\ owner'[d] = NoMonitor => Untouched(d)'
      BY Zenon DEF ChainsInPlace
    <3>1. CASE d = c
      BY <1>1, <2>1, <2>2, <2>3, <2>4, <3>1 DEF Untouched
    <3>2. CASE d # c
      BY <1>1, <1>2, <1>3, <2>1, <2>2, <2>3, <2>4, <2>5, <2>6, <3>2
         DEF CustodyInv, ChainsInPlace
    <3> QED
      BY <3>1, <3>2
  <2>8. MonitorsInPlace'
    <3> SUFFICES ASSUME NEW n \in Monitor, swapChain'[n] # NoChain
                 PROVE  owner[swapChain'[n]] = n
                        /\ object'[swapChain'[n]] \in {"alive", "dying"}
                        /\ assigned[n] # NoChain
      BY <1>1 DEF MonitorsInPlace, InUse
    <3>1. CASE n = m
      BY <1>1, <2>1, <2>3, <3>1 DEF InUse
    <3>2. CASE n # m
      <4>1. swapChain'[n] = swapChain[n] /\ swapChain[n] \in Chain
        BY <2>3, <3>2 DEF Typed
      <4>2. owner[swapChain[n]] = n /\ InUse(swapChain[n]) /\ assigned[n] # NoChain
        BY <4>1 DEF CustodyInv, MonitorsInPlace
      <4> QED
        BY <2>1, <4>1, <4>2 DEF InUse
    <3> QED
      BY <3>1, <3>2
  <2> QED
    BY <1>4, <2>7, <2>8 DEF CustodyInv
<1>6. CASE P!Discard(c) /\ UNCHANGED swapChain
  <2>0. /\ deletes' = [deletes EXCEPT ![c] = P!Min2(@ + 1, 2)]
        /\ UNCHANGED <<object, worker, swapChain>>
    BY <1>6 DEF P!Discard, P!worker_vars
  <2>1. \A d \in Chain : d # c => deletes'[d] = deletes[d]
    BY <2>0 DEF P!TypeOK
  <2>2. ~Running(c) /\ owner[c] # NoMonitor
    BY <1>1 DEF CustodyInv, ChainsInPlace, Untouched, InUse
  <2>3. \A d \in Chain : d # c => (Untouched(d)' <=> Untouched(d))
    BY <2>0, <2>1 DEF Untouched
  <2>4. ChainsInPlace'
    BY <1>1, <1>3, <2>0, <2>1, <2>2, <2>3 DEF CustodyInv, ChainsInPlace, Running, InUse
  <2>5. MonitorsInPlace'
    BY <1>1, <2>0 DEF CustodyInv, MonitorsInPlace, InUse
  <2> QED
    BY <1>4, <2>4, <2>5 DEF CustodyInv
<1> QED
  BY <1>5, <1>6 DEF BuildProcessor

\* A handle comes back.
LEMMA RecycleKeepsCustody ==
  ASSUME Typed, P!TypeOK, CustodyInv, NEW c \in Chain, RecycleChain(c)
  PROVE  CustodyInv'
<1>1. /\ UNCHANGED <<assigned, swapChain, pc>> /\ UNCHANGED cb.mon
      /\ \A m \in Monitor : swapChain[m] # c
      /\ pc["os"] \in Assigning => cb.chain # c /\ UNCHANGED cb
  BY DEF RecycleChain, Typed, Assigning
<1>2. \A d \in Chain : /\ object'[d] = IF d = c THEN "none" ELSE object[d]
                       /\ worker'[d] = IF d = c THEN "none" ELSE worker[d]
                       /\ deletes'[d] = IF d = c THEN 0 ELSE deletes[d]
  BY DEF RecycleChain, P!Recycle, P!TypeOK
<1>3. \A d \in Chain : owner'[d] = IF d = c THEN NoMonitor ELSE owner[d]
  BY DEF RecycleChain, Typed
<1>4. ~InUse(c)
  BY DEF RecycleChain, P!Recycle, InUse
<1>5. \A d \in Chain : /\ Running(d)' <=> d # c /\ Running(d)
                       /\ InUse(d)' <=> d # c /\ InUse(d)
                       /\ Untouched(d)' <=> d = c \/ Untouched(d)
  BY <1>2 DEF Running, P!Running, P!Loop, InUse, Untouched
<1>6. ChainsInPlace'
  BY <1>1, <1>2, <1>3, <1>5 DEF CustodyInv, ChainsInPlace
<1>7. MonitorsInPlace'
  BY <1>1, <1>2, <1>3 DEF CustodyInv, MonitorsInPlace, InUse, Typed
<1>8. CallbackInPlace'
  <2>1. pc["os"] \in Stopping => cb.mon \in Monitor /\ swapChain[cb.mon] \in Chain \ {c}
                                /\ object[swapChain[cb.mon]] = "dying"
    BY <1>1 DEF CustodyInv, CallbackInPlace, CallbackPC, Assigning, Stopping, Typed
  <2> QED
    BY <1>1, <1>2, <1>3, <1>5, <2>1 DEF CustodyInv, CallbackInPlace, Assigning, Typed
<1> QED
  BY <1>6, <1>7, <1>8 DEF CustodyInv

\* Every step keeps the chains in custody.
LEMMA NextCustody == Typed /\ P!TypeOK /\ CustodyInv /\ Next => CustodyInv'
<1> SUFFICES ASSUME Typed, P!TypeOK, CustodyInv, Next PROVE CustodyInv'
  OBVIOUS
<1> USE DEF Typed, PcTyped, CustodyInv, ChainsInPlace, MonitorsInPlace, CallbackInPlace,
            InUse, Untouched, CallbackPC, Assigning, Stopping, Running, Goto, flag_vars,
            mode_vars, iddcx_vars, processor_vars
<1>1. CASE InitAdapter
  BY <1>1 DEF InitAdapter, PopulateDefaultModes
<1>2. CASE AdapterInitFinished
  BY <1>2 DEF AdapterInitFinished
<1>3. ASSUME NEW m \in Monitor, NEW c \in Chain, AssignBegin(m, c) PROVE CustodyInv'
  BY <1>3 DEF AssignBegin
<1>4. ASSUME NEW m \in Monitor, UnassignBegin(m) PROVE CustodyInv'
  BY <1>4 DEF UnassignBegin, Lapse
<1>5. CASE \/ StopProcessor("a_stop", "a_join", "a_build")
           \/ StopProcessor("u_stop", "u_join", "u_notify")
  BY <1>5, StopKeepsCustody
<1>6. CASE JoinProcessor("a_join", "a_build") \/ JoinProcessor("u_join", "u_notify")
  BY <1>6, JoinKeepsCustody
<1>7. CASE BuildProcessor
  BY <1>7, BuildKeepsCustody
<1>8. CASE NotifyAssign
  BY <1>8 DEF NotifyAssign
<1>9. CASE SendPendingMode
  BY <1>9 DEF SendPendingMode
<1>10. CASE NotifyUnassign
  BY <1>10 DEF NotifyUnassign
<1>11. ASSUME NEW t \in Thread, MonitorCreate(t) PROVE CustodyInv'
  BY <1>11 DEF MonitorCreate, Lapse
<1>12. ASSUME NEW t \in Thread, MonitorArrival(t) PROVE CustodyInv'
  BY <1>12 DEF MonitorArrival, Lapse
<1>13. ASSUME NEW mode \in Mode, SetResolution(mode) PROVE CustodyInv'
  BY <1>13 DEF SetResolution, Lapse
<1>14. CASE SetPopulate
  BY <1>14 DEF SetPopulate, PopulateDefaultModes
<1>15. CASE UpdateMonitorModes
  BY <1>15 DEF UpdateMonitorModes
<1>16. CASE ClearPendingMode \/ ArmRecovery \/ FallBack
  BY <1>16 DEF ClearPendingMode, ArmRecovery, FallBack
<1>17. CASE ReplugMonitor
  BY <1>17 DEF ReplugMonitor
<1>18. CASE MonitorDeparture
  BY <1>18 DEF MonitorDeparture, Lapse
<1>19. ASSUME NEW c \in Chain, WorkerStep(c) \/ ChainEvent(c) PROVE CustodyInv'
  BY <1>19, WorkerKeepsCustody
<1>20. ASSUME NEW c \in Chain, OnSwapChainLost(c) PROVE CustodyInv'
  BY <1>20, WorkerKeepsCustody
<1>21. ASSUME NEW c \in Chain, RecycleChain(c) PROVE CustodyInv'
  BY <1>21, RecycleKeepsCustody
<1>22. FinishInit("os") \/ FinishInit("ctl") => CustodyInv'
  BY <1>11, <1>12 DEF FinishInit
<1> QED
  BY <1>1, <1>2, <1>3, <1>4, <1>5, <1>6, <1>7, <1>8, <1>9, <1>10, <1>11, <1>12, <1>13,
     <1>14, <1>15, <1>16, <1>17, <1>18, <1>19, <1>20, <1>21, <1>22
     DEF Next, Assign, Unassign, OsReturn, CtlReturn

\* The driver touches a processor only as its owner, its worker and the
\* operating system do.
LEMMA StepRunsProcessors ==
  Typed /\ P!TypeOK /\ CustodyInv /\ [Next]_vars => [P!Next]_(P!vars)
<1> SUFFICES ASSUME Typed, P!TypeOK, CustodyInv, [Next]_vars
             PROVE  P!Next \/ UNCHANGED P!vars
  OBVIOUS
<1>1. UNCHANGED processor_vars => UNCHANGED P!vars
  BY DEF processor_vars, P!vars
<1>2. ASSUME NEW from, NEW join, NEW next, StopProcessor(from, join, next),
             from \in {"a_stop", "u_stop"}
      PROVE  P!Next \/ UNCHANGED P!vars
  <2> DEFINE c == swapChain[cb.mon]
  <2>1. cb.mon \in Monitor /\ pc["os"] \notin Stopping
    BY <1>2 DEF StopProcessor, CustodyInv, CallbackInPlace, CallbackPC, Assigning, Stopping
  <2>2. CASE c = NoChain
    BY <1>1, <1>2, <2>2 DEF StopProcessor
  <2>3. CASE c # NoChain
    <3>1. c \in Chain /\ InUse(c)
      BY <2>1, <2>3 DEF Typed, CustodyInv, MonitorsInPlace
    <3>2. object[c] = "alive"
      BY <2>1, <3>1 DEF CustodyInv, ChainsInPlace, InUse
    <3>3. P!SignalTerminate(c)
      BY <1>2, <2>3, <3>2 DEF StopProcessor, P!SignalTerminate
    <3> QED
      BY <3>1, <3>3 DEF P!Next, P!Owner
  <2> QED
    BY <2>2, <2>3
<1>3. ASSUME NEW join, NEW next, JoinProcessor(join, next), join \in Stopping
      PROVE  P!Next
  <2> DEFINE c == swapChain[cb.mon]
  <2>1. cb.mon \in Monitor /\ c # NoChain /\ object[c] = "dying"
    BY <1>3 DEF JoinProcessor, Goto, CustodyInv, CallbackInPlace, CallbackPC, Assigning, Stopping
  <2>2. c \in Chain /\ P!Join(c)
    BY <1>3, <2>1 DEF JoinProcessor, P!Join, Typed
  <2> QED
    BY <2>2 DEF P!Next, P!Owner
<1>4. ASSUME BuildProcessor PROVE P!Next
  <2> DEFINE c == cb.chain
  <2>1. c \in Chain /\ P!Fresh(c)
    BY <1>4 DEF BuildProcessor, Goto, CustodyInv, CallbackInPlace, Assigning, Untouched, P!Fresh
  <2>2. P!Construct(c) \/ P!Refuse(c)
    BY <1>4, <2>1 DEF BuildProcessor, P!Construct, P!Refuse
  <2> QED
    BY <2>1, <2>2 DEF P!Next, P!Owner
<1>5. ASSUME NEW c \in Chain,
             WorkerStep(c) \/ ChainEvent(c) \/ OnSwapChainLost(c) \/ RecycleChain(c)
      PROVE  P!Next
  BY <1>5 DEF WorkerStep, ChainEvent, OnSwapChainLost, RecycleChain, P!Next
<1>6. Assign \/ Unassign => UNCHANGED P!vars
  BY <1>1 DEF Assign, AssignBegin, Unassign, UnassignBegin
<1>7. ASSUME NEW t, FinishInit(t) PROVE UNCHANGED P!vars
  BY <1>1, <1>7 DEF FinishInit, MonitorCreate, MonitorArrival
<1>8. OsReturn => P!Next \/ UNCHANGED P!vars
  <2>1. NotifyAssign \/ SendPendingMode \/ NotifyUnassign => UNCHANGED P!vars
    BY <1>1 DEF NotifyAssign, SendPendingMode, NotifyUnassign
  <2> QED
    BY <1>2, <1>3, <1>4, <1>7, <2>1 DEF OsReturn, Stopping
<1>9. CtlReturn => UNCHANGED P!vars
  <2>1. CtlReturn => FinishInit("ctl") \/ UNCHANGED processor_vars
    BY DEF CtlReturn, SetPopulate, UpdateMonitorModes, ClearPendingMode, ArmRecovery, FallBack,
       ReplugMonitor, MonitorDeparture
  <2> QED
    BY <1>1, <1>7, <2>1
<1>10. InitAdapter \/ AdapterInitFinished \/ (\E mode \in Mode : SetResolution(mode))
         => UNCHANGED P!vars
  BY <1>1 DEF InitAdapter, AdapterInitFinished, SetResolution
<1>11. UNCHANGED vars => UNCHANGED P!vars
  BY <1>1 DEF vars
<1> QED
  BY <1>5, <1>6, <1>8, <1>9, <1>10, <1>11 DEF Next

\* ... so every step keeps the types of the processors' variables too.
LEMMA NextProcessorTyped == Typed /\ P!TypeOK /\ CustodyInv /\ Next => P!TypeOK'
BY StepRunsProcessors, ProcessorTyped

-----------------------------------------------------------------------------
(* What follows from it.                                                   *)

DriverInv == Typed /\ P!TypeOK /\ CustodyInv

LEMMA DriverStutters == DriverInv /\ UNCHANGED vars => DriverInv'
  BY DEF DriverInv, Typed, PcTyped, P!TypeOK, CustodyInv, ChainsInPlace, MonitorsInPlace,
         CallbackInPlace, InUse, Untouched, Running, vars, processor_vars, mode_vars,
         flag_vars, iddcx_vars

LEMMA DriverInvariance == Spec => []DriverInv
<1>1. Init => DriverInv
  BY InitTyped, InitCustody DEF DriverInv
<1>2. DriverInv /\ [Next]_vars => DriverInv'
  BY NextTyped, NextProcessorTyped, NextCustody, DriverStutters DEF DriverInv
<1> QED
  BY <1>1, <1>2, PTL DEF Spec

\* CIndirectMonitorContext.cpp:37-58: whatever the callbacks, the caller of
\* SetResolution and the workers do to each other, each processor sees an owner
\* that builds it once for a fresh chain and destroys it once.
THEOREM ProcessorsRun == Spec => RunsProcessors
<1>1. Init => P!Init
  BY DEF Init
<1>2. DriverInv /\ [Next]_vars => [P!Next]_(P!vars)
  BY StepRunsProcessors DEF DriverInv
<1> QED
  BY <1>1, <1>2, DriverInvariance, PTL DEF Spec, RunsProcessors, P!Spec

\* So the running driver keeps what a processor keeps: no worker on a freed
\* processor, no chain deleted twice, no terminate signal lost while the
\* callback waits for the worker.
THEOREM ProcessorsKeepTheirWord ==
  Spec => [](P!NoUseAfterFree /\ P!ChainDeletedOnce /\ P!SignalNotLost)
<1>1. P!Spec => Proc!Spec
  BY SameProcessors, SameProcessorSteps, PTL DEF P!Spec, Proc!Spec
<1>2. Proc!Spec => []Proc!IInv
  BY Proc!Invariance, ProcAssumption
<1>3. Proc!IInv => P!NoUseAfterFree /\ P!ChainDeletedOnce /\ P!SignalNotLost
  BY DEF Proc!IInv, Proc!NoUseAfterFree, Proc!ChainDeletedOnce, Proc!SignalNotLost,
         Proc!Running, Proc!Loop, P!NoUseAfterFree, P!ChainDeletedOnce, P!SignalNotLost,
         P!Running, P!Loop
<1> QED
  BY <1>1, <1>2, <1>3, ProcessorsRun, PTL DEF RunsProcessors

\* Every variable of the driver keeps its type, also those of the processors
\* it builds and destroys.
THEOREM DisplayTypeCorrect == Spec => []TypeOK
<1>1. DriverInv => TypeOK
  BY DEF DriverInv, Typed, PcTyped, TypeOK
<1> QED
  BY <1>1, DriverInvariance, PTL

\* CIndirectMonitorContext.cpp:39,51,66: a worker that runs can always be
\* stopped through the monitor context of its chain's monitor, for any number
\* of chains and monitors and whatever the OS unassigns or replaces.
THEOREM WorkerHeld == Spec => []WorkerIsHeld
<1>1. DriverInv => WorkerIsHeld
  BY DEF DriverInv, CustodyInv, ChainsInPlace, WorkerIsHeld
<1> QED
  BY <1>1, DriverInvariance, PTL

-----------------------------------------------------------------------------
(* The driver implements ChainCustody.                                     *)

Custodian == [c \in Chain |-> IF deletes[c] > 0 THEN "released"
                              ELSE IF owner[c] # NoMonitor THEN "driver" ELSE "os"]
Serving   == [m \in Monitor |-> IF swapChain[m] # NoChain /\ Running(swapChain[m])
                                THEN swapChain[m] ELSE NoChain]

\* A step that moves no worker and deletes nothing is a stutter.
LEMMA AsideStutters ==
  UNCHANGED <<deletes, owner, swapChain, worker>> => UNCHANGED Custody!vars
  BY DEF Custody!vars, Running

LEMMA AssignTakes ==
  ASSUME DriverInv, NEW m \in Monitor, NEW c \in Chain, AssignBegin(m, c)
  PROVE  Custody!Take(m, c)
<1>1. UNCHANGED <<deletes, swapChain, worker>> /\ owner[c] = NoMonitor
      /\ owner' = [owner EXCEPT ![c] = m]
  BY DEF AssignBegin, processor_vars
<1>2. deletes[c] = 0
  BY <1>1 DEF DriverInv, CustodyInv, ChainsInPlace, Untouched
<1>3. Custodian' = [Custodian EXCEPT ![c] = "driver"]
  <2>1. \A d \in Chain : Custodian'[d] = IF d = c THEN "driver" ELSE Custodian[d]
    BY <1>1, <1>2 DEF Custodian, DriverInv, Typed
  <2> QED
    BY <2>1 DEF Custodian
<1>4. Custodian[c] = "os"
  BY <1>1, <1>2 DEF Custodian
<1>5. Serving' = Serving
  BY <1>1 DEF Serving, Running
<1> QED
  BY <1>1, <1>3, <1>4, <1>5 DEF Custody!Take, Custodian, Serving

LEMMA JoinStutters ==
  ASSUME DriverInv, NEW join, NEW next, JoinProcessor(join, next),
         join \in Stopping
  PROVE  UNCHANGED Custody!vars
<1>1. /\ UNCHANGED <<deletes, owner, worker>> /\ worker[swapChain[cb.mon]] \in {"none", "exited"}
      /\ swapChain' = [swapChain EXCEPT ![cb.mon] = NoChain]
  BY DEF JoinProcessor, P!EndDestroy, P!worker_vars, iddcx_vars
<1>2. \A m \in Monitor : swapChain'[m] = IF m = cb.mon THEN NoChain ELSE swapChain[m]
  BY <1>1 DEF DriverInv, Typed
<1>3. ~Running(swapChain[cb.mon])
  BY <1>1 DEF Running, P!Running, P!Loop
<1>4. \A m \in Monitor : (swapChain'[m] # NoChain /\ worker[swapChain'[m]] \in P!Running)
                          <=> (swapChain[m] # NoChain /\ Running(swapChain[m]))
  BY <1>2, <1>3 DEF Running
<1>5. Serving' = Serving
  BY <1>1, <1>2, <1>4 DEF Serving, Running
<1> QED
  BY <1>1, <1>5 DEF Custody!vars, Serving

LEMMA BuildServes ==
  ASSUME DriverInv, BuildProcessor,
         NEW m \in Monitor, NEW c \in Chain, m = cb.mon, c = cb.chain
  PROVE  Custody!Serve(m, c) \/ Custody!Refuse(m, c) \/ UNCHANGED Custody!vars
<1>1. /\ UNCHANGED owner
      /\ m \in Monitor /\ c \in Chain /\ owner[c] = m /\ Untouched(c) /\ worker[c] = "none"
      /\ swapChain[m] = NoChain
  BY DEF BuildProcessor, Goto, iddcx_vars, DriverInv, Typed, CustodyInv, ChainsInPlace,
         CallbackInPlace, CallbackPC, Assigning, Untouched
<1>2. Custodian[c] = "driver" /\ Serving[m] = NoChain
  BY <1>1 DEF Custodian, Serving, Untouched
<1>3. \A n \in Monitor : swapChain[n] # c
  BY <1>1 DEF DriverInv, CustodyInv, MonitorsInPlace
<1>4. CASE P!Build(c) /\ swapChain' = [swapChain EXCEPT ![m] = c]
  <2>1. UNCHANGED deletes /\ \A d \in Chain : d # c => worker'[d] = worker[d]
    BY <1>4 DEF P!Build, DriverInv, P!TypeOK
  <2>2. \A n \in Monitor : swapChain'[n] = IF n = m THEN c ELSE swapChain[n]
    BY <1>4 DEF DriverInv, Typed
  <2>3. \A n \in Monitor : n # m /\ swapChain[n] # NoChain =>
          worker'[swapChain[n]] = worker[swapChain[n]]
    BY <1>3, <2>1 DEF DriverInv, Typed
  <2>4. worker'[c] \in {"start", "none"}
    BY <1>1, <1>4 DEF P!Build, DriverInv, P!TypeOK
  <2>5. Custodian' = Custodian
    BY <1>1, <2>1 DEF Custodian
  <2>6. CASE worker'[c] = "start"
    <3>1. \A n \in Monitor :
            Serving'[n] = IF n = m THEN c ELSE Serving[n]
      BY <1>1, <2>2, <2>3, <2>6 DEF Serving, Running, P!Running, P!Loop
    <3>2. Serving' = [Serving EXCEPT ![m] = c]
      BY <3>1 DEF Serving
    <3> QED
      BY <1>1, <1>2, <2>5, <3>2 DEF Custody!Serve, Custodian, Serving
  <2>7. CASE worker'[c] = "none"
    <3>1. \A n \in Monitor : Serving'[n] = Serving[n]
      BY <1>1, <2>2, <2>3, <2>7 DEF Serving, Running, P!Running, P!Loop
    <3>2. Serving' = Serving
      BY <3>1 DEF Serving
    <3> QED
      BY <1>1, <2>5, <3>2 DEF Custody!vars, Custodian, Serving
  <2> QED
    BY <2>4, <2>6, <2>7
<1>5. CASE P!Discard(c) /\ UNCHANGED swapChain
  <2>0. /\ deletes' = [deletes EXCEPT ![c] = P!Min2(@ + 1, 2)]
        /\ UNCHANGED <<object, worker, swapChain>>
    BY <1>5 DEF P!Discard, P!worker_vars
  <2>1. deletes'[c] = 1 /\ \A d \in Chain : d # c => deletes'[d] = deletes[d]
    BY <1>1, <2>0 DEF DriverInv, P!TypeOK, P!Min2, Untouched
  <2>2. Custodian' = [Custodian EXCEPT ![c] = "released"]
    <3>1. \A d \in Chain : Custodian'[d] = IF d = c THEN "released" ELSE Custodian[d]
      BY <1>1, <2>1 DEF Custodian
    <3> QED
      BY <3>1 DEF Custodian
  <2>3. Serving' = Serving
    BY <2>0 DEF Serving, Running
  <2> QED
    BY <1>1, <1>2, <2>2, <2>3 DEF Custody!Refuse, Custodian, Serving
<1> QED
  BY <1>4, <1>5 DEF BuildProcessor

LEMMA WorkerGivesBack ==
  ASSUME DriverInv, NEW c \in Chain, WorkerStep(c) \/ OnSwapChainLost(c)
  PROVE  Custody!GiveBack(owner[c], c) \/ UNCHANGED Custody!vars
<1>1. UNCHANGED <<swapChain, owner>> /\ (P!WorkerStep(c) \/ P!ReportLost(c))
  BY DEF WorkerStep, OnSwapChainLost, iddcx_vars
<1>2. Running(c) /\ deletes[c] = 0 /\ owner[c] \in Monitor /\ swapChain[owner[c]] = c
  BY <1>1, StepsOnlyRunning DEF DriverInv, CustodyInv, ChainsInPlace
<1>3. /\ \A d \in Chain : d # c => worker'[d] = worker[d] /\ deletes'[d] = deletes[d]
      /\ \/ Running(c)' /\ deletes' = deletes
         \/ worker'[c] = "exited" /\ deletes'[c] = 1
  BY <1>1, <1>2, WorkerSteps DEF DriverInv
<1>4. \A n \in Monitor : n # owner[c] /\ swapChain[n] # NoChain =>
        swapChain[n] \in Chain /\ swapChain[n] # c
  BY DEF DriverInv, Typed, CustodyInv, MonitorsInPlace
<1>5. \A n \in Monitor : n # owner[c] => Serving'[n] = Serving[n]
  BY <1>1, <1>3, <1>4 DEF Serving, Running
<1>6. Serving[owner[c]] = c /\ Custodian[c] = "driver"
  BY <1>2 DEF Serving, Custodian
<1>7. CASE Running(c)' /\ deletes' = deletes
  <2>1. Custodian' = Custodian
    BY <1>1, <1>7 DEF Custodian
  <2>2. Serving'[owner[c]] = Serving[owner[c]]
    BY <1>1, <1>2, <1>7 DEF Serving, Running
  <2>3. Serving' = Serving
    BY <1>5, <2>2 DEF Serving
  <2> QED
    BY <1>1, <2>1, <2>3 DEF Custody!vars, Custodian, Serving
<1>8. CASE worker'[c] = "exited" /\ deletes'[c] = 1
  <2>1. Custodian' = [Custodian EXCEPT ![c] = "released"]
    <3>1. \A d \in Chain : Custodian'[d] = IF d = c THEN "released" ELSE Custodian[d]
      BY <1>1, <1>3, <1>8 DEF Custodian
    <3> QED
      BY <3>1 DEF Custodian
  <2>2. Serving'[owner[c]] = NoChain
    BY <1>1, <1>2, <1>8 DEF Serving, Running, P!Running, P!Loop
  <2>3. Serving' = [Serving EXCEPT ![owner[c]] = NoChain]
    BY <1>5, <2>2 DEF Serving
  <2> QED
    BY <1>1, <1>6, <2>1, <2>3 DEF Custody!GiveBack, Custodian, Serving
<1> QED
  BY <1>3, <1>7, <1>8

LEMMA RecycleReuses ==
  ASSUME DriverInv, NEW c \in Chain, RecycleChain(c)
  PROVE  Custody!Reuse(c)
<1>1. /\ UNCHANGED swapChain /\ owner' = [owner EXCEPT ![c] = NoMonitor]
      /\ \A m \in Monitor : swapChain[m] # c
      /\ deletes[c] > 0
  BY DEF RecycleChain, P!Recycle
<1>2. \A d \in Chain : /\ deletes'[d] = IF d = c THEN 0 ELSE deletes[d]
                       /\ d # c => worker'[d] = worker[d]
  BY DEF RecycleChain, P!Recycle, DriverInv, P!TypeOK
<1>3. Custodian' = [Custodian EXCEPT ![c] = "os"]
  <2>1. \A d \in Chain : Custodian'[d] = IF d = c THEN "os" ELSE Custodian[d]
    BY <1>1, <1>2 DEF Custodian, DriverInv, Typed
  <2> QED
    BY <2>1 DEF Custodian
<1>4. \A m \in Monitor : Serving'[m] = Serving[m]
  BY <1>1, <1>2 DEF Serving, Running, DriverInv, Typed
<1>5. Serving' = Serving
  BY <1>4 DEF Serving
<1>6. Custodian[c] = "released"
  BY <1>1 DEF Custodian
<1> QED
  BY <1>1, <1>3, <1>5, <1>6 DEF Custody!Reuse, Custodian, Serving

\* Every step of the driver is a step of ChainCustody or a stutter.
LEMMA StepKeepsCustody == DriverInv /\ [Next]_vars => [Custody!Next]_(Custody!vars)
<1> SUFFICES ASSUME DriverInv, [Next]_vars PROVE Custody!Next \/ UNCHANGED Custody!vars
  OBVIOUS
<1>1. ASSUME NEW m \in Monitor, NEW c \in Chain, AssignBegin(m, c) PROVE Custody!Next
  BY <1>1, AssignTakes DEF Custody!Next
<1>2. ASSUME NEW from, NEW join, NEW next, StopProcessor(from, join, next)
      PROVE  UNCHANGED Custody!vars
  BY <1>2, AsideStutters
     DEF StopProcessor, iddcx_vars, processor_vars, P!BeginDestroy, P!worker_vars
<1>3. ASSUME NEW join, NEW next, JoinProcessor(join, next), join \in Stopping
      PROVE  UNCHANGED Custody!vars
  BY <1>3, JoinStutters
<1>4. BuildProcessor => Custody!Next \/ UNCHANGED Custody!vars
  <2> SUFFICES ASSUME BuildProcessor PROVE Custody!Next \/ UNCHANGED Custody!vars
    OBVIOUS
  <2>1. cb.mon \in Monitor /\ cb.chain \in Chain
    BY DEF BuildProcessor, Goto, DriverInv, CustodyInv, CallbackInPlace, CallbackPC,
       Assigning
  <2>2. PICK m \in Monitor, c \in Chain : m = cb.mon /\ c = cb.chain
    BY <2>1
  <2>3. Custody!Serve(m, c) \/ Custody!Refuse(m, c) \/ UNCHANGED Custody!vars
    BY <2>2, BuildServes
  <2> QED
    BY <2>3 DEF Custody!Next
<1>5. ASSUME NEW c \in Chain, WorkerStep(c) \/ OnSwapChainLost(c)
      PROVE  Custody!Next \/ UNCHANGED Custody!vars
  <2>1. P!WorkerStep(c) \/ P!ReportLost(c)
    BY <1>5 DEF WorkerStep, OnSwapChainLost
  <2>2. owner[c] \in Monitor
    BY <2>1, StepsOnlyRunning DEF DriverInv, CustodyInv, ChainsInPlace
  <2> QED
    BY <1>5, <2>2, WorkerGivesBack DEF Custody!Next
<1>6. ASSUME NEW c \in Chain, ChainEvent(c) PROVE UNCHANGED Custody!vars
  BY <1>6, AsideStutters DEF ChainEvent, P!Present, P!LosePath, P!worker_vars, iddcx_vars
<1>7. ASSUME NEW c \in Chain, RecycleChain(c) PROVE Custody!Next
  BY <1>7, RecycleReuses DEF Custody!Next
<1>8. ASSUME NEW t, FinishInit(t) PROVE UNCHANGED Custody!vars
  BY <1>8, AsideStutters DEF FinishInit, MonitorCreate, MonitorArrival, processor_vars
<1>9. OsReturn => Custody!Next \/ UNCHANGED Custody!vars
  <2>1. NotifyAssign \/ SendPendingMode \/ NotifyUnassign => UNCHANGED Custody!vars
    BY AsideStutters
       DEF NotifyAssign, SendPendingMode, NotifyUnassign, processor_vars, iddcx_vars
  <2> QED
    BY <1>2, <1>3, <1>4, <1>8, <2>1 DEF OsReturn, Stopping
<1>10. CtlReturn => UNCHANGED Custody!vars
  <2>1. CtlReturn => FinishInit("ctl") \/ UNCHANGED <<deletes, owner, swapChain, worker>>
    BY DEF CtlReturn, SetPopulate, UpdateMonitorModes, ClearPendingMode, ArmRecovery, FallBack,
       ReplugMonitor, MonitorDeparture, processor_vars, iddcx_vars
  <2> QED
    BY <1>8, <2>1, AsideStutters
<1>11. InitAdapter \/ AdapterInitFinished \/ Unassign \/ (\E mode \in Mode : SetResolution(mode))
         => UNCHANGED Custody!vars
  BY AsideStutters
     DEF InitAdapter, AdapterInitFinished, Unassign, UnassignBegin, SetResolution, processor_vars
<1>12. CASE UNCHANGED vars
  BY <1>12, AsideStutters DEF vars, processor_vars, iddcx_vars
<1> QED
  BY <1>1, <1>5, <1>6, <1>7, <1>9, <1>10, <1>11, <1>12 DEF Next, Assign

\* For any number of chains and monitors, and whatever fails, the driver takes
\* each chain once, serves it alone on its monitor and gives it back once.
THEOREM CustodyKept == Spec => KeepsCustody
<1>1. Init => Custody!Init
  BY DEF Init, P!Init, Custody!Init
<1> QED
  BY <1>1, StepKeepsCustody, DriverInvariance, PTL DEF Spec, KeepsCustody, Custody!Spec

-----------------------------------------------------------------------------
(* One monitor.                                                            *)

Unassigning == {"u_stop", "u_join", "u_notify"}

\* Between two plugs the monitor is plugged, or departed with the replug due.
Settled ==
  \/ plug[monitor] = "arrived" /\ (replugMonitor <=> pc["ctl"] = "depart")
  \/ plug[monitor] = "departed" /\ replugMonitor /\ pc["ctl"] = "idle"

\* No monitor yet: no callback but the one that makes it.
NoneYet ==
  /\ \A m \in Monitor : plug[m] = "unborn"
  /\ pc["os"] \in {"idle", "create"} /\ pc["ctl"] = "idle" /\ ~replugMonitor
  /\ adapter = "ready" => pc["os"] = "create"

\* The one monitor: only it is plugged, only it can still be unassigned.
OneAtATime ==
  /\ \A m \in Monitor :
       /\ plug[m] \in {"created", "arrived"} => m = monitor
       /\ plug[m] = "departed" /\ assigned[m] # NoChain => m = monitor /\ replugMonitor
  /\ pc["os"] = "create" =>
       plug[monitor] = "departed" /\ ~replugMonitor /\ pc["ctl"] = "idle"
  /\ pc["os"] = "arrive" =>
       plug[monitor] = "created" /\ ~replugMonitor /\ pc["ctl"] = "idle"
  /\ pc["os"] \in Unassigning =>
       cb.mon = monitor /\ plug[monitor] = "departed" /\ replugMonitor
  /\ pc["os"] \notin {"create", "arrive"} => Settled
  /\ pc["ctl"] # "idle" \/ replugMonitor => assigned[monitor] # NoChain

\* The control thread leaves plugging to the callbacks.
MonitorSteady ==
  /\ adapter # "ready" => monitor = NoMonitor /\ pc["os"] = "idle"
  /\ monitor = NoMonitor => NoneYet
  /\ monitor # NoMonitor => OneAtATime
  /\ pc["ctl"] \notin {"create", "arrive"}

Steady == lapse # "astray" => MonitorSteady

\* Every step keeps to one monitor, unless something goes astray.
LEMMA NextSteady == DriverInv /\ Steady /\ Next => Steady'
<1> SUFFICES ASSUME DriverInv, Steady, Next PROVE Steady'
  OBVIOUS
<1> USE DEF DriverInv, Typed, PcTyped, Goto, Steady, MonitorSteady, NoneYet, OneAtATime, Settled,
            Unassigning, flag_vars, mode_vars, iddcx_vars
<1>1. CASE InitAdapter
  BY <1>1 DEF InitAdapter, PopulateDefaultModes
<1>2. CASE AdapterInitFinished
  BY <1>2 DEF AdapterInitFinished
<1>3. ASSUME NEW m \in Monitor, NEW c \in Chain, AssignBegin(m, c) PROVE Steady'
  BY <1>3 DEF AssignBegin
<1>4. ASSUME NEW m \in Monitor, UnassignBegin(m) PROVE Steady'
  BY <1>4 DEF UnassignBegin, Lapse
<1>5. CASE \/ StopProcessor("a_stop", "a_join", "a_build")
           \/ StopProcessor("u_stop", "u_join", "u_notify")
  BY <1>5 DEF StopProcessor
<1>6. CASE JoinProcessor("a_join", "a_build") \/ JoinProcessor("u_join", "u_notify")
  BY <1>6 DEF JoinProcessor
<1>7. CASE BuildProcessor
  BY <1>7 DEF BuildProcessor
<1>8. CASE NotifyAssign
  BY <1>8 DEF NotifyAssign
<1>9. CASE SendPendingMode
  BY <1>9 DEF SendPendingMode
<1>10. CASE NotifyUnassign
  BY <1>10 DEF NotifyUnassign
<1>11. ASSUME NEW t \in Thread, MonitorCreate(t) PROVE Steady'
  BY <1>11 DEF MonitorCreate, Lapse
<1>12. ASSUME NEW t \in Thread, MonitorArrival(t) PROVE Steady'
  BY <1>12 DEF MonitorArrival, Lapse
<1>13. ASSUME NEW mode \in Mode, SetResolution(mode) PROVE Steady'
  BY <1>13 DEF SetResolution, Replugable, Lapse
<1>14. CASE SetPopulate
  BY <1>14 DEF SetPopulate, PopulateDefaultModes
<1>15. CASE UpdateMonitorModes
  BY <1>15 DEF UpdateMonitorModes
<1>16. CASE ClearPendingMode \/ ArmRecovery \/ FallBack
  BY <1>16 DEF ClearPendingMode, ArmRecovery, FallBack
<1>17. CASE ReplugMonitor
  BY <1>17 DEF ReplugMonitor
<1>18. CASE MonitorDeparture
  BY <1>18 DEF MonitorDeparture, Lapse
<1>19. ASSUME NEW c \in Chain, WorkerStep(c) \/ ChainEvent(c) PROVE Steady'
  BY <1>19 DEF WorkerStep, ChainEvent
<1>20. ASSUME NEW c \in Chain, OnSwapChainLost(c) PROVE Steady'
  BY <1>20 DEF OnSwapChainLost
<1>21. ASSUME NEW c \in Chain, RecycleChain(c) PROVE Steady'
  BY <1>21 DEF RecycleChain
<1>22. FinishInit("os") \/ FinishInit("ctl") => Steady'
  BY <1>11, <1>12 DEF FinishInit
<1> QED
  BY <1>1, <1>2, <1>3, <1>4, <1>5, <1>6, <1>7, <1>8, <1>9, <1>10, <1>11, <1>12, <1>13,
     <1>14, <1>15, <1>16, <1>17, <1>18, <1>19, <1>20, <1>21, <1>22
     DEF Next, Assign, Unassign, OsReturn, CtlReturn

LEMMA SteadyInvariance == Spec => [](DriverInv /\ Steady)
<1>1. Init => Steady
  BY DEF Init, Steady, MonitorSteady, NoneYet
<1>2. Steady /\ UNCHANGED vars => Steady'
  BY DEF Steady, MonitorSteady, NoneYet, OneAtATime, Settled, vars, flag_vars, iddcx_vars
<1>3. DriverInv /\ Steady /\ [Next]_vars => Steady'
  BY <1>2, NextSteady
<1> QED
  BY <1>1, <1>3, DriverInvariance, PTL DEF Spec

\* CIndirectDeviceContext.cpp:120,222: across every replug, whatever order the
\* callbacks and the caller of SetResolution take, one monitor is plugged,
\* unless an unassign, a request or a call of IddCx went astray.
THEOREM MonitorAlone == Spec => []NeverTwoMonitors
<1>1. DriverInv /\ Steady => NeverTwoMonitors
  <2> SUFFICES ASSUME DriverInv, Steady, lapse # "astray" PROVE OneMonitor
    BY DEF NeverTwoMonitors
  <2>1. Plugged \subseteq {monitor}
    BY DEF Plugged, Steady, MonitorSteady, NoneYet, OneAtATime, DriverInv, Typed
  <2>2. IsFiniteSet({monitor}) /\ Cardinality({monitor}) = 1
    BY FS_Singleton
  <2>3. IsFiniteSet(Plugged) /\ Cardinality(Plugged) <= 1
    BY <2>1, <2>2, FS_Subset
  <2> QED
    BY <2>3 DEF OneMonitor
<1> QED
  BY <1>1, SteadyInvariance, PTL

\* Between calls the driver has its monitor and still names it.
THEOREM MonitorKept == Spec => []NoMonitorLost
<1>1. DriverInv /\ Steady => NoMonitorLost
  BY DEF NoMonitorLost, Plugged, Steady, MonitorSteady, NoneYet, OneAtATime, Settled, DriverInv,
     Typed
<1> QED
  BY <1>1, SteadyInvariance, PTL

\* m_replugMonitor stands only for a monitor that departed.
THEOREM ReplugAfterDeparture == Spec => []ReplugMeansDeparted
<1>1. DriverInv /\ Steady => ReplugMeansDeparted
  BY DEF ReplugMeansDeparted, Steady, MonitorSteady, NoneYet, OneAtATime, Settled, DriverInv,
     Typed
<1> QED
  BY <1>1, SteadyInvariance, PTL

\* Only a monitor that arrived is given a chain.
AssignedArrived ==
  \A m \in Monitor : assigned[m] # NoChain => plug[m] \in {"arrived", "departed"}

LEMMA NextAssignedArrived == DriverInv /\ AssignedArrived /\ [Next]_vars => AssignedArrived'
<1> SUFFICES ASSUME DriverInv, AssignedArrived, [Next]_vars PROVE AssignedArrived'
  OBVIOUS
<1> USE DEF AssignedArrived, DriverInv, Typed, flag_vars, iddcx_vars
<1>1. ASSUME NEW m \in Monitor, NEW c \in Chain, AssignBegin(m, c) PROVE AssignedArrived'
  BY <1>1 DEF AssignBegin
<1>2. ASSUME NEW t, MonitorCreate(t) PROVE AssignedArrived'
  BY <1>2 DEF MonitorCreate
<1>3. ASSUME NEW t, MonitorArrival(t) PROVE AssignedArrived'
  BY <1>3 DEF MonitorArrival
<1>4. CASE NotifyUnassign
  BY <1>4 DEF NotifyUnassign
<1>5. OsReturn => AssignedArrived'
  BY <1>2, <1>3, <1>4 DEF OsReturn, StopProcessor, JoinProcessor, BuildProcessor, NotifyAssign,
     SendPendingMode, FinishInit
<1>6. CASE MonitorDeparture
  BY <1>6 DEF MonitorDeparture
<1>7. CtlReturn => AssignedArrived'
  BY <1>2, <1>3, <1>6 DEF CtlReturn, SetPopulate, UpdateMonitorModes, ClearPendingMode,
     ArmRecovery, FallBack, ReplugMonitor, FinishInit
<1>8. ASSUME NEW c \in Chain,
             WorkerStep(c) \/ OnSwapChainLost(c) \/ ChainEvent(c) \/ RecycleChain(c)
      PROVE  AssignedArrived'
  BY <1>8 DEF WorkerStep, OnSwapChainLost, ChainEvent, RecycleChain
<1>9. InitAdapter \/ AdapterInitFinished \/ Unassign \/ (\E mode \in Mode : SetResolution(mode))
        => AssignedArrived'
  BY DEF InitAdapter, AdapterInitFinished, Unassign, UnassignBegin, SetResolution
<1>10. CASE UNCHANGED vars
  BY <1>10 DEF vars
<1> QED
  BY <1>1, <1>5, <1>7, <1>8, <1>9, <1>10 DEF Next, Assign

\* A worker that runs serves the one monitor there is, or the one that departed
\* and is still to be unassigned.
LEMMA RunningOnMonitor ==
  ASSUME DriverInv, Steady, AssignedArrived, lapse # "astray",
         NEW c \in Chain, Running(c)
  PROVE  ReplugCanRun
<1> DEFINE m == owner[c]
<1>1. m \in Monitor /\ swapChain[m] = c /\ assigned[m] # NoChain
  BY DEF DriverInv, CustodyInv, ChainsInPlace, MonitorsInPlace
<1>2. plug[m] \in {"arrived", "departed"}
  BY <1>1 DEF AssignedArrived
<1>3. monitor # NoMonitor
  BY <1>1, <1>2 DEF Steady, MonitorSteady, NoneYet
<1>4. m = monitor /\ (plug[m] = "arrived" \/ replugMonitor)
  BY <1>1, <1>2, <1>3 DEF Steady, MonitorSteady, OneAtATime
<1> QED
  BY <1>1, <1>3, <1>4 DEF ReplugCanRun

\* A replug is queued only by such a worker; its monitor loses its chain only in
\* the unassign callback, which clears the flag, and is replaced only after that.
LEMMA NextQueued ==
  DriverInv /\ Steady /\ AssignedArrived /\ QueuedReplugCanRun /\ [Next]_vars
    => QueuedReplugCanRun'
<1> SUFFICES ASSUME DriverInv, Steady, AssignedArrived, QueuedReplugCanRun, [Next]_vars,
                    replugQueued', lapse' # "astray"
             PROVE  ReplugCanRun'
  BY DEF QueuedReplugCanRun
<1> USE DEF DriverInv, Typed, Goto, flag_vars, iddcx_vars
<1>0. ASSUME replugQueued, lapse # "astray" PROVE ReplugCanRun
  BY <1>0 DEF QueuedReplugCanRun
<1>1. CASE UNCHANGED <<replugQueued, replugMonitor, monitor, assigned, plug, lapse>>
  BY <1>0, <1>1 DEF ReplugCanRun
<1>2. ASSUME NEW m \in Monitor, NEW c \in Chain, AssignBegin(m, c) PROVE ReplugCanRun'
  BY <1>0, <1>2 DEF AssignBegin, ReplugCanRun
<1>3. ASSUME NEW t \in Thread, MonitorCreate(t) PROVE FALSE
  BY <1>0, <1>3 DEF MonitorCreate, Lapse, ReplugCanRun, Steady, MonitorSteady, OneAtATime
<1>4. ASSUME NEW t \in Thread, MonitorArrival(t) PROVE FALSE
  BY <1>0, <1>4 DEF MonitorArrival, Lapse, ReplugCanRun, Steady, MonitorSteady, NoneYet, OneAtATime
<1>5. CASE NotifyUnassign
  BY <1>5 DEF NotifyUnassign
<1>6. OsReturn => ReplugCanRun'
  BY <1>1, <1>3, <1>4, <1>5 DEF OsReturn, StopProcessor, JoinProcessor, BuildProcessor,
     NotifyAssign, SendPendingMode, FinishInit
<1>7. CASE MonitorDeparture
  BY <1>0, <1>7 DEF MonitorDeparture, Lapse, ReplugCanRun, Steady, MonitorSteady, OneAtATime, Settled
<1>8. CASE ReplugMonitor
  BY <1>0, <1>8 DEF ReplugMonitor, ReplugCanRun
<1>9. CtlReturn => ReplugCanRun'
  BY <1>1, <1>3, <1>4, <1>7, <1>8 DEF CtlReturn, SetPopulate, UpdateMonitorModes,
     ClearPendingMode, ArmRecovery, FallBack, FinishInit
<1>10. ASSUME NEW c \in Chain, OnSwapChainLost(c) PROVE ReplugCanRun'
  <2>1. Running(c)
    BY <1>10, StepsOnlyRunning DEF OnSwapChainLost
  <2>2. ReplugCanRun
    BY <1>10, <2>1, RunningOnMonitor DEF OnSwapChainLost
  <2> QED
    BY <1>10, <2>2 DEF OnSwapChainLost, ReplugCanRun
<1>11. ASSUME NEW c \in Chain, WorkerStep(c) \/ ChainEvent(c) \/ RecycleChain(c)
       PROVE  ReplugCanRun'
  BY <1>1, <1>11 DEF WorkerStep, ChainEvent, RecycleChain
<1>12. CASE InitAdapter \/ AdapterInitFinished
  BY <1>1, <1>12 DEF InitAdapter, AdapterInitFinished
<1>13. CASE Unassign \/ (\E mode \in Mode : SetResolution(mode))
  BY <1>0, <1>13 DEF Unassign, UnassignBegin, SetResolution, Lapse, ReplugCanRun
<1>14. CASE UNCHANGED vars
  BY <1>1, <1>14 DEF vars
<1> QED
  BY <1>2, <1>6, <1>9, <1>10, <1>11, <1>12, <1>13, <1>14 DEF Next, Assign

\* Device.cpp:200-201 and CIndirectDeviceContext.cpp:266-276: a replug that a
\* worker queued stands for a monitor with a chain, also after the chain that
\* raised it was replaced, so that whoever performed it would find what it needs.
THEOREM QueuedRuns == Spec => []QueuedReplugCanRun
<1>1. Init => AssignedArrived /\ QueuedReplugCanRun
  BY DEF Init, AssignedArrived, QueuedReplugCanRun
<1> QED
  BY <1>1, NextAssignedArrived, NextQueued, SteadyInvariance, PTL DEF Spec

-----------------------------------------------------------------------------
(* Delivery of the mode.                                                   *)

\* Once the call has reloaded the list, it holds its mode.
Loaded ==
  /\ extraMode = setMode
  /\ pc["ctl"] # "populate" => displayModes = setMode

\* The mode was sent, or stands to be: by the call itself, or by the next
\* assignment.
SentOrPending ==
  \/ sent = setMode
  \/ doSetMode
  \/ pc["ctl"] \in {"populate", "update", "disarm", "arm", "fallback"}

\* The monitor offers the mode, or its modes stand to be updated, or a monitor
\* that will ask the reloaded list for its modes takes its place.
OfferedOrReplug ==
  \/ offered[monitor] = setMode
  \/ replugMonitor
  \/ pc["ctl"] \in {"populate", "update", "fallback", "replug"}
  \/ pc["os"] \in {"create", "arrive"}

ModeInFlight ==
  setCalls > 0 /\ lapse = "none" =>
    monitor # NoMonitor /\ Loaded /\ SentOrPending /\ OfferedOrReplug

\* A history that stands at "none" stood there before.
LEMMA NoLapse == ASSUME NEW l \in {"refused", "astray"}, Lapse(l) PROVE lapse' # "none"
  BY DEF Lapse

\* No step drops the mode, unless an event lapses.
LEMMA NextInFlight == DriverInv /\ Steady /\ ModeInFlight /\ Next => ModeInFlight'
<1> SUFFICES ASSUME DriverInv, Steady, ModeInFlight, Next,
                    setCalls' > 0, lapse' = "none"
             PROVE  (monitor # NoMonitor /\ Loaded /\ SentOrPending /\ OfferedOrReplug)'
  BY DEF ModeInFlight
<1> DEFINE Kept == (monitor # NoMonitor /\ Loaded /\ SentOrPending /\ OfferedOrReplug)'
<1> USE DEF DriverInv, Typed, PcTyped, Goto, ModeInFlight, Loaded, SentOrPending,
            OfferedOrReplug, flag_vars, mode_vars, iddcx_vars
<1>1. CASE InitAdapter
  BY <1>1 DEF InitAdapter, PopulateDefaultModes
<1>2. CASE AdapterInitFinished
  BY <1>2 DEF AdapterInitFinished
<1>3. ASSUME NEW m \in Monitor, NEW c \in Chain, AssignBegin(m, c) PROVE Kept
  BY <1>3 DEF AssignBegin
<1>4. ASSUME NEW m \in Monitor, UnassignBegin(m) PROVE Kept
  BY <1>4, NoLapse DEF UnassignBegin
<1>5. CASE \/ StopProcessor("a_stop", "a_join", "a_build")
           \/ StopProcessor("u_stop", "u_join", "u_notify")
  BY <1>5 DEF StopProcessor
<1>6. CASE JoinProcessor("a_join", "a_build") \/ JoinProcessor("u_join", "u_notify")
  BY <1>6 DEF JoinProcessor
<1>7. CASE BuildProcessor
  BY <1>7 DEF BuildProcessor
<1>8. CASE NotifyAssign
  BY <1>8 DEF NotifyAssign
<1>9. CASE SendPendingMode
  BY <1>9 DEF SendPendingMode
<1>10. CASE NotifyUnassign
  BY <1>10 DEF NotifyUnassign
<1>11. ASSUME NEW t \in Thread, MonitorCreate(t) PROVE Kept
  BY <1>11, NoLapse DEF MonitorCreate, Steady, MonitorSteady, OneAtATime
<1>12. ASSUME NEW t \in Thread, MonitorArrival(t) PROVE Kept
  BY <1>12, NoLapse DEF MonitorArrival, Steady, MonitorSteady
<1>13. ASSUME NEW mode \in Mode, SetResolution(mode) PROVE Kept
  BY <1>13, NoLapse DEF SetResolution, Replugable
<1>14. CASE SetPopulate
  BY <1>14 DEF SetPopulate, PopulateDefaultModes
<1>15. CASE UpdateMonitorModes
  BY <1>15 DEF UpdateMonitorModes
<1>16. CASE ClearPendingMode \/ ArmRecovery \/ FallBack
  BY <1>16 DEF ClearPendingMode, ArmRecovery, FallBack
<1>17. CASE ReplugMonitor
  BY <1>17 DEF ReplugMonitor
<1>18. CASE MonitorDeparture
  BY <1>18, NoLapse DEF MonitorDeparture
<1>19. ASSUME NEW c \in Chain, WorkerStep(c) \/ ChainEvent(c) PROVE Kept
  BY <1>19 DEF WorkerStep, ChainEvent
<1>20. ASSUME NEW c \in Chain, OnSwapChainLost(c) PROVE Kept
  BY <1>20 DEF OnSwapChainLost
<1>21. ASSUME NEW c \in Chain, RecycleChain(c) PROVE Kept
  BY <1>21 DEF RecycleChain
<1>22. FinishInit("os") \/ FinishInit("ctl") => Kept
  BY <1>11, <1>12 DEF FinishInit
<1> QED
  BY <1>1, <1>2, <1>3, <1>4, <1>5, <1>6, <1>7, <1>8, <1>9, <1>10, <1>11, <1>12, <1>13,
     <1>14, <1>15, <1>16, <1>17, <1>18, <1>19, <1>20, <1>21, <1>22
     DEF Next, Assign, Unassign, OsReturn, CtlReturn

\* Whatever the callbacks and the workers do between the statements of
\* SetResolution, and however often it is called again, the mode last asked for
\* has been offered and sent when all is quiet.
THEOREM QuietDelivered == Spec => []DeliveredWhenQuiet
<1>1. Init => ModeInFlight
  BY DEF Init, ModeInFlight
<1>2. ModeInFlight /\ UNCHANGED vars => ModeInFlight'
  BY DEF ModeInFlight, Loaded, SentOrPending, OfferedOrReplug, vars, flag_vars, mode_vars,
         iddcx_vars
<1>3. DriverInv /\ Steady /\ ModeInFlight /\ [Next]_vars => ModeInFlight'
  BY <1>2, NextInFlight
<1>4. DriverInv /\ Steady /\ ModeInFlight => DeliveredWhenQuiet
  <2> SUFFICES ASSUME DriverInv, Steady, ModeInFlight, setCalls > 0, lapse = "none",
                      ~replugMonitor, ~doSetMode, pc["os"] = "idle", pc["ctl"] = "idle"
               PROVE  Delivered
    BY DEF DeliveredWhenQuiet
  <2>1. offered[monitor] = setMode /\ sent = setMode /\ monitor # NoMonitor
    BY DEF ModeInFlight, SentOrPending, OfferedOrReplug
  <2>2. Plugged = {monitor}
    BY <2>1 DEF Plugged, Steady, MonitorSteady, OneAtATime, Settled, DriverInv, Typed
  <2> QED
    BY <2>1, <2>2 DEF Delivered
<1> QED
  BY <1>1, <1>3, <1>4, SteadyInvariance, PTL DEF Spec

=============================================================================
