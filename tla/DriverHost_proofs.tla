-------------------------- MODULE DriverHost_proofs --------------------------
(***************************************************************************)
(* The process that hosts the driver, for any number of device nodes, logs *)
(* and starts.                                                             *)
(***************************************************************************)
EXTENDS DriverHost, LogRotation_proofs

USE DeviceAssumption DEF DeviceAssumption

\* From AddDevice to the cleanup there is a device context, but for the first
\* part of AddDevice.
Initialized == {"added", "entering", "started"}
Present == Initialized \cup {"refused"}

\* TypeOK without the log, one variable at a time.
Typed ==
  /\ l_wdfDevice \in Device \cup {NoDevice}
  /\ stage \in [Device -> Stage]
  /\ adapter \in [Device -> {"none", "pending", "finishing", "done"}]
  /\ monitor \in [Device -> {"none", "created", "arrived"}]
  /\ answer \in [Device -> {"unasked", "own", "other", "refused"}]
  /\ context \in [Device -> BOOLEAN] /\ bound \in [Device -> BOOLEAN]
  /\ held \in [Device -> BOOLEAN] /\ assigned \in [Device -> BOOLEAN]
  /\ worker \in [Device -> BOOLEAN] /\ registered \in [Device -> BOOLEAN]
  /\ fp16 \in [Device -> BOOLEAN]
  /\ version \in BOOLEAN /\ functions \in BOOLEAN /\ shared \in BOOLEAN
  /\ fault \in Callback \cup {"none"}

\* What there is of a node rests on what it was made from: a worker on an
\* assigned chain, that on an announced monitor with its context, that on an
\* adapter with its wrapper, that on a device with its context.
Chained(d) ==
  /\ pc # "up" => stage[d] = "none"
  /\ context[d] <=> stage[d] \in Present
  /\ adapter[d] # "none" => stage[d] \in Initialized
  /\ bound[d] \/ stage[d] = "entering" => adapter[d] # "none"
  /\ monitor[d] # "none" => adapter[d] \in {"finishing", "done"} /\ held[d]
  /\ assigned[d] => monitor[d] = "arrived"
  /\ worker[d] => assigned[d]
  /\ answer[d] # "unasked" => monitor[d] = "arrived"

\* What AddDevice registered follows from what InitAdapter will find.
Registered(d) ==
  /\ stage[d] \in Present \cup {"created"} => registered[d] = CanUse110
  /\ fp16[d] => stage[d] \in Initialized /\ CanUse110

\* Unless there were two at once, the global names the one node there is.
Cached(d) ==
  /\ stage[d] \in Present \cup {"created"} => l_wdfDevice = d
  /\ stage[d] # "none" => \A e \in Device : stage[e] # "none" => e = d

NodesChained    == \A d \in Device : Chained(d)
NodesRegistered == \A d \in Device : Registered(d)
AloneCached     == shared \/ \A d \in Device : Cached(d)

HostInv ==
  /\ Typed /\ NodesChained /\ NodesRegistered /\ AloneCached
  /\ NoBadPointer /\ AloneAnsweredByOwn

-----------------------------------------------------------------------------

\* The process that starts is without nodes.
LEMMA HostInvInit == Init => HostInv
<1> SUFFICES ASSUME Init PROVE HostInv
  OBVIOUS
<1>1. Typed
  BY DEF Init, Everywhere, Typed, Stage
<1>2. NodesChained
  BY DEF Init, LogInit, Everywhere, NodesChained, Chained, Present, Initialized
<1>3. NodesRegistered
  BY DEF Init, Everywhere, NodesRegistered, Registered, Present, Initialized
<1>4. AloneCached
  BY DEF Init, Everywhere, AloneCached, Cached, Present, Initialized
<1>5. NoBadPointer /\ AloneAnsweredByOwn
  BY DEF Init, Everywhere, NoBadPointer, AloneAnsweredByOwn, AnsweredByOwn
<1> QED
  BY <1>1, <1>2, <1>3, <1>4, <1>5 DEF HostInv

\* When the process ends nothing of the nodes is left.
LEMMA DieKeeps ==
  ASSUME Typed, Die
  PROVE  /\ NodesChained' /\ NodesRegistered' /\ AloneCached' /\ AloneAnsweredByOwn'
         /\ shared' \in BOOLEAN /\ fault' \in Callback \cup {"none"} => Typed'
<1>1. pc' = "off"
  BY DEF Die, EndHost
<1>2. NodesChained'
  BY <1>1 DEF Die, Everywhere, NodesChained, Chained, Present, Initialized
<1>3. NodesRegistered'
  BY DEF Die, Everywhere, NodesRegistered, Registered, Present, Initialized
<1>4. AloneCached'
  BY DEF Die, Everywhere, AloneCached, Cached, Present, Initialized
<1>5. AloneAnsweredByOwn'
  BY DEF Die, Everywhere, AloneAnsweredByOwn, AnsweredByOwn
<1>6. shared' \in BOOLEAN /\ fault' \in Callback \cup {"none"} => Typed'
  BY DEF Die, Everywhere, Typed, Stage
<1> QED
  BY <1>2, <1>3, <1>4, <1>5, <1>6

\* Every step keeps the types.
LEMMA TypedKept == Typed /\ Next => Typed'
<1> SUFFICES ASSUME Typed, Next PROVE Typed'
  OBVIOUS
<1> USE DEF Typed, Stage
<1>1. CASE Start
  BY <1>1 DEF Start, StartHost, node_vars
<1>2. CASE InitLog \/ CreateDriver
  BY <1>2 DEF InitLog, CreateDriver, DeleteOldest, MoveLog, OpenLog, GoOn, node_vars, ddi_vars
<1>3. CASE Exit
  BY <1>3, DieKeeps DEF Exit
<1>4. ASSUME NEW d \in Device, PnP(d) \/ IddCx(d) \/ ReportLost(d)
      PROVE  Typed'
  <2>1. CASE CreateDevice(d)
    <3>1. CanUse110 \in BOOLEAN /\ shared' \in BOOLEAN
      BY <2>1 DEF CreateDevice, CanUse110
    <3>2. registered' \in [Device -> BOOLEAN]
      BY <2>1, <3>1 DEF CreateDevice
    <3>3. stage' \in [Device -> Stage]
      BY <2>1 DEF CreateDevice
    <3> QED
      BY <2>1, <3>1, <3>2, <3>3 DEF CreateDevice, Keep
  <2>2. CASE InitializeDevice(d)
    BY <2>2 DEF InitializeDevice, Up, Keep, Arrived, log_vars
  <2>3. CASE InitAdapter(d)
    <3>1. PICK capable \in BOOLEAN :
            \/ /\ fp16' \in {[fp16 EXCEPT ![d] = b] : b \in {capable, FALSE}}
               /\ stage' = [stage EXCEPT ![d] = "entering"]
               /\ adapter' = [adapter EXCEPT ![d] = "pending"]
            \/ /\ fp16' = [fp16 EXCEPT ![d] = FALSE]
               /\ stage' = [stage EXCEPT ![d] = "started"]
               /\ UNCHANGED adapter
      BY <2>3 DEF InitAdapter
    <3>2. \E b \in BOOLEAN : fp16' = [fp16 EXCEPT ![d] = b]
      <4>1. {capable, FALSE} \subseteq BOOLEAN
        OBVIOUS
      <4>2. CASE fp16' \in {[fp16 EXCEPT ![d] = b] : b \in {capable, FALSE}}
        <5>1. PICK b \in {capable, FALSE} : fp16' = [fp16 EXCEPT ![d] = b]
          BY <4>2, Zenon
        <5> QED
          BY <4>1, <5>1, Zenon
      <4>3. CASE fp16' = [fp16 EXCEPT ![d] = FALSE]
        BY <4>3, Zenon
      <4> QED
        BY <3>1, <4>2, <4>3, Zenon
    <3>3. fp16' \in [Device -> BOOLEAN]
      BY <3>2
    <3>4. /\ stage' \in [Device -> Stage]
          /\ adapter' \in [Device -> {"none", "pending", "finishing", "done"}]
      BY <3>1
    <3> QED
      BY <2>3, <3>3, <3>4 DEF InitAdapter, Keep
  <2>4. CASE BindAdapter(d)
    BY <2>4 DEF BindAdapter, Up, Keep, Arrived, log_vars
  <2>5. CASE PowerDown(d)
    BY <2>5 DEF PowerDown, Up, Keep, Arrived, log_vars
  <2>6. CASE CleanupDevice(d)
    BY <2>6 DEF CleanupDevice, Up, Keep, Arrived, log_vars
  <2>7. CASE ForgetDevice(d)
    BY <2>7 DEF ForgetDevice, Up, Keep, Arrived, log_vars
  <2>8. CASE CreateMonitor(d)
    BY <2>8 DEF CreateMonitor, Up, Keep, Arrived, log_vars
  <2>9. CASE AnnounceMonitor(d)
    BY <2>9 DEF AnnounceMonitor, Up, Keep, Arrived, log_vars
  <2>10. CASE UnassignSwapChain(d)
    BY <2>10 DEF UnassignSwapChain, Up, Keep, Arrived, log_vars
  <2>11. CASE AdapterInitFinished(d)
    BY <2>11, DieKeeps DEF AdapterInitFinished, Up, Keep, Arrived, log_vars, Fault, Callback
  <2>12. CASE ParseMonitorDescription(d)
    BY <2>12, DieKeeps DEF ParseMonitorDescription, Up, Keep, Arrived, log_vars, Fault, Callback
  <2>13. CASE MonitorCallback(d)
    BY <2>13, DieKeeps DEF MonitorCallback, Up, Keep, Arrived, log_vars, Fault, Callback
  <2>14. CASE ReportLost(d)
    <3>1. CASE Fault("OnSwapChainLost")
      BY <3>1, DieKeeps DEF Fault, Callback
    <3>2. CASE worker' = [worker EXCEPT ![d] = FALSE] /\ ~Fault("OnSwapChainLost")
      BY <2>14, <3>2 DEF ReportLost, Keep
    <3> QED
      BY <2>14, <3>1, <3>2 DEF ReportLost
  <2> QED
    BY <1>4, <2>1, <2>2, <2>3, <2>4, <2>5, <2>6, <2>7, <2>8, <2>9, <2>10, <2>11, <2>12,
       <2>13, <2>14 DEF PnP, IddCx
<1> QED
  BY <1>1, <1>2, <1>3, <1>4 DEF Next

\* Nothing is taken away while something rests on it.
LEMMA ChainedKept == Typed /\ NodesChained /\ Next => NodesChained'
<1> SUFFICES ASSUME Typed, NodesChained, Next PROVE NodesChained'
  OBVIOUS
<1> USE DEF Typed, NodesChained, Chained, Present, Initialized
<1>1. CASE Start
  BY <1>1 DEF Start, StartHost, node_vars
<1>2. CASE InitLog \/ CreateDriver
  BY <1>2 DEF InitLog, CreateDriver, DeleteOldest, MoveLog, OpenLog, GoOn, node_vars, ddi_vars
<1>3. CASE Exit
  BY <1>3, DieKeeps DEF Exit
<1>4. ASSUME NEW d \in Device, PnP(d) \/ IddCx(d) \/ ReportLost(d)
      PROVE  NodesChained'
  <2>1. CASE CreateDevice(d)
    BY <2>1 DEF CreateDevice, Up, Keep, Arrived, log_vars
  <2>2. CASE InitializeDevice(d)
    BY <2>2 DEF InitializeDevice, Up, Keep, Arrived, log_vars
  <2>3. CASE InitAdapter(d)
    BY <2>3 DEF InitAdapter, Up, Keep, Arrived, log_vars
  <2>4. CASE BindAdapter(d)
    BY <2>4 DEF BindAdapter, Up, Keep, Arrived, log_vars
  <2>5. CASE PowerDown(d)
    BY <2>5 DEF PowerDown, Up, Keep, Arrived, log_vars
  <2>6. CASE CleanupDevice(d)
    BY <2>6 DEF CleanupDevice, Up, Keep, Arrived, log_vars
  <2>7. CASE ForgetDevice(d)
    BY <2>7 DEF ForgetDevice, Up, Keep, Arrived, log_vars
  <2>8. CASE CreateMonitor(d)
    BY <2>8 DEF CreateMonitor, Up, Keep, Arrived, log_vars
  <2>9. CASE AnnounceMonitor(d)
    BY <2>9 DEF AnnounceMonitor, Up, Keep, Arrived, log_vars
  <2>10. CASE UnassignSwapChain(d)
    BY <2>10 DEF UnassignSwapChain, Up, Keep, Arrived, log_vars
  <2>11. CASE AdapterInitFinished(d)
    BY <2>11, DieKeeps DEF AdapterInitFinished, Up, Keep, Arrived, log_vars, Fault, Callback
  <2>12. CASE ParseMonitorDescription(d)
    BY <2>12, DieKeeps DEF ParseMonitorDescription, Up, Keep, Arrived, log_vars, Fault, Callback
  <2>13. CASE MonitorCallback(d)
    BY <2>13, DieKeeps DEF MonitorCallback, Up, Keep, Arrived, log_vars, Fault, Callback
  <2>14. CASE ReportLost(d)
    BY <2>14, DieKeeps DEF ReportLost, Up, Keep, Arrived, log_vars, Fault, Callback
  <2> QED
    BY <1>4, <2>1, <2>2, <2>3, <2>4, <2>5, <2>6, <2>7, <2>8, <2>9, <2>10, <2>11, <2>12,
       <2>13, <2>14 DEF PnP, IddCx
<1> QED
  BY <1>1, <1>2, <1>3, <1>4 DEF Next

\* An assignment to one place of a function leaves the others.
LEMMA OneChanged ==
  ASSUME NEW S, NEW f, DOMAIN f = S, NEW x \in S, NEW v
  PROVE  /\ [f EXCEPT ![x] = v][x] = v
         /\ \A y \in S : y # x => [f EXCEPT ![x] = v][y] = f[y]
OBVIOUS

\* IddCx is only replaced while there are no nodes.
LEMMA RegisteredKept ==
  Typed /\ NodesChained /\ NodesRegistered /\ Next => NodesRegistered'
<1> SUFFICES ASSUME Typed, NodesChained, NodesRegistered, Next PROVE NodesRegistered'
  OBVIOUS
<1> USE DEF Typed, NodesChained, Chained, NodesRegistered, Registered, CanUse110,
            Present, Initialized
<1>1. CASE Start
  BY <1>1 DEF Start, StartHost, node_vars
<1>2. CASE InitLog \/ CreateDriver
  BY <1>2 DEF InitLog, CreateDriver, DeleteOldest, MoveLog, OpenLog, GoOn, node_vars, ddi_vars
<1>3. CASE Exit
  BY <1>3, DieKeeps DEF Exit
<1>4. ASSUME NEW d \in Device, PnP(d) \/ IddCx(d) \/ ReportLost(d)
      PROVE  NodesRegistered'
  <2>1. CASE CreateDevice(d)
    BY <2>1 DEF CreateDevice, Up, Keep, Arrived, log_vars
  <2>2. CASE InitializeDevice(d)
    BY <2>2 DEF InitializeDevice, Up, Keep, Arrived, log_vars
  <2>3. CASE InitAdapter(d)
    <3>1. PICK capable \in BOOLEAN :
            /\ QueryCapabilities(capable)
            /\ \/ /\ fp16' \in {[fp16 EXCEPT ![d] = b] : b \in {capable, FALSE}}
                  /\ stage' = [stage EXCEPT ![d] = "entering"]
               \/ /\ fp16' = [fp16 EXCEPT ![d] = FALSE]
                  /\ stage' = [stage EXCEPT ![d] = "started"]
      BY <2>3 DEF InitAdapter
    <3>2. PICK b \in {capable, FALSE} : fp16' = [fp16 EXCEPT ![d] = b]
      BY <3>1, Zenon
    <3>3. b => CanUse110
      BY <3>1, <3>2, Zenon DEF QueryCapabilities
    <3>4. fp16'[d] = b /\ \A e \in Device : e # d => fp16'[e] = fp16[e]
      <4>1. fp16 \in [Device -> BOOLEAN]
        OBVIOUS
      <4> QED
        BY ONLY <3>2, <4>1, OneChanged, d \in Device
    <3>5. stage'[d] \in Initialized /\ \A e \in Device : e # d => stage'[e] = stage[e]
      BY <3>1
    <3>6. stage[d] = "added" /\ UNCHANGED <<version, functions, registered>>
      BY <2>3 DEF InitAdapter, Up, Keep
    <3> SUFFICES ASSUME NEW e \in Device PROVE Registered(e)'
      OBVIOUS
    <3>7. CASE e = d
      BY <3>3, <3>4, <3>5, <3>6, <3>7
    <3>8. CASE e # d
      BY <3>4, <3>5, <3>6, <3>8
    <3> QED
      BY <3>7, <3>8
  <2>4. CASE BindAdapter(d)
    BY <2>4 DEF BindAdapter, Up, Keep, Arrived, log_vars
  <2>5. CASE PowerDown(d)
    BY <2>5 DEF PowerDown, Up, Keep, Arrived, log_vars
  <2>6. CASE CleanupDevice(d)
    BY <2>6 DEF CleanupDevice, Up, Keep, Arrived, log_vars
  <2>7. CASE ForgetDevice(d)
    BY <2>7 DEF ForgetDevice, Up, Keep, Arrived, log_vars
  <2>8. CASE CreateMonitor(d)
    BY <2>8 DEF CreateMonitor, Up, Keep, Arrived, log_vars
  <2>9. CASE AnnounceMonitor(d)
    BY <2>9 DEF AnnounceMonitor, Up, Keep, Arrived, log_vars
  <2>10. CASE UnassignSwapChain(d)
    BY <2>10 DEF UnassignSwapChain, Up, Keep, Arrived, log_vars
  <2>11. CASE AdapterInitFinished(d)
    BY <2>11, DieKeeps DEF AdapterInitFinished, Up, Keep, Arrived, log_vars, Fault
  <2>12. CASE ParseMonitorDescription(d)
    BY <2>12, DieKeeps DEF ParseMonitorDescription, Up, Keep, Arrived, log_vars, Fault
  <2>13. CASE MonitorCallback(d)
    BY <2>13, DieKeeps DEF MonitorCallback, Up, Keep, Arrived, log_vars, Fault
  <2>14. CASE ReportLost(d)
    BY <2>14, DieKeeps DEF ReportLost, Up, Keep, Arrived, log_vars, Fault
  <2> QED
    BY <1>4, <2>1, <2>2, <2>3, <2>4, <2>5, <2>6, <2>7, <2>8, <2>9, <2>10, <2>11, <2>12,
       <2>13, <2>14 DEF PnP, IddCx
<1> QED
  BY <1>1, <1>2, <1>3, <1>4 DEF Next

\* The cleanup of the one node there is clears only its own entry.
LEMMA CachedKept == Typed /\ NodesChained /\ AloneCached /\ Next => AloneCached'
<1> SUFFICES ASSUME Typed, NodesChained, AloneCached, Next PROVE AloneCached'
  OBVIOUS
<1> USE DEF Typed, NodesChained, Chained, AloneCached, Cached, Present, Initialized
<1>1. CASE Start
  BY <1>1 DEF Start, StartHost, node_vars
<1>2. CASE InitLog \/ CreateDriver
  BY <1>2 DEF InitLog, CreateDriver, DeleteOldest, MoveLog, OpenLog, GoOn, node_vars, ddi_vars
<1>3. CASE Exit
  BY <1>3, DieKeeps DEF Exit
<1>4. ASSUME NEW d \in Device, PnP(d) \/ IddCx(d) \/ ReportLost(d)
      PROVE  AloneCached'
  <2>1. CASE CreateDevice(d)
    <3>1. CASE shared'
      BY <3>1
    <3>2. CASE ~shared'
      <4>1. \A e \in Device : stage[e] = "none"
        BY <2>1, <3>2 DEF CreateDevice
      <4>2. l_wdfDevice' = d /\ stage' = [stage EXCEPT ![d] = "created"]
        BY <2>1 DEF CreateDevice
      <4>3. \A e \in Device : e # d => stage'[e] = "none"
        BY <4>1, <4>2
      <4> QED
        BY <4>2, <4>3
    <3> QED
      BY <3>1, <3>2
  <2>2. CASE InitializeDevice(d)
    BY <2>2 DEF InitializeDevice, Up, Keep, Arrived, log_vars
  <2>3. CASE InitAdapter(d)
    BY <2>3 DEF InitAdapter, Up, Keep, Arrived, log_vars
  <2>4. CASE BindAdapter(d)
    BY <2>4 DEF BindAdapter, Up, Keep, Arrived, log_vars
  <2>5. CASE PowerDown(d)
    BY <2>5 DEF PowerDown, Up, Keep, Arrived, log_vars
  <2>6. CASE CleanupDevice(d)
    BY <2>6 DEF CleanupDevice, Up, Keep, Arrived, log_vars
  <2>7. CASE ForgetDevice(d)
    BY <2>7 DEF ForgetDevice, Up, Keep, Arrived, log_vars
  <2>8. CASE CreateMonitor(d)
    BY <2>8 DEF CreateMonitor, Up, Keep, Arrived, log_vars
  <2>9. CASE AnnounceMonitor(d)
    BY <2>9 DEF AnnounceMonitor, Up, Keep, Arrived, log_vars
  <2>10. CASE UnassignSwapChain(d)
    BY <2>10 DEF UnassignSwapChain, Up, Keep, Arrived, log_vars
  <2>11. CASE AdapterInitFinished(d)
    BY <2>11, DieKeeps DEF AdapterInitFinished, Up, Keep, Arrived, log_vars, Fault
  <2>12. CASE ParseMonitorDescription(d)
    BY <2>12, DieKeeps DEF ParseMonitorDescription, Up, Keep, Arrived, log_vars, Fault
  <2>13. CASE MonitorCallback(d)
    BY <2>13, DieKeeps DEF MonitorCallback, Up, Keep, Arrived, log_vars, Fault
  <2>14. CASE ReportLost(d)
    BY <2>14, DieKeeps DEF ReportLost, Up, Keep, Arrived, log_vars, Fault
  <2> QED
    BY <1>4, <2>1, <2>2, <2>3, <2>4, <2>5, <2>6, <2>7, <2>8, <2>9, <2>10, <2>11, <2>12,
       <2>13, <2>14 DEF PnP, IddCx
<1> QED
  BY <1>1, <1>2, <1>3, <1>4 DEF Next

\* A callback that goes through a pointer finds what it points to.
LEMMA PointersKept ==
  Typed /\ NodesChained /\ AloneCached /\ NoBadPointer /\ Next => NoBadPointer'
<1> SUFFICES ASSUME Typed, NodesChained, AloneCached, NoBadPointer, Next
             PROVE  NoBadPointer'
  OBVIOUS
<1> USE DEF Typed, NodesChained, Chained, AloneCached, Cached, Present, Initialized,
            NoBadPointer
<1>1. CASE Start
  BY <1>1 DEF Start, StartHost, node_vars
<1>2. CASE InitLog \/ CreateDriver
  BY <1>2 DEF InitLog, CreateDriver, DeleteOldest, MoveLog, OpenLog, GoOn, node_vars, ddi_vars
<1>3. CASE Exit
  BY <1>3 DEF Exit
<1>4. ASSUME NEW d \in Device, PnP(d) \/ IddCx(d) \/ ReportLost(d)
      PROVE  NoBadPointer'
  <2>1. CASE CreateDevice(d)
    BY <2>1 DEF CreateDevice, Up, Keep, Arrived, log_vars
  <2>2. CASE InitializeDevice(d)
    BY <2>2 DEF InitializeDevice, Up, Keep, Arrived, log_vars
  <2>3. CASE InitAdapter(d)
    BY <2>3 DEF InitAdapter, Up, Keep, Arrived, log_vars
  <2>4. CASE BindAdapter(d)
    BY <2>4 DEF BindAdapter, Up, Keep, Arrived, log_vars
  <2>5. CASE PowerDown(d)
    BY <2>5 DEF PowerDown, Up, Keep, Arrived, log_vars
  <2>6. CASE CleanupDevice(d)
    BY <2>6 DEF CleanupDevice, Up, Keep, Arrived, log_vars
  <2>7. CASE ForgetDevice(d)
    BY <2>7 DEF ForgetDevice, Up, Keep, Arrived, log_vars
  <2>8. CASE CreateMonitor(d)
    BY <2>8 DEF CreateMonitor, Up, Keep, Arrived, log_vars
  <2>9. CASE AnnounceMonitor(d)
    BY <2>9 DEF AnnounceMonitor, Up, Keep, Arrived, log_vars
  <2>10. CASE UnassignSwapChain(d)
    BY <2>10 DEF UnassignSwapChain, Up, Keep, Arrived, log_vars
  <2>11. CASE AdapterInitFinished(d)
    BY <2>11 DEF AdapterInitFinished, Up, Keep, Arrived, log_vars, Fault
  <2>12. CASE ParseMonitorDescription(d)
    BY <2>12 DEF ParseMonitorDescription, Up, Keep, Arrived, log_vars, Fault
  <2>13. CASE MonitorCallback(d)
    BY <2>13 DEF MonitorCallback, Up, Keep, Arrived, log_vars, Fault
  <2>14. CASE ReportLost(d)
    BY <2>14 DEF ReportLost, Up, Keep, Arrived, log_vars, Fault
  <2> QED
    BY <1>4, <2>1, <2>2, <2>3, <2>4, <2>5, <2>6, <2>7, <2>8, <2>9, <2>10, <2>11, <2>12,
       <2>13, <2>14 DEF PnP, IddCx
<1> QED
  BY <1>1, <1>2, <1>3, <1>4 DEF Next

\* A node that is alone finds itself in the global.
LEMMA AnswersKept ==
  Typed /\ NodesChained /\ AloneCached /\ AloneAnsweredByOwn /\ Next => AloneAnsweredByOwn'
<1> SUFFICES ASSUME Typed, NodesChained, AloneCached, AloneAnsweredByOwn, Next
             PROVE  AloneAnsweredByOwn'
  OBVIOUS
<1> USE DEF Typed, NodesChained, Chained, AloneCached, Cached, Present, Initialized,
            AloneAnsweredByOwn, AnsweredByOwn
<1>1. CASE Start
  BY <1>1 DEF Start, StartHost, node_vars
<1>2. CASE InitLog \/ CreateDriver
  BY <1>2 DEF InitLog, CreateDriver, DeleteOldest, MoveLog, OpenLog, GoOn, node_vars, ddi_vars
<1>3. CASE Exit
  BY <1>3, DieKeeps DEF Exit
<1>4. ASSUME NEW d \in Device, PnP(d) \/ IddCx(d) \/ ReportLost(d)
      PROVE  AloneAnsweredByOwn'
  <2>1. CASE CreateDevice(d)
    BY <2>1 DEF CreateDevice, Up, Keep, Arrived, log_vars
  <2>2. CASE InitializeDevice(d)
    BY <2>2 DEF InitializeDevice, Up, Keep, Arrived, log_vars
  <2>3. CASE InitAdapter(d)
    BY <2>3 DEF InitAdapter, Up, Keep, Arrived, log_vars
  <2>4. CASE BindAdapter(d)
    BY <2>4 DEF BindAdapter, Up, Keep, Arrived, log_vars
  <2>5. CASE PowerDown(d)
    BY <2>5 DEF PowerDown, Up, Keep, Arrived, log_vars
  <2>6. CASE CleanupDevice(d)
    BY <2>6 DEF CleanupDevice, Up, Keep, Arrived, log_vars
  <2>7. CASE ForgetDevice(d)
    BY <2>7 DEF ForgetDevice, Up, Keep, Arrived, log_vars
  <2>8. CASE CreateMonitor(d)
    BY <2>8 DEF CreateMonitor, Up, Keep, Arrived, log_vars
  <2>9. CASE AnnounceMonitor(d)
    BY <2>9 DEF AnnounceMonitor, Up, Keep, Arrived, log_vars
  <2>10. CASE UnassignSwapChain(d)
    BY <2>10 DEF UnassignSwapChain, Up, Keep, Arrived, log_vars
  <2>11. CASE AdapterInitFinished(d)
    BY <2>11, DieKeeps DEF AdapterInitFinished, Up, Keep, Arrived, log_vars, Fault
  <2>12. CASE ParseMonitorDescription(d)
    BY <2>12, DieKeeps DEF ParseMonitorDescription, Up, Keep, Arrived, log_vars, Fault
  <2>13. CASE MonitorCallback(d)
    BY <2>13, DieKeeps DEF MonitorCallback, Up, Keep, Arrived, log_vars, Fault
  <2>14. CASE ReportLost(d)
    BY <2>14, DieKeeps DEF ReportLost, Up, Keep, Arrived, log_vars, Fault
  <2> QED
    BY <1>4, <2>1, <2>2, <2>3, <2>4, <2>5, <2>6, <2>7, <2>8, <2>9, <2>10, <2>11, <2>12,
       <2>13, <2>14 DEF PnP, IddCx
<1> QED
  BY <1>1, <1>2, <1>3, <1>4 DEF Next

\* The six together are inductive.
LEMMA HostInvKept == HostInv /\ [Next]_vars => HostInv'
<1>1. CASE Next
  BY <1>1, TypedKept, ChainedKept, RegisteredKept, CachedKept, PointersKept, AnswersKept
     DEF HostInv
<1>2. CASE UNCHANGED vars
  BY <1>2 DEF vars, log_vars, node_vars, ddi_vars, HostInv, Typed, NodesChained, Chained,
              NodesRegistered, Registered, CanUse110, AloneCached, Cached,
              NoBadPointer, AloneAnsweredByOwn, AnsweredByOwn
<1> QED
  BY <1>1, <1>2

\* The host process, whatever its nodes do and wherever it ends.
LEMMA HostInvariance == Spec => []HostInv
  BY HostInvInit, HostInvKept, PTL DEF Spec

\* A step of the host is a step of the log's, or leaves the log alone.
LEMMA HostStepIsLogStep == [Next]_vars => [LogNext]_log_vars
<1>1. CASE Next
  <2>1. CASE Start \/ InitLog \/ CreateDriver
    BY <2>1 DEF Start, InitLog, CreateDriver, LogNext
  <2>2. CASE Exit
    BY <2>2 DEF Exit, Die, LogNext
  <2>3. ASSUME NEW d \in Device, PnP(d) PROVE UNCHANGED log_vars
    BY <2>3 DEF PnP, CreateDevice, InitializeDevice, InitAdapter, BindAdapter, PowerDown,
                CleanupDevice, ForgetDevice, Keep
  <2>4. ASSUME NEW d \in Device, IddCx(d) \/ ReportLost(d)
        PROVE  EndHost \/ UNCHANGED log_vars
    BY <2>4 DEF IddCx, AdapterInitFinished, CreateMonitor, AnnounceMonitor,
                ParseMonitorDescription, MonitorCallback, UnassignSwapChain, ReportLost,
                Keep, Fault, Die
  <2> QED
    BY <1>1, <2>1, <2>2, <2>3, <2>4 DEF Next, LogNext
<1>2. CASE UNCHANGED vars
  BY <1>2 DEF vars
<1> QED
  BY <1>1, <1>2

-----------------------------------------------------------------------------

\* The log of the host process behaves as the rotation alone does, so that what
\* is proved of LogSpec holds of the host.
THEOREM HostRotatesLogs == Spec => LogSpec
<1>1. Init => LogInit
  BY DEF Init
<1> QED
  BY <1>1, HostStepIsLogStep, PTL DEF Spec, LogSpec

\* Nothing the nodes of the process do to it costs a log but the oldest.
THEOREM HostKeepsLogs == Spec => []InOrder /\ []OverwriteMeansStuck /\ OldestGoesFirst
  BY HostRotatesLogs, LogsInOrder, OverwrittenWhenStuck, OldestFirst, PTL

\* Every variable keeps its type.
THEOREM HostTypeCorrect == Spec => []TypeOK
<1>1. HostInv /\ LogTypeOK => TypeOK
  BY DEF HostInv, Typed, TypeOK
<1> QED
  BY <1>1, HostInvariance, HostRotatesLogs, LogTypeCorrect, PTL

\* The process ends on a bad pointer only in AdapterInitFinished, or in
\* ParseMonitorDescription when it has had two nodes: no worker outlives its
\* device context, no monitor is called back without one.
THEOREM PointersGood == Spec => []NoBadPointer
<1>1. HostInv => NoBadPointer
  BY DEF HostInv
<1> QED
  BY <1>1, HostInvariance, PTL

\* FP16 is used only where the callbacks of 1.10 were registered.
THEOREM HdrCallbacks == Spec => []HdrHasItsCallbacks
<1>1. HostInv => HdrHasItsCallbacks
  BY DEF HostInv, NodesRegistered, Registered, HdrHasItsCallbacks, Present
<1> QED
  BY <1>1, HostInvariance, PTL

\* A node that never shared its process is answered by its own device context.
THEOREM AloneAnswered == Spec => []AloneAnsweredByOwn
<1>1. HostInv => AloneAnsweredByOwn
  BY DEF HostInv
<1> QED
  BY <1>1, HostInvariance, PTL

=============================================================================
