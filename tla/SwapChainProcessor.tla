------------------------- MODULE SwapChainProcessor -------------------------
(***************************************************************************)
(* CSwapChainProcessor (driver/CSwapChainProcessor.cpp): the object that   *)
(* serves one swap chain.  Its constructor starts a worker thread, the     *)
(* worker acquires frames until it is told to stop or the chain fails and  *)
(* then deletes the chain, and the destructor signals the worker and joins *)
(* it.  Every variable is a function of the chain the object was built     *)
(* for, so that a composition can hold several objects.                    *)
(*                                                                         *)
(* Three actors interleave: the callback thread that constructs and        *)
(* destroys the object, the worker, and the operating system, which        *)
(* presents frames and can take the display path away at any moment.       *)
(***************************************************************************)
EXTENDS Naturals

CONSTANTS
  Chain,          \* swap chain handles
  MaxFrame,       \* bound: PresentationFrameNumber wraps after MaxFrame
  MaxUnreleased,  \* bound: unreleased surface references counted up to here
  CreateFails     \* CreateEvent and CreateThread may fail

ASSUME ProcessorAssumption ==
  /\ MaxFrame \in Nat
  /\ MaxUnreleased \in Nat
  /\ CreateFails \in BOOLEAN

VARIABLES
  object,      \* the C++ object: not built, in use, in its destructor, freed
  worker,      \* program counter of the worker thread
  hasEvent,    \* m_terminateEvent was created
  terminate,   \* m_terminateEvent (auto-reset) is signalled
  deletes,     \* how often WdfObjectDelete was called on the chain (0..2)
  lastFrame,   \* the worker's local lastFrameNumber
  unreleased,  \* surface references given to the worker and never released
  inTopology,  \* OS: the chain's display path exists
  available,   \* OS: a buffer waits to be acquired
  frame,       \* OS: PresentationFrameNumber of the newest buffer
  newFrame     \* OS: m_newFrameEvent is signalled

worker_vars == <<worker, lastFrame, unreleased>>
os_vars     == <<inTopology, available, frame, newFrame>>
vars == <<object, worker, hasEvent, terminate, deletes, lastFrame, unreleased,
          inTopology, available, frame, newFrame>>

ObjectState == {"none", "alive", "dying", "freed"}

\* Where the worker may stand: the loop head, the three calls of the loop, and
\* the way out.  "none" is an object whose CreateThread failed or not built.
Loop      == {"check", "acquire", "wait", "finish"}
Running   == {"start", "lost", "delete"} \cup Loop
WorkerPC  == {"none", "exited"} \cup Running

FrameNumber == 0 .. MaxFrame

Min2(a, b) == IF a < b THEN a ELSE b

Goto(c, from, to) ==
  /\ worker[c] = from
  /\ worker' = [worker EXCEPT ![c] = to]

Init ==
  /\ object     = [c \in Chain |-> "none"]
  /\ worker     = [c \in Chain |-> "none"]
  /\ hasEvent   = [c \in Chain |-> FALSE]
  /\ terminate  = [c \in Chain |-> FALSE]
  /\ deletes    = [c \in Chain |-> 0]
  /\ lastFrame  = [c \in Chain |-> 0]
  /\ unreleased = [c \in Chain |-> 0]
  /\ inTopology = [c \in Chain |-> TRUE]
  /\ available  = [c \in Chain |-> FALSE]
  /\ frame      = [c \in Chain |-> 0]
  /\ newFrame   = [c \in Chain |-> FALSE]

-----------------------------------------------------------------------------
(* What the owner's calls do to an object and its chain.  They do it to     *)
(* whatever they are called on: an object that is built over another, or    *)
(* destroyed twice, is not prevented here.  A composition uses these and    *)
(* has to show that it calls them in turn, that is, implements Spec.        *)

\* WdfObjectDelete on the chain.
Discard(c) ==
  /\ deletes' = [deletes EXCEPT ![c] = Min2(@ + 1, 2)]
  /\ UNCHANGED <<object, hasEvent, terminate, worker_vars, os_vars>>

\* The constructor.  Neither CreateEvent nor CreateThread is checked, so either
\* may have failed and the object is used all the same.
Build(c) ==
  /\ object' = [object EXCEPT ![c] = "alive"]
  /\ \E event, thread \in BOOLEAN :
       /\ CreateFails \/ (event /\ thread)
       /\ hasEvent' = [hasEvent EXCEPT ![c] = event]
       /\ worker'   = [worker EXCEPT ![c] = IF thread THEN "start" ELSE "none"]
  /\ UNCHANGED <<terminate, deletes, lastFrame, unreleased, os_vars>>

\* The destructor up to its wait.  SetEvent on a null handle fails and is ignored.
BeginDestroy(c) ==
  /\ object' = [object EXCEPT ![c] = "dying"]
  /\ terminate' = [terminate EXCEPT ![c] = hasEvent[c]]
  /\ UNCHANGED <<hasEvent, deletes, worker_vars, os_vars>>

EndDestroy_NoWait(c) ==
  /\ object' = [object EXCEPT ![c] = "freed"]
  /\ UNCHANGED <<hasEvent, terminate, deletes, worker_vars, os_vars>>

\* The wait, which is skipped when there is no thread, and the end.
EndDestroy(c) ==
  /\ worker[c] \in {"none", "exited"}
  /\ object' = [object EXCEPT ![c] = "freed"]
  /\ UNCHANGED <<hasEvent, terminate, deletes, worker_vars, os_vars>>

-----------------------------------------------------------------------------
(* The owner, in turn: it refuses a chain, or constructs and destroys a     *)
(* processor for it.                                                        *)

\* A chain the OS has handed out and nobody has touched yet.
Fresh(c) == object[c] = "none" /\ deletes[c] = 0

\* The monitor context could not make a D3D device: it deletes the chain itself
\* and builds nothing.
Refuse(c) == Fresh(c) /\ Discard(c)

Construct(c) == Fresh(c) /\ Build(c)

SignalTerminate(c) == object[c] = "alive" /\ BeginDestroy(c)

Join(c) == object[c] = "dying" /\ EndDestroy(c)

-----------------------------------------------------------------------------
(* The worker thread.                                                      *)

Setup_ReturnsWithoutDelete(c) ==
  /\ \/ Goto(c, "start", "check")
     \/ Goto(c, "start", "exited")
  /\ lastFrame' = [lastFrame EXCEPT ![c] = 0]
  /\ UNCHANGED <<object, hasEvent, terminate, deletes, unreleased, os_vars>>

\* The query for IDXGIDevice or IddCxSwapChainSetDevice may fail; a failing
\* priority call is only logged.
Setup(c) ==
  /\ \/ Goto(c, "start", "check")
     \/ Goto(c, "start", "delete")
  /\ lastFrame' = [lastFrame EXCEPT ![c] = 0]
  /\ UNCHANGED <<object, hasEvent, terminate, deletes, unreleased, os_vars>>

TakeTerminate_Continues(c, from) ==
  /\ hasEvent[c] /\ terminate[c]
  /\ terminate' = [terminate EXCEPT ![c] = FALSE]
  /\ Goto(c, from, "check")

\* The worker takes the signal: m_terminateEvent is auto-reset.
TakeTerminate(c, from) ==
  /\ hasEvent[c] /\ terminate[c]
  /\ terminate' = [terminate EXCEPT ![c] = FALSE]
  /\ Goto(c, from, "delete")

CheckTerminate_Absent(c) ==
  /\ Goto(c, "check", "acquire")
  /\ UNCHANGED <<object, hasEvent, terminate, deletes, lastFrame, unreleased, os_vars>>

\* The loop head polls the terminate event.
CheckTerminate(c) ==
  /\ \/ TakeTerminate(c, "check")
     \/ /\ ~(hasEvent[c] /\ terminate[c])
        /\ Goto(c, "check", "acquire")
        /\ UNCHANGED terminate
  /\ UNCHANGED <<object, hasEvent, deletes, lastFrame, unreleased, os_vars>>

Acquired_NumberPlusOne(c) ==
  /\ inTopology[c] /\ available[c]
  /\ available'  = [available EXCEPT ![c] = FALSE]
  /\ unreleased' = [unreleased EXCEPT ![c] = Min2(@ + 1, MaxUnreleased)]
  /\ lastFrame'  = [lastFrame EXCEPT ![c] = frame[c] + 1]
  /\ Goto(c, "acquire", IF frame[c] # lastFrame[c] THEN "finish" ELSE "check")

\* A buffer was acquired.  The call hands the worker a reference on the
\* surface; "surface = pSurface" takes a second one, and only that one is
\* released at the end of the iteration.  A frame whose number is the last one
\* seen goes straight to the next iteration.
Acquired(c) ==
  /\ inTopology[c] /\ available[c]
  /\ available'  = [available EXCEPT ![c] = FALSE]
  /\ unreleased' = [unreleased EXCEPT ![c] = Min2(@ + 1, MaxUnreleased)]
  /\ lastFrame'  = [lastFrame EXCEPT ![c] = frame[c]]
  /\ Goto(c, "acquire", IF frame[c] # lastFrame[c] THEN "finish" ELSE "check")

\* IddCxSwapChainReleaseAndAcquireBuffer.
AcquireBuffer(c) ==
  /\ \/ Acquired(c)
     \/ /\ \/ inTopology[c] /\ ~available[c] /\ Goto(c, "acquire", "wait")
           \/ ~inTopology[c] /\ Goto(c, "acquire", "lost")
           \/ Goto(c, "acquire", "delete")   \* any other failure
        /\ UNCHANGED <<available, lastFrame, unreleased>>
  /\ UNCHANGED <<object, hasEvent, terminate, deletes, inTopology, frame, newFrame>>

Wait_ForBoth(c) ==
  /\ hasEvent[c] /\ newFrame[c]
  /\ TakeTerminate(c, "wait")
  /\ newFrame' = [newFrame EXCEPT ![c] = FALSE]
  /\ UNCHANGED <<object, hasEvent, deletes, lastFrame, unreleased,
                 inTopology, available, frame>>

\* WaitForMultipleObjects on {new frame, terminate} for 17 ms.  The lowest
\* signalled index wins; with a null handle in the array the wait fails.
Wait(c) ==
  /\ \/ /\ hasEvent[c] /\ newFrame[c]
        /\ newFrame' = [newFrame EXCEPT ![c] = FALSE]
        /\ Goto(c, "wait", "check")
        /\ UNCHANGED terminate
     \/ /\ ~newFrame[c]
        /\ TakeTerminate(c, "wait")
        /\ UNCHANGED newFrame
     \/ /\ hasEvent[c] /\ ~newFrame[c] /\ ~terminate[c]   \* timeout
        /\ Goto(c, "wait", "check")
        /\ UNCHANGED <<newFrame, terminate>>
     \/ /\ ~hasEvent[c]
        /\ Goto(c, "wait", "delete")
        /\ UNCHANGED <<newFrame, terminate>>
  /\ UNCHANGED <<object, hasEvent, deletes, lastFrame, unreleased,
                 inTopology, available, frame>>

\* SwapChainNewFrame is a stub; IddCxSwapChainFinishedProcessingFrame is not.
FinishFrame(c) ==
  /\ \/ inTopology[c] /\ Goto(c, "finish", "check")
     \/ ~inTopology[c] /\ Goto(c, "finish", "lost")
     \/ Goto(c, "finish", "delete")
  /\ UNCHANGED <<object, hasEvent, terminate, deletes, lastFrame, unreleased, os_vars>>

\* m_devContext->OnSwapChainLost(); its effect is the device context's.
ReportLost(c) ==
  /\ Goto(c, "lost", "delete")
  /\ UNCHANGED <<object, hasEvent, terminate, deletes, lastFrame, unreleased, os_vars>>

\* WdfObjectDelete and thread exit.  The chain's own state ends with it.
DeleteChain(c) ==
  /\ Goto(c, "delete", "exited")
  /\ deletes'   = [deletes EXCEPT ![c] = Min2(@ + 1, 2)]
  /\ lastFrame' = [lastFrame EXCEPT ![c] = 0]
  /\ available' = [available EXCEPT ![c] = FALSE]
  /\ newFrame'  = [newFrame EXCEPT ![c] = FALSE]
  /\ frame'     = [frame EXCEPT ![c] = 0]
  /\ UNCHANGED <<object, hasEvent, terminate, unreleased, inTopology>>

WorkerStep(c) ==
  \/ Setup(c) \/ CheckTerminate(c) \/ AcquireBuffer(c) \/ Wait(c)
  \/ FinishFrame(c) \/ DeleteChain(c)

-----------------------------------------------------------------------------
(* The operating system's side of the chain.                               *)

\* A new presentation, or an update that repeats the frame number.
Present(c) ==
  /\ object[c] # "none" /\ deletes[c] = 0 /\ inTopology[c]
  /\ available' = [available EXCEPT ![c] = TRUE]
  /\ newFrame'  = [newFrame EXCEPT ![c] = TRUE]
  /\ \E step \in {0, 1} :
       frame' = [frame EXCEPT ![c] = (@ + step) % (MaxFrame + 1)]
  /\ UNCHANGED <<object, hasEvent, terminate, deletes, worker_vars, inTopology>>

LosePath(c) ==
  /\ object[c] # "none" /\ deletes[c] = 0 /\ inTopology[c]
  /\ inTopology' = [inTopology EXCEPT ![c] = FALSE]
  /\ UNCHANGED <<object, hasEvent, terminate, deletes, worker_vars,
                 available, frame, newFrame>>

\* The OS hands out a new swap chain under the handle of one that is gone, and
\* the allocator a new object at the old address: every trace of c is erased.
Recycle(c) ==
  /\ deletes[c] > 0 /\ worker[c] \in {"none", "exited"}
  /\ object[c] \in {"none", "freed"}
  /\ object'     = [object EXCEPT ![c] = "none"]
  /\ worker'     = [worker EXCEPT ![c] = "none"]
  /\ hasEvent'   = [hasEvent EXCEPT ![c] = FALSE]
  /\ terminate'  = [terminate EXCEPT ![c] = FALSE]
  /\ deletes'    = [deletes EXCEPT ![c] = 0]
  /\ inTopology' = [inTopology EXCEPT ![c] = TRUE]
  /\ unreleased' = [unreleased EXCEPT ![c] = 0]
  /\ UNCHANGED <<lastFrame, available, frame, newFrame>>

-----------------------------------------------------------------------------

Owner(c) == Refuse(c) \/ Construct(c) \/ SignalTerminate(c) \/ Join(c)

Next ==
  \E c \in Chain :
    \/ Owner(c) \/ WorkerStep(c) \/ ReportLost(c)
    \/ Present(c) \/ LosePath(c) \/ Recycle(c)

Spec == Init /\ [][Next]_vars

\* Threads that can run are scheduled; the OS need not present anything and
\* the owner need not destroy the object.
Fairness ==
  \A c \in Chain : WF_vars(WorkerStep(c) \/ ReportLost(c)) /\ WF_vars(Join(c))

FairSpec == Spec /\ Fairness

-----------------------------------------------------------------------------

TypeOK ==
  /\ object     \in [Chain -> ObjectState]
  /\ worker     \in [Chain -> WorkerPC]
  /\ hasEvent   \in [Chain -> BOOLEAN]
  /\ terminate  \in [Chain -> BOOLEAN]
  /\ deletes    \in [Chain -> 0 .. 2]
  /\ lastFrame  \in [Chain -> FrameNumber]
  /\ unreleased \in [Chain -> 0 .. MaxUnreleased]
  /\ inTopology \in [Chain -> BOOLEAN]
  /\ available  \in [Chain -> BOOLEAN]
  /\ frame      \in [Chain -> FrameNumber]
  /\ newFrame   \in [Chain -> BOOLEAN]

\* The worker never runs on a freed object: the destructor's wait (41-42)
\* comes back only when the thread, which uses the members, is gone.
NoUseAfterFree ==
  \A c \in Chain : object[c] = "freed" => worker[c] \notin Running

\* Whatever way the worker leaves - a failing setup, a failing call, a lost
\* path, the terminate signal - it deletes the chain (59) exactly once, and
\* never before it has stopped using it; a chain that got no processor is
\* deleted by its owner, also at most once (CIndirectMonitorContext.cpp:44).
ChainDeletedOnce ==
  \A c \in Chain :
    /\ object[c] # "none" => deletes[c] = IF worker[c] = "exited" THEN 1 ELSE 0
    /\ deletes[c] <= 1

\* The auto-reset terminate event is never consumed without the worker
\* leaving: in a destructor that has signalled, either the signal still stands
\* or the worker is on its way out (103, 131).
SignalNotLost ==
  \A c \in Chain :
    object[c] = "dying" /\ hasEvent[c] /\ worker[c] \in Running
      => terminate[c] \/ worker[c] \in {"lost", "delete"}

\* The destructor returns, even while frames never stop arriving: the loop
\* head polls the event in every iteration (103).  Without an event handle
\* there is no such promise.
DestructorReturns ==
  \A c \in Chain :
    object[c] = "dying" /\ hasEvent[c] ~> object[c] = "freed"

\* A buffer that the OS offers is acquired, unless the worker leaves the
\* loop: the wait ends on the event, the 17 ms timeout covers a missed one.
FrameServed ==
  \A c \in Chain :
    available[c] /\ worker[c] \in Loop
      ~> ~available[c] \/ worker[c] \notin Loop

\* What driver-mssample/Driver.cpp:453 and 467-469 say of the acquired
\* surface: the driver has to release the reference it is given.  Between two
\* iterations, and after the worker, no reference is outstanding.
SurfaceReleased ==
  \A c \in Chain :
    worker[c] \in {"check", "wait", "delete", "exited"} => unreleased[c] = 0

=============================================================================
