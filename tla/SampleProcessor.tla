--------------------------- MODULE SampleProcessor ---------------------------
(***************************************************************************)
(* The sample driver's SwapChainProcessor (driver-mssample/Driver.cpp),    *)
(* from which the driver's own descends.  Its object, its events and the   *)
(* operating system are those of SwapChainProcessor; only the worker is    *)
(* different.  It does not look at the terminate event while buffers keep  *)
(* coming, knows no frame numbers, tells nobody of a lost path, and        *)
(* releases the surface it was given.                                      *)
(***************************************************************************)
EXTENDS SwapChainProcessor

-----------------------------------------------------------------------------
(* Owner.                                                                  *)

\* Without a D3D device the chain is deleted at once, and nothing is built.
SampleRefuse(c) == Refuse(c)

\* As in the driver neither event nor thread is checked.
SampleConstruct(c) == Construct(c)

\* SetEvent, then the wait for the thread if there is one.
SampleDestruct(c) == SignalTerminate(c) \/ Join(c)

-----------------------------------------------------------------------------
(* The worker thread (RunThread, Run, RunCore).                            *)

SampleRest(c) == UNCHANGED <<object, hasEvent, deletes, lastFrame, inTopology, frame>>

SampleSetup_ReturnsWithoutDelete(c) ==
  /\ Goto(c, "start", "acquire") \/ Goto(c, "start", "exited")
  /\ UNCHANGED <<terminate, unreleased, available, newFrame>> /\ SampleRest(c)

SampleSetup(c) ==
  /\ Goto(c, "start", "acquire") \/ Goto(c, "start", "delete")
  /\ UNCHANGED <<terminate, unreleased, available, newFrame>> /\ SampleRest(c)

\* A buffer brings a surface with a reference, which Attach takes over.  Every
\* failure, the lost path included, ends the loop.
SampleAcquire(c) ==
  /\ \/ /\ inTopology[c] /\ available[c]
        /\ available' = [available EXCEPT ![c] = FALSE]
        /\ unreleased' = [unreleased EXCEPT ![c] = Min2(@ + 1, MaxUnreleased)]
        /\ Goto(c, "acquire", "finish")
     \/ /\ inTopology[c] /\ ~available[c]
        /\ Goto(c, "acquire", "wait")
        /\ UNCHANGED <<available, unreleased>>
     \/ /\ Goto(c, "acquire", "delete")
        /\ UNCHANGED <<available, unreleased>>
  /\ UNCHANGED <<terminate, newFrame>> /\ SampleRest(c)

SampleWait_TerminateContinues(c) ==
  /\ \/ /\ hasEvent[c] /\ newFrame[c]
        /\ newFrame' = [newFrame EXCEPT ![c] = FALSE]
        /\ Goto(c, "wait", "acquire")
        /\ UNCHANGED terminate
     \/ /\ hasEvent[c] /\ ~newFrame[c]
        /\ terminate' = [terminate EXCEPT ![c] = FALSE]
        /\ Goto(c, "wait", "acquire")
        /\ UNCHANGED newFrame
     \/ /\ ~hasEvent[c] /\ Goto(c, "wait", "delete")
        /\ UNCHANGED <<newFrame, terminate>>
  /\ UNCHANGED <<unreleased, available>> /\ SampleRest(c)

\* WaitForMultipleObjects on {new frame, terminate} for 16 ms.
SampleWait(c) ==
  /\ \/ /\ hasEvent[c] /\ newFrame[c]
        /\ newFrame' = [newFrame EXCEPT ![c] = FALSE]
        /\ Goto(c, "wait", "acquire")
        /\ UNCHANGED terminate
     \/ /\ ~newFrame[c] /\ TakeTerminate(c, "wait")
        /\ UNCHANGED newFrame
     \/ /\ hasEvent[c] /\ ~newFrame[c] /\ ~terminate[c]   \* timeout
        /\ Goto(c, "wait", "acquire")
        /\ UNCHANGED <<newFrame, terminate>>
     \/ /\ ~hasEvent[c] /\ Goto(c, "wait", "delete")
        /\ UNCHANGED <<newFrame, terminate>>
  /\ UNCHANGED <<unreleased, available>> /\ SampleRest(c)

SampleFinish_KeepsSurface(c) ==
  /\ Goto(c, "finish", "acquire") \/ Goto(c, "finish", "delete")
  /\ UNCHANGED <<unreleased, terminate, available, newFrame>> /\ SampleRest(c)

\* The surface is released, then the frame reported as finished.
SampleFinish(c) ==
  /\ unreleased[c] > 0
  /\ unreleased' = [unreleased EXCEPT ![c] = @ - 1]
  /\ Goto(c, "finish", "acquire") \/ Goto(c, "finish", "delete")
  /\ UNCHANGED <<terminate, available, newFrame>> /\ SampleRest(c)

\* WdfObjectDelete, and the thread ends.
SampleDelete(c) == DeleteChain(c)

SampleWorker(c) ==
  \/ SampleSetup(c) \/ SampleAcquire(c) \/ SampleWait(c)
  \/ SampleFinish(c) \/ SampleDelete(c)

-----------------------------------------------------------------------------

SampleNext ==
  \E c \in Chain :
    \/ SampleRefuse(c) \/ SampleConstruct(c) \/ SampleDestruct(c) \/ SampleWorker(c)
    \/ Present(c) \/ LosePath(c) \/ Recycle(c)

SampleSpec == Init /\ [][SampleNext]_vars

SampleFairness ==
  \A c \in Chain : WF_vars(SampleWorker(c)) /\ WF_vars(Join(c))

\* The sample's destructor returns if frames stop coming; the driver's poll at
\* the loop head (CSwapChainProcessor.cpp:103) is there to do without the if.
SampleDestructorReturns ==
  \A c \in Chain :
    \/ []<>available[c]
    \/ object[c] = "dying" /\ hasEvent[c] ~> object[c] = "freed"

=============================================================================
