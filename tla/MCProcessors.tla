---------------------------- MODULE MCProcessors ----------------------------
(* The two processors of the repository under the same owner and the same  *)
(* operating system.  Objects for different chains share nothing, so one   *)
(* chain is enough here; IndirectDisplay composes several.                 *)
EXTENDS SampleProcessor

VARIABLE driver  \* whose processor it is, chosen once

mc_vars == <<vars, driver>>

MCInit == Init /\ driver \in {"qubes", "sample"}

Worker(c) ==
  \/ driver = "qubes" /\ (WorkerStep(c) \/ ReportLost(c))
  \/ driver = "sample" /\ SampleWorker(c)

MCNext ==
  /\ \/ driver = "qubes" /\ Next
     \/ driver = "sample" /\ SampleNext
  /\ UNCHANGED driver

\* Either driver's threads are scheduled.
MCSpec ==
  /\ MCInit /\ [][MCNext]_mc_vars
  /\ \A c \in Chain :
       WF_mc_vars(Worker(c) /\ UNCHANGED driver) /\ WF_mc_vars(Join(c) /\ UNCHANGED driver)

-----------------------------------------------------------------------------

\* The driver's destructor returns whatever the OS presents, the sample's if
\* frames stop coming: the poll at the loop head (CSwapChainProcessor.cpp:103)
\* is what makes the difference.
QubesDestructorReturns == driver = "sample" \/ DestructorReturns
MSDestructorReturns == driver = "qubes" \/ SampleDestructorReturns

\* The sample does with the surface what its comments say must be done
\* (driver-mssample/Driver.cpp:453-473), on every way out of the loop.
SampleReleasesSurface == driver = "sample" => SurfaceReleased
=============================================================================
