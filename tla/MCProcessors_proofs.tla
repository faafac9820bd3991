------------------------- MODULE MCProcessors_proofs -------------------------
(***************************************************************************)
(* What both processors of the repository guarantee, the driver's and the  *)
(* sample's it descends from, and what only the sample does: it gives back *)
(* every surface it is handed.  For every set of chains, every frame       *)
(* number width and every order of the threads.                            *)
(***************************************************************************)
EXTENDS MCProcessors, SwapChainProcessor_proofs

\* Where the sample's worker may stand: no poll at a loop head, no report of a
\* lost path.
SamplePC == WorkerPC \ {"check", "lost"}

\* A surface is held only between its acquisition and the end of the frame, and
\* never a second one.
OneSurface ==
  \A c \in Chain :
    /\ worker[c] \in SamplePC
    /\ unreleased[c] = 0 \/ (worker[c] = "finish" /\ unreleased[c] = 1)

\* The inductive invariant: what holds of both, and what the sample adds.
ProcessorsInv ==
  /\ driver \in {"qubes", "sample"}
  /\ IInv
  /\ driver = "sample" => OneSurface

LEMMA InitProcessorsInv == MCInit => ProcessorsInv
BY InitIInv
   DEF MCInit, ProcessorsInv, Init, OneSurface, SamplePC, WorkerPC

\* The four steps in which the sample's worker differs from the driver's.
SampleOwn(c) == SampleSetup(c) \/ SampleAcquire(c) \/ SampleWait(c) \/ SampleFinish(c)

\* Owner, operating system and the deletion of the chain are shared.
LEMMA SampleSteps == SampleNext => Next \/ \E c \in Chain : SampleOwn(c)
BY DEF SampleNext, SampleRefuse, SampleConstruct, SampleDestruct, SampleWorker, SampleDelete,
       SampleOwn, Next, Owner, WorkerStep

\* The sample's own steps keep the types,
LEMMA SampleOwnTyped ==
  ASSUME TypeOK, NEW c \in Chain, SampleOwn(c)
  PROVE  TypeOK'
<1> USE ProcessorAssumption
    DEF TypeOK, WorkerPC, Running, Loop, Goto, SampleRest
<1>1. CASE SampleSetup(c)
  BY <1>1 DEF SampleSetup
<1>2. CASE SampleAcquire(c)
  <2>1. unreleased[c] + 1 \in Nat
    OBVIOUS
  <2>2. Min2(unreleased[c] + 1, MaxUnreleased) \in 0 .. MaxUnreleased
    BY <2>1, Min2Bound
  <2>3. unreleased' \in [Chain -> 0 .. MaxUnreleased]
    BY <1>2, <2>2 DEF SampleAcquire
  <2> QED
    BY <1>2, <2>3 DEF SampleAcquire
<1>3. CASE SampleWait(c)
  BY <1>3 DEF SampleWait, TakeTerminate
<1>4. CASE SampleFinish(c)
  BY <1>4 DEF SampleFinish
<1> QED
  BY <1>1, <1>2, <1>3, <1>4 DEF SampleOwn

\* the relations between object, worker and chain that both processors keep,
LEMMA SampleOwnKeeps ==
  ASSUME IInv, NEW c \in Chain, SampleOwn(c)
  PROVE  IInv'
<1>0. TypeOK'
  BY SampleOwnTyped DEF IInv
<1> DEFINE Rel == /\ NoObjectNoWorker
                  /\ ChainDeletedOnce
                  /\ NoUseAfterFree
                  /\ SignalNotLost
<1> USE DEF IInv, NoObjectNoWorker, ChainDeletedOnce, NoUseAfterFree, SignalNotLost,
            TypeOK, Running, Loop, Goto, SampleRest
<1>1. SampleSetup(c) => Rel'
  BY DEF SampleSetup
<1>2. SampleAcquire(c) => Rel'
  BY DEF SampleAcquire
<1>3. SampleWait(c) => Rel'
  BY DEF SampleWait, TakeTerminate
<1>4. SampleFinish(c) => Rel'
  BY DEF SampleFinish
<1> QED
  BY <1>0, <1>1, <1>2, <1>3, <1>4 DEF SampleOwn

\* and the one surface.
LEMMA SampleOwnSurface ==
  ASSUME TypeOK, OneSurface, NEW c \in Chain, SampleOwn(c)
  PROVE  OneSurface'
<1> USE DEF TypeOK, OneSurface, SamplePC, WorkerPC, Running, Loop, Goto, SampleRest
<1>1. CASE SampleSetup(c)
  BY <1>1 DEF SampleSetup
<1>2. CASE SampleAcquire(c)
  BY <1>2, ProcessorAssumption DEF SampleAcquire, Min2
<1>3. CASE SampleWait(c)
  BY <1>3 DEF SampleWait, TakeTerminate
<1>4. CASE SampleFinish(c)
  BY <1>4 DEF SampleFinish
<1> QED
  BY <1>1, <1>2, <1>3, <1>4 DEF SampleOwn

\* The shared steps take no surface.
LEMMA SharedSurface ==
  ASSUME IInv, OneSurface, SampleNext, \A c \in Chain : ~SampleOwn(c)
  PROVE  OneSurface'
<1> PICK c \in Chain :
      \/ Refuse(c) \/ Construct(c) \/ SignalTerminate(c) \/ Join(c) \/ DeleteChain(c)
      \/ Present(c) \/ LosePath(c) \/ Recycle(c)
  BY DEF SampleNext, SampleRefuse, SampleConstruct, SampleDestruct, SampleWorker,
         SampleDelete, SampleOwn
<1>0. TypeOK /\ NoObjectNoWorker
  BY DEF IInv
<1> USE DEF TypeOK, OneSurface, SamplePC, WorkerPC, Running, Loop, Goto, os_vars, worker_vars
<1>1. CASE Refuse(c)
  BY <1>0, <1>1 DEF Refuse, Discard
<1>2. CASE Construct(c)
  <2>1. /\ UNCHANGED unreleased /\ worker[c] \in SamplePC
        /\ \/ worker' = [worker EXCEPT ![c] = "start"]
           \/ worker' = [worker EXCEPT ![c] = "none"]
    BY <1>0, <1>2 DEF Construct, Build
  <2>2. unreleased[c] = 0
    BY <1>0, <1>2, <2>1 DEF Construct, Build, Fresh, NoObjectNoWorker
  <2> QED
    BY <1>0, <2>1, <2>2
<1>3. CASE SignalTerminate(c) \/ Join(c)
  BY <1>0, <1>3 DEF SignalTerminate, Join, BeginDestroy, EndDestroy
<1>4. CASE DeleteChain(c)
  BY <1>0, <1>4 DEF DeleteChain
<1>5. CASE Present(c) \/ LosePath(c)
  BY <1>0, <1>5 DEF Present, LosePath
<1>6. CASE Recycle(c)
  BY <1>0, <1>6 DEF Recycle
<1> QED
  BY <1>1, <1>2, <1>3, <1>4, <1>5, <1>6

LEMMA NextProcessorsInv == ProcessorsInv /\ [MCNext]_mc_vars => ProcessorsInv'
<1> SUFFICES ASSUME ProcessorsInv, [MCNext]_mc_vars PROVE ProcessorsInv'
  OBVIOUS
<1>0. UNCHANGED driver
  BY DEF MCNext, mc_vars
<1>1. CASE driver = "qubes"
  <2>1. [Next]_vars
    BY <1>1 DEF MCNext, mc_vars
  <2> QED
    BY <1>0, <1>1, <2>1, NextIInv DEF ProcessorsInv
<1>2. CASE driver = "sample" /\ SampleNext
  <2>1. IInv'
    BY <1>2, SampleSteps, SampleOwnKeeps, NextIInv DEF ProcessorsInv
  <2>2. OneSurface'
    BY <1>2, SampleOwnSurface, SharedSurface DEF ProcessorsInv, IInv
  <2> QED
    BY <1>0, <2>1, <2>2 DEF ProcessorsInv
<1>3. CASE UNCHANGED vars
  <2>1. IInv'
    BY <1>3, NextIInv DEF ProcessorsInv
  <2>2. OneSurface => OneSurface'
    BY <1>3 DEF OneSurface, vars
  <2> QED
    BY <1>0, <2>1, <2>2 DEF ProcessorsInv
<1> QED
  BY <1>1, <1>2, <1>3 DEF ProcessorsInv, MCNext, mc_vars

LEMMA ProcessorsInvariance == MCSpec => []ProcessorsInv
BY InitProcessorsInv, NextProcessorsInv, PTL DEF MCSpec

\* driver-mssample/Driver.cpp:453-473: between two frames and once its worker
\* has left, on whatever way, the sample holds no surface.
THEOREM SampleGivesBack == MCSpec => []SampleReleasesSurface
<1>1. ProcessorsInv => SampleReleasesSurface
  BY DEF ProcessorsInv, OneSurface, SampleReleasesSurface, SurfaceReleased
<1> QED
  BY <1>1, ProcessorsInvariance, PTL

\* The sample's processor, from which the driver's was made, keeps the same
\* promises to its owner and to the chain: the worker never outlives the
\* object, the chain is deleted once, the terminate signal is not lost.
THEOREM BothKeepTheirWord ==
  MCSpec => [](TypeOK /\ NoUseAfterFree /\ ChainDeletedOnce /\ SignalNotLost)
<1>1. ProcessorsInv => TypeOK /\ NoUseAfterFree /\ ChainDeletedOnce /\ SignalNotLost
  BY DEF ProcessorsInv, IInv
<1> QED
  BY <1>1, ProcessorsInvariance, PTL

=============================================================================
