---------------------- MODULE SwapChainProcessor_proofs ----------------------
(***************************************************************************)
(* What SwapChainProcessor guarantees for every set of chains, every frame *)
(* number width and every order of the threads: its safety properties are  *)
(* invariants of Spec.                                                     *)
(***************************************************************************)
EXTENDS SwapChainProcessor, TLAPS

\* An object that was never built has no worker.
NoObjectNoWorker ==
  \A c \in Chain : object[c] = "none" => worker[c] = "none"

\* The inductive invariant.  NoObjectNoWorker is what makes ChainDeletedOnce
\* inductive: a chain that its owner refused has no worker to delete it again.
IInv ==
  /\ TypeOK
  /\ NoObjectNoWorker
  /\ ChainDeletedOnce
  /\ NoUseAfterFree
  /\ SignalNotLost

\* The capped counters stay within their cap.
LEMMA Min2Bound ==
  ASSUME NEW n \in Nat, NEW k \in Nat
  PROVE  Min2(n, k) \in 0 .. k
BY DEF Min2

\* Frame numbers wrap inside their range.
LEMMA FrameWraps ==
  ASSUME NEW f \in FrameNumber, NEW step \in {0, 1}
  PROVE  (f + step) % (MaxFrame + 1) \in FrameNumber
BY ProcessorAssumption DEF FrameNumber

LEMMA InitTypeOK == Init => TypeOK
BY ProcessorAssumption
   DEF Init, TypeOK, ObjectState, WorkerPC, Running, Loop, FrameNumber

\* Every variable keeps its range, action by action.
LEMMA NextTypeOK == TypeOK /\ [Next]_vars => TypeOK'
<1> SUFFICES ASSUME TypeOK, [Next]_vars
             PROVE  TypeOK'
  OBVIOUS
<1> USE ProcessorAssumption
    DEF TypeOK, ObjectState, WorkerPC, Running, Loop, Goto, os_vars, worker_vars
<1>1. ASSUME NEW c \in Chain, Refuse(c) \/ Construct(c) PROVE TypeOK'
  BY <1>1 DEF Refuse, Construct, Discard, Build, Min2
<1>2. ASSUME NEW c \in Chain, SignalTerminate(c) PROVE TypeOK'
  BY <1>2 DEF SignalTerminate, BeginDestroy
<1>3. ASSUME NEW c \in Chain, Join(c) PROVE TypeOK'
  BY <1>3 DEF Join, EndDestroy
<1>4. ASSUME NEW c \in Chain, Setup(c) PROVE TypeOK'
  BY <1>4 DEF Setup, FrameNumber
<1>5. ASSUME NEW c \in Chain, CheckTerminate(c) PROVE TypeOK'
  BY <1>5 DEF CheckTerminate, TakeTerminate
<1>6. ASSUME NEW c \in Chain, AcquireBuffer(c) PROVE TypeOK'
  <2>1. CASE Acquired(c)
    <3>0. unreleased[c] + 1 \in Nat
      OBVIOUS
    <3>1. Min2(unreleased[c] + 1, MaxUnreleased) \in 0 .. MaxUnreleased
      BY <3>0, Min2Bound
    <3>2. unreleased' \in [Chain -> 0 .. MaxUnreleased]
      BY <2>1, <3>1 DEF Acquired
    <3>3. worker' \in [Chain -> WorkerPC]
      BY <2>1 DEF Acquired
    <3>4. QED
      BY <1>6, <2>1, <3>2, <3>3 DEF Acquired, AcquireBuffer
  <2>2. CASE ~Acquired(c)
    BY <1>6, <2>2 DEF AcquireBuffer
  <2>3. QED
    BY <2>1, <2>2
<1>7. ASSUME NEW c \in Chain, Wait(c) PROVE TypeOK'
  BY <1>7 DEF Wait, TakeTerminate
<1>8. ASSUME NEW c \in Chain, FinishFrame(c) PROVE TypeOK'
  BY <1>8 DEF FinishFrame
<1>9. ASSUME NEW c \in Chain, DeleteChain(c) PROVE TypeOK'
  BY <1>9 DEF DeleteChain, Min2, FrameNumber
<1>10. ASSUME NEW c \in Chain, ReportLost(c) PROVE TypeOK'
  BY <1>10 DEF ReportLost
<1>11. ASSUME NEW c \in Chain, Present(c) PROVE TypeOK'
  <2>1. PICK step \in {0, 1} :
          frame' = [frame EXCEPT ![c] = (@ + step) % (MaxFrame + 1)]
    BY <1>11 DEF Present
  <2>2. frame' \in [Chain -> FrameNumber]
    BY <2>1, FrameWraps
  <2>3. QED
    BY <1>11, <2>2 DEF Present
<1>12. ASSUME NEW c \in Chain, LosePath(c) PROVE TypeOK'
  BY <1>12 DEF LosePath
<1>13. ASSUME NEW c \in Chain, Recycle(c) PROVE TypeOK'
  BY <1>13 DEF Recycle
<1>14. CASE UNCHANGED vars
  BY <1>14 DEF vars
<1>15. QED
  BY <1>1, <1>2, <1>3, <1>4, <1>5, <1>6, <1>7, <1>8, <1>9, <1>10, <1>11,
     <1>12, <1>13, <1>14 DEF Next, Owner, WorkerStep

\* Every reachable state has the types declared for it.
THEOREM TypeCorrect == Spec => []TypeOK
BY InitTypeOK, NextTypeOK, PTL DEF Spec

-----------------------------------------------------------------------------

LEMMA InitIInv == Init => IInv
BY InitTypeOK
   DEF Init, IInv, NoObjectNoWorker, ChainDeletedOnce, NoUseAfterFree,
       SignalNotLost, Running, Loop

\* One step per action; each disturbs the four relations at one chain only.
LEMMA NextIInv == IInv /\ [Next]_vars => IInv'
<1> SUFFICES ASSUME IInv, [Next]_vars
             PROVE  IInv'
  OBVIOUS
<1>0. TypeOK'
  BY NextTypeOK DEF IInv
<1> DEFINE Rel == /\ NoObjectNoWorker
                  /\ ChainDeletedOnce
                  /\ NoUseAfterFree
                  /\ SignalNotLost
<1> USE DEF IInv, NoObjectNoWorker, ChainDeletedOnce, NoUseAfterFree,
            SignalNotLost, TypeOK, Running, Loop, Goto, os_vars, worker_vars
<1>1. ASSUME NEW c \in Chain, Refuse(c) \/ Construct(c) PROVE Rel'
  BY <1>1 DEF Refuse, Construct, Fresh, Discard, Build, Min2
<1>2. ASSUME NEW c \in Chain, SignalTerminate(c) PROVE Rel'
  BY <1>2 DEF SignalTerminate, BeginDestroy
<1>3. ASSUME NEW c \in Chain, Join(c) PROVE Rel'
  BY <1>3 DEF Join, EndDestroy
<1>4. ASSUME NEW c \in Chain, Setup(c) PROVE Rel'
  BY <1>4 DEF Setup
<1>5. ASSUME NEW c \in Chain, CheckTerminate(c) PROVE Rel'
  BY <1>5 DEF CheckTerminate, TakeTerminate
<1>6. ASSUME NEW c \in Chain, AcquireBuffer(c) PROVE Rel'
  BY <1>6 DEF AcquireBuffer, Acquired
<1>7. ASSUME NEW c \in Chain, Wait(c) PROVE Rel'
  BY <1>7 DEF Wait, TakeTerminate
<1>8. ASSUME NEW c \in Chain, FinishFrame(c) PROVE Rel'
  BY <1>8 DEF FinishFrame
<1>9. ASSUME NEW c \in Chain, DeleteChain(c) PROVE Rel'
  BY <1>9 DEF DeleteChain, Min2
<1>10. ASSUME NEW c \in Chain, ReportLost(c) PROVE Rel'
  BY <1>10 DEF ReportLost
<1>11. ASSUME NEW c \in Chain, Present(c) \/ LosePath(c) PROVE Rel'
  BY <1>11 DEF Present, LosePath
<1>12. ASSUME NEW c \in Chain, Recycle(c) PROVE Rel'
  BY <1>12 DEF Recycle
<1>13. CASE UNCHANGED vars
  BY <1>13 DEF vars
<1>14. Rel'
  BY <1>1, <1>2, <1>3, <1>4, <1>5, <1>6, <1>7, <1>8, <1>9, <1>10, <1>11,
     <1>12, <1>13 DEF Next, Owner, WorkerStep
<1>15. QED
  BY <1>0, <1>14

THEOREM Invariance == Spec => []IInv
BY InitIInv, NextIInv, PTL DEF Spec

\* No order of the threads lets the worker touch a freed processor.
THEOREM WorkerOutlivedByObject == Spec => []NoUseAfterFree
<1>1. IInv => NoUseAfterFree
  BY DEF IInv
<1>2. QED
  BY <1>1, Invariance, PTL

\* A chain is deleted exactly once, at the end of its worker.
THEOREM DeletedOnce == Spec => []ChainDeletedOnce
<1>1. IInv => ChainDeletedOnce
  BY DEF IInv
<1>2. QED
  BY <1>1, Invariance, PTL

\* The terminate signal is not lost.
THEOREM SignalReachesWorker == Spec => []SignalNotLost
<1>1. IInv => SignalNotLost
  BY DEF IInv
<1>2. QED
  BY <1>1, Invariance, PTL

=============================================================================
