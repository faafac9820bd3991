------------------------- MODULE LogRotation_proofs -------------------------
(***************************************************************************)
(* The rotation of the logs, for any number of logs and starts.            *)
(***************************************************************************)
EXTENDS LogRotation, TLAPS

USE RotationAssumption DEF RotationAssumption, Slot

\* Where a start stands with the files: what its history says, what the loop
\* has moved, and why what it has not moved is stuck.
Progress ==
  /\ pc \in {"off", "delete"} => stuck = {} /\ ~stream
  /\ pc \in {"move", "open"} => ~stream
  /\ pc \in {"delete", "move", "open"} => \A k \in Slot : log[k] < starts
  /\ pc = "delete" => log = before

\* The file the loop has just left behind it is there only because one in the
\* way, below it, keeps every slot between them taken.
Blocked(k) ==
  log[k] # 0 => \E b \in stuck : b >= k /\ \A j \in Slot : k <= j /\ j <= b => log[j] # 0

MoveBlocked ==
  /\ pc = "move" => Blocked(i + 1)
  /\ pc = "open" => Blocked(0)

\* With nothing in the way the slots above i + 1 have their new files, those
\* up to i still their old ones.
Shifted(n) ==
  \A k \in Slot : /\ k > n => log[k] = before[k - 1]
                  /\ k < n => log[k] = before[k]

MoveShifts ==
  /\ pc = "move" /\ stuck = {} => Shifted(i + 1)
  /\ pc = "open" /\ stuck = {} => Shifted(0)

LogInv == LogTypeOK /\ InOrder /\ Progress /\ MoveBlocked /\ MoveShifts /\ RotationShifts

-----------------------------------------------------------------------------

\* Before the first start there is no log, and nothing to say of one.
LEMMA LogInvInit == LogInit => LogInv
<1> SUFFICES ASSUME LogInit PROVE LogInv
  OBVIOUS
<1>1. /\ log = NoLogs /\ before = NoLogs /\ starts = 0 /\ i = 0 /\ stuck = {}
      /\ pc = "off" /\ stream = FALSE
  BY DEF LogInit
<1>2. NoLogs \in [Slot -> 0 .. starts]
  BY <1>1 DEF NoLogs
<1>3. LogTypeOK
  <2>1. log \in [Slot -> 0 .. starts] /\ before \in [Slot -> 0 .. starts]
    BY <1>1, <1>2
  <2>2. starts \in 0 .. MaxStarts /\ i \in 0 .. Last - 1
    BY <1>1
  <2>3. stuck \subseteq Slot /\ stream \in BOOLEAN
    BY <1>1
  <2> QED
    BY <1>1, <2>1, <2>2, <2>3 DEF LogTypeOK
<1>4. InOrder
  BY <1>1 DEF InOrder, NoLogs
<1>5. Progress /\ MoveBlocked /\ MoveShifts /\ RotationShifts
  BY <1>1 DEF Progress, MoveBlocked, MoveShifts, RotationShifts
<1> QED
  BY <1>3, <1>4, <1>5 DEF LogInv

\* Every call of CDebug::Init keeps the loop in its bounds.
LEMMA LogTypeKept == LogTypeOK /\ Progress /\ LogNext => LogTypeOK'
<1> SUFFICES ASSUME LogTypeOK, Progress, LogNext PROVE LogTypeOK'
  OBVIOUS
<1> USE DEF LogTypeOK
<1>1. CASE StartHost
  BY <1>1 DEF StartHost
<1>2. CASE DeleteOldest
  <2>1. Last \in Slot
    OBVIOUS
  <2>2. \/ log' = [log EXCEPT ![Last] = 0] /\ stuck' = stuck
        \/ log' = log /\ stuck' = stuck \cup {Last}
    BY <1>2 DEF DeleteOldest, InTheWay
  <2>3. pc' = "move" /\ i' = Last - 1 /\ UNCHANGED <<starts, stream, before>>
    BY <1>2 DEF DeleteOldest
  <2>4. log' \in [Slot -> 0 .. starts]
    BY <2>2
  <2>5. stuck' \subseteq Slot
    BY <2>1, <2>2
  <2> QED
    BY <2>3, <2>4, <2>5
<1>3. CASE MoveLog
  <2>1. i \in Slot /\ i + 1 \in Slot
    OBVIOUS
  <2>2. log' \in [Slot -> 0 .. starts] /\ stuck' \subseteq Slot
    BY <1>3, <2>1 DEF MoveLog, InTheWay
  <2>3. i' \in 0 .. Last - 1 /\ pc' \in {"move", "open"}
    BY <1>3 DEF MoveLog
  <2>4. UNCHANGED <<starts, stream, before>>
    BY <1>3 DEF MoveLog
  <2> QED
    BY <2>2, <2>3, <2>4
<1>4. CASE OpenLog
  BY <1>4 DEF OpenLog
<1>5. CASE GoOn
  BY <1>5 DEF GoOn, NoLogs
<1>6. CASE EndHost
  <2>1. log' = log /\ starts' = starts /\ before' = NoLogs /\ stuck' = {} /\ i' = 0
        /\ pc' = "off" /\ stream' = FALSE
    BY <1>6 DEF EndHost
  <2>2. NoLogs \in [Slot -> 0 .. starts]
    BY DEF NoLogs
  <2>3. log' \in [Slot -> 0 .. starts'] /\ before' \in [Slot -> 0 .. starts']
    BY <2>1, <2>2
  <2>4. stuck' \subseteq Slot /\ stream' \in BOOLEAN
    BY <2>1
  <2>5. i' \in 0 .. Last - 1
    BY <2>1
  <2> QED
    BY <2>1, <2>3, <2>4, <2>5
<1> QED
  BY <1>1, <1>2, <1>3, <1>4, <1>5, <1>6 DEF LogNext

\* A file moves only into a gap, past nothing, and a new one is the newest.
LEMMA OrderKept == LogTypeOK /\ Progress /\ InOrder /\ LogNext => InOrder'
<1> SUFFICES ASSUME LogTypeOK, Progress, InOrder, LogNext PROVE InOrder'
  OBVIOUS
<1> USE DEF LogTypeOK, InOrder
<1>1. CASE StartHost \/ GoOn \/ EndHost
  BY <1>1 DEF StartHost, GoOn, EndHost
<1>2. CASE DeleteOldest
  BY <1>2 DEF DeleteOldest, InTheWay
<1>3. CASE MoveLog
  <2>1. CASE log' = log
    BY <2>1
  <2>2. CASE log[i] # 0 /\ log[i + 1] = 0
             /\ log' = [log EXCEPT ![i + 1] = log[i], ![i] = 0]
    <3>1. i \in Slot /\ i + 1 \in Slot
      OBVIOUS
    <3> SUFFICES ASSUME NEW j \in Slot, NEW k \in Slot,
                        j < k, log'[j] # 0, log'[k] # 0
                 PROVE  log'[j] > log'[k]
      OBVIOUS
    <3>2. j # i /\ k # i
      BY <2>2, <3>1
    <3>3. log'[j] = log[IF j = i + 1 THEN i ELSE j] /\ log'[k] = log[IF k = i + 1 THEN i ELSE k]
      BY <2>2, <3>1, <3>2
    <3>4. (IF j = i + 1 THEN i ELSE j) < (IF k = i + 1 THEN i ELSE k)
      BY <3>1, <3>2
    <3> QED
      BY <3>1, <3>3, <3>4
  <2> QED
    BY <1>3, <2>1, <2>2 DEF MoveLog, InTheWay
<1>4. CASE OpenLog
  <2>1. \A k \in Slot : log[k] < starts
    BY <1>4 DEF OpenLog, Progress
  <2> QED
    BY <1>4, <2>1 DEF OpenLog
<1> QED
  BY <1>1, <1>2, <1>3, <1>4 DEF LogNext

\* What is known of a start at each of its calls.
LEMMA ProgressKept == LogTypeOK /\ Progress /\ LogNext => Progress'
<1> SUFFICES ASSUME LogTypeOK, Progress, LogNext PROVE Progress'
  OBVIOUS
<1> USE DEF LogTypeOK, Progress
<1>1. CASE StartHost
  BY <1>1 DEF StartHost
<1>2. CASE DeleteOldest
  BY <1>2 DEF DeleteOldest, InTheWay
<1>3. CASE MoveLog
  <2>1. i \in Slot /\ i + 1 \in Slot
    OBVIOUS
  <2>2. \A k \in Slot : log'[k] < starts
    BY <1>3, <2>1 DEF MoveLog, InTheWay
  <2> QED
    BY <1>3, <2>2 DEF MoveLog
<1>4. CASE OpenLog \/ GoOn \/ EndHost
  BY <1>4 DEF OpenLog, GoOn, EndHost
<1> QED
  BY <1>1, <1>2, <1>3, <1>4 DEF LogNext

\* The chain of taken slots below a file that stays grows with the loop.
LEMMA BlockedKept == LogTypeOK /\ MoveBlocked /\ LogNext => MoveBlocked'
<1> SUFFICES ASSUME LogTypeOK, MoveBlocked, LogNext PROVE MoveBlocked'
  OBVIOUS
<1> USE DEF LogTypeOK, MoveBlocked, Blocked
<1>1. CASE StartHost
  BY <1>1 DEF StartHost
<1>2. CASE DeleteOldest
  <2>1. pc' = "move" /\ i' + 1 = Last
    BY <1>2 DEF DeleteOldest
  <2>2. \/ log'[Last] = 0
        \/ Last \in stuck' /\ log'[Last] # 0
    BY <1>2 DEF DeleteOldest, InTheWay
  <2>3. \A j \in Slot : Last <= j /\ j <= Last => j = Last
    OBVIOUS
  <2> QED
    BY <2>1, <2>2, <2>3
<1>3. CASE MoveLog
  <2>1. i \in Slot /\ i + 1 \in Slot /\ pc = "move"
    BY <1>3 DEF MoveLog
  <2>2. log'[i] # 0 =>
          \E b \in stuck' : b >= i /\ \A j \in Slot : i <= j /\ j <= b => log'[j] # 0
    <3>1. CASE log'[i] = 0
      BY <3>1
    <3>2. CASE log[i] # 0 /\ log[i + 1] = 0 /\ InTheWay(i)
      <4>1. i \in stuck' /\ log' = log
        BY <3>2 DEF InTheWay
      <4>2. \A j \in Slot : i <= j /\ j <= i => log'[j] # 0
        BY <2>1, <3>2, <4>1
      <4>3. i \in stuck' /\ i >= i
        BY <2>1, <4>1
      <4> QED
        BY <4>2, <4>3
    <3>3. CASE log[i] # 0 /\ log[i + 1] # 0 /\ UNCHANGED <<log, stuck>>
      <4>1. PICK b \in stuck : b >= i + 1 /\ \A j \in Slot : i + 1 <= j /\ j <= b => log[j] # 0
        BY <2>1, <3>3
      <4>2. \A j \in Slot : i <= j => j = i \/ i + 1 <= j
        BY <2>1
      <4>3. \A j \in Slot : i <= j /\ j <= b => log'[j] # 0
        BY <3>3, <4>1, <4>2
      <4>4. b \in stuck' /\ b >= i
        BY <2>1, <3>3, <4>1
      <4> QED
        BY <4>3, <4>4
    <3>4. CASE log[i] = 0 /\ UNCHANGED log
      BY <3>4
    <3>5. CASE log' = [log EXCEPT ![i + 1] = log[i], ![i] = 0]
      BY <2>1, <3>1, <3>5
    <3> QED
      BY <1>3, <3>2, <3>3, <3>4, <3>5 DEF MoveLog, InTheWay
  <2>3. \/ i = 0 /\ pc' = "open"
        \/ i' + 1 = i /\ pc' = "move"
    BY <1>3, <2>1 DEF MoveLog
  <2> QED
    BY <2>2, <2>3
<1>4. CASE OpenLog \/ GoOn \/ EndHost
  BY <1>4 DEF OpenLog, GoOn, EndHost
<1> QED
  BY <1>1, <1>2, <1>3, <1>4 DEF LogNext

\* With nothing in the way every move succeeds, so that the files above the
\* loop are in their new places and those below it in their old ones.
LEMMA ShiftsKept ==
  LogTypeOK /\ Progress /\ MoveBlocked /\ MoveShifts /\ LogNext => MoveShifts'
<1> SUFFICES ASSUME LogTypeOK, Progress, MoveBlocked, MoveShifts, LogNext PROVE MoveShifts'
  OBVIOUS
<1> USE DEF LogTypeOK, MoveShifts, Shifted
<1>1. CASE StartHost
  BY <1>1 DEF StartHost
<1>2. CASE DeleteOldest
  <2>1. pc' = "move" /\ i' + 1 = Last /\ before' = log
    BY <1>2 DEF DeleteOldest, Progress
  <2>2. \A k \in Slot : k # Last => log'[k] = log[k]
    BY <1>2 DEF DeleteOldest, InTheWay
  <2>3. \A k \in Slot : ~(k > Last) /\ (k < Last => k # Last)
    OBVIOUS
  <2> QED
    BY <2>1, <2>2, <2>3
<1>3. CASE MoveLog
  <2>1. i \in Slot /\ i + 1 \in Slot /\ pc = "move" /\ before' = before
    BY <1>3 DEF MoveLog
  <2>2. SUFFICES ASSUME stuck' = {}
                 PROVE  \A k \in Slot : /\ k > i => log'[k] = before[k - 1]
                                        /\ k < i => log'[k] = before[k]
    <3>1. \/ i = 0 /\ pc' = "open"
          \/ i' + 1 = i /\ pc' = "move"
      BY <1>3, <2>1 DEF MoveLog
    <3> QED
      BY <2>1, <2>2, <3>1
  <2>3. stuck = {} /\ ~InTheWay(i)
    BY <1>3, <2>2 DEF MoveLog, InTheWay
  <2>4. log[i + 1] = 0
    BY <2>1, <2>3 DEF MoveBlocked, Blocked
  <2>5. Shifted(i + 1)
    BY <2>1, <2>3
  <2>6. \/ log[i] = 0 /\ log' = log
        \/ log' = [log EXCEPT ![i + 1] = log[i], ![i] = 0]
    BY <1>3, <2>3, <2>4 DEF MoveLog
  <2>7. log'[i + 1] = log[i]
    BY <2>1, <2>4, <2>6
  <2>8. \A k \in Slot : k # i /\ k # i + 1 => log'[k] = log[k]
    BY <2>1, <2>6
  <2>9. log[i] = before[i]
    BY <2>1, <2>5
  <2> SUFFICES ASSUME NEW k \in Slot
               PROVE  /\ k > i => log'[k] = before[k - 1]
                      /\ k < i => log'[k] = before[k]
    OBVIOUS
  <2>10. CASE k = i + 1
    BY <2>1, <2>7, <2>9, <2>10
  <2>11. CASE k > i + 1 \/ k < i
    BY <2>1, <2>5, <2>8, <2>11
  <2> QED
    BY <2>1, <2>10, <2>11
<1>4. CASE OpenLog \/ GoOn \/ EndHost
  BY <1>4 DEF OpenLog, GoOn, EndHost
<1> QED
  BY <1>1, <1>2, <1>3, <1>4 DEF LogNext

\* Opening the new log puts it in the place that has become free.
LEMMA RotationKept ==
  LogTypeOK /\ Progress /\ MoveShifts /\ RotationShifts /\ LogNext => RotationShifts'
<1> SUFFICES ASSUME LogTypeOK, Progress, MoveShifts, RotationShifts, LogNext
             PROVE  RotationShifts'
  OBVIOUS
<1> USE DEF LogTypeOK, RotationShifts
<1>1. CASE StartHost
  BY <1>1 DEF StartHost, Progress
<1>2. CASE DeleteOldest \/ MoveLog \/ GoOn \/ EndHost
  BY <1>2 DEF DeleteOldest, MoveLog, GoOn, EndHost
<1>3. CASE OpenLog
  <2>1. UNCHANGED <<starts, before, stuck>> /\ pc = "open"
    BY <1>3 DEF OpenLog
  <2>2. SUFFICES ASSUME stream', stuck = {}
                 PROVE  log' = [k \in Slot |-> IF k = 0 THEN starts ELSE before[k - 1]]
    BY <2>1
  <2>3. log' = [log EXCEPT ![0] = starts]
    BY <1>3, <2>2 DEF OpenLog
  <2>4. \A k \in Slot : k # 0 => log[k] = before[k - 1]
    BY <2>1, <2>2 DEF MoveShifts, Shifted
  <2> QED
    BY <2>3, <2>4
<1> QED
  BY <1>1, <1>2, <1>3 DEF LogNext

\* The five together are inductive.
LEMMA LogInvKept == LogInv /\ [LogNext]_log_vars => LogInv'
<1>1. CASE LogNext
  BY <1>1, LogTypeKept, OrderKept, ProgressKept, BlockedKept, ShiftsKept, RotationKept
     DEF LogInv
<1>2. CASE UNCHANGED log_vars
  BY <1>2 DEF log_vars, LogInv, LogTypeOK, InOrder, Progress, MoveBlocked, Blocked,
              MoveShifts, Shifted, RotationShifts
<1> QED
  BY <1>1, <1>2

\* CDebug::Init, whatever fails and wherever it is cut short.
LEMMA LogInvariance == LogSpec => []LogInv
  BY LogInvInit, LogInvKept, PTL DEF LogSpec

-----------------------------------------------------------------------------

\* The loop variable, the files and the history keep their types.
THEOREM LogTypeCorrect == LogSpec => []LogTypeOK
<1>1. LogInv => LogTypeOK
  BY DEF LogInv
<1> QED
  BY <1>1, LogInvariance, PTL

\* The higher its number the older a log.
THEOREM LogsInOrder == LogSpec => []InOrder
<1>1. LogInv => InOrder
  BY DEF LogInv
<1> QED
  BY <1>1, LogInvariance, PTL

\* A start with nothing in its way moves every log up by one.
THEOREM LogsShift == LogSpec => []RotationShifts
<1>1. LogInv => RotationShifts
  BY DEF LogInv
<1> QED
  BY <1>1, LogInvariance, PTL

\* The newest log is overwritten only where a file was in the way and there was
\* no gap below it.
THEOREM OverwrittenWhenStuck == LogSpec => []OverwriteMeansStuck
<1>1. LogInv => OverwriteMeansStuck
  BY DEF LogInv, LogTypeOK, MoveBlocked, Blocked, OverwriteMeansStuck
<1> QED
  BY <1>1, LogInvariance, PTL

\* A log that disappears is the oldest, unless one was in the way: the moves lose
\* nothing, and the new log is opened where there is none.
THEOREM OldestFirst == LogSpec => OldestGoesFirst
<1> DEFINE Goes ==
      \A k \in Slot :
        /\ log[k] # 0 /\ \A j \in Slot : log'[j] # log[k]
        /\ stuck = {}
        => \A j \in Slot : log[j] # 0 => log[j] >= log[k]
<1>1. LogInv /\ LogNext => Goes
  <2> SUFFICES ASSUME LogInv, LogNext, stuck = {},
                      NEW k \in Slot, log[k] # 0, \A j \in Slot : log'[j] # log[k]
               PROVE  \A j \in Slot : log[j] # 0 => log[j] >= log[k]
    OBVIOUS
  <2> USE DEF LogInv, LogTypeOK
  <2>1. CASE StartHost \/ GoOn \/ EndHost
    BY <2>1 DEF StartHost, GoOn, EndHost
  <2>2. CASE DeleteOldest
    <3>1. k = Last
      BY <2>2 DEF DeleteOldest, InTheWay
    <3> QED
      BY <3>1 DEF InOrder
  <2>3. CASE MoveLog
    <3>1. i \in Slot /\ i + 1 \in Slot
      OBVIOUS
    <3>2. \/ log' = log
          \/ log[i + 1] = 0 /\ log' = [log EXCEPT ![i + 1] = log[i], ![i] = 0]
      BY <2>3 DEF MoveLog, InTheWay
    <3>3. log' # log
      OBVIOUS
    <3>4. k # i /\ k # i + 1
      BY <3>1, <3>2, <3>3
    <3> QED
      BY <3>1, <3>2, <3>3, <3>4
  <2>4. CASE OpenLog
    <3>1. log[0] = 0
      BY <2>4 DEF OpenLog, MoveBlocked, Blocked
    <3> QED
      BY <2>4, <3>1 DEF OpenLog
  <2> QED
    BY <2>1, <2>2, <2>3, <2>4 DEF LogNext
<1>2. LogInv /\ [LogNext]_log_vars => [Goes]_log_vars
  BY <1>1
<1> QED
  BY <1>2, LogInvariance, PTL DEF LogSpec, OldestGoesFirst

=============================================================================
