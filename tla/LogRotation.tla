----------------------------- MODULE LogRotation -----------------------------
(***************************************************************************)
(* CDebug::Init (driver/LGCommon/CDebug.cpp): when the process that hosts  *)
(* the driver starts, the logs of earlier starts move up by one and a new  *)
(* one is opened.  Slot 0 is "name.txt", slot k is "name.k.txt".           *)
(*                                                                         *)
(* The calls are looked at one by one: nobody checks what they return, any *)
(* of the files may be open elsewhere, and the process may end between two *)
(* of them.                                                                *)
(***************************************************************************)
EXTENDS Integers

CONSTANTS
  Last,        \* number of the oldest log kept: 4 in the code
  MaxStarts    \* bound: starts of the host process

ASSUME RotationAssumption ==
  /\ Last \in Nat /\ Last >= 1
  /\ MaxStarts \in Nat

Slot == 0 .. Last

VARIABLES
  log,      \* [k]: the start that wrote slot k, 0 if there is no such file
  starts,   \* starts of the process so far
  pc,       \* "off", in Init "delete", "move", "open", after it "opened", "up"
  i,        \* the loop variable of Init
  stream,   \* m_stream is open
  before,   \* history: the logs as this start found them
  stuck     \* history: slots whose file was in the way, being open elsewhere

log_vars == <<log, starts, pc, i, stream, before, stuck>>

NoLogs == [k \in Slot |-> 0]

LogInit ==
  /\ log = NoLogs /\ starts = 0
  /\ pc = "off" /\ i = 0
  /\ stream = FALSE
  /\ before = NoLogs /\ stuck = {}

-----------------------------------------------------------------------------

\* The host process starts and calls Init from DriverEntry.  Under a debugger
\* Init returns at once and leaves the files alone.
StartHost ==
  /\ pc = "off"
  /\ starts < MaxStarts /\ starts' = starts + 1
  /\ pc' \in {"delete", "opened"}
  /\ before' = log
  /\ UNCHANGED <<log, i, stream, stuck>>

\* A file that somebody has open without leave to delete it stays.
InTheWay(k) ==
  /\ log[k] # 0
  /\ stuck' = stuck \cup {k}
  /\ UNCHANGED log

DeleteOldest_Skipped ==
  /\ pc = "delete" /\ pc' = "move"
  /\ i' = Last - 1
  /\ UNCHANGED <<log, starts, stream, before, stuck>>

DeleteOldest_OneTooLow ==
  /\ pc = "delete" /\ pc' = "move"
  /\ i' = Last - 1
  /\ \/ log' = [log EXCEPT ![Last - 1] = 0] /\ UNCHANGED stuck
     \/ InTheWay(Last - 1)
  /\ UNCHANGED <<starts, stream, before>>

DeleteOldest ==
  /\ pc = "delete" /\ pc' = "move"
  /\ i' = Last - 1
  /\ \/ log' = [log EXCEPT ![Last] = 0] /\ UNCHANGED stuck
     \/ InTheWay(Last)
  /\ UNCHANGED <<starts, stream, before>>

MoveLog_FirstFree ==
  /\ pc = "move"
  /\ \/ \E to \in Slot :
          /\ log[i] # 0 /\ to > i /\ log[to] = 0
          /\ \A k \in Slot : k > i /\ k < to => log[k] # 0
          /\ log' = [log EXCEPT ![to] = log[i], ![i] = 0] /\ UNCHANGED stuck
     \/ InTheWay(i)
     \/ log[i] = 0 /\ UNCHANGED <<log, stuck>>
  /\ IF i = 0 THEN pc' = "open" /\ UNCHANGED i ELSE i' = i - 1 /\ UNCHANGED pc
  /\ UNCHANGED <<starts, stream, before>>

MoveLog_NotNewest ==
  /\ pc = "move"
  /\ IF i # 0 /\ log[i] # 0 /\ log[i + 1] = 0
     THEN \/ log' = [log EXCEPT ![i + 1] = log[i], ![i] = 0] /\ UNCHANGED stuck
          \/ InTheWay(i)
     ELSE UNCHANGED <<log, stuck>>
  /\ IF i = 0 THEN pc' = "open" /\ UNCHANGED i ELSE i' = i - 1 /\ UNCHANGED pc
  /\ UNCHANGED <<starts, stream, before>>

MoveLog_BelowZero ==
  /\ pc = "move"
  /\ IF log[i] # 0 /\ log[i + 1] = 0
     THEN \/ log' = [log EXCEPT ![i + 1] = log[i], ![i] = 0] /\ UNCHANGED stuck
          \/ InTheWay(i)
     ELSE UNCHANGED <<log, stuck>>
  /\ IF i < 0 THEN pc' = "open" /\ UNCHANGED i ELSE i' = i - 1 /\ UNCHANGED pc
  /\ UNCHANGED <<starts, stream, before>>

\* One turn of the loop, from the oldest log to the newest.  MoveFileW moves
\* nothing onto a file that is there.
MoveLog ==
  /\ pc = "move"
  /\ IF log[i] # 0 /\ log[i + 1] = 0
     THEN \/ log' = [log EXCEPT ![i + 1] = log[i], ![i] = 0] /\ UNCHANGED stuck
          \/ InTheWay(i)
     ELSE UNCHANGED <<log, stuck>>
  /\ IF i = 0 THEN pc' = "open" /\ UNCHANGED i ELSE i' = i - 1 /\ UNCHANGED pc
  /\ UNCHANGED <<starts, stream, before>>

\* The stream is opened with trunc: a log that could not be moved is lost.
\* Without the directory, which nobody makes, or the right, nothing is opened.
OpenLog ==
  /\ pc = "open" /\ pc' = "opened"
  /\ stream' \in BOOLEAN
  /\ log' = IF stream' THEN [log EXCEPT ![0] = starts] ELSE log
  /\ UNCHANGED <<starts, i, before, stuck>>

\* Init has returned and DriverEntry goes on; history ends here.
GoOn ==
  /\ pc = "opened" /\ pc' = "up"
  /\ before' = NoLogs /\ stuck' = {} /\ i' = 0
  /\ UNCHANGED <<log, starts, stream>>

\* The process ends, at whatever point it is.
EndHost ==
  /\ pc # "off" /\ pc' = "off"
  /\ stream' = FALSE
  /\ before' = NoLogs /\ stuck' = {} /\ i' = 0
  /\ UNCHANGED <<log, starts>>

LogNext ==
  \/ StartHost \/ DeleteOldest \/ MoveLog \/ OpenLog \/ GoOn \/ EndHost

LogSpec == LogInit /\ [][LogNext]_log_vars

-----------------------------------------------------------------------------

LogTypeOK ==
  /\ log \in [Slot -> 0 .. starts] /\ before \in [Slot -> 0 .. starts]
  /\ starts \in 0 .. MaxStarts
  /\ pc \in {"off", "delete", "move", "open", "opened", "up"}
  /\ i \in 0 .. Last - 1
  /\ stream \in BOOLEAN
  /\ stuck \subseteq Slot

\* The higher its number the older a log, whatever failed and wherever a start
\* was cut short: so the moves (133-150) never have to look at dates.
InOrder ==
  \A j, k \in Slot : j < k /\ log[j] # 0 /\ log[k] # 0 => log[j] > log[k]

\* When nothing was in the way the logs have moved up by exactly one, gaps
\* left by an earlier start included, and only the oldest is gone.
RotationShifts ==
  pc = "opened" /\ stream /\ stuck = {} =>
    log = [k \in Slot |-> IF k = 0 THEN starts ELSE before[k - 1]]

\* The newest log is overwritten (153) only if a file was in the way and every
\* slot below it is taken: one gap anywhere below saves it.
OverwriteMeansStuck ==
  pc = "open" /\ log[0] # 0 =>
    \E k \in stuck : \A j \in 0 .. k : log[j] # 0

\* A log that disappears is the oldest one there is, unless one was in the way.
OldestGoesFirst ==
  [][\A k \in Slot :
       /\ log[k] # 0 /\ \A j \in Slot : log'[j] # log[k]
       /\ stuck = {}
       => \A j \in Slot : log[j] # 0 => log[j] >= log[k]]_log_vars

=============================================================================
