---------------------------- MODULE QbResd_proofs ----------------------------
(***************************************************************************)
(* The daemon, for any sizes and grid, any debounce and number of polls,   *)
(* and any number of requests, restarts, new logs, truncations and failing *)
(* calls.  That nothing is applied out of order rests on the order of the  *)
(* lines in the log being followed, which need not be the newest when the  *)
(* search for that one failed.                                             *)
(***************************************************************************)
EXTENDS QbResd, TLAPS

LEMMA Bounds ==
  /\ Quiet \in Nat /\ MaxPolls \in Nat /\ MaxPolls > 0
  /\ MaxRequests \in Nat /\ MaxEvents \in Nat
  BY QbResdAssumption DEF QbResdAssumption

USE Bounds

\* The types of the sequences ...
SeqsTyped ==
  /\ requests \in Seq(Sizes) /\ Len(requests) <= MaxRequests
  /\ logs \in Seq(Seq(Numbers)) /\ Len(logs) > 0
  /\ applied \in Seq(Numbers)

\* ... and of the other variables; a request under way has a number.
ScalarsTyped ==
  /\ display \in Sizes \cup Grid /\ advertised \in Sizes \cup Grid
  /\ preferred \in Sizes \cup Grid
  /\ curLog \in 0 .. Len(logs) /\ pos \in 0 .. MaxRequests
  /\ pend \in 0 .. Len(requests) /\ (pend = 0 => age = None)
  /\ age \in 0 .. Quiet + 1 \cup {None} /\ last \in Sizes \cup {None}
  /\ pc \in {"scan", "check", "escape", "poll", "change"} /\ polls \in 0 .. MaxPolls
  /\ pc \in {"escape", "poll", "change"} => age # None
  /\ pc = "poll" => polls < MaxPolls
  /\ events \in 0 .. MaxEvents /\ tool \in Sizes \cup {None} /\ lapse \in BOOLEAN

Typed == SeqsTyped /\ ScalarsTyped

\* A log has no more lines than there were requests, and the newest one ends
\* with the last request, if it has any line at all.
LogsInStep ==
  /\ \A n \in 1 .. Len(logs) : Len(logs[n]) <= Len(requests)
  /\ LET newest == logs[Len(logs)]
     IN  Len(newest) > 0 => newest[Len(newest)] = Len(requests)

\* What waits to be applied is no older than anything that was.
PendingIsNewer ==
  age # None => \A i \in 1 .. Len(applied) : applied[i] <= pend

\* What a typed sequence holds.
LEMMA Contents ==
  ASSUME Typed
  PROVE  /\ Len(requests) \in Nat /\ \A i \in 1 .. Len(requests) : requests[i] \in Sizes
         /\ Len(logs) \in Nat /\ Len(logs) \in 1 .. Len(logs)
         /\ \A n \in 1 .. Len(logs) : logs[n] \in Seq(Numbers) /\ Len(logs[n]) \in Nat
         /\ Len(applied) \in Nat /\ \A i \in 1 .. Len(applied) : applied[i] \in Numbers
         /\ \A n \in Numbers : n \in Nat /\ n >= 1 /\ n <= Len(requests)
<1>1. requests \in Seq(Sizes) /\ applied \in Seq(Numbers) /\ logs \in Seq(Seq(Numbers))
  BY DEF Typed, SeqsTyped, ScalarsTyped
<1>2. Len(logs) \in 1 .. Len(logs)
  BY <1>1 DEF Typed, SeqsTyped, ScalarsTyped
<1>3. \A n \in 1 .. Len(logs) : logs[n] \in Seq(Numbers)
  BY <1>1
<1>4. \A n \in 1 .. Len(logs) : Len(logs[n]) \in Nat
  BY <1>3
<1>5. \A n \in Numbers : n \in Nat /\ n >= 1 /\ n <= Len(requests)
  BY <1>1 DEF Numbers
<1> QED
  BY <1>1, <1>2, <1>3, <1>4, <1>5

\* The log being followed ends with a request no older than what waits or was
\* applied.
FollowedIsNewer ==
  curLog # 0 /\ Len(logs[curLog]) > 0 =>
    LET newest == logs[curLog][Len(logs[curLog])]
    IN  pend <= newest /\ \A i \in 1 .. Len(applied) : applied[i] <= newest

DaemonInv ==
  Typed /\ LogsInStep /\ PendingIsNewer /\ FollowedIsNewer /\ NeverBackwards

LEMMA DaemonInit == Init => DaemonInv
<1> SUFFICES ASSUME Init PROVE DaemonInv
  OBVIOUS
<1>1. Largest \in Grid
  BY QbResdAssumption DEF QbResdAssumption, Largest
<1>2. logs = << << >> >> /\ requests = << >> /\ applied = << >>
  BY DEF Init
<1>3. logs \in Seq(Seq(Numbers)) /\ logs[Len(logs)] = << >> /\ Len(logs) = 1
  BY <1>2
<1>4. requests \in Seq(Sizes) /\ applied \in Seq(Numbers) /\ Len(requests) = 0
  BY <1>2
<1>5. Typed
  <2>1. /\ display \in Sizes \cup Grid /\ advertised \in Sizes \cup Grid
        /\ preferred \in Sizes \cup Grid /\ curLog = 0 /\ pos = 0 /\ pend = 0
        /\ age = None /\ last = None /\ pc = "scan" /\ polls = 0 /\ events = 0
        /\ lapse = FALSE /\ tool = None
    BY <1>1 DEF Init
  <2>2. Len(logs) = 1 /\ Len(requests) = 0
    BY <1>3, <1>4
  <2>3. ScalarsTyped
    <3>1. curLog \in 0 .. Len(logs) /\ pos \in 0 .. MaxRequests
      BY <2>1, <2>2
    <3>2. pend \in 0 .. Len(requests) /\ (pend = 0 => age = None)
      BY <2>1, <2>2
    <3>3. age \in 0 .. Quiet + 1 \cup {None} /\ last \in Sizes \cup {None}
      BY <2>1, <2>2
    <3>4. polls \in 0 .. MaxPolls /\ events \in 0 .. MaxEvents
      BY <2>1, <2>2
    <3>5. lapse \in BOOLEAN /\ tool \in Sizes \cup {None}
      BY <2>1, <2>2
    <3>6. (pc = "poll" => polls < MaxPolls) /\ (pc \in {"escape", "poll", "change"} => age # None)
      BY <2>1, <2>2
    <3> QED
      BY <2>1, <3>1, <3>2, <3>3, <3>4, <3>5, <3>6 DEF ScalarsTyped
  <2> QED
    BY <1>3, <1>4, <2>3 DEF Typed, SeqsTyped
<1>6. LogsInStep
  BY <1>2, <1>3 DEF LogsInStep
<1>7. PendingIsNewer /\ NeverBackwards /\ FollowedIsNewer
  BY <1>2 DEF PendingIsNewer, NeverBackwards, FollowedIsNewer, Init
<1> QED
  BY <1>5, <1>6, <1>7 DEF DaemonInv

\* A request is written at the end of the newest log.
LEMMA RequestKeeps == DaemonInv /\ Request => DaemonInv'
<1> SUFFICES ASSUME DaemonInv, Request PROVE DaemonInv'
  OBVIOUS
<1> DEFINE k == Len(logs)
           line == Len(requests) + 1
<1>1. PICK s \in Sizes : requests' = Append(requests, s)
  BY DEF Request
<1>2. requests' \in Seq(Sizes) /\ Len(requests') = line /\ line <= MaxRequests
  BY <1>1 DEF Request, DaemonInv, Typed, SeqsTyped, ScalarsTyped
<1>3. k \in 1 .. Len(logs) /\ logs[k] \in Seq(Numbers) /\ Len(requests) \in Nat
  BY Contents DEF DaemonInv
<1>4. Numbers \subseteq Numbers' /\ line \in Numbers'
  BY <1>2, <1>3 DEF Numbers
<1>5. logs \in Seq(Seq(Numbers'))
  <2>1. \A n \in 1 .. Len(logs) : logs[n] \in Seq(Numbers')
    <3> SUFFICES ASSUME NEW n \in 1 .. Len(logs) PROVE logs[n] \in Seq(Numbers')
      OBVIOUS
    <3>1. logs[n] \in Seq(Numbers)
      BY DEF DaemonInv, Typed, SeqsTyped, ScalarsTyped
    <3> QED
      BY <1>4, <3>1
  <2>2. logs \in Seq(Seq(Numbers))
    BY DEF DaemonInv, Typed, SeqsTyped, ScalarsTyped
  <2> QED
    BY <2>1, <2>2
<1>6. Append(logs[k], line) \in Seq(Numbers')
  BY <1>3, <1>4, <1>5
<1>7. logs' = [logs EXCEPT ![k] = Append(logs[k], line)]
  BY DEF Request
<1>8. logs' \in Seq(Seq(Numbers')) /\ Len(logs') = k
  BY <1>3, <1>5, <1>6, <1>7
<1>9. applied \in Seq(Numbers')
  BY <1>4 DEF DaemonInv, Typed, SeqsTyped, ScalarsTyped
<1>10. Typed'
  <2>1. display' \in Sizes \cup Grid
    BY DEF Request, Modes, DaemonInv, Typed, SeqsTyped, ScalarsTyped
  <2>2. UNCHANGED <<advertised, preferred, daemon, events, tool, lapse>>
    BY DEF Request
  <2>3. pend \in 0 .. Len(requests')
    BY <1>2, <1>3 DEF DaemonInv, Typed, SeqsTyped, ScalarsTyped
  <2>4. /\ advertised' \in Sizes \cup Grid /\ preferred' \in Sizes \cup Grid
        /\ curLog' \in 0 .. k /\ pos' \in 0 .. MaxRequests
        /\ pend' \in 0 .. Len(requests') /\ (pend' = 0 => age' = None)
        /\ age' \in 0 .. Quiet + 1 \cup {None} /\ last' \in Sizes \cup {None}
        /\ pc' \in {"scan", "check", "escape", "poll", "change"}
        /\ polls' \in 0 .. MaxPolls
        /\ pc' \in {"escape", "poll", "change"} => age' # None
        /\ pc' = "poll" => polls' < MaxPolls
        /\ events' \in 0 .. MaxEvents /\ tool' \in Sizes \cup {None} /\ lapse' \in BOOLEAN
    BY <2>2, <2>3 DEF DaemonInv, Typed, SeqsTyped, ScalarsTyped, daemon
  <2>5. ScalarsTyped'
    BY <1>8, <2>1, <2>4 DEF ScalarsTyped
  <2>6. Len(logs') > 0
    BY <1>3, <1>8
  <2>7. SeqsTyped'
    <3>1. requests' \in Seq(Sizes) /\ Len(requests') <= MaxRequests
      BY <1>2
    <3>2. logs' \in Seq(Seq(Numbers'))
      BY <1>8
    <3>3. applied' \in Seq(Numbers')
      BY <1>9 DEF Request
    <3> QED
      BY <2>6, <3>1, <3>2, <3>3, Zenon DEF SeqsTyped
  <2> QED
    BY <2>5, <2>7 DEF Typed
<1>11. LogsInStep'
  <2>1. \A n \in 1 .. k : logs'[n] = IF n = k THEN Append(logs[k], line) ELSE logs[n]
    BY <1>3, <1>7
  <2>2. Len(Append(logs[k], line)) = Len(logs[k]) + 1
        /\ Append(logs[k], line)[Len(logs[k]) + 1] = line
    BY <1>3
  <2>3. \A n \in 1 .. k : Len(logs[n]) <= Len(requests)
    BY DEF DaemonInv, LogsInStep
  <2>4. \A n \in 1 .. k : Len(logs'[n]) <= line
    <3> SUFFICES ASSUME NEW n \in 1 .. k PROVE Len(logs'[n]) <= line
      OBVIOUS
    <3>1. logs[n] \in Seq(Numbers)
      BY DEF DaemonInv, Typed, SeqsTyped, ScalarsTyped
    <3>2. Len(logs[n]) \in Nat /\ Len(logs[n]) <= Len(requests)
      BY <2>3, <3>1
    <3>3. CASE n = k
      <4>1. Len(logs'[n]) = Len(logs[n]) + 1
        BY <2>1, <2>2, <3>3
      <4> QED
        BY <1>3, <3>2, <4>1
    <3>4. CASE n # k
      BY <1>3, <2>1, <3>2, <3>4
    <3> QED
      BY <3>3, <3>4
  <2> QED
    BY <1>2, <1>3, <1>8, <2>1, <2>2, <2>4 DEF LogsInStep
<1>12. PendingIsNewer' /\ NeverBackwards'
  BY DEF Request, daemon, DaemonInv, PendingIsNewer, NeverBackwards
<1>13. FollowedIsNewer'
  <2>1. UNCHANGED <<curLog, pend, applied>>
    BY DEF Request, daemon
  <2>2. curLog \in 0 .. k /\ pend \in 0 .. Len(requests)
    BY DEF DaemonInv, Typed, ScalarsTyped
  <2>3. CASE curLog = k
    <3>1. logs'[k] = Append(logs[k], line)
      BY <1>3, <1>7
    <3>2. Len(logs'[k]) = Len(logs[k]) + 1 /\ logs'[k][Len(logs'[k])] = line
      BY <1>3, <3>1
    <3>3. pend <= line /\ \A i \in 1 .. Len(applied) : applied[i] <= line
      BY <1>3, <2>2, Contents DEF DaemonInv
    <3> QED
      BY <2>1, <2>3, <3>2, <3>3 DEF FollowedIsNewer
  <2>4. CASE curLog # k /\ curLog # 0
    <3>1. logs'[curLog] = logs[curLog]
      BY <1>3, <1>7, <2>2, <2>4
    <3> QED
      BY <2>1, <2>4, <3>1 DEF DaemonInv, FollowedIsNewer
  <2> QED
    BY <2>1, <2>3, <2>4 DEF FollowedIsNewer
<1> QED
  BY <1>10, <1>11, <1>12, <1>13 DEF DaemonInv

\* A new log is empty, and so is one that was cut.
LEMMA LogEventKeeps == DaemonInv /\ (NewLog \/ Truncate) => DaemonInv'
<1> SUFFICES ASSUME DaemonInv, NewLog \/ Truncate PROVE DaemonInv'
  OBVIOUS
<1>1. UNCHANGED <<requests, display, advertised, preferred, daemon, applied, tool>>
      /\ events' \in 0 .. MaxEvents /\ lapse' = TRUE
  <2>1. Event => events' \in 0 .. MaxEvents
    BY DEF Event, DaemonInv, Typed, SeqsTyped, ScalarsTyped
  <2> QED
    BY <2>1 DEF NewLog, Truncate
<1>2. << >> \in Seq(Numbers) /\ Len(<< >>) = 0
  OBVIOUS
<1>3. Len(logs) \in Nat /\ Len(logs) \in 1 .. Len(logs) /\ logs \in Seq(Seq(Numbers))
  BY Contents DEF DaemonInv, Typed, SeqsTyped, ScalarsTyped
<1>4. /\ logs' \in Seq(Seq(Numbers)) /\ Len(logs') \in Nat /\ Len(logs') >= Len(logs)
      /\ logs'[Len(logs')] = << >>
      /\ \A n \in 1 .. Len(logs') : logs'[n] = << >> \/ (n \in 1 .. Len(logs) /\ logs'[n] = logs[n])
  <2>1. CASE NewLog
    <3>1. logs' = Append(logs, << >>)
      BY <2>1 DEF NewLog
    <3>2. logs' \in Seq(Seq(Numbers)) /\ Len(logs') = Len(logs) + 1
      BY <1>2, <1>3, <3>1
    <3>3. \A n \in 1 .. Len(logs) + 1 :
            logs'[n] = IF n = Len(logs) + 1 THEN << >> ELSE logs[n]
      BY <1>3, <3>1
    <3>4. logs'[Len(logs')] = << >>
      BY <1>3, <3>2, <3>3
    <3>5. ASSUME NEW n \in 1 .. Len(logs')
          PROVE  logs'[n] = << >> \/ (n \in 1 .. Len(logs) /\ logs'[n] = logs[n])
      BY <1>3, <3>2, <3>3
    <3>6. Len(logs') \in Nat /\ Len(logs') >= Len(logs)
      BY <1>3, <3>2
    <3> QED
      BY <3>2, <3>4, <3>5, <3>6
  <2>2. CASE Truncate
    <3>1. logs' = [logs EXCEPT ![Len(logs)] = << >>]
      BY <2>2 DEF Truncate
    <3>2. logs' \in Seq(Seq(Numbers)) /\ Len(logs') = Len(logs)
      BY <1>2, <1>3, <3>1
    <3>3. \A n \in 1 .. Len(logs) : logs'[n] = IF n = Len(logs) THEN << >> ELSE logs[n]
      BY <1>3, <3>1
    <3>4. logs'[Len(logs')] = << >>
      BY <1>3, <3>2, <3>3
    <3>5. ASSUME NEW n \in 1 .. Len(logs')
          PROVE  logs'[n] = << >> \/ (n \in 1 .. Len(logs) /\ logs'[n] = logs[n])
      BY <1>3, <3>2, <3>3
    <3>6. Len(logs') \in Nat /\ Len(logs') >= Len(logs)
      BY <1>3, <3>2
    <3> QED
      BY <3>2, <3>4, <3>5, <3>6
  <2> QED
    BY <2>1, <2>2
<1>5. Typed'
  <2>1. UNCHANGED Numbers
    BY <1>1 DEF Numbers
  <2>2. curLog' \in 0 .. Len(logs')
    BY <1>1, <1>3, <1>4 DEF DaemonInv, Typed, SeqsTyped, ScalarsTyped, daemon
  <2> QED
    BY <1>1, <1>3, <1>4, <2>1, <2>2 DEF DaemonInv, Typed, SeqsTyped, ScalarsTyped, daemon
<1>6. LogsInStep'
  <2>1. Len(requests) \in Nat
    BY Contents DEF DaemonInv
  <2>2. \A n \in 1 .. Len(logs') : Len(logs'[n]) <= Len(requests)
    <3> SUFFICES ASSUME NEW n \in 1 .. Len(logs') PROVE Len(logs'[n]) <= Len(requests)
      OBVIOUS
    <3>1. CASE logs'[n] = << >>
      BY <1>2, <2>1, <3>1
    <3>2. CASE n \in 1 .. Len(logs) /\ logs'[n] = logs[n]
      BY <3>2 DEF DaemonInv, LogsInStep
    <3> QED
      BY <1>4, <3>1, <3>2
  <2>3. Len(logs'[Len(logs')]) = 0
    BY <1>2, <1>4
  <2> QED
    BY <1>1, <2>2, <2>3 DEF LogsInStep
<1>7. PendingIsNewer' /\ NeverBackwards'
  BY <1>1 DEF DaemonInv, PendingIsNewer, NeverBackwards, daemon
<1>8. FollowedIsNewer'
  <2>1. UNCHANGED <<curLog, pend, applied>> /\ curLog \in 0 .. Len(logs)
    BY <1>1 DEF daemon, DaemonInv, Typed, ScalarsTyped
  <2>2. ASSUME curLog # 0, Len(logs'[curLog]) > 0
        PROVE  logs'[curLog] = logs[curLog]
    <3>1. curLog \in 1 .. Len(logs')
      BY <1>3, <1>4, <2>1, <2>2
    <3>2. logs'[curLog] # << >>
      BY <1>2, <2>2
    <3> QED
      BY <1>4, <3>1, <3>2
  <2> QED
    BY <2>1, <2>2 DEF DaemonInv, FollowedIsNewer
<1> QED
  BY <1>5, <1>6, <1>7, <1>8 DEF DaemonInv

\* Whatever log is read from whatever place, the request found last is no older
\* than what was found or applied before.
LEMMA ScanKeeps == DaemonInv /\ Scan => DaemonInv'
<1> SUFFICES ASSUME DaemonInv, Scan PROVE DaemonInv'
  OBVIOUS
<1>1. /\ Len(logs) \in 1 .. Len(logs) /\ Len(requests) \in Nat /\ pos \in 0 .. MaxRequests
      /\ curLog \in 0 .. Len(logs) /\ pend \in 0 .. Len(requests)
  BY Contents DEF DaemonInv, Typed, SeqsTyped, ScalarsTyped
<1>2. PICK n \in NewestLog :
        /\ curLog' = n
        /\ \/ n # 0 /\ ReadLog(n, IF n = curLog THEN pos ELSE 0)
              /\ lapse' = (lapse \/ n # Len(logs))
           \/ pos' = (IF n = curLog THEN pos ELSE 0) /\ lapse' = TRUE /\ UNCHANGED <<pend, age>>
  BY DEF Scan
<1>3. /\ UNCHANGED <<external, preferred, last, polls, applied, events, tool>>
      /\ pc' = "check"
  BY DEF Scan
<1>4. n \in 0 .. Len(logs) /\ (n = Len(logs) \/ n = curLog)
  BY <1>1 DEF NewestLog
<1> DEFINE log == logs[n]
           found == log[Len(log)]
<1>5. n # 0 => /\ log \in Seq(Numbers) /\ Len(log) \in 0 .. MaxRequests
               /\ Len(log) > 0 => found \in Numbers
  <2> SUFFICES ASSUME n # 0
               PROVE  /\ log \in Seq(Numbers) /\ Len(log) \in 0 .. MaxRequests
                      /\ Len(log) > 0 => found \in Numbers
    OBVIOUS
  <2>1. log \in Seq(Numbers) /\ Len(log) \in Nat
    BY <1>4, Contents DEF DaemonInv
  <2>2. Len(log) <= Len(requests) /\ Len(requests) <= MaxRequests
    BY <1>4 DEF DaemonInv, LogsInStep, Typed, SeqsTyped
  <2>3. Len(log) > 0 => found \in Numbers
    BY <2>1
  <2> QED
    BY <1>1, <2>1, <2>2, <2>3
\* The end of the log that is read is the newest of what was read or applied.
<1>6. ASSUME n # 0, Len(log) > 0
      PROVE  pend <= found /\ \A i \in 1 .. Len(applied) : applied[i] <= found
  <2>1. CASE n = Len(logs)
    <3>1. found = Len(requests)
      BY <1>6, <2>1 DEF DaemonInv, LogsInStep
    <3> QED
      BY <1>1, <3>1, Contents DEF DaemonInv
  <2>2. CASE n = curLog
    BY <1>6, <2>2 DEF DaemonInv, FollowedIsNewer
  <2> QED
    BY <1>4, <2>1, <2>2
<1>7. \/ n # 0 /\ Len(log) > 0 /\ pend' = found /\ age' = 0
      \/ UNCHANGED <<pend, age>>
  BY <1>1, <1>2, <1>5 DEF ReadLog
<1>8. pos' \in 0 .. MaxRequests /\ lapse' \in BOOLEAN
  <2>1. CASE n # 0 /\ ReadLog(n, IF n = curLog THEN pos ELSE 0) /\ lapse' = (lapse \/ n # Len(logs))
    BY <1>5, <2>1 DEF ReadLog
  <2>2. CASE pos' = (IF n = curLog THEN pos ELSE 0) /\ lapse' = TRUE
    BY <1>1, <2>2
  <2> QED
    BY <1>2, <2>1, <2>2
<1> HIDE DEF log, found
<1>9. Typed'
  <2>1. SeqsTyped'
    BY <1>3 DEF DaemonInv, Typed, SeqsTyped, Numbers, external
  <2>2. UNCHANGED <<logs, requests>>
    BY <1>3 DEF external
  <2>3. pend' \in 0 .. Len(requests) /\ (pend' = 0 => age' = None)
    BY <1>1, <1>5, <1>7, Contents DEF DaemonInv, Typed, ScalarsTyped
  <2>4. age' \in 0 .. Quiet + 1 \cup {None}
    BY <1>7 DEF DaemonInv, Typed, ScalarsTyped
  <2>5. ScalarsTyped'
    BY <1>2, <1>3, <1>4, <1>8, <2>2, <2>3, <2>4
       DEF DaemonInv, Typed, ScalarsTyped, external
  <2> QED
    BY <2>1, <2>5 DEF Typed
<1>10. LogsInStep' /\ NeverBackwards'
  BY <1>3 DEF DaemonInv, LogsInStep, NeverBackwards, external
<1>11. PendingIsNewer'
  BY <1>3, <1>6, <1>7 DEF DaemonInv, PendingIsNewer
<1>12. FollowedIsNewer'
  <2>1. curLog' = n /\ UNCHANGED <<logs, applied>>
    BY <1>2, <1>3 DEF external
  <2>2. ASSUME n # 0, Len(log) > 0
        PROVE  pend' <= found /\ \A i \in 1 .. Len(applied) : applied[i] <= found
    <3>1. found \in Nat
      BY <1>5, <2>2, Contents DEF DaemonInv
    <3> QED
      BY <1>6, <1>7, <2>2, <3>1
  <2> QED
    BY <2>1, <2>2 DEF FollowedIsNewer, log, found
<1> QED
  BY <1>9, <1>10, <1>11, <1>12 DEF DaemonInv

\* The last call: what is applied is the pending request, then forgotten.
LEMMA ChangeKeeps == DaemonInv /\ Change => DaemonInv'
<1> SUFFICES ASSUME DaemonInv, Change PROVE DaemonInv'
  OBVIOUS
<1>1. /\ UNCHANGED <<logs, requests, advertised, preferred, curLog, pos, pend, polls, events,
                  tool>>
      /\ pc = "change" /\ pc' = "scan" /\ age' = None
      /\ age # None /\ pend \in Numbers /\ Size \in Sizes
  BY DEF Change, Return, DaemonInv, Typed, SeqsTyped, ScalarsTyped, Numbers, Size
<1>2. LogsInStep' /\ PendingIsNewer'
  BY <1>1 DEF DaemonInv, LogsInStep, PendingIsNewer
<1>3. CASE /\ display' = Size /\ last' = Size /\ applied' = Append(applied, pend)
           /\ UNCHANGED lapse
  <2>1. applied \in Seq(Numbers)
    BY DEF DaemonInv, Typed, SeqsTyped, ScalarsTyped
  <2>2. applied' \in Seq(Numbers) /\ Len(applied') = Len(applied) + 1
        /\ \A i \in 1 .. Len(applied') :
             applied'[i] = IF i = Len(applied) + 1 THEN pend ELSE applied[i]
    BY <1>1, <1>3, <2>1
  <2>3. \A i \in 1 .. Len(applied) : applied[i] <= pend
    BY <1>1 DEF DaemonInv, PendingIsNewer
  <2>4. NeverBackwards'
    <3>1. DOMAIN applied = 1 .. Len(applied) /\ DOMAIN applied' = 1 .. Len(applied')
      BY <2>1, <2>2
    <3>2. Len(applied) \in Nat /\ pend \in Nat
      BY <1>1, Contents DEF DaemonInv
    <3> SUFFICES ASSUME NEW i \in 1 .. Len(applied'), NEW j \in 1 .. Len(applied'), i < j
                 PROVE  applied'[i] <= applied'[j]
      BY <3>1 DEF NeverBackwards
    <3>3. CASE j = Len(applied) + 1
      BY <2>2, <2>3, <3>2, <3>3
    <3>4. CASE j # Len(applied) + 1
      BY <2>2, <3>1, <3>2, <3>4 DEF DaemonInv, NeverBackwards
    <3> QED
      BY <3>3, <3>4
  <2>5. Typed'
    BY <1>1, <1>3, <2>2 DEF DaemonInv, Typed, SeqsTyped, ScalarsTyped, Numbers
  <2>6. FollowedIsNewer'
    <3>1. UNCHANGED <<curLog, logs, pend>>
      BY <1>1
    <3> SUFFICES ASSUME curLog # 0, Len(logs[curLog]) > 0,
                        NEW i \in 1 .. Len(applied')
                 PROVE  /\ pend <= logs[curLog][Len(logs[curLog])]
                        /\ applied'[i] <= logs[curLog][Len(logs[curLog])]
      BY <1>1, <3>1 DEF DaemonInv, FollowedIsNewer
    <3> QED
      BY <2>1, <2>2 DEF DaemonInv, FollowedIsNewer
  <2> QED
    BY <1>2, <2>4, <2>5, <2>6 DEF DaemonInv
<1>4. applied' = applied => FollowedIsNewer'
  BY <1>1 DEF DaemonInv, FollowedIsNewer
<1>5. CASE lapse' = TRUE /\ UNCHANGED <<display, last, applied>>
  <2>1. Typed'
    BY <1>1, <1>5 DEF DaemonInv, Typed, SeqsTyped, ScalarsTyped, Numbers
  <2> QED
    BY <1>1, <1>2, <1>4, <1>5, <2>1 DEF DaemonInv, NeverBackwards
<1> QED
  BY <1>3, <1>5 DEF Change

\* The other steps apply nothing and read nothing.
LEMMA OthersKeep ==
  /\ DaemonInv
  /\ \/ Hotplug \/ Restart \/ Sleep \/ SetExact \/ Escape \/ Poll
     \/ SetRes \/ SetResChange \/ UNCHANGED vars
  => DaemonInv'
<1> SUFFICES ASSUME DaemonInv,
                    \/ Hotplug \/ Restart \/ Sleep \/ SetExact \/ Escape \/ Poll
                    \/ SetRes \/ SetResChange \/ UNCHANGED vars
             PROVE  DaemonInv'
  OBVIOUS
<1>1. UNCHANGED <<logs, requests, applied>>
  BY DEF Hotplug, Restart, Sleep, SetExact, Escape, Poll, SetRes, SetResChange,
         vars, external
<1>2. LogsInStep' /\ NeverBackwards'
  BY <1>1 DEF DaemonInv, LogsInStep, NeverBackwards
<1>3. age' # None => age # None /\ pend' = pend
  BY DEF Hotplug, Restart, Sleep, SetExact, Escape, Poll, SetRes, SetResChange, Return,
         vars, daemon
<1>4. PendingIsNewer'
  BY <1>1, <1>3 DEF DaemonInv, PendingIsNewer
<1>5. FollowedIsNewer'
  <2>1. CASE Restart
    BY <2>1 DEF Restart, FollowedIsNewer
  <2>2. CASE Hotplug \/ Sleep \/ SetExact \/ Escape \/ Poll \/ SetRes \/ SetResChange
             \/ UNCHANGED vars
    <3>1. UNCHANGED <<curLog, pend>>
      BY <2>2 DEF Hotplug, Sleep, SetExact, Escape, Poll, SetRes, SetResChange, vars, daemon
    <3> QED
      BY <1>1, <3>1 DEF DaemonInv, FollowedIsNewer
  <2> QED
    BY <2>1, <2>2
<1>6. Typed'
  <2> USE DEF DaemonInv, Typed, SeqsTyped, ScalarsTyped, Numbers, external, daemon
  <2>1. CASE Hotplug
    BY <2>1 DEF Hotplug
  <2>2. CASE Restart
    BY <2>2 DEF Restart, Event
  <2>3. CASE Sleep
    BY <2>3 DEF Sleep, Due
  <2>4. CASE SetExact
    BY <2>4 DEF SetExact, Due, Return, Fail
  <2>5. CASE Escape
    <3>1. Size \in Sizes
      BY <2>5 DEF Escape, Size
    <3>2. CASE preferred' = Size /\ polls' = 0 /\ pc' = "poll" /\ UNCHANGED <<age, lapse>>
      BY <2>5, <3>1, <3>2 DEF Escape
    <3>3. CASE Fail /\ Return /\ UNCHANGED <<preferred, polls>>
      BY <2>5, <3>3 DEF Escape, Return, Fail
    <3> QED
      BY <2>5, <3>2, <3>3 DEF Escape
  <2>6. CASE Poll
    <3>1. /\ polls' \in 0 .. MaxPolls /\ pc' \in {"poll", "change"}
          /\ pc' = "poll" => polls' < MaxPolls
      <4>1. polls \in 0 .. MaxPolls /\ polls < MaxPolls
        BY <2>6 DEF Poll
      <4> HIDE DEF Typed, SeqsTyped, ScalarsTyped, DaemonInv
      <4> QED
        BY <2>6, <4>1 DEF Poll
    <3>2. pc = "poll" /\ UNCHANGED <<external, preferred, curLog, pos, pend, age, last, applied,
                                    events, tool, lapse>>
      BY <2>6 DEF Poll
    <3> QED
      BY <3>1, <3>2
  <2>7. CASE UNCHANGED vars
    BY <2>7 DEF vars
  <2>8. CASE SetRes
    BY <2>8 DEF SetRes, Event
  <2>9. CASE SetResChange
    <3>1. display' \in Sizes \cup Grid
      BY <2>9 DEF SetResChange
    <3> QED
      BY <2>9, <3>1 DEF SetResChange
  <2> QED
    BY <2>1, <2>2, <2>3, <2>4, <2>5, <2>6, <2>7, <2>8, <2>9
<1> QED
  BY <1>2, <1>4, <1>5, <1>6 DEF DaemonInv

LEMMA DaemonInvariance == Spec => []DaemonInv
<1>1. DaemonInv /\ [Next]_vars => DaemonInv'
  BY RequestKeeps, LogEventKeeps, ScanKeeps, ChangeKeeps, OthersKeep DEF Next, Daemon
<1> QED
  BY <1>1, DaemonInit, PTL DEF Spec

\* The daemon's variables and the system's keep their types.
THEOREM DaemonTypeCorrect == Spec => []TypeOK
<1>1. DaemonInv => TypeOK
  BY DEF DaemonInv, Typed, SeqsTyped, ScalarsTyped, TypeOK, Numbers
<1> QED
  BY <1>1, DaemonInvariance, PTL

\* qb-resd.c:84-107: wherever the daemon is restarted and whatever logs it
\* reads again, no request is applied after a later one.
THEOREM AppliedInOrder == Spec => []NeverBackwards
<1>1. DaemonInv => NeverBackwards
  BY DEF DaemonInv
<1> QED
  BY <1>1, DaemonInvariance, PTL

=============================================================================
