------------------------------- MODULE QbResd -------------------------------
(***************************************************************************)
(* um/qb-resd.c: the daemon that follows the gui-agent's log, waits until  *)
(* the requested size has been quiet for a while, and sets exactly that    *)
(* size through the display driver's SetPreferredMode escape and           *)
(* ChangeDisplaySettings; and um/set-res.c, which does the same once, for  *)
(* the size it is given, beside the daemon.                                *)
(*                                                                         *)
(* External, modelled from what the daemon uses of them: the gui-agent,    *)
(* which logs a request and then sets the advertised grid mode it finds    *)
(* closest, as one step; and the display driver, which after the escape    *)
(* advertises the preferred size and the grid modes up to it (the comment  *)
(* at qb-resd.c:5), some time later.  Sizes are numbers ordered as areas.  *)
(* A line of the log is written and read whole.  Time is counted in passes *)
(* of the daemon's loop.                                                   *)
(***************************************************************************)
EXTENDS Integers, Sequences

CONSTANTS
  Sizes,        \* the sizes the agent may request
  Grid,         \* the sizes the driver always knows
  None,         \* no size
  Quiet,        \* the debounce, in passes of the loop
  MaxPolls,     \* how often SetExact looks for the new mode (25)
  MaxRequests, MaxEvents,  \* bounds: requests; restarts, new logs, runs of set-res
  Repeats,      \* whether a size may be requested again
  SlowHotplug,  \* whether the new mode may appear after the last poll
  Fails         \* whether the calls into the display system may fail

ASSUME QbResdAssumption ==
  /\ Sizes \subseteq Nat /\ Grid \subseteq Nat
  /\ \E g \in Grid : \A k \in Grid : k <= g
  /\ {Quiet, MaxPolls, MaxRequests, MaxEvents} \subseteq Nat /\ MaxPolls > 0
  /\ {Repeats, SlowHotplug, Fails} \subseteq BOOLEAN

VARIABLES
  logs,        \* the log files, oldest first: sequences of request numbers
  requests,    \* the sizes requested so far; a request's number is its index
  display,     \* the size on the screen
  advertised,  \* the preferred size the driver's mode list was last made for
  preferred,   \* the preferred size the escape has set
  curLog,      \* the index of the log followed, 0 before the first
  pos,         \* how much of it has been read
  pend,        \* the pending request's number
  age,         \* passes since it was read; None when pendTick is 0
  last,        \* g_lastW x g_lastH
  pc,          \* "scan", "check", "escape", "poll", "change"
  polls,       \* turns of SetExact's polling loop
  applied,     \* history: the numbers of the requests applied, in that order
  events,      \* history: restarts, truncations, new logs and runs of set-res
  tool,        \* the size a running set-res waits for
  lapse        \* history: a call has failed, a log was left or cut short, or
               \* set-res was run

external == <<logs, requests, display, advertised>>
daemon   == <<curLog, pos, pend, age, last, pc, polls>>
vars == <<external, preferred, daemon, applied, events, tool, lapse>>

Largest == CHOOSE g \in Grid : \A k \in Grid : k <= g
Modes   == {g \in Grid : g <= advertised} \cup {advertised}

Init ==
  /\ logs = << << >> >> /\ requests = << >>
  /\ display = Largest /\ advertised = Largest /\ preferred = Largest
  /\ curLog = 0 /\ pos = 0 /\ pend = 0 /\ age = None /\ last = None
  /\ pc = "scan" /\ polls = 0
  /\ applied = << >> /\ events = 0 /\ tool = None /\ lapse = FALSE
-----------------------------------------------------------------------------
(* The agent and the system.                                               *)

Used == {requests[i] : i \in DOMAIN requests}

(* The agent logs the size it was asked for and snaps to a grid mode that  *)
(* is advertised, or stays where it is when none fits.                     *)
Request ==
  /\ Len(requests) < MaxRequests
  /\ \E s \in IF Repeats THEN Sizes ELSE Sizes \ Used : requests' = Append(requests, s)
  /\ logs' = [logs EXCEPT ![Len(logs)] = Append(@, Len(requests) + 1)]
  /\ display' \in {display} \cup (Modes \cap Grid)
  /\ UNCHANGED <<advertised, preferred, daemon, applied, events, tool, lapse>>

Event == events < MaxEvents /\ events' = events + 1

(* A new session of the agent starts a log of its own.                     *)
NewLog ==
  /\ Event /\ lapse' = TRUE
  /\ logs' = Append(logs, << >>)
  /\ UNCHANGED <<requests, display, advertised, preferred, daemon, applied, tool>>

Truncate ==
  /\ Event /\ lapse' = TRUE
  /\ logs' = [logs EXCEPT ![Len(logs)] = << >>]
  /\ UNCHANGED <<requests, display, advertised, preferred, daemon, applied, tool>>

(* The synthetic hotplug is over: the modes are enumerated anew.           *)
Hotplug ==
  /\ advertised # preferred /\ advertised' = preferred
  /\ UNCHANGED <<logs, requests, display, preferred, daemon, applied, events, tool,
                 lapse>>

(* The daemon is ended and started again, with the state of 17 and 78-80.  *)
Restart ==
  /\ Event
  /\ curLog' = 0 /\ pos' = 0 /\ pend' = 0 /\ age' = None /\ last' = None
  /\ pc' = "scan" /\ polls' = 0
  /\ UNCHANGED <<external, preferred, applied, tool, lapse>>
-----------------------------------------------------------------------------
(* The daemon.                                                             *)

NewestLog_Any == 1 .. Len(logs)

(* NewestLog: the file written last, which is the one created last, as the *)
(* agent writes only the log of its own session.  When the search fails,   *)
(* the log followed so far, if any, is kept.                               *)
NewestLog == {Len(logs)} \cup {n \in {curLog} : Fails}

(* 89-103: start over in a log that has become shorter; read to the end,   *)
(* the last request found becoming the pending one.                        *)
ReadLog(n, start) ==
  LET from == IF Len(logs[n]) < start THEN 0 ELSE start
  IN  /\ pos' = Len(logs[n])
      /\ IF from < Len(logs[n])
           THEN pend' = logs[n][Len(logs[n])] /\ age' = 0
           ELSE UNCHANGED <<pend, age>>

(* 83-106: a newer log is followed from its beginning, and is read if it   *)
(* can be opened.                                                          *)
Scan ==
  /\ pc = "scan" /\ pc' = "check"
  /\ \E n \in NewestLog :
       LET start == IF n = curLog THEN pos ELSE 0
       IN  /\ curLog' = n
           /\ \/ n # 0 /\ ReadLog(n, start) /\ lapse' = (lapse \/ n # Len(logs))
              \/ /\ n = 0 \/ Fails
                 /\ pos' = start /\ lapse' = TRUE /\ UNCHANGED <<pend, age>>
  /\ UNCHANGED <<external, preferred, last, polls, applied, events, tool>>

Size == requests[pend]
Return == pc' = "scan" /\ age' = None

Fail == Fails /\ lapse' = TRUE

Due == age # None /\ age > Quiet

(* 107-108 with nothing due: sleep.                                        *)
Sleep ==
  /\ pc = "check" /\ ~Due /\ pc' = "scan"
  /\ age' = IF age = None THEN None ELSE age + 1
  /\ UNCHANGED <<external, preferred, curLog, pos, pend, last, polls, applied,
                 events, tool, lapse>>

(* 25: the size that was set last is taken to be set still.                *)
Cached == Size = last

(* 107 and 25-31: nothing to do, or the adapter cannot be opened, or the   *)
(* escape follows.  However SetExact ends, the request is forgotten.       *)
SetExact ==
  /\ pc = "check" /\ Due
  /\ \/ Cached /\ Return /\ UNCHANGED lapse
     \/ ~Cached /\ Fail /\ Return
     \/ ~Cached /\ pc' = "escape" /\ UNCHANGED <<age, lapse>>
  /\ UNCHANGED <<external, preferred, curLog, pos, pend, last, polls, applied,
                 events, tool>>

(* 33-41                                                                   *)
Escape ==
  /\ pc = "escape"
  /\ \/ preferred' = Size /\ polls' = 0 /\ pc' = "poll" /\ UNCHANGED <<age, lapse>>
     \/ Fail /\ Return /\ UNCHANGED <<preferred, polls>>
  /\ UNCHANGED <<external, curLog, pos, pend, last, applied, events, tool>>

(* The hotplug is late, or another escape has replaced the size.           *)
MayMiss(size) == SlowHotplug \/ preferred # size

Poll_OneTurnTooMany ==
  /\ pc = "poll"
  /\ \/ Size \in Modes /\ pc' = "change" /\ UNCHANGED polls
     \/ /\ Size \notin Modes /\ MayMiss(Size)
        /\ polls' = polls + 1
        /\ pc' = IF polls' > MaxPolls THEN "change" ELSE "poll"
  /\ UNCHANGED <<external, preferred, curLog, pos, pend, age, last, applied, events,
                 tool, lapse>>

(* 43-50: until the mode is enumerated, or MaxPolls turns have passed.     *)
Poll ==
  /\ pc = "poll"
  /\ \/ Size \in Modes /\ pc' = "change" /\ UNCHANGED polls
     \/ /\ Size \notin Modes /\ MayMiss(Size)
        /\ polls' = polls + 1
        /\ pc' = IF polls' = MaxPolls THEN "change" ELSE "poll"
  /\ UNCHANGED <<external, preferred, curLog, pos, pend, age, last, applied, events,
                 tool, lapse>>

Change_NotSet ==
  /\ pc = "change" /\ Return
  /\ last' = Size
  /\ UNCHANGED <<external, preferred, curLog, pos, pend, polls, applied, events,
                 tool, lapse>>

(* 51-56 and 107: the mode is set if it is enumerated; the cache follows.  *)
Change ==
  /\ pc = "change" /\ Return
  /\ \/ /\ Size \in Modes
        /\ display' = Size /\ last' = Size /\ applied' = Append(applied, pend)
        /\ UNCHANGED lapse
     \/ /\ Size \notin Modes \/ Fails
        /\ lapse' = TRUE /\ UNCHANGED <<display, last, applied>>
  /\ UNCHANGED <<logs, requests, advertised, preferred, curLog, pos, pend, polls,
                 events, tool>>

(* set-res up to its escape, the outcome of which is only printed.         *)
SetRes ==
  /\ tool = None
  /\ Event /\ lapse' = TRUE
  /\ tool' \in Sizes
  /\ preferred' \in {tool'} \cup {p \in {preferred} : Fails}
  /\ UNCHANGED <<external, daemon, applied>>

(* The rest of set-res: the mode is enumerated, or 25 turns have passed;   *)
(* either way ChangeDisplaySettings is called, which takes only a mode     *)
(* there is.                                                               *)
SetResChange ==
  /\ tool # None /\ tool' = None
  /\ tool \in Modes \/ MayMiss(tool)
  /\ display' \in (Modes \cap {tool}) \cup {d \in {display} : tool \notin Modes \/ Fails}
  /\ UNCHANGED <<logs, requests, advertised, preferred, daemon, applied, events,
                 lapse>>
-----------------------------------------------------------------------------
Daemon == Scan \/ Sleep \/ SetExact \/ Escape \/ Poll \/ Change

Next ==
  \/ Request \/ NewLog \/ Truncate \/ Hotplug \/ Restart
  \/ SetRes \/ SetResChange
  \/ Daemon

Spec == Init /\ [][Next]_vars

(* The daemon's loop never ends by itself, and a hotplug completes.        *)
FairSpec == Spec /\ WF_vars(Daemon) /\ WF_vars(Hotplug)
-----------------------------------------------------------------------------
Numbers == 1 .. Len(requests)

(* Every variable has its type; in particular what has been read never     *)
(* exceeds the requests there are.                                         *)
TypeOK ==
  /\ requests \in Seq(Sizes) /\ logs \in Seq(Seq(Numbers))
  /\ {display, advertised, preferred} \subseteq Sizes \cup Grid
  /\ curLog \in 0 .. Len(logs) /\ pos \in 0 .. MaxRequests
  /\ pend \in Numbers \cup {0} /\ (pend = 0 => age = None)
  /\ age \in 0 .. Quiet + 1 \cup {None} /\ last \in Sizes \cup {None}
  /\ pc \in {"scan", "check", "escape", "poll", "change"} /\ polls \in 0 .. MaxPolls
  /\ applied \in Seq(Numbers) /\ events \in 0 .. MaxEvents
  /\ tool \in Sizes \cup {None} /\ lapse \in BOOLEAN

(* The screen is never set back to an earlier request after a later one,   *)
(* although a restart or a new or shortened log is read from its beginning *)
(* (84, 89, 107).                                                          *)
NeverBackwards ==
  \A i, j \in DOMAIN applied : i < j => applied[i] <= applied[j]

(* Once the agent makes no more requests, the screen gets the size of the  *)
(* last one exactly, whatever the agent has snapped to in between and      *)
(* wherever the daemon was restarted, and keeps it, unless a call failed,  *)
(* the request was in a log left or cut short, or set-res was run (the     *)
(* comment at the head of the file, 3-7).                                  *)
ExactApplied ==
  <>lapse \/ <>[](requests = << >> \/ display = requests[Len(requests)])
=============================================================================
