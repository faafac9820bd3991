------------------------------ MODULE ModeList ------------------------------
(***************************************************************************)
(* Where the driver's list of display modes comes from and who reads it.   *)
(* CSettings (driver/CSettings.cpp) makes the list from three registry     *)
(* values; CIndirectDeviceContext copies it (PopulateDefaultModes), hands  *)
(* it to the mode callbacks of IddCx, which ask for its length first and   *)
(* for the modes in a second call, and to IddCxMonitorUpdateModes.         *)
(* SetResolution stores the mode it is asked for in the registry, where it *)
(* outlives the driver.                                                    *)
(*                                                                         *)
(* The actors are the thread that calls SetResolution ("ctl"), the thread  *)
(* on which the device enters D0, at its start and after every suspension, *)
(* the IddCx thread, an administrator who edits the Modes and              *)
(* DefaultRefresh values at any time, and restarts of the driver between   *)
(* any two steps.  A list is made in steps: the registry values are read   *)
(* one after another, the lines of Modes are parsed one by one, and the    *)
(* driver's own list is cleared and refilled mode by mode, so that a       *)
(* callback, or SetResolution while D0Entry reloads, may meet it empty or  *)
(* half full.  One callback is one step.  Both threads reload the same     *)
(* unlocked lists: two reloads at once are a data race, which is not       *)
(* modelled, so one of them waits here.                                    *)
(***************************************************************************)
EXTENDS Integers, Sequences

CONSTANTS
  Lines,       \* the texts a registry value may hold: modes, or Malformed
  Malformed,   \* any text that is not WxH@R or WxH@R*
  Absent,      \* a registry value that is not there
  Requests,    \* the sizes SetResolution is called with, as <<width, height>>
  ModesValues, \* the contents of Modes: sequences of lines, or Absent
  Refreshes,   \* the contents of DefaultRefresh: numbers, or Absent
  Defaults,    \* DefaultDisplayModes, a sequence of <<width, height>>
  Preferred,   \* the index in it of DefaultPreferredDisplayMode
  Kinds,       \* the callbacks in use: "parse" for the four that are alike in
               \* what is modelled, "target2" for MonitorQueryTargetModes2
  SaveFails,   \* whether writing the registry may fail
  MaxEvents    \* bound on requests, edits, restarts and later D0 entries together

DisplayMode == [width : Nat, height : Nat, refresh : Nat, preferred : BOOLEAN]

ASSUME ModeListAssumption ==
  /\ Malformed \notin DisplayMode /\ Absent \notin DisplayMode
  /\ Lines \subseteq DisplayMode \cup {Malformed} /\ Requests \subseteq Nat \X Nat
  /\ ModesValues \subseteq Seq(Lines) \cup {Absent}
  /\ Defaults \in Seq(Nat \X Nat) /\ Preferred \in DOMAIN Defaults
  /\ SaveFails \in BOOLEAN /\ MaxEvents \in Nat

VARIABLES
  extra, modesValue, refreshValue,  \* the registry: ExtraMode, Modes, DefaultRefresh
  settings,   \* the list CSettings makes
  starred,    \* hasPreferred, a local of LoadModes, FALSE when it is not running
  defaultRefresh, \* another, 0 when it is no longer needed
  entries,    \* the lines of Modes it has still to parse
  list,       \* m_displayModes, the driver's copy of settings
  setMode,    \* m_setMode
  ctl,        \* the ctl thread: "off" (no driver), "idle", or in SetResolution:
              \* "save", "reload" (about to), "reloading", "update"
  stage,      \* the reload in progress, on either thread: "none", "load",
              \* "modes", "parse" or "copy"
  query,      \* a callback with its buffer: [kind, room], or Absent between queries
  got,        \* what IddCx has of the last query, from its successful call
  announced,  \* the mode g_pipe.SetDisplayMode was told by the last SetResolution,
              \* with the stored mode and the list in force then, and whether
              \* that list was in place, no reload in progress
  saved,      \* history: the mode SetResolution last stored, if nothing followed
  events      \* history: requests, edits, restarts and later D0 entries so far

registry == <<extra, modesValue, refreshValue>>
making == <<settings, starred, defaultRefresh, entries>>
vars == <<registry, making, list, setMode, ctl, stage, query, got, announced, saved, events>>
-----------------------------------------------------------------------------
(* ParseModeString: its sanity check, and what it accepts.                 *)
Sane(line) ==
  /\ line.width \in 640 .. 16384 /\ line.height \in 480 .. 16384
  /\ line.refresh \in 30 .. 1000

Accepted(line) == line \notin {Malformed, Absent} /\ Sane(line)

(* GetDefaultRefresh                                                       *)
GetDefaultRefresh ==
  IF refreshValue # Absent /\ refreshValue \in 30 .. 1000 THEN refreshValue ELSE 60

(* The extra mode, if there is one that parses.                            *)
GetExtraMode == IF Accepted(extra) THEN <<extra>> ELSE << >>

(* There is a Modes value, and it has a line.                              *)
ReadModesValue == modesValue \notin {Absent, << >>}

Init ==
  /\ extra \in Lines \cup {Absent}
  /\ modesValue \in ModesValues /\ refreshValue \in Refreshes
  /\ settings = << >> /\ starred = FALSE /\ defaultRefresh = 0 /\ entries = << >>
  /\ list = << >> /\ setMode = Absent /\ ctl = "off" /\ stage = "none"
  /\ query = Absent /\ got = Absent /\ announced = Absent
  /\ saved = Absent /\ events = 0

Event == events < MaxEvents /\ events' = events + 1

(* InitAdapter: PopulateDefaultModes (102), in every D0Entry (Device.cpp   *)
(* 66): the first, and later ones wherever SetResolution is by then.       *)
Start ==
  /\ stage = "none" /\ stage' = "load"
  /\ \/ ctl = "off" /\ ctl' = "idle" /\ UNCHANGED events
     \/ ctl # "off" /\ Event /\ UNCHANGED ctl
  /\ UNCHANGED <<registry, making, list, setMode, query, got, announced, saved>>

(* The driver's host process ends, between any two steps.                  *)
Restart ==
  /\ ctl # "off" /\ Event
  /\ settings' = << >> /\ starred' = FALSE /\ defaultRefresh' = 0 /\ entries' = << >>
  /\ list' = << >> /\ setMode' = Absent /\ ctl' = "off" /\ stage' = "none"
  /\ query' = Absent /\ got' = Absent /\ announced' = Absent
  /\ UNCHANGED <<registry, saved>>

(* SetResolution 510-513                                                   *)
SetResolution ==
  /\ ctl = "idle" /\ Event /\ ctl' = "save"
  /\ \E r \in Requests :
       setMode' = [width |-> r[1], height |-> r[2],
                   refresh |-> GetDefaultRefresh, preferred |-> TRUE]
  /\ announced' = Absent
  /\ UNCHANGED <<registry, making, list, stage, query, got, saved>>

SetExtraMode_NoReload ==
  /\ ctl = "save" /\ ctl' = "update"
  /\ \/ extra' = setMode /\ saved' = setMode
     \/ SaveFails /\ UNCHANGED <<extra, saved>>
  /\ UNCHANGED <<modesValue, refreshValue, making, list, setMode, stage, query, got,
                 announced, events>>

(* 514, SetExtraMode: a failing write is logged and otherwise ignored.     *)
SetExtraMode ==
  /\ ctl = "save" /\ ctl' = "reload"
  /\ \/ extra' = setMode /\ saved' = setMode
     \/ SaveFails /\ UNCHANGED <<extra, saved>>
  /\ UNCHANGED <<modesValue, refreshValue, making, list, setMode, stage, query, got,
                 announced, events>>
-----------------------------------------------------------------------------
(* PopulateDefaultModes: the settings make their list (LoadModes), then    *)
(* the driver copies it.                                                   *)

(* LoadModes 37-47: the extra mode, if it parses, leads the list.  It is   *)
(* read in one step with DefaultRefresh, which dates the built-in modes.   *)
LoadExtraMode ==
  /\ \/ stage = "load" /\ UNCHANGED ctl
     \/ stage = "none" /\ ctl = "reload" /\ ctl' = "reloading"
  /\ stage' = "modes"
  /\ defaultRefresh' = GetDefaultRefresh
  /\ settings' = GetExtraMode
  /\ starred' = (GetExtraMode # << >> /\ extra.preferred)
  /\ UNCHANGED <<registry, entries, list, setMode, query, got, announced, saved, events>>

DefaultMode(i) == [ width |-> Defaults[i][1], height |-> Defaults[i][2],
                    refresh |-> defaultRefresh, preferred |-> ~starred /\ i = Preferred ]

(* 49-66: the lines of Modes, or the built-in list when there is none, or  *)
(* when there is one and the second of its two reads fails (251-254), say  *)
(* because it has grown since the first.                                   *)
LoadModesValue ==
  /\ stage = "modes" /\ stage' = "parse"
  /\ \/ ReadModesValue /\ entries' = modesValue /\ UNCHANGED settings
     \/ /\ entries' = << >>
        /\ settings' = settings \o [i \in DOMAIN Defaults |-> DefaultMode(i)]
  /\ defaultRefresh' = 0
  /\ UNCHANGED <<registry, starred, list, setMode, ctl, query, got, announced, saved,
                 events>>

Kept_EveryStar(line) == line

(* A preferred extra mode takes the preference from every other line.      *)
Kept(line) == [line EXCEPT !.preferred = @ /\ ~starred]

(* 69-75: one line of Modes; what does not parse is passed over.           *)
ParseLine ==
  /\ stage = "parse" /\ entries # << >> /\ entries' = Tail(entries)
  /\ settings' = IF Accepted(Head(entries)) THEN Append(settings, Kept(Head(entries)))
                                            ELSE settings
  /\ UNCHANGED <<registry, starred, defaultRefresh, list, setMode, ctl, stage, query, got,
                 announced, saved, events>>

(* 87-88: the driver's list is emptied first.                              *)
ClearModes ==
  /\ stage = "parse" /\ entries = << >> /\ stage' = "copy"
  /\ list' = << >> /\ starred' = FALSE
  /\ UNCHANGED <<registry, settings, defaultRefresh, entries, setMode, ctl, query, got,
                 announced, saved, events>>

(* 89-90                                                                   *)
CopyMode ==
  /\ stage = "copy" /\ Len(list) < Len(settings)
  /\ list' = Append(list, settings[Len(list) + 1])
  /\ UNCHANGED <<registry, making, setMode, ctl, stage, query, got, announced, saved, events>>

(* The end of PopulateDefaultModes, for SetResolution or for InitAdapter.  *)
PopulateDefaultModes ==
  /\ stage = "copy" /\ Len(list) = Len(settings) /\ stage' = "none"
  /\ ctl' = IF ctl = "reloading" THEN "update" ELSE ctl
  /\ UNCHANGED <<registry, making, list, setMode, query, got, announced, saved, events>>
-----------------------------------------------------------------------------
(* 518-525, UpdateMonitorModes: the list goes to IddCx as the target modes *)
(* and the pipe is told the new mode; or it fails, and the mode is told    *)
(* after a replug (module IndirectDisplay).                                *)
UpdateMonitorModes ==
  /\ ctl = "update" /\ ctl' = "idle"
  /\ \/ announced' = [mode |-> setMode, stored |-> extra, offered |-> list,
                       settled |-> stage = "none"]
     \/ UNCHANGED announced
  /\ UNCHANGED <<registry, making, list, setMode, stage, query, got, saved, events>>
-----------------------------------------------------------------------------
(* The mode callbacks.                                                     *)

(* The first call of a query: no buffer, only the count is answered.  For  *)
(* MonitorQueryTargetModes2 no modes fit into no buffer, and the missing   *)
(* buffer is an error (413-414), which ends the query.                     *)
QueryCount ==
  /\ ctl # "off" /\ query = Absent
  /\ \E k \in Kinds :
       query' = IF k = "target2" /\ list = << >> THEN Absent
                ELSE [kind |-> k, room |-> Len(list)]
  /\ got' = Absent
  /\ UNCHANGED <<registry, making, list, setMode, ctl, stage, announced, saved, events>>

TooSmall_Never == FALSE

(* The check at the head of every callback.                                *)
TooSmall == query.room < Len(list)

PreferredIdx_MinusOne ==
  LET stars == {i \in DOMAIN list : list[i].preferred}
  IN  IF stars = {} THEN -1 ELSE (CHOOSE i \in stars : \A j \in stars : j <= i) - 1

(* The last preferred mode of the list, counted from zero; 0 without one.  *)
PreferredIdx ==
  LET stars == {i \in DOMAIN list : list[i].preferred}
  IN  IF stars = {} THEN 0 ELSE (CHOOSE i \in stars : \A j \in stars : j <= i) - 1

(* The answer with every mode, and the one with their number alone.        *)
Filled  == [kind |-> query.kind, count |-> Len(list), room |-> query.room,
            modes |-> list, preferred |-> PreferredIdx]
Counted == [kind |-> query.kind, count |-> Len(list), room |-> query.room,
            modes |-> << >>, preferred |-> 0]

(* The second call, with a buffer for as many modes as the first one       *)
(* counted.  A list that has grown since does not fit: the caller is told  *)
(* and asks again, except that MonitorQueryTargetModes2 reports success.   *)
QueryFill ==
  /\ query # Absent
  /\ \/ /\ ~TooSmall
        /\ got' = Filled /\ query' = Absent
     \/ /\ TooSmall /\ query.room > 0 /\ query.kind # "target2"
        /\ query' = [query EXCEPT !.room = Len(list)] /\ UNCHANGED got
     \/ /\ TooSmall /\ (query.room = 0 \/ query.kind = "target2")
        /\ got' = Counted /\ query' = Absent
  /\ UNCHANGED <<registry, making, list, setMode, ctl, stage, announced, saved, events>>

(* The administrator edits Modes or DefaultRefresh.                        *)
Edit ==
  /\ Event
  /\ modesValue' \in ModesValues /\ refreshValue' \in Refreshes
  /\ UNCHANGED <<extra, making, list, setMode, ctl, stage, query, got, announced, saved>>

Next == \/ Start \/ Restart
        \/ SetResolution \/ SetExtraMode \/ UpdateMonitorModes
        \/ LoadExtraMode \/ LoadModesValue \/ ParseLine
        \/ ClearModes \/ CopyMode \/ PopulateDefaultModes
        \/ QueryCount \/ QueryFill
        \/ Edit

Spec == Init /\ [][Next]_vars
-----------------------------------------------------------------------------
Answer == [kind : Kinds, count : Nat, room : Nat, modes : Seq(DisplayMode),
           preferred : Nat]

(* Every variable has its type; an answer names a mode by an index that is *)
(* never negative.                                                         *)
TypeOK ==
  /\ extra \in DisplayMode \cup {Malformed, Absent}
  /\ modesValue \in ModesValues /\ refreshValue \in Refreshes
  /\ settings \in Seq(DisplayMode) /\ starred \in BOOLEAN /\ defaultRefresh \in Nat
  /\ entries \in Seq(Lines)
  /\ list \in Seq(DisplayMode) /\ setMode \in DisplayMode \cup {Absent}
  /\ ctl \in {"off", "idle", "save", "reload", "reloading", "update"}
  /\ stage \in {"none", "load", "modes", "parse", "copy"}
  /\ query \in [kind : Kinds, room : Nat] \cup {Absent}
  /\ got \in Answer \cup {Absent}
  /\ announced \in [mode : DisplayMode, stored : DisplayMode \cup {Malformed, Absent},
                    offered : Seq(DisplayMode), settled : BOOLEAN] \cup {Absent}
  /\ saved \in DisplayMode \cup {Absent} /\ events \in 0 .. MaxEvents

(* The resolution stored last is the first and only preferred mode of      *)
(* every list the driver works with between two reloads, however the other *)
(* values are edited, wherever the driver was stopped and whenever it      *)
(* enters D0, except while SetResolution has stored a mode and not yet     *)
(* reloaded (LoadModes 42-75, SetResolution 514-516): a reload of D0Entry  *)
(* that read the old mode is followed by that of SetResolution.            *)
RequestSurvives ==
  stage = "none" /\ ctl \in {"idle", "save", "update"} /\ Accepted(saved) =>
    /\ list # << >> /\ list[1] = saved
    /\ \A i \in DOMAIN list : list[i].preferred => i = 1

(* What the pipe is told to display is among the modes IddCx was offered   *)
(* in the same call (516-523), unless it could not be stored, is not a     *)
(* mode LoadModes reads back, or D0Entry was reloading the list just then. *)
AnnouncedIsOffered ==
  announced # Absent /\ announced.settled /\ announced.stored = announced.mode
  /\ Accepted(announced.mode) =>
    \E i \in DOMAIN announced.offered : announced.offered[i] = announced.mode

(* A query that succeeds was answered in full: no more modes than there    *)
(* was room for, as many as the answer claims, and the preferred index is  *)
(* that of a preferred mode if there is one, although the list may have    *)
(* been replaced between the two calls (310-403).                          *)
AnsweredInFull ==
  got # Absent /\ got.kind # "target2" /\ got.room > 0 =>
    /\ Len(got.modes) <= got.room /\ Len(got.modes) = got.count
    /\ (\E i \in DOMAIN got.modes : got.modes[i].preferred) =>
         got.preferred + 1 \in DOMAIN got.modes /\ got.modes[got.preferred + 1].preferred
=============================================================================
