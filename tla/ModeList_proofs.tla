--------------------------- MODULE ModeList_proofs ---------------------------
(***************************************************************************)
(* Proofs about module ModeList, for every content of the registry, every  *)
(* built-in list and any number of requests, edits and restarts.           *)
(*                                                                         *)
(* The argument about a stored request follows it through a reload: it is  *)
(* the stored ExtraMode, it leads the settings' list while that is made    *)
(* and copied, and leads the driver's list when the reload is over.  A     *)
(* reload of D0Entry may have read the mode stored before; SetResolution   *)
(* has then not begun its own (ctl is "reload"), which the invariant       *)
(* leaves out.                                                             *)
(***************************************************************************)
EXTENDS ModeList, TLAPS, WellFoundedInduction, SequenceTheorems

(* A list made with the extra mode in force: that mode comes first and, if *)
(* it is preferred, alone is.                                              *)
LedByExtra(l) ==
  Accepted(extra) =>
    /\ l # << >> /\ l[1] = extra
    /\ extra.preferred => \A i \in DOMAIN l : l[i].preferred => i = 1

SettingsInv ==
  ctl # "reload" =>
    /\ stage \in {"modes", "parse", "copy"} => LedByExtra(settings)
    /\ stage \in {"modes", "parse"} /\ Accepted(extra) => starred = extra.preferred

ListInv ==
  /\ stage = "copy" => /\ Len(list) <= Len(settings)
                       /\ \A i \in 1 .. Len(list) : list[i] = settings[i]
  /\ stage = "none" /\ ctl \in {"idle", "save", "update"} => LedByExtra(list)

RequestInv ==
  /\ setMode # Absent => setMode.preferred
  /\ ctl \in {"save", "reload", "reloading", "update"} => setMode # Absent
  /\ ctl = "off" => stage = "none"
  /\ saved # Absent => saved = extra /\ saved.preferred

ModeListInv ==
  TypeOK /\ SettingsInv /\ ListInv /\ RequestInv /\ AnnouncedIsOffered /\ AnsweredInFull
-----------------------------------------------------------------------------
(* The least and the greatest number of a set.                             *)

LEMMA LeastNatural ==
  ASSUME NEW S, S \subseteq Nat, S # {}
  PROVE  \E x \in S : \A y \in S : x <= y
<1> DEFINE R == OpToRel(<, Nat)
<1>1. \A x \in Nat, y \in Nat : y < x => <<y, x>> \in R
  BY DEF OpToRel
<1>2. \E x \in S : \A y \in S : ~ (<<y, x>> \in R)
  <2>1. IsWellFoundedOn(R, Nat)
    BY NatLessThanWellFounded
  <2> HIDE DEF R
  <2> QED BY <2>1, WFMin
<1> HIDE DEF R
<1>3. PICK x \in S : \A y \in S : ~ (<<y, x>> \in R)
  BY <1>2
<1>4. ASSUME NEW y \in S PROVE x <= y
  <2>1. x \in Nat /\ y \in Nat
    OBVIOUS
  <2>2. ~ (y < x)
    BY <1>1, <1>3, <2>1
  <2> QED BY <2>1, <2>2
<1> QED BY <1>4

LEMMA GreatestIndex ==
  ASSUME NEW n \in Nat, NEW S, S \subseteq 1 .. n, S # {}
  PROVE  \E x \in S : \A y \in S : y <= x
<1> DEFINE Bounds == {k \in Nat : \A y \in S : y <= k}
<1>1. n \in Bounds
  OBVIOUS
<1>2. PICK m \in Bounds : \A k \in Bounds : m <= k
  <2>1. Bounds \subseteq Nat
    OBVIOUS
  <2> HIDE DEF Bounds
  <2> QED BY <1>1, <2>1, LeastNatural
<1>3. m >= 1
  <2>1. PICK y \in S : TRUE
    OBVIOUS
  <2> QED BY <2>1
<1>4. m - 1 \notin Bounds
  BY <1>2, <1>3
<1>5. PICK y \in S : y > m - 1
  BY <1>3, <1>4
<1>6. y = m
  BY <1>5, <1>2
<1> QED BY <1>6, <1>2
-----------------------------------------------------------------------------
(* What the helpers return.                                                *)

LEMMA AcceptedIsLine ==
  ASSUME NEW line, Accepted(line)
  PROVE  line \notin {Malformed, Absent}
BY DEF Accepted

LEMMA AcceptedIsMode ==
  ASSUME NEW line \in DisplayMode \cup {Malformed, Absent}, Accepted(line)
  PROVE  line \in DisplayMode
BY AcceptedIsLine

LEMMA RefreshType == GetDefaultRefresh \in Nat
BY DEF GetDefaultRefresh

LEMMA PreferredIdxPoints ==
  ASSUME list \in Seq(DisplayMode)
  PROVE  /\ PreferredIdx \in Nat
         /\ (\E i \in DOMAIN list : list[i].preferred) =>
              /\ PreferredIdx + 1 \in DOMAIN list
              /\ list[PreferredIdx + 1].preferred
<1> DEFINE stars == {i \in DOMAIN list : list[i].preferred}
<1>1. CASE stars = {}
  BY <1>1 DEF PreferredIdx
<1>2. CASE stars # {}
  <2> DEFINE last == CHOOSE i \in stars : \A j \in stars : j <= i
  <2>1. DOMAIN list = 1 .. Len(list) /\ Len(list) \in Nat
    OBVIOUS
  <2>2. \E i \in stars : \A j \in stars : j <= i
    <3>1. stars \subseteq 1 .. Len(list)
      BY <2>1
    <3> HIDE DEF stars
    <3> QED BY <1>2, <2>1, <3>1, GreatestIndex
  <2>3. last \in stars
    <3> HIDE DEF stars
    <3> QED BY <2>2
  <2>4. PreferredIdx = last - 1
    BY <1>2 DEF PreferredIdx
  <2>5. last \in 1 .. Len(list) /\ list[last].preferred
    BY <2>1, <2>3
  <2> HIDE DEF last, stars
  <2> QED BY <2>1, <2>4, <2>5
<1> QED BY <1>1, <1>2
-----------------------------------------------------------------------------
(* Type correctness.                                                       *)

LEMMA KeptType ==
  ASSUME NEW line \in DisplayMode, starred \in BOOLEAN
  PROVE  Kept(line) \in DisplayMode /\ (~starred => Kept(line) = line)
         /\ (starred => ~Kept(line).preferred)
BY DEF Kept, DisplayMode

LEMMA BuiltInType ==
  ASSUME TypeOK
  PROVE  [i \in DOMAIN Defaults |-> DefaultMode(i)] \in Seq(DisplayMode)
<1>1. DOMAIN Defaults = 1 .. Len(Defaults) /\ Len(Defaults) \in Nat
  BY ModeListAssumption DEF ModeListAssumption
<1>2. ASSUME NEW i \in DOMAIN Defaults PROVE DefaultMode(i) \in DisplayMode
  <2>1. Defaults[i] \in Nat \X Nat
    BY <1>1, ElementOfSeq, ModeListAssumption DEF ModeListAssumption
  <2>2. Defaults[i][1] \in Nat /\ Defaults[i][2] \in Nat
    BY <2>1
  <2> QED BY <2>2 DEF DefaultMode, DisplayMode, TypeOK
<1> QED BY <1>1, <1>2, IsASeq

LEMMA TypeInit == Init => TypeOK
<1> SUFFICES ASSUME Init PROVE TypeOK
  OBVIOUS
<1>1. extra \in DisplayMode \cup {Malformed, Absent}
  BY ModeListAssumption DEF ModeListAssumption, Init
<1>2. << >> \in Seq(DisplayMode) /\ << >> \in Seq(Lines)
  OBVIOUS
<1>3. MaxEvents \in Nat
  BY ModeListAssumption DEF ModeListAssumption
<1>4. events \in 0 .. MaxEvents
  BY <1>3 DEF Init
<1>5. settings \in Seq(DisplayMode) /\ list \in Seq(DisplayMode) /\ entries \in Seq(Lines)
  BY <1>2 DEF Init
<1>6. defaultRefresh \in Nat
  BY DEF Init
<1> QED BY <1>1, <1>4, <1>5, <1>6, Zenon DEF Init, TypeOK

LEMMA TypeStep == TypeOK /\ RequestInv /\ [Next]_vars => TypeOK'
<1> SUFFICES ASSUME TypeOK, RequestInv, [Next]_vars PROVE TypeOK'
  OBVIOUS
<1>0. << >> \in Seq(DisplayMode) /\ << >> \in Seq(Lines)
  OBVIOUS
<1> USE DEF TypeOK, registry, making
<1>e. Event => events' \in 0 .. MaxEvents
  BY ModeListAssumption DEF Event, ModeListAssumption
<1>1. CASE Start
  BY <1>1, <1>e DEF Start
<1>2. CASE Restart
  BY <1>2, <1>0, <1>e DEF Restart
<1>3. CASE SetResolution
  <2>1. setMode' \in DisplayMode
    BY <1>3, RefreshType, ModeListAssumption
       DEF SetResolution, DisplayMode, ModeListAssumption
  <2> QED BY <1>3, <1>e, <2>1 DEF SetResolution
<1>4. CASE SetExtraMode
  BY <1>4 DEF SetExtraMode
<1>5. CASE LoadExtraMode
  <2>1. GetExtraMode \in Seq(DisplayMode)
    BY AcceptedIsMode DEF GetExtraMode
  <2> QED BY <1>5, <2>1, RefreshType DEF LoadExtraMode
<1>6. CASE LoadModesValue
  <2>1. CASE ReadModesValue /\ entries' = modesValue /\ UNCHANGED settings
    <3>1. entries' \in Seq(Lines)
      BY <2>1, ModeListAssumption DEF ModeListAssumption, ReadModesValue
    <3> QED BY <1>6, <2>1, <3>1 DEF LoadModesValue
  <2>2. CASE /\ entries' = << >>
            /\ settings' = settings \o [i \in DOMAIN Defaults |-> DefaultMode(i)]
    <3>1. entries' = << >>
      BY <2>2
    <3>2. settings' = settings \o [i \in DOMAIN Defaults |-> DefaultMode(i)]
      BY <2>2
    <3>3. [i \in DOMAIN Defaults |-> DefaultMode(i)] \in Seq(DisplayMode)
      BY BuiltInType
    <3>4. settings' \in Seq(DisplayMode)
      BY <3>2, <3>3, ConcatProperties
    <3> QED BY <1>6, <1>0, <3>1, <3>4 DEF LoadModesValue
  <2> QED BY <1>6, <2>1, <2>2 DEF LoadModesValue
<1>7. CASE ParseLine
  <2>1. entries' \in Seq(Lines) /\ Head(entries) \in Lines
    BY <1>7, HeadTailProperties DEF ParseLine
  <2>2. Accepted(Head(entries)) => Kept(Head(entries)) \in DisplayMode
    <3>1. Head(entries) \in DisplayMode \cup {Malformed, Absent}
      BY <2>1, ModeListAssumption DEF ModeListAssumption
    <3> QED BY <3>1, AcceptedIsMode, KeptType
  <2>3. settings' \in Seq(DisplayMode)
    BY <1>7, <2>2, AppendProperties DEF ParseLine
  <2> QED BY <1>7, <2>1, <2>3 DEF ParseLine
<1>8. CASE ClearModes
  BY <1>8, <1>0 DEF ClearModes
<1>9. CASE CopyMode
  <2>1. settings[Len(list) + 1] \in DisplayMode
    BY <1>9, ElementOfSeq DEF CopyMode
  <2>2. list' \in Seq(DisplayMode)
    BY <1>9, <2>1, AppendProperties DEF CopyMode
  <2> QED BY <1>9, <2>2 DEF CopyMode
<1>10. CASE PopulateDefaultModes
  BY <1>10 DEF PopulateDefaultModes
<1>11. CASE UpdateMonitorModes
  <2>0. setMode \in DisplayMode
    BY <1>11 DEF UpdateMonitorModes, RequestInv
  <2>1. announced' \in
          [mode : DisplayMode, stored : DisplayMode \cup {Malformed, Absent},
           offered : Seq(DisplayMode), settled : BOOLEAN] \cup {Absent}
    <3>1. CASE UNCHANGED announced
      BY <3>1
    <3>2. CASE announced' = [mode |-> setMode, stored |-> extra, offered |-> list,
                             settled |-> stage = "none"]
      <4>1. (stage = "none") \in BOOLEAN
        OBVIOUS
      <4>2. extra \in DisplayMode \cup {Malformed, Absent} /\ list \in Seq(DisplayMode)
        OBVIOUS
      <4> QED BY <2>0, <3>2, <4>1, <4>2, Zenon
    <3> QED BY <1>11, <3>1, <3>2 DEF UpdateMonitorModes
  <2> QED BY <1>11, <2>1 DEF UpdateMonitorModes
<1>12. CASE QueryCount
  BY <1>12 DEF QueryCount
<1>13. CASE QueryFill
  <2>1. query \in [kind : Kinds, room : Nat]
    BY <1>13 DEF QueryFill
  <2>2. Filled \in Answer /\ Counted \in Answer
    BY <2>1, PreferredIdxPoints DEF Filled, Counted, Answer
  <2>3. got' \in Answer \cup {Absent} /\ query' \in [kind : Kinds, room : Nat] \cup {Absent}
    BY <1>13, <2>1, <2>2 DEF QueryFill
  <2> QED BY <1>13, <2>3 DEF QueryFill
<1>14. CASE Edit
  BY <1>14, <1>e DEF Edit
<1>15. CASE UNCHANGED vars
  BY <1>15 DEF vars
<1> QED
  BY <1>1, <1>2, <1>3, <1>4, <1>5, <1>6, <1>7, <1>8, <1>9, <1>10, <1>11, <1>12, <1>13,
     <1>14, <1>15 DEF Next
-----------------------------------------------------------------------------
(* A reload keeps the extra mode at the head of the list it makes.         *)

LEMMA SettingsStep ==
  TypeOK /\ RequestInv /\ SettingsInv /\ [Next]_vars => SettingsInv'
<1> SUFFICES ASSUME TypeOK, RequestInv, SettingsInv, [Next]_vars PROVE SettingsInv'
  OBVIOUS
<1> USE DEF SettingsInv, registry, making
<1>1. CASE LoadExtraMode
  <2>1. Accepted(extra) => settings' = <<extra>> /\ starred' = extra.preferred
    <3>1. Accepted(extra) => extra.preferred \in BOOLEAN
      BY AcceptedIsMode DEF TypeOK, DisplayMode
    <3>2. Accepted(extra) => GetExtraMode = <<extra>>
      BY DEF GetExtraMode
    <3> QED BY <1>1, <3>1, <3>2 DEF LoadExtraMode
  <2>2. extra' = extra
    BY <1>1 DEF LoadExtraMode
  <2>3. Accepted(extra) =>
          \A i \in DOMAIN settings' : settings'[i].preferred => i = 1
    BY <2>1
  <2>4. LedByExtra(settings)'
    BY <2>1, <2>2, <2>3 DEF LedByExtra
  <2> QED BY <1>1, <2>1, <2>2, <2>4 DEF LoadExtraMode
<1>2. CASE LoadModesValue
  <2>0. CASE ctl = "reload"
    BY <1>2, <2>0 DEF LoadModesValue
  <2>1. /\ extra' = extra /\ starred' = starred /\ ctl' = ctl
        /\ stage = "modes" /\ stage' = "parse"
    BY <1>2 DEF LoadModesValue
  <2>2. CASE UNCHANGED settings
    BY <2>1, <2>2 DEF LedByExtra
  <2>3. CASE /\ ctl # "reload"
             /\ settings' = settings \o [i \in DOMAIN Defaults |-> DefaultMode(i)]
    <3> DEFINE builtIn == [i \in DOMAIN Defaults |-> DefaultMode(i)]
    <3>1. settings' = settings \o builtIn
      BY <2>3
    <3>2. builtIn \in Seq(DisplayMode) /\ settings \in Seq(DisplayMode)
      BY BuiltInType DEF TypeOK
    <3>3. starred => \A i \in DOMAIN builtIn : ~builtIn[i].preferred
      BY DEF DefaultMode
    <3> HIDE DEF builtIn
    <3>4. /\ Len(settings') = Len(settings) + Len(builtIn)
          /\ \A i \in 1 .. Len(settings) : settings'[i] = settings[i]
          /\ \A i \in (Len(settings) + 1) .. (Len(settings) + Len(builtIn)) :
               settings'[i] = builtIn[i - Len(settings)]
      BY <3>1, <3>2, ConcatProperties
    <3>5. settings' \in Seq(DisplayMode)
      BY <3>1, <3>2, ConcatProperties
    <3>6. ASSUME Accepted(extra) PROVE settings' # << >> /\ settings'[1] = extra
      <4>1. settings # << >> /\ settings[1] = extra
        BY <2>1, <2>3, <3>6 DEF LedByExtra
      <4> QED BY <3>2, <3>4, <3>5, <4>1
    <3>7. ASSUME Accepted(extra), extra.preferred, NEW i \in DOMAIN settings',
                 settings'[i].preferred
          PROVE  i = 1
      <4>1. starred /\ \A j \in DOMAIN settings : settings[j].preferred => j = 1
        BY <2>1, <2>3, <3>7 DEF LedByExtra
      <4>2. CASE i \in 1 .. Len(settings)
        BY <3>2, <3>4, <3>7, <4>1, <4>2
      <4>3. CASE i > Len(settings)
        <5>1. i \in (Len(settings) + 1) .. (Len(settings) + Len(builtIn))
          BY <3>2, <3>4, <3>5, <4>3
        <5>2. i - Len(settings) \in DOMAIN builtIn
          BY <3>2, <5>1
        <5> QED BY <3>3, <3>4, <3>7, <4>1, <5>1, <5>2
      <4> QED BY <3>2, <3>5, <4>2, <4>3
    <3>8. LedByExtra(settings)'
      BY <2>1, <3>6, <3>7 DEF LedByExtra
    <3> QED BY <2>1, <2>3, <3>8
  <2> QED BY <1>2, <2>0, <2>2, <2>3 DEF LoadModesValue
<1>3. CASE ParseLine
  <2>0. CASE ctl = "reload"
    BY <1>3, <2>0 DEF ParseLine
  <2>1. /\ extra' = extra /\ starred' = starred /\ ctl' = ctl
        /\ stage = "parse" /\ stage' = "parse"
    BY <1>3 DEF ParseLine
  <2>2. CASE UNCHANGED settings
    BY <2>1, <2>2 DEF LedByExtra
  <2>3. CASE /\ ctl # "reload" /\ Accepted(Head(entries))
             /\ settings' = Append(settings, Kept(Head(entries)))
    <3> DEFINE new == Kept(Head(entries))
    <3>1. Head(entries) \in DisplayMode
      <4>1. Head(entries) \in Lines
        BY <1>3, HeadTailProperties DEF ParseLine, TypeOK
      <4> QED BY <2>3, <4>1, AcceptedIsMode, ModeListAssumption DEF ModeListAssumption
    <3>2. new \in DisplayMode /\ (starred => ~new.preferred)
      BY <3>1, KeptType DEF TypeOK
    <3> HIDE DEF new
    <3>3. settings \in Seq(DisplayMode) /\ settings' = Append(settings, new)
      BY <2>3 DEF TypeOK, new
    <3>4. /\ Len(settings') = Len(settings) + 1 /\ settings' \in Seq(DisplayMode)
          /\ \A i \in 1 .. Len(settings) : settings'[i] = settings[i]
          /\ settings'[Len(settings) + 1] = new
      BY <3>2, <3>3, AppendProperties
    <3>5. ASSUME Accepted(extra) PROVE settings' # << >> /\ settings'[1] = extra
      <4>1. settings # << >> /\ settings[1] = extra
        BY <2>1, <2>3, <3>5 DEF LedByExtra
      <4> QED BY <3>3, <3>4, <4>1
    <3>6. ASSUME Accepted(extra), extra.preferred, NEW i \in DOMAIN settings',
                 settings'[i].preferred
          PROVE  i = 1
      <4>1. starred /\ \A j \in DOMAIN settings : settings[j].preferred => j = 1
        BY <2>1, <2>3, <3>6 DEF LedByExtra
      <4>2. CASE i \in 1 .. Len(settings)
        BY <3>3, <3>4, <3>6, <4>1, <4>2
      <4>3. CASE i = Len(settings) + 1
        BY <3>2, <3>4, <3>6, <4>1, <4>3
      <4> QED BY <3>3, <3>4, <4>2, <4>3
    <3>7. LedByExtra(settings)'
      BY <2>1, <3>5, <3>6 DEF LedByExtra
    <3> QED BY <2>1, <2>3, <3>7
  <2> QED BY <1>3, <2>0, <2>2, <2>3 DEF ParseLine
<1>4. CASE ClearModes \/ CopyMode
  <2>1. /\ extra' = extra /\ settings' = settings /\ ctl' = ctl
        /\ stage' = "copy" /\ stage \in {"parse", "copy"}
    BY <1>4 DEF ClearModes, CopyMode
  <2> QED BY <2>1 DEF LedByExtra
<1>5. CASE Start \/ Restart \/ PopulateDefaultModes
  <2>1. stage' \notin {"modes", "parse", "copy"}
    BY <1>5 DEF Start, Restart, PopulateDefaultModes
  <2> QED BY <2>1
<1>6. CASE SetExtraMode
  BY <1>6 DEF SetExtraMode
<1>7. CASE SetResolution \/ UpdateMonitorModes \/ QueryCount \/ QueryFill \/ Edit
           \/ UNCHANGED vars
  <2>1. UNCHANGED <<extra, settings, starred, stage>> /\ (ctl = "reload" <=> ctl' = "reload")
    BY <1>7 DEF SetResolution, UpdateMonitorModes, QueryCount, QueryFill, Edit, vars
  <2> QED BY <2>1 DEF LedByExtra
<1> QED BY <1>1, <1>2, <1>3, <1>4, <1>5, <1>6, <1>7 DEF Next

LEMMA ListStep ==
  TypeOK /\ SettingsInv /\ ListInv /\ [Next]_vars => ListInv'
<1> SUFFICES ASSUME TypeOK, SettingsInv, ListInv, [Next]_vars PROVE ListInv'
  OBVIOUS
<1> USE DEF ListInv, registry, making
<1>t. list \in Seq(DisplayMode) /\ settings \in Seq(DisplayMode)
  BY DEF TypeOK
<1>1. CASE ClearModes
  <2>1. list' = << >> /\ settings' = settings /\ stage' = "copy"
    BY <1>1 DEF ClearModes
  <2> QED BY <2>1, <1>t
<1>2. CASE CopyMode
  <2>1. /\ stage = "copy" /\ stage' = "copy" /\ settings' = settings
        /\ Len(list) < Len(settings) /\ list' = Append(list, settings[Len(list) + 1])
    BY <1>2 DEF CopyMode
  <2>2. settings[Len(list) + 1] \in DisplayMode
    BY <1>t, <2>1, ElementOfSeq
  <2>3. /\ Len(list') = Len(list) + 1
        /\ \A i \in 1 .. Len(list) : list'[i] = list[i]
        /\ list'[Len(list) + 1] = settings[Len(list) + 1]
    BY <1>t, <2>1, <2>2, AppendProperties
  <2> QED BY <1>t, <2>1, <2>3
<1>3. CASE PopulateDefaultModes
  <2>1. /\ stage = "copy" /\ stage' = "none" /\ Len(list) = Len(settings)
        /\ UNCHANGED <<extra, settings, list>> /\ (ctl = "reload" => ctl' = "reload")
    BY <1>3 DEF PopulateDefaultModes
  <2>2. list = settings
    BY <1>t, <2>1, SeqEqual
  <2>3. ctl # "reload" => LedByExtra(list)
    BY <2>1, <2>2 DEF SettingsInv
  <2> QED BY <2>1, <2>3 DEF LedByExtra
<1>4. CASE SetResolution \/ UpdateMonitorModes
  <2>1. /\ ctl \in {"idle", "update"} /\ ctl' \in {"save", "idle"}
        /\ UNCHANGED <<extra, settings, list, stage>>
    BY <1>4 DEF SetResolution, UpdateMonitorModes
  <2> QED BY <2>1 DEF LedByExtra
<1>5. CASE SetExtraMode
  <2>1. ctl' = "reload" /\ UNCHANGED <<settings, list, stage>>
    BY <1>5 DEF SetExtraMode
  <2> QED BY <2>1
<1>6. CASE Restart
  <2>1. ctl' = "off" /\ stage' = "none"
    BY <1>6 DEF Restart
  <2> QED BY <2>1
<1>7. CASE Start \/ LoadExtraMode \/ LoadModesValue \/ ParseLine
  <2>1. stage' \in {"load", "modes", "parse"}
    BY <1>7 DEF Start, LoadExtraMode, LoadModesValue, ParseLine
  <2> QED BY <2>1
<1>8. CASE QueryCount \/ QueryFill \/ Edit \/ UNCHANGED vars
  <2>1. UNCHANGED <<extra, list, settings, ctl, stage>>
    BY <1>8 DEF QueryCount, QueryFill, Edit, vars
  <2> QED BY <2>1 DEF LedByExtra
<1> QED BY <1>1, <1>2, <1>3, <1>4, <1>5, <1>6, <1>7, <1>8 DEF Next

(* What was stored for a request stays the extra mode.                     *)
LEMMA RequestStep ==
  TypeOK /\ RequestInv /\ [Next]_vars => RequestInv'
<1> SUFFICES ASSUME TypeOK, RequestInv, [Next]_vars PROVE RequestInv'
  OBVIOUS
<1> USE DEF RequestInv, registry, making
<1>1. CASE SetResolution
  <2>1. setMode' \in DisplayMode /\ setMode'.preferred
    BY <1>1, RefreshType, ModeListAssumption
       DEF SetResolution, DisplayMode, ModeListAssumption
  <2>2. setMode' # Absent
    BY <2>1, ModeListAssumption DEF ModeListAssumption
  <2> QED BY <1>1, <2>1, <2>2 DEF SetResolution
<1>2. CASE SetExtraMode
  BY <1>2 DEF SetExtraMode
<1>3. CASE Restart
  BY <1>3 DEF Restart
<1>4. CASE Start
  BY <1>4 DEF Start
<1>5. CASE LoadExtraMode \/ LoadModesValue \/ ParseLine \/ ClearModes \/ CopyMode
           \/ PopulateDefaultModes \/ UpdateMonitorModes
  <2>1. /\ ctl' \in {"save", "reload", "reloading", "update"} =>
             ctl \in {"save", "reload", "reloading", "update"}
        /\ ctl' = "off" => ctl = "off" /\ stage # "none"
        /\ UNCHANGED <<extra, setMode, saved>>
    BY <1>5 DEF LoadExtraMode, LoadModesValue, ParseLine, ClearModes, CopyMode,
                PopulateDefaultModes, UpdateMonitorModes
  <2> QED BY <2>1
<1>6. CASE QueryCount \/ QueryFill \/ Edit \/ UNCHANGED vars
  <2>1. UNCHANGED <<extra, setMode, saved, ctl, stage>>
    BY <1>6 DEF QueryCount, QueryFill, Edit, vars
  <2> QED BY <2>1
<1> QED BY <1>1, <1>2, <1>3, <1>4, <1>5, <1>6 DEF Next

(* The list offered with an announcement begins with the stored mode.      *)
LEMMA AnnouncedStep ==
  TypeOK /\ ListInv /\ AnnouncedIsOffered /\ [Next]_vars => AnnouncedIsOffered'
<1> SUFFICES ASSUME TypeOK, ListInv, AnnouncedIsOffered, [Next]_vars
             PROVE  AnnouncedIsOffered'
  OBVIOUS
<1> USE DEF AnnouncedIsOffered, registry, making
<1>1. CASE UpdateMonitorModes
  <2>1. CASE UNCHANGED announced
    BY <2>1
  <2>2. CASE announced' = [mode |-> setMode, stored |-> extra, offered |-> list,
                           settled |-> stage = "none"]
    <3>1. ctl = "update"
      BY <1>1 DEF UpdateMonitorModes
    <3>2. stage = "none" /\ Accepted(extra) => list # << >> /\ list[1] = extra
      BY <3>1 DEF ListInv, LedByExtra
    <3>3. list # << >> => 1 \in DOMAIN list
      BY DEF TypeOK
    <3>4. /\ announced'.mode = setMode /\ announced'.stored = extra
          /\ announced'.offered = list /\ announced'.settled = (stage = "none")
      BY <2>2
    <3> QED BY <3>2, <3>3, <3>4
  <2> QED BY <1>1, <2>1, <2>2 DEF UpdateMonitorModes
<1>2. CASE Restart \/ SetResolution
  <2>1. announced' = Absent
    BY <1>2 DEF Restart, SetResolution
  <2> QED BY <2>1
<1>3. CASE Start \/ SetExtraMode \/ LoadExtraMode \/ LoadModesValue \/ ParseLine
           \/ ClearModes \/ CopyMode \/ PopulateDefaultModes \/ QueryCount \/ QueryFill
           \/ Edit \/ UNCHANGED vars
  <2>1. announced' = announced
    BY <1>3 DEF Start, SetExtraMode, LoadExtraMode, LoadModesValue, ParseLine, ClearModes,
                CopyMode, PopulateDefaultModes, QueryCount, QueryFill, Edit, vars
  <2> QED BY <2>1
<1> QED BY <1>1, <1>2, <1>3 DEF Next

LEMMA AnsweredStep ==
  TypeOK /\ AnsweredInFull /\ [Next]_vars => AnsweredInFull'
<1> SUFFICES ASSUME TypeOK, AnsweredInFull, [Next]_vars PROVE AnsweredInFull'
  OBVIOUS
<1> USE DEF AnsweredInFull, registry, making
<1>1. CASE QueryFill
  <2>0. query.room \in Nat /\ list \in Seq(DisplayMode)
    BY <1>1 DEF QueryFill, TypeOK
  <2>1. CASE ~TooSmall /\ got' = Filled
    <3>1. /\ got'.modes = list /\ got'.room = query.room /\ got'.count = Len(list)
          /\ got'.preferred = PreferredIdx
      BY <2>1 DEF Filled
    <3>2. Len(list) <= query.room
      BY <2>0, <2>1 DEF TooSmall
    <3> QED BY <2>0, <3>1, <3>2, PreferredIdxPoints
  <2>2. CASE UNCHANGED got
    BY <2>2
  <2>3. CASE (query.room = 0 \/ query.kind = "target2") /\ got' = Counted
    <3>1. got'.room = query.room /\ got'.kind = query.kind
      BY <2>3 DEF Counted
    <3> QED BY <2>3, <3>1
  <2> QED BY <1>1, <2>1, <2>2, <2>3 DEF QueryFill
<1>2. CASE QueryCount \/ Restart
  <2>1. got' = Absent
    BY <1>2 DEF QueryCount, Restart
  <2> QED BY <2>1
<1>3. CASE Start \/ SetResolution \/ SetExtraMode \/ UpdateMonitorModes \/ LoadExtraMode
           \/ LoadModesValue \/ ParseLine \/ ClearModes \/ CopyMode \/ PopulateDefaultModes
           \/ Edit \/ UNCHANGED vars
  <2>1. got' = got
    BY <1>3 DEF Start, SetResolution, SetExtraMode, UpdateMonitorModes, LoadExtraMode,
                LoadModesValue, ParseLine, ClearModes, CopyMode, PopulateDefaultModes, Edit,
                vars
  <2> QED BY <2>1
<1> QED BY <1>1, <1>2, <1>3 DEF Next
-----------------------------------------------------------------------------
LEMMA ModeListInvariant == Spec => []ModeListInv
<1>1. Init => ModeListInv
  <2> SUFFICES ASSUME Init PROVE ModeListInv
    OBVIOUS
  <2>1. TypeOK
    BY TypeInit
  <2>2. ctl = "off" /\ stage = "none" /\ setMode = Absent /\ saved = Absent /\ announced = Absent /\ got = Absent
    BY DEF Init
  <2> QED BY <2>1, <2>2 DEF ModeListInv, SettingsInv, ListInv, RequestInv,
                            AnnouncedIsOffered, AnsweredInFull
<1>2. ModeListInv /\ [Next]_vars => ModeListInv'
  BY TypeStep, SettingsStep, ListStep, RequestStep, AnnouncedStep, AnsweredStep
     DEF ModeListInv
<1> QED BY <1>1, <1>2, PTL DEF Spec

(* Type correctness of the mode list, its loading and the answers to       *)
(* queries, the preferred index among them (CSettings.cpp 35-76,           *)
(* CIndirectDeviceContext.cpp 310-427).                                    *)
THEOREM ModeListTypeCorrect == Spec => []TypeOK
<1>1. ModeListInv => TypeOK
  BY DEF ModeListInv
<1> QED BY <1>1, ModeListInvariant, PTL

(* Whatever Modes holds, however often it is edited, wherever the driver   *)
(* is stopped and whenever the device enters D0, the resolution stored     *)
(* last leads every list that was loaded after it and is its only          *)
(* preferred mode (CSettings.cpp 35-76, CIndirectDeviceContext.cpp 83-93   *)
(* and 508-516).                                                           *)
THEOREM StoredRequestLeads == Spec => []RequestSurvives
<1>1. ModeListInv => RequestSurvives
  <2> SUFFICES ASSUME ModeListInv, stage = "none", ctl \in {"idle", "save", "update"},
                      Accepted(saved)
               PROVE  /\ list # << >> /\ list[1] = saved
                      /\ \A i \in DOMAIN list : list[i].preferred => i = 1
    BY DEF RequestSurvives
  <2>1. saved # Absent
    BY AcceptedIsLine
  <2>2. saved = extra /\ saved.preferred
    BY <2>1 DEF ModeListInv, RequestInv
  <2> QED BY <2>2 DEF ModeListInv, ListInv, LedByExtra
<1> QED BY <1>1, ModeListInvariant, PTL

(* What the pipe is told to display was offered to IddCx in the same call, *)
(* if it was stored and reads back and D0Entry was not reloading the list  *)
(* at that moment (516-523).                                               *)
THEOREM AnnouncedWasOffered == Spec => []AnnouncedIsOffered
<1>1. ModeListInv => AnnouncedIsOffered
  BY DEF ModeListInv
<1> QED BY <1>1, ModeListInvariant, PTL

(* A query that succeeds is answered in full and within its buffer,        *)
(* wherever the list was replaced between its two calls (310-403).         *)
THEOREM QueriesAnswered == Spec => []AnsweredInFull
<1>1. ModeListInv => AnsweredInFull
  BY DEF ModeListInv
<1> QED BY <1>1, ModeListInvariant, PTL
=============================================================================
