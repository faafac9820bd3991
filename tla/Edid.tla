-------------------------------- MODULE Edid --------------------------------
(***************************************************************************)
(* CEdid::Build (driver/CEdid.cpp): the 128-byte EDID base block the       *)
(* driver gives IddCx for its virtual monitor, made from the list of       *)
(* display modes.  Bytes are members of 0..255 and every narrowing of the  *)
(* code is a remainder; a run of the loop over the sorted modes is one     *)
(* behaviour, one step per mode.                                           *)
(*                                                                         *)
(* MaxModes and Pool bound the lists that TLC enumerates; the proofs       *)
(* (Edid_proofs) hold for every value of both.                             *)
(***************************************************************************)
EXTENDS Integers, Sequences, Functions

CONSTANTS Pool,       \* the display modes a list is made of
          MaxModes    \* the longest list

DisplayMode == [width : Nat, height : Nat, refresh : Nat, preferred : BOOLEAN]

ASSUME PoolAssumption     == Pool \subseteq DisplayMode
ASSUME MaxModesAssumption == MaxModes \in Nat

Byte    == 0 .. 255
DtdSize == 18                       \* EDID_DTD_SIZE
Slots   == 0 .. 2                   \* EDID_BASE_DETAILED_TIMING_COUNT = 3
Blank   == [i \in 1 .. DtdSize |-> 0]
-----------------------------------------------------------------------------
(* The packing helpers.                                                    *)

Le16(v) == <<v % 256, (v \div 256) % 256>>

Lo8_NoMask(v) == v

Lo8(v) == v % 256

PackMsbNibbles_Swapped(upper, lower) ==
  ((lower \div 256) % 16) * 16 + ((upper \div 256) % 16)

PackMsbNibbles(upper, lower) ==
  ((upper \div 256) % 16) * 16 + ((lower \div 256) % 16)

PackLowNibbles(upper, lower) == (upper % 16) * 16 + (lower % 16)

PackSyncPorchPulseWidthHi(hFront, hSync, vFront, vSync) ==
  ((hFront \div 256) % 4) * 64 + ((hSync \div 256) % 4) * 16
    + ((vFront \div 16) % 4) * 4 + ((vSync \div 16) % 4)

(* (v + 7) & ~7                                                            *)
RoundUp8(v) == ((v + 7) \div 8) * 8

Larger(a, b) == IF a > b THEN a ELSE b
-----------------------------------------------------------------------------
(* MakeDetailedTiming: the blanking intervals, the conditions under which  *)
(* a mode has a detailed timing at all, and the 18 bytes of it.            *)

HBlank(width)  == Larger(160, RoundUp8(width \div 20))
VBlank(height) == Larger(30, height \div 20)

WideSync(width)  == RoundUp8(Larger(32, width \div 100))
WideFront(width) == RoundUp8(Larger(48, HBlank(width) \div 3))
Crowded(width)   == WideFront(width) + WideSync(width) >= HBlank(width)

HSync(width)  == IF Crowded(width) THEN 32 ELSE WideSync(width)
HFront(width) == IF Crowded(width) THEN 48 ELSE WideFront(width)

VFront == 3
VSync  == 5

(* (area * refresh + 5000) / 10000 in 64 bits, taken apart so that TLC's   *)
(* 32-bit integers hold every intermediate value (see ClockIsRounded).     *)
Rounded(area, refresh) ==
  (area \div 10000) * refresh + ((area % 10000) * refresh + 5000) \div 10000

PixelClock10KHz(m) ==
  Rounded((m.width + HBlank(m.width)) * (m.height + VBlank(m.height)), m.refresh)

HasTiming(m) ==
  /\ m.width > 0 /\ m.height > 0 /\ m.refresh > 0
  /\ m.width <= 4095 /\ m.height <= 4095
  /\ HBlank(m.width) <= 4095 /\ VBlank(m.height) <= 4095
  /\ VFront + VSync < VBlank(m.height)
  /\ PixelClock10KHz(m) # 0 /\ PixelClock10KHz(m) <= 65535

Timing(m) ==
  LET w == m.width  h == m.height  clock == PixelClock10KHz(m)
  IN  << clock % 256, (clock \div 256) % 256,
         Lo8(w), Lo8(HBlank(w)), PackMsbNibbles(w, HBlank(w)),
         Lo8(h), Lo8(VBlank(h)), PackMsbNibbles(h, VBlank(h)),
         Lo8(HFront(w)), Lo8(HSync(w)), PackLowNibbles(VFront, VSync),
         PackSyncPorchPulseWidthHi(HFront(w), HSync(w), VFront, VSync),
         Lo8(520), Lo8(290), PackMsbNibbles(520, 290),
         0, 0, 30 >>
-----------------------------------------------------------------------------
(* The rest of the block.                                                  *)

(* InitEdidBaseBlock: header, vendor and product, version, display         *)
(* parameters, chromaticity and established timings left zero, and eight   *)
(* unused standard timings.                                                *)
BaseBlock ==
  <<0, 255, 255, 255, 255, 255, 255, 0>>
    \o Le16(21316) \o Le16(7645) \o <<1, 0, 0, 0>>
    \o <<1, 36, 1, 4>> \o <<178, 52, 29, 120, 10>>
    \o [i \in 1 .. 13 |-> 0] \o [i \in 1 .. 16 |-> 1]

(* MakeMonitorName("Qubes"): the name, a line feed, blanks.                *)
MonitorName ==
  <<0, 0, 0, 252, 0>> \o <<81, 117, 98, 101, 115>> \o <<10>> \o [i \in 1 .. 7 |-> 32]

Checksum_NotNegated(bytes) == SumFunction(bytes) % 256

(* SetChecksum over the first 127 bytes: the sum wraps in a BYTE.          *)
Checksum(bytes) == (0 - SumFunction(bytes)) % 256

SealedBlock(slots) ==
  LET bytes == BaseBlock \o slots[0] \o slots[1] \o slots[2] \o MonitorName \o <<0>>
  IN  Append(bytes, Checksum(bytes))

(* The comparison std::stable_sort is given: a comes before b.             *)
Before(a, b) ==
  IF a.preferred # b.preferred THEN a.preferred
  ELSE IF a.width # b.width    THEN a.width > b.width
  ELSE IF a.height # b.height  THEN a.height > b.height
  ELSE a.refresh > b.refresh
-----------------------------------------------------------------------------
VARIABLES
  modes,         \* the argument of Build
  sorted,        \* the sorted copy
  modeIndex,     \* the loop's position in it
  baseDtdIndex,  \* the next free detailed timing slot
  descriptors,   \* baseBlock.descriptors[0 .. 2]
  block,         \* m_data
  pc             \* "start", "loop" or "done"

vars == <<modes, sorted, modeIndex, baseDtdIndex, descriptors, block, pc>>

(* The lists TLC starts from.                                              *)
Lists == UNION {[1 .. n -> Pool] : n \in 0 .. MaxModes}

Init ==
  /\ modes \in Lists
  /\ sorted = << >> /\ modeIndex = 0 /\ baseDtdIndex = 0
  /\ descriptors = [i \in Slots |-> Blank]
  /\ block = << >> /\ pc = "start"

Sort_IgnoresPreferred ==
  /\ pc = "start" /\ pc' = "loop"
  /\ \E p \in [DOMAIN modes -> DOMAIN modes] :
       /\ \A i, j \in DOMAIN modes : i # j => p[i] # p[j]
       /\ \A i, j \in DOMAIN modes :
            i < j => ~Before([modes[p[j]] EXCEPT !.preferred = FALSE],
                             [modes[p[i]] EXCEPT !.preferred = FALSE])
       /\ sorted' = [i \in DOMAIN modes |-> modes[p[i]]]
  /\ UNCHANGED <<modes, modeIndex, baseDtdIndex, descriptors, block>>

(* 338-349: a copy of the list, rearranged into the order of Before.       *)
(* Modes that compare equal are equal, so stability leaves one result.     *)
Sort ==
  /\ pc = "start" /\ pc' = "loop"
  /\ \E p \in [DOMAIN modes -> DOMAIN modes] :
       /\ \A i, j \in DOMAIN modes : i # j => p[i] # p[j]
       /\ \A i, j \in DOMAIN modes : i < j => ~Before(modes[p[j]], modes[p[i]])
       /\ sorted' = [i \in DOMAIN modes |-> modes[p[i]]]
  /\ UNCHANGED <<modes, modeIndex, baseDtdIndex, descriptors, block>>

TryTiming_CountsFailure ==
  /\ pc = "loop" /\ modeIndex < Len(sorted) /\ baseDtdIndex <= 2
  /\ LET m == sorted[modeIndex + 1]
     IN  /\ descriptors' = [descriptors EXCEPT ![baseDtdIndex] =
                             IF HasTiming(m) THEN Timing(m) ELSE Blank]
         /\ baseDtdIndex' = baseDtdIndex + 1
  /\ modeIndex' = modeIndex + 1
  /\ UNCHANGED <<modes, sorted, block, pc>>

(* 354-364, one turn of the loop.  A mode without a timing leaves its slot *)
(* zeroed and free for the next one.                                       *)
TryTiming ==
  /\ pc = "loop" /\ modeIndex < Len(sorted) /\ baseDtdIndex <= 2
  /\ LET m == sorted[modeIndex + 1]
     IN  /\ descriptors' = [descriptors EXCEPT ![baseDtdIndex] =
                             IF HasTiming(m) THEN Timing(m) ELSE Blank]
         /\ baseDtdIndex' = IF HasTiming(m) THEN baseDtdIndex + 1 ELSE baseDtdIndex
  /\ modeIndex' = modeIndex + 1
  /\ UNCHANGED <<modes, sorted, block, pc>>

(* 366-371: the monitor name, the checksum, and the copy into m_data.      *)
Seal ==
  /\ pc = "loop" /\ (modeIndex = Len(sorted) \/ baseDtdIndex > 2)
  /\ block' = SealedBlock(descriptors)
  /\ pc' = "done"
  /\ UNCHANGED <<modes, sorted, modeIndex, baseDtdIndex, descriptors>>

Next == Sort \/ TryTiming \/ Seal

Spec == Init /\ [][Next]_vars
-----------------------------------------------------------------------------
(* What a reader of the block finds in a detailed timing descriptor: the   *)
(* inverse of the packing, by the layout of the EDID standard.             *)
Decoded(d) ==
  [ clock  |-> d[1] + 256 * d[2],
    width  |-> d[3] + 256 * (d[5] \div 16),   hBlank |-> d[4] + 256 * (d[5] % 16),
    height |-> d[6] + 256 * (d[8] \div 16),   vBlank |-> d[7] + 256 * (d[8] % 16),
    hFront |-> d[9]  + 256 * (d[12] \div 64), hSync  |-> d[10] + 256 * ((d[12] \div 16) % 4),
    vFront |-> (d[11] \div 16) + 16 * ((d[12] \div 4) % 4),
    vSync  |-> (d[11] % 16) + 16 * (d[12] % 4) ]

TimingOf(m) ==
  [ clock |-> PixelClock10KHz(m), width |-> m.width, hBlank |-> HBlank(m.width),
    height |-> m.height, vBlank |-> VBlank(m.height),
    hFront |-> HFront(m.width), hSync |-> HSync(m.width), vFront |-> 3, vSync |-> 5 ]

Filled(i) == descriptors[i] # Blank

(* Every variable has its type; in particular everything packed into the   *)
(* descriptors is a byte.                                                  *)
TypeOK ==
  /\ modes \in Seq(DisplayMode) /\ sorted \in Seq(DisplayMode)
  /\ modeIndex \in 0 .. Len(sorted) /\ baseDtdIndex \in 0 .. 3
  /\ descriptors \in [Slots -> [1 .. DtdSize -> Byte]]
  /\ pc # "done" => block = << >>
  /\ pc \in {"start", "loop", "done"}

(* A descriptor that is written can be read back: MakeDetailedTiming loses *)
(* no bit of the mode's size, of the blanking or of the sync placement     *)
(* (217-280), and the sync pulse lies inside the blanking interval.        *)
DecodesToMode ==
  \A i \in Slots : Filled(i) =>
    LET d == Decoded(descriptors[i])
    IN  /\ \E k \in 1 .. modeIndex : d = TimingOf(sorted[k])
        /\ d.width > 0 /\ d.height > 0 /\ d.clock > 0
        /\ d.hFront + d.hSync < d.hBlank
        /\ d.vFront + d.vSync < d.vBlank

(* The slots are used from the first without a gap, whatever modes without *)
(* a timing lie between those with one: a reader that stops at the first   *)
(* blank descriptor misses none (354-364).                                 *)
NoGaps == \A i \in Slots : Filled(i) <=> i < baseDtdIndex

(* A finished block carries the three best modes that have a timing at     *)
(* all, best first: preferred before larger, and no mode is left out while *)
(* a slot is free or a worse mode has one (338-364).                       *)
BestModes ==
  pc = "done" =>
    LET able   == {i \in DOMAIN modes : HasTiming(modes[i])}
        Holds(s, i) == descriptors[s] = Timing(modes[i])
        Shown(i) == \E s \in Slots : Holds(s, i)
    IN  /\ \A i \in able : ~Shown(i) =>
             \A s \in Slots : \E j \in able : Holds(s, j) /\ ~Before(modes[i], modes[j])
        /\ \A s, t \in Slots : s < t /\ Filled(t) =>
             \E i, j \in able : Holds(s, i) /\ Holds(t, j) /\ ~Before(modes[j], modes[i])

(* A finished block is 128 bytes that add up to zero in a byte (301-308).  *)
ChecksumRight ==
  pc = "done" => block \in [1 .. 128 -> Byte] /\ SumFunction(block) % 256 = 0
=============================================================================
