----------------------------- MODULE Edid_proofs -----------------------------
(* Proofs about Edid, for every list of modes and every pool.              *)
EXTENDS Edid, TLAPS, FiniteSetTheorems

-----------------------------------------------------------------------------
(* The provers enumerate a range between two numbers; below, numbers are   *)
(* bounded by inequalities and only this lemma opens Byte.                 *)
LEMMA ByteIs ==
  ASSUME NEW x \in Nat, x <= 255 PROVE x \in Byte
BY DEF Byte

LEMMA RoundUp8Is ==
  ASSUME NEW x \in Nat
  PROVE  /\ RoundUp8(x) \in Nat
         /\ x <= RoundUp8(x) /\ RoundUp8(x) <= x + 7
         /\ RoundUp8(x) % 8 = 0
BY DEF RoundUp8

(* The blanking of a width that passes the size check, and what the wide    *)
(* formulas (236-240) give it for the sync pulse and the front porch.       *)
LEMMA WideBounds ==
  ASSUME NEW w \in Nat, w <= 4095
  PROVE  /\ HBlank(w) \in Nat /\ 160 <= HBlank(w) /\ HBlank(w) <= 211
         /\ WideSync(w) \in Nat /\ WideSync(w) <= 47
         /\ WideFront(w) \in Nat /\ WideFront(w) <= 77
<1>1. w \div 20 \in Nat /\ w \div 20 <= 204
  OBVIOUS
<1>2. HBlank(w) \in Nat /\ 160 <= HBlank(w) /\ HBlank(w) <= 211
  BY <1>1, RoundUp8Is DEF HBlank, Larger
<1>3. WideSync(w) \in Nat /\ WideSync(w) <= 47
  <2>1. Larger(32, w \div 100) \in Nat /\ Larger(32, w \div 100) <= 40
    BY DEF Larger
  <2>2. QED
    BY <2>1, RoundUp8Is DEF WideSync
<1>4. WideFront(w) \in Nat /\ WideFront(w) <= 77
  <2>1. Larger(48, HBlank(w) \div 3) \in Nat /\ Larger(48, HBlank(w) \div 3) <= 70
    BY <1>2 DEF Larger
  <2>2. QED
    BY <2>1, RoundUp8Is DEF WideFront
<1>5. QED
  BY <1>2, <1>3, <1>4

(* CEdid.cpp:242-246: the condition of the fallback is false for every      *)
(* width that reaches it (227-229 return for wider ones), so the porch and the *)
(* pulse of a timing are always those of the wide formulas.                 *)
THEOREM FallbackNeverTaken ==
  ASSUME NEW w \in Nat, w <= 4095
  PROVE  /\ ~Crowded(w)
         /\ HSync(w) = WideSync(w) /\ HFront(w) = WideFront(w)
<1>1. WideFront(w) + WideSync(w) < HBlank(w)
  BY WideBounds
<1>2. ~Crowded(w)
  BY <1>1, WideBounds DEF Crowded
<1>3. QED
  BY <1>2 DEF HSync, HFront

(* So the sync pulse lies inside the blanking, with a porch on both sides.  *)
LEMMA HorizontalBounds ==
  ASSUME NEW w \in Nat, w <= 4095
  PROVE  /\ HBlank(w) \in Nat /\ 160 <= HBlank(w) /\ HBlank(w) <= 211
         /\ HFront(w) \in Nat /\ HFront(w) <= 77
         /\ HSync(w) \in Nat /\ HSync(w) <= 47
         /\ HFront(w) + HSync(w) < HBlank(w)
BY WideBounds, FallbackNeverTaken

LEMMA VerticalBounds ==
  ASSUME NEW h \in Nat, h <= 4095
  PROVE  VBlank(h) \in Nat /\ 30 <= VBlank(h) /\ VBlank(h) <= 204
BY DEF VBlank, Larger

(* Rounded is the quotient the code computes in 64 bits (253-255).         *)
LEMMA ClockIsRounded ==
  ASSUME NEW area \in Nat, NEW refresh \in Nat
  PROVE  Rounded(area, refresh) = (area * refresh + 5000) \div 10000
<1> DEFINE q == area \div 10000
           r == area % 10000
<1>1. /\ q \in Nat /\ r \in Nat
      /\ area = 10000 * q + r
  OBVIOUS
<1>2. area * refresh = 10000 * (q * refresh) + r * refresh
  BY <1>1
<1>3. /\ q * refresh \in Nat
      /\ r * refresh \in Nat
  BY <1>1
<1>4. \A x, y \in Nat : (10000 * x + y + 5000) \div 10000 = x + (y + 5000) \div 10000
  OBVIOUS
<1>5. QED
  BY <1>2, <1>3, <1>4 DEF Rounded

(* The packing of two 12-bit values into two low bytes and a shared one    *)
(* can be undone.                                                          *)
LEMMA NibblesUndone ==
  ASSUME NEW u \in Nat, u <= 4095, NEW l \in Nat, l <= 4095
  PROVE  /\ Lo8(u) \in Byte /\ Lo8(l) \in Byte
         /\ PackMsbNibbles(u, l) \in Byte
         /\ Lo8(u) + 256 * (PackMsbNibbles(u, l) \div 16) = u
         /\ Lo8(l) + 256 * (PackMsbNibbles(u, l) % 16) = l
<1> DEFINE a == u \div 256
           b == u % 256
           c == l \div 256
           d == l % 256
<1>1. /\ a \in Nat /\ a <= 15 /\ b \in Nat /\ b <= 255 /\ u = 256 * a + b
      /\ c \in Nat /\ c <= 15 /\ d \in Nat /\ d <= 255 /\ l = 256 * c + d
  OBVIOUS
<1>2. PackMsbNibbles(u, l) = 16 * a + c
  <2>1. a % 16 = a /\ c % 16 = c
    BY <1>1
  <2> HIDE DEF a, c
  <2>2. (a % 16) * 16 + (c % 16) = 16 * a + c
    BY <1>1, <2>1
  <2>3. QED
    BY <2>2 DEF PackMsbNibbles, a, c
<1> HIDE DEF a, c
<1>3. /\ (16 * a + c) \div 16 = a /\ (16 * a + c) % 16 = c
      /\ 16 * a + c \in Nat /\ 16 * a + c <= 255
  BY <1>1
<1>4. Lo8(u) = b /\ Lo8(l) = d
  BY DEF Lo8
<1> HIDE DEF b, d
<1>5. Lo8(u) \in Byte /\ Lo8(l) \in Byte /\ PackMsbNibbles(u, l) \in Byte
  BY <1>1, <1>2, <1>3, <1>4, ByteIs
<1>6. QED
  BY <1>1, <1>2, <1>3, <1>4, <1>5

(* The same for the sync placement, whose four values share two bytes.     *)
LEMMA SyncUndone ==
  ASSUME NEW hFront \in Nat, hFront <= 1023, NEW hSync \in Nat, hSync <= 1023,
         NEW hi, hi = PackSyncPorchPulseWidthHi(hFront, hSync, VFront, VSync)
  PROVE  /\ hi \in Byte /\ Lo8(hFront) \in Byte /\ Lo8(hSync) \in Byte
         /\ Lo8(hFront) + 256 * (hi \div 64) = hFront
         /\ Lo8(hSync) + 256 * ((hi \div 16) % 4) = hSync
         /\ (hi \div 4) % 4 = 0 /\ hi % 4 = 0
<1> DEFINE a == hFront \div 256
           b == hFront % 256
           c == hSync \div 256
           d == hSync % 256
<1>1. /\ a \in Nat /\ a <= 3 /\ hFront = 256 * a + b /\ b \in Nat /\ b <= 255
      /\ c \in Nat /\ c <= 3 /\ hSync = 256 * c + d /\ d \in Nat /\ d <= 255
  OBVIOUS
<1>2. hi = 64 * a + 16 * c
  <2>1. a % 4 = a /\ c % 4 = c
    BY <1>1
  <2>2. (VFront \div 16) % 4 = 0 /\ (VSync \div 16) % 4 = 0
    BY DEF VFront, VSync
  <2>3. hi = (a % 4) * 64 + (c % 4) * 16 + ((VFront \div 16) % 4) * 4 + ((VSync \div 16) % 4)
    BY DEF PackSyncPorchPulseWidthHi
  <2> HIDE DEF a, b, c, d
  <2>4. hi = a * 64 + c * 16 + 0 * 4 + 0
    BY <2>1, <2>2, <2>3
  <2>5. QED
    BY <1>1, <2>4
<1>3. Lo8(hFront) = b /\ Lo8(hSync) = d
  BY DEF Lo8
<1> HIDE DEF a, b, c, d
<1>4. /\ hi \in Nat /\ hi <= 255
      /\ hi \div 64 = a
      /\ hi \div 16 = 4 * a + c
      /\ hi \div 4 = 16 * a + 4 * c
      /\ hi % 4 = 0
  BY <1>1, <1>2
<1>5. (hi \div 16) % 4 = c /\ (hi \div 4) % 4 = 0
  BY <1>1, <1>4
<1>6. hi \in Byte /\ Lo8(hFront) \in Byte /\ Lo8(hSync) \in Byte
  BY <1>1, <1>3, <1>4, ByteIs
<1>7. b + 256 * a = hFront /\ d + 256 * c = hSync
  BY <1>1
<1>8. QED
  BY <1>3, <1>4, <1>5, <1>6, <1>7

(* What a mode with a timing is made into is 18 bytes, from which the      *)
(* timing is read back unchanged.                                          *)
LEMMA TimingDecodes ==
  ASSUME NEW m \in DisplayMode, HasTiming(m)
  PROVE  /\ Timing(m) \in [1 .. DtdSize -> Byte]
         /\ Decoded(Timing(m)) = TimingOf(m)
         /\ Timing(m) # Blank
<1>w. m.width \in Nat /\ 0 < m.width /\ m.width <= 4095
  BY DEF HasTiming, DisplayMode
<1>h. m.height \in Nat /\ 0 < m.height /\ m.height <= 4095
  BY DEF HasTiming, DisplayMode
<1>c. PixelClock10KHz(m) \in Nat /\ PixelClock10KHz(m) <= 65535
  <2>1. m.refresh \in Nat
    BY DEF DisplayMode
  <2>2. \A area, r \in Nat : Rounded(area, r) \in Nat
    BY DEF Rounded
  <2>3. (m.width + HBlank(m.width)) * (m.height + VBlank(m.height)) \in Nat
    <3>1. HBlank(m.width) \in Nat /\ VBlank(m.height) \in Nat
      BY <1>w, <1>h, HorizontalBounds, VerticalBounds
    <3>2. m.width + HBlank(m.width) \in Nat /\ m.height + VBlank(m.height) \in Nat
      BY <1>w, <1>h, <3>1
    <3>3. \A x, y \in Nat : x * y \in Nat
      OBVIOUS
    <3>4. QED
      BY <3>2, <3>3
  <2>4. PixelClock10KHz(m) \in Nat
    BY <2>1, <2>2, <2>3 DEF PixelClock10KHz
  <2>5. QED
    BY <2>4 DEF HasTiming
<1> DEFINE w == m.width
           h == m.height
           clock == PixelClock10KHz(m)
           hi == PackSyncPorchPulseWidthHi(HFront(w), HSync(w), VFront, VSync)
<1>1. /\ w \in Nat /\ 0 < w /\ w <= 4095
      /\ h \in Nat /\ 0 < h /\ h <= 4095
      /\ clock \in Nat /\ clock <= 65535
  BY <1>w, <1>h, <1>c
<1>9. Timing(m) = << clock % 256, (clock \div 256) % 256,
         Lo8(w), Lo8(HBlank(w)), PackMsbNibbles(w, HBlank(w)),
         Lo8(h), Lo8(VBlank(h)), PackMsbNibbles(h, VBlank(h)),
         Lo8(HFront(w)), Lo8(HSync(w)), 53, hi, 8, 34, 33, 0, 0, 30 >>
  <2>1. /\ PackLowNibbles(VFront, VSync) = 53
        /\ Lo8(520) = 8 /\ Lo8(290) = 34 /\ PackMsbNibbles(520, 290) = 33
    BY DEF PackLowNibbles, VFront, VSync, Lo8, PackMsbNibbles
  <2>2. QED
    BY <2>1 DEF Timing
<1>8. TimingOf(m) =
           [ clock |-> clock, width |-> w, hBlank |-> HBlank(w),
             height |-> h, vBlank |-> VBlank(h),
             hFront |-> HFront(w), hSync |-> HSync(w), vFront |-> 3, vSync |-> 5 ]
  BY DEF TimingOf
<1> HIDE DEF w, h, clock
<1>3. /\ HBlank(w) \in Nat /\ HBlank(w) <= 4095 /\ VBlank(h) \in Nat /\ VBlank(h) <= 4095
      /\ HFront(w) \in Nat /\ HFront(w) <= 1023 /\ HSync(w) \in Nat /\ HSync(w) <= 1023
  <2>1. /\ HBlank(w) \in Nat /\ HBlank(w) <= 211
        /\ HFront(w) \in Nat /\ HFront(w) <= 77
        /\ HSync(w) \in Nat /\ HSync(w) <= 47
    BY <1>1, HorizontalBounds
  <2>2. VBlank(h) \in Nat /\ VBlank(h) <= 204
    BY <1>1, VerticalBounds
  <2>3. QED
    BY <2>1, <2>2
<1>2. /\ clock % 256 \in Byte /\ (clock \div 256) % 256 \in Byte
      /\ (clock % 256) + 256 * ((clock \div 256) % 256) = clock
  <2>1. clock \div 256 \in Nat /\ clock \div 256 <= 255
    BY <1>1
  <2>2. (clock \div 256) % 256 = clock \div 256
    BY <2>1
  <2>3. clock % 256 \in Nat /\ clock % 256 <= 255
    BY <1>1
  <2>4. (clock % 256) + 256 * (clock \div 256) = clock
    BY <1>1
  <2>5. QED
    BY <2>1, <2>2, <2>3, <2>4, ByteIs
<1>4. /\ Lo8(w) \in Byte /\ Lo8(HBlank(w)) \in Byte
      /\ PackMsbNibbles(w, HBlank(w)) \in Byte
      /\ Lo8(w) + 256 * (PackMsbNibbles(w, HBlank(w)) \div 16) = w
      /\ Lo8(HBlank(w)) + 256 * (PackMsbNibbles(w, HBlank(w)) % 16) = HBlank(w)
  BY <1>1, <1>3, NibblesUndone
<1>5. /\ Lo8(h) \in Byte /\ Lo8(VBlank(h)) \in Byte
      /\ PackMsbNibbles(h, VBlank(h)) \in Byte
      /\ Lo8(h) + 256 * (PackMsbNibbles(h, VBlank(h)) \div 16) = h
      /\ Lo8(VBlank(h)) + 256 * (PackMsbNibbles(h, VBlank(h)) % 16) = VBlank(h)
  BY <1>1, <1>3, NibblesUndone
<1>6. /\ hi \in Byte /\ Lo8(HFront(w)) \in Byte /\ Lo8(HSync(w)) \in Byte
      /\ Lo8(HFront(w)) + 256 * (hi \div 64) = HFront(w)
      /\ Lo8(HSync(w)) + 256 * ((hi \div 16) % 4) = HSync(w)
      /\ (hi \div 4) % 4 = 0 /\ hi % 4 = 0
  <2> HIDE DEF hi
  <2>1. hi = PackSyncPorchPulseWidthHi(HFront(w), HSync(w), VFront, VSync)
    BY DEF hi
  <2>2. QED
    BY <1>3, <2>1, SyncUndone
<1> HIDE DEF hi
<1> DEFINE d == Timing(m)
<1>10. /\ d[1] = clock % 256 /\ d[2] = (clock \div 256) % 256
       /\ d[3] = Lo8(w) /\ d[4] = Lo8(HBlank(w)) /\ d[5] = PackMsbNibbles(w, HBlank(w))
       /\ d[6] = Lo8(h) /\ d[7] = Lo8(VBlank(h)) /\ d[8] = PackMsbNibbles(h, VBlank(h))
       /\ d[9] = Lo8(HFront(w)) /\ d[10] = Lo8(HSync(w)) /\ d[11] = 53 /\ d[12] = hi
       /\ d[18] = 30
  BY <1>9
<1>11. d \in [1 .. DtdSize -> Byte]
  <2>1. 8 \in Byte /\ 34 \in Byte /\ 33 \in Byte /\ 53 \in Byte /\ 0 \in Byte /\ 30 \in Byte
    BY ByteIs
  <2>2. QED
    BY <1>2, <1>4, <1>5, <1>6, <1>9, <2>1 DEF DtdSize
<1> HIDE DEF d
<1>12. d # Blank
  BY <1>10 DEF Blank, DtdSize
<1>13. /\ (53 \div 16) + 16 * ((hi \div 4) % 4) = 3
       /\ (53 % 16) + 16 * (hi % 4) = 5
  BY <1>6
<1>14. Decoded(d) = TimingOf(m)
  BY <1>2, <1>4, <1>5, <1>6, <1>8, <1>10, <1>13 DEF Decoded
<1>15. QED
  BY <1>11, <1>12, <1>14 DEF d

(* ... and that timing is one a display can show.                          *)
Sound(t) == /\ t.width > 0 /\ t.height > 0 /\ t.clock > 0
            /\ t.hFront + t.hSync < t.hBlank
            /\ t.vFront + t.vSync < t.vBlank

LEMMA TimingSound ==
  ASSUME NEW m \in DisplayMode, HasTiming(m)
  PROVE  Sound(TimingOf(m))
<1>1. m.width \in Nat /\ 0 < m.width /\ m.width <= 4095
  BY DEF HasTiming, DisplayMode
<1>2. m.height \in Nat /\ 0 < m.height /\ m.height <= 4095
  BY DEF HasTiming, DisplayMode
<1>3. PixelClock10KHz(m) > 0
  <2>1. m.refresh \in Nat
    BY DEF DisplayMode
  <2>2. \A area, r \in Nat : Rounded(area, r) \in Nat
    BY DEF Rounded
  <2>3. HBlank(m.width) \in Nat /\ VBlank(m.height) \in Nat
    BY <1>1, <1>2, HorizontalBounds, VerticalBounds
  <2>4. (m.width + HBlank(m.width)) * (m.height + VBlank(m.height)) \in Nat
    <3>1. m.width + HBlank(m.width) \in Nat /\ m.height + VBlank(m.height) \in Nat
      BY <1>1, <1>2, <2>3
    <3>2. \A x, y \in Nat : x * y \in Nat
      OBVIOUS
    <3>3. QED
      BY <3>1, <3>2
  <2>5. PixelClock10KHz(m) \in Nat
    BY <2>1, <2>2, <2>4 DEF PixelClock10KHz
  <2>6. PixelClock10KHz(m) # 0
    BY DEF HasTiming
  <2>7. QED
    BY <2>5, <2>6
<1>4. HFront(m.width) + HSync(m.width) < HBlank(m.width)
  BY <1>1, HorizontalBounds
<1>5. 3 + 5 < VBlank(m.height)
  BY <1>2, VerticalBounds
<1>6. QED
  BY <1>1, <1>2, <1>3, <1>4, <1>5 DEF Sound, TimingOf
-----------------------------------------------------------------------------
(* Sums.                                                                   *)

(* A set of subsets of a finite set has a minimal member: what the proofs  *)
(* below use in place of an induction.                                     *)
LEMMA MinimalSet ==
  ASSUME NEW S, IsFiniteSet(S), NEW K \in SUBSET (SUBSET S), K # {}
  PROVE  \E s \in K : \A t \in K : t \subseteq s => t = s
<1> DEFINE R == StrictSubsetOrdering(S)
           F == FiniteSubsetsOf(S)
<1>1. IsWellFoundedOn(R, F)
  BY FS_StrictSubsetOrderingWellFounded
<1>2. K \subseteq F
  BY FS_Subset DEF FiniteSubsetsOf
<1>3. \A s, t \in SUBSET S : t \subseteq s /\ t # s => <<t, s>> \in R
  BY DEF StrictSubsetOrdering
<1> HIDE DEF R, F
<1>4. PICK s \in K : \A t \in K : ~ (<<t, s>> \in R)
  BY <1>1, <1>2, WFMin
<1> QED
  BY <1>3, <1>4

(* SumFunction is a fold of the community modules, that is a recursion over *)
(* the subsets of the domain, which takes out a chosen element at a time.  *)
Pick(s) == CHOOSE x \in s : TRUE
IsSum(iter, f, S) ==
  iter = [s \in SUBSET S |-> IF s = {} THEN 0 ELSE f[Pick(s)] + iter[s \ {Pick(s)}]]
Sum(f, S) == SumFunctionOnSet(f, S)
TheSum(f, S) == CHOOSE iter : IsSum(iter, f, S)

LEMMA PickIn == ASSUME NEW s, s # {} PROVE Pick(s) \in s
BY DEF Pick

LEMMA SumIs ==
  ASSUME NEW f, NEW S
  PROVE  SumFunctionOnSet(f, S) = TheSum(f, S)[S]
BY DEF SumFunctionOnSet, FoldFunctionOnSet, MapThenFoldSet, TheSum, IsSum, Pick

(* The recursion has one solution on a finite set,                         *)
LEMMA SumAgree ==
  ASSUME NEW f, NEW S, NEW T, IsFiniteSet(T), T \subseteq S,
         NEW a, NEW b, IsSum(a, f, S), IsSum(b, f, T)
  PROVE  a[T] = b[T]
<1> DEFINE K == {s \in SUBSET T : a[s] # b[s]}
<1> SUFFICES ASSUME K # {} PROVE FALSE
  OBVIOUS
<1>1. PICK s \in K : \A t \in K : t \subseteq s => t = s
  <2> HIDE DEF K
  <2>1. K \in SUBSET (SUBSET T)
    BY DEF K
  <2> QED
    BY <2>1, MinimalSet
<1>2. /\ a[s] = IF s = {} THEN 0 ELSE f[Pick(s)] + a[s \ {Pick(s)}]
      /\ b[s] = IF s = {} THEN 0 ELSE f[Pick(s)] + b[s \ {Pick(s)}]
  <2>1. s \in SUBSET T /\ s \in SUBSET S
    OBVIOUS
  <2> HIDE DEF K
  <2> QED
    BY <2>1 DEF IsSum
<1>3. s # {}
  BY <1>2
<1>4. a[s \ {Pick(s)}] = b[s \ {Pick(s)}]
  BY <1>1, <1>3, PickIn
<1> QED
  BY <1>2, <1>4

(* and it has a solution.                                                  *)
LEMMA SumExists ==
  ASSUME NEW f, NEW S, IsFiniteSet(S)
  PROVE  IsSum(TheSum(f, S), f, S)
<1> SUFFICES \E iter : IsSum(iter, f, S)
  BY DEF TheSum
<1> DEFINE K == {s \in SUBSET S : ~ \E iter : IsSum(iter, f, s)}
<1> SUFFICES ASSUME K # {} PROVE FALSE
  OBVIOUS
<1>1. PICK s \in K : \A t \in K : t \subseteq s => t = s
  <2>1. K \in SUBSET (SUBSET S)
    OBVIOUS
  <2> HIDE DEF K
  <2> QED
    BY <2>1, MinimalSet
<1>2. \A t \in SUBSET s : t # s => IsSum(TheSum(f, t), f, t)
  BY <1>1 DEF TheSum
<1>3. \A t \in SUBSET s : IsFiniteSet(t)
  BY FS_Subset
<1> HIDE DEF K
<1> DEFINE V(t) == TheSum(f, t)[t]
           iter == [t \in SUBSET s |-> IF t = {} THEN 0 ELSE f[Pick(t)] + V(t \ {Pick(t)})]
<1>4. ASSUME NEW t \in SUBSET s, t # s
      PROVE  V(t) = IF t = {} THEN 0 ELSE f[Pick(t)] + V(t \ {Pick(t)})
  <2>1. V(t) = IF t = {} THEN 0 ELSE f[Pick(t)] + TheSum(f, t)[t \ {Pick(t)}]
    BY <1>2, <1>4 DEF IsSum
  <2>2. ASSUME t # {} PROVE TheSum(f, t)[t \ {Pick(t)}] = V(t \ {Pick(t)})
    <3>1. t \ {Pick(t)} \in SUBSET s /\ t \ {Pick(t)} # s
      BY <1>4
    <3>2. IsSum(TheSum(f, t \ {Pick(t)}), f, t \ {Pick(t)}) /\ IsFiniteSet(t \ {Pick(t)})
      BY <1>2, <1>3, <3>1
    <3> QED
      BY <1>2, <1>4, <3>2, SumAgree
  <2> QED
    BY <2>1, <2>2
<1>5. \A t \in SUBSET s : t # s => iter[t] = V(t)
  BY <1>4
<1> HIDE DEF V
<1>6. IsSum(iter, f, s)
  <2>1. ASSUME NEW t \in SUBSET s, t # {}
        PROVE  V(t \ {Pick(t)}) = iter[t \ {Pick(t)}]
    <3>1. t \ {Pick(t)} \in SUBSET s /\ t \ {Pick(t)} # s
      BY <2>1, PickIn
    <3> HIDE DEF iter
    <3> QED
      BY <1>5, <3>1
  <2>2. iter = [t \in SUBSET s |-> IF t = {} THEN 0 ELSE f[Pick(t)] + iter[t \ {Pick(t)}]]
    BY <2>1
  <2> QED
    BY <2>2 DEF IsSum
<1> QED
  BY <1>1, <1>6 DEF K

(* So the sum takes out an element,                                        *)
LEMMA SumUnfolds ==
  ASSUME NEW f, NEW S, IsFiniteSet(S)
  PROVE  Sum(f, S) = IF S = {} THEN 0 ELSE f[Pick(S)] + Sum(f, S \ {Pick(S)})
<1>1. IsSum(TheSum(f, S), f, S) /\ S \in SUBSET S
  BY SumExists
<1>2. TheSum(f, S)[S] = IF S = {} THEN 0 ELSE f[Pick(S)] + TheSum(f, S)[S \ {Pick(S)}]
  BY <1>1 DEF IsSum
<1>3. IsFiniteSet(S \ {Pick(S)}) /\ S \ {Pick(S)} \subseteq S
  BY FS_RemoveElement
<1>4. TheSum(f, S)[S \ {Pick(S)}] = TheSum(f, S \ {Pick(S)})[S \ {Pick(S)}]
  BY <1>1, <1>3, SumExists, SumAgree
<1> QED
  BY <1>2, <1>4, SumIs DEF Sum

LEMMA SumInt ==
  ASSUME NEW S, IsFiniteSet(S), NEW f, \A x \in S : f[x] \in Int
  PROVE  Sum(f, S) \in Int
<1> DEFINE K == {s \in SUBSET S : Sum(f, s) \notin Int}
<1> SUFFICES ASSUME K # {} PROVE FALSE
  OBVIOUS
<1>1. PICK s \in K : \A t \in K : t \subseteq s => t = s
  <2>1. K \in SUBSET (SUBSET S)
    OBVIOUS
  <2> HIDE DEF K
  <2> QED
    BY <2>1, MinimalSet
<1>2. IsFiniteSet(s)
  BY FS_Subset
<1>3. Sum(f, s) = IF s = {} THEN 0 ELSE f[Pick(s)] + Sum(f, s \ {Pick(s)})
  BY <1>2, SumUnfolds
<1>4. s # {} => Pick(s) \in s /\ Sum(f, s \ {Pick(s)}) \in Int
  BY <1>1, PickIn
<1> QED
  BY <1>3, <1>4

(* which may be any element: the order of the additions does not matter,   *)
LEMMA SumSplits ==
  ASSUME NEW S, IsFiniteSet(S), NEW f, \A x \in S : f[x] \in Int, NEW x \in S
  PROVE  Sum(f, S) = f[x] + Sum(f, S \ {x})
<1> DEFINE K == {s \in SUBSET S : \E y \in s : Sum(f, s) # f[y] + Sum(f, s \ {y})}
<1> SUFFICES ASSUME K # {} PROVE FALSE
  OBVIOUS
<1>1. PICK s \in K : \A t \in K : t \subseteq s => t = s
  <2>1. K \in SUBSET (SUBSET S)
    OBVIOUS
  <2> HIDE DEF K
  <2> QED
    BY <2>1, MinimalSet
<1>2. PICK y \in s : Sum(f, s) # f[y] + Sum(f, s \ {y})
  OBVIOUS
<1> DEFINE p == Pick(s)
<1>3. IsFiniteSet(s) /\ IsFiniteSet(s \ {y}) /\ IsFiniteSet(s \ {p})
      /\ IsFiniteSet((s \ {y}) \ {p})
  <2>1. IsFiniteSet(s)
    BY FS_Subset
  <2> QED
    BY <2>1, FS_RemoveElement
<1>4. p \in s
  BY PickIn
<1>5. Sum(f, s) = f[p] + Sum(f, s \ {p})
  BY <1>3, <1>4, SumUnfolds
<1>6. p # y
  BY <1>2, <1>5
<1>7. Sum(f, s \ {p}) = f[y] + Sum(f, (s \ {p}) \ {y})
  <2>1. s \ {p} \notin K
    BY <1>1, <1>4
  <2>2. y \in s \ {p} /\ s \ {p} \in SUBSET S
    BY <1>6
  <2> QED
    BY <2>1, <2>2
<1>8. Sum(f, s \ {y}) = f[p] + Sum(f, (s \ {y}) \ {p})
  <2>1. s \ {y} \notin K
    BY <1>1
  <2>2. p \in s \ {y} /\ s \ {y} \in SUBSET S
    BY <1>4, <1>6
  <2> QED
    BY <2>1, <2>2
<1>9. (s \ {p}) \ {y} = (s \ {y}) \ {p}
  OBVIOUS
<1>10. Sum(f, (s \ {y}) \ {p}) \in Int /\ f[p] \in Int /\ f[y] \in Int
  <2>1. \A z \in (s \ {y}) \ {p} : f[z] \in Int
    OBVIOUS
  <2>2. f[p] \in Int /\ f[y] \in Int
    BY <1>4
  <2> HIDE DEF p, K
  <2> QED
    BY <1>3, <2>1, <2>2, SumInt
<1> DEFINE r == Sum(f, (s \ {y}) \ {p})
<1>11. Sum(f, s) = f[p] + (f[y] + r) /\ Sum(f, s \ {y}) = f[p] + r
  BY <1>5, <1>7, <1>8, <1>9
<1>12. r \in Int /\ f[p] \in Int /\ f[y] \in Int
  BY <1>10
<1> HIDE DEF p, r, K
<1>13. f[p] + (f[y] + r) = f[y] + (f[p] + r)
  BY <1>12
<1> QED
  BY <1>2, <1>11, <1>13

(* and only the values on the set count.                                   *)
LEMMA SumExtensional ==
  ASSUME NEW S, IsFiniteSet(S), NEW f, NEW g, \A x \in S : f[x] = g[x]
  PROVE  Sum(f, S) = Sum(g, S)
<1> DEFINE K == {s \in SUBSET S : Sum(f, s) # Sum(g, s)}
<1> SUFFICES ASSUME K # {} PROVE FALSE
  OBVIOUS
<1>1. PICK s \in K : \A t \in K : t \subseteq s => t = s
  <2>1. K \in SUBSET (SUBSET S)
    OBVIOUS
  <2> HIDE DEF K
  <2> QED
    BY <2>1, MinimalSet
<1>2. IsFiniteSet(s)
  BY FS_Subset
<1>3. /\ Sum(f, s) = IF s = {} THEN 0 ELSE f[Pick(s)] + Sum(f, s \ {Pick(s)})
      /\ Sum(g, s) = IF s = {} THEN 0 ELSE g[Pick(s)] + Sum(g, s \ {Pick(s)})
  BY <1>2, SumUnfolds
<1>4. s # {} => Pick(s) \in s /\ Sum(f, s \ {Pick(s)}) = Sum(g, s \ {Pick(s)})
  BY <1>1, PickIn
<1> QED
  BY <1>3, <1>4

(* A sequence with one more element sums to that much more.                *)
LEMMA SumAppend ==
  ASSUME NEW s \in Seq(Int), NEW e \in Int
  PROVE  SumFunction(s) \in Int /\ SumFunction(Append(s, e)) = SumFunction(s) + e
<1> DEFINE n == Len(s)
           t == Append(s, e)
<1>1. /\ n \in Nat /\ DOMAIN s = 1 .. n /\ DOMAIN t = 1 .. (n + 1)
      /\ \A i \in 1 .. n : s[i] \in Int /\ t[i] = s[i]
      /\ t[n + 1] = e
  OBVIOUS
<1>2. IsFiniteSet(1 .. n) /\ IsFiniteSet(1 .. (n + 1))
  BY <1>1, FS_Interval
<1>3. (1 .. (n + 1)) \ {n + 1} = 1 .. n /\ n + 1 \in 1 .. (n + 1)
  BY <1>1
<1>4. \A i \in 1 .. (n + 1) : t[i] \in Int
  BY <1>1
<1> HIDE DEF n, t
<1>5. Sum(t, 1 .. (n + 1)) = t[n + 1] + Sum(t, (1 .. (n + 1)) \ {n + 1})
  BY <1>2, <1>3, <1>4, SumSplits
<1>6. Sum(t, 1 .. n) = Sum(s, 1 .. n) /\ Sum(s, 1 .. n) \in Int
  BY <1>1, <1>2, SumExtensional, SumInt
<1>7. SumFunction(s) = Sum(s, 1 .. n) /\ SumFunction(t) = Sum(t, 1 .. (n + 1))
  BY <1>1 DEF SumFunction, Sum
<1>8. Sum(t, 1 .. (n + 1)) = e + Sum(s, 1 .. n)
  BY <1>1, <1>3, <1>5, <1>6
<1>9. e + Sum(s, 1 .. n) = Sum(s, 1 .. n) + e
  BY <1>6
<1> QED
  BY <1>6, <1>7, <1>8, <1>9 DEF t
-----------------------------------------------------------------------------
(* The bytes of the block.                                                 *)

(* A run of n bytes.                                                       *)
Bytes(n) == {s \in Seq(Byte) : Len(s) = n}

LEMMA Joined ==
  ASSUME NEW m \in Nat, NEW n \in Nat, NEW s \in Bytes(m), NEW t \in Bytes(n)
  PROVE  s \o t \in Bytes(m + n)
BY DEF Bytes

LEMMA BytesAre ==
  ASSUME NEW n \in Nat, NEW s
  PROVE  s \in Bytes(n) <=> s \in [1 .. n -> Byte]
BY DEF Bytes

(* Bytes and their checksum are bytes that sum to zero.                    *)
LEMMA ChecksumCloses ==
  ASSUME NEW n \in Nat, NEW s \in Bytes(n)
  PROVE  /\ Append(s, Checksum(s)) \in Bytes(n + 1)
         /\ SumFunction(Append(s, Checksum(s))) % 256 = 0
<1>1. s \in Seq(Byte) /\ Len(s) = n
  BY DEF Bytes
<1>2. s \in Seq(Int)
  <2>1. s \in [1 .. n -> Byte]
    BY <1>1
  <2>2. \A x \in Byte : x \in Int
    BY DEF Byte
  <2>3. s \in [1 .. n -> Int]
    BY <2>1, <2>2
  <2> QED
    BY <2>3
<1> DEFINE sum == SumFunction(s)
           c == Checksum(s)
<1>3. sum \in Int
  BY <1>2, SumAppend
<1>4. c = (0 - sum) % 256
  BY DEF Checksum
<1> HIDE DEF sum, c
<1>5. c \in Nat /\ c <= 255 /\ (sum + c) % 256 = 0
  BY <1>3, <1>4
<1>6. c \in Byte /\ c \in Int
  BY <1>5, ByteIs
<1>7. SumFunction(Append(s, c)) = sum + c
  BY <1>2, <1>6, SumAppend DEF sum
<1>8. Append(s, c) \in Bytes(n + 1)
  BY <1>1, <1>6 DEF Bytes
<1> QED
  BY <1>5, <1>7, <1>8 DEF c

(* The parts of the block, and the block.                                  *)
LEMMA BaseBlockSize == BaseBlock \in Bytes(54)
<1>1. \A x \in 0 .. 255 : x \in Byte
  BY DEF Byte
<1>2. <<0, 255, 255, 255, 255, 255, 255, 0>> \in Bytes(8)
  BY <1>1 DEF Bytes
<1>3. Le16(21316) \in Bytes(2) /\ Le16(7645) \in Bytes(2)
  <2>1. Le16(21316) = <<68, 83>> /\ Le16(7645) = <<221, 29>>
    BY DEF Le16
  <2>2. <<68, 83>> \in Bytes(2) /\ <<221, 29>> \in Bytes(2)
    BY <1>1 DEF Bytes
  <2> QED
    BY <2>1, <2>2
<1>4. <<1, 0, 0, 0>> \in Bytes(4) /\ <<1, 36, 1, 4>> \in Bytes(4)
  BY <1>1 DEF Bytes
<1>5. <<178, 52, 29, 120, 10>> \in Bytes(5)
  BY <1>1 DEF Bytes
<1>6. [i \in 1 .. 13 |-> 0] \in Bytes(13) /\ [i \in 1 .. 16 |-> 1] \in Bytes(16)
  <2>1. [i \in 1 .. 13 |-> 0] \in [1 .. 13 -> Byte] /\ [i \in 1 .. 16 |-> 1] \in [1 .. 16 -> Byte]
    BY <1>1
  <2> QED
    BY <2>1, BytesAre
<1> DEFINE upTo8  == <<0, 255, 255, 255, 255, 255, 255, 0>>
           upTo10 == upTo8 \o Le16(21316)
           upTo12 == upTo10 \o Le16(7645)
           upTo16 == upTo12 \o <<1, 0, 0, 0>>
           upTo20 == upTo16 \o <<1, 36, 1, 4>>
           upTo25 == upTo20 \o <<178, 52, 29, 120, 10>>
           upTo38 == upTo25 \o [i \in 1 .. 13 |-> 0]
<1>7. BaseBlock = upTo38 \o [i \in 1 .. 16 |-> 1]
  BY DEF BaseBlock
<1> HIDE DEF upTo38
<1>8. upTo38 \in Bytes(38)
  <2> HIDE DEF upTo8
  <2>1. upTo8 \in Bytes(8)
    BY <1>2 DEF upTo8
  <2> HIDE DEF upTo10
  <2>2. upTo10 \in Bytes(8 + 2)
    BY <1>3, <2>1, Joined DEF upTo10
  <2> HIDE DEF upTo12
  <2>3. upTo12 \in Bytes(10 + 2)
    BY <1>3, <2>2, Joined DEF upTo12
  <2> HIDE DEF upTo16
  <2>4. upTo16 \in Bytes(12 + 4)
    BY <1>4, <2>3, Joined DEF upTo16
  <2> HIDE DEF upTo20
  <2>5. upTo20 \in Bytes(16 + 4)
    BY <1>4, <2>4, Joined DEF upTo20
  <2> HIDE DEF upTo25
  <2>6. upTo25 \in Bytes(20 + 5)
    BY <1>5, <2>5, Joined DEF upTo25
  <2>7. upTo25 \o [i \in 1 .. 13 |-> 0] \in Bytes(25 + 13)
    BY <1>6, <2>6, Joined
  <2> QED
    BY <2>7 DEF upTo38
<1>9. upTo38 \o [i \in 1 .. 16 |-> 1] \in Bytes(38 + 16)
  BY <1>6, <1>8, Joined
<1> QED
  BY <1>7, <1>9

LEMMA NameSize == MonitorName \in Bytes(18)
<1>1. \A x \in 0 .. 255 : x \in Byte
  BY DEF Byte
<1>2. <<0, 0, 0, 252, 0>> \in Bytes(5) /\ <<81, 117, 98, 101, 115>> \in Bytes(5)
  BY <1>1 DEF Bytes
<1>3. <<10>> \in Bytes(1)
  BY <1>1 DEF Bytes
<1>4. [i \in 1 .. 7 |-> 32] \in Bytes(7)
  <2>1. [i \in 1 .. 7 |-> 32] \in [1 .. 7 -> Byte]
    BY <1>1
  <2> QED
    BY <2>1, BytesAre
<1>5. <<0, 0, 0, 252, 0>> \o <<81, 117, 98, 101, 115>> \in Bytes(5 + 5)
  BY <1>2, Joined
<1>6. <<0, 0, 0, 252, 0>> \o <<81, 117, 98, 101, 115>> \o <<10>> \in Bytes(10 + 1)
  BY <1>3, <1>5, Joined
<1>7. MonitorName \in Bytes(11 + 7)
  BY <1>4, <1>6, Joined DEF MonitorName
<1> QED
  BY <1>7

(* SetChecksum closes any 127 bytes that InitEdidBaseBlock, the timings and *)
(* the monitor name make up (301-308, 333-371).                            *)
LEMMA SealedBlockSound ==
  ASSUME NEW slots \in [Slots -> [1 .. DtdSize -> Byte]]
  PROVE  SealedBlock(slots) \in [1 .. 128 -> Byte] /\ SumFunction(SealedBlock(slots)) % 256 = 0
<1>1. slots[0] \in Bytes(18) /\ slots[1] \in Bytes(18) /\ slots[2] \in Bytes(18)
  <2>1. \A i \in {0, 1, 2} : slots[i] \in [1 .. 18 -> Byte]
    BY DEF Slots, DtdSize
  <2> QED
    BY <2>1, BytesAre
<1>2. BaseBlock \o slots[0] \in Bytes(54 + 18)
  BY <1>1, BaseBlockSize, Joined
<1>3. BaseBlock \o slots[0] \o slots[1] \in Bytes(72 + 18)
  BY <1>1, <1>2, Joined
<1>4. BaseBlock \o slots[0] \o slots[1] \o slots[2] \in Bytes(90 + 18)
  BY <1>1, <1>3, Joined
<1>5. <<0>> \in Bytes(1)
  BY ByteIs DEF Bytes
<1>6. BaseBlock \o slots[0] \o slots[1] \o slots[2] \o MonitorName \in Bytes(108 + 18)
  BY <1>4, NameSize, Joined
<1> DEFINE s == BaseBlock \o slots[0] \o slots[1] \o slots[2] \o MonitorName \o <<0>>
<1>7. s \in Bytes(126 + 1)
  BY <1>5, <1>6, Joined
<1>8. SealedBlock(slots) = Append(s, Checksum(s))
  BY DEF SealedBlock
<1> HIDE DEF s
<1>9. SealedBlock(slots) \in Bytes(127 + 1) /\ SumFunction(SealedBlock(slots)) % 256 = 0
  BY <1>7, <1>8, ChecksumCloses
<1>10. SealedBlock(slots) \in Bytes(128) /\ 128 \in Nat
  BY <1>9
<1>11. SealedBlock(slots) \in [1 .. 128 -> Byte]
  BY <1>10, BytesAre, Zenon
<1> QED
  BY <1>9, <1>11
-----------------------------------------------------------------------------
(* Until the list is sorted no slot has been used.                         *)
UnusedAtStart == pc = "start" => modeIndex = 0 /\ baseDtdIndex = 0

(* The invariant is inductive once these are taken together: a filled slot *)
(* lies below baseDtdIndex and holds the timing of a mode already tried.   *)
IInv == TypeOK /\ UnusedAtStart /\ NoGaps /\ DecodesToMode

LEMMA BlankIsTyped == Blank \in [1 .. DtdSize -> Byte]
BY ByteIs DEF Blank

THEOREM InitIInv == Init => IInv
<1> SUFFICES ASSUME Init PROVE IInv
  OBVIOUS
<1>1. modes \in Seq(DisplayMode)
  <2>1. PICK n \in 0 .. MaxModes : modes \in [1 .. n -> Pool]
    BY DEF Init, Lists
  <2>2. modes \in [1 .. n -> DisplayMode]
    BY <2>1, PoolAssumption
  <2>3. n \in Nat
    BY MaxModesAssumption
  <2>4. QED
    BY <2>2, <2>3
<1>2. TypeOK
  BY <1>1, BlankIsTyped DEF Init, TypeOK, Slots
<1>3. \A i \in Slots : ~Filled(i)
  BY DEF Init, Filled
<1>4. NoGaps
  BY <1>3 DEF Init, NoGaps, Slots
<1>5. DecodesToMode
  BY <1>3 DEF DecodesToMode
<1>6. QED
  BY <1>2, <1>4, <1>5 DEF IInv, Init, UnusedAtStart

(* Sort: the sorted list is made of the members of the given one, and      *)
(* there is no filled slot that could refer to it.                         *)
LEMMA SortIInv == IInv /\ Sort => IInv'
<1> SUFFICES ASSUME IInv, Sort PROVE IInv'
  OBVIOUS
<1>1. sorted' \in Seq(DisplayMode) /\ Len(sorted') \in Nat
  <2>1. PICK p \in [DOMAIN modes -> DOMAIN modes] :
             sorted' = [i \in DOMAIN modes |-> modes[p[i]]]
    BY DEF Sort
  <2>2. /\ DOMAIN modes = 1 .. Len(modes) /\ Len(modes) \in Nat
        /\ \A i \in DOMAIN modes : modes[i] \in DisplayMode
    BY DEF IInv, TypeOK
  <2>3. sorted' \in [1 .. Len(modes) -> DisplayMode]
    BY <2>1, <2>2
  <2>4. QED
    BY <2>2, <2>3
<1>2. /\ modes' = modes /\ modeIndex' = modeIndex /\ baseDtdIndex' = baseDtdIndex
      /\ descriptors' = descriptors /\ block' = block
      /\ pc = "start" /\ pc' = "loop"
  BY DEF Sort
<1>3. modeIndex = 0 /\ baseDtdIndex = 0
  BY <1>2 DEF IInv, UnusedAtStart
<1>4. TypeOK'
  BY <1>1, <1>2, <1>3 DEF IInv, TypeOK
<1>5. UnusedAtStart'
  BY <1>2 DEF UnusedAtStart
<1>6. NoGaps'
  BY <1>2 DEF IInv, NoGaps, Filled
<1>7. DecodesToMode'
  <2>1. \A i \in Slots : ~Filled(i)'
    BY <1>2, <1>3 DEF IInv, NoGaps, Filled, Slots
  <2>2. QED
    BY <2>1 DEF DecodesToMode
<1>8. QED
  BY <1>4, <1>5, <1>6, <1>7 DEF IInv

(* TryTiming: the slot at baseDtdIndex was blank; it becomes the timing of *)
(* the mode at hand or stays blank.                                        *)
LEMMA TryTimingIInv == IInv /\ TryTiming => IInv'
<1> SUFFICES ASSUME IInv, TryTiming PROVE IInv'
  OBVIOUS
<1> DEFINE m == sorted[modeIndex + 1]
<1>1. /\ modeIndex \in Nat /\ modeIndex < Len(sorted) /\ Len(sorted) \in Nat
      /\ modeIndex' = modeIndex + 1
      /\ modes' = modes /\ sorted' = sorted /\ block' = block
      /\ pc = "loop" /\ pc' = "loop"
  BY DEF IInv, TypeOK, TryTiming
<1>2. baseDtdIndex \in Slots /\ baseDtdIndex \in {0, 1, 2}
  BY DEF IInv, TypeOK, TryTiming, Slots
<1>3. m \in DisplayMode
  BY <1>1 DEF IInv, TypeOK
<1>4. descriptors \in [Slots -> [1 .. DtdSize -> Byte]]
  BY DEF IInv, TypeOK
<1>5. CASE HasTiming(m)
  <2>1. /\ descriptors' = [descriptors EXCEPT ![baseDtdIndex] = Timing(m)]
        /\ baseDtdIndex' = baseDtdIndex + 1
    BY <1>5 DEF TryTiming
  <2> HIDE DEF m
  <2>2. /\ Timing(m) \in [1 .. DtdSize -> Byte] /\ Timing(m) # Blank
        /\ Decoded(Timing(m)) = TimingOf(m) /\ Sound(TimingOf(m))
    BY <1>3, <1>5, TimingDecodes, TimingSound
  <2>3. /\ descriptors'[baseDtdIndex] = Timing(m)
        /\ \A i \in Slots : i # baseDtdIndex => descriptors'[i] = descriptors[i]
    BY <1>2, <1>4, <2>1
  <2>4. TypeOK'
    <3>1. descriptors' \in [Slots -> [1 .. DtdSize -> Byte]]
      BY <1>2, <1>4, <2>1, <2>2
    <3>2. baseDtdIndex' \in 0 .. 3
      BY <1>2, <2>1
    <3>3. modeIndex' \in 0 .. Len(sorted')
      BY <1>1
    <3>4. QED
      BY <1>1, <3>1, <3>2, <3>3 DEF IInv, TypeOK
  <2>5. NoGaps'
    BY <1>2, <2>1, <2>2, <2>3 DEF IInv, NoGaps, Filled, Slots
  <2>6. DecodesToMode'
    <3> SUFFICES ASSUME NEW i \in Slots, Filled(i)'
                 PROVE  /\ \E k \in 1 .. modeIndex' :
                             Decoded(descriptors'[i]) = TimingOf(sorted'[k])
                        /\ Sound(Decoded(descriptors'[i]))
      BY DEF DecodesToMode, Sound
    <3>1. CASE i = baseDtdIndex
      <4>1. modeIndex + 1 \in 1 .. modeIndex' /\ sorted'[modeIndex + 1] = m
        BY <1>1 DEF m
      <4>2. Decoded(descriptors'[i]) = TimingOf(m)
        BY <2>2, <2>3, <3>1
      <4>3. QED
        BY <2>2, <4>1, <4>2
    <3>2. CASE i # baseDtdIndex
      <4>1. descriptors'[i] = descriptors[i] /\ Filled(i)
        BY <2>3, <3>2 DEF Filled
      <4>2. PICK k \in 1 .. modeIndex : Decoded(descriptors[i]) = TimingOf(sorted[k])
        BY <4>1 DEF IInv, DecodesToMode
      <4>3. Sound(Decoded(descriptors[i]))
        BY <4>1 DEF IInv, DecodesToMode, Sound
      <4>4. k \in 1 .. modeIndex'
        BY <1>1, <4>2
      <4>5. QED
        BY <1>1, <4>1, <4>2, <4>3, <4>4
    <3>3. QED
      BY <3>1, <3>2
  <2>7. QED
    BY <1>1, <2>4, <2>5, <2>6 DEF IInv, UnusedAtStart
<1>6. CASE ~HasTiming(m)
  <2>1. /\ descriptors' = [descriptors EXCEPT ![baseDtdIndex] = Blank]
        /\ baseDtdIndex' = baseDtdIndex
    BY <1>6 DEF TryTiming
  <2>2. descriptors[baseDtdIndex] = Blank
    BY <1>2 DEF IInv, NoGaps, Filled, Slots
  <2>3. descriptors' = descriptors
    BY <1>2, <1>4, <2>1, <2>2
  <2>4. TypeOK'
    <3>1. modeIndex' \in 0 .. Len(sorted')
      BY <1>1
    <3>2. QED
      BY <1>1, <2>1, <2>3, <3>1 DEF IInv, TypeOK
  <2>5. NoGaps'
    BY <2>1, <2>3 DEF IInv, NoGaps, Filled
  <2>6. DecodesToMode'
    <3> SUFFICES ASSUME NEW i \in Slots, Filled(i)'
                 PROVE  /\ \E k \in 1 .. modeIndex' :
                             Decoded(descriptors'[i]) = TimingOf(sorted'[k])
                        /\ Sound(Decoded(descriptors'[i]))
      BY DEF DecodesToMode, Sound
    <3>1. Filled(i) /\ descriptors'[i] = descriptors[i]
      BY <2>3 DEF Filled
    <3>2. PICK k \in 1 .. modeIndex : Decoded(descriptors[i]) = TimingOf(sorted[k])
      BY <3>1 DEF IInv, DecodesToMode
    <3>3. Sound(Decoded(descriptors[i]))
      BY <3>1 DEF IInv, DecodesToMode, Sound
    <3>4. k \in 1 .. modeIndex'
      BY <1>1, <3>2
    <3>5. QED
      BY <1>1, <3>1, <3>2, <3>3, <3>4
  <2>7. QED
    BY <1>1, <2>4, <2>5, <2>6 DEF IInv, UnusedAtStart
<1>7. QED
  BY <1>5, <1>6

(* Seal and stuttering leave the slots alone.                              *)
LEMMA SealIInv == IInv /\ (Seal \/ UNCHANGED vars) => IInv'
<1> SUFFICES ASSUME IInv, Seal \/ UNCHANGED vars PROVE IInv'
  OBVIOUS
<1>1. /\ modes' = modes /\ sorted' = sorted /\ modeIndex' = modeIndex
      /\ baseDtdIndex' = baseDtdIndex /\ descriptors' = descriptors
      /\ pc' = "done" \/ (pc' = pc /\ block' = block)
  BY DEF Seal, vars
<1>2. TypeOK'
  BY <1>1 DEF IInv, TypeOK
<1>3. UnusedAtStart'
  BY <1>1 DEF IInv, UnusedAtStart
<1>4. NoGaps'
  BY <1>1 DEF IInv, NoGaps, Filled
<1>5. DecodesToMode'
  BY <1>1 DEF IInv, DecodesToMode, Filled
<1>6. QED
  BY <1>2, <1>3, <1>4, <1>5 DEF IInv

THEOREM Invariance == Spec => []IInv
<1>1. Init => IInv
  BY InitIInv
<1>2. IInv /\ [Next]_vars => IInv'
  BY SortIInv, TryTimingIInv, SealIInv DEF Next
<1>3. QED
  BY <1>1, <1>2, PTL DEF Spec

(* Everything Build packs into a descriptor is a byte, and its indices     *)
(* stay within the list and the slots.                                     *)
THEOREM TypeCorrect == Spec => []TypeOK
BY Invariance, PTL DEF IInv

(* The detailed timings fill the slots from the first without a gap.       *)
THEOREM SlotsFilledInOrder == Spec => []NoGaps
BY Invariance, PTL DEF IInv

(* For every list of modes, each detailed timing of the block decodes to   *)
(* the timing of a mode of the list, bit for bit.                          *)
THEOREM TimingsDecode == Spec => []DecodesToMode
BY Invariance, PTL DEF IInv
-----------------------------------------------------------------------------
(* Which modes are shown.  The sorted list has the modes of the given one, *)
(* no other and none missing, in an order that Before respects.            *)
SortedInv ==
  pc # "start" =>
    /\ \A k \in DOMAIN sorted : \E i \in DOMAIN modes : sorted[k] = modes[i]
    /\ \A i \in DOMAIN modes : \E k \in DOMAIN sorted : sorted[k] = modes[i]
    /\ \A k, l \in DOMAIN sorted : k < l => ~Before(sorted[l], sorted[k])

(* Slot s holds the timing of the sorted list's k-th mode.                 *)
Taken(s, k) == HasTiming(sorted[k]) /\ descriptors[s] = Timing(sorted[k])

(* The slots in use hold modes the loop has passed, in the sorted order,   *)
(* and of the modes it has passed none with a timing is missing.           *)
SlotsInv ==
  /\ \A s \in Slots : s < baseDtdIndex => \E k \in 1 .. modeIndex : Taken(s, k)
  /\ \A s, t \in Slots : s < t /\ t < baseDtdIndex =>
       \E k, l \in 1 .. modeIndex : k < l /\ Taken(s, k) /\ Taken(t, l)
  /\ \A k \in 1 .. modeIndex :
       HasTiming(sorted[k]) => \E s \in Slots : s < baseDtdIndex /\ Taken(s, k)

(* The loop ends at the end of the list or when the slots are full.        *)
EndInv == pc = "done" => modeIndex = Len(sorted) \/ baseDtdIndex = 3

ShownInv == SortedInv /\ SlotsInv /\ EndInv

(* An injection of a finite range into itself misses nothing.              *)
LEMMA PermutationIsOnto ==
  ASSUME NEW n \in Nat, NEW p \in [1 .. n -> 1 .. n],
         \A i, j \in 1 .. n : i # j => p[i] # p[j]
  PROVE  \A i \in 1 .. n : \E k \in 1 .. n : p[k] = i
<1> DEFINE S == 1 .. n
<1>1. IsFiniteSet(S)
  BY FS_Interval
<1>2. p \in Injection(S, S)
  BY DEF Injection, IsInjective
<1> HIDE DEF S
<1>3. p \in Surjection(S, S)
  BY <1>1, <1>2, FS_Injection
<1>4. \A i \in S : \E k \in S : p[k] = i
  BY <1>3 DEF Surjection
<1> QED BY <1>4 DEF S

(* The comparison is a strict order, and only equal modes are level in it. *)
LEMMA BeforeOrders ==
  ASSUME NEW a \in DisplayMode, NEW b \in DisplayMode, NEW c \in DisplayMode
  PROVE  /\ ~ (Before(a, b) /\ Before(b, a))
         /\ Before(a, b) /\ Before(b, c) => Before(a, c)
         /\ ~Before(a, b) /\ ~Before(b, a) => a = b
<1>1. ~ (Before(a, b) /\ Before(b, a))
  BY DEF Before, DisplayMode
<1>2. Before(a, b) /\ Before(b, c) => Before(a, c)
  BY DEF Before, DisplayMode
<1>3. ~Before(a, b) /\ ~Before(b, a) => a = b
  BY DEF Before, DisplayMode
<1> QED
  BY <1>1, <1>2, <1>3

(* The arrangements std::stable_sort may leave a list in (338-349).        *)
Orders(p, ms) ==
  /\ p \in [DOMAIN ms -> DOMAIN ms]
  /\ \A i, j \in DOMAIN ms : i # j => p[i] # p[j]
  /\ \A i, j \in DOMAIN ms : i < j => ~Before(ms[p[j]], ms[p[i]])
Arranged(p, ms) == [i \in DOMAIN ms |-> ms[p[i]]]

(* Every list can be put in order: the place of a mode is the number of    *)
(* those ahead of it, which is different for each.                         *)
LEMMA SomeOrder ==
  ASSUME NEW ms \in Seq(DisplayMode)
  PROVE  \E p : Orders(p, ms)
<1> DEFINE n == Len(ms)
           S == 1 .. n
           Ahead(j, i) == Before(ms[j], ms[i]) \/ (ms[j] = ms[i] /\ j < i)
           A(i) == {j \in S : Ahead(j, i)}
           r == [i \in S |-> Cardinality(A(i)) + 1]
<1>1. n \in Nat /\ DOMAIN ms = S /\ S \subseteq Nat /\ \A i \in S : ms[i] \in DisplayMode
  OBVIOUS
<1>2. IsFiniteSet(S) /\ Cardinality(S) = n
  BY <1>1, FS_Interval
<1>3. \A i, j \in S : i # j => Ahead(i, j) \/ Ahead(j, i)
  BY <1>1, BeforeOrders
<1>4. \A i, j, k \in S : Ahead(i, j) /\ Ahead(j, k) => Ahead(i, k)
  BY <1>1, BeforeOrders
<1>5. \A i \in S : ~Ahead(i, i)
  BY <1>1, BeforeOrders
<1>6. \A x \in Nat : x >= 1 /\ x <= n => x \in S
  BY <1>1
<1>7. \A i, j \in S : Before(ms[j], ms[i]) => Ahead(j, i)
  OBVIOUS
<1> HIDE DEF n, S, Ahead
<1>8. ASSUME NEW i \in S PROVE IsFiniteSet(A(i)) /\ Cardinality(A(i)) \in Nat /\ r[i] \in S
  <2>1. A(i) \subseteq S \ {i}
    BY <1>5
  <2>2. IsFiniteSet(S \ {i}) /\ Cardinality(S \ {i}) = n - 1
    BY <1>2, FS_RemoveElement
  <2> HIDE DEF A
  <2>3. IsFiniteSet(A(i)) /\ Cardinality(A(i)) <= n - 1
    BY <2>1, <2>2, FS_Subset
  <2>4. Cardinality(A(i)) \in Nat
    BY <2>3, FS_CardinalityType
  <2> QED
    BY <1>1, <1>6, <2>3, <2>4
<1>9. ASSUME NEW i \in S, NEW j \in S, Ahead(i, j) PROVE r[i] < r[j]
  <2>1. A(i) \cup {i} \subseteq A(j) /\ i \notin A(i)
    BY <1>4, <1>5, <1>9
  <2>2. /\ IsFiniteSet(A(i)) /\ Cardinality(A(i)) \in Nat
        /\ IsFiniteSet(A(j)) /\ Cardinality(A(j)) \in Nat
    BY <1>8
  <2> HIDE DEF A
  <2>3. Cardinality(A(i) \cup {i}) = Cardinality(A(i)) + 1
    BY <2>1, <2>2, FS_AddElement
  <2>4. Cardinality(A(i) \cup {i}) <= Cardinality(A(j))
    BY <2>1, <2>2, FS_Subset
  <2> QED
    BY <2>2, <2>3, <2>4
<1>10. r \in [S -> S]
  BY <1>8
<1> HIDE DEF A, r
<1>11. \A i \in S : r[i] \in Nat
  BY <1>1, <1>10
<1>12. \A i, j \in S : i # j => r[i] # r[j]
  BY <1>3, <1>9, <1>11
<1>13. \A k \in S : \E i \in S : r[i] = k
  BY <1>1, <1>10, <1>12, PermutationIsOnto DEF S
<1> DEFINE p == [k \in S |-> CHOOSE i \in S : r[i] = k]
<1>14. \A k \in S : p[k] \in S /\ r[p[k]] = k
  BY <1>13
<1>15. p \in [S -> S]
  BY <1>14
<1> HIDE DEF p
<1>16. \A i, j \in S : i # j => p[i] # p[j]
  BY <1>14
<1>17. ASSUME NEW i \in S, NEW j \in S, i < j PROVE ~Before(ms[p[j]], ms[p[i]])
  <2>1. SUFFICES ASSUME Before(ms[p[j]], ms[p[i]]) PROVE FALSE
    OBVIOUS
  <2>2. r[p[j]] < r[p[i]]
    BY <1>7, <1>9, <1>14, <2>1
  <2>3. j < i
    BY <1>14, <2>2
  <2> QED
    BY <1>1, <1>17, <2>3
<1>18. Orders(p, ms)
  BY <1>1, <1>15, <1>16, <1>17 DEF Orders
<1> QED
  BY <1>18

(* Of two orders neither has a better mode in any place: the k modes the   *)
(* one has up to there would need k places before k in the other.          *)
LEMMA NoBetterAt ==
  ASSUME NEW ms \in Seq(DisplayMode), NEW p, NEW q, Orders(p, ms), Orders(q, ms),
         NEW k \in DOMAIN ms
  PROVE  ~Before(ms[p[k]], ms[q[k]])
<1> SUFFICES ASSUME Before(ms[p[k]], ms[q[k]]) PROVE FALSE
  OBVIOUS
<1> DEFINE n == Len(ms)
           S == 1 .. n
<1>1. n \in Nat /\ DOMAIN ms = S /\ k \in Nat /\ 1 <= k /\ k <= n
  OBVIOUS
<1>2. /\ S \subseteq Nat /\ \A i \in S : ms[i] \in DisplayMode
      /\ \A i \in Nat : 1 <= i /\ i <= n <=> i \in S
  OBVIOUS
<1>3. /\ p \in [S -> S] /\ q \in [S -> S]
      /\ \A i, j \in S : i # j => p[i] # p[j] /\ q[i] # q[j]
      /\ \A i, j \in S : i < j => ~Before(ms[p[j]], ms[p[i]]) /\ ~Before(ms[q[j]], ms[q[i]])
  BY <1>1 DEF Orders
<1> HIDE DEF n
<1>4. \A i \in S : \E l \in S : q[l] = i
  <2>1. q \in [1 .. n -> 1 .. n] /\ \A i, j \in 1 .. n : i # j => q[i] # q[j]
    BY <1>3
  <2> QED
    BY <1>1, <2>1, PermutationIsOnto
<1> HIDE DEF S
<1> DEFINE place == [j \in 1 .. k |-> CHOOSE l \in S : q[l] = p[j]]
<1>5. ASSUME NEW j \in 1 .. k
      PROVE  place[j] \in S /\ q[place[j]] = p[j] /\ place[j] \in 1 .. (k - 1)
  <2>0. j \in Nat /\ 1 <= j /\ j <= k
    BY <1>1
  <2>1. j \in S /\ p[j] \in S /\ k \in S
    <3>1. j <= n
      BY <1>1, <2>0
    <3>2. j \in S /\ k \in S
      BY <1>1, <1>2, <2>0, <3>1
    <3> QED
      BY <1>3, <3>2
  <2>2. place[j] \in S /\ q[place[j]] = p[j]
    BY <1>4, <2>1
  <2> HIDE DEF place
  <2>3. ~Before(ms[p[k]], ms[p[j]])
    <3>1. CASE j = k
      <4>1. ms[p[j]] \in DisplayMode
        BY <1>2, <2>1
      <4> QED
        BY <3>1, <4>1, BeforeOrders
    <3>2. CASE j < k
      BY <1>3, <2>1, <3>2
    <3> QED
      BY <1>1, <2>0, <3>1, <3>2
  <2>4. Before(ms[p[j]], ms[q[k]])
    <3>1. /\ ms[p[j]] \in DisplayMode /\ ms[p[k]] \in DisplayMode
          /\ ms[q[k]] \in DisplayMode
      BY <1>1, <1>2, <1>3, <2>1
    <3> QED
      BY <2>3, <3>1, BeforeOrders
  <2>5. ~ (k < place[j]) /\ place[j] # k
    <3>1. ~ (k < place[j])
      BY <1>1, <1>3, <2>2, <2>4
    <3>2. ms[q[k]] \in DisplayMode
      BY <1>1, <1>2, <1>3
    <3>3. place[j] # k
      BY <2>2, <2>4, <3>2, BeforeOrders
    <3> QED
      BY <3>1, <3>3
  <2> QED
    BY <1>1, <1>2, <2>2, <2>5
<1>6. place \in [1 .. k -> 1 .. (k - 1)]
  BY <1>5
<1>7. ASSUME NEW i \in 1 .. k, NEW j \in 1 .. k, place[i] = place[j] PROVE i = j
  <2>1. p[i] = p[j]
    BY <1>5, <1>7
  <2>2. i \in S /\ j \in S
    <3>1. \A x \in 1 .. k : x \in Nat /\ 1 <= x /\ x <= n
      BY <1>1
    <3> QED
      BY <1>2, <3>1
  <2> QED
    BY <1>3, <2>1, <2>2
<1> HIDE DEF place
<1>8. IsFiniteSet(1 .. k) /\ Cardinality(1 .. k) = k
  <2>1. 1 \in Int /\ k \in Int
    BY <1>1
  <2> QED
    BY <1>1, <2>1, FS_Interval
<1>9. IsFiniteSet(1 .. (k - 1)) /\ Cardinality(1 .. (k - 1)) = k - 1
  <2>1. 1 \in Int /\ k - 1 \in Int
    BY <1>1
  <2>2. /\ IsFiniteSet(1 .. (k - 1))
        /\ Cardinality(1 .. (k - 1)) = IF 1 > k - 1 THEN 0 ELSE (k - 1) - 1 + 1
    BY <2>1, FS_Interval
  <2> QED
    BY <1>1, <2>2
<1>10. \E i, j \in 1 .. k : i # j /\ place[i] = place[j]
  <2>1. Cardinality(1 .. (k - 1)) < Cardinality(1 .. k)
    BY <1>1, <1>8, <1>9
  <2> QED
    BY <1>6, <1>8, <1>9, <2>1, FS_PigeonHole
<1> QED
  BY <1>7, <1>10

LEMMA OneOrder ==
  ASSUME NEW ms \in Seq(DisplayMode), NEW p, NEW q, Orders(p, ms), Orders(q, ms)
  PROVE  Arranged(p, ms) = Arranged(q, ms)
<1>1. ASSUME NEW k \in DOMAIN ms PROVE ms[p[k]] = ms[q[k]]
  <2>1. ms[p[k]] \in DisplayMode /\ ms[q[k]] \in DisplayMode
    BY DEF Orders
  <2>2. ~Before(ms[p[k]], ms[q[k]]) /\ ~Before(ms[q[k]], ms[p[k]])
    BY NoBetterAt
  <2> QED
    BY <2>1, <2>2, BeforeOrders
<1> QED
  BY <1>1 DEF Arranged

Sortings(ms) == {Arranged(p, ms) : p \in {q \in [DOMAIN ms -> DOMAIN ms] : Orders(q, ms)}}

LEMMA OneSorting ==
  ASSUME NEW ms \in Seq(DisplayMode)
  PROVE  \E s : Sortings(ms) = {s}
<1>1. PICK p : Orders(p, ms)
  BY SomeOrder
<1>2. p \in {q \in [DOMAIN ms -> DOMAIN ms] : Orders(q, ms)}
  BY <1>1 DEF Orders
<1>3. \A q : Orders(q, ms) => Arranged(q, ms) = Arranged(p, ms)
  BY <1>1, OneOrder
<1>4. Sortings(ms) = {Arranged(p, ms)}
  BY <1>2, <1>3 DEF Sortings
<1> QED
  BY <1>4

LEMMA SortShown == IInv /\ ShownInv /\ Sort => ShownInv'
<1> SUFFICES ASSUME IInv, ShownInv, Sort PROVE ShownInv'
  OBVIOUS
<1>1. PICK p \in [DOMAIN modes -> DOMAIN modes] :
        /\ \A i, j \in DOMAIN modes : i # j => p[i] # p[j]
        /\ \A i, j \in DOMAIN modes : i < j => ~Before(modes[p[j]], modes[p[i]])
        /\ sorted' = [i \in DOMAIN modes |-> modes[p[i]]]
  BY DEF Sort
<1>2. modes' = modes /\ modeIndex' = 0 /\ baseDtdIndex' = 0 /\ pc' = "loop"
  BY DEF Sort, IInv, UnusedAtStart
<1>3. DOMAIN modes = 1 .. Len(modes) /\ Len(modes) \in Nat
  BY DEF IInv, TypeOK
<1>4. \A i \in DOMAIN modes : \E k \in DOMAIN modes : p[k] = i
  <2> DEFINE n == Len(modes)
  <2>1. p \in [1 .. n -> 1 .. n] /\ \A i, j \in 1 .. n : i # j => p[i] # p[j]
    BY <1>1, <1>3
  <2>2. n \in Nat
    BY <1>3
  <2> HIDE DEF n
  <2>3. \A i \in 1 .. n : \E k \in 1 .. n : p[k] = i
    BY <2>1, <2>2, PermutationIsOnto
  <2> QED BY <1>3, <2>3 DEF n
<1>5. DOMAIN sorted' = DOMAIN modes
  BY <1>1
<1>6. SortedInv'
  <2>1. ASSUME NEW k \in DOMAIN sorted' PROVE \E i \in DOMAIN modes : sorted'[k] = modes[i]
    <3>1. p[k] \in DOMAIN modes /\ sorted'[k] = modes[p[k]]
      BY <1>1, <1>5
    <3> QED BY <3>1
  <2>2. ASSUME NEW i \in DOMAIN modes PROVE \E k \in DOMAIN sorted' : sorted'[k] = modes[i]
    BY <1>1, <1>4, <1>5
  <2>3. ASSUME NEW k \in DOMAIN sorted', NEW l \in DOMAIN sorted', k < l
        PROVE  ~Before(sorted'[l], sorted'[k])
    <3>1. sorted'[l] = modes[p[l]] /\ sorted'[k] = modes[p[k]]
      BY <1>1, <1>5
    <3>2. ~Before(modes[p[l]], modes[p[k]])
      BY <1>1, <1>5, <2>3
    <3> QED BY <3>1, <3>2
  <2> QED BY <1>2, <2>1, <2>2, <2>3 DEF SortedInv
<1>7. SlotsInv'
  BY <1>2 DEF SlotsInv, Slots
<1> QED BY <1>2, <1>6, <1>7 DEF ShownInv, EndInv

LEMMA TryTimingShown == IInv /\ ShownInv /\ TryTiming => ShownInv'
<1> SUFFICES ASSUME IInv, ShownInv, TryTiming PROVE ShownInv'
  OBVIOUS
<1> DEFINE m == sorted[modeIndex + 1]
<1>1. /\ modeIndex \in Nat /\ modeIndex' = modeIndex + 1
      /\ modes' = modes /\ sorted' = sorted /\ pc = "loop" /\ pc' = "loop"
  BY DEF IInv, TypeOK, TryTiming
<1>2. baseDtdIndex \in Slots
  BY DEF IInv, TypeOK, TryTiming, Slots
<1>3. descriptors \in [Slots -> [1 .. DtdSize -> Byte]]
  BY DEF IInv, TypeOK
<1>4. SortedInv'
  BY <1>1 DEF ShownInv, SortedInv
<1>5. 1 .. modeIndex' = (1 .. modeIndex) \cup {modeIndex + 1}
  BY <1>1
<1>6. SlotsInv
  BY DEF ShownInv
<1>7. CASE HasTiming(m)
  <2>1. /\ baseDtdIndex' = baseDtdIndex + 1
        /\ descriptors' = [descriptors EXCEPT ![baseDtdIndex] = Timing(m)]
    BY <1>7 DEF TryTiming
  <2>2. /\ descriptors'[baseDtdIndex] = Timing(m)
        /\ \A s \in Slots : s # baseDtdIndex => descriptors'[s] = descriptors[s]
    BY <1>2, <1>3, <2>1
  <2>4. /\ HasTiming(sorted'[modeIndex + 1])
        /\ descriptors'[baseDtdIndex] = Timing(sorted'[modeIndex + 1])
    BY <1>1, <1>7, <2>2
  <2>5. ASSUME NEW s \in Slots, s < baseDtdIndex, NEW k, Taken(s, k)
        PROVE  HasTiming(sorted'[k]) /\ descriptors'[s] = Timing(sorted'[k])
    <3>1. s # baseDtdIndex
      BY <1>2, <2>5 DEF Slots
    <3> QED BY <1>1, <2>2, <2>5, <3>1 DEF Taken
  <2>6. ASSUME NEW s \in Slots PROVE s < baseDtdIndex' <=> s < baseDtdIndex \/ s = baseDtdIndex
    BY <1>2, <2>1 DEF Slots
  <2>7. ASSUME NEW s \in Slots, s < baseDtdIndex'
        PROVE  \E k \in 1 .. modeIndex' :
                 HasTiming(sorted'[k]) /\ descriptors'[s] = Timing(sorted'[k])
    <3>1. CASE s < baseDtdIndex
      BY <1>5, <1>6, <2>5, <3>1 DEF SlotsInv
    <3>2. CASE s = baseDtdIndex
      BY <1>5, <2>4, <3>2
    <3> QED BY <2>6, <2>7, <3>1, <3>2
  <2>8. ASSUME NEW s \in Slots, NEW t \in Slots, s < t, t < baseDtdIndex'
        PROVE  \E k, l \in 1 .. modeIndex' :
                 /\ k < l
                 /\ HasTiming(sorted'[k]) /\ descriptors'[s] = Timing(sorted'[k])
                 /\ HasTiming(sorted'[l]) /\ descriptors'[t] = Timing(sorted'[l])
    <3>1. CASE t < baseDtdIndex
      <4>1. s < baseDtdIndex
        BY <1>2, <2>8, <3>1 DEF Slots
      <4>2. PICK k \in 1 .. modeIndex, l \in 1 .. modeIndex : k < l /\ Taken(s, k) /\ Taken(t, l)
        BY <1>6, <2>8, <3>1 DEF SlotsInv
      <4>3. k \in 1 .. modeIndex' /\ l \in 1 .. modeIndex'
        BY <1>5
      <4> QED BY <2>5, <3>1, <4>1, <4>2, <4>3
    <3>2. CASE t = baseDtdIndex
      <4>1. PICK k \in 1 .. modeIndex : Taken(s, k)
        BY <1>6, <2>8, <3>2 DEF SlotsInv
      <4>2. k < modeIndex + 1 /\ k \in 1 .. modeIndex' /\ modeIndex + 1 \in 1 .. modeIndex'
        BY <1>1, <1>5
      <4>3. HasTiming(sorted'[k]) /\ descriptors'[s] = Timing(sorted'[k])
        BY <2>5, <2>8, <3>2, <4>1
      <4> QED BY <2>4, <3>2, <4>2, <4>3
    <3> QED BY <2>6, <2>8, <3>1, <3>2
  <2>9. ASSUME NEW k \in 1 .. modeIndex', HasTiming(sorted'[k])
        PROVE  \E s \in Slots : /\ s < baseDtdIndex'
                                /\ HasTiming(sorted'[k]) /\ descriptors'[s] = Timing(sorted'[k])
    <3>1. CASE k \in 1 .. modeIndex
      <4>1. HasTiming(sorted[k])
        BY <1>1, <2>9
      <4>2. PICK s \in Slots : s < baseDtdIndex /\ Taken(s, k)
        BY <1>6, <3>1, <4>1 DEF SlotsInv
      <4>3. HasTiming(sorted'[k]) /\ descriptors'[s] = Timing(sorted'[k])
        BY <2>5, <4>2
      <4> QED BY <2>6, <4>2, <4>3
    <3>2. CASE k = modeIndex + 1
      BY <1>2, <2>4, <2>6, <3>2
    <3> QED BY <1>5, <3>1, <3>2
  <2>10. SlotsInv'
    BY <2>7, <2>8, <2>9 DEF SlotsInv, Taken
  <2> QED BY <1>1, <1>4, <2>10 DEF ShownInv, EndInv
<1>8. CASE ~HasTiming(m)
  <2>1. baseDtdIndex' = baseDtdIndex
    BY <1>8 DEF TryTiming
  <2>2. \A s \in Slots : s < baseDtdIndex => descriptors'[s] = descriptors[s]
    BY <1>2, <1>3, <1>8 DEF TryTiming, Slots
  <2>3. ASSUME NEW s \in Slots, s < baseDtdIndex, NEW k, Taken(s, k)
        PROVE  HasTiming(sorted'[k]) /\ descriptors'[s] = Timing(sorted'[k])
    BY <1>1, <2>2, <2>3 DEF Taken
  <2>4. ASSUME NEW s \in Slots, s < baseDtdIndex
        PROVE  \E k \in 1 .. modeIndex' :
                 HasTiming(sorted'[k]) /\ descriptors'[s] = Timing(sorted'[k])
    BY <1>5, <1>6, <2>3, <2>4 DEF SlotsInv
  <2>5. ASSUME NEW s \in Slots, NEW t \in Slots, s < t, t < baseDtdIndex
        PROVE  \E k, l \in 1 .. modeIndex' :
                 /\ k < l
                 /\ HasTiming(sorted'[k]) /\ descriptors'[s] = Timing(sorted'[k])
                 /\ HasTiming(sorted'[l]) /\ descriptors'[t] = Timing(sorted'[l])
    <3>1. s < baseDtdIndex
      BY <1>2, <2>5 DEF Slots
    <3>2. PICK k \in 1 .. modeIndex, l \in 1 .. modeIndex : k < l /\ Taken(s, k) /\ Taken(t, l)
      BY <1>6, <2>5 DEF SlotsInv
    <3>3. k \in 1 .. modeIndex' /\ l \in 1 .. modeIndex'
      BY <1>5
    <3> QED BY <2>3, <2>5, <3>1, <3>2, <3>3
  <2>6. ASSUME NEW k \in 1 .. modeIndex', HasTiming(sorted'[k])
        PROVE  \E s \in Slots : /\ s < baseDtdIndex
                                /\ HasTiming(sorted'[k]) /\ descriptors'[s] = Timing(sorted'[k])
    <3>1. k \in 1 .. modeIndex /\ HasTiming(sorted[k])
      BY <1>1, <1>5, <1>8, <2>6
    <3>2. PICK s \in Slots : s < baseDtdIndex /\ Taken(s, k)
      BY <1>6, <3>1 DEF SlotsInv
    <3> QED BY <2>3, <3>2
  <2>7. SlotsInv'
    BY <2>1, <2>4, <2>5, <2>6 DEF SlotsInv, Taken
  <2> QED BY <1>1, <1>4, <2>7 DEF ShownInv, EndInv
<1> QED BY <1>7, <1>8

LEMMA SealShown == IInv /\ ShownInv /\ (Seal \/ UNCHANGED vars) => ShownInv'
<1> SUFFICES ASSUME IInv, ShownInv, Seal \/ UNCHANGED vars PROVE ShownInv'
  OBVIOUS
<1>1. /\ modes' = modes /\ sorted' = sorted /\ modeIndex' = modeIndex
      /\ baseDtdIndex' = baseDtdIndex /\ descriptors' = descriptors
  BY DEF Seal, vars
<1>2. SortedInv'
  <2>1. pc # "start"  \/ pc' = "start"
    BY DEF Seal, vars
  <2> QED BY <1>1, <2>1 DEF ShownInv, SortedInv
<1>3. SlotsInv'
  BY <1>1 DEF ShownInv, SlotsInv, Taken
<1>4. EndInv'
  <2>1. CASE Seal
    BY <1>1, <2>1 DEF Seal, EndInv, IInv, TypeOK
  <2>2. CASE UNCHANGED vars
    BY <1>1, <2>2 DEF vars, EndInv, ShownInv
  <2> QED BY <2>1, <2>2
<1> QED BY <1>2, <1>3, <1>4 DEF ShownInv

(* Whatever the list holds, a finished block shows its best modes with a   *)
(* timing, best first (338-364).                                           *)
THEOREM BestModesShown == Spec => []BestModes
<1>1. Init => ShownInv
  BY DEF Init, ShownInv, SortedInv, SlotsInv, EndInv, Slots
<1>2. IInv /\ ShownInv /\ [Next]_vars => ShownInv'
  BY SortShown, TryTimingShown, SealShown DEF Next
<1>3. IInv /\ ShownInv => BestModes
  <2> SUFFICES ASSUME IInv, ShownInv, pc = "done" PROVE BestModes
    BY DEF BestModes
  <2> DEFINE able == {i \in DOMAIN modes : HasTiming(modes[i])}
             Holds(s, i) == descriptors[s] = Timing(modes[i])
  <2>0. /\ SlotsInv /\ modeIndex \in 0 .. Len(sorted) /\ Len(sorted) \in Nat
        /\ DOMAIN sorted = 1 .. Len(sorted) /\ NoGaps /\ baseDtdIndex \in 0 .. 3
    BY DEF ShownInv, IInv, TypeOK
  <2>1. /\ \A k \in DOMAIN sorted : \E i \in DOMAIN modes : sorted[k] = modes[i]
        /\ \A i \in DOMAIN modes : \E k \in DOMAIN sorted : sorted[k] = modes[i]
        /\ \A k, l \in DOMAIN sorted : k < l => ~Before(sorted[l], sorted[k])
    BY DEF ShownInv, SortedInv
  <2>2. ASSUME NEW i \in able, ~ \E s \in Slots : Holds(s, i), NEW s \in Slots
        PROVE  \E j \in able : Holds(s, j) /\ ~Before(modes[i], modes[j])
    <3>1. PICK k \in DOMAIN sorted : sorted[k] = modes[i]
      BY <2>1
    <3>2. k \notin 1 .. modeIndex
      BY <2>0, <2>2, <3>1 DEF SlotsInv, Taken
    <3>3. baseDtdIndex = 3
      BY <2>0, <3>2 DEF ShownInv, EndInv
    <3>4. PICK l \in 1 .. modeIndex : Taken(s, l)
      BY <2>0, <3>3 DEF SlotsInv, Slots
    <3>5. l \in DOMAIN sorted /\ l < k
      BY <2>0, <3>2
    <3>6. PICK j \in DOMAIN modes : sorted[l] = modes[j]
      BY <2>1, <3>5
    <3>7. j \in able /\ Holds(s, j)
      BY <3>4, <3>6 DEF Taken
    <3>8. ~Before(modes[i], modes[j])
      BY <2>1, <3>1, <3>5, <3>6
    <3> QED BY <3>7, <3>8
  <2>3. ASSUME NEW s \in Slots, NEW t \in Slots, s < t, Filled(t)
        PROVE  \E i, j \in able : Holds(s, i) /\ Holds(t, j) /\ ~Before(modes[j], modes[i])
    <3>1. t < baseDtdIndex
      BY <2>0, <2>3 DEF NoGaps
    <3>2. PICK k \in 1 .. modeIndex, l \in 1 .. modeIndex : k < l /\ Taken(s, k) /\ Taken(t, l)
      BY <2>0, <2>3, <3>1 DEF SlotsInv
    <3>3. k \in DOMAIN sorted /\ l \in DOMAIN sorted
      BY <2>0
    <3>4. PICK i \in DOMAIN modes : sorted[k] = modes[i]
      BY <2>1, <3>3
    <3>5. PICK j \in DOMAIN modes : sorted[l] = modes[j]
      BY <2>1, <3>3
    <3>6. i \in able /\ j \in able /\ Holds(s, i) /\ Holds(t, j)
      BY <3>2, <3>4, <3>5 DEF Taken
    <3>7. ~Before(modes[j], modes[i])
      BY <2>1, <3>2, <3>3, <3>4, <3>5
    <3> QED BY <3>6, <3>7
  <2> QED BY <2>2, <2>3 DEF BestModes
<1> QED BY <1>1, <1>2, <1>3, Invariance, PTL DEF Spec
-----------------------------------------------------------------------------
(* 301-308: the block that Build hands out is 128 bytes that sum to zero   *)
(* in a byte, whatever modes were asked for and however many of them have  *)
(* a timing.                                                               *)
THEOREM ChecksumCorrect == Spec => []ChecksumRight
<1>1. Init => ChecksumRight
  BY DEF Init, ChecksumRight
<1>2. IInv /\ ChecksumRight /\ [Next]_vars => ChecksumRight'
  <2> SUFFICES ASSUME IInv, ChecksumRight, [Next]_vars PROVE ChecksumRight'
    OBVIOUS
  <2>1. CASE Sort \/ TryTiming
    BY <2>1 DEF Sort, TryTiming, ChecksumRight
  <2>2. CASE Seal
    <3>1. descriptors \in [Slots -> [1 .. DtdSize -> Byte]]
      BY DEF IInv, TypeOK
    <3> QED
      BY <2>2, <3>1, SealedBlockSound DEF Seal, ChecksumRight
  <2>3. CASE UNCHANGED vars
    BY <2>3 DEF vars, ChecksumRight
  <2> QED
    BY <2>1, <2>2, <2>3 DEF Next
<1> QED
  BY <1>1, <1>2, Invariance, PTL DEF Spec

-----------------------------------------------------------------------------
(* Every list of modes, of any length, has one sorted copy and Build takes *)
(* it (338-349): the comparison always admits an order, so that the sort   *)
(* is never stuck, and what it leaves open, the order of modes that        *)
(* compare equal, makes no difference to the EDID.                         *)
THEOREM SortDetermined ==
  Spec => [](\E s : Sortings(modes) = {s} /\ (pc # "start" => sorted = s))
<1> DEFINE Kept == pc # "start" => sorted \in Sortings(modes)
<1>1. Init => Kept
  BY DEF Init
<1>2. Kept /\ [Next]_vars => Kept'
  <2> SUFFICES ASSUME Kept, [Next]_vars PROVE Kept'
    OBVIOUS
  <2>1. CASE Sort
    <3>1. PICK p \in [DOMAIN modes -> DOMAIN modes] :
            /\ \A i, j \in DOMAIN modes : i # j => p[i] # p[j]
            /\ \A i, j \in DOMAIN modes : i < j => ~Before(modes[p[j]], modes[p[i]])
            /\ sorted' = [i \in DOMAIN modes |-> modes[p[i]]]
      BY <2>1 DEF Sort
    <3>2. Orders(p, modes) /\ sorted' = Arranged(p, modes)
      BY <3>1 DEF Orders, Arranged
    <3>3. sorted' \in Sortings(modes)
      BY <3>1, <3>2 DEF Sortings
    <3> QED
      BY <2>1, <3>3 DEF Sort
  <2>2. CASE TryTiming \/ Seal \/ UNCHANGED vars
    <3>1. UNCHANGED <<modes, sorted>> /\ (pc' # "start" => pc # "start")
      BY <2>2 DEF TryTiming, Seal, vars
    <3> QED
      BY <3>1
  <2> QED
    BY <2>1, <2>2 DEF Next
<1>3. IInv /\ Kept => \E s : Sortings(modes) = {s} /\ (pc # "start" => sorted = s)
  <2> SUFFICES ASSUME IInv, Kept
               PROVE  \E s : Sortings(modes) = {s} /\ (pc # "start" => sorted = s)
    OBVIOUS
  <2>1. PICK s : Sortings(modes) = {s}
    BY OneSorting DEF IInv, TypeOK
  <2> QED
    BY <2>1
<1> QED
  BY <1>1, <1>2, <1>3, Invariance, PTL DEF Spec

=============================================================================
