---------------------------- MODULE SlotTimingProofs ----------------------------
(* Lemmas about the arithmetic of slot time, for every base duration, cutoff   *)
(* and window that TimingAssumption admits.                                    *)
EXTENDS SlotTiming, WellFoundedInduction, TLAPS

-------------------------------------------------------------------------------
\* Arithmetic of slot time.

\* Multiplication by the length of a slot is monotonic.
LEMMA TimesMonotonic ==
  ASSUME NEW a \in Int, NEW b \in Int, a <= b
  PROVE  a * BaseDelta <= b * BaseDelta
BY TimingAssumption, SMTT(30)

\* The wall clock is inside the slot WallSlot says, once the genesis is past.
LEMMA WallSlotBrackets ==
  ASSUME NEW g \in Int, NEW t \in Int
  PROVE  /\ WallSlot(g, t) \in Nat
         /\ t >= g => Start(g, WallSlot(g, t)) <= t /\ t < Start(g, WallSlot(g, t) + 1)
<1>1. CASE t < g
  BY <1>1 DEF WallSlot
<1>2. CASE t >= g
  <2> DEFINE d == t - g
             q == d \div BaseDelta
  <2>1. d \in Nat /\ BaseDelta \in Nat \ {0}
    BY <1>2, TimingAssumption
  <2>2. q \in Nat /\ q * BaseDelta <= d /\ d < q * BaseDelta + BaseDelta
    BY <2>1, SMTT(30)
  <2>3. (q + 1) * BaseDelta = q * BaseDelta + BaseDelta
    BY <2>1, <2>2, SMTT(30)
  <2>4. WallSlot(g, t) = q
    BY <1>2 DEF WallSlot
  <2> QED
    BY <1>2, <2>1, <2>2, <2>3, <2>4 DEF Start
<1> QED
  BY <1>1, <1>2

\* A clock that has reached the start of slot s is in slot s or a later one.
LEMMA WallSlotReaches ==
  ASSUME NEW g \in Int, NEW t \in Int, NEW s \in Nat, t >= Start(g, s)
  PROVE  WallSlot(g, t) >= s
<1> DEFINE w == WallSlot(g, t)
<1>1. BaseDelta \in Nat /\ 0 <= s * BaseDelta
  BY TimingAssumption, TimesMonotonic, SMTT(30)
<1>2. t >= g
  BY <1>1 DEF Start
<1>3. w \in Nat /\ t < Start(g, w + 1)
  BY <1>2, WallSlotBrackets
<1>4. SUFFICES ASSUME w < s PROVE FALSE
  BY <1>3
<1>5. (w + 1) * BaseDelta <= s * BaseDelta
  <2>1. w + 1 \in Int /\ s \in Int /\ w + 1 <= s
    BY <1>3, <1>4
  <2> QED
    BY <2>1, TimesMonotonic
<1>6. s * BaseDelta \in Int /\ (w + 1) * BaseDelta \in Int
  BY <1>1, <1>3
<1> QED
  BY <1>3, <1>5, <1>6 DEF Start

\* A transaction is filed under the slot of the wall clock or the one after it.
LEMMA AssignedNow ==
  ASSUME NEW g \in Int, NEW t \in Int
  PROVE  AssignTransactionToSlot(g, t) \in {WallSlot(g, t), WallSlot(g, t) + 1}
BY DEF AssignTransactionToSlot

\* The stretch is one, two or four slots, whatever the number of skips.
LEMMA StretchRange ==
  ASSUME NEW k \in Nat
  PROVE  /\ EffectiveSlotDuration(k) \in {EffectiveSlotDuration(j) : j \in 0 .. 2}
         /\ EffectiveSlotDuration(k) \in Int
         /\ EffectiveSlotDuration(k) >= BaseDelta
         /\ EffectiveSlotDuration(0) = BaseDelta
<1>1. CASE k \in 0 .. 2
  BY <1>1, TimingAssumption DEF EffectiveSlotDuration
<1>2. CASE k > 2
  <2>1. EffectiveSlotDuration(k) = EffectiveSlotDuration(2)
    BY <1>2 DEF EffectiveSlotDuration
  <2> QED
    BY <2>1, TimingAssumption DEF EffectiveSlotDuration
<1> QED
  BY <1>1, <1>2

\* Every stretch a node can have is at least a slot.
LEMMA StretchAtLeastSlot ==
  ASSUME NEW e \in {EffectiveSlotDuration(j) : j \in 0 .. 2}
  PROVE  e \in Int /\ e >= BaseDelta
BY TimingAssumption DEF EffectiveSlotDuration

\* A non-empty set of slots with an upper bound has a last one.
LEMMA LastSlot ==
  ASSUME NEW S \in SUBSET Nat, S # {}, NEW b \in Nat, \A i \in S : i <= b
  PROVE  \E i \in S : \A j \in S : j <= i
<1> DEFINE T == {b - i : i \in S}
           R == OpToRel(<, Nat)
<1>1. \A i \in S : b - i \in Nat
  OBVIOUS
<1>2. T \subseteq Nat /\ T # {}
  BY <1>1
<1>3. \A x, y \in Nat : x < y => <<x, y>> \in R
  BY DEF OpToRel
<1>4. PICK x \in T : \A y \in T : <<y, x>> \notin R
  <2> HIDE DEF T, R
  <2>1. IsWellFoundedOn(R, Nat)
    BY NatLessThanWellFounded DEF R
  <2> QED
    BY <1>2, <2>1, WFMin
<1>5. PICK i \in S : x = b - i
  OBVIOUS
<1>6. ASSUME NEW j \in S PROVE j <= i
  <2>1. b - j \in T /\ b - j \in Nat /\ x \in Nat
    BY <1>1, <1>2
  <2>2. <<b - j, x>> \notin R
    BY <1>4, <2>1
  <2> HIDE DEF R
  <2>3. ~(b - j < x)
    BY <1>3, <2>1, <2>2
  <2> QED
    BY <1>5, <2>3
<1> QED
  BY <1>6
===============================================================================
