-------------------------- MODULE SystemTimeProofs --------------------------
(***************************************************************************)
(* Proofs about the time registers, for words of every width.              *)
(***************************************************************************)
EXTENDS SystemTime, TLAPS

(***************************************************************************)
(* Division: the quotient is the only one with a remainder in range.       *)
(***************************************************************************)
LEMMA DivMod ==
  ASSUME NEW d \in Nat \ {0}, NEW a \in Nat
  PROVE  /\ a \div d \in Nat
         /\ a % d \in 0 .. d - 1
         /\ a = d * (a \div d) + (a % d)
  BY SMT

\* Dividing d*q + r by d gives back q and r.
LEMMA Quotient ==
  ASSUME NEW d \in Nat \ {0}, NEW q \in Nat, NEW r \in 0 .. d - 1
  PROVE  (d * q + r) \div d = q /\ (d * q + r) % d = r
  BY SMT

\* A number below the divisor is its own remainder.
LEMMA Small ==
  ASSUME NEW d \in Nat \ {0}, NEW r \in 0 .. d - 1
  PROVE  r % d = r
  BY SMT

\* Products of naturals are naturals.
LEMMA ProductNat ==
  ASSUME NEW a \in Nat, NEW b \in Nat
  PROVE  a * b \in Nat
  BY SMT

\* The product of two half words fits a whole word.
LEMMA ProductBound ==
  ASSUME NEW h \in Nat \ {0}, NEW a \in 0 .. h - 1, NEW b \in 0 .. h - 1
  PROVE  a * b <= h * h - 1
  <1>1. a * b <= (h - 1) * (h - 1)
    BY SMT
  <1>2. (h - 1) * (h - 1) <= h * h - 1
    BY SMT
  <1> QED
    BY <1>1, <1>2, ProductNat, SMT

\* Multiplication is monotone.
LEMMA ProductMonotone ==
  ASSUME NEW a \in Nat, NEW b \in Nat, NEW c \in Nat, a <= b
  PROVE  a * c <= b * c
  BY SMT

\* Division is monotone.
LEMMA DivMonotone ==
  ASSUME NEW d \in Nat \ {0}, NEW a \in Nat, NEW b \in Nat, a <= b
  PROVE  a \div d <= b \div d
  BY SMT

(***************************************************************************)
(* The facts about the constants, free of % and \div.                      *)
(***************************************************************************)
LEMMA Constants ==
  /\ Half \in Nat \ {0}
  /\ Scale \in Nat \ {0}
  /\ Cal \in 0 .. Half - 1
  /\ Cal \in Nat
  /\ MaxTicks \in Nat
  /\ U64Max \in Nat
  /\ U64Max + 1 = Half * Half
  /\ Half \div Scale \in Nat
  /\ Half = Scale * (Half \div Scale)
  /\ Times \subseteq 1 .. U64Max
  <1>1. /\ Half \in Nat \ {0} /\ Scale \in Nat \ {0} /\ Half % Scale = 0
        /\ Cal \in 0 .. Half - 1 /\ MaxTicks \in Nat
        /\ Times \subseteq 1 .. U64Max
    BY SystemTimeAssumption
  <1>2. Half * Half >= 1
    BY <1>1, SMT
  <1>3. U64Max \in Nat /\ U64Max + 1 = Half * Half
    BY <1>1, <1>2, SMT DEF U64Max
  <1>4. Half \div Scale \in Nat /\ Half = Scale * (Half \div Scale)
    BY <1>1, DivMod, SMT
  <1> QED
    BY <1>1, <1>3, <1>4

(***************************************************************************)
(* The exact RTC time, its bound and its growth.                           *)
(***************************************************************************)
Exact(n) == (n * Cal) \div Scale

\* The exact time of every count up to MaxTicks fits a u64.
LEMMA ExactBound ==
  ASSUME NEW n \in 0 .. MaxTicks
  PROVE  Exact(n) \in 0 .. U64Max
  <1>1. n \in Nat /\ n * Cal \in Nat /\ MaxTicks * Cal \in Nat
    BY Constants, ProductNat
  <1>2. n * Cal <= MaxTicks * Cal
    BY <1>1, Constants, ProductMonotone
  <1>3. (n * Cal) \div Scale <= (MaxTicks * Cal) \div Scale
    BY <1>1, <1>2, Constants, DivMonotone
  <1>4. (MaxTicks * Cal) \div Scale <= U64Max
    BY SystemTimeAssumption
  <1>5. (n * Cal) \div Scale \in Nat /\ (MaxTicks * Cal) \div Scale \in Nat
    BY <1>1, Constants, DivMod
  <1> QED
    BY <1>3, <1>4, <1>5, Constants DEF Exact

\* The exact time never decreases as the RTC counts.
LEMMA ExactGrows ==
  ASSUME NEW n \in Nat
  PROVE  Exact(n) <= Exact(n + 1)
  <1>1. n * Cal \in Nat /\ (n + 1) * Cal \in Nat /\ n * Cal <= (n + 1) * Cal
    BY Constants, ProductNat, ProductMonotone
  <1> QED
    BY <1>1, Constants, DivMonotone DEF Exact

(***************************************************************************)
(* get_rtc_time_cal_us splits the product and loses nothing.               *)
(***************************************************************************)
LEMMA RtcTimeIsExact ==
  ASSUME NEW n \in 0 .. MaxTicks
  PROVE  RtcTimeUs(n) = Exact(n)
  <1> DEFINE l == n % Half
             h == n \div Half
             k == Half \div Scale
             a == l * Cal
             q == a \div Scale
             r == a % Scale
             b == h * Cal * k
  <1>1. n \in Nat /\ l \in 0 .. Half - 1 /\ h \in Nat /\ n = Half * h + l
    <2>1. n \in Nat /\ Half \in Nat \ {0}
      BY Constants
    <2> QED
      BY <2>1, DivMod
  <1>2. a \in Nat /\ a <= U64Max
    <2>1. a <= Half * Half - 1
      BY <1>1, Constants, ProductBound
    <2>2. a \in Nat
      BY <1>1, Constants, ProductNat
    <2>3. Half * Half \in Nat
      BY Constants, ProductNat
    <2> QED
      BY <2>1, <2>2, <2>3, Constants
  <1>3. q \in Nat /\ r \in 0 .. Scale - 1 /\ a = Scale * q + r
    BY <1>2, Constants, DivMod
  <1>4. k \in Nat /\ Half = Scale * k
    BY Constants
  <1>5. b \in Nat
    <2>1. h * Cal \in Nat
      BY <1>1, Constants, ProductNat
    <2> QED
      BY <2>1, <1>4, ProductNat
  <1>6. n * Cal = Scale * (b + q) + r
    <2>1. n * Cal = Half * h * Cal + a
      <3> HIDE DEF h, l
      <3> QED
        BY <1>1, Constants, SMT DEF a
    <2>2. Half * h * Cal = Scale * b
      <3> HIDE DEF h, k
      <3> QED
        BY <1>1, <1>4, Constants, SMT DEF b
    <2>3. Scale * b + Scale * q = Scale * (b + q)
      <3> HIDE DEF b, q
      <3> QED
        BY <1>3, <1>5, Constants, SMT
    <2>4. Scale * b \in Nat /\ Scale * q \in Nat
      BY <1>3, <1>5, Constants, ProductNat
    <2> HIDE DEF a, b, q, r
    <2> QED
      BY <2>1, <2>2, <2>3, <2>4, <1>3, Constants
  <1>7. Exact(n) = b + q
    <2> HIDE DEF b, q, r
    <2>1. Scale \in Nat \ {0} /\ b + q \in Nat
      BY <1>3, <1>5, Constants
    <2>2. (Scale * (b + q) + r) \div Scale = b + q
      BY <2>1, <1>3, Quotient
    <2> QED
      BY <2>2, <1>6 DEF Exact
  <1>8. b <= U64Max /\ b + q <= U64Max
    BY <1>3, <1>5, <1>7, ExactBound, Constants
  <1>9. /\ a % (U64Max + 1) = a
        /\ b % (U64Max + 1) = b
        /\ (q + b) % (U64Max + 1) = q + b
    <2> HIDE DEF a, b, q, r
    <2> QED
      BY <1>2, <1>3, <1>5, <1>8, Constants, Small
  <1>10. RtcTimeUs(n) = (q + b) % (U64Max + 1)
    BY <1>9 DEF RtcTimeUs
  <1> HIDE DEF a, b, q, r
  <1> QED
    BY <1>3, <1>5, <1>7, <1>9, <1>10

(***************************************************************************)
(* The store registers hold any u64.                                       *)
(***************************************************************************)
LEMMA StoreIsLossless ==
  ASSUME NEW us \in 0 .. U64Max
  PROVE  /\ BootTimeUs(Store(us)) = us
         /\ Store(us) \in [store2 : 0 .. Half - 1, store3 : 0 .. Half - 1]
  <1> DEFINE l == us % Half
             h == us \div Half
  <1>1. us \in Nat /\ l \in 0 .. Half - 1 /\ h \in Nat /\ us = Half * h + l
    <2>1. us \in Nat /\ Half \in Nat \ {0}
      BY Constants
    <2> QED
      BY <2>1, DivMod
  <1>2. h <= Half - 1
    <2>1. SUFFICES ASSUME h >= Half PROVE FALSE
      BY <1>1, Constants
    <2>2. Half * Half <= h * Half
      BY <1>1, <2>1, Constants, ProductMonotone
    <2>3. h * Half = Half * h
      BY <1>1, Constants
    <2>4. Half * Half \in Nat /\ h * Half \in Nat
      BY <1>1, Constants, ProductNat
    <2> HIDE DEF h, l
    <2> QED
      BY <1>1, <2>2, <2>3, <2>4, Constants
  <1>3. h * Half + l = us
    <2> HIDE DEF h, l
    <2> QED
      BY <1>1, Constants, SMT
  <1>4. Store(us) = [store2 |-> l, store3 |-> h]
    BY DEF Store
  <1> HIDE DEF h, l
  <1>5. BootTimeUs(Store(us)) = l + h * Half
    BY <1>4 DEF BootTimeUs
  <1>6. l + h * Half = h * Half + l
    BY <1>1, Constants, ProductNat
  <1> QED
    BY <1>1, <1>2, <1>3, <1>4, <1>5, <1>6
-----------------------------------------------------------------------------
(***************************************************************************)
(* The inductive invariant.  The stored boot time is the origin of the     *)
(* clock, counted modulo U64Max when it lies before zero; the clock itself *)
(* then is past zero.                                                      *)
(***************************************************************************)
BootOf(o) == IF o >= 0 THEN o ELSE U64Max + o

ClockAt(o, us) == o + us \in 0 .. U64Max /\ (o # 0 => o + us >= 1)

TimeInv ==
  /\ TypeOK
  /\ ClockAt(origin, Exact(ticks))
  /\ BootTimeUs(boot) = BootOf(origin)

(***************************************************************************)
(* get_time_us undoes what set_time_us stores.                             *)
(***************************************************************************)
LEMMA TimeRead ==
  ASSUME NEW regs, NEW o \in Int, NEW us \in 0 .. U64Max, ClockAt(o, us),
         BootTimeUs(regs) = BootOf(o)
  PROVE  TimeUs(regs, us) = o + us
  BY Constants DEF TimeUs, BootOf, ClockAt

\* Both branches of set_time_us store the origin, wrapped when negative.
LEMMA TimeStored ==
  ASSUME NEW t \in 0 .. U64Max, NEW us \in 0 .. U64Max,
         t >= 1 \/ us <= t
  PROVE  /\ NewBootTime(t, us) \in 0 .. U64Max
         /\ NewBootTime(t, us) = BootOf(t - us)
         /\ t - us \in Int
  BY Constants DEF NewBootTime, BootOf

\* TimeInv holds at power-on and every step preserves it.
LEMMA TimeInvariant == Spec => []TimeInv
<1>1. Init => TimeInv
  <2> SUFFICES ASSUME Init PROVE TimeInv
    OBVIOUS
  <2>1. 0 \in 0 .. MaxTicks /\ 0 \in 0 .. U64Max
    BY Constants
  <2>2. TypeOK
    BY <2>1, StoreIsLossless DEF Init, TypeOK, PowerOnBoot
  <2>3. BootTimeUs(boot) = BootOf(origin)
    BY <2>1, StoreIsLossless DEF Init, PowerOnBoot, BootOf
  <2>4. ClockAt(origin, Exact(ticks))
    <3>1. Exact(ticks) \in 0 .. U64Max
      BY <2>1, ExactBound DEF Init
    <3> QED
      BY <3>1, Constants DEF Init, ClockAt
  <2> QED
    BY <2>2, <2>3, <2>4 DEF TimeInv
<1>2. TimeInv /\ [Next]_vars => TimeInv'
  <2> SUFFICES ASSUME TimeInv, [Next]_vars PROVE TimeInv'
    OBVIOUS
  <2> DEFINE us == Exact(ticks)
  <2>1. /\ ticks \in 0 .. MaxTicks /\ origin \in Int /\ us \in 0 .. U64Max
        /\ RtcTimeUs(ticks) = us
    BY ExactBound, RtcTimeIsExact DEF TimeInv, TypeOK
  <2>2. ASSUME NEW t \in 0 .. U64Max, t >= 1 \/ us <= t,
               boot' = Store(NewBootTime(t, us)), origin' = t - us,
               UNCHANGED ticks
        PROVE  TimeInv'
    <3> DEFINE b == NewBootTime(t, us)
    <3>1. b \in 0 .. U64Max /\ b = BootOf(origin') /\ origin' \in Int
      BY <2>1, <2>2, TimeStored
    <3>2. /\ BootTimeUs(boot') = b
          /\ boot' \in [store2 : 0 .. Half - 1, store3 : 0 .. Half - 1]
      <4> HIDE DEF b
      <4>1. boot' = Store(b)
        BY <2>2 DEF b
      <4> QED
        BY <3>1, <4>1, StoreIsLossless
    <3>3. TypeOK'
      BY <2>1, <2>2, <3>1, <3>2 DEF TypeOK
    <3>4. ClockAt(origin', us)
      BY <2>1, <2>2, Constants DEF ClockAt
    <3>5. Exact(ticks') = us
      BY <2>2
    <3> QED
      BY <3>1, <3>2, <3>3, <3>4, <3>5 DEF TimeInv
  <2>3. CASE Tick
    <3>1. /\ ticks' = ticks + 1 /\ ticks' \in 0 .. MaxTicks
          /\ UNCHANGED <<boot, origin>>
          /\ origin + Exact(ticks + 1) <= U64Max
      <4>1. ticks < MaxTicks /\ ticks' = ticks + 1 /\ UNCHANGED <<boot, origin>>
        BY <2>3 DEF Tick
      <4>2. origin + Exact(ticks + 1) <= U64Max
        BY <2>3 DEF Tick, ExactTimeUs, Exact
      <4> QED
        BY <2>1, <4>1, <4>2, Constants
    <3>2. us <= Exact(ticks + 1) /\ Exact(ticks + 1) \in 0 .. U64Max
      BY <2>1, <3>1, ExactGrows, ExactBound
    <3>3. ClockAt(origin, Exact(ticks + 1))
      BY <2>1, <3>1, <3>2, Constants DEF TimeInv, ClockAt
    <3>4. TypeOK'
      BY <3>1 DEF TimeInv, TypeOK
    <3> QED
      BY <3>1, <3>3, <3>4 DEF TimeInv
  <2>4. ASSUME NEW t \in Times, SetTimeUs(t)
        PROVE  TimeInv'
    <3>1. t \in 0 .. U64Max /\ t >= 1
      BY Constants
    <3>2. /\ boot' = Store(NewBootTime(t, us)) /\ UNCHANGED ticks
          /\ origin' = t - us
      BY <2>1, <2>4 DEF SetTimeUs, Exact
    <3> HIDE DEF us
    <3> QED
      BY <2>2, <3>1, <3>2 DEF us
  <2>5. CASE UpdateBoot
    <3>1. TimeUs(boot, us) = origin + us
      BY <2>1, TimeRead DEF TimeInv
    <3> DEFINE t == origin + us
    <3>2. t \in 0 .. U64Max /\ (t >= 1 \/ us <= t) /\ origin = t - us
      BY <2>1, Constants DEF TimeInv, ClockAt
    <3>3. boot' = Store(NewBootTime(t, us)) /\ UNCHANGED <<ticks, origin>>
      BY <2>1, <2>5, <3>1 DEF UpdateBoot
    <3> HIDE DEF t, us
    <3>4. origin' = t - us
      BY <3>2, <3>3
    <3> QED
      BY <2>2, <3>2, <3>3, <3>4 DEF us
  <2>6. CASE PowerCycle
    <3>1. 0 \in 0 .. MaxTicks /\ 0 \in 0 .. U64Max
      BY Constants
    <3>2. /\ ticks' = 0 /\ origin' = 0 /\ boot' = Store(0)
      BY <2>6 DEF PowerCycle, PowerOnBoot
    <3>3. /\ BootTimeUs(boot') = 0
          /\ boot' \in [store2 : 0 .. Half - 1, store3 : 0 .. Half - 1]
      BY <3>1, <3>2, StoreIsLossless
    <3>4. Exact(0) \in 0 .. U64Max
      BY <3>1, ExactBound
    <3>5. ClockAt(0, Exact(0)) /\ BootOf(0) = 0
      BY <3>4, Constants DEF ClockAt, BootOf
    <3>6. TypeOK'
      BY <3>1, <3>2, <3>3 DEF TypeOK
    <3> QED
      BY <3>2, <3>3, <3>5, <3>6 DEF TimeInv
  <2>7. CASE UNCHANGED vars
    BY <2>7 DEF vars, TimeInv, TypeOK
  <2> QED
    BY <2>3, <2>4, <2>5, <2>6, <2>7 DEF Next
<1> QED
  BY <1>1, <1>2, PTL DEF Spec

(***************************************************************************)
(* The registers keep their 32 bits whatever is stored in them.            *)
(***************************************************************************)
THEOREM TypeCorrect == Spec => []TypeOK
  BY TimeInvariant, PTL DEF TimeInv

(***************************************************************************)
(* For every width of the registers, calibration and sequence of calls,    *)
(* get_time_us is exact.                                                   *)
(***************************************************************************)
THEOREM ClockIsExact == Spec => []ReadsBack
<1>1. TimeInv => ReadsBack
  <2> SUFFICES ASSUME TimeInv PROVE ReadsBack
    OBVIOUS
  <2>1. /\ ticks \in 0 .. MaxTicks /\ origin \in Int
        /\ ClockAt(origin, Exact(ticks)) /\ BootTimeUs(boot) = BootOf(origin)
    BY DEF TimeInv, TypeOK
  <2>2. Exact(ticks) \in 0 .. U64Max /\ RtcTimeUs(ticks) = Exact(ticks)
    BY <2>1, ExactBound, RtcTimeIsExact
  <2>3. TimeUs(boot, Exact(ticks)) = origin + Exact(ticks)
    BY <2>1, <2>2, TimeRead
  <2> QED
    BY <2>2, <2>3 DEF ReadsBack, ExactTimeUs, Exact
<1> QED
  BY <1>1, TimeInvariant, PTL
=============================================================================
