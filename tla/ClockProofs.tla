----------------------------- MODULE ClockProofs -----------------------------
(***************************************************************************)
(* What timer_init makes of a clock that ticks while it is read, for every *)
(* clock and every speed: THEOREMs DateIsNeverMixed and FrequencyIsExact.  *)
(*                                                                         *)
(* Both come from counting the register reads since the last tick.  At     *)
(* most one tick falls between two reads, so that after n reads of a pass  *)
(* the clock is at most n ticks ahead of the second that was read first:   *)
(* with more seconds than fields it has not come round, and an unchanged   *)
(* second means that nothing has changed (DateInv).  If ticks are further  *)
(* apart than the two passes of wait_sec's loop, the tick that ends the    *)
(* loop is the only one in it, and the second pass is exact (WaitInv).     *)
(***************************************************************************)
EXTENDS Clock, TLAPS

Hour == Radix[1] * Radix[2]

\* The clock in seconds since the hour.
HourTime == now[2] * Radix[1] + now[1]

\* How far the second has moved on since it was read, unless it came round.
Behind ==
    IF now[1] >= reading[1] THEN now[1] - reading[1] ELSE now[1] - reading[1] + Radix[1]

UpToDate == \A k \in DOMAIN reading : reading[k] = now[k]

TypeInv ==
    /\ TypeOK
    /\ reading \in Seq(Nat)
    /\ call \in {"wait1", "wait2"} \/ before = Unread
    /\ call = "done" => Complete

DateInv ==
    reading # << >> =>
        /\ Behind <= Len(reading)
        /\ since >= 1 => Behind <= Len(reading) - 1
        /\ Behind = 0 => UpToDate

WaitInv ==
    /\ reading # << >> /\ reading[1] # now[1] => since <= Len(reading) - 1
    /\ before # Unread /\ now[1] # before => since <= Pass - 1 + Len(reading)
    /\ before # Unread /\ reading # << >> /\ reading[1] # before => UpToDate

CountInv ==
    /\ call = "wait1" => elapsed = 0
    /\ call = "wait2" /\ elapsed < MaxElapsed => HourTime \in {t1 + elapsed, t1 + elapsed - Hour}

\* The inductive invariant.
ClockInv == TypeInv /\ DateInv /\ (gap >= 2 * Pass => WaitInv /\ CountInv)

-----------------------------------------------------------------------------
(* The clock *)

LEMMA RadixFacts ==
    /\ Len(Radix) \in Nat /\ Len(Radix) >= 2 /\ 1 \in Fields /\ 2 \in Fields
    /\ \A k \in Fields : Radix[k] \in Nat \ {0}
    /\ Radix[1] > Len(Radix)
    /\ Hour \in Nat \ {0} /\ MaxElapsed \in 0..Hour
  <1>1. /\ Len(Radix) \in Nat /\ Len(Radix) >= 2 /\ 1 \in Fields /\ 2 \in Fields
        /\ \A k \in Fields : Radix[k] \in Nat \ {0}
    BY ClockAssumption DEF Fields
  <1>2. \A r, q \in Nat \ {0} : r * q \in Nat \ {0}
    OBVIOUS
  <1>3. Hour \in Nat \ {0}
    BY <1>1, <1>2 DEF Hour
  <1> QED
    BY <1>1, <1>3, ClockAssumption DEF Hour

LEMMA TimeFacts ==
    ASSUME NEW t \in Times
    PROVE  \A k \in Fields : t[k] \in 0..Radix[k] - 1
  <1>1. Values \subseteq Nat
    BY RadixFacts DEF Values
  <1>2. \A k \in Fields : t[k] \in Values /\ t[k] < Radix[k]
    BY DEF Times
  <1>3. \A k \in Fields : Radix[k] \in Nat
    BY RadixFacts
  <1>4. ASSUME NEW k \in Fields
        PROVE  t[k] \in 0..Radix[k] - 1
    <2>1. t[k] \in Nat /\ Radix[k] \in Nat /\ t[k] < Radix[k]
      BY <1>1, <1>2, <1>3
    <2> QED
      BY <2>1
  <1> QED
    BY <1>4

\* The conversion from binary-coded decimals is exact.
LEMMA ReadIsExact ==
    ASSUME now \in Times, NEW k \in Fields
    PROVE  ReadRtc(k) = now[k] /\ now[k] \in 0..Radix[k] - 1
  <1>1. \A n \in Nat : (Bcd(n) % 16) + (Bcd(n) \div 16) * 10 = n
    BY DEF Bcd
  <1> QED
    BY <1>1, TimeFacts, RadixFacts DEF ReadRtc

\* A tick moves the second on, and the minute when the second comes round.
LEMMA LaterFacts ==
    ASSUME NEW t \in Times
    PROVE  /\ Later(t) \in Times
           /\ Later(t)[1] = IF t[1] = Radix[1] - 1 THEN 0 ELSE t[1] + 1
           /\ Later(t)[2] = IF t[1] # Radix[1] - 1 THEN t[2]
                            ELSE IF t[2] = Radix[2] - 1 THEN 0 ELSE t[2] + 1
  <1>1. \A k \in Fields : t[k] \in 0..Radix[k] - 1 /\ Radix[k] \in Nat \ {0}
    BY TimeFacts, RadixFacts
  <1>2. \A r \in Nat \ {0}, x \in Nat :
           /\ x \in 0..r - 1 => (x + 1) % r = IF x = r - 1 THEN 0 ELSE x + 1
    OBVIOUS
  <1>3. \A k \in Fields :
           Later(t)[k] = IF \A i \in 1..k - 1 : t[i] = Radix[i] - 1
                         THEN (IF t[k] = Radix[k] - 1 THEN 0 ELSE t[k] + 1)
                         ELSE t[k]
    BY <1>1, <1>2 DEF Later
  <1>4. \A k \in Fields : Later(t)[k] \in 0..Radix[k] - 1
    BY <1>1, <1>3
  <1>5. Later(t) \in [Fields -> Values]
    <2>1. \A k \in Fields : Later(t)[k] \in Values
      BY <1>4 DEF Values
    <2> QED
      BY <2>1 DEF Later
  <1>6. Later(t) \in Times
    BY <1>1, <1>4, <1>5 DEF Times
  <1>7. 1 \in Fields /\ 2 \in Fields /\ 1..1 - 1 = {} /\ 1..2 - 1 = {1}
    BY RadixFacts
  <1> QED
    BY <1>3, <1>6, <1>7

\* The seconds since the hour.
LEMMA HourFacts ==
    ASSUME NEW m \in 0..Radix[2] - 1, NEW s \in 0..Radix[1] - 1
    PROVE  /\ m * Radix[1] + s \in 0..Hour - 1
           /\ m * Radix[1] + s = Hour - 1 <=> m = Radix[2] - 1 /\ s = Radix[1] - 1
           /\ (m + 1) * Radix[1] = m * Radix[1] + Radix[1]
  <1> DEFINE r == Radix[1]
             q == Radix[2]
  <1>1. r \in Nat \ {0} /\ q \in Nat \ {0}
    BY RadixFacts
  <1>2. Hour = r * q
    BY DEF Hour
  <1> HIDE DEF r, q
  <1>3. \A a, b \in Nat : a <= b => a * r <= b * r
    BY <1>1
  <1>4. \A a \in Nat : a * r \in Nat /\ (a + 1) * r = a * r + r
    BY <1>1
  <1>5. m \in Nat /\ m + 1 <= q /\ s \in 0..r - 1
    BY <1>1 DEF r, q
  <1>6. (m + 1) * r <= q * r /\ q * r = r * q
    BY <1>1, <1>3, <1>5
  <1>7. m + 1 # q => (m + 1 + 1) * r <= q * r
    BY <1>1, <1>3, <1>5
  <1>8. m + 1 # q => m * r + r + r <= q * r
    BY <1>4, <1>5, <1>7
  <1>9. m * r + r <= Hour /\ (m + 1 = q => m * r + r = Hour)
    BY <1>2, <1>4, <1>5, <1>6
  <1> DEFINE p == m * r
  <1>10. /\ p \in Nat /\ (m + 1) * r = p + r /\ Hour \in Nat
         /\ p + r <= Hour /\ (m + 1 = q => p + r = Hour) /\ (m + 1 # q => p + r + r <= Hour)
    <2>1. m * r \in Nat /\ (m + 1) * r = m * r + r
      BY <1>4, <1>5
    <2>2. Hour \in Nat /\ q * r = Hour
      BY <1>2, <1>6, RadixFacts
    <2>3. m + 1 # q => m * r + r + r <= Hour
      BY <1>8, <2>2
    <2> QED
      BY <1>9, <2>1, <2>2, <2>3
  <1> HIDE DEF p
  <1>11. /\ p + s \in 0..Hour - 1
         /\ p + s = Hour - 1 <=> m = q - 1 /\ s = r - 1
         /\ (m + 1) * r = p + r
    BY <1>1, <1>5, <1>10
  <1> QED
    BY <1>11 DEF p, q, r

LEMMA HourTick ==
    ASSUME now \in Times, now' = Later(now)
    PROVE  /\ HourTime \in 0..Hour - 1
           /\ HourTime' = IF HourTime = Hour - 1 THEN 0 ELSE HourTime + 1
  <1> DEFINE s == now[1]
             m == now[2]
  <1>1. s \in 0..Radix[1] - 1 /\ m \in 0..Radix[2] - 1 /\ Radix[1] \in Nat \ {0} /\ Radix[2] \in Nat \ {0}
    BY TimeFacts, RadixFacts
  <1>2. /\ now'[1] = IF s = Radix[1] - 1 THEN 0 ELSE s + 1
        /\ now'[2] = IF s # Radix[1] - 1 THEN m ELSE IF m = Radix[2] - 1 THEN 0 ELSE m + 1
    BY LaterFacts
  <1>3. /\ m * Radix[1] + s \in 0..Hour - 1
        /\ m * Radix[1] + s = Hour - 1 <=> m = Radix[2] - 1 /\ s = Radix[1] - 1
        /\ (m + 1) * Radix[1] = m * Radix[1] + Radix[1]
    BY <1>1, HourFacts
  <1>4. m * Radix[1] \in Nat /\ 0 * Radix[1] = 0
    BY <1>1
  <1> QED
    BY <1>1, <1>2, <1>3, <1>4 DEF HourTime

-----------------------------------------------------------------------------
(* The types *)

\* The fields that have been read are those of some time.
LEMMA ReadingFacts ==
    ASSUME TypeInv
    PROVE  /\ Len(reading) \in 0..Pass
           /\ DOMAIN reading = 1..Len(reading)
           /\ reading # << >> <=> Len(reading) >= 1
           /\ \A k \in DOMAIN reading : reading[k] \in 0..Radix[k] - 1
           /\ since \in 0..gap /\ gap \in Nat \ {0} /\ Pass \in Nat /\ Pass >= 2
           /\ now[1] \in 0..Radix[1] - 1 /\ now \in Times
  <1>1. reading \in Seq(Nat) /\ Len(reading) \in Nat /\ DOMAIN reading = 1..Len(reading)
    BY DEF TypeInv
  <1>2. reading # << >> <=> Len(reading) >= 1
    BY <1>1
  <1>3. gap \in Nat \ {0} /\ since \in 0..gap /\ Len(reading) <= Pass /\ now \in Times
    BY ClockAssumption DEF TypeInv, TypeOK
  <1>4. ASSUME NEW k \in DOMAIN reading
        PROVE  reading[k] \in 0..Radix[k] - 1
    <2>1. k \in Fields
      BY <1>1, <1>3, <1>4, RadixFacts DEF Fields, Pass
    <2>2. reading[k] \in Nat /\ reading[k] < Radix[k] /\ Radix[k] \in Nat
      BY <1>1, <2>1, RadixFacts DEF TypeInv, TypeOK
    <2> QED
      BY <2>2
  <1>5. Pass \in Nat /\ Pass >= 2 /\ 1 \in Fields
    BY RadixFacts DEF Pass
  <1>6. now[1] \in 0..Radix[1] - 1
    BY <1>3, <1>5, TimeFacts
  <1> QED
    BY <1>1, <1>2, <1>3, <1>4, <1>5, <1>6

\* The field that ReadField appends is the one on the clock.
LEMMA ReadFieldFacts ==
    ASSUME TypeInv, ReadField
    PROVE  /\ Len(reading) + 1 \in Fields
           /\ reading' = Append(reading, now[Len(reading) + 1])
           /\ reading' \in Seq(Nat) /\ Len(reading') = Len(reading) + 1
           /\ \A k \in 1..Len(reading) : reading'[k] = reading[k]
           /\ reading'[Len(reading) + 1] = now[Len(reading) + 1]
           /\ now[Len(reading) + 1] \in 0..Radix[Len(reading) + 1] - 1
  <1> DEFINE n == Len(reading)
  <1>1. n \in 0..Pass /\ n # Pass /\ reading \in Seq(Nat) /\ now \in Times
    BY ReadingFacts DEF ReadField, Complete, Pass, TypeInv
  <1>2. n + 1 \in Fields
    BY <1>1, RadixFacts DEF Fields, Pass
  <1>3. ReadRtc(n + 1) = now[n + 1] /\ now[n + 1] \in 0..Radix[n + 1] - 1
    BY <1>1, <1>2, ReadIsExact
  <1>4. reading' = Append(reading, now[n + 1])
    BY <1>3 DEF ReadField
  <1>5. now[n + 1] \in Nat
    BY <1>2, <1>3, RadixFacts
  <1> QED
    BY <1>1, <1>2, <1>3, <1>4, <1>5

LEMMA SecondsType ==
    ASSUME TypeInv, Complete
    PROVE  /\ Seconds \in 0..Radix[1] * Radix[2] - 1
           /\ reading[1] \in 0..Radix[1] - 1
           /\ UpToDate => Seconds = HourTime /\ reading[1] = now[1]
  <1>1. reading[1] \in 0..Radix[1] - 1 /\ reading[2] \in 0..Radix[2] - 1
        /\ 1 \in DOMAIN reading /\ 2 \in DOMAIN reading
    BY ReadingFacts, RadixFacts DEF Complete, Fields
  <1>2. reading[2] * Radix[1] + reading[1] \in 0..Hour - 1
    BY <1>1, HourFacts
  <1> QED
    BY <1>1, <1>2 DEF Seconds, Hour, HourTime, UpToDate

\* Every variable keeps its type: the fields that are read are in their range.
LEMMA TypeKept ==
    ASSUME TypeInv, Next
    PROVE  TypeInv'
  <1> USE DEF TypeInv
  <1>1. CASE Tick
    <2>1. now' \in Times
      BY <1>1, LaterFacts DEF Tick, TypeOK
    <2>2. elapsed' \in 0..MaxElapsed /\ since' \in 0..gap
      BY <1>1, ReadingFacts, RadixFacts DEF Tick, TypeOK
    <2> QED
      BY <1>1, <2>1, <2>2 DEF Tick, TypeOK, Complete
  <1>2. CASE ReadField
    <2>1. since' \in 0..gap
      BY <1>2, ReadingFacts DEF ReadField, Elapses
    <2>2. Len(reading') <= Pass /\ DOMAIN reading' = 1..Len(reading) + 1
      BY <1>2, ReadFieldFacts, ReadingFacts DEF Fields, Pass
    <2>3. \A k \in DOMAIN reading' : reading'[k] < Radix[k]
      <3> SUFFICES ASSUME NEW k \in DOMAIN reading' PROVE reading'[k] < Radix[k]
        OBVIOUS
      <3>1. CASE k = Len(reading) + 1
        BY <1>2, <3>1, ReadFieldFacts, RadixFacts
      <3>2. CASE k \in 1..Len(reading)
        BY <1>2, <3>2, ReadFieldFacts, ReadingFacts DEF TypeOK
      <3> QED
        BY <2>2, <3>1, <3>2, ReadingFacts
    <2>4. reading' \in Seq(Nat)
      BY <1>2, ReadFieldFacts
    <2> QED
      BY <1>2, <2>1, <2>2, <2>3, <2>4 DEF ReadField, TypeOK
  <1>3. CASE WaitT0
    <2>1. reading[1] \in 0..Radix[1] - 1
      BY <1>3, SecondsType DEF WaitT0, Waiting
    <2> QED
      BY <1>3, <2>1, ReadingFacts DEF WaitT0, Waiting, TypeOK
  <1>4. CASE WaitAgain
    BY <1>4, ReadingFacts DEF WaitAgain, Waiting, TypeOK
  <1>5. CASE FirstWait
    <2>1. Seconds \in 0..Radix[1] * Radix[2] - 1
      BY <1>5, SecondsType DEF FirstWait, WaitEnds, Waiting
    <2> QED
      BY <1>5, <2>1, ReadingFacts DEF FirstWait, WaitEnds, TypeOK
  <1>6. CASE SecondWait
    <2>1. 0 \in 0..Radix[1] * Radix[2] - 1 /\ 0 \in 0..MaxElapsed
      BY RadixFacts DEF Hour
    <2> QED
      BY <1>6, <2>1, ReadingFacts DEF SecondWait, WaitEnds, TypeOK
  <1>7. CASE ReadSecondAgain
    <2>1. since' \in 0..gap
      BY <1>7, ReadingFacts DEF ReadSecondAgain, Elapses
    <2>2. CASE reading' = reading /\ call' = "done"
      BY <1>7, <2>1, <2>2, ReadingFacts DEF ReadSecondAgain, TypeOK, Complete
    <2>3. CASE reading' = << >> /\ call' = call
      BY <1>7, <2>1, <2>3, ReadingFacts DEF ReadSecondAgain, TypeOK
    <2> QED
      BY <1>7, <2>2, <2>3 DEF ReadSecondAgain
  <1> QED
    BY <1>1, <1>2, <1>3, <1>4, <1>5, <1>6, <1>7 DEF Next, Step

-----------------------------------------------------------------------------
(* The date *)

\* A tick moves the clock one second away from what was read.
LEMMA TickDate ==
    ASSUME TypeInv, DateInv, Tick, reading # << >>
    PROVE  /\ Behind' = Behind + 1
           /\ Behind' <= Len(reading) /\ Behind >= 0
  <1>1. /\ Len(reading) \in Nat /\ Len(reading) >= 1 /\ Len(reading) <= Pass /\ Pass \in Nat
        /\ since >= 1 /\ Pass < Radix[1] /\ Radix[1] \in Nat
    BY ReadingFacts, RadixFacts DEF Tick, Pass
  <1>2. now[1] \in 0..Radix[1] - 1 /\ reading[1] \in 0..Radix[1] - 1
    BY ReadingFacts
  <1>3. now'[1] = (IF now[1] = Radix[1] - 1 THEN 0 ELSE now[1] + 1) /\ reading' = reading
    BY LaterFacts DEF Tick, TypeInv, TypeOK
  <1>4. Behind <= Len(reading) - 1
    BY <1>1 DEF DateInv
  <1> QED
    BY <1>1, <1>2, <1>3, <1>4, SMTT(30) DEF Behind

LEMMA DateKept ==
    ASSUME TypeInv, DateInv, Next
    PROVE  DateInv'
  <1>1. CASE Tick
    <2> SUFFICES ASSUME reading # << >> PROVE DateInv'
      BY <1>1 DEF Tick, DateInv
    <2>1. since' = 0 /\ reading' = reading
      BY <1>1 DEF Tick
    <2>2. Behind' = Behind + 1 /\ Behind' <= Len(reading) /\ Behind >= 0 /\ Behind \in Int
      BY <1>1, TickDate, ReadingFacts, RadixFacts, SMTT(30) DEF Behind
    <2> QED
      BY <2>1, <2>2 DEF DateInv
  <1>2. CASE ReadField
    <2>1. /\ reading' # << >> /\ Len(reading') = Len(reading) + 1 /\ Len(reading) \in Nat
          /\ now' = now /\ DOMAIN reading' = 1..Len(reading) + 1
      BY <1>2, ReadFieldFacts, ReadingFacts DEF ReadField
    <2>2. CASE reading = << >>
      <3>1. Len(reading) = 0 /\ Len(reading') = 1 /\ DOMAIN reading' = {1}
        BY <2>1, <2>2
      <3>2. reading'[1] = now'[1]
        BY <1>2, <2>1, <3>1, ReadFieldFacts
      <3>3. now'[1] \in Nat
        BY <2>1, ReadingFacts, RadixFacts
      <3>4. Behind' = 0
        BY <3>2, <3>3 DEF Behind
      <3>5. UpToDate'
        BY <3>1, <3>2 DEF UpToDate
      <3> QED
        BY <3>1, <3>4, <3>5 DEF DateInv
    <2>3. CASE reading # << >>
      <3>1. reading'[1] = reading[1]
        BY <1>2, <2>3, ReadFieldFacts, ReadingFacts
      <3>2. Behind' = Behind /\ Behind \in Int
        BY <2>1, <2>3, <3>1, ReadingFacts, RadixFacts, SMTT(30) DEF Behind
      <3>3. Behind = 0 => UpToDate'
        BY <1>2, <2>1, <2>3, ReadFieldFacts, ReadingFacts, SMTT(30) DEF DateInv, UpToDate
      <3> QED
        BY <2>1, <2>3, <3>2, <3>3 DEF DateInv
    <2> QED
      BY <2>2, <2>3
  <1>3. CASE WaitT0 \/ WaitAgain \/ FirstWait \/ SecondWait
    <2>1. reading' = << >>
      BY <1>3 DEF WaitT0, WaitAgain, FirstWait, SecondWait, WaitEnds
    <2> QED
      BY <2>1 DEF DateInv
  <1>4. CASE ReadSecondAgain
    <2>1. CASE reading' = << >>
      BY <2>1 DEF DateInv
    <2>2. CASE reading' = reading /\ ReadRtc(1) = reading[1]
      <3>1. now[1] = reading[1] /\ now' = now
        BY <1>4, <2>2, ReadIsExact, RadixFacts DEF ReadSecondAgain, TypeInv, TypeOK
      <3>2. Behind = 0 /\ Behind' = 0 /\ reading # << >> /\ Len(reading) >= 1 /\ Len(reading) \in Nat
        BY <1>4, <2>2, <3>1, ReadingFacts DEF Behind, ReadSecondAgain, Complete, Pass
      <3>3. UpToDate' /\ Len(reading') = Len(reading)
        BY <2>2, <3>1, <3>2 DEF DateInv, UpToDate
      <3> QED
        BY <3>2, <3>3 DEF DateInv
    <2> QED
      BY <1>4, <2>1, <2>2 DEF ReadSecondAgain
  <1> QED
    BY <1>1, <1>2, <1>3, <1>4 DEF Next, Step

-----------------------------------------------------------------------------
(* The frequency *)

LEMMA WaitKept ==
    ASSUME TypeInv, gap >= 2 * Pass, WaitInv, Next
    PROVE  WaitInv'
  <1>1. CASE Tick
    <2>1. since' = 0 /\ since >= 2 * Pass /\ UNCHANGED <<reading, before, call>>
      BY <1>1, ReadingFacts DEF Tick
    <2>2. before # Unread /\ reading # << >> => reading[1] = before
      <3> SUFFICES ASSUME before # Unread, reading # << >>, reading[1] # before PROVE FALSE
        OBVIOUS
      <3>1. reading[1] = now[1]
        BY ReadingFacts, RadixFacts DEF WaitInv, UpToDate, Fields
      <3>2. since <= Pass - 1 + Len(reading)
        BY <3>1 DEF WaitInv
      <3> QED
        BY <2>1, <3>2, ReadingFacts
    <2> QED
      BY <2>1, <2>2, ReadingFacts DEF WaitInv
  <1>2. CASE ReadField
    <2>1. /\ Len(reading') = Len(reading) + 1 /\ Len(reading) \in 0..Pass
          /\ now' = now /\ before' = before /\ since' \in {since, since + 1}
          /\ DOMAIN reading' = 1..Len(reading) + 1
      BY <1>2, ReadFieldFacts, ReadingFacts DEF ReadField, Elapses
    <2>2. reading'[1] = IF reading = << >> THEN now[1] ELSE reading[1]
      BY <1>2, ReadFieldFacts, ReadingFacts
    <2>3. reading'[1] # now[1] => since' <= Len(reading') - 1
      BY <2>1, <2>2, ReadingFacts DEF WaitInv
    <2>4. before # Unread /\ now[1] # before => since' <= Pass - 1 + Len(reading')
      BY <2>1, ReadingFacts DEF WaitInv
    <2>5. before # Unread /\ reading'[1] # before => UpToDate'
      <3> SUFFICES ASSUME before # Unread, reading'[1] # before,
                          NEW k \in 1..Len(reading) + 1
                   PROVE  reading'[k] = now[k]
        BY <2>1 DEF UpToDate
      <3>1. CASE k = Len(reading) + 1
        BY <1>2, <3>1, ReadFieldFacts
      <3>2. CASE k \in 1..Len(reading)
        <4>1. reading # << >> /\ k \in DOMAIN reading /\ reading'[k] = reading[k]
          BY <1>2, <3>2, ReadFieldFacts, ReadingFacts
        <4>2. reading[1] # before
          BY <2>2, <4>1
        <4>3. UpToDate
          BY <4>1, <4>2 DEF WaitInv
        <4> QED
          BY <4>1, <4>3 DEF UpToDate
      <3> QED
        BY <2>1, <3>1, <3>2
    <2> QED
      BY <2>1, <2>3, <2>4, <2>5 DEF WaitInv
  <1>3. CASE WaitT0
    <2>1. /\ reading' = << >> /\ now' = now /\ since' = since /\ before' = reading[1]
          /\ Len(reading) = Pass /\ reading # << >>
      BY <1>3, ReadingFacts DEF WaitT0, Waiting, Complete, Pass
    <2>2. now[1] # reading[1] => since <= Pass - 1
      BY <2>1 DEF WaitInv
    <2> QED
      BY <2>1, <2>2, ReadingFacts DEF WaitInv
  <1>4. CASE WaitAgain \/ FirstWait \/ SecondWait
    <2>1. reading' = << >> /\ before' = Unread
      BY <1>4 DEF WaitAgain, FirstWait, SecondWait, WaitEnds
    <2> QED
      BY <2>1 DEF WaitInv
  <1>5. CASE ReadSecondAgain
    <2>1. now' = now /\ before' = before /\ before = Unread
      BY <1>5 DEF ReadSecondAgain, TypeInv
    <2>2. CASE reading' = << >>
      BY <2>1, <2>2 DEF WaitInv
    <2>3. CASE reading' = reading /\ ReadRtc(1) = reading[1]
      <3>1. now[1] = reading[1]
        BY <2>3, ReadIsExact, RadixFacts DEF TypeInv, TypeOK
      <3> QED
        BY <2>1, <2>3, <3>1 DEF WaitInv
    <2> QED
      BY <1>5, <2>2, <2>3 DEF ReadSecondAgain
  <1> QED
    BY <1>1, <1>2, <1>3, <1>4, <1>5 DEF Next, Step

\* The pass that ends wait_sec's loop shows the time on the clock.
LEMMA WaitIsExact ==
    ASSUME TypeInv, WaitInv, Waiting, before \notin {Unread, reading[1]}
    PROVE  Seconds = HourTime
  <1>1. reading # << >> /\ Complete
    BY ReadingFacts DEF Waiting, Complete, Pass
  <1>2. UpToDate
    BY <1>1 DEF WaitInv
  <1> QED
    BY <1>1, <1>2, SecondsType

LEMMA CountKept ==
    ASSUME TypeInv, WaitInv, CountInv, Next
    PROVE  CountInv'
  <1>1. CASE Tick
    <2>1. /\ HourTime \in 0..Hour - 1
          /\ HourTime' = IF HourTime = Hour - 1 THEN 0 ELSE HourTime + 1
      BY <1>1, HourTick DEF Tick, TypeInv, TypeOK
    <2>2. t1 \in 0..Hour - 1 /\ elapsed \in 0..MaxElapsed /\ MaxElapsed \in 0..Hour /\ Hour \in Nat
      BY RadixFacts DEF TypeInv, TypeOK, Hour
    <2>3. /\ call' = call /\ t1' = t1
          /\ elapsed' = IF call = "wait2" /\ elapsed < MaxElapsed THEN elapsed + 1 ELSE elapsed
          /\ Hour' = Hour
      BY <1>1 DEF Tick, Hour
    <2>4. CASE call = "wait2" /\ elapsed' < MaxElapsed
      <3>1. elapsed' = elapsed + 1 /\ elapsed < MaxElapsed
        BY <2>2, <2>3, <2>4
      <3>2. HourTime \in {t1 + elapsed, t1 + elapsed - Hour}
        BY <2>4, <3>1 DEF CountInv
      <3>3. HourTime' \in {t1 + elapsed', t1 + elapsed' - Hour}
        BY <2>1, <2>2, <3>1, <3>2
      <3> QED
        BY <2>3, <2>4, <3>3 DEF CountInv
    <2> QED
      BY <2>3, <2>4 DEF CountInv
  <1>2. CASE ReadField \/ WaitT0 \/ WaitAgain \/ ReadSecondAgain
    <2>1. /\ UNCHANGED <<now, t1, elapsed>> /\ HourTime' = HourTime /\ Hour' = Hour
          /\ call' = call \/ call' = "done"
      BY <1>2 DEF ReadField, WaitT0, WaitAgain, ReadSecondAgain, HourTime, Hour
    <2> QED
      BY <2>1 DEF CountInv
  <1>3. CASE FirstWait
    <2>1. Seconds = HourTime
      BY <1>3, WaitIsExact DEF FirstWait, WaitEnds
    <2>2. /\ call' = "wait2" /\ t1' = HourTime /\ elapsed' = 0 /\ HourTime' = HourTime
          /\ HourTime \in Int
      BY <1>3, <2>1, HourFacts, TimeFacts, RadixFacts
         DEF FirstWait, WaitEnds, CountInv, HourTime, TypeInv, TypeOK
    <2> QED
      BY <2>2 DEF CountInv
  <1>4. CASE SecondWait
    BY <1>4 DEF SecondWait, CountInv
  <1> QED
    BY <1>1, <1>2, <1>3, <1>4 DEF Next, Step

-----------------------------------------------------------------------------

LEMMA InitOK == Init => ClockInv
  <1> SUFFICES ASSUME Init PROVE ClockInv
    OBVIOUS
  <1>1. now \in Times /\ gap \in Gaps /\ gap \in Nat \ {0} /\ since = gap
        /\ call = "wait1" /\ reading = << >> /\ before = Unread /\ t1 = 0 /\ elapsed = 0
    BY ClockAssumption DEF Init
  <1>2. 0 \in 0..Radix[1] * Radix[2] - 1 /\ 0 \in 0..MaxElapsed
    BY RadixFacts DEF Hour
  <1>3. Len(reading) = 0 /\ DOMAIN reading = {} /\ Pass \in Nat /\ reading \in Seq(Nat)
    BY <1>1, RadixFacts DEF Pass
  <1>4. TypeInv
    BY <1>1, <1>2, <1>3 DEF TypeInv, TypeOK
  <1> QED
    BY <1>1, <1>4 DEF ClockInv, DateInv, WaitInv, CountInv

LEMMA Inductive == ClockInv /\ [Next]_vars => ClockInv'
  <1> SUFFICES ASSUME ClockInv, [Next]_vars PROVE ClockInv'
    OBVIOUS
  <1>1. CASE Next
    <2>1. TypeInv' /\ DateInv'
      BY <1>1, TypeKept, DateKept DEF ClockInv
    <2>2. gap' = gap /\ Pass' = Pass
      BY <1>1 DEF Next, Step, Tick, ReadField, WaitT0, WaitAgain, FirstWait, SecondWait,
                  ReadSecondAgain, Pass
    <2>3. gap >= 2 * Pass => WaitInv' /\ CountInv'
      BY <1>1, WaitKept, CountKept DEF ClockInv
    <2> QED
      BY <2>1, <2>2, <2>3 DEF ClockInv
  <1>2. CASE UNCHANGED vars
    BY <1>2 DEF vars, ClockInv, TypeInv, TypeOK, Complete, DateInv, Behind, UpToDate, WaitInv,
                CountInv, HourTime, Hour, Pass
  <1> QED
    BY <1>1, <1>2

LEMMA InvariantHolds == Spec => []ClockInv
  BY InitOK, Inductive, PTL DEF Spec

\* Every field that is read is a value its field can have, also when the
\* clock ticks between the reads.
THEOREM TypeCorrect == Spec => []TypeOK
  <1>1. ClockInv => TypeOK
    BY DEF ClockInv, TypeInv
  <1> QED
    BY <1>1, InvariantHolds, PTL

\* The date of timer_rtc is the one on the clock, never a mixture of two.
THEOREM DateIsNeverMixed == Spec => DateIsShown
  <1>1. ASSUME ClockInv, [Next]_vars, call = "rtc", call' = "done"
        PROVE  reading = now
    <2>1. ReadSecondAgain
      BY <1>1 DEF Next, Step, Tick, ReadField, WaitT0, WaitAgain, FirstWait, SecondWait, vars
    <2>2. ReadRtc(1) = reading[1] /\ Complete
      BY <1>1, <2>1 DEF ReadSecondAgain
    <2>3. TypeInv /\ DateInv
      BY <1>1 DEF ClockInv
    <2>4. now[1] = reading[1] /\ now \in Times /\ now[1] \in Nat
      BY <2>2, <2>3, ReadIsExact, ReadingFacts, RadixFacts DEF TypeInv, TypeOK
    <2>5. reading # << >> /\ DOMAIN reading = Fields
      BY <2>2, <2>3, ReadingFacts DEF Complete, Pass, Fields
    <2>6. UpToDate
      BY <2>3, <2>4, <2>5 DEF DateInv, Behind
    <2>7. reading = [k \in DOMAIN reading |-> reading[k]] /\ now = [k \in Fields |-> now[k]]
      BY <2>3, <2>4 DEF TypeInv, Times
    <2> QED
      BY <2>5, <2>6, <2>7 DEF UpToDate
  <1>2. ClockInv /\ [Next]_vars => [call = "rtc" /\ call' = "done" => reading = now]_vars
    BY <1>1
  <1> QED
    BY <1>2, InvariantHolds, PTL DEF Spec, DateIsShown

\* estimate_freq divides by the number of seconds that really passed.
THEOREM FrequencyIsExact == Spec => EstimateIsExact
  <1>1. ASSUME ClockInv, [Next]_vars, call = "wait2", call' = "rtc"
        PROVE  /\ Seconds > t1
               /\ gap >= 2 * Pass /\ elapsed < MaxElapsed => Seconds - t1 = elapsed
    <2>1. SecondWait /\ WaitEnds("wait2") /\ Waiting
      BY <1>1 DEF Next, Step, Tick, ReadField, WaitT0, WaitAgain, FirstWait, SecondWait,
                  ReadSecondAgain, WaitEnds, vars
    <2>2. ~(t1 >= Seconds) /\ TypeInv /\ Complete
      BY <1>1, <2>1 DEF SecondWait, ClockInv, Waiting
    <2>3. Seconds \in 0..Hour - 1 /\ t1 \in 0..Hour - 1 /\ Hour \in Nat
      BY <2>2, SecondsType, RadixFacts DEF TypeInv, TypeOK, Hour
    <2>4. Seconds > t1
      BY <2>2, <2>3
    <2>5. ASSUME gap >= 2 * Pass, elapsed < MaxElapsed
          PROVE  Seconds - t1 = elapsed
      <3>1. WaitInv /\ CountInv
        BY <1>1, <2>5 DEF ClockInv
      <3>2. Seconds = HourTime
        BY <2>1, <2>2, <3>1, WaitIsExact DEF WaitEnds
      <3>3. Seconds \in {t1 + elapsed, t1 + elapsed - Hour}
        BY <1>1, <2>5, <3>1, <3>2 DEF CountInv
      <3>4. elapsed \in Nat /\ elapsed < Hour
        BY <2>2, <2>3, <2>5, RadixFacts DEF TypeInv, TypeOK
      <3> QED
        BY <2>3, <2>4, <3>3, <3>4
    <2> QED
      BY <2>4, <2>5
  <1>2. ClockInv /\ [Next]_vars =>
          [call = "wait2" /\ call' = "rtc"
           => /\ Seconds > t1
              /\ gap >= 2 * Pass /\ elapsed < MaxElapsed => Seconds - t1 = elapsed]_vars
    BY <1>1
  <1> QED
    BY <1>2, InvariantHolds, PTL DEF Spec, EstimateIsExact
=============================================================================
