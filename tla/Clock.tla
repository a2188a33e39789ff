-------------------------------- MODULE Clock --------------------------------
(***************************************************************************)
(* timer_init (lab3: ioe.c): the frequency of the time-stamp counter is    *)
(* estimated between two changes of the second of the real-time clock,     *)
(* then the date is read.  The clock is read register by register while it *)
(* goes on ticking.                                                        *)
(*                                                                         *)
(* A clock is a sequence of fields, the second first; two ticks are at     *)
(* least `gap' register reads apart.  The time-stamp counter is measured   *)
(* in ticks.                                                               *)
(***************************************************************************)
EXTENDS Integers, Sequences

CONSTANTS
    Radix,       \* how many values each field of the clock has
    Gaps,        \* the speeds of the clock
    MaxElapsed   \* bound: this many ticks and more are not told apart

ASSUME ClockAssumption ==
    /\ Radix \in Seq(Nat \ {0}) /\ Len(Radix) >= 2
    /\ Radix[1] > Len(Radix)    \* sixty seconds, six fields
    /\ Gaps \subseteq Nat \ {0}
    /\ MaxElapsed \in 0..Radix[1] * Radix[2]    \* an hour

VARIABLES
    now,         \* the time on the clock
    gap,
    since,       \* register reads since the last tick, up to gap
    call,        \* what timer_init is in: a wait_sec or timer_rtc
    reading,     \* the fields read_rtc_async has read so far
    before,      \* the second of t0 in wait_sec, or Unread
    t1,          \* of estimate_freq, 0 outside
    elapsed      \* ticks since tsc1 was read, 0 outside

vars == <<now, gap, since, call, reading, before, t1, elapsed>>

Fields == 1..Len(Radix)
Values == UNION {0..Radix[k] - 1 : k \in Fields}
Times == {t \in [Fields -> Values] : \A k \in Fields : t[k] < Radix[k]}
Unread == -1

-----------------------------------------------------------------------------
(* The clock *)

\* The registers hold binary-coded decimals.
Bcd(n) == 16 * (n \div 10) + (n % 10)

Later(t) == [k \in Fields |->
    IF \A i \in 1..k - 1 : t[i] = Radix[i] - 1
    THEN (t[k] + 1) % Radix[k]
    ELSE t[k]]

Tick ==
    /\ call # "done"
    /\ since >= gap
    /\ now' = Later(now)
    /\ since' = 0
    /\ elapsed' = IF call = "wait2" /\ elapsed < MaxElapsed THEN elapsed + 1 ELSE elapsed
    /\ UNCHANGED <<gap, call, reading, before, t1>>

-----------------------------------------------------------------------------
(* Reading it *)

\* Mutant: the register is taken for a binary number.
MutantReadRtcBinary(k) == Bcd(now[k])

ReadRtc(k) == (Bcd(now[k]) % 16) + (Bcd(now[k]) \div 16) * 10

Elapses == since' = IF since < gap THEN since + 1 ELSE since

Complete == Len(reading) = Len(Radix)

\* One more register of read_rtc_async.
ReadField ==
    /\ call # "done"
    /\ ~Complete
    /\ reading' = Append(reading, ReadRtc(Len(reading) + 1))
    /\ Elapses
    /\ UNCHANGED <<now, gap, call, before, t1, elapsed>>

-----------------------------------------------------------------------------
(* wait_sec and estimate_freq *)

Waiting == call \in {"wait1", "wait2"} /\ Complete

\* t0 has been read; the busy loop and the reading of t1 follow.
WaitT0 ==
    /\ Waiting
    /\ before = Unread
    /\ before' = reading[1]
    /\ reading' = << >>
    /\ UNCHANGED <<now, gap, since, call, t1, elapsed>>

WaitAgain ==
    /\ Waiting
    /\ before = reading[1]
    /\ before' = Unread
    /\ reading' = << >>
    /\ UNCHANGED <<now, gap, since, call, t1, elapsed>>

Seconds == reading[2] * Radix[1] + reading[1]

WaitEnds(c) ==
    /\ call = c
    /\ Waiting
    /\ before \notin {Unread, reading[1]}
    /\ before' = Unread
    /\ reading' = << >>

FirstWait ==
    /\ WaitEnds("wait1")
    /\ t1' = Seconds
    /\ call' = "wait2"
    /\ UNCHANGED <<now, gap, since, elapsed>>

\* Mutant: the hour is not tested.
MutantSecondWaitAnyHour ==
    /\ WaitEnds("wait2")
    /\ t1' = 0
    /\ elapsed' = 0
    /\ call' = "rtc"
    /\ UNCHANGED <<now, gap, since>>

\* t2 is the reading's Seconds.  When an hour has passed between the two the
\* estimate starts again.
SecondWait ==
    /\ WaitEnds("wait2")
    /\ t1' = 0
    /\ elapsed' = 0
    /\ call' = IF t1 >= Seconds THEN "wait1" ELSE "rtc"
    /\ UNCHANGED <<now, gap, since>>

-----------------------------------------------------------------------------
(* timer_rtc *)

\* Mutant: the second time the register is taken for a binary number.
MutantReadSecondAgainBinary ==
    /\ call = "rtc"
    /\ Complete
    /\ IF Bcd(now[1]) = reading[1]
       THEN call' = "done" /\ UNCHANGED reading
       ELSE reading' = << >> /\ UNCHANGED call
    /\ Elapses
    /\ UNCHANGED <<now, gap, before, t1, elapsed>>

\* Mutant: the first reading is taken.
MutantReadSecondAgainIgnored ==
    /\ call = "rtc"
    /\ Complete
    /\ call' = "done"
    /\ UNCHANGED <<now, gap, reading, before, t1, elapsed>>
    /\ Elapses

\* tmp = read_rtc(0)
ReadSecondAgain ==
    /\ call = "rtc"
    /\ Complete
    /\ IF ReadRtc(1) = reading[1]
       THEN call' = "done" /\ UNCHANGED reading
       ELSE reading' = << >> /\ UNCHANGED call
    /\ Elapses
    /\ UNCHANGED <<now, gap, before, t1, elapsed>>

-----------------------------------------------------------------------------

Init ==
    /\ now \in Times
    /\ gap \in Gaps
    /\ since = gap
    /\ call = "wait1"
    /\ reading = << >>
    /\ before = Unread
    /\ t1 = 0
    /\ elapsed = 0

Step == ReadField \/ WaitT0 \/ WaitAgain \/ FirstWait \/ SecondWait \/ ReadSecondAgain

Next == Tick \/ Step

\* timer_init runs on; nothing makes the clock tick.
Spec == Init /\ [][Next]_vars /\ WF_vars(Step)

-----------------------------------------------------------------------------
(* Properties *)

Pass == Len(Radix)    \* the register reads of one read_rtc_async

\* Every field that was read is a value its field can have.
TypeOK ==
    /\ now \in Times
    /\ gap \in Gaps /\ since \in 0..gap
    /\ call \in {"wait1", "wait2", "rtc", "done"}
    /\ Len(reading) <= Pass
    /\ \A k \in DOMAIN reading : reading[k] < Radix[k]
    /\ before \in {Unread} \cup 0..Radix[1] - 1
    /\ t1 \in 0..Radix[1] * Radix[2] - 1
    /\ elapsed \in 0..MaxElapsed

\* estimate_freq divides the counter by the number of seconds that really
\* passed, also around the change of the minute and of the hour, provided
\* that no two ticks fall into one pass of wait_sec's loop (two readings)
\* and that the second wait takes less than an hour: it misses the changes
\* of the second between two of its passes.
\* On a slower machine the minute may change between the reading of t2's
\* second and that of its minute and the frequency is too small, but the
\* divisor is positive all the same.
EstimateIsExact ==
    [][call = "wait2" /\ call' = "rtc"
       => /\ Seconds > t1
          /\ gap >= 2 * Pass /\ elapsed < MaxElapsed => Seconds - t1 = elapsed]_vars

\* timer_rtc returns the time the clock shows when it returns, never a
\* mixture of two, however the clock ticks while the fields are read: with
\* more seconds in a minute than fields (ClockAssumption) the second cannot
\* come round within one reading.
DateIsShown ==
    [][call = "rtc" /\ call' = "done" => reading = now]_vars

\* timer_rtc's loop ends, provided that no ticks fall into two successive
\* readings.
DateIsRead == (call = "rtc" /\ gap > 2 * (Pass + 1)) ~> call = "done"
=============================================================================
