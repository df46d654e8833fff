--------------------------- MODULE CronTimeProofs ---------------------------
(***************************************************************************)
(* The deferred reboot comes in time, for every duration and every minute  *)
(* of the day.                                                             *)
(***************************************************************************)
EXTENDS CronTime, TLAPS

Computing == {"borrow", "carry", "add", "halted", "fired"}

\* The clock is where the minutes waited have brought it, and what the loops have
\* not yet carried is still in the entry: each up to whole days.
ClockInv == pc \in Computing => now + Day * turns = start + waited
EntryInv == pc \in Computing => Target + Day * wraps = start + Due

\* The minute is never negative, and the second loop ends within the hour.
MinuteInv ==
    /\ pc \in {"borrow", "carry"} => mn >= 0
    /\ pc \in {"add", "halted", "fired"} => mn \in 0 .. Hour - 1

CronInv == TypeOK /\ ClockInv /\ EntryInv /\ MinuteInv /\ InTime

USE DEF Hour, Day

LEMMA InitCron == Init => CronInv
<1> SUFFICES ASSUME Init PROVE CronInv
  OBVIOUS
<1>1. TypeOK
  <2>1. stop_duration = 30 /\ now \in 0 .. Day - 1 /\ start = now
    BY DEF Init, DefaultDuration
  <2>2. /\ now \in 0 .. Day - 1 /\ stop_duration \in 1 .. Day - 1 /\ hr \in 0 .. 23
        /\ mn \in Int /\ start \in 0 .. Day - 1 /\ waited \in Nat
        /\ turns \in Int /\ wraps \in Int
    BY <2>1 DEF Init
  <2>3. pc \in {"rfc", "clock", "borrow", "carry", "add", "halted", "fired"}
    BY DEF Init
  <2>4. late \in BOOLEAN
    BY DEF Init
  <2> QED
    BY <2>2, <2>3, <2>4 DEF TypeOK
<1>2. ClockInv /\ EntryInv /\ MinuteInv /\ InTime
  BY DEF Init, ClockInv, EntryInv, MinuteInv, InTime, Computing
<1> QED
  BY <1>1, <1>2 DEF CronInv

\* Hours and minutes of a minute of the day.
LEMMA HoursAndMinutes ==
    ASSUME NEW n \in Int, 0 <= n, n < 1440
    PROVE  /\ n \div 60 \in 0 .. 23
           /\ n % 60 \in 0 .. 59
           /\ 60 * (n \div 60) + (n % 60) = n
<1>1. n \div 60 \in 0 .. 23
  OBVIOUS
<1>2. n % 60 \in 0 .. 59
  OBVIOUS
<1>3. 60 * (n \div 60) + (n % 60) = n
  OBVIOUS
<1> QED
  BY <1>1, <1>2, <1>3

\* Two minutes of the day that are whole days apart are one.
LEMMA SameMinute ==
    ASSUME NEW m \in Int, NEW n \in Int, NEW j \in Int, NEW k \in Int,
           0 <= m, m < 1440, 0 <= n, n < 1440, m + 1440 * j = n + 1440 * k
    PROVE  m = n
OBVIOUS

\* Two minutes less than a day apart are not.
LEMMA OtherMinute ==
    ASSUME NEW m \in Int, NEW n \in Int, NEW j \in Int, NEW k \in Int, NEW d \in Int,
           0 < d, d < 1440, m + 1440 * j + d = n + 1440 * k
    PROVE  m # n
OBVIOUS

LEMMA DurationStep == CronInv /\ ReadDuration => CronInv'
<1> SUFFICES ASSUME CronInv, ReadDuration PROVE CronInv'
  OBVIOUS
<1>1. stop_duration' \in 1 .. Day - 1
  BY DEF ReadDuration, DefaultDuration
<1> QED
  BY <1>1 DEF ReadDuration, Goto, CronInv, TypeOK, ClockInv, EntryInv, MinuteInv, InTime,
              Computing, clock, entry

LEMMA ClockStep == CronInv /\ ReadClock => CronInv'
<1> SUFFICES ASSUME CronInv, ReadClock PROVE CronInv'
  OBVIOUS
<1>1. now \in 0 .. Day - 1 /\ stop_duration \in 1 .. Day - 1
  BY DEF CronInv, TypeOK
<1>2. /\ hr' \in 0 .. 23 /\ mn' \in Int /\ mn' >= 0
      /\ Hour * hr' + mn' = now + 1 + stop_duration
  <2>1. hr' = now \div 60 /\ mn' = (now % 60) + 1 + stop_duration
    BY DEF ReadClock
  <2>2. now \in Int /\ 0 <= now /\ now < 1440
    BY <1>1
  <2>3. now \div 60 \in 0 .. 23 /\ now % 60 \in 0 .. 59 /\ 60 * (now \div 60) + (now % 60) = now
    BY <2>2, HoursAndMinutes
  <2> QED
    BY <1>1, <2>1, <2>3
<1>3. TypeOK'
  BY <1>2 DEF ReadClock, Goto, CronInv, TypeOK
<1>4. EntryInv'
  BY <1>1, <1>2 DEF ReadClock, Goto, EntryInv, Target, Due
<1>5. ClockInv' /\ MinuteInv' /\ InTime'
  BY <1>1, <1>2 DEF ReadClock, Goto, ClockInv, MinuteInv, InTime
<1> QED
  BY <1>3, <1>4, <1>5 DEF CronInv

LEMMA BorrowStep == CronInv /\ Borrow => CronInv'
<1> SUFFICES ASSUME CronInv, Borrow PROVE CronInv'
  OBVIOUS
<1>1. pc' = "carry" /\ mn >= 0 /\ UNCHANGED entry
  BY DEF Borrow, CronInv, MinuteInv, TypeOK
<1> QED
  BY <1>1 DEF Borrow, CronInv, TypeOK, ClockInv, EntryInv, MinuteInv, InTime, Computing,
              Target, Due, clock, entry

LEMMA CarryStep == CronInv /\ Carry => CronInv'
<1> SUFFICES ASSUME CronInv, Carry PROVE CronInv'
  OBVIOUS
<1> USE DEF CronInv, TypeOK
<1>1. CASE mn >= Hour
  <2>1. /\ pc' = "carry" /\ pc = "carry" /\ mn' = mn - Hour
        /\ \/ hr' = hr + 1 /\ hr < 23 /\ wraps' = wraps
           \/ hr = 23 /\ hr' = 0 /\ wraps' = wraps + 1
    BY <1>1 DEF Carry
  <2>2. hr' \in 0 .. 23 /\ mn' \in Int /\ mn' >= 0 /\ wraps' \in Int
    BY <1>1, <2>1
  <2>3. Hour * hr' + mn' + Day * wraps' = Hour * hr + mn + Day * wraps
    BY <2>1
  <2>4. EntryInv'
    <3>1. Hour * hr + mn + Day * wraps = start + stop_duration + 1
      <4>1. Target + Day * wraps = start + Due
        BY <2>1 DEF EntryInv, Computing
      <4> QED
        BY <4>1 DEF Target, Due
    <3>2. UNCHANGED <<stop_duration, start>>
      BY DEF Carry
    <3>3. Hour * hr' + mn' + Day * wraps' = start' + stop_duration' + 1
      BY <2>3, <3>1, <3>2
    <3>4. start' \in Int /\ stop_duration' \in Int
      BY <3>2
    <3> QED
      BY <3>3, <3>4 DEF EntryInv, Target, Due
  <2>5. ClockInv' /\ MinuteInv' /\ InTime'
    BY <2>1, <2>2 DEF Carry, ClockInv, MinuteInv, InTime, Computing, clock
  <2>6. TypeOK'
    BY <2>1, <2>2 DEF Carry, clock
  <2> QED
    BY <2>4, <2>5, <2>6
<1>2. CASE ~(mn >= Hour)
  <2>1. pc' = "add" /\ pc = "carry" /\ UNCHANGED entry /\ mn \in 0 .. Hour - 1
    BY <1>2 DEF Carry, MinuteInv
  <2> QED
    BY <2>1 DEF Carry, ClockInv, EntryInv, MinuteInv, InTime, Computing, Target, Due,
                clock, entry
<1> QED
  BY <1>1, <1>2

LEMMA AddStep == CronInv /\ AddEntry => CronInv'
<1> SUFFICES ASSUME CronInv, AddEntry PROVE CronInv'
  OBVIOUS
<1> USE DEF AddEntry, Goto, CronInv, clock, entry
<1>0. late' \in BOOLEAN
  <2>1. late' = (waited >= Due)
    OBVIOUS
  <2> QED
    BY <2>1
<1>1. TypeOK'
  BY <1>0 DEF TypeOK
<1>2. ClockInv' /\ EntryInv' /\ MinuteInv'
  BY DEF ClockInv, EntryInv, MinuteInv, Computing, Target, Due
<1>3. InTime'
  <2>1. late' = (waited >= stop_duration + 1)
    BY DEF Due
  <2>2. pc' = "halted" /\ waited' = waited /\ stop_duration' = stop_duration
    OBVIOUS
  <2>3. ~late' => waited < stop_duration + 1
    <3>1. ~late' => ~(waited >= stop_duration + 1)
      BY <2>1, Zenon
    <3>2. waited \in Int /\ stop_duration \in Int
      BY DEF TypeOK
    <3> QED
      BY <3>1, <3>2
  <2> QED
    BY <2>2, <2>3 DEF InTime, Due
<1> QED
  BY <1>1, <1>2, <1>3

\* Until the entry's minute comes the two residues differ; then they are equal.
LEMMA TickStep == CronInv /\ Tick => CronInv'
<1> SUFFICES ASSUME CronInv, Tick PROVE CronInv'
  OBVIOUS
<1>1. TypeOK /\ ClockInv /\ EntryInv /\ MinuteInv /\ InTime
  BY DEF CronInv
<1>2. /\ now' \in 0 .. Day - 1 /\ turns' \in Int /\ waited' \in Nat
      /\ now' + Day * turns' = now + Day * turns + 1
      /\ waited' = waited + 1
  BY <1>1 DEF Tick, TypeOK
<1>3. /\ UNCHANGED <<stop_duration, hr, mn, wraps, start, late>>
      /\ pc # "fired"
      /\ pc' = IF pc = "halted" /\ now' = Target THEN "fired" ELSE pc
  BY DEF Tick, entry
<1>4. TypeOK'
  BY <1>1, <1>2, <1>3 DEF TypeOK
<1>5. EntryInv' /\ MinuteInv'
  BY <1>1, <1>3 DEF EntryInv, MinuteInv, Target, Due, Computing
<1>6. ClockInv'
  <2>1. pc' \in Computing => pc \in Computing
    BY <1>3 DEF Computing
  <2>2. pc \in Computing => now' + Day * turns' = start' + waited'
    <3> SUFFICES ASSUME pc \in Computing PROVE now' + Day * turns' = start' + waited'
      OBVIOUS
    <3>1. now + Day * turns = start + waited /\ start' = start
      BY <1>1, <1>3 DEF ClockInv
    <3>2. now' + Day * turns' = (start + waited) + 1
      BY <1>2, <3>1
    <3>3. start \in Int /\ waited \in Int
      BY <1>1 DEF TypeOK
    <3>4. (start + waited) + 1 = start + (waited + 1)
      BY <3>3
    <3> QED
      BY <1>2, <3>1, <3>2, <3>4
  <2> QED
    BY <2>1, <2>2 DEF ClockInv
<1>7. InTime'
  <2>1. CASE pc = "halted" /\ ~late
    <3> pc \in Computing /\ pc' \in Computing
      BY <1>3, <2>1 DEF Computing
    <3>1. /\ waited < Due /\ Target \in 0 .. Day - 1 /\ wraps \in Int
          /\ Due \in 2 .. Day /\ start \in 0 .. Day - 1
      BY <1>1, <2>1 DEF InTime, MinuteInv, TypeOK, Target, Due
    <3>2. now' + Day * turns' = start + waited'
      BY <1>3, <1>6 DEF ClockInv
    <3>3. Target + Day * wraps = start + Due
      BY <1>1 DEF EntryInv
    <3>4. CASE waited' = Due
      <4>1. now' + Day * turns' = Target + Day * wraps
        BY <3>2, <3>3, <3>4
      <4>2. now' = Target
        <5>1. /\ now' \in Int /\ Target \in Int /\ turns' \in Int /\ wraps \in Int
              /\ 0 <= now' /\ now' < 1440 /\ 0 <= Target /\ Target < 1440
          BY <1>2, <3>1
        <5>2. now' + 1440 * turns' = Target + 1440 * wraps
          BY <4>1
        <5> HIDE DEF Target
        <5>3. PICK m \in Int, n \in Int, j \in Int, k \in Int :
                  m = now' /\ n = Target /\ j = turns' /\ k = wraps
          BY <5>1
        <5>4. 0 <= m /\ m < 1440 /\ 0 <= n /\ n < 1440
          BY <5>1, <5>3
        <5>5. m + 1440 * j = n + 1440 * k
          <6>1. m + 1440 * j = now' + 1440 * turns'
            BY <5>3
          <6>2. n + 1440 * k = Target + 1440 * wraps
            BY <5>3
          <6> QED
            BY <5>2, <6>1, <6>2
        <5>6. m = n
          BY <5>4, <5>5, SameMinute
        <5> QED
          BY <5>3, <5>6
      <4> QED
        BY <1>3, <2>1, <3>4, <4>2 DEF InTime, Due
    <3>5. CASE waited' < Due
      <4>1. Due - waited' \in 1 .. Day - 1
        BY <1>1, <1>2, <3>1, <3>5 DEF Day, TypeOK
      <4>2. now' + Day * turns' + (Due - waited') = Target + Day * wraps
        BY <1>2, <3>1, <3>2, <3>3, <4>1 DEF Day
      <4>3. now' # Target
        <5> DEFINE d == Due - waited'
        <5>1. /\ now' \in Int /\ Target \in Int /\ turns' \in Int /\ wraps \in Int
              /\ d \in Int /\ 0 < d /\ d < 1440
          <6>1. now' \in Int /\ turns' \in Int
            BY <1>2
          <6>2. Target \in Int /\ wraps \in Int
            BY <3>1
          <6>3. d \in Int /\ 0 < d /\ d < 1440
            BY <4>1
          <6> QED
            BY <6>1, <6>2, <6>3
        <5>2. now' + 1440 * turns' + d = Target + 1440 * wraps
          BY <4>2
        <5> HIDE DEF Target, d
        <5>3. PICK m \in Int, n \in Int, j \in Int, k \in Int :
                  m = now' /\ n = Target /\ j = turns' /\ k = wraps
          BY <5>1
        <5>4. m + 1440 * j + d = n + 1440 * k
          BY <5>2, <5>3
        <5>5. m # n
          BY <5>1, <5>4, OtherMinute
        <5> QED
          BY <5>3, <5>5
      <4> QED
        BY <1>3, <2>1, <3>5, <4>3 DEF InTime, Due
    <3> QED
      BY <1>1, <1>2, <3>1, <3>4, <3>5 DEF TypeOK
  <2>2. CASE pc = "halted" /\ late
    BY <1>3, <2>2 DEF InTime
  <2>3. CASE pc # "halted"
    BY <1>1, <1>3, <2>3 DEF InTime
  <2> QED
    BY <2>1, <2>2, <2>3
<1> QED
  BY <1>4, <1>5, <1>6, <1>7 DEF CronInv

\* For every duration that the RFC can hold and whatever the time is, the
\* variables of handle_cyclic_reboot and compute_cron_time keep their types, the
\* hour and minute that they give to cron are a time of day, and the deferred
\* reboot comes when the accepted duration and the alignment minute are over,
\* unless cronjobs_update.sh was slower than that.
THEOREM RebootsInTime == Spec => [](TypeOK /\ InTime)
<1>1. CronInv /\ [Next]_vars => CronInv'
  <2> SUFFICES ASSUME CronInv, [Next]_vars PROVE CronInv'
    OBVIOUS
  <2>1. CASE UNCHANGED vars
    BY <2>1 DEF CronInv, TypeOK, ClockInv, EntryInv, MinuteInv, InTime, Computing, Target,
                Due, vars, clock, entry
  <2> QED
    BY <2>1, DurationStep, ClockStep, BorrowStep, CarryStep, AddStep, TickStep DEF Next
<1>2. CronInv => TypeOK /\ InTime
  BY DEF CronInv
<1> QED
  BY InitCron, <1>1, <1>2, PTL DEF Spec
=============================================================================
