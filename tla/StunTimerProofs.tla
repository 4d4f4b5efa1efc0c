-------------------------- MODULE StunTimerProofs --------------------------
(***************************************************************************)
(* Proofs about StunTimer for every set of timeouts, limits and clock      *)
(* steps: its types, the bound on transmissions, and that neither a        *)
(* retransmission nor the final timeout comes before its time.             *)
(***************************************************************************)
EXTENDS StunTimer, WellFoundedInduction, TLAPS

\* A struct timeval made from the clock denotes the clock value.
LEMMA TimevalUsec ==
    ASSUME NEW t \in Nat
    PROVE  /\ Timeval(t).sec \in Nat /\ Timeval(t).usec \in Nat
           /\ Timeval(t).usec <= 999999
           /\ Usec(Timeval(t)) = t
  BY SMT DEF Timeval, Usec, UsecPerSec

\* set_delay yields a timeval exactly `d` milliseconds after the clock.
LEMMA SetDelayExact ==
    ASSUME now \in Nat, NEW d \in Nat
    PROVE  /\ SetDelay(d) \in [sec : Nat, usec : Nat]
           /\ SetDelay(d).usec <= UsecPerSec
           /\ Usec(SetDelay(d)) = now + d * UsecPerMs
  <1> DEFINE ts == Timeval(now)
             q == d \div 1000
             m == d % 1000
             s == ts.sec + q
             u == ts.usec + m * 1000
  <1>1. ts.sec \in Nat /\ ts.usec \in Nat /\ ts.usec <= 999999 /\ ts.sec * 1000000 + ts.usec = now
    BY TimevalUsec, SMT DEF Usec, UsecPerSec
  <1>2. q \in Nat /\ m \in Nat /\ m <= 999 /\ d = 1000 * q + m
    BY SMT
  <1>4. SetDelay(d) = IF u > 1000000 THEN [sec |-> s + 1, usec |-> u - 1000000]
                                     ELSE [sec |-> s, usec |-> u]
    BY SMT DEF SetDelay, UsecPerSec, UsecPerMs
  <1> HIDE DEF ts, q, m
  <1>3. s \in Nat /\ u \in Nat /\ u <= 1998999 /\ s * 1000000 + u = now + d * 1000
    BY <1>1, <1>2, SMTT(30), Z3T(30)
  <1> HIDE DEF s, u
  <1> QED BY <1>3, <1>4, SMT DEF Usec, UsecPerSec, UsecPerMs

\* stun_timer_remainder answers 0 at most one millisecond before the deadline.
LEMMA RemainderZero ==
    ASSUME now \in Nat, NEW tv \in [sec : Nat, usec : Nat],
           tv.usec <= UsecPerSec,
           Remainder(tv) = 0
    PROVE  now >= Usec(tv) - (UsecPerMs - 1)
  <1> DEFINE n == Timeval(now)
             d == tv.usec - n.usec
             secs == tv.sec - n.sec
  <1>1. n.sec \in Nat /\ n.usec \in Nat /\ n.usec <= 999999 /\ n.sec * 1000000 + n.usec = now
    BY TimevalUsec, SMT DEF Usec, UsecPerSec
  <1>2. tv.sec \in Nat /\ tv.usec \in Nat /\ tv.usec <= 1000000
    BY SMT DEF UsecPerSec
  <1>3. CASE secs < 0 \/ (secs = 0 /\ n.usec >= tv.usec)
    BY <1>1, <1>2, <1>3, SMT DEF Usec, UsecPerSec, UsecPerMs
  <1>4. CASE ~(secs < 0 \/ (secs = 0 /\ n.usec >= tv.usec))
    <2>1. secs * 1000 + TruncDiv(d, 1000) = 0
      BY <1>4, SMT DEF Remainder, UsecPerMs
    <2>2. d \in Int /\ d > -1000000 /\ secs \in Nat
      BY <1>1, <1>2, <1>4, SMT
    <2>3. TruncDiv(d, 1000) > -1000 /\ TruncDiv(d, 1000) \in Int
      BY <2>2, SMT DEF TruncDiv
    <2>4. secs = 0
      BY <2>1, <2>2, <2>3, SMT
    <2>5. d < 1000
      BY <2>1, <2>2, <2>4, SMT DEF TruncDiv
    <2> QED BY <2>4, <2>5, <1>1, <1>2, SMT DEF Usec, UsecPerSec, UsecPerMs
  <1> QED BY <1>3, <1>4, SMT

\* Only max_retransmissions bounds the number of transmissions, and the two
\* pacing facts rest on how far the armed deadline lies after the start: the
\* truncation of each expired delay costs it less than a millisecond.
DeadlineInv ==
    phase # "idle" =>
        /\ retransmissions >= 1
        /\ armed >= delay
        /\ Usec(deadline) >= started + armed * UsecPerMs
                             - (retransmissions - 1) * (UsecPerMs - 1)

TimerInv ==
    /\ TypeOK
    /\ TransmissionsBounded
    /\ DeadlineInv
    /\ RetransmissionsPaced
    /\ NeverTimesOutEarly

\* A timer that has not been started satisfies the invariant.
LEMMA TimerInit == Init => TimerInv
  BY StunTimerConstants, SMT
  DEF Init, TimerInv, TypeOK, TransmissionsBounded, DeadlineInv,
      RetransmissionsPaced, NeverTimesOutEarly, UsecPerSec

\* Starting a timer, reliable or not, keeps the invariant.
LEMMA StartInv ==
    ASSUME TimerInv, NEW t \in Nat, NEW m \in Nat, Start(t, m)
    PROVE  TimerInv'
  <1>1. now \in Nat /\ now' = now
    BY SMT DEF TimerInv, TypeOK, Start
  <1>2. deadline' \in [sec : Nat, usec : Nat] /\ deadline'.usec <= UsecPerSec
        /\ Usec(deadline') = now + t * UsecPerMs
    BY <1>1, SetDelayExact, SMT DEF Start
  <1>3. TypeOK'
    BY <1>1, <1>2, SMT DEF TimerInv, TypeOK, Start
  <1>4. Usec(deadline)' = Usec(deadline')
    BY SMT DEF Usec
  <1> QED
    BY <1>1, <1>2, <1>3, <1>4, SMT
    DEF Start, TimerInv, TransmissionsBounded, DeadlineInv,
        RetransmissionsPaced, NeverTimesOutEarly, UsecPerMs

\* A refresh that asks for a retransmission keeps the invariant.
LEMMA RetransmitInv ==
    ASSUME TimerInv, Retransmit
    PROVE  TimerInv'
  <1>1. /\ now \in Nat /\ now' = now /\ started' = started /\ started \in Nat
        /\ delay \in Nat /\ armed \in Nat /\ retransmissions \in Nat
        /\ max_retransmissions \in Nat /\ max_retransmissions' = max_retransmissions
        /\ retransmissions' = retransmissions + 1
        /\ retransmissions < max_retransmissions
        /\ phase = "running" /\ phase' = "running"
    BY SMT DEF TimerInv, TypeOK, Retransmit
  <1>2. PICK d \in Nat : delay' = d
    BY <1>1, SMT DEF Retransmit
  <1>3. /\ deadline' \in [sec : Nat, usec : Nat] /\ deadline'.usec <= UsecPerSec
        /\ Usec(deadline)' = now + d * UsecPerMs
    <2>1. deadline' = SetDelay(d)
      BY <1>2 DEF Retransmit
    <2>2. Usec(deadline)' = Usec(deadline')
      BY DEF Usec
    <2> QED BY <2>1, <2>2, <1>1, SetDelayExact
  <1>4. now >= Usec(deadline) - (UsecPerMs - 1)
    BY <1>1, RemainderZero, SMT DEF TimerInv, TypeOK, Retransmit, Expired
  <1>5. armed' = armed + d
    BY <1>2, SMT DEF Retransmit
  <1>6. TypeOK'
    BY <1>1, <1>2, <1>3, <1>5, SMT DEF TimerInv, TypeOK, Retransmit
  <1>7. Usec(deadline) \in Int
    BY SMT DEF TimerInv, TypeOK, Usec, UsecPerSec
  <1>8. now >= started + armed * 1000 - retransmissions * 999
    BY <1>1, <1>4, <1>7, SMT DEF TimerInv, DeadlineInv, UsecPerMs
  <1>9. TransmissionsBounded'
    BY <1>1, SMT DEF TransmissionsBounded
  <1>10. DeadlineInv'
    BY <1>1, <1>2, <1>3, <1>5, <1>8, SMT DEF DeadlineInv, UsecPerMs
  <1>11. RetransmissionsPaced' /\ NeverTimesOutEarly'
    BY <1>1, <1>2, <1>5, <1>8, SMT
    DEF RetransmissionsPaced, NeverTimesOutEarly, UsecPerMs
  <1> QED BY <1>6, <1>9, <1>10, <1>11, SMT DEF TimerInv

\* A refresh that gives up keeps the invariant.
LEMMA TimeoutInv ==
    ASSUME TimerInv, Timeout
    PROVE  TimerInv'
  <1>1. now \in Nat /\ deadline \in [sec : Nat, usec : Nat] /\ deadline.usec <= UsecPerSec
    BY SMT DEF TimerInv, TypeOK
  <1>2. now >= Usec(deadline) - (UsecPerMs - 1)
    BY <1>1, RemainderZero, SMT DEF Timeout, Expired
  <1>3. Usec(deadline) \in Int
    BY <1>1, SMT DEF Usec, UsecPerSec
  <1>4. Usec(deadline)' = Usec(deadline)
    BY SMT DEF Usec, Timeout, timer
  <1>5. TypeOK'
    BY SMT DEF TimerInv, TypeOK, Timeout, timer
  <1> QED
    BY <1>1, <1>2, <1>3, <1>4, <1>5, SMT
    DEF Timeout, timer, TimerInv, TypeOK, TransmissionsBounded, DeadlineInv,
        RetransmissionsPaced, NeverTimesOutEarly, UsecPerMs

\* The passing of time keeps the invariant.
LEMMA TickInv ==
    ASSUME TimerInv, Tick
    PROVE  TimerInv'
  <1>1. PICK step \in TickSteps : now' = now + step
    BY SMT DEF Tick
  <1>2. now \in Nat /\ now' \in Nat /\ now' >= now
    BY <1>1, StunTimerConstants, SMT DEF TimerInv, TypeOK
  <1>3. Usec(deadline)' = Usec(deadline)
    BY SMT DEF Usec, Tick, timer
  <1>4. TypeOK'
    BY <1>2, SMT DEF TimerInv, TypeOK, Tick, timer
  <1> QED
    BY <1>2, <1>3, <1>4, SMT
    DEF Tick, timer, TimerInv, TypeOK, TransmissionsBounded, DeadlineInv,
        RetransmissionsPaced, NeverTimesOutEarly, UsecPerMs

\* TimerInv is an inductive invariant of the timer.
THEOREM TimerInvariant == Spec => []TimerInv
  <1>1. Init => TimerInv
    BY TimerInit
  <1>2. TimerInv /\ [Next]_vars => TimerInv'
    <2> SUFFICES ASSUME TimerInv, [Next]_vars
                 PROVE  TimerInv'
      OBVIOUS
    <2>1. CASE \E t \in InitialTimeouts, m \in MaxRetransmissions : Start(t, m)
      BY <2>1, StartInv, StunTimerConstants
    <2>2. CASE \E t \in InitialTimeouts : StartReliable(t)
      BY <2>2, StartInv, StunTimerConstants DEF StartReliable
    <2>3. CASE Refresh
      BY <2>3, RetransmitInv, TimeoutInv DEF Refresh
    <2>4. CASE Tick
      BY <2>4, TickInv
    <2>5. CASE UNCHANGED vars
      BY <2>5 DEF vars, timer, TimerInv, TypeOK, TransmissionsBounded,
         DeadlineInv, RetransmissionsPaced, NeverTimesOutEarly, Usec
    <2> QED BY <2>1, <2>2, <2>3, <2>4, <2>5 DEF Next
  <1> QED BY <1>1, <1>2, PTL DEF Spec

\* Every value of the timer stays in its type, for all timeouts and limits.
THEOREM TypeCorrect == Spec => []TypeOK
  <1>1. TimerInv => TypeOK
    BY DEF TimerInv
  <1> QED BY <1>1, TimerInvariant, PTL

\* stun_timer_refresh never asks for more transmissions than its limit.
THEOREM TransmissionBound == Spec => []TransmissionsBounded
  <1>1. TimerInv => TransmissionsBounded
    BY DEF TimerInv
  <1> QED BY <1>1, TimerInvariant, PTL

\* A transaction is never given up on before all its delays have passed.
THEOREM NoEarlyTimeout == Spec => []NeverTimesOutEarly
  <1>1. TimerInv => NeverTimesOutEarly
    BY DEF TimerInv
  <1> QED BY <1>1, TimerInvariant, PTL

\* A request is never retransmitted before the preceding delays have passed.
THEOREM RetransmissionPacing == Spec => []RetransmissionsPaced
  <1>1. TimerInv => RetransmissionsPaced
    BY DEF TimerInv
  <1> QED BY <1>1, TimerInvariant, PTL

-----------------------------------------------------------------------------
(* The schedule of the waits.                                              *)

\* A set of naturals has a least element.
LEMMA Least ==
    ASSUME NEW T \in SUBSET Nat, T # {}
    PROVE  \E n \in T : \A k \in T : n <= k
  <1>1. PICK n \in T : \A k \in T : ~(<<k, n>> \in OpToRel(<, Nat))
    BY NatLessThanWellFounded, WFMin
  <1>2. \A k \in T : ~(k < n)
    BY <1>1, Zenon DEF OpToRel
  <1> QED BY <1>2, SMT

\* The powers of two up to 2^n, as a function.
Doubling(n) == {g \in [0..n -> Nat] : g[0] = 1 /\ \A i \in 1..n : g[i] = 2 * g[i - 1]}

\* There is one for every n ...
LEMMA DoublingExists ==
    ASSUME NEW n \in Nat
    PROVE  \E g : g \in Doubling(n)
  <1> DEFINE T == {k \in Nat : ~ \E g : g \in Doubling(k)}
  <1> SUFFICES ASSUME T # {} PROVE FALSE
    OBVIOUS
  <1>1. PICK k \in T : \A j \in T : k <= j
    BY Least
  <1>2. CASE k = 0
    <2> DEFINE g == [i \in 0..0 |-> 1]
    <2>1. g \in Doubling(0)
      BY DEF Doubling
    <2> QED BY <1>2, <2>1
  <1>3. CASE k # 0
    <2>1. k \in Nat /\ k - 1 \in Nat /\ ~(k <= k - 1)
      BY <1>3
    <2>2. PICK h : h \in Doubling(k - 1)
      BY <1>1, <2>1
    <2>3. h \in [0..(k - 1) -> Nat] /\ h[0] = 1 /\ \A i \in 1..(k - 1) : h[i] = 2 * h[i - 1]
      BY <2>2 DEF Doubling
    <2> DEFINE g == [i \in 0..k |-> IF i = k THEN 2 * h[k - 1] ELSE h[i]]
    <2>4. g \in [0..k -> Nat]
      BY <2>1, <2>3
    <2>5. g[0] = 1
      BY <1>3, <2>1, <2>3
    <2>6. \A i \in 1..k : g[i] = 2 * g[i - 1]
      BY <2>1, <2>3, SMTT(30), Z3T(30)
    <2>7. g \in Doubling(k)
      BY <2>4, <2>5, <2>6 DEF Doubling
    <2> QED BY <2>7
  <1> QED BY <1>2, <1>3

\* ... and they agree.
LEMMA DoublingAgrees ==
    ASSUME NEW n \in Nat, NEW m \in Nat, NEW g \in Doubling(n), NEW h \in Doubling(m),
           NEW i \in 0..n, i \in 0..m
    PROVE  g[i] = h[i]
  <1> DEFINE T == {k \in 0..n : k \in 0..m /\ g[k] # h[k]}
  <1> SUFFICES ASSUME T # {} PROVE FALSE
    OBVIOUS
  <1>1. PICK k \in T : \A j \in T : k <= j
    <2>1. T \in SUBSET Nat
      OBVIOUS
    <2> QED BY <2>1, Least
  <1>2. k # 0
    BY <1>1 DEF Doubling
  <1>3. k - 1 \notin T
    BY <1>1
  <1>4. g[k - 1] = h[k - 1]
    BY <1>1, <1>2, <1>3
  <1>5. g[k] = 2 * g[k - 1] /\ h[k] = 2 * h[k - 1]
    BY <1>1, <1>2 DEF Doubling
  <1> QED BY <1>1, <1>4, <1>5

\* Hence Pow2 doubles.
LEMMA Pow2Doubles ==
    /\ Pow2 \in [Nat -> Nat]
    /\ Pow2[0] = 1
    /\ \A n \in Nat : Pow2[n + 1] = 2 * Pow2[n]
  <1> DEFINE f == [n \in Nat |-> (CHOOSE g : g \in Doubling(n))[n]]
             d(n) == CHOOSE g : g \in Doubling(n)
  <1>1. ASSUME NEW n \in Nat PROVE d(n) \in Doubling(n) /\ f[n] = d(n)[n]
    BY DoublingExists
  <1>2. \A n \in Nat : f[n] \in Nat
    BY <1>1 DEF Doubling
  <1>3. f[0] = 1
    BY <1>1 DEF Doubling
  <1>4. ASSUME NEW n \in Nat, n # 0 PROVE f[n] = 2 * f[n - 1]
    <2>1. n - 1 \in Nat /\ n \in 1..n /\ n - 1 \in 0..n /\ n - 1 \in 0..(n - 1)
      BY <1>4
    <2>2. d(n) \in Doubling(n) /\ d(n - 1) \in Doubling(n - 1)
      BY <1>1, <2>1
    <2>3. d(n)[n - 1] = d(n - 1)[n - 1]
      BY <2>1, <2>2, DoublingAgrees
    <2>4. d(n)[n] = 2 * d(n)[n - 1]
      BY <2>1, <2>2 DEF Doubling
    <2> QED BY <1>1, <2>1, <2>3, <2>4
  <1> HIDE DEF f
  <1>5. f = [n \in Nat |-> IF n = 0 THEN 1 ELSE 2 * f[n - 1]]
    <2>1. f = [n \in Nat |-> f[n]]
      BY DEF f
    <2>2. \A n \in Nat : f[n] = IF n = 0 THEN 1 ELSE 2 * f[n - 1]
      BY <1>3, <1>4
    <2> QED BY <2>1, <2>2, Zenon
  <1>6. Pow2 = [n \in Nat |-> IF n = 0 THEN 1 ELSE 2 * Pow2[n - 1]]
    BY <1>5 DEF Pow2
  <1> DEFINE T == {n \in Nat : Pow2[n] \notin Nat}
  <1>7. Pow2[0] = 1 /\ \A n \in Nat : Pow2[n + 1] = 2 * Pow2[n]
    BY <1>6
  <1>8. ASSUME T # {} PROVE FALSE
    <2>1. PICK k \in T : \A j \in T : k <= j
      BY <1>8, Least
    <2>2. k # 0 /\ k - 1 \in Nat /\ k - 1 \notin T /\ (k - 1) + 1 = k
      BY <1>7, <2>1
    <2>3. Pow2[k] = 2 * Pow2[k - 1]
      BY <1>7, <2>2
    <2> QED BY <2>1, <2>2, <2>3
  <1>9. \A n \in Nat : Pow2[n] \in Nat
    BY <1>8
  <1>10. Pow2 = [n \in Nat |-> Pow2[n]]
    BY <1>6
  <1>11. Pow2 \in [Nat -> Nat]
    BY <1>9, <1>10
  <1> QED BY <1>7, <1>11

\* A power of two is at least one.
LEMMA Pow2Positive ==
    ASSUME NEW n \in Nat
    PROVE  Pow2[n] \in Nat /\ Pow2[n] >= 1
  <1> DEFINE T == {k \in Nat : ~(Pow2[k] >= 1)}
  <1>1. ASSUME T # {} PROVE FALSE
    <2>1. PICK k \in T : \A j \in T : k <= j
      BY <1>1, Least
    <2>2. k # 0
      BY <2>1, Pow2Doubles
    <2>3. k - 1 \in Nat /\ k - 1 \notin T /\ (k - 1) + 1 = k
      BY <2>1, <2>2
    <2>4. Pow2[k] = 2 * Pow2[k - 1] /\ Pow2[k - 1] \in Nat
      BY <2>3, Pow2Doubles
    <2> QED BY <2>1, <2>3, <2>4
  <1> QED BY <1>1, Pow2Doubles

\* The two totals of timer.h differ unless there is nothing to double.
LEMMA TotalsCompared ==
    ASSUME initial \in Nat, max_retransmissions \in Nat
    PROVE  /\ TotalTimeout <= DoublingTotal
           /\ TotalTimeout = DoublingTotal <=> initial = 0 \/ max_retransmissions = 0
  <1> DEFINE max == max_retransmissions
  <1>1. CASE max = 0
    <2>1. Pow2[0 + 1] = 2 * Pow2[0] /\ Pow2[0] = 1
      BY Pow2Doubles
    <2>2. Pow2[max + 1] = 2
      BY <1>1, <2>1
    <2> QED BY <1>1, <2>2 DEF TotalTimeout, DoublingTotal
  <1>2. CASE max = 1
    <2>1. Pow2[0 + 1] = 2 * Pow2[0] /\ Pow2[0] = 1 /\ Pow2[1 + 1] = 2 * Pow2[1]
      BY Pow2Doubles
    <2>2. Pow2[max + 1] = 4
      BY <1>2, <2>1
    <2> QED BY <1>2, <2>2 DEF TotalTimeout, DoublingTotal
  <1>3. CASE max >= 2
    <2> DEFINE n == max - 2
               q == Pow2[n]
               x == initial * q
    <2>1. n \in Nat /\ n + 1 \in Nat /\ n + 2 \in Nat
          /\ n + 1 = max - 1 /\ (n + 1) + 1 = max /\ ((n + 1) + 1) + 1 = max + 1
      BY <1>3
    <2>2. q \in Nat /\ q >= 1
      BY <2>1, Pow2Positive
    <2>3. Pow2[max - 1] = 2 * q
      BY <2>1, Pow2Doubles
    <2>4. Pow2[max] = 2 * Pow2[max - 1] /\ Pow2[max + 1] = 2 * Pow2[max]
      <3>1. Pow2[(n + 1) + 1] = 2 * Pow2[n + 1]
        BY <2>1, Pow2Doubles
      <3>2. Pow2[((n + 1) + 1) + 1] = 2 * Pow2[(n + 1) + 1]
        BY <2>1, Pow2Doubles
      <3> QED BY <2>1, <3>1, <3>2
    <2>5. Pow2[max + 1] = 8 * q
      BY <2>2, <2>3, <2>4
    <2>6. TotalTimeout = initial * (2 * q - 1) + x \div 2 /\ DoublingTotal = initial * (8 * q - 1)
      BY <1>3, <2>3, <2>5 DEF TotalTimeout, DoublingTotal
    <2> HIDE DEF q
    <2>7. x \in Nat /\ initial * (2 * q - 1) = 2 * x - initial /\ initial * (8 * q - 1) = 8 * x - initial
      BY <2>2
    <2>8. x = 0 <=> initial = 0
      BY <2>2
    <2> HIDE DEF x
    <2>9. x \div 2 \in Nat /\ x \div 2 <= x
      BY <2>7
    <2> QED BY <1>3, <2>6, <2>7, <2>8, <2>9
  <1> QED BY <1>1, <1>2, <1>3

\* What has been waited for, and the wait that is on.
ScheduleInv ==
    phase # "idle" =>
        /\ phase = "timedout" => retransmissions >= max_retransmissions
        /\ IF max_retransmissions < 2 THEN armed = initial
           ELSE IF retransmissions < max_retransmissions
           THEN /\ delay = initial * Pow2[retransmissions - 1]
                /\ armed = initial * (Pow2[retransmissions] - 1)
           ELSE armed = TotalTimeout

\* stun_timer_refresh goes on with the schedule.
LEMMA RetransmitSchedule ==
    ASSUME TimerInv, ScheduleInv, Retransmit
    PROVE  ScheduleInv'
  <1> DEFINE n == retransmissions
             max == max_retransmissions
             p == Pow2[n - 1]
  <1>1. /\ n \in Nat /\ n >= 1 /\ n < max /\ max \in Nat /\ initial \in Nat
        /\ phase = "running" /\ phase' = "running" /\ n' = n + 1 /\ max' = max
        /\ initial' = initial
    BY DEF TimerInv, TypeOK, DeadlineInv, Retransmit
  <1>2. delay = initial * p /\ armed = initial * (Pow2[n] - 1) /\ max >= 2
    BY <1>1 DEF ScheduleInv
  <1>3. n - 1 \in Nat /\ (n - 1) + 1 = n
    BY <1>1
  <1>4. p \in Nat /\ Pow2[n] = 2 * p /\ Pow2[n + 1] = 2 * Pow2[n]
    BY <1>1, <1>3, Pow2Doubles
  <1>5. CASE n = max - 1
    <2>1. delay' = delay \div 2 /\ armed' = armed + delay'
      BY <1>5 DEF Retransmit
    <2>2. TotalTimeout' = initial * (Pow2[n] - 1) + (initial * p) \div 2
      <3>1. max - 1 = n /\ max - 2 = n - 1 /\ ~(max < 2)
        BY <1>1, <1>2, <1>5
      <3> QED BY <1>1, <3>1 DEF TotalTimeout
    <2>3. armed' = TotalTimeout'
      BY <1>2, <2>1, <2>2
    <2> QED BY <1>1, <1>2, <1>5, <2>3 DEF ScheduleInv
  <1>6. CASE n # max - 1
    <2>1. delay' = delay * 2 /\ armed' = armed + delay'
      BY <1>6 DEF Retransmit
    <2> HIDE DEF p
    <2>2. delay' = initial * Pow2[n]
      BY <1>1, <1>2, <1>4, <2>1
    <2>3. armed' = initial * (2 * Pow2[n] - 1)
      <3> DEFINE q == Pow2[n]
      <3>1. q \in Nat /\ armed' = initial * (q - 1) + initial * q
        BY <1>2, <1>4, <2>1, <2>2
      <3> HIDE DEF q
      <3>2. armed' = initial * (2 * q - 1)
        BY <1>1, <3>1
      <3> QED BY <3>2 DEF q
    <2>4. Pow2[n'] = 2 * Pow2[n] /\ n' - 1 = n
      BY <1>1, <1>4
    <2> QED BY <1>1, <1>2, <1>6, <2>2, <2>3, <2>4 DEF ScheduleInv
  <1> QED BY <1>5, <1>6

\* The schedule is kept in every state.
THEOREM ScheduleInvariant == Spec => []ScheduleInv
  <1>1. Init => ScheduleInv
    BY DEF Init, ScheduleInv
  <1>2. TimerInv /\ ScheduleInv /\ [Next]_vars => ScheduleInv'
    <2> SUFFICES ASSUME TimerInv, ScheduleInv, [Next]_vars PROVE ScheduleInv'
      OBVIOUS
    <2>1. ASSUME NEW t \in Nat, NEW m \in Nat, Start(t, m) PROVE ScheduleInv'
      <3>1. /\ phase' = "running" /\ retransmissions' = 1 /\ delay' = t
            /\ max_retransmissions' = m /\ initial' = t /\ armed' = t
        BY <2>1 DEF Start
      <3>2. Pow2[0] = 1 /\ Pow2[1] = 2
        <4>1. Pow2[0 + 1] = 2 * Pow2[0] /\ Pow2[0] = 1
          BY Pow2Doubles
        <4> QED BY <4>1
      <3> QED BY <3>1, <3>2 DEF ScheduleInv
    <2>2. CASE \E t \in InitialTimeouts, m \in MaxRetransmissions : Start(t, m)
      BY <2>1, <2>2, StunTimerConstants
    <2>3. CASE \E t \in InitialTimeouts : StartReliable(t)
      BY <2>1, <2>3, StunTimerConstants DEF StartReliable
    <2>4. CASE Retransmit
      BY <2>4, RetransmitSchedule
    <2>5. CASE Timeout
      BY <2>5 DEF Timeout, timer, ScheduleInv, TotalTimeout
    <2>6. CASE Tick
      BY <2>6 DEF Tick, timer, ScheduleInv, TotalTimeout
    <2>7. CASE UNCHANGED vars
      BY <2>7 DEF vars, timer, ScheduleInv, TotalTimeout
    <2> QED BY <2>2, <2>3, <2>4, <2>5, <2>6, <2>7 DEF Next, Refresh
  <1> QED BY <1>1, <1>2, TimerInvariant, PTL DEF Spec

\* stun_timer_remainder is the time to the deadline, to the millisecond.
LEMMA RemainderRounds ==
    ASSUME now \in Nat, NEW tv \in [sec : Nat, usec : Nat], tv.usec <= UsecPerSec
    PROVE  LET left == Usec(tv) - now
               r == Remainder(tv) * UsecPerMs
           IN  IF left <= 0 THEN r = 0
               ELSE r > left - UsecPerMs /\ r < left + UsecPerMs
  <1> DEFINE n == Timeval(now)
             d == tv.usec - n.usec
             secs == tv.sec - n.sec
             left == Usec(tv) - now
             r == Remainder(tv)
  <1> SUFFICES IF left <= 0 THEN r * 1000 = 0
               ELSE r * 1000 > left - 1000 /\ r * 1000 < left + 1000
    BY DEF UsecPerMs
  <1>1. n.sec \in Nat /\ n.usec \in Nat /\ n.usec <= 999999 /\ n.sec * 1000000 + n.usec = now
    BY TimevalUsec, SMT DEF Usec, UsecPerSec
  <1>2. tv.sec \in Nat /\ tv.usec \in Nat /\ tv.usec <= 1000000
    BY SMT DEF UsecPerSec
  <1>3. /\ secs \in Int /\ d \in Int /\ left = secs * 1000000 + d
        /\ d > -1000000 /\ d <= 1000000
    BY <1>1, <1>2, SMT DEF Usec, UsecPerSec
  <1>4. r = IF secs < 0 \/ (secs = 0 /\ d <= 0) THEN 0 ELSE secs * 1000 + TruncDiv(d, 1000)
    <2>1. n.usec >= tv.usec <=> d <= 0
      BY <1>1, <1>2, SMT
    <2> QED BY <2>1 DEF Remainder, UsecPerMs
  <1>5. TruncDiv(d, 1000) \in Int /\ TruncDiv(d, 1000) * 1000 > d - 1000
        /\ TruncDiv(d, 1000) * 1000 < d + 1000
        /\ (d >= 0 => TruncDiv(d, 1000) * 1000 <= d)
    BY <1>3, SMT DEF TruncDiv
  <1> DEFINE q == TruncDiv(d, 1000)
  <1> HIDE DEF n, d, secs, left, r, q
  <1>6. CASE secs < 0 \/ (secs = 0 /\ d <= 0)
    <2>1. r = 0 /\ left <= 0
      BY <1>3, <1>4, <1>6
    <2> QED BY <2>1
  <1>7. CASE ~(secs < 0 \/ (secs = 0 /\ d <= 0))
    <2>1. r = secs * 1000 + q
      BY <1>4, <1>7 DEF q
    <2>2. q \in Int /\ q * 1000 > d - 1000 /\ q * 1000 < d + 1000
      BY <1>5 DEF q
    <2>3. r * 1000 > left - 1000 /\ r * 1000 < left + 1000 /\ left > 0
      BY <1>3, <1>7, <2>1, <2>2
    <2> QED BY <1>3, <2>3
  <1> QED BY <1>6, <1>7

\* The waits of a transaction that is given up on add up to the schedule of
\* STUN_TIMER_DEFAULT_TIMEOUT, whatever its first wait and its limit, and to the
\* total of stun_timer_start only if nothing doubles; and stun_timer_remainder
\* tells the caller how long to sleep to the millisecond.
THEOREM ScheduleFollowed == Spec => []WaitsFollowSchedule
  <1>1. TimerInv /\ ScheduleInv => WaitsFollowSchedule
    <2> SUFFICES ASSUME TimerInv, ScheduleInv PROVE WaitsFollowSchedule
      OBVIOUS
    <2>1. /\ now \in Nat /\ deadline \in [sec : Nat, usec : Nat] /\ deadline.usec <= UsecPerSec
          /\ retransmissions \in Nat /\ max_retransmissions \in Nat /\ initial \in Nat
      BY DEF TimerInv, TypeOK
    <2>2. phase = "timedout" => armed = TotalTimeout
      BY <2>1 DEF ScheduleInv, TotalTimeout
    <2> QED BY <2>1, <2>2, RemainderRounds, TotalsCompared DEF WaitsFollowSchedule
  <1> QED BY <1>1, TimerInvariant, ScheduleInvariant, PTL
=============================================================================
