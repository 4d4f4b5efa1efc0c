----------------------------- MODULE StunTimer -----------------------------
(***************************************************************************)
(* The retransmission timer of a STUN transaction                          *)
(* (libnice/stun/usages/timer.c).  Callers start it when they send a       *)
(* request and poll it with stun_timer_refresh; each poll answers          *)
(* SUCCESS (wait), RETRANSMIT (send again) or TIMEOUT (give up).           *)
(*                                                                         *)
(* Time is a number of microseconds; a struct timeval is the record of its *)
(* seconds and microseconds.  Delays are milliseconds, as in the code.     *)
(***************************************************************************)
EXTENDS Integers

CONSTANTS InitialTimeouts,     \* values of initial_timeout, in ms
          MaxRetransmissions,  \* values of max_retransmissions
          TickSteps,           \* by how much the clock may advance at once
          StartTimes           \* values of the clock at the start

ASSUME StunTimerConstants ==
    /\ InitialTimeouts \subseteq Nat
    /\ MaxRetransmissions \subseteq Nat
    /\ TickSteps \subseteq Nat
    /\ StartTimes \subseteq Nat

VARIABLES now,              \* the monotonic clock
          phase,            \* "idle", "running" or "timedout"
          deadline,         \* timer->deadline, a struct timeval
          delay,            \* timer->delay
          retransmissions,  \* timer->retransmissions
          max_retransmissions,
          started,          \* history: clock value when the timer started
          initial,          \* history: the initial_timeout given
          armed             \* history: sum of all delays armed so far

timer == <<deadline, delay, retransmissions, max_retransmissions>>
vars == <<now, phase, timer, started, initial, armed>>

UsecPerMs == 1000
UsecPerSec == 1000000

\* struct timeval of a clock value (stun_gettime) and back.
Timeval(t) == [sec |-> t \div UsecPerSec, usec |-> t % UsecPerSec]
Usec(tv) == tv.sec * UsecPerSec + tv.usec

\* C division rounds towards zero.
TruncDiv(a, b) == IF a >= 0 THEN a \div b ELSE -((-a) \div b)

\* set_delay: the deadline `d` milliseconds from now.  The carry loop runs at
\* most once, and leaves tv_usec = 1000000 alone.
SetDelay(d) ==
    LET ts == Timeval(now)
        sec == ts.sec + d \div 1000
        usec == ts.usec + (d % 1000) * UsecPerMs
    IN  IF usec > UsecPerSec THEN [sec |-> sec + 1, usec |-> usec - UsecPerSec]
                             ELSE [sec |-> sec, usec |-> usec]

\* stun_timer_remainder: milliseconds left, 0 once the timer has expired.
Remainder(tv) ==
    LET n == Timeval(now)
        secs == tv.sec - n.sec
    IN  IF secs < 0 \/ (secs = 0 /\ n.usec >= tv.usec) THEN 0
        ELSE secs * 1000 + TruncDiv(tv.usec - n.usec, UsecPerMs)

Expired == Remainder(deadline) = 0

Init ==
    /\ now \in StartTimes
    /\ phase = "idle"
    /\ deadline = [sec |-> 0, usec |-> 0]
    /\ delay = 0 /\ retransmissions = 0 /\ max_retransmissions = 0
    /\ started = 0 /\ initial = 0 /\ armed = 0

Start(timeout, max) ==
    /\ phase = "idle"
    /\ phase' = "running"
    /\ retransmissions' = 1
    /\ delay' = timeout
    /\ max_retransmissions' = max
    /\ deadline' = SetDelay(timeout)
    /\ started' = now /\ initial' = timeout /\ armed' = timeout
    /\ UNCHANGED now

StartReliable(timeout) == Start(timeout, 0)

\* Mutants of Retransmit: the deadline is not moved; the last delay doubles
\* like the others.
RetransmitSameDeadline ==
    /\ phase = "running" /\ Expired
    /\ retransmissions < max_retransmissions
    /\ delay' = IF retransmissions = max_retransmissions - 1
                THEN delay \div 2 ELSE delay * 2
    /\ retransmissions' = retransmissions + 1
    /\ armed' = armed + delay'
    /\ UNCHANGED <<now, phase, deadline, max_retransmissions, started, initial>>
RetransmitAlwaysDoubles ==
    /\ phase = "running" /\ Expired
    /\ retransmissions < max_retransmissions
    /\ delay' = delay * 2
    /\ deadline' = SetDelay(delay')
    /\ retransmissions' = retransmissions + 1
    /\ armed' = armed + delay'
    /\ UNCHANGED <<now, phase, max_retransmissions, started, initial>>

\* stun_timer_refresh on an expired timer that has retransmissions left.  The
\* last wait is half of the one before it, every other one the double.
Retransmit ==
    /\ phase = "running" /\ Expired
    /\ retransmissions < max_retransmissions
    /\ delay' = IF retransmissions = max_retransmissions - 1
                THEN delay \div 2 ELSE delay * 2
    /\ deadline' = SetDelay(delay')
    /\ retransmissions' = retransmissions + 1
    /\ armed' = armed + delay'
    /\ UNCHANGED <<now, phase, max_retransmissions, started, initial>>

\* Mutants of Timeout: it does not wait for the deadline; the poll answers
\* SUCCESS for ever.
TimeoutAtOnce ==
    /\ phase = "running"
    /\ retransmissions >= max_retransmissions
    /\ phase' = "timedout"
    /\ UNCHANGED <<now, timer, started, initial, armed>>
TimeoutNever ==
    /\ phase = "running" /\ Expired
    /\ retransmissions >= max_retransmissions
    /\ UNCHANGED vars

\* stun_timer_refresh on an expired timer with no retransmission left.
Timeout ==
    /\ phase = "running" /\ Expired
    /\ retransmissions >= max_retransmissions
    /\ phase' = "timedout"
    /\ UNCHANGED <<now, timer, started, initial, armed>>

\* stun_timer_refresh before the deadline answers SUCCESS and changes nothing.
Refresh == Retransmit \/ Timeout

\* Time passes; callers poll late by any amount the steps allow.
Tick ==
    /\ phase = "running" /\ ~Expired
    /\ \E step \in TickSteps : now' = now + step
    /\ UNCHANGED <<phase, timer, started, initial, armed>>

Next ==
    \/ \E t \in InitialTimeouts, m \in MaxRetransmissions : Start(t, m)
    \/ \E t \in InitialTimeouts : StartReliable(t)
    \/ Refresh
    \/ Tick
    \/ phase = "timedout" /\ UNCHANGED vars

\* The agent's main loop re-arms a GSource for the remainder and polls again.
Fairness == WF_vars(Refresh) /\ WF_vars(Tick)

Spec == Init /\ [][Next]_vars
FairSpec == Spec /\ Fairness

-----------------------------------------------------------------------------
TypeOK ==
    /\ now \in Nat
    /\ phase \in {"idle", "running", "timedout"}
    /\ deadline \in [sec : Nat, usec : Nat] /\ deadline.usec <= UsecPerSec
    /\ delay \in Nat /\ retransmissions \in Nat /\ max_retransmissions \in Nat
    /\ started \in Nat /\ initial \in Nat /\ armed \in Nat

\* A transaction is transmitted at most max_retransmissions times, and at
\* least once even when that limit is zero (stun_timer_start_reliable).
TransmissionsBounded ==
    phase # "idle" =>
        retransmissions \in 1..(IF max_retransmissions = 0 THEN 1
                                ELSE max_retransmissions)

\* stun_timer_refresh gives up only after the transaction has waited for every
\* delay it armed, short of the truncation to whole milliseconds that
\* stun_timer_remainder makes once per delay.
NeverTimesOutEarly ==
    phase = "timedout" =>
        now >= started + armed * UsecPerMs - retransmissions * (UsecPerMs - 1)

\* Until it times out, a request that was transmitted n times has waited for
\* the first n - 1 delays: retransmissions are never sent in a burst, however
\* late the caller polls.
RetransmissionsPaced ==
    phase = "running" =>
        now >= started + (armed - delay) * UsecPerMs
                       - (retransmissions - 1) * (UsecPerMs - 1)

\* timer.h gives two totals.  The comment on STUN_TIMER_DEFAULT_TIMEOUT doubles
\* the wait at each retransmission except for the last one, e.g. 1 + 2 + 1 ...
Pow2[n \in Nat] == IF n = 0 THEN 1 ELSE 2 * Pow2[n - 1]
TotalTimeout ==
    IF max_retransmissions < 2 THEN initial
    ELSE initial * (Pow2[max_retransmissions - 1] - 1)
         + (initial * Pow2[max_retransmissions - 2]) \div 2

\* ... and the comment on stun_timer_start doubles it until the limit is reached.
DoublingTotal == initial * (Pow2[max_retransmissions + 1] - 1)

\* The waits of a transaction add up to the first of the two totals, for every
\* initial timeout and limit.  The other one is only a bound on them: it is
\* reached by a timer that never retransmits (stun_timer_start_reliable) and by
\* no other, so a caller who sizes a deadline by it waits too long, never too
\* short.  And until then stun_timer_remainder is the distance to the deadline,
\* rounded to an adjacent millisecond, across every carry between seconds and
\* microseconds.
WaitsFollowSchedule ==
    /\ phase = "timedout" =>
        /\ armed = TotalTimeout
        /\ armed <= DoublingTotal
        /\ armed = DoublingTotal <=> initial = 0 \/ max_retransmissions = 0
    /\ phase = "running" =>
        LET left == Usec(deadline) - now
            r == Remainder(deadline) * UsecPerMs
        IN  IF left <= 0 THEN r = 0
            ELSE r > left - UsecPerMs /\ r < left + UsecPerMs

\* Every started transaction is given up on in the end, so a lost request
\* cannot keep a candidate, a pair or an allocation in progress for ever.
EventuallyTimesOut == (phase = "running") ~> (phase = "timedout")
=============================================================================
