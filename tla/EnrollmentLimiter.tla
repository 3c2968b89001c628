-------------------------- MODULE EnrollmentLimiter --------------------------
(***************************************************************************)
(* The rate limiter in front of secure enrollment: allowSecureEnrollment   *)
(* of server/enrollment.go, called by concurrent handlers.  A handler      *)
(* reads the clock before it waits for the mutex, so that decisions need   *)
(* not come in the order of the times they are taken for; and time.Now()   *)
(* .UTC() is wall-clock time, which can be set back.  Requests are         *)
(* numbered in the order in which they arrive.                             *)
(***************************************************************************)
EXTENDS Integers, FiniteSets

CONSTANTS
  RequestLimit,    \* bound: requests that arrive
  AttemptLimit,    \* secureEnrollmentAttemptsPerMinute, 120 in the code
  WindowLength,    \* time.Minute
  TimeLimit        \* bound: the latest instant of the clock

ASSUME LimiterAssumption ==
  /\ RequestLimit \in Nat /\ TimeLimit \in Nat
  /\ AttemptLimit \in Nat \ {0} /\ WindowLength \in Nat \ {0}

VARIABLES
  clock,        \* the wall clock
  windowStart,  \* secureEnrollmentRate.window, or ZeroTime
  attempts,     \* secureEnrollmentRate.attempts
  observed,     \* the time each request read
  verdict,      \* where each request is
  setBacks      \* how often a window was replaced by an earlier one

limiterVars == <<clock, windowStart, attempts, observed, verdict, setBacks>>

ZeroTime == -1
Requests == 1..RequestLimit

LimiterInit ==
  /\ clock = 0
  /\ windowStart = ZeroTime
  /\ attempts = 0
  /\ observed = [r \in Requests |-> ZeroTime]
  /\ verdict = [r \in Requests |-> "absent"]
  /\ setBacks = 0

\* Time passes, or the clock is set to an earlier time.
ClockMoves ==
  /\ clock' \in (0..TimeLimit) \ {clock}
  /\ UNCHANGED <<windowStart, attempts, observed, verdict, setBacks>>

\* secureEnroll evaluates time.Now().UTC(), the argument of the call.
ReadClock(r) ==
  /\ verdict[r] = "absent" /\ \A q \in Requests : q < r => verdict[q] # "absent"
  /\ observed' = [observed EXCEPT ![r] = clock]
  /\ verdict' = [verdict EXCEPT ![r] = "waiting"]
  /\ UNCHANGED <<clock, windowStart, attempts, setBacks>>

\* Seeded fault: a time before the window is taken for a time within it.
WindowOverUnlessEarlier(now) == windowStart = ZeroTime \/ now - windowStart >= WindowLength

WindowOver(now) ==
  windowStart = ZeroTime \/ now - windowStart >= WindowLength \/ now < windowStart

\* Seeded fault: the comparison admits one attempt more.
ExhaustedLate(n) == n > AttemptLimit

Exhausted(n) == n >= AttemptLimit

\* The critical section of allowSecureEnrollment.
AllowSecureEnrollment(r) ==
  LET now == observed[r]
      used == IF WindowOver(now) THEN 0 ELSE attempts
  IN /\ verdict[r] = "waiting"
     /\ windowStart' = IF WindowOver(now) THEN now ELSE windowStart
     /\ setBacks' = IF now < windowStart THEN setBacks + 1 ELSE setBacks
     /\ verdict' = [verdict EXCEPT ![r] = IF Exhausted(used) THEN "refused" ELSE "admitted"]
     /\ attempts' = IF Exhausted(used) THEN used ELSE used + 1
     /\ UNCHANGED <<clock, observed>>

LimiterNext ==
  \/ ClockMoves
  \/ \E r \in Requests : ReadClock(r) \/ AllowSecureEnrollment(r)

LimiterSpec == LimiterInit /\ [][LimiterNext]_limiterVars

-------------------------------------------------------------------------------
(* Properties.                                                             *)

\* Admitted requests whose time lies in the half-open interval [from, to).
AdmittedBetween(from, to) ==
  {r \in Requests : verdict[r] = "admitted" /\ from <= observed[r] /\ observed[r] < to}

\* Nobody is locked out: a request is refused (429) only if a full quota of requests was
\* admitted within one window length of it, before or after, however the clock was set
\* and in whatever order the handlers got the mutex.
RefusalIsJustified ==
  \A r \in Requests :
    verdict[r] = "refused" =>
      Cardinality(AdmittedBetween(observed[r] - WindowLength + 1, observed[r] + WindowLength))
        >= AttemptLimit

\* What "attempts per minute" amounts to.  Any interval as long as the window sees at most
\* two quotas, at the seam of two windows; each time a window is set back, by a late
\* handler or by the clock, two more are possible.
BurstIsBounded ==
  \A from \in 0..TimeLimit :
    Cardinality(AdmittedBetween(from, from + WindowLength)) <= 2 * AttemptLimit * (1 + setBacks)

===============================================================================
