------------------------------ MODULE NodeProofs ------------------------------
(***************************************************************************)
(* Proofs about the parts of a node that share no state: the owner's       *)
(* controls, the limiter in front of enrollment, the network benchmark and *)
(* the hardware inventory.  Each part has its own specification and its    *)
(* own inductive invariant.                                                *)
(***************************************************************************)
EXTENDS ProviderControls, EnrollmentLimiter, NetworkBenchmark, HardwareInventory,
        NodeRatingProofs

-------------------------------------------------------------------------------
(* Provider controls.                                                      *)

\* The arguments of the functions keep their Go types, in range or not.
ControlsTypeOK ==
  /\ limit \in [Resources -> Int]
  /\ allowed \in [start: Int, end: Int]
  /\ manualPause \in BOOLEAN
  /\ mode \in Modes \cup {"unsupported"}
  /\ localReturn \in LocalReturns \cup {"unsupported"}
  /\ request \in [Resources -> Int]
  /\ localHour \in Int
  /\ userActive \in BOOLEAN

\* Whoever changes an argument keeps its type.
LEMMA ControlsKeepTypes == ControlsTypeOK /\ [ControlsNext]_controlVars => ControlsTypeOK'
<1> SUFFICES ASSUME ControlsTypeOK, [ControlsNext]_controlVars
             PROVE  ControlsTypeOK'
  OBVIOUS
<1> USE DEF ControlsTypeOK
<1>1. CASE UNCHANGED controlVars
  BY <1>1 DEF controlVars, policy
<1>2. ASSUME NEW r \in Resources, OwnerSetsLimit(r) \/ MarketAsks(r)
      PROVE  ControlsTypeOK'
  BY <1>2, ControlsAssumption DEF OwnerSetsLimit, MarketAsks, Amounts, policy
<1>3. CASE OwnerSetsWindow
  BY <1>3, ControlsAssumption DEF OwnerSetsWindow, policy
<1>4. CASE OwnerSetsPolicy
  BY <1>4 DEF OwnerSetsPolicy
<1>5. CASE HourChanges
  BY <1>5, ControlsAssumption DEF HourChanges, policy
<1>6. CASE LocalUserComesOrGoes
  BY <1>6 DEF LocalUserComesOrGoes, policy
<1> QED
  BY <1>1, <1>2, <1>3, <1>4, <1>5, <1>6 DEF ControlsNext

\* The arguments keep their types.
THEOREM ControlsTypeCorrect == ControlsSpec => []ControlsTypeOK
<1>1. ControlsInit => ControlsTypeOK
  <2> SUFFICES ASSUME ControlsInit
               PROVE  ControlsTypeOK
    OBVIOUS
  <2>1. limit \in [Resources -> Int] /\ request \in [Resources -> Int] /\ localHour \in Int
    BY DEF ControlsInit
  <2>2. allowed \in [start: Int, end: Int]
    BY DEF ControlsInit
  <2>3. mode \in Modes /\ localReturn \in LocalReturns /\ manualPause \in BOOLEAN
        /\ userActive \in BOOLEAN
    BY DEF ControlsInit, Modes, LocalReturns
  <2> QED
    BY <2>1, <2>2, <2>3 DEF ControlsTypeOK
<1> QED
  BY <1>1, ControlsKeepTypes, PTL DEF ControlsSpec

\* The way from one hour of the clock to another.
LEMMA HoursApart ==
  ASSUME NEW s \in 0..23, NEW h \in 0..23
  PROVE  (h - s) % 24 = IF h >= s THEN h - s ELSE h - s + 24
  OBVIOUS

\* The two cases of IsProviderHourAllowed, a window within a day and one across midnight,
\* are one arc.
LEMMA WindowArc ==
  ASSUME NEW s \in 0..23, NEW e \in 0..23, NEW h \in 0..23
  PROVE  /\ IsProviderHourAllowed(s, e, h) <=> s = e \/ (h - s) % 24 < (e - s) % 24
         /\ s # e => (IsProviderHourAllowed(s, e, h) <=> ~IsProviderHourAllowed(e, s, h))
<1>1. /\ (h - s) % 24 = IF h >= s THEN h - s ELSE h - s + 24
      /\ (e - s) % 24 = IF e >= s THEN e - s ELSE e - s + 24
  BY HoursApart
<1> QED
  BY <1>1 DEF IsProviderHourAllowed, InRange

\* For every start and end hour IsProviderHourAllowed allows the hours of one arc of the
\* clock, and the swapped hours the rest of the day.
THEOREM SharingWindow == ControlsSpec => []WindowIsAnArc
<1>1. ControlsTypeOK => WindowIsAnArc
  <2> DEFINE s == allowed.start
             e == allowed.end
  <2> SUFFICES ASSUME ControlsTypeOK, InRange(0, 23, s), InRange(0, 23, e), NEW h \in 0..23
               PROVE  /\ IsProviderHourAllowed(s, e, h) <=> s = e \/ (h - s) % 24 < (e - s) % 24
                      /\ s # e => (IsProviderHourAllowed(s, e, h)
                                     <=> ~IsProviderHourAllowed(e, s, h))
    BY DEF WindowIsAnArc
  <2>1. s \in 0..23 /\ e \in 0..23
    BY DEF ControlsTypeOK, InRange
  <2> HIDE DEF s, e
  <2> QED
    BY <2>1, WindowArc
<1> QED
  BY <1>1, ControlsTypeCorrect, PTL

\* Admission is monotone: for any set of resources and any amounts, a decision of
\* EvaluateProviderNewWorkWithActivity survives every change in the work's favour.
THEOREM AdmissionIsMonotone == ControlsSpec => LooserNeverRefuses
<1>1. ASSUME ControlsTypeOK, ControlsTypeOK', Loosens, EvaluateProviderNewWorkWithActivity
      PROVE  EvaluateProviderNewWorkWithActivity'
  <2>1. \A r \in Resources : Within(r)'
    <3> SUFFICES ASSUME NEW r \in Resources
                 PROVE  Within(r)'
      OBVIOUS
    <3>1. /\ limit[r] \in Int /\ limit'[r] \in Int /\ request[r] \in Int /\ request'[r] \in Int
          /\ limit'[r] >= limit[r] /\ request'[r] <= request[r]
          /\ r \in Percentages => request'[r] >= 0
      BY <1>1 DEF ControlsTypeOK, Loosens
    <3>2. Within(r)
      BY <1>1 DEF EvaluateProviderNewWorkWithActivity, EvaluateProviderNewWorkAtHour,
         EvaluateProviderNewWork, EvaluateProviderResourceRequest
    <3> QED
      BY <3>1, <3>2 DEF Within, InRange
  <2>2. ValidateProviderResourceControls'
    BY <1>1 DEF Loosens
  <2>3. ~manualPause'
    BY <1>1 DEF Loosens, EvaluateProviderNewWorkWithActivity, EvaluateProviderNewWorkAtHour,
       EvaluateProviderNewWork
  <2>4. IsProviderHourAllowed(allowed.start, allowed.end, localHour)'
    BY <1>1 DEF Loosens, EvaluateProviderNewWorkWithActivity, EvaluateProviderNewWorkAtHour,
       IsProviderHourAllowed
  <2>5. ~(userActive /\ localReturn = "stop-new-work")'
    BY <1>1 DEF Loosens, EvaluateProviderNewWorkWithActivity
  <2> QED
    BY <2>1, <2>2, <2>3, <2>4, <2>5 DEF EvaluateProviderNewWorkWithActivity,
       EvaluateProviderNewWorkAtHour, EvaluateProviderNewWork, EvaluateProviderResourceRequest
<1>2. ControlsTypeOK /\ ControlsTypeOK' =>
        [Loosens /\ EvaluateProviderNewWorkWithActivity
           => EvaluateProviderNewWorkWithActivity']_controlVars
  BY <1>1
<1> QED
  BY <1>2, ControlsTypeCorrect, PTL DEF LooserNeverRefuses

-------------------------------------------------------------------------------
(* The limiter in front of enrollment.                                     *)

LimiterTypeOK ==
  /\ clock \in 0..TimeLimit
  /\ windowStart \in {ZeroTime} \cup (0..TimeLimit)
  /\ attempts \in 0..AttemptLimit
  /\ observed \in [Requests -> {ZeroTime} \cup (0..TimeLimit)]
  /\ verdict \in [Requests -> {"absent", "waiting", "admitted", "refused"}]
  /\ setBacks \in Nat
  /\ \A r \in Requests : verdict[r] # "absent" => observed[r] \in 0..TimeLimit

Admitted(from, to) == Cardinality(AdmittedBetween(from, to))

\* Every attempt that is counted is a request admitted for a time in the window.
AttemptsAreAdmissions ==
  windowStart # ZeroTime => attempts <= Admitted(windowStart, windowStart + WindowLength)

(***************************************************************************)
(* What the windows since the last set-back can have admitted between from *)
(* and from + WindowLength.  Such windows lie one after the other, so that *)
(* at most two of them meet the interval; whether the current one does,    *)
(* and whether another can have done, depends on where it starts.          *)
(***************************************************************************)
SinceSetBack(from) ==
  IF windowStart = ZeroTime \/ windowStart <= from - WindowLength THEN 0
  ELSE IF windowStart < from THEN attempts
  ELSE IF windowStart < from + WindowLength THEN AttemptLimit + attempts
  ELSE 2 * AttemptLimit

\* Before each set-back, at most two quotas.
BurstInv ==
  \A from \in Nat :
    Admitted(from, from + WindowLength) <= 2 * AttemptLimit * setBacks + SinceSetBack(from)

LimiterInv == LimiterTypeOK /\ AttemptsAreAdmissions /\ BurstInv /\ RefusalIsJustified

\* Admissions can be counted, and a longer interval holds no fewer.
LEMMA AdmittedIsFinite ==
  ASSUME NEW from, NEW to
  PROVE  IsFiniteSet(AdmittedBetween(from, to)) /\ Admitted(from, to) \in Nat
<1>1. IsFiniteSet(Requests)
  BY FS_Interval, LimiterAssumption DEF Requests
<1>2. AdmittedBetween(from, to) \in SUBSET Requests
  BY DEF AdmittedBetween
<1> QED BY <1>1, <1>2, FS_Subset, FS_CardinalityType DEF Admitted

LEMMA AdmittedIsMonotone ==
  ASSUME LimiterTypeOK, NEW f \in Int, NEW t \in Int, NEW from \in Int, NEW to \in Int,
         from <= f, t <= to
  PROVE  Admitted(f, t) <= Admitted(from, to)
<1>1. AdmittedBetween(f, t) \in SUBSET AdmittedBetween(from, to)
  BY DEF AdmittedBetween, LimiterTypeOK, ZeroTime
<1> QED BY <1>1, AdmittedIsFinite, FS_Subset DEF Admitted

\* A step that admits nobody leaves the admissions alone.
LEMMA NobodyAdmitted ==
  ASSUME LimiterTypeOK,
         \A q \in Requests : /\ verdict'[q] = "admitted" <=> verdict[q] = "admitted"
                             /\ verdict[q] # "absent" => observed'[q] = observed[q],
         NEW from, NEW to
  PROVE  Admitted(from, to)' = Admitted(from, to)
<1>1. AdmittedBetween(from, to)' = AdmittedBetween(from, to)
  BY DEF AdmittedBetween
<1> QED BY <1>1 DEF Admitted

\* One that admits request r adds it where its time lies.
LEMMA OneAdmitted ==
  ASSUME LimiterTypeOK, NEW r \in Requests, verdict[r] = "waiting", observed' = observed,
         verdict' = [verdict EXCEPT ![r] = "admitted"],
         NEW from, NEW to
  PROVE  Admitted(from, to)' =
           Admitted(from, to) + IF from <= observed[r] /\ observed[r] < to THEN 1 ELSE 0
<1>1. CASE from <= observed[r] /\ observed[r] < to
  <2>1. AdmittedBetween(from, to)' = AdmittedBetween(from, to) \cup {r}
    BY <1>1 DEF AdmittedBetween, LimiterTypeOK
  <2>2. r \notin AdmittedBetween(from, to)
    BY DEF AdmittedBetween
  <2> QED BY <1>1, <2>1, <2>2, AdmittedIsFinite, FS_AddElement DEF Admitted
<1>2. CASE ~(from <= observed[r] /\ observed[r] < to)
  <2>1. AdmittedBetween(from, to)' = AdmittedBetween(from, to)
    BY <1>2 DEF AdmittedBetween, LimiterTypeOK
  <2> QED BY <1>2, <2>1, AdmittedIsFinite DEF Admitted
<1> QED BY <1>1, <1>2

\* The clock, and a handler that reads it, decide nothing.
LEMMA ClockKeepsLimiterInv ==
  ASSUME LimiterInv,
         ClockMoves \/ (\E r \in Requests : ReadClock(r)) \/ UNCHANGED limiterVars
  PROVE  LimiterInv'
<1>1. LimiterTypeOK /\ LimiterTypeOK'
  BY LimiterAssumption
     DEF LimiterInv, LimiterTypeOK, ClockMoves, ReadClock, limiterVars, ZeroTime
<1>2. \A q \in Requests : /\ verdict'[q] = "admitted" <=> verdict[q] = "admitted"
                          /\ verdict'[q] = "refused" => verdict[q] = "refused"
                          /\ verdict[q] # "absent" => observed'[q] = observed[q]
  BY <1>1 DEF LimiterTypeOK, ClockMoves, ReadClock, limiterVars
<1>3. ASSUME NEW from, NEW to
      PROVE  Admitted(from, to)' = Admitted(from, to)
  BY <1>1, <1>2, NobodyAdmitted
<1>4. UNCHANGED <<windowStart, attempts, setBacks>>
  BY DEF ClockMoves, ReadClock, limiterVars
<1>5. AttemptsAreAdmissions'
  <2> SUFFICES ASSUME windowStart # ZeroTime
               PROVE  attempts <= Admitted(windowStart, windowStart + WindowLength)'
    BY <1>4 DEF AttemptsAreAdmissions, ZeroTime
  <2> QED BY <1>3, <1>4 DEF LimiterInv, AttemptsAreAdmissions
<1>6. BurstInv'
  BY <1>3, <1>4 DEF LimiterInv, BurstInv, SinceSetBack, ZeroTime
<1>7. RefusalIsJustified'
  BY <1>2, <1>3, <1>4 DEF LimiterInv, RefusalIsJustified, Admitted
<1> QED BY <1>1, <1>5, <1>6, <1>7 DEF LimiterInv

\* A refusal finds a full quota of admissions in the window, which is less than a window
\* length away.
LEMMA RefuseKeepsLimiterInv ==
  ASSUME LimiterInv, NEW r \in Requests, AllowSecureEnrollment(r), verdict'[r] = "refused"
  PROVE  LimiterInv'
<1> DEFINE now == observed[r]
<1>0. LimiterTypeOK /\ AttemptLimit \in Nat \ {0} /\ WindowLength \in Nat \ {0}
  BY LimiterAssumption DEF LimiterInv
<1>1. /\ now \in Nat /\ windowStart # ZeroTime /\ windowStart \in Nat
      /\ windowStart <= now /\ now < windowStart + WindowLength
      /\ attempts = AttemptLimit
  BY <1>0, LimiterAssumption
     DEF AllowSecureEnrollment, Exhausted, WindowOver, LimiterTypeOK, ZeroTime
<1>2. /\ verdict' = [verdict EXCEPT ![r] = "refused"]
      /\ UNCHANGED <<clock, windowStart, attempts, observed, setBacks>>
  <2>1. ~WindowOver(now) /\ Exhausted(attempts) /\ ~(now < windowStart)
    BY <1>0, <1>1 DEF WindowOver, Exhausted
  <2> QED BY <2>1 DEF AllowSecureEnrollment
<1>3. LimiterTypeOK'
  BY <1>0, <1>2 DEF AllowSecureEnrollment, LimiterTypeOK
<1>4. ASSUME NEW from, NEW to
      PROVE  Admitted(from, to)' = Admitted(from, to)
  <2>1. \A q \in Requests : /\ verdict'[q] = "admitted" <=> verdict[q] = "admitted"
                            /\ verdict[q] # "absent" => observed'[q] = observed[q]
    BY <1>0, <1>2 DEF AllowSecureEnrollment, LimiterTypeOK
  <2> QED BY <1>0, <2>1, NobodyAdmitted
<1>5. AttemptsAreAdmissions' /\ BurstInv'
  <2>1. AttemptsAreAdmissions'
    <3> SUFFICES ASSUME windowStart # ZeroTime
                 PROVE  attempts <= Admitted(windowStart, windowStart + WindowLength)'
      BY <1>2 DEF AttemptsAreAdmissions, ZeroTime
    <3> QED BY <1>2, <1>4 DEF LimiterInv, AttemptsAreAdmissions
  <2>2. BurstInv'
    BY <1>2, <1>4 DEF LimiterInv, BurstInv, SinceSetBack, ZeroTime
  <2> QED BY <2>1, <2>2
<1>6. RefusalIsJustified'
  <2> SUFFICES ASSUME NEW q \in Requests, verdict'[q] = "refused"
               PROVE  Admitted(observed[q] - WindowLength + 1, observed[q] + WindowLength)
                        >= AttemptLimit
    BY <1>2, <1>4 DEF RefusalIsJustified, Admitted
  <2>1. CASE q = r
    <3>1. AttemptLimit <= Admitted(windowStart, windowStart + WindowLength)
      BY <1>1 DEF LimiterInv, AttemptsAreAdmissions
    <3>2. Admitted(windowStart, windowStart + WindowLength)
            <= Admitted(now - WindowLength + 1, now + WindowLength)
      BY <1>0, <1>1, AdmittedIsMonotone
    <3>3. /\ Admitted(windowStart, windowStart + WindowLength) \in Nat
          /\ Admitted(now - WindowLength + 1, now + WindowLength) \in Nat
      BY AdmittedIsFinite
    <3> QED BY <1>0, <2>1, <3>1, <3>2, <3>3
  <2>2. CASE q # r
    BY <1>0, <1>2, <2>2 DEF LimiterTypeOK, LimiterInv, RefusalIsJustified, Admitted
  <2> QED BY <2>1, <2>2
<1> QED BY <1>3, <1>5, <1>6 DEF LimiterInv

\* An admission takes the place of one attempt in the window, or opens a new window.
LEMMA AdmitKeepsLimiterInv ==
  ASSUME LimiterInv, NEW r \in Requests, AllowSecureEnrollment(r), verdict'[r] = "admitted"
  PROVE  LimiterInv'
<1>0. LimiterTypeOK /\ AttemptLimit \in Nat \ {0} /\ WindowLength \in Nat \ {0}
  BY LimiterAssumption DEF LimiterInv
<1>1. PICK now, w, start, used :
        /\ now = observed[r] /\ w = windowStart
        /\ start = IF WindowOver(now) THEN now ELSE w
        /\ used = IF WindowOver(now) THEN 0 ELSE attempts
  OBVIOUS
<1>2. /\ now \in 0..TimeLimit /\ w \in Nat \cup {-1} /\ setBacks \in Nat
      /\ start \in Nat /\ start <= now /\ now < start + WindowLength /\ start \in 0..TimeLimit
      /\ used \in Nat /\ attempts \in 0..AttemptLimit
  BY <1>0, <1>1, LimiterAssumption
     DEF AllowSecureEnrollment, LimiterTypeOK, ZeroTime, WindowOver
<1>3. /\ verdict' = [verdict EXCEPT ![r] = "admitted"]
      /\ used < AttemptLimit
      /\ windowStart' = start /\ attempts' = used + 1
      /\ setBacks' = IF now < w THEN setBacks + 1 ELSE setBacks
      /\ UNCHANGED <<clock, observed>>
  <2>1. ~Exhausted(used)
    BY <1>0, <1>1 DEF AllowSecureEnrollment, LimiterTypeOK
  <2>2. /\ verdict' = [verdict EXCEPT ![r] = "admitted"]
        /\ windowStart' = start /\ attempts' = used + 1
        /\ setBacks' = IF now < w THEN setBacks + 1 ELSE setBacks
        /\ UNCHANGED <<clock, observed>>
    BY <1>1, <2>1 DEF AllowSecureEnrollment
  <2>3. used < AttemptLimit
    BY <1>0, <1>2, <2>1 DEF Exhausted
  <2> QED BY <2>2, <2>3
<1>4. LimiterTypeOK'
  <2>1. attempts' \in 0..AttemptLimit /\ setBacks' \in Nat
    BY <1>0, <1>2, <1>3
  <2>2. verdict' \in [Requests -> {"absent", "waiting", "admitted", "refused"}]
    BY <1>0, <1>3 DEF LimiterTypeOK
  <2>3. \A q \in Requests : verdict'[q] # "absent" => observed'[q] \in 0..TimeLimit
    BY <1>0, <1>1, <1>2, <1>3 DEF LimiterTypeOK
  <2> QED BY <1>0, <1>2, <1>3, <2>1, <2>2, <2>3 DEF LimiterTypeOK
<1>5. ASSUME NEW from, NEW to
      PROVE  /\ Admitted(from, to)' =
                  Admitted(from, to) + IF from <= now /\ now < to THEN 1 ELSE 0
             /\ Admitted(from, to) \in Nat
  <2>1. verdict[r] = "waiting"
    BY DEF AllowSecureEnrollment
  <2>2. Admitted(from, to)' =
          Admitted(from, to) + IF from <= observed[r] /\ observed[r] < to THEN 1 ELSE 0
    BY <1>0, <1>3, <2>1, OneAdmitted
  <2> QED BY <1>1, <2>2, AdmittedIsFinite
<1>6. AttemptsAreAdmissions'
  <2>0. AdmittedBetween(windowStart, windowStart + WindowLength)'
          = AdmittedBetween(start, start + WindowLength)'
    BY <1>3, Zenon DEF AdmittedBetween
  <2> SUFFICES used + 1 <= Admitted(start, start + WindowLength)'
    BY <1>3, <2>0 DEF AttemptsAreAdmissions, Admitted
  <2>1. /\ Admitted(start, start + WindowLength)' = Admitted(start, start + WindowLength) + 1
        /\ Admitted(start, start + WindowLength) \in Nat
    BY <1>2, <1>5
  <2>2. used <= Admitted(start, start + WindowLength)
    <3>1. CASE WindowOver(now)
      BY <1>1, <2>1, <3>1
    <3>2. CASE ~WindowOver(now)
      BY <1>1, <3>2 DEF LimiterInv, AttemptsAreAdmissions, WindowOver
    <3> QED BY <3>1, <3>2
  <2> QED BY <1>2, <2>1, <2>2
<1>7. BurstInv'
  <2> SUFFICES ASSUME NEW from \in Nat
               PROVE  Admitted(from, from + WindowLength)'
                        <= 2 * AttemptLimit * setBacks' + SinceSetBack(from)'
    BY DEF BurstInv
  <2>1. PICK total, before : /\ total = Admitted(from, from + WindowLength)
                             /\ before = 2 * AttemptLimit * setBacks
    OBVIOUS
  <2>2. /\ total \in Nat /\ before \in Nat
        /\ total <= before + SinceSetBack(from)
        /\ Admitted(from, from + WindowLength)' =
             total + IF from <= now /\ now < from + WindowLength THEN 1 ELSE 0
    BY <1>0, <1>2, <1>5, <2>1 DEF LimiterInv, BurstInv
  <2>3. 2 * AttemptLimit * setBacks' = IF now < w THEN before + 2 * AttemptLimit ELSE before
    BY <1>0, <1>2, <1>3, <2>1
  <2>4. SinceSetBack(from)' =
          IF start <= from - WindowLength THEN 0
          ELSE IF start < from THEN used + 1
          ELSE IF start < from + WindowLength THEN AttemptLimit + used + 1
          ELSE 2 * AttemptLimit
    BY <1>0, <1>2, <1>3 DEF SinceSetBack, ZeroTime
  <2>5. SinceSetBack(from) =
          IF w = -1 \/ w <= from - WindowLength THEN 0
          ELSE IF w < from THEN attempts
          ELSE IF w < from + WindowLength THEN AttemptLimit + attempts
          ELSE 2 * AttemptLimit
    BY <1>1 DEF SinceSetBack, ZeroTime
  <2>6. CASE now < w
    BY <1>0, <1>1, <1>2, <2>2, <2>3, <2>4, <2>5, <2>6 DEF WindowOver, ZeroTime
  <2>7. CASE ~(now < w) /\ WindowOver(now)
    BY <1>0, <1>1, <1>2, <2>2, <2>3, <2>4, <2>5, <2>7 DEF WindowOver, ZeroTime
  <2>8. CASE ~(now < w) /\ ~WindowOver(now)
    BY <1>0, <1>1, <1>2, <2>2, <2>3, <2>4, <2>5, <2>8 DEF WindowOver, ZeroTime
  <2> QED BY <2>6, <2>7, <2>8
<1>8. RefusalIsJustified'
  <2> SUFFICES ASSUME NEW q \in Requests, verdict[q] = "refused",
                      NEW from, from = observed[q] - WindowLength + 1,
                      NEW to, to = observed[q] + WindowLength
               PROVE  Admitted(from, to)' >= AttemptLimit
    BY <1>0, <1>3 DEF RefusalIsJustified, Admitted, LimiterTypeOK
  <2>1. Admitted(from, to) >= AttemptLimit
    BY DEF LimiterInv, RefusalIsJustified, Admitted
  <2> QED BY <1>0, <1>5, <2>1
<1> QED BY <1>4, <1>6, <1>7, <1>8 DEF LimiterInv

\* The invariant holds in every reachable state.
THEOREM LimiterInvariant == LimiterSpec => []LimiterInv
<1>1. LimiterInit => LimiterInv
  <2> SUFFICES ASSUME LimiterInit
               PROVE  LimiterInv
    OBVIOUS
  <2>1. LimiterTypeOK
    BY LimiterAssumption DEF LimiterInit, LimiterTypeOK
  <2>2. AttemptsAreAdmissions /\ RefusalIsJustified
    BY DEF LimiterInit, AttemptsAreAdmissions, RefusalIsJustified
  <2>3. BurstInv
    <3>1. ASSUME NEW from, NEW to
          PROVE  Admitted(from, to) = 0
      <4>1. AdmittedBetween(from, to) = {}
        BY DEF LimiterInit, AdmittedBetween
      <4> QED BY <4>1, FS_EmptySet DEF Admitted
    <3>2. 2 * AttemptLimit * setBacks = 0
      BY LimiterAssumption DEF LimiterInit
    <3> QED BY <3>1, <3>2 DEF LimiterInit, BurstInv, SinceSetBack
  <2> QED BY <2>1, <2>2, <2>3 DEF LimiterInv
<1>2. LimiterInv /\ [LimiterNext]_limiterVars => LimiterInv'
  <2> SUFFICES ASSUME LimiterInv, [LimiterNext]_limiterVars
               PROVE  LimiterInv'
    OBVIOUS
  <2>1. ASSUME NEW r \in Requests, AllowSecureEnrollment(r)
        PROVE  LimiterInv'
    <3>1. verdict'[r] \in {"refused", "admitted"}
      BY <2>1 DEF AllowSecureEnrollment, LimiterInv, LimiterTypeOK
    <3> QED BY <2>1, <3>1, RefuseKeepsLimiterInv, AdmitKeepsLimiterInv
  <2> QED BY <2>1, ClockKeepsLimiterInv DEF LimiterNext
<1> QED
  BY <1>1, <1>2, PTL DEF LimiterSpec

\* Nobody is locked out, however often the clock is set and in whatever order the handlers
\* get the mutex: a 429 means a full quota of admissions within a window length.
THEOREM NobodyLockedOut == LimiterSpec => []RefusalIsJustified
<1>1. LimiterInv => RefusalIsJustified
  BY DEF LimiterInv
<1> QED
  BY <1>1, LimiterInvariant, PTL

\* At most two quotas in any interval of a window length, and two more for each time the
\* window was set back.
THEOREM BurstsAreBounded == LimiterSpec => []BurstIsBounded
<1>1. ASSUME LimiterInv
      PROVE  BurstIsBounded
  <2> SUFFICES ASSUME NEW from \in Nat
               PROVE  Admitted(from, from + WindowLength) <= 2 * AttemptLimit * (1 + setBacks)
    BY LimiterAssumption DEF BurstIsBounded, Admitted
  <2>1. /\ Admitted(from, from + WindowLength) \in Nat /\ setBacks \in Nat
        /\ AttemptLimit \in Nat /\ attempts \in 0..AttemptLimit
        /\ Admitted(from, from + WindowLength)
             <= 2 * AttemptLimit * setBacks + SinceSetBack(from)
    BY <1>1, AdmittedIsFinite, LimiterAssumption DEF LimiterInv, LimiterTypeOK, BurstInv
  <2>2. SinceSetBack(from) \in 0..(2 * AttemptLimit)
    BY <2>1 DEF SinceSetBack
  <2>3. 2 * AttemptLimit * (1 + setBacks) = 2 * AttemptLimit * setBacks + 2 * AttemptLimit
    BY <2>1
  <2>4. 2 * AttemptLimit * setBacks \in Nat
    BY <2>1
  <2> QED BY <2>1, <2>2, <2>3, <2>4
<1> QED
  BY <1>1, LimiterInvariant, PTL

-------------------------------------------------------------------------------
(* Hardware inventory.                                                     *)

\* The detectors in their order.
Sections == {"cpu", "memory", "gpus", "runtimes", "ollama", "roots", "check", "done", "error"}

\* What is listed for llama.cpp, judged by the builds in the places before n.
StatusFits(status, b, n) ==
  /\ status \in Status
  /\ status = "absent" <=> \A i \in 1..n : b[i] = "none"
  /\ status = "available" <=> \E i \in 1..n : b[i] = "answers"

\* What is known of llama.cpp once its detector has run.
LlamaInv ==
  section \in {"ollama", "roots", "check", "done", "error"} =>
    /\ llama = "absent" <=> \A i \in 1..Builds : builds[i] = "none"
    /\ llama = "available" => \E i \in 1..Builds : builds[i] = "answers"
    /\ platform = "linux" =>
         ((\E i \in 1..Builds : builds[i] = "answers") => llama = "available")

\* The most models there can be on Linux once n directories have been searched.
AtMost(kept, listed, n) ==
  IF listed >= ModelLimit THEN kept <= listed + n ELSE kept <= ModelLimit + n - 1
ModelsAfter(n) == AtMost(Size(models), Size(ollama), n)

ModelsInv ==
  /\ platform = "linux" =>
       /\ section = "roots" => ModelsAfter(root - 1)
       /\ section \in {"check", "done", "error"} => ModelsAfter(Roots)
  /\ platform = "darwin" /\ section \in {"check", "done", "error"} => Size(models) <= ModelLimit

InventoryTypeOK ==
  /\ platform \in Platforms
  /\ section \in Sections
  /\ root \in 1..Roots
  /\ gpus \in Nat
  /\ builds \in [1..Builds -> Build]
  /\ ollama \in SUBSET OllamaModels
  /\ models \in SUBSET (OllamaModels \cup Models)

InventoryInv ==
  /\ InventoryTypeOK
  /\ LlamaInv
  /\ ModelsInv
  /\ section \in {"cpu", "memory", "gpus", "runtimes", "ollama"} => root = 1
  /\ section = "done" => memory

\* What the loop of detectLinuxAIRuntimes returns: the best of all builds.
LEMMA LinuxLlamaStatus ==
  ASSUME NEW b \in [1..Builds -> Build]
  PROVE  StatusFits(LinuxLlama(b), b, Builds)
<1> DEFINE Loop(f) == [n \in 0..Builds |-> IF n = 0 THEN "absent" ELSE Listed(f[n - 1], b[n])]
           entry == CHOOSE f : f = Loop(f)
<1>0. Builds \in Nat
  BY InventoryAssumption
<1>1. LinuxLlama(b) = entry[Builds]
  BY DEF LinuxLlama
<1>2. entry = Loop(entry)
  <2> DEFINE round == [x \in (1..Builds) \X Status |-> Listed(x[2], b[x[1]])]
  <2>1. round \in [(1..Builds) \X Status -> Status]
    <3>1. ASSUME NEW x \in (1..Builds) \X Status
          PROVE  Listed(x[2], b[x[1]]) \in Status
      BY <3>1 DEF Listed, Status, Build
    <3> QED BY <3>1
  <2>2. "absent" \in Status
    BY DEF Status
  <2>3. PICK f \in [0..Builds -> Status] :
          f[0] = "absent" /\ \A n \in 1..Builds : f[n] = round[<<n, f[n - 1]>>]
    <3> DEFINE start == "absent"
    <3>1. start \in Status
      BY <2>2
    <3> HIDE DEF round, start
    <3>2. \E f \in [0..Builds -> Status] : Rounds(f, Builds, start, round)
      BY <1>0, <2>1, <3>1, LoopExists, Zenon
    <3>3. start = "absent"
      BY DEF start
    <3> QED BY <3>2, <3>3 DEF Rounds
  <2>4. ASSUME NEW n \in 1..Builds
        PROVE  round[<<n, f[n - 1]>>] = Listed(f[n - 1], b[n])
    BY <1>0
  <2>5. f = Loop(f)
    <3> HIDE DEF round
    <3>1. ASSUME NEW n \in 0..Builds
          PROVE  f[n] = IF n = 0 THEN "absent" ELSE Listed(f[n - 1], b[n])
      <4>1. n # 0 => n \in 1..Builds
        BY <1>0
      <4> QED BY <2>3, <2>4, <4>1
    <3> QED BY <3>1
  <2> HIDE DEF Loop
  <2> QED BY <2>5
<1> HIDE DEF entry
<1>3. /\ entry[0] = "absent"
      /\ \A n \in 1..Builds : entry[n] = Listed(entry[n - 1], b[n])
  BY <1>0, <1>2
<1> DEFINE Good == {n \in Nat : n <= Builds => StatusFits(entry[n], b, n)}
<1>4. 0 \in Good
  BY <1>3 DEF StatusFits, Status
<1>5. ASSUME NEW n \in Nat, n \in Good
      PROVE  n + 1 \in Good
  <2> SUFFICES ASSUME n + 1 <= Builds
               PROVE  StatusFits(entry[n + 1], b, n + 1)
    OBVIOUS
  <2>1. StatusFits(entry[n], b, n)
    BY <1>0, <1>5
  <2>2. entry[n + 1] = Listed(entry[n], b[n + 1]) /\ b[n + 1] \in Build
    BY <1>0, <1>3
  <2>3. \A i \in 1..(n + 1) : i \in 1..n \/ i = n + 1
    OBVIOUS
  <2>4. n + 1 \in 1..(n + 1) /\ 1..n \subseteq 1..(n + 1)
    OBVIOUS
  <2> QED
    BY <2>1, <2>2, <2>3, <2>4 DEF StatusFits, Listed, Status, Build
<1>6. Builds \in Good
  <2> HIDE DEF Good
  <2> QED BY <1>0, <1>4, <1>5, InductionOnNat
<1> QED
  BY <1>0, <1>1, <1>6

\* The first executable decides on Darwin.
LEMMA DarwinLlamaStatus ==
  ASSUME NEW b \in [1..Builds -> Build]
  PROVE  /\ DarwinLlama(b) \in Status
         /\ DarwinLlama(b) = "absent" <=> \A i \in 1..Builds : b[i] = "none"
         /\ DarwinLlama(b) = "available" => \E i \in 1..Builds : b[i] = "answers"
<1> DEFINE there == {i \in 1..Builds : b[i] # "none"}
           first == CHOOSE i \in there : \A j \in there : i <= j
<1>1. CASE there = {}
  BY <1>1 DEF DarwinLlama, Status
<1>2. CASE there # {}
  <2>1. there \in SUBSET Nat
    BY InventoryAssumption
  <2>2. \E i \in there : \A j \in there : i <= j
    <3> HIDE DEF there
    <3> QED BY <1>2, <2>1, LeastNumber
  <2>3. first \in there
    BY <2>2
  <2>4. DarwinLlama(b) = IF b[first] = "answers" THEN "available" ELSE "installed_unavailable"
    BY <1>2 DEF DarwinLlama
  <2> HIDE DEF first
  <2> QED BY <1>2, <2>3, <2>4 DEF Status
<1> QED BY <1>1, <1>2

\* What adding to a collection can make of it: the test that comes after the insertion lets
\* one more into a full collection, and no other past the limit.
LEMMA AddingIsBounded ==
  ASSUME NEW have, IsFiniteSet(have), NEW found, IsFiniteSet(found),
         NEW all \in AddUntilFull(have, found)
  PROVE  /\ all \subseteq have \cup found
         /\ Size(all) \in Nat /\ Size(have) \in Nat
         /\ Size(all) <= IF Size(have) >= ModelLimit THEN Size(have) + 1 ELSE ModelLimit
<1>0. ModelLimit \in Nat /\ Size(have) \in Nat
  BY InventoryAssumption, FS_CardinalityType DEF Size
<1>1. all \subseteq have \cup found
  BY DEF AddUntilFull
<1>2. Size(all) \in Nat
  <2>1. IsFiniteSet(have \cup found)
    BY FS_Union
  <2> QED BY <1>1, <2>1, FS_Subset, FS_CardinalityType DEF Size
<1>3. ASSUME Size(have) >= ModelLimit, found # {}
      PROVE  Size(all) <= Size(have) + 1
  <2>1. PICK m : all = have \cup {m}
    BY <1>3 DEF AddUntilFull
  <2>2. Size(all) = IF m \in have THEN Size(have) ELSE Size(have) + 1
    BY <2>1, FS_AddElement DEF Size
  <2> QED BY <1>0, <2>2
<1>4. ASSUME ~(Size(have) >= ModelLimit), found # {}
      PROVE  Size(all) <= ModelLimit
  <2>1. CASE Size(have \cup found) <= ModelLimit
    BY <1>4, <2>1 DEF AddUntilFull
  <2>2. CASE ~(Size(have \cup found) <= ModelLimit)
    <3>1. \E s : all = have \cup s /\ Size(have \cup s) = ModelLimit
      BY <1>4, <2>2 DEF AddUntilFull
    <3> QED BY <1>0, <3>1
  <2> QED BY <2>1, <2>2
<1>5. found = {} => all = have
  BY DEF AddUntilFull
<1> QED BY <1>0, <1>1, <1>2, <1>3, <1>4, <1>5

\* Whatever can be found is finite.
LEMMA CollectionsAreFinite ==
  /\ \A s \in SUBSET (OllamaModels \cup Models) : IsFiniteSet(s) /\ Size(s) \in Nat
  /\ \A s \in SUBSET Gpus : IsFiniteSet(s) /\ Size(s) \in Nat
  /\ \A s \in SUBSET Card : IsFiniteSet(s) /\ Size(s) \in Nat
<1>1. IsFiniteSet(OllamaModels \cup Models) /\ IsFiniteSet(Gpus)
  BY InventoryAssumption, FS_Union
<1>2. IsFiniteSet(Card)
  <2>1. IsFiniteSet(1..Slots)
    BY InventoryAssumption, FS_Interval
  <2> QED BY <1>1, <2>1, FS_Product, Zenon DEF Card
<1> QED BY <1>1, <1>2, FS_Subset, FS_CardinalityType DEF Size

\* The detectors, one after the other, keep the invariant: first those that leave llama.cpp
\* and the models alone.
LEMMA DetectorsKeepInventoryInv ==
  ASSUME InventoryInv,
         \/ DetectCPU \/ DetectMemory \/ DetectGPUs \/ CheckRequired \/ CancelInventory
         \/ UNCHANGED inventoryVars
  PROVE  InventoryInv'
<1> USE DEF InventoryInv, InventoryTypeOK, Sections
<1>1. CASE UNCHANGED inventoryVars
  BY <1>1 DEF inventoryVars, LlamaInv, ModelsInv, ModelsAfter, AtMost
<1>2. CASE DetectCPU \/ DetectMemory
  BY <1>2 DEF DetectCPU, DetectMemory, LlamaInv, ModelsInv
<1>3. CASE DetectGPUs
  <2>1. \A s \in Listings : s \in SUBSET Card /\ ModelsOf(s) \subseteq Gpus
    BY DEF Listings, ModelsOf, Card
  <2>2. LinuxGPUs \subseteq Nat
    <3> SUFFICES ASSUME NEW pci \in Listings, NEW vulkan \in Listings, NEW nvidia \in Listings,
                        NEW recognised \in SUBSET Gpus
                 PROVE  Size(pci) + Size(VulkanAdds(pci, vulkan))
                          + Size(NvidiaAdds(Merged(pci, vulkan), recognised, nvidia)) \in Nat
      BY DEF LinuxGPUs
    <3>1. /\ VulkanAdds(pci, vulkan) \in SUBSET Gpus
          /\ NvidiaAdds(Merged(pci, vulkan), recognised, nvidia) \in SUBSET Gpus
      BY <2>1 DEF VulkanAdds, NvidiaAdds
    <3>2. pci \in SUBSET Card
      BY <2>1
    <3>3. /\ Size(pci) \in Nat /\ Size(VulkanAdds(pci, vulkan)) \in Nat
          /\ Size(NvidiaAdds(Merged(pci, vulkan), recognised, nvidia)) \in Nat
      BY <3>1, <3>2, CollectionsAreFinite
    <3> QED BY <3>3
  <2>3. DarwinGPUs \subseteq Nat
    BY <2>1, CollectionsAreFinite DEF DarwinGPUs
  <2>4. gpus' \in Nat
    BY <1>3, <2>2, <2>3 DEF DetectGPUs
  <2> QED BY <1>3, <2>4 DEF DetectGPUs, LlamaInv, ModelsInv
<1>4. CASE CheckRequired
  BY <1>4 DEF CheckRequired, LlamaInv, ModelsInv, ModelsAfter, AtMost
<1>5. CASE CancelInventory
  BY <1>5 DEF CancelInventory, Cancel, LlamaInv, ModelsInv, ModelsAfter, AtMost
<1> QED BY <1>1, <1>2, <1>3, <1>4, <1>5

\* then the runtimes,
LEMMA RuntimesKeepInventoryInv ==
  ASSUME InventoryInv, DetectRuntimes
  PROVE  InventoryInv'
<1>1. builds' \in [1..Builds -> Build]
  BY DEF DetectRuntimes
<1>2. LlamaInv'
  <2>1. llama' = IF platform = "linux" THEN LinuxLlama(builds') ELSE DarwinLlama(builds')
    BY DEF DetectRuntimes
  <2>2. platform' = platform /\ platform \in {"linux", "darwin"}
    BY DEF DetectRuntimes, InventoryInv, InventoryTypeOK, Platforms
  <2>3. CASE platform = "linux"
    BY <1>1, <2>1, <2>2, <2>3, LinuxLlamaStatus DEF LlamaInv, StatusFits
  <2>4. CASE platform = "darwin"
    BY <1>1, <2>1, <2>2, <2>4, DarwinLlamaStatus DEF LlamaInv
  <2> QED BY <2>2, <2>3, <2>4
<1> QED
  BY <1>1, <1>2 DEF DetectRuntimes, InventoryInv, InventoryTypeOK, Sections, ModelsInv

\* the models that ollama lists,
LEMMA OllamaKeepsInventoryInv ==
  ASSUME InventoryInv, ListOllama
  PROVE  InventoryInv'
<1>1. ollama' \in SUBSET OllamaModels
  BY DEF ListOllama
<1>2. platform = "linux" => models' = ollama'
  BY DEF ListOllama
<1>3. models' \in SUBSET (OllamaModels \cup Models)
  <2>1. \A s : DarwinOllama(s) \subseteq SUBSET s
    BY DEF DarwinOllama, AddUntilFull
  <2> QED BY <2>1 DEF ListOllama
<1>4. Size(ollama') \in Nat /\ ModelLimit \in Nat \ {0}
  BY <1>1, CollectionsAreFinite, InventoryAssumption
<1>5. root = 1 /\ section' = "roots" /\ UNCHANGED <<platform, root, memory, gpus, builds, llama>>
  BY DEF ListOllama, InventoryInv
<1>6. ModelsInv'
  BY <1>2, <1>4, <1>5 DEF ModelsInv, ModelsAfter, AtMost
<1>7. LlamaInv'
  BY <1>5 DEF ListOllama, InventoryInv, LlamaInv
<1> QED
  BY <1>1, <1>3, <1>5, <1>6, <1>7 DEF InventoryInv, InventoryTypeOK, Sections

\* and a directory.
LEMMA SearchKeepsInventoryInv ==
  ASSUME InventoryInv, SearchRoot
  PROVE  InventoryInv'
<1>0. /\ InventoryTypeOK /\ section = "roots"
      /\ Roots \in Nat \ {0} /\ ModelLimit \in Nat \ {0}
  BY InventoryAssumption DEF InventoryInv, SearchRoot
<1> DEFINE Searched(found, have) ==
        IF root = Roots \/ (platform = "darwin" /\ Size(have) >= ModelLimit /\ found # {})
        THEN models' \in Result(have) /\ section' = "check" /\ UNCHANGED root
        ELSE models' = have /\ root' = root + 1 /\ UNCHANGED section
<1>a. PICK found \in Discoverable : \E have \in AddUntilFull(models, found) : Searched(found, have)
  BY DEF SearchRoot
<1>1. PICK have \in AddUntilFull(models, found) : Searched(found, have)
  BY <1>a
<1>2. found \in SUBSET Models
  BY DEF Discoverable, LinuxDiscoverable, DarwinDiscoverable
<1>3. /\ models \in SUBSET (OllamaModels \cup Models)
      /\ IsFiniteSet(found) /\ IsFiniteSet(models)
  BY <1>0, <1>2, CollectionsAreFinite DEF InventoryTypeOK
<1>4. /\ have \subseteq models \cup found /\ Size(have) \in Nat /\ Size(models) \in Nat
      /\ Size(have) <= IF Size(models) >= ModelLimit THEN Size(models) + 1 ELSE ModelLimit
  BY <1>3, AddingIsBounded
<1>5. /\ models' \subseteq have
      /\ platform = "linux" => models' = have
      /\ platform = "darwin" /\ section' = "check" => Size(models') <= ModelLimit
  BY <1>0, <1>1, <1>4 DEF Result
<1>6. UNCHANGED <<platform, memory, gpus, builds, llama, ollama>>
  BY DEF SearchRoot
<1>7. InventoryTypeOK' /\ section' \in {"roots", "check"}
  <2>1. root' \in 1..Roots /\ section' \in {"roots", "check"}
    BY <1>0, <1>1 DEF InventoryTypeOK
  <2>2. models' \in SUBSET (OllamaModels \cup Models)
    BY <1>0, <1>2, <1>4, <1>5 DEF InventoryTypeOK
  <2> QED BY <1>0, <1>6, <2>1, <2>2 DEF InventoryTypeOK, Sections
<1>8. ModelsInv'
  <2>1. ASSUME platform = "linux"
        PROVE  AtMost(Size(models'), Size(ollama'), root)
    <3>1. /\ AtMost(Size(models), Size(ollama), root - 1)
          /\ root \in 1..Roots /\ Size(ollama) \in Nat
      BY <1>0, <2>1, CollectionsAreFinite DEF InventoryInv, ModelsInv, InventoryTypeOK,
         ModelsAfter
    <3>2. Size(models') = Size(have) /\ Size(ollama') = Size(ollama)
      BY <1>5, <1>6, <2>1
    <3>3. root \in Nat /\ root >= 1
      BY <1>0, <3>1
    <3> QED BY <1>0, <1>4, <3>1, <3>2, <3>3 DEF AtMost
  <2>2. CASE section' = "check"
    <3>1. platform = "linux" => root = Roots
      BY <1>0, <1>1, <2>2 DEF InventoryTypeOK
    <3> QED BY <1>5, <1>6, <2>1, <2>2, <3>1 DEF ModelsInv, ModelsAfter
  <2>3. CASE section' = "roots"
    <3>1. root' - 1 = root
      BY <1>0, <1>1, <2>3 DEF InventoryTypeOK
    <3> QED BY <1>6, <2>1, <2>3, <3>1 DEF ModelsInv, ModelsAfter
  <2> QED BY <1>7, <2>2, <2>3
<1>9. LlamaInv'
  BY <1>0, <1>6, <1>7 DEF InventoryInv, LlamaInv
<1> QED
  BY <1>7, <1>8, <1>9 DEF InventoryInv

\* The invariant holds in every reachable state.
THEOREM InventoryInvariant == InventorySpec => []InventoryInv
<1>1. InventoryInit => InventoryInv
  BY InventoryAssumption DEF InventoryInit, InventoryInv, InventoryTypeOK, Sections, Build,
     LlamaInv, ModelsInv
<1>2. InventoryInv /\ [InventoryNext]_inventoryVars => InventoryInv'
  BY DetectorsKeepInventoryInv, RuntimesKeepInventoryInv, OllamaKeepsInventoryInv,
     SearchKeepsInventoryInv DEF InventoryNext
<1> QED
  BY <1>1, <1>2, PTL DEF InventorySpec

\* For any numbers of devices, models, directories and places: what is listed for llama.cpp
\* is what its detector found.
THEOREM LlamaStatusCorrect == InventorySpec => []LlamaStatusIsRight
<1>1. InventoryInv => LlamaStatusIsRight
  BY DEF InventoryInv, LlamaInv, LlamaStatusIsRight, Collected
<1> QED
  BY <1>1, InventoryInvariant, PTL

\* For any limits: an inventory the server refuses lacks the CPU's name, has too many GPUs,
\* or is Linux's, with at most one model past the limit for each directory searched.
THEOREM RefusalsAreExplained == InventorySpec => []RefusalIsExplained
<1>1. ASSUME InventoryInv
      PROVE  RefusalIsExplained
  <2> SUFFICES ASSUME section = "done", ~ValidInventory, cpu, ~(gpus > GpuLimit)
               PROVE  platform = "linux" /\ ModelsAfter(Roots)
    BY InventoryAssumption, CollectionsAreFinite DEF RefusalIsExplained, Collected, ModelsAfter,
       AtMost
  <2>1. /\ gpus \in Nat /\ Size(models) \in Nat /\ GpuLimit \in Nat /\ ModelLimit \in Nat
        /\ memory /\ platform \in {"linux", "darwin"} /\ ModelsInv
    BY <1>1, InventoryAssumption, CollectionsAreFinite DEF InventoryInv, InventoryTypeOK,
       Platforms
  <2> QED
    BY <2>1 DEF ValidInventory, ModelsInv
<1> QED
  BY <1>1, InventoryInvariant, PTL

-------------------------------------------------------------------------------
(* What the network benchmark makes of its samples.                        *)

\* The percentile of the throughput samples, and the median of the connect times.
LEMMA SamplesOf ==
  ASSUME NEW s \in Seq(Nat), Len(s) >= 1
  PROVE  /\ IsFiniteSet(DOMAIN s) /\ DOMAIN s # {} /\ s \in [DOMAIN s -> Nat]
         /\ Cardinality(DOMAIN s) = Len(s)
<1>1. DOMAIN s = 1..Len(s) /\ Len(s) \in Nat
  OBVIOUS
<1>2. IsFiniteSet(DOMAIN s) /\ Cardinality(DOMAIN s) = Len(s)
  BY <1>1, FS_Interval
<1> QED BY <1>1, <1>2

LEMMA PercentileIsNumber ==
  ASSUME NEW s \in Seq(Nat), Len(s) >= 1
  PROVE  Percentile90(s) \in Int
<1> DEFINE index == (Len(s) - 1) * 9
<1>1. /\ index \div 10 + 1 \in 1..Len(s)
      /\ index % 10 # 0 => index \div 10 + 2 \in 1..Len(s)
      /\ index % 10 \in Nat
  OBVIOUS
<1>2. Kth(s, index \div 10 + 1) \in Nat /\ (index % 10 # 0 => Kth(s, index \div 10 + 2) \in Nat)
  BY <1>1, SamplesOf, KthIsSample
<1>3. ASSUME NEW a \in Nat, NEW b \in Nat, NEW r \in Nat
      PROVE  b + ((a - b) * r) \div 10 \in Int
  BY Division
<1> HIDE DEF index
<1>4. Percentile90(s) =
        IF index % 10 = 0 THEN Kth(s, index \div 10 + 1)
        ELSE Kth(s, index \div 10 + 1)
               + ((Kth(s, index \div 10 + 2) - Kth(s, index \div 10 + 1)) * (index % 10)) \div 10
  BY DEF Percentile90, index
<1> QED BY <1>1, <1>2, <1>3, <1>4

LEMMA LatencyIsNumber ==
  ASSUME NEW s \in Seq(Nat), Len(s) >= 1
  PROVE  Latency(s) \in Int
<1>1. TwiceMedian(s) \in Nat
  BY SamplesOf, MedianOf
<1>2. ASSUME NEW m \in Nat
      PROVE  (m * Grain) \div 2 \in Int
  BY GrainAssumption, Division
<1> QED BY <1>1, <1>2 DEF Latency

\* The loop over the probes keeps those that were answered, so that one answer makes the
\* collected connect times a sequence that has a median.
LEMMA AnsweredProbes ==
  ASSUME NEW s \in Seq(Nat)
  PROVE  /\ Answered(s) \in Seq(Nat)
         /\ (\E i \in DOMAIN s : s[i] # Lost) => Len(Answered(s)) >= 1
<1> DEFINE N == Len(s)
           Loop(f) == [n \in 0..N |->
                         IF n = 0 THEN <<>>
                         ELSE IF s[n] = Lost THEN f[n - 1] ELSE Append(f[n - 1], s[n])]
           kept == CHOOSE f : f = Loop(f)
<1>0. N \in Nat /\ DOMAIN s = 1..N /\ \A n \in 1..N : s[n] \in Nat
  OBVIOUS
<1>1. Answered(s) = kept[N]
  BY DEF Answered
<1>2. kept = Loop(kept)
  <2> DEFINE round == [x \in (1..N) \X Seq(Nat) |->
                         IF s[x[1]] = Lost THEN x[2] ELSE Append(x[2], s[x[1]])]
  <2>1. round \in [(1..N) \X Seq(Nat) -> Seq(Nat)]
    <3>1. ASSUME NEW n \in 1..N, NEW q \in Seq(Nat)
          PROVE  (IF s[n] = Lost THEN q ELSE Append(q, s[n])) \in Seq(Nat)
      <4>1. s[n] \in Nat
        BY <1>0
      <4> QED BY <4>1
    <3> QED BY <3>1
  <2>2. PICK f \in [0..N -> Seq(Nat)] :
          f[0] = <<>> /\ \A n \in 1..N : f[n] = round[<<n, f[n - 1]>>]
    <3> DEFINE start == <<>>
    <3>1. start \in Seq(Nat)
      OBVIOUS
    <3> HIDE DEF round, start, N
    <3>2. \E f \in [0..N -> Seq(Nat)] : Rounds(f, N, start, round)
      BY <1>0, <2>1, <3>1, LoopExists, Zenon
    <3>3. start = <<>>
      BY DEF start
    <3> QED BY <3>2, <3>3 DEF Rounds
  <2>3. ASSUME NEW n \in 1..N
        PROVE  f[n] = IF s[n] = Lost THEN f[n - 1] ELSE Append(f[n - 1], s[n])
    <3>1. f[n - 1] \in Seq(Nat)
      BY <1>0
    <3>2. f[n] = round[<<n, f[n - 1]>>]
      BY <2>2
    <3> QED BY <3>1, <3>2
  <2>4. f = Loop(f)
    <3>1. ASSUME NEW n \in 0..N
          PROVE  f[n] = IF n = 0 THEN <<>>
                        ELSE IF s[n] = Lost THEN f[n - 1] ELSE Append(f[n - 1], s[n])
      <4>1. n # 0 => n \in 1..N
        BY <1>0
      <4> HIDE DEF round
      <4> QED BY <2>2, <2>3, <4>1
    <3> HIDE DEF N, round
    <3> QED BY <3>1
  <2> HIDE DEF Loop
  <2> QED BY <2>4
<1> HIDE DEF kept
<1>2a. \A n \in 0..N : kept[n] = IF n = 0 THEN <<>>
                                 ELSE IF s[n] = Lost THEN kept[n - 1]
                                      ELSE Append(kept[n - 1], s[n])
  <2> HIDE DEF N
  <2> QED BY <1>2
<1>3. /\ kept[0] = <<>>
      /\ \A n \in 1..N : kept[n] = IF s[n] = Lost THEN kept[n - 1] ELSE Append(kept[n - 1], s[n])
  <2>1. 0 \in 0..N /\ \A n \in 1..N : n \in 0..N /\ n # 0
    BY <1>0
  <2> HIDE DEF N
  <2> QED BY <1>2a, <2>1
<1> DEFINE Fits(n) == /\ kept[n] \in Seq(Nat)
                      /\ (\E i \in 1..n : s[i] # Lost) => Len(kept[n]) >= 1
           Good == {n \in Nat : n <= N => Fits(n)}
<1>4. 0 \in Good
  <2>1. kept[0] \in Seq(Nat) /\ 1..0 = {}
    BY <1>3
  <2> QED BY <2>1
<1>5. ASSUME NEW n \in Nat, n \in Good
      PROVE  n + 1 \in Good
  <2> HIDE DEF N
  <2> SUFFICES ASSUME n + 1 <= N
               PROVE  Fits(n + 1)
    OBVIOUS
  <2>1. kept[n] \in Seq(Nat) /\ ((\E i \in 1..n : s[i] # Lost) => Len(kept[n]) >= 1)
    BY <1>0, <1>5
  <2>2. n + 1 \in 1..N /\ (n + 1) - 1 = n /\ s[n + 1] \in Nat
    BY <1>0
  <2>3. kept[n + 1] = IF s[n + 1] = Lost THEN kept[n] ELSE Append(kept[n], s[n + 1])
    BY <1>3, <2>2
  <2>4. \A i \in 1..(n + 1) : i \in 1..n \/ i = n + 1
    OBVIOUS
  <2>5. CASE s[n + 1] = Lost
    BY <2>1, <2>3, <2>4, <2>5
  <2>6. CASE s[n + 1] # Lost
    <3>1. kept[n + 1] = Append(kept[n], s[n + 1])
      BY <2>3, <2>6
    <3>2. kept[n + 1] \in Seq(Nat) /\ Len(kept[n + 1]) = Len(kept[n]) + 1
      BY <2>1, <2>2, <3>1
    <3>3. Len(kept[n]) \in Nat
      BY <2>1
    <3> QED BY <3>2, <3>3
  <2> QED BY <2>5, <2>6
<1>6. N \in Good
  <2> HIDE DEF Good, N
  <2> QED BY <1>0, <1>4, <1>5, InductionOnNat
<1> HIDE DEF N
<1> QED BY <1>0, <1>1, <1>6

\* The sum of the changes between neighbours,
LEMMA VariationIsNumber ==
  ASSUME NEW s \in Seq(Nat)
  PROVE  Variation(s) \in Int
<1> DEFINE N == Len(s)
           change(n) == IF n < 2 THEN 0 ELSE Abs(s[n] - s[n - 1])
           Loop(f) == [n \in 0..N |-> IF n < 2 THEN 0 ELSE f[n - 1] + Abs(s[n] - s[n - 1])]
           total == CHOOSE f : f = Loop(f)
<1>0. N \in Nat /\ DOMAIN s = 1..N /\ \A n \in 1..N : s[n] \in Nat
  OBVIOUS
<1>1. Variation(s) = total[N]
  BY DEF Variation
<1>2. ASSUME NEW n \in 1..N, ~(n < 2)
      PROVE  Abs(s[n] - s[n - 1]) \in Int
  <2>1. n - 1 \in 1..N
    BY <1>0, <1>2
  <2>2. s[n] \in Nat /\ s[n - 1] \in Nat
    BY <1>0, <2>1
  <2> QED BY <2>2 DEF Abs
<1>3. total = Loop(total)
  <2> DEFINE round == [x \in (1..N) \X Int |->
                         IF x[1] < 2 THEN 0 ELSE x[2] + Abs(s[x[1]] - s[x[1] - 1])]
  <2>1. round \in [(1..N) \X Int -> Int]
    <3>1. ASSUME NEW n \in 1..N, NEW q \in Int
          PROVE  (IF n < 2 THEN 0 ELSE q + Abs(s[n] - s[n - 1])) \in Int
      BY <1>2
    <3> QED BY <3>1
  <2>2. PICK f \in [0..N -> Int] :
          f[0] = 0 /\ \A n \in 1..N : f[n] = round[<<n, f[n - 1]>>]
    <3> HIDE DEF round, N
    <3>1. \E f \in [0..N -> Int] : Rounds(f, N, 0, round)
      <4>1. 0 \in Int
        OBVIOUS
      <4> QED BY <1>0, <2>1, <4>1, LoopExists, Zenon
    <3> QED BY <3>1 DEF Rounds
  <2>3. ASSUME NEW n \in 1..N
        PROVE  f[n] = IF n < 2 THEN 0 ELSE f[n - 1] + Abs(s[n] - s[n - 1])
    <3>1. f[n - 1] \in Int
      BY <1>0
    <3>2. f[n] = round[<<n, f[n - 1]>>]
      BY <2>2
    <3> QED BY <3>1, <3>2
  <2>4. f = Loop(f)
    <3>1. ASSUME NEW n \in 0..N
          PROVE  f[n] = IF n < 2 THEN 0 ELSE f[n - 1] + Abs(s[n] - s[n - 1])
      <4>1. n = 0 \/ n \in 1..N
        BY <1>0
      <4> HIDE DEF round
      <4> QED BY <2>2, <2>3, <4>1
    <3> HIDE DEF N, round
    <3> QED BY <3>1
  <2> HIDE DEF Loop
  <2> QED BY <2>4
<1> HIDE DEF total
<1> DEFINE Good == {n \in Nat : n <= N => total[n] \in Int}
<1>4. \A n \in 0..N : total[n] = IF n < 2 THEN 0 ELSE total[n - 1] + Abs(s[n] - s[n - 1])
  <2> HIDE DEF N
  <2> QED BY <1>3
<1>5. 0 \in Good
  BY <1>0, <1>4
<1>6. ASSUME NEW n \in Nat, n \in Good
      PROVE  n + 1 \in Good
  <2> HIDE DEF N
  <2> SUFFICES ASSUME n + 1 <= N
               PROVE  total[n + 1] \in Int
    OBVIOUS
  <2>1. total[n] \in Int
    BY <1>0, <1>6
  <2>2. n + 1 \in 1..N /\ n + 1 \in 0..N /\ (n + 1) - 1 = n
    BY <1>0
  <2>3. total[n + 1] = IF n + 1 < 2 THEN 0 ELSE total[n] + Abs(s[n + 1] - s[n])
    BY <1>4, <2>2
  <2>4. CASE n + 1 < 2
    BY <2>3, <2>4
  <2>5. CASE ~(n + 1 < 2)
    <3>1. Abs(s[n + 1] - s[n]) \in Int
      BY <1>2, <2>2, <2>5
    <3> QED BY <2>1, <2>3, <2>5, <3>1
  <2> QED BY <2>4, <2>5
<1>7. N \in Good
  <2> HIDE DEF Good, N
  <2> QED BY <1>0, <1>5, <1>6, InductionOnNat
<1> HIDE DEF N
<1> QED BY <1>0, <1>1, <1>7

LEMMA JitterIsNumber ==
  ASSUME NEW s \in Seq(Nat)
  PROVE  Jitter(s) \in Int
<1>1. Len(s) \in Nat /\ Variation(s) \in Int
  BY VariationIsNumber
<1>2. CASE Len(s) < 2
  BY <1>2 DEF Jitter
<1>3. CASE ~(Len(s) < 2)
  <2>1. Len(s) - 1 \in Nat \ {0}
    <3>1. ASSUME NEW l \in Nat, ~(l < 2) PROVE l - 1 \in Nat \ {0}
      BY <3>1
    <3> QED BY <1>1, <1>3, <3>1
  <2>2. ASSUME NEW v \in Int PROVE v * Grain \in Int
    BY GrainAssumption
  <2>3. Variation(s) * Grain \in Int
    BY <1>1, <2>2
  <2>4. (Variation(s) * Grain) \div (Len(s) - 1) \in Int
    BY <2>1, <2>3, Division
  <2> QED BY <1>3, <2>4 DEF Jitter
<1> QED BY <1>2, <1>3

\* One probe of the at most 20 is at least 5 percent of them.
LEMMA LossOf ==
  ASSUME NEW s \in Seq(Nat), Len(s) = ProbeCount
  PROVE  /\ Loss(s) \in Int
         /\ (\E i \in DOMAIN s : s[i] = Lost) => Loss(s) >= 5
<1> DEFINE lost == {i \in DOMAIN s : s[i] = Lost}
           count == Cardinality(lost)
<1>1. Loss(s) = (100 * count) \div ProbeCount
  BY DEF Loss
<1>2. lost \in SUBSET DOMAIN s
  OBVIOUS
<1>3. IsFiniteSet(lost) /\ count \in Nat
  <2>1. IsFiniteSet(lost) /\ count \in 0..Len(s)
    <3>1. 1 <= Len(s)
      BY BenchmarkAssumption
    <3>2. Cardinality(DOMAIN s) = Len(s) /\ IsFiniteSet(DOMAIN s)
      BY <3>1, SamplesOf
    <3> HIDE DEF lost
    <3> QED BY <1>2, <3>2, SelectionsAreFinite
  <2> HIDE DEF lost, count
  <2> QED BY <2>1
<1>4. ProbeCount \in Nat \ {0} /\ ProbeCount <= 20
  BY BenchmarkAssumption
<1>5. Loss(s) \in Int
  <2> HIDE DEF lost, count
  <2> QED BY <1>1, <1>3, <1>4, Division
<1>6. ASSUME \E i \in DOMAIN s : s[i] = Lost
      PROVE  Loss(s) >= 5
  <2>1. lost # {}
    BY <1>6
  <2>2. count # 0
    <3> HIDE DEF lost
    <3> QED BY <1>3, <2>1, FS_EmptySet
  <2> HIDE DEF lost, count
  <2>3. 5 * ProbeCount <= 100 * count /\ 5 * ProbeCount \in Int /\ 100 * count \in Int
    BY <1>3, <1>4, <2>2
  <2>4. (ProbeCount * 5 + 0) \div ProbeCount = 5
    <3>1. 0 \in 0..(ProbeCount - 1)
      BY <1>4
    <3> QED BY <1>4, <3>1, Quotient
  <2>5. ProbeCount * 5 + 0 = 5 * ProbeCount
    BY <1>4
  <2>6. (5 * ProbeCount) \div ProbeCount <= (100 * count) \div ProbeCount
    BY <1>4, <2>3, DivisionIsMonotone
  <2> QED BY <1>1, <2>4, <2>5, <2>6
<1> QED BY <1>5, <1>6

-------------------------------------------------------------------------------
(* Network benchmark.                                                      *)

ReturnedFits ==
  step = "done" =>
    /\ Len(probes) = ProbeCount
    /\ result \in Measurement /\ result.loss = Loss(probes)
    /\ canceled => \E i \in DOMAIN probes : probes[i] = Lost

BenchmarkInv ==
  /\ step \in Steps
  /\ reach \in [ipv4: BOOLEAN, ipv6: BOOLEAN]
  /\ samples \in Seq(Nat)
  /\ speed \in [download: Int, upload: Int]
  /\ probes \in Seq(Nat)
  /\ step \notin {"probe", "done", "error"} => probes = <<>>
  /\ step = "probe" => Len(probes) < ProbeCount
  /\ PayloadRemoved
  /\ ReturnedFits

LEMMA BenchmarkStartsInv == BenchmarkInit => BenchmarkInv
<1>1. <<>> \in Seq(Nat)
  OBVIOUS
<1> QED
  BY <1>1 DEF BenchmarkInit, BenchmarkInv, Steps, PayloadRemoved, ReturnedFits

\* The commands before the throughput tests,
LEMMA FirstCommandsKeepInv ==
  ASSUME BenchmarkInv, Route \/ Quality \/ ReachIPv4 \/ ReachIPv6
  PROVE  BenchmarkInv'
<1> USE BenchmarkAssumption DEF BenchmarkInv, Steps, PayloadRemoved, ReturnedFits, Fail,
        CleanupUpload
<1>1. CASE Route
  BY <1>1 DEF Route
<1>2. CASE Quality
  <2>1. Speeds \cup {0} \subseteq Int
    OBVIOUS
  <2>2. speed' \in [download: Int, upload: Int]
    BY <1>2, <2>1 DEF Quality
  <2> QED BY <1>2, <2>2 DEF Quality
<1>3. CASE ReachIPv4
  <2>1. CommandOutcomes \subseteq BOOLEAN
    BY DEF CommandOutcomes
  <2> QED BY <1>3, <2>1 DEF ReachIPv4
<1>4. CASE ReachIPv6
  <2>1. CommandOutcomes \subseteq BOOLEAN
    BY DEF CommandOutcomes
  <2>2. 0 < ProbeCount
    OBVIOUS
  <2> QED BY <1>4, <2>1, <2>2 DEF ReachIPv6
<1> QED BY <1>1, <1>2, <1>3, <1>4

\* a sample of one of the two tests,
LEMMA ThroughputKeepsInv ==
  ASSUME BenchmarkInv,
         NEW test \in {"download", "upload"}, NEW next \in {"payload", "warm"},
         Throughput(test, next)
  PROVE  BenchmarkInv'
<1>1. CASE Fail /\ UNCHANGED <<samples, speed>>
  BY <1>1 DEF Throughput, Fail, CleanupUpload, BenchmarkInv, Steps, PayloadRemoved, ReturnedFits
<1>2. CASE ~(Fail /\ UNCHANGED <<samples, speed>>)
  <2>1. PICK mbps \in Speeds :
          LET all == Append(samples, mbps)
          IN IF Len(all) < SampleCount
             THEN samples' = all /\ UNCHANGED <<step, speed>>
             ELSE /\ samples' = <<>>
                  /\ speed' = [speed EXCEPT ![test] = Percentile90(all)]
                  /\ step' = next
    BY <1>2 DEF Throughput
  <2> DEFINE all == Append(samples, mbps)
  <2>2. mbps \in Nat
    BY BenchmarkAssumption
  <2>3. all \in Seq(Nat) /\ Len(all) >= 1
    BY <2>2 DEF BenchmarkInv
  <2>4. Percentile90(all) \in Int
    <3> HIDE DEF all
    <3> QED BY <2>3, PercentileIsNumber
  <2>5. samples' \in Seq(Nat) /\ speed' \in [download: Int, upload: Int]
    <3>1. speed \in [download: Int, upload: Int] /\ <<>> \in Seq(Nat)
      BY DEF BenchmarkInv
    <3> HIDE DEF all
    <3>2. CASE Len(all) < SampleCount
      BY <2>1, <2>3, <3>1, <3>2 DEF all
    <3>3. CASE ~(Len(all) < SampleCount)
      <4>1. samples' = <<>> /\ speed' = [speed EXCEPT ![test] = Percentile90(all)]
        BY <2>1, <3>3 DEF all
      <4> QED BY <2>4, <3>1, <4>1
    <3> QED BY <3>2, <3>3
  <2>6. step = test /\ step' \in {test, next}
    BY <2>1 DEF Throughput
  <2>7. UNCHANGED <<platform, canceled, reach, probes, payload, result>>
    BY <1>2 DEF Throughput
  <2> QED
    BY <2>5, <2>6, <2>7 DEF BenchmarkInv, Steps, PayloadRemoved, ReturnedFits
<1> QED BY <1>1, <1>2

\* the upload file and the warm-up,
LEMMA PayloadAndWarmKeepInv ==
  ASSUME BenchmarkInv, CreatePayload \/ Warm
  PROVE  BenchmarkInv'
<1>1. 0 < ProbeCount /\ Len(<<>>) = 0
  BY BenchmarkAssumption
<1>2. CASE CreatePayload
  BY <1>2 DEF CreatePayload, BenchmarkInv, Steps, PayloadRemoved, ReturnedFits
<1>3. CASE Warm
  BY <1>1, <1>3 DEF Warm, BenchmarkInv, Steps, PayloadRemoved, ReturnedFits
<1> QED BY <1>2, <1>3

\* The summary of a full set of probes, one of them answered, is a measurement.
LEMMA SummaryIsMeasurement ==
  ASSUME NEW s \in Seq(Nat), Len(s) = ProbeCount, \E i \in DOMAIN s : s[i] # Lost,
         reach \in [ipv4: BOOLEAN, ipv6: BOOLEAN], speed \in [download: Int, upload: Int]
  PROVE  Summary(s) \in Measurement /\ Summary(s).loss = Loss(s)
<1> DEFINE heard == Answered(s)
<1>1. heard \in Seq(Nat) /\ Len(heard) >= 1
  BY AnsweredProbes
<1> HIDE DEF heard
<1>2. Latency(heard) \in Int /\ Jitter(heard) \in Int /\ Loss(s) \in Int
  BY <1>1, LatencyIsNumber, JitterIsNumber, LossOf
<1>3. Summary(s) = [ipv4 |-> reach.ipv4, ipv6 |-> reach.ipv6, download |-> speed.download,
                    upload |-> speed.upload, latency |-> Latency(heard),
                    jitter |-> Jitter(heard), loss |-> Loss(s)]
  BY DEF Summary, heard
<1>4. /\ reach.ipv4 \in BOOLEAN /\ reach.ipv6 \in BOOLEAN
      /\ speed.download \in Int /\ speed.upload \in Int
  OBVIOUS
<1> QED BY <1>2, <1>3, <1>4 DEF Measurement

\* and a probe.
LEMMA ProbeKeepsInv ==
  ASSUME BenchmarkInv, Probe
  PROVE  BenchmarkInv'
<1>1. PICK t \in ProbeOutcomes :
        LET all == Append(probes, t)
        IN /\ probes' = all
           /\ IF Len(all) < ProbeCount THEN UNCHANGED <<step, payload, result>>
              ELSE IF \A i \in DOMAIN all : all[i] = Lost THEN Fail /\ UNCHANGED result
              ELSE step' = "done" /\ CleanupUpload /\ result' = Summary(all)
  BY DEF Probe
<1> DEFINE all == Append(probes, t)
<1>2. t \in Nat /\ (canceled => t = Lost)
  BY BenchmarkAssumption DEF ProbeOutcomes, Lost
<1>3. step = "probe" /\ UNCHANGED <<platform, canceled, reach, samples, speed>>
  BY DEF Probe
<1>4. probes \in Seq(Nat) /\ Len(probes) < ProbeCount
  BY <1>3 DEF BenchmarkInv
<1>5. /\ all \in Seq(Nat) /\ Len(all) = Len(probes) + 1
      /\ Len(all) \in DOMAIN all /\ all[Len(all)] = t
  BY <1>2, <1>4
<1>6. Len(all) <= ProbeCount
  BY <1>4, <1>5, BenchmarkAssumption
<1>7. probes' = all
  BY <1>1
<1>8. CASE Len(all) < ProbeCount
  <2>1. UNCHANGED <<step, payload, result>>
    BY <1>1, <1>8
  <2> HIDE DEF all
  <2> QED
    BY <1>3, <1>5, <1>7, <1>8, <2>1 DEF BenchmarkInv, Steps, PayloadRemoved, ReturnedFits
<1>9. CASE ~(Len(all) < ProbeCount) /\ \A i \in DOMAIN all : all[i] = Lost
  <2>1. Fail
    BY <1>1, <1>9
  <2> HIDE DEF all
  <2> QED
    BY <1>3, <1>5, <1>7, <2>1
    DEF Fail, CleanupUpload, BenchmarkInv, Steps, PayloadRemoved, ReturnedFits
<1>10. CASE ~(Len(all) < ProbeCount) /\ ~(\A i \in DOMAIN all : all[i] = Lost)
  <2>1. step' = "done" /\ CleanupUpload /\ result' = Summary(all)
    BY <1>1, <1>10
  <2> HIDE DEF all
  <2>2. Len(all) = ProbeCount
    BY <1>4, <1>5, <1>6, <1>10, BenchmarkAssumption
  <2>3. Summary(all) \in Measurement /\ Summary(all).loss = Loss(all)
    BY <1>5, <1>10, <2>2, SummaryIsMeasurement DEF BenchmarkInv
  <2>4. ReturnedFits'
    <3>1. Loss(probes)' = Loss(all)
      BY <1>7 DEF Loss
    <3> QED BY <1>2, <1>3, <1>5, <1>7, <2>1, <2>2, <2>3, <3>1 DEF ReturnedFits
  <2> QED
    BY <1>3, <1>5, <1>7, <2>1, <2>4 DEF CleanupUpload, BenchmarkInv, Steps, PayloadRemoved
<1> QED BY <1>8, <1>9, <1>10

\* What a returned benchmark says follows from the probes that are in it.
THEOREM BenchmarkInvariant == BenchmarkSpec => []BenchmarkInv
<1>1. ASSUME BenchmarkInv, [BenchmarkNext]_benchmarkVars
      PROVE  BenchmarkInv'
  <2>1. CASE CancelBenchmark
    BY <1>1, <2>1 DEF CancelBenchmark, Cancel, BenchmarkInv, PayloadRemoved, ReturnedFits
  <2>2. CASE UNCHANGED benchmarkVars
    <3>1. Loss(probes)' = Loss(probes)
      BY <2>2 DEF benchmarkVars, Loss
    <3> QED BY <1>1, <2>2, <3>1 DEF benchmarkVars, BenchmarkInv, PayloadRemoved, ReturnedFits
  <2>3. CASE Download \/ Upload
    BY <1>1, <2>3, ThroughputKeepsInv DEF Download, Upload
  <2> QED
    BY <1>1, <2>1, <2>2, <2>3, FirstCommandsKeepInv, PayloadAndWarmKeepInv, ProbeKeepsInv
    DEF BenchmarkNext
<1> QED
  BY <1>1, BenchmarkStartsInv, PTL DEF BenchmarkSpec

\* The deferred cleanup is never skipped, whichever command fails.
THEOREM UploadFileIsRemoved == BenchmarkSpec => []PayloadRemoved
<1>1. BenchmarkInv => PayloadRemoved
  BY DEF BenchmarkInv
<1> QED
  BY <1>1, BenchmarkInvariant, PTL

\* A lost probe costs all 30 points of loss, whatever the probe count up to 20.
THEOREM LostProbe == BenchmarkSpec => []LostProbeCapsScore
<1>1. BenchmarkInv => LostProbeCapsScore
  <2> SUFFICES ASSUME BenchmarkInv, step = "done", Lost \in {probes[i] : i \in DOMAIN probes}
               PROVE  CalculateNetworkScore(result) <= 70
    BY DEF LostProbeCapsScore, Returned
  <2>1. probes \in Seq(Nat) /\ Len(probes) = ProbeCount
        /\ result \in Measurement /\ result.loss = Loss(probes)
    BY DEF BenchmarkInv, ReturnedFits
  <2>2. Loss(probes) >= 5
    BY <2>1, LossOf
  <2> QED BY <2>1, <2>2, ScoreOf
<1> QED
  BY <1>1, BenchmarkInvariant, PTL

\* A canceled collection that returns a benchmark returns one with losses.
THEOREM CancellationShows == BenchmarkSpec => []CancelShowsAsLoss
<1>1. BenchmarkInv => CancelShowsAsLoss
  <2> SUFFICES ASSUME BenchmarkInv, step = "done", canceled
               PROVE  result.loss > 0
    BY DEF CancelShowsAsLoss, Returned
  <2>1. probes \in Seq(Nat) /\ Len(probes) = ProbeCount /\ result.loss = Loss(probes)
        /\ \E i \in DOMAIN probes : probes[i] = Lost
    BY DEF BenchmarkInv, ReturnedFits
  <2>2. Loss(probes) >= 5 /\ Loss(probes) \in Int
    BY <2>1, LossOf
  <2> QED BY <2>1, <2>2
<1> QED
  BY <1>1, BenchmarkInvariant, PTL

\* The score of what the agent returns is monotone in every one of its measurements.
THEOREM BetterNetwork == BenchmarkSpec => []BetterNetworkScoresHigher
<1>1. BenchmarkInv => BetterNetworkScoresHigher
  <2> SUFFICES ASSUME BenchmarkInv, step = "done", NEW c \in Improvements(result)
               PROVE  CalculateNetworkScore(c) >= CalculateNetworkScore(result)
    BY DEF BetterNetworkScoresHigher, Returned
  <2>1. result \in Measurement
    BY DEF BenchmarkInv, ReturnedFits
  <2>2. c \in Measurement /\ Better(c, result)
    <3>1. Speeds \subseteq Int /\ Latencies \subseteq Int /\ Losses \subseteq Int
      BY BenchmarkAssumption
    <3>2. \/ \E v \in Speeds : v >= result.download /\ c = [result EXCEPT !.download = v]
          \/ \E v \in Speeds : v >= result.upload /\ c = [result EXCEPT !.upload = v]
          \/ \E v \in Latencies : v <= result.latency /\ c = [result EXCEPT !.latency = v]
          \/ \E v \in Latencies : v <= result.jitter /\ c = [result EXCEPT !.jitter = v]
          \/ \E v \in Losses : v <= result.loss /\ c = [result EXCEPT !.loss = v]
          \/ c = [result EXCEPT !.ipv4 = TRUE]
          \/ c = [result EXCEPT !.ipv6 = TRUE]
      BY DEF Improvements
    <3>3. /\ result.download \in Int /\ result.upload \in Int /\ result.latency \in Int
          /\ result.jitter \in Int /\ result.loss \in Int
      BY <2>1 DEF Measurement
    <3>4. CASE \E v \in Speeds : v >= result.download /\ c = [result EXCEPT !.download = v]
      BY <2>1, <3>1, <3>3, <3>4 DEF Measurement, Better
    <3>5. CASE \E v \in Speeds : v >= result.upload /\ c = [result EXCEPT !.upload = v]
      BY <2>1, <3>1, <3>3, <3>5 DEF Measurement, Better
    <3>6. CASE \E v \in Latencies : v <= result.latency /\ c = [result EXCEPT !.latency = v]
      BY <2>1, <3>1, <3>3, <3>6 DEF Measurement, Better
    <3>7. CASE \E v \in Latencies : v <= result.jitter /\ c = [result EXCEPT !.jitter = v]
      BY <2>1, <3>1, <3>3, <3>7 DEF Measurement, Better
    <3>8. CASE \E v \in Losses : v <= result.loss /\ c = [result EXCEPT !.loss = v]
      BY <2>1, <3>1, <3>3, <3>8 DEF Measurement, Better
    <3>9. CASE c = [result EXCEPT !.ipv4 = TRUE]
      <4>1. c.ipv4 = TRUE /\ c.ipv6 = result.ipv6
        BY <2>1, <3>9 DEF Measurement
      <4>2. /\ c.download >= result.download /\ c.upload >= result.upload
            /\ c.latency <= result.latency /\ c.jitter <= result.jitter
            /\ c.loss <= result.loss
        BY <2>1, <3>3, <3>9 DEF Measurement
      <4>3. c \in Measurement
        BY <2>1, <3>9 DEF Measurement
      <4> QED BY <4>1, <4>2, <4>3, Zenon DEF Better
    <3>10. CASE c = [result EXCEPT !.ipv6 = TRUE]
      <4>1. c.ipv6 = TRUE /\ c.ipv4 = result.ipv4
        BY <2>1, <3>10 DEF Measurement
      <4>2. /\ c.download >= result.download /\ c.upload >= result.upload
            /\ c.latency <= result.latency /\ c.jitter <= result.jitter
            /\ c.loss <= result.loss
        BY <2>1, <3>3, <3>10 DEF Measurement
      <4>3. c \in Measurement
        BY <2>1, <3>10 DEF Measurement
      <4> QED BY <4>1, <4>2, <4>3, Zenon DEF Better
    <3> QED BY <3>2, <3>4, <3>5, <3>6, <3>7, <3>8, <3>9, <3>10
  <2>3. CalculateNetworkScore(result) <= CalculateNetworkScore(c)
    BY <2>1, <2>2, ScoreIsMonotone
  <2>4. CalculateNetworkScore(result) \in Int /\ CalculateNetworkScore(c) \in Int
    BY <2>1, <2>2, ScoreOf
  <2> QED BY <2>3, <2>4
<1> QED
  BY <1>1, BenchmarkInvariant, PTL

===============================================================================
