--------------------------- MODULE ProviderControls ---------------------------
(***************************************************************************)
(* The owner's resource controls of agent/provider_controls.go: whether a  *)
(* prospective workload is admitted, given the owner's ceilings, sharing   *)
(* window, pause and policy for the return of the local user.              *)
(*                                                                         *)
(* The functions keep no state.  Their arguments are the state here; a     *)
(* step of the owner, of the clock, of the local user or of the market     *)
(* changes one of them, so that a property can compare two decisions.      *)
(***************************************************************************)
EXTENDS Integers

CONSTANTS
  Percentages,  \* the resources measured in percent: GPU, CPU
  Sizes,        \* the resources measured in bytes: VRAM, RAM
  Percents,     \* percentages that are tried, as ceilings and as requests
  Bytes,        \* byte counts that are tried; unsigned in the code
  Hours         \* hours that are tried, as bounds of the window and as local time

\* Go's int and uint64; an int can be negative or past its range, and is then refused.
ASSUME ControlsAssumption == Percents \subseteq Int /\ Bytes \subseteq Nat /\ Hours \subseteq Int

VARIABLES
  limit,        \* MaxGPUPercent, MaxVRAMBytes, MaxRAMBytes, MaxCPUPercent
  allowed,      \* AllowedStartHour, AllowedEndHour
  manualPause,  \* ManualPause
  mode,         \* Mode
  localReturn,  \* LocalReturnBehavior
  request,      \* ProviderWorkloadResources
  localHour,    \* the local wall-clock hour
  userActive    \* localUserActive

policy == <<manualPause, mode, localReturn>>
controlVars == <<limit, allowed, policy, request, localHour, userActive>>

Resources == Percentages \cup Sizes
Modes == {"normal", "away", "maximum-earnings"}
LocalReturns == {"stop-new-work", "continue"}

InRange(low, high, x) == low <= x /\ x <= high

-------------------------------------------------------------------------------

ValidateProviderResourceControls ==
  /\ \A p \in Percentages : InRange(0, 100, limit[p])
  /\ InRange(0, 23, allowed.start) /\ InRange(0, 23, allowed.end)
  /\ mode \in Modes
  /\ localReturn \in LocalReturns

\* Seeded fault: a ceiling of zero is taken for "no ceiling".
WithinUnlessZero(r) ==
  /\ r \in Percentages => InRange(0, 100, request[r])
  /\ limit[r] = 0 \/ request[r] <= limit[r]

\* No limitation is added for resource r.
Within(r) == (r \in Percentages => InRange(0, 100, request[r])) /\ request[r] <= limit[r]

EvaluateProviderResourceRequest == \A r \in Resources : Within(r)

EvaluateProviderNewWork ==
  ValidateProviderResourceControls /\ ~manualPause /\ EvaluateProviderResourceRequest

\* Seeded fault: the end hour of an overnight window belongs to the window.
HourAllowedInclusive(start, end, h) ==
  /\ InRange(0, 23, h)
  /\ \/ start = end
     \/ start < end /\ start <= h /\ h < end
     \/ start > end /\ (start <= h \/ h <= end)

IsProviderHourAllowed(start, end, h) ==
  /\ InRange(0, 23, h)
  /\ \/ start = end
     \/ start < end /\ start <= h /\ h < end
     \/ start > end /\ (start <= h \/ h < end)

EvaluateProviderNewWorkAtHour ==
  IsProviderHourAllowed(allowed.start, allowed.end, localHour) /\ EvaluateProviderNewWork

EvaluateProviderNewWorkWithActivity ==
  ~(userActive /\ localReturn = "stop-new-work") /\ EvaluateProviderNewWorkAtHour

-------------------------------------------------------------------------------

Amounts(r) == IF r \in Percentages THEN Percents ELSE Bytes

OwnerSetsLimit(r) ==
  /\ \E a \in Amounts(r) : limit' = [limit EXCEPT ![r] = a]
  /\ UNCHANGED <<allowed, policy, request, localHour, userActive>>

OwnerSetsWindow ==
  /\ \E s, e \in Hours : allowed' = [start |-> s, end |-> e]
  /\ UNCHANGED <<limit, policy, request, localHour, userActive>>

\* A value that is neither a mode nor a behaviour can stand in a configuration, too.
OwnerSetsPolicy ==
  /\ \/ manualPause' = ~manualPause /\ UNCHANGED <<mode, localReturn>>
     \/ mode' \in Modes \cup {"unsupported"} /\ UNCHANGED <<manualPause, localReturn>>
     \/ localReturn' \in LocalReturns \cup {"unsupported"} /\ UNCHANGED <<manualPause, mode>>
  /\ UNCHANGED <<limit, allowed, request, localHour, userActive>>

MarketAsks(r) ==
  /\ \E a \in Amounts(r) : request' = [request EXCEPT ![r] = a]
  /\ UNCHANGED <<limit, allowed, policy, localHour, userActive>>

HourChanges ==
  /\ localHour' \in Hours
  /\ UNCHANGED <<limit, allowed, policy, request, userActive>>

LocalUserComesOrGoes ==
  /\ userActive' = ~userActive
  /\ UNCHANGED <<limit, allowed, policy, request, localHour>>

ControlsInit ==
  /\ limit = [r \in Resources |-> 0]
  /\ allowed = [start |-> 0, end |-> 0]
  /\ manualPause = FALSE
  /\ mode = "normal"
  /\ localReturn = "stop-new-work"
  /\ request = [r \in Resources |-> 0]
  /\ localHour = 0
  /\ userActive = FALSE

ControlsNext ==
  \/ \E r \in Resources : OwnerSetsLimit(r) \/ MarketAsks(r)
  \/ OwnerSetsWindow \/ OwnerSetsPolicy
  \/ HourChanges \/ LocalUserComesOrGoes

ControlsSpec == ControlsInit /\ [][ControlsNext]_controlVars

-------------------------------------------------------------------------------
(* Properties.                                                             *)

\* The sharing window of IsProviderHourAllowed is the arc of the clock that begins at the
\* start hour and ends before the end hour, across midnight too: an hour is allowed if it
\* is reached from the start before the end is.  Swapping the two hours shares exactly
\* the rest of the day; equal hours share all of it, never nothing.
WindowIsAnArc ==
  LET s == allowed.start
      e == allowed.end
  IN InRange(0, 23, s) /\ InRange(0, 23, e) =>
       \A h \in 0..23 :
         /\ IsProviderHourAllowed(s, e, h) <=> s = e \/ (h - s) % 24 < (e - s) % 24
         /\ s # e => (IsProviderHourAllowed(s, e, h) <=> ~IsProviderHourAllowed(e, s, h))

\* Whatever is admitted stays admitted when the owner only raises ceilings, lifts the
\* pause, lets work continue on return or changes the mode, when the request only
\* shrinks, or when the local user leaves: no ceiling acts as a floor, zero included, and
\* no mode takes work away or lets work past a ceiling (docs/milestone11.md, step 2).
Loosens ==
  /\ \A r \in Resources : limit'[r] >= limit[r] /\ request'[r] <= request[r]
  /\ manualPause' => manualPause
  /\ userActive' => userActive
  /\ localReturn' = "stop-new-work" => localReturn = "stop-new-work"
  /\ allowed' = allowed /\ localHour' = localHour
  /\ ValidateProviderResourceControls'
  /\ \A p \in Percentages : request'[p] >= 0
LooserNeverRefuses ==
  [][Loosens /\ EvaluateProviderNewWorkWithActivity
       => EvaluateProviderNewWorkWithActivity']_controlVars

===============================================================================
