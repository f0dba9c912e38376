----------------------- MODULE ProviderFailoverProofs -----------------------
(***************************************************************************)
(* The ways to the fallback and back to the primary, for every window, probe *)
(* interval and number of answers under way.  Leaving needs that the window  *)
(* is as old as the first of the counted failures: FailureInv.  Returning     *)
(* needs that recoverySuccessCount_ is the number of successes in a row since *)
(* the switch: RecoveryInv.                                                   *)
(***************************************************************************)
EXTENDS ProviderFailover, TLAPS

\* recoverySuccessCount_ counts the successes in a row, and only while the primary is
\* out of use.
RecoveryInv ==
  /\ failover \in Failover
  /\ succeeded \in Seq({"QUOTE", "PROBE"})
  /\ failover.recovery = IF Active = TENCENT THEN 0 ELSE Len(succeeded)

LEMMA InitRecovery == Init => RecoveryInv
BY DEF Init, RecoveryInv, InitialFailover, Failover, FailureLimit, RecoveryLimit, Active

\* recordSuccess() ends the recovery, or counts one more success of it.
LEMMA SuccessRecovers ==
  ASSUME RecoveryInv, NEW kind \in {"QUOTE", "PROBE"}, RecordSuccess(kind)
  PROVE  /\ RecoveryInv'
         /\ Active = EAST_MONEY /\ failover'.active = TENCENT => Len(succeeded') = RecoveryLimit
<1>1. /\ failover.active \in {TENCENT, EAST_MONEY} /\ TENCENT # EAST_MONEY
      /\ failover.recovery \in {0, 1} /\ failover \in Failover /\ RecoveryLimit = 2
  <2>1. failover \in Failover /\ 0..RecoveryLimit - 1 = {0, 1}
    BY DEF RecoveryInv, RecoveryLimit
  <2>. QED BY <2>1 DEF Failover, RecoveryLimit, TENCENT, EAST_MONEY
<1>2. CASE Active = TENCENT
  <2>1. failover' = InitialFailover /\ succeeded' = <<>>
    BY <1>2 DEF RecordSuccess, AfterSuccess, Active
  <2>. QED BY <1>1, <1>2, <2>1 DEF RecoveryInv, InitialFailover, Failover, FailureLimit, Active
<1>3. CASE Active = EAST_MONEY
  <2>1. succeeded' = Append(succeeded, kind) /\ succeeded' \in Seq({"QUOTE", "PROBE"})
        /\ Len(succeeded') = failover.recovery + 1
    BY <1>1, <1>3 DEF RecordSuccess, RecoveryInv
  <2>2. CASE failover.recovery = 1
    <3>1. failover' = InitialFailover
      BY <1>1, <1>3, <2>2 DEF RecordSuccess, AfterSuccess, Active
    <3>. QED BY <1>1, <2>1, <2>2, <3>1 DEF RecoveryInv, InitialFailover, Failover, FailureLimit, Active
  <2>3. CASE failover.recovery = 0
    <3>1. failover' = [failover EXCEPT !.recovery = @ + 1]
      BY <1>1, <1>3, <2>3 DEF RecordSuccess, AfterSuccess, Active
    <3>2. failover' \in Failover /\ failover'.active = EAST_MONEY /\ failover'.recovery = 1
      BY <1>1, <1>3, <2>3, <3>1 DEF Failover, Active
    <3>. QED BY <1>1, <2>1, <2>3, <3>2 DEF RecoveryInv, Active
  <2>. QED BY <1>1, <2>2, <2>3
<1>. QED BY <1>1, <1>2, <1>3 DEF Active

\* recordFailure() starts the count over and never returns to the primary.
LEMMA FailureStartsOver ==
  ASSUME RecoveryInv, RecordFailure
  PROVE  RecoveryInv' /\ (Active = EAST_MONEY => failover'.active = EAST_MONEY)
<1>1. /\ failover.active \in {TENCENT, EAST_MONEY} /\ TENCENT # EAST_MONEY
      /\ failover \in Failover /\ failover.failures \in 0..3
  BY DEF RecoveryInv, Failover, FailureLimit, TENCENT, EAST_MONEY
<1>2. succeeded' = <<>> /\ failover' = AfterFailure(failover, TENCENT, InWindow)
  BY DEF RecordFailure
<1>3. CASE Active = EAST_MONEY
  <2>1. failover' = [failover EXCEPT !.recovery = 0]
    BY <1>1, <1>2, <1>3 DEF AfterFailure, Active
  <2>2. failover' \in Failover /\ failover'.active = EAST_MONEY /\ failover'.recovery = 0
    BY <1>1, <1>3, <2>1 DEF Failover, RecoveryLimit, Active
  <2>. QED BY <1>1, <1>2, <2>2 DEF RecoveryInv, Active
<1>4. CASE Active = TENCENT
  <2>1. CASE CountFailure(failover, InWindow) >= FailureLimit
    <3>1. failover' = [active |-> EAST_MONEY, failures |-> FailureLimit, recovery |-> 0]
      BY <1>1, <1>2, <1>4, <2>1 DEF AfterFailure, Active
    <3>. QED BY <1>1, <1>2, <1>4, <3>1 DEF RecoveryInv, Failover, FailureLimit, RecoveryLimit, Active
  <2>2. CASE ~(CountFailure(failover, InWindow) >= FailureLimit)
    <3>1. failover' = [failover EXCEPT !.failures = CountFailure(failover, InWindow)]
      BY <1>1, <1>2, <1>4, <2>2 DEF AfterFailure, Active
    <3>2. CountFailure(failover, InWindow) \in 0..3
      BY <1>1, <2>2 DEF CountFailure, FailureLimit
    <3>3. failover' \in Failover /\ failover'.active = TENCENT /\ failover'.recovery = failover.recovery
      BY <1>1, <1>4, <3>1, <3>2 DEF Failover, FailureLimit, Active
    <3>. QED BY <1>1, <1>2, <1>4, <3>3 DEF RecoveryInv, Active
  <2>. QED BY <1>1, <1>4, <2>1, <2>2
<1>. QED BY <1>1, <1>3, <1>4 DEF Active

\* One step, in or out of the class.
LEMMA NextRecovery ==
  ASSUME RecoveryInv, [Next]_vars
  PROVE  /\ RecoveryInv'
         /\ Active = EAST_MONEY /\ failover'.active = TENCENT => Len(succeeded') = RecoveryLimit
<1>1. TENCENT # EAST_MONEY
  BY DEF TENCENT, EAST_MONEY
<1>2. CASE UNCHANGED <<failover, succeeded>>
  BY <1>1, <1>2 DEF RecoveryInv, Active
<1>3. ASSUME NEW kind \in {"QUOTE", "PROBE"}, NEW error \in Errors, Record(kind, error)
      PROVE  /\ RecoveryInv'
             /\ Active = EAST_MONEY /\ failover'.active = TENCENT => Len(succeeded') = RecoveryLimit
  <2>1. error \in {"NONE", "NETWORK", "CANCELLED"}
    BY DEF Errors
  <2>2. RecordSuccess(kind) \/ RecordFailure \/ UNCHANGED <<classVars, historyVars>>
    BY <1>3, <2>1 DEF Record
  <2>. QED BY <1>1, <1>2, <2>2, SuccessRecovers, FailureStartsOver DEF classVars, historyVars
<1>. QED BY <1>2, <1>3
     DEF Next, AskQuote, QuoteAnswered, AskProbe, ProbeAnswered, HealthChanges, Tick, ClockWraps,
         vars, classVars, historyVars

\* The primary comes back only on its second success in a row since it was left, however
\* late and in whatever order the answers come and even if millis() wraps
\* (recordSuccess(), recordFailure()).
THEOREM ReturnIsEarned == Spec => ReturnOnlyAfterTwoSuccesses
<1>1. RecoveryInv /\ [Next]_vars
        => [Active = EAST_MONEY /\ failover'.active = TENCENT => Len(succeeded') = RecoveryLimit]_vars
  BY NextRecovery
<1>. QED BY <1>1, InitRecovery, NextRecovery, PTL DEF Spec, ReturnOnlyAfterTwoSuccesses

-----------------------------------------------------------------------------
(* Leaving the primary *)

\* As long as the window is open, its age is that of the first failure counted in it,
\* which is the primaryFailureCount_-th latest one.
FailureInv ==
  /\ failover \in Failover
  /\ windowAge \in 0..AgeCap /\ failed \in [1..FailureLimit -> 0..Old]
  /\ Active = TENCENT => failover.failures < FailureLimit
  /\ Active = TENCENT /\ failover.failures > 0 /\ windowAge <= Window
       => failed[failover.failures] = windowAge

\* The numbers, and what a step of the class starts from.
LEMMA Numbers ==
  /\ FailureLimit = 3 /\ RecoveryLimit = 2 /\ TENCENT # EAST_MONEY
  /\ Window \in Nat /\ AgeCap \in Nat /\ Window < AgeCap
  /\ Old = Window + 1 /\ Old \in Nat
BY FailoverAssumption DEF FailureLimit, RecoveryLimit, TENCENT, EAST_MONEY, Old

LEMMA InitFailures == Init => FailureInv
<1>1. NoFailure \in [1..FailureLimit -> 0..Old]
  BY Numbers DEF NoFailure
<1>. QED BY <1>1, Numbers DEF Init, FailureInv, InitialFailover, Failover, Active

\* A success forgets the failures.
LEMMA SuccessForgets ==
  ASSUME FailureInv, NEW kind, RecordSuccess(kind)
  PROVE  FailureInv' /\ ~(Active = TENCENT /\ failover'.active = EAST_MONEY)
<1>1. failed' = NoFailure /\ NoFailure \in [1..FailureLimit -> 0..Old] /\ windowAge' \in 0..AgeCap
  BY Numbers DEF RecordSuccess, NoFailure, FailureInv
<1>2. failover' = InitialFailover \/ (Active = EAST_MONEY /\ failover.recovery + 1 < RecoveryLimit
                                      /\ failover' = [failover EXCEPT !.recovery = @ + 1])
  BY Numbers DEF RecordSuccess, AfterSuccess, FailureInv, Failover, Active
<1>3. CASE failover' = InitialFailover
  BY <1>1, <1>3, Numbers DEF FailureInv, InitialFailover, Failover, Active
<1>4. CASE Active = EAST_MONEY /\ failover.recovery + 1 < RecoveryLimit
           /\ failover' = [failover EXCEPT !.recovery = @ + 1]
  <2>1. failover' \in Failover /\ failover'.active = EAST_MONEY
    BY <1>4, Numbers DEF FailureInv, Failover, Active
  <2>. QED BY <1>1, <1>4, <2>1, Numbers DEF FailureInv, Active
<1>. QED BY <1>2, <1>3, <1>4

\* A failure opens a window or is counted in the one that is open; the third one in it
\* leaves the primary.
LEMMA FailureCounts ==
  ASSUME FailureInv, RecordFailure
  PROVE  /\ FailureInv'
         /\ Active = TENCENT /\ failover'.active = EAST_MONEY => failed'[FailureLimit] # Old
<1>1. failover' = AfterFailure(failover, TENCENT, InWindow)
  BY DEF RecordFailure
<1>2. CASE Active = EAST_MONEY
  <2>1. failover' = [failover EXCEPT !.recovery = 0] /\ failed' = failed /\ windowAge' = windowAge
    BY <1>1, <1>2, Numbers DEF RecordFailure, AfterFailure, Active
  <2>2. failover' \in Failover /\ failover'.active = EAST_MONEY
    BY <1>2, <2>1, Numbers DEF FailureInv, Failover, Active
  <2>. QED BY <1>2, <2>1, <2>2, Numbers DEF FailureInv, Active
<1>3. CASE Active = TENCENT
  <2> DEFINE count  == CountFailure(failover, InWindow)
             opened == failover.failures = 0 \/ ~InWindow
  <2>1. /\ failed' = [n \in 1..FailureLimit |-> IF n = 1 THEN 0 ELSE failed[n - 1]]
        /\ windowAge' = IF opened THEN 0 ELSE windowAge
    BY <1>3 DEF RecordFailure
  <2>2. failed' \in [1..FailureLimit -> 0..Old] /\ failed'[1] = 0 /\ windowAge' \in 0..AgeCap
    BY <2>1, Numbers DEF FailureInv
  <2>3. /\ failover.failures \in 0..2
        /\ opened => count = 1
        /\ ~opened => count = failover.failures + 1 /\ count \in 2..3 /\ windowAge <= Window
    BY <1>3, Numbers DEF FailureInv, Failover, CountFailure, InWindow
  <2>4. count \in 1..3 /\ (windowAge' <= Window => failed'[count] = windowAge')
    <3>1. CASE opened
      BY <2>1, <2>2, <2>3, <3>1
    <3>2. CASE ~opened
      <4>1. failed[failover.failures] = windowAge
        BY <1>3, <2>3, <3>2, Numbers DEF FailureInv
      <4>2. failed'[count] = failed[count - 1]
        BY <2>1, <2>3, <3>2, Numbers
      <4>3. count - 1 = failover.failures /\ windowAge' = windowAge /\ count \in 1..3
        BY <2>1, <2>3, <3>2, Numbers
      <4> HIDE DEF count, opened
      <4>. QED BY <4>1, <4>2, <4>3
    <3>. QED BY <3>1, <3>2
  <2>5. CASE count >= FailureLimit
    <3>1. failover' = [active |-> EAST_MONEY, failures |-> FailureLimit, recovery |-> 0]
      BY <1>1, <1>3, <2>5, Numbers DEF AfterFailure, Active
    <3>2. ~opened /\ count = 3 /\ windowAge' = windowAge /\ windowAge <= Window
      BY <2>1, <2>3, <2>5, Numbers
    <3>3. failed'[FailureLimit] # Old
      BY <2>4, <3>2, Numbers DEF FailureInv
    <3>. QED BY <2>2, <3>1, <3>3, Numbers DEF FailureInv, Failover, Active
  <2>6. CASE count < FailureLimit
    <3>1. failover' = [failover EXCEPT !.failures = count]
      BY <1>1, <1>3, <2>3, <2>4, <2>6, Numbers DEF AfterFailure, Active
    <3> HIDE DEF count, opened
    <3>2. failover' \in Failover /\ failover'.active = TENCENT /\ failover'.failures = count
      BY <1>3, <2>4, <2>6, <3>1, Numbers DEF FailureInv, Failover, Active
    <3>. QED BY <2>2, <2>4, <2>6, <3>2, Numbers DEF FailureInv, Active
  <2>. QED BY <2>4, <2>5, <2>6, Numbers
<1>. QED BY <1>2, <1>3 DEF FailureInv, Failover, Active

LEMMA NextFailures ==
  ASSUME FailureInv, [Next]_vars
  PROVE  /\ FailureInv'
         /\ Active = TENCENT /\ failover'.active = EAST_MONEY => failed'[FailureLimit] # Old
<1>1. CASE UNCHANGED <<failover, windowAge, failed>>
  BY <1>1, Numbers DEF FailureInv, Active
<1>2. ASSUME NEW kind, NEW error \in Errors, Record(kind, error)
      PROVE  /\ FailureInv'
             /\ Active = TENCENT /\ failover'.active = EAST_MONEY => failed'[FailureLimit] # Old
  <2>1. RecordSuccess(kind) \/ RecordFailure \/ UNCHANGED <<classVars, historyVars>>
    BY <1>2 DEF Record, Errors
  <2>. QED BY <1>1, <2>1, SuccessForgets, FailureCounts DEF classVars, historyVars
<1>3. ASSUME Tick
      PROVE  FailureInv' /\ failover' = failover
  <2>1. /\ failed' = [n \in 1..FailureLimit |-> IF failed[n] = Old THEN Old ELSE failed[n] + 1]
        /\ windowAge' = IF failover.failures > 0 THEN Older(windowAge) ELSE windowAge
        /\ failover' = failover
    BY <1>3 DEF Tick
  <2>2. failed' \in [1..FailureLimit -> 0..Old]
    BY <2>1, Numbers DEF FailureInv
  <2>3. windowAge' \in 0..AgeCap
    BY <2>1, Numbers DEF FailureInv, Older
  <2>4. ASSUME Active = TENCENT, failover.failures > 0, windowAge' <= Window
        PROVE  failed'[failover.failures] = windowAge'
    <3>1. windowAge <= Window /\ windowAge' = windowAge + 1
      BY <2>1, <2>4, Numbers DEF FailureInv, Older
    <3>2. failed[failover.failures] = windowAge /\ failover.failures \in 1..FailureLimit
      BY <2>4, <3>1, Numbers DEF FailureInv, Failover
    <3>. QED BY <2>1, <3>1, <3>2, Numbers
  <2>. QED BY <2>1, <2>2, <2>3, <2>4 DEF FailureInv, Active
<1>. QED BY <1>1, <1>2, <1>3, Numbers
     DEF Next, AskQuote, QuoteAnswered, AskProbe, ProbeAnswered, HealthChanges, ClockWraps,
         vars, classVars, historyVars, Active

\* The primary is left only when its three latest answers that count failed within one
\* window, even if millis() wraps between them (recordFailure()).
THEOREM LeavingTakesThreeFailures == Spec => SwitchOnlyAfterThreeFailures
<1>1. FailureInv /\ [Next]_vars
        => [Active = TENCENT /\ failover'.active = EAST_MONEY => failed'[FailureLimit] # Old]_vars
  BY NextFailures
<1>. QED BY <1>1, InitFailures, NextFailures, PTL DEF Spec, SwitchOnlyAfterThreeFailures

-----------------------------------------------------------------------------
(* Types *)

RestType ==
  /\ probeAge \in 0..AgeCap /\ ahead \subseteq {"window", "probe"} /\ healthy \in BOOLEAN
  /\ quotes \in 0..MaxQuotes /\ probes \in 0..MaxProbes
  /\ Len(succeeded) <= RecoveryLimit

LEMMA NextRest ==
  ASSUME RecoveryInv, FailureInv, RestType, [Next]_vars
  PROVE  RestType'
<1>1. /\ MaxQuotes \in Nat /\ MaxProbes \in Nat /\ succeeded \in Seq({"QUOTE", "PROBE"})
      /\ AgeCap \in Nat /\ 0 \in 0..AgeCap
  BY FailoverAssumption DEF RecoveryInv
<1>2. ASSUME NEW kind \in {"QUOTE", "PROBE"}, NEW error \in Errors, Record(kind, error)
      PROVE  /\ probeAge' \in 0..AgeCap /\ ahead' \subseteq {"window", "probe"}
             /\ Len(succeeded') <= RecoveryLimit
  <2>1. CASE RecordSuccess(kind)
    <3>1. Len(succeeded) < RecoveryLimit \/ Active = TENCENT
      BY Numbers DEF RecoveryInv, FailureInv, Failover, Active
    <3>2. Len(succeeded') <= RecoveryLimit
      BY <1>1, <2>1, <3>1, Numbers DEF RecordSuccess
    <3>. QED BY <1>1, <2>1, <3>2 DEF RecordSuccess, RestType
  <2>2. CASE RecordFailure
    BY <1>1, <2>2, Numbers DEF RecordFailure, RestType
  <2>3. CASE UNCHANGED <<classVars, historyVars>>
    BY <2>3 DEF classVars, historyVars, RestType
  <2>. QED BY <1>2, <2>1, <2>2, <2>3 DEF Record, Errors
<1>3. CASE AskQuote
  BY <1>1, <1>3 DEF AskQuote, classVars, historyVars, RestType
<1>4. CASE QuoteAnswered
  BY <1>1, <1>2, <1>4 DEF QuoteAnswered, RestType
<1>5. CASE AskProbe
  BY <1>1, <1>5 DEF AskProbe, historyVars, RestType
<1>6. CASE ProbeAnswered
  BY <1>1, <1>2, <1>6 DEF ProbeAnswered, RestType
<1>7. CASE HealthChanges
  BY <1>7 DEF HealthChanges, classVars, historyVars, RestType
<1>8. CASE Tick
  BY <1>1, <1>8 DEF Tick, Older, RestType
<1>9. CASE ClockWraps
  BY <1>9 DEF ClockWraps, historyVars, RestType
<1>10. CASE UNCHANGED vars
  BY <1>10 DEF vars, classVars, historyVars, RestType
<1>. QED BY <1>3, <1>4, <1>5, <1>6, <1>7, <1>8, <1>9, <1>10 DEF Next

\* Ages, counters and histories stay in range, and the primary in use has no recovery
\* to count, for any clock and any answers.
THEOREM TypesHold == Spec => []TypeOK
<1> DEFINE Inv == RecoveryInv /\ FailureInv /\ RestType
<1>1. Init => Inv
  <2>1. Init => RestType
    BY FailoverAssumption, Numbers DEF Init, RestType
  <2>. QED BY <2>1, InitRecovery, InitFailures
<1>2. Inv /\ [Next]_vars => Inv'
  BY NextRecovery, NextFailures, NextRest
<1>3. Inv => TypeOK
  BY Numbers DEF RecoveryInv, FailureInv, RestType, TypeOK
<1>. QED BY <1>1, <1>2, <1>3, PTL DEF Spec
=============================================================================
