-------------------------- MODULE ProviderFailover --------------------------
(***************************************************************************)
(* ProviderFailover with its two timestamps, driven the way StockController *)
(* drives it: quotes are asked from the active provider, the primary is      *)
(* probed while it is out of use, and answers arrive later, in any order,    *)
(* also for quotes that were asked before the provider changed.              *)
(*                                                                         *)
(* A timestamp is kept as its age, nowMs - then.  StockController passes     *)
(* the 32-bit millis() to 64-bit parameters: when millis() wraps, nowMs is   *)
(* smaller than a timestamp taken before.  Such a timestamp is a member of   *)
(* ahead, until it is overwritten (nowMs catches up only after 49.7 days).   *)
(***************************************************************************)
EXTENDS FailoverPolicy, Sequences

CONSTANTS
  Window,         \* FAILURE_WINDOW_MS
  ProbeInterval,  \* PRIMARY_PROBE_INTERVAL_MS
  AgeCap,         \* bound: ages saturate here, beyond both
  MaxQuotes,      \* bound: Tencent quotes asked and not yet answered
  MaxProbes,      \* bound: probes asked and not yet answered
  ClockMayWrap    \* whether the device stays up longer than 49.7 days

ASSUME FailoverAssumption ==
  /\ {Window, ProbeInterval, AgeCap, MaxQuotes, MaxProbes} \subseteq Nat
  /\ AgeCap > Window /\ AgeCap > ProbeInterval
  /\ ClockMayWrap \in BOOLEAN

VARIABLES
  failover,   \* active_, primaryFailureCount_, recoverySuccessCount_
  windowAge,  \* age of firstPrimaryFailureMs_
  probeAge,   \* age of lastPrimaryProbeMs_
  ahead,      \* which of the two lie after nowMs
  healthy,    \* environment: Tencent answers
  quotes,     \* Tencent quotes without an answer
  probes,     \* probes without an answer
  failed,     \* history: the age of the n-th latest failure that counted since
              \* the last success, or Old
  succeeded   \* history: what the Tencent successes in a row since the switch were

classVars   == <<failover, windowAge, probeAge, ahead>>
historyVars == <<failed, succeeded>>
vars == <<classVars, historyVars, healthy, quotes, probes>>

Active == failover.active

\* A failure that lies further back than the window, or none.
Old == Window + 1
NoFailure == [n \in 1..FailureLimit |-> Old]

InWindow == "window" \notin ahead /\ windowAge <= Window

\* shouldProbePrimary() that compares the wrong way round.
ShouldProbeTooLate ==
  Active = EAST_MONEY /\ "probe" \notin ahead /\ probeAge > AgeCap

ShouldProbePrimary ==
  Active = EAST_MONEY /\ "probe" \notin ahead /\ probeAge >= ProbeInterval

-----------------------------------------------------------------------------
\* recordSuccess() for an answer to a request of the given kind.
RecordSuccess(kind) ==
  /\ failover' = AfterSuccess(failover, TENCENT)
  /\ windowAge' = IF failover'.active = TENCENT THEN 0 ELSE windowAge
  /\ probeAge' = IF failover'.active = TENCENT THEN 0 ELSE probeAge
  /\ ahead' = IF failover'.active = TENCENT THEN {} ELSE ahead
  /\ failed' = NoFailure
  /\ succeeded' = IF Active = TENCENT THEN <<>> ELSE Append(succeeded, kind)

\* recordFailure()
RecordFailure ==
  LET opens    == Active = TENCENT /\ (failover.failures = 0 \/ ~InWindow)
      switches == Active = TENCENT /\ failover'.active = EAST_MONEY
  IN  /\ failover' = AfterFailure(failover, TENCENT, InWindow)
      /\ windowAge' = IF opens THEN 0 ELSE windowAge
      /\ probeAge' = IF switches THEN 0 ELSE probeAge
      /\ ahead' = ahead \ ((IF opens THEN {"window"} ELSE {})
                             \cup (IF switches THEN {"probe"} ELSE {}))
      /\ failed' = IF Active = TENCENT
                   THEN [n \in 1..FailureLimit |-> IF n = 1 THEN 0 ELSE failed[n - 1]]
                   ELSE failed
      /\ succeeded' = <<>>

\* What consumeMarketResults() does with the error of an answer; CANCELLED
\* stands for CANCELLED and EXPIRED, which are not reported to the class.
Record(kind, error) ==
  CASE error = "NONE"      -> RecordSuccess(kind)
    [] error = "NETWORK"   -> RecordFailure
    [] error = "CANCELLED" -> UNCHANGED <<classVars, historyVars>>

Errors == IF healthy THEN {"NONE"} ELSE {"NONE", "NETWORK", "CANCELLED"}

-----------------------------------------------------------------------------
AskQuote ==
  /\ Active = TENCENT
  /\ quotes < MaxQuotes
  /\ quotes' = quotes + 1
  /\ UNCHANGED <<classVars, historyVars, healthy, probes>>

QuoteAnswered ==
  /\ quotes > 0
  /\ quotes' = quotes - 1
  /\ \E error \in Errors : Record("QUOTE", error)
  /\ UNCHANGED <<healthy, probes>>

\* maybeProbePrimary() with the request accepted: recordPrimaryProbeAttempt().
AskProbe ==
  /\ ShouldProbePrimary
  /\ probes < MaxProbes
  /\ probes' = probes + 1
  /\ probeAge' = 0
  /\ ahead' = ahead \ {"probe"}
  /\ UNCHANGED <<failover, windowAge, historyVars, healthy, quotes>>

ProbeAnswered ==
  /\ probes > 0
  /\ probes' = probes - 1
  /\ \E error \in Errors : Record("PROBE", error)
  /\ UNCHANGED <<healthy, quotes>>

HealthChanges ==
  /\ healthy' = ~healthy
  /\ UNCHANGED <<classVars, historyVars, quotes, probes>>

Older(n) == IF n < AgeCap THEN n + 1 ELSE n

Tick ==
  /\ windowAge' = IF failover.failures > 0 THEN Older(windowAge) ELSE windowAge
  /\ probeAge' = IF Active = EAST_MONEY THEN Older(probeAge) ELSE probeAge
  /\ failed' = [n \in 1..FailureLimit |-> IF failed[n] = Old THEN Old ELSE failed[n] + 1]
  /\ UNCHANGED <<failover, ahead, succeeded, healthy, quotes, probes>>

\* millis() wraps: every timestamp that is set now lies ahead.
ClockWraps ==
  /\ ClockMayWrap
  /\ ahead' = (IF failover.failures > 0 THEN {"window"} ELSE {})
                \cup (IF Active = EAST_MONEY THEN {"probe"} ELSE {})
  /\ UNCHANGED <<failover, windowAge, probeAge, historyVars, healthy, quotes, probes>>

-----------------------------------------------------------------------------
Init ==
  /\ failover = InitialFailover
  /\ windowAge = 0 /\ probeAge = 0 /\ ahead = {}
  /\ failed = NoFailure /\ succeeded = <<>>
  /\ healthy \in BOOLEAN
  /\ quotes = 0 /\ probes = 0

Next ==
  \/ AskQuote \/ QuoteAnswered
  \/ AskProbe \/ ProbeAnswered
  \/ HealthChanges \/ Tick \/ ClockWraps

Spec == Init /\ [][Next]_vars

\* Time passes, tick() reaches maybeProbePrimary(), and the worker answers.
Fairness ==
  /\ WF_vars(Tick) /\ WF_vars(AskProbe)
  /\ WF_vars(QuoteAnswered) /\ WF_vars(ProbeAnswered)
FairSpec == Spec /\ Fairness
-----------------------------------------------------------------------------
(* Properties *)

\* Counters and ages stay in range; the primary in use has no recovery to count.
TypeOK ==
  /\ failover \in Failover
  /\ windowAge \in 0..AgeCap /\ probeAge \in 0..AgeCap
  /\ ahead \subseteq {"window", "probe"}
  /\ healthy \in BOOLEAN
  /\ quotes \in 0..MaxQuotes /\ probes \in 0..MaxProbes
  /\ failed \in [1..FailureLimit -> 0..Old]
  /\ succeeded \in Seq({"QUOTE", "PROBE"}) /\ Len(succeeded) <= RecoveryLimit
  /\ Active = TENCENT => failover.recovery = 0

\* recordFailure() leaves the primary only when its three latest answers that count
\* all failed within one window, however late the answers come and even if
\* millis() wraps between them.
SwitchOnlyAfterThreeFailures ==
  [][Active = TENCENT /\ failover'.active = EAST_MONEY => failed'[FailureLimit] # Old]_vars

\* recordSuccess() returns to the primary only on its second success in a row; a
\* failure in between, of a probe or of a quote asked before the switch, starts
\* the count over.
ReturnOnlyAfterTwoSuccesses ==
  [][Active = EAST_MONEY /\ failover'.active = TENCENT => Len(succeeded') = RecoveryLimit]_vars

\* When the primary works again and millis() does not wrap meanwhile, the probes
\* bring it back: the fallback is never for good.
PrimaryReturns ==
  (<>[]healthy /\ <>[](ahead = {})) => []<>(Active = TENCENT)

=============================================================================
