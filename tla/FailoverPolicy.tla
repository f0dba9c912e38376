--------------------------- MODULE FailoverPolicy ---------------------------
(***************************************************************************)
(* ProviderFailover (lib/core/ProviderFailover.cpp): which provider quotes  *)
(* are asked from.  Only Tencent, the primary, is judged; answers of         *)
(* EastMoney change nothing.  The two timestamps of the class are left to    *)
(* the modules that use it: they say, as inWindow, whether the window the    *)
(* first counted failure opened is still open.                               *)
(***************************************************************************)
EXTENDS Naturals

TENCENT    == "TENCENT"
EAST_MONEY == "EAST_MONEY"

FailureLimit  == 3
RecoveryLimit == 2

Failover == [active : {TENCENT, EAST_MONEY}, failures : 0..FailureLimit,
             recovery : 0..RecoveryLimit - 1]

InitialFailover == [active |-> TENCENT, failures |-> 0, recovery |-> 0]

CountFailure(f, inWindow) == IF inWindow THEN f.failures + 1 ELSE 1

\* recordFailure() that forgets to start the recovery count over.
FailureKeepsRecovery(f, provider, inWindow) ==
  IF provider # TENCENT \/ f.active = EAST_MONEY THEN f
  ELSE IF CountFailure(f, inWindow) >= FailureLimit
  THEN [active |-> EAST_MONEY, failures |-> FailureLimit, recovery |-> f.recovery]
  ELSE [f EXCEPT !.failures = CountFailure(f, inWindow)]

\* recordSuccess() that does not clear the count of failures.
SuccessKeepsFailures(f, provider) ==
  IF provider # TENCENT \/ f.active = TENCENT THEN f
  ELSE IF f.recovery + 1 >= RecoveryLimit THEN InitialFailover
  ELSE [f EXCEPT !.recovery = @ + 1]

\* recordSuccess()
AfterSuccess(f, provider) ==
  IF provider # TENCENT THEN f
  ELSE IF f.active = TENCENT \/ f.recovery + 1 >= RecoveryLimit THEN InitialFailover
  ELSE [f EXCEPT !.recovery = @ + 1]

\* recordFailure()
AfterFailure(f, provider, inWindow) ==
  IF provider # TENCENT THEN f
  ELSE IF f.active = EAST_MONEY THEN [f EXCEPT !.recovery = 0]
  ELSE IF CountFailure(f, inWindow) >= FailureLimit
  THEN [active |-> EAST_MONEY, failures |-> FailureLimit, recovery |-> 0]
  ELSE [f EXCEPT !.failures = CountFailure(f, inWindow)]
=============================================================================
