------------------------ MODULE MarketRequestBroker ------------------------
(***************************************************************************)
(* What MarketDataWorker promises the StockController through the          *)
(* IMarketDataQueue interface (MarketDataWorker.h), with none of the       *)
(* worker's queues, retries or timing: an accepted request is pending until *)
(* one answer for it enters the result queue, from where the controller    *)
(* takes the answers in order.  A request is never answered twice, and an  *)
(* answer never appears for a request that was not accepted.               *)
(*                                                                         *)
(* The one way out that is not an answer is Lose: sendSynthetic returns    *)
(* silently when it cannot allocate the result.                            *)
(***************************************************************************)
EXTENDS Naturals, Sequences

CONSTANTS
  Ids,          \* request ids; an id is free again once its answer is taken
  ResultDepth,  \* RESULT_QUEUE_DEPTH
  AllocMayFail  \* whether an allocation of a MarketResult may fail

\* ProviderError, up to the distinctions the worker makes: NETWORK stands for
\* every retryable error (HTTP 408 and 5xx too), PARSE for every other one.
Errors == {"NONE", "NETWORK", "PARSE", "CANCELLED", "EXPIRED"}
Result == [id : Ids, error : Errors]

ASSUME BrokerAssumption ==
  /\ ResultDepth \in Nat \ {0}
  /\ AllocMayFail \in BOOLEAN

VARIABLES
  pending,   \* accepted, not yet answered
  answers,   \* the result queue
  lost       \* accepted, but the answer could not be allocated

brokerVars == <<pending, answers, lost>>

Answered == {answers[k].id : k \in DOMAIN answers}

BrokerInit ==
  /\ pending = {}
  /\ answers = <<>>
  /\ lost = {}

\* One or more requests are accepted; those of one StockController::tick are
\* accepted together, as nothing the worker does between them matters to it.
Accept(S) ==
  /\ S \cap (pending \cup Answered \cup lost) = {}
  /\ pending' = pending \cup S
  /\ UNCHANGED <<answers, lost>>

Answer(i, error) ==
  /\ i \in pending
  /\ Len(answers) < ResultDepth
  /\ pending' = pending \ {i}
  /\ answers' = Append(answers, [id |-> i, error |-> error])
  /\ UNCHANGED lost

Lose(i) ==
  /\ AllocMayFail
  /\ i \in pending
  /\ pending' = pending \ {i}
  /\ lost' = lost \cup {i}
  /\ UNCHANGED answers

Take ==
  /\ answers # <<>>
  /\ answers' = Tail(answers)
  /\ UNCHANGED <<pending, lost>>

BrokerNext ==
  \/ \E S \in SUBSET Ids : Accept(S)
  \/ \E i \in Ids : Lose(i)
  \/ \E i \in Ids, error \in Errors : Answer(i, error)
  \/ Take

BrokerSpec == BrokerInit /\ [][BrokerNext]_brokerVars
=============================================================================
