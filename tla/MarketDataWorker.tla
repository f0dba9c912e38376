-------------------------- MODULE MarketDataWorker --------------------------
(***************************************************************************)
(* The market-data task (MarketDataWorker.cpp), its pending work            *)
(* (PendingMarketWork) and scheduling policy (MarketRequestPolicy), both in *)
(* MarketDataWorker.h, between the Arduino loop that enqueues requests and  *)
(* receives results and the worker task that fetches.                      *)
(*                                                                         *)
(* A request is identified by its requestId; the containers hold ids and   *)
(* request[i] is the MarketRequest itself.  Timestamps are kept as ages:    *)
(* millis() - createdMs is age, millis() - cycleStartedMs is cycleAge,      *)
(* notBeforeMs - createdMs is delay, and millis() - nowMs, the staleness of *)
(* the clock value the worker read before it took the mutex, is lag.        *)
(* The position of an entry in the vector highPriority_ only breaks ties    *)
(* between equal priorities; the model lets a tie go either way.            *)
(***************************************************************************)
EXTENDS Integers, Sequences, FiniteSets

CONSTANTS
  Ids, NoId,
  Symbols,
  Kinds,          \* the requests StockController creates
  HighCapacity,   \* HIGH_PRIORITY_CAPACITY
  ResultDepth,    \* RESULT_QUEUE_DEPTH
  CurrentTtl, BackgroundTtl, ProbeTtl, IntradayTtl, CycleTtl,
  MaxAttempts,    \* INTRADAY_MAX_ATTEMPTS
  RetryDelays,    \* attempt -> the delays the +-20% jitter may give it
  WordSize,       \* 2^32 in the firmware
  AgeCap,         \* bound: ages saturate here, beyond every TTL
  MaxLag,         \* bound: ticks between millis() and the mutex in run()
  AllocMayFail    \* whether new (std::nothrow) MarketResult may return null

Types      == {"QUOTE", "INTRADAY", "PRIMARY_PROBE"}
Providers  == {"TENCENT", "EAST_MONEY"}
Outcomes   == {"NONE", "NETWORK", "PARSE"}
Errors     == Outcomes \cup {"CANCELLED", "EXPIRED"}
CURRENT_QUOTE  == 0
BACKGROUND_QUOTE == 1
PRIMARY_PROBE  == 2
INTRADAY       == 3
INTRADAY_RETRY == 4

Kind    == [type : Types, symbol : Symbols, provider : Providers, priority : 0..3]
Request == [type : Types, symbol : Symbols, provider : Providers, priority : 0..4,
            attempt : Nat \ {0}, age : Nat, cycleAge : Nat, delay : Nat, fetches : Nat]
Result  == [id : Ids, error : Errors]

ASSUME WorkerAssumption ==
  /\ NoId \notin Ids
  /\ Kinds \subseteq Kind
  /\ \A k \in Kinds : (k.type = "INTRADAY") <=> (k.priority = INTRADAY)
  /\ \A k \in Kinds : k.type = "INTRADAY" => k.provider = "TENCENT"
  /\ {HighCapacity, ResultDepth, MaxAttempts, WordSize} \subseteq Nat \ {0}
  /\ {CurrentTtl, BackgroundTtl, ProbeTtl, IntradayTtl, CycleTtl, AgeCap, MaxLag} \subseteq Nat
  /\ RetryDelays \in [2..MaxAttempts -> SUBSET Nat]
  /\ AllocMayFail \in BOOLEAN

\* A request expires long before millis() has gone round, however late the mutex is taken.
ASSUME ClockAssumption ==
  \A ttl \in {CurrentTtl, BackgroundTtl, ProbeTtl, IntradayTtl, CycleTtl} :
    ttl + MaxLag < WordSize

VARIABLES
  request,       \* the MarketRequest of every id still to be executed
  highPriority,  \* PendingMarketWork::highPriority_
  intraday,      \* PendingMarketWork::intraday_, or NoId
  cancelled,     \* Impl::cancelled: displaced, not yet reported
  paused,        \* Impl::paused
  resultQueue,   \* Impl::resultQueue
  pc,            \* where the worker task is in run()/execute()
  lag,           \* age of run()'s nowMs while it waits for the mutex
  notices,       \* run()'s cancelledNow and expired: id -> error to report
  current,       \* the request run() popped, or NoId
  running,       \* millis() - startedMs while execute() runs
  outcome,       \* result->error of the finished fetch
  outstanding,   \* ids the controller waits for (StockController::outstanding_)
  lost           \* history: ids whose result could not be allocated

pendingVars == <<request, highPriority, intraday, cancelled, paused>>
workerVars  == <<pc, lag, notices, current, running, outcome>>
vars == <<pendingVars, workerVars, resultQueue, outstanding, lost>>

-----------------------------------------------------------------------------
(* Partial functions over ids. *)

Drop(f, S)   == [i \in DOMAIN f \ S |-> f[i]]
Put(f, i, v) == [j \in DOMAIN f \cup {i} |-> IF j = i THEN v ELSE f[j]]

Empty        == [i \in {} |-> NoId]

Present(i) == {i} \ {NoId}
Waiting    == highPriority \cup Present(intraday)

IdsOf(queue)       == {queue[k].id : k \in DOMAIN queue}
DistinctIds(queue) == \A k, m \in DOMAIN queue : queue[k].id = queue[m].id => k = m
Queued             == IdsOf(resultQueue)

-----------------------------------------------------------------------------
(* Fault variants.  Each is one definition below with a plausible slip in it; *)
(* the runs show that the properties tell it from the code.                   *)

\* sameKey() that also compares the priority: a promoted quote waits twice.
SameKeyWithPriority(r, s) ==
  r.type = s.type /\ r.symbol = s.symbol /\ r.priority = s.priority

\* expired() that never fires.
NeverExpired(r, staleness) == FALSE

\* popNextReady() that does not erase what it has just expired.
NextReadyWithOverdue(overdue) ==
  IF highPriority # {}
  THEN {CHOOSE i \in highPriority : \A j \in highPriority : request[i].priority <= request[j].priority}
  ELSE {intraday}

\* popNextReady() that looks at the intraday slot first.
NextReadySlotFirst(overdue) ==
  IF intraday \notin overdue \cup {NoId} THEN {intraday}
  ELSE IF highPriority \ overdue # {} THEN highPriority \ overdue ELSE {NoId}

\* installRetryIfEmpty() that does not look whether the slot is empty.
SlotFreeUnchecked == ~paused

\* The fallback that keeps asking the provider that failed.
FallbackToSameProvider(r) ==
  [r EXCEPT !.attempt = 1, !.age = 0, !.delay = 0, !.cycleAge = 0, !.priority = INTRADAY]

\* enqueue() that forgets to report the quote it replaced.
PromoteQuoteSilently(i, r) ==
  /\ r.type # "INTRADAY"
  /\ \E j \in highPriority :
       /\ request[j].type = r.type /\ request[j].symbol = r.symbol
       /\ r.priority < request[j].priority
       /\ highPriority' = (highPriority \ {j}) \cup {i}
       /\ request' = Put(Drop(request, {j}), i, r)
  /\ UNCHANGED <<intraday, cancelled>>

-----------------------------------------------------------------------------
(* MarketRequestPolicy *)

IsIntraday(r) == r.type = "INTRADAY"
IsIntradayRetry(r) == IsIntraday(r) /\ (r.priority = INTRADAY_RETRY \/ r.attempt > 1)

TtlMs(r) ==
  CASE r.type = "PRIMARY_PROBE" -> ProbeTtl
    [] r.type = "QUOTE" -> IF r.priority = BACKGROUND_QUOTE THEN BackgroundTtl
                                                            ELSE CurrentTtl
    [] OTHER -> IF IsIntradayRetry(r) THEN CycleTtl ELSE IntradayTtl

ExpiryAge(r) == IF IsIntradayRetry(r) THEN r.cycleAge ELSE r.age

\* Unsigned subtraction: a nowMs older than the timestamp wraps around.
Elapsed(age, staleness) == (age - staleness) % WordSize
Expired(r, staleness) == Elapsed(ExpiryAge(r), staleness) > TtlMs(r)
\* Signed comparison of nowMs with notBeforeMs.
Ready(r, staleness) == r.age - staleness >= r.delay

Retryable(error) == error = "NETWORK"

ShouldRetryIntraday(r, error) ==
  /\ IsIntraday(r)
  /\ r.provider = "TENCENT"
  /\ r.attempt < MaxAttempts
  /\ Retryable(error)

ShouldFallbackIntraday(r, error) ==
  /\ IsIntraday(r)
  /\ r.provider = "TENCENT"
  /\ error \notin {"NONE", "CANCELLED", "EXPIRED"}
  /\ ~ShouldRetryIntraday(r, error)

-----------------------------------------------------------------------------
(* PendingMarketWork *)

SameKey(r, s) == r.type = s.type /\ r.symbol = s.symbol

NewRequest(kind) ==
  [type |-> kind.type, symbol |-> kind.symbol, provider |-> kind.provider,
   priority |-> kind.priority, attempt |-> 1, age |-> 0, cycleAge |-> 0,
   delay |-> 0, fetches |-> 0]

\* add() of an intraday request: refused only for an equally urgent duplicate;
\* otherwise it takes the slot and whatever waited there is displaced.
PlaceIntraday(i, r) ==
  /\ IsIntraday(r)
  /\ intraday # NoId =>
       ~SameKey(request[intraday], r) \/ r.priority < request[intraday].priority
  /\ intraday' = i
  /\ cancelled' = cancelled \cup Present(intraday)
  /\ request' = Put(Drop(request, {intraday}), i, r)
  /\ UNCHANGED highPriority

\* add() of a quote or probe whose key already waits with a lower urgency.
PromoteQuote(i, r) ==
  /\ ~IsIntraday(r)
  /\ \E j \in highPriority :
       /\ SameKey(request[j], r)
       /\ r.priority < request[j].priority
       /\ highPriority' = (highPriority \ {j}) \cup {i}
       /\ cancelled' = cancelled \cup {j}
       /\ request' = Put(Drop(request, {j}), i, r)
  /\ UNCHANGED intraday

\* add() of a quote or probe with a new key.
PushQuote(i, r) ==
  /\ ~IsIntraday(r)
  /\ \A j \in highPriority : ~SameKey(request[j], r)
  /\ Cardinality(highPriority) < HighCapacity
  /\ highPriority' = highPriority \cup {i}
  /\ request' = Put(request, i, r)
  /\ UNCHANGED <<intraday, cancelled>>

\* popNextReady() prefers a to b.
Precedes(r, s) ==
  \/ r.priority < s.priority
  \/ r.priority = s.priority /\ r.priority = CURRENT_QUOTE /\ r.age < s.age

\* What popNextReady() may hand out once the overdue entries are erased.
NextReady(overdue) ==
  LET ready == {i \in highPriority \ overdue : Ready(request[i], lag)}
      best  == {i \in ready : \A j \in ready : ~Precedes(request[j], request[i])}
      slot  == {i \in Present(intraday) \ overdue : Ready(request[i], lag)}
  IN  IF ready # {} THEN best ELSE IF slot # {} THEN slot ELSE {NoId}

\* installDeferredIntraday() succeeds.
SlotFree == ~paused /\ intraday = NoId

-----------------------------------------------------------------------------
(* The Arduino loop *)

\* enqueue() accepts a request; a refused call changes nothing.
Enqueue(i, kind) ==
  /\ ~paused
  /\ i \notin outstanding
  /\ \/ PlaceIntraday(i, NewRequest(kind))
     \/ PromoteQuote(i, NewRequest(kind))
     \/ PushQuote(i, NewRequest(kind))
  /\ outstanding' = outstanding \cup {i}
  /\ UNCHANGED <<workerVars, paused, resultQueue, lost>>

SetPaused(value) ==
  /\ paused # value
  /\ paused' = value
  /\ UNCHANGED <<request, highPriority, intraday, cancelled, workerVars,
                 resultQueue, outstanding, lost>>

\* tryReceive(), which StockApp::tick reaches only while the app is active.
TryReceive ==
  /\ ~paused
  /\ resultQueue # <<>>
  /\ resultQueue' = Tail(resultQueue)
  /\ outstanding' = outstanding \ {Head(resultQueue).id}
  /\ UNCHANGED <<pendingVars, workerVars, lost>>

-----------------------------------------------------------------------------
(* The worker task *)

\* xQueueSend() to the result queue does not have to wait.
ResultQueueHasRoom == Len(resultQueue) < ResultDepth

\* run() reads millis() before it asks for the mutex.
ReadClock ==
  /\ pc = "top"
  /\ pc' = "take"
  /\ lag' = 0
  /\ UNCHANGED <<pendingVars, notices, current, running, outcome,
                 resultQueue, outstanding, lost>>

\* run() under the mutex: swap out cancelled and, unless paused, popNextReady.
TakeWork ==
  /\ pc = "take"
  /\ pc' = "post"
  /\ lag' = 0
  /\ cancelled' = {}
  /\ LET overdue == IF paused THEN {} ELSE {i \in Waiting : Expired(request[i], lag)}
     IN  \E next \in (IF paused THEN {NoId} ELSE NextReady(overdue)) :
           /\ current' = next
           /\ highPriority' = highPriority \ (overdue \cup {next})
           /\ intraday' = IF intraday \in overdue \cup {next} THEN NoId ELSE intraday
           /\ request' = Drop(request, overdue)
           /\ notices' = [i \in cancelled \cup overdue |->
                            IF i \in cancelled THEN "CANCELLED" ELSE "EXPIRED"]
  /\ UNCHANGED <<paused, running, outcome, resultQueue, outstanding, lost>>

\* sendSynthetic() of one notice; xQueueSend waits for room.
PostNotice(i) ==
  /\ pc = "post"
  /\ i \in DOMAIN notices
  /\ ResultQueueHasRoom
  /\ resultQueue' = Append(resultQueue, [id |-> i, error |-> notices[i]])
  /\ notices' = Drop(notices, {i})
  /\ UNCHANGED <<pendingVars, pc, lag, current, running, outcome, outstanding, lost>>

\* sendSynthetic() returns without a result: the allocation failed.
LoseNotice(i) ==
  /\ pc = "post"
  /\ AllocMayFail
  /\ i \in DOMAIN notices
  /\ notices' = Drop(notices, {i})
  /\ lost' = lost \cup {i}
  /\ UNCHANGED <<pendingVars, pc, lag, current, running, outcome, resultQueue, outstanding>>

EndPost ==
  /\ pc = "post"
  /\ DOMAIN notices = {}
  /\ pc' = IF current = NoId THEN "top" ELSE "execute"
  /\ UNCHANGED <<pendingVars, lag, notices, current, running, outcome,
                 resultQueue, outstanding, lost>>

\* execute() cannot allocate the result and reports NETWORK instead.
ExecuteWithoutMemory ==
  /\ pc = "execute"
  /\ AllocMayFail
  /\ pc' = "post"
  /\ notices' = [i \in {current} |-> "NETWORK"]
  /\ request' = Drop(request, {current})
  /\ current' = NoId
  /\ UNCHANGED <<highPriority, intraday, cancelled, paused, lag, running, outcome,
                 resultQueue, outstanding, lost>>

BeginFetch ==
  /\ pc = "execute"
  /\ pc' = "fetch"
  /\ running' = 0
  /\ request' = [request EXCEPT ![current].fetches = @ + 1]
  /\ UNCHANGED <<highPriority, intraday, cancelled, paused, lag, notices, current,
                 outcome, resultQueue, outstanding, lost>>

\* fetchQuote() or fetchIntraday() returns.
EndFetch(error) ==
  /\ pc = "fetch"
  /\ pc' = "settle"
  /\ outcome' = error
  /\ UNCHANGED <<pendingVars, lag, notices, current, running,
                 resultQueue, outstanding, lost>>

\* The retry execute() builds, with a jittered delay d.
RetryOf(r, d) ==
  [r EXCEPT !.attempt = @ + 1, !.age = 0, !.delay = d, !.priority = INTRADAY_RETRY]

FallbackOf(r) ==
  [r EXCEPT !.provider = "EAST_MONEY", !.attempt = 1, !.age = 0, !.delay = 0,
            !.cycleAge = 0, !.priority = INTRADAY]

\* The retry is wanted, still inside its cycle, and the slot takes it.
RetryInstalls ==
  /\ ShouldRetryIntraday(request[current], outcome)
  /\ Elapsed(request[current].cycleAge, 0) <= CycleTtl
  /\ SlotFree

FallbackInstalls == ShouldFallbackIntraday(request[current], outcome) /\ SlotFree

\* The deferred request r goes back to the slot under the same requestId.
Defer(r) ==
  /\ intraday' = current
  /\ request' = [request EXCEPT ![current] = r]
  /\ current' = NoId
  /\ pc' = "top"
  /\ running' = 0
  /\ outcome' = "NONE"
  /\ UNCHANGED <<highPriority, cancelled, paused, lag, notices,
                 resultQueue, outstanding, lost>>

DeferRetry ==
  /\ pc = "settle"
  /\ RetryInstalls
  /\ \E d \in RetryDelays[request[current].attempt + 1] :
       Defer(RetryOf(request[current], d))

DeferFallback ==
  /\ pc = "settle"
  /\ ~RetryInstalls
  /\ FallbackInstalls
  /\ Defer(FallbackOf(request[current]))

KeepResult ==
  /\ pc = "settle"
  /\ ~RetryInstalls /\ ~FallbackInstalls
  /\ pc' = "deliver"
  /\ running' = 0
  /\ UNCHANGED <<pendingVars, lag, notices, current, outcome,
                 resultQueue, outstanding, lost>>

\* sendResult(); xQueueSend waits for room.
Deliver ==
  /\ pc = "deliver"
  /\ ResultQueueHasRoom
  /\ pc' = "top"
  /\ resultQueue' = Append(resultQueue, [id |-> current, error |-> outcome])
  /\ request' = Drop(request, {current})
  /\ current' = NoId
  /\ outcome' = "NONE"
  /\ UNCHANGED <<highPriority, intraday, cancelled, paused, lag, notices, running,
                 outstanding, lost>>

Worker ==
  \/ ReadClock \/ TakeWork \/ EndPost
  \/ \E i \in Ids : PostNotice(i) \/ LoseNotice(i)
  \/ ExecuteWithoutMemory \/ BeginFetch
  \/ \E error \in Outcomes : EndFetch(error)
  \/ DeferRetry \/ DeferFallback \/ KeepResult \/ Deliver

-----------------------------------------------------------------------------
(* Time *)

Older(n) == IF n < AgeCap THEN n + 1 ELSE n

Tick ==
  /\ pc = "take" => lag < MaxLag
  /\ request' = [i \in DOMAIN request |->
                   [request[i] EXCEPT !.age = Older(@), !.cycleAge = Older(@)]]
  /\ lag' = IF pc = "take" THEN lag + 1 ELSE lag
  /\ running' = IF pc \in {"fetch", "settle"} THEN Older(running) ELSE running
  /\ UNCHANGED <<highPriority, intraday, cancelled, paused, pc, notices, current,
                 outcome, resultQueue, outstanding, lost>>

-----------------------------------------------------------------------------
Init ==
  /\ request = Empty
  /\ highPriority = {}
  /\ intraday = NoId
  /\ cancelled = {}
  /\ paused = TRUE
  /\ resultQueue = <<>>
  /\ pc = "top"
  /\ lag = 0
  /\ notices = Empty
  /\ current = NoId
  /\ running = 0
  /\ outcome = "NONE"
  /\ outstanding = {}
  /\ lost = {}

Next ==
  \/ \E i \in Ids, kind \in Kinds : Enqueue(i, kind)
  \/ \E value \in BOOLEAN : SetPaused(value)
  \/ TryReceive
  \/ Worker
  \/ Tick

Spec == Init /\ [][Next]_vars

\* The task runs at priority 1 and every blocking call in it has a timeout or
\* a consumer; the loop calls StockApp::tick while the app is on screen.
Fairness == WF_vars(Worker) /\ WF_vars(TryReceive) /\ WF_vars(Tick)
FairSpec == Spec /\ Fairness
-----------------------------------------------------------------------------
(* Properties *)

\* Every variable has its type; request describes exactly the ids that wait or run.
TypeOK ==
  /\ request \in [highPriority \cup Present(intraday) \cup Present(current) -> Request]
  /\ highPriority \subseteq Ids
  /\ intraday \in Ids \cup {NoId}
  /\ cancelled \subseteq Ids
  /\ paused \in BOOLEAN
  /\ resultQueue \in Seq(Result)
  /\ Len(resultQueue) <= ResultDepth
  /\ pc \in {"top", "take", "post", "execute", "fetch", "settle", "deliver"}
  /\ lag \in Nat
  /\ notices \in [DOMAIN notices -> Errors]
  /\ DOMAIN notices \subseteq Ids
  /\ current \in Ids \cup {NoId}
  /\ running \in Nat
  /\ outcome \in Outcomes
  /\ outstanding \subseteq Ids
  /\ lost \subseteq Ids

Held == highPriority \cup Present(intraday) \cup cancelled \cup DOMAIN notices
          \cup Present(current)

\* A request the controller waits for is in exactly one place - waiting, displaced,
\* about to be reported, running, or answered once - whatever interleaving of
\* enqueue, pause, retry and fallback got it there; so no request is ever
\* answered twice and none is dropped except by a failed allocation.
HeldOnce ==
  /\ outstanding = Held \cup Queued \cup lost
  /\ intraday \notin highPriority /\ current \notin Waiting
  /\ cancelled \cap (Waiting \cup {current}) = {}
  /\ DOMAIN notices \cap (Waiting \cup cancelled \cup {current}) = {}
  /\ Held \cap Queued = {}
  /\ lost \cap (Held \cup Queued) = {}
  /\ DistinctIds(resultQueue)

\* No two waiting quotes or probes ask for the same thing: a quote that becomes
\* current is promoted in place, never queued next to its background twin.
OneWaitingPerKey ==
  \A i, j \in highPriority :
    request[i].type = request[j].type /\ request[i].symbol = request[j].symbol => i = j

\* Across retries, the provider fallback and a re-entry of the deferred request
\* into the slot, one accepted intraday request costs at most MaxAttempts Tencent
\* fetches and one EastMoney fetch, and a quote or probe costs one.
FetchBudget ==
  \A i \in DOMAIN request :
    request[i].fetches <= IF IsIntraday(request[i]) THEN MaxAttempts + 1 ELSE 1

\* Only a request accepted in this very step may push another one out of the
\* intraday slot; a deferred retry or fallback never displaces newer work.
OnlyNewWorkDisplaces ==
  [][intraday # NoId /\ intraday' \notin {intraday, NoId}
       => intraday' \notin outstanding /\ intraday \in cancelled']_vars

\* When the worker picks an intraday request no quote and no probe is left
\* waiting behind it, even when run() works with a clock value older than the
\* newest request.
UrgentFirst ==
  [][pc = "take" /\ current' # NoId /\ IsIntraday(request[current'])
       => highPriority' = {}]_vars

\* Once the stock app stays on screen every accepted request is answered, however
\* many requests keep arriving: expiry bounds the wait of the low priorities.  Only
\* a failed allocation of the answer itself excuses the worker.
EveryRequestAnswered ==
  <>[]~paused => \A i \in Ids : i \in outstanding ~> i \notin outstanding \/ i \in lost

\* The worker implements the broker the controller is written against.
Broker == INSTANCE MarketRequestBroker WITH
            pending <- Held, answers <- resultQueue, lost <- lost
ImplementsBroker == Broker!BrokerSpec

=============================================================================
