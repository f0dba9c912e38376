-------------------------- MODULE StockController --------------------------
(***************************************************************************)
(* StockController (src/app/StockController.cpp) on the Arduino loop, over   *)
(* the broker that MarketDataWorker implements: which requests it asks for,  *)
(* how it keeps track of them in outstanding_, what it does with the         *)
(* answers, and how it tells trading days from the others.                   *)
(*                                                                         *)
(* Time is abstract: whether an interval has elapsed is chosen when the code *)
(* asks for it.  That a request is refused - the worker is paused, holds the *)
(* mutex, or its queue is full - is chosen too: a refused call changes       *)
(* nothing.  A cached quote is reduced to how its date compares with today,  *)
(* and to the stock it was fetched for.  What publishView() derives from     *)
(* this state for the screen is left out.                                    *)
(***************************************************************************)
EXTENDS MarketRequestBroker, FailoverPolicy, FiniteSets, Functions

CONSTANTS
  N,            \* number of configured stocks
  Pages,        \* bound: the stocks the user looks at
  Phases,       \* the times of day that occur
  Dates,        \* the dates quotes may carry
  FetchErrors   \* the errors answers may carry

Stocks  == 0..N - 1
NoStock == N

\* MarketClock::status distinguishes these; OPENING is 9:30, inside trading hours
\* but too early for canConfirmNonTradingDay.  UNSYNCED is an invalid local time.
AllPhases == {"UNSYNCED", "WEEKEND", "PRE_OPEN", "OPENING", "TRADING", "LUNCH", "CLOSED"}
AllDates  == {"today", "old", "undated"}

ASSUME ControllerAssumption ==
  /\ IsFiniteSet(Ids)   \* 32 bits wide in the code
  /\ N \in Nat \ {0}
  /\ Pages \subseteq Stocks /\ 0 \in Pages
  /\ Phases \subseteq AllPhases
  /\ Dates \subseteq AllDates
  /\ FetchErrors \subseteq Errors

Types == {"QUOTE", "INTRADAY", "PRIMARY_PROBE"}
CURRENT_QUOTE    == 0
BACKGROUND_QUOTE == 1
PRIMARY_PROBE    == 2
INTRADAY         == 3

\* OutstandingRequest
Context == [type : Types, stock : Stocks, provider : {TENCENT, EAST_MONEY}, priority : 0..3]
\* StockCacheEntry; quoteOf and intradayOf are the stocks the data was fetched for.
Cache   == [quote : AllDates \cup {"none"}, quoteOf : Stocks \cup {NoStock},
            intradayOf : Stocks \cup {NoStock}]

VARIABLES
  currentIndex,        \* the stock on screen
  roundRobinIndex,     \* where the next background quote is looked for
  outstanding,         \* outstanding_: request id -> its Context
  caches,
  failover,
  wifiOnline,
  lastLocal,           \* the phase lastLocal_ lies in
  confirmedNonTrading, \* confirmedNonTradingDateKey_ is the active date
  evidence             \* history: date of the latest dated quote of the active date

controllerVars == <<currentIndex, roundRobinIndex, outstanding, caches, failover,
                    wifiOnline, lastLocal, confirmedNonTrading, evidence>>
vars == <<brokerVars, controllerVars>>

-----------------------------------------------------------------------------
(* Fault variants *)

\* The result is stored for the stock on screen, not for the one it was asked for.
IndexOnScreen(context) == currentIndex

\* hasOutstandingAtOrAbove() that only looks for more urgent requests.
HasOutstandingAbove(k) ==
  \E i \in DOMAIN outstanding :
    /\ outstanding[i].type = k.type /\ outstanding[i].stock = k.stock
    /\ outstanding[i].priority < k.priority

\* A quote of today does not revoke the confirmed non-trading day.
KeepsConfirmation(date) ==
  IF date = "old" THEN confirmedNonTrading \/ lastLocal \in {"WEEKEND", "TRADING", "LUNCH"}
  ELSE confirmedNonTrading

\* scheduleTradingCycle() that does not move on after a request.
CandidateWithoutTurn == (currentIndex + 1) % N

\* An answer is matched without being erased from outstanding_.
KeepContext(i) == outstanding

-----------------------------------------------------------------------------
(* MarketClock and the trading day *)

Synced(phase) == phase # "UNSYNCED"

\* canConfirmNonTradingDay()
CanConfirm(phase) == phase \in {"WEEKEND", "TRADING", "LUNCH"}

\* isTrading(marketClock_.status(local, providerHasTodayData))
IsTrading(phase, providerHasTodayData) ==
  phase \in {"OPENING", "TRADING"} /\ providerHasTodayData

\* quoteIsForLocalDate() for a cached or received quote of the given date.
IsForLocalDate(date, phase) == date = "undated" \/ (date = "today" /\ Synced(phase))

\* quoteIsToday || !todayConfirmedNonTrading in tick().
ProviderHasTodayData(entry, phase, confirmed) ==
  \/ entry.quote = "none" \/ IsForLocalDate(entry.quote, phase)
  \/ ~(Synced(phase) /\ confirmed)

\* confirmedNonTradingDateKey_ after a quote of the given date.
ConfirmedAfter(date) ==
  IF IsForLocalDate(date, lastLocal)
  THEN confirmedNonTrading /\ ~Synced(lastLocal)
  ELSE confirmedNonTrading \/ (Synced(lastLocal) /\ CanConfirm(lastLocal))

-----------------------------------------------------------------------------
(* enqueueRequest() *)

Ask(type, stock, provider) ==
  [type |-> type, stock |-> stock, provider |-> provider,
   priority |-> CASE type = "INTRADAY"      -> INTRADAY
                  [] type = "PRIMARY_PROBE" -> PRIMARY_PROBE
                  [] OTHER -> IF stock = currentIndex THEN CURRENT_QUOTE
                                                      ELSE BACKGROUND_QUOTE]

AskQuote(stock) == Ask("QUOTE", stock, failover.active)
AskIntraday(stock) == Ask("INTRADAY", stock, TENCENT)
AskProbe(stock) == Ask("PRIMARY_PROBE", stock, TENCENT)

HasOutstandingAtOrAbove(k) ==
  \E i \in DOMAIN outstanding :
    /\ outstanding[i].type = k.type /\ outstanding[i].stock = k.stock
    /\ outstanding[i].priority <= k.priority

\* Ids for n new requests.  nextRequestId_ just counts up; the model uses again the
\* ids of answered requests, and which ones it takes makes no difference.
FreshIds(n) == CHOOSE ids \in SUBSET (Ids \ DOMAIN outstanding) : Cardinality(ids) = n

\* The worker takes some of the wanted requests that are not yet outstanding.
EnqueueSome(wanted) ==
  \E accepted \in SUBSET {k \in wanted : ~HasOutstandingAtOrAbove(k)} :
    /\ Cardinality(accepted) <= Cardinality(Ids \ DOMAIN outstanding)
    /\ LET ids     == FreshIds(Cardinality(accepted))
           context == CHOOSE f \in Bijection(ids, accepted) : TRUE
       IN  /\ Accept(ids)
           /\ outstanding' = [i \in DOMAIN outstanding \cup ids |->
                                IF i \in ids THEN context[i] ELSE outstanding[i]]

-----------------------------------------------------------------------------
(* tick() *)

\* The stock whose turn the background quote is: the round robin skips the
\* stock on screen.
Candidate == IF roundRobinIndex = currentIndex THEN (roundRobinIndex + 1) % N
                                               ELSE roundRobinIndex

TradingCycle == {AskQuote(currentIndex)} \cup (IF N > 1 THEN {AskQuote(Candidate)} ELSE {})

Expire(date) == IF date = "today" THEN "old" ELSE date

Tick(phase, newDay, quoteDue, intradayDue, probeDue) ==
  LET aged      == [s \in Stocks |-> IF newDay THEN [caches[s] EXCEPT !.quote = Expire(@)]
                                               ELSE caches[s]]
      confirmed == confirmedNonTrading /\ ~newDay
      shown     == aged[currentIndex]
      trading   == IsTrading(phase, ProviderHasTodayData(shown, phase, confirmed))
      askQuote  == shown.quote = "none" \/ quoteDue
      probe     == IF failover.active = EAST_MONEY /\ probeDue
                   THEN {AskProbe(currentIndex)} ELSE {}
      wanted    == (IF ~askQuote THEN {}
                    ELSE IF trading THEN TradingCycle ELSE {AskQuote(currentIndex)})
                   \cup (IF trading /\ intradayDue THEN {AskIntraday(currentIndex)} ELSE {})
                   \cup probe
  IN  /\ newDay => Synced(phase)
      /\ lastLocal' = phase
      /\ caches' = aged
      /\ confirmedNonTrading' = confirmed
      /\ evidence' = IF newDay THEN "none" ELSE evidence
      /\ IF wifiOnline
         THEN /\ EnqueueSome(wanted)
              /\ roundRobinIndex' = IF trading /\ askQuote /\ N > 1
                                    THEN (Candidate + 1) % N ELSE roundRobinIndex
         ELSE UNCHANGED <<brokerVars, outstanding, roundRobinIndex>>
      /\ UNCHANGED <<currentIndex, failover, wifiOnline>>

-----------------------------------------------------------------------------
(* The other entry points *)

SetWifiOnline ==
  /\ wifiOnline' = ~wifiOnline
  /\ UNCHANGED <<brokerVars, currentIndex, roundRobinIndex, outstanding, caches,
                 failover, lastLocal, confirmedNonTrading, evidence>>

\* onButton() and selectIndex(): scheduleForCurrent() asks for what is stale, with
\* the new currentIndex_ already in place.
Select(index, quoteStale, intradayStale) ==
  /\ index # currentIndex
  /\ currentIndex' = index
  /\ LET quote    == [AskQuote(index) EXCEPT !.priority = CURRENT_QUOTE]
         wanted   == (IF caches[index].quote = "none" \/ quoteStale THEN {quote} ELSE {})
                     \cup (IF caches[index].intradayOf = NoStock \/ intradayStale
                           THEN {AskIntraday(index)} ELSE {})
     IN  IF wifiOnline THEN EnqueueSome(wanted) ELSE UNCHANGED <<brokerVars, outstanding>>
  /\ UNCHANGED <<roundRobinIndex, caches, failover, wifiOnline, lastLocal,
                 confirmedNonTrading, evidence>>

\* cacheIndexFor() of the stock the context names.
IndexFor(context) == context.stock

\* outstanding_.erase()
EraseContext(i) == Restrict(outstanding, DOMAIN outstanding \ {i})

\* The answers that recordSuccess() and recordFailure() get to see.
Judged(context) == context.type # "INTRADAY"

\* One iteration of consumeMarketResults().  The queue is drained by repeating it.
ConsumeResult(date, inWindow) ==
  /\ Take
  /\ LET i       == Head(answers).id
         error   == Head(answers).error
         context == outstanding[i]
         index   == IndexFor(context)
         judged  == Judged(context)
         isQuote == context.type # "INTRADAY"
         stored  == error = "NONE"
                    /\ (context.type = "PRIMARY_PROBE" => failover'.active = TENCENT)
     IN  /\ outstanding' = EraseContext(i)
         /\ failover' = IF ~judged \/ error \in {"CANCELLED", "EXPIRED"} THEN failover
                        ELSE IF error = "NONE" THEN AfterSuccess(failover, context.provider)
                        ELSE AfterFailure(failover, context.provider, inWindow)
         /\ caches' =
              IF ~stored THEN caches
              ELSE IF isQuote
              THEN [caches EXCEPT ![index].quote = date, ![index].quoteOf = context.stock]
              ELSE [caches EXCEPT ![index].intradayOf = context.stock]
         /\ confirmedNonTrading' = IF stored /\ isQuote THEN ConfirmedAfter(date)
                                                       ELSE confirmedNonTrading
         /\ evidence' = IF stored /\ isQuote /\ Synced(lastLocal)
                        THEN (IF IsForLocalDate(date, lastLocal) THEN "today" ELSE "old")
                        ELSE evidence
  /\ UNCHANGED <<currentIndex, roundRobinIndex, wifiOnline, lastLocal>>

\* The worker answers, or loses the answer.
WorkerAnswers(i) == (\E error \in FetchErrors : Answer(i, error)) /\ UNCHANGED controllerVars
WorkerLoses(i)   == Lose(i) /\ UNCHANGED controllerVars

-----------------------------------------------------------------------------
\* begin()
Init ==
  /\ BrokerInit
  /\ currentIndex = 0
  /\ roundRobinIndex = IF N > 1 THEN 1 ELSE 0
  /\ outstanding = [i \in {} |-> 0]
  /\ caches = [s \in Stocks |-> [quote |-> "none", quoteOf |-> NoStock, intradayOf |-> NoStock]]
  /\ failover = InitialFailover
  /\ wifiOnline \in BOOLEAN
  /\ lastLocal = "UNSYNCED"
  /\ confirmedNonTrading = FALSE
  /\ evidence = "none"

Next ==
  \/ \E phase \in Phases, newDay, quoteDue, intradayDue, probeDue \in BOOLEAN :
       Tick(phase, newDay, quoteDue, intradayDue, probeDue)
  \/ SetWifiOnline
  \/ \E index \in Pages, quoteStale, intradayStale \in BOOLEAN :
       Select(index, quoteStale, intradayStale)
  \/ \E date \in Dates, inWindow \in BOOLEAN : ConsumeResult(date, inWindow)
  \/ \E i \in Ids : WorkerAnswers(i) \/ WorkerLoses(i)

Spec == Init /\ [][Next]_vars

QuoteAsked(s) ==
  \E i \in DOMAIN outstanding : outstanding[i].type = "QUOTE" /\ outstanding[i].stock = s

\* A tick whose interval has elapsed and which gets a quote of s into the queue.
TickAsks(s) ==
  /\ \E phase \in Phases, newDay, intradayDue, probeDue \in BOOLEAN :
       Tick(phase, newDay, TRUE, intradayDue, probeDue)
  /\ ~QuoteAsked(s) /\ QuoteAsked(s)'

\* The loop drains the results, the worker answers (MarketDataWorker's
\* EveryRequestAnswered), and a tick that wants a quote is not refused for ever:
\* the mutex is held for microseconds and the queue is bounded by expiry.
Fairness ==
  /\ \A s \in Stocks : SF_vars(TickAsks(s))
  /\ \A i \in Ids : WF_vars(WorkerAnswers(i))
  /\ WF_vars(\E date \in Dates, inWindow \in BOOLEAN : ConsumeResult(date, inWindow))
FairSpec == Spec /\ Fairness
-----------------------------------------------------------------------------
(* Properties *)

\* Every variable has its type.
TypeOK ==
  /\ pending \subseteq Ids /\ lost \subseteq Ids
  /\ answers \in Seq(Result) /\ Len(answers) <= ResultDepth
  /\ currentIndex \in Stocks /\ roundRobinIndex \in Stocks
  /\ outstanding \in [DOMAIN outstanding -> Context] /\ DOMAIN outstanding \subseteq Ids
  /\ caches \in [Stocks -> Cache]
  /\ failover \in Failover
  /\ wifiOnline \in BOOLEAN
  /\ lastLocal \in AllPhases
  /\ confirmedNonTrading \in BOOLEAN
  /\ evidence \in AllDates \cup {"none"}

\* outstanding_ mirrors the worker exactly, whatever happens between asking and
\* answering: consumeMarketResults() never meets an answer it does not wait for,
\* and never waits for a request the worker does not have.
OutstandingMirrorsWorker ==
  /\ DOMAIN outstanding = pending \cup Answered \cup lost
  /\ pending \cap Answered = {} /\ lost \cap (pending \cup Answered) = {}

\* At most one request of a kind and urgency is under way per stock, so at most
\* one intraday request and two quotes; page changes may raise the urgency but
\* never ask for the same thing twice.
OneRequestPerUrgency ==
  \A i, j \in DOMAIN outstanding :
    /\ outstanding[i].type = outstanding[j].type
    /\ outstanding[i].stock = outstanding[j].stock
    /\ outstanding[i].priority = outstanding[j].priority
    => i = j

\* No stock ever shows the data of another one, although answers arrive after the
\* page they were asked for has been left.
NoForeignData ==
  \A s \in Stocks : /\ caches[s].quoteOf \in {s, NoStock}
                    /\ caches[s].intradayOf \in {s, NoStock}

\* A day counts as confirmed non-trading only as long as the latest quote that was
\* judged that day was an old one: one quote of today revokes it.
ConfirmedByLatestQuote == confirmedNonTrading => evidence = "old"

\* The health of the chart never decides where quotes come from: only answers to
\* quotes and probes move the failover, also when the intraday request was asked
\* from the same provider and fails between them.
OnlyQuotesMoveFailover ==
  [][failover' # failover
       => Len(answers') < Len(answers)
          /\ outstanding[Head(answers).id].type \in {"QUOTE", "PRIMARY_PROBE"}]_vars

\* During trading hours, while the page stays and the answers come in, every stock
\* gets its quote asked for again and again, on screen or not: the round robin
\* starves none.
EveryStockRefreshed ==
  <>[](wifiOnline /\ lastLocal = "TRADING") /\ (\E c \in Stocks : <>[](currentIndex = c))
    => \A s \in Stocks : []<>QuoteAsked(s) /\ []<>~QuoteAsked(s)

-----------------------------------------------------------------------------
(* A statement of the design document that the code does not keep *)

\* Section 6: no entry of outstanding_ is occupied permanently.
OutstandingReleased ==
  \A i \in Ids : i \in DOMAIN outstanding ~> i \notin DOMAIN outstanding
=============================================================================
