----------------------- MODULE StockControllerProofs -----------------------
(***************************************************************************)
(* The invariants of StockController, for any number of stocks, ids and      *)
(* places for results: types, that outstanding_ and the worker agree, that   *)
(* nothing is asked for twice, that no stock gets the data of another one,   *)
(* and what a confirmed non-trading day rests on.                            *)
(***************************************************************************)
EXTENDS StockController, SequenceTheorems, FunctionTheorems, FiniteSetTheorems, TLAPS

-----------------------------------------------------------------------------
(* Ids and requests *)

\* A finite set has subsets of every smaller size.
LEMMA SubsetOfSize ==
  ASSUME NEW S, IsFiniteSet(S), NEW n \in Nat, n <= Cardinality(S)
  PROVE  \E T \in SUBSET S : Cardinality(T) = n
<1>1. Cardinality(S) \in Nat /\ ExistsBijection(1..Cardinality(S), S)
  BY FS_CardinalityType
<1>2. PICK f : f \in Bijection(1..Cardinality(S), S)
  BY <1>1 DEF ExistsBijection
<1>3. 1..n \in SUBSET (1..Cardinality(S))
  BY <1>1
<1> DEFINE T == Range(Restrict(f, 1..n))
<1>4. Restrict(f, 1..n) \in Bijection(1..n, T)
  BY <1>2, <1>3, Fun_BijRestrict
<1>5. Cardinality(T) = n
  <2>1. ExistsBijection(1..n, T)
    BY <1>4 DEF ExistsBijection
  <2> QED BY <2>1, FS_CountingElements
<1>6. T \in SUBSET S
  <2>1. f \in [1..Cardinality(S) -> S]
    BY <1>2 DEF Bijection, Injection
  <2> QED BY <1>3, <2>1 DEF Restrict, Range
<1> QED BY <1>5, <1>6

Unused == Ids \ DOMAIN outstanding

\* FreshIds() finds what it looks for.
LEMMA FreshIdsExist ==
  ASSUME NEW n \in Nat, n <= Cardinality(Unused)
  PROVE  FreshIds(n) \in SUBSET Unused /\ Cardinality(FreshIds(n)) = n
<1>1. IsFiniteSet(Unused)
  BY ControllerAssumption, FS_Difference DEF Unused
<1>2. \E T \in SUBSET Unused : Cardinality(T) = n
  BY <1>1, SubsetOfSize
<1> QED BY <1>2 DEF FreshIds, Unused

\* What EnqueueSome() does: fresh ids, each for a request of its own, all of them wanted
\* and none of them outstanding.
LEMMA Enqueued ==
  ASSUME NEW wanted, IsFiniteSet(wanted), EnqueueSome(wanted)
  PROVE  \E ids \in SUBSET Unused :
           /\ Accept(ids)
           /\ DOMAIN outstanding' = DOMAIN outstanding \cup ids
           /\ \A i \in DOMAIN outstanding : outstanding'[i] = outstanding[i]
           /\ \A i \in ids : outstanding'[i] \in wanted /\ ~HasOutstandingAtOrAbove(outstanding'[i])
           /\ \A i, j \in ids : outstanding'[i] = outstanding'[j] => i = j
<1>1. PICK accepted \in SUBSET {k \in wanted : ~HasOutstandingAtOrAbove(k)} :
        /\ Cardinality(accepted) <= Cardinality(Unused)
        /\ LET ids     == FreshIds(Cardinality(accepted))
               context == CHOOSE f \in Bijection(ids, accepted) : TRUE
           IN  /\ Accept(ids)
               /\ outstanding' = [i \in DOMAIN outstanding \cup ids |->
                                    IF i \in ids THEN context[i] ELSE outstanding[i]]
  BY DEF EnqueueSome, Unused
<1> DEFINE ids     == FreshIds(Cardinality(accepted))
           context == CHOOSE f \in Bijection(ids, accepted) : TRUE
<1>2. IsFiniteSet(accepted) /\ Cardinality(accepted) \in Nat
  <2>1. accepted \in SUBSET wanted
    BY <1>1
  <2> QED BY <2>1, FS_Subset, FS_CardinalityType
<1>3. ids \in SUBSET Unused /\ Cardinality(ids) = Cardinality(accepted)
  BY <1>1, <1>2, FreshIdsExist
<1>4. IsFiniteSet(ids)
  <2>1. IsFiniteSet(Unused)
    BY ControllerAssumption, FS_Difference DEF Unused
  <2> QED BY <1>3, <2>1, FS_Subset
<1>5. ExistsBijection(ids, accepted)
  BY <1>2, <1>3, <1>4, FS_SameCardinalityBij
<1>6. /\ Accept(ids)
      /\ outstanding' = [i \in DOMAIN outstanding \cup ids |->
                           IF i \in ids THEN context[i] ELSE outstanding[i]]
  BY <1>1
<1> HIDE DEF ids
<1>7. context \in Bijection(ids, accepted)
  BY <1>5 DEF ExistsBijection
<1> HIDE DEF context
<1>8. context \in [ids -> accepted] /\ \A i, j \in ids : context[i] = context[j] => i = j
  BY <1>7, Fun_BijectionProperties
<1>9. /\ \A i \in DOMAIN outstanding : outstanding'[i] = outstanding[i]
      /\ \A i \in ids : outstanding'[i] = context[i]
      /\ DOMAIN outstanding' = DOMAIN outstanding \cup ids
  BY <1>3, <1>6 DEF Unused
<1>10. \A i \in ids : outstanding'[i] \in wanted /\ ~HasOutstandingAtOrAbove(outstanding'[i])
  <2> SUFFICES ASSUME NEW i \in ids
               PROVE  outstanding'[i] \in wanted /\ ~HasOutstandingAtOrAbove(outstanding'[i])
    OBVIOUS
  <2>1. PICK k \in accepted : outstanding'[i] = k
    BY <1>8, <1>9
  <2>2. k \in wanted /\ ~HasOutstandingAtOrAbove(k)
    BY <1>1
  <2> QED BY <2>1, <2>2
<1>11. \A i, j \in ids : outstanding'[i] = outstanding'[j] => i = j
  BY <1>8, <1>9
<1> QED BY <1>3, <1>6, <1>9, <1>10, <1>11

-----------------------------------------------------------------------------
(* Answers *)

\* The answers are for different requests.
DistinctAnswers == \A j, k \in DOMAIN answers : answers[j].id = answers[k].id => j = k

LEMMA AnswerAppended ==
  ASSUME answers \in Seq(Result), DistinctAnswers, NEW i \in Ids, NEW error \in FetchErrors,
         Answer(i, error), i \notin Answered
  PROVE  Answered' = Answered \cup {i} /\ DistinctAnswers' /\ answers' \in Seq(Result)
         /\ Len(answers') <= ResultDepth
<1> DEFINE result == [id |-> i, error |-> error]
<1>1. result \in Result /\ answers' = Append(answers, result) /\ Len(answers) < ResultDepth
  BY ControllerAssumption DEF Answer, Result
<1> HIDE DEF result
<1>2. /\ Len(answers) \in Nat /\ DOMAIN answers = 1..Len(answers)
      /\ answers' \in Seq(Result) /\ Len(answers') = Len(answers) + 1
  BY <1>1, LenProperties, AppendProperties
<1>3. /\ DOMAIN answers' = 1..Len(answers) + 1 /\ answers'[Len(answers) + 1] = result
      /\ \A k \in 1..Len(answers) : answers'[k] = answers[k]
  BY <1>1, <1>2, LenProperties, AppendProperties
<1>4. result.id = i
  BY DEF result
<1>5. Answered' = Answered \cup {i}
  <2>1. Answered' = {answers'[k].id : k \in 1..Len(answers)} \cup {i}
    BY <1>2, <1>3, <1>4 DEF Answered
  <2> QED BY <1>2, <1>3, <2>1 DEF Answered
<1>6. DistinctAnswers'
  <2>1. \A k \in 1..Len(answers) : answers[k].id # i
    BY <1>2 DEF Answered
  <2> QED BY <1>2, <1>3, <1>4, <2>1 DEF DistinctAnswers
<1> QED BY <1>1, <1>2, <1>5, <1>6, BrokerAssumption

LEMMA AnswerTaken ==
  ASSUME answers \in Seq(Result), Len(answers) <= ResultDepth, DistinctAnswers, Take
  PROVE  /\ Head(answers) \in Result /\ Head(answers).id \in Answered
         /\ Answered' = Answered \ {Head(answers).id} /\ DistinctAnswers'
         /\ answers' \in Seq(Result) /\ Len(answers') <= ResultDepth
<1>1. /\ answers # <<>> /\ answers' = Tail(answers)
      /\ Len(answers) \in Nat \ {0} /\ DOMAIN answers = 1..Len(answers)
      /\ answers' \in Seq(Result) /\ Len(answers') = Len(answers) - 1
      /\ Head(answers) = answers[1] /\ Head(answers) \in Result
  BY HeadTailProperties, LenProperties, EmptySeq DEF Take
<1>2. DOMAIN answers' = 1..Len(answers) - 1 /\ \A k \in 1..Len(answers) - 1 : answers'[k] = answers[k + 1]
  BY <1>1, LenProperties, HeadTailProperties
<1>3. DistinctAnswers'
  <2> SUFFICES ASSUME NEW j \in 1..Len(answers) - 1, NEW k \in 1..Len(answers) - 1,
                      answers'[j].id = answers'[k].id
               PROVE  j = k
    BY <1>2 DEF DistinctAnswers
  <2>1. j + 1 \in DOMAIN answers /\ k + 1 \in DOMAIN answers /\ answers[j + 1].id = answers[k + 1].id
    BY <1>1, <1>2
  <2>2. j + 1 = k + 1
    BY <2>1 DEF DistinctAnswers
  <2> QED BY <1>1, <2>2
<1>4. Answered' = Answered \ {Head(answers).id}
  <2>1. ASSUME NEW x \in Answered' PROVE x \in Answered /\ x # Head(answers).id
    <3>1. PICK k \in 1..Len(answers) - 1 : x = answers[k + 1].id
      BY <1>2, <2>1 DEF Answered
    <3>2. k + 1 \in DOMAIN answers /\ 1 \in DOMAIN answers /\ k + 1 # 1
      BY <1>1
    <3> QED BY <1>1, <3>1, <3>2 DEF Answered, DistinctAnswers
  <2>2. ASSUME NEW x \in Answered, x # Head(answers).id PROVE x \in Answered'
    <3>1. PICK k \in DOMAIN answers : x = answers[k].id
      BY <2>2 DEF Answered
    <3>2. k - 1 \in 1..Len(answers) - 1 /\ answers'[k - 1] = answers[k]
      BY <1>1, <1>2, <2>2, <3>1
    <3> QED BY <1>2, <3>1, <3>2 DEF Answered
  <2> QED BY <2>1, <2>2
<1>5. Head(answers).id \in Answered
  BY <1>1 DEF Answered
<1> QED BY <1>1, <1>3, <1>4, <1>5, BrokerAssumption

-----------------------------------------------------------------------------
(* The inductive invariant *)

Inv ==
  /\ TypeOK
  /\ OutstandingMirrorsWorker /\ DistinctAnswers
  /\ OneRequestPerUrgency
  /\ NoForeignData

\* What a tick or a page change wants: requests, and none of them twice.
Wanted(wanted) ==
  /\ wanted \subseteq Context /\ IsFiniteSet(wanted)
  /\ \A k, l \in wanted : k.type = l.type /\ k.stock = l.stock => k = l

\* The part of the invariant that a step leaves to the worker and enqueueRequest().
RequestsInv ==
  /\ pending \subseteq Ids /\ lost \subseteq Ids
  /\ answers \in Seq(Result) /\ Len(answers) <= ResultDepth
  /\ outstanding \in [DOMAIN outstanding -> Context] /\ DOMAIN outstanding \subseteq Ids
  /\ OutstandingMirrorsWorker /\ DistinctAnswers
  /\ OneRequestPerUrgency

\* Whatever part of the wanted requests the worker takes.
LEMMA EnqueueKeeps ==
  ASSUME RequestsInv, NEW wanted, Wanted(wanted), EnqueueSome(wanted)
  PROVE  RequestsInv'
<1>1. PICK ids \in SUBSET Unused :
        /\ Accept(ids)
        /\ DOMAIN outstanding' = DOMAIN outstanding \cup ids
        /\ \A i \in DOMAIN outstanding : outstanding'[i] = outstanding[i]
        /\ \A i \in ids : outstanding'[i] \in wanted /\ ~HasOutstandingAtOrAbove(outstanding'[i])
        /\ \A i, j \in ids : outstanding'[i] = outstanding'[j] => i = j
  BY Enqueued DEF Wanted
<1>2. /\ pending' = pending \cup ids /\ UNCHANGED <<answers, lost>>
      /\ ids \subseteq Ids /\ ids \cap DOMAIN outstanding = {}
      /\ ids \cap (pending \cup Answered \cup lost) = {}
  BY <1>1 DEF Accept, Unused
<1>3. Answered' = Answered
  BY <1>2 DEF Answered
<1>4. OutstandingMirrorsWorker' /\ DistinctAnswers'
  BY <1>1, <1>2, <1>3 DEF RequestsInv, OutstandingMirrorsWorker, DistinctAnswers
<1>5. \A i \in DOMAIN outstanding' : outstanding'[i] \in Context
  BY <1>1 DEF RequestsInv, Wanted
<1>6. outstanding' \in [DOMAIN outstanding' -> Context]
  <2>1. outstanding' = [i \in DOMAIN outstanding' |-> outstanding'[i]]
    BY DEF EnqueueSome
  <2> QED BY <1>5, <2>1
<1>7. OneRequestPerUrgency'
  <2> SUFFICES ASSUME NEW i \in DOMAIN outstanding', NEW j \in DOMAIN outstanding',
                      outstanding'[i].type = outstanding'[j].type,
                      outstanding'[i].stock = outstanding'[j].stock,
                      outstanding'[i].priority = outstanding'[j].priority
               PROVE  i = j
    BY DEF OneRequestPerUrgency
  <2>1. CASE i \in ids /\ j \in ids
    <3>1. outstanding'[i] = outstanding'[j]
      BY <1>1, <2>1 DEF Wanted
    <3> QED BY <1>1, <2>1, <3>1
  <2>2. ASSUME NEW a \in ids, NEW b \in DOMAIN outstanding,
               outstanding'[a].type = outstanding[b].type,
               outstanding'[a].stock = outstanding[b].stock,
               outstanding'[a].priority = outstanding[b].priority
        PROVE  FALSE
    <3>1. outstanding[b].priority \in Nat
      BY DEF RequestsInv, Context
    <3>2. outstanding[b].priority <= outstanding'[a].priority
      BY <2>2, <3>1
    <3>3. ~HasOutstandingAtOrAbove(outstanding'[a])
      BY <1>1
    <3> QED BY <2>2, <3>2, <3>3 DEF HasOutstandingAtOrAbove
  <2>3. CASE i \in DOMAIN outstanding /\ j \in DOMAIN outstanding
    BY <1>1, <2>3 DEF RequestsInv, OneRequestPerUrgency
  <2>4. CASE i \in ids /\ j \in DOMAIN outstanding
    BY <1>1, <2>2, <2>4
  <2>5. CASE i \in DOMAIN outstanding /\ j \in ids
    BY <1>1, <2>2, <2>5
  <2> QED BY <1>1, <2>1, <2>3, <2>4, <2>5
<1> QED BY <1>1, <1>2, <1>4, <1>6, <1>7 DEF RequestsInv

\* The rest of the types.
RestOK ==
  /\ currentIndex \in Stocks /\ roundRobinIndex \in Stocks
  /\ caches \in [Stocks -> Cache]
  /\ failover \in Failover
  /\ wifiOnline \in BOOLEAN
  /\ lastLocal \in AllPhases
  /\ confirmedNonTrading \in BOOLEAN
  /\ evidence \in AllDates \cup {"none"}

LEMMA InvParts == Inv <=> RequestsInv /\ RestOK /\ NoForeignData
  BY DEF Inv, TypeOK, RequestsInv, RestOK

LEMMA CountOfStocks == N \in Nat \ {0} /\ 0 \in Stocks
  BY ControllerAssumption DEF Stocks

LEMMA NextStockType == ASSUME NEW s \in Stocks PROVE (s + 1) % N \in Stocks
<1>1. (s + 1) % N \in 0..N - 1
  BY CountOfStocks DEF Stocks
<1> QED BY <1>1 DEF Stocks

LEMMA AskTypes ==
  ASSUME RestOK, NEW s \in Stocks
  PROVE  /\ AskQuote(s) \in Context /\ AskIntraday(s) \in Context /\ AskProbe(s) \in Context
         /\ AskQuote(s).type = "QUOTE" /\ AskIntraday(s).type = "INTRADAY"
         /\ AskProbe(s).type = "PRIMARY_PROBE"
         /\ AskQuote(s).stock = s
  BY DEF RestOK, AskQuote, AskIntraday, AskProbe, Ask, Context, Types, Failover,
         CURRENT_QUOTE, BACKGROUND_QUOTE, PRIMARY_PROBE, INTRADAY

\* The requests of a tick: the quotes of one or two stocks, a chart, a probe.
LEMMA WantedOfTick ==
  ASSUME RestOK, NEW quotes \in SUBSET {AskQuote(currentIndex), AskQuote(Candidate)},
         NEW charts \in SUBSET {AskIntraday(currentIndex)}, NEW probe \in SUBSET {AskProbe(currentIndex)}
  PROVE  Wanted(quotes \cup charts \cup probe)
<1>1. currentIndex \in Stocks /\ Candidate \in Stocks
  BY NextStockType DEF RestOK, Candidate
<1> DEFINE all == {AskQuote(currentIndex), AskQuote(Candidate), AskIntraday(currentIndex), AskProbe(currentIndex)}
<1>2. IsFiniteSet(all)
  <2>1. all = (({AskQuote(currentIndex)} \cup {AskQuote(Candidate)}) \cup {AskIntraday(currentIndex)})
                \cup {AskProbe(currentIndex)}
    OBVIOUS
  <2>2. IsFiniteSet({AskQuote(currentIndex)}) /\ IsFiniteSet({AskQuote(Candidate)})
        /\ IsFiniteSet({AskIntraday(currentIndex)}) /\ IsFiniteSet({AskProbe(currentIndex)})
    BY FS_Singleton
  <2>3. IsFiniteSet({AskQuote(currentIndex)} \cup {AskQuote(Candidate)})
    BY <2>2, FS_Union
  <2>4. IsFiniteSet(({AskQuote(currentIndex)} \cup {AskQuote(Candidate)}) \cup {AskIntraday(currentIndex)})
    BY <2>2, <2>3, FS_Union
  <2> DEFINE three == ({AskQuote(currentIndex)} \cup {AskQuote(Candidate)}) \cup {AskIntraday(currentIndex)}
  <2> HIDE DEF three
  <2>5. IsFiniteSet(three \cup {AskProbe(currentIndex)})
    BY <2>2, <2>4, FS_Union DEF three
  <2> QED BY <2>1, <2>5 DEF three
<1>3. quotes \cup charts \cup probe \in SUBSET all
  OBVIOUS
<1>4. IsFiniteSet(quotes \cup charts \cup probe)
  BY <1>2, <1>3, FS_Subset
<1>5. /\ AskQuote(currentIndex) \in Context /\ AskIntraday(currentIndex) \in Context
      /\ AskProbe(currentIndex) \in Context /\ AskQuote(Candidate) \in Context
      /\ AskQuote(currentIndex).type = "QUOTE" /\ AskQuote(currentIndex).stock = currentIndex
      /\ AskQuote(Candidate).type = "QUOTE" /\ AskQuote(Candidate).stock = Candidate
      /\ AskIntraday(currentIndex).type = "INTRADAY" /\ AskProbe(currentIndex).type = "PRIMARY_PROBE"
  BY <1>1, AskTypes
<1>6. Candidate = currentIndex => AskQuote(Candidate) = AskQuote(currentIndex)
  OBVIOUS
<1>7. \A k, l \in all : k.type = l.type /\ k.stock = l.stock => k = l
  BY <1>5, <1>6
<1> HIDE DEF all
<1> QED BY <1>3, <1>4, <1>5, <1>7 DEF Wanted, all

\* The requests of a page change, whose priority is that of the new page.
LEMMA WantedOfPage ==
  ASSUME RestOK, NEW s \in Stocks,
         NEW quotes \in SUBSET {[AskQuote(s) EXCEPT !.priority = CURRENT_QUOTE]},
         NEW charts \in SUBSET {AskIntraday(s)}
  PROVE  Wanted(quotes \cup charts)
<1> DEFINE quote == [AskQuote(s) EXCEPT !.priority = CURRENT_QUOTE]
<1>1. quote \in Context /\ quote.type = "QUOTE" /\ AskIntraday(s) \in Context /\ AskIntraday(s).type = "INTRADAY"
  BY AskTypes DEF Context, CURRENT_QUOTE
<1> HIDE DEF quote
<1>2. IsFiniteSet({quote} \cup {AskIntraday(s)})
  BY FS_Singleton, FS_Union
<1>3. quotes \cup charts \in SUBSET ({quote} \cup {AskIntraday(s)})
  BY DEF quote
<1>4. IsFiniteSet(quotes \cup charts)
  BY <1>2, <1>3, FS_Subset
<1> QED BY <1>1, <1>3, <1>4 DEF Wanted

-----------------------------------------------------------------------------
(* The steps *)

LEMMA TickKeeps ==
  ASSUME Inv, NEW phase \in Phases, NEW newDay \in BOOLEAN, NEW quoteDue \in BOOLEAN,
         NEW intradayDue \in BOOLEAN, NEW probeDue \in BOOLEAN,
         Tick(phase, newDay, quoteDue, intradayDue, probeDue)
  PROVE  Inv'
<1> DEFINE aged      == [s \in Stocks |-> IF newDay THEN [caches[s] EXCEPT !.quote = Expire(@)]
                                                    ELSE caches[s]]
           confirmed == confirmedNonTrading /\ ~newDay
           shown     == aged[currentIndex]
           trading   == IsTrading(phase, ProviderHasTodayData(shown, phase, confirmed))
           askQuote  == shown.quote = "none" \/ quoteDue
           quotes    == IF ~askQuote THEN {} ELSE IF trading THEN TradingCycle ELSE {AskQuote(currentIndex)}
           charts    == IF trading /\ intradayDue THEN {AskIntraday(currentIndex)} ELSE {}
           probe     == IF failover.active = EAST_MONEY /\ probeDue THEN {AskProbe(currentIndex)} ELSE {}
<1>1. RequestsInv /\ RestOK /\ NoForeignData
  BY InvParts
<1>2. /\ lastLocal' = phase /\ caches' = aged /\ confirmedNonTrading' = confirmed
      /\ evidence' = IF newDay THEN "none" ELSE evidence
      /\ UNCHANGED <<currentIndex, failover, wifiOnline>>
      /\ \/ /\ EnqueueSome(quotes \cup charts \cup probe)
            /\ roundRobinIndex' = IF trading /\ askQuote /\ N > 1 THEN (Candidate + 1) % N ELSE roundRobinIndex
         \/ UNCHANGED <<brokerVars, outstanding, roundRobinIndex>>
  BY DEF Tick
<1>3. /\ quotes \in SUBSET {AskQuote(currentIndex), AskQuote(Candidate)}
      /\ charts \in SUBSET {AskIntraday(currentIndex)} /\ probe \in SUBSET {AskProbe(currentIndex)}
  BY DEF TradingCycle
<1>4. aged \in [Stocks -> Cache] /\ \A s \in Stocks : /\ aged[s].quoteOf = caches[s].quoteOf
                                                      /\ aged[s].intradayOf = caches[s].intradayOf
  BY <1>1 DEF RestOK, Cache, Expire, AllDates
<1>5. confirmed \in BOOLEAN
  OBVIOUS
<1>6. Candidate \in Stocks
  BY <1>1, NextStockType DEF RestOK, Candidate
<1> HIDE DEF aged, confirmed, quotes, charts, probe, trading, askQuote
<1>7. RequestsInv'
  <2>1. CASE EnqueueSome(quotes \cup charts \cup probe)
    BY <1>1, <1>3, <2>1, WantedOfTick, EnqueueKeeps
  <2>2. CASE UNCHANGED <<brokerVars, outstanding>>
    BY <1>1, <2>2 DEF brokerVars, RequestsInv, OutstandingMirrorsWorker, Answered, DistinctAnswers,
                      OneRequestPerUrgency
  <2> QED BY <1>2, <2>1, <2>2
<1>8. roundRobinIndex' \in Stocks
  BY <1>1, <1>2, <1>6, NextStockType DEF RestOK
<1>9. RestOK'
  <2>1. phase \in AllPhases
    BY ControllerAssumption
  <2> QED BY <1>1, <1>2, <1>4, <1>5, <1>8, <2>1 DEF RestOK
<1>10. NoForeignData'
  BY <1>1, <1>2, <1>4 DEF NoForeignData
<1>11. (RequestsInv /\ RestOK /\ NoForeignData)'
  BY <1>7, <1>9, <1>10
<1> QED BY <1>11, InvParts, PTL

LEMMA SelectKeeps ==
  ASSUME Inv, NEW index \in Pages, NEW quoteStale, NEW intradayStale,
         Select(index, quoteStale, intradayStale)
  PROVE  Inv'
<1> DEFINE quote  == [AskQuote(index) EXCEPT !.priority = CURRENT_QUOTE]
           quotes == IF caches[index].quote = "none" \/ quoteStale THEN {quote} ELSE {}
           charts == IF caches[index].intradayOf = NoStock \/ intradayStale THEN {AskIntraday(index)} ELSE {}
<1>1. RequestsInv /\ RestOK /\ NoForeignData /\ index \in Stocks
  BY InvParts, ControllerAssumption
<1>2. /\ currentIndex' = index
      /\ EnqueueSome(quotes \cup charts) \/ UNCHANGED <<brokerVars, outstanding>>
      /\ UNCHANGED <<roundRobinIndex, caches, failover, wifiOnline, lastLocal, confirmedNonTrading, evidence>>
  BY DEF Select
<1>3. quotes \in SUBSET {quote} /\ charts \in SUBSET {AskIntraday(index)}
  OBVIOUS
<1>4. Wanted(quotes \cup charts)
  BY <1>1, <1>3, WantedOfPage
<1> HIDE DEF quotes, charts
<1>5. RequestsInv'
  <2>1. CASE EnqueueSome(quotes \cup charts)
    BY <1>1, <1>4, <2>1, EnqueueKeeps
  <2>2. CASE UNCHANGED <<brokerVars, outstanding>>
    BY <1>1, <2>2 DEF brokerVars, RequestsInv, OutstandingMirrorsWorker, Answered, DistinctAnswers,
                      OneRequestPerUrgency
  <2> QED BY <1>2, <2>1, <2>2
<1>6. RestOK' /\ NoForeignData'
  BY <1>1, <1>2 DEF RestOK, NoForeignData
<1>7. (RequestsInv /\ RestOK /\ NoForeignData)'
  BY <1>5, <1>6
<1> QED BY <1>7, InvParts, PTL

LEMMA FailoverTypes ==
  ASSUME NEW f \in Failover, NEW provider, NEW inWindow
  PROVE  AfterSuccess(f, provider) \in Failover /\ AfterFailure(f, provider, inWindow) \in Failover
<1>1. AfterSuccess(f, provider) \in Failover
  BY DEF AfterSuccess, Failover, InitialFailover, RecoveryLimit, FailureLimit, TENCENT, EAST_MONEY
<1>2. AfterFailure(f, provider, inWindow) \in Failover
  BY DEF AfterFailure, CountFailure, Failover, RecoveryLimit, FailureLimit, TENCENT, EAST_MONEY
<1> QED BY <1>1, <1>2

LEMMA ConsumeKeeps ==
  ASSUME Inv, NEW date \in Dates, NEW inWindow, ConsumeResult(date, inWindow)
  PROVE  Inv'
<1> DEFINE i       == Head(answers).id
           context == outstanding[i]
<1>1. RequestsInv /\ RestOK /\ NoForeignData
  BY InvParts
<1>2. Take /\ UNCHANGED <<pending, lost, currentIndex, roundRobinIndex, wifiOnline, lastLocal>>
      /\ outstanding' = [j \in DOMAIN outstanding \ {i} |-> outstanding[j]]
  BY DEF ConsumeResult, Take, EraseContext, Restrict
<1>3. /\ i \in Answered /\ Answered' = Answered \ {i} /\ DistinctAnswers'
      /\ answers' \in Seq(Result) /\ Len(answers') <= ResultDepth
  BY <1>1, <1>2, AnswerTaken DEF RequestsInv
<1>4. context \in Context /\ i \in DOMAIN outstanding
  BY <1>1, <1>3 DEF RequestsInv, OutstandingMirrorsWorker
<1>5. RequestsInv'
  <2>1. OutstandingMirrorsWorker'
    BY <1>1, <1>2, <1>3 DEF RequestsInv, OutstandingMirrorsWorker
  <2>2. OneRequestPerUrgency'
    BY <1>1, <1>2 DEF RequestsInv, OneRequestPerUrgency
  <2>3. outstanding' \in [DOMAIN outstanding' -> Context] /\ DOMAIN outstanding' \subseteq Ids
    BY <1>1, <1>2 DEF RequestsInv
  <2> QED BY <1>1, <1>2, <1>3, <2>1, <2>2, <2>3 DEF RequestsInv
<1>6. context.stock \in Stocks /\ date \in AllDates
  BY <1>4, ControllerAssumption DEF Context
<1>7. \/ caches' = caches
      \/ caches' = [caches EXCEPT ![context.stock].quote = date, ![context.stock].quoteOf = context.stock]
      \/ caches' = [caches EXCEPT ![context.stock].intradayOf = context.stock]
  <2> DEFINE isQuote == context.type # "INTRADAY"
             stored  == Head(answers).error = "NONE"
                        /\ (context.type = "PRIMARY_PROBE" => failover'.active = TENCENT)
             toQuote == [caches EXCEPT ![context.stock].quote = date, ![context.stock].quoteOf = context.stock]
             toChart == [caches EXCEPT ![context.stock].intradayOf = context.stock]
  <2>1. IndexFor(context) = context.stock
    BY DEF IndexFor
  <2>2. caches' = IF ~stored THEN caches ELSE IF isQuote THEN toQuote ELSE toChart
    BY <2>1, Zenon DEF ConsumeResult
  <2> HIDE DEF isQuote, stored, toQuote, toChart
  <2>3. caches' = caches \/ caches' = toQuote \/ caches' = toChart
    BY <2>2
  <2> QED BY <2>3 DEF toQuote, toChart
<1>8. failover' \in Failover
  <2>1. \/ failover' = failover
        \/ failover' = AfterSuccess(failover, context.provider)
        \/ failover' = AfterFailure(failover, context.provider, inWindow)
    BY DEF ConsumeResult
  <2> QED BY <1>1, <2>1, FailoverTypes DEF RestOK
<1>9. confirmedNonTrading' \in BOOLEAN /\ evidence' \in AllDates \cup {"none"}
  <2>1. confirmedNonTrading' = confirmedNonTrading \/ confirmedNonTrading' = ConfirmedAfter(date)
    BY DEF ConsumeResult
  <2>2. ConfirmedAfter(date) \in BOOLEAN
    BY DEF ConfirmedAfter
  <2>3. evidence' \in {"today", "old", evidence}
    BY DEF ConsumeResult
  <2> QED BY <1>1, <2>1, <2>2, <2>3 DEF RestOK, AllDates
<1> HIDE DEF i, context
<1>10. caches' \in [Stocks -> Cache] /\ NoForeignData'
  <2>1. CASE caches' = caches
    BY <1>1, <2>1 DEF RestOK, NoForeignData
  <2>2. CASE caches' = [caches EXCEPT ![context.stock].quote = date, ![context.stock].quoteOf = context.stock]
    <3>1. \A s \in Stocks : caches[s] \in Cache
      BY <1>1 DEF RestOK
    <3>2. caches' \in [Stocks -> Cache]
      BY <1>1, <1>6, <2>2, <3>1 DEF RestOK, Cache
    <3>3. \A s \in Stocks : /\ caches'[s].quoteOf \in {caches[s].quoteOf, s}
                            /\ caches'[s].intradayOf = caches[s].intradayOf
      BY <1>1, <1>6, <2>2, <3>1 DEF RestOK, Cache
    <3> QED BY <1>1, <3>2, <3>3 DEF NoForeignData
  <2>3. CASE caches' = [caches EXCEPT ![context.stock].intradayOf = context.stock]
    <3>1. \A s \in Stocks : caches[s] \in Cache
      BY <1>1 DEF RestOK
    <3>2. caches' \in [Stocks -> Cache]
      BY <1>1, <1>6, <2>3, <3>1 DEF RestOK, Cache
    <3>3. \A s \in Stocks : /\ caches'[s].intradayOf \in {caches[s].intradayOf, s}
                            /\ caches'[s].quoteOf = caches[s].quoteOf
      BY <1>1, <1>6, <2>3, <3>1 DEF RestOK, Cache
    <3> QED BY <1>1, <3>2, <3>3 DEF NoForeignData
  <2> QED BY <1>7, <2>1, <2>2, <2>3
<1>11. RestOK'
  BY <1>1, <1>2, <1>8, <1>9, <1>10 DEF RestOK
<1>12. (RequestsInv /\ RestOK /\ NoForeignData)'
  BY <1>5, <1>10, <1>11
<1> QED BY <1>12, InvParts, PTL

LEMMA WorkerKeeps ==
  ASSUME Inv, NEW i \in Ids, WorkerAnswers(i) \/ WorkerLoses(i)
  PROVE  Inv'
<1>1. RequestsInv /\ RestOK /\ NoForeignData /\ UNCHANGED controllerVars
  BY InvParts DEF WorkerAnswers, WorkerLoses
<1>2. RestOK' /\ NoForeignData' /\ outstanding' = outstanding
  BY <1>1 DEF controllerVars, RestOK, NoForeignData
<1>3. ASSUME NEW error \in FetchErrors, Answer(i, error) PROVE RequestsInv'
  <2>1. /\ i \in pending /\ i \notin Answered /\ pending' = pending \ {i} /\ lost' = lost
    BY <1>1, <1>3 DEF Answer, RequestsInv, OutstandingMirrorsWorker
  <2>2. Answered' = Answered \cup {i} /\ DistinctAnswers' /\ answers' \in Seq(Result)
        /\ Len(answers') <= ResultDepth
    BY <1>1, <1>3, <2>1, AnswerAppended DEF RequestsInv
  <2> QED
    BY <1>1, <1>2, <2>1, <2>2 DEF RequestsInv, OutstandingMirrorsWorker, OneRequestPerUrgency
<1>4. ASSUME Lose(i) PROVE RequestsInv'
  <2>1. /\ i \in pending /\ pending' = pending \ {i} /\ lost' = lost \cup {i} /\ answers' = answers
    BY <1>4 DEF Lose
  <2>2. Answered' = Answered /\ DistinctAnswers'
    BY <1>1, <2>1 DEF Answered, DistinctAnswers, RequestsInv
  <2> QED
    BY <1>1, <1>2, <2>1, <2>2 DEF RequestsInv, OutstandingMirrorsWorker, OneRequestPerUrgency
<1>5. (RequestsInv /\ RestOK /\ NoForeignData)'
  BY <1>2, <1>3, <1>4 DEF WorkerAnswers, WorkerLoses
<1> QED BY <1>5, InvParts, PTL

LEMMA InitInv == Init => Inv
<1> SUFFICES ASSUME Init PROVE Inv
  OBVIOUS
<1>1. /\ pending = {} /\ answers = <<>> /\ lost = {} /\ DOMAIN outstanding = {}
      /\ DOMAIN answers = {} /\ Answered = {}
  BY DEF Init, BrokerInit, Answered
<1>2. RequestsInv
  <2>1. answers \in Seq(Result) /\ Len(answers) <= ResultDepth
    BY <1>1, BrokerAssumption
  <2>2. outstanding \in [DOMAIN outstanding -> Context]
    BY DEF Init
  <2> QED
    BY <1>1, <2>1, <2>2 DEF RequestsInv, OutstandingMirrorsWorker, DistinctAnswers, OneRequestPerUrgency
<1>3. RestOK /\ NoForeignData
  <2>1. currentIndex \in Stocks /\ roundRobinIndex \in Stocks
    BY CountOfStocks DEF Init, Stocks
  <2>2. failover \in Failover
    BY DEF Init, InitialFailover, Failover, FailureLimit, RecoveryLimit
  <2>3. caches \in [Stocks -> Cache]
    BY DEF Init, Cache
  <2> QED BY <2>1, <2>2, <2>3 DEF Init, RestOK, NoForeignData, AllPhases
<1> QED BY <1>2, <1>3, InvParts

LEMMA NextInv == Inv /\ [Next]_vars => Inv'
<1> SUFFICES ASSUME Inv, [Next]_vars PROVE Inv'
  OBVIOUS
<1>1. CASE UNCHANGED vars
  BY <1>1 DEF vars, brokerVars, controllerVars, Inv, TypeOK, OutstandingMirrorsWorker, Answered,
              DistinctAnswers, OneRequestPerUrgency, NoForeignData
<1>2. CASE SetWifiOnline
  BY <1>2 DEF SetWifiOnline, brokerVars, Inv, TypeOK, OutstandingMirrorsWorker, Answered,
              DistinctAnswers, OneRequestPerUrgency, NoForeignData
<1> QED BY <1>1, <1>2, TickKeeps, SelectKeeps, ConsumeKeeps, WorkerKeeps DEF Next

LEMMA InvInvariant == Spec => []Inv
  BY InitInv, NextInv, PTL DEF Spec

\* Every variable has its type, whatever the sizes (StockController).
THEOREM TypesHold == Spec => []TypeOK
<1>1. Inv => TypeOK
  BY DEF Inv
<1> QED BY <1>1, InvInvariant, PTL

\* outstanding_ holds just what the worker has: consumeMarketResults() always finds the
\* context of an answer, and no context stays behind one.
THEOREM OutstandingAlwaysMirrorsWorker == Spec => []OutstandingMirrorsWorker
<1>1. Inv => OutstandingMirrorsWorker
  BY DEF Inv
<1> QED BY <1>1, InvInvariant, PTL

\* Ticks and page changes, in any order and however late the answers come, never ask for
\* the same thing twice (hasOutstandingAtOrAbove(), enqueueRequest()).
THEOREM NothingAskedTwice == Spec => []OneRequestPerUrgency
<1>1. Inv => OneRequestPerUrgency
  BY DEF Inv
<1> QED BY <1>1, InvInvariant, PTL

\* An answer is stored for the stock it was asked for, whichever page is shown when it
\* comes (consumeMarketResults(), cacheIndexFor()).
THEOREM DataStayWithTheirStock == Spec => []NoForeignData
<1>1. Inv => NoForeignData
  BY DEF Inv
<1> QED BY <1>1, InvInvariant, PTL

-----------------------------------------------------------------------------
(* Non-trading days *)

LEMMA NextConfirmed == ConfirmedByLatestQuote /\ [Next]_vars => ConfirmedByLatestQuote'
<1> SUFFICES ASSUME ConfirmedByLatestQuote, [Next]_vars PROVE ConfirmedByLatestQuote'
  OBVIOUS
<1>1. CASE UNCHANGED <<confirmedNonTrading, evidence>>
  BY <1>1 DEF ConfirmedByLatestQuote
<1>2. ASSUME NEW phase, NEW newDay \in BOOLEAN, NEW quoteDue, NEW intradayDue, NEW probeDue,
             Tick(phase, newDay, quoteDue, intradayDue, probeDue)
      PROVE  ConfirmedByLatestQuote'
  <2>1. /\ confirmedNonTrading' = (confirmedNonTrading /\ ~newDay)
        /\ evidence' = IF newDay THEN "none" ELSE evidence
    BY <1>2 DEF Tick
  <2> QED BY <2>1 DEF ConfirmedByLatestQuote
<1>3. ASSUME NEW date, NEW inWindow, ConsumeResult(date, inWindow) PROVE ConfirmedByLatestQuote'
  <2>1. \/ UNCHANGED <<confirmedNonTrading, evidence>>
        \/ /\ confirmedNonTrading' = ConfirmedAfter(date)
           /\ evidence' = IF Synced(lastLocal)
                          THEN IF IsForLocalDate(date, lastLocal) THEN "today" ELSE "old"
                          ELSE evidence
    BY <1>3 DEF ConsumeResult
  <2>2. CASE confirmedNonTrading' = ConfirmedAfter(date) /\ Synced(lastLocal)
    BY <2>1, <2>2, <1>1 DEF ConfirmedAfter, ConfirmedByLatestQuote
  <2>3. CASE confirmedNonTrading' = ConfirmedAfter(date) /\ ~Synced(lastLocal)
    BY <2>1, <2>3, <1>1 DEF ConfirmedAfter, ConfirmedByLatestQuote
  <2> QED BY <1>1, <2>1, <2>2, <2>3
<1>4. CASE SetWifiOnline
  BY <1>1, <1>4 DEF SetWifiOnline
<1>5. ASSUME NEW index, NEW quoteStale, NEW intradayStale, Select(index, quoteStale, intradayStale)
      PROVE  ConfirmedByLatestQuote'
  BY <1>1, <1>5 DEF Select
<1>6. ASSUME NEW i, WorkerAnswers(i) \/ WorkerLoses(i) PROVE ConfirmedByLatestQuote'
  BY <1>1, <1>6 DEF WorkerAnswers, WorkerLoses, controllerVars
<1>7. CASE UNCHANGED vars
  BY <1>1, <1>7 DEF vars, controllerVars
<1> QED BY <1>2, <1>3, <1>4, <1>5, <1>6, <1>7 DEF Next

\* A day is taken for a non-trading one only on the word of the latest quote, across
\* ticks without a synchronized clock, page changes and answers in any order
\* (consumeMarketResults(), canConfirmNonTradingDay()).
THEOREM AlwaysConfirmedByLatestQuote == Spec => []ConfirmedByLatestQuote
<1>1. Init => ConfirmedByLatestQuote
  BY DEF Init, ConfirmedByLatestQuote
<1> QED BY <1>1, NextConfirmed, PTL DEF Spec
-----------------------------------------------------------------------------
(* The failover *)

\* Only an answer to a quote or a probe moves the failover: answers about the chart never
\* do, whichever provider they were asked from (recordSuccess(), recordFailure() in
\* consumeMarketResults()).
THEOREM ChartsNeverMoveFailover == Spec => OnlyQuotesMoveFailover
<1>. DEFINE Moves == failover' # failover
                       => Len(answers') < Len(answers)
                          /\ outstanding[Head(answers).id].type \in {"QUOTE", "PRIMARY_PROBE"}
<1>1. ASSUME Inv, [Next]_vars PROVE Moves
  <2>1. ASSUME NEW date, NEW inWindow, ConsumeResult(date, inWindow) PROVE Moves
    <3>1. /\ answers \in Seq(Result) /\ answers # <<>> /\ answers' = Tail(answers)
      BY <1>1, <2>1 DEF ConsumeResult, Take, Inv, TypeOK
    <3>2. Len(answers') < Len(answers)
      BY <3>1
    <3>3. outstanding[Head(answers).id].type \in {"QUOTE", "PRIMARY_PROBE", "INTRADAY"}
      <4>1. Head(answers).id \in Answered
        BY <3>1 DEF Answered
      <4>2. outstanding[Head(answers).id] \in Context
        BY <1>1, <4>1 DEF Inv, TypeOK, OutstandingMirrorsWorker
      <4>. QED BY <4>2 DEF Context, Types
    <3>4. ~Judged(outstanding[Head(answers).id]) => failover' = failover
      BY <2>1 DEF ConsumeResult
    <3>. QED BY <3>2, <3>3, <3>4 DEF Judged
  <2>. QED BY <1>1, <2>1 DEF Next, Tick, Select, SetWifiOnline, WorkerAnswers, WorkerLoses, controllerVars, vars
<1>. QED BY <1>1, InvInvariant, PTL DEF Spec, OnlyQuotesMoveFailover
=============================================================================
