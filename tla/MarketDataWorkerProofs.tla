----------------------- MODULE MarketDataWorkerProofs -----------------------
(***************************************************************************)
(* Theorems about MarketDataWorker for every set of request ids, every     *)
(* capacity, TTL and retry delay.                                          *)
(*                                                                         *)
(* TypeOK and HeldOnce are not inductive alone: TakeWork overwrites current *)
(* and notices, which loses nothing only because both are empty then.      *)
(* ControlInv says where the worker task holds something.                  *)
(***************************************************************************)
EXTENDS MarketDataWorker, SequenceTheorems, TLAPS

\* current is set exactly from TakeWork to the end of execute(), and notices are
\* only held while they are being posted.
ControlInv ==
  /\ pc \in {"execute", "fetch", "settle", "deliver"} => current # NoId
  /\ pc \in {"top", "take"} => current = NoId
  /\ pc # "post" => DOMAIN notices = {}

IInv == TypeOK /\ HeldOnce /\ ControlInv

-----------------------------------------------------------------------------
(* Sequences of results *)

\* Appending a result adds its id, and keeps the ids distinct if it is new.
LEMMA AppendIds ==
  ASSUME NEW q \in Seq(Result), NEW r \in Result
  PROVE  /\ Append(q, r) \in Seq(Result)
         /\ Len(Append(q, r)) = Len(q) + 1
         /\ IdsOf(Append(q, r)) = IdsOf(q) \cup {r.id}
         /\ DistinctIds(q) /\ r.id \notin IdsOf(q) => DistinctIds(Append(q, r))
<1>1. /\ Append(q, r) \in Seq(Result)
      /\ Len(Append(q, r)) = Len(q) + 1
      /\ DOMAIN q = 1..Len(q)
      /\ DOMAIN Append(q, r) = 1..(Len(q) + 1)
      /\ \A k \in 1..Len(q) : Append(q, r)[k] = q[k]
      /\ Append(q, r)[Len(q) + 1] = r
      /\ Len(q) \in Nat
  BY AppendProperties, LenProperties
<1>2. IdsOf(Append(q, r)) = IdsOf(q) \cup {r.id}
  BY <1>1 DEF IdsOf
<1>3. ASSUME DistinctIds(q), r.id \notin IdsOf(q)
      PROVE  DistinctIds(Append(q, r))
  BY <1>1, <1>3 DEF DistinctIds, IdsOf
<1>. QED BY <1>1, <1>2, <1>3

\* Taking the head removes exactly its id when the ids are distinct.
LEMMA TailIds ==
  ASSUME NEW q \in Seq(Result), q # <<>>, DistinctIds(q)
  PROVE  /\ Tail(q) \in Seq(Result)
         /\ Len(Tail(q)) = Len(q) - 1
         /\ Head(q) \in Result
         /\ Head(q).id \in IdsOf(q)
         /\ IdsOf(Tail(q)) = IdsOf(q) \ {Head(q).id}
         /\ DistinctIds(Tail(q))
<1>1. /\ Tail(q) \in Seq(Result)
      /\ Len(Tail(q)) = Len(q) - 1
      /\ Head(q) \in Result
      /\ Head(q) = q[1]
      /\ Len(q) \in Nat \ {0}
      /\ DOMAIN q = 1..Len(q)
      /\ DOMAIN Tail(q) = 1..(Len(q) - 1)
      /\ \A k \in 1..(Len(q) - 1) : Tail(q)[k] = q[k + 1]
  BY HeadTailProperties, LenProperties, EmptySeq
<1>2. Head(q).id \in IdsOf(q)
  BY <1>1 DEF IdsOf
<1>3. IdsOf(Tail(q)) \subseteq IdsOf(q) \ {Head(q).id}
  BY <1>1 DEF IdsOf, DistinctIds
<1>4. ASSUME NEW i \in IdsOf(q) \ {Head(q).id}
      PROVE  i \in IdsOf(Tail(q))
  <2>1. PICK k \in 1..Len(q) : q[k].id = i
    BY <1>1 DEF IdsOf
  <2>2. k - 1 \in 1..(Len(q) - 1) /\ Tail(q)[k - 1] = q[k]
    BY <1>1, <2>1
  <2>. QED BY <1>1, <2>1, <2>2 DEF IdsOf
<1>5. DistinctIds(Tail(q))
  BY <1>1 DEF DistinctIds
<1>. QED BY <1>1, <1>2, <1>3, <1>4, <1>5

-----------------------------------------------------------------------------
(* Operators of the worker *)

\* What the worker pops is one of the waiting requests that are not overdue.
LEMMA NextReadyWaits ==
  ASSUME NEW overdue, NEW next \in NextReady(overdue), next # NoId
  PROVE  next \in Waiting \ overdue
BY DEF NextReady, Waiting, Present

\* A fresh request, a retry and a fallback are requests.
LEMMA RequestTypes ==
  /\ \A kind \in Kinds : NewRequest(kind) \in Request
  /\ \A r \in Request, d \in Nat : RetryOf(r, d) \in Request
  /\ \A r \in Request : FallbackOf(r) \in Request
<1>1. ASSUME NEW kind \in Kinds PROVE NewRequest(kind) \in Request
  <2>1. kind \in Kind
    BY WorkerAssumption
  <2>. QED BY <2>1 DEF NewRequest, Request, Kind
<1>2. ASSUME NEW r \in Request, NEW d \in Nat PROVE RetryOf(r, d) \in Request
  <2>1. r.attempt + 1 \in Nat \ {0} /\ INTRADAY_RETRY \in 0..4
    BY DEF Request, INTRADAY_RETRY
  <2>. QED BY <2>1 DEF RetryOf, Request
<1>3. ASSUME NEW r \in Request PROVE FallbackOf(r) \in Request
  <2>1. INTRADAY \in 0..4 /\ "EAST_MONEY" \in Providers /\ 1 \in Nat \ {0} /\ 0 \in Nat
    BY DEF INTRADAY, Providers
  <2>. QED BY <2>1 DEF FallbackOf, Request
<1>. QED BY <1>1, <1>2, <1>3

-----------------------------------------------------------------------------
(* IInv is inductive *)

\* begin() starts with every container empty.
LEMMA InitInv == Init => IInv
<1>. SUFFICES ASSUME Init PROVE IInv
  OBVIOUS
<1>. USE DEF Init, Empty, Present
<1>1. TypeOK
  BY WorkerAssumption DEF TypeOK, Outcomes, Result
<1>2. HeldOnce
  BY WorkerAssumption DEF HeldOnce, Held, Queued, Waiting, IdsOf, DistinctIds
<1>3. ControlInv
  BY DEF ControlInv
<1>. QED BY <1>1, <1>2, <1>3 DEF IInv

\* enqueue(): the new id enters one container and a displaced one moves to cancelled.
LEMMA EnqueueInv ==
  ASSUME IInv, NEW i \in Ids, NEW kind \in Kinds, Enqueue(i, kind)
  PROVE  IInv'
<1>. USE DEF IInv
<1>. DEFINE r == NewRequest(kind)
<1>1. r \in Request
  BY RequestTypes
<1>2. i \notin Held \cup Queued \cup lost /\ i # NoId
  BY WorkerAssumption DEF Enqueue, HeldOnce
<1>3. CASE PlaceIntraday(i, r)
  <2>1. TypeOK'
    BY <1>1, <1>2, <1>3, WorkerAssumption
    DEF Enqueue, PlaceIntraday, TypeOK, workerVars, Put, Drop, Present, Held, HeldOnce, Waiting
  <2>2. HeldOnce'
    BY <1>2, <1>3 DEF Enqueue, PlaceIntraday, HeldOnce, Held, Queued, Waiting,
       Present, TypeOK, workerVars
  <2>. QED BY <2>1, <2>2 DEF ControlInv, Enqueue, workerVars
<1>4. CASE PromoteQuote(i, r)
  <2>1. TypeOK'
    BY <1>1, <1>2, <1>4, WorkerAssumption
    DEF Enqueue, PromoteQuote, TypeOK, workerVars, Put, Drop, Present, Held, HeldOnce, Waiting
  <2>2. HeldOnce'
    BY <1>2, <1>4 DEF Enqueue, PromoteQuote, HeldOnce, Held, Queued, Waiting,
       Present, TypeOK, workerVars
  <2>. QED BY <2>1, <2>2 DEF ControlInv, Enqueue, workerVars
<1>5. CASE PushQuote(i, r)
  <2>1. TypeOK'
    BY <1>1, <1>2, <1>5 DEF Enqueue, PushQuote, TypeOK, workerVars, Put, Present, Held
  <2>2. HeldOnce'
    BY <1>2, <1>5 DEF Enqueue, PushQuote, HeldOnce, Held, Queued, Waiting,
       Present, TypeOK, workerVars
  <2>. QED BY <2>1, <2>2 DEF ControlInv, Enqueue, workerVars
<1>. QED BY <1>3, <1>4, <1>5 DEF Enqueue

\* tryReceive(): the answered id leaves the result queue and outstanding together.
LEMMA TryReceiveInv ==
  ASSUME IInv, TryReceive
  PROVE  IInv'
<1>. USE DEF IInv, TryReceive
<1>1. /\ resultQueue' \in Seq(Result)
      /\ Len(resultQueue') = Len(resultQueue) - 1
      /\ IdsOf(resultQueue') = IdsOf(resultQueue) \ {Head(resultQueue).id}
      /\ Head(resultQueue).id \in IdsOf(resultQueue)
      /\ DistinctIds(resultQueue')
  BY TailIds DEF TypeOK, HeldOnce
<1>2. Len(resultQueue) \in Nat
  BY LenProperties DEF TypeOK
<1>3. TypeOK'
  BY <1>1, <1>2, WorkerAssumption DEF TypeOK, pendingVars, workerVars
<1>4. HeldOnce'
  BY <1>1 DEF HeldOnce, Held, Queued, Waiting, Present, pendingVars, workerVars
<1>. QED BY <1>3, <1>4 DEF ControlInv, workerVars

\* run() under the mutex: what is popped, expired or cancelled changes place once.
LEMMA TakeWorkInv ==
  ASSUME IInv, TakeWork
  PROVE  IInv'
<1>. USE DEF IInv, TakeWork
<1>. DEFINE overdue == IF paused THEN {} ELSE {i \in Waiting : Expired(request[i], lag)}
<1>1. current = NoId /\ DOMAIN notices = {}
  BY DEF ControlInv
<1>2. PICK next \in (IF paused THEN {NoId} ELSE NextReady(overdue)) :
        /\ current' = next
        /\ highPriority' = highPriority \ (overdue \cup {next})
        /\ intraday' = IF intraday \in overdue \cup {next} THEN NoId ELSE intraday
        /\ request' = Drop(request, overdue)
        /\ notices' = [i \in cancelled \cup overdue |->
                         IF i \in cancelled THEN "CANCELLED" ELSE "EXPIRED"]
  OBVIOUS
<1>3. next \in (Waiting \ overdue) \cup {NoId}
  BY <1>2, NextReadyWaits
<1>4. overdue \subseteq Waiting
  OBVIOUS
<1>. HIDE DEF overdue
<1>5. NoId \notin Waiting /\ Waiting \subseteq Ids
  BY WorkerAssumption DEF TypeOK, Waiting, Present
<1>6. TypeOK'
  <2>1. request' \in [highPriority' \cup Present(intraday') \cup Present(current') -> Request]
    BY <1>1, <1>2, <1>3, <1>4, <1>5 DEF TypeOK, Drop, Present, Waiting, HeldOnce
  <2>. QED BY <2>1, <1>2, <1>3, <1>4, <1>5 DEF TypeOK, Errors, Outcomes
<1>7. HeldOnce'
  BY <1>1, <1>2, <1>3, <1>4, <1>5 DEF HeldOnce, Held, Waiting, Queued, Present
<1>8. ControlInv'
  BY DEF ControlInv
<1>. QED BY <1>6, <1>7, <1>8

\* sendSynthetic(): a notice becomes one entry of the result queue.
LEMMA PostNoticeInv ==
  ASSUME IInv, NEW i \in Ids, PostNotice(i)
  PROVE  IInv'
<1>. USE DEF IInv, PostNotice, ResultQueueHasRoom
<1>. DEFINE r == [id |-> i, error |-> notices[i]]
<1>1. r \in Result /\ r.id = i
  BY DEF TypeOK, Result
<1>2. /\ resultQueue' \in Seq(Result)
      /\ Len(resultQueue') = Len(resultQueue) + 1
      /\ IdsOf(resultQueue') = IdsOf(resultQueue) \cup {i}
      /\ DistinctIds(resultQueue')
  BY <1>1, AppendIds DEF TypeOK, HeldOnce, Held, Queued
<1>3. Len(resultQueue) \in Nat
  BY LenProperties DEF TypeOK
<1>4. TypeOK'
  BY <1>2, <1>3, WorkerAssumption DEF TypeOK, pendingVars, Drop
<1>5. HeldOnce'
  BY <1>2 DEF HeldOnce, Held, Queued, Waiting, Present, pendingVars, Drop
<1>. QED BY <1>4, <1>5 DEF ControlInv

\* sendSynthetic() without memory: the notice becomes a lost request.
LEMMA LoseNoticeInv ==
  ASSUME IInv, NEW i \in Ids, LoseNotice(i)
  PROVE  IInv'
<1>. USE DEF IInv, LoseNotice, Drop
<1>1. TypeOK'
  BY DEF TypeOK, pendingVars
<1>2. HeldOnce'
  BY DEF HeldOnce, Held, Queued, Waiting, Present, pendingVars
<1>. QED BY <1>1, <1>2 DEF ControlInv

\* execute() without memory: the request it was to run becomes a lost one.
LEMMA ExecuteWithoutMemoryInv ==
  ASSUME IInv, ExecuteWithoutMemory
  PROVE  IInv'
<1>. USE DEF IInv, ExecuteWithoutMemory
<1>1. current \in Ids /\ DOMAIN notices = {}
  BY DEF ControlInv, TypeOK
<1>2. TypeOK'
  BY <1>1 DEF TypeOK, Drop, Present, Errors, Outcomes, HeldOnce, Waiting
<1>3. HeldOnce'
  BY <1>1, WorkerAssumption DEF TypeOK, HeldOnce, Held, Queued, Waiting, Present
<1>. QED BY <1>2, <1>3 DEF ControlInv

\* A deferred request moves from current to the empty intraday slot.
LEMMA DeferInv ==
  ASSUME IInv, pc = "settle", SlotFree, NEW r \in Request, Defer(r)
  PROVE  IInv'
<1>. USE DEF IInv, Defer, SlotFree
<1>1. current \in Ids /\ DOMAIN notices = {}
  BY DEF ControlInv, TypeOK
<1>2. TypeOK'
  BY <1>1, WorkerAssumption DEF TypeOK, Present, Outcomes
<1>3. HeldOnce'
  BY <1>1, WorkerAssumption DEF TypeOK, HeldOnce, Held, Queued, Waiting, Present
<1>. QED BY <1>1, <1>2, <1>3 DEF ControlInv

\* sendResult(): the finished request becomes one entry of the result queue.
LEMMA DeliverInv ==
  ASSUME IInv, Deliver
  PROVE  IInv'
<1>. USE DEF IInv, Deliver, ResultQueueHasRoom
<1>. DEFINE r == [id |-> current, error |-> outcome]
<1>1. current \in Ids /\ DOMAIN notices = {}
  BY DEF ControlInv, TypeOK
<1>2. r \in Result
  BY <1>1 DEF TypeOK, Result, Errors
<1>3. /\ resultQueue' \in Seq(Result)
      /\ Len(resultQueue') = Len(resultQueue) + 1
      /\ IdsOf(resultQueue') = IdsOf(resultQueue) \cup {current}
      /\ DistinctIds(resultQueue')
  BY <1>1, <1>2, AppendIds, WorkerAssumption DEF TypeOK, HeldOnce, Held, Queued, Present
<1>4. Len(resultQueue) \in Nat
  BY LenProperties DEF TypeOK
<1>5. TypeOK'
  BY <1>1, <1>3, <1>4, WorkerAssumption
  DEF TypeOK, Drop, Present, Outcomes, HeldOnce, Waiting
<1>6. HeldOnce'
  BY <1>1, <1>3, WorkerAssumption DEF TypeOK, HeldOnce, Held, Queued, Waiting, Present
<1>. QED BY <1>1, <1>5, <1>6 DEF ControlInv

\* The saturating clock stays a natural number.
LEMMA OlderNat == \A n \in Nat : Older(n) \in Nat
<1>1. AgeCap \in Nat
  BY WorkerAssumption
<1>2. TAKE n \in Nat
<1>3. CASE n < AgeCap
  BY <1>3 DEF Older
<1>4. CASE ~(n < AgeCap)
  BY <1>4 DEF Older
<1>. QED BY <1>3, <1>4

\* Time changes ages only: no request moves.
LEMMA TickInv ==
  ASSUME IInv, Tick
  PROVE  IInv'
<1>. USE DEF IInv, Tick
<1>1. \A r \in Request :
        [r EXCEPT !.age = Older(@), !.cycleAge = Older(@)] \in Request
  BY OlderNat DEF Request
<1>2. request' \in [DOMAIN request -> Request]
  BY <1>1 DEF TypeOK
<1>3. lag' \in Nat /\ running' \in Nat
  <2>1. lag \in Nat /\ running \in Nat /\ MaxLag \in Nat
    BY WorkerAssumption DEF TypeOK
  <2>2. lag' \in Nat
    <3>1. lag' = lag \/ lag' = lag + 1
      BY Zenon
    <3>. QED BY ONLY <2>1, <3>1
  <2>3. running' \in Nat
    BY <2>1, OlderNat
  <2>. QED BY <2>2, <2>3
<1>4. TypeOK'
  BY <1>2, <1>3 DEF TypeOK, Present
<1>5. HeldOnce'
  BY DEF HeldOnce, Held, Queued, Waiting, Present
<1>. QED BY <1>4, <1>5 DEF ControlInv

\* Every step of the worker, the controller and the clock preserves IInv.
LEMMA NextInv ==
  ASSUME IInv, [Next]_vars
  PROVE  IInv'
<1>. USE DEF IInv
<1>1. ASSUME NEW i \in Ids, NEW kind \in Kinds, Enqueue(i, kind) PROVE IInv'
  BY <1>1, EnqueueInv
<1>2. ASSUME NEW value \in BOOLEAN, SetPaused(value) PROVE IInv'
  BY <1>2 DEF SetPaused, TypeOK, HeldOnce, ControlInv, Held, Queued, Waiting,
     Present, workerVars
<1>3. CASE TryReceive
  BY <1>3, TryReceiveInv
<1>4. CASE ReadClock
  BY <1>4 DEF ReadClock, TypeOK, HeldOnce, ControlInv, Held, Queued, Waiting,
     Present, pendingVars
<1>5. CASE TakeWork
  BY <1>5, TakeWorkInv
<1>6. ASSUME NEW i \in Ids, PostNotice(i) PROVE IInv'
  BY <1>6, PostNoticeInv
<1>7. ASSUME NEW i \in Ids, LoseNotice(i) PROVE IInv'
  BY <1>7, LoseNoticeInv
<1>8. CASE EndPost
  BY <1>8 DEF EndPost, TypeOK, HeldOnce, ControlInv, Held, Queued, Waiting,
     Present, pendingVars
<1>9. CASE ExecuteWithoutMemory
  BY <1>9, ExecuteWithoutMemoryInv
<1>10. CASE BeginFetch
  <2>1. current \in DOMAIN request /\ request[current] \in Request
    BY <1>10 DEF BeginFetch, ControlInv, TypeOK, Present
  <2>2. [request[current] EXCEPT !.fetches = @ + 1] \in Request
    BY <2>1 DEF Request
  <2>3. TypeOK'
    BY <1>10, <2>1, <2>2 DEF BeginFetch, TypeOK
  <2>4. HeldOnce'
    BY <1>10 DEF BeginFetch, HeldOnce, Held, Queued, Waiting, Present
  <2>. QED BY <1>10, <2>3, <2>4 DEF BeginFetch, ControlInv
<1>11. ASSUME NEW error \in Outcomes, EndFetch(error) PROVE IInv'
  BY <1>11 DEF EndFetch, TypeOK, HeldOnce, ControlInv, Held, Queued, Waiting,
     Present, pendingVars
<1>12. CASE DeferRetry
  <2>1. current \in DOMAIN request /\ request[current] \in Request
    BY <1>12 DEF DeferRetry, ControlInv, TypeOK, Present
  <2>2. /\ request[current].attempt < MaxAttempts
        /\ SlotFree
    BY <1>12 DEF DeferRetry, RetryInstalls, ShouldRetryIntraday
  <2>3. PICK d \in RetryDelays[request[current].attempt + 1] :
          Defer(RetryOf(request[current], d))
    BY <1>12 DEF DeferRetry
  <2>4. request[current].attempt + 1 \in 2..MaxAttempts
    <3>1. request[current].attempt \in Nat \ {0} /\ MaxAttempts \in Nat
      BY <2>1, WorkerAssumption DEF Request
    <3>. QED BY <2>2, <3>1
  <2>5. d \in Nat
    BY <2>3, <2>4, WorkerAssumption
  <2>. QED BY <1>12, <2>1, <2>2, <2>3, <2>5, RequestTypes, DeferInv DEF DeferRetry
<1>13. CASE DeferFallback
  <2>1. current \in DOMAIN request /\ request[current] \in Request
    BY <1>13 DEF DeferFallback, ControlInv, TypeOK, Present
  <2>. QED BY <1>13, <2>1, RequestTypes, DeferInv DEF DeferFallback, FallbackInstalls
<1>14. CASE KeepResult
  BY <1>14 DEF KeepResult, TypeOK, HeldOnce, ControlInv, Held, Queued, Waiting,
     Present, pendingVars
<1>15. CASE Deliver
  BY <1>15, DeliverInv
<1>16. CASE Tick
  BY <1>16, TickInv
<1>17. CASE UNCHANGED vars
  BY <1>17 DEF vars, pendingVars, workerVars, TypeOK, HeldOnce, ControlInv, Held,
     Queued, Waiting, Present
<1>. QED
  BY <1>1, <1>2, <1>3, <1>4, <1>5, <1>6, <1>7, <1>8, <1>9, <1>10, <1>11, <1>12,
     <1>13, <1>14, <1>15, <1>16, <1>17 DEF Next, Worker

\* The inductive invariant of the worker.
THEOREM Invariance == Spec => []IInv
BY InitInv, NextInv, PTL DEF Spec

\* Every variable keeps its type.
THEOREM Typing == Spec => []TypeOK
BY Invariance, PTL DEF IInv

\* An outstanding request is in exactly one place and is answered at most once.
THEOREM ConservesRequests == Spec => []HeldOnce
BY Invariance, PTL DEF IInv
-----------------------------------------------------------------------------
(* Refinement: pending is Held, the answers are the result queue *)

\* Steps that move a request between containers, or none at all, are stutters
\* of the broker.
LEMMA HeldUnchanged ==
  ASSUME IInv,
         \/ \E value \in BOOLEAN : SetPaused(value)
         \/ ReadClock \/ TakeWork \/ EndPost \/ ExecuteWithoutMemory \/ BeginFetch
         \/ \E error \in Outcomes : EndFetch(error)
         \/ DeferRetry \/ DeferFallback \/ KeepResult \/ Tick
         \/ UNCHANGED vars
  PROVE  Held' = Held /\ resultQueue' = resultQueue /\ lost' = lost
<1>. USE DEF IInv
<1>1. ASSUME NEW value \in BOOLEAN, SetPaused(value)
      PROVE  Held' = Held /\ resultQueue' = resultQueue /\ lost' = lost
  BY <1>1 DEF SetPaused, Held, Present, workerVars
<1>2. CASE ReadClock \/ EndPost \/ BeginFetch \/ KeepResult \/ Tick
  BY <1>2 DEF ReadClock, EndPost, BeginFetch, KeepResult, Tick, Held, Present, pendingVars
<1>3. ASSUME NEW error \in Outcomes, EndFetch(error)
      PROVE  Held' = Held /\ resultQueue' = resultQueue /\ lost' = lost
  BY <1>3 DEF EndFetch, Held, Present, pendingVars
<1>4. CASE TakeWork
  <2>. DEFINE overdue == IF paused THEN {} ELSE {i \in Waiting : Expired(request[i], lag)}
  <2>1. current = NoId /\ DOMAIN notices = {}
    BY <1>4 DEF ControlInv, TakeWork
  <2>2. PICK next \in (IF paused THEN {NoId} ELSE NextReady(overdue)) :
          /\ current' = next
          /\ highPriority' = highPriority \ (overdue \cup {next})
          /\ intraday' = IF intraday \in overdue \cup {next} THEN NoId ELSE intraday
          /\ notices' = [i \in cancelled \cup overdue |->
                           IF i \in cancelled THEN "CANCELLED" ELSE "EXPIRED"]
          /\ cancelled' = {}
    BY <1>4 DEF TakeWork
  <2>3. next \in (Waiting \ overdue) \cup {NoId}
    BY <2>2, NextReadyWaits
  <2>4. overdue \subseteq Waiting
    OBVIOUS
  <2>5. NoId \notin Waiting
    BY WorkerAssumption DEF TypeOK, Waiting, Present
  <2>. HIDE DEF overdue
  <2>6. Held' = Held
    BY <2>1, <2>2, <2>3, <2>4, <2>5 DEF Held, Waiting, Present
  <2>. QED BY <1>4, <2>6 DEF TakeWork
<1>5. CASE ExecuteWithoutMemory
  BY <1>5, WorkerAssumption
  DEF ExecuteWithoutMemory, Held, Present, ControlInv, TypeOK
<1>6. ASSUME NEW r, Defer(r), pc = "settle", SlotFree
      PROVE  Held' = Held /\ resultQueue' = resultQueue /\ lost' = lost
  BY <1>6 DEF Defer, SlotFree, Held, Present
<1>7. CASE DeferRetry
  BY <1>6, <1>7 DEF DeferRetry, RetryInstalls
<1>8. CASE DeferFallback
  BY <1>6, <1>8 DEF DeferFallback, FallbackInstalls
<1>9. CASE UNCHANGED vars
  BY <1>9 DEF vars, pendingVars, workerVars, Held, Present
<1>. QED BY <1>1, <1>2, <1>3, <1>4, <1>5, <1>7, <1>8, <1>9

\* The worker implements the broker: it accepts, answers and loses requests only
\* as the broker may.
THEOREM Refinement == Spec => ImplementsBroker
<1>1. Init => Broker!BrokerInit
  BY DEF Init, Broker!BrokerInit, Held, Present, Empty
<1>2. ASSUME IInv, [Next]_vars
      PROVE  [Broker!BrokerNext]_Broker!brokerVars
  <2>. USE <1>2 DEF IInv
  <2>0. Broker!Answered = Queued
    BY DEF Broker!Answered, Queued, IdsOf
  <2>1. ASSUME NEW i \in Ids, NEW kind \in Kinds, Enqueue(i, kind)
        PROVE  Broker!BrokerNext
    <3>1. i \notin Held \cup Queued \cup lost /\ i # NoId
      BY <2>1, WorkerAssumption DEF Enqueue, HeldOnce
    <3>2. Held' = Held \cup {i}
      BY <2>1, <3>1 DEF Enqueue, PlaceIntraday, PromoteQuote, PushQuote, Held,
         Present, workerVars
    <3>3. Broker!Accept({i})
      BY <2>0, <2>1, <3>1, <3>2 DEF Broker!Accept, Enqueue
    <3>. QED BY <3>3 DEF Broker!BrokerNext
  <2>2. CASE TryReceive
    <3>1. Broker!Take
      BY <2>2 DEF TryReceive, Broker!Take, Held, Present, pendingVars, workerVars
    <3>. QED BY <3>1 DEF Broker!BrokerNext
  <2>3. ASSUME NEW i \in Ids, PostNotice(i)
        PROVE  Broker!BrokerNext
    <3>1. Held' = Held \ {i} /\ i \in Held
      BY <2>3, WorkerAssumption
      DEF PostNotice, Held, HeldOnce, Waiting, Present, Drop, pendingVars
    <3>2. notices[i] \in Errors
      BY <2>3 DEF PostNotice, TypeOK
    <3>3. Broker!Answer(i, notices[i])
      BY <2>3, <3>1 DEF PostNotice, ResultQueueHasRoom, Broker!Answer
    <3>. QED BY <3>2, <3>3 DEF Broker!BrokerNext, Broker!Errors, Errors, Outcomes
  <2>4. ASSUME NEW i \in Ids, LoseNotice(i)
        PROVE  Broker!BrokerNext
    <3>1. Held' = Held \ {i} /\ i \in Held
      BY <2>4, WorkerAssumption
      DEF LoseNotice, Held, HeldOnce, Waiting, Present, Drop, pendingVars
    <3>2. Broker!Lose(i)
      BY <2>4, <3>1 DEF LoseNotice, Broker!Lose
    <3>. QED BY <3>2 DEF Broker!BrokerNext
  <2>5. CASE Deliver
    <3>1. current \in Ids /\ DOMAIN notices = {}
      BY <2>5 DEF Deliver, ControlInv, TypeOK
    <3>2. Held' = Held \ {current} /\ current \in Held
      BY <2>5, <3>1, WorkerAssumption
      DEF Deliver, Held, HeldOnce, Waiting, Present, TypeOK
    <3>3. outcome \in Errors
      BY DEF TypeOK, Errors
    <3>4. Broker!Answer(current, outcome)
      BY <2>5, <3>2 DEF Deliver, ResultQueueHasRoom, Broker!Answer
    <3>. QED BY <3>1, <3>3, <3>4 DEF Broker!BrokerNext, Broker!Errors, Errors, Outcomes
  <2>. QED
    BY <1>2, <2>1, <2>2, <2>3, <2>4, <2>5, HeldUnchanged
    DEF Next, Worker, Broker!brokerVars
<1>. QED BY <1>1, <1>2, Invariance, PTL DEF Spec, ImplementsBroker, Broker!BrokerSpec
-----------------------------------------------------------------------------
(* The cost of one request *)

\* The fetches a request can have behind it while it waits: none for a quote or
\* probe, one per earlier attempt at Tencent, all of them at EastMoney.
SpentBefore(r) ==
  IF ~IsIntraday(r) THEN 0
  ELSE IF r.provider = "TENCENT" THEN r.attempt - 1 ELSE MaxAttempts

Fetched(i) == i = current /\ pc \in {"fetch", "settle", "deliver"}

\* FetchBudget strengthened to every stage of a request's life.
FetchInv ==
  \A i \in DOMAIN request :
    /\ IsIntraday(request[i]) /\ request[i].provider = "TENCENT"
         => request[i].attempt <= MaxAttempts
    /\ request[i].fetches <= SpentBefore(request[i]) + 1
    /\ ~Fetched(i) => request[i].fetches <= SpentBefore(request[i])

\* At least one attempt is allowed, whatever retry delays are configured.
LEMMA MaxAttemptsNat == MaxAttempts \in Nat \ {0}
BY WorkerAssumption

\* A step that leaves the requests it keeps unchanged keeps FetchInv, unless it
\* ends the stage in which the current request has been fetched.
LEMMA FetchInvKept ==
  ASSUME FetchInv, DOMAIN request' \subseteq DOMAIN request,
         \A i \in DOMAIN request' : request'[i] = request[i] /\ (Fetched(i) => Fetched(i)')
  PROVE  FetchInv'
BY DEF FetchInv, SpentBefore, IsIntraday

\* No step makes a request spend more fetches than its attempt accounts for.
LEMMA FetchNextInv ==
  ASSUME IInv, FetchInv, [Next]_vars
  PROVE  FetchInv'
<1>. USE DEF IInv
<1>0. \A i \in DOMAIN request : request[i] \in Request
  BY DEF TypeOK
<1>1. ASSUME NEW i \in Ids, NEW kind \in Kinds, Enqueue(i, kind) PROVE FetchInv'
  <2>. DEFINE r == NewRequest(kind)
  <2>1. /\ DOMAIN request' \subseteq DOMAIN request \cup {i}
        /\ request'[i] = r
        /\ \A j \in DOMAIN request' \ {i} : request'[j] = request[j]
        /\ current' = current /\ pc' = pc
    BY <1>1 DEF Enqueue, PlaceIntraday, PromoteQuote, PushQuote, Put, Drop, workerVars
  <2>2. r.attempt = 1 /\ r.fetches = 0 /\ SpentBefore(r) \in Nat
    BY MaxAttemptsNat DEF NewRequest, SpentBefore
  <2>3. i # current
    BY <1>1, WorkerAssumption DEF Enqueue, HeldOnce, Held, Present
  <2>. HIDE DEF r
  <2>. QED BY <2>1, <2>2, <2>3, MaxAttemptsNat DEF FetchInv, SpentBefore, Fetched, IsIntraday
<1>2. CASE \/ \E value \in BOOLEAN : SetPaused(value)
           \/ TryReceive \/ ReadClock \/ EndPost \/ KeepResult
           \/ \E i \in Ids : PostNotice(i) \/ LoseNotice(i)
           \/ \E error \in Outcomes : EndFetch(error)
           \/ UNCHANGED vars
  <2>1. request' = request /\ current' = current
    BY <1>2 DEF SetPaused, TryReceive, ReadClock, EndPost, KeepResult, PostNotice,
       LoseNotice, EndFetch, vars, pendingVars, workerVars
  <2>2. pc \in {"fetch", "settle", "deliver"} => pc' \in {"fetch", "settle", "deliver"}
    BY <1>2 DEF SetPaused, TryReceive, ReadClock, EndPost, KeepResult, PostNotice,
       LoseNotice, EndFetch, vars, pendingVars, workerVars
  <2>. QED BY <2>1, <2>2, FetchInvKept DEF Fetched
<1>3. CASE TakeWork
  <2>1. \E S : request' = Drop(request, S)
    BY <1>3 DEF TakeWork
  <2>2. \A i : ~Fetched(i)
    BY <1>3 DEF TakeWork, Fetched
  <2>. QED BY <2>1, <2>2, FetchInvKept DEF Drop
<1>4. CASE ExecuteWithoutMemory \/ Deliver
  <2>1. request' = Drop(request, {current})
    BY <1>4 DEF ExecuteWithoutMemory, Deliver
  <2>. QED BY <2>1, FetchInvKept DEF Drop, Fetched
<1>5. CASE BeginFetch
  <2>1. /\ DOMAIN request' = DOMAIN request
        /\ \A j \in DOMAIN request \ {current} : request'[j] = request[j]
        /\ current' = current /\ pc' = "fetch" /\ pc = "execute"
        /\ current \in DOMAIN request
    BY <1>5 DEF BeginFetch, TypeOK, ControlInv, Present
  <2>2. request'[current] = [request[current] EXCEPT !.fetches = @ + 1]
    BY <1>5, <2>1 DEF BeginFetch
  <2>3. /\ request'[current].fetches = request[current].fetches + 1
        /\ request'[current].attempt = request[current].attempt
        /\ request'[current].type = request[current].type
        /\ request'[current].provider = request[current].provider
    BY <1>0, <2>1, <2>2 DEF Request
  <2>4. SpentBefore(request'[current]) = SpentBefore(request[current])
    BY <2>3 DEF SpentBefore, IsIntraday
  <2>5. request[current].fetches <= SpentBefore(request[current])
    BY <2>1 DEF FetchInv, Fetched
  <2>6. request[current].fetches \in Nat /\ SpentBefore(request[current]) \in Int
    BY <1>0, <2>1, MaxAttemptsNat DEF SpentBefore, Request
  <2>. QED BY <2>1, <2>3, <2>4, <2>5, <2>6 DEF FetchInv, Fetched, IsIntraday, SpentBefore
<1>6. ASSUME NEW r, Defer(r), current \in DOMAIN request,
             r.fetches <= SpentBefore(r), r.fetches \in Nat, SpentBefore(r) \in Int,
             IsIntraday(r) /\ r.provider = "TENCENT" => r.attempt <= MaxAttempts
      PROVE  FetchInv'
  <2>1. /\ DOMAIN request' = DOMAIN request
        /\ \A j \in DOMAIN request \ {current} : request'[j] = request[j]
        /\ request'[current] = r
        /\ pc' = "top"
    BY <1>6 DEF Defer
  <2>. QED BY <1>6, <2>1 DEF FetchInv, Fetched, SpentBefore, IsIntraday
<1>7. CASE DeferRetry \/ DeferFallback
  <2>1. /\ current \in DOMAIN request /\ request[current] \in Request
        /\ IsIntraday(request[current]) /\ request[current].provider = "TENCENT"
    BY <1>7 DEF DeferRetry, DeferFallback, RetryInstalls, FallbackInstalls,
       ShouldRetryIntraday, ShouldFallbackIntraday, ControlInv, TypeOK, Present
  <2>2. /\ request[current].fetches <= request[current].attempt
        /\ request[current].attempt <= MaxAttempts
        /\ request[current].fetches \in Nat /\ request[current].attempt \in Nat \ {0}
    BY <2>1 DEF FetchInv, SpentBefore, Request
  <2>3. CASE DeferRetry
    <3>1. PICK d : Defer(RetryOf(request[current], d))
      BY <2>3 DEF DeferRetry
    <3>. DEFINE r == RetryOf(request[current], d)
    <3>2. /\ r.fetches = request[current].fetches
          /\ r.attempt = request[current].attempt + 1
          /\ r.type = request[current].type /\ r.provider = "TENCENT"
      BY <2>1 DEF RetryOf, Request
    <3>3. request[current].attempt < MaxAttempts
      BY <2>3 DEF DeferRetry, RetryInstalls, ShouldRetryIntraday
    <3>4. r.attempt <= MaxAttempts /\ r.fetches <= r.attempt - 1
      BY <2>2, <3>2, <3>3, MaxAttemptsNat
    <3>. HIDE DEF r
    <3>5. SpentBefore(r) = r.attempt - 1 /\ SpentBefore(r) \in Int
      BY <2>1, <2>2, <3>2 DEF SpentBefore, IsIntraday
    <3>. QED BY <1>6, <2>1, <2>2, <3>1, <3>2, <3>4, <3>5 DEF r
  <2>4. CASE DeferFallback
    <3>1. Defer(FallbackOf(request[current]))
      BY <2>4 DEF DeferFallback
    <3>. DEFINE r == FallbackOf(request[current])
    <3>2. /\ r.fetches = request[current].fetches
          /\ r.type = request[current].type /\ r.provider = "EAST_MONEY"
      BY <2>1 DEF FallbackOf, Request
    <3>. HIDE DEF r
    <3>3. SpentBefore(r) = MaxAttempts
      BY <2>1, <3>2 DEF SpentBefore, IsIntraday
    <3>. QED BY <1>6, <2>1, <2>2, <3>1, <3>2, <3>3, MaxAttemptsNat DEF r
  <2>. QED BY <1>7, <2>3, <2>4
<1>8. CASE Tick
  <2>1. /\ DOMAIN request' = DOMAIN request
        /\ current' = current /\ pc' = pc
    BY <1>8 DEF Tick
  <2>2. \A i \in DOMAIN request :
          /\ request'[i].fetches = request[i].fetches
          /\ request'[i].attempt = request[i].attempt
          /\ request'[i].type = request[i].type
          /\ request'[i].provider = request[i].provider
    BY <1>0, <1>8 DEF Tick, Request
  <2>3. \A i \in DOMAIN request : SpentBefore(request'[i]) = SpentBefore(request[i])
    BY <2>2 DEF SpentBefore, IsIntraday
  <2>. QED BY <2>1, <2>2, <2>3 DEF FetchInv, Fetched, IsIntraday
<1>. QED
  BY <1>1, <1>2, <1>3, <1>4, <1>5, <1>7, <1>8 DEF Next, Worker

\* One accepted request never costs more fetches than its budget.
THEOREM FetchesBounded == Spec => []FetchBudget
<1>1. Init => FetchInv
  BY DEF Init, FetchInv, Empty
<1>2. IInv /\ FetchInv => FetchBudget
  <2>. SUFFICES ASSUME IInv, FetchInv, NEW i \in DOMAIN request
                PROVE  request[i].fetches <= IF IsIntraday(request[i])
                                             THEN MaxAttempts + 1 ELSE 1
    BY DEF FetchBudget
  <2>1. request[i] \in Request
    BY DEF IInv, TypeOK
  <2>2. /\ request[i].fetches \in Nat /\ request[i].attempt \in Nat
        /\ request[i].fetches <= SpentBefore(request[i]) + 1
    BY <2>1 DEF FetchInv, Request
  <2>3. CASE ~IsIntraday(request[i])
    BY <2>2, <2>3 DEF SpentBefore
  <2>4. CASE IsIntraday(request[i]) /\ request[i].provider = "TENCENT"
    <3>1. request[i].attempt <= MaxAttempts
      BY <2>4 DEF FetchInv
    <3>. QED BY <2>2, <2>4, <3>1, MaxAttemptsNat DEF SpentBefore
  <2>5. CASE IsIntraday(request[i]) /\ request[i].provider # "TENCENT"
    BY <2>2, <2>5, MaxAttemptsNat DEF SpentBefore
  <2>. QED BY <2>3, <2>4, <2>5
<1>. QED BY <1>1, <1>2, Invariance, FetchNextInv, PTL DEF Spec
-----------------------------------------------------------------------------
(* The intraday slot *)

\* A deferred retry or fallback never pushes newer work out of the slot.
THEOREM NewWorkWins == Spec => OnlyNewWorkDisplaces
<1>. DEFINE Displaced == intraday # NoId /\ intraday' \notin {intraday, NoId}
<1>1. ASSUME IInv, [Next]_vars
      PROVE  Displaced => intraday' \notin outstanding /\ intraday \in cancelled'
  <2>. SUFFICES ASSUME Displaced
                PROVE  intraday' \notin outstanding /\ intraday \in cancelled'
    OBVIOUS
  <2>1. ASSUME NEW i \in Ids, NEW kind \in Kinds, Enqueue(i, kind)
        PROVE  intraday' \notin outstanding /\ intraday \in cancelled'
    BY <2>1 DEF Enqueue, PlaceIntraday, PromoteQuote, PushQuote, Present
  <2>2. ~(DeferRetry \/ DeferFallback)
    BY DEF DeferRetry, DeferFallback, RetryInstalls, FallbackInstalls, SlotFree
  <2>3. ~TakeWork
    BY DEF TakeWork
  <2>. QED
    BY <1>1, <2>1, <2>2, <2>3
    DEF Next, Worker, SetPaused, TryReceive, ReadClock, EndPost, PostNotice, LoseNotice,
        ExecuteWithoutMemory, BeginFetch, EndFetch, KeepResult, Deliver, Tick,
        vars, pendingVars
<1>. QED BY <1>1, Invariance, PTL DEF Spec, OnlyNewWorkDisplaces
-----------------------------------------------------------------------------
(* The keys of the waiting quotes and probes *)

\* What waits keeps its key, and nothing joins it.
LEMMA KeysKept ==
  ASSUME OneWaitingPerKey, highPriority' \subseteq highPriority,
         \A j \in highPriority' : /\ request'[j].type = request[j].type
                                  /\ request'[j].symbol = request[j].symbol
  PROVE  OneWaitingPerKey'
BY DEF OneWaitingPerKey

LEMMA KeysEnqueued ==
  ASSUME IInv, OneWaitingPerKey, NEW i \in Ids, NEW kind \in Kinds, Enqueue(i, kind)
  PROVE  OneWaitingPerKey'
<1>. DEFINE r == NewRequest(kind)
<1>1. /\ DOMAIN request = highPriority \cup Present(intraday) \cup Present(current)
      /\ i \notin highPriority /\ intraday \notin highPriority
  BY DEF IInv, TypeOK, HeldOnce, Held, Enqueue
<1>2. CASE PlaceIntraday(i, r)
  <2>1. highPriority' = highPriority /\ \A j \in highPriority : request'[j] = request[j]
    BY <1>1, <1>2 DEF PlaceIntraday, Put, Drop
  <2>. QED BY <2>1, KeysKept
<1>3. CASE PromoteQuote(i, r)
  <2>1. PICK j \in highPriority :
          /\ SameKey(request[j], r)
          /\ highPriority' = (highPriority \ {j}) \cup {i}
          /\ request' = Put(Drop(request, {j}), i, r)
    BY <1>3 DEF PromoteQuote
  <2>2. /\ request'[i] = r
        /\ \A k \in highPriority \ {j} : request'[k] = request[k]
    BY <1>1, <2>1 DEF Put, Drop
  <2>3. \A k \in highPriority \ {j} : ~SameKey(request[k], r)
    BY <2>1 DEF SameKey, OneWaitingPerKey
  <2>. HIDE DEF r
  <2>4. \A k \in highPriority \ {j} : ~(request'[k].type = request'[i].type
                                         /\ request'[k].symbol = request'[i].symbol)
    BY <2>2, <2>3 DEF SameKey
  <2>5. \A k, m \in highPriority \ {j} :
          request'[k].type = request'[m].type /\ request'[k].symbol = request'[m].symbol => k = m
    BY <2>2 DEF OneWaitingPerKey
  <2>. QED BY <2>1, <2>4, <2>5 DEF OneWaitingPerKey
<1>4. CASE PushQuote(i, r)
  <2>1. /\ highPriority' = highPriority \cup {i}
        /\ request'[i] = r
        /\ \A k \in highPriority : request'[k] = request[k] /\ ~SameKey(request[k], r)
    BY <1>1, <1>4 DEF PushQuote, Put
  <2>. HIDE DEF r
  <2>. QED BY <2>1 DEF SameKey, OneWaitingPerKey
<1>. QED BY <1>2, <1>3, <1>4 DEF Enqueue

\* No two waiting quotes or probes ask for the same thing, for every capacity and every
\* set of stocks (PendingMarketWork::add()).
THEOREM KeysWaitOnce == Spec => []OneWaitingPerKey
<1>1. Init => OneWaitingPerKey
  BY DEF Init, OneWaitingPerKey
<1>2. ASSUME IInv, OneWaitingPerKey, [Next]_vars PROVE OneWaitingPerKey'
  <2>1. /\ DOMAIN request = highPriority \cup Present(intraday) \cup Present(current)
        /\ highPriority \subseteq Ids
        /\ intraday \notin highPriority /\ current \notin Waiting
        /\ current \notin highPriority /\ NoId \notin highPriority
    BY <1>2, WorkerAssumption DEF IInv, TypeOK, HeldOnce, Waiting
  <2>2. CASE UNCHANGED <<highPriority, request>>
    BY <1>2, <2>2, KeysKept
  <2>3. CASE TakeWork
    <3>1. PICK overdue, next : /\ highPriority' = highPriority \ (overdue \cup {next})
                               /\ request' = Drop(request, overdue)
      BY <2>3 DEF TakeWork
    <3>. QED BY <1>2, <2>1, <3>1, KeysKept DEF Drop
  <2>4. CASE BeginFetch
    <3>1. highPriority' = highPriority /\ \A j \in highPriority : request'[j] = request[j]
      BY <2>1, <2>4 DEF BeginFetch
    <3>. QED BY <1>2, <3>1, KeysKept
  <2>5. CASE ExecuteWithoutMemory \/ Deliver
    <3>1. highPriority' = highPriority /\ \A j \in highPriority : request'[j] = request[j]
      BY <2>1, <2>5 DEF ExecuteWithoutMemory, Deliver, Drop
    <3>. QED BY <1>2, <3>1, KeysKept
  <2>6. CASE DeferRetry \/ DeferFallback
    <3>1. highPriority' = highPriority /\ \A j \in highPriority : request'[j] = request[j]
      BY <2>1, <2>6 DEF DeferRetry, DeferFallback, Defer
    <3>. QED BY <1>2, <3>1, KeysKept
  <2>7. CASE Tick
    <3>1. \A j \in highPriority : request[j] \in Request
      BY <1>2, <2>1 DEF IInv, TypeOK
    <3>2. /\ highPriority' = highPriority
          /\ \A j \in highPriority :
               request'[j] = [request[j] EXCEPT !.age = Older(@), !.cycleAge = Older(@)]
      BY <2>1, <2>7 DEF Tick
    <3>3. \A j \in highPriority : /\ request'[j].type = request[j].type
                                  /\ request'[j].symbol = request[j].symbol
      BY <3>1, <3>2 DEF Request
    <3>. QED BY <1>2, <3>2, <3>3, KeysKept
  <2>. QED
    BY <1>2, <2>2, <2>3, <2>4, <2>5, <2>6, <2>7, KeysEnqueued
    DEF Next, Worker, SetPaused, TryReceive, ReadClock, EndPost, PostNotice, LoseNotice,
        EndFetch, KeepResult, vars, pendingVars
<1>. QED BY <1>1, <1>2, Invariance, PTL DEF Spec

-----------------------------------------------------------------------------
(* Which request is popped *)

\* Quotes and probes wait in highPriority_ and are ready from the start; only intraday
\* requests wait in the slot.  run()'s clock value is never older than the bound.
SortedInv ==
  /\ \A i \in highPriority : ~IsIntraday(request[i]) /\ request[i].delay = 0
  /\ lag <= MaxLag

\* A clock value read before the request was created wraps to an age past every TTL.
LEMMA NewerThanClock ==
  ASSUME NEW a \in Nat, NEW n \in Nat, n <= MaxLag, a < n
  PROVE  Elapsed(a, n) > CurrentTtl /\ Elapsed(a, n) > BackgroundTtl /\ Elapsed(a, n) > ProbeTtl
<1> DEFINE w == WordSize
<1>1. /\ w \in Nat /\ w > 0 /\ MaxLag \in Nat
      /\ CurrentTtl \in Nat /\ BackgroundTtl \in Nat /\ ProbeTtl \in Nat
      /\ CurrentTtl + MaxLag < w /\ BackgroundTtl + MaxLag < w /\ ProbeTtl + MaxLag < w
  BY WorkerAssumption, ClockAssumption
<1>2. Elapsed(a, n) = (a - n) % w
  BY DEF Elapsed
<1> HIDE DEF w
<1>3. a - n < 0 /\ -w < a - n
  BY <1>1
<1>4. (a - n) % w = (a - n) + w
  BY <1>1, <1>3
<1> QED BY <1>1, <1>2, <1>3, <1>4

\* So a waiting quote or probe is popped or expired, never passed over.
LEMMA ReadyOrExpired ==
  ASSUME NEW r \in Request, ~IsIntraday(r), r.delay = 0, NEW n \in Nat, n <= MaxLag
  PROVE  Ready(r, n) \/ Expired(r, n)
<1>1. r.age \in Nat /\ r.type \in {"QUOTE", "PRIMARY_PROBE"}
  BY DEF Request, Types, IsIntraday
<1>2. CASE r.age >= n
  BY <1>1, <1>2 DEF Ready
<1>3. CASE r.age < n
  <2>1. TtlMs(r) \in {CurrentTtl, BackgroundTtl, ProbeTtl} /\ ExpiryAge(r) = r.age
    BY <1>1 DEF TtlMs, ExpiryAge, IsIntradayRetry, IsIntraday
  <2> QED BY <1>1, <1>3, <2>1, NewerThanClock DEF Expired
<1> QED BY <1>1, <1>2, <1>3

\* Only new quotes and probes join highPriority_, and time moves their ages alone.
LEMMA SortedNextInv ==
  ASSUME IInv, SortedInv, [Next]_vars
  PROVE  SortedInv'
<1>0. /\ DOMAIN request = highPriority \cup Present(intraday) \cup Present(current)
      /\ \A i \in DOMAIN request : request[i] \in Request
      /\ current \notin highPriority /\ lag \in Nat /\ MaxLag \in Nat
  BY WorkerAssumption DEF IInv, TypeOK, HeldOnce, Waiting
<1>1. ASSUME NEW i \in Ids, NEW kind \in Kinds, Enqueue(i, kind) PROVE SortedInv'
  <2> DEFINE r == NewRequest(kind)
  <2>1. r.delay = 0 /\ (IsIntraday(r) => highPriority' = highPriority)
    BY <1>1 DEF NewRequest, Enqueue, PlaceIntraday, PromoteQuote, PushQuote
  <2>2. lag' = lag
    BY <1>1 DEF Enqueue, workerVars
  <2>3. ASSUME NEW j \in highPriority', j # i
        PROVE  j \in highPriority /\ request'[j] = request[j]
    <3>1. CASE PlaceIntraday(i, r)
      BY <1>0, <2>3, <3>1 DEF IInv, HeldOnce, PlaceIntraday, Put, Drop
    <3>2. CASE PromoteQuote(i, r)
      BY <1>0, <2>3, <3>2 DEF PromoteQuote, Put, Drop
    <3>3. CASE PushQuote(i, r)
      BY <1>0, <2>3, <3>3 DEF PushQuote, Put
    <3> QED BY <1>1, <3>1, <3>2, <3>3 DEF Enqueue
  <2>4. i \in highPriority' => ~IsIntraday(r) /\ request'[i] = r
    BY <1>0, <1>1 DEF IInv, HeldOnce, Held, Enqueue, PlaceIntraday, PromoteQuote, PushQuote, Put, Drop
  <2> HIDE DEF r
  <2> QED BY <2>1, <2>2, <2>3, <2>4 DEF SortedInv
<1>2. CASE Tick
  <2>1. lag' <= MaxLag
    <3>1. \/ lag' = lag
          \/ lag' = lag + 1 /\ lag < MaxLag
      BY <1>2, Zenon DEF Tick
    <3>2. lag <= MaxLag
      BY DEF SortedInv
    <3> QED BY ONLY <1>0, <3>1, <3>2
  <2>2. highPriority' = highPriority
    BY <1>2 DEF Tick
  <2>3. \A i \in highPriority : request'[i].type = request[i].type /\ request'[i].delay = request[i].delay
    BY <1>0, <1>2 DEF Tick, Request
  <2> QED BY <2>1, <2>2, <2>3 DEF SortedInv, IsIntraday
<1>3. ASSUME ~Tick, ~\E i \in Ids, kind \in Kinds : Enqueue(i, kind) PROVE SortedInv'
  <2>1. lag' \in {0, lag}
    BY <1>3 DEF Next, Worker, SetPaused, TryReceive, ReadClock, TakeWork, EndPost, PostNotice,
       LoseNotice, ExecuteWithoutMemory, BeginFetch, EndFetch, DeferRetry, DeferFallback, Defer,
       KeepResult, Deliver, vars, workerVars
  <2>2. highPriority' \subseteq highPriority
    BY <1>3 DEF Next, Worker, SetPaused, TryReceive, ReadClock, TakeWork, EndPost, PostNotice,
       LoseNotice, ExecuteWithoutMemory, BeginFetch, EndFetch, DeferRetry, DeferFallback, Defer,
       KeepResult, Deliver, vars, pendingVars
  <2>3. \A j \in highPriority' : request'[j] = request[j]
    <3>1. CASE TakeWork
      BY <1>0, <3>1 DEF TakeWork, Drop, Waiting
    <3>2. CASE ExecuteWithoutMemory \/ Deliver
      BY <1>0, <2>2, <3>2 DEF ExecuteWithoutMemory, Deliver, Drop
    <3>3. CASE BeginFetch \/ DeferRetry \/ DeferFallback
      <4>1. \E r : request' = [request EXCEPT ![current] = r]
        BY <3>3 DEF BeginFetch, DeferRetry, DeferFallback, Defer
      <4> QED BY <1>0, <2>2, <4>1
    <3>4. CASE request' = request
      BY <3>4
    <3> QED
      BY <1>3, <3>1, <3>2, <3>3, <3>4 DEF Next, Worker, SetPaused, TryReceive, ReadClock,
         EndPost, PostNotice, LoseNotice, EndFetch, KeepResult, vars, pendingVars
  <2>4. lag' <= MaxLag
    BY <1>0, <2>1 DEF SortedInv
  <2> QED BY <2>2, <2>3, <2>4 DEF SortedInv
<1> QED BY <1>1, <1>2, <1>3 DEF Next

\* An intraday request is fetched only when no quote and no probe waits, however stale
\* the clock value the worker decides by (PendingMarketWork::popNextReady()).
THEOREM UrgentGoesFirst == Spec => UrgentFirst
<1> DEFINE Picked == pc = "take" /\ current' # NoId /\ IsIntraday(request[current'])
<1>1. Init => SortedInv
  BY WorkerAssumption DEF Init, SortedInv
<1>2. ASSUME IInv, SortedInv, [Next]_vars, Picked PROVE highPriority' = {}
  <2>1. TakeWork
    <3>1. current = NoId
      BY <1>2 DEF IInv, ControlInv
    <3> QED
      BY <1>2, <3>1 DEF Next, Enqueue, SetPaused, TryReceive, Worker, ReadClock, EndPost,
         PostNotice, LoseNotice, ExecuteWithoutMemory, BeginFetch, EndFetch, DeferRetry,
         DeferFallback, Defer, KeepResult, Deliver, Tick, vars, workerVars
  <2> DEFINE overdue == IF paused THEN {} ELSE {i \in Waiting : Expired(request[i], lag)}
             ready   == {i \in highPriority \ overdue : Ready(request[i], lag)}
  <2>2. ~paused
    BY <1>2, <2>1 DEF TakeWork
  <2>3. current' \in NextReady(overdue) /\ highPriority' = highPriority \ (overdue \cup {current'})
    BY <2>1, <2>2 DEF TakeWork
  <2>4. current' \notin highPriority
    BY <1>2 DEF SortedInv
  <2>5. ready = {}
    BY <1>2, <2>3, <2>4 DEF NextReady
  <2>6. ASSUME NEW i \in highPriority PROVE i \in overdue
    <3>1. request[i] \in Request /\ lag \in Nat
      BY <1>2 DEF IInv, TypeOK
    <3>2. Ready(request[i], lag) \/ Expired(request[i], lag)
      BY <1>2, <3>1, ReadyOrExpired DEF SortedInv
    <3> QED BY <2>2, <2>5, <3>2 DEF Waiting
  <2> HIDE DEF overdue
  <2> QED BY <2>3, <2>6
<1> QED BY <1>1, <1>2, SortedNextInv, Invariance, PTL DEF Spec, UrgentFirst
=============================================================================
