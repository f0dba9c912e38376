---------------------- MODULE AppDataControllersProofs ----------------------
(***************************************************************************)
(* The safety properties of AppDataControllers, for any depths of the        *)
(* queues, numbers of entities and ids, and refresh times: types, where the  *)
(* one request of a page is, that nothing is dropped, and that a cycle       *)
(* covers the entities.                                                      *)
(***************************************************************************)
EXTENDS AppDataControllers, SequenceTheorems, TLAPS

-----------------------------------------------------------------------------
(* Types *)

LEMMA Numbers ==
  /\ RequestDepth \in Nat \ {0} /\ ResultDepth \in Nat \ {0}
  /\ EntityCount \in Nat \ {0} /\ IdCount \in Nat \ {0}
  BY AppDataAssumption

LEMMA NextIdType == ASSUME NEW id \in Ids PROVE NextId(id) \in Ids
<1>1. id % IdCount \in 0..IdCount - 1
  BY Numbers DEF Ids
<1> QED BY <1>1, Numbers DEF NextId, Ids

LEMMA IdIsSome == NoId \notin Ids
  BY DEF NoId, Ids

LEMMA IdleIsNoRequest == Idle \notin Request
  BY DEF Idle, Request, Types

\* enqueue() keeps the types of what it changes, and the limit of the queue.
LEMMA EnqueueType ==
  ASSUME TypeOK, NEW request \in Request, Enqueue(request)
  PROVE  requestQueue' \in Seq(Request) /\ Len(requestQueue') <= RequestDepth
  BY Numbers DEF TypeOK, Enqueue, CanEnqueue

LEMMA InitType == Init => TypeOK
<1> SUFFICES ASSUME Init PROVE TypeOK
  OBVIOUS
<1>1. requestQueue \in Seq(Request) /\ Len(requestQueue) <= RequestDepth
  BY Numbers DEF Init, WorkerInit
<1>2. resultQueues \in [Types -> Seq(Result)] /\ \A type \in Types : Len(resultQueues[type]) <= ResultDepth
  BY Numbers DEF Init, WorkerInit
<1>3. nextRequestId \in [Types -> Ids] /\ outstanding \in [Types -> Ids \cup {NoId}]
  BY Numbers DEF Init, Ids
<1>4. outstandingEntity \in Entities /\ nextEntity \in 0..EntityCount
  BY Numbers DEF Init, Entities
<1> QED BY <1>1, <1>2, <1>3, <1>4, RefreshAssumption DEF Init, WorkerInit, TypeOK

\* Taking a request.
LEMMA TakenType ==
  ASSUME TypeOK, requestQueue # <<>>
  PROVE  /\ Head(requestQueue) \in Request /\ Head(requestQueue).type \in Types
         /\ Tail(requestQueue) \in Seq(Request) /\ Len(Tail(requestQueue)) <= RequestDepth
<1>1. Head(requestQueue) \in Request /\ Tail(requestQueue) \in Seq(Request)
  BY HeadTailProperties DEF TypeOK
<1>2. Len(Tail(requestQueue)) = Len(requestQueue) - 1 /\ Len(requestQueue) \in Nat
  BY HeadTailProperties DEF TypeOK
<1> QED BY <1>1, <1>2, Numbers DEF TypeOK, Request

LEMMA NextType == TypeOK /\ [Next]_vars => TypeOK'
<1> SUFFICES ASSUME TypeOK, [Next]_vars PROVE TypeOK'
  OBVIOUS
<1> USE Numbers
<1>1. CASE UNCHANGED vars
  BY <1>1 DEF vars, workerVars, controllerVars, haVars, TypeOK
<1>2. ASSUME NEW type \in Types, ConsumeResult(type) PROVE TypeOK'
  <2> DEFINE result == Received(type)
  <2>1. resultQueues[type] \in Seq(Result) /\ resultQueues[type] # <<>>
    BY <1>2 DEF ConsumeResult, TryReceive, CanReceive, TypeOK
  <2>2. /\ result \in Result /\ Tail(resultQueues[type]) \in Seq(Result)
        /\ Len(Tail(resultQueues[type])) = Len(resultQueues[type]) - 1
    BY <2>1, HeadTailProperties DEF Received
  <2>3. resultQueues' = [resultQueues EXCEPT ![type] = Tail(@)]
    BY <1>2 DEF ConsumeResult, TryReceive
  <2>4. resultQueues' \in [Types -> Seq(Result)] /\ \A t \in Types : Len(resultQueues'[t]) <= ResultDepth
    <3>1. Len(resultQueues[type]) <= ResultDepth
      BY DEF TypeOK
    <3>2. Len(Tail(resultQueues[type])) <= ResultDepth
      BY <2>1, <2>2, <3>1, LenProperties
    <3> QED BY <2>2, <2>3, <3>2 DEF TypeOK
  <2>5. result.entity \in Entities
    BY <2>2 DEF Result
  <2>6. /\ outstanding' \in [Types -> Ids \cup {NoId}]
        /\ nextEntity' \in 0..EntityCount /\ cycleInProgress' \in BOOLEAN
        /\ cycleInProgress' /\ outstanding'["HOME_ASSISTANT"] = NoId => nextEntity' \in Entities
    <3>1. CASE Accepted(type, result)
      <4>1. outstanding' = [outstanding EXCEPT ![type] = NoId]
        BY <1>2, <3>1 DEF ConsumeResult
      <4>2. CASE type = "HOME_ASSISTANT"
        <5>1. nextEntity' = result.entity + 1 /\ cycleInProgress' = (cycleInProgress /\ ~CycleEnds(result.entity))
          BY <1>2, <3>1, <4>2 DEF ConsumeResult
        <5>2. /\ result.entity + 1 \in 0..EntityCount
              /\ ~CycleEnds(result.entity) => result.entity + 1 \in Entities
          BY <2>5 DEF CycleEnds, Entities
        <5>3. cycleInProgress' \in BOOLEAN /\ (cycleInProgress' => ~CycleEnds(result.entity))
          BY <5>1
        <5> QED BY <4>1, <5>1, <5>2, <5>3 DEF TypeOK
      <4>3. CASE type # "HOME_ASSISTANT"
        <5>1. UNCHANGED <<nextEntity, cycleInProgress>>
          BY <1>2, <3>1, <4>3 DEF ConsumeResult
        <5> QED BY <4>1, <4>3, <5>1 DEF TypeOK, Types
      <4> QED BY <4>2, <4>3
    <3>2. CASE ~Accepted(type, result)
      BY <1>2, <3>2 DEF ConsumeResult, TypeOK
    <3> QED BY <3>1, <3>2
  <2> QED BY <1>2, <2>4, <2>6 DEF ConsumeResult, TryReceive, TypeOK
<1>3. ASSUME NEW type \in Types, NothingToAsk(type) PROVE TypeOK'
  BY <1>3 DEF NothingToAsk, EndTick, workerVars, controllerVars, haVars, TypeOK
<1>4. CASE AskWeather
  <2> DEFINE request == [type |-> "WEATHER", id |-> nextRequestId["WEATHER"], entity |-> 0]
  <2>1. request \in Request
    BY DEF Request, Types, Entities, TypeOK
  <2>2. nextRequestId' \in [Types -> Ids]
    BY <1>4, NextIdType DEF AskWeather, TakeId, TypeOK, Types
  <2>3. CASE CanEnqueue
    <3>1. Enqueue(request) /\ UNCHANGED <<resultQueues, running, lost, dropped>>
      BY <1>4, <2>3 DEF AskWeather, Enqueue
    <3>2. /\ outstanding' = [outstanding EXCEPT !["WEATHER"] = nextRequestId["WEATHER"]]
          /\ sinceAttempt' = [sinceAttempt EXCEPT !["WEATHER"] = 0]
      BY <1>4, <2>3 DEF AskWeather
    <3>3. outstanding' \in [Types -> Ids \cup {NoId}] /\ sinceAttempt' \in [Types -> Nat]
          /\ outstanding'["HOME_ASSISTANT"] = outstanding["HOME_ASSISTANT"]
      BY <3>2 DEF TypeOK, Types
    <3> HIDE DEF request
    <3> QED BY <1>4, <2>1, <2>2, <3>1, <3>3, EnqueueType DEF AskWeather, EndTick, haVars, TypeOK
  <2>4. CASE ~CanEnqueue
    BY <1>4, <2>2, <2>4 DEF AskWeather, EndTick, workerVars, haVars, TypeOK
  <2> QED BY <2>3, <2>4
<1>5. ASSUME NEW entity \in Entities, EnqueueEntity(entity)
      PROVE  /\ nextRequestId' \in [Types -> Ids] /\ outstanding' \in [Types -> Ids \cup {NoId}]
             /\ outstandingEntity' \in Entities /\ cycleInProgress' \in BOOLEAN
             /\ cycleInProgress' => outstanding'["HOME_ASSISTANT"] # NoId
             /\ requestQueue' \in Seq(Request) /\ Len(requestQueue') <= RequestDepth
             /\ UNCHANGED <<resultQueues, running, lost, dropped>>
  <2> DEFINE request == [type |-> "HOME_ASSISTANT", id |-> nextRequestId["HOME_ASSISTANT"], entity |-> entity]
  <2>1. request \in Request
    BY <1>5 DEF Request, Types, TypeOK
  <2>2. nextRequestId' \in [Types -> Ids]
    BY <1>5, NextIdType DEF EnqueueEntity, TakeId, TypeOK, Types
  <2>3. cycleInProgress' = CanEnqueue
    BY <1>5 DEF EnqueueEntity, CanEnqueue
  <2>4. CASE cycleInProgress'
    <3>1. /\ Enqueue(request) /\ outstandingEntity' = entity
          /\ outstanding' = [outstanding EXCEPT !["HOME_ASSISTANT"] = nextRequestId["HOME_ASSISTANT"]]
      BY <1>5, <2>4 DEF EnqueueEntity
    <3>2. outstanding' \in [Types -> Ids \cup {NoId}] /\ outstanding'["HOME_ASSISTANT"] # NoId
      BY <3>1, IdIsSome DEF TypeOK, Types
    <3> HIDE DEF request
    <3> QED BY <1>5, <2>1, <2>2, <2>4, <3>1, <3>2, EnqueueType DEF Enqueue
  <2>5. CASE ~cycleInProgress'
    BY <1>5, <2>2, <2>3, <2>5 DEF EnqueueEntity, workerVars, TypeOK, CanEnqueue
  <2> QED BY <2>4, <2>5
<1>6. CASE ContinueCycle
  <2>1. nextEntity \in Entities
    BY <1>6 DEF ContinueCycle, Free, TypeOK
  <2> QED BY <1>5, <1>6, <2>1 DEF ContinueCycle, EndTick, TypeOK
<1>7. CASE StartCycle
  <2>1. 0 \in Entities /\ 0 \in 0..EntityCount
    BY DEF Entities
  <2>2. sinceAttempt' \in [Types -> Nat]
    BY <1>7 DEF StartCycle, TypeOK
  <2> QED BY <1>5, <1>7, <2>1, <2>2 DEF StartCycle, EndTick, TypeOK
<1>8. CASE Worker /\ UNCHANGED <<memory, page, wifi, ticking, controllerVars>>
  <2>1. UNCHANGED <<memory, page, wifi, ticking, nextRequestId, outstanding, sinceAttempt,
                    outstandingEntity, nextEntity, cycleInProgress, asked>>
    BY <1>8 DEF controllerVars, haVars
  <2>2. CASE TakeRequest
    BY <2>1, <2>2, TakenType DEF TakeRequest, TypeOK
  <2>3. CASE TakeWithoutMemory
    BY <2>1, <2>3, TakenType DEF TakeWithoutMemory, TypeOK
  <2>4. ASSUME NEW ok \in BOOLEAN, PublishResult(ok) PROVE TypeOK'
    <3>1. running \in Request
      BY <2>4 DEF PublishResult, TypeOK
    <3>2. running.type \in Types /\ ResultOf(ok) \in Result
      BY <3>1 DEF Request, Result, ResultOf
    <3>3. resultQueues' \in [Types -> Seq(Result)] /\ \A t \in Types : Len(resultQueues'[t]) <= ResultDepth
      <4>1. CASE HasRoom(running.type)
        <5>1. resultQueues' = [resultQueues EXCEPT ![running.type] = Append(@, ResultOf(ok))]
          BY <2>4, <4>1 DEF PublishResult
        <5>2. resultQueues[running.type] \in Seq(Result) /\ Len(resultQueues[running.type]) < ResultDepth
          BY <3>2, <4>1 DEF HasRoom, TypeOK
        <5>3. /\ Append(resultQueues[running.type], ResultOf(ok)) \in Seq(Result)
              /\ Len(Append(resultQueues[running.type], ResultOf(ok))) <= ResultDepth
          BY <3>2, <5>2, AppendProperties, LenProperties
        <5> QED BY <3>2, <5>1, <5>3 DEF TypeOK
      <4>2. CASE ~HasRoom(running.type)
        BY <2>4, <4>2 DEF PublishResult, TypeOK
      <4> QED BY <4>1, <4>2
    <3>4. dropped' \subseteq Types
      BY <2>4, <3>2 DEF PublishResult, TypeOK
    <3> QED BY <2>1, <2>4, <3>3, <3>4 DEF PublishResult, TypeOK
  <2> QED BY <1>8, <2>2, <2>3, <2>4 DEF Worker
<1>9. CASE MemoryChanges /\ UNCHANGED <<page, wifi, ticking, controllerVars>>
  BY <1>9 DEF MemoryChanges, workerVars, controllerVars, haVars, TypeOK
<1>10. ASSUME NEW next \in Types \cup {"OTHER"}, ShowPage(next) PROVE TypeOK'
  BY <1>10 DEF ShowPage, workerVars, controllerVars, haVars, TypeOK
<1>11. CASE WifiChanges
  BY <1>11 DEF WifiChanges, workerVars, controllerVars, haVars, TypeOK
<1>12. CASE TimePasses
  <2>1. sinceAttempt' \in [Types -> Nat]
    BY <1>12 DEF TimePasses, TypeOK
  <2> QED BY <1>12, <2>1 DEF TimePasses, workerVars, haVars, TypeOK
<1> QED
  BY <1>1, <1>2, <1>3, <1>4, <1>6, <1>7, <1>8, <1>9, <1>10, <1>11, <1>12 DEF Next, TickPage

\* Every variable has its type, whatever the sizes (AppDataWorker, both controllers).
THEOREM TypesHold == Spec => []TypeOK
  BY InitType, NextType, PTL DEF Spec

-----------------------------------------------------------------------------
(* Queues *)

\* The places in a queue where requests of a page are.
At(queue, type) == {k \in DOMAIN queue : queue[k].type = type}

\* An appended request is at the end, and the others stay where they are.
LEMMA AppendAt ==
  ASSUME NEW queue \in Seq(Request), NEW request \in Request, NEW type
  PROVE  /\ \A k \in DOMAIN queue : k \in DOMAIN Append(queue, request)
                                    /\ Append(queue, request)[k] = queue[k]
         /\ request.type # type => At(Append(queue, request), type) = At(queue, type)
         /\ request.type = type => At(Append(queue, request), type) = At(queue, type) \cup {Len(queue) + 1}
         /\ Len(queue) + 1 \in DOMAIN Append(queue, request)
         /\ Append(queue, request)[Len(queue) + 1] = request
<1> DEFINE longer == Append(queue, request)
<1>1. Len(queue) \in Nat /\ Len(longer) = Len(queue) + 1
  BY LenProperties, AppendProperties
<1>2. DOMAIN queue = 1..Len(queue) /\ DOMAIN longer = 1..(Len(queue) + 1)
  BY <1>1, LenProperties, AppendProperties
<1>3. /\ \A k \in 1..Len(queue) : longer[k] = queue[k]
      /\ longer[Len(queue) + 1] = request
  BY AppendProperties
<1> HIDE DEF longer
<1>4. \A k \in DOMAIN queue : k \in DOMAIN longer /\ longer[k] = queue[k]
  BY <1>1, <1>2, <1>3
<1>5. Len(queue) + 1 \in DOMAIN longer /\ Len(queue) + 1 \notin DOMAIN queue
  BY <1>1, <1>2
<1>6. DOMAIN longer = DOMAIN queue \cup {Len(queue) + 1}
  BY <1>1, <1>2
<1>7. request.type # type => At(longer, type) = At(queue, type)
  BY <1>3, <1>4, <1>5, <1>6 DEF At
<1>8. request.type = type => At(longer, type) = At(queue, type) \cup {Len(queue) + 1}
  BY <1>3, <1>4, <1>5, <1>6 DEF At
<1> QED BY <1>3, <1>4, <1>5, <1>7, <1>8 DEF longer

\* Without its head a queue is the same, one place further on.
LEMMA TailAt ==
  ASSUME NEW queue \in Seq(Request), queue # <<>>, NEW type
  PROVE  /\ 1 \in DOMAIN queue /\ Head(queue) = queue[1]
         /\ \A k \in DOMAIN queue : k # 1 => k - 1 \in DOMAIN Tail(queue) /\ Tail(queue)[k - 1] = queue[k]
         /\ \A j \in DOMAIN Tail(queue) : j + 1 \in DOMAIN queue /\ Tail(queue)[j] = queue[j + 1]
         /\ \A k \in DOMAIN queue : k \in Nat
         /\ \A j \in DOMAIN Tail(queue) : j \in Nat \ {0}
<1>1. /\ Len(queue) \in Nat \ {0} /\ DOMAIN queue = 1..Len(queue)
      /\ Tail(queue) \in Seq(Request) /\ Len(Tail(queue)) = Len(queue) - 1
      /\ Head(queue) = queue[1]
  BY HeadTailProperties, LenProperties, EmptySeq
<1>2. DOMAIN Tail(queue) = 1..Len(queue) - 1
  BY <1>1, LenProperties
<1>3. \A j \in 1..Len(queue) - 1 : Tail(queue)[j] = queue[j + 1]
  BY <1>1, HeadTailProperties
<1> QED BY <1>1, <1>2, <1>3

LEMMA TailNone ==
  ASSUME NEW queue \in Seq(Request), queue # <<>>, NEW type, At(queue, type) = {}
  PROVE  At(Tail(queue), type) = {} /\ Head(queue).type # type
  BY TailAt DEF At

LEMMA TailOwn ==
  ASSUME NEW queue \in Seq(Request), queue # <<>>, NEW type, NEW k, At(queue, type) = {k},
         Head(queue).type = type
  PROVE  k = 1 /\ At(Tail(queue), type) = {}
<1>1. 1 \in At(queue, type)
  BY TailAt DEF At
<1>2. k = 1
  BY <1>1
<1>3. ASSUME NEW j \in At(Tail(queue), type) PROVE FALSE
  <2>1. j + 1 \in At(queue, type) /\ j \in Nat \ {0}
    BY <1>3, TailAt DEF At
  <2> QED BY <1>2, <2>1
<1> QED BY <1>2, <1>3

LEMMA TailOther ==
  ASSUME NEW queue \in Seq(Request), queue # <<>>, NEW type, NEW k, At(queue, type) = {k},
         Head(queue).type # type
  PROVE  /\ k \in DOMAIN queue /\ k - 1 \in DOMAIN Tail(queue) /\ Tail(queue)[k - 1] = queue[k]
         /\ At(Tail(queue), type) = {k - 1}
<1>1. k \in DOMAIN queue /\ queue[k].type = type /\ k # 1
  BY TailAt DEF At
<1>2. k \in Nat /\ k - 1 \in DOMAIN Tail(queue) /\ Tail(queue)[k - 1] = queue[k]
  BY <1>1, TailAt
<1>3. ASSUME NEW j \in At(Tail(queue), type) PROVE j = k - 1
  <2>1. j + 1 \in At(queue, type) /\ j \in Nat \ {0}
    BY <1>3, TailAt DEF At
  <2> QED BY <1>2, <2>1
<1> QED BY <1>1, <1>2, <1>3 DEF At

-----------------------------------------------------------------------------
(* Where the one request of a page is *)

\* The entity a page waits for.
EntityOf(type) == IF type = "HOME_ASSISTANT" THEN outstandingEntity ELSE 0

InTask(type)    == running # Idle /\ running.type = type
Expected(type, x) == x.id = outstanding[type] /\ x.entity = EntityOf(type)

Nothing(type) == At(requestQueue, type) = {} /\ ~InTask(type) /\ resultQueues[type] = <<>>
Queued(type) ==
  /\ \E k \in DOMAIN requestQueue : At(requestQueue, type) = {k} /\ Expected(type, requestQueue[k])
  /\ ~InTask(type) /\ resultQueues[type] = <<>>
Fetched(type) ==
  /\ InTask(type) /\ Expected(type, running)
  /\ At(requestQueue, type) = {} /\ resultQueues[type] = <<>>
Done(type) ==
  /\ Len(resultQueues[type]) = 1 /\ Expected(type, resultQueues[type][1])
  /\ At(requestQueue, type) = {} /\ ~InTask(type)

\* A page that waits has its request queued, fetched or done, unless it was lost, and
\* then it waits for ever; a page that does not wait has nothing on its way.
WayOf(type) ==
  IF outstanding[type] = NoId THEN Nothing(type) /\ type \notin lost
  ELSE IF type \in lost THEN Nothing(type)
  ELSE Queued(type) \/ Fetched(type) \/ Done(type)

WayInv == dropped = {} /\ \A type \in Types : WayOf(type)

\* Steps that touch nothing of a page.
LEMMA WayKept ==
  ASSUME NEW type \in Types, WayOf(type), UNCHANGED <<requestQueue, running>>,
         resultQueues'[type] = resultQueues[type], outstanding'[type] = outstanding[type],
         (type \in lost') <=> (type \in lost), type = "HOME_ASSISTANT" => UNCHANGED outstandingEntity
  PROVE  WayOf(type)'
  BY DEF WayOf, Nothing, Queued, Fetched, Done, At, InTask, Expected, EntityOf

\* A request of the page itself, which had none, or of the other one is queued.
LEMMA WayEnqueued ==
  ASSUME NEW type \in Types, TypeOK, WayOf(type), NEW request \in Request, Enqueue(request),
         request.id # NoId,
         IF request.type = type
         THEN /\ outstanding[type] = NoId /\ outstanding'[type] = request.id
              /\ request.entity = IF type = "HOME_ASSISTANT" THEN outstandingEntity' ELSE 0
         ELSE /\ outstanding'[type] = outstanding[type]
              /\ type = "HOME_ASSISTANT" => UNCHANGED outstandingEntity
  PROVE  WayOf(type)'
<1>1. /\ requestQueue' = Append(requestQueue, request) /\ requestQueue \in Seq(Request)
      /\ UNCHANGED <<resultQueues, running, lost, dropped>>
  BY DEF Enqueue, TypeOK
<1>2. /\ \A k \in DOMAIN requestQueue : k \in DOMAIN requestQueue' /\ requestQueue'[k] = requestQueue[k]
      /\ request.type # type => At(requestQueue', type) = At(requestQueue, type)
      /\ request.type = type => At(requestQueue', type) = At(requestQueue, type) \cup {Len(requestQueue) + 1}
      /\ Len(requestQueue) + 1 \in DOMAIN requestQueue'
      /\ requestQueue'[Len(requestQueue) + 1] = request
  <2> DEFINE longer == Append(requestQueue, request)
  <2>1. \A k \in DOMAIN requestQueue : k \in DOMAIN longer /\ longer[k] = requestQueue[k]
    BY <1>1, AppendAt
  <2>2. request.type # type => At(longer, type) = At(requestQueue, type)
    BY <1>1, AppendAt
  <2>3. request.type = type => At(longer, type) = At(requestQueue, type) \cup {Len(requestQueue) + 1}
    BY <1>1, AppendAt
  <2>4. Len(requestQueue) + 1 \in DOMAIN longer /\ longer[Len(requestQueue) + 1] = request
    BY <1>1, AppendAt
  <2> HIDE DEF longer
  <2>5. requestQueue' = longer
    BY <1>1 DEF longer
  <2> QED BY <2>1, <2>2, <2>3, <2>4, <2>5
<1>3. CASE request.type = type
  <2>1. Nothing(type) /\ type \notin lost
    BY <1>3 DEF WayOf
  <2>2. Queued(type)'
    BY <1>1, <1>2, <1>3, <2>1 DEF Nothing, Queued, InTask, Expected, EntityOf
  <2> QED BY <1>1, <1>3, <2>1, <2>2 DEF WayOf
<1>4. CASE request.type # type
  <2>1. At(requestQueue', type) = At(requestQueue, type) /\ (InTask(type)' <=> InTask(type))
        /\ outstanding'[type] = outstanding[type] /\ EntityOf(type)' = EntityOf(type)
    BY <1>1, <1>2, <1>4 DEF InTask, EntityOf
  <2>2. Queued(type) => Queued(type)'
    BY <1>1, <1>2, <2>1 DEF Queued, Expected
  <2>3. Nothing(type) => Nothing(type)'
    BY <1>1, <2>1 DEF Nothing
  <2>4. Fetched(type) => Fetched(type)'
    BY <1>1, <2>1 DEF Fetched, Expected
  <2>5. Done(type) => Done(type)'
    BY <1>1, <2>1 DEF Done, Expected
  <2> QED BY <1>1, <2>1, <2>2, <2>3, <2>4, <2>5 DEF WayOf
<1> QED BY <1>3, <1>4

\* The task takes the first request, or loses it for want of memory.
LEMMA WayTaken ==
  ASSUME NEW type \in Types, TypeOK, WayOf(type), running = Idle, requestQueue # <<>>,
         requestQueue' = Tail(requestQueue), UNCHANGED <<resultQueues, outstanding, outstandingEntity>>,
         \/ running' = Head(requestQueue) /\ UNCHANGED lost
         \/ UNCHANGED running /\ lost' = lost \cup {Head(requestQueue).type}
  PROVE  WayOf(type)'
<1>1. requestQueue \in Seq(Request) /\ Head(requestQueue) \in Request
  BY TakenType DEF TypeOK
<1>2. ~InTask(type)
  BY DEF InTask
<1>3. CASE Head(requestQueue).type = type
  <2>1. PICK k \in DOMAIN requestQueue : At(requestQueue, type) = {k} /\ Expected(type, requestQueue[k])
    <3>1. At(requestQueue, type) # {}
      BY <1>1, <1>3, TailNone
    <3> QED BY <3>1, <1>2 DEF WayOf, Nothing, Queued, Fetched, Done
  <2>2. At(requestQueue', type) = {} /\ k = 1 /\ Head(requestQueue) = requestQueue[1]
    BY <1>1, <1>3, <2>1, TailOwn, TailAt
  <2>3. Queued(type) /\ outstanding[type] # NoId /\ type \notin lost
    BY <2>1, <1>2 DEF WayOf, Nothing, Fetched, Done
  <2>4. CASE running' = Head(requestQueue) /\ UNCHANGED lost
    <3>1. InTask(type)'
      BY <1>1, <1>3, <2>4, IdleIsNoRequest DEF InTask
    <3>2. Fetched(type)'
      BY <2>1, <2>2, <2>3, <2>4, <3>1 DEF Fetched, Queued, Expected, EntityOf
    <3> QED BY <2>3, <2>4, <3>2 DEF WayOf
  <2>5. CASE UNCHANGED running /\ lost' = lost \cup {Head(requestQueue).type}
    BY <1>2, <1>3, <2>2, <2>3, <2>5 DEF WayOf, Nothing, Queued, InTask
  <2> QED BY <2>4, <2>5
<1>4. CASE Head(requestQueue).type # type
  <2>1. ~InTask(type)' /\ ((type \in lost') <=> (type \in lost))
    BY <1>2, <1>4 DEF InTask
  <2>2. Nothing(type) => Nothing(type)'
    BY <1>1, <2>1, TailNone DEF Nothing
  <2>3. ASSUME Queued(type) PROVE Queued(type)'
    <3>1. PICK k \in DOMAIN requestQueue : At(requestQueue, type) = {k} /\ Expected(type, requestQueue[k])
      BY <2>3 DEF Queued
    <3>2. /\ k - 1 \in DOMAIN requestQueue' /\ requestQueue'[k - 1] = requestQueue[k]
          /\ At(requestQueue', type) = {k - 1}
      BY <1>1, <1>4, <3>1, TailOther
    <3> QED BY <2>1, <2>3, <3>1, <3>2 DEF Queued, Expected, EntityOf
  <2>4. Done(type) => Done(type)'
    BY <1>1, <2>1, TailNone DEF Done, Expected, EntityOf
  <2> QED BY <1>2, <2>1, <2>2, <2>3, <2>4 DEF WayOf, Fetched
<1> QED BY <1>3, <1>4

\* The task ends a fetch: there is room for its result.
LEMMA WayPublished ==
  ASSUME TypeOK, WayInv, NEW ok \in BOOLEAN, PublishResult(ok),
         UNCHANGED <<outstanding, outstandingEntity>>
  PROVE  WayInv'
<1>0. running # Idle /\ running.type \in Types
  BY DEF PublishResult, TypeOK, Request
<1>1. PICK type \in Types : running # Idle /\ type = running.type
  BY <1>0
<1>2. Fetched(type) /\ type \notin lost /\ outstanding[type] # NoId
  BY <1>1 DEF WayInv, WayOf, Nothing, Queued, Fetched, Done, InTask
<1>3. HasRoom(type)
  BY <1>2, Numbers DEF Fetched, HasRoom
<1>4. /\ resultQueues' = [resultQueues EXCEPT ![type] = Append(@, ResultOf(ok))]
      /\ UNCHANGED <<requestQueue, lost, dropped>> /\ running' = Idle
  BY <1>1, <1>3 DEF PublishResult
<1>5. resultQueues'[type] = Append(<<>>, ResultOf(ok))
  BY <1>1, <1>2, <1>4 DEF Fetched, TypeOK
<1>6. Len(resultQueues'[type]) = 1 /\ resultQueues'[type][1] = ResultOf(ok)
  BY <1>5
<1>7. WayOf(type)'
  <2>1. Expected(type, ResultOf(ok))
    BY <1>1, <1>2 DEF Fetched, Expected, ResultOf
  <2>2. Done(type)'
    <3>1. At(requestQueue', type) = {} /\ running' = Idle
      BY <1>2, <1>4 DEF Fetched
    <3>2. outstanding'[type] = ResultOf(ok).id /\ ResultOf(ok).entity = EntityOf(type)'
      BY <2>1 DEF Expected, EntityOf
    <3> QED BY <1>6, <3>1, <3>2 DEF Done, Expected, InTask, EntityOf
  <2> QED BY <1>2, <1>4, <2>2 DEF WayOf
<1>8. ASSUME NEW other \in Types, other # type PROVE WayOf(other)'
  <2>1. ~InTask(other) /\ ~InTask(other)' /\ resultQueues'[other] = resultQueues[other]
    BY <1>1, <1>4, <1>8 DEF InTask, TypeOK
  <2>2. WayOf(other)
    BY DEF WayInv
  <2> QED BY <1>4, <2>1, <2>2 DEF WayOf, Nothing, Queued, Fetched, Done, At, Expected, EntityOf
<1> QED
  <2>1. \A other \in Types : WayOf(other)'
    BY <1>7, <1>8
  <2> QED BY <1>4, <2>1 DEF WayInv

\* What a page finds in its queue is what it waits for.
LEMMA FoundIsExpected ==
  ASSUME TypeOK, WayInv, NEW type \in Types, CanReceive(type)
  PROVE  Done(type) /\ type \notin lost /\ outstanding[type] # NoId /\ Accepted(type, Received(type))
<1>1. Done(type) /\ type \notin lost /\ outstanding[type] # NoId
  BY DEF WayInv, WayOf, Nothing, Queued, Fetched, CanReceive
<1>2. Received(type) = resultQueues[type][1]
  BY HeadTailProperties DEF CanReceive, Received, TypeOK
<1> QED BY <1>1, <1>2 DEF Done, Expected, EntityOf, Accepted

LEMMA WayConsumed ==
  ASSUME TypeOK, WayInv, NEW type \in Types, ConsumeResult(type)
  PROVE  WayInv'
<1>1. CanReceive(type) /\ resultQueues' = [resultQueues EXCEPT ![type] = Tail(@)]
      /\ UNCHANGED <<requestQueue, running, lost, dropped, outstandingEntity>>
  BY DEF ConsumeResult, TryReceive
<1>2. Done(type) /\ type \notin lost /\ Accepted(type, Received(type))
  BY <1>1, FoundIsExpected
<1>3. outstanding' = [outstanding EXCEPT ![type] = NoId]
  BY <1>2 DEF ConsumeResult
<1>4. WayOf(type)'
  <2>1. resultQueues'[type] = Tail(resultQueues[type]) /\ outstanding'[type] = NoId
    BY <1>1, <1>3 DEF TypeOK
  <2>2. resultQueues[type] \in Seq(Result) /\ Len(resultQueues[type]) = 1 /\ resultQueues[type] # <<>>
    BY <1>1, <1>2 DEF TypeOK, Done, CanReceive
  <2>3. Tail(resultQueues[type]) \in Seq(Result) /\ Len(Tail(resultQueues[type])) = 0
    BY <2>2, HeadTailProperties
  <2>4. Tail(resultQueues[type]) = <<>>
    BY <2>3, EmptySeq
  <2> QED BY <1>1, <1>2, <2>1, <2>4 DEF WayOf, Nothing, Done, InTask
<1>5. ASSUME NEW other \in Types, other # type PROVE WayOf(other)'
  <2>1. WayOf(other) /\ resultQueues'[other] = resultQueues[other] /\ outstanding'[other] = outstanding[other]
    BY <1>1, <1>3, <1>5 DEF WayInv, TypeOK
  <2> QED BY <1>1, <2>1, WayKept
<1>6. \A other \in Types : WayOf(other)'
  BY <1>4, <1>5
<1> QED BY <1>1, <1>6 DEF WayInv

\* enqueueEntity() of a page that waits for nothing.
LEMMA WayEntity ==
  ASSUME TypeOK, WayInv, NEW entity \in Entities, EnqueueEntity(entity), Free("HOME_ASSISTANT")
  PROVE  WayInv'
<1> DEFINE request == [type |-> "HOME_ASSISTANT", id |-> nextRequestId["HOME_ASSISTANT"], entity |-> entity]
<1>1. request \in Request /\ request.id # NoId
  BY IdIsSome DEF Request, Types, TypeOK
<1>2. CASE cycleInProgress'
  <2>1. /\ Enqueue(request) /\ outstandingEntity' = entity
        /\ outstanding' = [outstanding EXCEPT !["HOME_ASSISTANT"] = request.id]
    BY <1>2 DEF EnqueueEntity
  <2>2. /\ outstanding["HOME_ASSISTANT"] = NoId /\ outstanding'["HOME_ASSISTANT"] = request.id
        /\ outstanding'["WEATHER"] = outstanding["WEATHER"]
        /\ request.type = "HOME_ASSISTANT" /\ request.entity = outstandingEntity'
    BY <2>1 DEF Free, TypeOK, Types
  <2> HIDE DEF request
  <2>3. ASSUME NEW type \in Types PROVE WayOf(type)'
    <3>1. WayOf(type)
      BY DEF WayInv
    <3>2. CASE type = "HOME_ASSISTANT"
      BY <1>1, <2>1, <2>2, <3>1, <3>2, WayEnqueued
    <3>3. CASE type = "WEATHER"
      BY <1>1, <2>1, <2>2, <3>1, <3>3, WayEnqueued
    <3> QED BY <3>2, <3>3 DEF Types
  <2> QED BY <2>1, <2>3 DEF WayInv, Enqueue
<1>3. CASE ~cycleInProgress'
  BY <1>3, WayKept DEF EnqueueEntity, workerVars, WayInv
<1> QED BY <1>2, <1>3 DEF EnqueueEntity

LEMMA InitWay == Init => WayInv
<1> SUFFICES ASSUME Init PROVE WayInv
  OBVIOUS
<1>1. /\ requestQueue = <<>> /\ running = Idle /\ lost = {} /\ dropped = {}
      /\ resultQueues = [type \in Types |-> <<>>] /\ outstanding = [type \in Types |-> NoId]
  BY DEF Init, WorkerInit
<1>2. DOMAIN requestQueue = {}
  BY <1>1
<1> QED BY <1>1, <1>2 DEF WayInv, WayOf, Nothing, At, InTask

LEMMA NextWay == TypeOK /\ WayInv /\ [Next]_vars => WayInv'
<1> SUFFICES ASSUME TypeOK, WayInv, [Next]_vars PROVE WayInv'
  OBVIOUS
<1>1. ASSUME UNCHANGED <<workerVars, outstanding, outstandingEntity>> PROVE WayInv'
  BY <1>1, WayKept DEF workerVars, WayInv
<1>2. ASSUME NEW type \in Types, NothingToAsk(type) PROVE WayInv'
  BY <1>1, <1>2 DEF NothingToAsk, controllerVars, haVars
<1>3. CASE AskWeather
  <2> DEFINE request == [type |-> "WEATHER", id |-> nextRequestId["WEATHER"], entity |-> 0]
  <2>1. request \in Request /\ request.id # NoId
    BY Numbers, IdIsSome DEF Request, Types, Entities, TypeOK
  <2>2. CASE CanEnqueue
    <3>1. /\ Enqueue(request) /\ outstanding["WEATHER"] = NoId /\ UNCHANGED outstandingEntity
          /\ outstanding' = [outstanding EXCEPT !["WEATHER"] = request.id]
      BY <1>3, <2>2 DEF AskWeather, Free, haVars
    <3>2. /\ outstanding'["WEATHER"] = request.id
          /\ outstanding'["HOME_ASSISTANT"] = outstanding["HOME_ASSISTANT"]
          /\ request.type = "WEATHER" /\ request.entity = 0
      BY <3>1 DEF TypeOK, Types
    <3> HIDE DEF request
    <3>3. ASSUME NEW type \in Types PROVE WayOf(type)'
      <4>1. WayOf(type)
        BY DEF WayInv
      <4>2. CASE type = "WEATHER"
        BY <2>1, <3>1, <3>2, <4>1, <4>2, WayEnqueued
      <4>3. CASE type = "HOME_ASSISTANT"
        BY <2>1, <3>1, <3>2, <4>1, <4>3, WayEnqueued
      <4> QED BY <4>2, <4>3 DEF Types
    <3> QED BY <3>1, <3>3 DEF WayInv, Enqueue
  <2>3. CASE ~CanEnqueue
    BY <1>1, <1>3, <2>3 DEF AskWeather, haVars
  <2> QED BY <2>2, <2>3
<1>4. CASE ContinueCycle
  <2>1. nextEntity \in Entities /\ Free("HOME_ASSISTANT") /\ EnqueueEntity(nextEntity)
    BY <1>4 DEF ContinueCycle, Free, TypeOK
  <2> QED BY <2>1, WayEntity
<1>5. CASE StartCycle
  <2>1. 0 \in Entities /\ Free("HOME_ASSISTANT") /\ EnqueueEntity(0)
    BY <1>5, Numbers DEF StartCycle, Entities
  <2> QED BY <2>1, WayEntity
<1>6. CASE Worker /\ UNCHANGED <<memory, page, wifi, ticking, controllerVars>>
  <2>1. UNCHANGED <<outstanding, outstandingEntity>>
    BY <1>6 DEF controllerVars, haVars
  <2>2. CASE TakeRequest \/ TakeWithoutMemory
    <3>1. /\ running = Idle /\ requestQueue # <<>> /\ requestQueue' = Tail(requestQueue)
          /\ UNCHANGED <<resultQueues, dropped>>
          /\ \/ running' = Head(requestQueue) /\ UNCHANGED lost
             \/ UNCHANGED running /\ lost' = lost \cup {Head(requestQueue).type}
      BY <2>2 DEF TakeRequest, TakeWithoutMemory
    <3>2. ASSUME NEW type \in Types PROVE WayOf(type)'
      BY <2>1, <3>1, WayTaken DEF WayInv
    <3> QED BY <3>1, <3>2 DEF WayInv
  <2> QED BY <1>6, <2>1, <2>2, WayPublished DEF Worker
<1>7. CASE MemoryChanges /\ UNCHANGED <<page, wifi, ticking, controllerVars>>
  BY <1>1, <1>7 DEF MemoryChanges, controllerVars, haVars
<1>8. ASSUME NEW next \in Types \cup {"OTHER"}, ShowPage(next) PROVE WayInv'
  BY <1>1, <1>8 DEF ShowPage, controllerVars, haVars
<1>9. CASE WifiChanges
  BY <1>1, <1>9 DEF WifiChanges, controllerVars, haVars
<1>10. CASE TimePasses
  BY <1>1, <1>10 DEF TimePasses, haVars
<1>11. CASE UNCHANGED vars
  BY <1>1, <1>11 DEF vars, controllerVars, haVars
<1> QED
  BY <1>2, <1>3, <1>4, <1>5, <1>6, <1>7, <1>8, <1>9, <1>10, <1>11, WayConsumed DEF Next, TickPage

LEMMA WayInvariant == Spec => [](TypeOK /\ WayInv)
  BY InitType, NextType, InitWay, NextWay, PTL DEF Spec

\* OnItsWay() lists the places the cases of WayOf() speak of.
LEMMA PlacesOfWay ==
  ASSUME TypeOK, NEW type \in Types, WayOf(type)
  PROVE  IF outstanding[type] = NoId \/ type \in lost
         THEN OnItsWay(type) = {}
         ELSE \E place \in OnItsWay(type) : OnItsWay(type) = {place} /\ place[2] = outstanding[type]
<1> DEFINE requests == {<<"request", requestQueue[k].id, k>> : k \in Waiting(type)}
           tasks    == IF running # Idle /\ running.type = type
                       THEN {<<"running", running.id, 0>>} ELSE {}
           results  == {<<"result", resultQueues[type][k].id, k>> : k \in DOMAIN resultQueues[type]}
<1>1. OnItsWay(type) = requests \cup tasks \cup results
  BY DEF OnItsWay
<1>2. Waiting(type) = At(requestQueue, type)
  BY DEF Waiting, At
<1>3. At(requestQueue, type) = {} => requests = {}
  BY <1>2
<1>4. ~InTask(type) => tasks = {}
  BY DEF InTask
<1>5. resultQueues[type] = <<>> => results = {}
  OBVIOUS
<1>6. CASE Nothing(type)
  <2>1. outstanding[type] = NoId \/ type \in lost
    BY <1>6 DEF WayOf, Nothing, Queued, Fetched, Done
  <2> HIDE DEF requests, tasks, results
  <2> QED BY <1>1, <1>3, <1>4, <1>5, <1>6, <2>1 DEF Nothing
<1>7. CASE ~Nothing(type)
  <2>1. outstanding[type] # NoId /\ type \notin lost /\ (Queued(type) \/ Fetched(type) \/ Done(type))
    BY <1>7 DEF WayOf
  <2>2. CASE Queued(type)
    <3>1. PICK k \in DOMAIN requestQueue : At(requestQueue, type) = {k} /\ Expected(type, requestQueue[k])
      BY <2>2 DEF Queued
    <3>2. requests = {<<"request", outstanding[type], k>>}
      BY <1>2, <3>1 DEF Expected
    <3>3. tasks = {} /\ results = {}
      BY <1>4, <1>5, <2>2 DEF Queued
    <3> HIDE DEF requests, tasks, results
    <3>4. OnItsWay(type) = {<<"request", outstanding[type], k>>}
      BY <1>1, <3>2, <3>3
    <3> QED BY <2>1, <3>4
  <2>3. CASE Fetched(type)
    <3>1. tasks = {<<"running", outstanding[type], 0>>}
      BY <2>3 DEF Fetched, InTask, Expected
    <3>2. requests = {} /\ results = {}
      BY <1>3, <1>5, <2>3 DEF Fetched
    <3> HIDE DEF requests, tasks, results
    <3>3. OnItsWay(type) = {<<"running", outstanding[type], 0>>}
      BY <1>1, <3>1, <3>2
    <3> QED BY <2>1, <3>3
  <2>4. CASE Done(type)
    <3>1. DOMAIN resultQueues[type] = {1}
      <4>1. resultQueues[type] \in Seq(Result) /\ Len(resultQueues[type]) = 1
        BY <2>4 DEF Done, TypeOK
      <4>2. DOMAIN resultQueues[type] = 1..1
        BY <4>1, LenProperties
      <4> QED BY <4>2
    <3>2. results = {<<"result", outstanding[type], 1>>}
      BY <2>4, <3>1 DEF Done, Expected
    <3>3. requests = {} /\ tasks = {}
      BY <1>3, <1>4, <2>4 DEF Done
    <3> HIDE DEF requests, tasks, results
    <3>4. OnItsWay(type) = {<<"result", outstanding[type], 1>>}
      BY <1>1, <3>2, <3>3
    <3> QED BY <2>1, <3>4
  <2> QED BY <2>1, <2>2, <2>3, <2>4
<1> QED BY <1>6, <1>7

\* A page has exactly one request on its way while it waits and none while it does not,
\* for any queues and however ids are reused (tick() and consumeResults()).
THEOREM OneIsOnItsWay == Spec => []OneOnItsWay
<1>1. TypeOK /\ WayInv => OneOnItsWay
  BY PlacesOfWay DEF WayInv, OneOnItsWay
<1> QED BY <1>1, WayInvariant, PTL

-----------------------------------------------------------------------------
(* Room in the queues *)

\* When a page waits for nothing, the queue holds at most the request of the other.
LEMMA RoomForAll ==
  ASSUME RequestDepth >= 2, TypeOK, WayInv, NEW type \in Types, outstanding[type] = NoId
  PROVE  Len(requestQueue) < RequestDepth
<1> DEFINE other == IF type = "WEATHER" THEN "HOME_ASSISTANT" ELSE "WEATHER"
<1>1. Types = {type, other} /\ other \in Types
  BY DEF Types
<1>2. At(requestQueue, type) = {}
  BY DEF WayInv, WayOf, Nothing
<1>3. \A j, k \in At(requestQueue, other) : j = k
  BY <1>1 DEF WayInv, WayOf, Nothing, Queued, Fetched, Done
<1>4. Len(requestQueue) \in Nat /\ DOMAIN requestQueue = 1..Len(requestQueue)
      /\ \A k \in DOMAIN requestQueue : requestQueue[k].type \in Types
  <2>1. requestQueue \in Seq(Request)
    BY DEF TypeOK
  <2>2. Len(requestQueue) \in Nat /\ DOMAIN requestQueue = 1..Len(requestQueue)
    BY <2>1, LenProperties
  <2>3. \A k \in 1..Len(requestQueue) : requestQueue[k] \in Request
    BY <2>1, ElementOfSeq
  <2> QED BY <2>2, <2>3 DEF Request
<1> HIDE DEF other
<1>5. \A k \in DOMAIN requestQueue : k \in At(requestQueue, other)
  BY <1>1, <1>2, <1>4 DEF At
<1>6. ASSUME Len(requestQueue) >= 2 PROVE FALSE
  <2>1. 1 \in DOMAIN requestQueue /\ 2 \in DOMAIN requestQueue
    BY <1>4, <1>6
  <2>2. 1 = 2
    BY <1>3, <1>5, <2>1
  <2> QED BY <2>2
<1> QED BY <1>4, <1>6, Numbers

\* With a place for the request of each page, no request is refused for want of room, and
\* a single place for results is enough (enqueue(), publishResult()).
THEOREM NothingIsDropped ==
  ASSUME RequestDepth >= 2
  PROVE  Spec => []NothingDropped
<1>1. TypeOK /\ WayInv => NothingDropped
  BY RoomForAll DEF WayInv, NothingDropped
<1> QED BY <1>1, WayInvariant, PTL

-----------------------------------------------------------------------------
(* The cycle of the Home Assistant page *)

\* A cycle has asked for the entities up to the one it waits for, or goes on with.
CycleInv ==
  cycleInProgress =>
    asked = IF outstanding["HOME_ASSISTANT"] = NoId THEN 0..nextEntity - 1 ELSE 0..outstandingEntity

LEMMA EntityAsked ==
  ASSUME TypeOK, NEW entity \in Entities, EnqueueEntity(entity),
         asked' = 0..entity
  PROVE  CycleInv'
<1>1. cycleInProgress' =>
        outstandingEntity' = entity /\ outstanding'["HOME_ASSISTANT"] = nextRequestId["HOME_ASSISTANT"]
  BY DEF EnqueueEntity, TypeOK, Types
<1>2. nextRequestId["HOME_ASSISTANT"] # NoId
  BY IdIsSome DEF TypeOK, Types
<1> QED BY <1>1, <1>2 DEF CycleInv

LEMMA NextCycle == TypeOK /\ CycleInv /\ [Next]_vars => CycleInv'
<1> SUFFICES ASSUME TypeOK, CycleInv, [Next]_vars PROVE CycleInv'
  OBVIOUS
<1>1. ASSUME UNCHANGED <<outstanding, haVars>> PROVE CycleInv'
  BY <1>1 DEF haVars, CycleInv
<1>2. ASSUME NEW type \in Types, ConsumeResult(type) PROVE CycleInv'
  <2>1. UNCHANGED <<outstandingEntity, asked>>
    BY <1>2 DEF ConsumeResult
  <2>2. CASE ~Accepted(type, Received(type))
    BY <1>1, <1>2, <2>1, <2>2 DEF ConsumeResult, haVars
  <2>3. CASE Accepted(type, Received(type)) /\ type = "WEATHER"
    <3>1. UNCHANGED <<nextEntity, cycleInProgress>> /\ outstanding' = [outstanding EXCEPT !["WEATHER"] = NoId]
      BY <1>2, <2>3 DEF ConsumeResult
    <3>2. outstanding'["HOME_ASSISTANT"] = outstanding["HOME_ASSISTANT"]
      BY <3>1 DEF TypeOK, Types
    <3> QED BY <2>1, <3>1, <3>2 DEF CycleInv
  <2>4. CASE Accepted(type, Received(type)) /\ type = "HOME_ASSISTANT"
    <3>1. /\ nextEntity' = Received(type).entity + 1
          /\ outstanding' = [outstanding EXCEPT ![type] = NoId]
          /\ cycleInProgress' => cycleInProgress
      BY <1>2, <2>4 DEF ConsumeResult
    <3>2. /\ Received(type).entity = outstandingEntity /\ Received(type).id = outstanding[type]
          /\ outstandingEntity \in Nat
      BY <2>4, Numbers DEF Accepted, TypeOK, Entities
    <3>3. Received(type).id # NoId
      <4>1. Received(type) \in Result
        <5>1. resultQueues[type] \in Seq(Result) /\ resultQueues[type] # <<>>
          BY <1>2 DEF ConsumeResult, TryReceive, CanReceive, TypeOK
        <5> QED BY <5>1, HeadTailProperties DEF Received
      <4> QED BY <4>1, IdIsSome DEF Result
    <3>4. cycleInProgress' => asked = 0..outstandingEntity
      BY <3>1, <3>2, <3>3, <2>4 DEF CycleInv
    <3>5. outstanding'["HOME_ASSISTANT"] = NoId
      BY <2>4, <3>1 DEF TypeOK
    <3>6. nextEntity' - 1 = outstandingEntity
      BY <3>1, <3>2
    <3> QED BY <2>1, <3>4, <3>5, <3>6 DEF CycleInv
  <2> QED BY <2>2, <2>3, <2>4 DEF Types
<1>3. ASSUME NEW type \in Types, NothingToAsk(type) PROVE CycleInv'
  BY <1>1, <1>3 DEF NothingToAsk, controllerVars
<1>4. CASE AskWeather
  <2>1. outstanding'["HOME_ASSISTANT"] = outstanding["HOME_ASSISTANT"] /\ UNCHANGED haVars
    BY <1>4 DEF AskWeather, TypeOK, Types
  <2> QED BY <2>1 DEF haVars, CycleInv
<1>5. CASE ContinueCycle
  <2>1. /\ nextEntity \in Entities /\ EnqueueEntity(nextEntity)
        /\ asked = 0..nextEntity - 1 /\ asked' = asked \cup {nextEntity}
    BY <1>5 DEF ContinueCycle, Free, TypeOK, CycleInv
  <2>2. asked' = 0..nextEntity
    BY <2>1, Numbers DEF Entities
  <2> QED BY <2>1, <2>2, EntityAsked
<1>6. CASE StartCycle
  <2>1. 0 \in Entities /\ EnqueueEntity(0) /\ asked' = 0..0
    BY <1>6, Numbers DEF StartCycle, Entities
  <2> QED BY <2>1, EntityAsked
<1>7. CASE Worker /\ UNCHANGED <<memory, page, wifi, ticking, controllerVars>>
  BY <1>1, <1>7 DEF controllerVars
<1>8. CASE MemoryChanges /\ UNCHANGED <<page, wifi, ticking, controllerVars>>
  BY <1>1, <1>8 DEF controllerVars
<1>9. ASSUME NEW next \in Types \cup {"OTHER"}, ShowPage(next) PROVE CycleInv'
  BY <1>1, <1>9 DEF ShowPage, controllerVars
<1>10. CASE WifiChanges
  BY <1>1, <1>10 DEF WifiChanges, controllerVars
<1>11. CASE TimePasses
  BY <1>1, <1>11 DEF TimePasses
<1>12. CASE UNCHANGED vars
  BY <1>1, <1>12 DEF vars, controllerVars
<1> QED
  BY <1>2, <1>3, <1>4, <1>5, <1>6, <1>7, <1>8, <1>9, <1>10, <1>11, <1>12 DEF Next, TickPage

CycleEnd ==
  cycleInProgress /\ ~cycleInProgress' /\ outstanding["HOME_ASSISTANT"] # NoId => asked = Entities

\* A cycle is ended by the answer it waits for, or by a refusal, when it waits for none.
LEMMA CycleEndCovers == TypeOK /\ CycleInv /\ [Next]_vars => [CycleEnd]_vars
<1> SUFFICES ASSUME TypeOK, CycleInv, [Next]_vars, cycleInProgress, ~cycleInProgress',
                    outstanding["HOME_ASSISTANT"] # NoId
             PROVE  asked = Entities
  BY DEF CycleEnd
<1>1. \E type \in Types : ConsumeResult(type)
  BY DEF Next, TickPage, NothingToAsk, AskWeather, ContinueCycle, StartCycle, Free, ShowPage,
         WifiChanges, TimePasses, vars, controllerVars, haVars
<1>2. PICK type \in Types : ConsumeResult(type)
  BY <1>1
<1>3. type = "HOME_ASSISTANT" /\ Accepted(type, Received(type)) /\ CycleEnds(Received(type).entity)
  BY <1>2 DEF ConsumeResult
<1>4. outstandingEntity \in Entities /\ outstandingEntity + 1 >= EntityCount /\ asked = 0..outstandingEntity
  BY <1>3 DEF Accepted, CycleEnds, CycleInv, TypeOK
<1> QED BY <1>4, Numbers DEF Entities

\* A cycle that an answer ends has asked for every entity, for any number of them
\* (HomeAssistantController::consumeResults()).
THEOREM CyclesCoverEntities == Spec => CycleCoversEntities
<1>1. Init => CycleInv
  BY DEF Init, CycleInv
<1> QED
  BY <1>1, InitType, NextType, NextCycle, CycleEndCovers, PTL DEF Spec, CycleCoversEntities, CycleEnd
=============================================================================
