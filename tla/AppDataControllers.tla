------------------------- MODULE AppDataControllers -------------------------
(***************************************************************************)
(* WeatherController and HomeAssistantController (src/app) on the Arduino    *)
(* loop, with the AppDataWorker they share.  Each has at most one request    *)
(* outstanding.  The weather is asked for when its refresh is due; a refresh *)
(* of Home Assistant is a cycle over its entities, one request after the     *)
(* other.  Only the page on screen is ticked, so a result may wait in its    *)
(* queue, and a cycle stands still, until the page is entered again.         *)
(*                                                                         *)
(* A tick takes results until there are none and then asks; the worker may   *)
(* act in between.  Both pages are configured: one that is not never asks.   *)
(* The time since the last attempt is full before the first one.  The view   *)
(* for the screen is left out.                                               *)
(***************************************************************************)
EXTENDS AppDataWorker

CONSTANT RefreshTicks  \* how long a page waits between refreshes

ASSUME RefreshAssumption == RefreshTicks \in [Types -> Nat]

NoId == 0

VARIABLES
  page,             \* the page on screen
  wifi,
  ticking,          \* the loop is inside tick() of the page on screen
  nextRequestId,
  outstanding,      \* outstandingRequestId_
  outstandingEntity, nextEntity, cycleInProgress,
  sinceAttempt,     \* time since lastAttemptMs_
  asked             \* history: the entities asked for in this cycle

haVars         == <<outstandingEntity, nextEntity, cycleInProgress, asked>>
controllerVars == <<nextRequestId, outstanding, sinceAttempt, haVars>>
vars == <<workerVars, memory, page, wifi, ticking, controllerVars>>

-----------------------------------------------------------------------------
(* Fault variants *)

\* A page may have several requests on their way.
FreeAlways(type) == TRUE

\* A failed answer leaves its request outstanding.
AcceptedIfOk(type, result) ==
  /\ result.id = outstanding[type] /\ result.ok
  /\ type = "HOME_ASSISTANT" => result.entity = outstandingEntity

\* The cycle ends one answer early.
CycleEndsEarly(entity) == entity + 1 >= EntityCount - 1

-----------------------------------------------------------------------------
(* consumeResults() *)

Accepted(type, result) ==
  /\ result.id = outstanding[type]
  /\ type = "HOME_ASSISTANT" => result.entity = outstandingEntity

CycleEnds(entity) == entity + 1 >= EntityCount

\* A result is taken; the Home Assistant page goes on to the next entity.  Results
\* that are not waited for are passed over.
ConsumeResult(type) ==
  LET result == Received(type) IN
  /\ page = type
  /\ TryReceive(type)
  /\ IF Accepted(type, result)
     THEN /\ outstanding' = [outstanding EXCEPT ![type] = NoId]
          /\ IF type = "HOME_ASSISTANT"
             THEN /\ nextEntity' = result.entity + 1
                  /\ cycleInProgress' = (cycleInProgress /\ ~CycleEnds(result.entity))
             ELSE UNCHANGED <<nextEntity, cycleInProgress>>
     ELSE UNCHANGED <<outstanding, nextEntity, cycleInProgress>>
  /\ ticking' = TRUE
  /\ UNCHANGED <<memory, page, wifi, nextRequestId, outstandingEntity, sinceAttempt, asked>>

-----------------------------------------------------------------------------
(* The rest of tick() *)

NextId(id)  == (id % IdCount) + 1
Free(type)  == outstanding[type] = NoId
Due(type)   == sinceAttempt[type] >= RefreshTicks[type]

\* What a request takes, granted or refused: its id.
TakeId(type) == nextRequestId' = [nextRequestId EXCEPT ![type] = NextId(@)]

EndTick(type) == page = type /\ ~CanReceive(type) /\ ticking' = FALSE /\ UNCHANGED <<memory, page, wifi>>

AskWeather ==
  /\ EndTick("WEATHER")
  /\ wifi /\ Free("WEATHER") /\ Due("WEATHER")
  /\ TakeId("WEATHER")
  /\ IF CanEnqueue
     THEN /\ Enqueue([type |-> "WEATHER", id |-> nextRequestId["WEATHER"], entity |-> 0])
          /\ outstanding' = [outstanding EXCEPT !["WEATHER"] = nextRequestId["WEATHER"]]
          /\ sinceAttempt' = [sinceAttempt EXCEPT !["WEATHER"] = 0]
     ELSE UNCHANGED <<workerVars, outstanding, sinceAttempt>>
  /\ UNCHANGED haVars

\* enqueueEntity(), and what its caller does when it is refused.
EnqueueEntity(entity) ==
  /\ IF entity \in Entities THEN TakeId("HOME_ASSISTANT") ELSE UNCHANGED nextRequestId
  /\ cycleInProgress' = (entity \in Entities /\ CanEnqueue)
  /\ IF cycleInProgress'
     THEN /\ Enqueue([type |-> "HOME_ASSISTANT", id |-> nextRequestId["HOME_ASSISTANT"], entity |-> entity])
          /\ outstanding' = [outstanding EXCEPT !["HOME_ASSISTANT"] = nextRequestId["HOME_ASSISTANT"]]
          /\ outstandingEntity' = entity
     ELSE UNCHANGED <<workerVars, outstanding, outstandingEntity>>

ContinueCycle ==
  /\ EndTick("HOME_ASSISTANT")
  /\ wifi /\ Free("HOME_ASSISTANT") /\ cycleInProgress
  /\ EnqueueEntity(nextEntity)
  /\ asked' = asked \cup {nextEntity}
  /\ UNCHANGED <<sinceAttempt, nextEntity>>

StartCycle ==
  /\ EndTick("HOME_ASSISTANT")
  /\ wifi /\ Free("HOME_ASSISTANT") /\ ~cycleInProgress /\ Due("HOME_ASSISTANT")
  /\ sinceAttempt' = [sinceAttempt EXCEPT !["HOME_ASSISTANT"] = 0]
  /\ nextEntity' = 0
  /\ EnqueueEntity(0)
  /\ asked' = {0}

\* There is nothing to ask for.
NothingToAsk(type) ==
  /\ EndTick(type)
  /\ ~wifi \/ ~Free(type) \/ (~Due(type) /\ (type = "HOME_ASSISTANT" => ~cycleInProgress))
  /\ UNCHANGED <<workerVars, controllerVars>>

TickPage ==
  \/ \E type \in Types : ConsumeResult(type) \/ NothingToAsk(type)
  \/ AskWeather \/ ContinueCycle \/ StartCycle

-----------------------------------------------------------------------------
(* The environment *)

\* setActive() through onEnter() and onExit(), between two ticks.
ShowPage(next) ==
  /\ ~ticking /\ next # page
  /\ page' = next
  /\ UNCHANGED <<workerVars, memory, wifi, ticking, controllerVars>>

WifiChanges == wifi' = ~wifi /\ UNCHANGED <<workerVars, memory, page, ticking, controllerVars>>

TimePasses ==
  /\ \E type \in Types : ~Due(type)
  /\ sinceAttempt' = [type \in Types |-> IF Due(type) THEN sinceAttempt[type] ELSE sinceAttempt[type] + 1]
  /\ UNCHANGED <<workerVars, memory, page, wifi, ticking, nextRequestId, outstanding, haVars>>

Init ==
  /\ WorkerInit
  /\ page = "OTHER" /\ wifi \in BOOLEAN /\ ticking = FALSE
  /\ nextRequestId = [type \in Types |-> 1]
  /\ outstanding = [type \in Types |-> NoId]
  /\ outstandingEntity = 0 /\ nextEntity = 0 /\ cycleInProgress = FALSE
  /\ sinceAttempt = RefreshTicks
  /\ asked = {}

Next ==
  \/ TickPage
  \/ Worker /\ UNCHANGED <<memory, page, wifi, ticking, controllerVars>>
  \/ MemoryChanges /\ UNCHANGED <<page, wifi, ticking, controllerVars>>
  \/ \E next \in Types \cup {"OTHER"} : ShowPage(next)
  \/ WifiChanges
  \/ TimePasses

Spec == Init /\ [][Next]_vars

\* FreeRTOS runs the task, loop() ticks the page on screen, and the clock goes on.
Fairness ==
  /\ WF_vars(Worker /\ UNCHANGED <<memory, page, wifi, ticking, controllerVars>>)
  /\ WF_vars(TickPage) /\ WF_vars(TimePasses)
FairSpec == Spec /\ Fairness
-----------------------------------------------------------------------------
(* Properties *)

\* Every variable has its type.
TypeOK ==
  /\ requestQueue \in Seq(Request) /\ Len(requestQueue) <= RequestDepth
  /\ resultQueues \in [Types -> Seq(Result)]
  /\ \A type \in Types : Len(resultQueues[type]) <= ResultDepth
  /\ running \in Request \cup {Idle}
  /\ memory \in BOOLEAN /\ wifi \in BOOLEAN /\ ticking \in BOOLEAN
  /\ lost \subseteq Types /\ dropped \subseteq Types
  /\ page \in Types \cup {"OTHER"}
  /\ nextRequestId \in [Types -> Ids] /\ outstanding \in [Types -> Ids \cup {NoId}]
  /\ outstandingEntity \in Entities /\ nextEntity \in 0..EntityCount
  /\ cycleInProgress \in BOOLEAN
  /\ cycleInProgress /\ outstanding["HOME_ASSISTANT"] = NoId => nextEntity \in Entities
  /\ sinceAttempt \in [Types -> Nat] /\ asked \subseteq Entities

\* Where a request of a page may be.
Waiting(type)  == {k \in DOMAIN requestQueue : requestQueue[k].type = type}
OnItsWay(type) == {<<"request", requestQueue[k].id, k>> : k \in Waiting(type)}
                    \cup (IF running # Idle /\ running.type = type
                          THEN {<<"running", running.id, 0>>} ELSE {})
                    \cup {<<"result", resultQueues[type][k].id, k>> : k \in DOMAIN resultQueues[type]}

\* A page has exactly one request on its way while it waits, and none while it does
\* not, also when it was left and entered again meanwhile; only a failed allocation
\* leaves it waiting for nothing.
OneOnItsWay ==
  \A type \in Types :
    IF outstanding[type] = NoId \/ type \in lost
    THEN OnItsWay(type) = {}
    ELSE \E place \in OnItsWay(type) : OnItsWay(type) = {place} /\ place[2] = outstanding[type]

\* No result is ever deleted for want of room, although nothing waits for room, and
\* no request is refused for it: as many places as there are pages are enough.
NothingDropped ==
  /\ dropped = {}
  /\ \A type \in Types : outstanding[type] = NoId => Len(requestQueue) < RequestDepth

\* A cycle that an answer ends has asked for every entity, although it may have
\* stood still while the page was off screen or Wi-Fi was down.
CycleCoversEntities ==
  [][cycleInProgress /\ ~cycleInProgress' /\ outstanding["HOME_ASSISTANT"] # NoId
       => asked = Entities]_vars

\* Whichever page stays on screen, online, with memory and without a lost request,
\* asks again and again, for each of its entities, whatever the answers are.
PageRefreshed ==
  \A type \in Types :
    <>[](page = type /\ wifi /\ memory) /\ [](type \notin lost)
      => \A entity \in IF type = "WEATHER" THEN {0} ELSE Entities :
           /\ []<>(outstanding[type] # NoId /\ (type = "HOME_ASSISTANT" => outstandingEntity = entity))
           /\ []<>(outstanding[type] = NoId)
=============================================================================
