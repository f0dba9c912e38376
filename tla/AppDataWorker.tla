--------------------------- MODULE AppDataWorker ---------------------------
(***************************************************************************)
(* AppDataWorker (src/network/AppDataWorker.cpp): the appdata task fetches   *)
(* for the weather and the Home Assistant pages.  One queue takes the        *)
(* requests of both; each has a result queue of its own.  Nothing waits for  *)
(* room in a queue: a request that does not fit is refused, and a result     *)
(* that does not fit is deleted, as is a request whose result cannot be      *)
(* allocated; the page is not told.                                          *)
(*                                                                         *)
(* A fetch is its outcome, ok or not.  What is fetched is kept as the entity *)
(* it was fetched for.                                                       *)
(***************************************************************************)
EXTENDS Integers, Sequences

CONSTANTS
  RequestDepth,  \* REQUEST_QUEUE_DEPTH
  ResultDepth,   \* RESULT_QUEUE_DEPTH
  EntityCount,   \* config_.entityCount of the Home Assistant page
  IdCount        \* bound: request ids, reused in turn (32 bits wide in the code)

ASSUME AppDataAssumption ==
  {RequestDepth, ResultDepth, EntityCount, IdCount} \subseteq Nat \ {0}

Types    == {"WEATHER", "HOME_ASSISTANT"}
Ids      == 1..IdCount
Entities == 0..EntityCount - 1

\* AppDataRequest, AppDataResult; the entity of a weather request is 0.
Request == [type : Types, id : Ids, entity : Entities]
Result  == [id : Ids, entity : Entities, ok : BOOLEAN]
Idle    == [type |-> "NONE"]

VARIABLES
  requestQueue,
  resultQueues,  \* weatherResultQueue, homeAssistantResultQueue
  running,       \* the request the task executes
  memory,        \* environment: allocations succeed
  lost,          \* history: pages a request of which had no result allocated
  dropped        \* history: pages a result of which did not fit

workerVars == <<requestQueue, resultQueues, running, lost, dropped>>

-----------------------------------------------------------------------------
\* enqueue(), called by the loop; it fails without memory or without room.
CanEnqueue == memory /\ Len(requestQueue) < RequestDepth

Enqueue(request) ==
  /\ CanEnqueue
  /\ requestQueue' = Append(requestQueue, request)
  /\ UNCHANGED <<resultQueues, running, lost, dropped>>

\* tryReceive(), called by the loop.
CanReceive(type) == resultQueues[type] # <<>>
Received(type)   == Head(resultQueues[type])

TryReceive(type) ==
  /\ CanReceive(type)
  /\ resultQueues' = [resultQueues EXCEPT ![type] = Tail(@)]
  /\ UNCHANGED <<requestQueue, running, lost, dropped>>

\* The task takes a request, and execute() allocates its result.
TakeRequest ==
  /\ running = Idle /\ requestQueue # <<>>
  /\ memory
  /\ running' = Head(requestQueue)
  /\ requestQueue' = Tail(requestQueue)
  /\ UNCHANGED <<resultQueues, lost, dropped>>

TakeWithoutMemory ==
  /\ running = Idle /\ requestQueue # <<>>
  /\ ~memory
  /\ lost' = lost \cup {Head(requestQueue).type}
  /\ requestQueue' = Tail(requestQueue)
  /\ UNCHANGED <<resultQueues, running, dropped>>

ResultOf(ok) == [id |-> running.id, entity |-> running.entity, ok |-> ok]

HasRoom(type) == Len(resultQueues[type]) < ResultDepth

\* The fetch ends: publishResult().
PublishResult(ok) ==
  /\ running # Idle
  /\ IF HasRoom(running.type)
     THEN /\ resultQueues' = [resultQueues EXCEPT ![running.type] = Append(@, ResultOf(ok))]
          /\ UNCHANGED dropped
     ELSE /\ dropped' = dropped \cup {running.type}
          /\ UNCHANGED resultQueues
  /\ running' = Idle
  /\ UNCHANGED <<requestQueue, lost>>

WorkerInit ==
  /\ requestQueue = <<>>
  /\ resultQueues = [type \in Types |-> <<>>]
  /\ running = Idle
  /\ memory = TRUE
  /\ lost = {} /\ dropped = {}

\* One step of the task.
Worker == TakeRequest \/ TakeWithoutMemory \/ (\E ok \in BOOLEAN : PublishResult(ok))

\* The heap is exhausted, or recovers.
MemoryChanges == memory' = ~memory /\ UNCHANGED workerVars
=============================================================================
