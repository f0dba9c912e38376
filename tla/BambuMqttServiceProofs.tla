----------------------- MODULE BambuMqttServiceProofs -----------------------
(***************************************************************************)
(* Theorems about BambuMqttService for every number of slots, every set of *)
(* configurations and every choice of the intervals.                       *)
(*                                                                         *)
(* Three properties are not inductive alone.  ConnectionsFollowConfig needs *)
(* what connectSlot() dials with; RefusedTokenLatched needs that a slot     *)
(* which dials has not been refused, and that a refusal before the change   *)
(* of configuration was noticed ended the pass; RetryAfterInterval needs    *)
(* that the time kept by the code runs ahead of the time passed by no more  *)
(* than the lag of the pass in which loop() failed.                         *)
(***************************************************************************)
EXTENDS BambuMqttService, FiniteSetTheorems, TLAPS

\* What is dialled is what the configuration says, unless its change is unnoticed.
DialInv == pc = "dial" => ~observed \/ SameConnectionSet(copy, config)

\* A slot refused twice is latched; one that dials is not; a slot that has been
\* refused with an unnoticed configuration waits for the next pass.
RefusalInv ==
  /\ \A s \in Slots : /\ refusals[s] \in 0..2
                      /\ refusals[s] = 2 => conns[s].rejected /\ observed /\ pc # "reset"
                      /\ refusals[s] # 0 /\ ~observed => pc = "sleep"
  /\ pc \in {"connect", "dial"} => ~conns[slot].rejected

\* The age of the last attempt is at most the time since it returned or the connection
\* was found lost, and how late in its pass that was.
Rested(s) == IF conns[s].attempted THEN conns[s].age <= rest[s] + late[s] ELSE rest[s] = AgeCap
RestInv ==
  /\ \A s \in Slots : Rested(s)
  /\ pc = "connect" => rest[slot] + late[slot] >= ReconnectInterval(conns[slot])

-----------------------------------------------------------------------------
(* Lemmas *)

\* The bounds are natural numbers.
LEMMA Bounds ==
  /\ PrinterCount \in Nat \ {0}
  /\ BaseInterval \in 0..AgeCap /\ Phase2Interval \in 0..AgeCap /\ Phase3Interval \in 0..AgeCap
  /\ Phase1Fails \in Nat /\ Phase3Fails \in Nat
  /\ PushallDelay \in Nat /\ AgeCap \in Nat /\ MaxDial \in Nat /\ MaxLost \in Nat
  /\ MaxLag \in Nat /\ 0..MaxLag \subseteq 0..AgeCap /\ PushallDelay + MaxLag \in Nat
BY BambuAssumption

\* The slots in use are slots.
LEMMA InUseSlots ==
  ASSUME NEW c, ValidConfig(c)
  PROVE  /\ Len(c.serials) \in Nat /\ InUse(c) \subseteq Slots
         /\ \A s \in InUse(c) : Serial(c, s) \in Serials
<1>1. c.serials \in Seq(Serials) /\ Len(c.serials) <= PrinterCount
  BY DEF ValidConfig, Config
<1>2. Len(c.serials) \in Nat /\ \A k \in 1..Len(c.serials) : c.serials[k] \in Serials
  BY <1>1
<1>3. InUse(c) \subseteq Slots
  BY <1>1, <1>2, Bounds DEF InUse, Slots
<1>4. \A s \in InUse(c) : s + 1 \in 1..Len(c.serials)
  BY <1>2 DEF InUse
<1>. QED BY <1>2, <1>3, <1>4 DEF Serial

\* A connection of which one field takes another value of its type is a connection.
LEMMA FieldTypes ==
  ASSUME NEW c \in Conn
  PROVE  /\ \A v \in {"none", "up", "dead"} : [c EXCEPT !.link = v] \in Conn
         /\ \A v \in Accounts \cup {NoAccount} : [c EXCEPT !.account = v] \in Conn
         /\ \A v \in Serials \cup {NoSerial} : [c EXCEPT !.serial = v] \in Conn
         /\ \A v \in BOOLEAN : [c EXCEPT !.attempted = v] \in Conn
         /\ \A v \in BOOLEAN : [c EXCEPT !.rejected = v] \in Conn
         /\ \A v \in BOOLEAN : [c EXCEPT !.pending = v] \in Conn
         /\ \A v \in 0..Phase3Fails : [c EXCEPT !.fails = v] \in Conn
         /\ \A v \in 0..AgeCap : [c EXCEPT !.age = v] \in Conn
         /\ \A v \in 0..PushallDelay + MaxLag : [c EXCEPT !.up = v] \in Conn
BY DEF Conn

\* disconnectSlot(), a failure and a completed attempt leave a connection of its type.
LEMMA ConnTypes ==
  ASSUME NEW c \in Conn
  PROVE  /\ Closed(c) \in Conn /\ Failed(c) \in Conn /\ Attempted(c) \in Conn
         /\ lag \in 0..MaxLag => AttemptedAtStart(c) \in Conn
<1>. /\ 0 \in 0..PushallDelay + MaxLag /\ 0 \in 0..AgeCap
     /\ NoAccount \in Accounts \cup {NoAccount} /\ NoSerial \in Serials \cup {NoSerial}
  BY Bounds
<1>1. Closed(c) \in Conn
  <2>1. [[[[[c EXCEPT !.link = "none"] EXCEPT !.account = NoAccount] EXCEPT !.serial = NoSerial]
           EXCEPT !.pending = FALSE] EXCEPT !.up = 0] \in Conn
    BY FieldTypes
  <2>. QED BY <2>1 DEF Closed
<1>2. Failed(c) \in Conn
  BY Bounds DEF Failed, Conn
<1>3. Attempted(c) \in Conn
  <2>1. [[c EXCEPT !.age = 0] EXCEPT !.attempted = TRUE] \in Conn
    BY FieldTypes
  <2>. QED BY <2>1 DEF Attempted
<1>4. ASSUME lag \in 0..MaxLag PROVE AttemptedAtStart(c) \in Conn
  <2>1. lag \in 0..AgeCap
    BY <1>4, Bounds
  <2>2. [[c EXCEPT !.age = lag] EXCEPT !.attempted = TRUE] \in Conn
    BY <2>1, FieldTypes
  <2>. QED BY <2>2 DEF AttemptedAtStart
<1>. QED BY <1>1, <1>2, <1>3, <1>4

\* What they leave in the fields the invariants speak of.
LEMMA ConnFields ==
  ASSUME NEW c \in Conn
  PROVE  /\ Closed(c).link = "none" /\ Closed(c).rejected = c.rejected
         /\ Closed(c).attempted = c.attempted /\ Closed(c).age = c.age
         /\ Failed(c).link = c.link /\ Failed(c).rejected = c.rejected
         /\ Failed(c).account = c.account /\ Failed(c).serial = c.serial
         /\ Attempted(c).link = c.link /\ Attempted(c).rejected = c.rejected
         /\ Attempted(c).account = c.account /\ Attempted(c).serial = c.serial
         /\ Attempted(c).attempted = TRUE /\ Attempted(c).age = 0
         /\ AttemptedAtStart(c).rejected = c.rejected
         /\ AttemptedAtStart(c).attempted = TRUE /\ AttemptedAtStart(c).age = lag
<1>1. /\ Closed(c).link = "none" /\ Closed(c).rejected = c.rejected
      /\ Closed(c).attempted = c.attempted /\ Closed(c).age = c.age
  BY DEF Closed, Conn
<1>2. /\ Failed(c).link = c.link /\ Failed(c).rejected = c.rejected
      /\ Failed(c).account = c.account /\ Failed(c).serial = c.serial
  BY DEF Failed, Conn
<1>3. /\ Attempted(c).link = c.link /\ Attempted(c).rejected = c.rejected
      /\ Attempted(c).account = c.account /\ Attempted(c).serial = c.serial
      /\ Attempted(c).attempted = TRUE /\ Attempted(c).age = 0
  BY DEF Attempted, Conn
<1>4. /\ AttemptedAtStart(c).rejected = c.rejected
      /\ AttemptedAtStart(c).attempted = TRUE /\ AttemptedAtStart(c).age = lag
  BY DEF AttemptedAtStart, Conn
<1>. QED BY <1>1, <1>2, <1>3, <1>4

\* A failed loop() leaves the connection closed, and the attempt taken at the start of
\* the pass.
LEMMA LostFields ==
  ASSUME NEW c \in Conn, lag \in 0..MaxLag
  PROVE  LET d == Closed(AttemptedAtStart(Failed(c)))
         IN  /\ d \in Conn /\ d.link = "none" /\ d.rejected = c.rejected
             /\ d.attempted = TRUE /\ d.age = lag
<1>1. Failed(c) \in Conn /\ Failed(c).rejected = c.rejected
  BY ConnTypes, ConnFields
<1>. DEFINE e == AttemptedAtStart(Failed(c))
<1>2. e \in Conn /\ e.rejected = c.rejected /\ e.attempted = TRUE /\ e.age = lag
  BY <1>1, ConnTypes, ConnFields
<1>. HIDE DEF e
<1>3. LET d == Closed(e)
      IN  /\ d \in Conn /\ d.link = "none" /\ d.rejected = c.rejected
          /\ d.attempted = TRUE /\ d.age = lag
  BY <1>2, ConnTypes, ConnFields
<1>. QED BY <1>3 DEF e

\* Slots is finite.
LEMMA SlotsFinite == IsFiniteSet(Slots)
BY FS_Interval, Bounds DEF Slots

\* A lost update leaves the old value of a slot, any other one the new value.
LEMMA ShowTypes ==
  ASSUME TypeOK, NEW STATE new, new \in [Slots -> Shown], Show(new)
  PROVE  shown' \in [Slots -> Shown] /\ lost' \in 0..MaxLost
<1>1. PICK given \in SUBSET {s \in Slots : new[s] # shown[s]} :
        /\ lost' = lost + Cardinality(given) /\ lost' <= MaxLost
        /\ shown' = [s \in Slots |-> IF s \in given THEN shown[s] ELSE new[s]]
  BY DEF Show
<1>2. given \subseteq Slots
  BY <1>1
<1>3. Cardinality(given) \in Nat
  BY <1>2, SlotsFinite, FS_Subset, FS_CardinalityType
<1>4. lost' \in 0..MaxLost
  BY <1>1, <1>3, Bounds DEF TypeOK
<1>5. shown' \in [Slots -> Shown]
  BY <1>1 DEF TypeOK
<1>. QED BY <1>4, <1>5

\* Updates of one slot, or of several, keep the type of what is shown.
LEMMA ShownTypes ==
  ASSUME NEW v \in Shown, NEW session \in Sessions, NEW on \in BOOLEAN
  PROVE  /\ Session(v, session) \in Shown /\ Connectivity(v, on) \in Shown
         /\ Down(v, session) \in Shown
BY DEF Session, Connectivity, Down, Shown

\* The end of the walk over the connected slots.
LEMMA NextSlotTypes ==
  ASSUME NextSlot
  PROVE  pc' \in {"service", "attempt"} /\ (pc' = "service" => slot' \in InUse(copy))
BY DEF NextSlot

\* An attempt that returns leaves everything in its type.
LEMMA DialEndsTypes ==
  ASSUME TypeOK, NEW c \in Conn, NEW v \in Shown, DialEnds(c, v)
  PROVE  /\ conns' \in [Slots -> Conn] /\ shown' \in [Slots -> Shown] /\ lost' \in 0..MaxLost
         /\ pc' = "sleep" /\ dialed' \in 0..MaxDial
         /\ lag' = 0 /\ rest' \in [Slots -> 0..AgeCap] /\ late' \in [Slots -> 0..MaxLag]
         /\ UNCHANGED <<config, observed, wifi, copy, report, rested, asked>>
<1>1. [shown EXCEPT ![slot] = v] \in [Slots -> Shown]
  BY DEF TypeOK
<1>2. shown' \in [Slots -> Shown] /\ lost' \in 0..MaxLost
  BY <1>1, ShowTypes DEF DialEnds
<1>3. conns' \in [Slots -> Conn]
  BY DEF DialEnds, TypeOK
<1>4. dialed' \in 0..MaxDial
  BY Bounds DEF DialEnds
<1>5. rest' \in [Slots -> 0..AgeCap] /\ late' \in [Slots -> 0..MaxLag]
  <2>1. 0 \in 0..AgeCap /\ 0 \in 0..MaxLag
    BY Bounds
  <2>. QED BY <2>1 DEF DialEnds, AttemptReturned, TypeOK
<1>. QED BY <1>2, <1>3, <1>4, <1>5 DEF DialEnds, EndPass

-----------------------------------------------------------------------------
(* Types *)

\* The type invariant holds after begin().
LEMMA InitTypes == Init => TypeOK
<1>. SUFFICES ASSUME Init PROVE TypeOK
  OBVIOUS
<1>1. ValidConfig(config) /\ ValidConfig(copy)
  BY BambuAssumption DEF Init
<1>2. FreshConn \in Conn
  BY Bounds DEF FreshConn, Conn
<1>3. shown \in [Slots -> Shown]
  BY DEF Init, ResetSession, Shown, Sessions
<1>4. conns \in [Slots -> Conn]
  BY <1>2 DEF Init
<1>5. /\ refusals \in [Slots -> 0..3] /\ rest \in [Slots -> 0..AgeCap]
      /\ late \in [Slots -> 0..MaxLag] /\ asked \in [Slots -> 0..2]
  BY Bounds DEF Init
<1>6. dialed \in 0..MaxDial /\ lag \in 0..MaxLag /\ lost \in 0..MaxLost
  BY Bounds DEF Init
<1>. QED BY <1>1, <1>3, <1>4, <1>5, <1>6 DEF Init, TypeOK

\* Every step of the task keeps the type invariant.
LEMMA ProcessTypes == TypeOK /\ Process => TypeOK'
<1>. SUFFICES ASSUME TypeOK, Process PROVE TypeOK'
  OBVIOUS
<1>. USE DEF taskVars, historyVars
<1>a. /\ InUse(copy) \subseteq Slots /\ InUse(config) \subseteq Slots
      /\ Len(copy.serials) \in Nat
      /\ \A s \in InUse(copy) : Serial(copy, s) \in Serials
      /\ \A s \in InUse(config) : Serial(config, s) \in Serials
  BY InUseSlots DEF TypeOK
<1>b. pc \in {"service", "apply", "pushall", "connect", "dial"} =>
        /\ slot \in Slots /\ conns[slot] \in Conn /\ shown[slot] \in Shown
        /\ Serial(copy, slot) \in Serials
  BY <1>a DEF TypeOK
<1>c. {"UNCONFIGURED", "INTEGRATION_DISABLED", "MQTT_CONNECTING", "ONLINE", "NETWORK_ERROR",
       "TOKEN_INVALID", "BUFFER_ERROR"} = Sessions
  BY DEF Sessions
<1>e. 0 \in 0..2 /\ 0 \in 0..AgeCap /\ AgeCap \in 0..AgeCap /\ 0 \in 0..MaxLag
  BY Bounds
<1>1. CASE StartPass
  BY <1>1 DEF StartPass, TypeOK
<1>2. CASE ResetRuntime
  <2>1. FreshConn \in Conn
    BY Bounds DEF FreshConn, Conn
  <2>2. \A s \in Slots : ResetSession(copy, s) \in Sessions
    BY <1>c DEF ResetSession
  <2>3. \A s \in Slots : [shown[s] EXCEPT !.mqttConnected = FALSE,
                                          !.session = ResetSession(copy, s)] \in Shown
    BY <2>2 DEF TypeOK, Shown
  <2>4. conns' \in [Slots -> Conn] /\ shown' \in [Slots -> Shown]
    BY <1>2, <2>1, <2>3 DEF ResetRuntime
  <2>5. /\ rest' \in [Slots -> 0..AgeCap] /\ late' \in [Slots -> 0..MaxLag]
        /\ asked' \in [Slots -> 0..2]
    BY <1>2, <1>e DEF ResetRuntime
  <2>. QED BY <1>2, <2>4, <2>5 DEF ResetRuntime, TypeOK
<1>3. ASSUME NEW slots, NEW session \in Sessions, DisconnectAndReturn(slots, session) PROVE TypeOK'
  <2>1. conns' \in [Slots -> Conn]
    BY <1>3, ConnTypes DEF DisconnectAndReturn, TypeOK
  <2>2. \A s \in Slots : Down(shown[s], session) \in Shown
    BY ShownTypes DEF TypeOK
  <2>3. shown' \in [Slots -> Shown] /\ lost' \in 0..MaxLost
    <3>. DEFINE new == [s \in Slots |-> IF s \in slots THEN Down(shown[s], session) ELSE shown[s]]
    <3>1. new \in [Slots -> Shown]
      BY <2>2 DEF TypeOK
    <3>2. Show(new)
      BY <1>3 DEF DisconnectAndReturn
    <3>. QED BY <3>1, <3>2, ShowTypes
  <2>. QED BY <1>3, <1>e, <2>1, <2>3 DEF DisconnectAndReturn, EndPass, TypeOK
<1>4. CASE Disabled \/ Offline
  BY <1>3, <1>4, <1>c DEF Disabled, Offline
<1>5. CASE Online
  <2>1. 0 \in InUse(copy)
    <3>1. copy.enabled => copy.serials # <<>> /\ copy.serials \in Seq(Serials)
      BY DEF TypeOK, ValidConfig, Config
    <3>2. Len(copy.serials) # 0
      BY <1>5, <3>1 DEF Online
    <3>. QED BY <3>2, <1>a DEF InUse
  <2>. QED BY <1>5, <2>1 DEF Online, TypeOK
<1>6. CASE SkipUnconnected
  BY <1>6, NextSlotTypes DEF SkipUnconnected, TypeOK
<1>7. CASE LoopLost
  <2>1. Closed(AttemptedAtStart(Failed(conns[slot]))) \in Conn
    BY <1>7, <1>b, LostFields DEF LoopLost, TypeOK
  <2>2. Down(shown[slot], "NETWORK_ERROR") \in Shown
    BY <1>7, <1>b, <1>c, ShownTypes DEF LoopLost
  <2>3. [shown EXCEPT ![slot] = Down(@, "NETWORK_ERROR")] \in [Slots -> Shown]
    BY <2>2 DEF TypeOK
  <2>4. shown' \in [Slots -> Shown] /\ lost' \in 0..MaxLost
    BY <1>7, <2>3, ShowTypes DEF LoopLost
  <2>5. conns' \in [Slots -> Conn]
    BY <1>7, <2>1 DEF LoopLost, TypeOK
  <2>6. /\ rest' \in [Slots -> 0..AgeCap] /\ late' \in [Slots -> 0..MaxLag]
        /\ asked' \in [Slots -> 0..2]
    BY <1>7, <1>e DEF LoopLost, TypeOK
  <2>. QED BY <1>7, <2>4, <2>5, <2>6, NextSlotTypes DEF LoopLost, TypeOK
<1>8. CASE LoopQuiet
  BY <1>8 DEF LoopQuiet, TypeOK
<1>9. CASE RouteReport
  <2>1. SlotOf(conns[slot].serial) \in InUse(config)
    BY <1>9 DEF RouteReport, SlotOf
  <2>2. conns[slot].serial \in Serials
    BY <1>9, <2>1, <1>a DEF RouteReport, SlotOf
  <2>3. report' \in [serial : Serials, slot : Slots]
    BY <1>9, <1>a, <2>1, <2>2 DEF RouteReport
  <2>. QED BY <1>9, <2>3 DEF RouteReport, TypeOK
<1>10. CASE ApplyReport
  <2>0. report.slot \in Slots => report.serial \in Serials
    BY Bounds DEF TypeOK, NoReport, Slots, NoSlot
  <2>1. [shown EXCEPT ![report.slot] = [from |-> @.from \cup {report.serial},
           session |-> "ONLINE", mqttConnected |-> TRUE]] \in [Slots -> Shown]
    BY <1>c, <2>0 DEF TypeOK, Shown
  <2>2. shown' \in [Slots -> Shown] /\ lost' \in 0..MaxLost
    BY <1>10, <2>1, ShowTypes DEF ApplyReport
  <2>. QED BY <1>10, <2>2 DEF ApplyReport, TypeOK
<1>11. CASE PublishPushall
  <2>1. [conns[slot] EXCEPT !.pending = FALSE] \in Conn
    BY <1>11, <1>b, FieldTypes DEF PublishPushall
  <2>2. conns' \in [Slots -> Conn]
    BY <1>11, <2>1 DEF PublishPushall, TypeOK
  <2>3. asked' \in [Slots -> 0..2]
    <3>1. \A n \in 0..2 : (IF n < 2 THEN n + 1 ELSE n) \in 0..2
      OBVIOUS
    <3>. QED BY <1>11, <3>1 DEF PublishPushall, TypeOK
  <2>. QED BY <1>11, <2>2, <2>3, NextSlotTypes DEF PublishPushall, TypeOK
<1>12. CASE NoPushall
  BY <1>12, NextSlotTypes DEF NoPushall, TypeOK
<1>d. \A s \in Slots : Passed(s) \in Shown
  BY <1>c, ShownTypes DEF Passed, TypeOK
<1>13. CASE ChooseSlot
  <2>1. PICK k \in InUse(copy) :
          /\ slot' = Order(k)
          /\ Show([s \in Slots |-> IF s \in {Order(j) : j \in 0..k} THEN Passed(s) ELSE shown[s]])
    BY <1>13 DEF ChooseSlot
  <2>2. [s \in Slots |-> IF s \in {Order(j) : j \in 0..k} THEN Passed(s) ELSE shown[s]]
          \in [Slots -> Shown]
    BY <1>d DEF TypeOK
  <2>3. shown' \in [Slots -> Shown] /\ lost' \in 0..MaxLost
    BY <2>1, <2>2, ShowTypes
  <2>4. slot' \in InUse(copy)
    <3>1. copy.active \in Nat
      BY DEF TypeOK, ValidConfig, Config
    <3>2. k \in Nat /\ Len(copy.serials) \in Nat \ {0}
      BY <1>a DEF InUse
    <3>. QED BY <2>1, <3>1, <3>2 DEF Order, InUse
  <2>. QED BY <1>13, <1>e, <2>3, <2>4 DEF ChooseSlot, TypeOK
<1>14. CASE NoSlotDue
  <2>1. [s \in Slots |-> IF s \in InUse(copy) THEN Passed(s) ELSE shown[s]] \in [Slots -> Shown]
    BY <1>d DEF TypeOK
  <2>2. shown' \in [Slots -> Shown] /\ lost' \in 0..MaxLost
    BY <1>14, <2>1, ShowTypes DEF NoSlotDue
  <2>. QED BY <1>14, <1>e, <2>2 DEF NoSlotDue, EndPass, TypeOK
<1>15. CASE SlotGone
  <2>1. Attempted(conns[slot]) \in Conn /\ Session(shown[slot], "UNCONFIGURED") \in Shown
    BY <1>15, <1>b, <1>c, ConnTypes, ShownTypes DEF SlotGone
  <2>2. [shown EXCEPT ![slot] = Session(@, "UNCONFIGURED")] \in [Slots -> Shown]
    BY <2>1 DEF TypeOK
  <2>3. shown' \in [Slots -> Shown] /\ lost' \in 0..MaxLost
    BY <1>15, <2>2, ShowTypes DEF SlotGone
  <2>4. rest' \in [Slots -> 0..AgeCap] /\ late' \in [Slots -> 0..MaxLag]
    BY <1>15, <1>e DEF SlotGone, AttemptReturned, TypeOK
  <2>. QED BY <1>15, <1>e, <2>1, <2>3, <2>4 DEF SlotGone, EndPass, TypeOK
<1>16. CASE BeginDial
  <2>1. Closed(conns[slot]) \in Conn /\ Down(shown[slot], "MQTT_CONNECTING") \in Shown
    BY <1>16, <1>b, <1>c, ConnTypes, ShownTypes DEF BeginDial
  <2>2. [shown EXCEPT ![slot] = Down(@, "MQTT_CONNECTING")] \in [Slots -> Shown]
    BY <2>1 DEF TypeOK
  <2>3. shown' \in [Slots -> Shown] /\ lost' \in 0..MaxLost
    BY <1>16, <2>2, ShowTypes DEF BeginDial
  <2>4. conns' \in [Slots -> Conn] /\ asked' \in [Slots -> 0..2]
    BY <1>16, <1>e, <2>1 DEF BeginDial, TypeOK
  <2>. QED BY <1>16, <2>3, <2>4 DEF BeginDial, TypeOK
<1>17. CASE DialWithoutMemory \/ DialFails
  <2>1. pc = "dial"
    BY <1>17 DEF DialWithoutMemory, DialFails, DialEnds
  <2>2. /\ Attempted(Failed(conns[slot])) \in Conn
        /\ \A session \in Sessions : Down(shown[slot], session) \in Shown
    BY <2>1, <1>b, ConnTypes, ShownTypes
  <2>3. PICK session \in Sessions :
          DialEnds(Attempted(Failed(conns[slot])), Down(shown[slot], session))
    BY <1>17, <1>c DEF DialWithoutMemory, DialFails
  <2>. QED BY <1>17, <1>e, <2>2, <2>3, DialEndsTypes DEF DialWithoutMemory, DialFails, TypeOK
<1>18. CASE DialRefused
  <2>1. pc = "dial"
    BY <1>18 DEF DialRefused, DialEnds
  <2>2. /\ [Attempted(conns[slot]) EXCEPT !.rejected = TRUE] \in Conn
        /\ Down(shown[slot], "TOKEN_INVALID") \in Shown
    BY <2>1, <1>b, <1>c, ConnTypes, FieldTypes, ShownTypes
  <2>3. refusals' \in [Slots -> 0..3]
    <3>1. \A n \in 0..3 : (IF n < 3 THEN n + 1 ELSE n) \in 0..3
      OBVIOUS
    <3>. QED BY <1>18, <3>1 DEF DialRefused, TypeOK
  <2>. QED BY <1>18, <1>e, <2>2, <2>3, DialEndsTypes DEF DialRefused, TypeOK
<1>19. CASE DialSucceeds
  <2>1. pc = "dial"
    BY <1>19 DEF DialSucceeds, DialEnds
  <2>. DEFINE c == [Attempted(conns[slot]) EXCEPT
                      !.link = "up", !.account = copy.account, !.serial = Serial(copy, slot),
                      !.fails = 0, !.rejected = FALSE, !.pending = TRUE]
  <2>2. c \in Conn
    <3>1. copy.account \in Accounts \cup {NoAccount} /\ 0 \in 0..Phase3Fails
      BY Bounds DEF TypeOK, ValidConfig, Config
    <3>2. [[[[[[Attempted(conns[slot]) EXCEPT !.link = "up"] EXCEPT !.account = copy.account]
             EXCEPT !.serial = Serial(copy, slot)] EXCEPT !.fails = 0] EXCEPT !.rejected = FALSE]
             EXCEPT !.pending = TRUE] \in Conn
      BY <2>1, <1>b, <3>1, ConnTypes, FieldTypes
    <3>. QED BY <3>2
  <2>3. [shown[slot] EXCEPT !.mqttConnected = TRUE, !.session = "ONLINE"] \in Shown
    BY <2>1, <1>b, <1>c DEF Shown
  <2>4. DialEnds(c, [shown[slot] EXCEPT !.mqttConnected = TRUE, !.session = "ONLINE"])
    BY <1>19 DEF DialSucceeds
  <2>. HIDE DEF c
  <2>. QED BY <1>19, <1>e, <2>2, <2>3, <2>4, DialEndsTypes DEF DialSucceeds, TypeOK
<1>. QED BY <1>1, <1>2, <1>4, <1>5, <1>6, <1>7, <1>8, <1>9, <1>10, <1>11, <1>12, <1>13, <1>14,
            <1>15, <1>16, <1>17, <1>18, <1>19 DEF Process

\* What time does to a connection.
LEMMA TickTypes ==
  ASSUME TypeOK, Tick, NEW s \in Slots
  PROVE  /\ conns'[s] \in Conn
         /\ conns'[s].link = conns[s].link /\ conns'[s].account = conns[s].account
         /\ conns'[s].serial = conns[s].serial /\ conns'[s].rejected = conns[s].rejected
         /\ conns'[s].attempted = conns[s].attempted /\ conns'[s].fails = conns[s].fails
         /\ conns'[s].age = IF conns[s].attempted THEN Older(conns[s].age, AgeCap) ELSE conns[s].age
<1>. DEFINE c == conns[s]
            a == IF c.attempted THEN Older(c.age, AgeCap) ELSE c.age
            u == IF c.link = "none" THEN c.up ELSE Older(c.up, PushallDelay + MaxLag)
<1>1. c \in Conn
  BY DEF TypeOK
<1>2. a \in 0..AgeCap /\ u \in 0..PushallDelay + MaxLag
  BY <1>1, Bounds DEF Conn, Older
<1>3. conns'[s] = [c EXCEPT !.age = a, !.up = u]
  BY DEF Tick
<1>. HIDE DEF c, a, u
<1>4. [[c EXCEPT !.age = a] EXCEPT !.up = u] \in Conn
  BY <1>1, <1>2, FieldTypes
<1>5. /\ conns'[s] \in Conn /\ conns'[s].age = a
      /\ conns'[s].link = c.link /\ conns'[s].account = c.account
      /\ conns'[s].serial = c.serial /\ conns'[s].rejected = c.rejected
      /\ conns'[s].attempted = c.attempted /\ conns'[s].fails = c.fails
  <2>1. conns'[s] \in Conn
    BY <1>3, <1>4
  <2>2. /\ conns'[s].age = a
        /\ conns'[s].link = c.link /\ conns'[s].account = c.account
        /\ conns'[s].serial = c.serial /\ conns'[s].rejected = c.rejected
        /\ conns'[s].attempted = c.attempted /\ conns'[s].fails = c.fails
    BY <1>1, <1>3 DEF Conn
  <2>. QED BY <2>1, <2>2
<1>. QED BY <1>5 DEF c, a

\* So does every step of the loop and of the environment.
LEMMA OutsideTypes ==
  TypeOK /\ (Loop \/ WifiChanges \/ (\E s \in Slots : LinkDies(s)) \/ Tick) => TypeOK'
<1>. SUFFICES ASSUME TypeOK, Loop \/ WifiChanges \/ (\E s \in Slots : LinkDies(s)) \/ Tick
              PROVE  TypeOK'
  OBVIOUS
<1>. USE DEF taskVars, historyVars
<1>1. ASSUME NEW c \in Configs, ReplaceConfig(c) PROVE TypeOK'
  <2>1. ValidConfig(c)
    BY BambuAssumption
  <2>2. shown' \in [Slots -> Shown]
    <3>. DEFINE v == [from |-> {}, mqttConnected |-> FALSE,
                      session |-> IF c.enabled THEN "MQTT_CONNECTING" ELSE "INTEGRATION_DISABLED"]
    <3>1. v \in Shown
      BY DEF Shown, Sessions
    <3>2. shown' = shown \/ shown' = [s \in Slots |-> v]
      BY <1>1 DEF ReplaceConfig
    <3>. QED BY <3>1, <3>2 DEF TypeOK
  <2>3. refusals' \in [Slots -> 0..3] /\ observed' \in BOOLEAN
    <3>1. 0 \in 0..3
      OBVIOUS
    <3>. QED BY <1>1, <3>1 DEF ReplaceConfig, TypeOK
  <2>. QED BY <1>1, <2>1, <2>2, <2>3 DEF ReplaceConfig, TypeOK
<1>2. ASSUME NEW index \in Slots, SelectPrinter(index) PROVE TypeOK'
  <2>1. ValidConfig(config) /\ config \in Config /\ index \in InUse(config)
    BY <1>2 DEF SelectPrinter, TypeOK, ValidConfig
  <2>2. /\ config' \in Config /\ config'.active = index /\ config'.serials = config.serials
        /\ config'.enabled = config.enabled /\ config'.account = config.account
    BY <1>2, <2>1 DEF SelectPrinter, Config, Slots
  <2>3. ValidConfig(config')
    BY <2>1, <2>2 DEF ValidConfig, InUse, Serial
  <2>. QED BY <1>2, <2>3 DEF SelectPrinter, TypeOK
<1>3. CASE WifiChanges
  BY <1>3 DEF WifiChanges, TypeOK
<1>4. ASSUME NEW s \in Slots, LinkDies(s) PROVE TypeOK'
  <2>1. [conns[s] EXCEPT !.link = "dead"] \in Conn
    BY FieldTypes DEF TypeOK
  <2>. QED BY <1>4, <2>1 DEF LinkDies, TypeOK
<1>5. CASE Tick
  <2>1. conns' \in [Slots -> Conn]
    <3>1. conns' = [s \in Slots |-> conns'[s]]
      BY <1>5 DEF Tick
    <3>. QED BY <1>5, <3>1, TickTypes
  <2>2. rest' \in [Slots -> 0..AgeCap]
    <3>1. \A s \in Slots : Older(rest[s], AgeCap) \in 0..AgeCap
      BY Bounds DEF Older, TypeOK
    <3>. QED BY <1>5, <3>1 DEF Tick
  <2>3. dialed' \in 0..MaxDial /\ rested' \in BOOLEAN /\ lag' \in 0..MaxLag
    <3>1. dialed \in Nat /\ MaxDial \in Nat /\ lag \in Nat /\ MaxLag \in Nat
      BY Bounds DEF TypeOK
    <3>2. dialed' = dialed \/ (dialed < MaxDial /\ dialed' = dialed + 1)
      BY <1>5 DEF Tick
    <3>3. dialed' \in 0..MaxDial
      BY <3>1, <3>2 DEF TypeOK
    <3>4. rested' = rested \/ rested' = TRUE
      BY <1>5 DEF Tick
    <3>5. lag' = lag \/ (lag < MaxLag /\ lag' = lag + 1)
      BY <1>5 DEF Tick
    <3>6. lag' \in 0..MaxLag
      BY <3>1, <3>5 DEF TypeOK
    <3>. QED BY <3>3, <3>4, <3>6 DEF TypeOK
  <2>. QED BY <1>5, <2>1, <2>2, <2>3 DEF Tick, TypeOK
<1>. QED BY <1>1, <1>2, <1>3, <1>4, <1>5 DEF Loop

\* The type invariant holds in every state.
THEOREM Typing == Spec => []TypeOK
<1>1. TypeOK /\ [Next]_vars => TypeOK'
  <2>1. CASE UNCHANGED vars
    BY <2>1 DEF vars, taskVars, historyVars, TypeOK
  <2>. QED BY <2>1, ProcessTypes, OutsideTypes DEF Next
<1>. QED BY <1>1, InitTypes, PTL DEF Spec

-----------------------------------------------------------------------------
(* Connections follow the configuration *)

\* A step that makes no connection and notices no configuration keeps the property.
LEMMA FollowKept ==
  ASSUME ConnectionsFollowConfig, pc # "reset", UNCHANGED <<config, observed>>,
         \A s \in Slots : \/ conns'[s].link = "none"
                          \/ /\ conns[s].link # "none"
                             /\ conns'[s].account = conns[s].account
                             /\ conns'[s].serial = conns[s].serial
  PROVE  ConnectionsFollowConfig'
BY DEF ConnectionsFollowConfig

\* The steps of the task up to the attempt to connect.
LEMMA FollowService ==
  ASSUME TypeOK, DialInv, ConnectionsFollowConfig,
         \/ StartPass \/ ResetRuntime \/ Disabled \/ Offline \/ Online
         \/ SkipUnconnected \/ LoopLost \/ LoopQuiet \/ RouteReport \/ ApplyReport
         \/ PublishPushall \/ NoPushall \/ ChooseSlot \/ NoSlotDue
  PROVE  DialInv' /\ ConnectionsFollowConfig'
<1>1. CASE StartPass
  BY <1>1 DEF StartPass, DialInv, ConnectionsFollowConfig
<1>2. CASE ResetRuntime
  BY <1>2 DEF ResetRuntime, DialInv, ConnectionsFollowConfig, FreshConn
<1>3. CASE Disabled \/ Offline
  <2>1. PICK slots, session : pc = "branch" /\ DisconnectAndReturn(slots, session)
    BY <1>3 DEF Disabled, Offline
  <2>2. \A s \in Slots : conns'[s] = Closed(conns[s]) \/ conns'[s] = conns[s]
    BY <2>1 DEF DisconnectAndReturn
  <2>3. \A s \in Slots : Closed(conns[s]).link = "none"
    BY ConnFields DEF TypeOK
  <2>4. ConnectionsFollowConfig'
    <3>1. UNCHANGED <<config, observed>>
      BY <2>1 DEF DisconnectAndReturn
    <3>2. \A s \in Slots : conns'[s].link = "none" \/ (conns'[s] = conns[s] /\ conns[s].link # "none")
      BY <2>2, <2>3
    <3>. QED BY <2>1, <3>1, <3>2, FollowKept
  <2>. QED BY <2>1, <2>4 DEF DisconnectAndReturn, EndPass, DialInv
<1>4. CASE LoopLost
  <2>1. conns[slot] \in Conn
    BY <1>4, InUseSlots DEF LoopLost, TypeOK
  <2>2. Closed(AttemptedAtStart(Failed(conns[slot]))).link = "none"
    BY <2>1, LostFields DEF TypeOK
  <2>3. \A s \in Slots : conns'[s].link = "none" \/ (conns'[s] = conns[s] /\ conns[s].link # "none")
    BY <1>4, <2>2 DEF LoopLost, TypeOK
  <2>4. pc # "reset" /\ UNCHANGED <<config, observed>> /\ pc' # "dial"
    BY <1>4, NextSlotTypes DEF LoopLost
  <2>. QED BY <2>3, <2>4, FollowKept DEF DialInv
<1>5. CASE PublishPushall
  <2>1. conns[slot] \in Conn
    BY <1>5, InUseSlots DEF PublishPushall, TypeOK
  <2>2. LET c == [conns[slot] EXCEPT !.pending = FALSE]
        IN  c.link = conns[slot].link /\ c.account = conns[slot].account
              /\ c.serial = conns[slot].serial
    BY <2>1 DEF Conn
  <2>3. \A s \in Slots : /\ conns'[s].link = conns[s].link
                         /\ conns'[s].account = conns[s].account
                         /\ conns'[s].serial = conns[s].serial
    BY <1>5, <2>2 DEF PublishPushall, TypeOK
  <2>4. pc # "reset" /\ UNCHANGED <<config, observed>> /\ pc' # "dial"
    BY <1>5, NextSlotTypes DEF PublishPushall
  <2>. QED BY <2>3, <2>4, FollowKept DEF DialInv
<1>6. CASE \/ Online \/ SkipUnconnected \/ LoopQuiet \/ RouteReport \/ ApplyReport
           \/ NoPushall \/ ChooseSlot \/ NoSlotDue
  <2>1. pc # "reset" /\ UNCHANGED <<config, observed, conns>> /\ pc' # "dial"
    BY <1>6, NextSlotTypes DEF Online, SkipUnconnected, LoopQuiet, RouteReport, ApplyReport,
       NoPushall, ChooseSlot, NoSlotDue, EndPass, historyVars
  <2>. QED BY <2>1, FollowKept DEF DialInv
<1>. QED BY <1>1, <1>2, <1>3, <1>4, <1>5, <1>6

\* The attempt to connect.
LEMMA FollowConnect ==
  ASSUME TypeOK, DialInv, ConnectionsFollowConfig,
         SlotGone \/ BeginDial \/ DialWithoutMemory \/ DialFails \/ DialRefused \/ DialSucceeds
  PROVE  DialInv' /\ ConnectionsFollowConfig'
<1>1. /\ slot \in InUse(copy) /\ slot \in Slots /\ conns[slot] \in Conn /\ pc # "reset"
      /\ UNCHANGED <<config, observed>>
  BY InUseSlots DEF SlotGone, BeginDial, DialWithoutMemory, DialFails, DialRefused,
     DialSucceeds, DialEnds, TypeOK
<1>2. CASE SlotGone
  <2>. DEFINE c == Attempted(conns[slot])
  <2>0. /\ c.link = conns[slot].link /\ c.account = conns[slot].account
        /\ c.serial = conns[slot].serial /\ conns' = [conns EXCEPT ![slot] = c]
    BY <1>1, <1>2, ConnFields DEF SlotGone
  <2>. HIDE DEF c
  <2>1. \A s \in Slots : /\ conns'[s].link = conns[s].link
                         /\ conns'[s].account = conns[s].account
                         /\ conns'[s].serial = conns[s].serial
    BY <1>1, <2>0 DEF TypeOK
  <2>. QED BY <1>1, <1>2, <2>1, FollowKept DEF SlotGone, EndPass, DialInv
<1>3. CASE BeginDial
  <2>1. \A s \in Slots : conns'[s].link = "none" \/ (conns'[s] = conns[s] /\ conns[s].link # "none")
    BY <1>1, <1>3, ConnFields DEF BeginDial, TypeOK
  <2>2. DialInv'
    BY <1>3 DEF BeginDial, DialInv, SameConnectionSet
  <2>. QED BY <1>1, <2>1, <2>2, FollowKept
<1>4. ASSUME NEW c \in Conn, NEW v, DialEnds(c, v),
             c.link = conns[slot].link, c.account = conns[slot].account,
             c.serial = conns[slot].serial
      PROVE  DialInv' /\ ConnectionsFollowConfig'
  <2>1. \A s \in Slots : /\ conns'[s].link = conns[s].link
                         /\ conns'[s].account = conns[s].account
                         /\ conns'[s].serial = conns[s].serial
    BY <1>1, <1>4 DEF DialEnds, TypeOK
  <2>. QED BY <1>1, <1>4, <2>1, FollowKept DEF DialEnds, EndPass, DialInv
<1>5. CASE DialWithoutMemory \/ DialFails
  <2>. DEFINE c == Attempted(Failed(conns[slot]))
  <2>1. /\ c \in Conn /\ c.link = conns[slot].link /\ c.account = conns[slot].account
        /\ c.serial = conns[slot].serial
    BY <1>1, ConnTypes, ConnFields
  <2>2. PICK v : DialEnds(c, v)
    BY <1>5 DEF DialWithoutMemory, DialFails
  <2>. QED BY <1>4, <2>1, <2>2
<1>6. CASE DialRefused
  <2>. DEFINE d == Attempted(conns[slot])
              c == [d EXCEPT !.rejected = TRUE]
  <2>1. /\ d \in Conn /\ d.link = conns[slot].link /\ d.account = conns[slot].account
        /\ d.serial = conns[slot].serial
    BY <1>1, ConnTypes, ConnFields
  <2>2. PICK v : DialEnds(c, v)
    BY <1>6 DEF DialRefused
  <2>. HIDE DEF d
  <2>3. c \in Conn /\ c.link = d.link /\ c.account = d.account /\ c.serial = d.serial
    <3>1. c \in Conn
      BY <2>1, FieldTypes
    <3>. QED BY <2>1, <3>1 DEF Conn
  <2>. QED BY <1>4, <2>1, <2>2, <2>3
<1>7. CASE DialSucceeds
  <2>1. Attempted(conns[slot]) \in Conn
    BY <1>1, ConnTypes
  <2>2. conns'[slot].account = copy.account /\ conns'[slot].serial = Serial(copy, slot)
    BY <1>1, <1>7, <2>1 DEF DialSucceeds, DialEnds, Conn, TypeOK
  <2>3. \A s \in Slots \ {slot} : conns'[s] = conns[s]
    BY <1>7 DEF DialSucceeds, DialEnds, TypeOK
  <2>4. ~observed \/ /\ slot \in InUse(config) /\ copy.account = config.account
                     /\ Serial(copy, slot) = Serial(config, slot)
    BY <1>1, <1>7 DEF DialSucceeds, DialEnds, DialInv, SameConnectionSet, InUse, Serial
  <2>5. ConnectionsFollowConfig'
    BY <1>1, <2>2, <2>3, <2>4 DEF ConnectionsFollowConfig
  <2>. QED BY <1>7, <2>5 DEF DialSucceeds, DialEnds, EndPass, DialInv
<1>. QED BY <1>2, <1>3, <1>5, <1>6, <1>7

\* The steps of the loop and of the environment.
LEMMA FollowOutside ==
  ASSUME TypeOK, DialInv, ConnectionsFollowConfig,
         Loop \/ WifiChanges \/ (\E s \in Slots : LinkDies(s)) \/ Tick
  PROVE  DialInv' /\ ConnectionsFollowConfig'
<1>. USE DEF taskVars
<1>1. ASSUME NEW c \in Configs, ReplaceConfig(c) PROVE DialInv' /\ ConnectionsFollowConfig'
  <2>1. CASE ~SameConnectionSet(config, c)
    BY <1>1, <2>1 DEF ReplaceConfig, DialInv, ConnectionsFollowConfig
  <2>2. CASE SameConnectionSet(config, c)
    BY <1>1, <2>2 DEF ReplaceConfig, DialInv, ConnectionsFollowConfig, SameConnectionSet,
       InUse, Serial
  <2>. QED BY <2>1, <2>2
<1>2. ASSUME NEW index \in Slots, SelectPrinter(index) PROVE DialInv' /\ ConnectionsFollowConfig'
  <2>1. /\ config'.serials = config.serials
        /\ config'.enabled = config.enabled /\ config'.account = config.account
    BY <1>2 DEF SelectPrinter, TypeOK, ValidConfig, Config
  <2>. QED BY <1>2, <2>1 DEF SelectPrinter, DialInv, ConnectionsFollowConfig, SameConnectionSet,
       InUse, Serial
<1>3. CASE WifiChanges
  BY <1>3 DEF WifiChanges, DialInv, ConnectionsFollowConfig
<1>4. ASSUME NEW s \in Slots, LinkDies(s) PROVE DialInv' /\ ConnectionsFollowConfig'
  <2>1. LET c == [conns[s] EXCEPT !.link = "dead"]
        IN  c.account = conns[s].account /\ c.serial = conns[s].serial
    BY DEF TypeOK, Conn
  <2>2. \A t \in Slots : /\ conns[t].link = "none" => conns'[t].link = "none"
                         /\ conns'[t].account = conns[t].account
                         /\ conns'[t].serial = conns[t].serial
    BY <1>4, <2>1 DEF LinkDies, TypeOK
  <2>. QED BY <1>4, <2>2 DEF LinkDies, DialInv, ConnectionsFollowConfig
<1>5. CASE Tick
  <2>1. UNCHANGED <<config, observed, pc, copy>>
    BY <1>5 DEF Tick
  <2>2. \A s \in Slots : /\ conns'[s].link = conns[s].link
                         /\ conns'[s].account = conns[s].account
                         /\ conns'[s].serial = conns[s].serial
    BY <1>5, TickTypes
  <2>. QED BY <2>1, <2>2 DEF DialInv, ConnectionsFollowConfig
<1>. QED BY <1>1, <1>2, <1>3, <1>4, <1>5 DEF Loop

\* Every connection belongs to the account and the printer of the configuration, or
\* the task is going to close it in its next pass.
THEOREM Following == Spec => []ConnectionsFollowConfig
<1>1. Init => DialInv /\ ConnectionsFollowConfig
  BY DEF Init, DialInv, ConnectionsFollowConfig, FreshConn
<1>2. TypeOK /\ DialInv /\ ConnectionsFollowConfig /\ [Next]_vars
        => DialInv' /\ ConnectionsFollowConfig'
  <2>1. ASSUME DialInv, ConnectionsFollowConfig, UNCHANGED vars
        PROVE  DialInv' /\ ConnectionsFollowConfig'
    BY <2>1 DEF vars, taskVars, DialInv, ConnectionsFollowConfig
  <2>. QED BY <2>1, FollowService, FollowConnect, FollowOutside DEF Next, Process
<1>. QED BY <1>1, <1>2, Typing, PTL DEF Spec

-----------------------------------------------------------------------------
(* Refused tokens *)

\* A step that keeps the refused slots refused, counts no refusal, notices no
\* configuration and does not wake the task keeps the invariant.
LEMMA RefusalKept ==
  ASSUME RefusalInv, UNCHANGED <<refusals, observed>>,
         pc # "sleep" \/ pc' = "sleep", pc' # "reset",
         \A s \in Slots : conns[s].rejected => conns'[s].rejected,
         pc' \in {"connect", "dial"} => ~conns'[slot'].rejected
  PROVE  RefusalInv'
BY DEF RefusalInv

\* The steps of the task.
LEMMA RefusalProcess ==
  ASSUME TypeOK, RefusalInv, Process
  PROVE  RefusalInv'
<1>. USE DEF historyVars
<1>a. pc \in {"service", "apply", "pushall", "connect", "dial"} => slot \in Slots
  BY InUseSlots DEF TypeOK
<1>1. CASE StartPass
  BY <1>1 DEF StartPass, RefusalInv
<1>2. CASE ResetRuntime
  BY <1>2 DEF ResetRuntime, RefusalInv
<1>3. CASE Disabled \/ Offline
  <2>1. PICK slots, session : pc = "branch" /\ DisconnectAndReturn(slots, session)
    BY <1>3 DEF Disabled, Offline
  <2>2. \A s \in Slots : conns'[s].rejected = conns[s].rejected
    BY <2>1, ConnFields DEF DisconnectAndReturn, TypeOK
  <2>. QED BY <2>1, <2>2, RefusalKept DEF DisconnectAndReturn, EndPass
<1>4. CASE LoopLost
  <2>0. slot \in Slots /\ conns[slot] \in Conn
    BY <1>4, <1>a DEF LoopLost, TypeOK
  <2>1. Closed(AttemptedAtStart(Failed(conns[slot]))).rejected = conns[slot].rejected
    BY <2>0, LostFields DEF TypeOK
  <2>2. \A s \in Slots : conns'[s].rejected = conns[s].rejected
    BY <1>4, <2>1 DEF LoopLost, TypeOK
  <2>. QED BY <1>4, <2>2, NextSlotTypes, RefusalKept DEF LoopLost
<1>5. CASE PublishPushall
  <2>1. [conns[slot] EXCEPT !.pending = FALSE].rejected = conns[slot].rejected
    BY <1>5, <1>a DEF PublishPushall, TypeOK, Conn
  <2>2. \A s \in Slots : conns'[s].rejected = conns[s].rejected
    BY <1>5, <2>1 DEF PublishPushall, TypeOK
  <2>. QED BY <1>5, <2>2, NextSlotTypes, RefusalKept DEF PublishPushall
<1>6. CASE \/ Online \/ SkipUnconnected \/ LoopQuiet \/ RouteReport \/ ApplyReport
           \/ NoPushall \/ NoSlotDue
  <2>1. /\ pc # "sleep" /\ UNCHANGED <<observed, conns, refusals>>
        /\ pc' \notin {"connect", "dial", "reset"}
    BY <1>6, NextSlotTypes DEF Online, SkipUnconnected, LoopQuiet, RouteReport, ApplyReport,
       NoPushall, NoSlotDue, EndPass
  <2>. QED BY <2>1, RefusalKept
<1>7. CASE ChooseSlot
  BY <1>7, RefusalKept DEF ChooseSlot, Due
<1>8. CASE SlotGone
  <2>1. \A s \in Slots : conns'[s].rejected = conns[s].rejected
    BY <1>8, <1>a, ConnFields DEF SlotGone, TypeOK
  <2>. QED BY <1>8, <2>1, RefusalKept DEF SlotGone, EndPass
<1>9. CASE BeginDial
  <2>0. Closed(conns[slot]).rejected = conns[slot].rejected
    BY <1>9, <1>a, ConnFields DEF BeginDial, TypeOK
  <2>1. \A s \in Slots : conns'[s].rejected = conns[s].rejected
    BY <1>9, <2>0 DEF BeginDial, TypeOK
  <2>. QED BY <1>9, <1>a, <2>1, RefusalKept DEF BeginDial, RefusalInv
<1>10. CASE DialWithoutMemory \/ DialFails
  <2>. DEFINE c == Attempted(Failed(conns[slot]))
  <2>1. PICK v : DialEnds(c, v)
    BY <1>10 DEF DialWithoutMemory, DialFails
  <2>2. slot \in Slots /\ conns[slot] \in Conn
    BY <2>1, <1>a DEF DialEnds, TypeOK
  <2>3. c.rejected = conns[slot].rejected
    BY <2>2, ConnTypes, ConnFields
  <2>. HIDE DEF c
  <2>4. \A s \in Slots : conns'[s].rejected = conns[s].rejected
    BY <2>1, <2>2, <2>3 DEF DialEnds, TypeOK
  <2>. QED BY <1>10, <2>1, <2>4, RefusalKept DEF DialWithoutMemory, DialFails, DialEnds, EndPass
<1>11. CASE DialRefused
  <2>1. slot \in Slots /\ Attempted(conns[slot]) \in Conn /\ pc = "dial"
    BY <1>11, <1>a, ConnTypes DEF DialRefused, DialEnds, TypeOK
  <2>2. /\ conns'[slot].rejected /\ \A s \in Slots \ {slot} : conns'[s] = conns[s]
    BY <1>11, <2>1 DEF DialRefused, DialEnds, TypeOK, Conn
  <2>3. refusals[slot] \in {0, 1} /\ (refusals[slot] = 1 => observed)
    BY <2>1 DEF RefusalInv
  <2>4. /\ refusals'[slot] \in {refusals[slot], refusals[slot] + 1}
        /\ \A s \in Slots \ {slot} : refusals'[s] = refusals[s]
    BY <1>11, <2>1, <2>3 DEF DialRefused, TypeOK
  <2>. QED BY <1>11, <2>1, <2>2, <2>3, <2>4 DEF DialRefused, DialEnds, EndPass, RefusalInv
<1>12. CASE DialSucceeds
  <2>1. slot \in Slots /\ ~conns[slot].rejected
    BY <1>12, <1>a DEF DialSucceeds, DialEnds, RefusalInv
  <2>2. \A s \in Slots \ {slot} : conns'[s] = conns[s]
    BY <1>12 DEF DialSucceeds, DialEnds, TypeOK
  <2>. QED BY <1>12, <2>1, <2>2, RefusalKept DEF DialSucceeds, DialEnds, EndPass
<1>. QED BY <1>1, <1>2, <1>3, <1>4, <1>5, <1>6, <1>7, <1>8, <1>9, <1>10, <1>11, <1>12 DEF Process

\* The steps of the loop and of the environment.
LEMMA RefusalOutside ==
  ASSUME TypeOK, RefusalInv, Loop \/ WifiChanges \/ (\E s \in Slots : LinkDies(s)) \/ Tick
  PROVE  RefusalInv'
<1>. USE DEF taskVars, historyVars
<1>1. ASSUME NEW c \in Configs, ReplaceConfig(c) PROVE RefusalInv'
  BY <1>1 DEF ReplaceConfig, RefusalInv
<1>2. CASE WifiChanges \/ (\E index \in Slots : SelectPrinter(index))
  BY <1>2 DEF WifiChanges, SelectPrinter, RefusalInv
<1>3. ASSUME NEW s \in Slots, LinkDies(s) PROVE RefusalInv'
  <2>1. [conns[s] EXCEPT !.link = "dead"].rejected = conns[s].rejected
    BY DEF TypeOK, Conn
  <2>2. \A t \in Slots : conns'[t].rejected = conns[t].rejected
    BY <1>3, <2>1 DEF LinkDies, TypeOK
  <2>3. pc \in {"connect", "dial"} => slot \in Slots
    BY InUseSlots DEF TypeOK
  <2>. QED BY <1>3, <2>2, <2>3 DEF LinkDies, RefusalInv
<1>4. CASE Tick
  <2>1. \A t \in Slots : conns'[t].rejected = conns[t].rejected
    BY <1>4, TickTypes
  <2>2. pc \in {"connect", "dial"} => slot \in Slots
    BY InUseSlots DEF TypeOK
  <2>. QED BY <1>4, <2>1, <2>2 DEF Tick, RefusalInv
<1>. QED BY <1>1, <1>2, <1>3, <1>4 DEF Loop

\* A refused token is presented once more at the most.
THEOREM Latching == Spec => []RefusedTokenLatched
<1>1. Init => RefusalInv
  BY DEF Init, RefusalInv
<1>2. TypeOK /\ RefusalInv /\ [Next]_vars => RefusalInv'
  <2>1. ASSUME RefusalInv, UNCHANGED vars PROVE RefusalInv'
    BY <2>1 DEF vars, taskVars, historyVars, RefusalInv
  <2>. QED BY <2>1, RefusalProcess, RefusalOutside DEF Next
<1>3. RefusalInv => RefusedTokenLatched
  BY DEF RefusalInv, RefusedTokenLatched
<1>. QED BY <1>1, <1>2, <1>3, Typing, PTL DEF Spec

-----------------------------------------------------------------------------
(* Retry intervals *)

\* Every interval is within the bound on ages.
LEMMA IntervalTypes == ASSUME NEW c PROVE ReconnectInterval(c) \in 0..AgeCap
BY Bounds DEF ReconnectInterval

\* A step that keeps the ages and the times passed keeps the invariant.
LEMMA RestKept ==
  ASSUME RestInv, pc' # "connect", UNCHANGED <<rest, late>>,
         \A s \in Slots : /\ conns'[s].attempted = conns[s].attempted
                         /\ conns'[s].age = conns[s].age
  PROVE  RestInv'
BY DEF RestInv, Rested

\* So does one that takes the time of an attempt, or of a failed loop(), anew.
LEMMA RestAnew ==
  ASSUME TypeOK, RestInv, pc' # "connect", slot \in Slots, NEW c, c.attempted = TRUE,
         c.age \in Nat, conns' = [conns EXCEPT ![slot] = c],
         rest' = [rest EXCEPT ![slot] = 0], late' = [late EXCEPT ![slot] = c.age]
  PROVE  RestInv'
<1>1. \A s \in Slots \ {slot} : conns'[s] = conns[s] /\ rest'[s] = rest[s] /\ late'[s] = late[s]
  BY DEF TypeOK
<1>2. conns'[slot] = c /\ rest'[slot] = 0 /\ late'[slot] = c.age
  BY DEF TypeOK
<1>. QED BY <1>1, <1>2 DEF RestInv, Rested

\* The steps of the task.
LEMMA RestProcess ==
  ASSUME TypeOK, RestInv, Process
  PROVE  RestInv'
<1>. USE DEF historyVars
<1>a. pc \in {"service", "apply", "pushall", "connect", "dial"} =>
        slot \in Slots /\ conns[slot] \in Conn
  BY InUseSlots DEF TypeOK
<1>1. CASE ResetRuntime
  BY <1>1 DEF ResetRuntime, RestInv, Rested, FreshConn
<1>2. CASE Disabled \/ Offline
  <2>1. PICK slots, session : pc = "branch" /\ DisconnectAndReturn(slots, session)
    BY <1>2 DEF Disabled, Offline
  <2>2. \A s \in Slots : /\ conns'[s].attempted = conns[s].attempted
                         /\ conns'[s].age = conns[s].age
    BY <2>1, ConnFields DEF DisconnectAndReturn, TypeOK
  <2>. QED BY <2>1, <2>2, RestKept DEF DisconnectAndReturn, EndPass
<1>3. CASE LoopLost
  <2>. DEFINE c == Closed(AttemptedAtStart(Failed(conns[slot])))
  <2>0. lag \in 0..MaxLag /\ lag \in Nat /\ slot \in Slots /\ conns[slot] \in Conn
    BY <1>3, <1>a, Bounds DEF LoopLost, TypeOK
  <2>1. c.attempted = TRUE /\ c.age = lag
    BY <2>0, LostFields
  <2>2. /\ conns' = [conns EXCEPT ![slot] = c] /\ pc' # "connect"
        /\ rest' = [rest EXCEPT ![slot] = 0] /\ late' = [late EXCEPT ![slot] = c.age]
    BY <1>3, <2>1, NextSlotTypes DEF LoopLost
  <2>. HIDE DEF c
  <2>. QED BY <2>0, <2>1, <2>2, RestAnew
<1>4. CASE PublishPushall
  <2>1. LET c == [conns[slot] EXCEPT !.pending = FALSE]
        IN  c.attempted = conns[slot].attempted /\ c.age = conns[slot].age
    BY <1>4, <1>a DEF PublishPushall, Conn
  <2>2. \A s \in Slots : /\ conns'[s].attempted = conns[s].attempted
                         /\ conns'[s].age = conns[s].age
    BY <1>4, <2>1 DEF PublishPushall, TypeOK
  <2>. QED BY <1>4, <2>2, NextSlotTypes, RestKept DEF PublishPushall
<1>5. CASE \/ StartPass \/ Online \/ SkipUnconnected \/ LoopQuiet \/ RouteReport
           \/ ApplyReport \/ NoPushall \/ NoSlotDue
  <2>1. UNCHANGED <<conns, rest, late>> /\ pc' # "connect"
    BY <1>5, NextSlotTypes DEF StartPass, Online, SkipUnconnected, LoopQuiet, RouteReport,
       ApplyReport, NoPushall, NoSlotDue, EndPass
  <2>. QED BY <2>1, RestKept
<1>6. CASE ChooseSlot
  <2>1. PICK k \in InUse(copy) : slot' = Order(k) /\ Due(Order(k))
    BY <1>6 DEF ChooseSlot
  <2>2. slot' \in Slots
    <3>1. TypeOK'
      BY <1>6, ProcessTypes DEF Process
    <3>. QED BY <1>6, <3>1, InUseSlots DEF ChooseSlot, TypeOK
  <2>3. rest[slot'] + late[slot'] >= ReconnectInterval(conns[slot'])
    <3>1. /\ rest[slot'] \in Nat /\ late[slot'] \in Nat /\ lag \in Nat
          /\ conns[slot'] \in Conn /\ Rested(slot')
      BY <2>2, Bounds DEF TypeOK, RestInv
    <3>2. CASE conns[slot'].attempted
      <4>1. /\ conns[slot'].age - lag >= ReconnectInterval(conns[slot'])
            /\ conns[slot'].age <= rest[slot'] + late[slot']
        BY <2>1, <2>2, <3>1, <3>2 DEF Due, Rested
      <4>2. conns[slot'].age \in Nat
        BY <3>1, Bounds DEF Conn
      <4>. QED BY <3>1, <4>1, <4>2, IntervalTypes, Bounds
    <3>3. CASE ~conns[slot'].attempted
      BY <3>1, <3>3, IntervalTypes, Bounds DEF Rested
    <3>. QED BY <3>2, <3>3
  <2>. QED BY <1>6, <2>3 DEF ChooseSlot, RestInv, Rested, ReconnectInterval
<1>7. CASE SlotGone
  <2>. DEFINE c == Attempted(conns[slot])
  <2>1. slot \in Slots /\ c.attempted = TRUE /\ c.age = 0
    BY <1>7, <1>a, ConnFields DEF SlotGone
  <2>2. /\ conns' = [conns EXCEPT ![slot] = c] /\ pc' # "connect"
        /\ rest' = [rest EXCEPT ![slot] = 0] /\ late' = [late EXCEPT ![slot] = c.age]
    BY <1>7, <2>1 DEF SlotGone, EndPass, AttemptReturned
  <2>. HIDE DEF c
  <2>3. c.age \in Nat
    BY <2>1
  <2>. QED BY <2>1, <2>2, <2>3, RestAnew
<1>8. CASE BeginDial
  <2>1. LET c == Closed(conns[slot])
        IN  c.attempted = conns[slot].attempted /\ c.age = conns[slot].age
    BY <1>8, <1>a, ConnFields DEF BeginDial
  <2>2. \A s \in Slots : /\ conns'[s].attempted = conns[s].attempted
                         /\ conns'[s].age = conns[s].age
    BY <1>8, <2>1 DEF BeginDial, TypeOK
  <2>. QED BY <1>8, <2>2, RestKept DEF BeginDial
<1>9. ASSUME NEW c, NEW v, DialEnds(c, v), c.attempted = TRUE, c.age = 0 PROVE RestInv'
  <2>1. /\ slot \in Slots /\ conns' = [conns EXCEPT ![slot] = c] /\ pc' # "connect"
        /\ rest' = [rest EXCEPT ![slot] = 0] /\ late' = [late EXCEPT ![slot] = c.age]
    BY <1>9, <1>a DEF DialEnds, EndPass, AttemptReturned
  <2>2. c.age \in Nat
    BY <1>9
  <2>. QED BY <1>9, <2>1, <2>2, RestAnew
<1>10. CASE DialWithoutMemory \/ DialFails
  <2>. DEFINE c == Attempted(Failed(conns[slot]))
  <2>1. PICK v : DialEnds(c, v)
    BY <1>10 DEF DialWithoutMemory, DialFails
  <2>2. c.attempted = TRUE /\ c.age = 0
    BY <1>a, <2>1, ConnTypes, ConnFields DEF DialEnds
  <2>. HIDE DEF c
  <2>. QED BY <1>9, <2>1, <2>2
<1>11. CASE DialRefused \/ DialSucceeds
  <2>. DEFINE d == Attempted(conns[slot])
              refused == [d EXCEPT !.rejected = TRUE]
              done == [d EXCEPT !.link = "up", !.account = copy.account,
                                !.serial = Serial(copy, slot), !.fails = 0,
                                !.rejected = FALSE, !.pending = TRUE]
  <2>1. PICK v : DialEnds(refused, v) \/ DialEnds(done, v)
    BY <1>11 DEF DialRefused, DialSucceeds
  <2>2. d \in Conn /\ d.attempted = TRUE /\ d.age = 0
    BY <1>a, <2>1, ConnTypes, ConnFields DEF DialEnds
  <2>. HIDE DEF d
  <2>3. refused.attempted = TRUE /\ refused.age = 0
    BY <2>2 DEF Conn
  <2>4. done.attempted = TRUE /\ done.age = 0
    BY <2>2 DEF Conn
  <2>. HIDE DEF refused, done
  <2>. QED BY <1>9, <2>1, <2>3, <2>4
<1>. QED BY <1>1, <1>2, <1>3, <1>4, <1>5, <1>6, <1>7, <1>8, <1>10, <1>11 DEF Process

\* The steps of the loop and of the environment.
LEMMA RestOutside ==
  ASSUME TypeOK, RestInv, Loop \/ WifiChanges \/ (\E s \in Slots : LinkDies(s)) \/ Tick
  PROVE  RestInv'
<1>. USE DEF taskVars, historyVars
<1>1. CASE Loop \/ WifiChanges
  BY <1>1 DEF Loop, ReplaceConfig, SelectPrinter, WifiChanges, RestInv, Rested, ReconnectInterval
<1>2. ASSUME NEW s \in Slots, LinkDies(s) PROVE RestInv'
  <2>1. LET c == [conns[s] EXCEPT !.link = "dead"]
        IN  c.attempted = conns[s].attempted /\ c.age = conns[s].age /\ c.fails = conns[s].fails
    BY DEF TypeOK, Conn
  <2>2. \A t \in Slots : /\ conns'[t].attempted = conns[t].attempted
                         /\ conns'[t].age = conns[t].age /\ conns'[t].fails = conns[t].fails
    BY <1>2, <2>1 DEF LinkDies, TypeOK
  <2>3. pc = "connect" => slot \in Slots
    BY InUseSlots DEF TypeOK
  <2>. QED BY <1>2, <2>2, <2>3 DEF LinkDies, RestInv, Rested, ReconnectInterval
<1>3. CASE Tick
  <2>1. pc' # "connect"
    BY <1>3 DEF Tick
  <2>2. ASSUME NEW s \in Slots PROVE Rested(s)'
    <3>1. /\ rest'[s] = Older(rest[s], AgeCap) /\ rest[s] \in 0..AgeCap
          /\ late'[s] = late[s] /\ late[s] \in 0..MaxLag
      BY <1>3 DEF Tick, TypeOK
    <3>a. late[s] \in Nat /\ conns[s].age \in 0..AgeCap
      BY <3>1, Bounds DEF TypeOK, Conn
    <3>2. Rested(s)
      BY DEF RestInv
    <3>. QED BY <1>3, <3>1, <3>a, <3>2, TickTypes, Bounds DEF Rested, Older
  <2>. QED BY <2>1, <2>2 DEF RestInv
<1>. QED BY <1>1, <1>2, <1>3

\* No slot dials before its full interval has passed since its last attempt returned, or
\* since the pass began in which loop() found its connection lost (process()).
THEOREM Resting == Spec => RetryAfterInterval
<1>1. Init => RestInv
  BY DEF Init, RestInv, Rested, FreshConn
<1>2. TypeOK /\ RestInv /\ [Next]_vars => RestInv'
  <2>1. ASSUME RestInv, UNCHANGED vars PROVE RestInv'
    BY <2>1 DEF vars, taskVars, historyVars, RestInv, Rested, ReconnectInterval
  <2>. QED BY <2>1, RestProcess, RestOutside DEF Next
<1>3. RestInv => [pc = "connect" /\ pc' = "dial"
                     => rest[slot] + late[slot] >= ReconnectInterval(conns[slot])]_vars
  BY DEF RestInv
<1>. QED BY <1>1, <1>2, <1>3, Typing, PTL DEF Spec, RetryAfterInterval
-----------------------------------------------------------------------------
(* The request for the full state *)

\* A slot that has asked on its connection is not to ask again, and has waited; one that
\* dials has not asked.
PushallInv ==
  /\ \A s \in Slots : /\ asked[s] \in {0, 1}
                      /\ asked[s] = 1 => ~conns[s].pending /\ conns[s].up >= PushallDelay
  /\ pc = "dial" => asked[slot] = 0

\* A step that asks nothing, and keeps what is pending and how long the slots are up.
LEMMA PushallKept ==
  ASSUME PushallInv, UNCHANGED asked, pc' = "dial" => pc = "dial" /\ slot' = slot,
         \A s \in Slots : conns'[s].pending = conns[s].pending /\ conns'[s].up = conns[s].up
  PROVE  PushallInv'
BY DEF PushallInv

\* A step after which the slots it touches have not asked on their connections.
LEMMA PushallCleared ==
  ASSUME TypeOK, PushallInv, pc' # "dial" \/ asked'[slot'] = 0, NEW slots \in SUBSET Slots,
         \A s \in slots : asked'[s] = 0,
         \A s \in Slots \ slots : asked'[s] = asked[s] /\ conns'[s] = conns[s]
  PROVE  PushallInv'
BY DEF PushallInv

\* The steps of the task.
LEMMA PushallProcess ==
  ASSUME TypeOK, PushallInv, Process
  PROVE  PushallInv'
<1>. USE DEF historyVars
<1>a. pc \in {"service", "apply", "pushall", "connect", "dial"} => slot \in Slots
  BY InUseSlots DEF TypeOK
<1>1. CASE \/ StartPass \/ Online \/ SkipUnconnected \/ LoopQuiet \/ RouteReport
           \/ ApplyReport \/ NoPushall \/ NoSlotDue \/ ChooseSlot
  <2>1. UNCHANGED <<conns, asked>> /\ pc' # "dial"
    BY <1>1, NextSlotTypes DEF StartPass, Online, SkipUnconnected, LoopQuiet, RouteReport,
       ApplyReport, NoPushall, NoSlotDue, ChooseSlot, EndPass
  <2>. QED BY <2>1, PushallKept
<1>2. CASE ResetRuntime
  <2>1. pc' # "dial" /\ \A s \in Slots : asked'[s] = 0
    BY <1>2 DEF ResetRuntime
  <2>. QED BY <2>1 DEF PushallInv
<1>3. CASE Disabled \/ Offline
  <2>0. PICK slots \in SUBSET Slots : \E session : DisconnectAndReturn(slots, session)
    BY <1>3, InUseSlots DEF Disabled, Offline, TypeOK
  <2>1. PICK session : DisconnectAndReturn(slots, session)
    BY <2>0
  <2>2. /\ \A s \in slots : asked'[s] = 0
        /\ \A s \in Slots \ slots : asked'[s] = asked[s] /\ conns'[s] = conns[s]
    BY <2>1 DEF DisconnectAndReturn
  <2>. QED BY <2>1, <2>2, PushallCleared DEF DisconnectAndReturn, EndPass
<1>4. CASE LoopLost \/ BeginDial
  <2>1. slot \in Slots
    BY <1>4, <1>a DEF LoopLost, BeginDial
  <2>2. /\ asked'[slot] = 0
        /\ \A s \in Slots \ {slot} : asked'[s] = asked[s] /\ conns'[s] = conns[s]
    BY <1>4, <2>1 DEF LoopLost, BeginDial, TypeOK
  <2>3. pc' # "dial" \/ asked'[slot'] = 0
    BY <1>4, <2>2, NextSlotTypes DEF LoopLost, BeginDial
  <2>4. {slot} \in SUBSET Slots /\ \A s \in {slot} : asked'[s] = 0
    BY <2>1, <2>2
  <2>. QED BY <2>2, <2>3, <2>4, PushallCleared
<1>5. CASE PublishPushall
  <2>1. /\ slot \in Slots /\ asked[slot] = 0 /\ conns[slot].up >= PushallDelay
    <3>1. slot \in Slots /\ asked[slot] = 0 /\ conns[slot].up - lag >= PushallDelay
      BY <1>5, <1>a DEF PublishPushall, PushallDue, PushallInv
    <3>2. conns[slot].up \in Nat /\ lag \in Nat
      BY <3>1, Bounds DEF TypeOK, Conn
    <3>. QED BY <3>1, <3>2, Bounds
  <2>2. LET c == [conns[slot] EXCEPT !.pending = FALSE]
        IN  ~c.pending /\ c.up = conns[slot].up
    BY <2>1 DEF TypeOK, Conn
  <2>3. /\ asked'[slot] = 1 /\ ~conns'[slot].pending /\ conns'[slot].up = conns[slot].up
        /\ \A s \in Slots \ {slot} : asked'[s] = asked[s] /\ conns'[s] = conns[s]
    BY <1>5, <2>1, <2>2 DEF PublishPushall, TypeOK
  <2>4. pc' # "dial"
    BY <1>5, NextSlotTypes DEF PublishPushall
  <2>. QED BY <2>1, <2>3, <2>4 DEF PushallInv
<1>6. CASE SlotGone
  <2>1. slot \in Slots /\ conns[slot] \in Conn
    BY <1>6, <1>a DEF SlotGone, TypeOK
  <2>2. Attempted(conns[slot]).pending = conns[slot].pending /\ Attempted(conns[slot]).up = conns[slot].up
    BY <2>1 DEF Attempted, Conn
  <2>3. \A s \in Slots : conns'[s].pending = conns[s].pending /\ conns'[s].up = conns[s].up
    BY <1>6, <2>2 DEF SlotGone, TypeOK
  <2>. QED BY <1>6, <2>3, PushallKept DEF SlotGone, EndPass
<1>7. CASE DialWithoutMemory \/ DialFails \/ DialRefused \/ DialSucceeds
  <2>1. PICK c, v : DialEnds(c, v)
    BY <1>7 DEF DialWithoutMemory, DialFails, DialRefused, DialSucceeds
  <2>2. slot \in Slots /\ asked'[slot] = 0 /\ asked' = asked /\ pc' # "dial"
    BY <1>a, <2>1 DEF DialEnds, EndPass, PushallInv
  <2>3. \A s \in Slots \ {slot} : conns'[s] = conns[s]
    BY <2>1 DEF DialEnds, TypeOK
  <2>4. {slot} \in SUBSET Slots /\ \A s \in {slot} : asked'[s] = 0
    BY <2>2
  <2>. QED BY <2>2, <2>3, <2>4, PushallCleared
<1>. QED BY <1>1, <1>2, <1>3, <1>4, <1>5, <1>6, <1>7 DEF Process

\* The steps of the loop and of the environment.
LEMMA PushallOutside ==
  ASSUME TypeOK, PushallInv, Loop \/ WifiChanges \/ (\E s \in Slots : LinkDies(s)) \/ Tick
  PROVE  PushallInv'
<1>. USE DEF taskVars, historyVars
<1>1. CASE Loop \/ WifiChanges
  BY <1>1 DEF Loop, ReplaceConfig, SelectPrinter, WifiChanges, PushallInv
<1>2. ASSUME NEW s \in Slots, LinkDies(s) PROVE PushallInv'
  <2>1. LET c == [conns[s] EXCEPT !.link = "dead"]
        IN  c.pending = conns[s].pending /\ c.up = conns[s].up
    BY DEF TypeOK, Conn
  <2>2. \A t \in Slots : conns'[t].pending = conns[t].pending /\ conns'[t].up = conns[t].up
    BY <1>2, <2>1 DEF LinkDies, TypeOK
  <2>. QED BY <1>2, <2>2, PushallKept DEF LinkDies
<1>3. CASE Tick
  <2>1. ASSUME NEW s \in Slots
        PROVE  conns'[s].pending = conns[s].pending
               /\ (conns[s].up >= PushallDelay => conns'[s].up >= PushallDelay)
    <3>. DEFINE a == IF conns[s].attempted THEN Older(conns[s].age, AgeCap) ELSE conns[s].age
                u == IF conns[s].link = "none" THEN conns[s].up ELSE Older(conns[s].up, PushallDelay + MaxLag)
    <3>1. conns[s] \in Conn /\ conns'[s] = [conns[s] EXCEPT !.age = a, !.up = u]
      BY <1>3 DEF Tick, TypeOK
    <3>2. conns[s].up >= PushallDelay => u >= PushallDelay
      BY <3>1, Bounds DEF Conn, Older
    <3>. HIDE DEF a, u
    <3>3. conns'[s].pending = conns[s].pending /\ conns'[s].up = u
      BY <3>1 DEF Conn
    <3>. QED BY <3>2, <3>3
  <2>. QED BY <1>3, <2>1 DEF Tick, PushallInv
<1>. QED BY <1>1, <1>2, <1>3 DEF Loop

\* A connection asks for the full state at most once, and not before the delay, however
\* often it is lost, closed and dialled again (publishInitialPushall() in process()).
THEOREM AskingOnce == Spec => []PushallOnce
<1>1. Init => PushallInv
  BY DEF Init, PushallInv
<1>2. TypeOK /\ PushallInv /\ [Next]_vars => PushallInv'
  <2>1. ASSUME PushallInv, UNCHANGED vars PROVE PushallInv'
    BY <2>1 DEF vars, taskVars, historyVars, PushallInv
  <2>. QED BY <2>1, PushallProcess, PushallOutside DEF Next
<1>3. PushallInv => PushallOnce
  BY DEF PushallInv, PushallOnce
<1>. QED BY <1>1, <1>2, <1>3, Typing, PTL DEF Spec
=============================================================================
