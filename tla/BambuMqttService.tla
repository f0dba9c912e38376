-------------------------- MODULE BambuMqttService --------------------------
(***************************************************************************)
(* BambuMqttService (src/network/BambuMqttService.cpp): the bambu-mqtt task  *)
(* keeps one Cloud MQTT connection per configured printer, while the Arduino *)
(* loop replaces the configuration and reads what is to be shown.            *)
(*                                                                         *)
(* A pass of the task, process(), is split where it takes and releases       *)
(* mutex_ or blocks on the network: the loop may act between any two steps.  *)
(* Updates made under a lock that is waited for at most 100 ms may be lost   *)
(* while the loop holds it to write the flash.  Time passes while the task   *)
(* sleeps, while loop() or publish() blocks in the course of a pass, and     *)
(* while it dials.  Timestamps are kept as ages; nowMs, which a pass reads    *)
(* once and then goes on using, is kept as its lag behind the clock.         *)
(*                                                                         *)
(* A configuration is reduced to what the task tells apart: account stands   *)
(* for region, token and user id, serials for the printers.  Contents of     *)
(* reports are reduced to the printers they came from.                       *)
(***************************************************************************)
EXTENDS Integers, Sequences, FiniteSets

CONSTANTS
  PrinterCount,    \* BambuConfigLimits::PRINTER_COUNT
  Serials, NoSerial,
  Accounts, NoAccount,
  Configs,         \* bound: the configurations the portal saves
  BaseInterval, Phase2Interval, Phase3Interval,  \* reconnectIntervalMs()
  Phase1Fails, Phase3Fails,
  PushallDelay,    \* BAMBU_PUSHALL_INITIAL_DELAY_MS
  AgeCap,          \* bound: ages saturate here
  MaxDial,         \* bound: how long a connection attempt takes
  MaxLag,          \* bound: how long a pass takes to serve the connected slots
  MaxLost,         \* bound: how many timed updates are lost
  DialOutcomes     \* what attempts may end in

Slots   == 0..PrinterCount - 1
Config  == [enabled : BOOLEAN, account : Accounts \cup {NoAccount},
            serials : Seq(Serials), active : Nat]
InUse(c) == 0..Len(c.serials) - 1
Serial(c, slot) == c.serials[slot + 1]

\* validateBambuConfig(); replaceConfig() and decode() accept nothing else.
ValidConfig(c) ==
  /\ c \in Config
  /\ Len(c.serials) <= PrinterCount
  /\ \A s, t \in InUse(c) : Serial(c, s) = Serial(c, t) => s = t
  /\ c.active \in InUse(c) \cup (IF c.serials = <<>> THEN {0} ELSE {})
  /\ c.enabled => c.account # NoAccount /\ c.serials # <<>>

ASSUME BambuAssumption ==
  /\ PrinterCount \in Nat \ {0}
  /\ NoAccount \notin Accounts /\ NoSerial \notin Serials
  /\ Configs # {} /\ \A c \in Configs : ValidConfig(c)
  /\ {BaseInterval, Phase2Interval, Phase3Interval, Phase1Fails, Phase3Fails,
      PushallDelay, AgeCap, MaxDial, MaxLag, MaxLost} \subseteq Nat
  /\ Phase1Fails <= Phase3Fails
  /\ \A n \in {BaseInterval, Phase2Interval, Phase3Interval} : n + MaxLag <= AgeCap
  /\ DialOutcomes \subseteq {"OK", "REFUSED", "FAILED", "NO_MEMORY"}

NoSlot == PrinterCount
Sessions == {"UNCONFIGURED", "INTEGRATION_DISABLED", "MQTT_CONNECTING", "ONLINE",
             "NETWORK_ERROR", "TOKEN_INVALID", "BUFFER_ERROR"}

\* A slot of states_ and conns_[].status: the printers whose reports have been merged
\* into it, and what the screen says of the connection.  states_[].connected is
\* written together with mqttConnected and is not kept apart.
Shown == [from : SUBSET Serials, session : Sessions, mqttConnected : BOOLEAN]

\* MqttConn.  link is "up" while mqtt->connected(), "dead" when the peer has gone
\* and the objects are still there; account and serial are those it was made with.
Conn == [link : {"none", "up", "dead"}, account : Accounts \cup {NoAccount},
         serial : Serials \cup {NoSerial}, attempted : BOOLEAN, rejected : BOOLEAN,
         pending : BOOLEAN, fails : 0..Phase3Fails, age : 0..AgeCap,
         up : 0..PushallDelay + MaxLag]

VARIABLES
  config,     \* config_
  observed,   \* observedExternalConfigRevision_ = externalConfigRevision_
  conns,      \* conns_, touched by the task only
  shown,      \* states_ and conns_[].status
  wifi,
  pc,         \* where in process() the task is
  copy,       \* its copy of the configuration
  slot,       \* the slot it works on
  report,     \* the serial of the report being handled, and the slot it was routed to
  dialed,     \* how long it has been dialling
  rested,     \* time has passed since the last pass
  lag,        \* how far the nowMs of the pass is behind, until it is last used
  lost,       \* bound: timed updates lost so far
  refusals,   \* history: refused attempts of a slot with the current configuration
  rest,       \* history: time since the last attempt or failed loop() of a slot returned
  late,       \* history: how late in its pass that was, for a failed loop()
  asked       \* history: pushalls published on the connection of a slot

taskVars    == <<pc, copy, slot, report, dialed, rested, lag>>
historyVars == <<refusals, rest, late, asked>>
vars == <<config, observed, conns, shown, wifi, taskVars, lost, historyVars>>

NoReport  == [serial |-> NoSerial, slot |-> NoSlot]
FreshConn == [link |-> "none", account |-> NoAccount, serial |-> NoSerial,
              attempted |-> FALSE, rejected |-> FALSE, pending |-> FALSE,
              fails |-> 0, age |-> 0, up |-> 0]

-----------------------------------------------------------------------------
(* Fault variants *)

\* sameConnectionSet() that does not compare the printers.
SameCredentials(c, d) == c.enabled = d.enabled /\ c.account = d.account

\* markAttemptComplete() that does not take the time.
AttemptedUntimed(c) == [c EXCEPT !.attempted = TRUE]

\* The session is left alone when a connection goes.
DownKeepsSession(v, session) == [v EXCEPT !.mqttConnected = FALSE]

\* The pushall is published as long as the connection lasts.
PushallAlwaysDue == conns[slot].link = "up" /\ conns[slot].up - lag >= PushallDelay

\* A slot whose token was refused is tried again.
DueWhenRejected(s) ==
  /\ conns[s].link # "up"
  /\ ~conns[s].attempted \/ conns[s].age - lag >= BaseInterval

\* A slot is tried again in the next pass.
DueAtOnce(s) == conns[s].link # "up" /\ ~conns[s].rejected

-----------------------------------------------------------------------------
(* Helpers *)

\* reconnectIntervalMs()
ReconnectInterval(c) ==
  IF c.fails >= Phase3Fails THEN Phase3Interval
  ELSE IF c.fails >= Phase1Fails THEN Phase2Interval
  ELSE BaseInterval

\* disconnectSlot(), what it does to the slot's MqttConn.
Closed(c) == [c EXCEPT !.link = "none", !.account = NoAccount, !.serial = NoSerial,
                       !.pending = FALSE, !.up = 0]

\* ++consecutiveFails; a count beyond Phase3Fails makes no difference.
Failed(c) == [c EXCEPT !.fails = IF @ < Phase3Fails THEN @ + 1 ELSE @]

\* markAttemptComplete()
Attempted(c) == [c EXCEPT !.age = 0, !.attempted = TRUE]

\* The same after a failed loop(), with nowMs: the time since the pass began counts.
AttemptedAtStart(c) == [c EXCEPT !.age = lag, !.attempted = TRUE]

\* sameConnectionSet()
SameConnectionSet(c, d) ==
  c.enabled = d.enabled /\ c.account = d.account /\ c.serials = d.serials

\* setSlotConnectivity(), setSlotSession()
Connectivity(v, on)  == [v EXCEPT !.mqttConnected = on]
Session(v, session)  == [v EXCEPT !.session = session]
Down(v, session)     == Session(Connectivity(v, FALSE), session)

\* The timed updates of a step: shown becomes new, except for the slots whose
\* update was given up because the loop held mutex_ for too long.
Show(new) ==
  \E given \in SUBSET {s \in Slots : new[s] # shown[s]} :
    /\ lost' = lost + Cardinality(given)
    /\ lost' <= MaxLost
    /\ shown' = [s \in Slots |-> IF s \in given THEN shown[s] ELSE new[s]]

\* How a configuration starts out on the screen, in resetSlotRuntime().
ResetSession(c, s) ==
  IF ~c.enabled THEN "INTEGRATION_DISABLED"
  ELSE IF s \in InUse(c) THEN "MQTT_CONNECTING"
  ELSE "UNCONFIGURED"

\* findSlotForTopic()
SlotOf(serial) ==
  IF \E s \in InUse(config) : Serial(config, s) = serial
  THEN CHOOSE s \in InUse(config) : Serial(config, s) = serial
  ELSE NoSlot

EndPass == pc' = "sleep" /\ lag' = 0 /\ UNCHANGED rested

-----------------------------------------------------------------------------
(* The Arduino loop *)

\* replaceConfig() with a configuration that is valid and could be saved.
ReplaceConfig(c) ==
  /\ c # config
  /\ config' = c
  /\ IF SameConnectionSet(config, c)
     THEN UNCHANGED <<observed, shown, refusals>>
     ELSE /\ observed' = FALSE
          /\ shown' = [s \in Slots |->
               [from |-> {}, mqttConnected |-> FALSE,
                session |-> IF c.enabled THEN "MQTT_CONNECTING" ELSE "INTEGRATION_DISABLED"]]
          /\ refusals' = [s \in Slots |-> 0]
  /\ UNCHANGED <<conns, wifi, taskVars, lost, rest, late, asked>>

\* cycleActivePrinter(), and the page changes that call replaceConfig() with another
\* active printer.
SelectPrinter(index) ==
  /\ index \in InUse(config) \ {config.active}
  /\ config' = [config EXCEPT !.active = index]
  /\ UNCHANGED <<observed, conns, shown, wifi, taskVars, lost, historyVars>>

-----------------------------------------------------------------------------
(* process(): the start of a pass *)

\* configCopy(), and the comparison of the revisions.
StartPass ==
  /\ pc = "sleep"
  /\ copy' = config
  /\ observed' = TRUE
  /\ pc' = IF observed THEN "branch" ELSE "reset"
  /\ rested' = FALSE
  /\ UNCHANGED <<config, conns, shown, wifi, slot, report, dialed, lag, lost, historyVars>>

\* disconnectAll() and resetSlotRuntime() for every slot.
ResetRuntime ==
  /\ pc = "reset"
  /\ conns' = [s \in Slots |-> FreshConn]
  /\ shown' = [s \in Slots |-> [shown[s] EXCEPT !.mqttConnected = FALSE,
                                                !.session = ResetSession(copy, s)]]
  /\ rest' = [s \in Slots |-> AgeCap]
  /\ late' = [s \in Slots |-> 0]
  /\ asked' = [s \in Slots |-> 0]
  /\ pc' = "branch"
  /\ UNCHANGED <<config, observed, wifi, copy, slot, report, dialed, rested, lag, lost, refusals>>

\* disconnectSlot() and setSlotSession() for some slots, and the end of the pass.
DisconnectAndReturn(slots, session) ==
  /\ conns' = [s \in Slots |-> IF s \in slots THEN Closed(conns[s]) ELSE conns[s]]
  /\ asked' = [s \in Slots |-> IF s \in slots THEN 0 ELSE asked[s]]
  /\ Show([s \in Slots |-> IF s \in slots THEN Down(shown[s], session) ELSE shown[s]])
  /\ EndPass
  /\ UNCHANGED <<config, observed, wifi, copy, slot, report, dialed, refusals, rest, late>>

Disabled == pc = "branch" /\ ~copy.enabled /\ DisconnectAndReturn(Slots, "INTEGRATION_DISABLED")

Offline == /\ pc = "branch" /\ copy.enabled /\ ~wifi
           /\ DisconnectAndReturn(InUse(copy), "NETWORK_ERROR")

Online ==
  /\ pc = "branch" /\ copy.enabled /\ wifi
  /\ pc' = "service" /\ slot' = 0
  /\ UNCHANGED <<config, observed, conns, shown, wifi, copy, report, dialed, rested, lag, lost,
                 historyVars>>

-----------------------------------------------------------------------------
(* process(): the connected slots *)

\* On to the next slot, or to the attempts after the last one.
NextSlot == /\ pc' = IF slot + 1 \in InUse(copy) THEN "service" ELSE "attempt"
            /\ slot' = IF slot + 1 \in InUse(copy) THEN slot + 1 ELSE NoSlot

SkipUnconnected ==
  /\ pc = "service" /\ conns[slot].link # "up"
  /\ NextSlot
  /\ UNCHANGED <<config, observed, conns, shown, wifi, copy, report, dialed, rested, lag, lost,
                 historyVars>>

\* loop() returns false, perhaps after a while.
LoopLost ==
  /\ pc = "service" /\ conns[slot].link = "up"
  /\ conns' = [conns EXCEPT ![slot] = Closed(AttemptedAtStart(Failed(@)))]
  /\ Show([shown EXCEPT ![slot] = Down(@, "NETWORK_ERROR")])
  /\ rest' = [rest EXCEPT ![slot] = 0]
  /\ late' = [late EXCEPT ![slot] = lag]
  /\ asked' = [asked EXCEPT ![slot] = 0]
  /\ NextSlot
  /\ UNCHANGED <<config, observed, wifi, copy, report, dialed, rested, lag, refusals>>

\* loop() returns true without a report.
LoopQuiet ==
  /\ pc = "service" /\ conns[slot].link = "up"
  /\ pc' = "pushall"
  /\ UNCHANGED <<config, observed, conns, shown, wifi, copy, slot, report, dialed, rested, lag, lost,
                 historyVars>>

\* loop() calls back with a report of the printer subscribed to: handleMessage() looks
\* the topic up in the configuration, and releases mutex_.
RouteReport ==
  /\ pc = "service" /\ conns[slot].link = "up"
  /\ SlotOf(conns[slot].serial) # NoSlot
  /\ report' = [serial |-> conns[slot].serial, slot |-> SlotOf(conns[slot].serial)]
  /\ pc' = "apply"
  /\ UNCHANGED <<config, observed, conns, shown, wifi, copy, slot, dialed, rested, lag, lost,
                 historyVars>>

\* It takes mutex_ again, in time or not, and merges the report.
ApplyReport ==
  /\ pc = "apply"
  /\ Show([shown EXCEPT ![report.slot] =
       [from |-> @.from \cup {report.serial}, session |-> "ONLINE", mqttConnected |-> TRUE]])
  /\ report' = NoReport
  /\ pc' = "pushall"
  /\ UNCHANGED <<config, observed, conns, wifi, copy, slot, dialed, rested, lag, historyVars>>

PushallDue ==
  conns[slot].link = "up" /\ conns[slot].pending /\ conns[slot].up - lag >= PushallDelay

\* publishInitialPushall(), which may fail or find the slot unconfigured.
PublishPushall ==
  /\ pc = "pushall" /\ PushallDue
  /\ slot \in InUse(config)
  /\ conns' = [conns EXCEPT ![slot].pending = FALSE]
  /\ asked' = [asked EXCEPT ![slot] = IF @ < 2 THEN @ + 1 ELSE @]
  /\ NextSlot
  /\ UNCHANGED <<config, observed, shown, wifi, copy, report, dialed, rested, lag, lost, refusals, rest,
                 late>>

NoPushall ==
  /\ pc = "pushall"
  /\ NextSlot
  /\ UNCHANGED <<config, observed, conns, shown, wifi, copy, report, dialed, rested, lag, lost,
                 historyVars>>

-----------------------------------------------------------------------------
(* process(): at most one attempt to connect *)

\* The slots in the order in which they are tried: the active printer first.
Order(k) == (copy.active + k) % Len(copy.serials)

Due(s) ==
  /\ conns[s].link # "up" /\ ~conns[s].rejected
  /\ ~conns[s].attempted \/ conns[s].age - lag >= ReconnectInterval(conns[s])

\* What the walk over the slots tells of those it passes.
Passed(s) ==
  IF conns[s].link = "up" THEN shown[s]
  ELSE IF conns[s].rejected THEN Session(shown[s], "TOKEN_INVALID")
  ELSE Connectivity(shown[s], FALSE)

ChooseSlot ==
  /\ pc = "attempt"
  /\ \E k \in InUse(copy) :
       /\ Due(Order(k)) /\ \A j \in 0..k - 1 : ~Due(Order(j))
       /\ slot' = Order(k)
       /\ Show([s \in Slots |-> IF s \in {Order(j) : j \in 0..k} THEN Passed(s) ELSE shown[s]])
  /\ pc' = "connect" /\ lag' = 0
  /\ UNCHANGED <<config, observed, conns, wifi, copy, report, dialed, rested, historyVars>>

NoSlotDue ==
  /\ pc = "attempt"
  /\ \A s \in InUse(copy) : ~Due(s)
  /\ Show([s \in Slots |-> IF s \in InUse(copy) THEN Passed(s) ELSE shown[s]])
  /\ EndPass
  /\ UNCHANGED <<config, observed, conns, wifi, copy, slot, report, dialed, historyVars>>

AttemptReturned == /\ rest' = [rest EXCEPT ![slot] = 0]
                   /\ late' = [late EXCEPT ![slot] = 0]

\* connectSlot(): it copies the configuration again, which may have changed.
SlotGone ==
  /\ pc = "connect"
  /\ slot \notin InUse(config) \/ config.account = NoAccount
  /\ conns' = [conns EXCEPT ![slot] = Attempted(@)]
  /\ Show([shown EXCEPT ![slot] = Session(@, "UNCONFIGURED")])
  /\ AttemptReturned
  /\ slot' = NoSlot
  /\ EndPass
  /\ UNCHANGED <<config, observed, wifi, copy, report, dialed, refusals, asked>>

BeginDial ==
  /\ pc = "connect"
  /\ slot \in InUse(config) /\ config.account # NoAccount
  /\ copy' = config
  /\ conns' = [conns EXCEPT ![slot] = Closed(@)]
  /\ asked' = [asked EXCEPT ![slot] = 0]
  /\ Show([shown EXCEPT ![slot] = Down(@, "MQTT_CONNECTING")])
  /\ pc' = "dial"
  /\ UNCHANGED <<config, observed, wifi, slot, report, dialed, rested, lag, refusals, rest, late>>

\* The attempt returns.
DialEnds(c, v) ==
  /\ pc = "dial"
  /\ AttemptReturned
  /\ conns' = [conns EXCEPT ![slot] = c]
  /\ Show([shown EXCEPT ![slot] = v])
  /\ dialed' = 0
  /\ slot' = NoSlot
  /\ EndPass
  /\ UNCHANGED <<config, observed, wifi, copy, report, asked>>

\* An object or the buffer could not be allocated.
DialWithoutMemory ==
  /\ "NO_MEMORY" \in DialOutcomes
  /\ DialEnds(Attempted(Failed(conns[slot])), Down(shown[slot], "BUFFER_ERROR"))
  /\ UNCHANGED refusals

\* connect() fails, or subscribe() does.
DialFails ==
  /\ "FAILED" \in DialOutcomes
  /\ DialEnds(Attempted(Failed(conns[slot])), Down(shown[slot], "NETWORK_ERROR"))
  /\ UNCHANGED refusals

\* rc 4 or 5: the broker does not accept the token.
DialRefused ==
  /\ "REFUSED" \in DialOutcomes
  /\ DialEnds([Attempted(conns[slot]) EXCEPT !.rejected = TRUE],
              Down(shown[slot], "TOKEN_INVALID"))
  /\ refusals' = [refusals EXCEPT ![slot] =
                    IF SameConnectionSet(copy, config) /\ @ < 3 THEN @ + 1 ELSE @]

DialSucceeds ==
  /\ "OK" \in DialOutcomes
  /\ DialEnds([Attempted(conns[slot]) EXCEPT
                 !.link = "up", !.account = copy.account, !.serial = Serial(copy, slot),
                 !.fails = 0, !.rejected = FALSE, !.pending = TRUE],
              [shown[slot] EXCEPT !.mqttConnected = TRUE, !.session = "ONLINE"])
  /\ UNCHANGED refusals

-----------------------------------------------------------------------------
(* The environment *)

WifiChanges ==
  /\ wifi' = ~wifi
  /\ UNCHANGED <<config, observed, conns, shown, taskVars, lost, historyVars>>

\* The peer closes a connection.
LinkDies(s) ==
  /\ conns[s].link = "up"
  /\ conns' = [conns EXCEPT ![s].link = "dead"]
  /\ UNCHANGED <<config, observed, shown, wifi, taskVars, lost, historyVars>>

\* Ages saturate at the last value that makes a difference.
Older(n, cap) == IF n < cap THEN n + 1 ELSE n

\* Time passes while the task sleeps between two passes, while it is in the loop() or
\* publish() of a connected slot, and while it dials.
Tick ==
  /\ \/ pc = "sleep" /\ ~rested /\ rested' = TRUE /\ UNCHANGED <<dialed, lag>>
     \/ /\ pc \in {"service", "pushall"} /\ conns[slot].link = "up"
        /\ lag < MaxLag /\ lag' = lag + 1 /\ UNCHANGED <<dialed, rested>>
     \/ pc = "dial" /\ dialed < MaxDial /\ dialed' = dialed + 1 /\ UNCHANGED <<rested, lag>>
  /\ conns' = [s \in Slots |->
       [conns[s] EXCEPT !.age = IF conns[s].attempted THEN Older(@, AgeCap) ELSE @,
                        !.up = IF conns[s].link = "none" THEN @ ELSE Older(@, PushallDelay + MaxLag)]]
  /\ rest' = [s \in Slots |-> Older(rest[s], AgeCap)]
  /\ UNCHANGED <<config, observed, shown, wifi, pc, copy, slot, report, lost, refusals, late, asked>>

-----------------------------------------------------------------------------
\* begin()
Init ==
  /\ config \in Configs
  /\ observed = TRUE
  /\ conns = [s \in Slots |-> FreshConn]
  /\ shown = [s \in Slots |->
       [from |-> {}, mqttConnected |-> FALSE, session |-> ResetSession(config, s)]]
  /\ wifi \in BOOLEAN
  /\ pc = "sleep" /\ copy = config /\ slot = NoSlot /\ report = NoReport
  /\ dialed = 0 /\ rested = FALSE /\ lag = 0 /\ lost = 0
  /\ refusals = [s \in Slots |-> 0]
  /\ rest = [s \in Slots |-> AgeCap]
  /\ late = [s \in Slots |-> 0]
  /\ asked = [s \in Slots |-> 0]

\* One step of the task.
Process ==
  \/ StartPass \/ ResetRuntime \/ Disabled \/ Offline \/ Online
  \/ SkipUnconnected \/ LoopLost \/ LoopQuiet \/ RouteReport \/ ApplyReport
  \/ PublishPushall \/ NoPushall
  \/ ChooseSlot \/ NoSlotDue \/ SlotGone \/ BeginDial
  \/ DialWithoutMemory \/ DialFails \/ DialRefused \/ DialSucceeds

Loop == \/ \E c \in Configs : ReplaceConfig(c)
        \/ \E index \in Slots : SelectPrinter(index)

Next == Process \/ Loop \/ WifiChanges \/ (\E s \in Slots : LinkDies(s)) \/ Tick

Spec == Init /\ [][Next]_vars

\* FreeRTOS runs the task, and the clock goes on.
Fairness == WF_vars(Process) /\ SF_vars(Tick)
FairSpec == Spec /\ Fairness
-----------------------------------------------------------------------------
(* Properties *)

\* Every variable has its type; the slot worked on is one of the configuration the
\* task copied, so no access leaves the array of printers.
TypeOK ==
  /\ ValidConfig(config) /\ ValidConfig(copy)
  /\ observed \in BOOLEAN /\ wifi \in BOOLEAN /\ rested \in BOOLEAN
  /\ conns \in [Slots -> Conn]
  /\ shown \in [Slots -> Shown]
  /\ pc \in {"sleep", "reset", "branch", "service", "apply", "pushall", "attempt",
             "connect", "dial"}
  /\ pc \in {"service", "apply", "pushall", "connect", "dial"} => slot \in InUse(copy)
  /\ report \in [serial : Serials, slot : Slots] \cup {NoReport}
  /\ dialed \in 0..MaxDial /\ lag \in 0..MaxLag /\ lost \in 0..MaxLost
  /\ refusals \in [Slots -> 0..3] /\ rest \in [Slots -> 0..AgeCap]
  /\ late \in [Slots -> 0..MaxLag] /\ asked \in [Slots -> 0..2]

\* Every connection was made with the account and for the printer the configuration
\* has now, or the task is going to close it in its next pass: connectSlot() copies
\* the configuration a second time, and dials while it may be replaced.
ConnectionsFollowConfig ==
  \A s \in Slots : conns[s].link # "none" =>
    \/ ~observed \/ pc = "reset"
    \/ /\ s \in InUse(config)
       /\ conns[s].account = config.account
       /\ conns[s].serial = Serial(config, s)

\* tokenRejected latches: a refused token is presented once more at the most, namely
\* when it was refused before the pass that takes notice of the new configuration.
RefusedTokenLatched == \A s \in Slots : refusals[s] <= 2

\* No slot dials again before its full retry interval has passed since its last attempt
\* returned, however long that attempt took and whatever came of it.  After a loop() that
\* found the connection lost the interval is shorter by what had passed of that pass:
\* the code stamps this failure with nowMs, although docs/hardware-acceptance.md anchors
\* every interval "after failure return".
RetryAfterInterval ==
  [][pc = "connect" /\ pc' = "dial"
       => rest[slot] + late[slot] >= ReconnectInterval(conns[slot])]_vars

\* A connection is asked for the full state at most once, and not before the delay.
PushallOnce ==
  \A s \in Slots : asked[s] <= 1 /\ (asked[s] = 1 => conns[s].up >= PushallDelay)

Tried(s) == conns[s].link = "up" \/ conns[s].rejected \/ (pc = "dial" /\ slot = s)

\* With one attempt per pass and the active printer first, no printer is starved by
\* those that fail: each is tried again and again, unless it is connected or its
\* token was refused.
EveryPrinterTried ==
  \A c \in Configs : \A s \in InUse(c) :
    <>[](config = c /\ c.enabled /\ wifi) => []<>Tried(s)

\* No slot is shown as online for good without a connection, although the updates of
\* what is shown may be lost and reports may be applied after a change of printers.
OnlineIsEarned ==
  \A c \in Configs : \A s \in Slots :
    <>[](config = c /\ conns[s].link # "up") => []<>(shown[s].session # "ONLINE")

-----------------------------------------------------------------------------
(* A statement of docs/hardware-acceptance.md that the code does not keep *)

\* No data of printer A under the name of printer B.
NoForeignReport ==
  \A s \in InUse(config) : shown[s].from \subseteq {Serial(config, s)}
=============================================================================
