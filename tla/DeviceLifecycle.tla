-------------------------- MODULE DeviceLifecycle --------------------------
(***************************************************************************)
(* From power-on to the running device and back: setup() of src/main.cpp,    *)
(* ProvisioningService::ensureConnected(), the two web portals the Arduino   *)
(* loop serves, the configurations in flash (NVS) and in memory, and the     *)
(* mutex of NetworkArbiter that the portal's calls to the Bambu Cloud share  *)
(* with the tasks.                                                           *)
(*                                                                         *)
(* The loop handles one request at a time, so the tasks matter to it only    *)
(* while it is blocked in a call: they are followed from its start, in any   *)
(* state, to its end.  A write to the flash may fail and then leaves the old *)
(* value; reads succeed.                                                     *)
(***************************************************************************)
EXTENDS AppConfigForm, BambuPortal, HomeAssistantSettings, FiniteSets

CONSTANTS
  Forms,          \* bound: what users submit as stocks and weather,
  HaForms,        \* as Home Assistant settings,
  BambuInputs,    \* and as Bambu settings
  StoredApps, StoredHas, StoredBambus,  \* bound: the texts found in flash at first
  Workers,        \* the tasks that use the network when the loop asks them to
  WorkLimit,      \* bound: requests a worker has left when the loop blocks
  Requests        \* bound: changes by users, and power losses

ASSUME LifecycleAssumption ==
  /\ \A t \in StoredApps : t.schema \in 0..2
  /\ \A t \in StoredBambus : t.config \in BambuConfig /\ BelongTogether(t.config)
  /\ "loop" \notin Workers /\ "mqtt" \notin Workers
  /\ WorkLimit \in Nat \ {0} /\ Requests \in Nat

\* What is found in the flash was written from forms, and what is submitted has its types.
ASSUME InputAssumption ==
  /\ \A t \in StoredApps : t.schema = 2 \/ Decodes(t) => t.config \in App /\ Validate(t.config)
  /\ StoredHas \subseteq [schema : 0..1, config : HaConfig]
  /\ StoredBambus \subseteq [schema : 0..2, config : BambuConfig]
  /\ \A f \in Forms : Typed(f)
  /\ \A f \in HaForms : /\ f.enabled \in BOOLEAN /\ f.cert \in BOOLEAN /\ f.clear \in BOOLEAN
                        /\ f.url \in {"none", "http", "https", "malformed"}
                        /\ f.token \in HaTokens \cup {NoHaToken} /\ f.entities \in Nat
  /\ \A i \in BambuInputs : /\ i.enabled \in BOOLEAN /\ i.region \in Regions
                            /\ i.tokenId \in TokenIds \cup {NoTokenId}
                            /\ i.printers \in Seq(PrinterSerials \cup {BadSerial})

VARIABLES
  nvs,      \* the flash: three texts, and the mark that forces the portal
  ram,      \* appConfig, homeAssistantConfig and config_ of BambuMqttService
  haUsed,   \* the configuration HomeAssistantController began with
  phase,    \* "off", "portal" (in ensureConnected()), "accepted", "setup" or "running"
  prov,     \* ensureConnected()'s forcePortal, fields and saveAttempted
  started,  \* "settings", "portals" or "apps": how far setup() came
  restart,  \* the portals that have a restart scheduled
  call,     \* the request the integration portal is blocked in
  tasks,    \* who has, or waits for, the arbiter
  budget,   \* bound: changes and power losses still to come
  asked,    \* history: Wi-Fi setup has been asked for, and nothing been saved in it yet
  entered   \* history: the Home Assistant secrets the user entered last

lifeVars == <<nvs, ram, haUsed, phase, prov, started, restart, call, tasks, budget, asked, entered>>
taskVars == <<call, tasks>>

NoProv == [force |-> FALSE, fields |-> DefaultForm, saved |-> FALSE]
NoCall == [kind |-> "none", stage |-> "none", token |-> NoToken, region |-> "us_eu", config |-> NoBambu]
InitialRam == [app |-> Defaults, ha |-> NoHa, bambu |-> NoBambu]

TaskStates == [worker : [Workers -> {"ready", "waiting", "holding"}],
               left : [Workers -> 0..WorkLimit],
               mqtt : {"sleeping", "copying", "waiting", "holding", "updating"}]
Quiet == [worker |-> [w \in Workers |-> "ready"], left |-> [w \in Workers |-> 0], mqtt |-> "sleeping"]

\* The mqtt task holds the arbiter while it dials, and mutex_ when it copies the
\* configuration or updates what is shown, then perhaps both.
Holders == {w \in Workers : tasks.worker[w] = "holding"}
ArbiterFree ==
  call.stage # "request" /\ tasks.mqtt \notin {"holding", "updating"} /\ Holders = {}
MutexFree == tasks.mqtt \notin {"copying", "updating"}

\* The tasks as the loop may find them.
Busy == {t \in TaskStates :
           /\ \A w \in Workers : t.left[w] = IF t.worker[w] = "ready" THEN 0 ELSE WorkLimit
           /\ t.mqtt \in {"holding", "updating"} => \A w \in Workers : t.worker[w] # "holding"
           /\ \A v, w \in Workers : t.worker[v] = "holding" /\ t.worker[w] = "holding" => v = w}

Spend == budget > 0 /\ budget' = budget - 1

-----------------------------------------------------------------------------
(* Power and boot *)

PowerOff ==
  /\ phase' = "off" /\ ram' = InitialRam /\ haUsed' = NoHa /\ prov' = NoProv
  /\ started' = "none" /\ restart' = {} /\ call' = NoCall /\ tasks' = Quiet

PowerLoss == phase # "off" /\ Spend /\ PowerOff /\ UNCHANGED <<nvs, asked, entered>>

\* load() of the stores; a text of the first schema is written again, if the flash allows it.
LoadedHa    == IF DecodesHa(nvs.ha) THEN nvs.ha.config ELSE NoHa
LoadedBambu == IF DecodesBambu(nvs.bambu) THEN Upgraded(nvs.bambu) ELSE NoBambu
Rewritten(text, decodes, current) ==
  IF decodes /\ text.schema = 1 THEN {text, current} ELSE {text}

Forced == nvs.force \/ ~Decodes(nvs.app)

\* setup() down to ensureConnected(), and that down to its loop.
Boot ==
  /\ phase = "off" /\ phase' = "portal"
  /\ ram' = [app   |-> IF Decodes(nvs.app) THEN nvs.app.config ELSE Defaults,
             ha    |-> LoadedHa, bambu |-> LoadedBambu]
  /\ \E app \in Rewritten(nvs.app, Decodes(nvs.app), Encode(nvs.app.config)),
        bambu \in Rewritten(nvs.bambu, DecodesBambu(nvs.bambu), EncodeBambu(LoadedBambu)) :
       nvs' = [nvs EXCEPT !.app = app, !.bambu = bambu]
  /\ prov' = [force |-> Forced, saved |-> FALSE,
              fields |-> IF Decodes(nvs.app) THEN FromConfig(nvs.app.config) ELSE DefaultForm]
  /\ UNCHANGED <<haUsed, started, restart, taskVars, budget, asked, entered>>

-----------------------------------------------------------------------------
(* Provisioning *)

\* How WiFiManager returns: its result, Wi-Fi, parameters submitted, a save attempted.
\* A portal that was forced returns connected only after a save.
PortalOutcome(o) ==
  /\ o.params => o.saved
  /\ o.connected /\ prov.force => o.saved
Outcomes == [connected : BOOLEAN, wifi : BOOLEAN, params : BOOLEAN, saved : BOOLEAN]

\* The fields of the access point's form are too short for long names.
FitsPortal(f) == f.locationName # "long" /\ \A i \in 1..RowCount : f.rows[i].name # "long"
PortalForms   == {f \in Forms : FitsPortal(f)}
\* The fields after the portal, which are read back when there was a save.
FieldsAfter(o) == IF o.saved THEN PortalForms ELSE {prov.fields}

\* Fault variant: decideProvisioningNextAction() that does not know the forced portal.
NextActionUnforced(o, force) ==
  IF o.wifi THEN "ACCEPT" ELSE IF o.saved \/ o.connected THEN "RETRY_PORTAL" ELSE "FAIL"

\* decideProvisioningNextAction(), for a valid configuration.
NextAction(o, force) ==
  IF o.wifi THEN (IF ~force \/ o.saved \/ o.connected THEN "ACCEPT" ELSE "RETRY_PORTAL")
  ELSE IF o.saved \/ o.connected THEN "RETRY_PORTAL" ELSE "FAIL"

Retry(fields) == phase' = "portal" /\ prov' = [force |-> TRUE, fields |-> fields, saved |-> FALSE]
                 /\ UNCHANGED <<haUsed, started, restart, taskVars, asked>>

\* What follows the portal when the form describes a valid configuration.
Decided(o, fields) ==
  CASE NextAction(o, prov.force) = "ACCEPT" ->
         /\ phase' = "accepted" /\ prov' = [force |-> prov.force, fields |-> fields, saved |-> o.saved]
         /\ asked' = (asked /\ ~o.saved)
         /\ UNCHANGED <<haUsed, started, restart, taskVars>>
    [] NextAction(o, prov.force) = "RETRY_PORTAL" -> Retry(fields)
    [] OTHER -> PowerOff /\ asked' = asked

\* One round of the loop of ensureConnected(): the portal returns, the submitted
\* parameters are validated and saved.
PortalReturns(o, fields) ==
  LET config == Candidate(fields)
      saves  == o.params /\ Accepted(fields)
  IN  /\ phase = "portal" /\ PortalOutcome(o)
      /\ IF saves THEN Spend ELSE budget' = budget
      /\ UNCHANGED entered
      /\ \/ /\ ~Accepted(fields)
            /\ Retry(fields) /\ UNCHANGED <<nvs, ram>>
         \/ /\ saves   \* and the write fails
            /\ Retry(fields) /\ UNCHANGED <<nvs, ram>>
         \/ /\ saves
            /\ nvs' = [nvs EXCEPT !.app = Encode(config)]
            /\ Decided(o, fields)
            /\ ram' = IF phase' = "off" THEN InitialRam ELSE [ram EXCEPT !.app = config]
         \/ /\ Accepted(fields) /\ ~o.params
            /\ Decided(o, fields) /\ nvs' = nvs
            /\ ram' = IF phase' = "off" THEN InitialRam ELSE ram

\* writeForcePortal(false), whose failure nobody notices; then a restart if there was a save.
FinishProvisioning ==
  /\ phase = "accepted"
  /\ \E force \in {FALSE, nvs.force} : nvs' = [nvs EXCEPT !.force = force]
  /\ IF prov.saved THEN PowerOff
     ELSE phase' = "setup" /\ prov' = NoProv /\ UNCHANGED <<ram, haUsed, started, restart, taskVars>>
  /\ UNCHANGED <<budget, asked, entered>>

\* The rest of setup(): without the arbiter, the worker or the service there is only the
\* settings portal, without an application only the portals.
SetUp ==
  /\ phase = "setup" /\ phase' = "running"
  /\ started' \in {"settings", "portals", "apps"}
  /\ haUsed' = IF started' = "apps" THEN ram.ha ELSE NoHa
  /\ UNCHANGED <<nvs, ram, prov, restart, taskVars, budget, asked, entered>>

-----------------------------------------------------------------------------
(* The portals *)

LoopFree == phase = "running" /\ call = NoCall

\* Fault variant: a save that takes effect with the next restart, whenever that comes.
ScheduledLater(portal) == restart

Scheduled(portal) == restart \cup {portal}

\* The configurations made of the forms that are accepted.
SubmittedConfigs == {Candidate(f) : f \in {g \in Forms : Accepted(g)}}

\* POST /api/config: the running configuration is left alone until the restart.
SaveSettings(config) ==
  /\ LoopFree /\ Spend
  /\ nvs' = [nvs EXCEPT !.app = Encode(config)]
  /\ restart' = Scheduled("settings")
  /\ UNCHANGED <<ram, haUsed, phase, prov, started, taskVars, asked, entered>>

\* POST /api/wifi/reconfigure
Reconfigure ==
  /\ LoopFree /\ Spend
  /\ \E force \in {TRUE, nvs.force} : /\ nvs' = [nvs EXCEPT !.force = force]
                                      /\ asked' = (asked \/ force)
  /\ restart' = Scheduled("settings")
  /\ UNCHANGED <<ram, haUsed, phase, prov, started, taskVars, entered>>

\* Fault variant: like the settings portal, nothing changes in memory before the restart.
HaInMemoryUnchanged(c) == ram

HaInMemory(c) == [ram EXCEPT !.ha = c]

\* saveHa()
SaveHa(form) ==
  LET submitted == SubmittedHa(ram.ha, form)
  IN  /\ LoopFree /\ started \in {"portals", "apps"}
      /\ HaFormComplete(form) /\ ValidHa(submitted) /\ Spend
      /\ nvs' = [nvs EXCEPT !.ha = EncodeHa(submitted)]
      /\ ram' = HaInMemory(submitted)
      /\ restart' = restart \cup {"integrations"}
      /\ entered' = SubmittedSecrets(entered, form)
      /\ UNCHANGED <<haUsed, phase, prov, started, taskVars, asked>>

Blocks(kind, stage, token, region, config) ==
  /\ call' = [kind |-> kind, stage |-> stage, token |-> token, region |-> region, config |-> config]
  /\ tasks' \in Busy

\* The token discoverBambuPrinters() uses: the one typed in, else the stored one, if it
\* is for the region asked for.
DiscoverToken(input) ==
  IF input.tokenId # NoTokenId THEN [id |-> input.tokenId, region |-> input.region]
  ELSE IF input.region # ram.bambu.region THEN NoToken ELSE ram.bambu.token

\* discoverBambuPrinters(), as far as the call
Discover(input) ==
  /\ LoopFree /\ started \in {"portals", "apps"} /\ DiscoverToken(input) # NoToken /\ Spend
  /\ Blocks("discover", "arbiter", DiscoverToken(input), input.region, NoBambu)
  /\ UNCHANGED <<nvs, ram, haUsed, phase, prov, started, restart, asked, entered>>

\* saveBambu(), as far as the call for the user id, or as replaceConfig() if there is none.
SaveBambu(input) ==
  LET merged == Merge(ram.bambu, input)
      known  == IF merged.user = NoUser THEN UserInToken(merged.token) ELSE merged.user
      config == [merged EXCEPT !.user = known]
      asks   == merged.token # NoToken /\ known = NoUser
  IN  /\ LoopFree /\ started \in {"portals", "apps"} /\ Spend
      /\ asks \/ ValidBambu(config)
      /\ Blocks("save", IF asks THEN "arbiter" ELSE "mutex", merged.token, merged.region, config)
      /\ UNCHANGED <<nvs, ram, haUsed, phase, prov, started, restart, asked, entered>>

\* logoutBambu()
LogoutBambu ==
  /\ LoopFree /\ started \in {"portals", "apps"} /\ Spend
  /\ Blocks("save", "mutex", NoToken, ram.bambu.region, Cleared(ram.bambu))
  /\ UNCHANGED <<nvs, ram, haUsed, phase, prov, started, restart, asked, entered>>

\* Fault variant: only one of the portals looks at the time.
RestartOfSettings == "settings" \in restart

RestartDue == restart # {}

\* process() of the portals, when the time has come.
Restart == LoopFree /\ RestartDue /\ PowerOff /\ UNCHANGED <<nvs, budget, asked, entered>>

-----------------------------------------------------------------------------
(* Calls to the cloud, and the tasks meanwhile *)

callVars == <<nvs, ram, haUsed, phase, prov, started, restart, budget, asked, entered>>

TakeArbiter ==
  /\ call.stage = "arbiter" /\ ArbiterFree
  /\ call' = [call EXCEPT !.stage = "request"]
  /\ UNCHANGED <<tasks, callVars>>

Returns == call' = NoCall /\ tasks' = Quiet

\* executeRequest() returns and its guard lets go; the user id is the answer to a save.
RequestEnds ==
  LET config == [call.config EXCEPT !.user = Owner[call.token.id]]
  IN  /\ call.stage = "request"
      /\ \/ Returns
         \/ /\ call.kind = "save" /\ ValidBambu(config)
            /\ call' = [call EXCEPT !.stage = "mutex", !.config = config] /\ UNCHANGED tasks
      /\ UNCHANGED callVars

\* replaceConfig(), when the mqtt task has released mutex_.
Replace ==
  /\ call.stage = "mutex" /\ MutexFree
  /\ \/ UNCHANGED <<nvs, ram>>
     \/ /\ nvs' = [nvs EXCEPT !.bambu = EncodeBambu(call.config)]
        /\ ram' = [ram EXCEPT !.bambu = call.config]
  /\ Returns
  /\ UNCHANGED <<haUsed, phase, prov, started, restart, budget, asked, entered>>

\* A worker with work left asks for the arbiter, as often as it has requests.
WorkerSteps(w) ==
  /\ call # NoCall
  /\ \/ /\ tasks.worker[w] = "ready" /\ tasks.left[w] > 0
        /\ tasks' = [tasks EXCEPT !.worker[w] = "waiting"]
     \/ /\ tasks.worker[w] = "waiting" /\ ArbiterFree
        /\ tasks' = [tasks EXCEPT !.worker[w] = "holding"]
  /\ UNCHANGED <<call, callVars>>
WorkerReleases(w) ==
  /\ call # NoCall /\ tasks.worker[w] = "holding"
  /\ tasks' = [tasks EXCEPT !.worker[w] = "ready", !.left[w] = @ - 1]
  /\ UNCHANGED <<call, callVars>>

\* Fault variant: the task begins its next pass at once.
WakesAtOnce == TRUE

\* The task sleeps between its passes, and those a released mutex has woken run first.
Wakes ==
  /\ call.stage # "mutex"
  /\ ArbiterFree => call.stage # "arbiter" /\ \A w \in Workers : tasks.worker[w] # "waiting"

MqttSteps ==
  /\ call # NoCall
  /\ \/ tasks.mqtt = "sleeping" /\ Wakes /\ tasks' = [tasks EXCEPT !.mqtt = "copying"]
     \/ tasks.mqtt = "waiting" /\ ArbiterFree /\ tasks' = [tasks EXCEPT !.mqtt = "holding"]
     \/ tasks.mqtt = "holding" /\ tasks' = [tasks EXCEPT !.mqtt = "updating"]
  /\ UNCHANGED <<call, callVars>>

\* The configuration is copied, and a pass goes on to dial or not; an attempt ends.
MqttReleases ==
  /\ call # NoCall
  /\ \/ tasks.mqtt = "copying" /\ \E m \in {"sleeping", "waiting"} : tasks' = [tasks EXCEPT !.mqtt = m]
     \/ tasks.mqtt \in {"holding", "updating"} /\ tasks' = [tasks EXCEPT !.mqtt = "sleeping"]
  /\ UNCHANGED <<call, callVars>>

-----------------------------------------------------------------------------
Init ==
  /\ nvs \in [app : StoredApps, force : {FALSE}, ha : StoredHas, bambu : StoredBambus]
  /\ ram = InitialRam /\ haUsed = NoHa /\ phase = "off" /\ prov = NoProv
  /\ started = "none" /\ restart = {} /\ call = NoCall /\ tasks = Quiet
  /\ budget = Requests /\ asked = FALSE
  /\ entered = Secrets(IF DecodesHa(nvs.ha) THEN nvs.ha.config ELSE NoHa)

CloudCall == TakeArbiter \/ RequestEnds \/ Replace
TaskSteps == (\E w \in Workers : WorkerSteps(w) \/ WorkerReleases(w)) \/ MqttSteps \/ MqttReleases

Next ==
  \/ PowerLoss \/ Boot \/ FinishProvisioning \/ SetUp
  \/ \E o \in Outcomes : \E fields \in FieldsAfter(o) : PortalReturns(o, fields)
  \/ \E config \in SubmittedConfigs : SaveSettings(config)
  \/ Reconfigure
  \/ \E form \in HaForms : SaveHa(form)
  \/ \E input \in BambuInputs : Discover(input) \/ SaveBambu(input)
  \/ LogoutBambu \/ Restart \/ CloudCall \/ TaskSteps

\* Boot, loop and requests go on by themselves; what users and Wi-Fi do, nobody promises.
Fairness ==
  /\ WF_lifeVars(Boot) /\ WF_lifeVars(FinishProvisioning) /\ WF_lifeVars(SetUp)
  /\ WF_lifeVars(Restart) /\ WF_lifeVars(CloudCall)
  /\ \A w \in Workers : WF_lifeVars(WorkerReleases(w))
  /\ WF_lifeVars(MqttReleases)

Spec == Init /\ [][Next]_lifeVars /\ Fairness

-----------------------------------------------------------------------------
(* Properties *)

\* Every variable has its type; what the flash holds as a second schema has the shape
\* of one, and one actor at the most holds the arbiter.
TypeOK ==
  /\ nvs.app.schema \in 0..2 /\ nvs.force \in BOOLEAN
  /\ nvs.app.schema = 2 => nvs.app.config \in App /\ Len(nvs.app.config.stocks) \in StockCounts
  /\ nvs.ha \in [schema : 0..1, config : HaConfig]
  /\ nvs.bambu \in [schema : 0..2, config : BambuConfig]
  /\ ram.app \in App /\ ram.ha \in HaConfig /\ ram.bambu \in BambuConfig
  /\ haUsed \in HaConfig
  /\ phase \in {"off", "portal", "accepted", "setup", "running"}
  /\ prov.force \in BOOLEAN /\ prov.saved \in BOOLEAN
  /\ started \in {"none", "settings", "portals", "apps"}
  /\ restart \subseteq {"settings", "integrations"}
  /\ call.kind \in {"none", "discover", "save"} /\ call.stage \in {"none", "arbiter", "request", "mutex"}
  /\ call.token \in Token \cup {NoToken} /\ call.region \in Regions /\ call.config \in BambuConfig
  /\ tasks \in TaskStates
  /\ Cardinality(Holders) + (IF tasks.mqtt \in {"holding", "updating"} THEN 1 ELSE 0)
       + (IF call.stage = "request" THEN 1 ELSE 0) <= 1
  /\ budget \in 0..Requests /\ asked \in BOOLEAN
  /\ entered \in [token : HaTokens \cup {NoHaToken}, cert : BOOLEAN]

\* A device that runs has a valid configuration, and unless a restart is on its way,
\* every part of it runs with what the flash holds, after failed writes, upgrades of
\* old texts, saves in either portal and power losses at any moment.
RunsWhatIsStored ==
  phase = "running" =>
    /\ Decodes(nvs.app) /\ Validate(ram.app)
    /\ ram.bambu = LoadedBambu
    /\ restart = {} => /\ ram.app = nvs.app.config
                       /\ started = "apps" => haUsed = LoadedHa

\* What the flash holds comes out of the form as it went in: a device that boots is not
\* sent to its portal by its own configuration, and a portal that shows it and saves it
\* again changes nothing, least of all the exchange of a stock.
StoredConfigStarts ==
  Decodes(nvs.app) =>
    LET form == FromConfig(nvs.app.config)
    IN  Accepted(form) /\ Candidate(form) = nvs.app.config

\* In flash, in memory and in a save under way, the user id is that of the token, and a
\* token is with the region it was entered for; no other region's servers are shown it.
CredentialsBelongTogether ==
  /\ BelongTogether(nvs.bambu.config) /\ BelongTogether(ram.bambu) /\ BelongTogether(call.config)
  /\ call.stage \in {"arbiter", "request"} => call.token.region = call.region

\* Once Wi-Fi setup has been asked for and the mark is in the flash, the device does not
\* run again before something has been saved in the setup portal, whatever is saved
\* elsewhere meanwhile, however the portal is left and whenever the power fails.
ReconfigureHonoured ==
  /\ asked => nvs.force
  /\ asked /\ phase \in {"accepted", "setup", "running"} => "settings" \in restart

\* The secrets in the flash are those the user entered last: saving once more without
\* entering them, even before the restart, keeps them.
HaSecretsKept ==
  /\ Secrets(IF DecodesHa(nvs.ha) THEN nvs.ha.config ELSE NoHa) = entered
  /\ phase # "off" => Secrets(ram.ha) = entered

\* A request that blocks the loop on the arbiter and mutex_ returns, although the tasks
\* go on using both: the workers run out of requests and the mqtt task sleeps.
Answered == call # NoCall ~> call = NoCall

\* What was saved takes effect: the restart a portal has promised happens, even when
\* more requests, and calls that block, come first.
SavedTakesEffect == restart # {} ~> phase = "off"
=============================================================================
