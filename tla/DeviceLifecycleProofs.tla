----------------------- MODULE DeviceLifecycleProofs -----------------------
(***************************************************************************)
(* The invariants of DeviceLifecycle, for any forms, stored texts, workers   *)
(* and numbers of requests and power losses.  Each has an inductive          *)
(* strengthening that says what holds on the way: in the portal, after it,   *)
(* during setup() and while a request blocks the loop.  The types are kept   *)
(* by the settings, Home Assistant, Bambu, the phases and the tasks, each    *)
(* with an invariant of its own.                                             *)
(***************************************************************************)
EXTENDS DeviceLifecycle, FiniteSetTheorems, WellFoundedInduction, TLAPS

BambuFields == {"enabled", "region", "token", "user", "printers", "active"}

\* The fields of the records, and that nothing is pending on a device that does not run.
Shape ==
  /\ DOMAIN nvs = {"app", "force", "ha", "bambu"}
  /\ DOMAIN ram = {"app", "ha", "bambu"}
  /\ DOMAIN call = {"kind", "stage", "token", "region", "config"}
  /\ DOMAIN call.config = BambuFields
  /\ phase # "running" => restart = {} /\ call = NoCall

-----------------------------------------------------------------------------
(* What the steps have in common *)

\* Switching the power off leaves the flash alone, or the step that does so has changed it.
LEMMA PowerOffShape ==
  ASSUME PowerOff, DOMAIN nvs' = DOMAIN nvs, Shape
  PROVE  Shape'
  BY DEF PowerOff, Shape, InitialRam, NoCall, NoBambu, BambuFields

\* A retry changes neither the requests nor the restarts.
LEMMA RetryKeepsCall ==
  ASSUME NEW fields, Retry(fields)
  PROVE  call' = call /\ restart' = restart /\ phase' = "portal"
  BY DEF Retry, taskVars

\* What is decided after the portal turns the power off, or changes only where
\* ensureConnected() is.
LEMMA DecidedCases ==
  ASSUME NEW o, NEW fields, Decided(o, fields)
  PROVE  \/ PowerOff /\ asked' = asked
         \/ Retry(fields)
         \/ /\ phase' = "accepted" /\ call' = call /\ restart' = restart
            /\ NextAction(o, prov.force) = "ACCEPT" /\ asked' = (asked /\ ~o.saved)
            /\ prov' = [force |-> prov.force, fields |-> fields, saved |-> o.saved]
  BY DEF Decided, taskVars

LEMMA InitShape == Init => Shape
  BY DEF Init, Shape, InitialRam, NoCall, NoBambu, BambuFields

LEMMA NextShape == Shape /\ [Next]_lifeVars => Shape'
<1> SUFFICES ASSUME Shape, [Next]_lifeVars PROVE Shape'
  OBVIOUS
<1>1. CASE UNCHANGED lifeVars
  BY <1>1 DEF lifeVars, Shape
<1>2. CASE PowerLoss
  BY <1>2, PowerOffShape DEF PowerLoss
<1>3. CASE Boot
  BY <1>3 DEF Boot, taskVars, Shape
<1>4. CASE FinishProvisioning
  <2>1. DOMAIN nvs' = DOMAIN nvs
    BY <1>4 DEF FinishProvisioning
  <2>2. CASE prov.saved
    BY <1>4, <2>1, <2>2, PowerOffShape DEF FinishProvisioning
  <2>3. CASE ~prov.saved
    BY <1>4, <2>1, <2>3 DEF FinishProvisioning, taskVars, Shape
  <2> QED BY <2>2, <2>3
<1>5. CASE SetUp
  BY <1>5 DEF SetUp, taskVars, Shape
<1>6. ASSUME NEW o \in Outcomes, NEW fields \in FieldsAfter(o), PortalReturns(o, fields)
      PROVE  Shape'
  <2>1. phase = "portal" /\ DOMAIN nvs' = DOMAIN nvs /\ (phase' # "off" => DOMAIN ram' = DOMAIN ram)
    BY <1>6 DEF PortalReturns
  <2>2. Retry(fields) \/ Decided(o, fields)
    BY <1>6 DEF PortalReturns
  <2>3. CASE PowerOff
    BY <2>1, <2>3, PowerOffShape
  <2>4. CASE phase' # "off" /\ call' = call /\ restart' = restart
    BY <2>1, <2>4 DEF Shape
  <2> QED BY <2>2, <2>3, <2>4, RetryKeepsCall, DecidedCases
<1>7. ASSUME NEW config, SaveSettings(config) PROVE Shape'
  BY <1>7 DEF SaveSettings, LoopFree, taskVars, Shape
<1>8. CASE Reconfigure
  BY <1>8 DEF Reconfigure, LoopFree, taskVars, Shape
<1>9. ASSUME NEW form, SaveHa(form) PROVE Shape'
  BY <1>9 DEF SaveHa, HaInMemory, LoopFree, taskVars, Shape
<1>10. ASSUME NEW input, Discover(input) PROVE Shape'
  BY <1>10 DEF Discover, Blocks, LoopFree, Shape, NoBambu, BambuFields
<1>11. ASSUME NEW input, SaveBambu(input) PROVE Shape'
  BY <1>11 DEF SaveBambu, Merge, Blocks, LoopFree, Shape, BambuFields
<1>12. CASE LogoutBambu
  BY <1>12 DEF LogoutBambu, Cleared, Blocks, LoopFree, Shape, NoBambu, BambuFields
<1>13. CASE Restart
  BY <1>13, PowerOffShape DEF Restart
<1>14. CASE TakeArbiter
  BY <1>14 DEF TakeArbiter, callVars, Shape, NoCall
<1>15. CASE RequestEnds
  <2>1. call.stage = "request" /\ UNCHANGED <<nvs, ram, phase, restart>>
    BY <1>15 DEF RequestEnds, callVars
  <2>2. phase = "running"
    BY <2>1 DEF Shape, NoCall
  <2>3. CASE Returns
    BY <2>1, <2>2, <2>3 DEF Returns, Shape, NoCall, NoBambu, BambuFields
  <2>4. CASE call' = [call EXCEPT !.stage = "mutex",
                                  !.config = [call.config EXCEPT !.user = Owner[call.token.id]]]
    BY <2>1, <2>2, <2>4 DEF Shape
  <2> QED BY <1>15, <2>3, <2>4 DEF RequestEnds
<1>16. CASE Replace
  BY <1>16 DEF Replace, Returns, Shape, NoCall, NoBambu, BambuFields
<1>17. CASE TaskSteps
  BY <1>17 DEF TaskSteps, WorkerSteps, WorkerReleases, MqttSteps, MqttReleases, callVars, Shape
<1> QED
  BY <1>1, <1>2, <1>3, <1>4, <1>5, <1>6, <1>7, <1>8, <1>9, <1>10, <1>11, <1>12, <1>13, <1>14,
     <1>15, <1>16, <1>17 DEF Next, CloudCall

THEOREM ShapeInvariant == Spec => []Shape
  BY InitShape, NextShape, PTL DEF Spec

-----------------------------------------------------------------------------
(* The secrets of Home Assistant *)

\* What the secrets are after a save depends on what they were, and on the form only.
LEMMA SecretsOfSubmitted ==
  ASSUME NEW current, NEW known, Secrets(current) = Secrets(known), NEW form
  PROVE  Secrets(SubmittedHa(current, form)) = SubmittedSecrets(Secrets(known), form)
<1>1. current.token = known.token /\ current.cert = known.cert
  BY DEF Secrets
<1> QED BY <1>1 DEF Secrets, SubmittedHa, SubmittedSecrets

LEMMA InitSecrets == Init => HaSecretsKept
  BY DEF Init, HaSecretsKept

LEMMA NextSecrets == Shape /\ HaSecretsKept /\ [Next]_lifeVars => HaSecretsKept'
<1> SUFFICES ASSUME Shape, HaSecretsKept, [Next]_lifeVars PROVE HaSecretsKept'
  OBVIOUS
<1>1. ASSUME nvs'.ha = nvs.ha, entered' = entered, phase' # "off" => phase # "off" /\ ram'.ha = ram.ha
      PROVE  HaSecretsKept'
  BY <1>1 DEF HaSecretsKept
<1>2. CASE Boot
  <2>1. nvs'.ha = nvs.ha /\ entered' = entered /\ ram'.ha = LoadedHa
    BY <1>2 DEF Boot, Shape
  <2> QED BY <2>1 DEF HaSecretsKept, LoadedHa
<1>3. ASSUME NEW form, SaveHa(form) PROVE HaSecretsKept'
  <2> DEFINE submitted == SubmittedHa(ram.ha, form)
  <2>1. /\ nvs'.ha = EncodeHa(submitted) /\ ram'.ha = submitted /\ ValidHa(submitted)
        /\ entered' = SubmittedSecrets(entered, form) /\ phase = "running"
    BY <1>3 DEF SaveHa, HaInMemory, LoopFree, Shape
  <2>2. entered = Secrets(ram.ha)
    BY <2>1 DEF HaSecretsKept
  <2>3. entered' = Secrets(submitted)
    BY <2>1, <2>2, SecretsOfSubmitted
  <2>4. (IF DecodesHa(nvs'.ha) THEN nvs'.ha.config ELSE NoHa) = submitted
    BY <2>1 DEF DecodesHa, EncodeHa
  <2> QED BY <2>1, <2>3, <2>4 DEF HaSecretsKept
<1>4. CASE UNCHANGED lifeVars
  BY <1>4, <1>1 DEF lifeVars
<1>5. CASE PowerLoss
  BY <1>5, <1>1 DEF PowerLoss, PowerOff
<1>6. CASE FinishProvisioning
  <2>1. nvs'.ha = nvs.ha /\ entered' = entered /\ phase # "off"
    BY <1>6 DEF FinishProvisioning, Shape
  <2>2. phase' = "off" \/ ram' = ram
    BY <1>6 DEF FinishProvisioning, PowerOff
  <2> QED BY <2>1, <2>2, <1>1
<1>7. CASE SetUp
  BY <1>7, <1>1 DEF SetUp
<1>8. ASSUME NEW o \in Outcomes, NEW fields \in FieldsAfter(o), PortalReturns(o, fields)
      PROVE  HaSecretsKept'
  <2>1. /\ nvs'.ha = nvs.ha /\ entered' = entered /\ phase # "off"
        /\ phase' = "off" \/ ram'.ha = ram.ha
    BY <1>8 DEF PortalReturns, Shape
  <2> QED BY <2>1, <1>1
<1>9. ASSUME NEW config, SaveSettings(config) PROVE HaSecretsKept'
  BY <1>9, <1>1 DEF SaveSettings, Shape
<1>10. CASE Reconfigure
  BY <1>10, <1>1 DEF Reconfigure, Shape
<1>11. ASSUME NEW input, Discover(input) \/ SaveBambu(input) PROVE HaSecretsKept'
  BY <1>11, <1>1 DEF Discover, SaveBambu
<1>12. CASE LogoutBambu
  BY <1>12, <1>1 DEF LogoutBambu
<1>13. CASE Restart
  BY <1>13, <1>1 DEF Restart, PowerOff
<1>14. CASE TakeArbiter \/ RequestEnds \/ TaskSteps
  BY <1>14, <1>1 DEF TakeArbiter, RequestEnds, TaskSteps, WorkerSteps, WorkerReleases,
                     MqttSteps, MqttReleases, callVars
<1>15. CASE Replace
  BY <1>15, <1>1 DEF Replace, Shape
<1> QED
  BY <1>2, <1>3, <1>4, <1>5, <1>6, <1>7, <1>8, <1>9, <1>10, <1>11, <1>12, <1>13, <1>14, <1>15
     DEF Next, CloudCall

\* The secrets in the flash and in memory are those entered last, however often they are
\* saved again with empty fields and wherever the power fails (saveHa()).
THEOREM HaSecretsAreKept == Spec => []HaSecretsKept
  BY ShapeInvariant, InitSecrets, NextSecrets, PTL DEF Spec

-----------------------------------------------------------------------------
(* Asking for Wi-Fi setup *)

\* The portal that was asked for is forced, and a save has ended it when it is left.
ReconfigureInv ==
  /\ ReconfigureHonoured
  /\ asked /\ phase = "portal" => prov.force

LEMMA InitReconfigure == Init => ReconfigureInv
  BY DEF Init, ReconfigureInv, ReconfigureHonoured

\* A portal that is forced is not left without a save.
LEMMA ForcedPortal ==
  ASSUME NEW o \in Outcomes, PortalOutcome(o), prov.force, NextAction(o, prov.force) = "ACCEPT"
  PROVE  o.saved
  BY DEF Outcomes, PortalOutcome, NextAction

LEMMA NextReconfigure == Shape /\ ReconfigureInv /\ [Next]_lifeVars => ReconfigureInv'
<1> SUFFICES ASSUME Shape, ReconfigureInv, [Next]_lifeVars PROVE ReconfigureInv'
  OBVIOUS
<1>1. ASSUME asked' = asked, nvs'.force = nvs.force, phase' = "off"
      PROVE  ReconfigureInv'
  BY <1>1 DEF ReconfigureInv, ReconfigureHonoured
<1>2. ASSUME asked' = asked, nvs'.force = nvs.force, phase = "running", phase' = "running",
             restart \subseteq restart'
      PROVE  ReconfigureInv'
  BY <1>2 DEF ReconfigureInv, ReconfigureHonoured
<1>3. CASE UNCHANGED lifeVars
  BY <1>3 DEF lifeVars, ReconfigureInv, ReconfigureHonoured
<1>4. CASE PowerLoss
  BY <1>4, <1>1 DEF PowerLoss, PowerOff
<1>5. CASE Boot
  BY <1>5 DEF Boot, Forced, Shape, ReconfigureInv, ReconfigureHonoured
<1>6. CASE FinishProvisioning
  <2>1. ~asked /\ asked' = asked
    BY <1>6 DEF FinishProvisioning, Shape, ReconfigureInv, ReconfigureHonoured
  <2> QED BY <2>1 DEF ReconfigureInv, ReconfigureHonoured
<1>7. CASE SetUp
  BY <1>7 DEF SetUp, Shape, ReconfigureInv, ReconfigureHonoured
<1>8. ASSUME NEW o \in Outcomes, NEW fields \in FieldsAfter(o), PortalReturns(o, fields)
      PROVE  ReconfigureInv'
  <2>1. phase = "portal" /\ nvs'.force = nvs.force /\ PortalOutcome(o)
    BY <1>8 DEF PortalReturns, Shape
  <2>2. CASE Retry(fields)
    BY <2>1, <2>2 DEF Retry, ReconfigureInv, ReconfigureHonoured
  <2>3. CASE PowerOff /\ asked' = asked
    BY <2>1, <2>3, <1>1 DEF PowerOff
  <2>4. CASE /\ phase' = "accepted" /\ NextAction(o, prov.force) = "ACCEPT"
             /\ asked' = (asked /\ ~o.saved)
    <3>1. asked => o.saved
      BY <2>1, <2>4, ForcedPortal DEF ReconfigureInv
    <3>2. ~asked'
      BY <2>4, <3>1
    <3> QED BY <3>2 DEF ReconfigureInv, ReconfigureHonoured
  <2> QED BY <1>8, <2>2, <2>3, <2>4, DecidedCases DEF PortalReturns
<1>9. ASSUME NEW config, SaveSettings(config) PROVE ReconfigureInv'
  BY <1>9, <1>2 DEF SaveSettings, Scheduled, LoopFree, Shape
<1>10. CASE Reconfigure
  BY <1>10 DEF Reconfigure, Scheduled, LoopFree, Shape, ReconfigureInv, ReconfigureHonoured
<1>11. ASSUME NEW form, SaveHa(form) PROVE ReconfigureInv'
  BY <1>11, <1>2 DEF SaveHa, LoopFree, Shape
<1>12. ASSUME NEW input, Discover(input) \/ SaveBambu(input) PROVE ReconfigureInv'
  BY <1>12, <1>2 DEF Discover, SaveBambu, LoopFree
<1>13. CASE LogoutBambu
  BY <1>13, <1>2 DEF LogoutBambu, LoopFree
<1>14. CASE Restart
  BY <1>14, <1>1 DEF Restart, PowerOff
<1>15. CASE TakeArbiter \/ RequestEnds \/ TaskSteps
  <2>1. UNCHANGED <<nvs, phase, prov, restart, asked>>
    BY <1>15 DEF TakeArbiter, RequestEnds, TaskSteps, WorkerSteps, WorkerReleases,
                 MqttSteps, MqttReleases, callVars
  <2> QED BY <2>1 DEF ReconfigureInv, ReconfigureHonoured
<1>16. CASE Replace
  BY <1>16 DEF Replace, Shape, ReconfigureInv, ReconfigureHonoured
<1> QED
  BY <1>3, <1>4, <1>5, <1>6, <1>7, <1>8, <1>9, <1>10, <1>11, <1>12, <1>13, <1>14, <1>15, <1>16
     DEF Next, CloudCall

\* A device that was asked for Wi-Fi setup does not run again before a save in the setup
\* portal, through any number of saves elsewhere, restarts and power losses
\* (writeForcePortal(), ProvisioningService::ensureConnected()).
THEOREM ReconfigureIsHonoured == Spec => []ReconfigureHonoured
<1>1. ReconfigureInv => ReconfigureHonoured
  BY DEF ReconfigureInv
<1> QED BY <1>1, ShapeInvariant, InitReconfigure, NextReconfigure, PTL DEF Spec

-----------------------------------------------------------------------------
(* Tokens, users and regions *)

\* The fields of the stored configurations, and what a save asks the user id with.
CredentialsInv ==
  /\ CredentialsBelongTogether
  /\ DOMAIN nvs.bambu.config = BambuFields /\ DOMAIN ram.bambu = BambuFields
  /\ call.kind = "save" /\ call.stage \in {"arbiter", "request"} =>
       call.config.token = call.token /\ call.token # NoToken

\* Whatever the form says, the merged configuration belongs together, also with the user
\* id that is found in the token.
LEMMA MergedBelongTogether ==
  ASSUME NEW existing, BelongTogether(existing), NEW input
  PROVE  LET merged == Merge(existing, input)
             known  == IF merged.user = NoUser THEN UserInToken(merged.token) ELSE merged.user
         IN  BelongTogether([merged EXCEPT !.user = known])
<1> DEFINE merged == Merge(existing, input)
           known  == IF merged.user = NoUser THEN UserInToken(merged.token) ELSE merged.user
           config == [merged EXCEPT !.user = known]
<1>1. /\ config.token = merged.token /\ config.region = merged.region /\ config.user = known
      /\ merged.region = input.region
  BY DEF Merge
<1>2. merged.token # NoToken => merged.token.region = merged.region
  BY DEF Merge, Credentials, BelongTogether, NoToken
<1>3. merged.user # NoUser => merged.token # NoToken /\ merged.user = Owner[merged.token.id]
  BY DEF Merge, Credentials, BelongTogether
<1>4. UserInToken(merged.token) # NoUser =>
        merged.token # NoToken /\ UserInToken(merged.token) = Owner[merged.token.id]
  <2>1. NoToken.id \notin Jwts
    BY BambuPortalAssumption DEF NoToken
  <2> QED BY <2>1 DEF UserInToken
<1>5. known # NoUser => merged.token # NoToken /\ known = Owner[merged.token.id]
  BY <1>3, <1>4
<1> HIDE DEF merged, known, config
<1>6. BelongTogether(config)
  BY <1>1, <1>2, <1>5 DEF BelongTogether
<1> QED BY <1>6 DEF merged, known, config

LEMMA EmptyBelongTogether ==
  BelongTogether(NoBambu) /\ DOMAIN NoBambu = BambuFields
  BY DEF BelongTogether, NoBambu, BambuFields

\* An upgrade switches off, and leaves the credentials alone.
LEMMA UpgradeKeepsCredentials ==
  ASSUME NEW text, DOMAIN text.config = BambuFields, BelongTogether(text.config)
  PROVE  BelongTogether(Upgraded(text)) /\ DOMAIN Upgraded(text) = BambuFields
  BY DEF Upgraded, BelongTogether, BambuFields

LEMMA InitCredentials == Init => CredentialsInv
<1> SUFFICES ASSUME Init PROVE CredentialsInv
  OBVIOUS
<1>1. nvs.bambu \in StoredBambus /\ ram.bambu = NoBambu /\ call = NoCall
  BY DEF Init, InitialRam
<1>2. DOMAIN nvs.bambu.config = BambuFields /\ BelongTogether(nvs.bambu.config)
  BY <1>1, LifecycleAssumption DEF BambuConfig, BambuFields
<1> QED
  BY <1>1, <1>2, EmptyBelongTogether DEF CredentialsInv, CredentialsBelongTogether, NoCall

LEMMA NextCredentials == Shape /\ CredentialsInv /\ [Next]_lifeVars => CredentialsInv'
<1> SUFFICES ASSUME Shape, CredentialsInv, [Next]_lifeVars PROVE CredentialsInv'
  OBVIOUS
<1>1. ASSUME nvs'.bambu = nvs.bambu, call' = call \/ call' = NoCall,
             ram'.bambu \in {ram.bambu, NoBambu}
      PROVE  CredentialsInv'
  BY <1>1, EmptyBelongTogether DEF CredentialsInv, CredentialsBelongTogether, NoCall
<1>2. CASE UNCHANGED lifeVars
  BY <1>2, <1>1 DEF lifeVars
<1>3. CASE PowerLoss \/ Restart
  BY <1>3, <1>1 DEF PowerLoss, Restart, PowerOff, InitialRam
<1>4. CASE Boot
  <2>1. /\ ram'.bambu = LoadedBambu /\ call' = call
        /\ nvs'.bambu \in {nvs.bambu, EncodeBambu(LoadedBambu)}
    BY <1>4 DEF Boot, Rewritten, taskVars, Shape
  <2>2. BelongTogether(LoadedBambu) /\ DOMAIN LoadedBambu = BambuFields
    BY UpgradeKeepsCredentials, EmptyBelongTogether
       DEF LoadedBambu, CredentialsInv, CredentialsBelongTogether
  <2> QED BY <2>1, <2>2 DEF CredentialsInv, CredentialsBelongTogether, EncodeBambu
<1>5. CASE FinishProvisioning
  <2>1. nvs'.bambu = nvs.bambu
    BY <1>5 DEF FinishProvisioning, Shape
  <2> QED BY <1>5, <2>1, <1>1 DEF FinishProvisioning, PowerOff, InitialRam, taskVars
<1>6. CASE SetUp
  BY <1>6, <1>1 DEF SetUp, taskVars
<1>7. ASSUME NEW o \in Outcomes, NEW fields \in FieldsAfter(o), PortalReturns(o, fields)
      PROVE  CredentialsInv'
  <2>1. nvs'.bambu = nvs.bambu /\ ram'.bambu \in {ram.bambu, NoBambu}
    BY <1>7 DEF PortalReturns, InitialRam, Shape
  <2>2. call' = call \/ call' = NoCall
    BY <1>7, DecidedCases, RetryKeepsCall DEF PortalReturns, PowerOff
  <2> QED BY <2>1, <2>2, <1>1
<1>8. ASSUME NEW config, SaveSettings(config) PROVE CredentialsInv'
  BY <1>8, <1>1 DEF SaveSettings, taskVars, Shape
<1>9. CASE Reconfigure
  BY <1>9, <1>1 DEF Reconfigure, taskVars, Shape
<1>10. ASSUME NEW form, SaveHa(form) PROVE CredentialsInv'
  BY <1>10, <1>1 DEF SaveHa, HaInMemory, taskVars, Shape
<1>11. ASSUME NEW input, Discover(input) PROVE CredentialsInv'
  <2>1. /\ nvs' = nvs /\ ram' = ram /\ DiscoverToken(input) # NoToken
        /\ call' = [kind |-> "discover", stage |-> "arbiter", token |-> DiscoverToken(input),
                    region |-> input.region, config |-> NoBambu]
    BY <1>11 DEF Discover, Blocks
  <2>2. DiscoverToken(input).region = input.region
    BY <2>1 DEF DiscoverToken, CredentialsInv, CredentialsBelongTogether, BelongTogether
  <2> QED
    BY <2>1, <2>2, EmptyBelongTogether DEF CredentialsInv, CredentialsBelongTogether
<1>12. ASSUME NEW input, SaveBambu(input) PROVE CredentialsInv'
  <2> DEFINE merged == Merge(ram.bambu, input)
             known  == IF merged.user = NoUser THEN UserInToken(merged.token) ELSE merged.user
             config == [merged EXCEPT !.user = known]
             asks   == merged.token # NoToken /\ known = NoUser
  <2>1. /\ nvs' = nvs /\ ram' = ram
        /\ call' = [kind |-> "save", stage |-> IF asks THEN "arbiter" ELSE "mutex",
                    token |-> merged.token, region |-> merged.region, config |-> config]
    BY <1>12 DEF SaveBambu, Blocks
  <2>2. BelongTogether(config)
    BY MergedBelongTogether DEF CredentialsInv, CredentialsBelongTogether
  <2>3. config.token = merged.token /\ config.region = merged.region
    BY DEF Merge
  <2> HIDE DEF merged, known, config
  <2> QED
    BY <2>1, <2>2, <2>3 DEF CredentialsInv, CredentialsBelongTogether, BelongTogether
<1>13. CASE LogoutBambu
  <2>1. /\ nvs' = nvs /\ ram' = ram
        /\ call' = [kind |-> "save", stage |-> "mutex", token |-> NoToken,
                    region |-> ram.bambu.region, config |-> Cleared(ram.bambu)]
    BY <1>13 DEF LogoutBambu, Blocks
  <2>2. BelongTogether(Cleared(ram.bambu))
    BY DEF BelongTogether, Cleared, NoBambu
  <2> QED BY <2>1, <2>2 DEF CredentialsInv, CredentialsBelongTogether
<1>14. CASE TakeArbiter
  BY <1>14 DEF TakeArbiter, callVars, Shape, CredentialsInv, CredentialsBelongTogether
<1>15. CASE RequestEnds
  <2>1. nvs' = nvs /\ ram' = ram /\ call.stage = "request"
    BY <1>15 DEF RequestEnds, callVars
  <2>2. CASE call' = NoCall
    BY <2>1, <2>2, <1>1
  <2>3. CASE /\ call.kind = "save"
             /\ call' = [call EXCEPT !.stage = "mutex",
                                     !.config = [call.config EXCEPT !.user = Owner[call.token.id]]]
    <3>1. call'.config = [call.config EXCEPT !.user = Owner[call.token.id]]
      BY <2>3 DEF Shape
    <3>2. /\ call'.config.token = call.config.token /\ call'.config.region = call.config.region
          /\ call'.config.user = Owner[call.token.id] /\ call'.stage = "mutex"
      BY <2>3, <3>1 DEF Shape, BambuFields
    <3>3. BelongTogether(call'.config)
      BY <2>1, <2>3, <3>2 DEF CredentialsInv, CredentialsBelongTogether, BelongTogether
    <3> QED BY <2>1, <3>2, <3>3 DEF CredentialsInv, CredentialsBelongTogether
  <2> QED BY <1>15, <2>2, <2>3 DEF RequestEnds, Returns
<1>16. CASE Replace
  <2>1. CASE nvs' = nvs /\ ram' = ram
    BY <1>16, <2>1, <1>1 DEF Replace, Returns
  <2>2. CASE nvs'.bambu.config = call.config /\ ram'.bambu = call.config
    BY <1>16, <2>2, EmptyBelongTogether
       DEF Replace, Returns, NoCall, Shape, CredentialsInv, CredentialsBelongTogether
  <2> QED BY <1>16, <2>1, <2>2 DEF Replace, EncodeBambu, Shape
<1>17. CASE TaskSteps
  BY <1>17, <1>1 DEF TaskSteps, WorkerSteps, WorkerReleases, MqttSteps, MqttReleases, callVars
<1> QED
  BY <1>2, <1>3, <1>4, <1>5, <1>6, <1>7, <1>8, <1>9, <1>10, <1>11, <1>12, <1>13, <1>14, <1>15,
     <1>16, <1>17 DEF Next, CloudCall

\* Tokens stay with their users and regions, through edits of the form, answers of the
\* cloud to a save and upgrades of old texts (mergeBambuPortalConfig(), saveBambu(),
\* discoverBambuPrinters()).
THEOREM CredentialsStayTogether == Spec => []CredentialsBelongTogether
<1>1. CredentialsInv => CredentialsBelongTogether
  BY DEF CredentialsInv
<1> QED BY <1>1, ShapeInvariant, InitCredentials, NextCredentials, PTL DEF Spec

-----------------------------------------------------------------------------
(* What runs is what is stored *)

\* What setup() has loaded is still what the flash holds.
LoadedAll == ram.ha = LoadedHa /\ ram.bambu = LoadedBambu
LoadedApp == Decodes(nvs.app) /\ ram.app = nvs.app.config

\* On the way to the running device: the portal is forced as long as there is nothing
\* valid in the flash, and it is left by a save or with what was valid before it.
StoredInv ==
  /\ RunsWhatIsStored
  /\ phase = "portal" => LoadedAll /\ (LoadedApp \/ (~Decodes(nvs.app) /\ prov.force))
  /\ phase = "accepted" => LoadedAll /\ (LoadedApp \/ prov.saved)
  /\ phase = "setup" => LoadedAll /\ LoadedApp
  /\ call.stage = "mutex" => ValidBambu(call.config)

LEMMA StoredApp ==
  ASSUME NEW config, Validate(config)
  PROVE  Decodes(Encode(config)) /\ Encode(config).config = config
  BY DEF Decodes, Encode

LEMMA StoredBambu ==
  ASSUME NEW config, ValidBambu(config)
  PROVE  DecodesBambu(EncodeBambu(config)) /\ Upgraded(EncodeBambu(config)) = config
  BY DEF DecodesBambu, EncodeBambu, Upgraded

\* What has been cleared may be stored.
LEMMA ClearedValid == ASSUME NEW existing PROVE ValidBambu(Cleared(existing))
<1> DEFINE config == Cleared(existing)
<1>1. config.printers = <<>> /\ config.active = 0 /\ config.enabled = FALSE
  BY DEF Cleared, NoBambu
<1>2. Len(config.printers) <= PrinterCount /\ DOMAIN config.printers = {}
  BY <1>1, BambuPortalAssumption
<1> QED BY <1>1, <1>2 DEF ValidBambu

LEMMA InitStored == Init => StoredInv
  BY DEF Init, StoredInv, RunsWhatIsStored, NoCall

LEMMA NextStored == Shape /\ StoredInv /\ [Next]_lifeVars => StoredInv'
<1> SUFFICES ASSUME Shape, StoredInv, [Next]_lifeVars PROVE StoredInv'
  OBVIOUS
<1>1. ASSUME phase' = "off", call'.stage # "mutex" PROVE StoredInv'
  BY <1>1 DEF StoredInv, RunsWhatIsStored
<1>2. ASSUME PowerOff PROVE StoredInv'
  BY <1>2, <1>1 DEF PowerOff, NoCall
<1>3. ASSUME UNCHANGED <<nvs, ram, haUsed, phase, prov, started, restart>>,
             call'.stage = "mutex" => ValidBambu(call'.config)
      PROVE  StoredInv'
  BY <1>3 DEF StoredInv, RunsWhatIsStored, LoadedAll, LoadedApp, LoadedHa, LoadedBambu
<1>4. CASE UNCHANGED lifeVars
  BY <1>4, <1>3 DEF lifeVars, StoredInv
<1>5. CASE PowerLoss \/ Restart
  BY <1>5, <1>2 DEF PowerLoss, Restart
<1>6. CASE Boot
  <2>1. /\ ram'.ha = LoadedHa /\ ram'.bambu = LoadedBambu
        /\ ram'.app = IF Decodes(nvs.app) THEN nvs.app.config ELSE Defaults
        /\ phase = "off" /\ phase' = "portal" /\ call' = call /\ prov'.force = Forced
        /\ nvs'.ha = nvs.ha
        /\ nvs'.app \in Rewritten(nvs.app, Decodes(nvs.app), Encode(nvs.app.config))
        /\ nvs'.bambu \in Rewritten(nvs.bambu, DecodesBambu(nvs.bambu), EncodeBambu(LoadedBambu))
    BY <1>6 DEF Boot, taskVars, Shape
  <2>2. Decodes(nvs.app) => Decodes(nvs'.app) /\ nvs'.app.config = nvs.app.config
    BY <2>1, StoredApp DEF Rewritten, Decodes
  <2>3. ~Decodes(nvs.app) => ~Decodes(nvs'.app) /\ Forced
    BY <2>1 DEF Rewritten, Forced
  <2>4. LoadedHa' = LoadedHa
    BY <2>1 DEF LoadedHa
  <2>5. CASE nvs'.bambu = nvs.bambu
    <3>1. LoadedBambu' = LoadedBambu
      BY <2>5 DEF LoadedBambu
    <3> QED
      BY <2>1, <2>2, <2>3, <2>4, <3>1 DEF StoredInv, RunsWhatIsStored, LoadedAll, LoadedApp, Shape, NoCall
  <2>6. CASE DecodesBambu(nvs.bambu) /\ nvs'.bambu = EncodeBambu(LoadedBambu)
    <3>1. ValidBambu(LoadedBambu)
      BY <2>6 DEF LoadedBambu, DecodesBambu
    <3>2. LoadedBambu' = LoadedBambu
      <4>1. DecodesBambu(nvs'.bambu) /\ Upgraded(nvs'.bambu) = LoadedBambu
        BY <2>6, <3>1, StoredBambu
      <4> QED BY <4>1 DEF LoadedBambu
    <3> QED
      BY <2>1, <2>2, <2>3, <2>4, <3>2 DEF StoredInv, RunsWhatIsStored, LoadedAll, LoadedApp, Shape, NoCall
  <2> QED BY <2>1, <2>5, <2>6 DEF Rewritten
<1>7. CASE FinishProvisioning
  <2>1. CASE prov.saved
    BY <1>7, <2>1, <1>2 DEF FinishProvisioning
  <2>2. CASE ~prov.saved
    <3>1. /\ phase = "accepted" /\ phase' = "setup" /\ ram' = ram /\ call' = call
          /\ nvs'.app = nvs.app /\ nvs'.ha = nvs.ha /\ nvs'.bambu = nvs.bambu
      BY <1>7, <2>2 DEF FinishProvisioning, taskVars, Shape
    <3>2. LoadedAll /\ LoadedApp
      BY <2>2, <3>1 DEF StoredInv
    <3> QED
      BY <3>1, <3>2 DEF StoredInv, RunsWhatIsStored, LoadedAll, LoadedApp, LoadedHa, LoadedBambu
  <2> QED BY <2>1, <2>2
<1>8. CASE SetUp
  <2>1. /\ phase = "setup" /\ phase' = "running" /\ nvs' = nvs /\ ram' = ram /\ call' = call
        /\ started' = "apps" => haUsed' = ram.ha
    BY <1>8 DEF SetUp, taskVars
  <2>2. LoadedAll /\ LoadedApp /\ Validate(nvs.app.config)
    BY <2>1 DEF StoredInv, LoadedApp, Decodes
  <2> QED
    BY <2>1, <2>2 DEF StoredInv, RunsWhatIsStored, LoadedAll, LoadedApp, LoadedHa, LoadedBambu
<1>9. ASSUME NEW o \in Outcomes, NEW fields \in FieldsAfter(o), PortalReturns(o, fields)
      PROVE  StoredInv'
  <2>1. /\ phase = "portal" /\ PortalOutcome(o)
        /\ LoadedAll /\ (LoadedApp \/ (~Decodes(nvs.app) /\ prov.force))
    BY <1>9 DEF PortalReturns, StoredInv
  <2>2. CASE PowerOff
    BY <2>2, <1>2
  <2>3. CASE Retry(fields) /\ nvs' = nvs /\ ram' = ram
    BY <2>1, <2>3, RetryKeepsCall
       DEF Retry, StoredInv, RunsWhatIsStored, LoadedAll, LoadedApp, LoadedHa, LoadedBambu
  <2>4. CASE /\ o.params /\ Accepted(fields) /\ phase' # "off"
             /\ nvs' = [nvs EXCEPT !.app = Encode(Candidate(fields))] /\ Decided(o, fields)
             /\ ram' = [ram EXCEPT !.app = Candidate(fields)]
    <3>1. /\ nvs'.app = Encode(Candidate(fields)) /\ ram'.app = Candidate(fields)
          /\ nvs'.ha = nvs.ha /\ nvs'.bambu = nvs.bambu /\ ram'.ha = ram.ha /\ ram'.bambu = ram.bambu
      BY <2>4 DEF Shape
    <3>2. LoadedApp' /\ LoadedAll'
      <4>1. Validate(Candidate(fields))
        BY <2>4 DEF Accepted
      <4> QED BY <2>1, <3>1, <4>1, StoredApp DEF LoadedApp, LoadedAll, LoadedHa, LoadedBambu
    <3>3. phase' \in {"portal", "accepted"} /\ call' = call
      BY <2>4, DecidedCases, RetryKeepsCall DEF PowerOff
    <3> QED BY <2>1, <3>2, <3>3 DEF StoredInv, RunsWhatIsStored, Shape
  <2>5. CASE Decided(o, fields) /\ ~PowerOff /\ ~Retry(fields) /\ nvs' = nvs /\ ram' = ram
    <3>1. /\ phase' = "accepted" /\ call' = call /\ prov'.saved = o.saved
          /\ NextAction(o, prov.force) = "ACCEPT"
      BY <2>5, DecidedCases
    <3>2. LoadedApp \/ o.saved
      BY <2>1, <3>1, ForcedPortal
    <3> QED
      BY <2>1, <2>5, <3>1, <3>2
         DEF StoredInv, RunsWhatIsStored, LoadedAll, LoadedApp, LoadedHa, LoadedBambu
  <2>6. CASE phase' = "off"
    BY <1>9, <2>2, <2>6, DecidedCases, RetryKeepsCall DEF PortalReturns
  <2> QED BY <1>9, <2>2, <2>3, <2>4, <2>5, <2>6, DecidedCases DEF PortalReturns
<1>10. ASSUME NEW config \in SubmittedConfigs, SaveSettings(config) PROVE StoredInv'
  <2>1. /\ phase = "running" /\ phase' = phase /\ ram' = ram /\ call' = call /\ "settings" \in restart'
        /\ nvs'.app = Encode(config) /\ nvs'.bambu = nvs.bambu
    BY <1>10 DEF SaveSettings, Scheduled, LoopFree, taskVars, Shape
  <2>2. Validate(config)
    BY <1>10 DEF SubmittedConfigs, Accepted
  <2> QED BY <2>1, <2>2, StoredApp DEF StoredInv, RunsWhatIsStored, LoadedBambu
<1>11. CASE Reconfigure
  <2>1. /\ phase = "running" /\ phase' = phase /\ ram' = ram /\ call' = call /\ "settings" \in restart'
        /\ nvs'.app = nvs.app /\ nvs'.bambu = nvs.bambu
    BY <1>11 DEF Reconfigure, Scheduled, LoopFree, taskVars, Shape
  <2> QED BY <2>1 DEF StoredInv, RunsWhatIsStored, LoadedBambu
<1>12. ASSUME NEW form, SaveHa(form) PROVE StoredInv'
  <2>1. /\ phase = "running" /\ phase' = phase /\ call' = call /\ "integrations" \in restart'
        /\ nvs'.app = nvs.app /\ nvs'.bambu = nvs.bambu
        /\ ram'.app = ram.app /\ ram'.bambu = ram.bambu
    BY <1>12 DEF SaveHa, HaInMemory, LoopFree, taskVars, Shape
  <2> QED BY <2>1 DEF StoredInv, RunsWhatIsStored, LoadedBambu
<1>13. ASSUME NEW input, Discover(input) PROVE StoredInv'
  BY <1>13, <1>3 DEF Discover, Blocks
<1>14. ASSUME NEW input, SaveBambu(input) PROVE StoredInv'
  BY <1>14, <1>3 DEF SaveBambu, Blocks
<1>15. CASE LogoutBambu
  BY <1>15, <1>3, ClearedValid DEF LogoutBambu, Blocks
<1>16. CASE TakeArbiter
  BY <1>16, <1>3 DEF TakeArbiter, callVars, Shape
<1>17. CASE RequestEnds
  <2> DEFINE config == [call.config EXCEPT !.user = Owner[call.token.id]]
  <2>1. UNCHANGED <<nvs, ram, haUsed, phase, prov, started, restart>>
    BY <1>17 DEF RequestEnds, callVars
  <2>2. CASE call' = NoCall
    BY <2>1, <2>2, <1>3 DEF NoCall
  <2>3. CASE ValidBambu(config) /\ call' = [call EXCEPT !.stage = "mutex", !.config = config]
    <3>1. call'.config = config
      BY <2>3 DEF Shape
    <3> QED BY <2>1, <2>3, <3>1, <1>3
  <2> QED BY <1>17, <2>2, <2>3 DEF RequestEnds, Returns
<1>18. CASE Replace
  <2>1. call.stage = "mutex" /\ ValidBambu(call.config) /\ phase = "running"
        /\ call'.stage # "mutex" /\ UNCHANGED <<haUsed, phase, prov, started, restart>>
    BY <1>18 DEF Replace, Returns, NoCall, StoredInv, Shape
  <2>2. CASE nvs' = nvs /\ ram' = ram
    BY <2>1, <2>2, <1>3
  <2>3. CASE /\ nvs'.bambu = EncodeBambu(call.config) /\ ram'.bambu = call.config
             /\ nvs'.app = nvs.app /\ nvs'.ha = nvs.ha /\ ram'.app = ram.app
    <3>1. LoadedBambu' = call.config
      BY <2>1, <2>3, StoredBambu DEF LoadedBambu
    <3> QED BY <2>1, <2>3, <3>1 DEF StoredInv, RunsWhatIsStored, LoadedHa
  <2> QED BY <1>18, <2>2, <2>3 DEF Replace, Shape
<1>19. CASE TaskSteps
  BY <1>19, <1>3 DEF TaskSteps, WorkerSteps, WorkerReleases, MqttSteps, MqttReleases, callVars, StoredInv
<1> QED
  BY <1>4, <1>5, <1>6, <1>7, <1>8, <1>9, <1>10, <1>11, <1>12, <1>13, <1>14, <1>15, <1>16, <1>17,
     <1>18, <1>19 DEF Next, CloudCall

\* A device only runs with a valid configuration, and with the stored one unless it is
\* about to restart (setup(), ensureConnected(), the saves of the portals).
THEOREM StoredIsRun == Spec => []RunsWhatIsStored
<1>1. StoredInv => RunsWhatIsStored
  BY DEF StoredInv
<1> QED BY <1>1, ShapeInvariant, InitStored, NextStored, PTL DEF Spec

-----------------------------------------------------------------------------
(* Numbers *)

\* The least element: intervals from 0 are well-founded under strict inclusion.
LEMMA LeastOf ==
  ASSUME NEW T \in SUBSET Nat, T # {}
  PROVE  \E m \in T : \A k \in T : m <= k
<1> DEFINE below == {0..m : m \in T}
<1>1. below # {} /\ below \subseteq FiniteSubsetsOf(Nat)
  <2>1. \A m \in T : 0..m \subseteq Nat /\ IsFiniteSet(0..m)
    BY FS_Interval
  <2> QED BY <2>1 DEF FiniteSubsetsOf
<1>2. PICK s \in below : \A r \in below : <<r, s>> \notin StrictSubsetOrdering(Nat)
  <2> HIDE DEF below
  <2> QED BY <1>1, WFMin, FS_StrictSubsetOrderingWellFounded
<1>3. PICK m \in T : s = 0..m
  OBVIOUS
<1>4. ASSUME NEW k \in T PROVE m <= k
  <2>1. 0..k \in SUBSET Nat /\ 0..m \in SUBSET Nat
    OBVIOUS
  <2>2. <<0..k, 0..m>> \notin StrictSubsetOrdering(Nat)
    BY <1>2, <1>3
  <2>3. ~(0..k \subseteq 0..m /\ 0..k # 0..m)
    BY <2>1, <2>2 DEF StrictSubsetOrdering
  <2>4. k < m => m \notin 0..k /\ 0..k \subseteq 0..m /\ m \in 0..m
    OBVIOUS
  <2> QED BY <2>3, <2>4
<1> QED BY <1>4

\* The greatest element of a set with a bound.
LEMMA GreatestOf ==
  ASSUME NEW n \in Nat, NEW T \in SUBSET (0..n), T # {}
  PROVE  \E m \in T : \A k \in T : k <= m
<1> DEFINE distances == {n - k : k \in T}
<1>1. distances \in SUBSET Nat /\ distances # {}
  <2>1. \A k \in T : n - k \in Nat
    OBVIOUS
  <2> QED BY <2>1
<1>2. PICK d \in distances : \A e \in distances : d <= e
  BY <1>1, LeastOf
<1>3. PICK m \in T : d = n - m
  OBVIOUS
<1>4. \A k \in T : d <= n - k
  BY <1>2
<1> QED BY <1>3, <1>4

LEMMA FirstNumbers ==
  ASSUME NEW n \in Nat PROVE IsFiniteSet(1..n) /\ Cardinality(1..n) = n
<1>1. 1 \in Int /\ n \in Int
  OBVIOUS
<1>2. IsFiniteSet(1..n) /\ Cardinality(1..n) = IF 1 > n THEN 0 ELSE n - 1 + 1
  BY <1>1, FS_Interval, Zenon
<1> QED BY <1>2

\* Of n rows in use, each number up to n is the rank of one.
LEMMA RankedRow ==
  ASSUME NEW S \in SUBSET Nat, IsFiniteSet(S), NEW n \in 1..Cardinality(S)
  PROVE  \E i \in S : Cardinality({j \in S : j <= i}) = n
<1> DEFINE upTo(i) == {j \in S : j <= i}
           missed == {k \in 1..Cardinality(S) : \A i \in S : Cardinality(upTo(i)) # k}
<1> SUFFICES ASSUME n \in missed PROVE FALSE
  OBVIOUS
<1>1. Cardinality(S) \in Nat /\ \A i \in S : IsFiniteSet(upTo(i))
  <2>1. \A i \in S : upTo(i) \in SUBSET S
    OBVIOUS
  <2> QED BY <2>1, FS_CardinalityType, FS_Subset
<1>2. PICK k \in missed : \A l \in missed : k <= l
  <2>1. missed \in SUBSET Nat /\ missed # {}
    OBVIOUS
  <2> HIDE DEF missed
  <2> QED BY <2>1, LeastOf
<1>3. PICK below \in SUBSET S : /\ IsFiniteSet(below) /\ Cardinality(below) = k - 1
                                /\ \A i \in below, j \in S : j <= i => j \in below
  <2>1. CASE k = 1
    BY <2>1, FS_EmptySet
  <2>2. CASE k # 1
    <3>1. k - 1 \in 1..Cardinality(S) /\ k - 1 \notin missed
      BY <1>1, <1>2, <2>2
    <3>2. PICK i \in S : Cardinality(upTo(i)) = k - 1
      BY <3>1
    <3>3. upTo(i) \in SUBSET S /\ \A a \in upTo(i), j \in S : j <= a => j \in upTo(i)
      OBVIOUS
    <3> QED BY <1>1, <3>2, <3>3
  <2> QED BY <2>1, <2>2
<1>4. S \ below # {} /\ S \ below \in SUBSET Nat
  <2>1. below # S
    BY <1>1, <1>3
  <2> QED BY <2>1
<1>5. PICK i \in S \ below : \A j \in S \ below : i <= j
  BY <1>4, LeastOf
<1>6. upTo(i) = below \cup {i}
  <2>1. \A j \in upTo(i) : j \in below \/ j = i
    BY <1>5
  <2>2. \A j \in below : j <= i
    BY <1>3, <1>5
  <2> QED BY <1>3, <1>5, <2>1, <2>2
<1>7. Cardinality(upTo(i)) = k
  BY <1>3, <1>5, <1>6, FS_AddElement
<1> QED BY <1>5, <1>7

-----------------------------------------------------------------------------
(* The form of the settings *)

\* The rows in use are numbered without a gap.
LEMMA UsedRowsFinite ==
  ASSUME NEW f
  PROVE  /\ UsedRows(f) \in SUBSET Nat /\ IsFiniteSet(UsedRows(f))
         /\ Cardinality(UsedRows(f)) \in 0..RowCount
<1>1. UsedRows(f) \in SUBSET (1..5)
  BY DEF UsedRows, RowCount
<1>2. IsFiniteSet(1..5) /\ Cardinality(1..5) = 5
  BY FirstNumbers
<1>3. IsFiniteSet(UsedRows(f)) /\ Cardinality(UsedRows(f)) <= 5
  BY <1>1, <1>2, FS_Subset
<1> QED BY <1>1, <1>3, FS_CardinalityType DEF RowCount

LEMMA UsedRowIsUsed ==
  ASSUME NEW f, NEW n \in 1..Cardinality(UsedRows(f))
  PROVE  \E i \in UsedRows(f) : UsedRow(f, n) = f.rows[i]
<1>1. \E i \in UsedRows(f) : Cardinality({j \in UsedRows(f) : j <= i}) = n
  BY UsedRowsFinite, RankedRow
<1> QED BY <1>1 DEF UsedRow

\* Rounding keeps a coordinate in its range, and one that was printed comes back.
LEMMA Coordinates ==
  ASSUME NEW limit \in Nat
  PROVE  /\ \A t : InRange(t, limit) /\ t.value \in Int => ParseCoordinate(t) \in -limit..limit
         /\ \A e6 \in -limit..limit : /\ InRange(FormatCoordinate(e6), limit)
                                      /\ ParseCoordinate(FormatCoordinate(e6)) = e6
<1>1. ASSUME NEW v \in Int, -2 * limit <= v, v <= 2 * limit
      PROVE  (IF v >= 0 THEN (v + 1) \div 2 ELSE -((1 - v) \div 2)) \in -limit..limit
  <2>1. CASE v >= 0
    BY <1>1, <2>1
  <2>2. CASE v < 0
    BY <1>1, <2>2
  <2> QED BY <2>1, <2>2
<1>2. ASSUME NEW e6 \in -limit..limit
      PROVE  (IF 2 * e6 >= 0 THEN (2 * e6 + 1) \div 2 ELSE -((1 - 2 * e6) \div 2)) = e6
  <2>1. CASE e6 >= 0
    BY <2>1
  <2>2. CASE e6 < 0
    BY <2>2
  <2> QED BY <2>1, <2>2
<1>3. ASSUME NEW t, InRange(t, limit), t.value \in Int PROVE ParseCoordinate(t) \in -limit..limit
  BY <1>1, <1>3 DEF InRange, ParseCoordinate
<1>4. ASSUME NEW e6 \in -limit..limit
      PROVE  InRange(FormatCoordinate(e6), limit) /\ ParseCoordinate(FormatCoordinate(e6)) = e6
  BY <1>2 DEF InRange, FormatCoordinate, ParseCoordinate
<1> QED BY <1>3, <1>4

LEMMA Limits == LatitudeLimit \in Nat /\ LongitudeLimit \in Nat
  BY SMT DEF LatitudeLimit, LongitudeLimit

\* What buildConfig() accepts is a configuration, whatever was typed.
LEMMA CandidateType ==
  ASSUME NEW f, Typed(f), Accepted(f)
  PROVE  Candidate(f) \in App /\ Validate(Candidate(f))
<1> DEFINE c == Candidate(f)
           count == Cardinality(UsedRows(f))
           stocks == [n \in 1..count |-> StockIn(UsedRow(f, n))]
           location == IF NeedsLocation(f)
                       THEN [name |-> f.locationName, latitude |-> ParseCoordinate(f.latitude),
                             longitude |-> ParseCoordinate(f.longitude)]
                       ELSE NoLocation
<1>1. Validate(c)
  BY DEF Accepted
<1>2. c = [refresh |-> f.refresh, stocks |-> stocks, location |-> location,
           enabled |-> f.weatherEnabled = "1", weatherRefresh |-> f.weatherRefresh]
  BY DEF Candidate
<1>3. count \in Nat
  BY UsedRowsFinite DEF RowCount
<1>4. ASSUME NEW n \in 1..count PROVE StockIn(UsedRow(f, n)) \in Stock
  <2>1. PICK i \in UsedRows(f) : UsedRow(f, n) = f.rows[i]
    BY UsedRowIsUsed
  <2> DEFINE row == f.rows[i]
  <2>2. /\ row.symbol.kind \in {"blank", "code", "other"} /\ row.symbol.suffix \in Exchanges \cup {NoSuffix}
        /\ row.symbol.kind = "code" => row.symbol.code \in Codes
        /\ row.name \in Names
    BY <2>1 DEF Typed, UsedRows
  <2>3. stocks[n] = StockIn(row) /\ DOMAIN stocks = 1..count
    BY <2>1
  <2> HIDE DEF row, stocks, count
  <2>4. StockIn(row).symbol # NoSymbol
    BY <1>1, <1>2, <2>3 DEF Validate
  <2>5. ParseSymbol(row.symbol) # NoSymbol
    BY <2>4 DEF StockIn
  <2>6. ParseSymbol(row.symbol) \in [code : Codes, exchange : Exchanges]
    BY <2>2, <2>5, AppConfigAssumption DEF ParseSymbol
  <2> QED BY <2>1, <2>2, <2>6 DEF StockIn, Stock, IsBlank, Names, row
<1>5. stocks \in Seq(Stock)
  <2>1. stocks \in [1..count -> Stock]
    BY <1>4
  <2> HIDE DEF stocks, count
  <2> QED BY <1>3, <2>1
<1>6. location \in [name : Names \ {"blank"}, latitude : Latitudes, longitude : Longitudes]
  <2>1. CASE NeedsLocation(f)
    <3>1. /\ InRange(f.latitude, LatitudeLimit) /\ InRange(f.longitude, LongitudeLimit)
          /\ f.locationName \in Names /\ f.locationName # "blank"
          /\ f.latitude.value \in Int /\ f.longitude.value \in Int
      BY <2>1 DEF Accepted, Typed, IsBlank
    <3>2. ParseCoordinate(f.latitude) \in Latitudes /\ ParseCoordinate(f.longitude) \in Longitudes
      BY <3>1, Coordinates, Limits DEF Latitudes, Longitudes
    <3> QED BY <2>1, <3>1, <3>2
  <2>2. CASE ~NeedsLocation(f)
    BY <2>2, Limits DEF NoLocation, Names, Latitudes, Longitudes
  <2> QED BY <2>1, <2>2
<1> HIDE DEF stocks, location, c
<1>7. c \in App
  BY <1>2, <1>5, <1>6 DEF App, Accepted
<1> QED BY <1>1, <1>7 DEF c

\* A configuration comes out of the form as it went in.
LEMMA RoundTrip ==
  ASSUME NEW c \in App, Validate(c)
  PROVE  Accepted(FromConfig(c)) /\ Candidate(FromConfig(c)) = c
<1> DEFINE f == FromConfig(c)
           n == Len(c.stocks)
           shown(e6) == IF ShowsCoordinates(c) THEN FormatCoordinate(e6) ELSE BlankNumber
           rows == [i \in 1..RowCount |->
                     IF i \in DOMAIN c.stocks
                     THEN [symbol |-> Canonical(c.stocks[i].symbol), name |-> c.stocks[i].name]
                     ELSE EmptyRow]
<1>1. /\ c.stocks \in Seq(Stock) /\ n \in 3..5 /\ DOMAIN c.stocks = 1..n
      /\ \A i \in 1..n : c.stocks[i] \in Stock
      /\ c.location \in [name : Names \ {"blank"}, latitude : Latitudes, longitude : Longitudes]
  BY DEF App, Validate, CountAllowed, StockCounts
<1>2. /\ f.rows = rows /\ f.refresh = c.refresh /\ f.locationName = c.location.name
      /\ f.latitude = shown(c.location.latitude) /\ f.longitude = shown(c.location.longitude)
      /\ f.weatherEnabled = (IF c.enabled THEN "1" ELSE "0") /\ f.weatherRefresh = c.weatherRefresh
  BY DEF FromConfig
<1> HIDE DEF f, n, rows, shown
<1>3. /\ \A i \in 1..n : rows[i] = [symbol |-> Canonical(c.stocks[i].symbol), name |-> c.stocks[i].name]
      /\ \A i \in 1..RowCount : i \notin 1..n => rows[i] = EmptyRow
  BY <1>1 DEF rows, RowCount
<1>4. UsedRows(f) = 1..n
  <2>1. ASSUME NEW i \in 1..n PROVE rows[i].symbol.kind = "code"
    <3>1. rows[i] = [symbol |-> Canonical(c.stocks[i].symbol), name |-> c.stocks[i].name]
      BY <1>3, Zenon
    <3> QED BY <3>1 DEF Canonical
  <2>2. \A i \in 1..RowCount : i \notin 1..n => rows[i].symbol.kind = "blank"
    BY <1>3 DEF EmptyRow, BlankText
  <2>3. 1..n \subseteq 1..RowCount
    BY <1>1 DEF RowCount
  <2> QED BY <1>2, <2>1, <2>2, <2>3 DEF UsedRows
<1>5. Cardinality(1..n) = n
  BY <1>1, FirstNumbers
<1>6. ASSUME NEW k \in 1..n PROVE StockIn(UsedRow(f, k)) = c.stocks[k]
  <2>1. ASSUME NEW i \in 1..n PROVE Cardinality({j \in 1..n : j <= i}) = i
    <3>1. {j \in 1..n : j <= i} = 1..i /\ i \in Nat
      BY <1>1
    <3>2. Cardinality(1..i) = i
      BY <3>1, FirstNumbers
    <3> QED BY <3>1, <3>2
  <2>2. (CHOOSE i \in 1..n : Cardinality({j \in 1..n : j <= i}) = k) = k
    BY <2>1
  <2>3. UsedRow(f, k) = [symbol |-> Canonical(c.stocks[k].symbol), name |-> c.stocks[k].name]
    BY <1>2, <1>3, <1>4, <2>2 DEF UsedRow
  <2>4. c.stocks[k] \in Stock
    BY <1>1
  <2>5. ParseSymbol(Canonical(c.stocks[k].symbol)) = c.stocks[k].symbol
    BY <2>4 DEF Stock, ParseSymbol, Canonical, Exchanges, NoSuffix
  <2>6. (IF IsBlank(c.stocks[k].name) THEN "empty" ELSE c.stocks[k].name) = c.stocks[k].name
    BY <2>4 DEF Stock, IsBlank
  <2> QED BY <2>3, <2>4, <2>5, <2>6 DEF StockIn, Stock
<1>7. c.enabled \in BOOLEAN /\ (ShowsCoordinates(c) <=> LocationPresent(c))
  BY DEF App, ShowsCoordinates, LocationPresent
<1>8. NeedsLocation(f) <=> LocationPresent(c)
  <2>1. CASE LocationPresent(c)
    <3>1. f.latitude.kind = "number"
      BY <1>2, <1>7, <2>1 DEF shown, FormatCoordinate
    <3> QED BY <2>1, <3>1 DEF NeedsLocation
  <2>2. CASE ~LocationPresent(c)
    <3>1. f.latitude = BlankNumber /\ f.longitude = BlankNumber
      BY <1>2, <1>7, <2>2 DEF shown
    <3>2. f.locationName = "empty" /\ f.weatherEnabled = "0"
      BY <1>2, <1>7, <2>2 DEF LocationPresent, NoLocation
    <3> QED BY <2>2, <3>1, <3>2 DEF NeedsLocation, BlankNumber, IsBlank
  <2> QED BY <2>1, <2>2
<1>9. LocationPresent(c) =>
        /\ InRange(f.latitude, LatitudeLimit) /\ ParseCoordinate(f.latitude) = c.location.latitude
        /\ InRange(f.longitude, LongitudeLimit) /\ ParseCoordinate(f.longitude) = c.location.longitude
        /\ ~IsBlank(f.locationName)
  <2> SUFFICES ASSUME LocationPresent(c)
               PROVE  /\ InRange(f.latitude, LatitudeLimit) /\ ParseCoordinate(f.latitude) = c.location.latitude
                      /\ InRange(f.longitude, LongitudeLimit) /\ ParseCoordinate(f.longitude) = c.location.longitude
                      /\ ~IsBlank(f.locationName)
    OBVIOUS
  <2>1. /\ f.latitude = FormatCoordinate(c.location.latitude)
        /\ f.longitude = FormatCoordinate(c.location.longitude)
    BY <1>2, <1>7 DEF shown
  <2>2. c.location.latitude \in -LatitudeLimit..LatitudeLimit
        /\ c.location.longitude \in -LongitudeLimit..LongitudeLimit
    BY <1>1 DEF Latitudes, Longitudes
  <2>3. c.location.name \in Names \ {"empty", "blank", "long"}
    BY <1>1 DEF Validate
  <2> QED BY <1>2, <2>1, <2>2, <2>3, Coordinates, Limits DEF IsBlank
<1>10. Candidate(f) = c
  <2>1. c.stocks = [k \in 1..n |-> c.stocks[k]]
    BY <1>1
  <2>2. [k \in 1..n |-> StockIn(UsedRow(f, k))] = c.stocks
    BY <1>6, <2>1
  <2>3. (IF NeedsLocation(f)
         THEN [name |-> f.locationName, latitude |-> ParseCoordinate(f.latitude),
               longitude |-> ParseCoordinate(f.longitude)]
         ELSE NoLocation) = c.location
    <3>1. CASE LocationPresent(c)
      BY <1>1, <1>2, <1>8, <1>9, <3>1
    <3>2. CASE ~LocationPresent(c)
      BY <1>8, <3>2 DEF LocationPresent
    <3> QED BY <3>1, <3>2
  <2>4. (f.weatherEnabled = "1") = c.enabled
    BY <1>2, <1>7
  <2>5. Candidate(f) = [refresh |-> c.refresh, stocks |-> c.stocks, location |-> c.location,
                        enabled |-> c.enabled, weatherRefresh |-> c.weatherRefresh]
    BY <1>2, <1>4, <1>5, <2>2, <2>3, <2>4 DEF Candidate
  <2> QED BY <2>5 DEF App
<1>11. Accepted(f)
  <2>1. f.refresh \in QuoteRefresh /\ f.weatherEnabled \in {"0", "1"} /\ f.weatherRefresh \in WeatherRefresh
    BY <1>2 DEF App
  <2>2. ASSUME NEW i \in 1..RowCount, f.rows[i].symbol.kind = "blank" PROVE IsBlank(f.rows[i].name)
    <3>1. i \notin 1..n
      BY <1>4, <2>2 DEF UsedRows
    <3> QED BY <1>2, <1>3, <3>1 DEF EmptyRow, IsBlank
  <2> QED BY <1>8, <1>9, <1>10, <2>1, <2>2 DEF Accepted
<1> QED BY <1>10, <1>11 DEF f

-----------------------------------------------------------------------------
(* The settings in flash and in memory *)

\* What is stored as settings, or will be loaded, is a configuration a form gives.
SettingsInv ==
  /\ nvs.app.schema \in 0..2
  /\ nvs.app.schema = 2 \/ Decodes(nvs.app) => nvs.app.config \in App /\ Validate(nvs.app.config)
  /\ ram.app \in App

LEMMA DefaultsType == Defaults \in App
<1>1. <<>> \in Seq(Stock)
  OBVIOUS
<1>2. NoLocation \in [name : Names \ {"blank"}, latitude : Latitudes, longitude : Longitudes]
  BY Limits DEF NoLocation, Names, Latitudes, Longitudes
<1> QED BY <1>1, <1>2 DEF Defaults, App, QuoteRefresh, WeatherRefresh

LEMMA SubmittedTyped ==
  ASSUME NEW f \in Forms, Accepted(f) PROVE Candidate(f) \in App /\ Validate(Candidate(f))
BY InputAssumption, CandidateType

LEMMA InitSettings == Init => SettingsInv
<1> SUFFICES ASSUME Init PROVE SettingsInv
  OBVIOUS
<1>1. nvs.app \in StoredApps /\ ram.app = Defaults
  BY DEF Init, InitialRam
<1>2. nvs.app.schema \in 0..2
  BY <1>1, LifecycleAssumption
<1>3. nvs.app.schema = 2 \/ Decodes(nvs.app) => nvs.app.config \in App /\ Validate(nvs.app.config)
  BY <1>1, InputAssumption
<1> QED BY <1>1, <1>2, <1>3, DefaultsType DEF SettingsInv

LEMMA NextSettings == Shape /\ SettingsInv /\ [Next]_lifeVars => SettingsInv'
<1> SUFFICES ASSUME Shape, SettingsInv, [Next]_lifeVars PROVE SettingsInv'
  OBVIOUS
<1>1. ASSUME nvs'.app = nvs.app, ram'.app \in {ram.app, Defaults} PROVE SettingsInv'
  BY <1>1, DefaultsType DEF SettingsInv
<1>2. ASSUME NEW config, config \in App, Validate(config), nvs'.app = Encode(config),
             ram'.app \in {ram.app, Defaults, config}
      PROVE  SettingsInv'
  <2>1. nvs'.app.schema = 2 /\ nvs'.app.config = config
    BY <1>2 DEF Encode
  <2> QED BY <1>2, <2>1, DefaultsType DEF SettingsInv
<1>3. ASSUME PowerOff, nvs'.app = nvs.app PROVE SettingsInv'
  BY <1>3, <1>1 DEF PowerOff, InitialRam
<1>4. CASE UNCHANGED <<nvs, ram>>
  BY <1>4, <1>1
<1>5. CASE PowerLoss \/ Restart
  BY <1>5, <1>3 DEF PowerLoss, Restart
<1>6. CASE Boot
  <2>1. /\ nvs'.app \in Rewritten(nvs.app, Decodes(nvs.app), Encode(nvs.app.config))
        /\ ram'.app = IF Decodes(nvs.app) THEN nvs.app.config ELSE Defaults
    BY <1>6 DEF Boot, Shape
  <2>2. CASE Decodes(nvs.app)
    <3>1. nvs.app.config \in App /\ Validate(nvs.app.config)
      BY <2>2 DEF SettingsInv
    <3>2. nvs'.app = nvs.app \/ nvs'.app = Encode(nvs.app.config)
      BY <2>1 DEF Rewritten
    <3>3. ram'.app = nvs.app.config
      BY <2>1, <2>2
    <3>4. CASE nvs'.app = nvs.app
      BY <3>1, <3>3, <3>4 DEF SettingsInv
    <3> QED BY <1>2, <3>1, <3>2, <3>3, <3>4
  <2>3. CASE ~Decodes(nvs.app)
    BY <2>1, <2>3, <1>1 DEF Rewritten
  <2> QED BY <2>2, <2>3
<1>7. CASE FinishProvisioning
  <2>1. nvs'.app = nvs.app
    BY <1>7 DEF FinishProvisioning, Shape
  <2> QED BY <1>7, <2>1, <1>1, <1>3 DEF FinishProvisioning
<1>8. ASSUME NEW o \in Outcomes, NEW fields \in FieldsAfter(o), PortalReturns(o, fields)
      PROVE  SettingsInv'
  <2>1. \/ nvs' = nvs /\ ram'.app \in {ram.app, Defaults}
        \/ /\ o.params /\ o.saved /\ Accepted(fields)
           /\ nvs'.app = Encode(Candidate(fields))
           /\ ram'.app \in {Candidate(fields), Defaults}
    BY <1>8 DEF PortalReturns, PortalOutcome, InitialRam, Shape
  <2>2. o.saved => fields \in Forms
    BY DEF FieldsAfter, PortalForms
  <2> QED BY <2>1, <2>2, <1>1, <1>2, SubmittedTyped
<1>9. ASSUME NEW config \in SubmittedConfigs, SaveSettings(config) PROVE SettingsInv'
  <2>1. config \in App /\ Validate(config)
    BY SubmittedTyped DEF SubmittedConfigs
  <2>2. nvs'.app = Encode(config) /\ ram' = ram
    BY <1>9 DEF SaveSettings, Shape
  <2> QED BY <2>1, <2>2, <1>2
<1>10. CASE Reconfigure
  BY <1>10, <1>1 DEF Reconfigure, Shape
<1>11. ASSUME NEW form, SaveHa(form) PROVE SettingsInv'
  BY <1>11, <1>1 DEF SaveHa, HaInMemory, Shape
<1>12. CASE Replace
  BY <1>12, <1>1 DEF Replace, Shape
<1> QED
  BY <1>4, <1>5, <1>6, <1>7, <1>8, <1>9, <1>10, <1>11, <1>12
     DEF Next, lifeVars, SetUp, Discover, SaveBambu, LogoutBambu, CloudCall, TakeArbiter,
         RequestEnds, TaskSteps, WorkerSteps, WorkerReleases, MqttSteps, MqttReleases, callVars

\* A device that boots is not sent to its portal by its own configuration, and a portal that
\* shows it and saves it again changes nothing, for any stocks, names and coordinates
\* (fromConfig(), buildConfig()).
THEOREM StoredAlwaysStarts == Spec => []StoredConfigStarts
<1>1. SettingsInv => StoredConfigStarts
  <2> SUFFICES ASSUME SettingsInv, Decodes(nvs.app)
               PROVE  /\ Accepted(FromConfig(nvs.app.config))
                      /\ Candidate(FromConfig(nvs.app.config)) = nvs.app.config
    BY DEF StoredConfigStarts
  <2> QED BY RoundTrip DEF SettingsInv
<1> QED BY <1>1, ShapeInvariant, InitSettings, NextSettings, PTL DEF Spec

-----------------------------------------------------------------------------
(* Types: Home Assistant *)

HaInv ==
  /\ nvs.ha \in [schema : 0..1, config : HaConfig]
  /\ ram.ha \in HaConfig /\ haUsed \in HaConfig
  /\ entered \in [token : HaTokens \cup {NoHaToken}, cert : BOOLEAN]

LEMMA NoHaType == NoHa \in HaConfig
BY HomeAssistantAssumption DEF NoHa, HaConfig, RefreshSeconds

LEMMA LoadedHaType == nvs.ha \in [schema : 0..1, config : HaConfig] => LoadedHa \in HaConfig
BY NoHaType DEF LoadedHa

LEMMA SubmittedHaType ==
  ASSUME NEW current \in HaConfig, NEW form \in HaForms, HaFormComplete(form),
         ValidHa(SubmittedHa(current, form))
  PROVE  SubmittedHa(current, form) \in HaConfig
<1> DEFINE new == SubmittedHa(current, form)
<1>1. /\ form.enabled \in BOOLEAN /\ form.cert \in BOOLEAN /\ form.clear \in BOOLEAN
      /\ form.url \in {"none", "http", "https", "malformed"}
      /\ form.token \in HaTokens \cup {NoHaToken} /\ form.entities \in Nat
  BY InputAssumption
<1>2. /\ new.url = form.url /\ new.entities = form.entities
      /\ form.url # "malformed" /\ form.entities <= EntityLimit
  BY DEF SubmittedHa, ValidHa
<1>3. SubmittedSecrets(current, form).token \in HaTokens \cup {NoHaToken}
      /\ SubmittedSecrets(current, form).cert \in BOOLEAN
  BY <1>1 DEF SubmittedSecrets, HaConfig
<1>4. form.url \in {"none", "http", "https"} /\ form.entities \in 0..EntityLimit
      /\ form.refresh \in RefreshSeconds
  BY <1>1, <1>2, HomeAssistantAssumption DEF HaFormComplete
<1> QED BY <1>1, <1>3, <1>4 DEF SubmittedHa, HaConfig

LEMMA SecretsType ==
  /\ \A current \in HaConfig : Secrets(current) \in [token : HaTokens \cup {NoHaToken}, cert : BOOLEAN]
  /\ \A form \in HaForms, known \in [token : HaTokens \cup {NoHaToken}, cert : BOOLEAN] :
       SubmittedSecrets(known, form) \in [token : HaTokens \cup {NoHaToken}, cert : BOOLEAN]
<1>1. ASSUME NEW current \in HaConfig
      PROVE  Secrets(current) \in [token : HaTokens \cup {NoHaToken}, cert : BOOLEAN]
  BY DEF Secrets, HaConfig
<1>2. ASSUME NEW form \in HaForms, NEW known \in [token : HaTokens \cup {NoHaToken}, cert : BOOLEAN]
      PROVE  SubmittedSecrets(known, form) \in [token : HaTokens \cup {NoHaToken}, cert : BOOLEAN]
  <2>1. form.cert \in BOOLEAN /\ form.token \in HaTokens \cup {NoHaToken}
    BY InputAssumption
  <2> QED BY <2>1 DEF SubmittedSecrets
<1> QED BY <1>1, <1>2

LEMMA InitHa == Init => HaInv
<1> SUFFICES ASSUME Init PROVE HaInv
  OBVIOUS
<1>1. /\ nvs.ha \in StoredHas /\ ram.ha = NoHa /\ haUsed = NoHa /\ entered = Secrets(LoadedHa)
  BY DEF Init, InitialRam, LoadedHa
<1>2. nvs.ha \in [schema : 0..1, config : HaConfig]
  BY <1>1, InputAssumption
<1>3. LoadedHa \in HaConfig
  BY <1>2, LoadedHaType
<1> QED BY <1>1, <1>2, <1>3, NoHaType, SecretsType DEF HaInv

LEMMA NextHa == Shape /\ HaInv /\ [Next]_lifeVars => HaInv'
<1> SUFFICES ASSUME Shape, HaInv, [Next]_lifeVars PROVE HaInv'
  OBVIOUS
<1>1. ASSUME nvs'.ha = nvs.ha, ram'.ha \in HaConfig, haUsed' \in {haUsed, NoHa, ram.ha}, entered' = entered
      PROVE  HaInv'
  BY <1>1, NoHaType DEF HaInv
<1>2. ram.ha \in HaConfig
  BY DEF HaInv
<1>3. ASSUME PowerOff, nvs'.ha = nvs.ha, entered' = entered PROVE HaInv'
  BY <1>3, <1>1, NoHaType DEF PowerOff, InitialRam
<1>4. CASE UNCHANGED <<nvs, ram, haUsed, entered>>
  BY <1>4, <1>1, <1>2
<1>5. CASE PowerLoss \/ Restart
  BY <1>5, <1>3 DEF PowerLoss, Restart
<1>6. CASE Boot
  <2>1. nvs'.ha = nvs.ha /\ ram'.ha = LoadedHa /\ haUsed' = haUsed /\ entered' = entered
    BY <1>6 DEF Boot, Shape
  <2> QED BY <2>1, <1>1, LoadedHaType DEF HaInv
<1>7. CASE FinishProvisioning
  <2>1. nvs'.ha = nvs.ha /\ entered' = entered
    BY <1>7 DEF FinishProvisioning, Shape
  <2> QED BY <1>7, <2>1, <1>1, <1>2, <1>3 DEF FinishProvisioning
<1>8. CASE SetUp
  BY <1>8, <1>1, <1>2 DEF SetUp
<1>9. ASSUME NEW o \in Outcomes, NEW fields \in FieldsAfter(o), PortalReturns(o, fields)
      PROVE  HaInv'
  <2>1. nvs'.ha = nvs.ha /\ entered' = entered /\ (ram'.ha = ram.ha \/ ram'.ha = NoHa)
    BY <1>9 DEF PortalReturns, InitialRam, Shape
  <2>2. haUsed' \in {haUsed, NoHa}
    BY <1>9 DEF PortalReturns, Retry, Decided, PowerOff
  <2> QED BY <2>1, <2>2, <1>1, <1>2, NoHaType
<1>10. ASSUME NEW config, SaveSettings(config) PROVE HaInv'
  BY <1>10, <1>1, <1>2 DEF SaveSettings, Shape
<1>11. CASE Reconfigure
  BY <1>11, <1>1, <1>2 DEF Reconfigure, Shape
<1>12. ASSUME NEW form \in HaForms, SaveHa(form) PROVE HaInv'
  <2> DEFINE submitted == SubmittedHa(ram.ha, form)
  <2>1. /\ nvs'.ha = EncodeHa(submitted) /\ ram'.ha = submitted /\ haUsed' = haUsed
        /\ entered' = SubmittedSecrets(entered, form) /\ HaFormComplete(form) /\ ValidHa(submitted)
    BY <1>12 DEF SaveHa, HaInMemory, Shape
  <2>2. submitted \in HaConfig
    BY <2>1, <1>2, SubmittedHaType
  <2> HIDE DEF submitted
  <2> QED BY <2>1, <2>2, SecretsType DEF HaInv, EncodeHa
<1>13. CASE Replace
  BY <1>13, <1>1, <1>2 DEF Replace, Shape
<1> QED
  BY <1>4, <1>5, <1>6, <1>7, <1>8, <1>9, <1>10, <1>11, <1>12, <1>13
     DEF Next, lifeVars, Discover, SaveBambu, LogoutBambu, CloudCall, TakeArbiter,
         RequestEnds, TaskSteps, WorkerSteps, WorkerReleases, MqttSteps, MqttReleases, callVars

-----------------------------------------------------------------------------
(* Types: Bambu *)

Tokens == Token \cup {NoToken}

\* A request is made with a token.
BambuInv ==
  /\ nvs.bambu \in [schema : 0..2, config : BambuConfig] /\ ram.bambu \in BambuConfig
  /\ call.kind \in {"none", "discover", "save"} /\ call.stage \in {"none", "arbiter", "request", "mutex"}
  /\ call.token \in Tokens /\ call.region \in Regions /\ call.config \in BambuConfig
  /\ call.stage \in {"arbiter", "request"} => call.token \in Token

LEMMA NoBambuType == NoBambu \in BambuConfig
<1>1. <<>> \in Seq(PrinterSerials \cup {BadSerial})
  OBVIOUS
<1> QED BY <1>1 DEF NoBambu, BambuConfig, Regions

LEMMA UpgradedType ==
  ASSUME NEW text \in [schema : 0..2, config : BambuConfig] PROVE Upgraded(text) \in BambuConfig
BY DEF Upgraded, BambuConfig

LEMMA LoadedBambuType ==
  nvs.bambu \in [schema : 0..2, config : BambuConfig] => LoadedBambu \in BambuConfig
BY NoBambuType, UpgradedType DEF LoadedBambu

\* The place of the last printer with the serial, where there is one.
LEMMA ActiveIndexType ==
  ASSUME NEW printers \in Seq(PrinterSerials \cup {BadSerial}), NEW serial
  PROVE  ActiveIndex(printers, serial) \in Nat
<1> DEFINE at == {i \in DOMAIN printers : printers[i] = serial}
<1>1. CASE at = {}
  BY <1>1 DEF ActiveIndex
<1>2. CASE at # {}
  <2>1. DOMAIN printers = 1..Len(printers) /\ Len(printers) \in Nat
    OBVIOUS
  <2>2. at \in SUBSET (0..Len(printers)) /\ \A i \in at : i \in Nat /\ i >= 1
    BY <2>1
  <2> DEFINE last == CHOOSE i \in at : \A j \in at : j <= i
  <2>3. ActiveIndex(printers, serial) = last - 1
    BY <1>2 DEF ActiveIndex
  <2> HIDE DEF at
  <2>4. last \in at
    BY <1>2, <2>1, <2>2, GreatestOf
  <2> HIDE DEF last
  <2> QED BY <2>2, <2>3, <2>4
<1> QED BY <1>1, <1>2

LEMMA CredentialTypes ==
  ASSUME NEW c \in BambuConfig, NEW input \in BambuInputs
  PROVE  Credentials(c, input).token \in Tokens /\ Credentials(c, input).user \in Users \cup {NoUser}
<1>1. input.region \in Regions /\ input.tokenId \in TokenIds \cup {NoTokenId}
  BY InputAssumption
<1>2. CASE input.tokenId # NoTokenId
  BY <1>1, <1>2 DEF Credentials, Token, Tokens
<1>3. CASE input.tokenId = NoTokenId
  BY <1>3 DEF Credentials, BambuConfig, Tokens
<1> QED BY <1>2, <1>3

LEMMA MergeType ==
  ASSUME NEW c \in BambuConfig, NEW input \in BambuInputs
  PROVE  Merge(c, input) \in BambuConfig
<1>1. input.enabled \in BOOLEAN /\ input.region \in Regions
      /\ input.printers \in Seq(PrinterSerials \cup {BadSerial})
  BY InputAssumption
<1>2. ActiveIndex(input.printers, input.active) \in Nat
  BY <1>1, ActiveIndexType
<1> QED BY <1>1, <1>2, CredentialTypes DEF Merge, BambuConfig, Tokens

LEMMA UserInTokenType ==
  ASSUME NEW token \in Tokens PROVE UserInToken(token) \in Users \cup {NoUser}
BY BambuPortalAssumption DEF UserInToken

LEMMA WithUserType ==
  ASSUME NEW c \in BambuConfig, NEW user \in Users \cup {NoUser}
  PROVE  [c EXCEPT !.user = user] \in BambuConfig
BY DEF BambuConfig

LEMMA InitBambu == Init => BambuInv
<1> SUFFICES ASSUME Init PROVE BambuInv
  OBVIOUS
<1>1. nvs.bambu \in StoredBambus /\ ram.bambu = NoBambu /\ call = NoCall
  BY DEF Init, InitialRam
<1>2. nvs.bambu \in [schema : 0..2, config : BambuConfig]
  BY <1>1, InputAssumption
<1> QED BY <1>1, <1>2, NoBambuType DEF BambuInv, NoCall, Tokens, Regions

LEMMA NextBambu == Shape /\ BambuInv /\ [Next]_lifeVars => BambuInv'
<1> SUFFICES ASSUME Shape, BambuInv, [Next]_lifeVars PROVE BambuInv'
  OBVIOUS
<1>1. ASSUME nvs'.bambu = nvs.bambu, ram'.bambu \in {ram.bambu, NoBambu}, call' \in {call, NoCall}
      PROVE  BambuInv'
  BY <1>1, NoBambuType DEF BambuInv, NoCall, Tokens, Regions
<1>2. ram.bambu \in BambuConfig /\ ram.bambu.region \in Regions
  BY DEF BambuInv, BambuConfig
<1>3. ASSUME PowerOff, nvs'.bambu = nvs.bambu PROVE BambuInv'
  BY <1>3, <1>1 DEF PowerOff, InitialRam
<1>4. CASE UNCHANGED <<nvs, ram, call>>
  BY <1>4, <1>1
<1>5. CASE PowerLoss \/ Restart
  BY <1>5, <1>3 DEF PowerLoss, Restart
<1>6. CASE Boot
  <2>1. /\ nvs'.bambu \in {nvs.bambu, EncodeBambu(LoadedBambu)} /\ ram'.bambu = LoadedBambu
        /\ call' = call
    BY <1>6 DEF Boot, Rewritten, taskVars, Shape
  <2> QED BY <2>1, LoadedBambuType DEF BambuInv, EncodeBambu
<1>7. CASE FinishProvisioning
  <2>1. nvs'.bambu = nvs.bambu
    BY <1>7 DEF FinishProvisioning, Shape
  <2> QED BY <1>7, <2>1, <1>1, <1>3 DEF FinishProvisioning, taskVars
<1>8. ASSUME NEW o \in Outcomes, NEW fields \in FieldsAfter(o), PortalReturns(o, fields)
      PROVE  BambuInv'
  <2>1. nvs'.bambu = nvs.bambu /\ ram'.bambu \in {ram.bambu, NoBambu}
    BY <1>8 DEF PortalReturns, InitialRam, Shape
  <2>2. call' = call \/ call' = NoCall
    BY <1>8, DecidedCases, RetryKeepsCall DEF PortalReturns, PowerOff
  <2> QED BY <2>1, <2>2, <1>1
<1>9. ASSUME NEW config, SaveSettings(config) PROVE BambuInv'
  BY <1>9, <1>1 DEF SaveSettings, taskVars, Shape
<1>10. CASE Reconfigure
  BY <1>10, <1>1 DEF Reconfigure, taskVars, Shape
<1>11. ASSUME NEW form, SaveHa(form) PROVE BambuInv'
  BY <1>11, <1>1 DEF SaveHa, HaInMemory, taskVars, Shape
<1>12. ASSUME NEW input \in BambuInputs, Discover(input) PROVE BambuInv'
  <2>1. /\ nvs' = nvs /\ ram' = ram /\ DiscoverToken(input) # NoToken
        /\ call' = [kind |-> "discover", stage |-> "arbiter", token |-> DiscoverToken(input),
                    region |-> input.region, config |-> NoBambu]
    BY <1>12 DEF Discover, Blocks
  <2>2. input.region \in Regions /\ input.tokenId \in TokenIds \cup {NoTokenId}
    BY InputAssumption
  <2>3. ram.bambu.token \in Tokens
    BY <1>2 DEF BambuConfig, Tokens
  <2>4. DiscoverToken(input) \in Token
    BY <2>1, <2>2, <2>3 DEF DiscoverToken, Token, Tokens
  <2> QED BY <2>1, <2>2, <2>4, NoBambuType DEF BambuInv, Tokens
<1>13. ASSUME NEW input \in BambuInputs, SaveBambu(input) PROVE BambuInv'
  <2> DEFINE merged == Merge(ram.bambu, input)
             known  == IF merged.user = NoUser THEN UserInToken(merged.token) ELSE merged.user
             config == [merged EXCEPT !.user = known]
             asks   == merged.token # NoToken /\ known = NoUser
  <2>1. /\ nvs' = nvs /\ ram' = ram
        /\ call' = [kind |-> "save", stage |-> IF asks THEN "arbiter" ELSE "mutex",
                    token |-> merged.token, region |-> merged.region, config |-> config]
    BY <1>13 DEF SaveBambu, Blocks
  <2>2. merged \in BambuConfig
    BY <1>2, MergeType
  <2> HIDE DEF merged
  <2>3. merged.token \in Tokens /\ merged.region \in Regions /\ merged.user \in Users \cup {NoUser}
    BY <2>2 DEF BambuConfig, Tokens
  <2>4. known \in Users \cup {NoUser}
    BY <2>3, UserInTokenType
  <2> HIDE DEF known
  <2>5. config \in BambuConfig
    BY <2>2, <2>4, WithUserType
  <2>6. asks => merged.token \in Token
    BY <2>3 DEF Tokens
  <2> HIDE DEF config, asks
  <2> QED BY <2>1, <2>3, <2>5, <2>6 DEF BambuInv
<1>14. CASE LogoutBambu
  <2>1. /\ nvs' = nvs /\ ram' = ram
        /\ call' = [kind |-> "save", stage |-> "mutex", token |-> NoToken,
                    region |-> ram.bambu.region, config |-> Cleared(ram.bambu)]
    BY <1>14 DEF LogoutBambu, Blocks
  <2>2. Cleared(ram.bambu) \in BambuConfig
    BY <1>2, NoBambuType DEF Cleared, BambuConfig
  <2> QED BY <2>1, <2>2, <1>2 DEF BambuInv, Tokens
<1>15. CASE TakeArbiter
  BY <1>15 DEF TakeArbiter, callVars, Shape, BambuInv
<1>16. CASE RequestEnds
  <2> DEFINE config == [call.config EXCEPT !.user = Owner[call.token.id]]
  <2>1. nvs' = nvs /\ ram' = ram /\ call.stage = "request"
    BY <1>16 DEF RequestEnds, callVars
  <2>2. Owner[call.token.id] \in Users \cup {NoUser}
    BY <2>1, BambuPortalAssumption DEF BambuInv, Token
  <2>3. config \in BambuConfig
    BY <2>2, WithUserType DEF BambuInv
  <2> HIDE DEF config
  <2>4. CASE call' = [call EXCEPT !.stage = "mutex", !.config = config]
    BY <2>1, <2>3, <2>4 DEF BambuInv, Shape
  <2>5. call' = NoCall \/ call' = [call EXCEPT !.stage = "mutex", !.config = config]
    BY <1>16 DEF RequestEnds, Returns, config
  <2> QED BY <2>1, <2>4, <2>5, <1>1
<1>17. CASE Replace
  <2>1. call' = NoCall
    BY <1>17 DEF Replace, Returns
  <2>2. CASE nvs' = nvs /\ ram' = ram
    BY <2>1, <2>2, <1>1
  <2>3. CASE nvs'.bambu = EncodeBambu(call.config) /\ ram'.bambu = call.config
    BY <2>1, <2>3, NoBambuType DEF BambuInv, EncodeBambu, NoCall, Tokens, Regions
  <2> QED BY <1>17, <2>2, <2>3 DEF Replace, Shape
<1> QED
  BY <1>4, <1>5, <1>6, <1>7, <1>8, <1>9, <1>10, <1>11, <1>12, <1>13, <1>14, <1>15, <1>16, <1>17
     DEF Next, lifeVars, SetUp, taskVars, CloudCall, TaskSteps, WorkerSteps, WorkerReleases,
         MqttSteps, MqttReleases, callVars

-----------------------------------------------------------------------------
(* Types: phases *)

PhaseInv ==
  /\ nvs.force \in BOOLEAN
  /\ phase \in {"off", "portal", "accepted", "setup", "running"}
  /\ prov.force \in BOOLEAN /\ prov.saved \in BOOLEAN
  /\ started \in {"none", "settings", "portals", "apps"}
  /\ restart \subseteq {"settings", "integrations"}
  /\ budget \in 0..Requests /\ asked \in BOOLEAN

LEMMA InitPhase == Init => PhaseInv
<1> SUFFICES ASSUME Init PROVE PhaseInv
  OBVIOUS
<1>1. nvs.force = FALSE
  BY DEF Init
<1>2. NoProv.force = FALSE /\ NoProv.saved = FALSE
  BY DEF NoProv
<1>3. phase = "off" /\ prov = NoProv /\ started = "none" /\ restart = {} /\ asked = FALSE
  BY DEF Init
<1>4. budget = Requests /\ Requests \in 0..Requests
  BY LifecycleAssumption DEF Init
<1> QED BY <1>1, <1>2, <1>3, <1>4 DEF PhaseInv

LEMMA NextPhase == Shape /\ PhaseInv /\ [Next]_lifeVars => PhaseInv'
<1> SUFFICES ASSUME Shape, PhaseInv, [Next]_lifeVars PROVE PhaseInv'
  OBVIOUS
<1>1. ASSUME UNCHANGED <<phase, prov, started>>, nvs'.force = nvs.force, asked' = asked,
             restart' \subseteq restart \cup {"settings", "integrations"}, Spend \/ budget' = budget
      PROVE  PhaseInv'
  BY <1>1, LifecycleAssumption DEF PhaseInv, Spend
<1>2. ASSUME PowerOff, nvs'.force \in BOOLEAN, Spend \/ budget' = budget, asked' = asked
      PROVE  PhaseInv'
  BY <1>2, LifecycleAssumption DEF PowerOff, NoProv, PhaseInv, Spend
<1>3. CASE PowerLoss \/ Restart
  BY <1>3, <1>2 DEF PowerLoss, Restart, PhaseInv
<1>4. CASE Boot
  BY <1>4 DEF Boot, Forced, Shape, PhaseInv
<1>5. CASE FinishProvisioning
  <2>1. nvs'.force \in BOOLEAN /\ budget' = budget /\ asked' = asked
    BY <1>5 DEF FinishProvisioning, Shape, PhaseInv
  <2>2. CASE prov.saved
    BY <1>5, <2>1, <2>2, <1>2 DEF FinishProvisioning
  <2>3. CASE ~prov.saved
    <3>1. phase' = "setup" /\ prov' = NoProv /\ UNCHANGED <<started, restart>>
      BY <1>5, <2>3 DEF FinishProvisioning
    <3>2. NoProv.force = FALSE /\ NoProv.saved = FALSE
      BY DEF NoProv
    <3> QED BY <2>1, <3>1, <3>2 DEF PhaseInv
  <2> QED BY <2>2, <2>3
<1>6. CASE SetUp
  BY <1>6 DEF SetUp, PhaseInv
<1>7. ASSUME NEW o \in Outcomes, NEW fields \in FieldsAfter(o), PortalReturns(o, fields)
      PROVE  PhaseInv'
  <2>1. nvs'.force = nvs.force /\ (Spend \/ budget' = budget) /\ o.saved \in BOOLEAN
    BY <1>7 DEF PortalReturns, Outcomes, Shape
  <2>2. CASE PowerOff /\ asked' = asked
    BY <2>1, <2>2, <1>2 DEF PhaseInv
  <2>3. CASE Retry(fields)
    BY <2>1, <2>3, LifecycleAssumption DEF Retry, PhaseInv, Spend
  <2>4. CASE Decided(o, fields) /\ phase' = "accepted"
    <3>1. /\ prov' = [force |-> prov.force, fields |-> fields, saved |-> o.saved]
          /\ asked' = (asked /\ ~o.saved) /\ UNCHANGED <<started, restart>>
      BY <2>4 DEF Decided, Retry, PowerOff
    <3> QED BY <2>1, <2>4, <3>1, LifecycleAssumption DEF PhaseInv, Spend
  <2> QED BY <1>7, <2>2, <2>3, <2>4, DecidedCases DEF PortalReturns
<1>8. ASSUME NEW config, SaveSettings(config) PROVE PhaseInv'
  BY <1>8, <1>1 DEF SaveSettings, Scheduled, Shape
<1>9. CASE Reconfigure
  <2>1. nvs'.force \in BOOLEAN /\ asked' \in BOOLEAN /\ restart' = restart \cup {"settings"}
    BY <1>9 DEF Reconfigure, Scheduled, Shape, PhaseInv
  <2> QED BY <1>9, <2>1, LifecycleAssumption DEF Reconfigure, PhaseInv, Spend
<1>10. ASSUME NEW form, SaveHa(form) PROVE PhaseInv'
  BY <1>10, <1>1 DEF SaveHa, Shape
<1>11. ASSUME NEW input, Discover(input) \/ SaveBambu(input) PROVE PhaseInv'
  BY <1>11, <1>1 DEF Discover, SaveBambu
<1>12. CASE LogoutBambu
  BY <1>12, <1>1 DEF LogoutBambu
<1>13. CASE Replace
  BY <1>13, <1>1 DEF Replace, Shape
<1>14. CASE TakeArbiter \/ RequestEnds \/ TaskSteps \/ UNCHANGED lifeVars
  BY <1>14, <1>1 DEF TakeArbiter, RequestEnds, TaskSteps, WorkerSteps, WorkerReleases,
                     MqttSteps, MqttReleases, callVars, lifeVars
<1> QED
  BY <1>3, <1>4, <1>5, <1>6, <1>7, <1>8, <1>9, <1>10, <1>11, <1>12, <1>13, <1>14
     DEF Next, CloudCall

-----------------------------------------------------------------------------
(* Types: who holds the arbiter *)

Dialling == tasks.mqtt \in {"holding", "updating"}

\* One actor at the most holds the arbiter, and who uses or waits for it has work left.
TaskInv ==
  /\ tasks \in TaskStates
  /\ \A w \in Workers : tasks.worker[w] # "ready" => tasks.left[w] > 0
  /\ \A v, w \in Workers : tasks.worker[v] = "holding" /\ tasks.worker[w] = "holding" => v = w
  /\ Dialling => Holders = {} /\ call.stage # "request"
  /\ call.stage = "request" => Holders = {}

LEMMA QuietTasks == tasks = Quiet => tasks \in TaskStates /\ Holders = {} /\ ~Dialling
<1>1. 0 \in 0..WorkLimit
  BY LifecycleAssumption
<1> QED BY <1>1 DEF Quiet, TaskStates, Holders, Dialling

LEMMA InitTasks == Init => TaskInv
<1> SUFFICES ASSUME Init PROVE TaskInv
  OBVIOUS
<1>1. tasks = Quiet /\ call = NoCall
  BY DEF Init
<1> QED BY <1>1, QuietTasks DEF TaskInv, NoCall, Quiet

LEMMA QuietStep == ASSUME tasks' = Quiet, call' = NoCall PROVE TaskInv'
<1>1. 0 \in 0..WorkLimit
  BY LifecycleAssumption
<1> QED BY <1>1 DEF Quiet, NoCall, TaskStates, Holders, Dialling, TaskInv

\* The loop finds the tasks in order, and does not hold the arbiter when a call begins.
LEMMA BlocksStep ==
  ASSUME NEW kind, NEW stage, stage # "request", NEW token, NEW region, NEW config,
         Blocks(kind, stage, token, region, config)
  PROVE  TaskInv'
<1>1. tasks' \in Busy /\ call'.stage = stage
  BY DEF Blocks
<1>2. /\ tasks' \in TaskStates
      /\ \A w \in Workers : tasks'.left[w] = IF tasks'.worker[w] = "ready" THEN 0 ELSE WorkLimit
      /\ tasks'.mqtt \in {"holding", "updating"} => \A w \in Workers : tasks'.worker[w] # "holding"
      /\ \A v, w \in Workers : tasks'.worker[v] = "holding" /\ tasks'.worker[w] = "holding" => v = w
  BY <1>1 DEF Busy
<1>3. \A w \in Workers : tasks'.worker[w] # "ready" => tasks'.left[w] > 0
  BY <1>2, LifecycleAssumption
<1> QED BY <1>1, <1>2, <1>3 DEF TaskInv, Holders, Dialling

\* A worker that takes the arbiter finds it free; one that lets go has one request less.
LEMMA WorkerMoves ==
  ASSUME TaskInv, NEW w \in Workers, WorkerSteps(w) \/ WorkerReleases(w)
  PROVE  TaskInv'
<1>1. /\ tasks \in TaskStates /\ call' = call
      /\ tasks.worker \in [Workers -> {"ready", "waiting", "holding"}]
      /\ tasks.left \in [Workers -> 0..WorkLimit] /\ WorkLimit \in Nat
  BY LifecycleAssumption DEF TaskInv, TaskStates, WorkerSteps, WorkerReleases
<1>2. CASE tasks.worker[w] = "ready" /\ tasks.left[w] > 0 /\ tasks' = [tasks EXCEPT !.worker[w] = "waiting"]
  BY <1>1, <1>2 DEF TaskInv, TaskStates, Holders, Dialling
<1>3. CASE tasks.worker[w] = "waiting" /\ ArbiterFree /\ tasks' = [tasks EXCEPT !.worker[w] = "holding"]
  <2>1. call.stage # "request" /\ ~Dialling /\ \A v \in Workers : tasks.worker[v] # "holding"
    BY <1>3 DEF ArbiterFree, Dialling, Holders
  <2>2. /\ tasks' \in TaskStates /\ tasks'.mqtt = tasks.mqtt /\ tasks'.left = tasks.left
        /\ \A v \in Workers : tasks'.worker[v] = IF v = w THEN "holding" ELSE tasks.worker[v]
    BY <1>1, <1>3 DEF TaskStates
  <2> QED BY <1>1, <1>3, <2>1, <2>2 DEF TaskInv, Holders, Dialling
<1>4. CASE tasks.worker[w] = "holding" /\ tasks' = [tasks EXCEPT !.worker[w] = "ready", !.left[w] = @ - 1]
  <2>1. tasks.left[w] \in 0..WorkLimit /\ tasks.left[w] > 0
    BY <1>1, <1>4 DEF TaskInv
  <2>2. tasks.left[w] - 1 \in 0..WorkLimit
    BY <1>1, <2>1
  <2>3. /\ tasks' \in TaskStates /\ tasks'.mqtt = tasks.mqtt
        /\ \A v \in Workers : /\ tasks'.worker[v] = IF v = w THEN "ready" ELSE tasks.worker[v]
                              /\ v # w => tasks'.left[v] = tasks.left[v]
    BY <1>1, <1>4, <2>2 DEF TaskStates
  <2> QED BY <1>1, <1>4, <2>3 DEF TaskInv, Holders, Dialling
<1> QED BY <1>2, <1>3, <1>4 DEF WorkerSteps, WorkerReleases

LEMMA MqttMoves ==
  ASSUME TaskInv, MqttSteps \/ MqttReleases
  PROVE  TaskInv'
<1>1. PICK m \in {"sleeping", "copying", "waiting", "holding", "updating"} :
        tasks' = [tasks EXCEPT !.mqtt = m]
  BY DEF MqttSteps, MqttReleases
<1>2. call' = call
  BY DEF MqttSteps, MqttReleases
<1>3. tasks' \in TaskStates /\ tasks'.worker = tasks.worker /\ tasks'.left = tasks.left /\ tasks'.mqtt = m
  BY <1>1 DEF TaskInv, TaskStates
<1>4. m \in {"holding", "updating"} => Dialling \/ ArbiterFree
  <2>1. m \notin {"holding", "updating"} \/ tasks.mqtt = "holding" \/ ArbiterFree
    BY <1>3 DEF MqttSteps, MqttReleases, TaskInv, TaskStates
  <2> QED BY <2>1 DEF Dialling
<1>5. m \in {"holding", "updating"} => Holders = {} /\ call.stage # "request"
  BY <1>4 DEF ArbiterFree, TaskInv
<1> QED BY <1>2, <1>3, <1>5 DEF TaskInv, Holders, Dialling

LEMMA NextTasks == Shape /\ TaskInv /\ [Next]_lifeVars => TaskInv'
<1> SUFFICES ASSUME Shape, TaskInv, [Next]_lifeVars PROVE TaskInv'
  OBVIOUS
<1>1. CASE UNCHANGED taskVars
  BY <1>1 DEF taskVars, TaskInv, Holders, Dialling
<1>2. ASSUME PowerOff PROVE TaskInv'
  BY <1>2, QuietStep DEF PowerOff
<1>3. CASE PowerLoss \/ Restart \/ FinishProvisioning
  BY <1>3, <1>1, <1>2 DEF PowerLoss, Restart, FinishProvisioning
<1>4. ASSUME NEW o, NEW fields, PortalReturns(o, fields) PROVE TaskInv'
  BY <1>4, <1>1, <1>2 DEF PortalReturns, Decided, Retry
<1>5. ASSUME NEW input, Discover(input) PROVE TaskInv'
  BY <1>5, BlocksStep DEF Discover
<1>6. ASSUME NEW input, SaveBambu(input) PROVE TaskInv'
  <2>1. PICK stage \in {"arbiter", "mutex"} : \E token, region, config :
          Blocks("save", stage, token, region, config)
    BY <1>6 DEF SaveBambu
  <2> QED BY <2>1, BlocksStep
<1>7. CASE LogoutBambu
  BY <1>7, BlocksStep DEF LogoutBambu
<1>8. CASE TakeArbiter
  <2>1. call' = [call EXCEPT !.stage = "request"] /\ ArbiterFree /\ tasks' = tasks
    BY <1>8 DEF TakeArbiter
  <2>2. Holders = {} /\ ~Dialling
    BY <2>1 DEF ArbiterFree, Dialling
  <2> QED BY <2>1, <2>2 DEF TaskInv, Holders, Dialling
<1>9. CASE RequestEnds
  <2>1. CASE Returns
    BY <2>1, QuietStep DEF Returns
  <2>2. CASE tasks' = tasks /\ call'.stage = "mutex"
    BY <2>2 DEF TaskInv, Holders, Dialling
  <2>3. Returns \/ (tasks' = tasks /\ call'.stage = "mutex")
    BY <1>9 DEF RequestEnds, Shape
  <2> QED BY <2>1, <2>2, <2>3
<1>10. CASE Replace
  BY <1>10, QuietStep DEF Replace, Returns
<1> QED
  BY <1>1, <1>3, <1>4, <1>5, <1>6, <1>7, <1>8, <1>9, <1>10, WorkerMoves, MqttMoves
     DEF Next, lifeVars, taskVars, Boot, SetUp, SaveSettings, Reconfigure, SaveHa, CloudCall, TaskSteps

\* What TypeOK counts: of the holders, the mqtt task and the loop, one at the most.
LEMMA OneHolder ==
  ASSUME TaskInv
  PROVE  Cardinality(Holders) + (IF Dialling THEN 1 ELSE 0) + (IF call.stage = "request" THEN 1 ELSE 0) <= 1
<1>1. CASE Holders = {}
  BY <1>1, FS_EmptySet DEF TaskInv
<1>2. CASE Holders # {}
  <2>1. PICK w \in Workers : tasks.worker[w] = "holding"
    BY <1>2 DEF Holders
  <2>2. Holders = {w}
    BY <2>1 DEF Holders, TaskInv
  <2>3. Cardinality(Holders) = 1
    BY <2>2, FS_Singleton
  <2> QED BY <1>2, <2>3 DEF TaskInv
<1> QED BY <1>1, <1>2

\* Every variable has its type, in flash, in memory and in the calls, and the arbiter has
\* one holder at the most, for any number of workers (setup(), ensureConnected(), the
\* portals, NetworkArbiter).
THEOREM LifecycleTypes == Spec => []TypeOK
<1>1. SettingsInv /\ HaInv /\ BambuInv /\ PhaseInv /\ TaskInv => TypeOK
  <2> SUFFICES ASSUME SettingsInv, HaInv, BambuInv, PhaseInv, TaskInv PROVE TypeOK
    OBVIOUS
  <2>1. nvs.app.schema = 2 => nvs.app.config \in App /\ Len(nvs.app.config.stocks) \in StockCounts
    BY DEF SettingsInv, Validate, CountAllowed
  <2>2. Cardinality(Holders) + (IF tasks.mqtt \in {"holding", "updating"} THEN 1 ELSE 0)
          + (IF call.stage = "request" THEN 1 ELSE 0) <= 1
    BY OneHolder DEF Dialling
  <2>3. tasks \in TaskStates
    BY DEF TaskInv
  <2> QED BY <2>1, <2>2, <2>3 DEF SettingsInv, HaInv, BambuInv, PhaseInv, TypeOK, Tokens
<1> QED
  BY <1>1, ShapeInvariant, InitSettings, NextSettings, InitHa, NextHa, InitBambu, NextBambu,
     InitPhase, NextPhase, InitTasks, NextTasks, PTL DEF Spec
=============================================================================
