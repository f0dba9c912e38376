------------------------ MODULE HomeAssistantSettings ------------------------
(***************************************************************************)
(* The Home Assistant configuration, src/network/HomeAssistantConfig.cpp,    *)
(* and what the portal makes of a submitted form, saveHa() in                *)
(* src/network/IntegrationConfigPortal.cpp.  Lengths are left out, the       *)
(* entities are counted, and certificates are taken to be in PEM form.       *)
(***************************************************************************)
EXTENDS Integers

CONSTANTS
  HaTokens, NoHaToken,
  EntityLimit   \* HomeAssistantConfig::entities

ASSUME HomeAssistantAssumption == NoHaToken \notin HaTokens /\ EntityLimit \in Nat \ {0}

RefreshSeconds == 30..300

HaConfig == [enabled : BOOLEAN, url : {"none", "http", "https"}, token : HaTokens \cup {NoHaToken},
             cert : BOOLEAN, refresh : RefreshSeconds, entities : 0..EntityLimit]
NoHa == [enabled |-> FALSE, url |-> "none", token |-> NoHaToken, cert |-> FALSE,
         refresh |-> 30, entities |-> 0]

\* validateHomeAssistantConfig()
ValidHa(c) ==
  /\ c.refresh \in RefreshSeconds
  /\ c.entities <= EntityLimit
  /\ c.url # "malformed"
  /\ c.enabled => /\ c.url # "none" /\ c.token # NoHaToken /\ c.entities >= 1
                  /\ c.url = "https" => c.cert

Secrets(c) == [token |-> c.token, cert |-> c.cert]

\* A secret left empty in the form is kept.
SubmittedSecrets(current, form) ==
  IF form.clear THEN [token |-> NoHaToken, cert |-> FALSE]
  ELSE [token |-> IF form.token = NoHaToken THEN current.token ELSE form.token,
        cert  |-> current.cert \/ form.cert]

\* The form, on top of the present configuration.
SubmittedHa(current, form) ==
  LET secrets == SubmittedSecrets(current, form)
  IN  [enabled |-> form.enabled, url |-> form.url, token |-> secrets.token, cert |-> secrets.cert,
       refresh |-> form.refresh, entities |-> form.entities]

\* What saveHa() refuses before the configuration is validated.
HaFormComplete(form) == form.refresh \in RefreshSeconds /\ ~form.labelAlone

EncodeHa(c) == [schema |-> 1, config |-> c]
DecodesHa(text) == text.schema = 1 /\ ValidHa(text.config)
=============================================================================
