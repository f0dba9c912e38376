---------------------------- MODULE BambuPortal ----------------------------
(***************************************************************************)
(* The Bambu configuration as the portal edits it and the flash keeps it:    *)
(* src/network/BambuPortalModel.cpp and BambuConfig.cpp.                     *)
(*                                                                         *)
(* A token carries, as a history, the region it was entered for; a user id   *)
(* is one of Users, and Owner tells whose a token is.  The lengths of the    *)
(* fields are left out.                                                      *)
(***************************************************************************)
EXTENDS Integers, Sequences

CONSTANTS
  TokenIds, NoTokenId,
  Jwts,             \* the tokens whose text contains the user id
  Users, NoUser, Owner,
  PrinterSerials,
  BadSerial,        \* a text that is no serial number
  PrinterCount      \* BambuConfigLimits::PRINTER_COUNT

ASSUME BambuPortalAssumption ==
  /\ NoTokenId \notin TokenIds /\ Jwts \subseteq TokenIds
  /\ NoUser \notin Users /\ Owner \in [TokenIds -> Users]
  /\ BadSerial \notin PrinterSerials
  /\ PrinterCount \in Nat \ {0}

Regions   == {"us_eu", "china"}
Token     == [id : TokenIds, region : Regions]
NoToken   == [id |-> NoTokenId, region |-> "us_eu"]

BambuConfig ==
  [enabled : BOOLEAN, region : Regions, token : Token \cup {NoToken}, user : Users \cup {NoUser},
   printers : Seq(PrinterSerials \cup {BadSerial}), active : Nat]
NoBambu == [enabled |-> FALSE, region |-> "us_eu", token |-> NoToken, user |-> NoUser,
            printers |-> <<>>, active |-> 0]

\* validateBambuConfig()
ValidBambu(c) ==
  /\ Len(c.printers) <= PrinterCount
  /\ \A i \in DOMAIN c.printers : c.printers[i] # BadSerial
  /\ \A i, j \in DOMAIN c.printers : c.printers[i] = c.printers[j] => i = j
  /\ c.active < Len(c.printers) \/ (c.printers = <<>> /\ c.active = 0)
  /\ c.enabled => c.token # NoToken /\ c.user # NoUser /\ c.printers # <<>>

\* Fault variant: the user id of the token before.
CredentialsWithOldUser(existing, input) ==
  IF input.tokenId # NoTokenId
  THEN [token |-> [id |-> input.tokenId, region |-> input.region], user |-> existing.user]
  ELSE IF input.region # existing.region THEN [token |-> NoToken, user |-> NoUser]
  ELSE [token |-> existing.token, user |-> existing.user]

\* A new token makes the user id unknown; another region makes both so.
Credentials(existing, input) ==
  IF input.tokenId # NoTokenId
  THEN [token |-> [id |-> input.tokenId, region |-> input.region], user |-> NoUser]
  ELSE IF input.region # existing.region THEN [token |-> NoToken, user |-> NoUser]
  ELSE [token |-> existing.token, user |-> existing.user]

\* The last printer with the serial asked for, else the first.
ActiveIndex(printers, serial) ==
  LET at == {i \in DOMAIN printers : printers[i] = serial}
  IN  IF at = {} THEN 0 ELSE (CHOOSE i \in at : \A j \in at : j <= i) - 1

\* mergeBambuPortalConfig()
Merge(existing, input) ==
  LET credentials == Credentials(existing, input)
  IN  [enabled |-> input.enabled, region |-> input.region,
       token |-> credentials.token, user |-> credentials.user,
       printers |-> input.printers, active |-> ActiveIndex(input.printers, input.active)]

\* clearBambuPortalCredentials()
Cleared(existing) == [NoBambu EXCEPT !.region = existing.region]

\* extractBambuUserIdFromJwt()
UserInToken(token) == IF token.id \in Jwts THEN Owner[token.id] ELSE NoUser

\* BambuConfigCodec; schema 0 is a text that is missing or cannot be read.  What a
\* configuration of the first schema lacks to be enabled switches it off.
EncodeBambu(c) == [schema |-> 2, config |-> c]
Upgraded(text) ==
  IF text.schema = 1 /\ text.config.enabled /\ ~ValidBambu(text.config)
  THEN [text.config EXCEPT !.enabled = FALSE] ELSE text.config
DecodesBambu(text) == text.schema \in {1, 2} /\ ValidBambu(Upgraded(text))

\* The user id is the token's owner, and the token was entered for the region.
BelongTogether(c) ==
  /\ c.token # NoToken => c.token.region = c.region
  /\ c.user # NoUser => c.token # NoToken /\ c.user = Owner[c.token.id]
=============================================================================
