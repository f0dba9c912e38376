------------------------- MODULE MCBambuMqttService -------------------------
(* Instances of BambuMqttService for TLC: two slots, and one tick for 30 s. *)
EXTENDS BambuMqttService

CONSTANTS P, Q, A   \* two printers and an account

MCConfig(enabled, account, serials, active) ==
  [enabled |-> enabled, account |-> account, serials |-> serials, active |-> active]

\* Two printers, and one of them in the slot of the other.
MCConfigs == {MCConfig(TRUE, A, <<P, Q>>, 1), MCConfig(TRUE, A, <<Q>>, 0)}

\* For liveness: the printers are logged out and in again.
MCTwoConfigs == {MCConfig(TRUE, A, <<P, Q>>, 0), MCConfig(FALSE, NoAccount, <<>>, 0)}

\* Saved by hand with the printer of the only slot exchanged.
MCExchange == {MCConfig(TRUE, A, <<P>>, 0), MCConfig(TRUE, A, <<Q>>, 0)}

\* What the screen shows decides no step of the service while no update of it may be lost
\* (MaxLost = 0): a run whose properties do not speak of it need not tell it apart.
Unshown == <<config, observed, conns, wifi, taskVars, lost, historyVars>>
=============================================================================
