------------------------ MODULE MCAppDataControllers ------------------------
(* An instance of AppDataControllers for TLC: the weather is refreshed less often. *)
EXTENDS AppDataControllers

MCRefreshTicks == [type \in Types |-> IF type = "WEATHER" THEN 2 ELSE 1]
=============================================================================
