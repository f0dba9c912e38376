------------------------- MODULE MCMarketDataWorker -------------------------
(* Instances of MarketDataWorker for TLC: one tick stands for about 5 s. *)
EXTENDS MarketDataWorker

CONSTANTS A, B   \* two symbols

MCKind(type, symbol, priority) ==
  [type |-> type, symbol |-> symbol, provider |-> "TENCENT", priority |-> priority]

\* A background quote that may be promoted, a second key for the capacity, and
\* intraday requests of two pages that compete for the slot.
MCKinds == {MCKind("QUOTE", A, CURRENT_QUOTE), MCKind("QUOTE", A, BACKGROUND_QUOTE),
            MCKind("PRIMARY_PROBE", A, PRIMARY_PROBE),
            MCKind("INTRADAY", A, INTRADAY), MCKind("INTRADAY", B, INTRADAY)}

MCRetryDelays == [attempt \in 2..MaxAttempts |-> {0, 1}]
=============================================================================
