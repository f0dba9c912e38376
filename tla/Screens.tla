------------------------------ MODULE Screens ------------------------------
(***************************************************************************)
(* What the two screens that redraw in parts draw where, and when.  A view   *)
(* is its fields; each draw function fills a region of its own and reads     *)
(* some of the fields; render() compares the fields with those of the last   *)
(* render and calls the draw functions whose condition has changed.          *)
(* "intradayPoints" are the points of a chart but the last: a chart fetched  *)
(* again may correct them, and the render signature does not hold them.      *)
(***************************************************************************)

\* StockScreen: what each draw function reads.
DrawHeader   == {"displayName", "symbol", "marketStatus"}
DrawQuote    == {"hasQuote", "last", "change", "changePercent"}
DrawMetrics  == {"hasQuote", "open", "high", "low", "prevClose"}
DrawTurnover == {"hasQuote", "volume", "amount"}
DrawChart    == {"hasQuote", "open", "prevClose", "hasIntraday", "intradaySize",
                 "intradayLastMinute", "intradayLastPrice", "intradayPoints"}
DrawFooter   == {"index", "count", "wifiOnline", "provider", "intradayProvider",
                 "hasIntraday", "errorBadge"}
StockDraws == [header |-> DrawHeader, quote |-> DrawQuote, metrics |-> DrawMetrics,
               turnover |-> DrawTurnover, chart |-> DrawChart, footer |-> DrawFooter]

SameQuote    == {"hasQuote", "last", "change", "changePercent", "open", "high", "low",
                 "prevClose", "volume", "amount"}
SameIntraday == {"hasIntraday", "intradaySize", "intradayLastMinute", "intradayLastPrice",
                 "intradayProvider", "prevClose", "open"}
StockRedraws ==
  [header |-> {"displayName", "marketStatus"},
   quote |-> SameQuote, metrics |-> SameQuote, turnover |-> SameQuote,
   chart |-> SameIntraday,
   footer |-> {"index", "count", "wifiOnline", "provider", "intradayProvider",
               "errorBadge", "marketStatus"} \cup SameQuote]
StockFields == UNION {StockDraws[r] : r \in DOMAIN StockDraws}

\* BambuScreen
DrawBambuHeader == {"printerName", "session", "printState"}
DrawProgress    == {"progress", "remainingMinutes", "layerNum", "totalLayers", "nozzleTemp",
                    "nozzleTarget", "bedTemp", "bedTarget", "chamberTemp"}
DrawJob         == {"jobName"}
DrawFilament    == {"filamentPresent", "filamentExternal", "filamentSlot", "filamentType"}
DrawBambuFooter == {"lastMqttRc", "lastUpdateMs"}
BambuDraws == [header |-> DrawBambuHeader, progress |-> DrawProgress, job |-> DrawJob,
               filament |-> DrawFilament, footer |-> DrawBambuFooter]

\* Fault variant: sameProgress() that forgets the chamber.
SameProgressWithoutChamber ==
  {"progress", "remainingMinutes", "nozzleTemp", "nozzleTarget", "bedTemp", "bedTarget",
   "layerNum", "totalLayers"}

SameHeader   == {"printerName", "session", "printState"}
SameProgress == {"progress", "remainingMinutes", "nozzleTemp", "nozzleTarget", "bedTemp",
                 "bedTarget", "chamberTemp", "layerNum", "totalLayers"}
SameFilament == {"filamentPresent", "filamentExternal", "filamentSlot", "filamentType"}
BambuRedraws == [header |-> SameHeader, progress |-> SameProgress, job |-> {"jobName"},
                 filament |-> SameFilament, footer |-> {"lastMqttRc", "lastUpdateMs"}]
BambuFields  == UNION {BambuDraws[r] : r \in DOMAIN BambuDraws}

\* The other screens draw all they show every time.
HomeAssistantDraws == [page |-> {"content"}]
DeviceInfoDraws    == [page |-> {"content"}]
WeatherDraws       == [page |-> {"content"}]
=============================================================================
