--------------------------- MODULE AppConfigForm ---------------------------
(***************************************************************************)
(* The settings of stocks and weather, and the form they are edited in:      *)
(* AppConfig (lib/core/AppConfig.cpp), ProvisioningForm                      *)
(* (src/network/ProvisioningForm.cpp) and the symbols typed into it          *)
(* (lib/core/StockSymbol.cpp).                                               *)
(*                                                                         *)
(* A name is reduced to what validation tells apart.  A number in the form   *)
(* is the number it denotes, 0 when it denotes none.  Coordinates are in     *)
(* millionths of a degree; the form may be given half a unit more precisely. *)
(***************************************************************************)
EXTENDS Integers, Sequences, FiniteSets

CONSTANTS
  Codes, NoCode,
  InferredExchange  \* of a code that is typed without a suffix: inferExchange()

Exchanges == {"SSE", "SZSE", "BSE"}
NoSuffix  == "UNKNOWN"

ASSUME AppConfigAssumption ==
  NoCode \notin Codes /\ InferredExchange \in [Codes -> Exchanges \cup {NoSuffix}]

RowCount       == 5
StockCounts    == 3..5
QuoteRefresh   == 3..5
WeatherRefresh == 5..60
LatitudeLimit  == 90000000
LongitudeLimit == 180000000
Latitudes      == -LatitudeLimit..LatitudeLimit
Longitudes     == -LongitudeLimit..LongitudeLimit

Names   == {"empty", "blank", "short", "long"}
IsBlank(name) == name \in {"empty", "blank"}

-----------------------------------------------------------------------------
(* Symbols *)

Symbol    == [code : Codes \cup {NoCode}, exchange : Exchanges \cup {NoSuffix}]
NoSymbol  == [code |-> NoCode, exchange |-> NoSuffix]
\* What is typed: a code with or without suffix, nothing, or something else.
BlankText == [kind |-> "blank", code |-> NoCode, suffix |-> NoSuffix]

\* StockSymbol::parse(): a suffix decides, else the code does.
ParseSymbol(t) ==
  LET exchange == IF t.suffix = NoSuffix THEN InferredExchange[t.code] ELSE t.suffix
  IN  IF t.kind # "code" THEN NoSymbol
      ELSE IF exchange = NoSuffix THEN NoSymbol
      ELSE [code |-> t.code, exchange |-> exchange]

\* Fault variant: the code without its suffix.
CanonicalWithoutSuffix(s) == [kind |-> "code", code |-> s.code, suffix |-> NoSuffix]

\* StockSymbol::canonical()
Canonical(s) == [kind |-> "code", code |-> s.code, suffix |-> s.exchange]

-----------------------------------------------------------------------------
(* Configurations *)

NoLocation == [name |-> "empty", latitude |-> 0, longitude |-> 0]
Defaults   == [refresh |-> 5, stocks |-> <<>>, location |-> NoLocation,
               enabled |-> FALSE, weatherRefresh |-> 15]

\* What a form gives: names that are blank are left out, or refused.
Stock == [symbol : [code : Codes, exchange : Exchanges], name : Names \ {"blank"}]
App   == [refresh : QuoteRefresh, stocks : Seq(Stock),
          location : [name : Names \ {"blank"}, latitude : Latitudes, longitude : Longitudes],
          enabled : BOOLEAN, weatherRefresh : WeatherRefresh]

LocationPresent(c) == c.enabled \/ c.location # NoLocation

\* Fault variant: nobody counts the stocks.
AnyCount(c) == TRUE

CountAllowed(c) == Len(c.stocks) \in StockCounts

\* validate()
Validate(c) ==
  /\ CountAllowed(c)
  /\ c.refresh \in QuoteRefresh
  /\ \A i \in DOMAIN c.stocks : c.stocks[i].symbol # NoSymbol /\ c.stocks[i].name # "long"
  /\ \A i, j \in DOMAIN c.stocks : c.stocks[i].symbol = c.stocks[j].symbol => i = j
  /\ c.weatherRefresh \in WeatherRefresh
  /\ LocationPresent(c) => /\ c.location.name \notin {"empty", "long"}
                           /\ c.location.latitude \in Latitudes
                           /\ c.location.longitude \in Longitudes

-----------------------------------------------------------------------------
(* The form *)

EmptyRow    == [symbol |-> BlankText, name |-> "empty"]
BlankNumber == [kind |-> "blank", value |-> 0]
DefaultForm == [rows |-> [i \in 1..RowCount |-> EmptyRow], refresh |-> 5,
                locationName |-> "empty", latitude |-> BlankNumber, longitude |-> BlankNumber,
                weatherEnabled |-> "0", weatherRefresh |-> 15]

\* What may be typed where it matters, correct or not.
Typed(f) ==
  /\ f.rows \in [1..RowCount -> [symbol : [kind : {"blank", "code", "other"}, code : Codes \cup {NoCode},
                                          suffix : Exchanges \cup {NoSuffix}], name : Names]]
  /\ \A i \in 1..RowCount : f.rows[i].symbol.kind = "code" => f.rows[i].symbol.code \in Codes
  /\ f.locationName \in Names
  /\ \A t \in {f.latitude, f.longitude} : t \in [kind : {"blank", "number", "other"}, value : Int]

\* parseCoordinate(): the range is checked before the value is rounded, halves away from zero.
InRange(t, limit) == t.kind = "number" /\ -2 * limit <= t.value /\ t.value <= 2 * limit
ParseCoordinate(t) == IF t.value >= 0 THEN (t.value + 1) \div 2 ELSE -((1 - t.value) \div 2)

\* formatCoordinate() prints all six decimals.
FormatCoordinate(e6) == [kind |-> "number", value |-> 2 * e6]

NeedsLocation(f) ==
  f.weatherEnabled = "1" \/ ~IsBlank(f.locationName)
  \/ f.latitude.kind # "blank" \/ f.longitude.kind # "blank"

\* The rows with a symbol, and the n-th of them.
UsedRows(f)   == {i \in 1..RowCount : f.rows[i].symbol.kind # "blank"}
UsedRow(f, n) == f.rows[CHOOSE i \in UsedRows(f) : Cardinality({j \in UsedRows(f) : j <= i}) = n]

\* The stock a row describes.
StockIn(row) == [symbol |-> ParseSymbol(row.symbol),
                 name   |-> IF IsBlank(row.name) THEN "empty" ELSE row.name]

\* The configuration buildConfig() puts together and validates.
Candidate(f) ==
  [refresh  |-> f.refresh,
   stocks   |-> [n \in 1..Cardinality(UsedRows(f)) |-> StockIn(UsedRow(f, n))],
   location |-> IF NeedsLocation(f)
                THEN [name |-> f.locationName, latitude |-> ParseCoordinate(f.latitude),
                      longitude |-> ParseCoordinate(f.longitude)]
                ELSE NoLocation,
   enabled  |-> f.weatherEnabled = "1", weatherRefresh |-> f.weatherRefresh]

\* buildConfig() accepts the form.
Accepted(f) ==
  /\ f.refresh \in QuoteRefresh
  /\ \A i \in 1..RowCount : f.rows[i].symbol.kind = "blank" => IsBlank(f.rows[i].name)
  /\ f.weatherEnabled \in {"0", "1"}
  /\ f.weatherRefresh \in WeatherRefresh
  /\ NeedsLocation(f) => /\ ~IsBlank(f.locationName)
                         /\ InRange(f.latitude, LatitudeLimit)
                         /\ InRange(f.longitude, LongitudeLimit)
  /\ Validate(Candidate(f))

ShowsCoordinates(c) == c.enabled \/ c.location # NoLocation

\* ProvisioningForm::fromConfig()
FromConfig(c) ==
  LET shown(e6) == IF ShowsCoordinates(c) THEN FormatCoordinate(e6) ELSE BlankNumber
  IN  [rows |-> [i \in 1..RowCount |->
                  IF i \in DOMAIN c.stocks
                  THEN [symbol |-> Canonical(c.stocks[i].symbol), name |-> c.stocks[i].name]
                  ELSE EmptyRow],
       refresh |-> c.refresh, locationName |-> c.location.name,
       latitude |-> shown(c.location.latitude), longitude |-> shown(c.location.longitude),
       weatherEnabled |-> IF c.enabled THEN "1" ELSE "0", weatherRefresh |-> c.weatherRefresh]

-----------------------------------------------------------------------------
(* What is stored *)

\* schema 0 is a text that is missing or cannot be read.
Encode(c)    == [schema |-> 2, config |-> c]
Decodes(text) == text.schema \in {1, 2} /\ Validate(text.config)
=============================================================================
