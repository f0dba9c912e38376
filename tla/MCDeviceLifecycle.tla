------------------------- MODULE MCDeviceLifecycle -------------------------
(* An instance of DeviceLifecycle for TLC. *)
EXTENDS DeviceLifecycle

\* Three codes; a code that begins with 00 is taken for Shenzhen, but 000001.SH is the
\* Shanghai index.
MCInferred == [c \in Codes |-> CASE c = "000001" -> "SZSE" [] c = "600519" -> "SSE" [] OTHER -> NoSuffix]
MCOwner    == [t \in TokenIds |-> IF t = "jwt" THEN "u1" ELSE "u2"]

Text(code, suffix) == [kind |-> "code", code |-> code, suffix |-> suffix]
Row(code, suffix, name) == [symbol |-> Text(code, suffix), name |-> name]
FormOf(rows) == [DefaultForm EXCEPT !.rows = [i \in 1..RowCount |-> IF i \in DOMAIN rows THEN rows[i] ELSE EmptyRow]]
Located(form, name, latitude, longitude, enabled) ==
  [form EXCEPT !.locationName = name, !.weatherEnabled = enabled,
               !.latitude = [kind |-> "number", value |-> latitude],
               !.longitude = [kind |-> "number", value |-> longitude]]

Three    == FormOf(<<Row("600519", NoSuffix, "blank"), Row("000001", NoSuffix, "short"), Row("000001", "SSE", "empty")>>)
Two      == FormOf(<<Row("600519", NoSuffix, "empty"), Row("000001", NoSuffix, "short")>>)
Repeated == FormOf(<<Row("600519", NoSuffix, "empty"), Row("000001", NoSuffix, "short"), Row("600519", "SSE", "empty")>>)
LongName == FormOf(<<Row("600519", NoSuffix, "long"), Row("000001", NoSuffix, "short"), Row("000001", "SSE", "empty")>>)
Unknown  == FormOf(<<Row("600519", NoSuffix, "short"), Row("999999", NoSuffix, "short"), Row("000001", "SSE", "empty")>>)
Nameless == [Three EXCEPT !.rows[5].name = "short"]
MCForms ==
  {Three, Two, Repeated, LongName, Unknown, Nameless,
   Located(Three, "short", 179999999, -1, "0"), Located(Three, "short", 180000001, 0, "1"),
   Located(Three, "blank", 0, 0, "0")}

OldApp == Candidate(Three)
MCStoredApps == {[schema |-> 0, config |-> Defaults], [schema |-> 1, config |-> OldApp],
                 [schema |-> 1, config |-> [OldApp EXCEPT !.refresh = 9]]}

HaForm == [enabled |-> TRUE, url |-> "http", token |-> NoHaToken, cert |-> FALSE, clear |-> FALSE,
           refresh |-> 30, entities |-> 1, labelAlone |-> FALSE]
MCHaForms == {HaForm, [HaForm EXCEPT !.token = "h1"], [HaForm EXCEPT !.url = "https", !.cert = TRUE],
              [HaForm EXCEPT !.enabled = FALSE, !.clear = TRUE]}
OldHa == [enabled |-> TRUE, url |-> "http", token |-> "h2", cert |-> FALSE, refresh |-> 30, entities |-> 1]
MCStoredHas == {[schema |-> 0, config |-> NoHa], EncodeHa(OldHa)}

Input(region, tokenId, printers, active, enabled) ==
  [enabled |-> enabled, region |-> region, tokenId |-> tokenId, printers |-> printers, active |-> active]
MCBambuInputs == {Input("us_eu", "jwt", <<"p1">>, "p1", TRUE), Input("china", "opaque", <<"p2", "p1">>, "p1", TRUE),
                  Input("us_eu", NoTokenId, <<"p1">>, "p2", TRUE), Input("china", NoTokenId, <<>>, "p1", FALSE)}
OldBambu == [NoBambu EXCEPT !.enabled = TRUE, !.token = [id |-> "opaque", region |-> "us_eu"],
                            !.printers = <<"p1">>]
MCStoredBambus == {[schema |-> 0, config |-> NoBambu], [schema |-> 1, config |-> OldBambu]}
=============================================================================
