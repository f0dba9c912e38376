----------------------------- MODULE DeviceLoop -----------------------------
(***************************************************************************)
(* A pass of the Arduino loop (src/main.cpp) once the device is set up: the  *)
(* portal may save another Bambu configuration, the two buttons are polled,  *)
(* AppManager navigates, the application on screen is ticked and, if it is   *)
(* dirty, drawn.                                                             *)
(*                                                                         *)
(* The picture is kept as what is wrong with it: changed are the fields of   *)
(* the view that differ from the last render's, and <<r, f>> is in behind    *)
(* when region r was last drawn from another value of the field f it shows.  *)
(* A field that changes back is taken to be changed.  What the controllers   *)
(* and services do is the fields a tick may change.                          *)
(***************************************************************************)
EXTENDS ButtonInput, AppShell, Screens, FiniteSets

CONSTANTS
  PassTicks,    \* bound: how long a pass takes
  SavedCounts,  \* bound: the numbers of printers saved in the portal
  FrameCount    \* BadApplePlayback::FRAME_COUNT

ASSUME LoopAssumption ==
  PassTicks \subseteq Nat /\ SavedCounts \subseteq 0..PrinterLimit /\ FrameCount \in Nat \ {0}

VARIABLES
  step,         \* of the pass: "input" or "tick"
  buttons,      \* previousButton_ and nextButton_
  active,       \* active_: the application on screen
  entered,      \* the applications whose own active_ is set
  sel,          \* what the pages are chosen by, see AppShell
  marketPaused, \* MarketDataWorker is paused
  ui,           \* what the applications keep for drawing, and the panel
  given,        \* history: gestures reported for the last press of each button
  sinceMove     \* history: 0 in the pass that changed the page, else 1

loopVars == <<step, buttons, active, entered, sel, marketPaused, ui, given, sinceMove>>

Keys    == {"PREV", "NEXT"}
Frames  == 0..FrameCount - 1
NoFrame == FrameCount

Draws(app)  == CASE app = "STOCK" -> StockDraws [] app = "BAMBU" -> BambuDraws
                 [] app = "WEATHER" -> WeatherDraws [] app = "HOME_ASSISTANT" -> HomeAssistantDraws
                 [] app = "DEVICE_INFO" -> DeviceInfoDraws
Fields(app) == UNION {Draws(app)[r] : r \in DOMAIN Draws(app)}
\* What the regions show of the given fields.
Shown(app, fields) ==
  UNION {{r} \X (Draws(app)[r] \cap fields) : r \in DOMAIN Draws(app)}

Clean == [force |-> FALSE, forceFull |-> FALSE, dirty |-> FALSE, full |-> FALSE]

\* resetBadApple(); the frame is not read before the next tick has set it.
NoVideo == [frame |-> 0, valid |-> FALSE, decoded |-> 0, shown |-> NoFrame]

Ui ==
  [flags : [Apps -> [force : BOOLEAN, forceFull : BOOLEAN,   \* the application's own,
                     dirty : BOOLEAN, full : BOOLEAN]],      \* and its controller's
   hasRefresh : BOOLEAN,         \* of BambuApp or DeviceInfoApp, when on screen
   modelOf    : 0..PrinterLimit, \* the printer BambuApp::model_ was made from
   changed    : SUBSET (StockFields \cup BambuFields \cup {"content", "connected", "mqttConnected"}),
   behind     : SUBSET Shown(active, Fields(active)),
   hasData    : BOOLEAN,         \* the weather has been fetched
   animation  : [initialized : BOOLEAN, dirty : BOOLEAN],   \* WeatherApp's
   video      : [frame : Frames,                            \* animationFrame_
                 valid : BOOLEAN, decoded : Frames,         \* WeatherScreen's
                 shown : Frames \cup {NoFrame}]]            \* on the panel

-----------------------------------------------------------------------------
(* Input *)

\* Saving in the portal, from integrationConfigPortal.process(): the active printer
\* of the new configuration may be one that has no page.
SaveBambu(printers, printer) ==
  /\ step = "input"
  /\ IF printers = 0 THEN printer = 0 ELSE printer < printers
  /\ sel' = [sel EXCEPT !.printers = printers, !.printer = printer]
  /\ UNCHANGED <<step, buttons, active, entered, marketPaused, ui, given, sinceMove>>

\* pollButtons() reports one gesture of those of the two buttons.
InputEvent(prev, next) ==
  IF prev = "LONG_PRESS" THEN "PREV_LONG"
  ELSE IF prev = "SHORT_PRESS" THEN "PREV_SHORT"
  ELSE IF next = "LONG_PRESS" THEN "NEXT_LONG"
  ELSE IF next = "SHORT_PRESS" THEN "NEXT_SHORT"
  ELSE "NONE"

\* The flags selectPage() sets in the application that shows the page already.
SelectFlags(app, onScreen, moved) ==
  CASE app = "STOCK" -> [force |-> onScreen, forceFull |-> onScreen, dirty |-> moved, full |-> moved]
    [] app = "BAMBU" -> [Clean EXCEPT !.force = moved, !.forceFull = moved]
    [] OTHER         -> Clean

\* The flags onEnter() sets.
EnterFlags(app) ==
  LET activates == app \in {"WEATHER", "HOME_ASSISTANT"}   \* controller_.setActive(true)
  IN  [force |-> TRUE, forceFull |-> TRUE, dirty |-> activates, full |-> activates]

Raised(f, g) == [x \in DOMAIN f |-> f[x] \/ g[x]]

\* Fault variants: an application that is left without onExit(), and a page that keeps the
\* refresh of the one before.
EnteredWithoutExit(app) == entered \cup {app}
RefreshAlwaysKept(moved) == ui.hasRefresh

\* onExit() of the application that is left and onEnter() of the one that is shown.
Entered(app) == IF app = active THEN entered ELSE (entered \ {active}) \cup {app}
MarketPaused(app) == IF app = active THEN marketPaused ELSE app # "STOCK"
RefreshKept(moved) == ui.hasRefresh /\ ~moved

\* activate() and the selectPage() of a neighbouring page: the old application exits
\* and the new one enters only when they are not the same.
Show(m) ==
  LET stays  == m.app = active
      moved  == m.sel # sel
      raised == Raised(ui.flags[m.app], SelectFlags(m.app, m.app \in entered, moved))
      kept   == [ui EXCEPT !.flags[m.app] = raised,
                           !.hasRefresh   = RefreshKept(moved),
                           !.changed      = IF moved THEN Fields(m.app) ELSE @,
                           !.behind       = IF moved THEN Shown(m.app, Fields(m.app)) ELSE @]
  IN  /\ active' = m.app
      /\ sel' = m.sel
      /\ entered' = Entered(m.app)
      /\ marketPaused' = MarketPaused(m.app)
      /\ ui' = IF stays THEN kept
               ELSE [kept EXCEPT !.flags[m.app] = Raised(@, EnterFlags(m.app)),
                                 !.hasRefresh   = FALSE,
                                 !.changed      = IF moved THEN @ ELSE {},
                                 !.behind       = Shown(m.app, Fields(m.app)),
                                 !.modelOf      = PrinterLimit,
                                 !.animation    = [initialized |-> FALSE, dirty |-> FALSE],
                                 !.video        = NoVideo]
      /\ sinceMove' = 0

Stay == /\ sinceMove' = 1
        /\ UNCHANGED <<active, entered, sel, marketPaused, ui>>

\* onInput(): short presses navigate, long ones do nothing.
OnInput(event, saves) ==
  IF event \in {"PREV_SHORT", "NEXT_SHORT"}
  THEN LET m == Navigate(active, sel, event = "NEXT_SHORT", saves)
       IN  IF m.ok THEN Show(m) ELSE Stay
  ELSE Stay

\* appManager.onInput(device.pollButtons(nowMs))
Input(levels, ticks, saves) ==
  LET polled == [k \in Keys |-> Update(buttons[k], levels[k], ticks)]
  IN  /\ step = "input" /\ step' = "tick"
      /\ buttons' = [k \in Keys |-> polled[k].button]
      /\ given' = [k \in Keys |->
           (IF buttons[k].stableHigh /\ ~polled[k].button.stableHigh THEN 0 ELSE given[k])
           + (IF polled[k].gesture = "NONE" THEN 0 ELSE 1)]
      /\ OnInput(InputEvent(polled["PREV"].gesture, polled["NEXT"].gesture), saves)

-----------------------------------------------------------------------------
(* Ticks *)

\* Fields of the view change; the application is marked dirty or not.
Change(app, fields, flag, dirty) ==
  [ui EXCEPT !.changed = @ \cup fields,
             !.behind  = @ \cup Shown(app, fields),
             !.flags[app][flag] = @ \/ dirty]

\* setWifiOnline(), consumeMarketResults(), tick() and publishView() of StockController:
\* the fields that change together.  Only an answer for another stock may switch the
\* provider without marking the view dirty.  The first quote of a stock changes all the
\* quote holds, but for prices that are zero in it.
WatchedStockChanges ==
  {{"wifiOnline", "errorBadge"}, {"marketStatus"}, {"errorBadge"}, {"provider", "last"},
   {"hasIntraday", "intradaySize", "intradayLastMinute", "intradayLastPrice"},
   {"hasIntraday", "intradaySize", "intradayLastMinute", "intradayLastPrice", "intradayProvider"},
   {"intradaySize", "intradayLastMinute"}, {"intradayLastPrice"}, {"intradayPoints"},
   SameQuote \cup {"displayName", "errorBadge"},
   (SameQuote \ {"open", "prevClose"}) \cup {"displayName", "errorBadge"}}
  \cup {{f} : f \in SameQuote \ {"hasQuote"}}

TickStock ==
  {Change("STOCK", fields, "dirty", TRUE) : fields \in WatchedStockChanges}
  \cup {Change("STOCK", {"provider"}, "dirty", FALSE), ui}

\* The playback clock starts with the first tick that has data; a frame is due when the
\* clock has moved on, or none was shown since the page was entered.
NextFrame(u, frame) ==
  IF u.hasData /\ (~u.animation.initialized \/ frame # u.video.frame)
  THEN [u EXCEPT !.animation = [initialized |-> TRUE, dirty |-> TRUE], !.video.frame = frame]
  ELSE u
TickWeather ==
  LET fetched == Change("WEATHER", {"content"}, "dirty", TRUE)
  IN  {NextFrame(u, frame) : u \in {ui, fetched, [fetched EXCEPT !.hasData = TRUE]}, frame \in Frames}

PresentationChanged == {"lastUpdateMs", "connected", "session", "mqttConnected",
                        "lastMqttRc", "printerName"}

\* Between two refreshes a report was merged, which always sets lastUpdateMs, or the
\* connection changed, or the portal replaced the printer; after a switch everything differs.
BambuChanges ==
  IF ui.modelOf # sel.printer THEN {BambuFields}
  ELSE {{"lastUpdateMs", f} : f \in BambuFields \ {"printerName", "session", "lastMqttRc"}}
       \cup {{"session", "mqttConnected"}, {"lastMqttRc", "session"}, {}, BambuFields}

\* Every 500 ms, and at once when the page is new.
TickBambu ==
  {[Change("BAMBU", fields, "force", ~ui.hasRefresh \/ fields \cap PresentationChanged # {})
      EXCEPT !.hasRefresh = TRUE, !.modelOf = sel.printer] : fields \in BambuChanges}
  \cup (IF ui.hasRefresh THEN {ui} ELSE {})

TickHomeAssistant == {Change("HOME_ASSISTANT", {"content"}, "dirty", TRUE), ui}

\* Every second, and at once when the page is new.
TickDeviceInfo ==
  {[Change("DEVICE_INFO", {"content"}, "force", TRUE) EXCEPT !.hasRefresh = TRUE]}
  \cup (IF ui.hasRefresh THEN {ui} ELSE {})

\* appManager.tick(nowMs)
Ticked == CASE active = "STOCK" -> TickStock [] active = "WEATHER" -> TickWeather
            [] active = "BAMBU" -> TickBambu [] active = "HOME_ASSISTANT" -> TickHomeAssistant
            [] OTHER -> TickDeviceInfo

-----------------------------------------------------------------------------
(* Drawing *)

\* takeDirtyFlag(): the flags of StockApp and HomeAssistantApp short-circuit, so their
\* controller's flag may be left for the next pass.
Leaves(app) == app \in {"STOCK", "HOME_ASSISTANT"}
AfterDirty(app, f) == [f EXCEPT !.force = FALSE, !.dirty = f.dirty /\ f.force /\ Leaves(app)]

\* takeFullRedrawFlag()
AfterFull(f) == [f EXCEPT !.forceFull = FALSE, !.full = f.full /\ f.forceFull]

\* The regions render() draws.
Redrawn(changed, full) ==
  LET redraws == IF active = "STOCK" THEN StockRedraws ELSE BambuRedraws
  IN  IF full \/ active \notin {"STOCK", "BAMBU"} \/ (active = "STOCK" /\ "symbol" \in changed)
      THEN DOMAIN Draws(active)
      ELSE {r \in DOMAIN redraws : redraws[r] \cap changed # {}}

\* Fault variant: the video never starts again.
RewindsNever(v) == ~v.valid

\* decodeBadApple(): frames are deltas, so going back starts at the first one again.
Rewinds(v) == ~v.valid \/ v.frame < v.decoded
Decode(v) == LET start == IF Rewinds(v) THEN 0 ELSE v.decoded
             IN  IF v.frame > start THEN v.frame ELSE start

\* drawBadApple() pushes the decoded frame.
DrawVideo(u) ==
  IF u.hasData THEN [u.video EXCEPT !.valid = TRUE, !.decoded = Decode(u.video), !.shown = Decode(u.video)]
  ELSE [u.video EXCEPT !.shown = NoFrame]

\* A frame of the video alone redraws only its viewport.
RenderWeather(u, content) ==
  [u EXCEPT !.animation.dirty = FALSE, !.video = DrawVideo(u),
            !.changed = IF content THEN {} ELSE @, !.behind = IF content THEN {} ELSE @]

RenderPage(u, full) ==
  [u EXCEPT !.behind = {x \in @ : x[1] \notin Redrawn(u.changed, full)}, !.changed = {}]

ContentDirty(u) ==
  u.flags[active].force
  \/ (u.flags[active].dirty /\ active \in {"STOCK", "WEATHER", "HOME_ASSISTANT"})
Dirty(u) == ContentDirty(u) \/ (active = "WEATHER" /\ u.animation.dirty)
Full(u)  == u.flags[active].forceFull \/ u.flags[active].full

\* AppManager::render()
Rendered(u) ==
  LET clean == [u EXCEPT !.flags[active] = AfterDirty(active, @)]
      taken == [clean EXCEPT !.flags[active] = AfterFull(@)]
  IN  IF ~Dirty(u) THEN clean
      ELSE IF active = "WEATHER" THEN RenderWeather(taken, ContentDirty(u))
      ELSE RenderPage(taken, Full(u))

\* The rest of the pass: appManager.tick(nowMs) and appManager.render().
TickAndRender ==
  /\ step = "tick" /\ step' = "input"
  /\ \E u \in Ticked : ui' = Rendered(u)
  /\ UNCHANGED <<buttons, active, entered, sel, marketPaused, given, sinceMove>>

-----------------------------------------------------------------------------
\* AppManager::begin(): the first application with a page, which is the weather.
Init ==
  /\ step = "input"
  /\ buttons = [k \in Keys |-> InitialButton]
  /\ active = "WEATHER" /\ entered = {"WEATHER"}
  /\ sel \in [stock : {0}, printers : SavedCounts, printer : 0..PrinterLimit]
  /\ IF sel.printers = 0 THEN sel.printer = 0 ELSE sel.printer < sel.printers
  /\ marketPaused = TRUE
  /\ ui = [flags |-> [app \in Apps |->
             IF app = "WEATHER" THEN EnterFlags(app)
             ELSE IF app \in {"STOCK", "HOME_ASSISTANT"}
                  THEN [Clean EXCEPT !.dirty = TRUE, !.full = TRUE] ELSE Clean],
           hasRefresh |-> FALSE, modelOf |-> PrinterLimit,
           changed |-> {}, behind |-> Shown("WEATHER", {"content"}),
           hasData |-> FALSE, animation |-> [initialized |-> FALSE, dirty |-> FALSE],
           video |-> NoVideo]
  /\ given = [k \in Keys |-> 1] /\ sinceMove = 0

Next ==
  \/ \E printers \in SavedCounts, printer \in 0..PrinterLimit : SaveBambu(printers, printer)
  \/ \E levels \in [Keys -> BOOLEAN], ticks \in PassTicks, saves \in BOOLEAN :
       Input(levels, ticks, saves)
  \/ TickAndRender

Spec == Init /\ [][Next]_loopVars

-----------------------------------------------------------------------------
(* Properties *)

AtRest == step = "input" /\ \A k \in Keys : buttons[k] = InitialButton

\* Every variable has its type.
TypeOK ==
  /\ step \in {"input", "tick"}
  /\ buttons \in [Keys -> Button]
  /\ active \in Apps /\ entered \subseteq Apps
  /\ sel \in Selection
  /\ marketPaused \in BOOLEAN
  /\ ui \in Ui
  /\ given \in [Keys -> 0..2] /\ sinceMove \in 0..1

\* However buttons, portal and failing saves interleave, one application is entered,
\* and the market worker fetches just while that is the stock application: it is never
\* left running behind another page, nor paused behind its own.
WorkerFollowsPage == entered = {active} /\ marketPaused = (active # "STOCK")

\* After a pass the panel shows the view of the page on screen, although most renders
\* draw a few regions only and every page overwrites the panel of the one before.
\* Four things are known to come later: the footer's providers (a switch caused by
\* another stock's answer marks nothing dirty, and a first chart is no reason to draw the footer),
\* corrected points in the middle of a chart, and a chart that had to wait for the first
\* quote, when that quote opens at zero after a close of zero.
PanelShowsPage ==
  step = "input" /\ ~ui.flags[active].force =>
    ui.behind \subseteq {<<"footer", "provider">>, <<"footer", "hasIntraday">>,
                         <<"chart", "intradayPoints">>, <<"chart", "hasQuote">>}

\* After the pass that moved to a Bambu page the printer shown is the active one, and it
\* is the one the navigation counts from, although navigation knows fewer printers than
\* the configuration may hold and the portal may choose any of them.
ShowsTheSelectedPrinter ==
  [][TickAndRender /\ active = "BAMBU" /\ sinceMove = 0 /\ sel.printers > 0
     => ui'.modelOf = sel.printer /\ sel.printer = SelectedPage("BAMBU", sel)]_loopVars

\* A press that lasts is reported once, as a short or as a long one, whatever the
\* contacts do while it is pressed and released.
OneGesturePerPress ==
  \A k \in Keys : /\ given[k] <= 1
                  /\ buttons[k].stableHigh => given[k] = 1
                  /\ buttons[k].longEmitted => given[k] = 1

\* The page left by one button is the page the other one leads back to, for every
\* number of printers and whichever of them is active, even one the buttons do not
\* reach; only a Bambu page whose printers the portal has just deleted is left for good.
OtherButtonLeadsBack ==
  AtRest /\ PageOf(active, sel) \in Pages(sel) => \A forward \in BOOLEAN :
    LET m == Navigate(active, sel, forward, TRUE)
        b == Navigate(m.app, m.sel, ~forward, TRUE)
    IN  PageOf(b.app, b.sel) = PageOf(active, sel)

\* From every page each button alone reaches all of the others, if saves succeed: the pages
\* of the first stocks and printers, as many as StockApp and BambuApp let navigation reach.
EveryPageInReach ==
  AtRest => \A forward \in BOOLEAN :
    LET n  == Cardinality(Pages(sel))
        at == AfterPresses(active, sel, forward, n)
    IN  Pages(sel) \subseteq {PageOf(at[k].app, at[k].sel) : k \in 0..n}

\* The video shows the frame the playback clock asks for, after the clock went round,
\* after frames were skipped and after the page was left and entered again.
VideoFollowsClock ==
  step = "input" /\ active = "WEATHER" /\ ui.animation.initialized
    => ui.video.shown = ui.video.frame
=============================================================================
