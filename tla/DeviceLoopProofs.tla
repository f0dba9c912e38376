-------------------------- MODULE DeviceLoopProofs --------------------------
(***************************************************************************)
(* What the two buttons, the screens and the market worker keep in step, for *)
(* any numbers of stocks and printers, any film, any debounce and long-press *)
(* times and any passes.  Most of it needs an invariant of its own: what has  *)
(* been reported of a press, what the video decoder stands at, which printer  *)
(* the next tick will show, what of the panel is still to be drawn.           *)
(***************************************************************************)
EXTENDS DeviceLoop, AppShellProofs

-----------------------------------------------------------------------------
(* Gestures *)

\* The levels a button has and what it has reported.
ButtonShape(b) ==
  /\ DOMAIN b = {"rawHigh", "stableHigh", "longEmitted", "rawAge", "pressAge"}
  /\ b.rawHigh \in BOOLEAN /\ b.stableHigh \in BOOLEAN /\ b.longEmitted \in BOOLEAN
  /\ b.stableHigh => ~b.longEmitted

\* A press has been reported when it is over, or when it was a long one: this is what
\* makes it come out once.
Reported(b) == IF b.stableHigh \/ b.longEmitted THEN 1 ELSE 0

GestureInv ==
  /\ DOMAIN buttons = Keys /\ DOMAIN given = Keys
  /\ \A k \in Keys : ButtonShape(buttons[k]) /\ given[k] = Reported(buttons[k])

\* What the first half of update() makes of the levels: a change of the stable one
\* forgets the long press before.
LEMMA DebouncedShape ==
  ASSUME NEW b, ButtonShape(b), NEW high \in BOOLEAN, NEW ticks
  PROVE  LET d == Debounced(b, high, ticks)
         IN  /\ DOMAIN d = {"rawHigh", "stableHigh", "longEmitted", "rawAge", "pressAge"}
             /\ d.rawHigh \in BOOLEAN /\ d.stableHigh \in BOOLEAN
             /\ d.longEmitted = (b.longEmitted /\ d.stableHigh = b.stableHigh)
<1> DEFINE raw == [b EXCEPT !.rawHigh  = high,
                            !.rawAge   = IF high # b.rawHigh THEN 0 ELSE Older(b.rawAge, ticks),
                            !.pressAge = Older(b.pressAge, ticks)]
           set == [raw EXCEPT !.stableHigh = raw.rawHigh, !.longEmitted = FALSE,
                              !.pressAge = IF raw.rawHigh THEN raw.pressAge ELSE raw.rawAge]
           settled == raw.rawHigh # raw.stableHigh /\ raw.rawAge >= DebounceTicks
<1>1. /\ DOMAIN raw = DOMAIN b /\ raw.rawHigh = high
      /\ raw.stableHigh = b.stableHigh /\ raw.longEmitted = b.longEmitted
  BY DEF ButtonShape
<1>2. /\ DOMAIN set = DOMAIN b /\ set.rawHigh = high
      /\ set.stableHigh = high /\ set.longEmitted = FALSE
  BY <1>1 DEF ButtonShape
<1>3. ASSUME NEW x, DOMAIN x = DOMAIN b
      PROVE  /\ DOMAIN AgesRead(x) = DOMAIN b /\ AgesRead(x).rawHigh = x.rawHigh
             /\ AgesRead(x).stableHigh = x.stableHigh /\ AgesRead(x).longEmitted = x.longEmitted
  BY <1>3 DEF AgesRead, ButtonShape
<1>4. Debounced(b, high, ticks) = AgesRead(IF ~settled THEN raw ELSE set)
  BY DEF Debounced
<1> HIDE DEF raw, set
<1>5. CASE ~settled
  BY <1>1, <1>3, <1>4, <1>5 DEF ButtonShape
<1>6. CASE settled
  <2>1. high # b.stableHigh
    BY <1>1, <1>6
  <2> QED BY <1>2, <1>3, <1>4, <1>6, <2>1 DEF ButtonShape
<1> QED BY <1>5, <1>6

\* One poll: the count of reports starts again with a press, and rises with a gesture.
LEMMA UpdateReports ==
  ASSUME NEW b, ButtonShape(b), NEW high \in BOOLEAN, NEW ticks
  PROVE  LET u == Update(b, high, ticks)
         IN  /\ ButtonShape(u.button)
             /\ Reported(u.button) =
                  (IF b.stableHigh /\ ~u.button.stableHigh THEN 0 ELSE Reported(b))
                  + (IF u.gesture = "NONE" THEN 0 ELSE 1)
<1> DEFINE d == Debounced(b, high, ticks)
           u == Update(b, high, ticks)
<1>1. /\ DOMAIN d = {"rawHigh", "stableHigh", "longEmitted", "rawAge", "pressAge"}
      /\ d.rawHigh \in BOOLEAN /\ d.stableHigh \in BOOLEAN
      /\ d.longEmitted = (b.longEmitted /\ d.stableHigh = b.stableHigh)
  BY DebouncedShape
<1> HIDE DEF d
<1>2. CASE LongDue(d)
  <2>1. u.button = [d EXCEPT !.longEmitted = TRUE] /\ u.gesture = "LONG_PRESS"
    BY <1>2 DEF Update, d
  <2>2. /\ DOMAIN u.button = DOMAIN d /\ u.button.rawHigh = d.rawHigh
        /\ u.button.stableHigh = d.stableHigh /\ u.button.longEmitted = TRUE
    BY <1>1, <2>1
  <2>3. ~d.stableHigh /\ ~d.longEmitted
    BY <1>2 DEF LongDue
  <2> QED BY <1>1, <2>1, <2>2, <2>3 DEF ButtonShape, Reported
<1>3. CASE ~LongDue(d)
  <2>1. u.button = d
        /\ u.gesture = IF ~b.stableHigh /\ d.stableHigh THEN ReleaseGesture(b) ELSE "NONE"
    BY <1>3 DEF Update, d
  <2> QED BY <1>1, <2>1 DEF ButtonShape, Reported, ReleaseGesture
<1> QED BY <1>2, <1>3

LEMMA InitGestures == Init => GestureInv
<1> SUFFICES ASSUME Init PROVE GestureInv
  OBVIOUS
<1>1. ButtonShape(InitialButton) /\ Reported(InitialButton) = 1
  BY DEF ButtonShape, Reported, InitialButton
<1>2. buttons = [k \in Keys |-> InitialButton] /\ given = [k \in Keys |-> 1]
  BY DEF Init
<1> QED BY <1>1, <1>2 DEF GestureInv

LEMMA NextGestures == GestureInv /\ [Next]_loopVars => GestureInv'
<1> SUFFICES ASSUME GestureInv, [Next]_loopVars PROVE GestureInv'
  OBVIOUS
<1>1. CASE UNCHANGED <<buttons, given>>
  BY <1>1 DEF GestureInv
<1>2. ASSUME NEW levels \in [Keys -> BOOLEAN], NEW ticks, NEW saves, Input(levels, ticks, saves)
      PROVE  GestureInv'
  <2> DEFINE polled == [k \in Keys |-> Update(buttons[k], levels[k], ticks)]
  <2>1. /\ buttons' = [k \in Keys |-> polled[k].button]
        /\ given' = [k \in Keys |->
             (IF buttons[k].stableHigh /\ ~polled[k].button.stableHigh THEN 0 ELSE given[k])
             + (IF polled[k].gesture = "NONE" THEN 0 ELSE 1)]
    BY <1>2 DEF Input
  <2>2. ASSUME NEW k \in Keys PROVE ButtonShape(buttons'[k]) /\ given'[k] = Reported(buttons'[k])
    <3>1. ButtonShape(buttons[k]) /\ given[k] = Reported(buttons[k]) /\ levels[k] \in BOOLEAN
      BY DEF GestureInv
    <3>2. buttons'[k] = Update(buttons[k], levels[k], ticks).button
      BY <2>1
    <3>3. polled[k] = Update(buttons[k], levels[k], ticks)
      OBVIOUS
    <3>4. given'[k] = (IF buttons[k].stableHigh /\ ~buttons'[k].stableHigh THEN 0 ELSE given[k])
                      + (IF polled[k].gesture = "NONE" THEN 0 ELSE 1)
      BY <2>1
    <3> HIDE DEF polled
    <3> QED BY <3>1, <3>2, <3>3, <3>4, UpdateReports
  <2> QED BY <2>1, <2>2 DEF GestureInv
<1>3. ASSUME NEW printers, NEW printer, SaveBambu(printers, printer) PROVE GestureInv'
  BY <1>3, <1>1 DEF SaveBambu
<1>4. CASE TickAndRender
  BY <1>4, <1>1 DEF TickAndRender
<1>5. CASE UNCHANGED loopVars
  BY <1>5, <1>1 DEF loopVars
<1> QED BY <1>2, <1>3, <1>4, <1>5 DEF Next

\* However the contacts bounce and however slow the passes are, a press is reported once
\* (ButtonInput::update()).
THEOREM PressReportedOnce == Spec => []OneGesturePerPress
<1>1. GestureInv => OneGesturePerPress
  BY DEF GestureInv, OneGesturePerPress, Reported, ButtonShape
<1> QED BY <1>1, InitGestures, NextGestures, PTL DEF Spec

-----------------------------------------------------------------------------
(* The page on screen and the market worker *)

\* Only an application that is left is exited, and only one that is not shown is entered.
LEMMA ShowFollows ==
  ASSUME WorkerFollowsPage, NEW m, Show(m)
  PROVE  WorkerFollowsPage'
<1>1. /\ active' = m.app
      /\ entered' = IF m.app = active THEN entered ELSE (entered \ {active}) \cup {m.app}
      /\ marketPaused' = IF m.app = active THEN marketPaused ELSE m.app # "STOCK"
  BY DEF Show, Entered, MarketPaused
<1>2. entered' = {active'}
  BY <1>1 DEF WorkerFollowsPage
<1> QED BY <1>1, <1>2 DEF WorkerFollowsPage

\* Whatever is pressed, saved and drawn, the applications on and off the screen are told
\* so in turn, and the market worker fetches for the stocks only (AppManager::activate()).
THEOREM WorkerAlwaysFollowsPage == Spec => []WorkerFollowsPage
<1>1. Init => WorkerFollowsPage
  BY DEF Init, WorkerFollowsPage
<1>2. WorkerFollowsPage /\ [Next]_loopVars => WorkerFollowsPage'
  <2> SUFFICES ASSUME WorkerFollowsPage, [Next]_loopVars PROVE WorkerFollowsPage'
    OBVIOUS
  <2>1. CASE UNCHANGED <<active, entered, marketPaused>>
    BY <2>1 DEF WorkerFollowsPage
  <2>2. ASSUME NEW levels, NEW ticks, NEW saves, Input(levels, ticks, saves)
        PROVE  WorkerFollowsPage'
    BY <2>1, <2>2, ShowFollows DEF Input, OnInput, Stay
  <2>3. ASSUME NEW printers, NEW printer, SaveBambu(printers, printer) PROVE WorkerFollowsPage'
    BY <2>1, <2>3 DEF SaveBambu
  <2>4. CASE TickAndRender
    BY <2>1, <2>4 DEF TickAndRender
  <2>5. CASE UNCHANGED loopVars
    BY <2>1, <2>5 DEF loopVars
  <2> QED BY <2>2, <2>3, <2>4, <2>5 DEF Next
<1> QED BY <1>1, <1>2, PTL DEF Spec

-----------------------------------------------------------------------------
(* Types: the constants *)

LEMMA Numbers ==
  /\ StockPageCount \in Nat /\ StockPageCount > 0 /\ PrinterLimit \in Nat
  /\ NavigationPages \in Nat /\ NavigationPages > 0
  /\ SavedCounts \subseteq 0..PrinterLimit /\ FrameCount \in Nat /\ FrameCount > 0
  /\ DebounceTicks \in Nat /\ LongTicks \in Nat /\ PassTicks \subseteq Nat
BY LoopAssumption, ShellAssumption, StocksHavePages, ButtonAssumption

-----------------------------------------------------------------------------
(* Types: what is drawn *)

AllFields  == StockFields \cup BambuFields \cup {"content", "connected", "mqttConnected"}
Flags      == [force : BOOLEAN, forceFull : BOOLEAN, dirty : BOOLEAN, full : BOOLEAN]
Animations == [initialized : BOOLEAN, dirty : BOOLEAN]
Videos     == [frame : Frames, valid : BOOLEAN, decoded : Frames, shown : Frames \cup {NoFrame}]

\* Ui of a page of the given application.
UiOf(app) ==
  [flags : [Apps -> Flags], hasRefresh : BOOLEAN, modelOf : 0..PrinterLimit,
   changed : SUBSET AllFields, behind : SUBSET Shown(app, Fields(app)),
   hasData : BOOLEAN, animation : Animations, video : Videos]

LEMMA UiIsUiOf == Ui = UiOf(active) /\ Ui' = UiOf(active')
BY DEF Ui, UiOf, AllFields, Flags, Animations, Videos

LEMMA ShownWithin ==
  ASSUME NEW app, NEW fields
  PROVE  Shown(app, fields) \subseteq Shown(app, Fields(app))
<1>1. ASSUME NEW r \in DOMAIN Draws(app) PROVE Draws(app)[r] \subseteq Fields(app)
  BY <1>1 DEF Fields
<1>2. ASSUME NEW x, NEW r \in DOMAIN Draws(app), x \in {r} \X (Draws(app)[r] \cap fields)
      PROVE  x \in Shown(app, Fields(app))
  <2>1. x \in {r} \X (Draws(app)[r] \cap Fields(app))
    BY <1>1, <1>2
  <2> QED BY <2>1 DEF Shown
<1> QED BY <1>2 DEF Shown

LEMMA StockFieldsCover ==
  DrawHeader \cup DrawQuote \cup DrawMetrics \cup DrawTurnover \cup DrawChart \cup DrawFooter
    \subseteq StockFields
<1>1. /\ DOMAIN StockDraws = {"header", "quote", "metrics", "turnover", "chart", "footer"}
      /\ StockDraws["header"] = DrawHeader /\ StockDraws["quote"] = DrawQuote
      /\ StockDraws["metrics"] = DrawMetrics /\ StockDraws["turnover"] = DrawTurnover
      /\ StockDraws["chart"] = DrawChart /\ StockDraws["footer"] = DrawFooter
  BY DEF StockDraws
<1>2. ASSUME NEW r \in DOMAIN StockDraws PROVE StockDraws[r] \subseteq StockFields
  BY DEF StockFields
<1> QED BY <1>1, <1>2

LEMMA BambuFieldsCover ==
  DrawBambuHeader \cup DrawProgress \cup DrawJob \cup DrawFilament \cup DrawBambuFooter
    \subseteq BambuFields
<1>1. /\ DOMAIN BambuDraws = {"header", "progress", "job", "filament", "footer"}
      /\ BambuDraws["header"] = DrawBambuHeader /\ BambuDraws["progress"] = DrawProgress
      /\ BambuDraws["job"] = DrawJob /\ BambuDraws["filament"] = DrawFilament
      /\ BambuDraws["footer"] = DrawBambuFooter
  BY DEF BambuDraws
<1>2. ASSUME NEW r \in DOMAIN BambuDraws PROVE BambuDraws[r] \subseteq BambuFields
  BY DEF BambuFields
<1> QED BY <1>1, <1>2

LEMMA FieldsWithin == ASSUME NEW app \in Apps PROVE Fields(app) \subseteq AllFields
<1>1. CASE app = "STOCK"
  BY <1>1 DEF Fields, Draws, StockFields, AllFields
<1>2. CASE app = "BAMBU"
  BY <1>2 DEF Fields, Draws, BambuFields, AllFields
<1>3. CASE app \notin {"STOCK", "BAMBU"}
  <2>1. Draws(app) = [page |-> {"content"}]
    BY <1>3 DEF Draws, Apps, WeatherDraws, HomeAssistantDraws, DeviceInfoDraws
  <2>2. Fields(app) = {"content"}
    BY <2>1 DEF Fields
  <2> QED BY <2>2 DEF AllFields
<1> QED BY <1>1, <1>2, <1>3

\* The fields a tick changes are fields of the views.
LEMMA StockChangesWithin ==
  ASSUME NEW fields \in WatchedStockChanges PROVE fields \subseteq AllFields
<1>1. SameQuote \cup {"displayName", "errorBadge", "wifiOnline", "marketStatus", "provider",
                      "hasIntraday", "intradaySize", "intradayLastMinute", "intradayLastPrice",
                      "intradayProvider", "intradayPoints"} \subseteq AllFields
  BY StockFieldsCover DEF SameQuote, DrawHeader, DrawQuote, DrawMetrics, DrawTurnover, DrawChart,
     DrawFooter, AllFields
<1>2. "last" \in SameQuote
  BY DEF SameQuote
<1> QED BY <1>1, <1>2 DEF WatchedStockChanges

LEMMA BambuChangesWithin ==
  ASSUME NEW fields \in BambuChanges PROVE fields \subseteq AllFields
<1>1. BambuFields \cup {"lastUpdateMs", "session", "lastMqttRc", "mqttConnected"} \subseteq AllFields
  BY BambuFieldsCover DEF DrawBambuHeader, DrawBambuFooter, AllFields
<1> QED BY <1>1 DEF BambuChanges

-----------------------------------------------------------------------------
(* Types: ticks and drawing *)

LEMMA ChangeType ==
  ASSUME active \in Apps, Ui = UiOf(active), ui \in Ui, NEW fields \in SUBSET AllFields,
         NEW flag \in {"dirty", "force"}, NEW dirty \in BOOLEAN
  PROVE  Change(active, fields, flag, dirty) \in Ui
<1> DEFINE marked == [ui.flags EXCEPT ![active][flag] = @ \/ dirty]
           changed == ui.changed \cup fields
           behind  == ui.behind \cup Shown(active, fields)
<1>1. ui \in UiOf(active)
  OBVIOUS
<1>2. marked \in [Apps -> Flags]
  <2>1. ui.flags \in [Apps -> Flags]
    BY <1>1 DEF UiOf
  <2>2. [ui.flags[active] EXCEPT ![flag] = @ \/ dirty] \in Flags
    BY <2>1 DEF Flags
  <2> QED BY <2>1, <2>2
<1>3. changed \in SUBSET AllFields
  BY <1>1 DEF UiOf
<1>4. behind \in SUBSET Shown(active, Fields(active))
  BY <1>1, ShownWithin DEF UiOf
<1>5. Change(active, fields, flag, dirty)
        = [ui EXCEPT !.changed = changed, !.behind = behind, !.flags = marked]
  BY <1>1 DEF Change, UiOf
<1> HIDE DEF marked, changed, behind
<1> QED BY <1>1, <1>2, <1>3, <1>4, <1>5 DEF UiOf

LEMMA NextFrameType ==
  ASSUME Ui = UiOf(active), NEW u \in Ui, NEW frame \in Frames
  PROVE  NextFrame(u, frame) \in Ui
<1>1. u \in UiOf(active)
  OBVIOUS
<1>2. [u EXCEPT !.animation = [initialized |-> TRUE, dirty |-> TRUE], !.video.frame = frame] \in UiOf(active)
  <2>1. [initialized |-> TRUE, dirty |-> TRUE] \in Animations
    BY DEF Animations
  <2>2. [u.video EXCEPT !.frame = frame] \in Videos
    BY <1>1 DEF UiOf, Videos
  <2> QED BY <1>1, <2>1, <2>2 DEF UiOf
<1> QED BY <1>2 DEF NextFrame

LEMMA TickedType ==
  ASSUME active \in Apps, sel \in Selection, Ui = UiOf(active), ui \in Ui, NEW u \in Ticked
  PROVE  u \in Ui
<1>1. {"content"} \subseteq AllFields
  BY DEF AllFields
<1>2. CASE active = "STOCK"
  <2>1. {"provider"} \subseteq AllFields
    BY StockFieldsCover DEF DrawFooter, AllFields
  <2>2. u \in TickStock
    BY <1>2 DEF Ticked
  <2>3. \/ u = ui
        \/ u = Change("STOCK", {"provider"}, "dirty", FALSE)
        \/ \E fields \in WatchedStockChanges : u = Change("STOCK", fields, "dirty", TRUE)
    BY <2>2 DEF TickStock
  <2> QED BY <1>2, <2>1, <2>3, ChangeType, StockChangesWithin
<1>3. CASE active = "WEATHER"
  <2> DEFINE fetched == Change("WEATHER", {"content"}, "dirty", TRUE)
             loaded  == [fetched EXCEPT !.hasData = TRUE]
  <2>1. fetched \in Ui
    BY <1>1, <1>3, ChangeType
  <2> HIDE DEF fetched
  <2>2. loaded \in Ui
    BY <2>1 DEF UiOf
  <2>3. u \in TickWeather
    BY <1>3 DEF Ticked
  <2>4. TickWeather = {NextFrame(w, frame) : w \in {ui, fetched, loaded}, frame \in Frames}
    BY DEF TickWeather, fetched, loaded
  <2> HIDE DEF loaded
  <2>5. \E w \in {ui, fetched, loaded}, frame \in Frames : u = NextFrame(w, frame)
    BY <2>3, <2>4
  <2> QED BY <2>1, <2>2, <2>5, NextFrameType
<1>4. CASE active = "BAMBU"
  <2>1. u \in TickBambu
    BY <1>4 DEF Ticked
  <2>2. CASE u = ui
    BY <2>2
  <2>3. CASE u # ui
    <3>1. PICK fields \in BambuChanges :
            u = [Change("BAMBU", fields, "force", ~ui.hasRefresh \/ fields \cap PresentationChanged # {})
                   EXCEPT !.hasRefresh = TRUE, !.modelOf = sel.printer]
      BY <2>1, <2>3 DEF TickBambu
    <3> DEFINE made == Change("BAMBU", fields, "force", ~ui.hasRefresh \/ fields \cap PresentationChanged # {})
    <3>2. made \in Ui
      <4>1. fields \in SUBSET AllFields /\ ui.hasRefresh \in BOOLEAN
        BY BambuChangesWithin DEF UiOf
      <4>2. (~ui.hasRefresh \/ fields \cap PresentationChanged # {}) \in BOOLEAN
        OBVIOUS
      <4> QED BY <1>4, <4>1, <4>2, ChangeType
    <3>3. sel.printer \in 0..PrinterLimit
      BY DEF Selection
    <3> HIDE DEF made
    <3>4. [made EXCEPT !.hasRefresh = TRUE, !.modelOf = sel.printer] \in Ui
      BY <3>2, <3>3 DEF UiOf
    <3> QED BY <3>1, <3>4 DEF made
  <2> QED BY <2>2, <2>3
<1>5. CASE active = "HOME_ASSISTANT"
  <2>1. u \in TickHomeAssistant
    BY <1>5 DEF Ticked
  <2> QED BY <1>1, <1>5, <2>1, ChangeType DEF TickHomeAssistant
<1>6. CASE active = "DEVICE_INFO"
  <2> DEFINE made == Change("DEVICE_INFO", {"content"}, "force", TRUE)
  <2>1. u \in TickDeviceInfo
    BY <1>6 DEF Ticked
  <2>2. made \in Ui
    BY <1>1, <1>6, ChangeType
  <2>3. u = ui \/ u = [made EXCEPT !.hasRefresh = TRUE]
    BY <2>1 DEF TickDeviceInfo
  <2> HIDE DEF made
  <2> QED BY <2>2, <2>3 DEF UiOf
<1> QED BY <1>2, <1>3, <1>4, <1>5, <1>6 DEF Apps

\* Drawing leaves fewer differences, and the video at a frame there is.
LEMMA RenderedType ==
  ASSUME active \in Apps, Ui = UiOf(active), NEW u \in Ui
  PROVE  Rendered(u) \in Ui
<1> DEFINE clean == [u EXCEPT !.flags[active] = AfterDirty(active, @)]
           taken == [clean EXCEPT !.flags[active] = AfterFull(@)]
<1>1. u \in UiOf(active) /\ u.flags \in [Apps -> Flags]
  BY DEF UiOf
<1>2. ASSUME NEW f \in Flags PROVE AfterDirty(active, f) \in Flags /\ AfterFull(f) \in Flags
  BY DEF AfterDirty, AfterFull, Leaves, Flags
<1>3. clean \in UiOf(active)
  <2>1. [u.flags EXCEPT ![active] = AfterDirty(active, @)] \in [Apps -> Flags]
    BY <1>1, <1>2
  <2> QED BY <1>1, <2>1 DEF UiOf
<1> HIDE DEF clean
<1>4. taken \in UiOf(active)
  <2>1. [clean.flags EXCEPT ![active] = AfterFull(@)] \in [Apps -> Flags]
    BY <1>2, <1>3 DEF UiOf
  <2> QED BY <1>3, <2>1 DEF UiOf
<1> HIDE DEF taken
<1>5. ASSUME NEW content \in BOOLEAN PROVE RenderWeather(taken, content) \in UiOf(active)
  <2>1. [taken.animation EXCEPT !.dirty = FALSE] \in Animations
    BY <1>4 DEF UiOf, Animations
  <2>2. DrawVideo(taken) \in Videos
    <3>1. taken.video \in Videos
      BY <1>4 DEF UiOf
    <3>2. Decode(taken.video) \in Frames
      BY <3>1, Numbers DEF Decode, Videos, Frames
    <3> QED BY <3>1, <3>2 DEF DrawVideo, Videos
  <2>3. (IF content THEN {} ELSE taken.changed) \in SUBSET AllFields
        /\ (IF content THEN {} ELSE taken.behind) \in SUBSET Shown(active, Fields(active))
    BY <1>4 DEF UiOf
  <2>4. RenderWeather(taken, content)
          = [taken EXCEPT !.animation = [taken.animation EXCEPT !.dirty = FALSE],
                          !.video = DrawVideo(taken),
                          !.changed = IF content THEN {} ELSE taken.changed,
                          !.behind = IF content THEN {} ELSE taken.behind]
    BY <1>4 DEF RenderWeather, UiOf
  <2> QED BY <1>4, <2>1, <2>2, <2>3, <2>4 DEF UiOf
<1>6. ASSUME NEW full PROVE RenderPage(taken, full) \in UiOf(active)
  <2>1. {x \in taken.behind : x[1] \notin Redrawn(taken.changed, full)} \in SUBSET Shown(active, Fields(active))
    BY <1>4 DEF UiOf
  <2>2. RenderPage(taken, full)
          = [taken EXCEPT !.behind = {x \in taken.behind : x[1] \notin Redrawn(taken.changed, full)},
                          !.changed = {}]
    BY <1>4 DEF RenderPage, UiOf
  <2>3. {} \in SUBSET AllFields
    OBVIOUS
  <2> HIDE DEF UiOf
  <2> QED BY <1>4, <2>1, <2>2, <2>3 DEF UiOf
<1>7. ContentDirty(u) \in BOOLEAN
  BY <1>1 DEF ContentDirty, Flags
<1>8. Rendered(u) = IF ~Dirty(u) THEN clean
                    ELSE IF active = "WEATHER" THEN RenderWeather(taken, ContentDirty(u))
                    ELSE RenderPage(taken, Full(u))
  BY DEF Rendered, clean, taken
<1> QED BY <1>3, <1>5, <1>6, <1>7, <1>8

-----------------------------------------------------------------------------
(* Types: moving, polling, and all together *)

LEMMA RaisedType == ASSUME NEW f \in Flags, NEW g \in Flags PROVE Raised(f, g) \in Flags
<1>1. DOMAIN f = {"force", "forceFull", "dirty", "full"}
  BY DEF Flags
<1>2. Raised(f, g) = [x \in {"force", "forceFull", "dirty", "full"} |-> f[x] \/ g[x]]
  BY <1>1 DEF Raised
<1>3. /\ DOMAIN Raised(f, g) = {"force", "forceFull", "dirty", "full"}
      /\ Raised(f, g) = [force |-> f.force \/ g.force, forceFull |-> f.forceFull \/ g.forceFull,
                         dirty |-> f.dirty \/ g.dirty, full |-> f.full \/ g.full]
  BY <1>2
<1>4. /\ (f.force \/ g.force) \in BOOLEAN /\ (f.forceFull \/ g.forceFull) \in BOOLEAN
      /\ (f.dirty \/ g.dirty) \in BOOLEAN /\ (f.full \/ g.full) \in BOOLEAN
  OBVIOUS
<1> QED BY <1>3, <1>4 DEF Flags

LEMMA FlagTypes ==
  ASSUME NEW app, NEW onScreen \in BOOLEAN, NEW moved \in BOOLEAN
  PROVE  Clean \in Flags /\ SelectFlags(app, onScreen, moved) \in Flags /\ EnterFlags(app) \in Flags
<1>1. Clean \in Flags
  BY DEF Clean, Flags
<1>2. [Clean EXCEPT !.force = moved, !.forceFull = moved] \in Flags
  BY <1>1 DEF Flags
<1>3. SelectFlags(app, onScreen, moved) \in Flags
  BY <1>1, <1>2 DEF SelectFlags, Flags
<1> QED BY <1>1, <1>3 DEF EnterFlags, Flags

LEMMA NoVideoType == NoVideo \in Videos
BY Numbers DEF NoVideo, Videos, Frames

\* A page that is entered or moved to is behind with all it shows, which is what the
\* new page's Ui asks for.
LEMMA ShowType ==
  ASSUME active \in Apps, ui \in UiOf(active), NEW m, m.app \in Apps, Show(m)
  PROVE  ui' \in UiOf(m.app)
<1> DEFINE moved  == m.sel # sel
           raised == Raised(ui.flags[m.app], SelectFlags(m.app, m.app \in entered, moved))
           flags  == [ui.flags EXCEPT ![m.app] = raised]
           all    == Shown(m.app, Fields(m.app))
           kept   == [ui EXCEPT !.flags[m.app] = raised,
                                !.hasRefresh   = RefreshKept(moved),
                                !.changed      = IF moved THEN Fields(m.app) ELSE @,
                                !.behind       = IF moved THEN all ELSE @]
           new    == [kept EXCEPT !.flags[m.app] = Raised(@, EnterFlags(m.app)),
                                  !.hasRefresh   = FALSE,
                                  !.changed      = IF moved THEN @ ELSE {},
                                  !.behind       = all,
                                  !.modelOf      = PrinterLimit,
                                  !.animation    = [initialized |-> FALSE, dirty |-> FALSE],
                                  !.video        = NoVideo]
<1>1. ui' = IF m.app = active THEN kept ELSE new
  BY DEF Show
<1>2. flags \in [Apps -> Flags]
  <2>1. ui.flags[m.app] \in Flags
    BY DEF UiOf
  <2>2. SelectFlags(m.app, m.app \in entered, moved) \in Flags
    <3>1. (m.app \in entered) \in BOOLEAN /\ moved \in BOOLEAN
      OBVIOUS
    <3> HIDE DEF moved
    <3> QED BY <3>1, FlagTypes
  <2>3. raised \in Flags
    BY <2>1, <2>2, RaisedType
  <2> HIDE DEF raised
  <2> QED BY <2>3 DEF UiOf
<1>3. RefreshKept(moved) \in BOOLEAN
  BY DEF RefreshKept, UiOf
<1> DEFINE changed == IF moved THEN Fields(m.app) ELSE ui.changed
           behind  == IF moved THEN all ELSE ui.behind
<1>4. changed \in SUBSET AllFields
  BY FieldsWithin DEF UiOf
<1>5. kept = [ui EXCEPT !.flags = flags, !.hasRefresh = RefreshKept(moved),
                        !.changed = changed, !.behind = behind]
  BY DEF UiOf
<1> HIDE DEF raised, flags, changed, all, moved
<1>6. CASE m.app = active
  <2>1. behind \in SUBSET Shown(active, Fields(active))
    BY <1>6 DEF UiOf, all
  <2> HIDE DEF behind, kept
  <2> QED BY <1>1, <1>2, <1>3, <1>4, <1>5, <1>6, <2>1 DEF UiOf
<1>7. CASE m.app # active
  <2> DEFINE entry == [flags EXCEPT ![m.app] = Raised(@, EnterFlags(m.app))]
             cleared == IF moved THEN changed ELSE {}
  <2>1. entry \in [Apps -> Flags]
    BY <1>2, FlagTypes, RaisedType
  <2>2. cleared \in SUBSET AllFields
    BY <1>4
  <2>3. [initialized |-> FALSE, dirty |-> FALSE] \in Animations
    BY DEF Animations
  <2>4. PrinterLimit \in 0..PrinterLimit
    BY Numbers
  <2>5. all \in SUBSET Shown(m.app, Fields(m.app))
    BY DEF all
  <2>6. /\ kept.flags = flags /\ kept.changed = changed
        /\ DOMAIN kept = {"flags", "hasRefresh", "modelOf", "changed", "behind", "hasData", "animation", "video"}
        /\ kept.hasData \in BOOLEAN
    BY <1>5 DEF UiOf
  <2> HIDE DEF kept
  <2>7. new = [kept EXCEPT !.flags = entry, !.hasRefresh = FALSE, !.changed = cleared, !.behind = all,
                           !.modelOf = PrinterLimit,
                           !.animation = [initialized |-> FALSE, dirty |-> FALSE], !.video = NoVideo]
    BY <2>6
  <2>8. new = [flags |-> entry, hasRefresh |-> FALSE, modelOf |-> PrinterLimit, changed |-> cleared,
               behind |-> all, hasData |-> kept.hasData,
               animation |-> [initialized |-> FALSE, dirty |-> FALSE], video |-> NoVideo]
    <3> HIDE DEF entry, cleared, new
    <3>1. kept = [flags |-> flags, hasRefresh |-> RefreshKept(moved), modelOf |-> ui.modelOf,
                  changed |-> changed, behind |-> behind, hasData |-> ui.hasData,
                  animation |-> ui.animation, video |-> ui.video]
      BY <1>5 DEF UiOf
    <3> QED BY <2>7, <3>1
  <2> HIDE DEF entry, cleared, new
  <2> QED BY <1>1, <1>7, <2>1, <2>2, <2>3, <2>4, <2>5, <2>6, <2>8, NoVideoType DEF UiOf
<1> QED BY <1>6, <1>7

\* Ages stay within the longest interval they are compared with.
LEMMA UpdateType ==
  ASSUME NEW b \in Button, NEW high \in BOOLEAN, NEW ticks \in Nat
  PROVE  Update(b, high, ticks).button \in Button
<1> DEFINE rawAge   == IF high # b.rawHigh THEN 0 ELSE Older(b.rawAge, ticks)
           pressAge == Older(b.pressAge, ticks)
           raw      == [b EXCEPT !.rawHigh = high, !.rawAge = rawAge, !.pressAge = pressAge]
           held     == IF raw.rawHigh THEN raw.pressAge ELSE raw.rawAge
           settled  == [raw EXCEPT !.stableHigh = raw.rawHigh, !.longEmitted = FALSE, !.pressAge = held]
<1>1. b.rawAge \in Ages /\ b.pressAge \in Ages /\ LongTicks \in Ages
  BY Numbers DEF Button, Ages
<1>2. rawAge \in Ages /\ pressAge \in Ages
  BY <1>1, Numbers DEF Older, Ages
<1> HIDE DEF rawAge, pressAge
<1>3. raw \in Button
  BY <1>2 DEF Button
<1> HIDE DEF raw
<1>4. held \in Ages
  BY <1>3 DEF Button
<1> HIDE DEF held
<1>5. settled \in Button
  BY <1>3, <1>4 DEF Button
<1> HIDE DEF settled
<1>6. ASSUME NEW x \in Button PROVE AgesRead(x) \in Button
  <2> DEFINE first  == IF x.rawHigh = x.stableHigh THEN LongTicks ELSE x.rawAge
             second == IF x.stableHigh THEN LongTicks ELSE x.pressAge
  <2>1. first \in Ages /\ second \in Ages
    BY <1>1 DEF Button
  <2>2. AgesRead(x) = [x EXCEPT !.rawAge = first, !.pressAge = second]
    BY DEF AgesRead, Button
  <2> HIDE DEF first, second
  <2> QED BY <2>1, <2>2 DEF Button
<1>7. Debounced(b, high, ticks) \in {AgesRead(raw), AgesRead(settled)}
  BY DEF Debounced, raw, settled, held, rawAge, pressAge
<1>8. Debounced(b, high, ticks) \in Button
  BY <1>3, <1>5, <1>6, <1>7
<1>9. [Debounced(b, high, ticks) EXCEPT !.longEmitted = TRUE] \in Button
  BY <1>8 DEF Button
<1> QED BY <1>8, <1>9 DEF Update

LEMMA InitTypes == Init => TypeOK
<1> SUFFICES ASSUME Init PROVE TypeOK
  OBVIOUS
<1>1. InitialButton \in Button
  BY Numbers DEF InitialButton, Button, Ages
<1>2. sel \in Selection
  BY Numbers DEF Init, Selection
<1>3. ui \in UiOf(active)
  <2>1. [Clean EXCEPT !.dirty = TRUE, !.full = TRUE] \in Flags
    BY DEF Clean, Flags
  <2>2. Clean \in Flags /\ \A app : EnterFlags(app) \in Flags
    BY FlagTypes
  <2> DEFINE flags == [app \in Apps |->
             IF app = "WEATHER" THEN EnterFlags(app)
             ELSE IF app \in {"STOCK", "HOME_ASSISTANT"}
                  THEN [Clean EXCEPT !.dirty = TRUE, !.full = TRUE] ELSE Clean]
  <2>3. flags \in [Apps -> Flags]
    BY <2>1, <2>2
  <2> HIDE DEF flags
  <2>4. ui = [flags |-> flags, hasRefresh |-> FALSE, modelOf |-> PrinterLimit,
              changed |-> {}, behind |-> Shown("WEATHER", {"content"}),
              hasData |-> FALSE, animation |-> [initialized |-> FALSE, dirty |-> FALSE],
              video |-> NoVideo]
    BY DEF Init, flags
  <2>5. Shown("WEATHER", {"content"}) \in SUBSET Shown("WEATHER", Fields("WEATHER"))
    BY ShownWithin
  <2>6. PrinterLimit \in 0..PrinterLimit /\ [initialized |-> FALSE, dirty |-> FALSE] \in Animations
    BY Numbers DEF Animations
  <2>7. active = "WEATHER"
    BY DEF Init
  <2> QED BY <2>3, <2>4, <2>5, <2>6, <2>7, NoVideoType DEF UiOf
<1>4. ui \in Ui
  BY <1>3, UiIsUiOf
<1> QED BY <1>1, <1>2, <1>4 DEF Init, TypeOK, Apps

LEMMA NextTypes == TypeOK /\ GestureInv /\ [Next]_loopVars => TypeOK'
<1> SUFFICES ASSUME TypeOK, GestureInv, [Next]_loopVars PROVE TypeOK'
  OBVIOUS
<1>1. CASE UNCHANGED loopVars
  BY <1>1, UiIsUiOf DEF loopVars, TypeOK
<1>2. ASSUME NEW printers \in SavedCounts, NEW printer \in 0..PrinterLimit, SaveBambu(printers, printer)
      PROVE  TypeOK'
  <2>1. sel' \in Selection
    BY <1>2, Numbers DEF SaveBambu, TypeOK, Selection
  <2> QED BY <1>2, <2>1, UiIsUiOf DEF SaveBambu, TypeOK
<1>3. ASSUME NEW levels \in [Keys -> BOOLEAN], NEW ticks \in PassTicks, NEW saves \in BOOLEAN,
             Input(levels, ticks, saves)
      PROVE  TypeOK'
  <2>1. buttons' \in [Keys -> Button]
    <3>1. ASSUME NEW k \in Keys PROVE Update(buttons[k], levels[k], ticks).button \in Button
      BY UpdateType, Numbers DEF TypeOK
    <3>2. buttons' = [k \in Keys |-> Update(buttons[k], levels[k], ticks).button]
      BY <1>3 DEF Input
    <3> QED BY <3>1, <3>2
  <2>2. given' \in [Keys -> 0..2]
    <3>1. \A k \in Keys : given'[k] = Reported(buttons'[k])
      BY NextGestures DEF GestureInv
    <3>2. given' = [k \in Keys |-> given'[k]]
      BY <1>3 DEF Input
    <3>3. \A k \in Keys : given'[k] \in 0..2
      BY <3>1 DEF Reported
    <3> QED BY <3>2, <3>3
  <2>3. ASSUME Stay PROVE TypeOK'
    BY <1>3, <2>1, <2>2, <2>3, UiIsUiOf DEF Stay, Input, TypeOK
  <2>4. ASSUME NEW m, m.app \in Apps, m.sel \in Selection, Show(m) PROVE TypeOK'
    <3>1. ui' \in Ui'
      <4>1. active' = m.app /\ ui \in UiOf(active) /\ active \in Apps
        BY <2>4, UiIsUiOf DEF Show, TypeOK
      <4> QED BY <2>4, <4>1, ShowType, UiIsUiOf
    <3>2. /\ active' \in Apps /\ sel' \in Selection /\ entered' \subseteq Apps
          /\ marketPaused' \in BOOLEAN /\ sinceMove' = 0
      BY <2>4 DEF Show, Entered, MarketPaused, TypeOK
    <3>3. step' \in {"input", "tick"}
      BY <1>3 DEF Input
    <3> QED BY <2>1, <2>2, <3>1, <3>2, <3>3 DEF TypeOK
  <2>5. \/ Stay
        \/ \E forward \in BOOLEAN : Show(Navigate(active, sel, forward, saves))
    BY <1>3 DEF Input, OnInput
  <2>6. \A forward \in BOOLEAN : /\ Navigate(active, sel, forward, saves).app \in Apps
                                 /\ Navigate(active, sel, forward, saves).sel \in Selection
    BY NavigateType DEF TypeOK
  <2> QED BY <2>3, <2>4, <2>5, <2>6
<1>4. CASE TickAndRender
  <2>1. PICK u \in Ticked : ui' = Rendered(u)
    BY <1>4 DEF TickAndRender
  <2>2. ui' \in Ui
    BY <2>1, UiIsUiOf, TickedType, RenderedType DEF TypeOK
  <2>3. active' = active
    BY <1>4 DEF TickAndRender
  <2>4. ui' \in Ui'
    BY <2>2, <2>3, UiIsUiOf
  <2> QED BY <1>4, <2>4 DEF TickAndRender, TypeOK
<1> QED BY <1>1, <1>2, <1>3, <1>4 DEF Next

\* Every page chosen exists, and everything drawn is of the page on screen, for any number
\* of stocks, printers, frames and passes (AppManager, ButtonInput, WeatherScreen).
THEOREM TypesHold == Spec => []TypeOK
BY InitTypes, NextTypes, InitGestures, NextGestures, PTL DEF Spec

-----------------------------------------------------------------------------
(* Where the buttons lead *)

\* The other button leads back, whatever is configured (AppManager::navigate()).
THEOREM ButtonsAreInverse == Spec => []OtherButtonLeadsBack
<1>1. TypeOK => OtherButtonLeadsBack
  <2> SUFFICES ASSUME TypeOK, PageOf(active, sel) \in Pages(sel), NEW forward \in BOOLEAN
               PROVE  LET m == Navigate(active, sel, forward, TRUE)
                          b == Navigate(m.app, m.sel, ~forward, TRUE)
                      IN  PageOf(b.app, b.sel) = PageOf(active, sel)
    BY DEF OtherButtonLeadsBack
  <2>1. active \in Apps /\ sel \in Selection
    BY DEF TypeOK
  <2>2. HasPage(active, sel)
    BY DEF Pages, PageOf, HasPage
  <2> QED BY <2>1, <2>2, PressIsUndone
<1> QED BY <1>1, TypesHold, PTL

\* Each button alone reaches every page navigation exposes, those of the first StockPages
\* stocks and the first NavigationPages printers among them, however many are configured
\* (AppManager::navigate() with StockApp::pageCount() and BambuApp::pageCount()).
THEOREM EachButtonReachesAll == Spec => []EveryPageInReach
<1>1. TypeOK => EveryPageInReach
  BY RowVisitsAll DEF TypeOK, EveryPageInReach
<1> QED BY <1>1, TypesHold, PTL

-----------------------------------------------------------------------------
(* The video *)

\* While the playback runs there is data to show it with, and after each pass the panel
\* has the frame of the clock: the frame is set and drawn in the same pass.
VideoInv ==
  active = "WEATHER" /\ ui.animation.initialized
    => ui.hasData /\ ~ui.animation.dirty /\ ui.video.shown = ui.video.frame

\* Decoding ends at the frame it was asked for, forwards and from the start again.
LEMMA DecodesFrame ==
  ASSUME NEW v \in Videos
  PROVE  Decode(v) = v.frame
<1>1. v.frame \in Nat /\ v.decoded \in Nat /\ v.valid \in BOOLEAN
  BY Numbers DEF Videos, Frames
<1> QED BY <1>1 DEF Decode, Rewinds

\* What a tick of the weather makes of the playback.
LEMMA WeatherTicked ==
  ASSUME active = "WEATHER", ui \in UiOf(active), VideoInv, NEW u \in Ticked
  PROVE  u.animation.initialized =>
           u.hasData /\ (u.animation.dirty \/ u.video.shown = u.video.frame)
<1> DEFINE fetched == Change("WEATHER", {"content"}, "dirty", TRUE)
           loaded  == [fetched EXCEPT !.hasData = TRUE]
<1>1. PICK w \in {ui, fetched, loaded}, frame \in Frames : u = NextFrame(w, frame)
  <2>1. TickWeather = {NextFrame(w, frame) : w \in {ui, fetched, loaded}, frame \in Frames}
    BY DEF TickWeather
  <2> HIDE DEF fetched, loaded
  <2>2. u \in TickWeather
    BY DEF Ticked
  <2> QED BY <2>1, <2>2
<1>2. /\ fetched.animation = ui.animation /\ fetched.video = ui.video
      /\ fetched.hasData = ui.hasData
      /\ DOMAIN fetched = DOMAIN ui
  BY DEF Change, UiOf
<1> HIDE DEF fetched
<1>3. /\ loaded.animation = ui.animation /\ loaded.video = ui.video /\ loaded.hasData
      /\ DOMAIN loaded = DOMAIN ui
  BY <1>2 DEF UiOf
<1> HIDE DEF loaded
<1>4. /\ w.animation = ui.animation /\ w.video = ui.video
      /\ ui.hasData => w.hasData
      /\ DOMAIN w = DOMAIN ui
  BY <1>1, <1>2, <1>3
<1>5. CASE u = w
  BY <1>4, <1>5 DEF VideoInv
<1>6. CASE u # w
  <2>1. /\ w.hasData
        /\ u = [w EXCEPT !.animation = [initialized |-> TRUE, dirty |-> TRUE], !.video.frame = frame]
    BY <1>1, <1>6 DEF NextFrame
  <2>2. u.hasData = w.hasData /\ u.animation = [initialized |-> TRUE, dirty |-> TRUE]
    BY <1>4, <2>1 DEF UiOf
  <2> QED BY <2>1, <2>2
<1> QED BY <1>5, <1>6

\* What drawing leaves of a page of the weather.
LEMMA WeatherRendered ==
  ASSUME active = "WEATHER", NEW u \in UiOf(active),
         u.animation.initialized =>
           u.hasData /\ (u.animation.dirty \/ u.video.shown = u.video.frame)
  PROVE  LET r == Rendered(u)
         IN  r.animation.initialized =>
               r.hasData /\ ~r.animation.dirty /\ r.video.shown = r.video.frame
<1> DEFINE clean == [u EXCEPT !.flags[active] = AfterDirty(active, @)]
           taken == [clean EXCEPT !.flags[active] = AfterFull(@)]
           r == Rendered(u)
<1>1. /\ clean.animation = u.animation /\ clean.video = u.video /\ clean.hasData = u.hasData
      /\ DOMAIN clean = DOMAIN u
  BY DEF UiOf
<1>2. Rendered(u) = IF ~Dirty(u) THEN clean ELSE RenderWeather(taken, ContentDirty(u))
  BY DEF Rendered
<1>3. u.animation \in Animations /\ u.video \in Videos /\ u.animation.dirty \in BOOLEAN
  BY DEF UiOf, Animations
<1> HIDE DEF clean
<1>4. /\ taken.animation = u.animation /\ taken.video = u.video /\ taken.hasData = u.hasData
      /\ DOMAIN taken = DOMAIN u
  BY <1>1 DEF UiOf
<1> HIDE DEF taken
<1>5. CASE ~Dirty(u)
  <2>1. ~u.animation.dirty
    BY <1>5 DEF Dirty
  <2> QED BY <1>1, <1>2, <1>5, <2>1
<1>6. CASE Dirty(u)
  <2>1. /\ r.animation = [taken.animation EXCEPT !.dirty = FALSE]
        /\ r.video = DrawVideo(taken) /\ r.hasData = taken.hasData
    BY <1>2, <1>4, <1>6 DEF RenderWeather, UiOf
  <2> HIDE DEF r
  <2>2. r.animation.initialized = u.animation.initialized /\ ~r.animation.dirty
    BY <1>3, <1>4, <2>1 DEF Animations
  <2>3. u.hasData => r.video.frame = u.video.frame /\ r.video.shown = u.video.frame
    <3>1. Decode(u.video) = u.video.frame
      BY <1>3, DecodesFrame
    <3> QED BY <1>3, <1>4, <2>1, <3>1 DEF DrawVideo, Videos
  <2>4. r.animation.initialized => r.hasData /\ ~r.animation.dirty /\ r.video.shown = r.video.frame
    BY <1>4, <2>1, <2>2, <2>3
  <2> QED BY <2>4 DEF r
<1> QED BY <1>5, <1>6

\* A press leaves the playback alone or, on entering the weather, not yet started.
LEMMA VideoNext == TypeOK /\ VideoInv /\ [Next]_loopVars => VideoInv'
<1> SUFFICES ASSUME TypeOK, VideoInv, [Next]_loopVars PROVE VideoInv'
  OBVIOUS
<1>1. CASE UNCHANGED <<active, ui>>
  BY <1>1 DEF VideoInv
<1>2. ASSUME NEW m, Show(m) PROVE VideoInv'
  <2>1. active' = m.app
    BY <1>2 DEF Show
  <2>2. ui \in UiOf(active)
    BY UiIsUiOf DEF TypeOK
  <2>3. CASE m.app = active
    <3>1. ui'.animation = ui.animation /\ ui'.video = ui.video /\ ui'.hasData = ui.hasData
      BY <1>2, <2>2, <2>3 DEF Show, UiOf
    <3> QED BY <2>1, <2>3, <3>1 DEF VideoInv
  <2>4. CASE m.app # active
    <3>1. ui'.animation = [initialized |-> FALSE, dirty |-> FALSE]
      BY <1>2, <2>2, <2>4 DEF Show, UiOf
    <3> QED BY <3>1 DEF VideoInv
  <2> QED BY <2>3, <2>4
<1>3. ASSUME NEW levels, NEW ticks, NEW saves, Input(levels, ticks, saves) PROVE VideoInv'
  BY <1>1, <1>2, <1>3 DEF Input, OnInput, Stay
<1>4. ASSUME NEW printers, NEW printer, SaveBambu(printers, printer) PROVE VideoInv'
  BY <1>1, <1>4 DEF SaveBambu
<1>5. CASE TickAndRender
  <2>1. PICK u \in Ticked : ui' = Rendered(u)
    BY <1>5 DEF TickAndRender
  <2>2. active' = active /\ u \in UiOf(active) /\ ui \in UiOf(active)
    BY <1>5, UiIsUiOf, TickedType DEF TickAndRender, TypeOK
  <2>3. CASE active = "WEATHER"
    BY <2>1, <2>2, <2>3, WeatherTicked, WeatherRendered DEF VideoInv
  <2>4. CASE active # "WEATHER"
    BY <2>2, <2>4 DEF VideoInv
  <2> QED BY <2>3, <2>4
<1>6. CASE UNCHANGED loopVars
  BY <1>1, <1>6 DEF loopVars
<1> QED BY <1>3, <1>4, <1>5, <1>6 DEF Next

\* The panel shows the frame the playback clock asks for, for a film of any length
\* (WeatherScreen::decodeBadApple()).
THEOREM VideoAlwaysFollows == Spec => []VideoFollowsClock
<1>1. Init => VideoInv
  BY DEF Init, VideoInv
<1>2. VideoInv => VideoFollowsClock
  BY DEF VideoInv, VideoFollowsClock
<1> QED BY <1>1, <1>2, VideoNext, TypesHold, PTL DEF Spec

-----------------------------------------------------------------------------
(* The printer shown *)

\* After the press that led to a Bambu page, and before the tick, nothing of the printer
\* before is taken to be fresh, and the active printer is one the buttons reach.
PrinterInv ==
  step = "tick" /\ active = "BAMBU" /\ sinceMove = 0
    => ~ui.hasRefresh /\ sel.printer < BambuPages(sel)

\* A press that succeeds changes the application or what its page is chosen by.
LEMMA PressMoves ==
  ASSUME NEW s \in Selection, NEW app \in Apps, NEW forward \in BOOLEAN, NEW saves,
         Navigate(app, s, forward, saves).ok
  PROVE  LET m == Navigate(app, s, forward, saves)
         IN  /\ m.app \in Apps /\ m.sel \in Selection /\ HasPage(m.app, m.sel)
             /\ m.app # app \/ m.sel # s
             /\ m.app = "BAMBU" => m.sel.printer < BambuPages(m.sel)
<1> DEFINE m == Navigate(app, s, forward, TRUE)
           t == Target(app, s, forward)
<1>1. Navigate(app, s, forward, saves) = m
  BY DEF Navigate, Selects
<1>2. /\ m.app \in Apps /\ m.sel \in Selection /\ HasPage(m.app, m.sel)
      /\ HasPage(app, s) => PlaceOn(m.app, m.sel) = Around(PlaceOn(app, s), RingSize(s), forward)
      /\ BambuPages(m.sel) = BambuPages(s)
  BY NavigateMovesOn
<1>3. m.app # app \/ m.sel # s
  <2> SUFFICES ASSUME m.app = app, m.sel = s PROVE FALSE
    OBVIOUS
  <2> HIDE DEF m
  <2>1. HasPage(app, s) /\ PlaceOn(app, s) = Around(PlaceOn(app, s), RingSize(s), forward)
    BY <1>2
  <2>2. RingSize(s) \in Nat /\ RingSize(s) > 2
    BY RingNumbers DEF RingSize
  <2>3. SelectedPage(app, s) \in Nat
    BY PageCounts
  <2>4. PlaceOn(app, s) \in 0..RingSize(s) - 1
    BY <2>1, <2>3, PlacesDistinct DEF HasPage, PlaceOn
  <2>5. CASE forward = TRUE
    BY <2>1, <2>2, <2>4, <2>5 DEF Around
  <2>6. CASE forward = FALSE
    BY <2>1, <2>2, <2>4, <2>6 DEF Around
  <2> QED BY <2>5, <2>6
<1>4. ASSUME m.app = "BAMBU" PROVE m.sel.printer < BambuPages(m.sel)
  <2>1. t.app \in Apps /\ t.page \in Nat /\ t.page < PageCount(t.app, s)
    BY TargetHasPage
  <2>2. m.app = t.app /\ m.sel = Selected(t.app, t.page, s)
    BY DEF Navigate, Selects
  <2> HIDE DEF t, m
  <2>3. t.app = "BAMBU" /\ t.page < BambuPages(s)
    BY <1>4, <2>1, <2>2, PageCounts
  <2>4. m.sel = [s EXCEPT !.printer = t.page]
    BY <2>2, <2>3 DEF Selected
  <2>5. m.sel.printer = t.page
    BY <2>4 DEF Selection
  <2> QED BY <1>2, <2>3, <2>5
<1> HIDE DEF m
<1> QED BY <1>1, <1>2, <1>3, <1>4

LEMMA PrinterNext == TypeOK /\ PrinterInv /\ [Next]_loopVars => PrinterInv'
<1> SUFFICES ASSUME TypeOK, PrinterInv, [Next]_loopVars PROVE PrinterInv'
  OBVIOUS
<1>1. CASE step' = "input"
  BY <1>1 DEF PrinterInv
<1>2. CASE UNCHANGED loopVars
  BY <1>2 DEF loopVars, PrinterInv
<1>3. ASSUME NEW levels \in [Keys -> BOOLEAN], NEW ticks \in PassTicks, NEW saves \in BOOLEAN,
             Input(levels, ticks, saves)
      PROVE  PrinterInv'
  <2>1. CASE Stay
    BY <2>1 DEF Stay, PrinterInv
  <2>2. CASE ~Stay
    <3>1. PICK forward \in BOOLEAN : /\ Navigate(active, sel, forward, saves).ok
                                     /\ Show(Navigate(active, sel, forward, saves))
      BY <1>3, <2>2 DEF Input, OnInput
    <3> DEFINE m == Navigate(active, sel, forward, saves)
    <3>2. /\ m.app # active \/ m.sel # sel
          /\ m.app = "BAMBU" => m.sel.printer < BambuPages(m.sel)
      BY <3>1, PressMoves DEF TypeOK
    <3>3. Show(m)
      BY <3>1
    <3> HIDE DEF m
    <3>4. active' = m.app /\ sel' = m.sel
      BY <3>3 DEF Show
    <3>5. ui \in UiOf(active)
      BY UiIsUiOf DEF TypeOK
    <3>6. CASE m.app = active
      <4>1. m.sel # sel
        BY <3>2, <3>6
      <4>2. ui'.hasRefresh = RefreshKept(TRUE)
        BY <3>3, <3>5, <3>6, <4>1 DEF Show, UiOf
      <4> QED BY <3>2, <3>4, <4>2 DEF RefreshKept, PrinterInv
    <3>7. CASE m.app # active
      <4>1. ui'.hasRefresh = FALSE
        BY <3>3, <3>5, <3>7 DEF Show, UiOf
      <4> QED BY <3>2, <3>4, <4>1 DEF PrinterInv
    <3> QED BY <3>6, <3>7
  <2> QED BY <2>1, <2>2
<1> QED BY <1>1, <1>2, <1>3 DEF Next, SaveBambu, TickAndRender

\* The Bambu page shows the active printer, which is the one the buttons count from, however
\* many printers are stored and whichever of them the portal chose (BambuApp::tick()).
THEOREM SelectedPrinterShown == Spec => ShowsTheSelectedPrinter
<1>1. Init => PrinterInv
  BY DEF Init, PrinterInv
<1>2. ASSUME TypeOK, PrinterInv, TickAndRender, active = "BAMBU", sinceMove = 0
      PROVE  ui'.modelOf = sel.printer /\ sel.printer = SelectedPage("BAMBU", sel)
  <2>1. ~ui.hasRefresh /\ sel.printer < BambuPages(sel)
    BY <1>2 DEF PrinterInv, TickAndRender
  <2>2. PICK u \in TickBambu : ui' = Rendered(u)
    BY <1>2 DEF TickAndRender, Ticked
  <2>3. u \in UiOf(active)
    BY <1>2, <2>2, UiIsUiOf, TickedType DEF TypeOK, Ticked
  <2>4. u.modelOf = sel.printer
    <3>1. PICK fields \in BambuChanges :
            u = [Change("BAMBU", fields, "force", ~ui.hasRefresh \/ fields \cap PresentationChanged # {})
                   EXCEPT !.hasRefresh = TRUE, !.modelOf = sel.printer]
      BY <2>1, <2>2 DEF TickBambu
    <3> DEFINE made == Change("BAMBU", fields, "force", ~ui.hasRefresh \/ fields \cap PresentationChanged # {})
    <3>2. "modelOf" \in DOMAIN made
      BY <1>2, UiIsUiOf DEF Change, UiOf, TypeOK
    <3> HIDE DEF made
    <3> QED BY <3>1, <3>2 DEF made
  <2>5. Rendered(u).modelOf = u.modelOf
    BY <1>2, <2>3 DEF Rendered, RenderPage, UiOf
  <2> QED BY <2>1, <2>2, <2>4, <2>5 DEF SelectedPage
<1> QED BY <1>1, <1>2, PrinterNext, TypesHold, PTL DEF Spec, ShowsTheSelectedPrinter

-----------------------------------------------------------------------------
(* The panel *)

\* What may be drawn late.
Later == {<<"footer", "provider">>, <<"footer", "hasIntraday">>, <<"chart", "intradayPoints">>,
          <<"chart", "hasQuote">>}

\* At every step of a pass: only that is behind, or the page is due to be drawn in full.
PanelInv ==
  \/ ui.behind \subseteq Later
  \/ ui.flags[active].force /\ ui.flags[active].forceFull

\* The fields of a stock that change together include one that redraws each region they
\* show in, but for what may be late.
LEMMA StockChangesCover ==
  ASSUME NEW fields \in WatchedStockChanges, NEW x \in Shown("STOCK", fields)
  PROVE  \/ x \in Later
         \/ x[1] \in DOMAIN StockRedraws /\ StockRedraws[x[1]] \cap fields # {}
<1>1. PICK r \in DOMAIN StockDraws, f \in fields : x = <<r, f>> /\ f \in StockDraws[r]
  BY DEF Shown, Draws
<1>2. "symbol" \notin fields
  BY DEF WatchedStockChanges, SameQuote
<1>3. r \in {"header", "quote", "metrics", "turnover", "chart", "footer"}
      /\ DOMAIN StockRedraws = {"header", "quote", "metrics", "turnover", "chart", "footer"}
  BY <1>1 DEF StockDraws, StockRedraws
<1>4. CASE r = "header"
  <2>1. f \in {"displayName", "marketStatus"}
    BY <1>1, <1>2, <1>4 DEF StockDraws, DrawHeader
  <2> QED BY <1>1, <1>3, <1>4, <2>1 DEF StockRedraws
<1>5. CASE r \in {"quote", "metrics", "turnover"}
  <2>1. f \in SameQuote
    BY <1>1, <1>5 DEF StockDraws, DrawQuote, DrawMetrics, DrawTurnover, SameQuote
  <2>2. StockRedraws[r] = SameQuote
    BY <1>5 DEF StockRedraws
  <2> QED BY <1>1, <1>3, <2>1, <2>2
<1>6. CASE r = "chart"
  <2>1. f = "intradayPoints" \/ f = "hasQuote" \/ f \in SameIntraday
    BY <1>1, <1>6 DEF StockDraws, DrawChart, SameIntraday
  <2>2. StockRedraws[r] = SameIntraday
    BY <1>6 DEF StockRedraws
  <2> QED BY <1>1, <1>2, <1>3, <1>6, <2>1, <2>2 DEF Later
<1>7. CASE r = "footer"
  <2>1. f = "hasIntraday" \/ f \in StockRedraws[r]
    BY <1>1, <1>7 DEF StockDraws, StockRedraws, DrawFooter
  <2> QED BY <1>1, <1>3, <1>7, <2>1 DEF Later
<1> QED BY <1>3, <1>4, <1>5, <1>6, <1>7

\* Every region of the Bambu page is redrawn for each field it shows.
LEMMA BambuChangesCover ==
  ASSUME NEW fields, NEW x \in Shown("BAMBU", fields)
  PROVE  x[1] \in DOMAIN BambuRedraws /\ BambuRedraws[x[1]] \cap fields # {}
<1>1. PICK r \in DOMAIN BambuDraws, f \in fields : x = <<r, f>> /\ f \in BambuDraws[r]
  BY DEF Shown, Draws
<1>2. r \in {"header", "progress", "job", "filament", "footer"}
      /\ DOMAIN BambuRedraws = {"header", "progress", "job", "filament", "footer"}
  BY <1>1 DEF BambuDraws, BambuRedraws
<1>3. BambuDraws[r] = BambuRedraws[r]
  BY <1>2 DEF BambuDraws, BambuRedraws, DrawBambuHeader, SameHeader, DrawProgress, SameProgress,
     DrawJob, DrawFilament, SameFilament, DrawBambuFooter
<1> QED BY <1>1, <1>2, <1>3

\* What a tick does to the picture: fields change with what redraws them, or it is late.
Noticed(u) ==
  /\ u.flags[active].forceFull = ui.flags[active].forceFull
  /\ ui.flags[active].force => u.flags[active].force
  /\ \E fields : /\ u.behind = ui.behind \cup Shown(active, fields)
                 /\ fields \subseteq u.changed
                 /\ \/ Shown(active, fields) \subseteq Later
                    \/ ContentDirty(u) /\ (active = "STOCK" => fields \in WatchedStockChanges)

LEMMA SameNoticed ==
  ASSUME NEW u, NEW w, Noticed(w), u.flags = w.flags, u.behind = w.behind, u.changed = w.changed
  PROVE  Noticed(u)
BY DEF Noticed, ContentDirty

LEMMA UiNoticed == Noticed(ui)
<1>1. Shown(active, {}) = {}
  BY DEF Shown
<1> QED BY <1>1 DEF Noticed

\* A change of fields that marks the page dirty, and one that is late and marks nothing.
LEMMA ChangeNoticed ==
  ASSUME active \in Apps, ui \in UiOf(active), NEW fields, NEW flag \in {"dirty", "force"},
         flag = "dirty" => active \in {"STOCK", "WEATHER", "HOME_ASSISTANT"},
         active = "STOCK" => fields \in WatchedStockChanges
  PROVE  Noticed(Change(active, fields, flag, TRUE))
<1> DEFINE c == Change(active, fields, flag, TRUE)
<1>1. ui.flags \in [Apps -> Flags] /\ ui.flags[active] \in Flags
  BY DEF UiOf
<1>2. /\ c.behind = ui.behind \cup Shown(active, fields)
      /\ c.changed = ui.changed \cup fields
      /\ c.flags[active] = [ui.flags[active] EXCEPT ![flag] = TRUE]
  BY <1>1 DEF Change, UiOf
<1> HIDE DEF c
<1>3. /\ c.flags[active].forceFull = ui.flags[active].forceFull
      /\ ui.flags[active].force => c.flags[active].force
      /\ ContentDirty(c)
  <2>1. CASE flag = "dirty"
    BY <1>1, <1>2, <2>1 DEF Flags, ContentDirty
  <2>2. CASE flag = "force"
    BY <1>1, <1>2, <2>2 DEF Flags, ContentDirty
  <2> QED BY <2>1, <2>2
<1>4. Noticed(c)
  BY <1>2, <1>3 DEF Noticed
<1> QED BY <1>4 DEF c

LEMMA QuietChangeNoticed ==
  ASSUME active \in Apps, ui \in UiOf(active), NEW fields, NEW flag \in {"dirty", "force"},
         Shown(active, fields) \subseteq Later
  PROVE  Noticed(Change(active, fields, flag, FALSE))
<1> DEFINE c == Change(active, fields, flag, FALSE)
<1>1. ui.flags \in [Apps -> Flags] /\ ui.flags[active] \in Flags
  BY DEF UiOf
<1>2. /\ c.behind = ui.behind \cup Shown(active, fields)
      /\ c.changed = ui.changed \cup fields
      /\ c.flags[active] = ui.flags[active]
  BY <1>1 DEF Change, UiOf, Flags
<1> HIDE DEF c
<1>3. Noticed(c)
  BY <1>2 DEF Noticed
<1> QED BY <1>3 DEF c

LEMMA TickedNoticed ==
  ASSUME active \in Apps, ui \in UiOf(active), NEW u \in Ticked
  PROVE  Noticed(u)
<1>1. CASE active = "STOCK"
  <2>1. u \in TickStock
    BY <1>1 DEF Ticked
  <2>2. ASSUME NEW fields \in WatchedStockChanges, u = Change("STOCK", fields, "dirty", TRUE)
        PROVE  Noticed(u)
    BY <1>1, <2>2, ChangeNoticed
  <2>3. ASSUME u = Change("STOCK", {"provider"}, "dirty", FALSE) PROVE Noticed(u)
    <3>1. Shown("STOCK", {"provider"}) \subseteq Later
      BY DEF Shown, Draws, StockDraws, DrawHeader, DrawQuote, DrawMetrics, DrawTurnover,
         DrawChart, DrawFooter, Later
    <3> QED BY <1>1, <2>3, <3>1, QuietChangeNoticed
  <2> QED BY <2>1, <2>2, <2>3, UiNoticed DEF TickStock
<1>2. CASE active = "WEATHER"
  <2> DEFINE fetched == Change("WEATHER", {"content"}, "dirty", TRUE)
             loaded  == [fetched EXCEPT !.hasData = TRUE]
  <2>2. Noticed(fetched)
    BY <1>2, ChangeNoticed
  <2>3. DOMAIN fetched = DOMAIN ui
    BY DEF Change
  <2>4. DOMAIN ui = {"flags", "hasRefresh", "modelOf", "changed", "behind", "hasData", "animation", "video"}
    BY DEF UiOf
  <2>5. u \in TickWeather
    BY <1>2 DEF Ticked
  <2>6. TickWeather = {NextFrame(w, frame) : w \in {ui, fetched, loaded}, frame \in Frames}
    BY DEF TickWeather, fetched, loaded
  <2>7. DOMAIN loaded = DOMAIN ui /\ Noticed(loaded)
    <3> HIDE DEF fetched
    <3>1. loaded.flags = fetched.flags /\ loaded.behind = fetched.behind
          /\ loaded.changed = fetched.changed /\ DOMAIN loaded = DOMAIN fetched
      BY <2>3, <2>4
    <3> QED BY <2>2, <2>3, <3>1, SameNoticed
  <2> HIDE DEF fetched, loaded
  <2>8. PICK w \in {ui, fetched, loaded} : \E frame \in Frames : u = NextFrame(w, frame)
    BY <2>5, <2>6
  <2>9. Noticed(w) /\ DOMAIN w = DOMAIN ui
    BY <2>2, <2>3, <2>7, UiNoticed
  <2>10. u.flags = w.flags /\ u.behind = w.behind /\ u.changed = w.changed
    BY <2>4, <2>8, <2>9 DEF NextFrame
  <2> QED BY <2>9, <2>10, SameNoticed
<1>3. CASE active = "BAMBU"
  <2>1. u \in TickBambu
    BY <1>3 DEF Ticked
  <2>2. ASSUME NEW fields \in BambuChanges,
               u = [Change("BAMBU", fields, "force", ~ui.hasRefresh \/ fields \cap PresentationChanged # {})
                      EXCEPT !.hasRefresh = TRUE, !.modelOf = sel.printer]
        PROVE  Noticed(u)
    <3> DEFINE marks == ~ui.hasRefresh \/ fields \cap PresentationChanged # {}
               c == Change("BAMBU", fields, "force", marks)
    <3>1. Noticed(c)
      <4>1. CASE marks
        <5>1. c = Change("BAMBU", fields, "force", TRUE)
          BY <4>1 DEF Change
        <5> QED BY <1>3, <5>1, ChangeNoticed
      <4>2. CASE ~marks
        <5>1. c = Change("BAMBU", fields, "force", FALSE)
          BY <4>2 DEF Change
        <5>2. fields = {}
          BY <4>2, <2>2 DEF BambuChanges, PresentationChanged, BambuFields, BambuDraws, DrawBambuHeader
        <5>3. Shown("BAMBU", fields) = {}
          BY <5>2 DEF Shown
        <5> QED BY <1>3, <5>1, <5>3, QuietChangeNoticed
      <4> QED BY <4>1, <4>2
    <3>2. DOMAIN c = {"flags", "hasRefresh", "modelOf", "changed", "behind", "hasData", "animation", "video"}
      BY DEF Change, UiOf
    <3> HIDE DEF c
    <3>3. u = [c EXCEPT !.hasRefresh = TRUE, !.modelOf = sel.printer]
      BY <2>2 DEF c
    <3>4. u.flags = c.flags /\ u.behind = c.behind /\ u.changed = c.changed
      BY <3>2, <3>3
    <3> QED BY <3>1, <3>4, SameNoticed
  <2> QED BY <2>1, <2>2, UiNoticed DEF TickBambu
<1>4. CASE active = "HOME_ASSISTANT"
  BY <1>4, UiNoticed, ChangeNoticed DEF Ticked, TickHomeAssistant
<1>5. CASE active = "DEVICE_INFO"
  <2> DEFINE c == Change("DEVICE_INFO", {"content"}, "force", TRUE)
  <2>1. Noticed(c)
    BY <1>5, ChangeNoticed
  <2>2. DOMAIN c = {"flags", "hasRefresh", "modelOf", "changed", "behind", "hasData", "animation", "video"}
    BY DEF Change, UiOf
  <2>3. u \in {[c EXCEPT !.hasRefresh = TRUE], ui}
    BY <1>5 DEF Ticked, TickDeviceInfo
  <2> HIDE DEF c
  <2>4. ASSUME u = [c EXCEPT !.hasRefresh = TRUE] PROVE Noticed(u)
    BY <2>1, <2>2, <2>4, SameNoticed
  <2> QED BY <2>3, <2>4, UiNoticed
<1> QED BY <1>1, <1>2, <1>3, <1>4, <1>5 DEF Apps

\* render() draws away what is shown in a region it redraws.
LEMMA RenderedBehind ==
  ASSUME active \in Apps, NEW u \in UiOf(active)
  PROVE  /\ Rendered(u).behind \subseteq u.behind
         /\ ContentDirty(u) /\ active = "WEATHER" => Rendered(u).behind = {}
         /\ ContentDirty(u) /\ active # "WEATHER"
              => \A x \in Rendered(u).behind : x \in u.behind /\ x[1] \notin Redrawn(u.changed, Full(u))
<1> DEFINE clean == [u EXCEPT !.flags[active] = AfterDirty(active, @)]
           taken == [clean EXCEPT !.flags[active] = AfterFull(@)]
<1>1. /\ DOMAIN taken = DOMAIN u /\ taken.behind = u.behind /\ taken.changed = u.changed
      /\ clean.behind = u.behind /\ "behind" \in DOMAIN u
  BY DEF UiOf
<1>2. Rendered(u) = IF ~Dirty(u) THEN clean
                    ELSE IF active = "WEATHER" THEN RenderWeather(taken, ContentDirty(u))
                    ELSE RenderPage(taken, Full(u))
  BY DEF Rendered, clean, taken
<1> HIDE DEF clean, taken
<1>3. ContentDirty(u) => Dirty(u)
  BY DEF Dirty
<1>4. RenderWeather(taken, ContentDirty(u)).behind = IF ContentDirty(u) THEN {} ELSE u.behind
  BY <1>1 DEF RenderWeather, UiOf
<1>5. RenderPage(taken, Full(u)).behind = {x \in u.behind : x[1] \notin Redrawn(u.changed, Full(u))}
  BY <1>1 DEF RenderPage, UiOf
<1>6. CASE ~Dirty(u)
  BY <1>1, <1>2, <1>3, <1>6
<1>7. CASE Dirty(u) /\ active = "WEATHER"
  BY <1>2, <1>4, <1>7
<1>8. CASE Dirty(u) /\ active # "WEATHER"
  <2>1. Rendered(u).behind = {x \in u.behind : x[1] \notin Redrawn(u.changed, Full(u))}
    BY <1>2, <1>5, <1>8
  <2> QED BY <1>8, <2>1
<1> QED BY <1>6, <1>7, <1>8

\* After the tick and the drawing only what is late is left.
LEMMA DrawnUpToLater ==
  ASSUME active \in Apps, ui \in UiOf(active), PanelInv, NEW u \in UiOf(active), Noticed(u)
  PROVE  Rendered(u).behind \subseteq Later
<1> SUFFICES ASSUME NEW x \in Rendered(u).behind PROVE x \in Later
  OBVIOUS
<1>1. x \in u.behind /\ x \in Shown(active, Fields(active))
  BY RenderedBehind DEF UiOf
<1>2. x[1] \in DOMAIN Draws(active)
  BY <1>1 DEF Shown
<1>3. ContentDirty(u) => active # "WEATHER" /\ x[1] \notin Redrawn(u.changed, Full(u))
  BY RenderedBehind
<1>4. CASE ui.flags[active].force /\ ui.flags[active].forceFull
  <2>1. ContentDirty(u) /\ Full(u)
    BY <1>4 DEF Noticed, ContentDirty, Full
  <2>2. x[1] \in Redrawn(u.changed, Full(u))
    BY <1>2, <2>1 DEF Redrawn
  <2> QED BY <1>3, <2>1, <2>2
<1>5. CASE ui.behind \subseteq Later
  <2>1. PICK fields : /\ u.behind = ui.behind \cup Shown(active, fields)
                      /\ fields \subseteq u.changed
                      /\ \/ Shown(active, fields) \subseteq Later
                         \/ ContentDirty(u) /\ (active = "STOCK" => fields \in WatchedStockChanges)
    BY DEF Noticed
  <2>2. CASE x \in ui.behind \/ Shown(active, fields) \subseteq Later
    BY <1>1, <1>5, <2>1, <2>2
  <2>3. CASE x \notin ui.behind /\ ~(Shown(active, fields) \subseteq Later)
    <3>1. /\ x \in Shown(active, fields) /\ ContentDirty(u)
          /\ active = "STOCK" => fields \in WatchedStockChanges
      BY <1>1, <2>1, <2>3
    <3>2. x[1] \notin Redrawn(u.changed, Full(u))
      BY <1>3, <3>1
    <3>3. CASE active = "STOCK"
      <4>1. \/ x \in Later
            \/ x[1] \in DOMAIN StockRedraws /\ StockRedraws[x[1]] \cap fields # {}
        BY <3>1, <3>3, StockChangesCover
      <4> QED BY <1>2, <2>1, <3>2, <3>3, <4>1 DEF Redrawn
    <3>4. CASE active = "BAMBU"
      <4>1. x[1] \in DOMAIN BambuRedraws /\ BambuRedraws[x[1]] \cap fields # {}
        BY <3>1, <3>4, BambuChangesCover
      <4> QED BY <1>2, <2>1, <3>2, <3>4, <4>1 DEF Redrawn
    <3>5. CASE active \notin {"STOCK", "BAMBU"}
      BY <1>2, <3>2, <3>5 DEF Redrawn
    <3> QED BY <3>3, <3>4, <3>5
  <2> QED BY <2>2, <2>3
<1> QED BY <1>4, <1>5 DEF PanelInv

\* A press that shows another page has it drawn in full.
LEMMA ShownInFull ==
  ASSUME active \in Apps, ui \in UiOf(active), sel \in Selection, WorkerFollowsPage,
         NEW forward \in BOOLEAN, NEW saves, Navigate(active, sel, forward, saves).ok,
         Show(Navigate(active, sel, forward, saves))
  PROVE  ui'.flags[active'].force /\ ui'.flags[active'].forceFull
<1> DEFINE m == Navigate(active, sel, forward, saves)
<1>1. /\ m.app \in Apps /\ m.sel \in Selection
      /\ m.app # active \/ m.sel # sel
  BY PressMoves
<1>2. m.app \notin {"STOCK", "BAMBU"} => m.sel = sel
  BY DEF Navigate, Selects, Selected
<1>3. Show(m)
  OBVIOUS
<1> HIDE DEF m
<1> DEFINE raised == Raised(ui.flags[m.app], SelectFlags(m.app, m.app \in entered, m.sel # sel))
<1>4. active' = m.app /\ ui.flags[m.app] \in Flags /\ ui.flags \in [Apps -> Flags]
  BY <1>1, <1>3 DEF Show, UiOf
<1>5. DOMAIN ui.flags[m.app] = {"force", "forceFull", "dirty", "full"}
  BY <1>4 DEF Flags
<1>6. CASE m.app = active
  <2>1. m.sel # sel /\ m.app \in {"STOCK", "BAMBU"} /\ m.app \in entered
    BY <1>1, <1>2, <1>6 DEF WorkerFollowsPage
  <2>2. /\ SelectFlags(m.app, m.app \in entered, m.sel # sel).force
        /\ SelectFlags(m.app, m.app \in entered, m.sel # sel).forceFull
    BY <2>1 DEF SelectFlags, Clean
  <2>3. raised.force /\ raised.forceFull
    BY <1>5, <2>2 DEF Raised
  <2>4. ui'.flags[m.app] = raised
    <3> HIDE DEF raised
    <3> QED BY <1>1, <1>3, <1>4, <1>6 DEF Show, UiOf, raised
  <2> QED BY <1>4, <2>3, <2>4
<1>7. CASE m.app # active
  <2>1. DOMAIN raised = {"force", "forceFull", "dirty", "full"}
    BY <1>5 DEF Raised
  <2>2. ui'.flags[m.app] = Raised(raised, EnterFlags(m.app))
    <3> HIDE DEF raised
    <3> QED BY <1>1, <1>3, <1>4, <1>7 DEF Show, UiOf, raised
  <2> HIDE DEF raised
  <2>3. ui'.flags[m.app].force /\ ui'.flags[m.app].forceFull
    BY <2>1, <2>2 DEF Raised, EnterFlags
  <2> QED BY <1>4, <2>3
<1> QED BY <1>6, <1>7

LEMMA PanelNext == TypeOK /\ WorkerFollowsPage /\ PanelInv /\ [Next]_loopVars => PanelInv'
<1> SUFFICES ASSUME TypeOK, WorkerFollowsPage, PanelInv, [Next]_loopVars PROVE PanelInv'
  OBVIOUS
<1>1. active \in Apps /\ sel \in Selection /\ ui \in UiOf(active)
  BY UiIsUiOf DEF TypeOK
<1>2. CASE UNCHANGED <<active, ui>>
  BY <1>2 DEF PanelInv
<1>3. ASSUME NEW levels, NEW ticks, NEW saves, Input(levels, ticks, saves) PROVE PanelInv'
  <2>1. CASE Stay
    BY <1>2, <2>1 DEF Stay
  <2>2. CASE ~Stay
    <3>1. PICK forward \in BOOLEAN : /\ Navigate(active, sel, forward, saves).ok
                                     /\ Show(Navigate(active, sel, forward, saves))
      BY <1>3, <2>2 DEF Input, OnInput
    <3> QED BY <1>1, <3>1, ShownInFull DEF PanelInv
  <2> QED BY <2>1, <2>2
<1>4. CASE TickAndRender
  <2>1. PICK u \in Ticked : ui' = Rendered(u)
    BY <1>4 DEF TickAndRender
  <2>2. u \in UiOf(active)
    BY <1>1, <2>1, UiIsUiOf, TickedType
  <2>3. Noticed(u)
    BY <1>1, <2>1, TickedNoticed
  <2>4. Rendered(u).behind \subseteq Later
    BY <1>1, <2>2, <2>3, DrawnUpToLater
  <2> QED BY <2>1, <2>4 DEF PanelInv
<1>5. ASSUME NEW printers, NEW printer, SaveBambu(printers, printer) PROVE PanelInv'
  BY <1>2, <1>5 DEF SaveBambu
<1>6. CASE UNCHANGED loopVars
  BY <1>2, <1>6 DEF loopVars
<1> QED BY <1>3, <1>4, <1>5, <1>6 DEF Next

\* After every pass the panel shows the view, but for what is known to come later, however
\* the partial draws of the pages before left it (AppManager::render()).
THEOREM PanelAlwaysShowsPage == Spec => []PanelShowsPage
<1>1. Init => PanelInv
  <2> SUFFICES ASSUME Init PROVE PanelInv
    OBVIOUS
  <2>1. active = "WEATHER" /\ ui.flags["WEATHER"] = EnterFlags("WEATHER")
    BY DEF Init, Apps
  <2> QED BY <2>1 DEF PanelInv, EnterFlags
<1>2. PanelInv => PanelShowsPage
  BY DEF PanelInv, PanelShowsPage, Later
<1> QED BY <1>1, <1>2, PanelNext, TypesHold, WorkerAlwaysFollowsPage, PTL DEF Spec
=============================================================================
