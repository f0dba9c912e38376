CONSTANTS
  DebounceTicks = 1
  LongTicks = 2
  SavedCounts = {0, 3}
  StockCount = 3
  StockPages = 2
  PrinterLimit = 3
  NavigationPages = 2
  PassTicks = {1, 2}
  FrameCount = 3
SPECIFICATION Spec
INVARIANTS WorkerFollowsPage OneGesturePerPress OtherButtonLeadsBack EveryPageInReach VideoFollowsClock PanelShowsPage
PROPERTIES ShowsTheSelectedPrinter
