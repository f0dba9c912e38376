------------------------------ MODULE AppShell ------------------------------
(***************************************************************************)
(* Where the two buttons lead (AppManager in src/app/AppShell.cpp, with the  *)
(* pages of each application): a page is an application and an index in it.  *)
(* A selection holds what the applications choose their page by: the stock   *)
(* of StockController, and of the Bambu configuration the number of printers *)
(* and the active one.                                                       *)
(***************************************************************************)
EXTENDS Naturals, Sequences

CONSTANTS
  StockCount,       \* configured stocks
  StockPages,       \* StockApp::MAX_NAVIGATION_PAGES
  PrinterLimit,     \* BambuConfigLimits::PRINTER_COUNT
  NavigationPages   \* BambuApp::MAX_NAVIGATION_PAGES

ASSUME ShellAssumption ==
  /\ StockCount \in Nat \ {0} /\ StockPages \in Nat \ {0}
  /\ PrinterLimit \in Nat /\ NavigationPages \in Nat \ {0}

AppOrder == <<"WEATHER", "STOCK", "BAMBU", "HOME_ASSISTANT", "DEVICE_INFO">>
Apps     == {"WEATHER", "STOCK", "BAMBU", "HOME_ASSISTANT", "DEVICE_INFO"}

\* The last configured stocks may have no page, and are never selected then.
StockPageCount == IF StockCount < StockPages THEN StockCount ELSE StockPages

Selection == [stock : 0..StockPageCount - 1, printers : 0..PrinterLimit, printer : 0..PrinterLimit]

BambuPages(s) == IF s.printers < NavigationPages THEN s.printers ELSE NavigationPages

PageCount(app, s) == CASE app = "STOCK" -> StockPageCount
                       [] app = "BAMBU" -> BambuPages(s)
                       [] OTHER -> 1

SelectedPage(app, s) == CASE app = "STOCK" -> s.stock
                          [] app = "BAMBU" -> IF s.printer < BambuPages(s) THEN s.printer ELSE 0
                          [] OTHER -> 0

\* selectPage() of the applications.  Only Bambu's can fail: choosing another printer
\* has to be saved in flash first.
Selects(app, page, s, saves) == app = "BAMBU" /\ s.printer # page => saves
Selected(app, page, s) == CASE app = "STOCK" -> [s EXCEPT !.stock = page]
                            [] app = "BAMBU" -> [s EXCEPT !.printer = page]
                            [] OTHER -> s

\* Fault variant: a search that stops at the end of the list.
NextAppInList(app, s, forward) ==
  LET at == CHOOSE i \in 1..Len(AppOrder) : AppOrder[i] = app
      to == {i \in 1..Len(AppOrder) : PageCount(AppOrder[i], s) > 0 /\ IF forward THEN i > at ELSE i < at}
  IN  IF to = {} THEN app ELSE AppOrder[CHOOSE i \in to : \A j \in to : IF forward THEN i <= j ELSE i >= j]

\* The application a press leads to when the one on screen has no further page:
\* the next one, in a circle, that has any.  Applications with no page are skipped;
\* one that then refuses its page is not.
NextApp(app, s, forward) ==
  LET n    == Len(AppOrder)
      at   == CHOOSE i \in 1..n : AppOrder[i] = app
      nth(k) == AppOrder[1 + ((IF forward THEN at - 1 + k ELSE at - 1 + n - k) % n)]
      near == CHOOSE k \in 1..n : /\ PageCount(nth(k), s) > 0
                                  /\ \A j \in 1..k - 1 : PageCount(nth(j), s) = 0
  IN  nth(near)

\* Fault variant: an application is entered at its first page in both directions.
TargetAlwaysFirst(app, s, forward) ==
  LET page  == SelectedPage(app, s)
      count == PageCount(app, s)
  IN  IF page < count /\ forward /\ page + 1 < count THEN [app |-> app, page |-> page + 1]
      ELSE IF page < count /\ ~forward /\ page > 0 THEN [app |-> app, page |-> page - 1]
      ELSE [app |-> NextApp(app, s, forward), page |-> 0]

\* navigate(): the page it tries to reach.
Target(app, s, forward) ==
  LET page  == SelectedPage(app, s)
      count == PageCount(app, s)
      next  == NextApp(app, s, forward)
  IN  IF page < count /\ forward /\ page + 1 < count THEN [app |-> app, page |-> page + 1]
      ELSE IF page < count /\ ~forward /\ page > 0 THEN [app |-> app, page |-> page - 1]
      ELSE [app |-> next, page |-> IF forward THEN 0 ELSE PageCount(next, s) - 1]

\* navigate() as a whole: the application on screen and the selection after it.
Navigate(app, s, forward, saves) ==
  LET t == Target(app, s, forward)
  IN  IF Selects(t.app, t.page, s, saves)
      THEN [ok |-> TRUE, app |-> t.app, sel |-> Selected(t.app, t.page, s)]
      ELSE [ok |-> FALSE, app |-> app, sel |-> s]

-----------------------------------------------------------------------------
(* Every page there is, and the pages a row of presses visits *)

PageOf(app, s) == [app |-> app, page |-> SelectedPage(app, s)]
Pages(s) == {p \in [app : Apps, page : 0..StockPageCount + NavigationPages] : p.page < PageCount(p.app, s)}

\* The page after k presses of the same button, every save succeeding.
AfterPresses(app, s, forward, n) ==
  LET at[k \in 0..n] == IF k = 0 THEN [app |-> app, sel |-> s]
                        ELSE LET from == at[k - 1]
                                 m == Navigate(from.app, from.sel, forward, TRUE)
                             IN  [app |-> m.app, sel |-> m.sel]
  IN  at
=============================================================================
