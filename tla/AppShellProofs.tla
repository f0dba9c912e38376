--------------------------- MODULE AppShellProofs ---------------------------
(***************************************************************************)
(* Where the two buttons lead, for every number of stocks and printers: the  *)
(* pages lie in a ring, one button goes round it one way and the other the   *)
(* other way.                                                              *)
(***************************************************************************)
EXTENDS AppShell, FiniteSetTheorems, WellFoundedInduction, TLAPS

-----------------------------------------------------------------------------
(* Induction, in a form without an operator parameter *)

\* The least element: intervals from 0 are well-founded under strict inclusion.
LEMMA LeastNatural ==
  ASSUME NEW T \in SUBSET Nat, T # {}
  PROVE  \E m \in T : \A k \in T : m <= k
<1> DEFINE below == {0..m : m \in T}
<1>1. below # {} /\ below \subseteq FiniteSubsetsOf(Nat)
  <2>1. \A m \in T : 0..m \subseteq Nat /\ IsFiniteSet(0..m)
    BY FS_Interval
  <2> QED BY <2>1 DEF FiniteSubsetsOf
<1>2. PICK s \in below : \A r \in below : <<r, s>> \notin StrictSubsetOrdering(Nat)
  <2> HIDE DEF below
  <2> QED BY <1>1, WFMin, FS_StrictSubsetOrderingWellFounded
<1>3. PICK m \in T : s = 0..m
  OBVIOUS
<1>4. ASSUME NEW k \in T PROVE m <= k
  <2>1. 0..k \in SUBSET Nat /\ 0..m \in SUBSET Nat
    OBVIOUS
  <2>2. <<0..k, 0..m>> \notin StrictSubsetOrdering(Nat)
    BY <1>2, <1>3
  <2>3. ~(0..k \subseteq 0..m /\ 0..k # 0..m)
    BY <2>1, <2>2 DEF StrictSubsetOrdering
  <2>4. k < m => m \notin 0..k /\ 0..k \subseteq 0..m /\ m \in 0..m
    OBVIOUS
  <2> QED BY <2>3, <2>4
<1> QED BY <1>4

\* A set that holds 0 and the successor of each of its members holds every number.
LEMMA InductionOverSet ==
  ASSUME NEW S, 0 \in S, \A n \in Nat : n \in S => n + 1 \in S
  PROVE  Nat \subseteq S
<1> SUFFICES ASSUME NEW x \in Nat, x \notin S PROVE FALSE
  OBVIOUS
<1>1. PICK m \in Nat \ S : \A k \in Nat \ S : m <= k
  <2>1. Nat \ S \in SUBSET Nat /\ Nat \ S # {}
    OBVIOUS
  <2> QED BY <2>1, LeastNatural
<1>2. m # 0 /\ m - 1 \in Nat /\ ~(m <= m - 1)
  OBVIOUS
<1>3. m - 1 \in S
  BY <1>1, <1>2
<1> QED BY <1>1, <1>2, <1>3

-----------------------------------------------------------------------------
(* Pages *)

LEMMA StocksHavePages == StockPageCount \in Nat /\ StockPageCount > 0
BY ShellAssumption DEF StockPageCount

\* Only the Bambu application may be without a page.
LEMMA PageCounts ==
  ASSUME NEW s \in Selection, NEW app \in Apps
  PROVE  /\ PageCount(app, s) \in Nat /\ SelectedPage(app, s) \in Nat
         /\ app # "BAMBU" => PageCount(app, s) > 0 /\ SelectedPage(app, s) < PageCount(app, s)
         /\ app = "STOCK" => PageCount(app, s) = StockPageCount
         /\ app = "BAMBU" => PageCount(app, s) = BambuPages(s)
         /\ app \notin {"STOCK", "BAMBU"} => PageCount(app, s) = 1 /\ SelectedPage(app, s) = 0
         /\ BambuPages(s) \in 0..PrinterLimit /\ BambuPages(s) <= NavigationPages
         /\ BambuPages(s) > 0 => SelectedPage("BAMBU", s) < BambuPages(s)
<1>1. s.stock \in 0..StockPageCount - 1 /\ s.printers \in 0..PrinterLimit /\ s.printer \in 0..PrinterLimit
  BY DEF Selection
<1>2. BambuPages(s) \in 0..PrinterLimit /\ BambuPages(s) <= NavigationPages
  BY <1>1, ShellAssumption DEF BambuPages
<1>3. CASE app = "STOCK"
  BY <1>1, <1>2, <1>3, ShellAssumption, StocksHavePages DEF PageCount, SelectedPage
<1>4. CASE app = "BAMBU"
  BY <1>1, <1>2, <1>4, ShellAssumption, StocksHavePages DEF PageCount, SelectedPage
<1>5. CASE app \notin {"STOCK", "BAMBU"}
  BY <1>1, <1>2, <1>5 DEF PageCount, SelectedPage
<1> QED BY <1>3, <1>4, <1>5

\* The neighbours of an application in AppOrder.
Following(app) == CASE app = "WEATHER" -> "STOCK" [] app = "STOCK" -> "BAMBU"
                    [] app = "BAMBU" -> "HOME_ASSISTANT"
                    [] app = "HOME_ASSISTANT" -> "DEVICE_INFO" [] OTHER -> "WEATHER"
Preceding(app) == CASE app = "WEATHER" -> "DEVICE_INFO" [] app = "STOCK" -> "WEATHER"
                    [] app = "BAMBU" -> "STOCK" [] app = "HOME_ASSISTANT" -> "BAMBU"
                    [] OTHER -> "HOME_ASSISTANT"
Beside(app, forward) == IF forward THEN Following(app) ELSE Preceding(app)

\* The search of navigate() ends at the first or, past a Bambu without printers, at the
\* second application.
LEMMA NextAppBeside ==
  ASSUME NEW s \in Selection, NEW app \in Apps, NEW forward \in BOOLEAN
  PROVE  NextApp(app, s, forward) = IF PageCount(Beside(app, forward), s) > 0
                                    THEN Beside(app, forward)
                                    ELSE Beside(Beside(app, forward), forward)
<1> DEFINE at == CHOOSE i \in 1..5 : AppOrder[i] = app
           place(k) == 1 + ((IF forward THEN at - 1 + k ELSE at - 1 + 5 - k) % 5)
           nth(k) == AppOrder[place(k)]
           Near(k) == PageCount(nth(k), s) > 0 /\ \A j \in 1..k - 1 : PageCount(nth(j), s) = 0
           near == CHOOSE k \in 1..5 : Near(k)
<1>1. /\ AppOrder[1] = "WEATHER" /\ AppOrder[2] = "STOCK" /\ AppOrder[3] = "BAMBU"
      /\ AppOrder[4] = "HOME_ASSISTANT" /\ AppOrder[5] = "DEVICE_INFO" /\ Len(AppOrder) = 5
  BY DEF AppOrder
<1>2. at \in 1..5 /\ AppOrder[at] = app
  BY <1>1 DEF Apps
<1> HIDE DEF at
<1>3. nth(1) = Beside(app, forward) /\ nth(2) = Beside(Beside(app, forward), forward)
  <2>1. CASE at = 1
    BY <1>1, <1>2, <2>1 DEF Beside, Following, Preceding
  <2>2. CASE at = 2
    BY <1>1, <1>2, <2>2 DEF Beside, Following, Preceding
  <2>3. CASE at = 3
    BY <1>1, <1>2, <2>3 DEF Beside, Following, Preceding
  <2>4. CASE at = 4
    BY <1>1, <1>2, <2>4 DEF Beside, Following, Preceding
  <2>5. CASE at = 5
    BY <1>1, <1>2, <2>5 DEF Beside, Following, Preceding
  <2> QED BY <1>2, <2>1, <2>2, <2>3, <2>4, <2>5
<1>4. /\ nth(1) \in Apps /\ nth(2) \in Apps /\ ~(nth(1) = "BAMBU" /\ nth(2) = "BAMBU")
  BY <1>3 DEF Beside, Following, Preceding, Apps
<1> HIDE DEF nth, place
<1>5. /\ PageCount(nth(1), s) \in Nat /\ PageCount(nth(2), s) \in Nat
      /\ PageCount(nth(1), s) = 0 => PageCount(nth(2), s) > 0
  BY <1>4, PageCounts
<1>6. NextApp(app, s, forward) = nth(near)
  BY <1>1 DEF NextApp, nth, place, at
<1>7. CASE PageCount(nth(1), s) > 0
  <2>1. Near(1) /\ \A k \in 1..5 : Near(k) => k = 1
    BY <1>7
  <2>2. near = 1
    BY <2>1
  <2> QED BY <1>3, <1>6, <1>7, <2>2
<1>8. CASE PageCount(nth(1), s) = 0
  <2>1. \A j \in 1..2 - 1 : j = 1
    OBVIOUS
  <2>2. Near(2) /\ ~Near(1)
    BY <1>5, <1>8, <2>1
  <2>3. \A k \in 3..5 : ~Near(k)
    BY <1>5, <1>8
  <2>4. near = 2
    BY <2>2, <2>3
  <2>5. NextApp(app, s, forward) = nth(2)
    BY <1>6, <2>4
  <2>6. ~(PageCount(Beside(app, forward), s) > 0)
    BY <1>3, <1>8
  <2> HIDE DEF near
  <2> QED BY <1>3, <2>5, <2>6
<1> QED BY <1>5, <1>7, <1>8

\* navigate() reaches for a page there is.
LEMMA TargetHasPage ==
  ASSUME NEW s \in Selection, NEW app \in Apps, NEW forward \in BOOLEAN
  PROVE  LET t == Target(app, s, forward)
         IN  t.app \in Apps /\ t.page \in Nat /\ t.page < PageCount(t.app, s)
<1> DEFINE next == NextApp(app, s, forward)
<1>1. next \in Apps
  BY NextAppBeside DEF Beside, Following, Preceding, Apps
<1>2. PageCount(next, s) \in Nat /\ PageCount(next, s) > 0
  <2>1. Beside(app, forward) \in Apps /\ Beside(Beside(app, forward), forward) \in Apps
    BY DEF Beside, Following, Preceding, Apps
  <2>2. Beside(app, forward) = "BAMBU" => Beside(Beside(app, forward), forward) # "BAMBU"
    BY DEF Beside, Following, Preceding, Apps
  <2> QED BY <2>1, <2>2, NextAppBeside, PageCounts
<1>3. PageCount(app, s) \in Nat /\ SelectedPage(app, s) \in Nat
  BY PageCounts
<1> QED BY <1>1, <1>2, <1>3 DEF Target

\* Selecting a page that exists shows it, and changes the pages of no application.
LEMMA SelectedShows ==
  ASSUME NEW s \in Selection, NEW app \in Apps, NEW page \in Nat, page < PageCount(app, s)
  PROVE  LET r == Selected(app, page, s)
         IN  /\ r \in Selection /\ SelectedPage(app, r) = page
             /\ r.printers = s.printers /\ BambuPages(r) = BambuPages(s)
<1>1. s.stock \in 0..StockPageCount - 1 /\ s.printers \in 0..PrinterLimit /\ s.printer \in 0..PrinterLimit
  BY DEF Selection
<1>2. CASE app = "STOCK"
  BY <1>1, <1>2, PageCounts, StocksHavePages, ShellAssumption DEF Selected, SelectedPage, Selection, BambuPages
<1>3. CASE app = "BAMBU"
  <2>1. page < BambuPages(s) /\ BambuPages(s) \in 0..PrinterLimit
    BY <1>3, PageCounts
  <2>2. Selected(app, page, s) = [s EXCEPT !.printer = page]
    BY <1>3 DEF Selected
  <2>3. page \in 0..PrinterLimit
    BY <2>1, ShellAssumption
  <2>4. BambuPages([s EXCEPT !.printer = page]) = BambuPages(s)
    BY DEF BambuPages, Selection
  <2> QED BY <1>1, <1>3, <2>1, <2>2, <2>3, <2>4 DEF SelectedPage, Selection
<1>4. CASE app \notin {"STOCK", "BAMBU"}
  BY <1>4, PageCounts DEF Selected, SelectedPage
<1> QED BY <1>2, <1>3, <1>4

\* navigate() keeps the selection one of the pages there are.
LEMMA NavigateType ==
  ASSUME NEW s \in Selection, NEW app \in Apps, NEW forward \in BOOLEAN, NEW saves \in BOOLEAN
  PROVE  LET m == Navigate(app, s, forward, saves) IN m.app \in Apps /\ m.sel \in Selection
BY TargetHasPage, SelectedShows DEF Navigate

-----------------------------------------------------------------------------
(* The ring *)

\* The pages in the order the next button shows them, counted from 0.
Place(app, page, s) ==
  CASE app = "WEATHER" -> 0 [] app = "STOCK" -> 1 + page
    [] app = "BAMBU" -> 1 + StockPageCount + page
    [] app = "HOME_ASSISTANT" -> 1 + StockPageCount + BambuPages(s)
    [] OTHER -> 2 + StockPageCount + BambuPages(s)
RingSize(s) == 3 + StockPageCount + BambuPages(s)

PlaceOn(app, s) == Place(app, SelectedPage(app, s), s)
HasPage(app, s) == SelectedPage(app, s) < PageCount(app, s)

\* The place one press away.
Around(place, size, forward) ==
  IF forward THEN IF place + 1 < size THEN place + 1 ELSE 0
  ELSE IF place > 0 THEN place - 1 ELSE size - 1

LEMMA AroundIs ==
  ASSUME NEW place, NEW size, NEW forward \in BOOLEAN
  PROVE  /\ forward /\ place + 1 < size => Around(place, size, forward) = place + 1
         /\ forward /\ ~(place + 1 < size) => Around(place, size, forward) = 0
         /\ ~forward /\ place > 0 => Around(place, size, forward) = place - 1
         /\ ~forward /\ ~(place > 0) => Around(place, size, forward) = size - 1
BY Zenon DEF Around

\* No two pages share a place.
LEMMA PlacesDistinct ==
  ASSUME NEW s \in Selection, NEW a \in Apps, NEW b \in Apps, NEW i \in Nat, NEW j \in Nat,
         i < PageCount(a, s), j < PageCount(b, s)
  PROVE  /\ Place(a, i, s) \in 0..RingSize(s) - 1
         /\ Place(a, i, s) = Place(b, j, s) => a = b /\ i = j
<1>1. StockPageCount \in Nat /\ BambuPages(s) \in Nat
  BY PageCounts, StocksHavePages, ShellAssumption
<1>2. ASSUME NEW x \in Apps, NEW n \in Nat, n < PageCount(x, s)
      PROVE  \/ x = "WEATHER" /\ n = 0 /\ Place(x, n, s) = 0
             \/ x = "STOCK" /\ n < StockPageCount /\ Place(x, n, s) = 1 + n
             \/ x = "BAMBU" /\ n < BambuPages(s) /\ Place(x, n, s) = 1 + StockPageCount + n
             \/ x = "HOME_ASSISTANT" /\ n = 0 /\ Place(x, n, s) = 1 + StockPageCount + BambuPages(s)
             \/ x = "DEVICE_INFO" /\ n = 0 /\ Place(x, n, s) = 2 + StockPageCount + BambuPages(s)
  BY <1>2, PageCounts DEF Place, Apps
<1>3. Place(a, i, s) \in 0..RingSize(s) - 1
  BY <1>1, <1>2 DEF RingSize
<1> QED BY <1>1, <1>2, <1>3

\* A press moves one place on in its direction, from every page that exists.
LEMMA PressMovesOn ==
  ASSUME NEW s \in Selection, NEW app \in Apps, NEW forward \in BOOLEAN, HasPage(app, s)
  PROVE  LET t == Target(app, s, forward)
         IN  Place(t.app, t.page, s) = Around(PlaceOn(app, s), RingSize(s), forward)
<1> DEFINE page  == SelectedPage(app, s)
           count == PageCount(app, s)
           next  == NextApp(app, s, forward)
           t     == Target(app, s, forward)
           bambu == BambuPages(s)
<1>1. /\ StockPageCount \in Nat /\ StockPageCount > 0 /\ bambu \in Nat
      /\ page \in Nat /\ count \in Nat /\ page < count
  BY PageCounts, StocksHavePages, ShellAssumption DEF HasPage
<1>2. \/ forward /\ page + 1 < count /\ t.app = app /\ t.page = page + 1
      \/ forward /\ page + 1 = count /\ t.app = next /\ t.page = 0
      \/ ~forward /\ page > 0 /\ t.app = app /\ t.page = page - 1
      \/ ~forward /\ page = 0 /\ t.app = next /\ t.page = PageCount(next, s) - 1
  BY <1>1 DEF Target
<1>3. next = IF Beside(app, forward) = "BAMBU" /\ bambu = 0
             THEN Beside("BAMBU", forward) ELSE Beside(app, forward)
  <2>1. Beside(app, forward) \in Apps
    BY DEF Beside, Following, Preceding, Apps
  <2>2. PageCount(Beside(app, forward), s) > 0 <=> ~(Beside(app, forward) = "BAMBU" /\ bambu = 0)
    BY <1>1, <2>1, PageCounts
  <2> QED BY <2>2, NextAppBeside
<1>4. /\ PageCount("WEATHER", s) = 1 /\ PageCount("HOME_ASSISTANT", s) = 1
      /\ PageCount("DEVICE_INFO", s) = 1 /\ PageCount("STOCK", s) = StockPageCount
      /\ PageCount("BAMBU", s) = bambu
  BY DEF PageCount
<1> SUFFICES Place(t.app, t.page, s) = Around(PlaceOn(app, s), RingSize(s), forward)
  OBVIOUS
<1> HIDE DEF page, count, next, t, bambu
<1>5. PlaceOn(app, s) = Place(app, page, s) /\ count = PageCount(app, s)
      /\ RingSize(s) = 3 + StockPageCount + bambu
  BY DEF PlaceOn, page, count, RingSize, bambu
<1>6. ASSUME NEW i \in Nat
      PROVE  /\ Place("WEATHER", i, s) = 0 /\ Place("STOCK", i, s) = 1 + i
             /\ Place("BAMBU", i, s) = 1 + StockPageCount + i
             /\ Place("HOME_ASSISTANT", i, s) = 1 + StockPageCount + bambu
             /\ Place("DEVICE_INFO", i, s) = 2 + StockPageCount + bambu
  BY DEF Place, bambu
<1>7. CASE forward /\ page + 1 < count
  <2>1. app \in {"STOCK", "BAMBU"} /\ t.app = app /\ t.page = page + 1
    BY <1>1, <1>2, <1>4, <1>5, <1>7 DEF Apps
  <2>2. Place(app, page + 1, s) = Place(app, page, s) + 1 /\ Place(app, page, s) \in Nat
        /\ Place(app, page, s) + 1 < RingSize(s)
    BY <1>1, <1>4, <1>5, <1>6, <1>7, <2>1
  <2>3. Around(Place(app, page, s), RingSize(s), forward) = Place(app, page, s) + 1
    BY <1>7, <2>2, AroundIs
  <2> QED BY <1>5, <2>1, <2>2, <2>3
<1>8. CASE ~forward /\ page > 0
  <2>1. app \in {"STOCK", "BAMBU"} /\ t.app = app /\ t.page = page - 1 /\ page - 1 \in Nat
    BY <1>1, <1>2, <1>4, <1>5, <1>8 DEF Apps
  <2>2. Place(app, page - 1, s) = Place(app, page, s) - 1 /\ Place(app, page, s) > 0
    BY <1>1, <1>4, <1>5, <1>6, <1>8, <2>1
  <2>3. Around(Place(app, page, s), RingSize(s), forward) = Place(app, page, s) - 1
    BY <1>1, <1>5, <1>8, <2>2, AroundIs
  <2> QED BY <1>5, <2>1, <2>2, <2>3
<1>9. CASE forward /\ page + 1 = count
  <2>1. t.app = next /\ t.page = 0
    BY <1>1, <1>2, <1>9
  <2>2. next = IF app = "STOCK" /\ bambu = 0 THEN "HOME_ASSISTANT" ELSE Following(app)
    BY <1>3, <1>9 DEF Beside, Following, Apps
  <2>3. Place(app, page, s) \in Nat
        /\ Place(next, 0, s) = IF app = "DEVICE_INFO" THEN 0 ELSE Place(app, page, s) + 1
    BY <1>1, <1>4, <1>5, <1>6, <1>9, <2>2 DEF Following, Apps
  <2>4. IF app = "DEVICE_INFO" THEN ~(Place(app, page, s) + 1 < RingSize(s))
        ELSE Place(app, page, s) + 1 < RingSize(s)
    BY <1>1, <1>4, <1>5, <1>6, <1>9 DEF Apps
  <2>5. Around(Place(app, page, s), RingSize(s), forward) = Place(next, 0, s)
    BY <1>9, <2>3, <2>4, AroundIs
  <2> QED BY <1>5, <2>1, <2>5
<1>10. CASE ~forward /\ page = 0
  <2>1. t.app = next /\ t.page = PageCount(next, s) - 1
    BY <1>1, <1>2, <1>10
  <2>2. next = IF app = "HOME_ASSISTANT" /\ bambu = 0 THEN "STOCK" ELSE Preceding(app)
    BY <1>3, <1>10 DEF Beside, Preceding, Apps
  <2>3. PageCount(next, s) - 1 \in Nat
    BY <1>1, <1>4, <2>2 DEF Preceding, Apps
  <2>4. Place(next, PageCount(next, s) - 1, s)
          = IF app = "WEATHER" THEN 2 + StockPageCount + bambu ELSE Place(app, 0, s) - 1
    BY <1>1, <1>4, <1>6, <2>2, <2>3 DEF Preceding, Apps
  <2>5. IF app = "WEATHER" THEN Place(app, 0, s) = 0 ELSE Place(app, 0, s) > 0
    BY <1>1, <1>6 DEF Apps
  <2>6. Around(Place(app, 0, s), RingSize(s), forward) = Place(next, PageCount(next, s) - 1, s)
    BY <1>1, <1>5, <1>10, <2>4, <2>5, AroundIs
  <2> QED BY <1>5, <1>10, <2>1, <2>6
<1> QED BY <1>2, <1>7, <1>8, <1>9, <1>10, Zenon

\* A button from a Bambu page whose printers have been deleted leads to its neighbours.
LEMMA LeavesNoPage ==
  ASSUME NEW s \in Selection, NEW app \in Apps, NEW forward \in BOOLEAN, ~HasPage(app, s)
  PROVE  LET t == Target(app, s, forward)
         IN  /\ BambuPages(s) = 0
             /\ Place(t.app, t.page, s) = IF forward THEN 1 + StockPageCount ELSE StockPageCount
<1>1. /\ StockPageCount \in Nat /\ StockPageCount > 0 /\ app = "BAMBU"
      /\ BambuPages(s) = 0 /\ PageCount(app, s) = 0 /\ SelectedPage(app, s) \in Nat
  BY PageCounts, StocksHavePages, ShellAssumption DEF HasPage
<1> DEFINE next == NextApp(app, s, forward)
           t    == Target(app, s, forward)
<1>2. /\ Beside("BAMBU", TRUE) = "HOME_ASSISTANT" /\ Beside("BAMBU", FALSE) = "STOCK"
      /\ PageCount("HOME_ASSISTANT", s) = 1 /\ PageCount("STOCK", s) = StockPageCount
  BY DEF Beside, Following, Preceding, PageCount
<1>3. next = IF forward THEN "HOME_ASSISTANT" ELSE "STOCK"
  <2>1. CASE forward = TRUE
    <3>1. Beside(app, forward) = "HOME_ASSISTANT" /\ PageCount("HOME_ASSISTANT", s) > 0
      BY <1>1, <1>2, <2>1 DEF Beside, Following
    <3>2. next = "HOME_ASSISTANT"
      BY <3>1, NextAppBeside, Zenon
    <3> QED BY <2>1, <3>2
  <2>2. CASE forward = FALSE
    BY <1>1, <1>2, <2>2, NextAppBeside
  <2> QED BY <2>1, <2>2
<1>4. t = [app |-> next, page |-> IF forward THEN 0 ELSE PageCount(next, s) - 1]
  BY <1>1 DEF Target
<1> HIDE DEF next
<1>5. CASE forward
  <2>1. t.app = "HOME_ASSISTANT"
    BY <1>3, <1>4, <1>5
  <2> HIDE DEF t
  <2>2. Place(t.app, t.page, s) = 1 + StockPageCount
    BY <1>1, <2>1 DEF Place
  <2> QED BY <1>1, <1>5, <2>2 DEF t
<1>6. CASE ~forward
  <2>1. t.app = "STOCK" /\ t.page = StockPageCount - 1
    BY <1>2, <1>3, <1>4, <1>6
  <2> HIDE DEF t
  <2>2. Place(t.app, t.page, s) = StockPageCount
    BY <1>1, <2>1 DEF Place
  <2> QED BY <1>1, <1>6, <2>2 DEF t
<1> QED BY <1>5, <1>6

\* Selections with the same number of Bambu pages have the same ring.
LEMMA SameRing ==
  ASSUME NEW r, NEW s, BambuPages(r) = BambuPages(s)
  PROVE  /\ \A app, page : Place(app, page, r) = Place(app, page, s)
         /\ RingSize(r) = RingSize(s)
         /\ \A app : PageCount(app, r) = PageCount(app, s)
BY DEF Place, RingSize, PageCount

\* navigate() with every save succeeding: one place on, in a ring that stays the same.
LEMMA NavigateMovesOn ==
  ASSUME NEW s \in Selection, NEW app \in Apps, NEW forward \in BOOLEAN
  PROVE  LET m == Navigate(app, s, forward, TRUE)
         IN  /\ m.app \in Apps /\ m.sel \in Selection /\ HasPage(m.app, m.sel)
             /\ BambuPages(m.sel) = BambuPages(s)
             /\ HasPage(app, s) =>
                  PlaceOn(m.app, m.sel) = Around(PlaceOn(app, s), RingSize(s), forward)
             /\ ~HasPage(app, s) =>
                  PlaceOn(m.app, m.sel) = IF forward THEN 1 + StockPageCount ELSE StockPageCount
<1> DEFINE t == Target(app, s, forward)
           m == Navigate(app, s, forward, TRUE)
<1>1. t.app \in Apps /\ t.page \in Nat /\ t.page < PageCount(t.app, s)
  BY TargetHasPage
<1>2. m.app = t.app /\ m.sel = Selected(t.app, t.page, s)
  BY DEF Navigate, Selects
<1>3. HasPage(app, s) => Place(t.app, t.page, s) = Around(PlaceOn(app, s), RingSize(s), forward)
  BY PressMovesOn
<1>4. ~HasPage(app, s) => Place(t.app, t.page, s) = IF forward THEN 1 + StockPageCount ELSE StockPageCount
  BY LeavesNoPage
<1> HIDE DEF t, m
<1>5. /\ m.sel \in Selection /\ SelectedPage(m.app, m.sel) = t.page
      /\ BambuPages(m.sel) = BambuPages(s)
  BY <1>1, <1>2, SelectedShows
<1>6. HasPage(m.app, m.sel) /\ PlaceOn(m.app, m.sel) = Place(t.app, t.page, s)
  BY <1>1, <1>2, <1>5, SameRing DEF HasPage, PlaceOn
<1> QED BY <1>1, <1>2, <1>3, <1>4, <1>5, <1>6 DEF m

\* One button undoes the other.
LEMMA AroundAndBack ==
  ASSUME NEW size \in Nat, NEW place \in 0..size - 1, NEW forward \in BOOLEAN
  PROVE  /\ Around(place, size, forward) \in 0..size - 1
         /\ Around(Around(place, size, forward), size, ~forward) = place
<1>1. CASE forward = TRUE
  BY <1>1 DEF Around
<1>2. CASE forward = FALSE
  BY <1>2 DEF Around
<1> QED BY <1>1, <1>2

\* The page a button leaves is the one the other button leads back to, for every number
\* of stocks and printers and whichever printer is active (AppManager::navigate()).
THEOREM PressIsUndone ==
  ASSUME NEW s \in Selection, NEW app \in Apps, NEW forward \in BOOLEAN, HasPage(app, s)
  PROVE  LET m == Navigate(app, s, forward, TRUE)
             b == Navigate(m.app, m.sel, ~forward, TRUE)
         IN  PageOf(b.app, b.sel) = PageOf(app, s)
<1> DEFINE m == Navigate(app, s, forward, TRUE)
           b == Navigate(m.app, m.sel, ~forward, TRUE)
<1>1. /\ m.app \in Apps /\ m.sel \in Selection /\ HasPage(m.app, m.sel)
      /\ BambuPages(m.sel) = BambuPages(s)
      /\ PlaceOn(m.app, m.sel) = Around(PlaceOn(app, s), RingSize(s), forward)
  BY NavigateMovesOn
<1> HIDE DEF m
<1>2. /\ b.app \in Apps /\ b.sel \in Selection /\ HasPage(b.app, b.sel)
      /\ BambuPages(b.sel) = BambuPages(s)
      /\ PlaceOn(b.app, b.sel) = Around(PlaceOn(m.app, m.sel), RingSize(m.sel), ~forward)
  BY <1>1, NavigateMovesOn
<1> HIDE DEF b
<1>3. PlaceOn(app, s) \in 0..RingSize(s) - 1 /\ RingSize(s) \in Nat
  BY PlacesDistinct, PageCounts, StocksHavePages, ShellAssumption DEF HasPage, PlaceOn, RingSize
<1>4. PlaceOn(b.app, b.sel) = PlaceOn(app, s)
  BY <1>1, <1>2, <1>3, SameRing, AroundAndBack
<1>5. /\ Place(b.app, SelectedPage(b.app, b.sel), s) = Place(app, SelectedPage(app, s), s)
      /\ SelectedPage(b.app, b.sel) < PageCount(b.app, s)
  BY <1>2, <1>4, SameRing DEF PlaceOn, HasPage
<1>6. SelectedPage(b.app, b.sel) \in Nat /\ SelectedPage(app, s) \in Nat
  BY <1>2, PageCounts
<1>7. b.app = app /\ SelectedPage(b.app, b.sel) = SelectedPage(app, s)
  BY <1>2, <1>5, <1>6, PlacesDistinct DEF HasPage
<1> QED BY <1>7 DEF PageOf, b, m

-----------------------------------------------------------------------------
(* A row of presses *)

\* One press of a button, every save succeeding.
Press(x, forward) == LET m == Navigate(x.app, x.sel, forward, TRUE)
                     IN  [app |-> m.app, sel |-> m.sel]

\* AfterPresses does what its definition says: there is such a function, built up
\* press by press.
LEMMA AfterPressesSteps ==
  ASSUME NEW app, NEW s, NEW forward, NEW n \in Nat
  PROVE  LET at == AfterPresses(app, s, forward, n)
         IN  /\ at[0] = [app |-> app, sel |-> s]
             /\ \A k \in 1..n : at[k] = Press(at[k - 1], forward)
<1> DEFINE first == [app |-> app, sel |-> s]
           Visits(g, m) == g = [k \in 0..m |-> IF k = 0 THEN first ELSE Press(g[k - 1], forward)]
           S == {m \in Nat : \E g : Visits(g, m)}
<1>1. 0 \in S
  <2> DEFINE g == [k \in 0..0 |-> first]
  <2>1. Visits(g, 0)
    <3>1. \A k \in 0..0 : k = 0
      OBVIOUS
    <3> QED BY <3>1
  <2> QED BY <2>1
<1>2. ASSUME NEW m \in Nat, m \in S PROVE m + 1 \in S
  <2>1. PICK g : Visits(g, m)
    BY <1>2
  <2> DEFINE h == [k \in 0..m + 1 |-> IF k <= m THEN g[k] ELSE Press(g[m], forward)]
  <2> HIDE DEF first
  <2>2. ASSUME NEW k \in 0..m + 1 PROVE h[k] = IF k = 0 THEN first ELSE Press(h[k - 1], forward)
    <3>1. CASE k = 0
      BY <2>1, <3>1
    <3>2. CASE k # 0 /\ k <= m
      <4>1. k \in 0..m /\ k - 1 \in 0..m /\ k - 1 \in 0..m + 1
        BY <3>2
      <4>2. g[k] = Press(g[k - 1], forward)
        BY <2>1, <3>2, <4>1
      <4>3. h[k] = g[k] /\ h[k - 1] = g[k - 1]
        BY <3>2, <4>1
      <4> QED BY <3>2, <4>2, <4>3
    <3>3. CASE k = m + 1
      <4>1. h[k] = Press(g[m], forward) /\ h[k - 1] = g[m] /\ k # 0
        BY <3>3
      <4> QED BY <4>1
    <3> QED BY <3>1, <3>2, <3>3
  <2>3. Visits(h, m + 1)
    <3>1. h = [k \in 0..m + 1 |-> h[k]]
      OBVIOUS
    <3> HIDE DEF h
    <3> QED BY <2>2, <3>1
  <2> HIDE DEF Visits, h
  <2> QED BY <2>3
<1> HIDE DEF S
<1>3. n \in S
  BY <1>1, <1>2, InductionOverSet
<1> USE DEF S
<1>4. \E g : Visits(g, n)
  BY <1>3
<1>5. Visits(AfterPresses(app, s, forward, n), n)
  <2>1. AfterPresses(app, s, forward, n) = CHOOSE g : Visits(g, n)
    BY DEF AfterPresses, Press
  <2> HIDE DEF Visits
  <2> QED BY <1>4, <2>1
<1> QED BY <1>5

\* The place k presses further on.
PlaceAfter(place, size, forward, k) ==
  IF forward THEN IF place + k < size THEN place + k ELSE place + k - size
  ELSE IF k <= place THEN place - k ELSE place - k + size

LEMMA PlaceAfterNext ==
  ASSUME NEW size \in Nat, NEW place \in 0..size - 1, NEW forward \in BOOLEAN,
         NEW k \in Nat, k < size
  PROVE  /\ PlaceAfter(place, size, forward, k) \in 0..size - 1
         /\ Around(PlaceAfter(place, size, forward, k), size, forward)
              = PlaceAfter(place, size, forward, k + 1)
         /\ PlaceAfter(place, size, forward, 0) = place
<1>1. CASE forward = TRUE
  BY <1>1 DEF Around, PlaceAfter
<1>2. CASE forward = FALSE
  BY <1>2 DEF Around, PlaceAfter
<1> QED BY <1>1, <1>2

\* Less than a round of presses visits each place.
LEMMA PlaceIsReached ==
  ASSUME NEW size \in Nat, NEW place \in 0..size - 1, NEW goal \in 0..size - 1,
         NEW forward \in BOOLEAN
  PROVE  \E k \in 0..size - 1 : PlaceAfter(place, size, forward, k) = goal
<1> DEFINE k == IF forward THEN IF place <= goal THEN goal - place ELSE goal - place + size
                ELSE IF goal <= place THEN place - goal ELSE place - goal + size
<1>1. CASE forward = TRUE
  <2>1. k \in 0..size - 1 /\ PlaceAfter(place, size, forward, k) = goal
    BY <1>1 DEF PlaceAfter
  <2> HIDE DEF k
  <2> QED BY <2>1
<1>2. CASE forward = FALSE
  <2>1. k \in 0..size - 1 /\ PlaceAfter(place, size, forward, k) = goal
    BY <1>2 DEF PlaceAfter
  <2> HIDE DEF k
  <2> QED BY <2>1
<1> QED BY <1>1, <1>2

\* Where a row of presses leads, from a page that exists.
LEMMA PressesLeadTo ==
  ASSUME NEW app \in Apps, NEW s \in Selection, NEW forward \in BOOLEAN, NEW n \in Nat,
         n <= RingSize(s), NEW at, at[0].app \in Apps, at[0].sel \in Selection,
         HasPage(at[0].app, at[0].sel), BambuPages(at[0].sel) = BambuPages(s),
         PlaceOn(at[0].app, at[0].sel) = PlaceOn(app, s), PlaceOn(app, s) \in 0..RingSize(s) - 1,
         \A k \in 1..n : at[k] = Press(at[k - 1], forward)
  PROVE  \A k \in 0..n : /\ at[k].app \in Apps /\ at[k].sel \in Selection
                         /\ HasPage(at[k].app, at[k].sel)
                         /\ BambuPages(at[k].sel) = BambuPages(s)
                         /\ PlaceOn(at[k].app, at[k].sel)
                              = PlaceAfter(PlaceOn(app, s), RingSize(s), forward, k)
<1> DEFINE size == RingSize(s)
           p    == PlaceOn(app, s)
           Good(k) == /\ at[k].app \in Apps /\ at[k].sel \in Selection
                      /\ HasPage(at[k].app, at[k].sel)
                      /\ BambuPages(at[k].sel) = BambuPages(s)
                      /\ PlaceOn(at[k].app, at[k].sel) = PlaceAfter(p, size, forward, k)
           S == {k \in Nat : k <= n => Good(k)}
<1>1. size \in Nat /\ p \in 0..size - 1
  BY PageCounts, StocksHavePages, ShellAssumption DEF RingSize
<1>2. 0 \in S
  BY <1>1, PlaceAfterNext
<1>3. ASSUME NEW k \in Nat, k \in S PROVE k + 1 \in S
  <2>1. SUFFICES ASSUME k + 1 <= n PROVE Good(k + 1)
    OBVIOUS
  <2>2. Good(k)
    BY <1>3, <2>1
  <2>3. at[k + 1] = Press(at[k], forward)
    BY <2>1
  <2> DEFINE m == Navigate(at[k].app, at[k].sel, forward, TRUE)
  <2>4. at[k + 1].app = m.app /\ at[k + 1].sel = m.sel
    BY <2>3 DEF Press
  <2>5. /\ m.app \in Apps /\ m.sel \in Selection /\ HasPage(m.app, m.sel)
        /\ BambuPages(m.sel) = BambuPages(at[k].sel)
        /\ PlaceOn(m.app, m.sel)
             = Around(PlaceOn(at[k].app, at[k].sel), RingSize(at[k].sel), forward)
    BY <2>2, NavigateMovesOn
  <2>6. RingSize(at[k].sel) = size /\ k < size
    BY <1>1, <2>1, <2>2 DEF RingSize
  <2>7. PlaceOn(m.app, m.sel) = PlaceAfter(p, size, forward, k + 1)
    <3> HIDE DEF m, size, p
    <3>1. PlaceOn(m.app, m.sel) = Around(PlaceAfter(p, size, forward, k), size, forward)
      BY <2>2, <2>5, <2>6
    <3>2. Around(PlaceAfter(p, size, forward, k), size, forward) = PlaceAfter(p, size, forward, k + 1)
      BY <1>1, <2>6, PlaceAfterNext
    <3> QED BY <3>1, <3>2
  <2> HIDE DEF m
  <2> QED BY <2>2, <2>4, <2>5, <2>7
<1> HIDE DEF S
<1>4. Nat \subseteq S
  BY <1>2, <1>3, InductionOverSet
<1> USE DEF S
<1>5. ASSUME NEW k \in 0..n PROVE Good(k)
  BY <1>4
<1> QED BY <1>5

LEMMA RingNumbers ==
  ASSUME NEW s \in Selection
  PROVE  /\ BambuPages(s) \in Nat /\ BambuPages(s) <= NavigationPages
         /\ StockPageCount \in Nat /\ StockPageCount > 0 /\ NavigationPages \in Nat
         /\ RingSize(s) \in Nat /\ RingSize(s) > 0
<1>1. "STOCK" \in Apps
  BY DEF Apps
<1> QED BY <1>1, PageCounts, StocksHavePages, ShellAssumption DEF RingSize

\* The page at a place.
PageAt(place, s) ==
  IF place = 0 THEN [app |-> "WEATHER", page |-> 0]
  ELSE IF place <= StockPageCount THEN [app |-> "STOCK", page |-> place - 1]
  ELSE IF place <= StockPageCount + BambuPages(s) THEN [app |-> "BAMBU", page |-> place - 1 - StockPageCount]
  ELSE IF place = 1 + StockPageCount + BambuPages(s) THEN [app |-> "HOME_ASSISTANT", page |-> 0]
  ELSE [app |-> "DEVICE_INFO", page |-> 0]

LEMMA PageAtPlace ==
  ASSUME NEW s \in Selection, NEW place \in 0..RingSize(s) - 1
  PROVE  LET p == PageAt(place, s) IN p \in Pages(s) /\ Place(p.app, p.page, s) = place
<1> DEFINE bambu == BambuPages(s)
           p     == PageAt(place, s)
<1>1. /\ StockPageCount \in Nat /\ StockPageCount > 0 /\ bambu \in Nat /\ bambu <= NavigationPages
      /\ NavigationPages \in Nat
  BY RingNumbers
<1>2. place \in 0..2 + StockPageCount + bambu
  BY <1>1 DEF RingSize
<1>3. PageCount("WEATHER", s) = 1 /\ PageCount("STOCK", s) = StockPageCount /\ PageCount("BAMBU", s) = bambu
      /\ PageCount("HOME_ASSISTANT", s) = 1 /\ PageCount("DEVICE_INFO", s) = 1
  BY DEF PageCount
<1> HIDE DEF bambu
<1>4. ASSUME NEW app \in Apps, NEW page \in Nat, page < PageCount(app, s),
             page <= StockPageCount + NavigationPages
      PROVE  [app |-> app, page |-> page] \in Pages(s)
  <2>1. page \in 0..StockPageCount + NavigationPages
    BY <1>1, <1>4
  <2> QED BY <1>4, <2>1 DEF Pages
<1>5. CASE place = 0
  <2>1. p = [app |-> "WEATHER", page |-> 0]
    BY <1>5 DEF PageAt
  <2> QED BY <1>1, <1>3, <1>4, <1>5, <2>1 DEF Place, Apps
<1>6. CASE place # 0 /\ place <= StockPageCount
  <2>1. p = [app |-> "STOCK", page |-> place - 1]
    BY <1>6 DEF PageAt
  <2>2. place - 1 \in Nat /\ place - 1 < StockPageCount /\ place - 1 <= StockPageCount + NavigationPages
        /\ 1 + (place - 1) = place
    BY <1>1, <1>2, <1>6
  <2> QED BY <1>3, <1>4, <2>1, <2>2 DEF Place, Apps
<1>7. CASE place > StockPageCount /\ place <= StockPageCount + bambu
  <2>1. p = [app |-> "BAMBU", page |-> place - 1 - StockPageCount]
    BY <1>1, <1>7 DEF PageAt, bambu
  <2>2. place - 1 - StockPageCount \in Nat /\ place - 1 - StockPageCount < bambu
        /\ place - 1 - StockPageCount <= StockPageCount + NavigationPages
        /\ 1 + StockPageCount + (place - 1 - StockPageCount) = place
    BY <1>1, <1>2, <1>7
  <2> QED BY <1>3, <1>4, <2>1, <2>2 DEF Place, Apps
<1>8. CASE place = 1 + StockPageCount + bambu
  <2>1. p = [app |-> "HOME_ASSISTANT", page |-> 0]
    BY <1>1, <1>8 DEF PageAt, bambu
  <2> QED BY <1>1, <1>3, <1>4, <1>8, <2>1 DEF Place, Apps, bambu
<1>9. CASE place = 2 + StockPageCount + bambu
  <2>1. p = [app |-> "DEVICE_INFO", page |-> 0]
    BY <1>1, <1>9 DEF PageAt, bambu
  <2> QED BY <1>1, <1>3, <1>4, <1>9, <2>1 DEF Place, Apps, bambu
<1> QED BY <1>1, <1>2, <1>5, <1>6, <1>7, <1>8, <1>9

\* As many pages as places.
LEMMA RingCount ==
  ASSUME NEW s \in Selection
  PROVE  Cardinality(Pages(s)) = RingSize(s)
<1> DEFINE places == 0..RingSize(s) - 1
           f == [place \in places |-> PageAt(place, s)]
<1>1. RingSize(s) \in Nat /\ RingSize(s) > 0
  BY RingNumbers
<1>2. f \in [places -> Pages(s)]
  BY PageAtPlace
<1>3. ASSUME NEW a \in places, NEW b \in places, f[a] = f[b] PROVE a = b
  <2>1. /\ Place(f[a].app, f[a].page, s) = a
        /\ Place(f[b].app, f[b].page, s) = b
    BY PageAtPlace
  <2> QED BY <1>3, <2>1
<1>4. ASSUME NEW p \in Pages(s) PROVE \E a \in places : f[a] = p
  <2>1. p \in [app : Apps, page : 0..StockPageCount + NavigationPages] /\ p.page < PageCount(p.app, s)
    BY DEF Pages
  <2>2. p.app \in Apps /\ p.page \in Nat
    BY <2>1
  <2> DEFINE a == Place(p.app, p.page, s)
  <2>3. a \in places
    BY <2>1, <2>2, PlacesDistinct
  <2>4. /\ f[a] \in Pages(s) /\ Place(f[a].app, f[a].page, s) = a
    BY <2>3, PageAtPlace
  <2> HIDE DEF f
  <2>5. /\ f[a] \in [app : Apps, page : 0..StockPageCount + NavigationPages]
        /\ f[a].page < PageCount(f[a].app, s)
    BY <2>4 DEF Pages
  <2>6. f[a].app = p.app /\ f[a].page = p.page
    BY <2>1, <2>2, <2>4, <2>5, PlacesDistinct
  <2>7. f[a] = p
    BY <2>1, <2>5, <2>6
  <2> QED BY <2>3, <2>7
<1> HIDE DEF f, places
<1>5. f \in Bijection(places, Pages(s))
  BY <1>2, <1>3, <1>4 DEF Bijection, Injection, Surjection, IsInjective
<1>6. IsFiniteSet(places) /\ Cardinality(places) = RingSize(s)
  BY <1>1, FS_Interval DEF places
<1> QED BY <1>5, <1>6, FS_Bijection DEF ExistsBijection

\* As many presses of one button as there are pages show all of them, from whatever page,
\* even from a Bambu page whose printers are gone (AppManager::navigate()).
THEOREM RowVisitsAll ==
  ASSUME NEW s \in Selection, NEW app \in Apps, NEW forward \in BOOLEAN
  PROVE  LET n  == Cardinality(Pages(s))
             at == AfterPresses(app, s, forward, n)
         IN  Pages(s) \subseteq {PageOf(at[k].app, at[k].sel) : k \in 0..n}
<1> DEFINE n  == RingSize(s)
           at == AfterPresses(app, s, forward, n)
<1>1. /\ n \in Nat /\ n > 0 /\ StockPageCount \in Nat /\ StockPageCount > 0 /\ BambuPages(s) \in Nat
  BY RingNumbers
<1>2. /\ at[0] = [app |-> app, sel |-> s]
      /\ \A k \in 1..n : at[k] = Press(at[k - 1], forward)
  BY <1>1, AfterPressesSteps
<1> HIDE DEF n, at
<1>3. ASSUME NEW goal \in Pages(s)
      PROVE  \E k \in 0..n : PageOf(at[k].app, at[k].sel) = goal
  <2>1. /\ goal \in [app : Apps, page : 0..StockPageCount + NavigationPages]
        /\ goal.page < PageCount(goal.app, s) /\ goal.app \in Apps /\ goal.page \in Nat
    BY DEF Pages
  <2> DEFINE g == Place(goal.app, goal.page, s)
  <2>2. g \in 0..n - 1
    BY <2>1, PlacesDistinct DEF n
  <2>3. ASSUME NEW k \in 0..n, at[k].app \in Apps, at[k].sel \in Selection,
               HasPage(at[k].app, at[k].sel), BambuPages(at[k].sel) = BambuPages(s),
               PlaceOn(at[k].app, at[k].sel) = g
        PROVE  PageOf(at[k].app, at[k].sel) = goal
    <3> DEFINE i == SelectedPage(at[k].app, at[k].sel)
    <3>1. i \in Nat /\ i < PageCount(at[k].app, s) /\ Place(at[k].app, i, s) = g
      BY <2>3, PageCounts, SameRing DEF HasPage, PlaceOn
    <3>2. at[k].app = goal.app /\ i = goal.page
      BY <2>1, <2>3, <3>1, PlacesDistinct
    <3> QED BY <2>1, <3>2 DEF PageOf
  <2> HIDE DEF g
  <2>4. CASE HasPage(app, s)
    <3>1. PlaceOn(app, s) \in 0..n - 1
      BY <2>4, PageCounts, PlacesDistinct DEF HasPage, PlaceOn, n
    <3>2. PICK k \in 0..n - 1 : PlaceAfter(PlaceOn(app, s), n, forward, k) = g
      BY <1>1, <2>2, <3>1, PlaceIsReached
    <3>3. /\ at[0].app = app /\ at[0].sel = s
          /\ n <= RingSize(s) /\ k \in 0..n
      BY <1>1, <1>2 DEF n
    <3>4. /\ at[k].app \in Apps /\ at[k].sel \in Selection
          /\ HasPage(at[k].app, at[k].sel)
          /\ BambuPages(at[k].sel) = BambuPages(s)
          /\ PlaceOn(at[k].app, at[k].sel) = PlaceAfter(PlaceOn(app, s), RingSize(s), forward, k)
      BY <1>1, <1>2, <2>4, <3>1, <3>3, PressesLeadTo DEF n
    <3> QED BY <2>3, <3>2, <3>3, <3>4 DEF n
  <2>5. CASE ~HasPage(app, s)
    <3> DEFINE later == [k \in 0..n - 1 |-> at[k + 1]]
               m == Navigate(app, s, forward, TRUE)
    <3>1. /\ m.app \in Apps /\ m.sel \in Selection /\ HasPage(m.app, m.sel)
          /\ BambuPages(m.sel) = BambuPages(s)
      BY <2>5, NavigateMovesOn
    <3>2. later[0].app = m.app /\ later[0].sel = m.sel
      <4>1. 0 \in 0..n - 1 /\ 1 \in 1..n /\ 1 - 1 = 0 /\ 0 + 1 = 1
        BY <1>1
      <4>2. at[1] = Press(at[0], forward)
        BY <1>2, <4>1
      <4>3. at[1] = [app |-> m.app, sel |-> m.sel]
        BY <1>2, <4>2 DEF Press
      <4>4. later[0] = at[1]
        BY <4>1
      <4> HIDE DEF m, later
      <4> QED BY <4>3, <4>4
    <3> HIDE DEF m
    <3>3. ASSUME NEW k \in 1..n - 1 PROVE later[k] = Press(later[k - 1], forward)
      <4>1. k + 1 \in 1..n /\ k \in 0..n - 1 /\ k - 1 \in 0..n - 1 /\ k + 1 - 1 = k /\ k - 1 + 1 = k
        BY <1>1
      <4>2. at[k + 1] = Press(at[k], forward)
        BY <1>2, <4>1
      <4> QED BY <4>1, <4>2
    <3>4. PlaceOn(m.app, m.sel) \in 0..n - 1 /\ RingSize(m.sel) = n
      BY <3>1, PageCounts, PlacesDistinct DEF HasPage, PlaceOn, n, RingSize
    <3>5. PICK k \in 0..n - 1 : PlaceAfter(PlaceOn(m.app, m.sel), n, forward, k) = g
      BY <1>1, <2>2, <3>4, PlaceIsReached
    <3> HIDE DEF later
    <3>6. /\ later[k].app \in Apps /\ later[k].sel \in Selection
          /\ HasPage(later[k].app, later[k].sel)
          /\ BambuPages(later[k].sel) = BambuPages(m.sel)
          /\ PlaceOn(later[k].app, later[k].sel) = PlaceAfter(PlaceOn(m.app, m.sel), n, forward, k)
      <4>1. n - 1 \in Nat /\ n - 1 <= RingSize(m.sel)
        BY <1>1, <3>4
      <4> QED BY <3>1, <3>2, <3>3, <3>4, <4>1, PressesLeadTo
    <3>7. k + 1 \in 0..n /\ later[k] = at[k + 1]
      BY <1>1 DEF later
    <3> QED BY <2>3, <3>1, <3>5, <3>6, <3>7
  <2> QED BY <2>4, <2>5
<1>4. Cardinality(Pages(s)) = n
  BY RingCount DEF n
<1> QED BY <1>3, <1>4 DEF at
=============================================================================
