---------------------------- MODULE ButtonInput ----------------------------
(***************************************************************************)
(* ButtonInput (src/device/ButtonInput.h): one push button, debounced, with  *)
(* a short and a long press.  Timestamps are kept as ages, up to the longest *)
(* interval they are compared with: unsigned differences of millis() are the *)
(* ages themselves, across its wrap too.  An age nobody reads before it is   *)
(* set again is kept as LongTicks.                                           *)
(***************************************************************************)
EXTENDS Naturals

CONSTANTS
  DebounceTicks,  \* debounceMs_
  LongTicks       \* longPressMs_

ASSUME ButtonAssumption ==
  DebounceTicks \in Nat /\ LongTicks \in Nat /\ DebounceTicks <= LongTicks

Ages   == 0..LongTicks
Button == [rawHigh : BOOLEAN, stableHigh : BOOLEAN, longEmitted : BOOLEAN,
           rawAge : Ages, pressAge : Ages]
Gestures == {"NONE", "SHORT_PRESS", "LONG_PRESS"}

\* Timestamps start at 0, and the device has been up for longer than any interval
\* when the first pass polls a button.
InitialButton == [rawHigh |-> TRUE, stableHigh |-> TRUE, longEmitted |-> FALSE,
                  rawAge |-> LongTicks, pressAge |-> LongTicks]

Older(age, ticks) == IF age + ticks > LongTicks THEN LongTicks ELSE age + ticks

\* rawChangedAtMs_ is read while the raw level differs from the stable one, pressedAtMs_
\* while the button is down.
AgesRead(b) == [b EXCEPT !.rawAge   = IF b.rawHigh = b.stableHigh THEN LongTicks ELSE @,
                         !.pressAge = IF b.stableHigh THEN LongTicks ELSE @]

\* The first half of update(): the level is noted, and becomes the stable one once
\* it has lasted.
Debounced(b, levelHigh, ticks) ==
  LET raw == [b EXCEPT !.rawHigh  = levelHigh,
                       !.rawAge   = IF levelHigh # b.rawHigh THEN 0 ELSE Older(b.rawAge, ticks),
                       !.pressAge = Older(b.pressAge, ticks)]
      settled == raw.rawHigh # raw.stableHigh /\ raw.rawAge >= DebounceTicks
  IN  AgesRead(IF ~settled THEN raw
               ELSE [raw EXCEPT !.stableHigh = raw.rawHigh, !.longEmitted = FALSE,
                                !.pressAge = IF raw.rawHigh THEN raw.pressAge ELSE raw.rawAge])

\* Fault variant: the release of a long press is a short one as well.
ReleaseAlwaysShort(b) == "SHORT_PRESS"

\* A release is a short press unless the press has been reported as a long one.
ReleaseGesture(b) == IF b.longEmitted THEN "NONE" ELSE "SHORT_PRESS"

LongDue(b) == ~b.rawHigh /\ ~b.stableHigh /\ ~b.longEmitted /\ b.pressAge >= LongTicks

\* update(): the button after a poll, and the gesture it reports.
Update(b, levelHigh, ticks) ==
  LET d == Debounced(b, levelHigh, ticks)
  IN  IF LongDue(d) THEN [button |-> [d EXCEPT !.longEmitted = TRUE], gesture |-> "LONG_PRESS"]
      ELSE [button  |-> d,
            gesture |-> IF ~b.stableHigh /\ d.stableHigh THEN ReleaseGesture(b) ELSE "NONE"]
=============================================================================
