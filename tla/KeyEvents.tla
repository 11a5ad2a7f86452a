------------------------------ MODULE KeyEvents ------------------------------
(***************************************************************************)
(* What the keyboard library promises the application that registers one   *)
(* key: which callbacks come, in which order and with which counts.        *)
(* Keyboard, the scan of myKeyboard.c, implements it, and the key task of  *)
(* LampApp relies on it: a release is short or long, never both, and a long*)
(* release carries the count of the last long-press callback.              *)
(***************************************************************************)
EXTENDS Naturals

CONSTANT LongMax  \* bound: more long-press callbacks are not counted

VARIABLES
  calls,  \* the callbacks of the last round
  taps,   \* the count the last press was announced with, 0 if it has ended
  owed,   \* the last announced press has had no answer
  held    \* the long-press callbacks of the press that lasts, 0 if none

vars == <<calls, taps, owed, held>>

Events == {"shortPress", "shortRelease", "longPress", "longRelease"}
Call(e, n) == [event |-> e, count |-> n]

Init == calls = <<>> /\ taps = 0 /\ owed = FALSE /\ held = 0

(* The count of a press goes on from the last one or starts again; a press *)
(* that has had no answer may be joined, or lost, when another follows.    *)
ShortPress ==
  /\ held = 0
  /\ taps' \in {1, taps + 1}
  /\ calls' = <<Call("shortPress", taps')>>
  /\ owed' = TRUE
  /\ UNCHANGED held

(* Once for an announced press, with the count it was announced with; the  *)
(* count may end with it.                                                  *)
ShortRelease ==
  /\ owed /\ held = 0
  /\ calls' = <<Call("shortRelease", taps)>>
  /\ taps' \in {0, taps}
  /\ owed' = FALSE
  /\ UNCHANGED held

(* The first one answers the press; the counts are 0, 1, 2, ...            *)
LongPress ==
  /\ owed \/ held > 0
  /\ held' = IF held < LongMax THEN held + 1 ELSE held
  /\ calls' = <<Call("longPress", held' - 1)>>
  /\ owed' = FALSE
  /\ UNCHANGED taps

LongRelease ==
  /\ held > 0
  /\ calls' = <<Call("longRelease", held - 1)>>
  /\ held' = 0
  /\ UNCHANGED <<taps, owed>>

Quiet == calls' = <<>> /\ UNCHANGED <<taps, owed, held>>

Next == ShortPress \/ ShortRelease \/ LongPress \/ LongRelease \/ Quiet

Spec == Init /\ [][Next]_vars
=============================================================================
