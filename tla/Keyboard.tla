------------------------------ MODULE Keyboard ------------------------------
(***************************************************************************)
(* The keyboard library (components/myKeyboardLib/myKeyboard.c) with the   *)
(* one key the application registers (usr_app.c): the key task samples the *)
(* pin about every 10 ms, filters the sample, and turns presses into the   *)
(* callbacks for short and long presses, counting the presses that come    *)
(* within keyDoublePressInterval of the first.                             *)
(*                                                                         *)
(* Abstractions.  Time is counted in periods of the key task; a round may  *)
(* come late.  With one key the value of the keyboard is a BOOLEAN, and so *)
(* is keyDoublePressValue.  The branches of the state machine for a second *)
(* key that joins or replaces the first cannot be reached with one key.    *)
(***************************************************************************)
EXTENDS Integers, Sequences

CONSTANTS
  FilterCount,  \* keyFilterCount
  LongKeep,     \* keyLongPressKeepTime
  LongLoop,     \* keyLongPressLoopTime
  DoubleTime,   \* keyDoublePressInterval
  Intervals,    \* the periods from one round to the next (keyTaskInterval)
  LongMax       \* bound: more long-press callbacks are not counted

(* The double-press window closes before a press becomes a long one, and   *)
(* long-press callbacks repeat faster than the first one comes.            *)
ASSUME KeyboardAssumption ==
  /\ FilterCount \in Nat \ {0} /\ LongKeep \in Nat /\ LongLoop \in 0..LongKeep
  /\ DoubleTime \in 1..LongKeep
  /\ Intervals \subseteq Nat \ {0}
  /\ LongMax \in Nat \ {0}

VARIABLES
  pin,    \* the level pFuncKeyStatusGet reads
  since,  \* observer: the rounds that read it since it changed, to FilterCount + 1
  key,    \* myKeyboardKey.key[0]: keyStatus, keyTmpStatus, keyFilter
  ctrl,   \* myKeyboardCtrl: keyStatus, keyPressKeepTime, keyPressCnt,
          \* keyDoublePressValue # 0, keyDoublePressDelay, keyLongPressCnt
  calls,  \* the callbacks of the last round
  owed    \* observer: the last announced press has had no answer

vars == <<pin, since, key, ctrl, calls, owed>>

States == {"idle", "shortPressed", "shortRelease", "longPressed", "longRelease"}

TypeOK ==
  /\ pin \in BOOLEAN /\ since \in 0..(FilterCount + 1)
  /\ key \in [status : BOOLEAN, tmp : BOOLEAN, filter : 0..FilterCount]
  /\ ctrl \in [state : States, keep : 0..LongKeep, cnt : Nat, armed : BOOLEAN,
               delay : 0..(DoubleTime - 1), long : 0..(LongMax - 1)]
  /\ owed \in BOOLEAN

(* myKeyboardInit, myKeyboardRegisterKey and the statics.                  *)
Init ==
  /\ pin \in BOOLEAN /\ since = 0
  /\ key = [status |-> FALSE, tmp |-> FALSE, filter |-> 0]
  /\ ctrl = [state |-> "idle", keep |-> 0, cnt |-> 0, armed |-> FALSE, delay |-> 0, long |-> 0]
  /\ calls = <<>> /\ owed = FALSE

-----------------------------------------------------------------------------
FilteredKeepingTmp(k, s) ==  \* wrong variant: a bounce is remembered
  LET left == IF k.filter > 0 THEN k.filter - 1 ELSE 0
  IN  IF s = k.status THEN [k EXCEPT !.filter = 0]
      ELSE IF s # k.tmp THEN [k EXCEPT !.tmp = s, !.filter = FilterCount]
      ELSE [k EXCEPT !.status = IF left = 0 THEN s ELSE @, !.filter = left]

(* myKeyboardRead: a sample that differs is accepted once it has been read *)
(* FilterCount + 1 times in a row.                                         *)
Filtered(k, s) ==
  LET left == IF k.filter > 0 THEN k.filter - 1 ELSE 0
  IN  IF s = k.status THEN [k EXCEPT !.tmp = s, !.filter = 0]
      ELSE IF s # k.tmp THEN [k EXCEPT !.tmp = s, !.filter = FilterCount]
      ELSE [k EXCEPT !.status = IF left = 0 THEN s ELSE @, !.filter = left]

Call(event, n) == [event |-> event, count |-> n]

(* myKeyboardLoop, before the state machine: the end of the double-press   *)
(* window answers a single press that is over, and forgets the press.      *)
Closes(c, t) == c.armed /\ c.delay + t >= DoubleTime
TapEnds(c, down, t) == Closes(c, t) /\ ~down /\ c.cnt = 1

AfterWindowRunsOn(c, down, t) ==  \* wrong variant: the delay is not reset
  IF Closes(c, t)
  THEN [c EXCEPT !.armed = FALSE, !.delay = @ + t, !.cnt = IF TapEnds(c, down, t) THEN 0 ELSE @]
  ELSE [c EXCEPT !.delay = IF c.armed THEN @ + t ELSE @]

AfterWindow(c, down, t) ==
  IF Closes(c, t)
  THEN [c EXCEPT !.armed = FALSE, !.delay = 0, !.cnt = IF TapEnds(c, down, t) THEN 0 ELSE @]
  ELSE [c EXCEPT !.delay = IF c.armed THEN @ + t ELSE @]

WindowCalls(c, down, t) == IF TapEnds(c, down, t) THEN <<Call("shortRelease", 1)>> ELSE <<>>

-----------------------------------------------------------------------------
(* myKeyboardStatusMachine, one action for each branch: c is the state the *)
(* window left and said the callbacks it made.                             *)

Press(c, said) ==
  /\ c.state = "idle"
  /\ LET n == IF c.armed THEN c.cnt + 1 ELSE 1
     IN  /\ ctrl' = [c EXCEPT !.state = "shortPressed", !.keep = 0, !.cnt = n, !.armed = TRUE,
                              !.delay = IF c.armed THEN @ ELSE 0]
         /\ calls' = Append(said, Call("shortPress", n))

(* A single press inside the window waits for the window to close.         *)
AnswersAtOnce(c) == c.cnt # 0    \* wrong variant: the window is not waited for
AnswersRepeated(c) == c.cnt > 1  \* wrong variant: a press longer than the window is forgotten
Answers(c) == c.cnt > 1 \/ (~c.armed /\ c.cnt # 0)

ReleaseShort(c, said) ==
  /\ c.state = "shortPressed"
  /\ ctrl' = [c EXCEPT !.state = "shortRelease", !.keep = 0]
  /\ calls' = IF Answers(c) THEN Append(said, Call("shortRelease", c.cnt)) ELSE said

HoldShort(c, said, t) ==
  /\ c.state = "shortPressed" /\ c.keep + t <= LongKeep
  /\ ctrl' = [c EXCEPT !.keep = @ + t]
  /\ calls' = said

TurnLong(c, said, t) ==
  /\ c.state = "shortPressed" /\ c.keep + t > LongKeep
  /\ ctrl' = [c EXCEPT !.state = "longPressed", !.keep = 0, !.long = 0]
  /\ calls' = Append(said, Call("longPress", 0))

ReleaseLong(c, said) ==
  /\ c.state = "longPressed"
  /\ ctrl' = [c EXCEPT !.state = "longRelease", !.keep = 0]
  /\ calls' = Append(said, Call("longRelease", c.long))

HoldLong(c, said, t) ==
  /\ c.state = "longPressed" /\ c.keep + t <= LongLoop
  /\ ctrl' = [c EXCEPT !.keep = @ + t]
  /\ calls' = said

RepeatLong(c, said, t) ==
  /\ c.state = "longPressed" /\ c.keep + t > LongLoop
  /\ LET n == IF c.long < LongMax - 1 THEN c.long + 1 ELSE c.long
     IN  /\ ctrl' = [c EXCEPT !.keep = 0, !.long = n]
         /\ calls' = Append(said, Call("longPress", n))

(* A release lasts one round, whatever the key does.                       *)
Settle(c, said) ==
  /\ c.state \in {"shortRelease", "longRelease"}
  /\ ctrl' = [c EXCEPT !.state = "idle"]
  /\ calls' = said

Idle(c, said) == c.state = "idle" /\ ctrl' = c /\ calls' = said

Down(c, said, t) ==
  Press(c, said) \/ HoldShort(c, said, t) \/ TurnLong(c, said, t) \/ HoldLong(c, said, t) \/ RepeatLong(c, said, t)

Up(c, said) == Idle(c, said) \/ ReleaseShort(c, said) \/ ReleaseLong(c, said)

Observe ==
  /\ since' = IF since <= FilterCount THEN since + 1 ELSE since
  /\ owed' = IF calls' = <<>> THEN owed ELSE calls'[Len(calls')].event = "shortPress"

(* myKeyboardLoop.                                                         *)
Round(t) ==
  /\ key' = Filtered(key, pin)
  /\ LET down == key'.status
         c == AfterWindow(ctrl, down, t)
         said == WindowCalls(ctrl, down, t)
     IN  \/ down /\ Down(c, said, t)
         \/ ~down /\ Up(c, said)
         \/ Settle(c, said)
  /\ Observe
  /\ UNCHANGED pin

(* The user, or a bouncing contact; a change the next round does not see is*)
(* no change.                                                              *)
Flip ==
  /\ since > 0
  /\ pin' = ~pin /\ since' = 0
  /\ UNCHANGED <<key, ctrl, calls, owed>>

Scan == \E t \in Intervals : Round(t)

Next == Scan \/ Flip

Spec == Init /\ [][Next]_vars

(* The key task runs for ever; nothing is assumed of the key.              *)
FairSpec == Spec /\ WF_vars(Scan)

-----------------------------------------------------------------------------
(* Properties.                                                             *)

(* Contact bounce never becomes a press, and a press is never missed: the  *)
(* key changes exactly in the round in which a sample that differs from it *)
(* has been read FilterCount + 1 times in a row (myKeyboardRead).          *)
Debounced ==
  [][key'.status # key.status <=> (pin # key.status /\ since' = FilterCount + 1)]_vars

(* However presses, bounces and late rounds fall against the double-press  *)
(* window and the long-press time, the callbacks come as KeyEvents says:   *)
(* one answer to a press, and either short or long.                        *)
Events == INSTANCE KeyEvents WITH
  taps <- ctrl.cnt,
  held <- IF ctrl.state = "longPressed" THEN ctrl.long + 1 ELSE 0

CallsInOrder == Events!Spec

(* A key that stays released has been answered at last, and one that stays *)
(* pressed becomes a long press.                                           *)
Answered == <>[]~pin => <>[](~owed /\ ctrl.state = "idle")
BecomesLong == <>[]pin => <>[](ctrl.state = "longPressed")

PressAnswered == Answered /\ BecomesLong
=============================================================================
