--------------------------- MODULE KeyboardProofs ----------------------------
(***************************************************************************)
(* Theorems about Keyboard, for every filter, every pair of press times    *)
(* with the double-press window inside the long-press time, and every      *)
(* delay of the key task.                                                  *)
(***************************************************************************)
EXTENDS Keyboard, TLAPS

KeyType == [status : BOOLEAN, tmp : BOOLEAN, filter : 0..FilterCount]
CtrlType == [state : States, keep : 0..LongKeep, cnt : Nat, armed : BOOLEAN,
             delay : 0..(DoubleTime - 1), long : 0..(LongMax - 1)]

(* How far the filter has come: it remembers the level of the samples since*)
(* the pin changed, and has FilterCount + 1 - since of them left to see.   *)
FilterInv ==
  /\ since > 0 => key.tmp = pin
  /\ since = 0 /\ pin # key.status => key.tmp = key.status
  /\ since > 0 /\ pin # key.status => since <= FilterCount /\ key.filter = FilterCount + 1 - since

(* The double-press window started with the press or before it, so a long  *)
(* press finds it closed; and a press is owed an answer while it is short, *)
(* and while a single one waits for its window to close.                   *)
PressInv ==
  /\ ctrl.armed /\ ctrl.state = "shortPressed" => ctrl.keep <= ctrl.delay
  /\ ctrl.state = "longPressed" => ~ctrl.armed /\ ~owed
  /\ ctrl.state = "shortPressed" => owed
  /\ ctrl.armed /\ ctrl.cnt = 1 => owed

IInv == TypeOK /\ FilterInv /\ PressInv

-----------------------------------------------------------------------------
(* Updates of the two records.                                             *)
LEMMA KeyUpdate ==
  ASSUME FilterCount \in Nat \ {0}, NEW k \in KeyType, NEW s \in BOOLEAN, NEW n \in 0..FilterCount
  PROVE  /\ [k EXCEPT !.tmp = s, !.filter = n] \in KeyType
         /\ [k EXCEPT !.status = s, !.filter = n] \in KeyType
<1>1. [k EXCEPT !.tmp = s, !.filter = n] \in KeyType
  BY DEF KeyType
<1>2. [k EXCEPT !.status = s, !.filter = n] \in KeyType
  BY DEF KeyType
<1>3. QED
  BY <1>1, <1>2

LEMMA CtrlUpdate ==
  ASSUME KeyboardAssumption, NEW c \in CtrlType,
         NEW st \in States, NEW kp \in 0..LongKeep, NEW n \in Nat, NEW b \in BOOLEAN,
         NEW d \in 0..(DoubleTime - 1), NEW l \in 0..(LongMax - 1)
  PROVE  /\ [c EXCEPT !.armed = b, !.delay = d, !.cnt = n] \in CtrlType
         /\ [c EXCEPT !.delay = d] \in CtrlType
         /\ [c EXCEPT !.state = st, !.keep = kp, !.cnt = n, !.armed = b, !.delay = d] \in CtrlType
         /\ [c EXCEPT !.state = st, !.keep = kp, !.long = l] \in CtrlType
         /\ [c EXCEPT !.state = st, !.keep = kp] \in CtrlType
         /\ [c EXCEPT !.keep = kp, !.long = l] \in CtrlType
         /\ [c EXCEPT !.keep = kp] \in CtrlType
         /\ [c EXCEPT !.state = st] \in CtrlType
<1>1. [c EXCEPT !.armed = b, !.delay = d, !.cnt = n] \in CtrlType
  BY DEF CtrlType
<1>2. [c EXCEPT !.delay = d] \in CtrlType
  BY DEF CtrlType
<1>3. [c EXCEPT !.state = st, !.keep = kp, !.cnt = n, !.armed = b, !.delay = d] \in CtrlType
  BY DEF CtrlType
<1>4. [c EXCEPT !.state = st, !.keep = kp, !.long = l] \in CtrlType
  BY DEF CtrlType
<1>5. [c EXCEPT !.state = st, !.keep = kp] \in CtrlType
  BY DEF CtrlType
<1>6. [c EXCEPT !.keep = kp, !.long = l] \in CtrlType
  BY DEF CtrlType
<1>7. [c EXCEPT !.keep = kp] \in CtrlType
  BY DEF CtrlType
<1>8. [c EXCEPT !.state = st] \in CtrlType
  BY DEF CtrlType
<1>9. QED
  BY <1>1, <1>2, <1>3, <1>4, <1>5, <1>6, <1>7, <1>8

-----------------------------------------------------------------------------
(* A sample through the filter, in its four cases.                         *)
LEMMA FilterSame ==
  ASSUME KeyboardAssumption, NEW k \in KeyType, NEW s \in BOOLEAN, s = k.status
  PROVE  Filtered(k, s) \in KeyType /\ Filtered(k, s).status = k.status /\ Filtered(k, s).tmp = s
<1>1. Filtered(k, s) = [k EXCEPT !.tmp = s, !.filter = 0]
  BY Zenon DEF Filtered
<1>2. FilterCount \in Nat \ {0} /\ 0 \in 0..FilterCount
  BY DEF KeyboardAssumption
<1>3. [k EXCEPT !.tmp = s, !.filter = 0] \in KeyType
  BY <1>2, KeyUpdate
<1>4. Filtered(k, s).status = k.status /\ Filtered(k, s).tmp = s
  BY <1>1, Zenon DEF KeyType
<1>5. QED
  BY <1>1, <1>3, <1>4, Zenon

LEMMA FilterStarts ==
  ASSUME KeyboardAssumption, NEW k \in KeyType, NEW s \in BOOLEAN, s # k.status, s # k.tmp
  PROVE  /\ Filtered(k, s) \in KeyType
         /\ Filtered(k, s).status = k.status /\ Filtered(k, s).tmp = s /\ Filtered(k, s).filter = FilterCount
<1>1. Filtered(k, s) = [k EXCEPT !.tmp = s, !.filter = FilterCount]
  BY Zenon DEF Filtered
<1>2. FilterCount \in Nat \ {0} /\ FilterCount \in 0..FilterCount
  BY DEF KeyboardAssumption
<1>3. [k EXCEPT !.tmp = s, !.filter = FilterCount] \in KeyType
  BY <1>2, KeyUpdate
<1>4. Filtered(k, s).status = k.status /\ Filtered(k, s).tmp = s /\ Filtered(k, s).filter = FilterCount
  BY <1>1, Zenon DEF KeyType
<1>5. QED
  BY <1>1, <1>3, <1>4, Zenon

LEMMA FilterCounts ==
  ASSUME KeyboardAssumption, NEW k \in KeyType, NEW s \in BOOLEAN, s # k.status, s = k.tmp, k.filter > 1
  PROVE  /\ Filtered(k, s) \in KeyType
         /\ Filtered(k, s).status = k.status /\ Filtered(k, s).tmp = s /\ Filtered(k, s).filter = k.filter - 1
<1>1. /\ FilterCount \in Nat \ {0} /\ k.filter \in 0..FilterCount /\ k.status \in BOOLEAN
      /\ k.filter > 0 /\ k.filter - 1 # 0 /\ k.filter - 1 \in 0..FilterCount
  BY DEF KeyType, KeyboardAssumption
<1>2. Filtered(k, s) = [k EXCEPT !.status = k.status, !.filter = k.filter - 1]
  BY <1>1, Zenon DEF Filtered
<1>3. [k EXCEPT !.status = k.status, !.filter = k.filter - 1] \in KeyType
  BY <1>1, KeyUpdate
<1>4. Filtered(k, s).status = k.status /\ Filtered(k, s).tmp = s /\ Filtered(k, s).filter = k.filter - 1
  BY <1>2, Zenon DEF KeyType
<1>5. QED
  BY <1>2, <1>3, <1>4, Zenon

LEMMA FilterAccepts ==
  ASSUME KeyboardAssumption, NEW k \in KeyType, NEW s \in BOOLEAN, s # k.status, s = k.tmp, k.filter <= 1
  PROVE  Filtered(k, s) \in KeyType /\ Filtered(k, s).status = s /\ Filtered(k, s).tmp = s
<1>1. FilterCount \in Nat \ {0} /\ 0 \in 0..FilterCount /\ (k.filter > 0 => k.filter - 1 = 0)
  BY DEF KeyType, KeyboardAssumption
<1>2. Filtered(k, s) = [k EXCEPT !.status = s, !.filter = 0]
  BY <1>1, Zenon DEF Filtered
<1>3. [k EXCEPT !.status = s, !.filter = 0] \in KeyType
  BY <1>1, KeyUpdate
<1>4. Filtered(k, s).status = s /\ Filtered(k, s).tmp = s
  BY <1>2, Zenon DEF KeyType
<1>5. QED
  BY <1>2, <1>3, <1>4, Zenon

(* The end of the double-press window, before the state machine.           *)
LEMMA Window ==
  ASSUME KeyboardAssumption, NEW c \in CtrlType, NEW down \in BOOLEAN, NEW t \in Intervals
  PROVE  /\ AfterWindow(c, down, t) \in CtrlType
         /\ AfterWindow(c, down, t).state = c.state
         /\ AfterWindow(c, down, t).keep = c.keep
         /\ AfterWindow(c, down, t).long = c.long
         /\ Closes(c, t) => ~AfterWindow(c, down, t).armed
         /\ ~Closes(c, t) => /\ AfterWindow(c, down, t).armed = c.armed
                             /\ c.armed => AfterWindow(c, down, t).delay = c.delay + t
         /\ TapEnds(c, down, t) => AfterWindow(c, down, t).cnt = 0
         /\ ~TapEnds(c, down, t) => AfterWindow(c, down, t).cnt = c.cnt
<1> DEFINE n == IF TapEnds(c, down, t) THEN 0 ELSE c.cnt
           d == IF c.armed THEN c.delay + t ELSE c.delay
<1>1. /\ t \in Nat /\ DoubleTime \in Nat \ {0} /\ LongKeep \in Nat
      /\ c.delay \in 0..(DoubleTime - 1) /\ c.cnt \in Nat /\ c.state \in States
      /\ c.keep \in 0..LongKeep /\ c.long \in 0..(LongMax - 1) /\ c.armed \in BOOLEAN
  BY DEF KeyboardAssumption, CtrlType
<1> HIDE DEF n, d
<1>2. CASE Closes(c, t)
  <2>1. AfterWindow(c, down, t) = [c EXCEPT !.armed = FALSE, !.delay = 0, !.cnt = n]
    BY <1>2, Zenon DEF AfterWindow, n
  <2>2. n \in Nat /\ 0 \in 0..(DoubleTime - 1) /\ FALSE \in BOOLEAN
    BY <1>1 DEF n
  <2>3. [c EXCEPT !.armed = FALSE, !.delay = 0, !.cnt = n] \in CtrlType
    BY <1>1, <2>2, CtrlUpdate
  <2>4. /\ AfterWindow(c, down, t).state = c.state /\ AfterWindow(c, down, t).keep = c.keep
        /\ AfterWindow(c, down, t).long = c.long /\ ~AfterWindow(c, down, t).armed
        /\ AfterWindow(c, down, t).cnt = n
    BY <2>1, Zenon DEF CtrlType
  <2>5. QED
    BY <1>2, <2>1, <2>3, <2>4, Zenon DEF n
<1>3. CASE ~Closes(c, t)
  <2>1. AfterWindow(c, down, t) = [c EXCEPT !.delay = d]
    BY <1>3, Zenon DEF AfterWindow, d
  <2>2. d \in 0..(DoubleTime - 1)
    BY <1>1, <1>3 DEF Closes, d
  <2>3. [c EXCEPT !.delay = d] \in CtrlType
    BY <1>1, <2>2, CtrlUpdate
  <2>4. /\ AfterWindow(c, down, t).state = c.state /\ AfterWindow(c, down, t).keep = c.keep
        /\ AfterWindow(c, down, t).long = c.long /\ AfterWindow(c, down, t).armed = c.armed
        /\ AfterWindow(c, down, t).cnt = c.cnt /\ AfterWindow(c, down, t).delay = d
    BY <2>1, Zenon DEF CtrlType
  <2>5. ~TapEnds(c, down, t)
    BY <1>3 DEF TapEnds
  <2>6. QED
    BY <1>3, <2>1, <2>3, <2>4, <2>5, Zenon DEF d
<1>4. QED
  BY <1>2, <1>3

-----------------------------------------------------------------------------
(* What a round does to the filter: it keeps FilterInv, and the key changes*)
(* in the round that sees the last of the samples.                         *)
LEMMA FilterStep ==
  ASSUME KeyboardAssumption, key \in KeyType, pin \in BOOLEAN, since \in 0..(FilterCount + 1), FilterInv,
         key' = Filtered(key, pin), pin' = pin,
         since' = IF since <= FilterCount THEN since + 1 ELSE since
  PROVE  /\ key' \in KeyType /\ since' \in 0..(FilterCount + 1) /\ since' > 0
         /\ FilterInv'
         /\ key'.status # key.status <=> (pin # key.status /\ since' = FilterCount + 1)
<1>1. FilterCount \in Nat \ {0} /\ since \in Nat /\ since' \in 0..(FilterCount + 1) /\ since' > 0
  BY DEF KeyboardAssumption
<1>2. key.status \in BOOLEAN /\ key.tmp \in BOOLEAN /\ key.filter \in 0..FilterCount
  BY DEF KeyType
<1>3. CASE pin = key.status
  <2>1. key' \in KeyType /\ key'.status = key.status /\ key'.tmp = pin
    BY <1>3, FilterSame
  <2>2. FilterInv'
    BY <1>1, <1>3, <2>1 DEF FilterInv
  <2>3. QED
    BY <1>1, <1>3, <2>1, <2>2
<1>4. CASE pin # key.status /\ since = 0
  <2>1. pin # key.tmp
    BY <1>4 DEF FilterInv
  <2>2. key' \in KeyType /\ key'.status = key.status /\ key'.tmp = pin /\ key'.filter = FilterCount
    BY <1>4, <2>1, FilterStarts
  <2>3. since' = 1 /\ since' <= FilterCount /\ key'.filter = FilterCount + 1 - since'
    BY <1>1, <1>4, <2>2
  <2>4. FilterInv'
    BY <1>1, <1>4, <2>2, <2>3 DEF FilterInv
  <2>5. QED
    BY <1>1, <1>4, <2>2, <2>3, <2>4
<1>5. CASE pin # key.status /\ since > 0 /\ key.filter > 1
  <2>1. pin = key.tmp /\ since <= FilterCount /\ key.filter = FilterCount + 1 - since
    BY <1>5 DEF FilterInv
  <2>2. key' \in KeyType /\ key'.status = key.status /\ key'.tmp = pin /\ key'.filter = key.filter - 1
    BY <1>5, <2>1, FilterCounts
  <2>3. since' = since + 1 /\ since' <= FilterCount /\ key'.filter = FilterCount + 1 - since'
    BY <1>1, <1>2, <1>5, <2>1, <2>2
  <2>4. FilterInv'
    BY <1>1, <1>5, <2>2, <2>3 DEF FilterInv
  <2>5. QED
    BY <1>1, <1>5, <2>2, <2>3, <2>4
<1>6. CASE pin # key.status /\ since > 0 /\ key.filter <= 1
  <2>1. pin = key.tmp /\ since <= FilterCount /\ key.filter = FilterCount + 1 - since
    BY <1>6 DEF FilterInv
  <2>2. key' \in KeyType /\ key'.status = pin /\ key'.tmp = pin
    BY <1>6, <2>1, FilterAccepts
  <2>3. since' = FilterCount + 1
    BY <1>1, <1>2, <1>6, <2>1
  <2>4. FilterInv'
    BY <1>1, <2>2, <2>3 DEF FilterInv
  <2>5. QED
    BY <1>1, <1>6, <2>2, <2>3, <2>4
<1>7. QED
  BY <1>1, <1>2, <1>3, <1>4, <1>5, <1>6

-----------------------------------------------------------------------------
(* Sequences of callbacks.                                                 *)
LEMMA OneCall ==
  ASSUME NEW e, NEW n
  PROVE  /\ Append(<<>>, Call(e, n)) = <<Call(e, n)>>
         /\ <<Call(e, n)>> # <<>> /\ <<Call(e, n)>>[Len(<<Call(e, n)>>)].event = e
<1>1. Call(e, n).event = e
  BY DEF Call
<1> DEFINE r == Call(e, n)
<1> HIDE DEF r
<1>2. Append(<<>>, r) = <<r>> /\ <<r>> # <<>> /\ <<r>>[Len(<<r>>)] = r
  OBVIOUS
<1>3. QED
  BY <1>1, <1>2, Zenon DEF r

LEMMA OwedNext ==
  ASSUME Observe
  PROVE  /\ calls' = <<>> => owed' = owed
         /\ \A e, n : calls' = <<Call(e, n)>> => owed' = (e = "shortPress")
<1>1. calls' = <<>> => owed' = owed
  BY Zenon DEF Observe
<1>2. ASSUME NEW e, NEW n, calls' = <<Call(e, n)>>
      PROVE  owed' = (e = "shortPress")
  <2>1. calls' # <<>> /\ calls'[Len(calls')].event = e
    BY <1>2, OneCall, Zenon
  <2>2. owed' = (calls'[Len(calls')].event = "shortPress")
    BY <2>1, Zenon DEF Observe
  <2>3. QED
    BY <2>1, <2>2, Zenon
<1>3. QED
  BY <1>1, <1>2, Zenon

-----------------------------------------------------------------------------
(* The state between the window and the state machine of one round.        *)
Mid(c, said, down, t) ==
  /\ c \in CtrlType
  /\ c.state = ctrl.state /\ c.long = ctrl.long
  /\ c.armed /\ c.state = "shortPressed" => c.keep + t <= c.delay
  /\ c.state = "longPressed" => ~c.armed
  /\ c.state = "shortPressed" => owed
  /\ c.armed /\ c.cnt = 1 => owed
  /\ \/ said = <<>> /\ c.cnt = ctrl.cnt
     \/ /\ said = <<Call("shortRelease", 1)>> /\ ~down
        /\ owed /\ ctrl.cnt = 1 /\ ctrl.state # "longPressed" /\ c.cnt = 0 /\ ~c.armed

LEMMA WindowMid ==
  ASSUME KeyboardAssumption, ctrl \in CtrlType, PressInv, NEW down \in BOOLEAN, NEW t \in Intervals
  PROVE  Mid(AfterWindow(ctrl, down, t), WindowCalls(ctrl, down, t), down, t)
<1> DEFINE c == AfterWindow(ctrl, down, t)
<1>1. /\ c \in CtrlType /\ c.state = ctrl.state /\ c.keep = ctrl.keep /\ c.long = ctrl.long
      /\ Closes(ctrl, t) => ~c.armed
      /\ ~Closes(ctrl, t) => c.armed = ctrl.armed /\ (c.armed => c.delay = ctrl.delay + t)
      /\ TapEnds(ctrl, down, t) => c.cnt = 0
      /\ ~TapEnds(ctrl, down, t) => c.cnt = ctrl.cnt
  BY Window
<1> HIDE DEF c
<1>2. /\ t \in Nat /\ ctrl.keep \in Nat /\ ctrl.delay \in Nat
      /\ ctrl.armed \in BOOLEAN /\ c.armed \in BOOLEAN
  BY <1>1 DEF KeyboardAssumption, CtrlType
<1>3. c.armed => ctrl.armed /\ c.delay = ctrl.delay + t
  BY <1>1, <1>2
<1>4. c.armed /\ c.state = "shortPressed" => c.keep + t <= c.delay
  BY <1>1, <1>2, <1>3 DEF PressInv
<1>5. c.armed /\ c.cnt = 1 => owed
  BY <1>1, <1>3 DEF PressInv
<1>6. CASE TapEnds(ctrl, down, t)
  <2>1. Closes(ctrl, t) /\ ~down /\ ctrl.cnt = 1 /\ ctrl.armed
    BY <1>6 DEF TapEnds, Closes
  <2>2. WindowCalls(ctrl, down, t) = <<Call("shortRelease", 1)>>
    BY <1>6, Zenon DEF WindowCalls
  <2>3. owed /\ ctrl.state # "longPressed" /\ c.cnt = 0 /\ ~c.armed
    BY <1>1, <1>6, <2>1 DEF PressInv
  <2>4. (c.state = "longPressed" => ~c.armed) /\ (c.state = "shortPressed" => owed)
    BY <1>1, <2>3
  <2>5. QED
    BY <1>1, <1>4, <1>5, <2>1, <2>2, <2>3, <2>4, Zenon DEF Mid, c
<1>7. CASE ~TapEnds(ctrl, down, t)
  <2>1. WindowCalls(ctrl, down, t) = <<>>
    BY <1>7, Zenon DEF WindowCalls
  <2>2. (c.state = "longPressed" => ~c.armed) /\ (c.state = "shortPressed" => owed)
    BY <1>1, <1>3 DEF PressInv
  <2>3. QED
    BY <1>1, <1>4, <1>5, <1>7, <2>1, <2>2, Zenon DEF Mid, c
<1>8. QED
  BY <1>6, <1>7

-----------------------------------------------------------------------------
(* What each action of the state machine does after the window: PressInv   *)
(* holds again and the callbacks of the round are a step of KeyEvents.     *)
Kept == ctrl' \in CtrlType /\ PressInv' /\ owed' \in BOOLEAN /\ Events!Next

LEMMA CallIsCall ==
  ASSUME NEW e, NEW n
  PROVE  Events!Call(e, n) = Call(e, n)
BY DEF Call, Events!Call

(* A round that makes no callback of its own and stays out of, or in, the  *)
(* long press: what the window did is all that is seen.                    *)
LEMMA WindowOnly ==
  ASSUME KeyboardAssumption, ctrl \in CtrlType, owed \in BOOLEAN, Observe,
         NEW c, NEW said, NEW down, NEW t, Mid(c, said, down, t),
         calls' = said, ctrl'.cnt = c.cnt, ctrl'.long = c.long,
         ctrl'.state = "longPressed" <=> ctrl.state = "longPressed"
  PROVE  /\ owed' \in BOOLEAN /\ Events!Next
         /\ said = <<>> => owed' = owed
<1>1. CASE said = <<>> /\ c.cnt = ctrl.cnt
  <2>1. calls' = <<>> /\ owed' = owed
    BY <1>1, OwedNext, Zenon
  <2>2. ctrl'.cnt = ctrl.cnt /\ ctrl'.long = ctrl.long
    BY <1>1, Zenon DEF Mid
  <2>3. Events!Quiet
    BY <2>1, <2>2, Zenon DEF Events!Quiet
  <2>4. QED
    BY <2>1, <2>3, Zenon DEF Events!Next
<1>2. CASE said = <<Call("shortRelease", 1)>>
  <2>1. owed /\ ctrl.cnt = 1 /\ ctrl.state # "longPressed" /\ c.cnt = 0 /\ said # <<>>
    BY <1>2, OneCall, Zenon DEF Mid
  <2>2. calls' = <<Events!Call("shortRelease", ctrl.cnt)>>
    BY <1>2, <2>1, CallIsCall, Zenon
  <2>3. "shortRelease" # "shortPress"
    OBVIOUS
  <2>4. owed' = FALSE
    BY <1>2, <2>3, OwedNext, Zenon
  <2>5. Events!ShortRelease
    BY <2>1, <2>2, <2>4 DEF Events!ShortRelease
  <2>6. QED
    BY <2>1, <2>4, <2>5, Zenon DEF Events!Next
<1>3. QED
  BY <1>1, <1>2, Zenon DEF Mid

LEMMA PressKept ==
  ASSUME KeyboardAssumption, ctrl \in CtrlType, owed \in BOOLEAN, Observe,
         NEW c, NEW said, NEW t, Mid(c, said, TRUE, t), Press(c, said)
  PROVE  Kept
<1> DEFINE n == IF c.armed THEN c.cnt + 1 ELSE 1
           d == IF c.armed THEN c.delay ELSE 0
<1>1. /\ c \in CtrlType /\ c.state = "idle" /\ ctrl.state = "idle"
      /\ said = <<>> /\ c.cnt = ctrl.cnt
      /\ ctrl' = [c EXCEPT !.state = "shortPressed", !.keep = 0, !.cnt = n, !.armed = TRUE, !.delay = d]
      /\ calls' = Append(said, Call("shortPress", n))
  BY Zenon DEF Mid, Press
<1>2. /\ n \in Nat /\ d \in 0..(DoubleTime - 1) /\ 0 \in 0..LongKeep /\ 0 \in 0..(LongMax - 1)
      /\ "shortPressed" \in States /\ TRUE \in BOOLEAN
      /\ n \in {1, ctrl.cnt + 1} /\ d \in Nat
  BY <1>1 DEF KeyboardAssumption, CtrlType, States
<1> HIDE DEF n, d
<1>3. ctrl' \in CtrlType
  BY <1>1, <1>2, CtrlUpdate
<1>4. ctrl'.state = "shortPressed" /\ ctrl'.keep = 0 /\ ctrl'.cnt = n /\ ctrl'.delay = d
  BY <1>1, Zenon DEF CtrlType
<1>5. calls' = <<Call("shortPress", n)>> /\ owed' = TRUE
  BY <1>1, OneCall, OwedNext, Zenon
<1>6. PressInv'
  BY <1>2, <1>4, <1>5 DEF PressInv
<1>7. Events!ShortPress
  <2>1. calls' = <<Events!Call("shortPress", ctrl'.cnt)>>
    BY <1>4, <1>5, CallIsCall, Zenon
  <2>2. QED
    BY <1>1, <1>2, <1>4, <1>5, <2>1 DEF Events!ShortPress
<1>8. QED
  BY <1>3, <1>5, <1>6, <1>7 DEF Kept, Events!Next

LEMMA ReleaseShortKept ==
  ASSUME KeyboardAssumption, ctrl \in CtrlType, owed \in BOOLEAN, Observe,
         NEW c, NEW said, NEW t, Mid(c, said, FALSE, t), ReleaseShort(c, said)
  PROVE  Kept
<1>1. /\ c \in CtrlType /\ c.state = "shortPressed" /\ ctrl.state = "shortPressed" /\ owed
      /\ ctrl' = [c EXCEPT !.state = "shortRelease", !.keep = 0]
  BY Zenon DEF Mid, ReleaseShort
<1>2. 0 \in 0..LongKeep /\ "shortRelease" \in States /\ c.cnt \in Nat /\ c.armed \in BOOLEAN
  BY <1>1 DEF KeyboardAssumption, CtrlType, States
<1>3. ctrl' \in CtrlType
  <2>1. c.cnt \in Nat /\ c.armed \in BOOLEAN /\ c.delay \in 0..(DoubleTime - 1) /\ c.long \in 0..(LongMax - 1)
    BY <1>1 DEF CtrlType
  <2>2. QED
    BY <1>1, <1>2, <2>1, CtrlUpdate
<1>4. ctrl'.state = "shortRelease" /\ ctrl'.cnt = c.cnt /\ ctrl'.armed = c.armed /\ ctrl'.long = c.long
  BY <1>1, Zenon DEF CtrlType
<1>5. CASE Answers(c)
  <2>1. said = <<>> /\ c.cnt = ctrl.cnt
    BY <1>5 DEF Mid, Answers
  <2>2. calls' = <<Call("shortRelease", c.cnt)>>
    BY <1>5, <2>1, OneCall, Zenon DEF ReleaseShort
  <2>3. "shortRelease" # "shortPress"
    OBVIOUS
  <2>4. owed' = FALSE
    BY <2>2, <2>3, OwedNext, Zenon
  <2>5. PressInv'
    BY <1>4, <1>5 DEF PressInv, Answers
  <2>6. Events!ShortRelease
    <3>1. calls' = <<Events!Call("shortRelease", ctrl.cnt)>>
      BY <2>1, <2>2, CallIsCall, Zenon
    <3>2. QED
      BY <1>1, <1>4, <2>1, <2>4, <3>1 DEF Events!ShortRelease
  <2>7. QED
    BY <1>3, <2>4, <2>5, <2>6 DEF Kept, Events!Next
<1>6. CASE ~Answers(c)
  <2>1. calls' = said
    BY <1>6, Zenon DEF ReleaseShort
  <2>2. owed' \in BOOLEAN /\ Events!Next /\ (said = <<>> => owed' = owed)
    <3>1. ctrl'.state = "longPressed" <=> ctrl.state = "longPressed"
      BY <1>1, <1>4
    <3>2. QED
      BY <1>4, <2>1, <3>1, WindowOnly
  <2>3. c.armed /\ c.cnt = 1 => owed'
    BY <1>2, <2>2 DEF Mid
  <2>4. PressInv'
    BY <1>4, <2>3 DEF PressInv
  <2>5. QED
    BY <1>3, <2>2, <2>4 DEF Kept
<1>7. QED
  BY <1>5, <1>6

LEMMA HoldShortKept ==
  ASSUME KeyboardAssumption, ctrl \in CtrlType, owed \in BOOLEAN, Observe,
         NEW c, NEW said, NEW t \in Intervals, Mid(c, said, TRUE, t), HoldShort(c, said, t)
  PROVE  Kept
<1>1. /\ c \in CtrlType /\ c.state = "shortPressed" /\ ctrl.state = "shortPressed" /\ said = <<>>
      /\ c.keep + t <= LongKeep /\ ctrl' = [c EXCEPT !.keep = c.keep + t] /\ calls' = said
      /\ (c.armed => c.keep + t <= c.delay) /\ owed
  BY Zenon DEF Mid, HoldShort
<1>2. /\ c.keep + t \in 0..LongKeep /\ c.cnt \in Nat /\ c.armed \in BOOLEAN
      /\ c.delay \in 0..(DoubleTime - 1) /\ c.long \in 0..(LongMax - 1) /\ c.state \in States
  BY <1>1 DEF KeyboardAssumption, CtrlType
<1>3. ctrl' \in CtrlType
  BY <1>1, <1>2, CtrlUpdate
<1>4. /\ ctrl'.state = c.state /\ ctrl'.keep = c.keep + t /\ ctrl'.cnt = c.cnt
      /\ ctrl'.armed = c.armed /\ ctrl'.delay = c.delay /\ ctrl'.long = c.long
  BY <1>1, Zenon DEF CtrlType
<1>5. owed' \in BOOLEAN /\ Events!Next /\ owed' = owed
  <2>1. ctrl'.state = "longPressed" <=> ctrl.state = "longPressed"
    BY <1>1, <1>4
  <2>2. QED
    BY <1>1, <1>4, <2>1, WindowOnly
<1>6. PressInv'
  BY <1>1, <1>4, <1>5 DEF PressInv
<1>7. QED
  BY <1>3, <1>5, <1>6 DEF Kept

(* The press has outlasted its window, so there is none to close later.    *)
LEMMA TurnLongKept ==
  ASSUME KeyboardAssumption, ctrl \in CtrlType, owed \in BOOLEAN, Observe,
         NEW c, NEW said, NEW t \in Intervals, Mid(c, said, TRUE, t), TurnLong(c, said, t)
  PROVE  Kept
<1>1. /\ c \in CtrlType /\ c.state = "shortPressed" /\ ctrl.state = "shortPressed"
      /\ said = <<>> /\ c.cnt = ctrl.cnt
      /\ c.keep + t > LongKeep /\ ctrl' = [c EXCEPT !.state = "longPressed", !.keep = 0, !.long = 0]
      /\ calls' = Append(said, Call("longPress", 0))
      /\ (c.armed => c.keep + t <= c.delay) /\ owed
  BY Zenon DEF Mid, TurnLong
<1>2. /\ 0 \in 0..LongKeep /\ 0 \in 0..(LongMax - 1) /\ "longPressed" \in States /\ c.cnt \in Nat
      /\ c.armed \in BOOLEAN /\ c.delay \in 0..(DoubleTime - 1) /\ c.keep \in Nat
  BY <1>1 DEF KeyboardAssumption, CtrlType, States
<1>3. ~c.armed
  <2>1. t \in Nat /\ LongKeep \in Nat /\ DoubleTime \in 1..LongKeep /\ c.delay \in Nat /\ c.delay < LongKeep
    BY <1>2 DEF KeyboardAssumption
  <2>2. ~(c.keep + t <= c.delay)
    BY <1>1, <1>2, <2>1
  <2>3. QED
    BY <1>1, <2>2
<1>4. ctrl' \in CtrlType
  BY <1>1, <1>2, CtrlUpdate
<1>5. ctrl'.state = "longPressed" /\ ctrl'.cnt = c.cnt /\ ctrl'.armed = c.armed /\ ctrl'.long = 0
  BY <1>1, Zenon DEF CtrlType
<1>6. calls' = <<Call("longPress", 0)>>
  BY <1>1, OneCall, Zenon
<1>7. owed' = FALSE
  <2>1. "longPress" # "shortPress"
    OBVIOUS
  <2>2. QED
    BY <1>6, <2>1, OwedNext, Zenon
<1>8. PressInv'
  BY <1>3, <1>5, <1>7 DEF PressInv
<1>9. Events!LongPress
  <2>1. calls' = <<Events!Call("longPress", 0)>>
    BY <1>6, CallIsCall, Zenon
  <2>2. LongMax \in Nat \ {0}
    BY DEF KeyboardAssumption
  <2>3. QED
    BY <1>1, <1>5, <1>7, <2>1, <2>2 DEF Events!LongPress
<1>10. QED
  BY <1>4, <1>7, <1>8, <1>9 DEF Kept, Events!Next

LEMMA ReleaseLongKept ==
  ASSUME KeyboardAssumption, ctrl \in CtrlType, owed \in BOOLEAN, Observe, PressInv,
         NEW c, NEW said, NEW t, Mid(c, said, FALSE, t), ReleaseLong(c, said)
  PROVE  Kept
<1>1. /\ c \in CtrlType /\ c.state = "longPressed" /\ ctrl.state = "longPressed" /\ ~c.armed
      /\ said = <<>> /\ c.cnt = ctrl.cnt /\ c.long = ctrl.long
      /\ ctrl' = [c EXCEPT !.state = "longRelease", !.keep = 0]
      /\ calls' = Append(said, Call("longRelease", c.long))
  BY Zenon DEF Mid, ReleaseLong
<1>2. /\ 0 \in 0..LongKeep /\ "longRelease" \in States /\ c.cnt \in Nat /\ c.armed \in BOOLEAN
      /\ c.delay \in 0..(DoubleTime - 1) /\ c.long \in 0..(LongMax - 1) /\ c.long \in Nat
  BY <1>1 DEF KeyboardAssumption, CtrlType, States
<1>3. ctrl' \in CtrlType
  BY <1>1, <1>2, CtrlUpdate
<1>4. ctrl'.state = "longRelease" /\ ctrl'.cnt = c.cnt /\ ctrl'.armed = c.armed
  BY <1>1, Zenon DEF CtrlType
<1>5. calls' = <<Call("longRelease", c.long)>>
  BY <1>1, OneCall, Zenon
<1>6. owed' = FALSE
  <2>1. "longRelease" # "shortPress"
    OBVIOUS
  <2>2. QED
    BY <1>5, <2>1, OwedNext, Zenon
<1>7. PressInv'
  BY <1>1, <1>4 DEF PressInv
<1>8. Events!LongRelease
  <2>1. calls' = <<Events!Call("longRelease", ctrl.long)>>
    BY <1>1, <1>5, CallIsCall, Zenon
  <2>2. ~owed /\ (ctrl.long + 1) - 1 = ctrl.long /\ ctrl.long + 1 > 0
    BY <1>1, <1>2 DEF PressInv
  <2>3. QED
    BY <1>1, <1>4, <1>6, <2>1, <2>2 DEF Events!LongRelease
<1>9. QED
  BY <1>3, <1>6, <1>7, <1>8 DEF Kept, Events!Next

LEMMA HoldLongKept ==
  ASSUME KeyboardAssumption, ctrl \in CtrlType, owed \in BOOLEAN, Observe, PressInv,
         NEW c, NEW said, NEW t \in Intervals, Mid(c, said, TRUE, t), HoldLong(c, said, t)
  PROVE  Kept
<1>1. /\ c \in CtrlType /\ c.state = "longPressed" /\ ctrl.state = "longPressed" /\ ~c.armed /\ said = <<>>
      /\ c.keep + t <= LongLoop /\ ctrl' = [c EXCEPT !.keep = c.keep + t] /\ calls' = said
  BY Zenon DEF Mid, HoldLong
<1>2. /\ c.keep + t \in 0..LongKeep /\ c.cnt \in Nat /\ c.armed \in BOOLEAN
      /\ c.delay \in 0..(DoubleTime - 1) /\ c.long \in 0..(LongMax - 1) /\ c.state \in States
  BY <1>1 DEF KeyboardAssumption, CtrlType
<1>3. ctrl' \in CtrlType
  <2>1. c \in CtrlType /\ ctrl' = [c EXCEPT !.keep = c.keep + t]
    BY <1>1
  <2>2. [c EXCEPT !.keep = c.keep + t] \in CtrlType
    BY <1>2, <2>1, CtrlUpdate
  <2>3. QED
    BY <2>1, <2>2, Zenon
<1>4. /\ ctrl'.state = "longPressed" /\ ctrl'.cnt = c.cnt /\ ctrl'.armed = c.armed /\ ctrl'.long = c.long
  BY <1>1, Zenon DEF CtrlType
<1>5. owed' \in BOOLEAN /\ Events!Next /\ owed' = owed
  <2>1. ctrl'.state = "longPressed" <=> ctrl.state = "longPressed"
    BY <1>1, <1>4
  <2>2. QED
    BY <1>1, <1>4, <2>1, WindowOnly
<1>6. PressInv'
  BY <1>1, <1>4, <1>5 DEF PressInv
<1>7. QED
  BY <1>3, <1>5, <1>6 DEF Kept

LEMMA RepeatLongKept ==
  ASSUME KeyboardAssumption, ctrl \in CtrlType, owed \in BOOLEAN, Observe,
         NEW c, NEW said, NEW t \in Intervals, Mid(c, said, TRUE, t), RepeatLong(c, said, t)
  PROVE  Kept
<1> DEFINE n == IF c.long < LongMax - 1 THEN c.long + 1 ELSE c.long
<1>1. /\ c \in CtrlType /\ c.state = "longPressed" /\ ctrl.state = "longPressed" /\ ~c.armed
      /\ said = <<>> /\ c.cnt = ctrl.cnt /\ c.long = ctrl.long
      /\ ctrl' = [c EXCEPT !.keep = 0, !.long = n]
      /\ calls' = Append(said, Call("longPress", n))
  BY Zenon DEF Mid, RepeatLong
<1>2. /\ 0 \in 0..LongKeep /\ n \in 0..(LongMax - 1) /\ c.cnt \in Nat /\ c.armed \in BOOLEAN
      /\ c.delay \in 0..(DoubleTime - 1) /\ c.state \in States
      /\ n + 1 = IF ctrl.long + 1 < LongMax THEN (ctrl.long + 1) + 1 ELSE ctrl.long + 1
      /\ (n + 1) - 1 = n /\ ctrl.long + 1 > 0
  BY <1>1 DEF KeyboardAssumption, CtrlType
<1> HIDE DEF n
<1>3. ctrl' \in CtrlType
  BY <1>1, <1>2, CtrlUpdate
<1>4. ctrl'.state = "longPressed" /\ ctrl'.cnt = c.cnt /\ ctrl'.armed = c.armed /\ ctrl'.long = n
  <2>1. ctrl'.state = c.state /\ ctrl'.cnt = c.cnt /\ ctrl'.armed = c.armed /\ ctrl'.long = n
    BY <1>1, Zenon DEF CtrlType
  <2>2. QED
    BY <1>1, <2>1
<1>5. calls' = <<Call("longPress", n)>>
  BY <1>1, OneCall, Zenon
<1>6. owed' = FALSE
  <2>1. "longPress" # "shortPress"
    OBVIOUS
  <2>2. QED
    BY <1>5, <2>1, OwedNext, Zenon
<1>7. PressInv'
  BY <1>1, <1>4, <1>6 DEF PressInv
<1>8. Events!LongPress
  <2>1. calls' = <<Events!Call("longPress", n)>>
    BY <1>5, CallIsCall, Zenon
  <2>2. QED
    BY <1>1, <1>2, <1>4, <1>6, <2>1 DEF Events!LongPress
<1>9. QED
  BY <1>3, <1>6, <1>7, <1>8 DEF Kept, Events!Next

LEMMA SettleKept ==
  ASSUME KeyboardAssumption, ctrl \in CtrlType, owed \in BOOLEAN, Observe,
         NEW c, NEW said, NEW down, NEW t, Mid(c, said, down, t), Settle(c, said)
  PROVE  Kept
<1>1. /\ c \in CtrlType /\ c.state = ctrl.state /\ c.state \in {"shortRelease", "longRelease"}
      /\ ctrl' = [c EXCEPT !.state = "idle"] /\ calls' = said
      /\ (c.armed /\ c.cnt = 1 => owed) /\ (said = <<>> \/ ~c.armed)
  BY Zenon DEF Mid, Settle
<1>2. /\ "idle" \in States /\ c.cnt \in Nat /\ c.armed \in BOOLEAN /\ c.keep \in 0..LongKeep
      /\ c.delay \in 0..(DoubleTime - 1) /\ c.long \in 0..(LongMax - 1)
  BY <1>1 DEF CtrlType, States
<1>3. ctrl' \in CtrlType
  BY <1>1, <1>2, CtrlUpdate
<1>4. ctrl'.state = "idle" /\ ctrl'.cnt = c.cnt /\ ctrl'.armed = c.armed /\ ctrl'.long = c.long
  BY <1>1, Zenon DEF CtrlType
<1>5. owed' \in BOOLEAN /\ Events!Next /\ (said = <<>> => owed' = owed)
  <2>1. ctrl'.state = "longPressed" <=> ctrl.state = "longPressed"
    BY <1>1, <1>4
  <2>2. QED
    BY <1>1, <1>4, <2>1, WindowOnly
<1>6. PressInv'
  BY <1>1, <1>2, <1>4, <1>5 DEF PressInv
<1>7. QED
  BY <1>3, <1>5, <1>6 DEF Kept

LEMMA IdleKept ==
  ASSUME KeyboardAssumption, ctrl \in CtrlType, owed \in BOOLEAN, Observe,
         NEW c, NEW said, NEW down, NEW t, Mid(c, said, down, t), Idle(c, said)
  PROVE  Kept
<1>1. /\ c \in CtrlType /\ c.state = ctrl.state /\ c.state = "idle" /\ ctrl' = c /\ calls' = said
      /\ (c.armed /\ c.cnt = 1 => owed) /\ (said = <<>> \/ ~c.armed)
  BY Zenon DEF Mid, Idle
<1>2. owed' \in BOOLEAN /\ Events!Next /\ (said = <<>> => owed' = owed)
  BY <1>1, WindowOnly
<1>3. PressInv'
  BY <1>1, <1>2 DEF PressInv
<1>4. QED
  BY <1>1, <1>2, <1>3 DEF Kept

-----------------------------------------------------------------------------
(* One round, and one step.                                                *)
LEMMA RoundKept ==
  ASSUME KeyboardAssumption, IInv, NEW t \in Intervals, Round(t)
  PROVE  Kept
<1> DEFINE down == key'.status
           c == AfterWindow(ctrl, down, t)
           said == WindowCalls(ctrl, down, t)
<1>1. /\ key \in KeyType /\ ctrl \in CtrlType /\ owed \in BOOLEAN /\ PressInv /\ Observe
      /\ pin \in BOOLEAN /\ since \in 0..(FilterCount + 1) /\ FilterInv
      /\ key' = Filtered(key, pin) /\ pin' = pin
      /\ since' = IF since <= FilterCount THEN since + 1 ELSE since
  BY DEF IInv, TypeOK, KeyType, CtrlType, Round, Observe
<1>2. down \in BOOLEAN
  <2>1. key' \in KeyType
    BY <1>1, FilterStep
  <2>2. QED
    BY <2>1 DEF KeyType
<1>3. Mid(c, said, down, t)
  BY <1>1, <1>2, WindowMid
<1>4. \/ down /\ Down(c, said, t)
      \/ ~down /\ Up(c, said)
      \/ Settle(c, said)
  BY Zenon DEF Round
<1> HIDE DEF down, c, said
<1>5. CASE down /\ Down(c, said, t)
  <2>1. Mid(c, said, TRUE, t)
    BY <1>2, <1>3, <1>5
  <2>2. CASE Press(c, said)
    BY <1>1, <2>1, <2>2, PressKept
  <2>3. CASE HoldShort(c, said, t)
    BY <1>1, <2>1, <2>3, HoldShortKept
  <2>4. CASE TurnLong(c, said, t)
    BY <1>1, <2>1, <2>4, TurnLongKept
  <2>5. CASE HoldLong(c, said, t)
    BY <1>1, <2>1, <2>5, HoldLongKept
  <2>6. CASE RepeatLong(c, said, t)
    BY <1>1, <2>1, <2>6, RepeatLongKept
  <2>7. QED
    BY <1>5, <2>2, <2>3, <2>4, <2>5, <2>6 DEF Down
<1>6. CASE ~down /\ Up(c, said)
  <2>1. Mid(c, said, FALSE, t)
    BY <1>2, <1>3, <1>6
  <2>2. CASE Idle(c, said)
    BY <1>1, <2>1, <2>2, IdleKept
  <2>3. CASE ReleaseShort(c, said)
    BY <1>1, <2>1, <2>3, ReleaseShortKept
  <2>4. CASE ReleaseLong(c, said)
    BY <1>1, <2>1, <2>4, ReleaseLongKept
  <2>5. QED
    BY <1>6, <2>2, <2>3, <2>4 DEF Up
<1>7. CASE Settle(c, said)
  BY <1>1, <1>3, <1>7, SettleKept
<1>8. QED
  BY <1>4, <1>5, <1>6, <1>7

LEMMA StepKept ==
  ASSUME KeyboardAssumption, IInv, [Next]_vars
  PROVE  /\ IInv'
         /\ key'.status # key.status <=> (pin # key.status /\ since' = FilterCount + 1)
         /\ [Events!Next]_(Events!vars)
<1>1. /\ key \in KeyType /\ ctrl \in CtrlType /\ owed \in BOOLEAN /\ PressInv
      /\ pin \in BOOLEAN /\ since \in 0..(FilterCount + 1) /\ FilterInv
  BY DEF IInv, TypeOK, KeyType, CtrlType
<1>2. FilterCount \in Nat \ {0} /\ key.status \in BOOLEAN /\ since \in Nat
  BY <1>1 DEF KeyboardAssumption, KeyType
<1>3. ASSUME NEW t \in Intervals, Round(t)
      PROVE  /\ IInv' /\ Events!Next
             /\ key'.status # key.status <=> (pin # key.status /\ since' = FilterCount + 1)
  <2>1. /\ pin' = pin /\ key' = Filtered(key, pin)
        /\ since' = IF since <= FilterCount THEN since + 1 ELSE since
    BY <1>3 DEF Round, Observe
  <2>2. /\ key' \in KeyType /\ since' \in 0..(FilterCount + 1) /\ FilterInv'
        /\ key'.status # key.status <=> (pin # key.status /\ since' = FilterCount + 1)
    BY <1>1, <2>1, FilterStep
  <2>3. ctrl' \in CtrlType /\ PressInv' /\ owed' \in BOOLEAN /\ Events!Next
    BY <1>3, RoundKept DEF Kept
  <2>4. TypeOK'
    BY <1>1, <2>1, <2>2, <2>3 DEF TypeOK, KeyType, CtrlType
  <2>5. QED
    BY <2>2, <2>3, <2>4 DEF IInv
<1>4. CASE Flip
  <2>1. since > 0 /\ pin' = ~pin /\ since' = 0 /\ UNCHANGED <<key, ctrl, calls, owed>>
    BY <1>4 DEF Flip
  <2>2. TypeOK'
    BY <1>1, <1>2, <2>1 DEF TypeOK, KeyType, CtrlType
  <2>3. FilterInv'
    <3>1. since' = 0 /\ ~(since' > 0)
      BY <2>1
    <3>2. pin' # key'.status => key'.tmp = key'.status
      BY <1>1, <1>2, <2>1 DEF FilterInv
    <3>3. QED
      BY <3>1, <3>2 DEF FilterInv
  <2>4. PressInv'
    BY <1>1, <2>1 DEF PressInv
  <2>5. UNCHANGED Events!vars
    BY <2>1 DEF Events!vars
  <2>6. key'.status = key.status /\ since' # FilterCount + 1
    BY <1>2, <2>1
  <2>7. QED
    BY <2>2, <2>3, <2>4, <2>5, <2>6 DEF IInv
<1>5. CASE UNCHANGED vars
  <2>1. /\ pin' = pin /\ since' = since /\ key' = key /\ ctrl' = ctrl /\ calls' = calls /\ owed' = owed
    BY <1>5 DEF vars
  <2>2. IInv'
    BY <2>1 DEF IInv, TypeOK, FilterInv, PressInv
  <2>3. UNCHANGED Events!vars
    BY <2>1 DEF Events!vars
  <2>4. ~(pin # key.status /\ since' = FilterCount + 1)
    BY <1>1, <1>2, <2>1 DEF FilterInv
  <2>5. QED
    BY <2>1, <2>2, <2>3, <2>4
<1>6. QED
  BY <1>3, <1>4, <1>5 DEF Next, Scan

LEMMA InitKept ==
  ASSUME KeyboardAssumption, Init
  PROVE  IInv /\ Events!Init
<1>1. pin \in BOOLEAN /\ since = 0 /\ calls = <<>> /\ owed = FALSE
  BY DEF Init
<1>2. key \in KeyType /\ key.tmp = FALSE /\ key.status = FALSE
  <2>1. key = [status |-> FALSE, tmp |-> FALSE, filter |-> 0] /\ 0 \in 0..FilterCount
    BY DEF Init, KeyboardAssumption
  <2>2. QED
    BY <2>1 DEF KeyType
<1>3. ctrl \in CtrlType /\ ctrl.state = "idle" /\ ctrl.cnt = 0 /\ ctrl.armed = FALSE
  <2>1. /\ ctrl = [state |-> "idle", keep |-> 0, cnt |-> 0, armed |-> FALSE, delay |-> 0, long |-> 0]
        /\ 0 \in 0..LongKeep /\ 0 \in 0..(DoubleTime - 1) /\ 0 \in 0..(LongMax - 1) /\ "idle" \in States
    BY DEF Init, KeyboardAssumption, States
  <2>2. QED
    BY <2>1 DEF CtrlType
<1>4. TypeOK
  <2>1. 0 \in 0..(FilterCount + 1)
    BY DEF KeyboardAssumption
  <2>2. QED
    BY <1>1, <1>2, <1>3, <2>1 DEF TypeOK, KeyType, CtrlType
<1>5. FilterInv /\ PressInv
  <2>1. ~(since > 0) /\ ctrl.state # "longPressed" /\ ctrl.state # "shortPressed" /\ ctrl.cnt # 1
    BY <1>1, <1>3
  <2>2. FilterInv
    BY <1>1, <1>2, <2>1, Zenon DEF FilterInv
  <2>3. PressInv
    BY <2>1, Zenon DEF PressInv
  <2>4. QED
    BY <2>2, <2>3
<1>6. Events!Init
  BY <1>1, <1>3 DEF Events!Init
<1>7. QED
  BY <1>4, <1>5, <1>6 DEF IInv

(* The inductive invariant.                                                *)
LEMMA Inductive == Spec => []IInv
<1>1. Init => IInv
  BY InitKept, KeyboardAssumption
<1>2. IInv /\ [Next]_vars => IInv'
  BY StepKept, KeyboardAssumption
<1>3. QED
  BY <1>1, <1>2, PTL DEF Spec

-----------------------------------------------------------------------------
(* The filter, the press times and the double-press delay stay in range,   *)
(* however late the key task is (myKeyboardRead, myKeyboardLoop).          *)
THEOREM TypeCorrect == Spec => []TypeOK
<1>1. IInv => TypeOK
  BY DEF IInv
<1>2. QED
  BY <1>1, Inductive, PTL

(* Contact bounce never becomes a press and no press is missed, for every  *)
(* depth of the filter of myKeyboardRead.                                  *)
THEOREM NoBounce == Spec => Debounced
<1>1. IInv /\ [Next]_vars =>
        [key'.status # key.status <=> (pin # key.status /\ since' = FilterCount + 1)]_vars
  BY StepKept, KeyboardAssumption
<1>2. QED
  BY <1>1, Inductive, PTL DEF Spec, Debounced

(* The callbacks of myKeyboardLoop come as KeyEvents promises: one answer  *)
(* to a press, short or long and never both, and every release with the    *)
(* count of the press it ends.                                             *)
THEOREM PressesAnsweredOnce == Spec => CallsInOrder
<1>1. Init => Events!Init
  BY InitKept, KeyboardAssumption
<1>2. IInv /\ [Next]_vars => [Events!Next]_(Events!vars)
  BY StepKept, KeyboardAssumption
<1>3. QED
  BY <1>1, <1>2, Inductive, PTL DEF Spec, CallsInOrder, Events!Spec
=============================================================================
