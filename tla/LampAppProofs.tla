---------------------------- MODULE LampAppProofs ----------------------------
(***************************************************************************)
(* Theorems about LampApp, for every range of brightness, every number of  *)
(* blinks and every length of a fade: type correctness and the factory     *)
(* reset however the tasks interleave, the settings and the output for     *)
(* calls that are not interrupted.                                         *)
(***************************************************************************)
EXTENDS LampApp, WellFoundedInduction, TLAPS

FlagsType == [online : BOOLEAN, window : BOOLEAN, reset : BOOLEAN, up : BOOLEAN,
              need : BOOLEAN, lightNeed : BOOLEAN]
FadeType == [dst : Levels, left : 0..FadeSteps, adjusting : BOOLEAN]
FlashType == [count : 0..(Blinks + 1), on : BOOLEAN, wait : -1..(FlashPeriod - 1)]
ReqType == [op : Ops, on : BOOLEAN, bri : Bri]
SeenType == [param : Params, level : Levels]
Steps == LampSteps \cup CallSteps \cup CloudSteps \cup {"idle"}

Where(t) == CASE t = "lamp" -> (LampSteps \cup CallSteps) \ {"check", "apply"}
              [] t = "key" -> {"idle"} \cup CallSteps
              [] t = "cloud" -> {"idle"} \cup CallSteps \cup CloudSteps

(* TypeOK, and what it takes to keep the count of the blinks in range: a   *)
(* call of the lamp task is a toggle, which passes neither "check" nor     *)
(* "apply", asks for nothing of its own, and has a toggle left to count.   *)
(* Only the cloud logs in, so only its calls return to the SDK.            *)
Typed ==
  /\ app \in Params /\ lib \in Params /\ light \in Params /\ view \in Params
  /\ flags \in FlagsType /\ fade \in FadeType /\ flash \in FlashType
  /\ out \in Levels \cup {Between}
  /\ delay \in 0..ReportDelay
  /\ held \in 0..(ResetHold + 2) /\ deleted \in BOOLEAN
  /\ pc \in [Tasks -> Steps] /\ \A t \in Tasks : pc[t] \in Where(t)
  /\ req \in [Tasks -> ReqType] /\ req["lamp"].op = "none" /\ req["key"].op # "login"
  /\ seen \in [Tasks -> SeenType]
  /\ pc["lamp"] \in CallSteps => flash.count > 0

BlinkInv == Typed /\ BlinksToTheEnd

(* What holds while the lamp does not blink and no call is interrupted.    *)
(* Between calls everything agrees, but for a fade still on its way.       *)
Serial == \A t, u \in Tasks : t # u => AtRest(t) \/ AtRest(u)

Same(p, q) == p.on = q.on /\ p.bri = q.bri
Aimed == fade.dst = Level(lib)
Steady == ~fade.adjusting => out = fade.dst
Settled == Same(app, light) /\ app.on = lib.on /\ Aimed /\ Steady

(* How far the call of a task has come: the copies that agree already, or  *)
(* still.                                                                  *)
SwitchDue(t) == pc[t] \in {"check", "apply"} /\ SetsSwitch(t)
FadeDue(t) == pc[t] \in {"aim", "start"} \/ (pc[t] \in {"sync", "compare", "raise"} /\ req[t].op # "login")

CopiesInv(t) ==
  /\ IF SwitchDue(t) THEN req[t].on = app.on ELSE app.on = lib.on
  /\ pc[t] = "toggle" => light.bri = app.bri /\ req[t].op = "onoff"
  /\ pc[t] = "assign" => light.on = app.on /\ req[t].op \in {"bri", "mode"}
  /\ pc[t] = "assign" /\ req[t].op = "bri" => light.bri = req[t].bri
  /\ pc[t] = "assign" /\ req[t].op = "mode" => Same(light, app)
  /\ pc[t] \in {"check", "apply"} /\ ~SetsSwitch(t) => light.on = app.on /\ req[t].bri = app.bri
  /\ pc[t] = "check" /\ req[t].op = "bri" => light.bri = app.bri \/ (t = "key" /\ lib.on)
  /\ pc[t] = "compare" => Same(seen[t].param, app)
  /\ pc[t] \in {"raise", "aim", "start", "go", "login"} => Same(light, app)
  /\ pc[t] = "answer" => Same(light, app) \/ (req[t].op = "mode" /\ light.on = app.on)
  /\ req[t].op = "mode" /\ pc[t] # "assign" => req[t].bri = app.bri
  /\ pc[t] \in {"check", "apply"} => req[t].op \in {"switch", "onoff", "bri", "mode"} /\ (t = "key" => req[t].op # "mode")

FadeInv(t) ==
  /\ ~FadeDue(t) => Aimed
  /\ pc[t] = "start" => seen[t].level = Level(lib)
  /\ pc[t] # "go" => Steady

Users == {"key", "cloud"}
Blinking == flash.on \/ pc["lamp"] = "reboot"

SerialInv ==
  /\ Serial
  /\ ~Blinking =>
       /\ (\A t \in Users : AtRest(t)) => Settled
       /\ \A t \in Users : ~AtRest(t) => CopiesInv(t) /\ FadeInv(t)
       /\ pc["lamp"] = "stepEnd" => out = fade.dst

-----------------------------------------------------------------------------
(* The smallest element of a set of numbers, and the largest one.          *)
LEMMA LeastNat ==
  ASSUME NEW T \in SUBSET Nat, T # {}
  PROVE  \E x \in T : \A y \in T : x <= y
<1> DEFINE R == OpToRel(<, Nat)
<1>1. IsWellFoundedOn(R, Nat)
  BY NatLessThanWellFounded
<1>2. \A y \in T : \A x \in T : y < x => <<y, x>> \in R
  BY DEF OpToRel
<1> HIDE DEF R
<1>3. PICK x \in T : \A y \in T : ~(<<y, x>> \in R)
  BY <1>1, WFMin
<1>4. \A y \in T : ~(y < x)
  BY <1>2, <1>3
<1>5. \A y \in T : x <= y
  <2> TAKE y \in T
  <2>1. x \in Nat /\ y \in Nat
    OBVIOUS
  <2>2. QED
    BY <1>4, <2>1
<1>6. QED
  BY <1>3, <1>5

LEMMA MinNat ==
  ASSUME NEW T \in SUBSET Nat, T # {}
  PROVE  Min(T) \in T /\ Min(T) \in Nat /\ \A y \in T : Min(T) <= y
<1>1. \E x \in T : \A y \in T : x <= y
  BY LeastNat
<1>2. Min(T) \in T /\ \A y \in T : Min(T) <= y
  BY <1>1, Zenon DEF Min
<1>3. \A y \in T : y \in Nat
  OBVIOUS
<1>4. QED
  BY <1>2, <1>3, Zenon

LEMMA MaxNat ==
  ASSUME NEW n \in Nat, NEW T \in SUBSET (0..n), T # {}
  PROVE  Max(T) \in T /\ Max(T) \in Nat /\ \A y \in T : Max(T) >= y
<1> DEFINE D == {n - y : y \in T}
<1>1. D \in SUBSET Nat /\ D # {}
  <2>1. PICK y \in T : TRUE
    OBVIOUS
  <2>2. n - y \in D
    BY <2>1
  <2>3. D \in SUBSET Nat
    OBVIOUS
  <2>4. QED
    BY <2>2, <2>3
<1>2. PICK d \in D : \A e \in D : d <= e
  BY <1>1, LeastNat
<1>3. PICK x \in T : d = n - x
  BY <1>2
<1>4. \A y \in T : x >= y
  <2> TAKE y \in T
  <2>1. n - y \in D /\ x \in 0..n /\ y \in 0..n
    OBVIOUS
  <2>2. n - x <= n - y
    BY <1>2, <1>3, <2>1
  <2>3. QED
    BY <2>1, <2>2
<1>5. \E z \in T : \A y \in T : z >= y
  BY <1>4
<1>6. Max(T) \in T /\ \A y \in T : Max(T) >= y
  BY <1>5, Zenon DEF Max
<1>7. \A y \in T : y \in Nat
  OBVIOUS
<1>8. QED
  BY <1>6, <1>7, Zenon

(* A step of a long press stays in the range of the brightness.            *)
LEMMA NextClassType ==
  ASSUME LampAssumption, NEW up \in BOOLEAN, NEW b \in Bri
  PROVE  NextClass(up, b) \in Bri
<1>1. MaxBri \in Nat /\ MaxBri >= 1 /\ b \in 1..MaxBri /\ Classes \in SUBSET (0..MaxBri)
      /\ MaxBri \in Classes /\ Classes \in SUBSET Nat
  BY DEF LampAssumption, Bri
<1>2. ClassAbove(b) \in Int
  <2>1. CASE b < MaxBri
    <3> DEFINE T == {c \in Classes : c > b}
    <3>1. T \in SUBSET Nat /\ T # {}
      BY <1>1, <2>1
    <3>2. ClassAbove(b) = Min(T)
      BY <2>1, Zenon DEF ClassAbove
    <3> HIDE DEF T
    <3>3. Min(T) \in Nat
      BY <3>1, MinNat, Zenon
    <3>4. QED
      BY <3>2, <3>3
  <2>2. QED
    BY <1>1, <2>1 DEF ClassAbove
<1>3. ClassBelow(b) \in Int
  <2>1. CASE b > Min(Classes)
    <3> DEFINE T == {c \in Classes : c < b}
    <3>1. Min(Classes) \in Classes
      BY <1>1, MinNat
    <3>2. T \in SUBSET (0..MaxBri) /\ T # {}
      BY <1>1, <2>1, <3>1
    <3>3. ClassBelow(b) = Max(T)
      BY <2>1, Zenon DEF ClassBelow
    <3> HIDE DEF T
    <3>4. Max(T) \in Nat
      BY <1>1, <3>2, MaxNat, Zenon
    <3>5. QED
      BY <3>3, <3>4
  <2>2. QED
    BY <1>1, <2>1 DEF ClassBelow
<1>4. QED
  BY <1>1, <1>2, <1>3 DEF NextClass, Bri

-----------------------------------------------------------------------------
(* Updates of the records and of the places of the tasks.                  *)
LEMMA FlagsUpdate ==
  ASSUME NEW f \in FlagsType, NEW b \in BOOLEAN
  PROVE  /\ [f EXCEPT !.online = b] \in FlagsType /\ [f EXCEPT !.window = b] \in FlagsType
         /\ [f EXCEPT !.reset = b] \in FlagsType /\ [f EXCEPT !.up = b] \in FlagsType
         /\ [f EXCEPT !.need = b] \in FlagsType /\ [f EXCEPT !.lightNeed = b] \in FlagsType
BY DEF FlagsType

LEMMA ParamUpdate ==
  ASSUME NEW p \in Params, NEW v \in BOOLEAN, NEW b \in Bri
  PROVE  [p EXCEPT !.on = v] \in Params /\ [p EXCEPT !.bri = b] \in Params
BY DEF Params

LEMMA FadeAdjust ==
  ASSUME NEW f \in FadeType, NEW b \in BOOLEAN
  PROVE  [f EXCEPT !.adjusting = b] \in FadeType
BY DEF FadeType

LEMMA FadeLeft ==
  ASSUME NEW f \in FadeType, NEW n \in 0..FadeSteps
  PROVE  [f EXCEPT !.left = n] \in FadeType
BY DEF FadeType

LEMMA FadeAim ==
  ASSUME NEW f \in FadeType, NEW d \in Levels, NEW n \in 0..FadeSteps
  PROVE  [f EXCEPT !.dst = d, !.left = n] \in FadeType
BY DEF FadeType

LEMMA FlashCount ==
  ASSUME NEW f \in FlashType, NEW n \in 0..(Blinks + 1)
  PROVE  [f EXCEPT !.count = n] \in FlashType
BY DEF FlashType

LEMMA FlashOn ==
  ASSUME NEW f \in FlashType, NEW b \in BOOLEAN
  PROVE  [f EXCEPT !.on = b] \in FlashType
BY DEF FlashType

LEMMA FlashBegin ==
  ASSUME NEW f \in FlashType, NEW b \in BOOLEAN, NEW n \in 0..(Blinks + 1)
  PROVE  [f EXCEPT !.on = b, !.count = n] \in FlashType
BY DEF FlashType

LEMMA FlashDelay ==
  ASSUME NEW f \in FlashType, NEW w \in -1..(FlashPeriod - 1)
  PROVE  [f EXCEPT !.wait = w] \in FlashType
BY DEF FlashType

LEMMA SeenUpdate ==
  ASSUME seen \in [Tasks -> SeenType], NEW t \in Tasks, NEW p \in Params, NEW l \in Levels
  PROVE  /\ [seen EXCEPT ![t].param = p] \in [Tasks -> SeenType]
         /\ [seen EXCEPT ![t].level = l] \in [Tasks -> SeenType]
BY DEF SeenType

LEMMA LevelType ==
  ASSUME NEW p \in Params
  PROVE  Level(p) \in Levels
BY DEF Level, Levels, Params

LEMMA GoType ==
  ASSUME pc \in [Tasks -> Steps], NEW t \in Tasks, NEW s \in Steps, Go(t, s)
  PROVE  /\ pc' \in [Tasks -> Steps] /\ pc'[t] = s
         /\ \A u \in Tasks \ {t} : pc'[u] = pc[u]
BY DEF Go

LEMMA DoneType ==
  ASSUME LampAssumption, req \in [Tasks -> ReqType], seen \in [Tasks -> SeenType], NEW t \in Tasks, Done(t)
  PROVE  req' \in [Tasks -> ReqType] /\ seen' \in [Tasks -> SeenType] /\ req'[t].op = "none"
         /\ \A u \in Tasks \ {t} : req'[u] = req[u]
<1>1. NoReq \in ReqType /\ NoReq.op = "none"
  BY DEF NoReq, ReqType, Ops, Bri, LampAssumption
<1>2. Nothing \in SeenType
  BY DEF Nothing, SeenType, Params, Levels, Bri, LampAssumption
<1>3. QED
  BY <1>1, <1>2 DEF Done

LEMMA TypedIsTypeOK == Typed => TypeOK
BY DEF Typed, TypeOK, FlagsType, FadeType, FlashType, ReqType, SeenType, Where, Tasks

-----------------------------------------------------------------------------
(* The steps of a call, by any task.                                       *)
LEMMA WhereGo ==
  ASSUME Typed, NEW t \in Tasks, NEW s \in Where(t), Go(t, s)
  PROVE  /\ pc' \in [Tasks -> Steps] /\ \A u \in Tasks : pc'[u] \in Where(u)
         /\ pc'[t] = s /\ \A u \in Tasks \ {t} : pc'[u] = pc[u]
<1>1. s \in Steps /\ pc \in [Tasks -> Steps] /\ \A u \in Tasks : pc[u] \in Where(u)
  BY DEF Where, Steps, Tasks, Typed
<1>2. /\ pc' \in [Tasks -> Steps] /\ pc'[t] = s
      /\ \A u \in Tasks \ {t} : pc'[u] = pc[u]
  BY <1>1, GoType
<1>3. \A u \in Tasks : pc'[u] \in Where(u)
  BY <1>1, <1>2
<1>4. QED
  BY <1>2, <1>3

LEMMA CallKeepsBlinkInv ==
  ASSUME LampAssumption, BlinkInv, NEW t \in Tasks, Call(t)
  PROVE  BlinkInv'
<1>0. /\ Typed /\ BlinksToTheEnd /\ seen[t].param \in Params /\ seen[t].level \in Levels
      /\ req[t].on \in BOOLEAN /\ req[t].bri \in Bri /\ "lamp" \in Tasks
      /\ flash.count \in 0..(Blinks + 1)
  BY DEF BlinkInv, Typed, SeenType, ReqType, FlashType, Tasks
<1>a. ASSUME NEW s \in CallSteps \ {"check", "apply"}
      PROVE  s \in Where(t)
  BY DEF Where, CallSteps, Tasks, LampSteps, CloudSteps
<1>b. Return[t] \in Where(t) /\ (t = "lamp" => Return[t] \notin CallSteps) /\ Return[t] # "reboot"
  BY DEF Return, Where, Tasks, LampSteps, CloudSteps, CallSteps
<1>c. AfterSync(t) \in Where(t) /\ (t = "lamp" => AfterSync(t) \in CallSteps) /\ AfterSync(t) # "reboot"
  <2>1. t = "lamp" => AfterSync(t) = "aim"
    BY <1>0 DEF AfterSync, Typed
  <2>2. AfterSync(t) \in {"aim", "answer"} /\ t \in Tasks /\ (t = "key" => AfterSync(t) = "aim")
    BY <1>0 DEF AfterSync, Typed
  <2>3. QED
    BY <2>1, <2>2 DEF Where, Tasks, LampSteps, CloudSteps, CallSteps
<1>d. /\ {"sync", "compare", "raise", "aim", "start", "go"} \subseteq CallSteps \ {"check", "apply"}
      /\ \A s \in CallSteps : s # "reboot"
  BY DEF CallSteps
<1>1. CASE Check(t)
  <2>1. t # "lamp" /\ "apply" \in Where(t)
    BY <1>0, <1>1 DEF Check, At, Typed, Where, Tasks, CallSteps, LampSteps, CloudSteps
  <2>2. /\ pc' \in [Tasks -> Steps] /\ \A u \in Tasks : pc'[u] \in Where(u)
        /\ pc'["lamp"] = pc["lamp"]
    BY <1>0, <1>1, <1>b, <2>1, WhereGo DEF Check
  <2>3. req' \in [Tasks -> ReqType] /\ seen' \in [Tasks -> SeenType] /\ req'["lamp"].op = "none" /\ req'["key"].op # "login"
    BY <1>0, <1>1, <2>1, DoneType DEF Check, Keep, Typed
  <2>4. QED
    BY <1>0, <1>1, <2>2, <2>3 DEF Check, BlinkInv, Typed, BlinksToTheEnd, env
<1>2. CASE Apply(t)
  <2>1. t # "lamp" /\ "sync" \in Where(t)
    BY <1>0, <1>2 DEF Apply, At, Typed, Where, Tasks, CallSteps, LampSteps, CloudSteps
  <2>2. /\ pc' \in [Tasks -> Steps] /\ \A u \in Tasks : pc'[u] \in Where(u)
        /\ pc'["lamp"] = pc["lamp"]
    BY <1>0, <1>2, <2>1, WhereGo DEF Apply
  <2>3. lib' \in Params
    BY <1>0, <1>2, ParamUpdate DEF Apply, Typed
  <2>4. QED
    BY <1>0, <1>2, <2>2, <2>3 DEF Apply, BlinkInv, Typed, BlinksToTheEnd, env, Keep
<1>3. CASE Sync(t)
  <2>1. /\ pc' \in [Tasks -> Steps] /\ \A u \in Tasks : pc'[u] \in Where(u)
        /\ pc'["lamp"] \in CallSteps => pc["lamp"] \in CallSteps
        /\ pc'["lamp"] = "reboot" => pc["lamp"] = "reboot"
    BY <1>0, <1>3, <1>a, <1>d, WhereGo DEF Sync, At
  <2>2. seen' \in [Tasks -> SeenType]
    <3>1. Nothing.level \in Levels
      BY DEF Nothing, Levels
    <3>2. QED
      BY <1>0, <1>3, <3>1, SeenUpdate DEF Sync, Typed
  <2>3. QED
    BY <1>0, <1>3, <2>1, <2>2 DEF Sync, BlinkInv, Typed, BlinksToTheEnd, env
<1>4. CASE Compare(t)
  <2>1. /\ pc' \in [Tasks -> Steps] /\ \A u \in Tasks : pc'[u] \in Where(u)
        /\ pc'["lamp"] \in CallSteps => pc["lamp"] \in CallSteps
        /\ pc'["lamp"] = "reboot" => pc["lamp"] = "reboot"
    BY <1>0, <1>4, <1>a, <1>c, <1>d, WhereGo DEF Compare, At
  <2>2. flags' \in FlagsType
    BY <1>0, <1>4, FlagsUpdate DEF Compare, Typed
  <2>3. QED
    BY <1>0, <1>4, <2>1, <2>2 DEF Compare, BlinkInv, Typed, BlinksToTheEnd, env, Keep
<1>5. CASE Raise(t)
  <2>1. /\ pc' \in [Tasks -> Steps] /\ \A u \in Tasks : pc'[u] \in Where(u)
        /\ pc'["lamp"] \in CallSteps => pc["lamp"] \in CallSteps
        /\ pc'["lamp"] = "reboot" => pc["lamp"] = "reboot"
    BY <1>0, <1>5, <1>c, <1>d, WhereGo DEF Raise, At
  <2>2. flags' \in FlagsType
    BY <1>0, <1>5, FlagsUpdate DEF Raise, Typed
  <2>3. QED
    BY <1>0, <1>5, <2>1, <2>2 DEF Raise, BlinkInv, Typed, BlinksToTheEnd, env, Keep
<1>6. CASE Aim(t)
  <2>1. /\ pc' \in [Tasks -> Steps] /\ \A u \in Tasks : pc'[u] \in Where(u)
        /\ pc'["lamp"] \in CallSteps => pc["lamp"] \in CallSteps
        /\ pc'["lamp"] = "reboot" => pc["lamp"] = "reboot"
    BY <1>0, <1>6, <1>a, <1>d, WhereGo DEF Aim, At
  <2>2. seen' \in [Tasks -> SeenType]
    <3>1. Level(lib) \in Levels
      BY <1>0, LevelType DEF Typed
    <3>2. QED
      BY <1>0, <1>6, <3>1, SeenUpdate DEF Aim, Typed
  <2>3. QED
    BY <1>0, <1>6, <2>1, <2>2 DEF Aim, BlinkInv, Typed, BlinksToTheEnd, env
<1>7. CASE StartFade(t)
  <2>1. /\ pc' \in [Tasks -> Steps] /\ \A u \in Tasks : pc'[u] \in Where(u)
        /\ pc'["lamp"] \in CallSteps => pc["lamp"] \in CallSteps
        /\ pc'["lamp"] = "reboot" => pc["lamp"] = "reboot"
    BY <1>0, <1>7, <1>a, <1>d, WhereGo DEF StartFade, At
  <2>2. fade' \in FadeType
    <3>1. FadeSteps \in 0..FadeSteps
      BY DEF LampAssumption
    <3>2. QED
      BY <1>0, <1>7, <3>1, FadeAim DEF StartFade, Typed
  <2>3. QED
    BY <1>0, <1>7, <2>1, <2>2 DEF StartFade, BlinkInv, Typed, BlinksToTheEnd, env, Keep
<1>8. CASE GoFade(t)
  <2>1. /\ pc' \in [Tasks -> Steps] /\ \A u \in Tasks : pc'[u] \in Where(u)
        /\ pc'["lamp"] \in CallSteps => pc["lamp"] \in CallSteps /\ t # "lamp"
        /\ pc'["lamp"] = "reboot" => pc["lamp"] = "reboot" /\ t # "lamp"
    BY <1>0, <1>8, <1>b, <1>d, WhereGo DEF GoFade, At
  <2>2. fade' \in FadeType
    <3>1. TRUE \in BOOLEAN /\ fade' = [fade EXCEPT !.adjusting = TRUE] /\ fade \in FadeType
      BY <1>0, <1>8, Zenon DEF GoFade, Typed
    <3>2. QED
      BY <3>1, FadeAdjust, Zenon
  <2>3. /\ flash' \in FlashType /\ flash'.on = flash.on
        /\ t = "lamp" => flash.count > 0 /\ flash'.count = flash.count - 1
        /\ t # "lamp" => flash'.count = flash.count
    <3>1. t = "lamp" => flash.count > 0
      BY <1>0, <1>8, <1>d DEF GoFade, At, Typed
    <3>2. CASE t = "lamp"
      <4>1. flash.count - 1 \in 0..(Blinks + 1)
        BY <1>0, <3>1, <3>2 DEF LampAssumption
      <4>2. flash' = [flash EXCEPT !.count = flash.count - 1]
        BY <1>8, <3>2, Zenon DEF GoFade
      <4>3. flash' \in FlashType
        BY <1>0, <4>1, <4>2, FlashCount DEF Typed
      <4>4. flash'.count = flash.count - 1 /\ flash'.on = flash.on
        BY <1>0, <4>2 DEF Typed, FlashType
      <4>5. QED
        BY <3>1, <3>2, <4>3, <4>4
    <3>3. CASE t # "lamp"
      BY <1>0, <1>8, <3>3 DEF GoFade, Typed
    <3>4. QED
      BY <3>2, <3>3
  <2>4. req' \in [Tasks -> ReqType] /\ seen' \in [Tasks -> SeenType] /\ req'["lamp"].op = "none" /\ req'["key"].op # "login"
    <3>1. CASE t = "cloud"
      BY <1>0, <1>8, <3>1 DEF GoFade, Keep, Typed
    <3>2. CASE t # "cloud"
      <4>1. Done(t) /\ req["key"].op # "login" /\ req["lamp"].op = "none"
        BY <1>0, <1>8, <3>2 DEF GoFade, Typed
      <4>2. QED
        BY <1>0, <3>2, <4>1, DoneType DEF Typed, Tasks
    <3>3. QED
      BY <3>1, <3>2
  <2>5. Typed'
    <3>1. UNCHANGED <<app, lib, light, view, flags, out, delay, held, deleted>>
      BY <1>8, Zenon DEF GoFade, env
    <3>2. QED
      BY <1>0, <2>1, <2>2, <2>3, <2>4, <3>1 DEF Typed
  <2>6. BlinksToTheEnd'
    BY <1>0, <2>1, <2>3 DEF BlinksToTheEnd
  <2>7. QED
    BY <2>5, <2>6 DEF BlinkInv
<1>9. QED
  BY <1>1, <1>2, <1>3, <1>4, <1>5, <1>6, <1>7, <1>8 DEF Call

(* The state after a boot.                                                 *)
LEMMA BootTypes ==
  ASSUME LampAssumption
  PROVE  /\ DefaultParam \in Params /\ BootFlags \in FlagsType /\ BootFade \in FadeType
         /\ BootFlash \in FlashType /\ BootFlash.count = 0
         /\ NoReq \in ReqType /\ NoReq.op = "none" /\ Nothing \in SeenType
         /\ Rest \in [Tasks -> Steps] /\ \A t \in Tasks : Rest[t] \in Where(t)
         /\ Rest["lamp"] = "loop" /\ "loop" \notin CallSteps
         /\ 0 \in Levels \cup {Between} /\ 0 \in 0..ReportDelay /\ 0 \in 0..(ResetHold + 2)
<1>1. DefaultParam \in Params
  BY DEF DefaultParam, Params, Bri, LampAssumption
<1>2. BootFlags \in FlagsType /\ BootFade \in FadeType
  BY DEF BootFlags, FlagsType, BootFade, FadeType, Levels, LampAssumption
<1>3. BootFlash \in FlashType /\ BootFlash.count = 0
  BY DEF BootFlash, FlashType, LampAssumption
<1>4. NoReq \in ReqType /\ NoReq.op = "none" /\ Nothing \in SeenType
  BY DEF NoReq, ReqType, Ops, Bri, Nothing, SeenType, Params, Levels, LampAssumption
<1>5. /\ Rest \in [Tasks -> Steps] /\ \A t \in Tasks : Rest[t] \in Where(t)
      /\ Rest["lamp"] = "loop" /\ "loop" \notin CallSteps
  BY DEF Rest, Tasks, Steps, Where, LampSteps, CloudSteps, CallSteps
<1>6. /\ 0 \in Levels \cup {Between} /\ 0 \in 0..ReportDelay /\ 0 \in 0..(ResetHold + 2)
  BY DEF Levels, LampAssumption
<1>7. QED
  BY <1>1, <1>2, <1>3, <1>4, <1>5, <1>6

LEMMA InitBlinkInv ==
  ASSUME LampAssumption, Init
  PROVE  BlinkInv
<1>1. /\ req \in [Tasks -> ReqType] /\ req["lamp"].op = "none" /\ req["key"].op # "login"
      /\ seen \in [Tasks -> SeenType]
  BY BootTypes DEF Init, Tasks
<1>2. Typed
  BY <1>1, BootTypes DEF Init, Typed
<1>3. QED
  BY <1>2, BootTypes DEF Init, BlinkInv, BlinksToTheEnd

LEMMA RebootBlinkInv ==
  ASSUME LampAssumption, Reboot, view' \in Params
  PROVE  BlinkInv'
<1>1. /\ req' \in [Tasks -> ReqType] /\ req'["lamp"].op = "none" /\ req'["key"].op # "login"
      /\ seen' \in [Tasks -> SeenType]
  BY BootTypes DEF Reboot, Tasks
<1>2. Typed'
  BY <1>1, BootTypes DEF Reboot, Typed
<1>3. QED
  BY <1>2, BootTypes DEF Reboot, BlinkInv, BlinksToTheEnd

(* The rounds of the lamp task.                                            *)
LEMMA LampKeepsBlinkInv ==
  ASSUME LampAssumption, BlinkInv, LampTask
  PROVE  BlinkInv'
<1>0. /\ Typed /\ BlinksToTheEnd /\ "lamp" \in Tasks
      /\ flash \in FlashType /\ flash.count \in 0..(Blinks + 1) /\ flash.on \in BOOLEAN
      /\ flash.wait \in -1..(FlashPeriod - 1)
      /\ fade \in FadeType /\ fade.dst \in Levels /\ fade.left \in 0..FadeSteps
      /\ flags \in FlagsType /\ TRUE \in BOOLEAN /\ FALSE \in BOOLEAN
  BY DEF BlinkInv, Typed, FlashType, FadeType, Tasks
<1>a. {"step", "stepEnd", "report", "link", "send", "reset", "reboot", "loop", "sync"} \subseteq Where("lamp")
  BY DEF Where, LampSteps, CallSteps
<1>b. /\ {"step", "stepEnd", "report", "link", "send", "reset", "reboot", "loop"} \cap CallSteps = {}
      /\ "sync" \in CallSteps
  BY DEF CallSteps
<1>1. CASE FlashIdle
  <2>1. pc' \in [Tasks -> Steps] /\ (\A u \in Tasks : pc'[u] \in Where(u)) /\ pc'["lamp"] = "step"
    BY <1>0, <1>1, <1>a, WhereGo DEF FlashIdle
  <2>2. flash' \in FlashType /\ flash'.count = flash.count /\ flash'.on = flash.on
    <3>1. -1 \in -1..(FlashPeriod - 1) /\ flash' = [flash EXCEPT !.wait = -1]
      BY <1>1 DEF FlashIdle, LampAssumption
    <3>2. flash' \in FlashType
      BY <1>0, <3>1, FlashDelay
    <3>3. QED
      BY <1>0, <3>1, <3>2 DEF FlashType
  <2>3. QED
    BY <1>0, <1>1, <1>b, <2>1, <2>2 DEF FlashIdle, BlinkInv, Typed, BlinksToTheEnd, env, Keep
<1>2. CASE FlashWait
  <2>1. pc' \in [Tasks -> Steps] /\ (\A u \in Tasks : pc'[u] \in Where(u)) /\ pc'["lamp"] = "step"
    BY <1>0, <1>2, <1>a, WhereGo DEF FlashWait
  <2>2. flash' \in FlashType /\ flash'.count = flash.count /\ flash'.on = flash.on
    <3>1. flash' = [flash EXCEPT !.wait = flash.wait + 1]
      BY <1>2, Zenon DEF FlashWait
    <3>2. flash.wait + 1 \in -1..(FlashPeriod - 1)
      BY <1>0, <1>2 DEF FlashWait, LampAssumption
    <3>3. flash' \in FlashType
      BY <1>0, <3>1, <3>2, FlashDelay
    <3>4. QED
      BY <1>0, <3>1, <3>3 DEF FlashType
  <2>3. QED
    BY <1>0, <1>2, <1>b, <2>1, <2>2 DEF FlashWait, BlinkInv, Typed, BlinksToTheEnd, env, Keep
<1>3. CASE FlashToggle
  <2>1. pc' \in [Tasks -> Steps] /\ (\A u \in Tasks : pc'[u] \in Where(u)) /\ pc'["lamp"] = "sync"
    BY <1>0, <1>3, <1>a, WhereGo DEF FlashToggle
  <2>2. flash' \in FlashType /\ flash'.count = flash.count /\ flash'.on = flash.on
    <3>1. 0 \in -1..(FlashPeriod - 1) /\ flash' = [flash EXCEPT !.wait = 0]
      BY <1>3 DEF FlashToggle, LampAssumption
    <3>2. flash' \in FlashType
      BY <1>0, <3>1, FlashDelay
    <3>3. QED
      BY <1>0, <3>1, <3>2 DEF FlashType
  <2>3. lib' \in Params
    <3>1. lib.on \in BOOLEAN /\ lib.bri \in Bri /\ (~lib.on) \in BOOLEAN /\ lib \in Params
      BY <1>0 DEF Typed, Params
    <3>2. lib' = [lib EXCEPT !.on = ~lib.on]
      BY <1>3, Zenon DEF FlashToggle
    <3>3. QED
      BY <3>1, <3>2, ParamUpdate, Zenon
  <2>4. flash.count > 0
    BY <1>3 DEF FlashToggle
  <2>5. QED
    BY <1>0, <1>3, <1>b, <2>1, <2>2, <2>3, <2>4 DEF FlashToggle, BlinkInv, Typed, BlinksToTheEnd, env, Keep
<1>4. CASE StepIdle
  <2>1. pc' \in [Tasks -> Steps] /\ (\A u \in Tasks : pc'[u] \in Where(u)) /\ pc'["lamp"] = "report"
    BY <1>0, <1>4, <1>a, WhereGo DEF StepIdle
  <2>2. QED
    BY <1>0, <1>4, <1>b, <2>1 DEF StepIdle, BlinkInv, Typed, BlinksToTheEnd, env, Keep
<1>5. CASE StepInside
  <2>1. pc' \in [Tasks -> Steps] /\ (\A u \in Tasks : pc'[u] \in Where(u)) /\ pc'["lamp"] = "report"
    BY <1>0, <1>5, <1>a, WhereGo DEF StepInside
  <2>2. fade' \in FadeType
    <3>1. fade' = [fade EXCEPT !.left = fade.left - 1]
      BY <1>5, Zenon DEF StepInside
    <3>2. fade.left - 1 \in 0..FadeSteps
      BY <1>0, <1>5 DEF StepInside, LampAssumption
    <3>3. QED
      BY <1>0, <3>1, <3>2, FadeLeft, Zenon
  <2>3. out' \in Levels \cup {Between}
    BY <1>0, <1>5 DEF StepInside, Typed
  <2>4. QED
    BY <1>0, <1>5, <1>b, <2>1, <2>2, <2>3 DEF StepInside, BlinkInv, Typed, BlinksToTheEnd, env, Keep
<1>6. CASE StepLast
  <2>1. pc' \in [Tasks -> Steps] /\ (\A u \in Tasks : pc'[u] \in Where(u)) /\ pc'["lamp"] = "stepEnd"
    BY <1>0, <1>6, <1>a, WhereGo DEF StepLast
  <2>2. fade' \in FadeType
    <3>1. fade' = [fade EXCEPT !.left = 0] /\ 0 \in 0..FadeSteps
      BY <1>6 DEF StepLast, LampAssumption
    <3>2. QED
      BY <1>0, <3>1, FadeLeft, Zenon
  <2>3. out' \in Levels \cup {Between}
    BY <1>0, <1>6 DEF StepLast
  <2>4. QED
    BY <1>0, <1>6, <1>b, <2>1, <2>2, <2>3 DEF StepLast, BlinkInv, Typed, BlinksToTheEnd, env, Keep
<1>7. CASE StepEnd
  <2>1. /\ pc' \in [Tasks -> Steps] /\ \A u \in Tasks : pc'[u] \in Where(u)
        /\ pc'["lamp"] = IF BlinkingOver THEN "reboot" ELSE "report"
    BY <1>0, <1>7, <1>a, WhereGo DEF StepEnd
  <2>2. fade' \in FadeType
    <3>1. fade' = [fade EXCEPT !.adjusting = FALSE]
      BY <1>7, Zenon DEF StepEnd
    <3>2. QED
      BY <1>0, <3>1, FadeAdjust, Zenon
  <2>3. /\ flash' \in FlashType /\ flash'.count = flash.count
        /\ (~BlinkingOver => flash'.on = flash.on)
    <3>1. CASE BlinkingOver
      <4>1. flash' = [flash EXCEPT !.on = FALSE]
        BY <1>7, <3>1, Zenon DEF StepEnd
      <4>2. flash' \in FlashType
        BY <1>0, <4>1, FlashOn, Zenon
      <4>3. QED
        BY <1>0, <3>1, <4>1, <4>2 DEF FlashType
    <3>2. CASE ~BlinkingOver
      BY <1>0, <1>7, <3>2 DEF StepEnd
    <3>3. QED
      BY <3>1, <3>2
  <2>4. BlinksToTheEnd'
    BY <1>0, <2>1, <2>3 DEF BlinksToTheEnd, BlinkingOver
  <2>5. Typed'
    BY <1>0, <1>7, <1>b, <2>1, <2>2, <2>3 DEF StepEnd, Typed, env, Keep
  <2>6. QED
    BY <2>4, <2>5 DEF BlinkInv
<1>8. CASE ReportWait
  <2>1. pc' \in [Tasks -> Steps] /\ (\A u \in Tasks : pc'[u] \in Where(u)) /\ pc'["lamp"] = "reset"
    BY <1>0, <1>8, <1>a, WhereGo DEF ReportWait
  <2>2. delay' \in 0..ReportDelay
    BY <1>0, <1>8 DEF ReportWait, Waited, LampAssumption, Typed
  <2>3. QED
    BY <1>0, <1>8, <1>b, <2>1, <2>2 DEF ReportWait, BlinkInv, Typed, BlinksToTheEnd, env, Keep
<1>9. CASE ReportTake
  <2>1. pc' \in [Tasks -> Steps] /\ (\A u \in Tasks : pc'[u] \in Where(u)) /\ pc'["lamp"] = "link"
    BY <1>0, <1>9, <1>a, WhereGo DEF ReportTake
  <2>2. delay' \in 0..ReportDelay
    BY <1>9 DEF ReportTake, LampAssumption
  <2>3. flags' \in FlagsType
    BY <1>0, <1>9, FlagsUpdate DEF ReportTake
  <2>4. QED
    BY <1>0, <1>9, <1>b, <2>1, <2>2, <2>3 DEF ReportTake, BlinkInv, Typed, BlinksToTheEnd, env, Keep
<1>10. CASE ReportLink
  <2>1. pc' \in [Tasks -> Steps] /\ (\A u \in Tasks : pc'[u] \in Where(u)) /\ pc'["lamp"] \in {"send", "reset"}
    BY <1>0, <1>10, <1>a, WhereGo DEF ReportLink
  <2>2. flags' \in FlagsType
    BY <1>0, <1>10, FlagsUpdate DEF ReportLink
  <2>3. QED
    BY <1>0, <1>10, <1>b, <2>1, <2>2 DEF ReportLink, BlinkInv, Typed, BlinksToTheEnd, env, Keep
<1>11. CASE ReportSend
  <2>1. pc' \in [Tasks -> Steps] /\ (\A u \in Tasks : pc'[u] \in Where(u)) /\ pc'["lamp"] = "reset"
    BY <1>0, <1>11, <1>a, WhereGo DEF ReportSend
  <2>2. QED
    BY <1>0, <1>11, <1>b, <2>1 DEF ReportSend, BlinkInv, Typed, BlinksToTheEnd, env, Keep
<1>12. CASE TakeReset
  <2>1. pc' \in [Tasks -> Steps] /\ (\A u \in Tasks : pc'[u] \in Where(u)) /\ pc'["lamp"] = "loop"
    BY <1>0, <1>12, <1>a, WhereGo DEF TakeReset
  <2>2. flags' \in FlagsType
    BY <1>0, <1>12, FlagsUpdate DEF TakeReset
  <2>3. flash' \in FlashType /\ (flash' = flash \/ flash'.on)
    <3>1. CASE flags.reset
      <4> DEFINE n == IF flash.on THEN Blinks + (flash.count % 2) ELSE Blinks
      <4>1. flash' = [flash EXCEPT !.on = TRUE, !.count = n]
        BY <1>12, <3>1, Zenon DEF TakeReset
      <4>2. n \in 0..(Blinks + 1)
        BY <1>0 DEF LampAssumption
      <4> HIDE DEF n
      <4>3. flash' \in FlashType
        BY <1>0, <4>1, <4>2, FlashBegin, Zenon
      <4>4. flash'.on
        BY <1>0, <4>1 DEF FlashType
      <4>5. QED
        BY <4>3, <4>4
    <3>2. CASE ~flags.reset
      BY <1>0, <1>12, <3>2 DEF TakeReset
    <3>3. QED
      BY <3>1, <3>2
  <2>4. BlinksToTheEnd'
    BY <1>0, <2>1, <2>3 DEF BlinksToTheEnd
  <2>5. Typed'
    BY <1>0, <1>12, <1>b, <2>1, <2>2, <2>3 DEF TakeReset, Typed, env, Keep
  <2>6. QED
    BY <2>4, <2>5 DEF BlinkInv
<1>13. CASE Reboot
  <2>1. view' \in Params
    BY <1>0, <1>13 DEF Reboot, Typed
  <2>2. QED
    BY <1>13, <2>1, RebootBlinkInv
<1>14. QED
  BY <1>0, <1>1, <1>2, <1>3, <1>4, <1>5, <1>6, <1>7, <1>8, <1>9, <1>10, <1>11, <1>12, <1>13,
     CallKeepsBlinkInv DEF LampTask
(* The callbacks of the key and of the SDK.  A call of these tasks leaves  *)
(* the lamp task where it stands.                                          *)
LEMMA BeginType ==
  ASSUME Typed, NEW t \in {"key", "cloud"}, NEW op \in Ops, NEW on \in BOOLEAN, NEW b \in Bri,
         NEW step \in Where(t), t = "key" => op # "login", Begin(t, op, on, b, step)
  PROVE  /\ pc' \in [Tasks -> Steps] /\ \A u \in Tasks : pc'[u] \in Where(u)
         /\ pc'["lamp"] = pc["lamp"]
         /\ req' \in [Tasks -> ReqType] /\ req'["lamp"].op = "none" /\ req'["key"].op # "login"
         /\ seen' \in [Tasks -> SeenType]
<1>1. t \in Tasks /\ t # "lamp" /\ "lamp" \in Tasks /\ Go(t, step) /\ seen' = seen
  BY Zenon DEF Tasks, Begin
<1>2. [op |-> op, on |-> on, bri |-> b] \in ReqType
  BY DEF ReqType
<1>3. /\ pc' \in [Tasks -> Steps] /\ \A u \in Tasks : pc'[u] \in Where(u)
      /\ pc'["lamp"] = pc["lamp"]
  BY <1>1, WhereGo
<1>4. req' \in [Tasks -> ReqType] /\ req'["lamp"].op = "none" /\ req'["key"].op # "login"
  BY <1>1, <1>2 DEF Begin, Typed, Tasks
<1>5. QED
  BY <1>1, <1>3, <1>4 DEF Typed

LEMMA KeyKeepsBlinkInv ==
  ASSUME LampAssumption, BlinkInv, KeyInput
  PROVE  BlinkInv'
<1>0. /\ Typed /\ BlinksToTheEnd /\ app \in Params /\ app.on \in BOOLEAN /\ app.bri \in Bri
      /\ (~app.on) \in BOOLEAN /\ FALSE \in BOOLEAN
      /\ flags \in FlagsType /\ flags.up \in BOOLEAN /\ flags.reset \in BOOLEAN /\ 1 \in Bri
      /\ {"switch", "bri"} \subseteq Ops /\ "key" \in {"key", "cloud"} /\ "check" \in Where("key")
  <2>1. /\ Typed /\ BlinksToTheEnd /\ app \in Params /\ flags \in FlagsType
    BY DEF BlinkInv, Typed
  <2>2. app.on \in BOOLEAN /\ app.bri \in Bri /\ (~app.on) \in BOOLEAN /\ FALSE \in BOOLEAN
    BY <2>1 DEF Params
  <2>3. flags.up \in BOOLEAN /\ flags.reset \in BOOLEAN
    BY <2>1 DEF FlagsType
  <2>4. 1 \in Bri
    BY DEF Bri, LampAssumption
  <2>5. {"switch", "bri"} \subseteq Ops /\ "key" \in {"key", "cloud"} /\ "check" \in Where("key")
    BY DEF Ops, Where, CallSteps
  <2>6. QED
    BY <2>1, <2>2, <2>3, <2>4, <2>5
<1>a. ASSUME SwitchRevert
      PROVE  /\ app' \in Params
             /\ pc' \in [Tasks -> Steps] /\ \A u \in Tasks : pc'[u] \in Where(u)
             /\ pc'["lamp"] = pc["lamp"]
             /\ req' \in [Tasks -> ReqType] /\ req'["lamp"].op = "none" /\ req'["key"].op # "login"
             /\ seen' \in [Tasks -> SeenType]
  <2>1. app' = [app EXCEPT !.on = ~app.on] /\ Begin("key", "switch", ~app.on, 1, "check")
    BY <1>a, Zenon DEF SwitchRevert
  <2>2. app' \in Params
    BY <1>0, <2>1, ParamUpdate, Zenon
  <2>3. QED
    BY <1>0, <2>1, <2>2, BeginType
<1>b. ASSUME HoldLonger
      PROVE  held' \in 0..(ResetHold + 2)
  BY <1>0, <1>b DEF HoldLonger, Typed, LampAssumption
<1>1. CASE ShortRelease
  BY <1>0, <1>1, <1>a DEF ShortRelease, BlinkInv, Typed, BlinksToTheEnd, env
<1>2. CASE LongPressDims
  <2> DEFINE up == IF held = 0 THEN ~flags.up ELSE flags.up
             bri == NextClass(up, app.bri)
  <2>1. up \in BOOLEAN
    BY <1>0
  <2>2. /\ flags' = [flags EXCEPT !.up = up] /\ app' = [app EXCEPT !.bri = bri]
        /\ IF bri # app.bri THEN Begin("key", "bri", FALSE, bri, "check") ELSE UNCHANGED pc /\ Keep
    BY <1>2, Zenon DEF LongPressDims
  <2>3. UNCHANGED <<lib, light, view, fade, out, flash, delay, deleted>> /\ HoldLonger
    BY <1>2 DEF LongPressDims
  <2> HIDE DEF up
  <2>4. bri \in Bri
    BY <1>0, <2>1, NextClassType
  <2> HIDE DEF bri
  <2>5. flags' \in FlagsType /\ app' \in Params
    <3>1. [flags EXCEPT !.up = up] \in FlagsType
      BY <1>0, <2>1, FlagsUpdate, Zenon
    <3>2. [app EXCEPT !.bri = bri] \in Params
      BY <1>0, <2>4, ParamUpdate, Zenon
    <3>3. QED
      BY <2>2, <3>1, <3>2
  <2>6. /\ pc' \in [Tasks -> Steps] /\ \A u \in Tasks : pc'[u] \in Where(u)
        /\ pc'["lamp"] = pc["lamp"]
        /\ req' \in [Tasks -> ReqType] /\ req'["lamp"].op = "none" /\ req'["key"].op # "login"
        /\ seen' \in [Tasks -> SeenType]
    <3>1. CASE Begin("key", "bri", FALSE, bri, "check")
      BY <1>0, <2>4, <3>1, BeginType
    <3>2. CASE UNCHANGED pc /\ Keep
      BY <1>0, <3>2 DEF Typed, Keep
    <3>3. QED
      BY <2>2, <3>1, <3>2
  <2>7. QED
    BY <1>0, <1>b, <2>3, <2>5, <2>6 DEF BlinkInv, Typed, BlinksToTheEnd
<1>3. CASE LongPressResets
  <2> DEFINE r == flags.reset \/ (held = ResetHold /\ flags.window)
  <2>1. r \in BOOLEAN
    BY <1>0 DEF FlagsType
  <2>a. flags' = [flags EXCEPT !.reset = r]
    BY <1>3, Zenon DEF LongPressResets
  <2> HIDE DEF r
  <2>2. flags' \in FlagsType
    <3>1. [flags EXCEPT !.reset = r] \in FlagsType
      BY <1>0, <2>1, FlagsUpdate, Zenon
    <3>2. QED
      BY <2>a, <3>1
  <2>3. QED
    BY <1>0, <1>3, <1>b, <2>2 DEF LongPressResets, BlinkInv, Typed, BlinksToTheEnd, Keep
<1>4. CASE LongRelease
  <2>1. held' \in 0..(ResetHold + 2)
    BY <1>4 DEF LongRelease, LampAssumption
  <2>2. /\ app' \in Params
        /\ pc' \in [Tasks -> Steps] /\ \A u \in Tasks : pc'[u] \in Where(u)
        /\ pc'["lamp"] = pc["lamp"]
        /\ req' \in [Tasks -> ReqType] /\ req'["lamp"].op = "none" /\ req'["key"].op # "login"
        /\ seen' \in [Tasks -> SeenType]
    <3>1. CASE SwitchRevert
      BY <3>1, <1>a
    <3>2. CASE UNCHANGED <<app, pc>> /\ Keep
      BY <1>0, <3>2 DEF Typed, Keep
    <3>3. QED
      BY <1>4, <3>1, <3>2 DEF LongRelease
  <2>3. QED
    BY <1>0, <1>4, <2>1, <2>2 DEF LongRelease, BlinkInv, Typed, BlinksToTheEnd
<1>5. QED
  BY <1>1, <1>2, <1>3, <1>4 DEF KeyInput
LEMMA CloudKeepsBlinkInv ==
  ASSUME LampAssumption, BlinkInv, CloudInput \/ Toggle \/ AssignBri \/ Login \/ Answer
  PROVE  BlinkInv'
<1>0. /\ Typed /\ BlinksToTheEnd /\ TRUE \in BOOLEAN /\ FALSE \in BOOLEAN /\ 1 \in Bri
      /\ {"onoff", "bri", "mode", "login"} \subseteq Ops /\ "cloud" \in {"key", "cloud"}
      /\ {"toggle", "check", "assign", "login", "idle", "sync"} \subseteq Where("cloud")
      /\ "cloud" \in Tasks /\ "lamp" \in Tasks
  <2>1. Typed /\ BlinksToTheEnd /\ TRUE \in BOOLEAN /\ FALSE \in BOOLEAN /\ 1 \in Bri
    BY DEF BlinkInv, Bri, LampAssumption
  <2>2. /\ {"onoff", "bri", "mode", "login"} \subseteq Ops /\ "cloud" \in {"key", "cloud"}
        /\ {"toggle", "check", "assign", "login", "idle", "sync"} \subseteq Where("cloud")
        /\ "cloud" \in Tasks /\ "lamp" \in Tasks
    BY DEF Ops, Where, CallSteps, CloudSteps, Tasks
  <2>3. QED
    BY <2>1, <2>2
<1>a. /\ app \in Params /\ app.on \in BOOLEAN /\ (~app.on) \in BOOLEAN
      /\ light \in Params /\ flags \in FlagsType
      /\ req["cloud"].bri \in Bri
  BY <1>0 DEF Typed, Params, ReqType
<1>1. ASSUME NEW v \in BOOLEAN, SetLightOnoff(v)
      PROVE  BlinkInv'
  <2>1. light' \in Params
    <3>1. light' = [light EXCEPT !.on = v]
      BY <1>1, Zenon DEF SetLightOnoff
    <3>2. QED
      BY <1>0, <1>a, <3>1, ParamUpdate
  <2>2. /\ pc' \in [Tasks -> Steps] /\ \A u \in Tasks : pc'[u] \in Where(u)
        /\ pc'["lamp"] = pc["lamp"]
        /\ req' \in [Tasks -> ReqType] /\ req'["lamp"].op = "none" /\ req'["key"].op # "login"
        /\ seen' \in [Tasks -> SeenType]
    BY <1>0, <1>1, BeginType DEF SetLightOnoff
  <2>3. QED
    BY <1>0, <1>1, <2>1, <2>2 DEF SetLightOnoff, BlinkInv, Typed, BlinksToTheEnd, env
<1>2. ASSUME NEW b \in Bri, SetBrightness(b)
      PROVE  BlinkInv'
  <2>1. light' \in Params
    <3>1. light' = [light EXCEPT !.bri = b]
      BY <1>2, Zenon DEF SetBrightness
    <3>2. QED
      BY <1>0, <1>a, <3>1, ParamUpdate
  <2>2. /\ pc' \in [Tasks -> Steps] /\ \A u \in Tasks : pc'[u] \in Where(u)
        /\ pc'["lamp"] = pc["lamp"]
        /\ req' \in [Tasks -> ReqType] /\ req'["lamp"].op = "none" /\ req'["key"].op # "login"
        /\ seen' \in [Tasks -> SeenType]
    BY <1>0, <1>2, BeginType DEF SetBrightness
  <2>3. QED
    BY <1>0, <1>2, <2>1, <2>2 DEF SetBrightness, BlinkInv, Typed, BlinksToTheEnd, env
<1>3. ASSUME NEW b \in Bri, SetMode(b)
      PROVE  BlinkInv'
  <2>1. /\ pc' \in [Tasks -> Steps] /\ \A u \in Tasks : pc'[u] \in Where(u)
        /\ pc'["lamp"] = pc["lamp"]
        /\ req' \in [Tasks -> ReqType] /\ req'["lamp"].op = "none" /\ req'["key"].op # "login"
        /\ seen' \in [Tasks -> SeenType]
    BY <1>0, <1>3, BeginType DEF SetMode
  <2>2. QED
    BY <1>0, <1>3, <2>1 DEF SetMode, BlinkInv, Typed, BlinksToTheEnd, env
<1>4. CASE Upload
  <2>1. /\ pc' \in [Tasks -> Steps] /\ \A u \in Tasks : pc'[u] \in Where(u)
        /\ pc'["lamp"] = pc["lamp"]
        /\ req' \in [Tasks -> ReqType] /\ req'["lamp"].op = "none" /\ req'["key"].op # "login"
        /\ seen' \in [Tasks -> SeenType]
    BY <1>0, <1>4, BeginType DEF Upload
  <2>2. QED
    BY <1>0, <1>4, <2>1 DEF Upload, BlinkInv, Typed, BlinksToTheEnd, env
<1>5. CASE Offline
  <2>1. flags' \in FlagsType
    BY <1>0, <1>a, <1>5, FlagsUpdate DEF Offline
  <2>2. QED
    BY <1>0, <1>5, <2>1 DEF Offline, BlinkInv, Typed, BlinksToTheEnd, env, Keep
<1>6. CASE Delete
  <2>1. flags' \in FlagsType /\ deleted' \in BOOLEAN
    BY <1>0, <1>a, <1>6, FlagsUpdate DEF Delete
  <2>2. QED
    BY <1>0, <1>6, <2>1 DEF Delete, BlinkInv, Typed, BlinksToTheEnd, Keep
<1>7. CASE Toggle
  <2>1. app' \in Params
    <3>1. app' = [app EXCEPT !.on = ~app.on] /\ 1 \in Bri
      BY <1>0, <1>7, Zenon DEF Toggle
    <3>2. QED
      BY <1>a, <3>1, ParamUpdate, Zenon
  <2>2. /\ pc' \in [Tasks -> Steps] /\ \A u \in Tasks : pc'[u] \in Where(u)
        /\ pc'["lamp"] = pc["lamp"]
        /\ req' \in [Tasks -> ReqType] /\ req'["lamp"].op = "none" /\ req'["key"].op # "login"
        /\ seen' \in [Tasks -> SeenType]
    BY <1>0, <1>a, <1>7, BeginType DEF Toggle
  <2>3. QED
    BY <1>0, <1>7, <2>1, <2>2 DEF Toggle, BlinkInv, Typed, BlinksToTheEnd, env
<1>8. CASE AssignBri
  <2>1. app' \in Params
    <3>1. app' = [app EXCEPT !.bri = req["cloud"].bri]
      BY <1>8, Zenon DEF AssignBri
    <3>2. QED
      BY <1>0, <1>a, <3>1, ParamUpdate
  <2>2. /\ pc' \in [Tasks -> Steps] /\ \A u \in Tasks : pc'[u] \in Where(u)
        /\ pc'["lamp"] = pc["lamp"]
    BY <1>0, <1>8, WhereGo DEF AssignBri
  <2>3. QED
    BY <1>0, <1>8, <2>1, <2>2 DEF AssignBri, BlinkInv, Typed, BlinksToTheEnd, env, Keep
<1>9. CASE Login
  <2>1. flags' \in FlagsType
    BY <1>0, <1>a, <1>9, FlagsUpdate DEF Login
  <2>2. /\ pc' \in [Tasks -> Steps] /\ \A u \in Tasks : pc'[u] \in Where(u)
        /\ pc'["lamp"] = pc["lamp"]
    BY <1>0, <1>9, WhereGo DEF Login
  <2>3. QED
    BY <1>0, <1>9, <2>1, <2>2 DEF Login, BlinkInv, Typed, BlinksToTheEnd, env, Keep
<1>10. CASE Answer
  <2>1. light' \in Params
    <3>1. [light EXCEPT !.bri = req["cloud"].bri] \in Params
      BY <1>0, <1>a, ParamUpdate
    <3>2. QED
      BY <1>a, <1>10, <3>1 DEF Answer
  <2>2. view' \in Params
    BY <1>0, <1>10, <2>1 DEF Answer, Typed
  <2>3. /\ pc' \in [Tasks -> Steps] /\ \A u \in Tasks : pc'[u] \in Where(u)
        /\ pc'["lamp"] = pc["lamp"]
    BY <1>0, <1>10, WhereGo DEF Answer
  <2>4. /\ req' \in [Tasks -> ReqType] /\ req'["lamp"].op = "none" /\ req'["key"].op # "login"
        /\ seen' \in [Tasks -> SeenType]
    <3>1. Done("cloud") /\ "cloud" # "lamp" /\ "cloud" # "key" /\ "key" \in Tasks
      BY <1>10 DEF Answer, Tasks
    <3>2. QED
      BY <1>0, <3>1, DoneType DEF Typed
  <2>5. QED
    BY <1>0, <1>10, <2>1, <2>2, <2>3, <2>4 DEF Answer, BlinkInv, Typed, BlinksToTheEnd, env
<1>11. QED
  BY <1>1, <1>2, <1>3, <1>4, <1>5, <1>6, <1>7, <1>8, <1>9, <1>10 DEF CloudInput

LEMMA NextKeepsBlinkInv ==
  ASSUME LampAssumption, BlinkInv, [Next]_vars
  PROVE  BlinkInv'
<1>1. CASE CloseWindow
  <2>1. flags' \in FlagsType
    BY <1>1, FlagsUpdate DEF CloseWindow, BlinkInv, Typed
  <2>2. QED
    BY <1>1, <2>1 DEF CloseWindow, BlinkInv, Typed, BlinksToTheEnd, env, Keep
<1>2. CASE UNCHANGED vars
  BY <1>2 DEF vars, env, BlinkInv, Typed, BlinksToTheEnd
<1>3. "key" \in Tasks /\ "cloud" \in Tasks
  BY DEF Tasks
<1>4. QED
  BY <1>1, <1>2, <1>3, CallKeepsBlinkInv, LampKeepsBlinkInv, KeyKeepsBlinkInv,
     CloudKeepsBlinkInv DEF Next, CloudCall

-----------------------------------------------------------------------------
LEMMA BlinkInvAlways == Spec => []BlinkInv
<1>1. Init => BlinkInv
  BY InitBlinkInv, LampAssumption
<1>2. BlinkInv /\ [Next]_vars => BlinkInv'
  BY NextKeepsBlinkInv, LampAssumption
<1>3. QED
  BY <1>1, <1>2, PTL DEF Spec

(* Type correctness, also with the calls of the three tasks interleaved:   *)
(* the count of the blinks never leaves its range, the counters of the     *)
(* fade and of the report neither, and a step of a long press over the     *)
(* brightness classes never leaves the range of the dimming library.       *)
THEOREM TypeCorrect == Spec => []TypeOK
<1>1. BlinkInv => TypeOK
  BY TypedIsTypeOK DEF BlinkInv
<1>2. QED
  BY <1>1, BlinkInvAlways, PTL

(* A factory reset blinks to its end, whatever the other tasks call while  *)
(* it blinks: the lamp leaves the blinking only with no toggle left, and   *)
(* the chip reboots only then.                                             *)
THEOREM BlinksAlways == Spec => []BlinksToTheEnd
<1>1. BlinkInv => BlinksToTheEnd
  BY DEF BlinkInv
<1>2. QED
  BY <1>1, BlinkInvAlways, PTL
-----------------------------------------------------------------------------
(* Calls that are not interrupted.                                         *)

(* A step of a user, or of the lamp task, while everybody else rests.      *)
LEMMA UserStep ==
  ASSUME Typed, NEW t \in Users, pc' \in [Tasks -> Steps], \A u \in Tasks \ {t} : pc[u] = Rest[u] /\ pc'[u] = pc[u],
         flash'.on \/ (IF pc'[t] = "idle" THEN Settled' ELSE CopiesInv(t)' /\ FadeInv(t)')
  PROVE  SerialInv'
<1>1. t \in Tasks /\ "lamp" \in Tasks /\ t # "lamp" /\ Rest[t] = "idle" /\ Rest["lamp"] = "loop"
  BY DEF Users, Tasks, Rest
<1>2. \A u \in Tasks \ {t} : AtRest(u)'
  BY DEF AtRest
<1>3. Serial'
  BY <1>2 DEF Serial
<1>4. pc'["lamp"] = "loop"
  BY <1>1
<1>5. (\A u \in Users : AtRest(u)') => pc'[t] = "idle"
  BY <1>1 DEF AtRest
<1>6. \A u \in Users : ~AtRest(u)' => u = t /\ pc'[t] # "idle"
  BY <1>1, <1>2 DEF AtRest, Users, Tasks
<1>7. QED
  BY <1>3, <1>4, <1>5, <1>6 DEF SerialInv, Blinking

LEMMA LampStep ==
  ASSUME Typed, pc' \in [Tasks -> Steps], \A u \in Users : pc[u] = "idle" /\ pc'[u] = "idle",
         Blinking' \/ (Settled' /\ (pc'["lamp"] = "stepEnd" => out' = fade'.dst))
  PROVE  SerialInv'
<1>1. \A u \in Users : AtRest(u)'
  BY DEF AtRest, Users, Rest
<1>2. Serial'
  BY <1>1 DEF Serial, Users, Tasks
<1>3. QED
  BY <1>1, <1>2 DEF SerialInv, Blinking

LEMMA OthersRest ==
  ASSUME ~Preempt, Typed, NEW t \in Tasks, NEW s \in Steps, Turn(t), Go(t, s)
  PROVE  \A u \in Tasks \ {t} : pc[u] = Rest[u] /\ pc'[u] = pc[u]
BY DEF Turn, Typed, Go, AtRest

(* The fields of the settings, which the invariants are about.             *)
LEMMA Fields ==
  ASSUME Typed
  PROVE  /\ app.on \in BOOLEAN /\ app.bri \in Bri /\ lib.on \in BOOLEAN /\ lib.bri \in Bri
         /\ light.on \in BOOLEAN /\ light.bri \in Bri
         /\ \A t \in Tasks : /\ seen[t].param.on \in BOOLEAN /\ seen[t].param.bri \in Bri
                             /\ req[t].on \in BOOLEAN /\ req[t].bri \in Bri /\ req[t].op \in Ops
BY DEF Typed, Params, SeenType, ReqType

LEMMA UserCallKeepsSerialInv ==
  ASSUME LampAssumption, ~Preempt, BlinkInv, SerialInv, NEW t \in Users, Call(t)
  PROVE  SerialInv'
<1>0. Typed /\ t \in Tasks /\ t # "lamp"
  BY DEF BlinkInv, Users, Tasks
<1>a. /\ {"apply", "sync", "compare", "raise", "aim", "start", "go", "answer", "idle"} \subseteq Steps
      /\ Return[t] \in {"idle", "answer"} /\ AfterSync(t) \in {"answer", "aim"}
      /\ Return["key"] = "idle" /\ Return["cloud"] = "answer"
  BY DEF Steps, CallSteps, CloudSteps, Return, Users, AfterSync
<1>b. /\ pc[t] \in CallSteps
      /\ pc' \in [Tasks -> Steps]
      /\ \A u \in Tasks \ {t} : pc[u] = Rest[u] /\ pc'[u] = pc[u]
  <2>1. PICK s \in Steps : Go(t, s)
    BY <1>a DEF Call, Check, Apply, Sync, Compare, Raise, Aim, StartFade, GoFade
  <2>2. Turn(t) /\ pc[t] \in CallSteps
    BY DEF Call, Check, Apply, Sync, Compare, Raise, Aim, StartFade, GoFade, At, CallSteps
  <2>3. pc' \in [Tasks -> Steps]
    BY <1>0, <2>1, GoType DEF Typed
  <2>4. QED
    BY <1>0, <2>1, <2>2, <2>3, OthersRest
<1>c. CASE flash.on
  <2>1. flash' = flash
    BY <1>0 DEF Call, Check, Apply, Sync, Compare, Raise, Aim, StartFade, GoFade
  <2>2. QED
    BY <1>0, <1>b, <1>c, <2>1, UserStep
<1>d. CASE ~flash.on
  <2>0. /\ CopiesInv(t) /\ FadeInv(t) /\ pc["lamp"] = "loop"
        /\ flash' = flash
    <3>1. pc["lamp"] = "loop" /\ ~AtRest(t)
      BY <1>0, <1>b DEF Rest, AtRest, Users, Tasks, CallSteps
    <3>2. flash' = flash
      BY <1>0 DEF Call, Check, Apply, Sync, Compare, Raise, Aim, StartFade, GoFade
    <3>3. QED
      BY <1>0, <1>d, <3>1, <3>2 DEF SerialInv, Blinking
  <2>1. CASE Check(t)
    <3>1. pc[t] = "check" /\ UNCHANGED <<app, lib, light, fade, out>>
      BY <2>1 DEF Check, At
    <3>2. CASE ~Refused(t)
      <4>1. pc'[t] = "apply" /\ UNCHANGED <<req, seen>>
        BY <1>0, <1>a, <2>1, <3>2, GoType DEF Check, Keep, Typed
      <4>2. CopiesInv(t)' /\ FadeInv(t)'
        BY <2>0, <3>1, <4>1 DEF CopiesInv, FadeInv, SwitchDue, FadeDue, SetsSwitch, Same, Aimed, Steady, Level
      <4>3. QED
        BY <1>0, <1>b, <4>1, <4>2, UserStep
    <3>3. CASE Refused(t) /\ t = "key"
      <4>1. pc'[t] = "idle"
        BY <1>0, <1>a, <2>1, <3>3, GoType DEF Check, Typed
      <4>2. Settled'
        BY <1>d, <2>0, <3>1, <3>3 DEF Settled, Refused, CopiesInv, FadeInv, SwitchDue, FadeDue, SetsSwitch, Same, Aimed, Steady, Level
      <4>3. QED
        BY <1>0, <1>b, <4>1, <4>2, UserStep
    <3>4. CASE Refused(t) /\ t = "cloud"
      <4>1. pc'[t] = "answer" /\ UNCHANGED <<req, seen>>
        BY <1>0, <1>a, <2>1, <3>4, GoType DEF Check, Keep, Typed
      <4>2. CopiesInv(t)' /\ FadeInv(t)'
        BY <1>d, <2>0, <3>1, <3>4, <4>1 DEF Refused, CopiesInv, FadeInv, SwitchDue, FadeDue, SetsSwitch, Same, Aimed, Steady, Level
      <4>3. QED
        BY <1>0, <1>b, <4>1, <4>2, UserStep
    <3>5. QED
      BY <3>2, <3>3, <3>4 DEF Users
  <2>2. CASE Apply(t)
    <3>1. /\ pc[t] = "apply" /\ UNCHANGED <<app, light, fade, out, req, seen>>
          /\ pc'[t] = "sync"
      BY <1>0, <1>a, <2>2, GoType DEF Apply, At, Keep, Typed
    <3>2. /\ SetsSwitch(t) => lib'.on = req[t].on /\ lib'.bri = lib.bri
          /\ ~SetsSwitch(t) => lib'.on = lib.on /\ lib'.bri = req[t].bri
      BY <1>0, <2>2 DEF Apply, Typed, Params
    <3>3. CopiesInv(t)' /\ FadeInv(t)'
      BY <2>0, <3>1, <3>2 DEF CopiesInv, FadeInv, SwitchDue, FadeDue, SetsSwitch, Same, Aimed, Steady, Level
    <3>4. QED
      BY <1>0, <1>b, <3>1, <3>3, UserStep
  <2>3. CASE Sync(t)
    <3>1. /\ pc[t] = "sync" /\ UNCHANGED <<app, lib, light, fade, out, req>>
          /\ pc'[t] = "compare"
      BY <1>0, <1>a, <2>3, GoType DEF Sync, At, Typed
    <3>2. seen'[t].param = app
      BY <1>0, <2>3 DEF Sync, Typed, SeenType
    <3>3. CopiesInv(t)' /\ FadeInv(t)'
      BY <2>0, <3>1, <3>2 DEF CopiesInv, FadeInv, SwitchDue, FadeDue, SetsSwitch, Same, Aimed, Steady, Level
    <3>4. QED
      BY <1>0, <1>b, <3>1, <3>3, UserStep
  <2>4. CASE Compare(t)
    <3>1. /\ pc[t] = "compare" /\ UNCHANGED <<app, lib, fade, out, req, seen>>
          /\ light' = seen[t].param
      BY <2>4 DEF Compare, At, Keep
    <3>2. \/ pc'[t] = "raise"
          \/ pc'[t] = AfterSync(t)
      BY <1>0, <1>a, <2>4, GoType DEF Compare, Typed
    <3>3. CopiesInv(t)' /\ FadeInv(t)'
      BY <2>0, <3>1, <3>2 DEF AfterSync, CopiesInv, FadeInv, SwitchDue, FadeDue, SetsSwitch, Same, Aimed, Steady, Level
    <3>4. QED
      BY <1>0, <1>a, <1>b, <3>2, <3>3, UserStep
  <2>5. CASE Raise(t)
    <3>1. /\ pc[t] = "raise" /\ UNCHANGED <<app, lib, light, fade, out, req, seen>>
          /\ pc'[t] = AfterSync(t)
      BY <1>0, <1>a, <2>5, GoType DEF Raise, At, Keep, Typed
    <3>2. CopiesInv(t)' /\ FadeInv(t)'
      BY <2>0, <3>1 DEF AfterSync, CopiesInv, FadeInv, SwitchDue, FadeDue, SetsSwitch, Same, Aimed, Steady, Level
    <3>3. QED
      BY <1>0, <1>a, <1>b, <3>1, <3>2, UserStep
  <2>6. CASE Aim(t)
    <3>1. /\ pc[t] = "aim" /\ UNCHANGED <<app, lib, light, fade, out, req>>
          /\ pc'[t] = "start"
      BY <1>0, <1>a, <2>6, GoType DEF Aim, At, Typed
    <3>2. seen'[t].level = Level(lib)
      BY <1>0, <2>6 DEF Aim, Typed, SeenType
    <3>3. CopiesInv(t)' /\ FadeInv(t)'
      BY <2>0, <3>1, <3>2 DEF CopiesInv, FadeInv, SwitchDue, FadeDue, SetsSwitch, Same, Aimed, Steady, Level
    <3>4. QED
      BY <1>0, <1>b, <3>1, <3>3, UserStep
  <2>7. CASE StartFade(t)
    <3>1. /\ pc[t] = "start" /\ UNCHANGED <<app, lib, light, out, req, seen>>
          /\ pc'[t] = "go"
      BY <1>0, <1>a, <2>7, GoType DEF StartFade, At, Keep, Typed
    <3>2. fade'.dst = seen[t].level
      BY <1>0, <2>7 DEF StartFade, Typed, FadeType
    <3>3. CopiesInv(t)' /\ FadeInv(t)'
      BY <2>0, <3>1, <3>2 DEF CopiesInv, FadeInv, SwitchDue, FadeDue, SetsSwitch, Same, Aimed, Steady, Level
    <3>4. QED
      BY <1>0, <1>b, <3>1, <3>3, UserStep
  <2>8. CASE GoFade(t)
    <3>1. /\ pc[t] = "go" /\ UNCHANGED <<app, lib, light, out>>
          /\ pc'[t] = Return[t] /\ (t = "cloud" => UNCHANGED <<req, seen>>)
      BY <1>0, <1>a, <2>8, GoType DEF GoFade, At, Keep, Typed
    <3>2. fade'.adjusting /\ fade'.dst = fade.dst
      BY <1>0, <2>8 DEF GoFade, Typed, FadeType
    <3>3. CASE t = "key"
      <4>1. Settled'
        <5>1. Same(app, light) /\ app.on = lib.on /\ Aimed
          BY <2>0, <3>1, <3>3 DEF CopiesInv, FadeInv, SwitchDue, FadeDue, Same
        <5>2. QED
          BY <3>1, <3>2, <5>1 DEF Settled, Same, Aimed, Steady, Level
      <4>2. QED
        BY <1>0, <1>a, <1>b, <3>1, <3>3, <4>1, UserStep
    <3>4. CASE t = "cloud"
      <4>1. CopiesInv(t)' /\ FadeInv(t)'
        BY <1>a, <2>0, <3>1, <3>2, <3>4 DEF CopiesInv, FadeInv, SwitchDue, FadeDue, SetsSwitch, Same, Aimed, Steady, Level
      <4>2. QED
        BY <1>0, <1>a, <1>b, <3>1, <3>4, <4>1, UserStep
    <3>5. QED
      BY <3>3, <3>4 DEF Users
  <2>9. QED
    BY <2>1, <2>2, <2>3, <2>4, <2>5, <2>6, <2>7, <2>8 DEF Call
<1>9. QED
  BY <1>c, <1>d
(* A callback that begins a call starts from settings that agree.          *)
LEMMA Started ==
  ASSUME Typed, SerialInv, ~Preempt, NEW t \in Users, At(t, "idle"), ~flash.on
  PROVE  Settled
<1>1. \A u \in Tasks \ {t} : AtRest(u)
  BY DEF At, Turn
<1>2. pc["lamp"] = "loop" /\ \A u \in Users : AtRest(u)
  BY <1>1 DEF At, AtRest, Rest, Users, Tasks
<1>3. QED
  BY <1>2 DEF SerialInv, Blinking

LEMMA Begun ==
  ASSUME Typed, ~Preempt, NEW t \in Users, NEW op, NEW on, NEW b, NEW s \in Steps,
         Turn(t), Begin(t, op, on, b, s)
  PROVE  /\ pc' \in [Tasks -> Steps] /\ pc'[t] = s
         /\ \A u \in Tasks \ {t} : pc[u] = Rest[u] /\ pc'[u] = pc[u]
         /\ req'[t].op = op /\ req'[t].on = on /\ req'[t].bri = b
<1>1. t \in Tasks /\ Go(t, s)
  BY DEF Begin, Users, Tasks
<1>2. pc' \in [Tasks -> Steps] /\ pc'[t] = s
  BY <1>1, GoType DEF Typed
<1>3. \A u \in Tasks \ {t} : pc[u] = Rest[u] /\ pc'[u] = pc[u]
  BY <1>1, OthersRest
<1>4. req'[t] = [op |-> op, on |-> on, bri |-> b]
  BY <1>1 DEF Begin, Typed
<1>5. QED
  BY <1>2, <1>3, <1>4

LEMMA KeyInputKeepsSerialInv ==
  ASSUME LampAssumption, ~Preempt, BlinkInv, SerialInv, KeyInput
  PROVE  SerialInv'
<1>0. /\ Typed /\ "key" \in Users /\ "check" \in Steps /\ "key" \in Tasks
  BY DEF BlinkInv, Users, Tasks, Steps, CallSteps
<1>1. At("key", "idle") /\ Turn("key") /\ pc["key"] = "idle"
  BY DEF KeyInput, ShortRelease, LongPressDims, LongPressResets, LongRelease, At
<1>2. UNCHANGED <<lib, light, fade, out, flash>>
  BY DEF KeyInput, ShortRelease, LongPressDims, LongPressResets, LongRelease
<1>3. ~flash.on => Settled
  BY <1>0, <1>1, Started
<1>4. CASE SwitchRevert
  <2>1. /\ Begin("key", "switch", ~app.on, 1, "check") /\ app'.on = ~app.on /\ app'.bri = app.bri
    BY <1>0, <1>4 DEF SwitchRevert, Typed, Params
  <2>2. /\ pc' \in [Tasks -> Steps] /\ pc'["key"] = "check"
        /\ \A u \in Tasks \ {"key"} : pc[u] = Rest[u] /\ pc'[u] = pc[u]
        /\ req'["key"].op = "switch" /\ req'["key"].on = ~app.on
    BY <1>0, <1>1, <2>1, Begun
  <2>3. ~flash.on => CopiesInv("key")' /\ FadeInv("key")'
    BY <1>2, <1>3, <2>1, <2>2 DEF Settled, CopiesInv, FadeInv, SwitchDue, FadeDue, SetsSwitch, Same, Aimed, Steady, Level
  <2>4. QED
    BY <1>0, <1>2, <2>2, <2>3, UserStep
<1>5. CASE LongPressDims
  <2> DEFINE up == IF held = 0 THEN ~flags.up ELSE flags.up
             bri == NextClass(up, app.bri)
  <2>1. /\ app' = [app EXCEPT !.bri = bri]
        /\ IF bri # app.bri THEN Begin("key", "bri", FALSE, bri, "check") ELSE UNCHANGED pc /\ Keep
    BY <1>5, Zenon DEF LongPressDims
  <2>2. app.on /\ flags \in FlagsType
    BY <1>0, <1>5 DEF LongPressDims, Typed
  <2> HIDE DEF bri
  <2>3. app'.on = app.on /\ app'.bri = bri
    BY <1>0, <2>1 DEF Typed, Params
  <2>4. CASE bri # app.bri
    <3>1. /\ pc' \in [Tasks -> Steps] /\ pc'["key"] = "check"
          /\ \A u \in Tasks \ {"key"} : pc[u] = Rest[u] /\ pc'[u] = pc[u]
          /\ req'["key"].op = "bri" /\ req'["key"].on = FALSE /\ req'["key"].bri = bri
      BY <1>0, <1>1, <2>1, <2>4, Begun
    <3>2. ~flash.on => CopiesInv("key")' /\ FadeInv("key")'
      BY <1>2, <1>3, <2>2, <2>3, <3>1 DEF Settled, CopiesInv, FadeInv, SwitchDue, FadeDue, SetsSwitch, Same, Aimed, Steady, Level
    <3>3. QED
      BY <1>0, <1>2, <3>1, <3>2, UserStep
  <2>5. CASE bri = app.bri
    <3>1. pc' = pc /\ \A u \in Tasks \ {"key"} : pc[u] = Rest[u]
      BY <1>1, <2>1, <2>5 DEF Turn, AtRest
    <3>2. ~flash.on => Settled'
      BY <1>2, <1>3, <2>3, <2>5 DEF Settled, Same, Aimed, Steady, Level
    <3>3. QED
      BY <1>0, <1>1, <1>2, <3>1, <3>2, UserStep DEF Typed
  <2>6. QED
    BY <2>4, <2>5
<1>6. CASE UNCHANGED <<app, pc>>
  <2>1. \A u \in Tasks \ {"key"} : pc[u] = Rest[u]
    BY <1>1 DEF Turn, AtRest
  <2>2. ~flash.on => Settled'
    BY <1>2, <1>3, <1>6 DEF Settled, Same, Aimed, Steady, Level
  <2>3. QED
    BY <1>0, <1>1, <1>2, <1>6, <2>1, <2>2, UserStep DEF Typed
<1>7. QED
  BY <1>4, <1>5, <1>6 DEF KeyInput, ShortRelease, LongPressResets, LongRelease
LEMMA CloudInputKeepsSerialInv ==
  ASSUME LampAssumption, ~Preempt, BlinkInv, SerialInv, CloudInput
  PROVE  SerialInv'
<1>0. /\ Typed /\ "cloud" \in Users /\ {"toggle", "assign", "login"} \subseteq Steps /\ "cloud" \in Tasks
  BY DEF BlinkInv, Users, Tasks, Steps, CallSteps, CloudSteps
<1>1. At("cloud", "idle") /\ Turn("cloud") /\ pc["cloud"] = "idle"
  BY DEF CloudInput, SetLightOnoff, SetBrightness, SetMode, Upload, Offline, Delete, At
<1>2. UNCHANGED <<app, lib, fade, out, flash>>
  BY DEF CloudInput, SetLightOnoff, SetBrightness, SetMode, Upload, Offline, Delete
<1>3. ~flash.on => Settled
  BY <1>0, <1>1, Started
<1>4. ASSUME NEW v \in BOOLEAN, SetLightOnoff(v)
      PROVE  SerialInv'
  <2>1. light'.bri = light.bri
    BY <1>0, <1>4 DEF SetLightOnoff, Typed, Params
  <2>2. /\ pc' \in [Tasks -> Steps] /\ pc'["cloud"] = "toggle"
        /\ \A u \in Tasks \ {"cloud"} : pc[u] = Rest[u] /\ pc'[u] = pc[u]
        /\ req'["cloud"].op = "onoff"
    <3>1. Begin("cloud", "onoff", FALSE, 1, "toggle")
      BY <1>4 DEF SetLightOnoff
    <3>2. QED
      BY <1>0, <1>1, <3>1, Begun
  <2>3. ~flash.on => CopiesInv("cloud")' /\ FadeInv("cloud")'
    BY <1>2, <1>3, <2>1, <2>2 DEF Settled, CopiesInv, FadeInv, SwitchDue, FadeDue, SetsSwitch, Same, Aimed, Steady, Level
  <2>4. QED
    BY <1>0, <1>2, <2>2, <2>3, UserStep
<1>5. ASSUME NEW b \in Bri, SetBrightness(b)
      PROVE  SerialInv'
  <2>1. light'.on = light.on /\ light'.bri = b
    BY <1>0, <1>5 DEF SetBrightness, Typed, Params
  <2>2. /\ pc' \in [Tasks -> Steps] /\ pc'["cloud"] = "assign"
        /\ \A u \in Tasks \ {"cloud"} : pc[u] = Rest[u] /\ pc'[u] = pc[u]
        /\ req'["cloud"].op = "bri" /\ req'["cloud"].bri = b
    <3>1. Begin("cloud", "bri", FALSE, b, "assign")
      BY <1>5 DEF SetBrightness
    <3>2. QED
      <4>1. Typed /\ "cloud" \in Users /\ "assign" \in Steps /\ Turn("cloud")
        BY <1>0, <1>1
      <4>2. /\ pc' \in [Tasks -> Steps] /\ pc'["cloud"] = "assign"
            /\ \A u \in Tasks \ {"cloud"} : pc[u] = Rest[u] /\ pc'[u] = pc[u]
        BY <3>1, <4>1, Begun
      <4>3. req'["cloud"].op = "bri" /\ req'["cloud"].bri = b
        BY <1>0, <3>1 DEF Begin, Typed
      <4>4. QED
        BY <4>2, <4>3
  <2>3. ~flash.on => CopiesInv("cloud")' /\ FadeInv("cloud")'
    BY <1>2, <1>3, <2>1, <2>2 DEF Settled, CopiesInv, FadeInv, SwitchDue, FadeDue, SetsSwitch, Same, Aimed, Steady, Level
  <2>4. QED
    BY <1>0, <1>2, <2>2, <2>3, UserStep
<1>6. ASSUME NEW b \in Bri, SetMode(b)
      PROVE  SerialInv'
  <2>1. light' = light
    BY <1>6 DEF SetMode
  <2>2. /\ pc' \in [Tasks -> Steps] /\ pc'["cloud"] = "assign"
        /\ \A u \in Tasks \ {"cloud"} : pc[u] = Rest[u] /\ pc'[u] = pc[u]
        /\ req'["cloud"].op = "mode"
    <3>1. Begin("cloud", "mode", FALSE, b, "assign")
      BY <1>6 DEF SetMode
    <3>2. QED
      BY <1>0, <1>1, <3>1, Begun
  <2>3. ~flash.on => CopiesInv("cloud")' /\ FadeInv("cloud")'
    BY <1>2, <1>3, <2>1, <2>2 DEF Settled, CopiesInv, FadeInv, SwitchDue, FadeDue, SetsSwitch, Same, Aimed, Steady, Level
  <2>4. QED
    BY <1>0, <1>2, <2>2, <2>3, UserStep
<1>7. CASE Upload
  <2>1. light' = light
    BY <1>7 DEF Upload
  <2>2. /\ pc' \in [Tasks -> Steps] /\ pc'["cloud"] = "login"
        /\ \A u \in Tasks \ {"cloud"} : pc[u] = Rest[u] /\ pc'[u] = pc[u]
        /\ req'["cloud"].op = "login"
    <3>1. Begin("cloud", "login", FALSE, 1, "login")
      BY <1>7 DEF Upload
    <3>2. QED
      BY <1>0, <1>1, <3>1, Begun
  <2>3. ~flash.on => CopiesInv("cloud")' /\ FadeInv("cloud")'
    BY <1>2, <1>3, <2>1, <2>2 DEF Settled, CopiesInv, FadeInv, SwitchDue, FadeDue, SetsSwitch, Same, Aimed, Steady, Level
  <2>4. QED
    BY <1>0, <1>2, <2>2, <2>3, UserStep
<1>8. CASE Offline \/ Delete
  <2>1. pc' = pc /\ light' = light /\ \A u \in Tasks \ {"cloud"} : pc[u] = Rest[u]
    BY <1>1, <1>8 DEF Offline, Delete, Turn, AtRest
  <2>2. ~flash.on => Settled'
    BY <1>2, <1>3, <2>1 DEF Settled, Same, Aimed, Steady, Level
  <2>3. QED
    BY <1>0, <1>1, <1>2, <2>1, <2>2, UserStep DEF Typed
<1>9. QED
  BY <1>4, <1>5, <1>6, <1>7, <1>8 DEF CloudInput

LEMMA CloudCallKeepsSerialInv ==
  ASSUME LampAssumption, ~Preempt, BlinkInv, SerialInv, Toggle \/ AssignBri \/ Login \/ Answer
  PROVE  SerialInv'
<1>0. /\ Typed /\ "cloud" \in Users /\ "cloud" \in Tasks
      /\ {"check", "sync", "idle", "toggle", "assign", "login", "answer"} \subseteq Steps
  BY DEF BlinkInv, Users, Tasks, Steps, CallSteps, CloudSteps
<1>1. Turn("cloud") /\ pc["cloud"] \in {"toggle", "assign", "login", "answer"}
  BY DEF Toggle, AssignBri, Login, Answer, At
<1>2. UNCHANGED <<lib, fade, out, flash>>
  BY DEF Toggle, AssignBri, Login, Answer
<1>3. ~flash.on => CopiesInv("cloud") /\ FadeInv("cloud")
  <2>1. ~AtRest("cloud")
    BY <1>1 DEF AtRest, Rest
  <2>2. pc["lamp"] = "loop"
    BY <1>1 DEF Turn, AtRest, Rest, Tasks
  <2>3. QED
    BY <1>0, <2>1, <2>2 DEF SerialInv, Blinking
<1>4. CASE Toggle
  <2>1. app'.on = ~app.on /\ app'.bri = app.bri /\ light' = light /\ pc["cloud"] = "toggle"
    BY <1>0, <1>4 DEF Toggle, At, Typed, Params
  <2>2. /\ pc' \in [Tasks -> Steps] /\ pc'["cloud"] = "check"
        /\ \A u \in Tasks \ {"cloud"} : pc[u] = Rest[u] /\ pc'[u] = pc[u]
        /\ req'["cloud"].op = "onoff" /\ req'["cloud"].on = ~app.on
    <3>1. Begin("cloud", "onoff", ~app.on, 1, "check")
      BY <1>4 DEF Toggle
    <3>2. QED
      BY <1>0, <1>1, <3>1, Begun
  <2>3. ~flash.on => CopiesInv("cloud")' /\ FadeInv("cloud")'
    BY <1>2, <1>3, <2>1, <2>2 DEF CopiesInv, FadeInv, SwitchDue, FadeDue, SetsSwitch, Same, Aimed, Steady, Level
  <2>4. QED
    BY <1>0, <1>2, <2>2, <2>3, UserStep
<1>5. CASE AssignBri
  <2>1. /\ app'.on = app.on /\ app'.bri = req["cloud"].bri /\ light' = light /\ pc["cloud"] = "assign"
        /\ UNCHANGED <<req, seen>> /\ Go("cloud", "check")
    BY <1>0, <1>5 DEF AssignBri, At, Typed, Params, Keep
  <2>2. /\ pc' \in [Tasks -> Steps] /\ pc'["cloud"] = "check"
        /\ \A u \in Tasks \ {"cloud"} : pc[u] = Rest[u] /\ pc'[u] = pc[u]
    BY <1>0, <1>1, <2>1, GoType, OthersRest DEF Typed
  <2>3. ~flash.on => CopiesInv("cloud")' /\ FadeInv("cloud")'
    BY <1>2, <1>3, <2>1, <2>2 DEF CopiesInv, FadeInv, SwitchDue, FadeDue, SetsSwitch, Same, Aimed, Steady, Level
  <2>4. QED
    BY <1>0, <1>2, <2>2, <2>3, UserStep
<1>6. CASE Login
  <2>1. /\ UNCHANGED <<app, light, req, seen>> /\ pc["cloud"] = "login" /\ Go("cloud", "sync")
    BY <1>6 DEF Login, At, Keep
  <2>2. /\ pc' \in [Tasks -> Steps] /\ pc'["cloud"] = "sync"
        /\ \A u \in Tasks \ {"cloud"} : pc[u] = Rest[u] /\ pc'[u] = pc[u]
    BY <1>0, <1>1, <2>1, GoType, OthersRest DEF Typed
  <2>3. ~flash.on => CopiesInv("cloud")' /\ FadeInv("cloud")'
    BY <1>2, <1>3, <2>1, <2>2 DEF CopiesInv, FadeInv, SwitchDue, FadeDue, SetsSwitch, Same, Aimed, Steady, Level
  <2>4. QED
    BY <1>0, <1>2, <2>2, <2>3, UserStep
<1>7. CASE Answer
  <2>1. app' = app /\ pc["cloud"] = "answer" /\ Go("cloud", "idle")
    BY <1>7 DEF Answer, At
  <2>2. /\ req["cloud"].op = "mode" => light'.on = light.on /\ light'.bri = req["cloud"].bri
        /\ req["cloud"].op # "mode" => light' = light
    BY <1>0, <1>7 DEF Answer, Typed, Params
  <2>3. /\ pc' \in [Tasks -> Steps] /\ pc'["cloud"] = "idle"
        /\ \A u \in Tasks \ {"cloud"} : pc[u] = Rest[u] /\ pc'[u] = pc[u]
    BY <1>0, <1>1, <2>1, GoType, OthersRest DEF Typed
  <2>4. ~flash.on => Settled'
    BY <1>2, <1>3, <2>1, <2>2 DEF Settled, CopiesInv, FadeInv, SwitchDue, FadeDue, SetsSwitch, Same, Aimed, Steady, Level
  <2>5. QED
    BY <1>0, <1>2, <2>3, <2>4, UserStep
<1>8. QED
  BY <1>4, <1>5, <1>6, <1>7
LEMMA LampKeepsSerialInv ==
  ASSUME LampAssumption, ~Preempt, BlinkInv, SerialInv, LampTask
  PROVE  SerialInv'
<1>0. /\ Typed /\ "lamp" \in Tasks /\ flash \in FlashType /\ fade \in FadeType
      /\ pc["lamp"] \in CallSteps => flash.on
  BY DEF BlinkInv, Typed, Tasks, BlinksToTheEnd
<1>1. CASE Reboot
  <2>1. pc' = Rest /\ \A t \in Tasks : AtRest(t)'
    BY <1>1 DEF Reboot, AtRest
  <2>2. Settled'
    BY <1>1 DEF Reboot, Settled, Same, Aimed, Steady, Level, BootFade, DefaultParam
  <2>3. pc'["lamp"] # "stepEnd" /\ Serial'
    BY <2>1 DEF Rest, Serial
  <2>4. QED
    BY <2>1, <2>2, <2>3 DEF SerialInv, Users, Tasks
<1>2. CASE ~Reboot
  <2>1. PICK s \in Steps : Turn("lamp") /\ Go("lamp", s)
    <3>1. CASE Call("lamp")
      <4>1. /\ {"apply", "sync", "compare", "raise", "aim", "start", "go"} \subseteq Steps
            /\ Return["lamp"] \in Steps /\ AfterSync("lamp") \in Steps
        BY DEF Steps, CallSteps, CloudSteps, LampSteps, Return, AfterSync
      <4>2. QED
        BY <3>1, <4>1 DEF Call, Check, Apply, Sync, Compare, Raise, Aim, StartFade, GoFade, At
    <3>2. CASE ~Call("lamp")
      <4>1. LampSteps \subseteq Steps /\ "sync" \in Steps
        BY DEF Steps, CallSteps
      <4>2. QED
        BY <1>2, <3>2, <4>1 DEF LampTask, FlashIdle, FlashWait, FlashToggle, StepIdle, StepInside, StepLast,
          StepEnd, ReportWait, ReportTake, ReportLink, ReportSend, TakeReset, At, LampSteps
    <3>3. QED
      BY <3>1, <3>2
  <2>2. /\ pc' \in [Tasks -> Steps] /\ pc'["lamp"] = s
        /\ \A t \in Users : pc[t] = "idle" /\ pc'[t] = "idle"
    <3>1. pc' \in [Tasks -> Steps] /\ pc'["lamp"] = s
      BY <1>0, <2>1, GoType DEF Typed
    <3>2. \A u \in Tasks \ {"lamp"} : pc[u] = Rest[u] /\ pc'[u] = pc[u]
      BY <1>0, <2>1, OthersRest
    <3>3. QED
      BY <3>1, <3>2 DEF Users, Tasks, Rest
  <2>3. CASE Call("lamp")
    <3>1. flash.on /\ (flash' = flash \/ flash' = [flash EXCEPT !.count = flash.count - 1])
      BY <1>0, <2>3 DEF Call, Check, Apply, Sync, Compare, Raise, Aim, StartFade, GoFade, At, CallSteps
    <3>2. flash'.on
      BY <1>0, <3>1 DEF FlashType
    <3>3. QED
      BY <1>0, <2>2, <3>2, LampStep DEF Blinking
  <2>4. CASE StepEnd
    <3>1. CASE flash.on
      <4>1. Blinking'
        <5>1. CASE BlinkingOver
          <6>1. pc'["lamp"] = "reboot"
            BY <1>0, <2>4, <5>1, GoType DEF StepEnd, Typed, Steps, LampSteps
          <6>2. QED
            BY <6>1 DEF Blinking
        <5>2. CASE ~BlinkingOver
          BY <2>4, <3>1, <5>2 DEF StepEnd, Blinking
        <5>3. QED
          BY <5>1, <5>2
      <4>2. QED
        BY <1>0, <2>2, <4>1, LampStep
    <3>2. CASE ~flash.on
      <4>1. pc["lamp"] = "stepEnd" /\ UNCHANGED <<app, lib, light, out>>
        BY <2>4 DEF StepEnd, At
      <4>2. Settled /\ out = fade.dst
        BY <2>2, <3>2, <4>1 DEF SerialInv, Blinking, AtRest, Rest, Users
      <4>3. fade'.dst = fade.dst
        BY <1>0, <2>4 DEF StepEnd, FadeType
      <4>4. Settled'
        BY <4>1, <4>2, <4>3 DEF Settled, Same, Aimed, Steady, Level
      <4>5. pc'["lamp"] # "stepEnd"
        BY <1>0, <2>4, <3>2, GoType DEF StepEnd, BlinkingOver, Typed, Steps, LampSteps
      <4>6. QED
        BY <1>0, <2>2, <4>4, <4>5, LampStep
    <3>3. QED
      BY <3>1, <3>2
  <2>5. CASE TakeReset
    <3>1. flash'.on \/ flash' = flash
      BY <1>0, <2>5 DEF TakeReset, FlashType
    <3>2. UNCHANGED <<app, lib, light, fade, out>> /\ pc["lamp"] = "reset"
      BY <2>5 DEF TakeReset, At
    <3>3. ~flash.on => Settled
      BY <2>2, <3>2 DEF SerialInv, Blinking, AtRest, Rest, Users
    <3>4. ~flash'.on => Settled'
      BY <3>1, <3>2, <3>3 DEF Settled, Same, Aimed, Steady, Level
    <3>5. pc'["lamp"] = "loop"
      BY <1>0, <2>5, GoType DEF TakeReset, Typed, Steps, LampSteps
    <3>6. QED
      BY <1>0, <2>2, <3>4, <3>5, LampStep DEF Blinking
  <2>6. CASE FlashToggle
    <3>1. flash.on
      BY <1>0, <2>6 DEF FlashToggle, BlinkInv, BlinksToTheEnd
    <3>2. flash'.on
      BY <1>0, <2>6, <3>1 DEF FlashToggle, FlashType
    <3>3. QED
      BY <1>0, <2>2, <3>2, LampStep DEF Blinking
  <2>7. CASE \/ FlashIdle \/ FlashWait \/ StepIdle
             \/ ReportWait \/ ReportTake \/ ReportLink \/ ReportSend
    <3>1. UNCHANGED <<app, lib, light, fade, out>>
      BY <2>7 DEF FlashIdle, FlashWait, StepIdle, ReportWait, ReportTake, ReportLink, ReportSend
    <3>2. flash'.on = flash.on
      BY <1>0, <2>7 DEF FlashIdle, FlashWait, StepIdle, ReportWait, ReportTake, ReportLink, ReportSend, FlashType
    <3>3. pc["lamp"] # "reboot" /\ pc'["lamp"] # "stepEnd"
      BY <1>0, <2>7, GoType DEF FlashIdle, FlashWait, StepIdle, ReportWait, ReportTake, ReportLink, ReportSend, At, Typed, Steps, LampSteps
    <3>4. ~flash.on => Settled
      BY <2>2, <3>3 DEF SerialInv, Blinking, AtRest, Rest, Users
    <3>5. ~flash'.on => Settled'
      BY <3>1, <3>2, <3>4 DEF Settled, Same, Aimed, Steady, Level
    <3>6. QED
      BY <1>0, <2>2, <3>3, <3>5, LampStep DEF Blinking
  <2>8. CASE StepInside \/ StepLast
    <3>1. UNCHANGED <<app, lib, light, flash>> /\ pc["lamp"] = "step"
      BY <2>8 DEF StepInside, StepLast, At
    <3>2. fade'.dst = fade.dst /\ fade'.adjusting
      BY <1>0, <2>8 DEF StepInside, StepLast, FadeType
    <3>3. pc'["lamp"] = "stepEnd" => out' = fade'.dst
      BY <1>0, <2>8, <3>2, GoType DEF StepInside, StepLast, Typed, Steps, LampSteps
    <3>4. ~flash.on => Settled
      BY <2>2, <3>1 DEF SerialInv, Blinking, AtRest, Rest, Users
    <3>5. ~flash.on => Settled'
      BY <3>1, <3>2, <3>4 DEF Settled, Same, Aimed, Steady, Level
    <3>6. QED
      BY <1>0, <2>2, <3>1, <3>3, <3>5, LampStep DEF Blinking
  <2>9. QED
    BY <1>2, <2>3, <2>4, <2>5, <2>6, <2>7, <2>8 DEF LampTask
<1>3. QED
  BY <1>1, <1>2

LEMMA NextKeepsSerialInv ==
  ASSUME LampAssumption, ~Preempt, BlinkInv, SerialInv, [Next]_vars
  PROVE  SerialInv'
<1>1. CASE CloseWindow \/ UNCHANGED vars
  <2>1. UNCHANGED <<app, lib, light, fade, out, flash, pc, req, seen>>
    BY <1>1 DEF CloseWindow, vars, Keep
  <2>2. QED
    BY <2>1 DEF SerialInv, Serial, Blinking, AtRest, Settled, CopiesInv, FadeInv, SwitchDue, FadeDue, SetsSwitch, Same, Aimed, Steady, Level
<1>2. "key" \in Users /\ "cloud" \in Users
  BY DEF Users
<1>3. QED
  BY <1>1, <1>2, UserCallKeepsSerialInv, LampKeepsSerialInv, KeyInputKeepsSerialInv,
     CloudInputKeepsSerialInv, CloudCallKeepsSerialInv DEF Next, CloudCall

LEMMA SerialInvAlways ==
  ASSUME ~Preempt
  PROVE  Spec => []SerialInv
<1>1. Init => SerialInv
  <2> SUFFICES ASSUME Init PROVE SerialInv
    OBVIOUS
  <2>1. pc = Rest /\ \A t \in Tasks : AtRest(t)
    BY DEF Init, AtRest
  <2>2. Settled
    BY DEF Init, Settled, Same, Aimed, Steady, Level, BootFade, DefaultParam
  <2>3. pc["lamp"] # "stepEnd" /\ Serial
    BY <2>1 DEF Rest, Serial
  <2>4. QED
    BY <2>1, <2>2, <2>3 DEF SerialInv, Users, Tasks
<1>2. BlinkInv /\ SerialInv /\ [Next]_vars => SerialInv'
  BY NextKeepsSerialInv, LampAssumption
<1>3. QED
  BY <1>1, <1>2, BlinkInvAlways, PTL DEF Spec

LEMMA QuietIsSettled ==
  ASSUME Typed, SerialInv, Quiet, ~flash.on
  PROVE  Settled
<1>1. pc["lamp"] = "loop" /\ \A t \in Users : AtRest(t)
  BY DEF Quiet, AtRest, Rest, Users, Tasks
<1>2. QED
  BY <1>1 DEF SerialInv, Blinking

(* The settings of the application, of the dimming library and of the SDK  *)
(* agree between the calls, when no task runs inside the call of another:  *)
(* what LampAppRace finds broken is broken by the missing mutex alone.     *)
THEOREM CopiesAlwaysAgree ==
  ASSUME ~Preempt
  PROVE  Spec => []CopiesAgree
<1>1. BlinkInv /\ SerialInv => CopiesAgree
  <2> SUFFICES ASSUME BlinkInv, SerialInv, Quiet, ~flash.on
               PROVE  app = light /\ app.on = lib.on
    BY DEF CopiesAgree
  <2>1. Typed /\ Settled
    BY QuietIsSettled DEF BlinkInv
  <2>2. app = [on |-> app.on, bri |-> app.bri] /\ light = [on |-> light.on, bri |-> light.bri]
    <3>1. app \in Params /\ light \in Params
      BY <2>1 DEF Typed
    <3>2. \A p \in Params : p = [on |-> p.on, bri |-> p.bri]
      BY DEF Params
    <3>3. QED
      BY <3>1, <3>2
  <2>3. app.on = light.on /\ app.bri = light.bri /\ app.on = lib.on
    BY <2>1 DEF Settled, Same
  <2>4. QED
    BY <2>2, <2>3, Zenon
<1>2. QED
  BY <1>1, BlinkInvAlways, SerialInvAlways, PTL

(* With no call in progress and no fade running the lamp shows the level   *)
(* of the settings the library holds, whatever fades were replaced by      *)
(* later ones before, for fades of every length.                           *)
THEOREM OutputAlwaysSettles ==
  ASSUME ~Preempt
  PROVE  Spec => []OutputSettles
<1>1. BlinkInv /\ SerialInv => OutputSettles
  BY QuietIsSettled DEF BlinkInv, OutputSettles, Settled, Aimed, Steady
<1>2. QED
  BY <1>1, BlinkInvAlways, SerialInvAlways, PTL
=============================================================================
