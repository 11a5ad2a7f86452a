------------------------------- MODULE LampApp -------------------------------
(***************************************************************************)
(* The lamp itself: the settings the application keeps, the dimming engine *)
(* that fades the output to them, the blinking that ends a factory reset,  *)
(* and the status the cloud is told.  Three FreeRTOS tasks work on them:   *)
(*                                                                         *)
(*   "lamp"   usr_app_light_task_entry (usr_app.c): every 10 ms one round  *)
(*            of myLampLoop (dimmingMain.c), _lampReportProc and the       *)
(*            factory reset;                                               *)
(*   "key"    the callbacks of the keyboard library (usr_app.c);           *)
(*   "cloud"  the callbacks of the MagicLink SDK (demo.c).                 *)
(*                                                                         *)
(* The firmware gives the dimming library no mutex, so the tasks interleave*)
(* inside a call: Preempt = TRUE.  Preempt = FALSE is the same code with   *)
(* every callback, and every round of the lamp task, run to its end before *)
(* another task runs; it separates what the logic promises from what the   *)
(* missing mutex breaks.                                                   *)
(*                                                                         *)
(* Abstractions.  A lamp has a switch and a brightness; the colour         *)
(* temperature never changes in this build, and the light mode is left     *)
(* out, with its share of MagicLinkDataRsync, which compares and reports   *)
(* it like the other two.  The output is 0, the level of a brightness, or  *)
(* Between two.  All fades last the same number of rounds, but the one of  *)
(* a single step that starts with the lamp.  The record written by         *)
(* slDataFactoryReset is the subject of ConfigStore.                       *)
(***************************************************************************)
EXTENDS Integers, FiniteSetsExt

CONSTANTS
  MaxBri,       \* LIGHT_BRIGHT_MAX; brightness is 1 (LIGHT_BRIGHT_MIN) to MaxBri
  Classes,      \* k_a_uwBriPercent, the brightness steps of a long press
  ResetHold,    \* the long press that asks for a factory reset (25)
  Blinks,       \* the toggles of a factory reset (6, three blinks)
  FlashPeriod,  \* rounds of the lamp task between two toggles
  FadeSteps,    \* rounds of a fade
  ReportDelay,  \* rounds between two reports (RL_LAMP_REPORT_INTERVAL)
  Between,      \* an output level inside a fade
  Inputs,       \* what the users of this instance do
  Preempt       \* do the tasks interleave inside a call?

Bri == 1..MaxBri

ASSUME LampAssumption ==
  /\ MaxBri \in Nat \ {0}
  /\ Classes \subseteq 0..MaxBri /\ MaxBri \in Classes
  /\ ResetHold \in Nat \ {0}
  /\ Blinks \in Nat \ {0}
  /\ FlashPeriod \in Nat \ {0} /\ FadeSteps \in 1..FlashPeriod
  /\ ReportDelay \in Nat
  /\ Between \notin Int
  /\ Inputs \subseteq {"switch", "hold", "onoff", "bri", "mode", "link", "delete"}
  /\ Preempt \in BOOLEAN

VARIABLES
  app,      \* s_stCurLampParam: the settings of the application
  lib,      \* lampStatus.lampParam: the settings of the dimming library
  light,    \* g_light: the settings the SDK reads
  view,     \* observer: the settings the cloud was last told
  flags,    \* the bits of liveData.ulFlag
  fade,     \* lampCtrl: target, rounds left, ucAdjusting
  out,      \* the output of the PWM
  flash,    \* lampCtrl: ulFlashCount, ucFlashing; delay[] of lampFlashProc
  delay,    \* free_delay of _lampReportProc
  held,     \* long-press callbacks of the press that lasts, 0 if none
  deleted,  \* the device has been deleted in the cloud since the boot
  pc,       \* where each task stands
  req,      \* the call each task serves
  seen      \* what each task has read and not yet used: a copy of app, a level

env == <<held, deleted>>
vars == <<app, lib, light, view, flags, fade, out, flash, delay, env, pc, req, seen>>

Tasks == {"lamp", "key", "cloud"}
Params == [on : BOOLEAN, bri : Bri]
Levels == {0} \cup Bri
NoReq == [op |-> "none", on |-> FALSE, bri |-> 1]
Ops == {"none", "switch", "bri", "onoff", "mode", "login"}
Nothing == [param |-> [on |-> FALSE, bri |-> 1], level |-> 0]

Rest == [lamp |-> "loop", key |-> "idle", cloud |-> "idle"]
CallSteps == {"check", "apply", "sync", "compare", "raise", "aim", "start", "go"}
LampSteps == {"loop", "step", "stepEnd", "report", "link", "send", "reset", "reboot"}
CloudSteps == {"toggle", "assign", "login", "answer"}

TypeOK ==
  /\ {app, lib, light, view} \subseteq Params
  /\ flags \in [online : BOOLEAN, window : BOOLEAN, reset : BOOLEAN, up : BOOLEAN,
                need : BOOLEAN, lightNeed : BOOLEAN]
  /\ fade \in [dst : Levels, left : 0..FadeSteps, adjusting : BOOLEAN]
  /\ out \in Levels \cup {Between}
  /\ flash \in [count : 0..(Blinks + 1), on : BOOLEAN, wait : -1..(FlashPeriod - 1)]
  /\ delay \in 0..ReportDelay
  /\ held \in 0..(ResetHold + 2) /\ deleted \in BOOLEAN
  /\ pc["lamp"] \in LampSteps \cup CallSteps
  /\ pc["key"] \in {"idle"} \cup CallSteps
  /\ pc["cloud"] \in {"idle"} \cup CallSteps \cup CloudSteps
  /\ req \in [Tasks -> [op : Ops, on : BOOLEAN, bri : Bri]]
  /\ seen \in [Tasks -> [param : Params, level : Levels]]

(* rlTaskLampInit, rlDataInit and the initial value of g_light.            *)
DefaultParam == [on |-> FALSE, bri |-> MaxBri]
BootFlags == [online |-> FALSE, window |-> TRUE, reset |-> FALSE, up |-> TRUE,
              need |-> FALSE, lightNeed |-> FALSE]
BootFade == [dst |-> 0, left |-> 1, adjusting |-> TRUE]  \* one step: lampDevStatusCtrl(i, 1)
BootFlash == [count |-> 0, on |-> FALSE, wait |-> -1]

Init ==
  /\ app = DefaultParam /\ lib = DefaultParam /\ light = DefaultParam
  /\ view = DefaultParam
  /\ flags = BootFlags /\ fade = BootFade /\ out = 0 /\ flash = BootFlash
  /\ delay = 0 /\ held = 0 /\ deleted = FALSE
  /\ pc = Rest
  /\ req = [t \in Tasks |-> NoReq]
  /\ seen = [t \in Tasks |-> Nothing]

-----------------------------------------------------------------------------
(* Scheduling.                                                             *)
AtRest(t) == pc[t] = Rest[t]
Turn(t) == Preempt \/ \A u \in Tasks \ {t} : AtRest(u)
At(t, step) == pc[t] = step /\ Turn(t)
Go(t, step) == pc' = [pc EXCEPT ![t] = step]

Done(t) ==
  /\ req' = [req EXCEPT ![t] = NoReq]
  /\ seen' = [seen EXCEPT ![t] = Nothing]
Keep == UNCHANGED <<req, seen>>

(* Where a task goes on once the library returns to it, and once the hook  *)
(* MagicLinkDataRsync, which a login calls by itself, is done.             *)
Return == [lamp |-> "step", key |-> "idle", cloud |-> "answer"]
AfterSync(t) == IF req[t].op = "login" THEN "answer" ELSE "aim"

-----------------------------------------------------------------------------
(* myLampSwitchCtrl and myLampBriCtrl, by any task; lampDevStatusCtrl, also*)
(* by a toggle of lampFlashProc.                                           *)

(* Brightness is refused while the library's lamp is off, everything is    *)
(* ignored while it blinks.                                                *)
SetsSwitch(t) == req[t].op \in {"switch", "onoff"}
Refused(t) == flash.on \/ (~SetsSwitch(t) /\ ~lib.on)

Check(t) ==
  /\ At(t, "check")
  /\ IF Refused(t) THEN Go(t, Return[t]) ELSE Go(t, "apply")
  /\ IF Refused(t) /\ t = "key" THEN Done(t) ELSE Keep
  /\ UNCHANGED <<app, lib, light, view, flags, fade, out, flash, delay, env>>

Apply(t) ==
  /\ At(t, "apply")
  /\ lib' = IF SetsSwitch(t) THEN [lib EXCEPT !.on = req[t].on]
                              ELSE [lib EXCEPT !.bri = req[t].bri]
  /\ Go(t, "sync")
  /\ UNCHANGED <<app, light, view, flags, fade, out, flash, delay, env>> /\ Keep

(* MagicLinkDataRsync, the status hook of lampDevStatusCtrl.               *)
Sync(t) ==
  /\ At(t, "sync")
  /\ seen' = [seen EXCEPT ![t].param = app]
  /\ Go(t, "compare")
  /\ UNCHANGED <<app, lib, light, view, flags, fade, out, flash, delay, env, req>>

Compare(t) ==
  /\ At(t, "compare")
  /\ light' = seen[t].param
  /\ IF light' # light THEN flags' = [flags EXCEPT !.need = TRUE] /\ Go(t, "raise")
                       ELSE UNCHANGED flags /\ Go(t, AfterSync(t))
  /\ UNCHANGED <<app, lib, view, fade, out, flash, delay, env>> /\ Keep

RaiseNothing(t) ==  \* wrong variant: the second flag is forgotten
  /\ At(t, "raise")
  /\ Go(t, AfterSync(t))
  /\ UNCHANGED <<app, lib, light, view, flags, fade, out, flash, delay, env>> /\ Keep

Raise(t) ==
  /\ At(t, "raise")
  /\ flags' = [flags EXCEPT !.lightNeed = TRUE]
  /\ Go(t, AfterSync(t))
  /\ UNCHANGED <<app, lib, light, view, fade, out, flash, delay, env>> /\ Keep

Level(param) == IF param.on THEN param.bri ELSE 0

Aim(t) ==
  /\ At(t, "aim")
  /\ seen' = [seen EXCEPT ![t].level = Level(lib)]
  /\ Go(t, "start")
  /\ UNCHANGED <<app, lib, light, view, flags, fade, out, flash, delay, env, req>>

(* myLampPwmsCtrl: the new target, then ucAdjusting.                       *)
StartFadeOnce(t) ==  \* wrong variant: a fade in progress keeps its target
  /\ At(t, "start")
  /\ fade' = IF fade.adjusting THEN fade
             ELSE [fade EXCEPT !.dst = seen[t].level, !.left = FadeSteps]
  /\ Go(t, "go")
  /\ UNCHANGED <<app, lib, light, view, flags, out, flash, delay, env>> /\ Keep

StartFade(t) ==
  /\ At(t, "start")
  /\ fade' = [fade EXCEPT !.dst = seen[t].level, !.left = FadeSteps]
  /\ Go(t, "go")
  /\ UNCHANGED <<app, lib, light, view, flags, out, flash, delay, env>> /\ Keep

GoFade(t) ==
  /\ At(t, "go")
  /\ fade' = [fade EXCEPT !.adjusting = TRUE]
  /\ flash' = IF t = "lamp" THEN [flash EXCEPT !.count = @ - 1] ELSE flash
  /\ Go(t, Return[t])
  /\ IF t = "cloud" THEN Keep ELSE Done(t)
  /\ UNCHANGED <<app, lib, light, view, flags, out, delay, env>>

Call(t) ==
  \/ Check(t) \/ Apply(t) \/ Sync(t) \/ Compare(t) \/ Raise(t)
  \/ Aim(t) \/ StartFade(t) \/ GoFade(t)

-----------------------------------------------------------------------------
(* One round of usr_app_light_task_entry.                                  *)

(* lampFlashProc.                                                          *)
FlashIdle ==
  /\ At("lamp", "loop") /\ flash.count = 0
  /\ flash' = [flash EXCEPT !.wait = -1]
  /\ Go("lamp", "step")
  /\ UNCHANGED <<app, lib, light, view, flags, fade, out, delay, env>> /\ Keep

FlashWait ==
  /\ At("lamp", "loop") /\ flash.count > 0 /\ flash.wait + 1 < FlashPeriod
  /\ flash' = [flash EXCEPT !.wait = @ + 1]
  /\ Go("lamp", "step")
  /\ UNCHANGED <<app, lib, light, view, flags, fade, out, delay, env>> /\ Keep

FlashToggle ==
  /\ At("lamp", "loop") /\ flash.count > 0 /\ flash.wait + 1 = FlashPeriod
  /\ flash' = [flash EXCEPT !.wait = 0]
  /\ lib' = [lib EXCEPT !.on = ~@]
  /\ Go("lamp", "sync")
  /\ UNCHANGED <<app, light, view, flags, fade, out, delay, env>> /\ Keep

(* lampStepProc: nothing to do, a level inside the fade, or its last one.  *)
StepIdle ==
  /\ At("lamp", "step") /\ ~fade.adjusting
  /\ Go("lamp", "report")
  /\ UNCHANGED <<app, lib, light, view, flags, fade, out, flash, delay, env>> /\ Keep

StepInside ==
  /\ At("lamp", "step") /\ fade.adjusting /\ fade.left > 1
  /\ fade' = [fade EXCEPT !.left = @ - 1]
  /\ out' = IF out = fade.dst THEN out ELSE Between
  /\ Go("lamp", "report")
  /\ UNCHANGED <<app, lib, light, view, flags, flash, delay, env>> /\ Keep

StepLast ==
  /\ At("lamp", "step") /\ fade.adjusting /\ fade.left <= 1
  /\ fade' = [fade EXCEPT !.left = 0]
  /\ out' = fade.dst
  /\ Go("lamp", "stepEnd")
  /\ UNCHANGED <<app, lib, light, view, flags, flash, delay, env>> /\ Keep

StepEndEarly ==  \* wrong variant: the blinking ends with any fade
  /\ At("lamp", "stepEnd")
  /\ fade' = [fade EXCEPT !.adjusting = FALSE]
  /\ flash' = [flash EXCEPT !.on = FALSE]
  /\ Go("lamp", IF flash.on /\ flash.count = 0 THEN "reboot" ELSE "report")
  /\ UNCHANGED <<app, lib, light, view, flags, out, delay, env>> /\ Keep

StepEndStays ==  \* wrong variant: the last fade of a reset is not recognised
  /\ At("lamp", "stepEnd")
  /\ fade' = [fade EXCEPT !.adjusting = FALSE]
  /\ Go("lamp", "report")
  /\ UNCHANGED <<app, lib, light, view, flags, out, flash, delay, env>> /\ Keep

(* The end of the last blink calls ln_chip_reboot.                         *)
BlinkingOver == flash.on /\ flash.count = 0

StepEnd ==
  /\ At("lamp", "stepEnd")
  /\ fade' = [fade EXCEPT !.adjusting = FALSE]
  /\ flash' = IF BlinkingOver THEN [flash EXCEPT !.on = FALSE] ELSE flash
  /\ Go("lamp", IF BlinkingOver THEN "reboot" ELSE "report")
  /\ UNCHANGED <<app, lib, light, view, flags, out, delay, env>> /\ Keep

(* _lampReportProc: the request is taken before the link is looked at.     *)
WaitedUnbounded == delay - 1  \* wrong variant: no floor
Waited == IF delay > 0 THEN delay - 1 ELSE 0

ReportWait ==
  /\ At("lamp", "report") /\ (Waited > 0 \/ ~flags.need)
  /\ delay' = Waited
  /\ Go("lamp", "reset")
  /\ UNCHANGED <<app, lib, light, view, flags, fade, out, flash, env>> /\ Keep

ReportTake ==
  /\ At("lamp", "report") /\ Waited = 0 /\ flags.need
  /\ flags' = [flags EXCEPT !.need = FALSE]
  /\ delay' = ReportDelay
  /\ Go("lamp", "link")
  /\ UNCHANGED <<app, lib, light, view, fade, out, flash, env>> /\ Keep

(* MagicLinkDataReport.                                                    *)
ReportLink ==
  /\ At("lamp", "link")
  /\ IF flags.online /\ flags.lightNeed
       THEN flags' = [flags EXCEPT !.lightNeed = FALSE] /\ Go("lamp", "send")
       ELSE UNCHANGED flags /\ Go("lamp", "reset")
  /\ UNCHANGED <<app, lib, light, view, fade, out, flash, delay, env>> /\ Keep

ReportSend ==
  /\ At("lamp", "send")
  /\ view' = light
  /\ Go("lamp", "reset")
  /\ UNCHANGED <<app, lib, light, flags, fade, out, flash, delay, env>> /\ Keep

(* lamp_flash_count, myLampFlashCtrl: a reset asked for while the lamp     *)
(* blinks starts the count again and keeps the parity of the toggles.      *)
TakeResetAdds ==  \* wrong variant: the toggles left are all kept
  /\ At("lamp", "reset")
  /\ IF flags.reset
       THEN /\ flash' = [flash EXCEPT !.on = TRUE, !.count = @ + Blinks]
            /\ flags' = [flags EXCEPT !.reset = FALSE]
       ELSE UNCHANGED <<flash, flags>>
  /\ Go("lamp", "loop")
  /\ UNCHANGED <<app, lib, light, view, fade, out, delay, env>> /\ Keep

TakeReset ==
  /\ At("lamp", "reset")
  /\ IF flags.reset
       THEN /\ flash' = [flash EXCEPT !.on = TRUE,
                          !.count = IF flash.on THEN Blinks + (flash.count % 2) ELSE Blinks]
            /\ flags' = [flags EXCEPT !.reset = FALSE]
       ELSE UNCHANGED <<flash, flags>>
  /\ Go("lamp", "loop")
  /\ UNCHANGED <<app, lib, light, view, fade, out, delay, env>> /\ Keep

Reboot ==
  /\ At("lamp", "reboot")
  /\ app' = DefaultParam /\ lib' = DefaultParam /\ light' = DefaultParam
  /\ flags' = BootFlags /\ fade' = BootFade /\ out' = 0 /\ flash' = BootFlash
  /\ delay' = 0 /\ held' = 0 /\ deleted' = FALSE
  /\ pc' = Rest
  /\ req' = [t \in Tasks |-> NoReq]
  /\ seen' = [t \in Tasks |-> Nothing]
  /\ UNCHANGED view

LampTask ==
  \/ FlashIdle \/ FlashWait \/ FlashToggle
  \/ StepIdle \/ StepInside \/ StepLast \/ StepEnd
  \/ ReportWait \/ ReportTake \/ ReportLink \/ ReportSend
  \/ TakeReset \/ Reboot \/ Call("lamp")

-----------------------------------------------------------------------------
(* The key task.                                                           *)

Begin(t, op, on, bri, step) ==
  /\ req' = [req EXCEPT ![t] = [op |-> op, on |-> on, bri |-> bri]]
  /\ Go(t, step)
  /\ UNCHANGED seen

(* rlLampSwitchRevert: the application's switch is toggled, the library is *)
(* given the result.                                                       *)
SwitchRevertLate ==  \* wrong variant: the library is given the old value
  /\ app' = [app EXCEPT !.on = ~@]
  /\ Begin("key", "switch", app.on, 1, "check")

SwitchRevert ==
  /\ app' = [app EXCEPT !.on = ~@]
  /\ Begin("key", "switch", ~app.on, 1, "check")

ShortRelease ==
  /\ "switch" \in Inputs /\ At("key", "idle") /\ held = 0
  /\ SwitchRevert
  /\ UNCHANGED <<lib, light, view, flags, fade, out, flash, delay, env>>

(* rlLampGetNextClassVal, and the range rlLampBriCtrlNextClass forces.     *)
ClassAbove(b) == IF b < MaxBri THEN Min({c \in Classes : c > b}) ELSE b
ClassBelow(b) ==
  IF b > Min(Classes) THEN Max({c \in Classes : c < b}) ELSE b
NextClass(up, b) ==
  LET c == IF up THEN ClassAbove(b) ELSE ClassBelow(b)
  IN  IF c < 1 THEN 1 ELSE IF c > MaxBri THEN MaxBri ELSE c

HoldLonger == held' = IF held <= ResetHold + 1 THEN held + 1 ELSE held

(* _normalKeyLongPressCb with the lamp on: the first callback of a press   *)
(* turns the direction round, and each moves the brightness one step.      *)
LongPressDims ==
  /\ "hold" \in Inputs /\ At("key", "idle") /\ app.on
  /\ HoldLonger
  /\ LET up == IF held = 0 THEN ~flags.up ELSE flags.up
         bri == NextClass(up, app.bri)
     IN  /\ flags' = [flags EXCEPT !.up = up]
         /\ app' = [app EXCEPT !.bri = bri]
         /\ IF bri # app.bri THEN Begin("key", "bri", FALSE, bri, "check")
                             ELSE UNCHANGED pc /\ Keep
  /\ UNCHANGED <<lib, light, view, fade, out, flash, delay, deleted>>

(* With the lamp off: the factory reset, while its window is open.         *)
LongPressResets ==
  /\ "hold" \in Inputs /\ At("key", "idle") /\ ~app.on
  /\ HoldLonger
  /\ flags' = [flags EXCEPT !.reset = @ \/ (held = ResetHold /\ flags.window)]
  /\ UNCHANGED <<app, lib, light, view, fade, out, flash, delay, deleted, pc>> /\ Keep

(* _normalKeyLongReleaseCb; the library counts the callbacks from 0.       *)
LongRelease ==
  /\ At("key", "idle") /\ held > 0
  /\ held' = 0
  /\ IF ~app.on /\ held - 1 < ResetHold THEN SwitchRevert ELSE UNCHANGED <<app, pc>> /\ Keep
  /\ UNCHANGED <<lib, light, view, flags, fade, out, flash, delay, deleted>>

KeyInput == ShortRelease \/ LongPressDims \/ LongPressResets \/ LongRelease

-----------------------------------------------------------------------------
(* The callbacks of the SDK.                                               *)

SetLightOnoff(v) ==
  /\ "onoff" \in Inputs /\ At("cloud", "idle") /\ flags.online
  /\ light' = [light EXCEPT !.on = v]
  /\ Begin("cloud", "onoff", FALSE, 1, "toggle")
  /\ UNCHANGED <<app, lib, view, flags, fade, out, flash, delay, env>>

Toggle ==
  /\ At("cloud", "toggle")
  /\ app' = [app EXCEPT !.on = ~@]
  /\ Begin("cloud", "onoff", ~app.on, 1, "check")
  /\ UNCHANGED <<lib, light, view, flags, fade, out, flash, delay, env>>

SetBrightness(b) ==
  /\ "bri" \in Inputs /\ At("cloud", "idle") /\ flags.online
  /\ light' = [light EXCEPT !.bri = b]
  /\ Begin("cloud", "bri", FALSE, b, "assign")
  /\ UNCHANGED <<app, lib, view, flags, fade, out, flash, delay, env>>

(* SetMode stores the brightness of the mode once the lamp has been told.  *)
SetMode(b) ==
  /\ "mode" \in Inputs /\ At("cloud", "idle") /\ flags.online
  /\ Begin("cloud", "mode", FALSE, b, "assign")
  /\ UNCHANGED <<app, lib, light, view, flags, fade, out, flash, delay, env>>

(* LampBriPercentCtrl.                                                     *)
AssignBri ==
  /\ At("cloud", "assign")
  /\ app' = [app EXCEPT !.bri = req["cloud"].bri]
  /\ Go("cloud", "check")
  /\ UNCHANGED <<lib, light, view, flags, fade, out, flash, delay, env>> /\ Keep

(* SetMode reports the service itself.  After another setter the SDK is    *)
(* assumed to: the call in SetBrightness is commented out.                 *)
Answer ==
  /\ At("cloud", "answer")
  /\ light' = IF req["cloud"].op = "mode" THEN [light EXCEPT !.bri = req["cloud"].bri] ELSE light
  /\ view' = IF req["cloud"].op = "login" THEN view ELSE light'
  /\ Go("cloud", "idle") /\ Done("cloud")
  /\ UNCHANGED <<app, lib, flags, fade, out, flash, delay, env>>

(* On a connection the SDK reports every service, then calls MyRecvStatus. *)
Upload ==
  /\ "link" \in Inputs /\ At("cloud", "idle") /\ ~flags.online
  /\ view' = light
  /\ Begin("cloud", "login", FALSE, 1, "login")
  /\ UNCHANGED <<app, lib, light, flags, fade, out, flash, delay, env>>

Login ==
  /\ At("cloud", "login")
  /\ flags' = [flags EXCEPT !.online = TRUE]
  /\ Go("cloud", "sync")
  /\ UNCHANGED <<app, lib, light, view, fade, out, flash, delay, env>> /\ Keep

Offline ==
  /\ At("cloud", "idle") /\ flags.online
  /\ flags' = [flags EXCEPT !.online = FALSE]
  /\ UNCHANGED <<app, lib, light, view, fade, out, flash, delay, env, pc>> /\ Keep

(* STATUS_DEVICE_DELETE, at most once per boot.                            *)
Delete ==
  /\ "delete" \in Inputs /\ At("cloud", "idle") /\ ~deleted
  /\ flags' = [flags EXCEPT !.reset = TRUE]
  /\ deleted' = TRUE
  /\ UNCHANGED <<app, lib, light, view, fade, out, flash, delay, held, pc>> /\ Keep

CloudInput ==
  \/ \E v \in BOOLEAN : SetLightOnoff(v)
  \/ \E b \in Bri : SetBrightness(b) \/ SetMode(b)
  \/ Upload \/ Offline \/ Delete

CloudCall == Toggle \/ AssignBri \/ Login \/ Answer \/ Call("cloud")

(* _lampFactoryResetWindowTimeoutHandle, 30 s after the boot.              *)
CloseWindow ==
  /\ flags.window /\ Turn("timer")
  /\ flags' = [flags EXCEPT !.window = FALSE]
  /\ UNCHANGED <<app, lib, light, view, fade, out, flash, delay, env, pc>> /\ Keep

Next ==
  \/ LampTask
  \/ KeyInput \/ Call("key")
  \/ CloudInput \/ CloudCall
  \/ CloseWindow

Spec == Init /\ [][Next]_vars

(* Every task is scheduled again and again, also when the others are kept  *)
(* busy, and the timer of the reset window fires.  The users owe nothing.  *)
Fairness ==
  /\ SF_vars(LampTask)
  /\ SF_vars(Call("key"))
  /\ SF_vars(CloudCall)
  /\ SF_vars(CloseWindow)

FairSpec == Spec /\ Fairness

-----------------------------------------------------------------------------
(* Properties.                                                             *)

Quiet == \A t \in Tasks : AtRest(t)

(* The lamp shows what was last asked of it: with no call in progress, no  *)
(* fade running and no blinking, the output is the level of the settings   *)
(* the library holds, whatever fades were interrupted by others before.    *)
OutputSettles == Quiet /\ ~fade.adjusting /\ ~flash.on => out = Level(lib)

(* Four copies of the settings, in usr_app.c, dimmingMain.c and demo.c,    *)
(* agree between calls; only a brightness set while the lamp is off is     *)
(* known to the application and refused by the library.                    *)
CopiesAgree ==
  Quiet /\ ~flash.on =>
    /\ app = light
    /\ app.on = lib.on

(* The cloud is told: while the device is online and the cloud's picture   *)
(* of it is out of date, a report is coming, through the two request flags *)
(* and the pause between reports.                                          *)
ChangesReported == (flags.online /\ view # light) ~> (view = light \/ ~flags.online)

(* A factory reset asked for by the key or by the cloud ends in a reboot,  *)
(* whatever the users do meanwhile.                                        *)
ResetReboots == flags.reset ~> (pc["lamp"] = "reboot")

(* A factory reset blinks to its end: once it has begun the lamp is not    *)
(* out of it before the last toggle, and the reboot finds the count at 0.  *)
BlinksToTheEnd == (pc["lamp"] = "reboot" => flash.count = 0) /\ (flash.count > 0 => flash.on)
=============================================================================
