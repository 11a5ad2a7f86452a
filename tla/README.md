# Formal models of the reading-lamp firmware

TLA+ models of the firmware in `src/ln882h-custom-imou` (an LN882H Wi-Fi/BLE
reading lamp: one key, two PWM channels, the MagicLink cloud), the TLC
configurations that check them and the TLAPS proofs about them. `PROJECT.json`
maps every definition to its source lines and lists the runs, the hazards and
the findings.

Paths below: `app/` is `src/ln882h-custom-imou/project/yankon/app/`, `comp/` is
`src/ln882h-custom-imou/components/`.

    tlc -config ConfigStore.cfg ConfigStore        # one run
    tlapm ConfigStoreProofs.tla                    # one proof module

## 1. Inventory

| Component | Source | State it keeps | Operations | What is hard | Model |
|---|---|---|---|---|---|
| Configuration store | `app/slData.c`, `app/flash.c` | one record in RAM with its CRC16, two copies in flash, the save flag | boot read and repair, factory restore, save, setters | power loss between any two flash operations, changes during a save | `ConfigStore` |
| Key/value store | `comp/fs/kv/` | flash blocks of items, block table in RAM | init, get, set, delete, garbage collection | crash recovery, stale positions and counters, full flash | `KvStore` |
| Lamp application | `app/usr_app.c`, `app/lamptask.c` | the application's copy of the settings, flags, report pause | key callbacks, lamp loop, reports, factory reset | three tasks on shared state | `LampApp` |
| Dimming library | `comp/myDimmingLib/dimmingMain.c` | its own copy of the settings, the fade, the blinking | switch/brightness control, step engine, flashing | as above; no mutex is installed | `LampApp` |
| Cloud glue | `app/demo.c` | `g_light`, the status the SDK reads | property setters, synchronisation, link status | lost links, reports, repeated commands | `LampApp` |
| HTTP client | `comp/net/httpsclient/` | receive buffer, parser state, remaining size | connect, read, parse header, body and chunks, callback | responses cut up at any byte, closed connections | `HttpGet` |
| OTA download | `comp/ln_at_cmd/ota/ln_at_cmd_ota.c` | the sector buffer, the image in the OTA partition, upgrade state, three static flags | precheck, sector write, retry, verify, reboot | partial downloads, stale flags, sector and partition boundaries | `OtaDownload`, `OtaUpgrade` |
| OTA agent (boot loader) | `comp/fota/ota_agent/` | application and OTA partitions, upgrade state | decide, erase, restore, jump | power loss during the restore | `OtaUpgrade` |
| NVDS | `comp/fs/nvds/ln_nvds.c` | two sectors and a flag sector | read, write, init | power loss during the switch of sectors, readers without a lock | `Nvds` |
| Key scanning | `comp/myKeyboardLib/myKeyboard.c` | filters, press state, counters | scan round, callbacks | bounce, thresholds, double presses, late rounds | `Keyboard` |
| Dimming curves | `comp/myDimmingLib/dimmingCurve.c` | none (pure, floating point) | step interpolation | — | not modelled |
| System parameters, partition table, CRC | `comp/utils/`, `comp/fs/partition_mgr/` | none of their own | accessors, lookup, checksums | — | not modelled |
| BLE provisioning, AT server, serial, factory test | `app/usr_ble_app.c`, `comp/ln_at/`, `comp/serial/`, `app/ln_ate.c` | stack callbacks, console | — | — | not modelled |
| FreeRTOS, lwIP, mbedTLS, MagicLink, BLE/Wi-Fi stacks | vendored or binary | — | — | — | environment only |

How they interact. `main()` (`app/main.c`) initialises the key/value store (a
failure is only logged), the configuration store (`rlDataInit`), then creates
the tasks: *LampApp* (a round every 10 ms: dimming engine, report, factory
reset, save), *KeyApp* (keyboard scan and callbacks, same priority, time-sliced)
and the SDK's tasks, which call the setters in `demo.c`. All of them act on the
lamp through the dimming library, whose hook copies the application's settings
to `g_light` and raises the report flags (`liveData.ulFlag`). The flags are the
only state protected by a mutex. A factory reset goes through a flag to the
LampApp task, which blinks the lamp, restores the configuration record and
reboots at the end of the last blink. The *http_ota* thread runs the loop of the
HTTP client, whose callback writes an image into the OTA partition, and sets the
upgrade state in the NVDS store; the boot loader, a program of its own
(`project/bootcode/bootload`), reads it at every start. The download of
`ln_at_cmd_ota.c` belongs to the AT command set, which the yankon build leaves out
(`LNAT_CMD_SRC` in `ProjModuleCollect.cmake`): the lamp downloads with the
MagicLink library, a binary. It is the only source in the repository of what the
boot loader's agent expects in the OTA partition.

What makes each component correct:

* configuration store — a boot always finds the last saved settings, whatever
  flash operation the power loss interrupts; a settled change reaches flash;
* key/value store — it is a dictionary whose updates are atomic under power
  loss; garbage collection and boots change nothing stored; the store stays
  usable; every call returns;
* key scanning — contact bounce is no press, every press is answered once, as a
  short or as a long one;
* HTTP client and download — what is stored is the body, byte for byte, wherever
  a receive ends, and nothing outside the partition is touched;
* lamp — output, library, application and cloud agree once the users leave the
  lamp alone; a reset that was asked for happens;
* NVDS — a write of one field is atomic and durable, the other fields never
  change, a concurrent read returns a value the field had;
* OTA — the lamp boots a complete image, or restores one, whenever the power
  fails, and an upgrade is all or nothing; the exception is an accepted archive
  that does not unpack, which ends in a boot loader that stops.

## 2. Modules

| Module | Models | Correspondence |
|---|---|---|
| `AtomicConfig` | what the configuration store promises | one durable value, replaced at once |
| `ConfigStore` | `slData.c` on `flash.c` | `main`/`backup` are the two sectors, `ram` and `crc` the record in RAM; one action per flash operation of `rlDataWriteConfigData` and `rlDataReadConfigData`; `SetConfig`/`SetFlag` are the two statements of a setter |
| `ConfigStoreProofs` | theorems about `ConfigStore` | |
| `AtomicKv` | what the key/value store promises | a dictionary and at most one call in progress |
| `KvStore` | `ln_kv.c`, `ln_kv.h` | `flash` is the partition, `mgr` the block table with its counters, `pc`/`op`/`gc`/`scan` the locals of the call, of the collection and of the boot; one action per flash program or erase |
| `KvStoreMC` | symmetry for TLC | |
| `KvStoreProofs` | theorems about `KvStore` | |
| `KvAtomicProofs` | theorems about the content of `KvStore`: it implements `AtomicKv` | |
| `LampApp` | `usr_app.c`, `lamptask.c`, `dimmingMain.c`, `demo.c` | `app`, `lib`, `light` are the three copies of the settings, `fade`/`flash`/`out` the dimming engine, `flags` the bits of `ulFlag`, `pc`/`req`/`seen` where each task stands and its locals; one action per statement group that touches shared state |
| `LampAppProofs` | theorems about `LampApp` | |
| `KeyEvents` | what the keyboard library promises its application | the callbacks of a round, the count of the press, the long-press callbacks so far (`held` of `LampApp`) |
| `Keyboard` | `myKeyboard.c`, the key task of `usr_app.c` | `key` is the filtered key, `ctrl` the state machine's record; one `Round` per `myKeyboardLoop`, one action per branch of the state machine; `pin` is the contact |
| `KeyboardProofs` | theorems about `Keyboard` | |
| `AtomicNvds` | what the NVDS store promises | a record, one write in progress |
| `Nvds` | `ln_nvds.c` | `data`, `magic`, `flag` are the three sectors; one action per flash operation of `ln_nvds_write` and `ln_nvds_init`; `reader` is a second task inside `ln_nvds_read`, one action per flash read; `current`, `overlaps` observe it |
| `NvdsProofs` | theorems about `Nvds` | |
| `AtomicUpgrade` | what an upgrade promises | the installed image and the running one |
| `OtaUpgrade` | `ln_at_cmd_ota.c`, `ota_agent.c`, `ota_image.c` | `app`, `ota` are the partitions block by block, `upg` the upgrade state (one value: what `Nvds` shows of a field), `precheckOk`/`ready` the statics of the download; the agent's decision is `Verdict`, one action per block erased or written |
| `HttpGet` | `httpsclient.c` | `response` and its tokens are the wire, `got` what the socket has returned, `parser` the state of `http_parse`; one action per way through its loop, `step` what `http_get_with_callback` does next |
| `OtaDownload` | `ln_at_cmd_ota.c` on `HttpGet` | `buffer`/`offset`/`allocated` are `temp4K_buf`, `flash` the sectors from the OTA partition on, the next partitions included, `precheckOk`/`ready` the two statics |
| `OtaDownloadMC` | the files of the run | |
| `OtaDownloadProofs` | theorems about `OtaDownload` and the `HttpGet` it extends | |
| `OtaUpgradeMC` | the images of the run | |
| `OtaUpgradeProofs` | theorems about `OtaUpgrade` | |

Composition. `Keyboard` implements `KeyEvents` (`CallsInOrder`), and `KeyEvents`
is what the key task of `LampApp` assumes of its inputs: `ShortRelease`,
`LongPressDims`/`LongPressResets` and `LongRelease` come in the order it allows,
and `held` is its `held`. `OtaDownload` EXTENDS `HttpGet` and implements the
download actions of `OtaUpgrade` (`DownloadSteps`: an attempt, blocks in order, a
block that may come out wrong, the accepting write), which `OtaUpgrade` composes
with the boot loader and with power losses. `OtaUpgrade` in turn implements
`AtomicUpgrade`. The upgrade state of `OtaUpgrade` is one field of `Nvds`, whose
atomicity `AtomicNvds` states.

Definitions marked "wrong variant" are plausible mistakes in the code (a
dropped guard, a swapped order). No specification uses them: `PROJECT.json`
("mutants") names the definition each replaces and the property that then fails.

What the models abstract: contents of records and values are model values; a
CRC is right or wrong; an erase happens entirely or a sector is unusable; the
brightness scale has two levels, a fade two rounds. What they keep: every flash
operation, every early return, the order of the statements that touch shared
state, the counters and flags the code decides on.

## 3. Runs

| Run | Instance | Checks | States |
|---|---|---|---|
| `config_store` | 3 settings, setters in the saving task (as in the firmware) | `TypeOK`, `OneValidCopy` (never both copies bad once provisioned), `PhaseInv` (the inductive invariant of the proofs), `SaveIsAtomic` (refinement of `AtomicConfig`), `ChangesReachFlash` (liveness) | 263 |
| `kv_store` | 3 blocks of 2 units, 2 keys, 2 values, power loss everywhere but in the two windows of the findings | `TypeOK`, `GetReturnsStore`, `TableMatchesFlash`, `GcRepaired`, `InitSucceeds`, `CallsAreAtomic` (refinement of `AtomicKv`), `FailsOnlyWithoutSpare` | 326 089 |
| `kv_full` | 2 blocks of 3 units, items of two sizes | `GetReturnsStore`, `TableMatchesFlash`, `CallsAreAtomic`, `FailsOnlyWithoutSpare` for full blocks, and `CallsReturn` (liveness) | 136 350 |
| `lamp` | short presses, all cloud commands, links that come and go, callbacks not interleaved | `TypeOK`, `OutputSettles`, `CopiesAgree`, `ChangesReported` (liveness) | 65 048 |
| `lamp_reset` | long presses and device deletion, tasks interleaved inside their calls | `BlinksToTheEnd`, `ResetReboots` (liveness) | 182 982 |
| `nvds` | 3 fields, 2 values, power loss at every flash operation, a reader in another task | `TypeOK`, `ReadsCurrent`, `WritesAreAtomic` (refinement of `AtomicNvds`) | 104 839 |
| `keyboard` | the firmware's filter and times in rounds of 10 ms, rounds in time, late, and later than the double-press window | `TypeOK`, `Debounced`, `CallsInOrder` (refinement of `KeyEvents`), `PressAnswered` (liveness) | 74 440 |
| `ota_download` | sectors of 4 bytes, receives of 1 to 4 tokens, bodies by length, chunks and close, 5 files of 2 releases (the running one among them), 2 connections | `TypeOK`, `NothingLost`, `CompleteVerifies`, `NeighboursKept`, `DownloadSteps` (implements the download of `OtaUpgrade`) | 542 476 |
| `ota_upgrade` | 7 images of 2 releases, 3 blocks, every kind of download failure, power loss between any two flash operations | `TypeOK`, `LostOnlyToArchive`, `UpgradeIsAtomic` (refinement of `AtomicUpgrade`), `UpgradeCompletes` (liveness) | 119 104 |
| `kv_orphan`, `kv_stale_done`, `lamp_race` | see the findings | one property each, violated | |

Bounds. Two copies and three settings are all `ConfigStore` needs: settings are
only compared. For `KvStore`, 3 blocks are the smallest partition where a
collection, its destination and a block in use are three (the firmware has 4);
2 keys and 2 values give an update, a delete and a bystander, 2 or 3 slots give
blocks that fill up; `kv_full` has the two blocks in which the spare block is
lost. `CounterSize` (4) stands for the 2^16 of `num_inuse`: the counter does
drift (see the end of section 4), so a bound that wraps is reached. For `LampApp`, two
brightness levels, fades of two rounds and two rounds between blinks give a
fade that is interrupted, one that ends and one lost; a reset toggles twice
instead of six times (the parity rule needs two); the reset is asked for by the
second long-press callback instead of the 26th. Reports are two rounds apart
(`ReportDelay` 2, `RL_LAMP_REPORT_INTERVAL` in the code), so a request may find the
pause and wait. `Inputs` says what the users of
a run do: the long press multiplies the states of `lamp` by a hundred and is
checked in `lamp_reset`. `Nvds` has the version field and two others, so that a
write has a field before it, one after it, and a bystander; two values make one
write that changes the field and one that does not happen. `overlaps` stops at 2:
`ReadsCurrent` speaks of at most one. `OtaUpgrade` has three blocks (a header, a
block where a restore or download is cut in the middle, the last one that
`ota_persistent_finish` writes); the images are the least that tell the code's
comparisons apart: two releases, two images of one release, an archive of one of
them, an archive that does not unpack, a kind the agent refuses, and one whose
sizes the precheck refuses.

`Keyboard` has the numbers of `usr_app.c` (filter 3, long press 1000 ms repeated
every 200 ms, double press 100 ms) divided by the 10 ms of a round. `LongMax` 27
is above the 25 of the application; later long-press callbacks are not counted.
A late round of 11 periods closes the double-press window by itself. `OtaDownload`
has two sectors in the partition and two behind it, so that a file may end in the
partition, fill it, and reach behind it; a sector of four bytes has a last byte
(the flush at `SECTOR_SIZE - 1`), a first and two inner ones. A receive buffer of
four tokens, a whole sector, makes a receive end before, inside and behind a line
end and a chunk of five bytes larger than the buffer; two connections give an attempt that
inherits the buffer and the flags of another. A buffer larger than a sector cannot
happen (2 KB against 4 KB), nor in the run (4 against 4).

Deadlock checking is off in the `KvStore` runs (a store whose `ln_kv_init` failed
really stops) and in `ota_download` (one power cycle, which ends with the reboot
or with `MaxAttempts`).

Fairness. `ConfigStore`: `main()` runs to the scheduler; the LampApp task comes to
its test of the save flag in every round, whatever setters it calls before. That
is strong fairness of the save: inside a setter, which the same task runs, it is
disabled. Nothing is assumed of changes or power losses — `ChangesReachFlash`
speaks of behaviours where both stop. `Keyboard`: the key task runs for ever
(`WF(Scan)`); nothing is assumed of the key — `PressAnswered` speaks of a key that
is left alone. `KvStore`: a call in progress goes on unless power is lost.
`LampApp`: each task is scheduled again and again. It is strong fairness,
because with `Preempt = FALSE` a task waits for another's call to end; with
`Preempt = TRUE` the lamp task is always enabled and weak fairness is the same.
The window timer (30 s, one shot) fires. Users owe nothing. `OtaUpgrade`: the
boot loader's only thread runs (`WF(Agent)`) and so does a download thread that
has its image (`WF(Leave \/ Accept \/ Reboot)`); nothing is assumed of servers,
connections or the power supply — `UpgradeCompletes` lets the power go off.

`Preempt`. In the firmware the dimming library has no mutex and the tasks have
the same priority, so `Preempt = TRUE` is the firmware. `Preempt = FALSE` runs
every callback and every lamp round to its end; the `lamp` run shows what the
logic guarantees when callbacks do not collide (a person pressing a key while
no cloud command arrives), `lamp_race` what a collision breaks.

## 4. Findings

1. `kv_orphan` — a power loss after a collection erased its source block and
   before the destination is tagged `gc_done` leaves a destination no boot
   repairs or reads; with that window allowed `CallsAreAtomic` fails too (items
   already stored are lost).
2. `kv_stale_done` — a destination that still bears the `gc_done` tag of an
   earlier, empty collection is not recognised after a power loss; with no
   other fresh block every later `ln_kv_init` fails.
3. `lamp_race` — the library header wants a mutex when an OS is used, the
   application passes `NULL`: a fade started while another ends is lost, and
   the lamp stays lit although it is off (or the reverse). Installing a plain
   mutex would not do: `myLampSwitchCtrl` holds it while `myLampPwmsCtrl` takes
   it again, and `lampStepProc` never takes it.

Each is quoted with the line it disagrees with in `PROJECT.json`. Seen while
modelling and listed as hazards, because no document says what is meant: a
report lost because `RL_FLAG_MAGIC_REPORT_NEED` is raised before
`..._LIGHT_NEED`; a brightness set while the lamp is off, which the library
refuses and the cloud shows; `num_inuse`, one too high after the walk of the
empty destination of a collection; the last fresh block, written although garbage
could have been collected when a boot has made it the workspace; an archive with
right checksums that does not unpack, for which the application is erased at
every boot; the cloud's on/off command, which toggles whatever it is asked.

Seen in the download: a call that brings the buffer to one byte less than a sector
flushes it, the sector lacks its last byte, and a correct file fails its
verification (`CompleteVerifies` is stated for downloads without such a sector).
A connection the server closes within the body is no error for the HTTP client: it
returns the bytes delivered so far, and the thread, which looks only whether there
were any, leaves with a part of the file and does not try again, although its
comments say "retry if something is wrong" and "just download once if everything is
ok" (`ln_at_cmd_ota.c` 306, 309; `GiveUp`). The part does not verify, and nothing
else about it is checked: `OtaUpgrade` allows both the retry and the end.
A body that has neither a length nor chunks ends with the connection:
`http_get_with_callback` leaves its loop at that point without the finishing
callback, the sector begun is never written, and a file that has come completely
never verifies (`CompleteVerifies` excludes this framing by name; the other two
must verify).
A file that fills the partition exactly, and an original image between the 680 KB
of the OTA partition and the 1200 KB of the application's, which the precheck lets
through, are written over the partitions behind (`NeighboursKept` excludes them).
A body shorter than a sector is written without a precheck, with what an earlier
attempt left in the buffer: harmless, because it does not verify. A receive that
ends between the CR and the LF of a chunk is taken for a parse error and costs a
retry. `httpc_ota_started` stays set after a malformed AT command.

Seen in the keyboard: a tap whose window closes in the round in which the next
press is accepted has no answer of its own (`KeyEvents` says "lost"), and a tap
followed by a long press is answered by the long press alone. The comments at
`app/usr_app.c` 443 and 475 ("long press without pressing", "at power-on") fit a pin that
reads high at the start, which `Init` allows: it becomes a long press like any
other.

## 5. Proofs

`ConfigStoreProofs` proves, for every set of settings:

* `TypeCorrect` — `Spec => [](TypeOK /\ LoadedInv)`, with no assumption on the
  setters;
* `NeverBothCorrupt` — `Spec => []OneValidCopy`, for setters that do not
  preempt a save (`~SettersPreempt`, the firmware's situation: they are called
  by the task that saves). `OneValidCopy` is not inductive: a step of a save
  erases a sector, and only `PhaseInv` says which sector is valid in each phase
  (main once programmed, the backup until then, RAM during a repair). `IInv`
  is `TypeOK`, `PhaseInv` and `OneValidCopy`; one lemma per group of actions
  shows it is kept (boot, save, setters, power loss);
* `SaveIsPhased` — `Spec => []PhaseInv` under the same assumption;
* `Refinement` — `Spec => SaveIsAtomic`. The step that commits a save is the
  erase of the backup: before it a boot would load the old settings from the
  backup, after it the new ones from the main sector. Every other flash
  operation is a stutter of `AtomicConfig`.

`NvdsProofs` proves, for any number of fields and any values:

* `TypeCorrect` — `Spec => []TypeOK`; `Invariance` is the inductive invariant.
  `PhaseInv` says which sector is written and which one is complete at each step
  of a write, and that a flag that is neither marker goes with a complete second
  sector once the store is formatted;
* `ReadsAreCurrent` — `Spec => []ReadsCurrent`. The strengthening (`ReaderInv`)
  relates the sector a reader has chosen, or is about to choose after its first
  comparison, to the phase of the write that overlaps it;
* `AtomicWrites` — `Spec => WritesAreAtomic`. The commit point depends on the
  direction: a write of the second sector commits when the flag is erased (a
  flag that is neither marker means the second sector), a write of the first one
  when the flag is programmed.

`OtaUpgradeProofs` proves, for any images and any number of blocks:

* `TypeCorrect` — `Spec => []TypeOK`;
* `LampLostOnlyToArchive` — `Spec => [](TypeOK /\ LostOnlyToArchive)`: the
  application partition holds a complete image, or the OTA partition an accepted
  one of a kind the agent restores (`Recoverable`), and a boot that comes to nothing
  has the second with an archive that does not unpack. In that state every later
  boot comes to nothing too: the property does not say that the lamp can always be
  started. It is not inductive: the invariant adds how far the erase, the restore and the
  download have come, that the boot loader works only from a complete image
  that the upgrade state points to, and that only the first block can come from an
  image of a kind the precheck refuses (a short response is written unchecked), so
  that no complete one does;
* `AtomicInstall` — `Spec => UpgradeIsAtomic`. What is installed changes when a
  complete download is accepted; erase, restore and every later boot stutter
  until the agent jumps.

`KeyboardProofs` proves, for any depth of the filter, any press times and any
delay of the key task:

* `TypeCorrect` — `Spec => []TypeOK`;
* `NoBounce` — `Spec => Debounced`. The strengthening (`FilterInv`) says what
  the filter remembers of the samples since the pin changed;
* `PressesAnsweredOnce` — `Spec => CallsInOrder`. A round is split at `Mid`, the
  state between the end of the double-press window and the state machine; one
  lemma per branch of the state machine shows that the callbacks of both halves
  are together one step of `KeyEvents`. `PressInv` supplies why: the window opens
  with the press or before it, so it is closed when the press becomes long, and
  an answer is owed exactly as long as one can still be given.

`LampAppProofs` proves, for any number of levels, toggles, fade rounds and
rounds between blinks:

* `TypeCorrect` — `Spec => []TypeOK`, with the three tasks interleaved inside
  their calls, as in the firmware;
* `BlinksAlways` — `Spec => []BlinksToTheEnd`, interleaved too. The
  strengthening (in `Typed`) says that the lamp task stands in a toggle of its own
  only with a blink left to count, whatever the other tasks' calls do meanwhile;
* `CopiesAlwaysAgree`, `OutputAlwaysSettles` — `[]CopiesAgree` and
  `[]OutputSettles` under `~Preempt` (`lamp_race` refutes the second without it).
  `Serial` says that at most one call is in progress; `CopiesInv` says, for each
  step of a call, which of the copies already agree, and `FadeInv` when the
  fade in progress leads to the level the settings say.

`KvStoreProofs` proves, for any number of blocks and slots, any keys, values and
item sizes:

* `TypeCorrect` (`TypeOK`), `TableAlwaysMatches` (`TableMatchesFlash`),
  `GcAlwaysRepaired` (`GcRepaired`), `InitAlwaysSucceeds` (`InitSucceeds`) and
  `FailuresExplained` (the action property `FailsOnlyWithoutSpare`), all from one
  inductive invariant (`Invariance`) with one lemma per action.

None of the properties is inductive by itself: they speak of the state between
calls, and the invariant says what holds inside them. `TableInv`: an entry
describes its block, except those a boot has not reached or a collection has taken
(`Unlisted`) and, by a known amount (`Ahead`, `Filling`), the block being written.
`TagsInv`: which tags each step leaves, so that a power loss always leaves
something `Mendable` — at most one source, at most one unfinished destination,
and an empty block if only the source was marked. `ScanInv` is what a boot has
found so far, `GcInv` what is copied so far, `OpInv` that the item being
replaced is still somewhere in the table (`ReplacedIsThere`, why `kv_item_fix`
finds it after a collection), `WriteInv` the item being written, `SpareInv` when
the workspace is no block. The theorems assume `~LossBeforeDone` and
`~LossStaleDone`, the two windows of findings 1 and 2, in which `GcRepaired`
and `InitSucceeds` are false. The invariant was model-checked on the instances of `kv_store`
and `kv_full` first. `WalkUpTo`, what a search does to the entries of the blocks it
passes, is stated without recursion for these proofs: it changes each entry once.

`KvAtomicProofs` proves, under the same assumptions:

* `GetAlwaysReturnsStore` — `Spec => []GetReturnsStore`: between calls, what
  `ln_kv_get` finds by the block table is what the flash holds;
* `AtomicCalls` — `Spec => CallsAreAtomic`: `KvStore` implements `AtomicKv`.

`Store` chooses among the copies of a key that are in flash, so both rest on how
many copies each step leaves (`Copied`), on top of `IInv`. Outside a boot, a
collection and the end of an update there is at most one (`Single`). An update
adds a second one that names the first as its predecessor until `DiscardOld`
(`UpdateCopies`), a collection one in the destination with the same content,
which `Kept` leaves out while the source is tagged (`GcCopies`). A power loss in
either leaves `BootCopies` — pairs, linked by `prev`, and only when no
collection was interrupted — and the boot discards the older of each pair as its
cursor comes past the newer (`ScanCopies`), before any collection can copy them
both. The cursor may meet a pair whose positions were reused, where each item
names the other's place; `Pair` and the lemma `DropOverruled` show that the one
discarded is the one `Store` does not choose. `Replaces` says of the call in
progress that it still changes something: the value differs from the stored one
until it is written. A step is then either quiet (`Quietly`: boots, collections,
lookups, the search for a block, the header and the magic of an item) or the
step of the dictionary of that name: the write of the body is its `Succeed` or,
when an old item is left to be discarded, its `Apply`, and `DiscardOld` is
`Succeed`.

`OtaDownloadProofs` proves, for any images, any lengths of bodies and chunks, any
receive buffer and any sector size:

* `TypeCorrect` — `Spec => []TypeOK`; that `flushed` stays within `Top` is not a
  matter of types: it needs the number of bytes that have come in;
* `NothingIsLost` — `Spec => []NothingLost`: the flushed sectors and the buffer
  are the body as far as the parser has come;
* `CompleteAlwaysVerifies` — `Spec => []CompleteVerifies`: a thread that leaves
  behind a file of the announced size has it complete, unless a sector was cut
  short, an error or a refusal ended the attempt, the peer closed before all had
  come, or the close itself told the end. The case to prove is that of a connection
  closed behind the last byte of a body with a length or chunks: `Told` says when
  `Wire` itself tells its end and `Remains` that before that end something is left
  to read, so that the client has parsed the end, and called the finishing callback,
  before it can see the close (`Through`);
* `NeighboursAlwaysKept` — `Spec => NeighboursKept`;
* `DownloadIsAsSpecified` — `Spec => DownloadSteps`: each step is one of the
  download's in `OtaUpgrade`, or a stutter. A block of `OtaUpgrade` is the image
  that owns the sector (`Holder`); its first cell shows that it can only be the one
  received (`OwnerFirst`, `BlockHeld`).

`NothingLost` says nothing of where the parser is, and the parser nothing of the
buffer, so the invariant has a half for each. `HttpInv`: `ParserAt` says where in
the response the parser stands — in front of a header line; in a body told by
its length or by the end of the connection; between two chunks, perhaps with the
LF of the one before still to come; in a chunk; behind the last — and that
`Passed` and the bytes still expected fit that place. Hence what is delivered next
is the bytes that follow (`DeliveredBytes`) and their number never exceeds the
body. `Gathers`: what is flushed and buffered is a prefix of the body, a buffer is
never left with room for less than two bytes, an empty buffer behind a sector
is blank (so the end of a response cannot make a block of another image), and as
long as every sector is whole, sector `s` holds the bytes from `s * Sector` on. The
step that flushes a sector needs `RecvMax <= Sector` (what is left of a receive fits
into the emptied buffer; 2048 against 4096), which is part of `DownloadAssumption`.
The layout of a response, a row of chunks made by `FlattenSeq`, is established
first (`WireFacts`: which token is at which place of which chunk). That is
an induction over the chunks; it is done with sets of numbers (`AllNumbers`, from
the least counterexample), because the library's induction rule takes an
operator, and so is the existence of the function `FlattenSeq` chooses
(`JoinExists`). The invariant was model-checked on the instance of `ota_download`
as well.

The assumptions on constants are `ConfigAssumption`, `NvdsAssumption`,
`KvAssumption`, `LampAssumption`,
`OtaAssumption` (the markers are not data, an archive bears the release of the
image it holds), `HttpAssumption`, `DownloadAssumption` (an image reaches into the
last sector of the partition, the way `OtaUpgrade` looks at it) and `KeyboardAssumption` (the double-press window is no longer
than a long press, which repeats no slower than it starts: 100, 1000 and 200 ms
in `usr_app.c`); further the one on the setters (`~SettersPreempt`), `~Preempt`
and the two windows where they are named above. Model-checked only: liveness
(`ChangesReachFlash`, `CallsReturn`, `ChangesReported`, `ResetReboots`,
`UpgradeCompletes`, `PressAnswered`), which is out of the prover's reach, as is
`ENABLED`. Every other property of a passing run is the subject of a theorem.

## 6. Not modelled

* A torn flash record whose CRC16 happens to match; flash wear and read errors.
* The factory-test record of `slData.c`, default values, names.
* Colour temperature and scenes: no input of this build reaches them.
* What `MagicLinkReset` does inside the SDK; the SDK's own threads beyond the
  order of the callbacks seen in the logs (`src/yankon_docs/log`): it reads the
  status of every service, then reports the login.
* OTA: what a file that is too long puts into the partitions behind, except that the
  upgrade state in the NVDS store may be lost (`StateOverwritten`: it reads as no
  state; bytes that happen to spell another state are left out);
  memory shortage, a partition that decays by itself, the boot loader's jump
  to the OTA partition on a magic idle-register value, a damaged partition table,
  the AT command that starts the thread. The MagicLink library's own download is
  binary.
* HTTP client: uploads, cookies, redirects, URLs, TLS, a line that does not fit the
  buffer, a server that breaks the protocol other than by closing.
* Key/value store: values of length 0. `ln_kv_set` takes one and returns success,
  `kv_item_hdr_verify` rejects the item (`ln_kv.c` 395-399), and it is never found
  again; the callers of this build store structures and names.
* Lamp: the light mode, its comparison in `MagicLinkDataRsync` and the report of it
  (`app/demo.c` 588-593). That the SDK tells the cloud what it has just set is an
  assumption (`Answer`): the report in `SetBrightness` is commented out. `lamp`
  runs calls to their end, so `OutputSettles`, `CopiesAgree` and `ChangesReported`
  say nothing of colliding calls; the report lost between the two flags above is
  one.
* Keyboard: several keys at once and key matrices (this build registers one key),
  the rotary key (not in the build).
* Dimming curves and colour conversions: floating point.
* NVDS: the OTP parameters, two tasks writing at once (the callers never do).
* Everything marked "not modelled" in the inventory.

Of the 640 000 lines of C in the repository, all but some 20 000 are FreeRTOS, lwIP,
mbedTLS, CMSIS, the BLE and Wi-Fi headers, the AWS and Tencent SDKs, drivers of the
chip and demonstration projects. The models cover the firmware's own stateful
logic; they do not, and are not meant to, cover the vendored code.

## 7. Plan

Done: `ConfigStore`, `Nvds`, `OtaUpgrade`, `Keyboard`, `LampApp`, `KvStore` and
`OtaDownload` with `HttpGet`, with proofs of all their safety properties and
refinements. Next, in this order: the torn record whose CRC matches, as a
nondeterministic outcome of a power loss in `ConfigStore` and `Nvds`; a setter that
preempts a save, which this build does not have, with the property that the CRC of the
stored record is always that of its content; the AT command that starts the
download, with `httpc_ota_started`.
