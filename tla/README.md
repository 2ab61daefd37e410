# A TLA+ model of the Nivona BLE emulator

The emulator is an ESP32 firmware that pretends to be a Nivona coffee machine:
it answers the machine's BLE protocol, brews imaginary drinks, runs imaginary
cleaning cycles, and asks for water. What makes it hard to get right is that
several preemptive FreeRTOS tasks drive the same few static variables: the
NimBLE host task (BLE requests), the UART console, a task per telnet session,
the touch UI, and one worker task per brew and per maintenance cycle. Each file
protects its own state with its own mutex, and nothing protects a decision that
involves two files.

This directory models that core and checks it with TLC and TLAPS.

## 1. Inventory

| Component | State | Operations | Talks to | Hard part | What makes it correct |
|---|---|---|---|---|---|
| status block `nivona_fsm.c` | `s_status` (process, sub_process, manipulation, progress) | setters, `reset_to_ready`, `get`/`pack` | everybody; read by HX answers and pushes | one cell, many writers, each setter its own critical section | it shows what really runs, and settles at READY |
| brew orchestrator `nivona_brew.c` | `s_active`, `s_cancel`, `s_arg`, `s_task` | `brew_start`, `brew_cancel`, `brew_task` | status block, tanks, prompts, registers | check-then-act over other files' state; cancel by a flag | one brew; it runs what was accepted; cancel obeyed; charged once or never |
| maintenance cycles `nivona_maint_cycle.c` | `s_active`, `s_kind` | `cycle_start`, `cycle_task` | status block, prompts, registers, filter gauge | mirror image of the brew's check; codes that collide | one cycle, never next to a brew, reported as itself |
| prompts `nivona_maint.c` | none of its own | `reevaluate`, `handle_confirm`, `cold_start` | tanks, parts, family, status block | read many, then write one, nothing held | the prompt is the strongest one called for |
| tanks and parts `nivona_consumables.c` | levels, parts, two NVS blobs | get, set, adjust, reset, restore | brew, prompts, console, UI | persisted after the lock is released | what is stored is what was last set |
| families `nivona_families.c` | `s_current`, `s_restored`, NVS | current, set, recipe lookup | nearly everybody | a switch while something runs | nobody mixes two families' codes |
| register store `nivona_store.c` | number and text tables, NVS, a static batch | get, set, erase, batch, seed | HR/HW/HD/HA/HB, brew, cycles | no lock; two copies; power loss; a full table | memory and NVS agree; counters lose nothing |
| statistics `nivona_stats.c` | tables, a lazily built one | current, has_recipe_counter | store, brew, cycles | lazy initialisation by two tasks | a register is counted only where the family has it |
| frame codec `nivona_frame.c`, `nivona_crypto.c` | parser buffer, handshake flag, key prefix | feed, try_parse, send, reset | GATT below, dispatcher above | fragments, loss, terminator inside ciphertext, chunks of concurrent senders | a frame is dispatched whole or not at all |
| dispatcher `nivona_dispatch.c` | none | one handler per command | everything above | reads the family twice for one request | one answer per request |
| BLE link `nivona_gatt.c`, `nivona_ble.c` | connection, subscription | connect, disconnect, subscribe, notify, advertise | NimBLE, frame codec | notifies from tasks that race a disconnect; failed advertising | a peer that did not subscribe gets a left-over status at most; it advertises again |
| console `nivona_cli.c`, telnet `nivona_telnet.c` | static argument tables; one client descriptor | commands; accept, evict, mirror logs | all orchestrators | two consoles at once; recycled descriptors | the old session ends and only it |
| Wi-Fi `nivona_wifi.c`, OTA `nivona_ota.c` | failure counter, timer; partition | reconnect, upload | console, boot | back-off, counter wrap; broken uploads | it reconnects; only whole images boot |
| touch UI `nivona_ui.c` | screens, what the home screen was last drawn from | taps, a poll every 150 ms | orchestrators, status block | one more caller; a poll reads several files one after the other and redraws only changes | what it is left showing is what is |
| boards, display and touch drivers | registers | set-up | hardware | none for a model | - |

Hazards are listed one by one, with the line where each bites, in
`PROJECT.json`; the last section below says which no property covers yet.

## 2. Modules

Written, in the order of the plan:

1. `Families` - the constant tables: families, recipes, ramps, prompts, cycle
   codes. No state.
2. `BrewJob` - the abstract specification: what a caller may rely on when it
   asks for a brew.
3. `Machine` - status block, brew and cycle orchestrators, prompts, and the
   callers, composed. This is the core.
4. `MCMachine` - the small instances TLC runs and their symmetry.
5. `MachineSafety` - theorems about `Machine`: types, safety, refinement; and
   `MachineSolo`, which extends it with what holds for one caller at a time.
6. `Statistics` - which registers a family counts brews and cycles in, and the
   gauges. No state.
7. `Registers` - the register store in memory and flash, and the three tasks
   that write it; `MCRegisters` its instance, `RegistersSafety` its theorems.
8. `Frame` - the request parser, as functions of a buffer and a byte.
9. `Link` - advertising, connection, session, requests and notifications, with
   a client; it extends `Frame`. `MCLink` its instance.
10. `LinkSafety` - theorems about `Link`: types, connection, session; and
    `LinkHears`, which extends it with what the parser hears of the stream.
11. `Tanks` - levels and parts in memory and flash; `MCTanks` its instance,
    `TanksSafety` its theorems.
12. `Telnet`, `Firmware`, `Wifi` - the console over telnet, updates over the
    air, the station - and `Network`, which composes them; `MCNetwork` its
    instance, `NetworkSafety` theorems about the composition.
13. `Panel` - the touch panel on top of `Machine`, which it extends; `MCPanel`
    its instance, `PanelSafety` its theorems.

`Registers`, `Tanks` and `Link` stand next to `Machine` and are not composed with
it: `Machine` is about *whether* a brew is charged and *when* a status is pushed,
`Registers` about what one charge does to the store (with `MayOverlap` for the
case that a brew and a cycle do run together), `Tanks` about what one change of a
tank does to memory and flash, `Link` about a push at any time. `Panel` is
composed with `Machine`, whose actions its taps call; the three network services
are composed in `Network`, because they share descriptors and restarts.

### How `Machine` corresponds to the code

A *client* is any task that calls the public functions; a *brew task* or *cycle
task* is a task control block `xTaskCreate` can hand out (two of each, so that
the model can tell a new task from one about to delete itself). `pc[p]` says
where a task stands. One step is what a task does under one mutex or in one
unlocked access; every other interleaving is allowed, and all shared variables
carry the names of the code (`process`, `manipulation`, ... for the fields of
`s_status`; `brewActive`, `brewCancel`, `brewArg` for the statics of
`nivona_brew.c`; `cycleActive`, `cycleKind` for those of
`nivona_maint_cycle.c`).

* `nivona_brew_start` is `BrewStart` (selector check), `BrewCheckCycle` (cycle
  lock), `BrewCheckPrompt` and `BrewCheckSoft` (the status block is read once
  and then once more), and one of `BrewBusy`, `BrewClaim`, `BrewNoTask` (the
  section under `s_lock`; `xTaskCreate` may fail). `nivona_maint_cycle_start`
  likewise.
* `brew_task` is `BrewSnap` ... `BrewExit`, one action per lock or unlocked read
  of `s_cancel`; the stage loop is `Stage`, `Consume`, `ShowStage`, and the tick
  loop in it `Tick` and `BrewProgress`. `cycle_task` is `CycleSnap` ...
  `CycleExit`.
* `nivona_maint_reevaluate` is `Reevaluate`, `Scan` once per condition, `Raise`.
  Brews, cycles, confirms and console commands run it in their own task.
* Console and UI commands that move a tank or a part, raise a prompt or switch
  the family are `SetTank`, `ResetTanks`, `Trigger`, `FamilyCli`, `FamilyUi`.

Abstractions: a tank or part is the side of its threshold it is on (`unmet` is
the set of conditions that call for a prompt), so a stage *may* empty a tank as
far as the threshold; milliseconds are ticks; the per-recipe cup counter and the
totals are one number `cups`, which stands for whether a brew was charged;
`push_status` only sends; the registers and gauges that a brew's wear and a
finished cycle write are the subject of `Registers`. A local variable nobody
reads any more is put back to its initial value. The last section of a task,
which clears `s_active`, and `vTaskDelete` are one step: in between the task
touches nothing shared, and a claim may come there in the model too, since a
second control block is at hand.

Three ghosts record what the code does not: `acceptedDrink` and `acceptedKind` the
order with which the claim made the task, and `late` the stages a brew consumed for
after its cancel. `RunsWhatWasAccepted` compares the first two with what the task
took from `s_arg` and `s_kind`, from the moment it read them to its end;
`OneStageAfterCancel` bounds the third by 1, and 1 it can be: a cancel between the
head of the stage loop and `consume` comes too late for that stage.

### How `Registers` corresponds to the code

`table` is `s_num`, `flash` the NVS namespace as the library shows it, `durable`
what of it is committed; `names` and `flashNames` are the texts. A charged brew
(`BrewCharged`), a finished cycle (`CycleServiced`) and a request of the host
task (`HostWrites`, `HostErases`) each put a list of updates on the task's
`todo`: increase a counter, lower a gauge, raise its warning, set or erase a
register, in the order of `apply_wear_after_brew`, `cycle_task` and the
handlers. An update goes through `Compute` (the read), `Find` (the scan of
`set_num_mem`), `PutValue` or `PutId`, `PutNew`, `PutUsed` (its stores), and
`Persist` (the NVS calls). A brew writes through the batch, which `Finish`
commits. `Reboot` stops everything anywhere: any part of what was not committed
is lost, then `nvs_load_all` and `seed_defaults` run.

Nothing in the code keeps tasks out of each other's way in this store, and some
things then go wrong for good. They are part of the model, and the ghost `upsets`
remembers which of them have happened: `refused` (an `nvs_open` failed, and a number
is in memory only), `overlap` (a cycle was charged while a brew was), `edited` (the
app wrote a register of the machine's own), `race` (it did so while a brew or a cycle
was charged), `clash` (two tasks were adding registers at the same time, and may
have taken the same slot). Each property names the upsets it does not survive:
`UniqueEntries` only `clash`; `MemoryIsFlash` and `SurvivesReboot` all but `edited`
(`Calm`); the counts and the warnings every one (`Untroubled`). Losses of power are no
upset: `owed`, what each counter should have counted, lives through them, and
`interrupted` counts those that came while a brew or a cycle was being charged.
`CountsEveryCup` allows each of these to cost one count and the others none;
`WarnsWhenLow` holds until the first of them.

Abstractions: a text is a value as a whole; the order in which NVS lists its
entries at boot is ascending, which matters only when they do not all fit; the
other registers of the statistics tables, which only the app writes, are like
`HostIds`.

### How `Frame` and `Link` correspond to the code

A request is a sequence of bytes, and a byte is one of the few kinds the parser
tells apart. Each byte carries which request it belongs to, and that alone
decides whether `try_parse` finds the checksum right; that a mixture of two
requests passes a one-byte checksum by chance is left out. `Fed` and `Heard` are
one round of the loop of `nivona_frame_feed`; `Write` is that round, so that
every cut of a request into writes is covered.

`Link` has the host task (`AdvStop`, `AdvStart`, `Connect`, `ConnectFails`,
`OnDisconnect`, `FrameReset`, `Subscribe`, `Write` with `Dispatch`), a worker
that pushes (`PushStatus`), both of which send through `Snapshot` (the spinlock
of `nivona_gatt_notify`) and `Notify`, and the console (`Pair`). The radio takes
the link down at any moment (`LinkDown`). The client is external: it shakes
hands, asks one thing at a time, may give up half-way (`GiveUp`) and may stop
waiting (`Timeout`).

A connection has a handle of the controller's (`ConnHandles`), which may give one
that an earlier connection had. A task that read handle and subscription under the
spinlock before a disconnect may therefore notify the next client, who has not
subscribed. `OnlySubscribers` says how far that goes: the ghost `strays` counts what a
client got before it asked, and it is at most one, a status, since the next
notification reads the pair again; the host task's own answers never go astray,
because the host task itself takes the disconnect. `FreshSession` compares serial
numbers of connections (`connections`), not handles.

### How `Tanks` corresponds to the code

`level` and `present` are `s_consum` and `s_parts`, `lock` is `s_mutex` where it
is held for more than one access, `levelBlob` and `partBlob` the two blobs as NVS
gives them back, `committed` what the last `nvs_commit` covered. `Set`, `SetPart`,
`AdjustRead`/`AdjustWrite`, `Reset` to `ResetDone` are the setters; each ends in
`persist()`, which is `Open`, `WriteLevels`, `Copy`, `WriteParts`, `Commit`
without the mutex, and which gives up only if the open fails (`OpenFails`;
`WriteFails` goes on, as the code does). `FactoryReset` wipes the namespace and
sleeps, `Restart` ends it, `PowerLoss` may keep either blob's old or new copy, and
both go through `Boot`, that is `Resume` or `StartFresh`.

Abstractions: `nvs_set_blob` is one step (NVS holds its own lock); a wipe removes
both blobs at once; that the open succeeds and the second blob alone is refused
is left out.

### How `Network` corresponds to the code

`Telnet`: the listener goes from `Accept` through `Swap` (the section under
`s_mutex`) and `Shutdown` to `Create`; a session reads a line, executes it
(`Line`, `Executed`) and ends by `Eof` and `Cleanup`, which empties the slot and
closes the descriptor in one section. `socket` is lwIP's table: a closed number
is free for the next socket of any service. `telnet_vprintf` sends under the same
mutex to whatever is in the slot, so that "a log line goes to the right place" is
a statement about states: `MirrorIsOurs`.

`Firmware`: `ota_post` from `UploadBegin` over `Receive` to `OtaEnd`, `SetBoot` and
`Restart`, with all its early returns, and `MarkValid` of `app_main`. The
bootloader is external and is ESP-IDF's, with rollback on as in
`sdkconfig.defaults` and two slots as in every `partitions.csv`: `Judged`,
`Selected`, `Loaded`, `Tried`. An image is good, or one that dies before it is
marked, or not whole. That `app_main` returns early, when the GATT or the device
information service cannot be set up (`main.c:119-127`), is left out: such an image
runs on unmarked and without its services until a reset takes the old one back.

`Wifi`: `OnStart`, `OnDown`, `OnIp` are the branches of `event_handler`,
`TimerFires` the timer. Events wait in a queue; `esp_wifi_connect` does nothing
unless the station is idle. The back-off is zero or not, which is what decides
whether a timer is armed; its length does not matter without time.

`Network` gives the upload a descriptor of the same table, lets the services run
only after `app_main` has come that far, lets connections begin only online, and
makes a restart close every socket and start everything anew.

### How `Panel` corresponds to the code

The LVGL task is the client `Touch` of `Machine`. `screen` is the loaded screen;
`last` what `g_last_*` remember; `title` and `enabled` what the home screen shows.
A tap is a handler: those that call an orchestrator take that action of `Machine`
(`BrewStart`, `BrewCancel`, `Confirm`, `SetTank`, `FamilyUi`), whose later steps
then run between those of the others (`Elsewhere`). `poll_timer_cb` is
`PollStatus` (the status block) and `PollBrew` (`nivona_brew_active`, then all the
drawing, which only this task can see). Of the readings in between the properties
look at none.

## 3. Runs

| Run | Instance | Question |
|---|---|---|
| `machine` | 2 clients, 2 task control blocks each; brew, cycle, cancel; 1 tick a stage | do the claims, the cancel flag and the order cell survive every interleaving of two callers, does each task run the order its claim accepted, does a cancel stop it at the next stage, and is the orchestrator a `BrewJob`? |
| `solo` | 1 client, families 700 and 8000, cycles with a hard prompt and with the code that collides, tanks and confirms, 2 ticks a stage; fairness | with one caller at a time, is what the status block says true, does everything end, and do prompts heal that an evaluation of the caller and one of a worker left stale? |
| `switch` | 1 client with every operation, families 700 and 8000 | do family switches in mid-brew or mid-cycle leave the machine settled? |
| `registers` | a 1040 with gauges at their limits; a brew that is its tenth cup and adds the counter of its recipe, one filter cycle, the app adding and resetting a setting next to them; one loss of power | does every update reach memory and flash once, through races on the table and a loss of power at any step? |
| `link` | 2 connections with one handle between them, two requests, one broken, retries, a push at any time, `pair` | does the parser hear what was sent and recover, and do session and subscription belong to their connection? |
| `tanks` | 3 callers, two tanks, one part; NVS may refuse; one loss of power, any number of wipes | do memory and flash agree although `persist()` runs unlocked? |
| `network` | 2 descriptors, 2 sessions, good and dying images of 2 chunks, a counter of 3 values; resets at any step; fairness | does the log stay with its owner, is there one console, does an image to boot remain, does an evicted session end, does the machine come back on the network? |
| `panel` | the panel and a console, one brew task, one prompt; fairness | does a panel left alone come to show what is? |
| `v_overlap`, `v_profile`, `v_alpha`, `v_evict` | the smallest instances with the case | four statements of comments, headers and docs that the code does not keep (section 6) |

Bounds, and why they suffice. Two clients: every race in this code is between
two callers or between a caller and a worker, and the proofs hold for any
number. Two control blocks: `s_active` falls before the old task is gone, so a
third could only wait. Ticks: one tick exercises the loop and its exit, the
second (in `solo`) that progress accumulates over ticks and stages.
`CounterMod` 2: a cup charged twice or not at all changes parity; in `solo` and
`panel`, where no property looks at cups, it is 1. Selectors, cycles and families
are one of each kind the tables tell apart: a milk drink with several stages, a
coffee; a cycle with a hard prompt of its own and one with none; code 11, which
collides with one family's brewing code and not with the other's. In `solo` the
evaluations that race are the caller's and the worker's. Only tasks are symmetric; no run with a liveness
property uses symmetry.

`registers`: one brew and one cycle, since every further one starts from the same
kind of state (nothing pending, any table); the counters start at 9 so that
`MaxCount` 10 allows just that. The gauges stand at 0, at the limit and where
one more brew crosses it. The counter of the recipe (200) is not stored yet: the
brew adds it while the app adds and resets the setting 101, so that the two take
the same slot in some behaviours (`clash`) and are in each other's way without that
in the others. The other upsets do not occur in the instance (`HostIds` is a setting,
`OpenMayFail` and `MayOverlap` are FALSE, the table has room): after one of them the
properties claim nothing, or, after `edited`, what the proofs cover. `MCRegisters` asserts that the
instance is one of those the theorems are about.
One loss of power: it puts every task back to idle, and a second one finds what
the first left.

`link`: two connections, for what one may leave to the next, and one handle, which
the second connection therefore gets again. Handshake (fixed
size, with both special bytes inside) and text write (ended by its terminator)
are the two kinds of request the parser knows; a buffer of 12 is one more than
the longest, so a broken request can fill it. One broken request, one
notification on its way. `ble_gap_adv_start` succeeds (`StartMayFail` FALSE): a
start that fails leaves the machine silent until the next disconnect or `pair`,
in the code as in the model.

`tanks`: with three callers one may be in the middle of `persist()` while a second
passes it and a third changes the level again. A level of 0 or 1 (`FULL` 1) moves
by 1: clamped at both ends. One loss of power, for the reason given above.

`network`: two descriptors are the fewest with which a number is given out again
while the listener holds the next caller's; two sessions, the old and the new; an
image of two chunks can be cut in the middle; a counter of 3 values wraps from any
number of failures, as one of 256 does. `v_evict` is the
same instance with a counter of 2 values.

`panel`: without cycles, of which the panel shows nothing but their prompts, and
with one family. One tick a stage. The console brews; the panel brews, cancels,
confirms, refills and switches.

Deadlock is checked in every run: a client can always make a call.

Fairness of `Machine` (`FairSpec`) is weak fairness of each task's own steps. Tasks run at
priorities where every one of them sleeps or blocks in its loop, no mutex is
held across a wait, and the FreeRTOS mutexes inherit priority, so a task that
can go on does. Nobody is obliged to start a call. No fairness is needed between
alternatives within a task: its loops are bounded by ticks.

`Network` adds: a booting machine boots, the event loop and the timer task go on,
a try to join ends in an address or in a failure (the driver's timeouts), a session
works off its lines. Callers, uploads and resets are nobody's duty. `BackOnline`
asks in its premise that from some time on there is no reset but those of
firmware that was uploaded and no loss of the link.
`Panel` adds strong fairness of the poll: LVGL runs touches and the poll from
timers of one loop, which runs everything that is due, so a poll that is possible
again and again takes place, however often the screen is tapped in between.

## 4. What is proved

The theorems about `Machine` hold for arbitrary sets of clients, task control
blocks, families, recipes, cycles and conditions and arbitrary lengths, from the
three named assumptions of `Machine` (the sets of tasks are disjoint, inputs come
from the tables, bounds are positive).

* `MachineSafety!TypeCorrect` - `Spec => []TypeOK`. The one arithmetic part is
  `Percent`, which the clamp keeps within 0..100. `TypeOK` is inductive by
  itself because a local variable is typed wherever its task stands.
* `MachineSafety!Invariance` - the inductive invariant
  `Inv == Typed /\ OneTaskEach /\ NoStaleCancel /\ Accepted /\ Stopping /\ Settling`.
  `OneTaskEach` is inductive relative to types. `Accepted` strengthens
  `RunsWhatWasAccepted` to the gap between the claim and the task's first step: then
  the cell itself holds the order accepted, which needs `OneTaskEach`, since only
  somebody who finds `s_active` false writes `s_arg`. `Stopping` strengthens
  `OneStageAfterCancel`: once a stage was late, the cancel is still noted, and no task
  stands between the head of the stage loop and the consumption any more. `SettledReady` is not inductive: a
  worker passes through states where the block says something else, and another
  worker may overwrite it at any moment. `Settling` strengthens it: as long as
  the block is *not* at READY with zero progress, some live task stands at a
  place from which it still has to put that right. From `Invariance` follow
  `BrewsAndCyclesAreSingle`, `CancelDiesWithItsBrew`, `AcceptedIsRun`,
  `CancelIsObeyed` and `SettlesReady`.
* `MachineSafety!ImplementsBrewJob` - `Spec => BrewIsAJob`. A job is *running*
  from the claim to the last read of `s_cancel`, *settled* from there to the
  section that clears `s_active`; a cup is owed while a task stands at `wear`.
  Under this mapping the claim is `Accept`, that last read is `Charge` or
  `Abandon`, the exit is `Finish`, a cancel is `RequestCancel`, and every other
  step stutters; `OneTaskEach` and `NoStaleCancel` are what the step needs.

With two callers a brew and a cycle can run together (`v_overlap`), and then the
status block shows whichever wrote last. `MachineSolo` proves what holds without
that race, for any number of task control blocks and arbitrary tables, under one
hypothesis more: `OneCaller`, at most one client. Two of its theorems also ask
that this client does not use the `family` command, which resets the status block
while a task runs (`NoReset`), one that it does not switch the family at all, since
a cycle's code depends on it (`FamilyIsFixed`).

* `OneCallerNoOverlap` - `NoOverlap`, by `Apart`: what the caller saw when it looked
  at the other orchestrator's `s_active` is still so at its own claim, however many
  steps lie between, since nobody else starts anything.
* `OneCallerShowsTheStage` and `OneCallerShowsTheCycle` - by `BrewShown` and
  `CycleShown`, which say place by place what the status block holds from a task's
  first announcement to the end of its loop.
* `OneCallerProgress` - the action property `ProgressMonotone`, by `Behind`: what
  the block shows never exceeds what the running task computes next. That needs
  the ticks, stages and percentages to grow together.

`Panel` is proved about with any clients next to the panel, any tables, and one
more constant assumption, that the panel is one of the clients.

* `PanelSafety!PanelImplementsMachine` - `PanelSpec => Spec`: a tap, a poll and a
  redraw are each a step of `Machine` or none, so that every theorem about
  `Machine` holds under the panel.
* `PanelTypeCorrect`, and `TilesAgree`: `Drawn`, the panel's part of the inductive
  invariant, says that title and tiles come from one and the same reading,
  although the title is redrawn only after a change and the tiles at every poll.
* `PollsTellTheTruth` - every poll ends with a screen that shows what is, unless the
  prompt was changed between its two reads. This is the step by which
  `PanelSettles` comes true; that it comes is liveness.

The theorems about `Link` hold for every set of requests and keys, every size of
the buffer, any number of connections and any handles, one for all of them
included, from `LinkAssumption` and
`RequestAssumption` (there is a request; one starts and ends as frames do, has at
least five bytes, fits in the buffer, and has the size the table gives its
command).

* `LinkSafety!TypeCorrect` - `Spec => []TypeOK`, and with it that the parser's
  buffer never grows past `MAX_FRAME_BYTES`. `TypeOK` is inductive: that a task
  at `notify` still has something to send is one of its parts. `HeardIsSent`, a
  lemma the others use, says that a request is heard only with its own last byte,
  whatever the buffer held before.
* `LinkSafety!LinksHold` - the inductive invariant
  `Links == OneConnection /\ Asked /\ OwnSession`. `OneConnection` says that the
  connection that is up is the one the machine knows of. `Asked` carries
  `OnlySubscribers` through the gap between the spinlock and the notification: a
  task that pushes may stand there with the handle of an earlier connection, but
  then the client of this one has had no stray notification yet; the host task
  stands there only for the connection that is up or for none. Nothing is asked of
  the handles. `FreshSession` speaks only of a host
  task that is idle; `OwnSession` also of one in the middle of an event, except
  the reset, where the session is one disconnect old. From `Links` follow
  `SessionsAreFresh` and `OnlySubscribersHear`.
* `LinkSafety!MachineIsFound` - `Spec => []CanBeFound` if `StartMayFail` is FALSE,
  as in the run; if a start fails, the code stays silent too.
* `LinkSafety!RequestsUnderstood` - `Spec => []Understood`, by the invariant
  `Agreement`: the key that a client which never gave up waiting holds is the
  session's or none, except while the answer to its handshake is under way; of
  such answers there is at most one, with the host task or on the air, and
  meanwhile the client asks for nothing. It holds with lost notifications, since
  a client that misses its answer goes on waiting.
* `LinkHears!HearsAll` - `Spec => []Hears` if `EndsOnce`: a request without a fixed
  size holds the byte that ends a frame only at its end. (`v_alpha` shows what
  happens otherwise.) Nothing is asked of requests of a fixed size. The invariant
  `Follows` says that on a connection without a broken request the parser is
  `InStep`: its buffer is exactly the bytes of the current request that were sent.
  That a connection begins so needs the reset of the parser to come before the
  next connection (`Between`).
* `LinkHears!RecoversSoon` - `Spec => []Recovers` if moreover `StartsOnce`: no
  request holds, behind its first byte, the two bytes every request begins with.
  Without that the parser might find a frame within a request, and another within
  the next, for ever. The invariant `Owing` counts: the parser may still miss `m`
  requests (`Off`) and has missed `missed`, and together these are at most the
  `Budget` of every request given up. `Off` has three kinds: out of a frame in the
  middle of a request; `Loose`, waiting for the byte that ends a frame, with no
  byte to come that could give the frame a size; `Sized`, waiting for a number of
  bytes that `m` of the shortest requests cover. `OneByte` says what a byte makes
  of each, `GivenUp` what a request given up does. `MCLink` has TLC evaluate both
  hypotheses on the requests of run `link`.

The theorems about `Registers` hold for any registers, gauges, values, limits of
the bounds and numbers of brews, cycles, requests and losses of power, under the
hypothesis `Steady`: the table has room for every register, some family has each
recipe that is brewed, what the app writes are numbers, and the flash the machine
starts with holds what the firmware may have written. `WarningsAreRight` also needs
the warnings in that flash to be right (`WarnedRight`). `MCRegisters` has TLC evaluate
both on the instance that is run. Nothing is assumed about what tasks do to each
other, nor that NVS can be opened: what the store does not survive is in the
statements themselves, as the upsets (section 2) that must not have happened yet.

* `RegistersSafety!StoreInvariance` - the inductive invariant `RegistersInv`, in
  layers that each rest on those before. As long as the tasks keep out of each
  other's way (`Calm`): `Shapes`, types and what each task's list of updates may
  hold; `Entered`, where each task stands in the scan of `set_num_mem`, that no
  entry is added twice, and that at most one task is adding; `Mirrored`, the flash
  is the table but for registers a task is still to persist, and committed but for
  what a brew has in its batch. As long as there was no upset at all: `SoundStore`,
  what is stored and what a task is about to store are values its register may
  hold; `Intended`, what a task is about to store is still what its update calls
  for, although it was computed steps ago; `Counted` and `Behind`, each counter is
  what was charged, less one while an increase is on a task's list and less at most
  one for every loss of power that interrupted one.
* From it follow `TypeCorrect`, `CupsAreCounted`, `FlashIsMemory` and the action
  property `RebootsAreHarmless`. `WarningsAreRight` adds `Warned`: unless power was
  lost in between, a gauge whose warning is not right is one that a task has just
  changed and whose warning is the next thing it sees to.
* No theorem states `UniqueEntries`. It survives more upsets than the invariant does,
  a brew next to a cycle for one, and TLC alone checks it.

The theorems about `Tanks` hold for any number of callers, any tanks and parts
among those of the code, any inputs and any number of losses of power, from
`TanksAssumption`.

* `TanksSafety!TanksHold` - the inductive invariant
  `Inv == TypeOK /\ Held /\ NoLostUpdate /\ Owed`. `Held` says who holds the mutex;
  `NoLostUpdate` is inductive with it. `LevelsKept` speaks only of callers at rest;
  `Owed` of all: a difference between memory and flash is still to be put right by
  a caller that has its `nvs_set_blob` before it (unless NVS refused one), and one
  between flash and commit by a caller that has its `nvs_commit` before it. That
  the write takes memory *as it is then*, and not a copy, is what makes it work;
  the parts, which are copied first, have no such theorem. From it follow
  `LevelsSurvive`, `AdjustmentsAreAtomic` and `LevelsInRange` (the types).

The theorems about `Network` hold for any number of descriptors and sessions, any
images and any number of chunks, from `TelnetAssumption` and `FirmwareAssumption`.

* `NetworkSafety!NetworkHolds` - the inductive invariant `Inv`, of two parts.
  `FirmwareInv` says that the machine is in one of two situations. `Trial`: it runs
  an image that is not marked, and the other slot is `Backed`, that is good and
  marked (or the first one ever flashed). `Settled`: the running slot is `Backed`,
  and the other is selected only between `SetBoot` and the restart, with a whole
  image in it. The lemmas `BootsBack`, `BootsRunning`, `BootsNew` say what the
  bootloader makes of each. `ConsoleInv` says of each descriptor whose it is
  (`Owned`): no two sessions have one in common, the listener's is new, and the
  upload's is none of theirs; and that of the sessions that were not put out only
  the one in the slot is left (`OneLeft`), also in the middle of an eviction. From
  `NetworkHolds` follow `LogStaysOurs`, `ConsoleIsSingle`, `WorkingImageRemains` and
  the action property `NoRollback`.
* `NetworkSafety!StationIsPursued` - `WifiInv`: a station that is neither online nor
  joining has exactly one thing that will make it try again, an event in the queue
  or the timer, never both and never none. `BackOnline` rests on it. With it,
  `TypeCorrect` covers the failure counter and the queue too.

## 5. What is only model-checked

Every invariant and every action property that a passing run checks is stated by
a theorem, some under the hypotheses named in section 4, but for one. What is left
to TLC:

* `UniqueEntries` of `Registers`, for the reason given there.
* Liveness under fairness, which is out of the prover's reach: `BrewEnds`, `CycleEnds`
  and `PromptHeals` of `Machine`, `EvictedEnds` and `BackOnline` of `Network`,
  `PanelSettles` of `Panel`. For two of them the safety half is proved:
  `StationIsPursued` for `BackOnline`, `PollsTellTheTruth` for `PanelSettles`.
* The four statements of section 6, each by its counterexample.

## 6. What the code does and its comments do not say

Four runs end in a behaviour of the code that a comment or a document denies; the
quotes are in `PROJECT.json`:

* `v_overlap`: a brew and a cycle can run together. Each start asks about the
  other under the other's lock and lets it go before it claims.
* `v_profile`: a profile name the app wrote is put back to "Profile n" at the
  next boot.
* `v_alpha`: a text write whose ciphertext holds the byte 0x45 is cut there and
  lost.
* `v_evict`: a new telnet caller can end an HTTP upload that got the old session's
  descriptor between the mutex and the `shutdown`.

Met while modelling, without a run of their own:

* A brew can drop a *hard* prompt that came up between the check in
  `nivona_brew_start` (`nivona_brew.c:460`) and the first lines of the task (334),
  although the comment at 330 rules it out. `PromptHeals` says it comes back.
* `on_family_select` leaves the old family's READY code in the status block
  (`nivona_ui.c:725`); `nivona_fsm.c:36-37` says what is called after a switch.
* A register that is reset to its default (`HD`) reads 0 until the next boot, also
  where the default is 100 (`nivona_dispatch.c:340-346`).
* Two evaluations that race can leave a prompt up with every tank in range.
* An app's write to a register that a brew is just writing can differ between
  memory and flash, or cost the brew's count, where `nivona_store.h:32-33` calls it
  safe.
* Two tasks that add registers at once can take the same slot of `s_num`
  (`nivona_store.c:173-190`); one of the two is then in flash only until the next
  boot.
* The spinlock of `nivona_gatt_notify` is let go before the notification is sent, so
  a disconnect can still come in between, and the status go to the next client if
  it got the same handle; the comment at `nivona_gatt.c:33-39` calls it enough.
* Of two callers in `persist()` one can write an older copy of the parts last.
* `factory_reset` sleeps a second between the wipe and the restart
  (`nivona_cli.c:444`); a brew that consumes water in it writes the tanks again.
* If `xTaskCreate` fails for a telnet session (`nivona_telnet.c:197`), nobody reads
  its socket; the next caller shuts it down and nobody closes it.
* The panel's BREW tile is off for every prompt, soft ones included, where the
  comment says "no hard prompt" (`nivona_ui.c:453`) and `nivona_brew_start` would
  take the brew.
* The panel shows READY while a cycle runs, and its tile FAMILY keeps the model it
  was built with (`nivona_ui.c:342`), since the home screen is built once.

## 7. Not modelled, and the plan

Next, in this order:

1. Proofs: `UniqueEntries`, and the names of `Registers`; the safety half of `BrewEnds`
   and `CycleEnds`, a measure that every step of a worker lowers; weaker hypotheses
   than `StartsOnce` for `RecoversSoon`.
2. `Tanks` under `Machine`: levels that refine the side-of-threshold view.
3. The widths of the brew-time arithmetic (`nivona_brew.c:255`, 386) as functions
   checked against their ideal.
4. Chunks of two frames mixed on the air (`nivona_frame.c:347`), which `Link`
   allows and claims nothing about; the argument tables and the `stdout` that the
   UART console and telnet sessions share (`nivona_cli.c:90`, `nivona_telnet.c:80`).

Hazards no property covers are marked so in `PROJECT.json`, with the reason: the
table of registers at its limit, an erase that NVS refuses, the width of the
brew-time arithmetic, a failed start of advertising, chunks on the air, the
console's argument tables, and the reset of a register to its default.

Left out for good: display, touch and board drivers (register-level I/O), the
layout of the UI's screens and the readings the panel shows as they are,
device-information strings, log texts, and the values of the crypto tables.
