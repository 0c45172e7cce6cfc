# Dither Booth in TLA+

Dither Booth is a photo booth. An iPad in a kiosk (the *Shutter*) takes a guest's
photo; a Raspberry Pi (the *engine*) draws a lottery for the guest, lays out a
dithered receipt, and prints it on a USB receipt printer. Staff run the booth from
an *admin* app, and a cloud service (the *Hub*, with its *Studio* app) watches all
booths and alerts staff.

These modules model the parts of it that decide whether guests and staff get what
they are owed: the prizes and their stock, a guest's visit from Start to ticket, the
kiosk's way back to its start screen, the printer's connection and its jobs, the
maintenance screen, the alerts staff get of a booth, and the booth's updates. TLC checks
small instances; TLAPS proves the safety results for instances of any size.

Source paths below are relative to `src/apps/engine/src/domains/` unless they begin with
another directory.

## 1. Inventory

| Component | State | Operations | Talks to | What is hard about it | Correct means |
|---|---|---|---|---|---|
| Events, prizes, lottery (`event/`, `lottery/`) | SQLite: `campaign`, `lottery`, `prize`, `stock_adjustment`, `draw` | create and replace an event, settings, create and delete a prize, restock, draw | admin (retried requests), tickets | stock is derived from a ledger and the wins, never stored; late and repeated requests; a clock that jumps | stock never below zero, a restock counts once, a win keeps its prize, an archived event stays as it was, wins are spaced |
| Visit table (`visit/`) | SQLite: `visit` | start, captured, printed, end, close stale | the Shutter's reports, tickets, boot | reports come in any order, or not at all; guesses whose draw it is | one open visit, a draw in exactly one, completed means printed |
| Tickets (`receipt/`) | prepared receipts in memory, with a lifetime | prepare a visit's receipt, print what has not come out | lottery, visit table, renderer, printer | awaits between every step, callers that gave up, restarts | a photo prints once; a job is in one place |
| Guest flow (`apps/shutter/.../Experience/`) | a reducer: phase, attempt, ticket, visit, end | taps, timers, answers | engine (calls), camera | answers of an earlier attempt; animations and devices that never answer | always back to the start screen; what it shows is this guest's |
| Operator commands and maintenance screen (same) | pending command, maintenance, shown | arrive, wait for the guest, run | kiosk channel | every phase change restarts effects and timers | they happen in the end, and maintenance stays shown |
| Booth printer (`printer/`) | USB connection, status, job queue, whether to clear the buffer | open, arm, read, lose, reopen, stop; print, stall, abort | USB device; policy; tickets | a job and the loop share one connection and one status | no job goes into a printer known to be gone, none hangs, stop lets go |
| Printer maintenance policy (`printer/`) | fault, when the outage began, one timer | evaluate a status, timers | printer, maintenance | flapping status, one timer for two directions | closes after the delay and not before; same for opening |
| Maintenance switch and kiosk channel (`kiosk/`) | staff's switch (SQLite), automatic, printer fault; connected pages | switch, subscribe, broadcast | admin, policy, Shutter | three reasons for one screen; pages that come and go | every connected page ends up knowing |
| Kiosk camera and live view (`kiosk/`) | which page's camera is on, viewers | status reports, watch | Shutter, admin, Hub reporter | two entries for one reconnecting page | the live page's camera counts |
| Hub reporter, registration, remote updates (`hub/`) | session, refresh token, last sent, one report in flight | report, renew, register, ask for an update | Hub, printer, lottery | changes during a report, a registration replaced during one | the Hub hears every change in the end |
| Hub alerts (`src/supabase/`) | `booth_status`, `alert`, `booth_update` | heartbeat, silence check, acknowledge, remind | reporter, Studio | lost, late and reordered heartbeats, the booth's clock | one open alert a kind, opened and closed by the newest word |
| `booth update` and rollback (`src/apps/cli/`) | release links, job file, database copies | update, rollback, recover | systemd, file system | a power cut between any two steps | one release linked, with a database it can read |
| Event backups (`backup/`) | copies on two disks | interval, before an edit, at stop | database | one copy at a time, shared by callers | a copy before every edit |
| Receipt rendering (Puppeteer) | one browser, one page, a queue | render, restart, close | tickets | work that cannot be cancelled | one job steers the page |
| Encodings, dithering, setup ticket, network, captive portal, access control, libraries, admin, Studio, CLI, packages | | | | | not modelled: section 8 |

## 2. Modules

```
PrizeStock        <- implemented by - EventLottery <- MCEventLottery
                                            ^ EventLotteryProofs <- EventRecordProofs   (TLAPS)
Nothing <- ExperienceMachine <- Experience  <- MCExperience
      ^        ^                    ^ ExperienceProofs         (TLAPS)
      |        +--- GuestVisit <- MCGuestVisit
      +- Visits ----^   ^ GuestVisitProofs                     (TLAPS)
PrinterStatus     <- implemented by - BoothPrinter       <- MCBoothPrinter
              |                         ^ BoothPrinterProofs             (TLAPS)
              ^----- used by -------- PrinterMaintenance <- MCPrinterMaintenance
                                        ^ PrinterMaintenanceProofs       (TLAPS)
KioskPages <--+
HubAlerts  <--+- BoothReports <- MCBoothReports
                   ^ BoothReportsProofs                        (TLAPS)
BoothUpdate <- MCBoothUpdate
      ^ BoothUpdateProofs                                      (TLAPS)
```

* **EventLottery**: the tables written by `event.service.ts` and `domains/lottery`. Every
  write of the code is one synchronous SQLite transaction, so each is one action, and a
  transaction that throws changes nothing. Stock is not a variable: `Remaining(p)` is the
  ledger's units put in, less those taken out, less the wins, as `getPrizeStock` computes
  it. A restock is the pair `OpenRestock` (admin's dialog makes an id) and `RestockPrize`
  (the engine receives that id with any delta, any number of times, at any later time):
  retries and late requests need no network. The draws' odds are left out (a prize with
  stock may win), forced outcomes are not, and the clock may take any value at any time.
* **PrizeStock** (abstract): a counter per prize, moved by whole changes and single wins,
  kept for good once the prize is out of play.
* **ExperienceMachine**: `experienceReducer`, one operator per reducer action.
* **Experience**: the Experience page by itself, with every timer, answers of this or an
  earlier attempt at any time, operator commands and the maintenance switch.
* **Visits**: the visit table and its writers.
* **GuestVisit** composes ExperienceMachine and Visits with the calls between them and the
  tickets module. A call is a record that moves through the stages between the handler's
  awaits (`sent`, `rendering`, `drawn`, `photo`, `ticket`, `answered` or `failed`);
  `LoseConnection`, `Reload` and `Restart` may come between any two. The draw and its
  visit commit in one transaction (`CommitDraw`). The phases that time themselves out are
  run in one step here, because no answer tells them apart; Experience has each.
* **PrinterStatus** (abstract): a connection starts unknown, only the printer's word makes
  it ready or at fault, a lost connection ends what it said.
* **BoothPrinter**: `run()` as the variable `loop`, `runJob()` as `queue` and `job`,
  `stop()` as the variable `stop`, and the printer as external actions. `update` emits
  the status to the job being written, as the code's subscription does, in the same step. The
  loop's own `GS a`, after an open and again while the printer is silent, is awaited without a limit: `arming`
  is the loop waiting for the printer to take it, for as long as it takes no data.
* **PrinterMaintenance**: the policy's `evaluate` and timers, the maintenance switch, the
  channel's subscribe and broadcast, and one page. It takes the printer's status from
  `PrinterStatus!Next`, which BoothPrinter is checked to implement.
* **KioskPages**: the channel's list of pages as the camera sees it. `pages` is the channel's
  array in its order of connection, `ipad` and `linked` are the truth it tries to follow, and
  `camera` is what `refresh` last derived. `Reported` is `reportStatus`, which finds the *first*
  page with the id; `Lists` is every writer's trailing `refresh`.
* **HubAlerts**: the SQL functions `evaluate_heartbeat` (`EvaluateHeartbeat`) and
  `evaluate_silence` (`EvaluateSilence`), with `open` for the unresolved alerts and `seen` and
  `liveFor` for the ages they compare.
* **BoothReports** composes both with the reporter: `report()` is the stages `at` = `token`,
  `lottery`, `answer`, `slow`, one per await, and `sendAgain`, `sent` and `timer` are its own variables.
  A request may be lost on the way there or on the way back, or arrive after the booth gave it up (`late`);
  the engine may stop at any stage.
* **BoothUpdate**: `runUpdate`, `runRollback`, `runRestore` and `runRecover`. What the disk keeps
  (`link`, `folders`, `db`, `saved`, `status`, `history`) survives every fault; the live process is
  a plan and its next step (`plan`, `at`), each step one write to the disk or one call to systemd,
  in the code's order (`Then`). `switchBack` is the plan `back`, and a rollback's own catch the plan
  `undo`. The service is `up` and `boot`; the update unit's `ExecStopPost` and the booth unit's
  `ExecStartPre` are actions of their own. `Kill` takes a job's process alone: an update in its unit, after which
  `ExecStopPost` is due, an update over SSH, or a rollback, after which nothing is; the observer `orphan`
  marks such a job until a start of the booth or a new job sees to it.

Definitions whose comment starts with "Fault:" are not the code. Each is the definition
after it with a plausible bug (a guard dropped, a reset forgotten) that breaks a property
of a run; `PROJECT.json` pairs them.

### What is abstracted

* Titles, weights, rarities, images, printed layout, and log lines.
* Real durations. In GuestVisit and BoothPrinter a timeout may come whenever it is under
  way. PrinterMaintenance counts ticks, since its properties are about delays; a timer that is
  due fires before the next tick, though a status change may still come first.
* Conditions of the printer: `ready` is any that can print (paper near its end among
  them), `fault` is any of paper out, cover open and error.
* In GuestVisit a print that fails is taken not to have put the photo out, as the code takes it.
* A SQLite write that fails. `Visits` logs and skips it; a broken database is not modelled.
* In BoothReports a tick is the reporter's 30 s, which is the page's report interval as well. The
  code's graces and silence (page stale, camera, printer, silent: 3, 4, 2 and 6 intervals) are scaled to 2, 2, 1
  and 3, which keeps their order. A report ends in its tick or the next (its requests are aborted
  after 15 s), one late heartbeat is on its way at a time, each SQL function is one transaction, and the booth's clock
  only goes forward. The booth stays registered. Not there: `dryRun`, the update's own
  report, the printer's other conditions, reminders and acknowledgements. A camera that is starting counts as none.
* In BoothUpdate staff update to releases that bring every migration the running one has, and a
  download outlasts the engine's start (`Settled`), so the copy is of a database that has been
  migrated. The lock is correct: one process at a time. The handover to the CLI just
  installed is the same process. `step` is kept as forward or rollback, which is all that
  `recover` asks of it. A release is its set of migrations, the database its migrations and a count
  of what guests recorded. Not there: a prune that fails, the first move of a git checkout,
  `rollback.json`, the history's limit of 20, failures of the undo's own stop and start. A recovery and a restore are
  ended by a power cut, not killed alone. A restore does not begin while a recovery is due.

## 3. Runs

| Run | Question | Instance | Why it is enough | Result |
|---|---|---|---|---|
| `event_lottery` | Is stock right, and is the record kept? | 2 events, 2 prizes, 2 ledger ids, 2 draws, deltas of 1, 2 ticks a second, times 0 to 2, lottery off, or on with a pause of 1 s | two of each is one to act on and one to disturb: a win against a correction, a second win against the pause, an archived and an active event | holds |
| `guest_visit` | Do two guests in a row stay apart? | 2 Starts, 1 fault, 1 call still out at the next Start, no lottery ticket, no retry | the hazards need a late call of the first guest and the second's visit; one fault makes the call late | holds |
| `one_visit` | Does a photo print once? | 1 Start, both retries of the code, 3 faults, with and without a lottery | every retry can fail, be lost or meet a restart | holds |
| `late_draw` | Does a late draw join its own guest's visit, as documented? | 2 Starts, 2 calls out, no fault | | violated (finding) |
| `experience` | Does the kiosk always come back, and do commands run? | countdown 2, 2 attempts, 2 visit ids, 1 ticket, 90 s in 2 steps | an earlier attempt's answer needs two attempts; a wait that can be restarted needs two steps | holds |
| `printer_maintenance` | Does the booth close and open when it should, and does the page know? | delays of 2, 4 and 2 ticks, 3 commands on the way | the kind of outage can change before, between and after both delays | holds |
| `restart_cover_open` | Does the booth come back closed after a restart with the cover open, as documented? | as above | | violated (finding) |
| `booth_printer` | Does any job outlive its printer, or hang? | 2 jobs waiting and 1 being written, 2 status packets unread, 1 resend | jobs only interact through `needsBufferClear`, which three in a row exercise | holds |
| `booth_reports` | Do the alerts say what is wrong, and is a silence real? | 2 pages listed, 3 printer conditions, 2 changes, 1 trouble, the scaled graces | a stale entry beside its page needs two pages; a change during another's report needs two changes; the trouble makes one heartbeat late, lost or unanswered, or stops the engine | holds |
| `booth_update` | What may an interruption leave behind? | 3 releases, the second migrates, 1 copy kept, 2 jobs, 2 faults, 2 visits; updates in their unit, updates over SSH and rollbacks may be killed | a rollback needs an update before it; a going back run again needs two faults; one copy kept lets a second update drop what a rollback needs | holds |
| `killed_job` | Is no interrupted job left running, as documented? | as above, 1 visit, 1 fault, only updates over SSH and rollbacks killed | | violated (finding) |
| `failed_rollback` | Does a failed rollback change nothing, as the CLI prints? | as above, no fault | | violated (finding) |

Bounds are constants or conjuncts with a comment saying "bound". Symmetry is used in
`event_lottery` only, over ids that the code only compares, and with no liveness property in
that run. `CHECK_DEADLOCK FALSE` is set where a bound ends the behaviour (tickets, guests,
attempts, changes or jobs used up); PrinterMaintenance and BoothPrinter are checked for deadlock.

### What the properties say

* EventLottery: `OneActiveEvent`, `StockNonNegative`, `DrawsKeepTheirRecord` (a win points
  at a stored prize of its own event, in spite of deletions), `AcknowledgedChangesStand`
  and `RestockAppliesOnce` (retried restocks, by the id of their dialog), `ArchivedEventsStay`, `WinsAreSpaced` (the
  pause, less the second that `created_at` rounds away, whatever the clock does), and
  `StockSpec`: the ledger implements PrizeStock.
* GuestVisit: `OneOpenVisit`, `DrawInOneVisit`, `CompletedMeansPrinted`,
  `TicketIsTheGuests`, `EndsStand`, `PhotoPrintsOnce`.
* Experience: `EveryVisitEnds`, `BackToIdle`, `CommandsRun`, `MaintenanceShows`.
* PrinterMaintenance: `FaultIsEarned`, `LeaveIsEarned` (no sooner), `OutageShows` (no
  later), `PageKnows`, `PageSettles`.
* BoothPrinter: `FaultsAbort`, `AbortedJobsAreCleared`, `StopReleases`, `JobsSettle` (no job hangs, and
  `stop()` ends unless a plugged printer never takes the loop's own `GS a`), and
  `StatusSpec`: its status implements PrinterStatus.
* BoothReports: `AlertsAreRight` (once nothing has changed for as long as the graces take, what
  is open at the Hub is what is wrong at the *booth*: the iPad itself, not the entries the engine
  has of it), `SilenceIsReal` (none is raised of a booth that gets its reports through) and
  `SilenceShows`.
* BoothUpdate: `ReadsItsDatabase`, `StatusIsTrue`, `VisitsAreKept` (a going back run a second time
  never puts its copy over what guests recorded since the first) and `BoothReturns` (over and over no job
  is running and the booth is up, but for a killed job that nothing is ever due to end: `<>[]orphan`).

## 4. Fairness

Safety is checked without relying on fairness. The liveness properties assume this much:

* **Experience**: weak fairness of timers (every timed phase has one, and animations have
  a fallback timer), of effects React runs after a render, and of the channel's
  delivery of the switch (it restates it on every reconnection). The camera, the engine
  and guests have none: `BackToIdle` holds if nothing ever answers. `MaintenanceShows`
  asks that operators stop sending reloads, which start the page from scratch.
* **PrinterMaintenance**: weak fairness of time, of due timers, of the engine starting
  its printer at boot, of the page reconnecting and of its stream being read. None for
  the printer, staff or restarts: `PageSettles` is about a status, a switch and a
  connection that come to rest.
* **BoothPrinter**: weak fairness of what the loop awaits (an open answers, a close is
  bounded, a backoff is a timer, the reads of a stopping loop come back), of
  `stop()`'s bounded write and its end, of the next job's turn, of the stall timer, and of an aborted
  transfer ending. None for the printer taking a job: the stall timer is what ends it. None for a plugged
  printer taking the loop's own `GS a` either, which nothing bounds (`booth-printer.ts:220`, `:253`; the
  transfer's timeout is 0, `printer.transport.usb.ts:130`): it may hold the loop, and `stop()` with it, for
  ever. Strong fairness only of such a transfer failing once the printer is gone (`Unplugged`).
* **BoothReports**: weak fairness of time and of the Hub's check, which pg_cron runs every minute.
  None for the network, the booth's power, pages or staff.
* **BoothUpdate**: weak fairness of the live process (`JobStep`: every wait of it has a limit),
  and of what systemd runs on its own: `ExecStopPost`, `ExecStartPre`, `ExecStart`. None for staff,
  guests or faults. A killed update of a unit is due its `ExecStopPost`; a killed
  rollback or update over SSH is due nothing, so `BoothReturns` excepts it for as long as neither a start of the
  booth nor a new job ends it (`orphan`), and `killed_job` shows one.

## 5. Findings

Four places where a document, or what the program prints, says more than the code does. Each is a run that violates one property.

1. `DrawJoinsItsGuestsVisit`: `architecture/guest-visit.md:100` says a late draw still
   belongs to its guest's visit. That is so when the kiosk knew the visit's id. If the
   Start was never answered, the draw carries no id and `captured()` (`visits.ts:163`)
   joins the open visit that has not drawn, by then perhaps the next guest's.
2. `ComesBackClosed`: `specs/printer-watchdog.md:250` says a restart with the cover open
   brings the booth up already in maintenance. Pages are served (`server-app.ts:369`)
   before the printer is watched, so a page that reconnects at once is told the booth is open, until
   the first status packet closes it.
3. `FailedChangedNothing`: of a job that failed, `booth rollback` prints "Nothing changed, the booth
   still runs" its release (`update.command.ts:44`). A rollback with `--restore-db` has put the backup over
   the database by the time the older release fails to start; the catch (`update.ts:944`) only
   moves the link back. The newer release then runs on the backup, without what guests recorded since the update.
4. `NoneLeftRunning`: `architecture/updates.md:57` says recovery runs in four places, "so no interrupted
   job is left `running`". A rollback's unit has no `ExecStopPost` (`service.ts:232`), and an update over SSH
   runs in no unit. When such a job's own process is killed (out of memory, the unit's timeout, a session that
   drops) none of the four has to come: the status stays `running`, and a booth the job had stopped stays
   stopped, until a start of the booth or a new job.

Four more observations:

* `architecture/data-model.md:98` and `db.schema.ts:290` call `stock_adjustment` append-only;
  `deletePrizeForDb` (`event.service.ts:475`) deletes the entries of a prize nobody won. What does hold is
  checked: an entry is never altered, goes only with its prize (`AcknowledgedChangesStand`), and its id is not
  used again (`RestockAppliesOnce`).
* `specs/printer-watchdog.md:21` and the comment at `booth-printer.ts:381` say that `stop()` can't hang, since its
  own write is bounded. It then waits for the loop (`:392`), whose `GS a` is not: a plugged printer that takes no
  data while the loop is arming holds the shutdown. `JobsSettle` excepts exactly this (`Untaken`).
* When `switchBack` itself meets an error (`update.ts:543`) the job ends `rolled-back` wherever it stood, perhaps
  with the link still on `to`, where the schema's comment (`booth-update.ts:91`) says the booth went back; its error
  text says so, and the model's `stuck` marks it.
* From there the migration count of a later going back is compared with a release the database may not have been
  migrated by, so a copy can go over visits: `VisitsAreKept` and `StatusIsTrue` are about behaviours in which no
  going back met an error of its own.

## 6. Proofs

### Events and the lottery

Everything EventLottery's run checks is also proved, for every set of events and prizes, every
finite set of ledger ids and tickets, and all settings and bounds admitted by
`BoundsAssumption` and `NoneAssumption`.

`EventLotteryProofs`, types and stock:

* `TypeCorrect`: `Spec => []TypeOK`, with one lemma per group of actions.
* `StockCorrect`: `Spec => []StockNonNegative`. Non-negative stock is not inductive: a
  ledger entry of an id already spent, or a draw row without a time, would let a step move stock in
  ways no reachable state allows. `StockInv` adds that an entry's id was spent and
  that an unused ticket number has no row. The rest is counting: stock is a difference
  of cardinalities, and `EntryMovesStock`, `DrawMovesStock` and `DeleteMovesStock` say by how much each kind
  of write moves it, from the library's facts about finite sets. An entry of delta `d` is `|d|`
  units (`UnitsOfOneId`), which avoids a recursive sum.

`EventRecordProofs`, what the tables keep. None of these properties is inductive alone: a restock
could answer a repeat from an entry of another prize, or a deletion could leave a dialog whose id
is free again. `RecordInv` joins the three state properties with what the code maintains behind
them: prizes lie on events that were created (`PrizesAreOnEvents`), an entry was acknowledged, its prize
is stored and is the one its dialog was opened on (`EntriesAreAcknowledged`), a dialog's prize was born
(`DialogsAreOnPrizes`), and an unused number has no row.

* `OneEvent`, `DrawsKept`, `ChangesStand`: the invariants `OneActiveEvent`, `DrawsKeepTheirRecord` and
  `AcknowledgedChangesStand`.
* `RestockCounted`: `RestockAppliesOnce`. The key fact is `RestockFindsItsEntry`: a restock with an id
  acknowledged before meets its own entry, because a deletion that took the entry also took the prize
  `RequireCurrentPrize` asks for.
* `ArchivedKept`: `ArchivedEventsStay`, each action writing only to the active event or to none.

`WinsSpaced`, in `EventLotteryProofs`: `WinsAreSpaced`. The query reads only the last win, in whole
seconds; the proof takes the latest of finitely many (`LastWin`, from the well-foundedness of
the naturals) and bounds the rounding (`SecondsRoundDown`) for any number of ticks per second.

`LedgerCountsStock`, in `EventRecordProofs`: EventLottery implements PrizeStock, each action mapped to
the step of the counter it stands for or to a stutter, from `RecordInv` and `StockInv` together.

### A guest's visit

`GuestVisitProofs`, for any number of guests, late calls, retries and faults: every property of the
`guest_visit` and `one_visit` runs. `GuestVisitTypes` (`TypeOK`), `OneVisitOpen`
(`OneOpenVisit`), `DrawsInOneVisit` (`DrawInOneVisit`), `CompletedIsPrinted`
(`CompletedMeansPrinted`), `PhotosPrintOnce` (`PhotoPrintsOnce`), `TicketsAreTheGuests`
(`TicketIsTheGuests`) and `EndsAreKept` (`EndsStand`).

They follow from `VisitInv` (`VisitInvHolds`), which says what the parts say of each other. A receipt is with one call,
or is one job of the store, or nowhere, and its photo has not come out where it is still to come
(`JobsFit`): `PhotoPrintsOnce` alone says nothing of the calls still laying a receipt out, or of
jobs whose photo is still due. What a call says is so: its draw is of its guest and in the visit it names, the end it
reports as completed is of a printed visit, and only the call of the kiosk's own guest has the
kiosk's attempt (`CallFits`), which is why an answer of an earlier attempt cannot put
another guest's ticket on the screen. `KioskFits` says the same of the reducer's
state. The table's writers are proved apart, over the rows alone (`VisitsStart`, `VisitsCapture`,
`VisitsPrint`, `VisitsEnd`, `VisitsCloseStale`), each with what it leaves standing (`VisitsGoOn`); each
reducer action leads to a state that `Follows` the one before, and a dispatch of such a state keeps the invariant
(`Dispatches`).

### The printer

`BoothPrinterProofs`, for any bounds on jobs, packets and resends: `PrinterTypes` (`TypeOK`),
`JobsAbortOnFaults` (`FaultsAbort`), `StopLetsGo` (`StopReleases`),
`CutRastersAreCleared` (`AbortedJobsAreCleared`), and `StatusIsPromised`: BoothPrinter
implements PrinterStatus (`StatusSpec`). None of the invariants is inductive alone. `PrinterInv` adds when
the link is there at each place of the loop and of `stop()` (`ConnectionFits`, `StoppedFits`) and that a
raster cut off is remembered until the buffer is cleared (`CutIsRemembered`).

### Updates

For any releases and migrations, any number of kept copies, jobs and faults.

`BoothUpdateProofs`: `UpdateTypes`, `BoothReadsItsDatabase` (`ReadsItsDatabase`) and `JobStatusIsTrue`
(`StatusIsTrue`), from the invariant `UpdateInv` (`UpdateInvHolds`). That the running release can read the database says
nothing of the release the link names, which is what runs after the next start, nor of the copies that may yet be put back. So `UpdateInv` says that the link's
release has every migration of the database (`DatabaseFits`); that the copy of each job in the
record is of the release it left, and that a job recorded as not migrated left the database as it was, which is what
`keep-db` trusts (`RecordFits`); that a job under way, live or cut short, has its copy and its
folders (`UpdateUnderWay`, `RollbackUnderWay`); and what each step of each plan may rely on
(`ProcessFits`). Power cuts and kills then only set `at` to idle, which every part but the first three ignores.

`GuestsVisitsAreKept` (`VisitsAreKept`), in the same module, under the hypothesis that only an update in its
unit is killed alone; with the kills the code leaves unrecovered it is model-checked, with one copy kept. `KeptInv` adds which release runs (`UpFits`), that a going back
whose link has moved left the database with the count from before the switch, so that
`migratedSince` is false when it is run again (`CopyFits`), and that whatever was cut short is
recovered before a restore or a guest can come between (`RecoveryFits`), which is what the hypothesis is for.

### The Experience page

`ExperienceProofs`, for any countdown, attempts, tickets and waits: `ExperienceTypes` (`TypeOK`) and
`VisitsEnd` (`EveryVisitEnds`). The property names three phases and those an ended visit is in; the invariant,
`ExperienceInv`, adds the rest (`EndFits`): a visit under way has no end yet, and an attempt and a ticket are of the
attempt's phases only, so that leaving them leaves nothing behind for the next guest. It is proved
one reducer action at a time, each lemma about any state that fits, and then the page's actions only dispatch.

### The printer's maintenance

`PrinterMaintenanceProofs`, for any delays and any bound on what is on its way to the page:
`MaintenanceTypes` (`TypeOK`), `OutagesShow` (`OutageShows`), `PagesKnow` (`PageKnows`), `FaultsAreEarned`
(`FaultIsEarned`) and `LeavesAreEarned` (`LeaveIsEarned`). The policy has one timer for both directions, and none
of them holds because of the timer alone. `PolicyInv` says what it is armed for: in an outage, `since` is how long it
has lasted, and the timer has the rest of the *present* kind's delay (`OutageFits`), which is why a
change of kind re-arms it; once the printer can print, only a booth it closed has a timer, with the rest of the leave
delay (`RepairFits`); and before the printer is watched, nothing (`BootFits`). `PageKnows` needs, besides, that each
command sent is the last of the stream: it is inductive by itself once the types are.

### Reports and alerts

`BoothReportsProofs`, for any graces and silence that `ReportsAssumption` admits, any number of pages, changes and troubles: `AlertsComeRight`
(`AlertsAreRight`) and `SilencesAreReal` (`SilenceIsReal`), with the types (`ReportsTypes`), that a report or
a timer is always there (`ReporterGoesOn`) and that the engine's camera comes right (`CameraComesRight`). The first two don't say
anything before the booth has been calm for the graces, or the network smooth for two intervals, so the invariant,
`ReportsInv`, has to say how the state gets there, tick by tick:

* the kiosk: the iPad's page is the last one listed and of this load (`KioskFits`), and each other entry has been
  silent for as long as the booth was calm, or is stale (`PagesFit`). After `StaleAfter` ticks one page is left
  to say how the camera is (`OnePageTells`), so the engine's camera is the iPad's, and its age and the
  printer's keep up with the calm (`AgesFit`);
* the reporter: with the engine on there is a report or a timer (`TimerFits`), `Remaining` is how many ticks it may
  still take, and the Hub heard of the booth recently enough for what is left (`HeardFits`). `SilenceIsReal`
  follows;
* the news: a report that read the booth after it settled tells all there is (`MessageFits`); one that was
  already slow may be of before, and another follows it in time (`NewsFits`). `AlertsAreRight` is what remains when
  the three ticks are over.

The proof needed three facts about the constants that the runs' instance has and the code's numbers justify, now in
`ReportsAssumption`: the Hub's silence is at least two intervals (3 min against 30 s), and the printer's grace is
no longer than a page's and the camera's together (1 min against 90 s and 2 min); and that `ready` is among the printer's conditions.
The type invariant is not inductive by itself: what was sent is one of the printer's conditions only because the
heartbeat under way is.

### What is assumed, and what is not proved

No theorem assumes anything beyond the named assumptions and the hypothesis of `GuestsVisitsAreKept`. TLC
evaluates the assumptions on the runs. Every invariant and every action property of the passing runs, and both refinements,
are proved.

Only model-checked: liveness (`BackToIdle`, `CommandsRun`, `MaintenanceShows`, `PageSettles`, `JobsSettle`,
`SilenceShows`, `BoothReturns`), which needs fairness and ENABLED and is out of the prover's reach; and, in the runs that
end in a violation, the violation itself.

## 7. Plan

Done, in this order: EventLottery with PrizeStock; Experience, Visits and GuestVisit;
PrinterMaintenance; BoothPrinter with PrinterStatus; KioskPages, HubAlerts and BoothReports;
BoothUpdate; the theorems of section 6.

Left, most important first:

1. The Hub's registration and token renewal (`hub-reporter.ts:145`: an old registration's 404 that
   ends a new one), and the updates the Hub asks for (`hub-updates.ts`), as a module beside BoothReports.
2. EventBackups: callers that share the copy being written (`event-backups.ts:114`).
3. The renderer's page queue and its browser's restarts.
4. The live view's viewers and offers, on top of KioskPages.

Theorems next: those of the modules above as they come; and the steps under the liveness properties that are safety,
such as the bound on what the page's timers have left. No module has a RECURSIVE operator.

## 8. Not modelled

* Dithering, raster and ESC/POS bytes, schemas, logging, build helpers: pure code, without
  state, that unit tests reach.
* The setup ticket, network and captive portal: loops over files, `nmcli` and firewall
  rules whose state is outside the repository. The setup ticket's print is one of
  BoothPrinter's unenforced jobs.
* Access control (Darkroom PIN, admin sessions, registration codes): this project is about what the
  booth does for guests and staff.
* Admin, Studio, the Darkroom and previews: user interfaces; what they save arrives as
  requests to modelled components.
* That the printer honours the buffer clear, and how long things take: taken from the code and its comments.
  The kiosk's 45 s against the engine's own bounds (`Experience.constants.tsx`) is a
  sum of durations; GuestVisit lets the budget run out at any point instead.
* A transfer that fails by itself, without an abort, does not ask for a buffer clear
  (`booth-printer.ts:330`). The model has it (`cut = "error"`), and `AbortedJobsAreCleared` says
  what the code promises and no more.
