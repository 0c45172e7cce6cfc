----------------------------- MODULE BoothUpdate -----------------------------
(***************************************************************************)
(* booth update, booth rollback, booth restore and booth update --recover: *)
(* jobs that install a release beside the running one, move the link the   *)
(* booth starts from, and go back when the release doesn't come up; with   *)
(* power cuts, a job's process killed, and the booth's own restarts between*)
(* any two of their steps.                                                 *)
(*                                                                         *)
(* The disk survives everything, in the order it was written.  The lock    *)
(* names its holder's process, so one process at a time is at work and a   *)
(* dead one holds nothing: `at' says where it is, "idle" when there is     *)
(* none.  A handover to the CLI just installed is one process here: it     *)
(* keeps the lock.                                                         *)
(*                                                                         *)
(* Definitions whose comment starts with "Fault:" are not the code: each   *)
(* is the definition after it with a plausible bug.                        *)
(***************************************************************************)
EXTENDS Integers, Sequences

CONSTANTS
    Releases,      \* what GitHub publishes for arm64
    Schema,        \* the migrations each release brings
    First,         \* the release installed first
    Down,          \* no release: the booth's service is not running
    KeptBackups,   \* BACKUP_KINDS.update.keep
    Killed,        \* whose process may be killed alone: an update's in its "unit", one
                   \* over "ssh", or a "rollback"
    MaxJobs,       \* bound: jobs in the history
    MaxVisits,     \* bound: what guests record
    MaxFaults      \* bound: power cuts, kills and booth restarts

ASSUME ReleasesAssumption ==
    /\ First \in Releases /\ Down \notin Releases
    /\ Schema \in [Releases -> Nat]
ASSUME UpdateBounds ==
    /\ KeptBackups \in Nat \ {0} /\ Killed \subseteq {"unit", "ssh", "rollback"}
    /\ MaxJobs \in Nat /\ MaxVisits \in Nat /\ MaxFaults \in Nat

VARIABLES
    link,       \* /opt/dither-booth: the release folder it names
    folders,    \* the releases with a folder
    db,         \* the engine's database
    saved,      \* the databases copied by update jobs, oldest first
    status,     \* status.json
    history,    \* history.json, newest first
    plan,       \* the live process: what it is doing
    at,         \* the live process: its next step, "idle" without one
    who,        \* the live process: a job's, a recovery's, or the booth's start
    held,       \* the live process: the copy it puts back, 0 for none
    up,         \* the release whose apps run, or Down
    boot,       \* the service is starting, before its ExecStartPre
    stopPost,   \* the update unit's ExecStopPost is due
    faults,     \* observer: faults so far
    begun,      \* observer: db.visits when the last rollback began
    stuck,      \* observer: a job's error says that going back failed too
    orphan      \* observer: a job was killed that nothing was due to end

disk == <<link, folders, db, saved, status, history>>
process == <<plan, at, who, held>>
service == <<up, boot>>
environment == <<stopPost, faults, begun, stuck, orphan>>
vars == <<disk, process, service, environment>>

Jobs == [kind : {"update", "rollback"}, from : Releases, to : Releases,
         state : {"running", "done", "failed", "rolled-back"},
         step : {"forward", "rollback"},
         backup : Nat, before : Nat, migrated : BOOLEAN]

Databases == [schema : Nat, visits : Nat]

\* The steps of each plan, in order.
Then ==
    [install  |-> [fetch |-> "place", place |-> "backup", backup |-> "switch",
                   switch |-> "restart", restart |-> "check"],
     back     |-> [stop |-> "replace", replace |-> "relink", relink |-> "start",
                   start |-> "look"],
     rollback |-> [stop |-> "replace", replace |-> "relink", relink |-> "start",
                   start |-> "look"],
     undo     |-> [stop |-> "relink", relink |-> "start", start |-> "end"],
     restore  |-> [stop |-> "replace", replace |-> "start", start |-> "look"]]

Steps == {"idle", "fetch", "place", "backup", "switch", "restart", "check",
          "stop", "replace", "relink", "start", "look", "end", "history", "prune"}

TypeOK ==
    /\ link \in Releases /\ folders \subseteq Releases
    /\ db \in Databases /\ saved \in Seq(Databases)
    /\ status \in Jobs /\ history \in Seq(Jobs)
    /\ plan \in DOMAIN Then /\ at \in Steps
    /\ who \in {"job", "recover", "boot"} /\ held \in Nat
    /\ up \in Releases \cup {Down} /\ boot \in BOOLEAN
    /\ stopPost \in BOOLEAN /\ faults \in Nat /\ begun \in Nat
    /\ stuck \in BOOLEAN /\ orphan \in BOOLEAN

\* A booth that was installed at First: its only job is over.
Init ==
    /\ link = First /\ folders = {First}
    /\ db = [schema |-> Schema[First], visits |-> 0] /\ saved = <<>>
    /\ status = [kind |-> "update", from |-> First, to |-> First, state |-> "done",
                 step |-> "forward", backup |-> 0, before |-> 0, migrated |-> FALSE]
    /\ history = <<>>
    /\ plan = "install" /\ at = "idle" /\ who = "job" /\ held = 0
    /\ up = First /\ boot = FALSE
    /\ stopPost = FALSE /\ faults = 0 /\ begun = 0
    /\ stuck = FALSE /\ orphan = FALSE

-----------------------------------------------------------------------------
(***************************************************************************)
(* The live process.                                                       *)
(***************************************************************************)

Idle == at = "idle"
Working(p, step) == plan = p /\ at = step

\* The process goes on to the next step of its plan.
GoesOn == at' = Then[plan][at] /\ UNCHANGED <<plan, who>>

Becomes(p, step, w) == plan' = p /\ at' = step /\ who' = w

\* JobRecorder.finish: the status first; the history is the step after it.
Ends(state, migrated) ==
    /\ status' = [status EXCEPT !.state = state, !.migrated = migrated]
    /\ at' = "history" /\ UNCHANGED <<plan, who>>

\* isRunning
Running == status.state = "running"

\* The releases the booth can run now: the database is one it can read.
Healthy == up = link /\ db.schema >= Schema[link]

NewJob(kind, from, to, backup) ==
    [kind |-> kind, from |-> from, to |-> to, state |-> "running", step |-> "forward",
     backup |-> backup, before |-> 0, migrated |-> FALSE]

\* The apps of the linked release.  Whoever starts them sees to the job on record,
\* unless it restores.
StartsApps ==
    /\ up' = link /\ boot' = FALSE
    /\ orphan' = (orphan /\ Running /\ plan = "restore")
    /\ UNCHANGED <<stopPost, faults, begun, stuck>>

\* switchBack, up to its first write.  At the booth's own start there is
\* nothing to stop.
GoesBack(w) ==
    /\ status' = [status EXCEPT !.step = "rollback"]
    /\ Becomes("back", IF w = "boot" THEN "replace" ELSE "stop", w)

-----------------------------------------------------------------------------
(***************************************************************************)
(* update.  Staff go forward: to a release that brings every migration the *)
(* running one has.                                                        *)
(***************************************************************************)

Free == Idle /\ ~stopPost /\ ~Running /\ Len(history) < MaxJobs

StartUpdate(to) ==
    /\ Free /\ to # link /\ Schema[to] >= Schema[link]
    /\ status' = NewJob("update", link, to, 0)
    /\ Becomes("install", "fetch", "job") /\ held' = 0
    /\ UNCHANGED <<link, folders, db, saved, history, service, environment>>

\* No internet, no room, a download that doesn't match, the booth busy for
\* 10 minutes: anything before the link moves.
UpdateRefused ==
    /\ plan = "install" /\ at \in {"fetch", "place", "backup", "switch"}
    /\ Ends("failed", status.migrated)
    /\ UNCHANGED <<link, folders, db, saved, history, held, service, environment>>

\* Downloaded and unpacked to one side; a folder of this version goes.
Unpack ==
    /\ Working("install", "fetch") /\ GoesOn
    /\ folders' = folders \ {status.to}
    /\ UNCHANGED <<link, db, saved, status, history, held, service, environment>>

Place ==
    /\ Working("install", "place") /\ GoesOn
    /\ folders' = folders \cup {status.to}
    /\ UNCHANGED <<link, db, saved, status, history, held, service, environment>>

\* A download outlasts the booth's start: the engine has migrated by now.
Settled == ~boot /\ (up # Down => db.schema >= Schema[up])

\* The booth serves guests meanwhile: the copy is of this moment.
TakeBackup ==
    /\ Working("install", "backup") /\ Settled /\ GoesOn
    /\ saved' = Append(saved, db)
    /\ status' = [status EXCEPT !.backup = Len(saved) + 1, !.before = db.schema]
    /\ UNCHANGED <<link, folders, db, history, held, service, environment>>

Switch ==
    /\ Working("install", "switch") /\ GoesOn
    /\ link' = status.to
    /\ UNCHANGED <<folders, db, saved, status, history, held, service, environment>>

\* setupSystem, then systemctl restart, whose ExecStartPre finds the lock held.
Restart ==
    /\ Working("install", "restart") /\ GoesOn
    /\ StartsApps
    /\ UNCHANGED <<disk, held>>

CameUp ==
    /\ Working("install", "check") /\ Healthy
    /\ Ends("done", db.schema # status.before)
    /\ UNCHANGED <<link, folders, db, saved, history, held, service, environment>>

\* setupSystem or the restart fails, or the release isn't up within 120 s.
DidNotComeUp ==
    /\ plan = "install" /\ at \in {"restart", "check"}
    /\ GoesBack("job")
    /\ UNCHANGED <<link, folders, db, saved, history, held, service, environment>>

\* finish's second write; an update that is done then clears old folders.
Record ==
    /\ at = "history"
    /\ history' = <<status>> \o history
    /\ at' = IF plan = "install" /\ status.state = "done" THEN "prune" ELSE "idle"
    /\ UNCHANGED <<link, folders, db, saved, status, plan, who, held, service, environment>>

Prune ==
    /\ at = "prune"
    /\ folders' = folders \cap {status.to, status.from}
    /\ at' = "idle"
    /\ UNCHANGED <<link, db, saved, status, history, plan, who, held, service, environment>>

-----------------------------------------------------------------------------
(***************************************************************************)
(* The steps going back, a rollback and a restore share.                   *)
(***************************************************************************)

\* Fault: what an earlier going back recorded counts as well.
MigratedOnRecord ==
    status.backup # 0 /\ (status.migrated \/ db.schema # status.before)

\* migratedSince: counted again now, against the count before the switch.
MigratedSince == status.backup # 0 /\ db.schema # status.before

\* The copy the process puts back now.
Copy == IF plan # "back" THEN held ELSE IF MigratedSince THEN status.backup ELSE 0

\* Each copy of the three newest stays.
Kept(copy) == copy > Len(saved) - KeptBackups

\* systemctl stop, which also ends a start under way.
Stop ==
    /\ at = "stop" /\ GoesOn
    /\ up' = Down /\ boot' = FALSE
    /\ UNCHANGED <<disk, held, environment>>

Replace ==
    /\ at = "replace"
    /\ plan = "rollback" => Copy = 0 \/ Kept(Copy)
    /\ db' = IF Copy = 0 THEN db ELSE saved[Copy]
    /\ held' = Copy
    /\ GoesOn
    /\ UNCHANGED <<link, folders, saved, status, history, service, environment>>

\* pointRepoAt.  Going back writes whether the release had migrated next; at
\* the booth's own start that is its end.
Relink ==
    /\ at = "relink"
    /\ link' = IF plan = "rollback" THEN status.to ELSE status.from
    /\ LET migrated == IF plan = "back" THEN held # 0 ELSE status.migrated IN
       IF plan = "back" /\ who = "boot"
       THEN Ends("rolled-back", migrated)
       ELSE /\ status' = [status EXCEPT !.migrated = migrated]
            /\ GoesOn
    /\ UNCHANGED <<folders, db, saved, history, held, service, environment>>

\* systemctl start: the lock is held, so its ExecStartPre does nothing.
Start ==
    /\ at = "start" /\ GoesOn
    /\ StartsApps
    /\ UNCHANGED <<disk, held>>

\* waitHealthy's answer is only printed.
Restored ==
    /\ Working("restore", "look")
    /\ at' = "idle"
    /\ UNCHANGED <<disk, plan, who, held, service, environment>>

\* Back on the release before, whether it is up again or not.
BackAgain ==
    /\ Working("back", "look")
    /\ Ends("rolled-back", status.migrated)
    /\ UNCHANGED <<link, folders, db, saved, history, held, service, environment>>

-----------------------------------------------------------------------------
(***************************************************************************)
(* rollback.                                                               *)
(***************************************************************************)

Earlier == {i \in DOMAIN history :
               /\ history[i].kind = "update" /\ history[i].state = "done"
               /\ history[i].to = link /\ history[i].from # link}

\* findRollbackTarget's job: the last update to the running release.
Installed == history[CHOOSE i \in Earlier : \A j \in Earlier : i <= j]

CanRollBack == Earlier # {} /\ Installed.from \in folders

\* Fault: keep-db is not refused when the newer release migrated.
AnyMode(mode) == mode = "keep-db" \/ Installed.backup # 0

Allowed(mode) ==
    \/ mode = "keep-db" /\ ~Installed.migrated
    \/ mode = "restore-db" /\ Installed.backup # 0

StartRollback(mode) ==
    /\ Free /\ CanRollBack /\ Allowed(mode)
    /\ LET backup == IF mode = "restore-db" THEN Installed.backup ELSE 0 IN
       /\ status' = NewJob("rollback", link, Installed.from, backup)
       /\ held' = backup
    /\ Becomes("rollback", "stop", "job") /\ begun' = db.visits
    /\ UNCHANGED <<link, folders, db, saved, history, service, stopPost, faults, stuck, orphan>>

RolledBack ==
    /\ Working("rollback", "look") /\ Healthy
    /\ Ends("done", status.migrated)
    /\ UNCHANGED <<link, folders, db, saved, history, held, service, environment>>

\* A step fails (the backup is gone: three later updates took theirs), or the
\* older release isn't up within 120 s: back to the one the booth ran.
RollbackFails ==
    /\ plan = "rollback" /\ at \in DOMAIN Then.rollback \cup {"look"}
    /\ Becomes("undo", "stop", who)
    /\ UNCHANGED <<disk, held, service, environment>>

RollbackUndone ==
    /\ Working("undo", "end")
    /\ Ends("failed", status.migrated)
    /\ UNCHANGED <<link, folders, db, saved, history, held, service, environment>>

-----------------------------------------------------------------------------
(***************************************************************************)
(* booth restore: no job, only the lock.                                   *)
(***************************************************************************)

StartRestore(copy) ==
    /\ Idle /\ ~stopPost /\ ~boot
    /\ Kept(copy) /\ saved[copy].schema <= db.schema
    /\ Becomes("restore", "stop", "job") /\ held' = copy
    /\ UNCHANGED <<disk, service, environment>>

\* Nothing was put back: a booth that was stopped is started all the same.
RestoreFails ==
    /\ plan = "restore" /\ at \in {"stop", "replace"}
    /\ at' = IF at = "stop" THEN "idle" ELSE "start"
    /\ UNCHANGED <<disk, plan, who, held, service, environment>>

-----------------------------------------------------------------------------
(***************************************************************************)
(* recover, once the job's process is gone.                                *)
(***************************************************************************)

\* Fault: only a job that had got to its own going back is taken back.
SwitchedNever == status.step = "rollback"

\* Fault: a going back that was cut short is taken up by the link alone.
SwitchedByLink == link = status.to

\* The link moved, or a going back was cut short.
Switched == link = status.to \/ status.step = "rollback"

Recover(w) ==
    /\ Idle /\ Running
    /\ IF status.kind = "update" /\ Switched /\ status.from \in folders
       THEN GoesBack(w)
       ELSE /\ status' = [status EXCEPT !.state = "failed"]
            /\ Becomes("back", "history", w)
    /\ UNCHANGED <<link, folders, db, saved, history, held>>

\* The update unit's, however its process ended.
ExecStopPost ==
    /\ Idle /\ stopPost /\ stopPost' = FALSE
    /\ IF Running THEN Recover("recover") ELSE UNCHANGED <<disk, process>>
    /\ UNCHANGED <<service, faults, begun, stuck, orphan>>

\* A new job ends what a crash left behind before its own work.  Where that is a
\* rollback, a booth it had stopped stays stopped.
RecoverFirst ==
    /\ ~stopPost /\ Recover("recover")
    /\ orphan' = (orphan /\ up = Down)
    /\ UNCHANGED <<service, stopPost, faults, begun, stuck>>

\* The booth's start: --no-restart.
ExecStartPre ==
    /\ boot /\ Recover("boot")
    /\ orphan' = FALSE
    /\ UNCHANGED <<service, stopPost, faults, begun, stuck>>

\* With no job to end, or a live one holding the lock.
ExecStart ==
    /\ boot
    /\ IF Idle THEN ~Running ELSE who # "boot"
    /\ StartsApps
    /\ UNCHANGED <<disk, process>>

-----------------------------------------------------------------------------
(***************************************************************************)
(* The engine and the guests; faults.                                      *)
(***************************************************************************)

\* The engine applies its migrations at its start.
Migrate ==
    /\ up # Down /\ db.schema < Schema[up]
    /\ db' = [db EXCEPT !.schema = Schema[up]]
    /\ UNCHANGED <<link, folders, saved, status, history, process, service, environment>>

Visit ==
    /\ up # Down /\ db.schema >= Schema[up] /\ db.visits < MaxVisits
    /\ db' = [db EXCEPT !.visits = @ + 1]
    /\ UNCHANGED <<link, folders, saved, status, history, process, service, environment>>

Fault == faults < MaxFaults /\ faults' = faults + 1

PowerCut ==
    /\ Fault
    /\ up' = Down /\ boot' = TRUE /\ at' = "idle"
    /\ stopPost' = FALSE /\ orphan' = FALSE
    /\ UNCHANGED <<disk, plan, who, held, begun, stuck>>

\* Out of memory, its unit's timeout, an SSH session that drops: the process is
\* gone, the power is on.  The update's unit has an ExecStopPost; a rollback's
\* has none, and staff's shell runs no unit.  (A CLI over SSH that outlives the
\* one it handed its job to ends it, as the unit would.)
Kill ==
    /\ Fault
    /\ ~Idle /\ who = "job" /\ plan # "restore"
    /\ \E by \in Killed :
        /\ (by = "rollback") = (status.kind = "rollback")
        /\ stopPost' = (by = "unit")
        /\ orphan' = (orphan \/ by # "unit")
    /\ at' = "idle"
    /\ UNCHANGED <<disk, plan, who, held, service, begun, stuck>>

\* Going back meets an error of its own: the job ends where it stands.
GoingBackFails ==
    /\ Fault
    /\ plan = "back" /\ at \in DOMAIN Then.back
    /\ status' = [status EXCEPT !.state = "rolled-back"]
    /\ at' = "history" /\ stuck' = TRUE
    /\ UNCHANGED <<link, folders, db, saved, history, plan, who, held, service, stopPost,
                   begun, orphan>>

\* The admin, or a new address: systemctl restart of a service that runs.
BoothRestarts ==
    /\ Fault
    /\ up # Down /\ up' = Down /\ boot' = TRUE
    /\ UNCHANGED <<disk, process, stopPost, begun, stuck, orphan>>

-----------------------------------------------------------------------------
JobStep ==
    \/ UpdateRefused \/ Unpack \/ Place \/ TakeBackup \/ Switch \/ Restart
    \/ CameUp \/ DidNotComeUp \/ Record \/ Prune
    \/ Stop \/ Replace \/ Relink \/ Start \/ BackAgain
    \/ RolledBack \/ RollbackFails \/ RollbackUndone \/ Restored \/ RestoreFails

Next ==
    \/ JobStep
    \/ \E to \in Releases : StartUpdate(to)
    \/ \E mode \in {"keep-db", "restore-db"} : StartRollback(mode)
    \/ \E copy \in DOMAIN saved : StartRestore(copy)
    \/ ExecStopPost \/ RecoverFirst \/ ExecStartPre \/ ExecStart
    \/ Migrate \/ Visit
    \/ PowerCut \/ Kill \/ GoingBackFails \/ BoothRestarts

\* A live process goes on, and systemd runs what it is due to; staff, guests
\* and faults owe nothing.
Spec ==
    /\ Init /\ [][Next]_vars
    /\ WF_vars(JobStep)
    /\ WF_vars(ExecStopPost) /\ WF_vars(ExecStartPre) /\ WF_vars(ExecStart)

-----------------------------------------------------------------------------
(***************************************************************************)
(* Properties.                                                             *)
(***************************************************************************)

\* Migrations only go forward: no release ever runs on a database a newer one
\* migrated, whatever was interrupted, taken back or rolled back before.
ReadsItsDatabase == up # Down => db.schema <= Schema[up]

\* The status staff read once a job is over is true of the link: done is on
\* `to'; a failed update and anything rolled back are on `from', unless an
\* error says that going back failed too.
StatusIsTrue ==
    /\ status.state = "done" => link = status.to
    /\ status.state = "rolled-back" /\ ~stuck => link = status.from
    /\ status.state = "failed" /\ status.kind = "update" => link = status.from

\* What guests recorded is dropped only with the booth stopped, and only when
\* staff asked for a copy by name or while the link still names the release
\* that migrated it: a going back that is run again never puts the copy over
\* what guests recorded since the first time.  (After a going back that failed,
\* the link may name a release the database has not been migrated by.)
VisitsAreKept ==
    [][db'.visits < db.visits /\ ~stuck =>
          /\ up = Down /\ ~(boot /\ who # "boot")
          /\ \/ plan = "restore"
             \/ status.kind = "rollback" /\ status.backup # 0
             \/ link = status.to]_vars

\* The booth comes back: however often a job is cut short, none is left running
\* and, unless going back itself met an error, the booth is up again; but for a
\* rollback, or an update over SSH, that is killed and that neither a start of the
\* booth nor a new job ever ends.
BoothReturns == []<>(~Running /\ (up # Down \/ stuck)) \/ <>[]orphan

\* What updates.md says of recovery: no interrupted job is left running.
NoneLeftRunning == Running ~> ~Running

\* What `booth rollback' prints of a job that failed: nothing changed, the
\* booth still runs what it ran.
FailedChangedNothing ==
    [][Running /\ status.kind = "rollback" /\ status'.state = "failed"
          => link = status.from /\ db.visits >= begun]_vars

=============================================================================
