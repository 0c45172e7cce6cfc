-------------------------- MODULE BoothUpdateProofs --------------------------
(***************************************************************************)
(* What the record of the jobs says about the databases that were copied,  *)
(* and what each step of a live process may rely on, whatever was cut      *)
(* short: from it, for any releases, migrations and kinds of job that may  *)
(* be killed, ReadsItsDatabase and StatusIsTrue.                           *)
(***************************************************************************)
EXTENDS BoothUpdate, WellFoundedInduction, TLAPS

\* The running release has every migration of the database, and the link names
\* it or one that has more.
DatabaseFits ==
    /\ db.schema <= Schema[link]
    /\ up # Down => db.schema <= Schema[up] /\ Schema[up] <= Schema[link]

\* The copy an update took is of the release it left; done and not migrated,
\* it left the database as that release had it.
UpdateFits(job) ==
    job.kind = "update" =>
        /\ Schema[job.from] <= Schema[job.to]
        /\ job.backup # 0 =>
              /\ job.backup \in 1..Len(saved)
              /\ saved[job.backup].schema = job.before
              /\ job.before <= Schema[job.from]
        /\ job.state = "done" /\ ~job.migrated => Schema[job.to] <= Schema[job.from]

RecordFits == UpdateFits(status) /\ \A i \in 1..Len(history) : UpdateFits(history[i])

\* Past the link's move, an update has its copy and its way back.
UpdateUnderWay ==
    Running /\ status.kind = "update" =>
        /\ status.from # status.to /\ link \in {status.from, status.to}
        /\ status.from \in folders
        /\ Switched => status.backup # 0

\* Both releases of a rollback are there, and what it puts back suits the older.
RollbackUnderWay ==
    Running /\ status.kind = "rollback" =>
        /\ link \in {status.from, status.to}
        /\ status.from \in folders /\ status.to \in folders
        /\ Schema[status.to] <= Schema[status.from]
        /\ status.backup = 0 => Schema[status.from] <= Schema[status.to]
        /\ status.backup # 0 =>
              /\ status.backup \in 1..Len(saved)
              /\ saved[status.backup].schema <= Schema[status.to]

InstallFits ==
    plan = "install" /\ at \notin {"idle", "history", "prune"} =>
        /\ at \in {"fetch", "place", "backup", "switch", "restart", "check"}
        /\ Running /\ status.kind = "update" /\ who = "job"
        /\ link = IF at \in {"restart", "check"} THEN status.to ELSE status.from
        /\ at \in {"backup", "switch"} => status.to \in folders
        /\ at = "switch" => status.backup # 0

BackFits ==
    plan = "back" /\ at \notin {"idle", "history"} =>
        /\ at \in {"stop", "replace", "relink", "start", "look"}
        /\ Running /\ status.kind = "update" /\ status.step = "rollback"
        /\ at = "relink" => db.schema <= Schema[status.from]
        /\ at \in {"start", "look"} => link = status.from /\ who # "boot"

RollbackFits ==
    plan = "rollback" /\ at \notin {"idle", "history"} =>
        /\ at \in {"stop", "replace", "relink", "start", "look"}
        /\ Running /\ status.kind = "rollback" /\ held = status.backup /\ who = "job"
        /\ link = IF at \in {"start", "look"} THEN status.to ELSE status.from
        /\ at = "relink" => db.schema <= Schema[status.to]

UndoFits ==
    plan = "undo" /\ at \notin {"idle", "history"} =>
        /\ at \in {"stop", "relink", "start", "end"}
        /\ Running /\ status.kind = "rollback" /\ who = "job"

RestoreFits ==
    plan = "restore" /\ at # "idle" =>
        /\ at \in {"stop", "replace", "start", "look"} /\ who = "job"
        /\ at \in {"stop", "replace"} =>
              held \in 1..Len(saved) /\ saved[held].schema <= Schema[link]

\* Nothing runs while a process replaces the database or moves the link.
StoppedFits ==
    /\ boot => up = Down
    /\ at \in {"replace", "relink", "start"} => up = Down /\ (boot => who = "boot")

RestFits ==
    /\ link \in folders
    /\ at \in {"history", "prune"} => ~Running
    /\ at = "prune" => plan = "install" /\ status.state = "done"

ProcessFits ==
    /\ InstallFits /\ BackFits /\ RollbackFits /\ UndoFits /\ RestoreFits
    /\ StoppedFits /\ RestFits

UpdateInv ==
    /\ TypeOK /\ DatabaseFits /\ RecordFits /\ UpdateUnderWay /\ RollbackUnderWay
    /\ ProcessFits /\ StatusIsTrue

-----------------------------------------------------------------------------
\* The observers, and what is due to run, are no part of it.
LEMMA FrameInv ==
  ASSUME UpdateInv, stopPost' \in BOOLEAN, faults' \in Nat, begun' \in Nat, orphan' \in BOOLEAN,
         UNCHANGED <<link, folders, db, saved, status, history, plan, at, who, held, up, boot,
                     stuck>>
  PROVE  UpdateInv'
<1>1. TypeOK'
  BY DEF UpdateInv, TypeOK
<1>2. DatabaseFits' /\ RecordFits' /\ UpdateUnderWay' /\ RollbackUnderWay' /\ StatusIsTrue'
  BY DEF UpdateInv, DatabaseFits, RecordFits, UpdateFits, UpdateUnderWay, RollbackUnderWay,
     StatusIsTrue, Running, Switched
<1>3. ProcessFits'
  BY DEF UpdateInv, ProcessFits, InstallFits, BackFits, RollbackFits, UndoFits, RestoreFits,
     StoppedFits, RestFits, Running
<1>. QED
  BY <1>1, <1>2, <1>3 DEF UpdateInv

\* A set of positions has a first.
LEMMA FirstPosition ==
  ASSUME NEW S, S \subseteq Nat, S # {}
  PROVE  \E i \in S : \A j \in S : i <= j
<1>. DEFINE Less == {ss \in Nat \X Nat : ss[1] < ss[2]}
<1>1. IsWellFoundedOn(Less, Nat)
  BY NatLessThanWellFounded DEF OpToRel
<1>2. PICK i \in S : \A j \in S : ~ (<<j, i>> \in Less)
  <2>. HIDE DEF Less
  <2>. QED
    BY ONLY <1>1, S \subseteq Nat, S # {}, WFMin
<1>3. ASSUME NEW j \in S
      PROVE  i <= j
  <2>1. i \in Nat /\ j \in Nat /\ ~ (<<j, i>> \in Less)
    BY <1>2
  <2>2. ~ (j < i)
    BY <2>1
  <2>. QED
    BY <2>1, <2>2
<1>. QED
  BY <1>3

\* The update a rollback goes back on is one of the history's.
LEMMA InstalledFits ==
  ASSUME TypeOK, RecordFits, CanRollBack
  PROVE  /\ Installed \in Jobs /\ UpdateFits(Installed)
         /\ Installed.kind = "update" /\ Installed.state = "done"
         /\ Installed.to = link /\ Installed.from \in folders /\ Installed.from # link
<1>1. Earlier \subseteq 1..Len(history) /\ Earlier # {} /\ 1..Len(history) \subseteq Nat
  BY DEF CanRollBack, Earlier, TypeOK
<1>2. \E i \in Earlier : \A j \in Earlier : i <= j
  BY <1>1, FirstPosition
<1>3. PICK i \in Earlier : Installed = history[i]
  BY <1>2 DEF Installed
<1>4. i \in 1..Len(history) /\ history[i] \in Jobs
  BY <1>1 DEF TypeOK
<1>. QED
  BY <1>3, <1>4 DEF RecordFits, Earlier, CanRollBack

-----------------------------------------------------------------------------
\* A new update.
LEMMA StartUpdateInv ==
  ASSUME UpdateInv, NEW to \in Releases, StartUpdate(to)
  PROVE  UpdateInv'
<1>. USE ReleasesAssumption, UpdateBounds
     DEF UpdateInv, TypeOK, DatabaseFits, RecordFits, UpdateFits, UpdateUnderWay,
        RollbackUnderWay, ProcessFits, InstallFits, BackFits, RollbackFits, UndoFits,
        RestoreFits, StoppedFits, RestFits, StatusIsTrue, Running, Switched
<1>1. TypeOK'
  BY DEF StartUpdate, Free, Idle, NewJob, Becomes, Jobs, Then, Steps, disk, process,
     service, environment
<1>2. DatabaseFits' /\ RecordFits'
  BY DEF StartUpdate, Free, Idle, NewJob, Becomes, Jobs, Then, Steps, disk, process,
     service, environment
<1>3. StatusIsTrue' /\ UpdateUnderWay' /\ RollbackUnderWay'
  BY DEF StartUpdate, Free, Idle, NewJob, Becomes, Jobs, Then, Steps, disk, process,
     service, environment
<1>4. InstallFits' /\ BackFits'
  BY DEF StartUpdate, Free, Idle, NewJob, Becomes, Jobs, Then, Steps, disk, process,
     service, environment
<1>5. RollbackFits' /\ UndoFits' /\ RestoreFits'
  BY DEF StartUpdate, Free, Idle, NewJob, Becomes, Jobs, Then, Steps, disk, process,
     service, environment
<1>6. StoppedFits' /\ RestFits'
  BY DEF StartUpdate, Free, Idle, NewJob, Becomes, Jobs, Then, Steps, disk, process,
     service, environment
<1>. QED
  BY <1>1, <1>2, <1>3, <1>4, <1>5, <1>6

\* A folder comes or goes, never the one the booth needs.
LEMMA FoldersInv ==
  ASSUME UpdateInv, Unpack \/ Place \/ Prune
  PROVE  UpdateInv'
<1>. USE ReleasesAssumption, UpdateBounds
     DEF UpdateInv, TypeOK, DatabaseFits, RecordFits, UpdateFits, UpdateUnderWay,
        RollbackUnderWay, ProcessFits, InstallFits, BackFits, RollbackFits, UndoFits,
        RestoreFits, StoppedFits, RestFits, StatusIsTrue, Running, Switched
<1>1. TypeOK'
  BY DEF Unpack, Place, Prune, GoesOn, Working, Then, Jobs, Steps, disk, process,
     service, environment
<1>2. DatabaseFits' /\ RecordFits'
  BY DEF Unpack, Place, Prune, GoesOn, Working, Then, Jobs, Steps, disk, process,
     service, environment
<1>3. StatusIsTrue' /\ UpdateUnderWay' /\ RollbackUnderWay'
  BY DEF Unpack, Place, Prune, GoesOn, Working, Then, Jobs, Steps, disk, process,
     service, environment
<1>4. InstallFits' /\ BackFits'
  BY DEF Unpack, Place, Prune, GoesOn, Working, Then, Jobs, Steps, disk, process,
     service, environment
<1>5. RollbackFits' /\ UndoFits' /\ RestoreFits'
  BY DEF Unpack, Place, Prune, GoesOn, Working, Then, Jobs, Steps, disk, process,
     service, environment
<1>6. StoppedFits' /\ RestFits'
  BY DEF Unpack, Place, Prune, GoesOn, Working, Then, Jobs, Steps, disk, process,
     service, environment
<1>. QED
  BY <1>1, <1>2, <1>3, <1>4, <1>5, <1>6

\* The copy is of the release the update leaves.
LEMMA TakeBackupInv ==
  ASSUME UpdateInv, TakeBackup
  PROVE  UpdateInv'
<1>. USE ReleasesAssumption, UpdateBounds
     DEF UpdateInv, TypeOK, DatabaseFits, UpdateUnderWay, RollbackUnderWay,
        ProcessFits, InstallFits, BackFits, RollbackFits, UndoFits, RestoreFits, StoppedFits,
        RestFits, StatusIsTrue, Running, Switched
<1>1. /\ plan = "install" /\ at = "backup" /\ at' = "switch" /\ saved' = Append(saved, db)
      /\ status' = [status EXCEPT !.backup = Len(saved) + 1, !.before = db.schema]
      /\ UNCHANGED <<link, folders, db, history, plan, who, held, up, boot, stopPost, faults,
                     begun, stuck, orphan>>
  BY DEF TakeBackup, Working, GoesOn, Then, service, environment
<1>2. /\ saved' \in Seq(Databases) /\ Len(saved') = Len(saved) + 1
      /\ \A i \in 1..Len(saved) : saved'[i] = saved[i]
      /\ saved'[Len(saved) + 1] = db
  BY <1>1
<1>3. /\ status' \in Jobs /\ status'.backup = Len(saved) + 1 /\ status'.before = db.schema
      /\ \A f \in {"kind", "from", "to", "state", "step", "migrated"} : status'[f] = status[f]
  <2>1. Len(saved) + 1 \in Nat /\ db.schema \in Nat
    BY DEF Databases
  <2>. QED
    BY <1>1, <2>1 DEF Jobs
<1>4. TypeOK'
  BY <1>1, <1>2, <1>3 DEF Steps
<1>5. RecordFits'
  <2>1. ASSUME NEW job \in Jobs, UpdateFits(job)
        PROVE  UpdateFits(job)'
    BY <1>2, <2>1 DEF UpdateFits, Jobs
  <2>2. /\ status.kind = "update" /\ status.state = "running"
        /\ status.from = link /\ Schema[status.from] <= Schema[status.to]
    BY <1>1 DEF UpdateFits, RecordFits
  <2>3. /\ Len(saved) + 1 \in 1..Len(saved')
        /\ saved'[Len(saved) + 1].schema = db.schema /\ db.schema <= Schema[status.from]
    BY <1>2, <2>2
  <2>4. UpdateFits(status)'
    BY <1>3, <2>2, <2>3 DEF UpdateFits
  <2>. QED
    BY <1>1, <2>1, <2>4 DEF RecordFits
<1>6. /\ \A f \in {"kind", "from", "to", "state", "step", "migrated"} : status'[f] = status[f]
      /\ status'.kind = status.kind /\ status'.state = status.state /\ status'.from = status.from
      /\ status'.to = status.to /\ status'.step = status.step
  BY <1>3
<1>7. DatabaseFits' /\ StatusIsTrue'
  BY <1>1, <1>6
<1>8. UpdateUnderWay' /\ RollbackUnderWay'
  BY <1>1, <1>6
<1>9. ProcessFits'
  BY <1>1, <1>2, <1>3, <1>6 DEF Jobs
<1>. QED
  BY <1>4, <1>5, <1>7, <1>8, <1>9

\* The link moves to the new release, which has every migration of the old.
LEMMA SwitchInv ==
  ASSUME UpdateInv, Switch
  PROVE  UpdateInv'
<1>. USE ReleasesAssumption
     DEF UpdateInv, TypeOK, DatabaseFits, RecordFits, UpdateFits, UpdateUnderWay,
        RollbackUnderWay, ProcessFits, InstallFits, BackFits, RollbackFits, UndoFits,
        RestoreFits, StoppedFits, RestFits, StatusIsTrue, Running, Switched
<1>1. /\ plan = "install" /\ at = "switch" /\ at' = "restart" /\ link' = status.to
      /\ UNCHANGED <<folders, db, saved, status, history, plan, who, held, up, boot, stopPost,
                     faults, begun, stuck, orphan>>
  BY DEF Switch, Working, GoesOn, Then, service, environment
<1>2. /\ link = status.from /\ Schema[link] <= Schema[link']
      /\ Schema[link] \in Nat /\ Schema[link'] \in Nat
  BY <1>1 DEF Jobs
<1>3. TypeOK'
  BY <1>1 DEF Steps, Jobs
<1>4. DatabaseFits'
  BY <1>1, <1>2 DEF Databases
<1>5. RecordFits' /\ StatusIsTrue' /\ UpdateUnderWay' /\ RollbackUnderWay'
  BY <1>1
<1>6. ProcessFits'
  BY <1>1
<1>. QED
  BY <1>3, <1>4, <1>5, <1>6

\* The new release runs: an update that is done has its migrations.
LEMMA CameUpInv ==
  ASSUME UpdateInv, CameUp
  PROVE  UpdateInv'
<1>. USE ReleasesAssumption, UpdateBounds
     DEF UpdateInv, TypeOK, DatabaseFits, UpdateUnderWay, RollbackUnderWay, ProcessFits,
        InstallFits, BackFits, RollbackFits, UndoFits, RestoreFits, StoppedFits, RestFits,
        StatusIsTrue, Running, Switched
<1>1. /\ plan = "install" /\ at = "check" /\ at' = "history"
      /\ up = link /\ db.schema >= Schema[link]
      /\ status' = [status EXCEPT !.state = "done", !.migrated = db.schema # status.before]
      /\ UNCHANGED <<link, folders, db, saved, history, plan, who, held, up, boot, stopPost,
                     faults, begun, stuck, orphan>>
  BY DEF CameUp, Working, Healthy, Ends, service, environment
<1>2. /\ status' \in Jobs /\ status'.state = "done"
      /\ status'.migrated = (db.schema # status.before)
      /\ \A f \in {"kind", "from", "to", "step", "backup", "before"} : status'[f] = status[f]
  BY <1>1 DEF Jobs
<1>3. TypeOK'
  BY <1>1, <1>2 DEF Steps
<1>4. RecordFits'
  <2>1. db.schema = Schema[status.to] /\ status.backup # 0
    BY <1>1 DEF Databases, Jobs
  <2>2. UpdateFits(status)'
    BY <1>1, <1>2, <2>1 DEF RecordFits, UpdateFits
  <2>. QED
    BY <1>1, <2>2 DEF RecordFits, UpdateFits
<1>5. DatabaseFits' /\ StatusIsTrue' /\ UpdateUnderWay' /\ RollbackUnderWay'
  BY <1>1, <1>2
<1>6. ProcessFits'
  BY <1>1, <1>2
<1>. QED
  BY <1>3, <1>4, <1>5, <1>6

\* The update starts its going back.
LEMMA DidNotComeUpInv ==
  ASSUME UpdateInv, DidNotComeUp
  PROVE  UpdateInv'
<1>. USE ReleasesAssumption, UpdateBounds
     DEF UpdateInv, TypeOK, DatabaseFits, RecordFits, UpdateFits, UpdateUnderWay,
        RollbackUnderWay, ProcessFits, InstallFits, BackFits, RollbackFits, UndoFits,
        RestoreFits, StoppedFits, RestFits, StatusIsTrue, Running, Switched
<1>1. TypeOK'
  BY DEF DidNotComeUp, GoesBack, Becomes, Jobs, Then, Steps, disk, process, service,
     environment
<1>2. DatabaseFits' /\ RecordFits'
  BY DEF DidNotComeUp, GoesBack, Becomes, Jobs, Then, Steps, disk, process, service,
     environment
<1>3. StatusIsTrue' /\ UpdateUnderWay' /\ RollbackUnderWay'
  BY DEF DidNotComeUp, GoesBack, Becomes, Jobs, Then, Steps, disk, process, service,
     environment
<1>4. InstallFits' /\ BackFits'
  BY DEF DidNotComeUp, GoesBack, Becomes, Jobs, Then, Steps, disk, process, service,
     environment
<1>5. RollbackFits' /\ UndoFits' /\ RestoreFits'
  BY DEF DidNotComeUp, GoesBack, Becomes, Jobs, Then, Steps, disk, process, service,
     environment
<1>6. StoppedFits' /\ RestFits'
  BY DEF DidNotComeUp, GoesBack, Becomes, Jobs, Then, Steps, disk, process, service,
     environment
<1>. QED
  BY <1>1, <1>2, <1>3, <1>4, <1>5, <1>6

\* A job ends: the link is where its state says.
LEMMA EndsInv ==
  ASSUME UpdateInv,
         UpdateRefused \/ BackAgain \/ RolledBack \/ RollbackUndone \/ GoingBackFails
  PROVE  UpdateInv'
<1>. USE ReleasesAssumption, UpdateBounds
     DEF UpdateInv, TypeOK, DatabaseFits, UpdateUnderWay, RollbackUnderWay, ProcessFits,
        InstallFits, BackFits, RollbackFits, UndoFits, RestoreFits, StoppedFits, RestFits,
        StatusIsTrue, Running, Switched
<1>1. PICK state \in {"done", "failed", "rolled-back"} :
         /\ status' = [status EXCEPT !.state = state, !.migrated = status.migrated]
         /\ state = "done" => status.kind = "rollback" /\ link = status.to
         /\ state = "rolled-back" => link = status.from \/ stuck'
         /\ state = "failed" => status.kind = "rollback" \/ link = status.from
  <2>1. CASE UpdateRefused \/ BackAgain \/ RolledBack \/ RollbackUndone
    BY <2>1 DEF UpdateRefused, BackAgain, RolledBack, RollbackUndone, Working, Ends
  <2>2. CASE GoingBackFails
    <3>1. [status EXCEPT !.state = "rolled-back"]
             = [status EXCEPT !.state = "rolled-back", !.migrated = status.migrated]
      BY DEF Jobs
    <3>. QED
      BY <2>2, <3>1 DEF GoingBackFails
  <2>. QED
    BY <2>1, <2>2
<1>2. /\ Running /\ at' = "history" /\ plan # "restore"
      /\ UNCHANGED <<link, folders, db, saved, history, plan, who, held, up, boot, stopPost, begun>>
      /\ faults' \in Nat /\ stuck' \in BOOLEAN /\ orphan' \in BOOLEAN /\ (stuck => stuck')
  <2>1. CASE UpdateRefused \/ BackAgain \/ RolledBack \/ RollbackUndone
    BY <2>1 DEF UpdateRefused, BackAgain, RolledBack, RollbackUndone, Working, Ends, service,
       environment
  <2>2. CASE GoingBackFails
    BY <2>2 DEF GoingBackFails, Fault, Then, service
  <2>. QED
    BY <2>1, <2>2
<1>3. /\ status' \in Jobs /\ status'.state = state
      /\ \A f \in {"kind", "from", "to", "step", "backup", "before", "migrated"} :
            status'[f] = status[f]
  BY <1>1 DEF Jobs
<1>4. TypeOK'
  BY <1>2, <1>3 DEF Steps
<1>5. RecordFits'
  <2>1. UpdateFits(status)'
    BY <1>1, <1>2, <1>3 DEF RecordFits, UpdateFits
  <2>. QED
    BY <1>2, <2>1 DEF RecordFits, UpdateFits
<1>6. DatabaseFits' /\ StatusIsTrue' /\ UpdateUnderWay' /\ RollbackUnderWay'
  BY <1>1, <1>2, <1>3
<1>7. ProcessFits'
  BY <1>2, <1>3
<1>. QED
  BY <1>4, <1>5, <1>6, <1>7

\* The job joins the history.
LEMMA RecordInv ==
  ASSUME UpdateInv, Record
  PROVE  UpdateInv'
<1>. USE ReleasesAssumption, UpdateBounds
     DEF UpdateInv, TypeOK, DatabaseFits, RecordFits, UpdateFits, UpdateUnderWay,
        RollbackUnderWay, ProcessFits, InstallFits, BackFits, RollbackFits, UndoFits,
        RestoreFits, StoppedFits, RestFits, StatusIsTrue, Running, Switched
<1>1. TypeOK'
  BY DEF Record, Steps, disk, process, service, environment
<1>2. DatabaseFits' /\ RecordFits'
  BY DEF Record, Steps, disk, process, service, environment
<1>3. StatusIsTrue' /\ UpdateUnderWay' /\ RollbackUnderWay'
  BY DEF Record, Steps, disk, process, service, environment
<1>4. InstallFits' /\ BackFits'
  BY DEF Record, Steps, disk, process, service, environment
<1>5. RollbackFits' /\ UndoFits' /\ RestoreFits'
  BY DEF Record, Steps, disk, process, service, environment
<1>6. StoppedFits' /\ RestFits'
  BY DEF Record, Steps, disk, process, service, environment
<1>. QED
  BY <1>1, <1>2, <1>3, <1>4, <1>5, <1>6

-----------------------------------------------------------------------------
\* A rollback, of an update whose record says what may be put back.
LEMMA StartRollbackInv ==
  ASSUME UpdateInv, NEW mode \in {"keep-db", "restore-db"}, StartRollback(mode)
  PROVE  UpdateInv'
<1>. USE ReleasesAssumption, UpdateBounds
     DEF UpdateInv, TypeOK, DatabaseFits, UpdateUnderWay, RollbackUnderWay,
        ProcessFits, InstallFits, BackFits, RollbackFits, UndoFits, RestoreFits, StoppedFits,
        RestFits, StatusIsTrue, Running, Switched
<1>1. /\ Installed \in Jobs /\ UpdateFits(Installed)
      /\ Installed.kind = "update" /\ Installed.state = "done"
      /\ Installed.to = link /\ Installed.from \in folders /\ Installed.from # link
  BY InstalledFits DEF StartRollback
<1>2. PICK backup \in Nat :
         /\ backup = IF mode = "restore-db" THEN Installed.backup ELSE 0
         /\ status' = NewJob("rollback", link, Installed.from, backup) /\ held' = backup
  BY <1>1 DEF StartRollback, Jobs
<1>3. /\ at = "idle" /\ ~Running /\ plan' = "rollback" /\ at' = "stop" /\ who' = "job"
      /\ begun' = db.visits
      /\ UNCHANGED <<link, folders, db, saved, history, up, boot, stopPost, faults, stuck, orphan>>
  BY DEF StartRollback, Free, Idle, Becomes, service
<1>4. /\ status' \in Jobs /\ status'.kind = "rollback" /\ status'.state = "running"
      /\ status'.from = link /\ status'.to = Installed.from /\ status'.backup = backup
  BY <1>1, <1>2 DEF NewJob, Jobs
<1>5. TypeOK'
  BY <1>2, <1>3, <1>4 DEF Steps, Then, Databases
<1>6. DatabaseFits' /\ RecordFits'
  BY <1>3, <1>4 DEF RecordFits, UpdateFits
<1>7. /\ Schema[Installed.from] <= Schema[link]
      /\ backup = 0 => Schema[link] <= Schema[Installed.from]
      /\ backup # 0 => /\ backup \in 1..Len(saved)
                       /\ saved[backup].schema <= Schema[Installed.from]
  BY <1>1, <1>2 DEF StartRollback, Allowed, UpdateFits, Jobs, Databases
<1>8. StatusIsTrue' /\ UpdateUnderWay' /\ RollbackUnderWay'
  BY <1>1, <1>3, <1>4, <1>7
<1>9. ProcessFits'
  BY <1>2, <1>3, <1>4
<1>. QED
  BY <1>5, <1>6, <1>8, <1>9

\* A restore of a copy the running release can read.
LEMMA StartRestoreInv ==
  ASSUME UpdateInv, NEW copy \in DOMAIN saved, StartRestore(copy)
  PROVE  UpdateInv'
<1>. USE ReleasesAssumption, UpdateBounds
     DEF UpdateInv, TypeOK, DatabaseFits, RecordFits, UpdateFits, UpdateUnderWay, RollbackUnderWay,
        ProcessFits, InstallFits, BackFits, RollbackFits, UndoFits, RestoreFits, StoppedFits,
        RestFits, StatusIsTrue, Running, Switched
<1>1. /\ at = "idle" /\ plan' = "restore" /\ at' = "stop" /\ who' = "job"
      /\ held' = copy /\ saved[copy].schema <= db.schema
      /\ UNCHANGED <<link, folders, db, saved, status, history, up, boot, stopPost, faults,
                     begun, stuck, orphan>>
  BY DEF StartRestore, Idle, Becomes, disk, service, environment
<1>2. copy \in 1..Len(saved) /\ saved[copy] \in Databases
  OBVIOUS
<1>3. saved[copy].schema <= Schema[link]
  BY <1>1, <1>2 DEF Databases
<1>4. TypeOK'
  BY <1>1, <1>2 DEF Steps, Then
<1>5. DatabaseFits' /\ RecordFits' /\ StatusIsTrue' /\ UpdateUnderWay' /\ RollbackUnderWay'
  BY <1>1
<1>6. ProcessFits'
  BY <1>1, <1>2, <1>3
<1>. QED
  BY <1>4, <1>5, <1>6

\* What is put back suits the release the link names then, and the one it will.
LEMMA ReplaceInv ==
  ASSUME UpdateInv, Replace
  PROVE  UpdateInv'
<1>. USE ReleasesAssumption, UpdateBounds
     DEF UpdateInv, TypeOK, DatabaseFits, RecordFits, UpdateFits, UpdateUnderWay, RollbackUnderWay,
        ProcessFits, InstallFits, BackFits, RollbackFits, UndoFits, RestoreFits, StoppedFits,
        RestFits, StatusIsTrue, Running, Switched
<1>1. /\ at = "replace" /\ plan \in {"back", "rollback", "restore"}
      /\ at' = IF plan = "restore" THEN "start" ELSE "relink"
      /\ held' = Copy /\ db' = IF Copy = 0 THEN db ELSE saved[Copy]
      /\ UNCHANGED <<link, folders, saved, status, history, up, boot, plan, who, stopPost, faults,
                     begun, stuck, orphan>>
  BY DEF Replace, GoesOn, Then, service, environment
<1>2. Copy # 0 => Copy \in 1..Len(saved) /\ saved[Copy] \in Databases
  BY <1>1 DEF Copy, MigratedSince, Jobs
<1>3. db' \in Databases /\ held' \in Nat
  BY <1>1, <1>2
<1>4. /\ db'.schema <= Schema[link]
      /\ plan = "back" => db'.schema <= Schema[status.from]
      /\ plan = "rollback" => held = Copy /\ db'.schema <= Schema[status.to]
  <2>1. CASE plan = "back"
    <3>1. /\ status.kind = "update" /\ status.backup # 0
          /\ link \in {status.from, status.to} /\ Schema[status.from] <= Schema[status.to]
          /\ saved[status.backup].schema = status.before
          /\ status.before <= Schema[status.from]
      BY <1>1, <2>1
    <3>2. db'.schema = status.before
      BY <1>1, <2>1, <3>1 DEF Copy, MigratedSince
    <3>. QED
      BY <2>1, <3>1, <3>2 DEF Jobs
  <2>2. CASE plan = "rollback"
    BY <1>1, <1>2, <2>2 DEF Copy, Jobs, Databases
  <2>3. CASE plan = "restore"
    BY <1>1, <1>2, <2>3 DEF Copy, Jobs, Databases
  <2>. QED
    BY <1>1, <2>1, <2>2, <2>3
<1>5. TypeOK'
  BY <1>1, <1>3 DEF Steps
<1>6. DatabaseFits' /\ RecordFits'
  BY <1>1, <1>4
<1>7. StatusIsTrue' /\ UpdateUnderWay' /\ RollbackUnderWay'
  BY <1>1
<1>8. ProcessFits'
  BY <1>1, <1>4
<1>. QED
  BY <1>5, <1>6, <1>7, <1>8

\* The link goes back to a release that has every migration of the database.
LEMMA RelinkInv ==
  ASSUME UpdateInv, Relink
  PROVE  UpdateInv'
<1>. USE ReleasesAssumption, UpdateBounds
     DEF UpdateInv, TypeOK, DatabaseFits, UpdateUnderWay, RollbackUnderWay,
        ProcessFits, InstallFits, BackFits, RollbackFits, UndoFits, RestoreFits, StoppedFits,
        RestFits, StatusIsTrue, Running, Switched
<1>. DEFINE over == plan = "back" /\ who = "boot"
<1>1. /\ at = "relink" /\ plan \in {"back", "rollback", "undo"}
      /\ link' = IF plan = "rollback" THEN status.to ELSE status.from
      /\ at' = IF over THEN "history" ELSE IF plan = "undo" THEN "start" ELSE "start"
      /\ UNCHANGED <<folders, db, saved, history, plan, who, held, up, boot, stopPost, faults,
                     begun, stuck, orphan>>
  BY DEF Relink, GoesOn, Ends, Then, service, environment
<1>2. PICK m \in BOOLEAN :
         status' = IF over THEN [status EXCEPT !.state = "rolled-back", !.migrated = m]
                   ELSE [status EXCEPT !.migrated = m]
  BY DEF Relink, Ends, Jobs
<1>3. /\ status' \in Jobs
      /\ \A f \in {"kind", "from", "to", "step", "backup", "before"} : status'[f] = status[f]
      /\ status'.state = IF over THEN "rolled-back" ELSE "running"
  BY <1>1, <1>2 DEF Jobs
<1>4. TypeOK'
  BY <1>1, <1>3 DEF Steps, Jobs
<1>5. RecordFits'
  BY <1>1, <1>3 DEF RecordFits, UpdateFits
<1>6. db.schema <= Schema[link']
  BY <1>1 DEF Jobs, Databases
<1>7. DatabaseFits'
  BY <1>1, <1>6
<1>8. StatusIsTrue' /\ UpdateUnderWay' /\ RollbackUnderWay'
  BY <1>1, <1>3
<1>9. ProcessFits'
  BY <1>1, <1>3, <1>6
<1>. QED
  BY <1>4, <1>5, <1>7, <1>8, <1>9

\* The process turns to another plan, or is gone.
LEMMA TurnsInv ==
  ASSUME UpdateInv, RollbackFails \/ Restored \/ RestoreFails \/ Kill
  PROVE  UpdateInv'
<1>1. /\ UNCHANGED <<link, folders, db, saved, status, history, held, up, boot, begun, who, stuck>>
      /\ faults' \in Nat /\ stopPost' \in BOOLEAN /\ stuck' \in BOOLEAN /\ orphan' \in BOOLEAN
  <2>1. CASE RollbackFails \/ Restored \/ RestoreFails
    BY <2>1 DEF RollbackFails, Restored, RestoreFails, Becomes, disk, service,
       environment, UpdateInv, TypeOK
  <2>2. CASE Kill
    BY <2>2 DEF Kill, Fault, disk, service, UpdateInv, TypeOK
  <2>. QED
    BY <2>1, <2>2
<1>2. \/ at' = "idle" /\ plan' = plan
      \/ /\ plan' = "undo" /\ at' = "stop" /\ plan = "rollback"
         /\ at \in {"stop", "replace", "relink", "start", "look"}
      \/ at' = "start" /\ plan' = "restore" /\ plan = "restore" /\ at = "replace"
  BY DEF RollbackFails, Restored, RestoreFails, Kill, Working, Becomes, Then
<1>3. TypeOK'
  BY <1>1, <1>2 DEF UpdateInv, TypeOK, Steps, Then
<1>4. DatabaseFits' /\ RecordFits' /\ UpdateUnderWay' /\ RollbackUnderWay' /\ StatusIsTrue'
  BY <1>1 DEF UpdateInv, DatabaseFits, RecordFits, UpdateFits, UpdateUnderWay,
     RollbackUnderWay, StatusIsTrue, Running, Switched
<1>5. ProcessFits'
  BY <1>1, <1>2 DEF UpdateInv, ProcessFits, InstallFits, BackFits, RollbackFits, UndoFits,
     RestoreFits, StoppedFits, RestFits, Running
<1>. QED
  BY <1>3, <1>4, <1>5 DEF UpdateInv

\* The service stops, or starts the release the link names.
LEMMA ServiceInv ==
  ASSUME UpdateInv, Stop \/ Start \/ Restart \/ ExecStart \/ BoothRestarts
  PROVE  UpdateInv'
<1>1. /\ UNCHANGED <<link, folders, db, saved, status, history, plan, who, held, stopPost, begun,
                     stuck>>
      /\ faults' \in Nat /\ orphan' \in BOOLEAN
  <2>1. CASE Stop \/ BoothRestarts
    BY <2>1 DEF Stop, BoothRestarts, GoesOn, Fault, disk, process, environment, UpdateInv, TypeOK
  <2>2. CASE Start \/ Restart \/ ExecStart
    <3>1. /\ UNCHANGED <<link, folders, db, saved, status, history, plan, who, held, stopPost,
                         begun, stuck, faults>>
          /\ orphan' = (orphan /\ Running /\ plan = "restore")
      BY <2>2 DEF Start, Restart, ExecStart, StartsApps, GoesOn, disk, process
    <3>2. orphan' \in BOOLEAN
      BY <3>1, Zenon
    <3>. QED
      BY <3>1, <3>2 DEF UpdateInv, TypeOK
  <2>. QED
    BY <2>1, <2>2
<1>2. \/ up' = Down /\ boot' \in BOOLEAN
      \/ up' = link /\ boot' = FALSE
  BY DEF Stop, Start, Restart, ExecStart, StartsApps, BoothRestarts
<1>3. \/ /\ at' = at /\ (up' # Down => at \notin {"replace", "relink", "start"})
         /\ boot' => boot \/ at \notin {"replace", "relink", "start"}
      \/ /\ at = "stop" /\ plan \in {"back", "rollback", "undo", "restore"}
         /\ at' = IF plan = "undo" THEN "relink" ELSE "replace"
         /\ boot' = FALSE /\ up' = Down
      \/ /\ at = "start" /\ plan \in {"back", "rollback", "undo", "restore"}
         /\ at' = IF plan = "undo" THEN "end" ELSE "look"
         /\ boot' = FALSE
      \/ at = "restart" /\ at' = "check" /\ plan = "install" /\ boot' = FALSE
  BY DEF Stop, Start, Restart, ExecStart, StartsApps, BoothRestarts, GoesOn, Working, Then, Idle,
     process, UpdateInv, TypeOK, ProcessFits, StoppedFits, InstallFits
<1>4. TypeOK'
  BY <1>1, <1>2, <1>3 DEF UpdateInv, TypeOK, Steps
<1>5. DatabaseFits'
  BY <1>1, <1>2, ReleasesAssumption DEF UpdateInv, TypeOK, DatabaseFits
<1>6. RecordFits' /\ UpdateUnderWay' /\ RollbackUnderWay' /\ StatusIsTrue'
  BY <1>1 DEF UpdateInv, RecordFits, UpdateFits, UpdateUnderWay, RollbackUnderWay,
     StatusIsTrue, Running, Switched
<1>7. ProcessFits'
  BY <1>1, <1>2, <1>3 DEF UpdateInv, ProcessFits, InstallFits, BackFits, RollbackFits,
     UndoFits, RestoreFits, StoppedFits, RestFits, Running
<1>. QED
  BY <1>4, <1>5, <1>6, <1>7 DEF UpdateInv

-----------------------------------------------------------------------------
\* From the end of a job that a crash cut short, or the start of its going back.
LEMMA RecoverInv ==
  ASSUME UpdateInv, NEW w \in {"recover", "boot"}, Recover(w), w = "boot" => boot,
         UNCHANGED <<up, boot, faults, begun, stuck>>, stopPost' \in BOOLEAN,
         orphan' \in BOOLEAN
  PROVE  UpdateInv'
<1>. DEFINE back == status.kind = "update" /\ Switched /\ status.from \in folders
<1>. USE ReleasesAssumption, UpdateBounds
     DEF UpdateInv, TypeOK, DatabaseFits, RecordFits, UpdateFits, UpdateUnderWay, RollbackUnderWay,
        ProcessFits, InstallFits, BackFits, RollbackFits, UndoFits, RestoreFits, StoppedFits,
        RestFits, StatusIsTrue, Running, Switched
<1>1. at = "idle" /\ Running /\ plan' = "back" /\ who' = w
      /\ UNCHANGED <<link, folders, db, saved, history, held>>
  BY DEF Recover, Idle, GoesBack, Becomes
<1>2. CASE back
  <2>1. /\ status' = [status EXCEPT !.step = "rollback"]
        /\ at' = IF w = "boot" THEN "replace" ELSE "stop"
    BY <1>2 DEF Recover, GoesBack, Becomes
  <2>2. TypeOK'
    BY <1>1, <2>1 DEF Jobs, Steps, Then
  <2>3. DatabaseFits' /\ RecordFits'
    BY <1>1, <2>1 DEF Jobs
  <2>4. StatusIsTrue' /\ UpdateUnderWay' /\ RollbackUnderWay'
    BY <1>1, <1>2, <2>1 DEF Jobs
  <2>5. ProcessFits'
    BY <1>1, <1>2, <2>1 DEF Jobs
  <2>. QED
    BY <2>2, <2>3, <2>4, <2>5
<1>3. CASE ~back
  <2>1. status' = [status EXCEPT !.state = "failed"] /\ at' = "history"
    BY <1>3 DEF Recover, Becomes
  <2>2. TypeOK'
    BY <1>1, <2>1 DEF Jobs, Steps, Then
  <2>3. DatabaseFits' /\ RecordFits'
    BY <1>1, <2>1 DEF Jobs
  <2>4. StatusIsTrue' /\ UpdateUnderWay' /\ RollbackUnderWay'
    BY <1>1, <1>3, <2>1 DEF Jobs
  <2>5. ProcessFits'
    BY <1>1, <2>1 DEF Jobs
  <2>. QED
    BY <2>2, <2>3, <2>4, <2>5
<1>. QED
  BY <1>2, <1>3

\* Whoever runs it.
LEMMA RecoversInv ==
  ASSUME UpdateInv, RecoverFirst \/ ExecStartPre \/ ExecStopPost
  PROVE  UpdateInv'
<1>1. CASE RecoverFirst
  BY <1>1, RecoverInv DEF RecoverFirst, service, environment, UpdateInv, TypeOK
<1>2. CASE ExecStartPre
  BY <1>2, RecoverInv DEF ExecStartPre, service, environment, UpdateInv, TypeOK
<1>3. CASE ExecStopPost
  <2>1. CASE Running
    BY <1>3, <2>1, RecoverInv DEF ExecStopPost, service, UpdateInv, TypeOK
  <2>2. CASE ~Running
    BY <1>3, <2>2, FrameInv DEF ExecStopPost, service, disk, process, UpdateInv, TypeOK
  <2>. QED
    BY <2>1, <2>2
<1>. QED
  BY <1>1, <1>2, <1>3

\* Power: what is on disk is all that is left.
LEMMA PowerCutInv ==
  ASSUME UpdateInv, PowerCut
  PROVE  UpdateInv'
<1>1. /\ UNCHANGED <<link, folders, db, saved, status, history, plan, who, held, begun, stuck>>
      /\ up' = Down /\ boot' = TRUE /\ at' = "idle" /\ stopPost' = FALSE
      /\ faults' \in Nat /\ orphan' = FALSE /\ at' \in Steps
  BY DEF PowerCut, Fault, disk, UpdateInv, TypeOK, Steps
<1>2. TypeOK'
  BY <1>1 DEF UpdateInv, TypeOK
<1>3. DatabaseFits' /\ RecordFits' /\ UpdateUnderWay' /\ RollbackUnderWay' /\ StatusIsTrue'
  BY <1>1 DEF UpdateInv, DatabaseFits, RecordFits, UpdateFits, UpdateUnderWay,
     RollbackUnderWay, StatusIsTrue, Running, Switched
<1>4. ProcessFits'
  BY <1>1 DEF UpdateInv, ProcessFits, InstallFits, BackFits, RollbackFits, UndoFits,
     RestoreFits, StoppedFits, RestFits
<1>. QED
  BY <1>2, <1>3, <1>4 DEF UpdateInv

\* The engine migrates, guests record: the database has no more migrations than
\* the release that runs.
LEMMA EngineInv ==
  ASSUME UpdateInv, Migrate \/ Visit
  PROVE  UpdateInv'
<1>1. UNCHANGED <<link, folders, saved, status, history, plan, at, who, held, up, boot,
                  stopPost, faults, begun, stuck, orphan>>
  BY DEF Migrate, Visit, process, service, environment
<1>2. /\ up # Down /\ db'.schema <= Schema[up] /\ db' \in Databases
  <2>1. db.schema \in Nat /\ db.visits + 1 \in Nat /\ up \in Releases \cup {Down}
    BY DEF UpdateInv, TypeOK, Databases
  <2>2. CASE Migrate
    <3>1. db' = [schema |-> Schema[up], visits |-> db.visits]
      BY <2>2 DEF Migrate, UpdateInv, TypeOK, Databases
    <3>2. Schema[up] \in Nat /\ up # Down
      BY <2>1, <2>2, ReleasesAssumption DEF Migrate
    <3>. QED
      BY <3>1, <3>2 DEF UpdateInv, TypeOK, Databases
  <2>3. CASE Visit
    <3>1. db' = [schema |-> db.schema, visits |-> db.visits + 1]
      BY <2>3 DEF Visit, UpdateInv, TypeOK, Databases
    <3>. QED
      BY <2>1, <2>3, <3>1 DEF Visit, UpdateInv, DatabaseFits, Databases
  <2>. QED
    BY <2>2, <2>3
<1>3. TypeOK'
  BY <1>1, <1>2 DEF UpdateInv, TypeOK
<1>4. DatabaseFits'
  BY <1>1, <1>2, ReleasesAssumption DEF UpdateInv, TypeOK, DatabaseFits, Databases
<1>5. RecordFits' /\ UpdateUnderWay' /\ RollbackUnderWay' /\ StatusIsTrue'
  BY <1>1 DEF UpdateInv, RecordFits, UpdateFits, UpdateUnderWay, RollbackUnderWay,
     StatusIsTrue, Running, Switched
<1>6. ProcessFits'
  BY <1>1, <1>2 DEF UpdateInv, ProcessFits, InstallFits, BackFits, RollbackFits, UndoFits,
     RestoreFits, StoppedFits, RestFits, Running
<1>. QED
  BY <1>3, <1>4, <1>5, <1>6 DEF UpdateInv

-----------------------------------------------------------------------------
\* Every step keeps the invariant, and so does standing still.
LEMMA UpdateInvStep ==
  ASSUME UpdateInv, [Next]_vars
  PROVE  UpdateInv'
<1>1. CASE UpdateRefused \/ BackAgain \/ RolledBack \/ RollbackUndone \/ GoingBackFails
  BY <1>1, EndsInv
<1>2. CASE Unpack \/ Place \/ Prune
  BY <1>2, FoldersInv
<1>3. CASE RollbackFails \/ Restored \/ RestoreFails \/ Kill
  BY <1>3, TurnsInv
<1>4. CASE Stop \/ Start \/ Restart \/ ExecStart \/ BoothRestarts
  BY <1>4, ServiceInv
<1>5. CASE TakeBackup \/ Switch \/ CameUp \/ DidNotComeUp \/ Record
  BY <1>5, TakeBackupInv, SwitchInv, CameUpInv, DidNotComeUpInv, RecordInv
<1>6. CASE Replace \/ Relink
  BY <1>6, ReplaceInv, RelinkInv
<1>7. CASE \E to \in Releases : StartUpdate(to)
  BY <1>7, StartUpdateInv
<1>8. CASE \E mode \in {"keep-db", "restore-db"} : StartRollback(mode)
  BY <1>8, StartRollbackInv
<1>9. CASE \E copy \in DOMAIN saved : StartRestore(copy)
  BY <1>9, StartRestoreInv
<1>10. CASE RecoverFirst \/ ExecStartPre \/ ExecStopPost
  BY <1>10, RecoversInv
<1>11. CASE Migrate \/ Visit \/ PowerCut
  BY <1>11, EngineInv, PowerCutInv
<1>12. CASE UNCHANGED vars
  BY <1>12, FrameInv DEF vars, disk, process, service, environment, UpdateInv, TypeOK
<1>. QED
  BY <1>1, <1>2, <1>3, <1>4, <1>5, <1>6, <1>7, <1>8, <1>9, <1>10, <1>11, <1>12
     DEF Next, JobStep

LEMMA InitUpdateInv == Init => UpdateInv
<1>. SUFFICES ASSUME Init PROVE UpdateInv
  OBVIOUS
<1>1. TypeOK
  <2>1. First \in Releases /\ Schema[First] \in Nat
    BY ReleasesAssumption
  <2>2. status \in Jobs /\ history \in Seq(Jobs)
    BY <2>1 DEF Init, Jobs
  <2>3. db \in Databases /\ saved \in Seq(Databases)
    BY <2>1 DEF Init, Databases
  <2>4. "install" \in DOMAIN Then
    BY DEF Then
  <2>. QED
    BY <2>1, <2>2, <2>3, <2>4 DEF Init, TypeOK, Steps
<1>2. DatabaseFits /\ RecordFits /\ UpdateUnderWay /\ RollbackUnderWay /\ StatusIsTrue
  BY ReleasesAssumption DEF Init, DatabaseFits, RecordFits, UpdateFits, UpdateUnderWay,
     RollbackUnderWay, StatusIsTrue, Running
<1>3. ProcessFits
  BY DEF Init, ProcessFits, InstallFits, BackFits, RollbackFits, UndoFits, RestoreFits,
     StoppedFits, RestFits, Running
<1>. QED
  BY <1>1, <1>2, <1>3 DEF UpdateInv

\* The record, the link, the database and the live process fit each other in
\* every reachable state.
THEOREM UpdateInvHolds == Spec => []UpdateInv
<1>1. UpdateInv /\ [Next]_vars => UpdateInv'
  BY UpdateInvStep
<1>. QED
  BY <1>1, InitUpdateInv, PTL DEF Spec

\* The state has its types: every plan's process is at a step of that plan.
THEOREM UpdateTypes == Spec => []TypeOK
<1>1. UpdateInv => TypeOK
  BY DEF UpdateInv
<1>. QED
  BY <1>1, UpdateInvHolds, PTL

\* No release ever runs on a database a newer one migrated, wherever updates,
\* rollbacks and restores were cut short.
THEOREM BoothReadsItsDatabase == Spec => []ReadsItsDatabase
<1>1. UpdateInv => ReadsItsDatabase
  BY DEF UpdateInv, DatabaseFits, ReadsItsDatabase
<1>. QED
  BY <1>1, UpdateInvHolds, PTL

\* What the status says of a job that is over is true of the link.
THEOREM JobStatusIsTrue == Spec => []StatusIsTrue
<1>1. UpdateInv => StatusIsTrue
  BY DEF UpdateInv
<1>. QED
  BY <1>1, UpdateInvHolds, PTL

-----------------------------------------------------------------------------
(***************************************************************************)
(* No going back puts its copy over what guests recorded since, for any    *)
(* releases and migrations and however many power cuts, kills and          *)
(* restarts, as long as only an update in its unit is killed alone: on top *)
(* of UpdateInv, which release runs, what a going back that is run again   *)
(* finds, and that a job cut short is recovered before anything else.      *)
(***************************************************************************)

\* The link names the release that runs, or a start, or someone about to see
\* to one, is due.
UpFits ==
    \/ up = link \/ boot \/ stuck
    \/ at \in {"restart", "replace", "relink", "start"}
    \/ at = "stop" /\ plan \in {"back", "undo"}
    \/ at = "idle" /\ Running /\ status.kind = "update" /\ Switched

\* The count before the switch is the older release's, and a going back that
\* moved the link left the database with it.
CopyFits ==
    Running /\ status.kind = "update" /\ ~stuck =>
        /\ status.backup # 0 => status.before = Schema[status.from]
        /\ status.step = "rollback" /\ link = status.from => db.schema = status.before
        /\ plan = "back" /\ at = "relink" => db.schema = status.before

\* A job cut short is recovered by its unit or at the booth's start.
RecoveryFits ==
    /\ at = "idle" /\ Running => stopPost \/ boot
    /\ plan = "restore" /\ at # "idle" => ~Running
    /\ plan = "back" /\ who = "boot" =>
          at # "stop" /\ (at \in {"replace", "relink"} => boot)

KeptInv == UpdateInv /\ UpFits /\ CopyFits /\ RecoveryFits

-----------------------------------------------------------------------------
\* The steps that touch neither link, service nor database.
Quiet ==
    \/ UpdateRefused \/ Unpack \/ Place \/ CameUp \/ Record \/ Prune \/ BackAgain
    \/ RolledBack \/ RollbackUndone \/ Restored

\* They leave the link, the service and the database alone, and end no process
\* whose job still runs.
LEMMA QuietFacts ==
  ASSUME KeptInv, Quiet
  PROVE  /\ at \in {"fetch", "place", "backup", "switch", "check", "history", "prune",
                    "look", "end"}
         /\ at' \in {"place", "backup", "history", "prune", "idle"}
         /\ at' = "idle" => ~Running' \/ plan = "restore"
         /\ UNCHANGED <<plan, who, link, db, up, boot, stopPost, stuck>>
<1>1. CASE UpdateRefused \/ CameUp \/ BackAgain \/ RolledBack \/ RollbackUndone
  BY <1>1 DEF UpdateRefused, CameUp, BackAgain, RolledBack, RollbackUndone, Working, Ends,
     service, environment
<1>2. CASE Unpack \/ Place
  BY <1>2 DEF Unpack, Place, Working, GoesOn, Then, service, environment
<1>3. CASE Record \/ Prune \/ Restored
  BY <1>3 DEF Record, Prune, Restored, Working, disk, service, environment, KeptInv, UpdateInv,
     ProcessFits, RestFits, Running
<1>. QED
  BY <1>1, <1>2, <1>3 DEF Quiet

\* The steps of a process that stops, starts, replaces or moves the link.
LEMMA StepFacts ==
  ASSUME KeptInv
  PROVE  /\ Stop => /\ at = "stop" /\ plan \in {"back", "rollback", "undo", "restore"}
                    /\ at' = IF plan = "undo" THEN "relink" ELSE "replace"
                    /\ plan' = plan /\ who' = who
         /\ Start => /\ at = "start" /\ plan \in {"back", "rollback", "undo", "restore"}
                     /\ at' = IF plan = "undo" THEN "end" ELSE "look"
                     /\ plan' = plan /\ who' = who
         /\ Replace => /\ at = "replace" /\ plan \in {"back", "rollback", "restore"}
                       /\ at' = IF plan = "restore" THEN "start" ELSE "relink"
                       /\ plan' = plan /\ who' = who
         /\ Relink => /\ at = "relink" /\ plan \in {"back", "rollback", "undo"}
                      /\ at' = IF plan = "back" /\ who = "boot" THEN "history" ELSE "start"
                      /\ plan' = plan /\ who' = who
<1>. USE DEF KeptInv, UpdateInv, ProcessFits, InstallFits, BackFits, RollbackFits, UndoFits,
             RestoreFits, GoesOn, Then
<1>1. plan \in {"install", "back", "rollback", "undo", "restore"}
  BY DEF TypeOK
<1>2. Stop => /\ at = "stop" /\ plan \in {"back", "rollback", "undo", "restore"}
              /\ at' = IF plan = "undo" THEN "relink" ELSE "replace"
              /\ plan' = plan /\ who' = who
  BY <1>1 DEF Stop
<1>3. Start => /\ at = "start" /\ plan \in {"back", "rollback", "undo", "restore"}
               /\ at' = IF plan = "undo" THEN "end" ELSE "look"
               /\ plan' = plan /\ who' = who
  BY <1>1 DEF Start
<1>4. Replace => /\ at = "replace" /\ plan \in {"back", "rollback", "restore"}
                 /\ at' = IF plan = "restore" THEN "start" ELSE "relink"
                 /\ plan' = plan /\ who' = who
  BY <1>1 DEF Replace
<1>5. Relink => /\ at = "relink" /\ plan \in {"back", "rollback", "undo"}
                /\ at' = IF plan = "back" /\ who = "boot" THEN "history" ELSE "start"
                /\ plan' = plan /\ who' = who
  BY <1>1 DEF Relink, Ends
<1>. QED
  BY <1>2, <1>3, <1>4, <1>5

\* Every step leaves the running release on the link, or a start due.
LEMMA UpFitsStep ==
  ASSUME Killed \subseteq {"unit"}, KeptInv, Next
  PROVE  UpFits'
<1>. USE DEF KeptInv, UpdateInv, UpFits, Running, Switched, Working
<1>1. CASE Quiet
  BY <1>1, QuietFacts
<1>2. CASE TakeBackup \/ Switch \/ DidNotComeUp \/ RollbackFails
  BY <1>2 DEF TakeBackup, Switch, DidNotComeUp, RollbackFails, GoesOn, GoesBack, Becomes, Then,
     service, environment
<1>3. CASE Stop
  BY <1>3, StepFacts
<1>4. CASE Start \/ Restart \/ ExecStart \/ BoothRestarts
  BY <1>4 DEF Start, Restart, ExecStart, StartsApps, BoothRestarts, disk
<1>5. CASE Replace
  BY <1>5, StepFacts
<1>6. CASE Relink
  BY <1>6, StepFacts DEF Relink, service, RecoveryFits
<1>7. CASE RestoreFails
  BY <1>7 DEF RestoreFails, disk, service, environment, RecoveryFits
<1>8. CASE \/ \E to \in Releases : StartUpdate(to)
           \/ \E mode \in {"keep-db", "restore-db"} : StartRollback(mode)
  <2>1. at = "idle" /\ ~Running /\ UNCHANGED <<link, up, boot, stuck>>
    BY <1>8 DEF StartUpdate, StartRollback, Free, Idle, service, environment
  <2>. QED
    BY <2>1
<1>9. CASE \E copy \in DOMAIN saved : StartRestore(copy)
  BY <1>9 DEF StartRestore, Idle, Becomes, disk, service, environment, RecoveryFits
<1>10. CASE RecoverFirst \/ ExecStartPre \/ ExecStopPost
  BY <1>10 DEF RecoverFirst, ExecStartPre, ExecStopPost, Recover, GoesBack, Becomes, Idle, disk,
     process, service, environment, UpdateUnderWay
<1>11. CASE Migrate \/ Visit \/ PowerCut \/ GoingBackFails
  BY <1>11 DEF Migrate, Visit, PowerCut, GoingBackFails, process, service, environment
<1>12. CASE Kill
  <2>1. /\ UNCHANGED <<link, up, boot, stuck, status>> /\ at' = "idle"
        /\ status.kind = "update" /\ plan # "restore" /\ at # "idle"
    BY <1>12, UpdateBounds DEF Kill, Idle, disk, service, TypeOK, Jobs
  <2>2. plan \in {"install", "back", "rollback", "undo"}
    BY <2>1 DEF TypeOK, Then
  <2>. QED
    BY <2>1, <2>2 DEF ProcessFits, InstallFits, BackFits, RollbackFits, UndoFits
<1>. QED
  BY <1>1, <1>2, <1>3, <1>4, <1>5, <1>6, <1>7, <1>8, <1>9, <1>10, <1>11, <1>12
     DEF Next, JobStep, Quiet

\* An update's process is past nothing another would take over.
LEMMA RecoveryFitsStep ==
  ASSUME Killed \subseteq {"unit"}, KeptInv, Next
  PROVE  RecoveryFits'
<1>. USE DEF KeptInv, UpdateInv, RecoveryFits, Running, Working
<1>1. CASE Quiet
  <2>1. CASE Restored
    BY <2>1 DEF Restored, disk, service, environment
  <2>2. CASE ~Restored
    BY <1>1, <2>2, QuietFacts DEF Quiet, UpdateRefused, Unpack, Place, CameUp, Record, Prune,
       BackAgain, RolledBack, RollbackUndone, ProcessFits, RestFits, RestoreFits
  <2>. QED
    BY <2>1, <2>2
<1>2. CASE TakeBackup \/ Switch \/ DidNotComeUp \/ RollbackFails
  BY <1>2 DEF TakeBackup, Switch, DidNotComeUp, RollbackFails, GoesOn, GoesBack, Becomes, Then,
     service, environment
<1>3. CASE Stop
  BY <1>3, StepFacts DEF Stop, disk, environment
<1>4. CASE Start
  BY <1>4, StepFacts DEF Start, StartsApps, disk
<1>5. CASE Restart
  BY <1>5 DEF Restart, StartsApps, GoesOn, Then, disk
<1>6. CASE ExecStart \/ BoothRestarts
  BY <1>6 DEF ExecStart, StartsApps, BoothRestarts, Idle, disk, process
<1>7. CASE Replace
  BY <1>7, StepFacts DEF Replace, service, environment
<1>8. CASE Relink
  BY <1>8, StepFacts DEF Relink, service, environment
<1>9. CASE RestoreFails
  BY <1>9 DEF RestoreFails, disk, service, environment
<1>10. CASE \/ \E to \in Releases : StartUpdate(to)
            \/ \E mode \in {"keep-db", "restore-db"} : StartRollback(mode)
            \/ \E copy \in DOMAIN saved : StartRestore(copy)
  BY <1>10 DEF StartUpdate, StartRollback, StartRestore, Free, Idle, Becomes, disk, service,
     environment
<1>11. CASE RecoverFirst \/ ExecStartPre \/ ExecStopPost
  BY <1>11 DEF RecoverFirst, ExecStartPre, ExecStopPost, Recover, GoesBack, Becomes, Idle, disk,
     process, service, environment
<1>12. CASE Migrate \/ Visit \/ PowerCut \/ GoingBackFails
  BY <1>12 DEF Migrate, Visit, PowerCut, GoingBackFails, process, service, environment
<1>13. CASE Kill
  BY <1>13, UpdateBounds DEF Kill, Idle, disk, service, TypeOK, Jobs
<1>. QED
  BY <1>1, <1>2, <1>3, <1>4, <1>5, <1>6, <1>7, <1>8, <1>9, <1>10, <1>11, <1>12, <1>13
     DEF Next, JobStep, Quiet

\* Replacing the database in a going back leaves it as before the switch.
LEMMA ReplaceBack ==
  ASSUME KeptInv, Replace, plan = "back", ~stuck
  PROVE  db'.schema = status.before
<1>1. Running /\ status.kind = "update" /\ status.step = "rollback" /\ at = "replace"
  BY DEF Replace, KeptInv, UpdateInv, ProcessFits, BackFits
<1>2. status.backup # 0
  BY <1>1 DEF KeptInv, UpdateInv, UpdateUnderWay, Switched
<1>3. CASE db.schema = status.before
  BY <1>3 DEF Replace, Copy, MigratedSince
<1>4. CASE db.schema # status.before
  <2>1. db' = saved[status.backup]
    BY <1>2, <1>4 DEF Replace, Copy, MigratedSince
  <2>. QED
    BY <1>1, <1>2, <2>1 DEF KeptInv, UpdateInv, RecordFits, UpdateFits
<1>. QED
  BY <1>3, <1>4

\* Once the link is back, no step moves the database away from the count before
\* the switch: the older release has nothing to migrate.
LEMMA CopyFitsStep ==
  ASSUME Killed \subseteq {"unit"}, KeptInv, Next
  PROVE  CopyFits'
<1>. USE DEF KeptInv, UpdateInv, CopyFits, Running
<1>1. CASE Quiet
  <2>1. CASE UpdateRefused \/ CameUp \/ BackAgain \/ RolledBack \/ RollbackUndone
    <3>1. status'.state \in {"failed", "done", "rolled-back"}
      BY <2>1 DEF UpdateRefused, CameUp, BackAgain, RolledBack, RollbackUndone, Ends, TypeOK, Jobs
    <3>. QED
      BY <3>1
  <2>2. CASE Unpack \/ Place \/ Record \/ Prune \/ Restored
    BY <1>1, <2>2, QuietFacts DEF Unpack, Place, Record, Prune, Restored, disk
  <2>. QED
    BY <1>1, <2>1, <2>2 DEF Quiet
<1>2. CASE TakeBackup
  <2>1. plan = "install" /\ at = "backup" /\ ~boot /\ link = status.from /\ link # Down
    BY <1>2, ReleasesAssumption DEF TakeBackup, Working, Settled, ProcessFits, InstallFits, TypeOK
  <2>2. stuck \/ (up = link /\ db.schema = Schema[link])
    <3>1. db.schema \in Nat /\ Schema[link] \in Nat
      BY ReleasesAssumption DEF TypeOK, Databases
    <3>. QED
      BY <1>2, <2>1, <3>1 DEF TakeBackup, Settled, UpFits, DatabaseFits
  <2>3. /\ status'.before = db.schema /\ status'.from = status.from /\ db' = db /\ at' = "switch"
        /\ stuck' = stuck
    BY <1>2, <2>1 DEF TakeBackup, GoesOn, Then, environment, TypeOK, Jobs
  <2>. QED
    BY <2>1, <2>2, <2>3
<1>3. CASE Switch \/ DidNotComeUp
  <2>1. /\ plan = "install" /\ status.kind = "update" /\ status.from # status.to /\ Running
        /\ at \in {"restart", "check"} => link = status.to
    BY <1>3 DEF Switch, DidNotComeUp, Working, ProcessFits, InstallFits, UpdateUnderWay
  <2>2. /\ link' = status.to /\ at' # "relink" /\ status'.from = status.from
        /\ status'.before = status.before /\ status'.backup = status.backup /\ stuck' = stuck
    BY <1>3, <2>1 DEF Switch, DidNotComeUp, Working, GoesOn, GoesBack, Becomes, Then,
       environment, TypeOK, Jobs
  <2>. QED
    BY <2>1, <2>2
<1>4. CASE RollbackFails
  BY <1>4 DEF RollbackFails, Then, disk, ProcessFits, RollbackFits
<1>5. CASE Stop \/ Start
  BY <1>5, StepFacts DEF Stop, Start, StartsApps, disk, environment
<1>6. CASE Restart \/ ExecStart \/ BoothRestarts
  BY <1>6 DEF Restart, ExecStart, StartsApps, BoothRestarts, Working, GoesOn, Then, disk, process
<1>7. CASE Replace
  <2>1. CASE plan = "back"
    BY <1>7, <2>1, ReplaceBack DEF Replace, environment
  <2>2. CASE plan \in {"rollback", "restore"}
    BY <1>7, <2>2 DEF Replace, ProcessFits, RollbackFits, RecoveryFits
  <2>. QED
    BY <1>7, <2>1, <2>2, StepFacts
<1>8. CASE Relink
  <2>1. CASE plan = "back"
    <3>1. /\ Running => db.schema = status.before \/ stuck \/ status.kind # "update"
          /\ db' = db /\ stuck' = stuck /\ at' # "relink"
      BY <1>8, <2>1, StepFacts DEF Relink, environment
    <3>2. /\ status'.from = status.from /\ status'.before = status.before
          /\ status'.backup = status.backup /\ status'.kind = status.kind
          /\ status'.state = status.state \/ status'.state = "rolled-back"
      BY <1>8, <2>1 DEF Relink, Ends, TypeOK, Jobs
    <3>. QED
      BY <3>1, <3>2
  <2>2. CASE plan \in {"rollback", "undo"}
    <3>1. status.kind = "rollback"
      BY <1>8, <2>2 DEF Relink, ProcessFits, RollbackFits, UndoFits
    <3>2. status'.kind = status.kind
      BY <1>8, <2>2 DEF Relink, Ends, TypeOK, Jobs
    <3>. QED
      BY <3>1, <3>2
  <2>. QED
    BY <1>8, <2>1, <2>2, StepFacts
<1>9. CASE Restored \/ RestoreFails
  BY <1>9 DEF Restored, RestoreFails, Working, disk, environment
<1>10. CASE \E to \in Releases : StartUpdate(to)
  BY <1>10 DEF StartUpdate, NewJob, Becomes
<1>11. CASE \E mode \in {"keep-db", "restore-db"} : StartRollback(mode)
  BY <1>11 DEF StartRollback, NewJob
<1>12. CASE \E copy \in DOMAIN saved : StartRestore(copy)
  BY <1>12 DEF StartRestore, Idle, disk, RecoveryFits
<1>13. CASE RecoverFirst \/ ExecStartPre \/ ExecStopPost
  <2>1. CASE UNCHANGED <<disk, process>>
    BY <1>13, <2>1 DEF RecoverFirst, ExecStartPre, ExecStopPost, disk, process, environment
  <2>2. CASE \E w \in {"recover", "boot"} : Recover(w)
    <3>1. /\ UNCHANGED <<link, db>> /\ at' # "relink" /\ stuck' = stuck
          /\ status'.from = status.from /\ status'.before = status.before
          /\ status'.backup = status.backup /\ status'.kind = status.kind
          /\ \/ status'.state = "failed"
             \/ status.kind = "update" /\ Switched
      BY <1>13, <2>2 DEF RecoverFirst, ExecStartPre, ExecStopPost, Recover, GoesBack, Becomes,
         disk, process, environment, TypeOK, Jobs
    <3>2. Running /\ status.kind = "update" => status.from # status.to
      BY DEF UpdateUnderWay
    <3>3. Running
      BY <2>2 DEF Recover
    <3>. QED
      BY <3>1, <3>2, <3>3 DEF Switched
  <2>. QED
    BY <1>13, <2>1, <2>2 DEF RecoverFirst, ExecStartPre, ExecStopPost
<1>14. CASE Migrate
  <2>1. /\ up # Down /\ up \in Releases /\ link \in Releases /\ db.schema < Schema[up]
        /\ Schema[up] <= Schema[link] /\ at # "relink"
        /\ UNCHANGED <<link, status, plan, at, stuck>>
    BY <1>14 DEF Migrate, process, environment, TypeOK, DatabaseFits, ProcessFits, StoppedFits
  <2>2. Schema[up] \in Nat /\ Schema[link] \in Nat /\ db.schema \in Nat
    BY <2>1, ReleasesAssumption DEF TypeOK, Databases
  <2>3. Running /\ status.kind = "update" /\ ~stuck /\ status.step = "rollback"
           => link # status.from
    <3>. SUFFICES ASSUME Running, status.kind = "update", ~stuck, status.step = "rollback",
                         link = status.from
                  PROVE  FALSE
      OBVIOUS
    <3>1. status.backup # 0
      BY DEF UpdateUnderWay, Switched
    <3>2. db.schema = Schema[link]
      BY <3>1
    <3>. QED
      BY <2>1, <2>2, <3>2
  <2>. QED
    BY <2>1, <2>3
<1>15. CASE Visit
  <2>1. db'.schema = db.schema /\ UNCHANGED <<link, status, plan, at, stuck>>
    BY <1>15 DEF Visit, process, environment, TypeOK, Databases
  <2>. QED
    BY <2>1
<1>16. CASE PowerCut \/ Kill
  BY <1>16 DEF PowerCut, Kill, disk
<1>17. CASE GoingBackFails
  BY <1>17 DEF GoingBackFails
<1>. QED
  BY <1>1, <1>2, <1>3, <1>4, <1>5, <1>6, <1>7, <1>8, <1>9, <1>10, <1>11, <1>12, <1>13, <1>14,
     <1>15, <1>16, <1>17 DEF Next, JobStep, Quiet

-----------------------------------------------------------------------------
\* Hence in every reachable state.
LEMMA KeptInvHolds ==
  ASSUME Killed \subseteq {"unit"}
  PROVE  Spec => []KeptInv
<1>1. Init => KeptInv
  BY InitUpdateInv DEF Init, KeptInv, UpFits, CopyFits, RecoveryFits, Running
<1>2. KeptInv /\ [Next]_vars => KeptInv'
  <2>. SUFFICES ASSUME KeptInv, [Next]_vars PROVE KeptInv'
    OBVIOUS
  <2>1. UpdateInv'
    BY UpdateInvStep DEF KeptInv
  <2>2. CASE Next
    BY <2>1, <2>2, UpFitsStep, CopyFitsStep, RecoveryFitsStep DEF KeptInv
  <2>3. CASE UNCHANGED vars
    BY <2>1, <2>3 DEF KeptInv, UpFits, CopyFits, RecoveryFits, Running, Switched, vars, disk,
       process, service, environment
  <2>. QED
    BY <2>2, <2>3
<1>. QED
  BY <1>1, <1>2, PTL DEF Spec

\* What guests recorded is dropped only by a restore or a rollback staff asked
\* for, or by a going back from the release that migrated it, with the booth
\* stopped.
THEOREM GuestsVisitsAreKept ==
  ASSUME Killed \subseteq {"unit"}
  PROVE  Spec => VisitsAreKept
<1>. DEFINE Why == /\ up = Down /\ ~(boot /\ who # "boot")
                   /\ \/ plan = "restore"
                      \/ status.kind = "rollback" /\ status.backup # 0
                      \/ link = status.to
<1>1. KeptInv /\ [Next]_vars => [db'.visits < db.visits /\ ~stuck => Why]_vars
  <2>. SUFFICES ASSUME KeptInv, Next, db'.visits < db.visits, ~stuck
                PROVE  Why
    OBVIOUS
  <2>. USE DEF KeptInv, UpdateInv
  <2>1. db.visits \in Nat
    BY DEF TypeOK, Databases
  <2>2. CASE db' = db
    BY <2>1, <2>2
  <2>3. CASE Migrate \/ Visit
    <3>1. db'.visits \in {db.visits, db.visits + 1}
      BY <2>3 DEF Migrate, Visit, TypeOK, Databases
    <3>. QED
      BY <2>1, <3>1
  <2>4. CASE Replace
    <3>1. /\ up = Down /\ ~(boot /\ who # "boot")
      BY <2>4 DEF Replace, ProcessFits, StoppedFits
    <3>2. Copy # 0
      BY <2>1, <2>4 DEF Replace
    <3>3. CASE plan = "back"
      <4>1. /\ Running /\ status.kind = "update" /\ status.step = "rollback"
            /\ db.schema # status.before
        BY <2>4, <3>2, <3>3 DEF Replace, Copy, MigratedSince, ProcessFits, BackFits
      <4>. QED
        BY <3>1, <4>1 DEF CopyFits, UpdateUnderWay
    <3>4. CASE plan = "rollback"
      BY <2>4, <3>1, <3>2, <3>4 DEF Replace, Copy, ProcessFits, RollbackFits
    <3>. QED
      BY <2>4, <3>1, <3>3, <3>4, StepFacts
  <2>5. CASE ~(Migrate \/ Visit \/ Replace)
    <3>1. db' = db
      BY <2>5 DEF Next, JobStep, UpdateRefused, Unpack, Place, TakeBackup, Switch, Restart,
         CameUp, DidNotComeUp, Record, Prune, Stop, Relink, Start, BackAgain, RolledBack,
         RollbackFails, RollbackUndone, Restored, RestoreFails, StartUpdate, StartRollback,
         StartRestore, ExecStopPost, RecoverFirst, ExecStartPre, ExecStart, Recover, PowerCut,
         Kill, GoingBackFails, BoothRestarts, disk
    <3>. QED
      BY <2>2, <3>1
  <2>. QED
    BY <2>3, <2>4, <2>5
<1>. QED
  BY <1>1, KeptInvHolds, PTL DEF Spec, VisitsAreKept

=============================================================================
