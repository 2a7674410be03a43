--------------------------- MODULE ReleaseProofs ---------------------------
(***************************************************************************)
(* Proofs about Release and the Host it runs on, for every number of       *)
(* workers and commits and every bound: the lock is the argument of most   *)
(* of them, what it does not cover (time, reboots, uploads) of the rest.   *)
(***************************************************************************)
EXTENDS Release, FiniteSetTheorems, SequenceTheorems, TLAPS

USE HostAssumption, ReleaseAssumption

-----------------------------------------------------------------------------
(* One tool at a time, and what a worker carries.                          *)

\* The steps of a worker that has been admitted, and of one that has the lock.
Past == {"backup", "build"} \cup Activation \cup Rollback
Busy == {"read", "verify", "record", "report"} \cup Past

\* Whoever works has the lock; whoever activates holds off the exports.
Held ==
  /\ \A j \in Jobs : job[j].at \in Busy => lock = j
  /\ monitor.at = "restarting" => lock = "monitor"
  /\ \A j \in Jobs : job[j].at \in Activation \cup Rollback => exporting = j

\* An admitted worker has the files of a commit that has passed.
Approval ==
  \A j \in Jobs :
    /\ job[j].at # "idle" => job[j].commit \in Commits
    /\ job[j].at \in Past \cup {"record", "report"} =>
         job[j].files = Code(job[j].commit) /\ job[j].commit \in passed

Base == TypeOK /\ Held /\ Approval

\* What a worker does, and what everybody else does.
Work(j) ==
  \/ Launch(j) \/ Begin(j) \/ ReadBundle(j) \/ Stage(j) \/ Backup(j) \/ Freeze(j)
  \/ Refused(j) \/ Synchronize(j) \/ Tag(j) \/ RestartWorkers(j) \/ Activated(j)
  \/ RollBack(j) \/ Restore(j) \/ RolledBack(j) \/ RollbackFails(j)
  \/ Record(j) \/ Report(j) \/ RecordFails(j)

Requested ==
  \/ Push \/ LaunchFails
  \/ \E c \in Commits : BeginUpload(c) \/ Submit(c)
  \/ \E b \in receiving : EndUpload(b) \/ AbandonUpload(b)

LEMMA Kinds ==
  ASSUME [Next]_vars
  PROVE  \/ HostNext /\ UNCHANGED release
         \/ Requested /\ UNCHANGED <<host, job, stack>>
         \/ (BeginExport \/ EndExport) /\ UNCHANGED <<host, client, status, job>>
         \/ Reboot
         \/ \E j \in Jobs : Work(j)
         \/ UNCHANGED vars
<1>1. CASE Requested
  BY <1>1 DEF Requested, Push, LaunchFails, BeginUpload, Submit, EndUpload, AbandonUpload
<1>2. CASE BeginExport \/ EndExport
  BY <1>2 DEF BeginExport, EndExport
<1> QED BY <1>1, <1>2 DEF Next, Requested, Work

LEMMA CodeIsCode ==
  /\ \A c \in Commits : Code(c) \in AnyCode /\ Forged(c) \in AnyCode
  /\ Installed \in AnyCode
<1>1. ASSUME NEW c \in Commits PROVE Bundles(c) \subseteq AnyCode
  BY DEF AnyCode
<1>2. ASSUME NEW c \in Commits PROVE Code(c) \in Bundles(c) /\ Forged(c) \in Bundles(c)
  BY DEF Bundles, Code, Forged
<1>3. Installed \in AnyCode
  BY DEF AnyCode
<1> QED BY <1>1, <1>2, <1>3

LEMMA IdleIsJob == Idle \in Job
<1>1. "idle" \in Steps /\ NoBundle \in AnyCode \cup {NoBundle} /\ Installed \in AnyCode
  BY CodeIsCode DEF Steps
<1> QED BY <1>1 DEF Idle, Job

\* A step of a worker is a step of this worker alone.
LEMMA WorkOfOne ==
  ASSUME job \in [Jobs -> Job], NEW j \in Jobs, Work(j)
  PROVE  /\ job' = [i \in Jobs |-> job'[i]]
         /\ \A i \in Jobs : i # j => job'[i] = job[i]
<1>1. CASE Launch(j) \/ ReadBundle(j) \/ Stage(j)
  BY <1>1 DEF Launch, ReadBundle, Stage
<1>2. CASE Begin(j) \/ Refused(j) \/ RollbackFails(j) \/ RecordFails(j) \/ RolledBack(j) \/ Report(j)
  BY <1>2 DEF Begin, Refused, RollbackFails, RecordFails, RolledBack, Report, GiveUp, At
<1>3. CASE Backup(j) \/ Freeze(j) \/ Activated(j) \/ RollBack(j) \/ Record(j)
  BY <1>3 DEF Backup, Freeze, Activated, RollBack, Record, At
<1>4. CASE Synchronize(j) \/ Restore(j) \/ Tag(j) \/ RestartWorkers(j)
  BY <1>4 DEF Synchronize, Restore, Replace, Tag, RestartWorkers, Recreate, At
<1> QED BY <1>1, <1>2, <1>3, <1>4 DEF Work

\* It takes up its commit, its bundle and what it may have to restore; otherwise
\* it keeps what it carries, or is done.
Carried(r) == <<r.commit, r.files, r.source, r.images>>

LEMMA WorkKeeps ==
  ASSUME job \in [Jobs -> Job], NEW j \in Jobs, Work(j)
  PROVE  /\ Launch(j) => /\ job'[j].commit = dispatch /\ job'[j].at = "start"
                         /\ job'[j].files = job[j].files /\ job'[j].source = job[j].source
                         /\ job'[j].images = job[j].images
         /\ ReadBundle(j) => /\ job'[j].files = uploads[job[j].commit]
                             /\ job'[j].at = "verify" /\ job'[j].commit = job[j].commit
                             /\ job'[j].source = job[j].source
                             /\ job'[j].images = job[j].images
         /\ Stage(j) => /\ job'[j].source = tree
                        /\ job'[j].images = [n \in Names |-> box[n].image]
                        /\ job'[j].at = "backup" /\ job'[j].commit = job[j].commit
                        /\ job'[j].files = job[j].files
         /\ \/ Launch(j) \/ ReadBundle(j) \/ Stage(j)
            \/ job'[j] = Idle
            \/ Carried(job'[j]) = Carried(job[j]) /\ job'[j] = [job[j] EXCEPT !.at = job'[j].at]
<1> DEFINE Goes == /\ Carried(job'[j]) = Carried(job[j])
                   /\ job'[j] = [job[j] EXCEPT !.at = job'[j].at]
<1>1. job[j] \in Job
  OBVIOUS
<1>2. ASSUME NEW pc, At(j, pc) PROVE Goes
  <2>1. job'[j] = [job[j] EXCEPT !.at = pc]
    BY <1>2 DEF At
  <2>2. job'[j].at = pc /\ Carried(job'[j]) = Carried(job[j])
    BY <1>1, <2>1 DEF Job, Carried
  <2> QED BY <2>1, <2>2
<1>3. ASSUME Launch(j)
      PROVE  /\ job'[j].commit = dispatch /\ job'[j].at = "start"
             /\ job'[j].files = job[j].files /\ job'[j].source = job[j].source
             /\ job'[j].images = job[j].images
  BY <1>1, <1>3 DEF Launch, Job
<1>4. ASSUME ReadBundle(j)
      PROVE  /\ job'[j].files = uploads[job[j].commit]
             /\ job'[j].at = "verify" /\ job'[j].commit = job[j].commit
             /\ job'[j].source = job[j].source /\ job'[j].images = job[j].images
  BY <1>1, <1>4 DEF ReadBundle, Job
<1>5. ASSUME Stage(j)
      PROVE  /\ job'[j].source = tree
             /\ job'[j].images = [n \in Names |-> box[n].image]
             /\ job'[j].at = "backup" /\ job'[j].commit = job[j].commit
             /\ job'[j].files = job[j].files
  BY <1>1, <1>5 DEF Stage, Job
<1> HIDE DEF Goes
<1>6. ASSUME Refused(j) \/ RollbackFails(j) \/ RecordFails(j) \/ RolledBack(j) \/ Report(j)
      PROVE  job'[j] = Idle
  BY <1>6 DEF Refused, RollbackFails, RecordFails, RolledBack, Report, GiveUp
<1>7. ASSUME Begin(j) PROVE job'[j] = Idle \/ Goes
  <2>1. CASE lock = "free"
    BY <1>2, <1>7, <2>1 DEF Begin
  <2>2. CASE lock # "free"
    BY <1>7, <2>2 DEF Begin, GiveUp
  <2> QED BY <2>1, <2>2
<1>8. ASSUME Backup(j) \/ Freeze(j) \/ Activated(j) \/ RollBack(j) \/ Record(j) PROVE Goes
  BY <1>2, <1>8 DEF Backup, Freeze, Activated, RollBack, Record
<1>9. ASSUME Synchronize(j) \/ Restore(j) \/ Tag(j) \/ RestartWorkers(j) PROVE Goes
  BY <1>2, <1>9 DEF Synchronize, Restore, Replace, Tag, RestartWorkers, Recreate
<1> QED BY <1>3, <1>4, <1>5, <1>6, <1>7, <1>8, <1>9 DEF Work, Goes

-----------------------------------------------------------------------------
(* Types, the lock and the approval are kept together.                     *)

LEMMA HeldStays ==
  ASSUME Base, [Next]_vars
  PROVE  Held'
<1>1. /\ job \in [Jobs -> Job] /\ Held
      /\ \A j \in Jobs : j # "free" /\ j # "control" /\ j # "monitor" /\ j # "export"
  BY DEF Base, TypeOK
<1>2. CASE HostNext /\ UNCHANGED release
  <2>1. UNCHANGED <<job, exporting>>
    BY <1>2 DEF release, stack, exports
  <2>2. \/ UNCHANGED lock /\ (monitor'.at = "restarting" => monitor.at = "restarting")
        \/ lock = "free" /\ UNCHANGED monitor /\ lock' = "control"
        \/ lock = "free" /\ monitor'.at = "restarting" /\ lock' = "monitor"
        \/ lock = "control" /\ UNCHANGED monitor /\ lock' = "free"
        \/ monitor.at = "restarting" /\ monitor'.at = "idle" /\ lock' = "free"
    <3>0. monitor \in [at : Rounds, failures : 0..MaxFailures, attempts : Seq(0..clock)]
      BY DEF Base, TypeOK
    <3>1. CASE MonitorRound
      <4>1. UNCHANGED lock /\ monitor'.at \in {"recover", "idle"}
        BY <3>1 DEF MonitorRound
      <4> QED BY <4>1
    <3>2. CASE Recover
      <4>1. \/ lock = "free" /\ lock' = "monitor" /\ monitor'.at = "restarting"
            \/ UNCHANGED lock /\ monitor'.at = "idle"
        BY <3>0, <3>2 DEF Recover
      <4> QED BY <4>1
    <3>3. CASE RecoverGivesWay
      BY <3>0, <3>3 DEF RecoverGivesWay
    <3>4. CASE Recovered \/ RecoveryFails
      BY <3>0, <3>4 DEF Recovered, RecoveryFails
    <3>5. CASE FenceBegins
      BY <3>5 DEF FenceBegins, watch
    <3>6. CASE FenceHolds \/ FenceFails
      BY <3>6 DEF FenceHolds, FenceFails, watch
    <3>7. CASE MaintenanceOn \/ MaintenanceOff \/ RestartApp \/ Sicken \/ Tick
      BY <3>7 DEF MaintenanceOn, MaintenanceOff, RestartApp, Sicken, Tick, watch
    <3> QED BY <1>2, <3>1, <3>2, <3>3, <3>4, <3>5, <3>6, <3>7 DEF HostNext
  <2> QED BY <1>1, <2>1, <2>2 DEF Held
<1>3. CASE UNCHANGED <<job, lock, monitor, exporting>>
  BY <1>1, <1>3 DEF Held
<1>4. CASE Requested /\ UNCHANGED <<host, job, stack>>
  BY <1>3, <1>4 DEF host, watch, stack, exports
<1>5. CASE (BeginExport \/ EndExport) /\ UNCHANGED <<host, client, status, job>>
  <2>1. UNCHANGED <<job, lock, monitor>> /\ exporting \in {"free", "export"}
    BY <1>5 DEF BeginExport, EndExport, host, watch
  <2> QED BY <1>1, <2>1 DEF Held
<1>6. CASE Reboot
  <2>1. \A j \in Jobs : job'[j].at = "idle"
    BY <1>6 DEF Reboot, Idle
  <2>2. monitor'.at = "idle"
    BY <1>6 DEF Reboot, Base, TypeOK
  <2> QED BY <2>1, <2>2 DEF Held, Busy, Past, Activation, Rollback
<1>7. ASSUME NEW j \in Jobs, Work(j) PROVE Held'
  <2> DEFINE Covered == /\ job'[j].at \in Busy => lock' = j
                        /\ lock = lock' \/ lock = "free" \/ lock = j
                        /\ job'[j].at \in Activation \cup Rollback => exporting' = j
                        /\ exporting = exporting' \/ exporting = "free" \/ exporting = j
                        /\ UNCHANGED monitor
  <2>1. \A i \in Jobs : i # j => job'[i] = job[i]
    BY <1>1, <1>7, WorkOfOne
  <2>2. /\ job[j].at \in Busy => lock = j
        /\ job[j].at \in Activation \cup Rollback => exporting = j
    BY <1>1 DEF Held
  <2>3. Idle.at = "idle"
    BY DEF Idle
  <2>4. ASSUME Launch(j) PROVE Covered
    <3>1. job'[j].at = "start"
      BY <1>1, <2>4 DEF Launch, Job
    <3> QED BY <2>4, <3>1
            DEF Launch, host, watch, stack, exports, Busy, Past, Activation, Rollback
  <2>5. ASSUME Begin(j) PROVE Covered
    <3>1. CASE lock = "free"
      <4>1. lock' = j /\ job'[j].at = "read"
        BY <1>1, <2>5, <3>1 DEF Begin, At, Job
      <4> QED BY <2>5, <3>1, <4>1
              DEF Begin, unlocked, watch, stack, exports, Activation, Rollback
    <3>2. CASE lock # "free"
      <4>1. job'[j] = Idle /\ (UNCHANGED lock \/ lock = j)
        BY <1>1, <2>5, <3>2 DEF Begin, GiveUp
      <4> QED BY <2>3, <2>5, <4>1
              DEF Begin, unlocked, watch, stack, exports, Busy, Past, Activation, Rollback
    <3> QED BY <3>1, <3>2
  <2>6. ASSUME ReadBundle(j) \/ Stage(j) \/ Backup(j) \/ Synchronize(j) \/ Tag(j)
                 \/ RestartWorkers(j) \/ RollBack(j) \/ Restore(j) \/ Record(j)
        PROVE  Covered
    <3>1. UNCHANGED <<lock, monitor, exporting>>
      BY <2>6 DEF ReadBundle, Stage, Backup, Synchronize, Tag, RestartWorkers, RollBack, Restore,
         Record, host, watch, stack, exports
    <3>2. job[j].at \in Busy
      BY <2>6 DEF ReadBundle, Stage, Backup, Synchronize, Replace, Tag, RestartWorkers, RollBack,
         Restore, Record, Busy, Past, Activation, Rollback
    <3>3. job'[j].at \in Activation \cup Rollback => job[j].at \in Activation \cup Rollback
      <4>1. CASE ReadBundle(j) \/ Stage(j) \/ Backup(j) \/ Record(j)
        <5>1. job'[j].at \in {"verify", "backup", "build", "report"}
          BY <1>1, <4>1 DEF ReadBundle, Stage, Backup, Record, At, Job
        <5> QED BY <5>1 DEF Activation, Rollback
      <4>2. CASE Synchronize(j) \/ Tag(j) \/ RestartWorkers(j) \/ RollBack(j) \/ Restore(j)
        BY <4>2 DEF Synchronize, Replace, Tag, RestartWorkers, RollBack, Restore, Activation,
           Rollback
      <4> QED BY <2>6, <4>1, <4>2
    <3> QED BY <2>2, <3>1, <3>2, <3>3
  <2>7. ASSUME Freeze(j) PROVE Covered
    <3>1. job[j].at = "build" /\ exporting = "free" /\ exporting' = j
          /\ UNCHANGED <<lock, monitor>>
      BY <2>7 DEF Freeze, host, watch
    <3> QED BY <2>2, <3>1 DEF Busy, Past
  <2>8. ASSUME Activated(j) PROVE Covered
    <3>1. /\ job[j].at = "check" /\ job'[j].at = "record"
          /\ UNCHANGED <<lock, monitor>>
      BY <1>1, <2>8 DEF Activated, At, host, watch, Job
    <3> QED BY <2>2, <3>1 DEF Busy, Past, Activation, Rollback
  <2>9. ASSUME RolledBack(j) \/ RollbackFails(j) PROVE Covered
    <3>1. /\ job[j].at \in Rollback /\ job'[j] = Idle /\ UNCHANGED monitor
          /\ lock' \in {"free", lock}
      BY <1>1, <2>9 DEF RolledBack, RollbackFails, GiveUp, unlocked, watch, Rollback
    <3> QED BY <2>2, <2>3, <3>1 DEF Busy, Past, Activation, Rollback
  <2>10. ASSUME Refused(j) \/ RecordFails(j) \/ Report(j) PROVE Covered
    <3>1. /\ job'[j] = Idle /\ UNCHANGED <<monitor, exporting>>
          /\ UNCHANGED lock \/ lock = j
      BY <1>1, <2>2, <2>10
         DEF Refused, RecordFails, Report, GiveUp, unlocked, watch, stack, exports, Busy
    <3> QED BY <2>3, <3>1 DEF Busy, Past, Activation, Rollback
  <2>11. Covered
    BY <1>7, <2>4, <2>5, <2>6, <2>7, <2>8, <2>9, <2>10 DEF Work
  <2> QED BY <1>1, <2>1, <2>11 DEF Held
<1> QED BY <1>2, <1>3, <1>4, <1>5, <1>6, <1>7, Kinds DEF vars, host, watch, release, stack, exports

\* Who goes on after the admission was admitted before.
LEMMA PastComesFrom ==
  ASSUME job \in [Jobs -> Job], NEW j \in Jobs, Work(j), ~Stage(j),
         job'[j].at \in Past \cup {"record", "report"}
  PROVE  /\ job[j].at \in Past \cup {"record", "report"}
         /\ ~Launch(j) /\ ~ReadBundle(j) /\ job'[j] # Idle
<1>1. job'[j].at \notin {"idle", "start", "verify", "read"}
  BY DEF Past, Activation, Rollback
<1>2. job'[j] # Idle /\ ~Launch(j) /\ ~ReadBundle(j)
  <2>1. Idle.at = "idle"
    BY DEF Idle
  <2>2. /\ Launch(j) => job'[j].at = "start"
        /\ ReadBundle(j) => job'[j].at = "verify"
    BY WorkKeeps
  <2> QED BY <1>1, <2>1, <2>2
<1>3. ~Begin(j)
  <2> SUFFICES ASSUME Begin(j) PROVE FALSE
    OBVIOUS
  <2>1. CASE lock = "free"
    BY <1>1, <2>1 DEF Begin, At, Job
  <2>2. CASE lock # "free"
    BY <1>2, <2>2 DEF Begin, GiveUp
  <2> QED BY <2>1, <2>2
<1>4. ~(Refused(j) \/ RollbackFails(j) \/ RecordFails(j) \/ RolledBack(j) \/ Report(j))
  BY <1>2 DEF Refused, RollbackFails, RecordFails, RolledBack, Report, GiveUp
<1>5. CASE Backup(j) \/ Freeze(j) \/ Activated(j) \/ RollBack(j) \/ Record(j)
  BY <1>2, <1>5 DEF Backup, Freeze, Activated, RollBack, Record, Past, Activation
<1>6. CASE Synchronize(j) \/ Restore(j) \/ Tag(j) \/ RestartWorkers(j)
  BY <1>2, <1>6 DEF Synchronize, Restore, Replace, Tag, RestartWorkers, Past, Activation, Rollback
<1> QED BY <1>2, <1>3, <1>4, <1>5, <1>6 DEF Work

\* Who has activated does not begin again.
LEMMA PastStays ==
  ASSUME job \in [Jobs -> Job], NEW j \in Jobs, Work(j), job'[j].at \in Past
  PROVE  job[j].at \notin {"record", "report"}
<1>1. Record(j) \/ RecordFails(j) \/ Report(j) => job'[j].at \notin Past
  <2>1. Record(j) => job'[j].at = "report"
    BY DEF Record, At, Job
  <2>2. RecordFails(j) \/ Report(j) => job'[j].at = "idle"
    BY DEF RecordFails, Report, GiveUp, Idle
  <2> QED BY <2>1, <2>2 DEF Past, Activation, Rollback
<1>2. job[j].at \in {"record", "report"} => Record(j) \/ RecordFails(j) \/ Report(j)
  BY DEF Work, Launch, Begin, ReadBundle, Stage, Backup, Freeze, Refused, Synchronize,
     Replace, Tag, RestartWorkers, Activated, RollBack, Restore, RolledBack, RollbackFails,
     Activation, Rollback
<1> QED BY <1>1, <1>2

LEMMA ApprovalStays ==
  ASSUME Base, [Next]_vars
  PROVE  Approval'
<1>1. /\ job \in [Jobs -> Job] /\ Approval /\ dispatch \in Commits \cup {0}
  BY DEF Base, TypeOK
<1>2. passed \subseteq passed'
  <2>1. ASSUME NEW j \in Jobs, Work(j) PROVE UNCHANGED passed
    BY <2>1 DEF Work, Launch, Begin, ReadBundle, Stage, Backup, Freeze, Refused, Synchronize,
       Tag, RestartWorkers, Activated, RollBack, Restore, RolledBack, RollbackFails, Record,
       Report, RecordFails, client, github
  <2>2. CASE Requested
    BY <2>2 DEF Requested, Push, LaunchFails, BeginUpload, Submit, EndUpload, AbandonUpload, github
  <2>3. CASE Reboot
    BY <2>3 DEF Reboot, github
  <2> QED BY <2>1, <2>2, <2>3, Kinds DEF vars, release, client, github
<1>3. CASE UNCHANGED job
  BY <1>1, <1>2, <1>3 DEF Approval
<1>4. CASE Reboot
  <2>1. \A j \in Jobs : job'[j].at = "idle"
    BY <1>4 DEF Reboot, Idle
  <2> QED BY <2>1 DEF Approval, Past, Activation, Rollback
<1>5. ASSUME NEW j \in Jobs, Work(j) PROVE Approval'
  <2>1. \A i \in Jobs : i # j => job'[i] = job[i]
    BY <1>1, <1>5, WorkOfOne
  <2>2. job'[j].at # "idle" => job'[j].commit \in Commits
    <3>1. CASE Launch(j)
      <4>1. dispatch \in Commits
        BY <1>1, <3>1 DEF Launch
      <4> QED BY <1>1, <1>5, <3>1, <4>1, WorkKeeps
    <3>2. CASE job'[j] = Idle
      BY <3>2 DEF Idle
    <3>3. CASE ~Launch(j) /\ job'[j] # Idle
      <4>1. job[j].at # "idle"
        BY <1>5, <3>3 DEF Work, Begin, ReadBundle, Stage, Backup, Freeze, Refused, Synchronize,
           Replace, Tag, RestartWorkers, Activated, RollBack, Restore, RolledBack, RollbackFails,
           Record, Report, RecordFails, Activation, Rollback
      <4>2. job'[j].commit = job[j].commit
        BY <1>1, <1>5, <3>3, WorkKeeps DEF Carried
      <4> QED BY <1>1, <4>1, <4>2 DEF Approval
    <3> QED BY <3>1, <3>2, <3>3
  <2>3. ASSUME job'[j].at \in Past \cup {"record", "report"}
        PROVE  job'[j].files = Code(job'[j].commit) /\ job'[j].commit \in passed'
    <3>1. CASE Stage(j)
      <4>1. job[j].files = Code(job[j].commit) /\ job[j].commit \in passed
        BY <3>1 DEF Stage, Approved
      <4> QED BY <1>1, <1>2, <1>5, <3>1, <4>1, WorkKeeps
    <3>2. CASE ~Stage(j)
      <4>1. Carried(job'[j]) = Carried(job[j]) /\ job[j].at \in Past \cup {"record", "report"}
        BY <1>1, <1>5, <2>3, <3>2, PastComesFrom, WorkKeeps
      <4> QED BY <1>1, <1>2, <4>1 DEF Approval, Carried
    <3> QED BY <3>1, <3>2
  <2> QED BY <1>1, <1>2, <2>1, <2>2, <2>3 DEF Approval
<1> QED BY <1>3, <1>4, <1>5, Kinds DEF vars, release

Ordered(s) == \A i, k \in 1..Len(s) : i <= k => s[i] <= s[k]

\* What is recent of a sequence of times in the order of the clock: its end.
LEMMA RecentFacts ==
  ASSUME clock \in Nat, NEW S, S \subseteq Nat, NEW s \in Seq(S)
  PROVE  /\ Recent(s) \in Seq(S)
         /\ Len(Recent(s)) <= Len(s)
         /\ \A i \in 0..Len(Recent(s)) - 1 : Recent(s)[Len(Recent(s)) - i] = s[Len(s) - i]
         /\ Ordered(s) =>
              \A i \in 0..Len(s) - 1 : clock - s[Len(s) - i] < Hour => Len(Recent(s)) > i
<1> DEFINE n == Len(s)
           old == {i \in DOMAIN s : clock - s[i] >= Hour}
           c == Cardinality(old)
<1>1. /\ n \in Nat /\ DOMAIN s = 1..n /\ \A i \in 1..n : s[i] \in Nat /\ s[i] \in S
  <2>1. n \in Nat /\ DOMAIN s = 1..n
    BY LenProperties
  <2>2. \A i \in 1..n : s[i] \in S
    BY ElementOfSeq
  <2> QED BY <2>1, <2>2
<1>2. IsFiniteSet(1..n) /\ Cardinality(1..n) = n
  <2>1. \A m \in Nat : IsFiniteSet(1..m) /\ Cardinality(1..m) = m
    BY FS_Interval
  <2> QED BY <1>1, <2>1
<1>3. c \in Nat /\ c <= n
  <2>1. old \in SUBSET (1..n)
    BY <1>1
  <2> QED BY <1>2, <2>1, FS_Subset, FS_CardinalityType
<1>4. Recent(s) = SubSeq(s, c + 1, n)
  BY DEF Recent
<1> HIDE DEF c, n
<1>5. /\ Recent(s) \in Seq(S) /\ Len(Recent(s)) = n - c
      /\ \A i \in 1..n - c : Recent(s)[i] = s[c + i]
  <2>1. c + 1 \in Int /\ n \in Int /\ \A i \in (c + 1)..n : s[i] \in S
    BY <1>1, <1>3
  <2>2. /\ SubSeq(s, c + 1, n) \in Seq(S)
        /\ Len(SubSeq(s, c + 1, n)) = IF c + 1 <= n THEN n - (c + 1) + 1 ELSE 0
        /\ \A i \in 1 .. n - (c + 1) + 1 : SubSeq(s, c + 1, n)[i] = s[(c + 1) + i - 1]
    BY <2>1, SubSeqProperties
  <2> QED BY <1>1, <1>3, <1>4, <2>2
<1>6. ASSUME Ordered(s),
             NEW i \in 0..n - 1, clock - s[n - i] < Hour
      PROVE  n - c > i
  <2>1. old \in SUBSET (1..n - i - 1)
    <3> SUFFICES ASSUME NEW k \in old PROVE k \in 1..n - i - 1
      OBVIOUS
    <3>1. k \in 1..n /\ clock - s[k] >= Hour
      BY <1>1
    <3>2. ~(n - i <= k)
      BY <1>1, <1>6, <3>1 DEF Ordered, n
    <3> QED BY <1>1, <3>1, <3>2
  <2>2. IsFiniteSet(1..n - i - 1) /\ Cardinality(1..n - i - 1) = n - i - 1
    <3>1. n - i - 1 \in Nat
      BY <1>1
    <3>2. \A m \in Nat : IsFiniteSet(1..m) /\ Cardinality(1..m) = m
      BY FS_Interval
    <3> QED BY <3>1, <3>2
  <2> HIDE DEF old
  <2>3. Cardinality(old) <= Cardinality(1..n - i - 1)
    BY <2>1, <2>2, FS_Subset
  <2>4. c <= n - i - 1
    BY <2>2, <2>3 DEF c
  <2> QED BY <1>1, <1>3, <2>4
<1>7. \A i \in 0..Len(Recent(s)) - 1 : Recent(s)[Len(Recent(s)) - i] = s[n - i]
  BY <1>1, <1>3, <1>5
<1> QED BY <1>1, <1>3, <1>5, <1>6, <1>7 DEF n

\* What a worker leaves alone, and which of its steps touch what.
LEMMA WorkTouches ==
  ASSUME NEW j \in Jobs, Work(j)
  PROVE  /\ UNCHANGED <<horizon, clock, guards, fence, monitor, restarts>>
         /\ UNCHANGED <<main, passed, uploads, receiving, tries, copied>>
         /\ lock' \in {lock, "free", j} /\ exporting' \in {exporting, "free", j}
         /\ UNCHANGED dispatch \/ dispatch' = 0
         /\ UNCHANGED box \/ RestartWorkers(j)
         /\ UNCHANGED tree \/ Synchronize(j) \/ Restore(j)
         /\ UNCHANGED latest \/ Tag(j)
         /\ UNCHANGED current \/ Record(j)
         /\ UNCHANGED releases \/ Stage(j)
         /\ UNCHANGED wounded \/ Activated(j) \/ RollbackFails(j)
<1>1. CASE Launch(j) \/ ReadBundle(j) \/ Stage(j) \/ Backup(j) \/ Freeze(j)
  BY <1>1 DEF Launch, ReadBundle, Stage, Backup, Freeze, host, watch, client, github, requests,
     stack, disk, exports
<1>2. CASE Begin(j) \/ Refused(j) \/ RecordFails(j)
  BY <1>2 DEF Begin, Refused, RecordFails, GiveUp, unlocked, watch, client, github, requests,
     stack, disk, exports
<1>3. CASE Synchronize(j) \/ Restore(j) \/ Tag(j) \/ RestartWorkers(j)
  BY <1>3 DEF Synchronize, Restore, Tag, RestartWorkers, host, watch, client, github, requests,
     stack, disk, exports
<1>4. CASE Activated(j) \/ RollBack(j) \/ Record(j)
  BY <1>4 DEF Activated, RollBack, Record, host, watch, client, github, requests,
     stack, disk, exports
<1>5. CASE RolledBack(j) \/ RollbackFails(j) \/ Report(j)
  BY <1>5 DEF RolledBack, RollbackFails, Report, GiveUp, unlocked, watch, client, github, requests,
     stack, disk, exports
<1> QED BY <1>1, <1>2, <1>3, <1>4, <1>5 DEF Work

Watching == [at : Rounds, failures : 0..MaxFailures, attempts : Seq(0..clock)]

\* What a round or a recovery decides.
LEMMA DecisionTypes ==
  ASSUME clock \in Nat, monitor \in Watching, NEW fine \in BOOLEAN
  PROVE  /\ Decision(fine).failures \in 0..MaxFailures
         /\ Decision(fine).attempts = Recent(monitor.attempts)
         /\ Decision(fine).attempts \in Seq(0..clock)
         /\ Decision(fine).act => /\ ~Guarded /\ Spaced(Recent(monitor.attempts))
                                  /\ box["app"].state = "sick"
<1>1. monitor.failures \in 0..3 /\ monitor.attempts \in Seq(0..clock) /\ 0..clock \subseteq Nat
  BY DEF Watching, MaxFailures
<1>2. Recent(monitor.attempts) \in Seq(0..clock)
  BY <1>1, RecentFacts
<1> DEFINE f == IF ~Eligible(fine) THEN 0
                ELSE IF monitor.failures + 1 < MaxFailures THEN monitor.failures + 1
                ELSE MaxFailures
<1>3. f \in 0..MaxFailures
  BY <1>1 DEF MaxFailures
<1>4. f = MaxFailures => Eligible(fine)
  BY DEF MaxFailures
<1>5. /\ Decision(fine).failures = f /\ Decision(fine).attempts = Recent(monitor.attempts)
      /\ Decision(fine).act <=> f = MaxFailures /\ Spaced(Recent(monitor.attempts))
  BY Zenon DEF Decision
<1> HIDE DEF f
<1>6. Eligible(fine) => ~Guarded /\ box["app"].state = "sick"
  BY DEF Eligible
<1> QED BY <1>2, <1>3, <1>4, <1>5, <1>6

LEMMA WatchUpdate ==
  ASSUME NEW R, NEW F, NEW A, NEW m \in [at : R, failures : F, attempts : A],
         NEW r \in R, NEW f \in F, NEW a \in A
  PROVE  [m EXCEPT !.at = r, !.failures = f, !.attempts = a]
           \in [at : R, failures : F, attempts : A]
OBVIOUS

LEMMA HostTypesStay ==
  ASSUME Base, [Next]_vars
  PROVE  /\ horizon' \in Horizons /\ clock' \in 0..horizon'.clock
         /\ lock' \in Jobs \cup {"free", "control", "monitor"}
         /\ fenced' \in BOOLEAN /\ maintenance' \in BOOLEAN /\ (fenced' => maintenance')
         /\ box' \in [Names -> Container] /\ fence' \in BOOLEAN
         /\ monitor' \in Watching' /\ restarts' \in Seq(0..clock')
<1> DEFINE Goal == /\ horizon' \in Horizons /\ clock' \in 0..horizon'.clock
                   /\ lock' \in Jobs \cup {"free", "control", "monitor"}
                   /\ fenced' \in BOOLEAN /\ maintenance' \in BOOLEAN /\ (fenced' => maintenance')
                   /\ box' \in [Names -> Container] /\ fence' \in BOOLEAN
                   /\ monitor' \in Watching' /\ restarts' \in Seq(0..clock')
           Same == horizon' = horizon /\ clock' = clock
           Marks == /\ lock' \in Jobs \cup {"free", "control", "monitor"}
                    /\ fenced' \in BOOLEAN /\ maintenance' \in BOOLEAN
                    /\ (fenced' => maintenance') /\ fence' \in BOOLEAN
<1> SUFFICES Goal
  OBVIOUS
<1>1. /\ horizon \in Horizons /\ clock \in 0..horizon.clock
      /\ lock \in Jobs \cup {"free", "control", "monitor"}
      /\ fenced \in BOOLEAN /\ maintenance \in BOOLEAN /\ (fenced => maintenance)
      /\ box \in [Names -> Container] /\ fence \in BOOLEAN
      /\ monitor \in Watching /\ restarts \in Seq(0..clock)
  BY DEF Base, TypeOK, Watching
<1>2. clock \in Nat /\ horizon.clock \in Nat
  <2>1. horizon.clock \in Nat
    BY <1>1
  <2> QED BY <1>1, <2>1
<1>3. /\ monitor.at \in Rounds /\ monitor.failures \in 0..MaxFailures
      /\ monitor.attempts \in Seq(0..clock)
  BY <1>1 DEF Watching
<1>4. \A n \in Names : box[n] \in Container /\ box[n].image \in AnyCode /\ box[n].restart \in BOOLEAN
  BY <1>1 DEF Container
<1>5. ASSUME Same, UNCHANGED restarts, monitor' = monitor, box' = box, Marks PROVE Goal
  BY <1>1, <1>5 DEF Watching
<1>6. ASSUME Same, Marks, UNCHANGED <<monitor, restarts>>, box' \in [Names -> Container] PROVE Goal
  BY <1>1, <1>6 DEF Watching
<1>7. ASSUME Same, Marks, UNCHANGED <<box, restarts>>, monitor' \in Watching PROVE Goal
  BY <1>1, <1>7 DEF Watching
<1>8. ASSUME NEW n \in Names, NEW s \in {"up", "sick"}, box' = [box EXCEPT ![n].state = s]
      PROVE  box' \in [Names -> Container]
  <2>1. [box[n] EXCEPT !.state = s] \in Container
    BY <1>4, <1>8 DEF Container, States
  <2> QED BY <1>1, <1>8, <2>1
<1>9. "app" \in Names
  BY DEF Names
<1> HIDE DEF Goal
<1>10. CASE MaintenanceOn \/ MaintenanceOff
  BY <1>1, <1>5, <1>10 DEF MaintenanceOn, MaintenanceOff, watch
<1>11. CASE RestartApp \/ Sicken
  <2>1. \E s \in {"up", "sick"} : box' = [box EXCEPT !["app"].state = s]
    BY <1>11 DEF RestartApp, Sicken, Restart
  <2> QED BY <1>1, <1>6, <1>8, <1>9, <1>11, <2>1 DEF RestartApp, Sicken, guards, watch
<1>12. CASE FenceBegins
  BY <1>1, <1>5, <1>12 DEF FenceBegins, watch
<1>13. CASE FenceHolds
  <2>1. \A n \in Names : [box[n] EXCEPT !.state = "down", !.restart = FALSE] \in Container
    BY <1>4 DEF Container, States
  <2> QED BY <1>1, <1>6, <1>13, <2>1 DEF FenceHolds, guards, watch
<1>14. CASE FenceFails
  <2>1. PICK stopped \in SUBSET Names, restart \in BOOLEAN :
          box' = [n \in Names |->
            [box[n] EXCEPT !.state = IF n \in stopped THEN "down" ELSE @,
                           !.restart = restart /\ @]]
    BY <1>14 DEF FenceFails
  <2>2. ASSUME NEW n \in Names
        PROVE  [box[n] EXCEPT !.state = IF n \in stopped THEN "down" ELSE @,
                              !.restart = restart /\ @] \in Container
    BY <1>4 DEF Container, States
  <2> QED BY <1>1, <1>6, <1>14, <2>1, <2>2 DEF FenceFails, guards, watch
<1>15. CASE MonitorRound
  <2>1. PICK fine \in BOOLEAN :
          monitor' = [at |-> IF Decision(fine).act THEN "recover" ELSE "idle",
                      failures |-> Decision(fine).failures,
                      attempts |-> Decision(fine).attempts]
    BY <1>15 DEF MonitorRound
  <2>2. monitor' \in Watching
    BY <1>1, <1>2, <2>1, DecisionTypes DEF Watching, Rounds
  <2> QED BY <1>1, <1>7, <1>15, <2>2 DEF MonitorRound, guards
<1>16. \A a \in Rounds : [monitor EXCEPT !.at = a] \in Watching
  BY <1>1 DEF Watching
<1>17. CASE Recover
  <2>1. Append(monitor.attempts, clock) \in Seq(0..clock)
    BY <1>2, <1>3, AppendProperties
  <2>2. [monitor EXCEPT !.at = "restarting", !.failures = 0,
                        !.attempts = Append(@, clock)] \in Watching
    <3>1. \A a \in Seq(0..clock) :
            [monitor EXCEPT !.at = "restarting", !.failures = 0, !.attempts = a] \in Watching
      <4>1. "restarting" \in Rounds /\ 0 \in 0..MaxFailures
        BY DEF Rounds, MaxFailures
      <4> QED BY <1>1, <4>1, WatchUpdate DEF Watching
    <3> QED BY <1>1, <2>1, <3>1 DEF Watching
  <2>3. monitor' \in Watching
    BY <1>16, <1>17, <2>2 DEF Recover, Rounds
  <2>4. lock' \in {lock, "monitor"}
    BY <1>17 DEF Recover
  <2> QED BY <1>1, <1>7, <1>17, <2>3, <2>4 DEF Recover, guards
<1>18. CASE RecoverGivesWay \/ RecoveryFails
  <2>1. monitor' \in Watching
    BY <1>16, <1>18 DEF RecoverGivesWay, RecoveryFails, Rounds
  <2> QED BY <1>1, <1>7, <1>18, <2>1 DEF RecoverGivesWay, RecoveryFails, guards
<1>19. CASE Recovered
  <2>1. monitor' \in Watching /\ UNCHANGED clock
    BY <1>16, <1>19 DEF Recovered, Rounds
  <2>2. restarts' \in Seq(0..clock)
    BY <1>1, <1>2, <1>19, AppendProperties DEF Recovered
  <2>3. box' \in [Names -> Container]
    BY <1>8, <1>9, <1>19 DEF Recovered, Restart
  <2> QED BY <1>1, <1>19, <2>1, <2>2, <2>3 DEF Recovered, guards, Goal, Watching
<1>20. CASE Tick
  <2>1. clock' \in 0..horizon.clock /\ clock' = clock + 1 /\ UNCHANGED horizon
    BY <1>2, <1>20 DEF Tick
  <2>2. \A a \in Seq(0..clock) : a \in Seq(0..clock')
    BY <1>2, <2>1
  <2>3. monitor' \in Watching'
    BY <1>1, <1>3, <1>20, <2>2 DEF Tick, watch, Watching
  <2> QED BY <1>1, <1>20, <2>1, <2>2, <2>3 DEF Tick, guards, watch, Goal
<1>21. CASE UNCHANGED host
  BY <1>1, <1>5, <1>21 DEF host, guards, watch
<1>22. CASE Reboot
  <2>1. \A n \in Names : [box[n] EXCEPT !.state = IF box[n].restart THEN @ ELSE "down"] \in Container
    BY <1>4 DEF Container, States
  <2>2. box' \in [Names -> Container] /\ monitor' \in Watching
    BY <1>16, <1>22, <2>1 DEF Reboot, Rounds
  <2> QED BY <1>1, <1>22, <2>2 DEF Reboot, guards, Goal, Watching
<1>23. ASSUME NEW j \in Jobs, Work(j) PROVE Goal
  <2>1. CASE UNCHANGED box
    BY <1>1, <1>5, <1>23, <2>1, WorkTouches DEF guards
  <2>2. CASE RestartWorkers(j)
    <3>1. job[j] \in Job /\ latest \in AnyCode
      BY DEF Base, TypeOK
    <3>2. PICK n \in Names : \E image \in AnyCode : \E s \in {"up", "sick"} :
            box' = [box EXCEPT ![n] = [image |-> image, state |-> s, restart |-> TRUE]]
      BY <3>1, <2>2 DEF RestartWorkers, Recreate, Names, Job
    <3>3. box' \in [Names -> Container]
      BY <1>1, <3>2 DEF Container, States
    <3> QED BY <1>1, <1>6, <1>23, <3>3, WorkTouches DEF guards
  <2> QED BY <1>23, <2>1, <2>2, WorkTouches
<1>24. CASE HostNext
  BY <1>10, <1>11, <1>12, <1>13, <1>14, <1>15, <1>17, <1>18, <1>19, <1>20, <1>24 DEF HostNext
<1> QED BY <1>21, <1>22, <1>23, <1>24, Kinds DEF vars, Goal

LEMMA JobUpdates ==
  ASSUME job \in [Jobs -> Job], NEW j \in Jobs, NEW a \in Steps
  PROVE  /\ [job EXCEPT ![j].at = a] \in [Jobs -> Job]
         /\ \A c \in Commits \cup {0} : [job EXCEPT ![j].at = a, ![j].commit = c] \in [Jobs -> Job]
         /\ \A b \in AnyCode \cup {NoBundle} :
              [job EXCEPT ![j].at = a, ![j].files = b] \in [Jobs -> Job]
         /\ \A s \in AnyCode \cup {Half} : \A i \in [Names -> AnyCode] :
              [job EXCEPT ![j].at = a, ![j].source = s, ![j].images = i] \in [Jobs -> Job]
<1> DEFINE Good(A, C, F, S, I, f) ==
      /\ [f EXCEPT ![j].at = a]
           \in [Jobs -> [at : A, commit : C, files : F, source : S, images : I]]
      /\ \A c \in C : [f EXCEPT ![j].at = a, ![j].commit = c]
           \in [Jobs -> [at : A, commit : C, files : F, source : S, images : I]]
      /\ \A b \in F : [f EXCEPT ![j].at = a, ![j].files = b]
           \in [Jobs -> [at : A, commit : C, files : F, source : S, images : I]]
      /\ \A s \in S : \A i \in I :
           [f EXCEPT ![j].at = a, ![j].source = s, ![j].images = i]
             \in [Jobs -> [at : A, commit : C, files : F, source : S, images : I]]
<1>1. ASSUME NEW A, NEW C, NEW F, NEW S, NEW I, a \in A,
             NEW f \in [Jobs -> [at : A, commit : C, files : F, source : S, images : I]]
      PROVE  Good(A, C, F, S, I, f)
  <2> DEFINE Kind == [at : A, commit : C, files : F, source : S, images : I]
  <2>1. [f EXCEPT ![j].at = a] \in [Jobs -> Kind]
    BY <1>1
  <2>2. ASSUME NEW c \in C PROVE [f EXCEPT ![j].at = a, ![j].commit = c] \in [Jobs -> Kind]
    BY <1>1
  <2>3. ASSUME NEW b \in F PROVE [f EXCEPT ![j].at = a, ![j].files = b] \in [Jobs -> Kind]
    BY <1>1
  <2>4. ASSUME NEW s \in S, NEW i \in I
        PROVE  [f EXCEPT ![j].at = a, ![j].source = s, ![j].images = i] \in [Jobs -> Kind]
    BY <1>1
  <2> QED BY <2>1, <2>2, <2>3, <2>4
<1> HIDE DEF Good
<1>2. Good(Steps, Commits \cup {0}, AnyCode \cup {NoBundle}, AnyCode \cup {Half},
           [Names -> AnyCode], job)
  BY <1>1 DEF Job
<1> QED BY <1>2 DEF Good, Job

LEMMA JobTypesStay ==
  ASSUME Base, [Next]_vars
  PROVE  job' \in [Jobs -> Job]
<1>1. /\ job \in [Jobs -> Job] /\ dispatch \in Commits \cup {0}
      /\ uploads \in [Commits -> AnyCode \cup {NoBundle}] /\ tree \in AnyCode \cup {Half}
      /\ box \in [Names -> Container] /\ Approval
  BY DEF Base, TypeOK
<1>2. CASE Reboot
  BY <1>2, IdleIsJob DEF Reboot
<1>3. ASSUME NEW j \in Jobs, Work(j) PROVE job' \in [Jobs -> Job]
  <2>1. "start" \in Steps /\ "verify" \in Steps /\ "backup" \in Steps
    BY DEF Steps
  <2>2. ASSUME NEW pc \in Steps, At(j, pc) PROVE job' \in [Jobs -> Job]
    BY <1>1, <2>2, JobUpdates DEF At
  <2>3. CASE Launch(j)
    <3>1. job' = [job EXCEPT ![j].at = "start", ![j].commit = dispatch]
      BY <2>3 DEF Launch
    <3> QED BY <1>1, <2>1, <3>1, JobUpdates
  <2>4. CASE ReadBundle(j)
    <3>1. job' = [job EXCEPT ![j].at = "verify", ![j].files = uploads[job[j].commit]]
      BY <2>4 DEF ReadBundle
    <3>2. uploads[job[j].commit] \in AnyCode \cup {NoBundle}
      BY <1>1, <2>4 DEF ReadBundle, Approval
    <3> QED BY <1>1, <2>1, <3>1, <3>2, JobUpdates
  <2>5. CASE Stage(j)
    <3>1. job' = [job EXCEPT ![j].at = "backup", ![j].source = tree,
                             ![j].images = [n \in Names |-> box[n].image]]
      BY <2>5 DEF Stage
    <3>2. [n \in Names |-> box[n].image] \in [Names -> AnyCode]
      BY <1>1 DEF Container
    <3> QED BY <1>1, <2>1, <3>1, <3>2, JobUpdates
  <2>6. ASSUME job' = [job EXCEPT ![j] = Idle] PROVE job' \in [Jobs -> Job]
    BY <1>1, <2>6, IdleIsJob
  <2>7. CASE Begin(j)
    <3>1. "read" \in Steps
      BY DEF Steps
    <3> QED BY <2>2, <2>6, <2>7, <3>1 DEF Begin, GiveUp
  <2>8. CASE Refused(j) \/ RollbackFails(j) \/ RecordFails(j) \/ RolledBack(j) \/ Report(j)
    BY <2>6, <2>8 DEF Refused, RollbackFails, RecordFails, RolledBack, Report, GiveUp
  <2>9. CASE Backup(j) \/ Freeze(j) \/ Activated(j) \/ RollBack(j) \/ Record(j)
    <3>1. \E pc \in {"build", "sync", "record", "undo", "report"} : At(j, pc)
      BY <2>9 DEF Backup, Freeze, Activated, RollBack, Record
    <3>2. \A pc \in {"build", "sync", "record", "undo", "report"} : pc \in Steps
      BY DEF Steps, Activation, Rollback
    <3> QED BY <2>2, <3>1, <3>2
  <2>10. CASE Synchronize(j) \/ Restore(j) \/ Tag(j) \/ RestartWorkers(j)
    <3>1. \E pc \in Activation \cup Rollback : At(j, pc)
      <4>1. CASE Synchronize(j)
        BY <4>1 DEF Synchronize, Replace, Activation
      <4>2. CASE Restore(j)
        BY <4>2 DEF Restore, Replace, Rollback
      <4>3. CASE Tag(j)
        BY <4>3 DEF Tag, Activation, Rollback
      <4>4. CASE RestartWorkers(j)
        BY <4>4 DEF RestartWorkers, Recreate, Activation, Rollback
      <4> QED BY <2>10, <4>1, <4>2, <4>3, <4>4
    <3>2. Activation \cup Rollback \subseteq Steps
      BY DEF Steps
    <3> QED BY <2>2, <3>1, <3>2
  <2> QED BY <1>3, <2>3, <2>4, <2>5, <2>7, <2>8, <2>9, <2>10 DEF Work
<1> QED BY <1>1, <1>2, <1>3, Kinds DEF vars, release

LEMMA OtherTypesStay ==
  ASSUME Base, [Next]_vars
  PROVE  /\ main' \in Nat /\ passed' \subseteq Commits
         /\ uploads' \in [Commits -> AnyCode \cup {NoBundle}] /\ receiving' \subseteq AnyCode
         /\ tries' \in [uploads : 0..horizon'.uploads, submissions : 0..horizon'.submissions]
         /\ status' \in [Commits -> Phases] /\ dispatch' \in Commits \cup {0}
         /\ releases' \subseteq Commits
         /\ tree' \in AnyCode \cup {Half} /\ latest' \in AnyCode /\ current' \in Commits \cup {0}
         /\ exporting' \in Jobs \cup {"free", "export"}
         /\ copied' \in AnyCode \cup {Half} /\ wounded' \in BOOLEAN
<1> DEFINE Asked == /\ main' \in Nat /\ passed' \subseteq Commits
                    /\ uploads' \in [Commits -> AnyCode \cup {NoBundle}]
                    /\ receiving' \subseteq AnyCode
                    /\ tries' \in [uploads : 0..horizon'.uploads,
                                   submissions : 0..horizon'.submissions]
           Kept == /\ releases' \subseteq Commits
                   /\ tree' \in AnyCode \cup {Half} /\ latest' \in AnyCode
                   /\ current' \in Commits \cup {0}
                   /\ exporting' \in Jobs \cup {"free", "export"}
                   /\ copied' \in AnyCode \cup {Half} /\ wounded' \in BOOLEAN
           Said == status' \in [Commits -> Phases] /\ dispatch' \in Commits \cup {0}
           Goal == Asked /\ Kept /\ Said
<1> SUFFICES Goal
  OBVIOUS
<1>1. /\ main \in Nat /\ passed \subseteq Commits
      /\ uploads \in [Commits -> AnyCode \cup {NoBundle}] /\ receiving \subseteq AnyCode
      /\ tries \in [uploads : 0..horizon.uploads, submissions : 0..horizon.submissions]
      /\ status \in [Commits -> Phases] /\ dispatch \in Commits \cup {0}
      /\ releases \subseteq Commits
      /\ tree \in AnyCode \cup {Half} /\ latest \in AnyCode /\ current \in Commits \cup {0}
      /\ exporting \in Jobs \cup {"free", "export"}
      /\ copied \in AnyCode \cup {Half} /\ wounded \in BOOLEAN
      /\ job \in [Jobs -> Job] /\ horizon \in Horizons /\ Approval
  BY DEF Base, TypeOK
<1>2. horizon.uploads \in Nat /\ horizon.submissions \in Nat
  BY <1>1
<1>3. ASSUME UNCHANGED <<main, passed, uploads, receiving, tries, horizon>> PROVE Asked
  BY <1>1, <1>3
<1>4. ASSUME UNCHANGED <<releases, tree, latest, current, exporting, copied, wounded>> PROVE Kept
  BY <1>1, <1>4
<1>5. ASSUME UNCHANGED <<status, dispatch>> PROVE Said
  BY <1>1, <1>5
<1>6. ASSUME NEW c \in Commits, NEW p \in Phases, Say(c, p), dispatch' \in {dispatch, 0, c}
      PROVE  Said
  BY <1>1, <1>6 DEF Say
<1>7. {"missing", "queued", "validate", "backup", "build", "activate", "rollback", "healthy",
       "could_not_start", "rolled_back", "see_server_log"} = Phases
  BY DEF Phases, Submitted
<1> HIDE DEF Asked, Kept, Said
<1>8. CASE Requested /\ UNCHANGED <<host, job, stack>>
  <2>1. Kept /\ UNCHANGED horizon
    BY <1>4, <1>8 DEF stack, disk, exports, host
  <2>2. CASE Push
    <3>1. Asked
      BY <1>1, <2>1, <2>2 DEF Push, requests, Asked
    <3> QED BY <1>5, <2>1, <2>2, <3>1 DEF Push
  <2>3. CASE LaunchFails
    <3>1. Asked
      BY <1>3, <2>1, <2>3 DEF LaunchFails, github, requests
    <3>2. status' \in [Commits -> Phases] /\ dispatch' = 0
      BY <1>1, <1>7, <2>3 DEF LaunchFails
    <3> QED BY <2>1, <3>1, <3>2 DEF Said
  <2>4. ASSUME NEW c \in Commits, BeginUpload(c) PROVE Goal
    <3>1. tries' \in [uploads : 0..horizon'.uploads, submissions : 0..horizon'.submissions]
      <4>1. /\ tries.uploads \in 0..horizon.uploads /\ tries.uploads < horizon.uploads
            /\ tries' = [tries EXCEPT !.uploads = tries.uploads + 1]
        BY <1>1, <2>4 DEF BeginUpload
      <4>2. tries.uploads + 1 \in 0..horizon.uploads
        BY <1>2, <4>1
      <4>3. \A u \in 0..horizon.uploads : [tries EXCEPT !.uploads = u]
              \in [uploads : 0..horizon.uploads, submissions : 0..horizon.submissions]
        BY <1>1
      <4> QED BY <2>1, <4>1, <4>2, <4>3
    <3>2. receiving' \subseteq AnyCode
      BY <1>1, <2>4, CodeIsCode DEF BeginUpload, Bundles
    <3>3. Asked
      BY <1>1, <2>4, <3>1, <3>2 DEF BeginUpload, github, Asked
    <3> QED BY <1>5, <2>1, <2>4, <3>3 DEF BeginUpload
  <2>5. ASSUME NEW c \in Commits, Submit(c) PROVE Goal
    <3>1. tries' \in [uploads : 0..horizon'.uploads, submissions : 0..horizon'.submissions]
      <4>1. /\ tries.submissions \in 0..horizon.submissions
            /\ tries.submissions < horizon.submissions
            /\ tries' = [tries EXCEPT !.submissions = tries.submissions + 1]
        BY <1>1, <2>5 DEF Submit
      <4>2. tries.submissions + 1 \in 0..horizon.submissions
        BY <1>2, <4>1
      <4>3. \A u \in 0..horizon.submissions : [tries EXCEPT !.submissions = u]
              \in [uploads : 0..horizon.uploads, submissions : 0..horizon.submissions]
        BY <1>1
      <4> QED BY <2>1, <4>1, <4>2, <4>3
    <3>2. Asked
      BY <1>1, <2>5, <3>1 DEF Submit, github, Asked
    <3>3. Said
      BY <1>6, <1>7, <2>5 DEF Submit
    <3> QED BY <2>1, <3>2, <3>3
  <2>6. ASSUME NEW b \in receiving, EndUpload(b) \/ AbandonUpload(b) PROVE Goal
    <3>1. b \in AnyCode /\ receiving' \subseteq AnyCode
          /\ uploads' \in [Commits -> AnyCode \cup {NoBundle}]
      BY <1>1, <2>6 DEF EndUpload, AbandonUpload
    <3>2. Asked
      BY <1>1, <2>1, <2>6, <3>1 DEF EndUpload, AbandonUpload, github, Asked
    <3> QED BY <1>5, <2>1, <2>6, <3>2 DEF EndUpload, AbandonUpload
  <2> QED BY <1>8, <2>2, <2>3, <2>4, <2>5, <2>6 DEF Requested
<1>9. CASE (BeginExport \/ EndExport) /\ UNCHANGED <<host, client, status, job>>
  <2>1. Asked /\ Said
    BY <1>3, <1>5, <1>9 DEF client, github, requests, host
  <2>2. Kept
    BY <1>1, <1>9 DEF BeginExport, EndExport, disk, Kept
  <2> QED BY <2>1, <2>2
<1>10. CASE Reboot
  <2>1. Asked
    BY <1>1, <1>10 DEF Reboot, github, Asked
  <2>2. Kept
    BY <1>1, <1>10 DEF Reboot, disk, Kept
  <2>3. Said
    BY <1>1, <1>10 DEF Reboot, Said
  <2> QED BY <2>1, <2>2, <2>3
<1>11. ASSUME NEW j \in Jobs, Work(j) PROVE Goal
  <2>1. Asked
    BY <1>3, <1>11, WorkTouches
  <2>2. Said
    <3>1. CASE Launch(j)
      <4>1. status' \in [Commits -> Phases] /\ dispatch' = 0
        BY <1>1, <1>7, <3>1 DEF Launch
      <4> QED BY <4>1 DEF Said
    <3>2. CASE ~Launch(j)
      <4>1. job[j].commit \in Commits
        BY <1>1, <1>11, <3>2 DEF Work, Begin, ReadBundle, Stage, Backup, Freeze, Refused,
           Synchronize, Replace, Tag, RestartWorkers, Activated, RollBack, Restore, RolledBack,
           RollbackFails, Record, Report, RecordFails, Activation, Rollback, Approval
      <4>2. dispatch' \in {dispatch, 0}
        BY <1>11, WorkTouches
      <4>3. UNCHANGED status \/ \E p \in Phases : Say(job[j].commit, p)
        <5>0. "rolled_back" \in Phases /\ Submitted \subseteq Phases
          BY DEF Phases
        <5>1. CASE Begin(j) \/ Refused(j) \/ RollbackFails(j) \/ RecordFails(j)
          BY <1>7, <5>1 DEF Begin, Refused, RollbackFails, RecordFails, GiveUp
        <5>2. CASE Stage(j) \/ Backup(j) \/ Freeze(j) \/ RollBack(j) \/ RolledBack(j) \/ Report(j)
          BY <1>7, <5>2 DEF Stage, Backup, Freeze, RollBack, RolledBack, Report
        <5>3. CASE ReadBundle(j) \/ Synchronize(j) \/ Tag(j) \/ RestartWorkers(j) \/ Activated(j)
                     \/ Restore(j) \/ Record(j)
          BY <5>3 DEF ReadBundle, Synchronize, Tag, RestartWorkers, Activated, Restore, Record
        <5> QED BY <1>11, <3>2, <5>1, <5>2, <5>3 DEF Work
      <4> QED BY <1>1, <1>6, <4>1, <4>2, <4>3 DEF Said
    <3> QED BY <3>1, <3>2
  <2>3. Kept
    <3>1. job[j] \in Job /\ job[j].source \in AnyCode \cup {Half}
          /\ job[j].images["app"] \in AnyCode /\ job[j].commit \in Commits \cup {0}
      BY <1>1 DEF Job, Names
    <3>2. job[j].at \in Past => job[j].files \in AnyCode
      BY <1>1, CodeIsCode DEF Approval, Past, Activation, Rollback
    <3>3. releases' \subseteq Commits
      <4>1. Stage(j) => job[j].commit \in Commits
        BY <1>1 DEF Stage, Approval
      <4>2. Stage(j) => releases' = releases \cup {job[j].commit}
        BY DEF Stage
      <4>3. UNCHANGED releases \/ Stage(j)
        BY <1>11, WorkTouches
      <4> QED BY <1>1, <4>1, <4>2, <4>3
    <3>4. tree' \in AnyCode \cup {Half}
      BY <1>1, <1>11, <3>1, <3>2, WorkTouches
         DEF Synchronize, Restore, Replace, Past, Activation, Rollback
    <3>5. latest' \in AnyCode
      BY <1>1, <1>11, <3>1, <3>2, WorkTouches DEF Tag, Past, Activation, Rollback
    <3>6. current' \in Commits \cup {0}
      BY <1>1, <1>11, <3>1, WorkTouches DEF Record
    <3>7. exporting' \in Jobs \cup {"free", "export"} /\ copied' \in AnyCode \cup {Half}
      BY <1>1, <1>11, WorkTouches
    <3>8. wounded' \in BOOLEAN
      BY <1>1, <1>11, WorkTouches DEF Activated, RollbackFails
    <3> QED BY <3>3, <3>4, <3>5, <3>6, <3>7, <3>8 DEF Kept
  <2> QED BY <2>1, <2>2, <2>3
<1>12. CASE HostNext /\ UNCHANGED release
  <2>1. UNCHANGED horizon
    BY <1>12 DEF HostNext, MaintenanceOn, MaintenanceOff, RestartApp, FenceBegins, FenceHolds,
       FenceFails, MonitorRound, Recover, RecoverGivesWay, Recovered, RecoveryFails, Sicken, Tick
  <2> QED BY <1>3, <1>4, <1>5, <1>12, <2>1
          DEF release, client, github, requests, stack, disk, exports
<1>13. CASE UNCHANGED vars
  BY <1>3, <1>4, <1>5, <1>13 DEF vars, host, release, client, github, requests, stack, disk, exports
<1> QED BY <1>8, <1>9, <1>10, <1>11, <1>12, <1>13, Kinds

LEMMA BaseStays ==
  ASSUME Base, [Next]_vars
  PROVE  Base'
BY HeldStays, ApprovalStays, HostTypesStay, JobTypesStay, OtherTypesStay DEF Base, TypeOK, Watching

LEMMA BaseAlways == Spec => []Base
<1>1. ASSUME Init PROVE Base
  <2>1. /\ job \in [Jobs -> Job] /\ \A j \in Jobs : job[j].at = "idle"
    BY <1>1, IdleIsJob DEF Init, Idle
  <2>2. Held /\ Approval
    BY <1>1, <2>1 DEF Init, InitHost, Held, Approval, Busy, Past, Activation, Rollback
  <2>3. box \in [Names -> Container]
    BY <1>1, CodeIsCode DEF Init, InitHost, Container, States
  <2>4. monitor \in Watching /\ restarts \in Seq(0..clock)
    BY <1>1 DEF Init, InitHost, Watching, Rounds, MaxFailures
  <2>5. /\ horizon.clock \in Nat /\ horizon.uploads \in Nat /\ horizon.submissions \in Nat
        /\ horizon \in Horizons
    BY <1>1 DEF Init, InitHost
  <2>6. status \in [Commits -> Phases]
    BY <1>1 DEF Init, Phases
  <2>7. /\ uploads \in [Commits -> AnyCode \cup {NoBundle}]
        /\ tries \in [uploads : 0..horizon.uploads, submissions : 0..horizon.submissions]
    BY <1>1, <2>5 DEF Init
  <2>8. /\ lock = "free" /\ fenced = FALSE /\ maintenance = FALSE /\ fence = FALSE
        /\ clock \in 0..horizon.clock
    BY <1>1, <2>5 DEF Init, InitHost
  <2>9. /\ main = 0 /\ passed = {} /\ receiving = {} /\ dispatch = 0 /\ releases = {}
        /\ tree = Installed /\ latest = Installed /\ current = 0 /\ exporting = "free"
        /\ copied = Installed /\ wounded = FALSE
    BY <1>1 DEF Init
  <2>10. TypeOK
    BY <2>1, <2>3, <2>4, <2>5, <2>6, <2>7, <2>8, <2>9, CodeIsCode DEF TypeOK, Watching
  <2> QED BY <2>2, <2>10 DEF Base
<1> QED BY <1>1, BaseStays, PTL DEF Spec

\* What the host and the releases hold keeps its type.
THEOREM TypeCorrect == Spec => []TypeOK
<1>1. Base => TypeOK
  BY DEF Base
<1> QED BY <1>1, BaseAlways, PTL

-----------------------------------------------------------------------------
(* The fence.                                                              *)

\* A fenced host: its containers are stopped and told to stay so, and nobody who
\* has looked at the marks before they were written is still at work.
Fences ==
  /\ fence => fenced /\ \A n \in Names : box[n].state = "down" /\ ~box[n].restart
  /\ lock = "control" => fenced
  /\ \A j \in Jobs : job[j].at \in Past => ~fenced
  /\ monitor.at = "restarting" => ~fenced

LEMMA FencesStay ==
  ASSUME Base, Fences, [Next]_vars
  PROVE  Fences'
<1>1. /\ job \in [Jobs -> Job] /\ box \in [Names -> Container] /\ monitor \in Watching
      /\ fence \in BOOLEAN /\ fenced \in BOOLEAN /\ clock \in Nat
      /\ \A j \in Jobs : j # "free" /\ j # "control" /\ j # "monitor"
  <2>1. horizon.clock \in Nat
    BY DEF Base, TypeOK
  <2> QED BY <2>1 DEF Base, TypeOK, Watching
<1>2. "app" \in Names /\ Names = {"app", "support"}
  BY DEF Names
<1>3. \A n \in Names : box[n] \in Container
  BY <1>1
<1>4. ASSUME UNCHANGED <<fence, fenced, lock, job, monitor>>,
             fence => \A n \in Names : box'[n].state = "down" /\ ~box'[n].restart
      PROVE  Fences'
  BY <1>4 DEF Fences
<1>5. ASSUME NEW n \in Names, NEW s, box' = [box EXCEPT ![n].state = s],
             box[n].state # "down"
      PROVE  ~fence
  BY <1>5 DEF Fences
<1>6. CASE UNCHANGED <<host, job>>
  BY <1>6 DEF host, guards, watch, Fences
<1>7. CASE HostNext /\ UNCHANGED release
  <2>0. UNCHANGED job
    BY <1>7 DEF release
  <2>1. CASE MaintenanceOn \/ MaintenanceOff \/ MonitorRound \/ RecoverGivesWay \/ RecoveryFails \/ Tick
    <3>1. UNCHANGED <<fence, fenced, box>> /\ lock' \in {lock, "free"}
      BY <2>1 DEF MaintenanceOn, MaintenanceOff, MonitorRound, RecoverGivesWay, RecoveryFails,
         Tick, guards
    <3>2. monitor'.at = "restarting" => monitor.at = "restarting"
      <4>1. CASE MonitorRound
        <5>1. monitor'.at \in {"recover", "idle"}
          BY <4>1 DEF MonitorRound
        <5> QED BY <5>1
      <4>2. CASE RecoverGivesWay \/ RecoveryFails
        <5>1. monitor'.at = "idle"
          BY <1>1, <4>2 DEF RecoverGivesWay, RecoveryFails, Watching
        <5> QED BY <5>1
      <4>3. CASE MaintenanceOn \/ MaintenanceOff \/ Tick
        BY <4>3 DEF MaintenanceOn, MaintenanceOff, Tick, watch
      <4> QED BY <2>1, <4>1, <4>2, <4>3
    <3> QED BY <2>0, <3>1, <3>2 DEF Fences
  <2>2. CASE RestartApp \/ Sicken
    <3>1. /\ UNCHANGED <<fence, fenced, lock, monitor>> /\ box["app"].state # "down"
      BY <2>2 DEF RestartApp, Sicken, guards, watch
    <3>2. ~fence
      BY <1>2, <3>1 DEF Fences
    <3> QED BY <1>4, <2>0, <3>1, <3>2
  <2>3. CASE FenceBegins
    <3>1. lock = "free" /\ fenced' /\ UNCHANGED <<fence, box, monitor>> /\ lock' = "control"
      BY <2>3 DEF FenceBegins, watch
    <3>2. /\ \A j \in Jobs : job[j].at \notin Past
          /\ monitor.at # "restarting"
      BY <1>1, <3>1 DEF Base, Held, Busy
    <3> QED BY <2>0, <3>1, <3>2 DEF Fences
  <2>4. CASE FenceHolds
    <3>1. /\ lock = "control" /\ lock' = "free" /\ UNCHANGED <<fenced, monitor>>
          /\ box' = [n \in Names |-> [box[n] EXCEPT !.state = "down", !.restart = FALSE]]
      BY <2>4 DEF FenceHolds, guards, watch
    <3>2. \A n \in Names : box'[n].state = "down" /\ ~box'[n].restart
      BY <1>3, <3>1 DEF Container
    <3> QED BY <2>0, <3>1, <3>2 DEF Fences
  <2>5. CASE FenceFails
    <3>1. PICK stopped \in SUBSET Names, restart \in BOOLEAN :
            box' = [n \in Names |->
              [box[n] EXCEPT !.state = IF n \in stopped THEN "down" ELSE @,
                             !.restart = restart /\ @]]
      BY <2>5 DEF FenceFails
    <3>2. ASSUME fence, NEW n \in Names PROVE box'[n].state = "down" /\ ~box'[n].restart
      BY <1>3, <3>1, <3>2 DEF Container, Fences
    <3>3. lock' = "free" /\ UNCHANGED <<fenced, fence, monitor>>
      BY <2>5 DEF FenceFails, guards, watch
    <3> QED BY <2>0, <3>2, <3>3 DEF Fences
  <2>6. CASE Recover
    <3>1. UNCHANGED <<fence, fenced, box>> /\ lock' \in {lock, "monitor"}
      BY <2>6 DEF Recover, guards
    <3>2. monitor'.at = "restarting" => ~fenced
      <4>1. PICK fine \in BOOLEAN :
              \/ Decision(fine).act
              \/ monitor' = [monitor EXCEPT !.at = "idle"]
        BY <2>6 DEF Recover
      <4>2. Decision(fine).act => ~fenced
        BY <1>1, DecisionTypes DEF Guarded
      <4>3. monitor' = [monitor EXCEPT !.at = "idle"] => monitor'.at = "idle"
        BY <1>1 DEF Watching
      <4> QED BY <4>1, <4>2, <4>3
    <3> QED BY <2>0, <3>1, <3>2 DEF Fences
  <2>7. CASE Recovered
    <3>1. /\ monitor.at = "restarting" /\ UNCHANGED <<fence, fenced>> /\ lock' = "free"
          /\ monitor' = [monitor EXCEPT !.at = "idle"]
      BY <2>7 DEF Recovered, guards
    <3>2. ~fence /\ monitor'.at = "idle"
      BY <1>1, <3>1 DEF Fences, Watching
    <3> QED BY <2>0, <3>1, <3>2 DEF Fences
  <2> QED BY <1>7, <2>1, <2>2, <2>3, <2>4, <2>5, <2>6, <2>7 DEF HostNext
<1>8. CASE Reboot
  <2>1. /\ \A j \in Jobs : job'[j].at = "idle"
        /\ monitor'.at = "idle" /\ lock' = "free" /\ UNCHANGED <<fence, fenced>>
    BY <1>1, <1>8 DEF Reboot, Idle, guards, Watching
  <2>2. box' = [n \in Names |-> [box[n] EXCEPT !.state = IF box[n].restart THEN @ ELSE "down"]]
    BY <1>8 DEF Reboot
  <2>3. ASSUME fence, NEW n \in Names PROVE box'[n].state = "down" /\ ~box'[n].restart
    BY <1>3, <2>2, <2>3 DEF Container, Fences
  <2> QED BY <2>1, <2>3 DEF Fences, Past, Activation, Rollback
<1>9. ASSUME NEW j \in Jobs, Work(j) PROVE Fences'
  <2>1. /\ UNCHANGED <<fence, fenced, monitor>> /\ lock' \in {lock, "free", j}
        /\ UNCHANGED box \/ RestartWorkers(j)
    BY <1>9, WorkTouches DEF guards
  <2>2. job'[j].at \in Past => ~fenced
    <3>1. Stage(j) => ~fenced
      BY DEF Stage, Guarded
    <3>2. job'[j].at \in Past /\ ~Stage(j) => job[j].at \in Past
      BY <1>1, <1>9, PastComesFrom, PastStays
    <3> QED BY <3>1, <3>2 DEF Fences
  <2>3. RestartWorkers(j) => ~fenced
    BY DEF RestartWorkers, Fences, Past, Activation, Rollback
  <2>4. \A i \in Jobs : i # j => job'[i] = job[i]
    BY <1>1, <1>9, WorkOfOne
  <2> QED BY <1>1, <2>1, <2>2, <2>3, <2>4 DEF Fences
<1>10. CASE Requested /\ UNCHANGED <<host, job, stack>>
  BY <1>6, <1>10
<1>11. CASE (BeginExport \/ EndExport) /\ UNCHANGED <<host, client, status, job>>
  BY <1>6, <1>11
<1> QED BY <1>6, <1>7, <1>8, <1>9, <1>10, <1>11, Kinds DEF vars, release

\* Nothing on a host whose fence was verified starts a worker again: neither a
\* release that was under way, nor the recovery, nor the administrator, nor a
\* reboot (control.py:29-48, neyro-release.py:205-206, monitor.py:137-147).
THEOREM FenceHoldsForGood == Spec => []FencedStaysDown
<1>1. Init => Fences
  <2>1. Init => \A j \in Jobs : job[j].at = "idle"
    BY DEF Init, Idle
  <2> QED BY <2>1 DEF Init, InitHost, Fences, Past, Activation, Rollback
<1>2. Fences => FencedStaysDown
  BY DEF Fences, FencedStaysDown
<1> QED BY <1>1, <1>2, BaseAlways, FencesStay, PTL DEF Spec

-----------------------------------------------------------------------------
(* What is installed.                                                      *)

\* The steps of the host and the reboots leave the images.
LEMMA ImagesStay ==
  ASSUME box \in [Names -> Container], HostNext \/ Reboot
  PROVE  box' = [n \in Names |-> box'[n]] /\ \A n \in Names : box'[n].image = box[n].image
<1>1. \A n \in Names : box[n] \in Container
  OBVIOUS
<1>2. CASE UNCHANGED box
  BY <1>2
<1>3. CASE RestartApp \/ Sicken \/ Recovered
  <2>1. PICK s \in {"up", "sick"} : box' = [box EXCEPT !["app"].state = s]
    BY <1>3 DEF RestartApp, Sicken, Recovered, Restart
  <2>2. \A n \in Names : [box[n] EXCEPT !.state = s].image = box[n].image
    BY <1>1 DEF Container
  <2>3. \A n \in Names : box'[n] \in {box[n], [box[n] EXCEPT !.state = s]}
    BY <2>1
  <2> QED BY <2>1, <2>2, <2>3
<1>4. CASE FenceHolds
  BY <1>1, <1>4 DEF FenceHolds, Container
<1>5. CASE FenceFails
  <2>1. PICK stopped \in SUBSET Names, restart \in BOOLEAN :
          box' = [n \in Names |->
            [box[n] EXCEPT !.state = IF n \in stopped THEN "down" ELSE @,
                           !.restart = restart /\ @]]
    BY <1>5 DEF FenceFails
  <2> QED BY <1>1, <2>1 DEF Container
<1>6. CASE Reboot
  BY <1>1, <1>6 DEF Reboot, Container
<1>7. CASE MaintenanceOn \/ MaintenanceOff \/ FenceBegins \/ MonitorRound \/ Recover
             \/ RecoverGivesWay \/ RecoveryFails \/ Tick
  BY <1>2, <1>7 DEF MaintenanceOn, MaintenanceOff, FenceBegins, MonitorRound, Recover,
     RecoverGivesWay, RecoveryFails, Tick
<1> QED BY <1>3, <1>4, <1>5, <1>6, <1>7 DEF HostNext

\* What a worker puts into a container.
LEMMA RestartedImages ==
  ASSUME box \in [Names -> Container], NEW j \in Jobs, RestartWorkers(j)
  PROVE  /\ job[j].at = "app" => /\ box'["app"].image = latest
                                 /\ box'["support"] = box["support"]
         /\ job[j].at = "support" => /\ box'["support"].image = latest
                                     /\ box'["app"] = box["app"]
         /\ job[j].at = "unapp" => /\ box'["app"].image = job[j].images["app"]
                                   /\ box'["support"] = box["support"]
         /\ job[j].at = "unsupport" => /\ box'["support"].image = job[j].images["support"]
                                       /\ box'["app"] = box["app"]
         /\ job[j].at \in {"app", "support", "unapp", "unsupport"}
<1>1. ASSUME NEW n \in Names, NEW image, NEW next, Recreate(j, n, image, next)
      PROVE  box'[n].image = image /\ \A m \in Names : m # n => box'[m] = box[m]
  BY <1>1 DEF Recreate
<1>2. "app" \in Names /\ "support" \in Names
  BY DEF Names
<1> QED BY <1>1, <1>2 DEF RestartWorkers

Allowed == {Installed} \cup {Code(c) : c \in passed}

\* The images, and what a worker that has been admitted may put back.
Clean ==
  /\ latest \in Allowed /\ tree \in Allowed \cup {Half}
  /\ \A n \in Names : box[n].image \in Allowed
  /\ \A j \in Jobs : job[j].at \in Past =>
       job[j].source \in Allowed \cup {Half} /\ \A n \in Names : job[j].images[n] \in Allowed

LEMMA CleanStays ==
  ASSUME Base, Clean, [Next]_vars
  PROVE  Clean'
<1>1. /\ job \in [Jobs -> Job] /\ box \in [Names -> Container] /\ Approval
      /\ Names = {"app", "support"}
  BY DEF Base, TypeOK, Names
<1>2. ASSUME passed \subseteq passed' PROVE Allowed \subseteq Allowed'
  BY <1>2 DEF Allowed
<1>3. ASSUME passed \subseteq passed', UNCHANGED <<latest, tree, job>>,
             \A n \in Names : box'[n].image = box[n].image
      PROVE  Clean'
  BY <1>2, <1>3 DEF Clean
<1>4. CASE HostNext /\ UNCHANGED release
  BY <1>1, <1>3, <1>4, ImagesStay DEF release, client, github, stack, disk
<1>5. CASE Requested /\ UNCHANGED <<host, job, stack>>
  <2>1. passed \subseteq passed'
    BY <1>5 DEF Requested, Push, LaunchFails, BeginUpload, Submit, EndUpload, AbandonUpload, github
  <2> QED BY <1>3, <1>5, <2>1 DEF host, stack, disk
<1>6. CASE (BeginExport \/ EndExport) /\ UNCHANGED <<host, client, status, job>>
  BY <1>3, <1>6 DEF BeginExport, EndExport, host, client, github, disk
<1>7. CASE Reboot
  <2>1. UNCHANGED <<passed, latest, tree>> /\ \A n \in Names : box'[n].image = box[n].image
    BY <1>1, <1>7, ImagesStay DEF Reboot, github, disk
  <2>2. \A j \in Jobs : job'[j].at = "idle"
    BY <1>7 DEF Reboot, Idle
  <2>3. Allowed' = Allowed
    BY <2>1 DEF Allowed
  <2> QED BY <2>1, <2>2, <2>3 DEF Clean, Past, Activation, Rollback
<1>8. ASSUME NEW j \in Jobs, Work(j) PROVE Clean'
  <2>1. UNCHANGED passed /\ Allowed' = Allowed
    BY <1>8, WorkTouches DEF Allowed
  <2>2. \A i \in Jobs : i # j => job'[i] = job[i]
    BY <1>1, <1>8, WorkOfOne
  <2>3. job[j].at \in Past => job[j].files \in Allowed
    BY <1>1 DEF Approval, Allowed
  <2>4. latest' \in Allowed
    <3>1. ASSUME Tag(j) PROVE latest' \in Allowed
      BY <1>1, <2>3, <3>1 DEF Tag, Clean, Past, Activation, Rollback
    <3> QED BY <1>8, <3>1, WorkTouches DEF Clean
  <2>5. tree' \in Allowed \cup {Half}
    <3>1. ASSUME Synchronize(j) PROVE tree' \in Allowed \cup {Half}
      BY <2>3, <3>1 DEF Synchronize, Replace, Past, Activation
    <3>2. ASSUME Restore(j) PROVE tree' \in Allowed \cup {Half}
      BY <3>2 DEF Restore, Replace, Clean, Past, Rollback
    <3> QED BY <1>8, <3>1, <3>2, WorkTouches DEF Clean
  <2>6. \A n \in Names : box'[n].image \in Allowed
    <3>1. ASSUME RestartWorkers(j) PROVE \A n \in Names : box'[n].image \in Allowed
      BY <1>1, <3>1, RestartedImages DEF Clean, Past, Activation, Rollback
    <3> QED BY <1>8, <3>1, WorkTouches DEF Clean
  <2>7. ASSUME job'[j].at \in Past
        PROVE  /\ job'[j].source \in Allowed \cup {Half}
               /\ \A n \in Names : job'[j].images[n] \in Allowed
    <3>1. CASE Stage(j)
      <4>1. job'[j].source = tree /\ job'[j].images = [n \in Names |-> box[n].image]
        BY <1>1, <1>8, <3>1, WorkKeeps
      <4> QED BY <4>1 DEF Clean
    <3>2. CASE ~Stage(j)
      <4>1. /\ job[j].at \in Past \cup {"record", "report"}
            /\ Carried(job'[j]) = Carried(job[j])
        BY <1>1, <1>8, <2>7, <3>2, PastComesFrom, WorkKeeps
      <4>2. job[j].at \notin {"record", "report"}
        BY <1>1, <1>8, <2>7, PastStays
      <4> QED BY <4>1, <4>2 DEF Clean, Carried
    <3> QED BY <3>1, <3>2
  <2> QED BY <2>1, <2>2, <2>4, <2>5, <2>6, <2>7 DEF Clean
<1>9. CASE UNCHANGED vars
  BY <1>3, <1>9 DEF vars, host, release, client, github, stack, disk
<1> QED BY <1>4, <1>5, <1>6, <1>7, <1>8, <1>9, Kinds

\* What runs, and what is installed to run, was committed to main and has passed
\* its checks, byte for byte, whatever is uploaded over a bundle that was
\* submitted, and whatever is rolled back (neyro-release.py:75-101).
THEOREM OnlyApprovedRuns == Spec => []OnlyApprovedCode
<1>1. Init => Clean
  <2>1. Init => \A j \in Jobs : job[j].at = "idle"
    BY DEF Init, Idle
  <2> QED BY <2>1 DEF Init, InitHost, Clean, Allowed, Past, Activation, Rollback
<1>2. Clean => OnlyApprovedCode
  BY DEF Clean, OnlyApprovedCode, Allowed
<1> QED BY <1>1, <1>2, BaseAlways, CleanStays, PTL DEF Spec

-----------------------------------------------------------------------------
(* One version at a time.                                                  *)

\* What a worker has put in place, step by step, and what it goes back to.
Shown(j) ==
  /\ job[j].at \in {"tag", "app", "support", "check", "record", "report"} => tree = job[j].files
  /\ job[j].at \in {"app", "support", "check", "record", "report"} => latest = job[j].files
  /\ job[j].at \in {"support", "check", "record", "report"} => box["app"].image = job[j].files
  /\ job[j].at \in {"check", "record", "report"} => box["support"].image = job[j].files
  /\ job[j].at = "report" => current = job[j].commit
  /\ job[j].at \in {"retag", "unapp", "unsupport", "recheck"} => tree = job[j].source
  /\ job[j].at \in {"unapp", "unsupport", "recheck"} => latest = job[j].images["app"]
  /\ job[j].at \in {"unsupport", "recheck"} => box["app"].image = job[j].images["app"]
  /\ job[j].at = "recheck" => box["support"].image = job[j].images["support"]
  /\ job[j].at \in Past /\ ~wounded =>
       job[j].source \in AnyCode /\ \A n \in Names : job[j].images[n] = job[j].source

Progress == OneVersion /\ \A j \in Jobs : Shown(j)

LEMMA ShownStays ==
  ASSUME NEW j \in Jobs, Shown(j), UNCHANGED <<tree, latest, current, wounded>>,
         job'[j] = job[j], \A n \in Names : box'[n].image = box[n].image
  PROVE  Shown(j)'
<1>1. "app" \in Names /\ "support" \in Names
  BY DEF Names
<1> QED BY <1>1 DEF Shown

\* While one worker is busy another can only be admitted to nothing.
LEMMA Alone ==
  ASSUME Held, NEW i \in Jobs, NEW j \in Jobs, i # j, job[i].at \in Busy, Work(j)
  PROVE  UNCHANGED <<tree, latest, current, wounded, box>>
<1>1. job[j].at \notin Busy
  BY DEF Held
<1>2. /\ ~Synchronize(j) /\ ~Restore(j) /\ ~Tag(j) /\ ~RestartWorkers(j) /\ ~Activated(j)
      /\ ~RollbackFails(j) /\ ~Record(j)
  BY <1>1 DEF Synchronize, Restore, Replace, Tag, RestartWorkers, Activated, RollbackFails, Record,
     Busy, Past, Activation, Rollback
<1> QED BY <1>2, WorkTouches

\* A worker with the lock is the only one that is busy.
LEMMA OnlyOne ==
  ASSUME Held, NEW j \in Jobs, job[j].at \in Busy
  PROVE  \A i \in Jobs : i # j => job[i].at \notin Busy
BY DEF Held

LEMMA WorkerShows ==
  ASSUME Base, Progress, NEW j \in Jobs, Work(j)
  PROVE  Shown(j)'
<1>1. /\ job \in [Jobs -> Job] /\ box \in [Names -> Container] /\ Approval /\ Held
      /\ "app" \in Names /\ "support" \in Names /\ Names = {"app", "support"}
  BY DEF Base, TypeOK, Names
<1>2. Shown(j)
  BY DEF Progress
<1>3. ASSUME job'[j].at \in {"idle", "start", "read", "verify"} PROVE Shown(j)'
  BY <1>3 DEF Shown, Past, Activation, Rollback
<1>4. CASE Launch(j) \/ ReadBundle(j)
  BY <1>1, <1>3, <1>4, WorkKeeps
<1>5. ASSUME job'[j] = Idle PROVE Shown(j)'
  BY <1>3, <1>5 DEF Idle
<1>6. ASSUME ~Launch(j), ~ReadBundle(j), ~Stage(j), job'[j] # Idle, NEW pc, At(j, pc)
      PROVE  /\ job'[j].at = pc
             /\ job'[j].commit = job[j].commit /\ job'[j].files = job[j].files
             /\ job'[j].source = job[j].source /\ job'[j].images = job[j].images
  <2>1. job'[j] = [job[j] EXCEPT !.at = pc]
    BY <1>1, <1>6 DEF At
  <2> QED BY <1>1, <2>1 DEF Job
<1>7. CASE Stage(j)
  <2>1. /\ job'[j].source = tree /\ job'[j].images = [n \in Names |-> box[n].image]
        /\ job'[j].at = "backup"
    BY <1>1, <1>7, WorkKeeps
  <2>2. UNCHANGED <<tree, box, wounded>> /\ job[j].at = "verify"
    BY <1>7 DEF Stage, disk, host
  <2>3. \A i \in Jobs : job[i].at \notin Activation \cup Rollback
    BY <1>1, <2>2, OnlyOne DEF Busy, Past, Activation, Rollback
  <2>4. ~wounded => \E code \in AnyCode : tree = code /\ \A n \in Names : box[n].image = code
    BY <2>3 DEF Progress, OneVersion, Serves
  <2> QED BY <2>1, <2>2, <2>4 DEF Shown, Past
<1>8. CASE Begin(j)
  <2>1. At(j, "read") \/ job' = [job EXCEPT ![j] = Idle]
    BY <1>8 DEF Begin, GiveUp
  <2>2. At(j, "read") => job'[j].at = "read"
    BY <1>1 DEF At, Job
  <2> QED BY <1>1, <1>3, <1>5, <2>1, <2>2
<1>9. CASE Refused(j) \/ RollbackFails(j) \/ RecordFails(j) \/ RolledBack(j) \/ Report(j)
  BY <1>1, <1>5, <1>9 DEF Refused, RollbackFails, RecordFails, RolledBack, Report, GiveUp
<1> DEFINE Keeps == /\ job'[j].commit = job[j].commit /\ job'[j].files = job[j].files
                    /\ job'[j].source = job[j].source /\ job'[j].images = job[j].images
           Other == ~Launch(j) /\ ~ReadBundle(j) /\ ~Stage(j) /\ job'[j] # Idle
<1>10. CASE Other /\ (Backup(j) \/ Freeze(j))
  <2>1. /\ job[j].at \in Past /\ job'[j].at \in {"build", "sync"} /\ Keeps
        /\ UNCHANGED <<tree, latest, current, wounded, box>>
    BY <1>6, <1>10 DEF Backup, Freeze, stack, disk, host, Past
  <2> QED BY <1>2, <2>1 DEF Shown, Past, Activation
<1>11. CASE Other /\ RollBack(j)
  <2>1. /\ job[j].at \in Past /\ job'[j].at = "undo" /\ Keeps
        /\ UNCHANGED <<tree, latest, current, wounded, box>>
    BY <1>6, <1>11 DEF RollBack, stack, disk, host, Past
  <2> QED BY <1>2, <2>1 DEF Shown, Past, Rollback
<1>12. CASE Other /\ Activated(j)
  <2>1. /\ job[j].at = "check" /\ job'[j].at = "record" /\ Keeps
        /\ UNCHANGED <<tree, latest, current, box>>
    BY <1>6, <1>12 DEF Activated, disk, host
  <2> QED BY <1>2, <2>1 DEF Shown, Past, Activation, Rollback
<1>13. CASE Other /\ Record(j)
  <2>1. /\ job[j].at = "record" /\ job'[j].at = "report" /\ Keeps
        /\ UNCHANGED <<tree, latest, wounded, box>> /\ current' = job[j].commit
    BY <1>6, <1>13 DEF Record, host
  <2> QED BY <1>2, <2>1 DEF Shown, Past, Activation, Rollback
<1>14. CASE Other /\ Synchronize(j)
  <2>1. /\ Keeps /\ UNCHANGED <<latest, current, wounded, box>> /\ job[j].at \in Past
        /\ \/ job'[j].at = "synced"
           \/ job'[j].at = "tag" /\ tree' = job[j].files
    <3>1. At(j, "synced") \/ (At(j, "tag") /\ tree' = job[j].files)
      BY <1>14 DEF Synchronize, Replace
    <3>2. job[j].at \in Past /\ UNCHANGED <<latest, current, wounded, box>>
      BY <1>14 DEF Synchronize, Replace, host, Past, Activation
    <3> QED BY <1>6, <1>14, <3>1, <3>2
  <2> QED BY <1>2, <2>1 DEF Shown, Past, Activation
<1>15. CASE Other /\ Restore(j)
  <2>1. /\ Keeps /\ UNCHANGED <<latest, current, wounded, box>> /\ job[j].at \in Past
        /\ \/ job'[j].at = "undoing"
           \/ job'[j].at = "retag" /\ tree' = job[j].source
    <3>1. At(j, "undoing") \/ (At(j, "retag") /\ tree' = job[j].source)
      BY <1>15 DEF Restore, Replace
    <3>2. job[j].at \in Past /\ UNCHANGED <<latest, current, wounded, box>>
      BY <1>15 DEF Restore, Replace, host, Past, Rollback
    <3> QED BY <1>6, <1>15, <3>1, <3>2
  <2> QED BY <1>2, <2>1 DEF Shown, Past, Rollback
<1>16. CASE Other /\ Tag(j)
  <2>1. /\ Keeps /\ UNCHANGED <<tree, current, wounded, box>> /\ job[j].at \in Past
        /\ \/ job[j].at = "tag" /\ job'[j].at = "app" /\ latest' = job[j].files
           \/ job[j].at = "retag" /\ job'[j].at = "unapp" /\ latest' = job[j].images["app"]
    BY <1>6, <1>16 DEF Tag, host, Past, Activation, Rollback
  <2> QED BY <1>2, <2>1 DEF Shown, Past, Activation, Rollback
<1>17. CASE Other /\ RestartWorkers(j)
  <2>1. /\ Keeps /\ UNCHANGED <<tree, latest, current, wounded>> /\ job[j].at \in Past
        /\ \/ job[j].at = "app" /\ job'[j].at = "support"
           \/ job[j].at = "support" /\ job'[j].at = "check"
           \/ job[j].at = "unapp" /\ job'[j].at = "unsupport"
           \/ job[j].at = "unsupport" /\ job'[j].at = "recheck"
    BY <1>6, <1>17 DEF RestartWorkers, Recreate, stack, disk, Past, Activation, Rollback
  <2>2. CASE job[j].at = "app"
    BY <1>1, <1>2, <1>17, <2>1, <2>2, RestartedImages DEF Shown, Past, Activation
  <2>3. CASE job[j].at = "support"
    BY <1>1, <1>2, <1>17, <2>1, <2>3, RestartedImages DEF Shown, Past, Activation
  <2>4. CASE job[j].at = "unapp"
    BY <1>1, <1>2, <1>17, <2>1, <2>4, RestartedImages DEF Shown, Past, Rollback
  <2>5. CASE job[j].at = "unsupport"
    BY <1>1, <1>2, <1>17, <2>1, <2>5, RestartedImages DEF Shown, Past, Rollback
  <2> QED BY <2>1, <2>2, <2>3, <2>4, <2>5
<1> QED BY <1>4, <1>5, <1>7, <1>8, <1>9, <1>10, <1>11, <1>12, <1>13, <1>14, <1>15, <1>16, <1>17
        DEF Work

LEMMA ProgressStays ==
  ASSUME Base, Progress, [Next]_vars
  PROVE  Progress'
<1>1. /\ job \in [Jobs -> Job] /\ box \in [Names -> Container] /\ Approval /\ Held
      /\ Names = {"app", "support"}
  BY DEF Base, TypeOK, Names
<1>2. ASSUME UNCHANGED <<tree, latest, current, wounded, job>>,
             \A n \in Names : box'[n].image = box[n].image
      PROVE  Progress'
  <2>1. \A code : Serves(code) => Serves(code)'
    BY <1>2 DEF Serves
  <2>2. OneVersion'
    BY <1>2, <2>1 DEF Progress, OneVersion
  <2> QED BY <1>2, <2>2, ShownStays DEF Progress
<1>3. CASE HostNext /\ UNCHANGED release
  BY <1>1, <1>2, <1>3, ImagesStay DEF release, stack, disk
<1>4. CASE Requested /\ UNCHANGED <<host, job, stack>>
  BY <1>2, <1>4 DEF host, stack, disk
<1>5. CASE (BeginExport \/ EndExport) /\ UNCHANGED <<host, client, status, job>>
  BY <1>2, <1>5 DEF BeginExport, EndExport, host, disk
<1>6. CASE Reboot
  <2>1. UNCHANGED <<latest, tree>> /\ \A n \in Names : box'[n].image = box[n].image
    BY <1>1, <1>6, ImagesStay DEF Reboot, disk
  <2>2. \A j \in Jobs : job'[j].at = "idle"
    BY <1>6 DEF Reboot, Idle
  <2>3. \A code : Serves(code) => Serves(code)'
    BY <2>1 DEF Serves
  <2>4. wounded' <=> (wounded \/ \E j \in Jobs : job[j].at \in Activation \cup Rollback)
    BY <1>6 DEF Reboot, Base, TypeOK
  <2>5. OneVersion'
    BY <2>3, <2>4 DEF Progress, OneVersion
  <2>6. \A j \in Jobs : Shown(j)'
    BY <2>2 DEF Shown, Past, Activation, Rollback
  <2> QED BY <2>5, <2>6 DEF Progress
<1>7. ASSUME NEW j \in Jobs, Work(j) PROVE Progress'
  <2>1. \A i \in Jobs : i # j => job'[i] = job[i]
    BY <1>1, <1>7, WorkOfOne
  <2>2. ASSUME NEW i \in Jobs, i # j PROVE Shown(i)'
    <3>1. CASE job[i].at \in Busy
      BY <1>1, <1>7, <2>1, <2>2, <3>1, Alone, ShownStays DEF Progress
    <3>2. CASE job[i].at \notin Busy
      BY <2>1, <2>2, <3>2 DEF Shown, Busy, Past, Activation, Rollback
    <3> QED BY <3>1, <3>2
  <2>3. Shown(j)'
    BY <1>7, WorkerShows
  <2>4. OneVersion'
    <3> SUFFICES ASSUME ~wounded', \A i \in Jobs : job'[i].at \notin Activation \cup Rollback
                 PROVE  \E code \in AnyCode : Serves(code)'
      BY DEF OneVersion
    <3>1. CASE job[j].at \notin Activation \cup Rollback
      <4>1. \A i \in Jobs : job[i].at \notin Activation \cup Rollback
        BY <2>1, <3>1
      <4>2. UNCHANGED <<tree, latest, wounded, box>>
        <5>1. /\ ~Synchronize(j) /\ ~Restore(j) /\ ~Tag(j) /\ ~RestartWorkers(j) /\ ~Activated(j)
              /\ ~RollbackFails(j)
          BY <3>1 DEF Synchronize, Restore, Replace, Tag, RestartWorkers, Activated,
             RollbackFails, Activation, Rollback
        <5> QED BY <1>7, <5>1, WorkTouches
      <4>3. PICK code \in AnyCode : Serves(code)
        BY <4>1, <4>2 DEF Progress, OneVersion
      <4> QED BY <4>2, <4>3 DEF Serves
    <3>2. CASE job[j].at \in Activation \cup Rollback
      <4>1. Activated(j) \/ RolledBack(j)
        <5>1. ~RollbackFails(j)
          BY DEF RollbackFails
        <5>2. ~(Synchronize(j) \/ Restore(j) \/ Tag(j) \/ RestartWorkers(j) \/ RollBack(j))
          <6>1. ASSUME NEW pc \in Activation \cup Rollback PROVE ~At(j, pc)
            BY <1>1, <6>1 DEF At, Job
          <6> QED BY <6>1 DEF Synchronize, Restore, Replace, Tag, RestartWorkers, Recreate,
                  RollBack, Activation, Rollback
        <5>3. ~(Launch(j) \/ Begin(j) \/ ReadBundle(j) \/ Stage(j) \/ Backup(j) \/ Freeze(j)
                  \/ Refused(j) \/ Record(j) \/ Report(j) \/ RecordFails(j))
          BY <3>2 DEF Launch, Begin, ReadBundle, Stage, Backup, Freeze, Refused, Record, Report,
             RecordFails, Activation, Rollback
        <5> QED BY <1>7, <5>1, <5>2, <5>3 DEF Work
      <4>2. UNCHANGED <<tree, latest, box>>
        BY <4>1 DEF Activated, RolledBack, host, unlocked, disk
      <4>3. CASE Activated(j)
        <5>1. /\ job[j].at = "check" /\ Shown(j)
          BY <4>3 DEF Activated, Progress
        <5>2. Serves(job[j].files)
          BY <1>1, <5>1 DEF Shown, Serves
        <5>3. job[j].files \in AnyCode
          BY <1>1, <5>1, CodeIsCode DEF Approval, Past, Activation
        <5> QED BY <4>2, <5>2, <5>3 DEF Serves
      <4>4. CASE RolledBack(j)
        <5>1. /\ job[j].at = "recheck" /\ Shown(j) /\ ~wounded
          BY <4>4 DEF RolledBack, Progress
        <5>2. /\ job[j].source \in AnyCode
              /\ \A n \in Names : job[j].images[n] = job[j].source
          BY <5>1 DEF Shown, Past, Rollback
        <5>3. Serves(job[j].source)
          BY <1>1, <5>1, <5>2 DEF Shown, Serves
        <5> QED BY <4>2, <5>2, <5>3 DEF Serves
      <4> QED BY <4>1, <4>3, <4>4
    <3> QED BY <3>1, <3>2
  <2> QED BY <2>2, <2>3, <2>4 DEF Progress
<1>8. CASE UNCHANGED vars
  BY <1>2, <1>8 DEF vars, host, release, stack, disk
<1> QED BY <1>3, <1>4, <1>5, <1>6, <1>7, <1>8, Kinds

LEMMA ProgressAlways == Spec => []Progress
<1>1. Init => Progress
  <2>1. Init => \A j \in Jobs : job[j].at = "idle"
    BY DEF Init, Idle
  <2>2. Init => Serves(Installed)
    BY DEF Init, InitHost, Serves
  <2> QED BY <2>1, <2>2, CodeIsCode
          DEF Progress, OneVersion, Shown, Past, Activation, Rollback
<1> QED BY <1>1, BaseAlways, ProgressStays, PTL DEF Spec

\* Between releases the source, the tag and both containers are one version,
\* unless an activation was killed or its rollback failed: no error on the way of
\* a release leaves parts of two (neyro-release.py:124-138, 178-190, 241-253).
THEOREM PartsOfOneVersion == Spec => []OneVersion
<1>1. Progress => OneVersion
  BY DEF Progress
<1> QED BY <1>1, ProgressAlways, PTL

\* What the end of a release reports is so when it is written: after a success the
\* host serves the commit, after a rollback what the release had found, and runs
\* (neyro-release.py:184-190, 196-197, 247-256).
THEOREM ReportsAreTrue == Spec => StatusIsTrue
<1> DEFINE Truth(c) ==
      /\ Reports(c, "healthy") => Serves(Code(c)) /\ current = c
      /\ Reports(c, "rolled_back") =>
           \E j \in Jobs :
             /\ job[j].commit = c /\ tree = job[j].source /\ latest = job[j].images["app"]
             /\ \A n \in Names : box[n].image = job[j].images[n] /\ box[n].state = "up"
<1>1. ASSUME Base, Progress, [Next]_vars PROVE [\A c \in Commits : Truth(c)]_vars
  <2> SUFFICES ASSUME NEW c \in Commits PROVE Truth(c)
    OBVIOUS
  <2>1. /\ status \in [Commits -> Phases] /\ Names = {"app", "support"} /\ Approval
    BY <1>1 DEF Base, TypeOK, Names
  <2>2. ASSUME NEW d \in Commits, NEW p, p # "healthy", p # "rolled_back",
               status' \in {status, [status EXCEPT ![d] = p]}
        PROVE  Truth(c)
    BY <2>1, <2>2 DEF Reports
  <2>3. ASSUME UNCHANGED status PROVE Truth(c)
    BY <2>3 DEF Reports
  <2> HIDE DEF Truth
  <2>4. CASE Requested
    <3>1. ASSUME NEW d \in Commits, Submit(d) PROVE Truth(c)
      BY <2>1, <2>2, <3>1 DEF Submit, Say
    <3>2. ASSUME LaunchFails PROVE Truth(c)
      <4>1. dispatch \in Commits
        BY <1>1, <3>2 DEF LaunchFails, Base, TypeOK
      <4> QED BY <2>2, <3>2, <4>1 DEF LaunchFails
    <3>3. ASSUME Requested, ~LaunchFails, ~\E d \in Commits : Submit(d) PROVE UNCHANGED status
      BY <3>3 DEF Requested, Push, BeginUpload, EndUpload, AbandonUpload
    <3> QED BY <2>3, <2>4, <3>1, <3>2, <3>3
  <2>5. ASSUME NEW j \in Jobs, Work(j) PROVE Truth(c)
    <3>1. /\ Shown(j) /\ dispatch \in Commits \cup {0}
          /\ job[j].at # "idle" => job[j].commit \in Commits
      BY <1>1, <2>1 DEF Progress, Base, TypeOK, Approval
    <3>2. CASE Report(j)
      <4>1. /\ job[j].at = "report" /\ status' = [status EXCEPT ![job[j].commit] = "healthy"]
        BY <3>2 DEF Report, Say
      <4>2. job[j].files = Code(job[j].commit)
        BY <2>1, <4>1 DEF Approval
      <4>3. Serves(Code(job[j].commit)) /\ current = job[j].commit
        BY <2>1, <3>1, <4>1, <4>2 DEF Shown, Serves
      <4> QED BY <2>1, <4>1, <4>3 DEF Truth, Reports
    <3>3. CASE RolledBack(j)
      <4>1. /\ job[j].at = "recheck" /\ Healthy
            /\ status' = [status EXCEPT ![job[j].commit] = "rolled_back"]
        BY <3>3 DEF RolledBack, Say
      <4>2. /\ tree = job[j].source /\ latest = job[j].images["app"]
            /\ \A n \in Names : box[n].image = job[j].images[n] /\ box[n].state = "up"
        BY <2>1, <3>1, <4>1 DEF Shown, Healthy
      <4> QED BY <2>1, <4>1, <4>2 DEF Truth, Reports
    <3>4. CASE Launch(j)
      <4>1. dispatch \in Commits /\ status' \in {status, [status EXCEPT ![dispatch] = "could_not_start"]}
        BY <3>1, <3>4 DEF Launch
      <4> QED BY <2>2, <4>1
    <3>5. CASE Begin(j) \/ Refused(j) \/ RollbackFails(j) \/ RecordFails(j)
      <4>1. job[j].commit \in Commits
        BY <3>1, <3>5 DEF Begin, Refused, RollbackFails, RecordFails, Rollback
      <4>2. \E p \in {"validate", "see_server_log"} :
              status' \in {status, [status EXCEPT ![job[j].commit] = p]}
        BY <3>5 DEF Begin, Refused, RollbackFails, RecordFails, GiveUp, Say
      <4> QED BY <2>2, <4>1, <4>2
    <3>6. CASE Stage(j) \/ Backup(j) \/ Freeze(j) \/ RollBack(j)
      <4>1. job[j].commit \in Commits
        BY <3>1, <3>6 DEF Stage, Backup, Freeze, RollBack, Activation
      <4>2. \E p \in {"backup", "build", "activate", "rollback"} :
              status' \in {status, [status EXCEPT ![job[j].commit] = p]}
        BY <3>6 DEF Stage, Backup, Freeze, RollBack, Say
      <4> QED BY <2>2, <4>1, <4>2
    <3>7. CASE ReadBundle(j) \/ Synchronize(j) \/ Tag(j) \/ RestartWorkers(j) \/ Activated(j)
                 \/ Restore(j) \/ Record(j)
      BY <2>3, <3>7 DEF ReadBundle, Synchronize, Tag, RestartWorkers, Activated, Restore, Record
    <3> QED BY <2>5, <3>2, <3>3, <3>4, <3>5, <3>6, <3>7 DEF Work
  <2>6. CASE (HostNext /\ UNCHANGED release) \/ Reboot \/ UNCHANGED vars
               \/ UNCHANGED <<host, client, status, job>>
    BY <2>3, <2>6 DEF release, Reboot, vars
  <2> QED BY <1>1, <2>4, <2>5, <2>6, Kinds
<1> QED BY <1>1, BaseAlways, ProgressAlways, PTL DEF Spec, StatusIsTrue

\* What an export goes by is not replaced under it: it takes its lock when no
\* activation holds it, and holds it to the end.
LEMMA ExportsStay ==
  ASSUME Base, Progress, SnapshotsAgree, [Next]_vars
  PROVE  SnapshotsAgree'
<1>1. /\ job \in [Jobs -> Job] /\ box \in [Names -> Container] /\ Held
      /\ "app" \in Names /\ \A j \in Jobs : j # "free" /\ j # "export"
  BY DEF Base, TypeOK, Names
<1>2. ASSUME UNCHANGED <<exporting, copied, wounded>>, box'["app"].image = box["app"].image
      PROVE  SnapshotsAgree'
  BY <1>2 DEF SnapshotsAgree
<1>3. CASE HostNext /\ UNCHANGED release
  BY <1>1, <1>2, <1>3, ImagesStay DEF release, stack, exports
<1>4. CASE BeginExport
  <2>1. /\ exporting = "free" /\ copied' = tree /\ UNCHANGED <<wounded, box>>
    BY <1>4 DEF BeginExport, host
  <2>2. \A j \in Jobs : job[j].at \notin Activation \cup Rollback
    BY <1>1, <2>1 DEF Held
  <2>3. ~wounded => tree = box["app"].image
    BY <1>1, <2>2 DEF Progress, OneVersion, Serves
  <2> QED BY <2>1, <2>3 DEF SnapshotsAgree
<1>5. CASE EndExport \/ Reboot
  BY <1>5 DEF EndExport, Reboot, SnapshotsAgree
<1>6. ASSUME NEW j \in Jobs, Work(j) PROVE SnapshotsAgree'
  <2> SUFFICES ASSUME exporting' = "export", ~wounded' PROVE copied' = box'["app"].image
    BY DEF SnapshotsAgree
  <2>1. exporting = "export" /\ UNCHANGED copied
    BY <1>1, <1>6, WorkTouches
  <2>2. job[j].at \notin Activation \cup Rollback
    BY <1>1, <2>1 DEF Held
  <2>3. /\ ~RestartWorkers(j) /\ ~Activated(j) /\ ~RollbackFails(j)
    BY <2>2 DEF RestartWorkers, Activated, RollbackFails, Activation, Rollback
  <2> QED BY <1>6, <2>1, <2>3, WorkTouches DEF SnapshotsAgree
<1>7. CASE Requested /\ UNCHANGED <<host, job, stack>>
  BY <1>2, <1>7 DEF host, stack, exports
<1>8. CASE UNCHANGED vars
  BY <1>2, <1>8 DEF vars, host, release, stack, exports
<1> QED BY <1>3, <1>4, <1>5, <1>6, <1>7, <1>8, Kinds

\* A snapshot names the image that belongs to the source it has copied, though
\* releases replace both meanwhile (export-backup.sh:29-44,
\* neyro-release.py:238-253).
THEOREM SnapshotsAreWhole == Spec => []SnapshotsAgree
<1>1. Init => SnapshotsAgree
  BY DEF Init, SnapshotsAgree
<1> QED BY <1>1, BaseAlways, ProgressAlways, ExportsStay, PTL DEF Spec

-----------------------------------------------------------------------------
(* Releases go forward.                                                    *)

\* What is current was staged, what was staged was the head of main, and whoever
\* may still be recorded is ahead of what is current.
Ahead ==
  /\ current \in releases \cup {0} /\ \A c \in releases : c <= main
  /\ \A j \in Jobs : job[j].at \in Past \cup {"record"} =>
       job[j].commit > current /\ job[j].commit \in releases

LEMMA AheadStays ==
  ASSUME Base, Ahead, [Next]_vars
  PROVE  Ahead' /\ (current' # current => current' > current)
<1>1. /\ job \in [Jobs -> Job] /\ Approval /\ Held /\ main \in Nat /\ releases \subseteq Commits
      /\ current \in Commits \cup {0} /\ Commits \subseteq Nat \ {0}
  BY DEF Base, TypeOK
<1>2. ASSUME UNCHANGED <<current, releases, job>>, main' \in Nat, main' >= main
      PROVE  Ahead' /\ (current' # current => current' > current)
  BY <1>1, <1>2 DEF Ahead
<1>3. CASE Requested /\ UNCHANGED <<host, job, stack>>
  <2>1. main' \in {main, main + 1}
    BY <1>3 DEF Requested, Push, LaunchFails, BeginUpload, Submit, EndUpload, AbandonUpload, github
  <2> QED BY <1>1, <1>2, <1>3, <2>1 DEF stack, disk
<1>4. CASE (HostNext /\ UNCHANGED release) \/ UNCHANGED vars
  BY <1>1, <1>2, <1>4 DEF vars, release, client, github, stack, disk
<1>5. CASE (BeginExport \/ EndExport) /\ UNCHANGED <<host, client, status, job>>
  BY <1>1, <1>2, <1>5 DEF BeginExport, EndExport, client, github, disk
<1>6. CASE Reboot
  <2>1. UNCHANGED <<current, releases, main>> /\ \A j \in Jobs : job'[j].at = "idle"
    BY <1>6 DEF Reboot, disk, github, Idle
  <2> QED BY <2>1 DEF Ahead, Past, Activation, Rollback
<1>7. ASSUME NEW j \in Jobs, Work(j)
      PROVE  Ahead' /\ (current' # current => current' > current)
  <2>1. UNCHANGED main /\ \A i \in Jobs : i # j => job'[i] = job[i]
    BY <1>1, <1>7, WorkOfOne, WorkTouches
  <2>2. CASE Stage(j)
    <3>1. /\ job[j].commit = main /\ job[j].commit \notin releases /\ job[j].at = "verify"
          /\ releases' = releases \cup {job[j].commit} /\ UNCHANGED current
      BY <2>2 DEF Stage, Approved, disk
    <3>2. job'[j].commit = job[j].commit /\ job[j].commit \in Commits
      BY <1>1, <1>7, <2>2, <3>1, WorkKeeps DEF Approval
    <3>3. job'[j].commit > current
      <4>1. main \in Nat \ {0} /\ main \notin releases
        BY <1>1, <3>1, <3>2
      <4>2. CASE current = 0
        BY <3>1, <3>2, <4>1, <4>2
      <4>3. CASE current \in releases
        BY <1>1, <3>1, <3>2, <4>1, <4>3 DEF Ahead
      <4> QED BY <4>2, <4>3 DEF Ahead
    <3>4. \A i \in Jobs : i # j => job[i].at \notin Past \cup {"record"}
      BY <1>1, <3>1, OnlyOne DEF Busy
    <3> QED BY <1>1, <2>1, <3>1, <3>2, <3>3, <3>4 DEF Ahead
  <2>3. CASE Record(j)
    <3>1. /\ job[j].at = "record" /\ job'[j].at = "report" /\ UNCHANGED releases
          /\ current' = job[j].commit
      BY <1>1, <2>3 DEF Record, At, Job
    <3>2. \A i \in Jobs : job'[i].at \notin Past \cup {"record"}
      BY <1>1, <2>1, <3>1, OnlyOne DEF Busy, Past, Activation, Rollback
    <3> QED BY <1>1, <2>1, <3>1, <3>2 DEF Ahead
  <2>4. CASE ~Stage(j) /\ ~Record(j)
    <3>1. UNCHANGED <<current, releases>>
      BY <1>7, <2>4, WorkTouches
    <3>2. ASSUME job'[j].at \in Past \cup {"record"}
          PROVE  job[j].at \in Past \cup {"record"} /\ job'[j].commit = job[j].commit
      <4>1. /\ job[j].at \in Past \cup {"record", "report"} /\ job'[j] # Idle
            /\ Carried(job'[j]) = Carried(job[j])
        BY <1>1, <1>7, <2>4, <3>2, PastComesFrom, WorkKeeps
      <4>2. job[j].at # "report"
        <5> SUFFICES ASSUME job[j].at = "report" PROVE FALSE
          OBVIOUS
        <5>1. Report(j) \/ RecordFails(j)
          BY <1>7, <2>4 DEF Work, Launch, Begin, ReadBundle, Stage, Backup, Freeze, Refused,
             Synchronize, Replace, Tag, RestartWorkers, Activated, RollBack, Restore, RolledBack,
             RollbackFails, Activation, Rollback
        <5> QED BY <1>1, <4>1, <5>1 DEF Report, RecordFails, GiveUp
      <4> QED BY <4>1, <4>2 DEF Carried
    <3> QED BY <1>1, <2>1, <3>1, <3>2 DEF Ahead
  <2> QED BY <2>2, <2>3, <2>4
<1> QED BY <1>3, <1>4, <1>5, <1>6, <1>7, Kinds

\* A recorded release is never followed by an older one, however the submissions
\* of two commits and their workers interleave (neyro-release.py:75-79, 197).
THEOREM ForwardOnly == Spec => ReleasesGoForward
<1>1. Init => Ahead
  <2>1. Init => \A j \in Jobs : job[j].at = "idle"
    BY DEF Init, Idle
  <2> QED BY <2>1 DEF Init, Ahead, Past, Activation, Rollback
<1>2. ASSUME Base, Ahead, [Next]_vars PROVE [current' # current => current' > current]_vars
  BY <1>2, AheadStays
<1>3. ASSUME Base, Ahead, [Next]_vars PROVE Ahead'
  BY <1>3, AheadStays
<1> QED BY <1>1, <1>2, <1>3, BaseAlways, PTL DEF Spec, ReleasesGoForward

-----------------------------------------------------------------------------
(* The budget of the recovery.                                             *)

\* A restart is over for the budget, or some attempt from it on is on the record
\* with [i] others after it.
Kept(attempts, i, r) ==
  \/ r + Hour <= clock
  \/ Len(attempts) > i /\ r <= attempts[Len(attempts) - i]

\* An attempt that is on the record and not made yet.
Pending == IF monitor.at = "restarting" THEN 1 ELSE 0

\* The record accounts for the last two restarts, which is what the decision looks
\* at; a decision that was taken keeps its distance from both.
Budget ==
  /\ Ordered(monitor.attempts)
  /\ Len(restarts) >= 1 => Kept(monitor.attempts, Pending, restarts[Len(restarts)])
  /\ Len(restarts) >= 2 =>
       Kept(monitor.attempts, Pending + 1, restarts[Len(restarts) - 1])
  /\ monitor.at = "restarting" =>
       /\ Len(monitor.attempts) > 0 /\ monitor.attempts[Len(monitor.attempts)] = clock
       /\ Len(restarts) >= 1 => clock - restarts[Len(restarts)] >= Gap
       /\ Len(restarts) >= 2 => clock - restarts[Len(restarts) - 1] >= Hour
  /\ RestartBudget

\* Whatever is decided on the recent attempts alone, they answer for the others.
LEMMA RecentKeeps ==
  ASSUME clock \in Nat, NEW A \in Seq(0..clock), Ordered(A),
         NEW i \in Nat, NEW r \in Nat, Kept(A, i, r)
  PROVE  Kept(Recent(A), i, r)
<1> DEFINE B == Recent(A)
<1>1. /\ Len(A) \in Nat /\ Len(B) \in Nat /\ B \in Seq(0..clock)
      /\ \A k \in 0..Len(B) - 1 : B[Len(B) - k] = A[Len(A) - k]
      /\ \A k \in 0..Len(A) - 1 : clock - A[Len(A) - k] < Hour => Len(B) > k
  <2>1. 0..clock \subseteq Nat
    OBVIOUS
  <2>2. B \in Seq(0..clock)
    BY <2>1, RecentFacts
  <2> QED BY <2>1, <2>2, RecentFacts, LenProperties
<1> HIDE DEF B
<1>2. CASE Len(A) > i /\ r <= A[Len(A) - i]
  <2>1. A[Len(A) - i] \in 0..clock /\ i \in 0..Len(A) - 1
    <3>1. Len(A) - i \in 1..Len(A)
      BY <1>1, <1>2
    <3> QED BY <1>1, <1>2, <3>1, ElementOfSeq
  <2>2. CASE clock - A[Len(A) - i] < Hour
    <3>1. Len(B) > i
      BY <1>1, <2>1, <2>2
    <3>2. i \in 0..Len(B) - 1
      BY <1>1, <3>1
    <3> QED BY <1>1, <1>2, <3>1, <3>2 DEF B, Kept
  <2>3. CASE ~(clock - A[Len(A) - i] < Hour)
    BY <1>2, <2>1, <2>3 DEF Kept
  <2> QED BY <2>2, <2>3
<1> QED BY <1>2 DEF Kept

LEMMA OrderedKeeps ==
  ASSUME clock \in Nat, NEW A \in Seq(0..clock), Ordered(A),
         NEW i \in Nat, NEW r \in Nat, Kept(A, i + 1, r)
  PROVE  Kept(A, i, r)
<1>1. CASE Len(A) > i + 1 /\ r <= A[Len(A) - (i + 1)]
  <2>1. Len(A) \in Nat
    BY LenProperties
  <2>2. /\ Len(A) - (i + 1) \in 1..Len(A) /\ Len(A) - i \in 1..Len(A)
        /\ Len(A) - (i + 1) <= Len(A) - i
    BY <1>1, <2>1
  <2>3. A[Len(A) - (i + 1)] <= A[Len(A) - i]
    BY <2>2 DEF Ordered
  <2>4. A[Len(A) - (i + 1)] \in 0..clock /\ A[Len(A) - i] \in 0..clock
    BY <2>2, ElementOfSeq
  <2> QED BY <1>1, <2>1, <2>3, <2>4 DEF Kept
<1> QED BY <1>1 DEF Kept

LEMMA AppendKeeps ==
  ASSUME clock \in Nat, NEW A \in Seq(0..clock), Ordered(A)
  PROVE  /\ Ordered(Append(A, clock))
         /\ Len(Append(A, clock)) > 0 /\ Append(A, clock)[Len(Append(A, clock))] = clock
         /\ \A i, r \in Nat : Kept(A, i, r) => Kept(Append(A, clock), i + 1, r)
<1> DEFINE C == Append(A, clock)
<1>1. /\ Len(A) \in Nat /\ Len(C) = Len(A) + 1 /\ C[Len(A) + 1] = clock
      /\ \A i \in 1..Len(A) : C[i] = A[i] /\ A[i] \in 0..clock
  BY AppendProperties, LenProperties, ElementOfSeq
<1> HIDE DEF C
<1>2. Ordered(C)
  <2> SUFFICES ASSUME NEW i \in 1..Len(C), NEW k \in 1..Len(C), i <= k PROVE C[i] <= C[k]
    BY DEF Ordered
  <2>1. CASE k = Len(A) + 1
    <3>1. C[k] = clock
      BY <1>1, <2>1
    <3>2. C[i] \in 0..clock
      <4>1. i \in 1..Len(A) \/ i = Len(A) + 1
        BY <1>1
      <4> QED BY <1>1, <4>1
    <3> QED BY <3>1, <3>2
  <2>2. CASE k # Len(A) + 1
    <3>1. k \in 1..Len(A) /\ i \in 1..Len(A)
      BY <1>1, <2>2
    <3> QED BY <1>1, <3>1 DEF Ordered
  <2> QED BY <2>1, <2>2
<1>3. ASSUME NEW i \in Nat, NEW r \in Nat, Kept(A, i, r) PROVE Kept(C, i + 1, r)
  <2>1. CASE Len(A) > i /\ r <= A[Len(A) - i]
    <3>1. Len(A) - i \in 1..Len(A) /\ Len(C) - (i + 1) = Len(A) - i /\ Len(C) > i + 1
      BY <1>1, <2>1
    <3>2. C[Len(A) - i] = A[Len(A) - i]
      BY <1>1, <3>1
    <3> QED BY <2>1, <3>1, <3>2 DEF Kept
  <2> QED BY <1>3, <2>1 DEF Kept
<1> QED BY <1>1, <1>2, <1>3 DEF C

LEMMA RecentOrdered ==
  ASSUME clock \in Nat, NEW s \in Seq(0..clock), Ordered(s)
  PROVE  Ordered(Recent(s))
<1> DEFINE B == Recent(s)
<1>1. /\ Len(s) \in Nat /\ Len(B) \in Nat /\ Len(B) <= Len(s)
      /\ \A k \in 0..Len(B) - 1 : B[Len(B) - k] = s[Len(s) - k]
  <2>1. 0..clock \subseteq Nat
    OBVIOUS
  <2>2. B \in Seq(0..clock)
    BY <2>1, RecentFacts
  <2> QED BY <2>1, <2>2, RecentFacts, LenProperties
<1> HIDE DEF B
<1>2. ASSUME NEW i \in 1..Len(B), NEW k \in 1..Len(B), i <= k PROVE B[i] <= B[k]
  <2>1. \A m \in 1..Len(B) : B[m] = s[Len(s) - Len(B) + m]
    <3>1. ASSUME NEW m \in 1..Len(B) PROVE B[m] = s[Len(s) - Len(B) + m]
      <4>1. Len(B) - m \in 0..Len(B) - 1 /\ Len(B) - (Len(B) - m) = m
            /\ Len(s) - (Len(B) - m) = Len(s) - Len(B) + m
        BY <1>1
      <4>2. B[Len(B) - (Len(B) - m)] = s[Len(s) - (Len(B) - m)]
        BY <1>1, <4>1
      <4> QED BY <4>1, <4>2
    <3> QED BY <3>1
  <2>2. /\ Len(s) - Len(B) + i \in 1..Len(s) /\ Len(s) - Len(B) + k \in 1..Len(s)
        /\ Len(s) - Len(B) + i <= Len(s) - Len(B) + k
    BY <1>1, <1>2
  <2> QED BY <1>2, <2>1, <2>2 DEF Ordered
<1> QED BY <1>2 DEF Ordered, B

LEMMA BudgetStays ==
  ASSUME Base, Budget, [Next]_vars
  PROVE  Budget'
<1> DEFINE A == monitor.attempts
           N == Len(restarts)
           R == restarts
<1>1. /\ clock \in Nat /\ monitor \in Watching /\ A \in Seq(0..clock) /\ R \in Seq(0..clock)
      /\ Gap \in Nat /\ Hour \in Nat /\ Gap <= Hour
  <2>1. horizon.clock \in Nat
    BY DEF Base, TypeOK
  <2> QED BY <2>1 DEF Base, TypeOK, Watching
<1>2. /\ Len(A) \in Nat /\ N \in Nat
      /\ \A i \in 1..Len(A) : A[i] \in 0..clock
      /\ \A i \in 1..N : R[i] \in 0..clock
  BY <1>1, LenProperties, ElementOfSeq
<1>3. CASE UNCHANGED <<clock, watch>>
  BY <1>3 DEF watch, Budget, Kept, Pending, RestartBudget
<1>4. CASE Tick
  <2>1. UNCHANGED <<monitor, restarts>> /\ clock' = clock + 1 /\ monitor.at # "restarting"
    BY <1>4 DEF Tick, watch
  <2>2. \A i \in Nat, r \in Nat : Kept(A, i, r) => Kept(A, i, r)'
    BY <1>1, <2>1 DEF Kept
  <2> QED BY <1>2, <2>1, <2>2, SMTT(40) DEF Budget, Pending, RestartBudget
<1>5. CASE MonitorRound
  <2>1. /\ UNCHANGED <<clock, restarts>> /\ monitor'.attempts = Recent(A)
        /\ monitor.at = "idle" /\ monitor'.at # "restarting"
    <3>1. PICK fine \in BOOLEAN :
            monitor' = [at |-> IF Decision(fine).act THEN "recover" ELSE "idle",
                        failures |-> Decision(fine).failures,
                        attempts |-> Decision(fine).attempts]
      BY <1>5 DEF MonitorRound
    <3>2. monitor'.attempts = Decision(fine).attempts /\ monitor'.at \in {"recover", "idle"}
      BY <3>1
    <3> QED BY <1>1, <1>5, <3>2, DecisionTypes DEF MonitorRound
  <2>2. \A i \in Nat, r \in Nat : Kept(A, i, r) => Kept(monitor'.attempts, i, r)
    BY <1>1, <2>1, RecentKeeps DEF Budget
  <2>3. Ordered(monitor'.attempts)
    BY <1>1, <2>1, RecentOrdered DEF Budget
  <2>4. Pending = 0 /\ Pending' = 0
    BY <2>1 DEF Pending
  <2>5. /\ N >= 1 => Kept(monitor'.attempts, 0, R[N])
        /\ N >= 2 => Kept(monitor'.attempts, 1, R[N - 1])
    BY <1>2, <2>2, <2>4 DEF Budget
  <2> QED BY <2>1, <2>3, <2>4, <2>5 DEF Budget, Kept, RestartBudget
<1>6. ASSUME UNCHANGED <<clock, restarts>>, monitor'.at # "restarting", monitor'.attempts = A
      PROVE  Budget'
  <2>1. CASE monitor.at # "restarting"
    BY <1>6, <2>1 DEF Budget, Kept, Pending, RestartBudget
  <2>2. CASE monitor.at = "restarting"
    <3>1. /\ N >= 1 => Kept(A, 1, R[N])
          /\ N >= 2 => Kept(A, 2, R[N - 1])
      BY <2>2 DEF Budget, Pending
    <3>2. \A i, r \in Nat : Kept(A, i + 1, r) => Kept(A, i, r)
      BY <1>1, OrderedKeeps DEF Budget
    <3>3. /\ N >= 1 => Kept(A, 0, R[N])
          /\ N >= 2 => Kept(A, 1, R[N - 1])
      <4>1. 0 + 1 = 1 /\ 1 + 1 = 2
        OBVIOUS
      <4> QED BY <1>2, <3>1, <3>2, <4>1
    <3> QED BY <1>6, <3>3 DEF Budget, Kept, Pending, RestartBudget
  <2> QED BY <2>1, <2>2
<1>7. ASSUME monitor' = [monitor EXCEPT !.at = "idle"]
      PROVE  monitor'.at = "idle" /\ monitor'.attempts = A
  BY <1>1, <1>7 DEF Watching
<1>8. CASE RecoverGivesWay \/ RecoveryFails \/ Reboot
  BY <1>6, <1>7, <1>8 DEF RecoverGivesWay, RecoveryFails, Reboot
<1>9. CASE Recover
  <2>1. PICK fine \in BOOLEAN :
          \/ /\ Decision(fine).act
             /\ monitor' = [monitor EXCEPT !.at = "restarting", !.failures = 0,
                                           !.attempts = Append(@, clock)]
          \/ monitor' = [monitor EXCEPT !.at = "idle"]
    BY <1>9 DEF Recover
  <2>2. UNCHANGED <<clock, restarts>> /\ monitor.at = "recover"
    BY <1>9 DEF Recover
  <2>3. CASE monitor' = [monitor EXCEPT !.at = "idle"]
    BY <1>6, <1>7, <2>2, <2>3
  <2>4. CASE /\ Decision(fine).act
             /\ monitor' = [monitor EXCEPT !.at = "restarting", !.failures = 0,
                                           !.attempts = Append(@, clock)]
    <3>1. monitor'.attempts = Append(A, clock) /\ monitor'.at = "restarting"
      BY <1>1, <2>4 DEF Watching
    <3>2. /\ Ordered(A) /\ Pending = 0 /\ Pending' = 1
          /\ N >= 1 => Kept(A, 0, R[N])
          /\ N >= 2 => Kept(A, 1, R[N - 1])
      BY <2>2, <3>1 DEF Budget, Pending
    <3>3. /\ Ordered(monitor'.attempts)
          /\ Len(monitor'.attempts) > 0 /\ monitor'.attempts[Len(monitor'.attempts)] = clock
          /\ N >= 1 => Kept(monitor'.attempts, 1, R[N])
          /\ N >= 2 => Kept(monitor'.attempts, 2, R[N - 1])
      <4>1. 0 + 1 = 1 /\ 1 + 1 = 2
        OBVIOUS
      <4> QED BY <1>1, <1>2, <3>1, <3>2, <4>1, AppendKeeps
    <3>5. /\ N >= 1 => R[N] \in Nat
          /\ N >= 2 => R[N - 1] \in Nat
      BY <1>2
    <3>7. Spaced(Recent(A)) /\ Ordered(A)
      BY <1>1, <2>4, DecisionTypes DEF Budget
    <3>8. Recent(A) \in Seq(0..clock) /\ Len(Recent(A)) \in Nat
      <4>1. 0..clock \subseteq Nat
        BY <1>1
      <4>2. Recent(A) \in Seq(0..clock)
        BY <1>1, <4>1, RecentFacts
      <4> QED BY <4>2, LenProperties
    <3>9. N >= 1 => clock - R[N] >= Gap
      <4> SUFFICES ASSUME N >= 1 PROVE clock - R[N] >= Gap
        OBVIOUS
      <4>1. Kept(Recent(A), 0, R[N])
        BY <1>1, <3>2, <3>5, RecentKeeps
      <4>2. CASE R[N] + Hour <= clock
        BY <1>1, <1>2, <4>2
      <4>3. CASE Len(Recent(A)) > 0 /\ R[N] <= Recent(A)[Len(Recent(A))]
        <5>1. Recent(A) # <<>> /\ Recent(A)[Len(Recent(A))] \in 0..clock
          <6>1. Len(Recent(A)) \in 1..Len(Recent(A))
            BY <3>8, <4>3
          <6>2. Recent(A)[Len(Recent(A))] \in 0..clock
            BY <3>8, <6>1, ElementOfSeq
          <6>3. Recent(A) # <<>>
            BY <4>3
          <6> QED BY <6>2, <6>3
        <5>2. clock - Recent(A)[Len(Recent(A))] >= Gap
          BY <3>7, <5>1 DEF Spaced
        <5> QED BY <1>1, <3>5, <4>3, <5>1, <5>2
      <4> QED BY <3>8, <4>1, <4>2, <4>3 DEF Kept
    <3>10. N >= 2 => clock - R[N - 1] >= Hour
      <4> SUFFICES ASSUME N >= 2 PROVE clock - R[N - 1] >= Hour
        OBVIOUS
      <4>1. Kept(Recent(A), 1, R[N - 1])
        BY <1>1, <3>2, <3>5, RecentKeeps
      <4>2. Len(Recent(A)) < 2
        BY <3>7 DEF Spaced, MaxRestarts
      <4>3. R[N - 1] + Hour <= clock
        BY <3>8, <4>1, <4>2 DEF Kept
      <4> QED BY <1>1, <3>5, <4>3
    <3> QED BY <2>2, <3>1, <3>2, <3>3, <3>9, <3>10 DEF Budget, Kept, RestartBudget
  <2> QED BY <2>1, <2>3, <2>4
<1>10. CASE Recovered
  <2>1. /\ monitor.at = "restarting" /\ UNCHANGED clock /\ restarts' = Append(restarts, clock)
        /\ monitor'.at = "idle" /\ monitor'.attempts = A
    BY <1>7, <1>10 DEF Recovered
  <2>2. /\ Len(restarts') = N + 1 /\ restarts'[N + 1] = clock
        /\ \A i \in 1..N : restarts'[i] = R[i]
    BY <1>1, <2>1, AppendProperties
  <2>3. /\ Len(A) > 0 /\ A[Len(A)] = clock
        /\ N >= 1 => clock - R[N] >= Gap /\ Kept(A, 1, R[N])
        /\ N >= 2 => clock - R[N - 1] >= Hour
        /\ RestartBudget /\ Ordered(A)
    BY <2>1 DEF Budget, Pending
  <2> HIDE DEF N
  <2>4. Kept(A, 0, restarts'[N + 1])
    BY <1>1, <1>2, <2>2, <2>3 DEF Kept
  <2>5. N >= 1 => Kept(A, 1, restarts'[N])
    BY <1>2, <2>2, <2>3
  <2>6. RestartBudget'
    <3>1. ASSUME NEW i \in 1..N PROVE restarts'[i + 1] - restarts'[i] >= Gap
      BY <1>2, <2>2, <2>3 DEF RestartBudget, N
    <3>2. ASSUME NEW i \in 1..N - 1 PROVE restarts'[i + 2] - restarts'[i] >= Hour
      <4>1. CASE i = N - 1
        <5>1. restarts'[i + 2] = clock /\ restarts'[i] = R[N - 1] /\ N >= 2
          BY <1>2, <2>2, <4>1, SMTT(40)
        <5> QED BY <2>3, <5>1
      <4>2. CASE i # N - 1
        <5>1. i \in 1..N - 2 /\ i \in 1..N /\ i + 2 \in 1..N
          BY <1>2, <4>2
        <5>2. R[i + 2] - R[i] >= Hour
          BY <2>3, <5>1 DEF RestartBudget, N, MaxRestarts
        <5> QED BY <2>2, <5>1, <5>2
      <4> QED BY <4>1, <4>2
    <3>3. Len(restarts') - 1 = N /\ Len(restarts') - MaxRestarts = N - 1 /\ MaxRestarts = 2
      BY <1>2, <2>2 DEF MaxRestarts
    <3> QED BY <3>1, <3>2, <3>3 DEF RestartBudget
  <2>7. Len(restarts') - 1 = N /\ Pending' = 0 /\ (N + 1 >= 2 => N >= 1)
    BY <1>2, <2>1, <2>2 DEF Pending
  <2> QED BY <1>2, <2>1, <2>2, <2>3, <2>4, <2>5, <2>6, <2>7 DEF Budget, Kept
<1>11. CASE MaintenanceOn \/ MaintenanceOff \/ RestartApp \/ FenceBegins \/ FenceHolds
              \/ FenceFails \/ Sicken
  BY <1>3, <1>11 DEF MaintenanceOn, MaintenanceOff, RestartApp, FenceBegins, FenceHolds,
     FenceFails, Sicken
<1>12. CASE UNCHANGED host
  BY <1>3, <1>12 DEF host
<1>13. ASSUME NEW j \in Jobs, Work(j) PROVE Budget'
  BY <1>3, <1>13, WorkTouches DEF watch
<1>14. CASE HostNext
  BY <1>4, <1>5, <1>8, <1>9, <1>10, <1>11, <1>14 DEF HostNext
<1> QED BY <1>8, <1>12, <1>13, <1>14, Kinds DEF vars

\* At most two recoveries in an hour and never two close together, whatever is
\* killed between the decision, its record and the restart (monitor.py:121-156).
THEOREM BudgetIsKept == Spec => []RestartBudget
<1>1. Init => Budget
  BY DEF Init, InitHost, Budget, Ordered, RestartBudget, MaxRestarts
<1>2. Budget => RestartBudget
  BY DEF Budget
<1> QED BY <1>1, <1>2, BaseAlways, BudgetStays, PTL DEF Spec
=============================================================================
