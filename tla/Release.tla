------------------------------ MODULE Release ------------------------------
(***************************************************************************)
(* Releases: the forced SSH command that takes a bundle and submits it     *)
(* (scripts/deploy/neyro-deploy-dispatch.py), the worker that validates,   *)
(* activates and, when that fails, rolls back                              *)
(* (scripts/deploy/neyro-release.py), and the export of snapshots that     *)
(* must not see half of an activation (scripts/resilience).                *)
(*                                                                         *)
(* Commits are numbered as they come on main; 0 is what is installed when  *)
(* the behaviour begins.  A worker can be stopped by SIGTERM, which it     *)
(* answers with a rollback, and killed, which it cannot answer.            *)
(***************************************************************************)
EXTENDS Host

CONSTANT Commits

ASSUME ReleaseAssumption == Commits \subseteq Nat \ {0} /\ "export" \notin Jobs

VARIABLES
  main,       \* the head of main
  passed,     \* commits whose CI has succeeded
  uploads,    \* uploads/<commit>.tar.gz
  receiving,  \* uploads under way, their commit's status already looked at
  tries,      \* uploads and submissions so far
  status,     \* status/<commit>.json, by its phase
  dispatch,   \* the commit whose submission holds dispatch.lock
  job,        \* release workers
  releases,   \* directories releases/<commit>
  tree,       \* the source under /opt/neyro
  latest,     \* neyro-posting:latest
  current,    \* current.json
  exporting,  \* holder of /run/lock/neyro-export.lock
  copied,     \* the source that an export has copied
  wounded     \* an activation was cut off and nothing has repaired it since

disk == <<tree, latest, current>>
exports == <<exporting, copied>>
github == <<main, passed>>
requests == <<uploads, receiving, tries>>
client == <<github, requests, dispatch>>
stack == <<releases, disk, exports, wounded>>
release == <<client, status, job, stack>>
unlocked == <<horizon, clock, guards, box, fence, watch>>
vars == <<host, release>>

Half == <<-1, "half">>  \* a source that is partly replaced
Code(c) == <<c, "committed">>
Forged(c) == <<c, "other">>
Installed == Code(0)
Bundles(c) == {Code(c), Forged(c)}
NoBundle == <<0, "none">>

Submitted == {"queued", "validate", "backup", "build", "activate", "rollback", "healthy"}
Phases == Submitted \cup {"missing", "could_not_start", "rolled_back", "see_server_log"}
Idle == [at |-> "idle", commit |-> 0, files |-> NoBundle, source |-> Installed,
         images |-> [n \in Names |-> Installed]]

Init ==
  /\ InitHost(Installed)
  /\ main = 0 /\ passed = {}
  /\ uploads = [c \in Commits |-> NoBundle] /\ receiving = {}
  /\ tries = [uploads |-> 0, submissions |-> 0]
  /\ status = [c \in Commits |-> "missing"]
  /\ dispatch = 0 /\ job = [j \in Jobs |-> Idle]
  /\ releases = {} /\ tree = Installed /\ latest = Installed /\ current = 0
  /\ exporting = "free" /\ copied = Installed /\ wounded = FALSE

Say(c, phase) == status' = [status EXCEPT ![c] = phase]

-----------------------------------------------------------------------------
(* GitHub, and the forced command. *)

Push ==
  /\ main < horizon.head /\ main + 1 \in Commits
  /\ main' = main + 1
  /\ \E ok \in BOOLEAN : passed' = passed \cup {c \in {main + 1} : ok}
  /\ UNCHANGED <<host, requests, dispatch, status, job, stack>>

BeginUpload(c) ==
  /\ c <= main /\ status[c] \notin Submitted
  /\ tries.uploads < horizon.uploads /\ tries' = [tries EXCEPT !.uploads = @ + 1]
  /\ \E b \in Bundles(c) : receiving' = receiving \cup {b}
  /\ UNCHANGED <<host, github, uploads, status, dispatch, job, stack>>

\* os.replace: whatever has happened to the commit meanwhile.
EndUpload(b) ==
  /\ b \in receiving
  /\ receiving' = receiving \ {b}
  /\ uploads' = [uploads EXCEPT ![b[1]] = b]
  /\ UNCHANGED <<host, github, tries, status, dispatch, job, stack>>

AbandonUpload(b) ==
  /\ b \in receiving
  /\ receiving' = receiving \ {b}
  /\ UNCHANGED <<host, github, uploads, tries, status, dispatch, job, stack>>

Submit(c) ==
  /\ dispatch = 0 /\ uploads[c] # NoBundle /\ status[c] \notin Submitted
  /\ Say(c, "queued") /\ dispatch' = c
  /\ tries.submissions < horizon.submissions
  /\ tries' = [tries EXCEPT !.submissions = @ + 1]
  /\ UNCHANGED <<host, github, uploads, receiving, job, stack>>

\* systemd-run.  It can report a failure (or meet the alarm) with the worker started.
Launch(j) ==
  /\ dispatch # 0 /\ job[j].at = "idle"
  /\ job' = [job EXCEPT ![j].at = "start", ![j].commit = dispatch]
  /\ status' \in {status, [status EXCEPT ![dispatch] = "could_not_start"]}
  /\ dispatch' = 0
  /\ UNCHANGED <<host, github, requests, stack>>

LaunchFails ==
  /\ dispatch # 0
  /\ status' \in {status, [status EXCEPT ![dispatch] = "could_not_start"]}
  /\ dispatch' = 0
  /\ UNCHANGED <<host, github, requests, job, stack>>

-----------------------------------------------------------------------------
(* The worker, up to the activation. *)

At(j, pc) == job' = [job EXCEPT ![j].at = pc]
Activation == {"sync", "synced", "tag", "app", "support", "check"}
Rollback == {"undo", "undoing", "retag", "unapp", "unsupport", "recheck"}

\* Every error before the activation, and the error of taking the lock.
GiveUp(j) ==
  /\ IF status[job[j].commit] = "rolled_back" THEN UNCHANGED status
     ELSE Say(job[j].commit, "see_server_log")
  /\ job' = [job EXCEPT ![j] = Idle]
  /\ lock' = IF lock = j THEN "free" ELSE lock

Begin(j) ==
  /\ job[j].at = "start"
  /\ IF lock = "free"
     THEN lock' = j /\ Say(job[j].commit, "validate") /\ At(j, "read")
     ELSE GiveUp(j)
  /\ UNCHANGED <<unlocked, client, stack>>

\* validate_bundle keeps the bytes it has inspected.
ReadBundle(j) ==
  /\ job[j].at = "read"
  /\ job' = [job EXCEPT ![j].at = "verify", ![j].files = uploads[job[j].commit]]
  /\ UNCHANGED <<host, client, status, stack>>

\* Slip: any commit of main that has passed CI will do.
ApprovedOnce(j) == job[j].commit \in passed /\ job[j].files = Code(job[j].commit)

\* Slip: the bundle is only compared with its own list of digests.
ApprovedUnread(j) == job[j].commit = main /\ job[j].commit \in passed

\* verify_approved_source, while the requests it makes are answered.
Approved(j) ==
  /\ job[j].commit = main /\ job[j].commit \in passed
  /\ job[j].files = Code(job[j].commit)

\* The guards, then what is saved for a rollback.  (A commit with another
\* schema fails here like any other: see Refused.)
Stage(j) ==
  /\ job[j].at = "verify" /\ Approved(j) /\ ~Guarded /\ job[j].commit \notin releases
  /\ releases' = releases \cup {job[j].commit}
  /\ job' = [job EXCEPT ![j].at = "backup", ![j].source = tree,
                        ![j].images = [n \in Names |-> box[n].image]]
  /\ Say(job[j].commit, "backup")
  /\ UNCHANGED <<host, client, disk, exports, wounded>>

\* The worker calls the exporter, which takes its lock itself.
Backup(j) ==
  /\ job[j].at = "backup" /\ exporting = "free"
  /\ Say(job[j].commit, "build") /\ At(j, "build")
  /\ UNCHANGED <<host, client, stack>>

\* Slip: the activation does not wait for an export that is under way.
FreezeAnyhow(j) ==
  /\ job[j].at = "build"
  /\ Say(job[j].commit, "activate") /\ At(j, "sync")
  /\ UNCHANGED <<host, client, stack>>

\* The image is built and tried; then the exports are held off.
Freeze(j) ==
  /\ job[j].at = "build" /\ exporting = "free"
  /\ exporting' = j
  /\ Say(job[j].commit, "activate") /\ At(j, "sync")
  /\ UNCHANGED <<host, client, releases, disk, copied, wounded>>

\* Any of those steps fails: validation, approval, a guard, the backup, the build.
Refused(j) ==
  /\ job[j].at \in {"start", "read", "verify", "backup", "build"}
  /\ GiveUp(j)
  /\ UNCHANGED <<unlocked, client, stack>>

-----------------------------------------------------------------------------
(* Activation and rollback, under the lock of the exports.                 *)

\* synchronize: each path is removed, then copied.
Replace(j, from, half, code) ==
  \/ job[j].at = from /\ tree' = Half /\ At(j, half)
  \/ job[j].at = half /\ tree' = code /\ At(j, IF half = "synced" THEN "tag" ELSE "retag")

Synchronize(j) ==
  /\ Replace(j, "sync", "synced", job[j].files)
  /\ UNCHANGED <<host, client, status, releases, latest, current, exports, wounded>>

Restore(j) ==
  /\ Replace(j, "undo", "undoing", job[j].source)
  /\ UNCHANGED <<host, client, status, releases, latest, current, exports, wounded>>

\* Slip: a rollback leaves the tag.
TagForward(j) ==
  /\ \/ job[j].at = "tag" /\ latest' = job[j].files /\ At(j, "app")
     \/ job[j].at = "retag" /\ UNCHANGED latest /\ At(j, "unapp")
  /\ UNCHANGED <<host, client, status, releases, tree, current, exports, wounded>>

Tag(j) ==
  /\ \/ job[j].at = "tag" /\ latest' = job[j].files /\ At(j, "app")
     \/ job[j].at = "retag" /\ latest' = job[j].images["app"] /\ At(j, "unapp")
  /\ UNCHANGED <<host, client, status, releases, tree, current, exports, wounded>>

\* docker compose up: the containers are made anew, one after the other, with
\* the tag or, in a rollback, with the images that were saved.
Recreate(j, n, image, next) ==
  /\ \E s \in {"up", "sick"} :
       box' = [box EXCEPT ![n] = [image |-> image, state |-> s, restart |-> TRUE]]
  /\ At(j, next)

RestartWorkers(j) ==
  /\ \/ job[j].at = "app" /\ Recreate(j, "app", latest, "support")
     \/ job[j].at = "support" /\ Recreate(j, "support", latest, "check")
     \/ job[j].at = "unapp" /\ Recreate(j, "app", job[j].images["app"], "unsupport")
     \/ job[j].at = "unsupport" /\ Recreate(j, "support", job[j].images["support"], "recheck")
  /\ UNCHANGED <<horizon, clock, lock, guards, fence, watch, client, status, stack>>

\* wait_for_app_health and verify_health have been satisfied.
Healthy == \A n \in Names : box[n].state = "up"

Activated(j) ==
  /\ job[j].at = "check" /\ Healthy
  /\ exporting' = "free" /\ At(j, "record")
  /\ wounded' = FALSE
  /\ UNCHANGED <<host, client, status, releases, disk, copied>>

\* An error or SIGTERM anywhere in the activation.
RollBack(j) ==
  /\ job[j].at \in Activation
  /\ Say(job[j].commit, "rollback") /\ At(j, "undo")
  /\ UNCHANGED <<host, client, stack>>

\* Slip: the rollback is believed without a look at the workers.
RolledBackUnseen(j) ==
  /\ job[j].at = "recheck"
  /\ Say(job[j].commit, "rolled_back")
  /\ job' = [job EXCEPT ![j] = Idle] /\ lock' = "free" /\ exporting' = "free"
  /\ UNCHANGED <<unlocked, client, releases, disk, copied, wounded>>

RolledBack(j) ==
  /\ job[j].at = "recheck" /\ Healthy
  /\ Say(job[j].commit, "rolled_back")
  /\ job' = [job EXCEPT ![j] = Idle] /\ lock' = "free" /\ exporting' = "free"
  /\ UNCHANGED <<unlocked, client, releases, disk, copied, wounded>>

\* The rollback fails, or meets a SIGTERM itself.
RollbackFails(j) ==
  /\ job[j].at \in Rollback
  /\ GiveUp(j) /\ exporting' = "free" /\ wounded' = TRUE
  /\ UNCHANGED <<unlocked, client, releases, disk, copied>>

\* current.json and the last status are written after the activation.
Record(j) ==
  /\ job[j].at = "record"
  /\ current' = job[j].commit /\ At(j, "report")
  /\ UNCHANGED <<host, client, status, releases, tree, latest, exports, wounded>>

\* Slip: the success is written before what is current.
ReportFirst(j) ==
  /\ job[j].at \in {"record", "report"}
  /\ Say(job[j].commit, "healthy")
  /\ job' = [job EXCEPT ![j] = Idle] /\ lock' = "free"
  /\ UNCHANGED <<unlocked, client, stack>>

Report(j) ==
  /\ job[j].at = "report"
  /\ Say(job[j].commit, "healthy")
  /\ job' = [job EXCEPT ![j] = Idle] /\ lock' = "free"
  /\ UNCHANGED <<unlocked, client, stack>>

\* SIGTERM or an error while the success is written: the release stays.
RecordFails(j) ==
  /\ job[j].at \in {"record", "report"}
  /\ GiveUp(j)
  /\ UNCHANGED <<unlocked, client, stack>>

-----------------------------------------------------------------------------
(* Exports and reboots.                                                    *)

BeginExport ==
  /\ horizon.operations /\ exporting = "free"
  /\ exporting' = "export" /\ copied' = tree
  /\ UNCHANGED <<host, client, status, job, releases, disk, wounded>>

EndExport ==
  /\ exporting = "export"
  /\ exporting' = "free"
  /\ UNCHANGED <<host, client, status, job, releases, disk, copied, wounded>>

\* A kill that no handler sees, of every process on the host; containers come
\* back unless they were stopped or told not to.
Reboot ==
  /\ job' = [j \in Jobs |-> Idle] /\ dispatch' = 0 /\ lock' = "free" /\ exporting' = "free"
  /\ receiving' = {}
  /\ monitor' = [monitor EXCEPT !.at = "idle"]
  /\ wounded' = (wounded \/ \E j \in Jobs : job[j].at \in Activation \cup Rollback)
  /\ box' = [n \in Names |-> [box[n] EXCEPT !.state = IF box[n].restart THEN @ ELSE "down"]]
  /\ UNCHANGED <<horizon, clock, guards, fence, restarts, github, uploads, tries, status, releases, disk, copied>>

Next ==
  \/ HostNext /\ UNCHANGED release
  \/ Push \/ LaunchFails \/ BeginExport \/ EndExport \/ Reboot
  \/ \E c \in Commits : BeginUpload(c) \/ Submit(c)
  \/ \E b \in receiving : EndUpload(b) \/ AbandonUpload(b)
  \/ \E j \in Jobs :
       \/ Launch(j) \/ Begin(j) \/ ReadBundle(j) \/ Stage(j) \/ Backup(j) \/ Freeze(j)
       \/ Refused(j) \/ Synchronize(j) \/ Tag(j) \/ RestartWorkers(j) \/ Activated(j)
       \/ RollBack(j) \/ Restore(j) \/ RolledBack(j) \/ RollbackFails(j)
       \/ Record(j) \/ Report(j) \/ RecordFails(j)

Spec == Init /\ [][Next]_vars

-----------------------------------------------------------------------------
AnyCode == {Installed} \cup UNION {Bundles(c) : c \in Commits}
Steps == {"idle", "start", "read", "verify", "backup", "build", "record", "report"}
           \cup Activation \cup Rollback

Container == [image : AnyCode, state : States, restart : BOOLEAN]
Job == [at : Steps, commit : Commits \cup {0}, files : AnyCode \cup {NoBundle},
        source : AnyCode \cup {Half}, images : [Names -> AnyCode]]

\* What the variables hold.
TypeOK ==
  /\ horizon \in Horizons /\ clock \in 0..horizon.clock
  /\ lock \in Jobs \cup {"free", "control", "monitor"}
  /\ fenced \in BOOLEAN /\ maintenance \in BOOLEAN /\ (fenced => maintenance)
  /\ box \in [Names -> Container]
  /\ fence \in BOOLEAN
  /\ monitor \in [at : Rounds, failures : 0..MaxFailures, attempts : Seq(0..clock)]
  /\ restarts \in Seq(0..clock)
  /\ main \in Nat /\ passed \subseteq Commits
  /\ uploads \in [Commits -> AnyCode \cup {NoBundle}] /\ receiving \subseteq AnyCode
  /\ tries \in [uploads : 0..horizon.uploads, submissions : 0..horizon.submissions]
  /\ status \in [Commits -> Phases] /\ dispatch \in Commits \cup {0}
  /\ job \in [Jobs -> Job]
  /\ releases \subseteq Commits
  /\ tree \in AnyCode \cup {Half} /\ latest \in AnyCode /\ current \in Commits \cup {0}
  /\ exporting \in Jobs \cup {"free", "export"}
  /\ copied \in AnyCode \cup {Half}
  /\ wounded \in BOOLEAN

Serves(code) ==
  tree = code /\ latest = code /\ \A n \in Names : box[n].image = code

\* Between releases the source, the tag and both containers are one version,
\* unless an activation was killed or its rollback failed: no error on the way
\* of a release leaves parts of two (neyro-release.py:124-138, 178-190, 241-253).
OneVersion ==
  ~wounded /\ (\A j \in Jobs : job[j].at \notin Activation \cup Rollback)
    => \E code \in AnyCode : Serves(code)

\* What runs, and what is installed to run, was committed to main and passed
\* its checks, byte for byte, whatever is uploaded over a bundle that was
\* submitted (neyro-release.py:75-101, neyro-deploy-dispatch.py:44-63).
OnlyApprovedCode ==
  {latest} \cup ({tree} \ {Half}) \cup {box[n].image : n \in Names}
    \subseteq {Installed} \cup {Code(c) : c \in passed}

Reports(c, phase) == status[c] # phase /\ status'[c] = phase

\* What a release says of its end is so, whatever the other workers, the fence
\* and the monitor do meanwhile. Success: the host serves it, and no other worker
\* has touched it since (neyro-release.py:196-197, 254-256). A rollback: source,
\* tag and both containers are those it found, and they run (184-190, 247-251).
StatusIsTrue ==
  [][\A c \in Commits :
       /\ Reports(c, "healthy") => Serves(Code(c)) /\ current = c
       /\ Reports(c, "rolled_back") =>
            \E j \in Jobs :
              /\ job[j].commit = c /\ tree = job[j].source /\ latest = job[j].images["app"]
              /\ \A n \in Names : box[n].image = job[j].images[n] /\ box[n].state = "up"]_vars

\* A recorded release is never followed by an older one: the head of main is
\* compared under the lock (neyro-release.py:75-79, 197).
ReleasesGoForward == [][current' # current => current' > current]_vars

\* The image that a snapshot is going to name is that of the source it has
\* copied, though a release replaces both meanwhile: a reserve restored from it
\* runs what it says (export-backup.sh:29-44, neyro-release.py:238-253).
SnapshotsAgree == exporting = "export" /\ ~wounded => copied = box["app"].image
=============================================================================
