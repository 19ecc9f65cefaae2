------------------------------ MODULE AuditExport ------------------------------
(***************************************************************************)
(* `patchforge export-audit` and `verify-audit`                            *)
(* (orchestrator/commands/export_audit.py) with the repository lock        *)
(* (orchestrator/storage/lock.py), beside the commands of RunLifecycle.    *)
(*                                                                         *)
(* An export looks at the status of the run, lists its files, reads them   *)
(* one after the other, and publishes a bundle of them with a manifest of  *)
(* their hashes.  It may hold the repository lock while it reads: a row    *)
(* with an id that anybody may take over after 300 seconds.  The id is the *)
(* worker's for every export that is called for a worker, and otherwise of *)
(* the export alone.  The commands that write the files do not ask for the *)
(* lock.                                                                   *)
(***************************************************************************)
EXTENDS RunLifecycle

CONSTANTS
  Exporter,   \* exports: each is one call
  Worker,     \* the workers some of them are called for
  Options,    \* the options they are called with
  Unread      \* no such file in the manifest, or in the archive

Option == [force : BOOLEAN, redact : BOOLEAN, locking : BOOLEAN, sign : BOOLEAN]

ASSUME ExportAssumption ==
  /\ Options \subseteq Option /\ Options # {}
  /\ None \notin Exporter \cup Worker /\ Worker \cap Exporter = {}
  /\ Unread # None /\ Unread \notin [path : {"plain"}]
  /\ Unread \notin [status : RunStatus, sensitive : {"plain", "[REDACTED]"}]

VARIABLES
  id,        \* the id an export took the lock with: a worker's, or its own
  lock,      \* the row of the repository: the export that wrote it
  expired,   \* the exports whose 300 seconds are over
  ex,        \* the local state of every export
  bundle     \* the file audit-<run>.tar.gz

vars == <<lifecycle, id, lock, expired, ex, bundle>>

-----------------------------------------------------------------------------

Terminal == {"applied", "failed", "validation_failed"}

(* The files of a run, in the order of their names.  patch.diff stands for   *)
(* all that are not here: some are removed by a later preview, some have a   *)
(* path in them (workspace_path in apply.json and experiment.json), and each *)
(* is read and archived as it is.                                            *)
EventLog == "events.jsonl"
Members == <<EventLog, "patch.diff", "run.json">>
Name == {Members[i] : i \in DOMAIN Members}

(* Of run.json the status, which changes, and its sensitive fields, as they  *)
(* are or replaced by a sentinel.                                            *)
ArchivedRun == [status : RunStatus, sensitive : {"plain", "[REDACTED]"}]
Archived(r, sensitive) == [status |-> r.status, sensitive |-> sensitive]
ArchivedOther == [path : {"plain"}]

OnDisk ==
  {"run.json", EventLog}
  \cup (IF patch # None THEN {"patch.diff"} ELSE {})

(* What is read from a file now, and what its hash stands for; the text of   *)
(* the event log does not matter.                                            *)
Content(name) ==
  CASE name = "run.json" -> Archived(run, "plain")
    [] name = "patch.diff" -> [path |-> "plain"]
    [] OTHER -> None

Archive == [Name -> ArchivedRun \cup ArchivedOther \cup {None, Unread}]
Nothing == [n \in Name |-> Unread]

NoExport == [pc |-> "out", opt |-> CHOOSE o \in Options : TRUE, todo |-> {},
             hashes |-> Nothing, bytes |-> Nothing]

Init ==
  /\ RunInit
  /\ id = [e \in Exporter |-> None]
  /\ lock = None /\ expired = {}
  /\ ex = [e \in Exporter |-> NoExport]
  /\ bundle = None

At(e, place) == ex[e].pc = place /\ UNCHANGED <<lifecycle, id>>
Proceed(e, place) == ex' = [ex EXCEPT ![e].pc = place]

(* Seeded fault: whatever row there is goes.                                 *)
DeleteRow(e) == lock' = None

(* release_repo_lock: DELETE ... WHERE repo = ? AND worker_id = ?, which may *)
(* fail: that is only logged.                                                *)
ReleaseRow(e) ==
  \/ lock # None /\ id[lock] = id[e] /\ lock' = None
  \/ UNCHANGED lock

Holding(e) == ex[e].opt.locking /\ ex[e].pc \in {"locked", "check", "read"}

(* Once its row is gone, its 300 seconds are of no interest.                 *)
LetGo(e) ==
  IF Holding(e)
    THEN ReleaseRow(e) /\ expired' = IF lock' = e THEN expired ELSE expired \ {e}
    ELSE UNCHANGED <<lock, expired>>

(* typer.Exit or an exception: the lock goes with the finally.               *)
Over(e) ==
  /\ ex' = [ex EXCEPT ![e] = [NoExport EXCEPT !.pc = "over"]]
  /\ LetGo(e)
  /\ UNCHANGED bundle

-----------------------------------------------------------------------------

Call(e, o, place) ==
  ex' = [ex EXCEPT ![e] = [@ EXCEPT !.opt = o, !.pc = place]]

(* Without the lock: run.json must show a run that is over.                  *)
Begin(e) ==
  /\ At(e, "out") /\ run.status \in Terminal
  /\ \E o \in Options : ~o.locking /\ Call(e, o, "check")
  /\ UNCHANGED <<lock, expired, bundle>>

(* acquire_repo_lock: one transaction that waits for nobody.  A row with the *)
(* same id is no obstacle.  (All that was taken from run.json before is the  *)
(* target path.)                                                             *)
Acquire(e) ==
  /\ ex[e].pc = "out" /\ Exists
  /\ \E o \in Options : o.locking /\ Call(e, o, "locked")
  /\ \E w \in Worker \cup {e} :
       /\ lock # None /\ lock \notin expired => id[lock] = w
       /\ id' = [id EXCEPT ![e] = w]
  /\ lock' = e
  /\ UNCHANGED <<lifecycle, expired, bundle>>

(* The run is not over, the lock is busy (exit 8), the database fails, ...   *)
Turned(e) == At(e, "out") /\ Exists /\ Over(e)

(* run.json once more, under the lock.                                       *)
Reread(e) ==
  /\ At(e, "locked") /\ run.status \in Terminal
  /\ Proceed(e, "check")
  /\ UNCHANGED <<lock, expired, bundle>>

(* The run is not over, its run.json cannot be read, or names another target *)
(* than before.                                                              *)
RereadFails(e) == At(e, "locked") /\ Over(e)

MayStart(e) == bundle = None \/ ex[e].opt.force

(* The list of files, without the event log in a redacted bundle.            *)
Collect(e) ==
  /\ At(e, "check") /\ MayStart(e)
  /\ LET listed == OnDisk \ (IF ex[e].opt.redact THEN {EventLog} ELSE {})
     IN  ex' = [ex EXCEPT ![e] =
                  [@ EXCEPT !.todo = {i \in DOMAIN Members : Members[i] \in listed},
                            !.pc = "read"]]
  /\ UNCHANGED <<lock, expired, bundle>>

(* Also for a *.wal file that an interrupted write left, or an output        *)
(* directory that cannot be made.                                            *)
Refuse(e) == At(e, "check") /\ Over(e)

IsNext(e, i) == i \in ex[e].todo /\ \A j \in ex[e].todo : i <= j

(* _read_and_hash: one read for both.                                        *)
WithFile(x, i) ==
  LET read == [x.bytes EXCEPT ![Members[i]] = Content(Members[i])]
  IN  [x EXCEPT !.todo = @ \ {i}, !.hashes = read, !.bytes = read]

ReadFile(e) ==
  /\ At(e, "read")
  /\ \E i \in DOMAIN Members :
       /\ IsNext(e, i) /\ Members[i] \in OnDisk
       /\ ex' = [ex EXCEPT ![e] = WithFile(ex[e], i)]
  /\ UNCHANGED <<lock, expired, bundle>>

(* It has been removed since it was listed.                                  *)
FileGone(e) ==
  /\ At(e, "read")
  /\ \E i \in DOMAIN Members : IsNext(e, i) /\ Members[i] \notin OnDisk
  /\ Over(e)

Release(e) ==
  /\ At(e, "read") /\ ex[e].todo = {}
  /\ Proceed(e, "pack")
  /\ LetGo(e)
  /\ UNCHANGED bundle

(* The metadata and the archived run.json are redacted alike, and the hash   *)
(* is taken again; no other file is.                                         *)
Redacted(e, f) ==
  IF ex[e].opt.redact THEN [f EXCEPT !["run.json"].sensitive = "[REDACTED]"] ELSE f

(* Seeded fault: the hash of the unredacted run.json is left.                *)
FirstHashes(e) == ex[e].hashes

Hashes(e) == Redacted(e, ex[e].hashes)

(* The manifest, signed or not, and the files go to a temporary tar file,    *)
(* which then takes the place of the bundle.                                 *)
Publish(e) ==
  /\ At(e, "pack")
  /\ bundle' = [hashes |-> Hashes(e),
                bytes |-> Redacted(e, ex[e].bytes),
                meta |-> Archived(ex[e].bytes["run.json"],
                                  IF ex[e].opt.redact THEN "[REDACTED]" ELSE "plain"),
                profile |-> IF ex[e].opt.redact THEN "redacted" ELSE "full",
                omitted |-> IF ex[e].opt.redact THEN {EventLog} ELSE {},
                signed |-> ex[e].opt.sign]
  /\ ex' = [ex EXCEPT ![e] = [NoExport EXCEPT !.pc = "over"]]
  /\ UNCHANGED <<lock, expired>>

(* gpg or the output directory fails.                                        *)
PublishFails(e) == At(e, "pack") /\ Over(e)

(* The process dies: a row it holds stays.                                   *)
Die(e) ==
  /\ ex[e].pc \notin {"out", "over"} /\ UNCHANGED <<lifecycle, id>>
  /\ ex' = [ex EXCEPT ![e] = [NoExport EXCEPT !.pc = "over"]]
  /\ UNCHANGED <<lock, expired, bundle>>

(* 300 seconds pass since the row was written.                               *)
Expire ==
  /\ lock \notin expired \cup {None}
  /\ expired' = expired \cup {lock}
  /\ UNCHANGED <<lifecycle, id, lock, ex, bundle>>

Export(e) == Begin(e) \/ Acquire(e) \/ Turned(e) \/ Reread(e) \/ RereadFails(e)
             \/ Collect(e) \/ Refuse(e) \/ ReadFile(e) \/ FileGone(e)
             \/ Release(e) \/ Publish(e) \/ PublishFails(e) \/ Die(e)

Next == \/ RunNext /\ UNCHANGED <<id, lock, expired, ex, bundle>>
        \/ \E e \in Exporter : Export(e)
        \/ Expire

Spec == Init /\ [][Next]_vars

-----------------------------------------------------------------------------

(* verify_audit: nothing is missing, nothing unexpected, every hash is that  *)
(* of the archived bytes, and the profile fits the omissions.                *)
Verifies(b) ==
  /\ \A n \in Name : b.hashes[n] = b.bytes[n]
  /\ IF b.profile = "full" THEN b.omitted = {}
     ELSE b.omitted = {EventLog} /\ b.hashes[EventLog] = Unread

Local == [pc : {"out", "locked", "check", "read", "pack", "over"},
          opt : Options, todo : SUBSET (1 .. 3),
          hashes : Archive, bytes : Archive]

Bundle == [hashes : Archive, bytes : Archive, meta : ArchivedRun,
           profile : {"full", "redacted"}, omitted : SUBSET {EventLog},
           signed : BOOLEAN]

(* Type invariant.                                                           *)
TypeOK ==
  /\ RunTypeOK
  /\ id \in [Exporter -> Worker \cup Exporter \cup {None}]
  /\ lock \in Exporter \cup {None}
  /\ expired \subseteq Exporter
  /\ ex \in [Exporter -> Local]
  /\ bundle \in Bundle \cup {None}

(* A bundle that can be found is a whole one that verifies, whatever the     *)
(* commands did to the files while they were read and whenever the export    *)
(* died; its metadata are those of the run.json inside, redacted in both or  *)
(* in neither; and a redacted one has no event log.  (The other files are    *)
(* not redacted, whatever is in them.)                                       *)
BundleIsTrue ==
  bundle # None =>
    /\ Verifies(bundle)
    /\ bundle.meta = bundle.bytes["run.json"]
    /\ bundle.profile = "redacted" <=> bundle.meta.sensitive = "[REDACTED]"

(* No other export has taken the lock with the id of this one.               *)
Alone(e) == \A f \in Exporter \ {e} : id[f] # id[e]

(* An export that reads under the repository lock has the row until its 300  *)
(* seconds are over: neither another export nor the late release of one that *)
(* was overtaken takes it away.  That holds among different ids: exports for *)
(* one worker take the row over from each other, and the first that is done  *)
(* deletes it.                                                               *)
LeaseHolds ==
  \A e \in Exporter : Holding(e) /\ e \notin expired /\ Alone(e) => lock = e

=============================================================================
