# A TLA+ verification of Josh Room's shared storage and session evidence

Josh Room saves developer workspaces ("Rooms") to a Dimension: a bucket with
one encrypted catalog object, encrypted JAT objects and, for native recovery
points, a Restic repository.  Several machines work on one Dimension with no
server of their own between them.  What holds the system together is the order
of each command's requests, the conditional PUT of the catalog and the receipts
a command leaves when it stops half way.  Beside it, Josh Room harvests the
transcripts of coding sessions: hooks enqueue triggers in a local outbox, and
processes turn them into encrypted evidence and deliver it to the bucket.  What
holds that together is the leased records of the outbox and the order in which
files, objects and records are written.  Around these two parts stand the
protocols by which machines agree on keys, move a Dimension to a new key,
publish large objects, and decide whether an edited workspace is saved.

Source paths below are relative to `src/src/josh_room/` unless they start with
`src/`.

## 1. Inventory

| Component | State | Operations | Interacts through |
|---|---|---|---|
| Room catalog (`catalog.py`, `logical_jat.py`, `room_store_references.py`) | revision, records per Room, latest per Room | add, remove, promote, reachability index | value passed between the commands and the provider |
| Native saves (`room_store_operations.py`, `room_store_bridge.py`, `room_store_components.py`) | what the command read, the descriptor it builds, workspace marker | save, restore, verify | catalog, Restic repository, bucket, workspace |
| Copies and removals (`room_store_lifecycle.py`, `operations.py`, `cli.py`) | source and destination contexts, removal plan, receipts | import, copy, stream copy, remove, cleanup, portable save | same |
| Object provider (`r2.py`, `s3.py`, `minio.py`) | objects and ETags; multipart state | conditional PUT, create-only PUT, read-back, multipart, control objects | HTTP; answers can be lost |
| Evidence outbox (`pcc_outbox.py`, `pcc_enqueue.py`) | queue records with owner, lease and stage; prepared ciphertext; quarantine | enqueue, claim, takeover, transition, prepare, release, reconcile, expand | files under a lock, several processes |
| Harvest (`harvest.py`, `harvest_bridge.py`) | the claim of the current process | run, drain, retry, quarantine, discard, reconcile | outbox, transcripts, provider |
| Evidence upload (`r2.py`) | local upload state, claim object, parts | claim, upload parts, complete, verify, abort | provider |
| Encryption migration (`operations.py`, `cli.py`) | journal, mapping of objects | plan, resume, reconcile, switch catalog | journal and catalog of one bucket |
| Keysets (`auth.py`, `encryption_domain.py`, `r2_room_store_material.py`) | keyset control object or Durable Object record, repository, cached secrets | enroll, upgrade, initialize, bind repository | control objects, OAuth worker, Restic, key ring |
| Workspace state (`workspace_state.py`, `local_save_receipt.py`) | marker, local save receipt | write, invalidate, probe | files in the workspace, read by the extension |
| Cancellation (`cancellation.py`) | pending signal, owned processes | cancel, defer, terminate | every command |
| Scheduler (`scheduler.py`), hooks (`pcc_hooks.py`) | definitions on disk, native job | install, status, remove | systemd, launchd, tool configuration |
| OAuth worker (`src/worker/src/index.js`) | session and Room store objects | start, callback, poll, claim | Durable Object transactions |
| VS Code extension (`src/vscode-extension/`) | Room status, event generation, trusted receipt, running command | mark dirty, save, refresh | command line, file watchers |

Hard behaviours, and the hazards of `PROJECT.json` they give rise to: commands
of two machines interleave at every request; a command uses a catalog it read
minutes ago; a PUT's answer is lost, the PUT is repeated by the SDK or applied
after its sender gave up; one of several deletions fails; a process dies between
the commit and its receipt; leases expire while their owner still works; an
unconditional request is fenced by an object that a dead host may own; files
change while they are scanned, backed up and compared.

What makes each part correct: the catalog never names something that is gone,
never loses a committed record and always satisfies its own validation; a
command reports only what is true; a removal takes only what was confirmed and
leaves nothing unrecorded; a trigger is delivered once and never stranded; an
upload ends with exactly the bytes that were prepared; a migration can stop
anywhere and be resumed, and changes nothing but the key; one identity, one
secret and one repository win; a recovery point holds what its signature says,
and a workspace is called saved only when it is.

## 2. Modules

| Module | Models |
|---|---|
| `Catalog` | the catalog as a value: `AddSnapshot`, `RemoveRecords`, `PromotedLatest`, `RemovableObjects`, `UnreachableSnapshots`, `References` |
| `RoomStore` | the commands of several machines on one Dimension; extends `Catalog` |
| `MCRoomStore` | symmetry and views for TLC |
| `RoomStoreProofs` | theorems about `RoomStore`: types, and the catalog never dangles |
| `RoomLedgerProofs` | theorems about what the catalog records and what commands report of it; extends `RoomStoreProofs` |
| `RoomGarbageProofs` | the theorem that unlinked snapshots are accounted for; extends `RoomLedgerProofs` |
| `Outbox` | queue records as values: claim, takeover, transition, release, expand, merging |
| `Harvest` | hooks, `run`, `drain`, the scheduled command and the operator's commands of several processes over one outbox and one bucket; extends `Outbox` |
| `MCHarvest` | symmetry for TLC |
| `HarvestProofs` | theorems about `Harvest` |
| `EvidenceObject` | what publishing an evidence object promises: a key that is written at most once, and receipts only for right bytes |
| `EvidenceUpload` | the protocol that publishes it, single PUT and multipart, by several hosts; implements `EvidenceObject` |
| `EvidenceUploadProofs` | theorems about `EvidenceUpload` and that it implements `EvidenceObject` |
| `Migration` | `encryption resume` by several machines on one bucket |
| `MigrationProofs` | theorems about `Migration` |
| `Keyset` | how machines come to share an identity, a secret and a repository, on MinIO and R2 |
| `KeysetProofs` | theorems about `Keyset` |
| `WorkspaceSave` | the extension's Room status and the save command over a workspace that is edited meanwhile |
| `WorkspaceSaveProofs` | theorems about `WorkspaceSave` |

Operators marked `[Faulty variant]` are plausible bugs; each stands before the
definition it is a variant of and is used to confirm that a property notices it.

### State of RoomStore

`etag` and `catalog` are the catalog object: every applied PUT increments
`etag`, which is faithful because each PUT carries a freshly encrypted body, so
no two bodies share an ETag.  `stored` is the set of objects and Restic
snapshots that exist; each is named after the command that stored it.
`inflight` holds PUTs that can still be applied.  Per client, `pc`, `op`,
`seen`, `draft` and `task` are the local variables of the running command.
`marker`, `verdict`, `todo` and `orphans` are what commands leave behind: the
workspace marker, the publication state they reported, the artifacts that
receipts ask to reconcile, and objects recorded as uploaded but unreferenced.
`age`, `removed`, `confirmed`, `lost` and `uncollected` are history that no
command reads.

### Actions and code

| Command | Actions | Code |
|---|---|---|
| save | `OpenForSave`, `Backup`, `PutDescriptor`, `Publish`, `PublishFails`, `Verify`, `WriteMarker` | `RoomStoreOperations.save`, `publish_descriptor` |
| import | the same without the marker; `FailureReceipt` | `copy_logical_jat_to_dimension`, destination side |
| copy | `OpenCopySource`, `OpenCopyDestination`, `PutDescriptor`, publication as for save | `copy_logical_jat_as_new` |
| create | `UploadSnapshot`, `ReadCatalogForCreate`, publication and marker as for save | `operations.create_snapshot` |
| stream-copy | `ReadStreamSource`, `ReadStreamDestination`, `TransferStream`, publication as for save | `snapshot copy`, `copy_snapshot_stream` |
| remove | `ConfirmRemoval`, `OpenRemoval`, `PublishRemoval`, `RemovalFails`, `VerifyRemoval`, `DeleteObject`, `EndDeletion`, `OpenFresh`, `LoadDescriptors`, `Forget`, `ForgetFails`, `DeferCleanup` | `remove_logical_catalog_records`, `complete_logical_catalog_removal` |
| remove-jat | `ConfirmRemoval`, `OpenJatRemoval`, `PublishRemoval`, `RemovalFails`, `VerifyRemoval`, `DeleteObject`, `EndDeletion` | `operations.remove_room`, `remove_snapshot` |
| any | `Abort` (exceptions, failed checks, cancellation), `Crash` | error handlers |
| provider | `Applied`, `Unapplied`, `Answers`, `DeliverLate` | `conditional_catalog_put` and S3 |

A conditional PUT and its read-back are two steps.  `Publish` and
`PublishRemoval` are the PUT when it is applied; the sender does not know yet.
`Verify` and `VerifyRemoval` read the catalog back and report: committed only if
nobody has replaced the catalog in between, otherwise unverified
(`published=True`), as after an error; and rejected (`published=False`) if the
412 answers the SDK's own repeat.  `PublishFails` and `RemovalFails` are the PUT
that is not applied while its sender waits; after an ambiguous answer it may be
applied later or never.  `MaxAttempts` has the code's default of 4 in every run
(`r2.py:182`, `minio.py:88`); only whether it is above one matters.  A removal
opens the fresh catalog in one step and loads the descriptors it names in
another; a removal by another machine in between makes it defer the cleanup.

### State of Harvest

One session is modelled.  Its transcript is a number of records (`length`) that
grows.  A segment's event id is a digest of its records and of the segment
before it, so a segment is represented by its chain: the set of positions at
which the transcript was cut, up to its own end.  Two runs that cut differently
therefore produce different events, two that cut alike the same ones.  The
checkpoint of a record is the span of its segment; triggers carry `Zero`, and
an index record carries its parent's.

`queue` holds one record per event: state, stage to resume from, owner, whether
the lease is live, sequence number, checkpoint and, for an expanded trigger,
the new cursor.  `prepared` says whether the event has no ciphertext, only the
ciphertext file, or also the record that makes it complete.  `bucket` is the
set of evidence and index objects.  `host` remembers into which record each
hook's trigger was stored.  `proc` is one record per process: where it is and
the local variables of its loop.  `faults` counts the faults still allowed.

A process draws a fresh owner token for every record it picks.  The model uses
the process's name and turns it into `Gone` when the process moves on or dies:
like the token, it never matches again.

| Code | Actions |
|---|---|
| `process_codex_hook`, `_enqueue_authority` | `Hook` |
| `harvest run`, `_claim_prepare` | `Begin`, `RunNext`, `RunClaim`, `RunRelease` |
| `HostHarvestBridge.prepare`, `_prepare_event`, `_prepare_index_event` | `Plan`, `Snapshot`, `EnqueueChild`, `ClaimChild`, `SnapshotChild`, `Encrypt`, `ReleaseChild`, `Expand`, `FailChild`, `Fail` |
| `harvest drain`, `_claim_prepared`, `publish_outbox_evidence` | `DrainNext`, `DrainClaim`, `Check`, `Upload`, `MarkUploaded`, `PutIndex`, `PublishIndex`, `VerifyIndex`, `Commit`, `Fail` |
| `harvest run --drain` (scheduler) | `Begin` with "schedule", `EndRun` |
| `retry`, `quarantine` | `BeginOperator`, `Operate`, `Apply` |
| failing writes, leases, process death | `WriteFails`, `Expire`, `Crash` |

Each outbox operation holds the lock file while it reads and rewrites one
record, so it is one step.  Encryption and the publication of its result are
one step because nothing another process can see happens between them; a crash
or a failing write inside is an outcome of `Crash` and `WriteFails`.  A write
that takes effect and is then reported as failed leaves the state that a failure
of the following write leaves, so it is not a case of its own.  A request to the
bucket may fail before or after it was applied.

Left out: the final marker of a session and its `session-final` event, asset
events, the list of ids merged into a record, metadata and its validation, the
workspace scope of records (all belong to one scope), `--max-seconds`, and
objects in the bucket that differ from what was uploaded (the code repairs a
damaged index when it delivers the record again).  `retry_all` is a sequence of
`retry`; `plan`, `status`, `inspect`, `reconcile` and `discard` write nothing
except that inspecting the outbox sweeps ciphertext without a record, which the
actions that inspect do too.

### EvidenceUpload and EvidenceObject

Hosts hold the same ciphertext (evidence is named by its digest).  `object` is
what is under the key: who wrote it and whether the bytes are right.  `claim` is
the fence in the claim object, `upload` the provider's multipart uploads,
`pending` the requests that had no answer and may still be applied.  `saved` is
each host's state file: the fence it drew, the upload id, the parts that were
accepted.  `Begin` to `Verify` are the steps of
`_put_evidence_multipart_locked`, one per request: read the key, load or create
the state file, claim, create the upload, send parts, complete, read back.
`Put`, `VerifyPut` and `SettlePut` are `_put_evidence_single`.  `Reset` is
`_reset_evidence_upload`.  A completion has no condition; that nothing is
overwritten rests on the claim and on the read-back that precedes the claim.
The stage recorded in the state file is written and never read and is left out.

`EvidenceObject` has two actions, `Publish` and `Acknowledge`; `CreateOnce` says
that every behaviour of `EvidenceUpload` is one of `EvidenceObject` under the
mapping of `object` and `receipts` to themselves.

In `Harvest` an upload is one step that may fail; `EvidenceObject` is the
promise which justifies that.

### Migration

The catalog is a key domain ("legacy" or "new"), a set of names and an ETag; a
legacy catalog names documents, a new one ciphertext copies.  `journal` is the
control object, `mine` each machine's copy of it with the ETag it was read
under, `plan` the catalog it read, `unstored` the copies whose PUT failed.
`Begin` to `ReadLegacy` are `encryption resume` in `cli.py`, `Plan` and
`WritePlan` are `plan_encryption_migration`, `Migrate` to `Switch`
`migrate_encryption`.  `Update` is every journal update, with the table
`Updates` for what it writes and where the command goes when it succeeds or
fails.  `Save` and `Remove` are commands of machines that do not migrate, in
either domain; `Delete` is the removal's second half, which may never happen.
`removed` and `deleted` are what they took out of the catalog and out of the
bucket, so a journal may list a copy that is gone; `Available` is what
`_verify_destination_object` finds.  The switch is a PUT (`Switch`) and a
read-back (`ReadBack`), between which another machine may replace the catalog.
The deletion of the legacy objects by hand is not modelled.  The command reads the journal several times; each read is a step.

### Keyset

`keyset` is the durable record: no keyset (version 0), an identity (1), a secret
(2), and then the bound repository.  On MinIO it is a control object, on R2 the
record of a Durable Object, which starts without an identity because that is
configured.  The `etag` of a record stands for the ETag on MinIO and for the
comparisons in the Durable Object's transaction on R2.  `repository` is the
Restic repository, which `restic init` creates only where there is none.
`Enroll`, `WriteEnroll`, `Enrolled` are `ensure_minio_domain`; `Ensure` to
`Winner` are `ensure_room_store_keyset` and `ensure_material_details`; `Open` and
`InitRepository` are `ResticStore.initialize`; `Bind`, `WriteBind`, `Bound` are
the two `bind` functions.  Every value that code draws at random is the
machine's name and a counter.

### WorkspaceSave

The workspace is a version number that each edit increases, and the stat
signature is that number.  `points` are all recovery points of the Room that were
ever published, with the signature they were published with and the version that
Restic read; `removed` are those that another machine has removed since,
`latest` and `revision` the catalog's.  `marker`
and `receipt` are the two files the command writes.  `cli` is the command, one
step per scan, request and file; `ed` is `saveRoom`, one step between two
awaits; `room` is `roomStatus`, `workspaceBindingTrusted` and
`trustedSaveReceipt`.  The extension compares copies of
`workspaceEventGeneration` with the counter; the model keeps in `current` the
set of copies that are still equal, so the counter needs no bound.  `Edit` may
queue an event or, for files VS Code does not report, none; `Deliver` is its
arrival.  `Terminal` is a whole save from a terminal between two steps of the
window, `Foreign` a save by another machine, `ForeignRemove` its removal of
recovery points, whether or not the marker and the receipt name them, `Reload` a new window while the
command of the old one goes on.

Markers have format 3 and the Dimension is a MinIO one.  Left out: the preview
and the dialogs, which only stop a save; images and other components; changes of
the capture policy; two commands of one window at the same time.

## 3. Runs

| Run | Instance | Properties |
|---|---|---|
| `native` | 2 clients, 2 Rooms, 2 ids; save, copy, remove; server errors, late PUTs, failed cleanup, crashes | `NoDanglingReference`, `NoLostUpdate`, `CatalogWellFormed` |
| `portable` | 2 clients, 1 Room, 2 ids; portable and native saves and removals with the confirmed revision; transport errors, late PUTs | `SafetyInvariant`, `OnlyConfirmedRemoved`, `CommittedIsPublished`, `RejectionIsFinal`, `OrphansStayUnreferenced` |
| `crash` | 1 client, all commands but copy; server errors, late PUTs, failed cleanup, crashes; portable JATs that share an object | `TypeOK`, `NoDanglingReference`, `NoSilentGarbage` |
| `collect` | 2 clients, 1 Room, 2 ids; import and remove, no faults, fairness | `GarbageIsSettled` |
| `stream_copy` | smallest instance that shows the finding | `NoDanglingReference`, violated |
| `harvest_race` | 2 processes, 2 triggers, 2 records in segments of 1; run and drain, one early expiry | `CursorCovered`, `CommittedIsDurable` |
| `harvest_faults` | 2 processes, 1 trigger, 1 record; all commands, any 2 faults of 8 kinds | `TypeOK`, `PreparedIsBacked`, `IndexAfterObject`, `StageNeverRegresses` |
| `harvest_live` | 1 process, 2 triggers, 3 records in segments of 2; the scheduled command only, one failing read, write or upload, fairness | `TriggerIsPrepared` |
| `upload` | 2 hosts, small or large, 2 parts, 2 attempts; any 3 faults of 10 kinds; fairness | `TypeOK`, `OwnerUploads`, `NothingLeftToWrite`, `CreateOnce`, `EveryHostIsServed` |
| `migration` | 2 machines, 1 document, 2 saves or removals by others; any 2 faults of 7 kinds; fairness | `TypeOK`, `CopiesExist`, `CommittedIsSwitched`, `SwitchKeepsContents`, `CompletesOrOutdated` |
| `keyset` | 2 machines, both providers; any 2 faults of 5 kinds; fairness | `TypeOK`, `LosersAdoptTheWinner`, `UsersAgree`, `MaterialIsFinal`, `EveryMachineOpens` |
| `workspace` | 2 edits, reported or not, any 1 fault of 5 other kinds; with and without an earlier save; fairness | `TypeOK`, `PointsAreExact`, `AnswersAreTrue`, `AnswersAreCurrent`, `SavedIsTrue`, `SettlesOrBehind` |

What the runs show.  `native`: two machines' saves, copies and removals can
interleave at every request, read-backs included, and the catalog stays true.
`portable`: whatever the SDK repeats and the network delays, "committed" is said
only of what was published, and a record or object that was unpublished when a
command said so never becomes published.  It is not shown, because it is false
(`RejectedIsUnpublished`, section 4), that whatever is reported rejected or
orphaned is unpublished.
`crash`: a snapshot that a removal unlinks is forgotten or in a receipt, with two
exceptions that the statement names: the process died before the receipt, or it
was told of a precondition failure by the SDK's repeat.  `collect`: even without
faults a removal does not always forget what it unlinks, since another machine
may replace the catalog before the read-back or delete a descriptor before it is
loaded; it always comes to an end, and then a receipt names what is left, except
for a precondition failure.

`harvest_live`: left to the scheduler alone, what a session has written when a
trigger is queued is prepared in the end, or one of the states of `Blocked` is
reached; without failures none is.  That what is prepared is also delivered, or
that every hook is served, is false (`PreparedIsDelivered` and `HookIsServed`,
section 4).

`upload`: although completions are unconditional
the key is written once, and every host gets its receipt unless bytes were
spoilt or a state file was lost; with a lost state file the claim is held for
ever and no other host may take it, as `docs/R2-SETUP.md` says.  `migration`: the
switch neither drops nor adds a document, whatever is saved or removed meanwhile
and however late it is applied; what the new catalog names is in the bucket; a
journal says committed only when the catalog is switched; and
resuming completes the migration except in the state `Outdated` (section 4).
`keyset`: whoever loses a race adopts what the winner wrote, nothing written is
ever replaced, and both machines get to use the store again and again.
`workspace`: recovery points are exact; whichever shortcut answers a save, it
names a point that was published with everything on disk when the save was
started, even when VS Code reported no event; the status bar says Saved only when
that is true of the last published save, up to changes that had no event.  A
local receipt does not say that the point still exists: `read_noop` contacts
nobody, and `local_save_receipt.py:3` disclaims it.  An answer that did read the
catalog names a point that nobody had removed when the save was started.  Saving
settles the status except in the state `MarkerBehind` (section 4).

Bounds of RoomStore.  The only counter bound is the number of ids: every save,
import or copy draws one, and a record id is never drawn again.  Two clients are the smallest
number that interferes; the interference goes through the catalog object, where
any number of other clients looks like one that moves between any two requests.
Two ids give a parent and a child that reuses the parent's snapshots, or a
record and a competing publication.  `etag` and
`revision` are bounded by the ids, since a removal needs a record to remove.
Clients are symmetric in `native` and `portable`, which differ in no constant
and no action for them.  These two runs also tell states apart by a view: it
leaves out variables that commands write and never read (receipts, markers,
reports) and that no property of the run mentions, so two states that agree on
the rest have the same successors as far as the run can see.  `collect` uses
neither.  `crash` has one client because with two a copy within the Dimension
violates `NoDanglingReference` (run `stream_copy`).  The passing runs of RoomStore have 0.6 to
4 million distinct states and take at most two minutes.  Deadlock
is not checked: when the ids are used up and nothing is left to remove, every
client is idle and the system rightly stops.

Bounds of Harvest.  `MaxRecords` bounds the transcript: with two records a
trigger has a predecessor's cursor to resume from, a segment boundary in the
middle, and growth between any two steps.  `MaxFaults` bounds the faults of a
behaviour: two let a fault hit the recovery from another.  Two processes contend
for every record; a third adds nothing to a lease, which one owner holds while
any other is refused.  The scheduled command's limit of 100 becomes 2, so that
one iteration follows another; the other commands have their default limit of
one.  `MaxSegments` stands for 64 child events
and is above what the transcripts need.  Deadlock is not checked: a session may
end with nothing left to do.

Bounds of the other modules.  `MaxFaults` bounds the faults of a behaviour; with
two, or three in `upload`, a fault hits the recovery from another.  Two hosts or
machines contend for every claim, journal and keyset.  In `EvidenceUpload` two
parts distinguish an upload that is partly sent; `MaxUploads` is one more than
`MaxFaults`, because only a fault makes a host start another upload.  `MaxSaves`
lets one change hit the migration at each step and another follow it, which may
bring back the same contents under another ETag.  One document is copied or not;
partly copied catalogs have been checked in a larger instance (two documents, one
save or removal: 2.0 million states, all five properties), which takes too long
to be kept as a run.  `MaxEdits` in `WorkspaceSave` counts changes of files and
documents; two let a change arrive during the save and another after it, each with
an event or without.  Larger instances have been checked too: with two faults the
invariants (7.2 million states), with one edit and two faults all six properties.
`upload` and `migration` stop when every host has its receipt and when the
journal is committed, and there deadlock is not checked; in `keyset` and
`workspace` it is.

Fairness.  `FairSpec` assumes weak fairness of the steps a removal takes after
its PUT, the read-back first.  They wait for nobody: the process that committed executes them one
after another, and in the instance it neither crashes nor meets an error.

For `Harvest`, `FairSpec` assumes that a command that was started goes on, that
the lease of an owner who is gone runs out, and that each command of the
instance is started again and again (strong fairness, because the one process
is busy in between).  In `harvest_live` the only command is the scheduled
`harvest run --drain`, which the scheduler starts on a timer; nothing is assumed
of users.  It has one process: each native scheduler keeps
its job from overlapping itself (`scheduler.py:537`, `:554`, `:562`), and with
two unsynchronised processes that are restarted for ever one can always find the
other's lease in its way.

For `EvidenceUpload`, each host's attempt goes on and is repeated until it has
its receipt, and a request under way ends.  That is what a user gets who repeats
`drain`; the scheduled drain runs only after a run without failures, which may
never happen (`PreparedIsDelivered`, section 4).  For `Migration`, somebody resumes the migration
while it is not committed: weak fairness of the machines together, since a
command waits for nobody.  For `Keyset`, each machine's command goes on and the
user repeats one that failed.  For `WorkspaceSave`, events are delivered, the
command and the extension go on, documents are saved or reverted in the end, and
the user saves again and again; edits and faults are not fair and are bounded.

## 4. Findings

* `stream_copy`: `README.md:195` says that objects remain protected whenever
  another snapshot references them.  `snapshot copy` reads the source catalog
  and then the destination catalog.  If both are the same Dimension and a
  removal commits between the two reads, the copy publishes a record that names
  the object which the removal deletes next.

More statements that the code does not keep are definitions of the modules.
They are not among the runs; TLC finds each violated in the instance given.

| Definition | Said in | What happens | Instance |
|---|---|---|---|
| `MarkerIsPublished` | `docs/room-store-bridge.md:57`: the marker is updated only after a known catalog commit | a server error is raised with `published=True`, and `save` then writes the marker | one client, two ids, save, fault "unverified" |
| `AbandonedIsSelectable` | `docs/pcc-hooks.md:44`: crashes are recovered by reconciliation | a trigger whose run died while it was claimed or source-snapshotted is selected by no command, also when its lease has expired | one process, one trigger, one record; run, drain, retry, quarantine; fault "crash" |
| `RetryIsPossible` | `docs/pcc-harvest.md:22`: a failed operation remains retryable | if `drain` commits a segment of a run that failed later, each retry stops at that segment, which can no longer be claimed | the same with run and drain, fault "storage" |
| `RejectedIsUnpublished` | `docs/room-store-operations.md:21`: a callback reports known failure through an exception with `published=False` | the 412 that answers the SDK's repeat of an applied PUT is reported so too: the record is in the catalog, a portable JAT's referenced object is recorded as an orphan, and a removal's receipt asks for no reconciliation, although `docs/room-store-lifecycle.md` promises receipts when publication is uncertain | one client, two ids, save, no faults, `MaxAttempts = 4` |
| `PreparedIsDelivered` | `cli.py:342`: `--drain` delivers prepared records after offline preparation | the drain follows only a run without failures (`cli.py:1457`); a second trigger with nothing new is a failure that remains, so the drain is skipped each time | `FairSpec`, one process, schedule, two triggers, two records in segments of 1, no faults |
| `PreparedIsDelivered` | the same | a record that failed after its upload is picked by `run`, which cannot release it, each time | `FairSpec`, one process, schedule, one trigger, one record, fault "upload" |
| `HookIsServed` | `docs/pcc-hooks.md:44`: missed events are recovered | a trigger is merged into an index record, which carries its trigger's checkpoint and which `run` never selects | `FairSpec`, one process, two triggers, two records in segments of 2; run, drain and schedule, no faults |
| `LatestIsNewest` | `README.md:191`: deleting Latest promotes the newest remaining recovery point | the last key of a mapping serialised with sorted keys, the greatest random id, is promoted | one client, three ids, save and remove |
| `UncollectedIsRecorded` | `operations.py:444`, `:501`: cleanup is retried from a receipt | the receipt holds the number of failed deletions, not the keys | one client, create and remove-jat, fault "cleanup" |
| `FailureLeavesNoPreparedRecord` | `docs/superpowers/specs/2026-09-22-pcc-crypto-10-design.md:28`: a crash leaves no prepared record | the prepared record is published before the queue record | as for `AbandonedIsSelectable` |
| `NoRecordDeliveredTwice` | `harvest_bridge.py:222`: a trigger resumes without replaying the prefix | only an expanded predecessor counts; a run that starts before the expansion begins at zero | `harvest_race` with `SegmentRecords = 2`, no faults |

Liveness properties of the newer modules name the states from which the code
does not recover by itself:

* `Outdated` in `CompletesOrOutdated`: `cli.py:2789` asks for a fresh plan when
  the source catalog changed.  If the journal is active, however, `resume` stops
  at the comparison of ETags without recording a conflict, and no command plans
  again over an active journal, so the migration stays blocked.
* In `Migration` a catalog PUT without an answer, or one whose SDK repeat is
  answered 412, is recorded as "failed" although it may be applied; the journal
  then says failed over a switched catalog, and `resume` cannot read the catalog
  with the legacy key.  The same happens when another machine replaces the
  switched catalog before the read-back: the journal says cutover-published, the
  catalog no longer matches it, and reconciliation records a conflict.
  `CompletesOrOutdated` therefore speaks of the catalog and not of the journal.
* `Blocked` in `TriggerIsPrepared`: the rows above on abandoned and finished
  records, a record that waits for an operator, and a record that failed after
  its upload; the scheduled command leaves none of them by itself.
* `lost` in `EveryHostIsServed`: a host that has lost its state file can neither
  use nor replace its own claim.
* `MarkerBehind` in `SettlesOrBehind`: `extension.js:1594` says that "Save
  performs an authoritative check".  When a save was published and its marker was
  not written, or was written over by a slower save, later saves find the catalog
  unchanged, answer already saved and do not write the marker, and the status
  stays unknown until a file changes.

## 5. Proofs

Every invariant and action property that a run checks, and the refinement
`CreateOnce`, is also a theorem: it holds for every number of clients, machines,
hosts, processes, Rooms, ids and documents, for every set of faults and, except
where a hypothesis is named below, for every command and bound.
`PROJECT.json` names the definition each theorem is about.  A property that TLC finds true need not be inductive, so each
module defines a stronger invariant that is, and proves that it holds initially,
that every action preserves it (one lemma or step per action) and that it implies
the property.  Before it was proved, each invariant was checked with TLC as an
invariant of an instance like its run's (0.1 to 4 million states).

Assumptions on the constants are named in the modules that declare them and
evaluated by TLC in every run: ids are positive, finite in number and any set of
them has a greatest one (`IdsAssumption`, which `PromotedLatest` needs); bounds
are natural numbers; commands and faults are among those modelled;
`ProcessesAssumption` and `"save" \notin Machines` keep names from coinciding
with the models' own markers; `Parts \subseteq Nat`.

### RoomStoreProofs

* `TypeCorrect`, for all commands.
* `SafetyHolds` and, from it, `CatalogNeverDangles`: when "stream-copy" is not
  among the commands; with it `NoDanglingReference` is false, as run
  `stream_copy` shows.

`NoDanglingReference` is not inductive: it says nothing of what a client is
about to publish or delete.  `SafetyInvariant` adds

* `ReadFaithful`: a client whose ETag is current has read the current catalog;
* `DraftSafe`: what it is about to publish under a current ETag exists and is
  not in `Doomed`, the artifacts that committed removals are deleting;
* `RemovalPlanned`: a removal deletes only what its own new catalog does not name;
* `UploadPrivate`: the object of a portable JAT uploaded before its catalog is
  read is known to nobody else;
* `Numbered`, `DraftNamed`: artifacts carry ids already drawn, so a fresh id
  cannot name one of them;
* `InflightSafe`: the same for PUTs that may still be applied;
* `CatalogSafe`: the catalog names only what is stored and not doomed.

Once a removal commits, its targets leave the catalog and the ETag changes, so
every older draft that reuses them fails its PUT; every newer draft is built
from a catalog without them.  `QuietStep` covers the steps that leave provider
and claims alone, `AppliedStep` an applied PUT, `FinishSafe` the end of a
command.

### RoomLedgerProofs and RoomGarbageProofs

* `NoUpdateIsLost`, `CatalogStaysWellFormed`: no hypothesis; stream copies and
  SDK retries included.
* `CommitsArePublished` and `RejectionsAreFinal`: no hypothesis either.  That a
  rejected record is unpublished is not claimed: with SDK retries it is false
  (`RejectedIsUnpublished`, section 4).
* `OrphansStayOrphans`: no "stream-copy"; the argument uses that an object carries
  the id of the record that names it, which a copied record breaks.
* `OnlyConfirmedAreRemoved`: `ExpectRevision \/ "remove-jat" \notin Commands`.
  Without an expected revision the removal of a whole Room removes records
  saved after the user confirmed.
* `NoGarbageIsSilent`: the two hypotheses together.  A removal of portable JATs
  that also takes native records saved meanwhile leaves no receipt for their
  snapshots; and the proof rests on `SafetyHolds`, which excludes "stream-copy".
  `lost`, the exception in the statement, is what the code leaves unrecorded: the
  snapshots of removals that died before their receipt or were told of a
  precondition failure.  The theorem is that there is no third way to lose one.

`Ledger` says that every PUT that can still be applied was computed from the
current catalog, and either adds one record with an id never published
(`Publication`) or takes away records that are there (`Removal`); a draft under
a current ETag has the same shape (`Fresh`, `Aimed`).  `NoLostUpdate` follows
because an applied PUT changes the catalog only by what it means to.
`VerdictInv` and `OrphanInv` rest on `Dead(i)`: nothing under way can still
publish id `i`; an applied PUT whose sender still awaits the read-back counts as
published.  `ConfirmInv`: every applied PUT raises the revision, so a catalog
with the confirmed revision has the confirmed inventory.  `GarbageInv`: the claims
of two collectors are disjoint, and every Restic snapshot that an applied PUT
unlinks is claimed by its client, from the PUT on, in a receipt, or in `lost`.

### HarvestProofs

`HarvestTypeCorrect`, `PreparedStaysBacked`, `IndexesFollowObjects`,
`CommittedStaysDurable`, `CursorsSkipNothing` and `StagesNeverRegress`, with no
hypothesis.

`OutboxInv` relates a record's state to the stage it resumes from, gives an
owner only to records worked on, and says what a process has at each label.
`Move` reduces every action on the outbox to five kinds (keep, new,
advance, commit, expand), from which monotonic stages follow; `BucketInv` adds
what a delivering process has already put, which makes index-after-object
survive a takeover between two steps.  `CursorInv` says that below the top of
its chain a run has every segment and its index prepared or further, and that
the record it will expand is not itself a prepared one, except while the run
works on it as its own child; so when the cursor moves nothing below it is
missing.  That a nonempty set of sequence numbers has a
least and a greatest member comes from the library's well-foundedness theorems.

### EvidenceUploadProofs

`UploadTypeCorrect`, `OnlyTheOwnerUploads`, `NothingWritesTwice`, and
`UploadImplementsCreateOnce`: `Spec => CreateOnce`, the refinement of
`EvidenceObject`.  Fences are drawn once, so at most one state file owns the
claim; an open upload that a state file or a pending completion names is the
owner's (`HostInv`, `ProviderInv`); past the check the owner has seen the key
absent and only its own upload can write it.  So every step writes an absent
key, adds a receipt for bytes that are there, or is invisible (`Publishing`,
`Receiving`, `Silent`).

### KeysetProofs

`KeysetTypeCorrect`, `LosersAdopt`, `AllUsersAgree`, `MaterialStaysFinal`.
Every record a machine holds or has pending is `Writable`: it was made from a
version of the keyset, so under the same ETag it keeps what is written there,
and under another ETag it is refused.

### MigrationProofs

`MigrationTypeCorrect`, `CopiesAlwaysExist`, `CommittedMeansSwitched`,
`SwitchLosesNothing`.  ETags tell the versions of the legacy catalog apart
(`VersionInv`), so a switch that the provider accepts was planned from the
catalog it replaces; copies are named after the version of the journal and so are fresh, and
no copy that the journal, a pending request or the new catalog refers to is
unstored (`CopyInv`); what was removed is not named any more, is not named again,
and is a copy only after the switch (`RemovedInv`), so a deletion never takes what
the catalog names; a journal can be marked committed only after the switch
(`RequestInv`).  `Fit` says what each label of a machine relies on.

### WorkspaceSaveProofs

`WorkspaceTypeCorrect`, `PointsStayExact`, `EveryAnswerIsTrue`,
`SavedMeansSaved`.  A save's versions are ordered (scan, backup, rescan), so
equal signatures around the backup fix its contents; every receipt and marker
names a point that was published with the same signature (`Good`), whether or not
it has been removed since; while the
extension awaits its save without an event, the files differ from the save's
scan only by changes that VS Code did not report (`Unreported`).
`CatalogAnswersAreCurrent`: the latest point that a save reads, or publishes, was
not among the removed ones when the save was started (`BaseInv`), because a
catalog never names what was removed and ids are not drawn twice.

### Only model-checked

`GarbageIsSettled`, `TriggerIsPrepared`, `EveryHostIsServed`, `CompletesOrOutdated`, `EveryMachineOpens` and
`SettlesOrBehind` are liveness properties.  They need fairness, hence ENABLED,
which TLAPS does not handle, and stay with TLC.

## 6. Not modelled

Formats (JAT, envelope, descriptors, transcripts), encryption, restores and
verification (they read), capture policy, command lines and output, the
extensions' user interfaces, release scripts and vendored code.
`src/templates/room/vscode-extension/runtime/` and
`src/vscode-extension/runtime/` hold copies of the controller that
`scripts/sync_controller_sources.py` makes from `src/src/josh_room/`; what is
said of the original holds of them, and they make up most of the repository's
lines.  Of components that are partly modelled: the OAuth session handoff, login
and logout, the migration's preview, markers of format 2, `session-final` and
asset events, discovery of evidence.  Cancellation appears only as a command
that stops between two steps.  The local catalog, device authority, scheduler
installation and hook installation are local files that one command rewrites
under a lock or atomically.  Clock skew does not occur in the modelled part:
`RoomStore` decides nothing by time, and the outbox compares leases with the
clock of one machine.  `PROJECT.json` lists every component with the reason.

## 7. Plan

In this order:

1. An abstract atomic Dimension (publish and remove as single steps) that
   `RoomStore` implements; `Ledger` already says which PUT is which.
2. `Harvest` with two sessions, to say whether a trigger that fails each time
   holds up the others, and with transcripts beyond `MaxSegments`.
3. `Keyset` with a `restic init` that fails half way.
4. `LocalCatalog`, `Cancellation`, `Scheduler`, the OAuth session handoff.
