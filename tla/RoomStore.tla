----------------------------- MODULE RoomStore -----------------------------
(***************************************************************************)
(* The commands of several machines on one shared Dimension: an object     *)
(* bucket, a Restic repository and one catalog object replaced by          *)
(* conditional PUT (If-Match on the ETag the command read).                *)
(*                                                                         *)
(*   save         RoomStoreOperations.save                                 *)
(*   import       copy_logical_jat_to_dimension, seen by its destination   *)
(*   copy         copy_logical_jat_as_new (same Dimension)                 *)
(*   create       operations.create_snapshot (portable JAT)                *)
(*   stream-copy  operations.copy_snapshot_stream within one Dimension     *)
(*   remove       remove_logical_catalog_records, then                     *)
(*                complete_logical_catalog_removal on a fresh context      *)
(*   remove-jat   operations.remove_room / remove_snapshot (portable JATs) *)
(*                                                                         *)
(* Every request to the provider is a step of its own; a command may fail  *)
(* or its process may die between any two.  An ETag is a number that every *)
(* applied PUT increments: each PUT carries a freshly encrypted body, so   *)
(* no two bodies share an ETag.                                            *)
(***************************************************************************)
EXTENDS Catalog

CONSTANTS
    Clients,         \* machines; each has one workspace and runs one command
    Commands,        \* the commands that users give
    Faults,          \* the provider and process faults that may happen
    MaxAttempts,     \* botocore's attempts per request (r2 max_attempts)
    ExpectRevision   \* callers pass --expected-revision to the removals

CommandNames == {"save", "import", "copy", "create", "stream-copy",
                 "remove", "remove-jat"}

\*   unverified  a PUT is answered with a server error, or its read-back fails
\*   uncertain   a PUT fails in transport (timeout, connection closed)
\*   late        a PUT that failed in either way is applied afterwards
\*   cleanup     deleting an object or forgetting snapshots fails
\*   crash       a process dies between two steps
FaultNames == {"unverified", "uncertain", "late", "cleanup", "crash"}

ASSUME ParametersAssumption ==
    /\ Commands \subseteq CommandNames
    /\ Faults \subseteq FaultNames
    /\ MaxAttempts \in Nat \ {0}
    /\ ExpectRevision \in BOOLEAN

VARIABLES
    etag,       \* ETag of the catalog object; 0 while there is none
    catalog,    \* its decrypted body
    stored,     \* objects in the bucket and snapshots in the repository
    inflight,   \* conditional PUTs the sender gave up on, still undelivered
    used,       \* ids drawn so far
    pc,         \* where each client's command is
    op,         \* which command it is
    seen,       \* the [etag, body] it last read
    draft,      \* the record it is about to publish
    task,       \* the removal it is carrying out
    marker,     \* the snapshot id in each client's workspace marker
    verdict,    \* "committed" or "rejected" if a command reported either
    todo,       \* artifacts named in receipts that require reconciliation
    orphans,    \* objects named in "uploaded-unreferenced" receipts
    (* history, read by no command *)
    age,        \* the ETag with which an id entered the catalog, or 0
    removed,    \* records taken out by an applied removal
    confirmed,  \* ids the user was shown before confirming a removal
    lost,       \* snapshots of removals that died before their receipt, or were
                \* told of a precondition failure although they were applied
    uncollected \* objects a finished portable-JAT removal could not delete

remote  == <<etag, catalog, stored, inflight>>
local   == <<pc, op, seen, draft, task>>
reports == <<marker, verdict, todo, orphans>>
history == <<age, removed, confirmed, lost, uncollected>>
vars    == <<remote, used, local, reports, history>>

-----------------------------------------------------------------------------
NoRecord == [room |-> CHOOSE r \in Rooms : TRUE, id |-> NoId, kind |-> "native",
             object |-> <<"object", NoId>>, restic |-> {}]

NoTask == [room |-> CHOOSE r \in Rooms : TRUE, targets |-> {}, whole |-> FALSE,
           revision |-> 0, objects |-> {}, restic |-> {}, failed |-> {}]

Unread == [etag |-> 0, body |-> EmptyCatalog]

Task == [room : Rooms, targets : SUBSET OptId, whole : BOOLEAN, revision : Nat,
         objects : SUBSET Object, restic : SUBSET Snapshot, failed : SUBSET Object]

Read == [etag : Nat, body : CatalogBody]

Put == [etag : Nat, body : CatalogBody, adds : SUBSET OptId, removes : SUBSET OptId]

PCs == {"idle", "backup", "copy-destination", "create-catalog",
        "stream-destination", "stream-transfer", "descriptor", "publish", "verify",
        "marker", "remove-open", "remove-publish", "remove-verify", "delete",
        "fresh", "descriptors", "forget"}

Outcomes == {"committed", "unverified", "uncertain", "rejected"}

TypeOK ==
    /\ etag \in Nat
    /\ catalog \in CatalogBody
    /\ stored \subseteq Artifact
    /\ inflight \subseteq Put
    /\ used \subseteq Ids
    /\ pc \in [Clients -> PCs]
    /\ op \in [Clients -> CommandNames \cup {"none"}]
    /\ seen \in [Clients -> Read]
    /\ draft \in [Clients -> Record]
    /\ task \in [Clients -> Task]
    /\ marker \in [Clients -> OptId]
    /\ verdict \in [Ids -> {"none", "committed", "rejected"}]
    /\ todo \subseteq Artifact
    /\ orphans \subseteq Object
    /\ age \in [Ids -> Nat]
    /\ removed \subseteq Record
    /\ confirmed \subseteq OptId
    /\ lost \subseteq Snapshot
    /\ uncollected \subseteq Object

Init ==
    /\ etag = 0
    /\ catalog = EmptyCatalog
    /\ stored = {}
    /\ inflight = {}
    /\ used = {}
    /\ pc = [c \in Clients |-> "idle"]
    /\ op = [c \in Clients |-> "none"]
    /\ seen = [c \in Clients |-> Unread]
    /\ draft = [c \in Clients |-> NoRecord]
    /\ task = [c \in Clients |-> NoTask]
    /\ marker = [c \in Clients |-> NoId]
    /\ verdict = [i \in Ids |-> "none"]
    /\ todo = {}
    /\ orphans = {}
    /\ age = [i \in Ids |-> 0]
    /\ removed = {}
    /\ confirmed = {}
    /\ lost = {}
    /\ uncollected = {}

-----------------------------------------------------------------------------
(* Steps shared by the commands.                                           *)

Goto(c, label) == pc' = [pc EXCEPT ![c] = label]

\* The command returns or raises: its process keeps nothing.
Finish(c) ==
    /\ pc' = [pc EXCEPT ![c] = "idle"]
    /\ op' = [op EXCEPT ![c] = "none"]
    /\ seen' = [seen EXCEPT ![c] = Unread]
    /\ draft' = [draft EXCEPT ![c] = NoRecord]
    /\ task' = [task EXCEPT ![c] = NoTask]

\* read_catalog: HEAD, then GET with If-Match on the same ETag.
ReadCatalog(c) == seen' = [seen EXCEPT ![c] = [etag |-> etag, body |-> catalog]]

\* The catalog read earlier is not used again.
Release(c) == seen' = [seen EXCEPT ![c] = Unread]

\* [Faulty variant] The ETag is refreshed just before the PUT, so that a
\* body computed from an older catalog is accepted.
PublishRequestRefreshed(c) ==
    [etag |-> etag, body |-> AddSnapshot(seen[c].body, draft[c]),
     adds |-> {draft[c].id}, removes |-> {}]

PublishRequest(c) ==
    [etag |-> seen[c].etag, body |-> AddSnapshot(seen[c].body, draft[c]),
     adds |-> {draft[c].id}, removes |-> {}]

RemoveRequest(c) ==
    [etag |-> seen[c].etag,
     body |-> RemoveRecords(seen[c].body, task[c].room, task[c].targets),
     adds |-> {}, removes |-> task[c].targets]

\* [Faulty variant] An unconditional PUT.
AcceptsAlways(put) == put.etag <= etag

\* The provider evaluates If-Match / If-None-Match at the moment it applies.
Accepts(put) == put.etag = etag

\* An applied PUT.  Requests made against the old ETag can never apply.
Apply(put) ==
    /\ etag' = etag + 1
    /\ catalog' = put.body
    /\ inflight' = {}
    /\ age' = [i \in Ids |-> IF i \in put.adds THEN etag' ELSE age[i]]
    /\ removed' = removed \cup {r \in catalog.records : r.id \in put.removes}

Ambiguous == {"unverified", "uncertain"} \cap Faults

\* conditional_catalog_put is a PUT and then a read-back, each a request of its
\* own, and it tells its caller one of
\*   committed   applied, and the read-back agreed                  (returns)
\*   unverified  a ClientError other than a precondition failure, or the
\*               read-back failed or saw a later body       (published=True)
\*   rejected    precondition failure                       (published=False)
\*   uncertain   a transport error escapes                   (published unset)

\* The PUT is applied; its sender does not know yet.
Applied(c, put) ==
    /\ Accepts(put)
    /\ Apply(put)
    /\ seen' = [seen EXCEPT ![c] = [etag |-> etag', body |-> catalog']]

\* The PUT is not applied while its sender waits, and this is the outcome.
Unapplied(put, outcome) ==
    /\ outcome \in Ambiguous \cup (IF Accepts(put) THEN {} ELSE {"rejected"})
    /\ inflight' = IF Accepts(put) /\ "late" \in Faults THEN inflight \cup {put} ELSE inflight
    /\ UNCHANGED <<etag, catalog, age, removed>>

\* The outcomes of a PUT that was applied.  The read-back agrees only if
\* nobody replaced the catalog in between.  A 412 may answer botocore's own
\* retry of the request that applied.
Answers(c) == {IF seen[c].etag = etag THEN "committed" ELSE "unverified"}
                \cup Ambiguous \cup (IF MaxAttempts > 1 THEN {"rejected"} ELSE {})

\* A request whose sender gave up reaches the provider after all.
DeliverLate ==
    \E put \in inflight :
        /\ Accepts(put)
        /\ Apply(put)
        /\ UNCHANGED <<stored, used, local, reports, confirmed, lost, uncollected>>

-----------------------------------------------------------------------------
(* save and import                                                         *)

\* The native record a save builds on: the Room's latest, if it is native.
Parents(body, room) ==
    {r \in RoomRecords(body, room) : r.id = body.latest[room] /\ r.kind = "native"}

\* save: read_latest.  import: open the destination context.
OpenForSave(c, command, room) ==
    /\ pc[c] = "idle"
    /\ command \in Commands \cap {"save", "import"}
    /\ ReadCatalog(c)
    /\ draft' = [draft EXCEPT ![c].room = room]
    /\ op' = [op EXCEPT ![c] = command]
    /\ Goto(c, "backup")
    /\ UNCHANGED <<remote, used, task, reports, history>>

\* The snapshots a new descriptor names: a new workspace snapshot, or the
\* parent's when Restic skips an unchanged tree; and no component, a newly
\* captured one, or the parent's when its inputs are unchanged.
Captured(kind, parents, i) ==
    {{<<kind, i>>}} \cup {{a \in p.restic : a[1] = kind} : p \in parents}

Captures(parents, i) ==
    UNION {{w \cup k : k \in {{}} \cup Captured("component", parents, i)} :
             w \in Captured("workspace", parents, i)}

\* Load the parent's descriptor, list its workspace snapshot, capture the
\* components and back up the workspace.  A reused component is not looked
\* up in the repository.
Backup(c) ==
    /\ pc[c] = "backup"
    /\ LET parents == Parents(seen[c].body, draft[c].room)
       IN  /\ \A p \in parents :
                 {p.object} \cup {a \in p.restic : a[1] = "workspace"} \subseteq stored
           /\ \E i \in Ids \ used : \E restic \in Captures(parents, i) :
                 /\ used' = used \cup {i}
                 /\ stored' = stored \cup {a \in restic : a[2] = i}
                 /\ draft' = [draft EXCEPT ![c] =
                                [room |-> draft[c].room, id |-> i, kind |-> "native",
                                 object |-> <<"object", i>>, restic |-> restic]]
    /\ Goto(c, "descriptor")
    /\ UNCHANGED <<etag, catalog, inflight, op, seen, task, reports, history>>

\* publish_descriptor, first half: create the immutable descriptor object.
PutDescriptor(c) ==
    /\ pc[c] = "descriptor"
    /\ stored' = stored \cup {draft[c].object}
    /\ Goto(c, "publish")
    /\ UNCHANGED <<etag, catalog, inflight, used, op, seen, draft, task, reports, history>>

\* The artifacts a failed import or copy names in its receipt.
FailureReceipt(c) ==
    CASE op[c] = "import" -> {a \in References(draft[c]) : a[2] = draft[c].id}
      [] op[c] = "copy"   -> {draft[c].object}
      [] OTHER            -> {}

\* [Faulty variant] create_snapshot records an orphan after any error.
OrphanReceiptAlways(c, outcome) ==
    IF op[c] \in {"create", "stream-copy"} /\ outcome # "committed"
    THEN {draft[c].object} ELSE {}

\* The object a failed portable-JAT command records as unreferenced.
\* create_snapshot does so only when the commit is known not to have
\* happened, copy_snapshot_stream after any error.
OrphanReceipt(c, outcome) ==
    IF \/ op[c] = "create" /\ outcome = "rejected"
       \/ op[c] = "stream-copy" /\ outcome # "committed"
    THEN {draft[c].object} ELSE {}

\* [Faulty variant] Anything but a confirmed commit is called a rejection.
ReportedVerdictBinary(outcome) == IF outcome = "committed" THEN "committed" ELSE "rejected"

\* [Faulty variant] An error that is not a rejection is taken for a commit.
ReportedVerdictOptimist(outcome) == IF outcome = "rejected" THEN "rejected" ELSE "committed"

\* _publication_state: only definite outcomes are claimed.
ReportedVerdict(outcome) == IF outcome \in {"committed", "rejected"} THEN outcome ELSE "none"

\* What the command does once conditional_catalog_put has ended.  save and
\* create go on to the workspace marker when the write may have been applied.
Report(c, outcome) ==
    /\ verdict' = [verdict EXCEPT ![draft[c].id] = ReportedVerdict(outcome)]
    /\ todo' = IF outcome = "committed" THEN todo ELSE todo \cup FailureReceipt(c)
    /\ orphans' = orphans \cup OrphanReceipt(c, outcome)
    /\ IF op[c] \in {"save", "create"} /\ outcome \in {"committed", "unverified"}
       THEN Goto(c, "marker") /\ Release(c) /\ UNCHANGED <<op, draft, task>>
       ELSE Finish(c)

\* publish_descriptor, second half, and the same step of the portable JATs:
\* replace the catalog.
Publish(c) ==
    /\ pc[c] = "publish"
    /\ Applied(c, PublishRequest(c))
    /\ Goto(c, "verify")
    /\ UNCHANGED <<stored, used, op, draft, task, reports, confirmed, lost, uncollected>>

PublishFails(c) ==
    /\ pc[c] = "publish"
    /\ \E outcome \in Outcomes : Unapplied(PublishRequest(c), outcome) /\ Report(c, outcome)
    /\ UNCHANGED <<stored, used, marker, confirmed, lost, uncollected>>

\* Read the catalog back, then report.
Verify(c) ==
    /\ pc[c] = "verify"
    /\ \E outcome \in Answers(c) : Report(c, outcome)
    /\ UNCHANGED <<remote, used, marker, history>>

\* write_marker; when it fails the previous marker stays.
WriteMarker(c) ==
    /\ pc[c] = "marker"
    /\ \/ marker' = [marker EXCEPT ![c] = draft[c].id]
       \/ UNCHANGED marker
    /\ Finish(c)
    /\ UNCHANGED <<remote, used, verdict, todo, orphans, history>>

-----------------------------------------------------------------------------
(* copy: the source context is opened before the destination context.      *)

OpenCopySource(c, room) ==
    /\ pc[c] = "idle"
    /\ "copy" \in Commands
    /\ \E source \in catalog.records :
         /\ source.kind = "native" /\ source.room # room /\ source.object \in stored
         /\ draft' = [draft EXCEPT ![c] = [source EXCEPT !.room = room]]
    /\ ReadCatalog(c)
    /\ op' = [op EXCEPT ![c] = "copy"]
    /\ Goto(c, "copy-destination")
    /\ UNCHANGED <<remote, used, task, reports, history>>

\* Both contexts must have read the same catalog.
OpenCopyDestination(c) ==
    /\ pc[c] = "copy-destination"
    /\ etag = seen[c].etag
    /\ \E i \in Ids \ used :
         /\ used' = used \cup {i}
         /\ draft' = [draft EXCEPT ![c] =
                        [room |-> draft[c].room, id |-> i, kind |-> "native",
                         object |-> <<"object", i>>, restic |-> draft[c].restic]]
    /\ Goto(c, "descriptor")
    /\ UNCHANGED <<remote, op, seen, task, reports, history>>

-----------------------------------------------------------------------------
(* create: the object is uploaded before the catalog is read.              *)

UploadSnapshot(c, room) ==
    /\ pc[c] = "idle"
    /\ "create" \in Commands
    /\ \E i \in Ids \ used :
         /\ used' = used \cup {i}
         /\ stored' = stored \cup {<<"object", i>>}
         /\ draft' = [draft EXCEPT ![c] = [room |-> room, id |-> i, kind |-> "legacy",
                                           object |-> <<"object", i>>, restic |-> {}]]
    /\ op' = [op EXCEPT ![c] = "create"]
    /\ Goto(c, "create-catalog")
    /\ UNCHANGED <<etag, catalog, inflight, seen, task, reports, history>>

ReadCatalogForCreate(c) ==
    /\ pc[c] = "create-catalog"
    /\ ReadCatalog(c)
    /\ Goto(c, "publish")
    /\ UNCHANGED <<remote, used, op, draft, task, reports, history>>

-----------------------------------------------------------------------------
(* stream-copy: the source catalog, then the destination catalog, then the *)
(* object, which keeps its key because both sides share the domain.        *)

ReadStreamSource(c, room) ==
    /\ pc[c] = "idle"
    /\ "stream-copy" \in Commands
    /\ \E source \in catalog.records :
         /\ source.kind = "legacy"
         /\ draft' = [draft EXCEPT ![c] = [source EXCEPT !.room = room]]
    /\ op' = [op EXCEPT ![c] = "stream-copy"]
    /\ Goto(c, "stream-destination")
    /\ UNCHANGED <<remote, used, seen, task, reports, history>>

ReadStreamDestination(c) ==
    /\ pc[c] = "stream-destination"
    /\ ReadCatalog(c)
    /\ Goto(c, "stream-transfer")
    /\ UNCHANGED <<remote, used, op, draft, task, reports, history>>

\* Download the source object; the destination already has it, verified.
TransferStream(c) ==
    /\ pc[c] = "stream-transfer"
    /\ draft[c].object \in stored
    /\ \E i \in Ids \ used :
         /\ used' = used \cup {i}
         /\ draft' = [draft EXCEPT ![c].id = i]
    /\ Goto(c, "publish")
    /\ UNCHANGED <<remote, op, seen, task, reports, history>>

-----------------------------------------------------------------------------
(* remove and remove-jat                                                   *)

\* rooms remove / snapshots remove: load the catalog, choose the records and
\* the path.  A Room with a native record, or a native recovery point, takes
\* the native path.
ConfirmRemoval(c, room) ==
    /\ pc[c] = "idle"
    /\ LET present == RoomRecords(catalog, room)
       IN  \E targets \in {present} \cup {{r} : r \in present} :
             LET command == IF \E r \in targets : r.kind = "native"
                            THEN "remove" ELSE "remove-jat"
             IN  /\ targets # {}
                 /\ command \in Commands
                 /\ op' = [op EXCEPT ![c] = command]
                 /\ task' = [task EXCEPT ![c] =
                               [NoTask EXCEPT !.room = room,
                                              !.targets = RecordIds(targets),
                                              !.whole = (targets = present),
                                              !.revision = IF ExpectRevision THEN catalog.revision ELSE 0]]
                 /\ confirmed' = confirmed \cup RecordIds(targets)
    /\ Goto(c, "remove-open")
    /\ UNCHANGED <<remote, used, seen, draft, reports, age, removed, lost, uncollected>>

\* [Faulty variant] The confirmed revision is ignored.
InventoryUnchecked(c) == catalog.revision >= task[c].revision

\* _assert_expected_delete_state and its native counterpart.
InventoryUnchanged(c) == ExpectRevision => catalog.revision = task[c].revision

\* load_logical_descriptors: every native descriptor must be readable.  They
\* are read one after another; because a descriptor that was deleted never
\* comes back, one step for all of them has the same outcomes.
DescriptorsLoad(body) == \A r \in body.records : r.kind = "native" => r.object \in stored

\* remove_logical_catalog_records up to the PUT: open a writable context,
\* check the confirmed inventory, load every descriptor, plan the removal.
OpenRemoval(c) ==
    /\ pc[c] = "remove-open" /\ op[c] = "remove"
    /\ InventoryUnchanged(c)
    /\ task[c].targets \subseteq RecordIds(RoomRecords(catalog, task[c].room))
    /\ DescriptorsLoad(catalog)
    /\ ReadCatalog(c)
    /\ task' = [task EXCEPT
         ![c].objects = RemovableObjects(catalog, task[c].room, task[c].targets),
         ![c].restic = UnreachableSnapshots(catalog, task[c].room, task[c].targets)]
    /\ Goto(c, "remove-publish")
    /\ UNCHANGED <<remote, used, op, draft, reports, history>>

\* remove_room and remove_snapshot up to the PUT.  Removing a Room removes
\* the records it has now; Restic snapshots are not considered.
OpenJatRemoval(c) ==
    /\ pc[c] = "remove-open" /\ op[c] = "remove-jat"
    /\ InventoryUnchanged(c)
    /\ LET present == RecordIds(RoomRecords(catalog, task[c].room))
           targets == IF task[c].whole THEN present ELSE task[c].targets
       IN  /\ present # {} /\ targets \subseteq present
           /\ task' = [task EXCEPT
                ![c].targets = targets,
                ![c].objects = RemovableObjects(catalog, task[c].room, targets)]
    /\ ReadCatalog(c)
    /\ Goto(c, "remove-publish")
    /\ UNCHANGED <<remote, used, op, draft, reports, history>>

\* Only a PUT that returned normally starts the cleanup.
RemovalConfirmed(outcome) == outcome = "committed"

\* [Faulty variant] No receipt unless the removal is confirmed.
RemovalReceiptNone(c, outcome) == {}

\* The snapshots that the receipt of an unconfirmed removal names; a receipt
\* for a rejected one says that no reconciliation is required.
RemovalReceipt(c, outcome) ==
    IF outcome \in {"unverified", "uncertain"} THEN task[c].restic ELSE {}

\* The PUT of either removal.
PublishRemoval(c) ==
    /\ pc[c] = "remove-publish"
    /\ Applied(c, RemoveRequest(c))
    /\ Goto(c, "remove-verify")
    /\ UNCHANGED <<stored, used, op, draft, task, reports, confirmed, lost, uncollected>>

\* The native path leaves a receipt unless the write is known to have failed.
RemovalFails(c) ==
    /\ pc[c] = "remove-publish"
    /\ \E outcome \in Outcomes : /\ Unapplied(RemoveRequest(c), outcome)
                                 /\ todo' = todo \cup RemovalReceipt(c, outcome)
    /\ Finish(c)
    /\ UNCHANGED <<stored, used, marker, verdict, orphans, confirmed, lost, uncollected>>

\* Read the catalog back.  Only a verified commit goes on to cleanup.
VerifyRemoval(c) ==
    /\ pc[c] = "remove-verify"
    /\ \E outcome \in Answers(c) :
         /\ todo' = todo \cup RemovalReceipt(c, outcome)
         /\ lost' = IF outcome = "rejected" THEN lost \cup task[c].restic ELSE lost
         /\ IF RemovalConfirmed(outcome)
            THEN Goto(c, "delete") /\ Release(c) /\ UNCHANGED <<op, draft, task>>
            ELSE Finish(c)
    /\ UNCHANGED <<remote, used, marker, verdict, orphans, age, removed, confirmed, uncollected>>

\* One iteration of the loop over removable objects.
DeleteObject(c) ==
    /\ pc[c] = "delete"
    /\ \E o \in task[c].objects :
         \/ /\ stored' = stored \ {o}
            /\ task' = [task EXCEPT ![c].objects = @ \ {o}]
         \/ /\ "cleanup" \in Faults
            /\ task' = [task EXCEPT ![c].objects = @ \ {o}, ![c].failed = @ \cup {o}]
            /\ UNCHANGED stored
    /\ UNCHANGED <<etag, catalog, inflight, used, pc, op, seen, draft, reports, history>>

\* End of the loop.  Native: a cleanup-pending receipt names what is left.
\* Portable JAT: the receipt holds only the number of failed deletions.
EndDeletion(c) ==
    /\ pc[c] = "delete" /\ task[c].objects = {}
    /\ IF op[c] = "remove"
       THEN /\ todo' = todo \cup task[c].restic \cup task[c].failed
            /\ Goto(c, "fresh")
            /\ UNCHANGED <<op, seen, draft, task, uncollected>>
       ELSE /\ uncollected' = uncollected \cup task[c].failed
            /\ Finish(c)
            /\ UNCHANGED todo
    /\ UNCHANGED <<remote, used, marker, verdict, orphans, age, removed, confirmed, lost>>

\* complete_logical_catalog_removal: a fresh context must show the removal,
\* and no object deletion may be pending.
OpenFresh(c) ==
    /\ pc[c] = "fresh"
    /\ task[c].failed = {}
    /\ task[c].targets \cap RecordIds(RoomRecords(catalog, task[c].room)) = {}
    /\ ReadCatalog(c)
    /\ Goto(c, "descriptors")
    /\ UNCHANGED <<remote, used, op, draft, task, reports, history>>

\* Every descriptor that the fresh catalog names must be readable.
LoadDescriptors(c) ==
    /\ pc[c] = "descriptors"
    /\ DescriptorsLoad(seen[c].body)
    /\ Goto(c, "forget")
    /\ UNCHANGED <<remote, used, op, seen, draft, task, reports, history>>

\* [Faulty variant] The reachability test is inverted.
CandidatesInverted(c) == task[c].restic \cap AllReferences(seen[c].body.records)

\* The snapshots of this removal that the fresh catalog does not name.
Candidates(c) == task[c].restic \ AllReferences(seen[c].body.records)

\* Forget the candidates the inventory lists; the receipt is complete unless
\* some were referenced again or were missing.
Forget(c) ==
    /\ pc[c] = "forget"
    /\ stored' = stored \ Candidates(c)
    /\ todo' = (todo \ task[c].restic) \cup (task[c].restic \ (Candidates(c) \cap stored))
    /\ Finish(c)
    /\ UNCHANGED <<etag, catalog, inflight, used, marker, verdict, orphans, history>>

\* restic forget fails, possibly after removing some of the snapshots.
ForgetFails(c) ==
    /\ pc[c] = "forget"
    /\ "cleanup" \in Faults
    /\ \E gone \in SUBSET (Candidates(c) \cap stored) : stored' = stored \ gone
    /\ todo' = (todo \ task[c].restic) \cup (Candidates(c) \cap stored)
    /\ Finish(c)
    /\ UNCHANGED <<etag, catalog, inflight, used, marker, verdict, orphans, history>>

\* The fresh context cannot be opened or does not prove reachability, because
\* a concurrent removal deleted a descriptor it names, for example: the
\* cleanup-pending receipt stays.
DeferCleanup(c) ==
    /\ pc[c] \in {"fresh", "descriptors"}
    /\ \/ "cleanup" \in Faults
       \/ pc[c] = "fresh" /\ task[c].failed # {}
       \/ pc[c] = "descriptors" /\ ~DescriptorsLoad(seen[c].body)
    /\ Finish(c)
    /\ UNCHANGED <<remote, used, reports, history>>

-----------------------------------------------------------------------------
(* Failures before the commit, and crashes.                                *)

\* An exception, a conflict found by a check, a cancellation, or an early
\* return with nothing to publish.  A failed import names what it stored; a
\* portable JAT already uploaded is recorded as unreferenced.
Abort(c) ==
    /\ pc[c] \in {"backup", "copy-destination", "create-catalog", "stream-destination",
                  "stream-transfer", "descriptor", "publish", "remove-open", "remove-publish"}
    /\ todo' = IF pc[c] \in {"descriptor", "publish"} THEN todo \cup FailureReceipt(c) ELSE todo
    /\ orphans' = IF pc[c] \in {"create-catalog", "publish"}
                  THEN orphans \cup OrphanReceipt(c, "rejected") ELSE orphans
    /\ verdict' = IF pc[c] \in {"descriptor", "publish"}
                  THEN [verdict EXCEPT ![draft[c].id] = "rejected"] ELSE verdict
    /\ Finish(c)
    /\ UNCHANGED <<remote, used, marker, history>>

\* The process dies: no handler runs.  A PUT it was sending may still arrive.
Crash(c) ==
    /\ pc[c] # "idle"
    /\ "crash" \in Faults
    /\ inflight' \in {inflight}
         \cup (IF pc[c] = "publish" /\ Accepts(PublishRequest(c))
               THEN {inflight \cup {PublishRequest(c)}} ELSE {})
         \cup (IF pc[c] = "remove-publish" /\ Accepts(RemoveRequest(c))
               THEN {inflight \cup {RemoveRequest(c)}} ELSE {})
    /\ lost' = IF pc[c] \in {"remove-publish", "remove-verify", "delete"} THEN lost \cup task[c].restic ELSE lost
    /\ Finish(c)
    /\ UNCHANGED <<etag, catalog, stored, used, reports, age, removed, confirmed, uncollected>>

-----------------------------------------------------------------------------
Step(c) ==
    \/ \E room \in Rooms :
         \/ \E command \in Commands : OpenForSave(c, command, room)
         \/ OpenCopySource(c, room)
         \/ UploadSnapshot(c, room)
         \/ ReadStreamSource(c, room)
         \/ ConfirmRemoval(c, room)
    \/ Backup(c) \/ PutDescriptor(c) \/ WriteMarker(c)
    \/ Publish(c) \/ PublishFails(c) \/ Verify(c)
    \/ OpenCopyDestination(c)
    \/ ReadCatalogForCreate(c)
    \/ ReadStreamDestination(c) \/ TransferStream(c)
    \/ OpenRemoval(c) \/ OpenJatRemoval(c)
    \/ PublishRemoval(c) \/ RemovalFails(c) \/ VerifyRemoval(c)
    \/ DeleteObject(c) \/ EndDeletion(c)
    \/ OpenFresh(c) \/ LoadDescriptors(c) \/ Forget(c) \/ ForgetFails(c) \/ DeferCleanup(c)
    \/ Abort(c) \/ Crash(c)

Next == DeliverLate \/ \E c \in Clients : Step(c)

Spec == Init /\ [][Next]_vars

\* The steps a removal takes once its PUT is applied.  A process that is not
\* killed keeps taking them: none waits for another client.
Cleanup(c) == \/ VerifyRemoval(c) \/ DeleteObject(c) \/ EndDeletion(c)
              \/ OpenFresh(c) \/ LoadDescriptors(c) \/ DeferCleanup(c) \/ Forget(c)

FairSpec == Spec /\ \A c \in Clients : WF_vars(Cleanup(c))

-----------------------------------------------------------------------------
(* Properties.                                                             *)

\* Clients whose removal has been applied and is not finished, and what they
\* are about to delete.
Collecting == {c \in Clients : pc[c] \in {"remove-verify", "delete", "fresh", "descriptors", "forget"}}
Doomed == UNION {task[c].objects \cup task[c].restic : c \in Collecting}

Published == {i \in Ids : age[i] # 0}

\* Whatever the catalog names exists: the encrypted object and the Restic
\* snapshots of every record are in storage, whichever saves, copies,
\* removals, failures and late requests were interleaved.
NoDanglingReference == AllReferences(catalog.records) \subseteq stored

\* No lost update: the catalog holds exactly the records whose publication
\* was ever applied, less those an applied removal named.
NoLostUpdate == RecordIds(catalog.records) = Published \ RecordIds(removed)

\* The catalog always satisfies the format's own validation: unique ids, and
\* each Room's latest is one of its records.
CatalogWellFormed ==
    /\ LatestValid(catalog)
    /\ \A r, s \in catalog.records : r.id = s.id => r = s

\* A removal takes out nothing the user was not shown: a recovery point saved
\* between confirmation and removal survives.
OnlyConfirmedRemoved == RecordIds(removed) \subseteq confirmed

\* What a command says about its own publication.  "committed" is said only of
\* what was applied, whoever replaces the catalog before the read-back.
CommittedIsPublished == \A i \in Ids : verdict[i] = "committed" => i \in Published

\* "rejected" (published=False) is final: what was not applied when the
\* command said so is not applied afterwards, by a request under way either.
RejectionIsFinal ==
    [][\A i \in Ids : verdict[i] = "rejected" /\ i \notin Published => i \notin Published']_vars

\* "rejected" means that the record was not published.
RejectedIsUnpublished == \A i \in Ids : verdict[i] = "rejected" => i \notin Published

\* A Restic snapshot that a removal made unreachable is forgotten, or a
\* receipt asks for its reconciliation, or the removal is still working on
\* it; except for removals whose process died before the receipt and those
\* told of a precondition failure although they were applied.
NoSilentGarbage ==
    \A s \in UNION {r.restic : r \in removed} :
        s \in stored => \/ s \in AllReferences(catalog.records)
                        \/ s \in todo \cup lost
                        \/ \E c \in Collecting : s \in task[c].restic

\* Without faults, every removal comes to an end whatever other clients do
\* meanwhile: eventually and for good, a snapshot that it made unreachable is
\* forgotten, or it is left to a receipt because another client replaced the
\* catalog before the read-back or deleted a descriptor before it was loaded,
\* or the removal was told of a precondition failure.
Garbage(s) == /\ s \in stored
              /\ s \in UNION {r.restic : r \in removed}
              /\ s \notin AllReferences(catalog.records)
Settled(s) == \/ s \notin stored
              \/ s \in todo \cup lost /\ \A c \in Collecting : s \notin task[c].restic
GarbageIsSettled ==
    <>[](\A s \in {"workspace", "component"} \X Ids : Garbage(s) => Settled(s))

\* An object recorded as "uploaded-unreferenced" that no catalog record names
\* does not become the object of one.
OrphansStayUnreferenced ==
    [][(orphans \ AllReferences(catalog.records)) \cap AllReferences(catalog'.records) = {}]_vars

\* The workspace marker names a recovery point that was committed.
MarkerIsPublished == \A c \in Clients : marker[c] # NoId => marker[c] \in Published

\* Each Room's latest is the most recently published of its records.
LatestIsNewest ==
    \A r \in catalog.records : age[r.id] <= age[catalog.latest[r.room]]

\* An object that a removal failed to delete is named in a receipt.
UncollectedIsRecorded == uncollected \subseteq todo

-----------------------------------------------------------------------------
(***************************************************************************)
(* The inductive invariant behind NoDanglingReference.  Whoever holds the  *)
(* current ETag has read the current catalog, so what it is about to       *)
(* publish names only artifacts that exist and that no removal has claimed *)
(* (Doomed).  A client with an older ETag may hold anything: its PUT fails.*)
(* create_snapshot uploads before it reads the catalog; there the argument *)
(* is that nobody else can know the new object's name yet.                 *)
(***************************************************************************)
Current(c) == seen[c].etag = etag

ReadFaithful(c) == /\ seen[c].etag <= etag
                   /\ Current(c) => seen[c].body = catalog

DraftSafe(c) ==
    /\ pc[c] = "copy-destination" =>
         draft[c].restic \subseteq AllReferences(seen[c].body.records)
    /\ pc[c] \in {"descriptor", "publish"} /\ Current(c) =>
         /\ draft[c].restic \subseteq stored \ Doomed
         /\ draft[c].object \notin Doomed
    /\ pc[c] = "publish" /\ Current(c) => draft[c].object \in stored

\* The object of a portable JAT that has been uploaded but not yet published.
UploadPrivate(c) ==
    pc[c] = "create-catalog" =>
      /\ draft[c].id \in Ids
      /\ draft[c].object = <<"object", draft[c].id>>
      /\ draft[c].restic = {}
      /\ draft[c].object \in stored \ Doomed
      /\ draft[c].object \notin AllReferences(catalog.records)
      /\ \A put \in inflight : draft[c].object \notin AllReferences(put.body.records)
      /\ \A d \in Clients \ {c} : draft[c].object # draft[d].object

RemovalPlanned(c) ==
    /\ pc[c] = "remove-open" => task[c].restic = {}
    /\ pc[c] = "remove-publish" =>
         task[c].objects \cup task[c].restic
           \subseteq AllReferences(seen[c].body.records)
                       \ AllReferences(RemoveRequest(c).body.records)

\* Artifacts carry the id of the command that stored them, so what a fresh
\* id names is nobody else's.
Numbered(S) == \A a \in S : a[2] \in used

DraftNamed(c) ==
    /\ draft[c].object[2] \in used \cup {NoId}
    /\ pc[c] = "create-catalog" => draft[c].id \in used
    /\ pc[c] \in {"descriptor", "publish"} /\ Current(c) => Numbered(References(draft[c]))

ClientSafe(c) ==
    /\ ReadFaithful(c)
    /\ DraftSafe(c)
    /\ UploadPrivate(c)
    /\ RemovalPlanned(c)
    /\ DraftNamed(c)
    /\ pc[c] \notin {"stream-destination", "stream-transfer"}

CatalogSafe ==
    /\ etag = 0 => catalog = EmptyCatalog
    /\ AllReferences(catalog.records) \subseteq stored \ Doomed
    /\ Numbered(AllReferences(catalog.records) \cup Doomed)

InflightSafe ==
    \A put \in inflight : /\ put.etag = etag
                          /\ AllReferences(put.body.records) \subseteq stored \ Doomed
                          /\ Numbered(AllReferences(put.body.records))

\* The strengthening of NoDanglingReference that every step preserves, when
\* portable JATs are not copied within their Dimension.
SafetyInvariant == CatalogSafe /\ InflightSafe /\ \A c \in Clients : ClientSafe(c)

=============================================================================
