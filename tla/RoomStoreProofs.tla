-------------------------- MODULE RoomStoreProofs --------------------------
(***************************************************************************)
(* What TLAPS proves about RoomStore for every set of clients, Rooms and   *)
(* ids, every choice of commands and faults.                               *)
(***************************************************************************)
EXTENDS RoomStore, FiniteSetTheorems, TLAPS

-----------------------------------------------------------------------------
(* Types of the catalog operators.                                         *)

\* The empty catalog is a catalog.
LEMMA EmptyCatalogType == EmptyCatalog \in CatalogBody
  BY DEF EmptyCatalog, CatalogBody, OptId

\* What a client holds between commands is well typed.
LEMMA IdleTypes == NoRecord \in Record /\ NoTask \in Task /\ Unread \in Read
  <1>1. (CHOOSE r \in Rooms : TRUE) \in Rooms
    BY RoomsAssumption
  <1>2. <<"object", NoId>> \in Object
    BY DEF Object, OptId
  <1>3. NoRecord \in Record
    BY <1>1, <1>2 DEF NoRecord, Record, OptId
  <1>4. NoTask \in Task
    BY <1>1 DEF NoTask, Task
  <1>5. Unread \in Read
    BY EmptyCatalogType DEF Unread, Read
  <1> QED BY <1>3, <1>4, <1>5

\* The ids of records are ids.
LEMMA RecordIdsType == ASSUME NEW S \in SUBSET Record PROVE RecordIds(S) \subseteq OptId
  BY DEF RecordIds, Record

\* remove_snapshot promotes an existing id, or none.
LEMMA PromotedLatestType ==
    ASSUME NEW ids \in SUBSET OptId
    PROVE  PromotedLatest(ids) \in OptId
  <1>1. CASE ids = {}
    BY <1>1 DEF PromotedLatest, OptId
  <1>2. CASE ids # {}
    <2>1. \E i \in ids : \A j \in ids : j <= i
      BY <1>2, IdsAssumption
    <2>2. (CHOOSE i \in ids : \A j \in ids : j <= i) \in ids
      BY <2>1
    <2> QED BY <1>2, <2>2 DEF PromotedLatest
  <1> QED BY <1>1, <1>2

\* Any set of ids has a number of elements.
LEMMA IdCountType ==
    ASSUME NEW ids \in SUBSET OptId
    PROVE  Cardinality(ids) \in Nat
  <1>1. IsFiniteSet(OptId)
    BY IdsAssumption, FS_AddElement DEF OptId
  <1>2. IsFiniteSet(ids)
    BY <1>1, FS_Subset
  <1> QED BY <1>2, FS_CardinalityType

\* add_snapshot returns a catalog.
LEMMA AddSnapshotType ==
    ASSUME NEW body \in CatalogBody, NEW r \in Record
    PROVE  AddSnapshot(body, r) \in CatalogBody
  BY DEF AddSnapshot, CatalogBody, Record

\* remove_project and remove_snapshot return a catalog.
LEMMA RemoveRecordsType ==
    ASSUME NEW body \in CatalogBody, NEW room \in Rooms, NEW ids \in SUBSET OptId
    PROVE  RemoveRecords(body, room, ids) \in CatalogBody
  <1> DEFINE remaining == {r \in body.records : ~(r.room = room /\ r.id \in ids)}
  <1> DEFINE left == RecordIds({r \in remaining : r.room = room})
  <1>0. /\ body.revision \in Nat /\ body.records \subseteq Record
        /\ body.latest \in [Rooms -> OptId]
    BY DEF CatalogBody
  <1>1. remaining \subseteq Record
    BY <1>0
  <1>2. left \subseteq OptId
    BY <1>1, RecordIdsType
  <1>3. PromotedLatest(left) \in OptId
    BY <1>2, PromotedLatestType
  <1>4. Cardinality(ids) \in Nat
    BY IdCountType
  <1>5. body.revision + (IF left = {} THEN 1 ELSE Cardinality(ids)) \in Nat
    BY <1>0, <1>4
  <1>6. (IF body.latest[room] \in left THEN body.latest
         ELSE [body.latest EXCEPT ![room] = PromotedLatest(left)]) \in [Rooms -> OptId]
    BY <1>0, <1>3
  <1> HIDE DEF remaining, left
  <1>7. RemoveRecords(body, room, ids) =
          [revision |-> body.revision + (IF left = {} THEN 1 ELSE Cardinality(ids)),
           records  |-> remaining,
           latest   |-> IF body.latest[room] \in left THEN body.latest
                        ELSE [body.latest EXCEPT ![room] = PromotedLatest(left)]]
    BY DEF RemoveRecords, remaining, left
  <1> QED BY <1>1, <1>5, <1>6, <1>7 DEF CatalogBody

\* A removal deletes objects and forgets snapshots, never the reverse.
LEMMA RemovableType ==
    ASSUME NEW body \in CatalogBody, NEW room, NEW ids
    PROVE  /\ RemovableObjects(body, room, ids) \subseteq Object
           /\ UnreachableSnapshots(body, room, ids) \subseteq Snapshot
  <1>1. body.records \subseteq Record
    BY DEF CatalogBody
  <1>2. \A r \in body.records : r.object \in Object /\ r.restic \subseteq Snapshot
    BY <1>1 DEF Record
  <1> QED BY <1>2 DEF RemovableObjects, UnreachableSnapshots

\* A new descriptor names Restic snapshots.
LEMMA CapturesType ==
    ASSUME NEW parents \in SUBSET Record, NEW i \in Ids, NEW restic \in Captures(parents, i)
    PROVE  restic \subseteq Snapshot
  <1>1. \A p \in parents : p.restic \subseteq Snapshot
    BY DEF Record
  <1>2. <<"workspace", i>> \in Snapshot /\ <<"component", i>> \in Snapshot
    BY DEF Snapshot, OptId
  <1>3. PICK w \in Captured("workspace", parents, i),
             k \in {{}} \cup Captured("component", parents, i) : restic = w \cup k
    BY DEF Captures
  <1>4. w \subseteq Snapshot
    BY <1>1, <1>2, <1>3 DEF Captured
  <1>5. k \subseteq Snapshot
    BY <1>1, <1>2, <1>3 DEF Captured
  <1> QED BY <1>3, <1>4, <1>5

-----------------------------------------------------------------------------
(* Type correctness of the specification.                                  *)

\* The parts of the state that a catalog PUT, a returning command and the
\* other steps change.
ClientTypes == /\ pc \in [Clients -> PCs]
               /\ op \in [Clients -> CommandNames \cup {"none"}]
               /\ seen \in [Clients -> Read]
               /\ draft \in [Clients -> Record]
               /\ task \in [Clients -> Task]

CatalogTypes == /\ etag \in Nat
                /\ catalog \in CatalogBody
                /\ inflight \subseteq Put
                /\ age \in [Ids -> Nat]
                /\ removed \subseteq Record

\* A command that returns leaves its client well typed.
LEMMA FinishType ==
    ASSUME ClientTypes, NEW c \in Clients, Finish(c)
    PROVE  ClientTypes'
  BY IdleTypes DEF ClientTypes, Finish, PCs

\* The two requests that commands send are well typed.
LEMMA RequestTypes ==
    ASSUME ClientTypes, NEW c \in Clients
    PROVE  PublishRequest(c) \in Put /\ RemoveRequest(c) \in Put
  <1>1. /\ seen[c].etag \in Nat /\ seen[c].body \in CatalogBody
        /\ draft[c] \in Record /\ draft[c].id \in OptId
        /\ task[c].room \in Rooms /\ task[c].targets \in SUBSET OptId
    BY DEF ClientTypes, Read, Record, Task
  <1>2. AddSnapshot(seen[c].body, draft[c]) \in CatalogBody
    BY <1>1, AddSnapshotType
  <1>3. RemoveRecords(seen[c].body, task[c].room, task[c].targets) \in CatalogBody
    BY <1>1, RemoveRecordsType
  <1>4. PublishRequest(c) \in Put
    BY <1>1, <1>2 DEF PublishRequest, Put
  <1>5. RemoveRequest(c) \in Put
    BY <1>1, <1>3 DEF RemoveRequest, Put
  <1> QED BY <1>4, <1>5

\* An applied PUT leaves the catalog well typed.
LEMMA ApplyType ==
    ASSUME CatalogTypes, NEW put \in Put, Apply(put)
    PROVE  CatalogTypes'
  <1>1. etag' \in Nat
    BY DEF CatalogTypes, Apply
  <1>2. catalog' \in CatalogBody
    BY DEF Apply, Put
  <1>3. catalog.records \subseteq Record
    BY DEF CatalogTypes, CatalogBody
  <1>4. removed' \subseteq Record
    BY <1>3 DEF CatalogTypes, Apply
  <1>5. age' \in [Ids -> Nat]
    BY <1>1 DEF CatalogTypes, Apply
  <1> QED BY <1>1, <1>2, <1>4, <1>5 DEF CatalogTypes, Apply

\* A PUT that its sender saw applied leaves the state well typed.
LEMMA AppliedType ==
    ASSUME ClientTypes, CatalogTypes, NEW c \in Clients, NEW put \in Put, Applied(c, put),
           NEW label \in PCs, Goto(c, label), UNCHANGED <<op, draft, task>>
    PROVE  ClientTypes' /\ CatalogTypes'
  <1>1. CatalogTypes'
    BY ApplyType DEF Applied
  <1>2. [etag |-> etag', body |-> catalog'] \in Read
    BY <1>1 DEF CatalogTypes, Read
  <1>3. ClientTypes'
    BY <1>2 DEF ClientTypes, Applied, Goto
  <1> QED BY <1>1, <1>3

\* A PUT that is not applied meanwhile can only stay under way.
LEMMA UnappliedType ==
    ASSUME CatalogTypes, NEW put \in Put, NEW outcome, Unapplied(put, outcome)
    PROVE  CatalogTypes'
  BY DEF CatalogTypes, Unapplied

StorageTypes == /\ stored \subseteq Artifact
                /\ used \subseteq Ids
                /\ marker \in [Clients -> OptId]
                /\ verdict \in [Ids -> {"none", "committed", "rejected"}]
                /\ todo \subseteq Artifact
                /\ orphans \subseteq Object
                /\ confirmed \subseteq OptId
                /\ lost \subseteq Snapshot
                /\ uncollected \subseteq Object

\* The three parts are the type invariant.
LEMMA TypeParts == TypeOK <=> ClientTypes /\ CatalogTypes /\ StorageTypes
  BY DEF TypeOK, ClientTypes, CatalogTypes, StorageTypes

\* Receipts name artifacts.
LEMMA ReceiptTypes ==
    ASSUME ClientTypes, NEW c \in Clients, NEW outcome
    PROVE  /\ FailureReceipt(c) \subseteq Artifact
           /\ OrphanReceipt(c, outcome) \subseteq Object
           /\ RemovalReceipt(c, outcome) \subseteq Snapshot
  <1>1. draft[c].object \in Object /\ draft[c].restic \subseteq Snapshot
    BY DEF ClientTypes, Record
  <1>2. task[c].restic \subseteq Snapshot
    BY DEF ClientTypes, Task
  <1>3. FailureReceipt(c) \subseteq Artifact
    BY <1>1 DEF FailureReceipt, References, Artifact
  <1>4. OrphanReceipt(c, outcome) \subseteq Object
    BY <1>1 DEF OrphanReceipt
  <1>5. RemovalReceipt(c, outcome) \subseteq Snapshot
    BY <1>2 DEF RemovalReceipt
  <1> QED BY <1>3, <1>4, <1>5

\* What a command does after its PUT leaves its client and the receipts well
\* typed.
LEMMA ReportType ==
    ASSUME ClientTypes, StorageTypes, NEW c \in Clients, NEW outcome, Report(c, outcome)
    PROVE  /\ ClientTypes'
           /\ verdict' \in [Ids -> {"none", "committed", "rejected"}]
           /\ todo' \subseteq Artifact /\ orphans' \subseteq Object
  <1>1. ClientTypes'
    <2>1. CASE Finish(c)
      BY <2>1, FinishType
    <2>2. CASE Goto(c, "marker") /\ Release(c) /\ UNCHANGED <<op, draft, task>>
      BY <2>2, IdleTypes DEF Goto, Release, ClientTypes, PCs
    <2> QED BY <2>1, <2>2 DEF Report
  <1>2. FailureReceipt(c) \subseteq Artifact /\ OrphanReceipt(c, outcome) \subseteq Object
    BY ReceiptTypes
  <1>3. ReportedVerdict(outcome) \in {"none", "committed", "rejected"}
    BY DEF ReportedVerdict
  <1>4. verdict' \in [Ids -> {"none", "committed", "rejected"}]
    BY <1>3 DEF Report, StorageTypes
  <1>5. todo' \subseteq Artifact /\ orphans' \subseteq Object
    BY <1>2 DEF Report, StorageTypes
  <1> QED BY <1>1, <1>4, <1>5

\* Every step keeps the state well typed.
LEMMA TypeStep ==
    ASSUME TypeOK, [Next]_vars
    PROVE  TypeOK'
  <1> SUFFICES ClientTypes' /\ CatalogTypes' /\ StorageTypes'
    BY DEF TypeOK, ClientTypes, CatalogTypes, StorageTypes
  <1>t. ClientTypes /\ CatalogTypes /\ StorageTypes
    BY TypeParts
  <1>read. ASSUME NEW c \in Clients
           PROVE  /\ [etag |-> etag, body |-> catalog] \in Read
                  /\ draft[c] \in Record /\ task[c] \in Task /\ seen[c] \in Read
    BY <1>t DEF ClientTypes, CatalogTypes, Read
  <1>1. CASE DeliverLate
    <2>1. PICK put \in inflight : Apply(put)
      BY <1>1 DEF DeliverLate
    <2>2. put \in Put
      BY <1>t DEF CatalogTypes
    <2>3. CatalogTypes'
      BY <1>t, <2>1, <2>2, ApplyType
    <2> QED BY <1>t, <1>1, <2>3
         DEF DeliverLate, local, reports, ClientTypes, StorageTypes
  <1>2. ASSUME NEW c \in Clients, NEW room \in Rooms, NEW command \in Commands,
               OpenForSave(c, command, room)
        PROVE  ClientTypes' /\ CatalogTypes' /\ StorageTypes'
    <2>1. draft' \in [Clients -> Record]
      BY <1>2, <1>t DEF OpenForSave, ClientTypes, Record
    <2> QED BY <1>2, <1>t, <1>read, <2>1, ParametersAssumption
         DEF OpenForSave, ReadCatalog, Goto, remote, reports, history, CommandNames,
             PCs, ClientTypes, CatalogTypes, StorageTypes
  <1>3. ASSUME NEW c \in Clients, NEW room \in Rooms, OpenCopySource(c, room)
        PROVE  ClientTypes' /\ CatalogTypes' /\ StorageTypes'
    <2>1. catalog.records \subseteq Record
      BY <1>t DEF CatalogTypes, CatalogBody
    <2>2. draft' \in [Clients -> Record]
      BY <1>3, <1>t, <2>1 DEF OpenCopySource, ClientTypes, Record
    <2> QED BY <1>3, <1>t, <1>read, <2>2
         DEF OpenCopySource, ReadCatalog, Goto, remote, reports, history, CommandNames,
             PCs, ClientTypes, CatalogTypes, StorageTypes
  <1>4. ASSUME NEW c \in Clients, NEW room \in Rooms, UploadSnapshot(c, room)
        PROVE  ClientTypes' /\ CatalogTypes' /\ StorageTypes'
    <2>1. PICK i \in Ids \ used :
            /\ used' = used \cup {i}
            /\ stored' = stored \cup {<<"object", i>>}
            /\ draft' = [draft EXCEPT ![c] = [room |-> room, id |-> i, kind |-> "legacy",
                                              object |-> <<"object", i>>, restic |-> {}]]
      BY <1>4 DEF UploadSnapshot
    <2>2. <<"object", i>> \in Object /\ i \in OptId
      BY DEF Object, OptId
    <2>3. draft' \in [Clients -> Record]
      BY <1>t, <2>1, <2>2 DEF ClientTypes, Record
    <2>4. used' \subseteq Ids /\ stored' \subseteq Artifact
      BY <1>t, <2>1, <2>2 DEF StorageTypes, Artifact
    <2> QED BY <1>4, <1>t, <2>3, <2>4
         DEF UploadSnapshot, Goto, reports, history, CommandNames,
             PCs, ClientTypes, CatalogTypes, StorageTypes
  <1>5. ASSUME NEW c \in Clients, NEW room \in Rooms, ReadStreamSource(c, room)
        PROVE  ClientTypes' /\ CatalogTypes' /\ StorageTypes'
    <2>1. catalog.records \subseteq Record
      BY <1>t DEF CatalogTypes, CatalogBody
    <2>2. draft' \in [Clients -> Record]
      BY <1>5, <1>t, <2>1 DEF ReadStreamSource, ClientTypes, Record
    <2> QED BY <1>5, <1>t, <2>2
         DEF ReadStreamSource, Goto, remote, reports, history, CommandNames,
             PCs, ClientTypes, CatalogTypes, StorageTypes
  <1>6. ASSUME NEW c \in Clients, NEW room \in Rooms, ConfirmRemoval(c, room)
        PROVE  ClientTypes' /\ CatalogTypes' /\ StorageTypes'
    <2>1. PICK targets \in {RoomRecords(catalog, room)} \cup {{r} : r \in RoomRecords(catalog, room)},
               command \in Commands :
            /\ op' = [op EXCEPT ![c] = command]
            /\ task' = [task EXCEPT ![c] =
                          [NoTask EXCEPT !.room = room, !.targets = RecordIds(targets),
                                         !.whole = (targets = RoomRecords(catalog, room)),
                                         !.revision = IF ExpectRevision THEN catalog.revision ELSE 0]]
            /\ confirmed' = confirmed \cup RecordIds(targets)
      BY <1>6 DEF ConfirmRemoval
    <2>2. targets \subseteq Record /\ catalog.revision \in Nat
      BY <1>t DEF CatalogTypes, CatalogBody, RoomRecords
    <2>3. RecordIds(targets) \subseteq OptId
      BY <2>2, RecordIdsType
    <2>4. task' \in [Clients -> Task]
      BY <1>t, <2>1, <2>2, <2>3, IdleTypes DEF ClientTypes, Task
    <2>5. op' \in [Clients -> CommandNames \cup {"none"}]
      BY <1>t, <2>1, ParametersAssumption DEF ClientTypes
    <2>6. confirmed' \subseteq OptId
      BY <1>t, <2>1, <2>3 DEF StorageTypes
    <2> QED BY <1>6, <1>t, <2>4, <2>5, <2>6
         DEF ConfirmRemoval, Goto, remote, reports, PCs, ClientTypes, CatalogTypes, StorageTypes
  <1>7. ASSUME NEW c \in Clients, Backup(c)
        PROVE  ClientTypes' /\ CatalogTypes' /\ StorageTypes'
    <2> DEFINE parents == Parents(seen[c].body, draft[c].room)
    <2>0. PICK i \in Ids \ used : \E restic \in Captures(parents, i) :
            /\ used' = used \cup {i}
            /\ stored' = stored \cup {a \in restic : a[2] = i}
            /\ draft' = [draft EXCEPT ![c] =
                           [room |-> draft[c].room, id |-> i, kind |-> "native",
                            object |-> <<"object", i>>, restic |-> restic]]
      BY <1>7 DEF Backup
    <2>1. PICK restic \in Captures(parents, i) :
            /\ used' = used \cup {i}
            /\ stored' = stored \cup {a \in restic : a[2] = i}
            /\ draft' = [draft EXCEPT ![c] =
                           [room |-> draft[c].room, id |-> i, kind |-> "native",
                            object |-> <<"object", i>>, restic |-> restic]]
      BY <2>0
    <2>2. parents \subseteq Record
      BY <1>read DEF Parents, RoomRecords, Read, CatalogBody
    <2>3. restic \subseteq Snapshot
      BY <2>2, CapturesType
    <2>4. <<"object", i>> \in Object /\ i \in OptId
      BY DEF Object, OptId
    <2>5. draft' \in [Clients -> Record]
      BY <1>t, <1>read, <2>1, <2>3, <2>4 DEF ClientTypes, Record
    <2>6. used' \subseteq Ids /\ stored' \subseteq Artifact
      BY <1>t, <2>1, <2>3 DEF StorageTypes, Artifact
    <2> QED BY <1>7, <1>t, <2>5, <2>6
         DEF Backup, Goto, reports, history, PCs, ClientTypes, CatalogTypes, StorageTypes
  <1>8. ASSUME NEW c \in Clients, PutDescriptor(c)
        PROVE  ClientTypes' /\ CatalogTypes' /\ StorageTypes'
    <2>1. draft[c].object \in Artifact
      BY <1>read DEF Record, Artifact
    <2> QED BY <1>8, <1>t, <2>1
         DEF PutDescriptor, Goto, reports, history, PCs, ClientTypes, CatalogTypes, StorageTypes
  <1>9. ASSUME NEW c \in Clients, Publish(c) \/ PublishRemoval(c)
        PROVE  ClientTypes' /\ CatalogTypes' /\ StorageTypes'
    <2>1. PICK put \in {PublishRequest(c), RemoveRequest(c)}, label \in PCs :
            Applied(c, put) /\ Goto(c, label)
      BY <1>9 DEF Publish, PublishRemoval, PCs
    <2>2. put \in Put
      BY <1>t, RequestTypes
    <2>3. ClientTypes' /\ CatalogTypes'
      BY <1>9, <1>t, <2>1, <2>2, AppliedType DEF Publish, PublishRemoval
    <2> QED BY <1>9, <1>t, <2>3 DEF Publish, PublishRemoval, reports, StorageTypes
  <1>9a. ASSUME NEW c \in Clients, PublishFails(c)
         PROVE  ClientTypes' /\ CatalogTypes' /\ StorageTypes'
    <2>1. PICK outcome \in Outcomes : Unapplied(PublishRequest(c), outcome) /\ Report(c, outcome)
      BY <1>9a DEF PublishFails
    <2>2. CatalogTypes'
      BY <1>t, <2>1, RequestTypes, UnappliedType
    <2>3. /\ ClientTypes'
          /\ verdict' \in [Ids -> {"none", "committed", "rejected"}]
          /\ todo' \subseteq Artifact /\ orphans' \subseteq Object
      BY <1>t, <2>1, ReportType
    <2> QED BY <1>9a, <1>t, <2>2, <2>3 DEF PublishFails, StorageTypes
  <1>9b. ASSUME NEW c \in Clients, Verify(c)
         PROVE  ClientTypes' /\ CatalogTypes' /\ StorageTypes'
    <2>1. /\ ClientTypes'
          /\ verdict' \in [Ids -> {"none", "committed", "rejected"}]
          /\ todo' \subseteq Artifact /\ orphans' \subseteq Object
      BY <1>9b, <1>t, ReportType DEF Verify
    <2> QED BY <1>9b, <1>t, <2>1 DEF Verify, remote, history, CatalogTypes, StorageTypes
  <1>10. ASSUME NEW c \in Clients, WriteMarker(c)
         PROVE  ClientTypes' /\ CatalogTypes' /\ StorageTypes'
    <2>1. ClientTypes'
      BY <1>10, <1>t, FinishType DEF WriteMarker
    <2>2. marker' \in [Clients -> OptId]
      BY <1>10, <1>t, <1>read DEF WriteMarker, StorageTypes, Record
    <2> QED BY <1>10, <1>t, <2>1, <2>2
         DEF WriteMarker, remote, history, CatalogTypes, StorageTypes
  <1>11. ASSUME NEW c \in Clients, OpenCopyDestination(c)
         PROVE  ClientTypes' /\ CatalogTypes' /\ StorageTypes'
    <2>1. PICK i \in Ids \ used :
            /\ used' = used \cup {i}
            /\ draft' = [draft EXCEPT ![c] =
                           [room |-> draft[c].room, id |-> i, kind |-> "native",
                            object |-> <<"object", i>>, restic |-> draft[c].restic]]
      BY <1>11 DEF OpenCopyDestination
    <2>2. <<"object", i>> \in Object /\ i \in OptId
      BY DEF Object, OptId
    <2>3. draft' \in [Clients -> Record]
      BY <1>t, <1>read, <2>1, <2>2 DEF ClientTypes, Record
    <2> QED BY <1>11, <1>t, <2>1, <2>3
         DEF OpenCopyDestination, Goto, remote, reports, history, PCs,
             ClientTypes, CatalogTypes, StorageTypes
  <1>12. ASSUME NEW c \in Clients, ReadCatalogForCreate(c) \/ ReadStreamDestination(c)
         PROVE  ClientTypes' /\ CatalogTypes' /\ StorageTypes'
    BY <1>12, <1>t, <1>read
       DEF ReadCatalogForCreate, ReadStreamDestination, ReadCatalog, Goto, remote, reports,
           history, PCs, ClientTypes, CatalogTypes, StorageTypes
  <1>13. ASSUME NEW c \in Clients, TransferStream(c)
         PROVE  ClientTypes' /\ CatalogTypes' /\ StorageTypes'
    <2>1. PICK i \in Ids \ used : used' = used \cup {i} /\ draft' = [draft EXCEPT ![c].id = i]
      BY <1>13 DEF TransferStream
    <2>2. draft' \in [Clients -> Record]
      BY <1>t, <1>read, <2>1 DEF ClientTypes, Record, OptId
    <2> QED BY <1>13, <1>t, <2>1, <2>2
         DEF TransferStream, Goto, remote, reports, history, PCs,
             ClientTypes, CatalogTypes, StorageTypes
  <1>14. ASSUME NEW c \in Clients, OpenRemoval(c)
         PROVE  ClientTypes' /\ CatalogTypes' /\ StorageTypes'
    <2>1. /\ RemovableObjects(catalog, task[c].room, task[c].targets) \subseteq Object
          /\ UnreachableSnapshots(catalog, task[c].room, task[c].targets) \subseteq Snapshot
      BY <1>t, RemovableType DEF CatalogTypes
    <2>2. task' \in [Clients -> Task]
      BY <1>14, <1>t, <1>read, <2>1 DEF OpenRemoval, ClientTypes, Task
    <2> QED BY <1>14, <1>t, <1>read, <2>2
         DEF OpenRemoval, ReadCatalog, Goto, remote, reports, history, PCs,
             ClientTypes, CatalogTypes, StorageTypes
  <1>15. ASSUME NEW c \in Clients, OpenJatRemoval(c)
         PROVE  ClientTypes' /\ CatalogTypes' /\ StorageTypes'
    <2> DEFINE present == RecordIds(RoomRecords(catalog, task[c].room))
               targets == IF task[c].whole THEN present ELSE task[c].targets
    <2>1. RemovableObjects(catalog, task[c].room, targets) \subseteq Object
      BY <1>t, RemovableType DEF CatalogTypes
    <2>2. present \subseteq OptId
      BY <1>t, RecordIdsType DEF CatalogTypes, CatalogBody, RoomRecords
    <2>3. task' = [task EXCEPT ![c].targets = targets,
                               ![c].objects = RemovableObjects(catalog, task[c].room, targets)]
      BY <1>15 DEF OpenJatRemoval
    <2>4. targets \subseteq OptId
      BY <2>2, <1>read DEF Task
    <2> HIDE DEF targets
    <2>5. task' \in [Clients -> Task]
      BY <1>t, <1>read, <2>1, <2>3, <2>4 DEF ClientTypes, Task
    <2> QED BY <1>15, <1>t, <1>read, <2>5
         DEF OpenJatRemoval, ReadCatalog, Goto, remote, reports, history, PCs,
             ClientTypes, CatalogTypes, StorageTypes
  <1>16. ASSUME NEW c \in Clients, RemovalFails(c)
         PROVE  ClientTypes' /\ CatalogTypes' /\ StorageTypes'
    <2>1. PICK outcome \in Outcomes : /\ Unapplied(RemoveRequest(c), outcome)
                                      /\ todo' = todo \cup RemovalReceipt(c, outcome)
      BY <1>16 DEF RemovalFails
    <2>2. CatalogTypes'
      BY <1>t, <2>1, RequestTypes, UnappliedType
    <2>3. ClientTypes'
      BY <1>16, <1>t, FinishType DEF RemovalFails
    <2>4. todo' \subseteq Artifact
      BY <1>t, <2>1, ReceiptTypes DEF StorageTypes, Artifact
    <2> QED BY <1>16, <1>t, <2>2, <2>3, <2>4 DEF RemovalFails, StorageTypes
  <1>16a. ASSUME NEW c \in Clients, VerifyRemoval(c)
          PROVE  ClientTypes' /\ CatalogTypes' /\ StorageTypes'
    <2>1. PICK outcome \in Answers(c) :
            /\ todo' = todo \cup RemovalReceipt(c, outcome)
            /\ lost' = IF outcome = "rejected" THEN lost \cup task[c].restic ELSE lost
            /\ IF RemovalConfirmed(outcome)
               THEN Goto(c, "delete") /\ Release(c) /\ UNCHANGED <<op, draft, task>>
               ELSE Finish(c)
      BY <1>16a DEF VerifyRemoval
    <2>2. ClientTypes'
      <3>1. CASE Finish(c)
        BY <1>t, <3>1, FinishType
      <3>2. CASE Goto(c, "delete") /\ Release(c) /\ UNCHANGED <<op, draft, task>>
        BY <1>t, <3>2, IdleTypes DEF Goto, Release, ClientTypes, PCs
      <3> QED BY <2>1, <3>1, <3>2
    <2>3. todo' \subseteq Artifact /\ lost' \subseteq Snapshot
      BY <1>t, <1>read, <2>1, ReceiptTypes DEF StorageTypes, Artifact, Task
    <2> QED BY <1>16a, <1>t, <2>2, <2>3 DEF VerifyRemoval, remote, CatalogTypes, StorageTypes
  <1>17. ASSUME NEW c \in Clients, DeleteObject(c)
         PROVE  ClientTypes' /\ CatalogTypes' /\ StorageTypes'
    <2>1. task' \in [Clients -> Task]
      BY <1>17, <1>t, <1>read DEF DeleteObject, ClientTypes, Task
    <2>2. stored' \subseteq Artifact
      BY <1>17, <1>t DEF DeleteObject, StorageTypes
    <2> QED BY <1>17, <1>t, <2>1, <2>2
         DEF DeleteObject, reports, history, ClientTypes, CatalogTypes, StorageTypes
  <1>18. ASSUME NEW c \in Clients, EndDeletion(c)
         PROVE  ClientTypes' /\ CatalogTypes' /\ StorageTypes'
    <2>1. task[c].restic \subseteq Snapshot /\ task[c].failed \subseteq Object
      BY <1>read DEF Task
    <2>2. todo' \subseteq Artifact /\ uncollected' \subseteq Object
      BY <1>18, <1>t, <2>1 DEF EndDeletion, StorageTypes, Artifact
    <2>3. ClientTypes'
      <3>1. CASE Finish(c)
        BY <1>t, <3>1, FinishType
      <3>2. CASE Goto(c, "fresh") /\ UNCHANGED <<op, seen, draft, task>>
        BY <1>t, <3>2 DEF Goto, ClientTypes, PCs
      <3> QED BY <1>18, <3>1, <3>2 DEF EndDeletion
    <2> QED BY <1>18, <1>t, <2>2, <2>3 DEF EndDeletion, remote, CatalogTypes, StorageTypes
  <1>19. ASSUME NEW c \in Clients, OpenFresh(c) \/ LoadDescriptors(c)
         PROVE  ClientTypes' /\ CatalogTypes' /\ StorageTypes'
    BY <1>19, <1>t, <1>read
       DEF OpenFresh, LoadDescriptors, ReadCatalog, Goto, remote, reports, history, PCs,
           ClientTypes, CatalogTypes, StorageTypes
  <1>20. ASSUME NEW c \in Clients, Forget(c) \/ ForgetFails(c)
         PROVE  ClientTypes' /\ CatalogTypes' /\ StorageTypes'
    <2>1. task[c].restic \subseteq Snapshot
      BY <1>read DEF Task
    <2>2. stored' \subseteq Artifact /\ todo' \subseteq Artifact
      BY <1>20, <1>t, <2>1 DEF Forget, ForgetFails, Candidates, StorageTypes, Artifact
    <2>3. ClientTypes'
      BY <1>20, <1>t, FinishType DEF Forget, ForgetFails
    <2> QED BY <1>20, <1>t, <2>2, <2>3
         DEF Forget, ForgetFails, history, CatalogTypes, StorageTypes
  <1>21. ASSUME NEW c \in Clients, DeferCleanup(c)
         PROVE  ClientTypes' /\ CatalogTypes' /\ StorageTypes'
    BY <1>21, <1>t, FinishType
       DEF DeferCleanup, remote, reports, history, CatalogTypes, StorageTypes
  <1>22. ASSUME NEW c \in Clients, Abort(c)
         PROVE  ClientTypes' /\ CatalogTypes' /\ StorageTypes'
    <2>1. ClientTypes'
      BY <1>22, <1>t, FinishType DEF Abort
    <2>2. FailureReceipt(c) \subseteq Artifact /\ OrphanReceipt(c, "rejected") \subseteq Object
      BY <1>t, ReceiptTypes
    <2>3. todo' \subseteq Artifact /\ orphans' \subseteq Object
      BY <1>22, <1>t, <2>2 DEF Abort, StorageTypes
    <2>4. verdict' \in [Ids -> {"none", "committed", "rejected"}]
      BY <1>22, <1>t DEF Abort, StorageTypes
    <2> QED BY <1>22, <1>t, <2>1, <2>3, <2>4
         DEF Abort, remote, history, CatalogTypes, StorageTypes
  <1>23. ASSUME NEW c \in Clients, Crash(c)
         PROVE  ClientTypes' /\ CatalogTypes' /\ StorageTypes'
    <2>1. ClientTypes'
      BY <1>23, <1>t, FinishType DEF Crash
    <2>2. inflight' \subseteq Put
      BY <1>23, <1>t, RequestTypes DEF Crash, CatalogTypes
    <2>3. lost' \subseteq Snapshot
      BY <1>23, <1>t, <1>read DEF Crash, StorageTypes, Task
    <2> QED BY <1>23, <1>t, <2>1, <2>2, <2>3
         DEF Crash, reports, CatalogTypes, StorageTypes
  <1>24. CASE UNCHANGED vars
    BY <1>24, <1>t DEF vars, remote, local, reports, history,
                       ClientTypes, CatalogTypes, StorageTypes
  <1> QED
    BY <1>1, <1>2, <1>3, <1>4, <1>5, <1>6, <1>7, <1>8, <1>9, <1>9a, <1>9b, <1>10,
       <1>11, <1>12, <1>13, <1>14, <1>15, <1>16, <1>16a, <1>17, <1>18, <1>19, <1>20, <1>21, <1>22, <1>23, <1>24
       DEF Next, Step

\* Type correctness, for every set of clients, Rooms and ids and every choice
\* of commands and faults: in particular "latest" is always an id or none,
\* receipts name artifacts, and every PUT carries a well-formed catalog.
THEOREM TypeCorrect == Spec => []TypeOK
  <1>1. Init => TypeOK
    BY IdleTypes, EmptyCatalogType DEF Init, TypeOK, PCs, OptId
  <1>2. TypeOK /\ [Next]_vars => TypeOK'
    BY TypeStep
  <1> QED BY <1>1, <1>2, PTL DEF Spec

-----------------------------------------------------------------------------
(* References and removals.                                                *)

\* Nothing is both an object and a snapshot.
LEMMA TagsDisjoint == Object \cap Snapshot = {}
  BY DEF Object, Snapshot

\* What add_snapshot makes the catalog name.
LEMMA AddSnapshotReferences ==
    ASSUME NEW body, NEW r
    PROVE  AllReferences(AddSnapshot(body, r).records)
             = AllReferences(body.records) \cup References(r)
  BY DEF AddSnapshot, AllReferences

\* A removal only takes records out.
LEMMA RemoveRecordsSubset ==
    ASSUME NEW body, NEW room, NEW ids
    PROVE  RemoveRecords(body, room, ids).records \subseteq body.records
  BY DEF RemoveRecords

\* What a removal plans to delete is named by the old catalog and not by the
\* new one.
LEMMA RemovalPlan ==
    ASSUME NEW body \in CatalogBody, NEW room, NEW ids
    PROVE  RemovableObjects(body, room, ids) \cup UnreachableSnapshots(body, room, ids)
             \subseteq AllReferences(body.records)
                         \ AllReferences(RemoveRecords(body, room, ids).records)
  <1> DEFINE kept == RemoveRecords(body, room, ids).records
  <1>1. kept \subseteq body.records
    BY RemoveRecordsSubset
  <1> HIDE DEF kept
  <1>2. \A r \in body.records : r.object \in Object /\ r.restic \subseteq Snapshot
    BY DEF CatalogBody, Record
  <1>3. RemovableObjects(body, room, ids)
          = {r.object : r \in body.records \ kept} \ {r.object : r \in kept}
    BY DEF RemovableObjects, kept
  <1>4. UnreachableSnapshots(body, room, ids)
          = (UNION {r.restic : r \in body.records \ kept}) \ (UNION {r.restic : r \in kept})
    BY DEF UnreachableSnapshots, kept
  <1>5. ASSUME NEW a \in RemovableObjects(body, room, ids)
        PROVE  a \in AllReferences(body.records) /\ a \notin AllReferences(kept)
    BY <1>1, <1>2, <1>3, <1>5, TagsDisjoint DEF AllReferences, References
  <1>6. ASSUME NEW a \in UnreachableSnapshots(body, room, ids)
        PROVE  a \in AllReferences(body.records) /\ a \notin AllReferences(kept)
    <2>1. PICK q \in body.records \ kept : a \in q.restic
      BY <1>4, <1>6
    <2>2. a \in Snapshot
      BY <1>2, <2>1
    <2>3. ASSUME NEW s \in kept PROVE a \notin References(s)
      <3>0. a \notin UNION {r.restic : r \in kept}
        BY <1>4, <1>6
      <3>1. a \notin s.restic
        BY <3>0, <2>3
      <3>2. s.object \in Object
        BY <1>1, <1>2
      <3> QED BY <2>2, <3>1, <3>2, TagsDisjoint DEF References
    <2> QED BY <2>1, <2>3 DEF AllReferences, References
  <1> QED BY <1>5, <1>6 DEF kept

-----------------------------------------------------------------------------
(* How the invariant is carried over a step.                               *)

\* The other clients are not affected.
Others(c) == \A d \in Clients \ {c} : /\ pc'[d] = pc[d] /\ seen'[d] = seen[d]
                                     /\ draft'[d] = draft[d] /\ task'[d] = task[d]

\* A client that does not start collecting dooms nothing.
LEMMA DoomedShrinks ==
    ASSUME NEW c \in Clients, Others(c),
           c \in Collecting' => /\ c \in Collecting
                                /\ task'[c].objects \subseteq task[c].objects
                                /\ task'[c].restic \subseteq task[c].restic
    PROVE  Doomed' \subseteq Doomed
  <1> SUFFICES ASSUME NEW a \in Doomed' PROVE a \in Doomed
    OBVIOUS
  <1>1. PICK d \in Collecting' : a \in task'[d].objects \cup task'[d].restic
    BY DEF Doomed
  <1>2. d \in Clients
    BY DEF Collecting
  <1>3. d \in Collecting /\ a \in task[d].objects \cup task[d].restic
    BY <1>1, <1>2 DEF Others, Collecting
  <1> QED BY <1>3 DEF Doomed

\* A step of one client that replaces no catalog: what is stored and not
\* doomed stays so, and only the client's own part is to be shown.
LEMMA QuietStep ==
    ASSUME SafetyInvariant, NEW c \in Clients, Others(c),
           UNCHANGED <<etag, catalog>>,
           used \subseteq used', Doomed' \subseteq Doomed, stored \ Doomed \subseteq stored',
           \A put \in inflight' \ inflight :
             /\ put.etag = etag
             /\ AllReferences(put.body.records) \subseteq stored \ Doomed
             /\ Numbered(AllReferences(put.body.records))
             /\ \A d \in Clients \ {c} : pc[d] = "create-catalog" =>
                   draft[d].object \notin AllReferences(put.body.records),
           ClientSafe(c)',
           \A d \in Clients \ {c} : pc[d] = "create-catalog" => draft'[c].object # draft[d].object
    PROVE  SafetyInvariant'
  <1>1. stored \ Doomed \subseteq stored' \ Doomed'
    OBVIOUS
  <1>2. CatalogSafe'
    BY <1>1 DEF SafetyInvariant, CatalogSafe, Numbered
  <1>3. InflightSafe'
    <2> SUFFICES ASSUME NEW put \in inflight'
                 PROVE  /\ put.etag = etag'
                        /\ AllReferences(put.body.records) \subseteq stored' \ Doomed'
                        /\ \A a \in AllReferences(put.body.records) : a[2] \in used'
      BY DEF InflightSafe, Numbered
    <2>1. CASE put \in inflight
      BY <1>1, <2>1 DEF SafetyInvariant, InflightSafe, Numbered
    <2>2. CASE put \notin inflight
      BY <1>1, <2>2 DEF Numbered
    <2> QED BY <2>1, <2>2
  <1>4. ASSUME NEW d \in Clients, d # c
        PROVE  ClientSafe(d)'
    <2>1. /\ pc'[d] = pc[d] /\ seen'[d] = seen[d] /\ draft'[d] = draft[d] /\ task'[d] = task[d]
          /\ ClientSafe(d)
      BY <1>4 DEF Others, SafetyInvariant
    <2>2. ReadFaithful(d)'
      BY <2>1 DEF ClientSafe, ReadFaithful, Current
    <2>3. DraftSafe(d)'
      BY <1>1, <2>1 DEF ClientSafe, DraftSafe, Current
    <2>4. UploadPrivate(d)'
      <3> SUFFICES ASSUME pc[d] = "create-catalog"
                   PROVE  UploadPrivate(d)'
        BY <2>1 DEF UploadPrivate
      <3>1. /\ draft[d].id \in Ids
            /\ draft[d].object = <<"object", draft[d].id>>
            /\ draft[d].restic = {}
            /\ draft[d].object \in stored' \ Doomed'
            /\ draft[d].object \notin AllReferences(catalog'.records)
        BY <1>1, <2>1 DEF ClientSafe, UploadPrivate
      <3>2. \A put \in inflight' : draft[d].object \notin AllReferences(put.body.records)
        BY <2>1, <1>4 DEF ClientSafe, UploadPrivate
      <3>3. \A e \in Clients \ {d} : draft[d].object # draft'[e].object
        BY <2>1, <1>4 DEF ClientSafe, UploadPrivate, Others
      <3> QED BY <2>1, <3>1, <3>2, <3>3 DEF UploadPrivate
    <2>5. RemovalPlanned(d)'
      BY <2>1 DEF ClientSafe, RemovalPlanned, RemoveRequest
    <2>6. DraftNamed(d)'
      BY <2>1 DEF ClientSafe, DraftNamed, Current, Numbered
    <2> QED BY <2>1, <2>2, <2>3, <2>4, <2>5, <2>6 DEF ClientSafe
  <1> QED BY <1>2, <1>3, <1>4 DEF SafetyInvariant

\* A step that replaces the catalog: nobody's ETag is current any more, so
\* what is to be shown concerns only the new catalog and what it dooms.
LEMMA AppliedStep ==
    ASSUME TypeOK, SafetyInvariant,
           etag' = etag + 1, inflight' = {}, UNCHANGED <<stored, used>>,
           AllReferences(catalog'.records) \subseteq stored \ Doomed',
           Numbered(AllReferences(catalog'.records)),
           Doomed' \subseteq Doomed \cup AllReferences(catalog.records),
           \A d \in Clients : pc[d] = "create-catalog" =>
             draft[d].object \notin AllReferences(catalog'.records),
           \A d \in Clients :
             \/ /\ pc'[d] = pc[d] /\ seen'[d] = seen[d]
                /\ draft'[d] = draft[d] /\ task'[d] = task[d]
             \/ /\ pc'[d] \in {"verify", "remove-verify"}
                /\ seen'[d] = [etag |-> etag', body |-> catalog'] /\ draft'[d] = draft[d]
    PROVE  SafetyInvariant'
  <1>1. etag \in Nat /\ etag' # 0
    BY DEF TypeOK
  <1>2. CatalogSafe'
    BY <1>1 DEF SafetyInvariant, CatalogSafe, Numbered
  <1>3. InflightSafe'
    BY DEF InflightSafe
  <1>4. ASSUME NEW d \in Clients
        PROVE  ClientSafe(d)'
    <2>1. ClientSafe(d) /\ seen[d].etag \in Nat /\ seen[d].etag <= etag
      BY DEF SafetyInvariant, ClientSafe, ReadFaithful, TypeOK, Read
    <2>2. CASE pc'[d] \in {"verify", "remove-verify"} /\ draft'[d] = draft[d]
               /\ seen'[d] = [etag |-> etag', body |-> catalog']
      <3>1. ReadFaithful(d)'
        BY <1>1, <2>2 DEF ReadFaithful, Current
      <3>2. DraftSafe(d)' /\ UploadPrivate(d)' /\ RemovalPlanned(d)'
        BY <2>2 DEF DraftSafe, UploadPrivate, RemovalPlanned
      <3>3. DraftNamed(d)'
        BY <2>1, <2>2 DEF ClientSafe, DraftNamed
      <3> QED BY <2>2, <3>1, <3>2, <3>3 DEF ClientSafe
    <2>6. CASE /\ pc'[d] = pc[d] /\ seen'[d] = seen[d]
               /\ draft'[d] = draft[d] /\ task'[d] = task[d]
      <3>0. ReadFaithful(d)' /\ ~Current(d)'
        BY <1>1, <2>1, <2>6 DEF ReadFaithful, Current
      <3>4. DraftNamed(d)'
        BY <2>1, <2>6, <3>0 DEF ClientSafe, DraftNamed
      <3>1. DraftSafe(d)'
        BY <2>1, <2>6, <3>0 DEF ClientSafe, DraftSafe
      <3>2. RemovalPlanned(d)'
        BY <2>1, <2>6 DEF ClientSafe, RemovalPlanned, RemoveRequest
      <3>3. UploadPrivate(d)'
        <4> SUFFICES ASSUME pc[d] = "create-catalog"
                     PROVE  UploadPrivate(d)'
          BY <2>6 DEF UploadPrivate
        <4>1. /\ draft[d].id \in Ids
              /\ draft[d].object = <<"object", draft[d].id>>
              /\ draft[d].restic = {}
              /\ draft[d].object \in stored \ Doomed
              /\ draft[d].object \notin AllReferences(catalog.records)
          BY <2>1 DEF ClientSafe, UploadPrivate
        <4>2. draft[d].object \in stored' \ Doomed'
          BY <4>1
        <4>4. \A e \in Clients \ {d} : draft[d].object # draft'[e].object
          BY <2>1 DEF ClientSafe, UploadPrivate
        <4> QED BY <2>6, <4>1, <4>2, <4>4 DEF UploadPrivate
      <3> QED BY <2>1, <2>6, <3>0, <3>1, <3>2, <3>3, <3>4 DEF ClientSafe
    <2> QED BY <2>2, <2>6
  <1> QED BY <1>2, <1>3, <1>4 DEF SafetyInvariant

\* A client between commands satisfies its part of the invariant.
LEMMA FinishSafe ==
    ASSUME TypeOK, SafetyInvariant, NEW c \in Clients, Finish(c), UNCHANGED <<etag, catalog>>
    PROVE  /\ ClientSafe(c)' /\ Others(c)
           /\ Doomed' \subseteq Doomed
           /\ \A d \in Clients \ {c} : pc[d] = "create-catalog" =>
                draft'[c].object # draft[d].object
  <1>1. /\ pc'[c] = "idle" /\ seen'[c] = Unread /\ draft'[c] = NoRecord
        /\ Others(c)
    BY DEF Finish, TypeOK, Others
  <1>2. Doomed' \subseteq Doomed
    BY <1>1, DoomedShrinks DEF Collecting
  <1>3. ReadFaithful(c)'
    BY <1>1 DEF ReadFaithful, Current, Unread, SafetyInvariant, CatalogSafe, TypeOK
  <1>4. DraftSafe(c)' /\ UploadPrivate(c)' /\ RemovalPlanned(c)' /\ DraftNamed(c)'
    BY <1>1 DEF DraftSafe, UploadPrivate, RemovalPlanned, DraftNamed, NoRecord, NoId
  <1>5. ASSUME NEW d \in Clients \ {c}, pc[d] = "create-catalog"
        PROVE  draft'[c].object # draft[d].object
    BY <1>1, <1>5, IdsAssumption
       DEF SafetyInvariant, ClientSafe, UploadPrivate, NoRecord, NoId
  <1> QED BY <1>1, <1>2, <1>3, <1>4, <1>5 DEF ClientSafe

-----------------------------------------------------------------------------
(* The PUTs.                                                               *)

\* Whoever holds the current ETag publishes only what exists and is claimed
\* by no removal.
LEMMA PublishRequestSafe ==
    ASSUME TypeOK, SafetyInvariant, NEW c \in Clients, pc[c] = "publish",
           Accepts(PublishRequest(c))
    PROVE  /\ PublishRequest(c).etag = etag
           /\ AllReferences(PublishRequest(c).body.records) \subseteq stored \ Doomed
           /\ Numbered(AllReferences(PublishRequest(c).body.records))
           /\ \A d \in Clients : pc[d] = "create-catalog" =>
                draft[d].object \notin AllReferences(PublishRequest(c).body.records)
  <1>1. seen[c].etag = etag /\ PublishRequest(c).etag = etag
    BY DEF Accepts, PublishRequest
  <1>2. ClientSafe(c) /\ seen[c].body = catalog
    BY <1>1 DEF SafetyInvariant, ClientSafe, ReadFaithful, Current
  <1>3. AllReferences(PublishRequest(c).body.records)
          = AllReferences(catalog.records) \cup References(draft[c])
    BY <1>2, AddSnapshotReferences DEF PublishRequest
  <1>4. References(draft[c]) \subseteq stored \ Doomed /\ Numbered(References(draft[c]))
    BY <1>1, <1>2 DEF ClientSafe, DraftSafe, DraftNamed, Current, References
  <1>5. /\ AllReferences(catalog.records) \subseteq stored \ Doomed
        /\ Numbered(AllReferences(catalog.records))
    BY DEF SafetyInvariant, CatalogSafe, Numbered
  <1>6. ASSUME NEW d \in Clients, pc[d] = "create-catalog"
        PROVE  draft[d].object \notin AllReferences(catalog.records) \cup References(draft[c])
    <2>1. /\ draft[d].object \notin AllReferences(catalog.records)
          /\ draft[d].object # draft[c].object
      BY <1>6 DEF SafetyInvariant, ClientSafe, UploadPrivate
    <2>2. draft[d].object \in Object /\ draft[c].restic \subseteq Snapshot
      BY DEF TypeOK, Record
    <2> QED BY <2>1, <2>2, TagsDisjoint DEF References
  <1> QED BY <1>1, <1>3, <1>4, <1>5, <1>6 DEF Numbered

\* A removal by the holder of the current ETag keeps only what exists, and
\* what it will delete is named by nothing it keeps.
LEMMA RemoveRequestSafe ==
    ASSUME TypeOK, SafetyInvariant, NEW c \in Clients, pc[c] = "remove-publish",
           Accepts(RemoveRequest(c))
    PROVE  /\ RemoveRequest(c).etag = etag
           /\ AllReferences(RemoveRequest(c).body.records) \subseteq AllReferences(catalog.records)
           /\ AllReferences(RemoveRequest(c).body.records) \subseteq stored \ Doomed
           /\ Numbered(AllReferences(RemoveRequest(c).body.records))
           /\ \A d \in Clients : pc[d] = "create-catalog" =>
                draft[d].object \notin AllReferences(RemoveRequest(c).body.records)
           /\ task[c].objects \cup task[c].restic
                \subseteq AllReferences(catalog.records)
                            \ AllReferences(RemoveRequest(c).body.records)
  <1>1. seen[c].etag = etag /\ RemoveRequest(c).etag = etag
    BY DEF Accepts, RemoveRequest
  <1>2. ClientSafe(c) /\ seen[c].body = catalog
    BY <1>1 DEF SafetyInvariant, ClientSafe, ReadFaithful, Current
  <1>3. RemoveRequest(c).body.records \subseteq catalog.records
    BY <1>2, RemoveRecordsSubset DEF RemoveRequest
  <1>4. AllReferences(RemoveRequest(c).body.records) \subseteq AllReferences(catalog.records)
    BY <1>3 DEF AllReferences
  <1>5. /\ AllReferences(catalog.records) \subseteq stored \ Doomed
        /\ Numbered(AllReferences(catalog.records))
    BY DEF SafetyInvariant, CatalogSafe, Numbered
  <1>6. ASSUME NEW d \in Clients, pc[d] = "create-catalog"
        PROVE  draft[d].object \notin AllReferences(catalog.records)
    BY <1>6 DEF SafetyInvariant, ClientSafe, UploadPrivate
  <1>7. task[c].objects \cup task[c].restic
          \subseteq AllReferences(catalog.records) \ AllReferences(RemoveRequest(c).body.records)
    BY <1>2 DEF ClientSafe, RemovalPlanned
  <1> QED BY <1>1, <1>4, <1>5, <1>6, <1>7 DEF Numbered

\* A late PUT is applied only while the catalog it was made from is current.
LEMMA DeliverLateSafe ==
    ASSUME TypeOK, SafetyInvariant, DeliverLate
    PROVE  SafetyInvariant'
  <1>1. PICK put \in inflight : Apply(put)
    BY DEF DeliverLate
  <1>2. UNCHANGED <<stored, used, pc, seen, draft, task>>
    BY DEF DeliverLate, local
  <1>3. Doomed' = Doomed
    BY <1>2 DEF Doomed, Collecting
  <1>4. /\ AllReferences(put.body.records) \subseteq stored \ Doomed
        /\ Numbered(AllReferences(put.body.records))
    BY DEF SafetyInvariant, InflightSafe
  <1>5. \A d \in Clients : pc[d] = "create-catalog" =>
          draft[d].object \notin AllReferences(put.body.records)
    BY DEF SafetyInvariant, ClientSafe, UploadPrivate
  <1>6. etag' = etag + 1 /\ inflight' = {} /\ catalog' = put.body
    BY <1>1 DEF Apply
  <1> QED BY <1>2, <1>3, <1>4, <1>5, <1>6, AppliedStep

\* What an applied publication names exists and stays unclaimed.
LEMMA PublishSafe ==
    ASSUME TypeOK, SafetyInvariant, NEW c \in Clients, Publish(c)
    PROVE  SafetyInvariant'
  <1>1. /\ pc[c] = "publish" /\ Accepts(PublishRequest(c)) /\ Apply(PublishRequest(c))
        /\ UNCHANGED <<stored, used>>
    BY DEF Publish, Applied
  <1>2. /\ Others(c) /\ pc'[c] = "verify" /\ draft'[c] = draft[c]
        /\ seen'[c] = [etag |-> etag', body |-> catalog']
    BY DEF Publish, Applied, Others, Goto, TypeOK
  <1>3. Doomed' \subseteq Doomed
    BY <1>2, DoomedShrinks DEF Collecting
  <1>4. etag' = etag + 1 /\ inflight' = {} /\ catalog' = PublishRequest(c).body
    BY <1>1 DEF Apply
  <1>5. /\ AllReferences(catalog'.records) \subseteq stored \ Doomed'
        /\ Numbered(AllReferences(catalog'.records))
        /\ \A d \in Clients : pc[d] = "create-catalog" =>
             draft[d].object \notin AllReferences(catalog'.records)
    BY <1>1, <1>3, <1>4, PublishRequestSafe
  <1> QED BY <1>1, <1>2, <1>3, <1>4, <1>5, AppliedStep DEF Others

\* What a command does after its PUT concerns no artifact that the catalog names.
LEMMA ReportSafe ==
    ASSUME TypeOK, SafetyInvariant, NEW c \in Clients, NEW outcome, Report(c, outcome),
           UNCHANGED <<etag, catalog, stored, used>>,
           \A put \in inflight' \ inflight : /\ put = PublishRequest(c) /\ pc[c] = "publish"
                                             /\ Accepts(PublishRequest(c))
    PROVE  SafetyInvariant'
  <1>1. /\ Others(c) /\ pc'[c] \in {"idle", "marker"} /\ seen'[c] = Unread
        /\ draft'[c] \in {draft[c], NoRecord}
    BY DEF Report, Others, Goto, Release, Finish, TypeOK
  <1>2. Doomed' \subseteq Doomed
    BY <1>1, DoomedShrinks DEF Collecting
  <1>3. \A put \in inflight' \ inflight :
           /\ put.etag = etag
           /\ AllReferences(put.body.records) \subseteq stored \ Doomed
           /\ Numbered(AllReferences(put.body.records))
           /\ \A d \in Clients \ {c} : pc[d] = "create-catalog" =>
                 draft[d].object \notin AllReferences(put.body.records)
    BY PublishRequestSafe
  <1>4. ClientSafe(c)'
    <2>1. ReadFaithful(c)'
      BY <1>1 DEF ReadFaithful, Current, Unread, SafetyInvariant, CatalogSafe, TypeOK
    <2>2. DraftSafe(c)' /\ UploadPrivate(c)' /\ RemovalPlanned(c)'
      BY <1>1 DEF DraftSafe, UploadPrivate, RemovalPlanned
    <2>3. DraftNamed(c)'
      BY <1>1 DEF DraftNamed, NoRecord, NoId, SafetyInvariant, ClientSafe
    <2> QED BY <1>1, <2>1, <2>2, <2>3 DEF ClientSafe
  <1>5. \A d \in Clients \ {c} : pc[d] = "create-catalog" => draft'[c].object # draft[d].object
    BY <1>1, IdsAssumption DEF SafetyInvariant, ClientSafe, UploadPrivate, NoRecord, NoId
  <1> QED BY <1>1, <1>2, <1>3, <1>4, <1>5, QuietStep

\* A publication that is not applied, and the read-back of one that is.
LEMMA PublishEndsSafe ==
    ASSUME TypeOK, SafetyInvariant, NEW c \in Clients, PublishFails(c) \/ Verify(c)
    PROVE  SafetyInvariant'
  <1>1. CASE PublishFails(c)
    <2>1. PICK outcome \in Outcomes : Unapplied(PublishRequest(c), outcome) /\ Report(c, outcome)
      BY <1>1 DEF PublishFails
    <2> QED BY <1>1, <2>1, ReportSafe DEF PublishFails, Unapplied
  <1>2. CASE Verify(c)
    <2>1. PICK outcome \in Answers(c) : Report(c, outcome)
      BY <1>2 DEF Verify
    <2> QED BY <1>2, <2>1, ReportSafe DEF Verify, remote
  <1> QED BY <1>1, <1>2

\* An applied removal dooms only what the catalog it replaced named and the
\* new one does not.
LEMMA PublishRemovalSafe ==
    ASSUME TypeOK, SafetyInvariant, NEW c \in Clients, PublishRemoval(c)
    PROVE  SafetyInvariant'
  <1>1. /\ pc[c] = "remove-publish" /\ Accepts(RemoveRequest(c)) /\ Apply(RemoveRequest(c))
        /\ UNCHANGED <<stored, used>>
    BY DEF PublishRemoval, Applied
  <1>2. /\ Others(c) /\ pc'[c] = "remove-verify" /\ draft'[c] = draft[c] /\ task'[c] = task[c]
        /\ seen'[c] = [etag |-> etag', body |-> catalog']
    BY DEF PublishRemoval, Applied, Others, Goto, TypeOK
  <1>3. etag' = etag + 1 /\ inflight' = {} /\ catalog' = RemoveRequest(c).body
    BY <1>1 DEF Apply
  <1>4. Doomed' \subseteq Doomed \cup task[c].objects \cup task[c].restic
    <2> SUFFICES ASSUME NEW a \in Doomed'
                 PROVE  a \in Doomed \cup task[c].objects \cup task[c].restic
      OBVIOUS
    <2>1. PICK d \in Collecting' : a \in task'[d].objects \cup task'[d].restic
      BY DEF Doomed
    <2>2. CASE d = c
      BY <1>2, <2>1, <2>2
    <2>3. CASE d # c
      BY <1>2, <2>1, <2>3 DEF Others, Doomed, Collecting
    <2> QED BY <2>2, <2>3
  <1>5. /\ AllReferences(catalog'.records) \subseteq stored \ Doomed'
        /\ Doomed' \subseteq Doomed \cup AllReferences(catalog.records)
        /\ Numbered(AllReferences(catalog'.records))
        /\ \A d \in Clients : pc[d] = "create-catalog" =>
             draft[d].object \notin AllReferences(catalog'.records)
    BY <1>1, <1>3, <1>4, RemoveRequestSafe
  <1> QED BY <1>1, <1>2, <1>3, <1>5, AppliedStep DEF Others

\* A removal that is not applied deletes nothing.
LEMMA RemovalFailsSafe ==
    ASSUME TypeOK, SafetyInvariant, NEW c \in Clients, RemovalFails(c)
    PROVE  SafetyInvariant'
  <1>1. /\ pc[c] = "remove-publish" /\ Finish(c)
        /\ UNCHANGED <<etag, catalog, stored, used>>
        /\ \A put \in inflight' \ inflight : /\ put = RemoveRequest(c)
                                             /\ Accepts(RemoveRequest(c))
    BY DEF RemovalFails, Unapplied
  <1>2. \A put \in inflight' \ inflight :
           /\ put.etag = etag
           /\ AllReferences(put.body.records) \subseteq stored \ Doomed
           /\ Numbered(AllReferences(put.body.records))
           /\ \A d \in Clients \ {c} : pc[d] = "create-catalog" =>
                 draft[d].object \notin AllReferences(put.body.records)
    BY <1>1, RemoveRequestSafe
  <1> QED BY <1>1, <1>2, FinishSafe, QuietStep

-----------------------------------------------------------------------------
(* The steps that replace no catalog.                                      *)

\* A command that returns without having changed storage.
LEMMA ReturnSafe ==
    ASSUME TypeOK, SafetyInvariant, NEW c \in Clients, Finish(c), UNCHANGED <<remote, used>>
    PROVE  SafetyInvariant'
  <1>1. UNCHANGED <<etag, catalog, stored, inflight, used>>
    BY DEF remote
  <1> QED BY <1>1, FinishSafe, QuietStep

\* A read-back either lets the removal go on or ends it.
LEMMA VerifyRemovalSafe ==
    ASSUME TypeOK, SafetyInvariant, NEW c \in Clients, VerifyRemoval(c)
    PROVE  SafetyInvariant'
  <1>1. CASE Finish(c)
    BY <1>1, ReturnSafe DEF VerifyRemoval
  <1>2. CASE Goto(c, "delete") /\ Release(c) /\ UNCHANGED <<op, draft, task>>
    <2>1. /\ Others(c) /\ pc[c] = "remove-verify" /\ pc'[c] = "delete" /\ seen'[c] = Unread
          /\ UNCHANGED <<etag, catalog, stored, inflight, used, draft, task>>
      BY <1>2 DEF VerifyRemoval, Others, Goto, Release, remote, TypeOK
    <2>2. Doomed' \subseteq Doomed
      BY <2>1, DoomedShrinks DEF Collecting
    <2>3. ReadFaithful(c)' /\ DraftNamed(c)'
      BY <2>1 DEF ReadFaithful, DraftNamed, Current, Unread, SafetyInvariant, CatalogSafe,
                  ClientSafe, TypeOK
    <2>4. ClientSafe(c)'
      BY <2>1, <2>3 DEF ClientSafe, UploadPrivate, DraftSafe, RemovalPlanned
    <2>5. \A d \in Clients \ {c} : pc[d] = "create-catalog" => draft'[c].object # draft[d].object
      BY <2>1 DEF SafetyInvariant, ClientSafe, UploadPrivate
    <2> QED BY <2>1, <2>2, <2>4, <2>5, QuietStep
  <1> QED BY <1>1, <1>2 DEF VerifyRemoval

\* What a killed process was sending is as safe as what it would have sent.
LEMMA CrashSafe ==
    ASSUME TypeOK, SafetyInvariant, NEW c \in Clients, Crash(c)
    PROVE  SafetyInvariant'
  <1>1. Finish(c) /\ UNCHANGED <<etag, catalog, stored, used>>
    BY DEF Crash
  <1>2. \A put \in inflight' \ inflight :
          \/ put = PublishRequest(c) /\ pc[c] = "publish" /\ Accepts(PublishRequest(c))
          \/ put = RemoveRequest(c) /\ pc[c] = "remove-publish" /\ Accepts(RemoveRequest(c))
    BY DEF Crash
  <1>3. ASSUME NEW put \in inflight' \ inflight
        PROVE  /\ put.etag = etag
               /\ AllReferences(put.body.records) \subseteq stored \ Doomed
               /\ Numbered(AllReferences(put.body.records))
               /\ \A d \in Clients \ {c} : pc[d] = "create-catalog" =>
                     draft[d].object \notin AllReferences(put.body.records)
    BY <1>2, PublishRequestSafe, RemoveRequestSafe
  <1> QED BY <1>1, <1>3, FinishSafe, QuietStep

\* Opening a context changes only what the client has read.
LEMMA OpenSafe ==
    ASSUME TypeOK, SafetyInvariant, NEW c \in Clients, NEW room \in Rooms, NEW command,
           OpenForSave(c, command, room)
    PROVE  SafetyInvariant'
  <1>1. /\ Others(c) /\ pc[c] = "idle" /\ pc'[c] = "backup"
        /\ seen'[c] = [etag |-> etag, body |-> catalog]
        /\ draft'[c].object = draft[c].object
        /\ UNCHANGED <<etag, catalog, stored, inflight, used>>
    BY DEF OpenForSave, Others, Goto, ReadCatalog, remote, TypeOK, Record
  <1>2. Doomed' \subseteq Doomed
    BY <1>1, DoomedShrinks DEF Collecting
  <1>3. ReadFaithful(c)'
    BY <1>1 DEF ReadFaithful, Current, TypeOK
  <1>4. DraftSafe(c)' /\ UploadPrivate(c)' /\ RemovalPlanned(c)' /\ DraftNamed(c)'
    BY <1>1 DEF DraftSafe, UploadPrivate, RemovalPlanned, DraftNamed,
                SafetyInvariant, ClientSafe
  <1>5. \A d \in Clients \ {c} : pc[d] = "create-catalog" => draft'[c].object # draft[d].object
    BY <1>1 DEF SafetyInvariant, ClientSafe, UploadPrivate
  <1>6. ClientSafe(c)'
    BY <1>1, <1>3, <1>4 DEF ClientSafe
  <1> QED BY <1>1, <1>2, <1>5, <1>6, QuietStep

\* What the parent's descriptor contributes to a save is in the catalog the
\* save has read; the rest is new.
LEMMA BackupSafe ==
    ASSUME TypeOK, SafetyInvariant, NEW c \in Clients, Backup(c)
    PROVE  SafetyInvariant'
  <1> DEFINE parents == Parents(seen[c].body, draft[c].room)
  <1>1. PICK i \in Ids \ used : \E restic \in Captures(parents, i) :
          /\ used' = used \cup {i}
          /\ stored' = stored \cup {a \in restic : a[2] = i}
          /\ draft' = [draft EXCEPT ![c] =
                         [room |-> draft[c].room, id |-> i, kind |-> "native",
                          object |-> <<"object", i>>, restic |-> restic]]
    BY DEF Backup
  <1>2. PICK restic \in Captures(parents, i) :
          /\ used' = used \cup {i}
          /\ stored' = stored \cup {a \in restic : a[2] = i}
          /\ draft' = [draft EXCEPT ![c] =
                         [room |-> draft[c].room, id |-> i, kind |-> "native",
                          object |-> <<"object", i>>, restic |-> restic]]
    BY <1>1
  <1> HIDE DEF parents
  <1>3. /\ Others(c) /\ pc[c] = "backup" /\ pc'[c] = "descriptor" /\ seen'[c] = seen[c]
        /\ draft'[c].object = <<"object", i>> /\ draft'[c].restic = restic
        /\ UNCHANGED <<etag, catalog, inflight>>
    BY <1>2 DEF Backup, Others, Goto, TypeOK
  <1>4. Doomed' \subseteq Doomed
    BY <1>3, DoomedShrinks DEF Collecting
  <1>5. ASSUME NEW a \in restic
        PROVE  a = <<"workspace", i>> \/ a = <<"component", i>> \/ \E p \in parents : a \in p.restic
    BY DEF Captures, Captured
  <1>6. ASSUME seen[c].etag = etag, NEW p \in parents, NEW a \in p.restic
        PROVE  a \in AllReferences(catalog.records)
    <2>1. seen[c].body = catalog
      BY <1>6 DEF SafetyInvariant, ClientSafe, ReadFaithful, Current
    <2>2. p \in catalog.records
      BY <2>1 DEF parents, Parents, RoomRecords
    <2> QED BY <2>2 DEF AllReferences, References
  <1>7. \A a : a[2] = i => a \notin Doomed /\ a \notin AllReferences(catalog.records)
    BY DEF SafetyInvariant, CatalogSafe, Numbered
  <1>8. DraftSafe(c)'
    <2> SUFFICES ASSUME seen[c].etag = etag
                 PROVE  restic \subseteq stored' \ Doomed' /\ <<"object", i>> \notin Doomed'
      BY <1>3 DEF DraftSafe, Current
    <2>1. ASSUME NEW a \in restic
          PROVE  a \in stored' /\ a \notin Doomed'
      <3>1. CASE a = <<"workspace", i>> \/ a = <<"component", i>>
        BY <1>2, <1>4, <1>7, <3>1
      <3>2. CASE \E p \in parents : a \in p.restic
        BY <1>2, <1>4, <1>6, <3>2 DEF SafetyInvariant, CatalogSafe
      <3> QED BY <1>5, <3>1, <3>2
    <2> QED BY <1>4, <1>7, <2>1
  <1>9. DraftNamed(c)'
    <2>1. seen[c].etag = etag => \A a \in restic : a[2] \in used'
      <3> SUFFICES ASSUME seen[c].etag = etag, NEW a \in restic PROVE a[2] \in used'
        OBVIOUS
      <3>1. CASE a = <<"workspace", i>> \/ a = <<"component", i>>
        BY <1>2, <3>1
      <3>2. CASE \E p \in parents : a \in p.restic
        BY <1>2, <1>6, <3>2 DEF SafetyInvariant, CatalogSafe, Numbered
      <3> QED BY <1>5, <3>1, <3>2
    <2> QED BY <1>2, <1>3, <2>1 DEF DraftNamed, Current, Numbered, References
  <1>10. ClientSafe(c)'
    <2>1. ReadFaithful(c)'
      BY <1>3 DEF ReadFaithful, Current, SafetyInvariant, ClientSafe
    <2> QED BY <1>3, <1>8, <1>9, <2>1 DEF ClientSafe, UploadPrivate, RemovalPlanned
  <1>11. \A d \in Clients \ {c} : pc[d] = "create-catalog" => draft'[c].object # draft[d].object
    BY <1>3 DEF SafetyInvariant, ClientSafe, UploadPrivate, DraftNamed
  <1> QED BY <1>2, <1>3, <1>4, <1>10, <1>11, QuietStep

\* Storing the descriptor makes the draft complete.
LEMMA PutDescriptorSafe ==
    ASSUME TypeOK, SafetyInvariant, NEW c \in Clients, PutDescriptor(c)
    PROVE  SafetyInvariant'
  <1>1. /\ Others(c) /\ pc[c] = "descriptor" /\ pc'[c] = "publish"
        /\ UNCHANGED <<etag, catalog, inflight, used, seen, draft, task>>
        /\ stored' = stored \cup {draft[c].object}
    BY DEF PutDescriptor, Others, Goto, TypeOK
  <1>2. Doomed' \subseteq Doomed
    BY <1>1, DoomedShrinks DEF Collecting
  <1>3. DraftSafe(c)' /\ DraftNamed(c)' /\ ReadFaithful(c)'
    BY <1>1, <1>2 DEF DraftSafe, DraftNamed, ReadFaithful, Current, Numbered,
                      SafetyInvariant, ClientSafe
  <1>4. ClientSafe(c)'
    BY <1>1, <1>3 DEF ClientSafe, UploadPrivate, RemovalPlanned
  <1>5. \A d \in Clients \ {c} : pc[d] = "create-catalog" => draft'[c].object # draft[d].object
    BY <1>1 DEF SafetyInvariant, ClientSafe, UploadPrivate
  <1> QED BY <1>1, <1>2, <1>4, <1>5, QuietStep

\* The copied descriptor is in the catalog that the copy has read.
LEMMA OpenCopySourceSafe ==
    ASSUME TypeOK, SafetyInvariant, NEW c \in Clients, NEW room \in Rooms,
           OpenCopySource(c, room)
    PROVE  SafetyInvariant'
  <1>1. PICK source \in catalog.records :
          draft' = [draft EXCEPT ![c] = [source EXCEPT !.room = room]]
    BY DEF OpenCopySource
  <1>2. source \in Record
    BY DEF TypeOK, CatalogBody
  <1>3. /\ Others(c) /\ pc[c] = "idle" /\ pc'[c] = "copy-destination"
        /\ seen'[c] = [etag |-> etag, body |-> catalog]
        /\ draft'[c].object = source.object /\ draft'[c].restic = source.restic
        /\ UNCHANGED <<etag, catalog, stored, inflight, used>>
    BY <1>1, <1>2 DEF OpenCopySource, Others, Goto, ReadCatalog, remote, TypeOK, Record
  <1>4. Doomed' \subseteq Doomed
    BY <1>3, DoomedShrinks DEF Collecting
  <1>5. References(source) \subseteq AllReferences(catalog.records)
    BY DEF AllReferences
  <1>6. source.object[2] \in used
    BY <1>5 DEF References, SafetyInvariant, CatalogSafe, Numbered
  <1>7. ReadFaithful(c)' /\ DraftSafe(c)' /\ DraftNamed(c)'
    BY <1>3, <1>5, <1>6 DEF ReadFaithful, DraftSafe, DraftNamed, Current, References, TypeOK
  <1>8. ClientSafe(c)'
    BY <1>3, <1>7 DEF ClientSafe, UploadPrivate, RemovalPlanned
  <1>9. \A d \in Clients \ {c} : pc[d] = "create-catalog" => draft'[c].object # draft[d].object
    BY <1>3, <1>5 DEF References, SafetyInvariant, ClientSafe, UploadPrivate
  <1> QED BY <1>3, <1>4, <1>8, <1>9, QuietStep

\* The destination context has read the same catalog as the source context.
LEMMA OpenCopyDestinationSafe ==
    ASSUME TypeOK, SafetyInvariant, NEW c \in Clients, OpenCopyDestination(c)
    PROVE  SafetyInvariant'
  <1>1. PICK i \in Ids \ used :
          /\ used' = used \cup {i}
          /\ draft' = [draft EXCEPT ![c] =
                         [room |-> draft[c].room, id |-> i, kind |-> "native",
                          object |-> <<"object", i>>, restic |-> draft[c].restic]]
    BY DEF OpenCopyDestination
  <1>2. /\ Others(c) /\ pc[c] = "copy-destination" /\ pc'[c] = "descriptor"
        /\ seen[c].etag = etag
        /\ draft'[c].object = <<"object", i>> /\ draft'[c].restic = draft[c].restic
        /\ UNCHANGED <<etag, catalog, stored, inflight, seen>>
    BY <1>1 DEF OpenCopyDestination, Others, Goto, remote, TypeOK
  <1>3. Doomed' \subseteq Doomed
    BY <1>2, DoomedShrinks DEF Collecting
  <1>4. draft[c].restic \subseteq AllReferences(catalog.records)
    BY <1>2 DEF SafetyInvariant, ClientSafe, ReadFaithful, DraftSafe, Current
  <1>5. <<"object", i>> \notin Doomed
    BY DEF SafetyInvariant, CatalogSafe, Numbered
  <1>6. ReadFaithful(c)' /\ DraftSafe(c)'
    BY <1>2, <1>3, <1>4, <1>5
       DEF ReadFaithful, DraftSafe, Current, SafetyInvariant, ClientSafe, CatalogSafe
  <1>7. DraftNamed(c)'
    BY <1>1, <1>2, <1>4
       DEF DraftNamed, Numbered, References, SafetyInvariant, CatalogSafe
  <1>8. ClientSafe(c)'
    BY <1>2, <1>6, <1>7 DEF ClientSafe, UploadPrivate, RemovalPlanned
  <1>9. \A d \in Clients \ {c} : pc[d] = "create-catalog" => draft'[c].object # draft[d].object
    BY <1>2 DEF SafetyInvariant, ClientSafe, UploadPrivate, DraftNamed
  <1> QED BY <1>1, <1>2, <1>3, <1>8, <1>9, QuietStep

\* A fresh object is nobody's.
LEMMA UploadSnapshotSafe ==
    ASSUME TypeOK, SafetyInvariant, NEW c \in Clients, NEW room \in Rooms,
           UploadSnapshot(c, room)
    PROVE  SafetyInvariant'
  <1>1. PICK i \in Ids \ used :
          /\ used' = used \cup {i}
          /\ stored' = stored \cup {<<"object", i>>}
          /\ draft' = [draft EXCEPT ![c] = [room |-> room, id |-> i, kind |-> "legacy",
                                            object |-> <<"object", i>>, restic |-> {}]]
    BY DEF UploadSnapshot
  <1>2. /\ Others(c) /\ pc[c] = "idle" /\ pc'[c] = "create-catalog"
        /\ draft'[c].id = i /\ draft'[c].object = <<"object", i>> /\ draft'[c].restic = {}
        /\ UNCHANGED <<etag, catalog, inflight, seen>>
    BY <1>1 DEF UploadSnapshot, Others, Goto, TypeOK
  <1>3. Doomed' \subseteq Doomed
    BY <1>2, DoomedShrinks DEF Collecting
  <1>4. /\ <<"object", i>> \notin Doomed
        /\ <<"object", i>> \notin AllReferences(catalog.records)
        /\ \A put \in inflight : <<"object", i>> \notin AllReferences(put.body.records)
    BY DEF SafetyInvariant, CatalogSafe, InflightSafe, Numbered
  <1>5. \A d \in Clients \ {c} : <<"object", i>> # draft[d].object
    <2> SUFFICES ASSUME NEW d \in Clients PROVE <<"object", i>> # draft[d].object
      OBVIOUS
    <2>1. draft[d].object[2] \in used \cup {NoId}
      BY DEF SafetyInvariant, ClientSafe, DraftNamed
    <2> QED BY <2>1, IdsAssumption DEF NoId
  <1>6. UploadPrivate(c)'
    BY <1>1, <1>2, <1>3, <1>4, <1>5 DEF UploadPrivate, Others
  <1>7. ReadFaithful(c)' /\ DraftNamed(c)'
    BY <1>1, <1>2 DEF ReadFaithful, DraftNamed, Current, SafetyInvariant, ClientSafe
  <1>8. ClientSafe(c)'
    BY <1>2, <1>6, <1>7 DEF ClientSafe, DraftSafe, RemovalPlanned
  <1> QED BY <1>1, <1>2, <1>3, <1>5, <1>8, QuietStep

\* The uploaded object is still private when the catalog is read.
LEMMA ReadCatalogForCreateSafe ==
    ASSUME TypeOK, SafetyInvariant, NEW c \in Clients, ReadCatalogForCreate(c)
    PROVE  SafetyInvariant'
  <1>1. /\ Others(c) /\ pc[c] = "create-catalog" /\ pc'[c] = "publish"
        /\ seen'[c] = [etag |-> etag, body |-> catalog]
        /\ UNCHANGED <<etag, catalog, stored, inflight, used, draft>>
    BY DEF ReadCatalogForCreate, Others, Goto, ReadCatalog, remote, TypeOK
  <1>2. Doomed' \subseteq Doomed
    BY <1>1, DoomedShrinks DEF Collecting
  <1>3. /\ draft[c].object = <<"object", draft[c].id>> /\ draft[c].restic = {}
        /\ draft[c].object \in stored \ Doomed /\ draft[c].id \in used
        /\ \A d \in Clients \ {c} : draft[c].object # draft[d].object
    BY <1>1 DEF SafetyInvariant, ClientSafe, UploadPrivate, DraftNamed
  <1>4. ReadFaithful(c)' /\ DraftSafe(c)'
    BY <1>1, <1>2, <1>3 DEF ReadFaithful, DraftSafe, Current, TypeOK
  <1>5. DraftNamed(c)'
    BY <1>1, <1>3 DEF DraftNamed, Numbered, References
  <1>6. ClientSafe(c)'
    BY <1>1, <1>4, <1>5 DEF ClientSafe, UploadPrivate, RemovalPlanned
  <1> QED BY <1>1, <1>2, <1>3, <1>6, QuietStep

\* Confirming a removal claims nothing yet.
LEMMA ConfirmRemovalSafe ==
    ASSUME TypeOK, SafetyInvariant, NEW c \in Clients, NEW room \in Rooms,
           ConfirmRemoval(c, room)
    PROVE  SafetyInvariant'
  <1>1. \E targets \in {RoomRecords(catalog, room)} \cup {{r} : r \in RoomRecords(catalog, room)} :
          task' = [task EXCEPT ![c] =
                    [NoTask EXCEPT !.room = room, !.targets = RecordIds(targets),
                                   !.whole = (targets = RoomRecords(catalog, room)),
                                   !.revision = IF ExpectRevision THEN catalog.revision ELSE 0]]
    BY DEF ConfirmRemoval
  <1>2. /\ Others(c) /\ pc[c] = "idle" /\ pc'[c] = "remove-open"
        /\ task'[c].restic = {}
        /\ UNCHANGED <<etag, catalog, stored, inflight, used, seen, draft>>
    BY <1>1 DEF ConfirmRemoval, Others, Goto, remote, NoTask, TypeOK
  <1>3. Doomed' \subseteq Doomed
    BY <1>2, DoomedShrinks DEF Collecting
  <1>4. ReadFaithful(c)' /\ DraftNamed(c)' /\ RemovalPlanned(c)'
    BY <1>2 DEF ReadFaithful, DraftNamed, RemovalPlanned, Current, SafetyInvariant, ClientSafe
  <1>5. ClientSafe(c)'
    BY <1>2, <1>4 DEF ClientSafe, UploadPrivate, DraftSafe
  <1>6. \A d \in Clients \ {c} : pc[d] = "create-catalog" => draft'[c].object # draft[d].object
    BY <1>2 DEF SafetyInvariant, ClientSafe, UploadPrivate
  <1> QED BY <1>2, <1>3, <1>5, <1>6, QuietStep

\* Either removal plans to delete only what nothing it keeps names.
LEMMA OpenRemovalSafe ==
    ASSUME TypeOK, SafetyInvariant, NEW c \in Clients, OpenRemoval(c) \/ OpenJatRemoval(c)
    PROVE  SafetyInvariant'
  <1>0. task[c] \in Task
    BY DEF TypeOK
  <1>1. /\ Others(c) /\ pc[c] = "remove-open" /\ pc'[c] = "remove-publish"
        /\ seen'[c] = [etag |-> etag, body |-> catalog]
        /\ UNCHANGED <<etag, catalog, stored, inflight, used, draft>>
    BY DEF OpenRemoval, OpenJatRemoval, Others, Goto, ReadCatalog, remote, TypeOK
  <1>2. /\ task'[c].room = task[c].room
        /\ task'[c].objects = RemovableObjects(catalog, task[c].room, task'[c].targets)
        /\ task'[c].restic \subseteq UnreachableSnapshots(catalog, task[c].room, task'[c].targets)
    <2>1. CASE OpenRemoval(c)
      BY <1>0, <2>1 DEF OpenRemoval, TypeOK, Task
    <2>2. CASE OpenJatRemoval(c)
      <3>1. task[c].restic = {}
        BY <1>1 DEF SafetyInvariant, ClientSafe, RemovalPlanned
      <3>2. PICK targets :
              task' = [task EXCEPT ![c].targets = targets,
                                   ![c].objects = RemovableObjects(catalog, task[c].room, targets)]
        BY <2>2 DEF OpenJatRemoval
      <3> QED BY <1>0, <3>1, <3>2 DEF TypeOK, Task
    <2> QED BY <2>1, <2>2
  <1>3. catalog \in CatalogBody
    BY DEF TypeOK
  <1>4. task'[c].objects \cup task'[c].restic
          \subseteq AllReferences(catalog.records)
             \ AllReferences(RemoveRecords(catalog, task[c].room, task'[c].targets).records)
    BY <1>2, <1>3, RemovalPlan
  <1>5. RemovalPlanned(c)'
    BY <1>1, <1>2, <1>4 DEF RemovalPlanned, RemoveRequest
  <1>6. Doomed' \subseteq Doomed
    BY <1>1, DoomedShrinks DEF Collecting
  <1>7. ReadFaithful(c)' /\ DraftNamed(c)'
    BY <1>1 DEF ReadFaithful, DraftNamed, Current, SafetyInvariant, ClientSafe, TypeOK
  <1>8. ClientSafe(c)'
    BY <1>1, <1>5, <1>7 DEF ClientSafe, UploadPrivate, DraftSafe
  <1>9. \A d \in Clients \ {c} : pc[d] = "create-catalog" => draft'[c].object # draft[d].object
    BY <1>1 DEF SafetyInvariant, ClientSafe, UploadPrivate
  <1> QED BY <1>1, <1>6, <1>8, <1>9, QuietStep

\* Only doomed objects are deleted.
LEMMA DeleteObjectSafe ==
    ASSUME TypeOK, SafetyInvariant, NEW c \in Clients, DeleteObject(c)
    PROVE  SafetyInvariant'
  <1>1. PICK o \in task[c].objects :
          /\ stored' \in {stored, stored \ {o}}
          /\ \/ task' = [task EXCEPT ![c].objects = @ \ {o}]
             \/ task' = [task EXCEPT ![c].objects = @ \ {o}, ![c].failed = @ \cup {o}]
    BY DEF DeleteObject
  <1>2. /\ Others(c) /\ pc[c] = "delete"
        /\ UNCHANGED <<etag, catalog, inflight, used, pc, seen, draft>>
        /\ task'[c].objects \subseteq task[c].objects /\ task'[c].restic = task[c].restic
    BY <1>1 DEF DeleteObject, Others, TypeOK, Task
  <1>3. Doomed' \subseteq Doomed
    BY <1>2, DoomedShrinks DEF Collecting
  <1>4. o \in Doomed
    BY <1>2 DEF Doomed, Collecting
  <1>5. stored \ Doomed \subseteq stored'
    BY <1>1, <1>4
  <1>6. ReadFaithful(c)' /\ DraftNamed(c)'
    BY <1>2 DEF ReadFaithful, DraftNamed, Current, SafetyInvariant, ClientSafe
  <1>7. ClientSafe(c)'
    BY <1>2, <1>6 DEF ClientSafe, UploadPrivate, DraftSafe, RemovalPlanned
  <1>8. \A d \in Clients \ {c} : pc[d] = "create-catalog" => draft'[c].object # draft[d].object
    BY <1>2 DEF SafetyInvariant, ClientSafe, UploadPrivate
  <1> QED BY <1>2, <1>3, <1>5, <1>7, <1>8, QuietStep

\* The rest of a removal before its restic forget.
LEMMA CleanupSafe ==
    ASSUME TypeOK, SafetyInvariant, NEW c \in Clients,
           \/ EndDeletion(c) /\ op[c] = "remove"
           \/ OpenFresh(c) \/ LoadDescriptors(c)
    PROVE  SafetyInvariant'
  <1>1. /\ Others(c) /\ pc[c] \in {"delete", "fresh", "descriptors"}
        /\ pc'[c] \in {"fresh", "descriptors", "forget"}
        /\ seen'[c] \in {seen[c], [etag |-> etag, body |-> catalog]}
        /\ UNCHANGED <<etag, catalog, stored, inflight, used, draft, task>>
    BY DEF EndDeletion, OpenFresh, LoadDescriptors, Others, Goto, ReadCatalog, remote, TypeOK
  <1>2. Doomed' \subseteq Doomed
    BY <1>1, DoomedShrinks DEF Collecting
  <1>3. ReadFaithful(c)' /\ DraftNamed(c)'
    BY <1>1 DEF ReadFaithful, DraftNamed, Current, SafetyInvariant, ClientSafe, TypeOK
  <1>4. ClientSafe(c)'
    BY <1>1, <1>3 DEF ClientSafe, UploadPrivate, DraftSafe, RemovalPlanned
  <1>5. \A d \in Clients \ {c} : pc[d] = "create-catalog" => draft'[c].object # draft[d].object
    BY <1>1 DEF SafetyInvariant, ClientSafe, UploadPrivate
  <1> QED BY <1>1, <1>2, <1>4, <1>5, QuietStep

\* Only doomed snapshots are forgotten.
LEMMA ForgetSafe ==
    ASSUME TypeOK, SafetyInvariant, NEW c \in Clients, Forget(c) \/ ForgetFails(c)
    PROVE  SafetyInvariant'
  <1>1. /\ Finish(c) /\ pc[c] = "forget"
        /\ UNCHANGED <<etag, catalog, inflight, used>>
        /\ stored \ task[c].restic \subseteq stored'
    BY DEF Forget, ForgetFails, Candidates
  <1>2. task[c].restic \subseteq Doomed
    BY <1>1 DEF Doomed, Collecting
  <1>3. stored \ Doomed \subseteq stored'
    BY <1>1, <1>2
  <1> QED BY <1>1, <1>3, FinishSafe, QuietStep

\* Without copies of portable JATs within a Dimension, every step preserves
\* the invariant.
LEMMA SafetyStep ==
    ASSUME "stream-copy" \notin Commands, TypeOK, SafetyInvariant, [Next]_vars
    PROVE  SafetyInvariant'
  <1>1. CASE DeliverLate
    BY <1>1, DeliverLateSafe
  <1>2. ASSUME NEW c \in Clients, Step(c)
        PROVE  SafetyInvariant'
    <2>1. ASSUME NEW room \in Rooms, ReadStreamSource(c, room) PROVE FALSE
      BY <2>1 DEF ReadStreamSource
    <2>2. CASE ReadStreamDestination(c) \/ TransferStream(c)
      BY <2>2 DEF ReadStreamDestination, TransferStream, SafetyInvariant, ClientSafe
    <2>3. CASE WriteMarker(c) \/ DeferCleanup(c) \/ Abort(c)
      BY <2>3, ReturnSafe DEF WriteMarker, DeferCleanup, Abort
    <2>4. CASE EndDeletion(c)
      <3>1. CASE op[c] = "remove"
        BY <2>4, <3>1, CleanupSafe
      <3>2. CASE op[c] # "remove"
        BY <2>4, <3>2, ReturnSafe DEF EndDeletion
      <3> QED BY <3>1, <3>2
    <2> QED
      BY <1>2, <2>1, <2>2, <2>3, <2>4, OpenSafe, OpenCopySourceSafe, UploadSnapshotSafe,
         ConfirmRemovalSafe, BackupSafe, PutDescriptorSafe, PublishSafe, PublishEndsSafe,
         OpenCopyDestinationSafe, ReadCatalogForCreateSafe, OpenRemovalSafe,
         PublishRemovalSafe, RemovalFailsSafe, VerifyRemovalSafe, DeleteObjectSafe, CleanupSafe, ForgetSafe, CrashSafe
         DEF Step
  <1>3. CASE UNCHANGED vars
    <2>1. UNCHANGED <<etag, catalog, stored, inflight, used, pc, seen, draft, task>>
      BY <1>3 DEF vars, remote, local
    <2>2. Doomed' = Doomed
      BY <2>1 DEF Doomed, Collecting
    <2> QED BY <2>1, <2>2
         DEF SafetyInvariant, CatalogSafe, InflightSafe, ClientSafe, ReadFaithful, DraftSafe,
             UploadPrivate, RemovalPlanned, DraftNamed, Numbered, Current, RemoveRequest
  <1> QED BY <1>1, <1>2, <1>3 DEF Next

\* For every number of machines and ids, the invariant that NoDanglingReference
\* rests on: whoever holds the current ETag publishes only artifacts that are
\* in storage and that no removal has claimed, and removals claim only what
\* nothing else names (conditional_catalog_put, remove_logical_catalog_records).
THEOREM SafetyHolds ==
    ASSUME "stream-copy" \notin Commands
    PROVE  Spec => []SafetyInvariant
  <1>1. Init => SafetyInvariant
    <2> SUFFICES ASSUME Init PROVE SafetyInvariant
      OBVIOUS
    <2>1. AllReferences(catalog.records) = {} /\ Doomed = {} /\ inflight = {}
      BY DEF Init, EmptyCatalog, AllReferences, Doomed, Collecting
    <2>2. ASSUME NEW c \in Clients PROVE ClientSafe(c)
      BY DEF Init, ClientSafe, ReadFaithful, DraftSafe, UploadPrivate, RemovalPlanned,
             DraftNamed, Current, Unread, NoRecord, NoId
    <2> QED BY <2>1, <2>2 DEF Init, SafetyInvariant, CatalogSafe, InflightSafe, Numbered
  <1>2. TypeOK /\ SafetyInvariant /\ [Next]_vars => SafetyInvariant'
    BY SafetyStep
  <1> QED BY <1>1, <1>2, TypeCorrect, PTL DEF Spec

\* For every number of machines, Rooms and recovery points, and whatever PUTs
\* are lost, delayed or repeated and whatever processes die: everything the
\* catalog names is in storage, as long as nobody copies a portable JAT
\* within its own Dimension (the run stream_copy shows what happens then).
THEOREM CatalogNeverDangles ==
    ASSUME "stream-copy" \notin Commands
    PROVE  Spec => []NoDanglingReference
  <1>1. SafetyInvariant => NoDanglingReference
    BY DEF SafetyInvariant, CatalogSafe, NoDanglingReference
  <1> QED BY <1>1, SafetyHolds, PTL
=============================================================================
