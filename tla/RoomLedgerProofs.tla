-------------------------- MODULE RoomLedgerProofs --------------------------
(***************************************************************************)
(* What TLAPS proves about the bookkeeping of RoomStore: that no update of *)
(* the catalog is lost, that what commands report stays true and that only *)
(* confirmed records are removed.                                          *)
(***************************************************************************)
EXTENDS RoomStoreProofs

-----------------------------------------------------------------------------
(***************************************************************************)
(* The ledger.  A PUT that can still be applied was computed from the      *)
(* current catalog, and it either adds one record under an id that was     *)
(* never published or takes out records that are there.                    *)
(***************************************************************************)

\* Clients that have drawn an id and have not published it yet.
Pending(c) == pc[c] \in {"descriptor", "create-catalog", "publish"}

\* Nobody else is publishing, or ever was, under the id of a pending draft.
Fresh(c) ==
    Pending(c) =>
      /\ draft[c].id \in used \ Published
      /\ \A put \in inflight : draft[c].id \notin put.adds
      /\ \A d \in Clients \ {c} : Pending(d) => draft[d].id # draft[c].id

\* A removal names records of its Room in the catalog it has read.
Aimed(c) ==
    pc[c] = "remove-publish" =>
      task[c].targets \subseteq RecordIds(RoomRecords(seen[c].body, task[c].room))

\* A PUT that adds one record under an id that was never published.
Publication(put) ==
    \E r \in Record : /\ r.id \in used \ Published
                      /\ put.body = AddSnapshot(catalog, r)
                      /\ put.adds = {r.id} /\ put.removes = {}

\* A PUT that takes out records of one Room.
Removal(put) ==
    \E room \in Rooms : /\ put.removes \subseteq RecordIds(RoomRecords(catalog, room))
                        /\ put.body = RemoveRecords(catalog, room, put.removes)
                        /\ put.adds = {}

\* What can be said of every PUT that may still be applied.
Proper(put) == put.etag = etag /\ (Publication(put) \/ Removal(put))

\* The part of the invariant that one client keeps.
ClientLedger(c) == ReadFaithful(c) /\ Fresh(c) /\ Aimed(c)

\* The inductive invariant.
Ledger ==
    /\ etag = 0 => catalog = EmptyCatalog
    /\ CatalogWellFormed
    /\ NoLostUpdate
    /\ RecordIds(removed) \subseteq Published
    /\ Published \subseteq used
    /\ \A put \in inflight : Proper(put)
    /\ \A c \in Clients : ClientLedger(c)

\* An id that was drawn and can never be published any more.
Dead(i) ==
    /\ i \in used \ Published
    /\ \A put \in inflight : i \notin put.adds
    /\ \A c \in Clients : Pending(c) => draft[c].id # i

\* Whoever reads back its publication has published it.
Awaited(c) == pc[c] = "verify" => draft[c].id \in Published

\* The inductive invariant of the verdicts that saves report.
VerdictInv ==
    /\ CommittedIsPublished
    /\ \A i \in Ids : verdict[i] = "rejected" => Dead(i) \/ i \in Published
    /\ \A c \in Clients : Awaited(c)

\* Every object carries the id of its record.
Named(r) == r.object = <<"object", r.id>>

\* The client is not copying portable JATs within their Dimension.
NoStream(c) == /\ pc[c] \notin {"stream-destination", "stream-transfer"}
               /\ op[c] # "stream-copy"

\* A publication that has not been reported yet.
Drafted(c) == Pending(c) \/ pc[c] = "verify"

\* The names of objects, in the catalog, in requests and in drafts.
NamedInv ==
    /\ \A r \in catalog.records : Named(r)
    /\ \A put \in inflight : \A r \in put.body.records : Named(r)
    /\ \A c \in Clients : (Drafted(c) => Named(draft[c])) /\ NoStream(c)

\* The inductive invariant of the objects that failed saves leave behind.
OrphanInv ==
    /\ NamedInv
    /\ \A o \in orphans : Dead(o[2]) \/ o[2] \in Published
    /\ \A c \in Clients : Awaited(c)

\* A removal that was confirmed and has not sent its request yet.
Removing(c) == pc[c] \in {"remove-open", "remove-publish"}

\* What a removal was shown is still so while the revision is.
Shown(c) ==
    /\ task[c].revision <= catalog.revision
    /\ task[c].revision = catalog.revision /\ task[c].whole =>
         RecordIds(RoomRecords(catalog, task[c].room)) \subseteq task[c].targets

\* What one client keeps: its targets were confirmed.
ConfirmClient(c) ==
    /\ Removing(c) => /\ op[c] \in {"remove", "remove-jat"} \cap Commands
                      /\ task[c].targets # {} /\ task[c].targets \subseteq confirmed
    /\ pc[c] = "remove-open" /\ ExpectRevision => Shown(c)

\* The inductive invariant of confirmation.
ConfirmInv ==
    /\ OnlyConfirmedRemoved
    /\ \A put \in inflight : /\ put.removes \subseteq confirmed
                             /\ put.adds = {} => put.removes # {}
    /\ \A c \in Clients : ConfirmClient(c)

\* A portable JAT has no Restic snapshot.
Plain(r) == r.kind = "legacy" => r.restic = {}

-----------------------------------------------------------------------------
(* What the catalog operators do to the ledger.                            *)

\* The ids of the records of a union.
LEMMA RecordIdsUnion ==
    ASSUME NEW S, NEW T
    PROVE  RecordIds(S \cup T) = RecordIds(S) \cup RecordIds(T)
  BY DEF RecordIds

\* add_snapshot keeps a well-formed catalog well formed if the id is new.
LEMMA AddSnapshotWellFormed ==
    ASSUME NEW body \in CatalogBody, NEW r \in Record, r.id \notin RecordIds(body.records),
           LatestValid(body), \A p, q \in body.records : p.id = q.id => p = q
    PROVE  /\ LatestValid(AddSnapshot(body, r))
           /\ \A p, q \in AddSnapshot(body, r).records : p.id = q.id => p = q
           /\ RecordIds(AddSnapshot(body, r).records) = RecordIds(body.records) \cup {r.id}
  <1> DEFINE new == AddSnapshot(body, r)
  <1>1. /\ new.records = body.records \cup {r}
        /\ new.latest = [body.latest EXCEPT ![r.room] = r.id]
    BY DEF AddSnapshot
  <1>2. r.room \in Rooms /\ body.latest \in [Rooms -> OptId]
    BY DEF Record, CatalogBody
  <1> HIDE DEF new
  <1>3. RecordIds(new.records) = RecordIds(body.records) \cup {r.id}
    BY <1>1 DEF RecordIds
  <1>4. \A p, q \in new.records : p.id = q.id => p = q
    BY <1>1 DEF RecordIds
  <1>5. ASSUME NEW room \in Rooms
        PROVE  LET ids == RecordIds(RoomRecords(new, room))
               IN  IF ids = {} THEN new.latest[room] = NoId ELSE new.latest[room] \in ids
    <2>1. CASE room = r.room
      <3>1. r.id \in RecordIds(RoomRecords(new, room))
        BY <1>1, <2>1 DEF RecordIds, RoomRecords
      <3> QED BY <1>1, <1>2, <2>1, <3>1
    <2>2. CASE room # r.room
      <3>1. RoomRecords(new, room) = RoomRecords(body, room)
        BY <1>1, <2>2 DEF RoomRecords
      <3>2. new.latest[room] = body.latest[room]
        BY <1>1, <1>2, <2>2
      <3> QED BY <3>1, <3>2 DEF LatestValid
    <2> QED BY <2>1, <2>2
  <1>6. LatestValid(new)
    BY <1>5 DEF LatestValid
  <1> QED BY <1>3, <1>4, <1>6 DEF new

\* What remove_snapshot promotes is an id that is left, if any is.
LEMMA PromotedLatestLeft ==
    ASSUME NEW ids \in SUBSET OptId, ids # {}
    PROVE  PromotedLatest(ids) \in ids
  <1>1. \E i \in ids : \A j \in ids : j <= i
    BY IdsAssumption
  <1>2. (CHOOSE i \in ids : \A j \in ids : j <= i) \in ids
    BY <1>1
  <1> QED BY <1>2 DEF PromotedLatest

\* A removal keeps a well-formed catalog well formed, and takes out exactly
\* the ids it names.
LEMMA RemoveRecordsWellFormed ==
    ASSUME NEW body \in CatalogBody, NEW room \in Rooms,
           NEW ids \in SUBSET RecordIds(RoomRecords(body, room)),
           LatestValid(body), \A p, q \in body.records : p.id = q.id => p = q
    PROVE  LET new == RemoveRecords(body, room, ids)
           IN  /\ LatestValid(new)
               /\ \A p, q \in new.records : p.id = q.id => p = q
               /\ new.records = {r \in body.records : r.id \notin ids}
               /\ RecordIds(new.records) = RecordIds(body.records) \ ids
  <1> DEFINE new == RemoveRecords(body, room, ids)
  <1> DEFINE left == RecordIds({r \in {q \in body.records : ~(q.room = room /\ q.id \in ids)} : r.room = room})
  <1>1. /\ new.records = {r \in body.records : ~(r.room = room /\ r.id \in ids)}
        /\ new.latest = IF body.latest[room] \in left THEN body.latest
                        ELSE [body.latest EXCEPT ![room] = PromotedLatest(left)]
    BY DEF RemoveRecords
  <1>2. body.latest \in [Rooms -> OptId] /\ body.records \in SUBSET Record
    BY DEF CatalogBody
  <1>3. left = RecordIds(RoomRecords(new, room))
    BY <1>1 DEF RoomRecords
  <1>4. left \in SUBSET OptId
    BY <1>2 DEF RecordIds, Record
  <1> HIDE DEF new, left
  <1>5. new.records = {r \in body.records : r.id \notin ids}
    <2>1. ASSUME NEW r \in body.records, r.id \in ids PROVE r.room = room
      <3>1. PICK q \in RoomRecords(body, room) : q.id = r.id
        BY <2>1 DEF RecordIds
      <3> QED BY <3>1 DEF RoomRecords
    <2> QED BY <1>1, <2>1
  <1>6. RecordIds(new.records) = RecordIds(body.records) \ ids
    BY <1>5 DEF RecordIds
  <1>7. ASSUME NEW any \in Rooms
        PROVE  LET have == RecordIds(RoomRecords(new, any))
               IN  IF have = {} THEN new.latest[any] = NoId ELSE new.latest[any] \in have
    <2>1. CASE any = room
      <3>1. CASE left = {}
        <4>1. PromotedLatest(left) = NoId
          BY <3>1 DEF PromotedLatest
        <4> QED BY <1>1, <1>2, <1>3, <2>1, <3>1, <4>1
      <3>2. CASE left # {}
        <4>1. PromotedLatest(left) \in left
          BY <1>4, <3>2, PromotedLatestLeft
        <4> QED BY <1>1, <1>2, <1>3, <2>1, <3>2, <4>1
      <3> QED BY <3>1, <3>2
    <2>2. CASE any # room
      <3>1. RoomRecords(new, any) = RoomRecords(body, any)
        BY <1>1, <2>2 DEF RoomRecords
      <3>2. new.latest[any] = body.latest[any]
        BY <1>1, <1>2, <2>2
      <3> QED BY <3>1, <3>2 DEF LatestValid
    <2> QED BY <2>1, <2>2
  <1>8. LatestValid(new)
    BY <1>7 DEF LatestValid
  <1> QED BY <1>1, <1>5, <1>6, <1>8 DEF new

-----------------------------------------------------------------------------
(* The shapes of a step.                                                   *)

\* A step of one client that leaves the catalog, and the requests on their
\* way to it, alone.
Local(c) ==
    /\ UNCHANGED <<etag, catalog, inflight, age, removed>>
    /\ Others(c)
    /\ used \subseteq used'
    /\ seen'[c] \in {seen[c], Unread, [etag |-> etag, body |-> catalog]}
    /\ \/ ~Pending(c)'
       \/ Pending(c) /\ draft'[c] = draft[c]
       \/ /\ draft'[c].id \in used' \ used
          /\ pc[c] = "stream-transfer" \/ (Named(draft'[c]) /\ Plain(draft'[c]))
    /\ pc'[c] # "remove-publish" \/ Aimed(c)'
    /\ pc'[c] # "verify"

\* The client has sent its request, or dies, and will not send it again.
Returns(c) ==
    /\ Others(c)
    /\ UNCHANGED used
    /\ seen'[c] \in {Unread, [etag |-> etag', body |-> catalog']}
    /\ pc'[c] \in {"idle", "marker", "verify", "remove-verify"}

\* The request is applied now, or is not applied and may be on its way.
Sends(c, put) ==
    /\ Returns(c)
    /\ pc'[c] = "verify" => /\ Apply(put) /\ pc[c] = "publish"
                            /\ draft'[c] = draft[c] /\ draft[c].id \in put.adds
    /\ \/ Apply(put) /\ Accepts(put)
       \/ /\ UNCHANGED <<etag, catalog, age, removed>>
          /\ \A p \in inflight' \ inflight : p = put /\ Accepts(put)

\* The PUT of a publication is proper.
LEMMA PublishProper ==
    ASSUME TypeOK, Ledger, NEW c \in Clients, pc[c] = "publish", Accepts(PublishRequest(c))
    PROVE  Proper(PublishRequest(c))
  <1>1. seen[c].etag = etag /\ ClientLedger(c)
    BY DEF Accepts, PublishRequest, Ledger
  <1>2. seen[c].body = catalog /\ draft[c].id \in used \ Published
    BY <1>1 DEF ClientLedger, ReadFaithful, Current, Fresh, Pending
  <1>3. draft[c] \in Record
    BY DEF TypeOK
  <1> QED BY <1>1, <1>2, <1>3 DEF Proper, Publication, PublishRequest

\* The PUT of a removal is proper.
LEMMA RemoveProper ==
    ASSUME TypeOK, Ledger, NEW c \in Clients, pc[c] = "remove-publish", Accepts(RemoveRequest(c))
    PROVE  Proper(RemoveRequest(c))
  <1>1. seen[c].etag = etag /\ ClientLedger(c)
    BY DEF Accepts, RemoveRequest, Ledger
  <1>2. /\ seen[c].body = catalog
        /\ task[c].targets \subseteq RecordIds(RoomRecords(catalog, task[c].room))
    BY <1>1 DEF ClientLedger, ReadFaithful, Current, Aimed
  <1>3. task[c].room \in Rooms
    BY DEF TypeOK, Task
  <1> QED BY <1>1, <1>2, <1>3 DEF Proper, Removal, RemoveRequest

\* A command that returns leaves the ledger alone.
LEMMA FinishLocal ==
    ASSUME TypeOK, NEW c \in Clients, Finish(c),
           UNCHANGED <<etag, catalog, inflight, used, age, removed>>
    PROVE  Local(c)
  <1>1. Others(c) /\ pc'[c] = "idle" /\ seen'[c] = Unread
    BY DEF Finish, TypeOK, Others
  <1> QED BY <1>1 DEF Local, Pending

\* The PUTs, whether they are applied or not.
Puts(c) == Publish(c) \/ PublishFails(c) \/ PublishRemoval(c) \/ RemovalFails(c)

\* Every step but the PUTs, a crash and a late delivery is local.
LEMMA LocalSteps ==
    ASSUME TypeOK, NEW c \in Clients, Step(c)
    PROVE  Local(c) \/ Puts(c) \/ Crash(c)
  <1>0. /\ seen[c] \in Read /\ draft[c] \in Record /\ task[c] \in Task /\ catalog \in CatalogBody
    BY DEF TypeOK
  <1>1. ASSUME NEW room \in Rooms, NEW command, OpenForSave(c, command, room)
        PROVE  Local(c)
    <2>1. /\ Others(c) /\ pc'[c] = "backup"
          /\ seen'[c] = [etag |-> etag, body |-> catalog]
          /\ UNCHANGED <<etag, catalog, inflight, used, age, removed>>
      BY <1>1 DEF OpenForSave, Others, Goto, ReadCatalog, remote, history, TypeOK
    <2> QED BY <2>1 DEF Local, Pending
  <1>2. ASSUME NEW room \in Rooms, OpenCopySource(c, room)
        PROVE  Local(c)
    <2>1. /\ Others(c) /\ pc'[c] = "copy-destination"
          /\ seen'[c] = [etag |-> etag, body |-> catalog]
          /\ UNCHANGED <<etag, catalog, inflight, used, age, removed>>
      BY <1>2 DEF OpenCopySource, Others, Goto, ReadCatalog, remote, history, TypeOK
    <2> QED BY <2>1 DEF Local, Pending
  <1>3. ASSUME NEW room \in Rooms, UploadSnapshot(c, room)
        PROVE  Local(c)
    <2>1. PICK i \in Ids \ used :
            /\ used' = used \cup {i}
            /\ draft' = [draft EXCEPT ![c] = [room |-> room, id |-> i, kind |-> "legacy",
                                              object |-> <<"object", i>>, restic |-> {}]]
      BY <1>3 DEF UploadSnapshot
    <2>2. /\ Others(c) /\ pc'[c] = "create-catalog" /\ seen'[c] = seen[c] /\ draft'[c].id = i
          /\ Named(draft'[c]) /\ Plain(draft'[c])
          /\ UNCHANGED <<etag, catalog, inflight, age, removed>>
      BY <1>3, <2>1 DEF UploadSnapshot, Others, Goto, history, TypeOK, Named, Plain
    <2> QED BY <2>1, <2>2 DEF Local
  <1>4. ASSUME NEW room \in Rooms, ReadStreamSource(c, room)
        PROVE  Local(c)
    <2>1. /\ Others(c) /\ pc'[c] = "stream-destination" /\ seen'[c] = seen[c]
          /\ UNCHANGED <<etag, catalog, inflight, used, age, removed>>
      BY <1>4 DEF ReadStreamSource, Others, Goto, remote, history, TypeOK
    <2> QED BY <2>1 DEF Local, Pending
  <1>5. ASSUME NEW room \in Rooms, ConfirmRemoval(c, room)
        PROVE  Local(c)
    <2>1. /\ Others(c) /\ pc'[c] = "remove-open" /\ seen'[c] = seen[c]
          /\ UNCHANGED <<etag, catalog, inflight, used, age, removed>>
      BY <1>5 DEF ConfirmRemoval, Others, Goto, remote, TypeOK
    <2> QED BY <2>1 DEF Local, Pending
  <1>6. CASE Backup(c)
    <2>1. PICK i \in Ids \ used : \E restic :
            /\ used' = used \cup {i}
            /\ draft' = [draft EXCEPT ![c] =
                           [room |-> draft[c].room, id |-> i, kind |-> "native",
                            object |-> <<"object", i>>, restic |-> restic]]
      BY <1>6 DEF Backup
    <2>2. /\ Others(c) /\ pc'[c] = "descriptor" /\ seen'[c] = seen[c] /\ draft'[c].id = i
          /\ Named(draft'[c]) /\ Plain(draft'[c])
          /\ UNCHANGED <<etag, catalog, inflight, age, removed>>
      BY <1>6, <2>1 DEF Backup, Others, Goto, history, TypeOK, Named, Plain
    <2> QED BY <2>1, <2>2 DEF Local
  <1>7. CASE PutDescriptor(c)
    <2>1. /\ Others(c) /\ pc[c] = "descriptor" /\ pc'[c] = "publish"
          /\ seen'[c] = seen[c] /\ draft'[c] = draft[c]
          /\ UNCHANGED <<etag, catalog, inflight, used, age, removed>>
      BY <1>7 DEF PutDescriptor, Others, Goto, history, TypeOK
    <2> QED BY <2>1 DEF Local, Pending
  <1>8. CASE OpenCopyDestination(c)
    <2>1. PICK i \in Ids \ used :
            /\ used' = used \cup {i}
            /\ draft' = [draft EXCEPT ![c] =
                           [room |-> draft[c].room, id |-> i, kind |-> "native",
                            object |-> <<"object", i>>, restic |-> draft[c].restic]]
      BY <1>8 DEF OpenCopyDestination
    <2>2. /\ Others(c) /\ pc'[c] = "descriptor" /\ seen'[c] = seen[c] /\ draft'[c].id = i
          /\ Named(draft'[c]) /\ Plain(draft'[c])
          /\ UNCHANGED <<etag, catalog, inflight, age, removed>>
      BY <1>8, <2>1 DEF OpenCopyDestination, Others, Goto, remote, history, TypeOK, Named, Plain
    <2> QED BY <2>1, <2>2 DEF Local
  <1>9. CASE ReadCatalogForCreate(c) \/ ReadStreamDestination(c) \/ OpenFresh(c)
    <2>1. /\ Others(c) /\ seen'[c] = [etag |-> etag, body |-> catalog] /\ draft'[c] = draft[c]
          /\ \/ pc[c] = "create-catalog" /\ pc'[c] = "publish"
             \/ pc'[c] \in {"stream-transfer", "descriptors"}
          /\ UNCHANGED <<etag, catalog, inflight, used, age, removed>>
      BY <1>9 DEF ReadCatalogForCreate, ReadStreamDestination, OpenFresh, Others, Goto,
                  ReadCatalog, remote, history, TypeOK
    <2> QED BY <2>1 DEF Local, Pending
  <1>10. CASE TransferStream(c)
    <2>1. PICK i \in Ids \ used : /\ used' = used \cup {i}
                                  /\ draft' = [draft EXCEPT ![c].id = i]
      BY <1>10 DEF TransferStream
    <2>2. /\ Others(c) /\ pc'[c] = "publish" /\ seen'[c] = seen[c] /\ draft'[c].id = i
          /\ pc[c] = "stream-transfer"
          /\ UNCHANGED <<etag, catalog, inflight, age, removed>>
      BY <1>0, <1>10, <2>1 DEF TransferStream, Others, Goto, remote, history, TypeOK, Record
    <2> QED BY <2>1, <2>2 DEF Local
  <1>11. CASE OpenRemoval(c) \/ OpenJatRemoval(c)
    <2>1. /\ Others(c) /\ pc'[c] = "remove-publish"
          /\ seen'[c] = [etag |-> etag, body |-> catalog]
          /\ UNCHANGED <<etag, catalog, inflight, used, age, removed>>
      BY <1>11 DEF OpenRemoval, OpenJatRemoval, Others, Goto, ReadCatalog, remote, history, TypeOK
    <2>2. /\ task'[c].room = task[c].room
          /\ task'[c].targets \subseteq RecordIds(RoomRecords(catalog, task[c].room))
      <3>1. CASE OpenRemoval(c)
        BY <1>0, <3>1 DEF OpenRemoval, TypeOK, Task
      <3>2. CASE OpenJatRemoval(c)
        <4>1. PICK targets \in SUBSET RecordIds(RoomRecords(catalog, task[c].room)) :
                task' = [task EXCEPT ![c].targets = targets,
                                     ![c].objects = RemovableObjects(catalog, task[c].room, targets)]
          BY <3>2 DEF OpenJatRemoval
        <4> QED BY <1>0, <4>1 DEF TypeOK, Task
      <3> QED BY <1>11, <3>1, <3>2
    <2>3. seen'[c].body = catalog
      BY <2>1
    <2> QED BY <2>1, <2>2, <2>3 DEF Local, Pending, Aimed
  <1>12. CASE DeleteObject(c)
    <2>1. /\ Others(c) /\ pc'[c] = "delete" /\ seen'[c] = seen[c]
          /\ UNCHANGED <<etag, catalog, inflight, used, age, removed>>
      BY <1>12 DEF DeleteObject, Others, history, TypeOK
    <2> QED BY <2>1 DEF Local, Pending
  <1>13. CASE EndDeletion(c)
    <2>1. CASE op[c] = "remove"
      <3>1. /\ Others(c) /\ pc'[c] = "fresh" /\ seen'[c] = seen[c]
            /\ UNCHANGED <<etag, catalog, inflight, used, age, removed>>
        BY <1>13, <2>1 DEF EndDeletion, Others, Goto, remote, TypeOK
      <3> QED BY <3>1 DEF Local, Pending
    <2>2. CASE op[c] # "remove"
      BY <1>13, <2>2, FinishLocal DEF EndDeletion, remote
    <2> QED BY <2>1, <2>2
  <1>14. CASE WriteMarker(c) \/ Forget(c) \/ ForgetFails(c) \/ DeferCleanup(c) \/ Abort(c)
    BY <1>14, FinishLocal DEF WriteMarker, Forget, ForgetFails, DeferCleanup, Abort, remote, history
  <1>15. CASE LoadDescriptors(c)
    <2>1. /\ Others(c) /\ pc'[c] = "forget" /\ seen'[c] = seen[c]
          /\ UNCHANGED <<etag, catalog, inflight, used, age, removed>>
      BY <1>15 DEF LoadDescriptors, Others, Goto, remote, history, TypeOK
    <2> QED BY <2>1 DEF Local, Pending
  <1>16. CASE Verify(c) \/ VerifyRemoval(c)
    <2>1. CASE Finish(c)
      BY <1>16, <2>1, FinishLocal DEF Verify, VerifyRemoval, remote, history
    <2>2. CASE (Goto(c, "marker") \/ Goto(c, "delete")) /\ Release(c) /\ UNCHANGED <<op, draft, task>>
      <3>1. /\ Others(c) /\ pc'[c] \in {"marker", "delete"} /\ seen'[c] = Unread
            /\ UNCHANGED <<etag, catalog, inflight, used, age, removed>>
        BY <1>16, <2>2 DEF Verify, VerifyRemoval, Others, Goto, Release, remote, history, TypeOK
      <3> QED BY <3>1 DEF Local, Pending
    <2> QED BY <1>16, <2>1, <2>2 DEF Verify, Report, VerifyRemoval
  <1> QED BY <1>1, <1>2, <1>3, <1>4, <1>5, <1>6, <1>7, <1>8, <1>9, <1>10, <1>11, <1>12,
             <1>13, <1>14, <1>15, <1>16 DEF Step, Puts

\* What a client that sends its request, or dies sending it, does.
LEMMA SendSteps ==
    ASSUME TypeOK, NEW c \in Clients, Puts(c) \/ Crash(c)
    PROVE  \/ pc[c] = "publish" /\ Sends(c, PublishRequest(c))
           \/ pc[c] = "remove-publish" /\ Sends(c, RemoveRequest(c))
           \/ Local(c)
  <1>1. CASE Publish(c)
    <2>1. /\ Returns(c) /\ pc[c] = "publish" /\ draft'[c] = draft[c]
          /\ Apply(PublishRequest(c)) /\ Accepts(PublishRequest(c))
      BY <1>1 DEF Publish, Applied, Returns, Others, Goto, TypeOK
    <2> QED BY <2>1 DEF Sends, PublishRequest
  <1>2. CASE PublishRemoval(c)
    <2>1. /\ Returns(c) /\ pc[c] = "remove-publish" /\ pc'[c] = "remove-verify"
          /\ Apply(RemoveRequest(c)) /\ Accepts(RemoveRequest(c))
      BY <1>2 DEF PublishRemoval, Applied, Returns, Others, Goto, TypeOK
    <2> QED BY <2>1 DEF Sends
  <1>4. CASE PublishFails(c)
    <2>1. PICK outcome \in Outcomes : Unapplied(PublishRequest(c), outcome) /\ Report(c, outcome)
      BY <1>4 DEF PublishFails
    <2>2. Returns(c) /\ pc[c] = "publish" /\ pc'[c] # "verify"
      BY <1>4, <2>1 DEF PublishFails, Report, Returns, Others, Goto, Release, Finish, TypeOK
    <2> QED BY <2>1, <2>2 DEF Sends, Unapplied
  <1>5. CASE RemovalFails(c)
    <2>1. PICK outcome \in Outcomes : Unapplied(RemoveRequest(c), outcome)
      BY <1>5 DEF RemovalFails
    <2>2. Returns(c) /\ pc[c] = "remove-publish" /\ pc'[c] # "verify"
      BY <1>5 DEF RemovalFails, Returns, Others, Finish, TypeOK
    <2> QED BY <2>1, <2>2 DEF Sends, Unapplied
  <1>3. CASE Crash(c)
    <2>1. /\ Finish(c) /\ UNCHANGED <<etag, catalog, used, age, removed>>
          /\ \/ inflight' = inflight
             \/ /\ pc[c] = "publish" /\ Accepts(PublishRequest(c))
                /\ inflight' = inflight \cup {PublishRequest(c)}
             \/ /\ pc[c] = "remove-publish" /\ Accepts(RemoveRequest(c))
                /\ inflight' = inflight \cup {RemoveRequest(c)}
      BY <1>3 DEF Crash
    <2>2. Returns(c) /\ pc'[c] # "verify"
      BY <2>1 DEF Returns, Others, Finish, TypeOK
    <2>3. CASE inflight' = inflight
      BY <2>1, <2>3, FinishLocal
    <2> QED BY <2>1, <2>2, <2>3 DEF Sends
  <1> QED BY <1>1, <1>2, <1>3, <1>4, <1>5 DEF Puts

-----------------------------------------------------------------------------
(* Every step keeps the ledger.                                            *)

\* A local step keeps the ledger: an id that is newly drawn is nobody's.
LEMMA LocalLedger ==
    ASSUME TypeOK, Ledger, NEW c \in Clients, Local(c)
    PROVE  Ledger'
  <1>1. /\ UNCHANGED <<etag, catalog, inflight, age, removed>> /\ used \subseteq used'
        /\ Published' = Published
    BY DEF Local, Published
  <1>2. /\ etag' = 0 => catalog' = EmptyCatalog
        /\ CatalogWellFormed' /\ NoLostUpdate'
        /\ (RecordIds(removed) \subseteq Published)'
        /\ (Published \subseteq used)'
    BY <1>1 DEF Ledger, CatalogWellFormed, NoLostUpdate
  <1>3. ASSUME NEW put \in inflight PROVE Proper(put)'
    <2>1. Proper(put)
      BY DEF Ledger
    <2>2. CASE Publication(put)
      <3>1. Publication(put)'
        BY <1>1, <2>2 DEF Publication
      <3> QED BY <1>1, <2>1, <3>1 DEF Proper
    <2>3. CASE Removal(put)
      <3>1. Removal(put)'
        BY <1>1, <2>3 DEF Removal
      <3> QED BY <1>1, <2>1, <3>1 DEF Proper
    <2> QED BY <2>1, <2>2, <2>3 DEF Proper
  <1>4. \A put \in inflight : put.adds \subseteq used
    <2> SUFFICES ASSUME NEW put \in inflight PROVE put.adds \subseteq used
      OBVIOUS
    <2>1. Publication(put) \/ Removal(put)
      BY DEF Ledger, Proper
    <2> QED BY <2>1 DEF Publication, Removal
  <1>5. \A d \in Clients : Pending(d) => draft[d].id \in used
    BY DEF Ledger, ClientLedger, Fresh
  <1>6. ASSUME NEW d \in Clients, d # c PROVE ClientLedger(d)'
    <2>1. /\ pc'[d] = pc[d] /\ seen'[d] = seen[d] /\ draft'[d] = draft[d] /\ task'[d] = task[d]
          /\ ReadFaithful(d) /\ Fresh(d) /\ Aimed(d)
      BY <1>6 DEF Local, Others, Ledger, ClientLedger
    <2>2. ReadFaithful(d)' /\ Aimed(d)'
      BY <1>1, <2>1 DEF ReadFaithful, Current, Aimed
    <2>3. Fresh(d)'
      <3> SUFFICES ASSUME Pending(d)
                   PROVE  /\ draft[d].id \in used' \ Published'
                          /\ \A put \in inflight' : draft[d].id \notin put.adds
                          /\ \A e \in Clients \ {d} : Pending(e)' => draft'[e].id # draft[d].id
        BY <2>1 DEF Fresh, Pending
      <3>1. /\ draft[d].id \in used \ Published
            /\ \A put \in inflight : draft[d].id \notin put.adds
            /\ \A e \in Clients \ {d} : Pending(e) => draft[e].id # draft[d].id
        BY <2>1 DEF Fresh
      <3>2. ASSUME NEW e \in Clients \ {d}, Pending(e)' PROVE draft'[e].id # draft[d].id
        <4>1. CASE e = c
          BY <3>1, <3>2, <4>1, <1>5 DEF Local
        <4>2. CASE e # c
          BY <3>1, <3>2, <4>2 DEF Local, Others, Pending
        <4> QED BY <4>1, <4>2
      <3> QED BY <1>1, <3>1, <3>2
    <2> QED BY <2>2, <2>3 DEF ClientLedger
  <1>7. ClientLedger(c)'
    <2>1. ReadFaithful(c) /\ Fresh(c) /\ Aimed(c)
      BY DEF Ledger, ClientLedger
    <2>2. ReadFaithful(c)'
      BY <1>1, <2>1 DEF Local, ReadFaithful, Current, Unread, Ledger, TypeOK
    <2>3. Aimed(c)'
      BY DEF Local, Aimed
    <2>4. Fresh(c)'
      <3> SUFFICES ASSUME Pending(c)'
                   PROVE  /\ draft'[c].id \in used' \ Published'
                          /\ \A put \in inflight' : draft'[c].id \notin put.adds
                          /\ \A e \in Clients \ {c} : Pending(e)' => draft'[e].id # draft'[c].id
        BY DEF Fresh
      <3>0. \A e \in Clients \ {c} : draft'[e] = draft[e] /\ (Pending(e)' <=> Pending(e))
        BY DEF Local, Others, Pending
      <3>1. CASE Pending(c) /\ draft'[c] = draft[c]
        BY <1>1, <2>1, <3>0, <3>1 DEF Fresh
      <3>2. CASE draft'[c].id \in used' \ used
        <4>1. draft'[c].id \notin Published'
          BY <1>1, <3>2 DEF Ledger
        <4> QED BY <1>1, <1>4, <1>5, <3>0, <3>2, <4>1
      <3> QED BY <3>1, <3>2 DEF Local
    <2> QED BY <2>2, <2>3, <2>4 DEF ClientLedger
  <1> QED BY <1>1, <1>2, <1>3, <1>6, <1>7 DEF Ledger

\* What an applied PUT does to the ledger's totals.
LEMMA ApplyTotals ==
    ASSUME TypeOK, Ledger, NEW put \in Put, Proper(put), Apply(put)
    PROVE  /\ Published' = Published \cup put.adds
           /\ CatalogWellFormed' /\ NoLostUpdate'
           /\ RecordIds(removed)' = RecordIds(removed) \cup put.removes
           /\ put.removes \subseteq Published /\ put.adds \subseteq used
           /\ etag' = etag + 1 /\ etag' # 0
  <1>0. /\ catalog' = put.body /\ etag' = etag + 1 /\ catalog \in CatalogBody
        /\ removed' = removed \cup {r \in catalog.records : r.id \in put.removes}
        /\ age' = [i \in Ids |-> IF i \in put.adds THEN etag' ELSE age[i]]
    BY DEF Apply, TypeOK
  <1>1. etag' \in Nat /\ etag' # 0
    BY <1>0 DEF TypeOK
  <1>2. /\ LatestValid(catalog) /\ \A p, q \in catalog.records : p.id = q.id => p = q
        /\ RecordIds(catalog.records) = Published \ RecordIds(removed)
        /\ RecordIds(removed) \subseteq Published
    BY DEF Ledger, CatalogWellFormed, NoLostUpdate
  <1>3. CASE Publication(put)
    <2>1. PICK r \in Record : /\ r.id \in used \ Published
                              /\ put.body = AddSnapshot(catalog, r)
                              /\ put.adds = {r.id} /\ put.removes = {}
      BY <1>3 DEF Publication
    <2>2. /\ LatestValid(catalog') /\ \A p, q \in catalog'.records : p.id = q.id => p = q
          /\ RecordIds(catalog'.records) = RecordIds(catalog.records) \cup {r.id}
      <3>1. r.id \notin RecordIds(catalog.records)
        BY <1>2, <2>1
      <3> QED BY <1>0, <1>2, <2>1, <3>1, AddSnapshotWellFormed
    <2>3. r.id \in Ids
      BY <2>1 DEF TypeOK
    <2>4. Published' = Published \cup {r.id}
      BY <1>0, <1>1, <2>1, <2>3 DEF Published, TypeOK
    <2>5. removed' = removed
      BY <1>0, <2>1
    <2>6. NoLostUpdate'
      BY <1>2, <2>1, <2>2, <2>4, <2>5 DEF NoLostUpdate
    <2>7. CatalogWellFormed'
      BY <2>2 DEF CatalogWellFormed
    <2> QED BY <1>0, <1>1, <2>1, <2>4, <2>5, <2>6, <2>7
  <1>4. CASE Removal(put)
    <2>1. PICK room \in Rooms : /\ put.removes \subseteq RecordIds(RoomRecords(catalog, room))
                                /\ put.body = RemoveRecords(catalog, room, put.removes)
                                /\ put.adds = {}
      BY <1>4 DEF Removal
    <2>2. /\ LatestValid(catalog') /\ \A p, q \in catalog'.records : p.id = q.id => p = q
          /\ RecordIds(catalog'.records) = RecordIds(catalog.records) \ put.removes
      BY <1>0, <1>2, <2>1, RemoveRecordsWellFormed
    <2>3. put.removes \subseteq RecordIds(catalog.records)
      BY <2>1 DEF RecordIds, RoomRecords
    <2>4. RecordIds(removed') = RecordIds(removed) \cup put.removes
      <3>1. RecordIds({r \in catalog.records : r.id \in put.removes}) = put.removes
        BY <2>3 DEF RecordIds
      <3> QED BY <1>0, <3>1, RecordIdsUnion
    <2>5. Published' = Published
      BY <1>0, <2>1 DEF Published, TypeOK
    <2>6. NoLostUpdate'
      BY <1>2, <2>2, <2>3, <2>4, <2>5 DEF NoLostUpdate
    <2>7. CatalogWellFormed'
      BY <2>2 DEF CatalogWellFormed
    <2> QED BY <1>0, <1>1, <1>2, <2>1, <2>3, <2>4, <2>5, <2>6, <2>7
  <1> QED BY <1>3, <1>4 DEF Proper

\* An applied PUT keeps the ledger when nobody is left publishing its id.
LEMMA ApplyLedger ==
    ASSUME TypeOK, Ledger, NEW put \in Put, Proper(put), Apply(put), UNCHANGED used,
           \A d \in Clients :
             \/ /\ pc'[d] = pc[d] /\ seen'[d] = seen[d]
                /\ draft'[d] = draft[d] /\ task'[d] = task[d]
                /\ Pending(d) => draft[d].id \notin put.adds
             \/ /\ pc'[d] \in {"idle", "marker", "verify", "remove-verify"}
                /\ seen'[d] \in {Unread, [etag |-> etag', body |-> catalog']}
    PROVE  Ledger'
  <1>1. /\ Published' = Published \cup put.adds
        /\ CatalogWellFormed' /\ NoLostUpdate'
        /\ RecordIds(removed)' = RecordIds(removed) \cup put.removes
        /\ put.removes \subseteq Published /\ put.adds \subseteq used
        /\ etag' = etag + 1 /\ etag' # 0 /\ etag \in Nat
    BY ApplyTotals DEF TypeOK
  <1>2. inflight' = {}
    BY DEF Apply
  <1>3. ASSUME NEW d \in Clients PROVE ClientLedger(d)'
    <2>1. /\ ReadFaithful(d) /\ Fresh(d) /\ Aimed(d) /\ seen[d].etag \in Nat
      BY DEF Ledger, ClientLedger, TypeOK, Read
    <2>2. ReadFaithful(d)'
      BY <1>1, <2>1 DEF ReadFaithful, Current, Unread
    <2>3. Aimed(d)'
      BY <2>1 DEF Aimed
    <2>4. Fresh(d)'
      <3> SUFFICES ASSUME Pending(d)'
                   PROVE  /\ draft'[d].id \in used' \ Published'
                          /\ \A e \in Clients \ {d} : Pending(e)' => draft'[e].id # draft'[d].id
        BY <1>2 DEF Fresh
      <3>1. \A e \in Clients : Pending(e)' =>
              Pending(e) /\ draft'[e] = draft[e] /\ draft[e].id \notin put.adds
        BY DEF Pending
      <3> QED BY <1>1, <2>1, <3>1 DEF Fresh
    <2> QED BY <2>2, <2>3, <2>4 DEF ClientLedger
  <1> QED BY <1>1, <1>2, <1>3 DEF Ledger

\* A proper request that the client gave up on keeps the ledger.
LEMMA GivenUpLedger ==
    ASSUME TypeOK, Ledger, NEW c \in Clients, NEW put, Returns(c),
           UNCHANGED <<etag, catalog, age, removed>>,
           \A p \in inflight' : p \in inflight \/ (p = put /\ Proper(put)),
           \A d \in Clients \ {c} : Pending(d) => draft[d].id \notin put.adds
    PROVE  Ledger'
  <1>1. /\ UNCHANGED <<etag, catalog, used, age, removed>> /\ Published' = Published
    BY DEF Returns, Published
  <1>2. \A p : Proper(p)' <=> Proper(p)
    BY <1>1 DEF Proper, Publication, Removal
  <1>3. ASSUME NEW d \in Clients PROVE ClientLedger(d)'
    <2>0. /\ ReadFaithful(d) /\ Fresh(d) /\ Aimed(d)
      BY DEF Ledger, ClientLedger
    <2>1. CASE d = c
      <3>1. ReadFaithful(c)'
        BY <1>1 DEF Returns, ReadFaithful, Current, Unread, Ledger, TypeOK
      <3> QED BY <2>1, <3>1 DEF Returns, ClientLedger, Fresh, Aimed, Pending
    <2>2. CASE d # c
      <3>1. /\ pc'[d] = pc[d] /\ seen'[d] = seen[d] /\ draft'[d] = draft[d] /\ task'[d] = task[d]
        BY <2>2 DEF Returns, Others
      <3>2. ReadFaithful(d)' /\ Aimed(d)'
        BY <1>1, <2>0, <3>1 DEF ReadFaithful, Current, Aimed
      <3>3. \A e \in Clients : Pending(e)' => Pending(e) /\ draft'[e] = draft[e]
        BY DEF Returns, Others, Pending
      <3>4. Fresh(d)'
        BY <1>1, <2>0, <2>2, <3>1, <3>3 DEF Fresh
      <3> QED BY <3>2, <3>4 DEF ClientLedger
    <2> QED BY <2>1, <2>2
  <1>4. CatalogWellFormed' /\ NoLostUpdate'
    BY <1>1 DEF Ledger, CatalogWellFormed, NoLostUpdate
  <1> QED BY <1>1, <1>2, <1>3, <1>4 DEF Ledger

\* Sending either request keeps the ledger.
LEMMA SendLedger ==
    ASSUME TypeOK, Ledger, NEW c \in Clients, NEW put \in Put, Sends(c, put),
           Accepts(put) => Proper(put),
           \A d \in Clients \ {c} : Pending(d) => draft[d].id \notin put.adds
    PROVE  Ledger'
  <1>1. CASE Apply(put) /\ Accepts(put)
    BY <1>1, ApplyLedger DEF Sends, Returns, Others
  <1>2. CASE /\ UNCHANGED <<etag, catalog, age, removed>>
             /\ \A p \in inflight' \ inflight : p = put /\ Accepts(put)
    BY <1>2, GivenUpLedger DEF Sends
  <1> QED BY <1>1, <1>2 DEF Sends

\* Every step keeps the ledger.
LEMMA LedgerStep ==
    ASSUME TypeOK, Ledger, [Next]_vars
    PROVE  Ledger'
  <1>1. CASE DeliverLate
    <2>1. PICK put \in inflight : Apply(put)
      BY <1>1 DEF DeliverLate
    <2>2. UNCHANGED <<used, pc, seen, draft, task>> /\ put \in Put /\ Proper(put)
      BY <1>1, <2>1 DEF DeliverLate, local, TypeOK, Ledger
    <2>3. \A d \in Clients : Pending(d) => draft[d].id \notin put.adds
      BY DEF Ledger, ClientLedger, Fresh
    <2> QED BY <2>1, <2>2, <2>3, ApplyLedger
  <1>2. ASSUME NEW c \in Clients, Step(c)
        PROVE  Ledger'
    <2>0. PublishRequest(c) \in Put /\ RemoveRequest(c) \in Put
      BY RequestTypes, TypeParts
    <2>1. CASE Local(c)
      BY <2>1, LocalLedger
    <2>2. CASE pc[c] = "publish" /\ Sends(c, PublishRequest(c))
      <3>1. \A d \in Clients \ {c} : Pending(d) => draft[d].id \notin PublishRequest(c).adds
        BY <2>2 DEF Ledger, ClientLedger, Fresh, Pending, PublishRequest
      <3> QED BY <2>0, <2>2, <3>1, PublishProper, SendLedger
    <2>3. CASE pc[c] = "remove-publish" /\ Sends(c, RemoveRequest(c))
      <3>1. RemoveRequest(c).adds = {}
        BY DEF RemoveRequest
      <3> QED BY <2>0, <2>3, <3>1, RemoveProper, SendLedger
    <2> QED BY <1>2, <2>1, <2>2, <2>3, LocalSteps, SendSteps
  <1>3. CASE UNCHANGED vars
    <2>1. UNCHANGED <<etag, catalog, inflight, age, removed, used, pc, seen, draft, task>>
      BY <1>3 DEF vars, remote, local, history
    <2>2. Published' = Published
      BY <2>1 DEF Published
    <2> QED BY <2>1, <2>2
         DEF Ledger, CatalogWellFormed, NoLostUpdate, Proper, Publication, Removal,
             ClientLedger, ReadFaithful, Current, Fresh, Pending, Aimed
  <1> QED BY <1>1, <1>2, <1>3 DEF Next

\* The ledger is in order at the start.
LEMMA LedgerInit == Init => Ledger
  <1> SUFFICES ASSUME Init PROVE Ledger
    OBVIOUS
  <1>1. catalog.records = {} /\ removed = {} /\ Published = {} /\ inflight = {} /\ used = {}
    BY DEF Init, EmptyCatalog, Published
  <1>2. CatalogWellFormed
    BY <1>1 DEF Init, EmptyCatalog, CatalogWellFormed, LatestValid, RecordIds, RoomRecords
  <1>3. NoLostUpdate
    BY <1>1 DEF NoLostUpdate, RecordIds
  <1>4. ASSUME NEW c \in Clients PROVE ClientLedger(c)
    BY DEF Init, ClientLedger, ReadFaithful, Current, Unread, Fresh, Pending, Aimed
  <1> QED BY <1>1, <1>2, <1>3, <1>4 DEF Init, Ledger, RecordIds

\* For every number of machines, Rooms and recovery points, and whatever PUTs
\* are lost, delayed or repeated: the catalog holds exactly the records whose
\* publication was applied, less those an applied removal named
\* (conditional_catalog_put).
THEOREM NoUpdateIsLost == Spec => []NoLostUpdate
  <1>1. TypeOK /\ Ledger /\ [Next]_vars => Ledger'
    BY LedgerStep
  <1>2. Ledger => NoLostUpdate
    BY DEF Ledger
  <1> QED BY <1>1, <1>2, LedgerInit, TypeCorrect, PTL DEF Spec

\* The catalog always passes the validation that loading it applies: ids are
\* unique and each Room's latest is one of its records (Catalog.add_snapshot,
\* remove_snapshot, remove_project).
THEOREM CatalogStaysWellFormed == Spec => []CatalogWellFormed
  <1>1. TypeOK /\ Ledger /\ [Next]_vars => Ledger'
    BY LedgerStep
  <1>2. Ledger => CatalogWellFormed
    BY DEF Ledger
  <1> QED BY <1>1, <1>2, LedgerInit, TypeCorrect, PTL DEF Spec

-----------------------------------------------------------------------------
(* Reports.                                                                *)

\* Every request that can be applied leaves dead ids alone.
LEMMA SendDead ==
    ASSUME TypeOK, Ledger, NEW c \in Clients, NEW put \in Put, Sends(c, put),
           Accepts(put) => Proper(put), NEW i, Dead(i), i \notin put.adds
    PROVE  Dead(i)'
  <1>1. UNCHANGED used /\ \A d \in Clients : Pending(d)' => Pending(d) /\ draft'[d] = draft[d]
    BY DEF Sends, Returns, Others, Pending
  <1>2. CASE Apply(put) /\ Accepts(put)
    <2>1. Published' = Published \cup put.adds /\ inflight' = {}
      BY <1>2, ApplyTotals DEF Apply
    <2> QED BY <1>1, <2>1 DEF Dead
  <1>3. CASE /\ UNCHANGED <<etag, catalog, age, removed>>
             /\ \A p \in inflight' \ inflight : p = put /\ Accepts(put)
    <2>1. Published' = Published
      BY <1>3 DEF Published
    <2> QED BY <1>1, <1>3, <2>1 DEF Dead
  <1> QED BY <1>2, <1>3 DEF Sends

\* An id that cannot be published any more never can.
LEMMA DeadStays ==
    ASSUME TypeOK, Ledger, [Next]_vars, NEW i, Dead(i)
    PROVE  Dead(i)'
  <1>1. CASE DeliverLate
    <2>1. PICK put \in inflight : Apply(put)
      BY <1>1 DEF DeliverLate
    <2>2. UNCHANGED <<used, pc, draft>> /\ put \in Put /\ Proper(put)
      BY <1>1, <2>1 DEF DeliverLate, local, TypeOK, Ledger
    <2>3. Published' = Published \cup put.adds /\ inflight' = {}
      BY <2>1, <2>2, ApplyTotals DEF Apply
    <2> QED BY <2>2, <2>3 DEF Dead, Pending
  <1>2. ASSUME NEW c \in Clients, Step(c)
        PROVE  Dead(i)'
    <2>0. PublishRequest(c) \in Put /\ RemoveRequest(c) \in Put
      BY RequestTypes, TypeParts
    <2>1. CASE Local(c)
      <3>1. Published' = Published
        BY <2>1 DEF Local, Published
      <3>2. ASSUME NEW d \in Clients, Pending(d)' PROVE draft'[d].id # i
        <4>1. CASE d = c
          BY <2>1, <3>2, <4>1 DEF Local, Dead
        <4>2. CASE d # c
          BY <2>1, <3>2, <4>2 DEF Local, Others, Dead, Pending
        <4> QED BY <4>1, <4>2
      <3> QED BY <2>1, <3>1, <3>2 DEF Local, Dead
    <2>2. CASE pc[c] = "publish" /\ Sends(c, PublishRequest(c))
      <3>1. i \notin PublishRequest(c).adds
        BY <2>2 DEF Dead, Pending, PublishRequest
      <3> QED BY <2>0, <2>2, <3>1, PublishProper, SendDead
    <2>3. CASE pc[c] = "remove-publish" /\ Sends(c, RemoveRequest(c))
      <3>1. i \notin RemoveRequest(c).adds
        BY DEF RemoveRequest
      <3> QED BY <2>0, <2>3, <3>1, RemoveProper, SendDead
    <2> QED BY <1>2, <2>1, <2>2, <2>3, LocalSteps, SendSteps
  <1>3. CASE UNCHANGED vars
    <2>1. UNCHANGED <<inflight, age, used, pc, draft>>
      BY <1>3 DEF vars, remote, local, history
    <2> QED BY <2>1 DEF Dead, Published, Pending
  <1> QED BY <1>1, <1>2, <1>3 DEF Next

\* What was published stays published: histories only grow.
LEMMA PublishedStays ==
    ASSUME TypeOK, [Next]_vars
    PROVE  Published \subseteq Published'
  <1>0. etag + 1 # 0 /\ age \in [Ids -> Nat]
    BY DEF TypeOK
  <1>1. ASSUME NEW put, Apply(put) PROVE Published \subseteq Published'
    BY <1>0, <1>1 DEF Apply, Published
  <1>2. CASE UNCHANGED age
    BY <1>2 DEF Published
  <1>3. CASE DeliverLate
    BY <1>1, <1>3 DEF DeliverLate
  <1>4. ASSUME NEW c \in Clients, Step(c) PROVE Published \subseteq Published'
    <2>1. CASE Local(c)
      BY <1>2, <2>1 DEF Local
    <2>2. ASSUME NEW put, Sends(c, put) PROVE Published \subseteq Published'
      BY <1>1, <1>2, <2>2 DEF Sends
    <2> QED BY <1>4, <2>1, <2>2, LocalSteps, SendSteps
  <1>5. CASE UNCHANGED vars
    BY <1>2, <1>5 DEF vars, history
  <1> QED BY <1>3, <1>4, <1>5 DEF Next

\* A pending id that its client drops without sending it is dead.
LEMMA DroppedIsDead ==
    ASSUME Ledger, NEW c \in Clients, Pending(c), Others(c), ~Pending(c)',
           UNCHANGED <<used, age, inflight>>, NEW i, i = draft[c].id
    PROVE  Dead(i)'
  <1>1. Fresh(c) /\ Published' = Published
    BY DEF Ledger, ClientLedger, Published
  <1>2. ASSUME NEW d \in Clients, Pending(d)' PROVE draft'[d].id # i
    BY <1>1, <1>2 DEF Others, Pending, Fresh
  <1> QED BY <1>1, <1>2 DEF Dead, Fresh

\* What an applied removal took out stays recorded.
LEMMA RemovedStays ==
    ASSUME TypeOK, [Next]_vars
    PROVE  RecordIds(removed) \subseteq RecordIds(removed')
  <1>0. SUFFICES removed \subseteq removed'
    BY DEF RecordIds
  <1>1. ASSUME NEW put, Apply(put) PROVE removed \subseteq removed'
    BY <1>1 DEF Apply
  <1>2. CASE DeliverLate
    BY <1>1, <1>2 DEF DeliverLate
  <1>3. ASSUME NEW c \in Clients, Step(c) PROVE removed \subseteq removed'
    <2>1. CASE Local(c)
      BY <2>1 DEF Local
    <2>2. ASSUME NEW put, Sends(c, put) PROVE removed \subseteq removed'
      BY <1>1, <2>2 DEF Sends
    <2> QED BY <1>3, <2>1, <2>2, LocalSteps, SendSteps
  <1>4. CASE UNCHANGED vars
    BY <1>4 DEF vars, history
  <1> QED BY <1>2, <1>3, <1>4 DEF Next

\* Only an applied publication is read back.
LEMMA AwaitedStays ==
    ASSUME TypeOK, Ledger, [Next]_vars, \A c \in Clients : Awaited(c)
    PROVE  \A c \in Clients : Awaited(c)'
  <1>0. Published \subseteq Published'
    BY PublishedStays
  <1>1. CASE UNCHANGED <<pc, draft>>
    BY <1>0, <1>1 DEF Awaited
  <1>2. CASE DeliverLate
    BY <1>1, <1>2 DEF DeliverLate, local
  <1>3. ASSUME NEW c \in Clients, Step(c) PROVE \A d \in Clients : Awaited(d)'
    <2>0. PublishRequest(c) \in Put /\ RemoveRequest(c) \in Put
      BY RequestTypes, TypeParts
    <2>1. CASE Local(c)
      BY <1>0, <2>1 DEF Local, Others, Awaited
    <2>2. ASSUME NEW put \in Put, Sends(c, put), Accepts(put) => Proper(put)
          PROVE  \A d \in Clients : Awaited(d)'
      <3>1. Awaited(c)'
        <4> SUFFICES ASSUME pc'[c] = "verify" PROVE draft'[c].id \in Published'
          BY DEF Awaited
        <4>1. Apply(put) /\ draft'[c].id \in put.adds /\ pc[c] = "publish"
          BY <2>2 DEF Sends
        <4>2. draft'[c].id \in Ids
          BY <2>2, <4>1 DEF Sends, Ledger, ClientLedger, Fresh, Pending, TypeOK
        <4>3. etag + 1 # 0
          BY DEF TypeOK
        <4> QED BY <4>1, <4>2, <4>3 DEF Apply, Published
      <3>2. ASSUME NEW d \in Clients, d # c PROVE Awaited(d)'
        BY <1>0, <2>2, <3>2 DEF Sends, Returns, Others, Awaited
      <3> QED BY <3>1, <3>2
    <2>3. CASE pc[c] = "publish" /\ Sends(c, PublishRequest(c))
      BY <2>0, <2>2, <2>3, PublishProper
    <2>4. CASE pc[c] = "remove-publish" /\ Sends(c, RemoveRequest(c))
      BY <2>0, <2>2, <2>4, RemoveProper
    <2> QED BY <1>3, <2>1, <2>3, <2>4, LocalSteps, SendSteps
  <1>4. CASE UNCHANGED vars
    BY <1>1, <1>4 DEF vars, local
  <1> QED BY <1>2, <1>3, <1>4 DEF Next

\* Only a failed publication, a read-back and an abort report.
LEMMA QuietReports ==
    ASSUME TypeOK, NEW c \in Clients, Step(c)
    PROVE  UNCHANGED <<verdict, orphans>> \/ PublishFails(c) \/ Verify(c) \/ Abort(c)
  <1>1. CASE \E room \in Rooms :
               \/ \E command \in Commands : OpenForSave(c, command, room)
               \/ OpenCopySource(c, room) \/ UploadSnapshot(c, room)
               \/ ReadStreamSource(c, room) \/ ConfirmRemoval(c, room)
    BY <1>1 DEF OpenForSave, OpenCopySource, UploadSnapshot, ReadStreamSource, ConfirmRemoval, reports
  <1>2. CASE \/ Backup(c) \/ PutDescriptor(c) \/ WriteMarker(c) \/ OpenCopyDestination(c)
             \/ ReadCatalogForCreate(c) \/ ReadStreamDestination(c) \/ TransferStream(c)
             \/ Publish(c)
    BY <1>2 DEF Backup, PutDescriptor, WriteMarker, OpenCopyDestination, ReadCatalogForCreate,
                ReadStreamDestination, TransferStream, Publish, reports
  <1>3. CASE \/ OpenRemoval(c) \/ OpenJatRemoval(c) \/ PublishRemoval(c) \/ RemovalFails(c)
             \/ VerifyRemoval(c) \/ DeleteObject(c) \/ EndDeletion(c) \/ OpenFresh(c)
             \/ LoadDescriptors(c) \/ Forget(c) \/ ForgetFails(c) \/ DeferCleanup(c) \/ Crash(c)
    BY <1>3 DEF OpenRemoval, OpenJatRemoval, PublishRemoval, RemovalFails, VerifyRemoval,
                DeleteObject, EndDeletion, OpenFresh, LoadDescriptors, Forget, ForgetFails,
                DeferCleanup, Crash, reports
  <1> QED BY <1>1, <1>2, <1>3 DEF Step

\* A publication that is refused and not applied never will be.
LEMMA RefusedIsDead ==
    ASSUME TypeOK, Ledger, NEW c \in Clients, PublishFails(c),
           Unapplied(PublishRequest(c), "rejected"), NEW i, i = draft[c].id
    PROVE  Dead(i)'
  <1>1. UNCHANGED <<age, inflight>>
    BY DEF Unapplied, Ambiguous
  <1>2. pc[c] = "publish" /\ UNCHANGED used /\ Others(c) /\ ~Pending(c)'
    BY DEF PublishFails, Report, Others, Goto, Release, Finish, TypeOK, Pending
  <1> QED BY <1>1, <1>2, DroppedIsDead DEF Pending

\* Every step keeps the verdicts as true as they were.
LEMMA VerdictStep ==
    ASSUME TypeOK, Ledger, VerdictInv, [Next]_vars
    PROVE  VerdictInv'
  <1>0. \A c \in Clients : Awaited(c)'
    BY AwaitedStays DEF VerdictInv
  <1>1. \A i : Dead(i) => Dead(i)'
    BY DeadStays
  <1>2. Published \subseteq Published'
    BY PublishedStays
  <1>3. CASE UNCHANGED verdict
    BY <1>0, <1>1, <1>2, <1>3 DEF VerdictInv, CommittedIsPublished
  <1>4. ASSUME NEW c \in Clients, PublishFails(c) PROVE VerdictInv'
    <2>1. PICK outcome \in Outcomes :
            /\ Unapplied(PublishRequest(c), outcome)
            /\ verdict' = [verdict EXCEPT ![draft[c].id] = ReportedVerdict(outcome)]
      BY <1>4 DEF PublishFails, Report
    <2>2. ReportedVerdict(outcome) # "committed"
      BY <2>1 DEF ReportedVerdict, Unapplied, Ambiguous
    <2>3. ASSUME ReportedVerdict(outcome) = "rejected", NEW i, i = draft[c].id PROVE Dead(i)'
      <3>1. outcome = "rejected"
        BY <2>3 DEF ReportedVerdict
      <3> QED BY <1>4, <2>1, <2>3, <3>1, RefusedIsDead
    <2>4. \A i \in Ids : verdict'[i] = IF i = draft[c].id THEN ReportedVerdict(outcome) ELSE verdict[i]
      BY <2>1 DEF TypeOK
    <2> QED BY <1>0, <1>1, <1>2, <2>2, <2>3, <2>4 DEF VerdictInv, CommittedIsPublished
  <1>5. ASSUME NEW c \in Clients, Verify(c) PROVE VerdictInv'
    <2>1. PICK outcome : verdict' = [verdict EXCEPT ![draft[c].id] = ReportedVerdict(outcome)]
      BY <1>5 DEF Verify, Report
    <2>2. draft[c].id \in Published
      BY <1>5 DEF Verify, VerdictInv, Awaited
    <2>3. \A i \in Ids : verdict'[i] = IF i = draft[c].id THEN ReportedVerdict(outcome) ELSE verdict[i]
      BY <2>1 DEF TypeOK
    <2> QED BY <1>0, <1>1, <1>2, <2>2, <2>3 DEF VerdictInv, CommittedIsPublished
  <1>6. ASSUME NEW c \in Clients, Abort(c) PROVE VerdictInv'
    <2>1. CASE pc[c] \notin {"descriptor", "publish"}
      BY <1>3, <1>6, <2>1 DEF Abort
    <2>2. CASE pc[c] \in {"descriptor", "publish"}
      <3>1. /\ verdict' = [verdict EXCEPT ![draft[c].id] = "rejected"]
            /\ Others(c) /\ ~Pending(c)' /\ UNCHANGED <<used, age, inflight>>
        BY <1>6, <2>2 DEF Abort, Finish, Others, Pending, remote, history, TypeOK
      <3>2. \A i : i = draft[c].id => Dead(i)'
        BY <2>2, <3>1, DroppedIsDead DEF Pending
      <3>3. \A i \in Ids : verdict'[i] = IF i = draft[c].id THEN "rejected" ELSE verdict[i]
        BY <3>1 DEF TypeOK
      <3> QED BY <1>0, <1>1, <1>2, <3>2, <3>3 DEF VerdictInv, CommittedIsPublished
    <2> QED BY <2>1, <2>2
  <1>7. CASE DeliverLate
    BY <1>3, <1>7 DEF DeliverLate, reports
  <1>8. CASE UNCHANGED vars
    BY <1>3, <1>8 DEF vars, reports
  <1> QED BY <1>3, <1>4, <1>5, <1>6, <1>7, <1>8, QuietReports DEF Next

\* Nothing has been reported at the start.
LEMMA VerdictInit == Init => VerdictInv
  BY DEF Init, VerdictInv, CommittedIsPublished, Awaited

\* For every number of machines and of SDK attempts: what a command reports as
\* committed was applied, whatever others do between its PUT and its read-back
\* and however late PUTs are applied (conditional_catalog_put).
THEOREM CommitsArePublished == Spec => []CommittedIsPublished
  <1>1. TypeOK /\ Ledger /\ [Next]_vars => Ledger'
    BY LedgerStep
  <1>2. TypeOK /\ Ledger /\ VerdictInv /\ [Next]_vars => VerdictInv'
    BY VerdictStep
  <1>3. VerdictInv => CommittedIsPublished
    BY DEF VerdictInv
  <1> QED BY <1>1, <1>2, <1>3, LedgerInit, VerdictInit, TypeCorrect, PTL DEF Spec

\* For every number of machines and of SDK attempts: a publication reported as
\* rejected (published=False) that was not applied by then never is, by a
\* request still under way either (conditional_catalog_put, _publication_state).
THEOREM RejectionsAreFinal == Spec => RejectionIsFinal
  <1>1. TypeOK /\ Ledger /\ [Next]_vars => Ledger'
    BY LedgerStep
  <1>2. TypeOK /\ Ledger /\ VerdictInv /\ [Next]_vars => VerdictInv'
    BY VerdictStep
  <1>3. TypeOK /\ Ledger /\ VerdictInv /\ [Next]_vars =>
          [\A i \in Ids : verdict[i] = "rejected" /\ i \notin Published => i \notin Published']_vars
    <2> SUFFICES ASSUME TypeOK, Ledger, VerdictInv, [Next]_vars, NEW i \in Ids,
                        verdict[i] = "rejected", i \notin Published
                 PROVE  i \notin Published'
      OBVIOUS
    <2>1. Dead(i)
      BY DEF VerdictInv
    <2>2. Dead(i)'
      BY <2>1, DeadStays
    <2> QED BY <2>2 DEF Dead
  <1> QED BY <1>1, <1>2, <1>3, LedgerInit, VerdictInit, TypeCorrect, PTL DEF Spec, RejectionIsFinal

\* A client's command changes only when it is given and when it returns.
OpMove(c) ==
    /\ \A d \in Clients \ {c} : op'[d] = op[d]
    /\ \/ op'[c] = op[c] /\ pc[c] # "idle"
       \/ op'[c] = "none" /\ pc'[c] = "idle"
       \/ op'[c] \in Commands /\ pc[c] = "idle"
    /\ pc'[c] \in {"stream-destination", "stream-transfer"} =>
         pc[c] = "stream-destination" \/ "stream-copy" \in Commands

\* Every step of a client moves its command so.
LEMMA OpMoves ==
    ASSUME TypeOK, NEW c \in Clients, Step(c)
    PROVE  OpMove(c)
  <1>0. CASE Finish(c)
    BY <1>0 DEF Finish, TypeOK, OpMove
  <1>1. CASE \E room \in Rooms : \E command \in Commands : OpenForSave(c, command, room)
    BY <1>1 DEF OpenForSave, Goto, TypeOK, OpMove
  <1>2. CASE \E room \in Rooms : OpenCopySource(c, room)
    BY <1>2 DEF OpenCopySource, Goto, TypeOK, OpMove
  <1>3. CASE \E room \in Rooms : UploadSnapshot(c, room)
    BY <1>3 DEF UploadSnapshot, Goto, TypeOK, OpMove
  <1>4. CASE \E room \in Rooms : ReadStreamSource(c, room)
    BY <1>4 DEF ReadStreamSource, Goto, TypeOK, OpMove
  <1>5. CASE \E room \in Rooms : ConfirmRemoval(c, room)
    BY <1>5 DEF ConfirmRemoval, Goto, TypeOK, OpMove
  <1>6. CASE Backup(c) \/ PutDescriptor(c) \/ OpenCopyDestination(c)
    BY <1>6 DEF Backup, PutDescriptor, OpenCopyDestination, Goto, TypeOK, OpMove
  <1>7. CASE ReadCatalogForCreate(c) \/ ReadStreamDestination(c) \/ TransferStream(c)
    BY <1>7 DEF ReadCatalogForCreate, ReadStreamDestination, TransferStream, Goto, TypeOK, OpMove
  <1>8. CASE \/ OpenRemoval(c) \/ OpenJatRemoval(c) \/ DeleteObject(c) \/ OpenFresh(c)
             \/ LoadDescriptors(c) \/ Publish(c) \/ PublishRemoval(c)
    BY <1>8 DEF OpenRemoval, OpenJatRemoval, DeleteObject, OpenFresh, LoadDescriptors, Publish,
                PublishRemoval, Goto, TypeOK, OpMove
  <1>9. CASE PublishFails(c) \/ Verify(c)
    <2>1. \/ pc[c] \in {"publish", "verify"} /\ pc' = [pc EXCEPT ![c] = "marker"] /\ op' = op
          \/ Finish(c)
      BY <1>9 DEF PublishFails, Verify, Report, Goto
    <2> QED BY <1>0, <2>1 DEF TypeOK, OpMove
  <1>10. CASE VerifyRemoval(c)
    <2>1. \/ pc[c] = "remove-verify" /\ pc' = [pc EXCEPT ![c] = "delete"] /\ op' = op
          \/ Finish(c)
      BY <1>10 DEF VerifyRemoval, Goto
    <2> QED BY <1>0, <2>1 DEF TypeOK, OpMove
  <1>11. CASE EndDeletion(c)
    <2>1. \/ pc[c] = "delete" /\ pc' = [pc EXCEPT ![c] = "fresh"] /\ op' = op
          \/ Finish(c)
      BY <1>11 DEF EndDeletion, Goto
    <2> QED BY <1>0, <2>1 DEF TypeOK, OpMove
  <1>12. CASE \/ WriteMarker(c) \/ Forget(c) \/ ForgetFails(c) \/ DeferCleanup(c)
              \/ Abort(c) \/ Crash(c) \/ RemovalFails(c)
    BY <1>0, <1>12 DEF WriteMarker, Forget, ForgetFails, DeferCleanup, Abort, Crash, RemovalFails
  <1> QED BY <1>1, <1>2, <1>3, <1>4, <1>5, <1>6, <1>7, <1>8, <1>9, <1>10, <1>11, <1>12 DEF Step

\* Without the command, nobody copies a stream.
LEMMA NoStreamStep ==
    ASSUME "stream-copy" \notin Commands, TypeOK, NEW c \in Clients, OpMove(c), Others(c),
           \A d \in Clients : NoStream(d)
    PROVE  \A d \in Clients : NoStream(d)'
  <1>1. NoStream(c)'
    BY DEF OpMove, NoStream
  <1>2. ASSUME NEW d \in Clients, d # c PROVE NoStream(d)'
    BY <1>2 DEF OpMove, Others, NoStream
  <1> QED BY <1>1, <1>2

\* Every step but a late delivery is one client's.
LEMMA StepOthers ==
    ASSUME TypeOK, NEW c \in Clients, Step(c)
    PROVE  Others(c)
  BY LocalSteps, SendSteps DEF Local, Sends, Returns

\* The records that either request would make the catalog hold.
LEMMA RequestRecords ==
    ASSUME TypeOK, Ledger, NEW c \in Clients
    PROVE  /\ pc[c] = "publish" /\ Accepts(PublishRequest(c)) =>
                PublishRequest(c).body.records = catalog.records \cup {draft[c]}
           /\ pc[c] = "remove-publish" /\ Accepts(RemoveRequest(c)) =>
                RemoveRequest(c).body.records \subseteq catalog.records
  <1>1. seen[c].etag = etag => seen[c].body = catalog
    BY DEF Ledger, ClientLedger, ReadFaithful, Current
  <1> QED BY <1>1, RemoveRecordsSubset
          DEF Accepts, PublishRequest, RemoveRequest, AddSnapshot

\* Without stream copies every record keeps the object that carries its id.
LEMMA NamedStep ==
    ASSUME "stream-copy" \notin Commands, TypeOK, Ledger, NamedInv, [Next]_vars
    PROVE  NamedInv'
  <1>1. CASE DeliverLate
    <2>1. PICK put \in inflight : Apply(put)
      BY <1>1 DEF DeliverLate
    <2>2. UNCHANGED <<pc, op, draft>> /\ catalog' = put.body /\ inflight' = {}
      BY <1>1, <2>1 DEF DeliverLate, local, Apply
    <2> QED BY <2>2 DEF NamedInv, Drafted, Pending, NoStream
  <1>2. ASSUME NEW c \in Clients, Step(c)
        PROVE  NamedInv'
    <2>0. \A d \in Clients : NoStream(d)'
      BY <1>2, OpMoves, StepOthers, NoStreamStep DEF NamedInv
    <2>1. CASE Local(c)
      <3>1. \A d \in Clients : Drafted(d)' => Named(draft[d])'
        <4> SUFFICES ASSUME NEW d \in Clients, Drafted(d)' PROVE Named(draft'[d])
          OBVIOUS
        <4>1. CASE d = c
          BY <2>1, <4>1 DEF Local, NamedInv, Drafted, NoStream
        <4>2. CASE d # c
          BY <2>1, <4>2 DEF Local, Others, Drafted, Pending, NamedInv
        <4> QED BY <4>1, <4>2
      <3> QED BY <2>0, <2>1, <3>1 DEF Local, NamedInv
    <2>2. ASSUME NEW put, Sends(c, put),
                 Accepts(put) => \A r \in put.body.records : Named(r)
          PROVE  NamedInv'
      <3>1. \A d \in Clients : Drafted(d)' => Named(draft'[d])
        BY <2>2 DEF Sends, Returns, Others, Drafted, Pending, NamedInv
      <3>2. CASE Apply(put) /\ Accepts(put)
        BY <2>0, <2>2, <3>1, <3>2 DEF Apply, NamedInv
      <3>3. CASE /\ UNCHANGED <<etag, catalog, age, removed>>
                 /\ \A p \in inflight' \ inflight : p = put /\ Accepts(put)
        BY <2>0, <2>2, <3>1, <3>3 DEF NamedInv
      <3> QED BY <2>2, <3>2, <3>3 DEF Sends
    <2>3. CASE pc[c] = "publish" /\ Sends(c, PublishRequest(c))
      <3>1. Named(draft[c])
        BY <2>3 DEF NamedInv, Drafted, Pending
      <3> QED BY <2>2, <2>3, <3>1, RequestRecords DEF NamedInv
    <2>4. CASE pc[c] = "remove-publish" /\ Sends(c, RemoveRequest(c))
      BY <2>2, <2>4, RequestRecords DEF NamedInv
    <2> QED BY <1>2, <2>1, <2>3, <2>4, LocalSteps, SendSteps
  <1>3. CASE UNCHANGED vars
    BY <1>3 DEF vars, remote, local, NamedInv, Drafted, Pending, NoStream
  <1> QED BY <1>1, <1>2, <1>3 DEF Next

\* Only objects of published and of dead ids are recorded as unreferenced.
LEMMA OrphanStep ==
    ASSUME "stream-copy" \notin Commands, TypeOK, Ledger, OrphanInv, [Next]_vars
    PROVE  OrphanInv'
  <1>0. NamedInv /\ NamedInv' /\ \A c \in Clients : Awaited(c)'
    BY NamedStep, AwaitedStays DEF OrphanInv
  <1>1. \A i : Dead(i) \/ i \in Published => Dead(i)' \/ i \in Published'
    BY DeadStays, PublishedStays
  <1>2. CASE UNCHANGED orphans
    BY <1>0, <1>1, <1>2 DEF OrphanInv
  <1>3. ASSUME NEW c \in Clients, Drafted(c), NEW outcome,
               orphans' = orphans \cup OrphanReceipt(c, outcome),
               outcome = "rejected" =>
                 \A i : i = draft[c].id => Dead(i)' \/ i \in Published'
        PROVE  OrphanInv'
    <2>1. Named(draft[c]) /\ op[c] # "stream-copy"
      BY <1>0, <1>3 DEF NamedInv, NoStream
    <2>2. CASE outcome = "rejected"
      <3>1. \A o \in orphans' \ orphans : o[2] = draft[c].id
        BY <1>3, <2>1 DEF OrphanReceipt, Named
      <3> QED BY <1>0, <1>1, <1>3, <2>2, <3>1 DEF OrphanInv
    <2>3. CASE outcome # "rejected"
      BY <1>2, <1>3, <2>1, <2>3 DEF OrphanReceipt
    <2> QED BY <2>2, <2>3
  <1>4. ASSUME NEW c \in Clients, PublishFails(c) PROVE OrphanInv'
    <2>1. PICK outcome \in Outcomes : /\ Unapplied(PublishRequest(c), outcome)
                                      /\ orphans' = orphans \cup OrphanReceipt(c, outcome)
      BY <1>4 DEF PublishFails, Report
    <2>2. Drafted(c)
      BY <1>4 DEF PublishFails, Drafted, Pending
    <2> QED BY <1>3, <1>4, <2>1, <2>2, RefusedIsDead
  <1>5. ASSUME NEW c \in Clients, Verify(c) PROVE OrphanInv'
    <2>1. PICK outcome : orphans' = orphans \cup OrphanReceipt(c, outcome)
      BY <1>5 DEF Verify, Report
    <2>2. Drafted(c) /\ draft[c].id \in Published'
      BY <1>5, PublishedStays DEF Verify, Drafted, OrphanInv, Awaited
    <2> QED BY <1>3, <2>1, <2>2
  <1>6. ASSUME NEW c \in Clients, Abort(c) PROVE OrphanInv'
    <2>1. CASE pc[c] \notin {"create-catalog", "publish"}
      BY <1>2, <1>6, <2>1 DEF Abort
    <2>2. CASE pc[c] \in {"create-catalog", "publish"}
      <3>1. /\ orphans' = orphans \cup OrphanReceipt(c, "rejected")
            /\ Others(c) /\ ~Pending(c)' /\ UNCHANGED <<used, age, inflight>>
        BY <1>6, <2>2 DEF Abort, Finish, Others, Pending, remote, history, TypeOK
      <3>2. \A i : i = draft[c].id => Dead(i)'
        BY <2>2, <3>1, DroppedIsDead DEF Pending
      <3> QED BY <1>3, <2>2, <3>1, <3>2 DEF Drafted, Pending
    <2> QED BY <2>1, <2>2
  <1>7. CASE DeliverLate
    BY <1>2, <1>7 DEF DeliverLate, reports
  <1>8. CASE UNCHANGED vars
    BY <1>2, <1>8 DEF vars, reports
  <1> QED BY <1>2, <1>4, <1>5, <1>6, <1>7, <1>8, QuietReports DEF Next

\* The records that name an object are those that carry its id.
LEMMA ObjectOfRecord ==
    ASSUME NEW records \in SUBSET Record, \A r \in records : Named(r), NEW o \in Object
    PROVE  o \in AllReferences(records) <=> o[2] \in RecordIds(records)
  <1>1. ASSUME NEW r \in records, o \in References(r) PROVE o[2] = r.id
    <2>1. r.restic \subseteq Snapshot
      BY DEF Record
    <2>2. o = r.object
      BY <1>1, <2>1, TagsDisjoint DEF References
    <2> QED BY <2>2 DEF Named
  <1>2. ASSUME NEW r \in records, o[2] = r.id PROVE o \in References(r)
    <2>1. o = <<"object", o[2]>>
      BY DEF Object
    <2> QED BY <1>2, <2>1 DEF Named, References
  <1> QED BY <1>1, <1>2 DEF AllReferences, RecordIds

\* For every number of machines and of SDK attempts, when portable JATs are not
\* copied within their Dimension: an object recorded as "uploaded-unreferenced"
\* that no catalog record names does not become the object of one, however
\* late the PUT that would have named it arrives (create_snapshot).
THEOREM OrphansStayOrphans ==
    ASSUME "stream-copy" \notin Commands
    PROVE  Spec => OrphansStayUnreferenced
  <1>1. TypeOK /\ Ledger /\ [Next]_vars => Ledger'
    BY LedgerStep
  <1>2. Init => OrphanInv
    BY DEF Init, EmptyCatalog, OrphanInv, NamedInv, Drafted, Pending, NoStream, Awaited
  <1>3. TypeOK /\ Ledger /\ OrphanInv /\ [Next]_vars => OrphanInv'
    BY OrphanStep
  <1>4. TypeOK /\ TypeOK' /\ Ledger /\ OrphanInv /\ [Next]_vars =>
          [(orphans \ AllReferences(catalog.records)) \cap AllReferences(catalog'.records) = {}]_vars
    <2> SUFFICES ASSUME TypeOK, TypeOK', Ledger, OrphanInv, [Next]_vars, NEW o \in orphans,
                        o \notin AllReferences(catalog.records),
                        o \in AllReferences(catalog'.records)
                 PROVE  FALSE
      OBVIOUS
    <2>1. Ledger' /\ NamedInv' /\ NamedInv /\ o \in Object
      BY <1>1, <1>3 DEF OrphanInv, TypeOK
    <2>0. /\ catalog.records \subseteq Record /\ \A r \in catalog.records : Named(r)
          /\ catalog'.records \subseteq Record /\ \A r \in catalog'.records : Named(r)
      BY <2>1 DEF TypeOK, CatalogBody, NamedInv
    <2>2. o[2] \in RecordIds(catalog'.records)
      BY <2>0, <2>1, ObjectOfRecord
    <2>3. o[2] \in Published' /\ o[2] \notin RecordIds(removed')
      BY <2>1, <2>2 DEF Ledger, NoLostUpdate
    <2>4. o[2] \notin RecordIds(catalog.records)
      BY <2>0, <2>1, ObjectOfRecord
    <2>5. CASE Dead(o[2])
      <3>1. Dead(o[2])'
        BY <2>5, DeadStays
      <3> QED BY <2>3, <3>1 DEF Dead
    <2>6. CASE o[2] \in Published
      <3>1. o[2] \in RecordIds(removed)
        BY <2>4, <2>6 DEF Ledger, NoLostUpdate
      <3> QED BY <2>3, <3>1, RemovedStays
    <2> QED BY <2>5, <2>6 DEF OrphanInv
  <1> QED BY <1>1, <1>2, <1>3, <1>4, LedgerInit, TypeCorrect, PTL DEF Spec, OrphansStayUnreferenced

-----------------------------------------------------------------------------
(* Removals take out what was confirmed.                                   *)

\* Every applied PUT raises the revision.
LEMMA RevisionGrows ==
    ASSUME TypeOK, NEW put \in Put, Proper(put), put.adds = {} => put.removes # {}
    PROVE  put.body.revision > catalog.revision
  <1>0. catalog \in CatalogBody /\ catalog.revision \in Nat
    BY DEF TypeOK, CatalogBody
  <1>1. CASE Publication(put)
    BY <1>0, <1>1 DEF Publication, AddSnapshot
  <1>2. CASE Removal(put)
    <2>1. PICK room \in Rooms : /\ put.body = RemoveRecords(catalog, room, put.removes)
                                /\ put.adds = {}
      BY <1>2 DEF Removal
    <2>2. put.removes \in SUBSET OptId /\ put.removes # {}
      BY <2>1 DEF Put
    <2>3. Cardinality(put.removes) \in Nat /\ Cardinality(put.removes) # 0
      <3>1. IsFiniteSet(OptId)
        BY IdsAssumption, FS_AddElement DEF OptId
      <3>2. IsFiniteSet(put.removes)
        BY <2>2, <3>1, FS_Subset
      <3> QED BY <2>2, <3>2, FS_CardinalityType, FS_EmptySet
    <2>4. \E n \in {1, Cardinality(put.removes)} : put.body.revision = catalog.revision + n
      BY <2>1 DEF RemoveRecords
    <2> QED BY <1>0, <2>3, <2>4
  <1> QED BY <1>1, <1>2 DEF Proper

\* How a client comes to be removing, and who adds to what was confirmed.
LEMMA RemovalMoves ==
    ASSUME TypeOK, NEW c \in Clients, Step(c)
    PROVE  \/ \E room \in Rooms : ConfirmRemoval(c, room)
           \/ UNCHANGED confirmed /\ (OpenRemoval(c) \/ OpenJatRemoval(c))
           \/ UNCHANGED confirmed /\ ~Removing(c)'
  <1>0. CASE Finish(c) /\ UNCHANGED confirmed
    BY <1>0 DEF Finish, TypeOK, Removing
  <1>1. CASE \E room \in Rooms :
               \/ \E command \in Commands : OpenForSave(c, command, room)
               \/ OpenCopySource(c, room) \/ UploadSnapshot(c, room) \/ ReadStreamSource(c, room)
    BY <1>1 DEF OpenForSave, OpenCopySource, UploadSnapshot, ReadStreamSource, Goto, history,
                TypeOK, Removing
  <1>2. CASE \/ Backup(c) \/ PutDescriptor(c) \/ OpenCopyDestination(c)
             \/ ReadCatalogForCreate(c) \/ ReadStreamDestination(c) \/ TransferStream(c)
    BY <1>2 DEF Backup, PutDescriptor, OpenCopyDestination, ReadCatalogForCreate,
                ReadStreamDestination, TransferStream, Goto, history, TypeOK, Removing
  <1>3. CASE PublishFails(c) \/ Verify(c) \/ VerifyRemoval(c)
    <2>1. UNCHANGED confirmed /\ (Finish(c) \/ pc' = [pc EXCEPT ![c] = "marker"]
                                            \/ pc' = [pc EXCEPT ![c] = "delete"])
      BY <1>3 DEF PublishFails, Verify, Report, VerifyRemoval, Goto, history
    <2> QED BY <1>0, <2>1 DEF TypeOK, Removing
  <1>4. CASE \/ DeleteObject(c) \/ OpenFresh(c) \/ LoadDescriptors(c)
             \/ Publish(c) \/ PublishRemoval(c)
    BY <1>4 DEF DeleteObject, OpenFresh, LoadDescriptors, Publish, PublishRemoval, Goto, history,
                TypeOK, Removing
  <1>5. CASE EndDeletion(c)
    <2>1. UNCHANGED confirmed /\ (Finish(c) \/ pc' = [pc EXCEPT ![c] = "fresh"])
      BY <1>5 DEF EndDeletion, Goto
    <2> QED BY <1>0, <2>1 DEF TypeOK, Removing
  <1>6. CASE \/ WriteMarker(c) \/ Forget(c) \/ ForgetFails(c) \/ DeferCleanup(c)
             \/ Abort(c) \/ Crash(c) \/ RemovalFails(c)
    BY <1>0, <1>6 DEF WriteMarker, Forget, ForgetFails, DeferCleanup, Abort, Crash, RemovalFails,
                      history
  <1>7. CASE OpenRemoval(c) \/ OpenJatRemoval(c)
    BY <1>7 DEF OpenRemoval, OpenJatRemoval, history
  <1> QED BY <1>1, <1>2, <1>3, <1>4, <1>5, <1>6, <1>7 DEF Step

\* A client that did nothing keeps its part while the catalog only moves on.
LEMMA ConfirmOther ==
    ASSUME TypeOK, ConfirmInv, NEW d \in Clients,
           pc'[d] = pc[d], op'[d] = op[d], task'[d] = task[d], confirmed \subseteq confirmed',
           catalog' = catalog \/ catalog'.revision > catalog.revision,
           catalog' \in CatalogBody
    PROVE  ConfirmClient(d)'
  <1>0. ConfirmClient(d) /\ task[d].revision \in Nat /\ catalog.revision \in Nat
        /\ catalog'.revision \in Nat
    BY DEF ConfirmInv, TypeOK, Task, CatalogBody
  <1>1. pc[d] = "remove-open" /\ ExpectRevision => Shown(d)'
    <2> SUFFICES ASSUME pc[d] = "remove-open", ExpectRevision PROVE Shown(d)'
      OBVIOUS
    <2>1. Shown(d)
      BY <1>0 DEF ConfirmClient
    <2>2. CASE catalog' = catalog
      BY <2>1, <2>2 DEF Shown
    <2>3. CASE catalog'.revision > catalog.revision
      <3>1. task[d].revision < catalog'.revision
        BY <1>0, <2>1, <2>3 DEF Shown
      <3> QED BY <1>0, <3>1 DEF Shown
    <2> QED BY <2>2, <2>3
  <1> QED BY <1>0, <1>1 DEF ConfirmClient, Removing

\* Confirming a removal records what was shown.
LEMMA ConfirmRemovalConfirms ==
    ASSUME TypeOK, NEW c \in Clients, NEW room \in Rooms, ConfirmRemoval(c, room)
    PROVE  ConfirmClient(c)' /\ confirmed \subseteq confirmed'
  <1>1. PICK targets \in {RoomRecords(catalog, room)} \cup {{r} : r \in RoomRecords(catalog, room)} :
          /\ targets # {}
          /\ op'[c] \in {"remove", "remove-jat"} \cap Commands
          /\ task'[c] = [NoTask EXCEPT !.room = room, !.targets = RecordIds(targets),
                                       !.whole = (targets = RoomRecords(catalog, room)),
                                       !.revision = IF ExpectRevision THEN catalog.revision ELSE 0]
          /\ confirmed' = confirmed \cup RecordIds(targets)
    BY DEF ConfirmRemoval, TypeOK
  <1>2. RecordIds(targets) # {}
    BY <1>1 DEF RecordIds
  <1>3. /\ task'[c].targets = RecordIds(targets) /\ task'[c].room = room
        /\ task'[c].whole = (targets = RoomRecords(catalog, room))
        /\ ExpectRevision => task'[c].revision = catalog.revision
    BY <1>1 DEF NoTask
  <1>4. catalog' = catalog /\ catalog.revision \in Nat /\ pc'[c] = "remove-open"
    BY DEF ConfirmRemoval, remote, Goto, TypeOK, CatalogBody
  <1>5. ExpectRevision => Shown(c)'
    <2> SUFFICES ASSUME ExpectRevision PROVE Shown(c)'
      OBVIOUS
    <2>1. task'[c].revision <= catalog'.revision
      BY <1>3, <1>4
    <2>2. task'[c].whole => RecordIds(RoomRecords(catalog, room)) \subseteq task'[c].targets
      BY <1>3
    <2> QED BY <1>3, <1>4, <2>1, <2>2 DEF Shown
  <1> QED BY <1>1, <1>2, <1>3, <1>4, <1>5 DEF ConfirmClient, Removing

\* Opening a removal keeps to what was confirmed.
LEMMA OpenRemovalConfirmed ==
    ASSUME ExpectRevision \/ "remove-jat" \notin Commands,
           TypeOK, ConfirmInv, NEW c \in Clients, OpenRemoval(c) \/ OpenJatRemoval(c)
    PROVE  ConfirmClient(c)'
  <1>0. /\ task[c] \in Task /\ ConfirmClient(c) /\ pc[c] = "remove-open"
        /\ pc'[c] = "remove-publish" /\ op'[c] = op[c] /\ confirmed' = confirmed
    BY DEF ConfirmInv, OpenRemoval, OpenJatRemoval, Goto, history, TypeOK
  <1>1. /\ op[c] \in {"remove", "remove-jat"} \cap Commands
        /\ task[c].targets # {} /\ task[c].targets \subseteq confirmed
        /\ ExpectRevision => Shown(c)
    BY <1>0 DEF ConfirmClient, Removing
  <1>2. CASE OpenRemoval(c)
    <2>1. task'[c].targets = task[c].targets
      BY <1>0, <1>2 DEF OpenRemoval, TypeOK, Task
    <2> QED BY <1>0, <1>1, <2>1 DEF ConfirmClient, Removing
  <1>3. CASE OpenJatRemoval(c)
    <2>0. ExpectRevision /\ catalog.revision = task[c].revision
      BY <1>1, <1>3 DEF OpenJatRemoval, InventoryUnchanged
    <2> DEFINE present == RecordIds(RoomRecords(catalog, task[c].room))
    <2>1. PICK targets :
            /\ targets = IF task[c].whole THEN present ELSE task[c].targets
            /\ present # {}
            /\ task' = [task EXCEPT ![c].targets = targets,
                                    ![c].objects = RemovableObjects(catalog, task[c].room, targets)]
      BY <1>3 DEF OpenJatRemoval
    <2>2. task'[c].targets = targets
      BY <1>0, <2>1 DEF TypeOK, Task
    <2>3. task[c].whole => present \subseteq task[c].targets
      BY <1>1, <2>0 DEF Shown
    <2>4. targets # {} /\ targets \subseteq confirmed
      BY <1>1, <2>1, <2>3
    <2> QED BY <1>0, <1>1, <2>2, <2>4 DEF ConfirmClient, Removing
  <1> QED BY <1>2, <1>3

\* A request that removes only confirmed records keeps the invariant.
LEMMA SendConfirm ==
    ASSUME TypeOK, TypeOK', Ledger, ConfirmInv, NEW c \in Clients, NEW put \in Put, Sends(c, put),
           OpMove(c), UNCHANGED confirmed, Accepts(put) => Proper(put),
           put.removes \subseteq confirmed, put.adds = {} => put.removes # {}
    PROVE  ConfirmInv'
  <1>0. ~Removing(c)' /\ catalog' \in CatalogBody
    BY DEF Sends, Returns, Removing, TypeOK
  <1>1. ConfirmClient(c)'
    BY <1>0 DEF ConfirmClient, Removing
  <1>2. CASE Apply(put) /\ Accepts(put)
    <2>1. RecordIds(removed)' = RecordIds(removed) \cup put.removes
      BY <1>2, ApplyTotals
    <2>2. catalog'.revision > catalog.revision /\ inflight' = {}
      BY <1>2, RevisionGrows DEF Apply
    <2>3. ASSUME NEW d \in Clients, d # c PROVE ConfirmClient(d)'
      BY <1>0, <2>2, <2>3, ConfirmOther DEF Sends, Returns, Others, OpMove
    <2> QED BY <1>1, <2>1, <2>2, <2>3 DEF ConfirmInv, OnlyConfirmedRemoved
  <1>3. CASE /\ UNCHANGED <<etag, catalog, age, removed>>
             /\ \A p \in inflight' \ inflight : p = put /\ Accepts(put)
    <2>1. ASSUME NEW d \in Clients, d # c PROVE ConfirmClient(d)'
      BY <1>0, <1>3, <2>1, ConfirmOther DEF Sends, Returns, Others, OpMove
    <2> QED BY <1>1, <1>3, <2>1 DEF ConfirmInv, OnlyConfirmedRemoved
  <1> QED BY <1>2, <1>3 DEF Sends

\* Every step takes out only what was confirmed.
LEMMA ConfirmStep ==
    ASSUME ExpectRevision \/ "remove-jat" \notin Commands,
           TypeOK, TypeOK', Ledger, ConfirmInv, [Next]_vars
    PROVE  ConfirmInv'
  <1>1. CASE DeliverLate
    <2>1. PICK put \in inflight : Apply(put)
      BY <1>1 DEF DeliverLate
    <2>2. /\ UNCHANGED <<pc, op, task, confirmed>> /\ put \in Put /\ Proper(put)
          /\ put.removes \subseteq confirmed /\ (put.adds = {} => put.removes # {})
      BY <1>1, <2>1 DEF DeliverLate, local, TypeOK, Ledger, ConfirmInv
    <2>3. RecordIds(removed)' = RecordIds(removed) \cup put.removes
      BY <2>1, <2>2, ApplyTotals
    <2>4. catalog'.revision > catalog.revision /\ inflight' = {} /\ catalog' \in CatalogBody
      BY <2>1, <2>2, RevisionGrows DEF Apply, TypeOK
    <2>5. ASSUME NEW d \in Clients PROVE ConfirmClient(d)'
      BY <2>2, <2>4, ConfirmOther
    <2> QED BY <2>2, <2>3, <2>4, <2>5 DEF ConfirmInv, OnlyConfirmedRemoved
  <1>2. ASSUME NEW c \in Clients, Step(c)
        PROVE  ConfirmInv'
    <2>0. PublishRequest(c) \in Put /\ RemoveRequest(c) \in Put /\ OpMove(c)
      BY <1>2, RequestTypes, TypeParts, OpMoves
    <2>1. CASE Local(c)
      <3>1. ConfirmClient(c)' /\ confirmed \subseteq confirmed'
        <4>1. CASE ~Removing(c)' /\ UNCHANGED confirmed
          BY <4>1 DEF ConfirmClient, Removing
        <4> QED BY <1>2, <4>1, RemovalMoves, ConfirmRemovalConfirms, OpenRemovalConfirmed
      <3>2. ASSUME NEW d \in Clients, d # c PROVE ConfirmClient(d)'
        BY <2>0, <2>1, <3>1, <3>2, ConfirmOther DEF Local, Others, OpMove, TypeOK
      <3>3. UNCHANGED <<removed, inflight>>
        BY <2>1 DEF Local
      <3> QED BY <3>1, <3>2, <3>3 DEF ConfirmInv, OnlyConfirmedRemoved
    <2>2. CASE ~Local(c)
      <3>1. UNCHANGED confirmed
        BY <1>2, <2>2, LocalSteps DEF Puts, Publish, PublishFails, PublishRemoval, RemovalFails, Crash
      <3>2. CASE pc[c] = "publish" /\ Sends(c, PublishRequest(c))
        <4>1. PublishRequest(c).removes = {} /\ PublishRequest(c).adds # {}
          BY DEF PublishRequest
        <4> QED BY <2>0, <3>1, <3>2, <4>1, PublishProper, SendConfirm
      <3>3. CASE pc[c] = "remove-publish" /\ Sends(c, RemoveRequest(c))
        <4>1. RemoveRequest(c).removes # {} /\ RemoveRequest(c).removes \subseteq confirmed
          BY <3>3 DEF RemoveRequest, ConfirmInv, ConfirmClient, Removing
        <4> QED BY <2>0, <3>1, <3>3, <4>1, RemoveProper, SendConfirm
      <3> QED BY <1>2, <2>2, <3>2, <3>3, LocalSteps, SendSteps
    <2> QED BY <2>1, <2>2
  <1>3. CASE UNCHANGED vars
    BY <1>3 DEF vars, remote, local, history, ConfirmInv, OnlyConfirmedRemoved, ConfirmClient,
                Removing, Shown
  <1> QED BY <1>1, <1>2, <1>3 DEF Next

\* Nothing has been removed at the start.
LEMMA ConfirmInit == Init => ConfirmInv
  BY DEF Init, ConfirmInv, OnlyConfirmedRemoved, RecordIds, ConfirmClient, Removing

\* When the removals are told which revision the user was shown, or portable
\* JATs are not removed at all, an applied removal takes out only records the
\* user was shown: a recovery point saved between confirmation and removal
\* survives, however late the PUT arrives (_assert_expected_delete_state,
\* remove_room, remove_logical_catalog_records).
THEOREM OnlyConfirmedAreRemoved ==
    ASSUME ExpectRevision \/ "remove-jat" \notin Commands
    PROVE  Spec => []OnlyConfirmedRemoved
  <1>1. TypeOK /\ Ledger /\ [Next]_vars => Ledger'
    BY LedgerStep
  <1>2. TypeOK /\ TypeOK' /\ Ledger /\ ConfirmInv /\ [Next]_vars => ConfirmInv'
    BY ConfirmStep
  <1>3. ConfirmInv => OnlyConfirmedRemoved
    BY DEF ConfirmInv
  <1> QED BY <1>1, <1>2, <1>3, LedgerInit, ConfirmInit, TypeCorrect, PTL DEF Spec
=============================================================================
