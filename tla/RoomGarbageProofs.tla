------------------------- MODULE RoomGarbageProofs -------------------------
(***************************************************************************)
(* What TLAPS proves about the Restic snapshots that removals leave        *)
(* behind: none of them is forgotten about.                                *)
(***************************************************************************)
EXTENDS RoomLedgerProofs

-----------------------------------------------------------------------------
(***************************************************************************)
(* The inductive invariant.  A snapshot that an applied PUT makes          *)
(* unreachable is claimed by the removal that sent it, or the removal has  *)
(* already named it in a receipt, died or was told that it was refused; a  *)
(* removal gives up its claim only by forgetting the snapshot, by leaving  *)
(* it in a receipt, by dying or by believing such an answer.  No two       *)
(* removals claim the same snapshot, so finishing one receipt does not     *)
(* strike out another's.                                                   *)
(***************************************************************************)
Snapshots(records) == UNION {r.restic : r \in records}

\* The snapshots that removals at work will forget.
Claimed == UNION {task[c].restic : c \in Collecting}

\* Every removed snapshot that is stored is named, claimed, noted or lost.
AllAccounted ==
    \A s \in Snapshots(removed) :
        s \in stored => s \in Snapshots(catalog.records) \cup todo \cup lost \cup Claimed

\* What a request would make unreachable.
Unlinks(put) == Snapshots(catalog.records) \ Snapshots(put.body.records)

\* A portable-JAT removal of an unchanged catalog meets no native record.
TargetsPlain(c) ==
    pc[c] = "remove-open" /\ op[c] = "remove-jat" /\ ExpectRevision
      /\ task[c].revision = catalog.revision =>
         \A r \in RoomRecords(catalog, task[c].room) : r.id \in task[c].targets => r.kind = "legacy"

\* A removal plans for everything its request makes unreachable.
PlanCovers(c) ==
    pc[c] = "remove-publish" =>
      Snapshots(seen[c].body.records)
        \ Snapshots(RemoveRecords(seen[c].body, task[c].room, task[c].targets).records)
        \subseteq task[c].restic

\* The part of the invariant that one client keeps.
GarbageClient(c) ==
    /\ Pending(c) => Plain(draft[c])
    /\ TargetsPlain(c)
    /\ PlanCovers(c)
    /\ pc[c] \in {"fresh", "descriptors", "forget"} => task[c].restic \subseteq todo
    /\ pc[c] \in {"descriptors", "forget"} =>
         task[c].restic \cap Snapshots(seen[c].body.records) = {}
    /\ c \in Collecting \/ pc[c] = "remove-publish" => op[c] = "remove" \/ task[c].restic = {}

\* No two removals claim the same snapshot.
ClaimsDisjoint ==
    \A c, d \in Collecting : c # d => task[c].restic \cap task[d].restic = {}

\* The inductive invariant.
GarbageInv ==
    /\ AllAccounted
    /\ Numbered(Snapshots(removed))
    /\ \A r \in catalog.records : Plain(r)
    /\ \A put \in inflight : /\ \A r \in put.body.records : Plain(r)
                             /\ Unlinks(put) \subseteq todo \cup lost
    /\ \A c \in Clients : GarbageClient(c)
    /\ ClaimsDisjoint

-----------------------------------------------------------------------------
\* Snapshots that the catalog names are named and claimed by nobody.
LEMMA ReachableUnclaimed ==
    ASSUME SafetyInvariant
    PROVE  /\ Snapshots(catalog.records) \cap Claimed = {}
           /\ Numbered(Snapshots(catalog.records))
  <1>1. Snapshots(catalog.records) \subseteq AllReferences(catalog.records)
    BY DEF Snapshots, AllReferences, References
  <1>2. Claimed \subseteq Doomed
    BY DEF Claimed, Doomed
  <1>3. AllReferences(catalog.records) \cap Doomed = {} /\ Numbered(AllReferences(catalog.records))
    BY DEF SafetyInvariant, CatalogSafe, Numbered
  <1> QED BY <1>1, <1>2, <1>3 DEF Numbered

\* More records name more snapshots.
LEMMA SnapshotsMonotone ==
    ASSUME NEW S, NEW T, S \subseteq T
    PROVE  Snapshots(S) \subseteq Snapshots(T)
  BY DEF Snapshots

\* The snapshots of a union.
LEMMA SnapshotsUnion ==
    ASSUME NEW S, NEW T
    PROVE  Snapshots(S \cup T) = Snapshots(S) \cup Snapshots(T)
  BY DEF Snapshots

\* A client that did nothing keeps its part, unless its receipt is struck out.
LEMMA GarbageOther ==
    ASSUME TypeOK, TypeOK', ConfirmInv, GarbageInv, NEW d \in Clients,
           pc'[d] = pc[d], op'[d] = op[d], seen'[d] = seen[d],
           draft'[d] = draft[d], task'[d] = task[d],
           catalog' = catalog \/ catalog'.revision > catalog.revision,
           pc[d] \in {"fresh", "descriptors", "forget"} => task[d].restic \subseteq todo'
    PROVE  GarbageClient(d)'
  <1>0. /\ GarbageClient(d) /\ ConfirmClient(d)
        /\ task[d].revision \in Nat /\ catalog.revision \in Nat /\ catalog'.revision \in Nat
    BY DEF GarbageInv, ConfirmInv, TypeOK, Task, CatalogBody
  <1>1. TargetsPlain(d)'
    <2>1. CASE catalog' = catalog
      BY <1>0, <2>1 DEF GarbageClient, TargetsPlain
    <2>2. CASE catalog'.revision > catalog.revision
      <3>1. pc[d] = "remove-open" /\ ExpectRevision => task[d].revision < catalog'.revision
        BY <1>0, <2>2 DEF ConfirmClient, Shown
      <3> QED BY <1>0, <3>1 DEF TargetsPlain
    <2> QED BY <2>1, <2>2
  <1>2. PlanCovers(d)'
    BY <1>0 DEF GarbageClient, PlanCovers
  <1>3. (d \in Collecting)' <=> d \in Collecting
    BY DEF Collecting
  <1>4. (Pending(d))' <=> Pending(d)
    BY DEF Pending
  <1> QED BY <1>0, <1>1, <1>2, <1>3, <1>4 DEF GarbageClient

\* A client outside the removal steps has nothing to show.
LEMMA GarbageIdle ==
    ASSUME NEW c \in Clients, pc'[c] \in {"idle", "marker"}
    PROVE  GarbageClient(c)'
  BY DEF GarbageClient, Pending, TargetsPlain, PlanCovers, Collecting

\* Only those who go on collecting claim anything.
LEMMA ClaimsShrink ==
    ASSUME ClaimsDisjoint, NEW c \in Clients, Others(c),
           c \in Collecting' => c \in Collecting /\ task'[c].restic = task[c].restic
    PROVE  ClaimsDisjoint'
  <1>1. \A d \in Collecting' : d \in Collecting /\ task'[d].restic = task[d].restic
    BY DEF Collecting, Others
  <1> QED BY <1>1 DEF ClaimsDisjoint

-----------------------------------------------------------------------------
(* The three kinds of step.                                                *)

\* A step that keeps every claim and every receipt.
Benign(c) ==
    /\ Local(c) /\ OpMove(c)
    /\ todo \subseteq todo' /\ UNCHANGED lost
    /\ \A a \in stored' \ stored : a[2] \notin used \/ a \in Object
    /\ c \in Collecting' <=> c \in Collecting
    /\ c \in Collecting => task'[c].restic = task[c].restic

\* A benign step keeps the invariant if its client keeps its part.
LEMMA BenignGarbage ==
    ASSUME TypeOK, TypeOK', SafetyInvariant, ConfirmInv, GarbageInv, NEW c \in Clients,
           Benign(c), GarbageClient(c)'
    PROVE  GarbageInv'
  <1>1. /\ UNCHANGED <<etag, catalog, inflight, age, removed, lost>> /\ used \subseteq used'
        /\ Others(c) /\ OpMove(c) /\ todo \subseteq todo'
    BY DEF Benign, Local
  <1>2. Claimed \subseteq Claimed'
    <2> SUFFICES ASSUME NEW d \in Collecting
                 PROVE  d \in Collecting' /\ task'[d].restic = task[d].restic
      BY DEF Claimed
    <2> QED BY <1>1 DEF Benign, Others, Collecting
  <1>3. AllAccounted'
    <2> SUFFICES ASSUME NEW s \in Snapshots(removed), s \in stored'
                 PROVE  s \in Snapshots(catalog.records) \cup todo' \cup lost \cup Claimed'
      BY <1>1 DEF AllAccounted
    <2>1. s[2] \in used /\ s \in Snapshot
      BY DEF GarbageInv, Numbered, Snapshots, TypeOK, Record
    <2>2. s \in stored
      BY <2>1, TagsDisjoint DEF Benign
    <2> QED BY <1>1, <1>2, <2>2 DEF GarbageInv, AllAccounted
  <1>4. ASSUME NEW d \in Clients, d # c PROVE GarbageClient(d)'
    <2>1. pc[d] \in {"fresh", "descriptors", "forget"} => task[d].restic \subseteq todo'
      BY <1>1 DEF GarbageInv, GarbageClient
    <2> QED BY <1>1, <1>4, <2>1, GarbageOther DEF Others, OpMove
  <1>5. ClaimsDisjoint'
    BY <1>1, ClaimsShrink DEF GarbageInv, Benign
  <1>6. Numbered(Snapshots(removed))'
    BY <1>1 DEF GarbageInv, Numbered
  <1>7. \A put \in inflight : Unlinks(put)' = Unlinks(put)
    BY <1>1 DEF Unlinks
  <1> QED BY <1>1, <1>3, <1>4, <1>5, <1>6, <1>7 DEF GarbageInv

\* The snapshots a client claims.
Claims(c) == IF c \in Collecting THEN task[c].restic ELSE {}

\* A client that leaves: what it claimed is forgotten or in a receipt, and
\* what it was sending is in a receipt.
LEMMA LeaveGarbage ==
    ASSUME TypeOK, TypeOK', SafetyInvariant, ConfirmInv, GarbageInv, NEW c \in Clients,
           Others(c), OpMove(c), pc'[c] \in {"idle", "marker"},
           UNCHANGED <<catalog, removed, used>>,
           stored' \subseteq stored, lost \subseteq lost',
           todo \ Claims(c) \subseteq todo',
           Claims(c) \cap stored' \subseteq todo' \cup lost',
           \A put \in inflight' \ inflight : /\ \A r \in put.body.records : Plain(r)
                                             /\ Unlinks(put) \subseteq todo' \cup lost'
    PROVE  GarbageInv'
  <1>0. /\ Claims(c) \subseteq Claimed
        /\ Snapshots(catalog.records) \cap Claimed = {}
    BY ReachableUnclaimed DEF Claims, Claimed
  <1>1. \A d \in Collecting \ {c} : d \in Collecting' /\ task'[d].restic = task[d].restic
    BY DEF Collecting, Others
  <1>2. AllAccounted'
    <2> SUFFICES ASSUME NEW s \in Snapshots(removed), s \in stored'
                 PROVE  s \in Snapshots(catalog.records) \cup todo' \cup lost' \cup Claimed'
      BY DEF AllAccounted
    <2>1. s \in Snapshots(catalog.records) \cup todo \cup lost \cup Claimed
      BY DEF GarbageInv, AllAccounted
    <2>2. CASE s \in Claims(c)
      BY <2>2
    <2>3. CASE s \in Claimed \ Claims(c)
      <3>1. PICK d \in Collecting : s \in task[d].restic
        BY <2>3 DEF Claimed
      <3>2. d # c
        BY <2>3, <3>1 DEF Claims
      <3> QED BY <1>1, <3>1, <3>2 DEF Claimed
    <2> QED BY <2>1, <2>2, <2>3
  <1>3. ASSUME NEW d \in Clients, d # c PROVE GarbageClient(d)'
    <2>1. pc[d] \in {"fresh", "descriptors", "forget"} => task[d].restic \subseteq todo'
      <3> SUFFICES ASSUME pc[d] \in {"fresh", "descriptors", "forget"} PROVE task[d].restic \subseteq todo'
        OBVIOUS
      <3>1. task[d].restic \subseteq todo
        BY DEF GarbageInv, GarbageClient
      <3>2. d \in Collecting
        BY DEF Collecting
      <3>3. task[d].restic \cap Claims(c) = {}
        BY <1>3, <3>2 DEF Claims, GarbageInv, ClaimsDisjoint
      <3> QED BY <3>1, <3>3
    <2> QED BY <1>3, <2>1, GarbageOther DEF Others, OpMove
  <1>4. GarbageClient(c)'
    BY GarbageIdle
  <1>5. c \notin Collecting'
    BY DEF Collecting
  <1>6. ClaimsDisjoint'
    BY <1>5, ClaimsShrink DEF GarbageInv
  <1>7. ASSUME NEW put \in inflight'
        PROVE  (\A r \in put.body.records : Plain(r)) /\ Unlinks(put)' \subseteq todo' \cup lost'
    <2>1. Unlinks(put)' = Unlinks(put) /\ Unlinks(put) \subseteq Snapshots(catalog.records)
      BY DEF Unlinks
    <2>2. CASE put \in inflight
      <3>1. (\A r \in put.body.records : Plain(r)) /\ Unlinks(put) \subseteq todo \cup lost
        BY <2>2 DEF GarbageInv
      <3> QED BY <1>0, <2>1, <3>1
    <2>3. CASE put \notin inflight
      BY <2>1, <2>3
    <2> QED BY <2>2, <2>3
  <1>8. Numbered(Snapshots(removed))' /\ \A r \in catalog'.records : Plain(r)
    BY DEF GarbageInv, Numbered
  <1> QED BY <1>2, <1>3, <1>4, <1>6, <1>7, <1>8 DEF GarbageInv

\* A PUT that is applied: what it makes unreachable is claimed or recorded.
LEMMA ApplyGarbage ==
    ASSUME TypeOK, TypeOK', SafetyInvariant, ConfirmInv, GarbageInv, NEW put \in Put,
           Proper(put), Apply(put), put.adds = {} => put.removes # {},
           UNCHANGED <<stored, used, lost>>, todo \subseteq todo',
           \A r \in put.body.records : Plain(r),
           Unlinks(put) \subseteq todo' \cup lost \cup Claimed',
           \A d \in Clients :
             \/ /\ pc'[d] = pc[d] /\ op'[d] = op[d] /\ seen'[d] = seen[d]
                /\ draft'[d] = draft[d] /\ task'[d] = task[d]
             \/ d \notin Collecting /\ GarbageClient(d)',
           ClaimsDisjoint'
    PROVE  GarbageInv'
  <1>1. /\ catalog' = put.body /\ inflight' = {}
        /\ removed' = removed \cup {r \in catalog.records : r.id \in put.removes}
    BY DEF Apply
  <1>2. catalog'.revision > catalog.revision
    BY <1>1, RevisionGrows
  <1>3. Claimed \subseteq Claimed'
    <2> SUFFICES ASSUME NEW d \in Collecting
                 PROVE  d \in Collecting' /\ task'[d].restic = task[d].restic
      BY DEF Claimed
    <2> QED BY DEF Collecting
  <1>4. Snapshots(removed') \subseteq Snapshots(removed) \cup Snapshots(catalog.records)
    BY <1>1 DEF Snapshots
  <1>5. AllAccounted'
    <2> SUFFICES ASSUME NEW s \in Snapshots(removed'), s \in stored
                 PROVE  s \in Snapshots(catalog'.records) \cup todo' \cup lost \cup Claimed'
      BY DEF AllAccounted
    <2>1. s \in Snapshots(catalog.records) \cup todo \cup lost \cup Claimed
      BY <1>4 DEF GarbageInv, AllAccounted
    <2>2. s \in Snapshots(catalog.records) => s \in Snapshots(catalog'.records) \/ s \in Unlinks(put)
      BY <1>1 DEF Unlinks
    <2> QED BY <1>3, <2>1, <2>2
  <1>6. Numbered(Snapshots(removed))'
    <2>1. Numbered(Snapshots(removed)) /\ Numbered(Snapshots(catalog.records))
      BY ReachableUnclaimed DEF GarbageInv
    <2> QED BY <1>4, <2>1 DEF Numbered
  <1>7. ASSUME NEW d \in Clients PROVE GarbageClient(d)'
    <2>1. CASE /\ pc'[d] = pc[d] /\ op'[d] = op[d] /\ seen'[d] = seen[d]
               /\ draft'[d] = draft[d] /\ task'[d] = task[d]
      <3>1. pc[d] \in {"fresh", "descriptors", "forget"} => task[d].restic \subseteq todo'
        BY DEF GarbageInv, GarbageClient
      <3> QED BY <1>2, <2>1, <3>1, GarbageOther
    <2> QED BY <2>1
  <1> QED BY <1>1, <1>5, <1>6, <1>7 DEF GarbageInv

-----------------------------------------------------------------------------
(* The steps.                                                              *)

\* Without stream copies the steps of one do not happen.
LEMMA NoStreamActions ==
    ASSUME "stream-copy" \notin Commands, SafetyInvariant, NEW c \in Clients
    PROVE  /\ \A room \in Rooms : ~ReadStreamSource(c, room)
           /\ ~ReadStreamDestination(c) /\ ~TransferStream(c)
           /\ pc[c] # "stream-transfer"
  <1>1. pc[c] \notin {"stream-destination", "stream-transfer"}
    BY DEF SafetyInvariant, ClientSafe
  <1> QED BY <1>1 DEF ReadStreamSource, ReadStreamDestination, TransferStream

\* The steps of a publication up to its PUT store only new artifacts.
LEMMA DraftGarbage ==
    ASSUME TypeOK, TypeOK', SafetyInvariant, ConfirmInv, GarbageInv, NEW c \in Clients,
           Local(c), OpMove(c), UNCHANGED <<todo, lost>>,
           pc[c] \notin {"remove-verify", "delete", "fresh", "descriptors", "forget", "stream-transfer"},
           pc'[c] \in {"backup", "copy-destination", "create-catalog", "descriptor", "publish"},
           \A a \in stored' \ stored : a[2] \notin used \/ a \in Object
    PROVE  GarbageInv'
  <1>1. c \notin Collecting /\ c \notin Collecting'
    BY DEF Collecting
  <1>2. Pending(c)' => Plain(draft[c])'
    BY DEF Local, GarbageInv, GarbageClient
  <1>3. GarbageClient(c)'
    BY <1>1, <1>2 DEF GarbageClient, TargetsPlain, PlanCovers
  <1>4. Benign(c)
    BY <1>1 DEF Benign
  <1> QED BY <1>3, <1>4, BenignGarbage

\* Those steps, one by one.
LEMMA DraftSteps ==
    ASSUME TypeOK, TypeOK', SafetyInvariant, ConfirmInv, GarbageInv, NEW c \in Clients, Step(c),
           \/ \E room \in Rooms : \/ \E command \in Commands : OpenForSave(c, command, room)
                                  \/ OpenCopySource(c, room) \/ UploadSnapshot(c, room)
           \/ Backup(c) \/ PutDescriptor(c) \/ OpenCopyDestination(c) \/ ReadCatalogForCreate(c)
    PROVE  GarbageInv'
  <1>0. OpMove(c)
    BY OpMoves
  <1>1. UNCHANGED <<todo, lost>>
    BY DEF OpenForSave, OpenCopySource, UploadSnapshot, Backup, PutDescriptor,
           OpenCopyDestination, ReadCatalogForCreate, reports, history
  <1>2. /\ pc[c] \in {"idle", "backup", "descriptor", "copy-destination", "create-catalog"}
        /\ pc'[c] \in {"backup", "copy-destination", "create-catalog", "descriptor", "publish"}
    BY DEF OpenForSave, OpenCopySource, UploadSnapshot, Backup, PutDescriptor,
           OpenCopyDestination, ReadCatalogForCreate, Goto, TypeOK
  <1>3. \A a \in stored' \ stored : a[2] \notin used \/ a \in Object
    <2>1. CASE \E room \in Rooms : UploadSnapshot(c, room)
      BY <2>1 DEF UploadSnapshot, Object, OptId
    <2>2. CASE Backup(c)
      <3>1. PICK i \in Ids \ used : \E restic : stored' = stored \cup {a \in restic : a[2] = i}
        BY <2>2 DEF Backup
      <3> QED BY <3>1
    <2>3. CASE PutDescriptor(c)
      <3>1. draft[c].object \in Object
        BY DEF TypeOK, Record
      <3> QED BY <2>3, <3>1 DEF PutDescriptor
    <2>4. CASE \/ \E room \in Rooms : \/ \E command \in Commands : OpenForSave(c, command, room)
                                      \/ OpenCopySource(c, room)
               \/ OpenCopyDestination(c) \/ ReadCatalogForCreate(c)
      BY <2>4 DEF OpenForSave, OpenCopySource, OpenCopyDestination, ReadCatalogForCreate, remote
    <2> QED BY <2>1, <2>2, <2>3, <2>4
  <1>4. Local(c)
    <2>1. ~Puts(c)
      BY <1>2 DEF Puts, Publish, PublishFails, PublishRemoval, RemovalFails
    <2>2. ~Crash(c)
      BY <1>2 DEF Crash, Finish, TypeOK
    <2> QED BY <2>1, <2>2, LocalSteps
  <1> QED BY <1>0, <1>1, <1>2, <1>3, <1>4, DraftGarbage

\* A confirmed portable-JAT removal was shown no native record.
LEMMA ConfirmRemovalGarbage ==
    ASSUME TypeOK, TypeOK', SafetyInvariant, Ledger, ConfirmInv, GarbageInv, NEW c \in Clients,
           Step(c), NEW room \in Rooms, ConfirmRemoval(c, room)
    PROVE  GarbageInv'
  <1>1. PICK targets \in {RoomRecords(catalog, room)} \cup {{r} : r \in RoomRecords(catalog, room)} :
          /\ op'[c] = IF \E r \in targets : r.kind = "native" THEN "remove" ELSE "remove-jat"
          /\ task'[c] = [NoTask EXCEPT !.room = room, !.targets = RecordIds(targets),
                                       !.whole = (targets = RoomRecords(catalog, room)),
                                       !.revision = IF ExpectRevision THEN catalog.revision ELSE 0]
    BY DEF ConfirmRemoval, TypeOK
  <1>2. task'[c].targets = RecordIds(targets) /\ task'[c].room = room
    BY <1>1 DEF NoTask
  <1>3. /\ pc[c] = "idle" /\ pc'[c] = "remove-open"
        /\ UNCHANGED <<catalog, stored, todo, lost>>
    BY DEF ConfirmRemoval, Goto, remote, reports, TypeOK
  <1>4. TargetsPlain(c)'
    <2> SUFFICES ASSUME op'[c] = "remove-jat", NEW r \in RoomRecords(catalog, room),
                        r.id \in RecordIds(targets)
                 PROVE  r.kind = "legacy"
      BY <1>2, <1>3 DEF TargetsPlain
    <2>1. PICK t \in targets : t.id = r.id
      BY DEF RecordIds
    <2>2. t \in catalog.records /\ r \in catalog.records
      BY DEF RoomRecords
    <2>3. t = r
      BY <2>1, <2>2 DEF Ledger, CatalogWellFormed
    <2>4. r.kind \in {"native", "legacy"}
      BY <2>2 DEF TypeOK, CatalogBody, Record
    <2> QED BY <1>1, <2>3, <2>4
  <1>5. c \notin Collecting /\ c \notin Collecting'
    BY <1>3 DEF Collecting
  <1>6. GarbageClient(c)'
    BY <1>3, <1>4, <1>5 DEF GarbageClient, Pending, PlanCovers
  <1>7. Local(c) /\ OpMove(c)
    BY <1>3, LocalSteps, OpMoves
       DEF Puts, Publish, PublishFails, PublishRemoval, RemovalFails, Crash
  <1>8. Benign(c)
    BY <1>3, <1>5, <1>7 DEF Benign
  <1> QED BY <1>6, <1>8, BenignGarbage

\* A removal plans to forget every snapshot that it makes unreachable.
LEMMA OpenRemovalGarbage ==
    ASSUME ExpectRevision \/ "remove-jat" \notin Commands,
           TypeOK, TypeOK', SafetyInvariant, ConfirmInv, GarbageInv, NEW c \in Clients,
           Step(c), OpenRemoval(c) \/ OpenJatRemoval(c)
    PROVE  GarbageInv'
  <1>0. task[c] \in Task /\ GarbageClient(c) /\ ConfirmClient(c)
    BY DEF TypeOK, GarbageInv, ConfirmInv
  <1>1. /\ pc[c] = "remove-open" /\ pc'[c] = "remove-publish"
        /\ seen'[c] = [etag |-> etag, body |-> catalog]
        /\ UNCHANGED <<catalog, stored, todo, lost>>
    BY DEF OpenRemoval, OpenJatRemoval, Goto, ReadCatalog, remote, reports, history, TypeOK
  <1> DEFINE Covered ==
        Snapshots(catalog.records)
          \ Snapshots(RemoveRecords(catalog, task'[c].room, task'[c].targets).records)
          \subseteq task'[c].restic
  <1>3. ASSUME OpenRemoval(c) PROVE Covered
    <2>1. /\ task'[c].targets = task[c].targets /\ task'[c].room = task[c].room
          /\ task'[c].restic = UnreachableSnapshots(catalog, task[c].room, task[c].targets)
      BY <1>0, <1>3 DEF OpenRemoval, TypeOK, Task
    <2> DEFINE kept == RemoveRecords(catalog, task[c].room, task[c].targets).records
    <2>2. Snapshots(catalog.records) \ Snapshots(kept) \subseteq task'[c].restic
      <3>1. task'[c].restic
              = (UNION {r.restic : r \in catalog.records \ kept}) \ (UNION {r.restic : r \in kept})
        BY <2>1 DEF UnreachableSnapshots
      <3> HIDE DEF kept
      <3> QED BY <3>1 DEF Snapshots
    <2> QED BY <2>1, <2>2
  <1>4. ASSUME OpenJatRemoval(c) PROVE Covered
    <2>0. /\ op[c] = "remove-jat" /\ ExpectRevision /\ catalog.revision = task[c].revision
      BY <1>0, <1>1, <1>4 DEF OpenJatRemoval, InventoryUnchanged, ConfirmClient, Removing
    <2> DEFINE present == RecordIds(RoomRecords(catalog, task[c].room))
    <2>1. PICK targets :
            /\ targets = IF task[c].whole THEN present ELSE task[c].targets
            /\ task' = [task EXCEPT ![c].targets = targets,
                                    ![c].objects = RemovableObjects(catalog, task[c].room, targets)]
      BY <1>4 DEF OpenJatRemoval
    <2>2. task'[c].targets = targets /\ task'[c].room = task[c].room
      BY <1>0, <2>1 DEF TypeOK, Task
    <2>3. targets \subseteq task[c].targets
      BY <1>0, <1>1, <2>0, <2>1 DEF ConfirmClient, Shown
    <2>4. \A r \in RoomRecords(catalog, task[c].room) : r.id \in targets => r.kind = "legacy"
      BY <1>0, <1>1, <2>0, <2>3 DEF GarbageClient, TargetsPlain
    <2> DEFINE kept == RemoveRecords(catalog, task[c].room, targets).records
    <2>5. \A r \in catalog.records \ kept : r.restic = {}
      <3>1. \A r \in catalog.records \ kept : r \in RoomRecords(catalog, task[c].room) /\ r.id \in targets
        BY DEF RemoveRecords, RoomRecords
      <3> QED BY <2>4, <3>1 DEF GarbageInv, Plain
    <2>6. Snapshots(catalog.records) \ Snapshots(kept) = {}
      <3> HIDE DEF kept
      <3> QED BY <2>5 DEF Snapshots
    <2> QED BY <2>2, <2>6
  <1>5. PlanCovers(c)'
    <2>1. seen'[c].body = catalog
      BY <1>1
    <2>2. Covered
      BY <1>3, <1>4
    <2> QED BY <2>1, <2>2 DEF PlanCovers
  <1>6. c \notin Collecting /\ c \notin Collecting'
    BY <1>1 DEF Collecting
  <1>6a. op'[c] = "remove" \/ task'[c].restic = {}
    <2>1. CASE OpenRemoval(c)
      BY <2>1 DEF OpenRemoval
    <2>2. CASE OpenJatRemoval(c)
      <3>1. task[c].restic = {}
        BY <1>1 DEF SafetyInvariant, ClientSafe, RemovalPlanned
      <3>2. PICK targets :
              task' = [task EXCEPT ![c].targets = targets,
                                   ![c].objects = RemovableObjects(catalog, task[c].room, targets)]
        BY <2>2 DEF OpenJatRemoval
      <3> QED BY <1>0, <3>1, <3>2 DEF TypeOK, Task
    <2> QED BY <2>1, <2>2
  <1>7. GarbageClient(c)'
    BY <1>1, <1>5, <1>6, <1>6a DEF GarbageClient, Pending, TargetsPlain
  <1>8. Local(c) /\ OpMove(c)
    BY <1>1, LocalSteps, OpMoves
       DEF Puts, Publish, PublishFails, PublishRemoval, RemovalFails, Crash, Finish, TypeOK
  <1>9. Benign(c)
    BY <1>1, <1>6, <1>8 DEF Benign
  <1> QED BY <1>7, <1>9, BenignGarbage

\* A verified removal, deleting objects, leaving the receipt, reading the
\* catalog afresh and loading its descriptors keep the claim.
LEMMA CollectingGarbage ==
    ASSUME TypeOK, TypeOK', SafetyInvariant, ConfirmInv, GarbageInv, NEW c \in Clients, Step(c),
           \/ VerifyRemoval(c) /\ pc'[c] = "delete"
           \/ DeleteObject(c) \/ (EndDeletion(c) /\ op[c] = "remove")
           \/ OpenFresh(c) \/ LoadDescriptors(c)
    PROVE  GarbageInv'
  <1>0. task[c] \in Task /\ GarbageClient(c)
    BY DEF TypeOK, GarbageInv
  <1>a. ASSUME VerifyRemoval(c), pc'[c] = "delete"
        PROVE  /\ pc[c] = "remove-verify" /\ stored' = stored /\ todo \subseteq todo'
               /\ UNCHANGED <<catalog, lost, op, task>>
    <2>1. PICK outcome \in Answers(c) :
            /\ todo' = todo \cup RemovalReceipt(c, outcome)
            /\ lost' = IF outcome = "rejected" THEN lost \cup task[c].restic ELSE lost
            /\ IF RemovalConfirmed(outcome)
               THEN Goto(c, "delete") /\ Release(c) /\ UNCHANGED <<op, draft, task>>
               ELSE Finish(c)
      BY <1>a DEF VerifyRemoval
    <2>2. outcome = "committed"
      BY <1>a, <2>1 DEF RemovalConfirmed, Finish, TypeOK
    <2> QED BY <1>a, <2>1, <2>2 DEF VerifyRemoval, RemovalConfirmed, remote
  <1>1. /\ pc[c] \in {"remove-verify", "delete", "fresh", "descriptors"}
        /\ pc'[c] \in {"delete", "fresh", "descriptors", "forget"}
        /\ stored' \subseteq stored /\ todo \subseteq todo' /\ op'[c] = op[c]
        /\ UNCHANGED <<catalog, lost>>
    BY <1>a DEF DeleteObject, EndDeletion, OpenFresh, LoadDescriptors, Goto, remote, reports,
                history, TypeOK
  <1>2. task'[c].restic = task[c].restic
    <2>1. CASE DeleteObject(c)
      <3>1. PICK o : \/ task' = [task EXCEPT ![c].objects = @ \ {o}]
                     \/ task' = [task EXCEPT ![c].objects = @ \ {o}, ![c].failed = @ \cup {o}]
        BY <2>1 DEF DeleteObject
      <3> QED BY <1>0, <3>1 DEF TypeOK, Task
    <2> QED BY <1>a, <2>1 DEF EndDeletion, OpenFresh, LoadDescriptors
  <1>3. pc'[c] \in {"fresh", "descriptors", "forget"} => task[c].restic \subseteq todo'
    <2>1. CASE DeleteObject(c)
      BY <2>1 DEF DeleteObject, TypeOK
    <2>2. CASE EndDeletion(c) /\ op[c] = "remove"
      BY <2>2 DEF EndDeletion
    <2>3. CASE OpenFresh(c) \/ LoadDescriptors(c)
      BY <1>0, <1>1, <2>3 DEF OpenFresh, LoadDescriptors, GarbageClient
    <2> QED BY <2>1, <2>2, <2>3
  <1>4. c \in Collecting /\ c \in Collecting'
    BY <1>1 DEF Collecting
  <1>5. pc'[c] \in {"descriptors", "forget"} =>
          task[c].restic \cap Snapshots(seen'[c].body.records) = {}
    <2>1. CASE OpenFresh(c)
      <3>1. seen'[c] = [etag |-> etag, body |-> catalog]
        BY <2>1 DEF OpenFresh, ReadCatalog, TypeOK
      <3>2. task[c].restic \subseteq Claimed
        BY <1>4 DEF Claimed
      <3> QED BY <3>1, <3>2, ReachableUnclaimed
    <2>2. CASE LoadDescriptors(c)
      BY <1>0, <2>2 DEF LoadDescriptors, GarbageClient
    <2>3. CASE DeleteObject(c) \/ (EndDeletion(c) /\ op[c] = "remove")
      BY <2>3 DEF DeleteObject, EndDeletion, Goto, TypeOK
    <2> QED BY <2>1, <2>2, <2>3
  <1>6. op[c] = "remove" \/ task[c].restic = {}
    BY <1>0, <1>4 DEF GarbageClient
  <1>7. GarbageClient(c)'
    BY <1>1, <1>2, <1>3, <1>5, <1>6 DEF GarbageClient, Pending, TargetsPlain, PlanCovers
  <1>8. Local(c) /\ OpMove(c)
    BY <1>1, LocalSteps, OpMoves
       DEF Puts, Publish, PublishFails, PublishRemoval, RemovalFails, Crash, Finish, TypeOK
  <1>9. Benign(c)
    BY <1>1, <1>2, <1>4, <1>8 DEF Benign
  <1> QED BY <1>7, <1>9, BenignGarbage

\* What the two requests make unreachable.
LEMMA RequestGarbage ==
    ASSUME TypeOK, Ledger, GarbageInv, NEW c \in Clients
    PROVE  /\ pc[c] = "publish" /\ Accepts(PublishRequest(c)) =>
                /\ \A r \in PublishRequest(c).body.records : Plain(r)
                /\ Unlinks(PublishRequest(c)) = {}
           /\ pc[c] = "remove-publish" /\ Accepts(RemoveRequest(c)) =>
                /\ \A r \in RemoveRequest(c).body.records : Plain(r)
                /\ Unlinks(RemoveRequest(c)) \subseteq task[c].restic
  <1>1. ASSUME pc[c] = "publish", Accepts(PublishRequest(c))
        PROVE  /\ \A r \in PublishRequest(c).body.records : Plain(r)
               /\ Unlinks(PublishRequest(c)) = {}
    <2>1. PublishRequest(c).body.records = catalog.records \cup {draft[c]}
      BY <1>1, RequestRecords
    <2>2. Plain(draft[c])
      BY <1>1 DEF GarbageInv, GarbageClient, Pending
    <2> QED BY <2>1, <2>2, SnapshotsMonotone DEF GarbageInv, Unlinks
  <1>2. ASSUME pc[c] = "remove-publish", Accepts(RemoveRequest(c))
        PROVE  /\ \A r \in RemoveRequest(c).body.records : Plain(r)
               /\ Unlinks(RemoveRequest(c)) \subseteq task[c].restic
    <2>1. RemoveRequest(c).body.records \subseteq catalog.records
      BY <1>2, RequestRecords
    <2>2. seen[c].body = catalog
      BY <1>2 DEF Accepts, RemoveRequest, Ledger, ClientLedger, ReadFaithful, Current
    <2>3. RemoveRequest(c).body = RemoveRecords(seen[c].body, task[c].room, task[c].targets)
      BY DEF RemoveRequest
    <2>4. PlanCovers(c)
      BY DEF GarbageInv, GarbageClient
    <2>5. Unlinks(RemoveRequest(c)) \subseteq task[c].restic
      BY <1>2, <2>2, <2>3, <2>4 DEF PlanCovers, Unlinks
    <2> QED BY <2>1, <2>5 DEF GarbageInv
  <1> QED BY <1>1, <1>2

\* What a finishing command does to its client.
LEMMA FinishLeaves ==
    ASSUME TypeOK, NEW c \in Clients, Finish(c)
    PROVE  Others(c) /\ pc'[c] \in {"idle", "marker"}
  BY DEF Finish, TypeOK, Others

\* Returning, giving up the cleanup and restic forget keep the invariant.
LEMMA ReturnGarbage ==
    ASSUME TypeOK, TypeOK', SafetyInvariant, Ledger, ConfirmInv, GarbageInv, NEW c \in Clients,
           Step(c),
           \/ WriteMarker(c) \/ Abort(c) \/ DeferCleanup(c)
           \/ EndDeletion(c) /\ op[c] # "remove"
           \/ Forget(c) \/ ForgetFails(c)
    PROVE  GarbageInv'
  <1>0. /\ OpMove(c) /\ Finish(c) /\ GarbageClient(c) /\ Others(c)
        /\ pc'[c] \in {"idle", "marker"}
    BY OpMoves, FinishLeaves DEF WriteMarker, Abort, DeferCleanup, EndDeletion, Forget,
                                 ForgetFails, GarbageInv
  <1>1. /\ UNCHANGED <<catalog, removed, used, inflight, lost>> /\ stored' \subseteq stored
    BY DEF WriteMarker, Abort, DeferCleanup, EndDeletion, Forget, ForgetFails, remote, history
  <1>2. /\ todo \ Claims(c) \subseteq todo'
        /\ Claims(c) \cap stored' \subseteq todo' \cup lost'
    <2>1. CASE WriteMarker(c) \/ Abort(c)
      <3>1. Claims(c) = {}
        BY <2>1 DEF WriteMarker, Abort, Claims, Collecting
      <3> QED BY <2>1, <3>1 DEF WriteMarker, Abort
    <2>2. CASE DeferCleanup(c)
      <3>1. task[c].restic \subseteq todo /\ todo' = todo
        BY <1>0, <2>2 DEF DeferCleanup, GarbageClient, reports
      <3> QED BY <3>1 DEF Claims
    <2>3. CASE EndDeletion(c) /\ op[c] # "remove"
      <3>1. c \in Collecting
        BY <2>3 DEF EndDeletion, Collecting
      <3>2. task[c].restic = {}
        BY <1>0, <2>3, <3>1 DEF GarbageClient
      <3> QED BY <2>3, <3>2 DEF EndDeletion, Claims
    <2>4. CASE Forget(c)
      <3>1. Claims(c) = task[c].restic
        BY <2>4 DEF Forget, Claims, Collecting
      <3> QED BY <2>4, <3>1 DEF Forget
    <2>5. CASE ForgetFails(c)
      <3>1. Claims(c) = task[c].restic /\ pc[c] = "forget"
        BY <2>5 DEF ForgetFails, Claims, Collecting
      <3>2. task[c].restic \cap Snapshots(seen[c].body.records) = {}
        BY <1>0, <3>1 DEF GarbageClient
      <3>3. Candidates(c) = task[c].restic
        <4>1. task[c].restic \subseteq Snapshot /\ seen[c].body.records \subseteq Record
          BY DEF TypeOK, Task, Read, CatalogBody
        <4>2. ASSUME NEW s \in task[c].restic, s \in AllReferences(seen[c].body.records)
              PROVE  FALSE
          <5>1. PICK r \in seen[c].body.records : s \in References(r)
            BY <4>2 DEF AllReferences
          <5>2. s \notin r.restic
            BY <3>2, <4>2, <5>1 DEF Snapshots
          <5>3. r.object \in Object
            BY <4>1 DEF Record
          <5> QED BY <4>1, <5>1, <5>2, <5>3, TagsDisjoint DEF References
        <4> QED BY <4>2 DEF Candidates
      <3> QED BY <2>5, <1>1, <3>1, <3>3 DEF ForgetFails
    <2> QED BY <2>1, <2>2, <2>3, <2>4, <2>5
  <1> QED BY <1>0, <1>1, <1>2, LeaveGarbage

\* A process that dies leaves its claim to nobody, or in its receipt.
LEMMA CrashGarbage ==
    ASSUME TypeOK, TypeOK', SafetyInvariant, Ledger, ConfirmInv, GarbageInv, NEW c \in Clients,
           Step(c), Crash(c)
    PROVE  GarbageInv'
  <1>0. /\ OpMove(c) /\ GarbageClient(c) /\ Others(c) /\ pc'[c] \in {"idle", "marker"}
    BY OpMoves, FinishLeaves DEF Crash, GarbageInv
  <1>1. /\ UNCHANGED <<catalog, removed, used, stored, todo>>
        /\ lost' = IF pc[c] \in {"remove-publish", "remove-verify", "delete"}
                   THEN lost \cup task[c].restic ELSE lost
    BY DEF Crash, reports
  <1>2. Claims(c) \subseteq todo' \cup lost'
    BY <1>0, <1>1 DEF Claims, Collecting, GarbageClient
  <1>3. \A put \in inflight' \ inflight :
          \/ put = PublishRequest(c) /\ pc[c] = "publish" /\ Accepts(PublishRequest(c))
          \/ put = RemoveRequest(c) /\ pc[c] = "remove-publish" /\ Accepts(RemoveRequest(c))
    BY DEF Crash
  <1>4. ASSUME NEW put \in inflight' \ inflight
        PROVE  (\A r \in put.body.records : Plain(r)) /\ Unlinks(put) \subseteq todo' \cup lost'
    BY <1>1, <1>3, RequestGarbage
  <1> QED BY <1>0, <1>1, <1>2, <1>4, LeaveGarbage

\* What a command that reports its publication does to its client.
LEMMA ReportLeaves ==
    ASSUME TypeOK, NEW c \in Clients, NEW outcome, Report(c, outcome)
    PROVE  Others(c) /\ pc'[c] \in {"idle", "marker"} /\ todo \subseteq todo'
  BY DEF Report, Goto, Release, Finish, TypeOK, Others

\* An applied publication makes nothing unreachable.
LEMMA PublishGarbage ==
    ASSUME TypeOK, TypeOK', SafetyInvariant, Ledger, ConfirmInv, GarbageInv, NEW c \in Clients,
           Step(c), Publish(c)
    PROVE  GarbageInv'
  <1>1. /\ pc[c] = "publish" /\ pc'[c] = "verify" /\ UNCHANGED <<stored, used, lost, todo>>
        /\ OpMove(c) /\ Others(c) /\ Accepts(PublishRequest(c)) /\ Apply(PublishRequest(c))
    BY OpMoves, StepOthers DEF Publish, Applied, Goto, reports, TypeOK
  <1>2. c \notin Collecting /\ c \notin Collecting'
    BY <1>1 DEF Collecting
  <1>3. GarbageClient(c)' /\ ClaimsDisjoint'
    BY <1>1, <1>2, ClaimsShrink DEF GarbageInv, GarbageClient, Pending, TargetsPlain, PlanCovers
  <1>4. /\ \A r \in PublishRequest(c).body.records : Plain(r)
        /\ Unlinks(PublishRequest(c)) = {}
    BY <1>1, RequestGarbage
  <1>5. Proper(PublishRequest(c)) /\ PublishRequest(c) \in Put /\ PublishRequest(c).adds # {}
    <2>1. PublishRequest(c).adds # {}
      BY DEF PublishRequest
    <2> QED BY <1>1, <2>1, PublishProper, RequestTypes, TypeParts
  <1>6. \A d \in Clients :
          \/ /\ pc'[d] = pc[d] /\ op'[d] = op[d] /\ seen'[d] = seen[d]
             /\ draft'[d] = draft[d] /\ task'[d] = task[d]
          \/ d \notin Collecting /\ GarbageClient(d)'
    BY <1>1, <1>2, <1>3 DEF Others, OpMove
  <1> QED BY <1>1, <1>3, <1>4, <1>5, <1>6, ApplyGarbage

\* A publication that ends, applied or not, claims nothing.
LEMMA PublishEndsGarbage ==
    ASSUME TypeOK, TypeOK', SafetyInvariant, Ledger, ConfirmInv, GarbageInv, NEW c \in Clients,
           Step(c), PublishFails(c) \/ Verify(c)
    PROVE  GarbageInv'
  <1>1. PICK outcome : Report(c, outcome)
    BY DEF PublishFails, Verify
  <1>2. /\ OpMove(c) /\ Others(c) /\ pc'[c] \in {"idle", "marker"} /\ todo \subseteq todo'
    BY <1>1, OpMoves, ReportLeaves
  <1>3. /\ pc[c] \in {"publish", "verify"} /\ UNCHANGED <<stored, used, lost, catalog, removed>>
    BY DEF PublishFails, Unapplied, Verify, remote, history
  <1>4. Claims(c) = {}
    BY <1>3 DEF Collecting, Claims
  <1>5. \A put \in inflight' \ inflight :
          put = PublishRequest(c) /\ pc[c] = "publish" /\ Accepts(PublishRequest(c))
    BY DEF PublishFails, Unapplied, Verify, remote
  <1>6. ASSUME NEW put \in inflight' \ inflight
        PROVE  (\A r \in put.body.records : Plain(r)) /\ Unlinks(put) \subseteq todo' \cup lost'
    BY <1>5, RequestGarbage
  <1> QED BY <1>2, <1>3, <1>4, <1>6, LeaveGarbage

\* An applied removal claims what it makes unreachable.
LEMMA PublishRemovalGarbage ==
    ASSUME TypeOK, TypeOK', SafetyInvariant, Ledger, ConfirmInv, GarbageInv, NEW c \in Clients,
           Step(c), PublishRemoval(c)
    PROVE  GarbageInv'
  <1>1. /\ pc[c] = "remove-publish" /\ pc'[c] = "remove-verify" /\ task' = task /\ op' = op
        /\ UNCHANGED <<stored, used, lost, todo>> /\ OpMove(c) /\ Others(c)
        /\ Accepts(RemoveRequest(c)) /\ Apply(RemoveRequest(c))
    BY OpMoves, StepOthers DEF PublishRemoval, Applied, Goto, reports, TypeOK
  <1>2. c \notin Collecting
    BY <1>1 DEF Collecting
  <1>3. /\ \A r \in RemoveRequest(c).body.records : Plain(r)
        /\ Unlinks(RemoveRequest(c)) \subseteq task[c].restic
    BY <1>1, RequestGarbage
  <1>4. Proper(RemoveRequest(c)) /\ RemoveRequest(c) \in Put /\ RemoveRequest(c).removes # {}
    <2>1. RemoveRequest(c).removes # {}
      BY <1>1 DEF RemoveRequest, ConfirmInv, ConfirmClient, Removing
    <2> QED BY <1>1, <2>1, RemoveProper, RequestTypes, TypeParts
  <1>5. c \in Collecting' /\ task[c].restic \subseteq Claimed'
    BY <1>1 DEF Collecting, Claimed
  <1>6. op[c] = "remove" \/ task[c].restic = {}
    BY <1>1 DEF GarbageInv, GarbageClient
  <1>7. GarbageClient(c)'
    BY <1>1, <1>6 DEF GarbageClient, Pending, TargetsPlain, PlanCovers
  <1>8. ClaimsDisjoint'
    <2>1. task[c].restic \subseteq AllReferences(catalog.records)
      BY <1>1, RemoveRequestSafe
    <2>2. ASSUME NEW d \in Collecting' \ {c}
          PROVE  d \in Collecting /\ task[d].restic \cap task[c].restic = {}
      <3>1. d \in Collecting
        BY <1>1, <2>2 DEF Collecting, Others
      <3>2. task[d].restic \subseteq Doomed
        BY <3>1 DEF Doomed
      <3> QED BY <2>1, <3>1, <3>2 DEF SafetyInvariant, CatalogSafe
    <2> QED BY <1>1, <2>2 DEF ClaimsDisjoint, GarbageInv
  <1>9. \A d \in Clients :
          \/ /\ pc'[d] = pc[d] /\ op'[d] = op[d] /\ seen'[d] = seen[d]
             /\ draft'[d] = draft[d] /\ task'[d] = task[d]
          \/ d \notin Collecting /\ GarbageClient(d)'
    BY <1>1, <1>2, <1>7 DEF Others, OpMove
  <1> QED BY <1>1, <1>3, <1>4, <1>5, <1>8, <1>9, ApplyGarbage

\* A removal that fails leaves what a late request may make unreachable in a
\* receipt.
LEMMA RemovalFailsGarbage ==
    ASSUME TypeOK, TypeOK', SafetyInvariant, Ledger, ConfirmInv, GarbageInv, NEW c \in Clients,
           Step(c), RemovalFails(c)
    PROVE  GarbageInv'
  <1>1. PICK outcome \in Outcomes : /\ Unapplied(RemoveRequest(c), outcome)
                                    /\ todo' = todo \cup RemovalReceipt(c, outcome)
    BY DEF RemovalFails
  <1>2. /\ OpMove(c) /\ Others(c) /\ pc'[c] \in {"idle", "marker"}
    BY OpMoves, FinishLeaves DEF RemovalFails
  <1>3. /\ pc[c] = "remove-publish" /\ UNCHANGED <<stored, used, lost, catalog, removed>>
    BY <1>1 DEF RemovalFails, Unapplied
  <1>4. Claims(c) = {}
    BY <1>3 DEF Collecting, Claims
  <1>5. ASSUME NEW put \in inflight' \ inflight
        PROVE  (\A r \in put.body.records : Plain(r)) /\ Unlinks(put) \subseteq todo' \cup lost'
    <2>1. put = RemoveRequest(c) /\ Accepts(RemoveRequest(c)) /\ outcome \in Ambiguous
      BY <1>1, <1>5 DEF Unapplied
    <2>2. task[c].restic \subseteq todo'
      BY <1>1, <2>1 DEF Ambiguous, RemovalReceipt
    <2> QED BY <1>3, <2>1, <2>2, RequestGarbage
  <1> QED BY <1>1, <1>2, <1>3, <1>4, <1>5, LeaveGarbage

\* A removal that ends unverified leaves its claim in a receipt; one told of a
\* precondition failure believes it.
LEMMA UnverifiedGarbage ==
    ASSUME TypeOK, TypeOK', SafetyInvariant, Ledger, ConfirmInv, GarbageInv, NEW c \in Clients,
           Step(c), VerifyRemoval(c), pc'[c] # "delete"
    PROVE  GarbageInv'
  <1>1. PICK outcome \in Answers(c) :
          /\ todo' = todo \cup RemovalReceipt(c, outcome)
          /\ lost' = IF outcome = "rejected" THEN lost \cup task[c].restic ELSE lost
          /\ IF RemovalConfirmed(outcome)
             THEN Goto(c, "delete") /\ Release(c) /\ UNCHANGED <<op, draft, task>>
             ELSE Finish(c)
    BY DEF VerifyRemoval
  <1>2. outcome # "committed" /\ Finish(c)
    BY <1>1 DEF RemovalConfirmed, Goto, TypeOK
  <1>3. /\ OpMove(c) /\ Others(c) /\ pc'[c] \in {"idle", "marker"}
    BY <1>2, OpMoves, FinishLeaves
  <1>4. /\ UNCHANGED <<stored, used, catalog, removed, inflight>>
        /\ todo \subseteq todo' /\ lost \subseteq lost'
    BY <1>1 DEF VerifyRemoval, remote
  <1>5. outcome \in {"unverified", "uncertain", "rejected"}
    BY <1>1, <1>2 DEF Answers, Ambiguous
  <1>6. task[c].restic \subseteq todo' \cup lost'
    BY <1>1, <1>5 DEF RemovalReceipt
  <1> QED BY <1>3, <1>4, <1>6, LeaveGarbage DEF Claims

-----------------------------------------------------------------------------
(* The theorem.                                                            *)

\* A late removal finds its receipt already written.
LEMMA DeliverLateGarbage ==
    ASSUME TypeOK, TypeOK', SafetyInvariant, Ledger, ConfirmInv, GarbageInv, DeliverLate
    PROVE  GarbageInv'
  <1>1. PICK put \in inflight : Apply(put)
    BY DEF DeliverLate
  <1>2. /\ UNCHANGED <<stored, used, lost, todo, pc, op, seen, draft, task>>
        /\ put \in Put /\ Proper(put) /\ (put.adds = {} => put.removes # {})
        /\ \A r \in put.body.records : Plain(r)
        /\ Unlinks(put) \subseteq todo \cup lost
    BY <1>1 DEF DeliverLate, local, reports, TypeOK, Ledger, ConfirmInv, GarbageInv
  <1>3. ClaimsDisjoint'
    BY <1>2 DEF GarbageInv, ClaimsDisjoint, Collecting
  <1> QED BY <1>1, <1>2, <1>3, ApplyGarbage

\* Every step keeps the snapshots accounted for.
LEMMA GarbageStep ==
    ASSUME "stream-copy" \notin Commands,
           ExpectRevision \/ "remove-jat" \notin Commands,
           TypeOK, TypeOK', SafetyInvariant, Ledger, ConfirmInv, GarbageInv, [Next]_vars
    PROVE  GarbageInv'
  <1>1. CASE DeliverLate
    BY <1>1, DeliverLateGarbage
  <1>2. ASSUME NEW c \in Clients, Step(c)
        PROVE  GarbageInv'
    <2>1. CASE EndDeletion(c)
      BY <1>2, <2>1, CollectingGarbage, ReturnGarbage
    <2>2. CASE \E room \in Rooms : ConfirmRemoval(c, room)
      BY <1>2, <2>2, ConfirmRemovalGarbage
    <2>3. CASE OpenRemoval(c) \/ OpenJatRemoval(c)
      BY <1>2, <2>3, OpenRemovalGarbage
    <2>4. CASE \/ VerifyRemoval(c) /\ pc'[c] = "delete"
               \/ DeleteObject(c) \/ OpenFresh(c) \/ LoadDescriptors(c)
      BY <1>2, <2>4, CollectingGarbage
    <2>5. CASE WriteMarker(c) \/ Abort(c) \/ DeferCleanup(c) \/ Forget(c) \/ ForgetFails(c)
      BY <1>2, <2>5, ReturnGarbage
    <2>6. CASE \/ \E room \in Rooms : \/ \E command \in Commands : OpenForSave(c, command, room)
                                      \/ OpenCopySource(c, room) \/ UploadSnapshot(c, room)
               \/ Backup(c) \/ PutDescriptor(c) \/ OpenCopyDestination(c) \/ ReadCatalogForCreate(c)
      BY <1>2, <2>6, DraftSteps
    <2>7. CASE Publish(c)
      BY <1>2, <2>7, PublishGarbage
    <2>8. CASE PublishRemoval(c)
      BY <1>2, <2>8, PublishRemovalGarbage
    <2>9. CASE PublishFails(c) \/ Verify(c)
      BY <1>2, <2>9, PublishEndsGarbage
    <2>10. CASE RemovalFails(c)
      BY <1>2, <2>10, RemovalFailsGarbage
    <2>11. CASE VerifyRemoval(c) /\ pc'[c] # "delete"
      BY <1>2, <2>11, UnverifiedGarbage
    <2>12. CASE Crash(c)
      BY <1>2, <2>12, CrashGarbage
    <2> QED BY <1>2, <2>1, <2>2, <2>3, <2>4, <2>5, <2>6, <2>7, <2>8, <2>9, <2>10, <2>11, <2>12,
               NoStreamActions DEF Step
  <1>3. CASE UNCHANGED vars
    <2>1. UNCHANGED <<etag, catalog, stored, inflight, used, pc, op, seen, draft, task, todo,
                      removed, lost>>
      BY <1>3 DEF vars, remote, local, reports, history
    <2>2. Collecting' = Collecting /\ Claimed' = Claimed
      BY <2>1 DEF Collecting, Claimed
    <2>3. \A c \in Clients : GarbageClient(c)'
      BY <2>1, <2>2 DEF GarbageInv, GarbageClient, Pending, TargetsPlain, PlanCovers
    <2> QED BY <2>1, <2>2, <2>3
         DEF GarbageInv, AllAccounted, Numbered, Unlinks, ClaimsDisjoint
  <1> QED BY <1>1, <1>2, <1>3 DEF Next

\* When portable JATs are not copied within their Dimension and their removals
\* are told the revision the user was shown: for every number of machines and
\* of attempts per request, whoever replaces the catalog before a removal's
\* read-back and whatever fails or is delayed, a Restic snapshot that an
\* applied removal made unreachable is forgotten, or a receipt asks for its
\* reconciliation, or the removal is still working on it.  The only removals
\* exempt are those whose process died before the receipt and those that took
\* a precondition failure for an answer although they had been applied
\* (remove_logical_catalog_records, complete_logical_catalog_removal).
THEOREM NoGarbageIsSilent ==
    ASSUME "stream-copy" \notin Commands,
           ExpectRevision \/ "remove-jat" \notin Commands
    PROVE  Spec => []NoSilentGarbage
  <1>1. TypeOK /\ Ledger /\ [Next]_vars => Ledger'
    BY LedgerStep
  <1>2. TypeOK /\ TypeOK' /\ Ledger /\ ConfirmInv /\ [Next]_vars => ConfirmInv'
    BY ConfirmStep
  <1>3. Init => GarbageInv
    BY DEF Init, EmptyCatalog, GarbageInv, AllAccounted, Snapshots, Numbered, GarbageClient,
           Pending, TargetsPlain, PlanCovers, Collecting, ClaimsDisjoint
  <1>4. /\ TypeOK /\ TypeOK' /\ SafetyInvariant /\ Ledger /\ ConfirmInv /\ GarbageInv
        /\ [Next]_vars
        => GarbageInv'
    BY GarbageStep
  <1>5. GarbageInv => NoSilentGarbage
    <2> SUFFICES ASSUME GarbageInv, NEW s \in UNION {r.restic : r \in removed}, s \in stored
                 PROVE  \/ s \in AllReferences(catalog.records)
                        \/ s \in todo \cup lost
                        \/ \E c \in Collecting : s \in task[c].restic
      BY DEF NoSilentGarbage
    <2>1. s \in Snapshots(catalog.records) \cup todo \cup lost \cup Claimed
      BY DEF GarbageInv, AllAccounted, Snapshots
    <2> QED BY <2>1 DEF Snapshots, Claimed, AllReferences, References
  <1>6. Spec => []SafetyInvariant
    BY SafetyHolds
  <1> QED BY <1>1, <1>2, <1>3, <1>4, <1>5, <1>6, LedgerInit, ConfirmInit, TypeCorrect, PTL DEF Spec
=============================================================================
