------------------------------ MODULE Catalog ------------------------------
(***************************************************************************)
(* The encrypted Room catalog of one Dimension (josh_room/catalog.py) as a *)
(* value: its records, the "latest" pointer of each Room and the operators *)
(* that produce the next catalog.  Encryption, display names, timestamps   *)
(* and digests are abstracted away; identity, sharing of objects and       *)
(* Restic snapshots, the latest pointer and the revision are kept.         *)
(*                                                                         *)
(* A record id is the hex of a random UUID.  The catalog is serialised     *)
(* with sorted keys, so the iteration order of a Room's records after a    *)
(* reload is the lexicographic order of their ids.  Ids are therefore      *)
(* naturals compared by <, and the age of a record says nothing about its  *)
(* id.                                                                     *)
(***************************************************************************)
EXTENDS Integers, FiniteSets

CONSTANTS
    Rooms,      \* project ids
    Ids         \* snapshot ids (logical JAT ids) that commands may draw

NoId == 0

OptId == Ids \cup {NoId}

\* Ids are finite in number and linearly ordered, so any of them have a last.
ASSUME IdsAssumption ==
    /\ Ids \subseteq (Nat \ {0}) /\ IsFiniteSet(Ids)
    /\ \A S \in SUBSET OptId : S # {} => \E i \in S : \A j \in S : j <= i

ASSUME RoomsAssumption == Rooms # {}

\* Everything the catalog can point at: encrypted objects in the bucket, and
\* the workspace and component snapshots of the Restic repository.  Each is
\* named after the command (by its record id) that stored it.
Object   == {"object"} \X OptId
Snapshot == {"workspace", "component"} \X OptId
Artifact == Object \cup Snapshot

Record == [room   : Rooms,
           id     : OptId,
           kind   : {"native", "legacy"},
           object : Object,
           restic : SUBSET Snapshot]

CatalogBody == [revision : Nat,
                records  : SUBSET Record,
                latest   : [Rooms -> OptId]]

\* Catalog.empty: no Room, revision 0.
EmptyCatalog == [revision |-> 0, records |-> {}, latest |-> [r \in Rooms |-> NoId]]

RecordIds(records) == {r.id : r \in records}

RoomRecords(body, room) == {r \in body.records : r.room = room}

\* What one record needs in storage to be restorable.
References(r) == {r.object} \cup r.restic

AllReferences(records) == UNION {References(r) : r \in records}

\* [Faulty variant] The revision counts down.
AddSnapshotCountsDown(body, r) ==
    [revision |-> body.revision - 1,
     records  |-> body.records \cup {r},
     latest   |-> [body.latest EXCEPT ![r.room] = r.id]]

\* add_snapshot and add_logical_snapshot: a new record becomes the latest of
\* its Room, which is created on first use.
AddSnapshot(body, r) ==
    [revision |-> body.revision + 1,
     records  |-> body.records \cup {r},
     latest   |-> [body.latest EXCEPT ![r.room] = r.id]]

\* next(reversed(snapshots)) on a reloaded catalog: the greatest id.
PromotedLatest(ids) == IF ids = {} THEN NoId
                       ELSE CHOOSE i \in ids : \A j \in ids : j <= i

\* [Faulty variant] The latest pointer is left on a removed record.
RemoveRecordsKeepLatest(body, room, ids) ==
    LET remaining == {r \in body.records : ~(r.room = room /\ r.id \in ids)}
    IN  [revision |-> body.revision + 1, records |-> remaining, latest |-> body.latest]

\* remove_project when ids are all of the Room's ids (one revision), else
\* remove_snapshot once per id (one revision each).  Removing the latest
\* promotes another one; removing the last one removes the Room.
RemoveRecords(body, room, ids) ==
    LET remaining == {r \in body.records : ~(r.room = room /\ r.id \in ids)}
        left == RecordIds({r \in remaining : r.room = room})
    IN  [revision |-> body.revision + (IF left = {} THEN 1 ELSE Cardinality(ids)),
         records  |-> remaining,
         latest   |-> IF body.latest[room] \in left THEN body.latest
                      ELSE [body.latest EXCEPT ![room] = PromotedLatest(left)]]

\* [Faulty variant] Objects still named by other records are not spared.
RemovableObjectsAll(body, room, ids) ==
    {r.object : r \in body.records \ RemoveRecords(body, room, ids).records}

\* The object keys only removed records name: safe to delete.
RemovableObjects(body, room, ids) ==
    LET kept == RemoveRecords(body, room, ids).records
    IN  {r.object : r \in body.records \ kept} \ {r.object : r \in kept}

\* The Restic snapshots only removed records name.
UnreachableSnapshots(body, room, ids) ==
    LET kept == RemoveRecords(body, room, ids).records
    IN  (UNION {r.restic : r \in body.records \ kept}) \ (UNION {r.restic : r \in kept})

\* The catalog format's own validity rule: a Room's latest is one of its
\* records, and a Room without records has none.
LatestValid(body) ==
    \A room \in Rooms :
        LET ids == RecordIds(RoomRecords(body, room))
        IN  IF ids = {} THEN body.latest[room] = NoId ELSE body.latest[room] \in ids
=============================================================================
