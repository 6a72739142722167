------------------------------- MODULE Keyset -------------------------------
(***************************************************************************)
(* How the machines of one Dimension come to share an age identity, a Room *)
(* store secret and a Restic repository (josh_room/auth.py,                *)
(* encryption_domain.py, r2_room_store_material.py, RoomStoreOperations,   *)
(* and the bucket's Durable Object in worker/src/index.js).  The first     *)
(* writer of the keyset wins; its secret is the password under which       *)
(* somebody initializes the repository; the repository id is then bound    *)
(* into the keyset, once.                                                  *)
(*                                                                         *)
(* On MinIO the keyset is a control object replaced under its ETag: absent *)
(* (version 0), with an identity (1), with a secret (2).  On R2 a Durable  *)
(* Object holds it from version 2 on and its transactions check the same   *)
(* facts; the identity there is configured.  An ETag is a version number.  *)
(***************************************************************************)
EXTENDS Integers, FiniteSets

CONSTANTS
    Machines,   \* machines that open the Dimension
    Providers,  \* {"minio"}, {"r2"} or both
    Faults,     \* what may go wrong
    MaxFaults   \* bound: how often

\*   timeout  no answer to a write: it is applied now, later or never
\*   repeat   the SDK repeats an applied PUT and reports the repeat's 412
\*   read     a read fails
\*   init     restic init fails, with or without a repository
\*   crash    the process dies
FaultNames == {"timeout", "repeat", "read", "init", "crash"}

ASSUME KeysetAssumption ==
    Providers \subseteq {"minio", "r2"} /\ Faults \subseteq FaultNames /\ MaxFaults \in Nat

VARIABLES
    provider,   \* of the Dimension
    keyset,     \* the durable record
    repository, \* the Restic repository at the Dimension's prefix
    pending,    \* writes that had no answer and are still under way
    pc,         \* where the command of each machine is
    held,       \* the record it read or means to write
    opened,     \* the id of the repository it opened
    identity,   \* the age identity it encrypts with
    cache,      \* secrets in its native secret store
    drawn,      \* how many random values it has drawn
    faults      \* faults that may still happen

durable == <<keyset, repository, pending>>
local   == <<pc, held, opened>>
vars    == <<provider, durable, local, identity, cache, drawn, faults>>

None   == <<>>
Absent == [version |-> 0, identity |-> None, secret |-> None, generation |-> 0, repository |-> None, etag |-> 0]
NoRepository == [id |-> None, password |-> None]

Labels == {"idle", "enroll", "enrolled", "ensure", "upgrade", "upgraded", "winner", "open", "init",
           "reopen", "bind", "write-bind", "bound", "use"}

Init ==
    /\ provider \in Providers
    /\ keyset = Absent
    /\ repository = NoRepository
    /\ pending = {}
    /\ pc = [m \in Machines |-> "idle"]
    /\ held = [m \in Machines |-> Absent]
    /\ opened = [m \in Machines |-> None]
    /\ identity = [m \in Machines |-> None]
    /\ cache = [m \in Machines |-> {}]
    /\ drawn = [m \in Machines |-> 0]
    /\ faults = MaxFaults

-----------------------------------------------------------------------------
Fault(kind) == kind \in Faults /\ faults > 0 /\ faults' = faults - 1

Goto(m, label) == pc' = [pc EXCEPT ![m] = label] /\ UNCHANGED <<held, opened>>

Hold(m, record, label) ==
    /\ held' = [held EXCEPT ![m] = record]
    /\ pc' = [pc EXCEPT ![m] = label]
    /\ UNCHANGED opened

\* The command fails or ends.
Stop(m) ==
    /\ pc' = [pc EXCEPT ![m] = "idle"]
    /\ held' = [held EXCEPT ![m] = Absent]
    /\ opened' = [opened EXCEPT ![m] = None]

\* A read fails and with it the command.
Unread(m) == Fault("read") /\ Stop(m) /\ UNCHANGED cache

Fresh(m) == <<m, drawn[m] + 1>>
Draw(m)  == drawn' = [drawn EXCEPT ![m] = @ + 1]

\* The version a write is conditional on.
\* [Faulty variant] the write has no condition.
ReplacesAny(record) == TRUE

Replaces(record) == keyset.etag = record.etag

\* replace_control and create_control, or the transactions of the Durable
\* Object, with `record` as the new content.  The outcome is what the caller
\* is told: "ok", "refused" or "unknown".
Write(record, outcome) ==
    LET applied == Replaces(record) /\ keyset' = [record EXCEPT !.etag = @ + 1]
    IN  \/ outcome = "ok" /\ applied /\ UNCHANGED <<pending, faults>>
        \/ outcome = "refused" /\ ~Replaces(record) /\ UNCHANGED <<keyset, pending, faults>>
        \/ outcome = "refused" /\ provider = "minio" /\ Fault("repeat") /\ applied /\ UNCHANGED pending
        \/ /\ outcome = "unknown" /\ Fault("timeout")
           /\ \/ applied /\ UNCHANGED pending
              \/ UNCHANGED <<keyset, pending>>
              \/ pending' = pending \cup {record} /\ UNCHANGED keyset

-----------------------------------------------------------------------------
(* `encryption initialize` on MinIO: ensure_minio_domain.                  *)

\* The keyset is read; without one a new identity is generated.
Enroll(m) ==
    /\ pc[m] = "idle" /\ provider = "minio" /\ identity[m] = None
    /\ \/ /\ keyset.version > 0
          /\ identity' = [identity EXCEPT ![m] = keyset.identity]
          /\ UNCHANGED <<local, drawn>>
       \/ /\ keyset.version = 0
          /\ Draw(m)
          /\ Hold(m, [Absent EXCEPT !.version = 1, !.identity = Fresh(m)], "enroll")
          /\ UNCHANGED identity
    /\ UNCHANGED <<provider, durable, cache, faults>>

\* After a conflict the winner's identity is taken.  An unknown outcome ends
\* the command; a later one finds what was written.
WriteEnroll(m) ==
    /\ pc[m] = "enroll"
    /\ \/ /\ Write(held[m], "ok")
          /\ identity' = [identity EXCEPT ![m] = held[m].identity]
          /\ Stop(m)
       \/ Write(held[m], "refused") /\ Goto(m, "enrolled") /\ UNCHANGED identity
       \/ Write(held[m], "unknown") /\ Stop(m) /\ UNCHANGED identity
    /\ UNCHANGED <<provider, repository, cache, drawn>>

Enrolled(m) ==
    /\ pc[m] = "enrolled"
    /\ \/ /\ IF keyset.version > 0
             THEN identity' = [identity EXCEPT ![m] = keyset.identity]
             ELSE UNCHANGED identity
          /\ Stop(m)
          /\ UNCHANGED <<cache, faults>>
       \/ Unread(m) /\ UNCHANGED identity
    /\ UNCHANGED <<provider, durable, drawn>>

-----------------------------------------------------------------------------
(* ensure_room_store_keyset on MinIO, ensure_material_details on R2.       *)

Cache(m, record) == cache' = [cache EXCEPT ![m] = @ \cup {<<record.generation, record.secret>>}]

Upgradable == keyset.version = (IF provider = "minio" THEN 1 ELSE 0)

\* A command that needs the repository opens the Dimension.
Begin(m) ==
    /\ pc[m] = "idle"
    /\ provider = "minio" => identity[m] # None
    /\ Goto(m, "ensure")
    /\ UNCHANGED <<provider, durable, identity, cache, drawn, faults>>

Ensure(m) ==
    /\ pc[m] = "ensure"
    /\ \/ /\ keyset.version = 2
          /\ Cache(m, keyset)
          /\ Hold(m, keyset, "open")
          /\ UNCHANGED <<drawn, faults>>
       \/ /\ Upgradable
          /\ Draw(m)
          /\ Hold(m, [keyset EXCEPT !.version = 2, !.secret = Fresh(m), !.generation = 1], "upgrade")
          /\ UNCHANGED <<cache, faults>>
       \/ Unread(m) /\ UNCHANGED drawn
    /\ UNCHANGED <<provider, durable, identity>>

\* Where a failed write leads: the record that is there decides.
\* [Faulty variant] the machine keeps its own secret.
AfterFailureKeep == "open"

AfterFailure == "winner"

\* The R2 answer holds the record that was written; MinIO's is read again.
Upgrade(m) ==
    /\ pc[m] = "upgrade"
    /\ \/ /\ Write(held[m], "ok")
          /\ IF provider = "r2"
             THEN Cache(m, keyset') /\ Hold(m, keyset', "open")
             ELSE Goto(m, "upgraded") /\ UNCHANGED cache
       \/ /\ Write(held[m], "refused") \/ Write(held[m], "unknown")
          /\ Goto(m, AfterFailure)
          /\ UNCHANGED cache
    /\ UNCHANGED <<provider, repository, identity, drawn>>

Upgraded(m) ==
    /\ pc[m] = "upgraded"
    /\ \/ /\ IF keyset.version = 2 /\ keyset.secret = held[m].secret /\ keyset.generation >= held[m].generation
             THEN Cache(m, keyset) /\ Hold(m, keyset, "open")
             ELSE Stop(m) /\ UNCHANGED cache
          /\ UNCHANGED faults
       \/ Unread(m)
    /\ UNCHANGED <<provider, durable, identity, drawn>>

Winner(m) ==
    /\ pc[m] = "winner"
    /\ \/ /\ keyset.version = 2
          /\ Cache(m, keyset)
          /\ Hold(m, keyset, "open")
          /\ UNCHANGED faults
       \/ /\ keyset.version < 2
          /\ Stop(m)
          /\ UNCHANGED <<cache, faults>>
       \/ Unread(m)
    /\ UNCHANGED <<provider, durable, identity, drawn>>

-----------------------------------------------------------------------------
(* ResticStore.initialize.  restic creates a repository only where there   *)
(* is none, and opens one only with its password.                          *)

Open(m) ==
    /\ pc[m] \in {"open", "reopen"}
    /\ \/ /\ repository # NoRepository /\ repository.password = held[m].secret
          /\ opened' = [opened EXCEPT ![m] = repository.id]
          /\ pc' = [pc EXCEPT ![m] = "bind"]
          /\ UNCHANGED <<held, cache, faults>>
       \/ /\ repository = NoRepository /\ pc[m] = "open"
          /\ Goto(m, "init")
          /\ UNCHANGED <<cache, faults>>
       \/ /\ (repository = NoRepository /\ pc[m] = "reopen") \/ (repository # NoRepository /\ repository.password # held[m].secret)
          /\ Stop(m)
          /\ UNCHANGED <<cache, faults>>
       \/ Unread(m)
    /\ UNCHANGED <<provider, durable, identity, drawn>>

\* [Faulty variant] init replaces what is there.
VacantAlways == TRUE

Vacant == repository = NoRepository

InitRepository(m) ==
    /\ pc[m] = "init"
    /\ LET created == Vacant /\ repository' = [id |-> <<m, 0>>, password |-> held[m].secret]
       IN  \/ created /\ UNCHANGED faults
           \/ ~Vacant /\ UNCHANGED <<repository, faults>>
           \/ Fault("init") /\ (created \/ UNCHANGED repository)
    /\ Goto(m, "reopen")
    /\ UNCHANGED <<provider, keyset, pending, identity, cache, drawn>>

-----------------------------------------------------------------------------
(* _bind_repository, with bind_room_store_repository on MinIO and          *)
(* bind_repository_details on R2.                                          *)

\* EncryptionKeyset.bind_repository, and the worker's repository-write: an
\* unbound record of the generation it opened with can be bound.
\* [Faulty variant] the generation after the one it opened with.
BindableNext(m) == keyset.generation = held[m].generation + 1 /\ keyset.repository = None

Bindable(m) == keyset.generation = held[m].generation /\ keyset.repository = None

\* [Faulty variant] the format version is raised instead of the generation.
BoundRecordVersion(m) == [keyset EXCEPT !.repository = opened[m], !.version = @ + 1]

BoundRecord(m) == [keyset EXCEPT !.repository = opened[m], !.generation = @ + 1]

\* The record it opened with may already be bound.  Otherwise the record is
\* read again.  If that one cannot be bound, somebody else was faster: MinIO
\* fails on the generation, R2 compares the repositories.
Bind(m) ==
    /\ pc[m] = "bind"
    /\ LET unbound == held[m].repository = None
       IN  \/ /\ held[m].repository = opened[m]
              /\ Goto(m, "use")
              /\ UNCHANGED <<cache, faults>>
           \/ /\ unbound /\ Bindable(m)
              /\ Hold(m, BoundRecord(m), "write-bind")
              /\ UNCHANGED <<cache, faults>>
           \/ /\ unbound /\ ~Bindable(m) /\ provider = "r2"
              /\ Cache(m, keyset)
              /\ Goto(m, "bound")
              /\ UNCHANGED faults
           \/ /\ held[m].repository # opened[m] /\ ~(unbound /\ (Bindable(m) \/ provider = "r2"))
              /\ Stop(m)
              /\ UNCHANGED <<cache, faults>>
           \/ unbound /\ Unread(m)
    /\ UNCHANGED <<provider, durable, identity, drawn>>

WriteBind(m) ==
    /\ pc[m] = "write-bind"
    /\ \E outcome \in {"ok", "refused", "unknown"} : Write(held[m], outcome)
    /\ Goto(m, "bound")
    /\ UNCHANGED <<provider, repository, identity, cache, drawn>>

\* However the write ended, the record is read back and has to be bound to
\* the repository that was opened; MinIO also compares secret and generation.
BoundTo(m) ==
    /\ keyset.repository = opened[m]
    /\ provider = "minio" => keyset.secret = held[m].secret /\ keyset.generation = held[m].generation

Bound(m) ==
    /\ pc[m] = "bound"
    /\ \/ BoundTo(m) /\ Cache(m, keyset) /\ Hold(m, keyset, "use") /\ UNCHANGED faults
       \/ ~BoundTo(m) /\ Stop(m) /\ UNCHANGED <<cache, faults>>
       \/ Unread(m)
    /\ UNCHANGED <<provider, durable, identity, drawn>>

Close(m) ==
    /\ pc[m] = "use"
    /\ Stop(m)
    /\ UNCHANGED <<provider, durable, identity, cache, drawn, faults>>

-----------------------------------------------------------------------------
Settle(record) ==
    /\ record \in pending
    /\ pending' = pending \ {record}
    /\ \/ UNCHANGED keyset
       \/ Replaces(record) /\ keyset' = [record EXCEPT !.etag = @ + 1]
    /\ UNCHANGED <<provider, repository, local, identity, cache, drawn, faults>>

Crash(m) ==
    /\ pc[m] # "idle" /\ Fault("crash")
    /\ Stop(m)
    /\ UNCHANGED <<provider, durable, identity, cache, drawn>>

Step(m) ==
    \/ Enroll(m) \/ WriteEnroll(m) \/ Enrolled(m) \/ Begin(m) \/ Ensure(m) \/ Upgrade(m) \/ Upgraded(m)
    \/ Winner(m) \/ Open(m) \/ InitRepository(m) \/ Bind(m) \/ WriteBind(m) \/ Bound(m) \/ Close(m)

Next ==
    \/ \E m \in Machines : Step(m) \/ Crash(m)
    \/ \E record \in pending : Settle(record)

Spec == Init /\ [][Next]_vars

\* Every machine goes on and tries again, and a write ends.
FairSpec ==
    /\ Spec
    /\ \A m \in Machines : WF_vars(Step(m))
    /\ WF_vars(\E record \in pending : Settle(record))

-----------------------------------------------------------------------------
Drawn == (Machines \X Nat) \cup {None}
Records == [version : 0 .. 2, identity : Drawn, secret : Drawn, generation : Nat, repository : Drawn, etag : Nat]

\* Every variable keeps its type (EncryptionKeyset, the worker's record).
TypeOK ==
    /\ provider \in Providers
    /\ keyset \in Records /\ pending \subseteq Records
    /\ repository \in [id : Drawn, password : Drawn]
    /\ pc \in [Machines -> Labels]
    /\ held \in [Machines -> Records]
    /\ opened \in [Machines -> Drawn]
    /\ identity \in [Machines -> Drawn]
    /\ cache \in [Machines -> SUBSET (Nat \X Drawn)]
    /\ drawn \in [Machines -> Nat]
    /\ faults \in Nat

\* Identity, secret and repository id are written once: no write, however
\* late it is applied, replaces one that is there (create_control,
\* replace_control, EncryptionKeyset.bind_repository, fetchBucketRoomStore).
MaterialIsFinal ==
    [][/\ keyset.identity # None => keyset'.identity = keyset.identity
       /\ keyset.secret # None => keyset'.secret = keyset.secret
       /\ keyset.repository # None => keyset'.repository = keyset.repository]_vars

\* Whoever has lost a race to create the identity or the secret never uses
\* what it drew: the identities in use and the cached secrets are the
\* durable ones, and the repository opens with the durable secret.
LosersAdoptTheWinner ==
    /\ \A m \in Machines : identity[m] \in {None, keyset.identity}
    /\ \A m \in Machines : \A entry \in cache[m] : entry[2] = keyset.secret
    /\ repository # NoRepository => repository.password = keyset.secret

\* A machine that goes on to use the store has the durable secret and the
\* repository that the keyset names, which is the one that exists
\* (RoomStoreOperations._open_store, _bind_repository).
UsersAgree ==
    /\ keyset.repository # None => keyset.repository = repository.id
    /\ \A m \in Machines : pc[m] = "use" =>
          /\ opened[m] = repository.id /\ opened[m] = keyset.repository
          /\ held[m].secret = keyset.secret

\* However the first machines race and fail, every machine gets to use the
\* store, again and again.
EveryMachineOpens == \A m \in Machines : []<>(pc[m] = "use")
=============================================================================
