----------------------------- MODULE Migration -----------------------------
(***************************************************************************)
(* The encryption migration of a MinIO Dimension (josh_room/operations.py, *)
(* command `encryption resume` of cli.py): machines copy every object of a *)
(* legacy catalog under a new key and then replace the catalog.  Source    *)
(* and destination are one bucket, so the catalog that is read and the one *)
(* that is replaced are the same object.  A journal in the bucket, written *)
(* by conditional PUT, lets another machine resume what one has left.      *)
(*                                                                         *)
(* An ETag is a version number: the bodies hold a time or fresh ciphertext *)
(* and never repeat.  A ciphertext is named by its document, the machine   *)
(* that made it and the journal's version at that time.  Left out: the     *)
(* read-only preview (`encryption migrate`) and the ETag it gives `resume` *)
(* to expect, which only stop the command before its first write; the      *)
(* creation of the destination keyset (module Keyset).                     *)
(***************************************************************************)
EXTENDS Integers, FiniteSets

CONSTANTS
    Machines,   \* machines that resume the migration
    Docs,       \* the snapshots' envelopes
    MaxSaves,   \* bound: catalog changes by machines that do not migrate
    Faults,     \* what may go wrong
    MaxFaults   \* bound: how often

\*   timeout    no answer to a PUT: it is applied now, later or never
\*   server     an error answer to a PUT, with the same three outcomes
\*   repeat     the SDK repeats an applied PUT and reports the repeat's 412
\*   error      an object cannot be read, decrypted, stored or read back
\*   interrupt  the user interrupts the command
\*   crash      the process dies
\*   overlap    the command is started while another machine runs it
FaultNames == {"timeout", "server", "repeat", "error", "interrupt", "crash", "overlap"}

NoCopy == <<>>
Copies == Docs \X (Machines \cup {"save"}) \X Nat

ASSUME MigrationAssumption ==
    /\ MaxSaves \in Nat /\ Faults \subseteq FaultNames /\ MaxFaults \in Nat
    /\ "save" \notin Machines
    /\ Docs \cap (Copies \cup {NoCopy}) = {}

VARIABLES
    catalog,  \* the catalog object: its key domain, what it names, its ETag
    journal,  \* the journal object with its ETag; 0 when there is none
    unstored, \* ciphertexts that were made and never stored
    removed,  \* entries that were taken out of the catalog
    deleted,  \* the removed entries whose objects are no longer in the bucket
    pending,  \* PUTs that had no answer and are still under way
    pc,       \* where the command of each machine is
    mine,     \* its copy of the journal, the ETag included
    plan,     \* the catalog it read
    todo,     \* mappings it has still to visit
    saves,    \* catalog changes that may still happen
    faults    \* faults that may still happen

bucket == <<catalog, journal, unstored, removed, deleted, pending>>
local  == <<pc, mine, plan, todo>>
vars   == <<bucket, local, saves, faults>>

Active    == {"planned", "running", "interrupted", "ready-to-commit", "cutover-published"}
Published == {"ready-to-commit", "cutover-published"}

\* [Faulty variant] only a conflict is planned again.
ReplannedConflict == {"conflict"}

Replanned == {"conflict", "failed"}

NoJournal == [status |-> "none", source |-> 0, maps |-> <<>>, etag |-> 0]

\* _new_journal
NewJournal(cat) ==
    [status |-> "planned", source |-> cat.etag, maps |-> [d \in cat.names |-> NoCopy]]

Mapped(j) == {j.maps[d] : d \in DOMAIN j.maps}

\* The documents a catalog names.  A legacy one holds them, a new one copies.
Names(cat) == IF cat.domain = "legacy" THEN cat.names ELSE {c[1] : c \in cat.names}

Idle(m) ==
    /\ pc' = [pc EXCEPT ![m] = "idle"]
    /\ mine' = [mine EXCEPT ![m] = NoJournal]
    /\ plan' = [plan EXCEPT ![m] = [names |-> {}, etag |-> 0]]
    /\ todo' = [todo EXCEPT ![m] = {}]

Init ==
    /\ \E names \in SUBSET Docs : catalog = [domain |-> "legacy", names |-> names, etag |-> 1]
    /\ journal = NoJournal
    /\ unstored = {}
    /\ removed = {}
    /\ deleted = {}
    /\ pending = {}
    /\ pc = [m \in Machines |-> "idle"]
    /\ mine = [m \in Machines |-> NoJournal]
    /\ plan = [m \in Machines |-> [names |-> {}, etag |-> 0]]
    /\ todo = [m \in Machines |-> {}]
    /\ saves = MaxSaves
    /\ faults = MaxFaults

-----------------------------------------------------------------------------
Fault(kinds) == kinds \cap Faults # {} /\ faults > 0 /\ faults' = faults - 1

Goto(m, label) == pc' = [pc EXCEPT ![m] = label] /\ UNCHANGED <<mine, plan, todo>>

\* The command reads the journal.
ReadJournal(m, label) ==
    /\ mine' = [mine EXCEPT ![m] = journal]
    /\ pc' = [pc EXCEPT ![m] = label]
    /\ UNCHANGED <<plan, todo>>

JournalWith(body, etag) ==
    [status |-> body.status, source |-> body.source, maps |-> body.maps, etag |-> etag]

\* A PUT under way on a version that has been replaced can only be refused.
Superseded(kind) == pending' = {r \in pending : r[1] # kind}

\* replace_control and create_control: `body` replaces the version `etag`.
\* The outcome is what the caller sees: "ok", "refused" or "unknown".
PutJournal(body, etag, outcome) ==
    LET current == journal.etag = etag
        applied == current /\ journal' = JournalWith(body, etag + 1) /\ Superseded("journal")
        lost    == UNCHANGED <<journal, pending>>
    IN  \/ outcome = "ok" /\ applied /\ UNCHANGED faults
        \/ outcome = "refused" /\ ~current /\ lost /\ UNCHANGED faults
        \/ outcome = "refused" /\ Fault({"repeat"}) /\ applied
        \/ /\ outcome = "unknown" /\ Fault({"timeout", "server"})
           /\ \/ applied
              \/ lost
              \/ current /\ UNCHANGED journal /\ pending' = pending \cup {<<"journal", body>>}

-----------------------------------------------------------------------------
(* What each journal update writes, and where the command goes on.  A      *)
(* failed update during the copies ends in another update, whose own       *)
(* failure changes nothing.                                                *)

Updates ==
    [interrupt |-> [status |-> "interrupted",       next |-> "migrate", else |-> {"idle"}],
     start     |-> [status |-> "running",           next |-> "copy",    else |-> {"fail"}],
     record    |-> [status |-> "running",           next |-> "copy",    else |-> {"fail", "stop"}],
     ready     |-> [status |-> "ready-to-commit",   next |-> "switch",  else |-> {"fail", "stop"}],
     finish    |-> [status |-> "committed",         next |-> "idle",    else |-> {"idle"}],
     fail      |-> [status |-> "failed",            next |-> "idle",    else |-> {"idle"}],
     stop      |-> [status |-> "interrupted",       next |-> "idle",    else |-> {"idle"}],
     conflict  |-> [status |-> "conflict",          next |-> "idle",    else |-> {"idle"}],
     unsure    |-> [status |-> "cutover-published", next |-> "idle",    else |-> {"idle"}]]

Labels == DOMAIN Updates \cup {"idle", "probe", "reconcile", "recover", "legacy", "plan", "write-plan", "migrate",
              "plan-here", "write-plan-here", "planned", "recover-here", "match", "copy", "switch", "read-back"}

\* _safe_journal_update.  The status in memory changes even if the PUT fails.
Update(m) ==
    /\ pc[m] \in DOMAIN Updates
    /\ LET w    == Updates[pc[m]]
           body == [status |-> w.status, source |-> mine[m].source, maps |-> mine[m].maps]
       IN  \/ /\ PutJournal(body, mine[m].etag, "ok")
              /\ IF w.next = "idle"
                 THEN Idle(m)
                 ELSE /\ mine' = [mine EXCEPT ![m] = JournalWith(body, @.etag + 1)]
                      /\ pc' = [pc EXCEPT ![m] = w.next]
                      /\ todo' = IF pc[m] = "start" THEN [todo EXCEPT ![m] = DOMAIN mine[m].maps] ELSE todo
                      /\ UNCHANGED plan
           \/ /\ \E outcome \in {"refused", "unknown"} : PutJournal(body, mine[m].etag, outcome)
              /\ \E label \in w.else : IF label = "idle" THEN Idle(m) ELSE Goto(m, label)
    /\ UNCHANGED <<catalog, unstored, removed, deleted, saves>>

-----------------------------------------------------------------------------
(* `encryption resume` up to migrate_encryption.                           *)

\* The journal is read.  A committed one ends the command.
Begin(m) ==
    /\ pc[m] = "idle" /\ journal.status # "committed"
    /\ \/ (\A n \in Machines : pc[n] = "idle") /\ UNCHANGED faults
       \/ Fault({"overlap"})
    /\ ReadJournal(m, IF journal.status = "ready-to-commit" THEN "probe" ELSE "reconcile")
    /\ UNCHANGED <<bucket, saves>>

\* Reconciliation is skipped while the catalog cannot be read with the new key.
Probe(m) ==
    /\ pc[m] = "probe"
    /\ Goto(m, IF catalog.domain = "new" THEN "reconcile" ELSE "legacy")
    /\ UNCHANGED <<bucket, saves, faults>>

\* reconcile_encryption_migration reads the journal again.  One that may have
\* been published is compared with the catalog.
Reconcile(m) ==
    /\ pc[m] = "reconcile"
    /\ IF journal.status \in Published THEN ReadJournal(m, "recover") ELSE Goto(m, "legacy")
    /\ UNCHANGED <<bucket, saves, faults>>

\* _destination_catalog_matches_journal
MatchesJournal(j) == NoCopy \notin Mapped(j) /\ catalog.names = Mapped(j)

\* Whatever keeps the catalog from being read counts as a conflict.
Unreadable(m) == Fault({"error"}) /\ Goto(m, "conflict")

\* _recover_committed_migration: where the command goes.
\* [Faulty variant] a journal that says published is believed.
RecoveryBelieves(j, otherwise) ==
    CASE j.status = "cutover-published" -> "finish"
      [] j.status # "cutover-published" /\ catalog.domain = "legacy" -> "conflict"
      [] OTHER -> otherwise

Recovery(j, otherwise) ==
    CASE catalog.domain = "new" /\ MatchesJournal(j) -> "finish"
      [] catalog.domain = "legacy" \/ (j.status = "cutover-published" /\ ~MatchesJournal(j)) -> "conflict"
      [] OTHER -> otherwise

Recover(m) ==
    /\ pc[m] = "recover"
    /\ \/ Goto(m, Recovery(mine[m], "legacy")) /\ UNCHANGED faults
       \/ Unreadable(m)
    /\ UNCHANGED <<bucket, saves>>

\* A legacy catalog is read with the old key and, if the journal is active,
\* has to be the one the journal was made from.
ReadLegacy(m) ==
    /\ pc[m] = "legacy"
    /\ \/ /\ catalog.domain = "legacy"
          /\ mine[m].status \in Active => mine[m].source = catalog.etag
          /\ plan' = [plan EXCEPT ![m] = [names |-> catalog.names, etag |-> catalog.etag]]
          /\ pc' = [pc EXCEPT ![m] = CASE mine[m].status \in Replanned -> "plan"
                                       [] mine[m].status = "ready-to-commit" -> "interrupt"
                                       [] OTHER -> "migrate"]
          /\ UNCHANGED <<mine, todo>>
       \/ /\ catalog.domain = "new" \/ (mine[m].status \in Active /\ mine[m].source # catalog.etag)
          /\ Idle(m)
    /\ UNCHANGED <<bucket, saves, faults>>

\* plan_encryption_migration: an active journal is left alone.
Plan(m) ==
    /\ pc[m] \in {"plan", "plan-here"}
    /\ IF journal.status \in Active
       THEN Idle(m)
       ELSE ReadJournal(m, IF pc[m] = "plan" THEN "write-plan" ELSE "write-plan-here")
    /\ UNCHANGED <<bucket, saves, faults>>

WritePlan(m) ==
    /\ pc[m] \in {"write-plan", "write-plan-here"}
    /\ \/ /\ PutJournal(NewJournal(plan[m]), mine[m].etag, "ok")
          /\ Goto(m, IF pc[m] = "write-plan" THEN "migrate" ELSE "planned")
       \/ /\ \E outcome \in {"refused", "unknown"} : PutJournal(NewJournal(plan[m]), mine[m].etag, outcome)
          /\ Idle(m)
    /\ UNCHANGED <<catalog, unstored, removed, deleted, saves>>

-----------------------------------------------------------------------------
(* migrate_encryption(resume=True).                                        *)

\* _validate_journal_identity and _validate_journal_mapping_set: where the
\* command goes with journal j.
Validated(m, j) ==
    CASE j.source # plan[m].etag -> "fail"
      [] j.source = plan[m].etag /\ j.status \in Published -> "match"
      [] OTHER -> "start"

\* Without a journal one is planned and read again, and that one is taken
\* whatever it says; otherwise it has to be active.
Migrate(m) ==
    /\ pc[m] \in {"migrate", "planned"}
    /\ CASE journal.status = "none" -> Goto(m, "plan-here")
         [] journal.status \in Published -> ReadJournal(m, "recover-here")
         [] journal.status \in Active \ Published -> ReadJournal(m, Validated(m, journal))
         [] OTHER -> IF pc[m] = "planned" THEN ReadJournal(m, Validated(m, journal)) ELSE Idle(m)
    /\ UNCHANGED <<bucket, saves, faults>>

RecoverHere(m) ==
    /\ pc[m] = "recover-here"
    /\ \/ Goto(m, Recovery(mine[m], Validated(m, mine[m]))) /\ UNCHANGED faults
       \/ Unreadable(m)
    /\ UNCHANGED <<bucket, saves>>

\* _destination_catalog_matches_migration: any other catalog is a conflict.
Match(m) ==
    /\ pc[m] = "match"
    /\ \/ /\ Goto(m, IF catalog.domain = "new" /\ MatchesJournal(mine[m]) THEN "finish" ELSE "conflict")
          /\ UNCHANGED faults
       \/ Unreadable(m)
    /\ UNCHANGED <<bucket, saves>>

NextDoc(m) == CHOOSE d \in todo[m] : TRUE

Visited(m, d) == todo' = [todo EXCEPT ![m] = @ \ {d}]

\* verify_object: the copy was stored, and no removal has deleted it.
Available(c) == c \notin unstored \cup deleted

\* A verified mapping is verified again, and copied again if that fails.
Verify(m) ==
    /\ pc[m] = "copy" /\ todo[m] # {}
    /\ LET d == NextDoc(m)
       IN  /\ mine[m].maps[d] # NoCopy
           /\ \/ Available(mine[m].maps[d]) /\ Visited(m, d) /\ UNCHANGED <<mine, faults>>
              \/ /\ Fault({"error"}) \/ (~Available(mine[m].maps[d]) /\ UNCHANGED faults)
                 /\ mine' = [mine EXCEPT ![m].maps[d] = NoCopy]
                 /\ UNCHANGED todo
    /\ UNCHANGED <<bucket, pc, plan, saves>>

\* put_file of a fresh ciphertext, with its read-back
\* [Faulty variant] a failed put is not noticed.
StoredOrNot(c) == unstored' \in {unstored, unstored \cup {c}}

Stored(c) == UNCHANGED unstored

\* The source object is downloaded and decrypted; a removal may have deleted it.
Copy(m) ==
    /\ pc[m] = "copy" /\ todo[m] # {}
    /\ LET d == NextDoc(m)
           c == <<d, m, mine[m].etag>>
       IN  /\ mine[m].maps[d] = NoCopy
           /\ \/ /\ d \notin deleted /\ Stored(c)
                 /\ mine' = [mine EXCEPT ![m].maps[d] = c]
                 /\ Visited(m, d)
                 /\ pc' = [pc EXCEPT ![m] = "record"]
                 /\ UNCHANGED <<plan, faults>>
              \/ /\ \/ Fault({"error"}) /\ unstored' \in {unstored, unstored \cup {c}}
                    \/ d \in deleted /\ UNCHANGED <<unstored, faults>>
                 /\ Goto(m, "fail")
    /\ UNCHANGED <<catalog, journal, removed, deleted, pending, saves>>

\* A prerequisite, a download or the source catalog fails, or the user
\* interrupts the copies.
Abandon(m) ==
    /\ \/ pc[m] \in {"start", "copy"} /\ Fault({"error"}) /\ Goto(m, "fail")
       \/ pc[m] = "copy" /\ Fault({"interrupt"}) /\ Goto(m, "stop")
    /\ UNCHANGED <<bucket, saves>>

\* The catalog has to be the one the copies were planned from.
CheckSource(m) ==
    /\ pc[m] = "copy" /\ todo[m] = {}
    /\ Goto(m, IF catalog.etag = plan[m].etag THEN "ready" ELSE "conflict")
    /\ UNCHANGED <<bucket, saves, faults>>

\* The conditional PUT of the catalog: it replaces the version `etag`.
\* [Faulty variant] the PUT has no condition.
ReplacesAny(etag) == TRUE

Replaces(etag) == catalog.etag = etag

\* [Faulty variant] the entries keep the keys of the source.
SwitchedUnmapped(names) ==
    /\ catalog' = [domain |-> "new", names |-> {c[1] : c \in names}, etag |-> catalog.etag + 1]
    /\ Superseded("catalog")

Switched(names) ==
    /\ catalog' = [domain |-> "new", names |-> names, etag |-> catalog.etag + 1]
    /\ Superseded("catalog")

\* conditional_catalog_put of _migration_catalog.  An error answer counts as
\* published; no answer at all, and a 412, as failed.  An applied PUT is read
\* back.
Switch(m) ==
    /\ pc[m] = "switch"
    /\ LET names == Mapped(mine[m])
           etag  == plan[m].etag
       IN  \/ /\ Replaces(etag) /\ Switched(names)
              /\ Goto(m, "read-back")
              /\ UNCHANGED faults
           \/ /\ ~Replaces(etag)
              /\ Goto(m, "fail")
              /\ UNCHANGED <<catalog, pending, faults>>
           \/ /\ Fault({"repeat"}) /\ Replaces(etag) /\ Switched(names)
              /\ Goto(m, "fail")
           \/ /\ Fault({"timeout", "server"})
              /\ \/ Replaces(etag) /\ Switched(names)
                 \/ UNCHANGED <<catalog, pending>>
                 \/ Replaces(etag) /\ UNCHANGED catalog /\ pending' = pending \cup {<<"catalog", names>>}
              /\ \/ "server" \in Faults /\ Goto(m, "unsure")
                 \/ "timeout" \in Faults /\ Goto(m, "fail")
    /\ UNCHANGED <<journal, unstored, removed, deleted, saves>>

\* Another machine may have replaced the catalog before it is read back; that
\* counts as published too.
ReadBack(m) ==
    /\ pc[m] = "read-back"
    /\ Goto(m, IF catalog.etag = plan[m].etag + 1 THEN "finish" ELSE "unsure")
    /\ UNCHANGED <<bucket, saves, faults>>

-----------------------------------------------------------------------------
(* The provider, the other machines, and the end of a process.             *)

Settle(r) ==
    /\ r \in pending
    /\ \/ pending' = pending \ {r} /\ UNCHANGED <<catalog, journal>>
       \/ /\ r[1] = "catalog" /\ Switched(r[2])
          /\ UNCHANGED journal
       \/ /\ r[1] = "journal" /\ journal' = JournalWith(r[2], journal.etag + 1)
          /\ Superseded("journal")
          /\ UNCHANGED catalog
    /\ UNCHANGED <<unstored, removed, deleted, local, saves, faults>>

\* A save by a machine that holds the catalog's key; ciphertexts never repeat.
Save ==
    /\ saves > 0 /\ saves' = saves - 1
    /\ \E entry \in IF catalog.domain = "legacy" THEN Docs
                    ELSE Docs \X {"save"} \X {catalog.etag} :
         /\ entry \notin catalog.names \cup removed
         /\ catalog' = [catalog EXCEPT !.names = @ \cup {entry}, !.etag = @ + 1]
    /\ Superseded("catalog")
    /\ UNCHANGED <<journal, unstored, removed, deleted, local, faults>>

\* A removal by such a machine: the catalog is replaced first.
Remove ==
    /\ saves > 0 /\ saves' = saves - 1
    /\ \E entry \in catalog.names :
         /\ catalog' = [catalog EXCEPT !.names = @ \ {entry}, !.etag = @ + 1]
         /\ removed' = removed \cup {entry}
    /\ Superseded("catalog")
    /\ UNCHANGED <<journal, unstored, deleted, local, faults>>

\* Then, unless the removal fails in between, it deletes the object.
Delete ==
    /\ \E entry \in removed \ deleted : deleted' = deleted \cup {entry}
    /\ UNCHANGED <<catalog, journal, unstored, removed, pending, local, saves, faults>>

Crash(m) ==
    /\ pc[m] # "idle" /\ Fault({"crash"})
    /\ Idle(m)
    /\ UNCHANGED <<bucket, saves>>

Step(m) ==
    \/ Begin(m) \/ Probe(m) \/ Reconcile(m) \/ Recover(m) \/ ReadLegacy(m) \/ Plan(m) \/ WritePlan(m)
    \/ Migrate(m) \/ RecoverHere(m) \/ Match(m) \/ Verify(m) \/ Copy(m)
    \/ CheckSource(m) \/ Switch(m) \/ ReadBack(m) \/ Update(m)

Next ==
    \/ \E m \in Machines : Step(m) \/ Abandon(m) \/ Crash(m)
    \/ \E r \in pending : Settle(r)
    \/ Save \/ Remove \/ Delete

Spec == Init /\ [][Next]_vars

\* Somebody resumes the migration while it is not committed, a command goes
\* on, and a request ends.
FairSpec ==
    /\ Spec
    /\ WF_vars(\E m \in Machines : Step(m))
    /\ WF_vars(\E r \in pending : Settle(r))

-----------------------------------------------------------------------------
\* Every variable keeps its type: in particular the catalog of a domain holds
\* only that domain's entries (_migration_catalog).
TypeOK ==
    /\ catalog.domain \in {"legacy", "new"} /\ catalog.etag \in Nat
    /\ catalog.names \subseteq (IF catalog.domain = "legacy" THEN Docs ELSE Copies)
    /\ journal.status \in Active \cup Replanned \cup {"none", "committed"} /\ journal.etag \in Nat
    /\ Mapped(journal) \subseteq Copies \cup {NoCopy}
    /\ pc \in [Machines -> Labels]
    /\ \A m \in Machines : todo[m] \subseteq DOMAIN mine[m].maps /\ plan[m].names \subseteq Docs
    /\ \A m \in Machines : pc[m] \in DOMAIN Updates => mine[m].etag \in Nat \ {0}
    /\ \A r \in pending : r[1] \in {"journal", "catalog"}

\* The switch to the new key changes the key and nothing else: the catalog
\* names exactly what the one it replaces named at that moment, whatever
\* other machines saved or removed while the copies were made, and however
\* late the PUT is applied (migrate_encryption, conditional_catalog_put).
SwitchKeepsContents ==
    [][catalog'.domain # catalog.domain => Names(catalog') = Names(catalog)]_vars

\* What the new catalog names is in the bucket under the new key, and what a
\* journal lists as copied was stored and is still there unless somebody
\* removed it from the new catalog since (put_file, _verify_destination_object).
CopiesExist ==
    /\ catalog.domain = "new" => catalog.names \cap (unstored \cup deleted) = {}
    /\ Mapped(journal) \cap unstored = {}
    /\ catalog.domain = "legacy" => Mapped(journal) \cap deleted = {}

\* A journal says committed only when the catalog was switched, in whatever
\* order the machines that resume it, reconcile it and publish run
\* (reconcile_encryption_migration, _recover_committed_migration).
CommittedIsSwitched == journal.status = "committed" => catalog.domain = "new"

\* The journal was made from a catalog that has since been changed.
Outdated ==
    journal.status \in Active /\ catalog.domain = "legacy" /\ journal.source # catalog.etag

\* If it is resumed often enough the migration completes, except that an
\* active journal whose catalog was changed blocks it for good: resume stops
\* at the ETag comparison without recording anything (cli.py, resume).
CompletesOrOutdated == <>(catalog.domain = "new") \/ <>[]Outdated
=============================================================================
