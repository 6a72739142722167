-------------------------- MODULE MigrationProofs --------------------------
(***************************************************************************)
(* What TLAPS proves about Migration for any number of machines, documents *)
(* and catalog changes and under every fault: the switch to the new key    *)
(* loses nothing and adds nothing, and what is said to be copied is.       *)
(***************************************************************************)
EXTENDS Migration, TLAPS

Statuses == Active \cup Replanned \cup {"none", "committed"}
Maps     == UNION {[S -> Copies \cup {NoCopy}] : S \in SUBSET Docs}
Journals == [status : Statuses, source : Nat, maps : Maps, etag : Nat]
Bodies   == [status : Statuses, source : Nat, maps : Maps]
Plans    == [names : SUBSET Docs, etag : Nat]
Catalogs == [domain : {"legacy", "new"}, names : SUBSET (Docs \cup Copies), etag : Nat]
Requests == ({"journal"} \X Bodies) \cup ({"catalog"} \X SUBSET Copies)

\* The full types; TypeOK follows from them and the rest of the invariant.
Types ==
    /\ catalog \in Catalogs /\ journal \in Journals /\ unstored \subseteq Copies /\ pending \subseteq Requests
    /\ pc \in [Machines -> Labels] /\ mine \in [Machines -> Journals] /\ plan \in [Machines -> Plans]
    /\ todo \in [Machines -> SUBSET Docs] /\ saves \in Nat /\ faults \in Nat

\* What journals say, in the bucket, in memory and under way: the version of
\* the catalog they were made from, and the copies.
Contents ==
    {<<journal.source, journal.maps>>} \cup {<<mine[m].source, mine[m].maps>> : m \in Machines}
      \cup {<<r[2].source, r[2].maps>> : r \in {q \in pending : q[1] = "journal"}} \cup {<<0, <<>>>>}

\* Who has seen which version of the legacy catalog, and what it named.
Versions ==
    {<<x[1], DOMAIN x[2]>> : x \in Contents} \cup {<<plan[m].etag, plan[m].names>> : m \in Machines}
      \cup (IF catalog.domain = "legacy" THEN {<<catalog.etag, catalog.names>>} ELSE {})

\* The copies that something refers to: a journal, a catalog PUT under way, or
\* the catalog.
Filed    == UNION {{x[2][d] : d \in DOMAIN x[2]} : x \in Contents}
Sent     == UNION {r[2] : r \in {q \in pending : q[1] = "catalog"}}
Referred == Filed \cup Sent \cup (IF catalog.domain = "new" THEN catalog.names ELSE {})

\* Versions of the catalog are told apart by their ETags.
VersionInv ==
    /\ catalog.etag # 0
    /\ \A v \in Versions : v[1] <= catalog.etag /\ (catalog.domain = "new" => v[1] # catalog.etag)
    /\ \A v, w \in Versions : v[1] = w[1] => v[2] = w[2]

\* A copy is filed under its document, is in the bucket once something refers
\* to it, and is not younger than the journal.
CopyInv ==
    /\ \A x \in Contents : \A d \in DOMAIN x[2] : x[2][d] # NoCopy => x[2][d][1] = d
    /\ Referred \cap unstored = {}
    /\ \A c \in Referred \cup unstored : c # NoCopy /\ c[2] # "save" => c[3] <= journal.etag
    /\ \A c \in unstored : c[2] # "save"

\* A catalog PUT under way names what the catalog names, and a journal says
\* committed only after the switch.
RequestInv ==
    /\ \A r \in pending : r[1] = "catalog" => catalog.domain = "legacy" /\ {c[1] : c \in r[2]} = catalog.names
    /\ \A r \in pending : r[1] = "journal" /\ r[2].status = "committed" => catalog.domain = "new"
    /\ journal.status = "committed" => catalog.domain = "new"
    /\ journal.status # "none" => journal.etag # 0
    /\ catalog.names \subseteq IF catalog.domain = "legacy" THEN Docs ELSE Copies

Running == {"start", "copy", "record", "ready", "switch"}

\* Where the command has a journal that was written.
Journaled == DOMAIN Updates \cup {"copy", "switch", "read-back", "recover", "recover-here", "match"}

\* What holds of the command of machine m, which is at l with journal j, plan p
\* and mappings t to visit: it copies the catalog it planned from, its copies
\* are younger than all others it made, and it publishes a complete set.
Fit(m, l, j, p, t) ==
    /\ j.etag <= journal.etag
    /\ j.status # "none" => j.etag # 0
    /\ l \in Journaled => j.etag # 0
    /\ l \in {"finish", "read-back"} => catalog.domain = "new"
    /\ l \in Running => j.source = p.etag
    /\ t \subseteq DOMAIN j.maps
    /\ l \notin {"copy", "record", "fail", "stop"} => t = {}
    /\ l \in {"copy", "record", "ready", "switch"} => \A d \in DOMAIN j.maps \ t : j.maps[d] # NoCopy
    /\ l = "copy" => \A c \in Referred \cup unstored : c # NoCopy /\ c[2] = m => c[3] < j.etag

MachineInv(m) == Fit(m, pc[m], mine[m], plan[m], todo[m])

\* What is removed is no longer named, and while the catalog is a legacy one
\* nothing but documents has been.
RemovedInv ==
    /\ deleted \subseteq removed
    /\ catalog.names \cap removed = {}
    /\ catalog.domain = "legacy" => removed \subseteq Docs

Inv == Types /\ VersionInv /\ CopyInv /\ RequestInv /\ \A m \in Machines : MachineInv(m)

-----------------------------------------------------------------------------
(* Types.                                                                  *)

\* What a mapping of documents to copies is.
LEMMA MapsMeaning ==
    /\ \A f \in Maps : DOMAIN f \subseteq Docs /\ \A d \in DOMAIN f : f[d] \in Copies \cup {NoCopy}
    /\ \A S \in SUBSET Docs : \A f \in [S -> Copies \cup {NoCopy}] : f \in Maps
  BY DEF Maps

\* The mappings that occur.
LEMMA MapsTypes ==
    /\ <<>> \in Maps /\ DOMAIN <<>> = {}
    /\ \A S \in SUBSET Docs : [d \in S |-> NoCopy] \in Maps
    /\ \A f \in Maps : \A d \in DOMAIN f : \A c \in Copies \cup {NoCopy} :
          [f EXCEPT ![d] = c] \in Maps /\ DOMAIN [f EXCEPT ![d] = c] = DOMAIN f
  <1>1. DOMAIN <<>> = {} /\ <<>> \in [{} -> Copies \cup {NoCopy}]
    OBVIOUS
  <1>2. \A S \in SUBSET Docs : [d \in S |-> NoCopy] \in [S -> Copies \cup {NoCopy}]
    OBVIOUS
  <1>3. ASSUME NEW f \in Maps, NEW d \in DOMAIN f, NEW c \in Copies \cup {NoCopy}
        PROVE  [f EXCEPT ![d] = c] \in Maps /\ DOMAIN [f EXCEPT ![d] = c] = DOMAIN f
    <2>1. PICK S \in SUBSET Docs : f \in [S -> Copies \cup {NoCopy}]
      BY DEF Maps
    <2>2. [f EXCEPT ![d] = c] \in [S -> Copies \cup {NoCopy}] /\ DOMAIN f = S
      BY <2>1
    <2> QED BY <2>1, <2>2, MapsMeaning
  <1> QED BY <1>1, <1>2, <1>3, MapsMeaning

\* The journals and plans that occur.
LEMMA JournalTypes ==
    /\ NoJournal \in Journals /\ [names |-> {}, etag |-> 0] \in Plans
    /\ \A p \in Plans : NewJournal(p) \in Bodies
    /\ \A b \in Bodies, k \in Nat : JournalWith(b, k) \in Journals
    /\ \A j \in Journals, s \in Statuses : [status |-> s, source |-> j.source, maps |-> j.maps] \in Bodies
  BY MapsTypes DEF NoJournal, Journals, Plans, NewJournal, Bodies, JournalWith, Statuses, Active

\* No copy is not a copy.
LEMMA NoCopyType == NoCopy \notin Copies
  BY DEF NoCopy, Copies

\* What the types say of what one machine holds.
LEMMA MachineTypes ==
    ASSUME Types, NEW m \in Machines
    PROVE  /\ mine[m] \in Journals /\ mine[m].etag \in Nat /\ mine[m].source \in Nat /\ mine[m].maps \in Maps
           /\ mine[m].status \in Statuses
           /\ plan[m] \in Plans /\ plan[m].etag \in Nat /\ plan[m].names \in SUBSET Docs
           /\ todo[m] \in SUBSET Docs /\ pc[m] \in Labels
           /\ <<mine[m].source, mine[m].maps>> \in Contents
           /\ <<mine[m].source, DOMAIN mine[m].maps>> \in Versions
           /\ <<plan[m].etag, plan[m].names>> \in Versions
  <1>1. mine[m] \in Journals /\ plan[m] \in Plans
    BY DEF Types
  <1>2. <<mine[m].source, mine[m].maps>> \in Contents
    BY DEF Contents
  <1>3. \A x \in Contents : <<x[1], DOMAIN x[2]>> \in Versions
    BY DEF Versions
  <1>4. <<mine[m].source, DOMAIN mine[m].maps>> \in Versions
    BY <1>2, <1>3
  <1> QED BY <1>1, <1>2, <1>4 DEF Types, Journals, Plans, Versions

\* What the types say of the bucket.
LEMMA BucketTypes ==
    ASSUME Types
    PROVE  /\ catalog.etag \in Nat /\ catalog.domain \in {"legacy", "new"}
           /\ journal.etag \in Nat /\ journal.source \in Nat /\ journal.maps \in Maps /\ journal.status \in Statuses
           /\ <<journal.source, journal.maps>> \in Contents
           /\ \A x \in Contents : x[1] \in Nat /\ x[2] \in Maps
           /\ \A v \in Versions : v[1] \in Nat
  <1>1. \A x \in Contents : x[1] \in Nat /\ x[2] \in Maps
    BY MapsTypes DEF Types, Contents, Journals, Requests, Bodies
  <1>2. \A v \in Versions : v[1] \in Nat
    BY <1>1 DEF Types, Versions, Plans, Catalogs
  <1> QED BY <1>1, <1>2 DEF Types, Catalogs, Journals, Contents

\* What it means to be referred to, now and after a step.
LEMMA ReferredMeaning ==
    /\ \A c : c \in Referred <=>
          \/ \E x \in Contents : \E d \in DOMAIN x[2] : c = x[2][d]
          \/ \E r \in pending : r[1] = "catalog" /\ c \in r[2]
          \/ catalog.domain = "new" /\ c \in catalog.names
    /\ \A c : c \in Referred' <=>
          \/ \E x \in Contents' : \E d \in DOMAIN x[2] : c = x[2][d]
          \/ \E r \in pending' : r[1] = "catalog" /\ c \in r[2]
          \/ catalog'.domain = "new" /\ c \in catalog'.names
  <1>1. \A c : c \in Filed <=> \E x \in Contents : \E d \in DOMAIN x[2] : c = x[2][d]
    BY DEF Filed
  <1>2. \A c : c \in Filed' <=> \E x \in Contents' : \E d \in DOMAIN x[2] : c = x[2][d]
    BY DEF Filed
  <1>3. \A c : c \in Sent <=> \E r \in pending : r[1] = "catalog" /\ c \in r[2]
    BY DEF Sent
  <1>4. \A c : c \in Sent' <=> \E r \in pending' : r[1] = "catalog" /\ c \in r[2]
    BY DEF Sent
  <1>5. \A c : c \in Referred <=>
          \/ \E x \in Contents : \E d \in DOMAIN x[2] : c = x[2][d]
          \/ \E r \in pending : r[1] = "catalog" /\ c \in r[2]
          \/ catalog.domain = "new" /\ c \in catalog.names
    BY <1>1, <1>3 DEF Referred
  <1>6. \A c : c \in Referred' <=>
          \/ \E x \in Contents' : \E d \in DOMAIN x[2] : c = x[2][d]
          \/ \E r \in pending' : r[1] = "catalog" /\ c \in r[2]
          \/ catalog'.domain = "new" /\ c \in catalog'.names
    BY <1>2, <1>4 DEF Referred
  <1> QED BY <1>5, <1>6

\* What is referred to are copies.
LEMMA ReferredTypes == ASSUME Inv PROVE \A c \in Referred : c = NoCopy \/ c \in Copies
  <1>1. \A x \in Contents : \A d \in DOMAIN x[2] : x[2][d] \in Copies \cup {NoCopy}
    BY BucketTypes, MapsMeaning DEF Inv
  <1>2. \A r \in pending : r[1] = "catalog" => r[2] \subseteq Copies
    BY DEF Inv, Types, Requests
  <1>3. catalog.domain = "new" => catalog.names \subseteq Copies
    BY DEF Inv, RequestInv
  <1> QED BY <1>1, <1>2, <1>3, ReferredMeaning

-----------------------------------------------------------------------------
(* Steps that leave the catalog alone.                                     *)

\* A step that only moves journals about, or plans one from a catalog that was
\* seen, refers to nothing new.
LEMMA JournalsMove ==
    ASSUME Inv, Types', UNCHANGED <<catalog, unstored>>, journal'.etag >= journal.etag,
           \A x \in Contents' : \/ x \in Contents
                                \/ <<x[1], DOMAIN x[2]>> \in Versions /\ \A d \in DOMAIN x[2] : x[2][d] = NoCopy,
           \A m \in Machines : <<plan'[m].etag, plan'[m].names>> \in Versions,
           \A r \in pending' : r \in pending \/ r[1] = "journal",
           \A r \in pending' : r[1] = "journal" /\ r[2].status = "committed" => catalog.domain = "new",
           journal'.status = "committed" => catalog.domain = "new",
           journal'.status # "none" => journal'.etag # 0
    PROVE  /\ VersionInv' /\ CopyInv' /\ RequestInv'
           /\ \A c \in Referred' \cup unstored' : c \in Referred \cup unstored \/ c = NoCopy
  <1>1. \A v \in Versions' : v \in Versions
    <2>1. \A x \in Contents : <<x[1], DOMAIN x[2]>> \in Versions
      BY DEF Versions
    <2>2. \A x \in Contents' : <<x[1], DOMAIN x[2]>> \in Versions
      BY <2>1
    <2> QED BY <2>2 DEF Versions
  <1>2. VersionInv'
    BY <1>1 DEF Inv, VersionInv
  <1>3. \A c \in Referred' : c \in Referred \/ c = NoCopy
    <2>1. ASSUME NEW c, NEW x \in Contents', NEW d \in DOMAIN x[2], c = x[2][d] PROVE c \in Referred \/ c = NoCopy
      BY <2>1, ReferredMeaning
    <2>2. ASSUME NEW c, NEW r \in pending', r[1] = "catalog", c \in r[2] PROVE c \in Referred
      BY <2>2, ReferredMeaning
    <2>3. ASSUME NEW c, catalog'.domain = "new", c \in catalog'.names PROVE c \in Referred
      BY <2>3, ReferredMeaning
    <2> QED BY <2>1, <2>2, <2>3, ReferredMeaning
  <1>4. CopyInv'
    <2>1. \A x \in Contents' : \A d \in DOMAIN x[2] : x[2][d] # NoCopy => x[2][d][1] = d
      BY DEF Inv, CopyInv
    <2>2. Referred' \cap unstored' = {}
      BY <1>3, NoCopyType DEF Inv, CopyInv, Types
    <2>3. journal.etag \in Nat /\ journal'.etag \in Nat
      BY DEF Inv, Types, Journals
    <2>4. \A c \in Referred \cup unstored : c # NoCopy /\ c[2] # "save" => c[3] \in Nat
      <3>1. \A c \in Referred \cup unstored : c # NoCopy => c \in Copies
        BY ReferredTypes DEF Inv, Types
      <3> QED BY <3>1 DEF Copies
    <2>5. \A c \in Referred' \cup unstored' : c # NoCopy /\ c[2] # "save" => c[3] <= journal'.etag
      BY <1>3, <2>3, <2>4 DEF Inv, CopyInv
    <2> QED BY <2>1, <2>2, <2>5 DEF Inv, CopyInv
  <1>5. RequestInv'
    BY DEF Inv, RequestInv
  <1> QED BY <1>2, <1>3, <1>4, <1>5

\* A machine that does nothing keeps what is said of it, as long as nothing of
\* its own is referred to that was not.
LEMMA OtherMachine ==
    ASSUME Inv, Types', journal'.etag >= journal.etag, catalog.domain = "new" => catalog'.domain = "new",
           NEW g \in Machines,
           pc'[g] = pc[g], mine'[g] = mine[g], plan'[g] = plan[g], todo'[g] = todo[g],
           \A c \in Referred' \cup unstored' : c \in Referred \cup unstored \/ c = NoCopy \/ c[2] # g
    PROVE  MachineInv(g)'
  <1>1. MachineInv(g) /\ mine[g].etag \in Nat /\ journal.etag \in Nat /\ journal'.etag \in Nat
    BY MachineTypes DEF Inv, Types, Journals
  <1> QED BY <1>1 DEF MachineInv, Fit

\* The command of machine m moves to l with journal j, plan p and mappings t.
Moves(m, l, j, p, t) ==
    /\ pc' = [pc EXCEPT ![m] = l]
    /\ mine' = [mine EXCEPT ![m] = j]
    /\ plan' = [plan EXCEPT ![m] = p]
    /\ todo' = [todo EXCEPT ![m] = t]

NoPlan == [names |-> {}, etag |-> 0]

\* How the steps move it.
LEMMA MovesMeaning ==
    ASSUME Types, NEW m \in Machines
    PROVE  /\ \A l : Goto(m, l) => Moves(m, l, mine[m], plan[m], todo[m])
           /\ \A l : ReadJournal(m, l) => Moves(m, l, journal, plan[m], todo[m])
           /\ Idle(m) => Moves(m, "idle", NoJournal, NoPlan, {})
  <1>1. /\ mine = [mine EXCEPT ![m] = mine[m]] /\ plan = [plan EXCEPT ![m] = plan[m]]
        /\ todo = [todo EXCEPT ![m] = todo[m]]
    BY DEF Types
  <1> QED BY <1>1 DEF Goto, ReadJournal, Idle, Moves, NoPlan

\* A move keeps the types.
LEMMA MovesTypes ==
    ASSUME Types, NEW m \in Machines, NEW l \in Labels, NEW j \in Journals, NEW p \in Plans, NEW t \in SUBSET Docs,
           Moves(m, l, j, p, t)
    PROVE  /\ pc' \in [Machines -> Labels] /\ mine' \in [Machines -> Journals] /\ plan' \in [Machines -> Plans]
           /\ todo' \in [Machines -> SUBSET Docs]
           /\ pc'[m] = l /\ mine'[m] = j /\ plan'[m] = p /\ todo'[m] = t
           /\ \A g \in Machines \ {m} : pc'[g] = pc[g] /\ mine'[g] = mine[g] /\ plan'[g] = plan[g] /\ todo'[g] = todo[g]
  BY DEF Types, Moves

\* A fault is used up, or not.
Spends == faults' = faults \/ \E k : Fault(k)

\* A step of a command that leaves the bucket alone and fits where it goes
\* preserves the invariant.
LEMMA LocalStep ==
    ASSUME Inv, NEW m \in Machines, NEW l \in Labels, NEW j \in {mine[m], journal, NoJournal},
           NEW p \in Plans, <<p.etag, p.names>> \in Versions, NEW t \in SUBSET Docs,
           Moves(m, l, j, p, t), UNCHANGED <<catalog, journal, unstored, pending, saves>>, Spends,
           Fit(m, l, j, p, t)
    PROVE  Inv'
  <1>1. j \in Journals
    BY JournalTypes DEF Inv, Types
  <1>2. /\ pc' \in [Machines -> Labels] /\ mine' \in [Machines -> Journals] /\ plan' \in [Machines -> Plans]
        /\ todo' \in [Machines -> SUBSET Docs]
        /\ pc'[m] = l /\ mine'[m] = j /\ plan'[m] = p /\ todo'[m] = t
        /\ \A g \in Machines \ {m} : pc'[g] = pc[g] /\ mine'[g] = mine[g] /\ plan'[g] = plan[g] /\ todo'[g] = todo[g]
    BY <1>1, MovesTypes DEF Inv
  <1>3. Types'
    BY <1>2 DEF Inv, Types, Spends, Fault
  <1>4. \A x \in Contents' : x \in Contents
    <2>1. \A g \in Machines : <<mine'[g].source, mine'[g].maps>> \in Contents
      BY <1>2 DEF Contents, NoJournal
    <2> QED BY <2>1 DEF Contents
  <1>5. \A g \in Machines : <<plan'[g].etag, plan'[g].names>> \in Versions
    BY <1>2, MachineTypes DEF Inv
  <1>6. journal'.etag >= journal.etag
    BY BucketTypes DEF Inv
  <1>7. /\ VersionInv' /\ CopyInv' /\ RequestInv'
        /\ \A c \in Referred' \cup unstored' : c \in Referred \cup unstored \/ c = NoCopy
    BY <1>3, <1>4, <1>5, <1>6, JournalsMove DEF Inv, RequestInv
  <1>8. \A g \in Machines \ {m} : MachineInv(g)'
    BY <1>2, <1>3, <1>6, <1>7, OtherMachine
  <1>9. MachineInv(m)'
    BY <1>2, <1>7 DEF MachineInv, Fit
  <1> QED BY <1>3, <1>7, <1>8, <1>9 DEF Inv

\* A command that ends.
LEMMA IdleStep ==
    ASSUME Inv, NEW m \in Machines, Idle(m), UNCHANGED <<catalog, journal, unstored, pending, saves>>, Spends
    PROVE  Inv'
  <1>1. Moves(m, "idle", NoJournal, NoPlan, {}) /\ NoPlan \in Plans /\ "idle" \in Labels
    BY MovesMeaning, JournalTypes DEF Inv, NoPlan, Labels
  <1>2. <<NoPlan.etag, NoPlan.names>> \in Versions
    <2>1. <<0, <<>>>> \in Contents /\ DOMAIN <<>> = {}
      BY MapsTypes DEF Contents
    <2>2. \A x \in Contents : <<x[1], DOMAIN x[2]>> \in Versions
      BY DEF Versions
    <2> QED BY <2>1, <2>2 DEF NoPlan
  <1>3. Fit(m, "idle", NoJournal, NoPlan, {})
    BY BucketTypes DEF Inv, Fit, NoJournal, NoPlan, Journaled, Updates, Running
  <1> QED BY <1>1, <1>2, <1>3, LocalStep

\* A command that goes on.
LEMMA GotoStep ==
    ASSUME Inv, NEW m \in Machines, NEW l \in Labels, Goto(m, l),
           UNCHANGED <<catalog, journal, unstored, pending, saves>>, Spends,
           Fit(m, l, mine[m], plan[m], todo[m])
    PROVE  Inv'
  <1>1. Moves(m, l, mine[m], plan[m], todo[m])
    BY MovesMeaning DEF Inv
  <1> QED BY <1>1, MachineTypes, LocalStep DEF Inv

\* Where nothing is copied.
Quiet == Labels \ {"copy", "record", "ready", "switch", "fail", "stop", "finish", "read-back"}

\* A command that goes on to where nothing is copied.
LEMMA QuietStep ==
    ASSUME Inv, NEW m \in Machines, NEW l \in Quiet, Goto(m, l),
           UNCHANGED <<catalog, journal, unstored, pending, saves>>, Spends,
           todo[m] = {},
           l \in Journaled => mine[m].etag # 0,
           l = "start" => mine[m].source = plan[m].etag
    PROVE  Inv'
  <1>1. Fit(m, l, mine[m], plan[m], todo[m])
    BY DEF Inv, MachineInv, Fit, Quiet, Running
  <1> QED BY <1>1, GotoStep DEF Quiet

\* A command that reads the journal.
LEMMA ReadStep ==
    ASSUME Inv, NEW m \in Machines, NEW l \in Quiet \cup {"fail"}, ReadJournal(m, l),
           UNCHANGED <<catalog, journal, unstored, pending, saves>>, Spends,
           todo[m] = {},
           l \in Journaled => journal.status # "none",
           l = "start" => journal.source = plan[m].etag
    PROVE  Inv'
  <1>1. Moves(m, l, journal, plan[m], todo[m]) /\ l \in Labels
    BY MovesMeaning DEF Inv, Quiet, Labels, Updates
  <1>2. Fit(m, l, journal, plan[m], todo[m])
    BY BucketTypes DEF Inv, RequestInv, Fit, Quiet, Running
  <1> QED BY <1>1, <1>2, MachineTypes, LocalStep DEF Inv

\* Begin preserves the invariant.
LEMMA BeginStep == ASSUME Inv, NEW m \in Machines, Begin(m) PROVE Inv'
  <1>1. UNCHANGED <<catalog, journal, unstored, pending, saves>> /\ Spends /\ todo[m] = {}
    BY DEF Begin, bucket, Spends, Inv, MachineInv, Fit
  <1>2. \E l \in {"probe", "reconcile"} : ReadJournal(m, l)
    BY DEF Begin
  <1>3. {"probe", "reconcile"} \subseteq Quiet \ Journaled
    BY DEF Quiet, Labels, Journaled, Updates
  <1> QED BY <1>1, <1>2, <1>3, ReadStep DEF Journaled, Updates

\* Probe and Reconcile preserve the invariant.
LEMMA ProbeStep == ASSUME Inv, NEW m \in Machines, Probe(m) \/ Reconcile(m) PROVE Inv'
  <1>1. UNCHANGED <<catalog, journal, unstored, pending, saves>> /\ Spends /\ todo[m] = {}
    BY DEF Probe, Reconcile, bucket, Spends, Inv, MachineInv, Fit
  <1>2. \/ \E l \in {"reconcile", "legacy"} : Goto(m, l)
        \/ journal.status \in Published /\ ReadJournal(m, "recover")
    BY DEF Probe, Reconcile
  <1>3. {"reconcile", "legacy"} \subseteq Quiet \ Journaled /\ "recover" \in Quiet
    BY DEF Quiet, Labels, Journaled, Updates
  <1>4. "none" \notin Published
    BY DEF Published
  <1> QED BY <1>1, <1>2, <1>3, <1>4, QuietStep, ReadStep

\* What the recovery decides.
LEMMA RecoveryMeaning ==
    ASSUME NEW j, NEW l
    PROVE  /\ Recovery(j, l) \in {"finish", "conflict", l}
           /\ Recovery(j, l) = "finish" => catalog.domain = "new" \/ l = "finish"
  BY DEF Recovery

\* A command that goes to record the end of the migration.
LEMMA FinishStep ==
    ASSUME Inv, NEW m \in Machines, Goto(m, "finish"), catalog.domain = "new", mine[m].etag # 0, todo[m] = {},
           UNCHANGED <<catalog, journal, unstored, pending, saves>>, Spends
    PROVE  Inv'
  <1>1. "finish" \in Labels
    BY DEF Labels, Updates
  <1>2. Fit(m, "finish", mine[m], plan[m], todo[m])
    BY DEF Inv, MachineInv, Fit, Running
  <1> QED BY <1>1, <1>2, GotoStep

\* Recover preserves the invariant.
LEMMA RecoverStep == ASSUME Inv, NEW m \in Machines, Recover(m) PROVE Inv'
  <1>1. /\ UNCHANGED <<catalog, journal, unstored, pending, saves>> /\ Spends /\ todo[m] = {} /\ mine[m].etag # 0
        /\ pc[m] = "recover"
    BY DEF Recover, Unreadable, bucket, Spends, Inv, MachineInv, Fit, Journaled
  <1>2. \/ \E l \in {"conflict", "legacy"} : Goto(m, l)
        \/ catalog.domain = "new" /\ Goto(m, "finish")
    BY RecoveryMeaning DEF Recover, Unreadable
  <1>3. {"conflict", "legacy"} \subseteq Quiet
    BY DEF Quiet, Labels, Updates
  <1> QED BY <1>1, <1>2, <1>3, QuietStep, FinishStep

\* ReadLegacy preserves the invariant.
LEMMA ReadLegacyStep == ASSUME Inv, NEW m \in Machines, ReadLegacy(m) PROVE Inv'
  <1>1. /\ UNCHANGED <<catalog, journal, unstored, pending, saves>> /\ Spends /\ todo[m] = {}
    BY DEF ReadLegacy, bucket, Spends, Inv, MachineInv, Fit
  <1>2. CASE Idle(m)
    BY <1>1, <1>2, IdleStep
  <1>3. CASE catalog.domain = "legacy" /\ ~Idle(m)
    <2> DEFINE p == [names |-> catalog.names, etag |-> catalog.etag]
    <2>1. PICK l \in {"plan", "interrupt", "migrate"} :
             /\ l = "interrupt" => mine[m].status = "ready-to-commit"
             /\ pc' = [pc EXCEPT ![m] = l] /\ plan' = [plan EXCEPT ![m] = p] /\ UNCHANGED <<mine, todo>>
      BY <1>3 DEF ReadLegacy
    <2>2. Moves(m, l, mine[m], p, todo[m])
      BY <2>1 DEF Inv, Types, Moves
    <2>3. p \in Plans /\ <<p.etag, p.names>> \in Versions
      BY <1>3, BucketTypes DEF Inv, RequestInv, Versions, Plans
    <2>4. l \in Labels
      BY DEF Labels, Updates
    <2> HIDE DEF p
    <2>5. Fit(m, l, mine[m], p, todo[m])
      BY <1>1, <2>1 DEF Inv, MachineInv, Fit, Journaled, Updates, Running
    <2> QED BY <1>1, <2>2, <2>3, <2>4, <2>5, MachineTypes, LocalStep DEF Inv
  <1> QED BY <1>2, <1>3 DEF ReadLegacy

\* Plan preserves the invariant.
LEMMA PlanStep == ASSUME Inv, NEW m \in Machines, Plan(m) PROVE Inv'
  <1>1. UNCHANGED <<catalog, journal, unstored, pending, saves>> /\ Spends /\ todo[m] = {}
    BY DEF Plan, bucket, Spends, Inv, MachineInv, Fit
  <1>2. Idle(m) \/ \E l \in {"write-plan", "write-plan-here"} : ReadJournal(m, l)
    BY DEF Plan
  <1>3. {"write-plan", "write-plan-here"} \subseteq Quiet \ Journaled
    BY DEF Quiet, Labels, Journaled, Updates
  <1> QED BY <1>1, <1>2, <1>3, IdleStep, ReadStep

\* Migrate preserves the invariant.
LEMMA MigrateStep == ASSUME Inv, NEW m \in Machines, Migrate(m) PROVE Inv'
  <1>1. UNCHANGED <<catalog, journal, unstored, pending, saves>> /\ Spends /\ todo[m] = {}
    BY DEF Migrate, bucket, Spends, Inv, MachineInv, Fit
  <1>2. \/ Goto(m, "plan-here") \/ Idle(m)
        \/ /\ journal.status # "none"
           /\ \E l \in {"recover-here", "fail", "match", "start"} :
                 ReadJournal(m, l) /\ (l = "start" => journal.source = plan[m].etag)
    BY DEF Migrate, Validated, Published, Active
  <1>3. "plan-here" \in Quiet \ Journaled /\ {"recover-here", "match", "start"} \subseteq Quiet
    BY DEF Quiet, Labels, Journaled, Updates
  <1> QED BY <1>1, <1>2, <1>3, IdleStep, QuietStep, ReadStep

\* RecoverHere preserves the invariant.
LEMMA RecoverHereStep == ASSUME Inv, NEW m \in Machines, RecoverHere(m) PROVE Inv'
  <1>1. /\ UNCHANGED <<catalog, journal, unstored, pending, saves>> /\ Spends /\ todo[m] = {} /\ mine[m].etag # 0
    BY DEF RecoverHere, Unreadable, bucket, Spends, Inv, MachineInv, Fit, Journaled
  <1>2. \/ Goto(m, Recovery(mine[m], Validated(m, mine[m]))) \/ Goto(m, "conflict")
    BY DEF RecoverHere, Unreadable
  <1>3. /\ Validated(m, mine[m]) \in {"fail", "match", "start"}
        /\ Validated(m, mine[m]) = "start" => mine[m].source = plan[m].etag
    BY DEF Validated
  <1>4. \/ \E l \in {"conflict", "match", "start"} : Goto(m, l) /\ (l = "start" => mine[m].source = plan[m].etag)
        \/ Goto(m, "fail")
        \/ catalog.domain = "new" /\ Goto(m, "finish")
    BY <1>2, <1>3, RecoveryMeaning
  <1>5. {"conflict", "match", "start"} \subseteq Quiet /\ "fail" \in Labels
    BY DEF Quiet, Labels, Updates
  <1>6. Fit(m, "fail", mine[m], plan[m], todo[m])
    BY <1>1 DEF Inv, MachineInv, Fit, Running
  <1> QED BY <1>1, <1>4, <1>5, <1>6, QuietStep, FinishStep, GotoStep

\* Match preserves the invariant.
LEMMA MatchStep == ASSUME Inv, NEW m \in Machines, Match(m) PROVE Inv'
  <1>1. /\ UNCHANGED <<catalog, journal, unstored, pending, saves>> /\ Spends /\ todo[m] = {} /\ mine[m].etag # 0
    BY DEF Match, Unreadable, bucket, Spends, Inv, MachineInv, Fit, Journaled
  <1>2. Goto(m, "conflict") \/ (catalog.domain = "new" /\ Goto(m, "finish"))
    BY DEF Match, Unreadable
  <1>3. "conflict" \in Quiet
    BY DEF Quiet, Labels, Updates
  <1> QED BY <1>1, <1>2, <1>3, QuietStep, FinishStep

\* Abandon preserves the invariant.
LEMMA AbandonStep == ASSUME Inv, NEW m \in Machines, Abandon(m) PROVE Inv'
  <1>1. /\ UNCHANGED <<catalog, journal, unstored, pending, saves>> /\ Spends /\ mine[m].etag # 0
    BY DEF Abandon, bucket, Spends, Inv, MachineInv, Fit, Journaled, Updates
  <1>2. \E l \in {"fail", "stop"} : Goto(m, l)
    BY DEF Abandon
  <1>3. {"fail", "stop"} \subseteq Labels
    BY DEF Labels, Updates
  <1>4. \A l \in {"fail", "stop"} : Fit(m, l, mine[m], plan[m], todo[m])
    BY <1>1 DEF Inv, MachineInv, Fit, Running
  <1> QED BY <1>1, <1>2, <1>3, <1>4, GotoStep

\* CheckSource preserves the invariant.
LEMMA CheckSourceStep == ASSUME Inv, NEW m \in Machines, CheckSource(m) PROVE Inv'
  <1>1. /\ UNCHANGED <<catalog, journal, unstored, pending, saves>> /\ Spends /\ mine[m].etag # 0
        /\ pc[m] = "copy" /\ todo[m] = {}
    BY DEF CheckSource, bucket, Spends, Inv, MachineInv, Fit, Journaled
  <1>2. Goto(m, "ready") \/ Goto(m, "conflict")
    BY DEF CheckSource
  <1>3. "ready" \in Labels /\ "conflict" \in Quiet
    BY DEF Quiet, Labels, Updates
  <1>4. Fit(m, "ready", mine[m], plan[m], todo[m])
    BY <1>1 DEF Inv, MachineInv, Fit, Running
  <1> QED BY <1>1, <1>2, <1>3, <1>4, GotoStep, QuietStep

\* Crash preserves the invariant.
LEMMA CrashStep == ASSUME Inv, NEW m \in Machines, Crash(m) PROVE Inv'
  BY IdleStep DEF Crash, bucket, Spends

-----------------------------------------------------------------------------
(* Steps that write the journal.                                           *)

\* What a PUT of the journal may do: it is applied, or not yet, or never.
LEMMA PutEffect ==
    ASSUME Inv, NEW b, NEW e, NEW o, PutJournal(b, e, o)
    PROVE  /\ Spends
           /\ journal' = journal \/ (journal.etag = e /\ journal' = JournalWith(b, journal.etag + 1))
           /\ o = "ok" => journal.etag = e /\ journal' = JournalWith(b, journal.etag + 1)
           /\ \A r \in pending' : r \in pending \/ r = <<"journal", b>>
  BY DEF PutJournal, Superseded, Spends

\* A step may write body b to the journal: one that says what is said already,
\* or a plan from a catalog that was seen.
Writes(b) ==
    /\ b \in Bodies /\ b.status # "none" /\ (b.status = "committed" => catalog.domain = "new")
    /\ \/ <<b.source, b.maps>> \in Contents
       \/ <<b.source, DOMAIN b.maps>> \in Versions /\ \A d \in DOMAIN b.maps : b.maps[d] = NoCopy
    /\ journal' = journal \/ journal' = JournalWith(b, journal.etag + 1)
    /\ \A r \in pending' : r \in pending \/ r = <<"journal", b>>
    /\ UNCHANGED <<catalog, unstored, saves>> /\ Spends

\* A step that may write the journal keeps everything but what is said of the
\* machine that writes.
LEMMA WriteStep ==
    ASSUME Inv, NEW m \in Machines, NEW l \in Labels, NEW j \in Journals,
           NEW p \in Plans, <<p.etag, p.names>> \in Versions, NEW t \in SUBSET Docs,
           Moves(m, l, j, p, t), NEW b, Writes(b), <<j.source, j.maps>> \in Contents \cup {<<b.source, b.maps>>}
    PROVE  /\ pc'[m] = l /\ mine'[m] = j /\ plan'[m] = p /\ todo'[m] = t
           /\ journal'.etag \in Nat /\ journal'.etag >= journal.etag
           /\ \A c \in Referred' \cup unstored' : c \in Referred \cup unstored \/ c = NoCopy
           /\ MachineInv(m)' \/ Fit(m, l, j, p, t) => Inv'
  <1> USE DEF Writes
  <1>1. /\ pc' \in [Machines -> Labels] /\ mine' \in [Machines -> Journals] /\ plan' \in [Machines -> Plans]
        /\ todo' \in [Machines -> SUBSET Docs]
        /\ pc'[m] = l /\ mine'[m] = j /\ plan'[m] = p /\ todo'[m] = t
        /\ \A g \in Machines \ {m} : pc'[g] = pc[g] /\ mine'[g] = mine[g] /\ plan'[g] = plan[g] /\ todo'[g] = todo[g]
    BY MovesTypes DEF Inv
  <1>2. /\ journal.etag \in Nat /\ journal \in Journals /\ JournalWith(b, journal.etag + 1) \in Journals
        /\ JournalWith(b, journal.etag + 1).etag = journal.etag + 1
        /\ JournalWith(b, journal.etag + 1).status = b.status
        /\ JournalWith(b, journal.etag + 1).source = b.source
        /\ JournalWith(b, journal.etag + 1).maps = b.maps
    <2>1. journal.etag \in Nat /\ journal \in Journals
      BY BucketTypes DEF Inv, Types
    <2>2. JournalWith(b, journal.etag + 1) \in Journals
      BY <2>1, JournalTypes
    <2> QED BY <2>1, <2>2 DEF JournalWith
  <1>3. journal' \in Journals /\ journal'.etag \in Nat /\ journal'.etag >= journal.etag
    BY <1>2
  <1>4. pending' \subseteq Requests
    BY DEF Inv, Types, Requests
  <1>5. Types'
    <2>1. faults' \in Nat /\ saves' \in Nat /\ catalog' \in Catalogs /\ unstored' \subseteq Copies
      BY DEF Inv, Types, Spends, Fault
    <2> QED BY <1>1, <1>3, <1>4, <2>1 DEF Types
  <1>6. \A x \in Contents' : x \in Contents \cup {<<b.source, b.maps>>}
    <2>1. \A g \in Machines : <<mine'[g].source, mine'[g].maps>> \in Contents \cup {<<b.source, b.maps>>}
      BY <1>1 DEF Contents
    <2>2. <<journal'.source, journal'.maps>> \in Contents \cup {<<b.source, b.maps>>}
      BY <1>2 DEF Contents
    <2>3. \A r \in pending' : r[1] = "journal" => <<r[2].source, r[2].maps>> \in Contents \cup {<<b.source, b.maps>>}
      BY DEF Contents
    <2> QED BY <2>1, <2>2, <2>3 DEF Contents
  <1>7. \A x \in Contents' : \/ x \in Contents
                             \/ <<x[1], DOMAIN x[2]>> \in Versions /\ \A d \in DOMAIN x[2] : x[2][d] = NoCopy
    BY <1>6
  <1>8. \A g \in Machines : <<plan'[g].etag, plan'[g].names>> \in Versions
    BY <1>1, MachineTypes DEF Inv
  <1>9. /\ journal'.status = "committed" => catalog.domain = "new"
        /\ journal'.status # "none" => journal'.etag # 0
    BY <1>2 DEF Inv, RequestInv
  <1>10. \A r \in pending' : r[1] = "journal" /\ r[2].status = "committed" => catalog.domain = "new"
    BY DEF Inv, RequestInv
  <1>11. /\ VersionInv' /\ CopyInv' /\ RequestInv'
         /\ \A c \in Referred' \cup unstored' : c \in Referred \cup unstored \/ c = NoCopy
    BY <1>3, <1>5, <1>7, <1>8, <1>9, <1>10, JournalsMove
  <1>12. \A g \in Machines \ {m} : MachineInv(g)'
    BY <1>1, <1>3, <1>5, <1>11, OtherMachine
  <1>13. ASSUME Fit(m, l, j, p, t) PROVE MachineInv(m)'
    <2>1. j.etag \in Nat
      BY DEF Journals
    <2> QED BY <1>1, <1>2, <1>3, <1>11, <1>13, <2>1 DEF MachineInv, Fit
  <1> QED BY <1>1, <1>3, <1>5, <1>11, <1>12, <1>13 DEF Inv

\* What holds of a command that has ended.
LEMMA IdleFits ==
    ASSUME Inv, NEW m \in Machines
    PROVE  /\ "idle" \in Labels /\ NoJournal \in Journals /\ NoPlan \in Plans
           /\ <<NoPlan.etag, NoPlan.names>> \in Versions /\ <<NoJournal.source, NoJournal.maps>> \in Contents
           /\ Fit(m, "idle", NoJournal, NoPlan, {})
  <1>1. "idle" \in Labels /\ NoJournal \in Journals /\ NoPlan \in Plans
    BY JournalTypes DEF NoPlan, Labels
  <1>2. <<NoJournal.source, NoJournal.maps>> \in Contents
    BY DEF Contents, NoJournal
  <1>3. <<NoPlan.etag, NoPlan.names>> \in Versions
    <2>1. <<0, <<>>>> \in Contents /\ DOMAIN <<>> = {}
      BY MapsTypes DEF Contents
    <2>2. \A x \in Contents : <<x[1], DOMAIN x[2]>> \in Versions
      BY DEF Versions
    <2> QED BY <2>1, <2>2 DEF NoPlan
  <1>4. Fit(m, "idle", NoJournal, NoPlan, {})
    BY BucketTypes DEF Inv, Fit, NoJournal, NoPlan, Journaled, Updates, Running
  <1> QED BY <1>1, <1>2, <1>3, <1>4

\* WritePlan preserves the invariant.
LEMMA WritePlanStep == ASSUME Inv, NEW m \in Machines, WritePlan(m) PROVE Inv'
  <1> DEFINE b == NewJournal(plan[m])
  <1>1. PICK o : PutJournal(b, mine[m].etag, o)
    BY DEF WritePlan
  <1>2. Idle(m) \/ (\E l \in {"migrate", "planned"} : Goto(m, l))
    BY DEF WritePlan
  <1>3. /\ b \in Bodies /\ b.status # "none" /\ b.status # "committed"
        /\ <<b.source, DOMAIN b.maps>> \in Versions /\ \A d \in DOMAIN b.maps : b.maps[d] = NoCopy
    BY JournalTypes, MachineTypes DEF Inv, NewJournal
  <1> HIDE DEF b
  <1>4. /\ Spends
        /\ journal' = journal \/ journal' = JournalWith(b, journal.etag + 1)
        /\ \A r \in pending' : r \in pending \/ r = <<"journal", b>>
    BY <1>1, PutEffect
  <1>5. Writes(b)
    BY <1>3, <1>4 DEF WritePlan, Writes
  <1>6. CASE Idle(m)
    <2>1. Moves(m, "idle", NoJournal, NoPlan, {})
      BY <1>6, MovesMeaning DEF Inv
    <2> QED BY <1>5, <2>1, IdleFits, WriteStep
  <1>7. ASSUME NEW l \in {"migrate", "planned"}, Goto(m, l) PROVE Inv'
    <2>1. Moves(m, l, mine[m], plan[m], todo[m])
      BY <1>7, MovesMeaning DEF Inv
    <2>2. l \in Labels \ (Journaled \cup Running \cup {"finish", "copy"})
      BY DEF Labels, Journaled, Running, Updates
    <2>3. pc[m] \in {"write-plan", "write-plan-here"}
      BY DEF WritePlan
    <2>4. Fit(m, l, mine[m], plan[m], todo[m])
      BY <2>2, <2>3 DEF Inv, MachineInv, Fit
    <2>5. /\ mine[m] \in Journals /\ plan[m] \in Plans /\ todo[m] \in SUBSET Docs
          /\ <<plan[m].etag, plan[m].names>> \in Versions /\ <<mine[m].source, mine[m].maps>> \in Contents
      BY MachineTypes DEF Inv
    <2> QED BY <1>5, <2>1, <2>2, <2>4, <2>5, WriteStep
  <1> QED BY <1>2, <1>6, <1>7

\* What an update writes and where it goes on.
LEMMA UpdatesMeaning ==
    ASSUME NEW l \in DOMAIN Updates
    PROVE  /\ Updates[l].status \in Statuses \ {"none"}
           /\ Updates[l].status = "committed" => l = "finish"
           /\ Updates[l].next \in {"idle", "migrate", "copy", "switch"}
           /\ Updates[l].next = "migrate" => l = "interrupt"
           /\ Updates[l].next = "copy" => l \in {"start", "record"}
           /\ Updates[l].next = "switch" => l = "ready"
           /\ Updates[l].else \subseteq {"idle", "fail", "stop"}
  BY DEF Updates, Statuses, Active, Replanned

\* Update preserves the invariant.
LEMMA UpdateStep == ASSUME Inv, NEW m \in Machines, Update(m) PROVE Inv'
  <1> DEFINE w == Updates[pc[m]]
             b == [status |-> w.status, source |-> mine[m].source, maps |-> mine[m].maps]
  <1>1. pc[m] \in DOMAIN Updates /\ UNCHANGED <<catalog, unstored, saves>>
    BY DEF Update
  <1>2. /\ w.status \in Statuses \ {"none"}
        /\ w.status = "committed" => pc[m] = "finish"
        /\ w.next \in {"idle", "migrate", "copy", "switch"}
        /\ w.next = "migrate" => pc[m] = "interrupt"
        /\ w.next = "copy" => pc[m] \in {"start", "record"}
        /\ w.next = "switch" => pc[m] = "ready"
        /\ w.else \subseteq {"idle", "fail", "stop"}
    BY <1>1, UpdatesMeaning
  <1>3. \/ /\ PutJournal(b, mine[m].etag, "ok") /\ w.next # "idle"
           /\ mine' = [mine EXCEPT ![m] = JournalWith(b, mine[m].etag + 1)]
           /\ pc' = [pc EXCEPT ![m] = w.next]
           /\ todo' = IF pc[m] = "start" THEN [todo EXCEPT ![m] = DOMAIN mine[m].maps] ELSE todo
           /\ UNCHANGED plan
        \/ /\ \E o : PutJournal(b, mine[m].etag, o)
           /\ Idle(m) \/ \E l \in {"fail", "stop"} : Goto(m, l)
    BY <1>2 DEF Update
  <1>4. mine[m] \in Journals /\ mine[m].etag \in Nat /\ <<mine[m].source, mine[m].maps>> \in Contents
    BY MachineTypes DEF Inv
  <1>5. /\ b \in Bodies /\ b.status # "none" /\ (b.status = "committed" => catalog.domain = "new")
        /\ b.source = mine[m].source /\ b.maps = mine[m].maps
        /\ <<b.source, b.maps>> \in Contents
    <2>1. pc[m] = "finish" => catalog.domain = "new"
      BY DEF Inv, MachineInv, Fit
    <2> QED BY <1>2, <1>4, <2>1, JournalTypes
  <1>6. pc[m] \in Journaled /\ mine[m].etag # 0
    BY <1>1 DEF Inv, MachineInv, Fit, Journaled
  <1> HIDE DEF b, w
  <1>7. /\ Writes(b)
        /\ mine[m] \in Journals /\ plan[m] \in Plans /\ todo[m] \in SUBSET Docs
        /\ <<plan[m].etag, plan[m].names>> \in Versions /\ <<mine[m].source, mine[m].maps>> \in Contents
    <2>1. PICK o : PutJournal(b, mine[m].etag, o)
      BY <1>3
    <2>2. /\ Spends
          /\ journal' = journal \/ journal' = JournalWith(b, journal.etag + 1)
          /\ \A r \in pending' : r \in pending \/ r = <<"journal", b>>
      BY <2>1, PutEffect
    <2> QED BY <1>1, <1>5, <2>2, MachineTypes DEF Inv, Writes
  <1>8. CASE Idle(m)
    <2>1. Moves(m, "idle", NoJournal, NoPlan, {})
      BY <1>8, MovesMeaning DEF Inv
    <2> QED BY <1>7, <2>1, IdleFits, WriteStep
  <1>9. ASSUME NEW l \in {"fail", "stop"}, Goto(m, l) PROVE Inv'
    <2>1. Moves(m, l, mine[m], plan[m], todo[m])
      BY <1>9, MovesMeaning DEF Inv
    <2>2. l \in Labels
      BY DEF Labels, Updates
    <2>3. Fit(m, l, mine[m], plan[m], todo[m])
      BY <1>6 DEF Inv, MachineInv, Fit, Running
    <2> QED BY <1>7, <2>1, <2>2, <2>3, WriteStep
  <1>10. CASE /\ PutJournal(b, mine[m].etag, "ok") /\ w.next # "idle"
              /\ mine' = [mine EXCEPT ![m] = JournalWith(b, mine[m].etag + 1)]
              /\ pc' = [pc EXCEPT ![m] = w.next]
              /\ todo' = IF pc[m] = "start" THEN [todo EXCEPT ![m] = DOMAIN mine[m].maps] ELSE todo
              /\ UNCHANGED plan
    <2> DEFINE j == JournalWith(b, mine[m].etag + 1)
               t == IF pc[m] = "start" THEN DOMAIN mine[m].maps ELSE todo[m]
               l == w.next
    <2>1. Moves(m, l, j, plan[m], t)
      <3>1. todo' = [todo EXCEPT ![m] = t] /\ plan' = [plan EXCEPT ![m] = plan[m]]
        BY <1>10 DEF Inv, Types
      <3> QED BY <1>10, <3>1 DEF Moves
    <2>2. l \in {"migrate", "copy", "switch"} /\ l \in Labels
      BY <1>2, <1>10 DEF Labels
    <2>3. /\ j \in Journals /\ j.status = b.status /\ j.source = mine[m].source /\ j.maps = mine[m].maps
          /\ j.etag = mine[m].etag + 1
      <3>1. b \in Bodies /\ mine[m].etag + 1 \in Nat
        BY <1>4, <1>5
      <3>2. \A x \in Bodies, k \in Nat : JournalWith(x, k) \in Journals
        BY JournalTypes
      <3> QED BY <1>5, <3>1, <3>2 DEF JournalWith
    <2>4. t \in SUBSET Docs
      BY MachineTypes, MapsMeaning DEF Inv
    <2>5. journal.etag = mine[m].etag /\ journal' = JournalWith(b, journal.etag + 1)
      BY <1>10, PutEffect
    <2>6. journal' = j
      BY <2>5
    <2> HIDE DEF j, t, l
    <2>7. /\ pc'[m] = l /\ mine'[m] = j /\ plan'[m] = plan[m] /\ todo'[m] = t
          /\ journal'.etag \in Nat /\ journal'.etag >= journal.etag
          /\ \A c \in Referred' \cup unstored' : c \in Referred \cup unstored \/ c = NoCopy
          /\ MachineInv(m)' => Inv'
      <3>1. <<j.source, j.maps>> \in Contents
        BY <1>4, <2>3
      <3> QED BY <1>7, <2>1, <2>2, <2>3, <2>4, <3>1, WriteStep
    <2>8. l = "copy" => \A c \in Referred' \cup unstored' : c # NoCopy /\ c[2] = m => c[3] < j.etag
      <3>1. \A c \in Referred \cup unstored : c # NoCopy => c \in Copies
        BY ReferredTypes DEF Inv, Types
      <3>2. \A c \in Referred \cup unstored : c # NoCopy => c[3] \in Nat
        BY <3>1 DEF Copies
      <3>3. \A c \in Referred \cup unstored : c # NoCopy /\ c[2] = m => c[3] <= mine[m].etag
        BY <2>5, MigrationAssumption DEF Inv, CopyInv
      <3> QED BY <1>4, <2>3, <2>7, <3>2, <3>3
    <2>9. /\ l \in Running => mine[m].source = plan[m].etag
          /\ t \subseteq DOMAIN mine[m].maps
          /\ l # "copy" => t = {}
          /\ l \in {"copy", "switch"} => \A d \in DOMAIN mine[m].maps \ t : mine[m].maps[d] # NoCopy
      <3>1. /\ l = "migrate" => pc[m] = "interrupt"
            /\ l = "copy" => pc[m] \in {"start", "record"}
            /\ l = "switch" => pc[m] = "ready"
        BY <1>2 DEF l
      <3>2. MachineInv(m)
        BY DEF Inv
      <3>3. "migrate" \notin Running /\ {"start", "record", "ready"} \subseteq Running
        BY DEF Running
      <3> QED BY <2>2, <3>1, <3>2, <3>3 DEF MachineInv, Fit, t
    <2>10. MachineInv(m)'
      <3>1. j.etag # 0 /\ j.etag <= journal'.etag
        BY <1>4, <2>3, <2>6
      <3> QED BY <2>2, <2>3, <2>7, <2>8, <2>9, <3>1 DEF MachineInv, Fit
    <2> QED BY <2>7, <2>10
  <1> QED BY <1>3, <1>8, <1>9, <1>10

-----------------------------------------------------------------------------
(* The copies.                                                             *)

\* Journal j is the one of machine m with c for document d: none, or a copy
\* that m made of d and that is in the bucket.
Remaps(m, d, c, j) ==
    /\ d \in DOMAIN mine[m].maps
    /\ c = NoCopy \/ (c \in Copies \ unstored /\ c[1] = d /\ c[2] = m /\ c[3] = mine[m].etag)
    /\ j = [mine[m] EXCEPT !.maps = [mine[m].maps EXCEPT ![d] = c]]

\* Such a journal is one.
LEMMA RemapsTypes ==
    ASSUME Inv, NEW m \in Machines, NEW d, NEW c, NEW j, Remaps(m, d, c, j)
    PROVE  d \in Docs /\ c \in Copies \cup {NoCopy} /\ j \in Journals
  <1>1. mine[m] \in Journals /\ mine[m].maps \in Maps
    BY MachineTypes DEF Inv
  <1>2. d \in DOMAIN mine[m].maps /\ c \in Copies \cup {NoCopy}
    BY DEF Remaps
  <1>3. [mine[m].maps EXCEPT ![d] = c] \in Maps /\ d \in Docs
    BY <1>1, <1>2, MapsTypes, MapsMeaning
  <1> QED BY <1>1, <1>2, <1>3 DEF Remaps, Journals

\* A step that changes what machine m maps a document to keeps everything but
\* what is said of m.
LEMMA MapStep ==
    ASSUME Inv, NEW m \in Machines, NEW l \in Labels, NEW d \in Docs, NEW t \in SUBSET Docs,
           NEW c \in Copies \cup {NoCopy}, NEW j \in Journals,
           Remaps(m, d, c, j), Moves(m, l, j, plan[m], t),
           UNCHANGED <<catalog, journal, unstored, pending, saves>>, Spends
    PROVE  /\ pc'[m] = l /\ mine'[m] = j /\ plan'[m] = plan[m] /\ todo'[m] = t
           /\ j.source = mine[m].source /\ j.etag = mine[m].etag /\ j.status = mine[m].status
           /\ DOMAIN j.maps = DOMAIN mine[m].maps
           /\ \A e \in DOMAIN j.maps : j.maps[e] = IF e = d THEN c ELSE mine[m].maps[e]
           /\ \A x \in Referred' \cup unstored' : x \in Referred \cup unstored \/ x = NoCopy \/ x = c
           /\ MachineInv(m)' => Inv'
  <1> USE DEF Remaps
  <1>1. /\ mine[m] \in Journals /\ mine[m].maps \in Maps /\ plan[m] \in Plans /\ mine[m].etag \in Nat
        /\ <<mine[m].source, mine[m].maps>> \in Contents /\ mine[m].etag <= journal.etag /\ journal.etag \in Nat
    BY MachineTypes, BucketTypes DEF Inv, MachineInv, Fit
  <1>2. [mine[m].maps EXCEPT ![d] = c] \in Maps /\ DOMAIN [mine[m].maps EXCEPT ![d] = c] = DOMAIN mine[m].maps
    BY <1>1, MapsTypes
  <1>3. /\ j \in Journals /\ j.source = mine[m].source /\ j.etag = mine[m].etag /\ j.status = mine[m].status
        /\ j.maps = [mine[m].maps EXCEPT ![d] = c]
    BY <1>1, <1>2 DEF Journals
  <1>4. /\ DOMAIN j.maps = DOMAIN mine[m].maps
        /\ \A e \in DOMAIN j.maps : j.maps[e] = IF e = d THEN c ELSE mine[m].maps[e]
    BY <1>2, <1>3
  <1>5. /\ pc' \in [Machines -> Labels] /\ mine' \in [Machines -> Journals] /\ plan' \in [Machines -> Plans]
        /\ todo' \in [Machines -> SUBSET Docs]
        /\ pc'[m] = l /\ mine'[m] = j /\ plan'[m] = plan[m] /\ todo'[m] = t
        /\ \A g \in Machines \ {m} : pc'[g] = pc[g] /\ mine'[g] = mine[g] /\ plan'[g] = plan[g] /\ todo'[g] = todo[g]
    BY <1>1, <1>3, MovesTypes DEF Inv
  <1>6. Types'
    BY <1>5 DEF Inv, Types, Spends, Fault
  <1>7. \A x \in Contents' : x \in Contents \/ x = <<j.source, j.maps>>
    <2>1. \A g \in Machines : <<mine'[g].source, mine'[g].maps>> \in Contents \cup {<<j.source, j.maps>>}
      BY <1>5 DEF Contents
    <2> QED BY <2>1 DEF Contents
  <1>8. \A v \in Versions' : v \in Versions
    <2>1. \A x \in Contents : <<x[1], DOMAIN x[2]>> \in Versions
      BY DEF Versions
    <2>2. \A x \in Contents' : <<x[1], DOMAIN x[2]>> \in Versions
      <3>1. <<j.source, DOMAIN j.maps>> \in Versions
        BY <1>3, <1>4, MachineTypes DEF Inv
      <3>2. ASSUME NEW x, x = <<j.source, j.maps>> PROVE <<x[1], DOMAIN x[2]>> \in Versions
        <4>1. x[1] = j.source /\ x[2] = j.maps
          BY <3>2
        <4> QED BY <3>1, <4>1
      <3> QED BY <1>7, <2>1, <3>2
    <2>3. \A g \in Machines : <<plan'[g].etag, plan'[g].names>> \in Versions
      BY <1>5, MachineTypes DEF Inv
    <2> QED BY <2>2, <2>3 DEF Versions
  <1>9. VersionInv'
    BY <1>8 DEF Inv, VersionInv
  <1>10. \A x \in Referred' : x \in Referred \/ x = c
    <2>1. ASSUME NEW x, NEW y \in Contents', NEW e \in DOMAIN y[2], x = y[2][e] PROVE x \in Referred \/ x = c
      <3>1. CASE y \in Contents
        BY <2>1, <3>1, ReferredMeaning
      <3>2. CASE y = <<j.source, j.maps>>
        <4>1. e \in DOMAIN mine[m].maps /\ (x = c \/ x = mine[m].maps[e])
          BY <1>4, <2>1, <3>2
        <4>2. mine[m].maps[e] \in Referred
          BY <1>1, <4>1, ReferredMeaning
        <4> QED BY <4>1, <4>2
      <3> QED BY <1>7, <3>1, <3>2
    <2>2. ASSUME NEW x, NEW r \in pending', r[1] = "catalog", x \in r[2] PROVE x \in Referred
      BY <2>2, ReferredMeaning
    <2>3. ASSUME NEW x, catalog'.domain = "new", x \in catalog'.names PROVE x \in Referred
      BY <2>3, ReferredMeaning
    <2> QED BY <2>1, <2>2, <2>3, ReferredMeaning
  <1>11. CopyInv'
    <2>1. \A x \in Contents' : \A e \in DOMAIN x[2] : x[2][e] # NoCopy => x[2][e][1] = e
      BY <1>1, <1>4, <1>7 DEF Inv, CopyInv
    <2>2. Referred' \cap unstored' = {}
      BY <1>10, NoCopyType DEF Inv, CopyInv, Types
    <2>3. \A x \in Referred' \cup unstored' : x # NoCopy /\ x[2] # "save" => x[3] <= journal'.etag
      BY <1>1, <1>10 DEF Inv, CopyInv
    <2> QED BY <2>1, <2>2, <2>3 DEF Inv, CopyInv
  <1>12. RequestInv'
    BY DEF Inv, RequestInv
  <1>13. \A g \in Machines \ {m} : MachineInv(g)'
    BY <1>1, <1>5, <1>6, <1>10, OtherMachine
  <1> QED BY <1>3, <1>4, <1>5, <1>6, <1>9, <1>10, <1>11, <1>12, <1>13 DEF Inv

\* Verify preserves the invariant.
LEMMA VerifyStep == ASSUME Inv, NEW m \in Machines, Verify(m) PROVE Inv'
  <1> DEFINE d == NextDoc(m)
  <1>1. /\ pc[m] = "copy" /\ d \in todo[m] /\ mine[m].etag # 0 /\ todo[m] \subseteq DOMAIN mine[m].maps
        /\ UNCHANGED <<catalog, journal, unstored, pending, saves>> /\ Spends /\ "copy" \in Labels
    BY DEF Verify, NextDoc, bucket, Spends, Inv, MachineInv, Fit, Journaled, Labels
  <1>2. /\ mine[m] \in Journals /\ plan[m] \in Plans /\ todo[m] \in SUBSET Docs
        /\ <<plan[m].etag, plan[m].names>> \in Versions /\ MachineInv(m)
    BY MachineTypes DEF Inv
  <1>3. /\ pc' = [pc EXCEPT ![m] = "copy"] /\ plan' = [plan EXCEPT ![m] = plan[m]]
    BY <1>1 DEF Verify, Inv, Types
  <1>4. \/ mine[m].maps[d] # NoCopy /\ Visited(m, d) /\ UNCHANGED mine
        \/ mine' = [mine EXCEPT ![m].maps[d] = NoCopy] /\ UNCHANGED todo
    BY DEF Verify
  <1> HIDE DEF d
  <1>5. CASE mine[m].maps[d] # NoCopy /\ Visited(m, d) /\ UNCHANGED mine
    <2>1. Moves(m, "copy", mine[m], plan[m], todo[m] \ {d})
      BY <1>3, <1>5 DEF Moves, Visited, Inv, Types
    <2>2. Fit(m, "copy", mine[m], plan[m], todo[m] \ {d})
      BY <1>1, <1>2, <1>5 DEF MachineInv, Fit
    <2> QED BY <1>1, <1>2, <2>1, <2>2, LocalStep
  <1>6. CASE mine' = [mine EXCEPT ![m].maps[d] = NoCopy] /\ UNCHANGED todo
    <2> DEFINE j == [mine[m] EXCEPT !.maps = [mine[m].maps EXCEPT ![d] = NoCopy]]
    <2>1. Moves(m, "copy", j, plan[m], todo[m])
      BY <1>3, <1>6 DEF Moves, Inv, Types
    <2>2. Remaps(m, d, NoCopy, j)
      BY <1>1 DEF Remaps
    <2> HIDE DEF j
    <2>3. /\ pc'[m] = "copy" /\ mine'[m] = j /\ plan'[m] = plan[m] /\ todo'[m] = todo[m]
          /\ j.source = mine[m].source /\ j.etag = mine[m].etag /\ j.status = mine[m].status
          /\ DOMAIN j.maps = DOMAIN mine[m].maps
          /\ \A e \in DOMAIN j.maps : j.maps[e] = IF e = d THEN NoCopy ELSE mine[m].maps[e]
          /\ \A x \in Referred' \cup unstored' : x \in Referred \cup unstored \/ x = NoCopy
          /\ MachineInv(m)' => Inv'
      <3>1. d \in Docs /\ NoCopy \in Copies \cup {NoCopy} /\ j \in Journals
        BY <2>2, RemapsTypes
      <3> QED BY <1>1, <1>2, <2>1, <2>2, <3>1, MapStep
    <2>4. MachineInv(m)'
      BY <1>1, <1>2, <2>3 DEF MachineInv, Fit
    <2> QED BY <2>3, <2>4
  <1> QED BY <1>4, <1>5, <1>6

\* Copy preserves the invariant: the ciphertext is a fresh one.
LEMMA CopyStep == ASSUME Inv, NEW m \in Machines, Copy(m) PROVE Inv'
  <1> DEFINE d == NextDoc(m)
             c == <<d, m, mine[m].etag>>
  <1>1. /\ pc[m] = "copy" /\ d \in todo[m] /\ mine[m].etag # 0 /\ todo[m] \subseteq DOMAIN mine[m].maps
        /\ UNCHANGED <<catalog, journal, pending, saves>> /\ {"fail", "record"} \subseteq Labels
    BY DEF Copy, NextDoc, Inv, MachineInv, Fit, Journaled, Labels, Updates
  <1>2. /\ mine[m] \in Journals /\ plan[m] \in Plans /\ todo[m] \in SUBSET Docs /\ mine[m].etag \in Nat
        /\ <<plan[m].etag, plan[m].names>> \in Versions /\ MachineInv(m) /\ journal.etag \in Nat
    BY MachineTypes, BucketTypes DEF Inv
  <1>3. \/ /\ UNCHANGED unstored /\ mine' = [mine EXCEPT ![m].maps[d] = c] /\ Visited(m, d)
           /\ pc' = [pc EXCEPT ![m] = "record"] /\ UNCHANGED <<plan, faults>>
        \/ unstored' \in {unstored, unstored \cup {c}} /\ Goto(m, "fail") /\ Spends
    BY DEF Copy, Stored, Spends
  <1>4. c \in Copies /\ c[1] = d /\ c[2] = m /\ c[3] = mine[m].etag /\ c # NoCopy /\ c[2] # "save"
    BY <1>1, <1>2, MigrationAssumption DEF Copies, NoCopy
  <1> HIDE DEF c, d
  <1>5. c \notin Referred /\ c \notin unstored
    BY <1>1, <1>2, <1>4 DEF MachineInv, Fit
  <1>6. CASE /\ UNCHANGED unstored /\ mine' = [mine EXCEPT ![m].maps[d] = c] /\ Visited(m, d)
             /\ pc' = [pc EXCEPT ![m] = "record"] /\ UNCHANGED <<plan, faults>>
    <2> DEFINE j == [mine[m] EXCEPT !.maps = [mine[m].maps EXCEPT ![d] = c]]
    <2>1. Moves(m, "record", j, plan[m], todo[m] \ {d})
      BY <1>6 DEF Moves, Visited, Inv, Types
    <2>2. Remaps(m, d, c, j)
      BY <1>1, <1>4, <1>5 DEF Remaps
    <2>3. Spends
      BY <1>6 DEF Spends
    <2> HIDE DEF j
    <2>4. /\ pc'[m] = "record" /\ mine'[m] = j /\ plan'[m] = plan[m] /\ todo'[m] = todo[m] \ {d}
          /\ j.source = mine[m].source /\ j.etag = mine[m].etag /\ j.status = mine[m].status
          /\ DOMAIN j.maps = DOMAIN mine[m].maps
          /\ \A e \in DOMAIN j.maps : j.maps[e] = IF e = d THEN c ELSE mine[m].maps[e]
          /\ MachineInv(m)' => Inv'
      <3>1. UNCHANGED <<catalog, journal, unstored, pending, saves>> /\ todo[m] \ {d} \in SUBSET Docs /\ "record" \in Labels
        BY <1>1, <1>2, <1>6
      <3>2. d \in Docs /\ c \in Copies \cup {NoCopy} /\ j \in Journals
        BY <2>2, RemapsTypes
      <3> QED BY <2>1, <2>2, <2>3, <3>1, <3>2, MapStep
    <2>5. MachineInv(m)'
      BY <1>1, <1>2, <1>4, <2>4 DEF MachineInv, Fit, Running
    <2> QED BY <2>4, <2>5
  <1>7. CASE unstored' \in {unstored, unstored \cup {c}} /\ Goto(m, "fail") /\ Spends
    <2>1. /\ pc' \in [Machines -> Labels] /\ mine' = mine /\ plan' = plan /\ todo' = todo /\ pc'[m] = "fail"
          /\ \A g \in Machines \ {m} : pc'[g] = pc[g]
      BY <1>1, <1>7 DEF Goto, Inv, Types
    <2>2. Types'
      BY <1>1, <1>4, <1>7, <2>1 DEF Inv, Types, Spends, Fault
    <2>3. Contents' = Contents /\ Versions' = Versions /\ Referred' = Referred
      BY <1>1, <2>1 DEF Contents, Versions, Referred, Filed, Sent
    <2>4. VersionInv' /\ RequestInv'
      BY <1>1, <2>3 DEF Inv, VersionInv, RequestInv
    <2>5. mine[m].etag <= journal.etag
      BY <1>2 DEF MachineInv, Fit
    <2>6. CopyInv'
      BY <1>1, <1>4, <1>5, <1>7, <2>3, <2>5 DEF Inv, CopyInv
    <2>7. \A g \in Machines \ {m} : MachineInv(g)'
      BY <1>1, <1>2, <1>4, <1>7, <2>1, <2>2, <2>3, OtherMachine
    <2>8. MachineInv(m)'
      BY <1>1, <1>2, <2>1, <2>3 DEF MachineInv, Fit, Running
    <2> QED BY <2>2, <2>4, <2>6, <2>7, <2>8 DEF Inv
  <1> QED BY <1>3, <1>6, <1>7

-----------------------------------------------------------------------------
(* Steps that change the catalog or send its PUT.                          *)

\* The catalog is replaced by one that refers to nothing that is not copied.
Replaced ==
    /\ catalog' \in Catalogs /\ catalog'.etag = catalog.etag + 1
    /\ catalog.domain = "new" => catalog'.domain = "new"
    /\ catalog'.names \subseteq IF catalog'.domain = "legacy" THEN Docs ELSE Copies
    /\ catalog'.domain = "new" => \A c \in catalog'.names : c \in Referred \/ c[2] = "save"
    /\ Superseded("catalog")
    /\ UNCHANGED <<journal, unstored, mine, plan, todo>>

\* Such a step keeps everything but what is said of a machine that moves.
LEMMA CatalogStep ==
    ASSUME Inv, Replaced, pc' \in [Machines -> Labels], saves' \in Nat, faults' \in Nat
    PROVE  /\ \A g \in Machines : pc'[g] = pc[g] => MachineInv(g)'
           /\ \A c \in Referred' \cup unstored' : c \in Referred \cup unstored \/ c = NoCopy \/ c[2] = "save"
           /\ (\A g \in Machines : MachineInv(g)') => Inv'
  <1>1. catalog.etag \in Nat /\ journal.etag \in Nat /\ catalog'.domain \in {"legacy", "new"} /\ pending' \subseteq pending
    BY BucketTypes DEF Inv, Replaced, Superseded, Catalogs
  <1>2. Types'
    BY <1>1 DEF Inv, Types, Replaced
  <1>3. \A x \in Contents' : x \in Contents
    BY <1>1 DEF Contents, Replaced
  <1>4. VersionInv'
    <2>1. \A v \in Versions' : v \in Versions \/ (catalog'.domain = "legacy" /\ v = <<catalog'.etag, catalog'.names>>)
      <3>1. \A x \in Contents' : <<x[1], DOMAIN x[2]>> \in Versions
        BY <1>3 DEF Versions
      <3>2. \A g \in Machines : <<plan'[g].etag, plan'[g].names>> \in Versions
        BY DEF Versions, Replaced
      <3> QED BY <3>1, <3>2 DEF Versions
    <2>2. \A v \in Versions : v[1] \in Nat /\ v[1] < catalog'.etag
      BY <1>1, BucketTypes DEF Inv, VersionInv, Replaced
    <2>3. catalog'.etag # 0 /\ catalog'.etag \in Nat
      BY <1>1 DEF Replaced
    <2>4. \A v \in Versions' : v[1] <= catalog'.etag /\ (catalog'.domain = "new" => v[1] # catalog'.etag)
      BY <2>1, <2>2, <2>3
    <2>5. ASSUME NEW v \in Versions', NEW w \in Versions', v[1] = w[1] PROVE v[2] = w[2]
      <3>1. CASE v \in Versions /\ w \in Versions
        BY <2>5, <3>1 DEF Inv, VersionInv
      <3>2. CASE v = <<catalog'.etag, catalog'.names>> /\ w = <<catalog'.etag, catalog'.names>>
        BY <3>2
      <3> QED BY <2>1, <2>2, <2>3, <2>5, <3>1, <3>2
    <2> QED BY <2>3, <2>4, <2>5 DEF VersionInv
  <1>5. \A c \in Referred' : c \in Referred \/ c[2] = "save"
    <2>1. ASSUME NEW c, NEW x \in Contents', NEW d \in DOMAIN x[2], c = x[2][d] PROVE c \in Referred
      BY <1>3, <2>1, ReferredMeaning
    <2>2. ASSUME NEW c, NEW r \in pending', r[1] = "catalog", c \in r[2] PROVE c \in Referred
      BY <1>1, <2>2, ReferredMeaning
    <2>3. ASSUME NEW c, catalog'.domain = "new", c \in catalog'.names PROVE c \in Referred \/ c[2] = "save"
      BY <2>3 DEF Replaced
    <2> QED BY <2>1, <2>2, <2>3, ReferredMeaning
  <1>6. CopyInv'
    <2>1. unstored' = unstored /\ journal' = journal
      BY DEF Replaced
    <2>2. \A x \in Contents' : \A d \in DOMAIN x[2] : x[2][d] # NoCopy => x[2][d][1] = d
      BY <1>3 DEF Inv, CopyInv
    <2> QED BY <1>5, <2>1, <2>2 DEF Inv, CopyInv
  <1>7. RequestInv'
    <2>1. \A r \in pending' : r \in pending /\ r[1] # "catalog"
      BY DEF Replaced, Superseded
    <2> QED BY <2>1 DEF Inv, RequestInv, Replaced
  <1>8. \A c \in Referred' \cup unstored' : c \in Referred \cup unstored \/ c = NoCopy \/ c[2] = "save"
    BY <1>5 DEF Replaced
  <1>9. ASSUME NEW g \in Machines, pc'[g] = pc[g] PROVE MachineInv(g)'
    <2>1. g # "save"
      BY MigrationAssumption
    <2>2. \A c \in Referred' \cup unstored' : c \in Referred \cup unstored \/ c = NoCopy \/ c[2] # g
      BY <1>8, <2>1
    <2>3. /\ journal'.etag >= journal.etag /\ mine'[g] = mine[g] /\ plan'[g] = plan[g] /\ todo'[g] = todo[g]
          /\ catalog.domain = "new" => catalog'.domain = "new"
      BY <1>1 DEF Replaced
    <2> QED BY <1>2, <1>9, <2>2, <2>3, OtherMachine
  <1> QED BY <1>2, <1>4, <1>6, <1>7, <1>8, <1>9 DEF Inv

\* Save and Remove preserve the invariant.
LEMMA SaveStep == ASSUME Inv, Save \/ Remove PROVE Inv'
  <1>1. catalog \in Catalogs /\ catalog.etag \in Nat
    BY BucketTypes DEF Inv, Types
  <1>2. catalog.names \subseteq IF catalog.domain = "legacy" THEN Docs ELSE Copies
    BY DEF Inv, RequestInv
  <1>3. PICK n \in SUBSET (Docs \cup Copies) :
          /\ catalog' = [catalog EXCEPT !.names = n, !.etag = catalog.etag + 1]
          /\ \/ catalog.domain = "legacy" /\ n \subseteq Docs
             \/ /\ catalog.domain = "new" /\ n \subseteq Copies
                /\ \A c \in n : c \in catalog.names \/ c[2] = "save"
    <2>1. CASE Save
      <3>1. PICK entry \in IF catalog.domain = "legacy" THEN Docs
                           ELSE Docs \X {"save"} \X {catalog.etag} :
              catalog' = [catalog EXCEPT !.names = @ \cup {entry}, !.etag = @ + 1]
        BY <2>1 DEF Save
      <3>2. CASE catalog.domain = "legacy"
        <4>1. catalog.names \cup {entry} \in SUBSET (Docs \cup Copies) /\ catalog.names \cup {entry} \subseteq Docs
          BY <1>2, <3>1, <3>2
        <4> QED BY <3>1, <3>2, <4>1
      <3>3. CASE catalog.domain = "new"
        <4>1. entry \in Copies /\ entry[2] = "save"
          BY <1>1, <3>1, <3>3 DEF Copies
        <4>2. /\ catalog.names \cup {entry} \in SUBSET (Docs \cup Copies) /\ catalog.names \cup {entry} \subseteq Copies
              /\ \A c \in catalog.names \cup {entry} : c \in catalog.names \/ c[2] = "save"
          BY <1>2, <3>3, <4>1
        <4> QED BY <3>1, <3>3, <4>2
      <3> QED BY <1>1, <3>2, <3>3 DEF Catalogs
    <2>2. CASE Remove
      <3>1. PICK entry \in catalog.names : catalog' = [catalog EXCEPT !.names = @ \ {entry}, !.etag = @ + 1]
        BY <2>2 DEF Remove
      <3>2. catalog.names \ {entry} \in SUBSET (Docs \cup Copies)
        BY <1>1 DEF Catalogs
      <3>3. \/ catalog.domain = "legacy" /\ catalog.names \ {entry} \subseteq Docs
            \/ catalog.domain = "new" /\ catalog.names \ {entry} \subseteq Copies
        BY <1>1, <1>2 DEF Catalogs
      <3> QED BY <3>1, <3>2, <3>3
    <2> QED BY <2>1, <2>2
  <1>4. /\ catalog' \in Catalogs /\ catalog'.etag = catalog.etag + 1 /\ catalog'.domain = catalog.domain
        /\ catalog'.names = n
    <2>1. catalog.etag + 1 \in Nat
      BY <1>1
    <2> QED BY <1>1, <1>3, <2>1 DEF Catalogs
  <1>5. catalog'.domain = "new" => \A c \in catalog'.names : c \in Referred \/ c[2] = "save"
    BY <1>3, <1>4, ReferredMeaning
  <1>6. Replaced
    BY <1>3, <1>4, <1>5 DEF Replaced, Save, Remove, local
  <1>7. pc' = pc /\ pc' \in [Machines -> Labels] /\ saves' \in Nat /\ faults' \in Nat
    <2>1. /\ pc' = pc /\ faults' = faults /\ saves > 0 /\ saves' = saves - 1
      BY DEF Save, Remove, local
    <2>2. pc \in [Machines -> Labels] /\ saves \in Nat /\ faults \in Nat
      BY DEF Inv, Types
    <2> QED BY <2>1, <2>2
  <1> QED BY <1>6, <1>7, CatalogStep

\* ReadBack preserves the invariant.
LEMMA ReadBackStep == ASSUME Inv, NEW m \in Machines, ReadBack(m) PROVE Inv'
  <1>1. /\ UNCHANGED <<catalog, journal, unstored, pending, saves>> /\ Spends
        /\ todo[m] = {} /\ mine[m].etag # 0 /\ catalog.domain = "new"
    BY DEF ReadBack, bucket, Spends, Inv, MachineInv, Fit, Journaled
  <1>2. Goto(m, "finish") \/ Goto(m, "unsure")
    BY DEF ReadBack
  <1>3. "unsure" \in Quiet
    BY DEF Quiet, Labels, Updates
  <1> QED BY <1>1, <1>2, <1>3, QuietStep, FinishStep

\* A catalog PUT of a machine that switches names copies that its journal
\* lists, of exactly the documents of the catalog that it may replace.
LEMMA SwitchNames ==
    ASSUME Inv, NEW m \in Machines, pc[m] = "switch"
    PROVE  /\ Mapped(mine[m]) \in SUBSET Copies
           /\ \A c \in Mapped(mine[m]) : c \in Referred
           /\ catalog.etag = plan[m].etag =>
                 catalog.domain = "legacy" /\ {c[1] : c \in Mapped(mine[m])} = catalog.names
  <1> DEFINE f == mine[m].maps
  <1>1. /\ f \in Maps /\ <<mine[m].source, f>> \in Contents /\ <<mine[m].source, DOMAIN f>> \in Versions
        /\ <<plan[m].etag, plan[m].names>> \in Versions
    BY MachineTypes DEF Inv
  <1>2. mine[m].source = plan[m].etag /\ \A d \in DOMAIN f : f[d] # NoCopy
    BY DEF Inv, MachineInv, Fit, Running
  <1>3. \A d \in DOMAIN f : f[d] \in Copies /\ f[d] \in Referred /\ f[d][1] = d
    <2>1. \A d \in DOMAIN f : f[d] \in Copies
      BY <1>1, <1>2, MapsMeaning
    <2>2. \A d \in DOMAIN f : f[d] \in Referred
      BY <1>1, ReferredMeaning
    <2>3. \A d \in DOMAIN f : f[d][1] = d
      BY <1>1, <1>2 DEF Inv, CopyInv
    <2> QED BY <2>1, <2>2, <2>3
  <1>4. Mapped(mine[m]) = {f[d] : d \in DOMAIN f}
    BY DEF Mapped
  <1> HIDE DEF f
  <1>5. {c[1] : c \in Mapped(mine[m])} = DOMAIN f
    <2>1. \A c \in Mapped(mine[m]) : c[1] \in DOMAIN f
      BY <1>3, <1>4
    <2>2. \A d \in DOMAIN f : \E c \in Mapped(mine[m]) : c[1] = d
      BY <1>3, <1>4
    <2> QED BY <2>1, <2>2
  <1>6. ASSUME catalog.etag = plan[m].etag PROVE catalog.domain = "legacy" /\ DOMAIN f = catalog.names
    <2>1. catalog.domain = "legacy"
      <3>1. catalog.domain = "new" => plan[m].etag # catalog.etag
        BY <1>1 DEF Inv, VersionInv
      <3> QED BY <1>6, <3>1, BucketTypes DEF Inv
    <2>2. <<catalog.etag, catalog.names>> \in Versions
      BY <2>1 DEF Versions
    <2>3. \A v, w \in Versions : v[1] = w[1] => v[2] = w[2]
      BY DEF Inv, VersionInv
    <2> QED BY <1>1, <1>2, <1>6, <2>1, <2>2, <2>3
  <1> QED BY <1>3, <1>4, <1>5, <1>6

\* The conditional PUT of the catalog takes effect.
LEMMA SwitchedStep ==
    ASSUME Inv, NEW n \in SUBSET Copies, \A c \in n : c \in Referred, Switched(n),
           UNCHANGED <<journal, unstored, mine, plan, todo>>
    PROVE  Replaced /\ catalog'.domain = "new"
  <1>1. catalog.etag + 1 \in Nat
    BY BucketTypes DEF Inv
  <1>2. catalog' \in Catalogs /\ catalog'.domain = "new" /\ catalog'.names = n /\ catalog'.etag = catalog.etag + 1
    BY <1>1 DEF Switched, Catalogs
  <1> QED BY <1>2 DEF Replaced, Switched

\* A catalog PUT that has no answer keeps what is not said of a machine.
LEMMA SendStep ==
    ASSUME Inv, NEW n \in SUBSET Copies, \A c \in n : c \in Referred,
           catalog.domain = "legacy", {c[1] : c \in n} = catalog.names,
           UNCHANGED <<catalog, journal, unstored, mine, plan, todo, saves>>,
           pending' = pending \cup {<<"catalog", n>>},
           pc' \in [Machines -> Labels], faults' \in Nat
    PROVE  /\ \A g \in Machines : pc'[g] = pc[g] => MachineInv(g)'
           /\ (\A g \in Machines : MachineInv(g)') => Inv'
  <1>1. Types'
    BY DEF Inv, Types, Requests
  <1>2. Contents' = Contents
    <2>1. {q \in pending' : q[1] = "journal"} = {q \in pending : q[1] = "journal"}
      OBVIOUS
    <2> QED BY <2>1 DEF Contents
  <1>3. Versions' = Versions
    BY <1>2 DEF Versions
  <1>4. \A c \in Referred' : c \in Referred
    BY <1>2, ReferredMeaning
  <1>5. VersionInv' /\ CopyInv'
    BY <1>2, <1>3, <1>4 DEF Inv, VersionInv, CopyInv
  <1>6. RequestInv'
    BY DEF Inv, RequestInv
  <1>7. journal'.etag >= journal.etag
    BY BucketTypes DEF Inv
  <1>8. ASSUME NEW g \in Machines, pc'[g] = pc[g] PROVE MachineInv(g)'
    BY <1>1, <1>4, <1>7, <1>8, OtherMachine
  <1> QED BY <1>1, <1>5, <1>6, <1>8 DEF Inv

\* Switch preserves the invariant.
LEMMA SwitchStep == ASSUME Inv, NEW m \in Machines, Switch(m) PROVE Inv'
  <1> DEFINE n == Mapped(mine[m])
  <1>1. pc[m] = "switch" /\ UNCHANGED <<journal, unstored, saves>> /\ Spends
    BY DEF Switch, Spends
  <1>2. PICK l \in {"read-back", "fail", "unsure"} :
          /\ Goto(m, l)
          /\ \/ catalog.etag = plan[m].etag /\ Switched(n)
             \/ l # "read-back" /\ UNCHANGED <<catalog, pending>>
             \/ /\ l # "read-back" /\ catalog.etag = plan[m].etag /\ UNCHANGED catalog
                /\ pending' = pending \cup {<<"catalog", n>>}
    BY DEF Switch, Replaces
  <1>3. /\ n \in SUBSET Copies /\ \A c \in n : c \in Referred
        /\ catalog.etag = plan[m].etag => catalog.domain = "legacy" /\ {c[1] : c \in n} = catalog.names
    BY <1>1, SwitchNames
  <1> HIDE DEF n
  <1>4. l \in Labels
    BY DEF Labels, Updates
  <1>5. /\ pc' \in [Machines -> Labels] /\ pc'[m] = l /\ \A g \in Machines \ {m} : pc'[g] = pc[g]
        /\ UNCHANGED <<mine, plan, todo>> /\ faults' \in Nat /\ saves' \in Nat
    BY <1>1, <1>2, <1>4 DEF Goto, Inv, Types, Spends, Fault
  <1>6. /\ mine[m].etag <= journal.etag /\ (mine[m].status # "none" => mine[m].etag # 0)
        /\ mine[m].etag # 0 /\ todo[m] = {}
    BY <1>1 DEF Inv, MachineInv, Fit, Journaled
  <1>7. ASSUME l = "read-back" => catalog'.domain = "new" PROVE MachineInv(m)'
    <2>1. l \notin Running \cup {"copy", "record", "ready", "switch"}
      BY DEF Running
    <2> QED BY <1>1, <1>5, <1>6, <1>7, <2>1 DEF MachineInv, Fit
  <1>8. CASE catalog.etag = plan[m].etag /\ Switched(n)
    <2>1. Replaced /\ catalog'.domain = "new"
      BY <1>1, <1>3, <1>5, <1>8, SwitchedStep
    <2> QED BY <1>5, <1>7, <2>1, CatalogStep
  <1>9. CASE l # "read-back" /\ UNCHANGED <<catalog, pending>>
    <2>1. Fit(m, l, mine[m], plan[m], todo[m])
      <3>1. l \notin Running \cup {"copy", "record", "ready", "switch"}
        BY DEF Running
      <3> QED BY <1>6, <1>9, <3>1 DEF Fit
    <2> QED BY <1>1, <1>2, <1>4, <1>9, <2>1, GotoStep
  <1>10. CASE /\ l # "read-back" /\ catalog.etag = plan[m].etag /\ UNCHANGED catalog
              /\ pending' = pending \cup {<<"catalog", n>>}
    BY <1>1, <1>3, <1>5, <1>7, <1>10, SendStep
  <1> QED BY <1>2, <1>8, <1>9, <1>10

\* Settle preserves the invariant.
LEMMA SettleStep == ASSUME Inv, NEW r \in pending, Settle(r) PROVE Inv'
  <1>1. UNCHANGED <<unstored, pc, mine, plan, todo, saves, faults>> /\ r \in Requests
    BY DEF Settle, local, Inv, Types
  <1>2. CASE r[1] = "catalog" /\ Switched(r[2]) /\ UNCHANGED journal
    <2>1. r[2] \in SUBSET Copies /\ \A c \in r[2] : c \in Referred
      BY <1>1, <1>2, ReferredMeaning DEF Requests
    <2>2. Replaced
      BY <1>1, <1>2, <2>1, SwitchedStep
    <2>3. pc' \in [Machines -> Labels] /\ saves' \in Nat /\ faults' \in Nat
      BY <1>1 DEF Inv, Types
    <2> QED BY <1>1, <2>2, <2>3, CatalogStep
  <1>3. CASE /\ UNCHANGED catalog /\ pending' \subseteq pending
             /\ journal' = journal \/ (r[1] = "journal" /\ journal' = JournalWith(r[2], journal.etag + 1))
    <2>1. r[1] = "journal" => r[2] \in Bodies
      BY <1>1 DEF Requests
    <2>2. journal \in Journals /\ journal.etag \in Nat
      BY BucketTypes DEF Inv, Types
    <2>3. r[1] = "journal" => JournalWith(r[2], journal.etag + 1) \in Journals
      BY <2>1, <2>2, JournalTypes
    <2>4. journal' \in Journals /\ journal'.etag \in Nat /\ journal'.etag >= journal.etag
      BY <1>3, <2>2, <2>3 DEF JournalWith
    <2>5. Types'
      BY <1>1, <1>3, <2>4 DEF Inv, Types
    <2>6. <<journal'.source, journal'.maps>> \in Contents
      BY <1>3 DEF Contents, JournalWith
    <2>7. \A x \in Contents' : x \in Contents
      BY <1>1, <1>3, <2>6 DEF Contents
    <2>8. \A g \in Machines : <<plan'[g].etag, plan'[g].names>> \in Versions
      BY <1>1 DEF Versions
    <2>9. /\ journal'.status = "committed" => catalog.domain = "new"
          /\ journal'.status # "none" => journal'.etag # 0
      BY <1>3, <2>2 DEF Inv, RequestInv, JournalWith
    <2>10. \A q \in pending' : q \in pending /\ (q[1] = "journal" /\ q[2].status = "committed" => catalog.domain = "new")
      BY <1>3 DEF Inv, RequestInv
    <2>11. /\ VersionInv' /\ CopyInv' /\ RequestInv'
           /\ \A c \in Referred' \cup unstored' : c \in Referred \cup unstored \/ c = NoCopy
      BY <1>1, <1>3, <2>4, <2>5, <2>7, <2>8, <2>9, <2>10, JournalsMove
    <2>12. \A g \in Machines : MachineInv(g)'
      BY <1>1, <1>3, <2>4, <2>5, <2>11, OtherMachine
    <2> QED BY <2>5, <2>11, <2>12 DEF Inv
  <1> QED BY <1>2, <1>3 DEF Settle, Superseded

-----------------------------------------------------------------------------
(* The theorems.                                                           *)

\* The initial state satisfies the invariant.
LEMMA InitInv == Init => Inv
  <1> SUFFICES ASSUME Init PROVE Inv
    OBVIOUS
  <1>1. PICK n \in SUBSET Docs : catalog = [domain |-> "legacy", names |-> n, etag |-> 1]
    BY DEF Init
  <1>2. Types
    BY <1>1, JournalTypes, MigrationAssumption DEF Init, Types, Catalogs, Labels
  <1>3. \A x \in Contents : x = <<0, <<>>>>
    BY DEF Init, Contents, NoJournal
  <1>4. \A v \in Versions : v = <<0, {}>> \/ v = <<1, n>>
    BY <1>1, <1>3, MapsTypes DEF Init, Versions
  <1>5. VersionInv
    BY <1>1, <1>4 DEF VersionInv
  <1>6. Referred = {}
    BY <1>1, <1>3, MapsTypes, ReferredMeaning DEF Init
  <1>7. CopyInv
    BY <1>3, <1>6, MapsTypes DEF Init, CopyInv
  <1>8. RequestInv
    BY <1>1 DEF Init, RequestInv, NoJournal
  <1>9. \A m \in Machines : MachineInv(m)
    BY <1>6 DEF Init, MachineInv, Fit, NoJournal, Journaled, Updates, Running
  <1> QED BY <1>2, <1>5, <1>7, <1>8, <1>9 DEF Inv

\* Every step preserves the invariant.
LEMMA NextInv == Inv /\ [Next]_vars => Inv'
  <1> SUFFICES ASSUME Inv, [Next]_vars PROVE Inv'
    OBVIOUS
  <1>1. CASE UNCHANGED vars \/ Delete
    <2>1. /\ catalog' = catalog /\ journal' = journal /\ unstored' = unstored /\ pending' = pending /\ pc' = pc
          /\ mine' = mine /\ plan' = plan /\ todo' = todo /\ saves' = saves /\ faults' = faults
      BY <1>1 DEF vars, bucket, local, Delete
    <2> QED BY <2>1 DEF Inv, Types, VersionInv, CopyInv, RequestInv, MachineInv, Fit, Contents, Versions, Filed, Sent,
               Referred
  <1>2. ASSUME NEW m \in Machines, Step(m) PROVE Inv'
    BY <1>2, BeginStep, ProbeStep, RecoverStep, ReadLegacyStep, PlanStep, WritePlanStep, MigrateStep, RecoverHereStep,
       MatchStep, VerifyStep, CopyStep, CheckSourceStep, SwitchStep, ReadBackStep, UpdateStep DEF Step
  <1>3. ASSUME NEW m \in Machines, Abandon(m) \/ Crash(m) PROVE Inv'
    BY <1>3, AbandonStep, CrashStep
  <1>4. ASSUME NEW r \in pending, Settle(r) PROVE Inv'
    BY <1>4, SettleStep
  <1> QED BY <1>1, <1>2, <1>3, <1>4, SaveStep DEF Next

\* The invariant holds.
LEMMA Invariant == Spec => []Inv
  BY InitInv, NextInv, PTL DEF Spec

\* Every variable keeps its type, for any number of machines, documents and
\* catalog changes: a catalog never holds entries of the other key domain, and
\* a command that updates a journal has read one (migrate_encryption,
\* _safe_journal_update).
THEOREM MigrationTypeCorrect == Spec => []TypeOK
  <1>1. ASSUME Inv PROVE TypeOK
    <2>1. \A m \in Machines : todo[m] \subseteq DOMAIN mine[m].maps /\ plan[m].names \subseteq Docs
      BY <1>1, MachineTypes DEF Inv, MachineInv, Fit
    <2>2. \A m \in Machines : pc[m] \in DOMAIN Updates => mine[m].etag \in Nat \ {0}
      BY <1>1, MachineTypes DEF Inv, MachineInv, Fit, Journaled
    <2>3. Mapped(journal) \subseteq Copies \cup {NoCopy}
      BY <1>1, BucketTypes, MapsMeaning DEF Inv, Mapped
    <2>4. \A r \in pending : r[1] \in {"journal", "catalog"}
      BY <1>1 DEF Inv, Types, Requests
    <2> QED BY <1>1, <2>1, <2>2, <2>3, <2>4, BucketTypes DEF Inv, Types, RequestInv, TypeOK, Statuses
  <1> QED BY <1>1, Invariant, PTL

\* Every step keeps what is said of removed entries.
LEMMA RemovedStep ==
    ASSUME Inv, RemovedInv, [Next]_vars
    PROVE  RemovedInv'
  <1>1. CASE UNCHANGED <<catalog, removed, deleted>>
    BY <1>1 DEF RemovedInv
  <1>2. ASSUME NEW n \in SUBSET Copies, Switched(n), catalog.domain = "legacy", UNCHANGED <<removed, deleted>>
        PROVE  RemovedInv'
    <2>1. catalog'.domain = "new" /\ catalog'.names = n
      BY <1>2 DEF Switched
    <2> QED BY <1>2, <2>1, MigrationAssumption DEF RemovedInv
  <1>3. ASSUME NEW m \in Machines, Step(m) PROVE RemovedInv'
    <2>1. UNCHANGED <<catalog, removed, deleted>> \/ Switch(m)
      BY <1>3 DEF Step, bucket, Begin, Probe, Reconcile, Recover, ReadLegacy, Plan, WritePlan, Migrate, RecoverHere,
           Match, Verify, Copy, CheckSource, ReadBack, Update
    <2>2. CASE Switch(m)
      <3>1. /\ pc[m] = "switch" /\ UNCHANGED <<removed, deleted>>
            /\ catalog' = catalog \/ (catalog.etag = plan[m].etag /\ Switched(Mapped(mine[m])))
        BY <2>2 DEF Switch, Replaces
      <3> QED BY <1>1, <1>2, <3>1, SwitchNames
    <2> QED BY <1>1, <2>1, <2>2
  <1>4. ASSUME NEW r \in pending, Settle(r) PROVE RemovedInv'
    <2>1. /\ UNCHANGED <<removed, deleted>>
          /\ catalog' = catalog \/ (r[1] = "catalog" /\ Switched(r[2]))
      BY <1>4 DEF Settle
    <2>2. r[1] = "catalog" => catalog.domain = "legacy" /\ r[2] \in SUBSET Copies
      BY DEF Inv, RequestInv, Types, Requests
    <2> QED BY <1>1, <1>2, <2>1, <2>2
  <1>5. CASE Save
    <2>1. PICK entry : /\ entry \notin catalog.names \cup removed
                       /\ catalog' = [catalog EXCEPT !.names = @ \cup {entry}, !.etag = @ + 1]
      BY <1>5 DEF Save
    <2>2. catalog'.domain = catalog.domain /\ catalog'.names = catalog.names \cup {entry}
      BY <2>1 DEF Inv, Types, Catalogs
    <2> QED BY <1>5, <2>1, <2>2 DEF Save, RemovedInv
  <1>6. CASE Remove
    <2>1. PICK entry \in catalog.names :
            /\ catalog' = [catalog EXCEPT !.names = @ \ {entry}, !.etag = @ + 1]
            /\ removed' = removed \cup {entry}
      BY <1>6 DEF Remove
    <2>2. catalog'.domain = catalog.domain /\ catalog'.names = catalog.names \ {entry}
      BY <2>1 DEF Inv, Types, Catalogs
    <2>3. catalog.domain = "legacy" => entry \in Docs
      BY <2>1 DEF Inv, RequestInv
    <2> QED BY <1>6, <2>1, <2>2, <2>3 DEF Remove, RemovedInv
  <1>7. CASE Delete
    BY <1>7 DEF Delete, RemovedInv
  <1>8. ASSUME NEW m \in Machines, Abandon(m) \/ Crash(m) PROVE UNCHANGED <<catalog, removed, deleted>>
    BY <1>8 DEF Abandon, Crash, bucket
  <1>9. UNCHANGED vars => UNCHANGED <<catalog, removed, deleted>>
    BY DEF vars, bucket
  <1> QED BY <1>1, <1>3, <1>4, <1>5, <1>6, <1>7, <1>8, <1>9 DEF Next

\* What the new catalog names is in the bucket, and what the journal lists as
\* copied was stored and is still there unless it was removed from the new
\* catalog since: no crash, lost answer or second machine makes the journal or
\* the catalog name a ciphertext that was never stored, and no removal on
\* either side of the switch takes one away that the catalog names
\* (migrate_encryption, put_file, remove_room).
THEOREM CopiesAlwaysExist == Spec => []CopiesExist
  <1>1. ASSUME Inv, RemovedInv PROVE CopiesExist
    <2>1. Referred \cap unstored = {}
      BY <1>1 DEF Inv, CopyInv
    <2>2. \A c \in Mapped(journal) : c \in Referred
      BY <1>1, BucketTypes, ReferredMeaning DEF Inv, Mapped
    <2>3. catalog.domain = "new" => \A c \in catalog.names : c \in Referred
      BY ReferredMeaning
    <2>4. Mapped(journal) \cap Docs = {}
      <3>1. Mapped(journal) \subseteq Copies \cup {NoCopy}
        BY <1>1, BucketTypes, MapsMeaning DEF Inv, Mapped
      <3> QED BY <3>1, MigrationAssumption
    <2> QED BY <1>1, <2>1, <2>2, <2>3, <2>4 DEF CopiesExist, RemovedInv
  <1>2. Init => RemovedInv
    BY DEF Init, RemovedInv
  <1>3. Inv /\ RemovedInv /\ [Next]_vars => RemovedInv'
    BY RemovedStep
  <1> QED BY <1>1, <1>2, <1>3, Invariant, PTL DEF Spec

\* A journal says committed only when the catalog was switched, in whatever
\* order machines resume, reconcile and publish (_recover_committed_migration).
THEOREM CommittedMeansSwitched == Spec => []CommittedIsSwitched
  <1>1. Inv => CommittedIsSwitched
    BY DEF Inv, RequestInv, CommittedIsSwitched
  <1> QED BY <1>1, Invariant, PTL

\* The step that switches the catalog to the new key names exactly the
\* documents that the replaced catalog named, whoever saved meanwhile and
\* however late the PUT is applied (conditional_catalog_put).
THEOREM SwitchLosesNothing == Spec => SwitchKeepsContents
  <1>1. ASSUME Inv, [Next]_vars
        PROVE  [catalog'.domain # catalog.domain => Names(catalog') = Names(catalog)]_vars
    <2> SUFFICES ASSUME Next, catalog'.domain # catalog.domain PROVE Names(catalog') = Names(catalog)
      BY <1>1
    <2>1. ASSUME NEW n, Switched(n), catalog.domain = "legacy", {c[1] : c \in n} = catalog.names
          PROVE  Names(catalog') = Names(catalog)
      <3>1. catalog'.domain = "new" /\ catalog'.names = n
        BY <2>1 DEF Switched
      <3> QED BY <2>1, <3>1 DEF Names
    <2>2. ASSUME NEW m \in Machines, Step(m) PROVE Names(catalog') = Names(catalog)
      <3>1. catalog' = catalog \/ Switch(m)
        BY <2>2 DEF Step, bucket, Begin, Probe, Reconcile, Recover, ReadLegacy, Plan, WritePlan, Migrate, RecoverHere,
             Match, Verify, Copy, CheckSource, ReadBack, Update
      <3>2. CASE Switch(m)
        <4>1. /\ pc[m] = "switch"
              /\ catalog' = catalog \/ (catalog.etag = plan[m].etag /\ Switched(Mapped(mine[m])))
          BY <3>2 DEF Switch, Replaces
        <4> QED BY <1>1, <2>1, <4>1, SwitchNames
      <3> QED BY <3>1, <3>2
    <2>3. ASSUME NEW m \in Machines, Abandon(m) \/ Crash(m) PROVE catalog' = catalog
      BY <2>3 DEF Abandon, Crash, bucket
    <2>4. ASSUME NEW r \in pending, Settle(r) PROVE Names(catalog') = Names(catalog)
      <3>1. catalog' = catalog \/ (r[1] = "catalog" /\ Switched(r[2]))
        BY <2>4 DEF Settle
      <3>2. r[1] = "catalog" => catalog.domain = "legacy" /\ {c[1] : c \in r[2]} = catalog.names
        BY <1>1 DEF Inv, RequestInv
      <3> QED BY <2>1, <3>1, <3>2
    <2>5. ASSUME Save \/ Remove \/ Delete PROVE catalog'.domain = catalog.domain
      BY <1>1, <2>5 DEF Save, Remove, Delete, Inv, Types, Catalogs
    <2> QED BY <2>2, <2>3, <2>4, <2>5 DEF Next
  <1> QED BY <1>1, Invariant, PTL DEF Spec, SwitchKeepsContents
=============================================================================
