---------------------------- MODULE KeysetProofs ----------------------------
(***************************************************************************)
(* What TLAPS proves about Keyset for any number of machines and faults on *)
(* either provider: the material is written once, and everybody uses it.   *)
(***************************************************************************)
EXTENDS Keyset, TLAPS

\* A record has a secret exactly when its format has one, and is bound only
\* to the repository that exists.
Sound(r) ==
    /\ r.version = 2 <=> r.secret # None
    /\ r.repository # None => r.secret # None /\ r.repository = repository.id /\ repository # NoRepository

\* A record that replaces another one keeps its material.
Keeps(old, new) ==
    /\ old.identity # None => new.identity = old.identity
    /\ old.secret # None => new.secret = old.secret
    /\ old.repository # None => new.repository = old.repository

\* A record that may be written: as long as its condition holds it keeps what
\* is there, because it was made from the record with that ETag.
Writable(r) ==
    /\ Sound(r)
    /\ r.etag <= keyset.etag
    /\ r.etag = keyset.etag => Keeps(keyset, r)

Writers == {"enroll", "upgrade", "write-bind"}
Openers == {"open", "init", "reopen", "bind"}
Binders == {"write-bind", "bound", "use"}

\* What holds of the durable state.
DurableInv ==
    /\ Sound(keyset)
    /\ keyset.etag = 0 => keyset = Absent
    /\ \A r \in pending : Writable(r)
    /\ repository # NoRepository =>
          repository.id # None /\ repository.password = keyset.secret /\ keyset.secret # None

\* What holds of one machine: what it uses is durable, and what it means to
\* write may be written.
MachineInv(m) ==
    /\ Sound(held[m])
    /\ identity[m] \in {None, keyset.identity}
    /\ \A entry \in cache[m] : entry[2] = keyset.secret /\ keyset.secret # None
    /\ pc[m] \in Writers => Writable(held[m])
    /\ pc[m] = "upgrade" => held[m].secret # None
    /\ pc[m] \in Openers \cup Binders => held[m].secret = keyset.secret /\ keyset.secret # None
    /\ pc[m] \in Openers /\ held[m].repository # None => keyset.repository = held[m].repository
    /\ pc[m] \in Binders \cup {"bind"} => opened[m] = repository.id /\ repository # NoRepository
    /\ pc[m] = "use" => keyset.repository = opened[m]

Inv == TypeOK /\ DurableInv /\ \A m \in Machines : MachineInv(m)

-----------------------------------------------------------------------------
(* Types.                                                                  *)

\* Random values and repository ids are drawn, and are not None.
LEMMA DrawnTypes ==
    /\ None \in Drawn
    /\ \A m \in Machines, k \in Nat : <<m, k>> \in Drawn
    /\ \A m, k : <<m, k>> # None
  BY DEF Drawn, None

\* A record stays one when a field is changed.
LEMMA FieldTypes ==
    ASSUME NEW r \in Records
    PROVE  /\ \A d \in Drawn : [r EXCEPT !.identity = d] \in Records
           /\ \A d \in Drawn : [r EXCEPT !.secret = d] \in Records
           /\ \A k \in Nat : [r EXCEPT !.generation = k] \in Records
           /\ \A d \in Drawn : [r EXCEPT !.repository = d] \in Records
           /\ \A k \in Nat : [r EXCEPT !.etag = k] \in Records
           /\ r.generation + 1 \in Nat /\ r.etag + 1 \in Nat
  BY DEF Records

\* The records that machines make are records.
LEMMA RecordTypes ==
    /\ Absent \in Records
    /\ \A r \in Records : [r EXCEPT !.etag = @ + 1] \in Records
    /\ \A d \in Drawn : [Absent EXCEPT !.version = 1, !.identity = d] \in Records
    /\ \A r \in Records, d \in Drawn : [r EXCEPT !.version = 2, !.secret = d, !.generation = 1] \in Records
    /\ \A r \in Records, d \in Drawn : [r EXCEPT !.repository = d, !.generation = @ + 1] \in Records
  <1>1. Absent \in Records
    BY DrawnTypes DEF Absent, Records
  <1>2. \A r \in Records : [r EXCEPT !.etag = @ + 1] \in Records
    BY FieldTypes
  <1>3. ASSUME NEW d \in Drawn PROVE [Absent EXCEPT !.version = 1, !.identity = d] \in Records
    <2>1. [Absent EXCEPT !.version = 1] \in Records
      BY <1>1 DEF Records
    <2>2. [[Absent EXCEPT !.version = 1] EXCEPT !.identity = d] \in Records
      BY <2>1, FieldTypes
    <2> QED BY <2>2
  <1>4. ASSUME NEW r \in Records, NEW d \in Drawn
        PROVE  [r EXCEPT !.version = 2, !.secret = d, !.generation = 1] \in Records
    <2>1. [r EXCEPT !.version = 2] \in Records
      BY DEF Records
    <2>2. [[r EXCEPT !.version = 2] EXCEPT !.secret = d] \in Records
      BY <2>1, FieldTypes
    <2>3. [[[r EXCEPT !.version = 2] EXCEPT !.secret = d] EXCEPT !.generation = 1] \in Records
      BY <2>2, FieldTypes
    <2> QED BY <2>3
  <1>5. ASSUME NEW r \in Records, NEW d \in Drawn
        PROVE  [r EXCEPT !.repository = d, !.generation = @ + 1] \in Records
    <2>1. [r EXCEPT !.repository = d] \in Records
      BY FieldTypes
    <2>2. [[r EXCEPT !.repository = d] EXCEPT !.generation = r.generation + 1] \in Records
      BY <2>1, FieldTypes
    <2>3. [r EXCEPT !.repository = d, !.generation = r.generation + 1] \in Records
      BY <2>2
    <2> QED BY <2>3
  <1> QED BY <1>1, <1>2, <1>3, <1>4, <1>5

\* What a state of the right type says of one machine.
LEMMA MachineTypes ==
    ASSUME TypeOK, NEW m \in Machines
    PROVE  /\ held[m] \in Records /\ opened[m] \in Drawn /\ identity[m] \in Drawn
           /\ drawn[m] \in Nat /\ Fresh(m) \in Drawn /\ Fresh(m) # None
  BY DrawnTypes DEF TypeOK, Fresh

-----------------------------------------------------------------------------
(* Writing the keyset.                                                     *)

\* A step leaves the keyset alone or writes a record that may be written.
Grows ==
    \/ keyset' = keyset
    \/ \E r \in Records : Writable(r) /\ Replaces(r) /\ keyset' = [r EXCEPT !.etag = @ + 1]

\* What is written keeps the material, and makes every other record that was
\* to replace the same one stale.
LEMMA GrowsKeeps ==
    ASSUME Inv, Grows, repository' = repository
    PROVE  /\ keyset' \in Records /\ Keeps(keyset, keyset') /\ Sound(keyset)'
           /\ keyset'.etag = 0 => keyset' = Absent
           /\ \A q \in Records : Sound(q) => Sound(q)'
           /\ \A q \in Records : Writable(q) => Writable(q)'
  <1>1. keyset \in Records /\ DurableInv
    BY DEF Inv, TypeOK
  <1>2. \A q : Sound(q) => Sound(q)'
    BY DEF Sound
  <1>3. CASE keyset' = keyset
    BY <1>1, <1>2, <1>3 DEF Keeps, Writable, DurableInv, Sound
  <1>4. ASSUME NEW r \in Records, Writable(r), Replaces(r), keyset' = [r EXCEPT !.etag = @ + 1]
        PROVE  /\ keyset' \in Records /\ Keeps(keyset, keyset') /\ Sound(keyset)'
               /\ keyset'.etag = keyset.etag + 1
    <2>1. /\ keyset' \in Records /\ keyset'.etag = keyset.etag + 1
          /\ keyset'.identity = r.identity /\ keyset'.secret = r.secret
          /\ keyset'.repository = r.repository /\ keyset'.version = r.version
      BY <1>1, <1>4 DEF Records, Replaces
    <2>2. Keeps(keyset, r) /\ Sound(r)
      BY <1>4 DEF Writable, Replaces
    <2> QED BY <2>1, <2>2 DEF Keeps, Sound
  <1>5. CASE keyset' # keyset
    <2>1. /\ keyset' \in Records /\ Keeps(keyset, keyset') /\ Sound(keyset)'
          /\ keyset'.etag = keyset.etag + 1 /\ keyset.etag \in Nat
      BY <1>1, <1>4, <1>5 DEF Grows, Records
    <2>2. \A q \in Records : Writable(q) => Writable(q)'
      <3> SUFFICES ASSUME NEW q \in Records, Writable(q) PROVE Writable(q)'
        OBVIOUS
      <3>1. q.etag \in Nat /\ q.etag <= keyset.etag /\ Sound(q)'
        BY <1>2 DEF Records, Writable
      <3> QED BY <2>1, <3>1 DEF Writable
    <2> QED BY <1>2, <2>1, <2>2
  <1> QED BY <1>3, <1>5

\* The durable state after such a step.
LEMMA DurableStep ==
    ASSUME Inv, Grows, repository' = repository,
           \A r \in pending' : r \in Records /\ (r \in pending \/ Writable(r))
    PROVE  DurableInv'
  <1>1. \A r \in pending' : Writable(r)'
    <2> SUFFICES ASSUME NEW r \in pending' PROVE Writable(r)'
      OBVIOUS
    <2>1. r \in Records /\ Writable(r)
      BY DEF Inv, DurableInv
    <2> QED BY <2>1, GrowsKeeps
  <1> QED BY <1>1, GrowsKeeps DEF Inv, DurableInv, Keeps

\* A machine that does nothing is not disturbed by it.
LEMMA IdleMachine ==
    ASSUME Inv, Grows, repository' = repository, NEW m \in Machines,
           pc'[m] = pc[m], held'[m] = held[m], opened'[m] = opened[m],
           identity'[m] = identity[m], cache'[m] = cache[m]
    PROVE  MachineInv(m)'
  <1>1. MachineInv(m) /\ DurableInv /\ held[m] \in Records
    BY MachineTypes DEF Inv
  <1>2. /\ Sound(held[m])' /\ (Writable(held[m]) => Writable(held[m])')
    BY <1>1, GrowsKeeps DEF MachineInv, Sound, Writable
  <1>3. keyset.repository # None => keyset'.repository = keyset.repository
    BY GrowsKeeps DEF Keeps
  <1>4. keyset.secret # None => keyset'.secret = keyset.secret
    BY GrowsKeeps DEF Keeps
  <1>5. identity'[m] \in {None, keyset'.identity}
    BY <1>1, GrowsKeeps DEF Keeps, MachineInv
  <1>6. pc[m] = "use" => keyset.repository # None
    BY <1>1 DEF MachineInv, DurableInv, Binders
  <1> QED BY <1>1, <1>2, <1>3, <1>4, <1>5, <1>6 DEF MachineInv

\* Nor is one whose command stops.
LEMMA StoppedMachine ==
    ASSUME Inv, Grows, repository' = repository, NEW m \in Machines,
           pc'[m] = "idle", held'[m] = Absent, cache'[m] = cache[m],
           identity'[m] \in {identity[m], keyset'.identity}
    PROVE  MachineInv(m)'
  <1>1. MachineInv(m)
    BY DEF Inv
  <1>2. Sound(held[m])'
    BY DEF Sound, Absent
  <1>3. identity'[m] \in {None, keyset'.identity}
    BY <1>1, GrowsKeeps DEF Keeps, MachineInv
  <1>4. keyset.secret # None => keyset'.secret = keyset.secret
    BY GrowsKeeps DEF Keeps
  <1> QED BY <1>1, <1>2, <1>3, <1>4 DEF MachineInv, Writers, Openers, Binders

\* Nor is one that goes to a place where nothing is known of the record it
\* holds.
LEMMA DriftingMachine ==
    ASSUME Inv, Grows, UNCHANGED <<repository, identity, cache>>, NEW m \in Machines,
           pc'[m] \in {"enrolled", "upgraded", "winner"}, held'[m] = held[m]
    PROVE  MachineInv(m)'
  <1>1. MachineInv(m)
    BY DEF Inv
  <1>2. Sound(held[m])'
    BY <1>1 DEF MachineInv, Sound
  <1>3. identity'[m] \in {None, keyset'.identity}
    BY <1>1, GrowsKeeps DEF Keeps, MachineInv
  <1>4. keyset.secret # None => keyset'.secret = keyset.secret
    BY GrowsKeeps DEF Keeps
  <1> QED BY <1>1, <1>2, <1>3, <1>4 DEF MachineInv, Writers, Openers, Binders

\* Write does what Grows allows, and may leave the record under way.
LEMMA WriteEffect ==
    ASSUME Inv, NEW r \in Records, Writable(r), NEW outcome, Write(r, outcome)
    PROVE  /\ Grows
           /\ outcome = "ok" => keyset' = [r EXCEPT !.etag = @ + 1]
           /\ pending' = pending \/ pending' = pending \cup {r}
           /\ faults' = faults \/ \E k : Fault(k)
  BY DEF Write, Grows

\* What a step of machine m may change apart from the durable state.
TouchesLocal(m) ==
    /\ pc' = pc \/ \E l \in Labels : pc' = [pc EXCEPT ![m] = l]
    /\ held' = held \/ \E r \in Records : held' = [held EXCEPT ![m] = r]
    /\ opened' = opened \/ \E d \in Drawn : opened' = [opened EXCEPT ![m] = d]

TouchesOwn(m) ==
    /\ identity' = identity \/ \E d \in Drawn : identity' = [identity EXCEPT ![m] = d]
    /\ cache' = cache \/ \E r \in Records : Cache(m, r)
    /\ drawn' = drawn \/ Draw(m)
    /\ faults' = faults \/ \E k : Fault(k)
    /\ provider' = provider

Touches(m) == TouchesLocal(m) /\ TouchesOwn(m)

\* The program counter moves, or a record is held, or the command stops.
LEMMA LocalTouches ==
    ASSUME NEW m \in Machines
    PROVE  /\ \A l \in Labels : Goto(m, l) => TouchesLocal(m)
           /\ \A l \in Labels, r \in Records : Hold(m, r, l) => TouchesLocal(m)
           /\ Stop(m) => TouchesLocal(m)
           /\ UNCHANGED local => TouchesLocal(m)
  BY DrawnTypes, RecordTypes DEF TouchesLocal, Goto, Hold, Stop, local, Labels

\* Such a step keeps the types, and the other machines as they are.
LEMMA TouchesOne ==
    ASSUME TypeOK, NEW m \in Machines, Touches(m), keyset' \in Records, pending' \subseteq Records,
           repository' \in [id : Drawn, password : Drawn]
    PROVE  /\ TypeOK'
           /\ \A g \in Machines \ {m} : /\ pc'[g] = pc[g] /\ held'[g] = held[g] /\ opened'[g] = opened[g]
                                        /\ identity'[g] = identity[g] /\ cache'[g] = cache[g]
  <1>1. pc' \in [Machines -> Labels] /\ \A g \in Machines \ {m} : pc'[g] = pc[g]
    BY DEF TypeOK, Touches, TouchesLocal
  <1>2. held' \in [Machines -> Records] /\ \A g \in Machines \ {m} : held'[g] = held[g]
    BY DEF TypeOK, Touches, TouchesLocal
  <1>3. opened' \in [Machines -> Drawn] /\ \A g \in Machines \ {m} : opened'[g] = opened[g]
    BY DEF TypeOK, Touches, TouchesLocal
  <1>4. identity' \in [Machines -> Drawn] /\ \A g \in Machines \ {m} : identity'[g] = identity[g]
    BY DEF TypeOK, Touches, TouchesOwn
  <1>5. cache' \in [Machines -> SUBSET (Nat \X Drawn)] /\ \A g \in Machines \ {m} : cache'[g] = cache[g]
    <2>1. \A r \in Records : <<r.generation, r.secret>> \in Nat \X Drawn
      BY DEF Records
    <2> QED BY <2>1 DEF TypeOK, Touches, TouchesOwn, Cache
  <1>6. drawn' \in [Machines -> Nat] /\ faults' \in Nat /\ provider' \in Providers
    BY DEF TypeOK, Touches, TouchesOwn, Draw, Fault
  <1> QED BY <1>1, <1>2, <1>3, <1>4, <1>5, <1>6 DEF TypeOK

\* A step of machine m preserves the invariant when it does so for m.
LEMMA MachineStep ==
    ASSUME Inv, NEW m \in Machines, Touches(m), Grows, repository' = repository,
           pending' = pending \/ (pending' = pending \cup {held[m]} /\ pc[m] \in Writers),
           MachineInv(m)'
    PROVE  Inv'
  <1>1. keyset' \in Records /\ MachineInv(m)
    BY GrowsKeeps DEF Inv
  <1>2. \A r \in pending' : r \in Records /\ (r \in pending \/ Writable(r))
    BY <1>1, MachineTypes DEF Inv, TypeOK, MachineInv
  <1>3. /\ TypeOK'
        /\ \A g \in Machines \ {m} : /\ pc'[g] = pc[g] /\ held'[g] = held[g] /\ opened'[g] = opened[g]
                                     /\ identity'[g] = identity[g] /\ cache'[g] = cache[g]
    BY <1>1, <1>2, TouchesOne DEF Inv, TypeOK
  <1>4. DurableInv'
    BY <1>2, DurableStep
  <1>5. \A g \in Machines \ {m} : MachineInv(g)'
    BY <1>3, IdleMachine
  <1> QED BY <1>3, <1>4, <1>5 DEF Inv

\* A machine that holds the durable record with its secret may open the
\* repository.
LEMMA HoldsKeyset ==
    ASSUME Inv, UNCHANGED <<keyset, repository, identity>>, keyset.secret # None,
           NEW m \in Machines, held'[m] = keyset, pc'[m] = "open",
           cache' = cache \/ Cache(m, keyset)
    PROVE  MachineInv(m)'
  <1>1. MachineInv(m) /\ DurableInv
    BY DEF Inv
  <1>2. \A entry \in cache'[m] : entry[2] = keyset.secret
    BY <1>1 DEF Inv, TypeOK, MachineInv, Cache
  <1> QED BY <1>1, <1>2 DEF MachineInv, DurableInv, Sound, Writers, Openers, Binders

\* A machine that moves on with the record it holds keeps what is said of it.
LEMMA StepsOn ==
    ASSUME Inv, UNCHANGED <<keyset, repository, identity, cache>>, NEW m \in Machines, held'[m] = held[m],
           pc'[m] \in Writers => pc[m] \in Writers, pc'[m] # "upgrade",
           pc'[m] \in Openers => pc[m] \in Openers,
           pc'[m] \in Binders => pc[m] \in Binders \cup {"bind"},
           pc'[m] \in Binders \cup {"bind"} => opened'[m] = repository.id /\ repository # NoRepository,
           pc'[m] = "use" => keyset.repository = opened'[m]
    PROVE  MachineInv(m)'
  <1>1. MachineInv(m)
    BY DEF Inv
  <1>2. Openers \cup Binders = Openers \cup Binders \cup {"bind"}
    BY DEF Openers
  <1> QED BY <1>1, <1>2 DEF MachineInv, Sound, Writable, Keeps

-----------------------------------------------------------------------------
(* The steps of a machine.                                                 *)
\* Enroll preserves the invariant.
LEMMA EnrollStep == ASSUME Inv, NEW m \in Machines, Enroll(m) PROVE Inv'
  <1>1. /\ UNCHANGED <<provider, keyset, repository, pending, cache, faults>> /\ Grows
        /\ keyset \in Records /\ DurableInv /\ MachineInv(m) /\ TypeOK
    BY DEF Enroll, durable, Grows, Inv, TypeOK
  <1>2. CASE identity' = [identity EXCEPT ![m] = keyset.identity] /\ UNCHANGED <<local, drawn>>
    <2>1. Touches(m)
      BY <1>1, <1>2, LocalTouches DEF Touches, TouchesOwn, Records
    <2>2. MachineInv(m)'
      BY <1>1, <1>2 DEF TypeOK, MachineInv, local, Sound, Writable, Keeps
    <2> QED BY <1>1, <2>1, <2>2, MachineStep
  <1>3. CASE /\ Draw(m) /\ UNCHANGED identity
             /\ Hold(m, [Absent EXCEPT !.version = 1, !.identity = Fresh(m)], "enroll")
    <2> DEFINE r == [Absent EXCEPT !.version = 1, !.identity = Fresh(m)]
    <2>1. r \in Records
      BY <1>1, MachineTypes, RecordTypes
    <2>2. Touches(m)
      BY <1>1, <1>3, <2>1, LocalTouches DEF Touches, TouchesOwn, Labels
    <2>3. Writable(r)
      <3>1. r.version = 1 /\ r.secret = None /\ r.repository = None /\ r.etag = 0
        BY DEF Absent
      <3>2. keyset.etag = 0 => Keeps(keyset, r)
        BY <1>1 DEF DurableInv, Keeps, Absent
      <3>3. keyset.etag \in Nat
        BY <1>1 DEF Records
      <3> QED BY <3>1, <3>2, <3>3 DEF Writable, Sound
    <2>4. held'[m] = r /\ pc'[m] = "enroll"
      BY <1>1, <1>3 DEF Hold, TypeOK
    <2> HIDE DEF r
    <2>5. Writable(held[m])'
      BY <1>1, <2>3, <2>4 DEF Writable, Sound, Keeps
    <2>6. MachineInv(m)'
      BY <1>1, <1>3, <2>4, <2>5 DEF MachineInv, Writable, Writers, Openers, Binders
    <2> QED BY <1>1, <2>2, <2>6, MachineStep
  <1> QED BY <1>2, <1>3 DEF Enroll

\* Enrolled preserves the invariant.
LEMMA EnrolledStep == ASSUME Inv, NEW m \in Machines, Enrolled(m) PROVE Inv'
  <1>1. /\ UNCHANGED <<provider, keyset, repository, pending, drawn, cache>> /\ Grows
        /\ keyset.identity \in Drawn /\ TypeOK
    BY DEF Enrolled, Unread, durable, Grows, Inv, TypeOK, Records
  <1>2. /\ Stop(m) /\ (faults' = faults \/ \E k : Fault(k))
        /\ identity' = identity \/ identity' = [identity EXCEPT ![m] = keyset.identity]
    BY DEF Enrolled, Unread
  <1>3. Touches(m)
    BY <1>1, <1>2, LocalTouches DEF Touches, TouchesOwn
  <1>4. MachineInv(m)'
    <2>1. pc'[m] = "idle" /\ held'[m] = Absent /\ identity'[m] \in {identity[m], keyset'.identity}
      BY <1>1, <1>2 DEF Stop, TypeOK
    <2> QED BY <1>1, <2>1, StoppedMachine
  <1> QED BY <1>1, <1>3, <1>4, MachineStep

\* Begin preserves the invariant.
LEMMA BeginStep == ASSUME Inv, NEW m \in Machines, Begin(m) PROVE Inv'
  <1>1. /\ UNCHANGED <<provider, keyset, repository, pending, drawn, cache, identity, faults>> /\ Grows
        /\ TypeOK /\ Goto(m, "ensure")
    BY DEF Begin, durable, Grows, Inv
  <1>2. Touches(m)
    BY <1>1, LocalTouches DEF Touches, TouchesOwn, Labels
  <1>3. pc'[m] = "ensure" /\ held'[m] = held[m]
    BY <1>1 DEF Goto, TypeOK
  <1>4. MachineInv(m)'
    BY <1>1, <1>3, StepsOn DEF Writers, Openers, Binders
  <1> QED BY <1>1, <1>2, <1>4, MachineStep

\* A command that stops, and nothing else.
LEMMA StopStep ==
    ASSUME Inv, NEW m \in Machines, Stop(m), UNCHANGED <<provider, keyset, repository, pending, identity, cache, drawn>>,
           faults' = faults \/ \E k : Fault(k)
    PROVE  Inv'
  <1>1. Touches(m) /\ Grows
    BY LocalTouches DEF Touches, TouchesOwn, Grows
  <1>2. pc'[m] = "idle" /\ held'[m] = Absent
    BY DEF Inv, TypeOK, Stop
  <1>3. MachineInv(m)'
    BY <1>1, <1>2, StoppedMachine
  <1> QED BY <1>1, <1>3, MachineStep

\* A machine that caches and holds the durable record, and nothing else.
LEMMA OpenableStep ==
    ASSUME Inv, NEW m \in Machines, Hold(m, keyset, "open"), Cache(m, keyset), keyset.version = 2,
           UNCHANGED <<provider, keyset, repository, pending, identity, drawn, faults>>
    PROVE  Inv'
  <1>1. keyset \in Records /\ TypeOK /\ Grows /\ keyset.secret # None
    BY DEF Inv, TypeOK, Grows, DurableInv, Sound
  <1>2. Touches(m)
    BY <1>1, LocalTouches DEF Touches, TouchesOwn, Labels
  <1>3. pc'[m] = "open" /\ held'[m] = keyset
    BY <1>1 DEF Hold, TypeOK
  <1>4. MachineInv(m)'
    BY <1>1, <1>3, HoldsKeyset
  <1> QED BY <1>1, <1>2, <1>4, MachineStep

\* Upgraded and Winner preserve the invariant.
LEMMA UpgradedStep == ASSUME Inv, NEW m \in Machines, Upgraded(m) \/ Winner(m) PROVE Inv'
  <1>1. UNCHANGED <<provider, keyset, repository, pending, identity, drawn>>
    BY DEF Upgraded, Winner, durable
  <1>2. \/ keyset.version = 2 /\ Hold(m, keyset, "open") /\ Cache(m, keyset) /\ UNCHANGED faults
        \/ Stop(m) /\ UNCHANGED cache /\ (faults' = faults \/ \E k : Fault(k))
    BY DEF Upgraded, Winner, Unread
  <1> QED BY <1>1, <1>2, StopStep, OpenableStep

\* Ensure preserves the invariant.
LEMMA EnsureStep == ASSUME Inv, NEW m \in Machines, Ensure(m) PROVE Inv'
  <1>1. /\ UNCHANGED <<provider, keyset, repository, pending, identity>> /\ Grows
        /\ keyset \in Records /\ DurableInv /\ MachineInv(m) /\ TypeOK
    BY DEF Ensure, durable, Grows, Inv, TypeOK
  <1>2. CASE keyset.version = 2 /\ Cache(m, keyset) /\ Hold(m, keyset, "open") /\ UNCHANGED <<drawn, faults>>
    BY <1>1, <1>2, OpenableStep
  <1>3. CASE Unread(m) /\ UNCHANGED drawn
    BY <1>1, <1>3, StopStep DEF Unread
  <1>4. CASE /\ Upgradable /\ Draw(m) /\ UNCHANGED <<cache, faults>>
             /\ Hold(m, [keyset EXCEPT !.version = 2, !.secret = Fresh(m), !.generation = 1], "upgrade")
    <2> DEFINE r == [keyset EXCEPT !.version = 2, !.secret = Fresh(m), !.generation = 1]
    <2>1. r \in Records
      BY <1>1, MachineTypes, RecordTypes
    <2>2. Touches(m)
      BY <1>1, <1>4, <2>1, LocalTouches DEF Touches, TouchesOwn, Labels
    <2>3. Writable(r)
      <3>1. /\ r.version = 2 /\ r.secret = Fresh(m) /\ r.identity = keyset.identity
            /\ r.repository = keyset.repository /\ r.etag = keyset.etag
        BY <1>1 DEF Records
      <3>2. keyset.secret = None /\ keyset.repository = None
        BY <1>1, <1>4 DEF DurableInv, Sound, Upgradable
      <3>3. keyset.etag \in Nat /\ Fresh(m) # None
        BY <1>1, MachineTypes DEF Records
      <3> QED BY <3>1, <3>2, <3>3 DEF Writable, Sound, Keeps
    <2>4. held'[m] = r /\ pc'[m] = "upgrade"
      BY <1>1, <1>4 DEF Hold, TypeOK
    <2> HIDE DEF r
    <2>5. Writable(held[m])'
      BY <1>1, <2>3, <2>4 DEF Writable, Sound, Keeps
    <2>6. held'[m].secret # None
      BY <1>1, <2>4, MachineTypes DEF r, Records
    <2>7. MachineInv(m)'
      BY <1>1, <1>4, <2>4, <2>5, <2>6 DEF MachineInv, Writable, Writers, Openers, Binders
    <2> QED BY <1>1, <2>2, <2>7, MachineStep
  <1> QED BY <1>2, <1>3, <1>4 DEF Ensure

\* What writing the held record does, whatever the answer.
LEMMA HeldEffect ==
    ASSUME Inv, NEW m \in Machines, pc[m] \in Writers, NEW outcome, Write(held[m], outcome), repository' = repository
    PROVE  /\ Grows /\ keyset' \in Records /\ Keeps(keyset, keyset') /\ Sound(keyset)'
           /\ outcome = "ok" => keyset' = [held[m] EXCEPT !.etag = @ + 1]
           /\ pending' = pending \/ pending' = pending \cup {held[m]}
           /\ faults' = faults \/ \E k : Fault(k)
  <1>1. Writable(held[m]) /\ held[m] \in Records
    BY MachineTypes DEF Inv, MachineInv
  <1>2. /\ Grows
        /\ outcome = "ok" => keyset' = [held[m] EXCEPT !.etag = @ + 1]
        /\ pending' = pending \/ pending' = pending \cup {held[m]}
        /\ faults' = faults \/ \E k : Fault(k)
    BY <1>1, WriteEffect
  <1> QED BY <1>2, GrowsKeeps

\* WriteEnroll preserves the invariant.
LEMMA WriteEnrollStep == ASSUME Inv, NEW m \in Machines, WriteEnroll(m) PROVE Inv'
  <1>1. UNCHANGED <<provider, repository, cache, drawn>> /\ pc[m] \in Writers /\ TypeOK /\ held[m] \in Records
    BY MachineTypes DEF WriteEnroll, Writers, Inv
  <1>2. CASE /\ Write(held[m], "ok") /\ Stop(m)
             /\ identity' = [identity EXCEPT ![m] = held[m].identity]
    <2>1. /\ Grows /\ keyset' = [held[m] EXCEPT !.etag = @ + 1]
          /\ pending' = pending \/ pending' = pending \cup {held[m]}
          /\ faults' = faults \/ \E k : Fault(k)
      BY <1>1, <1>2, HeldEffect
    <2>2. Touches(m)
      BY <1>1, <1>2, <2>1, LocalTouches DEF Touches, TouchesOwn, Records
    <2>3. keyset'.identity = held[m].identity
      BY <1>1, <2>1 DEF Records
    <2>4. pc'[m] = "idle" /\ held'[m] = Absent /\ identity'[m] = keyset'.identity
      BY <1>1, <1>2, <2>3 DEF Stop, TypeOK
    <2>5. MachineInv(m)'
      BY <1>1, <2>1, <2>4, StoppedMachine
    <2> QED BY <1>1, <2>1, <2>2, <2>5, MachineStep
  <1>3. CASE Write(held[m], "refused") /\ Goto(m, "enrolled") /\ UNCHANGED identity
    <2>1. /\ Grows /\ (pending' = pending \/ pending' = pending \cup {held[m]})
          /\ faults' = faults \/ \E k : Fault(k)
      BY <1>1, <1>3, HeldEffect
    <2>2. Touches(m)
      BY <1>1, <1>3, <2>1, LocalTouches DEF Touches, TouchesOwn, Labels
    <2>3. pc'[m] = "enrolled" /\ held'[m] = held[m]
      BY <1>1, <1>3 DEF Goto, TypeOK
    <2>4. MachineInv(m)'
      BY <1>1, <1>3, <2>1, <2>3, DriftingMachine
    <2> QED BY <1>1, <2>1, <2>2, <2>4, MachineStep
  <1>4. CASE Write(held[m], "unknown") /\ Stop(m) /\ UNCHANGED identity
    <2>1. /\ Grows /\ (pending' = pending \/ pending' = pending \cup {held[m]})
          /\ faults' = faults \/ \E k : Fault(k)
      BY <1>1, <1>4, HeldEffect
    <2>2. Touches(m)
      BY <1>1, <1>4, <2>1, LocalTouches DEF Touches, TouchesOwn
    <2>3. pc'[m] = "idle" /\ held'[m] = Absent /\ identity'[m] = identity[m]
      BY <1>1, <1>4 DEF Stop, TypeOK
    <2>4. MachineInv(m)'
      BY <1>1, <2>1, <2>3, StoppedMachine
    <2> QED BY <1>1, <2>1, <2>2, <2>4, MachineStep
  <1> QED BY <1>2, <1>3, <1>4 DEF WriteEnroll

\* Upgrade preserves the invariant.
LEMMA UpgradeStep == ASSUME Inv, NEW m \in Machines, Upgrade(m) PROVE Inv'
  <1>1. UNCHANGED <<provider, repository, identity, drawn>> /\ pc[m] \in Writers /\ TypeOK /\ held[m] \in Records
    BY MachineTypes DEF Upgrade, Writers, Inv
  <1>2. CASE Write(held[m], "ok") /\ Cache(m, keyset') /\ Hold(m, keyset', "open")
    <2>1. /\ Grows /\ keyset' = [held[m] EXCEPT !.etag = @ + 1] /\ keyset' \in Records
          /\ Keeps(keyset, keyset') /\ Sound(keyset)'
          /\ pending' = pending \/ pending' = pending \cup {held[m]}
          /\ faults' = faults \/ \E k : Fault(k)
      BY <1>1, <1>2, HeldEffect
    <2>2. Touches(m)
      BY <1>1, <1>2, <2>1, LocalTouches DEF Touches, TouchesOwn, Labels
    <2>3. pc'[m] = "open" /\ held'[m] = keyset'
      BY <1>1, <1>2 DEF Hold, TypeOK
    <2>4. MachineInv(m) /\ keyset'.secret # None
      BY <1>1, <2>1 DEF Inv, MachineInv, Records, Upgrade
    <2>5. \A entry \in cache'[m] : entry[2] = keyset'.secret
      BY <1>1, <1>2, <2>1, <2>4 DEF TypeOK, MachineInv, Cache, Keeps
    <2>6. MachineInv(m)'
      BY <1>1, <2>1, <2>3, <2>4, <2>5 DEF MachineInv, Sound, Keeps, Writers, Openers, Binders
    <2> QED BY <1>1, <2>1, <2>2, <2>6, MachineStep
  <1>3. ASSUME NEW outcome, NEW l \in {"upgraded", "winner"},
               Write(held[m], outcome), Goto(m, l), UNCHANGED cache
        PROVE  Inv'
    <2>1. /\ Grows /\ (pending' = pending \/ pending' = pending \cup {held[m]})
          /\ faults' = faults \/ \E k : Fault(k)
      BY <1>1, <1>3, HeldEffect
    <2>2. Touches(m)
      BY <1>1, <1>3, <2>1, LocalTouches DEF Touches, TouchesOwn, Labels
    <2>3. pc'[m] \in {"upgraded", "winner"} /\ held'[m] = held[m]
      BY <1>1, <1>3 DEF Goto, TypeOK
    <2>4. MachineInv(m)'
      BY <1>1, <1>3, <2>1, <2>3, DriftingMachine
    <2> QED BY <1>1, <2>1, <2>2, <2>4, MachineStep
  <1> QED BY <1>2, <1>3 DEF Upgrade, AfterFailure

\* Open preserves the invariant.
LEMMA OpenStep == ASSUME Inv, NEW m \in Machines, Open(m) PROVE Inv'
  <1>1. /\ UNCHANGED <<provider, keyset, repository, pending, identity, drawn, cache>> /\ Grows /\ TypeOK
        /\ pc[m] \in {"open", "reopen"} /\ (faults' = faults \/ \E k : Fault(k))
    BY DEF Open, Unread, durable, Grows, Inv
  <1>2. CASE /\ repository # NoRepository /\ opened' = [opened EXCEPT ![m] = repository.id]
             /\ pc' = [pc EXCEPT ![m] = "bind"] /\ UNCHANGED <<held, cache, faults>>
    <2>1. Touches(m)
      BY <1>1, <1>2 DEF Touches, TouchesOwn, TouchesLocal, Labels, TypeOK
    <2>2. pc'[m] = "bind" /\ held'[m] = held[m] /\ opened'[m] = repository.id
      BY <1>1, <1>2 DEF TypeOK
    <2>3. MachineInv(m)'
      BY <1>1, <1>2, <2>2, StepsOn DEF Writers, Openers, Binders
    <2> QED BY <1>1, <2>1, <2>3, MachineStep
  <1>3. CASE Goto(m, "init") /\ UNCHANGED faults
    <2>1. Touches(m)
      BY <1>1, <1>3, LocalTouches DEF Touches, TouchesOwn, Labels
    <2>2. pc'[m] = "init" /\ held'[m] = held[m]
      BY <1>1, <1>3 DEF Goto, TypeOK
    <2>3. MachineInv(m)'
      BY <1>1, <2>2, StepsOn DEF Writers, Openers, Binders
    <2> QED BY <1>1, <2>1, <2>3, MachineStep
  <1>4. CASE Stop(m)
    BY <1>1, <1>4, StopStep
  <1> QED BY <1>2, <1>3, <1>4 DEF Open, Unread

\* InitRepository preserves the invariant: the repository it creates has the
\* durable secret, and nobody was using one.
LEMMA InitRepositoryStep == ASSUME Inv, NEW m \in Machines, InitRepository(m) PROVE Inv'
  <1>1. /\ UNCHANGED <<provider, keyset, pending, identity, cache, drawn>> /\ Grows /\ TypeOK /\ DurableInv
        /\ pc[m] = "init" /\ Goto(m, "reopen") /\ (faults' = faults \/ \E k : Fault(k))
    BY DEF InitRepository, Grows, Inv
  <1>2. Touches(m)
    BY <1>1, LocalTouches DEF Touches, TouchesOwn, Labels
  <1>3. pc'[m] = "reopen" /\ held'[m] = held[m] /\ opened' = opened
    BY <1>1 DEF Goto, TypeOK
  <1>4. CASE repository' = repository
    <2>1. MachineInv(m)'
      BY <1>1, <1>3, <1>4, StepsOn DEF Writers, Openers, Binders
    <2> QED BY <1>1, <1>2, <1>4, <2>1, MachineStep
  <1>5. CASE repository = NoRepository /\ repository' = [id |-> <<m, 0>>, password |-> held[m].secret]
    <2>1. held[m].secret = keyset.secret /\ keyset.secret # None /\ held[m].secret \in Drawn
      BY <1>1, MachineTypes DEF Inv, MachineInv, Openers, Records
    <2>2. repository' \in [id : Drawn, password : Drawn] /\ repository'.id # None /\ repository' # NoRepository
      BY <1>5, <2>1, DrawnTypes DEF NoRepository
    <2>3. /\ TypeOK'
          /\ \A g \in Machines \ {m} : /\ pc'[g] = pc[g] /\ held'[g] = held[g] /\ opened'[g] = opened[g]
                                       /\ identity'[g] = identity[g] /\ cache'[g] = cache[g]
      BY <1>1, <1>2, <2>2, TouchesOne DEF TypeOK
    <2>4. \A r \in Records : (Sound(r) => Sound(r)') /\ (Writable(r) => Writable(r)')
      BY <1>1, <1>5 DEF Sound, Writable
    <2>5. DurableInv'
      <3>1. \A r \in pending' : Writable(r)'
        BY <1>1, <2>4 DEF DurableInv, TypeOK
      <3> QED BY <1>1, <1>5, <2>1, <2>2, <3>1 DEF DurableInv, Sound
    <2>6. ASSUME NEW g \in Machines PROVE MachineInv(g)'
      <3>1. MachineInv(g) /\ held[g] \in Records
        BY MachineTypes DEF Inv
      <3>2. pc[g] \notin Binders \cup {"bind"}
        BY <1>5, <3>1 DEF MachineInv
      <3>3. held'[g] = held[g] /\ identity'[g] = identity[g] /\ cache'[g] = cache[g]
        BY <1>1, <1>3, <2>3
      <3>4. pc'[g] = pc[g] \/ (pc[g] = "init" /\ pc'[g] = "reopen")
        BY <1>1, <1>3, <2>3
      <3>5. Sound(held[g])' /\ (Writable(held[g]) => Writable(held[g])')
        BY <1>1, <2>4, <3>1, <3>3 DEF MachineInv, Sound, Writable, Keeps
      <3> QED BY <1>1, <3>1, <3>2, <3>3, <3>4, <3>5 DEF MachineInv, Writers, Openers, Binders
    <2> QED BY <2>3, <2>5, <2>6 DEF Inv
  <1> QED BY <1>4, <1>5 DEF InitRepository, Vacant

\* Bind preserves the invariant.
LEMMA BindStep == ASSUME Inv, NEW m \in Machines, Bind(m) PROVE Inv'
  <1>1. /\ UNCHANGED <<provider, keyset, repository, pending, identity, drawn>> /\ Grows
        /\ keyset \in Records /\ DurableInv /\ MachineInv(m) /\ TypeOK /\ pc[m] = "bind"
    BY DEF Bind, durable, Grows, Inv, TypeOK
  <1>2. /\ opened[m] = repository.id /\ repository # NoRepository /\ opened[m] # None
        /\ held[m].secret = keyset.secret /\ keyset.secret # None
        /\ held[m].repository # None => keyset.repository = held[m].repository
    BY <1>1 DEF MachineInv, DurableInv, Openers, Binders
  <1>3. CASE held[m].repository = opened[m] /\ Goto(m, "use") /\ UNCHANGED <<cache, faults>>
    <2>1. Touches(m)
      BY <1>1, <1>3, LocalTouches DEF Touches, TouchesOwn, Labels
    <2>2. pc'[m] = "use" /\ held'[m] = held[m] /\ opened'[m] = opened[m]
      BY <1>1, <1>3 DEF Goto, TypeOK
    <2>3. MachineInv(m)'
      BY <1>1, <1>2, <1>3, <2>2, StepsOn DEF Writers, Openers, Binders
    <2> QED BY <1>1, <2>1, <2>3, MachineStep
  <1>4. CASE Bindable(m) /\ Hold(m, BoundRecord(m), "write-bind") /\ UNCHANGED <<cache, faults>>
    <2> DEFINE r == BoundRecord(m)
    <2>1. r \in Records
      BY <1>1, MachineTypes, RecordTypes DEF BoundRecord
    <2>2. Touches(m)
      BY <1>1, <1>4, <2>1, LocalTouches DEF Touches, TouchesOwn, Labels
    <2>3. /\ r.version = keyset.version /\ r.secret = keyset.secret /\ r.identity = keyset.identity
          /\ r.repository = opened[m] /\ r.etag = keyset.etag /\ keyset.etag \in Nat
      BY <1>1 DEF Records, BoundRecord
    <2>4. keyset.repository = None
      BY <1>4 DEF Bindable
    <2>5. held'[m] = r /\ pc'[m] = "write-bind" /\ opened'[m] = opened[m]
      BY <1>1, <1>4 DEF Hold, TypeOK
    <2> HIDE DEF r
    <2>6. Writable(r)
      BY <1>1, <1>2, <2>3, <2>4 DEF DurableInv, Writable, Sound, Keeps
    <2>7. Writable(held[m])'
      BY <1>1, <2>5, <2>6 DEF Writable, Sound, Keeps
    <2>8. MachineInv(m)'
      BY <1>1, <1>2, <1>4, <2>3, <2>5, <2>7 DEF MachineInv, Writable, Writers, Openers, Binders
    <2> QED BY <1>1, <2>2, <2>8, MachineStep
  <1>5. CASE Cache(m, keyset) /\ Goto(m, "bound") /\ UNCHANGED faults
    <2>1. Touches(m)
      BY <1>1, <1>5, LocalTouches DEF Touches, TouchesOwn, Labels
    <2>2. pc'[m] = "bound" /\ held'[m] = held[m] /\ opened'[m] = opened[m]
      BY <1>1, <1>5 DEF Goto, TypeOK
    <2>3. \A entry \in cache'[m] : entry[2] = keyset.secret
      BY <1>1, <1>5 DEF TypeOK, MachineInv, Cache
    <2>4. MachineInv(m)'
      BY <1>1, <1>2, <2>2, <2>3 DEF MachineInv, Sound, Writers, Openers, Binders
    <2> QED BY <1>1, <2>1, <2>4, MachineStep
  <1>6. CASE Stop(m) /\ UNCHANGED cache /\ (faults' = faults \/ \E k : Fault(k))
    BY <1>1, <1>6, StopStep
  <1> QED BY <1>3, <1>4, <1>5, <1>6 DEF Bind, Unread

\* WriteBind preserves the invariant.
LEMMA WriteBindStep == ASSUME Inv, NEW m \in Machines, WriteBind(m) PROVE Inv'
  <1>1. /\ UNCHANGED <<provider, repository, identity, cache, drawn>> /\ pc[m] = "write-bind" /\ pc[m] \in Writers
        /\ TypeOK /\ held[m] \in Records /\ Goto(m, "bound") /\ MachineInv(m)
    BY MachineTypes DEF WriteBind, Writers, Inv
  <1>2. /\ Grows /\ (pending' = pending \/ pending' = pending \cup {held[m]}) /\ Keeps(keyset, keyset')
        /\ faults' = faults \/ \E k : Fault(k)
    BY <1>1, HeldEffect DEF WriteBind
  <1>3. Touches(m)
    BY <1>1, <1>2, LocalTouches DEF Touches, TouchesOwn, Labels
  <1>4. pc'[m] = "bound" /\ held'[m] = held[m] /\ opened'[m] = opened[m]
    BY <1>1 DEF Goto, TypeOK
  <1>5. Sound(held[m])' /\ identity'[m] \in {None, keyset'.identity}
    BY <1>1, <1>2, <1>4 DEF MachineInv, Sound, Keeps
  <1>6. MachineInv(m)'
    BY <1>1, <1>2, <1>4, <1>5 DEF MachineInv, Keeps, Writers, Openers, Binders
  <1> QED BY <1>1, <1>2, <1>3, <1>6, MachineStep

\* Bound preserves the invariant.
LEMMA BoundStep == ASSUME Inv, NEW m \in Machines, Bound(m) PROVE Inv'
  <1>1. /\ UNCHANGED <<provider, keyset, repository, pending, identity, drawn>> /\ Grows
        /\ keyset \in Records /\ DurableInv /\ MachineInv(m) /\ TypeOK /\ pc[m] = "bound"
    BY DEF Bound, durable, Grows, Inv, TypeOK
  <1>2. CASE BoundTo(m) /\ Cache(m, keyset) /\ Hold(m, keyset, "use") /\ UNCHANGED faults
    <2>1. Touches(m)
      BY <1>1, <1>2, LocalTouches DEF Touches, TouchesOwn, Labels
    <2>2. pc'[m] = "use" /\ held'[m] = keyset /\ opened'[m] = opened[m] /\ keyset.repository = opened[m]
      BY <1>1, <1>2 DEF Hold, TypeOK, BoundTo
    <2>3. \A entry \in cache'[m] : entry[2] = keyset.secret
      BY <1>1, <1>2 DEF TypeOK, MachineInv, Cache
    <2>4. MachineInv(m)'
      BY <1>1, <2>2, <2>3 DEF MachineInv, DurableInv, Sound, Writers, Openers, Binders
    <2> QED BY <1>1, <2>1, <2>4, MachineStep
  <1>3. CASE Stop(m) /\ UNCHANGED cache /\ (faults' = faults \/ \E k : Fault(k))
    BY <1>1, <1>3, StopStep
  <1> QED BY <1>2, <1>3 DEF Bound, Unread

\* A step of a machine preserves the invariant.
LEMMA StepInv == ASSUME Inv, NEW m \in Machines, Step(m) \/ Crash(m) PROVE Inv'
  <1>1. CASE Close(m) \/ Crash(m)
    BY <1>1, StopStep DEF Close, Crash, durable
  <1> QED BY <1>1, EnrollStep, WriteEnrollStep, EnrolledStep, BeginStep, EnsureStep, UpgradeStep, UpgradedStep, OpenStep,
             InitRepositoryStep, BindStep, WriteBindStep, BoundStep DEF Step

-----------------------------------------------------------------------------
(* The results.                                                            *)

\* A write that had no answer preserves it too, however late it is applied.
LEMMA SettleInv == ASSUME Inv, NEW r \in pending, Settle(r) PROVE Inv'
  <1>1. /\ UNCHANGED <<provider, repository, pc, held, opened, identity, cache, drawn, faults>>
        /\ pending' \subseteq pending
    BY DEF Settle, local
  <1>2. r \in Records /\ Writable(r)
    BY DEF Inv, TypeOK, DurableInv
  <1>3. Grows
    BY <1>2 DEF Settle, Grows
  <1>4. DurableInv'
    BY <1>1, <1>3, DurableStep DEF Inv, TypeOK
  <1>5. \A m \in Machines : MachineInv(m)'
    BY <1>1, <1>3, IdleMachine
  <1>6. TypeOK'
    BY <1>1, <1>3, GrowsKeeps DEF Inv, TypeOK
  <1> QED BY <1>4, <1>5, <1>6 DEF Inv

\* The initial states satisfy the invariant.
LEMMA InitInv == ASSUME Init PROVE Inv
  <1>1. TypeOK
    BY KeysetAssumption, DrawnTypes, RecordTypes DEF Init, TypeOK, Labels, NoRepository
  <1>2. DurableInv
    BY DEF Init, DurableInv, Sound, Absent
  <1>3. \A m \in Machines : MachineInv(m)
    BY DEF Init, MachineInv, Sound, Absent, Writers, Openers, Binders
  <1> QED BY <1>1, <1>2, <1>3 DEF Inv

\* Every step preserves it.
LEMMA NextInv == ASSUME Inv, [Next]_vars PROVE Inv'
  <1>1. CASE UNCHANGED vars
    BY <1>1 DEF vars, durable, local, Inv, TypeOK, DurableInv, MachineInv, Sound, Writable, Keeps
  <1> QED BY <1>1, StepInv, SettleInv DEF Next

\* The invariant holds throughout.
LEMMA Invariant == Spec => []Inv
  BY InitInv, NextInv, PTL DEF Spec

\* TypeOK holds throughout, whatever the constants (EncryptionKeyset and the
\* worker's record).
THEOREM KeysetTypeCorrect == Spec => []TypeOK
  <1>1. Inv => TypeOK
    BY DEF Inv
  <1> QED BY <1>1, Invariant, PTL

\* Whoever loses a race uses what the winner wrote, for any number of machines
\* (ensure_minio_domain, ensure_room_store_keyset, ensure_material_details).
THEOREM LosersAdopt == Spec => []LosersAdoptTheWinner
  <1>1. Inv => LosersAdoptTheWinner
    BY DEF Inv, DurableInv, MachineInv, LosersAdoptTheWinner
  <1> QED BY <1>1, Invariant, PTL

\* Whoever uses the store has the durable secret and the one repository
\* (RoomStoreOperations._open_store, _bind_repository).
THEOREM AllUsersAgree == Spec => []UsersAgree
  <1>1. Inv => UsersAgree
    BY DEF Inv, DurableInv, MachineInv, Sound, UsersAgree, Binders
  <1> QED BY <1>1, Invariant, PTL

\* Every step leaves the keyset alone or writes a record that keeps its
\* material.
LEMMA NextKeeps == ASSUME Inv, [Next]_vars PROVE Keeps(keyset, keyset')
  <1>1. CASE keyset' = keyset
    BY <1>1 DEF Keeps
  <1>2. ASSUME NEW m \in Machines, WriteEnroll(m) \/ Upgrade(m) \/ WriteBind(m) PROVE Keeps(keyset, keyset')
    <2>1. /\ pc[m] \in Writers /\ repository' = repository
          /\ \E outcome : Write(held[m], outcome)
      BY <1>2 DEF WriteEnroll, Upgrade, WriteBind, Writers
    <2> QED BY <2>1, HeldEffect
  <1>3. ASSUME NEW m \in Machines, Step(m) \/ Crash(m) PROVE Keeps(keyset, keyset')
    BY <1>1, <1>2, <1>3 DEF Step, Enroll, Enrolled, Begin, Ensure, Upgraded, Winner, Open, InitRepository, Bind,
                            Bound, Close, Crash, durable
  <1>4. ASSUME NEW r \in pending, Settle(r) PROVE Keeps(keyset, keyset')
    <2>1. r \in Records /\ Writable(r) /\ repository' = repository
      BY <1>4 DEF Inv, TypeOK, DurableInv, Settle
    <2>2. Grows
      BY <1>4, <2>1 DEF Settle, Grows
    <2> QED BY <2>1, <2>2, GrowsKeeps
  <1>5. CASE UNCHANGED vars
    BY <1>1, <1>5 DEF vars, durable
  <1> QED BY <1>3, <1>4, <1>5 DEF Next

\* Identity, secret and repository id, once written, are never replaced, by no
\* write of no machine, however late the provider applies it (create_control,
\* replace_control, EncryptionKeyset.bind_repository, fetchBucketRoomStore).
THEOREM MaterialStaysFinal == Spec => MaterialIsFinal
  <1>1. ASSUME Inv, [Next]_vars
        PROVE  [/\ keyset.identity # None => keyset'.identity = keyset.identity
                /\ keyset.secret # None => keyset'.secret = keyset.secret
                /\ keyset.repository # None => keyset'.repository = keyset.repository]_vars
    BY <1>1, NextKeeps DEF Keeps
  <1> QED BY <1>1, Invariant, PTL DEF Spec, MaterialIsFinal
=============================================================================
