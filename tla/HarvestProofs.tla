--------------------------- MODULE HarvestProofs ---------------------------
(***************************************************************************)
(* What TLAPS proves about Harvest: the records of the outbox, the objects *)
(* in the bucket and the cursors of expanded triggers stay consistent,     *)
(* for any number of processes, triggers and records, under every fault.   *)
(***************************************************************************)
EXTENDS Harvest, TLAPS, WellFoundedInduction

-----------------------------------------------------------------------------
(* The inductive invariants.                                               *)

\* A record that is at a stage resumes from it, and only records that are
\* worked on have an owner.
RecordOK(r) ==
    /\ r.state \in Stages => r.resume = r.state
    /\ r.state \notin Owned => r.owner = None /\ ~r.live
    /\ r.state = "absent" => r.resume = "queued"

\* There is a highest sequence number.
SequenceBounded ==
    \E n \in {0} \cup {queue[e].seq : e \in Events} : \A e \in Events : queue[e].seq <= n

\* The labels at which a process works on a child, delivers the record it
\* holds, works on a record, and is in an iteration of a loop.
ChildLabels == {"enqueue", "claim-child", "snapshot-child", "encrypt", "release-child", "fail-child"}
DeliverLabels == {"check", "upload", "mark-uploaded", "put-index", "publish-index",
                  "verify-index", "commit"}
HoldLabels == ChildLabels \cup DeliverLabels \cup
              {"run-release", "plan", "snapshot", "expand", "fail", "deny", "operate", "apply"}
LoopLabels == (HoldLabels \ {"operate", "apply"}) \cup {"run-claim", "drain-claim"}

\* What a process has where.
ProcessOK(r) ==
    /\ r.pc \in LoopLabels => r.left > 0
    /\ r.pc \in HoldLabels => r.held \in Events
    /\ r.pc \in ChildLabels => r.chain # {}
    /\ r.pc \in DeliverLabels => r.held \in Evidence
    /\ r.pc = "drain-claim" => r.picked \subseteq Evidence

\* The invariant of the outbox.
OutboxInv ==
    /\ TypeOK
    /\ SequenceBounded
    /\ \A e \in Events : RecordOK(queue[e])
    /\ \A t \in Trigger : queue[t].resume \notin Delivery
    /\ \A p \in Processes : ProcessOK(proc[p])

\* What a process that delivers has put into the bucket already.
DeliverOK(p) ==
    /\ proc[p].pc \in DeliverLabels \ {"check", "upload"} => proc[p].held \in bucket
    /\ proc[p].pc \in {"publish-index", "commit"} => IndexOf(proc[p].held) \in bucket

\* The invariant of the bucket.
BucketInv ==
    /\ IndexAfterObject
    /\ CommittedIsDurable
    /\ \A p \in Processes : DeliverOK(p)

\* Every segment of a chain, and its index, is prepared or further in q.
Covered(q, C) ==
    \A n \in C : LET segment == EvidenceOf({m \in C : m <= n})
                 IN  q[segment].resume \in Delivery /\ q[IndexOf(segment)].resume \in Delivery

\* What a run has covered when it is at a segment.
ChainOK(p) ==
    /\ proc[p].pc \in {"snapshot", "expand"} => Covered(queue, proc[p].chain)
    /\ proc[p].pc \in ChildLabels \ {"fail-child"} =>
         /\ Covered(queue, proc[p].chain \ {Top(proc[p].chain)})
         /\ proc[p].kind = "index" => queue[EvidenceOf(proc[p].chain)].resume \in Delivery

\* The record that a run will expand is not itself a prepared one, except
\* while the run works on it as one of its own children.
HeldOK(p) ==
    proc[p].pc \in {"plan", "snapshot", "enqueue", "claim-child", "snapshot-child", "encrypt",
                     "release-child", "expand"}
      /\ queue[proc[p].held].owner = p /\ queue[proc[p].held].resume \in Delivery =>
         /\ proc[p].pc \in {"snapshot-child", "encrypt", "release-child"}
         /\ Child(p) = proc[p].held

\* The invariant of the cursors.
CursorInv ==
    /\ CursorCovered
    /\ \A p \in Processes : ChainOK(p)
    /\ \A p \in Processes : HeldOK(p)

-----------------------------------------------------------------------------
(* Least and greatest numbers.                                             *)

\* Every nonempty set of natural numbers has a least element.
LEMMA LeastNumber ==
    ASSUME NEW S \in SUBSET Nat, S # {}
    PROVE  \E n \in S : \A m \in S : n <= m
  <1>1. PICK R : IsWellFoundedOn(R, Nat) /\ R = {ss \in Nat \X Nat : ss[1] < ss[2]}
    BY NatLessThanWellFounded, Zenon DEF OpToRel
  <1>2. PICK n \in S : \A m \in S : ~(<<m, n>> \in R)
    BY <1>1, WFMin, Zenon
  <1>3. ASSUME NEW m \in S PROVE n <= m
    <2>1. ~(<<m, n>> \in R) /\ m \in Nat /\ n \in Nat
      BY <1>2
    <2>2. <<m, n>> \in R <=> m < n
      BY <1>1, <2>1
    <2> QED BY <2>1, <2>2
  <1> QED BY <1>3

\* Every nonempty bounded set of natural numbers has a greatest element.
LEMMA GreatestNumber ==
    ASSUME NEW S \in SUBSET Nat, S # {}, NEW b \in Nat, \A n \in S : n <= b
    PROVE  \E n \in S : \A m \in S : m <= n
  <1> DEFINE T == {b - n : n \in S}
  <1>1. T \in SUBSET Nat /\ T # {}
    <2>1. \A n \in S : b - n \in Nat /\ b - n \in T
      OBVIOUS
    <2>2. PICK n \in S : TRUE
      OBVIOUS
    <2> QED BY <2>1, <2>2
  <1>2. PICK t \in T : \A u \in T : t <= u
    <2> HIDE DEF T
    <2> QED BY <1>1, LeastNumber
  <1>3. PICK n \in S : t = b - n
    OBVIOUS
  <1>4. ASSUME NEW m \in S PROVE m <= n
    <2>1. b - m \in T
      OBVIOUS
    <2> QED BY <1>2, <1>3, <2>1
  <1> QED BY <1>4

\* The top of a chain is its greatest position, or 0.
LEMMA TopIs ==
    ASSUME NEW C \in Chains
    PROVE  /\ Top(C) \in C \cup {0} /\ Top(C) \in Positions
           /\ \A m \in C : m <= Top(C)
  <1>1. C \cup {0} \in SUBSET Nat /\ C \cup {0} # {} /\ \A n \in C \cup {0} : n <= MaxRecords
    BY MaxRecordsAssumption DEF Chains
  <1>2. \E n \in C \cup {0} : \A m \in C \cup {0} : m <= n
    BY <1>1, GreatestNumber, MaxRecordsAssumption
  <1>3. Top(C) \in C \cup {0} /\ \A m \in C : m <= Top(C)
    BY <1>2 DEF Top
  <1>4. Top(C) \in Positions
    <2>1. Top(C) \in Nat /\ Top(C) <= MaxRecords
      BY <1>1, <1>3
    <2> QED BY <2>1, MaxRecordsAssumption DEF Positions
  <1> QED BY <1>3, <1>4

\* A cursor is a pair of positions.
LEMMA SpanIs ==
    ASSUME NEW C \in Chains
    PROVE  Span(C) \in Positions \X Positions
  <1>1. C \ {Top(C)} \in Chains
    BY DEF Chains
  <1> QED BY <1>1, TopIs DEF Span

\* The next segment of a chain ends after it.
LEMMA NextChainIs ==
    ASSUME NEW C \in Chains, NEW last \in Positions, Top(C) < last
    PROVE  /\ NextChain(C, last) \in Chains /\ NextChain(C, last) # {}
           /\ NextChain(C, last) \ {Top(NextChain(C, last))} = C
  <1> DEFINE x == IF Top(C) + SegmentRecords < last THEN Top(C) + SegmentRecords ELSE last
             N == C \cup {x}
  <1>1. x \in 1 .. MaxRecords /\ x > Top(C) /\ NextChain(C, last) = N
    BY TopIs, HarvestAssumption, MaxRecordsAssumption DEF Positions, NextChain
  <1> HIDE DEF x
  <1>2. N \in Chains
    BY <1>1 DEF Chains
  <1>3. x \notin C /\ \A m \in C : m < x
    BY <1>1, TopIs, MaxRecordsAssumption DEF Chains, Positions
  <1>4. Top(N) = x
    BY <1>1, <1>2, <1>3, TopIs, MaxRecordsAssumption DEF Chains, Positions
  <1> QED BY <1>1, <1>2, <1>3, <1>4

\* Some record of a nonempty set is the first.
LEMMA FirstIs ==
    ASSUME queue \in [Events -> QueueRecord], NEW S \in SUBSET Events, S # {}
    PROVE  First(queue, S) \in S
  <1> DEFINE N == {queue[e].seq : e \in S}
  <1>1. N \in SUBSET Nat /\ N # {}
    BY DEF QueueRecord
  <1>2. PICK n \in N : \A m \in N : n <= m
    <2> HIDE DEF N
    <2> QED BY <1>1, LeastNumber
  <1>3. \E e \in S : \A d \in S : queue[e].seq <= queue[d].seq
    BY <1>2
  <1> QED BY <1>3 DEF First

\* The next sequence number is above all others.
LEMMA NextSequenceIs ==
    ASSUME queue \in [Events -> QueueRecord], SequenceBounded
    PROVE  NextSequence(queue) \in Nat /\ \A e \in Events : queue[e].seq < NextSequence(queue)
  <1>1. {0} \cup {queue[e].seq : e \in Events} \subseteq Nat
    BY DEF QueueRecord
  <1>2. PICK n \in {0} \cup {queue[e].seq : e \in Events} :
          NextSequence(queue) = 1 + n /\ \A e \in Events : queue[e].seq <= n
    BY DEF SequenceBounded, NextSequence
  <1> QED BY <1>1, <1>2 DEF QueueRecord

\* A run resumes from a chain, which some record has as its cursor.
LEMMA ResumeChainIs ==
    ASSUME queue \in [Events -> QueueRecord], NEW e \in Events
    PROVE  /\ ResumeChain(e) \in Chains
           /\ ResumeChain(e) = {} \/ \E d \in Events : ResumeChain(e) = queue[d].end
  <1>1. CASE Predecessors(e) = {}
    BY <1>1 DEF ResumeChain, Chains
  <1>2. CASE Predecessors(e) # {}
    <2> DEFINE N == {queue[d].seq : d \in Predecessors(e)}
    <2>1. N \in SUBSET Nat /\ N # {} /\ queue[e].seq \in Nat /\ \A n \in N : n <= queue[e].seq
      BY <1>2 DEF QueueRecord, Predecessors
    <2>2. PICK n \in N : \A m \in N : m <= n
      <3> HIDE DEF N
      <3> QED BY <2>1, GreatestNumber
    <2>3. \E d \in Predecessors(e) : \A c \in Predecessors(e) : queue[c].seq <= queue[d].seq
      BY <2>2
    <2>4. \E d \in Predecessors(e) : ResumeChain(e) = queue[d].end
      BY <1>2, <2>3 DEF ResumeChain
    <2> QED BY <2>4 DEF Predecessors, QueueRecord
  <1> QED BY <1>1, <1>2

-----------------------------------------------------------------------------
(* What an operation does to one record.                                   *)

\* Records in these states are never written again.
Fixed == {"committed", "quarantined", "trigger-expanded"}

\* A record keeps its stage and its cursor; p is the process at work.
Keeps(r, s, p) ==
    /\ s \in QueueRecord /\ RecordOK(s)
    /\ s.resume = r.resume /\ s.seq = r.seq /\ s.end = r.end
    /\ s.owner \in {r.owner, None, Gone, p}
    /\ r.state \in Fixed => s = r
    /\ s.state = "committed" => r.state = "committed"

\* A record reaches the next stage under its owner.
Advances(r, s, p) ==
    /\ s \in QueueRecord /\ RecordOK(s)
    /\ r.state \in Owned /\ r.owner = p /\ s.owner = p
    /\ Rank[s.resume] = Rank[r.resume] + 1 /\ s.resume \in Delivery \cup {"source-snapshotted"}
    /\ s.seq = r.seq /\ s.end = r.end /\ s.state = s.resume

\* Claiming a record keeps it.
LEMMA ClaimKeeps ==
    ASSUME NEW r \in QueueRecord, RecordOK(r), NEW p \in Processes, Claimable(r)
    PROVE  Keeps(r, Claim(r, p), p) /\ Claim(r, p).owner = p
  BY DEF QueueRecord, RecordOK, Claimable, Claim, Keeps, Fixed, Owned, Coalescing, Delivery,
         Stages, Rank, States, Final, None

\* So does taking it over.
LEMMA TakeoverKeeps ==
    ASSUME NEW r \in QueueRecord, RecordOK(r), NEW p \in Processes, Takeable(r)
    PROVE  Keeps(r, Takeover(r, p), p)
  BY DEF QueueRecord, RecordOK, Takeable, Takeover, Keeps, Fixed, Owned, Delivery,
         Stages, Rank, States, Final

\* So does stopping it.
LEMMA StoppedKeeps ==
    ASSUME NEW r \in QueueRecord, RecordOK(r), NEW p \in Processes, HasClaim(r, p),
           NEW state \in {"retryable-failure", "capture-gap", "policy-denied", "quarantined"}
    PROVE  Keeps(r, Stopped(r, state), p) /\ Stopped(r, state).owner = None
  BY DEF QueueRecord, RecordOK, HasClaim, Stopped, Keeps, Fixed, Owned, Delivery,
         Stages, Rank, States, Final

\* So does releasing it.
LEMMA ReleasedKeeps ==
    ASSUME NEW r \in QueueRecord, RecordOK(r), NEW p \in Processes, NEW ready, CanRelease(r, p, ready)
    PROVE  Keeps(r, Released(r), p) /\ Released(r).owner = None
  BY DEF QueueRecord, RecordOK, HasClaim, CanRelease, Released, Keeps, Fixed, Owned, Delivery,
         Stages, Rank, States, Final

\* So does the end of its lease.
LEMMA ExpiredKeeps ==
    ASSUME NEW r \in QueueRecord, RecordOK(r), r.live
    PROVE  Keeps(r, [r EXCEPT !.live = FALSE], None)
  BY DEF QueueRecord, RecordOK, Keeps, Fixed, Owned, Delivery, Stages, Rank, States, Final

\* So does quarantining a denied one.
LEMMA QuarantinedKeeps ==
    ASSUME NEW r \in QueueRecord, RecordOK(r), NEW p \in Processes, r.state = "policy-denied"
    PROVE  Keeps(r, [r EXCEPT !.state = "quarantined"], p)
  BY DEF QueueRecord, RecordOK, Keeps, Fixed, Owned, Delivery, Stages, Rank, States, Final

\* A record that is not written keeps itself.
LEMMA SameKeeps ==
    ASSUME NEW r \in QueueRecord, RecordOK(r), NEW p
    PROVE  Keeps(r, r, p)
  BY DEF Keeps

\* Abandoning keeps every record.
LEMMA AbandonKeeps ==
    ASSUME NEW q \in [Events -> QueueRecord], NEW e \in Events, RecordOK(q[e]), NEW p \in Processes
    PROVE  Keeps(q[e], Abandon(q, p)[e], p)
  <1>1. CASE q[e].owner = p
    <2>1. Abandon(q, p)[e] = [q[e] EXCEPT !.owner = Gone] /\ q[e] \in QueueRecord
      BY <1>1 DEF Abandon
    <2>2. q[e].state \in Owned
      BY <1>1, ProcessesAssumption DEF RecordOK
    <2> QED
      BY <2>1, <2>2 DEF QueueRecord, RecordOK, Keeps, Fixed, Owned, Delivery, Stages, Rank
  <1>2. CASE q[e].owner # p
    BY <1>2, SameKeeps DEF Abandon
  <1> QED BY <1>1, <1>2

\* A record that p does not own is not abandoned.
LEMMA AbandonOthers ==
    ASSUME NEW q, NEW e \in Events, NEW p, q[e].owner # p
    PROVE  Abandon(q, p)[e] = q[e]
  BY DEF Abandon

\* Two steps that keep a record keep it together.
LEMMA KeepsTwice ==
    ASSUME NEW r, NEW s, NEW t, NEW p, Keeps(r, s, p), Keeps(s, t, p)
    PROVE  Keeps(r, t, p)
  BY DEF Keeps

\* A transition to the next stage leaves the record as it is or advances it.
LEMMA AdvancedIs ==
    ASSUME NEW r \in QueueRecord, RecordOK(r), NEW p \in Processes,
           NEW stage \in Delivery \cup {"source-snapshotted"}, CanAdvance(r, p, stage)
    PROVE  /\ Keeps(r, Advanced(r, stage), p) \/ Advances(r, Advanced(r, stage), p)
           /\ Advanced(r, stage).resume = stage
  BY DEF QueueRecord, RecordOK, HasClaim, CanAdvance, Advanced, Successor, Keeps, Advances, Fixed,
         Owned, Delivery, Stages, Rank, States, Final

\* Committing ends a record.
LEMMA CommittedIs ==
    ASSUME NEW r \in QueueRecord, NEW p, CanCommit(r, p)
    PROVE  /\ Committed(r) \in QueueRecord /\ RecordOK(Committed(r))
           /\ Committed(r).resume = r.resume /\ Committed(r).seq = r.seq
           /\ Committed(r).end = r.end /\ Committed(r).owner = None
           /\ Committed(r).state = "committed"
           /\ r.state \notin Fixed /\ r.owner = p
  BY DEF CanCommit, Committed, HasClaim, QueueRecord, RecordOK, States, Final, Stages, Rank, Owned,
         Delivery, Fixed

\* Expanding ends a record.
LEMMA ExpandedIs ==
    ASSUME NEW r \in QueueRecord, NEW p, NEW C \in Chains, CanExpand(r, p)
    PROVE  /\ Expanded(r, C) \in QueueRecord /\ RecordOK(Expanded(r, C))
           /\ Expanded(r, C).resume = "trigger-expanded" /\ Expanded(r, C).seq = r.seq
           /\ Expanded(r, C).end = C /\ Expanded(r, C).owner = None
           /\ Expanded(r, C).state = "trigger-expanded"
           /\ r.state \notin Fixed /\ r.owner = p
  BY DEF CanExpand, Expanded, HasClaim, QueueRecord, RecordOK, States, Final, Stages, Rank, Owned,
         Delivery, Fixed

-----------------------------------------------------------------------------
(* What a step does.  p is the process at work, or None.                   *)

\* A record is kept, or it is new, or it reaches the next stage, is committed
\* or is expanded by the process that owns it.
Move(e, p) ==
    LET r == queue[e]
        s == queue'[e]
    IN  \/ Keeps(r, s, p)
        \/ /\ r.state = "absent"
           /\ \E key \in Positions \X Positions : s = Queued(queue, key)
        \/ /\ p \in Processes /\ Advances(r, s, p)
           /\ s.resume = "prepared-encrypted" => /\ prepared'[e] = "ready"
                                                 /\ At(p, "encrypt") /\ e = Child(p)
           /\ s.resume \in {"object-uploaded", "index-published"} => prepared'[e] = prepared[e]
        \/ /\ p \in Processes /\ At(p, "commit") /\ e = proc[p].held
           /\ CanCommit(r, p) /\ s = Committed(r)
        \/ /\ p \in Processes /\ At(p, "expand") /\ e = proc[p].held
           /\ CanExpand(r, p) /\ s = Expanded(r, proc[p].chain)

\* The state of the processes after a step of p.
ProcStep(p) ==
    /\ proc' \in [Processes -> ProcessState]
    /\ \A q \in Processes \ {p} : proc'[q] = proc[q]
    /\ p \in Processes => ProcessOK(proc'[p])

\* The queue after a step of p.
QueueStep(p) ==
    /\ queue' = [e \in Events |-> queue'[e]]
    /\ \A e \in Events : Move(e, p)

\* The rest after a step.
WorldStep ==
    /\ prepared' \in [Events -> {"none", "ciphertext", "ready"}]
    /\ \A e \in Events : prepared[e] = "ready" => prepared'[e] = "ready"
    /\ bucket \subseteq bucket' /\ bucket' \subseteq Evidence \cup Index
    /\ length' \in Positions
    /\ host' \in [Trigger -> Events \cup {Nobody}]
    /\ faults' \in 0 .. MaxFaults

\* A new record is well typed.
LEMMA QueuedIs ==
    ASSUME OutboxInv, NEW key \in Positions \X Positions
    PROVE  /\ Queued(queue, key) \in QueueRecord /\ RecordOK(Queued(queue, key))
           /\ Queued(queue, key).state = "queued" /\ Queued(queue, key).resume = "queued"
           /\ Queued(queue, key).owner = None /\ Queued(queue, key).end = {}
           /\ Queued(queue, key).seq = NextSequence(queue)
  <1>1. NextSequence(queue) \in Nat
    BY NextSequenceIs DEF OutboxInv, TypeOK
  <1> QED
    BY <1>1 DEF Queued, Absent, QueueRecord, RecordOK, States, Stages, Rank, Chains, Owned, Delivery

\* An event is a trigger, or the evidence or the index of a chain.
LEMMA EventsAre ==
    ASSUME NEW C \in Chains, C # {}
    PROVE  /\ EvidenceOf(C) \in Evidence /\ <<C, "index">> \in Index
           /\ EvidenceOf(C) \in Events \ Trigger /\ <<C, "index">> \in Events \ Trigger
  BY DEF Events, Evidence, Index, Trigger, EvidenceOf

\* The index of evidence.
LEMMA IndexOfIs ==
    ASSUME NEW e \in Evidence
    PROVE  /\ IndexOf(e) \in Index /\ IndexOf(e) \in Events
           /\ e \in Events /\ e[1] \in Chains /\ e[1] # {} /\ e = EvidenceOf(e[1])
  BY DEF Events, Evidence, Index, IndexOf, EvidenceOf

\* The child a process works on is evidence or an index.
LEMMA ChildIs ==
    ASSUME OutboxInv, NEW p \in Processes, proc[p].pc \in ChildLabels
    PROVE  Child(p) \in Events \ Trigger /\ proc[p].chain \in Chains /\ proc[p].chain # {}
  <1>1. proc[p].chain \in Chains /\ proc[p].chain # {} /\ proc[p].kind \in {"evidence", "index"}
    BY DEF OutboxInv, TypeOK, ProcessState, ProcessOK
  <1> QED BY <1>1, EventsAre DEF Child, EvidenceOf

\* Moves keep the invariant of the records.
LEMMA MoveRecord ==
    ASSUME OutboxInv, NEW p, NEW e \in Events, Move(e, p)
    PROVE  /\ queue'[e] \in QueueRecord /\ RecordOK(queue'[e])
           /\ e \in Trigger => queue'[e].resume \notin Delivery
           /\ queue'[e].seq \in {queue[e].seq, NextSequence(queue)}
           /\ Rank[queue[e].resume] <= Rank[queue'[e].resume]
           /\ queue[e].state \in Fixed => queue'[e] = queue[e]
  <1> DEFINE r == queue[e]
             s == queue'[e]
  <1>0. r \in QueueRecord /\ RecordOK(r) /\ (e \in Trigger => r.resume \notin Delivery)
    BY DEF OutboxInv, TypeOK
  <1>1. CASE Keeps(r, s, p)
    BY <1>0, <1>1 DEF Keeps, QueueRecord, Rank, Stages
  <1>2. CASE r.state = "absent" /\ \E key \in Positions \X Positions : s = Queued(queue, key)
    <2>1. /\ s \in QueueRecord /\ RecordOK(s) /\ s.resume = "queued"
          /\ s.seq = NextSequence(queue) /\ r.resume = "queued"
      BY <1>0, <1>2, QueuedIs DEF RecordOK
    <2> QED BY <1>2, <2>1 DEF Delivery, Rank, Fixed
  <1>3. CASE /\ p \in Processes /\ Advances(r, s, p)
             /\ s.resume = "prepared-encrypted" => At(p, "encrypt") /\ e = Child(p)
    <2>1. /\ s \in QueueRecord /\ RecordOK(s) /\ s.seq = r.seq /\ r.state \notin Fixed
          /\ Rank[r.resume] <= Rank[s.resume]
      BY <1>0, <1>3 DEF Advances, Fixed, Owned, Delivery, QueueRecord, Rank, Stages
    <2>2. ASSUME e \in Trigger PROVE s.resume \notin Delivery
      <3>1. s.resume # "prepared-encrypted"
        BY <1>3, <2>2, ChildIs DEF At, ChildLabels
      <3> QED BY <1>0, <1>3, <2>2, <3>1 DEF Advances, QueueRecord, Rank, Stages, Delivery
    <2> QED BY <2>1, <2>2
  <1>4. CASE p \in Processes /\ CanCommit(r, p) /\ s = Committed(r)
    <2>1. /\ s \in QueueRecord /\ RecordOK(s) /\ s.resume = r.resume /\ s.seq = r.seq
          /\ r.state \notin Fixed
      BY <1>0, <1>4, CommittedIs
    <2> QED BY <1>0, <2>1 DEF QueueRecord, Rank, Stages
  <1>5. CASE p \in Processes /\ At(p, "expand") /\ CanExpand(r, p) /\ s = Expanded(r, proc[p].chain)
    <2>1. proc[p].chain \in Chains
      BY <1>5 DEF OutboxInv, TypeOK, ProcessState
    <2>2. /\ s \in QueueRecord /\ RecordOK(s) /\ s.resume = "trigger-expanded" /\ s.seq = r.seq
          /\ r.state \notin Fixed
      BY <1>0, <1>5, <2>1, ExpandedIs
    <2> QED BY <1>0, <2>2 DEF QueueRecord, Rank, Stages, Delivery
  <1> QED BY <1>1, <1>2, <1>3, <1>4, <1>5 DEF Move

\* A step of this shape keeps the invariant of the outbox.
LEMMA StepKeepsOutbox ==
    ASSUME OutboxInv, NEW p, QueueStep(p), ProcStep(p), WorldStep
    PROVE  OutboxInv'
  <1>1. \A e \in Events : /\ queue'[e] \in QueueRecord /\ RecordOK(queue'[e])
                          /\ e \in Trigger => queue'[e].resume \notin Delivery
                          /\ queue'[e].seq \in {queue[e].seq, NextSequence(queue)}
    BY MoveRecord DEF QueueStep
  <1>2. TypeOK'
    <2>1. queue' \in [Events -> QueueRecord]
      BY <1>1 DEF QueueStep
    <2> QED BY <2>1 DEF TypeOK, ProcStep, WorldStep
  <1>3. SequenceBounded'
    <2> DEFINE N == {0} \cup {queue[e].seq : e \in Events}
               N2 == {0} \cup {queue'[e].seq : e \in Events}
    <2>1. PICK n \in N : \A e \in Events : queue[e].seq <= n
      BY DEF OutboxInv, SequenceBounded
    <2>2. /\ NextSequence(queue) \in Nat /\ \A e \in Events : queue[e].seq < NextSequence(queue)
          /\ \A e \in Events : queue[e].seq \in Nat
      BY NextSequenceIs DEF OutboxInv, TypeOK, QueueRecord
    <2>3. CASE \E e \in Events : queue'[e].seq = NextSequence(queue)
      <3>1. NextSequence(queue) \in N2 /\ \A e \in Events : queue'[e].seq <= NextSequence(queue)
        BY <1>1, <2>2, <2>3
      <3> QED BY <3>1 DEF SequenceBounded
    <2>4. CASE \A e \in Events : queue'[e].seq = queue[e].seq
      <3>1. n \in N2 /\ \A e \in Events : queue'[e].seq <= n
        BY <2>1, <2>4
      <3> QED BY <3>1 DEF SequenceBounded
    <2> QED BY <1>1, <2>3, <2>4
  <1>4. \A q \in Processes : ProcessOK(proc'[q])
    BY DEF OutboxInv, ProcStep
  <1>5. Trigger \subseteq Events
    BY DEF Events
  <1> QED BY <1>1, <1>2, <1>3, <1>4, <1>5 DEF OutboxInv

-----------------------------------------------------------------------------
(* The parts of a step.                                                    *)

\* A step of p, or of nobody.
Step(p) == QueueStep(p) /\ ProcStep(p) /\ WorldStep

\* The queue is not written.
LEMMA QueueSame ==
    ASSUME OutboxInv, NEW p, UNCHANGED queue
    PROVE  QueueStep(p)
  <1>1. \A e \in Events : Keeps(queue[e], queue'[e], p)
    BY SameKeeps DEF OutboxInv, TypeOK
  <1> QED BY <1>1 DEF QueueStep, Move, OutboxInv, TypeOK

\* One record is written.
LEMMA QueueOne ==
    ASSUME OutboxInv, NEW p, NEW e \in Events, NEW s, queue' = [queue EXCEPT ![e] = s], Move(e, p)
    PROVE  QueueStep(p)
  <1>1. \A d \in Events \ {e} : Keeps(queue[d], queue'[d], p)
    BY SameKeeps DEF OutboxInv, TypeOK
  <1>2. \A d \in Events : Move(d, p)
    BY <1>1 DEF Move
  <1> QED BY <1>2 DEF QueueStep, OutboxInv, TypeOK

\* One record is written and kept.
LEMMA QueueKept ==
    ASSUME OutboxInv, NEW p, NEW e \in Events, NEW s, Write(e, s), Keeps(queue[e], s, p)
    PROVE  QueueStep(p) /\ queue'[e] = s
  <1>1. queue' = [queue EXCEPT ![e] = s] /\ queue'[e] = s
    BY DEF Write, OutboxInv, TypeOK
  <1> QED BY <1>1, QueueOne DEF Move

\* The process abandons what it holds.
LEMMA QueueAbandoned ==
    ASSUME OutboxInv, NEW p \in Processes, queue' = Abandon(queue, p)
    PROVE  QueueStep(p)
  <1>1. \A e \in Events : Keeps(queue[e], queue'[e], p)
    BY AbandonKeeps DEF OutboxInv, TypeOK
  <1> QED BY <1>1 DEF QueueStep, Move, Abandon

\* The process writes one record, which nobody owns then, and abandons the
\* others.
LEMMA QueueEnded ==
    ASSUME OutboxInv, NEW p \in Processes, NEW e \in Events, NEW s \in QueueRecord, s.owner = None,
           queue' = Abandon([queue EXCEPT ![e] = s], p),
           queue'[e] = s => Move(e, p)
    PROVE  QueueStep(p) /\ queue'[e] = s
  <1> DEFINE q == [queue EXCEPT ![e] = s]
  <1>0. queue \in [Events -> QueueRecord] /\ \A d \in Events : RecordOK(queue[d])
    BY DEF OutboxInv, TypeOK
  <1>1. q \in [Events -> QueueRecord] /\ q[e] = s /\ \A d \in Events \ {e} : q[d] = queue[d]
    BY <1>0
  <1>2. queue' = Abandon(q, p)
    OBVIOUS
  <1> HIDE DEF q
  <1>3. queue'[e] = s
    BY <1>1, <1>2, AbandonOthers, ProcessesAssumption
  <1>4. \A d \in Events \ {e} : Keeps(queue[d], queue'[d], p)
    BY <1>0, <1>1, <1>2, AbandonKeeps
  <1>5. \A d \in Events : Move(d, p)
    BY <1>3, <1>4 DEF Move
  <1>6. queue' = [d \in Events |-> queue'[d]]
    BY <1>2 DEF Abandon
  <1> QED BY <1>3, <1>5, <1>6 DEF QueueStep

\* The processes are not touched.
LEMMA ProcSame ==
    ASSUME OutboxInv, NEW p, UNCHANGED proc
    PROVE  ProcStep(p)
  BY DEF OutboxInv, TypeOK, ProcStep

\* A process is given a new state.
LEMMA ProcSet ==
    ASSUME OutboxInv, NEW p \in Processes, NEW r \in ProcessState, ProcessOK(r),
           proc' = [proc EXCEPT ![p] = r]
    PROVE  ProcStep(p) /\ proc'[p] = r
  BY DEF OutboxInv, TypeOK, ProcStep

\* A process moves on to another label.
LEMMA GotoStep ==
    ASSUME OutboxInv, NEW p \in Processes, NEW label \in Labels, Goto(p, label),
           label \in LoopLabels => proc[p].pc \in LoopLabels,
           label \in HoldLabels => proc[p].pc \in HoldLabels,
           label \in ChildLabels => proc[p].pc \in ChildLabels,
           label \in DeliverLabels => proc[p].pc \in DeliverLabels,
           label # "drain-claim"
    PROVE  ProcStep(p) /\ proc'[p] = [proc[p] EXCEPT !.pc = label]
  <1> DEFINE r == [proc[p] EXCEPT !.pc = label]
  <1>1. proc[p] \in ProcessState /\ ProcessOK(proc[p])
    BY DEF OutboxInv, TypeOK
  <1>2. r \in ProcessState
    BY <1>1 DEF ProcessState
  <1>3. ProcessOK(r)
    BY <1>1 DEF ProcessState, ProcessOK
  <1>4. proc' = [proc EXCEPT ![p] = r]
    BY DEF Goto, OutboxInv, TypeOK
  <1> QED BY <1>2, <1>3, <1>4, ProcSet

\* A process fails: from every label at which it works in a loop.
LEMMA GotoFail ==
    ASSUME OutboxInv, NEW p \in Processes, NEW label \in {"fail", "deny"}, Goto(p, label),
           proc[p].pc \in LoopLabels \cap HoldLabels
    PROVE  ProcStep(p) /\ proc'[p].pc = label
  <1>1. /\ label \in Labels \cap LoopLabels \cap HoldLabels
        /\ label \notin ChildLabels \cup DeliverLabels /\ label # "drain-claim"
    BY DEF Labels, LoopLabels, HoldLabels, ChildLabels, DeliverLabels
  <1>2. ProcStep(p) /\ proc'[p] = [proc[p] EXCEPT !.pc = label]
    BY <1>1, GotoStep
  <1> QED BY <1>2 DEF OutboxInv, TypeOK, ProcessState

\* A process is idle.
LEMMA IdleIs == Idle \in ProcessState /\ ProcessOK(Idle) /\ Idle.pc = "idle"
  <1>1. Idle \in ProcessState
    BY HarvestAssumption, MaxRecordsAssumption DEF Idle, ProcessState, Labels, Chains, Positions
  <1>2. Idle.pc = "idle"
    BY DEF Idle
  <1> QED
    BY <1>1, <1>2 DEF ProcessOK, LoopLabels, HoldLabels, ChildLabels, DeliverLabels

\* A process at the head of a loop.
LoopHead(loop, command, left, ok, tried) ==
    [Idle EXCEPT !.pc = loop, !.loop = loop, !.command = command, !.left = left,
                 !.ok = ok, !.tried = tried]

\* It is well typed and holds nothing.
LEMMA LoopHeadIs ==
    ASSUME NEW loop \in {"idle", "run", "drain"}, NEW command \in CommandNames \cup {None},
           NEW left \in 0 .. (Limit + 1), NEW ok \in BOOLEAN, NEW tried \in SUBSET Events
    PROVE  /\ LoopHead(loop, command, left, ok, tried) \in ProcessState
           /\ LoopHead(loop, command, left, ok, tried).pc = loop
           /\ ProcessOK(LoopHead(loop, command, left, ok, tried))
  <1> DEFINE r == LoopHead(loop, command, left, ok, tried)
  <1>1. r \in ProcessState
    BY IdleIs DEF ProcessState, Labels, LoopHead
  <1>2. r.pc = loop
    BY IdleIs DEF ProcessState, LoopHead
  <1> HIDE DEF r
  <1>3. ProcessOK(r)
    BY <1>2 DEF ProcessOK, LoopLabels, HoldLabels, ChildLabels, DeliverLabels
  <1> QED BY <1>1, <1>2, <1>3 DEF r

\* The end of an iteration.
LEMMA EndIterationStep ==
    ASSUME OutboxInv, NEW p \in Processes, proc[p].pc \in LoopLabels, NEW q,
           NEW success \in BOOLEAN, EndIteration(p, q, success)
    PROVE  ProcStep(p) /\ proc'[p].pc \in {"idle", "run", "drain"} /\ queue' = Abandon(q, p)
  <1> DEFINE ok == proc[p].ok /\ success
             r == LoopHead(proc[p].loop, proc[p].command, proc[p].left - 1, ok, proc[p].tried)
  <1>1. /\ proc[p].loop \in {"idle", "run", "drain"} /\ proc[p].command \in CommandNames \cup {None}
        /\ proc[p].left - 1 \in 0 .. (Limit + 1) /\ proc[p].tried \in SUBSET Events
    BY HarvestAssumption DEF OutboxInv, TypeOK, ProcessState, ProcessOK
  <1>2. ok \in BOOLEAN
    OBVIOUS
  <1>3. proc' = [proc EXCEPT ![p] = r] /\ queue' = Abandon(q, p)
    BY Zenon DEF EndIteration, LoopHead
  <1> HIDE DEF ok
  <1>4. r \in ProcessState /\ r.pc \in {"idle", "run", "drain"} /\ ProcessOK(r)
    BY <1>1, <1>2, LoopHeadIs
  <1> HIDE DEF r
  <1> QED BY <1>3, <1>4, ProcSet

\* The end of a command.
LEMMA EndCommandStep ==
    ASSUME OutboxInv, NEW p \in Processes, NEW q, EndCommand(p, q)
    PROVE  ProcStep(p) /\ proc'[p].pc = "idle" /\ queue' = Abandon(q, p)
  BY IdleIs, ProcSet DEF EndCommand

\* A fault uses up one of those that may happen.
LEMMA FaultIs ==
    ASSUME OutboxInv, NEW f, Fault(f)
    PROVE  faults' \in 0 .. MaxFaults
  BY HarvestAssumption DEF OutboxInv, TypeOK, Fault

\* Nothing but the queue and the processes changes, and perhaps a fault is
\* used up.
LEMMA WorldSame ==
    ASSUME OutboxInv, UNCHANGED <<prepared, bucket, world>>, faults' \in 0 .. MaxFaults
    PROVE  WorldStep
  BY DEF OutboxInv, TypeOK, WorldStep, world

\* A stray ciphertext is swept away.
LEMMA WorldSwept ==
    ASSUME OutboxInv, prepared' = Swept, UNCHANGED <<bucket, world>>, faults' \in 0 .. MaxFaults
    PROVE  WorldStep
  BY DEF OutboxInv, TypeOK, WorldStep, world, Swept

\* Faults are counted from the start.
LEMMA FaultsSame ==
    ASSUME OutboxInv, UNCHANGED faults
    PROVE  faults' \in 0 .. MaxFaults
  BY DEF OutboxInv, TypeOK

-----------------------------------------------------------------------------
(* Every action is a step.                                                 *)

\* A record is well formed.
LEMMA RecordIs ==
    ASSUME OutboxInv, NEW e \in Events
    PROVE  queue[e] \in QueueRecord /\ RecordOK(queue[e])
  BY DEF OutboxInv, TypeOK

\* The record a process holds is one of the queue.
LEMMA HeldIs ==
    ASSUME OutboxInv, NEW p \in Processes, proc[p].pc \in HoldLabels
    PROVE  /\ proc[p].held \in Events /\ proc[p] \in ProcessState
           /\ queue[proc[p].held] \in QueueRecord /\ RecordOK(queue[proc[p].held])
  BY RecordIs DEF OutboxInv, TypeOK, ProcessOK

\* The transcript grows.
LEMMA GrowStep == ASSUME OutboxInv, Grow PROVE Step(None)
  <1>1. QueueStep(None)
    BY QueueSame DEF Grow, outbox
  <1>2. ProcStep(None)
    BY ProcSame DEF Grow
  <1>3. WorldStep
    BY MaxRecordsAssumption DEF Grow, outbox, OutboxInv, TypeOK, WorldStep, Positions
  <1> QED BY <1>1, <1>2, <1>3 DEF Step

\* A hook queues its trigger or merges it into a record.
LEMMA HookStep == ASSUME OutboxInv, NEW t \in Trigger, Hook(t) PROVE Step(None)
  <1>0. t \in Events /\ Zero \in Positions \X Positions
    BY MaxRecordsAssumption DEF Events, Zero, Positions
  <1>1. ProcStep(None)
    BY ProcSame DEF Hook
  <1>2. CASE Hosts(queue) = {}
    <2>1. queue' = [queue EXCEPT ![t] = Queued(queue, Zero)] /\ host' = [host EXCEPT ![t] = t]
      BY <1>2 DEF Hook, Write
    <2>2. Move(t, None)
      <3>1. queue'[t] = Queued(queue, Zero)
        BY <1>0, <2>1 DEF OutboxInv, TypeOK
      <3> QED BY <1>0, <3>1 DEF Hook, Move
    <2>3. QueueStep(None)
      BY <1>0, <2>1, <2>2, QueueOne
    <2>4. WorldStep
      BY <1>0, <2>1 DEF Hook, OutboxInv, TypeOK, WorldStep
    <2> QED BY <1>1, <2>3, <2>4 DEF Step
  <1>3. CASE Hosts(queue) # {}
    <2>1. UNCHANGED queue /\ host' = [host EXCEPT ![t] = First(queue, Hosts(queue))]
      BY <1>3 DEF Hook
    <2>2. First(queue, Hosts(queue)) \in Events
      <3>1. Hosts(queue) \in SUBSET Events
        BY DEF Hosts, Present
      <3>2. First(queue, Hosts(queue)) \in Hosts(queue)
        BY <1>3, <3>1, FirstIs DEF OutboxInv, TypeOK
      <3> QED BY <3>1, <3>2
    <2>3. WorldStep
      BY <1>0, <2>1, <2>2 DEF Hook, OutboxInv, TypeOK, WorldStep
    <2> QED BY <1>1, <2>1, <2>3, QueueSame DEF Step
  <1> QED BY <1>2, <1>3

\* A lease runs out.
LEMMA ExpireStep == ASSUME OutboxInv, NEW e \in Events, Expire(e) PROVE Step(None)
  <1>1. QueueStep(None)
    <2>1. Keeps(queue[e], [queue[e] EXCEPT !.live = FALSE], None)
      BY ExpiredKeeps, RecordIs DEF Expire
    <2> QED BY <2>1, QueueKept DEF Expire
  <1>2. ProcStep(None)
    BY ProcSame DEF Expire
  <1>3. WorldStep
    <2>1. faults' \in 0 .. MaxFaults
      BY FaultIs, FaultsSame DEF Expire
    <2> QED BY <2>1, WorldSame DEF Expire
  <1> QED BY <1>1, <1>2, <1>3 DEF Step

\* A command begins.
LEMMA BeginStep ==
    ASSUME OutboxInv, NEW p \in Processes, NEW command, Begin(p, command)
    PROVE  Step(p) /\ proc'[p].pc \in {"run", "drain"}
  <1>1. QueueStep(p)
    BY QueueSame DEF Begin, outbox
  <1>2. WorldStep
    BY WorldSame, FaultsSame DEF Begin, outbox
  <1>3. ProcStep(p) /\ proc'[p].pc \in {"run", "drain"}
    <2> DEFINE loop == IF command = "drain" THEN "drain" ELSE "run"
               left == IF command = "schedule" THEN Limit ELSE 1
               r == [Idle EXCEPT !.pc = loop, !.loop = loop, !.command = command, !.left = left]
    <2>1. proc' = [proc EXCEPT ![p] = r]
      BY DEF Begin
    <2>2. loop \in {"run", "drain"} /\ left \in 0 .. (Limit + 1) /\ command \in CommandNames
      BY HarvestAssumption DEF Begin
    <2> HIDE DEF loop, left
    <2>3. r \in ProcessState /\ r.pc = loop
      BY <2>2, IdleIs DEF ProcessState, Labels
    <2> HIDE DEF r
    <2>4. ProcessOK(r)
      BY <2>2, <2>3 DEF ProcessOK, LoopLabels, HoldLabels, ChildLabels, DeliverLabels
    <2> QED BY <2>1, <2>2, <2>3, <2>4, ProcSet
  <1> QED BY <1>1, <1>2, <1>3 DEF Step

\* run is over.
LEMMA EndRunStep ==
    ASSUME OutboxInv, NEW p \in Processes, EndRun(p)
    PROVE  ProcStep(p) /\ proc'[p].pc \in {"idle", "drain"}
  <1>1. CASE proc' = [proc EXCEPT ![p] = Idle]
    BY <1>1, IdleIs, ProcSet
  <1>2. CASE proc' = [proc EXCEPT ![p] = [Idle EXCEPT !.pc = "drain", !.loop = "drain",
                                                      !.command = "schedule", !.left = Limit]]
    <2> DEFINE r == [Idle EXCEPT !.pc = "drain", !.loop = "drain", !.command = "schedule",
                                 !.left = Limit]
    <2>1. r \in ProcessState /\ r.pc = "drain"
      <3>1. Limit \in 0 .. (Limit + 1) /\ "schedule" \in CommandNames
        BY HarvestAssumption DEF CommandNames
      <3> QED BY <3>1, IdleIs DEF ProcessState, Labels
    <2> HIDE DEF r
    <2>2. ProcessOK(r)
      BY <2>1 DEF ProcessOK, LoopLabels, HoldLabels, ChildLabels, DeliverLabels
    <2> QED BY <1>2, <2>1, <2>2, ProcSet DEF r
  <1> QED BY <1>1, <1>2 DEF EndRun

\* run looks for a record.
LEMMA RunNextStep ==
    ASSUME OutboxInv, NEW p \in Processes, RunNext(p)
    PROVE  Step(p) /\ proc'[p].pc \in {"idle", "drain", "run-claim"}
  <1>1. QueueStep(p)
    BY QueueSame DEF RunNext
  <1>2. WorldStep
    BY WorldSwept, FaultsSame DEF RunNext
  <1>3. ProcStep(p) /\ proc'[p].pc \in {"idle", "drain", "run-claim"}
    <2> DEFINE candidates == {e \in Events : Runnable(queue[e], e)}
               r == [proc[p] EXCEPT !.pc = "run-claim", !.picked = candidates]
    <2>1. CASE EndRun(p)
      BY <2>1, EndRunStep
    <2>2. CASE proc' = [proc EXCEPT ![p] = r] /\ proc[p].left # 0
      <3>1. candidates \in SUBSET Events
        OBVIOUS
      <3> HIDE DEF candidates
      <3>2. r \in ProcessState /\ r.pc = "run-claim" /\ r.left > 0
        <4>1. proc[p] \in ProcessState
          BY DEF OutboxInv, TypeOK
        <4>2. r \in ProcessState /\ r.pc = "run-claim" /\ r.left = proc[p].left
          BY <3>1, <4>1 DEF ProcessState, Labels
        <4> QED BY <2>2, <4>1, <4>2, HarvestAssumption DEF ProcessState
      <3> HIDE DEF r
      <3>3. ProcessOK(r)
        BY <3>2 DEF ProcessOK, LoopLabels, HoldLabels, ChildLabels, DeliverLabels
      <3> QED BY <2>2, <3>2, <3>3, ProcSet
    <2>3. EndRun(p) \/ (proc' = [proc EXCEPT ![p] = r] /\ proc[p].left # 0)
      <3>1. EndRun(p) \/ (/\ proc' = [proc EXCEPT ![p].pc = "run-claim", ![p].picked = candidates]
                          /\ proc[p].left # 0)
        BY DEF RunNext
      <3> QED BY <3>1 DEF OutboxInv, TypeOK
    <2> QED BY <2>1, <2>2, <2>3
  <1> QED BY <1>1, <1>2, <1>3 DEF Step

\* The end of an iteration that writes the record it held, and keeps it.
LEMMA EndKept ==
    ASSUME OutboxInv, NEW p \in Processes, proc[p].pc \in LoopLabels, NEW e \in Events,
           NEW s, Keeps(queue[e], s, p), s.owner = None,
           NEW success \in BOOLEAN, EndIteration(p, [queue EXCEPT ![e] = s], success)
    PROVE  QueueStep(p) /\ ProcStep(p) /\ proc'[p].pc \in {"idle", "run", "drain"}
  <1>1. /\ ProcStep(p) /\ proc'[p].pc \in {"idle", "run", "drain"}
        /\ queue' = Abandon([queue EXCEPT ![e] = s], p)
    BY EndIterationStep
  <1>2. s \in QueueRecord
    BY DEF Keeps
  <1> QED BY <1>1, <1>2, QueueEnded DEF Move

\* The end of an iteration that writes nothing.
LEMMA EndSame ==
    ASSUME OutboxInv, NEW p \in Processes, proc[p].pc \in LoopLabels,
           NEW success \in BOOLEAN, EndIteration(p, queue, success)
    PROVE  QueueStep(p) /\ ProcStep(p) /\ proc'[p].pc \in {"idle", "run", "drain"}
  BY EndIterationStep, QueueAbandoned

\* The end of a command that writes nothing.
LEMMA EndCommandSame ==
    ASSUME OutboxInv, NEW p \in Processes, EndCommand(p, queue)
    PROVE  QueueStep(p) /\ ProcStep(p) /\ proc'[p].pc = "idle"
  BY EndCommandStep, QueueAbandoned

\* run claims a candidate.
LEMMA RunClaimStep ==
    ASSUME OutboxInv, NEW p \in Processes, RunClaim(p)
    PROVE  /\ Step(p)
           /\ proc'[p].pc \in {"idle", "drain", "run-claim", "run-release", "plan"}
           /\ proc'[p].pc = "plan" => queue'[proc'[p].held].resume \notin Delivery
  <1>1. WorldStep
    BY WorldSame, FaultsSame DEF RunClaim
  <1>2. CASE proc[p].picked = {}
    BY <1>1, <1>2, EndRunStep, QueueSame DEF RunClaim, Step
  <1>3. CASE proc[p].picked # {}
    <2> DEFINE e == First(queue, proc[p].picked)
               r == queue[e]
    <2>0. proc[p] \in ProcessState /\ ProcessOK(proc[p]) /\ proc[p].pc = "run-claim"
      BY DEF OutboxInv, TypeOK, RunClaim, At
    <2>1. e \in proc[p].picked /\ e \in Events
      <3>1. proc[p].picked \in SUBSET Events
        BY <2>0 DEF ProcessState
      <3> QED BY <1>3, <3>1, FirstIs DEF OutboxInv, TypeOK
    <2>2. \/ /\ Claimable(r) /\ Write(e, Claim(r, p))
             /\ proc' = [proc EXCEPT ![p].held = e, ![p].picked = {},
                          ![p].pc = IF r.resume \in Delivery THEN "run-release" ELSE "plan"]
          \/ proc' = [proc EXCEPT ![p].picked = @ \ {e}] /\ UNCHANGED queue
          \/ EndCommand(p, queue)
      BY <1>3 DEF RunClaim
    <2> HIDE DEF e
    <2>3. CASE /\ Claimable(r) /\ Write(e, Claim(r, p))
               /\ proc' = [proc EXCEPT ![p].held = e, ![p].picked = {},
                          ![p].pc = IF r.resume \in Delivery THEN "run-release" ELSE "plan"]
      <3> DEFINE x == IF r.resume \in Delivery THEN "run-release" ELSE "plan"
                 u == [proc[p] EXCEPT !.held = e, !.picked = {}, !.pc = x]
      <3>1. x \in {"run-release", "plan"} /\ (x = "plan" => r.resume \notin Delivery)
        OBVIOUS
      <3>2. proc' = [proc EXCEPT ![p] = u]
        BY <2>3 DEF OutboxInv, TypeOK
      <3> HIDE DEF x
      <3>3. u \in ProcessState /\ u.pc = x /\ u.held = e /\ u.left = proc[p].left
        BY <2>0, <2>1, <3>1 DEF ProcessState, Labels
      <3> HIDE DEF u
      <3>4. ProcessOK(u)
        BY <2>0, <2>1, <3>1, <3>3 DEF ProcessOK, LoopLabels, HoldLabels, ChildLabels, DeliverLabels
      <3>5. ProcStep(p) /\ proc'[p] = u
        BY <3>2, <3>3, <3>4, ProcSet
      <3>6. QueueStep(p) /\ queue'[e].resume = r.resume
        <4>1. Keeps(r, Claim(r, p), p)
          BY <2>1, <2>3, ClaimKeeps, RecordIs
        <4> QED BY <2>1, <2>3, <4>1, QueueKept DEF Keeps
      <3> QED BY <1>1, <3>1, <3>3, <3>5, <3>6 DEF Step
    <2>4. CASE proc' = [proc EXCEPT ![p].picked = @ \ {e}] /\ UNCHANGED queue
      <3> DEFINE u == [proc[p] EXCEPT !.picked = @ \ {e}]
      <3>1. proc' = [proc EXCEPT ![p] = u]
        BY <2>4 DEF OutboxInv, TypeOK
      <3>2. u \in ProcessState /\ u.pc = "run-claim" /\ u.left = proc[p].left
        BY <2>0 DEF ProcessState
      <3> HIDE DEF u
      <3>3. ProcessOK(u)
        BY <2>0, <3>2 DEF ProcessOK, LoopLabels, HoldLabels, ChildLabels, DeliverLabels
      <3> QED BY <1>1, <2>4, <3>1, <3>2, <3>3, ProcSet, QueueSame DEF Step
    <2>5. CASE EndCommand(p, queue)
      BY <1>1, <2>5, EndCommandSame DEF Step
    <2> QED BY <2>2, <2>3, <2>4, <2>5
  <1> QED BY <1>2, <1>3

\* run gives back a record that is prepared already.
LEMMA RunReleaseStep ==
    ASSUME OutboxInv, NEW p \in Processes, RunRelease(p)
    PROVE  Step(p) /\ proc'[p].pc \in {"idle", "run", "drain", "fail"}
  <1>0. proc[p].pc \in LoopLabels \cap HoldLabels
    BY DEF RunRelease, At, LoopLabels, HoldLabels
  <1> DEFINE e == proc[p].held
             r == queue[e]
  <1>1. e \in Events /\ r \in QueueRecord /\ RecordOK(r)
    BY <1>0, HeldIs
  <1>2. WorldStep
    BY WorldSame, FaultsSame DEF RunRelease
  <1>3. \/ EndIteration(p, queue, TRUE)
        \/ /\ CanRelease(r, p, prepared[e] = "ready")
           /\ EndIteration(p, [queue EXCEPT ![e] = Released(r)], TRUE)
        \/ Goto(p, "fail") /\ UNCHANGED queue
    BY DEF RunRelease
  <1>4. CASE EndIteration(p, queue, TRUE)
    BY <1>0, <1>2, <1>4, EndSame DEF Step
  <1>5. CASE /\ CanRelease(r, p, prepared[e] = "ready")
             /\ EndIteration(p, [queue EXCEPT ![e] = Released(r)], TRUE)
    <2>1. Keeps(r, Released(r), p) /\ Released(r).owner = None
      BY <1>1, <1>5, ReleasedKeeps
    <2>2. QueueStep(p) /\ ProcStep(p) /\ proc'[p].pc \in {"idle", "run", "drain"}
      BY <1>0, <1>1, <1>5, <2>1, EndKept
    <2> QED BY <1>2, <2>2 DEF Step
  <1>6. CASE Goto(p, "fail") /\ UNCHANGED queue
    BY <1>0, <1>2, <1>6, GotoFail, QueueSame DEF Step
  <1> QED BY <1>3, <1>4, <1>5, <1>6

\* run opens the transcript.
LEMMA PlanStep ==
    ASSUME OutboxInv, NEW p \in Processes, Plan(p)
    PROVE  /\ Step(p) /\ UNCHANGED queue
           /\ \/ proc'[p].pc \in {"fail", "deny"}
              \/ /\ proc'[p].pc = "snapshot" /\ proc'[p].held = proc[p].held
                 /\ proc'[p].chain = ResumeChain(proc[p].held)
  <1>0. proc[p].pc \in LoopLabels \cap HoldLabels /\ proc[p].pc = "plan"
    BY DEF Plan, At, LoopLabels, HoldLabels
  <1>1. QueueStep(p) /\ UNCHANGED queue
    BY QueueSame DEF Plan
  <1>2. WorldStep
    BY WorldSwept, FaultsSame, FaultIs DEF Plan
  <1>3. CASE proc' = [proc EXCEPT ![p].pc = "snapshot", ![p].last = length,
                                  ![p].chain = ResumeChain(proc[p].held)]
    <2> DEFINE u == [proc[p] EXCEPT !.pc = "snapshot", !.last = length,
                                    !.chain = ResumeChain(proc[p].held)]
    <2>0. proc[p] \in ProcessState /\ ProcessOK(proc[p]) /\ proc[p].held \in Events
      BY <1>0, HeldIs DEF OutboxInv, TypeOK
    <2>1. ResumeChain(proc[p].held) \in Chains /\ length \in Positions
      BY <2>0, ResumeChainIs DEF OutboxInv, TypeOK
    <2>2. proc' = [proc EXCEPT ![p] = u]
      BY <1>3 DEF OutboxInv, TypeOK
    <2>3. /\ u \in ProcessState /\ u.pc = "snapshot" /\ u.left = proc[p].left
          /\ u.held = proc[p].held /\ u.chain = ResumeChain(proc[p].held)
      BY <2>0, <2>1 DEF ProcessState, Labels
    <2> HIDE DEF u
    <2>4. ProcessOK(u)
      BY <1>0, <2>0, <2>3 DEF ProcessOK, LoopLabels, HoldLabels, ChildLabels, DeliverLabels
    <2> QED BY <1>1, <1>2, <2>2, <2>3, <2>4, ProcSet DEF Step
  <1>4. CASE Goto(p, "deny") \/ Goto(p, "fail")
    BY <1>0, <1>1, <1>2, <1>4, GotoFail DEF Step
  <1> QED BY <1>3, <1>4 DEF Plan

\* The next segment of a run follows on its chain.
LEMMA NextSegmentIs ==
    ASSUME NEW r \in ProcessState, r.left > 0, r.held \in Events
    PROVE  LET u == NextSegment(r)
           IN  /\ u \in ProcessState /\ ProcessOK(u) /\ u.held = r.held
               /\ \/ u.pc = "fail"
                  \/ u.pc = "expand" /\ u.chain = r.chain
                  \/ /\ u.pc = "enqueue" /\ u.kind = "evidence"
                     /\ u.chain \ {Top(u.chain)} = r.chain
  <1> DEFINE u == NextSegment(r)
  <1>1. CASE Top(r.chain) >= r.last
    <2>1. u \in ProcessState /\ u.held = r.held /\ u.left = r.left /\ u.pc = "expand" /\ u.chain = r.chain
      BY <1>1 DEF NextSegment, ProcessState, Labels
    <2> HIDE DEF u
    <2>2. ProcessOK(u)
      BY <2>1 DEF ProcessOK, LoopLabels, HoldLabels, ChildLabels, DeliverLabels
    <2> QED BY <2>1, <2>2 DEF u
  <1>2. CASE ~(Top(r.chain) >= r.last) /\ r.made >= MaxSegments
    <2>1. u \in ProcessState /\ u.held = r.held /\ u.left = r.left /\ u.pc = "fail"
      BY <1>2 DEF NextSegment, ProcessState, Labels
    <2> HIDE DEF u
    <2>2. ProcessOK(u)
      BY <2>1 DEF ProcessOK, LoopLabels, HoldLabels, ChildLabels, DeliverLabels
    <2> QED BY <2>1, <2>2 DEF u
  <1>3. CASE ~(Top(r.chain) >= r.last) /\ ~(r.made >= MaxSegments)
    <2> DEFINE N == NextChain(r.chain, r.last)
    <2>1. r.chain \in Chains /\ r.last \in Positions /\ Top(r.chain) < r.last
      BY <1>3, TopIs, MaxRecordsAssumption DEF ProcessState, Positions
    <2>2. N \in Chains /\ N # {} /\ N \ {Top(N)} = r.chain
      BY <2>1, NextChainIs
    <2>3. u = [r EXCEPT !.pc = "enqueue", !.kind = "evidence", !.chain = N]
      BY <1>3 DEF NextSegment
    <2> HIDE DEF N, u
    <2>4. /\ u \in ProcessState /\ u.held = r.held /\ u.left = r.left /\ u.pc = "enqueue"
          /\ u.kind = "evidence" /\ u.chain = N
      BY <2>2, <2>3 DEF ProcessState, Labels
    <2>5. ProcessOK(u)
      BY <2>2, <2>4 DEF ProcessOK, LoopLabels, HoldLabels, ChildLabels, DeliverLabels
    <2> QED BY <2>2, <2>4, <2>5 DEF u
  <1> QED BY <1>1, <1>2, <1>3

\* The process does not come to own a prepared record by this step.
NoNewClaim(d, p) ==
    queue'[d].owner = p /\ queue'[d].resume \in Delivery =>
      queue[d].owner = p /\ queue[d].resume \in Delivery

\* A record is advanced.
LEMMA QueueAdvanced ==
    ASSUME OutboxInv, NEW p \in Processes, NEW e \in Events, UNCHANGED prepared,
           NEW stage \in {"source-snapshotted", "object-uploaded", "index-published"},
           CanAdvance(queue[e], p, stage), Write(e, Advanced(queue[e], stage))
    PROVE  QueueStep(p) /\ queue'[e].resume = stage /\ \A d \in Events \ {e} : queue'[d] = queue[d]
  <1> DEFINE r == queue[e]
             s == Advanced(r, stage)
  <1>1. r \in QueueRecord /\ RecordOK(r) /\ stage \in Delivery \cup {"source-snapshotted"}
    BY RecordIs DEF Delivery
  <1>2. (Keeps(r, s, p) \/ Advances(r, s, p)) /\ s.resume = stage
    BY <1>1, AdvancedIs
  <1>3. queue' = [queue EXCEPT ![e] = s] /\ queue'[e] = s /\ \A d \in Events \ {e} : queue'[d] = queue[d]
    BY DEF Write, OutboxInv, TypeOK
  <1> HIDE DEF s
  <1>4. Move(e, p)
    BY <1>2, <1>3 DEF Move
  <1> QED BY <1>2, <1>3, <1>4, QueueOne

\* run records that it has the transcript.
LEMMA SnapshotStep ==
    ASSUME OutboxInv, NEW p \in Processes, Snapshot(p)
    PROVE  /\ Step(p) /\ \A d \in Events : NoNewClaim(d, p)
           /\ \/ proc'[p].pc = "fail"
              \/ /\ proc'[p].pc \in {"enqueue", "expand"} /\ proc'[p].held = proc[p].held
                 /\ proc'[p].pc = "enqueue" => /\ proc'[p].kind = "evidence"
                                               /\ proc'[p].chain \ {Top(proc'[p].chain)} = proc[p].chain
                 /\ proc'[p].pc = "expand" => proc'[p].chain = proc[p].chain
  <1>0. proc[p].pc \in LoopLabels \cap HoldLabels /\ proc[p].pc = "snapshot"
    BY DEF Snapshot, At, LoopLabels, HoldLabels
  <1> DEFINE e == proc[p].held
             r == queue[e]
  <1>1. /\ e \in Events /\ r \in QueueRecord /\ RecordOK(r) /\ proc[p] \in ProcessState
        /\ proc[p].left > 0
    BY <1>0, HeldIs DEF OutboxInv, ProcessOK
  <1>2. WorldStep /\ UNCHANGED prepared
    BY WorldSame, FaultsSame DEF Snapshot
  <1>3. CASE /\ \/ /\ CanAdvance(r, p, "source-snapshotted")
                   /\ Write(e, Advanced(r, "source-snapshotted"))
                \/ UNCHANGED queue
             /\ proc' = [proc EXCEPT ![p] = NextSegment(@)]
    <2>1. QueueStep(p) /\ \A d \in Events : NoNewClaim(d, p)
      BY <1>1, <1>2, <1>3, QueueSame, QueueAdvanced DEF NoNewClaim, Delivery
    <2> DEFINE u == NextSegment(proc[p])
    <2>2. proc' = [proc EXCEPT ![p] = u]
      BY <1>3
    <2>3. /\ u \in ProcessState /\ ProcessOK(u) /\ u.held = proc[p].held
          /\ \/ u.pc = "fail"
             \/ u.pc = "expand" /\ u.chain = proc[p].chain
             \/ /\ u.pc = "enqueue" /\ u.kind = "evidence"
                /\ u.chain \ {Top(u.chain)} = proc[p].chain
      BY <1>1, NextSegmentIs
    <2> HIDE DEF u
    <2>4. ProcStep(p) /\ proc'[p] = u
      BY <2>2, <2>3, ProcSet
    <2> QED BY <1>2, <2>1, <2>3, <2>4 DEF Step
  <1>4. CASE Goto(p, "fail") /\ UNCHANGED queue
    BY <1>0, <1>2, <1>4, GotoFail, QueueSame DEF Step, NoNewClaim
  <1> QED BY <1>3, <1>4 DEF Snapshot

\* run enqueues a child.
LEMMA EnqueueChildStep ==
    ASSUME OutboxInv, NEW p \in Processes, EnqueueChild(p)
    PROVE  /\ Step(p) /\ \A d \in Events : NoNewClaim(d, p)
           /\ \/ proc'[p].pc = "fail"
              \/ proc'[p] = [proc[p] EXCEPT !.pc = "claim-child"]
  <1>0. /\ proc[p].pc \in LoopLabels \cap HoldLabels \cap ChildLabels /\ proc[p].pc = "enqueue"
        /\ "claim-child" \in Labels \cap ChildLabels /\ "claim-child" \notin DeliverLabels
    BY DEF EnqueueChild, At, Labels, LoopLabels, HoldLabels, ChildLabels, DeliverLabels
  <1> DEFINE e == Child(p)
             key == IF e[2] = "index" THEN queue[proc[p].held].key ELSE Span(e[1])
  <1>1. e \in Events /\ key \in Positions \X Positions
    <2>1. e \in Events /\ e[1] \in Chains
      BY <1>0, ChildIs DEF Child
    <2>2. queue[proc[p].held].key \in Positions \X Positions
      BY <1>0, HeldIs DEF QueueRecord
    <2> QED BY <2>1, <2>2, SpanIs
  <1>2. WorldStep
    BY WorldSame, FaultsSame, FaultIs DEF EnqueueChild
  <1>3. QueueStep(p) /\ \A d \in Events : NoNewClaim(d, p)
    <2>1. CASE queue[e].state = "absent" /\ Write(e, Queued(queue, key))
      <3>1. queue' = [queue EXCEPT ![e] = Queued(queue, key)] /\ queue'[e] = Queued(queue, key)
        BY <1>1, <2>1 DEF Write, OutboxInv, TypeOK
      <3>2. Move(e, p)
        BY <1>1, <2>1, <3>1 DEF Move
      <3>3. queue'[e].resume \notin Delivery /\ \A d \in Events \ {e} : queue'[d] = queue[d]
        BY <1>1, <3>1, QueuedIs DEF Delivery, OutboxInv, TypeOK
      <3> QED BY <1>1, <3>1, <3>2, <3>3, QueueOne DEF NoNewClaim
    <2>2. CASE UNCHANGED queue
      BY <2>2, QueueSame DEF NoNewClaim
    <2>3. UNCHANGED queue \/ (queue[e].state = "absent" /\ Write(e, Queued(queue, key)))
      BY DEF EnqueueChild
    <2> QED BY <2>1, <2>2, <2>3
  <1>4. Goto(p, "fail") \/ Goto(p, "claim-child")
    BY DEF EnqueueChild
  <1>5. CASE Goto(p, "fail")
    BY <1>0, <1>2, <1>3, <1>5, GotoFail DEF Step
  <1>6. CASE Goto(p, "claim-child")
    BY <1>0, <1>2, <1>3, <1>6, GotoStep DEF Step
  <1> QED BY <1>4, <1>5, <1>6

\* run claims a child.
LEMMA ClaimChildStep ==
    ASSUME OutboxInv, NEW p \in Processes, ClaimChild(p)
    PROVE  /\ Step(p) /\ \A d \in Events \ {Child(p)} : NoNewClaim(d, p)
           /\ \/ proc'[p].pc = "fail"
              \/ proc'[p] = [proc[p] EXCEPT !.pc = "snapshot-child"]
  <1>0. /\ proc[p].pc \in LoopLabels \cap HoldLabels \cap ChildLabels /\ proc[p].pc = "claim-child"
        /\ "snapshot-child" \in Labels \cap ChildLabels /\ "snapshot-child" \notin DeliverLabels
    BY DEF ClaimChild, At, Labels, LoopLabels, HoldLabels, ChildLabels, DeliverLabels
  <1> DEFINE e == Child(p)
             r == queue[e]
  <1>1. e \in Events /\ r \in QueueRecord /\ RecordOK(r)
    BY <1>0, ChildIs, RecordIs
  <1>2. WorldStep
    BY WorldSame, FaultsSame DEF ClaimChild
  <1> HIDE DEF e
  <1>3. CASE Claimable(r) /\ Write(e, Claim(r, p)) /\ Goto(p, "snapshot-child")
    <2>1. Keeps(r, Claim(r, p), p)
      BY <1>1, <1>3, ClaimKeeps
    <2>2. QueueStep(p)
      BY <1>1, <1>3, <2>1, QueueKept
    <2>3. \A d \in Events \ {e} : queue'[d] = queue[d]
      BY <1>3 DEF Write, OutboxInv, TypeOK
    <2>4. ProcStep(p) /\ proc'[p] = [proc[p] EXCEPT !.pc = "snapshot-child"]
      BY <1>0, <1>3, GotoStep
    <2> QED BY <1>2, <2>2, <2>3, <2>4 DEF Step, NoNewClaim, e
  <1>4. CASE Goto(p, "fail") /\ UNCHANGED queue
    BY <1>0, <1>2, <1>4, GotoFail, QueueSame DEF Step, NoNewClaim
  <1> QED BY <1>3, <1>4 DEF ClaimChild, e

\* run records that it has the child's source.
LEMMA SnapshotChildStep ==
    ASSUME OutboxInv, NEW p \in Processes, SnapshotChild(p)
    PROVE  /\ Step(p) /\ \A d \in Events : NoNewClaim(d, p)
           /\ \/ proc'[p].pc = "fail"
              \/ proc'[p] = [proc[p] EXCEPT !.pc = "encrypt"]
  <1>0. /\ proc[p].pc \in LoopLabels \cap HoldLabels \cap ChildLabels /\ proc[p].pc = "snapshot-child"
        /\ "encrypt" \in Labels \cap ChildLabels /\ "encrypt" \notin DeliverLabels
    BY DEF SnapshotChild, At, Labels, LoopLabels, HoldLabels, ChildLabels, DeliverLabels
  <1> DEFINE e == Child(p)
             r == queue[e]
  <1>1. e \in Events
    BY <1>0, ChildIs
  <1>2. WorldStep /\ UNCHANGED prepared
    BY WorldSame, FaultsSame DEF SnapshotChild
  <1>3. /\ \/ UNCHANGED queue
           \/ /\ CanAdvance(r, p, "source-snapshotted")
              /\ Write(e, Advanced(r, "source-snapshotted"))
        /\ Goto(p, "encrypt") \/ Goto(p, "fail")
    BY DEF SnapshotChild
  <1> HIDE DEF e
  <1>4. QueueStep(p) /\ \A d \in Events : NoNewClaim(d, p)
    BY <1>1, <1>2, <1>3, QueueSame, QueueAdvanced DEF NoNewClaim, Delivery
  <1>5. CASE Goto(p, "encrypt")
    BY <1>0, <1>2, <1>4, <1>5, GotoStep DEF Step
  <1>6. CASE Goto(p, "fail")
    BY <1>0, <1>2, <1>4, <1>6, GotoFail DEF Step
  <1> QED BY <1>3, <1>5, <1>6

\* A process moves on to the handler around a child.
LEMMA GotoFailChild ==
    ASSUME OutboxInv, NEW p \in Processes, Goto(p, "fail-child"), proc[p].pc \in ChildLabels
    PROVE  ProcStep(p) /\ proc'[p].pc = "fail-child"
  <1>1. /\ "fail-child" \in Labels \cap ChildLabels /\ "fail-child" \notin DeliverLabels
        /\ ChildLabels \subseteq LoopLabels \cap HoldLabels
    BY DEF Labels, LoopLabels, HoldLabels, ChildLabels, DeliverLabels
  <1>2. ProcStep(p) /\ proc'[p] = [proc[p] EXCEPT !.pc = "fail-child"]
    BY <1>1, GotoStep
  <1> QED BY <1>2 DEF OutboxInv, TypeOK, ProcessState

\* run encrypts a child.
LEMMA EncryptStep ==
    ASSUME OutboxInv, NEW p \in Processes, Encrypt(p)
    PROVE  /\ Step(p) /\ \A d \in Events \ {Child(p)} : NoNewClaim(d, p)
           /\ \/ proc'[p].pc = "fail-child"
              \/ proc'[p] = [proc[p] EXCEPT !.pc = "release-child"]
  <1>0. /\ proc[p].pc \in LoopLabels \cap HoldLabels \cap ChildLabels /\ proc[p].pc = "encrypt"
        /\ "release-child" \in Labels \cap ChildLabels /\ "release-child" \notin DeliverLabels
    BY DEF Encrypt, At, Labels, LoopLabels, HoldLabels, ChildLabels, DeliverLabels
  <1> DEFINE e == Child(p)
             r == queue[e]
  <1>1. e \in Events /\ r \in QueueRecord /\ RecordOK(r)
    BY <1>0, ChildIs, RecordIs
  <1>2. ProcStep(p) /\ (\/ proc'[p].pc = "fail-child"
                        \/ proc'[p] = [proc[p] EXCEPT !.pc = "release-child"])
    <2>1. Goto(p, "fail-child") \/ Goto(p, "release-child")
      BY DEF Encrypt
    <2> QED BY <1>0, <2>1, GotoFailChild, GotoStep
  <1>3. CASE CanPrepare(p) /\ PublishPrepared(e) /\ Write(e, Advanced(r, "prepared-encrypted"))
             /\ UNCHANGED <<bucket, world, faults>>
    <2> DEFINE s == Advanced(r, "prepared-encrypted")
    <2>1. prepared' = [prepared EXCEPT ![e] = "ready"] /\ prepared'[e] = "ready"
      BY <1>1, <1>3 DEF PublishPrepared, OutboxInv, TypeOK
    <2>2. WorldStep
      BY <1>1, <1>3, <2>1 DEF WorldStep, OutboxInv, TypeOK, world
    <2>3. /\ queue' = [queue EXCEPT ![e] = s] /\ queue'[e] = s
          /\ \A d \in Events \ {e} : queue'[d] = queue[d]
      BY <1>1, <1>3 DEF Write, OutboxInv, TypeOK
    <2>4. (Keeps(r, s, p) \/ Advances(r, s, p)) /\ s.resume = "prepared-encrypted"
      <3>1. CanAdvance(r, p, "prepared-encrypted") /\ "prepared-encrypted" \in Delivery
        BY <1>3 DEF CanPrepare, CanAdvance, Successor, Rank, Delivery
      <3> QED BY <1>1, <3>1, AdvancedIs
    <2> HIDE DEF s
    <2>5. Move(e, p)
      BY <1>0, <2>1, <2>3, <2>4 DEF Move, At
    <2>6. QueueStep(p)
      BY <1>1, <2>3, <2>5, QueueOne
    <2> QED BY <1>2, <2>2, <2>3, <2>6 DEF Step, NoNewClaim
  <1>4. CASE UNCHANGED <<queue, prepared, bucket, world>> /\ faults' \in 0 .. MaxFaults
    BY <1>2, <1>4, WorldSame, QueueSame DEF Step, NoNewClaim
  <1>5. CASE /\ HasClaim(r, p) /\ Fault("quota") /\ Write(e, Stopped(r, "capture-gap"))
             /\ UNCHANGED <<prepared, bucket, world>>
    <2>1. Keeps(r, Stopped(r, "capture-gap"), p)
      BY <1>1, <1>5, StoppedKeeps
    <2>2. QueueStep(p)
      BY <1>1, <1>5, <2>1, QueueKept
    <2>3. \A d \in Events \ {e} : queue'[d] = queue[d]
      BY <1>5 DEF Write, OutboxInv, TypeOK
    <2> QED BY <1>2, <1>5, <2>2, <2>3, WorldSame, FaultIs DEF Step, NoNewClaim
  <1> QED BY <1>3, <1>4, <1>5, FaultIs, FaultsSame DEF Encrypt, outbox

\* run gives a child back, prepared, and goes on with the next one.
LEMMA ReleaseChildStep ==
    ASSUME OutboxInv, NEW p \in Processes, ReleaseChild(p)
    PROVE  /\ Step(p) /\ \A d \in Events : NoNewClaim(d, p)
           /\ \/ proc'[p].pc \in {"fail", "fail-child"}
              \/ /\ queue'[Child(p)].owner = None /\ queue'[Child(p)].resume \in Delivery
                 /\ proc'[p].held = proc[p].held
                 /\ \/ /\ proc[p].kind = "evidence" /\ proc'[p].pc = "enqueue"
                       /\ proc'[p].kind = "index" /\ proc'[p].chain = proc[p].chain
                    \/ /\ proc[p].kind = "index" /\ proc'[p].pc = "expand"
                       /\ proc'[p].chain = proc[p].chain
                    \/ /\ proc[p].kind = "index" /\ proc'[p].pc = "enqueue"
                       /\ proc'[p].kind = "evidence"
                       /\ proc'[p].chain \ {Top(proc'[p].chain)} = proc[p].chain
  <1>0. proc[p].pc \in LoopLabels \cap HoldLabels \cap ChildLabels /\ proc[p].pc = "release-child"
    BY DEF ReleaseChild, At, LoopLabels, HoldLabels, ChildLabels
  <1> DEFINE e == Child(p)
             r == queue[e]
  <1>1. /\ e \in Events /\ r \in QueueRecord /\ RecordOK(r) /\ e[2] = proc[p].kind
        /\ proc[p] \in ProcessState /\ ProcessOK(proc[p])
    BY <1>0, ChildIs, RecordIs DEF Child, OutboxInv, TypeOK
  <1>2. WorldStep
    BY WorldSame, FaultsSame DEF ReleaseChild
  <1>3. CASE Goto(p, "fail-child") /\ UNCHANGED queue
    BY <1>0, <1>2, <1>3, GotoFailChild, QueueSame DEF Step, NoNewClaim
  <1>4. CASE /\ CanRelease(r, p, prepared[e] = "ready")
             /\ Write(e, Released(r))
             /\ proc' = [proc EXCEPT ![p] =
                  IF e[2] = "evidence" THEN [@ EXCEPT !.pc = "enqueue", !.kind = "index"]
                                       ELSE NextSegment([@ EXCEPT !.made = proc[p].made + 1])]
    <2>1. Keeps(r, Released(r), p) /\ Released(r).owner = None
      BY <1>1, <1>4, ReleasedKeeps
    <2>2. QueueStep(p) /\ queue'[e] = Released(r)
      BY <1>1, <1>4, <2>1, QueueKept
    <2>3. queue'[e].owner = None /\ queue'[e].resume \in Delivery
      BY <1>4, <2>1, <2>2 DEF Keeps, CanRelease, Delivery
    <2>4. \A d \in Events : NoNewClaim(d, p)
      <3>1. \A d \in Events \ {e} : queue'[d] = queue[d]
        BY <1>4 DEF Write, OutboxInv, TypeOK
      <3> QED BY <2>3, <3>1, ProcessesAssumption DEF NoNewClaim
    <2>5. CASE proc[p].kind = "evidence"
      <3> DEFINE u == [proc[p] EXCEPT !.pc = "enqueue", !.kind = "index"]
      <3>1. proc' = [proc EXCEPT ![p] = u]
        BY <1>1, <1>4, <2>5 DEF OutboxInv, TypeOK
      <3>2. /\ u \in ProcessState /\ u.pc = "enqueue" /\ u.kind = "index" /\ u.left = proc[p].left
            /\ u.held = proc[p].held /\ u.chain = proc[p].chain
        BY <1>1 DEF ProcessState, Labels
      <3> HIDE DEF u
      <3>3. ProcessOK(u)
        BY <1>0, <1>1, <3>2 DEF ProcessOK, LoopLabels, HoldLabels, ChildLabels, DeliverLabels
      <3>4. ProcStep(p) /\ proc'[p] = u
        BY <3>1, <3>2, <3>3, ProcSet
      <3> QED BY <1>2, <2>2, <2>3, <2>4, <2>5, <3>2, <3>4 DEF Step
    <2>6. CASE proc[p].kind # "evidence"
      <3> DEFINE v == [proc[p] EXCEPT !.made = @ + 1]
                 u == NextSegment(v)
      <3>0. proc[p].kind = "index"
        BY <1>1, <2>6 DEF ProcessState
      <3>1. proc' = [proc EXCEPT ![p] = u]
        <4>1. e[2] # "evidence"
          BY <1>1, <2>6
        <4> DEFINE w == IF e[2] = "evidence" THEN [proc[p] EXCEPT !.pc = "enqueue", !.kind = "index"]
                                             ELSE u
        <4>2. proc' = [proc EXCEPT ![p] = w]
          BY <1>4
        <4>3. w = u
          BY <4>1
        <4> HIDE DEF w, u
        <4> QED BY <4>2, <4>3
      <3>2. /\ v \in ProcessState /\ v.left > 0 /\ v.held \in Events
            /\ v.held = proc[p].held /\ v.chain = proc[p].chain
        BY <1>0, <1>1 DEF ProcessState, ProcessOK
      <3> HIDE DEF v
      <3>3. /\ u \in ProcessState /\ ProcessOK(u) /\ u.held = v.held
            /\ \/ u.pc = "fail"
               \/ u.pc = "expand" /\ u.chain = v.chain
               \/ u.pc = "enqueue" /\ u.kind = "evidence" /\ u.chain \ {Top(u.chain)} = v.chain
        BY <3>2, NextSegmentIs
      <3> HIDE DEF u
      <3>4. ProcStep(p) /\ proc'[p] = u
        BY <3>1, <3>3, ProcSet
      <3> QED BY <1>2, <2>2, <2>3, <2>4, <3>0, <3>2, <3>3, <3>4 DEF Step
    <2> QED BY <2>5, <2>6
  <1> QED BY <1>3, <1>4 DEF ReleaseChild

\* run expands the trigger, or retries it.
LEMMA ExpandStep ==
    ASSUME OutboxInv, NEW p \in Processes, Expand(p)
    PROVE  Step(p) /\ proc'[p].pc \in {"idle", "run", "drain", "fail"}
  <1>0. proc[p].pc \in LoopLabels \cap HoldLabels /\ proc[p].pc = "expand"
    BY DEF Expand, At, LoopLabels, HoldLabels
  <1> DEFINE e == proc[p].held
             r == queue[e]
  <1>1. e \in Events /\ r \in QueueRecord /\ RecordOK(r) /\ proc[p].chain \in Chains
    BY <1>0, HeldIs DEF ProcessState
  <1>2. WorldStep
    BY WorldSame, FaultsSame DEF Expand
  <1>3. \/ /\ HasClaim(r, p)
           /\ EndIteration(p, [queue EXCEPT ![e] = Stopped(r, "retryable-failure")], FALSE)
        \/ /\ CanExpand(r, p)
           /\ EndIteration(p, [queue EXCEPT ![e] = Expanded(r, proc[p].chain)], TRUE)
        \/ Goto(p, "fail") /\ UNCHANGED queue
    BY DEF Expand, Cursor
  <1>4. CASE /\ HasClaim(r, p)
             /\ EndIteration(p, [queue EXCEPT ![e] = Stopped(r, "retryable-failure")], FALSE)
    <2>1. Keeps(r, Stopped(r, "retryable-failure"), p) /\ Stopped(r, "retryable-failure").owner = None
      BY <1>1, <1>4, StoppedKeeps
    <2> QED BY <1>0, <1>1, <1>2, <1>4, <2>1, EndKept DEF Step
  <1>5. CASE /\ CanExpand(r, p)
             /\ EndIteration(p, [queue EXCEPT ![e] = Expanded(r, proc[p].chain)], TRUE)
    <2> DEFINE s == Expanded(r, proc[p].chain)
    <2>1. s \in QueueRecord /\ s.owner = None
      BY <1>1, <1>5, ExpandedIs
    <2>2. /\ ProcStep(p) /\ proc'[p].pc \in {"idle", "run", "drain"}
          /\ queue' = Abandon([queue EXCEPT ![e] = s], p)
      BY <1>0, <1>5, EndIterationStep
    <2>3. queue'[e] = s => Move(e, p)
      BY <1>0, <1>5 DEF Move, At
    <2> HIDE DEF s
    <2>4. QueueStep(p)
      BY <1>1, <2>1, <2>2, <2>3, QueueEnded
    <2> QED BY <1>2, <2>2, <2>4 DEF Step
  <1>6. CASE Goto(p, "fail") /\ UNCHANGED queue
    BY <1>0, <1>2, <1>6, GotoFail, QueueSame DEF Step
  <1> QED BY <1>3, <1>4, <1>5, <1>6

\* The handler around a child.
LEMMA FailChildStep ==
    ASSUME OutboxInv, NEW p \in Processes, FailChild(p)
    PROVE  Step(p) /\ proc'[p].pc = "fail"
  <1>0. proc[p].pc \in LoopLabels \cap HoldLabels \cap ChildLabels
    BY DEF FailChild, At, LoopLabels, HoldLabels, ChildLabels
  <1> DEFINE e == Child(p)
             r == queue[e]
  <1>1. e \in Events /\ r \in QueueRecord /\ RecordOK(r)
    BY <1>0, ChildIs, RecordIs
  <1>2. WorldStep
    BY WorldSame, FaultsSame DEF FailChild
  <1>3. ProcStep(p) /\ proc'[p].pc = "fail"
    BY <1>0, GotoFail DEF FailChild
  <1>4. CASE HasClaim(r, p) /\ Write(e, Stopped(r, "retryable-failure"))
    <2>1. Keeps(r, Stopped(r, "retryable-failure"), p)
      BY <1>1, <1>4, StoppedKeeps
    <2> QED BY <1>1, <1>2, <1>3, <1>4, <2>1, QueueKept DEF Step
  <1>5. CASE UNCHANGED queue
    BY <1>2, <1>3, <1>5, QueueSame DEF Step
  <1> QED BY <1>4, <1>5 DEF FailChild

\* The handlers of run and drain.
LEMMA FailStep ==
    ASSUME OutboxInv, NEW p \in Processes, Fail(p)
    PROVE  Step(p) /\ proc'[p].pc \in {"idle", "run", "drain"}
  <1>0. proc[p].pc \in LoopLabels \cap HoldLabels
    BY DEF Fail, At, LoopLabels, HoldLabels
  <1> DEFINE e == proc[p].held
             r == queue[e]
             state == IF At(p, "deny") THEN "policy-denied" ELSE "retryable-failure"
  <1>1. e \in Events /\ r \in QueueRecord /\ RecordOK(r)
    BY <1>0, HeldIs
  <1>2. WorldStep
    BY WorldSame, FaultsSame, FaultIs DEF Fail
  <1>3. \/ HasClaim(r, p) /\ EndIteration(p, [queue EXCEPT ![e] = Stopped(r, state)], FALSE)
        \/ EndIteration(p, queue, FALSE)
    BY DEF Fail
  <1>4. CASE HasClaim(r, p) /\ EndIteration(p, [queue EXCEPT ![e] = Stopped(r, state)], FALSE)
    <2>1. state \in {"retryable-failure", "capture-gap", "policy-denied", "quarantined"}
      OBVIOUS
    <2> HIDE DEF state
    <2>2. Keeps(r, Stopped(r, state), p) /\ Stopped(r, state).owner = None
      BY <1>1, <1>4, <2>1, StoppedKeeps
    <2> QED BY <1>0, <1>1, <1>2, <1>4, <2>2, EndKept DEF Step
  <1>5. CASE EndIteration(p, queue, FALSE)
    BY <1>0, <1>2, <1>5, EndSame DEF Step
  <1> QED BY <1>3, <1>4, <1>5

\* drain looks for a record.
LEMMA DrainNextStep ==
    ASSUME OutboxInv, NEW p \in Processes, DrainNext(p)
    PROVE  Step(p) /\ proc'[p].pc \in {"idle", "drain-claim"}
  <1>1. QueueStep(p)
    BY QueueSame DEF DrainNext
  <1>2. WorldStep
    BY WorldSwept, FaultsSame DEF DrainNext
  <1> DEFINE candidates == {e \in Events \ proc[p].tried : Drainable(queue[e], e)}
             stale == {e \in candidates : queue[e].owner # None}
             r == [proc[p] EXCEPT !.pc = "drain-claim", !.picked = candidates, !.stale = stale]
  <1>3. candidates \in SUBSET Evidence /\ candidates \in SUBSET Events /\ stale \in SUBSET Events
    BY DEF Drainable, OutboxInv, Events, Index, Evidence
  <1>4. \/ proc' = [proc EXCEPT ![p] = Idle]
        \/ proc' = [proc EXCEPT ![p] = r] /\ proc[p].left # 0
    <2>1. \/ proc' = [proc EXCEPT ![p] = Idle]
          \/ /\ proc' = [proc EXCEPT ![p].pc = "drain-claim", ![p].picked = candidates,
                                     ![p].stale = stale]
             /\ proc[p].left # 0
      BY DEF DrainNext
    <2> HIDE DEF candidates, stale
    <2> QED BY <2>1 DEF OutboxInv, TypeOK
  <1> HIDE DEF candidates, stale
  <1>5. CASE proc' = [proc EXCEPT ![p] = Idle]
    BY <1>1, <1>2, <1>5, IdleIs, ProcSet DEF Step
  <1>6. CASE proc' = [proc EXCEPT ![p] = r] /\ proc[p].left # 0
    <2>1. proc[p] \in ProcessState
      BY DEF OutboxInv, TypeOK
    <2>2. /\ r \in ProcessState /\ r.pc = "drain-claim" /\ r.left = proc[p].left
          /\ r.picked = candidates
      BY <1>3, <2>1 DEF ProcessState, Labels
    <2>3. r.left > 0
      BY <1>6, <2>1, <2>2, HarvestAssumption DEF ProcessState
    <2> HIDE DEF r
    <2>4. ProcessOK(r)
      BY <1>3, <2>2, <2>3 DEF ProcessOK, LoopLabels, HoldLabels, ChildLabels, DeliverLabels
    <2> QED BY <1>1, <1>2, <1>6, <2>2, <2>4, ProcSet DEF Step
  <1> QED BY <1>4, <1>5, <1>6

\* drain claims a candidate or takes it over.
LEMMA DrainClaimStep ==
    ASSUME OutboxInv, NEW p \in Processes, DrainClaim(p)
    PROVE  Step(p) /\ proc'[p].pc \in {"idle", "drain-claim", "check"}
  <1>1. WorldStep
    BY WorldSame, FaultsSame DEF DrainClaim
  <1>2. CASE EndCommand(p, queue)
    BY <1>1, <1>2, EndCommandSame DEF Step
  <1>3. CASE proc[p].picked # {}
    <2> DEFINE e == First(queue, proc[p].picked)
               r == queue[e]
               takeover == e \in proc[p].stale /\ Takeable(r)
    <2>0. proc[p] \in ProcessState /\ ProcessOK(proc[p]) /\ proc[p].pc = "drain-claim"
      BY DEF OutboxInv, TypeOK, DrainClaim, At
    <2>1. e \in Evidence /\ e \in Events
      <3>1. proc[p].picked \in SUBSET Events /\ proc[p].picked \subseteq Evidence
        BY <2>0 DEF ProcessState, ProcessOK
      <3> QED BY <1>3, <3>1, FirstIs DEF OutboxInv, TypeOK
    <2>2. \/ /\ \/ Takeable(r) /\ Write(e, Takeover(r, p))
                \/ Claimable(r) /\ Write(e, Claim(r, p))
             /\ proc' = [proc EXCEPT ![p].held = e, ![p].picked = {}, ![p].stale = {},
                                     ![p].tried = @ \cup {e}, ![p].pc = "check"]
          \/ proc' = [proc EXCEPT ![p].picked = @ \ {e}] /\ UNCHANGED queue
          \/ EndCommand(p, queue)
      BY <1>3 DEF DrainClaim
    <2> HIDE DEF e, takeover
    <2>3. CASE /\ \/ Takeable(r) /\ Write(e, Takeover(r, p))
                  \/ Claimable(r) /\ Write(e, Claim(r, p))
               /\ proc' = [proc EXCEPT ![p].held = e, ![p].picked = {}, ![p].stale = {},
                                       ![p].tried = @ \cup {e}, ![p].pc = "check"]
      <3> DEFINE u == [proc[p] EXCEPT !.held = e, !.picked = {}, !.stale = {},
                                      !.tried = @ \cup {e}, !.pc = "check"]
      <3>1. proc' = [proc EXCEPT ![p] = u]
        BY <2>3 DEF OutboxInv, TypeOK
      <3>2. u \in ProcessState /\ u.pc = "check" /\ u.held = e /\ u.left = proc[p].left
        BY <2>0, <2>1 DEF ProcessState, Labels
      <3> HIDE DEF u
      <3>3. ProcessOK(u)
        BY <2>0, <2>1, <3>2 DEF ProcessOK, LoopLabels, HoldLabels, ChildLabels, DeliverLabels
      <3>4. QueueStep(p)
        <4>1. Takeable(r) => Keeps(r, Takeover(r, p), p)
          BY <2>1, TakeoverKeeps, RecordIs
        <4>2. Claimable(r) => Keeps(r, Claim(r, p), p)
          BY <2>1, ClaimKeeps, RecordIs
        <4> QED BY <2>1, <2>3, <4>1, <4>2, QueueKept
      <3> QED BY <1>1, <3>1, <3>2, <3>3, <3>4, ProcSet DEF Step
    <2>4. CASE proc' = [proc EXCEPT ![p].picked = @ \ {e}] /\ UNCHANGED queue
      <3> DEFINE u == [proc[p] EXCEPT !.picked = @ \ {e}]
      <3>1. proc' = [proc EXCEPT ![p] = u]
        BY <2>4 DEF OutboxInv, TypeOK
      <3>2. /\ u \in ProcessState /\ u.pc = "drain-claim" /\ u.left = proc[p].left
            /\ u.picked \subseteq proc[p].picked
        BY <2>0 DEF ProcessState
      <3> HIDE DEF u
      <3>3. ProcessOK(u)
        BY <2>0, <3>2 DEF ProcessOK, LoopLabels, HoldLabels, ChildLabels, DeliverLabels
      <3> QED BY <1>1, <2>4, <3>1, <3>2, <3>3, ProcSet, QueueSame DEF Step
    <2> QED BY <1>2, <2>2, <2>3, <2>4
  <1> QED BY <1>2, <1>3 DEF DrainClaim

\* A process that delivers goes on.
LEMMA GotoDeliver ==
    ASSUME OutboxInv, NEW p \in Processes, proc[p].pc \in DeliverLabels, NEW label \in DeliverLabels,
           Goto(p, label)
    PROVE  ProcStep(p) /\ proc'[p].pc = label /\ proc'[p].held = proc[p].held
  <1>1. /\ DeliverLabels \subseteq LoopLabels \cap HoldLabels \cap Labels
        /\ DeliverLabels \cap ChildLabels = {} /\ "drain-claim" \notin DeliverLabels
    BY DEF Labels, LoopLabels, HoldLabels, ChildLabels, DeliverLabels
  <1>2. ProcStep(p) /\ proc'[p] = [proc[p] EXCEPT !.pc = label]
    BY <1>1, GotoStep
  <1> QED BY <1>2 DEF OutboxInv, TypeOK, ProcessState

\* drain asks the policy, and looks for the index.
LEMMA CheckStep ==
    ASSUME OutboxInv, NEW p \in Processes, Check(p)
    PROVE  Step(p) /\ proc'[p].pc \in {"upload", "fail", "deny"}
  <1>0. /\ proc[p].pc \in LoopLabels \cap HoldLabels \cap DeliverLabels
        /\ "upload" \in DeliverLabels
    BY DEF Check, At, LoopLabels, HoldLabels, DeliverLabels
  <1>1. QueueStep(p)
    BY QueueSame DEF Check, outbox
  <1>2. WorldStep
    BY WorldSame, FaultsSame, FaultIs DEF Check, outbox
  <1>3. Goto(p, "upload") \/ Goto(p, "fail") \/ Goto(p, "deny")
    BY DEF Check
  <1> QED BY <1>0, <1>1, <1>2, <1>3, GotoDeliver, GotoFail DEF Step

\* drain uploads the evidence.
LEMMA UploadStep ==
    ASSUME OutboxInv, NEW p \in Processes, Upload(p)
    PROVE  /\ Step(p) /\ bucket' \subseteq bucket \cup {proc[p].held} /\ proc[p].held \in Evidence
           /\ \/ proc'[p].pc \in {"idle", "run", "drain", "fail"}
              \/ /\ proc'[p].pc \in {"mark-uploaded", "put-index", "verify-index"}
                 /\ proc'[p].held = proc[p].held /\ proc[p].held \in bucket'
  <1>0. /\ proc[p].pc \in LoopLabels \cap HoldLabels \cap DeliverLabels
        /\ {"mark-uploaded", "put-index", "verify-index"} \subseteq DeliverLabels
    BY DEF Upload, At, LoopLabels, HoldLabels, DeliverLabels
  <1> DEFINE e == proc[p].held
  <1>1. e \in Evidence
    BY <1>0 DEF OutboxInv, ProcessOK
  <1>2. WorldStep /\ bucket' \subseteq bucket \cup {e}
    <2>1. bucket' \in {bucket, bucket \cup {e}} /\ faults' \in 0 .. MaxFaults
      BY FaultIs, FaultsSame DEF Upload, Put
    <2> QED BY <1>1, <2>1 DEF Upload, WorldStep, OutboxInv, TypeOK, world
  <1>3. CASE /\ bucket' = bucket \cup {e} /\ UNCHANGED queue
             /\ \E label \in {"mark-uploaded", "put-index", "verify-index"} : Goto(p, label)
    <2>1. QueueStep(p)
      BY <1>3, QueueSame
    <2> QED BY <1>0, <1>1, <1>2, <1>3, <2>1, GotoDeliver DEF Step
  <1>4. CASE Goto(p, "fail") /\ UNCHANGED queue
    BY <1>0, <1>1, <1>2, <1>4, GotoFail, QueueSame DEF Step
  <1>5. CASE EndIteration(p, queue, TRUE)
    BY <1>0, <1>1, <1>2, <1>5, EndSame DEF Step
  <1> QED BY <1>3, <1>4, <1>5 DEF Upload, Put

\* drain records a stage of the delivery.
LEMMA RecordStageStep ==
    ASSUME OutboxInv, NEW p \in Processes, NEW at \in DeliverLabels, NEW next \in DeliverLabels,
           NEW stage \in {"object-uploaded", "index-published"}, RecordStage(p, at, stage, next)
    PROVE  /\ Step(p) /\ UNCHANGED bucket
           /\ \/ proc'[p].pc = "fail"
              \/ proc'[p].pc = next /\ proc'[p].held = proc[p].held
  <1>0. proc[p].pc \in LoopLabels \cap HoldLabels \cap DeliverLabels
    BY DEF RecordStage, At, LoopLabels, HoldLabels, DeliverLabels
  <1> DEFINE e == proc[p].held
  <1>1. e \in Events
    BY <1>0, HeldIs
  <1>2. WorldStep /\ UNCHANGED <<bucket, prepared>>
    BY WorldSame, FaultsSame DEF RecordStage
  <1>3. CASE /\ CanAdvance(queue[e], p, stage) /\ Write(e, Advanced(queue[e], stage))
             /\ Goto(p, next)
    <2>1. QueueStep(p)
      BY <1>1, <1>2, <1>3, QueueAdvanced
    <2> QED BY <1>0, <1>2, <1>3, <2>1, GotoDeliver DEF Step
  <1>4. CASE Goto(p, "fail") /\ UNCHANGED queue
    BY <1>0, <1>2, <1>4, GotoFail, QueueSame DEF Step
  <1> QED BY <1>3, <1>4 DEF RecordStage

\* drain uploads the index.
LEMMA PutIndexStep ==
    ASSUME OutboxInv, NEW p \in Processes, PutIndex(p)
    PROVE  /\ Step(p) /\ bucket' \subseteq bucket \cup {IndexOf(proc[p].held)}
           /\ proc[p].held \in Evidence
           /\ \/ proc'[p].pc = "fail"
              \/ /\ proc'[p].pc = "publish-index" /\ proc'[p].held = proc[p].held
                 /\ IndexOf(proc[p].held) \in bucket'
  <1>0. /\ proc[p].pc \in LoopLabels \cap HoldLabels \cap DeliverLabels
        /\ "publish-index" \in DeliverLabels
    BY DEF PutIndex, At, LoopLabels, HoldLabels, DeliverLabels
  <1> DEFINE index == IndexOf(proc[p].held)
  <1>1. proc[p].held \in Evidence /\ index \in Index
    BY <1>0, IndexOfIs DEF OutboxInv, ProcessOK
  <1> HIDE DEF index
  <1>2. WorldStep /\ bucket' \subseteq bucket \cup {index}
    <2>1. bucket' \in {bucket, bucket \cup {index}} /\ faults' \in 0 .. MaxFaults
      BY FaultIs, FaultsSame DEF PutIndex, Put, index
    <2> QED BY <1>1, <2>1 DEF PutIndex, WorldStep, OutboxInv, TypeOK, world, outbox
  <1>3. QueueStep(p)
    BY QueueSame DEF PutIndex, outbox
  <1>4. Goto(p, "fail") \/ (Goto(p, "publish-index") /\ index \in bucket')
    BY DEF PutIndex, Put, index
  <1> QED BY <1>0, <1>1, <1>2, <1>3, <1>4, GotoFail, GotoDeliver DEF Step, index

\* drain looks for an index that was published before.
LEMMA VerifyIndexStep ==
    ASSUME OutboxInv, NEW p \in Processes, VerifyIndex(p)
    PROVE  /\ Step(p) /\ UNCHANGED bucket
           /\ \/ proc'[p].pc = "fail"
              \/ /\ proc'[p].pc = "commit" /\ proc'[p].held = proc[p].held
                 /\ IndexOf(proc[p].held) \in bucket
  <1>0. proc[p].pc \in LoopLabels \cap HoldLabels \cap DeliverLabels /\ "commit" \in DeliverLabels
    BY DEF VerifyIndex, At, LoopLabels, HoldLabels, DeliverLabels
  <1>1. QueueStep(p)
    BY QueueSame DEF VerifyIndex, outbox
  <1>2. WorldStep /\ UNCHANGED bucket
    BY WorldSame, FaultsSame, FaultIs DEF VerifyIndex, outbox
  <1>3. Goto(p, "fail") \/ (Goto(p, "commit") /\ IndexOf(proc[p].held) \in bucket)
    BY DEF VerifyIndex
  <1> QED BY <1>0, <1>1, <1>2, <1>3, GotoDeliver, GotoFail DEF Step

\* drain commits the record.
LEMMA CommitStep ==
    ASSUME OutboxInv, NEW p \in Processes, Commit(p)
    PROVE  Step(p) /\ proc'[p].pc \in {"idle", "run", "drain", "fail"}
  <1>0. proc[p].pc \in LoopLabels \cap HoldLabels /\ proc[p].pc = "commit"
    BY DEF Commit, At, LoopLabels, HoldLabels, DeliverLabels
  <1> DEFINE e == proc[p].held
             r == queue[e]
  <1>1. e \in Events /\ r \in QueueRecord /\ RecordOK(r)
    BY <1>0, HeldIs
  <1>2. WorldStep
    BY WorldSame, FaultsSame DEF Commit
  <1>3. \/ CanCommit(r, p) /\ EndIteration(p, [queue EXCEPT ![e] = Committed(r)], TRUE)
        \/ EndIteration(p, queue, TRUE)
        \/ Goto(p, "fail") /\ UNCHANGED queue
    BY DEF Commit
  <1>4. CASE CanCommit(r, p) /\ EndIteration(p, [queue EXCEPT ![e] = Committed(r)], TRUE)
    <2> DEFINE s == Committed(r)
    <2>1. s \in QueueRecord /\ s.owner = None
      BY <1>1, <1>4, CommittedIs
    <2>2. /\ ProcStep(p) /\ proc'[p].pc \in {"idle", "run", "drain"}
          /\ queue' = Abandon([queue EXCEPT ![e] = s], p)
      BY <1>0, <1>4, EndIterationStep
    <2>3. queue'[e] = s => Move(e, p)
      BY <1>0, <1>4 DEF Move, At
    <2> HIDE DEF s
    <2>4. QueueStep(p)
      BY <1>1, <2>1, <2>2, <2>3, QueueEnded
    <2> QED BY <1>2, <2>2, <2>4 DEF Step
  <1>5. CASE EndIteration(p, queue, TRUE)
    BY <1>0, <1>2, <1>5, EndSame DEF Step
  <1>6. CASE Goto(p, "fail") /\ UNCHANGED queue
    BY <1>0, <1>2, <1>6, GotoFail, QueueSame DEF Step
  <1> QED BY <1>3, <1>4, <1>5, <1>6

\* An operator names a record.
LEMMA BeginOperatorStep ==
    ASSUME OutboxInv, NEW p \in Processes, NEW command, NEW e \in Events, BeginOperator(p, command, e)
    PROVE  Step(p) /\ proc'[p].pc \in {"idle", "operate"}
  <1>0. proc[p] \in ProcessState /\ proc[p].pc = "idle" /\ command \in CommandNames
    BY HarvestAssumption DEF BeginOperator, At, OutboxInv, TypeOK
  <1>1. WorldStep
    BY WorldSame, FaultsSame DEF BeginOperator
  <1>2. CASE /\ proc' = [proc EXCEPT ![p].pc = "operate", ![p].command = command, ![p].held = e]
             /\ UNCHANGED queue
    <2> DEFINE u == [proc[p] EXCEPT !.pc = "operate", !.command = command, !.held = e]
    <2>1. proc' = [proc EXCEPT ![p] = u]
      BY <1>2 DEF OutboxInv, TypeOK
    <2>2. u \in ProcessState /\ u.pc = "operate" /\ u.held = e
      BY <1>0 DEF ProcessState, Labels
    <2> HIDE DEF u
    <2>3. ProcessOK(u)
      BY <2>2 DEF ProcessOK, LoopLabels, HoldLabels, ChildLabels, DeliverLabels
    <2> QED BY <1>1, <1>2, <2>1, <2>2, <2>3, ProcSet, QueueSame DEF Step
  <1>3. CASE /\ queue[e].state = "policy-denied" /\ UNCHANGED proc
             /\ Write(e, [queue[e] EXCEPT !.state = "quarantined"])
    <2>1. Keeps(queue[e], [queue[e] EXCEPT !.state = "quarantined"], p)
      BY <1>3, QuarantinedKeeps, RecordIs
    <2> QED BY <1>0, <1>1, <1>3, <2>1, QueueKept, ProcSame DEF Step
  <1> QED BY <1>2, <1>3 DEF BeginOperator

\* The operator's record is claimed.
LEMMA OperateStep ==
    ASSUME OutboxInv, NEW p \in Processes, Operate(p)
    PROVE  Step(p) /\ proc'[p].pc \in {"idle", "apply"}
  <1>0. proc[p].pc \in HoldLabels /\ proc[p].pc = "operate"
    BY DEF Operate, At, HoldLabels
  <1> DEFINE e == proc[p].held
             r == queue[e]
  <1>1. e \in Events /\ r \in QueueRecord /\ RecordOK(r)
    BY <1>0, HeldIs
  <1>2. WorldStep
    BY WorldSame, FaultsSame DEF Operate
  <1>3. CASE EndCommand(p, queue)
    BY <1>2, <1>3, EndCommandSame DEF Step
  <1>4. CASE /\ \/ Takeable(r) /\ Write(e, Takeover(r, p))
                \/ Claimable(r) /\ Write(e, Claim(r, p))
             /\ Goto(p, "apply")
    <2>1. QueueStep(p)
      <3>1. Takeable(r) => Keeps(r, Takeover(r, p), p)
        BY <1>1, TakeoverKeeps
      <3>2. Claimable(r) => Keeps(r, Claim(r, p), p)
        BY <1>1, ClaimKeeps
      <3> QED BY <1>1, <1>4, <3>1, <3>2, QueueKept
    <2>2. ProcStep(p) /\ proc'[p] = [proc[p] EXCEPT !.pc = "apply"]
      <3>1. /\ "apply" \in Labels \cap HoldLabels
            /\ "apply" \notin LoopLabels \cup ChildLabels \cup DeliverLabels
        BY DEF Labels, LoopLabels, HoldLabels, ChildLabels, DeliverLabels
      <3> QED BY <1>0, <1>4, <3>1, GotoStep
    <2>3. proc'[p].pc = "apply"
      BY <2>2 DEF OutboxInv, TypeOK, ProcessState
    <2> QED BY <1>2, <2>1, <2>2, <2>3 DEF Step
  <1> QED BY <1>3, <1>4 DEF Operate

\* The operator's record is retried or quarantined.
LEMMA ApplyStep ==
    ASSUME OutboxInv, NEW p \in Processes, Apply(p)
    PROVE  Step(p) /\ proc'[p].pc = "idle"
  <1>0. proc[p].pc \in HoldLabels
    BY DEF Apply, At, HoldLabels
  <1> DEFINE e == proc[p].held
             r == queue[e]
             state == IF proc[p].command = "retry" THEN "retryable-failure" ELSE "quarantined"
  <1>1. e \in Events /\ r \in QueueRecord /\ RecordOK(r)
    BY <1>0, HeldIs
  <1>2. WorldStep
    BY WorldSame, FaultsSame DEF Apply
  <1>3. \/ HasClaim(r, p) /\ EndCommand(p, [queue EXCEPT ![e] = Stopped(r, state)])
        \/ EndCommand(p, queue)
    BY DEF Apply
  <1>4. CASE EndCommand(p, queue)
    BY <1>2, <1>4, EndCommandSame DEF Step
  <1>5. CASE HasClaim(r, p) /\ EndCommand(p, [queue EXCEPT ![e] = Stopped(r, state)])
    <2>1. state \in {"retryable-failure", "capture-gap", "policy-denied", "quarantined"}
      OBVIOUS
    <2> HIDE DEF state
    <2>2. Keeps(r, Stopped(r, state), p) /\ Stopped(r, state).owner = None
      BY <1>1, <1>5, <2>1, StoppedKeeps
    <2>3. /\ ProcStep(p) /\ proc'[p].pc = "idle"
          /\ queue' = Abandon([queue EXCEPT ![e] = Stopped(r, state)], p)
      BY <1>5, EndCommandStep
    <2>4. Stopped(r, state) \in QueueRecord
      BY <2>2 DEF Keeps
    <2>5. queue'[e] = Stopped(r, state) => Move(e, p)
      BY <2>2 DEF Move
    <2>6. QueueStep(p)
      BY <1>1, <2>2, <2>3, <2>4, <2>5, QueueEnded
    <2> QED BY <1>2, <2>3, <2>6 DEF Step
  <1> QED BY <1>3, <1>4, <1>5

\* A ciphertext may be published by a process that fails or dies.
LEMMA WorldPrepared ==
    ASSUME OutboxInv, NEW p \in Processes, UNCHANGED <<bucket, world>>, faults' \in 0 .. MaxFaults,
           \/ prepared' = prepared
           \/ /\ At(p, "encrypt") /\ CanPrepare(p)
              /\ \E stage \in {"ciphertext", "ready"} : prepared' = [prepared EXCEPT ![Child(p)] = stage]
    PROVE  WorldStep
  <1>1. CASE prepared' = prepared
    BY <1>1, WorldSame
  <1>2. CASE /\ At(p, "encrypt") /\ CanPrepare(p)
             /\ \E stage \in {"ciphertext", "ready"} : prepared' = [prepared EXCEPT ![Child(p)] = stage]
    BY <1>2 DEF OutboxInv, TypeOK, WorldStep, world, CanPrepare
  <1> QED BY <1>1, <1>2

\* A write fails.
LEMMA WriteFailsStep ==
    ASSUME OutboxInv, NEW p \in Processes, WriteFails(p)
    PROVE  Step(p) /\ proc'[p].pc \in {"fail", "fail-child"}
  <1>1. QueueStep(p)
    BY QueueSame DEF WriteFails
  <1>2. WorldStep
    <2>1. faults' \in 0 .. MaxFaults
      BY FaultIs DEF WriteFails
    <2> QED BY <2>1, WorldPrepared DEF WriteFails
  <1>3. \/ proc[p].pc \in LoopLabels \cap HoldLabels /\ Goto(p, "fail")
        \/ proc[p].pc \in ChildLabels /\ Goto(p, "fail-child")
    BY DEF WriteFails, At, LoopLabels, HoldLabels, ChildLabels, DeliverLabels
  <1> QED BY <1>1, <1>2, <1>3, GotoFail, GotoFailChild DEF Step

\* A process dies.
LEMMA CrashStep ==
    ASSUME OutboxInv, NEW p \in Processes, Crash(p)
    PROVE  Step(p) /\ proc'[p].pc = "idle"
  <1>1. QueueStep(p) /\ ProcStep(p) /\ proc'[p].pc = "idle"
    BY EndCommandSame DEF Crash
  <1>2. WorldStep
    <2>1. faults' \in 0 .. MaxFaults
      BY FaultIs DEF Crash
    <2> QED BY <2>1, WorldPrepared DEF Crash
  <1> QED BY <1>1, <1>2 DEF Step

-----------------------------------------------------------------------------
(* The outbox.                                                             *)

\* Every step is one of some process or of nobody.
LEMMA EveryStep ==
    ASSUME OutboxInv, Next
    PROVE  \E p \in Processes \cup {None} : Step(p)
  <1>1. CASE Grow
    BY <1>1, GrowStep
  <1>2. CASE \E t \in Trigger : Hook(t)
    BY <1>2, HookStep
  <1>3. CASE \E e \in Events : Expire(e)
    BY <1>3, ExpireStep
  <1>4. ASSUME NEW p \in Processes,
               \/ \E command \in Commands : Begin(p, command)
               \/ RunStep(p) \/ DrainStep(p)
               \/ \E command \in Commands, e \in Events : BeginOperator(p, command, e)
               \/ Operate(p) \/ Apply(p) \/ WriteFails(p) \/ Crash(p)
        PROVE  Step(p)
    <2>1. RunStep(p) => Step(p)
      BY RunNextStep, RunClaimStep, RunReleaseStep, PlanStep, SnapshotStep, EnqueueChildStep,
         ClaimChildStep, SnapshotChildStep, EncryptStep, ReleaseChildStep, ExpandStep,
         FailChildStep, FailStep DEF RunStep
    <2>2. DrainStep(p) => Step(p)
      <3>1. MarkUploaded(p) \/ PublishIndex(p) => Step(p)
        BY RecordStageStep DEF MarkUploaded, PublishIndex, DeliverLabels
      <3> QED BY <3>1, DrainNextStep, DrainClaimStep, CheckStep, UploadStep, PutIndexStep,
                 VerifyIndexStep, CommitStep DEF DrainStep
    <2> QED BY <1>4, <2>1, <2>2, BeginStep, BeginOperatorStep, OperateStep, ApplyStep,
               WriteFailsStep, CrashStep
  <1> QED BY <1>1, <1>2, <1>3, <1>4 DEF Next

\* The invariant holds at the start.
LEMMA OutboxInit == Init => OutboxInv
  <1> SUFFICES ASSUME Init PROVE OutboxInv
    OBVIOUS
  <1>1. Absent \in QueueRecord /\ RecordOK(Absent) /\ Absent.resume \notin Delivery /\ Absent.seq = 0
    BY MaxRecordsAssumption DEF Absent, QueueRecord, RecordOK, States, Stages, Rank, Positions, Zero,
       Chains, Owned, Delivery
  <1>2. TypeOK
    BY <1>1, IdleIs, MaxRecordsAssumption, HarvestAssumption DEF Init, TypeOK, Positions
  <1>3. \A e \in Events : queue[e] = Absent
    BY DEF Init
  <1>4. SequenceBounded
    BY <1>1, <1>3 DEF SequenceBounded
  <1> QED BY <1>1, <1>2, <1>3, <1>4, IdleIs DEF Init, OutboxInv, Events

\* Every step keeps the invariant.
LEMMA OutboxNext == OutboxInv /\ [Next]_vars => OutboxInv'
  <1> SUFFICES ASSUME OutboxInv, [Next]_vars PROVE OutboxInv'
    OBVIOUS
  <1>1. CASE Next
    BY <1>1, EveryStep, StepKeepsOutbox DEF Step
  <1>2. CASE UNCHANGED vars
    BY <1>2 DEF vars, outbox, world, OutboxInv, TypeOK, SequenceBounded
  <1> QED BY <1>1, <1>2

\* The outbox keeps its invariant.
LEMMA OutboxHolds == Spec => []OutboxInv
  BY OutboxInit, OutboxNext, PTL DEF Spec

\* Every variable of Harvest has its type, for any number of processes and
\* triggers and under every fault.
THEOREM HarvestTypeCorrect == Spec => []TypeOK
  <1>1. OutboxInv => TypeOK
    BY DEF OutboxInv
  <1> QED BY <1>1, OutboxHolds, PTL

\* No record of the outbox goes back to an earlier stage, and one that is
\* committed, quarantined or expanded is never written again, whatever
\* retries, takeovers, operators and deaths of processes come in between.
THEOREM StagesNeverRegress == Spec => StageNeverRegresses
  <1> DEFINE Forward ==
        \A e \in Events :
          /\ Rank[queue[e].resume] <= Rank[queue'[e].resume]
          /\ queue[e].state \in {"committed", "quarantined", "trigger-expanded"} =>
               queue'[e] = queue[e]
  <1>1. OutboxInv /\ [Next]_vars => [Forward]_vars
    <2> SUFFICES ASSUME OutboxInv, Next PROVE Forward
      OBVIOUS
    <2>1. PICK p : \A e \in Events : Move(e, p)
      BY EveryStep DEF Step, QueueStep
    <2> QED BY <2>1, MoveRecord DEF Fixed
  <1> QED BY <1>1, OutboxHolds, PTL DEF Spec, StageNeverRegresses

\* A step keeps the ciphertext behind every prepared record.
LEMMA BackedNext == OutboxInv /\ PreparedIsBacked /\ [Next]_vars => PreparedIsBacked'
  <1> SUFFICES ASSUME OutboxInv, PreparedIsBacked, [Next]_vars PROVE PreparedIsBacked'
    OBVIOUS
  <1>1. CASE Next
    <2> SUFFICES ASSUME NEW e \in Events, queue'[e].resume \in Delivery
                 PROVE  prepared'[e] = "ready"
      BY DEF PreparedIsBacked
    <2>1. PICK p \in Processes \cup {None} : Step(p)
      BY <1>1, EveryStep
    <2>2. Move(e, p) /\ (prepared[e] = "ready" => prepared'[e] = "ready")
      BY <2>1 DEF Step, QueueStep, WorldStep
    <2>3. queue[e] \in QueueRecord /\ (queue[e].resume \in Delivery => prepared[e] = "ready")
      BY RecordIs DEF PreparedIsBacked
    <2>4. CASE Keeps(queue[e], queue'[e], p)
      BY <2>2, <2>3, <2>4 DEF Keeps
    <2>5. CASE \E key \in Positions \X Positions : queue'[e] = Queued(queue, key)
      BY <2>5, QueuedIs DEF Delivery
    <2>6. CASE Advances(queue[e], queue'[e], p) /\ queue'[e].resume # "prepared-encrypted"
      BY <2>2, <2>3, <2>6 DEF Advances, Rank, Delivery, QueueRecord, Stages
    <2>7. CASE CanCommit(queue[e], p) /\ queue'[e] = Committed(queue[e])
      BY <2>2, <2>3, <2>7, CommittedIs
    <2>8. CASE p \in Processes /\ CanExpand(queue[e], p) /\ queue'[e] = Expanded(queue[e], proc[p].chain)
      <3>1. proc[p].chain \in Chains
        BY <2>8 DEF OutboxInv, TypeOK, ProcessState
      <3> QED BY <2>3, <2>8, <3>1, ExpandedIs DEF Delivery
    <2> QED BY <2>2, <2>4, <2>5, <2>6, <2>7, <2>8 DEF Move
  <1>2. CASE UNCHANGED vars
    BY <1>2 DEF vars, outbox, PreparedIsBacked
  <1> QED BY <1>1, <1>2

\* A record that has reached the delivery stages has its ciphertext.
THEOREM PreparedStaysBacked == Spec => []PreparedIsBacked
  <1>1. Init => PreparedIsBacked
    BY DEF Init, PreparedIsBacked, Absent, Delivery
  <1> QED BY <1>1, BackedNext, OutboxHolds, PTL DEF Spec

-----------------------------------------------------------------------------
(* The bucket.                                                             *)

\* A step keeps the invariant of the bucket if its process keeps its part
\* and puts no index before its evidence.
LEMMA BucketKept ==
    ASSUME OutboxInv, BucketInv, NEW p \in Processes \cup {None}, Step(p),
           \A C \in Chains : <<C, "index">> \in bucket' \ bucket => EvidenceOf(C) \in bucket',
           p \in Processes => DeliverOK(p)'
    PROVE  BucketInv'
  <1>0. bucket \subseteq bucket' /\ \A q \in Processes \ {p} : proc'[q] = proc[q]
    BY DEF Step, WorldStep, ProcStep
  <1>1. IndexAfterObject'
    BY <1>0 DEF BucketInv, IndexAfterObject
  <1>2. CommittedIsDurable'
    <2> SUFFICES ASSUME NEW e \in Events, queue'[e].state = "committed"
                 PROVE  {e, IndexOf(e)} \subseteq bucket
      BY <1>0 DEF CommittedIsDurable
    <2>1. Move(e, p) /\ queue[e] \in QueueRecord
      BY RecordIs DEF Step, QueueStep
    <2>2. CASE Keeps(queue[e], queue'[e], p)
      BY <2>2 DEF Keeps, BucketInv, CommittedIsDurable
    <2>3. CASE \E key \in Positions \X Positions : queue'[e] = Queued(queue, key)
      BY <2>3, QueuedIs
    <2>4. CASE Advances(queue[e], queue'[e], p)
      BY <2>4 DEF Advances, Delivery
    <2>5. CASE p \in Processes /\ At(p, "commit") /\ e = proc[p].held
      BY <2>5 DEF BucketInv, DeliverOK, DeliverLabels, At
    <2>6. CASE p \in Processes /\ CanExpand(queue[e], p) /\ queue'[e] = Expanded(queue[e], proc[p].chain)
      <3>1. proc[p].chain \in Chains
        BY <2>6 DEF OutboxInv, TypeOK, ProcessState
      <3> QED BY <2>1, <2>6, <3>1, ExpandedIs
    <2> QED BY <2>1, <2>2, <2>3, <2>4, <2>5, <2>6 DEF Move
  <1>3. \A q \in Processes : DeliverOK(q)'
    <2> SUFFICES ASSUME NEW q \in Processes, q # p PROVE DeliverOK(q)'
      OBVIOUS
    <2> QED BY <1>0 DEF BucketInv, DeliverOK
  <1> QED BY <1>1, <1>2, <1>3 DEF BucketInv

\* A step that does not touch the bucket, and after which its process is not
\* past an upload, keeps it.
LEMMA BucketQuiet ==
    ASSUME OutboxInv, BucketInv, NEW p \in Processes \cup {None}, Step(p), UNCHANGED bucket,
           p \in Processes => proc'[p].pc \notin DeliverLabels \ {"check", "upload"}
    PROVE  BucketInv'
  <1>1. p \in Processes => DeliverOK(p)'
    BY DEF DeliverOK, DeliverLabels
  <1> QED BY <1>1, BucketKept

\* Every step keeps the invariant of the bucket.
LEMMA BucketNext == OutboxInv /\ BucketInv /\ [Next]_vars => BucketInv'
  <1> SUFFICES ASSUME OutboxInv, BucketInv, [Next]_vars PROVE BucketInv'
    OBVIOUS
  <1>1. CASE Grow \/ (\E t \in Trigger : Hook(t)) \/ (\E e \in Events : Expire(e))
    <2>1. Step(None) /\ UNCHANGED bucket
      BY <1>1, GrowStep, HookStep, ExpireStep DEF Grow, Hook, Expire
    <2> QED BY <2>1, ProcessesAssumption, BucketQuiet
  <1>2. ASSUME NEW p \in Processes, RunStep(p) PROVE BucketInv'
    <2>1. Step(p) /\ proc'[p].pc \notin DeliverLabels
      <3>1. CASE RunNext(p) \/ RunClaim(p) \/ RunRelease(p) \/ Plan(p) \/ Snapshot(p)
        BY <3>1, RunNextStep, RunClaimStep, RunReleaseStep, PlanStep, SnapshotStep DEF DeliverLabels
      <3>2. CASE EnqueueChild(p) \/ ClaimChild(p) \/ SnapshotChild(p) \/ Encrypt(p)
        <4>1. \/ proc'[p].pc \in {"fail", "fail-child"}
              \/ \E label \in {"claim-child", "snapshot-child", "encrypt", "release-child"} :
                   proc'[p] = [proc[p] EXCEPT !.pc = label]
          BY <3>2, EnqueueChildStep, ClaimChildStep, SnapshotChildStep, EncryptStep
        <4>2. proc'[p].pc \in {"fail", "fail-child", "claim-child", "snapshot-child", "encrypt",
                               "release-child"}
          BY <4>1 DEF OutboxInv, TypeOK, ProcessState
        <4> QED BY <3>2, <4>2, EnqueueChildStep, ClaimChildStep, SnapshotChildStep, EncryptStep
            DEF DeliverLabels
      <3>3. CASE ReleaseChild(p) \/ Expand(p) \/ FailChild(p) \/ Fail(p)
        BY <3>3, ReleaseChildStep, ExpandStep, FailChildStep, FailStep DEF DeliverLabels
      <3> QED BY <1>2, <3>1, <3>2, <3>3 DEF RunStep
    <2>2. UNCHANGED bucket
      BY <1>2 DEF RunStep, RunNext, RunClaim, RunRelease, Plan, Snapshot, EnqueueChild, ClaimChild,
                  SnapshotChild, Encrypt, ReleaseChild, Expand, FailChild, Fail
    <2> QED BY <2>1, <2>2, BucketQuiet
  <1>3. ASSUME NEW p \in Processes, Upload(p) PROVE BucketInv'
    <2>1. /\ Step(p) /\ bucket' \subseteq bucket \cup {proc[p].held} /\ proc[p].held \in Evidence
          /\ \/ proc'[p].pc \in {"idle", "run", "drain", "fail"}
             \/ /\ proc'[p].pc \in {"mark-uploaded", "put-index", "verify-index"}
                /\ proc'[p].held = proc[p].held /\ proc[p].held \in bucket'
      BY <1>3, UploadStep
    <2>2. \A C \in Chains : <<C, "index">> \notin bucket' \ bucket
      BY <2>1 DEF Evidence
    <2>3. DeliverOK(p)'
      BY <2>1 DEF DeliverOK, DeliverLabels
    <2> QED BY <2>1, <2>2, <2>3, BucketKept
  <1>4. ASSUME NEW p \in Processes, MarkUploaded(p) \/ PublishIndex(p) PROVE BucketInv'
    <2>1. /\ Step(p) /\ UNCHANGED bucket
          /\ \/ proc'[p].pc = "fail"
             \/ MarkUploaded(p) /\ proc'[p].pc = "put-index" /\ proc'[p].held = proc[p].held
             \/ PublishIndex(p) /\ proc'[p].pc = "commit" /\ proc'[p].held = proc[p].held
      BY <1>4, RecordStageStep DEF MarkUploaded, PublishIndex, DeliverLabels
    <2>2. proc[p].pc \in {"mark-uploaded", "publish-index"} /\ (PublishIndex(p) => proc[p].pc = "publish-index")
      BY <1>4 DEF MarkUploaded, PublishIndex, RecordStage, At
    <2>3. DeliverOK(p)'
      BY <2>1, <2>2 DEF BucketInv, DeliverOK, DeliverLabels
    <2> QED BY <2>1, <2>3, BucketKept
  <1>5. ASSUME NEW p \in Processes, PutIndex(p) PROVE BucketInv'
    <2>1. /\ Step(p) /\ bucket' \subseteq bucket \cup {IndexOf(proc[p].held)}
          /\ proc[p].held \in Evidence
          /\ \/ proc'[p].pc = "fail"
             \/ /\ proc'[p].pc = "publish-index" /\ proc'[p].held = proc[p].held
                /\ IndexOf(proc[p].held) \in bucket'
      BY <1>5, PutIndexStep
    <2>2. proc[p].held \in bucket /\ bucket \subseteq bucket'
      BY <1>5, <2>1 DEF PutIndex, At, BucketInv, DeliverOK, DeliverLabels, Step, WorldStep
    <2>3. ASSUME NEW C \in Chains, <<C, "index">> \in bucket' \ bucket PROVE EvidenceOf(C) \in bucket'
      <3>1. IndexOf(proc[p].held) = <<C, "index">>
        BY <2>1, <2>3
      <3>2. C = proc[p].held[1]
        BY <3>1 DEF IndexOf
      <3> QED BY <2>1, <2>2, <3>2, IndexOfIs
    <2>4. DeliverOK(p)'
      BY <2>1, <2>2 DEF DeliverOK, DeliverLabels
    <2> QED BY <2>1, <2>3, <2>4, BucketKept
  <1>6. ASSUME NEW p \in Processes, VerifyIndex(p) PROVE BucketInv'
    <2>1. /\ Step(p) /\ UNCHANGED bucket
          /\ \/ proc'[p].pc = "fail"
             \/ /\ proc'[p].pc = "commit" /\ proc'[p].held = proc[p].held
                /\ IndexOf(proc[p].held) \in bucket
      BY <1>6, VerifyIndexStep
    <2>2. proc[p].held \in bucket
      BY <1>6 DEF VerifyIndex, At, BucketInv, DeliverOK, DeliverLabels
    <2>3. DeliverOK(p)'
      BY <2>1, <2>2 DEF DeliverOK, DeliverLabels
    <2> QED BY <2>1, <2>3, BucketKept
  <1>7. ASSUME NEW p \in Processes,
               \/ DrainNext(p) \/ DrainClaim(p) \/ Check(p) \/ Commit(p)
               \/ \E command \in Commands : Begin(p, command)
               \/ \E command \in Commands, e \in Events : BeginOperator(p, command, e)
               \/ Operate(p) \/ Apply(p) \/ WriteFails(p) \/ Crash(p)
        PROVE  BucketInv'
    <2>1. Step(p) /\ proc'[p].pc \notin DeliverLabels \ {"check", "upload"}
      BY <1>7, DrainNextStep, DrainClaimStep, CheckStep, CommitStep, BeginStep, BeginOperatorStep,
         OperateStep, ApplyStep, WriteFailsStep, CrashStep DEF DeliverLabels
    <2>2. UNCHANGED bucket
      BY <1>7 DEF DrainNext, DrainClaim, Check, Commit, Begin, BeginOperator, Operate, Apply,
                  WriteFails, Crash
    <2> QED BY <2>1, <2>2, BucketQuiet
  <1>8. CASE UNCHANGED vars
    BY <1>8 DEF vars, outbox, BucketInv, IndexAfterObject, CommittedIsDurable, DeliverOK
  <1> QED BY <1>1, <1>2, <1>3, <1>4, <1>5, <1>6, <1>7, <1>8 DEF Next, DrainStep

\* The bucket keeps its invariant.
LEMMA BucketHolds == Spec => []BucketInv
  <1>1. Init => BucketInv
    BY DEF Init, BucketInv, IndexAfterObject, CommittedIsDurable, DeliverOK, DeliverLabels, Absent, Idle
  <1> QED BY <1>1, BucketNext, OutboxHolds, PTL DEF Spec

\* No index in the bucket points at evidence that is missing, however many
\* processes deliver the same records.
THEOREM IndexesFollowObjects == Spec => []IndexAfterObject
  <1>1. BucketInv => IndexAfterObject
    BY DEF BucketInv
  <1> QED BY <1>1, BucketHolds, PTL

\* A committed record has its evidence and its index in the bucket, even if
\* the lease was lost on the way.
THEOREM CommittedStaysDurable == Spec => []CommittedIsDurable
  <1>1. BucketInv => CommittedIsDurable
    BY DEF BucketInv
  <1> QED BY <1>1, BucketHolds, PTL

-----------------------------------------------------------------------------
(* The cursors.                                                            *)

\* What is prepared stays prepared.
LEMMA DeliveryStays ==
    ASSUME OutboxInv, CursorInv, NEW p \in Processes \cup {None}, Step(p),
           NEW e \in Events, queue[e].resume \in Delivery
    PROVE  queue'[e].resume \in Delivery
  <1>1. Move(e, p) /\ queue[e] \in QueueRecord /\ RecordOK(queue[e])
    BY RecordIs DEF Step, QueueStep
  <1>2. CASE Keeps(queue[e], queue'[e], p)
    BY <1>2 DEF Keeps
  <1>3. CASE queue[e].state = "absent"
    BY <1>1, <1>3 DEF RecordOK, Delivery
  <1>4. CASE Advances(queue[e], queue'[e], p)
    BY <1>1, <1>4 DEF Advances, Rank, Delivery, QueueRecord, Stages
  <1>5. CASE CanCommit(queue[e], p) /\ queue'[e] = Committed(queue[e])
    BY <1>1, <1>5, CommittedIs
  <1>6. CASE p \in Processes /\ At(p, "expand") /\ e = proc[p].held /\ CanExpand(queue[e], p)
    BY <1>6 DEF CursorInv, HeldOK, At, CanExpand, HasClaim
  <1> QED BY <1>1, <1>2, <1>3, <1>4, <1>5, <1>6 DEF Move

\* A chain that is covered stays covered.
LEMMA CoveredStays ==
    ASSUME OutboxInv, CursorInv, NEW p \in Processes \cup {None}, Step(p),
           NEW C \in Chains, Covered(queue, C)
    PROVE  Covered(queue', C)
  <1> SUFFICES ASSUME NEW n \in C
               PROVE  LET segment == EvidenceOf({m \in C : m <= n})
                      IN  queue'[segment].resume \in Delivery /\ queue'[IndexOf(segment)].resume \in Delivery
    BY DEF Covered
  <1> DEFINE S == {m \in C : m <= n}
  <1>1. S \in Chains /\ S # {}
    <2>1. n \in S
      BY MaxRecordsAssumption DEF Chains
    <2> QED BY <2>1 DEF Chains
  <1>2. EvidenceOf(S) \in Events /\ IndexOf(EvidenceOf(S)) \in Events
    <2> HIDE DEF S
    <2> QED BY <1>1, EventsAre, IndexOfIs
  <1>3. queue[EvidenceOf(S)].resume \in Delivery /\ queue[IndexOf(EvidenceOf(S))].resume \in Delivery
    BY DEF Covered
  <1> QED BY <1>2, <1>3, DeliveryStays

\* A chain is covered if it is covered below its top and at its top.
LEMMA CoveredAtTop ==
    ASSUME NEW q, NEW C \in Chains, Covered(q, C \ {Top(C)}),
           q[EvidenceOf(C)].resume \in Delivery, q[<<C, "index">>].resume \in Delivery
    PROVE  Covered(q, C)
  <1> SUFFICES ASSUME NEW n \in C
               PROVE  LET segment == EvidenceOf({m \in C : m <= n})
                      IN  q[segment].resume \in Delivery /\ q[IndexOf(segment)].resume \in Delivery
    BY DEF Covered
  <1>1. /\ Top(C) \in Positions /\ \A m \in C : m <= Top(C)
        /\ \A m \in C : m \in Nat
    BY TopIs DEF Chains
  <1>2. CASE n = Top(C)
    <2>1. {m \in C : m <= n} = C
      BY <1>1, <1>2
    <2>2. IndexOf(EvidenceOf(C)) = <<C, "index">>
      BY DEF IndexOf, EvidenceOf
    <2> QED BY <2>1, <2>2
  <1>3. CASE n # Top(C)
    <2>1. {m \in C : m <= n} = {m \in C \ {Top(C)} : m <= n}
      BY <1>1, <1>3, MaxRecordsAssumption DEF Positions
    <2> QED BY <1>3, <2>1 DEF Covered
  <1> QED BY <1>2, <1>3

\* The cursors are covered chains.
LEMMA CursorCoveredIs == CursorCovered <=> \A e \in Events : Covered(queue, queue[e].end)
  BY DEF CursorCovered, Covered

\* A step keeps the invariant of the cursors if its process keeps its part.
LEMMA CursorKept ==
    ASSUME OutboxInv, CursorInv, NEW p \in Processes \cup {None}, Step(p),
           p \in Processes => ChainOK(p)' /\ HeldOK(p)'
    PROVE  CursorInv'
  <1>0. \A q \in Processes \ {p} : proc'[q] = proc[q]
    BY DEF Step, ProcStep
  <1>1. CursorCovered'
    <2> SUFFICES ASSUME NEW e \in Events PROVE Covered(queue', queue'[e].end)
      BY DEF CursorCovered, Covered
    <2>1. /\ Move(e, p) /\ queue[e] \in QueueRecord /\ queue[e].end \in Chains
          /\ Covered(queue, queue[e].end)
      BY RecordIs, CursorCoveredIs DEF Step, QueueStep, QueueRecord, CursorInv
    <2>2. CASE queue'[e].end = queue[e].end
      BY <2>1, <2>2, CoveredStays
    <2>3. CASE \E key \in Positions \X Positions : queue'[e] = Queued(queue, key)
      BY <2>3, QueuedIs DEF Covered
    <2>4. CASE /\ p \in Processes /\ At(p, "expand") /\ CanExpand(queue[e], p)
               /\ queue'[e] = Expanded(queue[e], proc[p].chain)
      <3>1. proc[p].chain \in Chains /\ Covered(queue, proc[p].chain)
        BY <2>4 DEF OutboxInv, TypeOK, ProcessState, CursorInv, ChainOK, At
      <3>2. queue'[e].end = proc[p].chain
        BY <2>1, <2>4, <3>1, ExpandedIs
      <3> QED BY <3>1, <3>2, CoveredStays
    <2>5. \/ queue'[e].end = queue[e].end
          \/ \E key \in Positions \X Positions : queue'[e] = Queued(queue, key)
          \/ /\ p \in Processes /\ At(p, "expand") /\ CanExpand(queue[e], p)
             /\ queue'[e] = Expanded(queue[e], proc[p].chain)
      BY <2>1, CommittedIs DEF Move, Keeps, Advances
    <2> QED BY <2>2, <2>3, <2>4, <2>5
  <1>2. ASSUME NEW q \in Processes, q # p PROVE ChainOK(q)' /\ HeldOK(q)'
    <2>0. proc'[q] = proc[q] /\ ChainOK(q) /\ HeldOK(q) /\ proc[q] \in ProcessState /\ ProcessOK(proc[q])
      BY <1>0, <1>2 DEF CursorInv, OutboxInv, TypeOK
    <2>1. ChainOK(q)'
      <3>1. ASSUME proc[q].pc \in {"snapshot", "expand"} PROVE Covered(queue', proc[q].chain)
        BY <2>0, <3>1, CoveredStays DEF ChainOK, ProcessState
      <3>2. ASSUME proc[q].pc \in ChildLabels \ {"fail-child"}
            PROVE  /\ Covered(queue', proc[q].chain \ {Top(proc[q].chain)})
                   /\ proc[q].kind = "index" => queue'[EvidenceOf(proc[q].chain)].resume \in Delivery
        <4>1. proc[q].chain \in Chains /\ proc[q].chain # {} /\ proc[q].chain \ {Top(proc[q].chain)} \in Chains
          BY <2>0, <3>2 DEF ProcessState, ProcessOK, Chains
        <4>2. EvidenceOf(proc[q].chain) \in Events
          BY <4>1, EventsAre
        <4> QED BY <2>0, <3>2, <4>1, <4>2, CoveredStays, DeliveryStays DEF ChainOK
      <3> QED BY <2>0, <3>1, <3>2 DEF ChainOK
    <2>2. HeldOK(q)'
      <3> DEFINE e == proc[q].held
      <3> SUFFICES ASSUME proc[q].pc \in {"plan", "snapshot", "enqueue", "claim-child", "snapshot-child",
                                          "encrypt", "release-child", "expand"},
                          queue'[e].owner = q, queue'[e].resume \in Delivery
                   PROVE  queue[e].owner = q /\ queue[e].resume \in Delivery
        BY <2>0 DEF HeldOK, Child
      <3>1. e \in Events
        BY <2>0 DEF ProcessOK, HoldLabels, ChildLabels
      <3>2. Move(e, p) /\ queue[e] \in QueueRecord
        BY <3>1, RecordIs DEF Step, QueueStep
      <3>3. q # None /\ q # Gone
        BY ProcessesAssumption
      <3>4. Keeps(queue[e], queue'[e], p)
        <4>1. CASE \E key \in Positions \X Positions : queue'[e] = Queued(queue, key)
          BY <3>3, <4>1, QueuedIs
        <4>2. CASE Advances(queue[e], queue'[e], p)
          BY <1>2, <4>2 DEF Advances
        <4>3. CASE CanCommit(queue[e], p) /\ queue'[e] = Committed(queue[e])
          BY <3>2, <3>3, <4>3, CommittedIs
        <4>4. CASE /\ p \in Processes /\ CanExpand(queue[e], p)
                   /\ queue'[e] = Expanded(queue[e], proc[p].chain)
          <5>1. proc[p].chain \in Chains
            BY <4>4 DEF OutboxInv, TypeOK, ProcessState
          <5> QED BY <3>2, <3>3, <4>4, <5>1, ExpandedIs
        <4> QED BY <3>2, <4>1, <4>2, <4>3, <4>4 DEF Move
      <3> QED BY <1>2, <3>3, <3>4 DEF Keeps
    <2> QED BY <2>1, <2>2
  <1> QED BY <1>1, <1>2 DEF CursorInv

\* A step after which its process works on no segment keeps the cursors.
LEMMA CursorQuiet ==
    ASSUME OutboxInv, CursorInv, NEW p \in Processes \cup {None}, Step(p),
           p \in Processes => proc'[p].pc \notin (ChildLabels \ {"fail-child"}) \cup {"plan", "snapshot", "expand"}
    PROVE  CursorInv'
  <1>1. p \in Processes => ChainOK(p)' /\ HeldOK(p)'
    BY DEF ChainOK, HeldOK, ChildLabels
  <1> QED BY <1>1, CursorKept

\* A run that goes on with the same segment keeps its chain.
LEMMA ChainSame ==
    ASSUME OutboxInv, CursorInv, NEW p \in Processes, Step(p),
           proc[p].pc \in ChildLabels \ {"fail-child"}, NEW label \in ChildLabels \ {"fail-child"},
           proc'[p] = [proc[p] EXCEPT !.pc = label]
    PROVE  ChainOK(p)' /\ proc'[p].pc = label /\ proc'[p].held = proc[p].held /\ Child(p)' = Child(p)
  <1>0. proc[p] \in ProcessState /\ ProcessOK(proc[p]) /\ ChainOK(p)
    BY DEF CursorInv, OutboxInv, TypeOK
  <1>1. /\ proc'[p].pc = label /\ proc'[p].held = proc[p].held
        /\ proc'[p].chain = proc[p].chain /\ proc'[p].kind = proc[p].kind
    BY <1>0 DEF ProcessState
  <1>2. proc[p].chain \in Chains /\ proc[p].chain # {} /\ proc[p].chain \ {Top(proc[p].chain)} \in Chains
    BY <1>0 DEF ProcessState, ProcessOK, Chains
  <1>3. EvidenceOf(proc[p].chain) \in Events
    BY <1>2, EventsAre
  <1>4. /\ Covered(queue', proc[p].chain \ {Top(proc[p].chain)})
        /\ proc[p].kind = "index" => queue'[EvidenceOf(proc[p].chain)].resume \in Delivery
    BY <1>0, <1>2, <1>3, CoveredStays, DeliveryStays DEF ChainOK
  <1>5. label \notin {"snapshot", "expand"}
    BY DEF ChildLabels
  <1> QED BY <1>1, <1>4, <1>5 DEF ChainOK, Child

\* Every step keeps the invariant of the cursors.
LEMMA CursorNext == OutboxInv /\ CursorInv /\ [Next]_vars => CursorInv'
  <1> SUFFICES ASSUME OutboxInv, CursorInv, [Next]_vars PROVE CursorInv'
    OBVIOUS
  <1>1. CASE Grow \/ (\E t \in Trigger : Hook(t)) \/ (\E e \in Events : Expire(e))
    <2>1. Step(None)
      BY <1>1, GrowStep, HookStep, ExpireStep
    <2> QED BY <2>1, ProcessesAssumption, CursorQuiet
  <1>2. ASSUME NEW p \in Processes,
               \/ RunNext(p) \/ RunRelease(p) \/ Expand(p) \/ FailChild(p) \/ Fail(p)
               \/ DrainStep(p) \/ \E command \in Commands : Begin(p, command)
               \/ \E command \in Commands, e \in Events : BeginOperator(p, command, e)
               \/ Operate(p) \/ Apply(p) \/ WriteFails(p) \/ Crash(p)
        PROVE  CursorInv'
    <2>1. DrainStep(p) => /\ Step(p)
                          /\ proc'[p].pc \in {"idle", "run", "drain", "fail", "deny", "drain-claim"} \cup DeliverLabels
      <3>1. MarkUploaded(p) \/ PublishIndex(p) =>
              Step(p) /\ proc'[p].pc \in {"fail", "put-index", "commit"}
        BY RecordStageStep DEF MarkUploaded, PublishIndex, DeliverLabels
      <3> QED BY <3>1, DrainNextStep, DrainClaimStep, CheckStep, UploadStep, PutIndexStep,
                 VerifyIndexStep, CommitStep DEF DrainStep, DeliverLabels
    <2>2. Step(p) /\ proc'[p].pc \notin (ChildLabels \ {"fail-child"}) \cup {"plan", "snapshot", "expand"}
      BY <1>2, <2>1, RunNextStep, RunReleaseStep, ExpandStep, FailChildStep, FailStep, BeginStep,
         BeginOperatorStep, OperateStep, ApplyStep, WriteFailsStep, CrashStep
         DEF ChildLabels, DeliverLabels
    <2> QED BY <2>2, CursorQuiet
  <1>3. ASSUME NEW p \in Processes, RunClaim(p) PROVE CursorInv'
    <2>1. /\ Step(p) /\ proc'[p].pc \in {"idle", "drain", "run-claim", "run-release", "plan"}
          /\ proc'[p].pc = "plan" => queue'[proc'[p].held].resume \notin Delivery
      BY <1>3, RunClaimStep
    <2>2. ChainOK(p)' /\ HeldOK(p)'
      BY <2>1 DEF ChainOK, HeldOK, ChildLabels
    <2> QED BY <2>1, <2>2, CursorKept
  <1>4. ASSUME NEW p \in Processes, Plan(p) PROVE CursorInv'
    <2>1. /\ Step(p) /\ UNCHANGED queue
          /\ \/ proc'[p].pc \in {"fail", "deny"}
             \/ /\ proc'[p].pc = "snapshot" /\ proc'[p].held = proc[p].held
                /\ proc'[p].chain = ResumeChain(proc[p].held)
      BY <1>4, PlanStep
    <2>2. CASE proc'[p].pc \in {"fail", "deny"}
      BY <2>1, <2>2, CursorQuiet DEF ChildLabels
    <2>3. CASE proc'[p].pc = "snapshot"
      <3>0. proc[p].pc = "plan" /\ proc[p].held \in Events
        BY <1>4, HeldIs DEF Plan, At, HoldLabels
      <3>1. Covered(queue, ResumeChain(proc[p].held))
        <4>1. ResumeChain(proc[p].held) = {} \/ \E d \in Events : ResumeChain(proc[p].held) = queue[d].end
          BY <3>0, ResumeChainIs DEF OutboxInv, TypeOK
        <4> QED BY <4>1, CursorCoveredIs DEF CursorInv, Covered
      <3>2. ChainOK(p)'
        BY <2>1, <2>3, <3>1 DEF ChainOK, ChildLabels
      <3>3. HeldOK(p)'
        BY <2>1, <2>3, <3>0 DEF CursorInv, HeldOK
      <3> QED BY <2>1, <3>2, <3>3, CursorKept
    <2> QED BY <2>1, <2>2, <2>3
  <1>5. ASSUME NEW p \in Processes, Snapshot(p) PROVE CursorInv'
    <2>1. /\ Step(p) /\ \A d \in Events : NoNewClaim(d, p)
          /\ \/ proc'[p].pc = "fail"
             \/ /\ proc'[p].pc \in {"enqueue", "expand"} /\ proc'[p].held = proc[p].held
                /\ proc'[p].pc = "enqueue" => /\ proc'[p].kind = "evidence"
                                              /\ proc'[p].chain \ {Top(proc'[p].chain)} = proc[p].chain
                /\ proc'[p].pc = "expand" => proc'[p].chain = proc[p].chain
      BY <1>5, SnapshotStep
    <2>2. CASE proc'[p].pc = "fail"
      BY <2>1, <2>2, CursorQuiet DEF ChildLabels
    <2>3. CASE proc'[p].pc \in {"enqueue", "expand"}
      <3>0. proc[p].pc = "snapshot" /\ proc[p].held \in Events /\ proc[p].chain \in Chains
        BY <1>5, HeldIs DEF Snapshot, At, HoldLabels, ProcessState
      <3>1. Covered(queue', proc[p].chain)
        BY <2>1, <3>0, CoveredStays DEF CursorInv, ChainOK
      <3>2. ChainOK(p)'
        BY <2>1, <2>3, <3>1 DEF ChainOK, ChildLabels
      <3>3. HeldOK(p)'
        BY <2>1, <2>3, <3>0 DEF CursorInv, HeldOK, NoNewClaim
      <3> QED BY <2>1, <3>2, <3>3, CursorKept
    <2> QED BY <2>1, <2>2, <2>3
  <1>6. ASSUME NEW p \in Processes, EnqueueChild(p) \/ ClaimChild(p) \/ SnapshotChild(p) \/ Encrypt(p)
        PROVE  CursorInv'
    <2>1. /\ Step(p)
          /\ \/ proc'[p].pc \in {"fail", "fail-child"}
             \/ /\ proc[p].pc = "enqueue" /\ \A d \in Events : NoNewClaim(d, p)
                /\ proc'[p] = [proc[p] EXCEPT !.pc = "claim-child"]
             \/ /\ proc[p].pc = "claim-child" /\ \A d \in Events \ {Child(p)} : NoNewClaim(d, p)
                /\ proc'[p] = [proc[p] EXCEPT !.pc = "snapshot-child"]
             \/ /\ proc[p].pc = "snapshot-child" /\ \A d \in Events : NoNewClaim(d, p)
                /\ proc'[p] = [proc[p] EXCEPT !.pc = "encrypt"]
             \/ /\ proc[p].pc = "encrypt" /\ \A d \in Events \ {Child(p)} : NoNewClaim(d, p)
                /\ proc'[p] = [proc[p] EXCEPT !.pc = "release-child"]
      <3>1. CASE EnqueueChild(p)
        BY <3>1, EnqueueChildStep DEF EnqueueChild, At
      <3>2. CASE ClaimChild(p)
        BY <3>2, ClaimChildStep DEF ClaimChild, At
      <3>3. CASE SnapshotChild(p)
        BY <3>3, SnapshotChildStep DEF SnapshotChild, At
      <3>4. CASE Encrypt(p)
        BY <3>4, EncryptStep DEF Encrypt, At
      <3> QED BY <1>6, <3>1, <3>2, <3>3, <3>4
    <2>2. CASE proc'[p].pc \in {"fail", "fail-child"}
      BY <2>1, <2>2, CursorQuiet DEF ChildLabels
    <2>3. ASSUME proc[p].pc \in {"enqueue", "claim-child", "snapshot-child", "encrypt"},
                 NEW label \in {"claim-child", "snapshot-child", "encrypt", "release-child"},
                 proc'[p] = [proc[p] EXCEPT !.pc = label],
                 \A d \in Events \ {Child(p)} : NoNewClaim(d, p),
                 \/ proc[p].pc = "enqueue" /\ \A d \in Events : NoNewClaim(d, p)
                 \/ label \in {"snapshot-child", "encrypt", "release-child"}
          PROVE  CursorInv'
      <3>0. /\ proc[p].pc \in ChildLabels \ {"fail-child"} /\ label \in ChildLabels \ {"fail-child"}
            /\ proc[p].held \in Events
        BY <2>3, HeldIs DEF ChildLabels, HoldLabels
      <3>1. ChainOK(p)' /\ proc'[p].pc = label /\ proc'[p].held = proc[p].held /\ Child(p)' = Child(p)
        BY <2>1, <2>3, <3>0, ChainSame
      <3>2. HeldOK(p)'
        <4> SUFFICES ASSUME queue'[proc[p].held].owner = p, queue'[proc[p].held].resume \in Delivery
                     PROVE  label \in {"snapshot-child", "encrypt", "release-child"} /\ Child(p) = proc[p].held
          BY <3>1 DEF HeldOK
        <4>1. CASE proc[p].pc = "enqueue" /\ \A d \in Events : NoNewClaim(d, p)
          BY <3>0, <4>1 DEF CursorInv, HeldOK, NoNewClaim
        <4>2. CASE label \in {"snapshot-child", "encrypt", "release-child"}
          BY <2>3, <3>0, <4>2 DEF CursorInv, HeldOK, NoNewClaim
        <4> QED BY <2>3, <4>1, <4>2
      <3> QED BY <2>1, <3>1, <3>2, CursorKept
    <2> QED BY <2>1, <2>2, <2>3
  <1>7. ASSUME NEW p \in Processes, ReleaseChild(p) PROVE CursorInv'
    <2>1. /\ Step(p) /\ \A d \in Events : NoNewClaim(d, p)
          /\ \/ proc'[p].pc \in {"fail", "fail-child"}
             \/ /\ queue'[Child(p)].owner = None /\ queue'[Child(p)].resume \in Delivery
                /\ proc'[p].held = proc[p].held
                /\ \/ /\ proc[p].kind = "evidence" /\ proc'[p].pc = "enqueue"
                      /\ proc'[p].kind = "index" /\ proc'[p].chain = proc[p].chain
                   \/ /\ proc[p].kind = "index" /\ proc'[p].pc = "expand"
                      /\ proc'[p].chain = proc[p].chain
                   \/ /\ proc[p].kind = "index" /\ proc'[p].pc = "enqueue"
                      /\ proc'[p].kind = "evidence"
                      /\ proc'[p].chain \ {Top(proc'[p].chain)} = proc[p].chain
      BY <1>7, ReleaseChildStep
    <2>2. CASE proc'[p].pc \in {"fail", "fail-child"}
      BY <2>1, <2>2, CursorQuiet DEF ChildLabels
    <2>3. CASE proc'[p].pc \notin {"fail", "fail-child"}
      <3>0. /\ proc[p].pc = "release-child" /\ proc[p].held \in Events
            /\ proc[p].pc \in ChildLabels \ {"fail-child"}
        BY <1>7, HeldIs DEF ReleaseChild, At, HoldLabels, ChildLabels
      <3>1. /\ proc[p].chain \in Chains /\ proc[p].chain # {}
            /\ proc[p].chain \ {Top(proc[p].chain)} \in Chains
        BY <3>0, ChildIs DEF Chains
      <3>2. Covered(queue', proc[p].chain \ {Top(proc[p].chain)})
        BY <2>1, <3>0, <3>1, CoveredStays DEF CursorInv, ChainOK
      <3>3. HeldOK(p)'
        <4>1. ~(queue'[proc[p].held].owner = p /\ queue'[proc[p].held].resume \in Delivery)
          BY <2>1, <2>3, <3>0, ProcessesAssumption DEF CursorInv, HeldOK, NoNewClaim
        <4> QED BY <2>1, <2>3, <4>1 DEF HeldOK
      <3>4. CASE proc[p].kind = "evidence"
        <4>1. queue'[EvidenceOf(proc[p].chain)].resume \in Delivery
          BY <2>1, <2>3, <3>4 DEF Child, EvidenceOf
        <4>2. ChainOK(p)'
          BY <2>1, <2>3, <3>2, <3>4, <4>1 DEF ChainOK, ChildLabels
        <4> QED BY <2>1, <3>3, <4>2, CursorKept
      <3>5. CASE proc[p].kind = "index"
        <4>1. queue'[<<proc[p].chain, "index">>].resume \in Delivery
          BY <2>1, <2>3, <3>5 DEF Child
        <4>2. queue'[EvidenceOf(proc[p].chain)].resume \in Delivery
          BY <2>1, <3>0, <3>1, <3>5, EventsAre, DeliveryStays DEF CursorInv, ChainOK
        <4>3. Covered(queue', proc[p].chain)
          BY <3>1, <3>2, <4>1, <4>2, CoveredAtTop
        <4>4. ChainOK(p)'
          BY <2>1, <2>3, <3>5, <4>3 DEF ChainOK, ChildLabels
        <4> QED BY <2>1, <3>3, <4>4, CursorKept
      <3> QED BY <2>1, <2>3, <3>4, <3>5
    <2> QED BY <2>2, <2>3
  <1>8. CASE UNCHANGED vars
    BY <1>8 DEF vars, outbox, CursorInv, CursorCovered, ChainOK, HeldOK, Covered, Child
  <1> QED BY <1>1, <1>2, <1>3, <1>4, <1>5, <1>6, <1>7, <1>8 DEF Next, RunStep

\* The cursor of an expanded trigger skips nothing: every segment behind it,
\* and its index, is prepared or further, whatever other processes, retries
\* and expired leases did meanwhile.
THEOREM CursorsSkipNothing == Spec => []CursorCovered
  <1>1. Init => CursorInv
    BY DEF Init, CursorInv, CursorCovered, ChainOK, HeldOK, ChildLabels, Absent, Idle
  <1>2. CursorInv => CursorCovered
    BY DEF CursorInv
  <1> QED BY <1>1, <1>2, CursorNext, OutboxHolds, PTL DEF Spec
=============================================================================
