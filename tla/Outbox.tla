------------------------------- MODULE Outbox -------------------------------
(***************************************************************************)
(* The local evidence outbox (josh_room/pcc_outbox.py): one queue record   *)
(* per event, with a state, the stage to resume from, an owner and a lease,*)
(* and beside it the prepared ciphertext.  Every operation reads and       *)
(* rewrites one record under the lock file, so each is atomic; these       *)
(* operators give the new value of a record, or say when it is refused.    *)
(*                                                                         *)
(* The events are the triggers that hooks report for one session and, for  *)
(* each segment of its transcript, an evidence and an index event.  A      *)
(* segment's id is a digest of its records and of the segment before it,   *)
(* so a segment is its chain: the set of positions at which the transcript *)
(* was cut, up to and including its own end.                               *)
(***************************************************************************)
EXTENDS Integers, FiniteSets

CONSTANTS
    Triggers,    \* trigger ids
    MaxRecords,  \* bound: records the transcript grows to
    Processes    \* harvest processes that may run at the same time

ASSUME MaxRecordsAssumption == MaxRecords \in Nat

Positions == 0 .. MaxRecords
Chains    == SUBSET (1 .. MaxRecords)

Trigger  == Triggers \X {"trigger"}
Evidence == (Chains \ {{}}) \X {"evidence"}
Index    == (Chains \ {{}}) \X {"index"}
Events   == Trigger \cup Evidence \cup Index

EvidenceOf(C) == <<C, "evidence">>
IndexOf(e) == <<e[1], "index">>

\* The position up to which a chain covers the transcript.
Top(C) == CHOOSE n \in C \cup {0} : \A m \in C : m <= n

\* The cursor a record carries: where its segment starts and ends.
Zero == <<0, 0>>
Span(C) == <<Top(C \ {Top(C)}), Top(C)>>

None == "none"   \* no owner
Gone == "gone"   \* an owner whose process has ended or has moved on

\* No process is called by one of these names.
ASSUME ProcessesAssumption == None \notin Processes /\ Gone \notin Processes

\* The stages of a record, in order.  A trigger ends expanded.
Rank == [stage \in {"queued", "source-snapshotted", "prepared-encrypted", "object-uploaded",
                    "index-published", "trigger-expanded"} |->
           CASE stage = "queued"             -> 0
             [] stage = "source-snapshotted" -> 1
             [] stage = "prepared-encrypted" -> 2
             [] stage = "object-uploaded"    -> 3
             [] stage = "index-published"    -> 4
             [] OTHER                        -> 5]
Stages == DOMAIN Rank

Delivery == {"prepared-encrypted", "object-uploaded", "index-published"}
Final    == {"committed", "quarantined", "policy-denied", "trigger-expanded"}
States   == Stages \cup Final \cup {"claimed", "retryable-failure", "capture-gap", "absent"}

QueueRecord == [state  : States,
                resume : Stages,
                owner  : Processes \cup {None, Gone},
                live   : BOOLEAN,                \* the lease has not expired
                seq    : Nat,
                key    : Positions \X Positions, \* the cursor (checkpoint)
                end    : Chains]                 \* expanded_checkpoint of a trigger

Absent == [state |-> "absent", resume |-> "queued", owner |-> None, live |-> FALSE,
           seq |-> 0, key |-> Zero, end |-> {}]

-----------------------------------------------------------------------------
\* The states that new triggers with the same cursor are merged into.
Coalescing == {"queued", "retryable-failure", "capture-gap"}

Claimable(r) == /\ r.state \in Coalescing \cup Delivery \cup {"source-snapshotted"}
                /\ r.owner = None

Owned == {"claimed", "source-snapshotted"} \cup Delivery

\* takeover, and claim_specific with takeover=True.
Takeable(r) == r.state \in Owned /\ r.owner # None /\ ~r.live

\* _require_claim
HasClaim(r, p) == r.state \in Owned /\ r.owner = p /\ r.live

\* [Faulty variant] A retried record starts again from the beginning.
ClaimRestart(r, p) ==
    [r EXCEPT !.state = "claimed", !.owner = p, !.live = TRUE, !.resume = "queued"]

\* claim_specific of a claimable record
Claim(r, p) ==
    [r EXCEPT !.state = "claimed", !.owner = p, !.live = TRUE,
              !.resume = IF r.state \in {"retryable-failure", "capture-gap"} THEN @ ELSE r.state]

Takeover(r, p) == [r EXCEPT !.owner = p, !.live = TRUE]

\* _next_state_valid for the stages of a delivery
Successor(r, stage) == Rank[stage] = Rank[r.resume] + 1

\* transition to the next stage; asking for the present state changes nothing.
Advanced(r, stage) == IF r.state = stage THEN r
                      ELSE [r EXCEPT !.state = stage, !.resume = stage]
CanAdvance(r, p, stage) == HasClaim(r, p) /\ (r.state = stage \/ Successor(r, stage))

\* transition to retryable-failure, quarantined, policy-denied or capture-gap
Stopped(r, state) == [r EXCEPT !.state = state, !.owner = None, !.live = FALSE]

\* transition to committed
CanCommit(r, p) == HasClaim(r, p) /\ r.resume = "index-published"
Committed(r) == [r EXCEPT !.state = "committed", !.owner = None, !.live = FALSE]

\* release, once the ciphertext is published
CanRelease(r, p, ready) ==
    /\ ready
    /\ r.resume = "prepared-encrypted"
    /\ \/ r.owner = None /\ r.state = "prepared-encrypted"
       \/ HasClaim(r, p) /\ r.state \in {"claimed", "prepared-encrypted"}

\* [Faulty variant] The state is not one of QueueState.
ReleasedMisnamed(r) == [r EXCEPT !.state = "prepared", !.owner = None, !.live = FALSE]

Released(r) == [r EXCEPT !.state = "prepared-encrypted", !.owner = None, !.live = FALSE]

\* expand: the trigger is finished, its new cursor recorded.
CanExpand(r, p) == HasClaim(r, p) /\ r.state \in {"claimed", "source-snapshotted"}
Expanded(r, chain) ==
    [r EXCEPT !.state = "trigger-expanded", !.resume = "trigger-expanded",
              !.owner = None, !.live = FALSE, !.end = chain]

-----------------------------------------------------------------------------
Present(queue) == {e \in Events : queue[e].state # "absent"}

\* A new record gets the next sequence number.
NextSequence(queue) ==
    1 + (CHOOSE n \in {0} \cup {queue[e].seq : e \in Events} : \A e \in Events : queue[e].seq <= n)
Queued(queue, key) ==
    [Absent EXCEPT !.state = "queued", !.seq = NextSequence(queue), !.key = key]

\* Records are examined in the order of their sequence numbers.
First(queue, S) == CHOOSE e \in S : \A d \in S : queue[e].seq <= queue[d].seq

\* The records that a trigger, which carries the cursor Zero, is merged into.
Hosts(queue) == {e \in Present(queue) : queue[e].key = Zero /\ queue[e].state \in Coalescing}

\* A process that ends an iteration never uses that owner token again.
Abandon(queue, p) ==
    [e \in Events |-> IF queue[e].owner = p THEN [queue[e] EXCEPT !.owner = Gone] ELSE queue[e]]
=============================================================================
