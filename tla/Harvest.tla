------------------------------ MODULE Harvest ------------------------------
(***************************************************************************)
(* josh-room harvest: processes that turn the triggers of one session into *)
(* prepared evidence (run), deliver it to the bucket (drain), do both on a *)
(* timer (schedule: harvest run --drain --limit 100), or act for an        *)
(* operator (retry, quarantine), while hooks report triggers and the       *)
(* transcript grows.  One action per outbox operation or provider request. *)
(*                                                                         *)
(* A process draws a new owner token for each record it picks.  Here it    *)
(* uses its own name and gives up the name (Abandon) when it moves on.     *)
(***************************************************************************)
EXTENDS Outbox

CONSTANTS
    SegmentRecords, \* max_segment_records
    MaxSegments,    \* _MAX_CHILD_EVENTS, in segments of one run
    Limit,          \* --limit of the scheduled command
    Commands,       \* the commands that are started
    Faults,         \* what may go wrong
    MaxFaults       \* bound: how often

CommandNames == {"run", "drain", "schedule", "retry", "quarantine"}

\*   source   the transcript cannot be planned or opened
\*   policy   the policy denies a trigger or a publication
\*   encrypt  encryption fails
\*   quota    the queue or the prepared bytes are at their limit
\*   storage  an outbox write fails
\*   upload   a provider request fails, after or before it was applied
\*   expire   a lease runs out before its owner is finished
\*   crash    a process dies
FaultNames == {"source", "policy", "encrypt", "quota", "storage", "upload", "expire", "crash"}

ASSUME HarvestAssumption ==
    /\ SegmentRecords \in Nat \ {0} /\ MaxSegments \in Nat /\ Limit \in Nat /\ MaxFaults \in Nat
    /\ Commands \subseteq CommandNames /\ Faults \subseteq FaultNames

VARIABLES
    queue,      \* the queue record of each event
    prepared,   \* its prepared ciphertext: none, ciphertext only, or ready
    bucket,     \* evidence and index objects at the provider
    length,     \* records of the transcript
    host,       \* the record each accepted trigger was stored in
    proc,       \* the state of each process
    faults      \* faults that may still happen

outbox == <<queue, prepared>>
world  == <<length, host>>
vars   == <<outbox, bucket, world, proc, faults>>

Nobody == <<{}, "nobody">>

Labels == {"idle", "run", "run-claim", "run-release", "plan", "snapshot", "enqueue",
           "claim-child", "snapshot-child", "encrypt", "release-child", "expand", "fail-child",
           "fail", "deny", "drain", "drain-claim", "check", "upload", "mark-uploaded",
           "put-index", "publish-index", "verify-index", "commit", "operate", "apply"}

ProcessState ==
    [pc      : Labels,
     command : CommandNames \cup {None},
     loop    : {"idle", "run", "drain"},   \* the loop an iteration returns to
     left    : 0 .. (Limit + 1),           \* iterations left
     ok      : BOOLEAN,                    \* no iteration of run failed
     tried   : SUBSET Events,              \* records this drain has attempted
     picked  : SUBSET Events,              \* candidates it read
     stale   : SUBSET Events,              \* of these, the ones with an expired owner
     held    : Events \cup {Nobody},       \* the record it works on
     chain   : Chains,                     \* the segment it works on
     kind    : {"evidence", "index"},
     last    : Positions,                  \* the end of the transcript it opened
     made    : Nat]                        \* segments it has prepared

Idle == [pc |-> "idle", command |-> None, loop |-> "idle", left |-> 0, ok |-> TRUE,
         tried |-> {}, picked |-> {}, stale |-> {}, held |-> Nobody, chain |-> {},
         kind |-> "evidence", last |-> 0, made |-> 0]

Init ==
    /\ queue = [e \in Events |-> Absent]
    /\ prepared = [e \in Events |-> "none"]
    /\ bucket = {}
    /\ length = 0
    /\ host = [t \in Trigger |-> Nobody]
    /\ proc = [p \in Processes |-> Idle]
    /\ faults = MaxFaults

-----------------------------------------------------------------------------
At(p, label) == proc[p].pc = label

Goto(p, label) == proc' = [proc EXCEPT ![p].pc = label]

Write(e, r) == queue' = [queue EXCEPT ![e] = r]

Fault(f) == f \in Faults /\ faults > 0 /\ faults' = faults - 1

\* An iteration of run or drain is over; q is the queue it leaves behind.
EndIteration(p, q, success) ==
    /\ queue' = Abandon(q, p)
    /\ proc' = [proc EXCEPT ![p] =
                 [Idle EXCEPT !.pc = proc[p].loop, !.loop = proc[p].loop,
                              !.command = proc[p].command, !.left = proc[p].left - 1,
                              !.ok = proc[p].ok /\ success, !.tried = proc[p].tried]]

\* The command is over, or its process dies.
EndCommand(p, q) ==
    /\ queue' = Abandon(q, p)
    /\ proc' = [proc EXCEPT ![p] = Idle]

Child(p) == <<proc[p].chain, proc[p].kind>>

\* inspect quarantines a ciphertext that has no record.
Swept == [e \in Events |-> IF prepared[e] = "ciphertext" THEN "none" ELSE prepared[e]]

-----------------------------------------------------------------------------
(* The session and its hooks.                                              *)

Grow ==
    /\ length < MaxRecords
    /\ length' = length + 1
    /\ UNCHANGED <<outbox, bucket, host, proc, faults>>

\* process_codex_hook: one that is merged changes only the host's event-id
\* list; one that has a record of its own is a duplicate.
Hook(t) ==
    /\ queue[t].state = "absent"
    /\ IF Hosts(queue) = {}
       THEN Write(t, Queued(queue, Zero)) /\ host' = [host EXCEPT ![t] = t]
       ELSE UNCHANGED queue /\ host' = [host EXCEPT ![t] = First(queue, Hosts(queue))]
    /\ UNCHANGED <<prepared, bucket, length, proc, faults>>

-----------------------------------------------------------------------------
(* run                                                                     *)

\* The command line, or the timer.  The default limit is one record.
Begin(p, command) ==
    /\ At(p, "idle") /\ command \in Commands \cap {"run", "drain", "schedule"}
    /\ LET loop == IF command = "drain" THEN "drain" ELSE "run"
       IN  proc' = [proc EXCEPT ![p] =
                     [Idle EXCEPT !.pc = loop, !.loop = loop, !.command = command,
                                  !.left = IF command = "schedule" THEN Limit ELSE 1]]
    /\ UNCHANGED <<outbox, bucket, world, faults>>

\* The result of run.  The scheduled command drains only after a run without
\* failures.
EndRun(p) ==
    IF proc[p].command = "schedule" /\ proc[p].ok
    THEN proc' = [proc EXCEPT ![p] = [Idle EXCEPT !.pc = "drain", !.loop = "drain",
                                                  !.command = "schedule", !.left = Limit]]
    ELSE proc' = [proc EXCEPT ![p] = Idle]

\* [Faulty variant] A record that failed is not considered again.
RunnableOnce(r, e) == r.state = "queued" /\ e[2] # "index"

\* _claim_prepare: the records that run considers.
Runnable(r, e) == r.state \in Coalescing /\ e[2] # "index"

RunNext(p) ==
    /\ At(p, "run")
    /\ LET candidates == {e \in Events : Runnable(queue[e], e)}
       IN  IF proc[p].left = 0 \/ candidates = {} THEN EndRun(p)
           ELSE proc' = [proc EXCEPT ![p].pc = "run-claim", ![p].picked = candidates]
    /\ prepared' = Swept
    /\ UNCHANGED <<queue, bucket, world, faults>>

\* claim_specific on each candidate in turn.  One that somebody owns by now
\* raises LeaseConflict, which ends the command.
RunClaim(p) ==
    /\ At(p, "run-claim")
    /\ IF proc[p].picked = {} THEN EndRun(p) /\ UNCHANGED queue
       ELSE LET e == First(queue, proc[p].picked)
                r == queue[e]
            IN  CASE Claimable(r) ->
                       /\ Write(e, Claim(r, p))
                       /\ proc' = [proc EXCEPT ![p].held = e, ![p].picked = {},
                            ![p].pc = IF r.resume \in Delivery THEN "run-release" ELSE "plan"]
                  [] ~Claimable(r) /\ r.owner = None ->
                       proc' = [proc EXCEPT ![p].picked = @ \ {e}] /\ UNCHANGED queue
                  [] OTHER -> EndCommand(p, queue)
    /\ UNCHANGED <<prepared, bucket, world, faults>>

\* A record that is prepared already only goes back to the queue.
RunRelease(p) ==
    /\ At(p, "run-release")
    /\ LET e == proc[p].held
           r == queue[e]
       IN  CASE r.owner # p -> EndIteration(p, queue, TRUE)
             [] r.owner = p /\ CanRelease(r, p, prepared[e] = "ready") ->
                  EndIteration(p, [queue EXCEPT ![e] = Released(r)], TRUE)
             [] OTHER -> Goto(p, "fail") /\ UNCHANGED queue
    /\ UNCHANGED <<prepared, bucket, world, faults>>

\* _resume_state: the chain of the latest expanded record before this one.
Predecessors(e) == {d \in Events : queue[d].state = "trigger-expanded" /\ queue[d].seq < queue[e].seq}
ResumeChain(e) ==
    IF Predecessors(e) = {} THEN {}
    ELSE queue[CHOOSE d \in Predecessors(e) :
                 \A c \in Predecessors(e) : queue[c].seq <= queue[d].seq].end

\* The normaliser cuts a segment when it is full or at the end.
NextChain(chain, last) ==
    chain \cup {IF Top(chain) + SegmentRecords < last THEN Top(chain) + SegmentRecords ELSE last}

\* prepare: the policy's decision, then plan and open the transcript.
Plan(p) ==
    /\ At(p, "plan")
    /\ \/ /\ proc' = [proc EXCEPT ![p].pc = "snapshot", ![p].last = length,
                                  ![p].chain = ResumeChain(proc[p].held)]
          /\ UNCHANGED faults
       \/ Fault("policy") /\ Goto(p, "deny")
       \/ Fault("source") /\ Goto(p, "fail")
    /\ prepared' = Swept
    /\ UNCHANGED <<queue, bucket, world>>

\* The first or next segment, unless there is none or there are too many.
NextSegment(r) ==
    IF Top(r.chain) >= r.last THEN [r EXCEPT !.pc = "expand"]
    ELSE IF r.made >= MaxSegments THEN [r EXCEPT !.pc = "fail"]
    ELSE [r EXCEPT !.pc = "enqueue", !.kind = "evidence", !.chain = NextChain(@, r.last)]

\* Only a record that resumes from queued is written.
Snapshot(p) ==
    /\ At(p, "snapshot")
    /\ LET r == queue[proc[p].held]
       IN  IF r.owner = p /\ (r.resume = "queued" => CanAdvance(r, p, "source-snapshotted"))
           THEN /\ IF r.resume = "queued" THEN Write(proc[p].held, Advanced(r, "source-snapshotted"))
                                          ELSE UNCHANGED queue
                /\ proc' = [proc EXCEPT ![p] = NextSegment(@)]
           ELSE Goto(p, "fail") /\ UNCHANGED queue
    /\ UNCHANGED <<prepared, bucket, world, faults>>

\* enqueue_trigger for a child, without merging.  An index event carries the
\* cursor of the record the process works on; one that is there with another
\* cursor, or as a capture gap, fails.
EnqueueChild(p) ==
    /\ At(p, "enqueue")
    /\ LET e   == Child(p)
           key == IF e[2] = "index" THEN queue[proc[p].held].key ELSE Span(e[1])
       IN  \/ /\ queue[e].state = "absent"
              /\ Write(e, Queued(queue, key)) /\ Goto(p, "claim-child") /\ UNCHANGED faults
           \/ /\ queue[e].state # "absent"
              /\ Goto(p, IF queue[e].state # "capture-gap" /\ queue[e].key = key
                         THEN "claim-child" ELSE "fail")
              /\ UNCHANGED <<queue, faults>>
           \/ /\ queue[e].state = "absent" /\ Fault("quota")
              /\ Goto(p, "fail") /\ UNCHANGED queue
    /\ UNCHANGED <<prepared, bucket, world>>

\* claim_specific without takeover: anything but a claimable record fails.
ClaimChild(p) ==
    /\ At(p, "claim-child")
    /\ IF Claimable(queue[Child(p)])
       THEN Write(Child(p), Claim(queue[Child(p)], p)) /\ Goto(p, "snapshot-child")
       ELSE Goto(p, "fail") /\ UNCHANGED queue
    /\ UNCHANGED <<prepared, bucket, world, faults>>

SnapshotChild(p) ==
    /\ At(p, "snapshot-child")
    /\ LET r == queue[Child(p)]
       IN  CASE r.resume # "queued" -> Goto(p, "encrypt") /\ UNCHANGED queue
             [] r.resume = "queued" /\ CanAdvance(r, p, "source-snapshotted") ->
                  Write(Child(p), Advanced(r, "source-snapshotted")) /\ Goto(p, "encrypt")
             [] OTHER -> Goto(p, "fail") /\ UNCHANGED queue
    /\ UNCHANGED <<prepared, bucket, world, faults>>

\* [Faulty variant] The queue record is written before the prepared record.
PublishCiphertext(e) == prepared' = [prepared EXCEPT ![e] = "ciphertext"]

\* _publish_file_unlocked: the ciphertext, then its record.
PublishPrepared(e) == prepared' = [prepared EXCEPT ![e] = "ready"]

\* The child may be encrypted: it is owned, snapshotted and has no ciphertext.
CanPrepare(p) == /\ HasClaim(queue[Child(p)], p)
                 /\ queue[Child(p)].resume = "source-snapshotted"
                 /\ prepared[Child(p)] = "none"

\* encrypt_and_prepare and prepare_encrypted_file.  A child that is prepared
\* already needs nothing; an existing ciphertext is a conflict; at the byte
\* limit the child becomes a capture gap.
Encrypt(p) ==
    /\ At(p, "encrypt")
    /\ LET e == Child(p)
           r == queue[e]
       IN  \/ /\ CanPrepare(p)
              /\ PublishPrepared(e) /\ Write(e, Advanced(r, "prepared-encrypted"))
              /\ Goto(p, "release-child") /\ UNCHANGED faults
           \/ /\ ~CanPrepare(p)
              /\ Goto(p, IF r.owner = p /\ r.resume \in Delivery THEN "release-child" ELSE "fail-child")
              /\ UNCHANGED <<outbox, faults>>
           \/ /\ HasClaim(r, p) /\ r.resume = "source-snapshotted" /\ Fault("quota")
              /\ Write(e, Stopped(r, "capture-gap"))
              /\ Goto(p, "fail-child") /\ UNCHANGED prepared
           \/ /\ r.resume \notin Delivery /\ Fault("encrypt")
              /\ Goto(p, "fail-child") /\ UNCHANGED outbox
    /\ UNCHANGED <<bucket, world>>

\* prepared_path and release; then the index of this segment, or the next one.
ReleaseChild(p) ==
    /\ At(p, "release-child")
    /\ LET e == Child(p)
       IN  IF CanRelease(queue[e], p, prepared[e] = "ready")
           THEN /\ Write(e, Released(queue[e]))
                /\ proc' = [proc EXCEPT ![p] =
                     IF e[2] = "evidence" THEN [@ EXCEPT !.pc = "enqueue", !.kind = "index"]
                                       ELSE NextSegment([@ EXCEPT !.made = proc[p].made + 1])]
           ELSE Goto(p, "fail-child") /\ UNCHANGED queue
    /\ UNCHANGED <<prepared, bucket, world, faults>>

\* [Faulty variant] The cursor is the end of the transcript at expansion.
CursorPresent(p) == proc[p].chain \cup {length}

\* The cursor of the stream that was normalised.
Cursor(p) == proc[p].chain

\* With children the trigger is expanded; without, it is retried as an empty
\* capture, which run reports as a failure.
Expand(p) ==
    /\ At(p, "expand")
    /\ LET e == proc[p].held
           r == queue[e]
       IN  CASE proc[p].made = 0 /\ HasClaim(r, p) ->
                  EndIteration(p, [queue EXCEPT ![e] = Stopped(r, "retryable-failure")], FALSE)
             [] proc[p].made > 0 /\ CanExpand(r, p) ->
                  EndIteration(p, [queue EXCEPT ![e] = Expanded(r, Cursor(p))], TRUE)
             [] OTHER -> Goto(p, "fail") /\ UNCHANGED queue
    /\ UNCHANGED <<prepared, bucket, world, faults>>

\* The handler around a child: retry it if it is still owned and unprepared.
FailChild(p) ==
    /\ At(p, "fail-child")
    /\ LET r == queue[Child(p)]
       IN  IF HasClaim(r, p) /\ r.state \in {"claimed", "source-snapshotted"}
           THEN Write(Child(p), Stopped(r, "retryable-failure")) ELSE UNCHANGED queue
    /\ Goto(p, "fail")
    /\ UNCHANGED <<prepared, bucket, world, faults>>

\* The handlers of run and drain: retry the record, or deny it.  If the lease
\* is lost or the write fails, the error is swallowed.
Fail(p) ==
    /\ At(p, "fail") \/ At(p, "deny")
    /\ LET e == proc[p].held
           r == queue[e]
           state == IF At(p, "deny") THEN "policy-denied" ELSE "retryable-failure"
       IN  \/ /\ HasClaim(r, p) /\ UNCHANGED faults
              /\ EndIteration(p, [queue EXCEPT ![e] = Stopped(r, state)], FALSE)
           \/ /\ ~HasClaim(r, p) /\ UNCHANGED faults
              /\ EndIteration(p, queue, FALSE)
           \/ Fault("storage") /\ EndIteration(p, queue, FALSE)
    /\ UNCHANGED <<prepared, bucket, world>>

-----------------------------------------------------------------------------
(* drain                                                                   *)

\* _claim_prepared: prepared records that are free or whose lease expired.
Drainable(r, e) == e[2] # "index" /\ r.resume \in Delivery /\ (r.owner = None \/ ~r.live)

DrainNext(p) ==
    /\ At(p, "drain")
    /\ LET candidates == {e \in Events \ proc[p].tried : Drainable(queue[e], e)}
       IN  IF proc[p].left = 0 \/ candidates = {} THEN proc' = [proc EXCEPT ![p] = Idle]
           ELSE proc' = [proc EXCEPT ![p].pc = "drain-claim", ![p].picked = candidates,
                           ![p].stale = {e \in candidates : queue[e].owner # None}]
    /\ prepared' = Swept
    /\ UNCHANGED <<queue, bucket, world, faults>>

\* claim_specific on each candidate, with takeover for those seen owned.
DrainClaim(p) ==
    /\ At(p, "drain-claim")
    /\ IF proc[p].picked = {} THEN EndCommand(p, queue)
       ELSE LET e == First(queue, proc[p].picked)
                r == queue[e]
                takeover == e \in proc[p].stale /\ Takeable(r)
            IN  CASE Claimable(r) \/ takeover ->
                       /\ Write(e, IF takeover THEN Takeover(r, p) ELSE Claim(r, p))
                       /\ proc' = [proc EXCEPT ![p].held = e, ![p].picked = {}, ![p].stale = {},
                                               ![p].tried = @ \cup {e}, ![p].pc = "check"]
                  [] ~Claimable(r) /\ r.owner = None ->
                       proc' = [proc EXCEPT ![p].picked = @ \ {e}] /\ UNCHANGED queue
                  [] OTHER -> EndCommand(p, queue)
    /\ UNCHANGED <<prepared, bucket, world, faults>>

\* _publication_allowed, and the index event that _publish_default requires.
Check(p) ==
    /\ At(p, "check")
    /\ LET index == IndexOf(proc[p].held)
       IN  \/ /\ Goto(p, IF prepared[index] = "ready" /\ queue[index].state # "absent"
                         THEN "upload" ELSE "fail")
              /\ UNCHANGED faults
           \/ Fault("policy") /\ Goto(p, "deny")
    /\ UNCHANGED <<outbox, bucket, world>>

\* [Faulty variant] The object is not read back.
PutUnverified(o) == bucket' \in {bucket, bucket \cup {o}}

\* _put_evidence: the object is there when the request reports success.
Put(o) == bucket' = bucket \cup {o}

\* put_evidence_file: create-only, verified by reading back.  How it goes on
\* depends on the stage that was read before the upload; a record that
\* somebody else has committed meanwhile needs nothing more.
Upload(p) ==
    /\ At(p, "upload")
    /\ LET e == proc[p].held
           r == queue[e]
           can == r.state # "committed" /\ r.owner = p /\ prepared[e] = "ready"
       IN  \/ /\ can
              /\ Put(e)
              /\ Goto(p, CASE r.resume = "prepared-encrypted" -> "mark-uploaded"
                           [] r.resume = "object-uploaded"    -> "put-index"
                           [] OTHER                           -> "verify-index")
              /\ UNCHANGED <<queue, faults>>
           \/ /\ can /\ Fault("upload")
              /\ bucket' \in {bucket, bucket \cup {e}}
              /\ Goto(p, "fail") /\ UNCHANGED queue
           \/ /\ ~can
              /\ IF r.state = "committed" THEN EndIteration(p, queue, TRUE)
                                          ELSE Goto(p, "fail") /\ UNCHANGED queue
              /\ UNCHANGED <<bucket, faults>>
    /\ UNCHANGED <<prepared, world>>

\* mark_uploaded and publish_index
RecordStage(p, at, stage, next) ==
    /\ At(p, at)
    /\ LET e == proc[p].held
       IN  IF CanAdvance(queue[e], p, stage)
           THEN Write(e, Advanced(queue[e], stage)) /\ Goto(p, next)
           ELSE Goto(p, "fail") /\ UNCHANGED queue
    /\ UNCHANGED <<prepared, bucket, world, faults>>

MarkUploaded(p) == RecordStage(p, "mark-uploaded", "object-uploaded", "put-index")
PublishIndex(p) == RecordStage(p, "publish-index", "index-published", "commit")

\* put_evidence_index_file
PutIndex(p) ==
    /\ At(p, "put-index")
    /\ LET index == IndexOf(proc[p].held)
       IN  \/ /\ Put(index)
              /\ Goto(p, "publish-index") /\ UNCHANGED faults
           \/ /\ Fault("upload")
              /\ bucket' \in {bucket, bucket \cup {index}}
              /\ Goto(p, "fail")
    /\ UNCHANGED <<outbox, world>>

\* A record that was index-published before: the index must be there.
VerifyIndex(p) ==
    /\ At(p, "verify-index")
    /\ \/ /\ Goto(p, IF IndexOf(proc[p].held) \in bucket THEN "commit" ELSE "fail")
          /\ UNCHANGED faults
       \/ Fault("upload") /\ Goto(p, "fail")
    /\ UNCHANGED <<outbox, bucket, world>>

Commit(p) ==
    /\ At(p, "commit")
    /\ LET e == proc[p].held
           r == queue[e]
       IN  CASE CanCommit(r, p) -> EndIteration(p, [queue EXCEPT ![e] = Committed(r)], TRUE)
             [] ~CanCommit(r, p) /\ r.state = "committed" -> EndIteration(p, queue, TRUE)
             [] OTHER -> Goto(p, "fail") /\ UNCHANGED queue
    /\ UNCHANGED <<prepared, bucket, world, faults>>

-----------------------------------------------------------------------------
(* retry and quarantine by an operator                                     *)

\* A denied record is quarantined at once; the others are claimed first.
BeginOperator(p, command, e) ==
    /\ At(p, "idle") /\ command \in Commands \cap {"retry", "quarantine"}
    /\ \/ /\ queue[e].state \in {"retryable-failure", "capture-gap"}
          /\ proc' = [proc EXCEPT ![p].pc = "operate", ![p].command = command, ![p].held = e]
          /\ UNCHANGED queue
       \/ /\ command = "quarantine" /\ queue[e].state = "policy-denied"
          /\ Write(e, [queue[e] EXCEPT !.state = "quarantined"])
          /\ UNCHANGED proc
    /\ UNCHANGED <<prepared, bucket, world, faults>>

Operate(p) ==
    /\ At(p, "operate")
    /\ LET e == proc[p].held
           r == queue[e]
       IN  IF Claimable(r) \/ Takeable(r)
           THEN /\ Write(e, IF Claimable(r) THEN Claim(r, p) ELSE Takeover(r, p))
                /\ Goto(p, "apply")
           ELSE EndCommand(p, queue)
    /\ UNCHANGED <<prepared, bucket, world, faults>>

Apply(p) ==
    /\ At(p, "apply")
    /\ LET e == proc[p].held
           r == queue[e]
           state == IF proc[p].command = "retry" THEN "retryable-failure" ELSE "quarantined"
       IN  EndCommand(p, IF HasClaim(r, p) THEN [queue EXCEPT ![e] = Stopped(r, state)] ELSE queue)
    /\ UNCHANGED <<prepared, bucket, world, faults>>

-----------------------------------------------------------------------------
(* Faults.                                                                 *)

\* A queue record cannot be written; its ciphertext may have been published.
\* (A write that is applied and then reported as failed leaves what a
\* failure of the next write leaves.)
WriteFails(p) ==
    /\ Fault("storage")
    /\ \/ /\ proc[p].pc \in {"snapshot", "enqueue", "claim-child", "snapshot-child", "expand",
                             "run-release", "mark-uploaded", "publish-index", "commit"}
          /\ Goto(p, "fail") /\ UNCHANGED prepared
       \/ At(p, "release-child") /\ Goto(p, "fail-child") /\ UNCHANGED prepared
       \/ /\ At(p, "encrypt") /\ CanPrepare(p)
          /\ prepared' \in {prepared, [prepared EXCEPT ![Child(p)] = "ready"]}
          /\ Goto(p, "fail-child")
    /\ UNCHANGED <<queue, bucket, world>>

\* A lease is 60 seconds; nothing renews it.
Expire(e) ==
    /\ queue[e].live
    /\ IF queue[e].owner = Gone THEN UNCHANGED faults ELSE Fault("expire")
    /\ Write(e, [queue[e] EXCEPT !.live = FALSE])
    /\ UNCHANGED <<prepared, bucket, world, proc>>

\* A process dies; while it publishes a ciphertext, after either file.
Crash(p) ==
    /\ ~At(p, "idle") /\ Fault("crash")
    /\ prepared' \in {prepared} \cup
         (IF At(p, "encrypt") /\ CanPrepare(p)
          THEN {[prepared EXCEPT ![Child(p)] = stage] : stage \in {"ciphertext", "ready"}} ELSE {})
    /\ EndCommand(p, queue)
    /\ UNCHANGED <<bucket, world>>

-----------------------------------------------------------------------------
RunStep(p) == \/ RunNext(p) \/ RunClaim(p) \/ RunRelease(p) \/ Plan(p) \/ Snapshot(p)
              \/ EnqueueChild(p) \/ ClaimChild(p) \/ SnapshotChild(p) \/ Encrypt(p)
              \/ ReleaseChild(p) \/ Expand(p) \/ FailChild(p) \/ Fail(p)

DrainStep(p) == \/ DrainNext(p) \/ DrainClaim(p) \/ Check(p) \/ Upload(p) \/ MarkUploaded(p)
                \/ PutIndex(p) \/ PublishIndex(p) \/ VerifyIndex(p) \/ Commit(p)

Next == \/ Grow
        \/ \E t \in Trigger : Hook(t)
        \/ \E e \in Events : Expire(e)
        \/ \E p \in Processes :
             \/ \E command \in Commands : Begin(p, command)
             \/ RunStep(p) \/ DrainStep(p)
             \/ \E command \in Commands, e \in Events : BeginOperator(p, command, e)
             \/ Operate(p) \/ Apply(p) \/ WriteFails(p) \/ Crash(p)

Spec == Init /\ [][Next]_vars

\* Commands that were started go on, leases of dead owners run out, and each
\* command is started again and again.
Fairness ==
    /\ \A e \in Events : WF_vars(queue[e].owner = Gone /\ Expire(e))
    /\ \A p \in Processes :
         /\ WF_vars(RunStep(p) \/ DrainStep(p))
         /\ \A command \in Commands : SF_vars(Begin(p, command))

FairSpec == Spec /\ Fairness

-----------------------------------------------------------------------------
(* Properties.                                                             *)

\* Every variable has its type.
TypeOK ==
    /\ queue \in [Events -> QueueRecord]
    /\ prepared \in [Events -> {"none", "ciphertext", "ready"}]
    /\ bucket \subseteq Evidence \cup Index
    /\ length \in Positions
    /\ host \in [Trigger -> Events \cup {Nobody}]
    /\ proc \in [Processes -> ProcessState]
    /\ faults \in 0 .. MaxFaults

\* A record that has reached the delivery stages has its ciphertext, whatever
\* failed or died while it was prepared (prepare_encrypted_file publishes the
\* ciphertext before it advances the record).
PreparedIsBacked == \A e \in Events : queue[e].resume \in Delivery => prepared[e] = "ready"

\* A committed record has its evidence and its index in the bucket, even when
\* the lease was lost between the uploads and the commit (r2.py
\* publish_outbox_evidence).
CommittedIsDurable ==
    \A e \in Events : queue[e].state = "committed" => {e, IndexOf(e)} \subseteq bucket

\* An index in the bucket never points at a missing object: evidence is
\* uploaded before its index by every process that delivers it.
IndexAfterObject == \A C \in Chains : <<C, "index">> \in bucket => EvidenceOf(C) \in bucket

\* The cursor of an expanded trigger skips nothing: every segment of the
\* chain behind it, and its index, is prepared or further.
CursorCovered ==
    \A e \in Events : \A n \in queue[e].end :
      LET segment == EvidenceOf({m \in queue[e].end : m <= n})
      IN  queue[segment].resume \in Delivery /\ queue[IndexOf(segment)].resume \in Delivery

\* A record never goes back to an earlier stage, and one that is committed,
\* quarantined or expanded never changes: retries, takeovers and operators
\* resume where the delivery stopped.
StageNeverRegresses ==
    [][\A e \in Events :
         /\ Rank[queue[e].resume] <= Rank[queue'[e].resume]
         /\ queue[e].state \in {"committed", "quarantined", "trigger-expanded"} =>
              queue'[e] = queue[e]]_vars

-----------------------------------------------------------------------------
(* What the repository says, and the code does not keep.                   *)

\* cli.py, the help of --drain: "deliver prepared records after offline
\* preparation".  Evidence that is prepared is delivered, or an operator or
\* the policy stops it.
PreparedIsDelivered ==
    \A e \in Evidence : queue[e].resume \in Delivery ~> queue[e].state \in Final

\* The triggers that no command can select again.
Selectable(e) == \/ Runnable(queue[e], e) \/ Drainable(queue[e], e)
                 \/ queue[e].state \in {"retryable-failure", "capture-gap", "policy-denied"}

\* docs/pcc-hooks.md: crashes are recovered.  A trigger whose owner died can
\* be picked up again once its lease has expired.
AbandonedIsSelectable ==
    \A e \in Trigger : queue[e].owner = Gone /\ ~queue[e].live => Selectable(e)

\* Record n of the transcript is in evidence that has reached the bucket.
Captured(n) == \E e \in Evidence \cap bucket : Span(e[1])[1] < n /\ n <= Span(e[1])[2]

\* docs/pcc-hooks.md: missed events are recovered.  A trigger that is accepted
\* when the transcript is complete leads to the capture of its end.
HookIsServed ==
    \A t \in Trigger :
      [](length = MaxRecords /\ MaxRecords > 0 /\ host[t] = Nobody =>
           [](host[t] # Nobody => <>Captured(MaxRecords)))

\* docs/pcc-harvest.md: a failed operation remains retryable.  The next run of
\* a failed trigger does not begin with a segment that is finished already,
\* which it could not claim.
RetryIsPossible ==
    \A t \in Trigger :
      queue[t].state = "retryable-failure" /\ Top(ResumeChain(t)) < length =>
        queue[EvidenceOf(NextChain(ResumeChain(t), length))].state \notin Final

\* The crypto design: a publication failure or a process crash leaves no
\* prepared record.
FailureLeavesNoPreparedRecord ==
    \A e \in Events : prepared[e] = "ready" => queue[e].resume \in Delivery

\* harvest_bridge._resume_state: a trigger resumes without replaying the
\* prefix.  No record of the transcript is delivered in two segments.
NoRecordDeliveredTwice ==
    \A d, e \in Evidence \cap bucket :
      d # e => Span(d[1])[2] <= Span(e[1])[1] \/ Span(e[1])[2] <= Span(d[1])[1]

-----------------------------------------------------------------------------
(* What the scheduled command keeps.                                       *)

\* Record n of the transcript is in evidence that is ready to be delivered.
Prepared(n) ==
    \E e \in Evidence : queue[e].resume \in Delivery /\ Span(e[1])[1] < n /\ n <= Span(e[1])[2]

\* The states that the scheduled command cannot leave by itself: a segment is
\* finished that a run would have to claim; a record waits for an operator;
\* its owner is gone, and only a drain, which follows only a run without
\* failures, takes over; its ciphertext was published without it; or it
\* failed after its upload, when run can claim but not release it.
Blocked ==
    \/ ~RetryIsPossible
    \/ \E e \in Events :
         \/ queue[e].state \in {"policy-denied", "capture-gap"}
         \/ queue[e].owner = Gone
         \/ prepared[e] = "ready" /\ queue[e].resume \notin Delivery
         \/ queue[e].state = "retryable-failure" /\ queue[e].resume \in Delivery \ {"prepared-encrypted"}

\* What the session has written when a trigger is queued is prepared in the
\* end by the scheduled harvest run --drain alone, across failing reads,
\* writes and uploads, unless one of the states of Blocked is reached; in
\* particular it is if nothing fails (HarvestController.run,
\* HostHarvestBridge.prepare).
TriggerIsPrepared ==
    \A n \in 1 .. MaxRecords :
      (length >= n /\ \E t \in Trigger : queue[t].state = "queued") ~> Prepared(n) \/ Blocked
=============================================================================
