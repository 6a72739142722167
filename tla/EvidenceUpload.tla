--------------------------- MODULE EvidenceUpload ---------------------------
(***************************************************************************)
(* R2Backend._put_evidence (josh_room/r2.py): hosts that hold the same     *)
(* ciphertext publish it under its digest.  A small one is one conditional *)
(* PUT.  A large one is a multipart upload whose completion cannot be      *)
(* conditional: it is fenced by a create-only claim object, and resumed by *)
(* later attempts from a state file that holds the fence, the upload id    *)
(* and the parts.                                                          *)
(*                                                                         *)
(* The state file's stage is written and never read, so it is left out.    *)
(* The lock on the digest lets one attempt of a host run at a time.        *)
(***************************************************************************)
EXTENDS Integers, FiniteSets

CONSTANTS
    Hosts,       \* machines that publish the ciphertext
    Parts,       \* numbers of its parts when it is large
    Sizes,       \* whether it is small (one PUT), large, or either
    MaxAttempts, \* config.max_attempts
    MaxUploads,  \* bound: multipart uploads ever created
    Faults,      \* what may go wrong
    MaxFaults    \* bound: how often

\*   timeout  no answer: the request is applied now, later or never
\*   server   a retryable error answer, with the same three outcomes
\*   limit    a rate limit; nothing is applied
\*   refuse   an error that is not retried; nothing is applied
\*   repeat   the SDK repeats an applied request and reports the repeat
\*   read     a read-back fails
\*   expire   the provider drops an open upload
\*   corrupt  the bytes under the key are not the ones sent
\*   crash    the process dies
\*   lose     the state file is lost
FaultNames == {"timeout", "server", "limit", "refuse", "repeat", "read", "expire", "corrupt",
               "crash", "lose"}

ASSUME UploadAssumption ==
    /\ Sizes \subseteq {"small", "large"} /\ Faults \subseteq FaultNames
    /\ Parts \subseteq Nat
    /\ MaxAttempts \in Nat \ {0} /\ MaxUploads \in Nat /\ MaxFaults \in Nat

VARIABLES
    size,     \* of the ciphertext: under the multipart threshold or not
    object,   \* what is under the key
    claim,    \* the fence in the claim object
    upload,   \* the provider's multipart uploads
    pending,  \* requests that timed out and are still under way
    saved,    \* the state file of each host
    drawn,    \* how many fences each host has drawn
    pc,       \* where the attempt of each host is
    retries,  \* failed requests of the attempt (creations and parts)
    tries,    \* failed completions, or PUTs, of the attempt
    receipts, \* hosts that hold a receipt
    lost,     \* hosts whose state file was lost
    faults    \* faults that may still happen

provider == <<object, claim, upload, pending>>
state    == <<saved, drawn>>
control  == <<pc, retries, tries>>
vars     == <<size, provider, state, control, receipts, lost, faults>>

Uploads == 1 .. MaxUploads
Absent  == [by |-> <<>>, good |-> FALSE]
NoFence == <<>>
Writers == ({"put"} \X Hosts) \cup ({"upload"} \X Uploads)
NoFile  == [fence |-> 0, upload |-> 0, parts |-> {}]

Fence(h) == <<h, saved[h].fence>>

Labels == {"idle", "check", "load", "claim", "read-claim", "create", "parts", "complete",
           "recheck", "recheck-limited", "verify", "reset", "put", "verify-put", "settle-put"}

Init ==
    /\ size \in Sizes
    /\ object = Absent
    /\ claim = NoFence
    /\ upload = [u \in Uploads |-> [status |-> "none", parts |-> {}]]
    /\ pending = {}
    /\ saved = [h \in Hosts |-> NoFile]
    /\ drawn = [h \in Hosts |-> 0]
    /\ pc = [h \in Hosts |-> "idle"]
    /\ retries = [h \in Hosts |-> 0]
    /\ tries = [h \in Hosts |-> 0]
    /\ receipts = {}
    /\ lost = {}
    /\ faults = MaxFaults

-----------------------------------------------------------------------------
Fault(kinds) == kinds \cap Faults # {} /\ faults > 0 /\ faults' = faults - 1

Goto(h, label) ==
    /\ pc' = [pc EXCEPT ![h] = label]
    /\ UNCHANGED <<retries, tries>>

\* The attempt ends without a receipt; its caller retries it later.
Give(h) == Goto(h, "idle") /\ UNCHANGED receipts

Save(h, s) == saved' = [saved EXCEPT ![h] = s] /\ UNCHANGED drawn

\* The object was read back and is right: the state file is cleared.
Acknowledge(h) ==
    /\ receipts' = receipts \cup {h}
    /\ Save(h, NoFile)
    /\ Goto(h, "idle")

\* The object is there and wrong.
Mismatch(h) == Save(h, NoFile) /\ Give(h)

\* [Faulty variant] the parts are cleared and the upload id is kept.
ForgottenParts(h) == [saved[h] EXCEPT !.parts = {}]

Forgotten(h) == [saved[h] EXCEPT !.upload = 0, !.parts = {}]

\* The provider writes the object: a PUT of a host or the completion of an
\* upload.  The bytes are wrong only if a fault says so.
Store(writer, good) == object' = [by |-> writer, good |-> good]

Complete(u, good) ==
    /\ Store(<<"upload", u>>, good)
    /\ upload' = [upload EXCEPT ![u].status = "done"]

Open(u) == u \in Uploads /\ upload[u].status = "open"

-----------------------------------------------------------------------------
(* An attempt, and the read-back with which it begins.                     *)

\* _put_evidence
Begin(h) ==
    /\ pc[h] = "idle" /\ h \notin receipts
    /\ pc' = [pc EXCEPT ![h] = IF size = "small" THEN "put" ELSE "check"]
    /\ retries' = [retries EXCEPT ![h] = 0]
    /\ tries' = [tries EXCEPT ![h] = 0]
    /\ UNCHANGED <<size, lost, provider, state, receipts, faults>>

\* _verify_evidence_or_absent before anything else
\* [Faulty variant] the key is not read before the upload is started.
CheckNothing(h) ==
    /\ pc[h] = "check" /\ Goto(h, "load")
    /\ UNCHANGED <<size, lost, provider, state, receipts, faults>>

Check(h) ==
    /\ pc[h] = "check"
    /\ \/ object.good /\ Acknowledge(h) /\ UNCHANGED faults
       \/ object # Absent /\ ~object.good /\ Mismatch(h) /\ UNCHANGED faults
       \/ object = Absent /\ Goto(h, "load") /\ UNCHANGED <<state, receipts, faults>>
       \/ Fault({"read"}) /\ Give(h) /\ UNCHANGED state
    /\ UNCHANGED <<size, lost, provider>>

\* _load_evidence_state: without a state file a new fence is drawn and saved
\* before the claim is tried.
Load(h) ==
    /\ pc[h] = "load"
    /\ IF saved[h].fence = 0
       THEN /\ drawn' = [drawn EXCEPT ![h] = @ + 1]
            /\ saved' = [saved EXCEPT ![h] = [NoFile EXCEPT !.fence = drawn[h] + 1]]
       ELSE UNCHANGED state
    /\ Goto(h, "claim")
    /\ UNCHANGED <<size, lost, provider, receipts, faults>>

Claimed(h) == IF saved[h].upload = 0 THEN "create" ELSE "parts"

\* The claim that is there is this host's own.
\* [Faulty variant] any claim counts.
OwnsAny(h) == claim # NoFence

Owns(h) == claim = Fence(h)

\* _claim_evidence_multipart: the conditional PUT of the claim
Claim(h) ==
    /\ pc[h] = "claim"
    /\ \/ /\ claim = NoFence
          /\ claim' = Fence(h)
          /\ Goto(h, Claimed(h))
          /\ UNCHANGED <<pending, receipts, faults>>
       \/ /\ claim # NoFence
          /\ IF Owns(h) THEN Goto(h, Claimed(h)) /\ UNCHANGED receipts ELSE Give(h)
          /\ UNCHANGED <<claim, pending, faults>>
       \/ /\ Fault({"timeout", "server"})
          /\ \/ claim' = (IF claim = NoFence THEN Fence(h) ELSE claim) /\ UNCHANGED pending
             \/ pending' = pending \cup {<<"claim", Fence(h)>>} /\ UNCHANGED claim
             \/ UNCHANGED <<claim, pending>>
          /\ \/ "server" \in Faults /\ Give(h)
             \/ "timeout" \in Faults /\ Goto(h, "read-claim") /\ UNCHANGED receipts
       \/ /\ Fault({"repeat"})
          /\ claim = NoFence /\ claim' = Fence(h)
          /\ Goto(h, "read-claim")
          /\ UNCHANGED <<pending, receipts>>
       \/ /\ Fault({"limit", "refuse"})
          /\ Give(h)
          /\ UNCHANGED <<claim, pending>>
    /\ UNCHANGED <<size, lost, object, upload, state>>

\* _read_evidence_claim, after no answer: a claim that is not there is an
\* error, another host's a conflict.
ReadClaim(h) ==
    /\ pc[h] = "read-claim"
    /\ \/ Owns(h) /\ Goto(h, Claimed(h)) /\ UNCHANGED <<receipts, faults>>
       \/ ~Owns(h) /\ Give(h) /\ UNCHANGED faults
       \/ Fault({"read"}) /\ Give(h)
    /\ UNCHANGED <<size, lost, provider, state>>

-----------------------------------------------------------------------------
(* The multipart upload.                                                   *)

Unused == {u \in Uploads : upload[u].status = "none"}

Created(u) == upload' = [upload EXCEPT ![u].status = "open"]

\* create_multipart_upload.  An upload whose answer is lost stays open and
\* nobody knows its id.
Create(h) ==
    /\ pc[h] = "create"
    /\ \/ \E u \in Unused :
             /\ \A v \in Unused : u <= v
             /\ Created(u)
             /\ Save(h, [saved[h] EXCEPT !.upload = u, !.parts = {}])
             /\ Goto(h, "parts")
             /\ UNCHANGED <<receipts, faults>>
       \/ /\ Fault({"timeout", "server", "limit"})
          /\ UNCHANGED <<state, tries, receipts>>
          /\ \/ UNCHANGED upload
             \/ /\ {"timeout", "server"} \cap Faults # {}
                /\ \E u \in Unused : (\A v \in Unused : u <= v) /\ Created(u)
          /\ retries' = [retries EXCEPT ![h] = @ + 1]
          /\ pc' = [pc EXCEPT ![h] = IF retries[h] + 1 >= MaxAttempts THEN "idle" ELSE "create"]
       \/ /\ Fault({"refuse"})
          /\ Give(h)
          /\ UNCHANGED <<upload, state>>
    /\ UNCHANGED <<size, lost, object, claim, pending>>

\* The next part the state file does not list.
\* [Faulty variant] parts are counted from zero.
NextPartFromZero(h) == Cardinality(saved[h].parts)

NextPart(h) == CHOOSE n \in Parts \ saved[h].parts : \A m \in Parts \ saved[h].parts : n <= m

\* The state file with part n.
Listed(h, n) == [saved[h] EXCEPT !.parts = @ \cup {n}]

Received(u, n) == upload' = [upload EXCEPT ![u].parts = @ \cup {n}]

\* upload_part for each part that is not in the state file
UploadPart(h) ==
    /\ pc[h] = "parts" /\ saved[h].parts # Parts
    /\ LET u == saved[h].upload
           n == NextPart(h)
       IN  \/ /\ Open(u)
              /\ Received(u, n)
              /\ Save(h, Listed(h, n))
              /\ UNCHANGED <<control, receipts, faults>>
           \/ /\ ~Open(u)
              /\ Save(h, Forgotten(h))
              /\ Give(h)
              /\ UNCHANGED <<upload, faults>>
           \/ /\ Fault({"timeout", "server", "limit"})
              /\ UNCHANGED <<state, tries, receipts>>
              /\ \/ UNCHANGED upload
                 \/ {"timeout", "server"} \cap Faults # {} /\ Open(u) /\ Received(u, n)
              /\ retries' = [retries EXCEPT ![h] = @ + 1]
              /\ pc' = [pc EXCEPT ![h] = IF retries[h] + 1 >= MaxAttempts THEN "reset" ELSE "parts"]
           \/ /\ Fault({"refuse"})
              /\ Goto(h, "reset")
              /\ UNCHANGED <<upload, state, receipts>>
    /\ UNCHANGED <<size, lost, object, claim, pending>>

Uploaded(h) ==
    /\ pc[h] = "parts" /\ saved[h].parts = Parts
    /\ Goto(h, "complete")
    /\ UNCHANGED <<size, lost, provider, state, receipts, faults>>

\* complete_multipart_upload, without a condition.  NoSuchUpload makes the
\* next attempt start a new upload.
CompleteUpload(h) ==
    /\ pc[h] = "complete"
    /\ LET u == saved[h].upload
       IN  \/ /\ Open(u)
              /\ \/ Complete(u, TRUE) /\ UNCHANGED faults
                 \/ Fault({"corrupt"}) /\ Complete(u, FALSE)
              /\ Goto(h, "verify")
              /\ UNCHANGED <<pending, state, receipts>>
           \/ /\ ~Open(u)
              /\ Save(h, Forgotten(h))
              /\ Give(h)
              /\ UNCHANGED <<object, upload, pending, faults>>
           \/ /\ Fault({"repeat"})
              /\ Open(u) /\ Complete(u, TRUE)
              /\ Save(h, Forgotten(h))
              /\ Give(h)
              /\ UNCHANGED pending
           \/ /\ Fault({"timeout", "server"})
              /\ \/ Open(u) /\ Complete(u, TRUE) /\ UNCHANGED pending
                 \/ pending' = pending \cup {<<"complete", u>>} /\ UNCHANGED <<object, upload>>
                 \/ UNCHANGED <<object, upload, pending>>
              /\ tries' = [tries EXCEPT ![h] = @ + 1]
              /\ pc' = [pc EXCEPT ![h] = "recheck"]
              /\ UNCHANGED <<retries, state, receipts>>
           \/ /\ Fault({"limit"})
              /\ tries' = [tries EXCEPT ![h] = @ + 1]
              /\ pc' = [pc EXCEPT ![h] = "recheck-limited"]
              /\ UNCHANGED <<retries, object, upload, pending, state, receipts>>
           \/ /\ Fault({"refuse"})
              /\ Goto(h, "reset")
              /\ UNCHANGED <<object, upload, pending, state, receipts>>
    /\ UNCHANGED <<size, lost, claim>>

\* After a failed completion the key is read back.  When it is absent and no
\* attempt is left, a rate limit resets the upload and anything else is
\* ambiguous and keeps the state file.  A failed read resets the upload.
Recheck(h) ==
    /\ pc[h] \in {"recheck", "recheck-limited"}
    /\ \/ object.good /\ Acknowledge(h) /\ UNCHANGED faults
       \/ object # Absent /\ ~object.good /\ Mismatch(h) /\ UNCHANGED faults
       \/ /\ object = Absent
          /\ Goto(h, CASE tries[h] < MaxAttempts -> "complete"
                       [] tries[h] >= MaxAttempts /\ pc[h] = "recheck-limited" -> "reset"
                       [] OTHER -> "idle")
          /\ UNCHANGED <<state, receipts, faults>>
       \/ Fault({"read"}) /\ Goto(h, "reset") /\ UNCHANGED <<state, receipts>>
    /\ UNCHANGED <<size, lost, provider>>

\* The read-back after a completion that was answered
Verify(h) ==
    /\ pc[h] = "verify"
    /\ \/ object.good /\ Acknowledge(h) /\ UNCHANGED faults
       \/ object # Absent /\ ~object.good /\ Mismatch(h) /\ UNCHANGED faults
       \/ Fault({"read"}) /\ Goto(h, "reset") /\ UNCHANGED <<state, receipts>>
    /\ UNCHANGED <<size, lost, provider>>

\* _reset_evidence_upload: abort the upload and forget it; when the abort
\* fails the state file keeps it.
Reset(h) ==
    /\ pc[h] = "reset"
    /\ LET u == saved[h].upload
       IN  \/ /\ Open(u)
              /\ upload' = [upload EXCEPT ![u].status = "gone"]
              /\ Save(h, Forgotten(h))
              /\ UNCHANGED faults
           \/ /\ ~Open(u)
              /\ UNCHANGED <<upload, state, faults>>
           \/ /\ Fault({"timeout", "server", "limit", "refuse"})
              /\ \/ UNCHANGED upload
                 \/ {"timeout", "server"} \cap Faults # {} /\ Open(u) /\ upload' = [upload EXCEPT ![u].status = "gone"]
              /\ UNCHANGED state
    /\ Give(h)
    /\ UNCHANGED <<size, lost, object, claim, pending>>

-----------------------------------------------------------------------------
(* The single conditional PUT: _put_evidence_single.                       *)

PutFailed(h, label) ==
    /\ tries' = [tries EXCEPT ![h] = @ + 1]
    /\ pc' = [pc EXCEPT ![h] = IF tries[h] + 1 >= MaxAttempts THEN label ELSE "put"]
    /\ UNCHANGED <<retries, receipts>>

Put(h) ==
    /\ pc[h] = "put"
    /\ \/ /\ object = Absent
          /\ \/ Store(<<"put", h>>, TRUE) /\ UNCHANGED faults
             \/ Fault({"corrupt"}) /\ Store(<<"put", h>>, FALSE)
          /\ Goto(h, "verify-put")
          /\ UNCHANGED <<pending, receipts>>
       \/ /\ object # Absent
          /\ Goto(h, "settle-put")
          /\ UNCHANGED <<object, pending, receipts, faults>>
       \/ /\ Fault({"repeat"})
          /\ object = Absent /\ Store(<<"put", h>>, TRUE)
          /\ Goto(h, "settle-put")
          /\ UNCHANGED <<pending, receipts>>
       \/ /\ Fault({"timeout", "server", "limit"})
          /\ \/ {"timeout", "server"} \cap Faults # {} /\ object = Absent /\ Store(<<"put", h>>, TRUE) /\ UNCHANGED pending
             \/ {"timeout", "server"} \cap Faults # {} /\ pending' = pending \cup {<<"put", h>>} /\ UNCHANGED object
             \/ UNCHANGED <<object, pending>>
          /\ \/ "timeout" \in Faults /\ PutFailed(h, "settle-put")
             \/ {"server", "limit"} \cap Faults # {} /\ PutFailed(h, "idle")
       \/ /\ Fault({"refuse"})
          /\ Give(h)
          /\ UNCHANGED <<object, pending>>
    /\ UNCHANGED <<size, lost, claim, upload, state>>

\* The read-back of an answered PUT; a failed one repeats the PUT.
VerifyPut(h) ==
    /\ pc[h] = "verify-put"
    /\ \/ object.good /\ Acknowledge(h) /\ UNCHANGED faults
       \/ ~object.good /\ Give(h) /\ UNCHANGED <<state, faults>>
       \/ /\ Fault({"read"})
          /\ PutFailed(h, "idle") \/ PutFailed(h, "settle-put") \/ Give(h)
          /\ UNCHANGED state
    /\ UNCHANGED <<size, lost, provider>>

\* The read-back after a precondition failure or after the last PUT had no
\* answer: the object that is there decides.
SettlePut(h) ==
    /\ pc[h] = "settle-put"
    /\ \/ object.good /\ Acknowledge(h) /\ UNCHANGED faults
       \/ ~object.good /\ Give(h) /\ UNCHANGED <<state, faults>>
       \/ Fault({"read"}) /\ Give(h) /\ UNCHANGED state
    /\ UNCHANGED <<size, lost, provider>>

-----------------------------------------------------------------------------
(* The provider and the machines.                                          *)

\* A request that had no answer is applied, if its condition holds, or lost.
Settle(r) ==
    /\ r \in pending
    /\ pending' = pending \ {r}
    /\ \/ UNCHANGED <<object, claim, upload>>
       \/ r[1] = "claim" /\ claim = NoFence /\ claim' = r[2] /\ UNCHANGED <<object, upload>>
       \/ r[1] = "complete" /\ Open(r[2]) /\ Complete(r[2], TRUE) /\ UNCHANGED claim
       \/ r[1] = "put" /\ object = Absent /\ Store(r, TRUE) /\ UNCHANGED <<claim, upload>>
    /\ UNCHANGED <<size, lost, state, control, receipts, faults>>

Expire(u) ==
    /\ Open(u) /\ Fault({"expire"})
    /\ upload' = [upload EXCEPT ![u].status = "gone"]
    /\ UNCHANGED <<size, lost, object, claim, pending, state, control, receipts>>

Crash(h) ==
    /\ pc[h] # "idle" /\ Fault({"crash"})
    /\ Give(h)
    /\ UNCHANGED <<size, lost, provider, state>>

Lose(h) ==
    /\ saved[h] # NoFile /\ pc[h] = "idle" /\ Fault({"lose"})
    /\ Save(h, NoFile)
    /\ lost' = lost \cup {h}
    /\ UNCHANGED <<size, provider, control, receipts>>

Step(h) ==
    \/ Begin(h) \/ Check(h) \/ Load(h) \/ Claim(h) \/ ReadClaim(h) \/ Create(h)
    \/ UploadPart(h) \/ Uploaded(h) \/ CompleteUpload(h) \/ Recheck(h) \/ Verify(h)
    \/ Reset(h) \/ Put(h) \/ VerifyPut(h) \/ SettlePut(h)

Next ==
    \/ \E h \in Hosts : Step(h) \/ Crash(h) \/ Lose(h)
    \/ \E r \in pending : Settle(r)
    \/ \E u \in Uploads : Expire(u)

Spec == Init /\ [][Next]_vars

\* The scheduled drain retries every record that is not committed, and a
\* request ends.
FairSpec ==
    /\ Spec
    /\ \A h \in Hosts : WF_vars(Step(h))
    /\ WF_vars(\E r \in pending : Settle(r))

-----------------------------------------------------------------------------
Objects  == [by : Writers, good : BOOLEAN]
Fences   == Hosts \X Nat
Statuses == [status : {"none", "open", "done", "gone"}, parts : SUBSET Parts]
Requests == ({"claim"} \X Fences) \cup ({"complete"} \X Uploads) \cup ({"put"} \X Hosts)
Files    == [fence : Nat, upload : Uploads \cup {0}, parts : SUBSET Parts]

\* Every variable keeps its type (the state file, _load_evidence_state).
TypeOK ==
    /\ size \in Sizes
    /\ object \in {Absent} \cup Objects
    /\ claim \in {NoFence} \cup Fences
    /\ upload \in [Uploads -> Statuses]
    /\ pending \subseteq Requests
    /\ saved \in [Hosts -> Files]
    /\ drawn \in [Hosts -> Nat]
    /\ pc \in [Hosts -> Labels]
    /\ retries \in [Hosts -> Nat] /\ tries \in [Hosts -> Nat]
    /\ receipts \subseteq Hosts /\ lost \subseteq Hosts
    /\ faults \in Nat

EO == INSTANCE EvidenceObject WITH Hosts <- Hosts, Writers <- Writers, object <- object, receipts <- receipts

\* Although a completion is unconditional, the key is written once, and only
\* a host that the right bytes were read back for holds a receipt (r2.py,
\* _put_evidence: verify, claim, complete, verify).
CreateOnce == EO!Spec

\* Only the host whose fence is in the claim object has an upload
\* (_claim_evidence_multipart; docs/R2-SETUP.md: a missing claim state is
\* never permission to steal a claim).
OwnerUploads ==
    \A h \in Hosts :
        saved[h].upload # 0 \/ pc[h] \in {"create", "parts", "complete"} => claim = Fence(h)

\* Once the key is written no state file and no request under way refers to
\* an upload that could still be completed over it.
NothingLeftToWrite ==
    object # Absent =>
        /\ \A h \in Hosts : ~Open(saved[h].upload)
        /\ \A r \in pending : r[1] = "complete" => ~Open(r[2])

\* Every host is given its receipt in the end, unless the bytes were spoilt
\* or a state file was lost: the drain retries, and an attempt resumes with
\* the fence and the upload that the earlier ones left.
EveryHostIsServed ==
    \A h \in Hosts : <>(h \in receipts \/ (object # Absent /\ ~object.good) \/ lost # {})
=============================================================================
