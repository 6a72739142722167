------------------------ MODULE EvidenceUploadProofs ------------------------
(***************************************************************************)
(* What TLAPS proves about EvidenceUpload for any number of hosts, parts,  *)
(* uploads and attempts and under every fault: the key is written once,    *)
(* although completions are unconditional, and receipts are given only for *)
(* the right bytes.                                                        *)
(***************************************************************************)
EXTENDS EvidenceUpload, WellFoundedInduction, TLAPS

UploadLabels == {"parts", "complete", "recheck", "recheck-limited", "verify", "reset"}
PutLabels    == {"put", "verify-put", "settle-put"}

\* A completion under way that the provider would still carry out.
Completing(u) == Open(u) /\ <<"complete", u>> \in pending

\* What holds of one host: its state file names an upload only while the
\* claim carries its fence, and then no other upload can be completed; the
\* key is known to be absent from the read-back until an upload is created.
HostInv(h) ==
    /\ saved[h].fence <= drawn[h]
    /\ saved[h].fence = 0 => saved[h] = NoFile /\ pc[h] \in {"idle", "check", "load"} \cup PutLabels
    /\ pc[h] \in UploadLabels => saved[h].upload # 0
    /\ pc[h] = "create" => saved[h].upload = 0
    /\ saved[h].upload # 0 \/ pc[h] \in {"create", "parts", "complete"} => claim = Fence(h)
    /\ claim = Fence(h) => \A u \in Uploads : Completing(u) => saved[h].upload = u
    /\ claim = Fence(h) /\ saved[h].upload = 0 /\ pc[h] \in {"load", "claim", "read-claim", "create"} => object = Absent
    /\ object # Absent => ~Open(saved[h].upload)
    /\ saved[h].upload # 0 => upload[saved[h].upload].status # "none"
    /\ pc[h] \in {"verify", "verify-put"} => object # Absent
    /\ size = "small" => saved[h] = NoFile /\ pc[h] \in PutLabels \cup {"idle"}
    /\ size # "small" => pc[h] \notin PutLabels

\* What holds of the provider: the fences it has seen were drawn, a
\* completion under way names an upload that was created, at most one
\* completion can still be carried out, and the key is written only under a
\* claim, or by a conditional PUT of a small ciphertext.
ProviderInv ==
    /\ claim # NoFence => claim[2] \in 1 .. drawn[claim[1]]
    /\ \A r \in pending : r[1] = "claim" => r[2][2] \in 1 .. drawn[r[2][1]]
    /\ \A u \in Uploads : <<"complete", u>> \in pending => upload[u].status # "none"
    /\ \A u, v \in Uploads : Completing(u) /\ Completing(v) => u = v
    /\ \A u \in Uploads : Completing(u) => claim # NoFence /\ object = Absent
    /\ size # "small" /\ claim = NoFence => object = Absent
    /\ size = "small" => claim = NoFence /\ \A r \in pending : r[1] = "put"
    /\ size # "small" => \A r \in pending : r[1] # "put"

Inv == TypeOK /\ ProviderInv /\ \A h \in Hosts : HostInv(h)

-----------------------------------------------------------------------------
(* Types.                                                                  *)

\* A fence is never the empty claim.
LEMMA FenceIsClaim == ASSUME NEW h, NEW k PROVE <<h, k>> # NoFence
  BY DEF NoFence

\* The state files that an attempt writes are state files.
LEMMA FileTypes ==
    /\ NoFile \in Files
    /\ \A f \in Files : [f EXCEPT !.upload = 0, !.parts = {}] \in Files
    /\ \A f \in Files, n \in Parts : [f EXCEPT !.parts = @ \cup {n}] \in Files
    /\ \A f \in Files, u \in Uploads : [f EXCEPT !.upload = u, !.parts = {}] \in Files
    /\ \A k \in Nat : [NoFile EXCEPT !.fence = k] \in Files
  BY DEF NoFile, Files

\* What the provider stores is an object.
LEMMA ObjectTypes ==
    /\ \A h \in Hosts, good \in BOOLEAN : [by |-> <<"put", h>>, good |-> good] \in Objects
    /\ \A u \in Uploads, good \in BOOLEAN : [by |-> <<"upload", u>>, good |-> good] \in Objects
    /\ Absent \notin Objects
  BY DEF Objects, Writers, Absent

\* What is under way is a request.
LEMMA RequestTypes ==
    /\ \A f \in Fences : <<"claim", f>> \in Requests
    /\ \A u \in Uploads : <<"complete", u>> \in Requests
    /\ \A h \in Hosts : <<"put", h>> \in Requests
    /\ \A h \in Hosts, k \in Nat : <<h, k>> \in Fences
  BY DEF Requests, Fences

\* As long as parts are missing there is a next one.
LEMMA NextPartType ==
    ASSUME NEW h \in Hosts, saved[h].parts \in SUBSET Parts, saved[h].parts # Parts
    PROVE  NextPart(h) \in Parts
  <1> DEFINE missing == Parts \ saved[h].parts
  <1>1. missing \subseteq Nat /\ missing # {}
    BY UploadAssumption
  <1>2. \E n \in missing : \A m \in missing : ~ (<<m, n>> \in OpToRel(<, Nat))
    BY <1>1, NatLessThanWellFounded, WFMin
  <1>3. PICK n \in missing : \A m \in missing : ~ (<<m, n>> \in OpToRel(<, Nat))
    BY <1>2
  <1>4. \A m \in missing : m \in Nat /\ n \in Nat /\ ~ (m < n)
    BY <1>1, <1>3, Zenon DEF OpToRel
  <1>5. \E k \in missing : \A m \in missing : k <= m
    <2> \A m \in missing : n <= m
      BY <1>4
    <2> QED BY <1>3
  <1> QED BY <1>5 DEF NextPart

\* What a state of the right type says of one host.
LEMMA HostTypes ==
    ASSUME TypeOK, NEW h \in Hosts
    PROVE  /\ saved[h] \in Files /\ saved[h].fence \in Nat /\ saved[h].upload \in Uploads \cup {0}
           /\ saved[h].parts \in SUBSET Parts
           /\ drawn[h] \in Nat /\ pc[h] \in Labels /\ retries[h] \in Nat /\ tries[h] \in Nat
  BY DEF TypeOK, Files

\* The type invariant in parts: what is stored, the attempts, the rest.
StateOK   == saved \in [Hosts -> Files] /\ drawn \in [Hosts -> Nat]
ControlOK == pc \in [Hosts -> Labels] /\ retries \in [Hosts -> Nat] /\ tries \in [Hosts -> Nat]
ObjectOK  == object \in {Absent} \cup Objects /\ upload \in [Uploads -> Statuses]
ClaimOK   == claim \in {NoFence} \cup Fences /\ pending \subseteq Requests
RestOK    == size \in Sizes /\ receipts \subseteq Hosts /\ lost \subseteq Hosts /\ faults \in Nat

\* The parts make up the type invariant.
LEMMA TypeParts ==
    /\ TypeOK <=> StateOK /\ ControlOK /\ ObjectOK /\ ClaimOK /\ RestOK
    /\ TypeOK' <=> StateOK' /\ ControlOK' /\ ObjectOK' /\ ClaimOK' /\ RestOK'
  BY DEF TypeOK, StateOK, ControlOK, ObjectOK, ClaimOK, RestOK

-----------------------------------------------------------------------------
(* The steps of a host that leave the provider alone.                      *)

\* Such a step preserves the invariant when the host's own part of it does
\* and its fences only grow.
LEMMA LocalStep ==
    ASSUME Inv, TypeOK', NEW h \in Hosts,
           UNCHANGED <<size, object, claim, upload, pending>>,
           \A g \in Hosts \ {h} : saved'[g] = saved[g] /\ pc'[g] = pc[g] /\ drawn'[g] = drawn[g],
           drawn'[h] >= drawn[h],
           HostInv(h)'
    PROVE  Inv'
  <1>1. \A g \in Hosts : drawn[g] \in Nat /\ drawn'[g] \in Nat /\ drawn'[g] >= drawn[g]
    BY DEF Inv, TypeOK
  <1>2. \A u \in Uploads : Completing(u)' <=> Completing(u)
    BY DEF Completing, Open
  <1>3. ProviderInv'
    <2>1. claim # NoFence => claim[1] \in Hosts /\ claim[2] \in Nat
      BY DEF Inv, TypeOK, Fences
    <2>2. \A r \in pending : r[1] = "claim" => r[2][1] \in Hosts /\ r[2][2] \in Nat
      BY DEF Inv, TypeOK, Fences, Requests
    <2> QED BY <1>1, <1>2, <2>1, <2>2 DEF Inv, ProviderInv
  <1>4. ASSUME NEW g \in Hosts \ {h} PROVE HostInv(g)'
    <2>1. HostInv(g)
      BY DEF Inv
    <2>2. Fence(g)' = Fence(g)
      BY DEF Fence
    <2> QED BY <1>2, <2>1, <2>2 DEF HostInv, Open
  <1> QED BY <1>3, <1>4 DEF Inv

\* The object was read back and is there: the state file is cleared and the
\* attempt has ended.
LEMMA ClearedFile ==
    ASSUME Inv, NEW h \in Hosts, UNCHANGED <<size, object, claim, upload, pending, drawn>>,
           saved'[h] = NoFile, pc'[h] = "idle"
    PROVE  HostInv(h)'
  <1>1. HostInv(h) /\ ProviderInv
    BY DEF Inv
  <1>2. claim' # Fence(h)'
    <2>1. claim = NoFence \/ claim[2] # 0
      BY <1>1 DEF ProviderInv
    <2>2. Fence(h)' = <<h, 0>>
      BY DEF Fence, NoFile
    <2> QED BY <2>1, <2>2, FenceIsClaim
  <1> QED BY <1>1, <1>2, HostTypes DEF Inv, HostInv, NoFile, Open, Uploads, UploadLabels, PutLabels

\* Begin preserves the invariant.
LEMMA BeginStep == ASSUME Inv, NEW h \in Hosts, Begin(h) PROVE Inv'
  <1>1. TypeOK'
    <2>1. StateOK /\ ControlOK /\ ObjectOK /\ ClaimOK /\ RestOK
      BY TypeParts DEF Inv
    <2>2. StateOK'
      BY <2>1, FileTypes DEF StateOK, Begin, state, provider
    <2>3. ControlOK'
      BY <2>1 DEF ControlOK, Labels, Begin, state, provider
    <2>4. ObjectOK' /\ ClaimOK'
      BY <2>1 DEF ObjectOK, ClaimOK, Begin, state, provider
    <2>5. RestOK'
      BY <2>1 DEF RestOK, Begin, state, provider
    <2> QED BY <2>2, <2>3, <2>4, <2>5, TypeParts
  <1>2. HostInv(h)'
    <2>1. HostInv(h) /\ ProviderInv
      BY DEF Inv
    <2> QED BY <2>1, HostTypes, FenceIsClaim DEF Inv, TypeOK, HostInv, ProviderInv, NoFile, Fence, Open, Completing, UploadLabels, PutLabels, Uploads, Begin, state, provider
  <1>3. \A g \in Hosts \ {h} : saved'[g] = saved[g] /\ pc'[g] = pc[g] /\ drawn'[g] = drawn[g]
    BY DEF Inv, TypeOK, Begin, state, provider
  <1>4. drawn'[h] >= drawn[h]
    BY DEF Inv, TypeOK, Begin, state, provider
  <1>5. UNCHANGED <<size, object, claim, upload, pending>>
    BY DEF Begin, provider
  <1> QED BY <1>1, <1>2, <1>3, <1>4, <1>5, LocalStep

\* Check preserves the invariant.
LEMMA CheckStep == ASSUME Inv, NEW h \in Hosts, Check(h) PROVE Inv'
  <1>1. TypeOK'
    <2>1. StateOK /\ ControlOK /\ ObjectOK /\ ClaimOK /\ RestOK
      BY TypeParts DEF Inv
    <2>2. StateOK'
      BY <2>1, FileTypes DEF StateOK, Check, Fault, Goto, Give, Save, Acknowledge, Mismatch, state, provider
    <2>3. ControlOK'
      BY <2>1 DEF ControlOK, Labels, Check, Fault, Goto, Give, Save, Acknowledge, Mismatch, state, provider
    <2>4. ObjectOK' /\ ClaimOK'
      BY <2>1 DEF ObjectOK, ClaimOK, Check, Fault, Goto, Give, Save, Acknowledge, Mismatch, state, provider
    <2>5. RestOK'
      BY <2>1 DEF RestOK, Check, Fault, Goto, Give, Save, Acknowledge, Mismatch, state, provider
    <2> QED BY <2>2, <2>3, <2>4, <2>5, TypeParts
  <1>2. HostInv(h)'
    <2>1. HostInv(h) /\ ProviderInv
      BY DEF Inv
    <2>2. CASE saved'[h] = NoFile /\ pc'[h] = "idle"
      BY <2>2, ClearedFile DEF Check, Acknowledge, Mismatch, Save, provider, state
    <2>3. CASE ~ (saved'[h] = NoFile /\ pc'[h] = "idle")
      <3>1. saved' = saved /\ drawn' = drawn
        BY <2>3, HostTypes DEF Inv, TypeOK, Check, Acknowledge, Mismatch, Save, Give, Goto, state
      <3>2. UNCHANGED <<size, object, claim, upload, pending>>
        BY DEF Check, provider
      <3>3. pc'[h] \in {"idle"} \cup (IF object = Absent THEN {"load"} ELSE {})
        BY <2>3 DEF Inv, TypeOK, Check, Acknowledge, Mismatch, Save, Give, Goto, state
      <3> QED BY <2>1, <3>1, <3>2, <3>3, HostTypes DEF Inv, HostInv, ProviderInv, Check, Fence, Open, Completing, UploadLabels, PutLabels
    <2> QED BY <2>2, <2>3
  <1>3. \A g \in Hosts \ {h} : saved'[g] = saved[g] /\ pc'[g] = pc[g] /\ drawn'[g] = drawn[g]
    BY DEF Inv, TypeOK, Check, Fault, Goto, Give, Save, Acknowledge, Mismatch, state, provider
  <1>4. drawn'[h] >= drawn[h]
    BY DEF Inv, TypeOK, Check, Fault, Goto, Give, Save, Acknowledge, Mismatch, state, provider
  <1>5. UNCHANGED <<size, object, claim, upload, pending>>
    BY DEF Check, provider
  <1> QED BY <1>1, <1>2, <1>3, <1>4, <1>5, LocalStep

\* Load preserves the invariant.
LEMMA LoadStep == ASSUME Inv, NEW h \in Hosts, Load(h) PROVE Inv'
  <1>1. TypeOK'
    <2>1. StateOK /\ ControlOK /\ ObjectOK /\ ClaimOK /\ RestOK
      BY TypeParts DEF Inv
    <2>2. StateOK'
      <3>1. drawn[h] + 1 \in Nat
        BY <2>1 DEF StateOK
      <3>2. [NoFile EXCEPT !.fence = drawn[h] + 1] \in Files
        BY <3>1, FileTypes
      <3> QED BY <2>1, <3>1, <3>2 DEF StateOK, Load, state
    <2>3. ControlOK'
      BY <2>1 DEF ControlOK, Labels, Load, Goto, state, provider
    <2>4. ObjectOK' /\ ClaimOK'
      BY <2>1 DEF ObjectOK, ClaimOK, Load, Goto, state, provider
    <2>5. RestOK'
      BY <2>1 DEF RestOK, Load, Goto, state, provider
    <2> QED BY <2>2, <2>3, <2>4, <2>5, TypeParts
  <1>2. HostInv(h)'
    <2>1. HostInv(h) /\ ProviderInv
      BY DEF Inv
    <2> QED BY <2>1, HostTypes, FenceIsClaim DEF Inv, TypeOK, HostInv, ProviderInv, NoFile, Fence, Open, Completing, UploadLabels, PutLabels, Uploads, Load, Goto, state, provider
  <1>3. \A g \in Hosts \ {h} : saved'[g] = saved[g] /\ pc'[g] = pc[g] /\ drawn'[g] = drawn[g]
    BY DEF Inv, TypeOK, Load, Goto, state, provider
  <1>4. drawn'[h] >= drawn[h]
    BY DEF Inv, TypeOK, Load, Goto, state, provider
  <1>5. UNCHANGED <<size, object, claim, upload, pending>>
    BY DEF Load, provider
  <1> QED BY <1>1, <1>2, <1>3, <1>4, <1>5, LocalStep

\* ReadClaim preserves the invariant.
LEMMA ReadClaimStep == ASSUME Inv, NEW h \in Hosts, ReadClaim(h) PROVE Inv'
  <1>1. TypeOK'
    <2>1. StateOK /\ ControlOK /\ ObjectOK /\ ClaimOK /\ RestOK
      BY TypeParts DEF Inv
    <2>2. StateOK'
      BY <2>1, FileTypes DEF StateOK, ReadClaim, Fault, Goto, Give, Claimed, state, provider
    <2>3. ControlOK'
      BY <2>1 DEF ControlOK, Labels, ReadClaim, Fault, Goto, Give, Claimed, state, provider
    <2>4. ObjectOK' /\ ClaimOK'
      BY <2>1 DEF ObjectOK, ClaimOK, ReadClaim, Fault, Goto, Give, Claimed, state, provider
    <2>5. RestOK'
      BY <2>1 DEF RestOK, ReadClaim, Fault, Goto, Give, Claimed, state, provider
    <2> QED BY <2>2, <2>3, <2>4, <2>5, TypeParts
  <1>2. HostInv(h)'
    <2>1. HostInv(h) /\ ProviderInv
      BY DEF Inv
    <2> QED BY <2>1, HostTypes, FenceIsClaim DEF Inv, TypeOK, HostInv, ProviderInv, NoFile, Fence, Open, Completing, UploadLabels, PutLabels, Uploads, Owns, ReadClaim, Fault, Goto, Give, Claimed, state, provider
  <1>3. \A g \in Hosts \ {h} : saved'[g] = saved[g] /\ pc'[g] = pc[g] /\ drawn'[g] = drawn[g]
    BY DEF Inv, TypeOK, ReadClaim, Fault, Goto, Give, Claimed, state, provider
  <1>4. drawn'[h] >= drawn[h]
    BY DEF Inv, TypeOK, ReadClaim, Fault, Goto, Give, Claimed, state, provider
  <1>5. UNCHANGED <<size, object, claim, upload, pending>>
    BY DEF ReadClaim, provider
  <1> QED BY <1>1, <1>2, <1>3, <1>4, <1>5, LocalStep

\* Uploaded preserves the invariant.
LEMMA UploadedStep == ASSUME Inv, NEW h \in Hosts, Uploaded(h) PROVE Inv'
  <1>1. TypeOK'
    <2>1. StateOK /\ ControlOK /\ ObjectOK /\ ClaimOK /\ RestOK
      BY TypeParts DEF Inv
    <2>2. StateOK'
      BY <2>1, FileTypes DEF StateOK, Uploaded, Goto, state, provider
    <2>3. ControlOK'
      BY <2>1 DEF ControlOK, Labels, Uploaded, Goto, state, provider
    <2>4. ObjectOK' /\ ClaimOK'
      BY <2>1 DEF ObjectOK, ClaimOK, Uploaded, Goto, state, provider
    <2>5. RestOK'
      BY <2>1 DEF RestOK, Uploaded, Goto, state, provider
    <2> QED BY <2>2, <2>3, <2>4, <2>5, TypeParts
  <1>2. HostInv(h)'
    <2>1. HostInv(h) /\ ProviderInv
      BY DEF Inv
    <2> QED BY <2>1, HostTypes, FenceIsClaim DEF Inv, TypeOK, HostInv, ProviderInv, NoFile, Fence, Open, Completing, UploadLabels, PutLabels, Uploads, Uploaded, Goto, state, provider
  <1>3. \A g \in Hosts \ {h} : saved'[g] = saved[g] /\ pc'[g] = pc[g] /\ drawn'[g] = drawn[g]
    BY DEF Inv, TypeOK, Uploaded, Goto, state, provider
  <1>4. drawn'[h] >= drawn[h]
    BY DEF Inv, TypeOK, Uploaded, Goto, state, provider
  <1>5. UNCHANGED <<size, object, claim, upload, pending>>
    BY DEF Uploaded, provider
  <1> QED BY <1>1, <1>2, <1>3, <1>4, <1>5, LocalStep

\* Recheck preserves the invariant.
LEMMA RecheckStep == ASSUME Inv, NEW h \in Hosts, Recheck(h) PROVE Inv'
  <1>1. TypeOK'
    <2>1. StateOK /\ ControlOK /\ ObjectOK /\ ClaimOK /\ RestOK
      BY TypeParts DEF Inv
    <2>2. StateOK'
      BY <2>1, FileTypes DEF StateOK, Recheck, Fault, Goto, Give, Save, Acknowledge, Mismatch, state, provider
    <2>3. ControlOK'
      BY <2>1 DEF ControlOK, Labels, Recheck, Fault, Goto, Give, Save, Acknowledge, Mismatch, state, provider
    <2>4. ObjectOK' /\ ClaimOK'
      BY <2>1 DEF ObjectOK, ClaimOK, Recheck, Fault, Goto, Give, Save, Acknowledge, Mismatch, state, provider
    <2>5. RestOK'
      BY <2>1 DEF RestOK, Recheck, Fault, Goto, Give, Save, Acknowledge, Mismatch, state, provider
    <2> QED BY <2>2, <2>3, <2>4, <2>5, TypeParts
  <1>2. HostInv(h)'
    <2>1. HostInv(h) /\ ProviderInv
      BY DEF Inv
    <2>2. CASE saved'[h] = NoFile /\ pc'[h] = "idle"
      BY <2>2, ClearedFile DEF Recheck, Acknowledge, Mismatch, Save, provider, state
    <2>3. CASE ~ (saved'[h] = NoFile /\ pc'[h] = "idle")
      <3>1. saved' = saved /\ drawn' = drawn
        BY <2>3, HostTypes DEF Inv, TypeOK, Recheck, Acknowledge, Mismatch, Save, Give, Goto, state
      <3>2. UNCHANGED <<size, object, claim, upload, pending>>
        BY DEF Recheck, provider
      <3>3. pc'[h] \in {"complete", "reset", "idle"}
        BY <2>3 DEF Inv, TypeOK, Recheck, Acknowledge, Mismatch, Save, Give, Goto, state
      <3> QED BY <2>1, <3>1, <3>2, <3>3, HostTypes DEF Inv, HostInv, ProviderInv, Recheck, Fence, Open, Completing, UploadLabels, PutLabels
    <2> QED BY <2>2, <2>3
  <1>3. \A g \in Hosts \ {h} : saved'[g] = saved[g] /\ pc'[g] = pc[g] /\ drawn'[g] = drawn[g]
    BY DEF Inv, TypeOK, Recheck, Fault, Goto, Give, Save, Acknowledge, Mismatch, state, provider
  <1>4. drawn'[h] >= drawn[h]
    BY DEF Inv, TypeOK, Recheck, Fault, Goto, Give, Save, Acknowledge, Mismatch, state, provider
  <1>5. UNCHANGED <<size, object, claim, upload, pending>>
    BY DEF Recheck, provider
  <1> QED BY <1>1, <1>2, <1>3, <1>4, <1>5, LocalStep

\* Verify preserves the invariant.
LEMMA VerifyStep == ASSUME Inv, NEW h \in Hosts, Verify(h) PROVE Inv'
  <1>1. TypeOK'
    <2>1. StateOK /\ ControlOK /\ ObjectOK /\ ClaimOK /\ RestOK
      BY TypeParts DEF Inv
    <2>2. StateOK'
      BY <2>1, FileTypes DEF StateOK, Verify, Fault, Goto, Give, Save, Acknowledge, Mismatch, state, provider
    <2>3. ControlOK'
      BY <2>1 DEF ControlOK, Labels, Verify, Fault, Goto, Give, Save, Acknowledge, Mismatch, state, provider
    <2>4. ObjectOK' /\ ClaimOK'
      BY <2>1 DEF ObjectOK, ClaimOK, Verify, Fault, Goto, Give, Save, Acknowledge, Mismatch, state, provider
    <2>5. RestOK'
      BY <2>1 DEF RestOK, Verify, Fault, Goto, Give, Save, Acknowledge, Mismatch, state, provider
    <2> QED BY <2>2, <2>3, <2>4, <2>5, TypeParts
  <1>2. HostInv(h)'
    <2>1. HostInv(h) /\ ProviderInv
      BY DEF Inv
    <2>2. CASE saved'[h] = NoFile /\ pc'[h] = "idle"
      BY <2>2, ClearedFile DEF Verify, Acknowledge, Mismatch, Save, provider, state
    <2>3. CASE ~ (saved'[h] = NoFile /\ pc'[h] = "idle")
      <3>1. saved' = saved /\ drawn' = drawn
        BY <2>3, HostTypes DEF Inv, TypeOK, Verify, Acknowledge, Mismatch, Save, Give, Goto, state
      <3>2. UNCHANGED <<size, object, claim, upload, pending>>
        BY DEF Verify, provider
      <3>3. pc'[h] \in {"reset"}
        BY <2>3 DEF Inv, TypeOK, Verify, Acknowledge, Mismatch, Save, Give, Goto, state
      <3> QED BY <2>1, <3>1, <3>2, <3>3, HostTypes DEF Inv, HostInv, ProviderInv, Verify, Fence, Open, Completing, UploadLabels, PutLabels
    <2> QED BY <2>2, <2>3
  <1>3. \A g \in Hosts \ {h} : saved'[g] = saved[g] /\ pc'[g] = pc[g] /\ drawn'[g] = drawn[g]
    BY DEF Inv, TypeOK, Verify, Fault, Goto, Give, Save, Acknowledge, Mismatch, state, provider
  <1>4. drawn'[h] >= drawn[h]
    BY DEF Inv, TypeOK, Verify, Fault, Goto, Give, Save, Acknowledge, Mismatch, state, provider
  <1>5. UNCHANGED <<size, object, claim, upload, pending>>
    BY DEF Verify, provider
  <1> QED BY <1>1, <1>2, <1>3, <1>4, <1>5, LocalStep

\* VerifyPut preserves the invariant.
LEMMA VerifyPutStep == ASSUME Inv, NEW h \in Hosts, VerifyPut(h) PROVE Inv'
  <1>1. TypeOK'
    <2>1. StateOK /\ ControlOK /\ ObjectOK /\ ClaimOK /\ RestOK
      BY TypeParts DEF Inv
    <2>2. StateOK'
      BY <2>1, FileTypes DEF StateOK, VerifyPut, Fault, Goto, Give, Save, Acknowledge, PutFailed, state, provider
    <2>3. ControlOK'
      BY <2>1 DEF ControlOK, Labels, VerifyPut, Fault, Goto, Give, Save, Acknowledge, PutFailed, state, provider
    <2>4. ObjectOK' /\ ClaimOK'
      BY <2>1 DEF ObjectOK, ClaimOK, VerifyPut, Fault, Goto, Give, Save, Acknowledge, PutFailed, state, provider
    <2>5. RestOK'
      BY <2>1 DEF RestOK, VerifyPut, Fault, Goto, Give, Save, Acknowledge, PutFailed, state, provider
    <2> QED BY <2>2, <2>3, <2>4, <2>5, TypeParts
  <1>2. HostInv(h)'
    <2>1. HostInv(h) /\ ProviderInv
      BY DEF Inv
    <2>2. CASE saved'[h] = NoFile /\ pc'[h] = "idle"
      BY <2>2, ClearedFile DEF VerifyPut, Acknowledge, Save, provider, state
    <2>3. CASE ~ (saved'[h] = NoFile /\ pc'[h] = "idle")
      <3>1. saved' = saved /\ drawn' = drawn
        BY <2>3, HostTypes DEF Inv, TypeOK, VerifyPut, Acknowledge, Save, Give, Goto, state
      <3>2. UNCHANGED <<size, object, claim, upload, pending>>
        BY DEF VerifyPut, provider
      <3>3. pc'[h] \in {"idle", "put", "settle-put"}
        BY <2>3 DEF Inv, TypeOK, VerifyPut, Acknowledge, PutFailed, Save, Give, Goto, state
      <3> QED BY <2>1, <3>1, <3>2, <3>3, HostTypes DEF Inv, HostInv, ProviderInv, VerifyPut, Fence, Open, Completing, UploadLabels, PutLabels
    <2> QED BY <2>2, <2>3
  <1>3. \A g \in Hosts \ {h} : saved'[g] = saved[g] /\ pc'[g] = pc[g] /\ drawn'[g] = drawn[g]
    BY DEF Inv, TypeOK, VerifyPut, Fault, Goto, Give, Save, Acknowledge, PutFailed, state, provider
  <1>4. drawn'[h] >= drawn[h]
    BY DEF Inv, TypeOK, VerifyPut, Fault, Goto, Give, Save, Acknowledge, PutFailed, state, provider
  <1>5. UNCHANGED <<size, object, claim, upload, pending>>
    BY DEF VerifyPut, provider
  <1> QED BY <1>1, <1>2, <1>3, <1>4, <1>5, LocalStep

\* SettlePut preserves the invariant.
LEMMA SettlePutStep == ASSUME Inv, NEW h \in Hosts, SettlePut(h) PROVE Inv'
  <1>1. TypeOK'
    <2>1. StateOK /\ ControlOK /\ ObjectOK /\ ClaimOK /\ RestOK
      BY TypeParts DEF Inv
    <2>2. StateOK'
      BY <2>1, FileTypes DEF StateOK, SettlePut, Fault, Goto, Give, Save, Acknowledge, state, provider
    <2>3. ControlOK'
      BY <2>1 DEF ControlOK, Labels, SettlePut, Fault, Goto, Give, Save, Acknowledge, state, provider
    <2>4. ObjectOK' /\ ClaimOK'
      BY <2>1 DEF ObjectOK, ClaimOK, SettlePut, Fault, Goto, Give, Save, Acknowledge, state, provider
    <2>5. RestOK'
      BY <2>1 DEF RestOK, SettlePut, Fault, Goto, Give, Save, Acknowledge, state, provider
    <2> QED BY <2>2, <2>3, <2>4, <2>5, TypeParts
  <1>2. HostInv(h)'
    <2>1. HostInv(h) /\ ProviderInv
      BY DEF Inv
    <2>2. CASE saved'[h] = NoFile /\ pc'[h] = "idle"
      BY <2>2, ClearedFile DEF SettlePut, Acknowledge, Save, provider, state
    <2>3. CASE ~ (saved'[h] = NoFile /\ pc'[h] = "idle")
      <3>1. saved' = saved /\ drawn' = drawn
        BY <2>3, HostTypes DEF Inv, TypeOK, SettlePut, Acknowledge, Save, Give, Goto, state
      <3>2. UNCHANGED <<size, object, claim, upload, pending>>
        BY DEF SettlePut, provider
      <3>3. pc'[h] \in {"idle"}
        BY <2>3 DEF Inv, TypeOK, SettlePut, Acknowledge, Save, Give, Goto, state
      <3> QED BY <2>1, <3>1, <3>2, <3>3, HostTypes DEF Inv, HostInv, ProviderInv, SettlePut, Fence, Open, Completing, UploadLabels, PutLabels
    <2> QED BY <2>2, <2>3
  <1>3. \A g \in Hosts \ {h} : saved'[g] = saved[g] /\ pc'[g] = pc[g] /\ drawn'[g] = drawn[g]
    BY DEF Inv, TypeOK, SettlePut, Fault, Goto, Give, Save, Acknowledge, state, provider
  <1>4. drawn'[h] >= drawn[h]
    BY DEF Inv, TypeOK, SettlePut, Fault, Goto, Give, Save, Acknowledge, state, provider
  <1>5. UNCHANGED <<size, object, claim, upload, pending>>
    BY DEF SettlePut, provider
  <1> QED BY <1>1, <1>2, <1>3, <1>4, <1>5, LocalStep

\* Crash preserves the invariant.
LEMMA CrashStep == ASSUME Inv, NEW h \in Hosts, Crash(h) PROVE Inv'
  <1>1. TypeOK'
    <2>1. StateOK /\ ControlOK /\ ObjectOK /\ ClaimOK /\ RestOK
      BY TypeParts DEF Inv
    <2>2. StateOK'
      BY <2>1, FileTypes DEF StateOK, Crash, Fault, Goto, Give, state, provider
    <2>3. ControlOK'
      BY <2>1 DEF ControlOK, Labels, Crash, Fault, Goto, Give, state, provider
    <2>4. ObjectOK' /\ ClaimOK'
      BY <2>1 DEF ObjectOK, ClaimOK, Crash, Fault, Goto, Give, state, provider
    <2>5. RestOK'
      BY <2>1 DEF RestOK, Crash, Fault, Goto, Give, state, provider
    <2> QED BY <2>2, <2>3, <2>4, <2>5, TypeParts
  <1>2. HostInv(h)'
    <2>1. HostInv(h) /\ ProviderInv
      BY DEF Inv
    <2> QED BY <2>1, HostTypes, FenceIsClaim DEF Inv, TypeOK, HostInv, ProviderInv, NoFile, Fence, Open, Completing, UploadLabels, PutLabels, Uploads, Crash, Fault, Goto, Give, state, provider
  <1>3. \A g \in Hosts \ {h} : saved'[g] = saved[g] /\ pc'[g] = pc[g] /\ drawn'[g] = drawn[g]
    BY DEF Inv, TypeOK, Crash, Fault, Goto, Give, state, provider
  <1>4. drawn'[h] >= drawn[h]
    BY DEF Inv, TypeOK, Crash, Fault, Goto, Give, state, provider
  <1>5. UNCHANGED <<size, object, claim, upload, pending>>
    BY DEF Crash, provider
  <1> QED BY <1>1, <1>2, <1>3, <1>4, <1>5, LocalStep

\* Lose preserves the invariant.
LEMMA LoseStep == ASSUME Inv, NEW h \in Hosts, Lose(h) PROVE Inv'
  <1>1. TypeOK'
    <2>1. StateOK /\ ControlOK /\ ObjectOK /\ ClaimOK /\ RestOK
      BY TypeParts DEF Inv
    <2>2. StateOK'
      BY <2>1, FileTypes DEF StateOK, Lose, Fault, Save, provider, control
    <2>3. ControlOK'
      BY <2>1 DEF ControlOK, Labels, Lose, Fault, Save, provider, control
    <2>4. ObjectOK' /\ ClaimOK'
      BY <2>1 DEF ObjectOK, ClaimOK, Lose, Fault, Save, provider, control
    <2>5. RestOK'
      BY <2>1 DEF RestOK, Lose, Fault, Save, provider, control
    <2> QED BY <2>2, <2>3, <2>4, <2>5, TypeParts
  <1>2. HostInv(h)'
    <2>1. HostInv(h) /\ ProviderInv
      BY DEF Inv
    <2> QED BY <2>1, HostTypes, FenceIsClaim DEF Inv, TypeOK, HostInv, ProviderInv, NoFile, Fence, Open, Completing, UploadLabels, PutLabels, Uploads, Lose, Fault, Save, provider, control
  <1>3. \A g \in Hosts \ {h} : saved'[g] = saved[g] /\ pc'[g] = pc[g] /\ drawn'[g] = drawn[g]
    BY DEF Inv, TypeOK, Lose, Fault, Save, provider, control
  <1>4. drawn'[h] >= drawn[h]
    BY DEF Inv, TypeOK, Lose, Fault, Save, provider, control
  <1>5. UNCHANGED <<size, object, claim, upload, pending>>
    BY DEF Lose, provider
  <1> QED BY <1>1, <1>2, <1>3, <1>4, <1>5, LocalStep

-----------------------------------------------------------------------------
(* The claim.                                                              *)

\* A claim that appears finds nothing under way and the key absent, so it
\* disturbs no host that does nothing.
LEMMA ClaimedOnce ==
    ASSUME Inv, UNCHANGED <<size, object, upload>>,
           claim' = claim \/ (claim = NoFence /\ claim' \in Fences),
           \A u \in Uploads : Completing(u)' => Completing(u),
           NEW g \in Hosts, saved'[g] = saved[g], drawn'[g] = drawn[g], pc'[g] = pc[g]
    PROVE  HostInv(g)'
  <1>1. HostInv(g) /\ ProviderInv
    BY DEF Inv
  <1>2. Fence(g)' = Fence(g) /\ Fence(g) # NoFence
    BY FenceIsClaim DEF Fence
  <1>3. CASE claim' = claim
    BY <1>1, <1>2, <1>3 DEF HostInv, Open
  <1>4. CASE claim = NoFence
    <2>1. \A u \in Uploads : ~ Completing(u)'
      BY <1>1, <1>4 DEF ProviderInv
    <2>2. saved[g].upload = 0 /\ pc[g] \notin {"create", "parts", "complete"}
      BY <1>1, <1>2, <1>4 DEF HostInv
    <2>3. size # "small" => object = Absent
      BY <1>1, <1>4 DEF ProviderInv
    <2> QED BY <1>1, <1>2, <2>1, <2>2, <2>3 DEF HostInv, Open, PutLabels
  <1> QED BY <1>3, <1>4

\* The provider's part of the invariant when a claim is taken or is under way.
LEMMA ProviderClaim ==
    ASSUME Inv, TypeOK', size # "small", UNCHANGED <<size, object, upload, drawn>>,
           NEW k \in Hosts, NEW n \in 1 .. drawn[k],
           claim' = claim \/ (claim = NoFence /\ claim' = <<k, n>>),
           \A r \in pending' : r \in pending \/ r = <<"claim", <<k, n>>>>
    PROVE  ProviderInv' /\ \A u \in Uploads : Completing(u)' => Completing(u)
  <1>1. ProviderInv
    BY DEF Inv
  <1>2. \A u \in Uploads : <<"complete", u>> \in pending' => <<"complete", u>> \in pending
    OBVIOUS
  <1>3. \A u \in Uploads : Completing(u)' => Completing(u)
    BY <1>2 DEF Completing, Open
  <1> QED BY <1>1, <1>2, <1>3, FenceIsClaim DEF ProviderInv

\* Claim preserves the invariant.
LEMMA ClaimStep == ASSUME Inv, NEW h \in Hosts, Claim(h) PROVE Inv'
  <1>1. HostInv(h) /\ ProviderInv
    BY DEF Inv
  <1>2. UNCHANGED <<size, object, upload, saved, drawn>>
    BY DEF Claim, state
  <1>3. saved[h].fence \in 1 .. drawn[h] /\ size # "small"
    BY <1>1, HostTypes DEF Inv, HostInv, Claim, PutLabels
  <1>4. claim' = claim \/ (claim = NoFence /\ claim' = Fence(h))
    BY DEF Claim, Give, Goto
  <1>5. pending' = pending \/ pending' = pending \cup {<<"claim", Fence(h)>>}
    BY DEF Claim, Give, Goto
  <1>6. /\ \A g \in Hosts \ {h} : pc'[g] = pc[g]
        /\ pc'[h] \in {"idle", "read-claim"} \/ (claim' = Fence(h) /\ pc'[h] = Claimed(h))
    BY DEF Inv, TypeOK, Claim, Give, Goto, Owns
  <1>7. TypeOK'
    <2>1. StateOK /\ ControlOK /\ ObjectOK /\ ClaimOK /\ RestOK
      BY TypeParts DEF Inv
    <2>2. StateOK' /\ ObjectOK'
      BY <2>1, <1>2 DEF StateOK, ObjectOK
    <2>3. ControlOK'
      BY <2>1 DEF ControlOK, Labels, Claim, Claimed, Goto, Give
    <2>4. Fence(h) \in Fences /\ <<"claim", Fence(h)>> \in Requests
      BY <1>3, RequestTypes, HostTypes DEF Inv, Fence
    <2>5. ClaimOK'
      BY <2>1, <2>4, <1>4, <1>5 DEF ClaimOK
    <2>6. RestOK'
      BY <2>1 DEF RestOK, Claim, Fault, Give, Goto
    <2> QED BY <2>2, <2>3, <2>5, <2>6, TypeParts
  <1>8. ProviderInv' /\ \A u \in Uploads : Completing(u)' => Completing(u)
    BY <1>2, <1>3, <1>4, <1>5, <1>7, ProviderClaim DEF Fence
  <1>9. ASSUME NEW g \in Hosts \ {h} PROVE HostInv(g)'
    <2>1. claim' = claim \/ (claim = NoFence /\ claim' \in Fences)
      BY <1>4, RequestTypes, HostTypes DEF Inv, Fence
    <2> QED BY <1>2, <1>6, <1>8, <2>1, ClaimedOnce
  <1>10. HostInv(h)'
    <2>1. Fence(h)' = Fence(h) /\ Fence(h) # NoFence
      BY <1>2, FenceIsClaim DEF Fence
    <2>2. claim = NoFence \/ claim = Fence(h) => object = Absent \/ saved[h].upload # 0
      BY <1>1, <1>3 DEF HostInv, ProviderInv, Claim
    <2>3. claim = NoFence => saved[h].upload = 0 /\ \A u \in Uploads : ~ Completing(u)
      BY <1>1, <2>1 DEF HostInv, ProviderInv
    <2>4. claim' = Fence(h) => \A u \in Uploads : Completing(u)' => saved[h].upload = u
      BY <1>1, <1>4, <1>8, <2>3 DEF HostInv
    <2> QED BY <1>1, <1>2, <1>3, <1>4, <1>6, <2>1, <2>2, <2>3, <2>4, HostTypes DEF Inv, HostInv, Open, UploadLabels, PutLabels, Claimed, Claim
  <1> QED BY <1>7, <1>8, <1>9, <1>10 DEF Inv

-----------------------------------------------------------------------------
(* The multipart upload of the host whose fence is in the claim.           *)

\* The other hosts have no upload, so they do not mind what the owner does.
LEMMA OtherHosts ==
    ASSUME Inv, NEW h \in Hosts, claim = Fence(h), UNCHANGED <<size, claim>>,
           object' = object \/ object' # Absent,
           NEW g \in Hosts \ {h}, saved'[g] = saved[g], drawn'[g] = drawn[g], pc'[g] = pc[g]
    PROVE  HostInv(g)'
  <1>1. HostInv(g)
    BY DEF Inv
  <1>2. claim # Fence(g) /\ Fence(g)' = Fence(g)
    BY DEF Fence
  <1>3. saved[g].upload = 0 /\ pc[g] \notin {"create", "parts", "complete"}
    BY <1>1, <1>2 DEF HostInv
  <1> QED BY <1>1, <1>2, <1>3 DEF HostInv, Open, Uploads, UploadLabels

\* An upload of the provider keeps its type.
LEMMA UploadTypes ==
    ASSUME upload \in [Uploads -> Statuses], NEW u \in Uploads
    PROVE  /\ \A x \in {"none", "open", "done", "gone"} : [upload EXCEPT ![u].status = x] \in [Uploads -> Statuses]
           /\ \A n \in Parts : [upload EXCEPT ![u].parts = @ \cup {n}] \in [Uploads -> Statuses]
  BY DEF Statuses

\* What the owner's upload steps have in common: the claim stays, nothing but
\* the owner's file changes, and no completion is added.
LEMMA OwnerStep ==
    ASSUME Inv, TypeOK', NEW h \in Hosts, claim = Fence(h),
           UNCHANGED <<size, claim, object, pending, drawn>>,
           \A g \in Hosts \ {h} : saved'[g] = saved[g] /\ pc'[g] = pc[g],
           \A u \in Uploads : Completing(u)' => Completing(u),
           \A u \in Uploads : upload[u].status # "none" => upload'[u].status # "none",
           HostInv(h)'
    PROVE  Inv'
  <1>1. ProviderInv'
    BY DEF Inv, ProviderInv
  <1>2. \A g \in Hosts \ {h} : HostInv(g)'
    BY OtherHosts
  <1> QED BY <1>1, <1>2 DEF Inv

\* Create preserves the invariant.
LEMMA CreateStep == ASSUME Inv, NEW h \in Hosts, Create(h) PROVE Inv'
  <1>1. HostInv(h) /\ ProviderInv
    BY DEF Inv
  <1>2. UNCHANGED <<size, claim, object, pending, drawn>>
    BY DEF Create, Save, state
  <1>3. claim = Fence(h) /\ object = Absent /\ size # "small" /\ saved[h].fence # 0
    BY <1>1 DEF HostInv, Create, PutLabels
  <1>4. \A u \in Uploads : ~ Completing(u)
    <2>1. pc[h] = "create"
      BY DEF Create
    <2>2. 0 \notin Uploads
      BY DEF Uploads
    <2> QED BY <1>1, <1>3, <2>1, <2>2 DEF HostInv
  <1>5. upload' = upload \/ \E u \in Unused : upload' = [upload EXCEPT ![u].status = "open"]
    BY DEF Create, Created
  <1>6. \A u \in Uploads : Completing(u)' => Completing(u)
    <2>1. \A u \in Unused : <<"complete", u>> \notin pending
      BY <1>1 DEF ProviderInv, Unused
    <2> QED BY <1>2, <1>4, <1>5, <2>1 DEF Completing, Open, Unused, Inv, TypeOK
  <1>7. \A u \in Uploads : upload[u].status # "none" => upload'[u].status # "none"
    BY <1>5 DEF Inv, TypeOK, Statuses, Unused
  <1>8. \A g \in Hosts \ {h} : saved'[g] = saved[g] /\ pc'[g] = pc[g]
    BY DEF Inv, TypeOK, Create, Save, Give, Goto, state
  <1>9. \/ saved' = saved /\ pc'[h] \in {"idle", "create"}
        \/ \E u \in Unused : /\ upload' = [upload EXCEPT ![u].status = "open"]
                             /\ saved'[h] = [saved[h] EXCEPT !.upload = u, !.parts = {}]
                             /\ pc'[h] = "parts"
    BY DEF Inv, TypeOK, Create, Created, Save, Give, Goto, state
  <1>10. TypeOK'
    <2>1. StateOK /\ ControlOK /\ ObjectOK /\ ClaimOK /\ RestOK
      BY TypeParts DEF Inv
    <2>2. StateOK'
      <3>1. saved' = saved \/ \E u \in Unused : saved' = [saved EXCEPT ![h] = [saved[h] EXCEPT !.upload = u, !.parts = {}]]
        BY DEF Create, Save, state
      <3>2. saved[h] \in Files /\ Unused \subseteq Uploads
        BY <2>1 DEF StateOK, Unused
      <3>3. \E f \in Files : saved' = [saved EXCEPT ![h] = f]
        BY <2>1, <3>1, <3>2, FileTypes DEF StateOK
      <3> QED BY <2>1, <1>2, <3>3 DEF StateOK
    <2>3. ControlOK'
      <3>1. \E l \in Labels : pc' = [pc EXCEPT ![h] = l]
        BY <2>1 DEF ControlOK, Labels, Create, Goto, Give
      <3>2. tries' = tries /\ (retries' = retries \/ retries' = [retries EXCEPT ![h] = @ + 1])
        BY DEF Create, Goto, Give
      <3> QED BY <2>1, <3>1, <3>2 DEF ControlOK
    <2>4. ObjectOK' /\ ClaimOK'
      BY <2>1, <1>2, <1>5, UploadTypes DEF ObjectOK, ClaimOK, Unused
    <2>5. RestOK'
      <3>1. size' = size /\ receipts' = receipts /\ lost' = lost
        BY DEF Create, Give
      <3>2. faults' = faults \/ \E k : Fault(k)
        BY DEF Create
      <3> QED BY <2>1, <3>1, <3>2 DEF RestOK, Fault
    <2> QED BY <2>2, <2>3, <2>4, <2>5, TypeParts
  <1>11. HostInv(h)'
    <2>1. CASE saved' = saved /\ pc'[h] \in {"idle", "create"}
      BY <2>1, <1>1, <1>2, <1>3, <1>4, <1>6, <1>7 DEF HostInv, Fence, Open, UploadLabels, PutLabels, Create, Uploads
    <2>2. ASSUME NEW u \in Unused, upload' = [upload EXCEPT ![u].status = "open"],
                 saved'[h] = [saved[h] EXCEPT !.upload = u, !.parts = {}], pc'[h] = "parts"
          PROVE  HostInv(h)'
      <3>1. saved[h] \in Files /\ u \in Uploads
        BY HostTypes DEF Inv, Unused
      <3>2. saved'[h].upload = u /\ saved'[h].fence = saved[h].fence /\ u # 0
        BY <2>2, <3>1 DEF Files, Uploads
      <3>3. upload'[u].status = "open"
        BY <2>2, <3>1 DEF Inv, TypeOK, Statuses
      <3> QED BY <1>1, <1>2, <1>3, <1>4, <1>6, <2>2, <3>2, <3>3 DEF HostInv, Fence, UploadLabels, PutLabels
    <2> QED BY <1>9, <2>1, <2>2
  <1> QED BY <1>2, <1>3, <1>6, <1>7, <1>8, <1>10, <1>11, OwnerStep

\* UploadPart preserves the invariant.
LEMMA UploadPartStep == ASSUME Inv, NEW h \in Hosts, UploadPart(h) PROVE Inv'
  <1> DEFINE u == saved[h].upload
             n == NextPart(h)
  <1>1. HostInv(h) /\ ProviderInv
    BY DEF Inv
  <1>2. UNCHANGED <<size, claim, object, pending, drawn>>
    BY DEF UploadPart, Save, state
  <1>3. claim = Fence(h) /\ size # "small" /\ saved[h].fence # 0 /\ u \in Uploads /\ n \in Parts
    BY <1>1, HostTypes, NextPartType DEF Inv, HostInv, UploadPart, UploadLabels, PutLabels
  <1>4. upload' = upload \/ upload' = [upload EXCEPT ![u].parts = @ \cup {n}]
    BY DEF UploadPart, Received
  <1>5. \A v \in Uploads : upload'[v].status = upload[v].status
    BY <1>3, <1>4 DEF Inv, TypeOK, Statuses
  <1>6. \A v \in Uploads : Completing(v)' <=> Completing(v)
    BY <1>2, <1>5 DEF Completing, Open
  <1>7. \/ saved' = [saved EXCEPT ![h] = Listed(h, n)] /\ pc' = pc
        \/ saved' = [saved EXCEPT ![h] = Forgotten(h)] /\ ~Open(u) /\ pc' = [pc EXCEPT ![h] = "idle"]
        \/ saved' = saved /\ \E l \in {"reset", "parts"} : pc' = [pc EXCEPT ![h] = l]
    BY DEF UploadPart, Save, Give, Goto, state, control
  <1>8. \A g \in Hosts \ {h} : saved'[g] = saved[g] /\ pc'[g] = pc[g]
    BY <1>7 DEF Inv, TypeOK
  <1>9. TypeOK'
    <2>1. StateOK /\ ControlOK /\ ObjectOK /\ ClaimOK /\ RestOK
      BY TypeParts DEF Inv
    <2>2. StateOK'
      <3>1. Listed(h, n) \in Files /\ Forgotten(h) \in Files
        BY <2>1, <1>3, FileTypes DEF StateOK, Listed, Forgotten
      <3> QED BY <2>1, <1>2, <1>7, <3>1 DEF StateOK
    <2>3. ControlOK'
      <3>1. \E l \in Labels : pc' = [pc EXCEPT ![h] = l]
        BY <2>1, <1>7 DEF ControlOK, Labels
      <3>2. tries' = tries /\ (retries' = retries \/ retries' = [retries EXCEPT ![h] = @ + 1])
        BY DEF UploadPart, Goto, Give, control
      <3> QED BY <2>1, <3>1, <3>2 DEF ControlOK
    <2>4. ObjectOK' /\ ClaimOK'
      <3> HIDE DEF n, u
      <3>1. upload' \in [Uploads -> Statuses]
        <4>1. upload \in [Uploads -> Statuses]
          BY <2>1 DEF ObjectOK
        <4>2. [upload EXCEPT ![u].parts = @ \cup {n}] \in [Uploads -> Statuses]
          BY <1>3, <4>1 DEF Statuses
        <4> QED BY <1>4, <4>1, <4>2
      <3> QED BY <2>1, <1>2, <3>1 DEF ObjectOK, ClaimOK
    <2>5. RestOK'
      <3>1. size' = size /\ receipts' = receipts /\ lost' = lost
        BY DEF UploadPart, Give
      <3>2. faults' = faults \/ \E k : Fault(k)
        BY DEF UploadPart
      <3> QED BY <2>1, <3>1, <3>2 DEF RestOK, Fault
    <2> QED BY <2>2, <2>3, <2>4, <2>5, TypeParts
  <1>10. HostInv(h)'
    <2>1. saved[h] \in Files
      BY HostTypes DEF Inv
    <2>a. /\ Listed(h, n).fence = saved[h].fence /\ Listed(h, n).upload = u
          /\ Forgotten(h).fence = saved[h].fence /\ Forgotten(h).upload = 0
      BY <2>1 DEF Files, Listed, Forgotten
    <2>b. pc[h] = "parts"
      BY DEF UploadPart
    <2>c. \/ saved'[h] = Listed(h, n) /\ pc'[h] = "parts"
          \/ saved'[h] = Forgotten(h) /\ ~Open(u) /\ pc'[h] = "idle"
          \/ saved'[h] = saved[h] /\ pc'[h] \in {"reset", "parts"}
      BY <1>7, <2>b DEF Inv, TypeOK
    <2>2. saved'[h].fence = saved[h].fence /\ Fence(h)' = Fence(h)
      BY <2>a, <2>c DEF Fence
    <2>3. \/ saved'[h].upload = u /\ pc'[h] \in {"parts", "reset"}
          \/ saved'[h].upload = 0 /\ ~Open(u) /\ pc'[h] = "idle"
      BY <2>a, <2>c
    <2>4. \A v \in Uploads : Completing(v) => Open(v)
      BY DEF Completing
    <2> QED BY <1>1, <1>2, <1>3, <1>5, <1>6, <2>2, <2>3, <2>4, HostTypes DEF Inv, HostInv, Open, UploadLabels, PutLabels, Uploads
  <1> QED BY <1>2, <1>3, <1>5, <1>6, <1>8, <1>9, <1>10, OwnerStep

\* A state file that forgets its upload keeps its fence.
LEMMA ForgottenFile ==
    ASSUME Inv, NEW h \in Hosts
    PROVE  Forgotten(h) \in Files /\ Forgotten(h).fence = saved[h].fence /\ Forgotten(h).upload = 0
  BY HostTypes DEF Inv, Forgotten, Files

\* The provider carries out a completion: the key was absent, and nothing that
\* could be completed over it is left.
LEMMA ProviderCompletes ==
    ASSUME Inv, UNCHANGED <<size, claim, drawn>>, size # "small", claim # NoFence, object = Absent,
           object' # Absent, NEW u \in Uploads, Open(u),
           upload' = [upload EXCEPT ![u].status = "done"],
           \A v \in Uploads : Completing(v) => u = v,
           pending' \subseteq pending
    PROVE  /\ ProviderInv' /\ \A v \in Uploads : ~Completing(v)'
           /\ \A v \in Uploads : upload'[v].status # "none" <=> upload[v].status # "none"
  <1>1. \A v \in Uploads : upload'[v].status = IF v = u THEN "done" ELSE upload[v].status
    BY DEF Inv, TypeOK, Statuses
  <1>2. ASSUME NEW v \in Uploads, Completing(v)' PROVE FALSE
    <2>1. v # u /\ Open(v)
      BY <1>1, <1>2 DEF Completing, Open
    <2>2. Completing(v)
      BY <1>2, <2>1 DEF Completing
    <2> QED BY <2>1, <2>2
  <1> QED BY <1>1, <1>2 DEF Inv, ProviderInv, Open

\* CompleteUpload preserves the invariant.
LEMMA CompleteUploadStep == ASSUME Inv, NEW h \in Hosts, CompleteUpload(h) PROVE Inv'
  <1> DEFINE u == saved[h].upload
  <1>1. HostInv(h) /\ ProviderInv
    BY DEF Inv
  <1>2. UNCHANGED <<size, claim, drawn>> /\ pc[h] = "complete"
    BY DEF CompleteUpload, Save, state
  <1>3. claim = Fence(h) /\ size # "small" /\ saved[h].fence # 0 /\ u \in Uploads
    BY <1>1, <1>2, HostTypes DEF Inv, HostInv, UploadLabels, PutLabels
  <1>4. Fence(h) # NoFence /\ \A v \in Uploads : Completing(v) => u = v
    BY <1>1, <1>3, FenceIsClaim DEF HostInv, Fence
  <1>5. Open(u) => object = Absent
    BY <1>1 DEF HostInv
  <1>6. \/ /\ Open(u) /\ \E good \in BOOLEAN : object' = [by |-> <<"upload", u>>, good |-> good]
           /\ upload' = [upload EXCEPT ![u].status = "done"] /\ pending' = pending
        \/ UNCHANGED <<object, upload>> /\ pending' = pending \cup {<<"complete", u>>} /\ saved' = saved
        \/ UNCHANGED <<object, upload, pending>>
    BY DEF CompleteUpload, Complete, Store, state
  <1>7. \/ saved' = [saved EXCEPT ![h] = Forgotten(h)] /\ pc' = [pc EXCEPT ![h] = "idle"]
        \/ saved' = saved /\ \E l \in {"verify", "recheck", "recheck-limited", "reset"} : pc' = [pc EXCEPT ![h] = l]
    BY DEF CompleteUpload, Save, Give, Goto, state
  <1>8. (~Open(u) \/ object' # Absent) \/ saved' = saved
    BY <1>6 DEF CompleteUpload, Complete, Store, Absent, state
  <1>9. pc'[h] = "verify" => object' # Absent
    <2>1. \/ \E good \in BOOLEAN : object' = [by |-> <<"upload", u>>, good |-> good]
          \/ \E l \in {"idle", "recheck", "recheck-limited", "reset"} : pc' = [pc EXCEPT ![h] = l]
      BY DEF CompleteUpload, Complete, Store, Give, Goto
    <2>2. CASE \E good \in BOOLEAN : object' = [by |-> <<"upload", u>>, good |-> good]
      BY <2>2, <1>3, ObjectTypes
    <2>3. CASE \E l \in {"idle", "recheck", "recheck-limited", "reset"} : pc' = [pc EXCEPT ![h] = l]
      BY <2>3 DEF Inv, TypeOK
    <2> QED BY <2>1, <2>2, <2>3
  <1>10. TypeOK'
    <2>1. StateOK /\ ControlOK /\ ObjectOK /\ ClaimOK /\ RestOK
      BY TypeParts DEF Inv
    <2>2. StateOK'
      BY <2>1, <1>2, <1>7, ForgottenFile DEF StateOK
    <2>3. ControlOK'
      <3>1. \E l \in Labels : pc' = [pc EXCEPT ![h] = l]
        BY <1>7 DEF Labels
      <3>2. retries' = retries /\ (tries' = tries \/ tries' = [tries EXCEPT ![h] = @ + 1])
        BY DEF CompleteUpload, Goto, Give
      <3> QED BY <2>1, <3>1, <3>2 DEF ControlOK
    <2>4. ObjectOK' /\ ClaimOK'
      <3> HIDE DEF u
      <3>1. object' \in {Absent} \cup Objects
        BY <2>1, <1>3, <1>6, ObjectTypes DEF ObjectOK
      <3>2. upload' \in [Uploads -> Statuses]
        BY <2>1, <1>3, <1>6, UploadTypes DEF ObjectOK
      <3>3. ClaimOK'
        BY <2>1, <1>2, <1>3, <1>6, RequestTypes DEF ClaimOK
      <3> QED BY <3>1, <3>2, <3>3 DEF ObjectOK
    <2>5. RestOK'
      <3>1. size' = size /\ receipts' = receipts /\ lost' = lost
        BY DEF CompleteUpload, Give
      <3>2. faults' = faults \/ \E k : Fault(k)
        BY DEF CompleteUpload
      <3> QED BY <2>1, <3>1, <3>2 DEF RestOK, Fault
    <2> QED BY <2>2, <2>3, <2>4, <2>5, TypeParts
  <1>11. \A g \in Hosts \ {h} : HostInv(g)'
    <2>1. object' = object \/ object' # Absent
      BY <1>6 DEF Absent
    <2>2. \A g \in Hosts \ {h} : saved'[g] = saved[g] /\ pc'[g] = pc[g] /\ drawn'[g] = drawn[g]
      BY <1>2, <1>7 DEF Inv, TypeOK
    <2> QED BY <1>2, <1>3, <2>1, <2>2, OtherHosts
  <1>12. /\ ProviderInv' /\ \A v \in Uploads : Completing(v)' => u = v
         /\ \A v \in Uploads : upload[v].status # "none" => upload'[v].status # "none"
         /\ object' = object \/ (object' # Absent /\ ~Open(u)')
    <2>1. CASE Open(u) /\ object' # Absent /\ upload' = [upload EXCEPT ![u].status = "done"] /\ pending' = pending
      <3>1. ~Open(u)'
        <4>1. upload'[u].status = "done"
          BY <2>1, <1>3 DEF Inv, TypeOK, Statuses
        <4>2. CASE saved' = saved
          BY <4>1, <4>2 DEF Open
        <4>3. CASE saved' = [saved EXCEPT ![h] = Forgotten(h)]
          <5>1. saved'[h].upload = 0
            BY <4>3, ForgottenFile DEF Inv, TypeOK
          <5> QED BY <5>1 DEF Open, Uploads
        <4> QED BY <1>7, <4>2, <4>3
      <3> HIDE DEF u
      <3> QED BY <2>1, <3>1, <1>2, <1>3, <1>4, <1>5, ProviderCompletes
    <2>2. CASE UNCHANGED <<object, upload>> /\ pending' = pending \cup {<<"complete", u>>}
      <3>1. \A v \in Uploads : Open(v)' <=> Open(v)
        BY <2>2 DEF Open
      <3>2. \A v \in Uploads : Completing(v)' => u = v
        BY <2>2, <1>4, <3>1 DEF Completing
      <3>3. \A v \in Uploads : Completing(v)' => object' = Absent
        BY <2>2, <3>1, <3>2, <1>5 DEF Completing
      <3>4. upload[u].status # "none"
        BY <1>1, <1>3 DEF HostInv, Uploads
      <3> HIDE DEF u
      <3> QED BY <2>2, <1>1, <1>2, <1>3, <1>4, <3>2, <3>3, <3>4 DEF ProviderInv
    <2>3. CASE UNCHANGED <<object, upload, pending>>
      BY <2>3, <1>1, <1>2, <1>4 DEF ProviderInv, Completing, Open
    <2> QED BY <1>6, <2>1, <2>2, <2>3 DEF Absent
  <1>13. HostInv(h)'
    <2>0. Forgotten(h) # saved[h]
      BY <1>3, ForgottenFile DEF Uploads
    <2>1. \/ saved'[h].upload = 0 /\ pc'[h] = "idle" /\ (~Open(u) \/ object' # Absent)
          \/ /\ saved'[h] = saved[h] /\ pc'[h] \in {"verify", "recheck", "recheck-limited", "reset"}
             /\ pc'[h] = "verify" => object' # Absent
      BY <1>7, <1>8, <1>9, <2>0, ForgottenFile DEF Inv, TypeOK
    <2>2. saved'[h].fence = saved[h].fence /\ Fence(h)' = Fence(h)
      BY <1>7, ForgottenFile DEF Fence, Inv, TypeOK
    <2>3. \A v \in Uploads : Completing(v)' => Open(v)' /\ object' = Absent
      BY <1>12 DEF ProviderInv, Completing
    <2> QED BY <1>1, <1>2, <1>3, <1>6, <1>12, <2>1, <2>2, <2>3, HostTypes DEF Inv, HostInv, Open, UploadLabels, PutLabels, Uploads
  <1> QED BY <1>10, <1>11, <1>12, <1>13 DEF Inv

\* An upload that ends without being completed can no longer be completed.
LEMMA UploadGone ==
    ASSUME Inv, NEW u \in Uploads, Open(u), upload' = [upload EXCEPT ![u].status = "gone"],
           pending' = pending
    PROVE  /\ \A v \in Uploads : upload'[v].status = IF v = u THEN "gone" ELSE upload[v].status
           /\ \A v \in Uploads : Completing(v)' => Completing(v) /\ v # u
  BY DEF Inv, TypeOK, Statuses, Completing, Open

\* Reset preserves the invariant.
LEMMA ResetStep == ASSUME Inv, NEW h \in Hosts, Reset(h) PROVE Inv'
  <1> DEFINE u == saved[h].upload
  <1>1. HostInv(h) /\ ProviderInv
    BY DEF Inv
  <1>2. UNCHANGED <<size, claim, object, pending, drawn>> /\ pc[h] = "reset"
    BY DEF Reset, Save, state
  <1>3. claim = Fence(h) /\ size # "small" /\ saved[h].fence # 0 /\ u \in Uploads
    BY <1>1, <1>2, HostTypes DEF Inv, HostInv, UploadLabels, PutLabels
  <1>4. upload' = upload \/ (Open(u) /\ upload' = [upload EXCEPT ![u].status = "gone"])
    BY DEF Reset
  <1>5. \/ saved' = saved
        \/ saved' = [saved EXCEPT ![h] = Forgotten(h)] /\ Open(u) /\ upload' = [upload EXCEPT ![u].status = "gone"]
    BY DEF Reset, Save, state
  <1>6. pc' = [pc EXCEPT ![h] = "idle"] /\ UNCHANGED <<retries, tries, receipts, lost>>
    BY DEF Reset, Give, Goto
  <1>7. /\ \A v \in Uploads : Completing(v)' => Completing(v)
        /\ \A v \in Uploads : upload'[v].status = upload[v].status \/ upload'[v].status = "gone"
        /\ \A v \in Uploads : saved' # saved /\ Completing(v)' => v # u
    <2> HIDE DEF u
    <2>1. CASE upload' = upload /\ saved' = saved
      BY <2>1, <1>2 DEF Completing, Open
    <2>2. CASE Open(u) /\ upload' = [upload EXCEPT ![u].status = "gone"]
      BY <2>2, <1>2, <1>3, UploadGone
    <2> QED BY <1>4, <1>5, <2>1, <2>2
  <1>8. TypeOK'
    <2>1. StateOK /\ ControlOK /\ ObjectOK /\ ClaimOK /\ RestOK
      BY TypeParts DEF Inv
    <2>2. StateOK'
      BY <2>1, <1>2, <1>5, ForgottenFile DEF StateOK
    <2>3. ControlOK'
      BY <2>1, <1>6 DEF ControlOK, Labels
    <2>4. ObjectOK' /\ ClaimOK'
      <3> HIDE DEF u
      <3> QED BY <2>1, <1>2, <1>3, <1>4, UploadTypes DEF ObjectOK, ClaimOK
    <2>5. RestOK'
      <3>1. faults' = faults \/ \E k : Fault(k)
        BY DEF Reset
      <3> QED BY <2>1, <1>2, <1>6, <3>1 DEF RestOK, Fault
    <2> QED BY <2>2, <2>3, <2>4, <2>5, TypeParts
  <1>9. \A g \in Hosts \ {h} : saved'[g] = saved[g] /\ pc'[g] = pc[g]
    BY <1>5, <1>6 DEF Inv, TypeOK
  <1>10. HostInv(h)'
    <2>1. \/ saved'[h] = saved[h]
          \/ saved' # saved /\ saved'[h].upload = 0 /\ saved'[h].fence = saved[h].fence
      BY <1>5, ForgottenFile DEF Inv, TypeOK
    <2>2. pc'[h] = "idle"
      BY <1>6 DEF Inv, TypeOK
    <2>3. Fence(h)' = Fence(h)
      BY <2>1 DEF Fence
    <2>4. \A v \in Uploads : Open(v)' => Open(v)
      BY <1>7 DEF Open
    <2> QED BY <1>1, <1>2, <1>3, <1>7, <2>1, <2>2, <2>3, <2>4, HostTypes DEF Inv, HostInv, Open, UploadLabels, PutLabels, Uploads
  <1> QED BY <1>2, <1>3, <1>7, <1>8, <1>9, <1>10, OwnerStep

-----------------------------------------------------------------------------
(* The single PUT, and the provider on its own.                            *)

\* Nothing is completing while the ciphertext is small.
LEMMA SmallInv ==
    ASSUME Inv, size = "small"
    PROVE  /\ claim = NoFence /\ \A r \in pending : r[1] = "put"
           /\ \A h \in Hosts : saved[h] = NoFile /\ pc[h] \in PutLabels \cup {"idle"}
  BY DEF Inv, ProviderInv, HostInv

\* A PUT that is answered or lost keeps the invariant of a small ciphertext.
LEMMA SmallStep ==
    ASSUME Inv, TypeOK', size = "small", UNCHANGED <<size, claim, upload, saved, drawn>>,
           object' = object \/ object' # Absent,
           \A r \in pending' : r[1] = "put",
           \A h \in Hosts : pc'[h] \in PutLabels \cup {"idle"},
           \A h \in Hosts : pc'[h] = "verify-put" => pc[h] = "verify-put" \/ object' # Absent
    PROVE  Inv'
  <1>1. \A u \in Uploads : <<"complete", u>> \notin pending'
    OBVIOUS
  <1>2. ProviderInv'
    BY <1>1, SmallInv DEF ProviderInv, Completing
  <1>3. ASSUME NEW h \in Hosts PROVE HostInv(h)'
    <2>1. HostInv(h) /\ saved'[h] = NoFile /\ claim' # Fence(h)'
      BY SmallInv, FenceIsClaim DEF Inv, Fence
    <2> QED BY <2>1 DEF HostInv, NoFile, Open, Uploads, UploadLabels, PutLabels
  <1> QED BY <1>2, <1>3 DEF Inv

\* Put preserves the invariant.
LEMMA PutStep == ASSUME Inv, NEW h \in Hosts, Put(h) PROVE Inv'
  <1>1. HostInv(h) /\ ProviderInv
    BY DEF Inv
  <1>2. UNCHANGED <<size, claim, upload, saved, drawn, lost>> /\ pc[h] = "put"
    BY DEF Put, state
  <1>3. size = "small"
    BY <1>1, <1>2 DEF HostInv, PutLabels
  <1>4. object' = object \/ \E good \in BOOLEAN : object' = [by |-> <<"put", h>>, good |-> good]
    BY DEF Put, Store
  <1>5. pending' = pending \/ pending' = pending \cup {<<"put", h>>}
    BY DEF Put
  <1>6. \E l \in {"idle", "put", "settle-put", "verify-put"} :
          pc' = [pc EXCEPT ![h] = l] /\ (l = "verify-put" => object' # object)
    <2>1. \/ \E l \in {"idle", "put", "settle-put"} : pc' = [pc EXCEPT ![h] = l]
          \/ /\ object = Absent /\ pc' = [pc EXCEPT ![h] = "verify-put"]
             /\ \E good \in BOOLEAN : object' = [by |-> <<"put", h>>, good |-> good]
      BY DEF Put, Store, PutFailed, Give, Goto
    <2> QED BY <2>1, ObjectTypes
  <1>7. object' = object \/ object' # Absent
    BY <1>4, ObjectTypes
  <1>8. TypeOK'
    <2>1. StateOK /\ ControlOK /\ ObjectOK /\ ClaimOK /\ RestOK
      BY TypeParts DEF Inv
    <2>2. StateOK'
      BY <2>1, <1>2 DEF StateOK
    <2>3. ControlOK'
      <3>1. \E l \in Labels : pc' = [pc EXCEPT ![h] = l]
        BY <1>6 DEF Labels
      <3>2. retries' = retries /\ (tries' = tries \/ tries' = [tries EXCEPT ![h] = @ + 1])
        BY DEF Put, PutFailed, Goto, Give
      <3> QED BY <2>1, <3>1, <3>2 DEF ControlOK
    <2>4. ObjectOK' /\ ClaimOK'
      BY <2>1, <1>2, <1>4, <1>5, ObjectTypes, RequestTypes DEF ObjectOK, ClaimOK
    <2>5. RestOK'
      <3>1. receipts' = receipts
        BY DEF Put, PutFailed, Give
      <3>2. faults' = faults \/ \E k : Fault(k)
        BY DEF Put
      <3> QED BY <2>1, <1>2, <3>1, <3>2 DEF RestOK, Fault
    <2> QED BY <2>2, <2>3, <2>4, <2>5, TypeParts
  <1>9. \A r \in pending' : r[1] = "put"
    BY <1>3, <1>5, SmallInv
  <1>10. \A g \in Hosts : /\ pc'[g] \in PutLabels \cup {"idle"}
                          /\ pc'[g] = "verify-put" => pc[g] = "verify-put" \/ object' # Absent
    BY <1>3, <1>6, <1>7, SmallInv DEF Inv, TypeOK, PutLabels
  <1> QED BY <1>2, <1>3, <1>7, <1>8, <1>9, <1>10, SmallStep

\* A request or an upload that is lost leaves less that could go wrong.
LEMMA QuietStep ==
    ASSUME Inv, TypeOK', UNCHANGED <<size, object, claim, saved, drawn, pc>>, pending' \subseteq pending,
           \A u \in Uploads : upload'[u].status = upload[u].status \/ upload'[u].status = "gone"
    PROVE  Inv'
  <1>1. \A u \in Uploads : Open(u)' => Open(u)
    BY DEF Open
  <1>2. \A u \in Uploads : Completing(u)' => Completing(u)
    BY <1>1 DEF Completing
  <1>3. ProviderInv'
    BY <1>2 DEF Inv, ProviderInv
  <1>4. ASSUME NEW h \in Hosts PROVE HostInv(h)'
    <2>1. HostInv(h) /\ Fence(h)' = Fence(h)
      BY DEF Inv, Fence
    <2> QED BY <1>1, <1>2, <2>1, HostTypes DEF Inv, HostInv, Open, Uploads
  <1> QED BY <1>3, <1>4 DEF Inv

\* Expire preserves the invariant.
LEMMA ExpireStep == ASSUME Inv, NEW u \in Uploads, Expire(u) PROVE Inv'
  <1>1. UNCHANGED <<size, lost, object, claim, pending, saved, drawn, pc, retries, tries, receipts>>
    BY DEF Expire, state, control
  <1>2. Open(u) /\ upload' = [upload EXCEPT ![u].status = "gone"] /\ \E k : Fault(k)
    BY DEF Expire
  <1>3. TypeOK'
    <2>1. upload' \in [Uploads -> Statuses]
      BY <1>2, UploadTypes DEF Inv, TypeOK
    <2> QED BY <1>1, <1>2, <2>1 DEF Inv, TypeOK, Fault
  <1>4. \A v \in Uploads : upload'[v].status = upload[v].status \/ upload'[v].status = "gone"
    BY <1>1, <1>2, UploadGone
  <1> QED BY <1>1, <1>3, <1>4, QuietStep

\* Settle preserves the invariant.
LEMMA SettleStep == ASSUME Inv, NEW r \in pending, Settle(r) PROVE Inv'
  <1>1. ProviderInv /\ r \in Requests /\ StateOK /\ ControlOK /\ ObjectOK /\ ClaimOK /\ RestOK
    BY TypeParts DEF Inv, TypeOK
  <1>2. UNCHANGED <<size, lost, saved, drawn, pc, retries, tries, receipts, faults>> /\ pending' = pending \ {r}
    BY DEF Settle, state, control
  <1>3. StateOK' /\ ControlOK' /\ RestOK'
    BY <1>1, <1>2 DEF StateOK, ControlOK, RestOK
  <1>4. CASE UNCHANGED <<object, claim, upload>>
    <2>1. ObjectOK' /\ ClaimOK'
      BY <1>1, <1>2, <1>4 DEF ObjectOK, ClaimOK
    <2>2. TypeOK'
      BY <1>3, <2>1, TypeParts
    <2> QED BY <1>2, <1>4, <2>2, QuietStep
  <1>5. CASE r[1] = "claim" /\ claim = NoFence /\ claim' = r[2] /\ UNCHANGED <<object, upload>>
    <2>1. PICK k \in Hosts, n \in Nat : r = <<"claim", <<k, n>>>>
      BY <1>1, <1>5 DEF Requests, Fences
    <2>2. claim' = <<k, n>> /\ claim' \in Fences /\ n \in 1 .. drawn[k]
      BY <1>1, <1>5, <2>1 DEF ProviderInv, Fences
    <2>3. size # "small"
      BY <2>1, SmallInv
    <2>4. TypeOK'
      <3>1. ObjectOK' /\ ClaimOK'
        BY <1>1, <1>2, <1>5, <2>2 DEF ObjectOK, ClaimOK
      <3> QED BY <1>3, <3>1, TypeParts
    <2>5. ProviderInv' /\ \A u \in Uploads : Completing(u)' => Completing(u)
      BY <1>2, <1>5, <2>2, <2>3, <2>4, ProviderClaim
    <2>6. \A h \in Hosts : HostInv(h)'
      BY <1>2, <1>5, <2>2, <2>5, ClaimedOnce
    <2> QED BY <2>4, <2>5, <2>6 DEF Inv
  <1>6. CASE r[1] = "complete" /\ Open(r[2]) /\ Complete(r[2], TRUE) /\ UNCHANGED claim
    <2>1. PICK u \in Uploads : r = <<"complete", u>>
      BY <1>1, <1>6 DEF Requests
    <2>2. /\ Open(u) /\ object' = [by |-> <<"upload", u>>, good |-> TRUE]
          /\ upload' = [upload EXCEPT ![u].status = "done"] /\ claim' = claim
      BY <1>6, <2>1 DEF Complete, Store
    <2>3. Completing(u)
      BY <2>1, <2>2 DEF Completing
    <2>4. size # "small" /\ claim # NoFence /\ object = Absent /\ \A v \in Uploads : Completing(v) => u = v
      BY <1>1, <2>1, <2>3, SmallInv DEF ProviderInv
    <2>5. object' \in Objects /\ object' # Absent /\ upload' \in [Uploads -> Statuses]
      BY <1>1, <2>2, ObjectTypes, UploadTypes DEF ObjectOK
    <2>6. TypeOK'
      <3>1. ObjectOK' /\ ClaimOK'
        BY <1>1, <1>2, <2>2, <2>5 DEF ObjectOK, ClaimOK
      <3> QED BY <1>3, <3>1, TypeParts
    <2>7. /\ ProviderInv' /\ \A v \in Uploads : ~Completing(v)'
          /\ \A v \in Uploads : upload'[v].status # "none" <=> upload[v].status # "none"
      BY <1>2, <2>2, <2>4, <2>5, ProviderCompletes
    <2>8. ASSUME NEW h \in Hosts PROVE HostInv(h)'
      <3>1. HostInv(h) /\ Fence(h)' = Fence(h)
        BY <1>2 DEF Inv, Fence
      <3>2. claim = Fence(h) => saved[h].upload = u
        BY <2>3, <3>1 DEF HostInv
      <3>3. ~Open(saved[h].upload)'
        <4>1. CASE saved[h].upload = u
          BY <4>1, <1>2, <2>2 DEF Open, Inv, TypeOK, Statuses
        <4>2. CASE saved[h].upload # u
          <5>1. saved[h].upload = 0
            BY <4>2, <3>1, <3>2 DEF HostInv
          <5> QED BY <5>1, <1>2 DEF Open, Uploads
        <4> QED BY <4>1, <4>2
      <3> QED BY <1>2, <2>2, <2>4, <2>5, <2>7, <3>1, <3>2, <3>3, HostTypes DEF Inv, HostInv, Uploads
    <2> QED BY <2>6, <2>7, <2>8 DEF Inv
  <1>7. CASE r[1] = "put" /\ object = Absent /\ Store(r, TRUE) /\ UNCHANGED <<claim, upload>>
    <2>1. PICK h \in Hosts : r = <<"put", h>>
      BY <1>1, <1>7 DEF Requests
    <2>2. object' \in Objects /\ object' # Absent
      BY <1>7, <2>1, ObjectTypes DEF Store
    <2>3. size = "small"
      BY <1>1, <2>1 DEF ProviderInv
    <2>4. TypeOK'
      <3>1. ObjectOK' /\ ClaimOK'
        BY <1>1, <1>2, <1>7, <2>2 DEF ObjectOK, ClaimOK
      <3> QED BY <1>3, <3>1, TypeParts
    <2> QED BY <1>2, <1>7, <2>2, <2>3, <2>4, SmallInv, SmallStep
  <1> QED BY <1>4, <1>5, <1>6, <1>7 DEF Settle

-----------------------------------------------------------------------------
(* The results.                                                            *)

\* The initial states satisfy the invariant.
LEMMA InitInv == ASSUME Init PROVE Inv
  <1>1. TypeOK
    BY UploadAssumption, FileTypes DEF Init, TypeOK, Labels, Statuses
  <1>2. ProviderInv
    BY DEF Init, ProviderInv, Completing
  <1>3. \A h \in Hosts : HostInv(h)
    BY FenceIsClaim DEF Init, HostInv, NoFile, Fence, Open, Uploads, UploadLabels, PutLabels
  <1> QED BY <1>1, <1>2, <1>3 DEF Inv

\* Every step preserves it.
LEMMA NextInv == ASSUME Inv, [Next]_vars PROVE Inv'
  <1>1. ASSUME NEW h \in Hosts, Step(h) \/ Crash(h) \/ Lose(h) PROVE Inv'
    BY <1>1, BeginStep, CheckStep, LoadStep, ClaimStep, ReadClaimStep, CreateStep, UploadPartStep, UploadedStep,
       CompleteUploadStep, RecheckStep, VerifyStep, ResetStep, PutStep, VerifyPutStep, SettlePutStep,
       CrashStep, LoseStep DEF Step
  <1>2. ASSUME NEW r \in pending, Settle(r) PROVE Inv'
    BY <1>2, SettleStep
  <1>3. ASSUME NEW u \in Uploads, Expire(u) PROVE Inv'
    BY <1>3, ExpireStep
  <1>4. CASE UNCHANGED vars
    <2>1. UNCHANGED <<size, object, claim, upload, pending, saved, drawn, pc>> /\ TypeOK'
      BY <1>4 DEF vars, provider, state, control, Inv, TypeOK
    <2> QED BY <2>1, QuietStep
  <1> QED BY <1>1, <1>2, <1>3, <1>4 DEF Next

\* The invariant holds throughout.
LEMMA Invariant == Spec => []Inv
  BY InitInv, NextInv, PTL DEF Spec

\* TypeOK holds throughout, whatever the constants (r2.py, _put_evidence and
\* the state file of _load_evidence_state).
THEOREM UploadTypeCorrect == Spec => []TypeOK
  <1>1. Inv => TypeOK
    BY DEF Inv
  <1> QED BY <1>1, Invariant, PTL

\* Only the host whose fence is in the claim object ever has an upload,
\* however claims, crashes and lost state files interleave
\* (_claim_evidence_multipart).
THEOREM OnlyTheOwnerUploads == Spec => []OwnerUploads
  <1>1. Inv => OwnerUploads
    BY DEF Inv, HostInv, OwnerUploads
  <1> QED BY <1>1, Invariant, PTL

\* Once the key is written nothing that could be completed over it is left, in
\* a state file or under way (_complete_evidence_multipart).
THEOREM NothingWritesTwice == Spec => []NothingLeftToWrite
  <1>1. Inv => NothingLeftToWrite
    <2>1. ASSUME Inv, NEW r \in pending, r[1] = "complete", Open(r[2]) PROVE object = Absent
      <3>1. PICK u \in Uploads : r = <<"complete", u>>
        BY <2>1 DEF Inv, TypeOK, Requests
      <3>2. Completing(u)
        BY <2>1, <3>1 DEF Completing
      <3> QED BY <2>1, <3>2 DEF Inv, ProviderInv
    <2> QED BY <2>1 DEF Inv, HostInv, NothingLeftToWrite
  <1> QED BY <1>1, Invariant, PTL

\* What a step does to the key and to the receipts, in the terms of
\* EvidenceObject.
Silent     == object' = object /\ receipts' = receipts
Publishing == object = Absent /\ object' \in Objects /\ receipts' = receipts
Receiving  == object.good /\ object' = object /\ \E h \in Hosts : receipts' = receipts \cup {h}

\* A step of a host does one of the three: a completion finds the key absent
\* because its upload was still open.
LEMMA HostEffects ==
    ASSUME Inv, NEW h \in Hosts, Step(h) \/ Crash(h) \/ Lose(h)
    PROVE  Silent \/ Publishing \/ Receiving
  <1>1. CASE Begin(h) \/ Load(h) \/ Uploaded(h) \/ Crash(h) \/ Lose(h)
    BY <1>1 DEF Silent, Begin, Load, Uploaded, Crash, Lose, Give, provider
  <1>2. CASE Claim(h) \/ ReadClaim(h)
    BY <1>2 DEF Silent, Claim, ReadClaim, Give, provider
  <1>3. CASE Create(h) \/ UploadPart(h) \/ Reset(h)
    BY <1>3 DEF Silent, Create, UploadPart, Reset, Give
  <1>4. CASE Check(h) \/ Recheck(h) \/ Verify(h)
    BY <1>4 DEF Silent, Receiving, Check, Recheck, Verify, Acknowledge, Mismatch, Give, provider
  <1>5. CASE VerifyPut(h) \/ SettlePut(h)
    BY <1>5 DEF Silent, Receiving, VerifyPut, SettlePut, Acknowledge, PutFailed, Give, provider
  <1>6. CASE CompleteUpload(h)
    <2>1. HostInv(h) /\ pc[h] = "complete"
      BY <1>6 DEF Inv, CompleteUpload
    <2>2. saved[h].upload \in Uploads
      BY <2>1, HostTypes DEF Inv, HostInv, UploadLabels
    <2>3. Open(saved[h].upload) => object = Absent
      BY <2>1 DEF HostInv
    <2>4. receipts' = receipts
      BY <1>6 DEF CompleteUpload, Give
    <2>5. \/ object' = object
          \/ Open(saved[h].upload) /\ \E good \in BOOLEAN : object' = [by |-> <<"upload", saved[h].upload>>, good |-> good]
      BY <1>6 DEF CompleteUpload, Complete, Store
    <2> QED BY <2>2, <2>3, <2>4, <2>5, ObjectTypes DEF Silent, Publishing
  <1>7. CASE Put(h)
    <2>1. receipts' = receipts
      BY <1>7 DEF Put, PutFailed, Give
    <2>2. \/ object' = object
          \/ object = Absent /\ \E good \in BOOLEAN : object' = [by |-> <<"put", h>>, good |-> good]
      BY <1>7 DEF Put, Store
    <2> QED BY <2>1, <2>2, ObjectTypes DEF Silent, Publishing
  <1> QED BY <1>1, <1>2, <1>3, <1>4, <1>5, <1>6, <1>7 DEF Step

\* So does a request that settles: an unconditional completion is still under
\* way only while the key is absent.
LEMMA SettleEffects ==
    ASSUME Inv, NEW r \in pending, Settle(r)
    PROVE  Silent \/ Publishing
  <1>1. r \in Requests /\ receipts' = receipts
    BY DEF Inv, TypeOK, Settle
  <1>2. CASE object' = object
    BY <1>1, <1>2 DEF Silent
  <1>3. CASE r[1] = "complete" /\ Open(r[2]) /\ Complete(r[2], TRUE)
    <2>1. PICK u \in Uploads : r = <<"complete", u>>
      BY <1>1, <1>3 DEF Requests
    <2>2. Completing(u) /\ object' = [by |-> <<"upload", u>>, good |-> TRUE]
      BY <1>3, <2>1 DEF Completing, Complete, Store
    <2> QED BY <1>1, <2>2, ObjectTypes DEF Inv, ProviderInv, Publishing
  <1>4. CASE r[1] = "put" /\ object = Absent /\ Store(r, TRUE)
    <2>1. PICK h \in Hosts : r = <<"put", h>>
      BY <1>1, <1>4 DEF Requests
    <2> QED BY <1>1, <1>4, <2>1, ObjectTypes DEF Store, Publishing
  <1> QED BY <1>2, <1>3, <1>4 DEF Settle

\* The protocol implements EvidenceObject: the key is written at most once,
\* although completions are unconditional, requests may be applied after their
\* sender has given up and state files may be lost, and only a host for which
\* the right bytes were read back holds a receipt.
THEOREM UploadImplementsCreateOnce == Spec => CreateOnce
  <1>1. Init => EO!Init
    BY DEF Init, EO!Init, Absent, EO!Absent
  <1>2. ASSUME Inv, [Next]_vars PROVE [EO!Next]_<<object, receipts>>
    <2>1. Silent \/ Publishing \/ Receiving
      <3>1. ASSUME NEW u \in Uploads, Expire(u) PROVE Silent
        BY <3>1 DEF Expire, Silent
      <3>2. CASE UNCHANGED vars
        BY <3>2 DEF vars, provider, Silent
      <3> QED BY <1>2, <3>1, <3>2, HostEffects, SettleEffects DEF Next
    <2>2. Objects = EO!Objects /\ Absent = EO!Absent
      BY DEF Objects, EO!Objects, Absent, EO!Absent
    <2> QED BY <2>1, <2>2 DEF Silent, Publishing, Receiving, EO!Next, EO!Publish, EO!Acknowledge
  <1> QED BY <1>1, <1>2, Invariant, PTL DEF Spec, CreateOnce, EO!Spec
=============================================================================
