------------------------ MODULE WorkspaceSaveProofs ------------------------
(***************************************************************************)
(* What TLAPS proves about WorkspaceSave for any number of edits and under *)
(* every fault: a recovery point holds what it says, a save that says      *)
(* saved names one that holds the files and, if it has read the catalog,   *)
(* one that was not removed before, and Saved in the status bar is true.   *)
(***************************************************************************)
EXTENDS WorkspaceSave, TLAPS

CliStates == [pc : CliLabels, base : Nat, etag : Nat, seen : Markers, scan : Nat \cup {-1}, reused : BOOLEAN,
              content : Nat \cup {-1}, id : Nat, status : Statuses, start : Nat, gone : SUBSET Nat]
Rooms     == [kind : Kinds, trusted : BOOLEAN, receipt : Markers]
Trackings == [pc : {"none", "status", "done"}, marker : Markers, changed : BOOLEAN]
Editors   == [pc : EdLabels, dirty : BOOLEAN]

\* The full types, which TypeOK abridges.
Types ==
    /\ TypeOK /\ drawn \in Nat
    /\ cli \in CliStates /\ room \in Rooms /\ track \in Trackings /\ ed \in Editors

\* A recovery point holds what it says, and nothing from the future.
PointsInv ==
    \A i \in DOMAIN points :
        /\ points[i].content = points[i].signature
        /\ points[i].content \in Nat \cup {-1} /\ points[i].content <= disk

\* Marker r names a recovery point, with its signature.
Good(r) == r.id \in DOMAIN points /\ points[r.id].signature = r.signature

\* Version v and the files differ only by changes VS Code did not report.
Unreported(v) == (v + 1) .. disk \subseteq silent

\* The save command has a scan that was made after the save was started.
HasScan ==
    \/ cli.pc \in {"decide", "backup", "after", "publish", "rescan", "marker", "receipt"}
    \/ cli.reused
    \/ cli.pc = "end" /\ cli.status # "failed"

\* The extension waits for its save, and has seen no event since it began.
Awaits == ed.pc \in {"running", "message"} /\ "save" \in current

\* Receipts, of the command and of the extension, are true.
ReceiptInv ==
    /\ receipt # None => Good(receipt)
    /\ room.receipt # None => Good(room.receipt)

\* The save command: what it has scanned, and what it is about to answer.
CliInv ==
    /\ cli.start <= disk
    /\ HasScan => /\ cli.start <= cli.scan /\ cli.scan <= disk
                  /\ Awaits => queue \/ Unreported(cli.scan)
    /\ cli.pc \in {"compare", "compare-again"} => Good(cli.seen)
    /\ cli.pc \in {"scan", "decide", "backup", "after", "publish"} => cli.base \in DOMAIN points \cup {0}
    /\ cli.pc = "after" => cli.scan <= cli.content /\ cli.content <= disk
    /\ cli.pc = "publish" => cli.content = cli.scan
    /\ cli.pc \in {"rescan", "marker", "receipt", "end"} /\ cli.status # "failed" =>
          Good([id |-> cli.id, signature |-> cli.scan])
    /\ cli.pc = "receipt" => cli.status # "failed"

Before == DOMAIN AfterCheck \cup {"prepare", "launch"}

\* The extension's save: before it runs the command there is none, and the
\* receipt it checks is the one it began with.
EdInv ==
    /\ ed.pc \in Before => cli.pc = "idle" /\ ~cli.reused
    /\ ed.pc \in DOMAIN AfterCheck => room.receipt \in {None, cli.seen}
    /\ ed.pc \in {"shown", "check"} => cli.start <= cli.seen.signature
    /\ ed.pc = "message" => cli.pc = "end" /\ cli.status # "failed"
    /\ ed.pc \in {"running", "message"} => watch # "none" /\ (unsaved => buffers)

\* What Saved in the status bar means.
RoomInv ==
    room.kind = "clean" =>
        /\ ~unsaved /\ watch = "baseline"
        /\ queue \/ \E i \in DOMAIN points : points[i].content >= 0 /\ Unreported(points[i].content)

Inv == Types /\ PointsInv /\ ReceiptInv /\ CliInv /\ EdInv /\ RoomInv

-----------------------------------------------------------------------------
(* Types and frames.                                                       *)

\* What the types say of the command, the status and the extension's save.
LEMMA FieldTypes ==
    ASSUME Types
    PROVE  /\ disk \in Nat /\ drawn \in Nat /\ DOMAIN points \subseteq 1 .. drawn
           /\ latest \in (DOMAIN points \ removed) \cup {0} /\ removed \subseteq DOMAIN points /\ revision \in Nat
           /\ cli.pc \in CliLabels /\ cli.base \in Nat /\ cli.seen \in Markers /\ cli.scan \in Nat \cup {-1}
           /\ cli.reused \in BOOLEAN /\ cli.content \in Nat \cup {-1} /\ cli.id \in Nat /\ cli.status \in Statuses
           /\ cli.start \in Nat /\ cli.etag \in Nat /\ cli.gone \subseteq Nat
           /\ room.kind \in Kinds /\ room.trusted \in BOOLEAN /\ room.receipt \in Markers
           /\ ed.pc \in EdLabels /\ ed.dirty \in BOOLEAN
           /\ marker \in Markers /\ receipt \in Markers
  BY DEF Types, TypeOK, CliStates, Rooms, Editors

\* The constants of the model have their types.
LEMMA ConstantTypes ==
    /\ None \in Markers /\ NoSave \in CliStates /\ NoTrack \in Trackings /\ Inactive \in Rooms
    /\ NoSave.pc = "idle" /\ NoSave.reused = FALSE /\ NoSave.start = 0 /\ NoSave.status = "none"
  BY DEF None, Markers, NoSave, CliStates, CliLabels, Statuses, NoTrack, Trackings, Inactive, Rooms, Kinds

\* A step of the save command that leaves the recovery points alone preserves
\* the invariant if it preserves what is said of the command and of receipts.
LEMMA CliStep ==
    ASSUME Inv, cli.pc \notin {"idle", "end"}, UNCHANGED <<workspace, queue, window, ed, edits, store>>,
           cli' \in CliStates, marker' \in Markers, receipt' \in Markers, faults' \in Nat,
           receipt' # None => Good(receipt'), CliInv'
    PROVE  Inv'
  <1>1. /\ disk' = disk /\ silent' = silent /\ unsaved' = unsaved /\ queue' = queue
        /\ points' = points /\ removed' = removed /\ latest' = latest /\ revision' = revision /\ drawn' = drawn
        /\ room' = room /\ current' = current /\ buffers' = buffers /\ watch' = watch /\ track' = track
        /\ ed' = ed /\ edits' = edits
    BY DEF workspace, store, window
  <1>2. Types'
    BY <1>1 DEF Inv, Types, TypeOK, CliStates
  <1>3. PointsInv' /\ ReceiptInv'
    BY <1>1 DEF Inv, PointsInv, ReceiptInv, Good
  <1>4. EdInv'
    <2>1. ed.pc \notin Before \cup {"shown", "check", "message"}
      BY DEF Inv, EdInv, Before, AfterCheck
    <2> QED BY <1>1, <2>1 DEF Inv, EdInv, Before
  <1>5. RoomInv'
    BY <1>1 DEF Inv, RoomInv, Unreported
  <1> QED BY <1>2, <1>3, <1>4, <1>5 DEF Inv

\* A step that changes only the command's own state, without fault.
LEMMA OwnStep ==
    ASSUME Inv, cli.pc \notin {"idle", "end"}, UNCHANGED <<workspace, queue, window, ed, edits, store>>,
           cli' \in CliStates, marker' = marker, receipt' \in {receipt, None}, faults' \in Nat, CliInv'
    PROVE  Inv'
  <1>1. marker' \in Markers /\ receipt' \in Markers
    BY FieldTypes, ConstantTypes DEF Inv
  <1>2. receipt' # None => Good(receipt')
    BY DEF Inv, ReceiptInv
  <1> QED BY <1>1, <1>2, CliStep

\* How the command ends.
LEMMA EndMeaning ==
    ASSUME Types, NEW s \in Statuses, NEW i \in Nat, NEW v \in Nat \cup {-1}, End(s, i, v)
    PROVE  /\ cli' \in CliStates /\ cli'.pc = "end" /\ cli'.status = s /\ cli'.id = i /\ cli'.scan = v
           /\ cli'.start = cli.start /\ cli'.reused = FALSE /\ cli'.base = cli.base /\ cli'.gone = cli.gone
           /\ UNCHANGED <<workspace, queue, window, ed, edits>>
  <1>1. cli' = [NoSave EXCEPT !.pc = "end", !.status = s, !.id = i, !.scan = v,
                              !.base = cli.base, !.start = cli.start, !.gone = cli.gone]
    BY DEF End, Becomes
  <1>2. cli' = [pc |-> "end", base |-> cli.base, etag |-> 0, seen |-> None, scan |-> v, reused |-> FALSE,
                content |-> -1, id |-> i, status |-> s, start |-> cli.start, gone |-> cli.gone]
    BY <1>1 DEF NoSave
  <1>3. cli.start \in Nat /\ cli.base \in Nat /\ cli.gone \subseteq Nat /\ None \in Markers
    BY FieldTypes, ConstantTypes
  <1> HIDE DEF None
  <1>4. cli' \in CliStates
    BY <1>2, <1>3 DEF CliStates, CliLabels
  <1>5. UNCHANGED <<workspace, queue, window, ed, edits>>
    BY DEF End, Becomes
  <1> QED BY <1>2, <1>4, <1>5

\* The command gives up.
LEMMA FailStep ==
    ASSUME Inv, cli.pc \notin {"idle", "end"}, Fail, UNCHANGED store, faults' \in Nat,
           marker' \in Markers, receipt' \in {receipt, None}
    PROVE  Inv'
  <1>1. /\ cli' \in CliStates /\ cli'.pc = "end" /\ cli'.status = "failed" /\ cli'.start = cli.start
        /\ cli'.reused = FALSE /\ UNCHANGED <<workspace, queue, window, ed, edits>>
    BY EndMeaning DEF Inv, Fail, Statuses
  <1>2. CliInv'
    BY <1>1 DEF Inv, CliInv, HasScan, workspace
  <1>3. receipt' \in Markers /\ (receipt' # None => Good(receipt'))
    BY FieldTypes, ConstantTypes DEF Inv, ReceiptInv
  <1> QED BY <1>1, <1>2, <1>3, CliStep

\* The command answers that the files are saved already.
LEMMA AlreadyStep ==
    ASSUME Inv, cli.pc \notin {"idle", "end"}, NEW r \in Markers, End("already-saved", r.id, r.signature),
           Good(r), cli.start <= r.signature, r.signature <= disk, Awaits => queue \/ Unreported(r.signature),
           UNCHANGED <<store, marker, receipt>>, faults' \in Nat
    PROVE  Inv'
  <1>1. r.id \in Nat /\ r.signature \in Nat \cup {-1} /\ "already-saved" \in Statuses
    BY DEF Markers, Statuses
  <1>2. /\ cli' \in CliStates /\ cli'.pc = "end" /\ cli'.status = "already-saved" /\ cli'.start = cli.start
        /\ cli'.id = r.id /\ cli'.scan = r.signature
        /\ cli'.reused = FALSE /\ UNCHANGED <<workspace, queue, window, ed, edits>>
    BY <1>1, EndMeaning DEF Inv
  <1>3. CliInv'
    <2>1. disk' = disk /\ silent' = silent /\ queue' = queue /\ points' = points /\ current' = current /\ ed' = ed
      BY <1>2 DEF workspace, window, store
    <2> QED BY <1>2, <2>1 DEF Inv, CliInv, HasScan, Awaits, Unreported, Good
  <1> QED BY <1>2, <1>3, OwnStep

-----------------------------------------------------------------------------
(* The steps of the save command.                                          *)

\* Probe preserves the invariant: a receipt that is there is true.
LEMMA ProbeStep == ASSUME Inv, Probe PROVE Inv'
  <1>1. /\ cli.pc \in {"probe", "probe-again"} /\ UNCHANGED <<marker, store, faults>> /\ receipt' \in {receipt, None}
        /\ UNCHANGED <<workspace, queue, window, ed, edits>> /\ faults' \in Nat
    BY DEF Probe, At, Becomes, Inv, Types, TypeOK
  <1>2. \/ Good(marker) /\ cli' = [cli EXCEPT !.pc = IF At("probe") THEN "compare" ELSE "compare-again", !.seen = marker]
        \/ cli' = [cli EXCEPT !.pc = IF At("probe") THEN "probe-again" ELSE "read"]
    BY DEF Probe, Becomes, Inv, ReceiptInv
  <1>3. cli' \in CliStates /\ cli'.reused = cli.reused /\ cli'.scan = cli.scan /\ cli'.start = cli.start
        /\ \/ cli'.pc \in {"compare", "compare-again"} /\ cli'.seen = marker /\ Good(marker)
           \/ cli'.pc \in {"probe-again", "read"}
    BY <1>2, FieldTypes DEF Inv, Types, CliStates, CliLabels
  <1>4. disk' = disk /\ silent' = silent /\ queue' = queue /\ points' = points /\ current' = current /\ ed' = ed
    BY <1>1 DEF workspace, window, store
  <1>5. CliInv'
    BY <1>1, <1>3, <1>4 DEF Inv, CliInv, HasScan, Awaits, Unreported, Good
  <1> QED BY <1>1, <1>3, <1>5, OwnStep

\* Compare preserves the invariant.
LEMMA CompareStep == ASSUME Inv, Compare PROVE Inv'
  <1>1. /\ cli.pc \in {"compare", "compare-again"} /\ UNCHANGED <<marker, store, faults>> /\ faults' \in Nat
        /\ Good(cli.seen) /\ cli.start <= disk /\ disk \in Nat
    BY FieldTypes DEF Compare, At, Inv, Types, TypeOK, CliInv
  <1>2. CASE marker = cli.seen /\ Proves /\ End("already-saved", marker.id, marker.signature) /\ UNCHANGED receipt
    <2>1. marker \in Markers /\ Good(marker) /\ marker.signature = disk
      BY <1>1, <1>2, FieldTypes DEF Inv, Proves
    <2>2. Unreported(marker.signature)
      BY <1>1, <2>1 DEF Unreported
    <2> QED BY <1>1, <1>2, <2>1, <2>2, AlreadyStep
  <1>3. CASE /\ Becomes(IF At("compare")
                        THEN [cli EXCEPT !.pc = "probe-again", !.seen = None,
                                         !.scan = IF marker = cli.seen THEN disk ELSE -1, !.reused = (marker = cli.seen)]
                        ELSE [cli EXCEPT !.pc = "read", !.seen = None])
             /\ receipt' = None
    <2>1. /\ cli' \in CliStates /\ cli'.start = cli.start /\ cli'.pc \in {"probe-again", "read"}
          /\ \/ cli'.reused = cli.reused /\ cli'.scan = cli.scan
             \/ cli'.reused = TRUE /\ cli'.scan = disk
             \/ cli'.reused = FALSE
      <3>1. CASE At("compare") /\ marker = cli.seen
        <4>1. cli' = [cli EXCEPT !.pc = "probe-again", !.seen = None, !.scan = disk, !.reused = TRUE]
          BY <1>3, <3>1 DEF Becomes
        <4> QED BY <1>1, <4>1, ConstantTypes DEF Inv, Types, CliStates, CliLabels
      <3>2. CASE At("compare") /\ marker # cli.seen
        <4>1. cli' = [cli EXCEPT !.pc = "probe-again", !.seen = None, !.scan = -1, !.reused = FALSE]
          BY <1>3, <3>2 DEF Becomes
        <4> QED BY <1>1, <4>1, ConstantTypes DEF Inv, Types, CliStates, CliLabels
      <3>3. CASE ~At("compare")
        <4>1. cli' = [cli EXCEPT !.pc = "read", !.seen = None]
          BY <1>3, <3>3 DEF Becomes
        <4> QED BY <1>1, <4>1, ConstantTypes DEF Inv, Types, CliStates, CliLabels
      <3> QED BY <3>1, <3>2, <3>3
    <2>2. disk' = disk /\ silent' = silent /\ queue' = queue /\ points' = points /\ current' = current /\ ed' = ed
      BY <1>1, <1>3 DEF Becomes, workspace, window, store
    <2>3. Unreported(disk)
      BY <1>1 DEF Unreported
    <2>4. CliInv'
      BY <1>1, <2>1, <2>2, <2>3 DEF Inv, CliInv, HasScan, Awaits, Unreported, Good
    <2> QED BY <1>1, <1>3, <2>1, <2>4, OwnStep DEF Becomes
  <1> QED BY <1>2, <1>3 DEF Compare

\* A step of the command that keeps its scan.
LEMMA ScanKept ==
    ASSUME Inv, UNCHANGED <<disk, silent, queue, points, current, ed>>, cli'.start = cli.start,
           cli'.scan = cli.scan, HasScan' => HasScan,
           cli'.pc \notin {"compare", "compare-again", "after", "publish", "rescan", "marker", "receipt", "end"},
           cli'.pc \in {"scan", "decide", "backup"} => cli'.base \in DOMAIN points \cup {0}
    PROVE  CliInv'
  BY DEF Inv, CliInv, HasScan, Awaits, Unreported, Good

\* Forget and ReadLatest preserve the invariant.
LEMMA ReadStep == ASSUME Inv, Forget \/ ReadLatest PROVE Inv'
  <1>1. /\ cli.pc \in {"forget", "read"} /\ UNCHANGED <<marker, store, faults>> /\ faults' \in Nat
        /\ UNCHANGED <<workspace, queue, window, ed, edits>> /\ receipt' \in {receipt, None}
    BY DEF Forget, ReadLatest, At, Becomes, Inv, Types, TypeOK, local
  <1>2. /\ cli' \in CliStates /\ cli'.start = cli.start /\ cli'.scan = cli.scan /\ cli'.reused = cli.reused
        /\ cli'.pc \in {"probe-again", "scan"} /\ (cli'.pc = "scan" => cli'.base = latest)
    <2>1. \/ cli' = [cli EXCEPT !.pc = "probe-again"]
          \/ cli' = [cli EXCEPT !.pc = "scan", !.base = latest, !.etag = revision]
      BY DEF Forget, ReadLatest, Becomes
    <2>2. latest \in Nat /\ revision \in Nat
      BY FieldTypes DEF Inv
    <2> QED BY <2>1, <2>2 DEF Inv, Types, CliStates, CliLabels
  <1>3. UNCHANGED <<disk, silent, queue, points, current, ed>>
    BY <1>1 DEF workspace, window, store
  <1>4. CliInv'
    BY <1>2, <1>3, FieldTypes, ScanKept DEF Inv, HasScan
  <1> QED BY <1>1, <1>2, <1>4, OwnStep

\* Scan preserves the invariant.
LEMMA ScanStep == ASSUME Inv, Scan PROVE Inv'
  <1>1. /\ cli.pc = "scan" /\ UNCHANGED <<marker, receipt, store, faults>> /\ faults' \in Nat
        /\ UNCHANGED <<workspace, queue, window, ed, edits>>
    BY DEF Scan, At, Becomes, Inv, Types, TypeOK, local
  <1>2. /\ cli' \in CliStates /\ cli'.start = cli.start /\ cli'.reused = cli.reused /\ cli'.pc = "decide"
        /\ cli'.scan = (IF cli.reused THEN cli.scan ELSE disk) /\ cli'.base = cli.base
    <2>1. cli' = [cli EXCEPT !.pc = "decide", !.scan = IF cli.reused THEN cli.scan ELSE disk]
      BY DEF Scan, Becomes
    <2>2. (IF cli.reused THEN cli.scan ELSE disk) \in Nat \cup {-1}
      BY FieldTypes DEF Inv
    <2> QED BY <2>1, <2>2 DEF Inv, Types, CliStates, CliLabels
  <1>3. disk' = disk /\ silent' = silent /\ queue' = queue /\ points' = points /\ current' = current /\ ed' = ed
    BY <1>1 DEF workspace, window, store
  <1>4. Unreported(disk) /\ disk \in Nat
    BY FieldTypes DEF Inv, Unreported
  <1>5. CliInv'
    BY <1>1, <1>2, <1>3, <1>4 DEF Inv, CliInv, HasScan, Awaits, Unreported, Good
  <1> QED BY <1>1, <1>2, <1>5, OwnStep

\* Decide preserves the invariant.
LEMMA DecideStep == ASSUME Inv, Decide PROVE Inv'
  <1>1. /\ cli.pc = "decide" /\ UNCHANGED <<marker, receipt, store, faults>> /\ faults' \in Nat
        /\ cli.base \in DOMAIN points \cup {0} /\ HasScan
        /\ cli.start <= cli.scan /\ cli.scan <= disk /\ (Awaits => queue \/ Unreported(cli.scan))
    BY DEF Decide, At, Inv, Types, TypeOK, local, CliInv, HasScan
  <1>2. CASE Unchanged /\ End("already-saved", cli.base, cli.scan)
    <2> DEFINE r == [id |-> cli.base, signature |-> cli.scan]
    <2>1. r \in Markers /\ r.id = cli.base /\ r.signature = cli.scan
      BY FieldTypes DEF Inv, Markers
    <2>2. Good(r)
      BY <1>1, <1>2, <2>1 DEF Good, Unchanged
    <2> HIDE DEF r
    <2>3. End("already-saved", r.id, r.signature)
      BY <1>2, <2>1
    <2> QED BY <1>1, <2>1, <2>2, <2>3, AlreadyStep
  <1>3. CASE Fail
    BY <1>1, <1>3, FailStep, FieldTypes DEF Inv
  <1>4. CASE Becomes([cli EXCEPT !.pc = "backup"])
    <2>1. /\ cli' \in CliStates /\ cli'.start = cli.start /\ cli'.scan = cli.scan /\ cli'.reused = cli.reused
          /\ cli'.pc = "backup" /\ cli'.base = cli.base
      BY <1>4 DEF Becomes, Inv, Types, CliStates, CliLabels
    <2>2. UNCHANGED <<disk, silent, queue, points, current, ed>>
      BY <1>1, <1>4 DEF Becomes, workspace, window, store
    <2>3. CliInv'
      BY <1>1, <2>1, <2>2, ScanKept
    <2> QED BY <1>1, <1>4, <2>1, <2>3, OwnStep DEF Becomes
  <1> QED BY <1>2, <1>3, <1>4 DEF Decide

\* Backup preserves the invariant.
LEMMA BackupStep == ASSUME Inv, Backup PROVE Inv'
  <1>1. /\ cli.pc = "backup" /\ UNCHANGED <<marker, receipt, store, faults>> /\ faults' \in Nat
        /\ UNCHANGED <<workspace, queue, window, ed, edits>>
    BY DEF Backup, At, Becomes, Inv, Types, TypeOK, local
  <1>2. /\ cli' \in CliStates /\ cli'.start = cli.start /\ cli'.scan = cli.scan /\ cli'.reused = cli.reused
        /\ cli'.pc = "after" /\ cli'.base = cli.base /\ cli'.content = disk
    <2>1. cli' = [cli EXCEPT !.pc = "after", !.content = disk] /\ disk \in Nat
      BY FieldTypes DEF Backup, Becomes, Inv
    <2> QED BY <2>1 DEF Inv, Types, CliStates, CliLabels
  <1>3. disk' = disk /\ silent' = silent /\ queue' = queue /\ points' = points /\ current' = current /\ ed' = ed
    BY <1>1 DEF workspace, window, store
  <1>4. CliInv'
    BY <1>1, <1>2, <1>3, FieldTypes DEF Inv, CliInv, HasScan, Awaits, Unreported, Good
  <1> QED BY <1>1, <1>2, <1>4, OwnStep

\* AfterBackup preserves the invariant: if the files are still the scanned
\* ones, they are what was backed up.
LEMMA AfterBackupStep == ASSUME Inv, AfterBackup PROVE Inv'
  <1>1. /\ cli.pc = "after" /\ UNCHANGED <<marker, receipt, store, faults>> /\ faults' \in Nat
        /\ marker' \in Markers
    BY DEF AfterBackup, At, Inv, Types, TypeOK, local
  <1>2. CASE Fail
    BY <1>1, <1>2, FailStep
  <1>3. CASE disk = cli.scan /\ Becomes([cli EXCEPT !.pc = "publish"])
    <2>1. /\ cli' \in CliStates /\ cli'.start = cli.start /\ cli'.scan = cli.scan /\ cli'.reused = cli.reused
          /\ cli'.pc = "publish" /\ cli'.base = cli.base /\ cli'.content = cli.content
      BY <1>3 DEF Becomes, Inv, Types, CliStates, CliLabels
    <2>2. disk' = disk /\ silent' = silent /\ queue' = queue /\ points' = points /\ current' = current /\ ed' = ed
      BY <1>1, <1>3 DEF Becomes, workspace, window, store
    <2>3. cli.content = cli.scan
      BY <1>1, <1>3, FieldTypes DEF Inv, CliInv
    <2>4. CliInv'
      BY <1>1, <2>1, <2>2, <2>3 DEF Inv, CliInv, HasScan, Awaits, Unreported, Good
    <2> QED BY <1>1, <1>3, <2>1, <2>4, OwnStep DEF Becomes
  <1> QED BY <1>2, <1>3 DEF AfterBackup, StillScanned

\* Rescan preserves the invariant.
LEMMA RescanStep == ASSUME Inv, Rescan PROVE Inv'
  <1>1. /\ cli.pc = "rescan" /\ UNCHANGED <<marker, receipt, store, faults>> /\ faults' \in Nat
        /\ UNCHANGED <<workspace, queue, window, ed, edits>>
    BY DEF Rescan, At, Becomes, Inv, Types, TypeOK, local
  <1>2. /\ cli' \in CliStates /\ cli'.start = cli.start /\ cli'.scan = cli.scan /\ cli'.reused = cli.reused
        /\ cli'.pc = "marker" /\ cli'.id = cli.id /\ (cli'.status # "failed" => cli.status # "failed")
    <2> DEFINE s == IF cli.status = "saved" /\ disk # cli.scan THEN "saved-but-dirty" ELSE cli.status
    <2>1. cli' = [cli EXCEPT !.pc = "marker", !.status = s] /\ s \in Statuses
      BY FieldTypes DEF Rescan, Becomes, Inv, Statuses
    <2>2. s # "failed" => cli.status # "failed"
      OBVIOUS
    <2> HIDE DEF s
    <2> QED BY <2>1, <2>2 DEF Inv, Types, CliStates, CliLabels
  <1>3. disk' = disk /\ silent' = silent /\ queue' = queue /\ points' = points /\ current' = current /\ ed' = ed
    BY <1>1 DEF workspace, window, store
  <1>4. CliInv'
    BY <1>1, <1>2, <1>3 DEF Inv, CliInv, HasScan, Awaits, Unreported, Good
  <1> QED BY <1>1, <1>2, <1>4, OwnStep

\* WriteMarker preserves the invariant.
LEMMA WriteMarkerStep == ASSUME Inv, WriteMarker PROVE Inv'
  <1>1. /\ cli.pc = "marker" /\ UNCHANGED <<receipt, store, faults>> /\ faults' \in Nat
        /\ marker' = [id |-> cli.id, signature |-> cli.scan]
    BY DEF WriteMarker, At, Inv, Types, TypeOK
  <1>2. marker' \in Markers
    BY <1>1, FieldTypes DEF Inv, Markers
  <1>3. CASE Fail
    BY <1>1, <1>2, <1>3, FailStep
  <1>4. CASE cli.status # "failed" /\ Becomes([cli EXCEPT !.pc = "receipt"])
    <2>1. /\ cli' \in CliStates /\ cli'.start = cli.start /\ cli'.scan = cli.scan /\ cli'.reused = cli.reused
          /\ cli'.pc = "receipt" /\ cli'.id = cli.id /\ cli'.status = cli.status
      BY <1>4 DEF Becomes, Inv, Types, CliStates, CliLabels
    <2>2. disk' = disk /\ silent' = silent /\ queue' = queue /\ points' = points /\ current' = current /\ ed' = ed
      BY <1>1, <1>4 DEF Becomes, workspace, window, store
    <2>3. CliInv'
      BY <1>1, <1>4, <2>1, <2>2 DEF Inv, CliInv, HasScan, Awaits, Unreported, Good
    <2>4. receipt' \in Markers /\ (receipt' # None => Good(receipt'))
      BY <1>1, FieldTypes DEF Inv, ReceiptInv
    <2> QED BY <1>1, <1>2, <1>4, <2>1, <2>3, <2>4, CliStep DEF Becomes
  <1> QED BY <1>3, <1>4 DEF WriteMarker

\* WriteReceipt preserves the invariant.
LEMMA WriteReceiptStep == ASSUME Inv, WriteReceipt PROVE Inv'
  <1>1. /\ cli.pc = "receipt" /\ UNCHANGED <<marker, store, faults>> /\ faults' \in Nat
        /\ UNCHANGED <<workspace, queue, window, ed, edits>>
    BY DEF WriteReceipt, At, Becomes, Inv, Types, TypeOK
  <1>2. /\ cli' \in CliStates /\ cli'.start = cli.start /\ cli'.scan = cli.scan /\ cli'.reused = cli.reused
        /\ cli'.pc = "end" /\ cli'.id = cli.id /\ cli'.status = cli.status
    BY DEF WriteReceipt, Becomes, Inv, Types, CliStates, CliLabels
  <1>3. disk' = disk /\ silent' = silent /\ queue' = queue /\ points' = points /\ current' = current /\ ed' = ed
    BY <1>1 DEF workspace, window, store
  <1>4. CliInv'
    BY <1>1, <1>2, <1>3 DEF Inv, CliInv, HasScan, Awaits, Unreported, Good
  <1>5. Good([id |-> cli.id, signature |-> cli.scan])
    BY <1>1 DEF Inv, CliInv
  <1>6. receipt' = receipt \/ (receipt' = marker /\ marker = [id |-> cli.id, signature |-> cli.scan])
    BY DEF WriteReceipt
  <1>7. receipt' \in Markers /\ marker' \in Markers /\ (receipt' # None => Good(receipt'))
    BY <1>1, <1>5, <1>6, FieldTypes DEF Inv, ReceiptInv
  <1> QED BY <1>1, <1>2, <1>4, <1>7, CliStep

\* Crash preserves the invariant.
LEMMA CrashStep == ASSUME Inv, Crash PROVE Inv'
  BY FailStep, FieldTypes DEF Crash, Fault, local, Inv, Types, TypeOK

-----------------------------------------------------------------------------
(* Steps that publish a recovery point.                                    *)

\* The latest recovery point is a published one that is not removed.
CatalogTypes ==
    /\ latest \in (DOMAIN points \ removed) \cup {0} /\ DOMAIN points \subseteq 1 .. drawn
    /\ removed \subseteq DOMAIN points /\ revision \in Nat

\* Recovery points are only added.
Grown == \A i \in DOMAIN points : i \in DOMAIN points' /\ points'[i] = points[i]

\* The publication of a recovery point that holds what it says.
LEMMA PublishedMeaning ==
    ASSUME Inv, NEW p, p.content = p.signature, p.content \in Nat \cup {-1}, p.content <= disk, UNCHANGED disk,
           drawn' = drawn + 1, Published(drawn + 1, p)
    PROVE  /\ Grown /\ PointsInv' /\ drawn' \in Nat /\ drawn + 1 \in DOMAIN points' /\ points'[drawn + 1] = p
           /\ CatalogTypes'
  <1>1. drawn \in Nat /\ DOMAIN points \subseteq 1 .. drawn
    BY FieldTypes DEF Inv
  <1>2. drawn + 1 \notin DOMAIN points
    BY <1>1
  <1>3. DOMAIN points' = DOMAIN points \cup {drawn + 1} /\ latest' = drawn + 1
    BY DEF Published
  <1>4. points'[drawn + 1] = p /\ \A i \in DOMAIN points : points'[i] = points[i]
    BY <1>2 DEF Published
  <1>5. PointsInv'
    BY <1>3, <1>4 DEF Inv, PointsInv
  <1>6. DOMAIN points' \subseteq 1 .. drawn'
    BY <1>1, <1>3
  <1>7. /\ removed' = removed /\ removed \subseteq DOMAIN points /\ revision' = revision + 1 /\ revision \in Nat
    BY FieldTypes DEF Inv, Published
  <1>8. CatalogTypes'
    BY <1>2, <1>3, <1>6, <1>7 DEF CatalogTypes
  <1> QED BY <1>1, <1>3, <1>4, <1>5, <1>8 DEF Grown

\* A step that publishes preserves the invariant if it keeps what is said of
\* the command and of the receipt.
LEMMA GrowStep ==
    ASSUME Inv, Grown, PointsInv', drawn' \in Nat, CatalogTypes',
           UNCHANGED <<workspace, queue, window, ed, edits>>, faults' \in Nat,
           marker' \in Markers, receipt' \in Markers, receipt' # None => Good(receipt)',
           cli' \in CliStates, cli' = cli \/ cli.pc \notin {"idle", "end"}, CliInv'
    PROVE  Inv'
  <1>1. /\ disk' = disk /\ silent' = silent /\ unsaved' = unsaved /\ queue' = queue
        /\ room' = room /\ current' = current /\ buffers' = buffers /\ watch' = watch /\ track' = track
        /\ ed' = ed /\ edits' = edits
    BY DEF workspace, window
  <1>2. Types'
    BY <1>1 DEF Inv, Types, TypeOK, CliStates, CatalogTypes
  <1>3. ReceiptInv'
    <2>1. room.receipt # None => Good(room.receipt)'
      <3>1. room.receipt # None => Good(room.receipt)
        BY DEF Inv, ReceiptInv
      <3> QED BY <1>1, <3>1 DEF Good, Grown
    <2> QED BY <1>1, <2>1 DEF ReceiptInv, Good
  <1>4. EdInv'
    <2>1. CASE cli' = cli
      BY <1>1, <2>1 DEF Inv, EdInv
    <2>2. CASE cli.pc \notin {"idle", "end"}
      <3>1. ed.pc \notin Before \cup {"shown", "check", "message"}
        BY <2>2 DEF Inv, EdInv, Before, AfterCheck
      <3> QED BY <1>1, <3>1 DEF Inv, EdInv, Before
    <2> QED BY <2>1, <2>2
  <1>5. RoomInv'
    <2>1. ASSUME NEW i \in DOMAIN points, points[i].content >= 0, Unreported(points[i].content)
          PROVE  \E k \in DOMAIN points' : points'[k].content >= 0 /\ Unreported(points[k].content)'
      <3>1. i \in DOMAIN points' /\ points'[i] = points[i]
        BY DEF Grown
      <3> QED BY <1>1, <2>1, <3>1 DEF Unreported
    <2> QED BY <1>1, <2>1 DEF Inv, RoomInv
  <1> QED BY <1>2, <1>3, <1>4, <1>5 DEF Inv

\* What is said of a command that does nothing.
LEMMA CliWaits ==
    ASSUME Inv, Grown, UNCHANGED <<cli, disk, silent, queue, current, ed>>
    PROVE  CliInv'
  <1>1. DOMAIN points \subseteq DOMAIN points' /\ \A i \in DOMAIN points : points'[i] = points[i]
    BY DEF Grown
  <1>2. cli.pc \in {"compare", "compare-again"} => Good(cli.seen)'
    BY <1>1 DEF Inv, CliInv, Good
  <1>3. cli.pc \in {"rescan", "marker", "receipt", "end"} /\ cli.status # "failed" =>
          Good([id |-> cli.id, signature |-> cli.scan])'
    BY <1>1 DEF Inv, CliInv, Good
  <1> QED BY <1>1, <1>2, <1>3 DEF Inv, CliInv, HasScan, Awaits, Unreported

\* Foreign preserves the invariant.
LEMMA ForeignStep == ASSUME Inv, Foreign PROVE Inv'
  <1> DEFINE p == [signature |-> Elsewhere, content |-> Elsewhere]
  <1>1. p.content = p.signature /\ p.content = -1
    BY DEF Elsewhere
  <1>2. drawn' = drawn + 1 /\ Published(drawn + 1, p) /\ faults' \in Nat
    BY DEF Foreign, Fault, Inv, Types, TypeOK
  <1> HIDE DEF p
  <1>3. UNCHANGED <<workspace, queue, marker, receipt, cli, window, ed, edits>>
    BY DEF Foreign, local
  <1>4. /\ disk' = disk /\ silent' = silent /\ queue' = queue /\ current' = current /\ ed' = ed /\ cli' = cli
        /\ marker' = marker /\ receipt' = receipt
    BY <1>3 DEF workspace, window
  <1>5. p.content <= disk
    BY <1>1, FieldTypes DEF Inv
  <1>6. Grown /\ PointsInv' /\ drawn' \in Nat /\ CatalogTypes'
    BY <1>1, <1>2, <1>4, <1>5, PublishedMeaning
  <1>7. CliInv'
    BY <1>4, <1>6, CliWaits
  <1>8. receipt' # None => Good(receipt)'
    BY <1>4, <1>6 DEF Inv, ReceiptInv, Good, Grown
  <1>9. marker' \in Markers /\ receipt' \in Markers /\ cli' \in CliStates
    BY <1>4, FieldTypes DEF Inv, Types
  <1> QED BY <1>2, <1>3, <1>4, <1>6, <1>7, <1>8, <1>9, GrowStep

\* ForeignRemove preserves the invariant.
LEMMA ForeignRemoveStep == ASSUME Inv, ForeignRemove PROVE Inv'
  <1>1. /\ UNCHANGED <<workspace, queue, marker, receipt, cli, window, ed, edits>> /\ faults' \in Nat
        /\ points' = points /\ drawn' = drawn /\ revision' = revision + 1
    BY DEF ForeignRemove, local, Fault, Inv, Types, TypeOK
  <1>2. /\ removed' \subseteq DOMAIN points /\ latest' \in (DOMAIN points \ removed') \cup {0}
    <2>1. PICK S \in SUBSET (DOMAIN points \ removed) :
            /\ removed' = removed \cup S
            /\ LET left == DOMAIN points \ removed'
               IN  latest' \in IF left = {} THEN {0} ELSE IF latest \in left THEN {latest} ELSE left
      BY DEF ForeignRemove
    <2>2. removed \subseteq DOMAIN points
      BY FieldTypes DEF Inv
    <2> QED BY <2>1, <2>2
  <1>3. /\ disk' = disk /\ silent' = silent /\ queue' = queue /\ current' = current /\ ed' = ed /\ cli' = cli
        /\ marker' = marker /\ receipt' = receipt
    BY <1>1 DEF workspace, window
  <1>4. Grown /\ PointsInv' /\ drawn' \in Nat
    BY <1>1, <1>3, FieldTypes DEF Inv, Grown, PointsInv
  <1>5. CatalogTypes'
    BY <1>1, <1>2, FieldTypes DEF Inv, CatalogTypes
  <1>6. CliInv'
    BY <1>3, <1>4, CliWaits
  <1>7. receipt' # None => Good(receipt)'
    BY <1>3, <1>4 DEF Inv, ReceiptInv, Good, Grown
  <1>8. marker' \in Markers /\ receipt' \in Markers /\ cli' \in CliStates
    BY <1>3, FieldTypes DEF Inv, Types
  <1> QED BY <1>1, <1>3, <1>4, <1>5, <1>6, <1>7, <1>8, GrowStep

\* Terminal preserves the invariant.
LEMMA TerminalStep == ASSUME Inv, Terminal PROVE Inv'
  <1> DEFINE p == [signature |-> disk, content |-> disk]
  <1>1. p.content = p.signature /\ p.content = disk
    OBVIOUS
  <1>2. drawn' = drawn + 1 /\ Published(drawn + 1, p) /\ faults' \in Nat
    BY DEF Terminal, Fault, Inv, Types, TypeOK
  <1> HIDE DEF p
  <1>3. UNCHANGED <<workspace, queue, cli, window, ed, edits>>
    BY DEF Terminal
  <1>4. /\ disk' = disk /\ silent' = silent /\ queue' = queue /\ current' = current /\ ed' = ed /\ cli' = cli
    BY <1>3 DEF workspace, window
  <1>5. disk \in Nat /\ drawn \in Nat /\ p.content \in Nat \cup {-1} /\ p.content <= disk
    BY <1>1, FieldTypes DEF Inv
  <1>6. /\ Grown /\ PointsInv' /\ drawn' \in Nat /\ drawn + 1 \in DOMAIN points' /\ points'[drawn + 1] = p
        /\ CatalogTypes'
    BY <1>1, <1>2, <1>4, <1>5, PublishedMeaning
  <1>7. CliInv'
    BY <1>4, <1>6, CliWaits
  <1>8. /\ marker' = receipt' /\ receipt'.id = drawn + 1 /\ receipt'.signature = disk /\ receipt' \in Markers
    BY <1>5 DEF Terminal, Markers
  <1>9. Good(receipt)'
    BY <1>1, <1>6, <1>8 DEF Good
  <1>10. cli' \in CliStates
    BY <1>4 DEF Inv, Types
  <1> QED BY <1>2, <1>3, <1>4, <1>6, <1>7, <1>8, <1>9, <1>10, GrowStep

\* Publish preserves the invariant.
LEMMA PublishStep == ASSUME Inv, Publish PROVE Inv'
  <1> DEFINE p == [signature |-> cli.scan, content |-> cli.content]
             goOn(s) == Becomes([cli EXCEPT !.pc = "rescan", !.id = drawn + 1, !.status = s, !.base = drawn + 1, !.etag = 0,
                                         !.content = -1])
             applied == drawn' = drawn + 1 /\ Published(drawn + 1, p)
  <1>1. /\ cli.pc = "publish" /\ marker' = marker /\ receipt' = receipt /\ faults' \in Nat /\ marker' \in Markers
        /\ receipt' \in Markers /\ (receipt # None => Good(receipt))
    BY DEF Publish, At, local, Fault, Inv, Types, TypeOK, ReceiptInv
  <1>2. \/ applied /\ goOn("saved")
        \/ Fail /\ UNCHANGED store
        \/ goOn("failed") /\ (applied \/ (drawn' = drawn + 1 /\ UNCHANGED <<points, removed, latest, revision>>))
    BY DEF Publish
  <1>3. p.content = p.signature /\ p.content = cli.scan /\ cli.scan <= disk /\ cli.scan \in Nat \cup {-1} /\ drawn \in Nat
    BY <1>1, FieldTypes DEF Inv, CliInv, HasScan
  <1>4. ASSUME NEW s \in Statuses, goOn(s)
        PROVE  /\ UNCHANGED <<workspace, queue, window, ed, edits>>
               /\ cli' \in CliStates /\ cli'.pc = "rescan" /\ cli'.id = drawn + 1 /\ cli'.status = s
               /\ cli'.scan = cli.scan /\ cli'.start = cli.start /\ cli'.reused = cli.reused
    <2>1. /\ cli' = [cli EXCEPT !.pc = "rescan", !.id = drawn + 1, !.status = s, !.base = drawn + 1, !.etag = 0,
                             !.content = -1]
          /\ UNCHANGED <<workspace, queue, window, ed, edits>>
      BY <1>4 DEF Becomes
    <2>2. cli \in CliStates /\ drawn + 1 \in Nat /\ -1 \in Nat \cup {-1} /\ "rescan" \in CliLabels
      BY <1>3 DEF Inv, Types, CliLabels
    <2> QED BY <2>1, <2>2 DEF CliStates
  <1> HIDE DEF p, goOn
  <1>5. "saved" \in Statuses /\ "failed" \in Statuses
    BY DEF Statuses
  <1>6. CASE Fail /\ UNCHANGED store
    BY <1>1, <1>6, FailStep
  <1>7. ASSUME NEW s \in {"saved", "failed"}, goOn(s), applied \/ (s = "failed" /\ drawn' = drawn + 1 /\ UNCHANGED <<points, removed, latest, revision>>)
        PROVE  Inv'
    <2>1. /\ UNCHANGED <<workspace, queue, window, ed, edits>>
          /\ cli' \in CliStates /\ cli'.pc = "rescan" /\ cli'.id = drawn + 1 /\ cli'.status = s
          /\ cli'.scan = cli.scan /\ cli'.start = cli.start /\ cli'.reused = cli.reused
      BY <1>4, <1>5, <1>7
    <2>2. disk' = disk /\ silent' = silent /\ queue' = queue /\ current' = current /\ ed' = ed
      BY <2>1 DEF workspace, window
    <2>3. /\ Grown /\ PointsInv' /\ drawn' \in Nat /\ CatalogTypes'
          /\ s = "saved" => drawn + 1 \in DOMAIN points' /\ points'[drawn + 1] = p
      <3>1. CASE applied
        BY <1>3, <2>2, <3>1, PublishedMeaning
      <3>2. CASE s = "failed" /\ drawn' = drawn + 1 /\ UNCHANGED <<points, removed, latest, revision>>
        BY <1>3, <2>2, <3>2, FieldTypes DEF Inv, Grown, PointsInv, CatalogTypes
      <3> QED BY <1>7, <3>1, <3>2
    <2>4. s = "saved" => Good([id |-> cli.id, signature |-> cli.scan])'
      BY <1>3, <2>1, <2>3 DEF Good
    <2>5. CliInv'
      BY <1>1, <2>1, <2>2, <2>4 DEF Inv, CliInv, HasScan, Awaits, Unreported
    <2>6. receipt' # None => Good(receipt)'
      BY <1>1, <2>3 DEF Good, Grown
    <2> QED BY <1>1, <2>1, <2>3, <2>5, <2>6, GrowStep
  <1> QED BY <1>2, <1>6, <1>7

-----------------------------------------------------------------------------
(* Edits and events.                                                       *)

\* What an event may do to the window: it only takes away what is believed.
Event ==
    /\ UNCHANGED <<store, local, cli, ed, watch>>
    /\ \/ disk' = disk /\ silent' = silent
       \/ /\ disk' = disk + 1 /\ silent \subseteq silent'
          /\ queue' \/ watch = "none" \/ disk + 1 \in silent'
    /\ queue /\ ~queue' => "save" \notin current' /\ room'.kind # "clean"
    /\ "save" \in current' => "save" \in current
    /\ room'.receipt \in {room.receipt, None}
    /\ room'.kind = "clean" => room.kind = "clean" /\ (unsaved' => unsaved)
    /\ unsaved' => buffers' \/ (unsaved /\ buffers' = buffers)

\* An event preserves the invariant.
LEMMA EventStep == ASSUME Inv, Types', Event PROVE Inv'
  <1>1. /\ points' = points /\ receipt' = receipt /\ cli' = cli /\ ed' = ed /\ watch' = watch
        /\ disk \in Nat /\ disk' \in Nat /\ disk <= disk' /\ cli.scan \in Nat \cup {-1} /\ cli.content \in Nat \cup {-1}
        /\ cli.start \in Nat
    BY FieldTypes DEF Event, store, local, Inv
  <1>2. PointsInv'
    <2>1. \A i \in DOMAIN points : points[i].content \in Nat \cup {-1} /\ points[i].content <= disk
      BY DEF Inv, PointsInv
    <2>2. \A i \in DOMAIN points : points[i].content <= disk'
      BY <1>1, <2>1
    <2> QED BY <1>1, <2>2 DEF Inv, PointsInv
  <1>3. ReceiptInv'
    BY <1>1 DEF Inv, ReceiptInv, Event, Good
  <1>4. ASSUME NEW v \in Int, v <= disk, watch # "none", Unreported(v), ~queue' PROVE (v + 1) .. disk' \subseteq silent'
    BY <1>1, <1>4 DEF Event, Unreported
  <1>5. CliInv'
    <2>1. ASSUME HasScan, Awaits'
          PROVE  queue' \/ (cli.scan + 1) .. disk' \subseteq silent'
      <3>1. Awaits
        BY <1>1, <2>1 DEF Awaits, Event
      <3>2. watch # "none" /\ cli.scan \in Int /\ cli.scan <= disk /\ (queue \/ Unreported(cli.scan))
        BY <1>1, <2>1, <3>1 DEF Inv, CliInv, EdInv, Awaits
      <3>3. queue => queue'
        BY <2>1 DEF Event, Awaits
      <3> QED BY <1>4, <3>2, <3>3
    <2>2. cli.start <= disk' /\ (cli.scan <= disk => cli.scan <= disk') /\ (cli.content <= disk => cli.content <= disk')
      BY <1>1 DEF Inv, CliInv
    <2>3. HasScan' = HasScan
      BY <1>1 DEF HasScan
    <2> QED BY <1>1, <2>1, <2>2, <2>3 DEF Inv, CliInv, Unreported, Good
  <1>6. EdInv'
    <2>1. ed.pc \in DOMAIN AfterCheck => room'.receipt \in {None, cli.seen}
      BY DEF Inv, EdInv, Event
    <2>2. ed.pc \in {"running", "message"} => watch # "none" /\ (unsaved' => buffers')
      BY DEF Inv, EdInv, Event
    <2> QED BY <1>1, <2>1, <2>2 DEF Inv, EdInv, Event
  <1>7. RoomInv'
    <2> SUFFICES ASSUME room'.kind = "clean"
                 PROVE  /\ ~unsaved' /\ watch' = "baseline"
                        /\ queue' \/ \E i \in DOMAIN points' : points'[i].content >= 0 /\ Unreported(points[i].content)'
      BY DEF RoomInv
    <2>1. room.kind = "clean" /\ ~unsaved /\ watch = "baseline" /\ ~unsaved'
      BY DEF Event, Inv, RoomInv
    <2>2. queue => queue'
      BY DEF Event
    <2>3. ASSUME ~queue' PROVE \E i \in DOMAIN points' : points'[i].content >= 0 /\ Unreported(points[i].content)'
      <3>1. PICK i \in DOMAIN points : points[i].content >= 0 /\ Unreported(points[i].content)
        BY <2>1, <2>2, <2>3 DEF Inv, RoomInv
      <3>2. points[i].content \in Int /\ points[i].content <= disk
        BY DEF Inv, PointsInv
      <3>3. (points[i].content + 1) .. disk' \subseteq silent'
        BY <1>4, <2>1, <2>3, <3>1, <3>2
      <3> QED BY <1>1, <3>1, <3>3 DEF Unreported
    <2> QED BY <1>1, <2>1, <2>3
  <1> QED BY <1>2, <1>3, <1>5, <1>6, <1>7 DEF Inv

\* What setRoomState does with a state other than clean.
LEMMA SetMeaning ==
    ASSUME Types, NEW k \in Kinds \ {"clean"}, NEW b \in BOOLEAN, NEW v, SetRoomState(k, b, v)
    PROVE  room' \in Rooms /\ room'.kind = k /\ room'.trusted = b /\ room'.receipt = None /\ current' \subseteq v
  BY ConstantTypes DEF SetRoomState, Rooms

\* Edit preserves the invariant.
LEMMA EditStep == ASSUME Inv, Edit PROVE Inv'
  <1>1. /\ disk' = disk + 1 /\ edits' = edits - 1 /\ edits > 0
        /\ \/ queue' = (queue \/ watch # "none") /\ UNCHANGED <<silent, faults>>
           \/ "silent" \in Faults /\ silent' = silent \cup {disk + 1} /\ UNCHANGED <<queue, faults>>
        /\ UNCHANGED <<unsaved, store, local, cli, room, current, buffers, watch, track, ed>>
    BY DEF Edit, window
  <1>2. disk' \in Nat /\ silent' \subseteq Nat /\ edits' \in Nat /\ faults' \in Nat
    <2>1. /\ disk' = disk + 1 /\ edits' = edits - 1 /\ edits > 0
          /\ faults' = faults /\ (silent' = silent \/ silent' = silent \cup {disk + 1})
      BY <1>1
    <2>2. disk \in Nat /\ silent \subseteq Nat /\ edits \in Nat /\ faults \in Nat
      BY DEF Inv, Types, TypeOK
    <2>3. faults' \in Nat
      BY <2>1, <2>2
    <2>4. disk' \in Nat /\ edits' \in Nat
      BY <2>1, <2>2
    <2>5. silent' \subseteq Nat
      <3>1. disk + 1 \in Nat
        BY <2>2
      <3> QED BY <2>1, <2>2, <3>1
    <2> QED BY <2>3, <2>4, <2>5
  <1>3. queue' \in BOOLEAN
    BY <1>1 DEF Inv, Types, TypeOK
  <1>4. Types'
    BY <1>1, <1>2, <1>3 DEF store, local, Inv, Types, TypeOK
  <1>5. /\ queue => queue'
        /\ silent \subseteq silent'
        /\ queue' \/ watch = "none" \/ disk + 1 \in silent'
    <2>1. CASE queue' = (queue \/ watch # "none") /\ UNCHANGED <<silent, faults>>
      BY <2>1
    <2>2. CASE silent' = silent \cup {disk + 1} /\ UNCHANGED queue
      BY <2>2
    <2> QED BY <1>1, <2>1, <2>2
  <1>6. Event
    BY <1>1, <1>5 DEF Event
  <1> QED BY <1>4, <1>6, EventStep

\* Deliver and Type preserve the invariant.
LEMMA DeliverStep == ASSUME Inv, Deliver \/ Type PROVE Inv'
  <1>1. room' \in Rooms /\ room'.kind = "dirty" /\ room'.receipt = None /\ current' = {}
    <2>1. room.trusted \in BOOLEAN /\ "dirty" \in Kinds \ {"clean"} /\ SetRoomState("dirty", room.trusted, {})
      BY FieldTypes DEF Deliver, Type, MarkWorkspaceChange, Inv, Kinds
    <2> QED BY <2>1, SetMeaning DEF Inv
  <1>2. Types'
    <2>1. edits' \in Nat
      BY DEF Deliver, Type, Inv, Types, TypeOK
    <2>2. unsaved' \in BOOLEAN /\ queue' \in BOOLEAN /\ buffers' \in BOOLEAN
      BY DEF Deliver, Type, workspace, Inv, Types, TypeOK
    <2>3. UNCHANGED <<disk, silent, points, removed, latest, revision, drawn, marker, receipt, cli, watch, track, ed, faults>>
      BY DEF Deliver, Type, workspace, store, local
    <2> QED BY <1>1, <2>1, <2>2, <2>3 DEF Inv, Types, TypeOK, Rooms
  <1>3. Event
    BY <1>1 DEF Deliver, Type, workspace, Event
  <1> QED BY <1>2, <1>3, EventStep

\* Revert preserves the invariant.
LEMMA RevertStep == ASSUME Inv, Revert PROVE Inv'
  <1>1. Types'
    <2>1. edits' \in Nat
      BY DEF Revert, Inv, Types, TypeOK
    <2>2. UNCHANGED <<disk, silent, queue, store, marker, receipt, cli, room, watch, track, ed, faults>>
      BY DEF Revert, store, local
    <2>3. unsaved' = FALSE /\ buffers' = FALSE /\ current' = {}
      BY DEF Revert
    <2> QED BY <2>1, <2>2, <2>3 DEF store, Inv, Types, TypeOK
  <1>2. Event
    BY DEF Revert, store, local, Event
  <1> QED BY <1>1, <1>2, EventStep

\* SaveDocument preserves the invariant.
LEMMA SaveDocumentStep == ASSUME Inv, SaveDocument PROVE Inv'
  <1>1. \/ room' \in Rooms /\ room'.kind = "dirty" /\ room'.receipt = None /\ current' = {}
        \/ UNCHANGED <<room, current>>
    <2>1. room.trusted \in BOOLEAN /\ "dirty" \in Kinds \ {"clean"}
      BY FieldTypes DEF Inv, Kinds
    <2>2. SetRoomState("dirty", room.trusted, {}) \/ UNCHANGED <<room, current>>
      BY DEF SaveDocument, MarkWorkspaceChange
    <2> QED BY <2>1, <2>2, SetMeaning DEF Inv
  <1>2. /\ unsaved' = FALSE /\ buffers' = FALSE
        /\ \/ disk' = disk + 1 /\ queue' = (queue \/ watch # "none")
           \/ UNCHANGED <<disk, queue>>
        /\ UNCHANGED <<silent, store, local, cli, watch, track, ed, edits, faults>>
    BY DEF SaveDocument
  <1>3. queue' \in BOOLEAN /\ (queue => queue') /\ (disk' = disk \/ queue' \/ watch = "none")
    BY <1>2 DEF Inv, Types, TypeOK
  <1>4. disk' \in Nat
    BY <1>2 DEF Inv, Types, TypeOK
  <1>5. Types'
    BY <1>1, <1>2, <1>3, <1>4 DEF store, local, Inv, Types, TypeOK, Rooms
  <1>6. Event
    BY <1>1, <1>2, <1>3 DEF Event
  <1> QED BY <1>5, <1>6, EventStep

\* TrackStatus and EndTracking preserve the invariant.
LEMMA TrackingStep == ASSUME Inv, Tracking PROVE Inv'
  <1>1. CASE TrackStatus
    <2>1. track' \in Trackings /\ track'.pc = "done"
      <3>1. track' = [NoTrack EXCEPT !.pc = "done", !.changed = ~StatusIsClean(marker) \/ disk # track.marker.signature]
        BY <1>1 DEF TrackStatus
      <3>2. (~StatusIsClean(marker) \/ disk # track.marker.signature) \in BOOLEAN
        OBVIOUS
      <3> QED BY <3>1, <3>2, ConstantTypes DEF Trackings
    <2>2. Types'
      BY <1>1, <2>1 DEF TrackStatus, workspace, store, local, Inv, Types, TypeOK
    <2>3. Event
      BY <1>1 DEF TrackStatus, workspace, Event
    <2> QED BY <2>2, <2>3, EventStep
  <1>2. CASE EndTracking
    <2>1. room' \in Rooms /\ room'.kind # "clean" /\ room'.receipt = None /\ current' \subseteq current
      <3>1. PICK k \in {"dirty", "unknown"} : SetRoomState(k, TRUE, current)
        BY <1>2 DEF EndTracking
      <3>2. k \in Kinds \ {"clean"}
        BY DEF Kinds
      <3> QED BY <3>1, <3>2, SetMeaning DEF Inv
    <2>2. Types'
      BY <1>2, <2>1, ConstantTypes DEF EndTracking, workspace, store, local, Inv, Types, TypeOK, Rooms, Trackings
    <2>3. Event
      BY <1>2, <2>1 DEF EndTracking, workspace, Event
    <2> QED BY <2>2, <2>3, EventStep
  <1> QED BY <1>1, <1>2 DEF Tracking

-----------------------------------------------------------------------------
(* The extension's save.                                                   *)

\* A step of the extension's save leaves the files, the store and the marker
\* alone; it preserves the invariant if it preserves the parts about itself.
LEMMA EditorFrame ==
    ASSUME Inv, UNCHANGED <<workspace, queue, store, local, track, edits>>, faults' \in Nat,
           cli' \in CliStates, room' \in Rooms, ed' \in Editors, current' \subseteq {"clean", "receipt", "save", "track"},
           buffers' \in BOOLEAN, watch' \in {"none", "watched", "baseline"},
           room'.receipt # None => Good(room'.receipt), CliInv', EdInv', RoomInv'
    PROVE  Inv'
  <1>1. /\ disk' = disk /\ silent' = silent /\ unsaved' = unsaved /\ queue' = queue /\ points' = points
        /\ removed' = removed /\ latest' = latest /\ revision' = revision /\ drawn' = drawn
        /\ marker' = marker /\ receipt' = receipt /\ track' = track /\ edits' = edits
    BY DEF workspace, store, local
  <1>2. Types'
    BY <1>1 DEF Inv, Types, TypeOK, CliStates, Rooms, Editors
  <1>3. PointsInv' /\ ReceiptInv'
    BY <1>1 DEF Inv, PointsInv, ReceiptInv, Good
  <1> QED BY <1>2, <1>3 DEF Inv

\* Where the extension's save goes.
LEMMA GotoMeaning ==
    ASSUME Types, NEW l \in EdLabels, EditorGoto(l)
    PROVE  ed' \in Editors /\ ed'.pc = l
  BY DEF EditorGoto, Types, Editors

\* The status bar is what it was, as far as a recovery point is concerned.
LEMMA RoomKept ==
    ASSUME Inv, UNCHANGED <<workspace, queue, store>>, room'.kind = "clean" => room.kind = "clean",
           watch = "baseline" => watch' = "baseline"
    PROVE  RoomInv'
  <1>1. disk' = disk /\ silent' = silent /\ unsaved' = unsaved /\ queue' = queue /\ points' = points
    BY DEF workspace, store
  <1> QED BY <1>1 DEF Inv, RoomInv, Unreported

\* BeginSave preserves the invariant.
LEMMA BeginSaveStep == ASSUME Inv, BeginSave PROVE Inv'
  <1> DEFINE cached == IF TrustedLocalSaveReceipt THEN room.receipt ELSE None
  <1>1. /\ EditorGoto(IF cached # None THEN "cached" ELSE "prepare")
        /\ room' = [room EXCEPT !.receipt = cached]
        /\ cli' = [NoSave EXCEPT !.start = disk, !.gone = removed, !.seen = cached]
        /\ UNCHANGED <<workspace, queue, store, local, current, buffers, watch, track, edits, faults>>
    BY DEF BeginSave
  <1>2. cached \in {room.receipt, None} /\ cached \in Markers /\ disk \in Nat /\ removed \subseteq Nat
    BY FieldTypes, ConstantTypes DEF Inv
  <1> HIDE DEF cached
  <1>3. ed' \in Editors /\ ed'.pc \in {"cached", "prepare"}
    BY <1>1, GotoMeaning DEF Inv, EdLabels
  <1>4. room' \in Rooms /\ room'.kind = room.kind /\ room'.receipt = cached
    BY <1>1, <1>2 DEF Inv, Types, Rooms
  <1>5. cli' \in CliStates /\ cli'.pc = "idle" /\ cli'.reused = FALSE /\ cli'.start = disk /\ cli'.seen = cached
    <2>1. NoSave \in CliStates /\ NoSave.pc = "idle" /\ NoSave.reused = FALSE
      BY ConstantTypes
    <2> HIDE DEF NoSave
    <2> QED BY <1>1, <1>2, <2>1 DEF CliStates
  <1>6. disk' = disk
    BY <1>1 DEF workspace
  <1>7. CliInv'
    BY <1>2, <1>5, <1>6 DEF CliInv, HasScan
  <1>8. EdInv'
    BY <1>3, <1>4, <1>5 DEF EdInv
  <1>9. RoomInv'
    BY <1>1, <1>4, RoomKept
  <1>10. room'.receipt # None => Good(room'.receipt)
    BY <1>2, <1>4 DEF Inv, ReceiptInv
  <1>11. /\ current' \subseteq {"clean", "receipt", "save", "track"} /\ buffers' \in BOOLEAN
         /\ watch' \in {"none", "watched", "baseline"} /\ faults' \in Nat
    BY <1>1 DEF Inv, Types, TypeOK
  <1> QED BY <1>1, <1>3, <1>4, <1>5, <1>7, <1>8, <1>9, <1>10, <1>11, EditorFrame

\* Shortcut preserves the invariant: a receipt that agrees with the files after
\* the save was started is not older than the save.
LEMMA ShortcutStep == ASSUME Inv, Shortcut PROVE Inv'
  <1>1. /\ ed.pc \in DOMAIN AfterCheck
        /\ UNCHANGED <<workspace, queue, store, local, current, buffers, watch, track, edits, faults>>
    BY DEF Shortcut
  <1>2. /\ ed.pc \in {"cached", "status", "shown", "check"} /\ cli.pc = "idle" /\ cli.reused = FALSE
        /\ room.receipt \in {None, cli.seen} /\ cli.start <= disk
        /\ ed.pc \in {"shown", "check"} => cli.start <= cli.seen.signature
    BY <1>1, FieldTypes DEF AfterCheck, Inv, EdInv, Before, CliInv
  <1>3. /\ disk' = disk /\ current' \subseteq {"clean", "receipt", "save", "track"} /\ buffers' \in BOOLEAN
        /\ watch' \in {"none", "watched", "baseline"} /\ faults' \in Nat
    BY <1>1 DEF workspace, Inv, Types, TypeOK
  <1>4. CASE Verified /\ EditorGoto(AfterCheck[ed.pc]) /\ cli' = (IF EditorAt("check") THEN NoSave ELSE cli) /\ UNCHANGED room
    <2>1. /\ ed.pc = "cached" => AfterCheck[ed.pc] = "status"
          /\ ed.pc = "status" => AfterCheck[ed.pc] = "shown"
          /\ ed.pc = "shown" => AfterCheck[ed.pc] = "check"
          /\ ed.pc = "check" => AfterCheck[ed.pc] = "idle"
      BY DEF AfterCheck
    <2>2. AfterCheck[ed.pc] \in EdLabels
      BY <1>2, <2>1 DEF EdLabels
    <2>3. ed' \in Editors /\ ed'.pc = AfterCheck[ed.pc]
      BY <1>4, <2>2, GotoMeaning DEF Inv
    <2>4. cli' \in CliStates /\ cli'.pc = "idle" /\ cli'.reused = FALSE
      BY <1>2, <1>4, ConstantTypes DEF Inv, Types
    <2>5. ed.pc # "check" => cli' = cli
      BY <1>4 DEF EditorAt
    <2>6. cli'.start <= disk
      <3>1. NoSave.start = 0 /\ disk \in Nat
        BY FieldTypes, ConstantTypes DEF Inv
      <3> QED BY <1>2, <1>4, <3>1
    <2>7. ed.pc = "status" => cli.start <= cli.seen.signature
      BY <1>2, <1>4 DEF Verified, EditorAt, ReceiptStillMatches, StatusIsClean
    <2>8. CliInv'
      BY <1>3, <2>4, <2>6 DEF CliInv, HasScan
    <2>9. EdInv'
      <3>1. ed'.pc \in {"status", "shown", "check"} => cli' = cli
        BY <1>2, <2>1, <2>3, <2>5
      <3>2. ed'.pc \in {"shown", "check"} => ed.pc \in {"status", "shown"}
        BY <1>2, <2>1, <2>3
      <3>3. ed'.pc \in {"status", "shown", "check", "idle"}
        BY <1>2, <2>1, <2>3
      <3>4. "idle" \notin DOMAIN AfterCheck
        BY DEF AfterCheck
      <3> QED BY <1>2, <1>4, <2>4, <2>7, <3>1, <3>2, <3>3, <3>4 DEF EdInv
    <2>10. RoomInv'
      BY <1>1, <1>4, RoomKept
    <2>11. room' \in Rooms /\ (room'.receipt # None => Good(room'.receipt))
      BY <1>4 DEF Inv, Types, ReceiptInv
    <2> QED BY <1>1, <1>3, <2>3, <2>4, <2>8, <2>9, <2>10, <2>11, EditorFrame
  <1>5. CASE EditorGoto("prepare") /\ room' = [room EXCEPT !.receipt = None] /\ cli' = [cli EXCEPT !.seen = None]
    <2>1. ed' \in Editors /\ ed'.pc = "prepare" /\ "prepare" \notin DOMAIN AfterCheck
      BY <1>5, GotoMeaning DEF Inv, EdLabels, AfterCheck
    <2>2. room' \in Rooms /\ room'.kind = room.kind /\ room'.receipt = None
      BY <1>5, ConstantTypes DEF Inv, Types, Rooms
    <2>3. cli' \in CliStates /\ cli'.pc = "idle" /\ cli'.reused = FALSE /\ cli'.start = cli.start
      BY <1>2, <1>5, ConstantTypes DEF Inv, Types, CliStates
    <2>4. CliInv'
      BY <1>2, <1>3, <2>3 DEF CliInv, HasScan
    <2>5. EdInv'
      BY <2>1, <2>2, <2>3 DEF EdInv
    <2>6. RoomInv'
      BY <1>1, <2>2, RoomKept
    <2> QED BY <1>1, <1>3, <2>1, <2>2, <2>3, <2>4, <2>5, <2>6, EditorFrame
  <1> QED BY <1>4, <1>5 DEF Shortcut

\* Prepare preserves the invariant.
LEMMA PrepareStep == ASSUME Inv, Prepare PROVE Inv'
  <1>1. /\ ed.pc = "prepare" /\ ed'.pc = "launch" /\ ed' \in Editors
        /\ UNCHANGED <<workspace, queue, store, local, cli, room, current, buffers, watch, track, edits, faults>>
    BY DEF Prepare, EditorAt, window, Editors, EdLabels
  <1>2. /\ cli.pc = "idle" /\ cli.reused = FALSE /\ cli.start <= disk
    BY <1>1, FieldTypes DEF Inv, EdInv, Before, CliInv
  <1>3. "launch" \notin DOMAIN AfterCheck
    BY DEF AfterCheck
  <1>4. disk' = disk
    BY <1>1 DEF workspace
  <1>5. CliInv'
    BY <1>1, <1>2, <1>4 DEF CliInv, HasScan
  <1>6. EdInv'
    BY <1>1, <1>2, <1>3 DEF EdInv
  <1>7. RoomInv'
    BY <1>1, RoomKept
  <1>8. /\ current' \subseteq {"clean", "receipt", "save", "track"} /\ buffers' \in BOOLEAN
        /\ watch' \in {"none", "watched", "baseline"} /\ faults' \in Nat /\ cli' \in CliStates /\ room' \in Rooms
        /\ room'.receipt # None => Good(room'.receipt)
    BY <1>1 DEF Inv, Types, TypeOK, ReceiptInv
  <1> QED BY <1>1, <1>5, <1>6, <1>7, <1>8, EditorFrame

\* Launch preserves the invariant: the command has not scanned yet.
LEMMA LaunchStep == ASSUME Inv, Launch PROVE Inv'
  <1>1. /\ ed.pc = "launch" /\ ed'.pc = "running" /\ ed' \in Editors /\ buffers' = unsaved
        /\ watch' = (IF watch = "none" THEN "watched" ELSE watch) /\ current' = current \cup {"save"}
        /\ cli' = [cli EXCEPT !.pc = IF ed.dirty THEN "forget" ELSE "probe"]
        /\ UNCHANGED <<workspace, queue, store, local, room, track, edits, faults>>
    BY DEF Launch, EditorAt, Editors, EdLabels
  <1>2. /\ cli.pc = "idle" /\ cli.reused = FALSE /\ cli.start <= disk
    BY <1>1, FieldTypes DEF Inv, EdInv, Before, CliInv
  <1>3. "running" \notin Before
    BY DEF AfterCheck, Before
  <1>4. disk' = disk /\ unsaved' = unsaved
    BY <1>1 DEF workspace
  <1>5. cli' \in CliStates /\ cli'.pc \in {"forget", "probe"} /\ cli'.reused = FALSE /\ cli'.start = cli.start
    BY <1>1, <1>2 DEF Inv, Types, CliStates, CliLabels
  <1>6. CliInv'
    BY <1>2, <1>4, <1>5 DEF CliInv, HasScan
  <1>7. EdInv'
    BY <1>1, <1>3, <1>4 DEF EdInv, Before
  <1>8. RoomInv'
    BY <1>1, RoomKept
  <1>9. /\ current' \subseteq {"clean", "receipt", "save", "track"} /\ watch' \in {"none", "watched", "baseline"}
        /\ faults' \in Nat /\ room' \in Rooms /\ (room'.receipt # None => Good(room'.receipt))
    BY <1>1 DEF Inv, Types, TypeOK, ReceiptInv
  <1>10. buffers' \in BOOLEAN
    BY <1>1 DEF Inv, Types, TypeOK
  <1> QED BY <1>1, <1>5, <1>6, <1>7, <1>8, <1>9, <1>10, EditorFrame

\* Returned preserves the invariant.
LEMMA ReturnedStep == ASSUME Inv, Returned PROVE Inv'
  <1>1. /\ ed.pc = "running" /\ cli.pc = "end"
        /\ UNCHANGED <<workspace, queue, store, local, room, current, buffers, watch, track, edits, faults>>
    BY DEF Returned, EditorAt, At, window
  <1>2. \/ cli' = NoSave /\ ed'.pc = "idle" /\ ed' \in Editors
        \/ cli.status # "failed" /\ cli' = cli /\ ed'.pc = "message" /\ ed' \in Editors
    BY GotoMeaning DEF Returned, Inv, EdLabels
  <1>3. {"idle", "message"} \cap Before = {}
    BY DEF AfterCheck, Before
  <1>4. /\ disk' = disk /\ silent' = silent /\ unsaved' = unsaved /\ queue' = queue /\ points' = points
        /\ watch' = watch /\ buffers' = buffers /\ current' = current
    BY <1>1 DEF workspace, store
  <1>5. CliInv'
    <2>1. CASE cli' = NoSave
      <3>1. cli'.pc = "idle" /\ cli'.reused = FALSE /\ cli'.start = 0 /\ disk \in Nat
        BY <2>1, FieldTypes, ConstantTypes DEF Inv
      <3> QED BY <1>4, <3>1 DEF CliInv, HasScan
    <2>2. CASE cli' = cli /\ ed'.pc = "message"
      BY <1>1, <1>4, <2>2 DEF Inv, CliInv, HasScan, Awaits, Unreported, Good
    <2> QED BY <1>2, <2>1, <2>2
  <1>6. EdInv'
    BY <1>1, <1>2, <1>3, <1>4 DEF Inv, EdInv, Before
  <1>7. RoomInv'
    BY <1>1, RoomKept
  <1>8. /\ current' \subseteq {"clean", "receipt", "save", "track"} /\ buffers' \in BOOLEAN
        /\ watch' \in {"none", "watched", "baseline"} /\ faults' \in Nat /\ room' \in Rooms
        /\ room'.receipt # None => Good(room'.receipt)
    BY <1>1 DEF Inv, Types, TypeOK, ReceiptInv
  <1>9. cli' \in CliStates
    BY <1>2, ConstantTypes DEF Inv, Types
  <1> QED BY <1>1, <1>2, <1>5, <1>6, <1>7, <1>8, <1>9, EditorFrame

\* FinishRoomStoreSave preserves the invariant: it says Saved only of the scan
\* that the recovery point was published with.
LEMMA FinishStep == ASSUME Inv, FinishRoomStoreSave PROVE Inv'
  <1>1. /\ ed.pc = "message" /\ EditorGoto("idle") /\ cli' = NoSave
        /\ UNCHANGED <<workspace, queue, store, local, track, edits, faults>>
    BY DEF FinishRoomStoreSave, EditorAt
  <1>2. /\ disk' = disk /\ silent' = silent /\ unsaved' = unsaved /\ queue' = queue /\ points' = points
    BY <1>1 DEF workspace, store
  <1>3. ed' \in Editors /\ ed'.pc = "idle" /\ {"idle"} \cap Before = {}
    BY <1>1, GotoMeaning DEF Inv, EdLabels, AfterCheck, Before
  <1>4. cli' \in CliStates /\ cli'.pc = "idle" /\ cli'.reused = FALSE /\ cli'.start = 0 /\ disk \in Nat
    BY <1>1, FieldTypes, ConstantTypes DEF Inv
  <1>5. CliInv'
    BY <1>2, <1>4 DEF CliInv, HasScan
  <1>6. EdInv'
    BY <1>3 DEF EdInv, Before
  <1>7. faults' \in Nat
    BY <1>1 DEF Inv, Types, TypeOK
  <1>8. CASE (\E k \in Kinds \ {"clean"}, b \in BOOLEAN : SetRoomState(k, b, current)) /\ UNCHANGED <<buffers, watch>>
    <2>1. room' \in Rooms /\ room'.kind # "clean" /\ room'.receipt = None /\ current' \subseteq current
      BY <1>8, SetMeaning DEF Inv
    <2>2. RoomInv'
      BY <2>1 DEF RoomInv
    <2>3. /\ current' \subseteq {"clean", "receipt", "save", "track"} /\ buffers' \in BOOLEAN
          /\ watch' \in {"none", "watched", "baseline"}
      BY <1>8, <2>1 DEF Inv, Types, TypeOK
    <2> QED BY <1>1, <1>3, <1>4, <1>5, <1>6, <1>7, <2>1, <2>2, <2>3, EditorFrame
  <1>9. CASE /\ ~StillDirty /\ BindingMatches
             /\ room' = [kind |-> "clean", trusted |-> TRUE, receipt |-> marker]
             /\ current' = current \cup {"receipt"} \cup (IF room.kind = "clean" THEN {} ELSE {"clean"})
             /\ buffers' = FALSE /\ watch' = "baseline"
    <2>1. marker = [id |-> cli.id, signature |-> cli.scan] /\ ~buffers /\ "save" \in current
      BY <1>9 DEF BindingMatches, StillDirty
    <2>2. /\ cli.pc = "end" /\ cli.status # "failed" /\ ~unsaved
      BY <1>1, <2>1 DEF Inv, EdInv
    <2>3. HasScan /\ Awaits
      BY <1>1, <2>1, <2>2 DEF HasScan, Awaits
    <2>4. /\ Good(marker) /\ cli.start <= cli.scan /\ (queue \/ Unreported(cli.scan))
      BY <2>1, <2>2, <2>3 DEF Inv, CliInv
    <2>5. room' \in Rooms /\ room'.kind = "clean" /\ room'.receipt = marker
      BY <1>9, FieldTypes DEF Inv, Rooms, Kinds
    <2>6. RoomInv'
      <3>1. marker.id \in DOMAIN points /\ points[marker.id].content = cli.scan
        BY <2>1, <2>4 DEF Inv, PointsInv, Good
      <3>2. cli.scan >= 0
        BY <2>4, FieldTypes DEF Inv
      <3> QED BY <1>2, <1>9, <2>2, <2>4, <3>1, <3>2 DEF RoomInv, Unreported
    <2>7. current' \subseteq {"clean", "receipt", "save", "track"}
      BY <1>9 DEF Inv, Types, TypeOK
    <2>8. buffers' \in BOOLEAN /\ watch' \in {"none", "watched", "baseline"}
      BY <1>9
    <2> QED BY <1>1, <1>3, <1>4, <1>5, <1>6, <1>7, <2>4, <2>5, <2>6, <2>7, <2>8, EditorFrame
  <1>10. BindingMatches \in BOOLEAN /\ {"saved-but-still-dirty", "unknown"} \subseteq Kinds \ {"clean"}
    BY DEF BindingMatches, Kinds
  <1> QED BY <1>8, <1>9, <1>10 DEF FinishRoomStoreSave

\* Reload preserves the invariant.
LEMMA ReloadStep == ASSUME Inv, Reload PROVE Inv'
  <1>1. /\ room' = Inactive /\ current' \subseteq {"track"} /\ queue' = FALSE /\ ed'.pc = "idle" /\ ed' \in Editors
        /\ cli' \in {NoSave, cli} /\ UNCHANGED <<workspace, store, local, edits>>
    BY DEF Reload, Valid, Editors, EdLabels
  <1>2. /\ disk' = disk /\ silent' = silent /\ unsaved' = unsaved /\ points' = points /\ receipt' = receipt
        /\ latest' = latest /\ drawn' = drawn /\ marker' = marker /\ edits' = edits
        /\ removed' = removed /\ revision' = revision
    BY <1>1 DEF workspace, store, local
  <1>3. cli' \in CliStates /\ room' \in Rooms /\ room'.kind = "unknown" /\ room'.receipt = None
    BY <1>1, ConstantTypes DEF Inv, Types, Inactive
  <1>4. track' \in Trackings /\ watch' \in {"none", "watched", "baseline"}
    <2>1. marker \in Markers /\ NoTrack \in Trackings
      BY FieldTypes, ConstantTypes DEF Inv
    <2>2. [pc |-> "status", marker |-> marker, changed |-> FALSE] \in Trackings
      BY <2>1 DEF Trackings
    <2> QED BY <2>1, <2>2 DEF Reload, Tracks, Watch
  <1>5. faults' \in Nat
    BY DEF Reload, Fault, Inv, Types, TypeOK
  <1>6. buffers' \in BOOLEAN
    BY DEF Reload, Inv, Types, TypeOK
  <1>7. Types'
    BY <1>1, <1>2, <1>3, <1>4, <1>5, <1>6 DEF Inv, Types, TypeOK, CliStates, Rooms, Editors, Trackings
  <1>8. PointsInv' /\ ReceiptInv'
    BY <1>2, <1>3 DEF Inv, PointsInv, ReceiptInv, Good
  <1>9. CliInv'
    <2>1. ~Awaits'
      BY <1>1 DEF Awaits
    <2>2. CASE cli' = cli
      BY <1>2, <2>1, <2>2 DEF Inv, CliInv, HasScan, Good
    <2>3. CASE cli' = NoSave
      <3>1. cli'.pc = "idle" /\ cli'.reused = FALSE /\ cli'.start = 0 /\ disk \in Nat
        BY <2>3, FieldTypes, ConstantTypes DEF Inv
      <3> QED BY <1>2, <3>1 DEF CliInv, HasScan
    <2> QED BY <1>1, <2>2, <2>3
  <1>10. EdInv'
    <2>1. {"idle"} \cap Before = {}
      BY DEF AfterCheck, Before
    <2> QED BY <1>1, <2>1 DEF EdInv, Before
  <1>11. RoomInv'
    BY <1>3 DEF RoomInv
  <1> QED BY <1>7, <1>8, <1>9, <1>10, <1>11 DEF Inv

-----------------------------------------------------------------------------
(* What the command knows of removals.                                     *)

\* Before the command reads the catalog it has no base; the base it reads,
\* and the point it publishes, were not removed when the save was started.
BaseInv ==
    /\ cli.gone \subseteq removed
    /\ cli.pc \in {"idle", "forget", "probe", "compare", "probe-again", "compare-again", "read"} => cli.base = 0
    /\ cli.pc \in {"scan", "decide", "backup", "after", "publish"} => cli.base \notin cli.gone
    /\ cli.pc \in {"rescan", "marker", "receipt", "end"} /\ cli.status # "failed" /\ cli.base # 0 =>
          cli.id = cli.base /\ cli.id \notin cli.gone

\* Removals are never undone.
LEMMA RemovedGrows == ASSUME Inv, Next PROVE removed \subseteq removed'
  BY DEF Next, Edit, Deliver, Type, Revert, SaveDocument, Tracking, TrackStatus, EndTracking, EditorStep, BeginSave,
         Shortcut, Prepare, Launch, Returned, FinishRoomStoreSave, Step, Probe, Compare, Forget, ReadLatest, Scan,
         Decide, Backup, AfterBackup, Publish, Published, Rescan, WriteMarker, WriteReceipt, Crash, Reload, Terminal,
         Foreign, ForeignRemove, store

\* A step of the command that ends it: with nothing, or with its base.
LEMMA BaseEnds ==
    ASSUME Inv, BaseInv, removed \subseteq removed', NEW s \in Statuses, NEW i \in Nat, NEW v \in Nat \cup {-1},
           End(s, i, v), s = "failed" \/ cli.base = 0 \/ (cli.base = i /\ i \notin cli.gone)
    PROVE  BaseInv'
  <1>1. /\ cli'.pc = "end" /\ cli'.status = s /\ cli'.id = i /\ cli'.base = cli.base /\ cli'.gone = cli.gone
    BY EndMeaning DEF Inv
  <1> QED BY <1>1 DEF BaseInv

\* The steps of the command preserve what it knows of removals.
LEMMA BaseStep == ASSUME Inv, BaseInv, Step \/ Crash, removed \subseteq removed' PROVE BaseInv'
  <1>1. /\ cli \in CliStates /\ "failed" \in Statuses /\ "already-saved" \in Statuses
        /\ 0 \notin removed /\ latest \notin removed /\ drawn + 1 \notin removed
    BY FieldTypes DEF Inv, Types, Statuses
  <1>2. ASSUME Fail PROVE BaseInv'
    <2>1. End("failed", 0, -1)
      BY <1>2 DEF Fail
    <2> QED BY <1>1, <2>1, BaseEnds
  <1>3. CASE Probe \/ Forget
    BY <1>1, <1>3 DEF Probe, Forget, Becomes, At, BaseInv, CliStates
  <1>4. CASE Compare
    <2>1. cli.pc \in {"compare", "compare-again"} /\ cli.base = 0
      BY <1>4 DEF Compare, At, BaseInv
    <2>2. CASE End("already-saved", marker.id, marker.signature)
      <3>1. marker.id \in Nat /\ marker.signature \in Nat \cup {-1}
        BY FieldTypes DEF Inv, Markers
      <3> QED BY <1>1, <2>1, <2>2, <3>1, BaseEnds
    <2>3. CASE /\ cli'.gone = cli.gone /\ cli'.base = cli.base /\ cli'.pc \in {"probe-again", "read"}
      BY <2>1, <2>3 DEF BaseInv
    <2> QED BY <1>1, <1>4, <2>2, <2>3 DEF Compare, Becomes, CliStates
  <1>5. CASE ReadLatest
    BY <1>1, <1>5 DEF ReadLatest, Becomes, At, BaseInv, CliStates
  <1>6. CASE Scan \/ Backup \/ AfterBackup
    BY <1>1, <1>2, <1>6 DEF Scan, Backup, AfterBackup, Becomes, At, BaseInv, CliStates
  <1>7. CASE Decide
    <2>1. CASE End("already-saved", cli.base, cli.scan)
      <3>1. cli.base \in Nat /\ cli.scan \in Nat \cup {-1} /\ cli.base \notin cli.gone
        BY <1>7, FieldTypes DEF Inv, Decide, At, BaseInv
      <3> QED BY <1>1, <2>1, <3>1, BaseEnds
    <2>2. CASE Becomes([cli EXCEPT !.pc = "backup"])
      BY <1>1, <1>7, <2>2 DEF Decide, Becomes, At, BaseInv, CliStates
    <2> QED BY <1>2, <1>7, <2>1, <2>2 DEF Decide
  <1>8. CASE Publish
    <2>1. CASE \E s \in Statuses :
                 Becomes([cli EXCEPT !.pc = "rescan", !.id = drawn + 1, !.status = s, !.base = drawn + 1, !.etag = 0,
                                     !.content = -1])
      <3>1. cli'.pc = "rescan" /\ cli'.id = drawn + 1 /\ cli'.base = drawn + 1 /\ cli'.gone = cli.gone
        BY <1>1, <2>1 DEF Becomes, CliStates
      <3> QED BY <1>1, <3>1 DEF BaseInv
    <2>2. "saved" \in Statuses
      BY DEF Statuses
    <2> QED BY <1>1, <1>2, <1>8, <2>1, <2>2 DEF Publish
  <1>9. CASE Rescan
    <2>1. /\ cli.pc = "rescan" /\ cli'.pc = "marker" /\ cli'.base = cli.base /\ cli'.id = cli.id /\ cli'.gone = cli.gone
          /\ cli'.status # "failed" => cli.status # "failed"
      BY <1>1, <1>9 DEF Rescan, Becomes, At, CliStates
    <2> QED BY <2>1 DEF BaseInv
  <1>10. CASE WriteMarker \/ WriteReceipt
    BY <1>1, <1>2, <1>10 DEF WriteMarker, WriteReceipt, Becomes, At, BaseInv, CliStates
  <1>11. CASE Crash
    BY <1>2, <1>11 DEF Crash
  <1> QED BY <1>3, <1>4, <1>5, <1>6, <1>7, <1>8, <1>9, <1>10, <1>11 DEF Step

\* Every step preserves what the command knows of removals.
LEMMA BaseNext == Inv /\ BaseInv /\ [Next]_vars => BaseInv'
  <1> SUFFICES ASSUME Inv, BaseInv, [Next]_vars PROVE BaseInv'
    OBVIOUS
  <1>1. CASE UNCHANGED vars
    BY <1>1 DEF vars, store, BaseInv
  <1>2. CASE Next
    <2>1. removed \subseteq removed'
      BY <1>2, RemovedGrows
    <2>2. CASE cli' = cli
      BY <2>1, <2>2 DEF BaseInv
    <2>3. CASE cli' = NoSave
      BY <2>3 DEF NoSave, BaseInv
    <2>4. CASE Step \/ Crash
      BY <2>1, <2>4, BaseStep
    <2>5. CASE BeginSave
      <3>1. PICK m : cli' = [NoSave EXCEPT !.start = disk, !.gone = removed, !.seen = m]
        BY <2>5 DEF BeginSave
      <3>2. cli'.pc = "idle" /\ cli'.base = 0 /\ cli'.gone = removed
        BY <3>1 DEF NoSave
      <3> QED BY <2>1, <3>2 DEF BaseInv
    <2>6. CASE Shortcut \/ Launch
      <3>1. cli.pc = "idle" /\ cli \in CliStates
        BY <2>6 DEF Shortcut, Launch, EditorAt, Inv, Types, EdInv, Before
      <3>2. CASE cli' = [cli EXCEPT !.seen = None]
        BY <2>1, <3>1, <3>2 DEF CliStates, BaseInv
      <3>3. CASE Launch
        <4>1. cli' = [cli EXCEPT !.pc = IF ed.dirty THEN "forget" ELSE "probe"]
          BY <3>3 DEF Launch
        <4> QED BY <2>1, <3>1, <4>1 DEF CliStates, BaseInv
      <3> QED BY <2>2, <2>3, <2>6, <3>2, <3>3 DEF Shortcut
    <2>7. CASE Returned \/ FinishRoomStoreSave \/ Reload \/ Prepare
      BY <2>2, <2>3, <2>7 DEF Returned, FinishRoomStoreSave, Reload, Prepare
    <2>8. CASE Edit \/ Deliver \/ Type \/ Revert \/ SaveDocument \/ Tracking \/ Terminal \/ Foreign \/ ForeignRemove
      BY <2>2, <2>8 DEF Edit, Deliver, Type, Revert, SaveDocument, Tracking, TrackStatus, EndTracking, Terminal, Foreign,
                        ForeignRemove
    <2> QED BY <1>2, <2>4, <2>5, <2>6, <2>7, <2>8 DEF Next, EditorStep
  <1> QED BY <1>1, <1>2

-----------------------------------------------------------------------------
(* The theorems.                                                           *)

\* The initial states satisfy the invariant.
LEMMA InitInv == Init => Inv
  <1> SUFFICES ASSUME Init PROVE Inv
    OBVIOUS
  <1>1. /\ disk = 0 /\ silent = {} /\ unsaved = FALSE /\ queue = FALSE /\ receipt = None /\ cli = NoSave
        /\ room = Inactive /\ current = Valid(marker) /\ buffers = FALSE /\ watch = Watch(marker)
        /\ track = Tracks(marker) /\ ed = [pc |-> "idle", dirty |-> FALSE] /\ edits = MaxEdits /\ faults = MaxFaults
    BY DEF Init
  <1>2. /\ latest \in (DOMAIN points \ removed) \cup {0} /\ DOMAIN points \subseteq 1 .. drawn /\ drawn \in Nat
        /\ removed \subseteq DOMAIN points /\ revision \in Nat /\ marker \in Markers
        /\ \A i \in DOMAIN points : points[i].content = 0 /\ points[i].signature = 0
    <2>1. removed = {} /\ revision = drawn
      BY DEF Init
    <2>2. CASE points = <<>> /\ latest = 0 /\ drawn = 0 /\ marker = None
      BY <2>1, <2>2, ConstantTypes
    <2>3. CASE /\ points = <<[signature |-> 0, content |-> 0]>> /\ latest = 1 /\ drawn = 1
               /\ marker = [id |-> 1, signature |-> 0]
      BY <2>1, <2>3 DEF Markers
    <2> QED BY <2>2, <2>3 DEF Init
  <1>3. cli \in CliStates /\ room \in Rooms /\ receipt \in Markers /\ cli.pc = "idle" /\ cli.reused = FALSE /\ cli.start = 0
    BY <1>1, ConstantTypes
  <1>4. room.kind = "unknown" /\ room.receipt = None
    BY <1>1 DEF Inactive
  <1>5. ed \in Editors /\ ed.pc = "idle" /\ {"idle"} \cap Before = {}
    BY <1>1 DEF Editors, EdLabels, Before, AfterCheck
  <1>6. track \in Trackings
    <2>1. NoTrack \in Trackings /\ [pc |-> "status", marker |-> marker, changed |-> FALSE] \in Trackings
      BY <1>2, ConstantTypes DEF Trackings
    <2> QED BY <1>1, <2>1 DEF Tracks
  <1>7. watch \in {"none", "watched", "baseline"} /\ current \subseteq {"clean", "receipt", "save", "track"}
    BY <1>1 DEF Watch, Valid
  <1>8. edits \in Nat /\ faults \in Nat
    BY <1>1, WorkspaceSaveAssumption
  <1>9. TypeOK
    BY <1>1, <1>2, <1>3, <1>5, <1>6, <1>7, <1>8 DEF TypeOK, CliStates, Rooms, Editors, Trackings
  <1>10. PointsInv /\ ReceiptInv
    BY <1>1, <1>2, <1>4 DEF PointsInv, ReceiptInv
  <1>11. CliInv /\ EdInv /\ RoomInv
    BY <1>1, <1>3, <1>4, <1>5 DEF CliInv, HasScan, EdInv, Before, RoomInv
  <1> QED BY <1>2, <1>3, <1>5, <1>6, <1>9, <1>10, <1>11 DEF Inv, Types

\* Every step preserves the invariant.
LEMMA NextInv == Inv /\ [Next]_vars => Inv'
  <1> SUFFICES ASSUME Inv, [Next]_vars PROVE Inv'
    OBVIOUS
  <1>1. CASE UNCHANGED vars
    <2>1. /\ UNCHANGED <<disk, silent, unsaved, queue, points, removed, latest, revision, drawn, marker, receipt>>
          /\ UNCHANGED <<cli, room, current, buffers, watch, track, ed, edits, faults>>
      BY <1>1 DEF vars, workspace, store, local, window
    <2>2. Types' /\ PointsInv' /\ ReceiptInv'
      BY <2>1 DEF Inv, Types, TypeOK, PointsInv, ReceiptInv, Good
    <2>3. CliInv' /\ EdInv' /\ RoomInv'
      BY <2>1 DEF Inv, CliInv, EdInv, RoomInv, Good, HasScan, Awaits, Unreported
    <2> QED BY <2>2, <2>3 DEF Inv
  <1>2. CASE Step
    BY <1>2, ProbeStep, CompareStep, ReadStep, ScanStep, DecideStep, BackupStep, AfterBackupStep, PublishStep, RescanStep,
       WriteMarkerStep, WriteReceiptStep DEF Step
  <1>3. CASE EditorStep
    BY <1>3, BeginSaveStep, ShortcutStep, PrepareStep, LaunchStep, ReturnedStep, FinishStep DEF EditorStep
  <1> QED BY <1>1, <1>2, <1>3, EditStep, DeliverStep, RevertStep, SaveDocumentStep, TrackingStep, CrashStep, ReloadStep,
             TerminalStep, ForeignStep, ForeignRemoveStep DEF Next

\* The invariant holds.
LEMMA Invariant == Spec => []Inv
  BY InitInv, NextInv, PTL DEF Spec

\* Every variable keeps its type, and the latest recovery point is a published
\* one that is not removed (RoomStoreOperations.save).
THEOREM WorkspaceTypeCorrect == Spec => []TypeOK
  <1>1. Inv => TypeOK
    BY DEF Inv, Types
  <1> QED BY <1>1, Invariant, PTL

\* A recovery point holds the version whose signature it was published with,
\* however the files change while a save scans, backs up and publishes
\* (RoomStoreOperations.save).
THEOREM PointsStayExact == Spec => []PointsAreExact
  <1>1. Inv => PointsAreExact
    BY DEF Inv, PointsInv, PointsAreExact
  <1> QED BY <1>1, Invariant, PTL

\* Saved and already saved are never said of less than what was on disk when
\* the save was started, whichever shortcut answers
\* (trustedLocalSaveReceipt, read_noop, _is_unchanged) and whatever other
\* machines publish and remove: the point that is named was published and
\* holds it.
THEOREM EveryAnswerIsTrue == Spec => []AnswersAreTrue
  <1>1. ASSUME Inv PROVE AnswersAreTrue
    <2>1. ASSUME NEW r, Good(r), cli.start <= r.signature PROVE Holds(r.id, cli.start)
      <3>1. /\ r.id \in DOMAIN points /\ points[r.id].content = r.signature /\ points[r.id].content \in Nat \cup {-1}
            /\ cli.start \in Nat
        BY <1>1, <2>1, FieldTypes DEF Inv, Good, PointsInv
      <3> QED BY <2>1, <3>1 DEF Holds
    <2>2. ASSUME At("end"), cli.status # "failed" PROVE Holds(cli.id, cli.start)
      <3> DEFINE r == [id |-> cli.id, signature |-> cli.scan]
      <3>1. Good(r) /\ cli.start <= cli.scan
        BY <1>1, <2>2 DEF Inv, CliInv, HasScan, At
      <3>2. r.id = cli.id /\ r.signature = cli.scan
        OBVIOUS
      <3> HIDE DEF r
      <3> QED BY <2>1, <3>1, <3>2
    <2>3. ASSUME EditorAt("check"), TrustedLocalSaveReceipt PROVE Holds(room.receipt.id, cli.start)
      <3>1. room.receipt # None /\ room.receipt = cli.seen /\ cli.start <= cli.seen.signature
        BY <1>1, <2>3 DEF Inv, EdInv, AfterCheck, EditorAt, TrustedLocalSaveReceipt
      <3>2. Good(room.receipt)
        BY <1>1, <3>1 DEF Inv, ReceiptInv
      <3> QED BY <2>1, <3>1, <3>2
    <2> QED BY <2>2, <2>3 DEF AnswersAreTrue
  <1> QED BY <1>1, Invariant, PTL

\* An answer that rests on the catalog (_is_unchanged, or a publication) names
\* a recovery point that was not removed when the save was started.
THEOREM CatalogAnswersAreCurrent == Spec => []AnswersAreCurrent
  <1>1. Init => BaseInv
    BY DEF Init, NoSave, BaseInv
  <1>2. Spec => []BaseInv
    BY <1>1, BaseNext, Invariant, PTL DEF Spec
  <1>3. BaseInv => AnswersAreCurrent
    BY DEF BaseInv, AnswersAreCurrent, At
  <1> QED BY <1>2, <1>3, PTL

\* While the status bar says Saved and no event is on its way, nothing is
\* unsaved but changes that VS Code did not report (finishRoomStoreSave).
THEOREM SavedMeansSaved == Spec => []SavedIsTrue
  <1>1. Inv => SavedIsTrue
    BY DEF Inv, RoomInv, SavedIsTrue, Unreported
  <1> QED BY <1>1, Invariant, PTL
=============================================================================
