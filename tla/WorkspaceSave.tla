--------------------------- MODULE WorkspaceSave ---------------------------
(***************************************************************************)
(* Saving a workspace that is being edited: the VS Code extension          *)
(* (vscode-extension/extension.js), which shows whether the Room is saved, *)
(* and the save command it runs (room_store_operations.py,                 *)
(* local_save_receipt.py, workspace_state.py).                             *)
(*                                                                         *)
(* The workspace is a version number, which is also its stat signature.    *)
(* A recovery point has the signature it was published with and the        *)
(* version that was backed up; if files change while Restic reads them the *)
(* version is the one at the end, since the scan that follows rejects the  *)
(* backup in any case.                                                     *)
(*                                                                         *)
(* The Dimension is a MinIO one and markers have format 3.  Left out: the  *)
(* preview and the questions before a save, which only stop it; images and *)
(* other components; changes of the capture policy; a save that is started *)
(* while the command of an earlier one runs, except Terminal.              *)
(***************************************************************************)
EXTENDS Integers, FiniteSets

CONSTANTS
    MaxEdits,   \* bound: changes to files and to documents
    Faults,     \* what may go wrong
    MaxFaults   \* bound: how often

\*   silent   a file changes and VS Code reports no event (.git); any edit may
\*   foreign  another machine publishes or removes recovery points of the Room
\*   terminal a save from a terminal, in one step
\*   verify   the publication cannot be verified; the marker is written
\*   crash    the command dies, is cancelled, or cannot publish
\*   reload   the window is reloaded
FaultNames == {"silent", "foreign", "terminal", "verify", "crash", "reload"}

ASSUME WorkspaceSaveAssumption ==
    MaxEdits \in Nat /\ Faults \subseteq FaultNames /\ MaxFaults \in Nat

VARIABLES
    disk,     \* the version of the files
    silent,   \* versions whose change had no event
    unsaved,  \* a document has changes that are not on disk
    queue,    \* a file event is not delivered yet
    points,   \* the recovery points that were ever published
    removed,  \* those that another machine has removed since
    latest,   \* the latest of the others; 0 if there is none
    revision, \* the catalog's revision
    drawn,    \* how many ids have been drawn
    marker,   \* .josh-room.json: the recovery point and its signature
    receipt,  \* the marker for which the save command has a local receipt
    cli,      \* the save command of the window
    room,     \* roomStatus, workspaceBindingTrusted, trustedSaveReceipt
    current,  \* the copies of workspaceEventGeneration that still equal it
    buffers,  \* dirtyBuffers is not empty
    watch,    \* watchers, and a baseline, are installed
    track,    \* startDirtyTracking, after it has installed the watchers
    ed,       \* the extension's save: where it is, and --editor-dirty
    edits,    \* changes that may still happen
    faults    \* faults that may still happen

workspace == <<disk, silent, unsaved>>
store     == <<points, removed, latest, revision, drawn>>
local     == <<marker, receipt>>
window    == <<room, current, buffers, watch, track>>
vars      == <<workspace, queue, store, local, cli, window, ed, edits, faults>>

None    == [id |-> 0, signature |-> -1]
Elsewhere == -1   \* the version of another machine's workspace

\* The save command.  base and etag are the latest recovery point and the
\* catalog it has read; start and gone, for the properties, are the files
\* and the removals when the save was started.
NoSave  == [pc |-> "idle", base |-> 0, etag |-> 0, seen |-> None, scan |-> -1, reused |-> FALSE,
            content |-> -1, id |-> 0, status |-> "none", start |-> 0, gone |-> {}]
NoTrack == [pc |-> "none", marker |-> None, changed |-> FALSE]

Kinds    == {"unknown", "clean", "dirty", "saved-but-still-dirty"}
Statuses == {"none", "failed", "saved", "saved-but-dirty", "already-saved"}

\* activate and startDirtyTracking, up to the first await: without a marker
\* nothing is watched.
Inactive  == [kind |-> "unknown", trusted |-> FALSE, receipt |-> None]
Tracks(m) == IF m = None THEN NoTrack ELSE [pc |-> "status", marker |-> m, changed |-> FALSE]
Watch(m)  == IF m = None THEN "none" ELSE "baseline"
Valid(m)  == IF m = None THEN {} ELSE {"track"}

Init ==
    /\ disk = 0 /\ silent = {} /\ unsaved = FALSE /\ queue = FALSE
    /\ \/ points = <<>> /\ latest = 0 /\ drawn = 0 /\ marker = None
       \/ /\ points = <<[signature |-> 0, content |-> 0]>> /\ latest = 1 /\ drawn = 1
          /\ marker = [id |-> 1, signature |-> 0]
    /\ removed = {} /\ revision = drawn /\ receipt = None
    /\ cli = NoSave
    /\ room = Inactive /\ current = Valid(marker) /\ buffers = FALSE
    /\ watch = Watch(marker) /\ track = Tracks(marker)
    /\ ed = [pc |-> "idle", dirty |-> FALSE]
    /\ edits = MaxEdits
    /\ faults = MaxFaults

Fault(kind) == kind \in Faults /\ faults > 0 /\ faults' = faults - 1

-----------------------------------------------------------------------------
(* The extension's state.                                                  *)

\* setRoomState, with the copies of the event generation that are valid
\* before it.  Only a change to clean renews cleanEventGeneration.
SetRoomState(kind, trusted, valid) ==
    /\ room' = [kind |-> kind, trusted |-> trusted, receipt |-> IF kind = "clean" THEN room.receipt ELSE None]
    /\ current' = CASE kind = room.kind -> valid
                    [] kind # room.kind /\ kind = "clean" -> valid \cup {"clean"}
                    [] OTHER -> valid \ {"clean"}

\* markWorkspaceChange: workspaceEventGeneration changes.
MarkWorkspaceChange == SetRoomState("dirty", room.trusted, {})

\* trustedLocalSaveReceipt
TrustedLocalSaveReceipt ==
    /\ room.kind = "clean" /\ room.trusted /\ watch = "baseline"
    /\ {"clean", "receipt"} \subseteq current
    /\ room.receipt # None /\ marker = room.receipt

\* local_status, as the command reports it to the extension
StatusIsClean(m) == m # None /\ m.signature = disk

\* [Faulty variant] silence of the watchers is believed.
ReceiptIsBelieved == TRUE

\* nativeSaveReceiptStillMatches
ReceiptStillMatches == StatusIsClean(marker) /\ marker.signature = cli.seen.signature

-----------------------------------------------------------------------------
(* Edits and events.                                                       *)

\* A program writes a file; VS Code queues an event, or none.
Edit ==
    /\ edits > 0 /\ edits' = edits - 1
    /\ disk' = disk + 1
    /\ \/ queue' = (queue \/ watch # "none") /\ UNCHANGED <<silent, faults>>
       \/ "silent" \in Faults /\ silent' = silent \cup {disk + 1} /\ UNCHANGED <<queue, faults>>
    /\ UNCHANGED <<unsaved, store, local, cli, window, ed>>

\* The watchers call markWorkspaceChange.
Deliver ==
    /\ queue /\ queue' = FALSE
    /\ MarkWorkspaceChange
    /\ UNCHANGED <<workspace, store, local, cli, buffers, watch, track, ed, edits, faults>>

\* onDidChangeTextDocument with isDirty
Type ==
    /\ edits > 0 /\ edits' = edits - 1
    /\ unsaved' = TRUE
    /\ buffers' = TRUE
    /\ MarkWorkspaceChange
    /\ UNCHANGED <<disk, silent, queue, store, local, cli, watch, track, ed, faults>>

\* onDidChangeTextDocument without isDirty: a document is reverted or loaded
\* again.  The state stays.
Revert ==
    /\ unsaved \/ edits > 0
    /\ edits' = IF unsaved THEN edits ELSE edits - 1
    /\ unsaved' = FALSE
    /\ buffers' = FALSE
    /\ current' = {}
    /\ UNCHANGED <<disk, silent, queue, store, local, cli, room, watch, track, ed, faults>>

\* onDidSaveTextDocument, onDidCloseTextDocument
SaveDocument ==
    /\ unsaved /\ unsaved' = FALSE
    /\ buffers' = FALSE
    /\ \/ /\ disk' = disk + 1
          /\ queue' = (queue \/ watch # "none")
       \/ UNCHANGED <<disk, queue>>
    /\ IF watch = "baseline" THEN MarkWorkspaceChange ELSE UNCHANGED <<room, current>>
    /\ UNCHANGED <<silent, store, local, cli, watch, track, ed, edits, faults>>

\* The status command scans the workspace.
TrackStatus ==
    /\ track.pc = "status"
    /\ track' = [NoTrack EXCEPT !.pc = "done", !.changed = ~StatusIsClean(marker) \/ disk # track.marker.signature]
    /\ UNCHANGED <<workspace, queue, store, local, cli, room, current, buffers, watch, ed, edits, faults>>

\* The status never makes the Room clean.
EndTracking ==
    /\ track.pc = "done"
    /\ SetRoomState(IF "track" \notin current \/ buffers \/ track.changed THEN "dirty" ELSE "unknown", TRUE, current)
    /\ track' = NoTrack
    /\ UNCHANGED <<workspace, queue, store, local, cli, buffers, watch, ed, edits, faults>>

-----------------------------------------------------------------------------
(* The save command.                                                       *)

At(label) == cli.pc = label

\* A step of the command that changes only its own state.
Becomes(save) ==
    /\ cli' = save
    /\ UNCHANGED <<workspace, queue, window, ed, edits>>

\* base stays: an answer that rests on the catalog differs from read_noop's,
\* which the result marks as provider_verification: last-verified-save.
End(status, id, signature) ==
    Becomes([NoSave EXCEPT !.pc = "end", !.status = status, !.id = id, !.scan = signature,
                           !.base = cli.base, !.start = cli.start, !.gone = cli.gone])

Fail == End("failed", 0, -1)

\* read_noop: the scan agrees with a marker that is still there.
Proves == disk = cli.seen.signature

\* _local_save_preflight, and the same probe in save_room_store
Probe ==
    /\ At("probe") \/ At("probe-again")
    /\ IF receipt # None /\ receipt = marker
       THEN /\ Becomes([cli EXCEPT !.pc = IF At("probe") THEN "compare" ELSE "compare-again", !.seen = marker])
            /\ UNCHANGED receipt
       ELSE /\ Becomes([cli EXCEPT !.pc = IF At("probe") THEN "probe-again" ELSE "read"])
            /\ receipt' = None
    /\ UNCHANGED <<marker, store, faults>>

\* Only the first probe keeps its scan for the save.
Compare ==
    /\ At("compare") \/ At("compare-again")
    /\ LET same == marker = cli.seen
       IN  \/ /\ same /\ Proves
              /\ End("already-saved", marker.id, marker.signature)
              /\ UNCHANGED receipt
           \/ /\ ~(same /\ Proves)
              /\ Becomes(IF At("compare")
                         THEN [cli EXCEPT !.pc = "probe-again", !.seen = None,
                                          !.scan = IF same THEN disk ELSE -1, !.reused = same]
                         ELSE [cli EXCEPT !.pc = "read", !.seen = None])
              /\ receipt' = None
    /\ UNCHANGED <<marker, store, faults>>

\* --editor-dirty skips the first probe.
Forget ==
    /\ At("forget")
    /\ receipt' = None
    /\ Becomes([cli EXCEPT !.pc = "probe-again"])
    /\ UNCHANGED <<marker, store, faults>>

\* [Faulty variant] the marker is believed to name the latest one.
ReadLatestMarker ==
    /\ At("read")
    /\ Becomes([cli EXCEPT !.pc = "scan", !.etag = revision,
                           !.base = IF marker.id \in DOMAIN points THEN marker.id ELSE latest])
    /\ UNCHANGED <<store, local, faults>>

ReadLatest ==
    /\ At("read")
    /\ Becomes([cli EXCEPT !.pc = "scan", !.base = latest, !.etag = revision])
    /\ UNCHANGED <<store, local, faults>>

Scan ==
    /\ At("scan")
    /\ Becomes([cli EXCEPT !.pc = "decide", !.scan = IF cli.reused THEN @ ELSE disk])
    /\ UNCHANGED <<store, local, faults>>

\* _is_unchanged: the catalog's signature of the latest recovery point.
Unchanged == cli.base # 0 /\ points[cli.base].signature = cli.scan

\* A scan that was reused is made again before it counts.  The parent's
\* entries cannot be listed once a removal has forgotten its snapshot.
Decide ==
    /\ At("decide")
    /\ \/ /\ Unchanged /\ (cli.reused => disk = cli.scan)
          /\ End("already-saved", cli.base, cli.scan)
       \/ /\ Unchanged /\ cli.reused /\ disk # cli.scan
          /\ Fail
       \/ /\ cli.base \in removed
          /\ Fail
       \/ /\ ~Unchanged
          /\ Becomes([cli EXCEPT !.pc = "backup"])
    /\ UNCHANGED <<store, local, faults>>

Backup ==
    /\ At("backup")
    /\ Becomes([cli EXCEPT !.pc = "after", !.content = disk])
    /\ UNCHANGED <<store, local, faults>>

\* [Faulty variant] the workspace is not scanned after the backup.
StillScannedAlways == TRUE

StillScanned == disk = cli.scan

AfterBackup ==
    /\ At("after")
    /\ IF StillScanned THEN Becomes([cli EXCEPT !.pc = "publish"]) ELSE Fail
    /\ UNCHANGED <<store, local, faults>>

\* [Faulty variant] the catalog is switched before the descriptor is stored.
PublishedEarly(id, point) ==
    latest' = id /\ revision' = revision + 1 /\ UNCHANGED <<points, removed>>

Published(id, point) ==
    /\ points' = [i \in DOMAIN points \cup {id} |-> IF i = id THEN point ELSE points[i]]
    /\ latest' = id
    /\ revision' = revision + 1
    /\ UNCHANGED removed

\* publish_descriptor on the catalog that was read.  An id that nothing has
\* seen may be drawn again.
Publish ==
    /\ At("publish")
    /\ LET id       == drawn + 1
           accepted == revision = cli.etag
           applied  == accepted /\ drawn' = id /\ Published(id, [signature |-> cli.scan, content |-> cli.content])
           goOn(status) == Becomes([cli EXCEPT !.pc = "rescan", !.id = id, !.status = status, !.base = id, !.etag = 0,
                                               !.content = -1])
       IN  \/ applied /\ goOn("saved") /\ UNCHANGED faults
           \/ ~accepted /\ Fail /\ UNCHANGED <<store, faults>>
           \/ Fault("verify") /\ goOn("failed") /\ (applied \/ (drawn' = id /\ UNCHANGED <<points, removed, latest, revision>>))
    /\ UNCHANGED local

\* The scan after the publication decides between saved and saved-but-dirty.
Rescan ==
    /\ At("rescan")
    /\ Becomes([cli EXCEPT !.pc = "marker",
                           !.status = IF @ = "saved" /\ disk # cli.scan THEN "saved-but-dirty" ELSE @])
    /\ UNCHANGED <<store, local, faults>>

WriteMarker ==
    /\ At("marker")
    /\ marker' = [id |-> cli.id, signature |-> cli.scan]
    /\ IF cli.status = "failed" THEN Fail ELSE Becomes([cli EXCEPT !.pc = "receipt"])
    /\ UNCHANGED <<receipt, store, faults>>

\* write_verified_receipt
WriteReceipt ==
    /\ At("receipt")
    /\ receipt' = IF cli.status = "saved" /\ marker = [id |-> cli.id, signature |-> cli.scan]
                  THEN marker
                  ELSE receipt
    /\ Becomes([cli EXCEPT !.pc = "end"])
    /\ UNCHANGED <<marker, store, faults>>

Step ==
    \/ Probe \/ Compare \/ Forget \/ ReadLatest \/ Scan \/ Decide \/ Backup
    \/ AfterBackup \/ Publish \/ Rescan \/ WriteMarker \/ WriteReceipt

Crash ==
    /\ cli.pc \notin {"idle", "end"} /\ Fault("crash")
    /\ Fail
    /\ UNCHANGED <<store, local>>

-----------------------------------------------------------------------------
(* saveRoom of the extension.                                              *)

EditorAt(label) == ed.pc = label

EditorGoto(label) == ed' = [ed EXCEPT !.pc = label]

BeginSave ==
    /\ EditorAt("idle") /\ (At("idle") \/ At("end"))
    /\ LET cached == IF TrustedLocalSaveReceipt THEN room.receipt ELSE None
       IN  /\ EditorGoto(IF cached # None THEN "cached" ELSE "prepare")
           /\ room' = [room EXCEPT !.receipt = cached]
           /\ cli' = [NoSave EXCEPT !.start = disk, !.gone = removed, !.seen = cached]
    /\ UNCHANGED <<workspace, queue, store, local, current, buffers, watch, track, edits, faults>>

\* With a trusted receipt: check it, scan, show the message, scan and check
\* it again; whatever fails drops the receipt and saves.
Verified == IF EditorAt("cached") \/ EditorAt("check") THEN TrustedLocalSaveReceipt ELSE ReceiptStillMatches

AfterCheck == [cached |-> "status", status |-> "shown", shown |-> "check", check |-> "idle"]

Shortcut ==
    /\ ed.pc \in DOMAIN AfterCheck
    /\ \/ /\ Verified
          /\ EditorGoto(AfterCheck[ed.pc])
          /\ cli' = IF EditorAt("check") THEN NoSave ELSE cli
          /\ UNCHANGED room
       \/ /\ ~Verified
          /\ EditorGoto("prepare")
          /\ room' = [room EXCEPT !.receipt = None]
          /\ cli' = [cli EXCEPT !.seen = None]
    /\ UNCHANGED <<workspace, queue, store, local, current, buffers, watch, track, edits, faults>>

\* The --editor-dirty hint is decided before the preview.
Prepare ==
    /\ EditorAt("prepare")
    /\ ed' = [pc |-> "launch",
              dirty |-> room.trusted /\ watch = "baseline" /\ room.kind \in {"dirty", "saved-but-still-dirty"}]
    /\ UNCHANGED <<workspace, queue, store, local, cli, window, edits, faults>>

Launch ==
    /\ EditorAt("launch")
    /\ buffers' = unsaved
    /\ watch' = IF watch = "none" THEN "watched" ELSE watch
    /\ current' = current \cup {"save"}
    /\ cli' = [cli EXCEPT !.pc = IF ed.dirty THEN "forget" ELSE "probe"]
    /\ ed' = [pc |-> "running", dirty |-> FALSE]
    /\ UNCHANGED <<workspace, queue, store, local, room, track, edits, faults>>

\* The command has ended; a message is shown.
Returned ==
    /\ EditorAt("running") /\ At("end")
    /\ IF cli.status = "failed"
       THEN EditorGoto("idle") /\ cli' = NoSave
       ELSE EditorGoto("message") /\ UNCHANGED cli
    /\ UNCHANGED <<workspace, queue, store, local, window, edits, faults>>

\* [Faulty variant] only a save with a receipt binds the workspace.
BindingMatchesReceipt == marker # None /\ marker = receipt

\* nativeSaveBindingMatches
BindingMatches == marker = [id |-> cli.id, signature |-> cli.scan]

\* [Faulty variant] events during the save are not noticed.
StillDirtyBuffers == cli.status = "saved-but-dirty" \/ buffers

StillDirty == cli.status = "saved-but-dirty" \/ buffers \/ "save" \notin current

\* finishRoomStoreSave, when the message is closed
FinishRoomStoreSave ==
    /\ EditorAt("message")
    /\ \/ /\ StillDirty
          /\ SetRoomState("saved-but-still-dirty", BindingMatches, current)
          /\ UNCHANGED <<buffers, watch>>
       \/ /\ ~StillDirty /\ ~BindingMatches
          /\ SetRoomState("unknown", FALSE, current)
          /\ UNCHANGED <<buffers, watch>>
       \/ /\ ~StillDirty /\ BindingMatches
          /\ room' = [kind |-> "clean", trusted |-> TRUE, receipt |-> marker]
          /\ current' = current \cup {"receipt"} \cup (IF room.kind = "clean" THEN {} ELSE {"clean"})
          /\ buffers' = FALSE /\ watch' = "baseline"
    /\ EditorGoto("idle")
    /\ cli' = NoSave
    /\ UNCHANGED <<workspace, queue, store, local, track, edits, faults>>

EditorStep == BeginSave \/ Shortcut \/ Prepare \/ Launch \/ Returned \/ FinishRoomStoreSave

Tracking == TrackStatus \/ EndTracking

\* A save from a terminal, in one step.
Terminal ==
    /\ Fault("terminal")
    /\ latest # 0 => points[latest].signature # disk
    /\ drawn' = drawn + 1
    /\ Published(drawn + 1, [signature |-> disk, content |-> disk])
    /\ marker' = [id |-> drawn + 1, signature |-> disk] /\ receipt' = marker'
    /\ UNCHANGED <<workspace, queue, cli, window, ed, edits>>

\* The window is reloaded; the save command it runs, a process group of its
\* own, goes on, and unsaved documents are kept.
Reload ==
    /\ Fault("reload")
    /\ room' = Inactive /\ current' = Valid(marker) /\ buffers' = (marker # None /\ unsaved)
    /\ watch' = Watch(marker) /\ track' = Tracks(marker) /\ queue' = FALSE
    /\ ed' = [pc |-> "idle", dirty |-> FALSE]
    /\ cli' = IF At("idle") THEN NoSave ELSE cli
    /\ UNCHANGED <<workspace, store, local, edits>>

\* Another machine publishes a recovery point of its own workspace.
Foreign ==
    /\ Fault("foreign")
    /\ drawn' = drawn + 1
    /\ Published(drawn + 1, [signature |-> Elsewhere, content |-> Elsewhere])
    /\ UNCHANGED <<workspace, queue, local, cli, window, ed, edits>>

\* Another machine removes a recovery point, or the Room; if the latest is
\* removed, the greatest of the random ids that are left becomes the latest.
ForeignRemove ==
    /\ Fault("foreign")
    /\ \E S \in SUBSET (DOMAIN points \ removed) :
          /\ S # {} /\ (S = DOMAIN points \ removed \/ \E i \in S : S = {i})
          /\ removed' = removed \cup S
          /\ LET left == DOMAIN points \ removed'
             IN  latest' \in IF left = {} THEN {0} ELSE IF latest \in left THEN {latest} ELSE left
    /\ revision' = revision + 1
    /\ UNCHANGED <<points, drawn, workspace, queue, local, cli, window, ed, edits>>

-----------------------------------------------------------------------------
Next ==
    \/ Edit \/ Deliver \/ Type \/ Revert \/ SaveDocument
    \/ Tracking \/ EditorStep
    \/ Step \/ Crash \/ Reload \/ Terminal \/ Foreign \/ ForeignRemove

Spec == Init /\ [][Next]_vars

\* Events are delivered, what was started goes on, documents are saved or
\* reverted in the end, and the user saves the Room again and again.
FairSpec ==
    /\ Spec
    /\ WF_vars(Deliver) /\ WF_vars(SaveDocument) /\ WF_vars(Tracking) /\ WF_vars(EditorStep)
    /\ WF_vars(Step)

-----------------------------------------------------------------------------
CliLabels == {"idle", "forget", "probe", "compare", "probe-again", "compare-again", "read", "scan", "decide", "backup",
              "after", "publish", "rescan", "marker", "receipt", "end"}
EdLabels  == {"idle", "cached", "status", "shown", "check", "prepare", "launch", "running", "message"}
Markers   == [id : Nat, signature : Nat \cup {-1}]

\* Every variable keeps its type; the latest recovery point is published and
\* not removed (RoomStoreOperations.save publishes the descriptor and the
\* reference).
TypeOK ==
    /\ disk \in Nat /\ silent \subseteq Nat /\ unsaved \in BOOLEAN /\ queue \in BOOLEAN
    /\ latest \in (DOMAIN points \ removed) \cup {0} /\ DOMAIN points \subseteq 1 .. drawn
    /\ removed \subseteq DOMAIN points /\ revision \in Nat
    /\ marker \in Markers /\ receipt \in Markers
    /\ cli.pc \in CliLabels /\ cli.status \in Statuses
    /\ room.kind \in Kinds /\ room.trusted \in BOOLEAN /\ room.receipt \in Markers
    /\ current \subseteq {"clean", "receipt", "save", "track"}
    /\ buffers \in BOOLEAN /\ watch \in {"none", "watched", "baseline"}
    /\ track.pc \in {"none", "status", "done"}
    /\ ed.pc \in EdLabels /\ ed.dirty \in BOOLEAN
    /\ edits \in Nat /\ faults \in Nat

\* However the files change while a save scans, backs up and publishes, a
\* recovery point holds the version whose signature it was published with
\* (RoomStoreOperations.save: scan, backup, scan, publish).
PointsAreExact == \A i \in DOMAIN points : points[i].content = points[i].signature

Holds(id, version) == id \in DOMAIN points /\ points[id].content >= version

\* A save that is about to say saved or already saved names a recovery point
\* that was published and contains everything that was on disk when the save
\* was started, whichever of the four shortcuts answers
\* (trustedLocalSaveReceipt, read_noop twice, _is_unchanged) and whether or
\* not VS Code reported the changes.  Whether another machine has removed it
\* since is not said: a receipt is no evidence of remote availability.
AnswersAreTrue ==
    /\ At("end") /\ cli.status # "failed" => Holds(cli.id, cli.start)
    /\ EditorAt("check") /\ TrustedLocalSaveReceipt => Holds(room.receipt.id, cli.start)

\* An answer that rests on the catalog (_is_unchanged, or a publication of
\* its own) names a recovery point that no machine had removed when the save
\* was started, however many were removed and promoted before it.
AnswersAreCurrent ==
    At("end") /\ cli.status # "failed" /\ cli.base # 0 => cli.id = cli.base /\ cli.id \notin cli.gone

\* While the status bar says Saved and no event is on its way, no document
\* has unsaved changes and some recovery point that was published differs
\* from the files only by changes that VS Code did not report
\* (refreshRoomStatus, finishRoomStoreSave).  Saved speaks of the last
\* verified save, not of what other machines have removed since.
SavedIsTrue ==
    room.kind = "clean" /\ room.trusted /\ ~queue =>
        /\ ~unsaved
        /\ \E i \in DOMAIN points : points[i].content >= 0 /\ (points[i].content + 1) .. disk \subseteq silent

\* The files are those of the latest recovery point, and the marker is not.
MarkerBehind ==
    /\ latest # 0 /\ points[latest].signature = disk
    /\ marker # [id |-> latest, signature |-> disk]

\* When the edits end and the user goes on saving, the Room ends up as
\* Saved, except that a marker which was not written, or was written over
\* by a slower save, stays behind: a save that finds the catalog unchanged
\* does not write it again.
SettlesOrBehind == <>[](room.kind = "clean" /\ room.trusted) \/ <>[]MarkerBehind
=============================================================================
