--------------------------- MODULE EvidenceObject ---------------------------
(***************************************************************************)
(* What publishing one evidence object promises the harvest controller:    *)
(* the key is written at most once, a host is told so only when the bytes  *)
(* at the key are the right ones, and neither is ever taken back.  The     *)
(* detailed protocol is EvidenceUpload.                                    *)
(***************************************************************************)
CONSTANTS
    Hosts,    \* who publishes
    Writers   \* what can write the key: a PUT or a multipart upload

VARIABLES
    object,   \* Absent, or who wrote the key and whether its bytes are right
    receipts  \* the hosts that were given a receipt

Absent == [by |-> <<>>, good |-> FALSE]

Objects == [by : Writers, good : BOOLEAN]

Init == object = Absent /\ receipts = {}

Publish ==
    /\ object = Absent
    /\ object' \in Objects
    /\ UNCHANGED receipts

Acknowledge ==
    /\ object.good
    /\ \E h \in Hosts : receipts' = receipts \cup {h}
    /\ UNCHANGED object

Next == Publish \/ Acknowledge

Spec == Init /\ [][Next]_<<object, receipts>>
=============================================================================
