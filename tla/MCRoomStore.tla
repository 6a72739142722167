---------------------------- MODULE MCRoomStore ----------------------------
(***************************************************************************)
(* Small instances of RoomStore for TLC.                                   *)
(***************************************************************************)
EXTENDS RoomStore, TLC

\* Clients are interchangeable: they differ in no constant and no action.
ClientSymmetry == Permutations(Clients)

\* What the states of a run are told apart by.  The variables left out are
\* written and never read by a command, and the run's properties do not
\* mention them, so states that agree on the others have the same future.
CatalogView == <<remote, used, local, age, removed>>
ReportView  == <<remote, used, local, age, removed, confirmed, verdict, orphans>>
=============================================================================
