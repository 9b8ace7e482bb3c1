--------------------------- MODULE MCRaftHistory ----------------------------
(***************************************************************************)
(* RaftHistory within the bounds of MCRaft.                                *)
(***************************************************************************)
EXTENDS MCRaft, RaftHistory

MCHistorySpec ==
    MCInit /\ decided = <<>> /\ [][MCNext /\ RecordDecided]_<<vars, bounds, decided>>
=============================================================================
