---------------------------- MODULE MCWorkspace ----------------------------
(***************************************************************************)
(* TLC instance of Workspace.  Files and tags are interchangeable: it does *)
(* not matter which files exist at the start, only how many, and they may  *)
(* as well all have the same tag.                                          *)
(***************************************************************************)
EXTENDS Workspace

CONSTANTS FirstTag, FirstFiles

MCInit == Init /\ \E fs \in FirstFiles :
                     disk = [f \in Files |-> IF f \in fs THEN FirstTag ELSE Gone]
MCSpec == MCInit /\ [][Next]_vars
            /\ WF_vars(Indexing) /\ WF_vars(Watching) /\ WF_vars(Frame)
=============================================================================
