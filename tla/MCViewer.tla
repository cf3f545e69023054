------------------------------ MODULE MCViewer ------------------------------
(* TLC instance of Viewer. *)
EXTENDS Viewer
=============================================================================
