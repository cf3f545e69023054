--------------------------- MODULE MCVectorIndex ---------------------------
(* One file is enough for an operation to meet its own later event; two    *)
(* files let a scan meet events; a ring of one lags at the second event.   *)
EXTENDS VectorIndex
=============================================================================
