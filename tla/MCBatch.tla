------------------------------ MODULE MCBatch ------------------------------
(* Two batches of up to three jobs, two permits, two workers, two models.  *)
EXTENDS Batch
=============================================================================
