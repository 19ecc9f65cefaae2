--------------------------- MODULE MCWorkerPipeline ---------------------------
(* Small instances of WorkerPipeline. *)
EXTENDS WorkerPipeline

CONSTANTS x, y

ShortBackoff == <<0, 1, 1>>

=============================================================================
