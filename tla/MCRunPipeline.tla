--------------------------- MODULE MCRunPipeline ---------------------------
(* A rotation of two maps, each with one monster and no item, and at most two *)
(* tics a map: a heartbeat every tic, a quit after one tic of holding Start.  *)
EXTENDS RunPipeline

MCRotation == <<"MAP01", "MAP02">>
=============================================================================
