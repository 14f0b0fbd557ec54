--------------------------- MODULE MCNodeBindings ---------------------------
(* NodeBindings for TLC.                                                   *)
EXTENDS NodeBindings

AllHosts   == {"process", "worker", "frame"}
WorkerHost == {"worker"}
=============================================================================
