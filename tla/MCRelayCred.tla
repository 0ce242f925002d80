----------------------------- MODULE MCRelayCred -----------------------------
(* Small instances of RelayCred. *)
EXTENDS RelayCred
=============================================================================
