----------------------------- MODULE MCAgentLife -----------------------------
(* Instances of AgentLife for TLC: three builds, two of the same length, the *)
(* last of which does not start on this device.                              *)
EXTENDS AgentLife

MCSize == [b \in Builds |-> IF b = 2 THEN 2 ELSE 1]
=============================================================================
