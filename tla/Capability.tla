----------------------------- MODULE Capability -----------------------------
(* Capability tokens (crates/cap): what a grant of the hub names, when the    *)
(* agent takes it, and the cache of nonces that are spent. The controller     *)
(* and the agent use the same operators, as they use the same crate.          *)
(*                                                                            *)
(* A grant is a record. Its signature is the fact that only the hub makes     *)
(* grants; the hash of an argument is the argument, and a nonce names the     *)
(* minting it comes from. Checks that no grant of the hub fails (format,      *)
(* signature, length of the nonce) are left out.                              *)
EXTENDS Integers, FiniteSets

CONSTANTS
    SKEW_SECS,      \* clocks that differ by up to this agree on a window
    REPLAY_MAX      \* nonces the cache holds at most

ASSUME CapabilityConstantsOK == SKEW_SECS \in Nat /\ REPLAY_MAX \in Nat \ {0}

NoArg == "none"             \* the empty argument

NoCapability == <<>>        \* no operation is defined for the endpoint

ClassOf(path) ==
    CASE path \in {"frame", "stream"} -> "frame"
      [] path \in {"camera", "camstream"} -> "camera"
      [] path \in {"download", "list", "file-status"} -> "download"
      [] path \in {"upload", "fetch-file"} -> "upload"
      [] path = "shell" -> "shell"
      [] OTHER -> "undefined"

(* Mutant: a detached command is asked for as a foreground one. *)
OpForIgnoringDetach(r) ==
    CASE r.path \in {"exec", "input"} -> <<r.path, r.arg>>
      [] ClassOf(r.path) # "undefined" -> <<ClassOf(r.path), NoArg>>
      [] OTHER -> NoCapability

(* The operation and argument a request must have a grant for. *)
OpFor(r) ==
    CASE r.path = "exec" -> <<IF r.detach THEN "launch" ELSE "exec", r.arg>>
      [] r.path = "input" -> <<"input", r.arg>>
      [] ClassOf(r.path) # "undefined" -> <<ClassOf(r.path), NoArg>>
      [] OTHER -> NoCapability

InWindow(g, now) == now <= g.exp + SKEW_SECS /\ g.iat <= now + SKEW_SECS

(* Mutant: the device a grant was issued for is not compared. *)
BindsAnyDevice(g, dev, op) == g.op = op

Binds(g, dev, op) == g.dev = dev /\ g.op = op

(* Mutant: a nonce is forgotten when its grant expires by the hub's clock. *)
SweptAtExpiry(seen, now) == {s \in seen : s.exp > now}

(* The nonces still kept at `now`. *)
Swept(seen, now) == {s \in seen : s.exp + SKEW_SECS > now}

Replayed(seen, g, now) == \E s \in Swept(seen, now) : s.nonce = g.nonce

(* Whether the cache takes the nonce, and the cache after the attempt: a     *)
(* refused one has swept it as well.                                         *)
Claimable(seen, g, now) ==
    ~Replayed(seen, g, now) /\ Cardinality(Swept(seen, now)) < REPLAY_MAX

Claimed(seen, g, now) ==
    Swept(seen, now) \cup
        (IF Claimable(seen, g, now) THEN {[nonce |-> g.nonce, exp |-> g.exp]} ELSE {})
=============================================================================
