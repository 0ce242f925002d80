------------------------------ MODULE MCDirect ------------------------------
(* Small instance of Direct: one call runs a command in the foreground, the  *)
(* other the same command detached.                                          *)
EXTENDS Direct

Requests ==
    [c \in Calls |-> [path |-> "exec", detach |-> c = "background", arg |-> "cmd"]]

Addresses == <<"lan1", "lan2">>

Start(ahead, password, key, exec) ==
    [drift |-> ahead, shared |-> password, key |-> key,
     tier |-> [o \in Operations |-> IF o[1] = "exec" THEN exec ELSE "privileged"],
     at |-> [a \in Addrs |-> "device"]]

(* A hub that is behind and a common password; a hub that is ahead, no        *)
(* password, and a command that is blocked at first.                          *)
Sessions == {Start(-1, TRUE, TRUE, "run"), Start(1, FALSE, TRUE, "blocked")}
=============================================================================
