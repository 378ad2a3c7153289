--------------------------------- MODULE Rpc ---------------------------------
(***************************************************************************)
(* What a tool may rely on when it calls the daemon (json/jsonrpc_api.h):  *)
(* its call takes effect at most once and before it returns, and a call    *)
(* that reports success has taken effect.  A failure may be reported of a  *)
(* call that took effect, if the answer was lost.                          *)
(***************************************************************************)
EXTENDS Naturals

CONSTANT Client

VARIABLES
  pending,  \* the call of each client: none, asked for, or its outcome
  told,     \* what its last call returned
  count     \* how many of its operations were performed

vars == <<pending, told, count>>

Init ==
  /\ pending = [c \in Client |-> "none"]
  /\ told = [c \in Client |-> "nothing"]
  /\ count = [c \in Client |-> 0]

Ask(c) ==
  /\ pending[c] = "none"
  /\ pending' = [pending EXCEPT ![c] = "asked"]
  /\ UNCHANGED <<told, count>>

Perform(c) ==
  /\ pending[c] = "asked"
  /\ \E o \in {"done", "fail", "silent"} : pending' = [pending EXCEPT ![c] = o]
  /\ count' = [count EXCEPT ![c] = @ + 1]
  /\ UNCHANGED told

Return(c) ==
  /\ pending[c] # "none"
  /\ pending' = [pending EXCEPT ![c] = "none"]
  /\ \/ told' = [told EXCEPT ![c] = "failure"]
     \/ pending[c] = "done" /\ told' = [told EXCEPT ![c] = "success"]
  /\ UNCHANGED count

Next == \E c \in Client : Ask(c) \/ Perform(c) \/ Return(c)

Spec == Init /\ [][Next]_vars
=============================================================================
