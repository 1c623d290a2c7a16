---------------------------- MODULE MCSandboxes ----------------------------
(***************************************************************************)
(* The attempts that share a spawner, and the lifetime of one attempt's    *)
(* sandbox, side by side: a behaviour moves one of the two, named by       *)
(* `part`, and leaves the other as it began.                               *)
(*                                                                         *)
(* The lifetime has two ticks to the second, a run timeout that is not a   *)
(* whole number of seconds, margins that are just large enough, and clocks *)
(* that differ by the whole expiry skew.                                   *)
(***************************************************************************)
EXTENDS MCSandboxPool, SandboxLifetime

VARIABLE part

sandboxVars == <<part, vars, lifetimeVars>>

MCOffset == {-1, 1}

SandboxesInit ==
    /\ part \in {"pool", "lifetime"} /\ Init /\ LifetimeInit
    /\ part = "lifetime" => engine = "local"

SandboxesNext ==
    /\ \/ part = "pool" /\ Next /\ UNCHANGED lifetimeVars
       \/ part = "lifetime" /\ LifetimeNext /\ UNCHANGED vars
    /\ UNCHANGED part

SandboxesSpec == SandboxesInit /\ [][SandboxesNext]_sandboxVars
=============================================================================
