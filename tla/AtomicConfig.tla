---------------------------- MODULE AtomicConfig ----------------------------
(***************************************************************************)
(* What src/config-transactions.mjs promises of the private configuration: *)
(* it is one value.  It changes in one step, from a configuration that     *)
(* loads to another one that loads, and nothing else ever changes it.      *)
(***************************************************************************)
CONSTANT Valid   (* snapshots that loadConfig accepts *)

VARIABLE config

Init == config \in Valid
Replace == config' \in Valid
Spec == Init /\ [][Replace]_config
=============================================================================
