-------------------------- MODULE MCContractLease ---------------------------
(* Small instances of ContractLease for TLC. *)
EXTENDS ContractLease

\* Every HTTP thread calls the control plane's service.
MCService == [t \in Threads |-> "control_plane"]
=============================================================================
