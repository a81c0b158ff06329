----------------------------- MODULE MCOmxCore -----------------------------
(* Small instances of OmxCore: the sets are given by the configurations. *)
EXTENDS OmxCore
=============================================================================
