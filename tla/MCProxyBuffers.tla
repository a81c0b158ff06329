--------------------------- MODULE MCProxyBuffers ---------------------------
(* Small instances of ProxyBuffers. *)
EXTENDS ProxyBuffers, TLC

\* The identities carry no meaning.
Symmetry == Permutations(Header) \cup Permutations(Remote)
              \cup Permutations(Mem) \cup Permutations(Reg)
=============================================================================
