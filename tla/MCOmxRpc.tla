------------------------------ MODULE MCOmxRpc ------------------------------
(* Small instances of OmxRpc. *)
EXTENDS OmxRpc, TLC

CONSTANTS t1, t2

\* Two threads: one sets the component up, the other passes commands; both give
\* it buffers.
MCCalls == (t1 :> {"GET_HANDLE", "EMPTYTHISBUFFER"}) @@ (t2 :> {"SEND_CMD", "EMPTYTHISBUFFER"})
=============================================================================
