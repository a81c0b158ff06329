------------------------------ MODULE MCAplogd ------------------------------
(***************************************************************************)
(* The log daemon with one logger stream and the kernel's, a buffer of two  *)
(* records, log sets of one record on userdata and two on a card, and two   *)
(* events outside. The external storage may let single files not be opened; *)
(* the secondary card holds the logs of an earlier session.                 *)
(***************************************************************************)
EXTENDS Aplogd
=============================================================================
