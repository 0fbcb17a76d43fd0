--------------------------- MODULE MC_IpfsImport ---------------------------
(* A small instance of IpfsImport. *)
EXTENDS IpfsImport
=============================================================================
