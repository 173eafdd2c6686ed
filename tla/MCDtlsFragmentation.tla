-------------------------- MODULE MCDtlsFragmentation --------------------------
(***************************************************************************)
(* Headers of two bytes, records with room for one or for three bytes      *)
(* besides, and messages of none or six bytes: up to six records.          *)
(***************************************************************************)
EXTENDS DtlsFragmentation
=============================================================================
