------------------------- MODULE MCDtlsRecordWrite -------------------------
(***************************************************************************)
(* Instances of DtlsRecordWrite for TLC: a client and a server, with one   *)
(* renegotiation, messages of up to two records, and epochs of a few       *)
(* records.                                                                *)
(***************************************************************************)
EXTENDS DtlsRecordWrite
=============================================================================
