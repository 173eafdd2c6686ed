--------------------------- MODULE MCSessionCache ---------------------------
(***************************************************************************)
(* Instances of SessionCache for TLC.                                      *)
(***************************************************************************)
EXTENDS SessionCache

\* Replay protection relies on the internal cache, so it is looked at alone.
Usages == {f \in AllConfigurations : f.version = "TLSv1.3" => ~f.external}

\* Resumption by session id from the internal cache.
ById == {f \in AllConfigurations : f.version = "TLSv1.2" /\ ~f.external}

\* Threads, objects and ids are interchangeable.
Interchangeable == Permutations(Conns) \cup Permutations(Objects) \cup Permutations(Ids)

=============================================================================
