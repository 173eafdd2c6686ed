---------------------------- MODULE MCRandDrbgAdd ----------------------------
(***************************************************************************)
(* RandDrbg with a record of what the manual promises of RAND_add.         *)
(***************************************************************************)
EXTENDS RandDrbg

VARIABLE wanted   \* history: the seeding of the master that RAND_add is to bring

AddInit == Init /\ wanted = 0

\* RAND_add with some randomness, while the bound leaves room for a seeding.
Added ==
  /\ master.seed.n < MaxSeeds
  /\ RandAdd("some")
  /\ wanted' = master.seed.n + 1

AddNext ==
  \/ Added
  \/ /\ \/ \E t \in Threads : ThreadStep(t)
        \/ \E input \in Inputs \ {"some"} : RandAdd(input)
     /\ UNCHANGED wanted

AddSpec == AddInit /\ [][AddNext]_<<vars, wanted>>

\* RAND_DRBG.pod, "Manual Reseeding": RAND_add with a positive randomness
\* reseeds the master at once, so that a master which is in use after it rests
\* on a seeding that was not there before.
AddReseeds == master.state = "READY" => master.seed.n >= wanted

=============================================================================
