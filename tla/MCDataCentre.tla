---------------------------- MODULE MCDataCentre ----------------------------
(* A small data centre: a tick feed and a feed without a check for duplicates. *)
EXTENDS DataCentre

\* A packet's id is compared for equality only.
IdSymmetry == Permutations(Ids)

KeepTicks == [MAJOR |-> 1, MINOR |-> 0]

=============================================================================
