------------------------------ MODULE MCTenancy -----------------------------
(* Small instances of Tenancy. *)
EXTENDS Tenancy, TLC

\* Neither projects, instances, calls nor requests have anything but a name.
TenancySymmetry ==
  Permutations(Projects) \cup Permutations(Instances) \cup Permutations(Calls)
    \cup Permutations(Requests)
=============================================================================
