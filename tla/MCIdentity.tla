----------------------------- MODULE MCIdentity -----------------------------
(* One address, two passwords, two keys of each kind, and two requests at a
   time. *)
EXTENDS Identity, TLC

Symmetric == Permutations(Workers) \cup Permutations(Uids) \cup Permutations(Generated)
                \cup Permutations(ClientKeys) \cup Permutations(Passwords)
                \cup Permutations(GoogleKeys) \cup Permutations(ClientIds)
=============================================================================
