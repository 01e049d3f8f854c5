---------------------------- MODULE MCOnboarding ----------------------------
(* Two workers, three documents (one of the group and a look-alike written *)
(* before the collection_id migration) and two index ids.                  *)
EXTENDS Onboarding, TLC

Symmetric == Permutations(Workers) \union Permutations(Ids)
==============================================================================
