------------------------------ MODULE MCListen ------------------------------
(* Small instances of Listen. *)
EXTENDS Listen, TLC

\* A document of the watched collection is written twice, another one once.
TwoWrites == [d \in Docs |-> IF d \in Watched THEN 2 ELSE 1]
=============================================================================
