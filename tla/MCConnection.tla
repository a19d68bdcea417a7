---------------------------- MODULE MCConnection ----------------------------
(***************************************************************************)
(* One connection, with bodies whose hashes differ from each other and     *)
(* from that of the empty body.  One body of some bytes is enough to tell  *)
(* a full message from an empty one; the numbers tell equal ones apart.    *)
(***************************************************************************)
EXTENDS Connection, FiniteSets

HashMC == CHOOSE h \in [AllBodies -> 0..Cardinality(Bodies)] :
              \A a, b \in AllBodies : h[a] = h[b] => a = b

\* The client sends most.
TwoAndOne   == [e \in Ends |-> IF e = "client" THEN 2 ELSE 1]
=============================================================================
