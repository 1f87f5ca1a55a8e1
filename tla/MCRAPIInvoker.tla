--------------------------- MODULE MCRAPIInvoker ---------------------------
(* Model checking of RAPIInvoker, with correlation ids that are unique and *)
(* with one that a client has used again.                                  *)
EXTENDS RAPIInvoker, TLC

OwnCid    == [i \in Requests |-> i]
SharedCid == [i \in Requests |-> CHOOSE k \in Cids : TRUE]

InstanceSymmetry == Permutations(Instances)
=============================================================================
