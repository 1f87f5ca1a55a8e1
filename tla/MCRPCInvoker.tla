---------------------------- MODULE MCRPCInvoker ----------------------------
(* Model checking of RPCInvoker, with correlation ids that are unique. *)
EXTENDS RPCInvoker

OwnCid == [i \in Requests |-> i]
=============================================================================
