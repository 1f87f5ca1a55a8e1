---------------------------- MODULE MCLambdaPool ----------------------------
(* Model checking of LambdaPool.  The identities of callers and of pids do *)
(* not matter to the invariants; liveness is checked without symmetry.     *)
EXTENDS LambdaPool, TLC

CallersAndPids == Permutations(Callers \ RPCCallers) \cup Permutations(Procs)
=============================================================================
