-------------------------------- MODULE MCRpc --------------------------------
(* Instances of Rpc for TLC. *)
EXTENDS Rpc, TLC

CONSTANTS t1, t2

GeneratedIds == [c \in Calls |-> None]
\* Every request has the id 1, as in the examples of RPC_README.md.
SameIds == [c \in Calls |-> 1]

\* The last call of t1 sends an object that is no request.
OneMalformed == {<<t1, MaxCalls>>}

\* The last call of t2 is made with a timeout_ms of 0.
OneUntimed == {<<t2, MaxCalls>>}

\* Threads that differ in nothing are interchangeable.
Symmetry == Permutations(Threads)
=============================================================================
