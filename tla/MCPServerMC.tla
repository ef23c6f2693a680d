---------------------------- MODULE MCPServerMC ----------------------------
(* Small instances of MCPServer for TLC. *)
EXTENDS MCPServer, TLC

Symmetry == Permutations(Sessions) \cup Permutations(Requests) \cup Permutations(Threads)
=============================================================================
