---------------------------- MODULE MCTcpServer ----------------------------
(* TcpServer on small sets of threads and connections.                     *)
EXTENDS TcpServer, TLC

\* Threads and connections are interchangeable.
Symmetry ==
  Permutations(AcceptThreads) \cup Permutations(Workers) \cup Permutations(Tasks)
=============================================================================
