----------------------------- MODULE MCTcpClient -----------------------------
(***************************************************************************)
(* TcpClient for TLC.  The constants are given in the cfg files.  Callers  *)
(* are interchangeable; connections are not, their ids are allotted in     *)
(* order.                                                                  *)
(***************************************************************************)
EXTENDS TcpClient, TLC

Symmetry == Permutations(Clients)
=============================================================================
