------------------------------- MODULE MCLogger -------------------------------
(***************************************************************************)
(* Logger for TLC; its constants are given in the .cfg files.              *)
(***************************************************************************)
EXTENDS Logger
=============================================================================
