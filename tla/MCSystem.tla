------------------------------ MODULE MCSystem ------------------------------
(***************************************************************************)
(* System with two model files: the one that Frigate wants, and another    *)
(* one that a worker may be started with.                                  *)
(***************************************************************************)
EXTENDS System

CONSTANTS n1, n2, b1, b2

MCNames == {n1, n2}
MCBlobs == {b1, b2}
MCWanted == [name |-> n1, blob |-> b1]
MCPreloads == {NoModel, MCWanted, [name |-> n2, blob |-> b2]}
=============================================================================
