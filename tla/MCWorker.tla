------------------------------ MODULE MCWorker ------------------------------
(***************************************************************************)
(* Worker with two model files under two names: enough for a transfer that *)
(* repeats the name with other bytes, the bytes with another name, or both.*)
(***************************************************************************)
EXTENDS Worker

CONSTANTS n1, n2, b1, b2

MCNames == {n1, n2}
MCBlobs == {b1, b2}
File(name, blob) == [name |-> name, blob |-> blob]
AnyPreload == {NoModel, File(n1, b1), File(NoName, b1)}
NothingPreloaded == {NoModel}
=============================================================================
