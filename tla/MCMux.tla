-------------------------------- MODULE MCMux --------------------------------
(* Instances of Mux for TLC: the values are in the MCMux*.cfg files.       *)
EXTENDS Mux, TLC

(* Browser connections are interchangeable where the run checks safety.    *)
Interchangeable == Permutations(Sockets)
=============================================================================
