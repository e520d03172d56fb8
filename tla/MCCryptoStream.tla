--------------------------- MODULE MCCryptoStream ---------------------------
(* The instance of CryptoStream for TLC: the values are in                 *)
(* MCCryptoStream.cfg.                                                     *)
EXTENDS CryptoStream
=============================================================================
