--------------------------- MODULE MCTunnelSession ---------------------------
(* The instance of TunnelSession for TLC: see MCTunnelSession.cfg.         *)
EXTENDS TunnelSession
=============================================================================
