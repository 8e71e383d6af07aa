------------------------- MODULE MCTunnelSupervisor -------------------------
EXTENDS TunnelSupervisor, TLC
=============================================================================
