---------------------------- MODULE MCVpnGateway ----------------------------
(* TLC instances of VpnGateway.                                            *)
EXTENDS VpnGateway, TLC
=============================================================================
