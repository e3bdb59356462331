------------------------------ MODULE MCGateway -------------------------------
(* The instance of Gateway for TLC: its constants are given in gateway.cfg.   *)
EXTENDS Gateway
===============================================================================
