---------------------------- MODULE MCOAuthRefresh ----------------------------
(* The instance of OAuthRefresh for TLC: constants are given in oauth.cfg.     *)
EXTENDS OAuthRefresh
===============================================================================
