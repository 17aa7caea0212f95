--------------------------- MODULE MCRouterPlatform ---------------------------
(* Two DNS configs, a policy with domains and one without.                 *)
EXTENDS RouterPlatform

MCPolicyDomains == [targets |-> "domains", hosts |-> "none"]
=============================================================================
