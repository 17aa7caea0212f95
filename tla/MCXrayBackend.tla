--------------------------- MODULE MCXrayBackend ---------------------------
(***************************************************************************)
(* Three configs: one running, one to switch to, one to switch to next.    *)
(***************************************************************************)
EXTENDS XrayBackend

CONSTANTS c1, c2, c3

ThreeConfigs == {c1, c2, c3}
=============================================================================
