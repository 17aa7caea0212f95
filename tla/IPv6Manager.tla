----------------------------- MODULE IPv6Manager -----------------------------
(***************************************************************************)
(* RouteFlux's switch for the router's IPv6                                *)
(* (src/internal/platform/openwrt/ipv6.go): a sysctl file for the next     *)
(* boot, and the kernel's flag of every interface for now.  The first flag *)
(* written is that of "all", which the kernel hands on to every interface  *)
(* there is and to those that come up later: one bit stands for them all.  *)
(***************************************************************************)
CONSTANT Faults   \* subset of {"ipv6", "runtime"}

VARIABLES
  sysctlFile,    \* 99-routeflux-ipv6.conf exists
  ipv6On         \* IPv6 is enabled in the kernel

ipv6Vars == <<sysctlFile, ipv6On>>

IPv6Init == sysctlFile = FALSE /\ ipv6On = TRUE

(* Apply: the file, then the interfaces in turn.                           *)
IPv6Applied(disabled) == sysctlFile' = disabled /\ ipv6On' = ~disabled

IPv6Fails(disabled) ==
  /\ "ipv6" \in Faults
  /\ \/ UNCHANGED ipv6Vars
     \/ sysctlFile' = disabled /\ ipv6On' \in {ipv6On, ~disabled}

(* A boot reads the file.                                                  *)
IPv6Boots == ipv6On' = ~sysctlFile /\ UNCHANGED sysctlFile
=============================================================================
