---------------------------- MODULE RouterPlatform ----------------------------
(***************************************************************************)
(* The DNS runtime and the firewall managers side by side on one dnsmasq.  *)
(* Each runs one operation at a time; the two may interleave, for the      *)
(* daemon's two loops do not exclude one another (see StoreLock).  Around  *)
(* them dnsmasq dies and comes back, the process dies between two steps,   *)
(* and a reboot takes with it everything both keep, snippets and rules     *)
(* included, which live in /tmp.                                           *)
(***************************************************************************)
EXTENDS DNSRuntimeManager, FirewallManager

vars == <<dnsmasqVars, dnsVars, fwVars>>

Fresh ==
  /\ dnsSnippet = "none" /\ nftSnippet = "none" /\ dnsmasq = Loaded

Init == Fresh /\ DNSInit /\ FWInit

Crash ==
  /\ "crash" \in Faults
  /\ dnsPC # "idle" \/ fwPC # "idle"
  /\ UNCHANGED <<dnsmasqVars, rulesFile, kernelVars>>
  /\ DNSStop /\ FWStop

Reboot ==
  /\ "crash" \in Faults
  /\ dnsSnippet' = "none" /\ nftSnippet' = "none" /\ dnsmasq' = Loaded'
  /\ rulesFile' = "none" /\ table' = "none" /\ route' = FALSE /\ rule' = FALSE
  /\ conntrackMax' \in InitialConntrack
  /\ pending' = FALSE /\ dnsPC' = "idle" /\ dnsDone' = FALSE /\ UNCHANGED dnsWant
  /\ FWStop

Next ==
  \/ DNSNext /\ UNCHANGED fwVars
  \/ FWNext /\ UNCHANGED dnsVars
  \/ (DNSMasqDies \/ DNSMasqRestart) /\ UNCHANGED <<dnsVars, fwVars>>
  \/ Crash \/ Reboot

Spec == Init /\ [][Next]_vars

NFTSnippets == {PolicyDomains[p] : p \in Policies} \cup {"none"}

DNSMasqTypeOK ==
  /\ dnsSnippet \in DNSConfigs \cup {"none"} /\ nftSnippet \in NFTSnippets
  /\ dnsmasq \in [up : BOOLEAN, dns : DNSConfigs \cup {"none"}, nft : NFTSnippets]
DNSTypeOK ==
  /\ pending \in BOOLEAN /\ dnsDone \in BOOLEAN
  /\ dnsPC \in {"idle", "mark", "write", "restart", "unmark"}
  /\ dnsWant \in DNSConfigs \cup {"none"}
FWTypeOK ==
  /\ rulesFile \in Policies \cup {"none"} /\ table \in Policies \cup {"none"}
  /\ fwWant \in Policies \cup {"none"}
  /\ route \in BOOLEAN /\ rule \in BOOLEAN /\ fwDone \in BOOLEAN /\ lapsed \in BOOLEAN
  /\ conntrackMax \in InitialConntrack \cup {ConntrackTarget}
  /\ fwPC \in {"idle", "rules", "cleanup", "load", "route", "rule", "targets",
               "reload", "unroute", "unload"}

TypeOK == DNSMasqTypeOK /\ DNSTypeOK /\ FWTypeOK
=============================================================================
