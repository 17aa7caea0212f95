--------------------------- MODULE FirewallManager ---------------------------
(***************************************************************************)
(* The firewall manager (src/internal/platform/openwrt/firewall.go and the *)
(* nft half of dnsmasq.go): Apply installs a policy as a rules file, an nft *)
(* table, a route and a rule for marked packets, and the domains dnsmasq   *)
(* resolves into the table's sets.  What is installed already is judged by *)
(* the rules file, the presence of a table and the text of the snippet.    *)
(***************************************************************************)
EXTENDS DNSMasq, Naturals

CONSTANTS
  Policies,            \* what Apply may be asked to install
  PolicyDomains,       \* the snippet each policy needs, or "none"
  MemTotalKiB,         \* the router's memory
  InitialConntrack     \* the limits it may have booted with

ASSUME PoliciesAssumption == "none" \notin Policies
ASSUME MemoryAssumption == MemTotalKiB \in Nat

(* A quarter of the memory's KiB, rounded up to a power of two, in bounds. *)
ConntrackTarget ==
  LET quarter == MemTotalKiB \div 4
      Allowed == {16384, 32768, 65536, 131072}
  IN  CHOOSE t \in Allowed :
        /\ quarter <= t \/ t = 131072
        /\ \A u \in Allowed : u < t => u < quarter

VARIABLES
  rulesFile,      \* the policy rendered in the rules file, or "none"
  table,          \* the policy of the nft table routeflux, or "none"
  route, rule,    \* the policy routing of marked packets: each is there
  conntrackMax,   \* nf_conntrack_max
  fwPC,           \* next step of the operation in progress
  fwWant,         \* the policy asked for, or "none" for Disable
  fwDone,         \* the last operation succeeded, and nothing happened since
  lapsed          \* an operation was cut short and left misleading evidence

kernelVars == <<table, route, rule, conntrackMax>>
opVars     == <<fwPC, fwWant, fwDone, lapsed>>
fwVars     == <<rulesFile, kernelVars, opVars>>

FWInit ==
  /\ rulesFile = "none" /\ table = "none"
  /\ route = FALSE /\ rule = FALSE
  /\ conntrackMax \in InitialConntrack
  /\ fwPC = "idle" /\ fwWant = "none" /\ fwDone = FALSE /\ lapsed = FALSE

(* The evidence the next Apply goes by can be trusted: a table beside a    *)
(* rules file is that file's, with its routing, and dnsmasq has read the   *)
(* snippet.                                                                *)
RoutingSound == table # "none" /\ rulesFile # "none" =>
                  table = rulesFile /\ route /\ rule
TargetsSound == dnsmasq.up => dnsmasq.nft = nftSnippet
Sound        == RoutingSound /\ TargetsSound

FWGo(next) == fwPC' = next /\ UNCHANGED <<fwWant, fwDone, lapsed>>
FWSucceed  == fwPC' = "idle" /\ fwDone' = TRUE /\ UNCHANGED fwWant
              /\ lapsed' = (lapsed /\ ~Sound')
FWStop     == fwPC' = "idle" /\ fwDone' = FALSE /\ UNCHANGED fwWant
              /\ lapsed' = ~Sound'

(* A deletion fails when there is nothing to delete; its result is ignored. *)
CleanupPolicyRouting ==
  /\ rule'  \in IF "ip" \in Faults THEN {FALSE, rule}  ELSE {FALSE}
  /\ route' \in IF "ip" \in Faults THEN {FALSE, route} ELSE {FALSE}

\* Mutant: the limit is doubled past the largest that is allowed.
TuneConntrackTwice ==
  conntrackMax' \in {conntrackMax, 2 * ConntrackTarget}

TuneConntrack ==
  conntrackMax' \in {conntrackMax} \cup
                    (IF conntrackMax < ConntrackTarget THEN {ConntrackTarget} ELSE {})

-----------------------------------------------------------------------------
(* Apply.  A policy that does not render, a dnsmasq without nftset support *)
(* or an unknown snippet directory end it before anything changes; a table *)
(* and a rules file that are as wanted skip the rules altogether, if nft   *)
(* can be asked.                                                           *)
\* Mutant: any table of RouteFlux's is taken for the one asked for.
FWStartApplyKeepsTable ==
  /\ fwPC = "idle"
  /\ UNCHANGED <<rulesFile, table, route, rule, dnsmasqVars>>
  /\ TuneConntrack
  /\ \E p \in Policies :
       /\ fwWant' = p /\ fwDone' = FALSE /\ UNCHANGED lapsed
       /\ fwPC' = IF table # "none" THEN "targets" ELSE "rules"

FWStartApply ==
  /\ fwPC = "idle"
  /\ UNCHANGED <<rulesFile, table, route, rule, dnsmasqVars>>
  /\ TuneConntrack
  /\ \E p \in Policies :
       \/ /\ fwWant' = p /\ fwDone' = FALSE /\ UNCHANGED lapsed
          /\ \/ fwPC' = "targets" /\ table # "none" /\ rulesFile = p
             \/ fwPC' = "rules" /\ (table = "none" \/ rulesFile # p \/ "nft" \in Faults)
       \/ /\ PolicyDomains[p] # "none" /\ "dnsmasq" \in Faults
          /\ conntrackMax' = conntrackMax /\ FWStop

WriteRulesFile ==
  /\ fwPC = "rules"
  /\ UNCHANGED <<kernelVars, dnsmasqVars>>
  /\ \/ rulesFile' = fwWant /\ FWGo("cleanup")
     \/ "file" \in Faults /\ UNCHANGED rulesFile /\ FWStop

CleanupBeforeLoad ==
  /\ fwPC = "cleanup"
  /\ CleanupPolicyRouting
  /\ FWGo("load")
  /\ UNCHANGED <<rulesFile, table, conntrackMax, dnsmasqVars>>

(* The old table is deleted, whatever the result, and the rules loaded in  *)
(* one transaction.  An nft that cannot run fails both.                    *)
LoadTable ==
  /\ fwPC = "load"
  /\ UNCHANGED <<rulesFile, route, rule, conntrackMax, dnsmasqVars>>
  /\ \/ table' = fwWant /\ FWGo("route")
     \/ "nft" \in Faults /\ table' \in {table, "none"} /\ FWStop

(* Adding what exists already fails.  A rule that fails takes the route    *)
(* back, and either takes the table and the routing back.                  *)
UndoLoad(routeThen, ruleThen) ==
  /\ table' \in IF "nft" \in Faults THEN {table, "none"} ELSE {"none"}
  /\ rule'  \in IF "ip" \in Faults THEN {FALSE, ruleThen}  ELSE {FALSE}
  /\ route' \in IF "ip" \in Faults THEN {FALSE, routeThen} ELSE {FALSE}
  /\ FWStop

AddRoute ==
  /\ fwPC = "route"
  /\ UNCHANGED <<rulesFile, conntrackMax, dnsmasqVars>>
  /\ \/ ~route /\ route' = TRUE /\ FWGo("rule") /\ UNCHANGED <<table, rule>>
     \/ (route \/ "ip" \in Faults) /\ UndoLoad(route, rule)

AddRule ==
  /\ fwPC = "rule"
  /\ UNCHANGED <<rulesFile, conntrackMax, dnsmasqVars>>
  /\ \/ ~rule /\ rule' = TRUE /\ FWGo("targets") /\ UNCHANGED <<table, route>>
     \/ (rule \/ "ip" \in Faults) /\ UndoLoad(route, rule)

-----------------------------------------------------------------------------
(* Disable: the rules file and the routing go, then the table.             *)
FWStartDisable ==
  /\ fwPC = "idle"
  /\ fwWant' = "none" /\ fwDone' = FALSE /\ fwPC' = "unroute" /\ UNCHANGED lapsed
  /\ rulesFile' \in IF "file" \in Faults THEN {"none", rulesFile} ELSE {"none"}
  /\ TuneConntrack
  /\ UNCHANGED <<table, route, rule, dnsmasqVars>>

CleanupForDisable ==
  /\ fwPC = "unroute"
  /\ CleanupPolicyRouting
  /\ FWGo("unload")
  /\ UNCHANGED <<rulesFile, table, conntrackMax, dnsmasqVars>>

DeleteTable ==
  /\ fwPC = "unload"
  /\ UNCHANGED <<rulesFile, route, rule, conntrackMax, dnsmasqVars>>
  /\ \/ table' = "none" /\ FWGo("targets")
     \/ "nft" \in Faults /\ UNCHANGED table /\ FWStop

-----------------------------------------------------------------------------
(* syncDNSMasqTargets, the end of both: the snippet is rewritten and       *)
(* dnsmasq reloaded, or restarted, only when the snippet's text differs.   *)
Targets == IF fwWant = "none" THEN "none" ELSE PolicyDomains[fwWant]

SyncTargets ==
  /\ fwPC = "targets"
  /\ UNCHANGED <<rulesFile, kernelVars, dnsSnippet, dnsmasq>>
  /\ \/ nftSnippet = Targets /\ UNCHANGED nftSnippet /\ FWSucceed
     \/ nftSnippet # Targets /\ nftSnippet' = Targets /\ FWGo("reload")
     \/ /\ "file" \in Faults \/ (~dnsmasq.up /\ Targets # "none")
        /\ UNCHANGED nftSnippet /\ FWStop
     \/ \* no directory is known: nothing to remove the snippet from
        /\ ~dnsmasq.up /\ Targets = "none" /\ UNCHANGED nftSnippet /\ FWSucceed

\* Mutant: a dnsmasq that did not come back is not an error.
ReloadUnchecked ==
  /\ fwPC = "reload"
  /\ UNCHANGED <<rulesFile, kernelVars, dnsSnippet, nftSnippet>>
  /\ (RestartSucceeds \/ RestartFails) /\ FWSucceed

ReloadForTargets ==
  /\ fwPC = "reload"
  /\ UNCHANGED <<rulesFile, kernelVars, dnsSnippet, nftSnippet>>
  /\ \/ RestartSucceeds /\ FWSucceed
     \/ RestartFails /\ FWStop

FWNext ==
  \/ FWStartApply \/ WriteRulesFile \/ CleanupBeforeLoad \/ LoadTable
  \/ AddRoute \/ AddRule
  \/ FWStartDisable \/ CleanupForDisable \/ DeleteTable
  \/ SyncTargets \/ ReloadForTargets

(* A firewall operation that reported success is in force as a whole: the  *)
(* policy asked for is the loaded one, packets it marks are routed, and    *)
(* dnsmasq fills its sets with the policy's domains.                       *)
(* Apply trusts evidence an earlier cut-short operation may have falsified *)
(* (firewall.go:135-138, dnsmasq.go:248); only then the promise is off.    *)
FirewallTakesEffect ==
  fwDone /\ ~lapsed =>
    /\ table = fwWant
    /\ fwWant # "none" => route /\ rule
    /\ Targets # "none" /\ dnsmasq.up => dnsmasq.nft = Targets

(* Between operations the evidence is sound unless one was cut short: no   *)
(* operation that reports success leaves a misleading state behind.        *)
OnlyFailuresMislead == fwPC = "idle" /\ ~lapsed => Sound
=============================================================================
