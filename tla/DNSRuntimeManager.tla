-------------------------- MODULE DNSRuntimeManager --------------------------
(***************************************************************************)
(* The DNS runtime manager (src/internal/platform/openwrt/dns_runtime.go): *)
(* it makes dnsmasq forward to Xray by a snippet and a restart.  A hidden  *)
(* marker next to the snippet says that a restart is still owed; it is     *)
(* written before the snippet changes and removed after the restart.       *)
(***************************************************************************)
EXTENDS DNSMasq

CONSTANT DNSConfigs   \* what Apply may be asked to install

VARIABLES
  pending,   \* the restart marker exists
  dnsPC,     \* next step of the operation in progress
  dnsWant,   \* the snippet the operation is to leave, or "none"
  dnsDone    \* the last operation succeeded, and nothing happened since

dnsVars == <<pending, dnsPC, dnsWant, dnsDone>>

DNSInit == pending = FALSE /\ dnsPC = "idle" /\ dnsWant = "none" /\ dnsDone = FALSE

DNSGo(next) == dnsPC' = next /\ UNCHANGED <<dnsWant, dnsDone>>
DNSStop     == dnsPC' = "idle" /\ dnsDone' = FALSE /\ UNCHANGED <<pending, dnsWant>>
DNSFails(fault) == fault \in Faults /\ DNSStop

\* Mutant: the marker is not looked at.
DNSStartUnmarked ==
  /\ dnsPC = "idle"
  /\ \E want \in DNSConfigs \cup {"none"} :
       \/ /\ dnsmasq.up /\ dnsWant' = want
          /\ IF dnsSnippet = want THEN dnsPC' = "idle" /\ dnsDone' = TRUE
             ELSE dnsPC' = "mark" /\ dnsDone' = FALSE
          /\ UNCHANGED pending
       \/ ~dnsmasq.up /\ DNSStop
  /\ UNCHANGED dnsmasqVars

(* Apply and Disable look for a running dnsmasq first, and have nothing to *)
(* do when the snippet is as wanted and no restart is owed.  Modes system  *)
(* and disabled are a Disable.                                             *)
DNSStart ==
  /\ dnsPC = "idle"
  /\ \E want \in DNSConfigs \cup {"none"} :
       \/ /\ dnsmasq.up
          /\ dnsWant' = want
          /\ IF dnsSnippet = want /\ ~pending
             THEN dnsPC' = "idle" /\ dnsDone' = TRUE
             ELSE dnsPC' = "mark" /\ dnsDone' = FALSE
          /\ UNCHANGED pending
       \/ ~dnsmasq.up /\ DNSStop
       \/ DNSFails("proc")
  /\ UNCHANGED dnsmasqVars

\* Mutant: no marker is written.
GoUnmarked ==
  /\ dnsPC = "mark" /\ DNSGo("write")
  /\ UNCHANGED <<pending, dnsmasqVars>>

MarkRestartPending ==
  /\ dnsPC = "mark"
  /\ \/ pending' = TRUE /\ DNSGo("write")
     \/ DNSFails("file")
  /\ UNCHANGED dnsmasqVars

WriteDNSSnippet ==
  /\ dnsPC = "write"
  /\ \/ dnsSnippet' = dnsWant /\ DNSGo("restart") /\ UNCHANGED pending
     \/ DNSFails("file") /\ UNCHANGED dnsSnippet
  /\ UNCHANGED <<nftSnippet, dnsmasq>>

RestartForDNS ==
  /\ dnsPC = "restart"
  /\ \/ RestartSucceeds /\ DNSGo("unmark") /\ UNCHANGED pending
     \/ RestartFails /\ DNSStop
  /\ UNCHANGED <<dnsSnippet, nftSnippet>>

UnmarkRestart ==
  /\ dnsPC = "unmark"
  /\ \/ pending' = FALSE /\ dnsPC' = "idle" /\ dnsDone' = TRUE /\ UNCHANGED dnsWant
     \/ DNSFails("file")
  /\ UNCHANGED dnsmasqVars

DNSNext == DNSStart \/ MarkRestartPending \/ WriteDNSSnippet
           \/ RestartForDNS \/ UnmarkRestart

(* Whenever no restart is owed, the running dnsmasq forwards exactly what  *)
(* the snippet on disk says, at every instant of every operation, whatever *)
(* failed or died before (dns_runtime.go:89, 155).                         *)
NoRestartForgotten == dnsmasq.up /\ ~pending => dnsmasq.dns = dnsSnippet

(* An operation that reported success left what it was asked for in force, *)
(* be it that it found nothing to do (dns_runtime.go:86, 117).             *)
DNSTakesEffect ==
  dnsDone => /\ dnsSnippet = dnsWant
             /\ dnsmasq.up => dnsmasq.dns = dnsWant
=============================================================================
