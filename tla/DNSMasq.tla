------------------------------- MODULE DNSMasq -------------------------------
(***************************************************************************)
(* dnsmasq as RouteFlux's managers meet it: a directory in which each of   *)
(* two managers keeps a snippet of its own, and a process that knows the   *)
(* snippets as they were when it last read them.  The init script restarts *)
(* or reloads the process; either reads both snippets.                     *)
(***************************************************************************)
CONSTANT
  Faults   \* subset of {"file", "dnsmasq", "nft", "ip", "proc", "crash"}

VARIABLES
  dnsSnippet,   \* routeflux-dns.conf: the forwarding to Xray, or "none"
  nftSnippet,   \* routeflux.conf: the domains resolved into nft sets, or "none"
  dnsmasq       \* the process: is it up, and what did it read

dnsmasqVars == <<dnsSnippet, nftSnippet, dnsmasq>>

Loaded == [up |-> TRUE, dns |-> dnsSnippet, nft |-> nftSnippet]
Down   == [up |-> FALSE, dns |-> "none", nft |-> "none"]

(* A restart that fails leaves the old process, or none.                   *)
RestartSucceeds == dnsmasq' = Loaded
RestartFails    == "dnsmasq" \in Faults /\ dnsmasq' \in {dnsmasq, Down}

(* procd brings a process back that went down, or the user does; both read *)
(* what is there.                                                          *)
DNSMasqDies    == "dnsmasq" \in Faults /\ dnsmasq.up /\ dnsmasq' = Down
                  /\ UNCHANGED <<dnsSnippet, nftSnippet>>
DNSMasqRestart == dnsmasq # Loaded /\ dnsmasq' = Loaded
                  /\ UNCHANGED <<dnsSnippet, nftSnippet>>
=============================================================================
