---------------------------- MODULE MCStoreLock ----------------------------
(***************************************************************************)
(* Three goroutines: of three processes, or two of them of the daemon.     *)
(***************************************************************************)
EXTENDS StoreLock, TLC

CONSTANTS cli, luci, refresh, health, daemon

Apart      == {cli, luci, refresh}
ApartProcs == {cli, luci, daemon}
ApartOf    == cli :> cli @@ luci :> luci @@ refresh :> daemon

Shared      == {cli, refresh, health}
SharedProcs == {cli, daemon}
SharedOf    == cli :> cli @@ refresh :> daemon @@ health :> daemon
=============================================================================
