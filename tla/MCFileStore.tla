------------------------------ MODULE MCFileStore ------------------------------
(* Documents for FileStore: settings.json of the schemas before modes, with *)
(* and without modes, of this version and of the next one; state.json with *)
(* and without a transport; and of each file one that a later version      *)
(* wrote with a field of another type.                                     *)
EXTENDS FileStore, TLC

CONSTANTS p1, p2

SameProcs == Permutations(Procs)

With(defaults, fields) ==
  [f \in DOMAIN Blank(defaults) |-> IF f \in DOMAIN fields THEN fields[f] ELSE {}]

Before == [schema : {{6}}, source_cidrs : {{}, {{"h"}}}, target_selectors : {{}, {{"t"}}},
           target_mode : {{}, {"bypass"}}, block_quic : {{TRUE}},
           anti_target_draft : {{{"t"}}}]
Partial == [schema : {{10}}, hosts : {{{"h"}}}, fw_mode : {{}, {"anti"}, {"split"}},
            split_draft : {{{}}}, anti_target_draft : {{{"t"}}}, auto_mode : {{TRUE}},
            mode : {{}, {"manual"}}, failback : {{0}}]
Others  == {[schema |-> {11}, socks |-> {10809}], [schema |-> {12}], [source_cidrs |-> {{"h"}}],
            [schema |-> {7}, block_quic |-> {TRUE}], [schema |-> {12}, foreign |-> {TRUE}]}

MCStored ==
  [settings |-> {With(DefaultSettings, f) : f \in Before \cup Partial \cup Others},
   state |-> {With(DefaultState, f) :
                f \in [schema : {{}, {1}, {2}, {3}}, connected : {{TRUE}, {FALSE}},
                       active_transport : {{}, {"zapret"}, {"tunnel"}}]
                     \cup [schema : {{3}}, foreign : {{TRUE}}]},
   subscriptions |-> {With(NoSubscriptions, f) :
                        f \in {[subscriptions |-> {{"s"}}], [foreign |-> {TRUE}]}}]
=============================================================================
