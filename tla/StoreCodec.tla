------------------------------ MODULE StoreCodec ------------------------------
(***************************************************************************)
(* What a stored document means (src/internal/store/migrations.go): the    *)
(* loader decodes documents of every schema up to its own into settings or *)
(* state in memory, and a save writes all of its fields anew.  A field of  *)
(* a document is a set with its value, or empty where the file lacks it;   *)
(* "foreign" is there when some field has a type that is not today's.      *)
(***************************************************************************)
EXTENDS Naturals

CONSTANTS Selectors, Hosts, Ports

ASSUME ListenersAssumption == {10808, 10809} \subseteq Ports

Or(field, default) == IF field = {} THEN default ELSE CHOOSE v \in field : TRUE

-----------------------------------------------------------------------------
(* Settings: what the loader does more with than copy it, and one selection *)
(* of each kind.                                                           *)

SettingsSchema  == 11
QUICSchema      == 7
FirewallModes   == {"hosts", "targets", "split"}
DefaultActions  == {"proxy", "direct"}
DefaultFailback == 3

DefaultSettings ==
  [socks |-> 10808, http |-> 10809, auto_mode |-> FALSE, mode |-> "manual",
   fw_mode |-> "disabled", hosts |-> {}, targets |-> {}, proxy |-> {}, bypass |-> {},
   action |-> "direct", split_draft |-> {}, block_quic |-> FALSE,
   zapret_domains |-> {}, failback |-> DefaultFailback]

LegacyFields == {"target_mode", "target_selectors", "source_cidrs", "anti_target_draft"}

Blank(defaults) ==
  [f \in (DOMAIN defaults) \cup LegacyFields \cup {"schema", "foreign"} |-> {}]

Encode(s, schema) ==
  [f \in DOMAIN Blank(s) |->
     IF f \in DOMAIN s THEN {s[f]} ELSE IF f = "schema" THEN {schema} ELSE {}]

SchemaOf(d) == Or(d.schema, 0)

(* ProxySettings.Validate(0, 0): a document with impossible listeners is   *)
(* taken for a corrupt one.                                                *)
ProxyValid(d) ==
  LET socks == Or(d.socks, DefaultSettings.socks)
      http  == Or(d.http, DefaultSettings.http)
  IN  socks \in Ports /\ http \in Ports /\ socks # http

Copied(d, defaults) == [f \in DOMAIN defaults |-> Or(d[f], defaults[f])]

DecodeScalars(d) ==
  LET s == Copied(d, DefaultSettings)
  IN  [s EXCEPT !.failback = IF @ < 1 THEN DefaultFailback ELSE @,
                !.mode = IF d.mode = {} /\ s.auto_mode THEN "auto" ELSE @]

DecodeFirewall(d, s) ==
  [s EXCEPT !.fw_mode = IF @ \in FirewallModes THEN @ ELSE "disabled",
            !.action = IF @ \in DefaultActions THEN @ ELSE "direct",
            !.split_draft = IF d.split_draft = {} THEN Or(d.anti_target_draft, @) ELSE @]

(* Blocking QUIC had no effect before schema 7, and is not turned on now.  *)
DecodeQUIC(d, s) ==
  [s EXCEPT !.block_quic = IF SchemaOf(d) >= QUICSchema THEN @ ELSE FALSE]

(* Before there were modes, source hosts or target selectors said which.   *)
MigrateLegacyMode(d, s) ==
  LET hosts   == Or(d.source_cidrs, s.hosts)
      targets == Or(d.target_selectors, {})
  IN  IF d.fw_mode # {} THEN s
      ELSE IF hosts # {} THEN [s EXCEPT !.hosts = hosts, !.fw_mode = "hosts"]
      ELSE IF targets = {} THEN [s EXCEPT !.hosts = hosts, !.fw_mode = "disabled"]
      ELSE IF d.target_mode = {"bypass"}
      THEN [s EXCEPT !.hosts = hosts, !.fw_mode = "split", !.proxy = {}, !.bypass = targets,
                     !.action = "proxy"]
      ELSE [s EXCEPT !.hosts = hosts, !.fw_mode = "targets", !.targets = targets]

DecodeSettings(d) ==
  MigrateLegacyMode(d, DecodeQUIC(d, DecodeFirewall(d, DecodeScalars(d))))

(* What commands change in settings.                                       *)
SettingsChanges(s) ==
  {[s EXCEPT !.fw_mode = "hosts", !.hosts = Hosts],
   [s EXCEPT !.fw_mode = "split", !.bypass = Selectors, !.action = "proxy"],
   [s EXCEPT !.block_quic = ~@],
   [s EXCEPT !.auto_mode = TRUE, !.mode = "auto"],
   [s EXCEPT !.socks = s.http, !.http = s.socks],
   [s EXCEPT !.split_draft = IF @ = {} THEN Selectors ELSE {}]}

-----------------------------------------------------------------------------
(* State                                                                   *)

StateSchema == 2

DefaultState == [node |-> "", connected |-> FALSE, active_transport |-> "direct",
                 test |-> FALSE, restore_transport |-> "direct"]

NormalizeTransportMode(t) == IF t \in {"proxy", "zapret"} THEN t ELSE "direct"

DecodeState(d) ==
  LET s == Copied(d, DefaultState)
      t == IF d.active_transport # {} THEN s.active_transport
           ELSE IF s.connected THEN "proxy" ELSE "direct"
  IN  [s EXCEPT !.active_transport = NormalizeTransportMode(t),
                !.restore_transport = NormalizeTransportMode(@)]

StateChanges(s) ==
  {[s EXCEPT !.node = "n", !.connected = TRUE, !.active_transport = "proxy"],
   [s EXCEPT !.connected = TRUE, !.active_transport = "zapret"],
   [s EXCEPT !.connected = FALSE, !.active_transport = "direct", !.test = FALSE],
   [s EXCEPT !.test = TRUE, !.restore_transport = s.active_transport]}

-----------------------------------------------------------------------------
(* The three files.                                                        *)

Kinds == {"settings", "state", "subscriptions"}

NoSubscriptions == [subscriptions |-> {}]

Defaults(kind) ==
  CASE kind = "settings" -> DefaultSettings
    [] kind = "state" -> DefaultState
    [] kind = "subscriptions" -> NoSubscriptions

Schema(kind) ==
  CASE kind = "settings" -> SettingsSchema
    [] kind = "state" -> StateSchema
    [] kind = "subscriptions" -> 0

Document(kind, v) == Encode(v, Schema(kind))

(* json.Unmarshal into the types of this version, which comes before any   *)
(* look at the schema: it fails on a field of another type.                *)
Decodable(d) == d.foreign = {}

\* Mutant: the schema of a document is not looked at.
OfNoVersion(kind, d) == FALSE

(* Told from its schema to be of a later version, and refused.             *)
Newer(kind, d) == Decodable(d) /\ SchemaOf(d) > Schema(kind)

Acceptable(kind, d) == Decodable(d) /\ (kind = "settings" => ProxyValid(d))

Decode(kind, d) ==
  CASE kind = "settings" -> DecodeSettings(d)
    [] kind = "state" -> DecodeState(d)
    [] kind = "subscriptions" -> Copied(d, NoSubscriptions)

Changes(kind, v) ==
  CASE kind = "settings" -> SettingsChanges(v)
    [] kind = "state" -> StateChanges(v)
    [] kind = "subscriptions" -> {[subscriptions |-> {"s"}], NoSubscriptions}
=============================================================================
