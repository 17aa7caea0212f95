---------------------------- MODULE FileStore_proofs ----------------------------
(***************************************************************************)
(* Proofs about FileStore, for every set of processes and every document   *)
(* that earlier versions and users may have written.                       *)
(*                                                                         *)
(* What a save writes is read back as what was saved: Canonical describes  *)
(* the values a load can return, which survive encoding and decoding.      *)
(* With that, the text read by a process stays the file's text for as long *)
(* as the process's own replacement is the only one under way, and         *)
(* `overtaken` tells when it was not.                                      *)
(***************************************************************************)
EXTENDS FileStore, TLAPS

Valued(v, k) == v = [f \in DOMAIN Defaults(k) |-> v[f]]

Canonical(v, k) ==
  /\ Valued(v, k)
  /\ k = "settings" =>
       /\ v.fw_mode \in FirewallModes \cup {"disabled"} /\ v.action \in DefaultActions
       /\ ~(v.failback < 1)
       /\ v.socks \in Ports /\ v.http \in Ports /\ v.socks # v.http
  /\ k = "state" =>
       /\ v.active_transport \in {"proxy", "zapret", "direct"}
       /\ v.restore_transport \in {"proxy", "zapret", "direct"}

LEMMA OrOf == /\ \A v, w : Or({v}, w) = v
              /\ \A w : Or({}, w) = w
  BY DEF Or

(* What is in the way of a document's fields.                              *)
LEMMA FieldsApart ==
  ASSUME NEW k \in Kinds
  PROVE  /\ "schema" \notin DOMAIN Defaults(k)
         /\ LegacyFields \cap DOMAIN Defaults(k) = {}
         /\ "schema" \notin LegacyFields /\ "foreign" \notin LegacyFields
         /\ "foreign" \notin DOMAIN Defaults(k)
  BY DEF Kinds, Defaults, DefaultSettings, DefaultState, NoSubscriptions, LegacyFields

LEMMA FieldNames ==
  /\ {"mode", "split_draft", "fw_mode", "socks", "http"} \subseteq DOMAIN Defaults("settings")
  /\ "active_transport" \in DOMAIN Defaults("state")
  BY DEF Defaults, DefaultSettings, DefaultState

LEMMA DocumentIs ==
  ASSUME NEW k \in Kinds, NEW v, Valued(v, k)
  PROVE  /\ DOMAIN Document(k, v) = DOMAIN Blank(Defaults(k))
         /\ DOMAIN v = DOMAIN Defaults(k)
         /\ \A f \in DOMAIN Defaults(k) : Document(k, v)[f] = {v[f]}
         /\ \A f \in LegacyFields : Document(k, v)[f] = {}
         /\ Document(k, v).schema = {Schema(k)} /\ Decodable(Document(k, v))
<1>1. DOMAIN v = DOMAIN Defaults(k) BY DEF Valued
<1>2. DOMAIN Blank(v) = DOMAIN Blank(Defaults(k)) BY <1>1 DEF Blank
<1>3. DOMAIN Blank(v) = DOMAIN v \cup LegacyFields \cup {"schema", "foreign"}
  BY DEF Blank
<1> QED BY <1>1, <1>2, <1>3, FieldsApart DEF Document, Encode, Decodable

LEMMA SchemaIsNumber == \A k \in Kinds : Schema(k) \in Nat
  BY DEF Schema, Kinds, SettingsSchema, StateSchema

LEMMA DocumentIsOurs ==
  ASSUME NEW k \in Kinds, NEW v, Valued(v, k)
  PROVE  SchemaOf(Document(k, v)) = Schema(k) /\ ~Newer(k, Document(k, v))
<1>1. SchemaOf(Document(k, v)) = Schema(k) BY DocumentIs, OrOf DEF SchemaOf
<1> QED BY <1>1, SchemaIsNumber DEF Newer

LEMMA CopiedBack ==
  ASSUME NEW k \in Kinds, NEW v, Valued(v, k)
  PROVE  Copied(Document(k, v), Defaults(k)) = v
<1>1. ASSUME NEW f \in DOMAIN Defaults(k) PROVE Or(Document(k, v)[f], Defaults(k)[f]) = v[f]
  <2>1. Document(k, v)[f] = {v[f]} BY DocumentIs
  <2> QED BY <2>1, OrOf
<1>2. Copied(Document(k, v), Defaults(k)) = [f \in DOMAIN Defaults(k) |-> v[f]]
  BY <1>1 DEF Copied
<1> QED BY <1>2 DEF Valued

(* Saving and loading settings changes nothing in them.                    *)
LEMMA SettingsRoundTrip ==
  ASSUME NEW v, Canonical(v, "settings")
  PROVE  DecodeSettings(Document("settings", v)) = v
<1> DEFINE d == Document("settings", v)
<1>1. "settings" \in Kinds /\ Valued(v, "settings") /\ Defaults("settings") = DefaultSettings
  BY DEF Kinds, Canonical, Defaults
<1>2. /\ Copied(d, DefaultSettings) = v /\ SchemaOf(d) = SettingsSchema
      /\ DOMAIN v = DOMAIN DefaultSettings
  BY <1>1, CopiedBack, DocumentIsOurs, DocumentIs DEF Schema
<1>3. /\ d.mode # {} /\ d.split_draft # {} /\ d.fw_mode # {}
      /\ Or(d.split_draft, v.split_draft) = v.split_draft
  <2>1. \A f \in DOMAIN Defaults("settings") : d[f] = {v[f]} BY <1>1, DocumentIs
  <2>2. d.mode = {v.mode} /\ d.split_draft = {v.split_draft} /\ d.fw_mode = {v.fw_mode}
    BY <2>1, FieldNames
  <2> QED BY <2>2, OrOf
<1> HIDE DEF d
<1>4. \A f : [v EXCEPT ![f] = v[f]] = v BY <1>1 DEF Valued
<1>5. DecodeScalars(d) = v
  <2>1. [v EXCEPT !.failback = v.failback, !.mode = v.mode] = v BY <1>4
  <2> QED BY <1>2, <1>3, <2>1 DEF DecodeScalars, Canonical
<1>6. DecodeFirewall(d, v) = v
  <2>1. [v EXCEPT !.fw_mode = v.fw_mode, !.action = v.action,
                  !.split_draft = v.split_draft] = v BY <1>4
  <2> QED BY <1>3, <2>1 DEF DecodeFirewall, Canonical
<1>7. DecodeQUIC(d, v) = v
  <2>1. [v EXCEPT !.block_quic = v.block_quic] = v BY <1>4
  <2> QED BY <1>2, <2>1 DEF DecodeQUIC, QUICSchema, SettingsSchema
<1>8. MigrateLegacyMode(d, v) = v BY <1>3 DEF MigrateLegacyMode
<1> QED BY <1>5, <1>6, <1>7, <1>8 DEF DecodeSettings, d

LEMMA StateRoundTrip ==
  ASSUME NEW v, Canonical(v, "state")
  PROVE  DecodeState(Document("state", v)) = v
<1> DEFINE d == Document("state", v)
<1>1. "state" \in Kinds /\ Valued(v, "state") /\ Defaults("state") = DefaultState
  BY DEF Kinds, Canonical, Defaults
<1>2. Copied(d, DefaultState) = v BY <1>1, CopiedBack
<1>3. d.active_transport # {} 
  <2>1. d.active_transport = {v.active_transport} BY <1>1, DocumentIs, FieldNames
  <2> QED BY <2>1
<1> HIDE DEF d
<1>4. /\ NormalizeTransportMode(v.active_transport) = v.active_transport
      /\ NormalizeTransportMode(v.restore_transport) = v.restore_transport
  BY DEF Canonical, NormalizeTransportMode
<1>5. [v EXCEPT !.active_transport = v.active_transport,
                !.restore_transport = v.restore_transport] = v
  BY <1>1 DEF Valued
<1> QED BY <1>2, <1>3, <1>4, <1>5 DEF DecodeState, d

LEMMA RoundTrip ==
  ASSUME NEW k \in Kinds, NEW v, Canonical(v, k)
  PROVE  Decode(k, Document(k, v)) = v /\ Acceptable(k, Document(k, v))
<1>0. Decodable(Document(k, v)) BY DocumentIs DEF Canonical
<1>1. CASE k = "settings"
  <2>1. DecodeSettings(Document(k, v)) = v BY <1>1, SettingsRoundTrip
  <2>2. Document(k, v).socks = {v.socks} /\ Document(k, v).http = {v.http}
    BY <1>1, DocumentIs, FieldNames DEF Canonical
  <2>3. ProxyValid(Document(k, v))
    <3>1. /\ Or(Document(k, v).socks, DefaultSettings.socks) = v.socks
          /\ Or(Document(k, v).http, DefaultSettings.http) = v.http
      BY <2>2, OrOf
    <3> QED BY <1>1, <3>1 DEF ProxyValid, Canonical
  <2> QED BY <1>1, <1>0, <2>1, <2>3 DEF Decode, Acceptable
<1>2. CASE k = "state"
  BY <1>2, <1>0, StateRoundTrip DEF Decode, Acceptable
<1>3. CASE k = "subscriptions"
  <2>1. Copied(Document(k, v), NoSubscriptions) = v
    BY <1>3, CopiedBack DEF Canonical, Defaults
  <2> QED BY <1>0, <1>3, <2>1 DEF Decode, Acceptable
<1> QED BY <1>1, <1>2, <1>3 DEF Kinds

LEMMA DefaultsCanonical ==
  ASSUME NEW k \in Kinds
  PROVE  Canonical(Defaults(k), k)
<1>1. CASE k = "settings"
  <2>1. DefaultSettings = [f \in DOMAIN DefaultSettings |-> DefaultSettings[f]]
    <3> DEFINE a == 10808  b == 10809  no == FALSE  m == "manual"  fm == "disabled"
               none == {}  act == "direct"  n == DefaultFailback
               r == [socks |-> a, http |-> b, auto_mode |-> no, mode |-> m, fw_mode |-> fm,
                     hosts |-> none, targets |-> none, proxy |-> none, bypass |-> none,
                     action |-> act, split_draft |-> none, block_quic |-> no,
                     zapret_domains |-> none, failback |-> n]
    <3>1. r = DefaultSettings BY DEF DefaultSettings
    <3> HIDE DEF a, b, no, m, fm, none, act, n
    <3>2. r = [x \in DOMAIN r |-> r[x]] BY Z3
    <3> HIDE DEF r
    <3> QED BY <3>1, <3>2
  <2>2. /\ DefaultSettings.socks = 10808 /\ DefaultSettings.http = 10809
        /\ DefaultSettings.fw_mode = "disabled" /\ DefaultSettings.action = "direct"
        /\ DefaultSettings.failback = 3
    BY DEF DefaultSettings, DefaultFailback
  <2> QED BY <1>1, <2>1, <2>2, ListenersAssumption DEF Canonical, Valued, Defaults, DefaultActions
<1>2. CASE k = "state"
  <2>1. Valued(DefaultState, k) BY <1>2 DEF Defaults, DefaultState, Valued
  <2>2. DefaultState.active_transport = "direct" /\ DefaultState.restore_transport = "direct"
    BY DEF DefaultState
  <2> QED BY <1>2, <2>1, <2>2 DEF Canonical, Defaults
<1>3. CASE k = "subscriptions" BY <1>3 DEF Canonical, Defaults, NoSubscriptions, Valued
<1> QED BY <1>1, <1>2, <1>3 DEF Kinds

LEMMA ListedFields ==
  /\ {"failback", "mode", "fw_mode", "action", "split_draft", "block_quic", "hosts",
      "proxy", "bypass", "targets", "socks", "http", "auto_mode"}
       \subseteq DOMAIN DefaultSettings
  /\ {"node", "connected", "active_transport", "restore_transport", "test"}
       \subseteq DOMAIN DefaultState
  BY DEF DefaultSettings, DefaultState

(* Whatever a document of settings says, what is read from it is canonical *)
(* if its listeners are possible.                                          *)
LEMMA DecodedSettings ==
  ASSUME NEW d, ProxyValid(d)
  PROVE  Canonical(DecodeSettings(d), "settings")
<1> DEFINE F == DOMAIN DefaultSettings
           Like(v) == v = [f \in F |-> v[f]]
           s0 == Copied(d, DefaultSettings)
           s1 == DecodeScalars(d)
           s2 == DecodeFirewall(d, s1)
           s3 == DecodeQUIC(d, s2)
           s4 == MigrateLegacyMode(d, s3)
           Listens(v) == v.socks \in Ports /\ v.http \in Ports /\ v.socks # v.http
<1>1. Like(s0) /\ Listens(s0) BY ListedFields DEF Copied, ProxyValid
<1>2. Like(s1) /\ Listens(s1) /\ ~(s1.failback < 1)
  <2> HIDE DEF s0
  <2> DEFINE f0 == IF s0.failback < 1 THEN DefaultFailback ELSE s0.failback
             m0 == IF d.mode = {} /\ s0.auto_mode THEN "auto" ELSE s0.mode
  <2>1. s1 = [s0 EXCEPT !.failback = f0, !.mode = m0] BY DEF DecodeScalars, s0
  <2>2. ~(f0 < 1) BY DEF DefaultFailback
  <2> HIDE DEF s1, f0, m0
  <2>3. /\ s1.failback = f0 /\ s1.socks = s0.socks /\ s1.http = s0.http
        /\ Like(s1)
    BY <1>1, <2>1, ListedFields
  <2> QED BY <1>1, <2>2, <2>3
<1> HIDE DEF s0, s1
<1>3. /\ Like(s2) /\ Listens(s2) /\ ~(s2.failback < 1)
      /\ s2.fw_mode \in FirewallModes \cup {"disabled"} /\ s2.action \in DefaultActions
  BY <1>2, ListedFields DEF DecodeFirewall, DefaultActions
<1> HIDE DEF s2
<1>4. /\ Like(s3) /\ Listens(s3) /\ ~(s3.failback < 1)
      /\ s3.fw_mode \in FirewallModes \cup {"disabled"} /\ s3.action \in DefaultActions
  BY <1>3, ListedFields DEF DecodeQUIC
<1> HIDE DEF s3
<1>5. /\ Like(s4) /\ Listens(s4) /\ ~(s4.failback < 1)
      /\ s4.fw_mode \in FirewallModes \cup {"disabled"} /\ s4.action \in DefaultActions
  BY <1>4, ListedFields DEF MigrateLegacyMode, FirewallModes, DefaultActions
<1>6. DecodeSettings(d) = s4 BY DEF DecodeSettings, s1, s2, s3
<1> HIDE DEF s4
<1> QED BY <1>5, <1>6 DEF Canonical, Valued, Defaults

LEMMA DecodedIsCanonical ==
  ASSUME NEW k \in Kinds, NEW d, Acceptable(k, d)
  PROVE  Canonical(Decode(k, d), k)
<1>1. CASE k = "settings" BY <1>1, DecodedSettings DEF Acceptable, Decode
<1>2. CASE k = "state"
  <2> DEFINE s == Copied(d, DefaultState)
             t == IF d.active_transport # {} THEN s.active_transport
                  ELSE IF s.connected THEN "proxy" ELSE "direct"
             v == [s EXCEPT !.active_transport = NormalizeTransportMode(t),
                            !.restore_transport = NormalizeTransportMode(@)]
  <2>1. s = [f \in DOMAIN DefaultState |-> s[f]] BY DEF Copied
  <2>2. \A m : NormalizeTransportMode(m) \in {"proxy", "zapret", "direct"}
    BY DEF NormalizeTransportMode
  <2>3. DecodeState(d) = v BY DEF DecodeState
  <2> HIDE DEF s, t
  <2>4. /\ v = [f \in DOMAIN DefaultState |-> v[f]]
        /\ v.active_transport = NormalizeTransportMode(t)
        /\ v.restore_transport = NormalizeTransportMode(s.restore_transport)
    BY <2>1, ListedFields
  <2> HIDE DEF v
  <2>5. v.active_transport \in {"proxy", "zapret", "direct"}
        /\ v.restore_transport \in {"proxy", "zapret", "direct"}
    BY <2>2, <2>4
  <2>6. DOMAIN Defaults(k) = DOMAIN DefaultState /\ Decode(k, d) = v
    BY <1>2, <2>3 DEF Defaults, Decode
  <2> QED BY <1>2, <2>4, <2>5, <2>6 DEF Canonical, Valued
<1>3. CASE k = "subscriptions" BY <1>3 DEF Canonical, Decode, Copied, Valued, Defaults
<1> QED BY <1>1, <1>2, <1>3 DEF Kinds

LEMMA ChangedIsCanonical ==
  ASSUME NEW k \in Kinds, NEW v, Canonical(v, k), NEW w \in Changes(k, v)
  PROVE  Canonical(w, k)
<1>1. CASE k = "settings"
  <2>1. w \in SettingsChanges(v) BY <1>1 DEF Changes
  <2>2. v = [f \in DOMAIN DefaultSettings |-> v[f]] BY <1>1 DEF Canonical, Valued, Defaults
  <2>3. /\ w = [f \in DOMAIN DefaultSettings |-> w[f]]
        /\ w.fw_mode \in {v.fw_mode, "hosts", "split"} /\ w.action \in {v.action, "proxy"}
        /\ w.failback = v.failback
        /\ <<w.socks, w.http>> \in {<<v.socks, v.http>>, <<v.http, v.socks>>}
    BY <2>1, <2>2, ListedFields DEF SettingsChanges
  <2> QED BY <1>1, <2>3 DEF Canonical, Valued, Defaults, FirewallModes, DefaultActions
<1>2. CASE k = "state"
  <2>1. w \in StateChanges(v) BY <1>2 DEF Changes
  <2>2. v = [f \in DOMAIN DefaultState |-> v[f]] BY <1>2 DEF Canonical, Valued, Defaults
  <2>3. /\ w = [f \in DOMAIN DefaultState |-> w[f]]
        /\ w.active_transport \in {v.active_transport, "proxy", "zapret", "direct"}
        /\ w.restore_transport \in {v.restore_transport, v.active_transport}
    BY <2>1, <2>2, ListedFields DEF StateChanges
  <2> QED BY <1>2, <2>3 DEF Canonical, Valued, Defaults
<1>3. CASE k = "subscriptions"
  BY <1>3 DEF Canonical, Changes, Valued, Defaults, NoSubscriptions
<1> QED BY <1>1, <1>2, <1>3 DEF Kinds

-----------------------------------------------------------------------------
(* The texts, for a given kind of file: the kind never changes.            *)
AbsentIn(k)       == Text("absent", Blank(Defaults(k)))
MalformedIn(k, n) == Text("malformed", [Blank(Defaults(k)) EXCEPT !.schema = {n}])
JSONIn(k, v)      == Text("json", Document(k, v))
IsTextIn(k, t) ==
  t.form \in {"absent", "json", "malformed"} /\ DOMAIN t.doc = DOMAIN Blank(Defaults(k))
OutcomeIn(k, t) ==
  CASE t.form = "absent" -> "absent"
    [] t.form = "malformed" -> "corrupt"
    [] t.form = "json" /\ Newer(k, t.doc) -> "newer"
    [] t.form = "json" /\ ~Newer(k, t.doc) ->
         IF Acceptable(k, t.doc) THEN "ok" ELSE "corrupt"
MeaningIn(k, t) ==
  CASE OutcomeIn(k, t) = "ok" -> Decode(k, t.doc)
    [] OutcomeIn(k, t) # "ok" -> Defaults(k)
LaterIn(k, t) == t.form = "json" /\ SchemaOf(t.doc) > Schema(k)

LEMMA InKind ==
  /\ Absent = AbsentIn(kind) /\ \A n : Malformed(n) = MalformedIn(kind, n)
  /\ \A v : JSON(v) = JSONIn(kind, v)
  /\ \A t : /\ IsText(t) <=> IsTextIn(kind, t)
            /\ Outcome(t) = OutcomeIn(kind, t)
            /\ Meaning(t) = MeaningIn(kind, t)
            /\ FromLater(t) <=> LaterIn(kind, t)
<1>1. \A t : Outcome(t) = OutcomeIn(kind, t) BY DEF Outcome, OutcomeIn
<1>2. \A t : Meaning(t) = MeaningIn(kind, t) BY <1>1 DEF Meaning, MeaningIn
<1> QED
  BY <1>1, <1>2 DEF Absent, AbsentIn, Malformed, MalformedIn, JSON, JSONIn, IsText, IsTextIn,
     FromLater, LaterIn, Empty

LEMMA TextIs == \A f, d : Text(f, d).form = f /\ Text(f, d).doc = d
  BY DEF Text

LEMMA AbsentText ==
  ASSUME NEW k \in Kinds
  PROVE  /\ IsTextIn(k, AbsentIn(k)) /\ AbsentIn(k).form = "absent"
         /\ OutcomeIn(k, AbsentIn(k)) = "absent"
         /\ MeaningIn(k, AbsentIn(k)) = Defaults(k) /\ ~LaterIn(k, AbsentIn(k))
<1>1. AbsentIn(k).form = "absent" /\ AbsentIn(k).doc = Blank(Defaults(k))
  BY TextIs DEF AbsentIn
<1>2. OutcomeIn(k, AbsentIn(k)) = "absent" BY <1>1 DEF OutcomeIn
<1> QED BY <1>1, <1>2 DEF IsTextIn, MeaningIn, LaterIn

LEMMA MalformedText ==
  ASSUME NEW k \in Kinds, NEW n
  PROVE  /\ IsTextIn(k, MalformedIn(k, n)) /\ MalformedIn(k, n).form = "malformed"
         /\ OutcomeIn(k, MalformedIn(k, n)) = "corrupt"
         /\ MeaningIn(k, MalformedIn(k, n)) = Defaults(k) /\ ~LaterIn(k, MalformedIn(k, n))
         /\ MalformedIn(k, n).doc.schema = {n}
<1>1. /\ MalformedIn(k, n).form = "malformed"
      /\ MalformedIn(k, n).doc = [Blank(Defaults(k)) EXCEPT !.schema = {n}]
  BY TextIs DEF MalformedIn
<1>2. OutcomeIn(k, MalformedIn(k, n)) = "corrupt" BY <1>1 DEF OutcomeIn
<1>3. "schema" \in DOMAIN Blank(Defaults(k)) BY DEF Blank
<1> QED BY <1>1, <1>2, <1>3 DEF IsTextIn, MeaningIn, LaterIn

LEMMA JSONText ==
  ASSUME NEW k \in Kinds, NEW v, Canonical(v, k)
  PROVE  /\ IsTextIn(k, JSONIn(k, v)) /\ JSONIn(k, v).form = "json"
         /\ OutcomeIn(k, JSONIn(k, v)) = "ok"
         /\ MeaningIn(k, JSONIn(k, v)) = v /\ ~LaterIn(k, JSONIn(k, v))
<1>1. JSONIn(k, v).form = "json" /\ JSONIn(k, v).doc = Document(k, v)
  BY TextIs DEF JSONIn
<1>2. Valued(v, k) BY DEF Canonical
<1>3. OutcomeIn(k, JSONIn(k, v)) = "ok"
  BY <1>1, <1>2, RoundTrip, DocumentIsOurs DEF OutcomeIn
<1>4. MeaningIn(k, JSONIn(k, v)) = v BY <1>1, <1>3, RoundTrip DEF MeaningIn
<1>5. ~LaterIn(k, JSONIn(k, v)) BY <1>1, <1>2, DocumentIsOurs, SchemaIsNumber DEF LaterIn
<1> QED BY <1>1, <1>2, <1>3, <1>4, <1>5, DocumentIs DEF IsTextIn

LEMMA AnyText ==
  ASSUME NEW k \in Kinds, NEW t, IsTextIn(k, t)
  PROVE  /\ OutcomeIn(k, t) \in {"absent", "corrupt", "newer", "ok"}
         /\ OutcomeIn(k, t) # "ok" => MeaningIn(k, t) = Defaults(k)
         /\ Canonical(MeaningIn(k, t), k)
         /\ LaterIn(k, t) =>
              \/ OutcomeIn(k, t) = "newer"
              \/ OutcomeIn(k, t) = "corrupt" /\ ~Decodable(t.doc)
<1>1. OutcomeIn(k, t) \in {"absent", "corrupt", "newer", "ok"}
  BY DEF OutcomeIn, IsTextIn
<1>2. OutcomeIn(k, t) # "ok" => MeaningIn(k, t) = Defaults(k) BY DEF MeaningIn
<1>3. OutcomeIn(k, t) = "ok" => MeaningIn(k, t) = Decode(k, t.doc) /\ Acceptable(k, t.doc)
  BY DEF MeaningIn, OutcomeIn, IsTextIn
<1>4. LaterIn(k, t) =>
        \/ OutcomeIn(k, t) = "newer"
        \/ OutcomeIn(k, t) = "corrupt" /\ ~Decodable(t.doc)
  BY DEF LaterIn, OutcomeIn, Newer, Acceptable
<1> QED BY <1>1, <1>2, <1>3, <1>4, DecodedIsCanonical, DefaultsCanonical

-----------------------------------------------------------------------------
(* The inductive invariant.                                                *)
JobFields == {"pc", "update", "seen", "name", "value", "saving"}

(* A malformed text is one of those that were left so far.                 *)
Numbered(t) == t.form = "malformed" => \E n \in 1..spoils : t = MalformedIn(kind, n)

JobType(j) ==
  /\ DOMAIN j = JobFields
  /\ j.pc \in {"idle", "load", "name", "rename", "write", "replace"}
  /\ j.update \in BOOLEAN /\ j.saving \in BOOLEAN /\ j.name \in BackupNames \cup {0}
  /\ IsTextIn(kind, j.seen) /\ Numbered(j.seen) /\ Canonical(j.value, kind)

(* What a process is about to replace is what it read, unless somebody     *)
(* else was faster, and then a malformed file was there before.            *)
JobOK(p, j) ==
  /\ JobType(j)
  /\ j.pc = "idle" => ~j.update
  /\ j.pc # "idle" /\ j.update => lock = p
  /\ j.saving => j.update /\ j.pc \in {"write", "replace"}
  /\ j.pc \in {"name", "rename"} =>
       OutcomeIn(kind, j.seen) = "corrupt" /\ spoiled # {}
  /\ j.pc = "rename" =>
       j.name \in BackupNames /\ (file = j.seen => aside[j.name] = AbsentIn(kind))
  /\ j.pc \in {"write", "replace"} =>
       /\ OutcomeIn(kind, j.seen) \in {"absent", "ok"}
       /\ ~j.saving =>
            j.seen = AbsentIn(kind) /\ j.value = Defaults(kind) /\ spoiled # {}
       /\ spoiled = {} => file = j.seen
  /\ LaterIn(kind, file) =>
       \/ j.pc \in {"idle", "load"}
       \/ j.pc \in {"name", "rename"} /\ ~Decodable(file.doc)

FileOK ==
  /\ kind \in Kinds /\ IsTextIn(kind, file) /\ Numbered(file)
  /\ DOMAIN aside = BackupNames /\ \A n \in BackupNames : IsTextIn(kind, aside[n])
  /\ lock \in Procs \cup {Nobody} /\ overtaken \in BOOLEAN /\ DOMAIN job = Procs
  /\ updates \in 0..MaxUpdates /\ spoils \in 0..MaxSpoils
  /\ Canonical(meant, kind)
  /\ \A t \in spoiled : IsTextIn(kind, t) /\ OutcomeIn(kind, t) = "corrupt"
  /\ OutcomeIn(kind, file) = "corrupt" => file \in spoiled
  /\ spoiled = {} => ~overtaken
  /\ ~overtaken =>
       /\ MeaningIn(kind, file) = meant
       /\ \A t \in spoiled : t = file \/ \E n \in BackupNames : aside[n] = t

IInv == FileOK /\ \A p \in Procs : JobOK(p, job[p])

LEMMA IdleOK ==
  ASSUME kind \in Kinds, NEW p
  PROVE  /\ JobOK(p, Idle(Defaults(kind))) /\ Idle(Defaults(kind)).pc = "idle"
         /\ ~Idle(Defaults(kind)).update
<1> DEFINE j == Idle(Defaults(kind))
<1>1. /\ DOMAIN j = JobFields /\ j.pc = "idle" /\ j.update = FALSE /\ j.saving = FALSE
      /\ j.name = 0 /\ j.seen = AbsentIn(kind) /\ j.value = Defaults(kind)
  BY InKind DEF Idle, JobFields
<1>2. IsTextIn(kind, j.seen) /\ Numbered(j.seen) BY <1>1, AbsentText DEF Numbered
<1> HIDE DEF j
<1>3. JobType(j) BY <1>1, <1>2, DefaultsCanonical DEF JobType
<1>4. JobOK(p, j) BY <1>1, <1>3 DEF JobOK
<1> QED BY <1>1, <1>4 DEF j

LEMMA InitOK ==
  ASSUME Init
  PROVE  IInv
<1>1. kind \in Kinds BY DEF Init
<1>2. IsTextIn(kind, file) /\ file.form # "malformed"
  <2>1. CASE file = Absent BY <1>1, <2>1, InKind, AbsentText
  <2>2. CASE \E d \in Stored[kind] : file = Text("json", d)
    BY <1>1, <2>2, TextIs, FileStoreAssumption DEF IsTextIn
  <2> QED BY <2>1, <2>2 DEF Init
<1>3. /\ meant = MeaningIn(kind, file)
      /\ spoiled = IF OutcomeIn(kind, file) = "corrupt" THEN {file} ELSE {}
      /\ aside = [n \in BackupNames |-> AbsentIn(kind)]
      /\ job = [p \in Procs |-> Idle(Defaults(kind))]
      /\ overtaken = FALSE /\ lock = Nobody /\ updates = 0 /\ spoils = 0
  BY InKind DEF Init
<1>4. FileOK
  <2>1. /\ DOMAIN aside = BackupNames /\ \A n \in BackupNames : aside[n] = AbsentIn(kind)
        /\ lock \in Procs \cup {Nobody} /\ overtaken \in BOOLEAN /\ DOMAIN job = Procs
    BY <1>3
  <2>5. updates \in 0..MaxUpdates /\ spoils \in 0..MaxSpoils
    BY <1>3, FileStoreAssumption
  <2>6. \A n \in BackupNames : IsTextIn(kind, aside[n]) BY <1>1, <2>1, AbsentText
  <2>2. Canonical(meant, kind) BY <1>1, <1>2, <1>3, AnyText
  <2>3. Numbered(file) BY <1>2 DEF Numbered
  <2>4. \A t \in spoiled : t = file /\ OutcomeIn(kind, t) = "corrupt" BY <1>3
  <2> QED BY <1>1, <1>2, <1>3, <2>1, <2>2, <2>3, <2>4, <2>5, <2>6 DEF FileOK
<1> QED BY <1>1, <1>3, <1>4, IdleOK DEF IInv

-----------------------------------------------------------------------------
(* Steps that leave the file alone.  A process other than the one that     *)
(* moves keeps its job, and the lock stays with who needs it.              *)
Quiet ==
  /\ UNCHANGED <<kind, file, aside, spoils, history>>
  /\ updates' \in 0..MaxUpdates /\ lock' \in Procs \cup {Nobody}

LEMMA QuietStep ==
  ASSUME IInv, Quiet, NEW p \in Procs, NEW j, Step(p, j),
         \A q \in Procs \ {p} : lock = q => lock' = q,
         JobOK(p, job[p])'
  PROVE  IInv'
<1>1. /\ DOMAIN job' = Procs /\ job'[p] = j
      /\ \A q \in Procs \ {p} : job'[q] = job[q]
  BY DEF Step, IInv, FileOK
<1>2. FileOK' BY <1>1 DEF IInv, FileOK, Quiet, history, Numbered
<1>3. ASSUME NEW q \in Procs \ {p} PROVE JobOK(q, job[q])'
  <2>1. job'[q] = job[q] /\ JobOK(q, job[q]) BY <1>1 DEF IInv
  <2>2. JobType(job[q])' BY <2>1 DEF JobOK, JobType, Quiet, Numbered
  <2> QED BY <2>1, <2>2 DEF JobOK, Quiet, history
<1> QED BY <1>2, <1>3 DEF IInv

(* What holds of a job before a step: it names facts for the lemmas below. *)
LEMMA Before ==
  ASSUME IInv, NEW p \in Procs
  PROVE  FileOK /\ JobOK(p, job[p]) /\ JobType(job[p]) /\ DOMAIN job[p] = JobFields
         /\ kind \in Kinds /\ DOMAIN job = Procs
  BY DEF IInv, FileOK, JobOK, JobType

(* A process whose operation is over holds nothing.                        *)
LEMMA EndedJob ==
  ASSUME IInv, NEW p \in Procs, Ends(p), kind' = kind
  PROVE  /\ JobOK(p, job[p])' /\ DOMAIN job' = Procs
         /\ \A q \in Procs \ {p} : job'[q] = job[q] /\ (lock = q => lock' = q)
         /\ lock' \in Procs \cup {Nobody}
<1>1. /\ job'[p] = Idle(Defaults(kind)) /\ DOMAIN job' = Procs
      /\ \A q \in Procs \ {p} : job'[q] = job[q] /\ (lock = q => lock' = q)
      /\ lock' \in Procs \cup {Nobody}
  BY Before DEF Ends, Step, FileOK
<1>2. /\ DOMAIN job'[p] = JobFields /\ job'[p].pc = "idle" /\ ~job'[p].update
      /\ job'[p].update \in BOOLEAN /\ job'[p].saving = FALSE /\ job'[p].name = 0
      /\ job'[p].seen = AbsentIn(kind) /\ job'[p].value = Defaults(kind)
  BY <1>1, InKind DEF Idle, JobFields
<1>3. JobType(job[p])' BY <1>2, Before, AbsentText, DefaultsCanonical DEF JobType, Numbered
<1>4. JobOK(p, job[p])' BY <1>2, <1>3 DEF JobOK
<1> QED BY <1>1, <1>4

LEMMA EndsOK ==
  ASSUME IInv, NEW p \in Procs, Ends(p),
         UNCHANGED <<kind, file, aside, updates, spoils, history>>
  PROVE  IInv'
<1>1. Quiet /\ Step(p, Idle(Defaults(kind))) BY EndedJob, Before DEF Quiet, Ends, FileOK
<1> QED BY <1>1, EndedJob, QuietStep

LEMMA BeginReadOK ==
  ASSUME IInv, NEW p \in Procs, BeginRead(p)
  PROVE  IInv'
<1> DEFINE j == [job[p] EXCEPT !.pc = "load"]
<1>1. Quiet /\ Step(p, j) /\ lock' = lock /\ job[p].pc = "idle"
  BY DEF BeginRead, Quiet, IInv, FileOK, At
<1>2. /\ job'[p] = j /\ DOMAIN j = JobFields /\ j.pc = "load" /\ j.update = job[p].update
      /\ j.seen = job[p].seen /\ j.name = job[p].name /\ j.value = job[p].value
      /\ j.saving = job[p].saving
  BY <1>1, Before DEF Step, JobFields
<1> HIDE DEF j
<1>3. JobType(job[p])' BY <1>1, <1>2, Before DEF JobType, Numbered, Quiet
<1>4. JobOK(p, job[p])' BY <1>1, <1>2, <1>3, Before DEF JobOK, Quiet, history
<1> QED BY <1>1, <1>4, QuietStep

LEMMA BeginUpdateOK ==
  ASSUME IInv, NEW p \in Procs, BeginUpdate(p)
  PROVE  IInv'
<1> DEFINE j == [job[p] EXCEPT !.pc = "load", !.update = TRUE]
<1>1. /\ UNCHANGED <<kind, file, aside, spoils, history>>
      /\ Step(p, j) /\ lock = Nobody /\ lock' = p /\ job[p].pc = "idle"
      /\ updates < MaxUpdates /\ updates' = updates + 1
  BY DEF BeginUpdate, At
<1>2. Quiet BY <1>1, Before, FileStoreAssumption DEF Quiet, FileOK
<1>3. /\ job'[p] = j /\ DOMAIN j = JobFields /\ j.pc = "load" /\ j.update = TRUE
      /\ j.seen = job[p].seen /\ j.name = job[p].name /\ j.value = job[p].value
      /\ j.saving = job[p].saving
  BY <1>1, Before DEF Step, JobFields
<1> HIDE DEF j
<1>4. JobType(job[p])' BY <1>2, <1>3, Before DEF JobType, Numbered, Quiet
<1>5. JobOK(p, job[p])' BY <1>1, <1>2, <1>3, <1>4, Before DEF JobOK, Quiet, history
<1> QED BY <1>1, <1>2, <1>5, QuietStep, FileStoreAssumption

(* A load that comes to something usable.                                  *)
LEMMA LoadedOK ==
  ASSUME IInv, NEW p \in Procs, Loaded(p, [job[p] EXCEPT !.seen = file], Meaning(file)),
         job[p].pc = "load", OutcomeIn(kind, file) \in {"absent", "ok"},
         UNCHANGED <<kind, file, aside, updates, spoils, history>>
  PROVE  IInv'
<1> DEFINE j == [job[p] EXCEPT !.seen = file]
<1>1. /\ DOMAIN j = JobFields /\ j.pc = "load" /\ j.update = job[p].update /\ j.seen = file
      /\ j.name = job[p].name /\ j.saving = job[p].saving
  BY Before DEF JobFields
<1>2. CASE ~j.update BY <1>2, EndsOK DEF Loaded
<1>3. CASE j.update
  <2>1. PICK w \in Changes(kind, MeaningIn(kind, file)) :
              Step(p, [j EXCEPT !.pc = "write", !.value = w, !.saving = TRUE])
    BY <1>3, InKind DEF Loaded
  <2>2. lock' = lock BY <1>3 DEF Loaded
  <2> DEFINE i == [j EXCEPT !.pc = "write", !.value = w, !.saving = TRUE]
  <2> HIDE DEF j
  <2>3. /\ job'[p] = i /\ DOMAIN i = JobFields /\ i.pc = "write" /\ i.update = TRUE
        /\ i.seen = file /\ i.name = job[p].name /\ i.value = w /\ i.saving = TRUE
    BY <1>1, <1>3, <2>1, Before DEF Step, JobFields, JobType
  <2> HIDE DEF i
  <2>4. Canonical(w, kind) BY Before, AnyText, ChangedIsCanonical DEF FileOK
  <2>5. Quiet BY <2>2, Before DEF Quiet, FileOK
  <2>6. JobType(job[p])'
    BY <2>3, <2>4, <2>5, Before DEF JobType, Numbered, Quiet, FileOK
  <2>7. ~LaterIn(kind, file) BY Before, AnyText DEF FileOK
  <2>8. lock = p BY <1>1, <1>3, Before DEF JobOK
  <2>9. JobOK(p, job[p])' BY <2>2, <2>3, <2>5, <2>6, <2>7, <2>8 DEF JobOK, Quiet
  <2> QED BY <2>1, <2>2, <2>5, <2>9, QuietStep
<1> QED BY <1>2, <1>3

LEMMA LoadOK ==
  ASSUME IInv, NEW p \in Procs, Load(p)
  PROVE  IInv'
<1> DEFINE j == [job[p] EXCEPT !.seen = file]
           i == [j EXCEPT !.pc = "name"]
<1>1. job[p].pc = "load" /\ UNCHANGED <<kind, file, aside, updates, spoils, history>>
  BY DEF Load, At
<1>2. CASE OutcomeIn(kind, file) \in {"absent", "ok"}
  <2>1. Loaded(p, j, Meaning(file)) BY <1>2, InKind DEF Load
  <2> QED BY <1>1, <1>2, <2>1, LoadedOK
<1>3. CASE OutcomeIn(kind, file) \notin {"absent", "ok"}
  <2>1. OutcomeIn(kind, file) \in {"newer", "corrupt"} BY <1>3, Before, AnyText DEF FileOK
  <2>2. CASE Ends(p) BY <1>1, <2>2, EndsOK
  <2>3. CASE ~Ends(p)
    <3>1. OutcomeIn(kind, file) = "corrupt" /\ Step(p, i) /\ lock' = lock
      BY <2>1, <2>3, InKind DEF Load
    <3>2. /\ job'[p] = i /\ DOMAIN i = JobFields /\ i.pc = "name" /\ i.seen = file
          /\ i.update = job[p].update /\ i.name = job[p].name /\ i.value = job[p].value
          /\ i.saving = job[p].saving
      BY <3>1, Before DEF Step, JobFields
    <3> HIDE DEF i, j
    <3>3. Quiet BY <1>1, <3>1, Before DEF Quiet, FileOK
    <3>4. JobType(job[p])'
      BY <3>2, <3>3, Before DEF JobType, Numbered, Quiet, FileOK
    <3>5. (LaterIn(kind, file) => ~Decodable(file.doc)) /\ spoiled # {}
      BY <3>1, Before, AnyText DEF FileOK
    <3>6. JobOK(p, job[p])'
      BY <1>1, <3>1, <3>2, <3>3, <3>4, <3>5, Before DEF JobOK, Quiet, history
    <3> QED BY <3>1, <3>3, <3>6, QuietStep
  <2> QED BY <2>2, <2>3
<1> QED BY <1>2, <1>3

LEMMA CorruptBackupPathOK ==
  ASSUME IInv, NEW p \in Procs, CorruptBackupPath(p)
  PROVE  IInv'
<1>1. job[p].pc = "name" /\ UNCHANGED <<kind, file, aside, updates, spoils, history>>
  BY DEF CorruptBackupPath, At
<1>2. CASE Ends(p) BY <1>1, <1>2, EndsOK
<1>3. CASE ~Ends(p)
  <2>1. PICK n \in BackupNames : /\ aside[n] = AbsentIn(kind) /\ lock' = lock
                                 /\ Step(p, [job[p] EXCEPT !.pc = "rename", !.name = n])
    BY <1>3, InKind DEF CorruptBackupPath
  <2> DEFINE i == [job[p] EXCEPT !.pc = "rename", !.name = n]
  <2>2. /\ job'[p] = i /\ DOMAIN i = JobFields /\ i.pc = "rename" /\ i.name = n
        /\ i.seen = job[p].seen /\ i.update = job[p].update /\ i.value = job[p].value
        /\ i.saving = job[p].saving
    BY <2>1, Before DEF Step, JobFields
  <2> HIDE DEF i
  <2>3. Quiet BY <1>1, <2>1, Before DEF Quiet, FileOK
  <2>4. JobType(job[p])' BY <2>2, <2>3, Before DEF JobType, Numbered, Quiet
  <2>5. JobOK(p, job[p])' BY <1>1, <2>1, <2>2, <2>3, <2>4, Before DEF JobOK, Quiet, history
  <2> QED BY <2>1, <2>3, <2>5, QuietStep
<1> QED BY <1>2, <1>3

LEMMA WriteTempOK ==
  ASSUME IInv, NEW p \in Procs, WriteTemp(p)
  PROVE  IInv'
<1>1. job[p].pc = "write" /\ UNCHANGED <<kind, file, aside, updates, spoils, history>>
  BY DEF WriteTemp, At
<1>2. CASE Ends(p) BY <1>1, <1>2, EndsOK
<1>3. CASE ~Ends(p)
  <2> DEFINE i == [job[p] EXCEPT !.pc = "replace"]
  <2>1. Step(p, i) /\ lock' = lock BY <1>3 DEF WriteTemp
  <2>2. /\ job'[p] = i /\ DOMAIN i = JobFields /\ i.pc = "replace" /\ i.name = job[p].name
        /\ i.seen = job[p].seen /\ i.update = job[p].update /\ i.value = job[p].value
        /\ i.saving = job[p].saving
    BY <2>1, Before DEF Step, JobFields
  <2> HIDE DEF i
  <2>3. Quiet BY <1>1, <2>1, Before DEF Quiet, FileOK
  <2>4. JobType(job[p])' BY <2>2, <2>3, Before DEF JobType, Numbered, Quiet
  <2>5. JobOK(p, job[p])' BY <1>1, <2>1, <2>2, <2>3, <2>4, Before DEF JobOK, Quiet, history
  <2> QED BY <2>1, <2>3, <2>5, QuietStep
<1> QED BY <1>2, <1>3

-----------------------------------------------------------------------------
(* Steps that change the file.                                             *)
LEMMA RenameOK ==
  ASSUME IInv, NEW p \in Procs, RenameCorruptFile(p)
  PROVE  IInv'
<1>1. job[p].pc = "rename" /\ UNCHANGED <<kind, updates, spoils, meant, spoiled>>
  BY DEF RenameCorruptFile, At
<1>2. CASE file = Absent
  <2>1. Ends(p) /\ UNCHANGED <<file, aside, overtaken>> BY <1>2 DEF RenameCorruptFile
  <2> QED BY <1>1, <2>1, EndsOK DEF history
<1>3. CASE file # Absent
  <2> DEFINE j == job[p]
             i == [j EXCEPT !.pc = "write", !.seen = AbsentIn(kind), !.value = Defaults(kind)]
  <2>1. /\ file' = AbsentIn(kind) /\ aside' = [aside EXCEPT ![j.name] = file]
        /\ overtaken' = (overtaken \/ file # j.seen)
        /\ (Step(p, i) /\ lock' = lock) \/ Ends(p)
    BY <1>3, InKind DEF RenameCorruptFile
  <2>2. /\ OutcomeIn(kind, j.seen) = "corrupt" /\ spoiled # {} /\ j.name \in BackupNames
        /\ file = j.seen => aside[j.name] = AbsentIn(kind)
        /\ ~j.saving /\ (j.update => lock = p)
    BY <1>1, Before DEF JobOK
  <2>3. /\ DOMAIN job' = Procs /\ \A q \in Procs \ {p} : job'[q] = job[q] /\ (lock = q => lock' = q)
        /\ lock' \in Procs \cup {Nobody}
    BY <1>1, <2>1, Before, EndedJob DEF Step, FileOK
  <2>4. FileOK'
    <3>1. /\ DOMAIN aside' = BackupNames
          /\ \A n \in BackupNames : aside'[n] = IF n = j.name THEN file ELSE aside[n]
      BY <2>1, Before DEF FileOK
    <3>2. ~overtaken' =>
            /\ MeaningIn(kind, AbsentIn(kind)) = meant
            /\ \A t \in spoiled : \E n \in BackupNames : aside'[n] = t
      <4> HAVE ~overtaken'
      <4>1. ~overtaken /\ file = j.seen /\ aside[j.name] = AbsentIn(kind) BY <2>1, <2>2
      <4>2. MeaningIn(kind, file) = Defaults(kind) BY <2>2, <4>1, Before, AnyText DEF FileOK
      <4>3. MeaningIn(kind, file) = meant BY <4>1, Before DEF FileOK
      <4>4. ASSUME NEW t \in spoiled PROVE \E n \in BackupNames : aside'[n] = t
        <5>1. CASE t = file BY <2>2, <3>1, <5>1
        <5>2. CASE t # file
          <6>1. PICK n \in BackupNames : aside[n] = t BY <4>1, <5>2, Before DEF FileOK
          <6>2. t # AbsentIn(kind) BY Before, AbsentText DEF FileOK
          <6>3. n # j.name BY <4>1, <6>1, <6>2
          <6> QED BY <3>1, <6>1, <6>3
        <5> QED BY <5>1, <5>2
      <4> QED BY <4>2, <4>3, <4>4, Before, AbsentText
    <3>3. \A n \in BackupNames : IsTextIn(kind, aside'[n]) BY <3>1, Before DEF FileOK
    <3>4. overtaken' \in BOOLEAN BY <2>1, Before DEF FileOK
    <3> QED
      BY <1>1, <2>1, <2>2, <2>3, <3>1, <3>2, <3>3, <3>4, Before, AbsentText DEF FileOK, Numbered
  <2>5. ASSUME NEW q \in Procs \ {p} PROVE JobOK(q, job[q])'
    <3>1. job'[q] = job[q] /\ JobOK(q, job[q]) BY <2>3, Before
    <3>2. JobType(job[q])' BY <1>1, <3>1 DEF JobOK, JobType, Numbered
    <3>3. job[q].pc = "rename" => file' # job[q].seen
      BY <2>1, <3>1, Before, AbsentText DEF JobOK
    <3> QED BY <1>1, <2>1, <2>2, <2>3, <3>1, <3>2, <3>3, Before, AbsentText DEF JobOK
  <2>6. JobOK(p, job[p])'
    <3>1. CASE Ends(p) BY <1>1, <3>1, EndedJob
    <3>2. CASE Step(p, i) /\ lock' = lock
      <4>1. /\ job'[p] = i /\ DOMAIN i = JobFields /\ i.pc = "write" /\ i.name = j.name
            /\ i.seen = AbsentIn(kind) /\ i.update = j.update /\ i.value = Defaults(kind)
            /\ i.saving = j.saving
        BY <3>2, Before DEF Step, JobFields
      <4> HIDE DEF i
      <4>2. JobType(job[p])'
        BY <1>1, <4>1, Before, AbsentText, DefaultsCanonical DEF JobType, Numbered
      <4> QED BY <1>1, <2>1, <2>2, <3>2, <4>1, <4>2, Before, AbsentText DEF JobOK
    <3> QED BY <2>1, <3>1, <3>2
  <2> QED BY <2>4, <2>5, <2>6 DEF IInv
<1> QED BY <1>2, <1>3

LEMMA ReplaceOK ==
  ASSUME IInv, NEW p \in Procs, Replace(p)
  PROVE  IInv'
<1> DEFINE j == job[p]
           i == [j EXCEPT !.seen = file']
<1>1. /\ j.pc = "replace" /\ UNCHANGED <<kind, aside, updates, spoils, spoiled>>
      /\ file' = JSONIn(kind, j.value) /\ overtaken' = (overtaken \/ file # j.seen)
  BY InKind DEF Replace, At
<1>2. IF j.saving THEN meant' = j.value /\ Ends(p)
      ELSE Loaded(p, i, Defaults(kind)) /\ UNCHANGED meant
  <2>1. i.saving = j.saving /\ i.value = j.value BY Before DEF JobFields
  <2> QED BY <2>1 DEF Replace
<1>3. /\ Canonical(j.value, kind) /\ OutcomeIn(kind, j.seen) \in {"absent", "ok"}
      /\ ~j.saving => /\ j.seen = AbsentIn(kind) /\ j.value = Defaults(kind) /\ spoiled # {}
      /\ spoiled = {} => file = j.seen
      /\ j.saving => j.update
      /\ j.update => lock = p
  BY <1>1, Before DEF JobOK, JobType
<1>4. /\ IsTextIn(kind, file') /\ file'.form = "json" /\ OutcomeIn(kind, file') = "ok"
      /\ MeaningIn(kind, file') = j.value /\ ~LaterIn(kind, file')
  BY <1>1, <1>3, Before, JSONText
<1>5. /\ DOMAIN job' = Procs
      /\ \A q \in Procs \ {p} : job'[q] = job[q] /\ (lock = q => lock' = q)
      /\ lock' \in Procs \cup {Nobody}
  <2>1. CASE Ends(p) BY <1>1, <2>1, EndedJob
  <2>2. CASE ~Ends(p) BY <1>2, <2>2, Before DEF Loaded, Step, FileOK
  <2> QED BY <2>1, <2>2
<1>6. FileOK'
  <2>1. Canonical(meant, kind)' BY <1>1, <1>2, <1>3, Before DEF FileOK
  <2>2. ~overtaken' =>
          /\ MeaningIn(kind, file') = meant'
          /\ \A t \in spoiled : \E n \in BackupNames : aside[n] = t
    <3> HAVE ~overtaken'
    <3>1. ~overtaken /\ file = j.seen BY <1>1
    <3>2. MeaningIn(kind, file) = meant BY <3>1, Before DEF FileOK
    <3>3. MeaningIn(kind, file') = meant'
      <4>1. CASE j.saving BY <1>2, <1>4, <4>1
      <4>2. CASE ~j.saving BY <1>2, <1>3, <1>4, <3>1, <3>2, <4>2, Before, AbsentText
      <4> QED BY <4>1, <4>2
    <3>4. file \notin spoiled BY <1>3, <3>1, Before DEF FileOK
    <3> QED BY <3>1, <3>3, <3>4, Before DEF FileOK
  <2>3. overtaken' \in BOOLEAN /\ (spoiled = {} => ~overtaken')
    BY <1>1, <1>3, Before DEF FileOK
  <2> QED BY <1>1, <1>4, <1>5, <2>1, <2>2, <2>3, Before DEF FileOK, Numbered
<1>7. ASSUME NEW q \in Procs \ {p} PROVE JobOK(q, job[q])'
  <2>1. job'[q] = job[q] /\ JobOK(q, job[q]) BY <1>5, Before
  <2>2. JobType(job[q])' BY <1>1, <2>1 DEF JobOK, JobType, Numbered
  <2>3. job[q].pc = "rename" => file' # job[q].seen BY <1>4, <2>1 DEF JobOK
  <2>4. job[q].pc \in {"write", "replace"} => spoiled # {}
    BY <1>3, <2>1 DEF JobOK
  <2> QED BY <1>1, <1>4, <1>5, <2>1, <2>2, <2>3, <2>4 DEF JobOK
<1>8. JobOK(p, job[p])'
  <2>1. CASE Ends(p) BY <1>1, <2>1, EndedJob
  <2>2. CASE ~Ends(p)
    <3>1. i.update = j.update /\ i.name = j.name /\ i.seen = file' /\ DOMAIN i = JobFields
      BY Before DEF JobFields
    <3>2. ~j.saving /\ j.update /\ lock = p /\ lock' = lock /\ Loaded(p, i, Defaults(kind))
      BY <1>2, <1>3, <2>2, <3>1 DEF Loaded
    <3> HIDE DEF i
    <3>3. PICK w \in Changes(kind, Defaults(kind)) :
                Step(p, [i EXCEPT !.pc = "write", !.value = w, !.saving = TRUE])
      BY <3>1, <3>2 DEF Loaded
    <3> DEFINE k == [i EXCEPT !.pc = "write", !.value = w, !.saving = TRUE]
    <3>4. /\ job'[p] = k /\ DOMAIN k = JobFields /\ k.pc = "write" /\ k.name = j.name
          /\ k.seen = file' /\ k.update = j.update /\ k.value = w /\ k.saving = TRUE
      BY <3>1, <3>3, Before DEF Step, JobFields
    <3> HIDE DEF k
    <3>5. Canonical(w, kind) BY Before, DefaultsCanonical, ChangedIsCanonical
    <3>6. JobType(job[p])' BY <1>1, <1>4, <3>2, <3>4, <3>5, Before DEF JobType, Numbered
    <3> QED BY <1>1, <1>4, <3>2, <3>4, <3>6 DEF JobOK
  <2> QED BY <2>1, <2>2
<1> QED BY <1>6, <1>7, <1>8 DEF IInv

LEMMA SpoilOK ==
  ASSUME IInv, Spoil
  PROVE  IInv'
<1>1. FileOK /\ \A q \in Procs : JobOK(q, job[q]) BY DEF IInv
<1>2. /\ file' = MalformedIn(kind, spoils') /\ spoils' = spoils + 1 /\ spoils < MaxSpoils
      /\ spoiled' = (spoiled \ {file}) \cup {file'} /\ meant' = Defaults(kind)
      /\ UNCHANGED <<kind, aside, lock, job, updates, overtaken>>
  BY InKind DEF Spoil
<1>3. /\ IsTextIn(kind, file') /\ file'.form = "malformed"
      /\ OutcomeIn(kind, file') = "corrupt" /\ MeaningIn(kind, file') = Defaults(kind)
      /\ ~LaterIn(kind, file') /\ file'.doc.schema = {spoils'}
  BY <1>1, <1>2, MalformedText DEF FileOK
<1>4. spoils \in Nat /\ spoils' \in 1..MaxSpoils /\ spoils' \in 0..MaxSpoils
  BY <1>1, <1>2, FileStoreAssumption DEF FileOK
<1>5. \A t : Numbered(t) => Numbered(t)'
  BY <1>2, <1>4 DEF Numbered
<1>6. Numbered(file)' BY <1>2, <1>4 DEF Numbered
<1>7. FileOK'
  <2>1. \A t \in spoiled' : IsTextIn(kind, t) /\ OutcomeIn(kind, t) = "corrupt"
    BY <1>1, <1>2, <1>3 DEF FileOK
  <2>2. ~overtaken => \A t \in spoiled' : t = file' \/ \E n \in BackupNames : aside[n] = t
    BY <1>1, <1>2 DEF FileOK
  <2>3. Canonical(meant', kind) BY <1>1, <1>2, DefaultsCanonical DEF FileOK
  <2> QED BY <1>1, <1>2, <1>3, <1>4, <1>6, <2>1, <2>2, <2>3 DEF FileOK
<1>8. ASSUME NEW q \in Procs PROVE JobOK(q, job[q])'
  <2>1. JobOK(q, job[q]) BY <1>1
  <2>2. JobType(job[q])' BY <1>2, <1>5, <2>1 DEF JobOK, JobType
  <2>3. file' # job[q].seen
    <3>1. ASSUME file' = job[q].seen PROVE FALSE
      <4>1. PICK n \in 1..spoils : job[q].seen = MalformedIn(kind, n)
        BY <1>3, <2>1, <3>1 DEF JobOK, JobType, Numbered
      <4>2. {n} = {spoils'} BY <1>1, <1>3, <3>1, <4>1, MalformedText DEF FileOK
      <4> QED BY <1>2, <1>4, <4>2
    <3> QED BY <3>1
  <2>4. spoiled' # {} BY <1>2
  <2> QED BY <1>2, <1>3, <2>1, <2>2, <2>3, <2>4 DEF JobOK
<1> QED BY <1>7, <1>8 DEF IInv

LEMMA StepOK ==
  ASSUME IInv, [Next]_vars
  PROVE  IInv'
<1>1. CASE UNCHANGED vars
  <2>1. FileOK' BY <1>1 DEF IInv, FileOK, vars, history, Numbered
  <2>2. ASSUME NEW p \in Procs PROVE JobOK(p, job[p])'
    BY <1>1 DEF IInv, JobOK, JobType, Numbered, vars, history
  <2> QED BY <2>1, <2>2 DEF IInv
<1>2. CASE Spoil BY <1>2, SpoilOK
<1>3. ASSUME NEW p \in Procs,
             \/ BeginRead(p) \/ BeginUpdate(p) \/ Load(p) \/ CorruptBackupPath(p)
             \/ RenameCorruptFile(p) \/ WriteTemp(p) \/ Replace(p) \/ Crash(p)
      PROVE  IInv'
  <2>1. CASE Crash(p) BY <2>1, EndsOK DEF Crash
  <2> QED
    BY <1>3, <2>1, BeginReadOK, BeginUpdateOK, LoadOK, CorruptBackupPathOK, RenameOK,
       WriteTempOK, ReplaceOK
<1> QED BY <1>1, <1>2, <1>3 DEF Next

LEMMA InvHolds == Spec => []IInv
  BY InitOK, StepOK, PTL DEF Spec

-----------------------------------------------------------------------------
(* Texts, jobs and history have their types, and a process that updates    *)
(* holds the lock.                                                         *)
THEOREM TypeCorrect == Spec => []TypeOK
<1>1. ASSUME IInv PROVE TypeOK
  <2>1. FileOK /\ \A p \in Procs : JobOK(p, job[p]) BY <1>1 DEF IInv
  <2>2. \A v : Canonical(v, kind) => DOMAIN v = DOMAIN Defaults(kind)
    BY DEF Canonical, Valued
  <2>3. ASSUME NEW p \in Procs
        PROVE  /\ job[p].pc \in {"idle", "load", "name", "rename", "write", "replace"}
               /\ job[p].update \in BOOLEAN /\ job[p].saving \in BOOLEAN
               /\ job[p].name \in BackupNames \cup {0}
               /\ IsText(job[p].seen) /\ DOMAIN job[p].value = DOMAIN Defaults(kind)
               /\ job[p].update /\ ~At(p, "idle") => lock = p
    BY <2>1, <2>2, InKind DEF JobOK, JobType, At
  <2>4. /\ kind \in Kinds /\ IsText(file) /\ \A n \in BackupNames : IsText(aside[n])
        /\ lock \in Procs \cup {Nobody} /\ overtaken \in BOOLEAN
        /\ updates \in 0..MaxUpdates /\ spoils \in 0..MaxSpoils
        /\ DOMAIN meant = DOMAIN Defaults(kind) /\ \A t \in spoiled : IsText(t)
    BY <2>1, <2>2, InKind DEF FileOK
  <2> QED BY <2>3, <2>4 DEF TypeOK
<1> QED BY <1>1, InvHolds, PTL

(* Without a corrupt file nothing is lost between processes, dead or       *)
(* alive, and with one only where a process replaced what it had not read. *)
THEOREM StoredChangesSurvive == Spec => []ChangesSurvive
<1>1. IInv => ChangesSurvive BY InKind DEF IInv, FileOK, ChangesSurvive, Corrupted
<1> QED BY <1>1, InvHolds, PTL

(* And what was malformed can still be found.                              *)
THEOREM CorruptFilesAreKept == Spec => []CorruptKept
<1>1. IInv => CorruptKept BY DEF IInv, FileOK, CorruptKept
<1> QED BY <1>1, InvHolds, PTL

(* A file of a later version is not written over: who reads it gets no     *)
(* further, and one whose fields this version cannot decode is moved aside *)
(* as it is.                                                               *)
THEOREM NewerFilesAreKept == Spec => NewerKept
<1> DEFINE Kept == \/ file' = file \/ spoils' # spoils
                   \/ /\ ~Decodable(file.doc)
                      /\ \E n \in BackupNames : aside'[n] = file
<1>1. ASSUME IInv, [Next]_vars, FromLater(file)
      PROVE  Kept
  <2>1. \A p \in Procs :
          \/ job[p].pc \in {"idle", "load"}
          \/ job[p].pc \in {"name", "rename"} /\ ~Decodable(file.doc)
    BY <1>1, InKind DEF IInv, JobOK
  <2>2. CASE Spoil
    <3>1. spoils \in Nat BY <1>1, FileStoreAssumption DEF IInv, FileOK
    <3> QED BY <2>2, <3>1 DEF Spoil
  <2>3. ASSUME NEW p \in Procs, RenameCorruptFile(p)
        PROVE  Kept
    <3>1. job[p].pc = "rename" BY <2>3 DEF RenameCorruptFile, At
    <3>2. ~Decodable(file.doc) /\ job[p].name \in BackupNames /\ DOMAIN aside = BackupNames
      BY <1>1, <2>1, <3>1 DEF IInv, FileOK, JobOK
    <3>3. CASE file = Absent BY <2>3, <3>3 DEF RenameCorruptFile
    <3>4. CASE file # Absent
      <4>1. aside' = [aside EXCEPT ![job[p].name] = file] BY <2>3, <3>4 DEF RenameCorruptFile
      <4>2. aside'[job[p].name] = file BY <3>2, <4>1
      <4> QED BY <3>2, <4>2
    <3> QED BY <3>3, <3>4
  <2>4. CASE ~Spoil /\ \A p \in Procs : ~RenameCorruptFile(p)
    BY <1>1, <2>1, <2>4 DEF Next, vars, BeginRead, BeginUpdate, Load, CorruptBackupPath,
       WriteTemp, Replace, Crash, At
  <2> QED BY <2>2, <2>3, <2>4
<1>2. IInv /\ [Next]_vars => [FromLater(file) => Kept]_vars
  BY <1>1
<1> QED BY <1>2, InvHolds, PTL DEF Spec, NewerKept
=============================================================================
