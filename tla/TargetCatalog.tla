---------------------------- MODULE TargetCatalog ----------------------------
(***************************************************************************)
(* Target services (src/internal/domain/firewall.go): names that stand for *)
(* domains, IPv4 ranges and other names.  Presets are built in; the user's *)
(* own are kept in a catalog, a function from the defined names.           *)
(* A definition and a list of selectors have the same shape,               *)
(* [services, domains, ranges]; an address or a CIDR is a range.           *)
(***************************************************************************)
CONSTANTS
  Builtin,      \* the presets: a function from their names to definitions
  CustomNames,  \* the names a user may define
  Domains,
  Ranges,       \* pairs <<lowest, highest>> of addresses
  Family        \* root domain |-> the preset it stands for

Names == CustomNames \cup DOMAIN Builtin
Definition == [services : SUBSET Names, domains : SUBSET Domains,
               ranges : SUBSET Ranges]
NoSelectors == [services |-> {}, domains |-> {}, ranges |-> {}]

ASSUME BuiltinAssumption ==
  /\ CustomNames \cap DOMAIN Builtin = {}
  /\ \A n \in DOMAIN Builtin : Builtin[n] \in Definition
  /\ \A n \in DOMAIN Builtin : Builtin[n].services \subseteq DOMAIN Builtin
ASSUME FamilyAssumption ==
  /\ DOMAIN Family \subseteq Domains
  /\ \A d \in DOMAIN Family : Family[d] \in DOMAIN Builtin

EmptyCatalog == [n \in {} |-> NoSelectors]

Registry(catalog) ==
  [n \in DOMAIN catalog \cup DOMAIN Builtin |->
     IF n \in DOMAIN Builtin THEN Builtin[n] ELSE catalog[n]]

-----------------------------------------------------------------------------
(* Names included, directly or not.  The code walks depth first and never  *)
(* enters a name twice on one path: it visits the smallest closed set.     *)
ClosedUnder(S, registry) ==
  \A n \in S \cap DOMAIN registry : registry[n].services \subseteq S

Reachable(roots, registry) ==
  LET closed == {S \in SUBSET Names : roots \subseteq S /\ ClosedUnder(S, registry)}
  IN  IF ClosedUnder(roots, registry) THEN roots
      ELSE {n \in Names : \A S \in closed : n \in S}

References(roots, catalog, name) == name \in Reachable(roots, catalog)

(* The domains and ranges a list of selectors stands for: those of every   *)
(* service it reaches and its own.  A root domain of a known family stands *)
(* for the preset's domains.                                               *)
Expand(catalog, selectors) ==
  LET registry == Registry(catalog)
      Definitions(names) == {registry[n] : n \in Reachable(names, registry) \cap DOMAIN registry}
      families == {Family[d] : d \in selectors.domains \cap DOMAIN Family}
      services == Definitions(selectors.services)
  IN  [domains |-> (UNION {def.domains : def \in services \cup Definitions(families)})
                   \cup (selectors.domains \ DOMAIN Family),
       ranges  |-> (UNION {def.ranges : def \in services}) \cup selectors.ranges]

NothingExpanded == [domains |-> {}, ranges |-> {}]

-----------------------------------------------------------------------------
(* What the parsers accept.                                                *)
ParseTargets(selectors, catalog) ==
  selectors.services \subseteq DOMAIN Registry(catalog)

(* Every name a definition uses is defined; and no set of names goes round *)
(* in a circle: each has a member that uses none of the set.               *)
CatalogIsClosed(catalog) ==
  \A n \in DOMAIN catalog :
     catalog[n].services \subseteq DOMAIN Registry(catalog)

CatalogIsAcyclic(catalog) ==
  \A S \in (SUBSET (DOMAIN catalog)) \ {{}} :
     \E n \in S : catalog[n].services \cap S = {}

\* Mutant: a name is only checked not to use itself.
NoSelfReference(catalog) == \A n \in DOMAIN catalog : n \notin catalog[n].services

ValidateCatalog(catalog) == CatalogIsClosed(catalog) /\ CatalogIsAcyclic(catalog)

Define(catalog, name, definition) ==
  [n \in DOMAIN catalog \cup {name} |->
     IF n = name THEN definition ELSE catalog[n]]

Undefine(catalog, name) == [n \in DOMAIN catalog \ {name} |-> catalog[n]]

\* Mutant: a preset's name may be given to another definition.
ParseAnyDefinition(name, selectors, catalog) ==
  /\ ParseTargets(selectors, catalog)
  /\ name \notin selectors.services
  /\ selectors # NoSelectors
  /\ ValidateCatalog(Define(catalog, name, selectors))

ParseTargetDefinition(name, selectors, catalog) ==
  /\ name \notin DOMAIN Builtin
  /\ ParseTargets(selectors, catalog)
  /\ name \notin selectors.services
  /\ selectors # NoSelectors
  /\ ValidateCatalog(Define(catalog, name, selectors))
=============================================================================
