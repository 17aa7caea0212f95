------------------------------- MODULE FileStore -------------------------------
(***************************************************************************)
(* One JSON file of the store (src/internal/store): settings.json,         *)
(* state.json or subscriptions.json.  Operations under the write lock load *)
(* it, change it and save it; Status and other readers load it without the *)
(* lock.  A save writes a temporary file and renames it over the old one.  *)
(* A load that meets a malformed file sets it aside and writes defaults in *)
(* its place, and this a reader does too.  Other programs may leave the    *)
(* file malformed.                                                         *)
(***************************************************************************)
EXTENDS StoreCodec, FiniteSets

CONSTANTS
  Procs,       \* processes
  Stored,      \* for each kind, documents that earlier versions or users wrote
  BackupNames, \* names that corruptBackupPath can give
  MaxUpdates,  \* bound: updates begun
  MaxSpoils,   \* bound: times another program leaves the file malformed
  Faults,      \* subset of {"disk", "crash"}
  Nobody

ASSUME FileStoreAssumption ==
  /\ Nobody \notin Procs /\ MaxUpdates \in Nat /\ MaxSpoils \in Nat
  /\ \A k \in Kinds : \A d \in Stored[k] : DOMAIN d = DOMAIN Blank(Defaults(k))

VARIABLES
  kind,      \* which of the files
  file,      \* the text at its path
  aside,     \* the texts set aside, by name
  lock,      \* who holds the write lock
  job,       \* what each process is doing
  updates, spoils,
  meant,     \* history: what the file is to mean, by saves and corruptions
  spoiled,   \* history: malformed texts there were
  overtaken  \* history: a file was replaced that is not the one read

vars == <<kind, file, aside, lock, job, updates, spoils, meant, spoiled, overtaken>>
history == <<meant, spoiled, overtaken>>

Text(form, d) == [form |-> form, doc |-> d]
Empty         == Blank(Defaults(kind))
Absent        == Text("absent", Empty)
Malformed(n)  == Text("malformed", [Empty EXCEPT !.schema = {n}])
JSON(v)       == Text("json", Document(kind, v))

(* What reading a text comes to.                                           *)
Outcome(t) ==
  CASE t.form = "absent" -> "absent"
    [] t.form = "malformed" -> "corrupt"
    [] t.form = "json" /\ Newer(kind, t.doc) -> "newer"
    [] t.form = "json" /\ ~Newer(kind, t.doc) ->
         IF Acceptable(kind, t.doc) THEN "ok" ELSE "corrupt"

Recoverable == kind # "subscriptions"

(* What a load returns: of no use where it is an error.                    *)
Meaning(t) ==
  CASE Outcome(t) = "ok" -> Decode(kind, t.doc)
    [] Outcome(t) # "ok" -> Defaults(kind)

Idle(v) == [pc |-> "idle", update |-> FALSE, seen |-> Absent, name |-> 0,
            value |-> v, saving |-> FALSE]

Init ==
  /\ kind \in Kinds
  /\ file \in {Absent} \cup {Text("json", d) : d \in Stored[kind]}
  /\ aside = [n \in BackupNames |-> Absent] /\ lock = Nobody
  /\ job = [p \in Procs |-> Idle(Defaults(kind))]
  /\ updates = 0 /\ spoils = 0
  /\ meant = Meaning(file) /\ overtaken = FALSE
  /\ spoiled = IF Outcome(file) = "corrupt" THEN {file} ELSE {}

-----------------------------------------------------------------------------
At(p, pc)  == job[p].pc = pc
Step(p, j) == job' = [job EXCEPT ![p] = j]

(* The operation is over, with or without an error.                        *)
Ends(p) ==
  /\ Step(p, Idle(Defaults(kind)))
  /\ lock' = IF lock = p THEN Nobody ELSE lock

BeginRead(p) ==
  /\ At(p, "idle") /\ Step(p, [job[p] EXCEPT !.pc = "load"])
  /\ UNCHANGED <<kind, file, aside, lock, updates, spoils, history>>

\* Mutant: updates do not wait for each other.
BeginUnlocked(p) ==
  /\ At(p, "idle") /\ updates < MaxUpdates
  /\ updates' = updates + 1 /\ Step(p, [job[p] EXCEPT !.pc = "load", !.update = TRUE])
  /\ UNCHANGED <<kind, file, aside, lock, spoils, history>>

BeginUpdate(p) ==
  /\ At(p, "idle") /\ updates < MaxUpdates /\ lock = Nobody
  /\ updates' = updates + 1 /\ Step(p, [job[p] EXCEPT !.pc = "load", !.update = TRUE])
  /\ lock' = p
  /\ UNCHANGED <<kind, file, aside, spoils, history>>

(* The load is done: a reader has what it wants, an update goes on to save *)
(* what it loaded with a change.                                           *)
Loaded(p, j, v) ==
  IF j.update
  THEN /\ \E w \in Changes(kind, v) :
            Step(p, [j EXCEPT !.pc = "write", !.value = w, !.saving = TRUE])
       /\ UNCHANGED lock
  ELSE Ends(p)

Load(p) ==
  /\ At(p, "load")
  /\ LET j == [job[p] EXCEPT !.seen = file]
     IN  CASE Outcome(file) \in {"absent", "ok"} -> Loaded(p, j, Meaning(file))
           [] Outcome(file) = "newer" -> Ends(p)
           [] Outcome(file) = "corrupt" ->
                IF Recoverable THEN Step(p, [j EXCEPT !.pc = "name"]) /\ UNCHANGED lock
                ELSE Ends(p)
  /\ UNCHANGED <<kind, file, aside, updates, spoils, history>>

\* Mutant: any name will do for the backup.
AnyName(p) ==
  /\ At(p, "name")
  /\ \E n \in BackupNames : Step(p, [job[p] EXCEPT !.pc = "rename", !.name = n])
  /\ UNCHANGED <<kind, file, aside, lock, updates, spoils, history>>

(* corruptBackupPath finds a name that nothing has yet.                    *)
CorruptBackupPath(p) ==
  /\ At(p, "name")
  /\ LET free == {n \in BackupNames : aside[n] = Absent}
     IN  IF free = {} THEN Ends(p)
         ELSE /\ \E n \in free : Step(p, [job[p] EXCEPT !.pc = "rename", !.name = n])
              /\ UNCHANGED lock
  /\ UNCHANGED <<kind, file, aside, updates, spoils, history>>

(* renameCorruptFile moves whatever is at the path now; when chmod fails   *)
(* the path stays without a file.                                          *)
RenameCorruptFile(p) ==
  /\ At(p, "rename")
  /\ IF file = Absent
     THEN Ends(p) /\ UNCHANGED <<file, aside, overtaken>>
     ELSE /\ file' = Absent /\ aside' = [aside EXCEPT ![job[p].name] = file]
          /\ overtaken' = (overtaken \/ file # job[p].seen)
          /\ \/ /\ Step(p, [job[p] EXCEPT !.pc = "write", !.seen = Absent,
                                          !.value = Defaults(kind)])
                /\ UNCHANGED lock
             \/ "disk" \in Faults /\ Ends(p)
  /\ UNCHANGED <<kind, updates, spoils, meant, spoiled>>

\* Mutant: the file itself is opened and filled.
WriteInPlace(p) ==
  /\ At(p, "write")
  /\ file' = Malformed(0)
  /\ Step(p, [job[p] EXCEPT !.pc = "replace", !.seen = Malformed(0)])
  /\ UNCHANGED <<kind, aside, lock, updates, spoils, history>>

(* atomicWriteFile: the temporary file is written, or that fails.          *)
WriteTemp(p) ==
  /\ At(p, "write")
  /\ \/ Step(p, [job[p] EXCEPT !.pc = "replace"]) /\ UNCHANGED lock
     \/ "disk" \in Faults /\ Ends(p)
  /\ UNCHANGED <<kind, file, aside, updates, spoils, history>>

(* It takes the file's place: a save is over, a recovery goes on as a load *)
(* of defaults.                                                            *)
Replace(p) ==
  /\ At(p, "replace")
  /\ file' = JSON(job[p].value)
  /\ overtaken' = (overtaken \/ file # job[p].seen)
  /\ LET j == [job[p] EXCEPT !.seen = file']
     IN  IF j.saving THEN meant' = j.value /\ Ends(p)
         ELSE Loaded(p, j, Defaults(kind)) /\ UNCHANGED meant
  /\ UNCHANGED <<kind, aside, updates, spoils, spoiled>>

Crash(p) ==
  /\ "crash" \in Faults /\ ~At(p, "idle")
  /\ Ends(p)
  /\ UNCHANGED <<kind, file, aside, updates, spoils, history>>

(* Another program, or a user's editor, leaves a malformed file.           *)
Spoil ==
  /\ spoils < MaxSpoils /\ spoils' = spoils + 1
  /\ file' = Malformed(spoils') /\ spoiled' = (spoiled \ {file}) \cup {file'}
  /\ meant' = Defaults(kind)
  /\ UNCHANGED <<kind, aside, lock, job, updates, overtaken>>

Next ==
  \/ \E p \in Procs :
       \/ BeginRead(p) \/ BeginUpdate(p) \/ Load(p) \/ CorruptBackupPath(p)
       \/ RenameCorruptFile(p) \/ WriteTemp(p) \/ Replace(p) \/ Crash(p)
  \/ Spoil

Spec == Init /\ [][Next]_vars

-----------------------------------------------------------------------------
(* Properties                                                              *)

IsText(t) ==
  t.form \in {"absent", "json", "malformed"} /\ DOMAIN t.doc = DOMAIN Empty

TypeOK ==
  /\ kind \in Kinds /\ IsText(file) /\ \A n \in BackupNames : IsText(aside[n])
  /\ lock \in Procs \cup {Nobody} /\ overtaken \in BOOLEAN
  /\ \A p \in Procs :
       /\ job[p].pc \in {"idle", "load", "name", "rename", "write", "replace"}
       /\ job[p].update \in BOOLEAN /\ job[p].saving \in BOOLEAN
       /\ job[p].name \in BackupNames \cup {0}
       /\ IsText(job[p].seen) /\ DOMAIN job[p].value = DOMAIN Defaults(kind)
       /\ job[p].update /\ ~At(p, "idle") => lock = p
  /\ updates \in 0..MaxUpdates /\ spoils \in 0..MaxSpoils
  /\ DOMAIN meant = DOMAIN Defaults(kind) /\ \A t \in spoiled : IsText(t)

(* A malformed file was there at some time.                                *)
Corrupted == spoiled # {}

(* The file means what the last save made of it, or defaults after it was  *)
(* malformed: whatever else loads, fails or dies, and in whichever schema  *)
(* it was written at first.  Only where a malformed file is being set      *)
(* aside may a process replace a file that is not the one it read.         *)
ChangesSurvive ==
  /\ ~Corrupted => ~overtaken
  /\ ~overtaken => Meaning(file) = meant

(* A malformed file is kept: at its path, where a corrupt                  *)
(* subscriptions.json stays, or beside it, where recovery moves others.    *)
CorruptKept ==
  ~overtaken => \A t \in spoiled : t = file \/ \E n \in BackupNames : aside[n] = t

FromLater(t) == t.form = "json" /\ SchemaOf(t.doc) > Schema(kind)

(* "Future schema versions are not downgraded automatically and remain a   *)
(* hard error" (docs/config.md:71): no load or save of this version        *)
(* replaces such a file.  Only where a later version gave a field another  *)
(* type is the file taken for a malformed one, whatever its schema says,   *)
(* and then it leaves its path as a whole, for a name beside it.           *)
NewerKept ==
  [][FromLater(file) => \/ file' = file \/ spoils' # spoils
                        \/ /\ ~Decodable(file.doc)
                           /\ \E n \in BackupNames : aside'[n] = file]_vars
=============================================================================
