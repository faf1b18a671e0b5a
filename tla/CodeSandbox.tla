----------------------------- MODULE CodeSandbox -----------------------------
(***************************************************************************)
(* Saving user code.  A save writes the file, tests it in a process of its *)
(* own, loads it into the server and runs the guards on it, in an order    *)
(* that depends on the kind of code; most of what fails is undone.  Saves  *)
(* run on worker threads, one for each file at a time; the loading and the *)
(* guards take a lock, the deletion and the refresh do not.                *)
(*                                                                         *)
(* Every version of every file of a kind defines a class of the same name, *)
(* which is the worst case for the registry by name.                       *)
(***************************************************************************)
EXTENDS Sequences, SequencesExt, FiniteSets

CONSTANTS Files, Good, NoVersion

(* No version, no file and no answer is nothing.                           *)
ASSUME SandboxAssumption ==
  NoVersion \notin {"refused", "probe"} /\ Files \cap {NoVersion, "probe"} = {}
  /\ IsFiniteSet(Files)

Kinds == {"strategy", "factor", "portfolio_strategy"}

(* A version is good, or fails the test, the load or the guards.           *)
Versions == Good \cup {"failing", "unloadable", "blocked"}
Loads(v) == v # "unloadable"

VARIABLES
  kind,       \* of each file
  disk,       \* its version on disk
  live,       \* the version whose class is registered
  registered, \* per kind: _registry_by_key, the files in order of insertion
  byName,     \* per kind: the file whose class _registry has under the name
  modules,    \* sys.modules
  save,       \* the save of each file: where it is, its version and backup
  outcome,    \* what the last save of each file answered
  probing     \* the file whose probe class is registered, under the lock

sandboxVars == <<kind, disk, live, registered, byName, modules, save, outcome, probing>>

NoSave == [at |-> "idle", version |-> NoVersion, backup |-> NoVersion, wasLive |-> NoVersion]
Probe == "probe"

SandboxInit ==
  /\ kind \in [Files -> Kinds]
  /\ disk = [f \in Files |-> NoVersion] /\ live = [f \in Files |-> NoVersion]
  /\ registered = [k \in Kinds |-> <<>>]
  /\ byName = [k \in Kinds |-> NoVersion]
  /\ modules = {}
  /\ save = [f \in Files |-> NoSave]
  /\ outcome = [f \in Files |-> NoVersion]
  /\ probing = NoVersion

Goto(f, place) == save' = [save EXCEPT ![f].at = place]
Answer(f, what) ==
  /\ save' = [save EXCEPT ![f] = NoSave]
  /\ outcome' = [outcome EXCEPT ![f] = what]

(* What the registries hold once f is out of them.                         *)
Without(f) == [registered EXCEPT ![kind[f]] = RemoveFirst(@, f)]
NamesWithout(f) == [byName EXCEPT ![kind[f]] = IF @ = f THEN NoVersion ELSE @]

Unregister(f) ==
  /\ live' = [live EXCEPT ![f] = NoVersion]
  /\ registered' = Without(f)
  /\ byName' = NamesWithout(f)
  /\ modules' = modules \ {f}

(* _reload_code() of the version on disk: unregister, then execute; the    *)
(* module stays in sys.modules when it fails.                              *)
Reload(f, v) ==
  IF v = NoVersion THEN Unregister(f)
  ELSE
    /\ modules' = modules \cup {f}
    /\ live' = [live EXCEPT ![f] = IF Loads(v) THEN v ELSE NoVersion]
    /\ registered' = IF Loads(v) THEN [Without(f) EXCEPT ![kind[f]] = Append(@, f)] ELSE Without(f)
    /\ byName' = IF Loads(v) THEN [byName EXCEPT ![kind[f]] = f] ELSE NamesWithout(f)

Registries == <<live, registered, byName, modules>>

(* save_and_validate_code(), up to the write.                              *)
Write(f, v, overwrite) ==
  /\ save[f] = NoSave /\ (disk[f] = NoVersion \/ overwrite)
  /\ save' = [save EXCEPT ![f] = [at |-> "test", version |-> v, backup |-> disk[f],
                                  wasLive |-> live[f]]]
  /\ outcome' = [outcome EXCEPT ![f] = NoVersion]
  /\ disk' = [disk EXCEPT ![f] = v]
  /\ UNCHANGED <<kind, Registries, probing>>

AfterTest(f) == IF kind[f] = "strategy" THEN "guard" ELSE "load"

TestPasses(f) ==
  /\ save[f].at = "test" /\ save[f].version # "failing"
  /\ Goto(f, AfterTest(f))
  /\ UNCHANGED <<kind, disk, Registries, outcome, probing>>

(* Mutant: the previous version of a factor is not registered again.       *)
RollBackUnregistered(f) ==
  /\ disk' = [disk EXCEPT ![f] = save[f].backup]
  /\ Unregister(f)
  /\ Answer(f, "refused")

(* A factor's failures are handled in one place: out of the registry, the  *)
(* file restored, the previous version registered again.                   *)
RollBack(f) ==
  /\ disk' = [disk EXCEPT ![f] = save[f].backup]
  /\ Reload(f, save[f].backup)
  /\ Answer(f, "refused")

(* The test has the verdict that it failed or took too long.               *)
TestFails(f) ==
  /\ save[f].at = "test"
  /\ IF kind[f] = "factor" THEN probing = NoVersion /\ RollBack(f)
     ELSE /\ disk' = [disk EXCEPT ![f] = save[f].backup]
          /\ Answer(f, "refused")
          /\ UNCHANGED Registries
  /\ UNCHANGED <<kind, probing>>

(* The calls before the test of a strategy, whether there is pytest and    *)
(* what is run without it, are not guarded: the save ends with their       *)
(* timeout, and the file stays.                                            *)
TestRaises(f) ==
  /\ save[f].at = "test" /\ kind[f] = "strategy"
  /\ Answer(f, "raised")
  /\ UNCHANGED <<kind, disk, Registries, probing>>

(* A load that fails is rolled back for a factor and only reported for the *)
(* others.                                                                 *)
Load(f) ==
  /\ save[f].at = "load" /\ probing = NoVersion
  /\ IF Loads(disk[f]) \/ kind[f] # "factor"
     THEN /\ Reload(f, disk[f])
          /\ UNCHANGED disk
          /\ IF ~Loads(disk[f]) THEN Answer(f, "not loaded")
             ELSE IF kind[f] = "strategy" THEN Answer(f, "saved")
             ELSE Goto(f, "guard") /\ UNCHANGED outcome
     ELSE RollBack(f)
  /\ UNCHANGED <<kind, probing>>

(* _run_guards(): the probe class takes the name for as long as it runs.   *)
StartGuards(f) ==
  /\ save[f].at = "guard" /\ probing = NoVersion
  /\ probing' = f
  /\ byName' = [byName EXCEPT ![kind[f]] = IF Loads(disk[f]) THEN Probe ELSE @]
  /\ Goto(f, "guarded")
  /\ UNCHANGED <<kind, disk, live, registered, modules, outcome>>

(* Mutant: the name goes back to the first class that has it.              *)
RestoredNameFirst(k) ==
  IF byName[k] \in Files THEN byName[k]
  ELSE IF registered[k] = <<>> THEN NoVersion ELSE Head(registered[k])

(* drop_probe_module(): the name goes back to the last class that has it.  *)
RestoredName(k) ==
  IF byName[k] \in Files THEN byName[k]
  ELSE IF registered[k] = <<>> THEN NoVersion ELSE Last(registered[k])

GuardsBlock(f) == disk[f] \notin Good

EndGuards(f) ==
  /\ save[f].at = "guarded"
  /\ probing' = NoVersion
  /\ byName' = [byName EXCEPT ![kind[f]] = RestoredName(kind[f])]
  /\ UNCHANGED <<kind, live, registered, modules>>
  /\ \/ ~GuardsBlock(f) /\ kind[f] = "strategy" /\ Goto(f, "load") /\ UNCHANGED <<disk, outcome>>
     \/ ~GuardsBlock(f) /\ kind[f] # "strategy" /\ Answer(f, "saved") /\ UNCHANGED disk
     \/ GuardsBlock(f) /\ Goto(f, "undo") /\ UNCHANGED <<disk, outcome>>

(* The file first, then the registry, which a strategy is not in yet.      *)
UndoBlocked(f) ==
  /\ save[f].at = "undo"
  /\ disk' = [disk EXCEPT ![f] = save[f].backup]
  /\ \/ kind[f] = "strategy" /\ UNCHANGED Registries /\ Answer(f, "refused")
     \/ /\ kind[f] # "strategy" /\ probing = NoVersion
        /\ Reload(f, save[f].backup)
        /\ Answer(f, IF save[f].backup # NoVersion /\ ~Loads(save[f].backup) THEN "not loaded"
                     ELSE "refused")
  /\ UNCHANGED <<kind, probing>>

(* The disk refuses the roll-back: the new version stays, or half of the   *)
(* old one.  A factor that failed is out of the registry by then; after    *)
(* the guards the blocked class stays registered.                          *)
RollBackFails(f) ==
  /\ disk' \in IF save[f].backup = NoVersion THEN {disk}
               ELSE {disk, [disk EXCEPT ![f] = "unloadable"]}
  /\ Answer(f, "not undone")
  /\ \/ save[f].at = "test" /\ kind[f] # "factor" /\ UNCHANGED Registries
     \/ save[f].at = "undo" /\ UNCHANGED Registries
     \/ /\ kind[f] = "factor" /\ Unregister(f)
        /\ \/ save[f].at = "test"
           \/ save[f].at = "load" /\ probing = NoVersion /\ ~Loads(disk[f])
  /\ UNCHANGED <<kind, probing>>

(* delete_file()                                                           *)
Delete(f) ==
  /\ save[f] = NoSave /\ disk[f] # NoVersion
  /\ Unregister(f)
  /\ disk' = [disk EXCEPT ![f] = NoVersion]
  /\ UNCHANGED <<kind, save, outcome, probing>>

(* The file is changed in an editor.                                       *)
Edit(f, v) ==
  /\ save[f] = NoSave /\ disk[f] # v
  /\ disk' = [disk EXCEPT ![f] = v]
  /\ UNCHANGED <<kind, Registries, save, outcome, probing>>

(* The loaders: every file that is not in sys.modules, in order.  What     *)
(* fails stays there, but for the strategies: the import system loads them.*)
LoadAll(loaded) ==
  LET fresh == {f \in Files \ loaded : disk[f] # NoVersion}
      ok == {f \in fresh : Loads(disk[f])}
      Orders(k) == SetToSeqs({f \in ok : kind[f] = k}) IN
    /\ modules' = loaded \cup {f \in fresh : kind[f] # "strategy" \/ f \in ok}
    /\ live' = [f \in Files |-> IF f \in ok THEN disk[f] ELSE NoVersion]
    /\ registered' \in [Kinds -> UNION {Orders(k) : k \in Kinds}]
    /\ \A k \in Kinds : registered'[k] \in Orders(k)
    /\ byName' = [k \in Kinds |-> IF registered'[k] = <<>> THEN NoVersion ELSE Last(registered'[k])]

(* refresh_registries(): the modules of registered classes leave           *)
(* sys.modules, and only those.                                            *)
Refresh ==
  /\ \A f \in Files : save[f] = NoSave
  /\ LoadAll(modules \ {f \in Files : live[f] # NoVersion})
  /\ UNCHANGED <<kind, disk, save, outcome, probing>>

SandboxRestart ==
  /\ LoadAll({})
  /\ save' = [f \in Files |-> NoSave]
  /\ outcome' = [f \in Files |-> NoVersion]
  /\ probing' = NoVersion
  /\ UNCHANGED <<kind, disk>>

SandboxNext ==
  \/ Refresh \/ SandboxRestart
  \/ \E f \in Files :
       \/ TestPasses(f) \/ TestFails(f) \/ TestRaises(f) \/ Load(f) \/ StartGuards(f)
       \/ EndGuards(f) \/ UndoBlocked(f) \/ RollBackFails(f) \/ Delete(f)
       \/ \E v \in Versions : Edit(f, v) \/ \E overwrite \in BOOLEAN : Write(f, v, overwrite)

SandboxSpec == SandboxInit /\ [][SandboxNext]_sandboxVars

(* A save that ends as refused, by the verdict of its test or its guards   *)
(* or, for a factor, by its load, leaves no trace: the file and the        *)
(* registered class are the ones that were there, if they were the same.   *)
(* Not refused in this sense are the saves whose answer tells of a file    *)
(* that was not loaded or not restored, and those that end in an           *)
(* exception: the code undoes none of them.                                *)
LeavesNoTrace(f) ==
  outcome'[f] = "refused" /\ outcome[f] # "refused" /\ save[f].backup = save[f].wasLive
    => disk'[f] = save[f].backup /\ live'[f] = save[f].backup
RefusedSavesLeaveNoTrace == [][\A f \in Files : LeavesNoTrace(f)]_sandboxVars

(* When no probe is registered, a name stands for a class that is loaded,  *)
(* and for the last one that was loaded, whatever probes took the name     *)
(* away and gave it back meanwhile.                                        *)
NamesResolveToLatest ==
  probing = NoVersion =>
    \A k \in Kinds \ {"strategy"} :
      byName[k] # NoVersion => registered[k] # <<>> /\ byName[k] = Last(registered[k])
=============================================================================
