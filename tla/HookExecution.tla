--------------------------- MODULE HookExecution ---------------------------
(***************************************************************************)
(* The executions of a charm's hooks as charmhelpers.core.hookenv frames   *)
(* them: Hooks.execute with its exit callbacks, and the Config dictionary  *)
(* that remembers the configuration of the execution before.  Beside them  *)
(* is StoredContext of services/helpers.py, the other file that a hook     *)
(* leaves for the next ones.  What a hook and its callbacks do with all    *)
(* that, in what order, and how it ends is any client's choice; but a      *)
(* client that reads the configuration sends each option that changed()    *)
(* reports to the other units, as the documentation of Config would have   *)
(* it act on them.  The cache of what Juju's tools answered is left out.   *)
(* VscCharm has the same frame around the charm's own hooks, with the      *)
(* dictionary reduced to whether its file can be parsed.                   *)
(*                                                                         *)
(* Juju holds back what a hook sets on a relation until the hook succeeds, *)
(* and shows it a snapshot of the configuration.                           *)
(***************************************************************************)
CONSTANTS
  Options,  \* the options of config.yaml
  Extra,    \* the keys the charm adds to the dictionary
  Values,   \* what the operator and the charm may give them
  None,     \* no value, no such file, Python's None
  Torn,     \* a file whose writing was cut short
  Unread    \* not asked for in this execution

ASSUME KeysAssumption == Options \cap Extra = {}
Keys == Options \cup Extra
Data == [Keys -> Values \cup {None}]

ASSUME ValuesAssumption ==
  /\ None \notin Values /\ Torn \notin Values /\ Unread \notin Values
  /\ None # Torn /\ None # Unread
  /\ None \notin Data /\ Torn \notin Data /\ Unread \notin Data

VARIABLES
  option,  \* the configuration as config-get returns it
  sent,    \* the unit's relation settings as the other units see them
  file,    \* .juju-persistent-config
  pc,      \* where the execution is
  conf,    \* what config() returned
  prev,    \* its _prev_dict
  held,    \* the settings as the hook has set them
  seen,    \* what the last successful hook that asked for it saw and left
  lost,    \* the options a hook saved before it failed or was killed, and no
           \* successful one saw since
  missed,  \* the options whose change such a hook reported, and no successful
           \* one since
  stored,  \* the file of a StoredContext
  got,     \* the StoredContext of this execution
  first    \* that of the first execution that had one

process == <<conf, prev, held>>
history == <<seen, lost, missed>>
context == <<stored, got, first>>
vars    == <<option, sent, file, pc, process, history, context>>

Settings == [Options -> Values \cup {None}]

\* The options that have a value.
Set == {o \in Options : option[o] # None}

TypeOK ==
  /\ option \in Settings
  /\ sent \in Settings
  /\ file \in Data \cup {None, Torn}
  /\ pc \in {"idle", "storing", "body", "atexit", "saving", "saved"}
  /\ conf \in Data \cup {None, Unread}
  /\ prev \in Data \cup {None}
  /\ held \in Settings
  /\ seen \in Data
  /\ lost \subseteq Options
  /\ missed \subseteq Options
  /\ stored \in Values \cup {None, Torn}
  /\ got \in Values \cup {Unread}
  /\ first \in Values \cup {None}
  /\ pc \in {"saving", "saved"} => conf \in Data

Init ==
  /\ option \in Settings
  /\ sent = [o \in Options |-> None]
  /\ file = None
  /\ pc = "idle"
  /\ conf = Unread
  /\ prev = None
  /\ held = sent
  /\ seen = [k \in Keys |-> None]
  /\ lost = {}
  /\ missed = {}
  /\ stored = None
  /\ got = Unread
  /\ first = None

-----------------------------------------------------------------------------
(* The body of a hook.                                                      *)

\* A process starts: its start callbacks, then the hook, all of it body.
Begin ==
  /\ pc = "idle"
  /\ pc' = "body"
  /\ UNCHANGED <<option, sent, file, process, history, context>>

\* The process ends; the next one sees the settings s.
Gone(s) ==
  /\ pc' = "idle"
  /\ conf' = Unread
  /\ prev' = None
  /\ held' = s
  /\ got' = Unread

\* The callbacks added since config() run before its save, those added before
\* it after: they may do what the hook may, and raise.
Running == pc \in {"body", "atexit", "saved"}

Previous(k) == IF prev = None THEN None ELSE prev[k]

\* Mutant: a hook that finds no file finds nothing changed.
ChangedOfKnown(k) == prev # None /\ Previous(k) # conf[k]

Changed(k) == prev = None \/ Previous(k) # conf[k]

\* The options with a value that changed() reports to the hook.
Reported == IF conf \in Data THEN {o \in Set : Changed(o)} ELSE {}

\* What the hook saved is there, though it did not succeed.
Lose ==
  /\ lost' = IF pc = "saved" THEN lost \cup Set ELSE lost
  /\ missed' = IF pc = "saved" THEN missed \cup Reported ELSE missed

\* Mutant: the exit callbacks run however the hook ends.
FailSaving ==
  /\ Running \/ pc = "storing"
  /\ file' = IF conf \in Data THEN conf ELSE file
  /\ Lose
  /\ Gone(sent)
  /\ UNCHANGED <<option, sent, seen, stored, first>>

\* An exception or a non-zero sys.exit, of the hook or a callback: no further
\* callback runs, Juju discards what it held back.
Fail ==
  /\ Running \/ pc = "storing"
  /\ Lose
  /\ Gone(sent)
  /\ UNCHANGED <<option, sent, file, seen, stored, first>>

\* Mutant: load_previous without its loop.
LoadNothing(d) ==
  [k \in Keys |-> IF k \in Options THEN option[k] ELSE None]

\* config-get leaves out the options that have no value; load_previous adds
\* every key of the file that is missing.
Load(d) ==
  [k \in Keys |->
     IF k \in Set THEN option[k]
     ELSE IF d = None THEN None ELSE d[k]]

\* config(), once per execution: the ValueError of a torn file is taken for
\* one of config-get.
ReadConfig ==
  /\ pc = "body" /\ conf = Unread
  /\ \/ /\ file # Torn
        /\ prev' = file
        /\ conf' = Load(file)
     \/ /\ file = Torn
        /\ conf' = None
        /\ UNCHANGED prev
  /\ UNCHANGED <<option, sent, file, pc, held, history, context>>

\* config()[k] = v, before the save.
Store(k, v) ==
  /\ pc \in {"body", "atexit"} /\ conf \in Data
  /\ conf' = [conf EXCEPT ![k] = v]
  /\ UNCHANGED <<option, sent, file, pc, prev, held, history, context>>

\* The client sends an option that changed() reports.  Where relation_set
\* fails, Fail.
RelationSet(o) ==
  /\ pc = "body" /\ o \in Reported
  /\ held' = [held EXCEPT ![o] = conf[o]]
  /\ UNCHANGED <<option, sent, file, pc, conf, prev, history, context>>

-----------------------------------------------------------------------------
(* StoredContext.  Where the file was cut short read_context raises: Fail.  *)

\* Mutant: the file is looked for where it is not written.
GenerateAgain ==
  /\ pc = "body" /\ got = Unread
  /\ pc' = "storing"
  /\ stored' = Torn
  /\ UNCHANGED <<option, sent, file, process, history, got, first>>

\* store_context: open(file_name, 'w') where there is none.
Generate ==
  /\ pc = "body" /\ got = Unread /\ stored = None
  /\ pc' = "storing"
  /\ stored' = Torn
  /\ UNCHANGED <<option, sent, file, process, history, got, first>>

\* The hook has the context of its own making only once it is on disk.
Persist(v) ==
  /\ pc = "storing"
  /\ pc' = "body"
  /\ stored' = v
  /\ got' = v
  /\ first' = IF first = None THEN v ELSE first
  /\ UNCHANGED <<option, sent, file, process, history>>

Recall ==
  /\ pc = "body" /\ got = Unread /\ stored \in Values
  /\ got' = stored
  /\ UNCHANGED <<option, sent, file, pc, process, history, stored, first>>

-----------------------------------------------------------------------------
(* The end of a hook.                                                       *)

\* It returns, or calls sys.exit(0), with every change sent.  Using config()
\* where it was None raises: such a hook fails.
Return ==
  /\ pc = "body"
  /\ \A o \in Reported : held[o] = conf[o]
  /\ pc' = "atexit"
  /\ UNCHANGED <<option, sent, file, process, history, context>>

\* Mutant: the callback is there whether config() was called or not.
OpenAnyway ==
  /\ pc = "atexit"
  /\ pc' = "saving"
  /\ file' = Torn
  /\ UNCHANGED <<option, sent, process, history, context>>

\* save: open(path, 'w') empties the file.  Without a Config, no callback.
Open ==
  /\ pc = "atexit" /\ conf \in Data
  /\ pc' = "saving"
  /\ file' = Torn
  /\ UNCHANGED <<option, sent, process, history, context>>

Write ==
  /\ pc = "saving"
  /\ pc' = "saved"
  /\ file' = conf
  /\ UNCHANGED <<option, sent, process, history, context>>

\* Juju sees the process exit with 0, and sends what it held back.
Succeed ==
  /\ pc = "saved" \/ (pc = "atexit" /\ conf \notin Data)
  /\ sent' = held
  /\ seen' = IF conf \notin Data THEN seen
             ELSE [k \in Keys |-> IF k \in Set
                                  THEN option[k]
                                  ELSE IF k \in Options THEN seen[k]
                                  ELSE conf[k]]
  /\ lost' = IF conf \notin Data THEN lost ELSE lost \ Set
  /\ missed' = missed \ Reported
  /\ Gone(held)
  /\ UNCHANGED <<option, file, stored, first>>

Kill ==
  /\ pc # "idle"
  /\ Lose
  /\ Gone(sent)
  /\ UNCHANGED <<option, sent, file, seen, stored, first>>

\* Between hooks the operator sets an option, or resets it.
Edit(o, v) ==
  /\ pc = "idle"
  /\ option' = [option EXCEPT ![o] = v]
  /\ UNCHANGED <<sent, file, pc, process, history, context>>

Next ==
  \/ Begin
  \/ Fail
  \/ ReadConfig
  \/ \E k \in Extra : \E v \in Values : Store(k, v)
  \/ \E o \in Options : RelationSet(o)
  \/ Generate \/ Recall
  \/ \E v \in Values : Persist(v)
  \/ Return \/ Open \/ Write \/ Succeed
  \/ Kill
  \/ \E o \in Options : \E v \in Values \cup {None} : Edit(o, v)

Spec == Init /\ [][Next]_vars

-----------------------------------------------------------------------------
(* Properties *)

\* changed() compares with the last hook that succeeded, whatever failed or
\* was killed since (hookenv.py:293): it reports an option that has a value
\* exactly if that hook saw another one, in the hook and in its callbacks.
\* What a hook saved before it was killed or a callback raised is excepted.
ChangesReported ==
  conf \in Data
    => \A o \in Set \ lost : Changed(o) <=> option[o] # seen[o]

\* "keys/values that we add are preserved across hooks" (hookenv.py:256): a
\* hook that has the dictionary has every key a successful one left in it.
StoredKept ==
  conf \in Data
    => \A k \in Extra : seen[k] # None => conf[k] # None

\* The other units see every value that a successful hook has seen: Juju
\* discards what a failed hook set, but then the file is not saved, and the
\* retry finds the option changed again.  What a hook had saved when it was
\* killed or a callback raised is excepted: no later hook reports it.
ChangesSent ==
  \A o \in Options \ missed : seen[o] # None => sent[o] = seen[o]

\* A StoredContext "always returns the data that it was first created with"
\* (helpers.py:178), though hooks fail with it and are killed as they make it.
ContextStays == got \in {Unread, first}
=============================================================================
