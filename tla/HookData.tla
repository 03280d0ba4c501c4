------------------------------ MODULE HookData ------------------------------
(***************************************************************************)
(* charmhelpers.core.unitdata.HookData: each hook execution is a hook_scope *)
(* of the store, and is given the delta between the unit's configuration   *)
(* and the rows with prefix "config", which the client brings up to date   *)
(* with update once it has acted on the delta.                             *)
(*                                                                         *)
(* The client acts on the world, which no rollback undoes.  It writes what *)
(* it likes to keys of its own; among those are the rows that HookData     *)
(* sets by itself (env, unit, relid, charm_revisions).                     *)
(***************************************************************************)
EXTENDS UnitStorage

CONSTANT Conf  \* the rows with prefix "config", one for each option

ASSUME ConfAssumption ==
  /\ Conf \subseteq Keys
  /\ Conf \cap Prefixed = {}

VARIABLES
  conf,     \* the configuration, Absent for an option that has no value
  applied,  \* what the client has last acted on
  delta,    \* the options in the DeltaSet of this scope
  updated,  \* those whose rows it has brought up to date
  settled   \* a scope has ended that did so for all, and conf is as it was

unit  == <<conf, applied, settled>>
scope == <<delta, updated>>
hookVars == <<vars, unit, scope>>

Own == Keys \ Conf

HookTypeOK ==
  /\ conf \in [Conf -> Values \cup {Absent}]
  /\ applied \in [Conf -> Values \cup {Absent}]
  /\ delta \subseteq Conf /\ updated \subseteq Conf
  /\ settled \in BOOLEAN

-----------------------------------------------------------------------------
\* Mutant: only the options that have a row are compared.
DeltaOfKnown == {k \in Conf : data[k] # Absent /\ conf[k] # data[k]}

\* Storage.delta: added, removed or changed with respect to getrange.
Delta == {k \in Conf : conf[k] # data[k]}

\* __call__ opens the scope, and _record_hook takes the delta.
Enter ==
  /\ HookScope
  /\ IF raised' THEN UNCHANGED scope ELSE delta' = Delta /\ updated' = {}
  /\ UNCHANGED unit

\* The client acts on one change.
Act(k) ==
  /\ revision # 0 /\ ~raised
  /\ k \in delta /\ applied[k] # conf[k]
  /\ applied' = [applied EXCEPT ![k] = conf[k]]
  /\ UNCHANGED <<vars, conf, settled, scope>>

\* Mutant: update leaves out its prefix, and writes other rows.
PutUnprefixed(k) ==
  /\ revision # 0 /\ ~raised
  /\ \A o \in delta : applied[o] = conf[o]
  /\ k \notin updated
  /\ updated' = updated \cup {k}
  /\ UNCHANGED <<vars, unit, delta>>

\* update(conf, "config"), one row of it.  It leaves the row of an option that
\* is gone: to have it removed is up to the client.
Put(k) ==
  /\ revision # 0 /\ ~raised
  /\ \A o \in delta : applied[o] = conf[o]
  /\ k \notin updated
  /\ updated' = updated \cup {k}
  /\ \/ conf[k] # Absent /\ Set(k, conf[k])
     \/ conf[k] = Absent /\ "forget" \in Client /\ Unset(k)
     \/ conf[k] = Absent /\ "forget" \notin Client /\ UNCHANGED vars
  /\ UNCHANGED <<unit, delta>>

\* What the client does with its own keys, flushes and catches.
Other ==
  /\ \/ \E k \in Own : Unset(k) \/ \E v \in Values : Set(k, v)
     \/ \E K \in SUBSET Own : UnsetRange(K)
     \/ UnsetPrefix
     \/ Flush \/ Catch
  /\ UNCHANGED <<unit, scope>>

End == delta' = {} /\ updated' = {} /\ UNCHANGED <<conf, applied>>

ScopeEnds ==
  /\ Leave
  /\ settled' = (settled \/ updated = Conf)
  /\ End

ScopeFails == LeaveRaising /\ End /\ UNCHANGED settled

\* Mutant: close() commits.
ProcessEndsSaving ==
  /\ Commit
  /\ UNCHANGED tables
  /\ revision' = 0
  /\ raised' = FALSE
  /\ End /\ UNCHANGED settled

ProcessEnds == Close /\ End /\ UNCHANGED settled

\* juju config, between hooks.
Edit(k, v) ==
  /\ revision = 0
  /\ v # conf[k]
  /\ "back" \in Client \/ applied[k] = saved.data[k] \/ v # saved.data[k]
  /\ conf' = [conf EXCEPT ![k] = v]
  /\ settled' = FALSE
  /\ UNCHANGED <<vars, applied, scope>>

HookInit ==
  /\ Init
  /\ conf \in [Conf -> Values \cup {Absent}]
  /\ applied = [k \in Conf |-> Absent]
  /\ delta = {} /\ updated = {}
  /\ settled = FALSE

HookNext ==
  \/ Enter \/ ScopeEnds \/ ScopeFails \/ ProcessEnds \/ Other
  \/ \E k \in Conf : Act(k) \/ Put(k)
  \/ \E k \in Conf : \E v \in Values \cup {Absent} : Edit(k, v)

HookSpec == HookInit /\ [][HookNext]_hookVars

-----------------------------------------------------------------------------
(* Properties *)

\* Nothing the scopes of HookData do is beyond Storage: what is checked and
\* proved of it holds of them.
ImplementsStorage == Spec

\* Once a scope that brought the rows up to date has been committed, what the
\* client has acted on is the configuration: no change is lost to a scope that
\* failed, was flushed half way or died after it had acted or written rows.
Delivered == settled => applied = conf

\* And the scopes that follow are not given the same change again.
ReportedOnce == settled /\ revision # 0 => delta = {}
=============================================================================
