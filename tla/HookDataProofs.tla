--------------------------- MODULE HookDataProofs ---------------------------
(***************************************************************************)
(* Proofs about HookData, for any set of options and whatever else the     *)
(* client does in its scopes: that it implements UnitStorage, and that no  *)
(* change of the configuration is lost or reported twice.                  *)
(***************************************************************************)
EXTENDS HookData, UnitStorageProofs

(* The types of what HookData adds.                                         *)
LEMMA HookTypeInit == HookInit => HookTypeOK
BY DEF HookInit, HookTypeOK

LEMMA HookTypeStep == HookTypeOK /\ [HookNext]_hookVars => HookTypeOK'
<1> SUFFICES ASSUME HookTypeOK, [HookNext]_hookVars PROVE HookTypeOK'
  OBVIOUS
<1>1. CASE Enter
  BY <1>1 DEF Enter, Delta, unit, scope, HookTypeOK
<1>2. CASE ScopeEnds
  <2>1. settled' \in BOOLEAN
    BY <1>2 DEF ScopeEnds, HookTypeOK
  <2>2. QED
    BY <1>2, <2>1 DEF ScopeEnds, End, HookTypeOK
<1>3. CASE ScopeFails \/ ProcessEnds
  BY <1>3 DEF ScopeFails, ProcessEnds, End, HookTypeOK
<1>4. CASE Other
  BY <1>4 DEF Other, unit, scope, HookTypeOK
<1>5. ASSUME NEW k \in Conf, Act(k) PROVE HookTypeOK'
  BY <1>5 DEF Act, scope, HookTypeOK
<1>6. ASSUME NEW k \in Conf, Put(k) PROVE HookTypeOK'
  BY <1>6 DEF Put, unit, HookTypeOK
<1>7. ASSUME NEW k \in Conf, NEW v \in Values \cup {Absent}, Edit(k, v)
      PROVE  HookTypeOK'
  BY <1>7 DEF Edit, scope, HookTypeOK
<1>8. CASE UNCHANGED hookVars
  BY <1>8 DEF hookVars, unit, scope, HookTypeOK
<1>9. QED
  BY <1>1, <1>2, <1>3, <1>4, <1>5, <1>6, <1>7, <1>8 DEF HookNext

(* A row of the configuration is brought up to date, or left alone.         *)
LEMMA PutStep ==
  ASSUME HookTypeOK, NEW k \in Conf, Put(k)
  PROVE  [Next]_vars
<1>1. k \in Keys /\ (conf[k] # Absent => conf[k] \in Values)
  BY ConfAssumption DEF HookTypeOK
<1>2. CASE conf[k] # Absent /\ Set(k, conf[k])
  BY <1>1, <1>2 DEF Next
<1>3. CASE Unset(k)
  BY <1>1, <1>3 DEF Next
<1>4. CASE UNCHANGED vars
  BY <1>4
<1>5. QED
  BY <1>2, <1>3, <1>4 DEF Put

(* A step of HookData is a step of the store or leaves it alone.            *)
LEMMA StorageStep == HookTypeOK /\ [HookNext]_hookVars => [Next]_vars
<1> SUFFICES ASSUME HookTypeOK, [HookNext]_hookVars PROVE [Next]_vars
  OBVIOUS
<1>1. CASE Enter
  BY <1>1 DEF Enter, Next
<1>2. CASE ScopeEnds \/ ScopeFails \/ ProcessEnds
  BY <1>2 DEF ScopeEnds, ScopeFails, ProcessEnds, Next
<1>3. CASE Other
  BY <1>3 DEF Other, Own, Next
<1>4. ASSUME NEW k \in Conf, Act(k) PROVE UNCHANGED vars
  BY <1>4 DEF Act
<1>5. ASSUME NEW k \in Conf, NEW v \in Values \cup {Absent}, Edit(k, v)
      PROVE  UNCHANGED vars
  BY <1>5 DEF Edit
<1>6. CASE UNCHANGED hookVars
  BY <1>6 DEF hookVars
<1>7. QED
  BY <1>1, <1>2, <1>3, <1>4, <1>5, <1>6, PutStep DEF HookNext

(* HookData implements Storage: nothing its scopes do is beyond the store,  *)
(* so what is proved of Storage holds of the executions HookData brackets.  *)
THEOREM Implements == HookSpec => ImplementsStorage
<1>1. HookInit => Init
  BY DEF HookInit
<1>2. QED
  BY <1>1, HookTypeInit, HookTypeStep, StorageStep, PTL
     DEF HookSpec, ImplementsStorage, Spec

-----------------------------------------------------------------------------
(* Changes of the configuration.                                            *)

(* A row that has the value of its option has been acted on, in the scope   *)
(* and on disk: what a rollback can bring back is no exception.             *)
ActedInv ==
  \A k \in Conf : /\ conf[k] = data[k] => applied[k] = conf[k]
                  /\ conf[k] = saved.data[k] => applied[k] = conf[k]

(* Within a scope, the delta is what is not up to date, except for the rows *)
(* brought up to date since, all of them after the whole delta was acted on. *)
DeltaInv ==
  revision # 0 =>
    /\ \A k \in Conf : IF k \in updated THEN data[k] = conf[k]
                       ELSE k \in delta <=> conf[k] # data[k]
    /\ updated # {} => \A k \in delta : applied[k] = conf[k]

(* Once settled, the rows are the configuration, again in both places.      *)
SettledInv ==
  settled => /\ \A k \in Conf : /\ applied[k] = conf[k]
                                /\ data[k] = conf[k]
                                /\ saved.data[k] = conf[k]
             /\ revision # 0 => delta = {}

DeliveryInv == ActedInv /\ DeltaInv /\ SettledInv

(* Steps that leave the rows of the options and the scope as they are.      *)
LEMMA DeliverySame ==
  ASSUME DeliveryInv, UNCHANGED <<unit, scope, revision>>,
         \A k \in Conf : data'[k] = data[k],
         \A k \in Conf : saved'.data[k] \in {saved.data[k], data[k]}
  PROVE  DeliveryInv'
<1>1. UNCHANGED <<conf, applied, settled, delta, updated, revision>>
  BY DEF unit, scope
<1>2. ActedInv'
  BY <1>1 DEF DeliveryInv, ActedInv
<1>3. DeltaInv'
  BY <1>1 DEF DeliveryInv, DeltaInv
<1>4. SettledInv'
  BY <1>1 DEF DeliveryInv, SettledInv
<1>5. QED
  BY <1>2, <1>3, <1>4 DEF DeliveryInv

(* Steps that end the scope with the rows as they are on disk.              *)
LEMMA DeliveryRolledBack ==
  ASSUME DeliveryInv, Rollback, End, revision' = 0, UNCHANGED <<saved, settled>>
  PROVE  DeliveryInv'
<1>1. data' = saved.data /\ UNCHANGED <<conf, applied, saved, settled>>
  BY DEF Rollback, End
<1>2. ActedInv'
  BY <1>1 DEF DeliveryInv, ActedInv
<1>3. DeltaInv'
  BY DEF DeltaInv
<1>4. SettledInv'
  BY <1>1 DEF DeliveryInv, SettledInv
<1>5. QED
  BY <1>2, <1>3, <1>4 DEF DeliveryInv

(* Keys of the client's own are removed.                                    *)
LEMMA DeliveryDelete ==
  ASSUME TypeOK, DeliveryInv, NEW Ks, NEW K, Delete(Ks, K),
         Ks \cap Conf = {}, UNCHANGED <<unit, scope>>
  PROVE  DeliveryInv'
<1>1. \A k \in Conf : data'[k] = data[k]
  BY ConfAssumption DEF Delete
<1>2. UNCHANGED <<saved, revision>>
  BY DEF Delete
<1>3. QED
  BY <1>1, <1>2, DeliverySame

(* A row is brought up to date.                                             *)
LEMMA DeliveryPut ==
  ASSUME "forget" \in Client, TypeOK, HookTypeOK, DeliveryInv,
         NEW k \in Conf, Put(k)
  PROVE  DeliveryInv'
<1>1. /\ revision # 0 /\ k \in Keys
      /\ \A o \in delta : applied[o] = conf[o]
      /\ k \notin updated /\ updated' = updated \cup {k}
      /\ UNCHANGED <<conf, applied, settled, delta>>
  BY ConfAssumption DEF Put, unit
<1>2. UNCHANGED <<saved, revision>>
  BY DEF Put, Set, Unset, Delete
<1>3. data'[k] = conf[k]
  <2>1. CASE conf[k] # Absent /\ Set(k, conf[k])
    BY <1>1, <2>1 DEF Set, TypeOK, Data
  <2>2. CASE conf[k] = Absent /\ Unset(k)
    BY <1>1, <2>2 DEF Unset, Delete
  <2>3. QED
    BY <2>1, <2>2 DEF Put
<1>4. \A q \in Conf : q # k => data'[q] = data[q]
  <2>1. CASE Set(k, conf[k])
    BY <2>1, ConfAssumption DEF Set, TypeOK, Data
  <2>2. CASE Unset(k)
    BY <2>2, ConfAssumption DEF Unset, Delete
  <2>3. QED
    BY <2>1, <2>2 DEF Put
<1>5. applied[k] = conf[k]
  <2>1. CASE k \in delta
    BY <1>1, <2>1
  <2>2. CASE k \notin delta
    BY <1>1, <2>2 DEF DeliveryInv, DeltaInv, ActedInv
  <2>3. QED
    BY <2>1, <2>2
<1>6. ActedInv'
  BY <1>1, <1>2, <1>3, <1>4, <1>5 DEF DeliveryInv, ActedInv
<1>7. DeltaInv'
  <2>1. \A q \in Conf : IF q \in updated' THEN data'[q] = conf[q]
                        ELSE q \in delta <=> conf[q] # data'[q]
    <3>1. SUFFICES ASSUME NEW q \in Conf
                   PROVE  IF q \in updated' THEN data'[q] = conf[q]
                          ELSE q \in delta <=> conf[q] # data'[q]
      OBVIOUS
    <3>2. CASE q = k
      BY <1>1, <1>3, <3>2
    <3>3. CASE q # k
      <4>1. data'[q] = data[q] /\ (q \in updated' <=> q \in updated)
        BY <1>1, <1>4, <3>3
      <4>2. QED
        BY <1>1, <4>1 DEF DeliveryInv, DeltaInv
    <3>4. QED
      BY <3>2, <3>3
  <2>2. QED
    BY <1>1, <1>2, <2>1 DEF DeltaInv
<1>8. SettledInv'
  BY <1>1, <1>2, <1>3, <1>4 DEF DeliveryInv, SettledInv
<1>9. QED
  BY <1>6, <1>7, <1>8 DEF DeliveryInv

(* Every step keeps it, for a client that writes in scopes only and removes *)
(* the row of an option that is gone, and an operator that does not set an  *)
(* option back behind a failed hook.                                        *)
LEMMA DeliveryStep ==
  ASSUME "outside" \notin Client, "back" \notin Client, "forget" \in Client,
         TypeOK, HookTypeOK, HeldInv, DeliveryInv, [HookNext]_hookVars
  PROVE  DeliveryInv'
<1>1. CASE Enter
  <2>1. UNCHANGED <<data, saved, conf, applied, settled>>
    BY <1>1 DEF Enter, HookScope, unit
  <2>2. CASE raised'
    <3>1. UNCHANGED <<unit, scope, revision>>
      BY <1>1, <2>2 DEF Enter, HookScope
    <3>2. QED
      BY <2>1, <3>1, DeliverySame
  <2>3. CASE ~raised'
    <3>1. delta' = Delta /\ updated' = {}
      BY <1>1, <2>3 DEF Enter
    <3>2. ActedInv'
      BY <2>1 DEF DeliveryInv, ActedInv
    <3>3. DeltaInv'
      BY <2>1, <3>1 DEF Delta, DeltaInv
    <3>4. SettledInv'
      BY <2>1, <3>1 DEF Delta, DeliveryInv, SettledInv
    <3>5. QED
      BY <3>2, <3>3, <3>4 DEF DeliveryInv
  <2>4. QED
    BY <2>2, <2>3
<1>2. CASE ScopeEnds
  <2>1. /\ revision # 0 /\ revision' = 0
        /\ saved'.data = data
        /\ UNCHANGED <<data, conf, applied>>
        /\ settled' = (settled \/ updated = Conf)
    BY <1>2 DEF ScopeEnds, Leave, Commit, End, tables
  <2>2. ActedInv'
    BY <2>1 DEF DeliveryInv, ActedInv
  <2>3. DeltaInv'
    BY <2>1 DEF DeltaInv
  <2>4. SettledInv'
    <3>1. CASE settled
      BY <2>1, <3>1 DEF DeliveryInv, SettledInv
    <3>2. CASE updated = Conf
      <4>1. \A k \in Conf : data[k] = conf[k] /\ applied[k] = conf[k]
        BY <2>1, <3>2 DEF DeliveryInv, DeltaInv, ActedInv
      <4>2. QED
        BY <2>1, <4>1 DEF SettledInv
    <3>3. CASE ~settled'
      BY <3>3 DEF SettledInv
    <3>4. QED
      BY <2>1, <3>1, <3>2, <3>3
  <2>5. QED
    BY <2>2, <2>3, <2>4 DEF DeliveryInv
<1>3. CASE ScopeFails \/ ProcessEnds
  BY <1>3, DeliveryRolledBack
     DEF ScopeFails, ProcessEnds, LeaveRaising, Close
<1>4. CASE Other
  <2>1. UNCHANGED <<unit, scope>>
    BY <1>4 DEF Other
  <2>2. ASSUME NEW k \in Own, NEW v \in Values, Set(k, v) PROVE DeliveryInv'
    <3>1. UNCHANGED <<saved, revision>>
      BY <2>2 DEF Set
    <3>2. \A q \in Conf : data'[q] = data[q]
      BY <2>2, ConfAssumption DEF Set, Own, TypeOK, Data
    <3>3. QED
      BY <2>1, <3>1, <3>2, DeliverySame
  <2>3. ASSUME NEW K \in SUBSET Own, Delete(K, K) PROVE DeliveryInv'
    <3>1. K \cap Conf = {}
      BY DEF Own
    <3>2. QED
      BY <2>1, <2>3, <3>1, DeliveryDelete
  <2>4. CASE UnsetPrefix
    <3>1. Prefixed \cap Conf = {} /\ Delete(Prefixed, {Pattern})
      BY <2>4, ConfAssumption DEF UnsetPrefix
    <3>2. QED
      BY <2>1, <3>1, DeliveryDelete
  <2>5. CASE Flush \/ Catch
    <3>1. UNCHANGED <<data, revision>>
      BY <2>5 DEF Flush, Catch, tables
    <3>2. saved' = saved \/ saved'.data = data
      BY <2>5 DEF Flush, Catch, Commit
    <3>3. QED
      BY <2>1, <3>1, <3>2, DeliverySame
  <2>6. ASSUME NEW k \in Own, Unset(k) PROVE DeliveryInv'
    BY <2>3, <2>6 DEF Unset
  <2>7. QED
    BY <1>4, <2>2, <2>3, <2>4, <2>5, <2>6 DEF Other, UnsetRange
<1>5. ASSUME NEW k \in Conf, Act(k) PROVE DeliveryInv'
  <2>1. /\ revision # 0 /\ k \in delta
        /\ applied' = [applied EXCEPT ![k] = conf[k]]
        /\ UNCHANGED <<data, saved, revision, conf, settled, delta, updated>>
    BY <1>5 DEF Act, vars, scope
  <2>2. \A q \in Conf : applied'[q] = IF q = k THEN conf[k] ELSE applied[q]
    BY <2>1 DEF HookTypeOK
  <2>3. ActedInv'
    BY <2>1, <2>2 DEF DeliveryInv, ActedInv
  <2>4. \A q \in delta : q \in Conf
    BY DEF HookTypeOK
  <2>5. DeltaInv'
    BY <2>1, <2>2, <2>4 DEF DeliveryInv, DeltaInv
  <2>6. SettledInv'
    BY <2>1, <2>2 DEF DeliveryInv, SettledInv
  <2>7. QED
    BY <2>3, <2>5, <2>6 DEF DeliveryInv
<1>6. ASSUME NEW k \in Conf, NEW v \in Values \cup {Absent}, Edit(k, v)
      PROVE  DeliveryInv'
  <2>1. /\ revision = 0 /\ ~settled'
        /\ applied[k] = saved.data[k] \/ v # saved.data[k]
        /\ UNCHANGED <<data, saved, revision, applied>>
    BY <1>6 DEF Edit, vars
  <2>2. \A q \in Conf : conf'[q] = IF q = k THEN v ELSE conf[q]
    BY <1>6 DEF Edit, HookTypeOK
  <2>3. data = saved.data
    BY <2>1 DEF HeldInv
  <2>4. ActedInv'
    BY <2>1, <2>2, <2>3 DEF DeliveryInv, ActedInv
  <2>5. DeltaInv' /\ SettledInv'
    BY <2>1 DEF DeltaInv, SettledInv
  <2>6. QED
    BY <2>4, <2>5 DEF DeliveryInv
<1>7. CASE UNCHANGED hookVars
  BY <1>7, DeliverySame DEF hookVars, vars
<1>8. QED
  BY <1>1, <1>2, <1>3, <1>4, <1>5, <1>6, <1>7, DeliveryPut DEF HookNext

LEMMA DeliveryInit == HookInit => DeliveryInv
<1> SUFFICES ASSUME HookInit PROVE DeliveryInv
  OBVIOUS
<1>1. /\ \A k \in Conf : data[k] = Absent /\ applied[k] = Absent
      /\ saved.data = data /\ revision = 0 /\ ~settled
  BY ConfAssumption DEF HookInit, Init
<1>2. QED
  BY <1>1 DEF DeliveryInv, ActedInv, DeltaInv, SettledInv

(* The invariant, with what it rests on.                                    *)
LEMMA DeliveryInvariant ==
  ASSUME "outside" \notin Client, "back" \notin Client, "forget" \in Client
  PROVE  HookSpec => [](TypeOK /\ HookTypeOK /\ HeldInv /\ DeliveryInv)
<1>1. HookInit => Init /\ (Init => HeldInv)
  BY DEF HookInit, Init, HeldInv
<1>2. TypeOK /\ HeldInv /\ [Next]_vars => HeldInv'
  BY HeldStep
<1>3. TypeOK /\ HookTypeOK /\ HeldInv /\ DeliveryInv /\ [HookNext]_hookVars
        => DeliveryInv'
  BY DeliveryStep
<1>4. QED
  BY <1>1, <1>2, <1>3, TypeInit, TypeStep, HookTypeInit, HookTypeStep,
     StorageStep, DeliveryInit, PTL DEF HookSpec

(* No change of the configuration is lost to the client, whatever scopes    *)
(* fail, are flushed half way or die, before it acts on it or after.        *)
THEOREM ChangesAreDelivered ==
  ASSUME "outside" \notin Client, "back" \notin Client, "forget" \in Client
  PROVE  HookSpec => []Delivered
<1>1. HookTypeOK /\ DeliveryInv => Delivered
  <2> SUFFICES ASSUME HookTypeOK, DeliveryInv, settled PROVE applied = conf
    BY DEF Delivered
  <2>1. \A k \in Conf : applied[k] = conf[k]
    BY DEF DeliveryInv, SettledInv
  <2>2. QED
    BY <2>1 DEF HookTypeOK
<1>2. QED
  BY <1>1, DeliveryInvariant, PTL

(* And none is reported again by the scopes after the one that settled it.  *)
THEOREM ChangesAreReportedOnce ==
  ASSUME "outside" \notin Client, "back" \notin Client, "forget" \in Client
  PROVE  HookSpec => []ReportedOnce
<1>1. DeliveryInv => ReportedOnce
  BY DEF DeliveryInv, SettledInv, ReportedOnce
<1>2. QED
  BY <1>1, DeliveryInvariant, PTL
=============================================================================
