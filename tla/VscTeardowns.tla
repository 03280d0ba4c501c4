---------------------------- MODULE VscTeardowns ----------------------------
(***************************************************************************)
(* VscCharm with a count of how often config-changed has stopped a running *)
(* VM since the operator last edited the configuration.  The count is of   *)
(* the history only: every behavior of VscCharm has one here.              *)
(***************************************************************************)
EXTENDS VscCharm, FiniteSets

VARIABLE stops

countVars == <<vars, stops>>

\* stop() is called by config-changed, hooks.py:128-129.
TearsDown == pc = "teardown" /\ pc' = "stopping"

\* The count goes no further than the first teardown too many.
MaxStops == Cardinality(SeqElems(VmOptions)) + 1

Count == stops' = IF edits' # edits THEN 0
                  ELSE IF TearsDown /\ stops < MaxStops THEN stops + 1
                  ELSE stops

CountSpec == Init /\ stops = 0 /\ [][Next /\ Count]_countVars

FairCountSpec == CountSpec /\ Fairness

\* The options of the test have values whenever config-changed compares them:
\* it gives up without the required ones, and the others have defaults
\* (hooks.py:75-103, config.yaml).
OptionsGiven ==
  \A o \in SeqElems(VmOptions) \ Required :
    Defaults[o] # None /\ None \notin Values[o]

\* Edits apart, the VM is torn down at most once for each option, however often
\* Juju runs config-changed after upgrades, and wherever the hook fails, is
\* killed, skipped or retried: whatever it goes on to do, each teardown has
\* recorded one more option for good.
TeardownsBounded ==
  OptionsGiven => stops < MaxStops
=============================================================================
