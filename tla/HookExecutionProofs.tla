------------------------ MODULE HookExecutionProofs ------------------------
(***************************************************************************)
(* Proofs about HookExecution, for every set of options, added keys and    *)
(* values: its type invariant; that changed() compares with the last hook  *)
(* that succeeded; that the other units see what it reported; that the     *)
(* keys a charm adds stay; and that a StoredContext does.                  *)
(***************************************************************************)
EXTENDS HookExecution, TLAPS

(* What Load returns is a dictionary.                                       *)
LEMMA LoadType ==
  ASSUME option \in Settings,
         NEW d \in Data \cup {None}
  PROVE  Load(d) \in Data
BY DEF Load, Data, Keys, Set, Settings

(* A step keeps the types.                                                  *)
LEMMA TypeStep == TypeOK /\ [Next]_vars => TypeOK'
<1> SUFFICES ASSUME TypeOK, [Next]_vars PROVE TypeOK'
  OBVIOUS
<1> USE DEF TypeOK, Settings, process, history, context
<1>1. CASE Begin          BY <1>1 DEF Begin
<1>2. CASE Fail           BY <1>2 DEF Fail, Gone, Lose, Set, Reported
<1>3. CASE ReadConfig
  <2>1. CASE file # Torn
    <3>1. Load(file) \in Data
      BY <2>1, LoadType
    <3>2. QED
      BY <1>3, <2>1, <3>1 DEF ReadConfig
  <2>2. CASE file = Torn
    BY <1>3, <2>2 DEF ReadConfig
  <2>3. QED
    BY <2>1, <2>2
<1>4. ASSUME NEW k \in Extra, NEW v \in Values, Store(k, v) PROVE TypeOK'
  <2>1. conf' \in Data
    BY <1>4 DEF Store, Data
  <2>2. QED
    BY <1>4, <2>1 DEF Store
<1>5. ASSUME NEW o \in Options, RelationSet(o) PROVE TypeOK'
  <2>1. conf \in Data /\ conf[o] \in Values \cup {None}
    BY <1>5 DEF RelationSet, Reported, Data, Keys
  <2>2. held' \in [Options -> Values \cup {None}]
    BY <1>5, <2>1 DEF RelationSet
  <2>3. QED
    BY <1>5, <2>2 DEF RelationSet
<1>7. CASE Return         BY <1>7 DEF Return
<1>8. CASE Open           BY <1>8 DEF Open
<1>9. CASE Write          BY <1>9 DEF Write
<1>10. CASE Succeed
  <2>1. seen' \in Data
    BY <1>10 DEF Succeed, Data, Keys, Set
  <2>2. QED
    BY <1>10, <2>1 DEF Succeed, Gone
<1>11. CASE Kill          BY <1>11 DEF Kill, Gone, Lose, Set, Reported
<1>12. ASSUME NEW o \in Options, NEW v \in Values \cup {None}, Edit(o, v)
       PROVE TypeOK'
  BY <1>12 DEF Edit
<1>13. CASE Generate \/ Recall
  BY <1>13 DEF Generate, Recall
<1>14. ASSUME NEW v \in Values, Persist(v) PROVE TypeOK'
  BY <1>14 DEF Persist
<1>15. CASE UNCHANGED vars
  BY <1>15 DEF vars
<1>16. QED
  BY <1>1, <1>2, <1>3, <1>4, <1>5, <1>7, <1>8, <1>9, <1>10, <1>11,
     <1>12, <1>13, <1>14, <1>15 DEF Next

LEMMA TypeInit == Init => TypeOK
BY DEF Init, TypeOK, Data, Keys, Settings

(* Type correctness: whatever a hook asks for, sets and however it ends,    *)
(* the saved configuration is a dictionary, missing or cut short, and a     *)
(* hook that saves has one.                                                 *)
THEOREM TypeCorrect == Spec => []TypeOK
BY TypeInit, TypeStep, PTL DEF Spec

-----------------------------------------------------------------------------
(* The strengthening.  Both properties speak of the dictionary of a running *)
(* hook; what carries them from one hook to the next is the file: unless it *)
(* is cut short, it holds for each option the value the last successful     *)
(* hook saw, except between the save and the end of the process, when it    *)
(* holds the dictionary of the hook that saved.                             *)

Entry(d, k) == IF d = None THEN None ELSE d[k]

Remembers(d) == \A o \in Options \ lost : Entry(d, o) = seen[o]
Keeps(d)     == \A k \in Extra : seen[k] # None => Entry(d, k) # None

FileRemembers == file # Torn /\ pc # "saved" => Remembers(file)
FileKeeps     == file # Torn => Keeps(file)
FileSaved     == pc = "saved" => file = conf
NoneAtRest    == pc = "idle" => conf = Unread
DictLoaded    ==
  conf \in Data =>
    /\ Remembers(prev)
    /\ Keeps(conf)
    /\ \A o \in Options :
         conf[o] = IF o \in Set THEN option[o] ELSE Entry(prev, o)

ConfInv == /\ TypeOK
           /\ FileRemembers /\ FileKeeps /\ FileSaved
           /\ NoneAtRest /\ DictLoaded

LEMMA ConfInit == Init => ConfInv
<1> SUFFICES ASSUME Init PROVE ConfInv
  OBVIOUS
<1>1. TypeOK
  BY TypeInit
<1>2. \A k \in Keys : seen[k] = None
  BY DEF Init
<1>3. FileRemembers /\ FileKeeps
  BY <1>2 DEF Init, FileRemembers, FileKeeps, Remembers, Keeps, Entry, Keys
<1>4. FileSaved /\ NoneAtRest /\ DictLoaded
  BY ValuesAssumption DEF Init, FileSaved, NoneAtRest, DictLoaded
<1>5. QED
  BY <1>1, <1>3, <1>4 DEF ConfInv

(* Steps that touch neither the file nor the dictionary.                    *)
LEMMA ConfUntouched ==
  ASSUME ConfInv, TypeOK',
         UNCHANGED <<option, file, conf, prev, seen, lost>>,
         pc' = "saved" <=> pc = "saved", pc' = "idle" => pc = "idle"
  PROVE  ConfInv'
BY DEF ConfInv, FileRemembers, FileKeeps, FileSaved, NoneAtRest, DictLoaded,
       Remembers, Keeps, Entry, Set

(* The process ends without success, and its file has not been replaced.    *)
LEMMA ConfGone ==
  ASSUME ConfInv, TypeOK', pc # "saved",
         pc' = "idle", conf' = Unread, UNCHANGED <<file, seen, lost>>
  PROVE  ConfInv'
BY ValuesAssumption
   DEF ConfInv, FileRemembers, FileKeeps, FileSaved, NoneAtRest, DictLoaded,
       Remembers, Keeps, Entry

LEMMA ConfRead == ConfInv /\ TypeOK' /\ ReadConfig => ConfInv'
<1> SUFFICES ASSUME ConfInv, TypeOK', ReadConfig PROVE ConfInv'
  OBVIOUS
<1> USE DEF ConfInv
<1>1. /\ UNCHANGED <<option, file, pc, seen, lost>>
      /\ pc = "body"
  BY DEF ReadConfig, history
<1>2. FileRemembers' /\ FileKeeps' /\ FileSaved' /\ NoneAtRest'
  BY <1>1 DEF FileRemembers, FileKeeps, FileSaved, NoneAtRest, Remembers, Keeps,
              Entry
<1>3. DictLoaded'
  <2>1. CASE file = Torn
    <3>1. conf' \notin Data
      BY <2>1, ValuesAssumption DEF ReadConfig
    <3>2. QED
      BY <3>1 DEF DictLoaded
  <2>2. CASE file # Torn
    <3>1. prev' = file /\ conf' = Load(file)
      BY <2>2 DEF ReadConfig
    <3>2. Remembers(prev)'
      BY <1>1, <2>2, <3>1 DEF FileRemembers, Remembers, Entry
    <3>3. Keeps(conf)'
      <4>1. Keeps(file)
        BY <2>2 DEF FileKeeps
      <4>2. conf' # None
        BY <2>2, <3>1, LoadType, ValuesAssumption DEF TypeOK
      <4>3. \A k \in Extra : conf'[k] = Entry(file, k)
        BY <3>1, KeysAssumption DEF Load, Set, Keys, Entry
      <4>4. QED
        BY <1>1, <4>1, <4>2, <4>3 DEF Keeps, Entry
    <3>4. \A o \in Options :
            conf'[o] = IF o \in Set' THEN option'[o] ELSE Entry(prev', o)
      BY <1>1, <3>1 DEF Load, Set, Keys, Entry
    <3>5. QED
      BY <3>2, <3>3, <3>4 DEF DictLoaded, Entry
  <2>3. QED
    BY <2>1, <2>2
<1>4. QED
  BY <1>2, <1>3

LEMMA ConfStore ==
  ASSUME ConfInv, TypeOK', NEW k \in Extra, NEW v \in Values, Store(k, v)
  PROVE  ConfInv'
<1> USE DEF ConfInv
<1>1. /\ UNCHANGED <<option, file, pc, prev, seen, lost>>
      /\ pc \in {"body", "atexit"} /\ conf \in Data
      /\ conf' = [conf EXCEPT ![k] = v]
  BY DEF Store, history
<1>2. FileRemembers' /\ FileKeeps' /\ FileSaved' /\ NoneAtRest'
  BY <1>1 DEF FileRemembers, FileKeeps, FileSaved, NoneAtRest, Remembers, Keeps,
              Entry
<1>3. conf' \in Data /\ conf # None /\ conf' # None
  BY <1>1, ValuesAssumption DEF Data
<1>4. Keeps(conf)'
  <2>1. \A j \in Extra : conf'[j] = IF j = k THEN v ELSE conf[j]
    BY <1>1 DEF Data, Keys
  <2>2. QED
    BY <1>1, <1>3, <2>1, ValuesAssumption DEF DictLoaded, Keeps, Entry
<1>5. \A o \in Options : conf'[o] = conf[o]
  BY <1>1, KeysAssumption DEF Data, Keys
<1>6. DictLoaded'
  BY <1>1, <1>4, <1>5 DEF DictLoaded, Remembers, Entry, Set
<1>7. QED
  BY <1>2, <1>6

(* What was saved holds, for the options that have no value now, what the   *)
(* dictionary took from the file before.                                    *)
LEMMA SavedEntry ==
  ASSUME ConfInv, pc = "saved"
  PROVE  /\ conf \in Data /\ file = conf /\ file # None
         /\ \A o \in Options : file[o] = IF o \in Set THEN option[o]
                                                      ELSE Entry(prev, o)
         /\ Remembers(prev)
BY ValuesAssumption DEF ConfInv, TypeOK, FileSaved, DictLoaded

LEMMA ConfSucceed == ConfInv /\ TypeOK' /\ Succeed => ConfInv'
<1> SUFFICES ASSUME ConfInv, TypeOK', Succeed PROVE ConfInv'
  OBVIOUS
<1>1. CASE conf \notin Data
  <2>1. pc # "saved"
    BY <1>1 DEF ConfInv, TypeOK
  <2>2. QED
    BY <1>1, <2>1, ConfGone DEF Succeed, Gone
<1>2. CASE conf \in Data
  <2>1. /\ pc = "saved" /\ pc' = "idle" /\ conf' = Unread
        /\ UNCHANGED <<option, file>>
        /\ lost' = lost \ Set
    BY <1>2 DEF Succeed, Gone
  <2>2. /\ \A o \in Options : seen'[o] = IF o \in Set THEN option[o] ELSE seen[o]
        /\ \A k \in Extra : seen'[k] = conf[k]
    BY <1>2, KeysAssumption DEF Succeed, Keys, Set
  <2>3. FileRemembers'
    BY <2>1, <2>2, SavedEntry DEF FileRemembers, Remembers, Entry
  <2>4. FileKeeps'
    BY <2>1, <2>2, SavedEntry DEF FileKeeps, Keeps, Entry
  <2>5. FileSaved' /\ NoneAtRest' /\ DictLoaded'
    BY <2>1, ValuesAssumption DEF FileSaved, NoneAtRest, DictLoaded
  <2>6. QED
    BY <2>3, <2>4, <2>5 DEF ConfInv
<1>3. QED
  BY <1>1, <1>2

(* The process ends without success.                                        *)
LEMMA ConfKill ==
  ASSUME ConfInv, TypeOK', Fail \/ Kill
  PROVE  ConfInv'
<1>1. CASE pc # "saved"
  BY <1>1, ConfGone DEF Fail, Kill, Gone, Lose
<1>2. CASE pc = "saved"
  <2>1. /\ pc' = "idle" /\ conf' = Unread
        /\ UNCHANGED <<option, file, seen>>
        /\ lost' = lost \cup Set
    BY <1>2 DEF Fail, Kill, Gone, Lose
  <2>2. FileRemembers'
    BY <1>2, <2>1, SavedEntry DEF FileRemembers, Remembers, Entry
  <2>3. FileKeeps' /\ FileSaved' /\ NoneAtRest' /\ DictLoaded'
    BY <2>1, ValuesAssumption
       DEF ConfInv, FileKeeps, Keeps, Entry, FileSaved, NoneAtRest, DictLoaded
  <2>4. QED
    BY <2>2, <2>3 DEF ConfInv
<1>3. QED
  BY <1>1, <1>2

LEMMA ConfStep == ConfInv /\ [Next]_vars => ConfInv'
<1> SUFFICES ASSUME ConfInv, [Next]_vars PROVE ConfInv'
  OBVIOUS
<1>0. TypeOK'
  BY TypeStep DEF ConfInv
<1>1. CASE Begin
  <2>1. conf = Unread
    BY <1>1 DEF Begin, ConfInv, NoneAtRest
  <2>2. QED
    BY <1>0, <1>1, <2>1, ConfUntouched DEF Begin, process, history
<1>2. CASE Fail
  BY <1>0, <1>2, ConfKill
<1>3. CASE ReadConfig
  BY <1>0, <1>3, ConfRead
<1>4. ASSUME NEW k \in Extra, NEW v \in Values, Store(k, v) PROVE ConfInv'
  BY <1>0, <1>4, ConfStore
<1>5. ASSUME NEW o \in Options, RelationSet(o) PROVE ConfInv'
  BY <1>0, <1>5, ConfUntouched DEF RelationSet, history
<1>7. CASE Return
  BY <1>0, <1>7, ConfUntouched DEF Return, process, history
<1>8. CASE Open
  <2>1. DictLoaded'
    BY <1>8 DEF Open, process, history, ConfInv, DictLoaded, Remembers, Keeps,
                Entry, Set
  <2>2. QED
    BY <1>0, <1>8, <2>1 DEF Open, ConfInv, FileRemembers, FileKeeps, FileSaved,
                            NoneAtRest
<1>9. CASE Write
  <2>1. DictLoaded'
    BY <1>9 DEF Write, process, history, ConfInv, DictLoaded, Remembers, Keeps,
                Entry, Set
  <2>2. Keeps(conf)'
    BY <1>9, <2>1 DEF Write, process, ConfInv, TypeOK, DictLoaded
  <2>3. QED
    BY <1>0, <1>9, <2>1, <2>2 DEF Write, process, ConfInv, FileRemembers,
       FileKeeps, Keeps, Entry, FileSaved, NoneAtRest
<1>10. CASE Succeed
  BY <1>0, <1>10, ConfSucceed
<1>11. CASE Kill
  BY <1>0, <1>11, ConfKill
<1>12. ASSUME NEW o \in Options, NEW v \in Values \cup {None}, Edit(o, v)
       PROVE ConfInv'
  <2>1. conf' \notin Data
    BY <1>12, ValuesAssumption DEF Edit, process, ConfInv, NoneAtRest
  <2>2. QED
    BY <1>0, <1>12, <2>1 DEF Edit, process, history, ConfInv, FileRemembers,
       FileKeeps, FileSaved, NoneAtRest, DictLoaded, Remembers, Keeps, Entry
<1>13. CASE Generate \/ Recall
  BY <1>0, <1>13, ConfUntouched DEF Generate, Recall, process, history
<1>14. ASSUME NEW v \in Values, Persist(v) PROVE ConfInv'
  BY <1>0, <1>14, ConfUntouched DEF Persist, process, history
<1>15. CASE UNCHANGED vars
  BY <1>0, <1>15 DEF vars, process, history, ConfInv, FileRemembers, FileKeeps,
     FileSaved, NoneAtRest, DictLoaded, Remembers, Keeps, Entry, Set
<1>16. QED
  BY <1>1, <1>2, <1>3, <1>4, <1>5, <1>7, <1>8, <1>9, <1>10, <1>11,
     <1>12, <1>13, <1>14, <1>15 DEF Next

LEMMA ConfInvariant == Spec => []ConfInv
BY ConfInit, ConfStep, PTL DEF Spec

(* changed() reports an option with a value exactly if the last hook that   *)
(* succeeded saw another one, through failures, resets and kills.           *)
THEOREM ChangedIsSound == Spec => []ChangesReported
<1>1. ConfInv => ChangesReported
  <2> SUFFICES ASSUME ConfInv, conf \in Data, NEW o \in Set \ lost
               PROVE  Changed(o) <=> option[o] # seen[o]
    BY DEF ChangesReported
  <2>1. o \in Options /\ option[o] # None /\ conf[o] = option[o]
    BY DEF ConfInv, DictLoaded, Set
  <2>2. Entry(prev, o) = seen[o]
    BY <2>1 DEF ConfInv, DictLoaded, Remembers
  <2>3. QED
    BY <2>1, <2>2 DEF Changed, Previous, Entry
<1>2. QED
  BY <1>1, ConfInvariant, PTL

(* A hook that has the dictionary finds in it every key that a successful   *)
(* one left there.                                                          *)
THEOREM AddedKeysStay == Spec => []StoredKept
<1>1. ConfInv => StoredKept
  BY ValuesAssumption DEF ConfInv, DictLoaded, Keeps, Entry, StoredKept
<1>2. QED
  BY <1>1, ConfInvariant, PTL

-----------------------------------------------------------------------------
(* What the other units see.                                                *)

\* Of the values that a file or dictionary d holds, they see those whose
\* change was not missed.
Agrees(d) ==
  \A o \in Options \ missed : Entry(d, o) # None => sent[o] = Entry(d, o)

FileSent == file # Torn /\ pc # "saved" => Agrees(file)
DictSent == conf \in Data => Agrees(prev)
\* A hook sets nothing but what was reported to it, and all of that before it
\* returns.
HeldBack == \A o \in Options \ Reported : held[o] = sent[o]
AllHeld  ==
  pc \in {"atexit", "saving", "saved"} => \A o \in Reported : held[o] = conf[o]

SentInv == FileSent /\ DictSent /\ HeldBack /\ AllHeld /\ ChangesSent

LEMMA SentInit == Init => SentInv
<1> SUFFICES ASSUME Init PROVE SentInv
  OBVIOUS
<1>1. \A o \in Options : seen[o] = None
  BY DEF Init, Keys
<1>2. QED
  BY <1>1, ValuesAssumption
     DEF Init, SentInv, FileSent, DictSent, HeldBack, AllHeld, ChangesSent,
         Agrees, Entry

(* Steps that touch neither the dictionary nor what is sent.                *)
LEMMA SentUntouched ==
  ASSUME SentInv,
         UNCHANGED <<option, sent, file, conf, prev, held, seen, missed>>,
         pc' = "saved" <=> pc = "saved",
         \/ pc' \in {"atexit", "saving", "saved"}
              => pc \in {"atexit", "saving", "saved"}
         \/ \A o \in Reported : held[o] = conf[o]
  PROVE  SentInv'
BY DEF SentInv, FileSent, DictSent, HeldBack, AllHeld, ChangesSent, Agrees,
       Entry, Reported, Set, Changed, Previous

(* The process ends without success: what it held back is discarded.        *)
LEMMA SentKill ==
  ASSUME ConfInv, SentInv, Fail \/ Kill
  PROVE  SentInv'
<1>1. /\ pc' = "idle" /\ conf' = Unread /\ held' = sent
      /\ UNCHANGED <<option, sent, file, seen>>
  BY DEF Fail, Kill, Gone
<1>2. Reported' = {}
  BY <1>1, ValuesAssumption DEF Reported
<1>3. DictSent' /\ HeldBack' /\ AllHeld'
  BY <1>1, <1>2, ValuesAssumption DEF DictSent, HeldBack, AllHeld
<1>4. missed \subseteq missed'
  BY DEF Fail, Kill, Lose
<1>5. ChangesSent'
  BY <1>1, <1>4 DEF SentInv, ChangesSent
<1>6. FileSent'
  <2>1. CASE pc # "saved"
    BY <1>1, <1>4, <2>1 DEF SentInv, FileSent, Agrees
  <2>2. CASE pc = "saved"
    <3>1. missed' = missed \cup Reported
      BY <2>2 DEF Fail, Kill, Lose
    <3>2. \A o \in Options \ missed' : file[o] = Entry(prev, o)
      BY <2>2, <3>1, SavedEntry DEF Reported, Changed, Previous, Entry
    <3>3. Agrees(prev)
      BY <2>2, SavedEntry DEF SentInv, DictSent
    <3>4. file # None
      BY <2>2, SavedEntry
    <3>5. QED
      BY <1>1, <1>4, <3>2, <3>3, <3>4 DEF FileSent, Agrees, Entry
  <2>3. QED
    BY <2>1, <2>2
<1>7. QED
  BY <1>3, <1>5, <1>6 DEF SentInv

(* It succeeds: what was reported to it is sent, and of the rest nothing    *)
(* has changed.                                                             *)
LEMMA SentSucceed ==
  ASSUME ConfInv, SentInv, Succeed
  PROVE  SentInv'
<1>1. /\ pc' = "idle" /\ conf' = Unread /\ held' = held /\ sent' = held
      /\ UNCHANGED <<option, file>> /\ missed' = missed \ Reported
  BY DEF Succeed, Gone
<1>2. Reported' = {}
  BY <1>1, ValuesAssumption DEF Reported
<1>3. DictSent' /\ HeldBack' /\ AllHeld'
  BY <1>1, <1>2, ValuesAssumption DEF DictSent, HeldBack, AllHeld
<1>4. CASE conf \notin Data
  <2>1. Reported = {} /\ pc # "saved" /\ seen' = seen
    BY <1>4 DEF Reported, ConfInv, TypeOK, Succeed
  <2>2. \A o \in Options : sent'[o] = sent[o]
    BY <1>1, <2>1 DEF SentInv, HeldBack
  <2>3. QED
    BY <1>1, <1>3, <2>1, <2>2
       DEF SentInv, FileSent, ChangesSent, Agrees, Entry
<1>5. CASE conf \in Data
  <2>1. pc = "saved"
    BY <1>5 DEF Succeed
  <2>2. /\ file = conf /\ file # None
        /\ \A o \in Options : file[o] = IF o \in Set THEN option[o]
                                                      ELSE Entry(prev, o)
    BY <2>1, SavedEntry
  <2>3. \A o \in Options \ Reported : file[o] = Entry(prev, o)
    BY <1>5, <2>2 DEF Reported, Changed, Previous, Entry
  <2>4. \A o \in Options \ missed' : file[o] # None => sent'[o] = file[o]
    <3> SUFFICES ASSUME NEW o \in Options \ missed', file[o] # None
                 PROVE  sent'[o] = file[o]
      OBVIOUS
    <3>1. CASE o \in Reported
      BY <1>1, <2>1, <2>2, <3>1 DEF SentInv, AllHeld
    <3>2. CASE o \notin Reported
      <4>1. o \notin missed /\ sent'[o] = sent[o]
        BY <1>1, <3>2 DEF SentInv, HeldBack
      <4>2. QED
        BY <1>5, <2>3, <3>2, <4>1 DEF SentInv, DictSent, Agrees
    <3>3. QED
      BY <3>1, <3>2
  <2>5. FileSent'
    BY <1>1, <2>2, <2>4 DEF FileSent, Agrees, Entry
  <2>6. ChangesSent'
    <3> SUFFICES ASSUME NEW o \in Options \ missed', seen'[o] # None
                 PROVE  sent'[o] = seen'[o]
      BY DEF ChangesSent
    <3>1. CASE o \in Set
      <4>1. seen'[o] = option[o] /\ file[o] = option[o]
        BY <1>5, <2>2, <3>1 DEF Succeed, Keys, Set
      <4>2. QED
        BY <2>4, <4>1
    <3>2. CASE o \notin Set
      <4>1. seen'[o] = seen[o] /\ o \notin Reported
        BY <1>5, <3>2 DEF Succeed, Keys, Reported
      <4>2. QED
        BY <1>1, <4>1 DEF SentInv, HeldBack, ChangesSent
    <3>3. QED
      BY <3>1, <3>2
  <2>7. QED
    BY <1>3, <2>5, <2>6 DEF SentInv
<1>6. QED
  BY <1>4, <1>5

LEMMA SentStep == ConfInv /\ SentInv /\ [Next]_vars => SentInv'
<1> SUFFICES ASSUME ConfInv, SentInv, [Next]_vars PROVE SentInv'
  OBVIOUS
<1>1. CASE Fail \/ Kill
  BY <1>1, SentKill
<1>2. CASE Succeed
  BY <1>2, SentSucceed
<1>3. CASE ReadConfig
  <2>1. /\ UNCHANGED <<option, sent, file, pc, held, seen, missed>>
        /\ pc = "body" /\ conf = Unread
    BY <1>3 DEF ReadConfig, history
  <2>2. Reported = {}
    BY <2>1, ValuesAssumption DEF Reported
  <2>3. DictSent'
    <3>1. CASE file = Torn
      BY <1>3, <3>1, ValuesAssumption DEF ReadConfig, DictSent
    <3>2. CASE file # Torn
      BY <1>3, <2>1, <3>2 DEF ReadConfig, DictSent, SentInv, FileSent, Agrees,
                              Entry
    <3>3. QED
      BY <3>1, <3>2
  <2>4. QED
    BY <2>1, <2>2, <2>3 DEF SentInv, FileSent, HeldBack, AllHeld, ChangesSent,
                            Agrees, Entry
<1>4. ASSUME NEW k \in Extra, NEW v \in Values, Store(k, v) PROVE SentInv'
  <2>1. /\ UNCHANGED <<option, sent, file, pc, prev, held, seen, missed>>
        /\ conf \in Data /\ pc # "saved"
        /\ conf' = [conf EXCEPT ![k] = v]
    BY <1>4 DEF Store, history
  <2>2. \A o \in Options : conf'[o] = conf[o]
    BY <2>1, KeysAssumption DEF Data, Keys
  <2>3. conf' \in Data
    BY <2>1 DEF Data
  <2>4. Reported' = Reported
    BY <2>1, <2>2, <2>3 DEF Reported, Changed, Previous, Set
  <2>5. Reported \subseteq Options
    BY DEF Reported, Set
  <2>6. QED
    BY <2>1, <2>2, <2>4, <2>5 DEF SentInv, FileSent, DictSent, HeldBack,
       AllHeld, ChangesSent, Agrees, Entry
<1>5. ASSUME NEW o \in Options, RelationSet(o) PROVE SentInv'
  <2>1. /\ UNCHANGED <<option, sent, file, pc, conf, prev, seen, missed>>
        /\ pc = "body" /\ o \in Reported
        /\ held' = [held EXCEPT ![o] = conf[o]]
    BY <1>5 DEF RelationSet, history
  <2>2. Reported' = Reported
    BY <2>1 DEF Reported, Changed, Previous, Set
  <2>3. \A q \in Options \ Reported : held'[q] = held[q]
    BY <2>1 DEF ConfInv, TypeOK, Settings
  <2>4. QED
    BY <2>1, <2>2, <2>3 DEF SentInv, FileSent, DictSent, HeldBack, AllHeld,
                            ChangesSent, Agrees, Entry
<1>6. CASE Begin \/ Return \/ Open \/ Generate \/ Recall
  <2>1. CASE Open
    BY <2>1 DEF Open, process, history, SentInv, FileSent, DictSent, HeldBack,
       AllHeld, ChangesSent, Agrees, Entry, Reported, Set, Changed, Previous
  <2>2. CASE Begin \/ Return \/ Generate \/ Recall
    BY <2>2, SentUntouched
       DEF Begin, Return, Generate, Recall, process, history
  <2>3. QED
    BY <1>6, <2>1, <2>2
<1>7. CASE Write
  BY <1>7 DEF Write, process, history, SentInv, FileSent, DictSent, HeldBack,
     AllHeld, ChangesSent, Agrees, Entry, Reported, Set, Changed, Previous
<1>8. ASSUME NEW v \in Values, Persist(v) PROVE SentInv'
  BY <1>8, SentUntouched DEF Persist, process, history
<1>9. ASSUME NEW o \in Options, NEW v \in Values \cup {None}, Edit(o, v)
      PROVE SentInv'
  <2>1. conf = Unread /\ UNCHANGED <<sent, file, pc, process, history>>
    BY <1>9 DEF Edit, ConfInv, NoneAtRest
  <2>2. Reported = {} /\ Reported' = {}
    BY <2>1, ValuesAssumption DEF Reported, process
  <2>3. QED
    BY <2>1, <2>2, ValuesAssumption DEF process, history, SentInv, FileSent,
       DictSent, HeldBack, AllHeld, ChangesSent, Agrees, Entry
<1>10. CASE UNCHANGED vars
  BY <1>10, SentUntouched DEF vars, process, history
<1>11. QED
  BY <1>1, <1>2, <1>3, <1>4, <1>5, <1>6, <1>7, <1>8, <1>9, <1>10 DEF Next

(* The other units see every value a successful hook has seen, however many *)
(* hooks failed, or were killed before they saved, while they sent it.      *)
THEOREM ChangesAreSent == Spec => []ChangesSent
<1>1. SentInv => ChangesSent
  BY DEF SentInv
<1>2. QED
  BY <1>1, SentInit, SentStep, ConfInvariant, PTL DEF Spec

-----------------------------------------------------------------------------
(* StoredContext.                                                           *)

(* What its file says is the first context, and there is none before it.    *)
ContextInv ==
  /\ TypeOK
  /\ stored \in Values => stored = first
  /\ stored \notin Values /\ pc # "storing" => got = Unread
  /\ pc = "storing" \/ stored \in {None, Torn} => got = Unread /\ first = None
  /\ ContextStays

(* A StoredContext returns for ever the data it was first created with,     *)
(* whatever fails with it and wherever the hook that makes it is killed.    *)
THEOREM ContextIsKept == Spec => []ContextStays
<1>1. Init => ContextInv
  BY TypeInit DEF Init, ContextInv, ContextStays
<1>2. ContextInv /\ [Next]_vars => ContextInv'
  <2> SUFFICES ASSUME ContextInv, [Next]_vars PROVE ContextInv'
    OBVIOUS
  <2>1. TypeOK'
    BY TypeStep DEF ContextInv
  <2>2. CASE Generate
    BY <2>1, <2>2, ValuesAssumption DEF Generate, ContextInv, ContextStays
  <2>3. ASSUME NEW v \in Values, Persist(v) PROVE ContextInv'
    BY <2>1, <2>3, ValuesAssumption DEF Persist, ContextInv, ContextStays
  <2>4. CASE Recall
    BY <2>1, <2>4, ValuesAssumption DEF Recall, ContextInv, ContextStays
  <2>5. CASE Fail \/ Kill \/ Succeed
    BY <2>1, <2>5, ValuesAssumption
       DEF Fail, Kill, Succeed, Gone, ContextInv, ContextStays
  <2>6. CASE UNCHANGED context /\ (pc' = "storing" <=> pc = "storing")
    BY <2>1, <2>6 DEF context, ContextInv, ContextStays
  <2>7. QED
    BY <2>2, <2>3, <2>4, <2>5, <2>6
       DEF Next, vars, context, Begin, ReadConfig, Store, RelationSet,
           Return, Open, Write, Edit, Running
<1>3. ContextInv => ContextStays
  BY DEF ContextInv
<1>4. QED
  BY <1>1, <1>2, <1>3, PTL DEF Spec
=============================================================================
