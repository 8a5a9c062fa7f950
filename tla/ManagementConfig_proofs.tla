----------------------- MODULE ManagementConfig_proofs -----------------------
(***************************************************************************)
(* For any number of sessions, any values, any size of the flash and any   *)
(* number of commands and boots: every variable keeps its type, the SSH    *)
(* host key is never put together from two keys, settings nobody touched   *)
(* agree with the flash, and what a commit reported as stored comes back.  *)
(*                                                                         *)
(* The inductive invariant adds to the checked ones what holds half way    *)
(* through the creation of a key and through a commit, and that the log    *)
(* has at least one record for each object (so compacting fits).           *)
(***************************************************************************)
EXTENDS ManagementConfig, FiniteSetTheorems, TLAPS

Present == {o \in Objects : kvs[o] # Absent}
LogHoldsObjects == Cardinality(Present) <= used

KeySteps ==
    /\ task.do \in {"store public key", "store private key"} => kvs["ssh.hostpriv"] = Absent
    /\ task.do = "store private key" /\ Room => kvs["ssh.hostpub"] = key.pub
    /\ task.do # "boot" => key.pub # Absent
    /\ task.do \in {"run", "commit"} /\ kvs["ssh.hostpriv"] # Absent => key.pub = kvs["ssh.hostpub"]

CommitSoFar ==
    task.do = "commit" /\ task.ok =>
        \A i \in 1..8 : i < task.step /\ CommitOrder[i] \in Checked =>
            Saved(CommitOrder[i]) = Current(CommitOrder[i])

PromiseKept ==
    promise # Absent => task.do # "commit" /\ \A o \in Checked : Saved(o) = promise[o]

IInv ==
    /\ TypeOK /\ LogHoldsObjects
    /\ HostKeysMatch /\ KeySteps
    /\ CleanIsStored /\ CommitSoFar /\ PromiseKept

-----------------------------------------------------------------------------
(* The objects and the store.                                              *)

\* OnCommit's list names every configuration object, and nothing else.
LEMMA CommitOrderFacts ==
    /\ Len(CommitOrder) = 8
    /\ \A i \in 1..8 : CommitOrder[i] \in Config
    /\ \A o \in Config : \E i \in 1..8 : CommitOrder[i] = o
  <1>1. Len(CommitOrder) = 8
    BY DEF CommitOrder
  <1>2. \A i \in 1..8 : CommitOrder[i] \in Config
    BY DEF CommitOrder, Config, Globals, Addresses
  <1>3. /\ CommitOrder[1] = "hostname" /\ CommitOrder[2] = "ssh.username"
        /\ CommitOrder[3] = "ssh.keys" /\ CommitOrder[4] = "ntp"
        /\ CommitOrder[5] = "ip.address" /\ CommitOrder[6] = "ip.netmask"
        /\ CommitOrder[7] = "ip.broadcast" /\ CommitOrder[8] = "ip.gateway"
    BY DEF CommitOrder
  <1>4. ASSUME NEW o \in Config PROVE \E i \in 1..8 : CommitOrder[i] = o
    <2>1. 1 \in 1..8 /\ 2 \in 1..8 /\ 3 \in 1..8 /\ 4 \in 1..8
          /\ 5 \in 1..8 /\ 6 \in 1..8 /\ 7 \in 1..8 /\ 8 \in 1..8
      OBVIOUS
    <2>2. QED
      BY <1>3, <2>1, Zenon DEF Config, Globals, Addresses
  <1>5. QED
    BY <1>1, <1>2, <1>4

\* There are finitely many objects.
LEMMA ObjectsFinite == IsFiniteSet(Objects)
  <1> DEFINE Single == {"ssh.username", "ssh.keys", "ntp", "ip.gateway"}
             HostKey == {"ssh.hostpub", "ssh.hostpriv"}
  <1>1. /\ Single = ((({"ssh.username"} \cup {"ssh.keys"}) \cup {"ntp"}) \cup {"ip.gateway"})
        /\ HostKey = {"ssh.hostpub"} \cup {"ssh.hostpriv"}
        /\ Addresses = (({"ip.address"} \cup {"ip.netmask"}) \cup {"ip.broadcast"})
    BY DEF Addresses
  <1>2. Globals = Single \cup Addresses /\ Objects = Config \cup HostKey
    BY DEF Globals, Objects
  <1> HIDE DEF Single, HostKey
  <1>3. \A S, x : IsFiniteSet(S) => IsFiniteSet(S \cup {x})
    BY FS_AddElement
  <1>4. IsFiniteSet(Single) /\ IsFiniteSet(HostKey) /\ IsFiniteSet(Addresses)
    BY <1>1, <1>3, FS_Singleton, Zenon
  <1>5. IsFiniteSet(Globals) /\ IsFiniteSet({"hostname"})
    BY <1>2, <1>4, FS_Union, FS_Singleton
  <1>6. IsFiniteSet(Config)
    BY <1>5, FS_Union DEF Config
  <1>7. QED
    BY <1>2, <1>4, <1>6, FS_Union

\* A write of one object keeps the store in order and takes at most one record.
LEMMA StoreFacts ==
    ASSUME TypeOK, LogHoldsObjects, NEW o \in Objects, NEW v \in Stored, StoreObject(o, v)
    PROVE  FlashOK' /\ LogHoldsObjects'
  <1>1. IsFiniteSet(Present) /\ Cardinality(Present) \in Nat
    BY ObjectsFinite, FS_Subset, FS_CardinalityType DEF Present
  <1>2. CASE ~Room
    BY <1>2 DEF StoreObject, Room, flash, TypeOK, FlashOK, LogHoldsObjects, Present
  <1>3. CASE Room
    <2>1. kvs' = [kvs EXCEPT ![o] = v] /\ used' = used + 1
      BY <1>3 DEF StoreObject
    <2>2. kvs' \in [Objects -> Stored]
      BY <2>1 DEF TypeOK, FlashOK, Stored
    <2>8. used \in 0..CAPACITY /\ used' \in 0..CAPACITY
      <3>1. used \in 0..CAPACITY
        BY DEF TypeOK, FlashOK
      <3>2. CAPACITY \in Nat /\ used < CAPACITY
        BY <1>3, ConfigAssumption DEF Room
      <3>3. QED
        BY <2>1, <3>1, <3>2
    <2>3. Present' \subseteq Present \cup {o}
      BY <2>1 DEF Present, TypeOK, FlashOK
    <2>4. /\ IsFiniteSet(Present \cup {o})
          /\ Cardinality(Present \cup {o}) <= Cardinality(Present) + 1
      BY <1>1, FS_AddElement
    <2>5. Cardinality(Present') <= Cardinality(Present \cup {o})
      BY <2>3, <2>4, FS_Subset
    <2>6. Cardinality(Present') \in Nat /\ Cardinality(Present \cup {o}) \in Nat
      BY <2>3, <2>4, FS_Subset, FS_CardinalityType
    <2>7. QED
      BY <1>1, <2>1, <2>2, <2>4, <2>5, <2>6, <2>8 DEF LogHoldsObjects, FlashOK
  <1>4. QED
    BY <1>2, <1>3

\* What the store says of an object is a value.
LEMMA SavedFacts == TypeOK => \A o \in Config : Saved(o) \in Nat
  BY ConfigAssumption DEF TypeOK, FlashOK, Saved, Stored, Objects

-----------------------------------------------------------------------------
(* The initial state.                                                      *)

\* The inductive invariant holds when the flash is empty and power comes on.
LEMMA InitHolds == Init => IInv
  <1> SUFFICES ASSUME Init PROVE IInv
    OBVIOUS
  <1>1. Present = {} /\ Cardinality(Present) = 0
    <2>1. Present = {}
      BY DEF Init, Present
    <2>2. QED
      BY <2>1, FS_EmptySet
  <1>2. task.do = "boot" /\ task.step = 1 /\ task.by = Console /\ task.ok
    BY DEF Init, Doing
  <1>3. TypeOK
    <2>1. 1 \in 1..Len(CommitOrder) /\ Default \in Nat /\ Console \in Sessions
      BY CommitOrderFacts, ConfigAssumption DEF Sessions
    <2>2. TaskOK
      BY <2>1 DEF Init, Doing, NoKey, TaskOK, Tasks, Steps, Stored
    <2>3. used \in 0..CAPACITY
      BY ConfigAssumption DEF Init
    <2>4. QED
      BY <2>1, <2>2, <2>3 DEF Init, TypeOK, FlashOK, ConfigOK, CountsOK, HistoryOK, Stored
  <1>4. QED
    BY <1>1, <1>2, <1>3 DEF IInv, LogHoldsObjects, HostKeysMatch, KeySteps, CleanIsStored,
                            CommitSoFar, PromiseKept, Idle, Init, NoKey, Objects

-----------------------------------------------------------------------------
(* Types.                                                                  *)

\* A step is one of the actions.
LEMMA Actions ==
    ASSUME [Next]_vars
    PROVE  \/ UseStoredKey \/ GenerateHostKey \/ StorePublicKey \/ StorePrivateKey
           \/ PowerFails \/ OnReload \/ Zeroize
           \/ \E s \in SSHSessions : OpenSession(s) \/ Exit(s)
           \/ \E s \in open, v \in Values : SetHostname(s, v)
           \/ \E objects \in Settings, v \in Values : Set(objects, v)
           \/ \E o \in Removable : RemoveFlashKey(o)
           \/ Compact
           \/ \E s \in open : OnRollback(s) \/ OnCommit(s)
           \/ CommitStep
           \/ UNCHANGED vars
  BY DEF Next, Boot

\* A task is about what it was started for.
LEMMA DoingIs == \A what : Doing(what).do = what
  BY DEF Doing

\* What a step leaves alone keeps its type.
LEMMA Unchanged ==
    ASSUME TypeOK, LogHoldsObjects
    PROVE  /\ UNCHANGED flash => FlashOK' /\ LogHoldsObjects'
           /\ UNCHANGED config => ConfigOK'
           /\ UNCHANGED <<key, task>> => TaskOK'
           /\ UNCHANGED <<made, edits, boots>> => CountsOK'
           /\ UNCHANGED history => HistoryOK'
  <1>1. UNCHANGED flash => FlashOK' /\ LogHoldsObjects'
    BY DEF TypeOK, flash, FlashOK, LogHoldsObjects, Present
  <1>2. UNCHANGED config => ConfigOK'
    BY DEF TypeOK, config, ConfigOK
  <1>3. UNCHANGED <<key, task>> => TaskOK'
    BY DEF TypeOK, TaskOK
  <1>4. UNCHANGED <<made, edits, boots>> => CountsOK'
    BY DEF TypeOK, CountsOK
  <1>5. UNCHANGED history => HistoryOK'
    BY DEF TypeOK, history, HistoryOK
  <1>6. QED
    BY <1>1, <1>2, <1>3, <1>4, <1>5

\* Every task starts as one.
LEMMA DoingFacts ==
    /\ \A what \in Steps : Doing(what) \in Tasks
    /\ \A s \in Sessions : [Doing("commit") EXCEPT !.by = s] \in Tasks
  <1>1. 1 \in 1..Len(CommitOrder) /\ Console \in Sessions
    BY CommitOrderFacts DEF Sessions
  <1>2. QED
    BY <1>1 DEF Doing, Tasks, Steps

\* After a restart every variable that is lost is as it is at first.
LEMMA RestartKeepsTypes ==
    ASSUME TypeOK, Restart
    PROVE  /\ ConfigOK' /\ TaskOK' /\ CountsOK'
           /\ edited' \subseteq Globals
  <1>1. Default \in Nat
    BY ConfigAssumption
  <1>2. ConfigOK'
    BY <1>1 DEF Restart, ConfigOK
  <1>3. TaskOK'
    BY DoingFacts DEF Restart, NoKey, TaskOK, Steps, Stored
  <1>4. CountsOK'
    BY DEF TypeOK, Restart, CountsOK
  <1>5. QED
    BY <1>2, <1>3, <1>4 DEF Restart

\* So is what is loaded at boot.
LEMMA LoadKeepsTypes ==
    ASSUME TypeOK, LoadConfig
    PROVE  ConfigOK' /\ task' \in Tasks
  <1>1. Default \in Nat /\ Console \in Sessions
    BY ConfigAssumption DEF Sessions
  <1>2. \A o \in Config : Saved(o) \in Nat
    BY SavedFacts
  <1>3. task' \in Tasks
    BY DoingFacts DEF LoadConfig, Steps
  <1>4. ConfigOK'
    BY <1>1, <1>2 DEF LoadConfig, Config, ConfigOK
  <1>5. QED
    BY <1>3, <1>4

\* What a commit stores are values.
LEMMA CurrentFacts ==
    ASSUME TypeOK
    PROVE  \A o \in Config : Current(o) \in Nat
  BY DEF TypeOK, ConfigOK, TaskOK, Tasks, Current, Config

\* A store that is skipped when nothing changed keeps the flash in order too.
LEMMA StoreIfNecessaryFacts ==
    ASSUME TypeOK, LogHoldsObjects, NEW o \in Config, NEW v \in Nat, StoreIfNecessary(o, v)
    PROVE  FlashOK' /\ LogHoldsObjects'
  <1>1. CASE UNCHANGED flash
    BY <1>1, Unchanged
  <1>2. CASE StoreObject(o, v)
    BY <1>2, StoreFacts DEF Objects, Stored
  <1>3. QED
    BY <1>1, <1>2 DEF StoreIfNecessary

\* A step of a commit keeps the types.
LEMMA CommitKeepsTypes ==
    ASSUME TypeOK, LogHoldsObjects, CommitStep
    PROVE  /\ FlashOK' /\ LogHoldsObjects'
           /\ ConfigOK' /\ TaskOK' /\ CountsOK' /\ HistoryOK'
  <1> DEFINE o == CommitOrder[task.step]
             last == task.step = Len(CommitOrder)
             stored == StoredOK(o, Current(o))
  <1>1. /\ StoreIfNecessary(o, Current(o))
        /\ task' = IF last THEN Doing("run") ELSE [task EXCEPT !.step = @ + 1, !.ok = StillOK(o)]
        /\ promise' = IF last /\ StillOK(o) THEN [c \in Checked |-> Current(c)] ELSE promise
        /\ edited' = IF stored THEN edited \ {o} ELSE edited
        /\ UNCHANGED <<config, key, made, edits, boots>>
    BY DEF CommitStep
  <1>2. task \in Tasks /\ task.step \in 1..8 /\ Len(CommitOrder) = 8
    BY CommitOrderFacts DEF TypeOK, TaskOK, Tasks
  <1>3. o \in Config /\ Current(o) \in Nat
    BY <1>2, CommitOrderFacts, CurrentFacts
  <1>4. FlashOK' /\ LogHoldsObjects'
    BY <1>1, <1>3, StoreIfNecessaryFacts
  <1>5. TaskOK'
    <2>1. StillOK(o) \in BOOLEAN
      BY <1>2 DEF StillOK, Tasks
    <2>2. CASE last
      BY <1>1, <2>2, DoingFacts DEF TaskOK, Steps, TypeOK
    <2>3. CASE ~last
      <3>1. task.step + 1 \in 1..Len(CommitOrder)
        BY <1>2, <2>3
      <3>2. [task EXCEPT !.step = @ + 1, !.ok = StillOK(o)] \in Tasks
        BY <1>2, <2>1, <3>1 DEF Tasks
      <3>3. QED
        BY <1>1, <2>3, <3>2 DEF TaskOK, TypeOK
    <2>4. QED
      BY <2>2, <2>3
  <1>6. HistoryOK'
    <2>1. \A c \in Checked : Current(c) \in Nat
      BY CurrentFacts DEF Checked
    <2>2. promise' \in {Absent} \cup [Checked -> Nat]
      <3>1. [c \in Checked |-> Current(c)] \in [Checked -> Nat]
        BY <2>1
      <3>2. promise \in {Absent} \cup [Checked -> Nat]
        BY DEF TypeOK, HistoryOK
      <3>3. QED
        BY <1>1, <3>1, <3>2
    <2>3. edited' \subseteq Globals
      BY <1>1 DEF TypeOK, HistoryOK
    <2>4. QED
      BY <2>2, <2>3 DEF HistoryOK
  <1>7. QED
    BY <1>1, <1>4, <1>5, <1>6, Unchanged

\* Every step keeps the types.
LEMMA TypeStep ==
    ASSUME TypeOK, LogHoldsObjects, [Next]_vars
    PROVE  TypeOK' /\ LogHoldsObjects'
  <1> SUFFICES /\ FlashOK' /\ LogHoldsObjects'
               /\ ConfigOK' /\ TaskOK' /\ CountsOK' /\ HistoryOK'
    BY DEF TypeOK
  <1>t. FlashOK /\ ConfigOK /\ TaskOK /\ CountsOK /\ HistoryOK
    BY DEF TypeOK
  <1>1. CASE UseStoredKey
    <2>1. ConfigOK' /\ task' \in Tasks
      BY <1>1, LoadKeepsTypes DEF UseStoredKey
    <2>2. TaskOK'
      BY <1>1, <1>t, <2>1 DEF UseStoredKey, TaskOK, FlashOK, Objects
    <2>3. QED
      BY <1>1, <2>1, <2>2, Unchanged DEF UseStoredKey
  <1>2. CASE GenerateHostKey
    <2>1. made' \in Nat
      <3>1. made' = made + 1
        BY <1>2 DEF GenerateHostKey
      <3>2. QED
        BY <1>t, <3>1 DEF CountsOK
    <2>2. TaskOK'
      BY <1>2, <2>1, DoingFacts DEF GenerateHostKey, TaskOK, Stored, Steps
    <2>3. CountsOK'
      BY <1>2, <1>t, <2>1 DEF GenerateHostKey, CountsOK
    <2>4. QED
      BY <1>2, <2>2, <2>3, Unchanged DEF GenerateHostKey
  <1>3. CASE StorePublicKey
    <2>1. "ssh.hostpub" \in Objects /\ key.pub \in Stored
      BY <1>t DEF Objects, TaskOK
    <2>2. TaskOK'
      BY <1>3, <1>t, DoingFacts DEF StorePublicKey, TaskOK, Steps
    <2>3. QED
      BY <1>3, <2>1, <2>2, Unchanged, StoreFacts DEF StorePublicKey
  <1>4. CASE StorePrivateKey
    <2>1. "ssh.hostpriv" \in Objects /\ key.priv \in Stored
      BY <1>t DEF Objects, TaskOK
    <2>2. ConfigOK' /\ task' \in Tasks
      BY <1>4, LoadKeepsTypes DEF StorePrivateKey
    <2>3. TaskOK'
      BY <1>4, <1>t, <2>2 DEF StorePrivateKey, TaskOK
    <2>4. QED
      BY <1>4, <2>1, <2>2, <2>3, Unchanged, StoreFacts DEF StorePrivateKey
  <1>5. CASE PowerFails \/ OnReload
    <2>1. Restart /\ UNCHANGED <<flash, promise>>
      BY <1>5 DEF PowerFails, OnReload
    <2>2. HistoryOK'
      BY <1>t, <2>1, RestartKeepsTypes DEF HistoryOK
    <2>3. QED
      BY <2>1, <2>2, RestartKeepsTypes, Unchanged
  <1>6. CASE Zeroize
    <2>1. Restart
      BY <1>6 DEF Zeroize
    <2>2. HistoryOK'
      BY <1>6, <2>1, RestartKeepsTypes DEF Zeroize, HistoryOK
    <2>3. FlashOK'
      BY <1>6, ConfigAssumption DEF Zeroize, FlashOK, Stored
    <2>4. LogHoldsObjects'
      <3>1. Present' = {}
        BY <1>6 DEF Zeroize, Present
      <3>2. QED
        BY <1>6, <3>1, FS_EmptySet DEF Zeroize, LogHoldsObjects
    <2>5. QED
      BY <2>1, <2>2, <2>3, <2>4, RestartKeepsTypes
  <1>7. ASSUME NEW s \in SSHSessions, OpenSession(s) PROVE TypeOK' /\ LogHoldsObjects'
    <2>1. Saved("hostname") \in Nat
      BY SavedFacts DEF Config
    <2>2. ConfigOK'
      BY <1>7, <1>t, <2>1 DEF OpenSession, ConfigOK, Sessions
    <2>3. QED
      BY <1>7, <2>2, Unchanged DEF OpenSession, TypeOK
  <1>8. ASSUME NEW s \in SSHSessions, Exit(s) PROVE TypeOK' /\ LogHoldsObjects'
    <2>1. ConfigOK'
      BY <1>8, <1>t DEF Exit, ConfigOK
    <2>2. QED
      BY <1>8, <2>1, Unchanged DEF Exit, TypeOK
  <1>9. ASSUME NEW s \in open, NEW v \in Values, SetHostname(s, v)
        PROVE TypeOK' /\ LogHoldsObjects'
    <2>1. v \in Nat /\ s \in Sessions
      BY <1>t, ConfigAssumption DEF ConfigOK
    <2>2. ConfigOK'
      BY <1>9, <1>t, <2>1 DEF SetHostname, Command, ConfigOK
    <2>3. CountsOK'
      BY <1>9, <1>t DEF SetHostname, Command, CountsOK
    <2>4. UNCHANGED <<key, task>> /\ UNCHANGED flash /\ UNCHANGED history
      BY <1>9 DEF SetHostname, Command
    <2>5. QED
      BY <2>2, <2>3, <2>4, Unchanged DEF TypeOK
  <1>10. ASSUME NEW objects \in Settings, NEW v \in Values, Set(objects, v)
         PROVE TypeOK' /\ LogHoldsObjects'
    <2>1. v \in Nat /\ objects \subseteq Globals
      BY ConfigAssumption DEF Settings, Globals
    <2>2. ConfigOK'
      BY <1>10, <1>t, <2>1 DEF Set, Command, ConfigOK
    <2>3. CountsOK'
      BY <1>10, <1>t DEF Set, Command, CountsOK
    <2>4. HistoryOK'
      BY <1>10, <1>t, <2>1 DEF Set, HistoryOK
    <2>5. UNCHANGED <<key, task>> /\ UNCHANGED flash
      BY <1>10 DEF Set, Command
    <2>6. QED
      BY <2>2, <2>3, <2>4, <2>5, Unchanged DEF TypeOK
  <1>11. ASSUME NEW o \in Removable, RemoveFlashKey(o) PROVE TypeOK' /\ LogHoldsObjects'
    <2>1. kvs' = [kvs EXCEPT ![o] = Absent] /\ used' = used + 1 /\ Room /\ kvs[o] # Absent
      BY <1>11 DEF RemoveFlashKey
    <2>2. FlashOK'
      <3>1. kvs' \in [Objects -> Stored]
        BY <1>t, <2>1 DEF FlashOK, Stored
      <3>2. used' \in 0..CAPACITY
        BY <1>t, <2>1, ConfigAssumption DEF FlashOK, Room
      <3>3. QED
        BY <3>1, <3>2 DEF FlashOK
    <2>3. LogHoldsObjects'
      <3>1. Present' \subseteq Present
        BY <1>t, <2>1 DEF Present, FlashOK
      <3>2. /\ IsFiniteSet(Present) /\ Cardinality(Present) \in Nat
            /\ Cardinality(Present') \in Nat /\ Cardinality(Present') <= Cardinality(Present)
        BY <3>1, ObjectsFinite, FS_Subset, FS_CardinalityType DEF Present
      <3>3. QED
        BY <1>t, <2>1, <3>2 DEF LogHoldsObjects, FlashOK
    <2>4. CountsOK'
      BY <1>11, <1>t DEF RemoveFlashKey, Command, CountsOK
    <2>5. HistoryOK'
      BY <1>11, <1>t DEF RemoveFlashKey, HistoryOK, ConfigOK
    <2>6. UNCHANGED <<key, task>> /\ UNCHANGED config
      BY <1>11 DEF RemoveFlashKey, Command, config
    <2>7. QED
      BY <2>2, <2>3, <2>4, <2>5, <2>6, Unchanged DEF TypeOK
  <1>12. CASE Compact
    <2>1. Cardinality(Present) \in Nat
      BY ObjectsFinite, FS_Subset, FS_CardinalityType DEF Present
    <2>2. used' = Cardinality(Present) /\ UNCHANGED kvs
      BY <1>12 DEF Compact, Present
    <2>3. FlashOK'
      BY <1>t, <2>1, <2>2, ConfigAssumption DEF FlashOK, LogHoldsObjects
    <2>4. LogHoldsObjects'
      BY <2>1, <2>2 DEF LogHoldsObjects, Present
    <2>5. QED
      BY <1>12, <2>3, <2>4, Unchanged DEF Compact
  <1>13. ASSUME NEW s \in open, OnRollback(s) PROVE TypeOK' /\ LogHoldsObjects'
    <2>1. \A o \in Config : Saved(o) \in Nat
      BY SavedFacts
    <2>2. ConfigOK'
      BY <1>13, <1>t, <2>1 DEF OnRollback, Reloaded, ConfigOK, Config
    <2>3. HistoryOK'
      BY <1>13, <1>t DEF OnRollback, HistoryOK
    <2>4. QED
      BY <1>13, <2>2, <2>3, Unchanged DEF OnRollback, TypeOK
  <1>14. ASSUME NEW s \in open, OnCommit(s) PROVE TypeOK' /\ LogHoldsObjects'
    <2>1. TaskOK'
      BY <1>14, <1>t, DoingFacts DEF OnCommit, TaskOK, ConfigOK
    <2>2. HistoryOK'
      BY <1>14, <1>t DEF OnCommit, HistoryOK
    <2>3. QED
      BY <1>14, <2>1, <2>2, Unchanged DEF OnCommit, TypeOK
  <1>15. CASE CommitStep
    BY <1>15, CommitKeepsTypes
  <1>16. CASE UNCHANGED vars
    BY <1>16, Unchanged DEF vars
  <1>17. QED
    BY <1>1, <1>2, <1>3, <1>4, <1>5, <1>6, <1>7, <1>8, <1>9, <1>10, <1>11, <1>12,
       <1>13, <1>14, <1>15, <1>16, Actions DEF TypeOK

-----------------------------------------------------------------------------
(* What a write changes.                                                   *)

\* One object, and that only when there is room.
LEMMA StoreChangesOne ==
    ASSUME TypeOK, NEW o \in Objects, NEW v \in Stored, StoreObject(o, v)
    PROVE  /\ \A c \in Objects \ {o} : kvs'[c] = kvs[c]
           /\ Room => kvs'[o] = v
           /\ ~Room => UNCHANGED flash
  BY DEF StoreObject, TypeOK, FlashOK, flash

\* An object of which the record stays reads as before.
LEMMA SameRecordSameValue ==
    ASSUME NEW o, kvs'[o] = kvs[o]
    PROVE  Saved(o)' = Saved(o)
  BY DEF Saved

\* A step of a commit leaves the host key and the other settings alone, and when it
\* does not fail the store says of its object what the session or the system says.
LEMMA CommitChangesOne ==
    ASSUME TypeOK, CommitStep, NEW o, o = CommitOrder[task.step]
    PROVE  /\ o \in Config /\ task.step \in 1..8 /\ task.do = "commit"
           /\ \A c \in Objects \ {o} : kvs'[c] = kvs[c]
           /\ StoredOK(o, Current(o)) => Saved(o)' = Current(o)
           /\ ~StoredOK(o, Current(o)) => UNCHANGED flash
  <1>1. task.step \in 1..8 /\ task.do = "commit"
    BY CommitOrderFacts DEF TypeOK, TaskOK, Tasks, CommitStep
  <1>2. o \in Config /\ o \in Objects /\ Current(o) \in Nat /\ Current(o) \in Stored
    BY <1>1, CommitOrderFacts, CurrentFacts DEF Objects, Stored
  <1>3. StoreIfNecessary(o, Current(o))
    BY DEF CommitStep
  <1>4. CASE Saved(o) = Current(o)
    <2>1. UNCHANGED flash
      BY <1>3, <1>4 DEF StoreIfNecessary
    <2>2. Saved(o)' = Saved(o)
      BY <2>1 DEF flash, Saved
    <2>3. QED
      BY <1>1, <1>2, <1>4, <2>1, <2>2 DEF flash
  <1>5. CASE Saved(o) # Current(o)
    <2>1. StoreObject(o, Current(o))
      BY <1>3, <1>5 DEF StoreIfNecessary
    <2>2. /\ \A c \in Objects \ {o} : kvs'[c] = kvs[c]
          /\ Room => kvs'[o] = Current(o)
          /\ ~Room => UNCHANGED flash
      BY <1>2, <2>1, StoreChangesOne
    <2>3. StoredOK(o, Current(o)) => Room
      BY <1>5 DEF StoredOK
    <2>4. Room => Saved(o)' = Current(o)
      BY <1>2, <2>2, ConfigAssumption DEF Saved
    <2>5. ~StoredOK(o, Current(o)) => ~Room
      BY DEF StoredOK
    <2>6. QED
      BY <1>1, <1>2, <2>2, <2>3, <2>4, <2>5
  <1>6. QED
    BY <1>4, <1>5

\* "no flash" leaves the records of the other objects and those of the host key.
LEMMA RemoveChangesOne ==
    ASSUME TypeOK, NEW o \in Removable, RemoveFlashKey(o)
    PROVE  \A c \in Objects \ {o} : kvs'[c] = kvs[c]
  BY DEF RemoveFlashKey, TypeOK, FlashOK

-----------------------------------------------------------------------------
(* The host key.                                                           *)

\* While the system runs, a step that leaves the host key alone keeps it right.
LEMMA KeyUntouched ==
    ASSUME HostKeysMatch, KeySteps,
           task.do \in {"run", "commit"}, task'.do \in {"run", "commit"},
           UNCHANGED key, kvs'["ssh.hostpub"] = kvs["ssh.hostpub"],
           kvs'["ssh.hostpriv"] = kvs["ssh.hostpriv"]
    PROVE  HostKeysMatch' /\ KeySteps'
  BY DEF HostKeysMatch, KeySteps, Idle

\* No step puts the host key together from two keys.
LEMMA KeyStep ==
    ASSUME TypeOK, HostKeysMatch, KeySteps, [Next]_vars
    PROVE  HostKeysMatch' /\ KeySteps'
  <1>h. "ssh.hostpub" \in Objects /\ "ssh.hostpriv" \in Objects
        /\ "ssh.hostpub" \notin Config /\ "ssh.hostpriv" \notin Config
    BY DEF Objects, Config, Globals, Addresses
  <1>1. CASE UseStoredKey
    <2>1. task'.do = "run" /\ UNCHANGED flash
          /\ key' = [pub |-> kvs["ssh.hostpub"], priv |-> kvs["ssh.hostpriv"]]
          /\ kvs["ssh.hostpub"] # Absent /\ kvs["ssh.hostpriv"] # Absent
      BY <1>1 DEF UseStoredKey, HostKeyFound, LoadConfig, Doing
    <2>2. QED
      BY <2>1 DEF HostKeysMatch, KeySteps, Idle, flash
  <1>2. CASE GenerateHostKey
    <2>1. task'.do = "store public key" /\ UNCHANGED flash
          /\ key' = [pub |-> made', priv |-> made']
      BY <1>2 DEF GenerateHostKey, Doing
    <2>2. made' # Absent
      <3>1. made' = made + 1
        BY <1>2 DEF GenerateHostKey
      <3>2. made \in Nat
        BY DEF TypeOK, CountsOK
      <3>3. QED
        BY <3>1, <3>2, ConfigAssumption
    <2>3. kvs["ssh.hostpriv"] = Absent
      BY <1>2 DEF GenerateHostKey, HostKeyFound, HostKeysMatch
    <2>4. QED
      BY <2>1, <2>2, <2>3 DEF HostKeysMatch, KeySteps, Idle, flash
  <1>3. CASE StorePublicKey
    <2>1. task.do = "store public key" /\ task'.do = "store private key" /\ UNCHANGED key
          /\ StoreObject("ssh.hostpub", key.pub) /\ key.pub \in Stored
      BY <1>3 DEF StorePublicKey, Doing, TypeOK, TaskOK
    <2>2. /\ kvs'["ssh.hostpriv"] = kvs["ssh.hostpriv"]
          /\ Room => kvs'["ssh.hostpub"] = key.pub
          /\ ~Room => UNCHANGED flash
      BY <1>h, <2>1, StoreChangesOne
    <2>3. Room' => kvs'["ssh.hostpub"] = key.pub
      BY <2>2 DEF flash, Room
    <2>4. QED
      BY <2>1, <2>2, <2>3 DEF HostKeysMatch, KeySteps, Idle
  <1>4. CASE StorePrivateKey
    <2>1. task.do = "store private key" /\ task'.do = "run" /\ UNCHANGED key
          /\ StoreObject("ssh.hostpriv", key.priv) /\ key.priv \in Stored
      BY <1>4 DEF StorePrivateKey, LoadConfig, Doing, TypeOK, TaskOK
    <2>2. /\ kvs'["ssh.hostpub"] = kvs["ssh.hostpub"]
          /\ Room => kvs'["ssh.hostpriv"] = key.priv
          /\ ~Room => UNCHANGED flash
      BY <1>h, <2>1, StoreChangesOne
    <2>3. QED
      BY <2>1, <2>2 DEF HostKeysMatch, KeySteps, Idle, flash
  <1>5. CASE PowerFails \/ OnReload \/ Zeroize
    <2>1. task'.do = "boot" /\ key' = NoKey
      BY <1>5 DEF PowerFails, OnReload, Zeroize, Restart, Doing
    <2>2. UNCHANGED kvs \/ kvs' = [o \in Objects |-> Absent]
      BY <1>5 DEF PowerFails, OnReload, Zeroize, flash
    <2>3. QED
      BY <1>h, <2>1, <2>2 DEF NoKey, HostKeysMatch, KeySteps, Idle
  <1>6. ASSUME NEW o \in Removable, RemoveFlashKey(o) PROVE HostKeysMatch' /\ KeySteps'
    <2>1. kvs'["ssh.hostpub"] = kvs["ssh.hostpub"] /\ kvs'["ssh.hostpriv"] = kvs["ssh.hostpriv"]
      BY <1>6, <1>h, RemoveChangesOne, ConfigAssumption
    <2>2. QED
      BY <1>6, <2>1, KeyUntouched DEF RemoveFlashKey, Command, Idle
  <1>7. CASE CommitStep
    <2>1. kvs'["ssh.hostpub"] = kvs["ssh.hostpub"] /\ kvs'["ssh.hostpriv"] = kvs["ssh.hostpriv"]
          /\ task.do = "commit"
      BY <1>7, <1>h, CommitChangesOne
    <2>2. task'.do \in {"run", "commit"} /\ UNCHANGED key
      BY <1>7, <2>1 DEF CommitStep, Doing, TypeOK, TaskOK, Tasks
    <2>3. QED
      BY <2>1, <2>2, KeyUntouched
  <1>8. ASSUME NEW s \in open, OnCommit(s) PROVE HostKeysMatch' /\ KeySteps'
    BY <1>8, KeyUntouched DEF OnCommit, Idle, Doing, flash
  <1>9. ASSUME UNCHANGED <<kvs, key, task>>, Idle PROVE HostKeysMatch' /\ KeySteps'
    BY <1>9, KeyUntouched DEF Idle
  <1>10. CASE UNCHANGED vars
    BY <1>10 DEF vars, flash, HostKeysMatch, KeySteps, Idle, Room
  <1>11. ASSUME NEW s \in SSHSessions, OpenSession(s) \/ Exit(s)
         PROVE  UNCHANGED <<kvs, key, task>> /\ Idle
    BY <1>11 DEF OpenSession, Exit, flash
  <1>12. ASSUME NEW s, NEW v, SetHostname(s, v) \/ Set(s, v)
         PROVE  UNCHANGED <<kvs, key, task>> /\ Idle
    BY <1>12 DEF SetHostname, Set, Command, flash
  <1>13. ASSUME NEW s, Compact \/ OnRollback(s)
         PROVE  UNCHANGED <<kvs, key, task>> /\ Idle
    BY <1>13 DEF Compact, OnRollback, flash
  <1>14. QED
    BY <1>1, <1>2, <1>3, <1>4, <1>5, <1>6, <1>7, <1>8, <1>9, <1>10, <1>11, <1>12, <1>13, Actions

-----------------------------------------------------------------------------
(* The settings.                                                           *)

\* A step that writes no setting keeps what the store says of them.
LEMMA SavedSame ==
    ASSUME \A c \in Config : kvs'[c] = kvs[c]
    PROVE  \A c \in Config : Saved(c)' = Saved(c)
  BY DEF Saved

\* What is loaded is what is stored.
LEMMA CleanStep ==
    ASSUME TypeOK, CleanIsStored, [Next]_vars
    PROVE  CleanIsStored'
  <1>g. Globals \subseteq Config /\ Config \subseteq Objects /\ "hostname" \notin Globals
        /\ "ssh.hostpriv" \notin Config /\ "ssh.hostpub" \notin Config
        /\ "ssh.hostpriv" \in Objects /\ "ssh.hostpub" \in Objects
    BY DEF Objects, Config, Globals, Addresses
  <1>1. CASE UseStoredKey
    <2>1. ram' = [o \in Globals |-> Saved(o)] /\ kvs' = kvs
      BY <1>1 DEF UseStoredKey, LoadConfig, flash
    <2>2. QED
      BY <2>1, <1>g, SavedSame DEF CleanIsStored
  <1>2. CASE StorePrivateKey
    <2>1. StoreObject("ssh.hostpriv", key.priv) /\ key.priv \in Stored
      BY <1>2 DEF StorePrivateKey, TypeOK, TaskOK
    <2>2. ram' = [o \in Globals |-> Saved(o)] /\ \A c \in Config : kvs'[c] = kvs[c]
      BY <1>2, <1>g, <2>1, StoreChangesOne DEF StorePrivateKey, LoadConfig
    <2>3. QED
      BY <1>g, <2>2, SavedSame DEF CleanIsStored
  <1>3. ASSUME GenerateHostKey \/ StorePublicKey \/ PowerFails \/ OnReload \/ Zeroize
        PROVE  CleanIsStored'
    <2>1. task'.do \in {"boot", "store public key", "store private key"}
      <3>1. GenerateHostKey => task'.do = "store public key"
        BY Zenon, DoingIs DEF GenerateHostKey
      <3>2. StorePublicKey => task'.do = "store private key"
        BY Zenon, DoingIs DEF StorePublicKey
      <3>3. Restart => task'.do = "boot"
        BY Zenon, DoingIs DEF Restart
      <3>4. QED
        BY <1>3, <3>1, <3>2, <3>3 DEF PowerFails, OnReload, Zeroize
    <2>2. QED
      BY <2>1 DEF CleanIsStored
  <1>4. ASSUME NEW objects \in Settings, NEW v \in Values, Set(objects, v) PROVE CleanIsStored'
    BY <1>4, <1>g, SavedSame DEF Set, Command, Idle, flash, CleanIsStored
  <1>5. ASSUME NEW o \in Removable, RemoveFlashKey(o) PROVE CleanIsStored'
    <2>1. \A c \in Config \ {o} : Saved(c)' = Saved(c)
      BY <1>5, <1>g, RemoveChangesOne, SameRecordSameValue
    <2>2. edited' = edited \cup ({o} \cap Globals) /\ UNCHANGED ram /\ task.do = "run"
      BY <1>5 DEF RemoveFlashKey, Command, Idle
    <2>3. QED
      BY <1>g, <2>1, <2>2 DEF CleanIsStored
  <1>6. ASSUME NEW s \in open, OnRollback(s) PROVE CleanIsStored'
    <2>1. ram' = [o \in Globals |-> Saved(o)] /\ kvs' = kvs
      BY <1>6 DEF OnRollback, Reloaded, flash
    <2>2. QED
      BY <2>1, <1>g, SavedSame DEF CleanIsStored
  <1>7. CASE CommitStep
    <2>0. PICK o : o = CommitOrder[task.step]
      OBVIOUS
    <2>1. /\ o \in Config /\ task.do = "commit"
          /\ \A c \in Objects \ {o} : kvs'[c] = kvs[c]
          /\ StoredOK(o, Current(o)) => Saved(o)' = Current(o)
          /\ ~StoredOK(o, Current(o)) => UNCHANGED flash
      BY <1>7, <2>0, CommitChangesOne
    <2>2. \A c \in Config \ {o} : Saved(c)' = Saved(c)
      BY <1>g, <2>1, SameRecordSameValue
    <2>3. edited' = IF StoredOK(o, Current(o)) THEN edited \ {o} ELSE edited
      BY <1>7, <2>0 DEF CommitStep
    <2>4. UNCHANGED ram
      BY <1>7 DEF CommitStep, config
    <2>5. \A c \in Globals \ edited : ram[c] = Saved(c)
      BY <2>1 DEF CleanIsStored
    <2>6. CASE StoredOK(o, Current(o))
      <3>1. o \in Globals => ram[o] = Saved(o)'
        BY <1>g, <2>1, <2>6 DEF Current
      <3>2. ASSUME NEW c \in Globals \ edited' PROVE ram'[c] = Saved(c)'
        <4>1. CASE c = o
          BY <2>4, <3>1, <4>1
        <4>2. CASE c # o
          <5>1. c \in Globals \ edited /\ c \in Config \ {o}
            BY <1>g, <2>3, <2>6, <4>2
          <5>2. QED
            BY <2>2, <2>4, <2>5, <5>1
        <4>3. QED
          BY <4>1, <4>2
      <3>3. QED
        BY <3>2 DEF CleanIsStored
    <2>7. CASE ~StoredOK(o, Current(o))
      <3>1. kvs' = kvs /\ edited' = edited
        BY <2>1, <2>3, <2>7 DEF flash
      <3>2. \A c \in Config : Saved(c)' = Saved(c)
        BY <3>1, SavedSame
      <3>3. QED
        BY <1>g, <2>4, <2>5, <3>1, <3>2 DEF CleanIsStored
    <2>8. QED
      BY <2>6, <2>7
  <1>8. ASSUME UNCHANGED <<kvs, ram, edited>>,
               task'.do \in {"run", "commit"} => task.do \in {"run", "commit"}
        PROVE  CleanIsStored'
    BY <1>8, <1>g, SavedSame DEF CleanIsStored
  <1>9. ASSUME NEW s, NEW v, OpenSession(s) \/ Exit(s) \/ SetHostname(s, v) \/ Compact \/ OnCommit(s)
        PROVE  /\ UNCHANGED <<kvs, ram, edited>>
               /\ task'.do \in {"run", "commit"} => task.do \in {"run", "commit"}
    <2>1. CASE OpenSession(s) \/ Exit(s)
      BY <2>1 DEF OpenSession, Exit, flash, history, Idle
    <2>2. CASE SetHostname(s, v)
      BY <2>2 DEF SetHostname, Command, flash, history, Idle
    <2>3. CASE Compact \/ OnCommit(s)
      BY <2>3 DEF Compact, OnCommit, flash, config, history, Idle
    <2>4. QED
      BY <1>9, <2>1, <2>2, <2>3
  <1>10. UNCHANGED vars => UNCHANGED <<kvs, ram, edited, task>>
    BY DEF vars, flash, config, history
  <1>11. QED
    BY <1>1, <1>2, <1>3, <1>4, <1>5, <1>6, <1>7, <1>8, <1>9, <1>10, Actions

-----------------------------------------------------------------------------
(* Commits.                                                                *)

\* While nothing went wrong, every checked object up to the step's own is stored.
LEMMA StoredSoFar ==
    ASSUME TypeOK, CommitSoFar, CommitStep, NEW o, o = CommitOrder[task.step], StillOK(o),
           NEW i \in 1..8, i <= task.step, NEW c \in Checked, c = CommitOrder[i]
    PROVE  Saved(c)' = Current(c)
  <1>1. /\ o \in Config /\ task.step \in 1..8 /\ task.do = "commit"
        /\ \A x \in Objects \ {o} : kvs'[x] = kvs[x]
        /\ StoredOK(o, Current(o)) => Saved(o)' = Current(o)
    BY CommitChangesOne
  <1>2. CASE c = o
    BY <1>1, <1>2 DEF StillOK
  <1>3. CASE c # o
    <2>1. i < task.step
      BY <1>1, <1>3
    <2>2. Saved(c) = Current(c)
      BY <1>1, <2>1 DEF CommitSoFar, StillOK
    <2>3. kvs'[c] = kvs[c]
      BY <1>1, <1>3 DEF Checked, Objects
    <2>4. QED
      BY <2>2, <2>3, SameRecordSameValue
  <1>4. QED
    BY <1>2, <1>3

\* What the last good commit stored stays stored until something else is.
LEMMA PromiseStep ==
    ASSUME TypeOK, CommitSoFar, PromiseKept, [Next]_vars
    PROVE  CommitSoFar' /\ PromiseKept'
  <1>g. Checked \subseteq Config /\ Config \subseteq Objects
        /\ "ssh.hostpriv" \notin Config /\ "ssh.hostpub" \notin Config
        /\ "ssh.hostpriv" \in Objects /\ "ssh.hostpub" \in Objects
    BY DEF Checked, Objects, Config, Globals, Addresses
  <1>u. ASSUME \A c \in Config : kvs'[c] = kvs[c], UNCHANGED promise, task'.do # "commit"
        PROVE  CommitSoFar' /\ PromiseKept'
    <2>1. \A c \in Checked : Saved(c)' = Saved(c)
      BY <1>g, <1>u, SavedSame
    <2>2. QED
      BY <1>u, <2>1 DEF CommitSoFar, PromiseKept
  <1>b. ASSUME NEW what \in Steps \ {"commit"}, task' = Doing(what) PROVE task'.do # "commit"
    BY <1>b, DoingIs
  <1>1. CASE UseStoredKey
    BY <1>1, <1>u, <1>b DEF UseStoredKey, LoadConfig, flash, history, Steps
  <1>2. CASE GenerateHostKey
    BY <1>2, <1>u, <1>b DEF GenerateHostKey, flash, history, Steps
  <1>3. CASE StorePublicKey
    <2>1. StoreObject("ssh.hostpub", key.pub) /\ key.pub \in Stored
      BY <1>3 DEF StorePublicKey, TypeOK, TaskOK
    <2>2. \A c \in Config : kvs'[c] = kvs[c]
      BY <1>g, <2>1, StoreChangesOne
    <2>3. QED
      BY <1>3, <1>u, <1>b, <2>2 DEF StorePublicKey, history, Steps
  <1>4. CASE StorePrivateKey
    <2>1. StoreObject("ssh.hostpriv", key.priv) /\ key.priv \in Stored
      BY <1>4 DEF StorePrivateKey, TypeOK, TaskOK
    <2>2. \A c \in Config : kvs'[c] = kvs[c]
      BY <1>g, <2>1, StoreChangesOne
    <2>3. QED
      BY <1>4, <1>u, <1>b, <2>2 DEF StorePrivateKey, LoadConfig, history, Steps
  <1>5. CASE PowerFails \/ OnReload
    BY <1>5, <1>u, <1>b DEF PowerFails, OnReload, Restart, flash, Steps
  <1>6. CASE Zeroize
    <2>1. task' = Doing("boot") /\ promise' = Absent
      BY <1>6 DEF Zeroize, Restart
    <2>2. QED
      BY <1>b, <2>1 DEF CommitSoFar, PromiseKept, Steps
  <1>7. ASSUME UNCHANGED <<kvs, promise, task>>, Idle PROVE CommitSoFar' /\ PromiseKept'
    BY <1>7, <1>u DEF Idle
  <1>8. ASSUME NEW s, NEW v, OpenSession(s) \/ Exit(s) \/ Compact \/ OnRollback(s)
        PROVE  UNCHANGED <<kvs, promise, task>> /\ Idle
    BY <1>8 DEF OpenSession, Exit, Compact, OnRollback, flash, history
  <1>9. ASSUME NEW s, NEW v, SetHostname(s, v) \/ Set(s, v)
        PROVE  UNCHANGED <<kvs, promise, task>> /\ Idle
    BY <1>9 DEF SetHostname, Set, Command, flash, history
  <1>10. ASSUME NEW o \in Removable, RemoveFlashKey(o) PROVE CommitSoFar' /\ PromiseKept'
    BY <1>10 DEF RemoveFlashKey, Command, Idle, CommitSoFar, PromiseKept
  <1>11. ASSUME NEW s \in open, OnCommit(s) PROVE CommitSoFar' /\ PromiseKept'
    <2>1. promise' = Absent /\ task'.step = 1
      BY <1>11 DEF OnCommit, Doing
    <2>2. QED
      BY <2>1 DEF CommitSoFar, PromiseKept
  <1>12. CASE CommitStep
    <2>0. PICK o : o = CommitOrder[task.step]
      OBVIOUS
    <2>1. task.step \in 1..8 /\ task.do = "commit" /\ Len(CommitOrder) = 8 /\ task \in Tasks
      BY <1>12, <2>0, CommitChangesOne, CommitOrderFacts DEF TypeOK, TaskOK
    <2>2. promise = Absent
      BY <2>1 DEF PromiseKept
    <2>3. \A c : Current(c) = IF c = "hostname" THEN hostname[task.by] ELSE ram[c]
      BY DEF Current
    <2>4. CASE task.step = 8
      <3>1. task'.do # "commit"
        BY <1>12, <1>b, <2>1, <2>4 DEF CommitStep, Steps
      <3>2. CASE ~StillOK(o)
        <4>1. promise' = Absent
          BY <1>12, <2>0, <2>2, <3>2 DEF CommitStep
        <4>2. QED
          BY <3>1, <4>1 DEF CommitSoFar, PromiseKept
      <3>3. CASE StillOK(o)
        <4>1. promise' = [c \in Checked |-> Current(c)]
          BY <1>12, <2>0, <2>1, <2>4, <3>3 DEF CommitStep
        <4>2. ASSUME NEW c \in Checked PROVE Saved(c)' = promise'[c]
          <5>1. PICK i \in 1..8 : c = CommitOrder[i]
            BY <1>g, CommitOrderFacts
          <5>2. Saved(c)' = Current(c)
            BY <1>12, <2>0, <2>4, <3>3, <5>1, StoredSoFar
          <5>3. QED
            BY <4>1, <5>2
        <4>3. QED
          BY <3>1, <4>2 DEF CommitSoFar, PromiseKept
      <3>4. QED
        BY <3>2, <3>3
    <2>5. CASE task.step # 8
      <3>1. /\ task' = [task EXCEPT !.step = @ + 1, !.ok = StillOK(o)]
            /\ promise' = Absent /\ UNCHANGED config
        BY <1>12, <2>0, <2>1, <2>2, <2>5 DEF CommitStep
      <3>2. task'.step = task.step + 1 /\ task'.ok = StillOK(o) /\ task'.by = task.by
        BY <2>1, <3>1 DEF Tasks
      <3>3. \A c : Current(c)' = Current(c)
        BY <3>1, <3>2 DEF Current, config
      <3>4. ASSUME StillOK(o), NEW i \in 1..8, i < task.step + 1, CommitOrder[i] \in Checked
            PROVE  Saved(CommitOrder[i])' = Current(CommitOrder[i])'
        <4>1. PICK c \in Checked : c = CommitOrder[i]
          BY <3>4
        <4>2. Saved(c)' = Current(c)
          BY <1>12, <2>0, <2>1, <3>4, <4>1, StoredSoFar
        <4>3. QED
          BY <3>3, <4>1, <4>2
      <3>5. QED
        BY <3>1, <3>2, <3>4 DEF CommitSoFar, PromiseKept
    <2>6. QED
      BY <2>4, <2>5
  <1>13. CASE UNCHANGED vars
    <2>1. UNCHANGED <<kvs, ram, hostname, task, promise>>
      BY <1>13 DEF vars, flash, config, history
    <2>2. QED
      BY <2>1 DEF CommitSoFar, PromiseKept, Saved, Current
  <1>14. QED
    BY <1>1, <1>2, <1>3, <1>4, <1>5, <1>6, <1>7, <1>8, <1>9, <1>10, <1>11, <1>12, <1>13, Actions

-----------------------------------------------------------------------------
(* The theorems.                                                           *)

\* The inductive invariant holds in every reachable state.
THEOREM ConfigInvariant == Spec => []IInv
  <1>1. IInv /\ [Next]_vars => IInv'
    BY TypeStep, KeyStep, CleanStep, PromiseStep DEF IInv
  <1>2. QED
    BY <1>1, InitHolds, PTL DEF Spec

\* Every variable keeps its type; in particular the log never outgrows the flash, and
\* compacting it always fits.
THEOREM ConfigTypeCorrect == Spec => []TypeOK
  <1>1. IInv => TypeOK
    BY DEF IInv
  <1>2. QED
    BY <1>1, ConfigInvariant, PTL

\* The halves of the host key that are used or stored are those of one key, wherever
\* power fails while Initialize stores them.
THEOREM ConfigHostKeysMatch == Spec => []HostKeysMatch
  <1>1. IInv => HostKeysMatch
    BY DEF IInv
  <1>2. QED
    BY <1>1, ConfigInvariant, PTL

\* What nobody has changed since it was stored or loaded is what the flash says.
THEOREM ConfigCleanIsStored == Spec => []CleanIsStored
  <1>1. IInv => CleanIsStored
    BY DEF IInv
  <1>2. QED
    BY <1>1, ConfigInvariant, PTL

\* Every boot after a commit that reported no error brings back what it stored.
THEOREM ConfigCommittedComesBack == Spec => CommittedComesBack
  <1>1. ASSUME IInv, [Next]_vars, task.do \notin {"run", "commit"}, task'.do = "run",
               promise # Absent, NEW o \in Checked
        PROVE  promise[o] = IF o = "hostname" THEN hostname'[Console] ELSE ram'[o]
    <2>1. LoadConfig
      <3>1. UseStoredKey \/ StorePrivateKey \/ GenerateHostKey \/ StorePublicKey \/ Restart
            \/ CommitStep \/ Idle \/ UNCHANGED task
        BY <1>1 DEF Next, Boot, PowerFails, OnReload, Zeroize, OpenSession, Exit, SetHostname, Set,
                    RemoveFlashKey, Command, Compact, OnRollback, OnCommit, vars
      <3>2. ~(Idle \/ CommitStep \/ UNCHANGED task)
        BY <1>1 DEF Idle, CommitStep
      <3>3. ~(GenerateHostKey \/ StorePublicKey \/ Restart)
        <4>1. GenerateHostKey => task'.do = "store public key"
          BY Zenon, DoingIs DEF GenerateHostKey
        <4>2. StorePublicKey => task'.do = "store private key"
          BY Zenon, DoingIs DEF StorePublicKey
        <4>3. Restart => task'.do = "boot"
          BY Zenon, DoingIs DEF Restart
        <4>4. QED
          BY <1>1, <4>1, <4>2, <4>3
      <3>4. QED
        BY <3>1, <3>2, <3>3 DEF UseStoredKey, StorePrivateKey
    <2>2. Saved(o) = promise[o]
      BY <1>1 DEF IInv, PromiseKept
    <2>3. Console \in Sessions /\ (o # "hostname" => o \in Globals)
      BY DEF Sessions, Checked, Config
    <2>4. QED
      BY <2>1, <2>2, <2>3 DEF LoadConfig
  <1>2. IInv /\ [Next]_vars =>
            [task.do \notin {"run", "commit"} /\ task'.do = "run" /\ promise # Absent =>
                \A o \in Checked :
                    promise[o] = IF o = "hostname" THEN hostname'[Console] ELSE ram'[o]]_vars
    BY <1>1
  <1>3. QED
    BY <1>2, ConfigInvariant, PTL DEF Spec, CommittedComesBack
=============================================================================
