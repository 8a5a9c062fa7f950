--------------------------- MODULE ManagementConfig ---------------------------
(***************************************************************************)
(* The management processor's configuration: what the sessions of the      *)
(* command line show and change (LatentRedCLISessionContext), what the     *)
(* key-value store in flash holds, and how the two come together at boot   *)
(* (LatentRedSSHTransportServer and the loaders it calls) and at commit.   *)
(*                                                                         *)
(* A command runs to completion before another session gets its turn, so   *)
(* commands are single steps, except that power may fail between any two   *)
(* writes to the flash: commit and the creation of the SSH host key are    *)
(* one step per write.                                                     *)
(*                                                                         *)
(* The store is external: a log of CAPACITY records in which each write    *)
(* takes one and is atomic, and which compaction makes as short as it can  *)
(* be.  A value is a number; Default is what an absent object stands for.  *)
(***************************************************************************)
EXTENDS Integers, Sequences, FiniteSets

CONSTANTS
    SSHSessions,    \* sessions of the SSH server
    Console,        \* the session of the serial port
    Values,         \* what an object may be set to; Default is among them
    Default,
    Absent,         \* no such object in the store
    CAPACITY,       \* records the store has room for
    Removable,      \* the objects somebody may remove with "no flash"
    MaxEdits,       \* bound: configuration commands in a behaviour
    MaxBoots        \* bound: boots in a behaviour

Sessions == SSHSessions \cup {Console}

\* The objects in the order in which OnCommit stores them.
CommitOrder == <<"hostname", "ssh.username", "ssh.keys", "ntp",
                 "ip.address", "ip.netmask", "ip.broadcast", "ip.gateway">>
Addresses == {"ip.address", "ip.netmask", "ip.broadcast"}
Globals   == {"ssh.username", "ssh.keys", "ntp", "ip.gateway"} \cup Addresses
Config    == {"hostname"} \cup Globals
Objects   == Config \cup {"ssh.hostpub", "ssh.hostpriv"}

ASSUME ConfigAssumption ==
    /\ Console \notin SSHSessions
    /\ Values \subseteq Nat /\ Default \in Values /\ Absent \notin Nat
    /\ CAPACITY \in Nat /\ Removable \subseteq Config
    /\ MaxEdits \in Nat /\ MaxBoots \in Nat

VARIABLES
    kvs,        \* g_kvs: the latest record of each object
    used,       \* records in the log
    ram,        \* g_sshUsername, g_keyMgr, NTP and g_ipConfig
    hostname,   \* m_hostname of each session
    open,       \* sessions in use
    key,        \* the host key in use: its two halves
    task,       \* what the processor is doing: the step, the session, and whether it went well
    made,       \* host keys generated so far
    edits, boots,   \* commands and boots so far, for the bounds
    edited,     \* history: objects whose running value was set and not stored or loaded since
    promise     \* history: what the last commit that reported no error stored

flash == <<kvs, used>>
config == <<ram, hostname, open>>
history == <<edited, promise>>
vars == <<flash, config, key, task, made, edits, boots, history>>

NoKey == [pub |-> Absent, priv |-> Absent]
Doing(what) == [do |-> what, step |-> 1, by |-> Console, ok |-> TRUE]
Idle == task.do = "run"

Saved(o) == IF kvs[o] = Absent THEN Default ELSE kvs[o]

Init ==
    /\ kvs = [o \in Objects |-> Absent] /\ used = 0
    /\ ram = [o \in Globals |-> Default]
    /\ hostname = [s \in Sessions |-> Default]
    /\ open = {} /\ key = NoKey /\ made = 0
    /\ task = Doing("boot")
    /\ edits = 0 /\ boots = 0
    /\ edited = {} /\ promise = Absent

-----------------------------------------------------------------------------
(* Writing to the store.                                                   *)

RoomForOneMore == used <= CAPACITY                                     \* mutant
Room == used < CAPACITY

StoreObject(o, v) ==
    IF Room THEN kvs' = [kvs EXCEPT ![o] = v] /\ used' = used + 1
            ELSE UNCHANGED flash

\* StoreObjectIfNecessary: nothing is written when the store already says so,
\* or says nothing and the value is the default.
StoreIfNecessary(o, v) == IF Saved(o) = v THEN UNCHANGED flash ELSE StoreObject(o, v)
StoredOK(o, v) == Saved(o) = v \/ Room

-----------------------------------------------------------------------------
(* Boot.                                                                   *)

HostKeyFoundHalf == kvs["ssh.hostpub"] # Absent                         \* mutant
HostKeyFound == kvs["ssh.hostpub"] # Absent /\ kvs["ssh.hostpriv"] # Absent

\* ConfigureIP, LoadUsername, LoadFromKVS and, for the console, LoadHostname.
LoadConfig ==
    /\ ram' = [o \in Globals |-> Saved(o)]
    /\ hostname' = [s \in Sessions |-> IF s = Console THEN Saved("hostname") ELSE Default]
    /\ open' = {Console}
    /\ task' = Doing("run")

UseStoredKey ==
    /\ task.do = "boot" /\ HostKeyFound
    /\ key' = [pub |-> kvs["ssh.hostpub"], priv |-> kvs["ssh.hostpriv"]]
    /\ LoadConfig
    /\ UNCHANGED <<flash, made, edits, boots, history>>

GenerateHostKey ==
    /\ task.do = "boot" /\ ~HostKeyFound
    /\ made' = made + 1
    /\ key' = [pub |-> made', priv |-> made']
    /\ task' = Doing("store public key")
    /\ UNCHANGED <<flash, config, edits, boots, history>>

StorePublicKey ==
    /\ task.do = "store public key"
    /\ StoreObject("ssh.hostpub", key.pub)
    /\ task' = Doing("store private key")
    /\ UNCHANGED <<config, key, made, edits, boots, history>>

StorePrivateKey ==
    /\ task.do = "store private key"
    /\ StoreObject("ssh.hostpriv", key.priv)
    /\ LoadConfig
    /\ UNCHANGED <<key, made, edits, boots, history>>

\* Everything in RAM is gone.
Restart ==
    /\ boots < MaxBoots /\ boots' = boots + 1
    /\ ram' = [o \in Globals |-> Default] /\ hostname' = [s \in Sessions |-> Default]
    /\ open' = {} /\ key' = NoKey
    /\ task' = Doing("boot")
    /\ edited' = {}
    /\ UNCHANGED <<made, edits>>

PowerFails == Restart /\ UNCHANGED <<flash, promise>>

-----------------------------------------------------------------------------
(* Sessions.                                                               *)

\* InitializeShell and DoExecRequest: a new session loads the host name.
OpenSession(s) ==
    /\ Idle /\ s \in SSHSessions \ open
    /\ open' = open \cup {s}
    /\ hostname' = [hostname EXCEPT ![s] = Saved("hostname")]
    /\ UNCHANGED <<flash, ram, key, task, made, edits, boots, history>>

\* "exit", or the connection closes; on the console it does nothing.
Exit(s) ==
    /\ Idle /\ s \in SSHSessions \cap open
    /\ open' = open \ {s}
    /\ UNCHANGED <<flash, ram, hostname, key, task, made, edits, boots, history>>

Command == Idle /\ edits < MaxEdits /\ edits' = edits + 1
           /\ UNCHANGED <<open, key, made, boots>>

\* "hostname"
SetHostname(s, v) ==
    /\ Command
    /\ hostname' = [hostname EXCEPT ![s] = v]
    /\ UNCHANGED <<flash, ram, task, history>>

\* "ssh username", "ssh key", "no ssh key", "ntp server", "no ntp", "ip gateway"
\* set one object, "ip address" sets three.
Set(objects, v) ==
    /\ Command
    /\ ram' = [o \in Globals |-> IF o \in objects THEN v ELSE ram[o]]
    /\ edited' = edited \cup objects
    /\ UNCHANGED <<flash, hostname, task, promise>>

Settings == {{"ssh.username"}, {"ssh.keys"}, {"ntp"}, {"ip.gateway"}, Addresses}

\* "no flash": the object goes, the running configuration stays.
RemoveFlashKey(o) ==
    /\ Command /\ Room /\ kvs[o] # Absent
    /\ kvs' = [kvs EXCEPT ![o] = Absent] /\ used' = used + 1
    /\ edited' = edited \cup ({o} \cap Globals)
    /\ promise' = Absent
    /\ UNCHANGED <<ram, hostname, task>>

\* "flash compact"
Compact ==
    /\ Idle
    /\ used' = Cardinality({o \in Objects : kvs[o] # Absent})
    /\ UNCHANGED <<kvs, config, key, task, made, edits, boots, history>>

\* "rollback"
ReloadNoUsername == [o \in Globals |-> IF o = "ssh.username" THEN ram[o] ELSE Saved(o)] \* mutant
Reloaded == [o \in Globals |-> Saved(o)]

OnRollback(s) ==
    /\ Idle
    /\ ram' = Reloaded
    /\ hostname' = [hostname EXCEPT ![s] = Saved("hostname")]
    /\ edited' = {}
    /\ UNCHANGED <<flash, open, key, task, made, edits, boots, promise>>

\* "reload"
OnReload == Idle /\ Restart /\ UNCHANGED <<flash, promise>>

\* "zeroize all"
Zeroize ==
    /\ Idle /\ Restart
    /\ kvs' = [o \in Objects |-> Absent] /\ used' = 0
    /\ promise' = Absent

-----------------------------------------------------------------------------
(* "commit"                                                                *)

OnCommit(s) ==
    /\ Idle
    /\ task' = [Doing("commit") EXCEPT !.by = s]
    /\ promise' = Absent
    /\ UNCHANGED <<flash, config, key, made, edits, boots, edited>>

Current(o) == IF o = "hostname" THEN hostname[task.by] ELSE ram[o]

\* Whether storing the keys or the NTP configuration worked is not looked at.
Checked == Config \ {"ssh.keys", "ntp"}

StillOKLastOnly(o) == StoredOK(o, Current(o))                           \* mutant
StillOK(o) == task.ok /\ (o \in Checked => StoredOK(o, Current(o)))

CommitStep ==
    LET o == CommitOrder[task.step]
        last == task.step = Len(CommitOrder)
        stored == StoredOK(o, Current(o)) IN
    /\ task.do = "commit"
    /\ StoreIfNecessary(o, Current(o))
    /\ task' = IF last THEN Doing("run") ELSE [task EXCEPT !.step = @ + 1, !.ok = StillOK(o)]
    /\ promise' = IF last /\ StillOK(o) THEN [c \in Checked |-> Current(c)] ELSE promise
    /\ edited' = IF stored THEN edited \ {o} ELSE edited
    /\ UNCHANGED <<config, key, made, edits, boots>>

-----------------------------------------------------------------------------
Boot == UseStoredKey \/ GenerateHostKey \/ StorePublicKey \/ StorePrivateKey

Next ==
    \/ Boot
    \/ PowerFails
    \/ \E s \in SSHSessions : OpenSession(s) \/ Exit(s)
    \/ \E s \in open, v \in Values : SetHostname(s, v)
    \/ \E objects \in Settings, v \in Values : open # {} /\ Set(objects, v)
    \/ \E o \in Removable : RemoveFlashKey(o)
    \/ Compact
    \/ \E s \in open : OnRollback(s) \/ OnCommit(s)
    \/ OnReload
    \/ Zeroize
    \/ CommitStep

Spec == Init /\ [][Next]_vars

-----------------------------------------------------------------------------
(* Properties.                                                             *)

Stored == Nat \cup {Absent}

Steps == {"boot", "store public key", "store private key", "run", "commit"}
Tasks == [do : Steps, step : 1..Len(CommitOrder), by : Sessions, ok : BOOLEAN]

FlashOK   == kvs \in [Objects -> Stored] /\ used \in 0..CAPACITY
ConfigOK  == ram \in [Globals -> Nat] /\ hostname \in [Sessions -> Nat] /\ open \subseteq Sessions
TaskOK    == task \in Tasks /\ key \in [pub : Stored, priv : Stored]
CountsOK  == made \in Nat /\ edits \in Nat /\ boots \in Nat
HistoryOK ==
    /\ edited \subseteq Globals
    /\ promise \in {Absent} \cup [Checked -> Nat]

\* Every variable holds a value of its type, and the log is never longer than the flash.
TypeOK == FlashOK /\ ConfigOK /\ TaskOK /\ CountsOK /\ HistoryOK

\* The two halves of the SSH host key are stored one after the other.  Wherever
\* power fails and whichever of the writes finds the flash full, the server never
\* uses or stores halves of different keys, and once both are stored the key in use
\* is the one every later boot will use.
HostKeysMatch ==
    /\ key.pub = key.priv
    /\ kvs["ssh.hostpriv"] # Absent => kvs["ssh.hostpub"] = kvs["ssh.hostpriv"]
    /\ Idle => key.pub # Absent
    /\ Idle /\ kvs["ssh.hostpriv"] # Absent => key.pub = kvs["ssh.hostpub"]

\* A setting that nobody has changed since it was stored or loaded is what the flash
\* says: after boots, rollbacks, commits of which some writes failed and removals.
CleanIsStored == task.do \in {"run", "commit"} => \A o \in Globals \ edited : ram[o] = Saved(o)

\* When a commit has reported no error, the next boot brings back the host name, user
\* name and addresses it stored, whatever was typed or lost in between.
CommittedComesBack ==
    [][task.do \notin {"run", "commit"} /\ task'.do = "run" /\ promise # Absent =>
          \A o \in Checked :
              promise[o] = IF o = "hostname" THEN hostname'[Console] ELSE ram'[o]]_vars
=============================================================================
