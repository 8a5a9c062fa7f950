------------------------------ MODULE PhyPoll ------------------------------
(***************************************************************************)
(* The management processor's view of one line card: LatentRedPhyPollTask  *)
(* walks the card's PHYs over the shared MDIO controller, one register per *)
(* main loop pass, and keeps the interface table (PortState) up to date,   *)
(* while the command line ("show hardware") borrows the same controller    *)
(* to read the PHY temperatures.  A CooperativeMutex keeps the two apart.  *)
(*                                                                         *)
(* Everything runs on one core: the main loop gives the command line and   *)
(* the poll task their turns, and a command runs to completion before the  *)
(* loop goes on.  The command that finds the mutex taken calls the poll    *)
(* task itself until the mutex is free.  Beside the core run the MDIO      *)
(* controller, the PHYs and the timer.                                     *)
(***************************************************************************)
EXTENDS Integers, Sequences

CONSTANTS
    NUM_PHYS,      \* PHYs of the card (24 in the code)
    TempPhys,      \* the PHYs whose temperature "show hardware" reads, in order
    MaxChanges     \* bound: link changes in a behaviour

ASSUME NumPhysAssumption == NUM_PHYS \in Nat \ {0} /\ NUM_PHYS % 2 = 0

Phys == 0 .. NUM_PHYS - 1

ASSUME TempPhysAssumption == TempPhys \in Seq(Phys) /\ TempPhys # <<>>

Speeds == {"slow", "gigabit"}       \* LINK_SPEED_10M and _100M; LINK_SPEED_1000M
Registers == {"BASIC_STATUS", "BASIC_CONTROL", "AUX_CTRL_STAT", "TEMPERATURE", "LED_MODE"}

VARIABLES
    phy,       \* what each PHY is doing: link, speed, link lost since status was read
    mdio,      \* the MDIO controller: busy, the command, the answer to it
    mutex,     \* m_state.m_mutex is taken
    poll,      \* the poll task: m_currentPhy, m_pollState, m_linkStateChanged
    due,       \* the poll task's timer has expired
    table,     \* m_state.m_state[]: m_linkUp, and m_speed with m_fullDuplex
    led,       \* whether each PHY's LED1 mode register says on
    logged,    \* history: whether the log last called the link up
    cli,       \* the command in progress
    turn,      \* whose turn it is in the main loop
    changes    \* link changes so far

vars == <<phy, mdio, mutex, poll, due, table, led, logged, cli, turn, changes>>

Command == [reg : Registers, phy : Phys]
Link == [up : BOOLEAN, speed : Speeds]
DownLink == [up |-> FALSE, speed |-> "slow"]

Init ==
    /\ phy = [p \in Phys |-> [up |-> FALSE, speed |-> "slow", lost |-> FALSE]]
    /\ mdio = [busy |-> FALSE, cmd |-> [reg |-> "BASIC_STATUS", phy |-> 0], data |-> DownLink]
    /\ mutex = FALSE
    /\ poll = [phy |-> 0, state |-> "POLL_IDLE", changed |-> FALSE]
    /\ due = FALSE
    /\ table = [p \in Phys |-> DownLink]
    /\ led = [p \in Phys |-> FALSE]
    /\ logged = [p \in Phys |-> FALSE]
    /\ cli = [step |-> "idle", lane |-> 1]
    /\ turn = "poll"
    /\ changes = 0

-----------------------------------------------------------------------------
(* The MDIO controller and the PHYs.                                       *)

ReadyUnchecked == TRUE                                                  \* mutant
Ready == ~mdio.busy                                     \* m_mdio->status == 0

Issue(reg, p) == mdio' = [mdio EXCEPT !.busy = TRUE, !.cmd = [reg |-> reg, phy |-> p]]

\* The controller finishes a read.  The link bit of the status register stays
\* low, once the link was lost, until the register has been read.
MDIOCompletes ==
    LET p == mdio.cmd.phy IN
    /\ mdio.busy
    /\ mdio' = [mdio EXCEPT !.busy = FALSE,
                            !.data = [up    |-> phy[p].up /\ ~phy[p].lost,
                                      speed |-> phy[p].speed]]
    /\ phy' = IF mdio.cmd.reg = "BASIC_STATUS" THEN [phy EXCEPT ![p].lost = FALSE] ELSE phy
    /\ UNCHANGED <<mutex, poll, due, table, led, logged, cli, turn, changes>>

LinkChanges(p) ==
    /\ changes < MaxChanges
    /\ changes' = changes + 1
    /\ \/ /\ phy[p].up
          /\ phy' = [phy EXCEPT ![p] = [up |-> FALSE, speed |-> "slow", lost |-> TRUE]]
       \/ /\ ~phy[p].up
          /\ \E s \in Speeds :
                 phy' = [phy EXCEPT ![p] = [up |-> TRUE, speed |-> s, lost |-> @.lost]]
    /\ UNCHANGED <<mdio, mutex, poll, due, table, led, logged, cli, turn>>

TimerExpires ==
    /\ ~due
    /\ due' = TRUE
    /\ UNCHANGED <<phy, mdio, mutex, poll, table, led, logged, cli, turn, changes>>

-----------------------------------------------------------------------------
(* The poll task.                                                          *)

CycleDoneOffByOne(q) == q.phy > NUM_PHYS                                \* mutant
CycleDone(q) == q.phy >= NUM_PHYS

Restarted == [phy |-> 0, state |-> "POLL_IDLE", changed |-> FALSE]

OnTimerAlways(q) == Restarted                                           \* mutant
OnTimer(q) == IF CycleDone(q) THEN Restarted ELSE q

\* CooperativeMutex: a flag, since nothing preempts the core.
TryLock == ~mutex /\ mutex' = TRUE

PollIdle(q) ==
    /\ q.state = "POLL_IDLE"
    /\ \/ /\ TryLock
          /\ Issue("BASIC_STATUS", q.phy)
          /\ poll' = [q EXCEPT !.state = "POLL_STATUS"]
       \/ /\ mutex
          /\ poll' = q
          /\ UNCHANGED <<mutex, mdio>>
    /\ UNCHANGED <<table, led, logged>>

LinkStateCameUp(q) == mdio.data.up /\ ~table[q.phy].up                   \* mutant
LinkStateChanged(q) == table[q.phy].up # mdio.data.up

PollStatus(q) ==
    /\ q.state = "POLL_STATUS" /\ Ready
    /\ table' = [table EXCEPT ![q.phy].up = mdio.data.up]
    /\ poll' = [q EXCEPT !.changed = LinkStateChanged(q), !.state = "POLL_CTRL"]
    /\ Issue("BASIC_CONTROL", q.phy)
    /\ UNCHANGED <<mutex, led, logged>>

PollCtrl(q) ==
    /\ q.state = "POLL_CTRL" /\ Ready
    /\ Issue("AUX_CTRL_STAT", q.phy)
    /\ poll' = [q EXCEPT !.state = "POLL_EXT_STAT"]
    /\ UNCHANGED <<mutex, table, led, logged>>

\* Even and odd ports of the v0.1 line card have each other's LED1.
LedPhyNoSwap(p) == p                                                    \* mutant
LedPhy(p) == IF p % 2 = 0 THEN p + 1 ELSE p - 1                         \* p ^ 1

Led1On(link) == link.speed # "gigabit" /\ link.up

\* Report waits for the LED register's write, so the controller is free after it.
Report(q) ==
    /\ logged' = [logged EXCEPT ![q.phy] = table[q.phy].up]
    /\ led' = [led EXCEPT ![LedPhy(q.phy)] =
                   Led1On([up |-> table[q.phy].up, speed |-> mdio.data.speed])]
    /\ mdio' = [mdio EXCEPT !.cmd = [reg |-> "LED_MODE", phy |-> LedPhy(q.phy)]]

PollExtStat(q) ==
    /\ q.state = "POLL_EXT_STAT" /\ Ready
    /\ table' = [table EXCEPT ![q.phy].speed = mdio.data.speed]
    /\ IF q.changed THEN Report(q) ELSE UNCHANGED <<logged, led, mdio>>
    /\ poll' = [q EXCEPT !.phy = q.phy + 1, !.state = "POLL_IDLE"]
    /\ mutex' = FALSE

PollWaits(q) ==
    /\ CycleDone(q) \/ (q.state # "POLL_IDLE" /\ ~Ready)
    /\ poll' = q
    /\ UNCHANGED <<mdio, mutex, table, led, logged>>

PollPHYs(q) ==
    \/ PollWaits(q)
    \/ /\ ~CycleDone(q)
       /\ PollIdle(q) \/ PollStatus(q) \/ PollCtrl(q) \/ PollExtStat(q)

\* TimerTask calls OnTimer when the period is over, then the task polls.
Iteration ==
    /\ due' = FALSE
    /\ PollPHYs(IF due THEN OnTimer(poll) ELSE poll)
    /\ UNCHANGED <<phy, changes>>

-----------------------------------------------------------------------------
(* The main loop and the command line.                                     *)

PollTurn ==
    /\ turn = "poll"
    /\ turn' = "cli"
    /\ Iteration
    /\ UNCHANGED cli

NoCommand ==
    /\ turn = "cli" /\ cli.step = "idle"
    /\ turn' = "poll"
    /\ UNCHANGED <<phy, mdio, mutex, poll, due, table, led, logged, cli, changes>>

ShowHardware ==
    /\ turn = "cli" /\ cli.step = "idle"
    /\ cli' = [step |-> "lock", lane |-> 1]
    /\ UNCHANGED <<phy, mdio, mutex, poll, due, table, led, logged, turn, changes>>

CliMayStartWhenReady == Ready                                           \* mutant
CliMayStart == ~mutex

\* while(!TryLock()) m_pollTask.Iteration();
WhileLockedIdle == UNCHANGED <<phy, mdio, mutex, poll, due, table, led, logged, changes>> \* mutant
WhileLocked == Iteration

SpinOnMutex ==
    /\ cli.step = "lock" /\ ~CliMayStart
    /\ WhileLocked
    /\ UNCHANGED <<cli, turn>>

TakeMutex ==
    /\ cli.step = "lock" /\ CliMayStart
    /\ mutex' = TRUE
    /\ Issue("TEMPERATURE", TempPhys[1])
    /\ cli' = [step |-> "read", lane |-> 1]
    /\ UNCHANGED <<phy, poll, due, table, led, logged, turn, changes>>

NextTemperature ==
    /\ cli.step = "read" /\ Ready /\ cli.lane < Len(TempPhys)
    /\ Issue("TEMPERATURE", TempPhys[cli.lane + 1])
    /\ cli' = [cli EXCEPT !.lane = @ + 1]
    /\ UNCHANGED <<phy, mutex, poll, due, table, led, logged, turn, changes>>

CommandDone ==
    /\ cli.step = "read" /\ Ready /\ cli.lane = Len(TempPhys)
    /\ mutex' = FALSE
    /\ cli' = [step |-> "idle", lane |-> 1]
    /\ turn' = "poll"
    /\ UNCHANGED <<phy, mdio, poll, due, table, led, logged, changes>>

Core ==
    \/ PollTurn
    \/ NoCommand
    \/ ShowHardware
    \/ SpinOnMutex
    \/ TakeMutex
    \/ NextTemperature
    \/ CommandDone

Next ==
    \/ Core
    \/ MDIOCompletes
    \/ TimerExpires
    \/ \E p \in Phys : LinkChanges(p)

Spec == Init /\ [][Next]_vars

\* The core never stops, the controller finishes what it started and the timer
\* keeps expiring.  Nobody has to change a link or to type a command.
FairSpec ==
    /\ Spec
    /\ WF_vars(Core)
    /\ WF_vars(MDIOCompletes)
    /\ WF_vars(TimerExpires)

-----------------------------------------------------------------------------
(* Properties.                                                             *)

\* Every variable holds a value of its type; m_currentPhy never leaves 0 .. 24.
TypeOK ==
    /\ phy \in [Phys -> [up : BOOLEAN, speed : Speeds, lost : BOOLEAN]]
    /\ mdio \in [busy : BOOLEAN, cmd : Command, data : Link]
    /\ mutex \in BOOLEAN
    /\ poll \in [phy : 0 .. NUM_PHYS, changed : BOOLEAN,
                 state : {"POLL_IDLE", "POLL_STATUS", "POLL_CTRL", "POLL_EXT_STAT"}]
    /\ due \in BOOLEAN
    /\ table \in [Phys -> Link]
    /\ led \in [Phys -> BOOLEAN]
    /\ logged \in [Phys -> BOOLEAN]
    /\ cli \in [step : {"idle", "lock", "read"}, lane : 1 .. Len(TempPhys)]
    /\ turn \in {"poll", "cli"}
    /\ changes \in Nat

Polling == poll.state # "POLL_IDLE"
Reading == cli.step = "read"

\* The poll task's three-register walk over a PHY and a command's temperature
\* readings never overlap, and the mutex is held exactly while one of them is
\* under way: it is neither lost nor leaked.
MDIOExclusive ==
    /\ ~(Polling /\ Reading)
    /\ mutex <=> Polling \/ Reading

PollRegister ==
    [POLL_STATUS |-> "BASIC_STATUS", POLL_CTRL |-> "BASIC_CONTROL",
     POLL_EXT_STAT |-> "AUX_CTRL_STAT"][poll.state]

\* The controller has one data register and no tag: what the poll task or the
\* command will find in it is the answer to the question it asked itself.
AnswerIsMine ==
    /\ Polling => mdio.cmd = [reg |-> PollRegister, phy |-> poll.phy]
    /\ Reading => mdio.cmd = [reg |-> "TEMPERATURE", phy |-> TempPhys[cli.lane]]

\* No command is written to the controller while a transaction is on the wire.
NeverInterrupted == [][mdio.busy => mdio'.cmd = mdio.cmd]_mdio

\* The log and the interface table say the same of every link, except for the
\* PHY being polled, and then the task remembers that it has to log the change.
LogKeepsUp ==
    \A p \in Phys : logged[p] # table[p].up =>
        poll.phy = p /\ poll.changed /\ poll.state \in {"POLL_CTRL", "POLL_EXT_STAT"}

\* Once the links stop changing, the interface table shows every one of them as it is,
\* speed and duplex included, and every port's LED1, which the neighbouring PHY drives,
\* is on exactly when the port's link is up below gigabit speed; and that for good.
TableAndLedSettle ==
    <>[](\A p \in Phys :
            /\ table[p] = [up |-> phy[p].up, speed |-> phy[p].speed]
            /\ led[IF p % 2 = 0 THEN p + 1 ELSE p - 1] <=> phy[p].up /\ phy[p].speed # "gigabit")

\* A command that waits for the mutex gets it and finishes, and the main loop
\* goes on: the caller makes the task that holds the mutex progress.
CommandServed == cli.step = "lock" ~> (cli.step = "idle" /\ turn = "poll")
=============================================================================
