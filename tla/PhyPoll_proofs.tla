--------------------------- MODULE PhyPoll_proofs ---------------------------
(***************************************************************************)
(* Type correctness, the exclusive use of the MDIO controller and the      *)
(* agreement of log and interface table, for any number of PHYs, any list  *)
(* of temperature readings and any number of link changes.                 *)
(*                                                                         *)
(* The invariants the runs check are inductive together with Strengthening:*)
(* the poll task never holds the mutex beyond the last PHY, and no         *)
(* transaction is on the wire while the mutex is free.                     *)
(***************************************************************************)
EXTENDS PhyPoll, TLAPS

Strengthening ==
    /\ Polling => poll.phy \in Phys
    /\ mdio.busy => mutex

IInv == TypeOK /\ MDIOExclusive /\ AnswerIsMine /\ LogKeepsUp /\ Strengthening

\* The PHY whose register drives a port's LED1 is a PHY of the same card.
LEMMA LedPhyIsAPhy == \A p \in Phys : LedPhy(p) \in Phys
  BY NumPhysAssumption DEF LedPhy, Phys

\* TempPhys is a non-empty sequence of PHYs.
LEMMA TempPhysFacts ==
    /\ Len(TempPhys) \in Nat \ {0}
    /\ \A i \in 1 .. Len(TempPhys) : TempPhys[i] \in Phys
    /\ 0 \in Phys
  BY TempPhysAssumption, NumPhysAssumption DEF Phys

\* The initial state satisfies the inductive invariant.
LEMMA InitHolds == Init => IInv
  <1> SUFFICES ASSUME Init PROVE IInv
    OBVIOUS
  <1>1. TypeOK
    <2>1. DownLink \in Link /\ [reg |-> "BASIC_STATUS", phy |-> 0] \in Command
      BY TempPhysFacts DEF DownLink, Link, Speeds, Command, Registers
    <2>2. /\ phy \in [Phys -> [up : BOOLEAN, speed : Speeds, lost : BOOLEAN]]
          /\ table \in [Phys -> Link]
          /\ led \in [Phys -> BOOLEAN] /\ logged \in [Phys -> BOOLEAN]
      BY <2>1 DEF Init, Speeds
    <2>3. mdio \in [busy : BOOLEAN, cmd : Command, data : Link]
      BY <2>1 DEF Init
    <2>4. poll \in [phy : 0 .. NUM_PHYS, changed : BOOLEAN,
                   state : {"POLL_IDLE", "POLL_STATUS", "POLL_CTRL", "POLL_EXT_STAT"}]
      BY NumPhysAssumption DEF Init
    <2>5. cli \in [step : {"idle", "lock", "read"}, lane : 1 .. Len(TempPhys)]
      BY TempPhysFacts DEF Init
    <2>6. QED
      BY <2>2, <2>3, <2>4, <2>5 DEF Init, TypeOK
  <1>2. ~Polling /\ ~Reading /\ ~mutex /\ ~mdio.busy
    BY DEF Init, Polling, Reading
  <1>3. \A p \in Phys : logged[p] = table[p].up
    BY DEF Init, DownLink
  <1>4. QED
    BY <1>1, <1>2, <1>3 DEF IInv, MDIOExclusive, AnswerIsMine, LogKeepsUp, Strengthening

\* What a timer expiry makes of the poll task: either nothing, or, between
\* cycles, a fresh start.
LEMMA OnTimerFacts ==
    ASSUME IInv, NEW q, q = IF due THEN OnTimer(poll) ELSE poll
    PROVE  /\ q = poll \/ (q = Restarted /\ ~Polling)
           /\ q \in [phy : 0 .. NUM_PHYS, changed : BOOLEAN,
                     state : {"POLL_IDLE", "POLL_STATUS", "POLL_CTRL", "POLL_EXT_STAT"}]
           /\ ~CycleDone(q) => q.phy \in Phys
           /\ q.state = poll.state
  <1>1. poll.phy >= NUM_PHYS => poll.state = "POLL_IDLE"
    BY NumPhysAssumption DEF IInv, Strengthening, Polling, Phys
  <1>2. q = poll \/ (q = Restarted /\ ~Polling)
    BY <1>1 DEF OnTimer, CycleDone, Polling
  <1>3. q.state = poll.state
    BY <1>2 DEF Restarted, Polling
  <1>4. q \in [phy : 0 .. NUM_PHYS, changed : BOOLEAN,
               state : {"POLL_IDLE", "POLL_STATUS", "POLL_CTRL", "POLL_EXT_STAT"}]
    <2>1. Restarted \in [phy : 0 .. NUM_PHYS, changed : BOOLEAN,
                        state : {"POLL_IDLE", "POLL_STATUS", "POLL_CTRL", "POLL_EXT_STAT"}]
      BY NumPhysAssumption DEF Restarted
    <2>2. QED
      BY <1>2, <2>1 DEF IInv, TypeOK
  <1>5. ~CycleDone(q) => q.phy \in Phys
    BY <1>4, NumPhysAssumption DEF CycleDone, Phys
  <1>6. QED
    BY <1>2, <1>3, <1>4, <1>5

\* Whatever the poll task does in one pass, called from the main loop or from a
\* command that waits for the mutex, keeps the inductive invariant.
LEMMA IterationHolds ==
    ASSUME IInv, Iteration, cli' = cli, turn' \in {"poll", "cli"}
    PROVE  IInv'
  <1> DEFINE q == IF due THEN OnTimer(poll) ELSE poll
  <1>1. /\ q = poll \/ (q = Restarted /\ ~Polling)
        /\ q \in [phy : 0 .. NUM_PHYS, changed : BOOLEAN,
                  state : {"POLL_IDLE", "POLL_STATUS", "POLL_CTRL", "POLL_EXT_STAT"}]
        /\ ~CycleDone(q) => q.phy \in Phys
        /\ q.state = poll.state
    BY OnTimerFacts
  <1>2. /\ PollPHYs(q)
        /\ UNCHANGED <<phy, changes, cli>>
        /\ due' = FALSE
        /\ turn' \in {"poll", "cli"}
    BY DEF Iteration
  <1> HIDE DEF q
  <1>3. IInv /\ TypeOK /\ MDIOExclusive /\ AnswerIsMine /\ LogKeepsUp /\ Strengthening
    BY DEF IInv
  <1>4. CASE PollWaits(q)
    <2>1. /\ UNCHANGED <<mdio, mutex, table, led, logged>>
          /\ poll' = q
      BY <1>4 DEF PollWaits
    <2>2. TypeOK'
      BY <1>1, <1>2, <1>3, <2>1 DEF TypeOK
    <2>3. CASE q = poll
      BY <1>2, <1>3, <2>1, <2>2, <2>3
         DEF IInv, MDIOExclusive, AnswerIsMine, LogKeepsUp, Strengthening,
             Polling, Reading, PollRegister
    <2>4. CASE q = Restarted /\ ~Polling
      <3>1. ~Polling' /\ Reading' = Reading
        BY <1>2, <2>1, <2>4 DEF Polling, Reading, Restarted
      <3>2. \A p \in Phys : logged[p] = table[p].up
        BY <1>3, <2>4 DEF LogKeepsUp, Polling
      <3>3. QED
        BY <1>2, <1>3, <2>1, <2>2, <2>4, <3>1, <3>2
           DEF IInv, MDIOExclusive, AnswerIsMine, LogKeepsUp, Strengthening
    <2>5. QED
      BY <1>1, <2>3, <2>4
  <1>5. CASE ~CycleDone(q) /\ PollIdle(q)
    <2>1. ~Polling /\ q.phy \in Phys /\ q.state = "POLL_IDLE"
      BY <1>1, <1>5 DEF PollIdle, Polling
    <2>2. \A p \in Phys : logged[p] = table[p].up
      BY <1>3, <2>1 DEF LogKeepsUp, Polling
    <2>3. UNCHANGED <<table, led, logged>>
      BY <1>5 DEF PollIdle
    <2>4. CASE TryLock /\ Issue("BASIC_STATUS", q.phy) /\ poll' = [q EXCEPT !.state = "POLL_STATUS"]
      <3>1. /\ mutex' = TRUE /\ ~mutex /\ ~Reading
            /\ poll'.state = "POLL_STATUS" /\ poll'.phy = q.phy /\ Polling'
            /\ mdio'.cmd = [reg |-> "BASIC_STATUS", phy |-> q.phy]
        BY <1>1, <1>3, <2>4 DEF TryLock, Issue, MDIOExclusive, Polling, TypeOK
      <3>2. TypeOK'
        BY <1>1, <1>2, <1>3, <2>1, <2>3, <2>4, <3>1
           DEF TypeOK, Issue, Command, Registers
      <3>3. QED
        BY <1>2, <1>3, <2>1, <2>2, <2>3, <3>1, <3>2
           DEF IInv, MDIOExclusive, AnswerIsMine, LogKeepsUp, Strengthening, Reading, PollRegister
    <2>5. CASE mutex /\ poll' = q /\ UNCHANGED <<mutex, mdio>>
      <3>1. TypeOK'
        BY <1>1, <1>2, <1>3, <2>3, <2>5 DEF TypeOK
      <3>2. ~Polling' /\ Reading' = Reading
        BY <1>2, <2>1, <2>5 DEF Polling, Reading
      <3>3. QED
        BY <1>2, <1>3, <2>1, <2>2, <2>3, <2>5, <3>1, <3>2
           DEF IInv, MDIOExclusive, AnswerIsMine, LogKeepsUp, Strengthening
    <2>6. QED
      BY <1>5, <2>4, <2>5 DEF PollIdle
  <1>6. CASE ~CycleDone(q) /\ PollStatus(q)
    <2>1. /\ q = poll /\ Polling /\ q.phy \in Phys /\ poll.state = "POLL_STATUS"
          /\ ~Reading /\ mutex
      BY <1>1, <1>3, <1>6 DEF PollStatus, Polling, MDIOExclusive
    <2>2. /\ table' = [table EXCEPT ![poll.phy].up = mdio.data.up]
          /\ poll' = [poll EXCEPT !.changed = LinkStateChanged(poll), !.state = "POLL_CTRL"]
          /\ Issue("BASIC_CONTROL", poll.phy)
          /\ UNCHANGED <<mutex, led, logged>>
      BY <1>6, <2>1 DEF PollStatus
    <2>3. /\ poll'.phy = poll.phy /\ poll'.state = "POLL_CTRL" /\ Polling'
          /\ poll'.changed = (table[poll.phy].up # mdio.data.up)
          /\ mdio'.cmd = [reg |-> "BASIC_CONTROL", phy |-> poll.phy]
      BY <1>3, <2>2 DEF TypeOK, Issue, Polling, LinkStateChanged
    <2>4. TypeOK'
      BY <1>2, <1>3, <2>1, <2>2
         DEF TypeOK, Issue, Command, Registers, Link, LinkStateChanged
    <2>5. LogKeepsUp'
      <3>1. \A p \in Phys : logged[p] = table[p].up
        BY <1>3, <2>1 DEF LogKeepsUp
      <3>2. \A p \in Phys : p # poll.phy => table'[p].up = table[p].up
        BY <1>3, <2>1, <2>2 DEF TypeOK
      <3>3. table'[poll.phy].up = mdio.data.up
        BY <1>3, <2>1, <2>2 DEF TypeOK, Link
      <3>4. QED
        BY <2>1, <2>2, <2>3, <3>1, <3>2, <3>3 DEF LogKeepsUp
    <2>6. QED
      BY <1>2, <1>3, <2>1, <2>2, <2>3, <2>4, <2>5
         DEF IInv, MDIOExclusive, AnswerIsMine, Strengthening, Reading, PollRegister
  <1>7. CASE ~CycleDone(q) /\ PollCtrl(q)
    <2>1. /\ q = poll /\ Polling /\ q.phy \in Phys /\ poll.state = "POLL_CTRL"
          /\ ~Reading /\ mutex
      BY <1>1, <1>3, <1>7 DEF PollCtrl, Polling, MDIOExclusive
    <2>2. /\ Issue("AUX_CTRL_STAT", poll.phy)
          /\ poll' = [poll EXCEPT !.state = "POLL_EXT_STAT"]
          /\ UNCHANGED <<mutex, table, led, logged>>
      BY <1>7, <2>1 DEF PollCtrl
    <2>3. /\ poll'.phy = poll.phy /\ poll'.state = "POLL_EXT_STAT" /\ Polling'
          /\ poll'.changed = poll.changed
          /\ mdio'.cmd = [reg |-> "AUX_CTRL_STAT", phy |-> poll.phy]
      BY <1>3, <2>2 DEF TypeOK, Issue, Polling
    <2>4. TypeOK'
      BY <1>2, <1>3, <2>1, <2>2 DEF TypeOK, Issue, Command, Registers
    <2>5. QED
      BY <1>2, <1>3, <2>1, <2>2, <2>3, <2>4
         DEF IInv, MDIOExclusive, AnswerIsMine, LogKeepsUp, Strengthening, Reading, PollRegister
  <1>8. CASE ~CycleDone(q) /\ PollExtStat(q)
    <2>1. /\ q = poll /\ Polling /\ q.phy \in Phys /\ poll.state = "POLL_EXT_STAT"
          /\ ~Reading /\ mutex /\ ~mdio.busy
      BY <1>1, <1>3, <1>8 DEF PollExtStat, Polling, MDIOExclusive, Ready
    <2>2. /\ table' = [table EXCEPT ![poll.phy].speed = mdio.data.speed]
          /\ poll' = [poll EXCEPT !.phy = poll.phy + 1, !.state = "POLL_IDLE"]
          /\ mutex' = FALSE
          /\ IF poll.changed THEN Report(poll) ELSE UNCHANGED <<logged, led, mdio>>
      BY <1>8, <2>1 DEF PollExtStat
    <2>3. ~Polling' /\ Reading' = Reading
      BY <1>2, <1>3, <2>2 DEF TypeOK, Polling, Reading
    <2>4. /\ logged' \in [Phys -> BOOLEAN]
          /\ led' \in [Phys -> BOOLEAN]
          /\ mdio' \in [busy : BOOLEAN, cmd : Command, data : Link]
      <3>1. CASE poll.changed
        <4>1. LedPhy(poll.phy) \in Phys
          BY <2>1, LedPhyIsAPhy
        <4>2. /\ logged' = [logged EXCEPT ![poll.phy] = table[poll.phy].up]
              /\ led' = [led EXCEPT ![LedPhy(poll.phy)] =
                             Led1On([up |-> table[poll.phy].up, speed |-> mdio.data.speed])]
              /\ mdio' = [mdio EXCEPT !.cmd = [reg |-> "LED_MODE", phy |-> LedPhy(poll.phy)]]
          BY <2>2, <3>1 DEF Report
        <4>3. table[poll.phy].up \in BOOLEAN
          BY <1>3, <2>1 DEF TypeOK, Link
        <4>4. Led1On([up |-> table[poll.phy].up, speed |-> mdio.data.speed]) \in BOOLEAN
          BY <4>3 DEF Led1On
        <4>5. [reg |-> "LED_MODE", phy |-> LedPhy(poll.phy)] \in Command
          BY <4>1 DEF Command, Registers
        <4>6. QED
          BY <1>3, <4>2, <4>3, <4>4, <4>5 DEF TypeOK
      <3>2. CASE ~poll.changed
        BY <1>3, <2>2, <3>2 DEF TypeOK
      <3>3. QED
        BY <3>1, <3>2
    <2>5. TypeOK'
      <3>1. poll.phy + 1 \in 0 .. NUM_PHYS
        BY <2>1, NumPhysAssumption DEF Phys
      <3>2. poll' \in [phy : 0 .. NUM_PHYS, changed : BOOLEAN,
                       state : {"POLL_IDLE", "POLL_STATUS", "POLL_CTRL", "POLL_EXT_STAT"}]
        BY <1>3, <2>2, <3>1 DEF TypeOK
      <3>3. table' \in [Phys -> Link]
        BY <1>3, <2>1, <2>2 DEF TypeOK, Link
      <3>4. QED
        BY <1>2, <1>3, <2>2, <2>4, <3>2, <3>3 DEF TypeOK
    <2>6. LogKeepsUp'
      <3>1. \A p \in Phys : table'[p].up = table[p].up
        BY <1>3, <2>1, <2>2 DEF TypeOK, Link
      <3>2. \A p \in Phys : logged'[p] = table[p].up
        <4>1. CASE poll.changed
          <5>1. logged' = [logged EXCEPT ![poll.phy] = table[poll.phy].up]
            BY <2>2, <4>1 DEF Report
          <5>2. QED
            BY <1>3, <5>1 DEF LogKeepsUp, TypeOK
        <4>2. CASE ~poll.changed
          BY <1>3, <2>2, <4>2 DEF LogKeepsUp
        <4>3. QED
          BY <4>1, <4>2
      <3>3. QED
        BY <3>1, <3>2 DEF LogKeepsUp
    <2>7. ~mdio'.busy
      BY <1>3, <2>1, <2>2 DEF Report, TypeOK
    <2>8. QED
      BY <1>2, <2>1, <2>2, <2>3, <2>5, <2>6, <2>7
         DEF IInv, MDIOExclusive, AnswerIsMine, Strengthening
  <1>9. QED
    BY <1>2, <1>4, <1>5, <1>6, <1>7, <1>8 DEF PollPHYs

\* Every step of the system keeps the inductive invariant.
LEMMA StepHolds == IInv /\ [Next]_vars => IInv'
  <1> SUFFICES ASSUME IInv, [Next]_vars PROVE IInv'
    OBVIOUS
  <1> USE DEF Polling, Reading
  <1>0. TypeOK /\ MDIOExclusive /\ AnswerIsMine /\ LogKeepsUp /\ Strengthening
    BY DEF IInv
  <1>1. CASE PollTurn
    BY <1>1, IterationHolds DEF PollTurn
  <1>2. CASE NoCommand
    BY <1>0, <1>2
       DEF NoCommand, IInv, TypeOK, MDIOExclusive, AnswerIsMine, LogKeepsUp, Strengthening,
           PollRegister
  <1>3. CASE ShowHardware
    <2>1. /\ cli.step = "idle" /\ cli' = [step |-> "lock", lane |-> 1]
          /\ UNCHANGED <<phy, mdio, mutex, poll, due, table, led, logged, turn, changes>>
      BY <1>3 DEF ShowHardware
    <2>2. cli' \in [step : {"idle", "lock", "read"}, lane : 1 .. Len(TempPhys)]
      BY <2>1, TempPhysFacts
    <2>3. QED
      BY <1>0, <2>1, <2>2
         DEF IInv, TypeOK, MDIOExclusive, AnswerIsMine, LogKeepsUp, Strengthening, PollRegister
  <1>4. CASE SpinOnMutex
    BY <1>0, <1>4, IterationHolds DEF SpinOnMutex, WhileLocked, TypeOK
  <1>5. CASE TakeMutex
    <2>1. /\ ~mutex /\ mutex' = TRUE
          /\ Issue("TEMPERATURE", TempPhys[1])
          /\ cli' = [step |-> "read", lane |-> 1]
          /\ UNCHANGED <<phy, poll, due, table, led, logged, turn, changes>>
      BY <1>5 DEF TakeMutex, CliMayStart
    <2>2. ~Polling /\ ~Polling' /\ Reading'
      BY <1>0, <2>1 DEF MDIOExclusive
    <2>3. mdio'.cmd = [reg |-> "TEMPERATURE", phy |-> TempPhys[1]]
      BY <1>0, <2>1 DEF Issue, TypeOK
    <2>4. mdio' \in [busy : BOOLEAN, cmd : Command, data : Link]
      <3>1. TempPhys[1] \in Phys
        BY TempPhysFacts
      <3>2. QED
        BY <1>0, <2>1, <3>1 DEF Issue, TypeOK, Command, Registers
    <2>5. cli' \in [step : {"idle", "lock", "read"}, lane : 1 .. Len(TempPhys)]
      BY <2>1, TempPhysFacts
    <2>6. QED
      BY <1>0, <2>1, <2>2, <2>3, <2>4, <2>5
         DEF IInv, TypeOK, MDIOExclusive, AnswerIsMine, LogKeepsUp, Strengthening
  <1>6. CASE NextTemperature
    <2>1. /\ cli.step = "read" /\ cli.lane < Len(TempPhys)
          /\ Issue("TEMPERATURE", TempPhys[cli.lane + 1])
          /\ cli' = [cli EXCEPT !.lane = cli.lane + 1]
          /\ UNCHANGED <<phy, mutex, poll, due, table, led, logged, turn, changes>>
      BY <1>6 DEF NextTemperature
    <2>2. cli.lane + 1 \in 1 .. Len(TempPhys)
      BY <1>0, <2>1, TempPhysFacts DEF TypeOK
    <2>3. cli' \in [step : {"idle", "lock", "read"}, lane : 1 .. Len(TempPhys)]
          /\ cli'.lane = cli.lane + 1 /\ cli'.step = cli.step
      BY <1>0, <2>1, <2>2 DEF TypeOK
    <2>4. mdio' \in [busy : BOOLEAN, cmd : Command, data : Link]
      BY <1>0, <2>1, <2>2, TempPhysFacts DEF Issue, TypeOK, Command, Registers
    <2>5. mdio'.cmd = [reg |-> "TEMPERATURE", phy |-> TempPhys[cli.lane + 1]]
      BY <1>0, <2>1 DEF Issue, TypeOK
    <2>6. ~Polling
      BY <1>0, <2>1 DEF MDIOExclusive
    <2>7. QED
      BY <1>0, <2>1, <2>3, <2>4, <2>5, <2>6
         DEF IInv, TypeOK, MDIOExclusive, AnswerIsMine, LogKeepsUp, Strengthening
  <1>7. CASE CommandDone
    <2>1. /\ cli.step = "read" /\ ~mdio.busy /\ mutex' = FALSE /\ turn' = "poll"
          /\ cli' = [step |-> "idle", lane |-> 1]
          /\ UNCHANGED <<phy, mdio, poll, due, table, led, logged, changes>>
      BY <1>7 DEF CommandDone, Ready
    <2>2. ~Polling /\ ~Polling' /\ ~Reading'
      BY <1>0, <2>1 DEF MDIOExclusive
    <2>3. cli' \in [step : {"idle", "lock", "read"}, lane : 1 .. Len(TempPhys)]
      BY <2>1, TempPhysFacts
    <2>4. QED
      BY <1>0, <2>1, <2>2, <2>3
         DEF IInv, TypeOK, MDIOExclusive, AnswerIsMine, LogKeepsUp, Strengthening
  <1>8. CASE MDIOCompletes
    <2>1. /\ mdio' = [mdio EXCEPT !.busy = FALSE,
                                  !.data = [up    |-> phy[mdio.cmd.phy].up /\ ~phy[mdio.cmd.phy].lost,
                                            speed |-> phy[mdio.cmd.phy].speed]]
          /\ phy' = IF mdio.cmd.reg = "BASIC_STATUS"
                    THEN [phy EXCEPT ![mdio.cmd.phy].lost = FALSE] ELSE phy
          /\ UNCHANGED <<mutex, poll, due, table, led, logged, cli, turn, changes>>
      BY <1>8 DEF MDIOCompletes
    <2>2. mdio.cmd.phy \in Phys
      BY <1>0 DEF TypeOK, Command
    <2>3. phy[mdio.cmd.phy] \in [up : BOOLEAN, speed : Speeds, lost : BOOLEAN]
      BY <1>0, <2>2 DEF TypeOK
    <2>4. mdio' \in [busy : BOOLEAN, cmd : Command, data : Link] /\ mdio'.cmd = mdio.cmd
      BY <1>0, <2>1, <2>3 DEF TypeOK, Link
    <2>5. phy' \in [Phys -> [up : BOOLEAN, speed : Speeds, lost : BOOLEAN]]
      BY <1>0, <2>1, <2>2 DEF TypeOK
    <2>6. QED
      BY <1>0, <2>1, <2>4, <2>5
         DEF IInv, TypeOK, MDIOExclusive, AnswerIsMine, LogKeepsUp, Strengthening, PollRegister
  <1>9. CASE TimerExpires
    BY <1>0, <1>9
       DEF TimerExpires, IInv, TypeOK, MDIOExclusive, AnswerIsMine, LogKeepsUp, Strengthening,
           PollRegister
  <1>10. ASSUME NEW p \in Phys, LinkChanges(p) PROVE IInv'
    <2>1. /\ changes' = changes + 1
          /\ UNCHANGED <<mdio, mutex, poll, due, table, led, logged, cli, turn>>
      BY <1>10 DEF LinkChanges
    <2>2. phy' \in [Phys -> [up : BOOLEAN, speed : Speeds, lost : BOOLEAN]]
      <3>1. phy[p] \in [up : BOOLEAN, speed : Speeds, lost : BOOLEAN]
        BY <1>0 DEF TypeOK
      <3>2. CASE phy' = [phy EXCEPT ![p] = [up |-> FALSE, speed |-> "slow", lost |-> TRUE]]
        BY <1>0, <3>2 DEF TypeOK, Speeds
      <3>3. CASE \E s \in Speeds : phy' = [phy EXCEPT ![p] = [up |-> TRUE, speed |-> s, lost |-> phy[p].lost]]
        <4>1. PICK s \in Speeds : phy' = [phy EXCEPT ![p] = [up |-> TRUE, speed |-> s, lost |-> phy[p].lost]]
          BY <3>3
        <4>2. [up |-> TRUE, speed |-> s, lost |-> phy[p].lost] \in
                  [up : BOOLEAN, speed : Speeds, lost : BOOLEAN]
          BY <3>1
        <4>3. QED
          BY <1>0, <4>1, <4>2 DEF TypeOK
      <3>4. QED
        BY <1>10, <3>2, <3>3 DEF LinkChanges
    <2>3. changes' \in Nat
      BY <1>0, <2>1 DEF TypeOK
    <2>4. QED
      BY <1>0, <2>1, <2>2, <2>3
         DEF IInv, TypeOK, MDIOExclusive, AnswerIsMine, LogKeepsUp, Strengthening, PollRegister
  <1>11. CASE UNCHANGED vars
    BY <1>0, <1>11
       DEF vars, IInv, TypeOK, MDIOExclusive, AnswerIsMine, LogKeepsUp, Strengthening,
           PollRegister
  <1>12. QED
    BY <1>1, <1>2, <1>3, <1>4, <1>5, <1>6, <1>7, <1>8, <1>9, <1>10, <1>11 DEF Next, Core

\* The inductive invariant holds in every reachable state.
LEMMA Invariant == Spec => []IInv
  BY InitHolds, StepHolds, PTL DEF Spec

\* Every variable keeps its type: the poll task never indexes past the last PHY.
THEOREM PhyPollTypeCorrect == Spec => []TypeOK
  BY Invariant, PTL DEF IInv

\* The poll task and the command line never use the MDIO controller together,
\* and the mutex is held exactly while one of them does.
THEOREM PhyPollExclusive == Spec => []MDIOExclusive
  BY Invariant, PTL DEF IInv

\* Whoever waits for the controller finds the answer to its own question.
THEOREM PhyPollAnswers == Spec => []AnswerIsMine
  BY Invariant, PTL DEF IInv

\* No link change enters the interface table without reaching the log before the
\* poll task moves on to the next PHY.
THEOREM PhyPollLogs == Spec => []LogKeepsUp
  BY Invariant, PTL DEF IInv

\* The controller is busy only on behalf of whoever holds the mutex, and that one
\* waits: no step writes a command over one that is still on the wire.
LEMMA StepKeepsCommand ==
    IInv /\ [Next]_vars => [mdio.busy => mdio'.cmd = mdio.cmd]_mdio
  <1> SUFFICES ASSUME IInv, [Next]_vars, mdio.busy PROVE mdio'.cmd = mdio.cmd
    OBVIOUS
  <1>0. TypeOK /\ MDIOExclusive /\ mutex /\ ~Ready
    BY DEF IInv, Strengthening, Ready
  <1>1. ASSUME Iteration PROVE mdio' = mdio
    <2> DEFINE q == IF due THEN OnTimer(poll) ELSE poll
    <2>1. PollPHYs(q)
      BY <1>1 DEF Iteration
    <2> HIDE DEF q
    <2>2. CASE PollWaits(q)
      BY <2>2 DEF PollWaits
    <2>3. CASE PollIdle(q)
      BY <1>0, <2>3 DEF PollIdle, TryLock
    <2>4. CASE PollStatus(q) \/ PollCtrl(q) \/ PollExtStat(q)
      BY <1>0, <2>4 DEF PollStatus, PollCtrl, PollExtStat
    <2>5. QED
      BY <2>1, <2>2, <2>3, <2>4 DEF PollPHYs
  <1>2. CASE PollTurn \/ SpinOnMutex
    BY <1>1, <1>2 DEF PollTurn, SpinOnMutex, WhileLocked
  <1>3. CASE NoCommand \/ ShowHardware \/ TimerExpires \/ UNCHANGED vars
    BY <1>3 DEF NoCommand, ShowHardware, TimerExpires, vars
  <1>4. CASE TakeMutex \/ NextTemperature \/ CommandDone
    BY <1>0, <1>4 DEF TakeMutex, CliMayStart, NextTemperature, CommandDone
  <1>5. CASE MDIOCompletes
    BY <1>0, <1>5 DEF MDIOCompletes, TypeOK
  <1>6. CASE \E p \in Phys : LinkChanges(p)
    BY <1>6 DEF LinkChanges
  <1>7. QED
    BY <1>2, <1>3, <1>4, <1>5, <1>6 DEF Next, Core

\* No transaction on the MDIO bus is ever cut short by the next command.
THEOREM PhyPollNeverInterrupts == Spec => NeverInterrupted
  BY Invariant, StepKeepsCommand, PTL DEF Spec, NeverInterrupted

=============================================================================
