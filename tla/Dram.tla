------------------------------ MODULE Dram ------------------------------
(***************************************************************************)
(* One channel of main memory: DRAMsimControl's list of requests, and the  *)
(* memory system it drives (MemorySystem.C, MemoryController.C), cycle by  *)
(* cycle.  Requests arrive at any time between two cycles.  A cycle is     *)
(* deterministic: the parts of MemorySystem::update one after the other,   *)
(* each an operator from the state `mem' of the channel to the next one.   *)
(*                                                                         *)
(* Data, power figures and statistics are left out.                        *)
(***************************************************************************)
EXTENDS CommandQueue

CONSTANTS TRANS_QUEUE_DEPTH,
          REFRESH_CYCLES,       \* DRAM_REFRESH_PERIOD / tCK
          Workloads             \* sets of <<address, is it a read>> to ask for

ASSUME DramAssumption ==
    /\ TRANS_QUEUE_DEPTH > 0
    /\ REFRESH_CYCLES \div NUM_RANKS > T.tXP
    /\ Workloads \subseteq SUBSET (Addrs \X BOOLEAN)

VARIABLES
    mem,            \* the channel: controller, command queue and ranks
    m_input_queue,  \* DRAMsimControl's requests that are not completed yet
    m_awakened,     \* whether its clock runs: from the first request on
    workload        \* what the directory asks for, again and again

vars == <<mem, m_input_queue, m_awakened, workload>>

(***************************************************************************)
(* ranks and cq as in DramRank and CommandQueue; banks is the controller's *)
(* own table.  cmd and data are the packets on the two buses (at most      *)
(* one), writeData the write bursts that wait for their cycle.  done       *)
(* collects the addresses of the completion callbacks of the cycle.        *)
(***************************************************************************)
ChannelInit ==
    [ranks |-> [r \in Ranks |-> Rank],
     banks |-> [r \in Ranks |-> [b \in Banks |-> BankState]],
     cq |-> CommandQueueInit,
     powerDown |-> [r \in Ranks |-> FALSE],
     refreshRank |-> 0,
     refreshCountdown |-> [r \in Ranks |-> (REFRESH_CYCLES \div NUM_RANKS) * (r + 1)],
     cmd |-> <<>>, data |-> <<>>, writeData |-> <<>>,
     pendingTransactions |-> <<>>, transactionQueue |-> <<>>,
     pendingReadTransactions |-> <<>>, returnTransaction |-> <<>>,
     collision |-> FALSE, done |-> <<>>]

Init ==
    /\ mem = ChannelInit
    /\ m_input_queue = <<>>
    /\ m_awakened = FALSE
    /\ workload \in Workloads

-----------------------------------------------------------------------------
(***************************************************************************)
(* MemorySystem::addTransaction: into the controller's queue if there is   *)
(* room, else into the list that update empties.                           *)
(***************************************************************************)
WillAcceptTransaction(m) == Len(m.transactionQueue) < TRANS_QUEUE_DEPTH

addTransaction(m, q) ==
    IF WillAcceptTransaction(m)
    THEN [m EXCEPT !.transactionQueue = Append(@, q)]
    ELSE [m EXCEPT !.pendingTransactions = Append(@, q)]

(***************************************************************************)
(* DRAMsimControl::enqueueMemRef.  The directory has one operation in      *)
(* memory for an address at a time (OneMemoryOp of CoherenceProperties).   *)
(***************************************************************************)
enqueueMemRef(a, isRead) ==
    /\ <<a, isRead>> \in workload
    /\ ~\E i \in DOMAIN m_input_queue : m_input_queue[i].addr = a
    /\ m_input_queue' = Append(m_input_queue, [addr |-> a, isRead |-> isRead])
    /\ mem' = addTransaction(mem, [addr |-> a, isRead |-> isRead])
    /\ m_awakened' = TRUE
    /\ UNCHANGED workload

-----------------------------------------------------------------------------
(***************************************************************************)
(* The ranks' update: read data that has arrived goes to the list of       *)
(* transactions to return (MemoryController::receiveFromBus).              *)
(***************************************************************************)
UpdateRanks(m) ==
    [m EXCEPT !.ranks = [r \in Ranks |-> RankUpdate(@[r])],
              !.returnTransaction =
                 @ \o FlattenSeq([i \in 1 .. NUM_RANKS |-> RankDelivers(m.ranks[i - 1])])]

\* A mistake the properties must notice: the transaction stays in the list.
AdmitPending_Keeps(m) ==
    IF m.pendingTransactions # <<>> /\ WillAcceptTransaction(m)
    THEN [m EXCEPT !.transactionQueue = Append(@, Head(m.pendingTransactions))]
    ELSE m

AdmitPending(m) ==
    IF m.pendingTransactions # <<>> /\ WillAcceptTransaction(m)
    THEN [m EXCEPT !.transactionQueue = Append(@, Head(m.pendingTransactions)),
                   !.pendingTransactions = Tail(@)]
    ELSE m

(***************************************************************************)
(* MemoryController::update, part by part.  First the banks whose          *)
(* precharge or refresh ends in this cycle.                                *)
(***************************************************************************)
Settle(b) == [b EXCEPT !.countdown = Sooner(@),
                       !.state = IF b.countdown = 1 THEN "Idle" ELSE @]

UpdateBankStates(m) ==
    [m EXCEPT !.banks = [r \in Ranks |-> [b \in Banks |-> Settle(@[r][b])]]]

(***************************************************************************)
(* The command bus, whose transfers take tCMD = 1 cycle.                   *)
(***************************************************************************)
DeliverCommand(m) ==
    IF m.cmd = <<>> THEN m
    ELSE [m EXCEPT !.ranks[m.cmd[1].rank] = receiveFromBus(@, m.cmd[1]), !.cmd = <<>>]

(***************************************************************************)
(* The data bus: a write burst that ends is reported as done.              *)
(***************************************************************************)
DeliverData(m) ==
    IF m.data # <<>> /\ m.data[1].left = 1
    THEN [m EXCEPT !.data = <<>>, !.done = Append(@, m.data[1].addr)]
    ELSE [m EXCEPT !.data = Nearer(@)]

(***************************************************************************)
(* The oldest write whose latency is over takes the data bus.  A bus that  *)
(* is still taken is the "Data Bus Collision" the simulator exits on.      *)
(***************************************************************************)
SendWriteData(m) ==
    LET waiting == Nearer(m.writeData)
    IN IF waiting # <<>> /\ waiting[1].left = 0
       THEN [m EXCEPT !.collision = @ \/ m.data # <<>>,
                      !.data = <<[addr |-> waiting[1].addr, left |-> Burst]>>,
                      !.writeData = Tail(waiting)]
       ELSE [m EXCEPT !.writeData = waiting]

(***************************************************************************)
(* A rank whose countdown is over needs a refresh; one that sleeps is      *)
(* woken in time for it.                                                   *)
(***************************************************************************)
CheckRefresh(m) ==
    LET r == m.refreshRank
    IN CASE m.refreshCountdown[r] = 0 ->
              [m EXCEPT !.cq = needRefresh(@, r),
                        !.ranks[r].refreshWaiting = TRUE,
                        !.refreshCountdown[r] = REFRESH_CYCLES,
                        !.refreshRank = (r + 1) % NUM_RANKS]
         [] m.refreshCountdown[r] # 0 /\ m.powerDown[r] /\ m.refreshCountdown[r] <= T.tXP ->
              [m EXCEPT !.ranks[r].refreshWaiting = TRUE]
         [] OTHER -> m

(***************************************************************************)
(* A command leaves for its rank: the controller's table follows it.  The  *)
(* open banks of the other ranks wait for the data bus to turn around.     *)
(***************************************************************************)
\* A mistake the properties must notice: the other ranks do not wait.
Turnaround_None(b, p) == b

Turnaround(b, p) ==
    IF b.state # "RowActive" THEN b
    ELSE IF p.type = "READ"
    THEN [b EXCEPT !.read = Later(@, Burst + T.tRTRS), !.write = Later(@, READ_TO_WRITE_DELAY)]
    ELSE [b EXCEPT !.write = Later(@, Burst + T.tRTRS), !.read = Later(@, WRITE_TO_READ_DELAY_R)]

(***************************************************************************)
(* A bank that precharges, and one that refreshes, in the table.           *)
(***************************************************************************)
Closing(b) == [b EXCEPT !.state = "Precharging", !.countdown = T.tRP,
                        !.activate = Later(@, T.tRP)]
Renewing(b) == [b EXCEPT !.state = "Refreshing", !.countdown = T.tRFC, !.activate = T.tRFC]

BanksAfter(banks, p) ==
    CASE p.type \in {"READ", "WRITE"} ->
           [r \in Ranks |-> IF r = p.rank THEN Column(banks[r], p)
                            ELSE [b \in Banks |-> Turnaround(banks[r][b], p)]]
      [] p.type = "ACTIVATE" -> [banks EXCEPT ![p.rank] = Activate(@, p)]
      [] p.type = "PRECHARGE" ->
           [banks EXCEPT ![p.rank][p.bank] = Closing(@)]
      [] p.type = "REFRESH" -> [banks EXCEPT ![p.rank] = [b \in Banks |-> Renewing(@[b])]]

Issue(m, x) ==
    [m EXCEPT !.cq = x.cq,
              !.banks = BanksAfter(@, x.packet),
              !.writeData = IF x.packet.type = "WRITE"
                            THEN Append(@, [addr |-> x.packet.addr, left |-> WL]) ELSE @,
              !.collision = @ \/ m.cmd # <<>>,
              !.cmd = <<x.packet>>]

IssueCommand(m, popped) == IF popped = {} THEN {m} ELSE {Issue(m, x) : x \in popped}

(***************************************************************************)
(* A read is remembered, to find it again when its data comes back.        *)
(***************************************************************************)
\* A mistake the properties must notice: it is not.
PendingReads_Forgotten(m, t) == m.pendingReadTransactions

PendingReads(m, t) ==
    IF t.isRead THEN Append(m.pendingReadTransactions, t.addr)
    ELSE m.pendingReadTransactions

(***************************************************************************)
(* The oldest transaction whose rank has room becomes an ACT and a column  *)
(* access; one transaction per cycle.                                      *)
(***************************************************************************)
ScheduleTransaction(m) ==
    LET q == m.transactionQueue
        fits == {i \in DOMAIN q : hasRoomFor(m.cq, 2, Location[q[i].addr].rank)}
        t == q[Min(fits)]
        column == BusPacket(IF t.isRead THEN "READ" ELSE "WRITE", t.addr)
    IN IF fits = {} THEN m
       ELSE [m EXCEPT !.transactionQueue = RemoveAt(@, Min(fits)),
                      !.pendingReadTransactions = PendingReads(m, t),
                      !.cq = enqueue(enqueue(@, BusPacket("ACTIVATE", t.addr)), column)]

(***************************************************************************)
(* USE_LOW_POWER: a rank without commands and without a refresh to wait    *)
(* for sleeps once all its banks are idle (again in every such cycle: the  *)
(* banks of a sleeping rank are not Idle), and wakes up for either.        *)
(***************************************************************************)
ManagePower(m) ==
    LET idle(r) == m.cq.queues[r] = <<>> /\ ~m.ranks[r].refreshWaiting
        sleeps(r) == idle(r) /\ \A b \in Banks : m.banks[r][b].state = "Idle"
        wakes(r) == ~idle(r) /\ m.banks[r][0].powerUp = 0 /\ m.powerDown[r]
        turned(r, bank) == IF sleeps(r) THEN PowerDown(bank)
                           ELSE IF wakes(r) THEN PowerUp(bank) ELSE bank
    IN [m EXCEPT
          !.powerDown = [r \in Ranks |-> (@[r] \/ sleeps(r)) /\ ~wakes(r)],
          !.banks = [r \in Ranks |-> [b \in Banks |-> turned(r, @[r][b])]],
          !.ranks = [r \in Ranks |-> IF sleeps(r) THEN powerDown(@[r])
                                     ELSE IF wakes(r) THEN powerUp(@[r]) ELSE @[r]]]

(***************************************************************************)
(* One read per cycle goes back, if a pending read has its address.        *)
(***************************************************************************)
ReturnRead(m) ==
    IF m.returnTransaction = <<>> THEN m
    ELSE LET a == m.returnTransaction[1]
             matching == {i \in DOMAIN m.pendingReadTransactions :
                            m.pendingReadTransactions[i] = a}
         IN IF matching = {} THEN [m EXCEPT !.returnTransaction = Tail(@)]
            ELSE [m EXCEPT !.returnTransaction = Tail(@),
                           !.pendingReadTransactions = RemoveAt(@, Min(matching)),
                           !.done = Append(@, a)]

(***************************************************************************)
(* SimulatorObject::step of the ranks and of the controller.               *)
(***************************************************************************)
TickRank(r) == [r EXCEPT !.banks = [b \in Banks |-> Tick(@[b])]]

Clock(m) ==
    [m EXCEPT !.refreshCountdown = [r \in Ranks |-> @[r] - 1],
              !.banks = [r \in Ranks |-> [b \in Banks |-> Tick(@[r][b])]],
              !.ranks = [r \in Ranks |-> TickRank(@[r])]]

(***************************************************************************)
(* DRAMsimControl::wakeup is MemorySystem::update.  Its steps, in the      *)
(* order of the code; the callbacks of the cycle complete every request of *)
(* their address (enqueueToResponse).                                      *)
(***************************************************************************)
update ==
    /\ m_awakened
    /\ \E m0 \in {UpdateRanks(mem)} :
       \E m1 \in {AdmitPending(m0)} :
       \E m2 \in {UpdateBankStates(m1)} :
       \E m3 \in {DeliverCommand(m2)} :
       \E m4 \in {DeliverData(m3)} :
       \E m5 \in {SendWriteData(m4)} :
       \E m6 \in {CheckRefresh(m5)} :
       \E m7 \in {[m6 EXCEPT !.cq = Window(@)]} :
       \E popped \in {pop(m7.cq, m7.banks)} :
       \E m8 \in IssueCommand(m7, popped) :
       \E m9 \in {ScheduleTransaction(m8)} :
       \E m10 \in {ManagePower(m9)} :
       \E m11 \in {ReturnRead(m10)} :
         /\ mem' = Clock([m11 EXCEPT !.done = <<>>])
         /\ m_input_queue' = SelectSeq(m_input_queue,
              LAMBDA q : \A i \in DOMAIN m11.done : m11.done[i] # q.addr)
    /\ UNCHANGED <<m_awakened, workload>>

Next ==
    \/ \E a \in Addrs, isRead \in BOOLEAN : enqueueMemRef(a, isRead)
    \/ update

(***************************************************************************)
(* Once awake, the clock never stops: wakeup schedules itself again for    *)
(* the next memory cycle.  This is WF_vars(update), whose ENABLED is       *)
(* m_awakened.                                                             *)
(***************************************************************************)
Fairness == []<>(~m_awakened) \/ []<><<update>>_vars

Spec == Init /\ [][Next]_vars /\ Fairness
=============================================================================
