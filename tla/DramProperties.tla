------------------------- MODULE DramProperties -------------------------
(***************************************************************************)
(* What one channel of main memory promises to the directory, and what     *)
(* makes its command schedule a legal one.                                 *)
(***************************************************************************)
EXTENDS Dram

Outstanding(a) == \E i \in DOMAIN m_input_queue : m_input_queue[i].addr = a

OnBus(r) == mem.cmd # <<>> /\ mem.cmd[1].rank = r
RefreshOnBus(r) == OnBus(r) /\ mem.cmd[1].type = "REFRESH"
Addresses(s) == [i \in DOMAIN s |-> s[i].addr]
IsColumn(p) == p.type \in {"READ", "WRITE"}

(***************************************************************************)
(* The addresses of all the requests on their way through the channel, in  *)
(* whatever form: transaction, column access, read in a rank, write burst, *)
(* or read to return.  (The packet of a write that has left for its rank   *)
(* is not counted: its burst is.)                                          *)
(***************************************************************************)
InFlight ==
    LET perRank(r) ==
          Addresses(SelectSeq(mem.cq.queues[r], IsColumn))
          \o Addresses(mem.ranks[r].readReturn) \o Addresses(mem.ranks[r].outgoing)
    IN Addresses(mem.pendingTransactions) \o Addresses(mem.transactionQueue)
       \o FlattenSeq([i \in 1 .. NUM_RANKS |-> perRank(i - 1)])
       \o Addresses(SelectSeq(mem.cmd, LAMBDA p : p.type = "READ"))
       \o mem.returnTransaction
       \o Addresses(mem.writeData) \o Addresses(mem.data)

(***************************************************************************)
(* No error exit of the memory simulator is reachable: no rank receives a  *)
(* command in a state or at a time that does not allow it or is put to     *)
(* sleep or woken when it may not be (Rank.C), no two packets meet on a    *)
(* bus of the controller, and no command queue is overfilled.              *)
(***************************************************************************)
SimulatorNeverExits ==
    /\ \A r \in Ranks : ~mem.ranks[r].rejected
    /\ ~mem.collision
    /\ ~mem.cq.overflow

(***************************************************************************)
(* The controller schedules by its own table of the banks: up to the       *)
(* command on the bus, it agrees with what the rank has.                   *)
(***************************************************************************)
TablesAgree ==
    \A r \in Ranks :
      LET rank == IF OnBus(r) THEN receiveFromBus(mem.ranks[r], mem.cmd[1]) ELSE mem.ranks[r]
      IN /\ mem.powerDown[r] = rank.isPowerDown
         /\ \A b \in Banks :
              LET mine == mem.banks[r][b]  its == rank.banks[b]
              IN /\ mine.state \in {"RowActive", "PowerDown"} => its.state = mine.state
                 /\ mine.state = "RowActive" => its.row = mine.row
                 /\ mine.state \in {"Idle", "Precharging", "Refreshing"} => its.state = "Idle"

(***************************************************************************)
(* The command schedule is a legal one: what the ranks receive, when they  *)
(* receive it, is what they allow, because the controller's table of the   *)
(* banks follows theirs.                                                   *)
(***************************************************************************)
LegalSchedule == SimulatorNeverExits /\ TablesAgree

(***************************************************************************)
(* A request the directory has made is in exactly one place of the channel *)
(* until it is completed, and nothing else is in the channel: no read data *)
(* is overwritten on its way back, none comes back for which no read is    *)
(* pending, nothing is done twice.                                         *)
(***************************************************************************)
RequestInOnePlace ==
    \A a \in Addrs :
      /\ Len(SelectSeq(InFlight, LAMBDA x : x = a)) = IF Outstanding(a) THEN 1 ELSE 0
      /\ Len(SelectSeq(mem.pendingReadTransactions, LAMBDA x : x = a)) <= 1

(***************************************************************************)
(* An ACT in a queue is followed by the column access it was made for (pop *)
(* drops "the packet before" on a row hit), and a column access whose ACT  *)
(* has gone has its row open: nobody closes it before the access.          *)
(***************************************************************************)
ActStaysWithColumn ==
    \A r \in Ranks :
      LET q == mem.cq.queues[r]
      IN \A i \in DOMAIN q :
           IF q[i].type = "ACTIVATE"
           THEN i < Len(q) /\ IsColumn(q[i + 1]) /\ q[i + 1].addr = q[i].addr
           ELSE \/ i > 1 /\ q[i - 1].type = "ACTIVATE"
                \/ /\ mem.banks[r][q[i].bank].state = "RowActive"
                   /\ mem.banks[r][q[i].bank].row = q[i].row

(***************************************************************************)
(* The data bus carries one burst at a time, a write of the controller or  *)
(* a read of one rank.  The code checks only for two writes.               *)
(***************************************************************************)
OneBurst ==
    LET reading == {r \in Ranks : mem.ranks[r].outgoing # <<>>}
    IN Cardinality(reading) + Len(mem.data) <= 1

(***************************************************************************)
(* The command queue remembers one refresh only (refreshRank): a rank that *)
(* waits for its refresh is that rank, or its REF is on the bus, or it has *)
(* been woken early and its countdown is about to end.                     *)
(***************************************************************************)
RefreshNotForgotten ==
    \A r \in Ranks :
      mem.ranks[r].refreshWaiting =>
        \/ mem.cq.refreshWaiting /\ mem.cq.refreshRank = r
        \/ RefreshOnBus(r)
        \/ mem.refreshRank = r /\ mem.refreshCountdown[r] <= T.tXP

(***************************************************************************)
(* Every request is completed, however the directory keeps asking for      *)
(* other addresses (FR-FCFS with a bound on row hits, refreshes, ranks     *)
(* that sleep).                                                            *)
(***************************************************************************)
RequestCompletes == \A a \in Addrs : Outstanding(a) ~> ~Outstanding(a)
=============================================================================
