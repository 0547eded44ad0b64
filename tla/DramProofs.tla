---------------------------- MODULE DramProofs ----------------------------
(***************************************************************************)
(* The command schedule of a memory channel is a legal one, for any number *)
(* of ranks and banks, any queue depth and any timing parameters that      *)
(* TimingAssumption allows: LegalSchedule, ActStaysWithColumn and OneBurst *)
(* of DramProperties are invariants.                                       *)
(*                                                                         *)
(* A cycle is taken apart as the code is.  In its first half (Front) the   *)
(* data bus moves on, the command of the last cycle reaches its rank and   *)
(* the controller's banks settle; then at most one command is issued; then *)
(* ranks go to sleep or wake up, and the clock ticks.  The invariant has   *)
(* four parts: the types; the command queues and the controller's table    *)
(* (Scheduled); the ranks' tables against the controller's (Legal); and    *)
(* the data bus (DataBus).                                                 *)
(***************************************************************************)
EXTENDS DramProperties, SequenceTheorems, FiniteSetTheorems, NaturalsInduction,
        WellFoundedInduction, TLAPS

-----------------------------------------------------------------------------
(* Arithmetic, least elements and sequences.                               *)

(* The least element of a nonempty set of positions exists, and Min is it. *)
LEMMA MinIsLeast ==
    ASSUME NEW S \in SUBSET Nat, S # {}
    PROVE  Min(S) \in S /\ \A j \in S : Min(S) <= j
<1>1. IsWellFoundedOn(OpToRel(<, Nat), Nat)
  BY NatLessThanWellFounded
<1>2. PICK x \in S : \A y \in S : ~(<<y, x>> \in OpToRel(<, Nat))
  BY <1>1, WFMin
<1>3. \A y \in S : ~(y < x)
  BY <1>2 DEF OpToRel
<1>4. \E i \in S : \A j \in S : i <= j
  BY <1>3
<1> QED BY <1>4 DEF Min

(* The derived delays of the part are natural numbers, in the relations    *)
(* that keep bursts on the data bus apart.                                 *)
LEMMA Delays ==
    /\ RL \in Nat /\ WL \in Nat /\ RL = WL + 1 /\ WL > 0 /\ Burst \in Nat /\ Burst > 0
    /\ READ_TO_PRE_DELAY \in Nat /\ WRITE_TO_PRE_DELAY \in Nat
    /\ READ_TO_WRITE_DELAY \in Nat /\ READ_TO_WRITE_DELAY = Burst + T.tRTRS + 1
    /\ WRITE_TO_READ_DELAY_B \in Nat /\ WRITE_TO_READ_DELAY_B >= WL + Burst
    /\ WRITE_TO_READ_DELAY_R \in Nat /\ WRITE_TO_READ_DELAY_R = Burst + T.tRTRS - 1
    /\ T.tCCD \in Nat /\ T.tCCD >= Burst /\ T.tRTRS \in Nat /\ T.tRTRS > 0
    /\ T.tRCD \in Nat /\ T.tRCD >= Burst + T.tRTRS
    /\ T.tRP \in Nat /\ T.tRP > 0 /\ T.tRFC \in Nat /\ T.tRFC > 0
    /\ T.tRC \in Nat /\ T.tRAS \in Nat /\ T.tRRD \in Nat /\ T.tCKE \in Nat /\ T.tXP \in Nat
<1>1. /\ T.CL \in Nat /\ T.CL > 1 /\ T.BL \in Nat /\ T.BL > 0 /\ T.BL % 2 = 0
      /\ T.tRTP \in Nat /\ T.tWR \in Nat /\ T.tWTR \in Nat /\ T.tRTRS \in Nat
  BY TimingAssumption
<1>2. RL \in Nat /\ WL \in Nat /\ RL = WL + 1 /\ WL > 0
  BY <1>1 DEF RL, WL
<1>3. Burst \in Nat /\ Burst > 0
  BY <1>1 DEF Burst
<1>4. Max({T.tRTP, 2}) \in Nat /\ Max({T.tRTP, 2}) >= 2
  <2>1. \E x \in {T.tRTP, 2} : \A y \in {T.tRTP, 2} : x >= y
    BY <1>1
  <2>2. Max({T.tRTP, 2}) \in {T.tRTP, 2} /\ \A y \in {T.tRTP, 2} : Max({T.tRTP, 2}) >= y
    BY <2>1 DEF Max
  <2> QED BY <1>1, <2>2
<1>5. READ_TO_PRE_DELAY \in Nat
  BY <1>3, <1>4 DEF READ_TO_PRE_DELAY
<1>6. /\ WRITE_TO_PRE_DELAY \in Nat /\ READ_TO_WRITE_DELAY = Burst + T.tRTRS + 1
      /\ WRITE_TO_READ_DELAY_B \in Nat /\ WRITE_TO_READ_DELAY_B >= WL + Burst
      /\ WRITE_TO_READ_DELAY_R = Burst + T.tRTRS - 1
  BY <1>1, <1>2, <1>3
     DEF WRITE_TO_PRE_DELAY, READ_TO_WRITE_DELAY, WRITE_TO_READ_DELAY_B, WRITE_TO_READ_DELAY_R
<1>7. /\ T.tCCD \in Nat /\ T.tCCD >= Burst /\ T.tRTRS > 0
      /\ T.tRCD \in Nat /\ T.tRCD + 1 >= READ_TO_WRITE_DELAY
      /\ T.tRP \in Nat /\ T.tRP > 0 /\ T.tRFC \in Nat /\ T.tRFC >= T.tRP
      /\ T.tRC \in Nat /\ T.tRAS \in Nat /\ T.tRRD \in Nat /\ T.tCKE \in Nat /\ T.tXP \in Nat
  BY TimingAssumption
<1> QED BY <1>1, <1>2, <1>3, <1>5, <1>6, <1>7

(* Removing one position of a sequence.                                    *)
LEMMA RemoveAtIs ==
    ASSUME NEW S, NEW s \in Seq(S), NEW i \in DOMAIN s
    PROVE  /\ RemoveAt(s, i) \in Seq(S)
           /\ Len(RemoveAt(s, i)) = Len(s) - 1
           /\ DOMAIN RemoveAt(s, i) = 1 .. Len(s) - 1
           /\ \A j \in 1 .. Len(s) - 1 : RemoveAt(s, i)[j] = IF j < i THEN s[j] ELSE s[j + 1]
<1>1. Len(s) \in Nat /\ DOMAIN s = 1 .. Len(s) /\ i \in 1 .. Len(s)
      /\ \A k \in 1 .. Len(s) : s[k] \in S
  BY LenProperties, ElementOfSeq
<1> DEFINE a == SubSeq(s, 1, i - 1)
           b == SubSeq(s, i + 1, Len(s))
           w == a \o b
<1>2. a \in Seq(S) /\ Len(a) = i - 1 /\ \A k \in 1 .. i - 1 : a[k] = s[k]
  <2>1. \A k \in 1 .. i - 1 : s[k] \in S
    BY <1>1
  <2>2. /\ a \in Seq(S) /\ Len(a) = IF 1 <= i - 1 THEN (i - 1) - 1 + 1 ELSE 0
        /\ \A k \in 1 .. ((i - 1) - 1 + 1) : a[k] = s[1 + k - 1]
    BY <1>1, <2>1, SubSeqProperties
  <2> HIDE DEF a
  <2> QED BY <1>1, <2>2
<1>3. b \in Seq(S) /\ Len(b) = Len(s) - i /\ \A k \in 1 .. Len(s) - i : b[k] = s[i + k]
  <2>1. \A k \in i + 1 .. Len(s) : s[k] \in S
    BY <1>1
  <2>2. /\ b \in Seq(S) /\ Len(b) = IF i + 1 <= Len(s) THEN Len(s) - (i + 1) + 1 ELSE 0
        /\ \A k \in 1 .. (Len(s) - (i + 1) + 1) : b[k] = s[(i + 1) + k - 1]
    BY <1>1, <2>1, SubSeqProperties
  <2> HIDE DEF b
  <2>3. \A k \in 1 .. Len(s) - i : (i + 1) + k - 1 = i + k
    BY <1>1
  <2>4. Len(s) - (i + 1) + 1 = Len(s) - i
    BY <1>1
  <2> QED BY <1>1, <2>2, <2>3, <2>4
<1> HIDE DEF a, b
<1>4. /\ w \in Seq(S) /\ Len(w) = Len(a) + Len(b)
      /\ \A k \in 1 .. Len(a) + Len(b) : w[k] = IF k <= Len(a) THEN a[k] ELSE b[k - Len(a)]
  BY <1>2, <1>3, ConcatProperties
<1>5. RemoveAt(s, i) = w
  BY DEF RemoveAt, w, a, b
<1> HIDE DEF w
<1>6. Len(w) = Len(s) - 1
  BY <1>1, <1>2, <1>3, <1>4
<1>7. ASSUME NEW j \in 1 .. Len(s) - 1
      PROVE  w[j] = IF j < i THEN s[j] ELSE s[j + 1]
  <2>1. CASE j < i
    BY <1>1, <1>2, <1>3, <1>4, <2>1
  <2>2. CASE ~(j < i)
    <3>1. /\ j \in 1 .. Len(a) + Len(b) /\ ~(j <= Len(a))
          /\ j - Len(a) \in 1 .. Len(s) - i /\ i + (j - Len(a)) = j + 1
      <4>1. Len(a) = i - 1 /\ Len(b) = Len(s) - i
        BY <1>2, <1>3
      <4> QED BY <1>1, <2>2, <4>1
    <3>2. w[j] = b[j - Len(a)]
      BY <1>4, <3>1
    <3> QED BY <1>3, <2>2, <3>1, <3>2
  <2> QED BY <2>1, <2>2
<1> QED BY <1>1, <1>4, <1>5, <1>6, <1>7, LenProperties
(* The states of a bank, in the controller's table and in a rank's own.    *)
BankStates == {"Idle", "RowActive", "Precharging", "Refreshing", "PowerDown"}

(* An entry of such a table: the state, the open row, and the cycles that  *)
(* each kind of command has still to wait.                                 *)
BankT == [state : BankStates, row : Nat, read : Nat, write : Nat, activate : Nat,
          precharge : Nat, powerUp : Nat, countdown : Nat]

(* A burst on its way, with the cycles left.                               *)
BurstT == [addr : Addrs, left : Int]

(* What a rank keeps.                                                      *)
RankT == [banks : [Banks -> BankT], isPowerDown : BOOLEAN, refreshWaiting : BOOLEAN,
          readReturn : Seq(BurstT), outgoing : Seq(BurstT), rejected : BOOLEAN]

(* A transaction of the controller's queue.                                *)
TransactionT == [addr : Addrs, isRead : BOOLEAN]

(* A packet of the command queue of rank r: an ACT or a column access at   *)
(* the location of its address.                                            *)
PacketT(r) ==
    {p \in [type : {"READ", "WRITE", "ACTIVATE"}, addr : Addrs, rank : Ranks,
            bank : Banks, row : Nat] :
       p.rank = r /\ p.bank = Location[p.addr].bank /\ p.row = Location[p.addr].row}

(* A command on the bus.                                                   *)
IsCommand(p) ==
    /\ p.type \in {"READ", "WRITE", "ACTIVATE", "PRECHARGE", "REFRESH"}
    /\ p.rank \in Ranks
    /\ p.bank \in Banks
    /\ p.type \in {"READ", "WRITE", "ACTIVATE"} => p.row \in Nat /\ p.addr \in Addrs

(* The fields of the channel and of its command queue.                     *)
ChannelFields ==
    {"ranks", "banks", "cq", "powerDown", "refreshRank", "refreshCountdown", "cmd", "data",
     "writeData", "pendingTransactions", "transactionQueue", "pendingReadTransactions",
     "returnTransaction", "collision", "done"}

QueueFields ==
    {"queues", "nextRank", "nextRankPRE", "nextBankPRE", "refreshRank", "refreshWaiting",
     "rowAccessCounters", "tFAWCountdown", "overflow"}

(* The types of the command queue: rank r's queue holds packets for rank   *)
(* r, and a refresh that waits is that of a rank.                          *)
QueueTyped(cq) ==
    /\ DOMAIN cq = QueueFields
    /\ DOMAIN cq.queues = Ranks
    /\ \A r \in Ranks : cq.queues[r] \in Seq(PacketT(r))
    /\ cq.rowAccessCounters \in [Ranks -> [Banks -> Nat]]
    /\ cq.refreshWaiting => cq.refreshRank \in Ranks

(* The types of the channel.                                               *)
Typed(m) ==
    /\ DOMAIN m = ChannelFields
    /\ m.ranks \in [Ranks -> RankT]
    /\ m.banks \in [Ranks -> [Banks -> BankT]]
    /\ QueueTyped(m.cq)
    /\ m.powerDown \in [Ranks -> BOOLEAN]
    /\ m.refreshRank \in Ranks
    /\ m.cmd = <<>> \/ (m.cmd = <<m.cmd[1]>> /\ IsCommand(m.cmd[1]))
    /\ m.data \in Seq(BurstT)
    /\ m.writeData \in Seq(BurstT)
    /\ m.pendingTransactions \in Seq(TransactionT)
    /\ m.transactionQueue \in Seq(TransactionT)

(* The countdown of a bank that precharges or refreshes never outlasts its *)
(* ban on activation: when it ends, and not before, the bank is Idle.      *)
Own(c, slack) ==
    /\ c.countdown > 0 <=> c.state \in {"Precharging", "Refreshing"}
    /\ c.countdown > 0 => c.activate + slack >= c.countdown

(* A rank sleeps with all of its banks, and they may wake together.        *)
Powers(powered, banks) ==
    \A r \in Ranks, b \in Banks :
      /\ powered[r] <=> banks[r][b].state = "PowerDown"
      /\ banks[r][b].powerUp = banks[r][0].powerUp

(* The column access at place i of a queue still has its ACT in front.     *)
HasAct(q, i) == i > 1 /\ q[i - 1].type = "ACTIVATE"

(* The shape of a rank's queue: an ACT is followed by its column access;   *)
(* one whose ACT has been issued finds its row open, the first of the      *)
(* queue for that row, and its bank's row access count at zero, so that    *)
(* nothing closes the row before it is served.                             *)
QueueOK(q, banks, counters) ==
    /\ Len(q) <= CMD_QUEUE_DEPTH
    /\ \A i \in DOMAIN q :
         q[i].type = "ACTIVATE" => i < Len(q) /\ IsColumn(q[i + 1]) /\ q[i + 1].addr = q[i].addr
    /\ \A i \in DOMAIN q :
         IsColumn(q[i]) /\ ~HasAct(q, i) =>
           /\ banks[q[i].bank].state = "RowActive"
           /\ banks[q[i].bank].row = q[i].row
           /\ counters[q[i].bank] = 0
           /\ \A j \in 1 .. i - 1 : ~SameRow(q[j], q[i])
    /\ \A b \in Banks : banks[b].state # "RowActive" => counters[b] = 0

(* The command queues and the controller's table fit together. slack is 1  *)
(* at the end of a cycle, after the deadlines have ticked, and 0 before.   *)
Scheduled(m, slack) ==
    /\ \A r \in Ranks : QueueOK(m.cq.queues[r], m.banks[r], m.cq.rowAccessCounters[r])
    /\ \A r \in Ranks, b \in Banks : Own(m.banks[r][b], slack)
    /\ ~m.cq.overflow
    /\ Powers(m.powerDown, m.banks)

(* A bank k of a rank's table against the controller's c. The rank has it  *)
(* one cycle later, so its deadlines are at most one cycle longer; a bank  *)
(* that precharges or refreshes is Idle to the rank at once.               *)
Agree(c, k) ==
    /\ c.state \in {"RowActive", "PowerDown"} => k.state = c.state
    /\ c.state = "RowActive" => k.row = c.row
    /\ c.state \in {"Idle", "Precharging", "Refreshing"} => k.state = "Idle"
    /\ k.read <= c.read + 1
    /\ k.write <= c.write + 1
    /\ k.activate <= c.activate + 1
    /\ k.precharge <= c.precharge + 1
    /\ k.powerUp = c.powerUp

(* The command on the bus is for rank r, and what rank r keeps once it has *)
(* got it.                                                                 *)
BusTo(m, r) == m.cmd # <<>> /\ m.cmd[1].rank = r
Its(m, r) == IF BusTo(m, r) THEN receiveFromBus(m.ranks[r], m.cmd[1]) ELSE m.ranks[r]

(* No rank has rejected a command or will reject the one on the bus, and   *)
(* the two tables agree.                                                   *)
Legal(m) ==
    \A r \in Ranks :
      /\ ~Its(m, r).rejected
      /\ m.powerDown[r] = Its(m, r).isPowerDown
      /\ \A b \in Banks : Agree(m.banks[r][b], Its(m, r).banks[b])

(* A lane is one of the sources of the data bus: a rank's read bursts or   *)
(* the controller's write bursts. One burst of it is on the bus at a time, *)
(* and those that wait start at least a burst apart.                       *)
LaneOK(bus, waiting) ==
    /\ Len(bus) <= 1
    /\ \A i \in DOMAIN bus : bus[i].left \in 1 .. Burst
    /\ \A i \in DOMAIN waiting : waiting[i].left \in 1 .. RL
    /\ \A i, j \in DOMAIN waiting : i < j => waiting[j].left >= waiting[i].left + Burst
    /\ \A i \in DOMAIN bus, j \in DOMAIN waiting : waiting[j].left >= bus[i].left

(* The cycles, counted from now, at which a lane's bursts start.           *)
Starts(bus, waiting) ==
    {bus[i].left - Burst : i \in DOMAIN bus} \cup {waiting[i].left : i \in DOMAIN waiting}

(* The ranks, and the controller as the last of the lanes.                 *)
Lanes == 0 .. NUM_RANKS
BusOf(m, l) == IF l = NUM_RANKS THEN m.data ELSE m.ranks[l].outgoing
WaitingOf(m, l) == IF l = NUM_RANKS THEN m.writeData ELSE m.ranks[l].readReturn
StartsOf(m, l) == Starts(BusOf(m, l), WaitingOf(m, l))
                  \cup (IF BusTo(m, l) /\ m.cmd[1].type = "READ" THEN {RL + 1} ELSE {})

(* A column access that bank c allows puts its burst after the one that    *)
(* starts at s.                                                            *)
Covered(c, s, slack) ==
    /\ c.write + WL + slack >= s + Burst
    /\ c.read + RL + 1 + slack >= s + Burst

(* Bursts of different lanes do not overlap, a read on the bus comes after *)
(* the bursts of its rank, and every burst is covered by the deadlines of  *)
(* every open bank.                                                        *)
DataBus(m, slack) ==
    /\ \A l \in Lanes : LaneOK(BusOf(m, l), WaitingOf(m, l))
    /\ \A l, k \in Lanes : l # k =>
         \A s \in StartsOf(m, l), t \in StartsOf(m, k) : s + Burst <= t \/ t + Burst <= s
    /\ \A l \in Lanes : BusTo(m, l) /\ m.cmd[1].type = "READ" =>
         \A s \in Starts(BusOf(m, l), WaitingOf(m, l)) : s + Burst <= RL + 1
    /\ \A l \in Lanes : \A s \in StartsOf(m, l) : \A r \in Ranks, b \in Banks :
         m.banks[r][b].state = "RowActive" => Covered(m.banks[r][b], s, slack)
    /\ ~m.collision

(* The inductive invariant.                                                *)
DramInv == Typed(mem) /\ Scheduled(mem, 1) /\ Legal(mem) /\ DataBus(mem, 1)

-----------------------------------------------------------------------------
(* The banks: what a command does to the two tables.                       *)

(* A command that the controller's table allows.                           *)
Sendable(banks, p) ==
    IF p.type = "REFRESH"
    THEN \A b \in Banks : banks[p.rank][b].state = "Idle" /\ banks[p.rank][b].activate = 0
    ELSE Allowed(banks[p.rank][p.bank], p)

(* Deadlines are natural numbers.                                          *)
LEMMA DeadlineType ==
    ASSUME NEW x \in Nat, NEW y \in Nat
    PROVE  /\ Later(x, y) \in Nat /\ Later(x, y) >= x /\ Later(x, y) >= y
           /\ Sooner(x) \in Nat /\ Sooner(x) <= x /\ x <= Sooner(x) + 1
BY DEF Later, Sooner

(* The clock, on one bank.                                                 *)
LEMMA TickBank ==
    ASSUME NEW b \in BankT
    PROVE  /\ Tick(b) \in BankT
           /\ Tick(b).state = b.state /\ Tick(b).row = b.row
           /\ Tick(b).countdown = b.countdown
           /\ Tick(b).read = Sooner(b.read) /\ Tick(b).write = Sooner(b.write)
           /\ Tick(b).activate = Sooner(b.activate)
           /\ Tick(b).precharge = Sooner(b.precharge)
           /\ Tick(b).powerUp = Sooner(b.powerUp)
<1>1. /\ Sooner(b.read) \in Nat /\ Sooner(b.write) \in Nat /\ Sooner(b.activate) \in Nat
      /\ Sooner(b.precharge) \in Nat /\ Sooner(b.powerUp) \in Nat
  BY DEF BankT, Sooner
<1> QED BY <1>1 DEF Tick, BankT

(* The states a command can put a bank into.                               *)
LEMMA StateNames ==
    "Idle" \in BankStates /\ "RowActive" \in BankStates /\ "Precharging" \in BankStates
    /\ "Refreshing" \in BankStates /\ "PowerDown" \in BankStates
BY DEF BankStates

(* What a column access leaves of the banks of its rank.                   *)
LEMMA ColumnBanks ==
    ASSUME NEW banks \in [Banks -> BankT], NEW p, p.type \in {"READ", "WRITE"},
           NEW b \in Banks
    PROVE  /\ Column(banks, p) \in [Banks -> BankT]
           /\ LET n == Column(banks, p)[b]  c == banks[b]
              IN /\ n.state = c.state /\ n.row = c.row /\ n.countdown = c.countdown
                 /\ n.activate = c.activate /\ n.powerUp = c.powerUp
                 /\ n.read = Later(c.read, IF p.type = "READ" THEN Later(T.tCCD, Burst)
                                           ELSE WRITE_TO_READ_DELAY_B)
                 /\ n.write = Later(c.write, IF p.type = "READ" THEN READ_TO_WRITE_DELAY
                                             ELSE Later(T.tCCD, Burst))
                 /\ n.precharge = IF b = p.bank
                                  THEN Later(c.precharge, IF p.type = "READ" THEN READ_TO_PRE_DELAY
                                                          ELSE WRITE_TO_PRE_DELAY)
                                  ELSE c.precharge
<1> DEFINE toRead == IF p.type = "READ" THEN Later(T.tCCD, Burst) ELSE WRITE_TO_READ_DELAY_B
           toWrite == IF p.type = "READ" THEN READ_TO_WRITE_DELAY ELSE Later(T.tCCD, Burst)
           toPre == IF p.type = "READ" THEN READ_TO_PRE_DELAY ELSE WRITE_TO_PRE_DELAY
           bank(k) == [banks[k] EXCEPT
                         !.read = Later(@, toRead), !.write = Later(@, toWrite),
                         !.precharge = IF k = p.bank THEN Later(@, toPre) ELSE @]
<1>1. toRead \in Nat /\ toWrite \in Nat /\ toPre \in Nat
  BY Delays, DeadlineType
<1>2. Column(banks, p) = [k \in Banks |-> bank(k)]
  BY DEF Column
<1> HIDE DEF toRead, toWrite, toPre
<1>3. ASSUME NEW k \in Banks
      PROVE  /\ bank(k) \in BankT
             /\ bank(k).state = banks[k].state /\ bank(k).row = banks[k].row
             /\ bank(k).countdown = banks[k].countdown
             /\ bank(k).activate = banks[k].activate /\ bank(k).powerUp = banks[k].powerUp
             /\ bank(k).read = Later(banks[k].read, toRead)
             /\ bank(k).write = Later(banks[k].write, toWrite)
             /\ bank(k).precharge = IF k = p.bank THEN Later(banks[k].precharge, toPre)
                                    ELSE banks[k].precharge
  <2>1. /\ banks[k] \in BankT /\ Later(banks[k].read, toRead) \in Nat
        /\ Later(banks[k].write, toWrite) \in Nat /\ Later(banks[k].precharge, toPre) \in Nat
    BY <1>1, DeadlineType DEF BankT
  <2> QED BY <2>1 DEF BankT
<1> HIDE DEF bank
<1>4. Column(banks, p) \in [Banks -> BankT] /\ Column(banks, p)[b] = bank(b)
  BY <1>2, <1>3
<1> QED BY <1>3, <1>4 DEF toRead, toWrite, toPre

(* What opening a row leaves of the banks of its rank.                     *)
LEMMA ActivateBanks ==
    ASSUME NEW banks \in [Banks -> BankT], NEW p, p.row \in Nat, NEW b \in Banks
    PROVE  /\ Activate(banks, p) \in [Banks -> BankT]
           /\ LET n == Activate(banks, p)[b]  c == banks[b]
              IN /\ n.countdown = c.countdown /\ n.powerUp = c.powerUp
                 /\ b = p.bank =>
                      /\ n.state = "RowActive" /\ n.row = p.row
                      /\ n.activate = Later(c.activate, T.tRC)
                      /\ n.read = Later(c.read, T.tRCD)
                      /\ n.write = Later(c.write, T.tRCD)
                      /\ n.precharge = Later(c.precharge, T.tRAS)
                 /\ b # p.bank =>
                      /\ n.state = c.state /\ n.row = c.row /\ n.read = c.read
                      /\ n.write = c.write /\ n.precharge = c.precharge
                      /\ n.activate = Later(c.activate, T.tRRD)
<1> DEFINE opened(k) == [banks[k] EXCEPT !.state = "RowActive", !.row = p.row,
                             !.activate = Later(@, T.tRC), !.read = Later(@, T.tRCD),
                             !.write = Later(@, T.tRCD), !.precharge = Later(@, T.tRAS)]
           other(k) == [banks[k] EXCEPT !.activate = Later(@, T.tRRD)]
<1>1. Activate(banks, p) = [k \in Banks |-> IF k = p.bank THEN opened(k) ELSE other(k)]
  BY DEF Activate
<1>2. ASSUME NEW k \in Banks
      PROVE  /\ opened(k) \in BankT /\ other(k) \in BankT
             /\ opened(k).countdown = banks[k].countdown
             /\ opened(k).powerUp = banks[k].powerUp
             /\ opened(k).state = "RowActive" /\ opened(k).row = p.row
             /\ opened(k).activate = Later(banks[k].activate, T.tRC)
             /\ opened(k).read = Later(banks[k].read, T.tRCD)
             /\ opened(k).write = Later(banks[k].write, T.tRCD)
             /\ opened(k).precharge = Later(banks[k].precharge, T.tRAS)
             /\ other(k).countdown = banks[k].countdown /\ other(k).powerUp = banks[k].powerUp
             /\ other(k).state = banks[k].state /\ other(k).row = banks[k].row
             /\ other(k).read = banks[k].read /\ other(k).write = banks[k].write
             /\ other(k).precharge = banks[k].precharge
             /\ other(k).activate = Later(banks[k].activate, T.tRRD)
  <2>1. /\ banks[k] \in BankT /\ Later(banks[k].activate, T.tRC) \in Nat
        /\ Later(banks[k].read, T.tRCD) \in Nat /\ Later(banks[k].write, T.tRCD) \in Nat
        /\ Later(banks[k].precharge, T.tRAS) \in Nat /\ Later(banks[k].activate, T.tRRD) \in Nat
    BY Delays, DeadlineType DEF BankT
  <2> QED BY <2>1, StateNames DEF BankT
<1> HIDE DEF opened, other
<1>3. /\ Activate(banks, p) \in [Banks -> BankT]
      /\ Activate(banks, p)[b] = IF b = p.bank THEN opened(b) ELSE other(b)
  BY <1>1, <1>2
<1> QED BY <1>2, <1>3

(* A precharge and a refresh, on one bank of the controller's table.       *)
LEMMA ClosingBank ==
    ASSUME NEW c \in BankT
    PROVE  /\ Closing(c) \in BankT
           /\ Closing(c).state = "Precharging" /\ Closing(c).countdown = T.tRP
           /\ Closing(c).activate = Later(c.activate, T.tRP)
           /\ Closing(c).row = c.row /\ Closing(c).read = c.read /\ Closing(c).write = c.write
           /\ Closing(c).precharge = c.precharge /\ Closing(c).powerUp = c.powerUp
           /\ Renewing(c) \in BankT
           /\ Renewing(c).state = "Refreshing" /\ Renewing(c).countdown = T.tRFC
           /\ Renewing(c).activate = T.tRFC
           /\ Renewing(c).row = c.row /\ Renewing(c).read = c.read
           /\ Renewing(c).write = c.write
           /\ Renewing(c).precharge = c.precharge /\ Renewing(c).powerUp = c.powerUp
<1>1. Later(c.activate, T.tRP) \in Nat /\ T.tRP \in Nat /\ T.tRFC \in Nat
  BY Delays, DeadlineType DEF BankT
<1>2. /\ Closing(c) \in BankT /\ Renewing(c) \in BankT
  BY <1>1, StateNames DEF BankT, Closing, Renewing
<1> QED BY <1>1, <1>2 DEF BankT, Closing, Renewing

(* The open banks of the other ranks after a column access.                *)
LEMMA TurnaroundBank ==
    ASSUME NEW c \in BankT, NEW p
    PROVE  /\ Turnaround(c, p) \in BankT
           /\ Turnaround(c, p).state = c.state /\ Turnaround(c, p).row = c.row
           /\ Turnaround(c, p).activate = c.activate /\ Turnaround(c, p).powerUp = c.powerUp
           /\ Turnaround(c, p).precharge = c.precharge
           /\ Turnaround(c, p).countdown = c.countdown
           /\ Turnaround(c, p).read >= c.read /\ Turnaround(c, p).write >= c.write
           /\ c.state = "RowActive" =>
                /\ Turnaround(c, p).read >= Burst + T.tRTRS - 1
                /\ Turnaround(c, p).write >= Burst
                /\ p.type = "READ" =>
                     /\ Turnaround(c, p).read >= Burst
                     /\ Turnaround(c, p).write >= READ_TO_WRITE_DELAY
<1> DEFINE r1 == Later(c.read, Burst + T.tRTRS)
           w1 == Later(c.write, READ_TO_WRITE_DELAY)
           w2 == Later(c.write, Burst + T.tRTRS)
           r2 == Later(c.read, WRITE_TO_READ_DELAY_R)
<1>1. /\ r1 \in Nat /\ w1 \in Nat /\ w2 \in Nat /\ r2 \in Nat
      /\ r1 >= c.read /\ w1 >= c.write /\ w2 >= c.write /\ r2 >= c.read
      /\ r1 >= Burst + T.tRTRS /\ w1 >= READ_TO_WRITE_DELAY
      /\ w2 >= Burst + T.tRTRS /\ r2 >= WRITE_TO_READ_DELAY_R
      /\ c.read \in Nat /\ c.write \in Nat
  <2>1. c.read \in Nat /\ c.write \in Nat /\ Burst + T.tRTRS \in Nat
        /\ READ_TO_WRITE_DELAY \in Nat /\ WRITE_TO_READ_DELAY_R \in Nat
    BY Delays DEF BankT
  <2> QED BY <2>1, DeadlineType, Zenon
<1>2. Turnaround(c, p) = IF c.state # "RowActive" THEN c
                         ELSE IF p.type = "READ"
                         THEN [c EXCEPT !.read = r1, !.write = w1]
                         ELSE [c EXCEPT !.write = w2, !.read = r2]
  BY DEF Turnaround
<1> HIDE DEF r1, w1, w2, r2
<1>3. CASE c.state # "RowActive"
  BY <1>1, <1>2, <1>3
<1>4. CASE c.state = "RowActive" /\ p.type = "READ"
  <2>1. [c EXCEPT !.read = r1, !.write = w1] \in BankT
    BY <1>1 DEF BankT
  <2> QED BY <1>1, <1>2, <1>4, <2>1, Delays DEF BankT
<1>5. CASE c.state = "RowActive" /\ p.type # "READ"
  <2>1. [c EXCEPT !.write = w2, !.read = r2] \in BankT
    BY <1>1 DEF BankT
  <2> QED BY <1>1, <1>2, <1>5, <2>1, Delays DEF BankT
<1> QED BY <1>3, <1>4, <1>5

(* The controller's table after a command.                                 *)
LEMMA TableAfter ==
    ASSUME NEW banks \in [Ranks -> [Banks -> BankT]], NEW p, IsCommand(p)
    PROVE  /\ BanksAfter(banks, p) \in [Ranks -> [Banks -> BankT]]
           /\ \A r \in Ranks : r # p.rank /\ ~IsColumn(p) => BanksAfter(banks, p)[r] = banks[r]
           /\ \A r \in Ranks, b \in Banks :
                r # p.rank /\ IsColumn(p) =>
                  BanksAfter(banks, p)[r][b] = Turnaround(banks[r][b], p)
           /\ IsColumn(p) => BanksAfter(banks, p)[p.rank] = Column(banks[p.rank], p)
           /\ p.type = "ACTIVATE" =>
                BanksAfter(banks, p)[p.rank] = Activate(banks[p.rank], p)
           /\ p.type = "PRECHARGE" =>
                \A b \in Banks : BanksAfter(banks, p)[p.rank][b] =
                                   IF b = p.bank THEN Closing(banks[p.rank][b])
                                   ELSE banks[p.rank][b]
           /\ p.type = "REFRESH" =>
                \A b \in Banks : BanksAfter(banks, p)[p.rank][b] = Renewing(banks[p.rank][b])
<1> DEFINE table == BanksAfter(banks, p)
<1>1. CASE IsColumn(p)
  <2>1. table = [r \in Ranks |-> IF r = p.rank THEN Column(banks[r], p)
                                 ELSE [b \in Banks |-> Turnaround(banks[r][b], p)]]
    BY <1>1 DEF BanksAfter, IsColumn
  <2>2. Column(banks[p.rank], p) \in [Banks -> BankT]
    <3>1. p.type \in {"READ", "WRITE"} /\ banks[p.rank] \in [Banks -> BankT] /\ 0 \in Banks
      BY <1>1, GeometryAssumption DEF IsColumn, IsCommand, Banks
    <3> QED BY <3>1, ColumnBanks
  <2>3. \A r \in Ranks, b \in Banks : Turnaround(banks[r][b], p) \in BankT
    BY TurnaroundBank
  <2>4. p.rank \in Ranks /\ p.type \notin {"ACTIVATE", "PRECHARGE", "REFRESH"}
    BY <1>1 DEF IsCommand, IsColumn
  <2> QED BY <1>1, <2>1, <2>2, <2>3, <2>4
<1>2. CASE p.type = "ACTIVATE"
  <2>1. table = [banks EXCEPT ![p.rank] = Activate(banks[p.rank], p)]
    BY <1>2 DEF BanksAfter
  <2>2. Activate(banks[p.rank], p) \in [Banks -> BankT]
    <3>1. p.row \in Nat /\ banks[p.rank] \in [Banks -> BankT] /\ 0 \in Banks
      BY <1>2, GeometryAssumption DEF IsCommand, Banks
    <3> QED BY <3>1, ActivateBanks
  <2> QED BY <1>2, <2>1, <2>2 DEF IsCommand, IsColumn
<1>3. CASE p.type = "PRECHARGE"
  <2>1. table = [banks EXCEPT ![p.rank][p.bank] = Closing(banks[p.rank][p.bank])]
    BY <1>3 DEF BanksAfter
  <2>2. Closing(banks[p.rank][p.bank]) \in BankT /\ p.rank \in Ranks /\ p.bank \in Banks
    BY ClosingBank DEF IsCommand
  <2> QED BY <1>3, <2>1, <2>2 DEF IsColumn
<1>4. CASE p.type = "REFRESH"
  <2>1. table = [banks EXCEPT ![p.rank] = [b \in Banks |-> Renewing(banks[p.rank][b])]]
    BY <1>4 DEF BanksAfter
  <2>2. \A b \in Banks : Renewing(banks[p.rank][b]) \in BankT
    BY ClosingBank DEF IsCommand
  <2> QED BY <1>4, <2>1, <2>2 DEF IsColumn, IsCommand
<1> QED BY <1>1, <1>2, <1>3, <1>4 DEF IsCommand, IsColumn

(* A rank's own table after a command, and whether the rank rejects it.    *)
Rejects(banks, p) ==
    IF p.type = "REFRESH" THEN \E k \in Banks : ~Allowed(banks[k], p)
    ELSE ~Allowed(banks[p.bank], p)

RankBanksAfter(banks, p) ==
    CASE p.type \in {"READ", "WRITE"} -> Column(banks, p)
      [] p.type = "ACTIVATE" -> Reopen(banks, p)
      [] p.type = "PRECHARGE" -> [banks EXCEPT ![p.bank] = Shut(@)]
      [] p.type = "REFRESH" -> [k \in Banks |-> [banks[k] EXCEPT !.activate = T.tRFC]]

(* A rank's table stays one.                                               *)
LEMMA RankTableAfter ==
    ASSUME NEW banks \in [Banks -> BankT], NEW p, IsCommand(p), NEW b \in Banks
    PROVE  /\ RankBanksAfter(banks, p) \in [Banks -> BankT]
           /\ IsColumn(p) => RankBanksAfter(banks, p) = Column(banks, p)
           /\ p.type = "ACTIVATE" =>
                LET n == RankBanksAfter(banks, p)[b]
                IN /\ n.powerUp = banks[b].powerUp
                   /\ b = p.bank =>
                        /\ n.state = "RowActive" /\ n.row = p.row
                        /\ n.activate = T.tRC /\ n.read = T.tRCD
                        /\ n.write = T.tRCD /\ n.precharge = T.tRAS
                   /\ b # p.bank =>
                        /\ n.state = banks[b].state /\ n.row = banks[b].row
                        /\ n.read = banks[b].read /\ n.write = banks[b].write
                        /\ n.precharge = banks[b].precharge
                        /\ n.activate = Later(banks[b].activate, T.tRRD)
           /\ p.type = "PRECHARGE" =>
                LET n == RankBanksAfter(banks, p)[b]
                IN /\ n.row = banks[b].row /\ n.read = banks[b].read
                   /\ n.write = banks[b].write /\ n.precharge = banks[b].precharge
                   /\ n.powerUp = banks[b].powerUp
                   /\ b = p.bank =>
                        n.state = "Idle" /\ n.activate = Later(banks[b].activate, T.tRP)
                   /\ b # p.bank => n.state = banks[b].state /\ n.activate = banks[b].activate
           /\ p.type = "REFRESH" =>
                LET n == RankBanksAfter(banks, p)[b]
                IN /\ n.row = banks[b].row /\ n.read = banks[b].read
                   /\ n.write = banks[b].write /\ n.precharge = banks[b].precharge
                   /\ n.powerUp = banks[b].powerUp /\ n.state = banks[b].state
                   /\ n.activate = T.tRFC
<1>1. CASE IsColumn(p)
  <2>1. RankBanksAfter(banks, p) = Column(banks, p) /\ p.type \in {"READ", "WRITE"}
    BY <1>1 DEF RankBanksAfter, IsColumn
  <2>2. Column(banks, p) \in [Banks -> BankT]
    BY <2>1, ColumnBanks
  <2>3. p.type \notin {"ACTIVATE", "PRECHARGE", "REFRESH"}
    BY <2>1
  <2> QED BY <2>1, <2>2, <2>3
<1>2. CASE p.type = "ACTIVATE"
  <2> DEFINE old == [banks EXCEPT ![p.bank] = Forget(banks[p.bank])]
  <2>1. RankBanksAfter(banks, p) = Activate(old, p)
    BY <1>2 DEF RankBanksAfter, Reopen
  <2>2. \A k \in Banks :
          /\ Forget(banks[k]) \in BankT /\ Forget(banks[k]).powerUp = banks[k].powerUp
          /\ Forget(banks[k]).activate = 0 /\ Forget(banks[k]).read = 0
          /\ Forget(banks[k]).write = 0 /\ Forget(banks[k]).precharge = 0
    BY DEF Forget, BankT
  <2>3. /\ old \in [Banks -> BankT] /\ p.row \in Nat /\ p.bank \in Banks
        /\ \A k \in Banks : old[k] = IF k = p.bank THEN Forget(banks[k]) ELSE banks[k]
    BY <1>2, <2>2 DEF IsCommand
  <2> HIDE DEF old
  <2>4. /\ Later(0, T.tRC) = T.tRC /\ Later(0, T.tRCD) = T.tRCD /\ Later(0, T.tRAS) = T.tRAS
    BY Delays DEF Later
  <2> DEFINE n == Activate(old, p)[b]  c == old[b]
  <2>5. /\ Activate(old, p) \in [Banks -> BankT] 
        /\ n.countdown = c.countdown /\ n.powerUp = c.powerUp
        /\ b = p.bank =>
             /\ n.state = "RowActive" /\ n.row = p.row
             /\ n.activate = Later(c.activate, T.tRC)
             /\ n.read = Later(c.read, T.tRCD)
             /\ n.write = Later(c.write, T.tRCD)
             /\ n.precharge = Later(c.precharge, T.tRAS)
        /\ b # p.bank =>
             /\ n.state = c.state /\ n.row = c.row /\ n.read = c.read
             /\ n.write = c.write /\ n.precharge = c.precharge
             /\ n.activate = Later(c.activate, T.tRRD)
    BY <2>3, ActivateBanks
  <2> HIDE DEF n
  <2>6. RankBanksAfter(banks, p)[b] = n
    BY <2>1 DEF n
  <2>7. ~IsColumn(p) /\ p.type # "PRECHARGE" /\ p.type # "REFRESH"
    BY <1>2 DEF IsColumn
  <2>8. b = p.bank =>
          /\ n.state = "RowActive" /\ n.row = p.row /\ n.activate = T.tRC /\ n.read = T.tRCD
          /\ n.write = T.tRCD /\ n.precharge = T.tRAS
    <3> SUFFICES ASSUME b = p.bank
                 PROVE  /\ n.state = "RowActive" /\ n.row = p.row /\ n.activate = T.tRC
                        /\ n.read = T.tRCD /\ n.write = T.tRCD /\ n.precharge = T.tRAS
      OBVIOUS
    <3>1. /\ c.activate = 0 /\ c.read = 0 /\ c.write = 0 /\ c.precharge = 0
      BY <2>2, <2>3
    <3> HIDE DEF c
    <3> QED BY <2>4, <2>5, <3>1, Zenon
  <2>9. b # p.bank => c = banks[b]
    BY <2>3
  <2>10. c.powerUp = banks[b].powerUp
    BY <2>2, <2>3
  <2> HIDE DEF c
  <2>11. b # p.bank =>
           /\ n.state = banks[b].state /\ n.row = banks[b].row
           /\ n.read = banks[b].read /\ n.write = banks[b].write
           /\ n.precharge = banks[b].precharge
           /\ n.activate = Later(banks[b].activate, T.tRRD)
    BY <2>5, <2>9, Zenon
  <2> QED BY <1>2, <2>1, <2>5, <2>6, <2>7, <2>8, <2>10, <2>11
<1>3. CASE p.type = "PRECHARGE"
  <2>1. RankBanksAfter(banks, p) = [banks EXCEPT ![p.bank] = Shut(banks[p.bank])]
    BY <1>3 DEF RankBanksAfter
  <2>2. \A k \in Banks : Later(banks[k].activate, T.tRP) \in Nat
    BY Delays, DeadlineType DEF BankT
  <2>3. \A k \in Banks :
          /\ Shut(banks[k]) \in BankT /\ Shut(banks[k]).state = "Idle"
          /\ Shut(banks[k]).activate = Later(banks[k].activate, T.tRP)
          /\ Shut(banks[k]).row = banks[k].row /\ Shut(banks[k]).read = banks[k].read
          /\ Shut(banks[k]).write = banks[k].write
          /\ Shut(banks[k]).precharge = banks[k].precharge
          /\ Shut(banks[k]).powerUp = banks[k].powerUp
    BY <2>2, StateNames DEF Shut, BankT
  <2>4. /\ RankBanksAfter(banks, p) \in [Banks -> BankT]
        /\ RankBanksAfter(banks, p)[b] = IF b = p.bank THEN Shut(banks[b]) ELSE banks[b]
    BY <2>1, <2>3 DEF IsCommand
  <2>5. CASE b = p.bank
    BY <1>3, <2>3, <2>4, <2>5 DEF IsColumn
  <2>6. CASE b # p.bank
    BY <1>3, <2>4, <2>6 DEF IsColumn
  <2> QED BY <2>5, <2>6
<1>4. CASE p.type = "REFRESH"
  <2>1. RankBanksAfter(banks, p) = [k \in Banks |-> [banks[k] EXCEPT !.activate = T.tRFC]]
    BY <1>4 DEF RankBanksAfter
  <2>2. \A k \in Banks : [banks[k] EXCEPT !.activate = T.tRFC] \in BankT
    BY Delays DEF BankT
  <2>3. RankBanksAfter(banks, p) \in [Banks -> BankT]
        /\ RankBanksAfter(banks, p)[b] = [banks[b] EXCEPT !.activate = T.tRFC]
    BY <2>1, <2>2
  <2> QED BY <1>4, <2>3 DEF IsColumn, BankT
<1> QED BY <1>1, <1>2, <1>3, <1>4 DEF IsCommand, IsColumn

(* What a command does to a rank.                                          *)
LEMMA ReceiveIs ==
    ASSUME NEW v \in RankT, NEW p, IsCommand(p)
    PROVE  /\ receiveFromBus(v, p) \in RankT
           /\ receiveFromBus(v, p).banks = RankBanksAfter(v.banks, p)
           /\ receiveFromBus(v, p).isPowerDown = v.isPowerDown
           /\ receiveFromBus(v, p).outgoing = v.outgoing
           /\ receiveFromBus(v, p).readReturn =
                IF p.type = "READ" THEN Append(v.readReturn, [addr |-> p.addr, left |-> RL])
                ELSE v.readReturn
           /\ receiveFromBus(v, p).rejected = (v.rejected \/ Rejects(v.banks, p))
<1> DEFINE seen == [v EXCEPT !.rejected = v.rejected \/ Rejects(v.banks, p)]
           n == receiveFromBus(v, p)
<1>1. /\ seen \in RankT /\ seen.banks = v.banks /\ seen.isPowerDown = v.isPowerDown
      /\ seen.outgoing = v.outgoing /\ seen.readReturn = v.readReturn
      /\ seen.rejected = (v.rejected \/ Rejects(v.banks, p))
  <2>1. (v.rejected \/ Rejects(v.banks, p)) \in BOOLEAN
    OBVIOUS
  <2> QED BY <2>1 DEF RankT
<1>2. RankBanksAfter(v.banks, p) \in [Banks -> BankT]
  <2>1. v.banks \in [Banks -> BankT] /\ 0 \in Banks
    BY GeometryAssumption DEF RankT, Banks
  <2> QED BY <2>1, RankTableAfter
<1>3. CASE p.type = "READ"
  <2>1. n = [seen EXCEPT !.banks = Column(seen.banks, p),
               !.readReturn = Append(seen.readReturn, [addr |-> p.addr, left |-> RL])]
    BY <1>3 DEF receiveFromBus, Rejects
  <2>2. Column(seen.banks, p) = RankBanksAfter(v.banks, p)
    BY <1>1, <1>3 DEF RankBanksAfter
  <2>3. Append(seen.readReturn, [addr |-> p.addr, left |-> RL]) \in Seq(BurstT)
    <3>1. [addr |-> p.addr, left |-> RL] \in BurstT
      BY <1>3, Delays DEF BurstT, IsCommand
    <3>2. seen.readReturn \in Seq(BurstT)
      BY <1>1 DEF RankT
    <3> QED BY <3>1, <3>2, AppendProperties
  <2> DEFINE banks == RankBanksAfter(v.banks, p)
             bursts == Append(seen.readReturn, [addr |-> p.addr, left |-> RL])
  <2>4. n = [seen EXCEPT !.banks = banks, !.readReturn = bursts]
    BY <2>1, <2>2
  <2>5. bursts = Append(v.readReturn, [addr |-> p.addr, left |-> RL])
    BY <1>1
  <2>6. banks \in [Banks -> BankT] /\ bursts \in Seq(BurstT)
    BY <1>2, <2>3
  <2> HIDE DEF seen, n, banks, bursts
  <2>7. /\ n \in RankT /\ n.banks = banks /\ n.isPowerDown = seen.isPowerDown
        /\ n.outgoing = seen.outgoing /\ n.readReturn = bursts /\ n.rejected = seen.rejected
    BY <1>1, <2>4, <2>6 DEF RankT
  <2> QED BY <1>1, <1>3, <2>5, <2>7 DEF n, banks
<1>4. CASE p.type # "READ"
  <2>1. n = [seen EXCEPT !.banks = RankBanksAfter(v.banks, p), !.refreshWaiting = n.refreshWaiting]
        /\ n.refreshWaiting \in BOOLEAN
    <3>1. CASE p.type = "WRITE"
      <4>1. n = [seen EXCEPT !.banks = RankBanksAfter(v.banks, p)]
        BY <1>1, <3>1 DEF receiveFromBus, Rejects, RankBanksAfter
      <4> HIDE DEF seen, n
      <4> QED BY <1>1, <1>2, <4>1 DEF RankT
    <3>2. CASE p.type = "ACTIVATE"
      <4>1. n = [seen EXCEPT !.banks = RankBanksAfter(v.banks, p)]
        BY <1>1, <3>2 DEF receiveFromBus, Rejects, RankBanksAfter
      <4> HIDE DEF seen, n
      <4> QED BY <1>1, <1>2, <4>1 DEF RankT
    <3>3. CASE p.type = "PRECHARGE"
      <4>1. n = [seen EXCEPT !.banks = RankBanksAfter(v.banks, p)]
        BY <1>1, <3>3 DEF receiveFromBus, Rejects, RankBanksAfter
      <4> HIDE DEF seen, n
      <4> QED BY <1>1, <1>2, <4>1 DEF RankT
    <3>4. CASE p.type = "REFRESH"
      <4>1. n = [seen EXCEPT !.banks = RankBanksAfter(v.banks, p), !.refreshWaiting = FALSE]
        BY <1>1, <3>4 DEF receiveFromBus, Rejects, RankBanksAfter, Refresh
      <4> HIDE DEF seen, n
      <4> QED BY <1>1, <1>2, <4>1 DEF RankT
    <3> QED BY <1>4, <3>1, <3>2, <3>3, <3>4 DEF IsCommand
  <2> HIDE DEF seen, n
  <2> QED BY <1>1, <1>2, <1>4, <2>1 DEF RankT, n
<1> QED BY <1>3, <1>4

(* Two deadlines that differ by the cycle a command spends on the bus.     *)
LEMMA DeadlinesAgree ==
    ASSUME NEW c \in Nat, NEW k \in Nat, NEW d \in Nat, NEW e \in Nat, k <= c + 1, c <= e
    PROVE  /\ Sooner(k) <= Sooner(e) + 1
           /\ Later(Sooner(k), d) <= Sooner(Later(c, d)) + 1
           /\ d <= Sooner(Later(c, d)) + 1
           /\ c = 0 => Sooner(k) = 0
BY DEF Sooner, Later

(* The clock keeps the agreement of two banks, also when the controller    *)
(* has postponed its next column access.                                   *)
LEMMA AgreeTicked ==
    ASSUME NEW c \in BankT, NEW k \in BankT, NEW n \in BankT, Agree(c, k),
           n.state = c.state, n.row = c.row, n.activate = c.activate,
           n.precharge = c.precharge, n.powerUp = c.powerUp,
           n.read >= c.read, n.write >= c.write
    PROVE  Agree(Tick(n), Tick(k))
<1>1. /\ c.read \in Nat /\ c.write \in Nat /\ c.activate \in Nat /\ c.precharge \in Nat
      /\ k.read \in Nat /\ k.write \in Nat /\ k.activate \in Nat /\ k.precharge \in Nat
      /\ n.read \in Nat /\ n.write \in Nat
  BY DEF BankT
<1>2. /\ k.read <= c.read + 1 /\ k.write <= c.write + 1
      /\ k.activate <= c.activate + 1 /\ k.precharge <= c.precharge + 1
  BY DEF Agree
<1>3. /\ Sooner(k.read) <= Sooner(n.read) + 1 /\ Sooner(k.write) <= Sooner(n.write) + 1
      /\ Sooner(k.activate) <= Sooner(c.activate) + 1
      /\ Sooner(k.precharge) <= Sooner(c.precharge) + 1
  BY <1>1, <1>2 DEF Sooner
<1> QED BY <1>3, TickBank DEF Agree

(* The rank accepts a command the controller's table allows, one cycle     *)
(* later, and the two tables agree again then.                             *)
LEMMA AgreeAfter ==
    ASSUME NEW banks \in [Ranks -> [Banks -> BankT]], NEW v \in [Banks -> BankT],
           NEW p, IsCommand(p), Sendable(banks, p),
           \A b \in Banks : Agree(banks[p.rank][b], v[b]),
           NEW vt \in [Banks -> BankT], \A b \in Banks : vt[b] = Tick(v[b])
    PROVE  /\ ~Rejects(vt, p)
           /\ \A b \in Banks :
                Agree(Tick(BanksAfter(banks, p)[p.rank][b]), RankBanksAfter(vt, p)[b])
<1> DEFINE r == p.rank
           table == BanksAfter(banks, p)
           its == RankBanksAfter(vt, p)
<1>1. r \in Ranks /\ p.bank \in Banks /\ banks[r] \in [Banks -> BankT]
  BY DEF IsCommand
<1>2. table \in [Ranks -> [Banks -> BankT]] /\ its \in [Banks -> BankT]
  BY <1>1, TableAfter, RankTableAfter
<1>3. ASSUME NEW b \in Banks
      PROVE  /\ vt[b].state = v[b].state /\ vt[b].row = v[b].row
             /\ vt[b].read = Sooner(v[b].read) /\ vt[b].write = Sooner(v[b].write)
             /\ vt[b].activate = Sooner(v[b].activate)
             /\ vt[b].precharge = Sooner(v[b].precharge)
             /\ vt[b].powerUp = Sooner(v[b].powerUp)
  BY <1>3, TickBank
<1>4. ASSUME NEW b \in Banks
      PROVE  /\ banks[r][b] \in BankT /\ v[b] \in BankT /\ table[r][b] \in BankT
             /\ Agree(banks[r][b], v[b])
             /\ v[b].read \in Nat /\ v[b].write \in Nat /\ v[b].activate \in Nat
             /\ v[b].precharge \in Nat /\ v[b].powerUp = banks[r][b].powerUp
             /\ banks[r][b].read \in Nat /\ banks[r][b].write \in Nat
             /\ banks[r][b].activate \in Nat /\ banks[r][b].precharge \in Nat
             /\ v[b].read <= banks[r][b].read + 1 /\ v[b].write <= banks[r][b].write + 1
             /\ v[b].activate <= banks[r][b].activate + 1
             /\ v[b].precharge <= banks[r][b].precharge + 1
  <2>1. banks[r][b] \in BankT /\ v[b] \in BankT /\ table[r][b] \in BankT
    BY <1>1, <1>2
  <2> QED BY <2>1 DEF BankT, Agree
<1> HIDE DEF table, its
<1>5. ~Rejects(vt, p)
  <2>1. CASE p.type = "REFRESH"
    <3>1. ASSUME NEW b \in Banks PROVE vt[b].state = "Idle"
      <4>1. banks[r][b].state = "Idle"
        BY <2>1 DEF Sendable
      <4> QED BY <1>3, <1>4, <4>1 DEF Agree
    <3> QED BY <2>1, <3>1 DEF Rejects, Allowed
  <2>2. CASE p.type # "REFRESH"
    <3> DEFINE c == banks[r][p.bank]  k == v[p.bank]
    <3>1. Allowed(c, p)
      BY <2>2 DEF Sendable
    <3>2. /\ c.read = 0 => Sooner(k.read) = 0
          /\ c.write = 0 => Sooner(k.write) = 0
          /\ c.activate = 0 => Sooner(k.activate) = 0
          /\ c.precharge = 0 => Sooner(k.precharge) = 0
      BY <1>1, <1>4 DEF Sooner
    <3>3. Agree(c, k)
      BY <1>1, <1>4
    <3>4. /\ vt[p.bank].state = k.state /\ vt[p.bank].row = k.row
          /\ vt[p.bank].read = Sooner(k.read) /\ vt[p.bank].write = Sooner(k.write)
          /\ vt[p.bank].activate = Sooner(k.activate)
          /\ vt[p.bank].precharge = Sooner(k.precharge)
      BY <1>1, <1>3
    <3> HIDE DEF c, k
    <3>5. CASE p.type = "READ"
      BY <3>1, <3>2, <3>3, <3>4, <3>5 DEF Allowed, Agree, Rejects
    <3>6. CASE p.type = "WRITE"
      BY <3>1, <3>2, <3>3, <3>4, <3>6 DEF Allowed, Agree, Rejects
    <3>7. CASE p.type = "ACTIVATE"
      BY <3>1, <3>2, <3>3, <3>4, <3>7 DEF Allowed, Agree, Rejects
    <3>8. CASE p.type = "PRECHARGE"
      BY <3>1, <3>2, <3>3, <3>4, <3>8 DEF Allowed, Agree, Rejects
    <3> QED BY <2>2, <3>5, <3>6, <3>7, <3>8 DEF IsCommand
  <2> QED BY <2>1, <2>2
<1>6. ASSUME NEW b \in Banks
      PROVE  Agree(Tick(table[r][b]), its[b])
  <2> DEFINE c == banks[r][b]  k == v[b]  n == table[r][b]  w == its[b]
  <2>1. /\ c \in BankT /\ k \in BankT /\ n \in BankT /\ Agree(c, k)
        /\ Tick(n).state = n.state /\ Tick(n).row = n.row
        /\ Tick(n).read = Sooner(n.read) /\ Tick(n).write = Sooner(n.write)
        /\ Tick(n).activate = Sooner(n.activate) /\ Tick(n).precharge = Sooner(n.precharge)
        /\ Tick(n).powerUp = Sooner(n.powerUp)
    BY <1>4, TickBank
  <2>2. /\ k.read <= c.read + 1 /\ k.write <= c.write + 1 /\ k.activate <= c.activate + 1
        /\ k.precharge <= c.precharge + 1 /\ k.powerUp = c.powerUp
        /\ c.read \in Nat /\ c.write \in Nat /\ c.activate \in Nat /\ c.precharge \in Nat
        /\ k.read \in Nat /\ k.write \in Nat /\ k.activate \in Nat /\ k.precharge \in Nat
    BY <1>4
  <2>3. \A d \in Nat :
          /\ Later(Sooner(k.read), d) <= Sooner(Later(c.read, d)) + 1
          /\ Later(Sooner(k.write), d) <= Sooner(Later(c.write, d)) + 1
          /\ Later(Sooner(k.activate), d) <= Sooner(Later(c.activate, d)) + 1
          /\ Later(Sooner(k.precharge), d) <= Sooner(Later(c.precharge, d)) + 1
          /\ d <= Sooner(Later(c.read, d)) + 1 /\ d <= Sooner(Later(c.write, d)) + 1
          /\ d <= Sooner(Later(c.activate, d)) + 1 /\ d <= Sooner(Later(c.precharge, d)) + 1
    <3> TAKE d \in Nat
    <3> HIDE DEF c, k
    <3>1. /\ Later(Sooner(k.read), d) <= Sooner(Later(c.read, d)) + 1
          /\ d <= Sooner(Later(c.read, d)) + 1
      BY <2>2, DeadlinesAgree
    <3>2. /\ Later(Sooner(k.write), d) <= Sooner(Later(c.write, d)) + 1
          /\ d <= Sooner(Later(c.write, d)) + 1
      BY <2>2, DeadlinesAgree
    <3>3. /\ Later(Sooner(k.activate), d) <= Sooner(Later(c.activate, d)) + 1
          /\ d <= Sooner(Later(c.activate, d)) + 1
      BY <2>2, DeadlinesAgree
    <3>4. /\ Later(Sooner(k.precharge), d) <= Sooner(Later(c.precharge, d)) + 1
          /\ d <= Sooner(Later(c.precharge, d)) + 1
      BY <2>2, DeadlinesAgree
    <3> QED BY <3>1, <3>2, <3>3, <3>4
  <2>4. /\ Sooner(k.read) <= Sooner(c.read) + 1 /\ Sooner(k.write) <= Sooner(c.write) + 1
        /\ Sooner(k.activate) <= Sooner(c.activate) + 1
        /\ Sooner(k.precharge) <= Sooner(c.precharge) + 1
    BY <2>2 DEF Sooner
  <2>5. /\ vt[b].state = k.state /\ vt[b].row = k.row
        /\ vt[b].read = Sooner(k.read) /\ vt[b].write = Sooner(k.write)
        /\ vt[b].activate = Sooner(k.activate) /\ vt[b].precharge = Sooner(k.precharge)
        /\ vt[b].powerUp = Sooner(k.powerUp)
    BY <1>3
  <2> HIDE DEF c, k, n, w
  <2>6. CASE IsColumn(p)
    <3> DEFINE toRead == IF p.type = "READ" THEN Later(T.tCCD, Burst) ELSE WRITE_TO_READ_DELAY_B
               toWrite == IF p.type = "READ" THEN READ_TO_WRITE_DELAY ELSE Later(T.tCCD, Burst)
               toPre == IF p.type = "READ" THEN READ_TO_PRE_DELAY ELSE WRITE_TO_PRE_DELAY
    <3>1. toRead \in Nat /\ toWrite \in Nat /\ toPre \in Nat
      BY Delays, DeadlineType
    <3>2. p.type \in {"READ", "WRITE"}
      BY <2>6 DEF IsColumn
    <3>3. n = Column(banks[r], p)[b] /\ w = Column(vt, p)[b]
      BY <1>1, <1>2, <2>6, TableAfter, RankTableAfter DEF n, w, table, its
    <3>4. /\ n.state = c.state /\ n.row = c.row /\ n.powerUp = c.powerUp
          /\ n.activate = c.activate /\ n.read = Later(c.read, toRead)
          /\ n.write = Later(c.write, toWrite)
          /\ n.precharge = IF b = p.bank THEN Later(c.precharge, toPre) ELSE c.precharge
      BY <1>1, <3>2, <3>3, ColumnBanks DEF c
    <3>5. /\ w.state = vt[b].state /\ w.row = vt[b].row /\ w.powerUp = vt[b].powerUp
          /\ w.activate = vt[b].activate /\ w.read = Later(vt[b].read, toRead)
          /\ w.write = Later(vt[b].write, toWrite)
          /\ w.precharge = IF b = p.bank THEN Later(vt[b].precharge, toPre) ELSE vt[b].precharge
      BY <3>2, <3>3, ColumnBanks
    <3> HIDE DEF toRead, toWrite, toPre
    <3>6. /\ w.read <= Sooner(n.read) + 1 /\ w.write <= Sooner(n.write) + 1
          /\ w.activate <= Sooner(n.activate) + 1 /\ w.precharge <= Sooner(n.precharge) + 1
          /\ w.powerUp = Sooner(n.powerUp)
      BY <2>2, <2>3, <2>4, <2>5, <3>1, <3>4, <3>5
    <3> QED BY <2>1, <2>5, <3>4, <3>5, <3>6 DEF Agree, n, w
  <2>7. CASE p.type = "ACTIVATE"
    <3>1. n = Activate(banks[r], p)[b] /\ p.row \in Nat
      BY <2>7, TableAfter DEF n, table, IsCommand
    <3>2. /\ n.powerUp = c.powerUp
          /\ b = p.bank =>
               /\ n.state = "RowActive" /\ n.row = p.row
               /\ n.activate = Later(c.activate, T.tRC) /\ n.read = Later(c.read, T.tRCD)
               /\ n.write = Later(c.write, T.tRCD) /\ n.precharge = Later(c.precharge, T.tRAS)
          /\ b # p.bank =>
               /\ n.state = c.state /\ n.row = c.row /\ n.read = c.read
               /\ n.write = c.write /\ n.precharge = c.precharge
               /\ n.activate = Later(c.activate, T.tRRD)
      BY <1>1, <3>1, ActivateBanks DEF c
    <3>3. /\ w.powerUp = vt[b].powerUp
          /\ b = p.bank =>
               /\ w.state = "RowActive" /\ w.row = p.row /\ w.activate = T.tRC
               /\ w.read = T.tRCD /\ w.write = T.tRCD /\ w.precharge = T.tRAS
          /\ b # p.bank =>
               /\ w.state = vt[b].state /\ w.row = vt[b].row /\ w.read = vt[b].read
               /\ w.write = vt[b].write /\ w.precharge = vt[b].precharge
               /\ w.activate = Later(vt[b].activate, T.tRRD)
      BY <2>7, RankTableAfter DEF w, its
    <3>4. /\ w.read <= Sooner(n.read) + 1 /\ w.write <= Sooner(n.write) + 1
          /\ w.activate <= Sooner(n.activate) + 1 /\ w.precharge <= Sooner(n.precharge) + 1
          /\ w.powerUp = Sooner(n.powerUp)
      BY <2>2, <2>3, <2>4, <2>5, <3>2, <3>3, Delays
    <3>5. CASE b = p.bank
      BY <2>1, <3>2, <3>3, <3>4, <3>5 DEF Agree, n, w
    <3>6. CASE b # p.bank
      BY <2>1, <2>5, <3>2, <3>3, <3>4, <3>6 DEF Agree, n, w
    <3> QED BY <3>5, <3>6
  <2>8. CASE p.type = "PRECHARGE"
    <3>1. n = IF b = p.bank THEN Closing(c) ELSE c
      BY <2>8, TableAfter DEF n, table, c
    <3>2. /\ w.row = vt[b].row /\ w.read = vt[b].read /\ w.write = vt[b].write
          /\ w.precharge = vt[b].precharge /\ w.powerUp = vt[b].powerUp
          /\ b = p.bank => w.state = "Idle" /\ w.activate = Later(vt[b].activate, T.tRP)
          /\ b # p.bank => w.state = vt[b].state /\ w.activate = vt[b].activate
      BY <2>8, RankTableAfter DEF w, its
    <3>3. CASE b = p.bank
      <4>1. /\ n.state = "Precharging" /\ n.row = c.row /\ n.read = c.read /\ n.write = c.write
            /\ n.precharge = c.precharge /\ n.powerUp = c.powerUp
            /\ n.activate = Later(c.activate, T.tRP)
        BY <2>1, <3>1, <3>3, ClosingBank
      <4>2. w.activate <= Sooner(n.activate) + 1
        BY <2>3, <2>5, <3>2, <3>3, <4>1, Delays
      <4> QED BY <2>1, <2>2, <2>4, <2>5, <3>2, <3>3, <4>1, <4>2 DEF Agree, n, w
    <3>4. CASE b # p.bank
      BY <2>1, <2>2, <2>4, <2>5, <3>1, <3>2, <3>4 DEF Agree, n, w
    <3> QED BY <3>3, <3>4
  <2>9. CASE p.type = "REFRESH"
    <3>1. n = Renewing(c) /\ c.state = "Idle"
      BY <2>9, TableAfter DEF n, table, c, Sendable
    <3>2. /\ w.row = vt[b].row /\ w.read = vt[b].read /\ w.write = vt[b].write
          /\ w.precharge = vt[b].precharge /\ w.powerUp = vt[b].powerUp
          /\ w.state = vt[b].state /\ w.activate = T.tRFC
      BY <2>9, RankTableAfter DEF w, its
    <3>3. /\ n.state = "Refreshing" /\ n.read = c.read /\ n.write = c.write
          /\ n.precharge = c.precharge /\ n.powerUp = c.powerUp /\ n.activate = T.tRFC
      BY <2>1, <3>1, ClosingBank
    <3>4. w.activate <= Sooner(n.activate) + 1
      BY <3>2, <3>3, Delays DEF Sooner
    <3> QED BY <2>1, <2>2, <2>4, <2>5, <3>1, <3>2, <3>3, <3>4 DEF Agree, n, w
  <2> QED BY <2>6, <2>7, <2>8, <2>9 DEF IsCommand, IsColumn, n, w
<1> QED BY <1>5, <1>6 DEF table, its

-----------------------------------------------------------------------------
(* The command queue of one rank: what each way to take a packet out of    *)
(* it, and to put two in, leaves of QueueOK.                               *)

(* Packets of one address are for one bank and one row.                    *)
LEMMA QueuePackets ==
    ASSUME NEW r \in Ranks, NEW q \in Seq(PacketT(r))
    PROVE  /\ Len(q) \in Nat /\ DOMAIN q = 1 .. Len(q)
           /\ \A i \in 1 .. Len(q) :
                /\ q[i] \in PacketT(r) /\ IsCommand(q[i]) /\ q[i].rank = r
                /\ q[i].bank \in Banks /\ q[i].row \in Nat /\ q[i].addr \in Addrs
                /\ q[i].type = "ACTIVATE" \/ IsColumn(q[i])
                /\ q[i].type = "ACTIVATE" => ~IsColumn(q[i])
           /\ \A i, j \in 1 .. Len(q) :
                q[i].addr = q[j].addr => q[i].bank = q[j].bank /\ q[i].row = q[j].row
<1>1. Len(q) \in Nat /\ DOMAIN q = 1 .. Len(q) /\ \A i \in 1 .. Len(q) : q[i] \in PacketT(r)
  BY LenProperties, ElementOfSeq
<1>2. ASSUME NEW p \in PacketT(r)
      PROVE  /\ IsCommand(p) /\ p.rank = r /\ p.bank \in Banks /\ p.row \in Nat
             /\ p.addr \in Addrs /\ (p.type = "ACTIVATE" \/ IsColumn(p))
             /\ p.type = "ACTIVATE" => ~IsColumn(p)
             /\ p.bank = Location[p.addr].bank /\ p.row = Location[p.addr].row
  BY DEF PacketT, IsCommand, IsColumn
<1> QED BY <1>1, <1>2

(* A column access without its ACT leaves the queue.                       *)
LEMMA QueueAfterBare ==
    ASSUME NEW r \in Ranks, NEW q \in Seq(PacketT(r)), NEW banks \in [Banks -> BankT],
           NEW counters \in [Banks -> Nat], QueueOK(q, banks, counters),
           NEW i \in DOMAIN q, IsColumn(q[i]), ~HasAct(q, i)
    PROVE  QueueOK(RemoveAt(q, i), banks, counters)
<1> DEFINE w == RemoveAt(q, i)
           f(j) == IF j < i THEN j ELSE j + 1
<1>1. /\ Len(q) \in Nat /\ DOMAIN q = 1 .. Len(q) /\ i \in 1 .. Len(q)
      /\ \A j \in 1 .. Len(q) : q[j].type = "ACTIVATE" \/ IsColumn(q[j])
      /\ \A j \in 1 .. Len(q) : q[j].type = "ACTIVATE" => ~IsColumn(q[j])
  BY QueuePackets
<1>2. /\ Len(w) = Len(q) - 1 /\ DOMAIN w = 1 .. Len(q) - 1
      /\ \A j \in 1 .. Len(q) - 1 : w[j] = q[f(j)] /\ f(j) \in 1 .. Len(q)
  <2>1. /\ Len(w) = Len(q) - 1 /\ DOMAIN w = 1 .. Len(q) - 1
        /\ \A j \in 1 .. Len(q) - 1 : w[j] = IF j < i THEN q[j] ELSE q[j + 1]
    BY RemoveAtIs
  <2> HIDE DEF w
  <2> QED BY <1>1, <2>1
<1>3. CMD_QUEUE_DEPTH \in Nat
  BY CommandQueueAssumption
<1> HIDE DEF w
<1>4. ASSUME NEW j \in 1 .. Len(q) - 1, w[j].type = "ACTIVATE"
      PROVE  j < Len(w) /\ IsColumn(w[j + 1]) /\ w[j + 1].addr = w[j].addr
  <2>1. /\ q[f(j)].type = "ACTIVATE" /\ f(j) < Len(q) /\ IsColumn(q[f(j) + 1])
        /\ q[f(j) + 1].addr = q[f(j)].addr
    <3>1. f(j) \in DOMAIN q /\ q[f(j)].type = "ACTIVATE"
      BY <1>1, <1>2, <1>4
    <3> QED BY <3>1 DEF QueueOK
  <2>2. j + 1 # i
    BY <1>1, <2>1 DEF HasAct
  <2>3. j + 1 \in 1 .. Len(q) - 1 /\ f(j + 1) = f(j) + 1
    BY <1>1, <2>1, <2>2
  <2> QED BY <1>2, <2>1, <2>3
<1>5. ASSUME NEW j \in 1 .. Len(q) - 1, IsColumn(w[j]), ~HasAct(w, j)
      PROVE  /\ banks[w[j].bank].state = "RowActive" /\ banks[w[j].bank].row = w[j].row
             /\ counters[w[j].bank] = 0
             /\ \A k \in 1 .. j - 1 : ~SameRow(w[k], w[j])
  <2>1. ~HasAct(q, f(j))
    <3>1. CASE j < i
      <4>1. j > 1 => j - 1 \in 1 .. Len(q) - 1 /\ f(j - 1) = j - 1 /\ f(j) = j
        BY <1>1, <3>1
      <4> QED BY <1>1, <1>2, <1>5, <3>1, <4>1 DEF HasAct
    <3>2. CASE j = i
      BY <1>1, <3>2 DEF HasAct
    <3>3. CASE j > i
      <4>1. j - 1 \in 1 .. Len(q) - 1 /\ f(j - 1) = j /\ f(j) = j + 1 /\ j > 1 /\ f(j) - 1 = j
        BY <1>1, <3>3
      <4> QED BY <1>1, <1>2, <1>5, <4>1 DEF HasAct
    <3> QED BY <1>1, <3>1, <3>2, <3>3
  <2>2. /\ banks[q[f(j)].bank].state = "RowActive" /\ banks[q[f(j)].bank].row = q[f(j)].row
        /\ counters[q[f(j)].bank] = 0 /\ \A k \in 1 .. f(j) - 1 : ~SameRow(q[k], q[f(j)])
    BY <1>1, <1>2, <1>5, <2>1 DEF QueueOK
  <2>3. ASSUME NEW k \in 1 .. j - 1 PROVE ~SameRow(w[k], w[j])
    <3>1. k \in 1 .. Len(q) - 1 /\ f(k) \in 1 .. f(j) - 1
      BY <1>1
    <3> QED BY <1>2, <2>2, <3>1
  <2> QED BY <1>2, <2>2, <2>3
<1>6. Len(w) <= CMD_QUEUE_DEPTH /\ \A b \in Banks : banks[b].state # "RowActive" => counters[b] = 0
  BY <1>1, <1>2, <1>3 DEF QueueOK
<1> QED BY <1>2, <1>4, <1>5, <1>6 DEF QueueOK, w

(* A row hit leaves the queue with the ACT before it.                      *)
LEMMA QueueAfterHit ==
    ASSUME NEW r \in Ranks, NEW q \in Seq(PacketT(r)), NEW banks \in [Banks -> BankT],
           NEW counters \in [Banks -> Nat], QueueOK(q, banks, counters),
           NEW i \in DOMAIN q, IsColumn(q[i]), HasAct(q, i),
           banks[q[i].bank].state = "RowActive", banks[q[i].bank].row = q[i].row,
           \A j \in 1 .. i - 1 : ~(q[j].type # "ACTIVATE" /\ SameRow(q[j], q[i]))
    PROVE  /\ QueueOK(RemoveAt(RemoveAt(q, i), i - 1), banks,
                      [counters EXCEPT ![q[i].bank] = @ + 1])
           /\ RemoveAt(RemoveAt(q, i), i - 1) \in Seq(PacketT(r))
<1> DEFINE v == RemoveAt(q, i)
           w == RemoveAt(v, i - 1)
           g(j) == IF j < i - 1 THEN j ELSE j + 2
           count == [counters EXCEPT ![q[i].bank] = @ + 1]
<1>1. /\ Len(q) \in Nat /\ DOMAIN q = 1 .. Len(q) /\ i \in 1 .. Len(q) /\ i > 1
      /\ q[i - 1].type = "ACTIVATE"
      /\ \A j \in 1 .. Len(q) : q[j].type = "ACTIVATE" \/ IsColumn(q[j])
      /\ \A j \in 1 .. Len(q) : q[j].type = "ACTIVATE" => ~IsColumn(q[j])
      /\ q[i].bank \in Banks
  BY QueuePackets DEF HasAct
<1>2. /\ v \in Seq(PacketT(r)) /\ Len(v) = Len(q) - 1 /\ DOMAIN v = 1 .. Len(q) - 1
      /\ \A j \in 1 .. Len(q) - 1 : v[j] = IF j < i THEN q[j] ELSE q[j + 1]
  BY <1>1, RemoveAtIs
<1> HIDE DEF v
<1>3. /\ w \in Seq(PacketT(r)) /\ Len(w) = Len(q) - 2 /\ DOMAIN w = 1 .. Len(q) - 2
      /\ \A j \in 1 .. Len(q) - 2 : w[j] = IF j < i - 1 THEN v[j] ELSE v[j + 1]
  <2>1. i - 1 \in DOMAIN v /\ Len(v) - 1 = Len(q) - 2
    BY <1>1, <1>2
  <2> QED BY <1>2, <2>1, RemoveAtIs
<1> HIDE DEF w
<1>4. \A j \in 1 .. Len(q) - 2 : w[j] = q[g(j)] /\ g(j) \in 1 .. Len(q) /\ g(j) # i
  <2> TAKE j \in 1 .. Len(q) - 2
  <2>1. CASE j < i - 1
    <3>1. w[j] = v[j] /\ j \in 1 .. Len(q) - 1 /\ j < i /\ g(j) = j
      BY <1>1, <1>3, <2>1
    <3> QED BY <1>1, <1>2, <2>1, <3>1
  <2>2. CASE ~(j < i - 1)
    <3>1. w[j] = v[j + 1] /\ j + 1 \in 1 .. Len(q) - 1 /\ ~(j + 1 < i) /\ (j + 1) + 1 = g(j)
      BY <1>1, <1>3, <2>2
    <3> QED BY <1>1, <1>2, <2>2, <3>1
  <2> QED BY <2>1, <2>2
<1>5. CMD_QUEUE_DEPTH \in Nat
  BY CommandQueueAssumption
<1>6. ASSUME NEW j \in 1 .. Len(q) - 2, w[j].type = "ACTIVATE"
      PROVE  j < Len(w) /\ IsColumn(w[j + 1]) /\ w[j + 1].addr = w[j].addr
  <2>1. /\ q[g(j)].type = "ACTIVATE" /\ g(j) < Len(q) /\ IsColumn(q[g(j) + 1])
        /\ q[g(j) + 1].addr = q[g(j)].addr
    <3>1. g(j) \in DOMAIN q /\ q[g(j)].type = "ACTIVATE"
      BY <1>1, <1>4, <1>6
    <3> QED BY <3>1 DEF QueueOK
  <2>2. j + 1 # i - 1
    BY <1>1, <2>1
  <2>3. j + 1 \in 1 .. Len(q) - 2 /\ g(j + 1) = g(j) + 1
    BY <1>1, <2>1, <2>2
  <2>4. w[j + 1] = q[g(j) + 1] /\ w[j] = q[g(j)]
    BY <1>4, <2>3
  <2> QED BY <1>1, <1>3, <2>1, <2>3, <2>4
<1>7. ASSUME NEW j \in 1 .. Len(q) - 2, IsColumn(w[j]), ~HasAct(w, j)
      PROVE  /\ banks[w[j].bank].state = "RowActive" /\ banks[w[j].bank].row = w[j].row
             /\ count[w[j].bank] = 0
             /\ \A k \in 1 .. j - 1 : ~SameRow(w[k], w[j])
  <2>1. ~HasAct(q, g(j))
    <3>1. CASE j < i - 1
      <4>1. j > 1 => j - 1 \in 1 .. Len(q) - 2 /\ g(j - 1) = j - 1 /\ g(j) = j
        BY <1>1, <3>1
      <4> QED BY <1>1, <1>4, <1>7, <3>1, <4>1 DEF HasAct
    <3>2. CASE j = i - 1
      <4>1. g(j) = i + 1 /\ g(j) - 1 = i
        BY <1>1, <3>2
      <4> QED BY <1>1, <4>1 DEF HasAct
    <3>3. CASE j > i - 1
      <4>1. j - 1 \in 1 .. Len(q) - 2 /\ g(j - 1) = j + 1 /\ g(j) = j + 2 /\ j > 1
            /\ g(j) - 1 = j + 1
        BY <1>1, <3>3
      <4> QED BY <1>1, <1>4, <1>7, <4>1 DEF HasAct
    <3> QED BY <1>1, <3>1, <3>2, <3>3
  <2>2. /\ banks[q[g(j)].bank].state = "RowActive" /\ banks[q[g(j)].bank].row = q[g(j)].row
        /\ counters[q[g(j)].bank] = 0 /\ \A k \in 1 .. g(j) - 1 : ~SameRow(q[k], q[g(j)])
    BY <1>1, <1>4, <1>7, <2>1 DEF QueueOK
  <2>3. q[g(j)].bank # q[i].bank
    <3> SUFFICES ASSUME q[g(j)].bank = q[i].bank PROVE FALSE
      OBVIOUS
    <3>1. SameRow(q[g(j)], q[i]) /\ SameRow(q[i], q[g(j)])
      BY <2>2 DEF SameRow
    <3>2. CASE g(j) < i
      <4>1. g(j) \in 1 .. i - 1 /\ q[g(j)].type # "ACTIVATE"
        BY <1>1, <1>4, <1>7, <3>2
      <4> QED BY <3>1, <4>1
    <3>3. CASE g(j) > i
      <4>1. i \in 1 .. g(j) - 1
        BY <1>1, <1>4, <3>3
      <4> QED BY <2>2, <3>1, <4>1
    <3> QED BY <1>1, <1>4, <3>2, <3>3
  <2>4. count[w[j].bank] = 0
    <3>1. q[g(j)].bank \in Banks
      BY <1>4, QueuePackets
    <3> QED BY <1>4, <2>2, <2>3, <3>1
  <2>5. ASSUME NEW k \in 1 .. j - 1 PROVE ~SameRow(w[k], w[j])
    <3>1. k \in 1 .. Len(q) - 2 /\ g(k) \in 1 .. g(j) - 1
      BY <1>1
    <3> QED BY <1>4, <2>2, <3>1
  <2> QED BY <1>4, <2>2, <2>4, <2>5
<1>8. /\ Len(w) <= CMD_QUEUE_DEPTH
      /\ \A b \in Banks : banks[b].state # "RowActive" => count[b] = 0
  BY <1>1, <1>3, <1>5 DEF QueueOK
<1> QED BY <1>3, <1>6, <1>7, <1>8 DEF QueueOK, w, v

(* An ACT leaves the queue: its column access is now the first of its row  *)
(* and has its row open.                                                   *)
LEMMA QueueAfterAct ==
    ASSUME NEW r \in Ranks, NEW q \in Seq(PacketT(r)), NEW banks \in [Banks -> BankT],
           NEW counters \in [Banks -> Nat], QueueOK(q, banks, counters),
           NEW i \in DOMAIN q, q[i].type = "ACTIVATE", banks[q[i].bank].state # "RowActive",
           \A j \in 1 .. i - 1 : ~SameRow(q[j], q[i]),
           NEW after \in [Banks -> BankT],
           \A b \in Banks : IF b = q[i].bank
                            THEN after[b].state = "RowActive" /\ after[b].row = q[i].row
                            ELSE after[b].state = banks[b].state /\ after[b].row = banks[b].row
    PROVE  QueueOK(RemoveAt(q, i), after, counters)
<1> DEFINE w == RemoveAt(q, i)
           f(j) == IF j < i THEN j ELSE j + 1
<1>1. /\ Len(q) \in Nat /\ DOMAIN q = 1 .. Len(q) /\ i \in 1 .. Len(q)
      /\ \A j \in 1 .. Len(q) : q[j].bank \in Banks
      /\ \A j \in 1 .. Len(q) : q[j].type = "ACTIVATE" => ~IsColumn(q[j])
      /\ \A j, k \in 1 .. Len(q) :
           q[j].addr = q[k].addr => q[j].bank = q[k].bank /\ q[j].row = q[k].row
  BY QueuePackets
<1>2. /\ Len(w) = Len(q) - 1 /\ DOMAIN w = 1 .. Len(q) - 1
      /\ \A j \in 1 .. Len(q) - 1 : w[j] = q[f(j)] /\ f(j) \in 1 .. Len(q)
  <2>1. /\ Len(w) = Len(q) - 1 /\ DOMAIN w = 1 .. Len(q) - 1
        /\ \A j \in 1 .. Len(q) - 1 : w[j] = IF j < i THEN q[j] ELSE q[j + 1]
    BY RemoveAtIs
  <2> HIDE DEF w
  <2> QED BY <1>1, <2>1
<1>3. CMD_QUEUE_DEPTH \in Nat
  BY CommandQueueAssumption
<1> HIDE DEF w
<1>4. ASSUME NEW j \in 1 .. Len(q) - 1, w[j].type = "ACTIVATE"
      PROVE  j < Len(w) /\ IsColumn(w[j + 1]) /\ w[j + 1].addr = w[j].addr
  <2>1. /\ q[f(j)].type = "ACTIVATE" /\ f(j) < Len(q) /\ IsColumn(q[f(j) + 1])
        /\ q[f(j) + 1].addr = q[f(j)].addr
    <3>1. f(j) \in DOMAIN q /\ q[f(j)].type = "ACTIVATE"
      BY <1>1, <1>2, <1>4
    <3> QED BY <3>1 DEF QueueOK
  <2>2. j + 1 # i
    BY <1>1, <2>1
  <2>3. j + 1 \in 1 .. Len(q) - 1 /\ f(j + 1) = f(j) + 1
    BY <1>1, <2>1, <2>2
  <2>4. w[j + 1] = q[f(j) + 1] /\ w[j] = q[f(j)]
    BY <1>2, <2>3
  <2> QED BY <1>1, <1>2, <2>1, <2>3, <2>4
<1>5. ASSUME NEW j \in 1 .. Len(q) - 1, IsColumn(w[j]), ~HasAct(w, j)
      PROVE  /\ after[w[j].bank].state = "RowActive" /\ after[w[j].bank].row = w[j].row
             /\ counters[w[j].bank] = 0
             /\ \A k \in 1 .. j - 1 : ~SameRow(w[k], w[j])
  <2>1. CASE j = i
    <3>1. /\ i < Len(q) /\ q[i + 1].addr = q[i].addr
      BY <1>1 DEF QueueOK
    <3>2. w[j] = q[i + 1] /\ i + 1 \in 1 .. Len(q)
      BY <1>1, <1>2, <2>1, <3>1
    <3>3. w[j].bank = q[i].bank /\ w[j].row = q[i].row /\ q[i].bank \in Banks
      BY <1>1, <3>1, <3>2
    <3>4. ASSUME NEW k \in 1 .. j - 1 PROVE ~SameRow(w[k], w[j])
      <4>1. w[k] = q[k] /\ k \in 1 .. i - 1
        BY <1>1, <1>2, <2>1
      <4> QED BY <3>3, <4>1 DEF SameRow
    <3>5. counters[q[i].bank] = 0
      BY <3>3 DEF QueueOK
    <3> QED BY <3>3, <3>4, <3>5
  <2>2. CASE j # i
    <3>1. ~HasAct(q, f(j))
      <4>1. CASE j < i
        <5>1. j > 1 => j - 1 \in 1 .. Len(q) - 1 /\ f(j - 1) = j - 1 /\ f(j) = j
          BY <1>1, <4>1
        <5> QED BY <1>1, <1>2, <1>5, <4>1, <5>1 DEF HasAct
      <4>2. CASE j > i
        <5>1. j - 1 \in 1 .. Len(q) - 1 /\ f(j - 1) = j /\ f(j) = j + 1 /\ j > 1 /\ f(j) - 1 = j
          BY <1>1, <4>2
        <5> QED BY <1>1, <1>2, <1>5, <5>1 DEF HasAct
      <4> QED BY <1>1, <2>2, <4>1, <4>2
    <3>2. /\ banks[q[f(j)].bank].state = "RowActive" /\ banks[q[f(j)].bank].row = q[f(j)].row
          /\ counters[q[f(j)].bank] = 0 /\ \A k \in 1 .. f(j) - 1 : ~SameRow(q[k], q[f(j)])
      BY <1>1, <1>2, <1>5, <3>1 DEF QueueOK
    <3>3. q[f(j)].bank # q[i].bank /\ q[f(j)].bank \in Banks
      BY <1>1, <1>2, <3>2
    <3>4. ASSUME NEW k \in 1 .. j - 1 PROVE ~SameRow(w[k], w[j])
      <4>1. k \in 1 .. Len(q) - 1 /\ f(k) \in 1 .. f(j) - 1
        BY <1>1
      <4> QED BY <1>2, <3>2, <4>1
    <3> QED BY <1>2, <3>2, <3>3, <3>4
  <2> QED BY <2>1, <2>2
<1>6. Len(w) <= CMD_QUEUE_DEPTH /\ \A b \in Banks : after[b].state # "RowActive" => counters[b] = 0
  <2>1. /\ Len(q) <= CMD_QUEUE_DEPTH
        /\ \A b \in Banks : banks[b].state # "RowActive" => counters[b] = 0
    BY DEF QueueOK
  <2>2. Len(w) <= CMD_QUEUE_DEPTH
    BY <1>1, <1>2, <1>3, <2>1
  <2>3. ASSUME NEW b \in Banks, after[b].state # "RowActive" PROVE counters[b] = 0
    BY <2>1, <2>3
  <2> QED BY <2>2, <2>3
<1> QED BY <1>2, <1>4, <1>5, <1>6 DEF QueueOK, w

(* A transaction enters the queue as an ACT and its column access.         *)
LEMMA QueueAfterEnqueue ==
    ASSUME NEW r \in Ranks, NEW q \in Seq(PacketT(r)), NEW banks \in [Banks -> BankT],
           NEW counters \in [Banks -> Nat], QueueOK(q, banks, counters),
           Len(q) + 2 <= CMD_QUEUE_DEPTH,
           NEW act \in PacketT(r), NEW column \in PacketT(r),
           act.type = "ACTIVATE", IsColumn(column), column.addr = act.addr
    PROVE  /\ Append(Append(q, act), column) \in Seq(PacketT(r))
           /\ QueueOK(Append(Append(q, act), column), banks, counters)
<1> DEFINE w == Append(Append(q, act), column)
<1>1. /\ Len(q) \in Nat /\ DOMAIN q = 1 .. Len(q)
      /\ \A j \in 1 .. Len(q) : q[j].type = "ACTIVATE" => ~IsColumn(q[j])
  BY QueuePackets
<1>2. /\ w \in Seq(PacketT(r)) /\ Len(w) = Len(q) + 2 /\ DOMAIN w = 1 .. Len(q) + 2
      /\ \A j \in 1 .. Len(q) : w[j] = q[j]
      /\ w[Len(q) + 1] = act /\ w[Len(q) + 2] = column
  <2>1. /\ Append(q, act) \in Seq(PacketT(r)) /\ Len(Append(q, act)) = Len(q) + 1
        /\ \A j \in 1 .. Len(q) : Append(q, act)[j] = q[j]
        /\ Append(q, act)[Len(q) + 1] = act
    BY AppendProperties
  <2> DEFINE v == Append(q, act)
  <2> HIDE DEF v
  <2>2. /\ v \in Seq(PacketT(r)) /\ Len(v) = Len(q) + 1
        /\ \A j \in 1 .. Len(q) : v[j] = q[j]
        /\ v[Len(q) + 1] = act
    BY <2>1 DEF v
  <2>3. /\ Append(v, column) \in Seq(PacketT(r)) /\ Len(Append(v, column)) = Len(v) + 1
        /\ \A j \in 1 .. Len(v) : Append(v, column)[j] = v[j]
        /\ Append(v, column)[Len(v) + 1] = column
    BY <2>2, AppendProperties
  <2>4. w = Append(v, column)
    BY DEF v
  <2> HIDE DEF w
  <2> QED BY <1>1, <2>2, <2>3, <2>4, LenProperties
<1> HIDE DEF w
<1>3. ASSUME NEW j \in 1 .. Len(q) + 2, w[j].type = "ACTIVATE"
      PROVE  j < Len(w) /\ IsColumn(w[j + 1]) /\ w[j + 1].addr = w[j].addr
  <2>1. CASE j \in 1 .. Len(q)
    <3>1. j < Len(q) /\ IsColumn(q[j + 1]) /\ q[j + 1].addr = q[j].addr
      BY <1>1, <1>2, <1>3, <2>1 DEF QueueOK
    <3> QED BY <1>1, <1>2, <2>1, <3>1
  <2>2. CASE j = Len(q) + 1
    BY <1>1, <1>2, <2>2
  <2>3. CASE j = Len(q) + 2
    BY <1>1, <1>2, <1>3, <2>3 DEF IsColumn
  <2> QED BY <1>1, <2>1, <2>2, <2>3
<1>4. ASSUME NEW j \in 1 .. Len(q) + 2, IsColumn(w[j]), ~HasAct(w, j)
      PROVE  /\ banks[w[j].bank].state = "RowActive" /\ banks[w[j].bank].row = w[j].row
             /\ counters[w[j].bank] = 0
             /\ \A k \in 1 .. j - 1 : ~SameRow(w[k], w[j])
  <2>1. CASE j \in 1 .. Len(q)
    <3>1. ~HasAct(q, j)
      <4>1. j > 1 => j - 1 \in 1 .. Len(q)
        BY <1>1, <2>1
      <4> QED BY <1>2, <1>4, <4>1 DEF HasAct
    <3>2. /\ banks[q[j].bank].state = "RowActive" /\ banks[q[j].bank].row = q[j].row
          /\ counters[q[j].bank] = 0 /\ \A k \in 1 .. j - 1 : ~SameRow(q[k], q[j])
      BY <1>1, <1>2, <1>4, <2>1, <3>1 DEF QueueOK
    <3>3. \A k \in 1 .. j - 1 : w[k] = q[k]
      BY <1>1, <1>2, <2>1
    <3> QED BY <1>2, <2>1, <3>2, <3>3
  <2>2. CASE j = Len(q) + 1
    BY <1>1, <1>2, <1>4, <2>2 DEF IsColumn
  <2>3. CASE j = Len(q) + 2
    <3>1. j > 1 /\ j - 1 = Len(q) + 1
      BY <1>1, <2>3
    <3> QED BY <1>2, <1>4, <3>1 DEF HasAct
  <2> QED BY <1>1, <2>1, <2>2, <2>3
<1>5. Len(w) <= CMD_QUEUE_DEPTH /\ \A b \in Banks : banks[b].state # "RowActive" => counters[b] = 0
  BY <1>2 DEF QueueOK
<1> QED BY <1>2, <1>3, <1>4, <1>5 DEF QueueOK, w

-----------------------------------------------------------------------------
(* The five things pop can choose: a column access whose ACT has gone, a   *)
(* row hit together with the ACT before it, an ACT, a precharge of a row   *)
(* no such column access relies on, and a refresh.                         *)
SetCount(counters, r, b, n) == [counters EXCEPT ![r] = [counters[r] EXCEPT ![b] = n]]

(* The other fields: a refresh that waits still waits, or has been chosen. *)
Kept(cq, n) ==
    /\ DOMAIN n = QueueFields
    /\ n.overflow = cq.overflow
    /\ n.refreshWaiting => cq.refreshWaiting /\ n.refreshRank = cq.refreshRank

TakesBare(cq, banks, p, n) ==
    \E r \in Ranks : \E i \in DOMAIN cq.queues[r] :
      /\ p = cq.queues[r][i] /\ IsColumn(p) /\ ~HasAct(cq.queues[r], i)
      /\ Allowed(banks[r][p.bank], p)
      /\ n.queues = [cq.queues EXCEPT ![r] = RemoveAt(cq.queues[r], i)]
      /\ n.rowAccessCounters = cq.rowAccessCounters

TakesHit(cq, banks, p, n) ==
    \E r \in Ranks : \E i \in DOMAIN cq.queues[r] :
      /\ p = cq.queues[r][i] /\ IsColumn(p) /\ HasAct(cq.queues[r], i)
      /\ Allowed(banks[r][p.bank], p)
      /\ \A j \in 1 .. i - 1 : ~(cq.queues[r][j].type # "ACTIVATE" /\ SameRow(cq.queues[r][j], p))
      /\ n.queues = [cq.queues EXCEPT ![r] = RemoveAt(RemoveAt(cq.queues[r], i), i - 1)]
      /\ n.rowAccessCounters =
           SetCount(cq.rowAccessCounters, r, p.bank, cq.rowAccessCounters[r][p.bank] + 1)

TakesAct(cq, banks, p, n) ==
    \E r \in Ranks : \E i \in DOMAIN cq.queues[r] :
      /\ p = cq.queues[r][i] /\ p.type = "ACTIVATE"
      /\ banks[r][p.bank].state \in {"Idle", "Refreshing"} /\ banks[r][p.bank].activate = 0
      /\ \A j \in 1 .. i - 1 : ~SameRow(cq.queues[r][j], p)
      /\ n.queues = [cq.queues EXCEPT ![r] = RemoveAt(cq.queues[r], i)]
      /\ n.rowAccessCounters = cq.rowAccessCounters

Closes(cq, banks, p, n) ==
    \E r \in Ranks, b \in Banks :
      /\ p = Control("PRECHARGE", r, b)
      /\ banks[r][b].state = "RowActive" /\ banks[r][b].precharge = 0
      /\ \A i \in DOMAIN cq.queues[r] :
           IsColumn(cq.queues[r][i]) /\ ~HasAct(cq.queues[r], i) => cq.queues[r][i].bank # b
      /\ n.queues = cq.queues
      /\ n.rowAccessCounters =
           SetCount(cq.rowAccessCounters, r, b, 0)

Renews(cq, banks, p, n) ==
    \E r \in Ranks :
      /\ p = Control("REFRESH", r, 0)
      /\ \A b \in Banks : banks[r][b].state # "RowActive" /\ banks[r][b].activate = 0
      /\ banks[r][0].state # "PowerDown"
      /\ n.queues = cq.queues
      /\ n.rowAccessCounters = cq.rowAccessCounters

Chosen(cq, banks, p, n) ==
    /\ Kept(cq, n)
    /\ \/ TakesBare(cq, banks, p, n) \/ TakesHit(cq, banks, p, n) \/ TakesAct(cq, banks, p, n)
       \/ Closes(cq, banks, p, n) \/ Renews(cq, banks, p, n)

(* What the choice relies on.                                              *)
QueuesOK(cq, banks) ==
    /\ QueueTyped(cq)
    /\ banks \in [Ranks -> [Banks -> BankT]]
    /\ \A r \in Ranks : QueueOK(cq.queues[r], banks[r], cq.rowAccessCounters[r])

(* Closing a row resets its count of accesses and leaves the queue alone.  *)
LEMMA PrechargeIs ==
    ASSUME NEW cq, DOMAIN cq = QueueFields, cq.rowAccessCounters \in [Ranks -> [Banks -> Nat]],
           NEW r \in Ranks, NEW b \in Banks, NEW x \in Precharge(cq, r, b)
    PROVE  /\ DOMAIN x = {"packet", "cq"} /\ x.packet = Control("PRECHARGE", r, b)
           /\ Kept(cq, x.cq) /\ x.cq.queues = cq.queues
           /\ x.cq.rowAccessCounters =
                SetCount(cq.rowAccessCounters, r, b, 0)
<1> DEFINE n == [cq EXCEPT !.rowAccessCounters[r][b] = 0]
<1>1. x = [packet |-> Control("PRECHARGE", r, b), cq |-> n]
  BY DEF Precharge, Popped
<1>2. /\ DOMAIN n = QueueFields /\ n.queues = cq.queues /\ n.overflow = cq.overflow
      /\ n.refreshWaiting = cq.refreshWaiting /\ n.refreshRank = cq.refreshRank
      /\ n.rowAccessCounters =
           SetCount(cq.rowAccessCounters, r, b, 0)
  BY DEF QueueFields, SetCount
<1> HIDE DEF n
<1> QED BY <1>1, <1>2 DEF Kept

(* The refresh part of pop.                                                *)
LEMMA RefreshPopIs ==
    ASSUME NEW cq, NEW banks, QueuesOK(cq, banks), NEW x \in RefreshPop(cq, banks)
    PROVE  DOMAIN x = {"packet", "cq"} /\ Chosen(cq, banks, x.packet, x.cq)
<1> DEFINE r == cq.refreshRank
           stopping == {b \in Banks : banks[r][b].state = "RowActive" \/ banks[r][b].activate > 0}
<1>1. cq.refreshWaiting /\ r \in Ranks
  BY DEF RefreshPop, QueuesOK, QueueTyped
<1>2. /\ DOMAIN cq = QueueFields /\ DOMAIN cq.queues = Ranks /\ cq.queues[r] \in Seq(PacketT(r))
      /\ cq.rowAccessCounters \in [Ranks -> [Banks -> Nat]]
      /\ QueueOK(cq.queues[r], banks[r], cq.rowAccessCounters[r])
      /\ \A b \in Banks : banks[r][b] \in BankT
  BY <1>1 DEF QueuesOK, QueueTyped
<1>3. CASE stopping = {}
  <2>1. x \in SendREF(cq, banks, r)
    BY <1>1, <1>3 DEF RefreshPop
  <2> DEFINE n == [cq EXCEPT !.refreshRank = -1, !.refreshWaiting = FALSE]
  <2>2. banks[r][0].state # "PowerDown" /\ x = [packet |-> Control("REFRESH", r, 0), cq |-> n]
    BY <2>1 DEF SendREF, Popped
  <2>3. Kept(cq, n) /\ n.queues = cq.queues /\ n.rowAccessCounters = cq.rowAccessCounters
    BY <1>2 DEF Kept, QueueFields
  <2>4. \A b \in Banks : banks[r][b].state # "RowActive" /\ banks[r][b].activate = 0
    BY <1>2, <1>3 DEF BankT
  <2> HIDE DEF n
  <2>5. Renews(cq, banks, x.packet, x.cq)
    BY <1>1, <2>2, <2>3, <2>4 DEF Renews
  <2> QED BY <2>2, <2>3, <2>5 DEF Chosen
<1>4. CASE stopping # {}
  <2> DEFINE b == Min(stopping)
             q == cq.queues[r]
             hits == RowHits(cq, banks, r, b)
  <2>1. x \in RefreshAt(cq, banks, r, b)
    BY <1>1, <1>4 DEF RefreshPop
  <2>2. b \in Banks
    <3>1. stopping \in SUBSET Nat
      BY GeometryAssumption DEF Banks
    <3> HIDE DEF stopping
    <3>2. b \in stopping
      BY <1>4, <3>1, MinIsLeast
    <3> QED BY <3>2 DEF stopping
  <2> HIDE DEF b
  <2>3. banks[r][b].state = "RowActive"
    BY <2>1 DEF RefreshAt
  <2>4. /\ Len(q) \in Nat /\ DOMAIN q = 1 .. Len(q)
        /\ \A i \in 1 .. Len(q) : q[i].type = "ACTIVATE" \/ IsColumn(q[i])
        /\ \A i \in 1 .. Len(q) : q[i].type = "ACTIVATE" => ~IsColumn(q[i])
        /\ \A i, j \in 1 .. Len(q) :
             q[i].addr = q[j].addr => q[i].bank = q[j].bank /\ q[i].row = q[j].row
    <3>1. r \in Ranks /\ q \in Seq(PacketT(r))
      BY <1>1, <1>2
    <3> HIDE DEF r, q
    <3> QED BY <3>1, QueuePackets
  <2>5. hits = {i \in 1 .. Len(q) : q[i].bank = b /\ q[i].row = banks[r][b].row}
    BY <2>4 DEF RowHits, IsOpenRow
  <2>6. hits # {} => Min(hits) \in hits /\ \A j \in hits : Min(hits) <= j
    <3>1. hits \in SUBSET Nat
      BY <2>5
    <3> HIDE DEF hits
    <3> QED BY <3>1, MinIsLeast
  <2> DEFINE i == Min(hits)
  <2> HIDE DEF hits
  <2>7. CASE hits # {} /\ q[i].type # "ACTIVATE"
    <3>1. /\ isIssuable(cq, banks, q[i])
          /\ x = [packet |-> q[i], cq |-> [cq EXCEPT !.queues[r] = RemoveAt(cq.queues[r], i)]]
      BY <2>1, <2>3, <2>7 DEF RefreshAt, hits
    <3>2. i \in 1 .. Len(q) /\ q[i].bank = b /\ q[i].row = banks[r][b].row /\ IsColumn(q[i])
      BY <2>4, <2>5, <2>6, <2>7
    <3>3. q[i].rank = r /\ Allowed(banks[r][q[i].bank], q[i])
      <4>1. q[i].rank = r
        BY <1>1, <1>2, <3>2, QueuePackets
      <4> QED BY <2>7, <3>1, <4>1 DEF isIssuable
    <3>4. ~HasAct(q, i)
      <4> SUFFICES ASSUME HasAct(q, i) PROVE FALSE
        OBVIOUS
      <4>1. i - 1 \in 1 .. Len(q) /\ q[i - 1].type = "ACTIVATE" /\ (i - 1) + 1 = i /\ ~(i <= i - 1)
        BY <2>4, <3>2 DEF HasAct
      <4>2. q[i].addr = q[i - 1].addr
        BY <1>2, <2>4, <4>1 DEF QueueOK
      <4>3. i - 1 \in hits
        BY <2>4, <2>5, <3>2, <4>1, <4>2
      <4> QED BY <2>6, <2>7, <4>1, <4>3
    <3> DEFINE n == [cq EXCEPT !.queues[r] = RemoveAt(cq.queues[r], i)]
    <3>5. /\ Kept(cq, n) /\ n.queues = [cq.queues EXCEPT ![r] = RemoveAt(cq.queues[r], i)]
          /\ n.rowAccessCounters = cq.rowAccessCounters
      BY <1>2 DEF Kept, QueueFields
    <3>6. x.packet = q[i] /\ x.cq = n /\ DOMAIN x = {"packet", "cq"}
      BY <3>1
    <3> HIDE DEF n, i
    <3>7. TakesBare(cq, banks, x.packet, x.cq)
      BY <1>1, <2>4, <3>2, <3>3, <3>4, <3>5, <3>6 DEF TakesBare
    <3> QED BY <3>5, <3>6, <3>7 DEF Chosen
  <2>8. CASE ~(hits # {} /\ q[i].type # "ACTIVATE")
    <3>1. x \in Precharge(cq, r, b) /\ banks[r][b].precharge = 0
      BY <2>1, <2>3, <2>8 DEF RefreshAt, hits
    <3>2. ASSUME NEW k \in 1 .. Len(q), IsColumn(q[k]), ~HasAct(q, k), q[k].bank = b
          PROVE  FALSE
      <4>1. q[k].row = banks[r][b].row /\ \A j \in 1 .. k - 1 : ~SameRow(q[j], q[k])
        BY <1>2, <2>4, <3>2 DEF QueueOK
      <4>2. k \in hits
        BY <2>5, <3>2, <4>1
      <4>3. i \in hits /\ i <= k /\ q[i].type = "ACTIVATE"
        BY <2>6, <2>8, <4>2
      <4>4. i \in 1 .. Len(q) /\ SameRow(q[i], q[k])
        BY <2>5, <3>2, <4>1, <4>3 DEF SameRow
      <4>5. i # k
        BY <2>4, <3>2, <4>3, <4>4
      <4>6. i \in 1 .. k - 1
        BY <4>3, <4>4, <4>5
      <4> QED BY <4>1, <4>4, <4>6
    <3>3. /\ DOMAIN x = {"packet", "cq"} /\ x.packet = Control("PRECHARGE", r, b)
          /\ Kept(cq, x.cq) /\ x.cq.queues = cq.queues
          /\ x.cq.rowAccessCounters =
               SetCount(cq.rowAccessCounters, r, b, 0)
      <4>1. DOMAIN cq = QueueFields /\ cq.rowAccessCounters \in [Ranks -> [Banks -> Nat]]
        BY <1>2
      <4>2. r \in Ranks /\ x \in Precharge(cq, r, b)
        BY <1>1, <3>1
      <4> HIDE DEF r
      <4> QED BY <2>2, <4>1, <4>2, PrechargeIs
    <3>4. Closes(cq, banks, x.packet, x.cq)
      BY <1>1, <2>2, <2>3, <2>4, <3>1, <3>2, <3>3 DEF Closes
    <3> QED BY <3>3, <3>4 DEF Chosen
  <2> QED BY <2>7, <2>8
<1> QED BY <1>3, <1>4

(* What a packet that goes takes out of the queue.                         *)
LEMMA TakenIs ==
    ASSUME NEW cq, QueueTyped(cq), NEW r \in Ranks, NEW i \in DOMAIN cq.queues[r]
    PROVE  /\ Kept(cq, Taken(cq, r, i))
           /\ ~HasAct(cq.queues[r], i) =>
                /\ Taken(cq, r, i).queues = [cq.queues EXCEPT ![r] = RemoveAt(cq.queues[r], i)]
                /\ Taken(cq, r, i).rowAccessCounters = cq.rowAccessCounters
           /\ HasAct(cq.queues[r], i) =>
                /\ Taken(cq, r, i).queues =
                     [cq.queues EXCEPT ![r] = RemoveAt(RemoveAt(cq.queues[r], i), i - 1)]
                /\ Taken(cq, r, i).rowAccessCounters =
                     SetCount(cq.rowAccessCounters, r, cq.queues[r][i].bank,
                               cq.rowAccessCounters[r][cq.queues[r][i].bank] + 1)
<1>1. DOMAIN cq = QueueFields
  BY DEF QueueTyped
<1>2. CASE HasAct(cq.queues[r], i)
  <2> DEFINE both == RemoveAt(RemoveAt(cq.queues[r], i), i - 1)
             b == cq.queues[r][i].bank
             n == [cq EXCEPT !.queues[r] = both, !.nextRank = r,
                             !.rowAccessCounters[r][b] = @ + 1]
  <2>1. Taken(cq, r, i) = n
    BY <1>2 DEF Taken, HasAct
  <2> HIDE DEF both, b
  <2>2. /\ Kept(cq, n) /\ n.queues = [cq.queues EXCEPT ![r] = both]
        /\ n.rowAccessCounters =
             SetCount(cq.rowAccessCounters, r, b, cq.rowAccessCounters[r][b] + 1)
    BY <1>1 DEF Kept, QueueFields, SetCount
  <2> HIDE DEF n
  <2> QED BY <1>2, <2>1, <2>2 DEF both, b
<1>3. CASE ~HasAct(cq.queues[r], i)
  <2> DEFINE one == RemoveAt(cq.queues[r], i)
             n == [cq EXCEPT !.queues[r] = one, !.nextRank = r]
  <2>1. Taken(cq, r, i) = n
    BY <1>3 DEF Taken, HasAct
  <2> HIDE DEF one
  <2>2. /\ Kept(cq, n) /\ n.queues = [cq.queues EXCEPT ![r] = one]
        /\ n.rowAccessCounters = cq.rowAccessCounters
    BY <1>1 DEF Kept, QueueFields
  <2> HIDE DEF n
  <2> QED BY <1>3, <2>1, <2>2 DEF one
<1> QED BY <1>2, <1>3

(* The part of pop for commands that are ready.                            *)
LEMMA ReadyPopIs ==
    ASSUME NEW cq, NEW banks, QueuesOK(cq, banks), NEW x \in ReadyPop(cq, banks)
    PROVE  DOMAIN x = {"packet", "cq"} /\ Chosen(cq, banks, x.packet, x.cq)
<1>1. PICK r \in Ranks : /\ Ready(cq, banks, r) # {}
                         /\ x = [packet |-> cq.queues[r][Min(Ready(cq, banks, r))],
                                 cq |-> Taken(cq, r, Min(Ready(cq, banks, r)))]
  BY DEF ReadyPop
<1> DEFINE q == cq.queues[r]
           ready == Ready(cq, banks, r)
           i == Min(ready)
<1>2. QueueTyped(cq) /\ q \in Seq(PacketT(r)) /\ QueueOK(q, banks[r], cq.rowAccessCounters[r])
  BY DEF QueuesOK, QueueTyped
<1>3. /\ Len(q) \in Nat /\ DOMAIN q = 1 .. Len(q)
      /\ \A j \in 1 .. Len(q) : /\ q[j].rank = r
                                /\ q[j].type = "ACTIVATE" \/ IsColumn(q[j])
                                /\ q[j].type = "ACTIVATE" => ~IsColumn(q[j])
  BY <1>2, QueuePackets
<1>4. i \in ready /\ \A j \in ready : i <= j
  <2>1. ready \in SUBSET Nat /\ ready # {}
    BY <1>1, <1>3 DEF Ready
  <2> HIDE DEF ready
  <2> QED BY <2>1, MinIsLeast
<1> HIDE DEF i
<1>5. /\ i \in 1 .. Len(q) /\ isIssuable(cq, banks, q[i])
      /\ \A j \in 1 .. i - 1 : ~(q[j].type # "ACTIVATE" /\ SameRow(q[j], q[i]))
  BY <1>3, <1>4 DEF Ready
<1>6. DOMAIN x = {"packet", "cq"} /\ x.packet = q[i] /\ x.cq = Taken(cq, r, i)
  BY <1>1 DEF i
<1>7. /\ Kept(cq, x.cq)
      /\ ~HasAct(q, i) =>
           /\ x.cq.queues = [cq.queues EXCEPT ![r] = RemoveAt(cq.queues[r], i)]
           /\ x.cq.rowAccessCounters = cq.rowAccessCounters
      /\ HasAct(q, i) =>
           /\ x.cq.queues = [cq.queues EXCEPT ![r] = RemoveAt(RemoveAt(cq.queues[r], i), i - 1)]
           /\ x.cq.rowAccessCounters =
                SetCount(cq.rowAccessCounters, r, q[i].bank, cq.rowAccessCounters[r][q[i].bank] + 1)
  <2>1. i \in DOMAIN cq.queues[r] /\ QueueTyped(cq)
    BY <1>2, <1>3, <1>5
  <2>2. /\ Kept(cq, Taken(cq, r, i))
        /\ ~HasAct(q, i) =>
             /\ Taken(cq, r, i).queues = [cq.queues EXCEPT ![r] = RemoveAt(cq.queues[r], i)]
             /\ Taken(cq, r, i).rowAccessCounters = cq.rowAccessCounters
        /\ HasAct(q, i) =>
             /\ Taken(cq, r, i).queues =
                  [cq.queues EXCEPT ![r] = RemoveAt(RemoveAt(cq.queues[r], i), i - 1)]
             /\ Taken(cq, r, i).rowAccessCounters =
                  SetCount(cq.rowAccessCounters, r, q[i].bank, cq.rowAccessCounters[r][q[i].bank] + 1)
    BY <2>1, TakenIs
  <2> QED BY <1>6, <2>2
<1>8. CASE q[i].type = "ACTIVATE"
  <2>1. ~HasAct(q, i)
    <3> SUFFICES ASSUME HasAct(q, i) PROVE FALSE
      OBVIOUS
    <3>1. i - 1 \in DOMAIN q /\ q[i - 1].type = "ACTIVATE" /\ (i - 1) + 1 = i
      BY <1>3, <1>5 DEF HasAct
    <3>2. IsColumn(q[i])
      BY <1>2, <3>1 DEF QueueOK
    <3> QED BY <1>3, <1>5, <1>8, <3>2
  <2>2. /\ banks[r][q[i].bank].state \in {"Idle", "Refreshing"}
        /\ banks[r][q[i].bank].activate = 0 /\ Len(cq.tFAWCountdown[r]) < 4
    <3>1. q[i].rank = r
      BY <1>3, <1>5
    <3> QED BY <1>5, <1>8, <3>1 DEF isIssuable
  <2>3. ASSUME NEW j \in 1 .. i - 1, SameRow(q[j], q[i]) PROVE FALSE
    <3>1. j \in 1 .. Len(q) /\ q[j].type = "ACTIVATE" /\ q[j].rank = r /\ j < i
      BY <1>3, <1>5, <2>3
    <3>2. isIssuable(cq, banks, q[j])
      BY <2>2, <2>3, <3>1 DEF isIssuable, SameRow
    <3>3. \A k \in 1 .. j - 1 : ~(q[k].type # "ACTIVATE" /\ SameRow(q[k], q[j]))
      <4> SUFFICES ASSUME NEW k \in 1 .. j - 1, q[k].type # "ACTIVATE", SameRow(q[k], q[j])
                   PROVE  FALSE
        OBVIOUS
      <4>1. k \in 1 .. i - 1 /\ SameRow(q[k], q[i])
        BY <1>5, <2>3, <3>1 DEF SameRow
      <4> QED BY <1>5, <4>1
    <3>4. ~(cq.refreshWaiting /\ r = cq.refreshRank)
      BY <1>4 DEF Ready
    <3>5. j \in ready
      BY <1>3, <3>1, <3>2, <3>3, <3>4 DEF Ready
    <3> QED BY <1>4, <1>5, <3>1, <3>5
  <2>4. /\ x.cq.queues = [cq.queues EXCEPT ![r] = RemoveAt(cq.queues[r], i)]
        /\ x.cq.rowAccessCounters = cq.rowAccessCounters
    BY <1>7, <2>1
  <2>5. TakesAct(cq, banks, x.packet, x.cq)
    BY <1>3, <1>5, <1>6, <1>8, <2>2, <2>3, <2>4 DEF TakesAct
  <2> QED BY <1>6, <1>7, <2>5 DEF Chosen
<1>9. CASE q[i].type # "ACTIVATE"
  <2>1. IsColumn(q[i]) /\ Allowed(banks[r][q[i].bank], q[i])
    <3>1. q[i].rank = r
      BY <1>3, <1>5
    <3> QED BY <1>3, <1>5, <1>9, <3>1 DEF isIssuable
  <2>2. CASE HasAct(q, i)
    <3>1. /\ x.cq.queues = [cq.queues EXCEPT ![r] = RemoveAt(RemoveAt(cq.queues[r], i), i - 1)]
          /\ x.cq.rowAccessCounters =
               SetCount(cq.rowAccessCounters, r, q[i].bank, cq.rowAccessCounters[r][q[i].bank] + 1)
      BY <1>7, <2>2
    <3>2. TakesHit(cq, banks, x.packet, x.cq)
      BY <1>3, <1>5, <1>6, <2>1, <2>2, <3>1 DEF TakesHit
    <3> QED BY <1>6, <1>7, <3>2 DEF Chosen
  <2>3. CASE ~HasAct(q, i)
    <3>1. /\ x.cq.queues = [cq.queues EXCEPT ![r] = RemoveAt(cq.queues[r], i)]
          /\ x.cq.rowAccessCounters = cq.rowAccessCounters
      BY <1>7, <2>3
    <3>2. TakesBare(cq, banks, x.packet, x.cq)
      BY <1>3, <1>5, <1>6, <2>1, <2>3, <3>1 DEF TakesBare
    <3> QED BY <1>6, <1>7, <3>2 DEF Chosen
  <2> QED BY <2>2, <2>3
<1> QED BY <1>8, <1>9

(* The part of pop that closes a row.                                      *)
LEMMA PrechargePopIs ==
    ASSUME NEW cq, NEW banks, QueuesOK(cq, banks), NEW x \in PrechargePop(cq, banks)
    PROVE  DOMAIN x = {"packet", "cq"} /\ Chosen(cq, banks, x.packet, x.cq)
<1>1. PICK y \in Ranks \X Banks :
        /\ MayClose(cq, banks, y[1], y[2])
        /\ x \in Precharge([cq EXCEPT !.nextRankPRE = y[1], !.nextBankPRE = y[2]], y[1], y[2])
  BY DEF PrechargePop
<1>2. PICK r \in Ranks, b \in Banks : y[1] = r /\ y[2] = b
  OBVIOUS
<1> DEFINE c == [cq EXCEPT !.nextRankPRE = r, !.nextBankPRE = b]
           q == cq.queues[r]
<1>3. x \in Precharge(c, r, b) /\ MayClose(cq, banks, r, b)
  BY <1>1, <1>2
<1>4. /\ DOMAIN cq = QueueFields /\ cq.rowAccessCounters \in [Ranks -> [Banks -> Nat]]
      /\ QueueOK(q, banks[r], cq.rowAccessCounters[r]) /\ q \in Seq(PacketT(r))
  BY DEF QueuesOK, QueueTyped
<1>5. /\ DOMAIN c = QueueFields /\ c.queues = cq.queues /\ c.overflow = cq.overflow
      /\ c.rowAccessCounters = cq.rowAccessCounters
      /\ c.refreshWaiting = cq.refreshWaiting /\ c.refreshRank = cq.refreshRank
  BY <1>4 DEF QueueFields
<1> HIDE DEF c
<1>6. c.rowAccessCounters \in [Ranks -> [Banks -> Nat]]
  BY <1>4, <1>5
<1>7. /\ DOMAIN x = {"packet", "cq"} /\ x.packet = Control("PRECHARGE", r, b)
      /\ Kept(c, x.cq) /\ x.cq.queues = c.queues
      /\ x.cq.rowAccessCounters =
           SetCount(c.rowAccessCounters, r, b, 0)
  <2>1. x \in Precharge(c, r, b) /\ DOMAIN c = QueueFields
    BY <1>3, <1>5
  <2> QED BY <1>6, <2>1, PrechargeIs
<1>8. ASSUME NEW i \in DOMAIN q, IsColumn(q[i]), ~HasAct(q, i), q[i].bank = b
      PROVE  FALSE
  <2>1. q[i].row = banks[r][b].row /\ cq.rowAccessCounters[r][b] = 0
    BY <1>4, <1>8 DEF QueueOK
  <2>2. IsOpenRow(banks, r, b, q[i])
    BY <1>8, <2>1 DEF IsOpenRow
  <2>3. TOTAL_ROW_ACCESSES # 0
    BY CommandQueueAssumption
  <2> QED BY <1>3, <2>1, <2>2, <2>3 DEF MayClose
<1>9. Closes(cq, banks, x.packet, x.cq)
  <2>1. banks[r][b].state = "RowActive" /\ banks[r][b].precharge = 0
    BY <1>3 DEF MayClose
  <2>2. /\ x.cq.queues = cq.queues
        /\ x.cq.rowAccessCounters =
             SetCount(cq.rowAccessCounters, r, b, 0)
    BY <1>5, <1>7
  <2> QED BY <1>7, <1>8, <2>1, <2>2 DEF Closes
<1> QED BY <1>5, <1>7, <1>9 DEF Chosen, Kept

(* pop chooses one of the five; the bookkeeping of the round robin and of  *)
(* the four-activate window changes nothing else.                          *)
LEMMA PopIs ==
    ASSUME NEW cq, NEW banks, QueuesOK(cq, banks), NEW x \in pop(cq, banks)
    PROVE  Chosen(cq, banks, x.packet, x.cq)
<1>1. PICK y \in RefreshPop(cq, banks) \cup ReadyPop(cq, banks) \cup PrechargePop(cq, banks) :
         x = Sent(y)
  BY DEF pop
<1>2. Chosen(cq, banks, y.packet, y.cq)
  BY <1>1, RefreshPopIs, ReadyPopIs, PrechargePopIs
<1>3. DOMAIN y = {"packet", "cq"}
  BY <1>1, RefreshPopIs, ReadyPopIs, PrechargePopIs
<1> DEFINE c == [y.cq EXCEPT !.nextRank = (@ + 1) % NUM_RANKS]
           d == [c EXCEPT !.tFAWCountdown[y.packet.rank] = Append(@, T.tFAW)]
<1>4. x = [y EXCEPT !.cq = IF y.packet.type = "ACTIVATE" THEN d ELSE c]
  BY <1>1 DEF Sent
<1>5. DOMAIN y.cq = QueueFields
  BY <1>2 DEF Chosen, Kept
<1>6. /\ DOMAIN c = QueueFields /\ c.queues = y.cq.queues
      /\ c.rowAccessCounters = y.cq.rowAccessCounters /\ c.overflow = y.cq.overflow
      /\ c.refreshWaiting = y.cq.refreshWaiting /\ c.refreshRank = y.cq.refreshRank
  BY <1>5 DEF QueueFields
<1> HIDE DEF c
<1>7. /\ DOMAIN d = QueueFields /\ d.queues = y.cq.queues
      /\ d.rowAccessCounters = y.cq.rowAccessCounters /\ d.overflow = y.cq.overflow
      /\ d.refreshWaiting = y.cq.refreshWaiting /\ d.refreshRank = y.cq.refreshRank
  BY <1>6 DEF QueueFields
<1> HIDE DEF d
<1>8. x.packet = y.packet /\ x.cq \in {c, d}
  BY <1>3, <1>4
<1>9. /\ DOMAIN x.cq = QueueFields /\ x.cq.queues = y.cq.queues
      /\ x.cq.rowAccessCounters = y.cq.rowAccessCounters /\ x.cq.overflow = y.cq.overflow
      /\ x.cq.refreshWaiting = y.cq.refreshWaiting /\ x.cq.refreshRank = y.cq.refreshRank
  BY <1>6, <1>7, <1>8
<1>10. Kept(cq, x.cq)
  BY <1>2, <1>9 DEF Chosen, Kept
<1>11. \/ TakesBare(cq, banks, y.packet, y.cq) \/ TakesHit(cq, banks, y.packet, y.cq)
       \/ TakesAct(cq, banks, y.packet, y.cq) \/ Closes(cq, banks, y.packet, y.cq)
       \/ Renews(cq, banks, y.packet, y.cq)
  BY <1>2 DEF Chosen
<1>12. /\ TakesBare(cq, banks, y.packet, y.cq) => TakesBare(cq, banks, x.packet, x.cq)
       /\ TakesHit(cq, banks, y.packet, y.cq) => TakesHit(cq, banks, x.packet, x.cq)
       /\ TakesAct(cq, banks, y.packet, y.cq) => TakesAct(cq, banks, x.packet, x.cq)
       /\ Closes(cq, banks, y.packet, y.cq) => Closes(cq, banks, x.packet, x.cq)
       /\ Renews(cq, banks, y.packet, y.cq) => Renews(cq, banks, x.packet, x.cq)
  <2>1. TakesBare(cq, banks, y.packet, y.cq) => TakesBare(cq, banks, x.packet, x.cq)
    BY <1>8, <1>9 DEF TakesBare
  <2>2. TakesHit(cq, banks, y.packet, y.cq) => TakesHit(cq, banks, x.packet, x.cq)
    BY <1>8, <1>9 DEF TakesHit
  <2>3. TakesAct(cq, banks, y.packet, y.cq) => TakesAct(cq, banks, x.packet, x.cq)
    BY <1>8, <1>9 DEF TakesAct
  <2>4. Closes(cq, banks, y.packet, y.cq) => Closes(cq, banks, x.packet, x.cq)
    BY <1>8, <1>9 DEF Closes
  <2>5. Renews(cq, banks, y.packet, y.cq) => Renews(cq, banks, x.packet, x.cq)
    BY <1>8, <1>9 DEF Renews
  <2> QED BY <2>1, <2>2, <2>3, <2>4, <2>5
<1> QED BY <1>10, <1>11, <1>12 DEF Chosen

-----------------------------------------------------------------------------
(* Issuing a command keeps the queues, the banks' countdowns and the       *)
(* sleeping ranks in order.                                                *)

(* The states and countdowns of the controller's banks after a command: c  *)
(* and n are a bank before and after it.                                   *)
After(c, n, p, r, b) ==
    /\ n.powerUp = c.powerUp
    /\ (IsColumn(p) \/ r # p.rank \/ (p.type = "PRECHARGE" /\ b # p.bank)) =>
         /\ n.state = c.state /\ n.row = c.row /\ n.countdown = c.countdown
         /\ n.activate = c.activate
    /\ r = p.rank /\ p.type = "ACTIVATE" =>
         /\ n.countdown = c.countdown /\ n.activate >= c.activate
         /\ b = p.bank => n.state = "RowActive" /\ n.row = p.row
         /\ b # p.bank => n.state = c.state /\ n.row = c.row
    /\ r = p.rank /\ p.type = "PRECHARGE" /\ b = p.bank =>
         /\ n.state = "Precharging" /\ n.countdown = T.tRP /\ n.activate >= T.tRP
    /\ r = p.rank /\ p.type = "REFRESH" =>
         /\ n.state = "Refreshing" /\ n.countdown = T.tRFC /\ n.activate = T.tRFC

(* BanksAfter does just that to the bank.                                  *)
LEMMA StatesAfter ==
    ASSUME NEW banks \in [Ranks -> [Banks -> BankT]], NEW p, IsCommand(p),
           NEW r \in Ranks, NEW b \in Banks
    PROVE  After(banks[r][b], BanksAfter(banks, p)[r][b], p, r, b)
<1> DEFINE n == BanksAfter(banks, p)[r][b]  c == banks[r][b]
<1>1. /\ c \in BankT /\ c.activate \in Nat /\ p.rank \in Ranks
      /\ banks[r] \in [Banks -> BankT] /\ banks[p.rank] \in [Banks -> BankT]
      /\ IsColumn(p) \/ p.type \in {"ACTIVATE", "PRECHARGE", "REFRESH"}
      /\ IsColumn(p) => p.type \in {"READ", "WRITE"}
      /\ p.type \in {"ACTIVATE", "PRECHARGE", "REFRESH"} => ~IsColumn(p)
  BY DEF BankT, IsCommand, IsColumn
<1>2. CASE r # p.rank /\ ~IsColumn(p)
  <2>1. n = c
    BY <1>2, TableAfter
  <2> QED BY <1>2, <2>1 DEF After
<1>3. CASE r # p.rank /\ IsColumn(p)
  <2>1. n = Turnaround(c, p)
    BY <1>3, TableAfter
  <2>2. /\ n.state = c.state /\ n.row = c.row /\ n.countdown = c.countdown
        /\ n.activate = c.activate /\ n.powerUp = c.powerUp
    <3> HIDE DEF n, c
    <3>1. /\ Turnaround(c, p).state = c.state /\ Turnaround(c, p).row = c.row
          /\ Turnaround(c, p).countdown = c.countdown
          /\ Turnaround(c, p).activate = c.activate /\ Turnaround(c, p).powerUp = c.powerUp
      BY <1>1, TurnaroundBank
    <3> QED BY <2>1, <3>1
  <2> HIDE DEF n, c
  <2> QED BY <1>3, <2>2 DEF n, c, After
<1>4. CASE r = p.rank /\ IsColumn(p)
  <2>1. n = Column(banks[r], p)[b]
    BY <1>4, TableAfter
  <2>2. /\ n.state = c.state /\ n.row = c.row /\ n.countdown = c.countdown
        /\ n.activate = c.activate /\ n.powerUp = c.powerUp
    BY <1>1, <1>4, <2>1, ColumnBanks
  <2> HIDE DEF n, c
  <2>3. p.type \notin {"ACTIVATE", "PRECHARGE", "REFRESH"}
    BY <1>1, <1>4
  <2> QED BY <1>4, <2>2, <2>3 DEF n, c, After
<1>5. CASE r = p.rank /\ p.type = "ACTIVATE"
  <2>1. n = Activate(banks[r], p)[b] /\ p.row \in Nat
    BY <1>5, TableAfter DEF IsCommand
  <2>2. /\ n.countdown = c.countdown /\ n.powerUp = c.powerUp
        /\ b = p.bank => /\ n.state = "RowActive" /\ n.row = p.row
                         /\ n.activate = Later(c.activate, T.tRC)
        /\ b # p.bank => /\ n.state = c.state /\ n.row = c.row
                         /\ n.activate = Later(c.activate, T.tRRD)
    BY <1>1, <2>1, ActivateBanks
  <2> HIDE DEF n, c
  <2>3. n.activate >= c.activate
    <3> DEFINE x == c.activate  toAll == T.tRRD  toOne == T.tRC
    <3>1. x \in Nat /\ toAll \in Nat /\ toOne \in Nat
      BY <1>1, Delays
    <3>2. n.activate = Later(x, toOne) \/ n.activate = Later(x, toAll)
      BY <2>2
    <3> HIDE DEF x, toAll, toOne
    <3>3. n.activate >= x
      BY <3>1, <3>2, DeadlineType
    <3> QED BY <3>3 DEF x
  <2> QED BY <1>1, <1>5, <2>2, <2>3 DEF n, c, After
<1>6. CASE r = p.rank /\ p.type = "PRECHARGE"
  <2>1. n = IF b = p.bank THEN Closing(c) ELSE c
    BY <1>6, TableAfter
  <2>2. /\ Closing(c).state = "Precharging" /\ Closing(c).countdown = T.tRP
        /\ Closing(c).activate >= T.tRP /\ Closing(c).powerUp = c.powerUp
    <3>1. /\ Closing(c).state = "Precharging" /\ Closing(c).countdown = T.tRP
          /\ Closing(c).activate = Later(c.activate, T.tRP) /\ Closing(c).powerUp = c.powerUp
      BY <1>1, ClosingBank
    <3>2. Later(c.activate, T.tRP) >= T.tRP
      <4> DEFINE x == c.activate  y == T.tRP
      <4>1. x \in Nat /\ y \in Nat
        BY <1>1, Delays
      <4> HIDE DEF x, y
      <4>2. Later(x, y) >= y
        BY <4>1, DeadlineType
      <4> QED BY <4>2 DEF x, y
    <3> QED BY <3>1, <3>2
  <2> QED BY <1>1, <1>6, <2>1, <2>2 DEF After
<1>7. CASE r = p.rank /\ p.type = "REFRESH"
  <2>1. n = Renewing(c)
    BY <1>7, TableAfter
  <2> QED BY <1>1, <1>7, <2>1, ClosingBank DEF After
<1> QED BY <1>1, <1>2, <1>3, <1>4, <1>5, <1>6, <1>7

(* Own, for every bank.                                                    *)
Settled(banks, slack) == \A r \in Ranks, b \in Banks : Own(banks[r][b], slack)

(* Whatever pop chooses is a command the controller's table allows.  A row *)
(* never opens while its bank refreshes, a refresh never starts while a    *)
(* bank precharges: the countdowns keep the deadlines above zero.          *)
LEMMA ChosenSendable ==
    ASSUME NEW cq, NEW banks, QueuesOK(cq, banks), Settled(banks, 0),
           NEW powered, Powers(powered, banks), NEW p, NEW n, Chosen(cq, banks, p, n)
    PROVE  /\ IsCommand(p) /\ Sendable(banks, p)
           /\ p.type \in {"READ", "WRITE", "ACTIVATE", "PRECHARGE"} =>
                banks[p.rank][p.bank].state \in {"RowActive", "Idle"}
<1>1. ASSUME NEW r \in Ranks, NEW i \in DOMAIN cq.queues[r], p = cq.queues[r][i]
      PROVE  IsCommand(p) /\ p.rank = r /\ p.bank \in Banks
  BY <1>1, QueuePackets DEF QueuesOK, QueueTyped
<1>2. ASSUME NEW r \in Ranks, NEW b \in Banks, banks[r][b].activate = 0
      PROVE  banks[r][b].state \notin {"Precharging", "Refreshing"}
  <2>1. Own(banks[r][b], 0) /\ banks[r][b] \in BankT
    BY DEF Settled, QueuesOK
  <2> QED BY <1>2, <2>1 DEF Own, BankT
<1>3. CASE TakesBare(cq, banks, p, n) \/ TakesHit(cq, banks, p, n)
  <2>1. PICK r \in Ranks : \E i \in DOMAIN cq.queues[r] :
          p = cq.queues[r][i] /\ IsColumn(p) /\ Allowed(banks[r][p.bank], p)
    BY <1>3 DEF TakesBare, TakesHit
  <2>2. IsCommand(p) /\ p.rank = r
    BY <1>1, <2>1
  <2>3. banks[p.rank][p.bank].state = "RowActive"
    BY <2>1, <2>2 DEF Allowed, IsColumn
  <2> QED BY <2>1, <2>2, <2>3 DEF Sendable, IsColumn
<1>4. CASE TakesAct(cq, banks, p, n)
  <2>1. PICK r \in Ranks : \E i \in DOMAIN cq.queues[r] :
          /\ p = cq.queues[r][i] /\ p.type = "ACTIVATE" /\ banks[r][p.bank].activate = 0
          /\ banks[r][p.bank].state \in {"Idle", "Refreshing"}
    BY <1>4 DEF TakesAct
  <2>2. IsCommand(p) /\ p.rank = r /\ p.bank \in Banks
    BY <1>1, <2>1
  <2>3. banks[r][p.bank].state = "Idle"
    BY <1>2, <2>1, <2>2
  <2> QED BY <2>1, <2>2, <2>3 DEF Sendable, Allowed
<1>5. CASE Closes(cq, banks, p, n)
  <2>1. PICK r \in Ranks, b \in Banks :
          /\ p = Control("PRECHARGE", r, b)
          /\ banks[r][b].state = "RowActive" /\ banks[r][b].precharge = 0
    BY <1>5 DEF Closes
  <2>2. p.type = "PRECHARGE" /\ p.rank = r /\ p.bank = b
    BY <2>1 DEF Control
  <2> QED BY <2>1, <2>2 DEF IsCommand, Sendable, Allowed
<1>6. CASE Renews(cq, banks, p, n)
  <2>1. PICK r \in Ranks :
          /\ p = Control("REFRESH", r, 0) /\ banks[r][0].state # "PowerDown"
          /\ \A b \in Banks : banks[r][b].state # "RowActive" /\ banks[r][b].activate = 0
    BY <1>6 DEF Renews
  <2>2. p.type = "REFRESH" /\ p.rank = r /\ p.bank = 0 /\ 0 \in Banks
    BY <2>1, GeometryAssumption DEF Control, Banks
  <2>3. ASSUME NEW b \in Banks PROVE banks[r][b].state = "Idle" /\ banks[r][b].activate = 0
    <3>1. banks[r][b].state \in BankStates /\ banks[r][b].state # "PowerDown"
      BY <2>1, <2>2 DEF Powers, QueuesOK, BankT
    <3> QED BY <1>2, <2>1, <3>1 DEF BankStates
  <2> QED BY <2>1, <2>2, <2>3 DEF IsCommand, Sendable
<1> QED BY <1>3, <1>4, <1>5, <1>6 DEF Chosen

(* In n, the queue and the counters of rank r have been replaced.          *)
Replaced(cq, n, r, w, count) ==
    /\ DOMAIN n.queues = Ranks
    /\ n.rowAccessCounters \in [Ranks -> [Banks -> Nat]]
    /\ \A s \in Ranks :
         /\ n.queues[s] = IF s = r THEN w ELSE cq.queues[s]
         /\ n.rowAccessCounters[s] = IF s = r THEN count ELSE cq.rowAccessCounters[s]

(* The queues and the table after the command.                             *)
LEMMA ChosenKeepsOrder ==
    ASSUME NEW cq, NEW banks, QueuesOK(cq, banks), Settled(banks, 0),
           NEW powered, Powers(powered, banks), NEW p, NEW n, Chosen(cq, banks, p, n)
    PROVE  /\ QueuesOK(n, BanksAfter(banks, p))
           /\ Settled(BanksAfter(banks, p), 0)
           /\ Powers(powered, BanksAfter(banks, p))
           /\ \E b \in Banks : BanksAfter(banks, p)[p.rank][b].state
                                 \in {"RowActive", "Precharging", "Refreshing"}
<1> DEFINE after == BanksAfter(banks, p)
<1>1. /\ IsCommand(p) /\ Sendable(banks, p) /\ p.rank \in Ranks /\ p.bank \in Banks
      /\ p.type \in {"READ", "WRITE", "ACTIVATE", "PRECHARGE"} =>
           banks[p.rank][p.bank].state \in {"RowActive", "Idle"}
  BY ChosenSendable DEF IsCommand
<1>2. /\ banks \in [Ranks -> [Banks -> BankT]] /\ QueueTyped(cq)
      /\ \A r \in Ranks : QueueOK(cq.queues[r], banks[r], cq.rowAccessCounters[r])
      /\ DOMAIN cq = QueueFields /\ DOMAIN cq.queues = Ranks
      /\ \A r \in Ranks : cq.queues[r] \in Seq(PacketT(r))
      /\ cq.rowAccessCounters \in [Ranks -> [Banks -> Nat]]
      /\ cq.refreshWaiting => cq.refreshRank \in Ranks
  BY DEF QueuesOK, QueueTyped
<1>3. after \in [Ranks -> [Banks -> BankT]]
  BY <1>1, <1>2, TableAfter
<1>4. \A r \in Ranks, b \in Banks : After(banks[r][b], after[r][b], p, r, b)
  BY <1>1, <1>2, StatesAfter
<1> HIDE DEF after
<1>5. /\ IsColumn(p) \/ p.type \in {"ACTIVATE", "PRECHARGE", "REFRESH"}
      /\ p.type \in {"ACTIVATE", "PRECHARGE", "REFRESH"} => ~IsColumn(p)
      /\ IsColumn(p) => p.type \in {"READ", "WRITE"}
  BY <1>1 DEF IsCommand, IsColumn
<1>6. Settled(after, 0)
  <2> SUFFICES ASSUME NEW r \in Ranks, NEW b \in Banks PROVE Own(after[r][b], 0)
    BY DEF Settled
  <2>1. /\ Own(banks[r][b], 0) /\ banks[r][b] \in BankT /\ after[r][b] \in BankT
        /\ banks[r][b].activate \in Nat /\ banks[r][b].countdown \in Nat
        /\ after[r][b].activate \in Nat
    <3>1. Own(banks[r][b], 0) /\ banks[r][b] \in BankT /\ after[r][b] \in BankT
      BY <1>2, <1>3 DEF Settled
    <3> QED BY <3>1 DEF BankT
  <2>2. CASE IsColumn(p) \/ r # p.rank \/ (p.type = "PRECHARGE" /\ b # p.bank)
    BY <1>4, <2>1, <2>2 DEF Own, After
  <2>3. CASE r = p.rank /\ p.type = "ACTIVATE"
    <3>1. b = p.bank => banks[r][b].state = "Idle"
      BY <1>1, <2>3 DEF Sendable, Allowed
    <3>2. CASE b = p.bank
      BY <1>4, <2>1, <2>3, <3>1, <3>2 DEF Own, After
    <3>3. CASE b # p.bank
      BY <1>4, <2>1, <2>3, <3>3 DEF Own, After
    <3> QED BY <3>2, <3>3
  <2>4. CASE r = p.rank /\ p.type = "PRECHARGE" /\ b = p.bank
    BY <1>4, <2>1, <2>4, Delays DEF Own, After
  <2>5. CASE r = p.rank /\ p.type = "REFRESH"
    BY <1>4, <2>5, Delays DEF Own, After
  <2> QED BY <1>5, <2>2, <2>3, <2>4, <2>5
<1>7. Powers(powered, after)
  <2> SUFFICES ASSUME NEW r \in Ranks, NEW b \in Banks
               PROVE  /\ powered[r] <=> after[r][b].state = "PowerDown"
                      /\ after[r][b].powerUp = after[r][0].powerUp
    BY DEF Powers
  <2>1. 0 \in Banks
    BY GeometryAssumption DEF Banks
  <2>2. after[r][b].powerUp = after[r][0].powerUp
    BY <1>4, <2>1 DEF Powers, After
  <2>3. CASE after[r][b].state = banks[r][b].state
    BY <2>2, <2>3 DEF Powers
  <2>4. CASE after[r][b].state # banks[r][b].state
    <3>1. r = p.rank /\ p.type \in {"ACTIVATE", "PRECHARGE", "REFRESH"}
          /\ (p.type = "REFRESH" \/ b = p.bank)
      BY <1>4, <1>5, <2>4 DEF After
    <3>2. banks[r][b].state # "PowerDown"
      <4>1. CASE p.type = "REFRESH"
        BY <1>1, <3>1, <4>1 DEF Sendable
      <4>2. CASE p.type # "REFRESH"
        BY <1>1, <3>1, <4>2
      <4> QED BY <4>1, <4>2
    <3>3. after[r][b].state # "PowerDown"
      BY <1>4, <3>1 DEF After
    <3> QED BY <2>2, <3>2, <3>3 DEF Powers
  <2> QED BY <2>3, <2>4
<1>8. \E b \in Banks : after[p.rank][b].state \in {"RowActive", "Precharging", "Refreshing"}
  <2>1. CASE IsColumn(p)
    <3>1. banks[p.rank][p.bank].state = "RowActive"
      BY <1>1, <1>5, <2>1 DEF Sendable, Allowed
    <3> QED BY <1>1, <1>4, <2>1, <3>1 DEF After
  <2>2. CASE ~IsColumn(p)
    BY <1>1, <1>4, <1>5, <2>2 DEF After
  <2> QED BY <2>1, <2>2
<1>9. QueuesOK(n, after)
  <2>1. /\ DOMAIN n = QueueFields
        /\ n.refreshWaiting => n.refreshRank \in Ranks
    BY <1>2 DEF Chosen, Kept
  <2> SUFFICES /\ DOMAIN n.queues = Ranks
               /\ n.rowAccessCounters \in [Ranks -> [Banks -> Nat]]
               /\ \A r \in Ranks : /\ n.queues[r] \in Seq(PacketT(r))
                                   /\ QueueOK(n.queues[r], after[r], n.rowAccessCounters[r])
    BY <1>3, <2>1 DEF QueuesOK, QueueTyped
  <2>2. ASSUME NEW r \in Ranks, \A b \in Banks : /\ after[r][b].state = banks[r][b].state
                                                 /\ after[r][b].row = banks[r][b].row
        PROVE  \A q \in Seq(PacketT(r)), c \in [Banks -> Nat] :
                 QueueOK(q, banks[r], c) => QueueOK(q, after[r], c)
    <3> SUFFICES ASSUME NEW q \in Seq(PacketT(r)), NEW c \in [Banks -> Nat],
                        QueueOK(q, banks[r], c)
                 PROVE  QueueOK(q, after[r], c)
      OBVIOUS
    <3>1. \A i \in DOMAIN q : q[i].bank \in Banks
      BY QueuePackets
    <3> QED BY <2>2, <3>1 DEF QueueOK
  <2>3. ASSUME NEW r \in Ranks, r # p.rank \/ IsColumn(p)
        PROVE  \A q \in Seq(PacketT(r)), c \in [Banks -> Nat] :
                 QueueOK(q, banks[r], c) => QueueOK(q, after[r], c)
    BY <1>4, <2>2, <2>3 DEF After
  <2>4. ASSUME NEW r \in Ranks
        PROVE  /\ cq.queues[r] \in Seq(PacketT(r)) /\ cq.rowAccessCounters[r] \in [Banks -> Nat]
               /\ QueueOK(cq.queues[r], banks[r], cq.rowAccessCounters[r])
               /\ banks[r] \in [Banks -> BankT] /\ after[r] \in [Banks -> BankT]
    BY <1>2, <1>3
  <2>10. ASSUME NEW r \in Ranks, r = p.rank \/ IsColumn(p),
                NEW w \in Seq(PacketT(r)), NEW count \in [Banks -> Nat],
                QueueOK(w, after[r], count),
                Replaced(cq, n, r, w, count)
         PROVE  /\ DOMAIN n.queues = Ranks
                /\ n.rowAccessCounters \in [Ranks -> [Banks -> Nat]]
                /\ \A s \in Ranks : /\ n.queues[s] \in Seq(PacketT(s))
                                    /\ QueueOK(n.queues[s], after[s], n.rowAccessCounters[s])
    <3>2. ASSUME NEW s \in Ranks
          PROVE  /\ n.queues[s] \in Seq(PacketT(s))
                 /\ QueueOK(n.queues[s], after[s], n.rowAccessCounters[s])
      <4>1. CASE s = r
        <5>1. n.queues[s] = w /\ n.rowAccessCounters[s] = count
          BY <1>2, <2>10, <4>1 DEF Replaced
        <5> QED BY <2>10, <4>1, <5>1
      <4>2. CASE s # r
        <5>1. n.queues[s] = cq.queues[s] /\ n.rowAccessCounters[s] = cq.rowAccessCounters[s]
          BY <1>2, <2>10, <4>2 DEF Replaced
        <5>2. QueueOK(cq.queues[s], after[s], cq.rowAccessCounters[s])
          BY <2>3, <2>4, <2>10, <4>2
        <5> QED BY <2>4, <5>1, <5>2
      <4> QED BY <4>1, <4>2
    <3> QED BY <2>10, <3>2 DEF Replaced
  <2>5. CASE TakesBare(cq, banks, p, n)
    <3>0. PICK r \in Ranks : \E i \in DOMAIN cq.queues[r] :
            /\ p = cq.queues[r][i] /\ IsColumn(p) /\ ~HasAct(cq.queues[r], i)
            /\ n.queues = [cq.queues EXCEPT ![r] = RemoveAt(cq.queues[r], i)]
            /\ n.rowAccessCounters = cq.rowAccessCounters
      BY <2>5 DEF TakesBare
    <3>1. PICK i \in DOMAIN cq.queues[r] :
            /\ p = cq.queues[r][i] /\ IsColumn(p) /\ ~HasAct(cq.queues[r], i)
            /\ n.queues = [cq.queues EXCEPT ![r] = RemoveAt(cq.queues[r], i)]
            /\ n.rowAccessCounters = cq.rowAccessCounters
      BY <3>0
    <3> DEFINE w == RemoveAt(cq.queues[r], i)
    <3>2. w \in Seq(PacketT(r)) /\ QueueOK(w, banks[r], cq.rowAccessCounters[r])
      BY <2>4, <3>1, QueueAfterBare, RemoveAtIs
    <3> HIDE DEF w
    <3>3. QueueOK(w, after[r], cq.rowAccessCounters[r])
      BY <2>3, <2>4, <3>1, <3>2
    <3>4. n.queues = [cq.queues EXCEPT ![r] = w]
      BY <3>1 DEF w
    <3>5. Replaced(cq, n, r, w, cq.rowAccessCounters[r])
      BY <1>2, <3>1, <3>4 DEF Replaced
    <3> QED BY <2>4, <2>10, <3>1, <3>2, <3>3, <3>5
  <2>6. CASE TakesHit(cq, banks, p, n)
    <3>0. PICK r \in Ranks : \E i \in DOMAIN cq.queues[r] :
            /\ p = cq.queues[r][i] /\ IsColumn(p) /\ HasAct(cq.queues[r], i)
            /\ Allowed(banks[r][p.bank], p)
            /\ \A j \in 1 .. i - 1 :
                 ~(cq.queues[r][j].type # "ACTIVATE" /\ SameRow(cq.queues[r][j], p))
            /\ n.queues = [cq.queues EXCEPT ![r] = RemoveAt(RemoveAt(cq.queues[r], i), i - 1)]
            /\ n.rowAccessCounters =
                 SetCount(cq.rowAccessCounters, r, p.bank, cq.rowAccessCounters[r][p.bank] + 1)
      BY <2>6 DEF TakesHit
    <3>1. PICK i \in DOMAIN cq.queues[r] :
            /\ p = cq.queues[r][i] /\ IsColumn(p) /\ HasAct(cq.queues[r], i)
            /\ Allowed(banks[r][p.bank], p)
            /\ \A j \in 1 .. i - 1 :
                 ~(cq.queues[r][j].type # "ACTIVATE" /\ SameRow(cq.queues[r][j], p))
            /\ n.queues = [cq.queues EXCEPT ![r] = RemoveAt(RemoveAt(cq.queues[r], i), i - 1)]
            /\ n.rowAccessCounters =
                 SetCount(cq.rowAccessCounters, r, p.bank, cq.rowAccessCounters[r][p.bank] + 1)
      BY <3>0
    <3> DEFINE w == RemoveAt(RemoveAt(cq.queues[r], i), i - 1)
               count == [cq.rowAccessCounters[r] EXCEPT ![p.bank] = @ + 1]
    <3>2. banks[r][p.bank].state = "RowActive" /\ banks[r][p.bank].row = p.row
      BY <3>1 DEF Allowed, IsColumn
    <3>3. w \in Seq(PacketT(r)) /\ QueueOK(w, banks[r], count)
      BY <2>4, <3>1, <3>2, QueueAfterHit
    <3>4. count \in [Banks -> Nat]
      BY <1>1, <2>4
    <3>5. n.rowAccessCounters = [cq.rowAccessCounters EXCEPT ![r] = count]
      BY <3>1 DEF SetCount
    <3>6. n.queues = [cq.queues EXCEPT ![r] = w]
      BY <3>1
    <3> HIDE DEF w, count
    <3>7. QueueOK(w, after[r], count)
      BY <2>3, <3>1, <3>3, <3>4
    <3>8. Replaced(cq, n, r, w, count)
      BY <1>2, <3>4, <3>5, <3>6 DEF Replaced
    <3> QED BY <2>10, <3>1, <3>3, <3>4, <3>7, <3>8
  <2>7. CASE TakesAct(cq, banks, p, n)
    <3>0. PICK r \in Ranks : \E i \in DOMAIN cq.queues[r] :
            /\ p = cq.queues[r][i] /\ p.type = "ACTIVATE"
            /\ \A j \in 1 .. i - 1 : ~SameRow(cq.queues[r][j], p)
            /\ n.queues = [cq.queues EXCEPT ![r] = RemoveAt(cq.queues[r], i)]
            /\ n.rowAccessCounters = cq.rowAccessCounters
      BY <2>7 DEF TakesAct
    <3>1. PICK i \in DOMAIN cq.queues[r] :
            /\ p = cq.queues[r][i] /\ p.type = "ACTIVATE"
            /\ \A j \in 1 .. i - 1 : ~SameRow(cq.queues[r][j], p)
            /\ n.queues = [cq.queues EXCEPT ![r] = RemoveAt(cq.queues[r], i)]
            /\ n.rowAccessCounters = cq.rowAccessCounters
      BY <3>0
    <3> DEFINE w == RemoveAt(cq.queues[r], i)
    <3>2. p.rank = r
      BY <2>4, <3>1, QueuePackets
    <3>3. banks[r][p.bank].state # "RowActive"
      BY <1>1, <3>1, <3>2 DEF Sendable, Allowed
    <3>4. \A b \in Banks : IF b = p.bank
                           THEN after[r][b].state = "RowActive" /\ after[r][b].row = p.row
                           ELSE /\ after[r][b].state = banks[r][b].state
                                /\ after[r][b].row = banks[r][b].row
      BY <1>4, <3>1, <3>2 DEF After
    <3>5. w \in Seq(PacketT(r)) /\ QueueOK(w, after[r], cq.rowAccessCounters[r])
      <4> DEFINE q == cq.queues[r]
      <4>1. w \in Seq(PacketT(r))
        BY <2>4, RemoveAtIs
      <4>2. /\ q \in Seq(PacketT(r)) /\ cq.rowAccessCounters[r] \in [Banks -> Nat]
            /\ QueueOK(q, banks[r], cq.rowAccessCounters[r])
            /\ banks[r] \in [Banks -> BankT] /\ after[r] \in [Banks -> BankT]
            /\ i \in DOMAIN q /\ q[i].type = "ACTIVATE" /\ banks[r][q[i].bank].state # "RowActive"
            /\ \A j \in 1 .. i - 1 : ~SameRow(q[j], q[i])
            /\ \A b \in Banks : IF b = q[i].bank
                                 THEN after[r][b].state = "RowActive" /\ after[r][b].row = q[i].row
                                 ELSE /\ after[r][b].state = banks[r][b].state
                                      /\ after[r][b].row = banks[r][b].row
        BY <2>4, <3>1, <3>3, <3>4
      <4>3. w = RemoveAt(q, i)
        OBVIOUS
      <4> HIDE DEF q, w
      <4> QED BY <4>1, <4>2, <4>3, QueueAfterAct
    <3>6. n.queues = [cq.queues EXCEPT ![r] = w]
      BY <3>1
    <3> HIDE DEF w
    <3>7. Replaced(cq, n, r, w, cq.rowAccessCounters[r])
      BY <1>2, <3>1, <3>6 DEF Replaced
    <3> QED BY <2>4, <2>10, <3>2, <3>5, <3>7
  <2>8. CASE Closes(cq, banks, p, n)
    <3>1. PICK r \in Ranks, b \in Banks :
            /\ p = Control("PRECHARGE", r, b)
            /\ \A i \in DOMAIN cq.queues[r] :
                 IsColumn(cq.queues[r][i]) /\ ~HasAct(cq.queues[r], i) => cq.queues[r][i].bank # b
            /\ n.queues = cq.queues
            /\ n.rowAccessCounters = SetCount(cq.rowAccessCounters, r, b, 0)
      BY <2>8 DEF Closes
    <3>2. p.type = "PRECHARGE" /\ p.rank = r /\ p.bank = b
      BY <3>1 DEF Control
    <3> DEFINE count == [cq.rowAccessCounters[r] EXCEPT ![b] = 0]
    <3>3. /\ count \in [Banks -> Nat]
          /\ \A k \in Banks : count[k] = IF k = b THEN 0 ELSE cq.rowAccessCounters[r][k]
      BY <2>4
    <3>4. n.rowAccessCounters = [cq.rowAccessCounters EXCEPT ![r] = count]
      BY <3>1 DEF SetCount
    <3> HIDE DEF count
    <3>5. \A k \in Banks : IF k \in {b} THEN count[k] = 0
                           ELSE /\ after[r][k].state = banks[r][k].state
                                /\ after[r][k].row = banks[r][k].row
                                /\ count[k] = cq.rowAccessCounters[r][k]
      BY <1>4, <3>2, <3>3 DEF After
    <3>6. \A i \in DOMAIN cq.queues[r] :
            IsColumn(cq.queues[r][i]) /\ ~HasAct(cq.queues[r], i) => cq.queues[r][i].bank \notin {b}
      BY <3>1
    <3>7. QueueOK(cq.queues[r], after[r], count)
      <4> DEFINE q == cq.queues[r]  old == banks[r]  new == after[r]
                 before == cq.rowAccessCounters[r]  closed == {b}
      <4>1. /\ q \in Seq(PacketT(r)) /\ before \in [Banks -> Nat] /\ QueueOK(q, old, before)
            /\ old \in [Banks -> BankT] /\ new \in [Banks -> BankT] /\ closed \in SUBSET Banks
            /\ count \in [Banks -> Nat]
            /\ \A i \in DOMAIN q : IsColumn(q[i]) /\ ~HasAct(q, i) => q[i].bank \notin closed
            /\ \A k \in closed : count[k] = 0
            /\ \A k \in Banks \ closed : /\ new[k].state = old[k].state /\ new[k].row = old[k].row
                                         /\ count[k] = before[k]
        BY <2>4, <3>3, <3>5, <3>6
      <4> HIDE DEF q, old, new, before, closed
      <4>2. \A i \in DOMAIN q : q[i].bank \in Banks
        BY <4>1, QueuePackets
      <4>3. ASSUME NEW i \in DOMAIN q, IsColumn(q[i]), ~HasAct(q, i)
            PROVE  /\ new[q[i].bank].state = "RowActive" /\ new[q[i].bank].row = q[i].row
                   /\ count[q[i].bank] = 0
                   /\ \A j \in 1 .. i - 1 : ~SameRow(q[j], q[i])
        BY <4>1, <4>2, <4>3 DEF QueueOK
      <4>4. \A k \in Banks : new[k].state # "RowActive" => count[k] = 0
        BY <4>1 DEF QueueOK
      <4>5. QueueOK(q, new, count)
        BY <4>1, <4>3, <4>4 DEF QueueOK
      <4> QED BY <4>5 DEF q, new
    <3>8. Replaced(cq, n, r, cq.queues[r], count)
      BY <1>2, <3>1, <3>3, <3>4 DEF Replaced
    <3> QED BY <2>4, <2>10, <3>2, <3>3, <3>7, <3>8
  <2>9. CASE Renews(cq, banks, p, n)
    <3>1. PICK r \in Ranks :
            /\ p = Control("REFRESH", r, 0)
            /\ \A b \in Banks : banks[r][b].state # "RowActive"
            /\ n.queues = cq.queues /\ n.rowAccessCounters = cq.rowAccessCounters
      BY <2>9 DEF Renews
    <3>2. p.type = "REFRESH" /\ p.rank = r
      BY <3>1 DEF Control
    <3>3. \A k \in Banks : cq.rowAccessCounters[r][k] = 0
      BY <2>4, <3>1 DEF QueueOK
    <3>4. \A i \in DOMAIN cq.queues[r] :
            IsColumn(cq.queues[r][i]) /\ ~HasAct(cq.queues[r], i) =>
              cq.queues[r][i].bank \notin Banks
      <4>1. \A i \in DOMAIN cq.queues[r] : cq.queues[r][i].bank \in Banks
        BY <2>4, QueuePackets
      <4> QED BY <2>4, <3>1, <4>1 DEF QueueOK
    <3>5. QueueOK(cq.queues[r], after[r], cq.rowAccessCounters[r])
      <4>1. \A i \in DOMAIN cq.queues[r] : cq.queues[r][i].bank \in Banks
        BY <2>4, QueuePackets
      <4>2. \A i \in DOMAIN cq.queues[r] :
              ~(IsColumn(cq.queues[r][i]) /\ ~HasAct(cq.queues[r], i))
        BY <3>4, <4>1
      <4>3. QueueOK(cq.queues[r], banks[r], cq.rowAccessCounters[r])
        BY <2>4
      <4> QED BY <3>3, <4>2, <4>3 DEF QueueOK
    <3>6. Replaced(cq, n, r, cq.queues[r], cq.rowAccessCounters[r])
      BY <1>2, <3>1 DEF Replaced
    <3> QED BY <2>4, <2>10, <3>2, <3>5, <3>6
  <2> QED BY <2>5, <2>6, <2>7, <2>8, <2>9 DEF Chosen
<1> QED BY <1>6, <1>7, <1>8, <1>9 DEF after

-----------------------------------------------------------------------------
(* A lane of the data bus: the burst under way and the ones that wait for  *)
(* their cycle.  Each rank has one, and the controller has one for writes. *)
BusOver(bus) == IF bus # <<>> /\ bus[1].left = 1 THEN <<>> ELSE Nearer(bus)
Due(waiting) == waiting # <<>> /\ waiting[1].left = 1
LaneBus(bus, waiting) ==
    IF Due(waiting) THEN <<[addr |-> waiting[1].addr, left |-> Burst]>> ELSE BusOver(bus)
LaneWaiting(waiting) == IF Due(waiting) THEN Tail(Nearer(waiting)) ELSE Nearer(waiting)

(* One cycle nearer, burst by burst.                                       *)
LEMMA NearerIs ==
    ASSUME NEW s \in Seq(BurstT)
    PROVE  /\ Nearer(s) \in Seq(BurstT) /\ Len(Nearer(s)) = Len(s)
           /\ DOMAIN Nearer(s) = DOMAIN s
           /\ \A i \in DOMAIN s : /\ Nearer(s)[i].addr = s[i].addr
                                  /\ Nearer(s)[i].left = s[i].left - 1
<1>1. Len(s) \in Nat /\ DOMAIN s = 1 .. Len(s)
  OBVIOUS
<1>2. ASSUME NEW i \in 1 .. Len(s)
      PROVE  /\ Nearer(s)[i] \in BurstT /\ Nearer(s)[i].addr = s[i].addr
             /\ Nearer(s)[i].left = s[i].left - 1
  <2>1. s[i] \in BurstT
    BY <1>1
  <2>2. Nearer(s)[i] = [s[i] EXCEPT !.left = @ - 1]
    BY <1>1 DEF Nearer
  <2> QED BY <2>1, <2>2 DEF BurstT
<1>3. Nearer(s) = [i \in 1 .. Len(s) |-> Nearer(s)[i]]
  BY <1>1 DEF Nearer
<1>4. Nearer(s) \in [1 .. Len(s) -> BurstT]
  BY <1>2, <1>3
<1> HIDE DEF Nearer
<1>5. Nearer(s) \in Seq(BurstT)
  BY <1>1, <1>4
<1>6. Len(Nearer(s)) = Len(s)
  BY <1>1, <1>4, <1>5
<1> QED BY <1>1, <1>2, <1>4, <1>5, <1>6

(* The waiting bursts one cycle later.                                     *)
LEMMA WaitingIs ==
    ASSUME NEW w \in Seq(BurstT)
    PROVE  /\ LaneWaiting(w) \in Seq(BurstT)
           /\ Due(w) => /\ DOMAIN LaneWaiting(w) = 1 .. Len(w) - 1 /\ Len(w) > 0
                        /\ \A i \in 1 .. Len(w) - 1 :
                             LaneWaiting(w)[i].left = w[i + 1].left - 1 /\ i + 1 \in DOMAIN w
           /\ ~Due(w) => /\ DOMAIN LaneWaiting(w) = DOMAIN w
                         /\ \A i \in DOMAIN w : LaneWaiting(w)[i].left = w[i].left - 1
<1> DEFINE n == Nearer(w)
<1>1. /\ n \in Seq(BurstT) /\ Len(n) = Len(w) /\ DOMAIN n = DOMAIN w
      /\ \A i \in DOMAIN w : n[i].left = w[i].left - 1
  BY NearerIs
<1>2. Len(w) \in Nat /\ DOMAIN w = 1 .. Len(w) /\ (w # <<>> => Len(w) > 0)
  OBVIOUS
<1> HIDE DEF n
<1>3. CASE Due(w)
  <2>1. LaneWaiting(w) = Tail(n) /\ n # <<>> /\ Len(w) > 0
    BY <1>1, <1>2, <1>3 DEF LaneWaiting, Due, n
  <2>2. /\ Tail(n) \in Seq(BurstT) /\ DOMAIN Tail(n) = 1 .. Len(w) - 1
        /\ \A i \in 1 .. Len(w) - 1 : Tail(n)[i] = n[i + 1]
    BY <1>1, <2>1
  <2>3. \A i \in 1 .. Len(w) - 1 : i + 1 \in DOMAIN w
    BY <1>2
  <2> QED BY <1>1, <1>3, <2>1, <2>2, <2>3
<1>4. CASE ~Due(w)
  BY <1>1, <1>4 DEF LaneWaiting, n
<1> QED BY <1>3, <1>4

(* The bus one cycle later.                                                *)
LEMMA BusIs ==
    ASSUME NEW bus \in Seq(BurstT), NEW w \in Seq(BurstT), LaneOK(bus, w)
    PROVE  /\ LaneBus(bus, w) \in Seq(BurstT) /\ Len(LaneBus(bus, w)) <= 1
           /\ Due(w) => /\ BusOver(bus) = <<>> /\ DOMAIN LaneBus(bus, w) = {1}
                        /\ LaneBus(bus, w)[1].left = Burst
           /\ ~Due(w) => \A i \in DOMAIN LaneBus(bus, w) :
                           /\ i = 1 /\ i \in DOMAIN bus /\ bus[1].left > 1
                           /\ LaneBus(bus, w)[i].left = bus[1].left - 1
<1>1. /\ Len(bus) \in Nat /\ DOMAIN bus = 1 .. Len(bus) /\ (bus # <<>> => 1 \in DOMAIN bus)
      /\ Len(w) \in Nat /\ DOMAIN w = 1 .. Len(w) /\ (w # <<>> => 1 \in DOMAIN w)
  OBVIOUS
<1>2. Burst \in Nat /\ Burst > 0
  BY Delays
<1>3. CASE Due(w)
  <2>1. w[1] \in BurstT /\ w[1].left = 1 /\ 1 \in DOMAIN w
    BY <1>1, <1>3 DEF Due
  <2>2. bus # <<>> => bus[1].left = 1
    BY <1>1, <1>2, <2>1 DEF LaneOK
  <2>3. BusOver(bus) = <<>>
    <3>1. CASE bus = <<>>
      BY <3>1 DEF BusOver, Nearer
    <3>2. CASE bus # <<>>
      BY <2>2, <3>2 DEF BusOver
    <3> QED BY <3>1, <3>2
  <2> DEFINE x == [addr |-> w[1].addr, left |-> Burst]
  <2>4. x \in BurstT /\ x.left = Burst
    BY <1>2, <2>1 DEF BurstT
  <2>5. LaneBus(bus, w) = <<x>>
    BY <1>3 DEF LaneBus
  <2> HIDE DEF x
  <2>6. <<x>> \in Seq(BurstT) /\ Len(<<x>>) = 1 /\ DOMAIN <<x>> = {1} /\ <<x>>[1] = x
    BY <2>4
  <2> QED BY <1>3, <2>3, <2>4, <2>5, <2>6
<1>4. CASE ~Due(w)
  <2>1. LaneBus(bus, w) = BusOver(bus)
    BY <1>4 DEF LaneBus
  <2>2. CASE bus # <<>> /\ bus[1].left = 1
    <3>1. BusOver(bus) = <<>>
      BY <2>2 DEF BusOver
    <3> QED BY <1>4, <2>1, <3>1
  <2>3. CASE ~(bus # <<>> /\ bus[1].left = 1)
    <3>1. BusOver(bus) = Nearer(bus)
      BY <2>3 DEF BusOver
    <3>2. \A i \in DOMAIN bus : i = 1 /\ bus[1].left \in 1 .. Burst /\ bus[1].left # 1
      BY <1>1, <2>3 DEF LaneOK
    <3>3. /\ Nearer(bus) \in Seq(BurstT) /\ Len(Nearer(bus)) = Len(bus)
          /\ DOMAIN Nearer(bus) = DOMAIN bus
          /\ \A i \in DOMAIN bus : Nearer(bus)[i].left = bus[i].left - 1
      BY NearerIs
    <3>4. Len(bus) <= 1
      BY DEF LaneOK
    <3> HIDE DEF Nearer
    <3>5. ASSUME NEW i \in DOMAIN bus
          PROVE  i = 1 /\ bus[1].left > 1 /\ Nearer(bus)[i].left = bus[1].left - 1
      BY <1>2, <3>2, <3>3
    <3> QED BY <1>4, <2>1, <3>1, <3>3, <3>4, <3>5
  <2> QED BY <2>2, <2>3
<1> QED BY <1>3, <1>4

(* A cycle of a lane: nothing is lost from it or collides in it, and every *)
(* burst starts one cycle sooner, counted from now.                        *)
LEMMA LaneStep ==
    ASSUME NEW bus \in Seq(BurstT), NEW w \in Seq(BurstT), LaneOK(bus, w)
    PROVE  /\ LaneOK(LaneBus(bus, w), LaneWaiting(w))
           /\ \A i \in DOMAIN LaneWaiting(w) : LaneWaiting(w)[i].left < RL
           /\ \A s \in Starts(LaneBus(bus, w), LaneWaiting(w)) : s + 1 \in Starts(bus, w)
<1> DEFINE x == LaneBus(bus, w)  y == LaneWaiting(w)
<1>1. /\ x \in Seq(BurstT) /\ Len(x) <= 1
      /\ Due(w) => BusOver(bus) = <<>> /\ DOMAIN x = {1} /\ x[1].left = Burst
      /\ ~Due(w) => \A i \in DOMAIN x : /\ i = 1 /\ i \in DOMAIN bus /\ bus[1].left > 1
                                        /\ x[i].left = bus[1].left - 1
  BY BusIs
<1>2. /\ y \in Seq(BurstT)
      /\ Due(w) => /\ DOMAIN y = 1 .. Len(w) - 1 /\ Len(w) > 0
                   /\ \A i \in 1 .. Len(w) - 1 : y[i].left = w[i + 1].left - 1 /\ i + 1 \in DOMAIN w
      /\ ~Due(w) => DOMAIN y = DOMAIN w /\ \A i \in DOMAIN w : y[i].left = w[i].left - 1
  BY WaitingIs
<1>3. /\ Burst \in Nat /\ Burst > 0 /\ RL \in Nat
      /\ Len(w) \in Nat /\ DOMAIN w = 1 .. Len(w)
      /\ \A i \in DOMAIN w : w[i].left \in Int
      /\ \A i \in DOMAIN bus : bus[i].left \in Int
  <2>1. \A i \in DOMAIN w : w[i] \in BurstT
    OBVIOUS
  <2>2. \A i \in DOMAIN bus : bus[i] \in BurstT
    OBVIOUS
  <2>3. Len(w) \in Nat /\ DOMAIN w = 1 .. Len(w)
    OBVIOUS
  <2> QED BY <2>1, <2>2, <2>3, Delays DEF BurstT
<1>4. /\ \A i \in DOMAIN bus : bus[i].left \in 1 .. Burst
      /\ \A i \in DOMAIN w : w[i].left \in 1 .. RL
      /\ \A i, j \in DOMAIN w : i < j => w[j].left >= w[i].left + Burst
      /\ \A i \in DOMAIN bus, j \in DOMAIN w : w[j].left >= bus[i].left
  BY DEF LaneOK
<1> HIDE DEF x, y
<1>5. CASE Due(w)
  <2>1. 1 \in DOMAIN w /\ w[1].left = 1
    BY <1>3, <1>5 DEF Due
  <2>2. \A i \in DOMAIN y : i + 1 \in DOMAIN w /\ y[i].left = w[i + 1].left - 1 /\ 1 < i + 1
    BY <1>2, <1>5
  <2>3. ASSUME NEW i \in DOMAIN y PROVE y[i].left \in Burst .. RL - 1
    <3>1. w[i + 1].left >= w[1].left + Burst
      BY <1>4, <2>1, <2>2
    <3>2. w[i + 1].left \in 1 .. RL /\ y[i].left = w[i + 1].left - 1
      BY <1>4, <2>2
    <3> QED BY <1>3, <2>1, <3>1, <3>2
  <2>4. \A i, j \in DOMAIN y : i < j => y[j].left >= y[i].left + Burst
    <3> SUFFICES ASSUME NEW i \in DOMAIN y, NEW j \in DOMAIN y, i < j
                 PROVE  y[j].left >= y[i].left + Burst
      OBVIOUS
    <3>1. i \in Int /\ j \in Int /\ i + 1 < j + 1
      BY <1>2, <1>5, <1>3
    <3>2. w[j + 1].left >= w[i + 1].left + Burst
      BY <1>4, <2>2, <3>1
    <3>3. w[j + 1].left \in Int /\ w[i + 1].left \in Int
      BY <1>3, <2>2
    <3> QED BY <1>3, <2>2, <3>2, <3>3
  <2>5. LaneOK(x, y)
    BY <1>1, <1>3, <1>5, <2>3, <2>4 DEF LaneOK
  <2>6. \A s \in Starts(x, y) : s + 1 \in Starts(bus, w)
    <3>1. ASSUME NEW i \in DOMAIN x PROVE (x[i].left - Burst) + 1 \in Starts(bus, w)
      BY <1>1, <1>3, <1>5, <2>1 DEF Starts
    <3>2. ASSUME NEW i \in DOMAIN y PROVE y[i].left + 1 \in Starts(bus, w)
      <4>1. y[i].left + 1 = w[i + 1].left
        BY <1>3, <2>2
      <4> QED BY <2>2, <4>1 DEF Starts
    <3> QED BY <3>1, <3>2 DEF Starts
  <2> QED BY <1>3, <2>3, <2>5, <2>6 DEF x, y
<1>6. CASE ~Due(w)
  <2>1. \A i \in DOMAIN y : i \in DOMAIN w /\ y[i].left = w[i].left - 1
    BY <1>2, <1>6
  <2>2. \A i \in DOMAIN w : w[i].left > 1
    <3> SUFFICES ASSUME NEW i \in DOMAIN w PROVE w[i].left > 1
      OBVIOUS
    <3>1. 1 \in DOMAIN w /\ w[1].left # 1 /\ (i = 1 \/ 1 < i)
      BY <1>3, <1>6 DEF Due
    <3> QED BY <1>3, <1>4, <3>1
  <2>3. \A i \in DOMAIN y : y[i].left \in 1 .. RL - 1
    BY <1>3, <1>4, <2>1, <2>2
  <2>4. \A i, j \in DOMAIN y : i < j => y[j].left >= y[i].left + Burst
    BY <1>3, <1>4, <2>1
  <2>5. \A i \in DOMAIN x : i \in DOMAIN bus /\ bus[i].left > 1 /\ x[i].left = bus[i].left - 1
    BY <1>1, <1>6
  <2>6. LaneOK(x, y)
    <3>1. \A i \in DOMAIN x : x[i].left \in 1 .. Burst
      BY <1>3, <1>4, <2>5
    <3>2. \A i \in DOMAIN y : y[i].left \in 1 .. RL
      BY <1>3, <2>3
    <3>3. ASSUME NEW i \in DOMAIN x, NEW j \in DOMAIN y PROVE y[j].left >= x[i].left
      <4>1. w[j].left >= bus[i].left /\ w[j].left \in Int /\ bus[i].left \in Int
        BY <1>3, <1>4, <2>1, <2>5
      <4> QED BY <2>1, <2>5, <4>1
    <3> QED BY <1>1, <2>4, <3>1, <3>2, <3>3 DEF LaneOK
  <2>7. \A s \in Starts(x, y) : s + 1 \in Starts(bus, w)
    <3>1. ASSUME NEW i \in DOMAIN x PROVE (x[i].left - Burst) + 1 \in Starts(bus, w)
      <4>1. (x[i].left - Burst) + 1 = bus[i].left - Burst
        BY <1>3, <2>5
      <4> QED BY <2>5, <4>1 DEF Starts
    <3>2. ASSUME NEW i \in DOMAIN y PROVE y[i].left + 1 \in Starts(bus, w)
      <4>1. y[i].left + 1 = w[i].left
        <5>1. y[i].left = w[i].left - 1 /\ w[i].left \in Int
          BY <1>3, <2>1
        <5> QED BY <5>1
      <4> QED BY <2>1, <4>1 DEF Starts
    <3> QED BY <3>1, <3>2 DEF Starts
  <2> QED BY <1>3, <2>3, <2>6, <2>7 DEF x, y
<1> QED BY <1>5, <1>6

-----------------------------------------------------------------------------
(* The first half of a cycle, up to the choice of a command, from the      *)
(* state m of the channel to the state n.                                  *)
Same(m, n, fields) == DOMAIN n = ChannelFields /\ \A f \in ChannelFields \ fields : n[f] = m[f]

(* A READ reaches rank l in this half.                                     *)
Arrives(m, l) == BusTo(m, l) /\ m.cmd[1].type = "READ"

(* The bursts move on, each bank settles, and the command of the last      *)
(* cycle reaches its rank.                                                 *)
Moved(m, n) ==
    /\ Typed(n)
    /\ n.cmd = <<>>
    /\ n.powerDown = m.powerDown /\ (n.collision => m.collision)
    /\ n.cq.queues = m.cq.queues /\ n.cq.rowAccessCounters = m.cq.rowAccessCounters
    /\ n.cq.overflow = m.cq.overflow
    /\ \A r \in Ranks, b \in Banks : n.banks[r][b] = Settle(m.banks[r][b])
    /\ \A r \in Ranks : /\ n.ranks[r].banks = Its(m, r).banks
                        /\ n.ranks[r].isPowerDown = Its(m, r).isPowerDown
                        /\ n.ranks[r].rejected = Its(m, r).rejected
    /\ \A l \in Lanes :
         /\ BusOf(n, l) = LaneBus(BusOf(m, l), WaitingOf(m, l))
         /\ WaitingOf(n, l) =
              IF Arrives(m, l)
              THEN Append(LaneWaiting(WaitingOf(m, l)), [addr |-> m.cmd[1].addr, left |-> RL])
              ELSE LaneWaiting(WaitingOf(m, l))

(* The countdown of a bank.                                                *)
LEMMA SettleBank ==
    ASSUME NEW c \in BankT
    PROVE  /\ Settle(c) \in BankT
           /\ Settle(c).countdown = Sooner(c.countdown)
           /\ Settle(c).state = (IF c.countdown = 1 THEN "Idle" ELSE c.state)
           /\ Settle(c).row = c.row /\ Settle(c).read = c.read /\ Settle(c).write = c.write
           /\ Settle(c).activate = c.activate /\ Settle(c).precharge = c.precharge
           /\ Settle(c).powerUp = c.powerUp
<1>1. c.countdown \in Nat /\ c.state \in BankStates
  BY DEF BankT
<1>2. Sooner(c.countdown) \in Nat
  BY <1>1, DeadlineType
<1>3. (IF c.countdown = 1 THEN "Idle" ELSE c.state) \in BankStates
  BY <1>1, StateNames
<1> QED BY <1>2, <1>3 DEF BankT, Settle

(* A burst that is due, as the code sees it after the countdown.           *)
LEMMA DueIs ==
    ASSUME NEW w \in Seq(BurstT)
    PROVE  /\ Nearer(w) # <<>> /\ Nearer(w)[1].left = 0 <=> Due(w)
           /\ Due(w) => Nearer(w)[1].addr = w[1].addr
<1>1. Nearer(w) # <<>> <=> w # <<>>
  <2>1. Nearer(w) \in Seq(BurstT) /\ Len(Nearer(w)) = Len(w)
    BY NearerIs
  <2> HIDE DEF Nearer
  <2> QED BY <2>1
<1>2. w # <<>> => /\ Nearer(w)[1].left = w[1].left - 1 /\ Nearer(w)[1].addr = w[1].addr
                  /\ w[1].left \in Int
  <2>1. w # <<>> => 1 \in DOMAIN w /\ w[1] \in BurstT
    OBVIOUS
  <2> QED BY <2>1, NearerIs DEF BurstT
<1> QED BY <1>1, <1>2 DEF Due

(* Rank::update is a step of the rank's lane, and nothing else.            *)
LEMMA RankUpdateIs ==
    ASSUME NEW v \in RankT, LaneOK(v.outgoing, v.readReturn)
    PROVE  /\ RankUpdate(v) \in RankT
           /\ RankUpdate(v).banks = v.banks /\ RankUpdate(v).isPowerDown = v.isPowerDown
           /\ RankUpdate(v).rejected = v.rejected
           /\ RankUpdate(v).outgoing = LaneBus(v.outgoing, v.readReturn)
           /\ RankUpdate(v).readReturn = LaneWaiting(v.readReturn)
<1>1. v.outgoing \in Seq(BurstT) /\ v.readReturn \in Seq(BurstT)
  BY DEF RankT
<1>2. LaneBus(v.outgoing, v.readReturn) \in Seq(BurstT) /\ LaneWaiting(v.readReturn) \in Seq(BurstT)
  BY <1>1, BusIs, WaitingIs
<1>3. RankDelivers(v) # <<>> <=> v.outgoing # <<>> /\ v.outgoing[1].left = 1
  BY DEF RankDelivers
<1>4. RankUpdate(v) = [v EXCEPT !.outgoing = LaneBus(v.outgoing, v.readReturn),
                                !.readReturn = LaneWaiting(v.readReturn)]
  <2>1. CASE Due(v.readReturn)
    BY <1>1, <2>1, DueIs DEF RankUpdate, LaneBus, LaneWaiting
  <2>2. CASE ~Due(v.readReturn)
    <3>1. ~(Nearer(v.readReturn) # <<>> /\ Nearer(v.readReturn)[1].left = 0)
      BY <1>1, <2>2, DueIs
    <3>2. LaneBus(v.outgoing, v.readReturn) =
            IF RankDelivers(v) # <<>> THEN <<>> ELSE Nearer(v.outgoing)
      BY <1>3, <2>2 DEF LaneBus, BusOver
    <3> QED BY <2>2, <3>1, <3>2 DEF RankUpdate, LaneWaiting
  <2> QED BY <2>1, <2>2
<1> QED BY <1>2, <1>4 DEF RankT

(* So are DeliverData and SendWriteData, of the controller's lane.         *)
LEMMA DataStepIs ==
    ASSUME NEW m, DOMAIN m = ChannelFields, m.data \in Seq(BurstT), m.writeData \in Seq(BurstT),
           LaneOK(m.data, m.writeData)
    PROVE  LET n == SendWriteData(DeliverData(m))
           IN /\ Same(m, n, {"data", "writeData", "done", "collision"})
              /\ n.collision => m.collision
              /\ n.data = LaneBus(m.data, m.writeData)
              /\ n.writeData = LaneWaiting(m.writeData)
<1> DEFINE d == DeliverData(m)
<1>1. Same(m, d, {"data", "done"}) /\ d.data = BusOver(m.data)
  <2>1. CASE m.data # <<>> /\ m.data[1].left = 1
    BY <2>1 DEF DeliverData, BusOver, Same, ChannelFields
  <2>2. CASE ~(m.data # <<>> /\ m.data[1].left = 1)
    BY <2>2 DEF DeliverData, BusOver, Same, ChannelFields
  <2> QED BY <2>1, <2>2
<1> HIDE DEF d
<1>2. DOMAIN d = ChannelFields /\ d.writeData = m.writeData /\ d.collision = m.collision
  BY <1>1 DEF Same, ChannelFields
<1> DEFINE n == SendWriteData(d)
<1>3. CASE Due(m.writeData)
  <2>1. BusOver(m.data) = <<>>
    BY <1>3, BusIs
  <2>2. n = [d EXCEPT !.collision = d.collision \/ d.data # <<>>,
                      !.data = <<[addr |-> m.writeData[1].addr, left |-> Burst]>>,
                      !.writeData = Tail(Nearer(m.writeData))]
    BY <1>2, <1>3, DueIs DEF SendWriteData
  <2>3. /\ Same(d, n, {"data", "writeData", "collision"})
        /\ n.collision = (d.collision \/ d.data # <<>>)
        /\ n.data = LaneBus(m.data, m.writeData) /\ n.writeData = LaneWaiting(m.writeData)
    BY <1>2, <1>3, <2>2 DEF Same, ChannelFields, LaneBus, LaneWaiting
  <2>4. d.data = <<>>
    BY <1>1, <2>1
  <2>5. n.collision => m.collision
    BY <1>2, <2>3, <2>4
  <2> QED BY <1>1, <2>3, <2>5 DEF Same, d
<1>4. CASE ~Due(m.writeData)
  <2>1. n = [d EXCEPT !.writeData = Nearer(m.writeData)]
    BY <1>2, <1>4, DueIs DEF SendWriteData
  <2>2. /\ Same(d, n, {"writeData"}) /\ n.collision = d.collision
        /\ n.data = d.data /\ n.writeData = LaneWaiting(m.writeData)
    BY <1>2, <1>4, <2>1 DEF Same, ChannelFields, LaneWaiting
  <2>3. n.data = LaneBus(m.data, m.writeData)
    BY <1>1, <1>4, <2>2 DEF LaneBus
  <2> QED BY <1>1, <1>2, <2>2, <2>3 DEF Same, d
<1> QED BY <1>3, <1>4

(* The ranks that CheckRefresh marks are otherwise the same; the queue     *)
(* only takes note of the refresh.                                         *)
QueueKept(c, d) ==
    /\ d.queues = c.queues /\ d.rowAccessCounters = c.rowAccessCounters
    /\ d.overflow = c.overflow

RankKept(v, w) ==
    /\ w \in RankT /\ w.banks = v.banks /\ w.isPowerDown = v.isPowerDown
    /\ w.rejected = v.rejected /\ w.outgoing = v.outgoing /\ w.readReturn = v.readReturn

(* CheckRefresh keeps the queues, the counters and the ranks' banks and    *)
(* bursts.                                                                 *)
LEMMA CheckRefreshIs ==
    ASSUME NEW m, DOMAIN m = ChannelFields, m.ranks \in [Ranks -> RankT], m.refreshRank \in Ranks,
           QueueTyped(m.cq)
    PROVE  LET n == CheckRefresh(m)
           IN /\ Same(m, n, {"cq", "ranks", "refreshCountdown", "refreshRank"})
              /\ QueueTyped(n.cq) /\ QueueKept(m.cq, n.cq)
              /\ n.refreshRank \in Ranks
              /\ n.ranks \in [Ranks -> RankT] /\ \A r \in Ranks : RankKept(m.ranks[r], n.ranks[r])
<1> DEFINE r == m.refreshRank  n == CheckRefresh(m)
           c == needRefresh(m.cq, r)
           w == [m.ranks[r] EXCEPT !.refreshWaiting = TRUE]
           ranks == [m.ranks EXCEPT ![r] = w]
<1>1. RankKept(m.ranks[r], w)
  <2>1. m.ranks[r] \in RankT
    OBVIOUS
  <2> QED BY <2>1 DEF RankKept, RankT
<1>2. \A s \in Ranks : RankKept(m.ranks[s], m.ranks[s])
  BY DEF RankKept
<1>3. w \in RankT
  BY <1>1 DEF RankKept
<1> HIDE DEF w
<1>4. ranks \in [Ranks -> RankT] /\ \A s \in Ranks : RankKept(m.ranks[s], ranks[s])
  BY <1>1, <1>2, <1>3
<1>5. QueueTyped(c) /\ QueueKept(m.cq, c)
  BY DEF QueueTyped, QueueKept, needRefresh, QueueFields
<1>6. QueueKept(m.cq, m.cq)
  BY DEF QueueKept
<1>7. (r + 1) % NUM_RANKS \in Ranks
  BY GeometryAssumption DEF Ranks
<1>8. CASE m.refreshCountdown[r] = 0
  <2>1. /\ n.cq = c /\ n.ranks = ranks /\ n.refreshRank = (r + 1) % NUM_RANKS
        /\ Same(m, n, {"cq", "ranks", "refreshCountdown", "refreshRank"})
    BY <1>8 DEF CheckRefresh, Same, ChannelFields, w
  <2> QED BY <1>4, <1>5, <1>7, <2>1
<1>9. CASE /\ m.refreshCountdown[r] # 0 /\ m.powerDown[r] /\ m.refreshCountdown[r] <= T.tXP
  <2>1. /\ n.cq = m.cq /\ n.ranks = ranks /\ n.refreshRank = r
        /\ Same(m, n, {"cq", "ranks", "refreshCountdown", "refreshRank"})
    BY <1>9 DEF CheckRefresh, Same, ChannelFields, w
  <2> QED BY <1>4, <1>6, <2>1
<1>10. CASE /\ m.refreshCountdown[r] # 0
            /\ ~(m.refreshCountdown[r] # 0 /\ m.powerDown[r] /\ m.refreshCountdown[r] <= T.tXP)
  <2>1. n = m
    BY <1>10 DEF CheckRefresh
  <2> QED BY <1>2, <1>6, <2>1 DEF Same
<1> QED BY <1>8, <1>9, <1>10

(* Everything up to the choice of a command.                               *)
LEMMA MovedIs ==
    ASSUME NEW m, Typed(m), \A l \in Lanes : LaneOK(BusOf(m, l), WaitingOf(m, l)),
           NEW m0, m0 = UpdateRanks(m), NEW m1, m1 = AdmitPending(m0),
           NEW m2, m2 = UpdateBankStates(m1), NEW m3, m3 = DeliverCommand(m2),
           NEW m4, m4 = DeliverData(m3), NEW m5, m5 = SendWriteData(m4),
           NEW m6, m6 = CheckRefresh(m5), NEW n, n = [m6 EXCEPT !.cq = Window(m6.cq)]
    PROVE  Moved(m, n)
<1>0. /\ DOMAIN m = ChannelFields /\ m.ranks \in [Ranks -> RankT]
      /\ m.banks \in [Ranks -> [Banks -> BankT]] /\ QueueTyped(m.cq)
      /\ m.powerDown \in [Ranks -> BOOLEAN] /\ m.refreshRank \in Ranks
      /\ m.cmd = <<>> \/ (m.cmd = <<m.cmd[1]>> /\ IsCommand(m.cmd[1]))
      /\ m.data \in Seq(BurstT) /\ m.writeData \in Seq(BurstT)
      /\ m.pendingTransactions \in Seq(TransactionT) /\ m.transactionQueue \in Seq(TransactionT)
  BY DEF Typed
<1>1. /\ Same(m, m0, {"ranks", "returnTransaction"})
      /\ m0.ranks = [r \in Ranks |-> RankUpdate(m.ranks[r])]
  BY <1>0 DEF UpdateRanks, Same, ChannelFields
<1>2. /\ Same(m0, m1, {"transactionQueue", "pendingTransactions"})
      /\ m1.transactionQueue \in Seq(TransactionT) /\ m1.pendingTransactions \in Seq(TransactionT)
  <2>1. /\ DOMAIN m0 = ChannelFields /\ m0.transactionQueue \in Seq(TransactionT)
        /\ m0.pendingTransactions \in Seq(TransactionT)
    BY <1>0, <1>1 DEF Same, ChannelFields
  <2>2. CASE m0.pendingTransactions # <<>> /\ WillAcceptTransaction(m0)
    <3>1. /\ Append(m0.transactionQueue, Head(m0.pendingTransactions)) \in Seq(TransactionT)
          /\ Tail(m0.pendingTransactions) \in Seq(TransactionT)
      BY <2>1, <2>2
    <3>2. m1 = [m0 EXCEPT !.transactionQueue =
                            Append(m0.transactionQueue, Head(m0.pendingTransactions)),
                          !.pendingTransactions = Tail(m0.pendingTransactions)]
      BY <2>2 DEF AdmitPending
    <3> QED BY <2>1, <3>1, <3>2 DEF Same, ChannelFields
  <2>3. CASE ~(m0.pendingTransactions # <<>> /\ WillAcceptTransaction(m0))
    <3>1. m1 = m0
      BY <2>3 DEF AdmitPending
    <3> QED BY <2>1, <3>1 DEF Same
  <2> QED BY <2>2, <2>3
<1>3. /\ Same(m1, m2, {"banks"})
      /\ m2.banks = [r \in Ranks |-> [b \in Banks |-> Settle(m1.banks[r][b])]]
  <2>1. DOMAIN m1 = ChannelFields
    BY <1>2 DEF Same
  <2> QED BY <2>1 DEF UpdateBankStates, Same, ChannelFields
<1>4. /\ m1.banks = m.banks /\ m2.cmd = m.cmd /\ DOMAIN m2 = ChannelFields
      /\ m2.ranks = [r \in Ranks |-> RankUpdate(m.ranks[r])]
  BY <1>1, <1>2, <1>3 DEF Same, ChannelFields
<1>5. /\ Same(m2, m3, {"ranks", "cmd"}) /\ m3.cmd = <<>>
      /\ m.cmd = <<>> => m3.ranks = m2.ranks
      /\ m.cmd # <<>> =>
           m3.ranks = [m2.ranks EXCEPT ![m.cmd[1].rank] =
                         receiveFromBus(m2.ranks[m.cmd[1].rank], m.cmd[1])]
  <2>1. CASE m.cmd = <<>>
    BY <1>4, <2>1 DEF DeliverCommand, Same, ChannelFields
  <2>2. CASE m.cmd # <<>>
    BY <1>4, <2>2 DEF DeliverCommand, Same, ChannelFields
  <2> QED BY <2>1, <2>2
<1>30. /\ DOMAIN m0 = ChannelFields
       /\ m0.banks = m.banks /\ m0.cq = m.cq /\ m0.powerDown = m.powerDown
       /\ m0.refreshRank = m.refreshRank /\ m0.cmd = m.cmd /\ m0.data = m.data
       /\ m0.writeData = m.writeData /\ m0.pendingTransactions = m.pendingTransactions
       /\ m0.transactionQueue = m.transactionQueue /\ m0.collision = m.collision
  BY <1>1 DEF Same, ChannelFields
<1>31. /\ DOMAIN m1 = ChannelFields
       /\ m1.ranks = m0.ranks /\ m1.banks = m0.banks /\ m1.cq = m0.cq
       /\ m1.powerDown = m0.powerDown /\ m1.refreshRank = m0.refreshRank /\ m1.cmd = m0.cmd
       /\ m1.data = m0.data /\ m1.writeData = m0.writeData /\ m1.collision = m0.collision
  BY <1>2 DEF Same, ChannelFields
<1>32. /\ DOMAIN m2 = ChannelFields
       /\ m2.ranks = m1.ranks /\ m2.cq = m1.cq /\ m2.powerDown = m1.powerDown
       /\ m2.refreshRank = m1.refreshRank /\ m2.cmd = m1.cmd /\ m2.data = m1.data
       /\ m2.writeData = m1.writeData /\ m2.pendingTransactions = m1.pendingTransactions
       /\ m2.transactionQueue = m1.transactionQueue /\ m2.collision = m1.collision
  BY <1>3 DEF Same, ChannelFields
<1>33. /\ DOMAIN m3 = ChannelFields
       /\ m3.banks = m2.banks /\ m3.cq = m2.cq /\ m3.powerDown = m2.powerDown
       /\ m3.refreshRank = m2.refreshRank /\ m3.data = m2.data
       /\ m3.writeData = m2.writeData /\ m3.pendingTransactions = m2.pendingTransactions
       /\ m3.transactionQueue = m2.transactionQueue /\ m3.collision = m2.collision
  BY <1>5 DEF Same, ChannelFields
<1>6. /\ Same(m3, m5, {"data", "writeData", "done", "collision"})
      /\ m5.collision => m3.collision
      /\ m5.data = LaneBus(m.data, m.writeData) /\ m5.writeData = LaneWaiting(m.writeData)
  <2>1. DOMAIN m3 = ChannelFields /\ m3.data = m.data /\ m3.writeData = m.writeData
    BY <1>30, <1>31, <1>32, <1>33
  <2>2. LaneOK(m.data, m.writeData)
    BY GeometryAssumption DEF Lanes, BusOf, WaitingOf
  <2> QED BY <1>0, <2>1, <2>2, DataStepIs
<1>34. /\ DOMAIN m5 = ChannelFields
       /\ m5.ranks = m3.ranks /\ m5.banks = m3.banks /\ m5.cq = m3.cq
       /\ m5.powerDown = m3.powerDown /\ m5.refreshRank = m3.refreshRank /\ m5.cmd = m3.cmd
       /\ m5.pendingTransactions = m3.pendingTransactions
       /\ m5.transactionQueue = m3.transactionQueue
  BY <1>6 DEF Same, ChannelFields
<1>7. /\ DOMAIN m5 = ChannelFields /\ m5.cmd = <<>> /\ m5.powerDown = m.powerDown
      /\ m5.collision => m.collision
      /\ m5.cq = m.cq /\ m5.refreshRank = m.refreshRank
      /\ m5.banks = m2.banks /\ m5.ranks = m3.ranks
      /\ m5.transactionQueue = m1.transactionQueue
      /\ m5.pendingTransactions = m1.pendingTransactions
  BY <1>5, <1>6, <1>30, <1>31, <1>32, <1>33, <1>34
<1>8. ASSUME NEW r \in Ranks
      PROVE  /\ m5.ranks[r] \in RankT
             /\ m5.ranks[r].banks = Its(m, r).banks
             /\ m5.ranks[r].isPowerDown = Its(m, r).isPowerDown
             /\ m5.ranks[r].rejected = Its(m, r).rejected
             /\ m5.ranks[r].outgoing = LaneBus(m.ranks[r].outgoing, m.ranks[r].readReturn)
             /\ m5.ranks[r].readReturn =
                  IF Arrives(m, r)
                  THEN Append(LaneWaiting(m.ranks[r].readReturn),
                               [addr |-> m.cmd[1].addr, left |-> RL])
                  ELSE LaneWaiting(m.ranks[r].readReturn)
  <2> DEFINE v == m.ranks[r]  w == RankUpdate(v)
  <2>1. v \in RankT /\ LaneOK(v.outgoing, v.readReturn)
    <3>1. r \in Lanes /\ r # NUM_RANKS
      BY GeometryAssumption DEF Lanes, Ranks
    <3> QED BY <1>0, <3>1 DEF BusOf, WaitingOf
  <2> HIDE DEF v
  <2>2. /\ w \in RankT /\ w.banks = v.banks /\ w.isPowerDown = v.isPowerDown
        /\ w.rejected = v.rejected
        /\ w.outgoing = LaneBus(v.outgoing, v.readReturn)
        /\ w.readReturn = LaneWaiting(v.readReturn)
    BY <2>1, RankUpdateIs
  <2>3. m2.ranks[r] = w
    BY <1>4 DEF v
  <2> HIDE DEF w
  <2>4. CASE BusTo(m, r)
    <3> DEFINE p == m.cmd[1]
    <3>1. m.cmd # <<>> /\ IsCommand(p) /\ p.rank = r
      BY <1>0, <2>4 DEF BusTo
    <3>2. m5.ranks[r] = receiveFromBus(w, p) /\ Its(m, r) = receiveFromBus(v, p)
      BY <1>4, <1>5, <1>7, <2>3, <2>4, <3>1 DEF Its, v
    <3> HIDE DEF p
    <3>3. /\ receiveFromBus(w, p) \in RankT
          /\ receiveFromBus(w, p).banks = RankBanksAfter(w.banks, p)
          /\ receiveFromBus(w, p).isPowerDown = w.isPowerDown
          /\ receiveFromBus(w, p).outgoing = w.outgoing
          /\ receiveFromBus(w, p).readReturn =
               IF p.type = "READ" THEN Append(w.readReturn, [addr |-> p.addr, left |-> RL])
               ELSE w.readReturn
          /\ receiveFromBus(w, p).rejected = (w.rejected \/ Rejects(w.banks, p))
      BY <2>2, <3>1, ReceiveIs
    <3>4. /\ receiveFromBus(v, p).banks = RankBanksAfter(v.banks, p)
          /\ receiveFromBus(v, p).isPowerDown = v.isPowerDown
          /\ receiveFromBus(v, p).rejected = (v.rejected \/ Rejects(v.banks, p))
      BY <2>1, <3>1, ReceiveIs
    <3>5. Arrives(m, r) <=> p.type = "READ"
      BY <2>4 DEF Arrives, p
    <3> QED BY <2>2, <3>2, <3>3, <3>4, <3>5 DEF p, v
  <2>5. CASE ~BusTo(m, r)
    <3>1. m5.ranks[r] = w /\ Its(m, r) = v
      <4>1. Its(m, r) = v
        BY <2>5 DEF Its, v
      <4>2. CASE m.cmd = <<>>
        BY <1>5, <1>7, <2>3, <4>1, <4>2
      <4>3. CASE m.cmd # <<>>
        BY <1>5, <1>4, <1>7, <2>3, <2>5, <4>1, <4>3 DEF BusTo
      <4> QED BY <4>2, <4>3
    <3>2. ~Arrives(m, r)
      BY <2>5 DEF Arrives
    <3> QED BY <2>2, <3>1, <3>2 DEF v
  <2> QED BY <2>4, <2>5
<1>9. m5.ranks \in [Ranks -> RankT]
  <2>1. m5.ranks = [r \in Ranks |-> m5.ranks[r]]
    BY <1>4, <1>5, <1>7
  <2> QED BY <1>8, <2>1
<1>10. /\ Same(m5, m6, {"cq", "ranks", "refreshCountdown", "refreshRank"})
       /\ QueueTyped(m6.cq) /\ QueueKept(m5.cq, m6.cq)
       /\ m6.refreshRank \in Ranks
       /\ m6.ranks \in [Ranks -> RankT] /\ \A r \in Ranks : RankKept(m5.ranks[r], m6.ranks[r])
  BY <1>0, <1>7, <1>9, CheckRefreshIs
<1>11. Same(m6, n, {"cq"}) /\ n.cq = Window(m6.cq)
  BY <1>10 DEF Same, ChannelFields
<1>12. QueueTyped(Window(m6.cq)) /\ QueueKept(m6.cq, Window(m6.cq))
  BY <1>10 DEF QueueTyped, QueueKept, Window, QueueFields
<1>35. /\ DOMAIN m6 = ChannelFields
       /\ m6.banks = m5.banks /\ m6.powerDown = m5.powerDown /\ m6.cmd = m5.cmd
       /\ m6.data = m5.data /\ m6.writeData = m5.writeData
       /\ m6.pendingTransactions = m5.pendingTransactions
       /\ m6.transactionQueue = m5.transactionQueue /\ m6.collision = m5.collision
  BY <1>10 DEF Same, ChannelFields
<1>36. /\ DOMAIN n = ChannelFields
       /\ n.ranks = m6.ranks /\ n.banks = m6.banks /\ n.powerDown = m6.powerDown
       /\ n.refreshRank = m6.refreshRank /\ n.cmd = m6.cmd /\ n.data = m6.data
       /\ n.writeData = m6.writeData /\ n.pendingTransactions = m6.pendingTransactions
       /\ n.transactionQueue = m6.transactionQueue /\ n.collision = m6.collision
  BY <1>11 DEF Same, ChannelFields
<1>13. /\ DOMAIN n = ChannelFields /\ n.cmd = <<>> /\ n.powerDown = m.powerDown
       /\ n.collision => m.collision
       /\ n.refreshRank = m6.refreshRank /\ n.ranks = m6.ranks
       /\ n.banks = [r \in Ranks |-> [b \in Banks |-> Settle(m.banks[r][b])]]
       /\ n.transactionQueue = m1.transactionQueue
       /\ n.pendingTransactions = m1.pendingTransactions
       /\ n.data = LaneBus(m.data, m.writeData) /\ n.writeData = LaneWaiting(m.writeData)
  BY <1>3, <1>4, <1>6, <1>7, <1>35, <1>36
<1>14. QueueTyped(n.cq) /\ QueueKept(m.cq, n.cq)
  BY <1>7, <1>10, <1>11, <1>12 DEF QueueKept
<1>15. n.data \in Seq(BurstT) /\ n.writeData \in Seq(BurstT)
  <2>1. LaneOK(m.data, m.writeData)
    BY GeometryAssumption DEF Lanes, BusOf, WaitingOf
  <2> QED BY <1>0, <1>13, <2>1, BusIs, WaitingIs
<1>16. n.banks \in [Ranks -> [Banks -> BankT]]
  BY <1>0, <1>13, SettleBank
<1>17. Typed(n)
  BY <1>0, <1>2, <1>10, <1>13, <1>14, <1>15, <1>16 DEF Typed
<1>18. ASSUME NEW r \in Ranks
       PROVE  /\ n.ranks[r].banks = Its(m, r).banks
              /\ n.ranks[r].isPowerDown = Its(m, r).isPowerDown
              /\ n.ranks[r].rejected = Its(m, r).rejected
              /\ n.ranks[r].outgoing = LaneBus(m.ranks[r].outgoing, m.ranks[r].readReturn)
              /\ n.ranks[r].readReturn =
                   IF Arrives(m, r)
                   THEN Append(LaneWaiting(m.ranks[r].readReturn),
                               [addr |-> m.cmd[1].addr, left |-> RL])
                   ELSE LaneWaiting(m.ranks[r].readReturn)
  BY <1>8, <1>10, <1>13 DEF RankKept
<1>19. ASSUME NEW l \in Lanes
       PROVE  /\ BusOf(n, l) = LaneBus(BusOf(m, l), WaitingOf(m, l))
              /\ WaitingOf(n, l) =
                   IF Arrives(m, l)
                   THEN Append(LaneWaiting(WaitingOf(m, l)), [addr |-> m.cmd[1].addr, left |-> RL])
                   ELSE LaneWaiting(WaitingOf(m, l))
  <2>1. CASE l = NUM_RANKS
    <3>1. ~Arrives(m, l)
      BY <1>0, <2>1, GeometryAssumption DEF Arrives, BusTo, IsCommand, Ranks
    <3> QED BY <1>13, <2>1, <3>1 DEF BusOf, WaitingOf
  <2>2. CASE l # NUM_RANKS
    <3>1. l \in Ranks
      BY <2>2, GeometryAssumption DEF Lanes, Ranks
    <3> QED BY <1>18, <2>2, <3>1 DEF BusOf, WaitingOf
  <2> QED BY <2>1, <2>2
<1> HIDE DEF Lanes
<1> QED BY <1>13, <1>14, <1>17, <1>18, <1>19 DEF Moved, QueueKept

(* The starts of a lane are integers.                                      *)
LEMMA StartsAreInt ==
    ASSUME NEW bus \in Seq(BurstT), NEW w \in Seq(BurstT)
    PROVE  Starts(bus, w) \subseteq Int
<1>1. \A i \in DOMAIN w : w[i] \in BurstT
  OBVIOUS
<1>2. \A i \in DOMAIN bus : bus[i] \in BurstT
  OBVIOUS
<1>3. \A i \in DOMAIN w : w[i].left \in Int
  BY <1>1 DEF BurstT
<1>4. \A i \in DOMAIN bus : bus[i].left - Burst \in Int
  BY <1>2, Delays DEF BurstT
<1> QED BY <1>3, <1>4 DEF Starts

(* A burst that starts when all the others of its lane are over.           *)
LEMMA LaneAppend ==
    ASSUME NEW bus \in Seq(BurstT), NEW w \in Seq(BurstT), LaneOK(bus, w),
           NEW x \in BurstT, x.left \in 1 .. RL,
           \A s \in Starts(bus, w) : s + Burst <= x.left
    PROVE  /\ Append(w, x) \in Seq(BurstT)
           /\ LaneOK(bus, Append(w, x))
           /\ Starts(bus, Append(w, x)) = Starts(bus, w) \cup {x.left}
<1> DEFINE y == Append(w, x)
<1>1. /\ y \in Seq(BurstT) /\ Len(w) \in Nat /\ DOMAIN w = 1 .. Len(w)
      /\ DOMAIN y = 1 .. Len(w) + 1
      /\ y[Len(w) + 1] = x /\ \A i \in 1 .. Len(w) : y[i] = w[i]
  OBVIOUS
<1>2. /\ \A i \in DOMAIN w : w[i] \in BurstT
      /\ \A i \in DOMAIN bus : bus[i] \in BurstT
  OBVIOUS
<1>3. Burst \in Nat /\ Burst > 0 /\ RL \in Nat
  BY Delays
<1> HIDE DEF y
<1>4. \A i \in DOMAIN y : (i \in DOMAIN w /\ y[i] = w[i]) \/ (i = Len(w) + 1 /\ y[i] = x)
  BY <1>1
<1>5. \A i \in DOMAIN w : w[i].left + Burst <= x.left /\ w[i].left \in 1 .. RL
  BY <1>3 DEF Starts, LaneOK
<1>6. \A i \in DOMAIN bus : bus[i].left <= x.left /\ bus[i].left \in 1 .. Burst
  <2> SUFFICES ASSUME NEW i \in DOMAIN bus PROVE bus[i].left <= x.left /\ bus[i].left \in 1 .. Burst
    OBVIOUS
  <2>1. (bus[i].left - Burst) + Burst <= x.left
    BY DEF Starts
  <2>2. bus[i].left \in 1 .. Burst
    BY DEF LaneOK
  <2> QED BY <1>3, <2>1, <2>2
<1>7. LaneOK(bus, y)
  <2>1. \A i \in DOMAIN y : y[i].left \in 1 .. RL
    BY <1>4, <1>5
  <2>2. ASSUME NEW i \in DOMAIN y, NEW j \in DOMAIN y, i < j PROVE y[j].left >= y[i].left + Burst
    <3>1. i \in DOMAIN w /\ y[i] = w[i]
      BY <1>1, <1>4, <2>2
    <3>2. CASE j \in DOMAIN w
      BY <1>1, <1>4, <2>2, <3>1, <3>2 DEF LaneOK
    <3>3. CASE y[j] = x
      <4>1. w[i].left + Burst <= x.left /\ w[i].left \in Int /\ x.left \in Int
        BY <1>3, <1>5, <3>1
      <4> QED BY <1>3, <3>1, <3>3, <4>1
    <3> QED BY <1>4, <3>2, <3>3
  <2>3. ASSUME NEW i \in DOMAIN bus, NEW j \in DOMAIN y PROVE y[j].left >= bus[i].left
    <3>1. CASE j \in DOMAIN w /\ y[j] = w[j]
      BY <3>1 DEF LaneOK
    <3>2. CASE y[j] = x
      <4>1. bus[i].left \in Int /\ x.left \in Int /\ bus[i].left <= x.left
        BY <1>3, <1>6
      <4> QED BY <3>2, <4>1
    <3> QED BY <1>4, <3>1, <3>2
  <2> QED BY <2>1, <2>2, <2>3 DEF LaneOK
<1>8. Starts(bus, y) = Starts(bus, w) \cup {x.left}
  <2>1. {y[i].left : i \in DOMAIN y} = {w[i].left : i \in DOMAIN w} \cup {x.left}
    <3>1. \A i \in DOMAIN w : i \in DOMAIN y /\ y[i] = w[i]
      BY <1>1
    <3>2. Len(w) + 1 \in DOMAIN y /\ y[Len(w) + 1] = x
      BY <1>1
    <3> QED BY <1>4, <3>1, <3>2
  <2> QED BY <2>1 DEF Starts
<1> QED BY <1>1, <1>7, <1>8 DEF y

(* The lanes of a channel of the right type.                               *)
LEMMA LanesTyped ==
    ASSUME NEW m, Typed(m), NEW l \in Lanes
    PROVE  /\ BusOf(m, l) \in Seq(BurstT) /\ WaitingOf(m, l) \in Seq(BurstT)
           /\ StartsOf(m, l) \subseteq Int
           /\ Starts(BusOf(m, l), WaitingOf(m, l)) \subseteq StartsOf(m, l)
           /\ (l = NUM_RANKS) \/ l \in Ranks
<1>1. (l = NUM_RANKS) \/ l \in Ranks
  BY GeometryAssumption DEF Lanes, Ranks
<1>2. BusOf(m, l) \in Seq(BurstT) /\ WaitingOf(m, l) \in Seq(BurstT)
  <2>1. CASE l = NUM_RANKS
    BY <2>1 DEF BusOf, WaitingOf, Typed
  <2>2. CASE l # NUM_RANKS
    <3>1. l \in Ranks /\ m.ranks[l] \in RankT
      BY <1>1, <2>2 DEF Typed
    <3> QED BY <2>2, <3>1 DEF BusOf, WaitingOf, RankT
  <2> QED BY <2>1, <2>2
<1>3. Starts(BusOf(m, l), WaitingOf(m, l)) \subseteq Int
  BY <1>2, StartsAreInt
<1> QED BY <1>1, <1>2, <1>3, Delays DEF StartsOf

(* The lanes after the first half of the cycle.                            *)
LEMMA MovedLanes ==
    ASSUME NEW m, NEW n, Typed(m), DataBus(m, 1), Moved(m, n), NEW l \in Lanes
    PROVE  /\ LaneOK(BusOf(n, l), WaitingOf(n, l))
           /\ \A s \in StartsOf(n, l) : s + 1 \in StartsOf(m, l)
<1> DEFINE x == BusOf(m, l)  w == WaitingOf(m, l)
           x1 == LaneBus(x, w)  w1 == LaneWaiting(w)
<1>1. x \in Seq(BurstT) /\ w \in Seq(BurstT) /\ LaneOK(x, w)
  BY LanesTyped DEF DataBus
<1>2. x1 \in Seq(BurstT) /\ w1 \in Seq(BurstT)
  BY <1>1, BusIs, WaitingIs
<1>3. /\ LaneOK(x1, w1) /\ \A i \in DOMAIN w1 : w1[i].left < RL
      /\ \A s \in Starts(x1, w1) : s + 1 \in Starts(x, w)
  BY <1>1, LaneStep
<1>4. BusOf(n, l) = x1
  BY DEF Moved
<1>5. Starts(x1, w1) \subseteq Int
  BY <1>2, StartsAreInt
<1>6. StartsOf(n, l) = Starts(BusOf(n, l), WaitingOf(n, l))
  BY DEF StartsOf, BusTo, Moved
<1>7. CASE Arrives(m, l)
  <2> DEFINE e == [addr |-> m.cmd[1].addr, left |-> RL]
  <2>1. WaitingOf(n, l) = Append(w1, e)
    BY <1>7 DEF Moved
  <2>2. e \in BurstT /\ e.left = RL /\ RL \in 1 .. RL
    <3>1. m.cmd[1].addr \in Addrs
      BY <1>7 DEF Typed, Arrives, BusTo, IsCommand
    <3>2. RL \in Nat /\ RL > 0
      BY Delays
    <3> QED BY <3>1, <3>2 DEF BurstT
  <2>3. \A s \in Starts(x, w) : s + Burst <= RL + 1
    BY <1>7 DEF DataBus, Arrives
  <2>4. \A s \in Starts(x1, w1) : s + Burst <= RL
    <3> SUFFICES ASSUME NEW s \in Starts(x1, w1) PROVE s + Burst <= RL
      OBVIOUS
    <3>1. s \in Int /\ (s + 1) + Burst <= RL + 1
      BY <1>3, <1>5, <2>3
    <3> QED BY <3>1, Delays
  <2> HIDE DEF e, x1, w1
  <2>5. /\ LaneOK(x1, Append(w1, e))
        /\ Starts(x1, Append(w1, e)) = Starts(x1, w1) \cup {e.left}
    BY <1>2, <1>3, <2>2, <2>4, LaneAppend
  <2>6. RL + 1 \in StartsOf(m, l)
    BY <1>7 DEF StartsOf, Arrives
  <2>7. Starts(x, w) \subseteq StartsOf(m, l)
    BY LanesTyped
  <2> QED BY <1>3, <1>4, <1>6, <2>1, <2>2, <2>5, <2>6, <2>7
<1>8. CASE ~Arrives(m, l)
  <2>1. WaitingOf(n, l) = w1
    BY <1>8 DEF Moved
  <2>2. Starts(x, w) \subseteq StartsOf(m, l)
    BY LanesTyped
  <2> QED BY <1>3, <1>4, <1>6, <2>1, <2>2
<1> QED BY <1>7, <1>8

(* The first half of a cycle keeps the channel in order; from here on the  *)
(* deadlines count from this cycle and not from the last.                  *)
LEMMA MovedInOrder ==
    ASSUME NEW m, NEW n, Typed(m), Scheduled(m, 1), Legal(m), DataBus(m, 1), Moved(m, n)
    PROVE  Scheduled(n, 0) /\ Legal(n) /\ DataBus(n, 0)
<1>1. \A r \in Ranks, b \in Banks : m.banks[r][b] \in BankT
  BY DEF Typed
<1>2. ASSUME NEW r \in Ranks, NEW b \in Banks
      PROVE  LET c == m.banks[r][b]  d == n.banks[r][b]
             IN /\ d.state = "RowActive" <=> c.state = "RowActive"
                /\ d.state = "PowerDown" <=> c.state = "PowerDown"
                /\ \/ d.state = c.state
                   \/ d.state = "Idle" /\ c.state \in {"Precharging", "Refreshing"}
                /\ d.row = c.row /\ d.read = c.read /\ d.write = c.write
                /\ d.activate = c.activate /\ d.precharge = c.precharge /\ d.powerUp = c.powerUp
                /\ Own(d, 0)
  <2> DEFINE c == m.banks[r][b]  d == n.banks[r][b]
  <2>1. c \in BankT /\ d = Settle(c) /\ Own(c, 1)
    BY <1>1 DEF Moved, Scheduled
  <2>2. c.countdown \in Nat /\ c.activate \in Nat
    BY <2>1 DEF BankT
  <2> HIDE DEF c, d
  <2>3. /\ d.countdown = Sooner(c.countdown)
        /\ d.state = (IF c.countdown = 1 THEN "Idle" ELSE c.state)
        /\ d.row = c.row /\ d.read = c.read /\ d.write = c.write
        /\ d.activate = c.activate /\ d.precharge = c.precharge /\ d.powerUp = c.powerUp
    BY <2>1, SettleBank
  <2>4. c.countdown = 1 => c.state \in {"Precharging", "Refreshing"}
    BY <2>1 DEF Own
  <2>5. Own(d, 0)
    BY <2>1, <2>2, <2>3, <2>4 DEF Own, Sooner
  <2> QED BY <2>3, <2>4, <2>5 DEF c, d
<1>3. Scheduled(n, 0)
  <2>1. ASSUME NEW r \in Ranks
        PROVE  QueueOK(n.cq.queues[r], n.banks[r], n.cq.rowAccessCounters[r])
    <3> DEFINE q == m.cq.queues[r]
    <3>1. n.cq.queues[r] = q /\ n.cq.rowAccessCounters[r] = m.cq.rowAccessCounters[r]
      BY DEF Moved
    <3>2. q \in Seq(PacketT(r)) /\ QueueOK(q, m.banks[r], m.cq.rowAccessCounters[r])
      BY DEF Typed, QueueTyped, Scheduled
    <3> HIDE DEF q
    <3>3. \A i \in DOMAIN q : q[i].bank \in Banks
      BY <3>2, QueuePackets
    <3>4. \A b \in Banks : /\ n.banks[r][b].state = "RowActive"
                                <=> m.banks[r][b].state = "RowActive"
                           /\ n.banks[r][b].row = m.banks[r][b].row
      BY <1>2
    <3>5. QueueOK(q, n.banks[r], m.cq.rowAccessCounters[r])
      BY <3>2, <3>3, <3>4 DEF QueueOK
    <3> QED BY <3>1, <3>5
  <2>2. Powers(n.powerDown, n.banks)
    <3>1. 0 \in Banks
      BY GeometryAssumption DEF Banks
    <3> QED BY <1>2, <3>1 DEF Moved, Scheduled, Powers
  <2>3. ~n.cq.overflow
    BY DEF Moved, Scheduled
  <2> QED BY <1>2, <2>1, <2>2, <2>3 DEF Scheduled
<1>4. Legal(n)
  <2> SUFFICES ASSUME NEW r \in Ranks
               PROVE  /\ ~Its(n, r).rejected /\ n.powerDown[r] = Its(n, r).isPowerDown
                      /\ \A b \in Banks : Agree(n.banks[r][b], Its(n, r).banks[b])
    BY DEF Legal
  <2>1. Its(n, r) = n.ranks[r]
    BY DEF Its, BusTo, Moved
  <2>2. /\ n.ranks[r].banks = Its(m, r).banks
        /\ n.ranks[r].isPowerDown = Its(m, r).isPowerDown
        /\ n.ranks[r].rejected = Its(m, r).rejected /\ n.powerDown = m.powerDown
    BY DEF Moved
  <2>3. ~Its(m, r).rejected /\ m.powerDown[r] = Its(m, r).isPowerDown
    BY DEF Legal
  <2>4. ASSUME NEW b \in Banks PROVE Agree(n.banks[r][b], Its(m, r).banks[b])
    <3>1. Agree(m.banks[r][b], Its(m, r).banks[b])
      BY DEF Legal
    <3> HIDE DEF Its
    <3> QED BY <1>2, <3>1 DEF Agree
  <2> QED BY <2>1, <2>2, <2>3, <2>4
<1>5. DataBus(n, 0)
  <2>1. ASSUME NEW l \in Lanes
        PROVE  /\ LaneOK(BusOf(n, l), WaitingOf(n, l))
               /\ StartsOf(n, l) \subseteq Int
               /\ \A s \in StartsOf(n, l) : s + 1 \in StartsOf(m, l)
    BY MovedLanes, LanesTyped DEF Moved
  <2>2. ASSUME NEW l \in Lanes, NEW k \in Lanes, l # k,
               NEW s \in StartsOf(n, l), NEW t \in StartsOf(n, k)
        PROVE  s + Burst <= t \/ t + Burst <= s
    <3>1. s + 1 \in StartsOf(m, l) /\ t + 1 \in StartsOf(m, k) /\ s \in Int /\ t \in Int
      BY <2>1
    <3>2. (s + 1) + Burst <= t + 1 \/ (t + 1) + Burst <= s + 1
      BY <2>2, <3>1 DEF DataBus
    <3> QED BY <3>1, <3>2, Delays
  <2>3. ASSUME NEW l \in Lanes, NEW s \in StartsOf(n, l), NEW r \in Ranks, NEW b \in Banks,
               n.banks[r][b].state = "RowActive"
        PROVE  Covered(n.banks[r][b], s, 0)
    <3>1. s + 1 \in StartsOf(m, l) /\ s \in Int
      BY <2>1
    <3>2. Covered(m.banks[r][b], s + 1, 1)
      BY <1>2, <2>3, <3>1 DEF DataBus
    <3>3. m.banks[r][b].read \in Nat /\ m.banks[r][b].write \in Nat
      BY <1>1 DEF BankT
    <3> QED BY <1>2, <3>1, <3>2, <3>3, Delays DEF Covered
  <2>4. ~n.collision
    BY DEF Moved, DataBus
  <2>5. \A l \in Lanes : ~BusTo(n, l)
    BY DEF BusTo, Moved
  <2> QED BY <2>1, <2>2, <2>3, <2>4, <2>5 DEF DataBus
<1> QED BY <1>3, <1>4, <1>5

-----------------------------------------------------------------------------
(* The second half of a cycle, between the choice of a command and the     *)
(* clock.  A rank whose command is on the bus will have it in the next     *)
(* cycle, by its own clock; the others agree with the controller's table   *)
(* as they are.                                                            *)
Received(m, r) == receiveFromBus(TickRank(m.ranks[r]), m.cmd[1])

(* What Legal becomes between the two halves.                              *)
Coming(m) ==
    \A r \in Ranks :
      /\ BusTo(m, r) =>
           /\ ~Received(m, r).rejected /\ m.powerDown[r] = Received(m, r).isPowerDown
           /\ \A b \in Banks : Agree(Tick(m.banks[r][b]), Received(m, r).banks[b])
           /\ \E b \in Banks :
                m.banks[r][b].state \in {"RowActive", "Precharging", "Refreshing"}
      /\ ~BusTo(m, r) =>
           /\ ~m.ranks[r].rejected /\ m.powerDown[r] = m.ranks[r].isPowerDown
           /\ \A b \in Banks : Agree(m.banks[r][b], m.ranks[r].banks[b])

(* The invariant of the second half.                                       *)
Midway(m) == Typed(m) /\ Scheduled(m, 0) /\ Coming(m) /\ DataBus(m, 0)

(* How far a command pushes the column accesses of an open bank away.      *)
Pushed(c, n, p, r, b) ==
    /\ n.read >= c.read /\ n.write >= c.write
    /\ n.state = "RowActive" =>
         \/ c.state = "RowActive"
         \/ p.type = "ACTIVATE" /\ n.read >= T.tRCD /\ n.write >= T.tRCD
    /\ n.state = "RowActive" /\ p.type = "READ" => n.read >= Burst /\ n.write >= Burst + 2
    /\ n.state = "RowActive" /\ p.type = "WRITE" => n.read >= Burst /\ n.write >= Burst

(* BanksAfter pushes them that far.                                        *)
LEMMA PushedAfter ==
    ASSUME NEW banks \in [Ranks -> [Banks -> BankT]], NEW p, IsCommand(p),
           NEW r \in Ranks, NEW b \in Banks
    PROVE  Pushed(banks[r][b], BanksAfter(banks, p)[r][b], p, r, b)
<1> DEFINE n == BanksAfter(banks, p)[r][b]  c == banks[r][b]
<1>1. /\ c \in BankT /\ c.read \in Nat /\ c.write \in Nat /\ p.rank \in Ranks
      /\ banks[r] \in [Banks -> BankT] /\ banks[p.rank] \in [Banks -> BankT]
      /\ IsColumn(p) \/ p.type \in {"ACTIVATE", "PRECHARGE", "REFRESH"}
      /\ IsColumn(p) => p.type \in {"READ", "WRITE"}
      /\ p.type \in {"ACTIVATE", "PRECHARGE", "REFRESH"} => ~IsColumn(p)
  BY DEF BankT, IsCommand, IsColumn
<1>2. CASE r # p.rank /\ ~IsColumn(p)
  <2>1. n = c
    BY <1>2, TableAfter
  <2>2. p.type \notin {"READ", "WRITE"}
    BY <1>2 DEF IsColumn
  <2> HIDE DEF n, c
  <2> QED BY <1>1, <2>1, <2>2 DEF n, c, Pushed
<1>3. CASE r # p.rank /\ IsColumn(p)
  <2>1. n = Turnaround(c, p)
    BY <1>3, TableAfter
  <2> HIDE DEF n, c
  <2>2. /\ n.state = c.state /\ n.read >= c.read /\ n.write >= c.write
        /\ c.state = "RowActive" =>
             /\ n.read >= Burst + T.tRTRS - 1 /\ n.write >= Burst
             /\ p.type = "READ" => n.read >= Burst /\ n.write >= READ_TO_WRITE_DELAY
        /\ n \in BankT
    BY <1>1, <2>1, TurnaroundBank
  <2>3. n.read \in Nat /\ n.write \in Nat
    BY <2>2 DEF BankT
  <2>4. c.state = "RowActive" => n.read >= Burst /\ n.write >= Burst
    BY <2>2, <2>3, Delays
  <2>5. c.state = "RowActive" /\ p.type = "READ" => n.write >= Burst + 2
    BY <2>2, <2>3, Delays
  <2> QED BY <2>2, <2>4, <2>5 DEF n, c, Pushed
<1>4. CASE r = p.rank /\ IsColumn(p)
  <2>1. n = Column(banks[r], p)[b]
    BY <1>4, TableAfter
  <2>2. /\ n.state = c.state
        /\ n.read = Later(c.read, IF p.type = "READ" THEN Later(T.tCCD, Burst)
                                  ELSE WRITE_TO_READ_DELAY_B)
        /\ n.write = Later(c.write, IF p.type = "READ" THEN READ_TO_WRITE_DELAY
                                    ELSE Later(T.tCCD, Burst))
    BY <1>1, <1>4, <2>1, ColumnBanks
  <2> HIDE DEF n, c
  <2>3. Later(T.tCCD, Burst) \in Nat /\ Later(T.tCCD, Burst) >= Burst
    BY Delays, DeadlineType
  <2>4. CASE p.type = "READ"
    <3>1. /\ n.read = Later(c.read, Later(T.tCCD, Burst))
          /\ n.write = Later(c.write, READ_TO_WRITE_DELAY)
      BY <2>2, <2>4
    <3>2. n.read >= c.read /\ n.read >= Later(T.tCCD, Burst) /\ n.read \in Nat
      BY <1>1, <2>3, <3>1, DeadlineType
    <3>3. n.write >= c.write /\ n.write >= READ_TO_WRITE_DELAY /\ n.write \in Nat
      <4>1. READ_TO_WRITE_DELAY \in Nat
        BY Delays
      <4> QED BY <1>1, <3>1, <4>1, DeadlineType
    <3>4. n.read >= Burst /\ n.write >= Burst + 2
      BY <2>3, <3>2, <3>3, Delays
    <3> QED BY <2>2, <2>4, <3>2, <3>3, <3>4 DEF n, c, Pushed
  <2>5. CASE p.type = "WRITE"
    <3>1. /\ n.read = Later(c.read, WRITE_TO_READ_DELAY_B)
          /\ n.write = Later(c.write, Later(T.tCCD, Burst))
      BY <2>2, <2>5
    <3>2. n.read >= c.read /\ n.read >= WRITE_TO_READ_DELAY_B /\ n.read \in Nat
      <4>1. WRITE_TO_READ_DELAY_B \in Nat
        BY Delays
      <4> HIDE DEF WRITE_TO_READ_DELAY_B
      <4> QED BY <1>1, <3>1, <4>1, DeadlineType
    <3>3. n.write >= c.write /\ n.write >= Later(T.tCCD, Burst) /\ n.write \in Nat
      BY <1>1, <2>3, <3>1, DeadlineType
    <3>4. n.read >= Burst /\ n.write >= Burst
      BY <2>3, <3>2, <3>3, Delays
    <3> QED BY <2>2, <2>5, <3>2, <3>3, <3>4 DEF n, c, Pushed
  <2> QED BY <1>1, <1>4, <2>4, <2>5
<1>5. CASE r = p.rank /\ p.type = "ACTIVATE"
  <2>1. n = Activate(banks[r], p)[b] /\ p.row \in Nat
    BY <1>5, TableAfter DEF IsCommand
  <2>2. /\ b = p.bank => n.read = Later(c.read, T.tRCD) /\ n.write = Later(c.write, T.tRCD)
        /\ b # p.bank => n.state = c.state /\ n.read = c.read /\ n.write = c.write
    BY <1>1, <2>1, ActivateBanks
  <2> HIDE DEF n, c
  <2>3. CASE b = p.bank
    <3>1. /\ n.read >= c.read /\ n.read >= T.tRCD
          /\ n.write >= c.write /\ n.write >= T.tRCD
      <4>1. T.tRCD \in Nat
        BY Delays
      <4>2. n.read >= c.read /\ n.read >= T.tRCD
        BY <1>1, <2>2, <2>3, <4>1, DeadlineType
      <4>3. n.write >= c.write /\ n.write >= T.tRCD
        BY <1>1, <2>2, <2>3, <4>1, DeadlineType
      <4> QED BY <4>2, <4>3
    <3> QED BY <1>5, <3>1 DEF n, c, Pushed
  <2>4. CASE b # p.bank
    <3>1. n.read >= c.read /\ n.write >= c.write /\ n.state = c.state
      BY <1>1, <2>2, <2>4
    <3> QED BY <1>5, <3>1 DEF n, c, Pushed
  <2> QED BY <2>3, <2>4
<1>6. CASE r = p.rank /\ p.type = "PRECHARGE"
  <2>1. n = IF b = p.bank THEN Closing(c) ELSE c
    BY <1>6, TableAfter
  <2> HIDE DEF c
  <2>2. n.read = c.read /\ n.write = c.write /\ (n.state = c.state \/ n.state = "Precharging")
    BY <1>1, <2>1, ClosingBank
  <2> HIDE DEF n
  <2>3. n.read >= c.read /\ n.write >= c.write
    BY <1>1, <2>2
  <2> QED BY <1>6, <2>2, <2>3 DEF n, c, Pushed
<1>7. CASE r = p.rank /\ p.type = "REFRESH"
  <2>1. n = Renewing(c)
    BY <1>7, TableAfter
  <2> HIDE DEF c
  <2>2. n.read = c.read /\ n.write = c.write /\ n.state = "Refreshing"
    BY <1>1, <2>1, ClosingBank
  <2> HIDE DEF n
  <2>3. n.read >= c.read /\ n.write >= c.write
    BY <1>1, <2>2
  <2> QED BY <1>7, <2>2, <2>3 DEF n, c, Pushed
<1> QED BY <1>1, <1>2, <1>3, <1>4, <1>5, <1>6, <1>7

(* Without a command on the bus, no burst starts later than a read latency *)
(* from now.                                                               *)
LEMMA StartsBounded ==
    ASSUME NEW m, Typed(m), m.cmd = <<>>, NEW l \in Lanes, LaneOK(BusOf(m, l), WaitingOf(m, l)),
           NEW s \in StartsOf(m, l)
    PROVE  s \in Int /\ s <= RL
<1>1. s \in Starts(BusOf(m, l), WaitingOf(m, l)) /\ s \in Int
  BY LanesTyped DEF StartsOf, BusTo
<1>2. CASE \E i \in DOMAIN BusOf(m, l) : s = BusOf(m, l)[i].left - Burst
  <2>1. PICK i \in DOMAIN BusOf(m, l) : s = BusOf(m, l)[i].left - Burst
    BY <1>2
  <2>2. BusOf(m, l)[i].left \in 1 .. Burst /\ Burst \in Nat /\ RL \in Nat
    BY Delays DEF LaneOK
  <2> QED BY <1>1, <2>1, <2>2
<1>3. CASE \E i \in DOMAIN WaitingOf(m, l) : s = WaitingOf(m, l)[i].left
  BY <1>1, <1>3, Delays DEF LaneOK
<1> QED BY <1>1, <1>2, <1>3 DEF Starts

(* What Issue does to the channel, with a command p and the queue cq left. *)
Issued(m, n, p, cq) ==
    /\ Same(m, n, {"cq", "banks", "writeData", "collision", "cmd"})
    /\ n.cq = cq /\ n.banks = BanksAfter(m.banks, p) /\ n.cmd = <<p>>
    /\ n.writeData = IF p.type = "WRITE" THEN Append(m.writeData, [addr |-> p.addr, left |-> WL])
                     ELSE m.writeData
    /\ n.collision => m.collision

(* Issue does that and no more when the bus is free.                       *)
LEMMA IssueIs ==
    ASSUME NEW m, DOMAIN m = ChannelFields, m.cmd = <<>>, NEW x
    PROVE  Issued(m, Issue(m, x), x.packet, x.cq)
<1> DEFINE n == Issue(m, x)
<1>1. n = [m EXCEPT !.cq = x.cq, !.banks = BanksAfter(m.banks, x.packet),
                    !.writeData = IF x.packet.type = "WRITE"
                                  THEN Append(m.writeData, [addr |-> x.packet.addr, left |-> WL])
                                  ELSE m.writeData,
                    !.collision = m.collision \/ m.cmd # <<>>, !.cmd = <<x.packet>>]
  BY DEF Issue
<1>2. Same(m, n, {"cq", "banks", "writeData", "collision", "cmd"})
  BY <1>1 DEF Same, ChannelFields
<1>3. /\ n.cq = x.cq /\ n.banks = BanksAfter(m.banks, x.packet) /\ n.cmd = <<x.packet>>
      /\ n.writeData = IF x.packet.type = "WRITE"
                       THEN Append(m.writeData, [addr |-> x.packet.addr, left |-> WL])
                       ELSE m.writeData
      /\ n.collision = (m.collision \/ m.cmd # <<>>)
  BY <1>1 DEF ChannelFields
<1> HIDE DEF n
<1> QED BY <1>2, <1>3 DEF n, Issued

(* The data bus after a command.  An access that may go now finds all the  *)
(* bursts under way over by the time its own starts.                       *)
LEMMA IssuedBus ==
    ASSUME NEW m, NEW n, NEW p, NEW cq, Typed(m), Typed(n), DataBus(m, 0), m.cmd = <<>>,
           Issued(m, n, p, cq), IsCommand(p), Sendable(m.banks, p)
    PROVE  DataBus(n, 0)
<1>1. /\ n.cmd = <<p>> /\ n.ranks = m.ranks /\ n.data = m.data /\ n.banks = BanksAfter(m.banks, p)
      /\ n.writeData = IF p.type = "WRITE" THEN Append(m.writeData, [addr |-> p.addr, left |-> WL])
                       ELSE m.writeData
      /\ n.collision => m.collision
  BY DEF Issued, Same, ChannelFields
<1>2. /\ m.banks \in [Ranks -> [Banks -> BankT]] /\ n.banks \in [Ranks -> [Banks -> BankT]]
      /\ p.rank \in Ranks /\ p.bank \in Banks
  BY DEF Typed, IsCommand
<1>3. \A r \in Ranks, b \in Banks : Pushed(m.banks[r][b], n.banks[r][b], p, r, b)
  BY <1>1, <1>2, PushedAfter
<1>4. \A r \in Ranks, b \in Banks :
        /\ m.banks[r][b].read \in Nat /\ m.banks[r][b].write \in Nat
        /\ n.banks[r][b].read \in Nat /\ n.banks[r][b].write \in Nat
  <2>1. \A r \in Ranks, b \in Banks : m.banks[r][b] \in BankT /\ n.banks[r][b] \in BankT
    BY <1>2
  <2> QED BY <2>1 DEF BankT
<1>5. ASSUME NEW l \in Lanes
      PROVE  /\ BusOf(n, l) = BusOf(m, l) /\ LaneOK(BusOf(m, l), WaitingOf(m, l))
             /\ l # NUM_RANKS \/ p.type # "WRITE" => WaitingOf(n, l) = WaitingOf(m, l)
             /\ StartsOf(m, l) = Starts(BusOf(m, l), WaitingOf(m, l))
             /\ \A s \in StartsOf(m, l) : s \in Int /\ s <= RL
  <2>1. /\ BusOf(n, l) = BusOf(m, l)
        /\ l # NUM_RANKS \/ p.type # "WRITE" => WaitingOf(n, l) = WaitingOf(m, l)
    BY <1>1 DEF BusOf, WaitingOf
  <2>2. LaneOK(BusOf(m, l), WaitingOf(m, l))
    BY DEF DataBus
  <2>3. StartsOf(m, l) = Starts(BusOf(m, l), WaitingOf(m, l))
    BY DEF StartsOf, BusTo
  <2>4. \A s \in StartsOf(m, l) : s \in Int /\ s <= RL
    BY <2>2, StartsBounded
  <2> QED BY <2>1, <2>2, <2>3, <2>4
<1>6. \A l \in Lanes : BusTo(n, l) <=> l = p.rank
  BY <1>1 DEF BusTo
<1>7. p.rank # NUM_RANKS /\ p.rank \in Lanes /\ NUM_RANKS \in Lanes
  BY <1>2, GeometryAssumption DEF Ranks, Lanes
<1>8. /\ RL \in Nat /\ WL \in Nat /\ WL > 0 /\ RL = WL + 1 /\ Burst \in Nat /\ Burst > 0
      /\ T.tRCD \in Nat /\ T.tRCD >= Burst + 1
  <2> DEFINE y == T.tRCD  z == T.tRTRS
  <2>1. /\ RL \in Nat /\ WL \in Nat /\ WL > 0 /\ RL = WL + 1 /\ Burst \in Nat /\ Burst > 0
        /\ y \in Nat /\ z \in Nat /\ z > 0 /\ y >= Burst + z
    BY Delays
  <2> HIDE DEF y, z
  <2>2. y >= Burst + 1
    BY <2>1
  <2> QED BY <2>1, <2>2 DEF y
<1>9. ~n.collision
  BY <1>1 DEF DataBus
<1> HIDE DEF Lanes
\* The start of the access that is sent, if it is one.
<1> DEFINE new == IF p.type = "READ" THEN RL + 1 ELSE WL
<1>10. ASSUME IsColumn(p) PROVE \A l \in Lanes : \A s \in StartsOf(m, l) : s + Burst <= new
  <2> DEFINE c == m.banks[p.rank][p.bank]
  <2>1. /\ c.state = "RowActive"
        /\ p.type = "READ" => c.read = 0
        /\ p.type = "WRITE" => c.write = 0
        /\ p.type \in {"READ", "WRITE"}
    BY <1>10 DEF Sendable, Allowed, IsColumn
  <2>2. \A l \in Lanes : \A s \in StartsOf(m, l) : Covered(c, s, 0)
    BY <1>2, <2>1 DEF DataBus
  <2> SUFFICES ASSUME NEW l \in Lanes, NEW s \in StartsOf(m, l) PROVE s + Burst <= new
    OBVIOUS
  <2>3. Covered(c, s, 0) /\ s \in Int
    BY <1>5, <2>2
  <2> HIDE DEF c
  <2> QED BY <1>8, <2>1, <2>3 DEF Covered
<1>11. ASSUME IsColumn(p), NEW r \in Ranks, NEW b \in Banks, n.banks[r][b].state = "RowActive"
       PROVE  Covered(n.banks[r][b], new, 0)
  <2> DEFINE d == n.banks[r][b]
  <2>1. /\ p.type = "READ" => d.read >= Burst /\ d.write >= Burst + 2
        /\ p.type = "WRITE" => d.read >= Burst /\ d.write >= Burst
        /\ p.type \in {"READ", "WRITE"}
    BY <1>3, <1>11 DEF Pushed, IsColumn
  <2>2. d.read \in Nat /\ d.write \in Nat
    BY <1>4
  <2> HIDE DEF d
  <2>3. Covered(d, new, 0)
    BY <1>8, <2>1, <2>2 DEF Covered
  <2> QED BY <2>3 DEF d
<1>12. ASSUME NEW l \in Lanes, NEW s \in StartsOf(m, l), NEW r \in Ranks, NEW b \in Banks,
              n.banks[r][b].state = "RowActive"
       PROVE  Covered(n.banks[r][b], s, 0)
  <2> DEFINE c == m.banks[r][b]  d == n.banks[r][b]
  <2>1. /\ d.read >= c.read /\ d.write >= c.write
        /\ c.state = "RowActive" \/ (d.read >= T.tRCD /\ d.write >= T.tRCD)
    BY <1>3, <1>12 DEF Pushed
  <2>2. c.read \in Nat /\ c.write \in Nat /\ d.read \in Nat /\ d.write \in Nat
    BY <1>4
  <2>3. s \in Int /\ s <= RL
    BY <1>5
  <2>4. c.state = "RowActive" => Covered(c, s, 0)
    BY DEF DataBus
  <2> HIDE DEF c, d
  <2>5. Covered(d, s, 0)
    <3>1. CASE c.state = "RowActive"
      <4>1. c.write + WL + 0 >= s + Burst /\ c.read + RL + 1 + 0 >= s + Burst
        BY <2>4, <3>1 DEF Covered
      <4>2. d.write + WL + 0 >= s + Burst /\ d.read + RL + 1 + 0 >= s + Burst
        <5> DEFINE x == d.write  y == d.read  x0 == c.write  y0 == c.read
        <5>1. /\ x \in Nat /\ y \in Nat /\ x0 \in Nat /\ y0 \in Nat /\ x >= x0 /\ y >= y0
              /\ x0 + WL + 0 >= s + Burst /\ y0 + RL + 1 + 0 >= s + Burst
          BY <2>1, <2>2, <4>1
        <5> HIDE DEF x, y, x0, y0
        <5>2. RL \in Nat /\ WL \in Nat /\ Burst \in Nat /\ s \in Int
          BY <1>8, <2>3
        <5>3. x + WL + 0 >= s + Burst /\ y + RL + 1 + 0 >= s + Burst
          BY <5>1, <5>2
        <5> QED BY <5>3 DEF x, y
      <4> QED BY <4>2 DEF Covered
    <3>2. CASE d.read >= T.tRCD /\ d.write >= T.tRCD
      <4>1. d.write + WL + 0 >= s + Burst /\ d.read + RL + 1 + 0 >= s + Burst
        <5> DEFINE x == d.write  y == d.read  z == T.tRCD
        <5>1. x \in Nat /\ y \in Nat /\ z \in Nat /\ x >= z /\ y >= z /\ z >= Burst + 1
          BY <1>8, <2>2, <3>2
        <5> HIDE DEF RL, WL, Burst, x, y, z
        <5>2. x + WL + 0 >= s + Burst /\ y + RL + 1 + 0 >= s + Burst
          BY <1>8, <2>3, <5>1
        <5> QED BY <5>2 DEF x, y
      <4> QED BY <4>1 DEF Covered
    <3> QED BY <2>1, <3>1, <3>2
  <2> QED BY <2>5 DEF d
\* The lane the new access enters; the other lanes are as they were.
<1> DEFINE mine == IF p.type = "READ" THEN p.rank ELSE NUM_RANKS
<1>13. ASSUME NEW l \in Lanes
       PROVE  /\ LaneOK(BusOf(n, l), WaitingOf(n, l))
              /\ \A s \in StartsOf(n, l) :
                   s \in StartsOf(m, l) \/ (IsColumn(p) /\ l = mine /\ s = new)
  <2>1. CASE p.type = "WRITE" /\ l = NUM_RANKS
    <3> DEFINE x == [addr |-> p.addr, left |-> WL]
    <3>1. x \in BurstT /\ x.left = WL /\ WL \in 1 .. RL
      <4>1. p.addr \in Addrs
        BY <2>1 DEF IsCommand
      <4> QED BY <1>8, <4>1 DEF BurstT
    <3>2. /\ BusOf(m, l) \in Seq(BurstT) /\ WaitingOf(m, l) \in Seq(BurstT)
          /\ WaitingOf(n, l) = Append(WaitingOf(m, l), x)
      BY <1>1, <2>1, LanesTyped DEF WaitingOf
    <3>3. IsColumn(p) /\ \A s \in Starts(BusOf(m, l), WaitingOf(m, l)) : s + Burst <= WL
      BY <1>5, <1>10, <2>1 DEF IsColumn
    <3> HIDE DEF x
    <3>4. /\ LaneOK(BusOf(m, l), Append(WaitingOf(m, l), x))
          /\ Starts(BusOf(m, l), Append(WaitingOf(m, l), x)) =
               Starts(BusOf(m, l), WaitingOf(m, l)) \cup {x.left}
      BY <1>5, <3>1, <3>2, <3>3, LaneAppend
    <3>5. StartsOf(n, l) = Starts(BusOf(n, l), WaitingOf(n, l))
      BY <1>6, <1>7, <2>1 DEF StartsOf
    <3> QED BY <1>5, <2>1, <3>1, <3>2, <3>3, <3>4, <3>5
  <2>2. CASE ~(p.type = "WRITE" /\ l = NUM_RANKS)
    <3>1. BusOf(n, l) = BusOf(m, l) /\ WaitingOf(n, l) = WaitingOf(m, l)
      BY <1>5, <2>2
    <3>2. StartsOf(n, l) = StartsOf(m, l)
                           \cup (IF l = p.rank /\ p.type = "READ" THEN {RL + 1} ELSE {})
      BY <1>1, <1>5, <1>6, <3>1 DEF StartsOf
    <3>3. p.type = "READ" => IsColumn(p)
      BY DEF IsColumn
    <3> QED BY <1>5, <3>1, <3>2, <3>3
  <2> QED BY <2>1, <2>2
<1>14. ASSUME NEW l \in Lanes PROVE StartsOf(n, l) \subseteq Int
  BY LanesTyped
<1>15. new \in Int
  BY <1>8
<1>16. ASSUME NEW l \in Lanes, NEW k \in Lanes, l # k,
              NEW s \in StartsOf(n, l), NEW t \in StartsOf(n, k)
       PROVE  s + Burst <= t \/ t + Burst <= s
  <2>1. s \in StartsOf(m, l) \/ (IsColumn(p) /\ l = mine /\ s = new)
    BY <1>13
  <2>2. t \in StartsOf(m, k) \/ (IsColumn(p) /\ k = mine /\ t = new)
    BY <1>13
  <2> HIDE DEF mine, new
  <2>3. CASE s \in StartsOf(m, l) /\ t \in StartsOf(m, k)
    BY <1>16, <2>3 DEF DataBus
  <2>4. CASE s \in StartsOf(m, l) /\ IsColumn(p) /\ t = new
    BY <1>10, <2>4
  <2>5. CASE t \in StartsOf(m, k) /\ IsColumn(p) /\ s = new
    BY <1>10, <2>5
  <2> QED BY <1>16, <2>1, <2>2, <2>3, <2>4, <2>5
<1>17. ASSUME NEW l \in Lanes, BusTo(n, l), n.cmd[1].type = "READ",
              NEW s \in Starts(BusOf(n, l), WaitingOf(n, l))
       PROVE  s + Burst <= RL + 1
  <2>1. p.type = "READ" /\ IsColumn(p)
    BY <1>1, <1>17 DEF IsColumn
  <2>2. s \in StartsOf(m, l)
    BY <1>5, <1>17, <2>1
  <2> QED BY <1>10, <2>1, <2>2
<1>18. ASSUME NEW l \in Lanes, NEW s \in StartsOf(n, l), NEW r \in Ranks, NEW b \in Banks,
              n.banks[r][b].state = "RowActive"
       PROVE  Covered(n.banks[r][b], s, 0)
  <2> HIDE DEF mine, new
  <2>1. CASE s \in StartsOf(m, l)
    BY <1>12, <1>18, <2>1
  <2>2. CASE IsColumn(p) /\ s = new
    BY <1>11, <1>18, <2>2
  <2> QED BY <1>13, <2>1, <2>2
<1> HIDE DEF mine, new
<1> QED BY <1>9, <1>13, <1>16, <1>17, <1>18 DEF DataBus

(* A rank's own clock.                                                     *)
LEMMA TickRankIs ==
    ASSUME NEW v \in RankT
    PROVE  /\ TickRank(v) \in RankT
           /\ \A b \in Banks : TickRank(v).banks[b] = Tick(v.banks[b])
           /\ TickRank(v).isPowerDown = v.isPowerDown /\ TickRank(v).rejected = v.rejected
           /\ TickRank(v).outgoing = v.outgoing /\ TickRank(v).readReturn = v.readReturn
<1> DEFINE t == [b \in Banks |-> Tick(v.banks[b])]
<1>1. v.banks \in [Banks -> BankT]
  BY DEF RankT
<1>2. t \in [Banks -> BankT] /\ \A b \in Banks : t[b] = Tick(v.banks[b])
  BY <1>1, TickBank
<1>3. TickRank(v) = [v EXCEPT !.banks = t]
  BY DEF TickRank
<1> HIDE DEF t
<1> QED BY <1>2, <1>3 DEF RankT

(* A cycle without a command.                                              *)
LEMMA QuietMidway ==
    ASSUME NEW m, Typed(m), Scheduled(m, 0), Legal(m), DataBus(m, 0), m.cmd = <<>>
    PROVE  Midway(m)
<1>1. \A r \in Ranks : ~BusTo(m, r) /\ Its(m, r) = m.ranks[r]
  BY DEF BusTo, Its
<1>2. ASSUME NEW r \in Ranks
      PROVE  /\ ~m.ranks[r].rejected /\ m.powerDown[r] = m.ranks[r].isPowerDown
             /\ \A b \in Banks : Agree(m.banks[r][b], m.ranks[r].banks[b])
  <2>1. /\ ~Its(m, r).rejected /\ m.powerDown[r] = Its(m, r).isPowerDown
        /\ \A b \in Banks : Agree(m.banks[r][b], Its(m, r).banks[b])
    BY DEF Legal
  <2> QED BY <1>1, <2>1
<1>3. Coming(m)
  BY <1>1, <1>2 DEF Coming
<1> QED BY <1>3 DEF Midway

(* A cycle with a command: whatever pop chooses, the rank will allow it    *)
(* when it arrives.                                                        *)
LEMMA IssueMidway ==
    ASSUME NEW m, Typed(m), Scheduled(m, 0), Legal(m), DataBus(m, 0), m.cmd = <<>>,
           NEW x \in pop(m.cq, m.banks)
    PROVE  Midway(Issue(m, x))
<1> DEFINE n == Issue(m, x)  p == x.packet  q == x.cq
<1>1. /\ DOMAIN m = ChannelFields /\ m.ranks \in [Ranks -> RankT]
      /\ m.banks \in [Ranks -> [Banks -> BankT]] /\ QueueTyped(m.cq)
      /\ m.powerDown \in [Ranks -> BOOLEAN] /\ m.refreshRank \in Ranks
      /\ m.data \in Seq(BurstT) /\ m.writeData \in Seq(BurstT)
      /\ m.pendingTransactions \in Seq(TransactionT) /\ m.transactionQueue \in Seq(TransactionT)
  BY DEF Typed
<1>2. QueuesOK(m.cq, m.banks) /\ Settled(m.banks, 0) /\ Powers(m.powerDown, m.banks)
  BY <1>1 DEF Scheduled, QueuesOK, Settled
<1>3. Chosen(m.cq, m.banks, p, q)
  BY <1>2, PopIs
<1>4. Issued(m, n, p, q)
  BY <1>1, IssueIs
<1> HIDE DEF n, p, q
<1>5. IsCommand(p) /\ Sendable(m.banks, p) /\ p.rank \in Ranks
  BY <1>2, <1>3, ChosenSendable DEF IsCommand
<1>6. /\ QueuesOK(q, BanksAfter(m.banks, p)) /\ Settled(BanksAfter(m.banks, p), 0)
      /\ Powers(m.powerDown, BanksAfter(m.banks, p))
      /\ \E b \in Banks : BanksAfter(m.banks, p)[p.rank][b].state
                            \in {"RowActive", "Precharging", "Refreshing"}
  BY <1>2, <1>3, ChosenKeepsOrder
<1>7. /\ DOMAIN n = ChannelFields /\ n.ranks = m.ranks /\ n.powerDown = m.powerDown
      /\ n.refreshRank = m.refreshRank /\ n.data = m.data
      /\ n.pendingTransactions = m.pendingTransactions
      /\ n.transactionQueue = m.transactionQueue
      /\ n.cq = q /\ n.banks = BanksAfter(m.banks, p) /\ n.cmd = <<p>>
  BY <1>4 DEF Issued, Same, ChannelFields
<1>8. n.writeData \in Seq(BurstT)
  <2>1. CASE p.type = "WRITE"
    <3>1. [addr |-> p.addr, left |-> WL] \in BurstT
      BY <1>5, <2>1, Delays DEF IsCommand, BurstT
    <3>2. n.writeData = Append(m.writeData, [addr |-> p.addr, left |-> WL])
      BY <1>4, <2>1 DEF Issued
    <3> QED BY <1>1, <3>1, <3>2
  <2>2. CASE p.type # "WRITE"
    BY <1>1, <1>4, <2>2 DEF Issued
  <2> QED BY <2>1, <2>2
<1>9. Typed(n)
  <2>1. n.cmd[1] = p
    BY <1>7
  <2>2. QueueTyped(q) /\ BanksAfter(m.banks, p) \in [Ranks -> [Banks -> BankT]]
    BY <1>6 DEF QueuesOK
  <2> QED BY <1>1, <1>5, <1>7, <1>8, <2>1, <2>2 DEF Typed
<1>10. Scheduled(n, 0)
  <2>1. ~q.overflow
    BY <1>3 DEF Chosen, Kept, Scheduled
  <2> QED BY <1>6, <1>7, <2>1 DEF Scheduled, QueuesOK, Settled
<1>11. DataBus(n, 0)
  BY <1>4, <1>5, <1>9, IssuedBus
<1>12. \A r \in Ranks : ~BusTo(m, r) /\ Its(m, r) = m.ranks[r]
  BY DEF BusTo, Its
<1>13. ASSUME NEW r \in Ranks
       PROVE  /\ ~m.ranks[r].rejected /\ m.powerDown[r] = m.ranks[r].isPowerDown
              /\ \A b \in Banks : Agree(m.banks[r][b], m.ranks[r].banks[b])
  <2>1. /\ ~Its(m, r).rejected /\ m.powerDown[r] = Its(m, r).isPowerDown
        /\ \A b \in Banks : Agree(m.banks[r][b], Its(m, r).banks[b])
    BY DEF Legal
  <2> QED BY <1>12, <2>1
<1>14. ASSUME NEW r \in Ranks, BusTo(n, r)
       PROVE  /\ ~Received(n, r).rejected /\ n.powerDown[r] = Received(n, r).isPowerDown
              /\ \A b \in Banks : Agree(Tick(n.banks[r][b]), Received(n, r).banks[b])
              /\ \E b \in Banks :
                   n.banks[r][b].state \in {"RowActive", "Precharging", "Refreshing"}
  <2> DEFINE v == m.ranks[r]  t == TickRank(v)
  <2>1. p.rank = r /\ n.cmd[1] = p
    BY <1>7, <1>14 DEF BusTo
  <2>2. v \in RankT /\ v.banks \in [Banks -> BankT]
    BY <1>1 DEF RankT
  <2>3. /\ ~v.rejected /\ m.powerDown[r] = v.isPowerDown
        /\ \A b \in Banks : Agree(m.banks[r][b], v.banks[b])
    BY <1>13
  <2> HIDE DEF v
  <2>4. /\ t \in RankT /\ \A b \in Banks : t.banks[b] = Tick(v.banks[b])
        /\ t.isPowerDown = v.isPowerDown /\ t.rejected = v.rejected
    BY <2>2, TickRankIs
  <2>5. Received(n, r) = receiveFromBus(t, p)
    BY <1>7, <2>1 DEF Received, v
  <2> HIDE DEF t
  <2>6. t.banks \in [Banks -> BankT]
    BY <2>4 DEF RankT
  <2>7. /\ receiveFromBus(t, p).banks = RankBanksAfter(t.banks, p)
        /\ receiveFromBus(t, p).isPowerDown = t.isPowerDown
        /\ receiveFromBus(t, p).rejected = (t.rejected \/ Rejects(t.banks, p))
    BY <1>5, <2>4, ReceiveIs
  <2>8. /\ ~Rejects(t.banks, p)
        /\ \A b \in Banks :
             Agree(Tick(BanksAfter(m.banks, p)[p.rank][b]), RankBanksAfter(t.banks, p)[b])
    BY <1>1, <1>5, <2>1, <2>2, <2>3, <2>4, <2>6, AgreeAfter
  <2> QED BY <1>6, <1>7, <2>1, <2>3, <2>4, <2>5, <2>7, <2>8
<1>15. ASSUME NEW r \in Ranks, ~BusTo(n, r)
       PROVE  /\ ~n.ranks[r].rejected /\ n.powerDown[r] = n.ranks[r].isPowerDown
              /\ \A b \in Banks : Agree(n.banks[r][b], n.ranks[r].banks[b])
  <2>1. r # p.rank
    BY <1>7, <1>15 DEF BusTo
  <2>2. ASSUME NEW b \in Banks PROVE Agree(n.banks[r][b], m.ranks[r].banks[b])
    <3> DEFINE c == m.banks[r][b]  d == n.banks[r][b]  k == m.ranks[r].banks[b]
    <3>1. c \in BankT /\ k \in BankT /\ Agree(c, k)
      <4>1. m.ranks[r] \in RankT
        BY <1>1
      <4> QED BY <1>1, <1>13, <4>1 DEF RankT
    <3>2. CASE ~IsColumn(p)
      <4>1. BanksAfter(m.banks, p)[r] = m.banks[r]
        <5> DEFINE old == m.banks
        <5>1. old \in [Ranks -> [Banks -> BankT]] /\ IsCommand(p)
          BY <1>1, <1>5
        <5> HIDE DEF old
        <5>2. \A s \in Ranks : s # p.rank /\ ~IsColumn(p) => BanksAfter(old, p)[s] = old[s]
          BY <5>1, TableAfter
        <5>3. BanksAfter(old, p)[r] = old[r]
          BY <2>1, <3>2, <5>2
        <5> QED BY <5>3 DEF old
      <4>2. d = c
        BY <1>7, <4>1
      <4> QED BY <3>1, <4>2
    <3>3. CASE IsColumn(p)
      <4>1. d = Turnaround(c, p)
        BY <1>1, <1>5, <1>7, <2>1, <3>3, TableAfter
      <4> HIDE DEF c, d, k
      <4>2. /\ d.state = c.state /\ d.row = c.row /\ d.activate = c.activate
            /\ d.powerUp = c.powerUp /\ d.precharge = c.precharge
            /\ d.read >= c.read /\ d.write >= c.write /\ d \in BankT
        BY <3>1, <4>1, TurnaroundBank
      <4>3. /\ c.read \in Nat /\ c.write \in Nat /\ d.read \in Nat /\ d.write \in Nat
            /\ k.read \in Nat /\ k.write \in Nat
        BY <3>1, <4>2 DEF BankT
      <4>4. k.read <= d.read + 1 /\ k.write <= d.write + 1
        BY <3>1, <4>2, <4>3 DEF Agree
      <4>5. Agree(d, k)
        BY <3>1, <4>2, <4>4 DEF Agree
      <4> QED BY <4>5 DEF d, k
    <3> QED BY <3>2, <3>3
  <2> QED BY <1>7, <1>13, <2>2
<1>16. Coming(n)
  BY <1>14, <1>15 DEF Coming
<1> QED BY <1>9, <1>10, <1>11, <1>16 DEF Midway, n

(* A step that leaves the ranks, the banks and the buses alone.            *)
LEMMA MidwayKept ==
    ASSUME NEW m, NEW n, Midway(m),
           Same(m, n, {"cq", "transactionQueue", "pendingReadTransactions", "returnTransaction",
                       "done"}),
           n.transactionQueue \in Seq(TransactionT), QueueTyped(n.cq), ~n.cq.overflow,
           \A r \in Ranks : QueueOK(n.cq.queues[r], m.banks[r], n.cq.rowAccessCounters[r])
    PROVE  Midway(n)
<1>1. /\ DOMAIN n = ChannelFields /\ n.ranks = m.ranks /\ n.banks = m.banks
      /\ n.powerDown = m.powerDown /\ n.refreshRank = m.refreshRank /\ n.cmd = m.cmd
      /\ n.data = m.data /\ n.writeData = m.writeData
      /\ n.pendingTransactions = m.pendingTransactions /\ n.collision = m.collision
  BY DEF Same, ChannelFields
<1>2. Typed(n)
  BY <1>1 DEF Midway, Typed
<1>3. Scheduled(n, 0)
  BY <1>1 DEF Midway, Scheduled
<1>4. \A r : (BusTo(n, r) <=> BusTo(m, r)) /\ Received(n, r) = Received(m, r)
  BY <1>1 DEF BusTo, Received
<1>5. Coming(n)
  BY <1>1, <1>4 DEF Midway, Coming
<1>6. \A l : /\ BusOf(n, l) = BusOf(m, l) /\ WaitingOf(n, l) = WaitingOf(m, l)
             /\ StartsOf(n, l) = StartsOf(m, l)
  BY <1>1, <1>4 DEF BusOf, WaitingOf, StartsOf
<1>7. DataBus(n, 0)
  <2>1. DataBus(m, 0)
    BY DEF Midway
  <2> HIDE DEF BusOf, WaitingOf, StartsOf, BusTo
  <2> QED BY <1>1, <1>4, <1>6, <2>1 DEF DataBus
<1> QED BY <1>2, <1>3, <1>5, <1>7 DEF Midway

(* A packet made from an address.                                          *)
LEMMA PacketIs ==
    ASSUME NEW a \in Addrs, NEW type \in {"READ", "WRITE", "ACTIVATE"}
    PROVE  /\ Location[a].rank \in Ranks
           /\ BusPacket(type, a) \in PacketT(Location[a].rank)
           /\ BusPacket(type, a).type = type /\ BusPacket(type, a).addr = a
           /\ BusPacket(type, a).rank = Location[a].rank
<1>1. Location[a] \in [rank : Ranks, bank : Banks, row : Nat]
  BY LocationAssumption
<1> QED BY <1>1 DEF BusPacket, PacketT

(* Two packets for the same rank enter its queue.                          *)
LEMMA EnqueueTwice ==
    ASSUME NEW cq, QueueTyped(cq), ~cq.overflow, NEW r \in Ranks,
           NEW act \in PacketT(r), NEW column \in PacketT(r),
           Len(cq.queues[r]) + 2 <= CMD_QUEUE_DEPTH
    PROVE  LET n == enqueue(enqueue(cq, act), column)
           IN /\ DOMAIN n = QueueFields /\ ~n.overflow /\ DOMAIN n.queues = Ranks
              /\ n.rowAccessCounters = cq.rowAccessCounters
              /\ n.refreshWaiting = cq.refreshWaiting /\ n.refreshRank = cq.refreshRank
              /\ n.queues[r] = Append(Append(cq.queues[r], act), column)
              /\ \A s \in Ranks : s # r => n.queues[s] = cq.queues[s]
<1>1. act.rank = r /\ column.rank = r
  BY DEF PacketT
<1>2. DOMAIN cq = QueueFields /\ DOMAIN cq.queues = Ranks /\ cq.queues[r] \in Seq(PacketT(r))
  BY DEF QueueTyped
<1> DEFINE c == enqueue(cq, act)  n == enqueue(c, column)
<1>3. c = [cq EXCEPT !.queues = [cq.queues EXCEPT ![r] = Append(cq.queues[r], act)],
                     !.overflow = cq.overflow \/ Len(cq.queues[r]) >= CMD_QUEUE_DEPTH]
  BY <1>1 DEF enqueue
<1>4. /\ DOMAIN c = QueueFields /\ DOMAIN c.queues = Ranks
      /\ c.queues[r] = Append(cq.queues[r], act)
      /\ \A s \in Ranks : s # r => c.queues[s] = cq.queues[s]
      /\ c.overflow = (cq.overflow \/ Len(cq.queues[r]) >= CMD_QUEUE_DEPTH)
      /\ c.rowAccessCounters = cq.rowAccessCounters
      /\ c.refreshWaiting = cq.refreshWaiting /\ c.refreshRank = cq.refreshRank
  BY <1>2, <1>3 DEF QueueFields
<1> HIDE DEF c
<1>5. n = [c EXCEPT !.queues = [c.queues EXCEPT ![r] = Append(c.queues[r], column)],
                    !.overflow = c.overflow \/ Len(c.queues[r]) >= CMD_QUEUE_DEPTH]
  BY <1>1 DEF enqueue
<1>6. /\ DOMAIN n = QueueFields /\ DOMAIN n.queues = Ranks
      /\ n.queues[r] = Append(c.queues[r], column)
      /\ \A s \in Ranks : s # r => n.queues[s] = c.queues[s]
      /\ n.overflow = (c.overflow \/ Len(c.queues[r]) >= CMD_QUEUE_DEPTH)
      /\ n.rowAccessCounters = c.rowAccessCounters
      /\ n.refreshWaiting = c.refreshWaiting /\ n.refreshRank = c.refreshRank
  BY <1>4, <1>5 DEF QueueFields
<1> HIDE DEF n
<1>7. Len(c.queues[r]) = Len(cq.queues[r]) + 1 /\ Len(cq.queues[r]) \in Nat
  BY <1>2, <1>4
<1>8. ~n.overflow
  <2>1. ~(Len(cq.queues[r]) >= CMD_QUEUE_DEPTH) /\ ~(Len(c.queues[r]) >= CMD_QUEUE_DEPTH)
    BY <1>7, CommandQueueAssumption
  <2> QED BY <1>4, <1>6, <2>1
<1> QED BY <1>4, <1>6, <1>8 DEF n, c

(* A transaction becomes two packets, and the queue has room for them.     *)
LEMMA ScheduleMidway ==
    ASSUME NEW m, Midway(m)
    PROVE  Midway(ScheduleTransaction(m))
<1> DEFINE q == m.transactionQueue
           fits == {i \in DOMAIN q : hasRoomFor(m.cq, 2, Location[q[i].addr].rank)}
           i == Min(fits)
           t == q[i]
           type == IF t.isRead THEN "READ" ELSE "WRITE"
           act == BusPacket("ACTIVATE", t.addr)
           column == BusPacket(type, t.addr)
           n == ScheduleTransaction(m)
<1>1. /\ q \in Seq(TransactionT) /\ DOMAIN q = 1 .. Len(q) /\ Len(q) \in Nat
      /\ DOMAIN m = ChannelFields /\ QueueTyped(m.cq) /\ ~m.cq.overflow
      /\ m.banks \in [Ranks -> [Banks -> BankT]]
      /\ \A r \in Ranks : QueueOK(m.cq.queues[r], m.banks[r], m.cq.rowAccessCounters[r])
  BY DEF Midway, Typed, Scheduled
<1>2. CASE fits = {}
  BY <1>2 DEF ScheduleTransaction
<1>3. CASE fits # {}
  <2>1. i \in DOMAIN q /\ hasRoomFor(m.cq, 2, Location[t.addr].rank)
    <3>1. fits \in SUBSET Nat
      BY <1>1
    <3> HIDE DEF fits
    <3>2. i \in fits
      BY <1>3, <3>1, MinIsLeast
    <3> QED BY <3>2 DEF fits
  <2>2. n = [m EXCEPT !.transactionQueue = RemoveAt(q, i),
                      !.pendingReadTransactions = PendingReads(m, t),
                      !.cq = enqueue(enqueue(m.cq, act), column)]
    BY <1>3 DEF ScheduleTransaction
  <2> HIDE DEF fits, i, n
  <2>3. t.addr \in Addrs
    <3>1. t \in TransactionT
      BY <1>1, <2>1
    <3> HIDE DEF t
    <3> QED BY <3>1 DEF TransactionT
  <2> DEFINE r == Location[t.addr].rank
  <2>4. type \in {"READ", "WRITE", "ACTIVATE"} /\ "ACTIVATE" \in {"READ", "WRITE", "ACTIVATE"}
    OBVIOUS
  <2>5. type \in {"READ", "WRITE"}
    OBVIOUS
  <2> HIDE DEF t, type
  <2>6. /\ r \in Ranks /\ act \in PacketT(r) /\ act.type = "ACTIVATE" /\ act.addr = t.addr
        /\ column \in PacketT(r) /\ column.type = type /\ column.addr = t.addr
    BY <2>3, <2>4, PacketIs
  <2>7. IsColumn(column) /\ column.addr = act.addr
    BY <2>5, <2>6 DEF IsColumn
  <2>8. Len(m.cq.queues[r]) + 2 <= CMD_QUEUE_DEPTH /\ m.cq.queues[r] \in Seq(PacketT(r))
    <3>1. CMD_QUEUE_DEPTH - Len(m.cq.queues[r]) >= 2
      BY <2>1 DEF hasRoomFor
    <3>2. m.cq.queues[r] \in Seq(PacketT(r)) /\ Len(m.cq.queues[r]) \in Nat
      BY <1>1, <2>6 DEF QueueTyped
    <3> QED BY <3>1, <3>2, CommandQueueAssumption
  <2> DEFINE d == enqueue(enqueue(m.cq, act), column)
  <2> HIDE DEF r, act, column
  <2>9. /\ DOMAIN d = QueueFields /\ ~d.overflow /\ DOMAIN d.queues = Ranks
        /\ d.rowAccessCounters = m.cq.rowAccessCounters
        /\ d.refreshWaiting = m.cq.refreshWaiting /\ d.refreshRank = m.cq.refreshRank
        /\ d.queues[r] = Append(Append(m.cq.queues[r], act), column)
        /\ \A s \in Ranks : s # r => d.queues[s] = m.cq.queues[s]
    BY <1>1, <2>6, <2>8, EnqueueTwice
  <2> HIDE DEF d
  <2>10. /\ Append(Append(m.cq.queues[r], act), column) \in Seq(PacketT(r))
         /\ QueueOK(Append(Append(m.cq.queues[r], act), column), m.banks[r],
                    m.cq.rowAccessCounters[r])
    <3>1. /\ m.banks[r] \in [Banks -> BankT] /\ m.cq.rowAccessCounters[r] \in [Banks -> Nat]
          /\ QueueOK(m.cq.queues[r], m.banks[r], m.cq.rowAccessCounters[r])
      BY <1>1, <2>6 DEF QueueTyped
    <3> QED BY <2>6, <2>7, <2>8, <3>1, QueueAfterEnqueue
  <2>11. ASSUME NEW s \in Ranks
         PROVE  /\ d.queues[s] \in Seq(PacketT(s))
                /\ QueueOK(d.queues[s], m.banks[s], d.rowAccessCounters[s])
    <3>1. CASE s = r
      BY <2>9, <2>10, <3>1
    <3>2. CASE s # r
      BY <1>1, <2>9, <3>2 DEF QueueTyped
    <3> QED BY <3>1, <3>2
  <2>12. QueueTyped(d)
    <3>1. m.cq.rowAccessCounters \in [Ranks -> [Banks -> Nat]]
          /\ (m.cq.refreshWaiting => m.cq.refreshRank \in Ranks)
      BY <1>1 DEF QueueTyped
    <3> QED BY <2>9, <2>11, <3>1 DEF QueueTyped
  <2>13. RemoveAt(q, i) \in Seq(TransactionT)
    BY <1>1, <2>1, RemoveAtIs
  <2>14. /\ Same(m, n, {"cq", "transactionQueue", "pendingReadTransactions", "returnTransaction",
                        "done"})
         /\ n.transactionQueue = RemoveAt(q, i) /\ n.cq = d
    BY <1>1, <2>2 DEF Same, ChannelFields, d
  <2>15. Midway(n)
    BY <2>9, <2>11, <2>12, <2>13, <2>14, MidwayKept
  <2> QED BY <2>15 DEF n
<1> QED BY <1>2, <1>3

(* A read that goes back, and the reset of the callbacks.                  *)
LEMMA ReturnMidway ==
    ASSUME NEW m, Midway(m)
    PROVE  Midway([ReturnRead(m) EXCEPT !.done = <<>>])
<1> DEFINE d == ReturnRead(m)  n == [d EXCEPT !.done = <<>>]
<1>1. /\ DOMAIN m = ChannelFields /\ m.transactionQueue \in Seq(TransactionT)
      /\ QueueTyped(m.cq) /\ ~m.cq.overflow
      /\ \A r \in Ranks : QueueOK(m.cq.queues[r], m.banks[r], m.cq.rowAccessCounters[r])
  BY DEF Midway, Typed, Scheduled
<1>2. Same(m, d, {"returnTransaction", "pendingReadTransactions", "done"})
  <2> DEFINE a == m.returnTransaction[1]
             matching == {i \in DOMAIN m.pendingReadTransactions :
                            m.pendingReadTransactions[i] = a}
  <2>1. CASE m.returnTransaction = <<>>
    BY <1>1, <2>1 DEF ReturnRead, Same
  <2>2. CASE m.returnTransaction # <<>> /\ matching = {}
    <3>1. d = [m EXCEPT !.returnTransaction = Tail(m.returnTransaction)]
      BY <2>2 DEF ReturnRead
    <3> QED BY <1>1, <3>1 DEF Same, ChannelFields
  <2>3. CASE m.returnTransaction # <<>> /\ matching # {}
    <3>1. d = [m EXCEPT !.returnTransaction = Tail(m.returnTransaction),
                        !.pendingReadTransactions =
                          RemoveAt(m.pendingReadTransactions, Min(matching)),
                        !.done = Append(m.done, a)]
      BY <2>3 DEF ReturnRead
    <3> QED BY <1>1, <3>1 DEF Same, ChannelFields
  <2> QED BY <2>1, <2>2, <2>3
<1> HIDE DEF d
<1>3. /\ Same(m, n, {"cq", "transactionQueue", "pendingReadTransactions", "returnTransaction",
                     "done"})
      /\ n.transactionQueue = m.transactionQueue /\ n.cq = m.cq
  BY <1>2 DEF Same, ChannelFields
<1> HIDE DEF n
<1>4. Midway(n)
  BY <1>1, <1>3, MidwayKept
<1> QED BY <1>4 DEF n, d

-----------------------------------------------------------------------------
(* A bank and a rank that go to sleep or wake up.                          *)
LEMMA PowerBank ==
    ASSUME NEW c \in BankT
    PROVE  /\ PowerDown(c) \in BankT /\ PowerUp(c) \in BankT
           /\ PowerDown(c).state = "PowerDown" /\ PowerDown(c).powerUp = T.tCKE
           /\ PowerDown(c).activate = c.activate
           /\ PowerUp(c).state = "Idle" /\ PowerUp(c).activate = T.tXP
           /\ PowerUp(c).powerUp = c.powerUp
           /\ PowerDown(c).row = c.row /\ PowerUp(c).row = c.row
           /\ PowerDown(c).read = c.read /\ PowerUp(c).read = c.read
           /\ PowerDown(c).write = c.write /\ PowerUp(c).write = c.write
           /\ PowerDown(c).precharge = c.precharge /\ PowerUp(c).precharge = c.precharge
           /\ PowerDown(c).countdown = c.countdown /\ PowerUp(c).countdown = c.countdown
<1>1. T.tCKE \in Nat /\ T.tXP \in Nat
  BY Delays
<1> QED BY <1>1, StateNames DEF BankT, PowerDown, PowerUp

(* The bursts of a rank are left alone.                                    *)
LaneKept(v, w) == w.outgoing = v.outgoing /\ w.readReturn = v.readReturn

(* powerDown and powerUp turn every bank of a rank, and fail only for a    *)
(* bank that is not idle or not due.                                       *)
LEMMA PowerRank ==
    ASSUME NEW v \in RankT
    PROVE  /\ powerDown(v) \in RankT /\ powerUp(v) \in RankT
           /\ \A b \in Banks : powerDown(v).banks[b] = PowerDown(v.banks[b])
           /\ \A b \in Banks : powerUp(v).banks[b] = PowerUp(v.banks[b])
           /\ powerDown(v).isPowerDown = TRUE /\ powerUp(v).isPowerDown = FALSE
           /\ powerDown(v).rejected => v.rejected \/ \E b \in Banks : v.banks[b].state # "Idle"
           /\ powerUp(v).rejected =>
                v.rejected \/ ~v.isPowerDown \/ \E b \in Banks : v.banks[b].powerUp > 0
           /\ LaneKept(v, powerDown(v)) /\ LaneKept(v, powerUp(v))
<1> DEFINE down == [b \in Banks |-> PowerDown(v.banks[b])]
           up == [b \in Banks |-> PowerUp(v.banks[b])]
           badDown == v.rejected \/ \E b \in Banks : v.banks[b].state # "Idle"
           badUp == v.rejected \/ ~v.isPowerDown \/ \E b \in Banks : v.banks[b].powerUp > 0
<1>1. v.banks \in [Banks -> BankT] /\ v.rejected \in BOOLEAN /\ v.isPowerDown \in BOOLEAN
  BY DEF RankT
<1>2. /\ down \in [Banks -> BankT] /\ \A b \in Banks : down[b] = PowerDown(v.banks[b])
      /\ up \in [Banks -> BankT] /\ \A b \in Banks : up[b] = PowerUp(v.banks[b])
  BY <1>1, PowerBank
<1>3. badDown \in BOOLEAN /\ badUp \in BOOLEAN
  OBVIOUS
<1>4. /\ powerDown(v) = [v EXCEPT !.rejected = badDown, !.banks = down, !.isPowerDown = TRUE]
      /\ powerUp(v) = [v EXCEPT !.rejected = badUp, !.banks = up, !.isPowerDown = FALSE]
  BY DEF powerDown, powerUp
<1> HIDE DEF down, up, badDown, badUp
<1>5. /\ powerDown(v) \in RankT /\ powerDown(v).banks = down /\ powerDown(v).isPowerDown = TRUE
      /\ powerDown(v).rejected = badDown /\ LaneKept(v, powerDown(v))
  BY <1>2, <1>3, <1>4 DEF RankT, LaneKept
<1>6. /\ powerUp(v) \in RankT /\ powerUp(v).banks = up /\ powerUp(v).isPowerDown = FALSE
      /\ powerUp(v).rejected = badUp /\ LaneKept(v, powerUp(v))
  BY <1>2, <1>3, <1>4 DEF RankT, LaneKept
<1> QED BY <1>2, <1>5, <1>6 DEF badDown, badUp

(* What ManagePower does to a rank.                                        *)
IdleRank(m, r) == m.cq.queues[r] = <<>> /\ ~m.ranks[r].refreshWaiting
Sleeps(m, r) == IdleRank(m, r) /\ \A b \in Banks : m.banks[r][b].state = "Idle"
Wakes(m, r) == ~IdleRank(m, r) /\ m.banks[r][0].powerUp = 0 /\ m.powerDown[r]

(* ManagePower puts the idle ranks to sleep and wakes those with work.     *)
LEMMA ManagePowerIs ==
    ASSUME NEW m, DOMAIN m = ChannelFields
    PROVE  LET n == ManagePower(m)
           IN /\ Same(m, n, {"powerDown", "banks", "ranks"})
              /\ n.powerDown = [r \in Ranks |-> (m.powerDown[r] \/ Sleeps(m, r)) /\ ~Wakes(m, r)]
              /\ n.banks = [r \in Ranks |-> [b \in Banks |->
                              IF Sleeps(m, r) THEN PowerDown(m.banks[r][b])
                              ELSE IF Wakes(m, r) THEN PowerUp(m.banks[r][b])
                              ELSE m.banks[r][b]]]
              /\ n.ranks = [r \in Ranks |-> IF Sleeps(m, r) THEN powerDown(m.ranks[r])
                                            ELSE IF Wakes(m, r) THEN powerUp(m.ranks[r])
                                            ELSE m.ranks[r]]
<1> DEFINE pd == [r \in Ranks |-> (m.powerDown[r] \/ Sleeps(m, r)) /\ ~Wakes(m, r)]
           bs == [r \in Ranks |-> [b \in Banks |->
                              IF Sleeps(m, r) THEN PowerDown(m.banks[r][b])
                              ELSE IF Wakes(m, r) THEN PowerUp(m.banks[r][b])
                              ELSE m.banks[r][b]]]
           rs == [r \in Ranks |-> IF Sleeps(m, r) THEN powerDown(m.ranks[r])
                                            ELSE IF Wakes(m, r) THEN powerUp(m.ranks[r])
                                            ELSE m.ranks[r]]
<1>1. ManagePower(m) = [m EXCEPT !.powerDown = pd, !.banks = bs, !.ranks = rs]
  BY DEF ManagePower, Sleeps, Wakes, IdleRank
<1> HIDE DEF pd, bs, rs
<1>2. LET n == ManagePower(m) IN /\ Same(m, n, {"powerDown", "banks", "ranks"})
                                 /\ n.powerDown = pd /\ n.banks = bs /\ n.ranks = rs
  BY <1>1 DEF Same, ChannelFields
<1> QED BY <1>2 DEF pd, bs, rs

(* One rank: n, pn, v' are its banks, its flag and the rank itself after   *)
(* it; a rank with a command on the bus is left alone.                     *)
Turned(m, n, r) ==
    /\ n.ranks[r] \in RankT /\ n.banks[r] \in [Banks -> BankT] /\ n.powerDown[r] \in BOOLEAN
    /\ LaneKept(m.ranks[r], n.ranks[r])
    /\ \A b \in Banks :
         /\ n.banks[r][b].state = "RowActive" => n.banks[r][b] = m.banks[r][b]
         /\ n.banks[r][b].state # "RowActive" => m.banks[r][b].state # "RowActive"
         /\ Own(n.banks[r][b], 0)
         /\ n.powerDown[r] <=> n.banks[r][b].state = "PowerDown"
         /\ n.banks[r][b].powerUp = n.banks[r][0].powerUp
    /\ BusTo(m, r) => /\ n.ranks[r] = m.ranks[r] /\ n.banks[r] = m.banks[r]
                      /\ n.powerDown[r] = m.powerDown[r]
    /\ ~BusTo(m, r) =>
         /\ ~n.ranks[r].rejected /\ n.powerDown[r] = n.ranks[r].isPowerDown
         /\ \A b \in Banks : Agree(n.banks[r][b], n.ranks[r].banks[b])

(* ManagePower leaves a rank in such a state.                              *)
LEMMA TurnedIs ==
    ASSUME NEW m, Midway(m), NEW r \in Ranks
    PROVE  Turned(m, ManagePower(m), r)
<1> DEFINE n == ManagePower(m)  v == m.ranks[r]  c == m.banks[r]  d == n.banks[r]  w == n.ranks[r]
<1>1. /\ DOMAIN m = ChannelFields /\ v \in RankT /\ v.banks \in [Banks -> BankT]
      /\ c \in [Banks -> BankT] /\ m.powerDown[r] \in BOOLEAN /\ \A b \in Banks : c[b] \in BankT
      /\ 0 \in Banks
  BY GeometryAssumption DEF Midway, Typed, RankT, Banks
<1>2. /\ n.powerDown[r] = ((m.powerDown[r] \/ Sleeps(m, r)) /\ ~Wakes(m, r))
      /\ d = [b \in Banks |-> IF Sleeps(m, r) THEN PowerDown(m.banks[r][b])
                              ELSE IF Wakes(m, r) THEN PowerUp(m.banks[r][b])
                              ELSE m.banks[r][b]]
      /\ w = IF Sleeps(m, r) THEN powerDown(v) ELSE IF Wakes(m, r) THEN powerUp(v) ELSE v
  <2>1. /\ n.powerDown = [s \in Ranks |-> (m.powerDown[s] \/ Sleeps(m, s)) /\ ~Wakes(m, s)]
        /\ n.banks = [s \in Ranks |-> [b \in Banks |->
                        IF Sleeps(m, s) THEN PowerDown(m.banks[s][b])
                        ELSE IF Wakes(m, s) THEN PowerUp(m.banks[s][b])
                        ELSE m.banks[s][b]]]
        /\ n.ranks = [s \in Ranks |-> IF Sleeps(m, s) THEN powerDown(m.ranks[s])
                                      ELSE IF Wakes(m, s) THEN powerUp(m.ranks[s])
                                      ELSE m.ranks[s]]
    BY <1>1, ManagePowerIs
  <2> HIDE DEF n
  <2> QED BY <2>1
<1>3. \A b \in Banks : /\ Own(c[b], 0) /\ (m.powerDown[r] <=> c[b].state = "PowerDown")
                       /\ c[b].powerUp = c[0].powerUp
                       /\ c[b].countdown \in Nat /\ c[b].activate \in Nat
  <2>1. \A b \in Banks : c[b].countdown \in Nat /\ c[b].activate \in Nat
    BY <1>1 DEF BankT
  <2> QED BY <2>1 DEF Midway, Scheduled, Powers
<1>4. /\ BusTo(m, r) => \E b \in Banks : c[b].state \in {"RowActive", "Precharging", "Refreshing"}
      /\ ~BusTo(m, r) => /\ ~v.rejected /\ m.powerDown[r] = v.isPowerDown
                         /\ \A b \in Banks : Agree(c[b], v.banks[b])
  BY DEF Midway, Coming
<1> HIDE DEF n, v, c, d, w
<1>5. CASE Sleeps(m, r)
  <2>1. \A b \in Banks : c[b].state = "Idle"
    BY <1>5 DEF Sleeps, c
  <2>2. ~Wakes(m, r) /\ ~BusTo(m, r)
    BY <1>4, <1>5, <2>1 DEF Sleeps, Wakes
  <2>3. n.powerDown[r] = TRUE /\ w = powerDown(v)
    BY <1>1, <1>2, <1>5, <2>2
  <2>4. \A b \in Banks : d[b] = PowerDown(c[b])
    BY <1>2, <1>5 DEF c
  <2>5. d \in [Banks -> BankT]
    BY <1>1, <1>2, <1>5, PowerBank DEF c
  <2>6. /\ w \in RankT /\ \A b \in Banks : w.banks[b] = PowerDown(v.banks[b])
        /\ w.isPowerDown = TRUE /\ LaneKept(v, w)
        /\ w.rejected => v.rejected \/ \E b \in Banks : v.banks[b].state # "Idle"
    BY <1>1, <2>3, PowerRank
  <2>7. ASSUME NEW b \in Banks
        PROVE  /\ d[b].state = "PowerDown" /\ Own(d[b], 0) /\ d[b].powerUp = T.tCKE
               /\ v.banks[b].state = "Idle" /\ Agree(d[b], w.banks[b])
    <3> DEFINE x == c[b]  k == v.banks[b]
    <3>1. x \in BankT /\ k \in BankT /\ Agree(x, k) /\ x.state = "Idle" /\ Own(x, 0)
      BY <1>1, <1>3, <1>4, <2>1, <2>2
    <3>2. d[b] = PowerDown(x) /\ w.banks[b] = PowerDown(k)
      BY <2>4, <2>6
    <3> HIDE DEF x, k
    <3>3. /\ PowerDown(x).state = "PowerDown" /\ PowerDown(x).powerUp = T.tCKE
          /\ PowerDown(x).read = x.read /\ PowerDown(x).write = x.write
          /\ PowerDown(x).activate = x.activate /\ PowerDown(x).precharge = x.precharge
          /\ PowerDown(x).countdown = x.countdown
      BY <3>1, PowerBank
    <3>4. /\ PowerDown(k).state = "PowerDown" /\ PowerDown(k).powerUp = T.tCKE
          /\ PowerDown(k).read = k.read /\ PowerDown(k).write = k.write
          /\ PowerDown(k).activate = k.activate /\ PowerDown(k).precharge = k.precharge
      BY <3>1, PowerBank
    <3>5. Own(PowerDown(x), 0)
      BY <3>1, <3>3 DEF Own
    <3>6. Agree(PowerDown(x), PowerDown(k)) /\ k.state = "Idle"
      BY <3>1, <3>3, <3>4 DEF Agree
    <3> QED BY <3>2, <3>3, <3>5, <3>6 DEF k
  <2>8. ~w.rejected
    BY <1>4, <2>2, <2>6, <2>7
  <2>9. \A b \in Banks :
         /\ d[b].state # "RowActive" /\ c[b].state # "RowActive"
         /\ Own(d[b], 0) /\ (n.powerDown[r] <=> d[b].state = "PowerDown")
         /\ d[b].powerUp = d[0].powerUp
    BY <1>1, <2>1, <2>3, <2>7
  <2> QED BY <2>2, <2>3, <2>5, <2>6, <2>7, <2>8, <2>9 DEF Turned, n, v, c, d, w
<1>6. CASE Wakes(m, r)
  <2>1. m.powerDown[r] /\ c[0].powerUp = 0 /\ ~Sleeps(m, r)
    BY <1>6 DEF Wakes, Sleeps, c
  <2>2. \A b \in Banks : c[b].state = "PowerDown" /\ c[b].powerUp = 0
    BY <1>3, <2>1
  <2>3. ~BusTo(m, r)
    BY <1>4, <2>2
  <2>4. n.powerDown[r] = FALSE /\ w = powerUp(v)
    BY <1>1, <1>2, <1>6, <2>1
  <2>5. \A b \in Banks : d[b] = PowerUp(c[b])
    BY <1>2, <1>6, <2>1 DEF c
  <2>6. d \in [Banks -> BankT]
    BY <1>1, <1>2, <1>6, <2>1, PowerBank DEF c
  <2>7. /\ w \in RankT /\ \A b \in Banks : w.banks[b] = PowerUp(v.banks[b])
        /\ w.isPowerDown = FALSE /\ LaneKept(v, w)
        /\ w.rejected => v.rejected \/ ~v.isPowerDown \/ \E b \in Banks : v.banks[b].powerUp > 0
    BY <1>1, <2>4, PowerRank
  <2>8. ASSUME NEW b \in Banks
        PROVE  /\ d[b].state = "Idle" /\ Own(d[b], 0) /\ d[b].powerUp = 0
               /\ v.banks[b].powerUp = 0 /\ Agree(d[b], w.banks[b])
    <3> DEFINE x == c[b]  k == v.banks[b]
    <3>1. /\ x \in BankT /\ k \in BankT /\ Agree(x, k) /\ x.state = "PowerDown" /\ Own(x, 0)
          /\ x.powerUp = 0
      BY <1>1, <1>3, <1>4, <2>2, <2>3
    <3>2. d[b] = PowerUp(x) /\ w.banks[b] = PowerUp(k)
      BY <2>5, <2>7
    <3> HIDE DEF x, k
    <3>3. /\ PowerUp(x).state = "Idle" /\ PowerUp(x).powerUp = x.powerUp
          /\ PowerUp(x).read = x.read /\ PowerUp(x).write = x.write
          /\ PowerUp(x).activate = T.tXP /\ PowerUp(x).precharge = x.precharge
          /\ PowerUp(x).countdown = x.countdown
      BY <3>1, PowerBank
    <3>4. /\ PowerUp(k).state = "Idle" /\ PowerUp(k).powerUp = k.powerUp
          /\ PowerUp(k).read = k.read /\ PowerUp(k).write = k.write
          /\ PowerUp(k).activate = T.tXP /\ PowerUp(k).precharge = k.precharge
      BY <3>1, PowerBank
    <3>5. Own(PowerUp(x), 0)
      BY <3>1, <3>3 DEF Own
    <3>6. T.tXP <= T.tXP + 1
      BY Delays
    <3>7. Agree(PowerUp(x), PowerUp(k)) /\ k.powerUp = 0
      BY <3>1, <3>3, <3>4, <3>6 DEF Agree
    <3> QED BY <3>1, <3>2, <3>3, <3>5, <3>7 DEF k
  <2>9. ~w.rejected
    <3>1. \A b \in Banks : ~(v.banks[b].powerUp > 0)
      BY <2>8
    <3>2. v.isPowerDown
      BY <1>4, <2>1, <2>3
    <3> QED BY <1>4, <2>3, <2>7, <3>1, <3>2
  <2>10. \A b \in Banks :
         /\ d[b].state # "RowActive" /\ c[b].state # "RowActive"
         /\ Own(d[b], 0) /\ (n.powerDown[r] <=> d[b].state = "PowerDown")
         /\ d[b].powerUp = d[0].powerUp
    BY <1>1, <2>2, <2>4, <2>8
  <2> QED BY <2>3, <2>4, <2>6, <2>7, <2>8, <2>9, <2>10 DEF Turned, n, v, c, d, w
<1>7. CASE ~Sleeps(m, r) /\ ~Wakes(m, r)
  <2>1. n.powerDown[r] = m.powerDown[r] /\ w = v
    BY <1>1, <1>2, <1>7
  <2>2. d = c
    BY <1>1, <1>2, <1>7 DEF c
  <2>3. LaneKept(v, v)
    BY DEF LaneKept
  <2> QED BY <1>1, <1>3, <1>4, <2>1, <2>2, <2>3 DEF Turned, n, v, c, d, w
<1> QED BY <1>5, <1>6, <1>7

(* USE_LOW_POWER keeps the channel in order.                               *)
LEMMA PowerMidway ==
    ASSUME NEW m, Midway(m)
    PROVE  Midway(ManagePower(m))
<1> DEFINE n == ManagePower(m)
<1>1. \A r \in Ranks : Turned(m, n, r)
  BY TurnedIs
<1>2. DOMAIN m = ChannelFields
  BY DEF Midway, Typed
<1>3. /\ Same(m, n, {"powerDown", "banks", "ranks"})
      /\ DOMAIN n.powerDown = Ranks /\ n.powerDown = [r \in Ranks |-> n.powerDown[r]]
      /\ n.banks = [r \in Ranks |-> n.banks[r]] /\ n.ranks = [r \in Ranks |-> n.ranks[r]]
  BY <1>2, ManagePowerIs
<1> HIDE DEF n
<1>4. /\ DOMAIN n = ChannelFields /\ n.cq = m.cq /\ n.refreshRank = m.refreshRank
      /\ n.cmd = m.cmd /\ n.data = m.data /\ n.writeData = m.writeData
      /\ n.pendingTransactions = m.pendingTransactions
      /\ n.transactionQueue = m.transactionQueue /\ n.collision = m.collision
  BY <1>3 DEF Same, ChannelFields
<1>5. Typed(n)
  <2>1. \A r \in Ranks : /\ n.ranks[r] \in RankT /\ n.banks[r] \in [Banks -> BankT]
                         /\ n.powerDown[r] \in BOOLEAN
    BY <1>1 DEF Turned
  <2>2. n.ranks \in [Ranks -> RankT]
    BY <1>3, <2>1
  <2>3. n.banks \in [Ranks -> [Banks -> BankT]]
    BY <1>3, <2>1
  <2>4. n.powerDown \in [Ranks -> BOOLEAN]
    BY <1>3, <2>1
  <2> QED BY <1>4, <2>2, <2>3, <2>4 DEF Midway, Typed
<1>6. Scheduled(n, 0)
  <2>1. ASSUME NEW r \in Ranks
        PROVE  QueueOK(m.cq.queues[r], n.banks[r], m.cq.rowAccessCounters[r])
    <3> DEFINE q == m.cq.queues[r]
    <3>1. q \in Seq(PacketT(r)) /\ QueueOK(q, m.banks[r], m.cq.rowAccessCounters[r])
      BY DEF Midway, Typed, QueueTyped, Scheduled
    <3> HIDE DEF q
    <3>2. \A i \in DOMAIN q : q[i].bank \in Banks
      BY <3>1, QueuePackets
    <3>3. \A b \in Banks :
            /\ n.banks[r][b].state = "RowActive" => n.banks[r][b] = m.banks[r][b]
            /\ n.banks[r][b].state # "RowActive" => m.banks[r][b].state # "RowActive"
      BY <1>1 DEF Turned
    <3>4. QueueOK(q, n.banks[r], m.cq.rowAccessCounters[r])
      BY <3>1, <3>2, <3>3 DEF QueueOK
    <3> QED BY <3>4 DEF q
  <2>2. \A r \in Ranks, b \in Banks : Own(n.banks[r][b], 0)
    BY <1>1 DEF Turned
  <2>3. Powers(n.powerDown, n.banks)
    BY <1>1 DEF Turned, Powers
  <2>4. ~m.cq.overflow
    BY DEF Midway, Scheduled
  <2> QED BY <1>4, <2>1, <2>2, <2>3, <2>4 DEF Scheduled
<1>7. \A r : BusTo(n, r) <=> BusTo(m, r)
  BY <1>4 DEF BusTo
<1>8. Coming(n)
  <2> SUFFICES ASSUME NEW r \in Ranks
               PROVE  /\ BusTo(n, r) =>
                           /\ ~Received(n, r).rejected
                           /\ n.powerDown[r] = Received(n, r).isPowerDown
                           /\ \A b \in Banks : Agree(Tick(n.banks[r][b]), Received(n, r).banks[b])
                           /\ \E b \in Banks :
                                n.banks[r][b].state \in {"RowActive", "Precharging", "Refreshing"}
                      /\ ~BusTo(n, r) =>
                           /\ ~n.ranks[r].rejected /\ n.powerDown[r] = n.ranks[r].isPowerDown
                           /\ \A b \in Banks : Agree(n.banks[r][b], n.ranks[r].banks[b])
    BY DEF Coming
  <2>1. CASE BusTo(m, r)
    <3>1. /\ n.ranks[r] = m.ranks[r] /\ n.banks[r] = m.banks[r] /\ n.powerDown[r] = m.powerDown[r]
      BY <1>1, <2>1 DEF Turned
    <3>2. Received(n, r) = Received(m, r)
      BY <1>4, <3>1 DEF Received
    <3>3. /\ ~Received(m, r).rejected /\ m.powerDown[r] = Received(m, r).isPowerDown
          /\ \A b \in Banks : Agree(Tick(m.banks[r][b]), Received(m, r).banks[b])
          /\ \E b \in Banks :
               m.banks[r][b].state \in {"RowActive", "Precharging", "Refreshing"}
      BY <2>1 DEF Midway, Coming
    <3> QED BY <1>7, <2>1, <3>1, <3>2, <3>3
  <2>2. CASE ~BusTo(m, r)
    BY <1>1, <1>7, <2>2 DEF Turned
  <2> QED BY <2>1, <2>2
<1>9. DataBus(n, 0)
  <2>1. ASSUME NEW l \in Lanes
        PROVE  /\ BusOf(n, l) = BusOf(m, l) /\ WaitingOf(n, l) = WaitingOf(m, l)
               /\ StartsOf(n, l) = StartsOf(m, l)
    <3>1. BusOf(n, l) = BusOf(m, l) /\ WaitingOf(n, l) = WaitingOf(m, l)
      <4>1. CASE l = NUM_RANKS
        BY <1>4, <4>1 DEF BusOf, WaitingOf
      <4>2. CASE l # NUM_RANKS
        <5>1. l \in Ranks
          BY <4>2, GeometryAssumption DEF Lanes, Ranks
        <5> QED BY <1>1, <4>2, <5>1 DEF BusOf, WaitingOf, Turned, LaneKept
      <4> QED BY <4>1, <4>2
    <3> QED BY <1>4, <1>7, <3>1 DEF StartsOf
  <2>2. \A r \in Ranks, b \in Banks :
          n.banks[r][b].state = "RowActive" => n.banks[r][b] = m.banks[r][b]
    BY <1>1 DEF Turned
  <2>3. DataBus(m, 0)
    BY DEF Midway
  <2> HIDE DEF Lanes
  <2> QED BY <1>4, <1>7, <2>1, <2>2, <2>3 DEF DataBus
<1> QED BY <1>5, <1>6, <1>8, <1>9 DEF Midway, n

(* The clock ends the cycle.                                               *)
LEMMA ClockEnds ==
    ASSUME NEW m, Midway(m)
    PROVE  LET n == Clock(m)
           IN Typed(n) /\ Scheduled(n, 1) /\ Legal(n) /\ DataBus(n, 1)
<1> DEFINE n == Clock(m)
<1>1. Typed(m) /\ Scheduled(m, 0) /\ Coming(m) /\ DataBus(m, 0)
  BY DEF Midway
<1>2. /\ DOMAIN m = ChannelFields /\ m.ranks \in [Ranks -> RankT]
      /\ m.banks \in [Ranks -> [Banks -> BankT]]
  BY <1>1 DEF Typed
<1>3. /\ Same(m, n, {"refreshCountdown", "banks", "ranks"})
      /\ n.banks = [r \in Ranks |-> [b \in Banks |-> Tick(m.banks[r][b])]]
      /\ n.ranks = [r \in Ranks |-> TickRank(m.ranks[r])]
  BY <1>2 DEF Clock, Same, ChannelFields
<1> HIDE DEF n
<1>4. /\ DOMAIN n = ChannelFields /\ n.cq = m.cq /\ n.powerDown = m.powerDown
      /\ n.refreshRank = m.refreshRank /\ n.cmd = m.cmd /\ n.data = m.data
      /\ n.writeData = m.writeData /\ n.pendingTransactions = m.pendingTransactions
      /\ n.transactionQueue = m.transactionQueue /\ n.collision = m.collision
  BY <1>3 DEF Same, ChannelFields
<1>5. ASSUME NEW r \in Ranks, NEW b \in Banks
      PROVE  LET c == m.banks[r][b]  d == n.banks[r][b]
             IN /\ c \in BankT /\ d = Tick(c) /\ d \in BankT
                /\ d.state = c.state /\ d.row = c.row /\ d.countdown = c.countdown
                /\ d.read = Sooner(c.read) /\ d.write = Sooner(c.write)
                /\ d.activate = Sooner(c.activate) /\ d.powerUp = Sooner(c.powerUp)
                /\ c.read \in Nat /\ c.write \in Nat /\ c.activate \in Nat /\ c.countdown \in Nat
  <2> DEFINE c == m.banks[r][b]
  <2>1. c \in BankT /\ n.banks[r][b] = Tick(c)
    BY <1>2, <1>3
  <2> HIDE DEF c
  <2>2. c.read \in Nat /\ c.write \in Nat /\ c.activate \in Nat /\ c.countdown \in Nat
    BY <2>1 DEF BankT
  <2>3. /\ Tick(c) \in BankT /\ Tick(c).state = c.state /\ Tick(c).row = c.row
        /\ Tick(c).countdown = c.countdown
        /\ Tick(c).read = Sooner(c.read) /\ Tick(c).write = Sooner(c.write)
        /\ Tick(c).activate = Sooner(c.activate) /\ Tick(c).powerUp = Sooner(c.powerUp)
    BY <2>1, TickBank
  <2> QED BY <2>1, <2>2, <2>3 DEF c
<1>6. ASSUME NEW r \in Ranks
      PROVE  LET v == m.ranks[r]  w == n.ranks[r]
             IN /\ v \in RankT /\ w = TickRank(v) /\ w \in RankT
                /\ \A b \in Banks : w.banks[b] = Tick(v.banks[b]) /\ v.banks[b] \in BankT
                /\ w.isPowerDown = v.isPowerDown /\ w.rejected = v.rejected
                /\ LaneKept(v, w)
  <2> DEFINE v == m.ranks[r]
  <2>1. v \in RankT /\ n.ranks[r] = TickRank(v)
    BY <1>2, <1>3
  <2> HIDE DEF v
  <2>2. \A b \in Banks : v.banks[b] \in BankT
    BY <2>1 DEF RankT
  <2>3. /\ TickRank(v) \in RankT /\ \A b \in Banks : TickRank(v).banks[b] = Tick(v.banks[b])
        /\ TickRank(v).isPowerDown = v.isPowerDown /\ TickRank(v).rejected = v.rejected
        /\ TickRank(v).outgoing = v.outgoing /\ TickRank(v).readReturn = v.readReturn
    BY <2>1, TickRankIs
  <2> QED BY <2>1, <2>2, <2>3 DEF v, LaneKept
<1>7. Typed(n)
  <2>1. n.banks \in [Ranks -> [Banks -> BankT]]
    <3>1. \A r \in Ranks : [b \in Banks |-> Tick(m.banks[r][b])] \in [Banks -> BankT]
      BY <1>2, TickBank
    <3> QED BY <1>3, <3>1
  <2>2. n.ranks \in [Ranks -> RankT]
    BY <1>2, <1>3, TickRankIs
  <2> QED BY <1>1, <1>4, <2>1, <2>2 DEF Typed
<1>8. Scheduled(n, 1)
  <2>1. ASSUME NEW r \in Ranks
        PROVE  QueueOK(m.cq.queues[r], n.banks[r], m.cq.rowAccessCounters[r])
    <3> DEFINE q == m.cq.queues[r]
    <3>1. q \in Seq(PacketT(r)) /\ QueueOK(q, m.banks[r], m.cq.rowAccessCounters[r])
      BY <1>1 DEF Typed, QueueTyped, Scheduled
    <3> HIDE DEF q
    <3>2. \A i \in DOMAIN q : q[i].bank \in Banks
      BY <3>1, QueuePackets
    <3>3. \A b \in Banks : /\ n.banks[r][b].state = m.banks[r][b].state
                           /\ n.banks[r][b].row = m.banks[r][b].row
      BY <1>5
    <3>4. QueueOK(q, n.banks[r], m.cq.rowAccessCounters[r])
      BY <3>1, <3>2, <3>3 DEF QueueOK
    <3> QED BY <3>4 DEF q
  <2>2. ASSUME NEW r \in Ranks, NEW b \in Banks PROVE Own(n.banks[r][b], 1)
    <3> DEFINE c == m.banks[r][b]  d == n.banks[r][b]
    <3>1. /\ d.state = c.state /\ d.countdown = c.countdown /\ d.activate = Sooner(c.activate)
          /\ c.activate \in Nat /\ c.countdown \in Nat
      BY <1>5
    <3>2. Own(c, 0)
      BY <1>1 DEF Scheduled
    <3> HIDE DEF c, d
    <3>3. Sooner(c.activate) + 1 >= c.activate /\ Sooner(c.activate) \in Nat
      BY <3>1 DEF Sooner
    <3>4. Own(d, 1)
      BY <3>1, <3>2, <3>3 DEF Own
    <3> QED BY <3>4 DEF d
  <2>3. Powers(n.powerDown, n.banks)
    <3>1. 0 \in Banks
      BY GeometryAssumption DEF Banks
    <3>2. Powers(m.powerDown, m.banks)
      BY <1>1 DEF Scheduled
    <3> QED BY <1>4, <1>5, <3>1, <3>2 DEF Powers
  <2>4. ~m.cq.overflow
    BY <1>1 DEF Scheduled
  <2> QED BY <1>4, <2>1, <2>2, <2>3, <2>4 DEF Scheduled
<1>9. \A r : BusTo(n, r) <=> BusTo(m, r)
  BY <1>4 DEF BusTo
<1>10. Legal(n)
  <2> SUFFICES ASSUME NEW r \in Ranks
               PROVE  /\ ~Its(n, r).rejected /\ n.powerDown[r] = Its(n, r).isPowerDown
                      /\ \A b \in Banks : Agree(n.banks[r][b], Its(n, r).banks[b])
    BY DEF Legal
  <2>1. CASE BusTo(m, r)
    <3>1. Its(n, r) = Received(m, r)
      BY <1>4, <1>6, <1>9, <2>1 DEF Its, Received
    <3>2. /\ ~Received(m, r).rejected /\ m.powerDown[r] = Received(m, r).isPowerDown
          /\ \A b \in Banks : Agree(Tick(m.banks[r][b]), Received(m, r).banks[b])
      BY <1>1, <2>1 DEF Coming
    <3> QED BY <1>4, <1>5, <3>1, <3>2
  <2>2. CASE ~BusTo(m, r)
    <3>1. Its(n, r) = n.ranks[r]
      BY <1>9, <2>2 DEF Its
    <3>2. /\ ~m.ranks[r].rejected /\ m.powerDown[r] = m.ranks[r].isPowerDown
          /\ \A b \in Banks : Agree(m.banks[r][b], m.ranks[r].banks[b])
      BY <1>1, <2>2 DEF Coming
    <3>3. ASSUME NEW b \in Banks PROVE Agree(n.banks[r][b], n.ranks[r].banks[b])
      <4> DEFINE c == m.banks[r][b]  k == m.ranks[r].banks[b]
      <4>1. c \in BankT /\ k \in BankT /\ Agree(c, k)
        BY <1>5, <1>6, <3>2
      <4>2. n.banks[r][b] = Tick(c) /\ n.ranks[r].banks[b] = Tick(k)
        BY <1>5, <1>6
      <4> HIDE DEF c, k
      <4>3. c.read >= c.read /\ c.write >= c.write
        BY <4>1 DEF BankT
      <4>4. Agree(Tick(c), Tick(k))
        BY <4>1, <4>3, AgreeTicked
      <4> QED BY <4>2, <4>4
    <3> QED BY <1>4, <1>6, <3>1, <3>2, <3>3
  <2> QED BY <2>1, <2>2
<1>11. DataBus(n, 1)
  <2>1. ASSUME NEW l \in Lanes
        PROVE  /\ BusOf(n, l) = BusOf(m, l) /\ WaitingOf(n, l) = WaitingOf(m, l)
               /\ StartsOf(n, l) = StartsOf(m, l) /\ StartsOf(m, l) \subseteq Int
    <3>1. BusOf(n, l) = BusOf(m, l) /\ WaitingOf(n, l) = WaitingOf(m, l)
      <4>1. CASE l = NUM_RANKS
        BY <1>4, <4>1 DEF BusOf, WaitingOf
      <4>2. CASE l # NUM_RANKS
        <5>1. l \in Ranks
          BY <4>2, GeometryAssumption DEF Lanes, Ranks
        <5> QED BY <1>6, <4>2, <5>1 DEF BusOf, WaitingOf, LaneKept
      <4> QED BY <4>1, <4>2
    <3>2. StartsOf(m, l) \subseteq Int
      BY <1>1, LanesTyped
    <3> QED BY <1>4, <1>9, <3>1, <3>2 DEF StartsOf
  <2>2. ASSUME NEW l \in Lanes, NEW s \in StartsOf(m, l), NEW r \in Ranks, NEW b \in Banks,
               n.banks[r][b].state = "RowActive"
        PROVE  Covered(n.banks[r][b], s, 1)
    <3> DEFINE c == m.banks[r][b]  d == n.banks[r][b]
    <3>1. /\ d.state = c.state /\ d.read = Sooner(c.read) /\ d.write = Sooner(c.write)
          /\ c.read \in Nat /\ c.write \in Nat
      BY <1>5
    <3>2. Covered(c, s, 0) /\ s \in Int
      BY <1>1, <2>1, <2>2, <3>1 DEF DataBus
    <3> HIDE DEF c, d
    <3>3. /\ d.read \in Nat /\ d.read + 1 >= c.read /\ d.write \in Nat /\ d.write + 1 >= c.write
      BY <3>1 DEF Sooner
    <3>4. Covered(d, s, 1)
      <4>1. c.write + WL + 0 >= s + Burst /\ c.read + RL + 1 + 0 >= s + Burst
        BY <3>2 DEF Covered
      <4>2. WL \in Nat /\ RL \in Nat /\ Burst \in Nat
        BY Delays
      <4> HIDE DEF WL, RL, Burst
      <4>3. d.write + WL + 1 >= s + Burst /\ d.read + RL + 1 + 1 >= s + Burst
        BY <3>1, <3>2, <3>3, <4>1, <4>2
      <4> QED BY <4>3 DEF Covered
    <3> QED BY <3>4 DEF d
  <2>3. DataBus(m, 0)
    BY <1>1
  <2> HIDE DEF Lanes
  <2> QED BY <1>4, <1>9, <2>1, <2>2, <2>3 DEF DataBus
<1> QED BY <1>7, <1>8, <1>10, <1>11 DEF n

-----------------------------------------------------------------------------
(* The channel as it is switched on.                                       *)
LEMMA InitInOrder == Init => DramInv
<1> SUFFICES ASSUME Init PROVE DramInv
  OBVIOUS
<1>1. /\ mem = ChannelInit /\ DOMAIN mem = ChannelFields
      /\ mem.ranks = [r \in Ranks |-> Rank] /\ mem.cq = CommandQueueInit
      /\ mem.banks = [r \in Ranks |-> [b \in Banks |-> BankState]]
      /\ mem.powerDown = [r \in Ranks |-> FALSE] /\ mem.refreshRank = 0
      /\ mem.cmd = <<>> /\ mem.data = <<>> /\ mem.writeData = <<>>
      /\ mem.pendingTransactions = <<>> /\ mem.transactionQueue = <<>>
      /\ mem.collision = FALSE
  BY DEF Init, ChannelInit, ChannelFields
<1>2. /\ BankState \in BankT /\ BankState.state = "Idle" /\ BankState.countdown = 0
      /\ BankState.powerUp = 0 /\ BankState.read = 0 /\ BankState.write = 0
      /\ BankState.activate = 0 /\ BankState.precharge = 0
  BY StateNames DEF BankState, BankT
<1>3. /\ Rank \in RankT /\ Rank.rejected = FALSE /\ Rank.isPowerDown = FALSE
      /\ Rank.outgoing = <<>> /\ Rank.readReturn = <<>>
      /\ \A b \in Banks : Rank.banks[b] = BankState
  BY <1>2 DEF Rank, RankT
<1>4. 0 \in Ranks /\ 0 \in Banks
  BY GeometryAssumption DEF Ranks, Banks
<1>5. /\ DOMAIN CommandQueueInit = QueueFields /\ CommandQueueInit.overflow = FALSE
      /\ CommandQueueInit.queues = [r \in Ranks |-> <<>>]
      /\ CommandQueueInit.rowAccessCounters = [r \in Ranks |-> [b \in Banks |-> 0]]
      /\ CommandQueueInit.refreshWaiting = FALSE
  BY DEF CommandQueueInit, QueueFields
<1> HIDE DEF BankState, Rank, CommandQueueInit
<1>6. QueueTyped(mem.cq)
  BY <1>1, <1>5 DEF QueueTyped
<1>7. Typed(mem)
  <2>1. mem.ranks \in [Ranks -> RankT] /\ mem.banks \in [Ranks -> [Banks -> BankT]]
    BY <1>1, <1>2, <1>3
  <2> QED BY <1>1, <1>4, <1>6, <2>1 DEF Typed
<1>8. Scheduled(mem, 1)
  <2>1. ASSUME NEW r \in Ranks
        PROVE  QueueOK(mem.cq.queues[r], mem.banks[r], mem.cq.rowAccessCounters[r])
    <3>1. mem.cq.queues[r] = <<>> /\ \A b \in Banks : mem.cq.rowAccessCounters[r][b] = 0
      BY <1>1, <1>5
    <3> QED BY <3>1, CommandQueueAssumption DEF QueueOK
  <2>2. \A r \in Ranks, b \in Banks : mem.banks[r][b] = BankState
    BY <1>1
  <2>3. Own(BankState, 1)
    BY <1>2 DEF Own
  <2>4. Powers(mem.powerDown, mem.banks)
    BY <1>1, <1>2, <1>4, <2>2 DEF Powers
  <2> QED BY <1>1, <1>5, <2>1, <2>2, <2>3, <2>4 DEF Scheduled
<1>9. Legal(mem)
  <2>1. Agree(BankState, BankState)
    BY <1>2 DEF Agree
  <2>2. \A r \in Ranks : Its(mem, r) = Rank
    BY <1>1 DEF Its, BusTo
  <2>3. \A r \in Ranks, b \in Banks : mem.banks[r][b] = BankState /\ ~mem.powerDown[r]
    BY <1>1
  <2>4. \A r \in Ranks : mem.powerDown[r] = Rank.isPowerDown
    BY <1>1, <1>3
  <2> QED BY <1>3, <2>1, <2>2, <2>3, <2>4 DEF Legal
<1>10. DataBus(mem, 1)
  <2>1. ASSUME NEW l \in Lanes PROVE BusOf(mem, l) = <<>> /\ WaitingOf(mem, l) = <<>>
    <3>1. l # NUM_RANKS => l \in Ranks
      BY GeometryAssumption DEF Lanes, Ranks
    <3> QED BY <1>1, <1>3, <3>1 DEF BusOf, WaitingOf
  <2>2. \A l \in Lanes : ~BusTo(mem, l)
    BY <1>1 DEF BusTo
  <2>3. LaneOK(<<>>, <<>>) /\ Starts(<<>>, <<>>) = {}
    BY DEF LaneOK, Starts
  <2>4. \A l \in Lanes : StartsOf(mem, l) = {}
    BY <2>1, <2>2, <2>3 DEF StartsOf
  <2> HIDE DEF Lanes
  <2> QED BY <1>1, <2>1, <2>2, <2>3, <2>4 DEF DataBus
<1> QED BY <1>7, <1>8, <1>9, <1>10 DEF DramInv

(* A request only waits.                                                   *)
LEMMA RequestInOrder ==
    ASSUME NEW a \in Addrs, NEW isRead \in BOOLEAN, DramInv, enqueueMemRef(a, isRead)
    PROVE  DramInv'
<1> DEFINE t == [addr |-> a, isRead |-> isRead]
<1>1. PICK n : n = addTransaction(mem, t) /\ mem' = n
  BY DEF enqueueMemRef
<1>2. /\ DOMAIN mem = ChannelFields /\ mem.transactionQueue \in Seq(TransactionT)
      /\ mem.pendingTransactions \in Seq(TransactionT)
  BY DEF DramInv, Typed
<1>3. t \in TransactionT
  BY DEF TransactionT
<1> HIDE DEF t
<1>4. /\ Same(mem, n, {"transactionQueue", "pendingTransactions"})
      /\ n.transactionQueue \in Seq(TransactionT) /\ n.pendingTransactions \in Seq(TransactionT)
  <2>1. CASE WillAcceptTransaction(mem)
    <3>1. n = [mem EXCEPT !.transactionQueue = Append(mem.transactionQueue, t)]
      BY <1>1, <2>1 DEF addTransaction
    <3>2. Append(mem.transactionQueue, t) \in Seq(TransactionT)
      BY <1>2, <1>3
    <3> QED BY <1>2, <3>1, <3>2 DEF Same, ChannelFields
  <2>2. CASE ~WillAcceptTransaction(mem)
    <3>1. n = [mem EXCEPT !.pendingTransactions = Append(mem.pendingTransactions, t)]
      BY <1>1, <2>2 DEF addTransaction
    <3>2. Append(mem.pendingTransactions, t) \in Seq(TransactionT)
      BY <1>2, <1>3
    <3> QED BY <1>2, <3>1, <3>2 DEF Same, ChannelFields
  <2> QED BY <2>1, <2>2
<1>5. /\ DOMAIN n = ChannelFields /\ n.ranks = mem.ranks /\ n.banks = mem.banks /\ n.cq = mem.cq
      /\ n.powerDown = mem.powerDown /\ n.refreshRank = mem.refreshRank /\ n.cmd = mem.cmd
      /\ n.data = mem.data /\ n.writeData = mem.writeData /\ n.collision = mem.collision
  BY <1>4 DEF Same, ChannelFields
<1>6. Typed(n) /\ Scheduled(n, 1)
  BY <1>4, <1>5 DEF DramInv, Typed, Scheduled
<1>7. \A r : (BusTo(n, r) <=> BusTo(mem, r)) /\ Its(n, r) = Its(mem, r)
  BY <1>5 DEF BusTo, Its
<1>8. Legal(n)
  BY <1>5, <1>7 DEF DramInv, Legal
<1>9. \A l : /\ BusOf(n, l) = BusOf(mem, l) /\ WaitingOf(n, l) = WaitingOf(mem, l)
             /\ StartsOf(n, l) = StartsOf(mem, l)
  BY <1>5, <1>7 DEF BusOf, WaitingOf, StartsOf
<1>10. DataBus(n, 1)
  <2>1. DataBus(mem, 1)
    BY DEF DramInv
  <2> QED BY <1>5, <1>7, <1>9, <2>1 DEF DataBus
<1>11. Typed(n) /\ Scheduled(n, 1) /\ Legal(n) /\ DataBus(n, 1)
  BY <1>6, <1>8, <1>10
<1> QED BY <1>1, <1>11 DEF DramInv

(* A cycle of the channel, step by step as in MemorySystem::update.        *)
LEMMA UpdateInOrder == DramInv /\ update => DramInv'
<1> SUFFICES ASSUME DramInv, update PROVE DramInv'
  OBVIOUS
<1>0. Typed(mem) /\ Scheduled(mem, 1) /\ Legal(mem) /\ DataBus(mem, 1)
  BY DEF DramInv
<1> DEFINE m0 == UpdateRanks(mem)  m1 == AdmitPending(m0)  m2 == UpdateBankStates(m1)
           m3 == DeliverCommand(m2)  m4 == DeliverData(m3)  m5 == SendWriteData(m4)
           m6 == CheckRefresh(m5)  m7 == [m6 EXCEPT !.cq = Window(m6.cq)]
<1>1. PICK m8 \in IssueCommand(m7, pop(m7.cq, m7.banks)) :
        mem' = Clock([ReturnRead(ManagePower(ScheduleTransaction(m8))) EXCEPT !.done = <<>>])
  BY DEF update
<1> DEFINE m9 == ScheduleTransaction(m8)  m10 == ManagePower(m9)  m11 == ReturnRead(m10)
<1>2. \A l \in Lanes : LaneOK(BusOf(mem, l), WaitingOf(mem, l))
  BY <1>0 DEF DataBus
<1>3. Moved(mem, m7)
  BY <1>0, <1>2, MovedIs
<1> HIDE DEF m7
<1>4. Typed(m7) /\ m7.cmd = <<>> /\ Scheduled(m7, 0) /\ Legal(m7) /\ DataBus(m7, 0)
  BY <1>0, <1>3, MovedInOrder DEF Moved
<1>5. Midway(m8)
  <2>1. CASE pop(m7.cq, m7.banks) = {}
    <3>1. m8 = m7
      BY <1>1, <2>1 DEF IssueCommand
    <3> QED BY <1>4, <3>1, QuietMidway
  <2>2. CASE pop(m7.cq, m7.banks) # {}
    <3>1. PICK x \in pop(m7.cq, m7.banks) : m8 = Issue(m7, x)
      BY <1>1, <2>2 DEF IssueCommand
    <3> QED BY <1>4, <3>1, IssueMidway
  <2> QED BY <2>1, <2>2
<1>6. Midway(m9)
  BY <1>5, ScheduleMidway
<1> HIDE DEF m9
<1>7. Midway(m10)
  BY <1>6, PowerMidway
<1> HIDE DEF m10
<1>8. Midway([m11 EXCEPT !.done = <<>>])
  BY <1>7, ReturnMidway
<1>9. PICK n : n = Clock([m11 EXCEPT !.done = <<>>]) /\ mem' = n
  BY <1>1 DEF m9, m10
<1>10. Typed(n) /\ Scheduled(n, 1) /\ Legal(n) /\ DataBus(n, 1)
  BY <1>8, <1>9, ClockEnds
<1> QED BY <1>9, <1>10 DEF DramInv

(***************************************************************************)
(* The inductive invariant holds in every state of the channel: the record *)
(* is well typed, queues and countdowns are in order, the controller's     *)
(* table and the ranks agree up to the command on the bus, and the bursts  *)
(* have their turns on the data bus.                                       *)
(***************************************************************************)
THEOREM ChannelInOrder == Spec => []DramInv
<1>1. Init => DramInv
  BY InitInOrder
<1>2. DramInv /\ [Next]_vars => DramInv'
  <2> SUFFICES ASSUME DramInv, [Next]_vars PROVE DramInv'
    OBVIOUS
  <2>1. CASE UNCHANGED vars
    <3>1. mem' = mem
      BY <2>1 DEF vars
    <3> QED BY <3>1 DEF DramInv
  <2>2. ASSUME NEW a \in Addrs, NEW isRead \in BOOLEAN, enqueueMemRef(a, isRead) PROVE DramInv'
    BY <2>2, RequestInOrder
  <2>3. CASE update
    BY <2>3, UpdateInOrder
  <2> QED BY <2>1, <2>2, <2>3 DEF Next
<1>3. Spec => Init /\ [][Next]_vars
  BY PTL DEF Spec
<1> QED BY <1>1, <1>2, <1>3, PTL

(***************************************************************************)
(* LegalSchedule for every geometry and every part that satisfies the      *)
(* assumptions: no error exit of Rank.C, MemoryController.C and            *)
(* CommandQueue.C is reachable.                                            *)
(***************************************************************************)
THEOREM ScheduleIsLegal == Spec => []LegalSchedule
<1>1. DramInv => LegalSchedule
  <2> SUFFICES ASSUME DramInv PROVE LegalSchedule
    OBVIOUS
  <2>1. /\ Typed(mem) /\ Legal(mem) /\ ~mem.collision /\ ~mem.cq.overflow
        /\ mem.ranks \in [Ranks -> RankT]
    BY DEF DramInv, DataBus, Scheduled, Typed
  <2>2. \A r \in Ranks : Its(mem, r) =
          IF OnBus(r) THEN receiveFromBus(mem.ranks[r], mem.cmd[1]) ELSE mem.ranks[r]
    BY DEF Its, BusTo, OnBus
  <2>3. ASSUME NEW r \in Ranks PROVE ~mem.ranks[r].rejected
    <3>1. ~Its(mem, r).rejected /\ mem.ranks[r] \in RankT
      BY <2>1 DEF Legal
    <3>2. CASE BusTo(mem, r)
      <4>1. IsCommand(mem.cmd[1])
        BY <2>1, <3>2 DEF Typed, BusTo
      <4>2. Its(mem, r).rejected = (mem.ranks[r].rejected \/ Rejects(mem.ranks[r].banks, mem.cmd[1]))
        BY <3>1, <3>2, <4>1, ReceiveIs DEF Its
      <4> QED BY <3>1, <4>2
    <3>3. CASE ~BusTo(mem, r)
      BY <3>1, <3>3 DEF Its
    <3> QED BY <3>2, <3>3
  <2>4. TablesAgree
    <3> SUFFICES ASSUME NEW r \in Ranks
                 PROVE  LET rank == IF OnBus(r) THEN receiveFromBus(mem.ranks[r], mem.cmd[1])
                                    ELSE mem.ranks[r]
                        IN /\ mem.powerDown[r] = rank.isPowerDown
                           /\ \A b \in Banks :
                                LET mine == mem.banks[r][b]  its == rank.banks[b]
                                IN /\ mine.state \in {"RowActive", "PowerDown"} => its.state = mine.state
                                   /\ mine.state = "RowActive" => its.row = mine.row
                                   /\ mine.state \in {"Idle", "Precharging", "Refreshing"} =>
                                        its.state = "Idle"
      BY DEF TablesAgree
    <3>1. /\ mem.powerDown[r] = Its(mem, r).isPowerDown
          /\ \A b \in Banks : Agree(mem.banks[r][b], Its(mem, r).banks[b])
      BY <2>1 DEF Legal
    <3>2. PICK rank : rank = Its(mem, r)
      OBVIOUS
    <3>3. rank = IF OnBus(r) THEN receiveFromBus(mem.ranks[r], mem.cmd[1]) ELSE mem.ranks[r]
      BY <2>2, <3>2
    <3>4. /\ mem.powerDown[r] = rank.isPowerDown
          /\ \A b \in Banks : Agree(mem.banks[r][b], rank.banks[b])
      BY <3>1, <3>2
    <3> QED BY <3>3, <3>4 DEF Agree
  <2> QED BY <2>1, <2>3, <2>4 DEF LegalSchedule, SimulatorNeverExits
<1> QED BY <1>1, ChannelInOrder, PTL

(***************************************************************************)
(* ActStaysWithColumn: pop may drop "the packet before" on a row hit, and  *)
(* no precharge or refresh closes a row that a column access relies on.    *)
(***************************************************************************)
THEOREM ActsStayWithColumns == Spec => []ActStaysWithColumn
<1>1. DramInv => ActStaysWithColumn
  <2> SUFFICES ASSUME DramInv, NEW r \in Ranks, NEW i \in DOMAIN mem.cq.queues[r]
               PROVE  LET q == mem.cq.queues[r]
                      IN IF q[i].type = "ACTIVATE"
                         THEN i < Len(q) /\ IsColumn(q[i + 1]) /\ q[i + 1].addr = q[i].addr
                         ELSE \/ i > 1 /\ q[i - 1].type = "ACTIVATE"
                              \/ /\ mem.banks[r][q[i].bank].state = "RowActive"
                                 /\ mem.banks[r][q[i].bank].row = q[i].row
    BY DEF ActStaysWithColumn
  <2> DEFINE q == mem.cq.queues[r]
  <2>1. /\ q \in Seq(PacketT(r))
        /\ QueueOK(q, mem.banks[r], mem.cq.rowAccessCounters[r])
    BY DEF DramInv, Typed, QueueTyped, Scheduled
  <2>2. i \in DOMAIN q
    OBVIOUS
  <2> HIDE DEF q
  <2>3. q[i].type = "ACTIVATE" \/ IsColumn(q[i])
    BY <2>1, <2>2, QueuePackets
  <2>4. IF q[i].type = "ACTIVATE"
        THEN i < Len(q) /\ IsColumn(q[i + 1]) /\ q[i + 1].addr = q[i].addr
        ELSE \/ i > 1 /\ q[i - 1].type = "ACTIVATE"
             \/ /\ mem.banks[r][q[i].bank].state = "RowActive"
                /\ mem.banks[r][q[i].bank].row = q[i].row
    BY <2>1, <2>2, <2>3 DEF QueueOK, HasAct
  <2> QED BY <2>4 DEF q
<1> QED BY <1>1, ChannelInOrder, PTL

(***************************************************************************)
(* OneBurst: whatever the mix of reads and writes of the ranks, the data   *)
(* bus carries one burst at a time.                                        *)
(***************************************************************************)
THEOREM OneBurstAtATime == Spec => []OneBurst
<1>1. DramInv => OneBurst
  <2> SUFFICES ASSUME DramInv PROVE OneBurst
    OBVIOUS
  <2> DEFINE reading == {r \in Ranks : mem.ranks[r].outgoing # <<>>}
  <2>1. Typed(mem) /\ DataBus(mem, 1)
    BY DEF DramInv
  <2>2. ASSUME NEW l \in Lanes, BusOf(mem, l) # <<>>
        PROVE  \E s \in StartsOf(mem, l) : s \in Int /\ s <= 0 /\ s > 0 - Burst
    <3> DEFINE x == BusOf(mem, l)
    <3>1. x \in Seq(BurstT) /\ LaneOK(x, WaitingOf(mem, l))
      BY <2>1, LanesTyped DEF DataBus
    <3>2. 1 \in DOMAIN x
      BY <2>2, <3>1
    <3> HIDE DEF x
    <3>3. x[1].left \in 1 .. Burst /\ Burst \in Nat
      BY <3>1, <3>2, Delays DEF LaneOK
    <3>4. x[1].left - Burst \in StartsOf(mem, l)
      BY <3>2 DEF StartsOf, Starts, x
    <3> DEFINE s == x[1].left - Burst
    <3>5. s \in Int /\ s <= 0 /\ s > 0 - Burst
      BY <3>3
    <3> HIDE DEF s
    <3> QED BY <3>4, <3>5 DEF s
  <2>3. ASSUME NEW l \in Lanes, NEW k \in Lanes, BusOf(mem, l) # <<>>, BusOf(mem, k) # <<>>
        PROVE  l = k
    <3> SUFFICES ASSUME l # k PROVE FALSE
      OBVIOUS
    <3>1. PICK s \in StartsOf(mem, l) : s \in Int /\ s <= 0 /\ s > 0 - Burst
      BY <2>2, <2>3
    <3>2. PICK t \in StartsOf(mem, k) : t \in Int /\ t <= 0 /\ t > 0 - Burst
      BY <2>2, <2>3
    <3>3. s + Burst <= t \/ t + Burst <= s
      BY <2>1 DEF DataBus
    <3> QED BY <3>1, <3>2, <3>3, Delays
  <2>4. /\ \A r \in reading : r \in Lanes /\ r # NUM_RANKS /\ BusOf(mem, r) # <<>>
        /\ NUM_RANKS \in Lanes /\ BusOf(mem, NUM_RANKS) = mem.data
    BY GeometryAssumption DEF Lanes, Ranks, BusOf
  <2>5. mem.data \in Seq(BurstT) /\ Len(mem.data) \in Nat /\ Len(mem.data) <= 1
    <3>1. LaneOK(BusOf(mem, NUM_RANKS), WaitingOf(mem, NUM_RANKS))
      BY <2>1, <2>4 DEF DataBus
    <3> QED BY <2>1, <2>4, <3>1 DEF LaneOK, Typed
  <2> HIDE DEF Lanes
  <2>6. CASE mem.data # <<>>
    <3>1. reading = {}
      BY <2>3, <2>4, <2>6
    <3>2. Cardinality(reading) = 0
      BY <3>1, FS_EmptySet
    <3> QED BY <2>5, <3>2 DEF OneBurst
  <2>7. CASE mem.data = <<>> /\ reading = {}
    <3>1. Cardinality(reading) = 0 /\ Len(mem.data) = 0
      BY <2>7, FS_EmptySet
    <3> QED BY <3>1 DEF OneBurst
  <2>8. CASE mem.data = <<>> /\ reading # {}
    <3>1. PICK r : r \in reading
      BY <2>8
    <3>2. reading = {r}
      BY <2>3, <2>4, <3>1
    <3>3. Cardinality(reading) = 1 /\ Len(mem.data) = 0
      BY <2>8, <3>2, FS_Singleton
    <3> QED BY <3>3 DEF OneBurst
  <2> QED BY <2>6, <2>7, <2>8
<1> QED BY <1>1, ChannelInOrder, PTL
=============================================================================
