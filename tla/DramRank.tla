---------------------------- MODULE DramRank ----------------------------
(***************************************************************************)
(* A rank of DRAM devices (gems-lib/ruby_clean/DRAM/Rank.C): its own table *)
(* of bank states, the reads on their way back, and the checks it makes of *)
(* every command that reaches it.  A command it does not allow makes the   *)
(* simulator exit; here the rank's field `rejected' becomes TRUE.          *)
(*                                                                         *)
(* Absolute deadlines (nextRead = currentClockCycle + d, compared with     *)
(* currentClockCycle) are kept as the number of cycles still to wait, 0    *)
(* once the deadline has passed; Tick is one step of the clock.            *)
(*                                                                         *)
(* Configuration: open_page, per_rank, rank_then_bank_round_robin          *)
(* (ACCELERATOR_system.ini) and AL = 0 (every part file of DRAM/ini).  So  *)
(* the commands with auto-precharge (READ_P, WRITE_P) do not occur.        *)
(***************************************************************************)
EXTENDS Integers, Sequences, FiniteSets, SequencesExt

CONSTANTS NUM_RANKS, NUM_BANKS,
          Addrs,      \* transaction addresses of one channel
          Location,   \* addressMapping: address -> [rank, bank, row]
          T           \* the timing parameters of the part, in clock cycles

Ranks == 0 .. NUM_RANKS - 1
Banks == 0 .. NUM_BANKS - 1

RL == T.CL
WL == RL - 1
Burst == T.BL \div 2
READ_TO_PRE_DELAY == Burst + Max({T.tRTP, 2}) - 2
WRITE_TO_PRE_DELAY == WL + Burst + T.tWR
READ_TO_WRITE_DELAY == RL + Burst + T.tRTRS - WL
WRITE_TO_READ_DELAY_B == WL + Burst + T.tWTR
WRITE_TO_READ_DELAY_R == WL + Burst + T.tRTRS - RL

ASSUME GeometryAssumption == NUM_RANKS \in Nat \ {0} /\ NUM_BANKS \in Nat \ {0}

(***************************************************************************)
(* What the part files have in common: a command takes one cycle on the    *)
(* bus, a row is open long enough for its column access, and a bank that   *)
(* has to be activated first cannot beat the turnaround of the data bus.   *)
(***************************************************************************)
ASSUME TimingAssumption ==
    /\ T \in [CL : Nat, BL : Nat, tRAS : Nat, tRCD : Nat, tRRD : Nat, tRC : Nat, tRP : Nat,
               tCCD : Nat, tRTP : Nat, tWTR : Nat, tWR : Nat, tRTRS : Nat, tRFC : Nat,
               tFAW : Nat, tCKE : Nat, tXP : Nat, tCMD : Nat]
    /\ T.tCMD = 1 /\ T.BL % 2 = 0 /\ T.BL > 0 /\ T.CL > 1
    /\ T.tRP > 0 /\ T.tRFC >= T.tRP /\ T.tRC >= T.tRAS + T.tRP
    /\ T.tRTRS > 0 /\ T.tCCD >= Burst
    /\ T.tRCD + 1 >= READ_TO_WRITE_DELAY

ASSUME LocationAssumption == Location \in [Addrs -> [rank : Ranks, bank : Banks, row : Nat]]

Later(x, y) == IF x > y THEN x ELSE y
Sooner(x) == IF x > 0 THEN x - 1 ELSE 0

(***************************************************************************)
(* BankState: all banks start precharged.  `countdown' is                  *)
(* stateChangeCountdown, which only the controller's table uses.  The      *)
(* lastCommand that goes with it is always PRECHARGE or REFRESH while the  *)
(* countdown runs, and both end in Idle.                                   *)
(***************************************************************************)
BankState == [state |-> "Idle", row |-> 0, read |-> 0, write |-> 0,
              activate |-> 0, precharge |-> 0, powerUp |-> 0, countdown |-> 0]

Tick(b) == [b EXCEPT !.read = Sooner(@), !.write = Sooner(@),
                     !.activate = Sooner(@), !.precharge = Sooner(@),
                     !.powerUp = Sooner(@)]

BusPacket(type, a) == [type |-> type, addr |-> a, rank |-> Location[a].rank,
                       bank |-> Location[a].bank, row |-> Location[a].row]
Control(type, r, b) == [type |-> type, rank |-> r, bank |-> b]

(***************************************************************************)
(* The state and the timing a command needs of its bank.                   *)
(***************************************************************************)
Allowed(bank, p) ==
    CASE p.type = "READ" -> bank.state = "RowActive" /\ bank.read = 0 /\ bank.row = p.row
      [] p.type = "WRITE" -> bank.state = "RowActive" /\ bank.write = 0 /\ bank.row = p.row
      [] p.type = "ACTIVATE" -> bank.state = "Idle" /\ bank.activate = 0
      [] p.type = "PRECHARGE" -> bank.state = "RowActive" /\ bank.precharge = 0
      [] p.type = "REFRESH" -> bank.state = "Idle"

(***************************************************************************)
(* What a column access does to the banks of its rank.                     *)
(***************************************************************************)
Column(banks, p) ==
    LET toRead == IF p.type = "READ" THEN Later(T.tCCD, Burst) ELSE WRITE_TO_READ_DELAY_B
        toWrite == IF p.type = "READ" THEN READ_TO_WRITE_DELAY ELSE Later(T.tCCD, Burst)
        toPre == IF p.type = "READ" THEN READ_TO_PRE_DELAY ELSE WRITE_TO_PRE_DELAY
    IN [k \in Banks |->
          [banks[k] EXCEPT !.read = Later(@, toRead), !.write = Later(@, toWrite),
                           !.precharge = IF k = p.bank THEN Later(@, toPre) ELSE @]]

(***************************************************************************)
(* What opening a row does to the banks of its rank.                       *)
(***************************************************************************)
Activate(banks, p) ==
    [k \in Banks |->
       IF k = p.bank
       THEN [banks[k] EXCEPT !.state = "RowActive", !.row = p.row,
                             !.activate = Later(@, T.tRC), !.read = Later(@, T.tRCD),
                             !.write = Later(@, T.tRCD), !.precharge = Later(@, T.tRAS)]
       ELSE [banks[k] EXCEPT !.activate = Later(@, T.tRRD)]]

(***************************************************************************)
(* The rank's own ACT forgets the earlier deadlines of the bank.           *)
(***************************************************************************)
Forget(b) == [b EXCEPT !.activate = 0, !.read = 0, !.write = 0, !.precharge = 0]
Reopen(banks, p) == Activate([banks EXCEPT ![p.bank] = Forget(@)], p)

(***************************************************************************)
(* A precharge closes the row at once; the rank only keeps the next ACT    *)
(* away.                                                                   *)
(***************************************************************************)
Shut(b) == [b EXCEPT !.state = "Idle", !.activate = Later(@, T.tRP)]

(***************************************************************************)
(* readReturn is readReturnPacket with readReturnCountdown; outgoing is    *)
(* outgoingDataPacket with dataCyclesLeft, at most one element.            *)
(***************************************************************************)
Rank == [banks |-> [b \in Banks |-> BankState], isPowerDown |-> FALSE,
         refreshWaiting |-> FALSE, readReturn |-> <<>>, outgoing |-> <<>>,
         rejected |-> FALSE]

\* A mistake the properties must notice: refreshWaiting stays set.
Refresh_KeepsWaiting(r) ==
    [r EXCEPT !.banks = [k \in Banks |-> [@[k] EXCEPT !.activate = T.tRFC]]]

Refresh(r) ==
    [r EXCEPT !.banks = [k \in Banks |-> [@[k] EXCEPT !.activate = T.tRFC]],
              !.refreshWaiting = FALSE]

receiveFromBus(r, p) ==
    LET rejects == IF p.type = "REFRESH"
                   THEN \E k \in Banks : ~Allowed(r.banks[k], p)
                   ELSE ~Allowed(r.banks[p.bank], p)
        seen == [r EXCEPT !.rejected = @ \/ rejects]
    IN CASE p.type = "READ" ->
              [seen EXCEPT !.banks = Column(@, p),
                           !.readReturn = Append(@, [addr |-> p.addr, left |-> RL])]
         [] p.type = "WRITE" -> [seen EXCEPT !.banks = Column(@, p)]
         [] p.type = "ACTIVATE" ->
              [seen EXCEPT !.banks = Reopen(@, p)]
         [] p.type = "PRECHARGE" ->
              [seen EXCEPT !.banks[p.bank] = Shut(@)]
         [] p.type = "REFRESH" -> Refresh(seen)

(***************************************************************************)
(* The countdowns of bursts, one cycle later.                              *)
(***************************************************************************)
Nearer(bursts) == [i \in DOMAIN bursts |-> [bursts[i] EXCEPT !.left = @ - 1]]

(***************************************************************************)
(* Rank::update: the burst on the bus ends, and the oldest read whose      *)
(* latency is over takes the bus.  RankDelivers is what receiveFromBus of  *)
(* the controller gets in that cycle.                                      *)
(***************************************************************************)
RankDelivers(r) ==
    IF r.outgoing # <<>> /\ r.outgoing[1].left = 1 THEN <<r.outgoing[1].addr>> ELSE <<>>

RankUpdate(r) ==
    LET bus == IF RankDelivers(r) # <<>> THEN <<>> ELSE Nearer(r.outgoing)
        waiting == Nearer(r.readReturn)
    IN IF waiting # <<>> /\ waiting[1].left = 0
       THEN [r EXCEPT !.outgoing = <<[addr |-> waiting[1].addr, left |-> Burst]>>,
                      !.readReturn = Tail(waiting)]
       ELSE [r EXCEPT !.outgoing = bus, !.readReturn = waiting]

PowerDown(b) == [b EXCEPT !.state = "PowerDown", !.powerUp = T.tCKE]
PowerUp(b) == [b EXCEPT !.state = "Idle", !.activate = T.tXP]

powerDown(r) ==
    [r EXCEPT !.rejected = @ \/ \E k \in Banks : r.banks[k].state # "Idle",
              !.banks = [k \in Banks |-> PowerDown(@[k])],
              !.isPowerDown = TRUE]

powerUp(r) ==
    [r EXCEPT !.rejected = \/ @ 
                           \/ ~r.isPowerDown
                           \/ \E k \in Banks : r.banks[k].powerUp > 0,
              !.banks = [k \in Banks |-> PowerUp(@[k])],
              !.isPowerDown = FALSE]
=============================================================================
