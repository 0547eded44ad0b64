-------------------------- MODULE CommandQueue --------------------------
(***************************************************************************)
(* The command queue of a memory controller                                *)
(* (gems-lib/ruby_clean/DRAM/CommandQueue.C) in the configured mode: one   *)
(* queue per rank, open page, ranks served round robin.  It reads the      *)
(* controller's table of bank states and chooses the command of the cycle. *)
(*                                                                         *)
(* A queue is the field `queues' of the record cq; the members of the      *)
(* class are its other fields.  nextBank is written and never read in this *)
(* mode, and is left out.                                                  *)
(***************************************************************************)
EXTENDS DramRank

CONSTANTS CMD_QUEUE_DEPTH,
          TOTAL_ROW_ACCESSES   \* row hits served before the row is closed

ASSUME CommandQueueAssumption ==
    TOTAL_ROW_ACCESSES \in Nat \ {0} /\ CMD_QUEUE_DEPTH \in Nat \ {0, 1}

CommandQueueInit ==
    [queues |-> [r \in Ranks |-> <<>>], nextRank |-> 0,
     nextRankPRE |-> 0, nextBankPRE |-> 0, refreshRank |-> 0, refreshWaiting |-> FALSE,
     rowAccessCounters |-> [r \in Ranks |-> [b \in Banks |-> 0]],
     tFAWCountdown |-> [r \in Ranks |-> <<>>], overflow |-> FALSE]

\* A mistake the properties must notice: room for one packet less than asked.
hasRoomFor_OneLess(cq, n, r) == CMD_QUEUE_DEPTH - Len(cq.queues[r]) >= n - 1
hasRoomFor(cq, n, r) == CMD_QUEUE_DEPTH - Len(cq.queues[r]) >= n

(***************************************************************************)
(* enqueue exits the simulator on a queue longer than its depth.           *)
(***************************************************************************)
enqueue(cq, p) ==
    [cq EXCEPT !.queues[p.rank] = Append(@, p),
               !.overflow = @ \/ Len(cq.queues[p.rank]) >= CMD_QUEUE_DEPTH]

needRefresh(cq, r) == [cq EXCEPT !.refreshWaiting = TRUE, !.refreshRank = r]

(***************************************************************************)
(* isIssuable: an ACT may also follow a refresh that is just over, within  *)
(* the four-activate window; a row closes after TOTAL_ROW_ACCESSES hits.   *)
(***************************************************************************)
isIssuable(cq, banks, p) ==
    LET bank == banks[p.rank][p.bank]
    IN IF p.type = "ACTIVATE"
       THEN /\ bank.state \in {"Idle", "Refreshing"}
            /\ bank.activate = 0
            /\ Len(cq.tFAWCountdown[p.rank]) < 4
       ELSE /\ Allowed(bank, p)
            /\ cq.rowAccessCounters[p.rank][p.bank] < TOTAL_ROW_ACCESSES

SameRow(p, q) == p.bank = q.bank /\ p.row = q.row
IsOpenRow(banks, r, b, p) == p.bank = b /\ p.row = banks[r][b].row

(***************************************************************************)
(* The outcome of pop is a set: empty when it returns false, else the      *)
(* command and the queue that is left.                                     *)
(***************************************************************************)
Popped(p, cq) == {[packet |-> p, cq |-> cq]}

Precharge(cq, r, b) ==
    Popped(Control("PRECHARGE", r, b), [cq EXCEPT !.rowAccessCounters[r][b] = 0])

(***************************************************************************)
(* The part of pop for a rank that waits for its refresh.  The banks are   *)
(* looked at in order up to the first one that stops the REF.  If its row  *)
(* is open, the first packet of the queue for that row decides: a column   *)
(* access has had its ACT and is sent first; an ACT, or none, lets the row *)
(* be closed.                                                              *)
(***************************************************************************)
\* A mistake the properties must notice: the column accesses only, although
\* the ACT of one may still be in the queue.
RowHits_Columns(cq, banks, r, b) ==
    {j \in DOMAIN cq.queues[r] : /\ IsOpenRow(banks, r, b, cq.queues[r][j])
                                 /\ cq.queues[r][j].type # "ACTIVATE"}

RowHits(cq, banks, r, b) ==
    {j \in DOMAIN cq.queues[r] : IsOpenRow(banks, r, b, cq.queues[r][j])}

RefreshAt(cq, banks, r, b) ==
    LET q == cq.queues[r]
        hits == RowHits(cq, banks, r, b)
    IN CASE banks[r][b].state # "RowActive" -> {}
         [] banks[r][b].state = "RowActive" /\ hits # {} /\ q[Min(hits)].type # "ACTIVATE" ->
              {[packet |-> q[j], cq |-> [cq EXCEPT !.queues[r] = RemoveAt(@, j)]] :
                 j \in {j \in {Min(hits)} : isIssuable(cq, banks, q[j])}}
         [] OTHER -> IF banks[r][b].precharge = 0 THEN Precharge(cq, r, b) ELSE {}

(***************************************************************************)
(* No bank stops the REF, but the rank may still sleep.                    *)
(***************************************************************************)
SendREF(cq, banks, r) ==
    IF banks[r][0].state = "PowerDown" THEN {}
    ELSE Popped(Control("REFRESH", r, 0),
                [cq EXCEPT !.refreshRank = -1, !.refreshWaiting = FALSE])

RefreshPop(cq, banks) ==
    LET r == cq.refreshRank
        stopping == {b \in Banks : \/ banks[r][b].state = "RowActive"
                                   \/ banks[r][b].activate > 0}
    IN CASE ~cq.refreshWaiting -> {}
         [] cq.refreshWaiting /\ stopping = {} -> SendREF(cq, banks, r)
         [] cq.refreshWaiting /\ stopping # {} ->
              UNION {RefreshAt(cq, banks, r, b) : b \in {Min(stopping)}}

(***************************************************************************)
(* The commands of a rank's queue that may go now: issuable, and not       *)
(* overtaking an earlier access to the same row.                           *)
(***************************************************************************)
Ready(cq, banks, r) ==
    LET q == cq.queues[r]
    IN {i \in DOMAIN q :
          /\ ~(cq.refreshWaiting /\ r = cq.refreshRank)
          /\ isIssuable(cq, banks, q[i])
          /\ ~\E j \in 1 .. i - 1 : q[j].type # "ACTIVATE" /\ SameRow(q[j], q[i])}

(***************************************************************************)
(* The first such command of the first rank that has one, from nextRank    *)
(* on.  A column access to a row that is already open takes its own ACT,   *)
(* the packet before it, out of the queue with it, and counts as a row     *)
(* hit.                                                                    *)
(***************************************************************************)
Taken(cq, r, i) ==
    LET q == cq.queues[r]
    IN IF i > 1 /\ q[i - 1].type = "ACTIVATE"
       THEN [cq EXCEPT !.queues[r] = RemoveAt(RemoveAt(@, i), i - 1), !.nextRank = r,
                       !.rowAccessCounters[r][q[i].bank] = @ + 1]
       ELSE [cq EXCEPT !.queues[r] = RemoveAt(@, i), !.nextRank = r]

ReadyPop(cq, banks) ==
    LET able == {r \in Ranks : Ready(cq, banks, r) # {}}
        turn(r) == (r - cq.nextRank) % NUM_RANKS
        next == {r \in able : \A s \in able : turn(r) <= turn(s)}
    IN {[packet |-> cq.queues[x[1]][x[2]], cq |-> Taken(cq, x[1], x[2])] :
          x \in {<<r, Min(Ready(cq, banks, r))>> : r \in next}}

(***************************************************************************)
(* Nothing is ready: close an open row nobody waits for, or one that has   *)
(* had its share of accesses.  nextRankAndBank goes through the ranks      *)
(* first, then the banks.                                                  *)
(***************************************************************************)
MayClose(cq, banks, r, b) ==
    /\ banks[r][b].state = "RowActive"
    /\ \/ ~\E i \in DOMAIN cq.queues[r] : IsOpenRow(banks, r, b, cq.queues[r][i])
       \/ cq.rowAccessCounters[r][b] = TOTAL_ROW_ACCESSES
    /\ banks[r][b].precharge = 0

PrechargePop(cq, banks) ==
    LET place(r, b) == b * NUM_RANKS + r
        turn(x) == (place(x[1], x[2]) - place(cq.nextRankPRE, cq.nextBankPRE))
                     % (NUM_RANKS * NUM_BANKS)
        able == {x \in Ranks \X Banks : MayClose(cq, banks, x[1], x[2])}
        next == {x \in able : \A y \in able : turn(x) <= turn(y)}
    IN UNION {Precharge([cq EXCEPT !.nextRankPRE = x[1], !.nextBankPRE = x[2]],
                        x[1], x[2]) : x \in next}

(***************************************************************************)
(* pop: the four-activate window moves on, a command is chosen, and the    *)
(* round robin advances (with AL = 0, after every command sent).           *)
(***************************************************************************)
Window(cq) ==
    LET older(s) == [i \in DOMAIN s |-> s[i] - 1]
        trim(s) == IF s # <<>> /\ s[1] = 0 THEN Tail(s) ELSE s
    IN [cq EXCEPT !.tFAWCountdown = [r \in Ranks |-> trim(older(@[r]))]]

Sent(x) ==
    LET r == x.packet.rank
        c == [x.cq EXCEPT !.nextRank = (@ + 1) % NUM_RANKS]
    IN IF x.packet.type = "ACTIVATE"
       THEN [x EXCEPT !.cq = [c EXCEPT !.tFAWCountdown[r] = Append(@, T.tFAW)]]
       ELSE [x EXCEPT !.cq = c]

pop(cq, banks) ==
    LET first == RefreshPop(cq, banks)
        second == ReadyPop(cq, banks)
    IN {Sent(x) : x \in IF first # {} THEN first
                        ELSE IF second # {} THEN second
                        ELSE PrechargePop(cq, banks)}
=============================================================================
