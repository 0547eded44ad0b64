------------------------------ MODULE Coherence ------------------------------
(***************************************************************************)
(* Ruby's memory hierarchy: the sequencers, the L1 controllers, the L2     *)
(* bank, the memory controller and the messages between them.              *)
(*                                                                         *)
(* Every virtual network of the protocol is declared unordered, so any     *)
(* message in flight may be the next to arrive.  A recycled message stays  *)
(* where it is: recycling is no step, and a state in which everything that *)
(* is in flight is recycled for ever is a deadlock.                        *)
(***************************************************************************)
EXTENDS L1Cache, L2Cache, Directory

CONSTANTS
    Workloads,              \* programs: sets of <<processor, line, operation>>
    OUTSTANDING_REQUESTS    \* g_SEQUENCER_OUTSTANDING_REQUESTS

ASSUME WorkloadAssumption ==
    Workloads \subseteq SUBSET (Procs \X Addrs \X Ops) /\ OUTSTANDING_REQUESTS \in Nat \ {0}

VARIABLES
    workload,       \* the program that runs: what the processors request
    l1,             \* the L1 controllers
    l2,             \* the L2 bank
    directory,      \* DataBlk of every line in memory
    m_input_queue,      \* DRAMsimControl: requests the DRAM is working on
    m_response_queue,   \* DRAMsimControl: completed requests
    net,            \* the bag of messages in flight
    outstanding     \* the read and write request tables of the sequencers

vars == <<workload, l1, l2, directory, m_input_queue, m_response_queue, net, outstanding>>

Init ==
    /\ workload \in Workloads
    /\ l1 = [p \in Procs |-> L1Init]
    /\ l2 = L2Init
    /\ directory = [a \in Addrs |-> "fresh"]
    /\ m_input_queue = EmptyBag
    /\ m_response_queue = EmptyBag
    /\ net = EmptyBag
    /\ outstanding = [p \in Procs |-> {}]

-----------------------------------------------------------------------------
(* doRequest's fast path: a fetch that hits is answered at once, without a *)
(* trace (the data cache's fast path is turned off).                       *)
FastPathHit(p, a, op) ==
    op = "IFETCH" /\ a \in l1[p].icache /\ L1State(l1[p], a) \in {"S", "E", "M"}

(* Sequencer::isReady and makeRequest: at most one request per line.       *)
MakeRequest(p, a, op) ==
    /\ Cardinality(outstanding[p]) < OUTSTANDING_REQUESTS
    /\ \A r \in outstanding[p] : r[1] # a
    /\ ~FastPathHit(p, a, op)
    /\ outstanding' = [outstanding EXCEPT ![p] = @ \cup {<<a, op>>}]
    /\ l1' = [l1 EXCEPT ![p].mandatory = @ \cup {<<a, op>>}]
    /\ UNCHANGED <<workload, l2, directory, m_input_queue, m_response_queue, net>>

(* A store makes the writer's block the fresh one and every other copy of  *)
(* the line, wherever it is, an old one.                                   *)
Age(x) == IF x = "fresh" THEN "stale" ELSE x

AgeL1(c, a) == [c EXCEPT !.entry[a].data = Age(@), !.tbe[a].data = Age(@)]

AgeMsg(a, m) == IF m.addr = a THEN [m EXCEPT !.data = Age(@)] ELSE m

(* Two messages that differed in this only are alike from now on. *)
AgeBag(bag, a) ==
    LET Copies(m) == IF m \in DOMAIN bag THEN bag[m] ELSE 0
    IN  [m \in {AgeMsg(a, d) : d \in DOMAIN bag} |->
            IF m.addr = a /\ m.data = "stale" THEN Copies(m) + Copies([m EXCEPT !.data = "fresh"])
            ELSE bag[m]]

StoreTo(p, a, c, msgs) ==
    /\ l1' = [q \in Procs |-> IF q = p THEN [c EXCEPT !.entry[a].data = "fresh"]
                              ELSE AgeL1(l1[q], a)]
    /\ l2' = [l2 EXCEPT !.entry[a].data = Age(@), !.tbe[a].data = Age(@)]
    /\ directory' = [directory EXCEPT ![a] = "stale"]
    /\ m_input_queue' = AgeBag(m_input_queue, a)
    /\ m_response_queue' = AgeBag(m_response_queue, a)
    /\ net' = AgeBag(msgs, a)

(* What a run of the L1's actions does to the system: readCallback and     *)
(* writeCallback take the request out of the sequencer's table.            *)
L1Commit(p, a, r, msgs) ==
    /\ UNCHANGED workload
    /\ outstanding' =
          [outstanding EXCEPT ![p] =
              CASE r.callback = "none" -> @
                [] r.callback = "read" -> @ \ {<<a, "LD">>, <<a, "IFETCH">>}
                [] r.callback = "write" -> @ \ {<<a, "ST">>}]
    /\ IF r.callback = "write" THEN StoreTo(p, a, r.c, msgs)
       ELSE /\ l1' = [l1 EXCEPT ![p] = r.c]
            /\ net' = msgs
            /\ UNCHANGED <<l2, directory, m_input_queue, m_response_queue>>

(* The network after a run that was started by message m. *)
Exchange(m, r) == (IF r.pop THEN net (-) SetToBag({m}) ELSE net) (+) SetToBag(r.out)

(* A row that changes something. *)
Takes(row) == row \notin {Recycle, Invalid}

(* The L1 serves the request at the head of its mandatory queue. *)
L1Mandatory(p, req) ==
    \E e \in L1MandatoryEvents(l1[p], req[1], req[2]) :
        LET ev == e[1]
            a == e[2]
        IN  /\ Takes(L1Transition(L1State(l1[p], a), ev))
            /\ \E r \in {L1Do(l1[p], p, a, req, ev)} :
                  L1Commit(p, a, r, net (+) SetToBag(r.out))

(* The L1 takes a message from the network. *)
L1Receive(p, m) ==
    LET c == l1[p]
        ev == L1MessageEvent(c, m)
    IN  /\ Takes(L1Transition(L1State(c, m.addr), ev))
        /\ \E r \in {L1Do(c, p, m.addr, m, ev)} : L1Commit(p, m.addr, r, Exchange(m, r))

(* The L2 takes a message from the network, or replaces a line for it. *)
L2Receive(m) ==
    \E e \in L2MessageEvents(l2, m) :
        LET ev == e[1]
            a == e[2]
        IN  /\ Takes(L2Transition(L2State(l2, a), ev))
            /\ \E r \in {L2Do(l2, a, m, ev)} : l2' = r.c /\ net' = Exchange(m, r)
            /\ UNCHANGED <<workload, l1, directory, m_input_queue, m_response_queue, outstanding>>

(* The directory takes a fetch, a writeback or a clean replacement. *)
DirReceive(m) ==
    /\ net' = net (-) SetToBag({m})
    /\ IF m.type = "GETS"
       THEN /\ m_input_queue' = m_input_queue (+)
                                  SetToBag({qf_queueMemoryFetchRequest(directory, m)})
            /\ UNCHANGED directory
       ELSE /\ directory' = m_writeDataToMemory(directory, m)
            /\ m_input_queue' = m_input_queue (+) SetToBag({qw_queueMemoryWBRequest(m)})
    /\ UNCHANGED <<workload, l1, l2, m_response_queue, outstanding>>

(* A callback of the DRAM for an address. *)
DramComplete(a) ==
    /\ OfAddress(m_input_queue, a) # EmptyBag
    /\ m_response_queue' = m_response_queue (+) OfAddress(m_input_queue, a)
    /\ m_input_queue' = m_input_queue (-) OfAddress(m_input_queue, a)
    /\ UNCHANGED <<workload, l1, l2, directory, net, outstanding>>

(* The directory takes a completed request and answers the L2. *)
DirMemory(op) ==
    /\ m_response_queue' = m_response_queue (-) SetToBag({op})
    /\ net' = net (+) SetToBag({DirectoryAnswer(op)})
    /\ UNCHANGED <<workload, l1, l2, directory, m_input_queue, outstanding>>

Deliver(m) ==
    CASE m.dest \in Procs -> L1Receive(m.dest, m)
      [] m.dest = L2 -> L2Receive(m)
      [] m.dest = Dir -> DirReceive(m)

Next ==
    \/ \E w \in workload : MakeRequest(w[1], w[2], w[3])
    \/ \E p \in Procs : \E req \in l1[p].mandatory : L1Mandatory(p, req)
    \/ \E m \in DOMAIN net : Deliver(m)
    \/ \E a \in Addrs : DramComplete(a)
    \/ \E op \in DOMAIN m_response_queue : DirMemory(op)

Spec == Init /\ [][Next]_vars

(* A controller is woken while a message waits for it, and so is the DRAM  *)
(* while it has a request: as long as a line has an answer or a memory     *)
(* request under way, one of them makes progress.  Nothing is assumed of   *)
(* the requests of the L1s, which the L2 may recycle again and again while *)
(* it serves others.                                                       *)
Progress(a) ==
    \/ \E m \in DOMAIN net : m.addr = a /\ (m.dest = L2 => m.type \notin Requests) /\ Deliver(m)
    \/ DramComplete(a)
    \/ \E op \in DOMAIN m_response_queue : op.addr = a /\ DirMemory(op)

Fairness == \A a \in Addrs : WF_vars(Progress(a))

FairSpec == Spec /\ Fairness

=============================================================================
