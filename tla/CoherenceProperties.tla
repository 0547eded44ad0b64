------------------------- MODULE CoherenceProperties -------------------------
(***************************************************************************)
(* What the coherence protocol promises.                                   *)
(***************************************************************************)
EXTENDS Coherence

(* The assertion of getState and setState: a line is in one of the two L1  *)
(* caches of a processor only; and no cache set holds more than its ways.  *)
TagsConsistent ==
    /\ \A p \in Procs : /\ l1[p].icache \cap l1[p].dcache = {}
                        /\ Cardinality(l1[p].icache) <= L1_WAYS
                        /\ Cardinality(l1[p].dcache) <= L1_WAYS
    /\ Cardinality(l2.tags) <= L2_WAYS

(* Types of the controllers, the messages and the queues, and what the     *)
(* controllers assert of their caches at each transition.                  *)
TypeOK ==
    /\ l1 \in [Procs -> L1Controller]
    /\ l2 \in L2Controller
    /\ directory \in [Addrs -> Blocks]
    /\ DOMAIN m_input_queue \subseteq MemoryMsgs
    /\ DOMAIN m_response_queue \subseteq MemoryMsgs
    /\ DOMAIN net \subseteq Message
    /\ outstanding \in [Procs -> SUBSET (Addrs \X Ops)]
    /\ TagsConsistent

(* The state of line a in the L1 of p. *)
St(p, a) == L1State(l1[p], a)

(* No controller ever meets an event its table has no transition for, nor  *)
(* a message its in_port does not know: the generated code stops the       *)
(* simulation in that case.                                                *)
NoInvalidTransition ==
    /\ \A m \in DOMAIN net :
          CASE m.dest \in Procs ->
                 L1Transition(St(m.dest, m.addr), L1MessageEvent(l1[m.dest], m)) # Invalid
            [] m.dest = L2 ->
                 \A e \in L2MessageEvents(l2, m) : L2Transition(L2State(l2, e[2]), e[1]) # Invalid
            [] m.dest = Dir -> m.type \in {"GETS", "MEMORY_DATA", "ACK"}
    /\ \A p \in Procs : \A req \in l1[p].mandatory :
          \A e \in L1MandatoryEvents(l1[p], req[1], req[2]) :
              L1Transition(St(p, e[2]), e[1]) # Invalid

(* A line that one L1 may write (E and M) can be read in no other L1,      *)
(* although Invs, data and acknowledgements overtake each other.           *)
SingleWriter ==
    \A p, q \in Procs, a \in Addrs :
        p # q /\ St(p, a) \in {"E", "M"} => St(q, a) \notin {"S", "E", "M"}

(* A block an L1 lets its processor read has not been overwritten anywhere *)
(* else, and the block the L2 hands out in SS and M neither.  It has been  *)
(* set, too, unless memory itself holds an unset block (see StoreHistory). *)
ReadableIsCurrent ==
    \A a \in Addrs :
        LET current == IF directory[a] = "unset" THEN {"fresh", "unset"} ELSE {"fresh"}
        IN  /\ \A p \in Procs : St(p, a) \in {"S", "E", "M"} => l1[p].entry[a].data \in current
            /\ L2State(l2, a) \in {"SS", "M"} => l2.entry[a].data \in current

(* The L2 knows every L1 that can read a line: it is in the sharer list,   *)
(* or the L2 is taking the line away and the Inv is still on its way.      *)
(* L1s drop shared lines silently, so the converse does not hold.          *)
SharersCovered ==
    \A p \in Procs, a \in Addrs :
        St(p, a) \in {"S", "E", "M"} =>
            \/ isSharer(l2, a, p)
            \/ \E m \in DOMAIN net : m.addr = a /\ m.dest = p /\ m.type = "INV"
            \/ L2State(l2, a) \in Blocked

(* Coherence: one writer or many readers, all of them known to the L2, and *)
(* none with an old block or, while memory has a block, with none at all.  *)
(* What the sharer list, the acknowledgement counts and the transient      *)
(* states of the two tables are for.                                       *)
Coherent == SingleWriter /\ ReadableIsCurrent /\ SharersCovered

(* A store on its way to memory survives every replacement race: from the  *)
(* store until m_writeDataToMemory writes its block, a cache, a TBE or a   *)
(* message that will be written back has the block, marked dirty.  (What   *)
(* becomes of a block that memory has received is no part of it: a clean   *)
(* replacement may overwrite it, see StoreHistory.)                        *)
UnwrittenStoreKept ==
    \A a \in Addrs : directory[a] = "stale" =>
        \/ \E p \in Procs : LET c == l1[p] IN
              \/ isL1CacheTagPresent(c, a) /\ c.entry[a].data = "fresh" /\ c.entry[a].dirty
              \/ c.tbe[a].data = "fresh" /\ c.tbe[a].dirty
        \/ a \in l2.tags /\ l2.entry[a].data = "fresh" /\ l2.entry[a].dirty
        \/ l2.tbe[a].data = "fresh" /\ l2.tbe[a].dirty
        \/ \E m \in DOMAIN net : m.addr = a /\ m.data = "fresh" /\ m.dirty

(* Every request of a processor is in one place: in the mandatory queue,   *)
(* or waited for by a line in the matching transient state.  So each       *)
(* callback finds its request in the sequencer's table and no request is   *)
(* called back twice or forgotten.                                         *)
RequestInOnePlace ==
    \A p \in Procs, a \in Addrs :
        LET reads == {<<a, "LD">>, <<a, "IFETCH">>}
            writes == {<<a, "ST">>}
            Waits(rs) == rs \cap outstanding[p] # {}
            Queued(rs) == rs \cap l1[p].mandatory # {}
        IN  /\ l1[p].mandatory \subseteq outstanding[p]
            /\ St(p, a) \in {"IS", "IS_I"} <=> Waits(reads) /\ ~Queued(reads)
            /\ St(p, a) \in {"IM", "SM"} <=> Waits(writes) /\ ~Queued(writes)

(* A line has at most one request at the DRAM, so that enqueueToResponse,  *)
(* which completes every queued request of an address, completes the one   *)
(* the DRAM has served.                                                    *)
OneMemoryOp ==
    \A op, other \in DOMAIN m_input_queue :
        op.addr = other.addr => op = other /\ m_input_queue[op] = 1

(* A line the L2 has blocked, is fetching or is writing back comes to rest *)
(* again: the acknowledgements, unblocks and data it waits for all arrive, *)
(* whichever of them overtake each other.                                  *)
BusyLineSettles ==
    \A a \in Addrs : L2State(l2, a) \notin {"NP", "SS", "M", "MT"}
                        ~> L2State(l2, a) \in {"NP", "SS", "M", "MT"}

(* A line whose memory copy is out of date is never replaced as clean: the *)
(* ACK of a clean replacement overwrites memory with its unset data.       *)
CleanReplacementIsClean ==
    [][\A a \in Addrs : directory[a] = "stale" => directory'[a] # "unset"]_vars

=============================================================================
