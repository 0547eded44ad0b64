-------------------------------- MODULE Ruby --------------------------------
(***************************************************************************)
(* The Ruby memory system as the simulator sees it through O3sim_ruby:     *)
(* one Sequencer with its table of outstanding reads and its table of      *)
(* outstanding writes, and the queue of line addresses whose requests have *)
(* been called back and not yet popped by the driver.                      *)
(*                                                                         *)
(* Everything between Sequencer::issueRequest and the read or write        *)
(* callback (controllers, network, DRAM) is abstracted to an arbitrary     *)
(* delay and an arbitrary order: a callback may come for any outstanding   *)
(* line whenever Ruby's clock is advanced.  The configuration in the       *)
(* repository sets TSO to false, one SMT thread, and removes the           *)
(* single-cycle fast path, so no callback happens inside makeRequest.      *)
(***************************************************************************)
EXTENDS Naturals, Sequences, FiniteSets

CONSTANTS
    Lines,                  \* the cache-line addresses that are ever requested
    OUTSTANDING_REQUESTS    \* g_SEQUENCER_OUTSTANDING_REQUESTS

ASSUME RubyAssumption ==
    /\ Lines \subseteq Nat
    /\ OUTSTANDING_REQUESTS \in Nat \ {0}

VARIABLES
    m_readRequestTable,     \* lines with an outstanding load
    m_writeRequestTable,    \* lines with an outstanding store
    m_outstanding_count,    \* the Sequencer's own count of the two tables
    m_callback_queue        \* lines answered, in the order of hitCallback

rubyVars == <<m_readRequestTable, m_writeRequestTable, m_outstanding_count,
              m_callback_queue>>

RubyTypeOK ==
    /\ m_readRequestTable \in SUBSET Lines
    /\ m_writeRequestTable \in SUBSET Lines
    /\ m_outstanding_count \in Nat
    /\ m_callback_queue \in Seq(Lines)

RubyInit ==
    /\ m_readRequestTable = {}
    /\ m_writeRequestTable = {}
    /\ m_outstanding_count = 0
    /\ m_callback_queue = <<>>

Outstanding == m_readRequestTable \cup m_writeRequestTable

-----------------------------------------------------------------------------
(* A back-pressure test that only looks at the number of requests.         *)
isReady_CountOnly(line) == m_outstanding_count < OUTSTANDING_REQUESTS

(* Sequencer::isReady: room for one more request, and at most one request  *)
(* of either type per line.                                                *)
isReady(line) ==
    /\ m_outstanding_count < OUTSTANDING_REQUESTS
    /\ line \notin m_writeRequestTable
    /\ line \notin m_readRequestTable

(* Sequencer::makeRequest, doRequest, issueRequest and insertRequest: the  *)
(* request enters its table and is counted, unless the table already has   *)
(* one for that line, which the new request overwrites.                    *)
makeRequest(line, isWrite) ==
    LET table == IF isWrite THEN m_writeRequestTable ELSE m_readRequestTable
    IN  /\ m_readRequestTable' = IF isWrite THEN m_readRequestTable
                                 ELSE table \cup {line}
        /\ m_writeRequestTable' = IF isWrite THEN table \cup {line}
                                  ELSE m_writeRequestTable
        /\ m_outstanding_count' = IF line \in table THEN m_outstanding_count
                                  ELSE m_outstanding_count + 1
        /\ UNCHANGED m_callback_queue

(* A read callback that forgets the count.                                 *)
readCallback_NotCounted(line) ==
    /\ line \in m_readRequestTable
    /\ m_readRequestTable' = m_readRequestTable \ {line}
    /\ m_callback_queue' = Append(m_callback_queue, line)
    /\ UNCHANGED <<m_writeRequestTable, m_outstanding_count>>

(* O3simInterface::hitCallback and the removal from the request table that *)
(* precedes it in readCallback and writeCallback.                          *)
readCallback(line) ==
    /\ line \in m_readRequestTable
    /\ m_readRequestTable' = m_readRequestTable \ {line}
    /\ m_outstanding_count' = m_outstanding_count - 1
    /\ m_callback_queue' = Append(m_callback_queue, line)
    /\ UNCHANGED m_writeRequestTable

writeCallback(line) ==
    /\ line \in m_writeRequestTable
    /\ m_writeRequestTable' = m_writeRequestTable \ {line}
    /\ m_outstanding_count' = m_outstanding_count - 1
    /\ m_callback_queue' = Append(m_callback_queue, line)
    /\ UNCHANGED m_readRequestTable

hitCallback(line) == readCallback(line) \/ writeCallback(line)

(* RubyQueueEmpty, RubyQueueTop and RubyQueuePop.                           *)
RubyQueueEmpty == m_callback_queue = <<>>

RubyQueueTop == Head(m_callback_queue)

RubyQueuePop ==
    /\ m_callback_queue' = Tail(m_callback_queue)
    /\ UNCHANGED <<m_readRequestTable, m_writeRequestTable,
                   m_outstanding_count>>

=============================================================================
