-------------------------------- MODULE Host --------------------------------
(***************************************************************************)
(* The main loop (ChainSaw.cpp): the host processor replays its own memory *)
(* trace through the very sequencer the accelerator uses, and at a chunk   *)
(* marker drains its requests and hands over to the core until             *)
(* Core::run_a_cycle returns true.                                         *)
(*                                                                         *)
(* at is where the loop body is.  A trace line is any request of           *)
(* HostRequests or a chunk marker; the trace may end at any time.  The     *)
(* cycle counters and everything before SIMULATION STARTED are left out.   *)
(***************************************************************************)
EXTENDS CoreProperties, SequencesExt

CONSTANTS
    HostRequests,   \* requests of the host's trace: [addr, isWrite]
    CHUNK_LIMIT,    \* the last chunk is number CHUNK_LIMIT + 2
    MaxRequests     \* bound: requests in the trace

ASSUME HostAssumption ==
    /\ \A r \in HostRequests : base_addr(r.addr) \in Lines /\ r.isWrite \in BOOLEAN
    /\ CHUNK_LIMIT \in Nat /\ MaxRequests \in Nat

VARIABLES
    at,             \* where the loop body is
    req,            \* the request of the current trace line
    memory_vector,  \* lines the host has requested, oldest first
    flag_empty,     \* no request since the last chunk
    requests        \* requests read

hostVars == <<at, req, memory_vector, flag_empty, requests>>

hvars == <<vars, hostVars>>

HostInit ==
    /\ Init
    /\ at = "getline" /\ memory_vector = <<>> /\ flag_empty = TRUE
    /\ req \in HostRequests /\ requests = 0

Goto(next) == at' = next

(* Everything of the core but Ruby, which the host does not touch. *)
coreOnly == <<memoryVars, laneVars, coreVars, phase, cursor, chunks, retired>>

-----------------------------------------------------------------------------
(* A request line.                                                         *)

ReadRequest(r) ==
    /\ at = "getline" /\ requests < MaxRequests
    /\ req' = r /\ flag_empty' = FALSE /\ requests' = requests + 1
    /\ Goto("advance")
    /\ UNCHANGED <<vars, memory_vector>>

(* Ruby calls back while one of the loops advances its clock. *)
HostCallback(l) ==
    /\ at \in {"advance", "wait", "drain"}
    /\ hitCallback(l)
    /\ UNCHANGED <<coreOnly, hostVars>>

req_addr == base_addr(req.addr)

(* A line that is being fetched already is not requested again. *)
AdvanceReturns ==
    /\ at = "advance"
    /\ Goto(IF Contains(memory_vector, req_addr) THEN "answers" ELSE "isReady")
    /\ UNCHANGED <<vars, req, memory_vector, flag_empty, requests>>

(* The loop on isReady, which does not pop the answers that come in. *)
NotReady ==
    /\ at = "isReady" /\ ~isReady(req_addr)
    /\ Goto("wait")
    /\ UNCHANGED <<vars, req, memory_vector, flag_empty, requests>>

WaitReturns ==
    /\ at = "wait"
    /\ Goto("isReady")
    /\ UNCHANGED <<vars, req, memory_vector, flag_empty, requests>>

(* A request that Ruby is sent and the host does not note. *)
SendRequest_NotNoted ==
    /\ at = "isReady" /\ isReady(req_addr)
    /\ makeRequest(req_addr, req.isWrite)
    /\ Goto("answers")
    /\ UNCHANGED <<coreOnly, req, memory_vector, flag_empty, requests>>

SendRequest ==
    /\ at = "isReady" /\ isReady(req_addr)
    /\ memory_vector' = Append(memory_vector, req_addr)
    /\ makeRequest(req_addr, req.isWrite)
    /\ Goto("answers")
    /\ UNCHANGED <<coreOnly, req, flag_empty, requests>>

(* One turn of either loop that pops Ruby's queue; the assertion that the  *)
(* line is in memory_vector is compiled out in a release build.            *)
Answer ==
    /\ at \in {"answers", "drained"} /\ ~RubyQueueEmpty
    /\ memory_vector' = RemoveFirst(memory_vector, RubyQueueTop)
    /\ RubyQueuePop
    /\ UNCHANGED <<coreOnly, at, req, flag_empty, requests>>

AnswersDone ==
    /\ at = "answers" /\ RubyQueueEmpty
    /\ Goto("getline")
    /\ UNCHANGED <<vars, req, memory_vector, flag_empty, requests>>

-----------------------------------------------------------------------------
(* A chunk marker.                                                         *)

(* A marker that starts the chunk without waiting for the requests. *)
ReadChunk_NoDrain ==
    /\ at = "getline" /\ chunks < MaxChunks
    /\ Goto("chunk") /\ flag_empty' = TRUE
    /\ UNCHANGED <<vars, req, memory_vector, requests>>

(* The host's requests are drained first, unless there were none. *)
ReadChunk ==
    /\ at = "getline" /\ chunks < MaxChunks
    /\ LET draining == ~flag_empty /\ memory_vector # <<>> IN
       /\ Goto(IF draining THEN "drain" ELSE "chunk")
       /\ flag_empty' = ~draining
    /\ UNCHANGED <<vars, req, memory_vector, requests>>

DrainReturns ==
    /\ at = "drain"
    /\ Goto("drained")
    /\ UNCHANGED <<vars, req, memory_vector, flag_empty, requests>>

Drained ==
    /\ at = "drained" /\ RubyQueueEmpty
    /\ Goto(IF memory_vector = <<>> THEN "chunk" ELSE "drain")
    /\ flag_empty' = (memory_vector = <<>>)
    /\ UNCHANGED <<vars, req, memory_vector, requests>>

StartChunk ==
    /\ at = "chunk"
    /\ BeginChunk
    /\ Goto("acc")
    /\ UNCHANGED <<req, memory_vector, flag_empty, requests>>

RunACycle ==
    /\ at = "acc" /\ phase # "host"
    /\ Step
    /\ UNCHANGED hostVars

CoreCallback(l) ==
    /\ at = "acc"
    /\ Callback(l)
    /\ UNCHANGED hostVars

(* num_chunk_call++ > CHUNK_LIMIT *)
ChunkDone ==
    /\ at = "acc" /\ phase = "host"
    /\ Goto(IF chunks - 1 > CHUNK_LIMIT THEN "done" ELSE "getline")
    /\ UNCHANGED <<vars, req, memory_vector, flag_empty, requests>>

(* The end of the trace, and the end of main. *)
GetlineFails ==
    /\ at = "getline"
    /\ Goto("done")
    /\ UNCHANGED <<vars, req, memory_vector, flag_empty, requests>>

Done == at = "done" /\ UNCHANGED hvars

HostStep ==
    \/ \E r \in HostRequests : ReadRequest(r)
    \/ AdvanceReturns \/ NotReady \/ WaitReturns \/ SendRequest
    \/ Answer \/ AnswersDone
    \/ ReadChunk \/ DrainReturns \/ Drained
    \/ StartChunk \/ RunACycle \/ ChunkDone \/ GetlineFails

HostNext ==
    \/ HostStep
    \/ \E l \in Lines : HostCallback(l) \/ CoreCallback(l)
    \/ Done

HostSpec ==
    /\ HostInit /\ [][HostNext]_hvars
    /\ WF_hvars(HostStep)
    /\ \A l \in Lines : SF_hvars(HostCallback(l) \/ CoreCallback(l))

-----------------------------------------------------------------------------
(* Both loops that pop Ruby's queue assert that the line is in             *)
(* memory_vector.  It is: outside a chunk, the lines in memory_vector are  *)
(* those Ruby has outstanding or has answered, each once, whoever used the *)
(* sequencer before.                                                       *)
HostOwnsAnswers ==
    at # "acc" =>
        LET owed == SetToSeq(Outstanding) \o m_callback_queue
        IN  /\ ToSet(memory_vector) = ToSet(owed)
            /\ Len(memory_vector) = Len(owed)
            /\ IsInjective(memory_vector)

(* Whatever requests and chunks the trace has, in whatever order, the main *)
(* loop comes to its end: neither the wait for isReady nor the drain       *)
(* before a chunk nor the chunk itself runs for ever.                      *)
HostFinishes == <>(at = "done")

idle(x, init) == IF at = "acc" THEN x ELSE init

CoreAlone == INSTANCE Core WITH
    m_readRequestTable <- idle(m_readRequestTable, {}),
    m_writeRequestTable <- idle(m_writeRequestTable, {}),
    m_outstanding_count <- idle(m_outstanding_count, 0),
    m_callback_queue <- idle(m_callback_queue, <<>>)

(* Seen from the core, the sequencer it shares with the host is its own:   *)
(* at the start of a chunk no request of the host is outstanding or        *)
(* waiting in the callback queue, and at its end none of the core's is.    *)
ImplementsCore == CoreAlone!Spec

=============================================================================
