# ChainSaw-Sim: a TLA+ verification project

ChainSaw-Sim is a cycle-level simulator of a dataflow accelerator. A program
region, given as a dataflow graph, is cut into *chains* of instructions; the
chains run on a few in-order *lanes*; loads and stores go through a *memory
unit* into the Ruby memory system of GEMS, which the accelerator shares with
the out-of-order *host* whose memory trace drives the simulation.

This directory holds TLA+ models of that machinery, from the main loop down to
the coherence protocol and the DRAM channel, the TLC configurations that check
them and TLAPS proofs about the lanes, the memory unit, the core, the main loop,
the bookkeeping of the coherence controllers and the DRAM channel. Paths below are
relative to the repository; `src/Core.cpp` means the file of that name in its `src`
directory.

## 1. Inventory

| Component | State | Operations | Interacts with |
|---|---|---|---|
| Lane (`src/Lane.cpp`) | `instruction_queue`, `fetch_stack`, `exe_stack` (all FIFOs), fetch and execution counters | `run` = `updateCounter`, `execute`, `fetch`; `LoadInstructionQueue`; `setExeCounter`; `is_free` | pushes chain ids to `finished_chains`, pushes loads and stores to `mem_req_queue`; is woken by the core |
| Memory unit (`src/Memory.cpp`) | `ldst_addr_buffer` (requests, issued or not), `mem_req_stack` (free MSHR slots) | `send_req`, `recv_resp` = `access` then `process_mshr`, `search_req` | asks Ruby `isReady`, issues requests, pops Ruby's callback queue, returns answered nodes |
| Core (`src/Core.cpp`) | `input_chain`, `depen_table`, `lane_pre_schedule` and sizes, `chaintoLane`, `mem_req_map` | `buildChains`, `coreSetIter`, `initialize` (dependency table, preschedule), `run_a_cycle`, `is_finish` | owns lanes and memory unit, advances Ruby |
| Host loop (`src/ChainSaw.cpp`) | `memory_vector`, `flag_empty`, `num_chunk_call` | a request line; a chunk marker: drain, then a chunk on the core | shares Ruby's sequencer and callback queue with the core |
| Ruby sequencer and driver (`gems-lib/ruby_clean/system/Sequencer.C`, `interfaces/O3simInterface.C`) | read and write request tables, `m_outstanding_count`, callback queue | `isReady`, `makeRequest`, read and write callbacks, queue top/pop/empty | callbacks happen inside `advance_time` |
| L1 controller (`gems-lib/protocols/MESI_CMP_directory-L1cache.sm`) | tags, state, data and dirty bit of the lines of two L1 caches, TBEs, mandatory queue | a transition table: (state, event) to actions and next state | requests to the L2, data and acknowledgements to other L1s, callbacks to the sequencer |
| L2 controller (`...-L2cache.sm`) | the same for the shared bank, with sharer list and owner | a transition table | forwards, invalidates, fetches from and writes to memory |
| Memory state machine (`...-mem_m.sm`, `system/DRAMsimControl.C`) | the data of every line; requests at the DRAM, completed requests | fetch, writeback, completion by address | answers the L2, drives the DRAM channel |
| DRAM channel (`gems-lib/ruby_clean/DRAM`: `MemorySystem.C`, `MemoryController.C`, `CommandQueue.C`, `Rank.C`) | transaction and command queues, the controller's and the ranks' tables of banks, both buses, refresh and power state | `addTransaction`, `update` (one clock cycle) | completion callbacks to `DRAMsimControl` |
| Network, event queue (`gems-lib/ruby_clean/network`, `buffers`, `eventqueue`) | | | unordered delivery here |
| Graph decomposition (`src/newGraph.cpp`) | the graph, `Chains`, levels, blocks | `createChains`, `breakingStartNode`, live-in/out breaking, `mergeChain`, dependency maps, `createChainBlocks` | computes once what `Core` takes as constants |
| Parameters, instruction tables (`src/Parameter.cpp`, `src/Instruction.cpp`) | | file parsing | constants of the models |
| Dilworth decomposition (`include/DilworthDecomposition.hpp`) | | | not part of the build |

The simulator is single-threaded; what makes it hard is that four state
machines with their own counters and queues are stepped in a fixed order
within a cycle, while Ruby answers at times and in orders of its own:

* *Ordering.* Ruby's answer names a cache line, not a request. Several
  requests may share the line, and between the callback and the search a
  second request of the line may be issued.
* *Stale state.* `mem_req_map` is never erased; `is_free` does not look at
  `fetch_stack`; host and core pop the same callback queue.
* *Long sequences.* Size counters, the dependency table and the MSHR counter
  survive from chunk to chunk and must come back to where they were.
* *Unordered messages.* Every virtual network of the protocol is declared
  unordered: an Inv overtakes the data it invalidates, a writeback overtakes the
  unblock that made its sender the owner, acknowledgements come before the data
  that says how many to expect.
* *Two tables of one thing.* The DRAM controller schedules by its own table of
  the banks, the ranks check every command against theirs and exit.
* *Liveness.* A chunk ends only when every chain has been released, every
  lane has drained and every access has been answered.

The repository builds with assertions compiled out in release mode. The models
follow the release build: a failed assertion is not a guard, except where going
on would dereference NULL (`process_mshr`), and that it cannot fail is a checked
property (`ResponseFindsIssued`, `HostOwnsAnswers`). `send_memory_req` and
`updateChains` read the front of a `std::queue` through a reference after
`pop`; with the library of the build the element keeps its value until the next
push, so the outcome is the value itself.

What makes each component correct:

* lane: a FIFO that loses, duplicates and reorders nothing, and that is empty
  when it says it is free;
* memory unit: an answer goes to a request that was issued, the oldest of its
  line; no request is lost; slots and counts balance; nobody starves;
* core: the lane that wakes is the lane that waits; a chain is loaded once per
  chunk, after what it depends on; a chunk ends, and ends clean;
* host: it never sees an answer of the core nor the core one of the host, and
  the main loop ends;
* coherence: one writer or many readers, nobody reads an old block, no store is
  lost before memory has it, no controller meets an event it has no row for;
* DRAM channel: a legal command schedule, one burst on the data bus at a time,
  every request completed once, every rank refreshed;
* decomposition: the chains partition the instructions, in an order compatible
  with the graph, and the chain graph is acyclic.

## 2. Modules

| Module | Models | Composes |
|---|---|---|
| `Ruby` | sequencer tables, count and callback queue | |
| `Memory` | the operations of the memory unit | `Ruby` |
| `MemoryCycle` | the memory unit under the cycle, with lanes reduced to "a node with an access in flight sends no other" | `Memory` |
| `Lane` | the operations of the lanes | |
| `LaneFifo` | abstract specification of a lane: a FIFO | |
| `LanePipeline` | the lanes under any sequence of loads and wake-ups a core may produce | `Lane`, refines `LaneFifo` |
| `LaneProofs` | lemmas about the stages of a lane, used by the two modules of theorems below it | `Lane` |
| `LanePipelineProofs` | theorems about `LanePipeline` | `LaneProofs` |
| `MemoryProofs` | lemmas about sequences without repetition and about the operations of the memory unit | `Memory` |
| `MemoryCycleProofs` | theorems about `MemoryCycle` | `MemoryProofs` |
| `Core` | `run_a_cycle` and the start of a chunk | `Memory`, `Lane` |
| `CoreProperties` | properties of the core; refinement of `MemoryCycle` and `LanePipeline` | `Core` |
| `CoreProofs` | theorems about the core: the scheduler, the cycle with its two refinements, what the end of a chunk means | `CoreProperties`, `LaneProofs`, `MemoryCycleProofs` |
| `Host` | the main loop | `CoreProperties`, refines `Core` |
| `HostProofs` | theorems about the main loop | `Host`, `CoreProofs` |
| `MCMemoryCycle`, `MCLanePipeline`, `MCCore`, `MCHost` | instances for TLC | |
| `Messages` | message types, tags of a cache set, rows of a transition table | |
| `L1Cache`, `L2Cache` | the two cache controllers: state, table, actions, in_ports | `Messages` |
| `Directory` | the memory state machine | `Messages` |
| `Coherence` | sequencers, controllers, memory and the messages in flight | `L1Cache`, `L2Cache`, `Directory` |
| `CoherenceProperties`, `MCCoherence` | properties, instances | `Coherence` |
| `StoreHistory`, `MCStoreHistory` | the protocol with a history of the lines stored to, for what Ruby's tester says of the data | `CoherenceProperties` |
| `CoherenceProofs` | theorems about the coherence controllers | `CoherenceProperties` |
| `DramRank` | a rank: bank states, command checks, reads on their way back, power | |
| `CommandQueue` | the command queue and its scheduling | `DramRank` |
| `Dram` | one channel under its clock, requests arriving at any time | `CommandQueue` |
| `DramProperties`, `MCDram` | properties, an instance | `Dram` |
| `DramProofs` | theorems about the channel | `DramProperties` |
| `Decompose` | `newGraph::initialize` from the chains of the graph file to blocks | |
| `MCDecompose` | all small graphs for TLC | `Decompose` |

Variables keep the names of the fields they model. Modules that are not a
component of their own state (`Memory`, `Lane`, `Ruby`) define one operator per
function of the code; the modules above them turn those into actions. A
function that loops over a queue is one action per turn plus a `...Returns`
action for the exit of the loop; `phase` (in `Core`, `MemoryCycle`) and `at`
(in `Host`) say which function is running.

Names ending in an underscore and a remark (`search_req_Newest`,
`isReady_CountOnly`) are plausible wrong versions of the operator that follows
them. No specification uses them; each is a mutation that the property it is
paired with in `PROJECT.json` must detect.

### Correspondence and abstractions

* An address is a number; `base_addr` and `search_req`'s interval test are
  modelled arithmetically with the line size 64. Data values are absent, the
  simulator has none.
* `ldst_addr_buffer` is a sequence; `std::list::remove(value)` deletes every
  entry equal under `MemValue_t::operator==`, which ignores `is_issue`.
* `memaddr_map`, the content of the accelerator's trace, is a constant.
* A chain is its instruction list; an instruction is its id, its chain, its
  class (load, store, other) and its latency.
* `depen_table` is the set of its non-zero entries; `initialize_depen_table`
  only sets entries and `updateChains` clears entries.
* The counters `lane_pre_schedule_size` are unsigned in the code; `AssignedOnce`
  shows that they never go below zero.
* `Core::run_all` is the same cycle in a loop and is not called. `decode` is
  not called by `Lane::run`. Statistics, printing and cycle counters are left
  out. `retired` (in `Core`) is a history variable.
* In `Decompose` a vertex is its index; `graph.name` is its id in the file. The order
  of a vertex's out-edges is the order of the file: where the code takes the
  first suitable edge, the model takes any. `breakOutHelper`'s search through the
  dependency list amounts to the first live-out of the first chain that has one
  before its end. `breakInHelper` dereferences `end()` in a comparison; both
  outcomes continue with the next edge. The recursion of `checkLoopComplete` and
  `findChainsLevel` is kept; what they compute is compared with definitions
  without recursion (`Cyclic`, `LevelsAreLongestPaths`).
* *Coherence.* `L1Transition` and `L2Transition` are the transition tables of the
  protocol, row by row: the next state and the list of actions, which `L1Act` and
  `L2Act` interpret in their order before the state is entered, as the generated
  controllers do. A row without entry is `Invalid` (the generated code stops), a
  recycled message is no step at all, so that a state in which everything is
  recycled for ever is a deadlock TLC reports. A data block is "fresh" (it holds
  the last store to its line), "stale" or "unset"; a store makes all other copies
  stale, wherever they are. The victim of a replacement is any line of the set,
  where the code takes the least recently used one. `MEM_Inv` and
  `Unblock_Cancel` are triggered by no in_port, `M_MB` is entered by no row.
  The acknowledgement of a clean L2 replacement runs `m_writeDataToMemory` too,
  with data nobody has set; the model does the same, and memory becomes "unset".
  The simulator runs with `DATA_BLOCK` off and has no data to spoil; Ruby's tester
  turns it on, and the run `coherence_data` shows what it would see.
  `CleanReplacementIsClean` says that it never happens to memory that is behind a
  dirty copy. The in_port for answers at the memory falls into
  `error("Invalid message")` after a `MEMORY_DATA` only if its transition stalls
  on resources, and the queue to the DRAM is unbounded.
* *DRAM.* A cycle is deterministic and is one action; each part of
  `MemoryController::update` is an operator, applied in the order of the code.
  Deadlines are exact: the code stores the cycle, the model the number of cycles
  left. The modelled configuration is that of `ACCELERATOR_system.ini`. The
  relations among the timing parameters that `TimingAssumption` states hold in
  all ten part files of `DRAM/ini`. Each `exit` of the simulator sets a flag
  (`rejected`, `collision`, `overflow`) that `LegalSchedule` says is never
  set. `DRAMsimControl::executeCycle`, the older memory model, cannot be reached.
* `Coherence` takes the DRAM as "a request at the DRAM completes sometime", which
  is what `RequestCompletes` shows of `Dram`; `Dram` takes from `Coherence` that a
  line has at most one request there (`OneMemoryOp`).
* The memory modes 0 to 2 give loads and stores a fixed latency; mode 3 stalls
  the lane until Ruby answers. Both are in `Lane`.

## 3. Runs

| Run | Shows | Bounds and why they suffice |
|---|---|---|
| `memory` | count, tables, issue order, search and MSHR invariants under every order of answers; every access is answered | 5 nodes, 3 lines, 2 iterations, 3 slots, 2 outstanding requests: three accesses to one line (two equal in address), one access whose line depends on the iteration, and both limits reached |
| `lane` | one instruction executes, stages implement the FIFO, the FIFO is fair | 2 lanes, latency above and below the fetch delay, load and store; reloading on top of leftovers up to 5 instructions |
| `core` | quiescence, placement, termination; the refinements of `MemoryCycle` and `LanePipeline`, by which an answer wakes the lane that waits for it and no other | 5 chains with two levels of dependence and a join, 3 lanes, 3 chunks: stale `mem_req_map` entries and leftovers of two chunks |
| `core_finish` | *violation*: a chunk ends with an instruction in `fetch_stack` | |
| `core_release` | *violation*: a chain is loaded before its predecessor has completed | |
| `host` | shared sequencer, end of the main loop, the core's assumptions about the host; and, for a program in which slow and stalling instructions end their chains, a free lane is empty, a chunk ends only with everything retired, a chain waits for its predecessors to start | the graph of `core` under the block scheduler, 4 blocks on 3 lanes so that a lane gets two; four loads or stores that stall and one instruction slower than the 4 cycles of a fetch, each the last of its chain; 4 host requests (two to one line, one on a line of its own), 3 chunks, 2 outstanding requests so that `isReady` blocks. 77,990 states |
| `decompose` | partition, where empty chains come from, exact loop check, longest-path levels, tree-shaped blocks | every acyclic graph of a start node and 4 vertices (start edges to the roots only, or to all), every labelling that leaves the chains acyclic and the start node alone or with one other; merging with and without breaking, and breaking at live-outs alone, which makes some chains cyclic so that the loop check must report them; a block limit of 2, which 3 siblings exceed. Where the start node has a companion, ids in the file that are the indices and ids that are one higher, with which the cut comes after the last vertex. 513,157 states |
| `decompose_loop` | *violation*: breaking at live-outs closes a loop among the chains | one parameter set, the same graphs |
| `coherence` | one writer or many readers, all known to the L2 and none with an old block (`Coherent`); no event without a row; no store lost before memory has it (`UnwrittenStoreKept`: while memory is out of date the block of the last store is in a cache or on its way); every request in one place; one request per line at the DRAM; no dirty line replaced as clean; no deadlock | 2 processors, 2 lines, one way per cache, one request per processor: either both load, store and fetch one line, or one evicts a shared line from L1 and L2 by using another. 524,973 states. Every row of both tables that the code can reach with two processors is used. Larger instances were checked once: 3 processors on one line (three sharers, two acknowledgements), and both processors with both kinds of access to an evicted line |
| `coherence_data` | *violation*: a load returns a block nobody has set after the line has been stored to | one store, one load that displaces the line, one processor that reads it twice |
| `coherence_live` | a busy L2 line comes to rest | 21,400 states; one line, or a line displaced by the other processor's |
| `dram` | a schedule no rank rejects, from a table that follows theirs (`LegalSchedule`); every request in one place; row hits drop their own ACT; one burst on the bus; no refresh forgotten; every request completes | 2 ranks of 2 banks, command queues of 4, a transaction queue of 1 so that transactions wait outside, 2 row hits before a row closes, small timing parameters that keep the relations of the part files; row hits against a row conflict, reads and writes in two ranks, in two banks; a refresh every 30 cycles, which meets every phase of the traffic. 85,087 states. Checked once: a period of 40, and all four kinds of access at once |

`CHECK_DEADLOCK` is on everywhere: the models of the host and the core end in
an explicit idle step. The type invariant of `MemoryCycle` is in no run: it is
proved (`MemoryTypeCorrect`). That of `Core` is a part of the invariants of
section 4.

### Fairness

`WF` of the simulator's own steps: one thread in a loop without blocking calls.
`SF` of each line's callback: callbacks are possible only while `advance_time`
runs, again and again, and Ruby answers every request it has accepted or its own
deadlock check (`Sequencer::wakeup`) aborts the simulation. `lane` assumes the
same of the memory answer (`Wake`) and of the cycle (`Run`, queue pops,
`NewCycle`). No fairness is assumed of the trace: it may end at any line.

`coherence_live` assumes, for each line, `WF` of the steps that deliver an answer,
an unblock or a forwarded request of that line, or that serve it in memory: a
controller is woken while a message waits for it and never recycles those. Nothing
is assumed of the L1s' requests, which the L2 may recycle again and again; whether
a processor's request is ever served under contention is therefore not claimed.
`dram` assumes that the clock, once started, does not stop: `DRAMsimControl::wakeup`
schedules itself again each time.

### Findings

* `core_finish`: `Lane::is_free` (`src/Lane.cpp:296`) does not test
  `fetch_stack`. An instruction that executes for longer than the four cycles
  of a fetch leaves its successor in `fetch_stack` with the fetch counter at
  zero. In the cycle the slow instruction retires, the lane is "free", and if
  no chain is left, `is_finish` (documented as "Check whether the scheduler has
  ran all the chains or not?") ends the chunk. The instruction runs in the
  next chunk, with the next chunk's iteration, or never. The theorem
  `FinishAlwaysMeansAllRun` gives a condition under which this cannot happen: an
  instruction that is slower than a fetch, or that stalls on Ruby, is the last of
  its chain (`SlowEndsChains`).
* `core_release`: `updateChains` is documented to work on "completed chains",
  but every retiring instruction reports its chain, so that the first one
  releases the dependants. What does hold is `LoadedAfterPredecessorsStart`.

* `decompose_loop`: `createChains` lists the vertices of a chain by index, and
  the index is not dataflow order (in `test/179_art_dfg.dot` the chain labelled
  12 runs 15, 61, 62, 17, 18, 19). `breakOutHelper` cuts that list after a
  live-out, so the two parts may need each other. The assertion "CHAIN HAS
  LOOP!" then fails; in a release build `findChainsLevel` recurses without end.
  `NoLoopIfOrdered` shows that dataflow order is all that is missing. The
  parameter `BREAK_LIVE_OUT` is 0 in the repository's `Graph.def`.

* `coherence_data`: the memory state machine handles the ACK of a clean L2
  replacement as it handles a writeback (`MESI_CMP_directory-mem_m.sm:138`, `:258`),
  and `m_writeDataToMemory` ("Write dirty writeback to memory") copies the ACK's
  data block, which nobody has set. A line that is stored to, written back, loaded
  clean by the other processor and replaced is gone; the next load returns the unset
  block, which the tester's check (`tester/Check.C:208`, "Action/check failure")
  forbids. `tester.defaults` turns `DATA_BLOCK` on; the simulator's own defaults leave
  it off. Until memory is overwritten no store is lost (`UnwrittenStoreKept`).

Seen in the run `decompose`, which passes: `createChains` notes the start node's id in
the graph file (`src/newGraph.cpp:754`), and `breakingStartNode` ("Breaking starting
node") searches the chain, a list of indices, for it (`:1400`). Files number from 1,
indices start at 0. Where the start node is not alone in its chain the chain is cut
after another vertex; in a chain of the vertices 0 and 1 that is the last one, the
start node stays where it was and an empty chain is appended, on which `mergeChain`
fails (`MergeOfEmpty`). `Partition` says that no other cut does that. In
`test/179_art_dfg.dot` the start node is alone, and nothing is cut.

## 4. Proofs

The theorems hold for every value of the constants that the assumptions allow:
any graph, program, latencies, memory mode, number of lanes, MSHR slots and
outstanding requests, any trace, and every order of Ruby's answers. The
specifications are linked by proved refinements,

    Host  =>  Core  =>  MemoryCycle
                    =>  LanePipeline  =>  LaneFifo

so that what is proved of the lanes and of the memory unit holds in the core, and
what is proved of the core holds under the main loop.

### Lanes (`LaneProofs`, `LanePipelineProofs`)

* `TypeCorrect`: `Spec => []TypeOK`.
* `OneExecutingAlways`: at most one instruction in `exe_stack`, the counter runs
  only for an instruction that is there, and only loads and stores in Ruby mode
  stall. `ExecutesOne` is inductive together with `TypeOK`; one lemma per stage
  (`updateCounter`, `execute`, `fetch`) says what the stage preserves.
* `FreeMeansDrainedAlways`: if an instruction that takes as long as a fetch or
  longer, or that stalls until Ruby answers, is the last of its chain, a free lane
  holds no instruction. `FreeMeansDrained` is not inductive: it says nothing about a
  lane that still counts. The strengthening `Covered` says that what the lane holds
  is the rest of such a chain, and, as long as something comes after the executing
  instruction, that the fetch counter outlasts the execution counter while something
  waits in `fetch_stack` (`FetchAhead`). When the slow or stalled one executes, for
  however long, nothing is left to be fetched, so that its wake-up (`WakeCovered`)
  finds an empty `fetch_stack`.
* `PipelineImplementsFifo`: `Spec => InOrder`, the refinement of `LaneFifo`. The
  heart is that a run of a lane either leaves
  `exe_stack \o fetch_stack \o instruction_queue` as it is or takes its head, in
  which case it is the head's chain that is reported (lemma `RunPending`); it
  needs `OneExecuting`, otherwise an instruction could be taken from behind
  another.

### Memory unit and sequencer (`MemoryProofs`, `MemoryCycleProofs`)

One inductive invariant, `IInv`, gives all the invariants of the run `memory`:
`CountMatchesTables`, `ResponseFindsIssued`, `IssuedInOrder`,
`IssuedMatchesRuby`, `MshrConserved`, and the type invariant. None of the
interesting ones is inductive alone:

* `ResponseFindsIssued` needs that each line Ruby answers has an issued entry
  (`IssuedMatchesRuby`) and that the first entry of the line is the issued one
  (`IssuedInOrder`), since `search_req` takes the first and ignores `is_issue`.
* `IssuedInOrder` holds because `access` issues the oldest request that Ruby
  accepts and `isReady` looks at the line only: an older request of the same line
  would have been accepted as well.
* `IssuedMatchesRuby` must survive an issue to a line whose answer is still in
  the callback queue, when the line has two issued requests and one of them is
  answered. `QueueInPhase` says why the two answers are never in the queue
  together: a line is there once, and the queue is empty before Ruby runs again.
* `NodesOnce` (a node has one entry or one pending answer) keeps
  `std::list::remove(value)`, which deletes every equal entry, from deleting a
  second request, and keeps slots and entries in step (`SlotsCounted`).

### Core (`CoreProofs`)

* `ScheduleInvariant` and `AssignedOnceAlways`. `SInv` describes the scheduler:
  which chains are in the lanes' buffers, each once, in which phase; the size
  counters; the dependency table. Its most important part is `SameHome`: a chain
  goes to the same lane in every chunk. For the block scheduler that is the
  definition; for the least-loaded lane it holds because the order of assignment
  is the same each time and the sizes are back to zero at the start, so `findMinimum`
  sees the same loads (`Pick`).
* `CycleInvariant`, `QuiescentAlways`. `CInv` joins `SInv`, the memory unit's
  `IInv` under the refinement mapping, and `LInv` on what lies between: a queued
  request belongs to a stalled lane (`QueueHoldsStalled`), a lane holds
  instructions of its own chains only (`PendingHome`), and a stalled lane's
  request is in the queue or is what `mem_req_map` says of it (`SentMapped`).
  `mem_req_map` is never erased. Its stale entries are harmless because they name an
  instruction of the lane itself (`MapHome`), and this rests on `SameHome`: were a
  chain assigned to another lane in the next chunk, an old entry could wake the
  old lane.
* `CoreImplementsMemoryCycle`, `CoreImplementsLanePipeline`: each step of the core
  is a step of the memory unit or none, and a step of the pipeline or none. The
  second needs the bound on the lanes' backlog that `LanePipeline` has
  (`BacklogBounded`): every chunk brings each instruction once.
* `FinishAlwaysMeansAllRun`, `AlwaysLoadedAfterPredecessorsStart`,
  `CoreFreeMeansDrained`, under `SlowEndsChains` (slow instructions, and loads and
  stores that stall on Ruby, end their chains), without which `core_finish` refutes
  the first. Lanes do stall under this hypothesis, and answers wake them in any
  order. `FInv`: the counters
  cover the fetch stack (`LanesCovered`), an instruction either waits in one place
  or has run in this chunk (`Counted`), and a dependence is cleared only by a
  chain that has retired an instruction (`ClearedStarted`).

### Main loop (`HostProofs`)

* `HostAlwaysOwnsAnswers`, `HostImplementsCore`. `HInv`: the core's `CInv` with
  the sequencer's variables taken as idle outside a chunk; what the place in the
  loop says of `memory_vector` and `flag_empty` (`LoopInPlace`); and, outside a
  chunk, that the tables and the callback queue hold exactly the lines of
  `memory_vector`, each once (`HostOwns`). The handover in one direction is the
  drain loop, in the other `QuiescentAlways`.

### Coherence controllers (`CoherenceProofs`)

For any number of processors, lines and ways, any program and any order of delivery:

* `CoherenceTyped`: types, one L1 cache per line, no set above its ways.
* `RequestsInOnePlace`: a request is in the mandatory queue, or its line is in the
  transient state that waits for it, never both and never neither. A callback finds
  its request, and no request is lost or answered twice.
* `OneMemoryOpPerLine`: a line has at most one request at the DRAM, so that
  completion by address completes the right one.

All three follow from `CoherenceInv`. `Sounds` adds to the types who sends what to
whom (an answer of memory goes to the L2, a forwarded request names a processor), that a
TBE has a state, that an `MT` line has an owner and an `IM` line a requestor: without
these the controllers could send a message to nobody. `RequestsPlaced` adds to
`RequestInOnePlace` that a processor has one request per line. `OpsCounted` follows a
memory operation through the network, the queue of the DRAM, the queue of answers and
the network again: while the L2 waits for memory (`Busy`) the line has exactly one
thing in the three places, otherwise none. `OneMemoryOp` speaks of the second place
only and is not inductive: whether a new request may be sent depends on the other two.

The transition tables have some eighty rows. What an action does to the controller and to
what it sends is proved once per action (`L1ActionDoes`, `L2ActionDoes`); what a row is
made of, as a relation between state, event, next state and the set of its actions
(`L1RowFits`, `L2RowFits`), once per row (`L1Rows`, `L2Rows`); an induction along the
row joins the two (`L1RowDoes`, `L2RowDoes`), and entering the next state completes the
transition (`L1DoDoes`, `L2DoDoes`). A store changes data everywhere and may make two
messages equal; `Aged` shows that the one operation under way stays one.

### DRAM channel (`DramProofs`)

For any number of ranks and banks, any address map, queue depth and limit of row
accesses, and any part that `TimingAssumption` allows:

* `ScheduleIsLegal`: no rank rejects a command or a change of power, no queue
  overflows, no bus is taken twice, and the controller's table of the banks follows
  the ranks' own. The error exits of `Rank.C`, `MemoryController.C` and
  `CommandQueue.C` that the model has are unreachable.
* `ActsStayWithColumns`: `pop` may drop "the packet before" on a row hit, and no
  precharge or refresh closes a row that a column access without its ACT relies on.
* `OneBurstAtATime`: the data bus carries one burst, although the code checks for
  two writes only.

All three follow from `ChannelInOrder`, the invariance of `DramInv`, which has four
parts. `Typed` is the shape of the record. `Scheduled` is the controller alone: each
queue has ACT and column access in pairs, save column accesses whose ACT has gone;
such an access is the first of the queue for its row, the row is open, and the bank's
row access count is zero, which is why `MayClose` and the refresh never close it. The
countdown of a bank that precharges or refreshes does not outlast its ban on
activation, and a rank sleeps with all of its banks. `Legal` compares the two tables:
what a rank has, once it has received the command on the bus, agrees with the
controller's table up to one cycle per deadline, the cycle of the command bus.
`DataBus` speaks of the lanes of the data bus, one per rank and one for the
controller's writes: the bursts of two lanes do not overlap, now or later, and every
burst under way is `Covered` by the deadlines of every open bank, so that a column
access the table allows starts its own burst after it.

No part is inductive over a cycle in one go. The proof follows `update` through its
steps. After the first half (`MovedInOrder`: the data bus moves on, the command
arrives, banks settle) the deadlines are exact and not one cycle off, hence the
parameter `slack`. Whatever `pop` chooses is one of five things (`Chosen`, lemma
`PopIs`), and each is allowed by the controller's table (`ChosenSendable`), keeps the
shape of the queues (`ChosenKeepsOrder`) and covers its own burst (`IssuedBus`).
Transactions, power and returned reads keep that (`ScheduleMidway`, `PowerMidway`,
`ReturnMidway`), and the clock gives the slack back (`ClockEnds`).

### Assumptions

`CoherenceAssumption` and `WorkloadAssumption` type the constants of the coherence
protocol; that no processor is the L2 or the directory is the code's numbering of
machines by type.

`GeometryAssumption`, `TimingAssumption`, `LocationAssumption` and
`CommandQueueAssumption` are those of the channel. `TimingAssumption` says more than
types: a command takes one cycle on its bus, bursts fit into `tCCD`, `tRTRS` is not
zero, and a row cannot be opened and read before the data bus has turned around
(`tRCD + 1 >= READ_TO_WRITE_DELAY`). The part of the configuration satisfies it. The
last two are what keeps the bursts of different ranks apart, and the code does not
check them.

`RubyAssumption`, `MemoryAssumption`, `LaneAssumption`, `PipelineAssumption`,
`CoreAssumption`, `ChainAssumption` and `HostAssumption` type the constants, and
TLC evaluates them in the runs. Two say more. `MemoryAssumption` has lines aligned
as `base_addr` aligns them. `ChainAssumption` has the instructions partitioned into
chains: `Core::buildChains` (`src/Core.cpp:53`) gives every instruction the chain
on whose list it is, and that the decomposition yields a partition is the property
`Partition` of the run `decompose`. `SlowEndsPrograms` and
`SlowEndsChains` are not assumptions of a module, they are hypotheses of the theorems
that need them; the program of the run `host` satisfies the second.

The invariants `IInv`, `CInv`, `BacklogBounded`, `FInv`, `HInv`, `CoherenceInv` and
`DramInv` were model-checked on the instances of section 3 before they were proved.

### Only model-checked

* The liveness properties (`KeepsCompleting`, `EveryAccessAnswered`,
  `ChunkTerminates`, `HostFinishes`, `BusyLineSettles`, `RequestCompletes`): fairness
  and `ENABLED` are out of the prover's reach.
* `Decompose`: its algorithms are recursive operators over data.
* `Coherent`, `UnwrittenStoreKept`, `NoInvalidTransition` and `CleanReplacementIsClean` of
  the coherence protocol. Each needs an invariant that says, for every pair of
  transient states of an L1 and the L2, which messages may be on their way between
  them, with the acknowledgement counts. `CoherenceInv` says this of the messages to
  and from memory only.
* `RequestInOnePlace` of `DramProperties` counts over concatenated and filtered queues,
  which is induction over data. `RefreshNotForgotten` is a bound that depends on the
  refresh period and on how long a rank may be busy; it does not hold for every value
  of the constants.

## 5. Not modelled

* The interconnection network's routing, latencies, bandwidth and finite buffers,
  and the event queue: `Coherence` delivers in any order, which includes theirs.
* Prefetches, transactional memory, store buffer and SMT, which the configuration
  turns off; several L2 banks (lines do not interact across banks) and several
  memory channels.
* DRAM: close page, queues per bank, bank-then-rank scheduling, posted column
  access, which `ACCELERATOR_system.ini` and the part files do not use; stored
  data; statistics and power figures.
* The rest of the vendored trees `gems-lib/simics`, `gems-lib/slicc`,
  `gems-lib/ruby_clean` (profilers, testers, network power models, other
  protocols): about nine tenths of the repository's lines, most of which the
  simulator's build does not contain.
* Reading of graph, trace and parameter files; statistics, the ILP graph and
  the other output of `newGraph`; `checkLiveOutLimit` and `checkLiveInLimit`,
  which nothing calls.
* `DilworthDecomposition.hpp`, which nothing includes.

## 6. Plan

1. (done) `Ruby`, `Memory`, `MemoryCycle`; `Lane`, `LanePipeline`, `LaneFifo`;
   `Core` and its refinements; `Host`; `Decompose`; proofs about the lanes.
2. (done) The memory hierarchy behind the sequencer: `Coherence` and its
   controllers, `Dram` and its parts.
3. (done) Proofs about the memory unit, the core and the main loop, with the
   refinements that link them.
4. (done) Proofs about the memory hierarchy: types, `RequestInOnePlace` and
   `OneMemoryOp` of the controllers; the schedule, the queues and the data bus of the
   DRAM channel.
5. `Coherent` for every number of processors. `Ruby`'s sequencer as an abstraction
   of `Coherence`: its request tables are `outstanding`, a callback is a step of
   `L1Commit`. The composition of `Decompose` with `Core`: the constants of `Core`
   satisfy what `Decompose` establishes.
