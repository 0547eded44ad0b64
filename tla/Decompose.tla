------------------------------ MODULE Decompose ------------------------------
(***************************************************************************)
(* The decomposition of the dataflow graph (newGraph::initialize): chains  *)
(* are read off the labels of the graph file, broken at the start node and *)
(* at live-outs and live-ins, merged, and then given dependencies, levels  *)
(* and blocks, which Core takes as constants.                              *)
(*                                                                         *)
(* A vertex is its index in the graph, its name is its id in the file; the *)
(* two may differ.  The vector Chains is a sequence: the chain with id c is        *)
(* Chains[c + 1].  The order of the edges of a vertex is the order of the  *)
(* file, here arbitrary: where the code takes the first suitable edge, the *)
(* model takes any.                                                        *)
(***************************************************************************)
EXTENDS Integers, FiniteSets, SequencesExt

CONSTANTS
    Vertices,   \* indices of the vertices
    BB,         \* the vertex with opcode BB
    Inputs,     \* graphs: [edges |-> set of pairs, ch |-> label of each vertex,
                \*          name |-> id of each vertex in the file]
    Params      \* [BREAK_LIVE_OUT, BREAK_LIVE_IN, MERGE, BLOCK_LIMIT]

ASSUME DecomposeAssumption ==
    /\ BB \in Vertices /\ Vertices \subseteq Nat
    /\ \A g \in Inputs : /\ g.edges \subseteq Vertices \X Vertices
                         /\ g.ch \in [Vertices -> Nat] /\ g.name \in [Vertices -> Nat]

VARIABLES
    graph,      \* the input
    param,      \* the parameters
    Chains,
    stage,      \* the step of newGraph::initialize that comes next
    level,      \* chain id -> level
    blockID     \* chain id -> block

vars == <<graph, param, Chains, stage, level, blockID>>

Init ==
    /\ graph \in Inputs /\ param \in Params
    /\ Chains = <<>> /\ stage = "createChains"
    /\ level = <<>> /\ blockID = <<>>

-----------------------------------------------------------------------------
(* The graph of a list of chains.                                          *)

Sorted(S) == SetToSortSeq(S, <)

Least(S) == CHOOSE i \in S : \A j \in S : i <= j

out_edges(v) == {w \in Vertices : <<v, w>> \in graph.edges}

ChainIds(cs) == 0..(Len(cs) - 1)

VerticesOf(cs, c) == ToSet(cs[c + 1])

(* The id of the first chain that has vertex v. *)
vertexToChainMap(cs, v) == Least({c \in ChainIds(cs) : v \in VerticesOf(cs, c)})

(* dependenciesGenerate, histoDependency and uniqueDependency. *)
un_dependencies(cs) ==
    [c \in ChainIds(cs) |->
        {vertexToChainMap(cs, w) :
            w \in UNION {out_edges(v) : v \in VerticesOf(cs, c)} \ VerticesOf(cs, c)}]

(* reverseMapping *)
un_reverse_mapping(cs) ==
    [c \in ChainIds(cs) |-> {p \in ChainIds(cs) : c \in un_dependencies(cs)[p]}]

(* A search that only notices a way back to the chain it started from. *)
RECURSIVE checkLoopComplete_ToStart(_, _, _)
checkLoopComplete_ToStart(id, dependencies, stack) ==
    \E c \in dependencies[id] :
        \/ c = Head(stack)
        \/ c \notin ToSet(stack)
             /\ checkLoopComplete_ToStart(c, dependencies, Append(stack, c))

(* checkLoopComplete: a depth-first search that keeps the path in stack.   *)
RECURSIVE checkLoopComplete(_, _, _)
checkLoopComplete(id, dependencies, stack) ==
    \E c \in dependencies[id] :
        c \in ToSet(stack)
          \/ checkLoopComplete(c, dependencies, Append(stack, c))

has_loop(cs) == checkLoopComplete(0, un_dependencies(cs), <<0>>)

-----------------------------------------------------------------------------
(* The steps on the chains.                                                *)

(* The vertices after the k-th of chain i become a new chain at the end. *)
Split(cs, i, k) ==
    Append([cs EXCEPT ![i] = SubSeq(@, 1, k)], SubSeq(cs[i], k + 1, Len(cs[i])))

Goto(next) == stage' = next /\ UNCHANGED <<graph, param, level, blockID>>

(* newGraph::createChains: the chain of the start node comes first. *)
createChains ==
    /\ stage = "createChains"
    /\ LET of(l) == Sorted({v \in Vertices : graph.ch[v] = l})
           others == Sorted({graph.ch[v] : v \in Vertices} \ {graph.ch[BB]})
       IN  Chains' = <<of(graph.ch[BB])>> \o [i \in DOMAIN others |-> of(others[i])]
    /\ Goto("start")

(* newGraph::breakingStartNode: the vertex is looked up by the id that the *)
(* start node has in the file.                                             *)
breakingStartNode ==
    /\ stage = "start"
    /\ LET at == {k \in DOMAIN Chains[1] : Chains[1][k] = graph.name[BB]} IN
       Chains' = IF at # {} /\ Len(Chains[1]) > 1 THEN Split(Chains, 1, Least(at))
                 ELSE Chains
    /\ Goto("out")

(* A search for live-outs that does not skip the last vertex. *)
LiveOuts_UpToLast(i) ==
    {k \in DOMAIN Chains[i] : out_edges(Chains[i][k]) \ ToSet(Chains[i]) # {}}

(* Positions of chain i, but its last, with an edge into another chain. *)
LiveOuts(i) ==
    {k \in 1..(Len(Chains[i]) - 1) : out_edges(Chains[i][k]) \ ToSet(Chains[i]) # {}}

(* A turn of newGraph::breakEveryLiveOut.  breakOutHelper goes through the *)
(* dependencies in the order of chains and vertices, so that it cuts the   *)
(* first chain that has a live-out after its first live-out.               *)
breakOutHelper ==
    /\ stage = "out" /\ param.BREAK_LIVE_OUT
    /\ \E i \in DOMAIN Chains :
          /\ LiveOuts(i) # {} /\ \A j \in 1..(i - 1) : LiveOuts(j) = {}
          /\ Chains' = Split(Chains, i, Least(LiveOuts(i)))
    /\ UNCHANGED <<graph, param, stage, level, blockID>>

BreakOutDone ==
    /\ stage = "out"
    /\ param.BREAK_LIVE_OUT => \A i \in DOMAIN Chains : LiveOuts(i) = {}
    /\ Goto("in") /\ UNCHANGED Chains

(* Pairs (k, m): the k-th vertex of chain a has an edge to the m-th of     *)
(* chain b, which is not its first.                                        *)
LiveIns(a, b) ==
    {<<k, m>> \in (DOMAIN Chains[a]) \X (DOMAIN Chains[b]) :
        a # b /\ m > 1 /\ Chains[b][m] \in out_edges(Chains[a][k])}

(* The vertices of chain a with an edge into a chain that can be cut. *)
Cutting(a) ==
    {k \in DOMAIN Chains[a] : \E b \in DOMAIN Chains :
        LiveIns(a, b) # {} /\ out_edges(Chains[a][k]) \cap ToSet(Chains[b]) # {}}

(* A turn of newGraph::breakEveryLiveIn.  breakInHelper compares *end()    *)
(* when an edge does not lead into the chain; either outcome of that       *)
(* comparison goes on to the next edge.                                    *)
breakInHelper ==
    /\ stage = "in" /\ param.BREAK_LIVE_IN
    /\ \E a, b \in DOMAIN Chains :
          /\ Cutting(a) # {} /\ \A j \in 1..(a - 1) : Cutting(j) = {}
          /\ LiveIns(a, b) # {}
          /\ out_edges(Chains[a][Least(Cutting(a))]) \cap ToSet(Chains[b]) # {}
          /\ \E cut \in LiveIns(a, b) :
                /\ \A other \in LiveIns(a, b) : cut[1] <= other[1]
                /\ Chains' = Split(Chains, b, cut[2] - 1)
    /\ UNCHANGED <<graph, param, stage, level, blockID>>

BreakInDone ==
    /\ stage = "in"
    /\ param.BREAK_LIVE_IN => \A a \in DOMAIN Chains : Cutting(a) = {}
    /\ Goto("merge") /\ UNCHANGED Chains

Merged(i, k) == RemoveAt([Chains EXCEPT ![i] = @ \o Chains[k]], k)

Follows(i, k) ==
    /\ k # i /\ Chains[i] # <<>> /\ Chains[k] # <<>>
    /\ Head(Chains[k]) \in out_edges(Last(Chains[i]))

(* Merging without looking for loops. *)
Mergeable_NoLoopCheck(i) == {k \in DOMAIN Chains : Follows(i, k)}

(* The chains that chain i can be merged with: they begin where an edge of *)
(* the last vertex of i ends, and the merge closes no loop.                *)
Mergeable(i) == {k \in DOMAIN Chains : Follows(i, k) /\ ~has_loop(Merged(i, k))}

(* The turn for chain i: the chains before it are not empty and cannot be  *)
(* merged.                                                                 *)
TurnOf(i) == i > 1 /\ \A j \in 2..(i - 1) : Chains[j] # <<>> /\ Mergeable(j) = {}

(* One call of newGraph::mergeChain that returns true. *)
mergeChain ==
    /\ stage = "merge" /\ param.MERGE
    /\ \E i \in DOMAIN Chains :
          TurnOf(i) /\ \E k \in Mergeable(i) : Chains' = Merged(i, k)
    /\ UNCHANGED <<graph, param, stage, level, blockID>>

(* back() of an empty chain, which has no storage, reads before address 0. *)
MergeOfEmpty ==
    /\ stage = "merge" /\ param.MERGE
    /\ \E i \in DOMAIN Chains : TurnOf(i) /\ Chains[i] = <<>>
    /\ Goto("crash") /\ UNCHANGED Chains

MergeDone ==
    /\ stage = "merge"
    /\ param.MERGE => TurnOf(Len(Chains) + 1)
    /\ Goto("loop") /\ UNCHANGED Chains

-----------------------------------------------------------------------------
(* Levels and blocks.                                                      *)

(* The assertion that there is no loop is compiled out in a release build; *)
(* findChainsLevel then recurses without end.                              *)
CheckLoop ==
    /\ stage = "loop"
    /\ Goto(IF has_loop(Chains) THEN "overflow" ELSE "levels")
    /\ UNCHANGED Chains

(* Levels that are not raised once they are set. *)
RECURSIVE findChainsLevel_FirstVisit(_, _, _)
findChainsLevel_FirstVisit(m_level, id, levels) ==
    IF levels[id] >= 0 THEN levels
    ELSE FoldLeft(LAMBDA acc, c : findChainsLevel_FirstVisit(m_level + 1, c, acc),
                  [levels EXCEPT ![id] = m_level],
                  Sorted(un_dependencies(Chains)[id]))

RECURSIVE findChainsLevel(_, _, _)
findChainsLevel(m_level, id, levels) ==
    IF levels[id] >= m_level THEN levels
    ELSE FoldLeft(LAMBDA acc, c : findChainsLevel(m_level + 1, c, acc),
                  [levels EXCEPT ![id] = m_level],
                  Sorted(un_dependencies(Chains)[id]))

(* newGraph::buildChainGraph *)
buildChainGraph ==
    /\ stage = "levels"
    /\ level' = findChainsLevel(0, 0, [c \in ChainIds(Chains) |-> -1])
    /\ blockID' = [c \in ChainIds(Chains) |-> 0]
    /\ stage' = "blocks"
    /\ UNCHANGED <<graph, param, Chains>>

(* s.i is the last block id, s.pass the bypasses used in each block, s.cnt *)
(* how many children of the current chain have joined its block.           *)
NewBlock(s, c) == [s EXCEPT !.i = @ + 1, !.blockID[c] = s.i + 1, !.pass[s.i + 1] = 1]

Join(s, c, parent) == [s EXCEPT !.blockID[c] = s.blockID[parent], !.cnt = @ + 1]

(* The parents of c are chain 0 and one other. *)
is_single_parent(c) ==
    LET parents == un_reverse_mapping(Chains)[c]
    IN  Cardinality(parents) = 2 /\ 0 \in parents

(* A child with several parents that joins the block of each. *)
VisitChild_Rejoins(s, c, parent) ==
    IF s.cnt = 1 THEN Join(s, c, parent)
    ELSE IF s.blockID[c] = 0 THEN NewBlock(s, c) ELSE s

(* One child of a chain other than 0. *)
VisitChild(s, c, parent) ==
    LET own == s.blockID[parent] IN
    IF is_single_parent(c) /\ s.cnt = 1 THEN Join(s, c, parent)
    ELSE IF is_single_parent(c) /\ s.pass[own] + 1 <= param.BLOCK_LIMIT
         THEN Join([s EXCEPT !.pass[own] = @ + 1], c, parent)
         ELSE IF s.blockID[c] = 0 THEN NewBlock(s, c) ELSE s

(* One chain of newGraph::createChainBlocks. *)
VisitChain(s, c) ==
    LET children == un_dependencies(Chains)[c] IN
    IF c = 0
    THEN FoldLeft(LAMBDA acc, d : NewBlock(acc, d), s,
                  Sorted({d \in children : level[d] = 1}))
    ELSE FoldLeft(LAMBDA acc, d : VisitChild(acc, d, c), [s EXCEPT !.cnt = 1],
                  Sorted(children))

(* newGraph::buildChainLevel: chains by level, then by id; the key is      *)
(* unsigned, so that level -1 comes last.                                  *)
chain_level ==
    LET key(c) == IF level[c] = -1 THEN Len(Chains) ELSE level[c]
    IN  SetToSortSeq(ChainIds(Chains),
                     LAMBDA c, d : key(c) < key(d) \/ (key(c) = key(d) /\ c < d))

createChainBlocks ==
    /\ stage = "blocks"
    /\ blockID' =
          FoldLeft(VisitChain,
                   [blockID |-> blockID, i |-> 0, cnt |-> 1,
                    pass |-> [b \in 0..Len(Chains) |-> 0]],
                   chain_level).blockID
    /\ stage' = "done"
    /\ UNCHANGED <<graph, param, Chains, level>>

Finished == stage \in {"done", "overflow", "crash"} /\ UNCHANGED vars

Next ==
    \/ createChains \/ breakingStartNode
    \/ breakOutHelper \/ BreakOutDone \/ breakInHelper \/ BreakInDone
    \/ mergeChain \/ MergeOfEmpty \/ MergeDone
    \/ CheckLoop \/ buildChainGraph \/ createChainBlocks \/ Finished

Spec == Init /\ [][Next]_vars

-----------------------------------------------------------------------------
(* A set of chains each of which has a successor in the set. *)
Cyclic(cs) ==
    LET dep == un_dependencies(cs)
    IN  \E S \in SUBSET ChainIds(cs) : S # {} /\ \A c \in S : dep[c] \cap S # {}

(* The vertices the file puts into the chain of the start node. *)
WithStart == {v \in Vertices : graph.ch[v] = graph.ch[BB]}

(* Breaking and merging neither loses nor duplicates an instruction: after *)
(* every step each vertex is in exactly one chain, at one position.  And   *)
(* the many cuts leave a chain without instructions, which never retires   *)
(* one, never releases the chains that wait for it and makes mergeChain    *)
(* read back() of nothing, in a single case: breakingStartNode searches    *)
(* the chain, a list of indices, for the start node's id in the file,      *)
(* finds it at the end and cuts after it.                                  *)
Partition ==
    stage # "createChains" =>
        /\ \A v \in Vertices :
              Cardinality({<<i, k>> \in (1..Len(Chains)) \X (1..Cardinality(Vertices)) :
                              k <= Len(Chains[i]) /\ Chains[i][k] = v}) = 1
        /\ \A i \in DOMAIN Chains : Chains[i] = <<>> =>
              /\ graph.name[BB] # BB
              /\ \A v \in WithStart : v <= graph.name[BB]

(* The instructions of every chain of the input are in dataflow order. *)
Ordered ==
    \A v, w \in Vertices :
        <<v, w>> \in graph.edges /\ graph.ch[v] = graph.ch[w] => v < w

(* "CHAIN HAS LOOP!": if the chains of the file have no loop among them    *)
(* and list their instructions in dataflow order, no break and no merge    *)
(* closes a loop.                                                          *)
NoLoopIfOrdered == Ordered => ~Cyclic(Chains)

(* The depth-first search, which starts from chain 0 and never marks what  *)
(* it has visited, finds a loop if and only if there is one.               *)
LoopCheckExact ==
    stage \in {"merge", "loop"} => (has_loop(Chains) <=> Cyclic(Chains))

(* The chains that have instructions. *)
Filled == {c \in ChainIds(Chains) : VerticesOf(Chains, c) # {}}

(* findChainsLevel revisits a chain only to raise its level.  In the end   *)
(* the levels are the lengths of the longest paths from chain 0, so that   *)
(* every chain comes after all it depends on in the order of scheduling.   *)
LevelsAreLongestPaths ==
    stage \in {"blocks", "done"} =>
        /\ level[0] = 0
        /\ \A c \in Filled \ {0} :
              LET parents == un_reverse_mapping(Chains)[c]
              IN  /\ \A p \in parents : level[p] < level[c]
                  /\ \E p \in parents : level[p] = level[c] - 1

(* blockID 0 is the block of chain 0 and also means "no block yet".  In    *)
(* the end no other chain has it, and every block is a tree: all its       *)
(* chains but one have their only parent besides chain 0 in the block.     *)
BlocksAreTrees ==
    stage = "done" =>
        /\ \A c \in Filled : blockID[c] = 0 <=> c = 0
        /\ \A c, d \in Filled :
              c # d /\ blockID[c] = blockID[d] =>
                \E x \in {c, d} :
                   /\ un_reverse_mapping(Chains)[x] \ {0} # {}
                   /\ \A p \in un_reverse_mapping(Chains)[x] \ {0} : blockID[p] = blockID[x]

(* The assertion "CHAIN HAS LOOP!" for every input whose chains have no    *)
(* loop among them.                                                        *)
ChainsHaveNoLoop == stage # "overflow"

=============================================================================
