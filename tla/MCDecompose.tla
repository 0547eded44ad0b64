---------------------------- MODULE MCDecompose ----------------------------
(***************************************************************************)
(* All graphs of a start node and N other vertices, up to the choice of    *)
(* labels, that a graph file may hold: acyclic, every vertex reachable     *)
(* from the start node, and no loop among the labelled chains.             *)
(***************************************************************************)
EXTENDS Decompose

CONSTANT N

MCVertices == 0..N

Others == 1..N

Acyclic(R, S) ==
    \A T \in SUBSET S : T = {} \/ \E x \in T : \A y \in T : <<x, y>> \notin R

Dags == {R \in SUBSET {p \in Others \X Others : p[1] # p[2]} : Acyclic(R, Others)}

Roots(R) == {v \in Others : \A p \in R : p[2] # v}

(* A chain is labelled with its first vertex: every partition in which the *)
(* start node is alone, or with vertex 1, is there once.                   *)
Labels ==
    {f \in [MCVertices -> MCVertices] :
        /\ \A v \in MCVertices : f[v] <= v /\ f[f[v]] = f[v]
        /\ \A v \in 2..N : f[v] # 0}

Quotient(edges, ch) ==
    {<<ch[p[1]], ch[p[2]]>> : p \in {q \in edges : ch[q[1]] # ch[q[2]]}}

(* Ids that are the indices, and ids numbered from 1, as in a graph file,  *)
(* where the start node has a companion and the difference matters.        *)
Names(f) ==
    {[v \in MCVertices |-> v]} \cup
        (IF f[1] = 0 THEN {[v \in MCVertices |-> v + 1]} ELSE {})

Graphs ==
    {[edges |-> R \cup {<<0, v>> : v \in Roots(R) \cup S}, ch |-> f[1], name |-> f[2]] :
        R \in Dags, S \in {{}, Others}, f \in UNION {{g} \X Names(g) : g \in Labels}}

MCInputs == {g \in Graphs : Acyclic(Quotient(g.edges, g.ch), MCVertices)}

MCParams ==
    {[BREAK_LIVE_OUT |-> out, BREAK_LIVE_IN |-> in, MERGE |-> merge, BLOCK_LIMIT |-> 2] :
        <<out, in, merge>> \in {<<TRUE, TRUE, TRUE>>, <<FALSE, FALSE, TRUE>>, <<TRUE, FALSE, FALSE>>}}

(* Only the break at live-outs. *)
MCBreakOut ==
    {[BREAK_LIVE_OUT |-> TRUE, BREAK_LIVE_IN |-> FALSE, MERGE |-> FALSE, BLOCK_LIMIT |-> 2]}

=============================================================================
