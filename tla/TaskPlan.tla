------------------------------ MODULE TaskPlan ------------------------------
(***************************************************************************)
(* How `re-shell run` turns a workspace into a plan: the packages that a   *)
(* change affects (resolveAffectedPackages in task-runner.ts), the tasks   *)
(* that have to run with their dependencies, the search for a cycle        *)
(* (buildExecutionPlan in task-scheduler.ts) and the priorities            *)
(* (computeUnblockCounts).                                                 *)
(*                                                                         *)
(* A workspace is [graph, packages, tasks, scripted, task, changed]: the   *)
(* sequence of workspace packages each depends on, the packages in the     *)
(* order of their discovery, the dependencies of each task, the nodes      *)
(* whose package defines the script, the task to run, and the packages     *)
(* with changed files ("all" when the run is not narrowed to them).  A     *)
(* node is a pair <<package, task>>.                                       *)
(***************************************************************************)
EXTENDS Naturals, FiniteSets, Sequences, TLC

LOCAL INSTANCE SequencesExt

----------------------------------------------------------------------------
\* The packages of `stack` and, over and over, those that depend on them.

RECURSIVE Downstream(_, _, _)
Downstream(graph, stack, affected) ==
  IF stack = <<>> THEN affected
  ELSE LET cur == Last(stack)
           rest == Front(stack)
           dependents == {p \in DOMAIN graph : cur \in Range(graph[p])} \ (affected \cup {cur})
       IN  IF cur \in affected THEN Downstream(graph, rest, affected)
           ELSE Downstream(graph, rest \o SetToSeq(dependents), affected \cup {cur})

\* Mutant: only the packages that depend on a changed one directly.
AffectedNeighbours(w) ==
  w.changed \cup {p \in DOMAIN w.graph : Range(w.graph[p]) \cap w.changed # {}}

resolveAffectedPackages(w) == Downstream(w.graph, SetToSeq(w.changed), {})

\* The nodes that are asked for, in the order in which packages are discovered.
Targets(w) ==
  LET names == IF w.changed = {"all"} THEN w.packages
               ELSE SelectSeq(w.packages, LAMBDA p : p \in resolveAffectedPackages(w))
  IN  [i \in DOMAIN names |-> <<names[i], w.task>>]

----------------------------------------------------------------------------
\* The nodes a node depends on, in the order in which they are declared: a
\* task of the same package, or of every package upstream.
Requires(w, node) ==
  FlattenSeq([i \in DOMAIN w.tasks[node[2]] |->
    LET dep == w.tasks[node[2]][i]
    IN  IF dep.upstream
        THEN [j \in DOMAIN w.graph[node[1]] |-> <<w.graph[node[1]][j], dep.task>>]
        ELSE <<<<node[1], dep.task>>>>])

WithNodes(order, nodes) ==
  FoldLeft(LAMBDA o, n : IF Contains(o, n) THEN o ELSE Append(o, n), order, nodes)

\* The worklist is a stack.  `order` is the insertion order of the nodes, on
\* which the scheduler's passes depend; `deps` the edges of the nodes that
\* were expanded.
RECURSIVE Expand(_, _, _, _)
Expand(w, worklist, order, deps) ==
  IF worklist = <<>> THEN [order |-> order, deps |-> deps]
  ELSE LET node == Last(worklist)
           rest == Front(worklist)
           known == WithNodes(order, <<node>>)
           needs == Requires(w, node)
       IN  IF node \in DOMAIN deps THEN Expand(w, rest, order, deps)
           ELSE Expand(w, rest \o needs, WithNodes(known, needs),
                       deps @@ (node :> Range(needs)))

----------------------------------------------------------------------------
\* Depth first: `path` are the grey nodes, `black` those that were left.  The
\* first cycle found is the part of the path from the node that closes it.

FirstIndex(path, node) == CHOOSE i \in DOMAIN path : path[i] = node

RECURSIVE VisitAll(_, _, _, _)
VisitAll(deps, todo, path, black) ==
  IF todo = <<>> THEN [cycle |-> <<>>, black |-> black]
  ELSE LET node == Head(todo)
       IN  IF Contains(path, node)
           THEN [cycle |-> Append(SubSeq(path, FirstIndex(path, node), Len(path)), node),
                 black |-> black]
           ELSE IF node \in black THEN VisitAll(deps, Tail(todo), path, black)
           ELSE LET below == VisitAll(deps, SetToSeq(deps[node]), Append(path, node), black)
                IN  IF below.cycle # <<>> THEN below
                    ELSE VisitAll(deps, Tail(todo), path, below.black \cup {node})

findCycle(order, deps) == VisitAll(deps, order, <<>>, {}).cycle

----------------------------------------------------------------------------
\* How many nodes wait, directly or not, for a node.

RECURSIVE Reach(_, _)
Reach(deps, node) ==
  LET dependents == {n \in DOMAIN deps : node \in deps[n]}
  IN  dependents \cup UNION {Reach(deps, n) : n \in dependents}

computeUnblockCounts(deps) == [n \in DOMAIN deps |-> Cardinality(Reach(deps, n))]

\* What buildExecutionPlan returns; a cycle means that nothing runs.
buildExecutionPlan(w) ==
  LET plan == Expand(w, Targets(w), <<>>, <<>>)
      cycle == findCycle(plan.order, plan.deps)
  IN  [workspace |-> w, order |-> plan.order, deps |-> plan.deps, cycle |-> cycle,
       unblocks |-> IF cycle = <<>> THEN computeUnblockCounts(plan.deps) ELSE <<>>]
=============================================================================
