------------------------------ MODULE TaskLaws ------------------------------
(***************************************************************************)
(* What `re-shell run` promises: about the plan, against definitions that  *)
(* share nothing with TaskPlan, and about the run of a plan.               *)
(***************************************************************************)
EXTENDS TaskRunner, TaskPlan

\* The paths of a relation, by length: what can be reached in up to k steps.
Closure(next, from, k) ==
  LET reached[i \in 0 .. k] ==
        IF i = 0 THEN from ELSE reached[i - 1] \cup UNION {next[n] : n \in reached[i - 1]}
  IN  reached[k]

Above(n) == {m \in Nodes : n \in Below(m)}

----------------------------------------------------------------------------
\* The plan.

\* The declared dependencies of a node.
Declared(w, n) ==
  UNION {LET dep == w.tasks[n[2]][i]
         IN  IF dep.upstream THEN {<<w.graph[n[1]][j], dep.task>> : j \in DOMAIN w.graph[n[1]]}
             ELSE {<<n[1], dep.task>>} : i \in DOMAIN w.tasks[n[2]]}

AllNodes(w) == (DOMAIN w.graph) \X (DOMAIN w.tasks)

Asked(w) ==
  LET upstream == [p \in DOMAIN w.graph |-> {w.graph[p][i] : i \in DOMAIN w.graph[p]}]
  IN  IF w.changed = {"all"} THEN DOMAIN w.graph
      ELSE {p \in DOMAIN w.graph :
              Closure(upstream, {p}, Cardinality(DOMAIN w.graph)) \cap w.changed # {}}

\* The plan holds exactly the nodes that the packages asked for (those with
\* changes and all that are built upon them) depend on, with their declared
\* dependencies (resolveAffectedPackages, buildExecutionPlan).
PlanIsClosure ==
  LET w == plan.workspace
      next == [n \in AllNodes(w) |-> Declared(w, n)]
  IN  /\ Nodes = Closure(next, {<<p, w.task>> : p \in Asked(w)}, Cardinality(AllNodes(w)))
      /\ \A n \in Nodes : Deps(n) = next[n]
      /\ {plan.order[i] : i \in DOMAIN plan.order} = Nodes
      /\ Len(plan.order) = Cardinality(Nodes)

\* A plan is refused exactly when some node depends on itself through others,
\* and the cycle reported is one (findCycle).
CyclesAreFound ==
  LET cycle == plan.cycle
  IN  /\ (cycle # <<>>) = (\E n \in Nodes : n \in Below(n))
      /\ \A i \in 1 .. (Len(cycle) - 1) : cycle[i + 1] \in Deps(cycle[i])
      /\ cycle # <<>> => cycle[1] = cycle[Len(cycle)]

\* Both together: the plan is the right one, or is refused with a reason.
PlanIsRight == PlanIsClosure /\ CyclesAreFound

----------------------------------------------------------------------------
\* The run.

\* A node that starts unblocks no less than any other that was ready before it
\* or came with it, however long either waited (computeUnblockCounts, the
\* ready queue; a node that came earlier may go first although it unblocks less).
MostUnblockingFirst ==
  [][\A n, m \in Nodes :
       /\ status[n] = "waiting" /\ status'[n] = "running"
       /\ m \in Ready /\ m # n
       /\ \/ \E x, y \in queue : x.node = n /\ y.node = m /\ y.seq < x.seq
          \/ n \notin {queued[i] : i \in DOMAIN queued}
       => Cardinality(Above(n)) >= Cardinality(Above(m))]_vars

----------------------------------------------------------------------------
\* Whether it ends.

Quiet == ~pumping /\ ~timer /\ With("running") = {}

\* The pass that skipped a node had passed the nodes above it already, and
\* nothing calls ready() again.
CascadeCutShort ==
  \E n \in With("waiting") : \E d \in Deps(n) : status[d] = "skipped"

\* Every run comes to rest with a result for each node, although the governor
\* may refuse at any time and memory stay scarce.  It has then returned, or a
\* cascade was cut short (the loop of pump, retryTimer, admit).
RunComesToRest ==
  <>[](\/ plan.cycle # <<>>
       \/ /\ Quiet /\ \A n \in Nodes : results[n] # "none"
          /\ resolved \/ CascadeCutShort)

\* "No work in flight, nothing waiting on an admission retry, and nothing newly
\* ready: the only nodes left are ones the cascade left out. Finalise them and
\* resolve." (task-runner.ts:829): every run returns.
RunReturns == <>resolved
=============================================================================
