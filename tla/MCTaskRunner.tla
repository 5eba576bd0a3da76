---------------------------- MODULE MCTaskRunner ----------------------------
(* Instances of TaskRunner for TLC. *)
EXTENDS TaskLaws

LOCAL INSTANCE SequencesExt

CONSTANTS a, b, c

\* The tasks of DEFAULT_TASKS_CONFIG.
DefaultTasks ==
  [build |-> <<[upstream |-> TRUE, task |-> "build"]>>,
   test  |-> <<[upstream |-> FALSE, task |-> "build"]>>]

Packages == {a, b, c}
Discovered == <<a, b, c>>

\* Every package but those of `without` defines its scripts.
Workspace(graph, task, changed, without) ==
  [graph |-> [p \in DOMAIN graph |-> SetToSeq(graph[p])], packages |-> Discovered,
   tasks |-> DefaultTasks, scripted |-> (Packages \ without) \X (DOMAIN DefaultTasks),
   task |-> task, changed |-> changed]

\* Every graph without an edge from a package to itself.
Graphs3 == {g \in [Packages -> SUBSET Packages] : \A p \in Packages : p \notin g[p]}

\* c needs b needs a, and a is discovered first.
Chain == [p \in Packages |-> CASE p = a -> {} [] p = b -> {a} [] p = c -> {b}]

\* The builds that anything, or a change of b, asks for, with or without a
\* script of b; the tests of c alone, with what they need.
MCPlans ==
  {buildExecutionPlan(Workspace(g, "build", {"all"}, without)) :
     g \in Graphs3, without \in {{}, {b}}} \cup
  {buildExecutionPlan(Workspace(g, "build", {b}, {})) : g \in Graphs3} \cup
  {buildExecutionPlan(Workspace(Chain, "test", {c}, {}))}

\* a has no script, as a package of types or assets.
MCChain == {buildExecutionPlan(Workspace(Chain, "build", {"all"}, {a}))}
=============================================================================
