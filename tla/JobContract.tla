---------------------------- MODULE JobContract ----------------------------
(***************************************************************************)
(* What the job API promises a client, whatever the workers, the reaper    *)
(* and the administrators do: a job waits, is started once by one worker   *)
(* and ends once; what it printed only grows while it runs; it is canceled *)
(* only when somebody asked; and a finished job is history.                *)
(***************************************************************************)
EXTENDS Sequences

CONSTANTS Job, Worker, NoWorker

VARIABLES
  phase,  \* status of each job
  owner,  \* the worker that started it
  log,    \* its output
  asked   \* the jobs somebody asked to cancel

contractVars == <<phase, owner, log, asked>>

Ended == {"succeeded", "failed", "canceled"}

Init ==
  /\ phase = [j \in Job |-> "absent"]
  /\ owner = [j \in Job |-> NoWorker]
  /\ log   = [j \in Job |-> <<>>]
  /\ asked = {}

Starts(j) == phase[j] = "queued" /\ phase'[j] = "running"

Same(j) == owner'[j] = owner[j] /\ log'[j] = log[j]

\* What one step may do to job j.
Waits(j)   == phase[j] = "absent" /\ phase'[j] = "queued" /\ Same(j)
Begins(j)  == Starts(j) /\ owner'[j] \in Worker /\ log'[j] = log[j]
Rejects(j) == /\ phase[j] = "queued" /\ phase'[j] \in {"failed", "canceled"}
              /\ Same(j)
Prints(j)  == /\ phase[j] = "running" /\ phase'[j] = "running"
              /\ owner'[j] = owner[j]
              /\ log'[j] # <<>>
              /\ log'[j] = Append(log[j], log'[j][Len(log'[j])])
Ends(j)    == phase[j] = "running" /\ phase'[j] \in Ended /\ Same(j)
Stays(j)   == phase'[j] = phase[j] /\ Same(j)

JobStep(j) == Waits(j) \/ Begins(j) \/ Rejects(j) \/ Prints(j) \/ Ends(j) \/ Stays(j)

Next ==
  /\ \A j \in Job : JobStep(j)
  /\ \A j, k \in Job : Starts(j) /\ Starts(k) => j = k
  /\ asked \subseteq asked'
  /\ \A j \in Job : phase[j] # "canceled" /\ phase'[j] = "canceled" => j \in asked'

Spec == Init /\ [][Next]_contractVars
=============================================================================
