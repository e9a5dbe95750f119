-------------------------- MODULE LlmTaskLifecycle --------------------------
(***************************************************************************)
(* What the LLM service's task queue promises about one task row: the      *)
(* transition matrix of src/llm_service/ARCHITECTURE.md section 4.2, with  *)
(* the two operations the code adds to it (a retry of a settled task and   *)
(* the requeue of running tasks when the service starts or stops).         *)
(* LlmTaskQueue.tla is the program; it implements this specification when  *)
(* leases outlive attempts (ImplementsLifecycle there).                    *)
(***************************************************************************)
EXTENDS Naturals

CONSTANTS Tasks,        \* ids of agent_llm_tasks rows
          MaxAttempts   \* column max_attempts (QueueAssumption of LlmTaskQueue: at least 1)

VARIABLES status, count

TaskStatus == {"absent", "queued", "running", "succeeded", "dead_letter", "cancelled"}
Settled == {"succeeded", "dead_letter", "cancelled"}

Init ==
  /\ status = [t \in Tasks |-> "absent"]
  /\ count = [t \in Tasks |-> 0]

Move(t, from, to, n) ==
  /\ status[t] = from
  /\ status' = [status EXCEPT ![t] = to]
  /\ count' = [count EXCEPT ![t] = n]

Submit(t)   == Move(t, "absent", "queued", 0)
Claim(t)    == Move(t, "queued", "running", count[t])
Complete(t) == Move(t, "running", "succeeded", count[t] + 1)
Requeue(t)  == count[t] + 1 < MaxAttempts /\ Move(t, "running", "queued", count[t] + 1)
Exhaust(t)  == count[t] + 1 >= MaxAttempts /\ Move(t, "running", "dead_letter", count[t] + 1)
Retry(t)    == \E s \in {"dead_letter", "cancelled"} : Move(t, s, "queued", 0)

\* One UPDATE cancels every queued task among the requested ones.
Cancel(S) ==
  /\ \A t \in S : status[t] = "queued"
  /\ status' = [t \in Tasks |-> IF t \in S THEN "cancelled" ELSE status[t]]
  /\ UNCHANGED count

\* A starting or stopping service hands its running tasks back, uncounted.
Restart ==
  /\ status' = [t \in Tasks |-> IF status[t] = "running" THEN "queued" ELSE status[t]]
  /\ UNCHANGED count

Next ==
  \/ \E t \in Tasks : \/ Submit(t) \/ Claim(t) \/ Complete(t)
                      \/ Requeue(t) \/ Exhaust(t) \/ Retry(t)
  \/ \E S \in SUBSET Tasks : Cancel(S)
  \/ Restart

Spec == Init /\ [][Next]_<<status, count>>
=============================================================================
