------------------------- MODULE RetrievalCacheWarmup -------------------------
(***************************************************************************)
(* RetrievalCacheWarmupService of agent_serving_java: the gate that lets a  *)
(* retrieval through only when the cache of its database has been warmed.   *)
(*                                                                         *)
(* One cell, the state of one data source: cells share nothing but the two  *)
(* worker threads.  Clients are the requests and the observer, the thread   *)
(* that inspects every five seconds.  A probe is read without the lock of   *)
(* the cell and used under it.  The token of the database stands for its    *)
(* epoch and the identity of its relations: a restart of PostgreSQL and a   *)
(* rebuilt index change it and lose the cache.  status and error of the     *)
(* cell, which follow from the rest, are left out.                          *)
(***************************************************************************)
EXTENDS Naturals, FiniteSets

CONSTANTS
  Requests,    \* search requests
  Observer,    \* the thread of the scheduler
  Slots,       \* room for warm-up tasks, more than there may be
  MaxChanges,  \* bound: restarts of the database and rebuilt indexes
  MaxSwitches, \* bound: changes of the opt-in
  MaxFaults    \* bound: failed probes, warm-ups, submissions and nodes

ASSUME WarmupAssumption ==
  /\ Observer \notin Requests /\ IsFiniteSet(Slots)
  /\ MaxChanges \in Nat /\ MaxSwitches \in Nat /\ MaxFaults \in Nat

VARIABLES
  on, token,  \* the database: opted in, and its token
  hot,        \* the cache of the database is warm
  cell,       \* the State of the cell
  pc, seen,   \* where each client is, and the probe it holds
  task,       \* the warm-up tasks
  switches, faults  \* uses of the bounds

warmVars == <<on, token, hot, cell, pc, seen, task, switches, faults>>

-----------------------------------------------------------------------------
Clients == Requests \cup {Observer}

\* Probes: none yet, opted out, and the tokens.
Unknown == 0
Off == 1
FirstToken == 2
Probes == {Unknown, Off} \cup FirstToken..(FirstToken + MaxChanges)

\* Backend.inspect
Probe == IF on THEN token ELSE Off

NoTask == [pc |-> "none", expected |-> Unknown, from |-> Unknown, probe |-> Unknown]

\* A failure of the database or of the process, one of a bounded number.
Fault == faults < MaxFaults /\ faults' = faults + 1

WarmInit ==
  /\ on \in BOOLEAN /\ token = FirstToken /\ hot = FALSE
  /\ cell = [probe |-> Unknown, ready |-> FALSE, running |-> FALSE, cooling |-> FALSE]
  /\ pc = [c \in Clients |-> "idle"]
  /\ seen = [c \in Clients |-> Unknown]
  /\ task = [i \in Slots |-> NoTask]
  /\ switches = 0 /\ faults = 0

-----------------------------------------------------------------------------
\* The database.

\* PostgreSQL restarts, or an index is rebuilt.
Change ==
  /\ token < FirstToken + MaxChanges
  /\ token' = token + 1 /\ hot' = FALSE
  /\ UNCHANGED <<on, cell, pc, seen, task, switches, faults>>

\* The operator of the database opts in or out.
Switch ==
  /\ switches < MaxSwitches /\ switches' = switches + 1
  /\ on' = ~on
  /\ UNCHANGED <<token, hot, cell, pc, seen, task, faults>>

-----------------------------------------------------------------------------
\* inspect, by requests and by the observer.

\* The probe, before the lock is taken.
Inspect(c, from) ==
  /\ pc[c] = from
  /\ pc' = [pc EXCEPT ![c] = "probed"]
  /\ seen' = [seen EXCEPT ![c] = Probe]
  /\ UNCHANGED <<on, token, hot, cell, task, switches, faults>>

\* The probe fails: the cell is not ready any more.
InspectFails(c, from) ==
  /\ pc[c] = from /\ Fault
  /\ pc' = [pc EXCEPT ![c] = "refused"]
  /\ cell' = [cell EXCEPT !.ready = FALSE]
  /\ UNCHANGED <<on, token, hot, seen, task, switches>>

\* Mutant: a new token starts a warm-up of its own.
RunningSame(p) == cell.running /\ cell.probe = p

\* A warm-up is running: this one has not to start another.
Running(p) == cell.running

\* The section under the lock of the cell.
Judge(c) ==
  /\ pc[c] = "probed"
  /\ LET p == seen[c]
         same == cell.probe = p
         cooling == same /\ cell.cooling
         next(where, state) == pc' = [pc EXCEPT ![c] = where] /\ cell' = state
     IN \/ /\ p = Off
           /\ next("ready", [cell EXCEPT !.probe = p, !.ready = TRUE, !.cooling = FALSE])
        \/ /\ p # Off /\ same /\ cell.ready
           /\ next("ready", cell)
        \/ /\ p # Off /\ ~(same /\ cell.ready) /\ (Running(p) \/ cooling)
           /\ next("refused", [cell EXCEPT !.probe = p, !.ready = FALSE, !.cooling = cooling])
        \/ /\ p # Off /\ ~(same /\ cell.ready) /\ ~(Running(p) \/ cooling)
           /\ next("submit", [probe |-> p, ready |-> FALSE, running |-> TRUE, cooling |-> FALSE])
  /\ UNCHANGED <<on, token, hot, seen, task, switches, faults>>

\* Mutant: a failure leaves the cell marked as running.
KeepRunning(p) ==
  [cell EXCEPT !.ready = (cell.probe = Off), !.cooling = (cell.probe = p)]

\* completeFailure: 30 seconds of rest for the database that was to be warmed.
Failed(p) ==
  [cell EXCEPT !.ready = (cell.probe = Off), !.running = FALSE, !.cooling = (cell.probe = p)]

\* The task goes to the worker threads, which may reject it.
Submit(c) ==
  /\ pc[c] = "submit"
  /\ pc' = [pc EXCEPT ![c] = "refused"]
  /\ \/ /\ \E i \in Slots : /\ task[i].pc = "none"
                            /\ \A j \in Slots : j < i => task[j].pc # "none"
                            /\ task' = [task EXCEPT ![i] = [NoTask EXCEPT
                                 !.pc = "before", !.expected = seen[c]]]
        /\ UNCHANGED <<cell, faults>>
     \/ /\ Fault /\ cell' = Failed(seen[c])
        /\ UNCHANGED task
  /\ UNCHANGED <<on, token, hot, seen, switches>>

\* The rest of a failed warm-up is over.
Rested ==
  /\ cell.cooling
  /\ cell' = [cell EXCEPT !.cooling = FALSE]
  /\ UNCHANGED <<on, token, hot, pc, seen, task, switches, faults>>

-----------------------------------------------------------------------------
\* warm, on a worker thread.

Before(i) ==
  /\ task[i].pc = "before"
  /\ task' = [task EXCEPT ![i] = [@ EXCEPT !.pc = "decide", !.probe = Probe]]
  /\ UNCHANGED <<on, token, hot, cell, pc, seen, switches, faults>>

\* What was to be warmed is no longer there: the task leaves with the newest probe.
Stale(i) ==
  /\ task[i].pc = "decide" /\ task[i].probe # task[i].expected
  /\ LET old == cell.probe
         latest == IF old # Unknown /\ old # task[i].expected THEN old ELSE task[i].probe
     IN cell' = [probe |-> latest, ready |-> latest = Off, running |-> FALSE, cooling |-> FALSE]
  /\ task' = [task EXCEPT ![i] = NoTask]
  /\ UNCHANGED <<on, token, hot, pc, seen, switches, faults>>

Warm(i) ==
  /\ task[i].pc = "decide" /\ task[i].probe = task[i].expected
  /\ task' = [task EXCEPT ![i] = [@ EXCEPT !.pc = "warming", !.from = token]]
  /\ UNCHANGED <<on, token, hot, cell, pc, seen, switches, faults>>

\* Backend.warm returns: the cache is warm unless the database changed under it.
Warmed(i) ==
  /\ task[i].pc = "warming"
  /\ hot' = (hot \/ task[i].from = token)
  /\ task' = [task EXCEPT ![i].pc = "after"]
  /\ UNCHANGED <<on, token, cell, pc, seen, switches, faults>>

After(i) ==
  /\ task[i].pc = "after"
  /\ task' = [task EXCEPT ![i] = [@ EXCEPT !.pc = "finish", !.probe = Probe]]
  /\ UNCHANGED <<on, token, hot, cell, pc, seen, switches, faults>>

\* Mutant: what other clients have seen meanwhile is not compared.
OwnMatches(i) == task[i].probe = task[i].expected

\* Before and after the warm-up, and in the cell, stands the same token.
Matches(i) == cell.probe = task[i].expected /\ task[i].probe = task[i].expected

Finish(i) ==
  /\ task[i].pc = "finish"
  /\ cell' = [cell EXCEPT !.ready = Matches(i) \/ cell.probe = Off,
                          !.running = FALSE, !.cooling = FALSE]
  /\ task' = [task EXCEPT ![i] = NoTask]
  /\ UNCHANGED <<on, token, hot, pc, seen, switches, faults>>

\* A probe or the warm-up itself fails.
WarmFails(i) ==
  /\ task[i].pc \in {"before", "warming", "after"} /\ Fault
  /\ cell' = Failed(task[i].expected)
  /\ task' = [task EXCEPT ![i] = NoTask]
  /\ UNCHANGED <<on, token, hot, pc, seen, switches>>

Worker(i) == Before(i) \/ Stale(i) \/ Warm(i) \/ Warmed(i) \/ After(i) \/ Finish(i)

\* The observer ends its round and sleeps.
Sleep ==
  /\ pc[Observer] \in {"ready", "refused"}
  /\ pc' = [pc EXCEPT ![Observer] = "idle"]
  /\ seen' = [seen EXCEPT ![Observer] = Unknown]
  /\ UNCHANGED <<on, token, hot, cell, task, switches, faults>>

Observe == Inspect(Observer, "idle") \/ Judge(Observer) \/ Submit(Observer) \/ Sleep

-----------------------------------------------------------------------------
Busy == {i \in Slots : task[i].pc # "none"}
Submitting == {c \in Clients : pc[c] = "submit"}

\* A database is warmed by at most one task, and the cell says running exactly
\* while one is at work or on its way: the gate never waits for nobody.
SingleFlight ==
  /\ Cardinality(Busy) + Cardinality(Submitting) <= 1
  /\ cell.running <=> Busy \cup Submitting # {}

\* A request gets through only to a warm cache: when its database is still the one
\* it inspected, the warm-up of that token has run to its end.
AdmittedIsWarm ==
  \A c \in Requests : pc[c] = "ready" /\ seen[c] = token => hot

\* The cache becomes ready and stays so once the database is left alone, whatever
\* failed before and in whichever order old probes were applied.
GateOpens == <>[](cell.ready /\ cell.probe = Probe)
=============================================================================
