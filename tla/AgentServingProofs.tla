-------------------------- MODULE AgentServingProofs --------------------------
(***************************************************************************)
(* What holds of AgentServing, and of the cache gate within it, for every   *)
(* number of requests, nodes, graphs and warm-up tasks, restarts, changes   *)
(* of the opt-in and failures.                                              *)
(***************************************************************************)
EXTENDS AgentServing, DataLemmas, FiniteSetTheorems, TLAPS

-----------------------------------------------------------------------------
(* Types.                                                                  *)

Places == {"idle", "rejected", "gate", "probed", "submit", "ready", "refused",
           "wave", "between", "stalled", "error", "answered"}
Cells == [probe : Probes, ready : BOOLEAN, running : BOOLEAN, cooling : BOOLEAN]
Tasks == [pc : {"none", "before", "decide", "warming", "after", "finish"},
          expected : Probes, from : Probes, probe : Probes]

\* The results are a table of nodes for each request.
Shape == out \in [Requests -> [Nodes -> {"none", "ok", "empty", "failed"}]]

\* The state of the gate, and the state of the executor.
GateTypes ==
  /\ token \in Probes \ {Unknown, Off} /\ on \in BOOLEAN /\ hot \in BOOLEAN
  /\ cell \in Cells /\ pc \in [Clients -> Places]
  /\ seen \in [Clients -> Probes] /\ task \in [Slots -> Tasks]
RunTypes ==
  /\ wave \in [Requests -> SUBSET Nodes] /\ Shape
  /\ \A r \in Requests, n \in Nodes :
       out[r][n] \in {"none", "ok", IF n \in Lenient THEN "empty" ELSE "failed"}

Typed == GateTypes /\ RunTypes

\* The types of every variable.
LEMMA TypedIsTypeOK == Typed => TypeOK
  BY DEF Typed, GateTypes, RunTypes, TypeOK, Cells, Tasks, Places

\* Probes are numbers, and what a database shows is one of them.
LEMMA ProbeFacts ==
  /\ Probes \subseteq Nat /\ Unknown \in Probes /\ Off \in Probes /\ Off # Unknown
  /\ GateTypes => Probe \in Probes /\ token \in Nat /\ token > Off /\ token > Unknown
  /\ NoTask \in Tasks
  BY WarmupAssumption DEF Probes, Probe, Unknown, Off, FirstToken, GateTypes, NoTask, Tasks

\* The service starts well typed.
LEMMA InitTyped == Init => Typed
<1> SUFFICES ASSUME Init PROVE Typed
  OBVIOUS
<1>1. FirstToken \in Probes \ {Unknown, Off}
  BY WarmupAssumption DEF Probes, FirstToken, Unknown, Off
<1>2. GateTypes
  BY <1>1, ProbeFacts DEF Init, WarmInit, GateTypes, Cells, Places
<1>3. RunTypes
  BY DEF Init, RunTypes, Shape
<1> QED
  BY <1>2, <1>3 DEF Typed

\* A step of the gate on behalf of client c, and one of the database or of a worker.
ClientStep(c) ==
  \/ \E from \in {"idle", "gate"} : Inspect(c, from) \/ InspectFails(c, from)
  \/ Judge(c) \/ Submit(c)
OtherStep == Change \/ Switch \/ Rested \/ Sleep \/ \E i \in Slots : Worker(i) \/ WarmFails(i)
RunStep(r) == Compile(r) \/ StartWave(r) \/ Join(r) \/ Answer(r) \/ \E n \in Nodes : RunNode(r, n)

\* Every step is of one of three kinds.
LEMMA Kinds ==
  ASSUME [Next]_vars
  PROVE  \/ \E r \in Requests : RunStep(r)
         \/ UNCHANGED runVars /\ \E c \in Clients : ClientStep(c)
         \/ UNCHANGED runVars /\ (OtherStep \/ UNCHANGED warmVars)
  BY DEF Next, vars, Request, Observe, RunStep, ClientStep, OtherStep, Clients

\* The four outcomes of the section under the lock.
LEMMA Judged ==
  ASSUME GateTypes, NEW c \in Clients, Judge(c)
  PROVE  /\ cell' \in Cells /\ UNCHANGED <<on, token, hot, seen, task, switches, faults>>
         /\ pc[c] = "probed" /\ \A d \in Clients : d # c => pc'[d] = pc[d]
         /\ \/ /\ pc'[c] = "ready" /\ seen[c] = Off
               /\ cell'.probe = Off /\ cell'.running = cell.running
            \/ pc'[c] = "ready" /\ seen[c] = cell.probe /\ cell.ready /\ cell' = cell
            \/ /\ pc'[c] = "refused"
               /\ cell'.probe = seen[c] /\ ~cell'.ready /\ cell'.running = cell.running
            \/ /\ pc'[c] = "submit" /\ ~cell.running
               /\ cell'.probe = seen[c] /\ ~cell'.ready /\ cell'.running
<1>1. seen[c] \in Probes /\ pc \in [Clients -> Places] /\ cell \in Cells
  BY DEF GateTypes
<1>2. PICK cool \in BOOLEAN : cool = (cell.probe = seen[c] /\ cell.cooling)
  OBVIOUS
<1>3. /\ UNCHANGED <<on, token, hot, seen, task, switches, faults>>
      /\ pc[c] = "probed" /\ \E where \in {"ready", "refused", "submit"} : pc' = [pc EXCEPT ![c] = where]
  BY DEF Judge
<1>4. \/ /\ pc' = [pc EXCEPT ![c] = "ready"] /\ seen[c] = Off
         /\ cell' = [cell EXCEPT !.probe = seen[c], !.ready = TRUE, !.cooling = FALSE]
      \/ pc' = [pc EXCEPT ![c] = "ready"] /\ seen[c] = cell.probe /\ cell.ready /\ cell' = cell
      \/ /\ pc' = [pc EXCEPT ![c] = "refused"]
         /\ cell' = [cell EXCEPT !.probe = seen[c], !.ready = FALSE, !.cooling = cool]
      \/ /\ pc' = [pc EXCEPT ![c] = "submit"] /\ ~cell.running
         /\ cell' = [probe |-> seen[c], ready |-> FALSE, running |-> TRUE, cooling |-> FALSE]
  BY <1>2, Zenon DEF Judge, Running
<1> DEFINE refused == [cell EXCEPT !.probe = seen[c], !.ready = FALSE, !.cooling = cool]
<1>5. /\ refused \in Cells /\ refused.probe = seen[c] /\ refused.ready = FALSE
      /\ refused.running = cell.running
  <2>1. CASE cool = TRUE
    BY <1>1, <2>1 DEF Cells
  <2>2. CASE cool = FALSE
    BY <1>1, <2>2 DEF Cells
  <2> QED
    BY <1>2, <2>1, <2>2
<1> HIDE DEF refused
<1>6. CASE pc' = [pc EXCEPT ![c] = "refused"] /\ cell' = refused
  BY <1>1, <1>3, <1>5, <1>6
<1>7. CASE /\ pc' = [pc EXCEPT ![c] = "ready"] /\ seen[c] = Off
           /\ cell' = [cell EXCEPT !.probe = seen[c], !.ready = TRUE, !.cooling = FALSE]
  BY <1>1, <1>3, <1>7 DEF Cells
<1>8. CASE pc' = [pc EXCEPT ![c] = "ready"] /\ seen[c] = cell.probe /\ cell.ready /\ cell' = cell
  BY <1>1, <1>3, <1>8
<1>9. CASE /\ pc' = [pc EXCEPT ![c] = "submit"] /\ ~cell.running
           /\ cell' = [probe |-> seen[c], ready |-> FALSE, running |-> TRUE, cooling |-> FALSE]
  BY <1>1, <1>3, <1>9 DEF Cells
<1> QED
  BY <1>4, <1>6, <1>7, <1>8, <1>9 DEF refused

\* A client's step keeps the types.
LEMMA ClientTyped ==
  ASSUME GateTypes, NEW c \in Clients, ClientStep(c)
  PROVE  GateTypes'
<1> USE ProbeFacts
<1>1. ASSUME NEW from, Inspect(c, from) PROVE GateTypes'
  BY <1>1 DEF Inspect, GateTypes, Places
<1>2. ASSUME NEW from, InspectFails(c, from) PROVE GateTypes'
  BY <1>2 DEF InspectFails, GateTypes, Places, Cells
<1>3. CASE Judge(c)
  <2>2. cell' \in Cells
    BY <1>3, Judged
  <2>3. pc' \in [Clients -> Places]
    BY <1>3 DEF Judge, GateTypes, Places
  <2> QED
    BY <1>3, <2>2, <2>3 DEF Judge, GateTypes
<1>4. CASE Submit(c)
  <2>1. seen[c] \in Probes
    BY DEF GateTypes
  <2>2. cell' \in Cells
    BY <1>4, <2>1 DEF Submit, Failed, GateTypes, Cells
  <2>3. task' \in [Slots -> Tasks]
    <3>1. [NoTask EXCEPT !.pc = "before", !.expected = seen[c]] \in Tasks
      BY <2>1 DEF Tasks, NoTask
    <3> QED
      BY <1>4, <3>1 DEF Submit, GateTypes
  <2>4. pc' \in [Clients -> Places]
    BY <1>4 DEF Submit, GateTypes, Places
  <2> QED
    BY <1>4, <2>2, <2>3, <2>4 DEF Submit, GateTypes
<1> QED
  BY <1>1, <1>2, <1>3, <1>4 DEF ClientStep

\* So does a step of the database or of a worker.
LEMMA OtherTyped ==
  ASSUME GateTypes, OtherStep
  PROVE  GateTypes'
<1> USE ProbeFacts
<1>1. CASE Change
  <2>1. token' \in Probes \ {Unknown, Off}
    BY <1>1, WarmupAssumption DEF Change, GateTypes, Probes, FirstToken, Unknown, Off
  <2> QED
    BY <1>1, <2>1 DEF Change, GateTypes
<1>2. CASE Switch \/ Rested
  BY <1>2 DEF Switch, Rested, GateTypes, Cells
<1>3. CASE Sleep
  BY <1>3 DEF Sleep, GateTypes, Places, Clients
<1>4. ASSUME NEW i \in Slots, Before(i) \/ After(i) \/ Warm(i) \/ Warmed(i) PROVE GateTypes'
  <2>1. task' \in [Slots -> Tasks]
    <3>1. task[i] \in Tasks /\ Probe \in Probes /\ token \in Probes
      BY DEF GateTypes
    <3>2. /\ [task[i] EXCEPT !.pc = "decide", !.probe = Probe] \in Tasks
          /\ [task[i] EXCEPT !.pc = "warming", !.from = token] \in Tasks
          /\ [task[i] EXCEPT !.pc = "after"] \in Tasks
          /\ [task[i] EXCEPT !.pc = "finish", !.probe = Probe] \in Tasks
      BY <3>1 DEF Tasks
    <3> QED
      BY <1>4, <3>2 DEF Before, After, Warm, Warmed, GateTypes
  <2>2. hot' \in BOOLEAN
    <3>1. Warmed(i) => hot' = (hot \/ task[i].from = token)
      BY DEF Warmed
    <3>2. (hot \/ task[i].from = token) \in BOOLEAN
      OBVIOUS
    <3>3. ~Warmed(i) => hot' = hot
      BY <1>4 DEF Before, After, Warm
    <3> QED
      BY <3>1, <3>2, <3>3 DEF GateTypes
  <2> QED
    BY <1>4, <2>1, <2>2 DEF Before, After, Warm, Warmed, GateTypes
<1>5. ASSUME NEW i \in Slots, Stale(i) PROVE GateTypes'
  BY <1>5 DEF Stale, GateTypes, Cells, Tasks
<1>6. ASSUME NEW i \in Slots, Finish(i) PROVE GateTypes'
  <2>1. (Matches(i) \/ cell.probe = Off) \in BOOLEAN
    BY DEF Matches
  <2> QED
    BY <1>6, <2>1 DEF Finish, GateTypes, Cells
<1>7. ASSUME NEW i \in Slots, WarmFails(i) PROVE GateTypes'
  BY <1>7 DEF WarmFails, Failed, GateTypes, Cells, Tasks
<1> QED
  BY <1>1, <1>2, <1>3, <1>4, <1>5, <1>6, <1>7 DEF OtherStep, Worker

\* And a step of the executor.
LEMMA RunTyped ==
  ASSUME Typed, NEW r \in Requests, RunStep(r)
  PROVE  Typed'
<1>1. CASE Compile(r) \/ Join(r) \/ Answer(r)
  BY <1>1 DEF Compile, Join, Answer, Goto, Typed, GateTypes, RunTypes, Shape, runVars, Places
<1>2. CASE StartWave(r)
  <2>1. Ready(r) \in SUBSET Nodes
    BY DEF Ready
  <2> QED
    BY <1>2, <2>1 DEF StartWave, Goto, Typed, GateTypes, RunTypes, Shape, Places
<1>3. ASSUME NEW n \in Nodes, RunNode(r, n) PROVE Typed'
  <2>1. PICK result \in {"ok", OnFailure(n)} : out' = [out EXCEPT ![r][n] = result]
    BY <1>3 DEF RunNode
  <2>2. RunTypes'
    BY <1>3, <2>1 DEF RunNode, OnFailure, Typed, RunTypes, Shape
  <2> QED
    BY <1>3, <2>2 DEF RunNode, Typed, GateTypes
<1> QED
  BY <1>1, <1>2, <1>3 DEF RunStep

\* Every step keeps the types.
LEMMA StepTyped == Typed /\ [Next]_vars => Typed'
<1> SUFFICES ASSUME Typed, [Next]_vars PROVE Typed'
  OBVIOUS
<1>1. UNCHANGED runVars => RunTypes'
  BY DEF Typed, RunTypes, Shape, runVars
<1>2. UNCHANGED warmVars => GateTypes'
  BY DEF Typed, GateTypes, warmVars
<1> QED
  BY <1>1, <1>2, Kinds, ClientTyped, OtherTyped, RunTyped DEF Typed

\* Every variable keeps its type, and the policy of a node decides what its failure is.
THEOREM TypeCorrect == Spec => []TypeOK
  BY InitTyped, StepTyped, TypedIsTypeOK, PTL DEF Spec

-----------------------------------------------------------------------------
(* One warm-up at a time.                                                  *)

\* At most one warm-up is at work or on its way, and the cell says running exactly then.
Solo ==
  /\ \A i, j \in Busy : i = j
  /\ \A c, d \in Submitting : c = d
  /\ \A i \in Busy, c \in Submitting : FALSE
  /\ cell.running <=> Busy \cup Submitting # {}

\* Sets of at most one member, not both with one, count to at most one.
LEMMA SoloCounts == Solo => SingleFlight
<1> SUFFICES ASSUME Solo PROVE SingleFlight
  OBVIOUS
<1>1. CASE Busy = {}
  <2>1. CASE Submitting = {}
    BY <1>1, <2>1, FS_EmptySet DEF Solo, SingleFlight
  <2>2. CASE Submitting # {}
    <3>1. PICK c \in Submitting : Submitting = {c}
      BY <2>2 DEF Solo
    <3> QED
      BY <1>1, <3>1, FS_EmptySet, FS_Singleton DEF Solo, SingleFlight
  <2> QED
    BY <2>1, <2>2
<1>2. CASE Busy # {}
  <2>1. PICK i \in Busy : Busy = {i}
    BY <1>2 DEF Solo
  <2>2. Submitting = {}
    BY <2>1 DEF Solo
  <2> QED
    BY <2>1, <2>2, FS_EmptySet, FS_Singleton DEF Solo, SingleFlight
<1> QED
  BY <1>1, <1>2

\* A step that starts and ends no warm-up.
LEMMA NoFlight ==
  ASSUME Solo, Busy' = Busy, Submitting' = Submitting, cell'.running = cell.running
  PROVE  Solo'
  BY DEF Solo

\* The one warm-up there is ends, and the cell is told.
LEMMA FlightEnds ==
  ASSUME Solo, Busy' = {}, Submitting' = {}, ~cell'.running
  PROVE  Solo'
  BY DEF Solo

\* A client starts a warm-up only where none is, and hands it over or gives it up.
LEMMA SoloClient ==
  ASSUME GateTypes, Solo, NEW c \in Clients, ClientStep(c)
  PROVE  Solo'
<1>1. pc \in [Clients -> Places] /\ task \in [Slots -> Tasks] /\ cell \in Cells
  BY DEF GateTypes
<1>2. ASSUME NEW from \in {"idle", "gate"}, Inspect(c, from) \/ InspectFails(c, from) PROVE Solo'
  <2>1. Submitting' = Submitting
    BY <1>1, <1>2 DEF Inspect, InspectFails, Submitting
  <2>2. Busy' = Busy /\ cell'.running = cell.running
    BY <1>1, <1>2 DEF Inspect, InspectFails, Busy, Cells
  <2> QED
    BY <2>1, <2>2, NoFlight
<1>3. CASE Judge(c)
  <2>1. pc[c] = "probed" /\ Busy' = Busy
    BY <1>3 DEF Judge, Busy
  <2>2. CASE pc'[c] # "submit"
    <3>1. Submitting' = Submitting
      BY <1>1, <1>3, <2>1, <2>2 DEF Judge, Submitting
    <3>2. cell'.running = cell.running
      BY <1>1, <1>3, <2>2 DEF Judge, Cells
    <3> QED
      BY <2>1, <3>1, <3>2, NoFlight
  <2>3. CASE pc'[c] = "submit"
    <3>1. ~cell.running /\ cell'.running
      BY <1>1, <1>3, <2>3 DEF Judge, Running
    <3>2. Submitting' = {c}
      BY <1>1, <1>3, <2>3, <3>1 DEF Judge, Submitting, Solo
    <3> QED
      BY <2>1, <3>1, <3>2 DEF Solo
  <2> QED
    BY <2>2, <2>3
<1>4. CASE Submit(c)
  <2>1. c \in Submitting /\ Submitting = {c} /\ Busy = {} /\ cell.running
    BY <1>4 DEF Submit, Submitting, Solo
  <2>2. Submitting' = {}
    BY <1>1, <1>4, <2>1 DEF Submit, Submitting
  <2>3. CASE task' = task
    <3>1. Busy' = {}
      BY <2>1, <2>3 DEF Busy
    <3>2. ~cell'.running
      <4>1. cell' = Failed(seen[c])
        BY <1>1, <1>4, <2>1, <2>3 DEF Submit, Busy, NoTask, Tasks
      <4> QED
        BY <1>1, <4>1 DEF Failed, Cells
    <3> QED
      BY <2>2, <3>1, <3>2, FlightEnds
  <2>4. CASE task' # task
    <3>1. PICK i \in Slots : task' = [task EXCEPT ![i] = [NoTask EXCEPT !.pc = "before", !.expected = seen[c]]]
      BY <1>4, <2>4 DEF Submit
    <3>2. Busy' = {i}
      BY <1>1, <2>1, <3>1 DEF Busy, NoTask
    <3>3. cell' = cell
      BY <1>4, <2>4 DEF Submit
    <3> QED
      BY <2>1, <2>2, <3>2, <3>3 DEF Solo
  <2> QED
    BY <2>3, <2>4
<1> QED
  BY <1>2, <1>3, <1>4 DEF ClientStep

\* A worker ends the warm-up there is; the others start and end none.
LEMMA SoloOther ==
  ASSUME GateTypes, Solo, OtherStep
  PROVE  Solo'
<1>1. pc \in [Clients -> Places] /\ task \in [Slots -> Tasks] /\ cell \in Cells
  BY DEF GateTypes
<1>2. CASE Change \/ Switch \/ Rested
  <2>1. Busy' = Busy /\ Submitting' = Submitting /\ cell'.running = cell.running
    BY <1>1, <1>2 DEF Change, Switch, Rested, Busy, Submitting, Cells
  <2> QED
    BY <2>1, NoFlight
<1>3. CASE Sleep
  <2>1. Submitting' = Submitting
    BY <1>1, <1>3 DEF Sleep, Submitting
  <2>2. Busy' = Busy /\ cell'.running = cell.running
    BY <1>3 DEF Sleep, Busy
  <2> QED
    BY <2>1, <2>2, NoFlight
<1>4. ASSUME NEW i \in Slots, Before(i) \/ Warm(i) \/ Warmed(i) \/ After(i) PROVE Solo'
  <2>1. Submitting' = Submitting /\ cell'.running = cell.running
    BY <1>4 DEF Before, Warm, Warmed, After, Submitting
  <2>2. task[i].pc # "none" /\ task'[i].pc # "none" /\ \A j \in Slots : j # i => task'[j] = task[j]
    BY <1>1, <1>4 DEF Before, Warm, Warmed, After, Tasks
  <2>3. Busy' = Busy
    BY <2>2 DEF Busy
  <2> QED
    BY <2>1, <2>3, NoFlight
<1>5. ASSUME NEW i \in Slots, Stale(i) \/ Finish(i) \/ WarmFails(i) PROVE Solo'
  <2>1. task[i].pc # "none" /\ task' = [task EXCEPT ![i] = NoTask] /\ pc' = pc
    BY <1>5 DEF Stale, Finish, WarmFails
  <2>2. Busy = {i} /\ Submitting = {}
    BY <2>1 DEF Solo, Busy
  <2>3. Busy' = {} /\ Submitting' = {}
    BY <1>1, <2>1, <2>2 DEF Busy, Submitting, NoTask
  <2>4. ~cell'.running
    <3>1. CASE Stale(i)
      BY <3>1 DEF Stale
    <3>2. CASE Finish(i)
      <4>1. PICK b : cell' = [cell EXCEPT !.ready = b, !.running = FALSE, !.cooling = FALSE]
        BY <3>2 DEF Finish
      <4> QED
        BY <1>1, <4>1 DEF Cells
    <3>3. CASE WarmFails(i)
      BY <1>1, <3>3 DEF WarmFails, Failed, Cells
    <3> QED
      BY <1>5, <3>1, <3>2, <3>3
  <2> QED
    BY <2>3, <2>4, FlightEnds
<1> QED
  BY <1>2, <1>3, <1>4, <1>5 DEF OtherStep, Worker

\* The executor has nothing to do with it.
LEMMA SoloRun ==
  ASSUME Typed, Solo, NEW r \in Requests, RunStep(r)
  PROVE  Solo'
<1>1. pc \in [Clients -> Places] /\ r \in Clients
  BY DEF Typed, GateTypes, Clients
<1>2. Submitting' = Submitting
  <2>1. CASE pc' = pc
    BY <2>1 DEF Submitting
  <2>2. CASE pc' # pc
    <3>1. pc[r] # "submit" /\ \E where \in Places \ {"submit"} : pc' = [pc EXCEPT ![r] = where]
      BY <2>2 DEF RunStep, Compile, StartWave, Join, Answer, RunNode, Goto, Places
    <3> QED
      BY <1>1, <3>1 DEF Submitting
  <2> QED
    BY <2>1, <2>2
<1>3. task' = task /\ cell' = cell
  BY DEF RunStep, Compile, StartWave, Join, Answer, RunNode
<1> QED
  BY <1>2, <1>3, NoFlight DEF Busy

\* Every step keeps the warm-ups apart.
LEMMA SoloStep == Typed /\ Solo /\ [Next]_vars => Solo'
<1> SUFFICES ASSUME Typed, Solo, [Next]_vars PROVE Solo'
  OBVIOUS
<1>1. UNCHANGED warmVars => Solo'
  BY DEF Solo, Busy, Submitting, warmVars
<1> QED
  BY <1>1, Kinds, SoloClient, SoloOther, SoloRun DEF Typed

\* A database is warmed by one task at a time, and the cell says running exactly while
\* one is at work or on its way, whichever probes and failures come between.
THEOREM OneWarmupAtATime == Spec => []SingleFlight
<1>1. Init => Typed /\ Solo
  BY InitTyped DEF Init, WarmInit, Solo, Busy, Submitting, NoTask
<1>2. Typed /\ Solo /\ [Next]_vars => (Typed /\ Solo)'
  BY StepTyped, SoloStep
<1> QED
  BY <1>1, <1>2, SoloCounts, PTL DEF Spec

-----------------------------------------------------------------------------
(* Through the gate only to a warm cache.                                  *)

\* No probe is of a token that is still to come.
Past ==
  /\ \A c \in Clients : seen[c] <= token
  /\ cell.probe <= token
  /\ \A i \in Slots : task[i].expected <= token /\ task[i].from <= token /\ task[i].probe <= token

\* A warm-up starts from its token or a later one; when it has run its course on the
\* present one, or the cell says ready for the present one, the cache is warm.
WarmedUp ==
  /\ \A i \in Slots : task[i].pc \in {"warming", "after", "finish"} => task[i].expected <= task[i].from
  /\ \A i \in Slots : task[i].pc \in {"after", "finish"} /\ task[i].from = token => hot
  /\ cell.ready /\ cell.probe = token => hot
  /\ AdmittedIsWarm

GateInv == Past /\ WarmedUp

\* What the types say of the fields.
LEMMA Fields ==
  ASSUME GateTypes
  PROVE  /\ cell.probe \in Nat /\ cell.ready \in BOOLEAN /\ token \in Nat /\ token > 1
         /\ pc \in [Clients -> Places] /\ seen \in [Clients -> Probes] /\ task \in [Slots -> Tasks]
         /\ cell \in Cells
         /\ \A c \in Clients : seen[c] \in Nat
         /\ \A i \in Slots : task[i] \in Tasks /\ task[i].expected \in Nat /\ task[i].from \in Nat
                             /\ task[i].probe \in Nat
         /\ Probe \in Nat /\ Probe <= token
         /\ Requests \subseteq Clients
  BY ProbeFacts, WarmupAssumption
  DEF GateTypes, Cells, Tasks, Probe, Clients, Off, Unknown, Probes, FirstToken

\* A client's step.
LEMMA WarmClient ==
  ASSUME GateTypes, GateInv, NEW c \in Clients, ClientStep(c)
  PROVE  GateInv'
<1> USE Fields DEF GateInv
<1>1. token' = token /\ hot' = hot
  BY DEF ClientStep, Inspect, InspectFails, Judge, Submit
<1>2. ASSUME NEW from, Inspect(c, from) PROVE GateInv'
  <2>1. Past'
    BY <1>1, <1>2 DEF Inspect, Past
  <2>2. \A r \in Requests : pc'[r] = "ready" => pc[r] = "ready" /\ seen'[r] = seen[r]
    BY <1>2 DEF Inspect
  <2> QED
    BY <1>1, <1>2, <2>1, <2>2 DEF Inspect, WarmedUp, AdmittedIsWarm
<1>3. ASSUME NEW from, InspectFails(c, from) PROVE GateInv'
  <2>1. cell'.probe = cell.probe /\ cell'.ready = FALSE /\ seen' = seen /\ task' = task
    BY <1>3 DEF InspectFails, Cells
  <2>2. \A r \in Requests : pc'[r] = "ready" => pc[r] = "ready"
    BY <1>3 DEF InspectFails
  <2> QED
    BY <1>1, <2>1, <2>2 DEF Past, WarmedUp, AdmittedIsWarm
<1>4. CASE Judge(c)
  <2>1. seen' = seen /\ task' = task /\ (cell'.probe = seen[c] \/ cell' = cell)
    BY <1>4, Judged
  <2>2. Past'
    BY <1>1, <2>1 DEF Past
  <2>3. cell'.ready => cell'.probe = Off \/ cell' = cell
    BY <1>4, Judged
  <2>4. cell'.ready /\ cell'.probe = token => hot
    BY <2>3 DEF WarmedUp, Off
  <2>5. pc'[c] = "ready" => seen[c] = Off \/ (cell.probe = seen[c] /\ cell.ready)
    BY <1>4, Judged
  <2>6. \A r \in Requests : r # c => pc'[r] = pc[r]
    BY <1>4, Judged
  <2>7. AdmittedIsWarm'
    BY <1>1, <2>1, <2>5, <2>6 DEF AdmittedIsWarm, WarmedUp, Off
  <2> QED
    BY <1>1, <2>1, <2>2, <2>4, <2>7 DEF WarmedUp
<1>5. CASE Submit(c)
  <2>1. seen' = seen /\ \A r \in Requests : pc'[r] = "ready" => pc[r] = "ready"
    BY <1>5 DEF Submit
  <2>2. cell'.probe = cell.probe /\ (cell'.ready => cell'.probe = Off \/ cell' = cell)
    BY <1>5 DEF Submit, Failed, Cells
  <2>3. \A i \in Slots :
          \/ task'[i] = task[i]
          \/ task'[i].pc = "before" /\ task'[i].expected = seen[c] /\ task'[i].from = 0 /\ task'[i].probe = 0
    BY <1>5 DEF Submit, NoTask, Unknown
  <2>4. Past'
    BY <1>1, <2>1, <2>2, <2>3 DEF Past
  <2>5. WarmedUp'
    BY <1>1, <2>1, <2>2, <2>3 DEF WarmedUp, AdmittedIsWarm, Off
  <2> QED
    BY <2>4, <2>5
<1> QED
  BY <1>2, <1>3, <1>4, <1>5 DEF ClientStep

\* A step of the database or of a worker.
LEMMA WarmOther ==
  ASSUME GateTypes, GateInv, OtherStep
  PROVE  GateInv'
<1> USE Fields DEF GateInv
<1>1. CASE Change
  <2>1. token' = token + 1 /\ UNCHANGED <<cell, pc, seen, task>>
    BY <1>1 DEF Change
  <2>2. Past'
    BY <2>1 DEF Past
  <2>3. WarmedUp'
    BY <2>1 DEF Past, WarmedUp, AdmittedIsWarm
  <2> QED
    BY <2>2, <2>3
<1>2. CASE Switch \/ Rested
  <2>1. UNCHANGED <<token, hot, pc, seen, task>> /\ cell'.probe = cell.probe /\ cell'.ready = cell.ready
    BY <1>2 DEF Switch, Rested, Cells
  <2> QED
    BY <2>1 DEF Past, WarmedUp, AdmittedIsWarm
<1>3. CASE Sleep
  <2>1. UNCHANGED <<token, hot, cell, task>>
    BY <1>3 DEF Sleep
  <2>2. \A d \in Clients : seen'[d] = seen[d] \/ seen'[d] = 0
    BY <1>3 DEF Sleep, Unknown
  <2>3. \A r \in Requests : pc'[r] = pc[r] /\ seen'[r] = seen[r]
    BY <1>3, WarmupAssumption DEF Sleep
  <2> QED
    BY <2>1, <2>2, <2>3 DEF Past, WarmedUp, AdmittedIsWarm
<1>4. ASSUME NEW i \in Slots, Before(i) \/ After(i) PROVE GateInv'
  <2>1. UNCHANGED <<token, hot, cell, pc, seen>>
    BY <1>4 DEF Before, After
  <2>2. /\ task'[i].expected = task[i].expected /\ task'[i].from = task[i].from /\ task'[i].probe = Probe
        /\ \A j \in Slots : j # i => task'[j] = task[j]
        /\ task'[i].pc = "decide" \/ (task[i].pc = "after" /\ task'[i].pc = "finish")
    <3>1. CASE Before(i)
      <4>1. task'[i] = [task[i] EXCEPT !.pc = "decide", !.probe = Probe]
        BY <3>1 DEF Before
      <4>2. \A j \in Slots : j # i => task'[j] = task[j]
        BY <3>1 DEF Before
      <4> QED
        BY <4>1, <4>2 DEF Tasks
    <3>2. CASE After(i)
      <4>1. task'[i] = [task[i] EXCEPT !.pc = "finish", !.probe = Probe] /\ task[i].pc = "after"
        BY <3>2 DEF After
      <4>2. \A j \in Slots : j # i => task'[j] = task[j]
        BY <3>2 DEF After
      <4> QED
        BY <4>1, <4>2 DEF Tasks
    <3> QED
      BY <1>4, <3>1, <3>2
  <2>3. Past'
    BY <2>1, <2>2 DEF Past
  <2>4. WarmedUp'
    BY <2>1, <2>2 DEF WarmedUp, AdmittedIsWarm
  <2> QED
    BY <2>3, <2>4
<1>5. ASSUME NEW i \in Slots, Warm(i) PROVE GateInv'
  <2>1. UNCHANGED <<token, hot, cell, pc, seen>>
    BY <1>5 DEF Warm
  <2>2. /\ task'[i].expected = task[i].expected /\ task'[i].from = token /\ task'[i].probe = task[i].probe
        /\ \A j \in Slots : j # i => task'[j] = task[j]
        /\ task'[i].pc = "warming"
    BY <1>5 DEF Warm, Tasks
  <2>3. Past'
    BY <2>1, <2>2 DEF Past
  <2>4. WarmedUp'
    BY <2>1, <2>2 DEF Past, WarmedUp, AdmittedIsWarm
  <2> QED
    BY <2>3, <2>4
<1>6. ASSUME NEW i \in Slots, Warmed(i) PROVE GateInv'
  <2>1. UNCHANGED <<token, cell, pc, seen>> /\ (hot => hot') /\ (task[i].from = token => hot')
    BY <1>6 DEF Warmed
  <2>2. /\ task'[i].expected = task[i].expected /\ task'[i].from = task[i].from /\ task'[i].probe = task[i].probe
        /\ \A j \in Slots : j # i => task'[j] = task[j]
        /\ task[i].pc = "warming"
    BY <1>6 DEF Warmed, Tasks
  <2>3. Past'
    BY <2>1, <2>2 DEF Past
  <2>4. WarmedUp'
    BY <2>1, <2>2 DEF WarmedUp, AdmittedIsWarm
  <2> QED
    BY <2>3, <2>4
<1>7. ASSUME NEW i \in Slots, Stale(i) \/ Finish(i) \/ WarmFails(i) PROVE GateInv'
  <2>1. UNCHANGED <<token, hot, pc, seen>>
    BY <1>7 DEF Stale, Finish, WarmFails
  <2>2. \A j \in Slots : task'[j] = task[j] \/ task'[j] = NoTask
    BY <1>7 DEF Stale, Finish, WarmFails
  <2>3. cell'.probe <= token
    <3>1. CASE Stale(i)
      <4>1. cell'.probe = cell.probe \/ cell'.probe = task[i].probe
        BY <3>1 DEF Stale
      <4> QED
        BY <4>1 DEF Past
    <3>2. CASE Finish(i)
      <4>1. PICK b : cell' = [cell EXCEPT !.ready = b, !.running = FALSE, !.cooling = FALSE]
        BY <3>2 DEF Finish
      <4> QED
        BY <4>1 DEF Past, Cells
    <3>3. CASE WarmFails(i)
      <4>1. PICK b, d : cell' = [cell EXCEPT !.ready = b, !.running = FALSE, !.cooling = d]
        BY <3>3 DEF WarmFails, Failed
      <4> QED
        BY <4>1 DEF Past, Cells
    <3> QED
      BY <1>7, <3>1, <3>2, <3>3
  <2>4. cell'.ready /\ cell'.probe = token => hot
    <3>1. CASE Stale(i)
      <4>1. cell'.ready => cell'.probe = Off
        BY <3>1, Zenon DEF Stale
      <4> QED
        BY <4>1 DEF Off
    <3>2. CASE WarmFails(i)
      <4>1. cell'.probe = cell.probe /\ (cell'.ready => cell.probe = Off)
        <5>1. CASE cell.probe = Off
          BY <3>2, <5>1 DEF WarmFails, Failed, Cells
        <5>2. CASE cell.probe # Off
          <6>1. PICK d : d = (cell.probe = task[i].expected)
            OBVIOUS
          <6>2. cell' = [cell EXCEPT !.ready = FALSE, !.running = FALSE, !.cooling = d]
            BY <3>2, <5>2, <6>1 DEF WarmFails, Failed
          <6> QED
            BY <6>2 DEF Cells
        <5> QED
          BY <5>1, <5>2
      <4> QED
        BY <4>1 DEF Off
    <3>3. CASE Finish(i)
      <4>1. PICK b : b = (Matches(i) \/ cell.probe = Off)
        OBVIOUS
      <4>2. cell' = [cell EXCEPT !.ready = b, !.running = FALSE, !.cooling = FALSE]
        BY <3>3, <4>1 DEF Finish
      <4>3. cell'.ready = b /\ cell'.probe = cell.probe /\ task[i].pc = "finish"
        BY <3>3, <4>2 DEF Finish, Cells
      <4>4. b => cell.probe = task[i].expected \/ cell.probe = Off
        BY <4>1 DEF Matches
      <4> QED
        BY <4>3, <4>4 DEF Past, WarmedUp, Off
    <3> QED
      BY <1>7, <3>1, <3>2, <3>3
  <2>5. NoTask.expected = 0 /\ NoTask.from = 0 /\ NoTask.probe = 0 /\ NoTask.pc = "none"
    BY DEF NoTask, Unknown
  <2>6. Past'
    BY <2>1, <2>2, <2>3, <2>5 DEF Past
  <2>7. WarmedUp'
    BY <2>1, <2>2, <2>4, <2>5 DEF WarmedUp, AdmittedIsWarm
  <2> QED
    BY <2>6, <2>7
<1> QED
  BY <1>1, <1>2, <1>3, <1>4, <1>5, <1>6, <1>7 DEF OtherStep, Worker

\* A step of the executor.
LEMMA WarmRun ==
  ASSUME Typed, GateInv, NEW r \in Requests, RunStep(r)
  PROVE  GateInv'
<1>1. pc \in [Clients -> Places] /\ Requests \subseteq Clients
  BY DEF Typed, GateTypes, Clients
<1>2. UNCHANGED <<token, hot, cell, seen, task>>
  BY DEF RunStep, Compile, StartWave, Join, Answer, RunNode
<1>3. \A s \in Requests : pc'[s] = "ready" => pc[s] = "ready"
  BY <1>1 DEF RunStep, Compile, StartWave, Join, Answer, RunNode, Goto
<1> QED
  BY <1>2, <1>3 DEF GateInv, Past, WarmedUp, AdmittedIsWarm

\* Every step keeps the gate honest.
LEMMA WarmStep == Typed /\ GateInv /\ [Next]_vars => GateInv'
<1> SUFFICES ASSUME Typed, GateInv, [Next]_vars PROVE GateInv'
  OBVIOUS
<1>1. UNCHANGED warmVars => GateInv'
  BY DEF GateInv, Past, WarmedUp, AdmittedIsWarm, warmVars
<1> QED
  BY <1>1, Kinds, WarmClient, WarmOther, WarmRun DEF Typed

\* A request gets through the gate only to a cache whose warm-up has run to its end on the
\* token that the request has seen, however often the database changes meanwhile.
THEOREM AdmissionNeedsWarmth == Spec => []AdmittedIsWarm
<1>1. Init => Typed /\ GateInv
  <2> SUFFICES ASSUME Init PROVE GateInv
    BY InitTyped
  <2>1. Past
    BY Fields, InitTyped DEF Init, WarmInit, Past, NoTask, Unknown, FirstToken, Typed
  <2>2. WarmedUp
    BY Fields, InitTyped DEF Init, WarmInit, WarmedUp, AdmittedIsWarm, NoTask, Typed
  <2> QED
    BY <2>1, <2>2 DEF GateInv
<1>2. Typed /\ GateInv /\ [Next]_vars => (Typed /\ GateInv)'
  BY StepTyped, WarmStep
<1>3. GateInv => AdmittedIsWarm
  BY DEF GateInv, WarmedUp
<1> QED
  BY <1>1, <1>2, <1>3, PTL DEF Spec

-----------------------------------------------------------------------------
(* The promise of ParadigmRun.                                             *)

\* Before its first wave, or refused without one.
Early == {"idle", "rejected", "gate", "probed", "submit", "ready", "refused"}

\* Nodes run in waves whose predecessors have delivered, and none is left working
\* when a wave has been joined; an error has a failed node, an answer has none missing.
Ordered ==
  \A r \in Requests :
    /\ pc[r] \in Early => wave[r] = {} /\ \A n \in Nodes : out[r][n] = "none"
    /\ \A n \in wave[r] : Preds(n) \subseteq Done(r)
    /\ pc[r] # "wave" => \A n \in wave[r] : out[r][n] # "none"
    /\ pc[r] = "error" => \E n \in Nodes : out[r][n] = "failed"
    /\ pc[r] = "answered" => Done(r) = Nodes

\* A client moves before its first wave.
LEMMA ClientIsEarly ==
  ASSUME GateTypes, NEW c \in Clients, ClientStep(c)
  PROVE  /\ pc[c] \in {"idle", "gate", "probed", "submit"}
         /\ pc'[c] \in {"probed", "submit", "ready", "refused"}
         /\ \A d \in Clients : d # c => pc'[d] = pc[d]
<1>1. pc \in [Clients -> Places]
  BY DEF GateTypes
<1>2. CASE Judge(c)
  BY <1>2, Judged
<1>3. CASE Submit(c) \/ \E from \in {"idle", "gate"} : Inspect(c, from) \/ InspectFails(c, from)
  BY <1>1, <1>3 DEF Submit, Inspect, InspectFails
<1> QED
  BY <1>2, <1>3 DEF ClientStep

\* A step of the database or of a worker moves no request.
LEMMA OtherMovesNone ==
  ASSUME GateTypes, OtherStep
  PROVE  \A r \in Requests : pc'[r] = pc[r]
<1>1. pc \in [Clients -> Places]
  BY DEF GateTypes
<1>2. CASE Sleep
  BY <1>1, <1>2, WarmupAssumption DEF Sleep
<1>3. CASE ~Sleep
  BY <1>3 DEF OtherStep, Change, Switch, Rested, Worker, Before, Stale, Warm, Warmed, After, Finish, WarmFails
<1> QED
  BY <1>2, <1>3

\* The executor moves the request r, and leaves the others.
LEMMA RunMovesOne ==
  ASSUME Typed, NEW r \in Requests, RunStep(r)
  PROVE  /\ edges' = edges
         /\ \A s \in Requests : s # r => pc'[s] = pc[s] /\ wave'[s] = wave[s] /\ out'[s] = out[s]
<1>1. pc \in [Clients -> Places] /\ r \in Clients /\ Requests \subseteq Clients
  BY DEF Typed, GateTypes, Clients
<1>2. wave \in [Requests -> SUBSET Nodes] /\ out \in [Requests -> [Nodes -> {"none", "ok", "empty", "failed"}]]
  BY DEF Typed, RunTypes, Shape
<1> QED
  BY <1>1, <1>2 DEF RunStep, Compile, StartWave, Join, Answer, RunNode, Goto, runVars

\* A node that ends has been without a result; the others keep theirs.
LEMMA NodeEnds ==
  ASSUME Typed, NEW r \in Requests, NEW n \in Nodes, RunNode(r, n)
  PROVE  /\ n \in wave[r] /\ out[r][n] = "none" /\ pc' = pc /\ wave' = wave /\ edges' = edges
         /\ \E result \in {"ok", IF n \in Lenient THEN "empty" ELSE "failed"} :
              out' = [out EXCEPT ![r][n] = result]
         /\ out'[r][n] # "none" /\ \A m \in Nodes : m # n => out'[r][m] = out[r][m]
         /\ Done(r) \subseteq Done(r)'
<1>1. out \in [Requests -> [Nodes -> {"none", "ok", "empty", "failed"}]]
  BY DEF Typed, RunTypes, Shape
<1>2. PICK result \in {"ok", IF n \in Lenient THEN "empty" ELSE "failed"} :
        out' = [out EXCEPT ![r][n] = result]
  BY DEF RunNode, OnFailure
<1>3. out'[r][n] # "none" /\ \A m \in Nodes : m # n => out'[r][m] = out[r][m]
  BY <1>1, <1>2
<1>4. out[r][n] = "none" /\ n \in wave[r] /\ pc' = pc /\ wave' = wave /\ edges' = edges
  BY DEF RunNode
<1>5. Done(r) \subseteq Done(r)'
  BY <1>3, <1>4 DEF Done
<1> QED
  BY <1>2, <1>3, <1>4, <1>5

\* Every step keeps the order of the nodes.
LEMMA OrderStep == Typed /\ Ordered /\ [Next]_vars => Ordered'
<1> SUFFICES ASSUME Typed, Ordered, [Next]_vars PROVE Ordered'
  OBVIOUS
<1>1. pc \in [Clients -> Places] /\ Requests \subseteq Clients
  BY DEF Typed, GateTypes, Clients
<1>2. ASSUME UNCHANGED runVars, \A r \in Requests : pc'[r] = pc[r] \/ (pc[r] \in Early /\ pc'[r] \in Early \ {"rejected"})
      PROVE  Ordered'
  BY <1>2 DEF runVars, Ordered, Preds, Done, Early
<1>3. ASSUME NEW c \in Clients, ClientStep(c), UNCHANGED runVars PROVE Ordered'
  BY <1>1, <1>2, <1>3, ClientIsEarly DEF Typed, Early
<1>4. CASE UNCHANGED runVars /\ (OtherStep \/ UNCHANGED warmVars)
  BY <1>2, <1>4, OtherMovesNone DEF Typed, warmVars
<1>5. ASSUME NEW r \in Requests, RunStep(r) PROVE Ordered'
  <2>1. ASSUME NEW s \in Requests, s # r
        PROVE  /\ pc'[s] \in Early => wave'[s] = {} /\ \A n \in Nodes : out'[s][n] = "none"
               /\ \A n \in wave'[s] : Preds(n)' \subseteq Done(s)'
               /\ pc'[s] # "wave" => \A n \in wave'[s] : out'[s][n] # "none"
               /\ pc'[s] = "error" => \E n \in Nodes : out'[s][n] = "failed"
               /\ pc'[s] = "answered" => Done(s)' = Nodes
    <3>1. pc'[s] = pc[s] /\ wave'[s] = wave[s] /\ out'[s] = out[s] /\ edges' = edges
      BY <1>5, <2>1, RunMovesOne
    <3>2. Done(s)' = Done(s)
      BY <3>1 DEF Done
    <3>3. \A n \in wave'[s] : Preds(n)' \subseteq Done(s)'
      <4>1. \A n \in wave[s] : Preds(n) \subseteq Done(s) 
        BY DEF Ordered
      <4>2. \A n : Preds(n)' = Preds(n)
        BY <3>1 DEF Preds
      <4> QED
        BY <3>1, <3>2, <4>1, <4>2
    <3>4. /\ pc[s] \in Early => wave[s] = {} /\ \A n \in Nodes : out[s][n] = "none"
          /\ pc[s] # "wave" => \A n \in wave[s] : out[s][n] # "none"
          /\ pc[s] = "error" => \E n \in Nodes : out[s][n] = "failed"
          /\ pc[s] = "answered" => Done(s) = Nodes
      BY DEF Ordered
    <3> QED
      BY <3>1, <3>2, <3>3, <3>4
  <2>2. /\ pc'[r] \in Early => wave'[r] = {} /\ \A n \in Nodes : out'[r][n] = "none"
        /\ \A n \in wave'[r] : Preds(n)' \subseteq Done(r)'
        /\ pc'[r] # "wave" => \A n \in wave'[r] : out'[r][n] # "none"
        /\ pc'[r] = "error" => \E n \in Nodes : out'[r][n] = "failed"
        /\ pc'[r] = "answered" => Done(r)' = Nodes
    <3>1. CASE Compile(r)
      BY <1>1, <3>1 DEF Compile, Goto, runVars, Ordered, Preds, Done, Early
    <3>2. CASE StartWave(r)
      <4>1. wave'[r] = Ready(r) /\ out' = out /\ edges' = edges
        BY <3>2 DEF StartWave, Typed, RunTypes
      <4>2. pc'[r] = IF Ready(r) = {} THEN "stalled" ELSE "wave"
        BY <1>1, <3>2 DEF StartWave, Goto
      <4> QED
        BY <4>1, <4>2 DEF Ready, Preds, Done, Early
    <3>3. CASE Join(r)
      <4>1. UNCHANGED <<edges, wave, out>> /\ pc[r] = "wave" /\ Joined(r)
        BY <3>3 DEF Join, runVars
      <4>2. pc'[r] = IF \E n \in wave[r] : out[r][n] = "failed" THEN "error" ELSE "between"
        BY <1>1, <3>3 DEF Join, Goto
      <4>3. wave[r] \subseteq Nodes
        BY DEF Typed, RunTypes
      <4> QED
        BY <4>1, <4>2, <4>3 DEF Joined, Ordered, Preds, Done, Early
    <3>4. CASE Answer(r)
      BY <1>1, <3>4 DEF Answer, Goto, runVars, Ordered, Preds, Done, Early
    <3>5. ASSUME NEW n \in Nodes, RunNode(r, n) 
          PROVE  /\ pc'[r] \in Early => wave'[r] = {} /\ \A m \in Nodes : out'[r][m] = "none"
                 /\ \A m \in wave'[r] : Preds(m)' \subseteq Done(r)'
                 /\ pc'[r] # "wave" => \A m \in wave'[r] : out'[r][m] # "none"
                 /\ pc'[r] = "error" => \E m \in Nodes : out'[r][m] = "failed"
                 /\ pc'[r] = "answered" => Done(r)' = Nodes
      <4>1. pc[r] = "wave"
        BY <3>5, NodeEnds DEF Ordered
      <4>2. \A m \in wave[r] : Preds(m)' = Preds(m)
        BY <3>5, NodeEnds DEF Preds
      <4> QED
        BY <3>5, <4>1, <4>2, NodeEnds DEF Ordered, Early
    <3> QED
      BY <1>5, <3>1, <3>2, <3>3, <3>4, <3>5 DEF RunStep
  <2> QED
    BY <2>1, <2>2 DEF Ordered
<1> QED
  BY <1>3, <1>4, <1>5, Kinds

\* A step that moves no request to an answer and ends no node is not seen.
LEMMA Unseen ==
  ASSUME out' = out, edges' = edges, \A r \in Requests : Outcome(r)' = Outcome(r)
  PROVE  UNCHANGED Search!vars
<1>1. Feeds' = Feeds
  BY DEF Feeds
<1>2. [r \in Requests |-> Outcome(r)]' = [r \in Requests |-> Outcome(r)]
  OBVIOUS
<1> QED
  BY <1>1, <1>2 DEF Search!vars

\* The outcome depends on the place of the request only.
LEMMA SamePlace ==
  ASSUME NEW r \in Requests, pc'[r] = pc[r]
  PROVE  Outcome(r)' = Outcome(r)
  BY DEF Outcome

\* A step that brings request r to its answer answers it.
LEMMA Answers ==
  ASSUME NEW r \in Requests, NEW how, Outcome(r) = "none", Outcome(r)' = how,
         out' = out, edges' = edges, \A s \in Requests : s # r => pc'[s] = pc[s]
  PROVE  Search!Answer(r, how)
<1>1. Feeds' = Feeds
  BY DEF Feeds
<1>2. \A s \in Requests : s # r => Outcome(s)' = Outcome(s)
  BY SamePlace
<1>3. [s \in Requests |-> Outcome(s)]' = [[s \in Requests |-> Outcome(s)] EXCEPT ![r] = how]
  BY <1>2
<1> QED
  BY <1>1, <1>3 DEF Search!Answer

\* Every step keeps the promise.
LEMMA StepKeepsPromise ==
  ASSUME Typed, Ordered, [Next]_vars
  PROVE  [Search!Next]_Search!vars
<1>1. pc \in [Clients -> Places] /\ Requests \subseteq Clients
  BY DEF Typed, GateTypes, Clients
<1>2. ASSUME NEW c \in Clients, ClientStep(c), UNCHANGED runVars PROVE [Search!Next]_Search!vars
  <2>1. /\ pc[c] \in {"idle", "gate", "probed", "submit"}
        /\ pc'[c] \in {"probed", "submit", "ready", "refused"}
        /\ \A d \in Clients : d # c => pc'[d] = pc[d]
    BY <1>2, ClientIsEarly DEF Typed
  <2>2. out' = out /\ edges' = edges
    BY <1>2 DEF runVars
  <2>3. CASE c \in Requests /\ pc'[c] = "refused"
    <3>1. Outcome(c) = "none" /\ Outcome(c)' = "refused"
      BY <2>1, <2>3 DEF Outcome
    <3>2. Search!Answer(c, "refused")
      BY <1>1, <2>1, <2>2, <2>3, <3>1, Answers
    <3>3. \A n \in Nodes : out[c][n] = "none"
      BY <2>1, <2>3 DEF Ordered, Early
    <3> QED
      BY <2>3, <3>2, <3>3 DEF Search!Next
  <2>4. CASE ~(c \in Requests /\ pc'[c] = "refused")
    <3>1. \A r \in Requests : Outcome(r)' = Outcome(r)
      <4> TAKE r \in Requests
      <4>1. CASE r = c
        BY <2>1, <2>4, <4>1 DEF Outcome
      <4>2. CASE r # c
        BY <1>1, <2>1, <4>2, SamePlace
      <4> QED
        BY <4>1, <4>2
    <3> QED
      BY <2>2, <3>1, Unseen
  <2> QED
    BY <2>3, <2>4
<1>3. CASE UNCHANGED runVars /\ (OtherStep \/ UNCHANGED warmVars)
  <2>1. \A r \in Requests : pc'[r] = pc[r]
    BY <1>3, OtherMovesNone DEF Typed, warmVars
  <2>2. \A r \in Requests : Outcome(r)' = Outcome(r)
    BY <2>1, SamePlace
  <2> QED
    BY <1>3, <2>2, Unseen DEF runVars
<1>4. ASSUME NEW r \in Requests, RunStep(r) PROVE [Search!Next]_Search!vars
  <2>1. edges' = edges /\ \A s \in Requests : s # r => pc'[s] = pc[s]
    BY <1>4, RunMovesOne
  <2>2. ASSUME out' = out, Outcome(r)' = Outcome(r) PROVE [Search!Next]_Search!vars
    <3>1. \A s \in Requests : Outcome(s)' = Outcome(s)
      BY <2>1, <2>2, SamePlace
    <3> QED
      BY <2>1, <2>2, <3>1, Unseen
  <2>3. CASE Compile(r)
    <3>1. out' = out /\ pc[r] = "idle" /\ pc'[r] \in {"gate", "rejected"}
      BY <1>1, <2>3 DEF Compile, Goto, runVars
    <3>2. CASE pc'[r] = "gate"
      BY <2>2, <3>1, <3>2 DEF Outcome
    <3>3. CASE pc'[r] = "rejected"
      <4>1. Outcome(r) = "none" /\ Outcome(r)' = "refused"
        BY <3>1, <3>3 DEF Outcome
      <4>2. Search!Answer(r, "refused")
        BY <2>1, <3>1, <4>1, Answers
      <4>3. \A n \in Nodes : out[r][n] = "none"
        BY <3>1 DEF Ordered, Early
      <4> QED
        BY <4>2, <4>3 DEF Search!Next
    <3> QED
      BY <3>1, <3>2, <3>3
  <2>4. CASE StartWave(r)
    <3>1. out' = out /\ pc[r] \in {"ready", "between"} /\ pc'[r] \in {"stalled", "wave"}
      BY <1>1, <2>4 DEF StartWave, Goto
    <3> QED
      BY <2>2, <3>1 DEF Outcome
  <2>5. CASE Join(r)
    <3>1. out' = out /\ pc[r] = "wave"
      BY <2>5 DEF Join, runVars
    <3>2. pc'[r] = IF \E n \in wave[r] : out[r][n] = "failed" THEN "error" ELSE "between"
      BY <1>1, <2>5 DEF Join, Goto
    <3>3. CASE \E n \in wave[r] : out[r][n] = "failed"
      <4>1. Outcome(r) = "none" /\ Outcome(r)' = "error"
        BY <3>1, <3>2, <3>3 DEF Outcome
      <4>2. Search!Answer(r, "error")
        BY <2>1, <3>1, <4>1, Answers
      <4>3. \E n \in Nodes : out[r][n] = "failed"
        BY <3>3 DEF Typed, RunTypes
      <4> QED
        BY <4>2, <4>3 DEF Search!Next
    <3>4. CASE pc'[r] = "between"
      BY <2>2, <3>1, <3>4 DEF Outcome
    <3> QED
      BY <3>2, <3>3, <3>4
  <2>6. CASE Answer(r)
    <3>1. out' = out /\ pc[r] = "between" /\ pc'[r] = "answered" /\ Done(r) = Nodes
      BY <1>1, <2>6 DEF Answer, Goto, runVars
    <3>2. Outcome(r) = "none" /\ Outcome(r)' = "value"
      BY <3>1 DEF Outcome
    <3>3. Search!Answer(r, "value")
      BY <2>1, <3>1, <3>2, Answers
    <3>4. \A n \in Nodes : Search!Delivered(r, n)
      BY <3>1 DEF Done, Search!Delivered
    <3> QED
      BY <3>3, <3>4 DEF Search!Next
  <2>7. ASSUME NEW n \in Nodes, RunNode(r, n) PROVE [Search!Next]_Search!vars
    <3>1. /\ n \in wave[r] /\ out[r][n] = "none" /\ pc' = pc /\ edges' = edges
          /\ \E result \in {"ok", IF n \in Lenient THEN "empty" ELSE "failed"} :
               out' = [out EXCEPT ![r][n] = result]
      BY <2>7, NodeEnds
    <3>2. pc[r] = "wave" /\ Preds(n) \subseteq Done(r)
      BY <3>1 DEF Ordered
    <3>3. Feeds' = Feeds
      BY <3>1 DEF Feeds
    <3>4. [s \in Requests |-> Outcome(s)]' = [s \in Requests |-> Outcome(s)]
      BY <3>1, SamePlace
    <3>5. [s \in Requests |-> Outcome(s)][r] = "none"
      BY <3>2 DEF Outcome
    <3>6. \A m \in Nodes : Feeds[m, n] => Search!Delivered(r, m)
      <4> SUFFICES ASSUME NEW m \in Nodes, Feeds[m, n] PROVE Search!Delivered(r, m)
        OBVIOUS
      <4>1. edges[<<m, n>>] > 0
        BY Zenon DEF Feeds
      <4>2. m \in Done(r)
        BY <3>2, <4>1 DEF Preds
      <4> QED
        BY <4>2 DEF Done, Search!Delivered
    <3>7. Search!Run(r, n)
      BY <3>1, <3>3, <3>4, <3>5, <3>6 DEF Search!Run
    <3> QED
      BY <3>7 DEF Search!Next
  <2> QED
    BY <1>4, <2>3, <2>4, <2>5, <2>6, <2>7 DEF RunStep
<1> QED
  BY <1>2, <1>3, <1>4, Kinds

\* A request keeps the promise of ParadigmRun on every graph, with every operator and any
\* number of concurrent requests: no node starts before its predecessors have delivered,
\* no answer is given while a node of its wave still works, and a failure that the policy
\* of the node does not skip is answered with an error.
THEOREM RequestKeepsPromise == Spec => ImplementsParadigmRun
<1>1. Init => Typed /\ Ordered /\ Search!Init
  <2> SUFFICES ASSUME Init PROVE Ordered /\ Search!Init
    BY InitTyped
  <2>1. \A r \in Requests : pc[r] = "idle" /\ wave[r] = {} /\ \A n \in Nodes : out[r][n] = "none"
    BY DEF Init, WarmInit, Clients
  <2>2. Ordered
    BY <2>1 DEF Ordered, Early
  <2>3. Feeds \in [Nodes \X Nodes -> BOOLEAN]
    <3>1. \A pair \in Nodes \X Nodes : (edges[pair] > 0) \in BOOLEAN
      OBVIOUS
    <3> QED
      BY <3>1, Zenon DEF Feeds
  <2>4. [r \in Requests |-> Outcome(r)] = [r \in Requests |-> "none"]
    BY <2>1 DEF Outcome
  <2> QED
    BY <2>2, <2>3, <2>4 DEF Init, Search!Init
<1>2. Typed /\ Ordered /\ [Next]_vars => (Typed /\ Ordered)'
  BY StepTyped, OrderStep
<1>3. Typed /\ Ordered /\ [Next]_vars => [Search!Next]_Search!vars
  BY StepKeepsPromise
<1> QED
  BY <1>1, <1>2, <1>3, PTL DEF Spec, ImplementsParadigmRun, Search!Spec

-----------------------------------------------------------------------------
(* The compiler accepts the graphs without cycles, and these run.           *)

\* The node that a sum and a visit take next.
First(s) == CHOOSE m \in s : TRUE

\* Edges have natural numbers: how many there are between two nodes.
Weighted == edges \in [Nodes \X Nodes -> Nat]

\* The in-degree of a node is the sum of the edges into it, in any order.
LEMMA SumSplits ==
  ASSUME Weighted, NEW n \in Nodes
  PROVE  \E F \in [SUBSET Nodes -> Nat] :
           /\ Indegree[n] = F[Nodes] /\ F[{}] = 0
           /\ \A s \in SUBSET Nodes : \A m \in s : F[s] = edges[<<m, n>>] + F[s \ {m}]
<1> DEFINE D == SUBSET Nodes
           B == {{}}
           w == [s \in D |-> IF s = {} THEN 0 ELSE edges[<<First(s), n>>]]
           next == [s \in D |-> s \ {First(s)}]
           size == [s \in D |-> Cardinality(s)]
           Sum == CHOOSE iter : iter = [s \in SUBSET Nodes |->
                    IF s = {} THEN 0
                    ELSE edges[<<CHOOSE x \in s : TRUE, n>>] + iter[s \ {CHOOSE x \in s : TRUE}]]
<1>1. \A s \in D : s # {} => First(s) \in s
  BY DEF First
<1>2. w \in [D -> Nat] /\ next \in [D -> D]
  BY <1>1 DEF Weighted
<1>3. size \in [D -> Nat] /\ \A s \in D \ B : size[next[s]] < size[s]
  <2>1. \A s \in D : IsFiniteSet(s) /\ Cardinality(s) \in Nat
    BY GraphAssumption, FS_Subset, FS_CardinalityType
  <2>2. ASSUME NEW s \in D, s # {} PROVE Cardinality(s \ {First(s)}) = Cardinality(s) - 1
    BY <1>1, <2>1, <2>2, FS_RemoveElement
  <2>3. size \in [D -> Nat]
    BY <2>1
  <2>4. ASSUME NEW s \in D \ B PROVE size[next[s]] < size[s]
    <3>1. s # {} /\ s \in D /\ next[s] = s \ {First(s)} /\ next[s] \in D
      BY <1>2
    <3>2. size[next[s]] = Cardinality(s \ {First(s)}) /\ size[s] = Cardinality(s)
      BY <3>1
    <3> HIDE DEF size, next
    <3> QED
      BY <2>1, <2>2, <3>1, <3>2
  <2> QED
    BY <2>3, <2>4
<1>4. PICK F \in [D -> Nat] : \A h : Follows(h, D, B, w, next) <=> h = F
  <2> HIDE DEF D, B, w, next, size, Sum
  <2>1. w \in [D -> Nat]
    BY <1>2
  <2>2. next \in [D -> D]
    BY <1>2
  <2>3. size \in [D -> Nat]
    BY <1>3
  <2>4. Shrinks(D, B, next, size)
    BY <1>3 DEF Shrinks
  <2> QED
    BY <2>1, <2>2, <2>3, <2>4, RecursionDefines
<1>5. \A s \in D : F[s] = IF s = {} THEN 0 ELSE edges[<<First(s), n>>] + F[s \ {First(s)}]
  <2>1. F = [s \in D |-> IF s \in B THEN 0 ELSE w[s] + F[next[s]]]
    BY <1>4, Zenon DEF Follows
  <2>2. \A s \in D : F[s] = IF s \in B THEN 0 ELSE w[s] + F[next[s]]
    <3> HIDE DEF w, next, B
    <3> QED
      BY <2>1
  <2> QED
    BY <2>2
<1>6. Sum = F
  <2>1. F = [s \in SUBSET Nodes |->
               IF s = {} THEN 0
               ELSE edges[<<CHOOSE x \in s : TRUE, n>>] + F[s \ {CHOOSE x \in s : TRUE}]]
    <3> HIDE DEF w, next, size
    <3> QED
      BY <1>5 DEF First
  <2>2. Sum = [s \in SUBSET Nodes |->
                 IF s = {} THEN 0
                 ELSE edges[<<CHOOSE x \in s : TRUE, n>>] + Sum[s \ {CHOOSE x \in s : TRUE}]]
    BY <2>1, Zenon
  <2> HIDE DEF Sum
  <2>3. Sum = [s \in D |-> Sum[s]]
    BY <2>2
  <2> DEFINE H == [s \in D |-> IF s \in B THEN 0 ELSE w[s] + Sum[next[s]]]
  <2>4. \A s \in D : Sum[s] = H[s]
    <3>1. \A s \in D : Sum[s] = IF s = {} THEN 0 ELSE edges[<<First(s), n>>] + Sum[s \ {First(s)}]
      BY <2>2 DEF First
    <3>2. \A s \in D : H[s] = IF s = {} THEN 0 ELSE edges[<<First(s), n>>] + Sum[s \ {First(s)}]
      OBVIOUS
    <3> HIDE DEF H
    <3> QED
      BY <3>1, <3>2
  <2>5. H = [s \in D |-> H[s]]
    OBVIOUS
  <2>6. Sum = H
    <3> HIDE DEF H
    <3> QED
      BY <2>3, <2>4, <2>5
  <2> HIDE DEF w, next, B, D
  <2> QED
    BY <1>4, <2>6, Zenon DEF Follows, H
<1>7. Indegree[n] = F[Nodes]
  <2>1. Indegree[n] = Sum[Nodes]
    BY DEF Indegree, MapThenSumSet, MapThenFoldSet
  <2> HIDE DEF Sum
  <2> QED
    BY <1>6, <2>1
<1> HIDE DEF w, next, size, Sum
<1>8. \A s \in SUBSET Nodes : \A m \in s : F[s] = edges[<<m, n>>] + F[s \ {m}]
  <2> DEFINE Bad == {s \in SUBSET Nodes : \E m \in s : F[s] # edges[<<m, n>>] + F[s \ {m}]}
  <2> SUFFICES ASSUME Bad # {} PROVE FALSE
    OBVIOUS
  <2>1. PICK s \in Bad : \A t \in Bad : t \subseteq s => t = s
    <3>1. Bad \in SUBSET SUBSET Nodes
      OBVIOUS
    <3> HIDE DEF Bad
    <3> QED
      BY <3>1, GraphAssumption, HasSmallest
  <2>2. PICK m \in s : F[s] # edges[<<m, n>>] + F[s \ {m}]
    BY <2>1
  <2> DEFINE c == First(s)
  <2>3. s \in SUBSET Nodes /\ c \in s /\ F[s] = edges[<<c, n>>] + F[s \ {c}] /\ c # m
    BY <1>1, <1>5, <2>1, <2>2
  <2> HIDE DEF c
  <2>4. s \ {c} \notin Bad /\ s \ {m} \notin Bad
    <3>1. s \ {c} # s /\ s \ {m} # s
      BY <2>3
    <3> HIDE DEF Bad
    <3> QED
      BY <2>1, <3>1
  <2>5. F[s \ {c}] = edges[<<m, n>>] + F[(s \ {c}) \ {m}]
    BY <2>3, <2>4
  <2>6. F[s \ {m}] = edges[<<c, n>>] + F[(s \ {m}) \ {c}]
    BY <2>3, <2>4
  <2>7. (s \ {m}) \ {c} = (s \ {c}) \ {m}
    OBVIOUS
  <2>8. edges[<<m, n>>] \in Nat /\ edges[<<c, n>>] \in Nat /\ F[(s \ {c}) \ {m}] \in Nat
    BY <2>3 DEF Weighted
  <2> QED
    <3> DEFINE a == edges[<<m, n>>]
               b == edges[<<c, n>>]
               x == F[(s \ {c}) \ {m}]
    <3>1. a \in Nat /\ b \in Nat /\ x \in Nat
      BY <2>8
    <3>2. F[s] # a + F[s \ {m}] /\ F[s] = b + F[s \ {c}] /\ F[s \ {c}] = a + x /\ F[s \ {m}] = b + x
      BY <2>2, <2>3, <2>5, <2>6, <2>7
    <3> HIDE DEF a, b, x
    <3> QED
      BY <3>1, <3>2
<1> QED
  BY <1>5, <1>7, <1>8

\* The sum of the weights of the edges into a node, for every set of nodes they come from.
LEMMA SumsExist ==
  ASSUME Weighted
  PROVE  \E F \in [Nodes -> [SUBSET Nodes -> Nat]] : \A n \in Nodes :
           /\ Indegree[n] = F[n][Nodes] /\ F[n][{}] = 0
           /\ \A s \in SUBSET Nodes : \A m \in s : F[n][s] = edges[<<m, n>>] + F[n][s \ {m}]
<1> DEFINE Sums(n, f) ==
             /\ Indegree[n] = f[Nodes] /\ f[{}] = 0
             /\ \A s \in SUBSET Nodes : \A m \in s : f[s] = edges[<<m, n>>] + f[s \ {m}]
           S == [SUBSET Nodes -> Nat]
           F == [n \in Nodes |-> CHOOSE f \in S : Sums(n, f)]
<1>1. \A n \in Nodes : \E f \in S : Sums(n, f)
  BY SumSplits
<1>2. F \in [Nodes -> S] /\ \A n \in Nodes : Sums(n, F[n])
  <2> HIDE DEF Sums, S
  <2> QED
    BY <1>1
<1> QED
  <2> HIDE DEF F
  <2> QED
    BY <1>2

\* The sum is zero if and only if each edge weighs nothing.
LEMMA SumIsZero ==
  ASSUME Weighted, NEW n \in Nodes, NEW F \in [SUBSET Nodes -> Nat], F[{}] = 0,
         \A s \in SUBSET Nodes : \A m \in s : F[s] = edges[<<m, n>>] + F[s \ {m}],
         NEW s \in SUBSET Nodes
  PROVE  F[s] = 0 <=> \A m \in s : edges[<<m, n>>] = 0
<1>1. \A t \in SUBSET Nodes : \A m \in t :
        edges[<<m, n>>] \in Nat /\ F[t] \in Nat /\ F[t \ {m}] \in Nat
  BY DEF Weighted
<1>2. ASSUME NEW m \in s, F[s] = 0 PROVE edges[<<m, n>>] = 0
  <2>1. F[s] = edges[<<m, n>>] + F[s \ {m}]
    OBVIOUS
  <2>2. edges[<<m, n>>] \in Nat /\ F[s \ {m}] \in Nat
    BY <1>1
  <2> QED
    BY <1>2, <2>1, <2>2
<1> DEFINE Bad == {t \in SUBSET s : F[t] # 0}
<1>3. ASSUME \A m \in s : edges[<<m, n>>] = 0, Bad # {} PROVE FALSE
  <2>1. PICK t \in Bad : \A u \in Bad : u \subseteq t => u = t
    <3>1. Bad \in SUBSET SUBSET s /\ IsFiniteSet(s)
      BY GraphAssumption, FS_Subset
    <3> HIDE DEF Bad
    <3> QED
      BY <1>3, <3>1, HasSmallest
  <2>2. PICK m \in t : TRUE
    BY <2>1
  <2>3. t \ {m} \notin Bad
    <3>1. t \ {m} # t /\ t \ {m} \subseteq t
      BY <2>2
    <3> HIDE DEF Bad
    <3> QED
      BY <2>1, <3>1
  <2>4. F[t \ {m}] = 0 /\ F[t] = edges[<<m, n>>] + F[t \ {m}] /\ edges[<<m, n>>] = 0
    BY <1>3, <2>1, <2>2, <2>3
  <2> QED
    BY <2>1, <2>4
<1>4. s \notin Bad => F[s] = 0
  OBVIOUS
<1> QED
  <2> HIDE DEF Bad
  <2> QED
    BY <1>2, <1>3, <1>4

\* The recursion of Visits ends on every queue and all in-degrees: a visit takes a node
\* from the queue, and it frees nodes that are not free.
LEMMA VisitsExist ==
  ASSUME Weighted
  PROVE  \E V : /\ Visits = V[[queue |-> {n \in Nodes : Indegree[n] = 0}, indegree |-> Indegree]]
                /\ \A left \in [queue : SUBSET Nodes, indegree : [Nodes -> Nat]] :
                     V[left] = IF left.queue = {} THEN 0 ELSE 1 + V[Visit(left)]
<1> DEFINE D == [queue : SUBSET Nodes, indegree : [Nodes -> Nat]]
           B == {s \in D : s.queue = {}}
           w == [s \in D |-> 1]
           next == [s \in D |-> IF s.queue = {} THEN s ELSE Visit(s)]
           Wait(i) == {m \in Nodes : i[m] > 0}
           size == [s \in D |-> Cardinality(s.queue) + Cardinality(Wait(s.indegree))]
           V == CHOOSE visits : visits =
                  [left \in [queue : SUBSET Nodes, indegree : [Nodes -> Nat]] |->
                     IF left.queue = {} THEN 0 ELSE 1 + visits[Visit(left)]]
<1>1. ASSUME NEW s \in D, s.queue # {}
      PROVE  /\ First(s.queue) \in s.queue /\ Less(First(s.queue), s.indegree) \in [Nodes -> Nat]
             /\ Visit(s) = [queue |-> (s.queue \ {First(s.queue)}) \cup Freed(First(s.queue), s.indegree),
                            indegree |-> Less(First(s.queue), s.indegree)]
             /\ Visit(s) \in D
  <2>1. First(s.queue) \in s.queue
    BY <1>1 DEF First
  <2>2. \A n \in Nodes : Less(n, s.indegree) \in [Nodes -> Nat]
    BY DEF Less, Weighted
  <2>3. Visit(s) = [queue |-> (s.queue \ {First(s.queue)}) \cup Freed(First(s.queue), s.indegree),
                    indegree |-> Less(First(s.queue), s.indegree)]
    BY DEF Visit, First
  <2> QED
    BY <2>1, <2>2, <2>3 DEF Freed
<1>2. w \in [D -> Nat] /\ next \in [D -> D]
  <2> HIDE DEF D
  <2> QED
    BY <1>1
<1>3. size \in [D -> Nat]
  <2>1. ASSUME NEW s \in SUBSET Nodes PROVE Cardinality(s) \in Nat
    BY GraphAssumption, FS_Subset, FS_CardinalityType
  <2>2. ASSUME NEW s \in D PROVE Cardinality(s.queue) + Cardinality(Wait(s.indegree)) \in Nat
    <3>1. s.queue \in SUBSET Nodes /\ Wait(s.indegree) \in SUBSET Nodes
      OBVIOUS
    <3> HIDE DEF Wait
    <3> QED
      BY <2>1, <3>1
  <2> HIDE DEF D, Wait
  <2> QED
    BY <2>2
<1>4. Shrinks(D, B, next, size)
  <2> SUFFICES ASSUME NEW s \in D, s.queue # {}
               PROVE  size[Visit(s)] < size[s]
    <3>1. \A s \in D \ B : s \in D /\ s.queue # {} /\ next[s] = Visit(s)
      OBVIOUS
    <3> HIDE DEF D, B, size, next
    <3> QED
      BY <3>1 DEF Shrinks
  <2> DEFINE q == s.queue
             i == s.indegree
             n == First(q)
             Z == Freed(n, i)
             j == Less(n, i)
  <2>1. /\ n \in q /\ j \in [Nodes -> Nat] /\ q \in SUBSET Nodes /\ i \in [Nodes -> Nat]
        /\ Visit(s).queue = (q \ {n}) \cup Z /\ Visit(s).indegree = j /\ Visit(s) \in D
    BY <1>1
  <2>2. Z \subseteq Wait(i) /\ Wait(j) \subseteq Wait(i) \ Z
    <3> HIDE DEF q, i
    <3>1. \A m \in Nodes : j[m] <= i[m] /\ (m \in Z => j[m] = 0)
      BY <2>1 DEF Less, Freed, Weighted
    <3> HIDE DEF j
    <3> QED
      BY <2>1, <3>1 DEF Freed
  <2>3. size[Visit(s)] = Cardinality((q \ {n}) \cup Z) + Cardinality(Wait(j))
    <3> HIDE DEF Wait, n, j, Z, q, i, D
    <3> QED
      BY <2>1
  <2>4. size[s] = Cardinality(q) + Cardinality(Wait(i))
    <3> HIDE DEF Wait
    <3> QED
      OBVIOUS
  <2>5. IsFiniteSet(q) /\ IsFiniteSet(Wait(i)) /\ IsFiniteSet(Z) /\ IsFiniteSet(Wait(i) \ Z)
    <3> HIDE DEF q, i
    <3> QED
      BY <2>1, <2>2, GraphAssumption, FS_Subset
  <2> HIDE DEF n, j, Z, Wait, size, q, i
  <2>6. Cardinality(q \ {n}) = Cardinality(q) - 1 /\ IsFiniteSet(q \ {n})
    BY <2>1, <2>5, FS_RemoveElement
  <2>7. Cardinality((q \ {n}) \cup Z) <= Cardinality(q \ {n}) + Cardinality(Z)
    <3>1. /\ IsFiniteSet((q \ {n}) \cap Z)
          /\ Cardinality((q \ {n}) \cup Z)
                = Cardinality(q \ {n}) + Cardinality(Z) - Cardinality((q \ {n}) \cap Z)
      BY <2>5, <2>6, FS_Union, FS_Intersection
    <3>2. /\ Cardinality((q \ {n}) \cap Z) \in Nat /\ Cardinality(q \ {n}) \in Nat
          /\ Cardinality(Z) \in Nat
      BY <2>5, <2>6, <3>1, FS_CardinalityType
    <3> QED
      BY <3>1, <3>2
  <2>8. Cardinality(Wait(j)) <= Cardinality(Wait(i) \ Z)
    BY <2>2, <2>5, FS_Subset
  <2>9. Cardinality(Wait(i) \ Z) = Cardinality(Wait(i)) - Cardinality(Z)
    <3>1. Wait(i) \cap Z = Z
      BY <2>2
    <3> QED
      BY <2>5, <3>1, FS_Difference
  <2>10. /\ Cardinality(q) \in Nat /\ Cardinality(Wait(i)) \in Nat /\ Cardinality(Z) \in Nat
         /\ Cardinality(Wait(j)) \in Nat /\ Cardinality((q \ {n}) \cup Z) \in Nat
    BY <2>2, <2>5, <2>6, FS_CardinalityType, FS_Subset, FS_Union
  <2> QED
    BY <2>3, <2>4, <2>6, <2>7, <2>8, <2>9, <2>10
<1>5. PICK F \in [D -> Nat] : \A h : Follows(h, D, B, w, next) <=> h = F
  <2> HIDE DEF D, B, w, next, size, V
  <2> QED
    BY <1>2, <1>3, <1>4, RecursionDefines
<1>6. F = [left \in D |-> IF left.queue = {} THEN 0 ELSE 1 + F[Visit(left)]]
  <2>1. F = [s \in D |-> IF s \in B THEN 0 ELSE w[s] + F[next[s]]]
    BY <1>5, Zenon DEF Follows
  <2>2. \A s \in D : F[s] = IF s \in B THEN 0 ELSE w[s] + F[next[s]]
    <3> HIDE DEF w, next, B, D
    <3> QED
      BY <2>1
  <2>3. ASSUME NEW s \in D PROVE F[s] = IF s.queue = {} THEN 0 ELSE 1 + F[Visit(s)]
    <3>1. (s \in B <=> s.queue = {}) /\ w[s] = 1 /\ (s.queue # {} => next[s] = Visit(s))
      <4> HIDE DEF D
      <4> QED
        OBVIOUS
    <3> HIDE DEF w, next, B, D
    <3> QED
      BY <2>2, <3>1
  <2> HIDE DEF D
  <2> QED
    BY <2>3
<1>7. Visits = V[[queue |-> {n \in Nodes : Indegree[n] = 0}, indegree |-> Indegree]]
  BY DEF Visits
<1>8. V = [left \in D |-> IF left.queue = {} THEN 0 ELSE 1 + V[Visit(left)]]
  BY <1>6, Zenon
<1> HIDE DEF V
<1>9. \A left \in D : V[left] = IF left.queue = {} THEN 0 ELSE 1 + V[Visit(left)]
  <2> HIDE DEF D
  <2> QED
    BY <1>8
<1> QED
  BY <1>7, <1>9

\* No node of S is without edges from S.
Trap(S) == S # {} /\ \A n \in S : Preds(n) \cap S # {}

\* What Visits counts when the nodes outside U have been visited and have no edges from U:
\* all of U, unless a cycle keeps some of it out of the queue.
LEMMA VisitsCount ==
  ASSUME Weighted
  PROVE  /\ (\E S \in SUBSET Nodes : Trap(S)) => Visits # Cardinality(Nodes)
         /\ (\A S \in SUBSET Nodes : ~Trap(S)) => Visits = Cardinality(Nodes)
<1>1. PICK F \in [Nodes -> [SUBSET Nodes -> Nat]] : \A n \in Nodes :
        /\ Indegree[n] = F[n][Nodes] /\ F[n][{}] = 0
        /\ \A s \in SUBSET Nodes : \A m \in s : F[n][s] = edges[<<m, n>>] + F[n][s \ {m}]
  BY SumsExist
<1>2. PICK V : /\ Visits = V[[queue |-> {n \in Nodes : Indegree[n] = 0}, indegree |-> Indegree]]
               /\ \A left \in [queue : SUBSET Nodes, indegree : [Nodes -> Nat]] :
                    V[left] = IF left.queue = {} THEN 0 ELSE 1 + V[Visit(left)]
  BY VisitsExist
<1>3. \A n \in Nodes, U \in SUBSET Nodes : F[n][U] \in Nat /\ (F[n][U] = 0 <=> Preds(n) \cap U = {})
  <2> SUFFICES ASSUME NEW n \in Nodes, NEW U \in SUBSET Nodes
               PROVE  F[n][U] \in Nat /\ (F[n][U] = 0 <=> Preds(n) \cap U = {})
    OBVIOUS
  <2>1. F[n] \in [SUBSET Nodes -> Nat]
    OBVIOUS
  <2>2. F[n][U] = 0 <=> \A m \in U : edges[<<m, n>>] = 0
    <3>1. F[n][{}] = 0 /\ \A s \in SUBSET Nodes : \A m \in s : F[n][s] = edges[<<m, n>>] + F[n][s \ {m}]
      BY <1>1
    <3> QED
      BY <2>1, <3>1, SumIsZero
  <2>3. \A m \in U : edges[<<m, n>>] \in Nat
    BY DEF Weighted
  <2> QED
    BY <2>1, <2>2, <2>3 DEF Preds
<1> DEFINE Free(U) == {n \in U : F[n][U] = 0}
           At(U) == [queue |-> Free(U), indegree |-> [n \in Nodes |-> F[n][U]]]
           Closed(U) == \A n \in Nodes \ U : F[n][U] = 0
<1>4. \A U \in SUBSET Nodes : At(U) \in [queue : SUBSET Nodes, indegree : [Nodes -> Nat]]
  BY <1>3
<1>5. ASSUME NEW U \in SUBSET Nodes, Closed(U), Free(U) # {}
      PROVE  \E n \in Free(U) : Closed(U \ {n}) /\ V[At(U)] = 1 + V[At(U \ {n})]
  <2> DEFINE n == CHOOSE m \in Free(U) : TRUE
             W == U \ {n}
  <2>1. n \in U /\ n \in Nodes /\ F[n][U] = 0 /\ W \in SUBSET Nodes
    <3>1. n \in Free(U)
      <4> HIDE DEF Free
      <4> QED
        BY <1>5
    <3> HIDE DEF n
    <3> QED
      BY <3>1
  <2>2. Visit(At(U)) = [queue |-> (Free(U) \ {n}) \cup Freed(n, [x \in Nodes |-> F[x][U]]),
                        indegree |-> Less(n, [x \in Nodes |-> F[x][U]])]
    <3> HIDE DEF Free
    <3> QED
      BY DEF Visit
  <2> HIDE DEF n
  <2>3. \A x \in Nodes : /\ F[x][U] = edges[<<n, x>>] + F[x][W] /\ edges[<<n, x>>] \in Nat
                         /\ F[x][W] \in Nat /\ F[x][U] \in Nat
    <3> SUFFICES ASSUME NEW x \in Nodes
                 PROVE  /\ F[x][U] = edges[<<n, x>>] + F[x][W] /\ edges[<<n, x>>] \in Nat
                        /\ F[x][W] \in Nat /\ F[x][U] \in Nat
      OBVIOUS
    <3>1. F[x][U] = edges[<<n, x>>] + F[x][W]
      BY <1>1, <2>1
    <3>2. edges[<<n, x>>] \in Nat
      BY <2>1 DEF Weighted
    <3>3. F[x][W] \in Nat /\ F[x][U] \in Nat
      BY <1>3, <2>1
    <3> QED
      BY <3>1, <3>2, <3>3
  <2>4. \A x \in Nodes : F[x][U] = 0 => F[x][W] = 0
    <3> SUFFICES ASSUME NEW x \in Nodes, F[x][U] = 0 PROVE F[x][W] = 0
      OBVIOUS
    <3> DEFINE b == F[x][W]
               c == edges[<<n, x>>]
    <3>1. 0 = c + b /\ b \in Nat /\ c \in Nat
      BY <2>3
    <3> HIDE DEF b, c
    <3>2. b = 0
      BY <3>1
    <3> QED
      BY <3>2 DEF b
  <2>5. Less(n, [x \in Nodes |-> F[x][U]]) = [x \in Nodes |-> F[x][W]]
    <3>1. ASSUME NEW x \in Nodes
          PROVE  (IF F[x][U] < edges[<<n, x>>] THEN 0 ELSE F[x][U] - edges[<<n, x>>]) = F[x][W]
      <4> DEFINE a == F[x][U]
                 b == F[x][W]
                 c == edges[<<n, x>>]
      <4>1. a = c + b /\ a \in Nat /\ b \in Nat /\ c \in Nat
        BY <2>3
      <4> HIDE DEF a, b, c
      <4>2. (IF a < c THEN 0 ELSE a - c) = b
        BY <4>1
      <4> QED
        BY <4>2 DEF a, b, c
    <3> HIDE DEF W
    <3> QED
      BY <3>1 DEF Less
  <2>6. Freed(n, [x \in Nodes |-> F[x][U]]) = {x \in Nodes : F[x][U] > 0 /\ F[x][W] = 0}
    <3> HIDE DEF W
    <3> QED
      BY <2>5 DEF Freed
  <2>7. (Free(U) \ {n}) \cup {x \in Nodes : F[x][U] > 0 /\ F[x][W] = 0} = Free(W)
    <3>1. ASSUME NEW x \in Nodes
          PROVE  (x \in U /\ F[x][U] = 0 /\ x # n) \/ (F[x][U] > 0 /\ F[x][W] = 0)
                 <=> x \in W /\ F[x][W] = 0
      <4>1. F[x][U] = 0 => F[x][W] = 0
        BY <2>4
      <4>2. F[x][U] = 0 \/ F[x][U] > 0
        BY <2>3
      <4>3. F[x][U] > 0 => F[x][U] # 0 /\ x \in U /\ x # n
        BY <1>5, <2>1, <2>3
      <4> QED
        BY <4>1, <4>2, <4>3
    <3>2. W \subseteq Nodes /\ U \subseteq Nodes
      BY <2>1
    <3> HIDE DEF W
    <3> QED
      BY <3>1, <3>2
  <2>8. Visit(At(U)) = At(W)
    <3> HIDE DEF W, Free
    <3> QED
      BY <2>2, <2>5, <2>6, <2>7
  <2>9. Closed(W)
    <3> SUFFICES ASSUME NEW x \in Nodes \ W PROVE F[x][W] = 0
      OBVIOUS
    <3>1. F[x][U] = 0
      BY <1>5, <2>1
    <3> QED
      BY <2>4, <3>1
  <2>10. V[At(U)] = 1 + V[At(W)]
    <3>1. At(U).queue # {} /\ At(U) \in [queue : SUBSET Nodes, indegree : [Nodes -> Nat]]
      <4> HIDE DEF Free
      <4> QED
        BY <1>4, <1>5
    <3> HIDE DEF At, W
    <3> QED
      BY <1>2, <2>8, <3>1
  <2> QED
    <3> HIDE DEF At, Closed
    <3> QED
      BY <2>1, <2>9, <2>10
<1>6. ASSUME NEW U \in SUBSET Nodes, Free(U) = {} PROVE V[At(U)] = 0
  <2>1. At(U).queue = {} /\ At(U) \in [queue : SUBSET Nodes, indegree : [Nodes -> Nat]]
    <3> HIDE DEF Free
    <3> QED
      BY <1>4, <1>6
  <2> HIDE DEF At
  <2> QED
    BY <1>2, <2>1
<1> DEFINE Stuck(U) == \E S \in SUBSET U : Trap(S)
           Bad == {U \in SUBSET Nodes : /\ Closed(U)
                                        /\ ~(/\ V[At(U)] \in Nat
                                             /\ Stuck(U) => V[At(U)] < Cardinality(U)
                                             /\ ~Stuck(U) => V[At(U)] = Cardinality(U))}
<1>7. Bad = {}
  <2> SUFFICES ASSUME Bad # {} PROVE FALSE
    OBVIOUS
  <2>1. PICK U \in Bad : \A T \in Bad : T \subseteq U => T = U
    <3>1. Bad \in SUBSET SUBSET Nodes
      <4> HIDE DEF Closed, Stuck, At
      <4> QED
        OBVIOUS
    <3> HIDE DEF Bad
    <3> QED
      BY <3>1, GraphAssumption, HasSmallest
  <2>2. U \in SUBSET Nodes /\ Closed(U) /\ ~(/\ V[At(U)] \in Nat
                                             /\ Stuck(U) => V[At(U)] < Cardinality(U)
                                             /\ ~Stuck(U) => V[At(U)] = Cardinality(U))
    <3> HIDE DEF Closed, Stuck, At
    <3> QED
      BY <2>1
  <2>3. IsFiniteSet(U) /\ Cardinality(U) \in Nat
    BY <2>2, GraphAssumption, FS_Subset, FS_CardinalityType
  <2>4. CASE Free(U) = {}
    <3>1. V[At(U)] = 0
      BY <1>6, <2>2, <2>4
    <3>2. CASE U = {}
      <4>1. ~Stuck(U) /\ Cardinality(U) = 0
        BY <3>2, FS_EmptySet DEF Trap
      <4> HIDE DEF Stuck, At, Closed
      <4> QED
        BY <2>2, <3>1, <4>1
    <3>3. CASE U # {}
      <4>1. Trap(U)
        BY <1>3, <2>2, <2>4, <3>3 DEF Trap
      <4>2. Stuck(U) /\ Cardinality(U) # 0
        BY <2>3, <3>3, <4>1, FS_EmptySet
      <4> HIDE DEF Stuck, At, Closed
      <4> QED
        BY <2>2, <2>3, <3>1, <4>2
    <3> QED
      BY <3>2, <3>3
  <2>5. CASE Free(U) # {}
    <3>1. PICK n \in Free(U) : Closed(U \ {n}) /\ V[At(U)] = 1 + V[At(U \ {n})]
      <4> HIDE DEF At, Closed, Free
      <4> QED
        BY <1>5, <2>2, <2>5
    <3>2. n \in U /\ n \in Nodes /\ Preds(n) \cap U = {} /\ U \ {n} \in SUBSET Nodes
      BY <1>3, <2>2, <3>1
    <3>3. Stuck(U) <=> Stuck(U \ {n})
      <4>1. \A S \in SUBSET U : Trap(S) => n \notin S
        BY <3>2 DEF Trap
      <4>2. \A S : Trap(S) => (S \in SUBSET U <=> S \in SUBSET (U \ {n}))
        BY <4>1
      <4> QED
        BY <4>2
    <3>4. Cardinality(U \ {n}) = Cardinality(U) - 1
      BY <2>3, <3>2, FS_RemoveElement
    <3>5. U \ {n} \notin Bad
      <4>1. U \ {n} # U
        BY <3>2
      <4> HIDE DEF Bad
      <4> QED
        BY <2>1, <4>1
    <3>6. /\ V[At(U \ {n})] \in Nat
          /\ Stuck(U \ {n}) => V[At(U \ {n})] < Cardinality(U \ {n})
          /\ ~Stuck(U \ {n}) => V[At(U \ {n})] = Cardinality(U \ {n})
      <4> HIDE DEF At, Closed, Stuck
      <4> QED
        BY <3>1, <3>2, <3>5
    <3> HIDE DEF At, Closed, Stuck, Bad
    <3> QED
      BY <2>2, <2>3, <3>1, <3>3, <3>4, <3>6
  <2> QED
    BY <2>4, <2>5
<1>8. Visits = V[At(Nodes)]
  <2>1. Indegree = [n \in Nodes |-> F[n][Nodes]]
    <3>1. Indegree = [n \in Nodes |-> Indegree[n]]
      BY DEF Indegree
    <3> QED
      BY <1>1, <3>1
  <2>2. {n \in Nodes : Indegree[n] = 0} = Free(Nodes)
    BY <1>1
  <2> HIDE DEF Free
  <2> QED
    BY <1>2, <2>1, <2>2
<1>9. /\ Visits \in Nat /\ Cardinality(Nodes) \in Nat
      /\ Stuck(Nodes) => Visits < Cardinality(Nodes)
      /\ ~Stuck(Nodes) => Visits = Cardinality(Nodes)
  <2>1. Closed(Nodes) /\ Nodes \in SUBSET Nodes /\ Cardinality(Nodes) \in Nat
    BY GraphAssumption, FS_CardinalityType
  <2> HIDE DEF Closed, At, Stuck
  <2> QED
    BY <1>7, <1>8, <2>1
<1> HIDE DEF At, Closed, Free, Bad
<1> QED
  BY <1>9

\* A request moves by a step of its compilation or execution, or within the gate.
LEMMA RequestMoves ==
  ASSUME GateTypes, [Next]_vars, NEW r \in Requests
  PROVE  \/ pc'[r] = pc[r]
         \/ RunStep(r)
         \/ /\ pc[r] \in {"gate", "probed", "submit"}
            /\ pc'[r] \in {"probed", "submit", "ready", "refused"}
<1>1. pc \in [Clients -> Places] /\ r \in Clients /\ r # Observer
  BY WarmupAssumption DEF GateTypes, Clients
<1>2. ASSUME NEW c \in Clients, c # r, Inspect(c, "idle") \/ Inspect(c, "gate") \/ InspectFails(c, "idle")
                                     \/ InspectFails(c, "gate") \/ Judge(c) \/ Submit(c)
      PROVE  pc'[r] = pc[r]
  <2>1. CASE Judge(c)
    BY <1>1, <1>2, <2>1, Judged
  <2>2. CASE ~Judge(c)
    BY <1>1, <1>2, <2>2 DEF Inspect, InspectFails, Submit
  <2> QED
    BY <2>1, <2>2
<1>3. ASSUME Inspect(r, "gate") \/ InspectFails(r, "gate") \/ Judge(r) \/ Submit(r)
      PROVE  /\ pc[r] \in {"gate", "probed", "submit"}
             /\ pc'[r] \in {"probed", "submit", "ready", "refused"}
  <2>1. CASE Judge(r)
    BY <1>1, <1>3, <2>1, Judged
  <2>2. CASE ~Judge(r)
    BY <1>1, <1>3, <2>2 DEF Inspect, InspectFails, Submit
  <2> QED
    BY <2>1, <2>2
<1>4. ASSUME NEW s \in Requests, s # r, RunStep(s) PROVE pc'[r] = pc[r]
  BY <1>1, <1>4 DEF RunStep, Compile, StartWave, Join, Answer, RunNode, Goto, Clients
<1>5. CASE UNCHANGED vars
  BY <1>5 DEF vars, warmVars
<1>6. ASSUME NEW s \in Requests, Request(s)
      PROVE  RunStep(s) \/ Inspect(s, "gate") \/ Judge(s) \/ Submit(s)
  BY <1>6 DEF Request, RunStep
<1>7. CASE \E s \in Requests : Request(s)
  BY <1>2, <1>3, <1>4, <1>6, <1>7 DEF Clients
<1>8. CASE Change \/ Switch \/ Rested \/ Sleep \/ \E i \in Slots : Worker(i) \/ WarmFails(i)
  BY <1>8, OtherMovesNone DEF OtherStep
<1>9. CASE Observe \/ InspectFails(Observer, "idle") \/ \E s \in Requests : InspectFails(s, "gate")
  <2>1. Observer \in Clients /\ Requests \subseteq Clients
    BY DEF Clients
  <2> QED
    BY <1>1, <1>2, <1>3, <1>8, <1>9, <2>1 DEF Observe
<1> QED
  BY <1>5, <1>7, <1>8, <1>9 DEF Next

\* A graph without cycles has a node to start with, and a node to go on with after any
\* that are done.
Acyclic == \A S \in (SUBSET Nodes) \ {{}} : \E n \in S : Preds(n) \cap S = {}

\* The compiler accepts the graphs without cycles.
LEMMA AcceptedIsAcyclic == edges \in Graphs => (Accepted <=> Acyclic)
<1>1. edges \in Graphs => Weighted
  BY GraphAssumption DEF Weighted
<1>2. Acyclic <=> \A S \in SUBSET Nodes : ~Trap(S)
  BY DEF Acyclic, Trap
<1> QED
  BY <1>1, <1>2, VisitsCount DEF Accepted

\* The compiler refuses the graphs with a cycle and no others, and an accepted graph has
\* at each wave a node whose predecessors are done (ParadigmCompiler.checkAcyclic and the
\* waves of ParadigmExecutor).
THEOREM CompilerDecides == Spec => []AcceptedGraphsRun
<1>1. Init => edges \in Graphs /\ AcceptedGraphsRun
  BY DEF Init, WarmInit, AcceptedGraphsRun, Clients
<1>2. ASSUME Typed, edges \in Graphs, AcceptedGraphsRun, [Next]_vars
      PROVE  edges' \in Graphs /\ AcceptedGraphsRun'
  <2>1. edges' = edges
    <3>1. ASSUME NEW r \in Requests, RunStep(r) PROVE edges' = edges
      BY <1>2, <3>1, RunMovesOne
    <3> QED
      BY <1>2, <3>1, Kinds DEF runVars
  <2>2. Acyclic' <=> Acyclic
    BY <2>1 DEF Acyclic, Preds
  <2> SUFFICES ASSUME NEW r \in Requests
               PROVE  /\ pc'[r] = "rejected" => ~Acyclic
                      /\ pc'[r] \notin {"idle", "rejected"} => Acyclic /\ pc'[r] # "stalled"
    BY <1>2, <2>1, <2>2 DEF AcceptedGraphsRun, Acyclic
  <2>3. /\ pc[r] = "rejected" => ~Acyclic
        /\ pc[r] \notin {"idle", "rejected"} => Acyclic /\ pc[r] # "stalled"
    BY <1>2 DEF AcceptedGraphsRun, Acyclic
  <2>4. pc \in [Clients -> Places] /\ r \in Clients
    BY <1>2 DEF Typed, GateTypes, Clients
  <2>5. CASE Compile(r)
    BY <1>2, <2>4, <2>5, AcceptedIsAcyclic DEF Compile, Goto
  <2>6. CASE StartWave(r)
    <3>1. Acyclic => Ready(r) # {}
      <4>1. Done(r) \subseteq Nodes /\ Done(r) # Nodes
        BY <2>6 DEF StartWave, Done
      <4>2. Nodes \ Done(r) \in (SUBSET Nodes) \ {{}}
        BY <4>1
      <4>3. \A n \in Nodes \ Done(r) : Preds(n) \cap (Nodes \ Done(r)) = {} => n \in Ready(r)
        BY DEF Ready, Preds
      <4> QED
        BY <4>2, <4>3 DEF Acyclic
    <3> QED
      BY <2>3, <2>4, <2>6, <3>1 DEF StartWave, Goto
  <2>7. CASE Join(r) \/ Answer(r) \/ \E n \in Nodes : RunNode(r, n)
    BY <2>3, <2>4, <2>7 DEF Join, Answer, RunNode, Goto
  <2>8. CASE pc'[r] = pc[r]
    BY <2>3, <2>8
  <2>9. CASE /\ pc[r] \in {"gate", "probed", "submit"}
             /\ pc'[r] \in {"probed", "submit", "ready", "refused"}
    BY <2>3, <2>9
  <2> QED
    BY <1>2, <2>5, <2>6, <2>7, <2>8, <2>9, RequestMoves DEF RunStep, Typed
<1>3. /\ Typed /\ edges \in Graphs /\ AcceptedGraphsRun /\ [Next]_vars
      => (Typed /\ edges \in Graphs /\ AcceptedGraphsRun)'
  BY <1>2, StepTyped
<1> QED
  BY <1>1, <1>3, InitTyped, PTL DEF Spec

=============================================================================
