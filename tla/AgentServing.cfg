\* A request and the observer; one restart, one opt-out or opt-in, one failure.
SPECIFICATION FairSpec
CONSTANTS
  a = a  b = b  c = c
  r1 = r1
  Requests = {r1}
  Observer = observer
  Slots = {1, 2}
  MaxChanges = 1
  MaxSwitches = 1
  MaxFaults = 1
  Nodes = {a, b, c}
  Graphs <- Shapes
  Lenient = {b}
INVARIANTS TypeOK SingleFlight AdmittedIsWarm AcceptedGraphsRun
PROPERTIES GateOpens ImplementsParadigmRun
