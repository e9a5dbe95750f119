------------------------- MODULE LlmSubmissionProofs -------------------------
(***************************************************************************)
(* What holds of LlmSubmission for every number of submissions, calls,     *)
(* writers, retries, cleanups, crashes and shutdowns, and every size of    *)
(* the queue and of a batch.                                               *)
(***************************************************************************)
EXTENDS LlmSubmission, DataLemmas, SequenceTheorems, FiniteSetTheorems, TLAPS

-----------------------------------------------------------------------------
(* Sets of numbers and sequences.                                          *)

\* The greatest number of a bounded set that has members is one of them.
LEMMA MaxIsMember ==
  ASSUME NEW n \in Nat, NEW S \in SUBSET (1 .. n), S # {}
  PROVE  Max(S) \in S
  BY BoundedHasGreatest DEF Max

\* The lesser of two numbers.
LEMMA MinOfTwo ==
  ASSUME NEW m \in Nat, NEW n \in Nat
  PROVE  /\ Min({m, n}) \in Nat
         /\ Min({m, n}) \in {m, n}
         /\ Min({m, n}) <= m /\ Min({m, n}) <= n
<1>1. \E x \in {m, n} : \A y \in {m, n} : x =< y
  <2>1. CASE m <= n
    BY <2>1
  <2>2. CASE ~(m <= n)
    BY <2>2
  <2> QED
    BY <2>1, <2>2
<1>2. Min({m, n}) \in {m, n} /\ \A y \in {m, n} : Min({m, n}) =< y
  BY <1>1 DEF Min
<1> QED
  BY <1>2

\* No value stands at two places of a sequence.
Distinct(s) == \A i, j \in 1 .. Len(s) : s[i] = s[j] => i = j

\* A sequence without repetitions stays one without its head, which has gone from it.
LEMMA TailRemoves ==
  ASSUME NEW S, NEW s \in Seq(S), s # <<>>, Distinct(s)
  PROVE  /\ Head(s) \in S /\ Tail(s) \in Seq(S) /\ Len(Tail(s)) = Len(s) - 1
         /\ InSeq(Head(s), s) /\ Distinct(Tail(s))
         /\ \A x : InSeq(x, Tail(s)) <=> InSeq(x, s) /\ x # Head(s)
<1>1. Len(s) \in Nat \ {0} /\ Head(s) = s[1]
  BY EmptySeq
<1>2. /\ Head(s) \in S /\ Tail(s) \in Seq(S) /\ Len(Tail(s)) = Len(s) - 1
      /\ \A i \in 1 .. Len(s) - 1 : Tail(s)[i] = s[i + 1]
  BY HeadTailProperties
<1>3. InSeq(Head(s), s)
  BY <1>1 DEF InSeq
<1>4. Distinct(Tail(s))
  BY <1>1, <1>2 DEF Distinct
<1>5. \A x : InSeq(x, Tail(s)) => InSeq(x, s) /\ x # Head(s)
  BY <1>1, <1>2 DEF InSeq, Distinct
<1>6. ASSUME NEW x, InSeq(x, s), x # Head(s)
      PROVE  InSeq(x, Tail(s))
  <2>1. PICK i \in 1 .. Len(s) : s[i] = x
    BY <1>6 DEF InSeq
  <2>2. i - 1 \in 1 .. Len(s) - 1 /\ (i - 1) + 1 = i
    BY <1>1, <1>6, <2>1
  <2>3. Tail(s)[i - 1] = x
    BY <1>2, <2>1, <2>2
  <2> QED
    BY <1>2, <2>2, <2>3 DEF InSeq
<1> QED
  BY <1>2, <1>3, <1>4, <1>5, <1>6

\* A value that is new to a sequence is appended to it.
LEMMA AppendAdds ==
  ASSUME NEW S, NEW s \in Seq(S), Distinct(s), NEW e \in S, ~InSeq(e, s)
  PROVE  /\ Append(s, e) \in Seq(S) /\ Len(Append(s, e)) = Len(s) + 1
         /\ Distinct(Append(s, e))
         /\ \A x : InSeq(x, Append(s, e)) <=> InSeq(x, s) \/ x = e
<1>1. /\ Append(s, e) \in Seq(S) /\ Len(Append(s, e)) = Len(s) + 1
      /\ \A i \in 1 .. Len(s) : Append(s, e)[i] = s[i]
      /\ Append(s, e)[Len(s) + 1] = e
  BY AppendProperties
<1>2. Len(s) \in Nat
  BY LenProperties
<1>3. \A i \in 1 .. Len(s) + 1 : i \in 1 .. Len(s) \/ i = Len(s) + 1
  BY <1>2
<1>4. Distinct(Append(s, e))
  BY <1>1, <1>2, <1>3 DEF Distinct, InSeq
<1>5. \A x : InSeq(x, Append(s, e)) <=> InSeq(x, s) \/ x = e
  BY <1>1, <1>2, <1>3 DEF InSeq
<1> QED
  BY <1>1, <1>4, <1>5

\* Two parts of a sequence without repetitions have its values between them and
\* none in common.
LEMMA SplitParts ==
  ASSUME NEW S, NEW s \in Seq(S), Distinct(s), NEW n \in 0 .. Len(s)
  PROVE  /\ SubSeq(s, 1, n) \in Seq(S) /\ Len(SubSeq(s, 1, n)) = n
         /\ SubSeq(s, n + 1, Len(s)) \in Seq(S) /\ Len(SubSeq(s, n + 1, Len(s))) = Len(s) - n
         /\ Distinct(SubSeq(s, 1, n)) /\ Distinct(SubSeq(s, n + 1, Len(s)))
         /\ \A x : InSeq(x, s) <=> InSeq(x, SubSeq(s, 1, n)) \/ InSeq(x, SubSeq(s, n + 1, Len(s)))
         /\ \A x : ~(InSeq(x, SubSeq(s, 1, n)) /\ InSeq(x, SubSeq(s, n + 1, Len(s))))
<1> DEFINE a == SubSeq(s, 1, n)
           b == SubSeq(s, n + 1, Len(s))
<1>1. Len(s) \in Nat /\ \A i \in 1 .. Len(s) : s[i] \in S
  BY LenProperties, ElementOfSeq
<1>2. a \in Seq(S) /\ Len(a) = n /\ \A i \in 1 .. n : a[i] = s[i]
  <2>1. \A i \in 1 .. n : s[i] \in S
    BY <1>1
  <2>2. /\ a \in Seq(S) /\ Len(a) = IF 1 <= n THEN n - 1 + 1 ELSE 0
        /\ \A i \in 1 .. n - 1 + 1 : a[i] = s[1 + i - 1]
    BY <1>1, <2>1, SubSeqProperties
  <2> HIDE DEF a
  <2> QED
    BY <1>1, <2>2
<1>3. b \in Seq(S) /\ Len(b) = Len(s) - n /\ \A i \in 1 .. Len(s) - n : b[i] = s[n + i]
  <2>1. \A i \in n + 1 .. Len(s) : s[i] \in S
    BY <1>1
  <2>2. /\ b \in Seq(S) /\ Len(b) = IF n + 1 <= Len(s) THEN Len(s) - (n + 1) + 1 ELSE 0
        /\ \A i \in 1 .. Len(s) - (n + 1) + 1 : b[i] = s[n + 1 + i - 1]
    BY <1>1, <2>1, SubSeqProperties
  <2> HIDE DEF b
  <2> QED
    BY <1>1, <2>2
<1> HIDE DEF a, b
<1>4. Distinct(a)
  BY <1>1, <1>2 DEF Distinct
<1>5. Distinct(b)
  <2> SUFFICES ASSUME NEW i \in 1 .. Len(s) - n, NEW j \in 1 .. Len(s) - n, b[i] = b[j]
               PROVE  i = j
    BY <1>3 DEF Distinct
  <2>1. n + i \in 1 .. Len(s) /\ n + j \in 1 .. Len(s) /\ s[n + i] = s[n + j]
    BY <1>1, <1>3
  <2>2. n + i = n + j
    BY <2>1 DEF Distinct
  <2> QED
    BY <1>1, <2>2
<1>6. ASSUME NEW x, InSeq(x, s)
      PROVE  InSeq(x, a) \/ InSeq(x, b)
  <2>1. PICK i \in 1 .. Len(s) : s[i] = x
    BY <1>6 DEF InSeq
  <2>2. CASE i <= n
    BY <1>1, <1>2, <2>1, <2>2 DEF InSeq
  <2>3. CASE i > n
    <3>1. i - n \in 1 .. Len(s) - n /\ n + (i - n) = i
      BY <1>1, <2>1, <2>3
    <3> QED
      BY <1>3, <2>1, <3>1 DEF InSeq
  <2> QED
    BY <1>1, <2>2, <2>3
<1>7. \A x : InSeq(x, a) \/ InSeq(x, b) => InSeq(x, s)
  BY <1>1, <1>2, <1>3 DEF InSeq
<1>8. ASSUME NEW x, InSeq(x, a), InSeq(x, b)
      PROVE  FALSE
  <2>1. PICK i \in 1 .. n : a[i] = x
    BY <1>2, <1>8 DEF InSeq
  <2>2. PICK j \in 1 .. Len(s) - n : b[j] = x
    BY <1>3, <1>8 DEF InSeq
  <2>3. i \in 1 .. Len(s) /\ n + j \in 1 .. Len(s) /\ i # n + j
    BY <1>1
  <2>4. s[i] = s[n + j]
    BY <1>2, <1>3, <2>1, <2>2
  <2> QED
    BY <2>3, <2>4 DEF Distinct
<1> QED
  BY <1>2, <1>3, <1>4, <1>5, <1>6, <1>7, <1>8 DEF a, b

-----------------------------------------------------------------------------
(* Types.                                                                  *)

Coroutines == Writers \cup {Stopper}
Rows == [status : Live \cup Final \cup {"deleted"}, contract : Contracts,
         by : Calls \cup {Nobody}, request : BOOLEAN, old : BOOLEAN, retried : BOOLEAN]
Where == {"idle", "succeeded", "running", "queued", "insert", "done"}

\* The table, the queue and the batches are sequences; what PersistWriter holds
\* are records of calls that have been answered.
Shape ==
  /\ task \in Seq(Rows)
  /\ queue \in Seq(called)
  /\ batch \in [Coroutines -> Seq(called)]

Typed == TypeOK /\ Shape

\* What a step may do to the table: rows are added at its end, and a row keeps the
\* contract and the call it was created for.
Grows ==
  /\ task' \in Seq(Rows) /\ Len(task) <= Len(task')
  /\ \A t \in Ids : task'[t].contract = task[t].contract /\ task'[t].by = task[t].by

\* The table and its ids.
LEMMA Table ==
  ASSUME Typed
  PROVE  /\ Len(task) \in Nat /\ Ids = 1 .. Len(task) /\ DOMAIN task = Ids
         /\ \A t \in Ids : task[t] \in Rows
         /\ \A t \in Ids : t \in Nat \ {0}
  BY LenProperties, ElementOfSeq DEF Typed, Shape, Ids

\* A step that writes rows of the table, one by one, leaves a table of the same length.
LEMMA RewriteTyped ==
  ASSUME Typed, NEW f \in [Ids -> Rows], task' = f,
         \A t \in Ids : f[t].contract = task[t].contract /\ f[t].by = task[t].by
  PROVE  Grows /\ Len(task') = Len(task)
  BY Table, FunctionIsSeq DEF Grows

\* A step that adds a row to the table.
LEMMA InsertTyped ==
  ASSUME Typed, NEW r \in Rows, task' = Append(task, r)
  PROVE  /\ Grows /\ Len(task') = Len(task) + 1
         /\ \A t \in Ids : task'[t] = task[t]
         /\ task'[Len(task) + 1] = r
<1>1. task \in Seq(Rows)
  BY DEF Typed, Shape
<1>2. /\ task' \in Seq(Rows) /\ Len(task') = Len(task) + 1
      /\ \A t \in 1 .. Len(task) : task'[t] = task[t]
      /\ task'[Len(task) + 1] = r
  BY <1>1, AppendProperties
<1> QED
  BY <1>2, Table DEF Grows

\* A row whose status changes.
LEMMA StatusTyped ==
  ASSUME Typed, NEW t \in Ids, NEW status \in Live \cup Final, SetStatus(t, status)
  PROVE  Grows /\ Len(task') = Len(task)
<1>1. DOMAIN task = Ids /\ \A u \in Ids : task[u] \in Rows
  BY Table
<1>2. [task EXCEPT ![t].status = status] \in [Ids -> Rows]
  BY <1>1 DEF Rows
<1>3. \A u \in Ids : /\ [task EXCEPT ![t].status = status][u].contract = task[u].contract
                     /\ [task EXCEPT ![t].status = status][u].by = task[u].by
  BY <1>1 DEF Rows
<1> QED
  BY <1>2, <1>3, RewriteTyped DEF SetStatus

\* The requeue of the running tasks.
LEMMA RequeueTyped ==
  ASSUME Typed, task' = Requeued
  PROVE  Grows /\ Len(task') = Len(task)
<1>1. \A u \in Ids : task[u] \in Rows
  BY Table
<1>2. Requeued \in [Ids -> Rows]
  BY <1>1 DEF Rows, Requeued, Live
<1>3. \A u \in Ids : Requeued[u].contract = task[u].contract /\ Requeued[u].by = task[u].by
  BY <1>1 DEF Rows, Requeued
<1> HIDE DEF Requeued
<1> QED
  BY <1>2, <1>3, RewriteTyped

\* The service starts well typed.
LEMMA InitTyped == Init => Typed
<1> SUFFICES ASSUME Init PROVE Typed
  OBVIOUS
<1>1. task = <<>> /\ queue = <<>> /\ Len(<<>>) = 0 /\ \A S : <<>> \in Seq(S)
  BY EmptySeq DEF Init
<1>2. Shape
  BY <1>1 DEF Init, Shape, Coroutines
<1>3. \A w \in Writers : Len(batch[w]) = 0
  BY <1>1 DEF Init
<1> QED
  BY <1>1, <1>2, <1>3, SubmissionAssumption DEF Init, Idle, Typed, TypeOK, Ids

\* What the clients, the retries and the cleanup hold.
ClientPart ==
  /\ phase \in {"up", "stopping", "down"}
  /\ lock \in Clients \cup {Nobody} /\ step \in [Clients -> Where]
  /\ answer \in [Clients -> 0 .. Len(task)]
  /\ asked \in 0 .. Len(task) /\ picked \subseteq Ids

\* What PersistWriter holds.
WriterPart ==
  /\ queue \in Seq(called) /\ Len(queue) <= QueueSize
  /\ batch \in [Coroutines -> Seq(called)] /\ \A w \in Writers : Len(batch[w]) <= BatchSize
  /\ lost \cup dropped \subseteq called /\ called \subseteq Calls

\* The types, part by part.
LEMMA Parts == Typed <=> task \in Seq(Rows) /\ ClientPart /\ WriterPart
<1>1. task \in Seq(Rows) => \A t \in Ids : task[t] \in Rows
  BY ElementOfSeq DEF Ids
<1> QED
  BY <1>1 DEF Typed, TypeOK, Shape, ClientPart, WriterPart, Rows, Where

\* The same of the state after a step.
LEMMA PartsNext == Typed' <=> (task \in Seq(Rows))' /\ ClientPart' /\ WriterPart'
<1>1. (task \in Seq(Rows))' => (\A t \in Ids : task[t] \in Rows)'
  BY ElementOfSeq DEF Ids
<1> QED
  BY <1>1 DEF Typed, TypeOK, Shape, ClientPart, WriterPart, Rows, Where

\* The table may grow under what the clients hold.
LEMMA ClientsKept ==
  ASSUME Typed, Grows, UNCHANGED <<lock, step, answer, asked>>, phase' \in {"up", "stopping", "down"},
         picked' \subseteq Ids
  PROVE  ClientPart'
<1>1. 0 .. Len(task) \subseteq 0 .. Len(task') /\ Ids \subseteq Ids'
  <2>1. Len(task) \in Nat /\ Len(task') \in Nat /\ Len(task) <= Len(task')
    BY Table, LenProperties DEF Grows
  <2> QED
    BY <2>1 DEF Ids
<1>2. answer \in [Clients -> 0 .. Len(task')]
  BY <1>1, Parts DEF ClientPart
<1> QED
  BY <1>1, <1>2, Parts DEF ClientPart

\* A step of a client keeps the types.
LEMMA ClientTyped ==
  ASSUME Typed, NEW c \in Clients, Enter(c) \/ Scan(c) \/ Insert(c)
  PROVE  Typed' /\ Grows
<1>1. ClientPart /\ WriterPart /\ Len(task) \in Nat
  BY Parts, Table
<1>2. WriterPart'
  BY <1>1 DEF Enter, Scan, Insert, writerVars, WriterPart
<1>3. CASE Enter(c)
  <2>1. UNCHANGED <<task, answer>> /\ step' \in [Clients -> Where] /\ lock' \in Clients
    BY <1>1, <1>3 DEF Enter, Goto, ClientPart, Where
  <2> QED
    BY <1>1, <1>2, <1>3, <2>1, Parts, PartsNext DEF Enter, ClientPart, Grows, Ids, Typed, Shape
<1>4. CASE Scan(c)
  <2> DEFINE found == {t \in Ids : task[t].status = step[c] /\ Matches(t, ContractOf[c])}
  <2>1. UNCHANGED <<phase, task, asked, picked>>
    BY <1>4 DEF Scan
  <2>2. step' \in [Clients -> Where] /\ lock' \in Clients \cup {Nobody}
    <3>1. NextRead(step[c]) \in Where
      BY <1>4 DEF Scan, NextRead, Where
    <3> QED
      BY <1>1, <1>4, <3>1 DEF Scan, Goto, ClientPart, Where
  <2>3. answer' \in [Clients -> 0 .. Len(task)]
    <3>1. CASE found = {}
      BY <1>1, <1>4, <3>1 DEF Scan, ClientPart
    <3>2. CASE found # {}
      <4>1. Max(found) \in 1 .. Len(task)
        BY <1>1, <3>2, MaxIsMember DEF Ids
      <4>2. answer' = [answer EXCEPT ![c] = Max(found)]
        BY <1>4, <3>2 DEF Scan
      <4> HIDE DEF found
      <4> QED
        BY <1>1, <4>1, <4>2 DEF ClientPart
    <3> QED
      BY <3>1, <3>2
  <2> QED
    BY <1>1, <1>2, <2>1, <2>2, <2>3, Parts, PartsNext DEF ClientPart, Grows, Ids, Typed, Shape
<1>5. CASE Insert(c)
  <2>1. Row("queued", ContractOf[c], Nobody) \in Rows
    BY SubmissionAssumption DEF Row, Rows, Live
  <2>2. Grows /\ Len(task') = Len(task) + 1
    BY <1>5, <2>1, InsertTyped DEF Insert
  <2>3. UNCHANGED <<phase, asked, picked>> /\ lock' = Nobody /\ step' \in [Clients -> Where]
    BY <1>1, <1>5 DEF Insert, Goto, ClientPart, Where
  <2>4. answer' \in [Clients -> 0 .. Len(task')]
    BY <1>1, <1>5, <2>2 DEF Insert, ClientPart
  <2>5. ClientPart'
    BY <1>1, <2>2, <2>3, <2>4 DEF ClientPart, Ids
  <2> QED
    BY <1>2, <2>2, <2>5, PartsNext DEF Grows
<1> QED
  BY <1>3, <1>4, <1>5

\* A step of the queue, of a retry or of the cleanup keeps the types.
LEMMA QueueTyped ==
  ASSUME Typed,
         \/ \E t \in Ids : Claim(t) \/ Settle(t) \/ Cancel(t) \/ RetryCheck(t)
         \/ RetryUpdate \/ Delete \/ \E S \in SUBSET Ids : Select(S)
  PROVE  Typed' /\ Grows
<1>1. ClientPart /\ WriterPart /\ Len(task) \in Nat /\ task \in Seq(Rows)
  BY Parts, Table
<1>2. WriterPart'
  BY <1>1 DEF Claim, Settle, Cancel, RetryCheck, RetryUpdate, Delete, Select, writerVars, WriterPart
<1>3. ASSUME NEW t \in Ids, Claim(t) \/ Settle(t) \/ Cancel(t)
      PROVE  Typed' /\ Grows
  <2>1. \E status \in Live \cup Final : SetStatus(t, status)
    BY <1>3 DEF Claim, Settle, Cancel, Live, Final
  <2>2. Grows
    BY <2>1, StatusTyped
  <2>3. UNCHANGED <<phase, lock, step, answer, asked, picked>>
    BY <1>3 DEF Claim, Settle, Cancel, clientVars
  <2>4. ClientPart'
    BY <1>1, <2>2, <2>3, ClientsKept DEF ClientPart
  <2> QED
    BY <1>2, <2>2, <2>4, PartsNext DEF Grows
<1>4. ASSUME NEW t \in Ids, RetryCheck(t)
      PROVE  Typed' /\ Grows
  <2>1. UNCHANGED <<phase, task, lock, step, answer, picked>> /\ asked' \in 0 .. Len(task)
    BY <1>1, <1>4 DEF RetryCheck, clientVars, Ids
  <2> QED
    BY <1>1, <1>2, <2>1, PartsNext DEF ClientPart, Grows, Ids
<1>5. CASE RetryUpdate
  <2>1. UNCHANGED <<phase, lock, step, answer, picked>> /\ asked' = 0
    BY <1>5 DEF RetryUpdate, clientVars
  <2>2. Grows /\ Len(task') = Len(task)
    <3>1. CASE task' = task
      BY <1>1, <3>1 DEF Grows
    <3>2. CASE task' # task
      <4> DEFINE f == [task EXCEPT ![asked].status = "queued", ![asked].old = FALSE,
                                   ![asked].retried = TRUE]
      <4>1. task' = f /\ asked \in Ids
        BY <1>1, <1>5, <3>2 DEF RetryUpdate, ClientPart, Ids
      <4>2. task \in [Ids -> Rows]
        BY <1>1, LenProperties DEF Ids
      <4>3. /\ f \in [Ids -> Rows]
            /\ \A t \in Ids : /\ f[t].contract = task[t].contract
                             /\ f[t].by = task[t].by
        <5>1. [task[asked] EXCEPT !.status = "queued", !.old = FALSE, !.retried = TRUE] \in Rows
          BY <4>1, <4>2 DEF Rows, Live
        <5>2. f = [task EXCEPT ![asked] = [task[asked] EXCEPT !.status = "queued", !.old = FALSE,
                                                              !.retried = TRUE]]
          BY <4>1, <4>2 DEF Rows
        <5> HIDE DEF f
        <5> QED
          BY <4>1, <4>2, <5>1, <5>2 DEF Rows
      <4> QED
        BY <4>1, <4>3, RewriteTyped
    <3> QED
      BY <3>1, <3>2
  <2>3. ClientPart'
    BY <1>1, <2>1, <2>2 DEF ClientPart, Ids
  <2> QED
    BY <1>2, <2>2, <2>3, PartsNext DEF Grows
<1>6. CASE Delete
  <2> DEFINE f == [t \in Ids |->
       IF t \in Verified /\ Eligible(t) THEN [Row("deleted", task[t].contract, task[t].by) EXCEPT !.request = FALSE]
       ELSE IF t \in Verified THEN [task[t] EXCEPT !.request = FALSE]
       ELSE task[t]]
  <2>1. UNCHANGED <<phase, lock, step, answer, asked>> /\ picked' = {} /\ task' = f
    BY <1>6 DEF Delete, clientVars
  <2>2. \A t \in Ids : f[t] \in Rows /\ f[t].contract = task[t].contract /\ f[t].by = task[t].by
    BY Table DEF Rows, Row
  <2>3. f \in [Ids -> Rows]
    BY <2>2
  <2> HIDE DEF f
  <2>4. Grows
    BY <2>1, <2>2, <2>3, RewriteTyped
  <2>5. ClientPart'
    BY <1>1, <2>1, <2>4, ClientsKept DEF ClientPart
  <2> QED
    BY <1>2, <2>4, <2>5, PartsNext DEF Grows
<1>7. ASSUME NEW S \in SUBSET Ids, Select(S)
      PROVE  Typed' /\ Grows
  <2> DEFINE f == [t \in Ids |-> [task[t] EXCEPT !.old = @ \/ t \in S]]
  <2>1. UNCHANGED <<phase, lock, step, answer, asked>> /\ picked' = {t \in Ids : Eligible(t)'} /\ task' = f
    BY <1>7 DEF Select, clientVars
  <2>2. \A t \in Ids : f[t] \in Rows /\ f[t].contract = task[t].contract /\ f[t].by = task[t].by
    <3> TAKE t \in Ids
    <3>1. (task[t].old \/ t \in S) \in BOOLEAN
      OBVIOUS
    <3> QED
      BY <3>1, Table DEF Rows
  <2>3. f \in [Ids -> Rows]
    BY <2>2
  <2> HIDE DEF f
  <2>4. Grows
    BY <2>1, <2>2, <2>3, RewriteTyped
  <2>5. ClientPart'
    <3>1. picked' \subseteq Ids
      BY <2>1
    <3> QED
      BY <1>1, <2>1, <2>4, <3>1, ClientsKept DEF ClientPart
  <2> QED
    BY <1>2, <2>4, <2>5, PartsNext DEF Grows
<1> QED
  BY <1>3, <1>4, <1>5, <1>6, <1>7

\* Nothing has changed in the table.
LEMMA SameTable ==
  ASSUME Typed, task' = task
  PROVE  Grows
  BY Parts, Table DEF Grows

\* An append to the queue, short of its limit.
LEMMA CallTyped ==
  ASSUME Typed, NEW s \in Calls, Call(s)
  PROVE  Typed' /\ Grows
<1>1. ClientPart /\ WriterPart /\ task \in Seq(Rows)
  BY Parts
<1>2. /\ UNCHANGED <<phase, task, lock, step, answer, asked, picked, batch, lost>>
      /\ called' = called \cup {s}
  BY DEF Call, clientVars
<1>3. Grows /\ ClientPart'
  BY <1>1, <1>2, SameTable, ClientsKept DEF ClientPart
<1>4. \A q \in Seq(called) : q \in Seq(called')
  BY <1>2, SeqMonotonic
<1>5. batch' \in [Coroutines -> Seq(called')]
  BY <1>1, <1>2, <1>4 DEF WriterPart
<1>6. queue' \in Seq(called') /\ Len(queue') <= QueueSize
  <2>1. CASE HasRoom
    <3>1. queue \in Seq(called') /\ s \in called' /\ queue' = Append(queue, s) /\ Len(queue) \in Nat
      BY <1>1, <1>2, <1>4, <2>1, LenProperties DEF Call, WriterPart
    <3>2. queue' \in Seq(called') /\ Len(queue') = Len(queue) + 1
      BY <3>1, AppendProperties
    <3> QED
      BY <2>1, <3>1, <3>2, SubmissionAssumption DEF HasRoom
  <2>2. CASE ~HasRoom
    BY <1>1, <1>4, <2>2 DEF Call, WriterPart
  <2> QED
    BY <2>1, <2>2
<1>7. (lost \cup dropped)' \subseteq called' /\ called' \subseteq Calls
  BY <1>1, <1>2 DEF Call, WriterPart
<1>8. WriterPart'
  BY <1>1, <1>2, <1>5, <1>6, <1>7 DEF WriterPart
<1> QED
  BY <1>3, <1>8, PartsNext DEF Grows

\* What a writer takes is at most a batch, and leaves at most what was queued.
LEMMA TakeTyped ==
  ASSUME Typed, NEW w \in Writers, Take(w)
  PROVE  Typed' /\ Grows
<1>1. ClientPart /\ WriterPart /\ task \in Seq(Rows)
  BY Parts
<1>2. UNCHANGED <<phase, task, lock, step, answer, asked, picked, called, dropped, lost>>
  BY DEF Take, clientVars
<1>3. Grows /\ ClientPart'
  BY <1>1, <1>2, SameTable, ClientsKept DEF ClientPart
<1> DEFINE n == Min({BatchSize, Len(queue)})
<1>4. n \in 0 .. Len(queue) /\ n <= BatchSize /\ Len(queue) \in Nat
  <2>1. BatchSize \in Nat /\ Len(queue) \in Nat
    BY <1>1, LenProperties, SubmissionAssumption DEF WriterPart
  <2>2. n \in Nat /\ n <= BatchSize /\ n <= Len(queue)
    BY <2>1, MinOfTwo
  <2> QED
    BY <2>1, <2>2
<1>5. batch' = [batch EXCEPT ![w] = SubSeq(queue, 1, n)] /\ queue' = SubSeq(queue, n + 1, Len(queue))
  BY DEF Take
<1> HIDE DEF n
<1>6. \A i \in 1 .. Len(queue) : queue[i] \in called
  BY <1>1, ElementOfSeq DEF WriterPart
<1>7. SubSeq(queue, 1, n) \in Seq(called) /\ Len(SubSeq(queue, 1, n)) = n
  BY <1>4, <1>6, SubSeqProperties
<1>8. queue' \in Seq(called) /\ Len(queue') = Len(queue) - n
  BY <1>4, <1>5, <1>6, SubSeqProperties
<1>9. WriterPart'
  BY <1>1, <1>2, <1>4, <1>5, <1>7, <1>8, SubmissionAssumption DEF WriterPart, Coroutines
<1> QED
  BY <1>1, <1>2, <1>3, <1>9, PartsNext

\* A record written, or lost, leaves the rest of its batch.
LEMMA WriteTyped ==
  ASSUME Typed, NEW p \in Coroutines, Write(p) \/ WriteFails(p)
  PROVE  Typed' /\ Grows
<1>1. ClientPart /\ WriterPart /\ task \in Seq(Rows)
  BY Parts
<1>2. /\ UNCHANGED <<phase, lock, step, answer, asked, picked, queue, called, dropped>>
      /\ batch[p] # <<>> /\ batch' = [batch EXCEPT ![p] = Tail(@)]
  BY DEF Write, WriteFails, clientVars
<1>3. batch[p] \in Seq(called)
  BY <1>1 DEF WriterPart
<1>4. Head(batch[p]) \in called /\ Tail(batch[p]) \in Seq(called) /\ Len(Tail(batch[p])) = Len(batch[p]) - 1
  BY <1>2, <1>3, HeadTailProperties
<1>5. Len(batch[p]) \in Nat
  BY <1>3, LenProperties
<1>6. /\ batch' \in [Coroutines -> Seq(called)]
      /\ \A w \in Writers : Len(batch'[w]) <= BatchSize
  BY <1>1, <1>2, <1>4, <1>5, SubmissionAssumption DEF WriterPart, Coroutines
<1>7. CASE Write(p)
  <2> DEFINE s == Head(batch[p])
  <2>1. s \in Calls /\ s \in Clients \cup Calls
    BY <1>1, <1>4 DEF WriterPart
  <2>2. PICK status \in {"succeeded", "failed"} : task' = Append(task, Row(status, ContractOf[s], s))
    BY <1>7 DEF Write
  <2>3. Row(status, ContractOf[s], s) \in Rows
    BY <2>1, SubmissionAssumption DEF Row, Rows, Live, Final
  <2>4. Grows
    BY <2>2, <2>3, InsertTyped
  <2>5. ClientPart'
    BY <1>1, <1>2, <2>4, ClientsKept DEF ClientPart
  <2>6. WriterPart'
    BY <1>1, <1>2, <1>6, <1>7 DEF Write, WriterPart
  <2> QED
    BY <2>4, <2>5, <2>6, PartsNext DEF Grows
<1>8. CASE WriteFails(p)
  <2>1. Grows /\ task' = task
    BY <1>8, SameTable DEF WriteFails
  <2>2. ClientPart'
    BY <1>1, <1>2, <2>1, ClientsKept DEF ClientPart
  <2>3. WriterPart'
    BY <1>1, <1>2, <1>4, <1>6, <1>8 DEF WriteFails, WriterPart
  <2> QED
    BY <1>1, <2>1, <2>2, <2>3, PartsNext
<1> QED
  BY <1>7, <1>8

\* The calls whose record is in the queue or in a batch have been answered.
LEMMA PendingIsCalled ==
  ASSUME Typed
  PROVE  \A s : Pending(s) => s \in called
<1>1. queue \in Seq(called) /\ batch \in [Coroutines -> Seq(called)]
  BY DEF Typed, Shape
<1>2. \A i \in 1 .. Len(queue) : queue[i] \in called
  BY <1>1, ElementOfSeq
<1>3. \A p \in Coroutines : \A i \in 1 .. Len(batch[p]) : batch[p][i] \in called
  BY <1>1, ElementOfSeq
<1> QED
  BY <1>1, <1>2, <1>3 DEF Pending, InSeq

\* A stop, a crash and a start keep the types.
LEMMA LifeTyped ==
  ASSUME Typed, Shutdown \/ StopEnds \/ Crash \/ Start
  PROVE  Typed' /\ Grows
<1>1. ClientPart /\ WriterPart /\ task \in Seq(Rows)
  BY Parts
<1>2. <<>> \in Seq(called) /\ Len(<<>>) = 0 /\ Len(<<>>) <= QueueSize /\ Len(<<>>) <= BatchSize
  BY EmptySeq, SubmissionAssumption
<1>3. CASE Shutdown
  <2>1. /\ UNCHANGED <<lock, step, answer, asked, picked, called, dropped, lost>>
        /\ phase' = "stopping" /\ task' = Requeued
        /\ batch' = [batch EXCEPT ![Stopper] = queue] /\ queue' = <<>>
    BY <1>3 DEF Shutdown, clientVars, Rest
  <2>2. Grows
    BY <2>1, RequeueTyped
  <2>3. ClientPart'
    BY <1>1, <2>1, <2>2, ClientsKept DEF ClientPart
  <2>4. WriterPart'
    BY <1>1, <1>2, <2>1, SubmissionAssumption DEF WriterPart, Coroutines
  <2> QED
    BY <2>2, <2>3, <2>4, PartsNext DEF Grows
<1>4. CASE StopEnds
  <2>1. /\ UNCHANGED <<task, lock, step, answer, asked, picked, queue, called, dropped>>
        /\ phase' = "down" /\ lost' = lost \cup InHand /\ batch' = [p \in Coroutines |-> <<>>]
    BY <1>1, <1>4 DEF StopEnds, clientVars, WriterPart
  <2>2. InHand \subseteq called
    BY PendingIsCalled DEF InHand, Pending
  <2>3. Grows /\ ClientPart'
    BY <1>1, <2>1, SameTable, ClientsKept DEF ClientPart
  <2>4. WriterPart'
    BY <1>1, <1>2, <2>1, <2>2 DEF WriterPart, Coroutines
  <2> QED
    BY <1>1, <2>1, <2>3, <2>4, PartsNext
<1>5. CASE Crash
  <2>1. /\ UNCHANGED <<task, answer, called, dropped>>
        /\ phase' = "down" /\ lock' = Nobody /\ asked' = 0 /\ picked' = {}
        /\ step' = [c \in Clients |-> IF step[c] = "done" THEN "done" ELSE "idle"]
        /\ lost' = lost \cup {s \in Calls : Pending(s)}
        /\ queue' = <<>> /\ batch' = [p \in Coroutines |-> <<>>]
    BY <1>1, <1>5 DEF Crash, WriterPart
  <2>2. Grows
    BY <2>1, SameTable
  <2>3. ClientPart'
    BY <1>1, <2>1, Table DEF ClientPart, Where, Ids
  <2>4. WriterPart'
    BY <1>1, <1>2, <2>1, PendingIsCalled DEF WriterPart, Coroutines
  <2> QED
    BY <1>1, <2>1, <2>2, <2>3, <2>4, PartsNext
<1>6. CASE Start
  <2>1. /\ UNCHANGED <<lock, step, answer, asked, picked, writerVars>>
        /\ phase' = "up" /\ task' = Requeued
    BY <1>6 DEF Start, clientVars
  <2>2. Grows
    BY <2>1, RequeueTyped
  <2>3. ClientPart'
    BY <1>1, <2>1, <2>2, ClientsKept DEF ClientPart
  <2>4. WriterPart'
    BY <1>1, <2>1 DEF WriterPart, writerVars
  <2> QED
    BY <2>2, <2>3, <2>4, PartsNext DEF Grows
<1> QED
  BY <1>3, <1>4, <1>5, <1>6

\* Every step keeps the types, and adds to the table or rewrites its rows.
LEMMA StepTyped == Typed /\ [Next]_vars => Typed' /\ Grows
<1> SUFFICES ASSUME Typed, [Next]_vars PROVE Typed' /\ Grows
  OBVIOUS
<1>1. ASSUME NEW c \in Clients, Enter(c) \/ Scan(c) \/ Insert(c) PROVE Typed' /\ Grows
  BY <1>1, ClientTyped
<1>2. CASE \/ \E t \in Ids : Claim(t) \/ Settle(t) \/ Cancel(t) \/ RetryCheck(t)
           \/ RetryUpdate \/ Delete \/ \E S \in SUBSET Ids : Select(S)
  BY <1>2, QueueTyped
<1>3. ASSUME NEW s \in Calls, Call(s) PROVE Typed' /\ Grows
  BY <1>3, CallTyped
<1>4. ASSUME NEW w \in Writers, Take(w) PROVE Typed' /\ Grows
  BY <1>4, TakeTyped
<1>5. ASSUME NEW p \in DOMAIN batch, Write(p) \/ WriteFails(p) PROVE Typed' /\ Grows
  BY <1>5, WriteTyped DEF Typed, Shape
<1>6. CASE Shutdown \/ StopEnds \/ Crash \/ Start
  BY <1>6, LifeTyped
<1>7. CASE UNCHANGED vars
  <2>1. Typed' /\ task' = task
    BY <1>7 DEF vars, clientVars, writerVars, boundVars, Typed, TypeOK, Shape, Ids
  <2> QED
    BY <2>1, SameTable
<1> QED
  BY <1>1, <1>2, <1>3, <1>4, <1>5, <1>6, <1>7 DEF Next

\* Every variable keeps its type, the queue its limit and a batch its size.
THEOREM TypeCorrect == Spec => []TypeOK
<1>1. Spec => []Typed
  BY InitTyped, StepTyped, PTL DEF Spec
<1>2. Typed => TypeOK
  BY DEF Typed
<1> QED
  BY <1>1, <1>2, PTL

-----------------------------------------------------------------------------
(* What a step does with a row.                                            *)

\* A row that was there keeps its request row unless it is deleted, comes to life only
\* by a retry, and comes to run only by a claim.
Rewritten(t) ==
  /\ t \in Ids
  /\ Exists(t)' => Exists(t) /\ task'[t].request = task[t].request
  /\ task'[t].status \in Live /\ ~task'[t].retried => task[t].status \in Live /\ ~task[t].retried
  /\ task'[t].status = "running" => task[t].status = "running" \/ Claim(t)

\* A row that is added has its request row; if it is still to be done, a submission
\* that has found none adds it; if it records a call, a coroutine of PersistWriter does.
Added(t) ==
  /\ t = Len(task) + 1
  /\ task'[t].request
  /\ task'[t].status \in Live =>
       \E c \in Clients : /\ step[c] = "insert" /\ step'[c] = "done"
                          /\ task'[t].contract = ContractOf[c]
  /\ task'[t].by # Nobody =>
       \E p \in Coroutines : Write(p) /\ task'[t].by = Head(batch[p])

Searching == {"succeeded", "running", "queued", "insert"}

\* Only the holder of the lock searches and inserts, while the service is up.
Exclusive == \A c \in Clients : step[c] \in Searching => lock = c /\ phase = "up"

\* What a search has read is still so: no task of its request is running once it
\* reads the queued ones, and none is live once it inserts, unless a retry revived it.
Searched ==
  \A c \in Clients, t \in Ids :
    SameRequest(task[t].contract, ContractOf[c]) /\ ~task[t].retried =>
      /\ step[c] = "queued" => task[t].status # "running"
      /\ step[c] = "insert" => task[t].status \notin Live

SInv == Exclusive /\ Searched /\ OneLiveTask

\* A table that is rewritten has the ids it had.
LEMMA SameIds ==
  ASSUME Typed', DOMAIN task' = Ids
  PROVE  Ids' = Ids
<1>1. task' \in Seq(Rows)
  BY PartsNext
<1>2. DOMAIN task' = 1 .. Len(task')
  BY <1>1, LenProperties
<1> QED
  BY <1>2 DEF Ids

\* A row that stays as it is.
LEMMA SameRow ==
  ASSUME NEW t \in Ids, task'[t] = task[t]
  PROVE  Rewritten(t)
  BY DEF Rewritten, Exists

\* The step leaves every row as it is.
LEMMA SameRows ==
  ASSUME Typed, task' = task
  PROVE  \A t \in Ids' : Rewritten(t) \/ Added(t)
<1>1. Ids' = Ids
  BY DEF Ids
<1> QED
  BY <1>1 DEF Rewritten, Exists

\* The step requeues what was running.
LEMMA RequeuedRows ==
  ASSUME Typed, task' = Requeued
  PROVE  \A t \in Ids' : Rewritten(t) \/ Added(t)
<1>1. Ids' = Ids
  BY RequeueTyped DEF Ids
<1>2. \A t \in Ids : task[t] \in Rows
  BY Table
<1>3. \A t \in Ids : task'[t] = IF task[t].status = "running" THEN [task[t] EXCEPT !.status = "queued"]
                                                              ELSE task[t]
  BY DEF Requeued
<1> QED
  BY <1>1, <1>2, <1>3 DEF Rewritten, Exists, Rows, Live

\* The step is a row's status.
LEMMA StatusRows ==
  ASSUME Typed, NEW t \in Ids, Claim(t) \/ Settle(t) \/ Cancel(t)
  PROVE  \A u \in Ids' : Rewritten(u) \/ Added(u)
<1>1. PICK status \in Live \cup Final : SetStatus(t, status)
  BY DEF Claim, Settle, Cancel, Live, Final
<1>2. Ids' = Ids
  BY <1>1, StatusTyped DEF Ids
<1>3. DOMAIN task = Ids /\ \A u \in Ids : task[u] \in Rows
  BY Table
<1>4. task[t].status \in Live
  BY DEF Claim, Settle, Cancel, Live
<1>5. \A u \in Ids : u # t => task'[u] = task[u]
  BY <1>1, <1>3 DEF SetStatus
<1>6. task'[t] = [task[t] EXCEPT !.status = status]
  BY <1>1, <1>3 DEF SetStatus
<1>7. status = "running" => Claim(t)
  <2>1. ~Claim(t) => task'[t].status \in {"succeeded", "queued", "failed"}
    BY <1>3 DEF Settle, Cancel, SetStatus, Rows
  <2> QED
    BY <1>3, <1>6, <2>1 DEF Rows
<1>8. Rewritten(t)
  BY <1>3, <1>4, <1>6, <1>7 DEF Rewritten, Exists, Rows, Live
<1> QED
  BY <1>2, <1>5, <1>8 DEF Rewritten, Exists

\* Every step adds rows or rewrites them in these ways.
LEMMA RowSteps ==
  ASSUME Typed, [Next]_vars
  PROVE  \A t \in Ids' : Rewritten(t) \/ Added(t)
<1> USE Table
<1>1. CASE task' = task
  BY <1>1, SameRows
<1>2. ASSUME NEW t \in Ids, Claim(t) \/ Settle(t) \/ Cancel(t)
      PROVE  \A u \in Ids' : Rewritten(u) \/ Added(u)
  BY <1>2, StatusRows
<1>3. CASE task' = Requeued
  BY <1>3, RequeuedRows
<1>4. ASSUME NEW c \in Clients, Insert(c)
      PROVE  \A u \in Ids' : Rewritten(u) \/ Added(u)
  <2>1. Row("queued", ContractOf[c], Nobody) \in Rows
    BY SubmissionAssumption DEF Row, Rows, Live
  <2>2. /\ Len(task') = Len(task) + 1 /\ \A u \in Ids : task'[u] = task[u]
        /\ task'[Len(task) + 1] = Row("queued", ContractOf[c], Nobody)
    BY <1>4, <2>1, InsertTyped DEF Insert
  <2>3. step[c] = "insert" /\ step'[c] = "done"
    BY <1>4, Parts DEF Insert, Goto, ClientPart
  <2>4. Added(Len(task) + 1)
    BY <2>2, <2>3 DEF Added, Row
  <2>5. \A u \in Ids' : u \in Ids \/ u = Len(task) + 1
    BY <2>2 DEF Ids
  <2> QED
    BY <2>2, <2>4, <2>5 DEF Rewritten, Exists
<1>5. ASSUME NEW p \in Coroutines, Write(p)
      PROVE  \A u \in Ids' : Rewritten(u) \/ Added(u)
  <2>1. Head(batch[p]) \in Calls
    <3>1. batch[p] \in Seq(called) /\ batch[p] # <<>> /\ called \subseteq Calls
      BY <1>5, Parts DEF Write, WriterPart
    <3> QED
      BY <3>1, HeadTailProperties
  <2> DEFINE s == Head(batch[p])
  <2>2. PICK status \in {"succeeded", "failed"} : task' = Append(task, Row(status, ContractOf[s], s))
    BY <1>5 DEF Write
  <2>3. Row(status, ContractOf[s], s) \in Rows
    BY <2>1, SubmissionAssumption DEF Row, Rows, Live, Final
  <2>4. /\ Len(task') = Len(task) + 1 /\ \A u \in Ids : task'[u] = task[u]
        /\ task'[Len(task) + 1] = Row(status, ContractOf[s], s)
    BY <2>2, <2>3, InsertTyped
  <2>5. Added(Len(task) + 1)
    <3>1. task'[Len(task) + 1].by = Head(batch[p]) /\ task'[Len(task) + 1].request
      BY <2>4 DEF Row
    <3>2. task'[Len(task) + 1].status \notin Live
      BY <2>4 DEF Row, Live
    <3> QED
      BY <1>5, <3>1, <3>2, Zenon DEF Added
  <2>6. \A u \in Ids' : u \in Ids \/ u = Len(task) + 1
    BY <2>4 DEF Ids
  <2> QED
    BY <2>4, <2>5, <2>6 DEF Rewritten, Exists
<1>6. CASE RetryUpdate /\ task' # task
  <2>1. /\ asked \in Ids /\ Exists(asked)
        /\ task' = [task EXCEPT ![asked].status = "queued", ![asked].old = FALSE,
                                ![asked].retried = TRUE]
    BY <1>6, Parts DEF RetryUpdate, ClientPart, Ids
  <2>2. Ids' = Ids
    BY <2>1, StepTyped, SameIds
  <2>3. \A u \in Ids : u # asked => task'[u] = task[u]
    BY <2>1
  <2>4. task'[asked] = [task[asked] EXCEPT !.status = "queued", !.old = FALSE, !.retried = TRUE]
    BY <2>1
  <2>5. Rewritten(asked)
    BY <2>1, <2>4 DEF Rewritten, Exists, Rows
  <2> QED
    BY <2>2, <2>3, <2>5, SameRow
<1>7. CASE Delete
  <2>1. \A t \in Ids : Eligible(t) \/ t \notin Verified
    BY DEF Verified
  <2>2. Ids' = Ids
    BY <1>7, StepTyped, SameIds DEF Delete
  <2>3. \A t \in Ids : task'[t] = task[t] \/ task'[t].status = "deleted"
    BY <1>7, <2>1 DEF Delete, Row, Rows
  <2> QED
    BY <2>2, <2>3 DEF Rewritten, Exists, Ids, Live
<1>8. ASSUME NEW S \in SUBSET Ids, Select(S)
      PROVE  \A u \in Ids' : Rewritten(u) \/ Added(u)
  <2>1. Ids' = Ids
    BY <1>8, StepTyped, SameIds DEF Select
  <2>2. \A t \in Ids : task'[t] = [task[t] EXCEPT !.old = task[t].old \/ t \in S]
    BY <1>8 DEF Select
  <2>3. \A t \in Ids : /\ task'[t].status = task[t].status
                      /\ task'[t].request = task[t].request
                      /\ task'[t].retried = task[t].retried
    BY <2>2 DEF Rows
  <2> QED
    BY <2>1, <2>3, Zenon DEF Rewritten, Exists
<1>9. \/ task' = task \/ task' = Requeued \/ Delete \/ RetryUpdate
      \/ \E t \in Ids : Claim(t) \/ Settle(t) \/ Cancel(t)
      \/ \E c \in Clients : Insert(c)
      \/ \E p \in Coroutines : Write(p)
      \/ \E S \in SUBSET Ids : Select(S)
  <2>1. DOMAIN batch = Coroutines
    BY DEF Typed, Shape
  <2> QED
    BY <2>1 DEF Next, vars, Enter, Scan, RetryCheck, Call, Take, WriteFails, Shutdown, StopEnds, Crash, Start
<1> QED
  BY <1>1, <1>2, <1>3, <1>4, <1>5, <1>6, <1>7, <1>8, <1>9

\* A step keeps the request rows.
LEMMA RequestStep == Typed /\ RequestKept /\ [Next]_vars => RequestKept'
<1> SUFFICES ASSUME Typed, RequestKept, [Next]_vars, NEW t \in Ids', Exists(t)'
             PROVE  task'[t].request
  BY DEF RequestKept, Exists
<1>1. CASE Rewritten(t)
  BY <1>1 DEF Rewritten, RequestKept
<1>2. CASE Added(t)
  BY <1>2 DEF Added
<1> QED
  BY <1>1, <1>2, RowSteps

\* A task keeps its request row for as long as it exists, through retries that race a
\* cleanup.
THEOREM RequestStaysWithTask == Spec => []RequestKept
<1>1. Init => Typed /\ RequestKept
  BY InitTyped, EmptySeq DEF Init, RequestKept, Ids
<1>2. Typed /\ RequestKept /\ [Next]_vars => (Typed /\ RequestKept)'
  BY StepTyped, RequestStep
<1> QED
  BY <1>1, <1>2, PTL DEF Spec

-----------------------------------------------------------------------------
(* One live task for a request.                                            *)

\* The search of a client is where it was, or goes on, or begins with the lock free.
Moves(c) ==
  \/ step'[c] = step[c] \/ step'[c] \notin Searching
  \/ step[c] = "idle" /\ step'[c] = "succeeded" /\ lock = Nobody
  \/ Scan(c) /\ step'[c] = NextRead(step[c])

\* Every step moves a client in one of these ways.
LEMMA ClientMoves ==
  ASSUME Typed, [Next]_vars
  PROVE  \A c \in Clients : Moves(c)
<1>1. step \in [Clients -> Where]
  BY Parts DEF ClientPart
<1>2. CASE step' = step
  BY <1>2 DEF Moves
<1>3. ASSUME NEW d \in Clients, Enter(d)
      PROVE  \A c \in Clients : Moves(c)
  BY <1>1, <1>3 DEF Enter, Goto, Free, Moves
<1>4. ASSUME NEW d \in Clients, Scan(d)
      PROVE  \A c \in Clients : Moves(c)
  BY <1>1, <1>4 DEF Scan, Goto, Moves, Searching
<1>5. ASSUME NEW d \in Clients, Insert(d)
      PROVE  \A c \in Clients : Moves(c)
  BY <1>1, <1>5 DEF Insert, Goto, Moves, Searching
<1>6. CASE Crash
  BY <1>6 DEF Crash, Moves, Searching
<1>7. step' = step \/ Crash \/ \E d \in Clients : Enter(d) \/ Scan(d) \/ Insert(d)
  BY DEF Next, vars, clientVars, Claim, Settle, Cancel, RetryCheck, RetryUpdate, Delete,
         Select, Call, Take, Write, WriteFails, Shutdown, StopEnds, Start
<1> QED
  BY <1>2, <1>3, <1>4, <1>5, <1>6, <1>7

\* The lock stays with the one that searches.
LEMMA ExclusiveStep == Typed /\ Exclusive /\ [Next]_vars => Exclusive'
<1> SUFFICES ASSUME Typed, Exclusive, [Next]_vars, NEW c \in Clients, step'[c] \in Searching
             PROVE  lock' = c /\ phase' = "up"
  BY DEF Exclusive
<1>1. step \in [Clients -> Where]
  BY Parts DEF ClientPart
<1>2. ASSUME NEW d \in Clients, Enter(d) PROVE lock' = c /\ phase' = "up"
  <2>1. d = c
    BY <1>1, <1>2, SubmissionAssumption DEF Enter, Goto, Free, Exclusive
  <2> QED
    BY <1>2, <2>1 DEF Enter
<1>3. ASSUME NEW d \in Clients, Scan(d) PROVE lock' = c /\ phase' = "up"
  <2>1. d # c => step'[c] = step[c]
    BY <1>1, <1>3 DEF Scan, Goto
  <2>2. lock = d /\ phase = "up" /\ phase' = phase
    BY <1>3 DEF Scan, Exclusive, Searching
  <2>3. d = c
    BY <2>1, <2>2 DEF Exclusive
  <2>4. lock' = lock
    BY <1>1, <1>3, <2>3 DEF Scan, Goto, Searching
  <2> QED
    BY <2>2, <2>3, <2>4
<1>4. ASSUME NEW d \in Clients, Insert(d) PROVE lock' = c /\ phase' = "up"
  <2>1. d # c
    BY <1>1, <1>4 DEF Insert, Goto, Searching
  <2>2. step[c] \in Searching /\ step[d] \in Searching
    BY <1>1, <1>4, <2>1 DEF Insert, Goto, Searching
  <2> QED
    BY <2>1, <2>2 DEF Exclusive
<1>5. CASE Crash
  BY <1>5 DEF Crash, Searching
<1>6. CASE Shutdown
  <2>1. step' = step /\ step[c] \in {"idle", "done"}
    BY <1>6 DEF Shutdown, clientVars, Idle
  <2> QED
    BY <2>1 DEF Searching
<1>7. CASE StopEnds \/ Start
  BY <1>7 DEF StopEnds, Start, clientVars, Exclusive
<1>8. CASE UNCHANGED <<lock, step, phase>>
  BY <1>8 DEF Exclusive
<1>9. \/ \E d \in Clients : Enter(d) \/ Scan(d) \/ Insert(d)
      \/ Crash \/ Shutdown \/ StopEnds \/ Start \/ UNCHANGED <<lock, step, phase>>
  BY DEF Next, vars, clientVars, Claim, Settle, Cancel, RetryCheck, RetryUpdate, Delete,
         Select, Call, Take, Write, WriteFails
<1> QED
  BY <1>2, <1>3, <1>4, <1>5, <1>6, <1>7, <1>8, <1>9

\* What has been searched stays without a live task: nobody else inserts one, and
\* no claim moves one from the status still to be read to the one already read.
LEMMA SearchedStep ==
  ASSUME ~ClaimsDuringScan, Typed, RequestKept, Exclusive, Searched, [Next]_vars
  PROVE  Searched'
<1> SUFFICES ASSUME NEW c \in Clients, NEW t \in Ids',
                    SameRequest(task'[t].contract, ContractOf[c]), ~task'[t].retried
             PROVE  /\ step'[c] = "queued" => task'[t].status # "running"
                    /\ step'[c] = "insert" => task'[t].status \notin Live
  BY DEF Searched
<1>1. Grows /\ (Rewritten(t) \/ Added(t)) /\ Moves(c)
  BY StepTyped, RowSteps, ClientMoves
<1>2. ASSUME Rewritten(t) PROVE SameRequest(task[t].contract, ContractOf[c])
  BY <1>1, <1>2 DEF Rewritten, Grows
<1>3. CASE step'[c] = step[c] /\ step[c] \in {"queued", "insert"}
  <2>1. CASE Rewritten(t)
    <3>1. step[c] = "queued" => ~Claim(t)
      BY DEF Claim
    <3> QED
      BY <1>2, <1>3, <2>1, <3>1 DEF Rewritten, Searched, Live
  <2>2. CASE Added(t)
    <3>1. ASSUME NEW d \in Clients, step[d] = "insert", step'[d] = "done" PROVE FALSE
      BY <1>3, <3>1 DEF Exclusive, Searching
    <3> QED
      BY <2>2, <3>1 DEF Added, Live
  <2> QED
    BY <1>1, <2>1, <2>2
<1>4. CASE Scan(c) /\ step'[c] = NextRead(step[c])
  <2>1. task' = task /\ t \in Ids
    BY <1>4 DEF Scan, Ids
  <2>2. step[c] \in {"succeeded", "running", "queued"} /\ step'[c] \in Searching
    BY <1>4 DEF Scan, NextRead, Searching
  <2>3. ~(task[t].status = step[c] /\ Matches(t, ContractOf[c]))
    <3>1. step'[c] # "done"
      BY <2>2 DEF Searching
    <3> QED
      BY <1>4, <2>1, <3>1, Parts DEF Scan, Goto, ClientPart
  <2>4. Exists(t) => task[t].status # step[c]
    BY <2>1, <2>3 DEF Matches, RequestKept
  <2>5. task[t].status = step[c] => Exists(t)
    BY <2>2 DEF Exists
  <2> QED
    BY <1>4, <2>1, <2>2, <2>4, <2>5 DEF NextRead, Searched, Live
<1> QED
  BY <1>1, <1>3, <1>4 DEF Moves, Searching

\* A second live task of a request comes only from a retry.
LEMMA OneLiveStep ==
  ASSUME Typed, Searched, OneLiveTask, [Next]_vars
  PROVE  OneLiveTask'
<1> SUFFICES ASSUME NEW t \in Ids', NEW u \in Ids', t # u,
                    SameRequest(task'[t].contract, task'[u].contract),
                    task'[t].status \in Live, task'[u].status \in Live,
                    ~task'[t].retried, ~task'[u].retried
             PROVE  FALSE
  BY DEF OneLiveTask
<1>1. Grows /\ (Rewritten(t) \/ Added(t)) /\ (Rewritten(u) \/ Added(u))
  BY StepTyped, RowSteps
<1>2. ASSUME NEW x \in Ids', NEW y \in Ids', Rewritten(x), Added(y),
             SameRequest(task'[x].contract, task'[y].contract), task'[x].status \in Live, task'[y].status \in Live,
             ~task'[x].retried
      PROVE  FALSE
  <2>1. PICK c \in Clients : step[c] = "insert" /\ task'[y].contract = ContractOf[c]
    BY <1>2 DEF Added
  <2>2. x \in Ids /\ SameRequest(task[x].contract, ContractOf[c]) /\ task[x].status \in Live /\ ~task[x].retried
    BY <1>1, <1>2, <2>1 DEF Rewritten, Grows
  <2> QED
    BY <2>1, <2>2 DEF Searched
<1>3. CASE Rewritten(t) /\ Rewritten(u)
  BY <1>1, <1>3 DEF Rewritten, Grows, OneLiveTask
<1>4. CASE Added(t) /\ Added(u)
  BY <1>4 DEF Added
<1>5. SameRequest(task'[u].contract, task'[t].contract)
  BY DEF SameRequest
<1> QED
  BY <1>1, <1>2, <1>3, <1>4, <1>5

\* When no claim falls between the reads of a search, two submissions of one request
\* do not both leave a task that is still to be done.
THEOREM SubmissionsShareTask ==
  ASSUME ~ClaimsDuringScan
  PROVE  Spec => []OneLiveTask
<1> DEFINE IInv == Typed /\ RequestKept /\ SInv
<1>1. Init => IInv
  <2> SUFFICES ASSUME Init PROVE IInv
    OBVIOUS
  <2>1. Typed /\ Ids = {} /\ \A c \in Clients : step[c] = "idle"
    BY InitTyped, EmptySeq DEF Init, Ids, Idle
  <2> QED
    BY <2>1 DEF RequestKept, SInv, Exclusive, Searched, OneLiveTask, Searching
<1>2. IInv /\ [Next]_vars => IInv'
  BY StepTyped, RequestStep, ExclusiveStep, SearchedStep, OneLiveStep DEF SInv
<1>3. IInv => OneLiveTask
  BY DEF SInv
<1> QED
  BY <1>1, <1>2, <1>3, PTL DEF Spec

-----------------------------------------------------------------------------
(* Where the record of a call is.                                          *)

\* The record of s is in the table; a coroutine has it.
Written(s) == \E t \in Ids : task[t].by = s
Held(s) == \E p \in Coroutines : InSeq(s, batch[p])
Queued(s) == InSeq(s, queue)

\* A record stands once in the table, once in the queue, and once in one batch.
Alone ==
  /\ \A t, u \in Ids : task[t].by = task[u].by /\ task[t].by # Nobody => t = u
  /\ Distinct(queue) /\ \A p \in Coroutines : Distinct(batch[p])
  /\ \A p, q \in Coroutines : \A s \in Calls : InSeq(s, batch[p]) /\ InSeq(s, batch[q]) => p = q

\* The record of an answered call is in one of the five places, that of another call
\* is nowhere.
OnePlace ==
  \A s \in Calls :
    /\ s \in called <=> Written(s) \/ Held(s) \/ Queued(s) \/ s \in dropped \/ s \in lost
    /\ Written(s) => ~Held(s) /\ ~Queued(s) /\ s \notin dropped /\ s \notin lost
    /\ Held(s) => ~Queued(s) /\ s \notin dropped /\ s \notin lost
    /\ Queued(s) => s \notin dropped /\ s \notin lost
    /\ s \in dropped => s \notin lost

\* A service that stops has an empty queue, one that is down has no batches; the
\* coroutine that stops the writers has a batch only while it does so.
Flushed ==
  /\ phase # "up" => queue = <<>>
  /\ phase = "down" => \A p \in Coroutines : batch[p] = <<>>
  /\ phase = "up" => batch[Stopper] = <<>>

AInv == Alone /\ OnePlace /\ Flushed

\* Nothing is in an empty sequence.
LEMMA EmptyHasNone == (\A x : ~InSeq(x, <<>>)) /\ Distinct(<<>>) /\ Len(<<>>) = 0
<1>1. Len(<<>>) = 0
  BY EmptySeq
<1> QED
  BY <1>1 DEF InSeq, Distinct

\* The sequences that hold records hold calls.
LEMMA Holders ==
  ASSUME Typed
  PROVE  /\ queue \in Seq(Calls) /\ batch \in [Coroutines -> Seq(Calls)]
         /\ DOMAIN batch = Coroutines /\ Stopper \in Coroutines /\ Writers \subseteq Coroutines
<1>1. queue \in Seq(called) /\ batch \in [Coroutines -> Seq(called)] /\ called \subseteq Calls
  BY Parts DEF WriterPart
<1>2. \A q \in Seq(called) : q \in Seq(Calls)
  BY <1>1, SeqMonotonic
<1> QED
  BY <1>1, <1>2 DEF Coroutines

\* The invariant gives the sum: the places counted for one record are five numbers,
\* one of them 1 and the others 0.
LEMMA CountsToOne == Typed /\ AInv => Accounted
<1> SUFFICES ASSUME Typed, AInv, NEW s \in called
             PROVE  /\ Cardinality({t \in Ids : task[t].by = s})
                         + Cardinality({p \in DOMAIN batch : InSeq(s, batch[p])})
                         + (IF InSeq(s, queue) THEN 1 ELSE 0)
                         + (IF s \in dropped THEN 1 ELSE 0) + (IF s \in lost THEN 1 ELSE 0) = 1
                    /\ phase = "down" => ~Pending(s)
  BY DEF Accounted
<1> DEFINE T == {t \in Ids : task[t].by = s}
           B == {p \in DOMAIN batch : InSeq(s, batch[p])}
<1>1. s \in Calls /\ s # Nobody /\ DOMAIN batch = Coroutines
  BY Parts, Holders, SubmissionAssumption DEF WriterPart
<1>2. Cardinality(T) = IF Written(s) THEN 1 ELSE 0
  <2>1. CASE Written(s)
    <3>1. PICK t \in Ids : task[t].by = s
      BY <2>1 DEF Written
    <3>2. T = {t}
      BY <1>1, <3>1 DEF AInv, Alone
    <3> QED
      BY <2>1, <3>2, FS_Singleton
  <2>2. CASE ~Written(s)
    <3>1. T = {}
      BY <2>2 DEF Written
    <3> QED
      BY <2>2, <3>1, FS_EmptySet
  <2> QED
    BY <2>1, <2>2
<1>3. Cardinality(B) = IF Held(s) THEN 1 ELSE 0
  <2>1. CASE Held(s)
    <3>1. PICK p \in Coroutines : InSeq(s, batch[p])
      BY <2>1 DEF Held
    <3>2. B = {p}
      BY <1>1, <3>1 DEF AInv, Alone
    <3> QED
      BY <2>1, <3>2, FS_Singleton
  <2>2. CASE ~Held(s)
    <3>1. B = {}
      BY <1>1, <2>2 DEF Held
    <3> QED
      BY <2>2, <3>1, FS_EmptySet
  <2> QED
    BY <2>1, <2>2
<1>4. phase = "down" => ~Pending(s)
  BY <1>1, EmptyHasNone DEF AInv, Flushed, Pending
<1> HIDE DEF T, B
<1>5. /\ Written(s) \/ Held(s) \/ Queued(s) \/ s \in dropped \/ s \in lost
      /\ Written(s) => ~Held(s) /\ ~Queued(s) /\ s \notin dropped /\ s \notin lost
      /\ Held(s) => ~Queued(s) /\ s \notin dropped /\ s \notin lost
      /\ Queued(s) => s \notin dropped /\ s \notin lost
      /\ s \in dropped => s \notin lost
  BY <1>1 DEF AInv, OnePlace
<1>6. Cardinality(T) + Cardinality(B) + (IF InSeq(s, queue) THEN 1 ELSE 0)
        + (IF s \in dropped THEN 1 ELSE 0) + (IF s \in lost THEN 1 ELSE 0) = 1
  BY <1>2, <1>3, <1>5 DEF Queued
<1> QED
  BY <1>4, <1>6 DEF T, B

\* The calls in the table after a step: those of before, and the one just written.
LEMMA WrittenStep ==
  ASSUME Typed, Alone, OnePlace, [Next]_vars
  PROVE  /\ \A s \in Calls : Written(s)' <=> Written(s) \/ \E p \in Coroutines : Write(p) /\ s = Head(batch[p])
         /\ \A t, u \in Ids' : task'[t].by = task'[u].by /\ task'[t].by # Nobody => t = u
<1>1. Grows /\ \A t \in Ids' : Rewritten(t) \/ Added(t)
  BY StepTyped, RowSteps
<1>2. Ids \subseteq Ids' /\ \A t \in Ids : task'[t].by = task[t].by
  <2>1. Len(task) \in Nat /\ Len(task') \in Nat /\ Len(task) <= Len(task')
    BY <1>1, Table, LenProperties DEF Grows
  <2> QED
    BY <1>1, <2>1 DEF Grows, Ids
<1>3. ASSUME NEW p \in Coroutines, Write(p)
      PROVE  \E s \in Calls : s = Head(batch[p]) /\ ~Written(s) /\ Written(s)'
  <2>1. batch[p] \in Seq(Calls) /\ batch[p] # <<>> /\ Distinct(batch[p])
    BY <1>3, Holders DEF Write, Alone
  <2>2. PICK s \in Calls : s = Head(batch[p]) /\ InSeq(s, batch[p])
    BY <2>1, TailRemoves
  <2>3. ~Written(s)
    BY <2>2 DEF OnePlace, Held
  <2>4. PICK status \in {"succeeded", "failed"} : task' = Append(task, Row(status, ContractOf[s], s))
    BY <1>3, <2>2 DEF Write
  <2>5. Row(status, ContractOf[s], s) \in Rows
    BY <2>2, SubmissionAssumption DEF Row, Rows, Live, Final
  <2>6. Len(task') = Len(task) + 1 /\ task'[Len(task) + 1].by = s /\ Len(task) \in Nat
    BY <2>4, <2>5, InsertTyped, Table DEF Row
  <2>7. Written(s)'
    <3>1. Len(task) + 1 \in 1 .. Len(task')
      BY <2>6
    <3> QED
      BY <2>6, <3>1 DEF Written, Ids
  <2> QED
    BY <2>2, <2>3, <2>7
<1>4. ASSUME NEW s \in Calls, Written(s)'
      PROVE  Written(s) \/ \E p \in Coroutines : Write(p) /\ s = Head(batch[p])
  <2>1. PICK t \in Ids' : task'[t].by = s
    BY <1>4 DEF Written
  <2>2. s # Nobody
    BY SubmissionAssumption
  <2>3. CASE Rewritten(t)
    BY <1>2, <2>1, <2>3 DEF Rewritten, Written
  <2>4. CASE Added(t)
    BY <2>1, <2>2, <2>4 DEF Added
  <2> QED
    BY <1>1, <2>3, <2>4
<1>5. \A s \in Calls : Written(s) => Written(s)'
  BY <1>2 DEF Written
<1>6. ASSUME NEW t \in Ids', NEW u \in Ids', task'[t].by = task'[u].by, task'[t].by # Nobody
      PROVE  t = u
  <2>1. CASE Rewritten(t) /\ Rewritten(u)
    BY <1>2, <1>6, <2>1 DEF Rewritten, Alone
  <2>2. ASSUME NEW x \in Ids', NEW y \in Ids', Rewritten(x), Added(y), task'[x].by = task'[y].by,
               task'[y].by # Nobody
        PROVE  FALSE
    <3>1. PICK p \in Coroutines : Write(p) /\ task'[y].by = Head(batch[p])
      BY <2>2 DEF Added
    <3>2. x \in Ids /\ task[x].by = Head(batch[p])
      BY <1>2, <2>2, <3>1 DEF Rewritten
    <3> QED
      BY <1>3, <3>1, <3>2 DEF Written
  <2>3. CASE Added(t) /\ Added(u)
    BY <2>3 DEF Added
  <2> QED
    BY <1>1, <1>6, <2>1, <2>2, <2>3
<1> QED
  BY <1>3, <1>4, <1>5, <1>6

\* An answered call has one record, queued or dropped.
LEMMA CallPlaces ==
  ASSUME Typed, AInv, NEW c \in Calls, Call(c)
  PROVE  AInv'
<1>1. [Next]_vars
  BY DEF Next
<1>2. /\ phase = "up" /\ c \notin called /\ called' = called \cup {c}
      /\ UNCHANGED <<phase, task, batch, lost>>
  BY DEF Call
<1>3. ~Written(c) /\ ~Held(c) /\ ~Queued(c) /\ c \notin dropped /\ c \notin lost
  BY <1>2 DEF AInv, OnePlace
<1>4. \A s : /\ Written(s)' <=> Written(s)
             /\ Held(s)' <=> Held(s)
  BY <1>2 DEF Written, Held, Ids
<1>5. CASE HasRoom
  <2>1. queue' = Append(queue, c) /\ dropped' = dropped
    BY <1>5 DEF Call
  <2>2. Distinct(queue') /\ \A s : Queued(s)' <=> Queued(s) \/ s = c
    BY <1>3, <2>1, Holders, AppendAdds DEF AInv, Alone, Queued
  <2>3. Alone'
    BY <1>2, <2>2 DEF AInv, Alone, Ids
  <2>4. OnePlace'
    BY <1>2, <1>3, <1>4, <2>1, <2>2 DEF AInv, OnePlace
  <2> QED
    BY <1>2, <2>3, <2>4 DEF AInv, Flushed
<1>6. CASE ~HasRoom
  <2>1. queue' = queue /\ dropped' = dropped \cup {c}
    BY <1>6 DEF Call
  <2>2. Alone'
    BY <1>2, <2>1 DEF AInv, Alone, Ids
  <2>3. OnePlace'
    BY <1>2, <1>3, <1>4, <2>1 DEF AInv, OnePlace, Queued
  <2> QED
    BY <1>2, <2>1, <2>2, <2>3 DEF AInv, Flushed
<1> QED
  BY <1>5, <1>6

\* A coroutine p without a batch takes the first n records of the queue.
LEMMA TakePlaces ==
  ASSUME Typed, AInv, NEW p \in Coroutines, batch[p] = <<>>, NEW n \in 0 .. Len(queue),
         batch' = [batch EXCEPT ![p] = SubSeq(queue, 1, n)], queue' = SubSeq(queue, n + 1, Len(queue)),
         \A s \in Calls : Written(s)' <=> Written(s), UNCHANGED <<called, dropped, lost>>
  PROVE  /\ OnePlace' /\ Distinct(queue') /\ \A q \in Coroutines : Distinct(batch'[q])
         /\ \A q, r \in Coroutines : \A s \in Calls : InSeq(s, batch'[q]) /\ InSeq(s, batch'[r]) => q = r
<1> DEFINE a == SubSeq(queue, 1, n)
<1>1. queue \in Seq(Calls) /\ Distinct(queue) /\ batch \in [Coroutines -> Seq(Calls)]
  BY Holders DEF AInv, Alone
<1>2. /\ Distinct(a) /\ Distinct(queue')
      /\ \A s : Queued(s) <=> InSeq(s, a) \/ Queued(s)'
      /\ \A s : ~(InSeq(s, a) /\ Queued(s)')
  BY <1>1, SplitParts DEF Queued
<1>3. batch'[p] = a /\ \A q \in Coroutines : q # p => batch'[q] = batch[q]
  BY <1>1
<1> HIDE DEF a
<1>4. \A s : Held(s)' <=> Held(s) \/ InSeq(s, a)
  BY <1>3, EmptyHasNone DEF Held
<1>5. \A q \in Coroutines : Distinct(batch'[q])
  BY <1>2, <1>3 DEF AInv, Alone
<1>6. ASSUME NEW q \in Coroutines, NEW r \in Coroutines, NEW s \in Calls,
             InSeq(s, batch'[q]), InSeq(s, batch'[r]), q # r
      PROVE  FALSE
  <2>1. ASSUME NEW x \in Coroutines, x # p, InSeq(s, batch'[x]), InSeq(s, a) PROVE FALSE
    <3>1. Held(s) /\ Queued(s)
      BY <1>2, <1>3, <2>1 DEF Held
    <3> QED
      BY <3>1 DEF AInv, OnePlace
  <2>2. CASE q # p /\ r # p
    BY <1>3, <1>6, <2>2 DEF AInv, Alone
  <2> QED
    BY <1>3, <1>6, <2>1, <2>2
<1>7. OnePlace'
  BY <1>2, <1>4 DEF AInv, OnePlace
<1> QED
  BY <1>2, <1>5, <1>6, <1>7

\* A coroutine p is done with the first record of its batch, which is now in the table or lost.
LEMMA WritePlaces ==
  ASSUME Typed, AInv, NEW p \in Coroutines, Write(p) \/ WriteFails(p)
  PROVE  AInv'
<1>1. [Next]_vars
  BY Holders DEF Next
<1>2. /\ batch[p] # <<>> /\ batch' = [batch EXCEPT ![p] = Tail(@)]
      /\ UNCHANGED <<phase, queue, called, dropped>>
  BY DEF Write, WriteFails
<1>3. batch[p] \in Seq(Calls) /\ Distinct(batch[p]) /\ batch \in [Coroutines -> Seq(Calls)]
  BY Holders DEF AInv, Alone
<1>4. PICK c \in Calls : /\ c = Head(batch[p]) /\ InSeq(c, batch[p]) /\ Distinct(Tail(batch[p]))
                        /\ \A s : InSeq(s, Tail(batch[p])) <=> InSeq(s, batch[p]) /\ s # c
  BY <1>2, <1>3, TailRemoves
<1>5. Held(c) /\ ~Written(c) /\ ~Queued(c) /\ c \notin dropped /\ c \notin lost /\ c \in called
  BY <1>4 DEF Held, AInv, OnePlace
<1>6. batch'[p] = Tail(batch[p]) /\ \A q \in Coroutines : q # p => batch'[q] = batch[q]
  BY <1>2, <1>3
<1>7. \A s \in Calls : Held(s)' <=> Held(s) /\ s # c
  <2>1. \A s \in Calls : Held(s) /\ s # c => Held(s)'
    BY <1>4, <1>6 DEF Held
  <2>2. \A s \in Calls : Held(s)' => Held(s)
    BY <1>4, <1>6 DEF Held
  <2>3. ~Held(c)'
    BY <1>4, <1>6 DEF Held, AInv, Alone
  <2> QED
    BY <2>1, <2>2, <2>3
<1>8. /\ \A q \in Coroutines : Distinct(batch'[q])
      /\ \A q, r \in Coroutines : \A s \in Calls : InSeq(s, batch'[q]) /\ InSeq(s, batch'[r]) => q = r
  BY <1>4, <1>6 DEF AInv, Alone
<1>9. \A s \in Calls : Queued(s)' <=> Queued(s)
  BY <1>2 DEF Queued
<1>10. Alone'
  BY <1>1, <1>2, <1>8, WrittenStep DEF AInv, Alone
<1>11. OnePlace'
  <2>1. CASE Write(p)
    <3>1. \A s \in Calls : Written(s)' <=> Written(s) \/ s = c
      <4>1. Written(c)' /\ \A s \in Calls : Written(s) => Written(s)'
        BY <1>1, <1>4, <2>1, WrittenStep DEF AInv
      <4>2. ASSUME NEW s \in Calls, Written(s)', ~Written(s) PROVE s = c
        <5>1. PICK q \in Coroutines : Write(q) /\ s = Head(batch[q])
          BY <1>1, <4>2, WrittenStep DEF AInv
        <5>2. q = p
          <6>1. batch' = [batch EXCEPT ![q] = Tail(@)] /\ batch[q] # <<>> /\ batch[q] \in Seq(Calls)
            BY <5>1, Holders DEF Write
          <6>2. Len(Tail(batch[q])) = Len(batch[q]) - 1 /\ Len(batch[q]) \in Nat
            BY <6>1, HeadTailProperties, LenProperties
          <6>3. batch'[q] = Tail(batch[q])
            BY <1>3, <6>1
          <6>4. Len(batch'[q]) # Len(batch[q])
            BY <6>2, <6>3
          <6> QED
            BY <1>6, <6>4
        <5> QED
          BY <1>4, <5>1, <5>2
      <4> QED
        BY <4>1, <4>2
    <3>2. lost' = lost
      BY <2>1 DEF Write
    <3> QED
      BY <1>2, <1>5, <1>7, <1>9, <3>1, <3>2 DEF AInv, OnePlace
  <2>2. CASE WriteFails(p)
    <3>1. lost' = lost \cup {c} /\ \A s \in Calls : Written(s)' <=> Written(s)
      BY <1>4, <2>2 DEF WriteFails, Written, Ids
    <3> QED
      BY <1>2, <1>5, <1>7, <1>9, <3>1 DEF AInv, OnePlace
  <2> QED
    BY <2>1, <2>2
<1>12. Flushed'
  <2>1. phase # "down"
    BY <1>2 DEF AInv, Flushed
  <2>2. phase = "up" => p # Stopper
    BY <1>2 DEF AInv, Flushed
  <2> QED
    BY <1>2, <1>6, <2>1, <2>2, Holders DEF AInv, Flushed
<1> QED
  BY <1>10, <1>11, <1>12 DEF AInv

\* A shutdown hands the queue to the coroutine that stops the writers; a service that goes
\* down loses what its coroutines have.
LEMMA LifePlaces ==
  ASSUME Typed, AInv, Shutdown \/ StopEnds \/ Crash \/ Start
  PROVE  AInv'
<1>1. [Next]_vars
  BY DEF Next
<1>2. (\E p \in Coroutines : Write(p)) => FALSE
  <2>1. ASSUME NEW p \in Coroutines, Write(p) PROVE phase' = phase
    BY <2>1 DEF Write
  <2> QED
    BY <2>1 DEF Shutdown, StopEnds, Crash, Start
<1>3. /\ \A s \in Calls : Written(s)' <=> Written(s)
      /\ \A t, u \in Ids' : task'[t].by = task'[u].by /\ task'[t].by # Nobody => t = u
  BY <1>1, <1>2, WrittenStep DEF AInv
<1>4. \A S : \A x \in S : ~InSeq(x, <<>>)
  BY EmptyHasNone
<1>5. CASE Shutdown
  <2>1. /\ phase = "up" /\ phase' = "stopping" /\ batch' = [batch EXCEPT ![Stopper] = queue] /\ queue' = <<>>
        /\ UNCHANGED <<called, dropped, lost>>
    BY <1>5 DEF Shutdown, Rest
  <2>2. batch[Stopper] = <<>> /\ queue \in Seq(Calls)
    BY <2>1, Holders DEF AInv, Flushed
  <2>3. Len(queue) \in Nat /\ Len(queue) \in 0 .. Len(queue)
    BY <2>2, LenProperties
  <2>4. SubSeq(queue, 1, Len(queue)) = queue /\ SubSeq(queue, Len(queue) + 1, Len(queue)) = <<>>
    BY <2>2, <2>3, SubSeqFull, SubSeqEmpty
  <2>5. /\ OnePlace' /\ Distinct(queue') /\ \A q \in Coroutines : Distinct(batch'[q])
        /\ \A q, r \in Coroutines : \A s \in Calls : InSeq(s, batch'[q]) /\ InSeq(s, batch'[r]) => q = r
    BY <1>3, <2>1, <2>2, <2>3, <2>4, TakePlaces, Holders
  <2> QED
    BY <1>3, <2>1, <2>5 DEF AInv, Alone, Flushed
<1>6. CASE StopEnds
  <2>1. /\ phase' = "down" /\ queue' = <<>> /\ queue = <<>> /\ batch' = [p \in Coroutines |-> <<>>]
        /\ lost' = lost \cup {s \in Calls : Held(s)} /\ UNCHANGED <<called, dropped>>
    BY <1>6, Holders DEF StopEnds, AInv, Flushed, InHand, Held
  <2>2. \A s : ~Held(s)' /\ ~Queued(s)' /\ ~Queued(s)
    BY <2>1, EmptyHasNone DEF Held, Queued
  <2>3. Alone'
    BY <1>3, <2>1, EmptyHasNone DEF Alone
  <2>4. OnePlace'
    BY <1>3, <2>1, <2>2 DEF AInv, OnePlace
  <2> QED
    BY <2>1, <2>3, <2>4 DEF AInv, Flushed
<1>7. CASE Crash
  <2>1. /\ phase' = "down" /\ queue' = <<>> /\ batch' = [p \in Coroutines |-> <<>>]
        /\ lost' = lost \cup {s \in Calls : Queued(s) \/ Held(s)} /\ UNCHANGED <<called, dropped>>
    BY <1>7, Holders DEF Crash, Pending, Held, Queued
  <2>2. \A s : ~Held(s)' /\ ~Queued(s)'
    BY <2>1, EmptyHasNone DEF Held, Queued
  <2>3. Alone'
    BY <1>3, <2>1, EmptyHasNone DEF Alone
  <2>4. OnePlace'
    BY <1>3, <2>1, <2>2 DEF AInv, OnePlace
  <2> QED
    BY <2>1, <2>3, <2>4 DEF AInv, Flushed
<1>8. CASE Start
  <2>1. phase = "down" /\ phase' = "up" /\ UNCHANGED <<queue, batch, called, dropped, lost>>
    BY <1>8 DEF Start, writerVars
  <2>2. Alone'
    BY <1>3, <2>1 DEF AInv, Alone
  <2>3. OnePlace'
    BY <1>3, <2>1 DEF AInv, OnePlace, Held, Queued
  <2> QED
    BY <2>1, <2>2, <2>3, Holders DEF AInv, Flushed
<1> QED
  BY <1>5, <1>6, <1>7, <1>8

\* Every step keeps each record in one place.
LEMMA PlacesStep == Typed /\ AInv /\ [Next]_vars => AInv'
<1> SUFFICES ASSUME Typed, AInv, [Next]_vars PROVE AInv'
  OBVIOUS
<1>1. ASSUME NEW s \in Calls, Call(s) PROVE AInv'
  BY <1>1, CallPlaces
<1>2. ASSUME NEW w \in Writers, Take(w) PROVE AInv'
  <2> DEFINE m == Min({BatchSize, Len(queue)})
  <2>1. Len(queue) \in Nat
    BY Holders, LenProperties
  <2>2. PICK n \in 0 .. Len(queue) : n = m
    BY <2>1, MinOfTwo, SubmissionAssumption
  <2>3. /\ batch[w] = <<>> /\ phase = "up" /\ w \in Coroutines /\ w # Stopper
        /\ batch' = [batch EXCEPT ![w] = SubSeq(queue, 1, n)] /\ queue' = SubSeq(queue, n + 1, Len(queue))
        /\ UNCHANGED <<phase, task, called, dropped, lost>>
    BY <1>2, <2>2, SubmissionAssumption DEF Take, Coroutines
  <2>4. \A s \in Calls : Written(s)' <=> Written(s)
    BY <2>3 DEF Written, Ids
  <2>5. /\ OnePlace' /\ Distinct(queue') /\ \A q \in Coroutines : Distinct(batch'[q])
        /\ \A q, r \in Coroutines : \A s \in Calls : InSeq(s, batch'[q]) /\ InSeq(s, batch'[r]) => q = r
    BY <2>3, <2>4, TakePlaces
  <2>6. Alone'
    BY <2>3, <2>5 DEF AInv, Alone, Ids
  <2>7. batch'[Stopper] = batch[Stopper]
    BY <2>3, Holders
  <2> QED
    BY <2>3, <2>5, <2>6, <2>7 DEF AInv, Flushed
<1>3. ASSUME NEW p \in DOMAIN batch, Write(p) \/ WriteFails(p) PROVE AInv'
  BY <1>3, WritePlaces, Holders
<1>4. CASE Shutdown \/ StopEnds \/ Crash \/ Start
  BY <1>4, LifePlaces
<1>5. CASE UNCHANGED <<phase, writerVars>>
  <2>1. ASSUME NEW p \in Coroutines, Write(p) PROVE FALSE
    <3>1. batch[p] \in Seq(Calls) /\ batch[p] # <<>> /\ batch'[p] = Tail(batch[p]) /\ batch' = batch
      BY <1>5, <2>1, Holders DEF Write, writerVars
    <3>2. Len(Tail(batch[p])) = Len(batch[p]) - 1 /\ Len(batch[p]) \in Nat
      BY <3>1, HeadTailProperties, LenProperties
    <3>3. Len(Tail(batch[p])) = Len(batch[p])
      BY <3>1
    <3> QED
      BY <3>2, <3>3
  <2>2. /\ \A s \in Calls : Written(s)' <=> Written(s)
        /\ \A t, u \in Ids' : task'[t].by = task'[u].by /\ task'[t].by # Nobody => t = u
    BY <2>1, WrittenStep DEF AInv
  <2>3. Alone'
    BY <1>5, <2>2 DEF AInv, Alone, writerVars
  <2>4. OnePlace'
    BY <1>5, <2>2 DEF AInv, OnePlace, Held, Queued, writerVars
  <2> QED
    BY <1>5, <2>3, <2>4 DEF AInv, Flushed, writerVars
<1>6. \/ \E s \in Calls : Call(s)
      \/ \E w \in Writers : Take(w)
      \/ \E p \in DOMAIN batch : Write(p) \/ WriteFails(p)
      \/ Shutdown \/ StopEnds \/ Crash \/ Start
      \/ UNCHANGED <<phase, writerVars>>
  BY DEF Next, vars, Enter, Scan, Insert, Claim, Settle, Cancel, RetryCheck, RetryUpdate, Delete, Select
<1> QED
  BY <1>1, <1>2, <1>3, <1>4, <1>5, <1>6

\* The record of an answered call is in exactly one place, is written once at most, and
\* none is left behind when the service is down, whatever crashes, stops and statements
\* that fail come between.
THEOREM RecordsAreAccounted == Spec => []Accounted
<1>1. Init => Typed /\ AInv
  <2> SUFFICES ASSUME Init PROVE AInv
    BY InitTyped
  <2>1. /\ Ids = {} /\ queue = <<>> /\ called = {} /\ dropped = {} /\ lost = {} /\ phase = "up"
        /\ \A p \in Coroutines : batch[p] = <<>>
    BY EmptyHasNone DEF Init, Ids, Coroutines
  <2>2. \A s : ~Written(s) /\ ~Held(s) /\ ~Queued(s)
    BY <2>1, EmptyHasNone DEF Written, Held, Queued
  <2> QED
    BY <2>1, <2>2, EmptyHasNone DEF AInv, Alone, OnePlace, Flushed, Coroutines
<1>2. Typed /\ AInv /\ [Next]_vars => (Typed /\ AInv)'
  BY StepTyped, PlacesStep
<1>3. Typed /\ AInv => Accounted
  BY CountsToOne
<1> QED
  BY <1>1, <1>2, <1>3, PTL DEF Spec

=============================================================================
