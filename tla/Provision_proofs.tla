--------------------------- MODULE Provision_proofs ---------------------------
(* The safety theorems of Provision, by the inductive invariant Inductive, *)
(* and of ProvisionPlanner, by PlannerInductive.                           *)
EXTENDS Provision, ProvisionPlanner, FiniteSetTheorems, TLAPS

(***************************************************************************)
(* The data: operations of a plan and the statuses that are written.       *)
(***************************************************************************)

LEMMA OperationTyped ==
    ASSUME TypeOK, NEW r \in Requests, plan[r] \in Plans, MoreToDo(r)
    PROVE  Operation(r) \in Ops /\ Operation(r).id \in Names
  <1>1. plan[r].ops \in Seq(Ops) /\ index[r] \in 1 .. Len(plan[r].ops)
    BY PlanAssumption DEF TypeOK, MoreToDo
  <1>2. Operation(r) \in Ops
    BY <1>1 DEF Operation
  <1> QED
    BY <1>2 DEF Names

LEMMA PlanAccepted ==
    ASSUME Inductive, NEW r \in Requests, pc[r] # "none"
    PROVE  plan[r] \in Plans /\ r <= issued
  BY DEF Inductive, TypeOK, Serving

LEMMA BehindIndex ==
    ASSUME Inductive, NEW r \in Requests,
           pc[r] \in {"loop", "execute", "spawning", "running", "executed"}
    PROVE  /\ index[r] \in Nat \ {0}
           /\ \A i \in 1 .. Len(plan[r].ops) :
                  i < index[r] => plan[r].ops[i].id \in memory.completed
  BY DEF Inductive, TypeOK, Placed

LEMMA ServedPlan ==
    ASSUME Inductive, NEW r \in Requests, Live(r)
    PROVE  memory.request = r /\ memory.ids = plan[r].ids
  BY NothingAssumption DEF Inductive, Serving

LEMMA StatusWritten ==
    ASSUME TypeOK, NEW status \in Status, SetState(status)
    PROVE  memory' \in Status /\ disk' \in Status /\ memory' = status /\ disk' \in {disk, status}
  BY DEF SetState, TypeOK

LEMMA InitInductive == Init => Inductive
  <1> SUFFICES ASSUME Init PROVE Inductive
    OBVIOUS
  <1>1. None \notin Requests /\ MaxRequests \in Nat
    BY NothingAssumption, BoundAssumption
  <1>2. TypeOK
    BY <1>1 DEF Init, TypeOK, Fresh, Status, Phases, Steps, Requests
  <1>3. Serving
    BY <1>1 DEF Init, Serving, Fresh, Live, Requests
  <1> QED
    BY <1>2, <1>3 DEF Init, Inductive, Placed, PhaseHonest, CompletedInstalled, Done, Fresh, Live

(***************************************************************************)
(* Handlers.                                                               *)
(***************************************************************************)

LEMMA StartInductive == ASSUME Inductive, NEW p \in Plans, Start(p) PROVE Inductive'
  <1> DEFINE r == issued + 1
             status == [request |-> r, phase |-> "waiting-network", network |-> "unknown",
                        ids |-> p.ids, completed |-> Progress(p), current |-> None]
  <1>1. /\ r \in Requests /\ r = issued + 1 /\ None \notin Requests /\ None \notin Plans
        /\ pc[r] = "none" /\ index[r] = 1
    <2>1. r \in Requests /\ r = issued + 1 /\ ~(r <= issued)
      BY BoundAssumption DEF Start, Inductive, TypeOK, Requests
    <2>2. pc[r] = "none"
      BY <2>1 DEF Inductive, Serving
    <2> QED
      BY <2>1, <2>2, NothingAssumption DEF Inductive, Placed
  <1>2. status \in Status
    BY <1>1 DEF Inductive, TypeOK, Status, Phases, Progress
  <1>3. memory' = status /\ disk' \in {disk, status} /\ memory' \in Status /\ disk' \in Status
    BY <1>2, StatusWritten DEF Start, Inductive
  <1>4. /\ up /\ up' = up /\ active' = r /\ issued' = r /\ token' = token /\ index' = index
        /\ installed' = installed
        /\ plan' = [plan EXCEPT ![r] = p] /\ pc' = [pc EXCEPT ![r] = "begin"]
    BY DEF Start
  <1> HIDE DEF r
  <1>5. TypeOK'
    BY <1>1, <1>3, <1>4 DEF Inductive, TypeOK, Steps, Requests
  <1>6. \A q \in Requests : ~Live(q) /\ (q # r => pc'[q] = pc[q] /\ plan'[q] = plan[q])
    BY <1>1, <1>4 DEF Start, SlotFree, Inductive, TypeOK, Serving
  <1>7. pc'[r] = "begin" /\ plan'[r] = p /\ up'
    BY <1>1, <1>4 DEF Inductive, TypeOK
  <1>8. Serving'
    <2>1. \A q \in Requests : q <= r <=> q <= issued \/ q = r
      BY <1>1 DEF Requests, Inductive, TypeOK
    <2>2. \A q \in Requests :
             /\ q <= issued' <=> plan'[q] # None
             /\ q <= issued' <=> pc'[q] # "none"
             /\ Live(q)' => active' = q /\ memory'.request = q
      BY <1>1, <1>3, <1>4, <1>6, <1>7, <2>1 DEF Inductive, Serving, Live
    <2>3. \A s \in {memory', disk'} :
             /\ s.request # None => s.request <= issued' /\ s.ids = plan'[s.request].ids
             /\ s.request = None => s.completed = {}
             /\ s.phase \in {"succeeded", "cancelled"} => s.request # None
      <3>1. ASSUME NEW s \in {memory, disk}, s.request # None
            PROVE  s.request <= r /\ plan'[s.request] = plan[s.request]
        BY <1>1, <1>4, <3>1 DEF Inductive, TypeOK, Serving, Status, Requests
      <3> QED
        BY <1>1, <1>3, <1>4, <1>7, <3>1 DEF Inductive, Serving
    <2> QED
      BY <1>1, <1>4, <1>7, <2>2, <2>3 DEF Serving, Live
  <1>9. Placed'
    BY <1>1, <1>3, <1>4, <1>6, <1>7
    DEF Inductive, TypeOK, Placed, Live, Requests, MoreToDo, Operation, Steps
  <1>10. PhaseHonest'
    BY <1>3, <1>4 DEF Inductive, PhaseHonest
  <1>11. CompletedInstalled'
    <2>1. \A q \in Requests : q <= issued => q <= r /\ plan'[q] = plan[q]
      BY <1>1, <1>4 DEF Inductive, TypeOK, Requests
    <2>2. ASSUME NEW s \in {memory, disk}, NEW id \in s.completed
          PROVE  \E done \in installed :
                    /\ done.by <= r /\ done.by <= s.request /\ done.op.id = id
                    /\ plan[done.by].ids = s.ids /\ plan'[done.by] = plan[done.by]
      <3>1. s.request \in Requests /\ s.request <= issued /\ InstalledFor(s.ids, s.request, id)
        BY <2>2 DEF Inductive, TypeOK, Status, Serving, CompletedInstalled, Done
      <3>2. \A done \in installed : done.by \in Requests
        BY DEF Inductive, TypeOK
      <3> QED
        BY <1>1, <2>1, <3>1, <3>2 DEF InstalledFor, Requests, Inductive, TypeOK
    <2> QED
      BY <1>3, <1>4, <2>2 DEF CompletedInstalled, Done, InstalledFor, Progress
  <1> QED
    BY <1>5, <1>8, <1>9, <1>10, <1>11 DEF Inductive

LEMMA CancelInductive == ASSUME Inductive, NEW r \in Requests, Cancel(r) PROVE Inductive'
  BY DEF Cancel, Inductive, TypeOK, Serving, Placed, PhaseHonest, CompletedInstalled, Done,
         InstalledFor, Live, MoreToDo, Operation, threadVars

(***************************************************************************)
(* The worker: steps that conclude a request, and steps that go on.        *)
(***************************************************************************)

LEMMA ConcludeInductive ==
    ASSUME Inductive, NEW r \in Requests,
           NEW step \in Steps \ {"none", "done"},
           NEW phase \in Phases \ {"running"}, phase = "cancelled" => r \in token,
           Conclude(r, step, phase)
    PROVE  Inductive'
  <1> DEFINE status == [memory EXCEPT !.phase = phase, !.current = None]
  <1>1. /\ status \in Status /\ status.phase = phase /\ status.request = r
        /\ status.completed = memory.completed /\ status.ids = memory.ids
    BY DEF Conclude, Goto, Inductive, TypeOK, Serving, Live, Status
  <1>2. memory' = status /\ disk' \in {disk, status} /\ memory' \in Status /\ disk' \in Status
    BY <1>1, StatusWritten DEF Conclude, Inductive
  <1> HIDE DEF status
  <1>3. /\ pc[r] = step /\ pc' = [pc EXCEPT ![r] = "clear"] /\ active = r
        /\ r <= issued /\ None \notin Requests
        /\ UNCHANGED <<up, active, issued, token, plan, index, installed>>
    BY NothingAssumption DEF Conclude, Goto, slotVars, Inductive, Serving, Live
  <1>4. TypeOK'
    BY <1>2, <1>3 DEF Inductive, TypeOK, Steps
  <1>5. \A q \in Requests : q # r => ~Live(q) /\ pc'[q] = pc[q]
    BY <1>3 DEF Inductive, TypeOK, Serving
  <1>6. pc'[r] = "clear"
    BY <1>3 DEF Inductive, TypeOK
  <1>7. Serving'
    BY <1>1, <1>2, <1>3, <1>5, <1>6 DEF Inductive, TypeOK, Serving, Live
  <1>8. Placed'
    BY <1>1, <1>2, <1>3, <1>5, <1>6 DEF Inductive, TypeOK, Placed, Live, MoreToDo, Operation
  <1>9. PhaseHonest'
    BY <1>1, <1>2, <1>3 DEF Inductive, PhaseHonest
  <1>10. CompletedInstalled'
    BY <1>1, <1>2, <1>3 DEF Inductive, CompletedInstalled, Done, InstalledFor, Serving, Live
  <1> QED
    BY <1>4, <1>7, <1>8, <1>9, <1>10 DEF Inductive

(* A step of the worker that goes on, told by what it does: the status is  *)
(* rewritten without a new verdict, and the new place is in order.         *)
LEMMA GoOnInductive ==
    ASSUME Inductive, NEW r \in Requests,
           NEW next \in Steps \ {"none", "done", "clear"},
           Live(r),
           pc' = [pc EXCEPT ![r] = next],
           memory' \in Status, disk' \in {disk, memory'},
           memory'.request = r, memory'.ids = memory.ids,
           memory'.phase = "cancelled" => r \in token,
           Done(memory)',
           installed \subseteq installed', installed' \subseteq [by : Requests, op : Ops],
           index' \in [Requests -> Nat \ {0}],
           \A q \in Requests : q # r => index'[q] = index[q],
           UNCHANGED <<up, active, issued, token, plan>>,
           next \in {"begin", "probed"} => index'[r] = 1 /\ memory'.phase # "running",
           next \in {"execute", "spawning", "running", "executed"} => index'[r] <= Len(plan[r].ops),
           next = "executed" => [by |-> r, op |-> plan[r].ops[index'[r]]] \in installed',
           next \in {"loop", "execute", "spawning", "running", "executed"} =>
              \A i \in 1 .. Len(plan[r].ops) :
                  i < index'[r] => plan[r].ops[i].id \in memory'.completed
    PROVE  Inductive'
  <1>1. active = r /\ r <= issued /\ None \notin Requests
    BY NothingAssumption DEF Inductive, Serving, Live
  <1>2. TypeOK'
    BY DEF Inductive, TypeOK
  <1>3. \A q \in Requests : q # r => ~Live(q) /\ pc'[q] = pc[q]
    BY <1>1 DEF Inductive, TypeOK, Serving
  <1>4. pc'[r] = next
    BY DEF Inductive, TypeOK
  <1>5. Serving'
    BY <1>1, <1>3, <1>4 DEF Inductive, TypeOK, Serving, Live
  <1>6. Placed'
    <2> SUFFICES ASSUME NEW q \in Requests
        PROVE /\ pc'[q] \in {"none", "begin", "probed"} => index'[q] = 1
              /\ pc'[q] \in {"begin", "probed", "clear"} => memory'.phase # "running"
              /\ pc'[q] \in {"execute", "spawning", "running", "executed"} => MoreToDo(q)'
              /\ pc'[q] = "executed" => [by |-> q, op |-> Operation(q)'] \in installed'
              /\ pc'[q] \in {"loop", "execute", "spawning", "running", "executed"} =>
                    \A i \in 1 .. Len(plan'[q].ops) :
                        i < index'[q] => plan'[q].ops[i].id \in memory'.completed
      BY DEF Placed
    <2>1. CASE q = r
      BY <2>1, <1>4 DEF MoreToDo, Operation
    <2>2. CASE q # r
      BY <2>2, <1>3 DEF Inductive, Placed, Live
    <2> QED
      BY <2>1, <2>2
  <1>7. PhaseHonest'
    BY <1>1, <1>4 DEF Inductive, PhaseHonest, Live
  <1>8. CompletedInstalled'
    BY DEF Inductive, CompletedInstalled, Done, InstalledFor
  <1> QED
    BY <1>2, <1>5, <1>6, <1>7, <1>8 DEF Inductive

LEMMA StepInductive ==
    ASSUME Inductive, NEW r \in Requests, Worker(r) \/ Program(r)
    PROVE  Inductive'
  <1> USE DEF Goto
  <1>1. /\ memory \in Status /\ disk \in Status /\ installed \subseteq [by : Requests, op : Ops]
        /\ pc \in [Requests -> Steps] /\ index \in [Requests -> Nat \ {0}]
        /\ Done(memory) /\ Done(disk)
    BY DEF Inductive, TypeOK, CompletedInstalled
  <1>2. ASSUME pc[r] # "none" PROVE plan[r] \in Plans
    BY <1>2, PlanAccepted
  <1>3. CASE NothingToRun(r)
    BY <1>3, ConcludeInductive DEF NothingToRun, Steps, Phases
  <1>4. ASSUME NEW network \in {"connected", "offline", "unknown"}, ProbeNetwork(r, network)
        PROVE  Inductive'
    <2> DEFINE status == [memory EXCEPT !.network = network]
    <2>1. /\ Live(r) /\ pc' = [pc EXCEPT ![r] = "probed"] /\ index' = index /\ index[r] = 1
          /\ installed' = installed /\ UNCHANGED <<up, active, issued, token, plan>>
          /\ memory.request = r /\ memory.phase # "running"
          /\ memory.phase = "cancelled" => r \in token
      BY <1>4 DEF ProbeNetwork, Live, slotVars, Inductive, Serving, Placed, PhaseHonest
    <2>2. /\ status \in Status /\ status.completed = memory.completed /\ status.ids = memory.ids
          /\ status.request = r /\ status.phase = memory.phase
      BY <1>1, <2>1 DEF Status
    <2>3. memory' = status /\ disk' \in {disk, status}
      BY <1>4 DEF ProbeNetwork, SetState
    <2>4. Done(memory)'
      BY <1>1, <2>1, <2>2, <2>3 DEF Done, InstalledFor
    <2> HIDE DEF status
    <2> QED
      BY <1>1, <2>1, <2>2, <2>3, <2>4, GoOnInductive DEF Steps
  <1>5. CASE AwaitNetwork(r)
    BY <1>5, ConcludeInductive DEF AwaitNetwork, Steps, Phases
  <1>6. CASE BeginOperations(r)
    <2> DEFINE status == [memory EXCEPT !.phase = "running"]
    <2>1. /\ Live(r) /\ pc' = [pc EXCEPT ![r] = "loop"] /\ index' = index /\ index[r] = 1
          /\ installed' = installed /\ UNCHANGED <<up, active, issued, token, plan>>
          /\ memory.request = r
      BY <1>6 DEF BeginOperations, Live, slotVars, Inductive, Serving, Placed
    <2>2. /\ status \in Status /\ status.completed = memory.completed /\ status.ids = memory.ids
          /\ status.request = r /\ status.phase = "running"
      BY <1>1, <2>1 DEF Status, Phases
    <2>3. memory' = status /\ disk' \in {disk, status}
      BY <1>6 DEF BeginOperations, SetState
    <2>4. Done(memory)'
      BY <1>1, <2>1, <2>2, <2>3 DEF Done, InstalledFor
    <2>5. \A i \in 1 .. Len(plan[r].ops) : ~(i < index'[r])
      BY <2>1
    <2> HIDE DEF status
    <2> QED
      BY <1>1, <2>1, <2>2, <2>3, <2>4, <2>5, GoOnInductive DEF Steps
  <1>7. CASE SkipDone(r)
    <2>1. /\ Live(r) /\ pc[r] = "loop" /\ pc' = [pc EXCEPT ![r] = "loop"]
          /\ index' = [index EXCEPT ![r] = @ + 1]
          /\ installed' = installed /\ UNCHANGED <<up, active, issued, token, plan>>
          /\ memory.request = r /\ memory' = memory /\ disk' = disk
          /\ memory.phase = "cancelled" => r \in token
          /\ plan[r].ops[index[r]].id \in memory.completed
      BY <1>7 DEF SkipDone, AlreadyDone, Operation, Live, slotVars, Inductive, Serving, PhaseHonest
    <2>2. plan[r].ops \in Seq(Ops)
      BY <1>2, <2>1, PlanAssumption
    <2>3. \A i \in 1 .. Len(plan[r].ops) :
             i < index'[r] => plan[r].ops[i].id \in memory.completed
      <3>1. /\ index[r] \in Nat \ {0} /\ index'[r] = index[r] + 1
            /\ \A i \in 1 .. Len(plan[r].ops) :
                   i < index[r] => plan[r].ops[i].id \in memory.completed
        BY <1>1, <2>1, BehindIndex
      <3>2. \A i \in 1 .. Len(plan[r].ops) : i < index'[r] => i < index[r] \/ i = index[r]
        BY <2>2, <3>1
      <3> QED
        BY <2>1, <3>1, <3>2
    <2>4. index' \in [Requests -> Nat \ {0}] /\ \A q \in Requests : q # r => index'[q] = index[q]
      BY <1>1, <2>1
    <2>5. Done(memory)'
      BY <1>1, <2>1 DEF Done, InstalledFor
    <2> QED
      BY <1>1, <2>1, <2>3, <2>4, <2>5, GoOnInductive DEF Steps
  <1>8. CASE CancelledBetween(r)
    BY <1>8, ConcludeInductive DEF CancelledBetween, Steps, Phases
  <1>9. CASE BeginOperation(r)
    <2> DEFINE status == [memory EXCEPT !.current = Operation(r).id]
    <2>1. /\ Live(r) /\ pc[r] = "loop" /\ pc' = [pc EXCEPT ![r] = "execute"] /\ index' = index
          /\ installed' = installed /\ UNCHANGED <<up, active, issued, token, plan>>
          /\ memory.request = r
          /\ memory.phase = "cancelled" => r \in token
          /\ MoreToDo(r)
      BY <1>9 DEF BeginOperation, Live, slotVars, Inductive, Serving, PhaseHonest
    <2>2. Operation(r).id \in Names
      BY <1>2, <2>1, OperationTyped DEF Inductive
    <2>3. /\ status \in Status /\ status.completed = memory.completed /\ status.ids = memory.ids
          /\ status.request = memory.request /\ status.phase = memory.phase
      BY <1>1, <2>2 DEF Status
    <2>4. memory' = status /\ disk' \in {disk, status}
      BY <1>9 DEF BeginOperation, SetState
    <2>5. Done(memory)'
      BY <1>1, <2>1, <2>3, <2>4 DEF Done, InstalledFor
    <2>6. \A i \in 1 .. Len(plan[r].ops) :
             i < index'[r] => plan[r].ops[i].id \in status.completed
      BY <2>1, <2>3 DEF Inductive, Placed
    <2> HIDE DEF status
    <2> QED
      BY <1>1, <2>1, <2>3, <2>4, <2>5, <2>6, GoOnInductive DEF Steps, MoreToDo
  <1>10. ASSUME \/ EnterEngine(r) /\ pc[r] = "execute"
                \/ Spawn(r) /\ pc[r] = "spawning"
                \/ Succeed(r) /\ pc[r] = "running"
         PROVE  Inductive'
    <2> PICK next \in {"spawning", "running", "executed"} :
             /\ pc' = [pc EXCEPT ![r] = next]
             /\ next = "executed" => [by |-> r, op |-> Operation(r)] \in installed'
      BY <1>10 DEF EnterEngine, Spawn, Succeed
    <2>1. /\ Live(r) /\ index' = index /\ UNCHANGED <<up, active, issued, token, plan>>
          /\ memory.request = r
          /\ memory.phase = "cancelled" => r \in token
          /\ MoreToDo(r) /\ memory' = memory /\ disk' = disk
      BY <1>10
      DEF EnterEngine, Spawn, Succeed, Live, slotVars, Inductive, Serving, PhaseHonest, Placed
    <2>2. installed \subseteq installed' /\ installed' \subseteq [by : Requests, op : Ops]
      BY <1>1, <1>2, <1>10, <2>1, OperationTyped DEF EnterEngine, Spawn, Succeed, Inductive
    <2>3. Done(memory)'
      BY <1>1, <2>1, <2>2 DEF Done, InstalledFor
    <2>4. \A i \in 1 .. Len(plan[r].ops) :
             i < index'[r] => plan[r].ops[i].id \in memory.completed
      BY <1>10, <2>1 DEF Inductive, Placed
    <2> QED
      BY <1>1, <2>1, <2>2, <2>3, <2>4, GoOnInductive DEF Steps, MoreToDo, Operation
  <1>11. CASE CancelledWithin(r)
    BY <1>11, ConcludeInductive DEF CancelledWithin, Steps, Phases
  <1>12. CASE RecordDone(r)
    <2> DEFINE status == [memory EXCEPT !.completed = @ \cup {Operation(r).id}, !.current = None]
    <2>1. /\ Live(r) /\ pc[r] = "executed" /\ pc' = [pc EXCEPT ![r] = "loop"]
          /\ index' = [index EXCEPT ![r] = @ + 1]
          /\ installed' = installed /\ UNCHANGED <<up, active, issued, token, plan>>
          /\ memory.request = r
          /\ memory.phase = "cancelled" => r \in token
          /\ MoreToDo(r) /\ [by |-> r, op |-> Operation(r)] \in installed
      BY <1>12 DEF RecordDone, Live, slotVars, Inductive, Serving, PhaseHonest, Placed
    <2>2. Operation(r).id \in Names
      BY <1>2, <2>1, OperationTyped DEF Inductive
    <2>3. /\ status \in Status /\ status.ids = memory.ids
          /\ status.completed = memory.completed \cup {Operation(r).id}
          /\ status.request = memory.request /\ status.phase = memory.phase
      BY <1>1, <2>2 DEF Status
    <2>4. memory' = status /\ disk' \in {disk, status}
      BY <1>12 DEF RecordDone, SetState
    <2>5. Done(memory)'
      <3>1. InstalledFor(memory.ids, r, Operation(r).id)
        BY <1>1, <2>1, ServedPlan DEF InstalledFor, Requests
      <3>2. \A id \in status.completed : InstalledFor(memory.ids, r, id)
        BY <1>1, <2>1, <2>3, <3>1 DEF Done
      <3> QED
        BY <2>1, <2>3, <2>4, <3>2 DEF Done, InstalledFor
    <2>6. plan[r].ops \in Seq(Ops)
      BY <1>2, <2>1, PlanAssumption
    <2>7. \A i \in 1 .. Len(plan[r].ops) :
             i < index'[r] => plan[r].ops[i].id \in status.completed
      BY <1>1, <2>1, <2>3, <2>6, BehindIndex DEF Operation
    <2>8. index' \in [Requests -> Nat \ {0}] /\ \A q \in Requests : q # r => index'[q] = index[q]
      BY <1>1, <2>1
    <2> HIDE DEF status
    <2> QED
      BY <1>1, <2>1, <2>3, <2>4, <2>5, <2>7, <2>8, GoOnInductive DEF Steps
  <1>13. CASE Finish(r)
    BY <1>13, ConcludeInductive DEF Finish, Steps, Phases
  <1>14. CASE ClearActive(r)
    <2>1. /\ pc[r] = "clear" /\ Live(r) /\ active = r /\ None \notin Requests
          /\ active' = None /\ pc' = [pc EXCEPT ![r] = "done"] /\ pc'[r] = "done"
          /\ UNCHANGED <<memory, disk, up, issued, token, plan, index, installed>>
      BY <1>1, <1>14, NothingAssumption DEF ClearActive, Live, Inductive, Serving
    <2>2. \A q \in Requests : q # r => ~Live(q) /\ pc'[q] = pc[q]
      BY <1>1, <2>1 DEF Inductive, Serving
    <2>3. TypeOK'
      BY <2>1 DEF Inductive, TypeOK, Steps
    <2>4. Serving'
      BY <2>1, <2>2 DEF Inductive, Serving, Live
    <2>5. Placed' /\ PhaseHonest'
      BY <2>1, <2>2 DEF Inductive, Placed, PhaseHonest, Live, MoreToDo, Operation
    <2> QED
      BY <2>1, <2>3, <2>4, <2>5 DEF Inductive, CompletedInstalled, Done, InstalledFor
  <1>15. CASE FailOperation(r)
    BY <1>15, ConcludeInductive DEF FailOperation, Steps, Phases
  <1> QED
    BY <1>3, <1>4, <1>5, <1>6, <1>7, <1>8, <1>9, <1>10, <1>11, <1>12, <1>13, <1>14, <1>15
    DEF Worker, Program, EnterEngine, Spawn, Succeed

(***************************************************************************)
(* Death and restart of the service.                                       *)
(***************************************************************************)

LEMMA CrashInductive == ASSUME Inductive, Crash PROVE Inductive'
  <1>1. \A r \in Requests : pc'[r] = IF pc[r] = "none" THEN "none" ELSE "done"
    BY DEF Crash
  <1>2. \A r \in Requests : index'[r] = 1 /\ ~Live(r)'
    BY <1>1 DEF Crash, Live
  <1>3. None \notin Requests /\ memory' = Fresh /\ disk' = disk /\ installed' = installed
    BY NothingAssumption DEF Crash
  <1>4. TypeOK'
    <2>1. Fresh \in Status
      BY DEF Fresh, Status, Phases
    <2>2. pc' \in [Requests -> Steps] /\ index' \in [Requests -> Nat \ {0}]
      BY DEF Crash, Inductive, TypeOK, Steps
    <2> QED
      BY <1>3, <2>1, <2>2 DEF Crash, Inductive, TypeOK
  <1>5. Serving'
    BY <1>1, <1>2, <1>3 DEF Crash, Inductive, Serving, Fresh
  <1>6. Placed' /\ PhaseHonest'
    BY <1>1, <1>2, <1>3 DEF Crash, Inductive, Placed, PhaseHonest, Fresh
  <1> QED
    BY <1>3, <1>4, <1>5, <1>6 DEF Crash, Inductive, CompletedInstalled, Done, InstalledFor, Fresh

LEMMA RecoveredStatus ==
    ASSUME NEW status \in Status
    PROVE  /\ Recovered(status) \in Status
           /\ Recovered(status).phase # "running"
           /\ Recovered(status).phase \in {"succeeded", "cancelled"} =>
                 Recovered(status).phase = status.phase
           /\ Recovered(status).request = status.request
           /\ Recovered(status).ids = status.ids
           /\ Recovered(status).completed = status.completed
  BY DEF Recovered, Status, Phases

LEMMA LoadInductive == ASSUME Inductive, Load PROVE Inductive'
  <1>1. /\ disk \in Status /\ memory' = Recovered(disk) /\ disk' = Recovered(disk)
        /\ UNCHANGED <<active, issued, token, plan, pc, index, installed>> /\ up'
    BY DEF Load, threadVars, Inductive, TypeOK
  <1>2. \A r \in Requests : ~Live(r)
    BY NothingAssumption DEF Load, Inductive, Serving
  <1>3. TypeOK'
    BY <1>1, RecoveredStatus DEF Inductive, TypeOK
  <1>4. Serving'
    BY <1>1, <1>2, RecoveredStatus DEF Inductive, Serving, Live
  <1>5. Placed' /\ PhaseHonest'
    BY <1>1, <1>2, RecoveredStatus DEF Inductive, Placed, PhaseHonest, Live, MoreToDo, Operation
  <1>6. CompletedInstalled'
    BY <1>1, RecoveredStatus DEF Inductive, CompletedInstalled, Done, InstalledFor
  <1> QED
    BY <1>3, <1>4, <1>5, <1>6 DEF Inductive

LEMMA NextInductive == ASSUME Inductive, [Next]_vars PROVE Inductive'
  <1>1. CASE UNCHANGED vars
    BY <1>1 DEF vars, slotVars, threadVars, Inductive, TypeOK, Serving, Placed, PhaseHonest,
                CompletedInstalled, Done, InstalledFor, Live, MoreToDo, Operation
  <1> QED
    BY <1>1, StartInductive, CancelInductive, StepInductive, CrashInductive, LoadInductive
    DEF Next

(* The inductive invariant holds for any plans, any number of requests and *)
(* whatever writes fail.                                                   *)
THEOREM InductiveHolds == Spec => []Inductive
  <1>1. Inductive /\ [Next]_vars => Inductive'
    BY NextInductive
  <1> QED
    BY InitInductive, <1>1, PTL DEF Spec

(* At most one worker, and it holds the slot until its last step.          *)
THEOREM SlottedHolds == Spec => []Slotted
  <1>1. Inductive => Slotted
    BY DEF Inductive, Serving, Slotted
  <1> QED
    BY <1>1, InductiveHolds, PTL

(* Nothing is offered for resumption that was not carried out, although    *)
(* the state file may lag behind and the service may die at any step.      *)
THEOREM CompletedInstalledHolds == Spec => []CompletedInstalled
  <1>1. Inductive => CompletedInstalled
    BY DEF Inductive
  <1> QED
    BY <1>1, InductiveHolds, PTL

(* "running" has a worker and "cancelled" had a caller.                    *)
THEOREM PhaseHonestHolds == Spec => []PhaseHonest
  <1>1. Inductive => PhaseHonest
    BY DEF Inductive
  <1> QED
    BY <1>1, InductiveHolds, PTL

(* After its cancel was accepted, a request starts no program but the one  *)
(* whose engine had looked at the token before.                            *)
THEOREM NoProgramHolds == Spec => NoProgramAfterCancel
  <1> DEFINE Past == {"spawning", "running"}
  <1>1. ASSUME Inductive, [Next]_vars, NEW r \in token, pc[r] \notin Past
        PROVE  pc'[r] \notin Past
    <2>1. r \in Requests /\ pc \in [Requests -> Steps]
      BY <1>1 DEF Inductive, TypeOK
    <2>2. CASE UNCHANGED vars
      BY <1>1, <2>2 DEF vars, threadVars
    <2>3. ASSUME NEW p \in Plans, Start(p) PROVE pc'[r] \notin Past
      BY <1>1, <2>1, <2>3 DEF Start
    <2>4. ASSUME NEW q \in Requests, Worker(q) \/ Program(q) PROVE pc'[r] \notin Past
      BY <1>1, <2>1, <2>4
      DEF Worker, Program, NothingToRun, ProbeNetwork, AwaitNetwork, BeginOperations, SkipDone,
          CancelledBetween, BeginOperation, EnterEngine, Spawn, CancelledWithin, RecordDone,
          Finish, ClearActive, Succeed, FailOperation, Conclude, Goto
    <2> QED
      BY <1>1, <2>1, <2>2, <2>3, <2>4 DEF Next, Cancel, Crash, Load, threadVars
  <1>2. Inductive /\ [Next]_vars
        => [\A r \in token : pc[r] \notin Past => pc'[r] \notin Past]_vars
    BY <1>1
  <1> QED
    BY <1>2, InductiveHolds, PTL DEF Spec, NoProgramAfterCancel

(***************************************************************************)
(* What "succeeded" means, for plans of any images.                        *)
(***************************************************************************)

LEMMA CarriedByAll ==
    ASSUME Inductive, NEW r \in Requests, pc[r] = "loop", ~MoreToDo(r)
    PROVE  \A i \in 1 .. Len(plan[r].ops) : InstalledFor(plan[r].ids, r, plan[r].ops[i].id)
  <1>1. plan[r].ops \in Seq(Ops) /\ index[r] \in Nat
    BY PlanAccepted, PlanAssumption DEF Inductive, TypeOK
  <1>2. \A i \in 1 .. Len(plan[r].ops) : plan[r].ops[i].id \in memory.completed
    BY <1>1, BehindIndex DEF MoreToDo
  <1>3. memory.request = r /\ memory.ids = plan[r].ids
    BY ServedPlan DEF Live
  <1> QED
    BY <1>2, <1>3 DEF Inductive, CompletedInstalled, Done

LEMMA SucceededStep ==
    ASSUME Inductive, SucceededInstalled, [Next]_vars
    PROVE  SucceededInstalled'
  <1>1. \A status \in {memory, disk} :
           status.phase = "succeeded" => status.request \in Requests /\ status.request <= issued
    BY DEF Inductive, TypeOK, Serving, Status
  <1>2. ASSUME \A q \in Requests : q <= issued => plan'[q] = plan[q],
               installed \subseteq installed',
               \A status \in {memory', disk'} : status.phase = "succeeded" =>
                   \E old \in {memory, disk} :
                        old.phase = "succeeded" /\ old.request = status.request
        PROVE  SucceededInstalled'
    <2>1. ASSUME NEW CONSTANT q \in Requests, q <= issued, NEW CONSTANT ids, NEW CONSTANT id,
                 InstalledFor(ids, q, id)
          PROVE  \E done \in installed' :
                    done.by <= q /\ plan'[done.by].ids = ids /\ done.op.id = id
      BY <1>2, <2>1 DEF InstalledFor, Inductive, TypeOK, Requests
    <2>2. ASSUME NEW status \in {memory', disk'}, status.phase = "succeeded",
                 NEW i \in 1 .. Len(plan'[status.request].ops)
          PROVE  \E done \in installed' :
                    /\ done.by <= status.request
                    /\ plan'[done.by].ids = plan'[status.request].ids
                    /\ done.op.id = plan'[status.request].ops[i].id
      <3>1. PICK old \in {memory, disk} :
                old.phase = "succeeded" /\ old.request = status.request
        BY <1>2, <2>2
      <3>2. status.request \in Requests /\ status.request <= issued
            /\ plan'[status.request] = plan[status.request]
        BY <1>1, <1>2, <3>1
      <3>3. InstalledFor(plan[status.request].ids, status.request, plan[status.request].ops[i].id)
        BY <2>2, <3>1, <3>2 DEF SucceededInstalled, Carried
      <3> QED
        BY <2>1, <3>2, <3>3
    <2> QED
      BY <2>2 DEF SucceededInstalled, Carried, InstalledFor
  <1>3. CASE UNCHANGED vars
    BY <1>3 DEF vars, slotVars, SucceededInstalled, Carried, InstalledFor
  <1>4. ASSUME NEW p \in Plans, Start(p) PROVE SucceededInstalled'
    <2>1. \A q \in Requests : q <= issued => q # issued + 1
      BY DEF Inductive, TypeOK, Requests
    <2>2. memory'.phase = "waiting-network" /\ disk' \in {memory', disk} /\ installed' = installed
      BY <1>4 DEF Start, SetState
    <2>3. \A q \in Requests : q <= issued => plan'[q] = plan[q]
      BY <1>4, <2>1 DEF Start, Inductive, TypeOK
    <2> QED
      BY <1>2, <2>2, <2>3
  <1>5. ASSUME NEW r \in Requests, Finish(r) PROVE SucceededInstalled'
    <2>1. /\ memory'.request = r /\ disk' \in {memory', disk}
          /\ plan' = plan /\ installed' = installed
      BY <1>5 DEF Finish, Conclude, SetState, slotVars, Goto, Inductive, TypeOK, Status, Serving, Live
    <2>2. \A i \in 1 .. Len(plan[r].ops) : InstalledFor(plan[r].ids, r, plan[r].ops[i].id)
      BY <1>5, CarriedByAll DEF Finish
    <2> QED
      BY <2>1, <2>2 DEF SucceededInstalled, Carried, InstalledFor
  <1>6. ASSUME NEW r \in Requests, NEW step, NEW phase, phase # "succeeded",
               Conclude(r, step, phase)
        PROVE  SucceededInstalled'
    <2>1. /\ memory'.phase = phase /\ disk' \in {memory', disk}
          /\ plan' = plan /\ installed' = installed
      BY <1>6 DEF Conclude, SetState, slotVars, Inductive, TypeOK, Status
    <2> QED
      BY <1>2, <1>6, <2>1
  <1>7. ASSUME NEW r \in Requests, Worker(r) \/ Program(r), ~Finish(r)
        PROVE  SucceededInstalled'
    <2>1. CASE NothingToRun(r) \/ AwaitNetwork(r) \/ CancelledBetween(r) \/ CancelledWithin(r)
               \/ FailOperation(r)
      BY <1>6, <2>1 DEF NothingToRun, AwaitNetwork, CancelledBetween, CancelledWithin, FailOperation
    <2>2. CASE BeginOperations(r)
      <3>1. memory'.phase = "running" /\ disk' \in {memory', disk} /\ plan' = plan
            /\ installed' = installed
        BY <2>2 DEF BeginOperations, SetState, slotVars, Inductive, TypeOK, Status
      <3> QED
        BY <1>2, <3>1
    <2>3. ASSUME \/ \E network \in {"connected", "offline", "unknown"} : ProbeNetwork(r, network)
                 \/ SkipDone(r) \/ BeginOperation(r) \/ EnterEngine(r) \/ Spawn(r)
                 \/ RecordDone(r) \/ ClearActive(r) \/ Succeed(r)
          PROVE  SucceededInstalled'
      <3>1. /\ memory'.phase = memory.phase /\ memory'.request = memory.request
            /\ disk' \in {memory', disk} /\ plan' = plan /\ installed \subseteq installed'
        BY <2>3 DEF ProbeNetwork, SkipDone, BeginOperation, EnterEngine, Spawn, RecordDone,
                    ClearActive, Succeed, SetState, slotVars, Inductive, TypeOK, Status
      <3> QED
        BY <1>2, <3>1
    <2> QED
      BY <1>7, <2>1, <2>2, <2>3 DEF Worker, Program
  <1>8. ASSUME NEW r \in Requests, Cancel(r) PROVE SucceededInstalled'
    BY <1>2, <1>8 DEF Cancel
  <1>9. CASE Crash
    BY <1>2, <1>9 DEF Crash, Fresh
  <1>10. CASE Load
    <2>1. disk \in Status /\ memory' = Recovered(disk) /\ disk' = Recovered(disk)
          /\ plan' = plan /\ installed' = installed
      BY <1>10 DEF Load, Inductive, TypeOK
    <2> QED
      BY <1>2, <2>1, RecoveredStatus
  <1> QED
    BY <1>3, <1>4, <1>5, <1>7, <1>8, <1>9, <1>10 DEF Next

(* A request is reported succeeded only when each bundle of its plan was   *)
(* installed, by it or by an earlier request of the same selection.        *)
THEOREM SucceededHolds == Spec => []SucceededInstalled
  <1>1. Init => SucceededInstalled
    BY DEF Init, Fresh, SucceededInstalled, Carried
  <1>2. Inductive /\ SucceededInstalled /\ [Next]_vars => SucceededInstalled'
    BY SucceededStep
  <1> QED
    BY <1>1, <1>2, InductiveHolds, PTL DEF Spec

(***************************************************************************)
(* Progress with a selection.                                              *)
(***************************************************************************)

(* While the file holds the status, no step takes progress from it.        *)
LEMMA ProgressStep ==
    ASSUME Inductive, InStep, [Next]_vars
    PROVE  disk'.ids = disk.ids => disk.completed \subseteq disk'.completed
  <1>1. \A r \in Requests : Live(r) => up
    BY NothingAssumption DEF Inductive, Serving
  <1>2. \A status : SetState(status) => disk' = status \/ disk' = disk
    BY DEF SetState
  <1>3. CASE UNCHANGED vars
    BY <1>3 DEF vars
  <1>4. ASSUME NEW p \in Plans, Start(p)
        PROVE  disk'.ids = disk.ids => disk.completed \subseteq disk'.completed
    BY <1>2, <1>4 DEF Start, Progress, InStep
  <1>5. ASSUME NEW r \in Requests, Worker(r) \/ Program(r)
        PROVE  disk.completed \subseteq disk'.completed
    <2>1. up /\ disk = memory /\ memory \in Status
      BY <1>1, <1>5
      DEF Worker, Program, NothingToRun, ProbeNetwork, AwaitNetwork, BeginOperations, SkipDone,
          CancelledBetween, BeginOperation, EnterEngine, Spawn, CancelledWithin, RecordDone,
          Finish, ClearActive, Succeed, FailOperation, Conclude, Goto, Live, InStep, Inductive, TypeOK
    <2>2. \A step, phase : Conclude(r, step, phase) => disk'.completed = disk.completed
      BY <1>2, <2>1 DEF Conclude, Status
    <2>3. CASE \/ NothingToRun(r) \/ AwaitNetwork(r) \/ CancelledBetween(r) \/ CancelledWithin(r)
               \/ Finish(r) \/ FailOperation(r)
      BY <2>2, <2>3
      DEF NothingToRun, AwaitNetwork, CancelledBetween, CancelledWithin, Finish, FailOperation
    <2>4. CASE \/ \E network \in {"connected", "offline", "unknown"} : ProbeNetwork(r, network)
               \/ BeginOperations(r) \/ BeginOperation(r)
      <3>1. PICK status : SetState(status) /\ status.completed = memory.completed
        BY <2>1, <2>4 DEF ProbeNetwork, BeginOperations, BeginOperation, Status
      <3> QED
        BY <1>2, <2>1, <3>1
    <2>5. CASE RecordDone(r)
      <3> DEFINE status == [memory EXCEPT !.completed = @ \cup {Operation(r).id}, !.current = None]
      <3>1. SetState(status)
        BY <2>5 DEF RecordDone
      <3>2. memory.completed \subseteq status.completed
        BY <2>1 DEF Status
      <3> QED
        BY <1>2, <2>1, <3>1, <3>2
    <2>6. CASE SkipDone(r) \/ EnterEngine(r) \/ Spawn(r) \/ ClearActive(r) \/ Succeed(r)
      BY <2>6 DEF SkipDone, EnterEngine, Spawn, ClearActive, Succeed
    <2> QED
      BY <1>5, <2>3, <2>4, <2>5, <2>6 DEF Worker, Program
  <1>6. ASSUME NEW r \in Requests, Cancel(r) PROVE disk' = disk
    BY <1>6 DEF Cancel
  <1>7. CASE Crash
    BY <1>7 DEF Crash
  <1>8. CASE Load
    BY <1>8, RecoveredStatus DEF Load, Inductive, TypeOK
  <1> QED
    BY <1>3, <1>4, <1>5, <1>6, <1>7, <1>8 DEF Next

(* Progress with a selection survives crashes and restarts until another   *)
(* selection is started, unless a write has failed.                        *)
THEOREM ProgressKeptHolds == Spec => ProgressKept
  <1>1. Inductive /\ [Next]_vars =>
           [InStep /\ disk'.ids = disk.ids => disk.completed \subseteq disk'.completed]_vars
    BY ProgressStep
  <1> QED
    BY <1>1, InductiveHolds, PTL DEF Spec, ProgressKept

(* The file falls behind only when a write fails.                          *)
THEOREM InStepHolds == ASSUME ~WritesFail PROVE Spec => []InStep
  <1>1. Init => InStep
    BY DEF Init, InStep
  <1>2. Inductive /\ InStep /\ [Next]_vars => InStep'
    <2>1. SUFFICES ASSUME Inductive, InStep, [Next]_vars PROVE InStep'
      OBVIOUS
    <2>2. \A status : SetState(status) => disk' = memory'
      BY DEF SetState
    <2>3. CASE UNCHANGED vars
      BY <2>1, <2>3 DEF vars, slotVars, InStep
    <2>4. ASSUME NEW p \in Plans, Start(p) PROVE InStep'
      BY <2>2, <2>4 DEF Start, InStep
    <2>5. ASSUME NEW r \in Requests, Worker(r) \/ Program(r) PROVE InStep'
      <3>1. \/ disk' = memory'
            \/ SkipDone(r) \/ EnterEngine(r) \/ Spawn(r) \/ ClearActive(r) \/ Succeed(r)
        BY <2>2, <2>5
        DEF Worker, Program, NothingToRun, ProbeNetwork, AwaitNetwork, BeginOperations,
            CancelledBetween, BeginOperation, CancelledWithin, RecordDone, Finish,
            FailOperation, Conclude
      <3>2. CASE SkipDone(r) \/ EnterEngine(r) \/ Spawn(r) \/ ClearActive(r) \/ Succeed(r)
        BY <2>1, <3>2 DEF SkipDone, EnterEngine, Spawn, ClearActive, Succeed, slotVars, InStep
      <3> QED
        BY <3>1, <3>2 DEF InStep
    <2>6. ASSUME NEW r \in Requests, Cancel(r) PROVE InStep'
      BY <2>1, <2>6 DEF Cancel, InStep
    <2>7. CASE Crash
      BY <2>7 DEF Crash, InStep
    <2>8. CASE Load
      BY <2>8 DEF Load, InStep
    <2> QED
      BY <2>1, <2>3, <2>4, <2>5, <2>6, <2>7, <2>8 DEF Next
  <1> QED
    BY <1>1, <1>2, InductiveHolds, PTL DEF Spec
-----------------------------------------------------------------------------
(***************************************************************************)
(* The planner.                                                            *)
(***************************************************************************)

(* What the catalogue says of a bundle it knows.                           *)
LEMMA Catalogued ==
    /\ "flatpak-runtime" \notin Known
    /\ \A id \in Known :
          /\ Item(id).size \in Nat /\ Item(id).rank \in Nat
          /\ Kind(id) \in {"oci", "flatpak", "external"}
  <1>1. \A bundle \in Catalog :
            /\ bundle.id # "flatpak-runtime"
            /\ bundle.size \in Nat /\ bundle.rank \in Nat
            /\ bundle.kind \in {"oci", "flatpak", "external"}
    BY DEF Catalog, Bundle
  <1>2. \A id \in Known : Item(id) \in Catalog
    BY DEF Known, Item
  <1>3. QED
    BY <1>1, <1>2 DEF Known, Kind

(* A bundle more takes its size more.                                      *)
LEMMA SpaceGrows ==
    ASSUME NEW S, NEW id \in Known, id \notin S, IsFiniteSet(Space(S))
    PROVE  /\ IsFiniteSet(Space(S \cup {id}))
           /\ Cardinality(Space(S \cup {id})) = Cardinality(Space(S)) + Item(id).size
  <1> DEFINE size == Item(id).size
             own == {id} \X (1 .. size)
  <1>1. size \in Nat
    BY Catalogued
  <1> HIDE DEF size
  <1>2. IsFiniteSet(own) /\ Cardinality(own) = size
    <2>1. IsFiniteSet({id}) /\ Cardinality({id}) = 1
      BY FS_Singleton
    <2>2. IsFiniteSet(1 .. size) /\ Cardinality(1 .. size) = size
      BY <1>1, FS_Interval
    <2>3. IsFiniteSet(own) /\ Cardinality(own) = Cardinality({id}) * Cardinality(1 .. size)
      BY <2>1, <2>2, FS_Product
    <2>4. QED
      BY <1>1, <2>1, <2>2, <2>3
  <1>3. Space(S \cup {id}) = Space(S) \cup own
    BY DEF Space, size
  <1>4. Space(S) \cap own = {}
    <2>1. \A e \in Space(S) : e[1] # id
      BY DEF Space
    <2>2. \A e \in own : e[1] = id
      OBVIOUS
    <2>3. QED
      BY <2>1, <2>2
  <1> HIDE DEF own
  <1>5. /\ IsFiniteSet(Space(S) \cup own)
        /\ Cardinality(Space(S) \cup own) = Cardinality(Space(S)) + Cardinality(own) - Cardinality(Space(S) \cap own)
    BY <1>2, FS_Union
  <1>6. Cardinality(Space(S) \cap own) = 0 /\ Cardinality(Space(S)) \in Nat
    BY <1>4, FS_EmptySet, FS_CardinalityType
  <1>7. Cardinality(Space(S) \cup own) = Cardinality(Space(S)) + size
    BY <1>1, <1>2, <1>5, <1>6
  <1>8. QED
    BY <1>3, <1>5, <1>7 DEF size

(* What the loops have passed.                                            *)
LEMMA BeforeFacts ==
    ASSUME NEW S, NEW s \in Seq(S)
    PROVE  /\ Before(s, 1) = {}
           /\ Before(s, Len(s) + 1) = ToSet(s)
           /\ \A n \in Nat \ {0} : Before(s, n + 1) = Before(s, n) \cup {s[n]}
           /\ \A n \in Nat \ {0} : n <= Len(s) + 1 => Before(s, n) \subseteq ToSet(s)
  <1>1. DOMAIN s = 1 .. Len(s) /\ Len(s) \in Nat
    OBVIOUS
  <1>2. Before(s, 1) = {}
    BY DEF Before
  <1>3. Before(s, Len(s) + 1) = ToSet(s)
    <2>1. 1 .. Len(s) + 1 - 1 = 1 .. Len(s)
      BY <1>1
    <2>2. QED
      BY <1>1, <2>1 DEF Before, ToSet
  <1>4. ASSUME NEW n \in Nat \ {0}
        PROVE  /\ Before(s, n + 1) = Before(s, n) \cup {s[n]}
               /\ n <= Len(s) + 1 => Before(s, n) \subseteq ToSet(s)
    <2>1. 1 .. (n + 1) - 1 = (1 .. n - 1) \cup {n}
      OBVIOUS
    <2>2. n <= Len(s) + 1 => 1 .. n - 1 \subseteq DOMAIN s
      BY <1>1
    <2>3. QED
      BY <2>1, <2>2 DEF Before, ToSet
  <1>5. QED
    BY <1>2, <1>3, <1>4

(* A list that grows by one element.                                       *)
LEMMA AppendFacts ==
    ASSUME NEW S, NEW s \in Seq(S), NEW x \in S
    PROVE  /\ Append(s, x) \in Seq(S)
           /\ DOMAIN Append(s, x) = DOMAIN s \cup {Len(s) + 1}
           /\ Append(s, x)[Len(s) + 1] = x
           /\ \A i \in DOMAIN s : Append(s, x)[i] = s[i] /\ i # Len(s) + 1
           /\ ToSet(Append(s, x)) = ToSet(s) \cup {x}
  <1>1. /\ Append(s, x) \in Seq(S)
        /\ DOMAIN Append(s, x) = DOMAIN s \cup {Len(s) + 1}
        /\ Append(s, x)[Len(s) + 1] = x
        /\ \A i \in DOMAIN s : Append(s, x)[i] = s[i] /\ i # Len(s) + 1
    OBVIOUS
  <1>2. ToSet(Append(s, x)) = ToSet(s) \cup {x}
    BY <1>1 DEF ToSet
  <1>3. QED
    BY <1>1, <1>2

LEMMA RequestFacts ==
    ASSUME PlannerTypeOK
    PROVE  request.ids \in Seq(Asked) /\ request.profile \in 0 .. 3 /\ request.disk \in Nat
  <1>1. /\ request.ids \in BoundedSeq(Asked, MaxAsked)
        /\ request.profile \in 0 .. 3 /\ request.disk \in Disk
    BY DEF PlannerTypeOK, ProvisionRequest
  <1>2. PICK m \in 0 .. MaxAsked : request.ids \in [1 .. m -> Asked]
    BY <1>1 DEF BoundedSeq, SeqOf
  <1>3. m \in Nat
    BY <1>2, RequestAssumption
  <1>4. request.ids \in Seq(Asked)
    BY <1>2, <1>3
  <1>5. QED
    BY <1>1, <1>4, RequestAssumption

LEMMA PlannerInitInductive == PlannerInit => PlannerInductive
  <1> SUFFICES ASSUME PlannerInit PROVE PlannerInductive
    OBVIOUS
  <1>1. PlannerTypeOK
    BY DEF PlannerInit, PlannerTypeOK, Errors
  <1>2. request.ids \in Seq(Asked)
    BY <1>1, RequestFacts
  <1>3. ToSet(selected) = {} /\ DOMAIN selected = {}
    BY DEF PlannerInit, ToSet
  <1>4. Chosen
    <2>1. Before(request.ids, position) = {} /\ position <= Len(request.ids) + 1
      BY <1>2, BeforeFacts DEF PlannerInit
    <2>2. QED
      BY <1>3, <2>1 DEF PlannerInit, Chosen
  <1>5. QED
    BY <1>1, <1>4 DEF PlannerInit, PlannerInductive, Summing, Listing, Judged, Planned

(* The request is not changed, and with it what may be planned for it.     *)
LEMMA RequestKept ==
    ASSUME UNCHANGED request
    PROVE  Wanted' = Wanted /\ (Admissible' <=> Admissible)
  <1>1. Wanted' = Wanted
    BY DEF Wanted
  <1>2. Admissible' <=> Admissible
    BY <1>1 DEF Admissible
  <1>3. QED
    BY <1>1, <1>2

(* The operations of the same selection cover the same.                    *)
LEMMA CoverKept ==
    ASSUME NEW S, UNCHANGED <<request, selected, operations, external>>
    PROVE  Cover(S)' <=> Cover(S)
  <1>1. \A id : OperationOf(id)' = OperationOf(id) /\ At(id)' = At(id)
    BY DEF OperationOf, At
  <1>2. Holds("flatpak")' <=> Holds("flatpak")
    BY DEF Holds
  <1>3. QED
    BY <1>1, <1>2 DEF Cover

(* A refusal, if it is justified.                                          *)
LEMMA RefusedInductive ==
    ASSUME PlannerInductive, NEW reason \in Errors \ {"pending", "none"}, Return(reason),
           Admissible => reason = "ConsentRequired"
    PROVE  PlannerInductive'
  <1>1. /\ UNCHANGED <<request, position, selected, estimate, operations, external>>
        /\ place' = "answered" /\ error' = reason
    BY DEF Return, draft
  <1>2. PlannerTypeOK'
    BY <1>1 DEF PlannerInductive, PlannerTypeOK
  <1>3. Chosen'
    BY <1>1 DEF PlannerInductive, Chosen
  <1>4. Summing' /\ Listing'
    BY <1>1 DEF Summing, Listing
  <1>5. Judged'
    BY <1>1, RequestKept DEF Judged, Planned
  <1>6. QED
    BY <1>2, <1>3, <1>4, <1>5 DEF PlannerInductive

LEMMA CalledInductive ==
    ASSUME PlannerInductive, PlanCalled \/ StartCalled \/ ConsentRequired \/ NoBundles
    PROVE  PlannerInductive'
  <1>1. CASE PlanCalled \/ StartCalled
    <2>1. /\ UNCHANGED <<request, position, selected, estimate, operations, external, error>>
          /\ place = "called" /\ place' = "select"
      BY <1>1 DEF PlanCalled, StartCalled, draft
    <2>2. PlannerTypeOK'
      BY <2>1 DEF PlannerInductive, PlannerTypeOK
    <2>3. Chosen'
      BY <2>1 DEF PlannerInductive, Chosen
    <2>4. Summing' /\ Listing' /\ Judged'
      BY <2>1 DEF PlannerInductive, PlannerTypeOK, Summing, Listing, Judged, Planned
    <2>5. QED
      BY <2>2, <2>3, <2>4 DEF PlannerInductive
  <1>2. CASE ConsentRequired
    BY <1>2, RefusedInductive DEF ConsentRequired, Errors
  <1>3. CASE NoBundles
    <2>1. Wanted = {}
      BY <1>3 DEF NoBundles, Wanted, ToSet
    <2>2. ~Admissible
      BY <2>1 DEF Admissible
    <2>3. QED
      BY <1>3, <2>2, RefusedInductive DEF NoBundles, Errors
  <1>4. QED
    BY <1>1, <1>2, <1>3

LEMMA LookInductive ==
    ASSUME PlannerInductive, NEW id \in Asked,
           UnknownBundle(id) \/ Repeated(id) \/ ProfileTooSmall(id) \/ Select(id)
    PROVE  PlannerInductive'
  <1>1. PlannerTypeOK /\ Chosen /\ Summing /\ Listing
    BY DEF PlannerInductive
  <1>2. /\ place = "select" /\ position \in 1 .. Len(request.ids)
        /\ id = request.ids[position]
    BY <1>1 DEF UnknownBundle, Repeated, ProfileTooSmall, Select, Looking, PlannerTypeOK
  <1>3. request.ids \in Seq(Asked) /\ request.profile \in 0 .. 3
    BY <1>1, RequestFacts
  <1>4. id \in Wanted
    BY <1>2, <1>3 DEF Wanted, ToSet
  <1>5. position \in Nat \ {0} /\ position + 1 <= Len(request.ids) + 1
    BY <1>2, <1>3
  <1>6. Before(request.ids, position + 1) = ToSet(selected) \cup {id}
    BY <1>1, <1>2, <1>3, <1>5, BeforeFacts DEF Chosen
  <1>7. CASE UnknownBundle(id)
    <2>1. ~Admissible
      BY <1>4, <1>7 DEF UnknownBundle, Admissible
    <2>2. QED
      BY <1>7, <2>1, RefusedInductive DEF UnknownBundle, Errors
  <1>8. CASE ProfileTooSmall(id)
    <2>1. id \in Known /\ request.profile < Item(id).rank
      BY <1>8 DEF ProfileTooSmall
    <2>2. ~(Item(id).rank <= request.profile)
      BY <1>3, <2>1, Catalogued
    <2>3. ~Admissible
      BY <1>4, <2>2 DEF Admissible
    <2>4. QED
      BY <1>8, <2>3, RefusedInductive DEF ProfileTooSmall, Errors
  <1>9. ASSUME UNCHANGED <<request, place, estimate, operations, external, error>>,
               position' = position + 1,
               selected' \in Seq(Asked \cap Known),
               ToSet(selected') = ToSet(selected) \cup {id},
               Item(id).rank <= request.profile,
               \A i, k \in DOMAIN selected' : selected'[i] = selected'[k] => i = k
        PROVE  PlannerInductive'
    <2>1. PlannerTypeOK'
      BY <1>1, <1>5, <1>9 DEF PlannerTypeOK
    <2>2. Chosen'
      BY <1>1, <1>2, <1>5, <1>6, <1>9 DEF Chosen
    <2>3. Summing' /\ Listing'
      BY <1>1, <1>2, <1>9 DEF Summing, Listing
    <2>4. Judged'
      BY <1>2, <1>9 DEF Judged, Planned
    <2>5. QED
      BY <2>1, <2>2, <2>3, <2>4 DEF PlannerInductive
  <1>10. CASE Repeated(id)
    <2>1. id \in ToSet(selected)
      BY <1>1, <1>10 DEF Repeated, Contains, ToSet, PlannerTypeOK
    <2>2. Item(id).rank <= request.profile
      BY <1>1, <2>1 DEF Chosen
    <2>3. /\ UNCHANGED <<request, place, selected, estimate, operations, external, error>>
          /\ position' = position + 1
      BY <1>10 DEF Repeated, draft
    <2>4. ToSet(selected') = ToSet(selected) \cup {id}
      BY <2>1, <2>3
    <2>5. QED
      BY <1>1, <1>9, <2>2, <2>3, <2>4 DEF Chosen, PlannerTypeOK
  <1>11. CASE Select(id)
    <2>1. /\ selected' = Append(selected, id) /\ position' = position + 1
          /\ UNCHANGED <<request, place, estimate, operations, external, error>>
          /\ id \in Asked \cap Known
      BY <1>11 DEF Select
    <2>2. selected \in Seq(Asked \cap Known)
      BY <1>1 DEF PlannerTypeOK
    <2>3. /\ selected' \in Seq(Asked \cap Known)
          /\ DOMAIN selected' = DOMAIN selected \cup {Len(selected) + 1}
          /\ selected'[Len(selected) + 1] = id
          /\ \A i \in DOMAIN selected : selected'[i] = selected[i] /\ i # Len(selected) + 1
          /\ ToSet(selected') = ToSet(selected) \cup {id}
      BY <2>1, <2>2, AppendFacts
    <2>4. \A i \in DOMAIN selected : selected[i] # id
      BY <1>11, <2>2 DEF Select, Contains
    <2>5. \A i, k \in DOMAIN selected : selected[i] = selected[k] => i = k
      BY <1>1 DEF Chosen
    <2>6. \A i, k \in DOMAIN selected' : selected'[i] = selected'[k] => i = k
      BY <2>3, <2>4, <2>5
    <2>7. Item(id).rank <= request.profile
      BY <1>11 DEF Select
    <2>8. QED
      BY <1>9, <2>1, <2>3, <2>6, <2>7
  <1>12. QED
    BY <1>7, <1>8, <1>10, <1>11

(* What is known when the estimate is complete.                            *)
LEMMA SummedFacts ==
    ASSUME PlannerInductive, Summed
    PROVE  /\ Wanted = ToSet(selected)
           /\ Admissible <=> Fits /\ (Holds("oci") => request.image \in Pinned)
  <1>1. PlannerTypeOK /\ Chosen /\ Summing
    BY DEF PlannerInductive
  <1>2. selected \in Seq(Asked \cap Known) /\ position \in Nat /\ request.disk \in Nat
    BY <1>1, RequestFacts DEF PlannerTypeOK
  <1>3. position = Len(selected) + 1
    BY <1>1, <1>2 DEF Summed, Chosen
  <1>4. Wanted = ToSet(selected) /\ Wanted # {}
    BY <1>1 DEF Summed, Chosen
  <1>5. Before(selected, position) = Wanted
    BY <1>2, <1>3, <1>4, BeforeFacts
  <1>6. estimate = Cardinality(Space(Wanted)) /\ estimate \in Nat
    BY <1>1, <1>5 DEF Summed, Summing, PlannerTypeOK
  <1>7. Cardinality(Space(Wanted)) <= request.disk - 4 <=> Fits
    BY <1>2, <1>6 DEF Fits, Reserve
  <1>8. Wanted \subseteq Known
    BY <1>2, <1>4 DEF ToSet
  <1>9. \A id \in Wanted : Item(id).rank <= request.profile
    BY <1>1, <1>4 DEF Chosen
  <1>10. (\E id \in Wanted : Kind(id) = "oci") <=> Holds("oci")
    BY <1>4 DEF Holds
  <1>11. QED
    BY <1>4, <1>7, <1>8, <1>9, <1>10 DEF Admissible

LEMMA SumInductive ==
    ASSUME PlannerInductive,
           Selected \/ AddEstimate \/ InsufficientDisk \/ EnvironmentImageRequired
           \/ InvalidEnvironmentImage
    PROVE  PlannerInductive'
  <1>1. PlannerTypeOK /\ Chosen /\ Summing /\ Listing
    BY DEF PlannerInductive
  <1>2. /\ selected \in Seq(Asked \cap Known) /\ Len(selected) \in Nat
        /\ position \in Nat \ {0} /\ estimate \in Nat
    BY <1>1 DEF PlannerTypeOK
  <1>3. CASE Selected
    <2>1. /\ UNCHANGED <<request, selected, estimate, operations, external, error>>
          /\ place = "select" /\ place' = "sum" /\ position' = 1
          /\ request.ids # <<>> /\ position > Len(request.ids)
      BY <1>3 DEF Selected, draft
    <2>2. request.ids \in Seq(Asked)
      BY <1>1, RequestFacts
    <2>3. position = Len(request.ids) + 1
      BY <1>1, <1>2, <2>1, <2>2 DEF Chosen
    <2>4. ToSet(selected) = Wanted
      BY <1>1, <2>1, <2>2, <2>3, BeforeFacts DEF Chosen, Wanted
    <2>5. Wanted # {}
      <3>1. 1 \in DOMAIN request.ids
        BY <2>1, <2>2
      <3>2. QED
        BY <3>1 DEF Wanted, ToSet
    <2>6. PlannerTypeOK'
      BY <1>1, <2>1 DEF PlannerTypeOK
    <2>7. Chosen'
      <3>1. Wanted' = Wanted /\ 1 <= Len(selected) + 1
        BY <1>2, <2>1, RequestKept
      <3>2. QED
        BY <1>1, <2>1, <2>4, <2>5, <3>1 DEF Chosen
    <2>8. Summing'
      <3>1. Before(selected, 1) = {}
        BY <1>2, BeforeFacts
      <3>2. Space(Before(selected, 1)) = {}
        BY <3>1 DEF Space
      <3>3. estimate' = 0 /\ IsFiniteSet({}) /\ Cardinality({}) = 0
        BY <1>1, <2>1, FS_EmptySet DEF Summing
      <3>4. QED
        BY <2>1, <3>2, <3>3 DEF Summing
    <2>9. Listing' /\ Judged'
      BY <1>1, <2>1 DEF Listing, Judged, Planned
    <2>10. QED
      BY <2>6, <2>7, <2>8, <2>9 DEF PlannerInductive
  <1>4. CASE AddEstimate
    <2>1. /\ UNCHANGED <<request, place, selected, operations, external, error>>
          /\ place = "sum" /\ position <= Len(selected) /\ position' = position + 1
          /\ estimate' = estimate + Item(selected[position]).size
      BY <1>4 DEF AddEstimate
    <2> DEFINE id == selected[position]
               passed == Before(selected, position)
    <2>2. id \in Known /\ position \in DOMAIN selected
      BY <1>2, <2>1
    <2>3. id \notin passed
      BY <1>1, <1>2, <2>1 DEF Chosen, Before
    <2>4. Before(selected, position + 1) = passed \cup {id}
      BY <1>2, BeforeFacts
    <2>5. IsFiniteSet(Space(passed)) /\ estimate = Cardinality(Space(passed))
      BY <1>1, <2>1 DEF Summing
    <2> HIDE DEF passed
    <2>6. /\ IsFiniteSet(Space(passed \cup {id}))
          /\ estimate' = Cardinality(Space(passed \cup {id}))
      BY <2>1, <2>2, <2>3, <2>5, SpaceGrows
    <2>7. estimate' \in Nat /\ position' \in Nat \ {0}
      BY <1>2, <2>1, <2>2, Catalogued
    <2>8. PlannerTypeOK'
      BY <1>1, <2>1, <2>7 DEF PlannerTypeOK
    <2>9. Chosen'
      <3>1. position' <= Len(selected) + 1 /\ Wanted' = Wanted
        BY <1>2, <2>1, RequestKept
      <3>2. QED
        BY <1>1, <2>1, <3>1 DEF Chosen
    <2>10. Summing'
      BY <2>1, <2>4, <2>6 DEF Summing
    <2>11. Listing' /\ Judged'
      BY <1>1, <2>1 DEF Listing, Judged, Planned
    <2>12. QED
      BY <2>8, <2>9, <2>10, <2>11 DEF PlannerInductive
  <1>5. CASE InsufficientDisk
    <2>1. ~Admissible
      BY <1>5, SummedFacts DEF InsufficientDisk
    <2>2. QED
      BY <1>5, <2>1, RefusedInductive DEF InsufficientDisk, Errors
  <1>6. CASE EnvironmentImageRequired
    <2>1. ~Admissible
      BY <1>6, SummedFacts, ImageAssumption DEF EnvironmentImageRequired
    <2>2. QED
      BY <1>6, <2>1, RefusedInductive DEF EnvironmentImageRequired, Errors
  <1>7. CASE InvalidEnvironmentImage
    <2>1. ~Admissible
      BY <1>7, SummedFacts DEF InvalidEnvironmentImage
    <2>2. QED
      BY <1>7, <2>1, RefusedInductive DEF InvalidEnvironmentImage, Errors
  <1>8. QED
    BY <1>3, <1>4, <1>5, <1>6, <1>7

(* Nothing is listed but the remote, if it is needed.                      *)
LEMMA AcceptedInductive == ASSUME PlannerInductive, Accepted PROVE PlannerInductive'
  <1>1. PlannerTypeOK /\ Chosen
    BY DEF PlannerInductive
  <1>2. /\ UNCHANGED <<request, selected, estimate, external, error>>
        /\ place = "sum" /\ place' = "list" /\ position' = 1 /\ operations' = Remotes
    BY DEF Accepted, Summed
  <1>3. Admissible'
    <2>1. Admissible
      BY SummedFacts DEF Accepted
    <2>2. QED
      BY <1>2, <2>1, RequestKept
  <1>4. Remotes = IF Holds("flatpak") THEN <<AddRemote>> ELSE <<>>
    BY DEF Remotes
  <1>5. PlannerTypeOK'
    <2> DEFINE Listable == [id : Known \cup {"flatpak-runtime"}, image : Images \cup {NoImage}]
    <2>1. AddRemote \in Listable
      BY DEF AddRemote
    <2> HIDE DEF Listable
    <2>2. <<AddRemote>> \in Seq(Listable) /\ <<>> \in Seq(Listable)
      BY <2>1
    <2>3. operations' \in Seq(Listable)
      BY <1>2, <1>4, <2>2
    <2>4. QED
      BY <1>1, <1>2, <2>3 DEF PlannerTypeOK, Listable
  <1>6. Chosen'
    <2>1. Wanted' = Wanted /\ 1 <= Len(selected) + 1
      BY <1>1, <1>2, RequestKept DEF PlannerTypeOK
    <2>2. QED
      BY <1>1, <1>2, <2>1 DEF Chosen
  <1>7. Cover({})'
    <2>1. /\ \A i \in DOMAIN operations' : i = 1 /\ operations'[i] = AddRemote
          /\ Holds("flatpak") => 1 \in DOMAIN operations'
      BY <1>2, <1>4
    <2>2. Holds("flatpak")' <=> Holds("flatpak")
      BY <1>2 DEF Holds
    <2>3. ToSet(external') = {}
      BY <1>2 DEF PlannerInductive, Listing, ToSet
    <2>4. Holds("flatpak")' => 1 \in At("flatpak-runtime")'
      BY <2>1, <2>2 DEF At, AddRemote
    <2>5. QED
      BY <2>1, <2>3, <2>4 DEF Cover
  <1>8. Before(selected, 1) = {}
    BY <1>1, BeforeFacts DEF PlannerTypeOK
  <1>9. Summing' /\ Listing' /\ Judged'
    BY <1>1, <1>2, <1>3, <1>7, <1>8 DEF PlannerTypeOK, Summing, Listing, Judged, Planned
  <1>10. QED
    BY <1>5, <1>6, <1>9 DEF PlannerInductive

(* The third loop: one bundle more is covered.                             *)
LEMMA ListInductive ==
    ASSUME PlannerInductive, AddOperation \/ AddExternal,
           NEW id, id = selected[position],
           NEW S, S = Before(selected, position)
    PROVE  PlannerInductive'
  <1>1. PlannerTypeOK /\ Chosen /\ Listing
    BY DEF PlannerInductive
  <1>2. /\ UNCHANGED <<request, place, selected, estimate, error>>
        /\ place = "list" /\ position <= Len(selected) /\ position' = position + 1
    BY DEF AddOperation, AddExternal
  <1>3. /\ selected \in Seq(Asked \cap Known) /\ Len(selected) \in Nat
        /\ position \in Nat \ {0}
    BY <1>1 DEF PlannerTypeOK
  <1>4. id \in Asked \cap Known /\ id \notin S /\ id # "flatpak-runtime" /\ S \subseteq Known
    <2>1. id \in Asked \cap Known
      BY <1>2, <1>3
    <2>2. id \notin S
      BY <1>1, <1>2, <1>3 DEF Chosen, Before
    <2>3. S \subseteq ToSet(selected)
      BY <1>2, <1>3, BeforeFacts
    <2>4. S \subseteq Known
      BY <1>3, <2>3 DEF ToSet
    <2>5. QED
      BY <2>1, <2>2, <2>4, Catalogued
  <1>5. Before(selected, position + 1) = S \cup {id}
    BY <1>3, BeforeFacts
  <1>6. Admissible /\ Cover(S)
    BY <1>1, <1>2 DEF Listing
  <1>7. ASSUME Cover(S \cup {id})',
               external' \in Seq(Asked),
               operations' \in Seq([id : Known \cup {"flatpak-runtime"},
                                    image : Images \cup {NoImage}])
        PROVE  PlannerInductive'
    <2>1. PlannerTypeOK'
      BY <1>1, <1>2, <1>3, <1>7 DEF PlannerTypeOK
    <2>2. Wanted' = Wanted /\ Admissible' /\ position' <= Len(selected) + 1
      BY <1>2, <1>3, <1>6, RequestKept
    <2>3. Chosen'
      BY <1>1, <1>2, <2>2 DEF Chosen
    <2>4. Summing' /\ Judged'
      BY <1>1, <1>2 DEF PlannerTypeOK, Summing, Judged, Planned
    <2>5. Listing'
      BY <1>2, <1>5, <1>7, <2>2 DEF Listing
    <2>6. QED
      BY <2>1, <2>3, <2>4, <2>5 DEF PlannerInductive
  <1>8. \A x : OperationOf(x)' = OperationOf(x) /\ OperationOf(x).id = x
    BY <1>2 DEF OperationOf
  <1>9. Holds("flatpak")' <=> Holds("flatpak")
    BY <1>2 DEF Holds
  <1>10. AddRemote.id = "flatpak-runtime"
    BY DEF AddRemote
  <1> DEFINE Listable == [id : Known \cup {"flatpak-runtime"}, image : Images \cup {NoImage}]
  <1>11. operations \in Seq(Listable) /\ external \in Seq(Asked)
    BY <1>1 DEF PlannerTypeOK
  <1>12. CASE AddExternal
    <2>1. /\ external' = Append(external, id) /\ UNCHANGED operations
          /\ Kind(id) = "external"
      BY <1>12 DEF AddExternal
    <2>2. external' \in Seq(Asked) /\ ToSet(external') = ToSet(external) \cup {id}
      BY <1>4, <1>11, <2>1, AppendFacts
    <2>3. \A x : At(x)' = At(x)
      BY <2>1 DEF At
    <2>4. ToSet(external') = {x \in S \cup {id} : Kind(x) = "external"}
      BY <1>6, <2>1, <2>2 DEF Cover
    <2>5. Cover(S \cup {id})'
      BY <1>6, <1>8, <1>9, <2>1, <2>3, <2>4 DEF Cover
    <2>6. QED
      BY <1>7, <1>11, <2>1, <2>2, <2>5
  <1>13. CASE AddOperation
    <2>1. /\ operations' = Append(operations, OperationOf(id)) /\ UNCHANGED external
          /\ Kind(id) # "external"
      BY <1>13 DEF AddOperation
    <2>2. OperationOf(id) \in Listable
      <3>1. request.image \in Images \cup {NoImage}
        BY <1>1 DEF PlannerTypeOK, ProvisionRequest
      <3>2. QED
        BY <1>4, <3>1 DEF OperationOf
    <2> DEFINE n == Len(operations) + 1
    <2> HIDE DEF Listable
    <2>3. /\ operations' \in Seq(Listable)
          /\ DOMAIN operations' = DOMAIN operations \cup {n}
          /\ operations'[n] = OperationOf(id)
          /\ \A i \in DOMAIN operations : operations'[i] = operations[i] /\ i # n
      BY <1>11, <2>1, <2>2, AppendFacts
    <2> HIDE DEF n
    <2>4. \A i \in DOMAIN operations :
              operations[i] = AddRemote
              \/ \E x \in S : Kind(x) # "external" /\ operations[i] = OperationOf(x)
      BY <1>6 DEF Cover
    <2>5. \A i \in DOMAIN operations : operations[i].id # id
      BY <1>4, <1>8, <1>10, <2>4
    <2>6. \A i \in DOMAIN operations' :
              operations'[i] = AddRemote
              \/ \E x \in S \cup {id} : Kind(x) # "external" /\ operations'[i] = OperationOf(x)
      BY <2>1, <2>3, <2>4
    <2>7. \A i, k \in DOMAIN operations' : operations'[i].id = operations'[k].id => i = k
      <3>1. \A i, k \in DOMAIN operations : operations[i].id = operations[k].id => i = k
        BY <1>6 DEF Cover
      <3>2. QED
        BY <1>8, <2>3, <2>5, <3>1
    <2>8. \A x : At(x) \subseteq At(x)'
      BY <2>3 DEF At
    <2>9. At(id)' # {}
      BY <1>8, <2>3 DEF At
    <2>10. \A x \in S \cup {id} : Kind(x) # "external" => At(x)' # {}
      <3>1. \A x \in S : Kind(x) # "external" => At(x) # {}
        BY <1>6 DEF Cover
      <3>2. QED
        BY <2>8, <2>9, <3>1
    <2>11. Holds("flatpak")' => 1 \in At("flatpak-runtime")'
      BY <1>6, <1>9, <2>8 DEF Cover
    <2>12. ToSet(external') = {x \in S \cup {id} : Kind(x) = "external"}
      BY <1>6, <2>1 DEF Cover
    <2>13. Cover(S \cup {id})'
      BY <1>8, <2>6, <2>7, <2>10, <2>11, <2>12 DEF Cover
    <2>14. QED
      BY <1>7, <1>11, <2>1, <2>3, <2>13 DEF Listable
  <1>14. QED
    BY <1>12, <1>13

LEMMA ListedInductive == ASSUME PlannerInductive, Listed PROVE PlannerInductive'
  <1>1. PlannerTypeOK /\ Chosen /\ Listing
    BY DEF PlannerInductive
  <1>2. /\ UNCHANGED <<request, position, selected, estimate, operations, external>>
        /\ place = "list" /\ position > Len(selected)
        /\ place' = "answered" /\ error' = "none"
    BY DEF Listed, Return, draft
  <1>3. Before(selected, position) = Wanted /\ ToSet(selected) = Wanted
    <2>1. position = Len(selected) + 1
      BY <1>1, <1>2 DEF PlannerTypeOK, Chosen
    <2>2. QED
      BY <1>1, <1>2, <2>1, BeforeFacts DEF PlannerTypeOK, Chosen
  <1>4. Wanted' = Wanted /\ Admissible' /\ Cover(Wanted)'
    <2>1. Admissible /\ Cover(Wanted)
      BY <1>1, <1>2, <1>3 DEF Listing
    <2>2. Wanted' = Wanted /\ Admissible'
      BY <1>2, <2>1, RequestKept
    <2>3. ASSUME NEW T, Cover(T) PROVE Cover(T)'
      BY <1>2, <2>3, CoverKept
    <2>4. QED
      BY <2>1, <2>2, <2>3 DEF Cover
  <1>5. PlannerTypeOK'
    BY <1>1, <1>2 DEF PlannerTypeOK, Errors
  <1>6. Chosen' /\ Summing' /\ Listing'
    BY <1>1, <1>2 DEF Chosen, Summing, Listing
  <1>7. Judged'
    BY <1>2, <1>3, <1>4 DEF Judged, Planned
  <1>8. QED
    BY <1>5, <1>6, <1>7 DEF PlannerInductive

LEMMA PlannerNextInductive ==
    ASSUME PlannerInductive, [PlannerNext]_plannerVars PROVE PlannerInductive'
  <1>1. CASE UNCHANGED plannerVars
    <2>1. /\ UNCHANGED <<request, place, position, selected, estimate>>
          /\ UNCHANGED <<operations, external, error>>
      BY <1>1 DEF plannerVars, draft
    <2>2. Wanted' = Wanted /\ (Admissible' <=> Admissible)
      BY <2>1, RequestKept
    <2>3. \A S : Cover(S)' <=> Cover(S)
      BY <2>1, CoverKept
    <2>4. PlannerTypeOK' /\ Chosen' /\ Summing'
      BY <2>1 DEF PlannerInductive, PlannerTypeOK, Chosen, Summing, Wanted
    <2>5. Listing'
      BY <2>1, <2>2, <2>3 DEF PlannerInductive, Listing
    <2>6. Judged'
      BY <2>1, <2>2, <2>3 DEF PlannerInductive, Judged, Planned
    <2>7. QED
      BY <2>4, <2>5, <2>6 DEF PlannerInductive
  <1>2. CASE PlannerNext
    BY <1>2, CalledInductive, LookInductive, SumInductive, AcceptedInductive,
       ListInductive, ListedInductive DEF PlannerNext
  <1>3. QED
    BY <1>1, <1>2

(* The inductive invariant of the planner holds.                           *)
THEOREM PlannerInductiveHolds == PlannerSpec => []PlannerInductive
  <1>1. PlannerInductive /\ [PlannerNext]_plannerVars => PlannerInductive'
    BY PlannerNextInductive
  <1>2. QED
    BY <1>1, PlannerInitInductive, PTL DEF PlannerSpec

(* A request is planned exactly when it is admissible.                     *)
THEOREM PlannedHolds == PlannerSpec => []PlannedWhenAdmissible
  <1>1. PlannerInductive => PlannedWhenAdmissible
    BY DEF PlannerInductive, Judged, Planned, PlannedWhenAdmissible
  <1>2. QED
    BY <1>1, PlannerInductiveHolds, PTL

(* What Cover says of a plan, in the terms of the property.                *)
LEMMA CoverCovers == ASSUME PlannerInductive, Planned PROVE PlanCoversSelection
  <1>1. PlannerTypeOK /\ Admissible /\ ToSet(selected) = Wanted /\ Cover(Wanted)
    BY DEF PlannerInductive, Judged
  <1>2. Wanted \subseteq Known /\ "flatpak-runtime" \notin Wanted
    BY <1>1, Catalogued DEF Admissible
  <1>3. AddRemote.id = "flatpak-runtime" /\ \A x : OperationOf(x).id = x
    BY DEF AddRemote, OperationOf
  <1>4. \A i \in DOMAIN operations :
            operations[i] = AddRemote
            \/ \E x \in Wanted : Kind(x) # "external" /\ operations[i] = OperationOf(x)
    BY <1>1 DEF Cover
  <1>5. \A id \in Wanted : \A i \in At(id) :
            Kind(id) # "external" /\ operations[i] = OperationOf(id)
    BY <1>2, <1>3, <1>4 DEF At
  <1>6. ASSUME NEW id \in Wanted
        PROVE  Cardinality(At(id)) = IF Kind(id) = "external" THEN 0 ELSE 1
    <2>1. CASE Kind(id) = "external"
      <3>1. At(id) = {}
        BY <1>5, <2>1
      <3>2. QED
        BY <2>1, <3>1, FS_EmptySet
    <2>2. CASE Kind(id) # "external"
      <3>1. PICK i \in DOMAIN operations : operations[i].id = id
        BY <1>1, <2>2 DEF Cover, At
      <3>2. At(id) = {i}
        BY <1>1, <3>1 DEF Cover, At
      <3>3. QED
        BY <2>2, <3>2, FS_Singleton
    <2>3. QED
      BY <2>1, <2>2
  <1>7. \A op \in ToSet(operations) : op.id \in Wanted \cup {"flatpak-runtime"}
    BY <1>3, <1>4 DEF ToSet
  <1>8. ASSUME NEW id \in Wanted, Kind(id) = "oci", NEW i \in At(id)
        PROVE  operations[i].image \in Pinned
    <2>1. request.image \in Pinned
      BY <1>1, <1>8 DEF Admissible
    <2>2. operations[i] = OperationOf(id) /\ OperationOf(id).image = request.image
      BY <1>5, <1>8 DEF OperationOf
    <2>3. QED
      BY <2>1, <2>2
  <1>9. ASSUME NEW id \in Wanted, Kind(id) = "flatpak"
        PROVE  \E r \in At("flatpak-runtime") : \A i \in At(id) : r < i
    <2>1. 1 \in At("flatpak-runtime")
      BY <1>1, <1>9 DEF Cover, Holds
    <2>2. \A i \in At(id) : i \in Nat /\ i >= 1 /\ i # 1
      <3>1. DOMAIN operations = 1 .. Len(operations)
        BY <1>1 DEF PlannerTypeOK
      <3>2. operations[1].id = "flatpak-runtime"
        BY <2>1 DEF At
      <3>3. QED
        BY <1>2, <3>1, <3>2 DEF At
    <2>3. QED
      BY <2>1, <2>2
  <1>10. external # <<>> <=> \E id \in Wanted : Kind(id) = "external"
    <2>1. external = <<>> <=> ToSet(external) = {}
      <3>1. external \in Seq(Asked)
        BY <1>1 DEF PlannerTypeOK
      <3>2. external = <<>> <=> DOMAIN external = {}
        BY <3>1
      <3>3. QED
        BY <3>2 DEF ToSet
    <2>2. ToSet(external) = {id \in Wanted : Kind(id) = "external"}
      BY <1>1 DEF Cover
    <2>3. QED
      BY <2>1, <2>2
  <1>11. QED
    BY <1>6, <1>7, <1>8, <1>9, <1>10 DEF PlanCoversSelection

(* A plan covers the selection, in an order in which it can be carried out.*)
THEOREM PlanCoversHolds == PlannerSpec => []PlanCoversSelection
  <1>1. PlannerInductive => PlanCoversSelection
    BY CoverCovers DEF PlanCoversSelection
  <1>2. QED
    BY <1>1, PlannerInductiveHolds, PTL

(* What the planner answers a Start with is what PlanAssumption asks of a  *)
(* plan of the service: a selection that is not empty, and operations of   *)
(* bundles that are known.                                                 *)
THEOREM PlanUsableHolds ==
    PlannerSpec =>
        [](Planned => /\ PlanMade.ids \in Seq(Known) \ {<<>>}
                      /\ PlanMade.ops \in Seq([id : Known \cup {"flatpak-runtime"},
                                               image : Images \cup {NoImage}])
                      /\ PlanMade.external \in BOOLEAN)
  <1> DEFINE Usable ==
        /\ PlanMade.ids \in Seq(Known) \ {<<>>}
        /\ PlanMade.ops \in Seq([id : Known \cup {"flatpak-runtime"},
                                 image : Images \cup {NoImage}])
        /\ PlanMade.external \in BOOLEAN
  <1>1. ASSUME PlannerInductive, Planned PROVE Usable
    <2>1. PlannerTypeOK /\ ToSet(selected) = Wanted /\ Wanted # {}
      BY <1>1 DEF PlannerInductive, Judged, Admissible
    <2>2. selected \in Seq(Known)
      BY <2>1 DEF PlannerTypeOK
    <2>3. selected # <<>>
      BY <2>1 DEF ToSet
    <2>4. QED
      BY <2>1, <2>2, <2>3 DEF PlannerTypeOK, PlanMade
  <1>2. PlannerInductive => (Planned => Usable)
    BY <1>1
  <1>3. QED
    BY <1>2, PlannerInductiveHolds, PTL
=============================================================================
