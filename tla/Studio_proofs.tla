----------------------------- MODULE Studio_proofs -----------------------------
(* Theorems about the studio: the workload service (Work), for any names,  *)
(* definitions, jobs and lifetimes, and the order and the schedule of a    *)
(* plan's steps (StepPlan), for any plan on any machine.                   *)
EXTENDS Work, StepPlan, TLAPS

(***************************************************************************)
(* The workload service.                                                   *)
(***************************************************************************)

(* Podman leaves a container, or none, under each name.                    *)
LEMMA CommandType ==
    ASSUME TypeOK, NEW s \in Scopes, NEW ok \in BOOLEAN, Command(s, ok)
    PROVE  container' \in [Names -> Containers \cup {None}]
  <1> USE DEF TypeOK, Scopes, Requests, Containers, Become
  <1>1. CASE s.request.kind = "create"
    BY <1>1 DEF Command, RunNamed
  <1>2. CASE s.request.kind = "exec"
    BY <1>2 DEF Command, Exec
  <1>3. CASE s.request.kind = "stop"
    <2>1. PICK n \in Names : container[n] # None /\ container' = [container EXCEPT ![n] = [container[n] EXCEPT !.up = FALSE]]
      BY <1>3 DEF Command, StopNamed
    <2>2. container[n] \in Containers
      BY <2>1
    <2>3. [container[n] EXCEPT !.up = FALSE] \in Containers
      BY <2>2
    <2>4. QED
      BY <2>1, <2>3
  <1>4. CASE s.request.kind = "remove"
    BY <1>4 DEF Command, RemoveNamed
  <1>5. CASE s.request.kind \notin {"create", "exec", "stop", "remove"}
    BY <1>5 DEF Command
  <1>6. QED
    BY <1>1, <1>2, <1>3, <1>4, <1>5

(* Every step keeps the types.                                             *)
LEMMA TypeStep ==
    ASSUME TypeOK, Requested, Scoped, [Next]_vars
    PROVE  TypeOK'
  <1> USE LifeAssumption, PinnedAssumption DEF Record, definitionVars, registryVars,
          Registry!Accept, Registry!Drop, Registry!Begin, Registry!Ask,
          Registry!Store, Registry!Finish, Registry!Restart, Registry!Move, TypeOK,
          Requests, Scopes
  <1>1. ASSUME NEW n \in Names, NEW s \in Specs, Define(n, s) PROVE TypeOK'
    BY <1>1 DEF Define
  <1>2. ASSUME NEW n \in Names, NEW s \in Specs, EnsureDefined(n, s) PROVE TypeOK'
    BY <1>2 DEF EnsureDefined
  <1>3. ASSUME NEW n \in Names, NEW j \in Jobs, NEW kind \in Kinds, Submit(n, j, kind)
        PROVE  TypeOK'
    BY <1>3 DEF Submit
  <1>4. ASSUME NEW j \in Jobs, Cancel(j) PROVE TypeOK'
    BY <1>4 DEF Cancel
  <1>5. ASSUME NEW j \in Jobs, NoThread(j) PROVE TypeOK'
    BY <1>5 DEF NoThread
  <1>6. ASSUME NEW j \in Jobs, Begin(j) PROVE TypeOK'
    BY <1>6 DEF Begin
  <1>7. ASSUME NEW j \in Jobs, Spawn(j) PROVE TypeOK'
    BY <1>7 DEF Spawn, Requested
  <1>8. ASSUME NEW j \in Jobs, CancelBeforeSpawn(j) PROVE TypeOK'
    BY <1>8 DEF CancelBeforeSpawn
  <1>9. ASSUME NEW j \in Jobs, Persist(j) PROVE TypeOK'
    BY <1>9 DEF Persist
  <1>10. ASSUME NEW j \in Jobs, Finish(j) PROVE TypeOK'
    BY <1>10 DEF Finish, Verdict
  <1>11. ASSUME NEW j \in Jobs, WorkerFailed(j) PROVE TypeOK'
    BY <1>11 DEF WorkerFailed
  <1>12. ASSUME NEW j \in Jobs, CommandKilled(j) PROVE TypeOK'
    BY <1>12, CommandType DEF CommandKilled, Scoped
  <1>13. ASSUME NEW j \in Jobs, NEW ok \in BOOLEAN, CommandEnds(j, ok) PROVE TypeOK'
    BY <1>13, CommandType DEF CommandEnds
  <1>14. ASSUME Drift PROVE TypeOK'
    BY <1>14 DEF Drift
  <1>15. ASSUME Restart PROVE TypeOK'
    BY <1>15 DEF Restart
  <1>16. CASE UNCHANGED vars
    BY <1>16 DEF vars
  <1> HIDE DEF Record, definitionVars, registryVars, Registry!Accept, Registry!Drop,
          Registry!Begin, Registry!Ask, Registry!Store, Registry!Finish,
          Registry!Restart, Registry!Move, TypeOK, Requests, Scopes
  <1>17. QED
    BY <1>1, <1>2, <1>3, <1>4, <1>5, <1>6, <1>7, <1>8, <1>9, <1>10, <1>11, <1>12,
       <1>13, <1>14, <1>15, <1>16 DEF Next

(* A container is one that was there, or is made from the definition and   *)
(* in the lifetime of the command.                                         *)
Kept(n) ==
    container[n] # None /\ container'[n].spec = container[n].spec /\ container'[n].life = container[n].life

Made(n, s) ==
    n = s.request.name /\ container'[n].spec = s.request.spec /\ container'[n].life = s.life

LEMMA CommandEffect ==
    ASSUME TypeOK, NEW s \in Scopes, NEW ok \in BOOLEAN,
           Command(s, ok) \/ UNCHANGED container
    PROVE  \A n \in Names : container'[n] # None => Kept(n) \/ Made(n, s)
  <1> USE DEF TypeOK, Become, Kept, Made
  <1>1. s.request.name \in Names
    BY DEF Scopes, Requests
  <1>2. CASE Command(s, ok) /\ s.request.kind = "create"
    BY <1>1, <1>2 DEF Command, RunNamed
  <1>3. CASE Command(s, ok) /\ s.request.kind = "exec"
    BY <1>1, <1>3 DEF Command, Exec
  <1>4. CASE Command(s, ok) /\ s.request.kind = "stop"
    <2> DEFINE m == s.request.name
    <2>1. container[m] # None /\ container' = [container EXCEPT ![m] = [container[m] EXCEPT !.up = FALSE]]
      BY <1>4 DEF Command, StopNamed
    <2>2. container[m] \in Containers
      BY <1>1, <2>1
    <2>3. container'[m].spec = container[m].spec /\ container'[m].life = container[m].life
      BY <1>1, <2>1, <2>2 DEF Containers
    <2>4. QED
      BY <1>1, <2>1, <2>3
  <1>5. CASE Command(s, ok) /\ s.request.kind = "remove"
    BY <1>1, <1>5 DEF Command, RemoveNamed
  <1>6. CASE \/ UNCHANGED container
             \/ /\ Command(s, ok)
                /\ s.request.kind \notin {"create", "exec", "stop", "remove"}
    BY <1>6 DEF Command
  <1>7. QED
    BY <1>2, <1>3, <1>4, <1>5, <1>6

(* What clients were told is what is defined.                              *)
LEMMA DefinedStep ==
    ASSUME TypeOK, Defined, [Next]_vars
    PROVE  Defined'
  <1> USE PinnedAssumption, NothingAssumption DEF Record, definitionVars,
          registryVars, Registry!Accept, Registry!Drop, Registry!Begin,
          Registry!Ask, Registry!Store, Registry!Finish, Registry!Restart,
          Registry!Move, TypeOK
  <1>1. ASSUME NEW n \in Names, NEW s \in Specs, Define(n, s) PROVE Defined'
    BY <1>1 DEF Define, Defined
  <1>2. ASSUME NEW n \in Names, NEW s \in Specs, EnsureDefined(n, s) PROVE Defined'
    BY <1>2 DEF EnsureDefined, Defined
  <1>3. ASSUME NEW n \in Names, NEW j \in Jobs, NEW kind \in Kinds, Submit(n, j, kind)
        PROVE  Defined'
    BY <1>3 DEF Submit, Defined
  <1>4. ASSUME NEW j \in Jobs, Cancel(j) PROVE Defined'
    BY <1>4 DEF Cancel, Defined
  <1>5. ASSUME NEW j \in Jobs, NoThread(j) PROVE Defined'
    BY <1>5 DEF NoThread, Defined
  <1>6. ASSUME NEW j \in Jobs, Begin(j) PROVE Defined'
    BY <1>6 DEF Begin, Defined
  <1>7. ASSUME NEW j \in Jobs, Spawn(j) PROVE Defined'
    BY <1>7 DEF Spawn, Defined
  <1>8. ASSUME NEW j \in Jobs, CancelBeforeSpawn(j) PROVE Defined'
    BY <1>8 DEF CancelBeforeSpawn, Defined
  <1>9. ASSUME NEW j \in Jobs, Persist(j) PROVE Defined'
    BY <1>9 DEF Persist, Defined
  <1>10. ASSUME NEW j \in Jobs, Finish(j) PROVE Defined'
    BY <1>10 DEF Finish, Defined
  <1>11. ASSUME NEW j \in Jobs, WorkerFailed(j) PROVE Defined'
    BY <1>11 DEF WorkerFailed, Defined
  <1>12. ASSUME NEW j \in Jobs, CommandKilled(j) PROVE Defined'
    BY <1>12 DEF CommandKilled, Defined
  <1>13. ASSUME NEW j \in Jobs, NEW ok \in BOOLEAN, CommandEnds(j, ok) PROVE Defined'
    BY <1>13 DEF CommandEnds, Defined
  <1>14. ASSUME Drift PROVE Defined'
    BY <1>14 DEF Drift, Defined
  <1>15. ASSUME Restart PROVE Defined'
    BY <1>15 DEF Restart, Defined
  <1>16. CASE UNCHANGED vars
    BY <1>16 DEF vars, Defined
  <1> HIDE DEF Record, definitionVars, registryVars, Registry!Accept, Registry!Drop,
          Registry!Begin, Registry!Ask, Registry!Store, Registry!Finish,
          Registry!Restart, Registry!Move, TypeOK
  <1>17. QED
    BY <1>1, <1>2, <1>3, <1>4, <1>5, <1>6, <1>7, <1>8, <1>9, <1>10, <1>11, <1>12,
       <1>13, <1>14, <1>15, <1>16 DEF Next

(* A registered job has its submission, with the definition of its name.   *)
LEMMA RequestedStep ==
    ASSUME TypeOK, Requested, [Next]_vars
    PROVE  Requested'
  <1> USE PinnedAssumption, NothingAssumption DEF Record, definitionVars,
          registryVars, Registry!Accept, Registry!Drop, Registry!Begin,
          Registry!Ask, Registry!Store, Registry!Finish, Registry!Restart,
          Registry!Move, TypeOK, Requests, Requested
  <1>1. ASSUME NEW n \in Names, NEW s \in Specs, Define(n, s) PROVE Requested'
    BY <1>1 DEF Define
  <1>2. ASSUME NEW n \in Names, NEW s \in Specs, EnsureDefined(n, s) PROVE Requested'
    BY <1>2 DEF EnsureDefined
  <1>3. ASSUME NEW n \in Names, NEW j \in Jobs, NEW kind \in Kinds, Submit(n, j, kind)
        PROVE  Requested'
    BY <1>3 DEF Submit, Admitted
  <1>4. ASSUME NEW j \in Jobs, Cancel(j) PROVE Requested'
    BY <1>4 DEF Cancel
  <1>5. ASSUME NEW j \in Jobs, NoThread(j) PROVE Requested'
    BY <1>5 DEF NoThread
  <1>6. ASSUME NEW j \in Jobs, Begin(j) PROVE Requested'
    BY <1>6 DEF Begin
  <1>7. ASSUME NEW j \in Jobs, Spawn(j) PROVE Requested'
    BY <1>7 DEF Spawn
  <1>8. ASSUME NEW j \in Jobs, CancelBeforeSpawn(j) PROVE Requested'
    BY <1>8 DEF CancelBeforeSpawn
  <1>9. ASSUME NEW j \in Jobs, Persist(j) PROVE Requested'
    BY <1>9 DEF Persist
  <1>10. ASSUME NEW j \in Jobs, Finish(j) PROVE Requested'
    BY <1>10 DEF Finish, Verdict
  <1>11. ASSUME NEW j \in Jobs, WorkerFailed(j) PROVE Requested'
    BY <1>11 DEF WorkerFailed
  <1>12. ASSUME NEW j \in Jobs, CommandKilled(j) PROVE Requested'
    BY <1>12 DEF CommandKilled
  <1>13. ASSUME NEW j \in Jobs, NEW ok \in BOOLEAN, CommandEnds(j, ok) PROVE Requested'
    BY <1>13 DEF CommandEnds
  <1>14. ASSUME Drift PROVE Requested'
    BY <1>14 DEF Drift
  <1>15. ASSUME Restart PROVE Requested'
    BY <1>15 DEF Restart
  <1>16. CASE UNCHANGED vars
    BY <1>16 DEF vars
  <1> HIDE DEF Record, definitionVars, registryVars, Registry!Accept, Registry!Drop,
          Registry!Begin, Registry!Ask, Registry!Store, Registry!Finish,
          Registry!Restart, Registry!Move, TypeOK, Requests, Requested
  <1>17. QED
    BY <1>1, <1>2, <1>3, <1>4, <1>5, <1>6, <1>7, <1>8, <1>9, <1>10, <1>11, <1>12,
       <1>13, <1>14, <1>15, <1>16 DEF Next

(* A worker's child is in its scope, and nobody else's.                    *)
LEMMA ScopedStep ==
    ASSUME TypeOK, Requested, Scoped, [Next]_vars
    PROVE  Scoped'
  <1> USE LifeAssumption, NothingAssumption DEF Record, definitionVars,
          registryVars, Registry!Accept, Registry!Drop, Registry!Begin,
          Registry!Ask, Registry!Store, Registry!Finish, Registry!Restart,
          Registry!Move, TypeOK, Scopes, Requested, Scoped
  <1>1. ASSUME NEW n \in Names, NEW s \in Specs, Define(n, s) PROVE Scoped'
    BY <1>1 DEF Define
  <1>2. ASSUME NEW n \in Names, NEW s \in Specs, EnsureDefined(n, s) PROVE Scoped'
    BY <1>2 DEF EnsureDefined
  <1>3. ASSUME NEW n \in Names, NEW j \in Jobs, NEW kind \in Kinds, Submit(n, j, kind)
        PROVE  Scoped'
    BY <1>3 DEF Submit
  <1>4. ASSUME NEW j \in Jobs, Cancel(j) PROVE Scoped'
    BY <1>4 DEF Cancel
  <1>5. ASSUME NEW j \in Jobs, NoThread(j) PROVE Scoped'
    BY <1>5 DEF NoThread
  <1>6. ASSUME NEW j \in Jobs, Begin(j) PROVE Scoped'
    BY <1>6 DEF Begin
  <1>7. ASSUME NEW j \in Jobs, Spawn(j) PROVE Scoped'
    BY <1>7 DEF Spawn, UnitFree
  <1>8. ASSUME NEW j \in Jobs, CancelBeforeSpawn(j) PROVE Scoped'
    BY <1>8 DEF CancelBeforeSpawn
  <1>9. ASSUME NEW j \in Jobs, Persist(j) PROVE Scoped'
    BY <1>9 DEF Persist
  <1>10. ASSUME NEW j \in Jobs, Finish(j) PROVE Scoped'
    BY <1>10 DEF Finish, Verdict
  <1>11. ASSUME NEW j \in Jobs, WorkerFailed(j) PROVE Scoped'
    BY <1>11 DEF WorkerFailed
  <1>12. ASSUME NEW j \in Jobs, CommandKilled(j) PROVE Scoped'
    BY <1>12 DEF CommandKilled
  <1>13. ASSUME NEW j \in Jobs, NEW ok \in BOOLEAN, CommandEnds(j, ok) PROVE Scoped'
    BY <1>13 DEF CommandEnds, Own
  <1>14. ASSUME Drift PROVE Scoped'
    BY <1>14 DEF Drift
  <1>15. ASSUME Restart PROVE Scoped'
    BY <1>15 DEF Restart
  <1>16. CASE UNCHANGED vars
    BY <1>16 DEF vars
  <1> HIDE DEF Record, definitionVars, registryVars, Registry!Accept, Registry!Drop,
          Registry!Begin, Registry!Ask, Registry!Store, Registry!Finish,
          Registry!Restart, Registry!Move, TypeOK, Scopes, Requested, Scoped
  <1>17. QED
    BY <1>1, <1>2, <1>3, <1>4, <1>5, <1>6, <1>7, <1>8, <1>9, <1>10, <1>11, <1>12,
       <1>13, <1>14, <1>15, <1>16 DEF Next

(* Containers of this lifetime are made from its definitions.              *)
LEMMA ContainedStep ==
    ASSUME TypeOK, Requested, Scoped, Contained, [Next]_vars
    PROVE  Contained'
  <1> USE PinnedAssumption, NothingAssumption, LifeAssumption DEF Record,
          definitionVars, registryVars, Registry!Accept, Registry!Drop,
          Registry!Begin, Registry!Ask, Registry!Store, Registry!Finish,
          Registry!Restart, Registry!Move, TypeOK, Containers, Requested, Scoped,
          Contained
  <1>1. ASSUME NEW n \in Names, NEW s \in Specs, Define(n, s) PROVE Contained'
    BY <1>1 DEF Define
  <1>2. ASSUME NEW n \in Names, NEW s \in Specs, EnsureDefined(n, s) PROVE Contained'
    BY <1>2 DEF EnsureDefined
  <1>3. ASSUME NEW n \in Names, NEW j \in Jobs, NEW kind \in Kinds, Submit(n, j, kind)
        PROVE  Contained'
    BY <1>3 DEF Submit
  <1>4. ASSUME NEW j \in Jobs, Cancel(j) PROVE Contained'
    BY <1>4 DEF Cancel
  <1>5. ASSUME NEW j \in Jobs, NoThread(j) PROVE Contained'
    BY <1>5 DEF NoThread
  <1>6. ASSUME NEW j \in Jobs, Begin(j) PROVE Contained'
    BY <1>6 DEF Begin
  <1>7. ASSUME NEW j \in Jobs, Spawn(j) PROVE Contained'
    BY <1>7 DEF Spawn
  <1>8. ASSUME NEW j \in Jobs, CancelBeforeSpawn(j) PROVE Contained'
    BY <1>8 DEF CancelBeforeSpawn
  <1>9. ASSUME NEW j \in Jobs, Persist(j) PROVE Contained'
    BY <1>9 DEF Persist
  <1>10. ASSUME NEW j \in Jobs, Finish(j) PROVE Contained'
    BY <1>10 DEF Finish
  <1>11. ASSUME NEW j \in Jobs, WorkerFailed(j) PROVE Contained'
    BY <1>11 DEF WorkerFailed
  <1>12. ASSUME NEW j \in Jobs, CommandKilled(j) PROVE Contained'
    <2>1. unit[j] \in Scopes /\ unit[j].request.name \in Names
      BY <1>12 DEF CommandKilled, Scopes, Requests
    <2>2. \A n \in Names : container'[n] # None => Kept(n) \/ Made(n, unit[j])
      BY <1>12, <2>1, CommandEffect DEF CommandKilled
    <2>3. QED
      BY <1>12, <2>1, <2>2 DEF CommandKilled, Kept, Made
  <1>13. ASSUME NEW j \in Jobs, NEW ok \in BOOLEAN, CommandEnds(j, ok) PROVE Contained'
    <2>1. unit[j] \in Scopes /\ unit[j].request.name \in Names
      BY <1>13 DEF CommandEnds, Scopes, Requests
    <2>2. \A n \in Names : container'[n] # None => Kept(n) \/ Made(n, unit[j])
      BY <1>13, <2>1, CommandEffect DEF CommandEnds
    <2>3. QED
      BY <1>13, <2>1, <2>2 DEF CommandEnds, Kept, Made
  <1>14. ASSUME Drift PROVE Contained'
    BY <1>14 DEF Drift
  <1>15. ASSUME Restart PROVE Contained'
    BY <1>15 DEF Restart
  <1>16. CASE UNCHANGED vars
    BY <1>16 DEF vars
  <1> HIDE DEF Record, definitionVars, registryVars, Registry!Accept, Registry!Drop,
          Registry!Begin, Registry!Ask, Registry!Store, Registry!Finish,
          Registry!Restart, Registry!Move, TypeOK, Containers, Requested, Scoped,
          Contained
  <1>17. QED
    BY <1>1, <1>2, <1>3, <1>4, <1>5, <1>6, <1>7, <1>8, <1>9, <1>10, <1>11, <1>12,
       <1>13, <1>14, <1>15, <1>16 DEF Next

(* What is left of any lifetime keeps agreeing on the definitions.         *)
LEMMA AgreedStep ==
    ASSUME TypeOK, Requested, Scoped, Contained, Agreed, [Next]_vars
    PROVE  Agreed'
  <1> USE DEF Record, definitionVars, registryVars, Registry!Accept,
          Registry!Drop, Registry!Begin, Registry!Ask, Registry!Store,
          Registry!Finish, Registry!Restart, Registry!Move, TypeOK, Scopes,
          Requests, Requested, Scoped, Contained, Agreed
  <1>1. ASSUME NEW n \in Names, NEW s \in Specs, Define(n, s) PROVE Agreed'
    BY <1>1 DEF Define
  <1>2. ASSUME NEW n \in Names, NEW s \in Specs, EnsureDefined(n, s) PROVE Agreed'
    BY <1>2 DEF EnsureDefined
  <1>3. ASSUME NEW n \in Names, NEW j \in Jobs, NEW kind \in Kinds, Submit(n, j, kind)
        PROVE  Agreed'
    BY <1>3 DEF Submit
  <1>4. ASSUME NEW j \in Jobs, Cancel(j) PROVE Agreed'
    BY <1>4 DEF Cancel
  <1>5. ASSUME NEW j \in Jobs, NoThread(j) PROVE Agreed'
    BY <1>5 DEF NoThread
  <1>6. ASSUME NEW j \in Jobs, Begin(j) PROVE Agreed'
    BY <1>6 DEF Begin
  <1>7. ASSUME NEW j \in Jobs, Spawn(j) PROVE Agreed'
    BY <1>7 DEF Spawn, UnitFree
  <1>8. ASSUME NEW j \in Jobs, CancelBeforeSpawn(j) PROVE Agreed'
    BY <1>8 DEF CancelBeforeSpawn
  <1>9. ASSUME NEW j \in Jobs, Persist(j) PROVE Agreed'
    BY <1>9 DEF Persist
  <1>10. ASSUME NEW j \in Jobs, Finish(j) PROVE Agreed'
    BY <1>10 DEF Finish
  <1>11. ASSUME NEW j \in Jobs, WorkerFailed(j) PROVE Agreed'
    BY <1>11 DEF WorkerFailed
  <1>12. ASSUME NEW j \in Jobs, CommandKilled(j) PROVE Agreed'
    <2>1. unit[j] \in Scopes /\ unit[j].request.name \in Names
      BY <1>12 DEF CommandKilled, Scopes, Requests
    <2>2. \A n \in Names : container'[n] # None => Kept(n) \/ Made(n, unit[j])
      BY <1>12, <2>1, CommandEffect DEF CommandKilled
    <2>3. QED
      BY <1>12, <2>1, <2>2 DEF CommandKilled, Kept, Made
  <1>13. ASSUME NEW j \in Jobs, NEW ok \in BOOLEAN, CommandEnds(j, ok) PROVE Agreed'
    <2>1. unit[j] \in Scopes /\ unit[j].request.name \in Names
      BY <1>13 DEF CommandEnds, Scopes, Requests
    <2>2. \A n \in Names : container'[n] # None => Kept(n) \/ Made(n, unit[j])
      BY <1>13, <2>1, CommandEffect DEF CommandEnds
    <2>3. QED
      BY <1>13, <2>1, <2>2 DEF CommandEnds, Kept, Made
  <1>14. ASSUME Drift PROVE Agreed'
    BY <1>14 DEF Drift
  <1>15. ASSUME Restart PROVE Agreed'
    BY <1>15 DEF Restart
  <1>16. CASE UNCHANGED vars
    BY <1>16 DEF vars
  <1> HIDE DEF Record, definitionVars, registryVars, Registry!Accept,
          Registry!Drop, Registry!Begin, Registry!Ask, Registry!Store,
          Registry!Finish, Registry!Restart, Registry!Move, TypeOK, Scopes,
          Requests, Requested, Scoped, Contained, Agreed
  <1>17. QED
    BY <1>1, <1>2, <1>3, <1>4, <1>5, <1>6, <1>7, <1>8, <1>9, <1>10, <1>11, <1>12,
       <1>13, <1>14, <1>15, <1>16 DEF Next

LEMMA InitInductive == Init => Inductive
  <1> SUFFICES ASSUME Init PROVE Inductive
    OBVIOUS
  <1>1. TypeOK
    BY LifeAssumption DEF Init, TypeOK, Registry!ContractInit
  <1>2. Defined /\ Requested /\ Scoped /\ Contained /\ Agreed
    BY DEF Init, Registry!ContractInit, Defined, Requested, Scoped, Contained, Agreed
  <1>3. QED
    BY <1>1, <1>2 DEF Inductive

(* The service, its scopes and Podman's containers always fit together.    *)
THEOREM InductiveHolds == Spec => []Inductive
  <1>1. Inductive /\ [Next]_vars => Inductive'
    BY TypeStep, DefinedStep, RequestedStep, ScopedStep, ContainedStep, AgreedStep DEF Inductive
  <1>2. QED
    BY InitInductive, <1>1, PTL DEF Spec

(* Every state satisfies the type invariant.                               *)
THEOREM TypeCorrect == Spec => []TypeOK
  <1>1. Inductive => TypeOK
    BY DEF Inductive
  <1>2. QED
    BY <1>1, InductiveHolds, PTL

(* Jobs run with the definition clients had accepted under their name.     *)
THEOREM EnsuredIsUsedHolds == Spec => []EnsuredIsUsed
  <1>1. Inductive => EnsuredIsUsed
    BY PinnedAssumption, NothingAssumption
       DEF Inductive, TypeOK, Requests, Requested, Defined, EnsuredIsUsed
  <1>2. QED
    BY <1>1, InductiveHolds, PTL

(* Exec runs in a container of the definition it was submitted with.       *)
THEOREM ExecInItsDefinitionHolds == Spec => []ExecInItsDefinition
  <1>1. Inductive => ExecInItsDefinition
    BY DEF Inductive, Agreed, ExecInItsDefinition
  <1>2. QED
    BY <1>1, InductiveHolds, PTL

(* Nothing runs under the identifier of a job that succeeded.              *)
THEOREM SucceededIsOverHolds == Spec => []SucceededIsOver
  <1>1. Inductive => SucceededIsOver
    BY DEF Inductive, Scoped, SucceededIsOver
  <1>2. QED
    BY <1>1, InductiveHolds, PTL

(* What the snapshot's policy defers does not run.                         *)
THEOREM DeferredNeverRunsHolds == Spec => []DeferredNeverRuns
  <1>1. Inductive => DeferredNeverRuns
    BY DEF Inductive, Requested, Scoped, TypeOK, DeferredNeverRuns
  <1>2. QED
    BY <1>1, InductiveHolds, PTL
-----------------------------------------------------------------------------
(***************************************************************************)
(* The order of a plan's steps: BuildPlan and TestPlan::execution_order.   *)
(***************************************************************************)

(* The first n elements of a sequence.                                     *)
LEMMA Prefix ==
    ASSUME NEW S, NEW s \in Seq(S), NEW n \in Nat, n <= Len(s)
    PROVE  LET t == SubSeq(s, 1, n) IN
           /\ t \in Seq(S) /\ Len(t) = n /\ DOMAIN t = 1 .. n
           /\ \A i \in 1 .. n : t[i] = s[i]
  OBVIOUS

(* The last position of an interval, or one below it.                      *)
LEMMA LastOrBelow ==
    ASSUME NEW n \in Nat, NEW k \in Nat, NEW i \in k .. n
    PROVE  /\ i \in Nat /\ (i = n \/ i < n)
           /\ i < n => i \in k .. n - 1 /\ i + 1 \in k .. n /\ (i + 1) - 1 = i
  OBVIOUS

(* Appending an element.                                                   *)
LEMMA Pushed ==
    ASSUME NEW S, NEW s \in Seq(S), NEW x \in S
    PROVE  LET t == Append(s, x) IN
           /\ t \in Seq(S) /\ Len(t) = Len(s) + 1 /\ Len(s) \in Nat
           /\ DOMAIN s = 1 .. Len(s) /\ DOMAIN t = 1 .. Len(s) + 1
           /\ \A i \in 1 .. Len(s) : t[i] = s[i]
           /\ t[Len(s) + 1] = x
  OBVIOUS

LEMMA StepIsSound ==
    ASSUME plan \in Seq(Steps), NEW i \in DOMAIN plan
    PROVE  plan[i] \in Steps /\ plan[i].id \in Ids
  <1>1. plan[i] \in Steps
    OBVIOUS
  <1>2. QED
    BY <1>1 DEF Steps

(* The step a frame visits, and what it depends on, are in the plan.       *)
LEMMA StepInPlan ==
    ASSUME plan \in Seq(Steps), NEW id \in Planned
    PROVE  /\ id \in Ids /\ Deps(id) \subseteq Ids
           /\ Valid => Deps(id) \subseteq Planned
  <1>1. PICK i \in DOMAIN plan : plan[i].id = id
    BY DEF Planned
  <1>2. PICK k \in DOMAIN plan : plan[k].id = id /\ StepOf(id) = plan[k]
    BY <1>1 DEF StepOf
  <1>3. plan[k] \in Steps
    BY <1>2
  <1>4. id \in Ids /\ Deps(id) \subseteq Ids
    BY <1>2, <1>3 DEF Deps, Steps
  <1>5. Valid => Deps(id) \subseteq Planned
    BY <1>2 DEF Valid, Closed, Deps
  <1>6. QED
    BY <1>4, <1>5

(* What is said of the plan stays true: no step changes the plan.          *)
LEMMA PlanFixed ==
    ASSUME UNCHANGED plan
    PROVE  /\ Planned' = Planned /\ Valid' = Valid /\ Knot' = Knot
           /\ \A id : Deps(id)' = Deps(id)
  BY DEF Planned, Valid, Closed, Knot, Deps, StepOf

LEMMA TopInStack ==
    ASSUME PlanTypeOK, stack # <<>>
    PROVE  /\ Len(stack) \in Nat \ {0} /\ DOMAIN stack = 1 .. Len(stack)
           /\ Top = stack[Len(stack)] /\ Top \in Ids
           /\ \A i \in DOMAIN stack : stack[i] \in Ids
  BY DEF PlanTypeOK, Top

(* The steps that leave the visit as it is.                                *)
LEMMA ResultStep ==
    ASSUME PlanInductive, Validate \/ Ordered \/ ScheduleStep \/ Return
    PROVE  PlanInductive'
  <1>1. UNCHANGED <<plan, given, mark, stack, pending, order, next>>
    BY DEF Validate, Ordered, ScheduleStep, Return
  <1>2. /\ result' \in {"visit", "refused", "schedule", "scheduled"}
        /\ result' # "refused" => Valid
        /\ result' \in {"schedule", "scheduled"} => stack = <<>> /\ AllVisited
    BY DEF PlanInductive, Begun, Validate, Ordered, ScheduleStep, Return
  <1>3. PlanTypeOK' /\ Framed' /\ LookedAt' /\ Marked' /\ DependenciesFirst'
    BY <1>1, <1>2, PlanFixed
       DEF PlanInductive, PlanTypeOK, Results, Framed, LookedAt, Marked, DependenciesFirst
  <1>4. Begun'
    BY <1>1, <1>2, PlanFixed DEF PlanInductive, Begun, AllVisited
  <1>5. CycleReported'
    BY <1>2 DEF CycleReported
  <1>6. QED
    BY <1>3, <1>4, <1>5 DEF PlanInductive

(* The next step of the plan is visited, or was already.                   *)
LEMMA NextStep ==
    ASSUME PlanInductive, VisitNext
    PROVE  PlanInductive'
  <1> DEFINE id == plan[next].id
  <1>1. /\ result = "visit" /\ result' = "visit" /\ stack = <<>>
        /\ next \in DOMAIN plan /\ next' = next + 1 /\ next \in Nat \ {0}
        /\ UNCHANGED <<plan, given, order>>
    BY DEF VisitNext, PlanInductive, PlanTypeOK
  <1>2. id \in Planned /\ id \in Ids /\ Deps(id) \subseteq Ids
    BY <1>1, StepInPlan DEF Planned, PlanInductive, PlanTypeOK
  <1>3. CASE mark[id] = "done" /\ Unmoved
    <2>1. UNCHANGED <<plan, given, mark, stack, pending, order>>
      BY <1>1, <1>3 DEF Unmoved
    <2>2. PlanTypeOK' /\ Framed' /\ LookedAt' /\ Marked' /\ DependenciesFirst'
      BY <1>1, <2>1, PlanFixed
         DEF PlanInductive, PlanTypeOK, Framed, LookedAt, Marked, DependenciesFirst
    <2>3. Begun'
      BY <1>1, <1>3, <2>1, PlanFixed DEF PlanInductive, Begun, AllVisited
    <2>4. QED
      BY <1>1, <2>2, <2>3 DEF PlanInductive, CycleReported
  <1>4. CASE mark[id] = "new" /\ Push(id)
    <2>1. /\ mark' = [mark EXCEPT ![id] = "visiting"]
          /\ pending' = [pending EXCEPT ![id] = Deps(id)]
          /\ stack' \in Seq(Ids) /\ DOMAIN stack' = {1} /\ stack'[1] = id
          /\ Len(stack') = 1
      <3>1. stack' = Append(stack, id) /\ stack \in Seq(Ids) /\ Len(stack) = 0
        BY <1>1, <1>4 DEF Push, PlanInductive, PlanTypeOK
      <3>2. 1 .. 1 = {1}
        OBVIOUS
      <3>3. QED
        BY <1>2, <1>4, <3>1, <3>2, Pushed DEF Push
    <2>2. PlanTypeOK'
      BY <1>1, <1>2, <2>1 DEF PlanInductive, PlanTypeOK, Results
    <2>3. Framed'
      BY <1>1, <1>2, <2>1, PlanFixed DEF PlanInductive, PlanTypeOK, Framed
    <2>4. LookedAt'
      BY <1>1, <1>2, <2>1, PlanFixed DEF PlanInductive, PlanTypeOK, LookedAt
    <2>5. Marked'
      BY <1>1, <1>2, <1>4, <2>1 DEF PlanInductive, PlanTypeOK, Marked
    <2>6. Begun'
      BY <1>1, <1>2, <2>1, PlanFixed DEF PlanInductive, PlanTypeOK, Begun
    <2>7. DependenciesFirst'
      BY <1>1, PlanFixed DEF PlanInductive, DependenciesFirst
    <2>8. QED
      BY <1>1, <2>2, <2>3, <2>4, <2>5, <2>6, <2>7 DEF PlanInductive, CycleReported
  <1>5. QED
    BY <1>3, <1>4 DEF VisitNext

(* The next dependency of the innermost frame is done, is on the stack, or *)
(* becomes the innermost frame itself.                                     *)
LEMMA DependencyStep ==
    ASSUME PlanInductive, VisitDependency
    PROVE  PlanInductive'
  <1>1. /\ result = "visit" /\ stack # <<>>
        /\ UNCHANGED <<plan, given, order, next>>
    BY DEF VisitDependency
  <1>2. /\ Len(stack) \in Nat \ {0} /\ DOMAIN stack = 1 .. Len(stack)
        /\ Top = stack[Len(stack)] /\ Top \in Ids
        /\ \A i \in DOMAIN stack : stack[i] \in Ids
    BY <1>1, TopInStack DEF PlanInductive
  <1>3. PICK d \in pending[Top] :
           \/ /\ Seen(d)
              /\ pending' = [pending EXCEPT ![Top] = @ \ {d}]
              /\ UNCHANGED <<mark, stack, result>>
           \/ /\ ~Seen(d) /\ mark[d] = "visiting"
              /\ result' = "cycle"
              /\ Unmoved
           \/ /\ mark[d] = "new"
              /\ mark' = [mark EXCEPT ![d] = "visiting"]
              /\ stack' = Append(stack, d)
              /\ pending' = [pending EXCEPT ![Top] = @ \ {d}, ![d] = Deps(d)]
              /\ UNCHANGED result
    BY DEF VisitDependency
  <1>4. /\ Top \in Planned /\ pending[Top] \subseteq Deps(Top)
        /\ mark[Top] = "visiting" /\ Valid
    BY <1>1, <1>2 DEF PlanInductive, Framed, LookedAt, Begun
  <1>5. d \in Ids /\ d \in Deps(Top) /\ d \in Planned /\ Deps(d) \subseteq Ids
    BY <1>3, <1>4, StepInPlan DEF PlanInductive, PlanTypeOK
  <1>6. DependenciesFirst'
    BY <1>1, PlanFixed DEF PlanInductive, DependenciesFirst
  <1>7. CASE /\ Seen(d)
             /\ pending' = [pending EXCEPT ![Top] = @ \ {d}]
             /\ UNCHANGED <<mark, stack, result>>
    <2>1. PlanTypeOK'
      BY <1>1, <1>2, <1>7 DEF PlanInductive, PlanTypeOK
    <2>2. Framed' /\ Marked' /\ Begun'
      BY <1>1, <1>7, PlanFixed DEF PlanInductive, Framed, Marked, Begun, AllVisited
    <2>3. LookedAt'
      BY <1>1, <1>2, <1>7, PlanFixed DEF PlanInductive, PlanTypeOK, Framed, LookedAt, Seen
    <2>4. QED
      BY <1>1, <1>6, <1>7, <2>1, <2>2, <2>3 DEF PlanInductive, CycleReported
  <1>8. CASE mark[d] = "visiting" /\ result' = "cycle" /\ Unmoved
    <2>1. UNCHANGED <<plan, given, mark, stack, pending, order, next>>
      BY <1>1, <1>8 DEF Unmoved
    <2>2. PlanTypeOK' /\ Framed' /\ LookedAt' /\ Marked'
      BY <1>8, <2>1, PlanFixed
         DEF PlanInductive, PlanTypeOK, Results, Framed, LookedAt, Marked
    <2>3. Begun'
      BY <1>4, <1>8, <2>1, PlanFixed DEF PlanInductive, Begun
    <2>4. PICK k \in DOMAIN stack : stack[k] = d
      BY <1>5, <1>8 DEF PlanInductive, Framed
    <2> DEFINE S == {stack[i] : i \in k .. Len(stack)}
    <2>5. k \in 1 .. Len(stack) /\ d \in S
      BY <1>2, <2>4
    <2>6. S \subseteq Planned
      BY <1>2, <2>5 DEF PlanInductive, Framed
    <2>7. ASSUME NEW i \in k .. Len(stack)
          PROVE  Deps(stack[i]) \cap S # {}
      <3>1. CASE i = Len(stack)
        BY <1>2, <1>5, <2>5, <3>1
      <3>2. CASE i < Len(stack)
        <4>1. i + 1 \in k .. Len(stack) /\ i + 1 \in DOMAIN stack /\ i + 1 > 1 /\ (i + 1) - 1 = i
          BY <1>2, <2>5, <2>7, <3>2
        <4>2. stack[i + 1] \in Deps(stack[i])
          BY <4>1 DEF PlanInductive, Framed
        <4>3. QED
          BY <4>1, <4>2
      <3>3. i = Len(stack) \/ i < Len(stack)
        <4>1. Len(stack) \in Nat /\ k \in Nat
          BY <1>2, <2>5
        <4>2. QED
          BY <2>7, <4>1, LastOrBelow
      <3>4. QED
        BY <3>1, <3>2, <3>3
    <2>8. S \in Knot
      BY <2>5, <2>6, <2>7 DEF Knot
    <2>9. CycleReported'
      BY <2>1, <2>8, PlanFixed DEF CycleReported
    <2>10. QED
      BY <1>6, <2>2, <2>3, <2>9 DEF PlanInductive
  <1>9. CASE /\ mark[d] = "new"
             /\ mark' = [mark EXCEPT ![d] = "visiting"]
             /\ stack' = Append(stack, d)
             /\ pending' = [pending EXCEPT ![Top] = @ \ {d}, ![d] = Deps(d)]
             /\ UNCHANGED result
    <2> DEFINE n == Len(stack)
    <2>1. /\ stack' \in Seq(Ids) /\ Len(stack') = n + 1
          /\ DOMAIN stack' = 1 .. n + 1
          /\ \A i \in 1 .. n : stack'[i] = stack[i]
          /\ stack'[n + 1] = d
      BY <1>5, <1>9, Pushed DEF PlanInductive, PlanTypeOK
    <2>2. d # Top /\ \A i \in 1 .. n : stack[i] # d
      BY <1>2, <1>4, <1>5, <1>9 DEF PlanInductive, Framed
    <2>3. /\ pending' \in [Ids -> SUBSET Ids]
          /\ pending'[d] = Deps(d) /\ pending'[Top] = pending[Top] \ {d}
          /\ \A x \in Ids \ {d, Top} : pending'[x] = pending[x]
          /\ mark' \in [Ids -> {"new", "visiting", "done"}]
          /\ mark'[d] = "visiting" /\ \A x \in Ids \ {d} : mark'[x] = mark[x]
      BY <1>2, <1>5, <1>9, <2>2 DEF PlanInductive, PlanTypeOK
    <2>4. PlanTypeOK'
      BY <1>1, <1>9, <2>1, <2>3 DEF PlanInductive, PlanTypeOK
    <2>5. Framed'
      <3>1. \A i, k \in DOMAIN stack' : stack'[i] = stack'[k] => i = k
        BY <1>2, <2>1, <2>2 DEF PlanInductive, Framed
      <3>2. \A x \in Ids : mark'[x] = "visiting" <=> \E i \in DOMAIN stack' : stack'[i] = x
        <4>1. TAKE x \in Ids
        <4>2. CASE x = d
          BY <1>2, <2>1, <2>3, <4>2
        <4>3. CASE x # d
          BY <1>2, <2>1, <2>2, <2>3, <4>3 DEF PlanInductive, Framed
        <4>4. QED
          BY <4>2, <4>3
      <3>3. \A i \in DOMAIN stack' : stack'[i] \in Planned
        BY <1>2, <1>5, <2>1 DEF PlanInductive, Framed
      <3>4. ASSUME NEW i \in DOMAIN stack', i > 1
            PROVE  stack'[i] \in Deps(stack'[i - 1])
        <4>1. CASE i = n + 1
          <5>1. i - 1 = n /\ n \in 1 .. n
            BY <1>2, <4>1
          <5>2. stack'[i - 1] = Top /\ stack'[i] = d
            BY <1>2, <2>1, <4>1, <5>1
          <5>3. QED
            BY <1>5, <5>2
        <4>2. CASE i # n + 1
          <5>1. i \in 1 .. n /\ i - 1 \in 1 .. n /\ i \in DOMAIN stack
            BY <1>2, <2>1, <3>4, <4>2
          <5>2. stack'[i] = stack[i] /\ stack'[i - 1] = stack[i - 1]
            BY <2>1, <5>1
          <5>3. QED
            BY <3>4, <5>1, <5>2 DEF PlanInductive, Framed
        <4>3. QED
          BY <4>1, <4>2
      <3>5. QED
        BY <1>1, <3>1, <3>2, <3>3, <3>4, PlanFixed DEF Framed
    <2>6. LookedAt'
      <3>1. SUFFICES ASSUME NEW i \in 1 .. n + 1
                     PROVE  /\ pending'[stack'[i]] \subseteq Deps(stack'[i])
                            /\ \A e \in Deps(stack'[i]) \ pending'[stack'[i]] :
                                  mark'[e] = "done" \/ (i < n + 1 /\ stack'[i + 1] = e)
        BY <1>1, <2>1, PlanFixed DEF LookedAt
      <3>2. CASE i = n + 1
        BY <2>1, <2>3, <3>2
      <3>3. CASE i = n
        <4>1. stack'[i] = Top /\ stack'[i + 1] = d
          BY <1>2, <2>1, <3>3
        <4>2. \A e \in Deps(Top) \ pending[Top] : mark[e] = "done"
          BY <1>2 DEF PlanInductive, LookedAt
        <4>3. \A e \in Deps(Top) \ pending[Top] : mark'[e] = "done"
          BY <1>4, <1>9, <2>3, <4>2, StepInPlan DEF PlanInductive, PlanTypeOK
        <4>4. QED
          BY <1>2, <1>4, <2>3, <3>3, <4>1, <4>3
      <3>4. CASE i \in 1 .. n - 1
        <4>1. /\ i \in 1 .. n /\ i + 1 \in 1 .. n /\ i < n
              /\ i \in DOMAIN stack /\ n \in DOMAIN stack
          BY <1>2, <3>4
        <4>2. stack'[i] = stack[i] /\ stack'[i + 1] = stack[i + 1]
          BY <2>1, <4>1
        <4>3. stack[i] \in Ids \ {d, Top} /\ stack[i] \in Planned
          BY <1>2, <2>2, <4>1 DEF PlanInductive, Framed
        <4>4. /\ pending[stack[i]] \subseteq Deps(stack[i])
              /\ \A e \in Deps(stack[i]) \ pending[stack[i]] :
                    mark[e] = "done" \/ stack[i + 1] = e
          BY <4>1 DEF PlanInductive, LookedAt
        <4>5. \A e \in Deps(stack[i]) : mark[e] = "done" => mark'[e] = "done"
          BY <1>9, <2>3, <4>3, StepInPlan DEF PlanInductive, PlanTypeOK
        <4>6. QED
          BY <1>2, <2>3, <4>1, <4>2, <4>3, <4>4, <4>5
      <3>5. i = n + 1 \/ i = n \/ i \in 1 .. n - 1
        <4>1. n \in Nat /\ n + 1 \in Nat /\ 1 \in Nat /\ (n + 1) - 1 = n
          BY <1>2
        <4>2. i \in 1 .. n + 1
          BY <3>1
        <4>3. i = n + 1 \/ i \in 1 .. n
          BY <4>1, <4>2
        <4>4. QED
          BY <4>1, <4>3, LastOrBelow
      <3>6. QED
        BY <3>2, <3>3, <3>4, <3>5
    <2>7. Marked'
      BY <1>1, <1>5, <1>9, <2>3 DEF PlanInductive, Marked
    <2>8. Begun'
      <3>1. \A i \in DOMAIN plan : plan[i].id \in Ids
        BY StepIsSound DEF PlanInductive, PlanTypeOK
      <3>2. QED
        BY <1>1, <1>4, <1>9, <2>3, <3>1, PlanFixed DEF PlanInductive, Begun
    <2>9. QED
      BY <1>1, <1>6, <1>9, <2>4, <2>5, <2>6, <2>7, <2>8 DEF PlanInductive, CycleReported
  <1>10. QED
    BY <1>3, <1>7, <1>8, <1>9

(* The innermost frame has seen all its dependencies and returns.          *)
LEMMA CompleteStep ==
    ASSUME PlanInductive, Complete
    PROVE  PlanInductive'
  <1> DEFINE n == Len(stack)
             m == Len(order)
  <1>1. /\ result = "visit" /\ result' = "visit" /\ stack # <<>> /\ pending[Top] = {}
        /\ mark' = [mark EXCEPT ![Top] = "done"]
        /\ order' = Append(order, Top)
        /\ stack' = SubSeq(stack, 1, n - 1)
        /\ UNCHANGED <<plan, given, pending, next>>
    BY DEF Complete, MarkDone, Place
  <1>2. /\ n \in Nat \ {0} /\ DOMAIN stack = 1 .. n
        /\ Top = stack[n] /\ Top \in Ids
        /\ \A i \in DOMAIN stack : stack[i] \in Ids
    BY <1>1, TopInStack DEF PlanInductive
  <1>3. /\ stack' \in Seq(Ids) /\ Len(stack') = n - 1 /\ DOMAIN stack' = 1 .. n - 1
        /\ \A i \in 1 .. n - 1 : stack'[i] = stack[i]
    BY <1>1, <1>2, Prefix DEF PlanInductive, PlanTypeOK
  <1>4. /\ order' \in Seq(Ids) /\ m \in Nat
        /\ DOMAIN order = 1 .. m /\ DOMAIN order' = 1 .. m + 1
        /\ \A i \in 1 .. m : order'[i] = order[i]
        /\ order'[m + 1] = Top
    BY <1>1, <1>2, Pushed DEF PlanInductive, PlanTypeOK
  <1>5. /\ mark' \in [Ids -> {"new", "visiting", "done"}]
        /\ mark'[Top] = "done" /\ \A x \in Ids \ {Top} : mark'[x] = mark[x]
        /\ mark[Top] = "visiting" /\ Top \in Planned
    BY <1>1, <1>2 DEF PlanInductive, PlanTypeOK, Framed
  <1>6. \A i \in 1 .. n - 1 : stack[i] # Top
    BY <1>2 DEF PlanInductive, Framed
  <1>7. PlanTypeOK'
    BY <1>1, <1>3, <1>4, <1>5 DEF PlanInductive, PlanTypeOK
  <1>8. Framed'
    <2>1. \A x \in Ids : mark'[x] = "visiting" <=> \E i \in 1 .. n - 1 : stack'[i] = x
      <3>1. TAKE x \in Ids
      <3>2. CASE x = Top
        BY <1>3, <1>5, <1>6, <3>2
      <3>3. CASE x # Top
        BY <1>2, <1>3, <1>5, <3>3 DEF PlanInductive, Framed
      <3>4. QED
        BY <3>2, <3>3
    <2>2. \A i, k \in DOMAIN stack' : stack'[i] = stack'[k] => i = k
      BY <1>2, <1>3 DEF PlanInductive, Framed
    <2>3. \A i \in DOMAIN stack' : stack'[i] \in Planned
      BY <1>2, <1>3 DEF PlanInductive, Framed
    <2>4. ASSUME NEW i \in DOMAIN stack', i > 1
          PROVE  stack'[i] \in Deps(stack'[i - 1])
      <3>1. i \in 1 .. n - 1 /\ i - 1 \in 1 .. n - 1 /\ i \in DOMAIN stack
        BY <1>2, <1>3, <2>4
      <3>2. stack'[i] = stack[i] /\ stack'[i - 1] = stack[i - 1]
        BY <1>3, <3>1
      <3>3. QED
        BY <2>4, <3>1, <3>2 DEF PlanInductive, Framed
    <2>5. \A x \in Ids : mark'[x] = "visiting" <=> \E i \in DOMAIN stack' : stack'[i] = x
      BY <1>3, <2>1
    <2>6. Planned' = Planned /\ \A x : Deps(x)' = Deps(x)
      BY <1>1, PlanFixed
    <2>7. QED
      BY <2>2, <2>3, <2>4, <2>5, <2>6 DEF Framed
  <1>9. LookedAt'
    <2>1. SUFFICES ASSUME NEW i \in 1 .. n - 1
                   PROVE  /\ pending[stack[i]] \subseteq Deps(stack[i])
                          /\ \A e \in Deps(stack[i]) \ pending[stack[i]] :
                                mark'[e] = "done" \/ (i < n - 1 /\ stack'[i + 1] = e)
      <3>1. \A x : Deps(x)' = Deps(x)
        BY <1>1, PlanFixed
      <3>2. pending' = pending /\ Len(stack') = n - 1 /\ DOMAIN stack' = 1 .. n - 1
        BY <1>1, <1>3
      <3>3. \A i \in 1 .. n - 1 : stack'[i] = stack[i]
        BY <1>3
      <3>4. QED
        BY <3>1, <3>2, <3>3 DEF LookedAt
    <2>2. i \in DOMAIN stack /\ i < n /\ stack[i] \in Planned
      BY <1>2, <2>1 DEF PlanInductive, Framed
    <2>3. /\ pending[stack[i]] \subseteq Deps(stack[i])
          /\ \A e \in Deps(stack[i]) \ pending[stack[i]] :
                mark[e] = "done" \/ stack[i + 1] = e
      BY <2>2 DEF PlanInductive, LookedAt
    <2>4. \A e \in Deps(stack[i]) : mark[e] = "done" => mark'[e] = "done"
      BY <1>5, <2>2, StepInPlan DEF PlanInductive, PlanTypeOK
    <2>5. mark'[stack[i + 1]] = "done" \/ (i < n - 1 /\ stack'[i + 1] = stack[i + 1])
      <3>1. CASE i = n - 1
        BY <1>2, <1>5, <3>1
      <3>2. CASE i # n - 1
        <4>1. n - 1 \in Nat
          BY <1>2
        <4>2. i + 1 \in 1 .. n - 1 /\ i < n - 1
          BY <2>1, <3>2, <4>1, LastOrBelow
        <4>3. QED
          BY <1>3, <4>2
      <3>3. QED
        BY <3>1, <3>2
    <2>6. QED
      BY <2>3, <2>4, <2>5
  <1>10. Marked'
    <2>1. SUFFICES ASSUME NEW x \in Ids
                   PROVE  mark'[x] = "done" <=> \E i \in 1 .. m + 1 : order'[i] = x
      BY <1>4 DEF Marked
    <2>2. CASE x = Top
      BY <1>4, <1>5, <2>2
    <2>3. CASE x # Top
      BY <1>4, <1>5, <2>3 DEF PlanInductive, Marked
    <2>4. QED
      BY <2>2, <2>3
  <1>11. Begun'
    <2>1. \A i \in DOMAIN plan : plan[i].id \in Ids
      BY StepIsSound DEF PlanInductive, PlanTypeOK
    <2>2. QED
      BY <1>1, <1>2, <1>5, <2>1, PlanFixed DEF PlanInductive, Begun
  <1>12. DependenciesFirst'
    <2>1. SUFFICES ASSUME NEW i \in 1 .. m + 1
                   PROVE  /\ \A d \in Deps(order'[i]) : \E k \in 1 .. i - 1 : order'[k] = d
                          /\ \A k \in 1 .. i - 1 : order'[k] # order'[i]
      <3>1. \A x : Deps(x)' = Deps(x)
        BY <1>1, PlanFixed
      <3>2. DOMAIN order' = 1 .. m + 1
        BY <1>4
      <3>3. QED
        BY <3>1, <3>2 DEF DependenciesFirst
    <2>2. CASE i \in 1 .. m
      BY <1>4, <2>2 DEF PlanInductive, DependenciesFirst
    <2>3. CASE i = m + 1
      <3>1. i - 1 = m /\ order'[i] = Top
        BY <1>4, <2>3
      <3>2. ASSUME NEW d \in Deps(Top)
            PROVE  \E k \in 1 .. m : order[k] = d
        <4>1. d \in Ids
          BY <1>5, <3>2, StepInPlan DEF PlanInductive, PlanTypeOK
        <4>2. mark[d] = "done"
          BY <1>1, <1>2, <3>2 DEF PlanInductive, LookedAt
        <4>3. QED
          BY <1>4, <4>1, <4>2 DEF PlanInductive, Marked
      <3>3. \A k \in 1 .. m : order[k] # Top
        BY <1>2, <1>4, <1>5 DEF PlanInductive, Marked
      <3>4. QED
        BY <1>4, <3>1, <3>2, <3>3
    <2>4. QED
      BY <1>4, <2>1, <2>2, <2>3
  <1>13. QED
    BY <1>1, <1>7, <1>8, <1>9, <1>10, <1>11, <1>12 DEF PlanInductive, CycleReported

(* The frames, the marks and the order belong together in every reachable  *)
(* state, for every plan: BuildPlan and TestPlan::execution_order.         *)
THEOREM PlanInductiveHolds == PlanSpec => []PlanInductive
  <1>1. PlanInit => PlanInductive
    <2>1. SUFFICES ASSUME PlanInit PROVE PlanInductive
      OBVIOUS
    <2>2. plan \in Seq(Steps) /\ given \in Conditions
      <3>1. PICK call \in Calls : plan = call[1] /\ given = call[2]
        BY <2>1 DEF PlanInit
      <3>2. QED
        BY <3>1, CallAssumption
    <2>3. /\ stack = <<>> /\ order = <<>> /\ next = 1 /\ result = "validate"
          /\ mark = [id \in Ids |-> "new"] /\ pending = [id \in Ids |-> {}]
          /\ DOMAIN stack = {} /\ DOMAIN order = {}
      <3>1. DOMAIN <<>> = {}
        OBVIOUS
      <3>2. QED
        BY <2>1, <3>1, Zenon DEF PlanInit
    <2>4. PlanTypeOK
      BY <2>2, <2>3 DEF PlanTypeOK, Results
    <2>5. Framed /\ LookedAt /\ Marked /\ DependenciesFirst
      BY <2>3 DEF Framed, LookedAt, Marked, DependenciesFirst
    <2>6. Begun /\ CycleReported
      BY <2>3 DEF Begun, CycleReported
    <2>7. QED
      BY <2>4, <2>5, <2>6 DEF PlanInductive
  <1>2. PlanInductive /\ [PlanNext]_planVars => PlanInductive'
    <2>1. SUFFICES ASSUME PlanInductive, [PlanNext]_planVars PROVE PlanInductive'
      OBVIOUS
    <2>2. CASE UNCHANGED planVars
      <3>1. UNCHANGED <<plan, given, mark, stack, pending, order, next, result>>
        BY <2>2 DEF planVars
      <3>2. PlanTypeOK' /\ Framed' /\ LookedAt' /\ Marked'
        BY <2>1, <3>1, PlanFixed DEF PlanInductive, PlanTypeOK, Framed, LookedAt, Marked
      <3>3. Begun' /\ DependenciesFirst' /\ CycleReported'
        BY <2>1, <3>1, PlanFixed
           DEF PlanInductive, Begun, AllVisited, DependenciesFirst, CycleReported
      <3>4. QED
        BY <3>2, <3>3 DEF PlanInductive
    <2>3. QED
      BY <2>1, <2>2, ResultStep, NextStep, DependencyStep, CompleteStep DEF PlanNext
  <1>3. QED
    BY <1>1, <1>2, PTL DEF PlanSpec

(* execution_order puts every step after all its dependencies, and once.   *)
THEOREM DependenciesFirstHolds == PlanSpec => []DependenciesFirst
  <1>1. PlanInductive => DependenciesFirst
    BY DEF PlanInductive
  <1>2. QED
    BY <1>1, PlanInductiveHolds, PTL

(* execution_order reports a cycle only when the plan has one.             *)
THEOREM CycleReportedHolds == PlanSpec => []CycleReported
  <1>1. PlanInductive => CycleReported
    BY DEF PlanInductive
  <1>2. QED
    BY <1>1, PlanInductiveHolds, PTL

(* No step of a knot is ever placed: it has a dependency in the knot that  *)
(* would have been placed before it.                                       *)
Unknotted == \A S \in Knot : \A i \in DOMAIN order : order[i] \notin S

LEMMA UnknottedStep ==
    ASSUME PlanInductive, PlanInductive', Unknotted, [PlanNext]_planVars
    PROVE  Unknotted'
  <1>1. CASE UNCHANGED <<plan, order>>
    BY <1>1, PlanFixed DEF Unknotted
  <1>2. CASE Complete
    <2>1. UNCHANGED plan /\ order' = Append(order, Top)
      BY <1>2 DEF Complete, Place
    <2>2. Top \in Ids
      BY <1>2, TopInStack DEF PlanInductive, Complete
    <2>3. /\ DOMAIN order = 1 .. Len(order) /\ DOMAIN order' = 1 .. Len(order) + 1
          /\ \A i \in 1 .. Len(order) : order'[i] = order[i]
          /\ Len(order) \in Nat /\ order'[Len(order) + 1] = Top
      BY <2>1, <2>2, Pushed DEF PlanInductive, PlanTypeOK
    <2>4. ASSUME NEW S \in Knot, Top \in S
          PROVE  FALSE
      <3>1. PICK d \in Deps(Top) : d \in S
        BY <2>4 DEF Knot
      <3>2. \A i \in DOMAIN order' : \A e \in Deps(order'[i]) :
               \E k \in 1 .. i - 1 : order'[k] = e
        <4>1. \A x : Deps(x)' = Deps(x)
          BY <2>1, PlanFixed
        <4>2. DependenciesFirst'
          BY DEF PlanInductive
        <4>3. QED
          BY <4>1, <4>2 DEF DependenciesFirst
      <3>3. PICK k \in 1 .. (Len(order) + 1) - 1 : order'[k] = d
        BY <2>3, <3>1, <3>2
      <3>4. k \in DOMAIN order /\ order[k] = d
        BY <2>3, <3>3
      <3>5. QED
        BY <2>4, <3>1, <3>4 DEF Unknotted
    <2>5. Knot' = Knot
      BY <2>1, PlanFixed
    <2>6. QED
      BY <2>3, <2>4, <2>5 DEF Unknotted
  <1>3. QED
    BY <1>1, <1>2
       DEF PlanNext, planVars, Validate, VisitNext, VisitDependency, Ordered, ScheduleStep, Return

(* execution_order returns an order of the whole plan, and none for a plan *)
(* with a cycle.                                                           *)
THEOREM OrderExactHolds == PlanSpec => []OrderExact
  <1>1. PlanInit => Unknotted
    BY DEF PlanInit, Unknotted
  <1>2. PlanInductive /\ Unknotted => OrderExact
    <2>1. SUFFICES ASSUME PlanInductive, Unknotted, result \in {"schedule", "scheduled"}
                   PROVE  /\ Knot = {}
                          /\ \A id \in Planned : \E i \in DOMAIN order : order[i] = id
      BY DEF OrderExact
    <2>2. ASSUME NEW id \in Planned
          PROVE  \E i \in DOMAIN order : order[i] = id
      <3>1. PICK i \in DOMAIN plan : plan[i].id = id
        BY DEF Planned
      <3>2. stack = <<>> /\ next > Len(plan) /\ next \in Nat /\ i \in 1 .. next - 1
        BY <2>1, <3>1 DEF PlanInductive, PlanTypeOK, Begun, AllVisited
      <3>3. mark[id] # "new" /\ id \in Ids
        BY <2>1, <2>2, <3>1, <3>2, StepInPlan DEF PlanInductive, PlanTypeOK, Begun
      <3>4. mark[id] # "visiting"
        BY <2>1, <3>2, <3>3 DEF PlanInductive, Framed
      <3>5. QED
        BY <2>1, <3>3, <3>4 DEF PlanInductive, PlanTypeOK, Marked
    <2>3. ASSUME NEW S \in Knot
          PROVE  FALSE
      <3>1. PICK x \in S : x \in Planned
        BY <2>3 DEF Knot
      <3>2. PICK i \in DOMAIN order : order[i] = x
        BY <2>2, <3>1
      <3>3. QED
        BY <2>1, <2>3, <3>1, <3>2 DEF Unknotted
    <2>4. QED
      BY <2>2, <2>3
  <1>3. PlanInductive /\ PlanInductive' /\ Unknotted /\ [PlanNext]_planVars => Unknotted'
    BY UnknottedStep
  <1>4. QED
    BY <1>1, <1>2, <1>3, PlanInductiveHolds, PTL DEF PlanSpec
-----------------------------------------------------------------------------
(***************************************************************************)
(* The resource policy: TestPlan::schedule and workload_scope.             *)
(***************************************************************************)

(* The greater and the lesser of two numbers.                              *)
LEMMA OfTwo ==
    ASSUME NEW a \in Nat, NEW b \in Nat
    PROVE  /\ Max({a, b}) \in {a, b} /\ Max({a, b}) >= a /\ Max({a, b}) >= b
           /\ Min({a, b}) \in {a, b} /\ Min({a, b}) <= a /\ Min({a, b}) <= b
  <1>1. \E x \in {a, b} : \A y \in {a, b} : x >= y
    <2>1. CASE a >= b
      BY <2>1
    <2>2. CASE b >= a
      BY <2>2
    <2>3. QED
      BY <2>1, <2>2
  <1>2. \E x \in {a, b} : \A y \in {a, b} : x <= y
    <2>1. CASE a >= b
      BY <2>1
    <2>2. CASE b >= a
      BY <2>2
    <2>3. QED
      BY <2>1, <2>2
  <1>3. Max({a, b}) \in {a, b} /\ \A y \in {a, b} : Max({a, b}) >= y
    BY <1>1, Zenon DEF Max
  <1>4. Min({a, b}) \in {a, b} /\ \A y \in {a, b} : Min({a, b}) <= y
    BY <1>2, Zenon DEF Min
  <1>5. QED
    BY <1>3, <1>4

(* Halving rounds up and stops at one worker.                              *)
LEMMA HalvedFacts ==
    ASSUME NEW w \in Nat
    PROVE  /\ Halved(w) \in Nat /\ Halved(w) >= 1
           /\ w >= 1 => Halved(w) <= w
           /\ \A v \in Nat : v <= w => Halved(v) <= Halved(w)
  <1>1. ASSUME NEW v \in Nat
        PROVE  /\ (v + 1) \div 2 \in Nat /\ Halved(v) \in {(v + 1) \div 2, 1}
               /\ Halved(v) >= (v + 1) \div 2 /\ Halved(v) >= 1
    BY OfTwo DEF Halved
  <1>2. Halved(w) \in Nat /\ Halved(w) >= 1
    BY <1>1
  <1>3. w >= 1 => Halved(w) <= w
    BY <1>1
  <1>4. ASSUME NEW v \in Nat, v <= w
        PROVE  Halved(v) <= Halved(w)
    <2>1. (v + 1) \div 2 <= (w + 1) \div 2
      BY <1>4
    <2>2. QED
      BY <1>1, <1>4, <2>1
  <1>5. QED
    BY <1>2, <1>3, <1>4

(* The base of a class on a machine; only an emulator may have none.       *)
LEMMA BaseFacts ==
    ASSUME NEW profile \in MachineProfile, NEW class \in WorkloadClass
    PROVE  /\ BaseWorkers(profile, class) \in Nat
           /\ class # "emulator" => BaseWorkers(profile, class) >= 1
           /\ class \in {"interactive", "cache"} => BaseWorkers(profile, class) = 1
  BY DEF MachineProfile, WorkloadClass, BaseWorkers, PerProfile

(* Pressure takes workers away, the more of it the more, but the last one  *)
(* only from an emulator.                                                  *)
LEMMA PressureFacts ==
    ASSUME NEW class \in WorkloadClass, NEW w \in Nat, NEW p \in Nat,
           class # "emulator" => w >= 1
    PROVE  /\ UnderPressure(p, class, w) \in Nat
           /\ UnderPressure(p, class, w) <= w
           /\ class # "emulator" => UnderPressure(p, class, w) >= 1
           /\ \A q \in Nat : q >= p =>
                 UnderPressure(q, class, w) <= UnderPressure(p, class, w)
  <1>1. /\ Halved(w) \in Nat /\ Halved(w) >= 1 /\ (w >= 1 => Halved(w) <= w)
    BY HalvedFacts
  <1>2. ASSUME NEW q \in Nat
        PROVE  /\ q < 1000 => UnderPressure(q, class, w) = w
               /\ q >= 1000 /\ class = "emulator" => UnderPressure(q, class, w) = 0
               /\ q >= 5000 /\ class # "emulator" => UnderPressure(q, class, w) = 1
               /\ q >= 1000 /\ q < 5000 /\ class # "emulator" =>
                     UnderPressure(q, class, w) = Halved(w)
    BY DEF UnderPressure, Contention, SevereContention
  <1>3. QED
    BY <1>1, <1>2

(* So does the battery.                                                    *)
LEMMA BatteryFacts ==
    ASSUME NEW class \in WorkloadClass, NEW w \in Nat, NEW v \in Nat, v <= w,
           class # "emulator" => v >= 1,
           NEW b \in BOOLEAN, NEW c \in BOOLEAN, b => c
    PROVE  /\ OnBattery(b, class, w) \in Nat
           /\ OnBattery(b, class, w) <= w
           /\ class # "emulator" => OnBattery(b, class, w) >= 1
           /\ OnBattery(c, class, v) <= OnBattery(b, class, w)
  <1>1. /\ Halved(w) \in Nat /\ Halved(w) >= 1 /\ (w >= 1 => Halved(w) <= w)
        /\ Halved(v) \in Nat /\ (v >= 1 => Halved(v) <= v) /\ Halved(v) <= Halved(w)
    BY HalvedFacts
  <1>2. CASE class = "build"
    <2>1. /\ OnBattery(b, class, w) = IF b THEN Halved(w) ELSE w
          /\ OnBattery(c, class, v) = IF c THEN Halved(v) ELSE v
      BY <1>2 DEF OnBattery
    <2>2. QED
      BY <1>1, <1>2, <2>1
  <1>3. CASE class = "emulator"
    <2>1. /\ OnBattery(b, class, w) = IF b THEN 0 ELSE w
          /\ OnBattery(c, class, v) = IF c THEN 0 ELSE v
      BY <1>3 DEF OnBattery
    <2>2. QED
      BY <1>3, <2>1
  <1>4. CASE class \notin {"build", "emulator"}
    <2>1. OnBattery(b, class, w) = w /\ OnBattery(c, class, v) = v
      BY <1>4 DEF OnBattery
    <2>2. QED
      BY <2>1
  <1>5. QED
    BY <1>2, <1>3, <1>4

(* workload_budget under more pressure, or off the mains.                  *)
LEMMA WorkersFacts ==
    ASSUME NEW s \in ResourceSnapshot, NEW t \in ResourceSnapshot, Harder(s, t),
           NEW class \in WorkloadClass
    PROVE  /\ Workers(t, class) <= Workers(s, class)
           /\ Workers(s, class) <= BaseWorkers(s.profile, class)
           /\ class # "emulator" => Workers(s, class) >= 1
           /\ Workers(s, class) \in Nat
  <1> DEFINE base == BaseWorkers(s.profile, class)
  <1>1. /\ s.profile \in MachineProfile /\ t.profile = s.profile
        /\ s.pressure \in Nat /\ t.pressure \in Nat /\ t.pressure >= s.pressure
        /\ s.battery \in BOOLEAN /\ t.battery \in BOOLEAN /\ (s.battery => t.battery)
    BY DEF ResourceSnapshot, Harder
  <1>2. base \in Nat /\ (class # "emulator" => base >= 1)
    BY <1>1, BaseFacts
  <1>3. CASE class = "interactive"
    BY <1>1, <1>2, <1>3 DEF Workers
  <1>4. CASE class # "interactive"
    <2> DEFINE w == UnderPressure(s.pressure, class, base)
               v == UnderPressure(t.pressure, class, base)
    <2>1. /\ w \in Nat /\ w <= base /\ v \in Nat /\ v <= w
          /\ class # "emulator" => v >= 1
      BY <1>1, <1>2, PressureFacts
    <2>2. /\ Workers(s, class) = OnBattery(s.battery, class, w)
          /\ Workers(t, class) = OnBattery(t.battery, class, v)
      BY <1>1, <1>4 DEF Workers
    <2> HIDE DEF w, v, base
    <2>3. /\ OnBattery(s.battery, class, w) \in Nat
          /\ OnBattery(s.battery, class, w) <= w
          /\ class # "emulator" => OnBattery(s.battery, class, w) >= 1
          /\ OnBattery(t.battery, class, v) <= OnBattery(s.battery, class, w)
      BY <1>1, <2>1, BatteryFacts
    <2>4. OnBattery(s.battery, class, w) <= base
      BY <1>2, <2>1, <2>3
    <2>5. QED
      BY <2>2, <2>3, <2>4 DEF base
  <1>5. QED
    BY <1>3, <1>4

LEMMA HarderThanItself == ASSUME NEW s \in ResourceSnapshot PROVE Harder(s, s)
  BY DEF ResourceSnapshot, Harder

LEMMA PolicyIsMonotone == ASSUME given \in Conditions PROVE PolicyMonotone
  <1>1. given \in ResourceSnapshot /\ Conditions \subseteq ResourceSnapshot
    BY ConditionsAssumption
  <1>2. SUFFICES ASSUME NEW class \in WorkloadClass
        PROVE  /\ \A t \in Conditions : Harder(given, t) =>
                     Workers(t, class) <= Workers(given, class)
               /\ Deferred(given, class) => class = "emulator"
               /\ Workers(given, class) <= BaseWorkers(given.profile, class)
    BY DEF PolicyMonotone
  <1>3. /\ Workers(given, class) <= BaseWorkers(given.profile, class)
        /\ class # "emulator" => Workers(given, class) >= 1
    BY <1>1, HarderThanItself, WorkersFacts
  <1>4. \A t \in Conditions : Harder(given, t) => Workers(t, class) <= Workers(given, class)
    BY <1>1, WorkersFacts
  <1>5. QED
    BY <1>3, <1>4 DEF Deferred

(* A clamped share of the memory: no more than there is, no less than one  *)
(* unit if there is any, and the more the higher its ceiling.              *)
LEMMA ClampFacts ==
    ASSUME NEW total \in Nat, NEW divisor \in {2, 8}, NEW floor \in Nat \ {0},
           NEW ceiling \in Nat \ {0}
    PROVE  LET x == ClampedBudget(total, divisor, floor, ceiling) IN
           /\ x \in Nat /\ x <= total /\ (total > 0 => x > 0)
           /\ \A higher \in Nat : higher >= ceiling =>
                 x <= ClampedBudget(total, divisor, floor, higher)
  <1> DEFINE share == Max({total \div divisor, Min({floor, total})})
  <1>1. total \div divisor \in Nat
    OBVIOUS
  <1>2. Min({floor, total}) \in Nat /\ (total > 0 => Min({floor, total}) > 0)
    BY OfTwo
  <1>3. share \in Nat /\ (total > 0 => share > 0)
    BY <1>1, <1>2, OfTwo
  <1>4. \A c \in Nat : ClampedBudget(total, divisor, floor, c) = Min({share, Min({c, total})})
    BY DEF ClampedBudget
  <1> HIDE DEF share
  <1> DEFINE m(c) == Min({c, total})
             x(c) == Min({share, m(c)})
  <1>5. \A c \in Nat : m(c) \in {c, total} /\ m(c) <= c /\ m(c) <= total
    BY OfTwo
  <1>6. \A c \in Nat : m(c) \in Nat
    BY <1>5
  <1>7. \A c \in Nat : x(c) \in {share, m(c)} /\ x(c) <= share /\ x(c) <= m(c)
    BY <1>3, <1>6, OfTwo
  <1>8. \A c \in Nat : ClampedBudget(total, divisor, floor, c) = x(c)
    BY <1>4
  <1> HIDE DEF m, x
  <1>9. ASSUME NEW c \in Nat \ {0}
        PROVE  x(c) \in Nat /\ x(c) <= total /\ (total > 0 => x(c) > 0)
    <2>1. m(c) \in Nat /\ m(c) <= total /\ (total > 0 => m(c) > 0)
      BY <1>5, <1>6
    <2>2. QED
      BY <1>3, <1>7, <2>1
  <1>10. ASSUME NEW higher \in Nat, higher >= ceiling
         PROVE  x(ceiling) <= x(higher)
    <2>1. m(ceiling) \in Nat /\ m(higher) \in Nat /\ m(ceiling) <= m(higher)
      BY <1>5, <1>6, <1>10
    <2>2. /\ x(ceiling) <= share /\ x(ceiling) <= m(ceiling)
          /\ x(higher) \in {share, m(higher)} /\ x(ceiling) \in Nat
      BY <1>7, <1>9
    <2>3. QED
      BY <1>3, <2>1, <2>2
  <1>11. QED
    BY <1>8, <1>9, <1>10

(* A share of the memory in the terms of workload_scope.                   *)
LEMMA ShareFacts ==
    ASSUME NEW total \in Nat, NEW divisor \in {2, 8}, NEW floor \in Nat \ {0},
           NEW ceiling \in Nat \ {0}, NEW higher \in Nat, higher >= ceiling
    PROVE  LET x == ClampedBudget(total, divisor, floor * MiB, ceiling * MiB) IN
           /\ x \in Nat /\ x <= total /\ (total > 0 => x > 0)
           /\ x <= ClampedBudget(total, divisor, floor * MiB, higher * MiB)
  <1> DEFINE f == floor * MiB
             c == ceiling * MiB
             h == higher * MiB
  <1>1. /\ f \in Nat \ {0} /\ c \in Nat \ {0} /\ h \in Nat /\ h >= c
    BY MiBAssumption
  <1> HIDE DEF f, c, h
  <1> DEFINE x == ClampedBudget(total, divisor, f, c)
  <1>2. /\ x \in Nat /\ x <= total /\ (total > 0 => x > 0)
        /\ x <= ClampedBudget(total, divisor, f, h)
    BY <1>1, ClampFacts
  <1>3. QED
    BY <1>2 DEF f, c, h

LEMMA ScopesFit == ASSUME given \in Conditions PROVE ScopeFits
  <1> DEFINE total == given.memory
             low  == ClampedBudget(total, 8, 64 * MiB, 512 * MiB)
             high == ClampedBudget(total, 2, 256 * MiB, 2048 * MiB)
             max  == ClampedBudget(total, 2, 256 * MiB, 4096 * MiB)
  <1>1. total \in Nat
    BY ConditionsAssumption DEF ResourceSnapshot
  <1>2. low <= total /\ (total > 0 => low > 0)
    BY <1>1, ShareFacts
  <1>3. high <= total /\ (total > 0 => high > 0)
    BY <1>1, ShareFacts
  <1>4. max <= total /\ (total > 0 => max > 0)
    BY <1>1, ShareFacts
  <1>5. high <= max
    <2> DEFINE f == 256
               c == 2048
               h == 4096
    <2>1. f \in Nat \ {0} /\ c \in Nat \ {0} /\ h \in Nat /\ h >= c
      OBVIOUS
    <2> HIDE DEF f, c, h
    <2>2. ClampedBudget(total, 2, f * MiB, c * MiB) <= ClampedBudget(total, 2, f * MiB, h * MiB)
      BY <1>1, <2>1, ShareFacts
    <2>3. QED
      BY <2>2 DEF f, c, h
  <1>6. \A class \in WorkloadClass :
            /\ MemoryLow(total, class) \subseteq {low}
            /\ MemoryHigh(total, class) \subseteq {high}
            /\ MemoryMax(total, class) \subseteq {max}
    BY DEF MemoryLow, MemoryHigh, MemoryMax
  <1> HIDE DEF low, high, max
  <1>7. QED
    BY <1>2, <1>3, <1>4, <1>5, <1>6 DEF ScopeFits

(* The schedule so far is the order so far, with budgets.                  *)
BudgetOf(i) ==
    [id |-> order[i], workers |-> Workers(given, ClassAt(i)),
     deferred |-> Deferred(given, ClassAt(i))]

Budgeted ==
    /\ Len(schedule) \in Nat /\ schedule = [i \in 1 .. Len(schedule) |-> BudgetOf(i)]
    /\ result \notin {"schedule", "scheduled"} => schedule = <<>>

LEMMA BudgetedStep ==
    ASSUME PlanInductive, Budgeted, [PlanNext]_planVars
    PROVE  Budgeted'
  <1>1. ASSUME UNCHANGED <<plan, given, order>>
        PROVE  \A i : BudgetOf(i)' = BudgetOf(i)
    BY <1>1 DEF BudgetOf, ClassAt, StepOf
  <1>2. CASE ScheduleStep
    <2> DEFINE n == Len(schedule)
               S == {BudgetOf(i) : i \in 1 .. n + 1}
    <2>1. /\ UNCHANGED <<plan, given, order, result>> /\ result = "schedule"
          /\ schedule' = Append(schedule, BudgetOf(n + 1))
      BY <1>2 DEF ScheduleStep, BudgetOf
    <2>2. n \in Nat /\ schedule = [i \in 1 .. n |-> BudgetOf(i)]
      BY DEF Budgeted
    <2>3. schedule \in Seq(S) /\ BudgetOf(n + 1) \in S
      <3>1. n + 1 \in 1 .. n + 1 /\ 1 .. n \subseteq 1 .. n + 1
        BY <2>2
      <3>2. BudgetOf(n + 1) \in S /\ \A i \in 1 .. n : BudgetOf(i) \in S
        BY <3>1
      <3>3. [i \in 1 .. n |-> BudgetOf(i)] \in [1 .. n -> S]
        BY <3>2
      <3>4. schedule \in [1 .. n -> S]
        BY <2>2, <3>3, Zenon
      <3> HIDE DEF S
      <3>5. QED
        BY <2>2, <3>2, <3>4
    <2>4. /\ schedule' \in Seq(S) /\ Len(schedule') = n + 1
          /\ DOMAIN schedule' = 1 .. n + 1
          /\ \A i \in 1 .. n : schedule'[i] = schedule[i]
          /\ schedule'[n + 1] = BudgetOf(n + 1)
      BY <2>1, <2>3, Pushed
    <2>5. \A i \in 1 .. n + 1 : schedule'[i] = BudgetOf(i)
      <3>1. \A i \in 1 .. n + 1 : i \in 1 .. n \/ i = n + 1
        BY <2>2
      <3>2. \A i \in 1 .. n : schedule[i] = BudgetOf(i)
        BY <2>2
      <3>3. QED
        BY <2>4, <3>1, <3>2
    <2>6. schedule' = [i \in 1 .. n + 1 |-> schedule'[i]]
      BY <2>4
    <2>7. schedule' = [i \in 1 .. n + 1 |-> BudgetOf(i)]
      BY <2>5, <2>6
    <2>8. QED
      BY <1>1, <2>1, <2>2, <2>4, <2>7 DEF Budgeted
  <1>3. CASE Complete
    <2>1. schedule' = schedule /\ result' = result /\ result = "visit"
      BY <1>3 DEF Complete
    <2>2. schedule = <<>>
      BY <2>1 DEF Budgeted
    <2>3. QED
      BY <2>1, <2>2 DEF Budgeted
  <1>4. CASE Validate \/ VisitNext \/ VisitDependency \/ Ordered \/ Return
             \/ UNCHANGED planVars
    <2>1. UNCHANGED <<plan, given, order, schedule>>
      BY <1>4 DEF Validate, VisitNext, VisitDependency, Ordered, Return, planVars
    <2>2. result \in {"schedule", "scheduled"} => result' \in {"schedule", "scheduled"}
      BY <1>4 DEF Validate, VisitNext, VisitDependency, Ordered, Return, planVars
    <2>3. QED
      BY <1>1, <2>1, <2>2 DEF Budgeted
  <1>5. QED
    BY <1>2, <1>3, <1>4 DEF PlanNext

LEMMA BudgetedSchedule == ASSUME Budgeted PROVE ScheduledByClass
  <1>1. SUFFICES ASSUME NEW i \in DOMAIN schedule
                 PROVE  /\ schedule[i].id = order[i]
                        /\ schedule[i].workers = Workers(given, StepOf(schedule[i].id).class)
                        /\ schedule[i].deferred <=> schedule[i].workers = 0
    BY DEF ScheduledByClass
  <1>2. schedule[i] = BudgetOf(i)
    BY <1>1 DEF Budgeted
  <1>3. /\ schedule[i].id = order[i]
        /\ schedule[i].workers = Workers(given, ClassAt(i))
        /\ schedule[i].deferred = Deferred(given, ClassAt(i))
    BY <1>2 DEF BudgetOf
  <1>4. QED
    BY <1>3 DEF ClassAt, Deferred

(* TestPlan::schedule gives each step the budget of its own class, and the *)
(* policy it takes it from is monotone in pressure and battery, defers     *)
(* nothing but emulators, and asks for memory the machine has, on every    *)
(* machine and in every condition.                                         *)
THEOREM BudgetSoundHolds == PlanSpec => []BudgetSound
  <1>1. PlanInit => Budgeted
    <2>1. Len(<<>>) = 0 /\ <<>> = [i \in 1 .. 0 |-> BudgetOf(i)]
      OBVIOUS
    <2>2. QED
      BY <2>1 DEF PlanInit, Budgeted
  <1>2. PlanInductive /\ Budgeted /\ [PlanNext]_planVars => Budgeted'
    BY BudgetedStep
  <1>3. PlanInductive /\ Budgeted => BudgetSound
    BY BudgetedSchedule, PolicyIsMonotone, ScopesFit
       DEF PlanInductive, PlanTypeOK, BudgetSound
  <1>4. QED
    BY <1>1, <1>2, <1>3, PlanInductiveHolds, PTL DEF PlanSpec
=============================================================================
