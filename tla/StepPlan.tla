------------------------------- MODULE StepPlan -------------------------------
(***************************************************************************)
(* BuildPlan::execution_order and TestPlan::execution_order, which are one *)
(* algorithm, and TestPlan::schedule.  The steps of a plan are validated,  *)
(* then visited depth first, dependencies in ascending order; the frames   *)
(* of visit are the elements of stack, and what each has left to visit is  *)
(* in pending.  The order is then given budgets by the resource policy.    *)
(***************************************************************************)
EXTENDS Policy, Sequences

CONSTANTS
    Ids,    \* step identifiers, compared as numbers
    Calls   \* calls of schedule: a sequence of steps and a snapshot

Steps == [id : Ids, deps : SUBSET Ids, class : WorkloadClass, sound : BOOLEAN]

ASSUME IdAssumption == Ids \subseteq Nat
ASSUME CallAssumption ==
    \A call \in Calls : call[1] \in Seq(Steps) /\ call[2] \in Conditions

VARIABLES
    plan,      \* TestPlan.steps
    given,     \* the snapshot schedule is given
    mark,      \* the VisitState of each identifier, or "new"
    stack,     \* the identifiers whose visit is not over, outermost first
    pending,   \* for each of them the dependencies not looked at yet
    order,     \* the order so far
    next,      \* the step execution_order visits next
    schedule,  \* the schedule so far
    result     \* where the call is, or what it returned

planVars == <<plan, given, mark, stack, pending, order, next, schedule, result>>

Results == {"validate", "visit", "schedule", "scheduled", "refused", "cycle"}

Planned == {plan[i].id : i \in DOMAIN plan}

(* The map from identifiers to steps.                                      *)
StepOf(id) == plan[CHOOSE i \in DOMAIN plan : plan[i].id = id]

Deps(id) == StepOf(id).deps

PlanInit ==
    /\ \E call \in Calls : plan = call[1] /\ given = call[2]
    /\ mark = [id \in Ids |-> "new"]
    /\ stack = <<>>
    /\ pending = [id \in Ids |-> {}]
    /\ order = <<>>
    /\ next = 1
    /\ schedule = <<>>
    /\ result = "validate"

(* Each dependency is a step of the plan.                                  *)
Closed == \A i \in DOMAIN plan : plan[i].deps \subseteq Planned

(* Identifiers and commands are well-formed, identifiers are unique, and   *)
(* dependencies known.                                                     *)
Valid ==
    /\ \A i \in DOMAIN plan : plan[i].sound
    /\ \A i, k \in DOMAIN plan : plan[i].id = plan[k].id => i = k
    /\ Closed

Validate ==
    /\ result = "validate"
    /\ result' = IF Valid THEN "visit" ELSE "refused"
    /\ UNCHANGED <<plan, given, mark, stack, pending, order, next, schedule>>

(* A new frame of visit: the dependencies are sorted and made unique.      *)
Push(id) ==
    /\ mark' = [mark EXCEPT ![id] = "visiting"]
    /\ stack' = Append(stack, id)
    /\ pending' = [pending EXCEPT ![id] = Deps(id)]

Unmoved == UNCHANGED <<mark, stack, pending>>

Top == stack[Len(stack)]

(* execution_order calls visit for the next step.                          *)
VisitNext ==
    /\ result = "visit" /\ stack = <<>> /\ next <= Len(plan)
    /\ next' = next + 1
    /\ LET id == plan[next].id IN
          \/ mark[id] = "done" /\ Unmoved
          \/ mark[id] = "new" /\ Push(id)
    /\ UNCHANGED <<plan, given, order, schedule, result>>

Seen(id) == mark[id] = "done"

(* visit calls itself for its next dependency.                             *)
VisitDependency ==
    /\ result = "visit" /\ stack # <<>> /\ pending[Top] # {}
    /\ \E d \in pending[Top] :
       /\ \A x \in pending[Top] : d <= x
       /\ \/ /\ Seen(d)
             /\ pending' = [pending EXCEPT ![Top] = @ \ {d}]
             /\ UNCHANGED <<mark, stack, result>>
          \/ /\ ~Seen(d) /\ mark[d] = "visiting"
             /\ result' = "cycle"
             /\ Unmoved
          \/ /\ mark[d] = "new"
             /\ mark' = [mark EXCEPT ![d] = "visiting"]
             /\ stack' = Append(stack, d)
             /\ pending' = [pending EXCEPT ![Top] = @ \ {d}, ![d] = Deps(d)]
             /\ UNCHANGED result
    /\ UNCHANGED <<plan, given, order, next, schedule>>

Place(id) == order' = Append(order, id)

(* Mutant: a step stays in the state it was visited in.                    *)
DoneNever(id) == UNCHANGED mark

MarkDone(id) == mark' = [mark EXCEPT ![id] = "done"]

(* visit returns.                                                          *)
Complete ==
    /\ result = "visit" /\ stack # <<>> /\ pending[Top] = {}
    /\ MarkDone(Top)
    /\ Place(Top)
    /\ stack' = SubSeq(stack, 1, Len(stack) - 1)
    /\ UNCHANGED <<plan, given, pending, next, schedule, result>>

(* Mutant: the loop ends before the last step.                             *)
AllButOneVisited == next >= Len(plan)

AllVisited == next > Len(plan)

Ordered ==
    /\ result = "visit" /\ stack = <<>> /\ AllVisited
    /\ result' = "schedule"
    /\ UNCHANGED <<plan, given, mark, stack, pending, order, next, schedule>>

ClassAt(i) == StepOf(order[i]).class

(* schedule: the budget of each step in the order.                         *)
ScheduleStep ==
    /\ result = "schedule" /\ Len(schedule) < Len(order)
    /\ LET i == Len(schedule) + 1 IN
          schedule' = Append(schedule,
              [id |-> order[i], workers |-> Workers(given, ClassAt(i)),
               deferred |-> Deferred(given, ClassAt(i))])
    /\ UNCHANGED <<plan, given, mark, stack, pending, order, next, result>>

Return ==
    /\ result = "schedule" /\ Len(schedule) = Len(order)
    /\ result' = "scheduled"
    /\ UNCHANGED <<plan, given, mark, stack, pending, order, next, schedule>>

PlanNext ==
    \/ Validate \/ VisitNext \/ VisitDependency \/ Complete \/ Ordered
    \/ ScheduleStep \/ Return

PlanSpec == PlanInit /\ [][PlanNext]_planVars
-----------------------------------------------------------------------------
PlanTypeOK ==
    /\ plan \in Seq(Steps)
    /\ given \in Conditions
    /\ mark \in [Ids -> {"new", "visiting", "done"}]
    /\ stack \in Seq(Ids)
    /\ pending \in [Ids -> SUBSET Ids]
    /\ order \in Seq(Ids)
    /\ next \in Nat \ {0}
    /\ result \in Results

(* The inductive invariant behind Studio_proofs.  The frames are the       *)
(* steps being visited; each was called for a dependency of the one below  *)
(* it; and what a frame has looked at is done, but for the one above it.   *)
Framed ==
    /\ \A i, k \in DOMAIN stack : stack[i] = stack[k] => i = k
    /\ \A x \in Ids : mark[x] = "visiting" <=> \E i \in DOMAIN stack : stack[i] = x
    /\ \A i \in DOMAIN stack : stack[i] \in Planned
    /\ \A i \in DOMAIN stack : i > 1 => stack[i] \in Deps(stack[i - 1])

LookedAt ==
    \A i \in DOMAIN stack :
        /\ pending[stack[i]] \subseteq Deps(stack[i])
        /\ \A d \in Deps(stack[i]) \ pending[stack[i]] :
              mark[d] = "done" \/ (i < Len(stack) /\ stack[i + 1] = d)

Marked == \A x \in Ids : mark[x] = "done" <=> \E i \in DOMAIN order : order[i] = x

Begun ==
    /\ result = "validate" =>
          stack = <<>> /\ order = <<>> /\ next = 1 /\ \A x \in Ids : mark[x] = "new"
    /\ result \notin {"validate", "refused"} => Valid
    /\ \A i \in 1 .. next - 1 : i \in DOMAIN plan => mark[plan[i].id] # "new"
    /\ result \in {"schedule", "scheduled"} => stack = <<>> /\ AllVisited

(* A set of steps each of which depends on another of them: in a finite    *)
(* plan there is one if and only if there is a cycle.                      *)
Knot == {S \in SUBSET Planned : S # {} /\ \A x \in S : Deps(x) \cap S # {}}

(* Every step in the order comes after all its dependencies, and once.     *)
DependenciesFirst ==
    \A i \in DOMAIN order :
        /\ \A d \in Deps(order[i]) : \E k \in 1 .. i - 1 : order[k] = d
        /\ \A k \in 1 .. i - 1 : order[k] # order[i]

(* "A dependency cycle prevents a valid execution order": it is reported   *)
(* only for a plan that has one.                                           *)
CycleReported == result = "cycle" => Knot # {}

PlanInductive ==
    PlanTypeOK /\ Framed /\ LookedAt /\ Marked /\ Begun /\ DependenciesFirst /\ CycleReported

(* ... and a plan that is ordered has none, and is ordered as a whole.     *)
OrderExact ==
    result \in {"schedule", "scheduled"} =>
        /\ Knot = {}
        /\ \A id \in Planned : \E i \in DOMAIN order : order[i] = id

(* Each entry of the schedule has the budget of its own step's class.      *)
ScheduledByClass ==
    \A i \in DOMAIN schedule : LET s == schedule[i] IN
        /\ s.id = order[i]
        /\ s.workers = Workers(given, StepOf(s.id).class)
        /\ s.deferred <=> s.workers = 0

(* t is the machine of s under at least as much pressure.                  *)
Harder(s, t) ==
    /\ t.profile = s.profile /\ t.memory = s.memory
    /\ t.pressure >= s.pressure /\ (s.battery => t.battery)

(* More pressure never gives more workers; only emulators are ever         *)
(* deferred; and no machine gets more than an idle one.                    *)
PolicyMonotone ==
    \A class \in WorkloadClass :
        /\ \A t \in Conditions : Harder(given, t) =>
              Workers(t, class) <= Workers(given, class)
        /\ Deferred(given, class) => class = "emulator"
        /\ Workers(given, class) <= BaseWorkers(given.profile, class)

(* The memory settings of a scope fit the machine and each other.          *)
ScopeFits ==
    \A class \in WorkloadClass : LET total == given.memory IN
        /\ \A x \in MemoryLow(total, class) \cup MemoryHigh(total, class)
                        \cup MemoryMax(total, class) : x <= total /\ (total > 0 => x > 0)
        /\ \A h \in MemoryHigh(total, class), m \in MemoryMax(total, class) : h <= m

(* What schedule and the scopes are given is each step's own budget, and   *)
(* fit for the machine.                                                    *)
BudgetSound == ScheduledByClass /\ PolicyMonotone /\ ScopeFits
=============================================================================
