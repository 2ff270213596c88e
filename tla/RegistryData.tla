---------------------------- MODULE RegistryData ----------------------------
(* The records of the work-item registry (tools/registry) and the pure part  *)
(* of its commands: how statuses are derived, how the priority queue is      *)
(* rebuilt, which registries the validator accepts, how ids are minted and   *)
(* what `ready` and the backlog's gate column say of an item.                *)
(*                                                                           *)
(* An item id is the tuple of its numbers: i7 is <<7>>, i7c is <<7, 3>>,     *)
(* i7c-b2 is <<7, 3, 2>> and i7c-b2a is <<7, 3, 2, 1>>. Question qN is       *)
(* <<0, N>>. Titles, bodies, references and PR roles are left out; of a      *)
(* description only whether it is empty is kept.                             *)
EXTENDS Integers, SequencesExt

CONSTANT Letters   \* how many letters a sub-id may end in: 26 in the code

Statuses == {"OPEN", "IN_PROGRESS", "DONE", "WONTFIX"}
Open     == {"OPEN", "IN_PROGRESS"}
Closed   == {"DONE", "WONTFIX"}
Kinds    == {"leaf", "umbrella"}
Owners   == {"agent", "pete"}
NoParent == <<>>

TopLevel(n)  == <<n>>
Question(n)  == <<0, n>>
IsQuestion(id) == id[1] = 0

\* sortKey.less: numbers first, a missing suffix before any suffix.
Precedes(a, b) ==
  \E k \in 1 .. Len(b) : /\ \A i \in 1 .. k - 1 : i \in DOMAIN a /\ a[i] = b[i]
                         /\ k \in DOMAIN a => a[k] < b[k]

\* The ids in that order: each stands behind as many as precede it.
Canonical(ids) ==
  [k \in 1 .. Cardinality(ids) |->
     CHOOSE id \in ids : Cardinality({x \in ids : Precedes(x, id)}) = k - 1]

Occurs(id, seq) == \E k \in DOMAIN seq : seq[k] = id

\* The elements of seq that are in S, in their order.
Among(seq, S) ==
  LET keep[k \in 0 .. Len(seq)] ==
        IF k = 0 THEN <<>>
        ELSE IF seq[k] \in S THEN Append(keep[k - 1], seq[k]) ELSE keep[k - 1]
  IN  keep[Len(seq)]

Kids(items, id) == {c \in DOMAIN items : items[c].parent = id}

-----------------------------------------------------------------------------
(* Umbrellas. *)

\* An umbrella with children is DONE when all of them are closed, else OPEN;
\* one without children keeps the status it was given.
DerivedStatus(items) ==
  LET derived[id \in DOMAIN items] ==
        IF items[id].kind = "umbrella" /\ Kids(items, id) # {}
        THEN IF \A c \in Kids(items, id) : derived[c] \in Closed THEN "DONE" ELSE "OPEN"
        ELSE items[id].status
  IN  derived

DeriveUmbrellaStatuses(items) ==
  LET derived == DerivedStatus(items)
  IN  [id \in DOMAIN items |-> [items[id] EXCEPT !.status = derived[id]]]

-----------------------------------------------------------------------------
(* The priority queue. *)

PullableItems(items) ==
  {id \in DOMAIN items : items[id].status \in Open /\ items[id].kind # "umbrella"}

\* The queue entries a dependency stands for: itself, or the leaves in the
\* queue below an umbrella, or nothing for a closed item or a question.
ExpandDepTarget(items, inQueue, dep) ==
  LET below[id \in DOMAIN items] ==
        IF id \in inQueue THEN <<id>>
        ELSE IF items[id].kind # "umbrella" THEN <<>>
        ELSE LET kids == Canonical(Kids(items, id))
             IN  FlattenSeq([k \in DOMAIN kids |-> below[kids[k]]])
  IN  IF dep \in DOMAIN items THEN below[dep] ELSE <<>>

\* Mutant: an edge to an umbrella constrains nothing.
DirectPrerequisites(items, inQueue, id) == Among(items[id].deps, inQueue)

\* What must precede id in the queue, in the order the walk visits it.
Prerequisites(items, inQueue, id) ==
  LET deps == items[id].deps
  IN  FlattenSeq([k \in DOMAIN deps |-> ExpandDepTarget(items, inQueue, deps[k])])

\* Mutant: the order is taken as it is.
NoRepair(items, order) == order

\* A depth-first walk of the prerequisites: entries to enter and to leave, on
\* a stack; what has been entered; and the order in which entries were left.
Walks == [todo : Seq([id : Seq(Nat), at : {"enter", "leave"}]),
          seen : SUBSET Seq(Nat), out : Seq(Seq(Nat))]

Enter(ids) == [k \in DOMAIN ids |-> [id |-> ids[k], at |-> "enter"]]

WalkStep(needs, s) ==
  LET v == Head(s.todo) rest == Tail(s.todo)
      first == IF v.id \in DOMAIN needs THEN needs[v.id] ELSE <<>>
  IN  IF v.at = "leave" THEN [todo |-> rest, seen |-> s.seen, out |-> Append(s.out, v.id)]
      ELSE IF v.id \in s.seen THEN [todo |-> rest, seen |-> s.seen, out |-> s.out]
      ELSE [todo |-> Enter(first) \o (<<[id |-> v.id, at |-> "leave"]>> \o rest),
            seen |-> s.seen \cup {v.id}, out |-> s.out]

\* The walk from each entry in the given order.
TopoRepairPriority(items, order) ==
  LET inQueue == ToSet(order) \cap DOMAIN items
      needs == [id \in inQueue |-> Prerequisites(items, inQueue, id)]
      walk[s \in Walks] == IF s.todo = <<>> THEN s.out ELSE walk[WalkStep(needs, s)]
  IN  walk[[todo |-> Enter(order), seen |-> {}, out |-> <<>>]]

\* Mutant: the queue is built anew from the items.
RebuildPriority(items, queue) == TopoRepairPriority(items, Canonical(PullableItems(items)))

\* Entries that are still pullable keep their order, new ones go to the tail,
\* and the result is repaired.
ReconcilePriority(items, queue) ==
  LET pullable == PullableItems(items)
      kept == Among(queue, pullable)
  IN  TopoRepairPriority(items, kept \o Canonical(pullable \ ToSet(kept)))

\* validatePriority: an empty list is no list; otherwise each pullable item
\* once, and nothing before what it depends on.
ValidPriority(items, queue) ==
  queue # <<>> =>
    LET pullable == PullableItems(items)
        rank(id) == CHOOSE k \in DOMAIN queue : queue[k] = id
    IN  /\ IsInjective(queue)
        /\ ToSet(queue) = pullable
        /\ \A x \in pullable : \A y \in ToSet(Prerequisites(items, pullable, x)) :
             rank(x) >= rank(y)

-----------------------------------------------------------------------------
(* The validator. *)

\* No set of nodes each of which has a successor in the set.
Acyclic(succ) ==
  ~ \E loop \in SUBSET DOMAIN succ : loop # {} /\ \A x \in loop : succ[x] \cap loop # {}

DependsOn(items, x, y) == Occurs(y, items[x].deps)

\* findCycle over depends_on.
DependenciesAcyclic(items) ==
  Acyclic([x \in DOMAIN items |-> {y \in DOMAIN items : DependsOn(items, x, y)}])

\* validateWith, without the bounds on texts and the references.
ValidRegistry(items, questions) ==
  /\ \A id \in DOMAIN items :
       LET it == items[id] IN
       /\ it.kind = "umbrella" => it.prs = {}
       /\ it.status = "WONTFIX" => it.desc
       /\ \A k \in DOMAIN it.deps :
            /\ it.deps[k] \in DOMAIN items \cup questions
            /\ it.status # "WONTFIX" /\ it.deps[k] \in DOMAIN items
                 => items[it.deps[k]].status # "WONTFIX"
       /\ it.kind = "umbrella" /\ it.status = "DONE"
            => \A c \in Kids(items, id) : items[c].status \in Closed
       /\ it.parent # NoParent
            => it.parent \in DOMAIN items /\ items[it.parent].kind = "umbrella"
       /\ Len(id) > 1 => it.parent # NoParent
  /\ Acyclic([x \in DOMAIN items |-> {items[x].parent}])
  /\ DependenciesAcyclic(items)

-----------------------------------------------------------------------------
(* Ids. *)

\* nextItemID and nextQuestionID: one more than any number ever used.
NextItemID(items, ledger) ==
  LET used == {id[1] : id \in {i \in DOMAIN items \cup ledger : Len(i) = 1}}
  IN  TopLevel(IF used = {} THEN 1 ELSE Max(used) + 1)

\* Mutant: the ledger of deleted ids is not consulted.
NextFreeQuestionID(questions, ledger) ==
  Question(IF questions = {} THEN 1 ELSE Max({q[2] : q \in questions}) + 1)

NextQuestionID(questions, ledger) ==
  LET used == {id[2] : id \in {i \in questions \cup ledger : IsQuestion(i)}}
  IN  Question(IF used = {} THEN 1 ELSE Max(used) + 1)

\* nextSubID: the first number under the parent that was never minted; the
\* letter levels (2 and 4) have Letters of them, and there is no fifth level.
SubIDs(parent, taken) ==
  LET free == {n \in 1 .. Cardinality(taken) + 1 : Append(parent, n) \notin taken}
      allowed == {n \in free : Len(parent) \in {1, 3} => n <= Letters}
  IN  IF Len(parent) > 3 \/ allowed = {} THEN {} ELSE {Append(parent, Min(allowed))}

-----------------------------------------------------------------------------
(* What the registry says can be worked on. *)

\* An open question blocks, an item blocks until it is closed, anything that
\* is not in the registry does not block.
DepSatisfied(items, questions, dep) ==
  /\ dep \notin questions
  /\ dep \in DOMAIN items => items[dep].status \in Closed

Unsatisfied(items, questions, id) ==
  {dep \in ToSet(items[id].deps) : ~ DepSatisfied(items, questions, dep)}

\* runReady and readyList: in queue order, what is pullable, not started and
\* not blocked; Pete's items first when he is there and not at all otherwise.
Ready(items, questions, queue, includePete) ==
  LET order == IF queue # <<>> THEN queue ELSE Canonical(DOMAIN items)
      ready == {id \in PullableItems(items) : /\ items[id].status # "IN_PROGRESS"
                                              /\ Unsatisfied(items, questions, id) = {}}
      petes == {id \in ready : items[id].owner = "pete"}
  IN  (IF includePete THEN Among(order, petes) ELSE <<>>) \o Among(order, ready \ petes)

\* The open questions an item is rooted in, through any chain of dependencies.
RootQuestions(items, questions, id) ==
  LET reach == {S \in SUBSET DOMAIN items :
                  /\ id \in S
                  /\ \A x \in S : \A y \in DOMAIN items : DependsOn(items, x, y) => y \in S}
      below == CHOOSE S \in reach : \A T \in reach : S \subseteq T
  IN  {q \in questions : \E x \in below : Occurs(q, items[x].deps)}

\* Mutant: work in progress does not block.
StartedIsEnough(items, questions, dep) ==
  /\ dep \notin questions
  /\ dep \in DOMAIN items => items[dep].status \in Closed \cup {"IN_PROGRESS"}

\* computeGates' own copy of DepSatisfied, which "mirrors runReady".
GateSatisfied(items, questions, dep) ==
  dep \notin questions /\ (dep \notin DOMAIN items \/ items[dep].status \in Closed)

\* computeGates: who is holding an item.
Gate(items, questions, id) ==
  LET blockers == {dep \in ToSet(items[id].deps) : ~ GateSatisfied(items, questions, dep)}
      roots == RootQuestions(items, questions, id)
      holder(kind, who) == [kind |-> kind, ids |-> who]
  IN  CASE items[id].status = "IN_PROGRESS" -> holder("in-progress", {})
        [] items[id].status # "IN_PROGRESS" /\ blockers = {} ->
             holder(IF items[id].owner = "pete" THEN "pete" ELSE "ready", {})
        [] items[id].status # "IN_PROGRESS" /\ blockers # {} /\ roots # {} -> holder("questions", roots)
        [] OTHER -> holder("work", blockers)
=============================================================================
