------------------------------ MODULE Registry ------------------------------
(* The registry command line (tools/registry): processes that run one        *)
(* command each over three source files and an append-only id ledger. A      *)
(* command loads the files one after the other, changes its copy, validates  *)
(* it and writes the files one after the other; each write replaces a file   *)
(* as a whole. A command in the table of mutating commands holds a file lock *)
(* from before it loads until the process ends.                              *)
EXTENDS RegistryData

CONSTANTS
  Procs,         \* processes, each running one command at a time
  Seeds,         \* registries [items, questions, queue] to start from
  MaxCommands,   \* bound: commands begun
  MaxItems,      \* bound: items in the registry
  MaxQuestions,  \* bound: questions in the registry
  MaxCrashes,    \* bound: processes killed
  NewDeps,       \* bound: dependencies of a new item, at most
  Extras         \* bound: the PRs, description and owner new items come with

CONSTANT Nobody
ASSUME RegistryAssumption == Nobody \notin Procs

\* An id has a number, a question's one after its 0.
IsId(id) == id \in Seq(Nat) /\ id # <<>> /\ (IsQuestion(id) => Len(id) > 1)

Record(status, deps, kind, owner, prs, parent, desc) ==
  [status |-> status, deps |-> deps, kind |-> kind, owner |-> owner,
   prs |-> prs, parent |-> parent, desc |-> desc]

Ids == Seq(Nat)
Records == [status : Statuses, deps : Seq(Ids), kind : Kinds, owner : Owners,
            prs : SUBSET Nat, parent : Ids, desc : BOOLEAN]

IsItems(its) == \A id \in DOMAIN its : id \in Ids /\ its[id] \in Records

\* An umbrella with children is DONE exactly when all of them are closed and
\* OPEN otherwise.
UmbrellasAreDerived(its) ==
  \A id \in DOMAIN its :
    its[id].kind = "umbrella" /\ Kids(its, id) # {} =>
      its[id].status = IF \A c \in Kids(its, id) : its[c].status \in Closed THEN "DONE" ELSE "OPEN"

\* A session starts from registries as earlier commands left them: the validator
\* accepts records and queue, and applyAndCommit derived the umbrellas and put
\* every pullable item into the queue.
ASSUME SeedsAssumption ==
  \A s \in Seeds :
    /\ s = [items |-> s.items, questions |-> s.questions, queue |-> s.queue]
    /\ IsFiniteSet(DOMAIN s.items \cup s.questions)
    /\ \A id \in DOMAIN s.items \cup s.questions : IsId(id)
    /\ IsItems(s.items) /\ s.queue \in Seq(Ids)
    /\ ValidRegistry(s.items, s.questions) /\ ValidPriority(s.items, s.queue)
    /\ UmbrellasAreDerived(s.items) /\ (s.queue = <<>> => PullableItems(s.items) = {})

ASSUME ExtrasAssumption == Extras \subseteq [prs : SUBSET Nat, desc : BOOLEAN, owner : Owners]
ASSUME BoundsAssumption == {MaxCommands, MaxCrashes} \subseteq Nat

VARIABLES
  items, questions, queue,   \* items.yaml, questions.yaml, priority.yaml
  ledger,                    \* .id-ledger.txt, one id per line
  lock,                      \* the process that holds .lock, or Nobody
  pc,                        \* where each process is
  cmd,                       \* the command each process runs
  reg,                       \* each process's copy of the registry
  begun, crashes,            \* how many commands were begun, and killed
  stale,                     \* processes whose copy was overtaken by a write
  raced,                     \* a command without the lock overlapped another
  torn                       \* a commit was cut short and not yet made good

files == <<items, questions, queue>>
vars  == <<items, questions, queue, ledger, lock, pc, cmd, reg, begun, crashes, stale, raced, torn>>
ghosts == <<stale, raced, torn>>

NoRegistry == [items |-> <<>>, questions |-> {}, queue |-> <<>>]

\* lock.go's table of the commands that must run under the lock, and the
\* commands that write source files.
MutatingCommands == {"add", "split", "set-status", "set-title", "set-desc", "set-pr",
                     "dep", "answer", "prioritize", "move"}
Commands == MutatingCommands \cup {"set-owner"}

Running(p) == pc[p] # "idle"

Init ==
  /\ \E s \in Seeds : /\ items = s.items /\ questions = s.questions /\ queue = s.queue
                      /\ ledger = SetToSeq(DOMAIN s.items \cup s.questions)
  /\ lock = Nobody
  /\ pc = [p \in Procs |-> "idle"]
  /\ cmd = [p \in Procs |-> "none"]
  /\ reg = [p \in Procs |-> NoRegistry]
  /\ begun = 0 /\ crashes = 0
  /\ stale = {} /\ raced = FALSE /\ torn = FALSE

-----------------------------------------------------------------------------
(* A command's life. *)

\* Mutant: set-title is not in the table.
Unlocked == MutatingCommands \ {"set-title"}
BeginTitleUnlocked(p, c) ==
  /\ ~Running(p) /\ begun < MaxCommands
  /\ c \in Unlocked => lock = Nobody
  /\ lock' = IF c \in Unlocked THEN p ELSE lock
  /\ pc' = [pc EXCEPT ![p] = "items"]
  /\ cmd' = [cmd EXCEPT ![p] = c]
  /\ begun' = begun + 1
  /\ raced' = (raced \/ \E r \in Procs : Running(r) /\ {c, cmd[r]} \ MutatingCommands # {})
  /\ UNCHANGED <<files, ledger, reg, crashes, stale, torn>>

\* A process starts; a mutating command first takes the lock.
Begin(p, c) ==
  /\ ~Running(p) /\ begun < MaxCommands
  /\ c \in MutatingCommands => lock = Nobody
  /\ lock' = IF c \in MutatingCommands THEN p ELSE lock
  /\ pc' = [pc EXCEPT ![p] = "items"]
  /\ cmd' = [cmd EXCEPT ![p] = c]
  /\ begun' = begun + 1
  /\ raced' = (raced \/ \E r \in Procs : Running(r) /\ {c, cmd[r]} \ MutatingCommands # {})
  /\ UNCHANGED <<files, ledger, reg, crashes, stale, torn>>

\* The lock stayed taken for longer than lockTimeout: the command ends.
GiveUp(p, c) ==
  /\ ~Running(p) /\ begun < MaxCommands
  /\ c \in MutatingCommands /\ lock # Nobody
  /\ begun' = begun + 1
  /\ UNCHANGED <<files, ledger, lock, pc, cmd, reg, crashes, ghosts>>

\* loadReg reads the three files in turn.
LoadItems(p) ==
  /\ pc[p] = "items"
  /\ reg' = [reg EXCEPT ![p] = [@ EXCEPT !.items = items]]
  /\ pc' = [pc EXCEPT ![p] = "questions"]
  /\ UNCHANGED <<files, ledger, lock, cmd, begun, crashes, ghosts>>

LoadQuestions(p) ==
  /\ pc[p] = "questions"
  /\ reg' = [reg EXCEPT ![p] = [@ EXCEPT !.questions = questions]]
  /\ pc' = [pc EXCEPT ![p] = "queue"]
  /\ UNCHANGED <<files, ledger, lock, cmd, begun, crashes, ghosts>>

LoadQueue(p) ==
  /\ pc[p] = "queue"
  /\ reg' = [reg EXCEPT ![p] = [@ EXCEPT !.queue = queue]]
  /\ pc' = [pc EXCEPT ![p] = "loaded"]
  /\ UNCHANGED <<files, ledger, lock, cmd, begun, crashes, ghosts>>

\* The process ends, by itself or killed: the system releases its lock.
End(p) ==
  /\ pc' = [pc EXCEPT ![p] = "idle"]
  /\ cmd' = [cmd EXCEPT ![p] = "none"]
  /\ reg' = [reg EXCEPT ![p] = NoRegistry]
  /\ lock' = IF lock = p THEN Nobody ELSE lock
  /\ stale' = stale \ {p}

\* Arguments that name no record, or that the command refuses itself.
Reject(p) ==
  /\ pc[p] = "loaded"
  /\ End(p)
  /\ UNCHANGED <<files, ledger, begun, crashes, raced, torn>>

\* Mutant: the statuses of umbrellas are left as they are.
ReconciledOnly(new) == [new EXCEPT !.queue = ReconcilePriority(new.items, new.queue)]

\* The first half of applyAndCommit: derive the statuses, rebuild the queue,
\* validate. Nothing is written when the result is not valid.
Reconciled(new) ==
  LET its == DeriveUmbrellaStatuses(new.items)
  IN  [new EXCEPT !.items = its, !.queue = ReconcilePriority(its, new.queue)]

\* Mutant: the validator's verdict on the queue is not asked for.
AcceptableItems(new) == ValidRegistry(new.items, new.questions)

\* Mutant: only the queue is validated.
AcceptableQueue(new) == ValidPriority(new.items, new.queue)

Acceptable(new) ==
  ValidRegistry(new.items, new.questions) /\ ValidPriority(new.items, new.queue)

Apply(p, new) ==
  LET r == Reconciled(new) IN
  /\ reg' = [reg EXCEPT ![p] = r]
  /\ pc' = [pc EXCEPT ![p] = IF Acceptable(r) THEN "write items" ELSE "refused"]
  /\ UNCHANGED <<files, lock, cmd, begun, crashes, ghosts>>

\* applyPriorityChange: only the queue is repaired, checked and written.
ApplyPriorityChange(p, order) ==
  LET new == TopoRepairPriority(reg[p].items, order) IN
  /\ reg' = [reg EXCEPT ![p] = [@ EXCEPT !.queue = new]]
  /\ pc' = [pc EXCEPT ![p] = IF ValidPriority(reg[p].items, new) THEN "write queue" ELSE "refused"]
  /\ UNCHANGED <<files, ledger, lock, cmd, begun, crashes, ghosts>>

Refuse(p) ==
  /\ pc[p] = "refused"
  /\ End(p)
  /\ UNCHANGED <<files, ledger, begun, crashes, raced, torn>>

\* The others that read the file p writes before p wrote it; notYet are the
\* places before that read.
Overtaken(p, notYet) == stale \cup {r \in Procs \ {p} : pc[r] \notin {"idle"} \cup notYet}

WriteItems(p) ==
  /\ pc[p] = "write items"
  /\ items' = reg[p].items
  /\ pc' = [pc EXCEPT ![p] = "write questions"]
  /\ stale' = Overtaken(p, {"items"})
  /\ UNCHANGED <<questions, queue, ledger, lock, cmd, reg, begun, crashes, raced, torn>>

WriteQuestions(p) ==
  /\ pc[p] = "write questions"
  /\ questions' = reg[p].questions
  /\ pc' = [pc EXCEPT ![p] = "write queue"]
  /\ stale' = Overtaken(p, {"items", "questions"})
  /\ UNCHANGED <<items, queue, ledger, lock, cmd, reg, begun, crashes, raced, torn>>

\* The last write; the process ends.
WriteQueue(p) ==
  /\ pc[p] = "write queue"
  /\ queue' = reg[p].queue
  /\ pc' = [pc EXCEPT ![p] = "idle"]
  /\ cmd' = [cmd EXCEPT ![p] = "none"]
  /\ reg' = [reg EXCEPT ![p] = NoRegistry]
  /\ lock' = IF lock = p THEN Nobody ELSE lock
  /\ stale' = Overtaken(p, {"items", "questions", "queue"}) \ {p}
  /\ torn' = FALSE
  /\ UNCHANGED <<items, questions, ledger, begun, crashes, raced>>

\* The process is killed between two of its steps.
Crash(p) ==
  /\ Running(p) /\ crashes < MaxCrashes
  /\ crashes' = crashes + 1
  /\ End(p)
  /\ torn' = (torn \/ pc[p] = "write questions"
                   \/ (pc[p] = "write queue" /\ cmd[p] \notin {"prioritize", "move"}))
  /\ UNCHANGED <<files, ledger, begun, raced>>

-----------------------------------------------------------------------------
(* The commands. *)

Loaded(p, c) == pc[p] = "loaded" /\ cmd[p] = c

Known(p) == DOMAIN reg[p].items \cup reg[p].questions
DepLists(p) == {s \in SeqOf(Known(p), NewDeps) : IsInjective(s)}

WithItem(r, id, it) ==
  [r EXCEPT !.items = [i \in DOMAIN r.items \cup {id} |-> IF i = id THEN it ELSE r.items[i]]]

\* appendToLedger, before the registry is validated.
Mint(id) == ledger' = Append(ledger, id)

AddItem(p) ==
  /\ Loaded(p, "add")
  /\ Cardinality(DOMAIN reg[p].items) < MaxItems
  /\ LET id == NextItemID(reg[p].items, ToSet(ledger)) IN
     \E status \in Statuses, deps \in DepLists(p), kind \in Kinds, x \in Extras, toTop \in BOOLEAN :
       LET r == WithItem(reg[p], id, Record(status, deps, kind, x.owner, x.prs, NoParent, x.desc)) IN
       /\ Mint(id)
       /\ Apply(p, IF toTop THEN [r EXCEPT !.queue = <<id>> \o @] ELSE r)

AddQuestion(p) ==
  /\ Loaded(p, "add")
  /\ Cardinality(reg[p].questions) < MaxQuestions
  /\ LET id == NextQuestionID(reg[p].questions, ToSet(ledger)) IN
     /\ Mint(id)
     /\ Apply(p, [reg[p] EXCEPT !.questions = @ \cup {id}])

\* Where split puts the child in the queue: at the parent's rank, else after
\* its last sibling in the queue, else nowhere (the tail).
SeedRank(q, parent, siblings) ==
  LET at(S) == {k \in DOMAIN q : q[k] \in S}
  IN  IF at({parent}) # {} THEN Min(at({parent}))
      ELSE IF at(siblings) # {} THEN Max(at(siblings)) + 1 ELSE 0

SeedChild(q, parent, siblings, child) ==
  LET k == SeedRank(q, parent, siblings) IN IF k = 0 THEN q ELSE InsertAt(q, k, child)

\* The parent becomes an umbrella without PRs; what depends on it still does.
Split(p) ==
  /\ Loaded(p, "split")
  /\ Cardinality(DOMAIN reg[p].items) < MaxItems
  /\ \E parent \in DOMAIN reg[p].items :
     LET its == reg[p].items
         promoted == [its EXCEPT ![parent] = [@ EXCEPT !.kind = "umbrella", !.prs = {}]]
     IN
     \E id \in SubIDs(parent, DOMAIN its \cup reg[p].questions \cup ToSet(ledger)),
        status \in Statuses, deps \in DepLists(p), kind \in Kinds, x \in Extras :
     \E owner \in {its[parent].owner, x.owner} :
       /\ Mint(id)
       /\ Apply(p, WithItem([reg[p] EXCEPT !.items = promoted,
                                           !.queue = SeedChild(@, parent, Kids(its, parent), id)],
                            id, Record(status, deps, kind, owner, x.prs, parent, x.desc)))

\* A change of one record, through applyAndCommit.
Change(p, id, it) ==
  /\ Apply(p, [reg[p] EXCEPT !.items = [@ EXCEPT ![id] = it]])
  /\ UNCHANGED ledger

SetStatus(p) ==
  /\ Loaded(p, "set-status")
  /\ \E id \in DOMAIN reg[p].items, status \in Statuses, prs \in {{}, {1}} :
       Change(p, id, [reg[p].items[id] EXCEPT !.status = status, !.prs = @ \cup prs])

\* set-title changes nothing that is kept here.
SetTitle(p) ==
  /\ Loaded(p, "set-title")
  /\ \E id \in DOMAIN reg[p].items : Change(p, id, reg[p].items[id])

SetDesc(p) ==
  /\ Loaded(p, "set-desc")
  /\ \/ \E id \in DOMAIN reg[p].items : Change(p, id, [reg[p].items[id] EXCEPT !.desc = TRUE])
     \/ reg[p].questions # {} /\ Apply(p, reg[p]) /\ UNCHANGED ledger

SetOwner(p) ==
  /\ Loaded(p, "set-owner")
  /\ \E id \in DOMAIN reg[p].items, owner \in Owners :
       Change(p, id, [reg[p].items[id] EXCEPT !.owner = owner])

SetPR(p) ==
  /\ Loaded(p, "set-pr")
  /\ \E id \in DOMAIN reg[p].items :
       Change(p, id, [reg[p].items[id] EXCEPT !.prs = @ \cup {1}])

Without(seq, id) == Among(seq, ToSet(seq) \ {id})

\* The target must exist, must not be WONTFIX, and not be there already.
DepAdd(p) ==
  /\ Loaded(p, "dep")
  /\ \E id \in DOMAIN reg[p].items, on \in Known(p) :
       LET it == reg[p].items[id] IN
       /\ on \in DOMAIN reg[p].items /\ reg[p].items[on].status = "WONTFIX" => it.status = "WONTFIX"
       /\ ~Occurs(on, it.deps)
       /\ Change(p, id, [it EXCEPT !.deps = Append(@, on)])

DepRm(p) ==
  /\ Loaded(p, "dep")
  /\ \E id \in DOMAIN reg[p].items : \E on \in ToSet(reg[p].items[id].deps) :
       Change(p, id, [reg[p].items[id] EXCEPT !.deps = Without(@, on)])

\* A question goes only when nothing depends on it.
Answer(p) ==
  /\ Loaded(p, "answer")
  /\ \E q \in reg[p].questions :
       /\ \A id \in DOMAIN reg[p].items : ~Occurs(q, reg[p].items[id].deps)
       /\ Apply(p, [reg[p] EXCEPT !.questions = @ \ {q}])
  /\ UNCHANGED ledger

Prioritize(p) ==
  /\ Loaded(p, "prioritize")
  /\ \E id \in ToSet(reg[p].queue) : ApplyPriorityChange(p, <<id>> \o Without(reg[p].queue, id))

Move(p) ==
  /\ Loaded(p, "move")
  /\ \E id \in ToSet(reg[p].queue) :
       LET rest == Without(reg[p].queue, id) IN
       \E k \in DOMAIN rest, after \in {0, 1} : ApplyPriorityChange(p, InsertAt(rest, k + after, id))

Mutate(p) ==
  \/ AddItem(p) \/ AddQuestion(p) \/ Split(p) \/ SetStatus(p) \/ SetTitle(p) \/ SetDesc(p)
  \/ SetOwner(p) \/ SetPR(p) \/ DepAdd(p) \/ DepRm(p) \/ Answer(p) \/ Prioritize(p) \/ Move(p)

Step(p) ==
  \/ LoadItems(p) \/ LoadQuestions(p) \/ LoadQueue(p) \/ Mutate(p) \/ Reject(p) \/ Refuse(p)
  \/ WriteItems(p) \/ WriteQuestions(p) \/ WriteQueue(p)

Next ==
  \E p \in Procs :
    \/ \E c \in Commands : Begin(p, c) \/ GiveUp(p, c)
    \/ Step(p)
    \/ Crash(p)

Spec == Init /\ [][Next]_vars

-----------------------------------------------------------------------------
(* Properties. *)

PcValues == {"idle", "items", "questions", "queue", "loaded", "refused",
             "write items", "write questions", "write queue"}

\* The files and the copies hold records of the schema (model.go).
TypeOK ==
  /\ IsItems(items) /\ questions \subseteq Ids /\ queue \in Seq(Ids) /\ ledger \in Seq(Ids)
  /\ lock \in Procs \cup {Nobody}
  /\ pc \in [Procs -> PcValues]
  /\ cmd \in [Procs -> Commands \cup {"none"}]
  /\ \A p \in Procs : IsItems(reg[p].items) /\ reg[p].questions \subseteq Ids
                      /\ reg[p].queue \in Seq(Ids)
  /\ begun \in 0 .. MaxCommands /\ crashes \in 0 .. MaxCrashes
  /\ stale \subseteq Procs /\ raced \in BOOLEAN /\ torn \in BOOLEAN

\* An id is minted once, whatever became of the command that minted it: the
\* ledger never repeats a line and knows every id in the files (spec
\* invariant 1, "never reused").
IdsAreMintedOnce ==
  /\ IsInjective(ledger)
  /\ DOMAIN items \cup questions \subseteq ToSet(ledger)

\* Whatever is cut short, and although items and questions are two files
\* written one after the other, the pair always passes the validator.
FilesAreValid == ~raced => ValidRegistry(items, questions)

\* Every umbrella has the status that its children give it, after every command
\* and every crash.
UmbrellasFollowChildren == ~raced => UmbrellasAreDerived(items)

\* Nobody is between the write of items.yaml and that of priority.yaml, and
\* nobody was killed there since the last commit.
QueueIsSettled ==
  ~raced /\ ~torn /\ \A p \in Procs : pc[p] \notin {"write questions", "write queue"}

\* A settled queue holds each pullable item once, after all it depends on; a
\* commit that was cut short is made good by the next one.
QueueFollowsItems ==
  QueueIsSettled => /\ ValidPriority(items, queue)
                    /\ queue = <<>> => PullableItems(items) = {}

\* What must come before an entry, directly or not, for the order alone.
LeavesAcyclic(its) ==
  LET pullable == PullableItems(its)
      needs == [x \in pullable |-> ToSet(Prerequisites(its, pullable, x)) \ {x}]
  IN  Acyclic(needs)

\* A commit is refused only for an invalid registry or for dependencies that,
\* through umbrellas, go in a circle: the rebuilt queue is otherwise always in
\* order. A change of rank is refused only while a commit lies cut short.
RefusedForCause ==
  \A p \in Procs : pc[p] = "refused" =>
    IF cmd[p] \in {"prioritize", "move"} THEN raced \/ torn
    ELSE \/ ~ValidRegistry(reg[p].items, reg[p].questions)
         \/ ~LeavesAcyclic(reg[p].items)

\* The first entry of the queue never waits for another entry: what blocks it
\* is a question, or an umbrella with nothing in the queue but that entry.
HeadWaitsForNoEntry ==
  QueueIsSettled /\ queue # <<>> =>
    \A dep \in Unsatisfied(items, questions, Head(queue)) :
      \/ dep \in questions
      \/ ToSet(ExpandDepTarget(items, ToSet(queue), dep)) \subseteq {Head(queue)}

\* The gate column of the backlog and `ready` agree on every queue entry.
GatesMirrorReady ==
  QueueIsSettled => \A id \in ToSet(queue) :
    LET kind == Gate(items, questions, id).kind IN
    /\ Occurs(id, Ready(items, questions, queue, FALSE)) <=> kind = "ready"
    /\ Occurs(id, Ready(items, questions, queue, TRUE)) <=> kind \in {"ready", "pete"}

\* No process writes a file from a copy that another's write has overtaken.
NoUpdateIsLost ==
  [][\A p \in Procs : WriteItems(p) \/ WriteQuestions(p) \/ WriteQueue(p) =>
       p \notin stale \/ raced]_vars

\* The same, for every interleaving of the commands.
NoUpdateIsEverLost ==
  [][\A p \in Procs : WriteItems(p) \/ WriteQuestions(p) \/ WriteQueue(p) => p \notin stale]_vars

\* The queue keeps its ranking: one entry overtakes another only to come before
\* something that depends on it and is not behind that other for its own sake.
RankOf(q, id) == CHOOSE k \in DOMAIN q : q[k] = id

Needed(its, z) ==
  LET pullable == PullableItems(its)
      needs == [x \in pullable |-> ToSet(Prerequisites(its, pullable, x))]
      closed == {S \in SUBSET pullable : needs[z] \subseteq S /\ \A x \in S : needs[x] \subseteq S}
  IN  CHOOSE S \in closed : \A T \in closed : S \subseteq T

Overtakes(x, y, old, new) ==
  RankOf(old, x) < RankOf(old, y) /\ RankOf(new, y) < RankOf(new, x)

RankingIsKept ==
  [][~raced /\ (\E p \in Procs : WriteQueue(p) /\ cmd[p] \notin {"prioritize", "move"}) =>
       \A x, y \in ToSet(queue) \cap ToSet(queue') : Overtakes(x, y, queue, queue') =>
         \E z \in ToSet(queue') :
           /\ y \in Needed(items, z)
           /\ (RankOf(queue', z) <= RankOf(queue', x) \/ x \in Needed(items, z))]_vars
=============================================================================
