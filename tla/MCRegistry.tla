----------------------------- MODULE MCRegistry -----------------------------
(* Registries to start from, each of which a session of commands makes: an    *)
(* empty one, a chain of dependencies, an umbrella with open and closed       *)
(* children and a dependent, one umbrella inside another with a question at   *)
(* the bottom, and entries of both owners ranked against their numbers.       *)
EXTENDS Registry

Leaf(status, deps, parent) == Record(status, deps, "leaf", "agent", {}, parent, TRUE)
Umbrella(status, parent)   == Record(status, <<>>, "umbrella", "agent", {}, parent, TRUE)
Pete(it)                   == [it EXCEPT !.owner = "pete"]

Empty == NoRegistry

Chain ==
  [items |-> (<<1>> :> Leaf("OPEN", <<<<2>>>>, NoParent)) @@ (<<2>> :> Leaf("IN_PROGRESS", <<>>, NoParent))
             @@ (<<3>> :> [Leaf("DONE", <<>>, NoParent) EXCEPT !.prs = {1}, !.desc = FALSE]),
   questions |-> {<<0, 1>>}, queue |-> <<<<2>>, <<1>>>>]

Family ==
  [items |-> (<<1>> :> Umbrella("OPEN", NoParent)) @@ (<<1, 1>> :> Leaf("OPEN", <<>>, <<1>>))
             @@ (<<1, 2>> :> Leaf("DONE", <<>>, <<1>>))
             @@ (<<2>> :> Leaf("OPEN", <<<<1>>>>, NoParent)),
   questions |-> {}, queue |-> <<<<1, 1>>, <<2>>>>]

Nested ==
  [items |-> (<<1>> :> Umbrella("OPEN", NoParent)) @@ (<<1, 1>> :> Umbrella("OPEN", <<1>>))
             @@ (<<1, 1, 1>> :> Leaf("OPEN", <<<<0, 1>>>>, <<1, 1>>))
             @@ (<<2>> :> Leaf("OPEN", <<<<1>>>>, NoParent)),
   questions |-> {<<0, 1>>}, queue |-> <<<<1, 1, 1>>, <<2>>>>]

Ranked ==
  [items |-> (<<1>> :> Leaf("OPEN", <<>>, NoParent)) @@ (<<2>> :> Pete(Leaf("OPEN", <<>>, NoParent)))
             @@ (<<3>> :> Leaf("OPEN", <<>>, NoParent)) @@ (<<4>> :> Leaf("OPEN", <<<<3>>>>, NoParent)),
   questions |-> {}, queue |-> <<<<3>>, <<2>>, <<4>>, <<1>>>>]

MCExtras == {[prs |-> {}, desc |-> TRUE, owner |-> "agent"],
             [prs |-> {1}, desc |-> FALSE, owner |-> "pete"]}

MCSeeds == {Empty, Chain, Family, Nested, Ranked}
ChainSeeds == {Chain}
=============================================================================
