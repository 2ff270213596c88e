----------------------------- MODULE AsmRecords -----------------------------
(* The records the assembler works on (tools/sam-aarch64-format) and the     *)
(* expressions in them (tools/aarch64enc): what its stages share.            *)
EXTENDS Integers, Sequences, SequencesExt, Functions

\* A record: what it is, a name or an instruction class, a size (of a datum,
\* a literal, an alignment), and the expression it holds.
Record(k, n, w, e) == [k |-> k, n |-> n, w |-> w, e |-> e]
Expr(op, v) == [op |-> op, v |-> v]

\* What the parser yields: a literal is a load of four or eight bytes, an empty
\* datum has no operand; an alignment below 1 stands for 1, as for the passes.
IsExpr(e) == e.op \in {"int", "dot", "sym", "local"} /\ (e.op = "int" => e.v \in Int)
IsRecord(r) ==
  /\ r.k \in {"label", "local", "inst", "ldr", "set", "ltorg", "org", "data", "balign", "skip", "section"}
  /\ r.w \in Nat /\ IsExpr(r.e)
  /\ r.k = "balign" => r.w # 0
  /\ r.k = "ldr" => r.w \in {4, 8} /\ r.n = "mem"
  /\ r.k = "data" /\ r.w = 0 => r.e.op = "int"
IsProgram(recs) == recs \in Seq(Range(recs)) /\ \A i \in DOMAIN recs : IsRecord(recs[i])

Pad(a, n) == (n - (a % n)) % n

With(f, k, v) == [i \in DOMAIN f \cup {k} |-> IF i = k THEN v ELSE f[i]]
Empty == [n \in {} |-> 0]

\* What stands at the indices of a set, in order.
Kept(seq, S) ==
  LET kept[i \in 0 .. Len(seq)] ==
        IF i = 0 THEN <<>> ELSE IF i \in S THEN Append(kept[i - 1], seq[i]) ELSE kept[i - 1]
  IN  kept[Len(seq)]

\* Mutant: a definition at the very address counts as one further on.
AtOrAfter(v, from) == v >= from
IsForward(v, from) == v > from

\* A local label is looked up by address: the first definition further on, or
\* the last one that is not.
LocalLabel(dir, from, defs) ==
  {defs[k] : k \in IF dir = "f"
     THEN {h \in DOMAIN defs : IsForward(defs[h], from) /\ \A g \in 1 .. h - 1 : ~IsForward(defs[g], from)}
     ELSE {h \in DOMAIN defs : defs[h] <= from /\ \A g \in h + 1 .. Len(defs) : defs[g] > from}}

\* The set of the value, empty when a name is not known.
Eval(e, from, symbols, defs) ==
  CASE e.op = "int"   -> {e.v}
    [] e.op = "dot"   -> {from}
    [] e.op = "sym"   -> IF e.v \in DOMAIN symbols THEN {symbols[e.v]} ELSE {}
    [] e.op = "local" -> LocalLabel(e.v, from, defs)
=============================================================================
