------------------------------ MODULE Assembler ------------------------------
(***************************************************************************)
(* The assembler (tools/sam-aarch64): the front end turns a source file    *)
(* into records, and the back end (assemble/) lays them out: Pass1 walks   *)
(* the records of a source file and gives each one an address, Pass2 walks *)
(* them again and emits the image, and the Cortex-A53 errata workarounds   *)
(* rewrite it, one of them by inserting records and laying everything out  *)
(* anew.  The properties are about what the two walks must agree on, so an *)
(* instruction is a class and the address its operand names, a datum its   *)
(* size and value; encodings are left out.                                 *)
(***************************************************************************)
EXTENDS FrontEnd

CONSTANTS
  Inputs,         \* what may be assembled: a list of kinds of source, each with
                  \* the lines it begins with and the options it is given
  PageSize        \* of erratum 843419: 4096 in the code

\* A layout has at least a code and a data section.
IsLayout(layout) ==
  /\ layout \in Seq(Range(layout)) /\ Len(layout) >= 2
  /\ \A k \in DOMAIN layout : {layout[k].startAlign, layout[k].trailingAlign} \subseteq Nat

ASSUME AssemblerAssumption ==
  /\ \A i \in DOMAIN Inputs : LET in == Inputs[i] IN
       /\ in.opts.fixes \subseteq {"835769", "843419"} /\ in.opts.parsed \in BOOLEAN
       /\ in.opts.parsed => \A source \in in.sources : IsProgram(in.head \o source)
       /\ in.opts.layout # <<>> => IsLayout(in.opts.layout) /\ in.opts.origin \in Nat
  /\ PageSize \in Nat /\ PageSize >= 8

VARIABLES
  lines, opts,    \* the main file, and its options: is it parsed already, the
                  \* workarounds asked for, the layout (none: not flattened)
                  \* and its origin
  pp,             \* what Preprocess has made of it
  prog,           \* the records, as they stand
  stage,          \* "source", "flatten", "pass1", "pass2", "errata", "done",
                  \* "error" or "mismatch"
  at, pc,         \* the record a pass has come to, and its address
  res,            \* Pass1Result
  pending,        \* pool entries made since the last flush
  image,          \* what Pass2 emits, as chunks
  relaid          \* is this the second layout, with the NOPs in it?

given == <<lines, opts, pp>>
vars == <<given, prog, stage, at, pc, res, pending, image, relaid>>

Here == prog[at]

Chunk(k, n, from, len, rec, val) ==
  [k |-> k, n |-> n, pc |-> from, len |-> len, rec |-> rec, val |-> val]

pass1EvalCtx(e, from) == Eval(e, from, res.symbols, <<>>)
makeCtx(e, from) == Eval(e, from, res.symbols, res.localDefs)
-----------------------------------------------------------------------------
(* The literal pool: the pending entries are laid out four-byte words      *)
(* first, then eight-byte ones, each group aligned, in encounter order.    *)
OfWidth(pool, ids, w) == Kept(ids, {k \in DOMAIN ids : pool[ids[k]].w = w})
Fours(pool, ids) == OfWidth(pool, ids, 4)
Eights(pool, ids) == OfWidth(pool, ids, 8)

FourBase(pool, ids, from) == IF Fours(pool, ids) = <<>> THEN from ELSE from + Pad(from, 4)
FourEnd(pool, ids, from) == FourBase(pool, ids, from) + 4 * Len(Fours(pool, ids))
\* Mutant: the eight-byte words follow the four-byte ones with no padding.
Unpadded(pool, ids, from) == FourEnd(pool, ids, from)
EightBase(pool, ids, from) ==
  IF Eights(pool, ids) = <<>> THEN FourEnd(pool, ids, from)
  ELSE FourEnd(pool, ids, from) + Pad(FourEnd(pool, ids, from), 8)
PoolEnd(pool, ids, from) == EightBase(pool, ids, from) + 8 * Len(Eights(pool, ids))

Rank(ids, i) == CHOOSE k \in DOMAIN ids : ids[k] = i
SlotPC(pool, ids, from, i) ==
  IF pool[i].w = 4 THEN FourBase(pool, ids, from) + 4 * (Rank(Fours(pool, ids), i) - 1)
  ELSE EightBase(pool, ids, from) + 8 * (Rank(Eights(pool, ids), i) - 1)

\* flushPool, of the pending entries `ids' at `from': what it makes of the
\* results of the pass, and where it leaves the pass.
Flush(r, ids, from) ==
  IF ids = <<>> THEN r
  ELSE [r EXCEPT
         !.pool = [i \in DOMAIN @ |-> IF i \in Range(ids)
                     THEN [@[i] EXCEPT !.pc = SlotPC(r.pool, ids, from, i)] ELSE @[i]],
         !.flushes = With(@, from, [ids |-> ids, after |-> PoolEnd(r.pool, ids, from)])]
AfterFlush(r, ids, from) == IF ids = <<>> THEN from ELSE PoolEnd(r.pool, ids, from)
NothingPending == <<>>

\* Mutant: two literals of one expression share a slot, whatever their widths.
SameExpr(p, w, e) == p.e = e
SameKey(p, w, e) == p.w = w /\ p.e = e

\* The slot of the literal at hand: a pending one with its key, or a new one.
Shared(r) == {i \in Range(pending) : SameKey(res.pool[i], r.w, r.e)}
Unplaced == -1

registerLiteral(r, seen) ==
  IF Shared(r) # {}
    THEN /\ res' = [seen EXCEPT !.ldrPool = With(@, pc, CHOOSE i \in Shared(r) : TRUE)]
         /\ UNCHANGED pending
    ELSE LET i == Len(seen.pool) + 1 IN
         /\ res' = [seen EXCEPT
              !.pool = Append(@, [w |-> r.w, e |-> r.e, evalPC |-> pc, pc |-> Unplaced]),
              !.ldrPool = With(@, pc, i)]
         /\ pending' = Append(pending, i)
-----------------------------------------------------------------------------
(* The front end: the main file line by line, then its records.            *)
Stop == UNCHANGED <<given, prog>> /\ stage' = "error"

ReadLine == /\ stage = "source" /\ ~Preprocessed(pp)
            /\ IF ~processLines(pp).ok THEN Stop
               ELSE pp' = processLines(pp) /\ UNCHANGED <<lines, opts, prog, stage>>
            /\ UNCHANGED <<at, pc, res, pending, image, relaid>>

\* Parse: it yields the records of what went on, or an error.
Parsed == [r \in DOMAIN pp.out |-> pp.out[r].rec]
Read == /\ stage = "source" /\ Preprocessed(pp)
        /\ IF ~Complete(pp) \/ ~IsProgram(Parsed) THEN Stop
           ELSE /\ prog' = Parsed /\ UNCHANGED given
                /\ stage' = IF opts.layout = <<>> THEN "pass1" ELSE "flatten"
        /\ UNCHANGED <<at, pc, res, pending, image, relaid>>

LayOut == /\ stage = "flatten"
          /\ LET flat == Flatten(prog, opts.layout, opts.origin) IN
             IF ~flat.ok THEN Stop
             ELSE prog' = flat.out /\ stage' = "pass1" /\ UNCHANGED given
          /\ UNCHANGED <<at, pc, res, pending, image, relaid>>
-----------------------------------------------------------------------------
(* Pass1, one record a step.                                               *)
EmptyResult == [symbols |-> Empty, localDefs |-> <<>>, pool |-> <<>>,
                ldrPool |-> Empty, flushes |-> Empty,
                recordPC |-> <<>>, origin |-> 0, total |-> 0]

\* The results with the record at hand noted.
Seen == [res EXCEPT !.recordPC = Append(@, pc)]

Fail == stage' = "error" /\ UNCHANGED <<prog, given, at, pc, res, pending, image, relaid>>

In(s, k) == stage = s /\ at <= Len(prog) /\ Here.k = k
Step1 == at' = at + 1 /\ UNCHANGED <<prog, given, stage, image, relaid>>

LabelDef1 == /\ In("pass1", "label") /\ Step1
             /\ res' = [Seen EXCEPT !.symbols = With(@, Here.n, pc)]
             /\ UNCHANGED <<pc, pending>>

LocalDef1 == /\ In("pass1", "local") /\ Step1
             /\ res' = [Seen EXCEPT !.localDefs = Append(@, pc)]
             /\ UNCHANGED <<pc, pending>>

Inst1 == /\ In("pass1", "inst") /\ Step1 /\ res' = Seen /\ pc' = pc + 4 /\ UNCHANGED pending

LdrLiteral1 == /\ In("pass1", "ldr") /\ Step1 /\ registerLiteral(Here, Seen) /\ pc' = pc + 4

\* A value-symbol: computed with a `.' of 0, and never given a second value.
Set1 == /\ In("pass1", "set")
        /\ LET v == pass1EvalCtx(Here.e, 0) IN
             IF v = {} \/ Here.n \in DOMAIN res.symbols THEN Fail
             ELSE /\ Step1 /\ \E x \in v : res' = [Seen EXCEPT !.symbols = With(@, Here.n, x)]
                  /\ UNCHANGED <<pc, pending>>

Ltorg1 == /\ In("pass1", "ltorg") /\ Step1 /\ res' = Flush(Seen, pending, pc)
          /\ pc' = AfterFlush(res, pending, pc) /\ pending' = NothingPending

\* The first .org before any output sets the origin; a later one goes ahead.
SetsOrigin(to) == pc = res.origin /\ res.pool = <<>> /\ pc = 0 /\ to # 0

Org1 == /\ In("pass1", "org")
        /\ LET v == pass1EvalCtx(Here.e, pc) IN
             IF v = {} \/ \E to \in v : to < pc THEN Fail
             ELSE \E to \in v :
               /\ Step1 /\ pc' = to /\ UNCHANGED pending
               /\ res' = [Seen EXCEPT !.origin = IF SetsOrigin(to) THEN to ELSE @]

\* directiveSizeAtPC: the sizes a data or padding directive may have here.
directiveSizeAtPC(r) ==
  CASE r.k = "data" -> {r.w}
    [] r.k = "balign" -> {Pad(pc, r.w)}
    [] r.k = "skip" -> pass1EvalCtx(r.e, pc)
    [] r.k = "section" -> {0}

Directive1 ==
  \E k \in {"data", "balign", "skip", "section"} :
    /\ In("pass1", k)
    /\ IF directiveSizeAtPC(Here) = {} THEN Fail
       ELSE /\ Step1 /\ res' = Seen /\ UNCHANGED pending
            /\ \E n \in directiveSizeAtPC(Here) : pc' = pc + n

\* The end of the source: flush, note the total size and start again.
Pass1Done == /\ stage = "pass1" /\ at = Len(prog) + 1
             /\ res' = [Flush(res, pending, pc) EXCEPT !.total = AfterFlush(res, pending, pc)]
             /\ pending' = NothingPending
             /\ stage' = "pass2" /\ at' = 1 /\ pc' = res.origin /\ image' = <<>>
             /\ UNCHANGED <<prog, given, relaid>>

Pass1 == \/ LabelDef1 \/ LocalDef1 \/ Inst1 \/ LdrLiteral1 \/ Set1 \/ Ltorg1
         \/ Org1 \/ Directive1 \/ Pass1Done
-----------------------------------------------------------------------------
(* Pass2WithMap, one record a step, from the addresses of Pass1.           *)
Emit(c) == /\ image' = Append(image, c) /\ pc' = pc + c.len
           /\ at' = at + 1 /\ UNCHANGED <<prog, given, stage, res, pending, relaid>>

Code(val) == Chunk("code", Here.n, pc, 4, at, val)

Skip2 == /\ \E k \in {"label", "local", "set", "section"} : In("pass2", k)
         /\ at' = at + 1
         /\ UNCHANGED <<prog, given, stage, pc, res, pending, image, relaid>>

\* encodeInst: the operand is an address anywhere near; its encoding is left out.
encodeInst == /\ In("pass2", "inst")
              /\ IF makeCtx(Here.e, pc) = {} THEN Fail
                 ELSE \E v \in makeCtx(Here.e, pc) : Emit(Code(v))

encodeLdrLitPoolInst == /\ In("pass2", "ldr")
                        /\ LET to == {res.pool[res.ldrPool[a]].pc : a \in DOMAIN res.ldrPool \cap {pc}} IN
                           IF \A t \in to : (t - pc) % 4 # 0 THEN Fail
                           ELSE \E t \in to : Emit(Code(t))

EmitData == /\ In("pass2", "data")
            /\ IF makeCtx(Here.e, pc) = {} THEN Fail
               ELSE \E v \in makeCtx(Here.e, pc) : Emit(Chunk("data", "", pc, Here.w, at, v))

EmitAlign == In("pass2", "balign") /\ Emit(Chunk("pad", "nop", pc, Pad(pc, Here.w), at, 0))

\* A negative count is a slice that cannot be made.
EmitSkip == /\ In("pass2", "skip")
            /\ IF \A n \in makeCtx(Here.e, pc) : n < 0 THEN Fail
               ELSE \E n \in makeCtx(Here.e, pc) : Emit(Chunk("pad", "", pc, n, at, 0))

\* The origin is in pc from the start: its .org finds nothing left to pad.
EmitOrg == /\ In("pass2", "org")
           /\ IF \A to \in makeCtx(Here.e, pc) : to < pc THEN Fail
              ELSE \E to \in makeCtx(Here.e, pc) : Emit(Chunk("pad", "", pc, to - pc, at, 0))

\* emitFlush: the entries of the flush that pass 1 noted at this address, each
\* padded to its size from where pass 2 stands.
PlaceEntry(r, n, acc, i) ==
  LET w == r.pool[i].w
      gap == Chunk("pad", "", acc.pc, Pad(acc.pc, w), n, 0)
      v == Eval(r.pool[i].e, r.pool[i].evalPC, r.symbols, r.localDefs)
  IN  IF v = {} THEN [acc EXCEPT !.known = FALSE]
      ELSE [acc EXCEPT !.pc = gap.pc + gap.len + w,
                       !.out = @ \o <<gap, Chunk("pool", "", gap.pc + gap.len, w, n, CHOOSE x \in v : TRUE)>>]

Placed(r, n, from, order) ==
  LET after[k \in 0 .. Len(order)] ==
        IF k = 0 THEN [pc |-> from, known |-> TRUE, out |-> <<>>]
        ELSE PlaceEntry(r, n, after[k - 1], order[k])
  IN  after[Len(order)]

Flushed == LET ids == res.flushes[pc].ids IN
  Placed(res, at, pc, Fours(res.pool, ids) \o Eights(res.pool, ids))

Noted == pc \in DOMAIN res.flushes
emitFlush(next) ==
  IF Noted /\ ~Flushed.known THEN Fail
  ELSE IF Noted /\ Flushed.pc # res.flushes[pc].after
    THEN stage' = "mismatch" /\ UNCHANGED <<prog, given, at, pc, res, pending, image, relaid>>
  ELSE /\ image' = IF Noted THEN image \o Flushed.out ELSE image
       /\ pc' = IF Noted THEN Flushed.pc ELSE pc
       /\ at' = at + 1 /\ stage' = next /\ UNCHANGED <<prog, given, res, pending, relaid>>

Ltorg2 == In("pass2", "ltorg") /\ emitFlush("pass2")
Pass2Done == stage = "pass2" /\ at = Len(prog) + 1 /\ emitFlush("errata")

Pass2 == \/ Skip2 \/ encodeInst \/ encodeLdrLitPoolInst \/ EmitData \/ EmitAlign
         \/ EmitSkip \/ EmitOrg \/ Ltorg2 \/ Pass2Done
-----------------------------------------------------------------------------
(* The workarounds, over the instruction words of the image in order: data *)
(* and padding are in between by their addresses only.                     *)
CodeMap == Kept(image, {c \in DOMAIN image : image[c].k = "code"})
Word(i, n) == i \in DOMAIN CodeMap /\ CodeMap[i].n = n
Adjacent(i, j) == {i, j} \subseteq DOMAIN CodeMap /\ CodeMap[j].pc = CodeMap[i].pc + 4 * (j - i)

\* aarch64MemOp; of these only a load pair may not be second of an 843419.
MemOp == {"mem", "memu", "pair"}
aarch64ErratumSequence(i) ==
  /\ i \in DOMAIN CodeMap /\ CodeMap[i].n \in MemOp
  /\ Word(i + 1, "mac") /\ Adjacent(i, i + 1)

\* Mutant: the window starts at the second pair.
FromSecond == {CodeMap[i + 1].rec : i \in {j \in 2..Len(CodeMap) : aarch64ErratumSequence(j)}}
insertSet == {CodeMap[i + 1].rec : i \in {j \in DOMAIN CodeMap : aarch64ErratumSequence(j)}}

Nop == Record("inst", "nop", 0, Expr("int", 0))
WithNops(recs, before) ==
  LET with[i \in 0 .. Len(recs)] ==
        IF i = 0 THEN <<>>
        ELSE with[i - 1] \o (IF i \in before THEN <<Nop, recs[i]>> ELSE <<recs[i]>>)
  IN  with[Len(recs)]

MayInsert == "835769" \in opts.fixes /\ ~relaid /\ insertSet # {}

\* The NOPs go in before their MACs and everything is laid out once more.
fixErratum835769 ==
  /\ stage = "errata" /\ MayInsert
  /\ prog' = WithNops(prog, insertSet) /\ relaid' = TRUE /\ stage' = "pass1" /\ at' = 1 /\ pc' = 0
  /\ res' = EmptyResult /\ image' = <<>> /\ UNCHANGED <<given, pending>>

\* The ADRP at i and the words at j and k after it are sequence 1 of 843419.
aarch64Erratum843419SequenceP(i, j, k) ==
  /\ Word(i, "adrp") /\ Adjacent(i, j) /\ Adjacent(i, k)
  /\ CodeMap[j].n \in MemOp \ {"pair"} /\ Word(k, "memu")
LastSlots(from) == from % PageSize \in {PageSize - 8, PageSize - 4}

\* Mutant: only the sequence without an instruction in between.
CaseAOnly(i) == LastSlots(CodeMap[i].pc) /\ aarch64Erratum843419SequenceP(i, i + 1, i + 2)
Vulnerable(i) == /\ LastSlots(CodeMap[i].pc)
                 /\ \/ aarch64Erratum843419SequenceP(i, i + 1, i + 2)
                    \/ aarch64Erratum843419SequenceP(i, i + 1, i + 3)

\* rewriteADRPtoADR at every vulnerable ADRP: same address, another opcode.
fixErratum843419 ==
  /\ stage = "errata" /\ ~MayInsert
  /\ LET hit == {CodeMap[i].pc : i \in {j \in DOMAIN CodeMap : Vulnerable(j)}} IN
     image' = IF "843419" \notin opts.fixes THEN image
              ELSE [c \in DOMAIN image |-> IF image[c].k = "code" /\ image[c].pc \in hit
                      THEN [image[c] EXCEPT !.n = "adr"] ELSE image[c]]
  /\ stage' = "done" /\ UNCHANGED <<prog, given, at, pc, res, pending, relaid>>

\* The back end may also be handed records.
Init == /\ \E i \in DOMAIN Inputs : \E source \in Inputs[i].sources :
             LET all == Inputs[i].head \o source IN
             /\ opts = Inputs[i].opts
             /\ lines = (IF opts.parsed THEN <<>> ELSE all) /\ pp = NewPreprocessor(lines)
             /\ prog = IF opts.parsed THEN all ELSE <<>>
        /\ stage = IF opts.parsed THEN "pass1" ELSE "source"
        /\ at = 1 /\ pc = 0 /\ res = EmptyResult
        /\ pending = <<>> /\ image = <<>> /\ relaid = FALSE

Next == ReadLine \/ Read \/ LayOut \/ Pass1 \/ Pass2 \/ fixErratum835769 \/ fixErratum843419

Spec == Init /\ [][Next]_vars
-----------------------------------------------------------------------------
(* Properties.                                                             *)
Done == stage = "done"
\* No label has the name of another, or of a value-symbol before it: the last
\* one would win, and pass 1 has sized what came before with the other.
NamesOnce(recs) ==
  \A i, j \in DOMAIN recs :
    (i < j /\ recs[i].k \in {"label", "set"} /\ recs[j].k = "label") => recs[i].n # recs[j].n

WasRead == stage \in {"flatten", "pass1"} /\ at = 1 /\ ~relaid

\* The structure of the main file, told from its lines alone: which are in the
\* body of a macro, how deep a line is, which conditionals are around it.
InMacro(i) == \E m \in 1..i - 1 : lines[m].k = "macro" /\ \A j \in m + 1..i - 1 : lines[j].k # "endm"
Count(k, i) == Cardinality({j \in 1..i - 1 : lines[j].k = k /\ ~InMacro(j)})
Level(i) == Count("if", i) - Count("endif", i)
Encloses(j, i) == /\ lines[j].k = "if" /\ ~InMacro(j)
                  /\ \A h \in j + 1..i : Level(h) > Level(j)
InElse(j, i) == \E h \in j + 1..i - 1 : lines[h].k = "else" /\ ~InMacro(h) /\ Level(h) = Level(j) + 1

\* What a symbol was last set to by a line that goes on, before line j.
Settings(n, j) == {r \in DOMAIN pp.out : pp.out[r].rec.k = "set" /\ pp.out[r].rec.n = n
                                        /\ pp.out[r].rec.e.op = "int" /\ pp.out[r].top < j}
Holds(j) == LET sets == Settings(lines[j].n, j) IN sets # {} /\ pp.out[Max(sets)].rec.e.v # 0

Plain(i) == lines[i].k \notin {"if", "else", "endif", "macro", "endm", "call", "include"} /\ ~InMacro(i)
Assembled(i) == \A j \in 1..i - 1 : Encloses(j, i) => (Holds(j) # InElse(j, i))

\* A line of the main file goes on, once, if and only if every conditional
\* around it is on its side, whatever macros and included files set and
\* however they are nested. The file an error would name is the line's own;
\* its line number is right after an include or a call and never too high,
\* and it falls behind only where a line was consumed (preprocess.go: "so
\* parse errors still point at the original source").
SourceIsRead ==
  WasRead =>
    /\ \A i \in DOMAIN lines : Plain(i) =>
         Cardinality({r \in DOMAIN pp.out : pp.out[r].at = <<Main, i>>}) = IF Assembled(i) THEN 1 ELSE 0
    /\ \A r \in DOMAIN pp.out : LET e == pp.out[r] IN
         /\ e.said[1] = e.at[1] /\ e.said[2] <= e.at[2]
         /\ r > 1 /\ e.at = NextLine(pp.out[r - 1].at) => e.said = NextLine(pp.out[r - 1].said)
         /\ e.at[1] = Main /\ r > 1 /\ pp.out[r - 1].top = e.top - 1 /\ pp.out[r - 1].at[1] # Main => e.said = e.at

\* What the linker's layout keeps of the address-only sections.
LabelsOf(k) == SelectSeq(Bucket(Parsed, opts.layout[k].name), LAMBDA r : r.k = "label")
Reserved == [k \in 1..Len(opts.layout) - 2 |-> LabelsOf(k + 2)]
LiteralsInCode == \A r \in DOMAIN Parsed : Parsed[r].k = "ldr" => SectionAt(Parsed, r) = opts.layout[1].name

\* Flatten sizes the sections on its own, before any of them is laid out: the
\* addresses it fixes for the address-only ones still lie above all of the
\* image, and in the order of the layout and of the source; a literal outside
\* the code section, or a NOP put in later, is not accounted for.
NothingOverlapsTheImage ==
  (Done /\ opts.layout # <<>> /\ ~relaid /\ LiteralsInCode) =>
    LET address == [l \in DOMAIN FlattenSeq(Reserved) |-> res.symbols[FlattenSeq(Reserved)[l].n]] IN
    \A l \in DOMAIN address :
      address[l] >= IF l = 1 THEN res.total ELSE address[l - 1]

\* The address pass 1 gives a record divides the image as the record divides
\* the source: all that comes before it lies below, all from it on at or
\* above, without a gap from the origin to the size pass 1 announced; and no
\* pool is laid out in two ways (pass2.go: "pool flush mismatch").
LayoutAgrees ==
  /\ stage # "mismatch"
  /\ (Done /\ NamesOnce(prog)) =>
     /\ pc = res.total
     /\ \A c \in DOMAIN image :
          image[c].pc = IF c = 1 THEN res.origin ELSE image[c - 1].pc + image[c - 1].len
     /\ \A i \in DOMAIN prog, c \in DOMAIN image :
          /\ image[c].rec >= i => image[c].pc >= res.recordPC[i]
          /\ image[c].rec < i /\ res.recordPC[i] >= res.origin =>
               image[c].pc + image[c].len <= res.recordPC[i]

\* The word an `ldr =' loads is there: a slot of the pool of its own width,
\* aligned to it, that holds the value of its expression (for an expression
\* that means the same everywhere).
LdrFindsItsWord ==
  (Done /\ NamesOnce(prog)) => \A c \in DOMAIN image :
    LET ldr == prog[image[c].rec] IN
    (image[c].k = "code" /\ ldr.k = "ldr") =>
      \E s \in DOMAIN image :
        /\ image[s].k = "pool" /\ image[s].pc = image[c].val
        /\ image[s].len = ldr.w /\ image[s].pc % ldr.w = 0
        /\ ldr.e.op \notin {"dot", "local"} => {image[s].val} = makeCtx(ldr.e, image[c].pc)

\* A numeric label is the nearest one in the source: looking it up by address
\* never finds another, whatever stands at the same address.
Between(r, i) == IF r < i THEN r + 1..i - 1 ELSE i + 1..r - 1
Nearest(r, dir, i) ==
  /\ prog[i].k = "local" /\ (IF dir = "f" THEN r < i ELSE i < r)
  /\ \A j \in Between(r, i) : prog[j].k # "local"
RefsFollowSource ==
  (Done /\ NamesOnce(prog)) => \A c \in DOMAIN image :
    LET r == image[c].rec IN
    (image[c].k \in {"code", "data"} /\ prog[r].k # "ldr" /\ prog[r].e.op = "local") =>
      \E i \in DOMAIN prog : Nearest(r, prog[r].e.v, i) /\ image[c].val = res.recordPC[i]

\* With the workaround for 835769, a load or store right before a multiply-
\* accumulate is one that padding kept apart before the NOPs went in.
HazardsSeparated ==
  (Done /\ NamesOnce(prog) /\ "835769" \in opts.fixes) =>
    \A i \in DOMAIN CodeMap : aarch64ErratumSequence(i) =>
      \E r \in CodeMap[i].rec..CodeMap[i + 1].rec : prog[r].k \in {"balign", "skip", "org"}

\* With the workaround for 843419 no ADRP is left in the last two slots of a
\* page before the sequence, wherever the NOPs of the other moved it, and every
\* instruction still means the address it meant.
NoVulnerableADRP ==
  (Done /\ "843419" \in opts.fixes) =>
    /\ \A i, j \in DOMAIN image :
         LET at1 == image[i] IN
         (at1.n = "adrp" /\ LastSlots(at1.pc) /\ image[j].n = "memu" /\ image[j].pc - at1.pc \in {8, 12})
           => ~\E k \in DOMAIN image :
                 /\ image[k].pc = at1.pc + 4 /\ image[k].n \in MemOp \ {"pair"}
                 /\ \A m \in i..j : image[m].k = "code"
    /\ \A i \in DOMAIN image : image[i].n = "adr" => {image[i].val} = makeCtx(prog[image[i].rec].e, image[i].pc)
=============================================================================
