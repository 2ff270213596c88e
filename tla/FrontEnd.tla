------------------------------ MODULE FrontEnd ------------------------------
(* The front end of the assembler (tools/sam-aarch64/frontend): Preprocess   *)
(* resolves conditionals, macros and includes, and Flatten lays out sections *)
(* as a linker would.  Lexing and parsing are left out: a line is the record *)
(* it parses to, or one of "if", "else", "endif", "macro", "endm", "call"    *)
(* and "include", whose n is the symbol, the macro or the file and whose w   *)
(* is the number of arguments.                                               *)
EXTENDS AsmRecords

CONSTANT Files    \* what .include finds: a function from names to lines

Main == "main"    \* the file being assembled
Parameter == "\\p"  \* a macro has at most this parameter

-----------------------------------------------------------------------------
(* Preprocess, one line a step.  Every line that goes on carries where it    *)
(* stands, where the lexer will say it stands (it counts the lines that go   *)
(* on, from the last line directive), and the line of the main file that     *)
(* brought it.                                                               *)

\* A text being read, from the line `next': where it starts, the macros being
\* expanded, and the conditionals and the definition that began in it.
Reading(lines, start, expanding) ==
  [lines |-> lines, next |-> 1, start |-> start, expanding |-> expanding,
   frames |-> <<>>, defining |-> <<>>]

\* The text at hand, and those that wait for its end.
NewPreprocessor(lines) ==
  [ok |-> TRUE, out |-> <<>>, macros |-> Empty, setvars |-> Empty, said |-> <<Main, 1>>, top |-> 0,
   text |-> Reading(lines, <<Main, 1>>, {}), callers |-> <<>>]

fail(pp) == [pp EXCEPT !.ok = FALSE]
active(pp) == \A f \in DOMAIN pp.text.frames : pp.text.frames[f].active
emitLineDirective(pp, at) == [pp EXCEPT !.said = at]
NextLine(at) == <<at[1], at[2] + 1>>
LineAt(text) == <<text.start[1], text.start[2] + text.next - 1>>

PassOn(pp, r, at) ==
  [pp EXCEPT !.out = Append(@, [rec |-> r, at |-> at, said |-> pp.said, top |-> pp.top]),
             !.said = NextLine(@)]

\* An unknown symbol is zero; below a frame that is not active none is tested.
evalIfCondition(pp, r) == r.n \in DOMAIN pp.setvars /\ pp.setvars[r.n] # 0

If(pp, r) ==
  LET cond == active(pp) /\ evalIfCondition(pp, r)
  IN  [pp EXCEPT !.text.frames =
         Append(@, [active |-> cond, taken |-> active(pp) => cond, hadElse |-> FALSE])]

\* Mutant: the other branch is assembled too.
ElseAlways(pp) ==
  IF pp.text.frames = <<>> \/ Last(pp.text.frames).hadElse THEN fail(pp)
  ELSE [pp EXCEPT !.text.frames = Append(Front(@), [active |-> TRUE, taken |-> TRUE, hadElse |-> TRUE])]

Else(pp) ==
  IF pp.text.frames = <<>> \/ Last(pp.text.frames).hadElse THEN fail(pp)
  ELSE LET outer == [pp EXCEPT !.text.frames = Front(@)]
           now == active(outer) /\ ~Last(pp.text.frames).taken
       IN  [pp EXCEPT !.text.frames =
              Append(Front(@), [active |-> now, taken |-> now \/ Last(@).taken, hadElse |-> TRUE])]

Endif(pp) == IF pp.text.frames = <<>> THEN fail(pp) ELSE [pp EXCEPT !.text.frames = Front(@)]

\* collectMacroBody: everything up to .endm, looked at by nobody; the macro is
\* defined only where lines are assembled.
Macro(pp, r, at) ==
  [pp EXCEPT !.text.defining = <<[name |-> r.n, params |-> r.w, body |-> <<>>, defPos |-> at]>>]

InBody(pp, r) ==
  LET m == pp.text.defining[1] IN
  CASE r.k = "macro" -> fail(pp)
    [] r.k = "endm" -> [pp EXCEPT !.text.defining = <<>>,
                                  !.macros = IF active(pp) THEN With(@, m.name, m) ELSE @]
    [] OTHER -> [pp EXCEPT !.text.defining = <<[m EXCEPT !.body = Append(@, r)]>>]

\* Only a literal value is remembered; the line goes on to the parser anyway.
Set(pp, r, at) ==
  PassOn(IF r.e.op = "int" THEN [pp EXCEPT !.setvars = With(@, r.n, r.e.v)] ELSE pp, r, at)

\* buildSubstituter: the argument stands wherever the parameter does.
Substituted(r, arg) == IF r.n = Parameter THEN [r EXCEPT !.n = arg] ELSE r

\* Another text is read before the rest of this one.
Enter(pp, text) ==
  [emitLineDirective(pp, text.start) EXCEPT !.callers = Append(@, pp.text), !.text = text]

handleInclude(pp, r) ==
  IF r.n \notin DOMAIN Files THEN fail(pp)
  ELSE Enter(pp, Reading(Files[r.n], <<r.n, 1>>, pp.text.expanding))

\* Called only for a macro that is known: any other word is the parser's.
tryExpandMacroInvocation(pp, r) ==
  LET m == pp.macros[r.n]
      lines == [i \in DOMAIN m.body |-> Substituted(m.body[i], r.e.v)]
  IN  IF r.w # m.params \/ r.n \in pp.text.expanding THEN fail(pp)
      ELSE Enter(pp, Reading(lines, NextLine(m.defPos), pp.text.expanding \cup {r.n}))

ProcessLine(pp, r, at) ==
  IF pp.text.defining # <<>> THEN InBody(pp, r)
  ELSE CASE r.k = "if" -> If(pp, r)
         [] r.k = "else" -> Else(pp)
         [] r.k = "endif" -> Endif(pp)
         [] r.k = "macro" -> Macro(pp, r, at)
         [] r.k = "endm" -> fail(pp)
         [] r.k \notin {"if", "else", "endif", "macro", "endm"} ->
              CASE ~active(pp) -> pp
                [] active(pp) /\ r.k = "set" -> Set(pp, r, at)
                [] active(pp) /\ r.k = "include" -> handleInclude(pp, r)
                [] active(pp) /\ r.k = "call" /\ r.n \in DOMAIN pp.macros -> tryExpandMacroInvocation(pp, r)
                [] OTHER -> PassOn(pp, r, at)

\* Conditionals and definitions end in the text they begin in.
AtEnd(pp) == pp.text.next > Len(pp.text.lines)
Complete(pp) == pp.text.frames = <<>> /\ pp.text.defining = <<>>

Return(pp) ==
  IF ~Complete(pp) THEN fail(pp)
  ELSE emitLineDirective([pp EXCEPT !.text = Last(pp.callers), !.callers = Front(@)],
                         LineAt(Last(pp.callers)))

\* One line, or the end of an included file or of a macro.
processLines(pp) ==
  IF AtEnd(pp) THEN Return(pp)
  ELSE ProcessLine([pp EXCEPT !.text.next = @ + 1,
                              !.top = IF pp.callers = <<>> THEN pp.text.next ELSE @],
                   pp.text.lines[pp.text.next], LineAt(pp.text))

\* The end of the main file.
Preprocessed(pp) == AtEnd(pp) /\ pp.callers = <<>>

-----------------------------------------------------------------------------
(* Flatten.  Slot 1 of the layout is the code section, slot 2 the data, the  *)
(* others keep their addresses and lose their bytes.                         *)

alignUp(v, align) == IF align <= 1 THEN v ELSE v + Pad(v, align)

\* bucketByName: the section a record is in, .text before any directive.
SectionAt(recs, i) ==
  LET switches == {j \in 1..i : recs[j].k = "section"}
  IN  IF switches = {} THEN ".text" ELSE recs[CHOOSE j \in switches : \A h \in switches : h <= j].n

Bucket(recs, name) ==
  Kept(recs, {i \in DOMAIN recs : recs[i].k # "section" /\ SectionAt(recs, i) = name})

\* The strictest alignment a section's records ask for.
sectionRequiredAlign(recs) ==
  LET most[i \in 0 .. Len(recs)] ==
        IF i = 0 THEN 1
        ELSE IF recs[i].k = "balign" /\ recs[i].w > most[i - 1] THEN recs[i].w ELSE most[i - 1]
  IN  most[Len(recs)]

Sized(symbols) == [ok |-> TRUE, pc |-> 0, symbols |-> symbols, pending |-> {}, labels |-> <<>>]

captureEqu(acc, r) ==
  LET v == Eval(r.e, 0, acc.symbols, <<>>)
  IN  IF v = {} THEN [acc EXCEPT !.ok = FALSE]
      ELSE [acc EXCEPT !.symbols = With(@, r.n, CHOOSE x \in v : TRUE)]

\* Every value-symbol of every section, in the order of the layout.
Captured(acc, recs) ==
  LET after[i \in 0 .. Len(recs)] ==
        IF i = 0 THEN acc
        ELSE IF recs[i].k = "set" THEN captureEqu(after[i - 1], recs[i]) ELSE after[i - 1]
  IN  after[Len(recs)]

globalSymbols(buckets) ==
  LET after[k \in 0 .. Len(buckets)] ==
        IF k = 0 THEN Sized(Empty) ELSE Captured(after[k - 1], buckets[k])
  IN  after[Len(buckets)]

Words(keys, w) == {key \in keys : key[1] = w}

\* Mutant: the literals of the code section are not counted.
NoPool(pc, pending) == pc

\* The four-byte words first, then the eight-byte ones, each group aligned.
flushPoolSize(pc, pending) ==
  LET fours == Words(pending, 4)
      eights == Words(pending, 8)
      after == IF fours = {} THEN pc ELSE alignUp(pc, 4) + 4 * Cardinality(fours)
  IN  IF eights = {} THEN after ELSE alignUp(after, 8) + 8 * Cardinality(eights)

\* Where a directive leaves the address, if it can be told.
directiveSizeForFlatten(acc, r) ==
  CASE r.k = "data" -> {acc.pc + r.w}
    [] r.k = "balign" -> {alignUp(acc.pc, r.w)}
    [] r.k = "skip" -> {acc.pc + n : n \in Eval(r.e, acc.pc, acc.symbols, <<>>)}
    [] r.k = "org" -> {n \in Eval(r.e, acc.pc, acc.symbols, <<>>) : n >= acc.pc}

\* A record of a section, from address 0. Literals are counted by width and
\* expression; only the sizing knows that .ltorg flushes them.
Place(acc, r, sizing) ==
  CASE r.k = "label" -> [acc EXCEPT !.labels = Append(@, [n |-> r.n, offset |-> acc.pc])]
    [] r.k = "local" -> acc
    [] r.k = "inst" -> [acc EXCEPT !.pc = @ + 4]
    [] r.k = "ldr" -> [acc EXCEPT !.pc = @ + 4, !.pending = @ \cup {<<r.w, r.e>>}]
    [] r.k = "set" -> captureEqu(acc, r)
    [] r.k = "ltorg" -> IF sizing THEN [acc EXCEPT !.pc = flushPoolSize(@, acc.pending), !.pending = {}]
                        ELSE acc
    [] OTHER -> LET to == directiveSizeForFlatten(acc, r) IN
                IF to = {} THEN [acc EXCEPT !.ok = FALSE] ELSE [acc EXCEPT !.pc = CHOOSE n \in to : TRUE]

Walk(recs, symbols, sizing) ==
  LET after[i \in 0 .. Len(recs)] ==
        IF i = 0 THEN Sized(symbols) ELSE Place(after[i - 1], recs[i], sizing)
  IN  after[Len(recs)]

sectionSize(recs, isCode, symbols) ==
  LET w == Walk(recs, symbols, TRUE)
  IN  [ok |-> w.ok, size |-> IF isCode THEN flushPoolSize(w.pc, w.pending) ELSE w.pc]

sectionLabels(recs, symbols) == Walk(recs, symbols, FALSE).labels

\* A section starts where the one before it ends, at its own alignment or the
\* strictest one its records ask for.
StartAlign(lay, recs) == IF sectionRequiredAlign(recs) > lay.startAlign
                         THEN sectionRequiredAlign(recs) ELSE lay.startAlign

Starts(layout, origin, buckets, sizes) ==
  LET start[k \in 1 .. Len(layout)] ==
        alignUp(IF k = 1 THEN origin
                ELSE start[k - 1] + alignUp(sizes[k - 1].size, layout[k - 1].trailingAlign),
                StartAlign(layout[k], buckets[k]))
  IN  start

Known(recs, layout) ==
  \A i \in DOMAIN recs : recs[i].k # "section" => \E k \in DOMAIN layout : layout[k].name = SectionAt(recs, i)

Buckets(recs, layout) == [k \in 1 .. Len(layout) |-> Bucket(recs, layout[k].name)]

equRecords(start, labels) ==
  [i \in 1 .. Len(labels) |-> Record("set", labels[i].n, 0, Expr("int", start + labels[i].offset))]

\* The labels of the address-only sections.
AddressOnly(starts, buckets, symbols) ==
  LET out[k \in 0 .. Len(buckets)] ==
        IF k <= 2 THEN <<>> ELSE out[k - 1] \o equRecords(starts[k], sectionLabels(buckets[k], symbols))
  IN  out[Len(buckets)]

Flatten(recs, layout, origin) ==
  LET buckets == Buckets(recs, layout)
      globals == globalSymbols(buckets)
      sizes == [k \in DOMAIN layout |-> sectionSize(buckets[k], k = 1, globals.symbols)]
      nowhere == Expr("int", 0)
  IN  [ok |-> Known(recs, layout) /\ globals.ok /\ \A k \in DOMAIN layout : sizes[k].ok,
       out |-> <<Record("org", "", 0, Expr("int", origin))>> \o buckets[1]
               \o <<Record("ltorg", "", 0, nowhere)>>
               \o (IF buckets[2] = <<>> THEN <<>> ELSE <<Record("balign", "", 16, nowhere)>> \o buckets[2])
               \o AddressOnly(Starts(layout, origin, buckets, sizes), buckets, globals.symbols)]
=============================================================================
