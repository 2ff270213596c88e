----------------------------- MODULE MCAssembler -----------------------------
(* Small instances of Assembler: every short program over an alphabet.     *)
EXTENDS Assembler

Both == {"835769", "843419"}
Num(n) == [op |-> "int", v |-> n]
Inst(n, e) == Record("inst", n, 0, e)
Ldr(w, e) == Record("ldr", "mem", w, e)
Local(dir) == Expr("local", dir)

\* Data, padding, value-symbols and flushes.
Directives == {
  Record("data", "", 1, Num(1)), Record("balign", "", 8, Num(0)),
  Record("org", "", 0, Num(16)), Record("set", "s", 0, Num(3)),
  Record("skip", "", 0, Expr("sym", "s")), Record("ltorg", "", 0, Num(0))}

\* With a label and literals of both widths, or with numeric labels.
LiteralRecords == Directives \cup {
  Record("label", "a", 0, Num(0)),
  Ldr(8, Expr("sym", "a")), Ldr(4, Expr("sym", "a")), Ldr(8, Num(7))}
LocalRecords == Directives \cup {
  Record("local", "1", 0, Num(0)),
  Inst("plain", Local("f")), Inst("plain", Local("b")), Ldr(8, Num(7))}

\* Instructions of the errata, and padding.
ErrataRecords == {
  Inst("adrp", Num(0)), Inst("mem", Num(0)), Inst("memu", Num(0)), Inst("pair", Num(0)),
  Inst("mac", Num(0)), Inst("plain", Local("b")), Record("balign", "", 8, Num(0))}

\* A label is defined once.
Once(p) == \A i, j \in DOMAIN p : (i # j /\ p[i].k = "label") => p[i] # p[j]

Start == <<Record("local", "1", 0, Num(0))>>
ToPageEnd == <<Record("org", "", 0, Num(8))>>

\* Sections: code, data and two that keep their addresses only.
Section(n) == Record("section", n, 0, Num(0))
SectionRecords == {
  Section(".text"), Section(".data"), Section("bss"), Section("tests"),
  Record("label", "a", 0, Num(0)), Record("label", "b", 0, Num(0)), Inst("plain", Expr("sym", "a")),
  Ldr(8, Num(7)), Record("data", "", 1, Num(1)), Record("balign", "", 32, Num(0)),
  Record("skip", "", 0, Expr("sym", "s"))}

Slot(n, start, trailing) == [name |-> n, startAlign |-> start, trailingAlign |-> trailing]
MCLayout == <<Slot(".text", 16, 0), Slot(".data", 16, 0), Slot("bss", 16, 8), Slot("tests", 8, 0)>>

\* Conditionals, a macro with a parameter, an included file that defines a
\* macro and sets a symbol.
Line(k, n) == Record(k, n, 0, Num(0))
Set_s(v) == Record("set", "s", 0, Num(v))
SourceLines == {
  Line("if", "s"), Line("else", ""), Line("endif", ""), Line("include", "inc"), Line("macro", "m"),
  Line("endm", ""), Line("call", "m"), Record("call", "w", 1, Expr("name", "s")), Inst("plain", Num(0))}

MCFiles == [inc |-> <<Record("macro", "w", 1, Num(0)), Line("if", Parameter), Inst("mem", Num(0)),
                      Line("endif", ""), Line("endm", ""), Set_s(1), Inst("pair", Num(0))>>]

Kind(head, sources, options) == [head |-> head, sources |-> sources, opts |-> options]
Records(wanted) == [parsed |-> TRUE, fixes |-> wanted, layout |-> <<>>, origin |-> 0]
Text(layout) == [parsed |-> FALSE, fixes |-> {}, layout |-> layout, origin |-> 16]
Sections == {p \in SeqOf(SectionRecords, 4) : Once(p)}

MCInputs == <<
  Kind(<<>>, {p \in SeqOf(LiteralRecords, 5) : Once(p)}, Records({})),
  Kind(<<>>, SeqOf(LocalRecords, 5), Records({})),
  Kind(Start, SeqOf(ErrataRecords, 5), Records(Both)),
  Kind(Start \o ToPageEnd, SeqOf(ErrataRecords, 4), Records(Both)),
  Kind(Start, SeqOf(ErrataRecords, 4), Records({"843419"})),
  Kind(<<Set_s(3), Ldr(8, Num(9))>>, Sections, Text(MCLayout)),
  Kind(<<Set_s(3), Ldr(8, Num(9)), Section("tests")>>, Sections, Text(MCLayout)),
  Kind(<<Set_s(0)>>, SeqOf(SourceLines, 5), Text(<<>>)),
  Kind(<<Line("include", "inc"), Line("if", "s")>>, SeqOf(SourceLines, 4), Text(<<>>))>>
=============================================================================
