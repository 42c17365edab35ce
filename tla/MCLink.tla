------------------------------- MODULE MCLink -------------------------------
(***************************************************************************)
(* Inputs for the linker: every way to fill the words of one object with   *)
(* references, under scripts that order them differently, and one input    *)
(* for each thing that can go wrong.                                       *)
(***************************************************************************)
EXTENDS LinkProps

Foo == <<"KERNEL", "Foo">>
Flag == <<"KERNEL", "Flag">>
Here == <<"Here">>
Far == <<"Far">>
Size == <<"Size">>

Record0(type) == [type |-> type, size |-> 20, cut |-> FALSE]
Other == Record0("THEADR")
Pubdef(base, names) == Record0("PUBDEF") @@ [base |-> base, names |-> names]
Extdef(names) == Record0("EXTDEF") @@ [names |-> names]
Ledata(start, len) ==
  [type |-> "LEDATA", size |-> len + 5, cut |-> FALSE, start |-> start,
   data |-> [i \in 1..len |-> (160 + i) % 256]]
Fixups(subs) == Record0("FIXUP") @@ [subs |-> subs]
Public(name, offset) == [name |-> name, offset |-> offset]

OffsetOf(at, n) == <<196 + at \div 256, at % 256, 86, n>>
SegmentOfExt(at, n) == <<200 + at \div 256, at % 256, 86, n>>
SelfSegment(at) == <<200, at, 84, 1>>
SelfOffset(at) == <<196, at, 84, 1>>

Blank == [cmd |-> "blank"]
ModuleLine(num, name, symfile) ==
  [cmd |-> "MODULE", fields |-> 4, num |-> num, name |-> name, file |-> symfile]
Symbols(names) == [open |-> TRUE, given |-> TRUE, names |-> names]
Export(name, ordinal) == [name |-> <<name>>, ordinal |-> ordinal, equate |-> FALSE]
Equate(name, value) == [name |-> <<name>>, ordinal |-> value, equate |-> TRUE]
RelocLine(seg_, mod, to, list) ==
  [cmd |-> "RELOC", fields |-> 4, seg |-> seg_, mod |-> mod, to |-> to, valid |-> TRUE,
   ordinal |-> FALSE, number |-> 0, patchlist |-> list]
OrdinalLine(seg_, mod, name, number) ==
  [RelocLine(seg_, mod, <<name>>, <<>>) EXCEPT !.ordinal = TRUE, !.number = number]
Up(a) == [addr |-> a, minus |-> FALSE, signs |-> 1]
Down(a) == [addr |-> a, minus |-> TRUE, signs |-> 1]

Kernel == ModuleLine(7, "KERNEL", Symbols(<<Export("Foo", 300), Equate("Flag", 9)>>))

Case(script, objects) ==
  [script |-> script, objects |-> objects, seg |-> 0, map |-> "none", full |-> FALSE]
-----------------------------------------------------------------------------
(***************************************************************************)
(* Two chunks with a word for each way to refer to something.              *)
(***************************************************************************)
Words1 == {0, 4}
Words2 == {0, 2}
Kinds == {"none", "import", "there", "self"}
Sub(at, kind) == CASE kind = "import" -> OffsetOf(at, 1)
                   [] kind = "there" -> SegmentOfExt(at, 2)
                   [] kind = "self" -> SelfSegment(at)
Subs(f) == LET at == SetToSortSeq({a \in DOMAIN f : f[a] # "none"}, LAMBDA a, b : a < b)
           IN  [i \in DOMAIN at |-> Sub(at[i], f[at[i]])]

Caller(subs1, subs2) ==
  <<Other, Pubdef(1, <<Public(Here, 2)>>), Extdef(<<Foo, Far>>),
    Ledata(0, 6), Fixups(subs1), Ledata(6, 4), Fixups(subs2)>>
Callee == <<Pubdef(1, <<Public(Far, 2)>>), Ledata(0, 4), Fixups(<<SelfSegment(2)>>)>>

Scripts == {
  <<Kernel>>,
  <<Kernel, RelocLine(1, "SEGMENT", 2, <<Up(0)>>), RelocLine(1, "KERNEL", <<"Foo">>, <<>>)>>,
  <<Kernel, RelocLine(1, "KERNEL", <<"Foo">>, <<Down(0), Up(4)>>),
    RelocLine(1, "SEGMENT", 1, <<Up(0), Down(2), Down(6)>>)>>,
  <<Kernel, RelocLine(1, "SEGMENT", 1, <<Down(4)>>), RelocLine(1, "SEGMENT", 2, <<Down(2), Up(8)>>)>> }

Placed ==
  { Case(script, <<IF back THEN Caller(Reverse(Subs(f)), Reverse(Subs(g)))
                   ELSE Caller(Subs(f), Subs(g)), Callee>>) :
      script \in Scripts, back \in BOOLEAN, f \in [Words1 -> Kinds \ {"self"}],
      g \in [Words2 -> Kinds \ {"there"}] }
-----------------------------------------------------------------------------
(***************************************************************************)
(* One input for each thing that can happen besides.                       *)
(***************************************************************************)
Plain == <<Pubdef(1, <<Public(Here, 2)>>), Extdef(<<Foo, Far>>), Ledata(0, 4),
           Fixups(<<OffsetOf(0, 1), OffsetOf(2, 2)>>)>>
Asks(names, subs) == <<Extdef(names), Ledata(0, 4), Fixups(subs)>>
Fun(seg_, offset) == <<"FUN", seg_, offset>>

Objects == {
  \* Names declared twice, by two objects and by one, or that are imported;
  \* and constants.
  <<Plain, Callee, <<Pubdef(1, <<Public(Far, 4), Public(Foo, 6), Public(Size, 3)>>)>> >>,
  <<Callee, <<Pubdef(0, <<Public(Size, 99)>>), Pubdef(1, <<Public(Size, 1), Public(Far, 6)>>),
              Extdef(<<Size, Far>>), Ledata(0, 4), Fixups(<<OffsetOf(0, 1), OffsetOf(2, 2)>>)>>,
    <<Ledata(0, 600), Fixups(<<>>)>>, Plain>>,
  \* References to an equate, both halves of an import, FUN_ names.
  <<Asks(<<Flag, Foo>>, <<OffsetOf(0, 1), OffsetOf(2, 2), SegmentOfExt(2, 2)>>)>>,
  <<Asks(<<Fun(2, 16), Fun(3, 0)>>, <<OffsetOf(0, 1), SegmentOfExt(2, 2)>>)>>,
  <<Asks(<<Fun(3, 16), Fun(2, 1)>>, <<SegmentOfExt(0, 1), SegmentOfExt(2, 2)>>)>>,
  <<Asks(<<Fun(2, 70000)>>, <<OffsetOf(0, 1)>>)>>,
  \* What cannot be fixed up.
  <<Asks(<<Foo>>, <<OffsetOf(0, 2), OffsetOf(300, 1), OffsetOf(3, 1), OffsetOf(2, 0)>>)>>,
  <<Asks(<<Here, Far>>, <<OffsetOf(2, 1), SegmentOfExt(0, 2)>>), Callee>>,
  <<Asks(<<Foo>>, << <<200, 0, 84, 2>>, SelfOffset(2), <<196, 0, 86, 128, 1>> >>)>>,
  <<Plain, Asks(<<Foo>>, <<OffsetOf(0, 1), <<204, 2, 86, 1>> >>), Callee>>,
  <<Asks(<<Foo>>, << <<196, 2, 85, 1>> >>)>>,
  \* What cannot be read.
  <<Plain, <<[Ledata(0, 2) EXCEPT !.cut = TRUE]>> >>,
  << <<[Other EXCEPT !.size = 0]>> >>, << <<[Other EXCEPT !.size = 1025]>>, Plain>>,
  \* Imports whose number is too large.
  <<Asks(<< <<"GDI", "Big">> >>, <<OffsetOf(0, 1)>>)>> }

Gdi == ModuleLine(2, "GDI", Symbols(<<Export("Pen", 5), Export("Big", 70000)>>))
User == [ModuleLine(3, "USER", NoSymfile) EXCEPT !.fields = 3]
Told == <<Gdi, Kernel, Blank, User, [User EXCEPT !.num = 4],
          RelocLine(1, "GDI", <<"Pen">>, <<Down(0)>>),
          RelocLine(1, "KERNEL", <<"Foo">>, <<Down(0)>>), RelocLine(1, "SEGMENT", 2, <<>>),
          RelocLine(1, "KERNEL", <<"Flag">>, <<Up(2)>>), RelocLine(2, "SEGMENT", 2, <<Up(-4), Down(2)>>),
          RelocLine(9, "SEGMENT", 9, <<>>), RelocLine(1, "USER", <<"Box">>, <<>>),
          OrdinalLine(2, "USER", "7", 7)>>

Odd == {[Case(s, os) EXCEPT !.map = m] : s \in {<<Kernel, Gdi>>, Told}, os \in Objects,
                                         m \in {"new", "taken"}}

Others == {
  [Case(Told, <<Callee>>) EXCEPT !.seg = 9],
  [Case(Told, <<Plain, Callee>>) EXCEPT !.seg = 9],
  [Case(Told, <<Plain, Callee>>) EXCEPT !.full = TRUE, !.map = "new"],
  Case(<<User, OrdinalLine(1, "USER", "7", 7)>>,
       <<Asks(<< <<"7">>, <<"8">> >>, <<OffsetOf(0, 1), OffsetOf(2, 2)>>)>>) }

\* Script lines that end the linker.
BadLines == {
  [cmd |-> "SEGMENT"], [ModuleLine(1, "GDI", NoSymfile) EXCEPT !.fields = 5],
  ModuleLine(0, "GDI", NoSymfile), ModuleLine(1, "GDI", Unreadable),
  [RelocLine(1, "KERNEL", <<"Foo">>, <<>>) EXCEPT !.fields = 3],
  RelocLine(0, "KERNEL", <<"Foo">>, <<>>), RelocLine(1, "GDI", <<"Pen">>, <<>>),
  RelocLine(1, "KERNEL", <<"Bar">>, <<>>), OrdinalLine(1, "KERNEL", "7", 7),
  [OrdinalLine(1, "USER", "x", 0) EXCEPT !.valid = FALSE],
  [RelocLine(1, "SEGMENT", 0, <<>>) EXCEPT !.valid = FALSE],
  RelocLine(1, "SEGMENT", 1, <<[Up(0) EXCEPT !.signs = 2]>>),
  RelocLine(1, "KERNEL", <<"Foo">>, <<Up(40000)>>) }
Rejected == {Case(<<Kernel, User, l, Blank>>, <<Plain>>) : l \in BadLines}

LinkInputs == Placed \cup Odd \cup Others \cup Rejected
=============================================================================
