----------------------------- MODULE LinkProps -----------------------------
(***************************************************************************)
(* What the linker's output should be, read off its input, and what        *)
(* Windows makes of that output when it loads a segment.                   *)
(***************************************************************************)
EXTENDS Linker

LinkTypeOK ==
  /\ pc \in {"script", "symbols", "open", "records", "fixups", "sort", "relink",
             "relocs"} \cup Ended
  /\ file \in 0..(Len(input.objects) + 1) /\ errors \subseteq Files
  /\ \A n \in DOMAIN symtab : symtab[n] \in DOMAIN symbols /\ symbols[symtab[n]].name = n
  /\ \A s \in DOMAIN symbols : symbols[s].module \in 0..Len(modules)
  /\ \A i \in Files : \A k \in DOMAIN out[i] : out[i][k] \in 0..255
  /\ \A i \in DOMAIN segments :
       LET list == segments[i].reloclist
       IN  \A j, k \in DOMAIN list : list[j].target = list[k].target => j = k
-----------------------------------------------------------------------------
(***************************************************************************)
(* The loader.  It finds a segment's relocations behind its data, and      *)
(* follows each chain from its head.                                       *)
(***************************************************************************)
WordAt(bytes, a) == bytes[a + 1] + 256 * bytes[a + 2]

\* The addresses of a chain in the order in which the loader patches them, cut
\* off where it runs out of the segment or has gone round.
Chain(bytes, head) ==
  FoldLeft(LAMBDA c, n : LET a == IF c = <<>> THEN head ELSE WordAt(bytes, Last(c))
                         IN  IF a + 2 > Len(bytes) THEN c ELSE Append(c, a),
           <<>>, bytes)

\* A file is its bytes, of which the first size are the segment.  The table is
\* taken to be as long as the file lasts, see RelocsizeIsBytes for what it says
\* of its length.
File(i) == [bytes |-> out[i], size |-> segments[i].size]
Code(f) == SubSeq(f.bytes, 1, f.size)
TableSize(f) == (Len(f.bytes) - f.size - 2) \div 8
TableEntry(f, k) == SubSeq(f.bytes, f.size + 8 * k - 5, f.size + 8 * k + 2)
TableChain(f, k) == Chain(Code(f), WordAt(TableEntry(f, k), 2))
LoadedTarget(entry) ==
  IF entry[1] = 2 THEN <<"segment", entry[5]>>
  ELSE <<IF entry[1] = 3 THEN "far" ELSE "const", WordAt(entry, 4), WordAt(entry, 6)>>

Untouched(bytes, refs) ==
  LET held == UNION {{r.at, r.at + 1} : r \in refs}
  IN  [a \in {b \in 0..(Len(bytes) - 1) : b \notin held} |-> bytes[a + 1]]

\* The program that is loaded from a .bin file: where it refers to what, by how
\* many links, and the other bytes.
Loaded(f) ==
  LET refs == UNION {{[at |-> a, to |-> LoadedTarget(TableEntry(f, k))] :
                        a \in Range(TableChain(f, k))} : k \in 1..TableSize(f)}
  IN  [refs |-> refs, text |-> Untouched(Code(f), refs),
       links |-> FoldSet(LAMBDA k, n : n + Len(TableChain(f, k)), 0, 1..TableSize(f))]
-----------------------------------------------------------------------------
(***************************************************************************)
(* The meaning of names, by the rules that the linker is to implement: the *)
(* script's imports first, then the first object that declares a name.     *)
(***************************************************************************)
ModuleNumber(in, name) ==
  in.script[SelectInSeq(in.script, LAMBDA l : l.cmd = "MODULE" /\ l.name = name)].num

ScriptNames(in) ==
  FlattenSeq([k \in DOMAIN in.script |->
    LET l == in.script[k]
    IN  IF l.cmd = "MODULE"
        THEN [i \in DOMAIN l.file.names |->
                [name |-> <<l.name>> \o l.file.names[i].name,
                 to |-> <<IF l.file.names[i].equate THEN "const" ELSE "far",
                          ModuleNumber(in, l.name), l.file.names[i].ordinal>>]]
        ELSE IF l.cmd = "RELOC" /\ ~ToSegment(l) /\ l.ordinal
        THEN <<[name |-> l.to, to |-> <<"far", ModuleNumber(in, l.mod), l.number>>]>>
        ELSE <<>>])

SegmentOf(in, i) == IF Len(in.objects) = 1 /\ in.seg > 0 THEN in.seg ELSE i
PublicNames(in) ==
  FlattenSeq([i \in DOMAIN in.objects |->
    LET names == ReadObjNames(in.objects[i])
    IN  [k \in DOMAIN names |-> [name |-> names[k].Name, input |-> i,
                                 segment |-> SegmentOf(in, i), offset |-> names[k].Offset,
                                 const |-> names[k].Const]]])

Unknown == [import |-> FALSE, known |-> FALSE, to |-> <<>>, offset |-> 0]
Inside(segment, offset) == [import |-> FALSE, known |-> TRUE, to |-> <<"segment", segment>>,
                            offset |-> offset]
Meaning(in, name) ==
  LET script == ScriptNames(in)
      public == PublicNames(in)
      s == SelectLastInSeq(script, LAMBDA x : x.name = name)
      p == SelectInSeq(public, LAMBDA x : x.name = name)
  IN  IF s # 0
      THEN [import |-> TRUE, known |-> TRUE, to |-> script[s].to, offset |-> 0]
      ELSE IF p # 0 THEN Inside(public[p].segment, public[p].offset)
      ELSE IF IsFun(name) THEN Inside(name[2], name[3])
      ELSE Unknown
-----------------------------------------------------------------------------
(***************************************************************************)
(* What an object asks for, in file order: references that stay until the  *)
(* program is loaded, and offsets that are known.                          *)
(***************************************************************************)
Asked(in, i, led, f) ==
  LET names == ReadExternalNames(in.objects[i])
      means == IF f.RefType = "segment"
               THEN IF f.RefIndex = 1 /\ f.FixupType = "segment"
                    THEN Inside(SegmentOf(in, i), 0) ELSE Unknown
               ELSE IF f.RefIndex \in DOMAIN names THEN Meaning(in, names[f.RefIndex])
               ELSE Unknown
      inside == f.DataOffset + 2 <= Len(led.data)
  IN  [at |-> led.start + f.DataOffset, to |-> means.to, offset |-> means.offset,
       how |-> IF ~inside \/ ~means.known THEN "nothing"
               ELSE IF means.import
               THEN IF f.FixupType = "offset" THEN "reference" ELSE "nothing"
               ELSE IF f.FixupType = "offset" THEN "offset" ELSE "reference"]

Requests(in, i) ==
  LET obj == in.objects[i]
  IN  FlattenSeq([k \in DOMAIN obj |->
        IF obj[k].type = "FIXUP"
        THEN LET fs == ParseFixup(obj[k])
             IN  [j \in DOMAIN fs |-> Asked(in, i, obj[k - 1], fs[j])]
        ELSE <<>>])

Chunks(obj) == FlattenSeq([k \in DOMAIN obj |->
                 IF obj[k].type = "LEDATA" THEN obj[k].data ELSE <<>>])

\* Some FIXUP record cannot be parsed.
Unusable(obj) ==
  \E k \in DOMAIN obj : obj[k].type = "FIXUP" /\ ~ParseFixupOK(obj[k])

Wanted(in, i) ==
  LET rs == Range(Requests(in, i))
      refs == {[at |-> r.at, to |-> r.to] : r \in {x \in rs : x.how = "reference"}}
      offsets == {r \in rs : r.how = "offset"}
      put == [a \in {r.at : r \in offsets} |->
                (CHOOSE r \in offsets : r.at = a).offset]
      overflow == \/ \E r \in offsets : ~Put16OK(r.offset)
                  \/ \E r \in refs : r.to[1] # "segment" /\ \E k \in 2..3 : ~Put16OK(r.to[k])
  IN  IF Unusable(in.objects[i])
      THEN [program |-> {}, unusable |-> TRUE, overflow |-> FALSE, full |-> in.full]
      ELSE [program |-> [refs |-> refs, links |-> Cardinality(refs),
                         text |-> Untouched(WriteAt(Chunks(in.objects[i]), put), refs)],
            unusable |-> FALSE, overflow |-> overflow, full |-> in.full]
-----------------------------------------------------------------------------
\* The inputs that patch has gone through.
Patching == file > 0 /\ pc \notin {"script", "symbols"}
            /\ (pc = "failed" => file > Len(input.objects))
Patched == IF Patching THEN 1..(file - 1) ELSE {}
Complete == Patched \ errors

NoBin == [bytes |-> <<>>, size |-> -1]
B == INSTANCE Build WITH
       Lost <- NoBin,
       job <- input,
       made <- [i \in Patched |-> IF i \in errors THEN NoBin ELSE File(i)],
       exit <- CASE pc = "done" -> "ok"
                 [] pc = "panic" -> "panic"
                 [] pc = "failed" -> IF Patching THEN "errors" ELSE "rejected"
                 [] OTHER -> "running"

\* Each object becomes, in its turn, a program that Windows loads with every
\* reference where the object has one, to what its name means, and with
\* no other byte changed; an object in error is reported at the end and
\* takes nothing from the others.  (patch, fixup, resolve, sortFixes and
\* the order in which loadSymbols and the script fill the symbol table.)
ProgramsLoad == B!BuildSpec
-----------------------------------------------------------------------------
\* While records are read, the words in each bucket's addresses already form
\* its chain: from the head, which is the last address, back to the first.
\* (chain and the two ways in which phase one writes its result.)
ChainsGrow ==
  pc \in {"records", "fixups"} =>
    LET bytes == IF pc = "fixups" THEN out[file] \o data ELSE out[file]
    IN  \A ri \in Range(seg.reloclist) :
          /\ ri.last = IF ri.patches = <<>> THEN End ELSE Last(ri.patches)
          /\ \A k \in DOMAIN ri.patches :
               WordAt(bytes, ri.patches[k]) = IF k = 1 THEN End ELSE ri.patches[k - 1]

\* The objects as an assembler writes them: the records that are fixed up
\* follow one another without gaps, each with its FIXUP record behind it, and no
\* two of a record's fixups overlap.
WordsApart(a, b) == a + 2 <= b \/ b + 2 <= a
DataEnd(obj, k) ==                 \* where the data before record k end
  LET before == {j \in 1..(k - 1) : obj[j].type = "FIXUP"}
  IN  IF before = {} THEN 0
      ELSE LET j == Max(before) IN obj[j - 1].start + Len(obj[j - 1].data)
Tidy(in) ==
  \A i \in DOMAIN in.objects :
    LET obj == in.objects[i]
    IN  \A k \in DOMAIN obj :
          obj[k].type = "FIXUP" =>
            LET fs == ParseFixup(obj[k])
            IN  /\ k > 1 /\ obj[k - 1].type = "LEDATA" /\ obj[k - 1].start = DataEnd(obj, k)
                /\ \A a, b \in DOMAIN fs :
                     a # b => WordsApart(fs[a].DataOffset, fs[b].DataOffset)

\* The target of a script's or a bucket's pointer, as the loader sees it.
Meant(t) == IF t[1] = "segment" \/ t[2] = 0 THEN t
            ELSE LET s == symbols[t[2]]
                 IN  <<IF s.constant THEN "const" ELSE "far",
                       modules[s.module].num, s.offset>>
Scripted(i) == userinfo[segments[i].num]

\* "Both the relocation list and the patch list for each relocation need to be
\* in the right order" (linkscript-design.txt): first the targets of the
\* script, in its order, then the others as they were first used; and
\* the loader meets each chain's addresses from the highest down, but those
\* of a descending span from the lowest up, and those of a target that
\* the script does not name from the last fixup to the first.
FirstUse(i, t) == SelectInSeq(Requests(input, i), LAMBDA r : r.how = "reference" /\ r.to = t)
Rank(i, t) == LET u == SelectInSeq(Scripted(i), LAMBDA x : Meant(x.target) = t)
              IN  IF u # 0 THEN u ELSE Len(Scripted(i)) + FirstUse(i, t)
SameDescent(spans, a, b) ==
  \E k \in DOMAIN spans : /\ spans[k].Desc
                          /\ {a, b} \subseteq spans[k].Low..(spans[k].High - 1)
ChainOrdered(i, t, chain) ==
  LET u == SelectInSeq(Scripted(i), LAMBDA x : Meant(x.target) = t)
      refs == SelectSeq(Requests(input, i), LAMBDA r : r.how = "reference" /\ r.to = t)
  IN  IF u = 0 THEN chain = Reverse([k \in DOMAIN refs |-> refs[k].at])
      ELSE \A j, k \in DOMAIN chain :
             j < k => (chain[j] < chain[k]
                         <=> SameDescent(Scripted(i)[u].spans, chain[j], chain[k]))
ScriptOrdered ==
  pc \in {"open", "done", "failed"} =>
    \A i \in Complete :
      LET n == TableSize(File(i))
          To(k) == LoadedTarget(TableEntry(File(i), k))
      IN  /\ \A j, k \in 1..n : j < k => Rank(i, To(j)) < Rank(i, To(k))
          /\ \A k \in 1..n : ChainOrdered(i, To(k), TableChain(File(i), k))

\* What a RELOC line names is still what its name means when the objects are
\* patched; else its fixups would go to another bucket, and its order be lost.
\* (loadSymbols must not redeclare an import.)
RelocsCurrent ==
  pc # "script" =>
    \A n \in SegmentNumbers : \A u \in Range(userinfo[n]) :
      u.target[1] = "symbol" /\ u.target[2] # 0
        => symtab[symbols[u.target[2]].name] = u.target[2]

\* No line of the script declares a name that a line before it has looked up.
\* (linkscript-design.txt puts the MODULE lines first.)
Declares(l) ==
  IF l.cmd = "MODULE" THEN {<<l.name>> \o l.file.names[i].name : i \in DOMAIN l.file.names}
  ELSE IF l.cmd = "RELOC" /\ ~ToSegment(l) /\ l.ordinal THEN {l.to} ELSE {}
LooksUp(l) == IF l.cmd = "RELOC" /\ ~ToSegment(l) THEN {<<l.mod>> \o l.to} ELSE {}
DeclaredFirst(in) ==
  \A k \in DOMAIN in.script : \A j \in 1..(k - 1) :
    Declares(in.script[k]) \cap LooksUp(in.script[j]) = {}

\* The segments lie on sectors of the executable, one behind the other, with
\* room for their relocations.  (The end of cmdLink; align.)
SegmentsApart ==
  pc \in {"done", "failed"} /\ Patching =>
    \A i \in Files :
      /\ segments[i].start % 512 = 0
      /\ i > 1 => segments[i].start >= segments[i - 1].start + segments[i - 1].size
                                         + segments[i - 1].relocsize

\* The map lists each public name once, as the first input that declares it
\* has it, and none that the script imports; its real address is where the
\* byte comes to lie.  (loadSymbols, writeMapFile.)
DeclaredIn(in) ==
  LET public == PublicNames(in)
  IN  {p \in Range(public) :
         /\ ~Meaning(in, p.name).import
         /\ p = public[SelectInSeq(public, LAMBDA x : x.name = p.name)]}
Declared == DeclaredIn(input)
MapTells ==
  map # NoMap =>
    /\ Range(map.constants) = {[name |-> p.name, value |-> p.offset] :
                                 p \in {q \in Declared : q.const}}
    /\ \A i \in Files :
         Range(map.sections[i]) = {[name |-> p.name, virtual |-> p.offset,
                                    real |-> segments[i].start + p.offset] :
                                     p \in {q \in Declared : ~q.const /\ q.input = i}}

\* The linker always comes to an end.
LinkEnds == <>(pc \in Ended)
-----------------------------------------------------------------------------
(***************************************************************************)
(* What the documents say, and the linker does not do.                     *)
(***************************************************************************)

\* "relocsize int // number of bytes in reloc data" (link.go)
RelocsizeIsBytes ==
  \A i \in Complete : Len(out[i]) = segments[i].size + segments[i].relocsize
=============================================================================
