------------------------------- MODULE Linker -------------------------------
(***************************************************************************)
(* tools/link: the script is read line by line, then the symbols of every  *)
(* object, then each object is patched, one record and one fixup at a time,*)
(* and written out with its relocation table behind it.                    *)
(*                                                                         *)
(* A pointer to a Symbol is an index into symbols, 0 for nil; a pointer to *)
(* a Module an index into modules; a pointer to a Segment is its number,   *)
(* because addSegment makes one per number.  reloctab is the search for a  *)
(* target in reloclist.                                                    *)
(***************************************************************************)
EXTENDS Script

CONSTANT Inputs   \* what the linker may be called with: records of
                  \*   script   its lines
                  \*   objects  one sequence of records per input file
                  \*   seg      the -seg flag, 0 if not given
                  \*   map      "none", "new", or "taken" (a file that exists
                  \*            and is no .map file)
                  \*   full     whether the disk may turn out to be full
CONSTANT SegmentNumbers   \* those that userinfo may be asked for

IsList(s) == s \in Seq(Range(s))
ASSUME InputsAssumption ==
  /\ SegmentNumbers \subseteq Nat
  /\ \A in \in Inputs :
       /\ IsList(in.script) /\ \A k \in DOMAIN in.script : LineOK(in.script[k])
       /\ \A k \in DOMAIN in.script :
            in.script[k].cmd = "RELOC" /\ in.script[k].seg > 0
              => in.script[k].seg \in SegmentNumbers
       /\ IsList(in.objects) /\ DOMAIN in.objects \subseteq SegmentNumbers
       /\ \A i \in DOMAIN in.objects :
            /\ IsList(in.objects[i])
            /\ \A k \in DOMAIN in.objects[i] : RecordOK(in.objects[i][k])
       /\ in.seg \in SegmentNumbers \cup {0}

VARIABLES
  input,                           \* the member of Inputs at hand
  pc, line, file, rec,             \* where the linker is
  modules, symbols, symtab, userinfo,
  segments,                        \* SegmentInfo of each input
  ledata, data, fixes,             \* locals of patch and fixup
  user, patches,                   \* locals of patch's second phase
  out,                             \* the .bin files
  errors,                          \* the files whose patch failed
  map                              \* the .map file

scriptVars == <<modules, symbols, symtab, userinfo>>
recordVars == <<ledata, data, fixes>>
chainVars == <<user, patches>>
vars == <<input, pc, line, file, rec, scriptVars, segments, recordVars,
          chainVars, out, errors, map>>

Ended == {"done", "failed", "panic"}
End == 65535                       \* ends a relocation chain
Files == DOMAIN input.objects
seg == segments[file]

Put16OK(v) == v \in Nat /\ v < 65536
Put16(bytes, at, v) ==             \* at counts from 0
  [bytes EXCEPT ![at + 1] = v % 256, ![at + 2] = v \div 256]
-----------------------------------------------------------------------------
(***************************************************************************)
(* Symbols and modules.                                                    *)
(***************************************************************************)
Imported(name, mod, ordinal, const) ==
  [name |-> name, module |-> mod, segment |-> 0, offset |-> ordinal,
   constant |-> const]
Local(name, segment, offset, const) ==
  [name |-> name, module |-> 0, segment |-> segment, offset |-> offset,
   constant |-> const]

ModuleNamed(name) ==               \* 0 if there is none
  SelectInSeq(modules, LAMBDA m : m.name = name)

addModule(num, name) ==
  IF ModuleNamed(name) # 0 THEN modules
  ELSE Append(modules, [num |-> num, name |-> name, hasSyms |-> FALSE])

\* New symbols, of which the last of a name is the one found.
Bound(new) ==
  LET names == {new[i].name : i \in DOMAIN new}
      last(n) == CHOOSE i \in DOMAIN new :
                   new[i].name = n /\ \A j \in DOMAIN new : new[j].name = n => j <= i
  IN  [n \in DOMAIN symtab \cup names |->
         IF n \in names THEN Len(symbols) + last(n) ELSE symtab[n]]
AddSymbols(new) == symbols' = symbols \o new /\ symtab' = Bound(new)

lookup(name) == IF name \in DOMAIN symtab THEN symtab[name] ELSE 0
-----------------------------------------------------------------------------
(***************************************************************************)
(* The script.                                                             *)
(***************************************************************************)
Line == input.script[line]
Reading(cmd) == pc = "script" /\ line <= Len(input.script) /\ Line.cmd = cmd
NextLine == line' = line + 1 /\ pc' = "script"
Fail == pc' = "failed" /\ UNCHANGED line
OutsideScript == UNCHANGED <<input, file, rec, segments, recordVars, chainVars,
                             out, errors, map>>

BlankLine == Reading("blank") /\ NextLine /\ UNCHANGED scriptVars /\ OutsideScript

UnknownLine ==
  /\ pc = "script" /\ line <= Len(input.script)
  /\ Line.cmd \notin {"MODULE", "RELOC", "blank"}
  /\ Fail /\ UNCHANGED scriptVars /\ OutsideScript

\* MODULE num name [symfile]: the symfile's names get the module's as prefix.
scriptModule ==
  /\ Reading("MODULE")
  /\ LET mods == addModule(Line.num, Line.name)
         m == SelectInSeq(mods, LAMBDA x : x.name = Line.name)
         names == [i \in DOMAIN Line.file.names |->
                     LET n == Line.file.names[i]
                     IN  Imported(<<Line.name>> \o n.name, m, n.ordinal, n.equate)]
     IN  IF ~ModuleLineOK(Line) THEN Fail /\ UNCHANGED scriptVars
         ELSE IF ~Line.file.given
         THEN NextLine /\ modules' = mods /\ UNCHANGED <<symbols, symtab, userinfo>>
         ELSE IF ~Line.file.open
         THEN Fail /\ modules' = mods /\ UNCHANGED <<symbols, symtab, userinfo>>
         ELSE /\ NextLine /\ AddSymbols(names) /\ UNCHANGED userinfo
              /\ modules' = [mods EXCEPT ![m].hasSyms = TRUE]
  /\ OutsideScript

AddReloc(target) ==
  userinfo' = [userinfo EXCEPT ![Line.seg] =
                 Append(@, [target |-> target, spans |-> parsePatchlist(Line.patchlist)])]

\* RELOC seg SEGMENT number [= patchlist]
scriptRelocSegment ==
  /\ Reading("RELOC") /\ Line.fields = 4 /\ Line.seg > 0 /\ ToSegment(Line)
  /\ IF Line.valid /\ PatchlistOK(Line.patchlist)
     THEN NextLine /\ AddReloc(<<"segment", Line.to>>)
     ELSE Fail /\ UNCHANGED userinfo
  /\ UNCHANGED <<modules, symbols, symtab>> /\ OutsideScript

\* RELOC seg module symbol [= patchlist]: "@7" adds an imported symbol named
\* "7", but it is "module.7" that is then looked up.  A symbol not found is an
\* error only if the module has a symfile; otherwise the target is nil.
scriptRelocSymbol ==
  /\ Reading("RELOC") /\ Line.fields = 4 /\ Line.seg > 0 /\ ~ToSegment(Line)
  /\ LET m == ModuleNamed(Line.mod)
         s == lookup(<<Line.mod>> \o Line.to)
     IN  /\ IF m # 0 /\ Line.ordinal /\ Line.valid
            THEN AddSymbols(<<Imported(Line.to, m, Line.number, FALSE)>>)
            ELSE UNCHANGED <<symbols, symtab>>
         /\ IF /\ m # 0 /\ (Line.ordinal => Line.valid)
               /\ s = 0 => ~modules[m].hasSyms
               /\ PatchlistOK(Line.patchlist)
            THEN NextLine /\ AddReloc(<<"symbol", s>>)
            ELSE Fail /\ UNCHANGED userinfo
  /\ UNCHANGED modules /\ OutsideScript

BadRelocLine ==
  /\ Reading("RELOC") /\ (Line.fields # 4 \/ Line.seg < 1)
  /\ Fail /\ UNCHANGED scriptVars /\ OutsideScript

\* cmdLink gives each input its segment number, in order; -seg renumbers a
\* lone input.
Segment(num) == [num |-> num, symbols |-> <<>>, extnames |-> <<>>, reloclist |-> <<>>,
                 start |-> 0, size |-> 0, relocsize |-> 0]
MakeSegments ==
  /\ pc = "script" /\ line > Len(input.script)
  /\ segments' = [i \in Files |-> Segment(IF Len(input.objects) = 1 /\ input.seg > 0
                                          THEN input.seg ELSE i)]
  /\ pc' = "symbols" /\ file' = 1
  /\ UNCHANGED <<input, line, rec, scriptVars, recordVars, chainVars, out, errors, map>>
-----------------------------------------------------------------------------
(***************************************************************************)
(* Phase 1: the symbols of each object.                                    *)
(***************************************************************************)
Object == input.objects[file]
AllRead(obj) == \A i \in DOMAIN obj : ReadRecordOK(obj[i])

\* Fault: a name declared before is bound again.
NewNamesAll(names) == names

\* The public names that no one has declared before.
NewNames(names) ==
  LET First(i) == /\ names[i].Name \notin DOMAIN symtab
                  /\ \A j \in 1..(i - 1) : names[j].Name # names[i].Name
  IN  FlattenSeq([i \in DOMAIN names |-> IF First(i) THEN <<names[i]>> ELSE <<>>])

loadSymbols ==
  /\ pc = "symbols" /\ file <= Len(input.objects)
  /\ IF AllRead(Object)
     THEN LET names == NewNames(ReadObjNames(Object))
              new == [i \in DOMAIN names |->
                        Local(names[i].Name, seg.num, names[i].Offset, names[i].Const)]
          IN  /\ AddSymbols(new)
              /\ segments' = [segments EXCEPT
                    ![file].extnames = ReadExternalNames(Object),
                    ![file].symbols = [i \in DOMAIN new |-> Len(symbols) + i]]
              /\ pc' = "symbols" /\ file' = file + 1
     ELSE pc' = "failed" /\ UNCHANGED <<symbols, symtab, segments, file>>
  /\ UNCHANGED <<input, line, rec, modules, userinfo, recordVars, chainVars, out,
                 errors, map>>

BeginPatching ==
  /\ pc = "symbols" /\ file > Len(input.objects)
  /\ pc' = "open" /\ file' = 1
  /\ UNCHANGED <<input, line, rec, scriptVars, segments, recordVars, chainVars, out,
                 errors, map>>
-----------------------------------------------------------------------------
(***************************************************************************)
(* Phase 2: patch.  First the buckets of relocations.                      *)
(***************************************************************************)
RelocInfo(t) == [target |-> t, patches |-> <<>>, last |-> End]

BucketOf(list, t) == SelectInSeq(list, LAMBDA ri : ri.target = t)

\* Fault: does not look for the bucket first.
getOrMakeNew(list, t) == Append(list, RelocInfo(t))

getOrMake(list, t) ==
  IF BucketOf(list, t) # 0 THEN list ELSE Append(list, RelocInfo(t))

\* The buckets that the script names, in its order.
Preloaded(users) ==
  LET list[k \in 0..Len(users)] ==
        IF k = 0 THEN seg.reloclist ELSE getOrMake(list[k - 1], users[k].target)
  IN  list[Len(users)]

InPatch == UNCHANGED <<input, line, file, modules, userinfo, map>>
OpenOutput ==
  /\ pc = "open" /\ file <= Len(input.objects)
  /\ pc' = "records" /\ rec' = 1
  /\ out' = [out EXCEPT ![file] = <<>>]
  /\ segments' = [segments EXCEPT ![file].reloclist = Preloaded(userinfo[seg.num])]
  /\ ledata' = NoOffset /\ data' = <<>> /\ fixes' = <<>>
  /\ UNCHANGED <<symbols, symtab, chainVars, errors>> /\ InPatch

\* Creating or writing a file fails: the error is logged, and the next input
\* has its turn.
GiveUp == /\ errors' = errors \cup {file}
          /\ pc' = "open" /\ file' = file + 1
          /\ UNCHANGED <<input, line, rec, scriptVars, segments, recordVars,
                         chainVars, map>>
DiskFull == /\ input.full /\ file <= Len(input.objects)
            /\ \/ pc = "open"
               \/ pc = "relink" /\ patches # {}
               \/ pc = "fixups" /\ fixes = <<>>
            /\ GiveUp /\ UNCHANGED out

\* A record of a type that is of no interest here (the names were read before).
Record == Object[rec]
AtRecord(type) == pc = "records" /\ rec <= Len(Object) /\ Record.type = type
OtherRecord ==
  /\ pc = "records" /\ rec <= Len(Object) /\ Record.type \notin {"LEDATA", "FIXUP"}
  /\ rec' = rec + 1
  /\ UNCHANGED <<pc, symbols, symtab, segments, recordVars, chainVars, out, errors>>
  /\ InPatch

LedataRecord ==
  /\ AtRecord("LEDATA")
  /\ ledata' = ParseLedata(Record) /\ rec' = rec + 1
  /\ UNCHANGED <<pc, symbols, symtab, segments, data, fixes, chainVars, out, errors>>
  /\ InPatch

FixupRecord ==
  /\ AtRecord("FIXUP") /\ ParseFixupOK(Record)
  /\ pc' = "fixups" /\ fixes' = ParseFixup(Record) /\ data' = ledata.Data
  /\ UNCHANGED <<rec, symbols, symtab, segments, ledata, chainVars, out, errors>>
  /\ InPatch
BadFixupRecord ==
  AtRecord("FIXUP") /\ ~ParseFixupOK(Record) /\ GiveUp /\ UNCHANGED out
-----------------------------------------------------------------------------
(***************************************************************************)
(* fixup, one at a time.                                                   *)
(***************************************************************************)
fix == Head(fixes)
Fixing == pc = "fixups" /\ fixes # <<>>
Address == ledata.StartOffset + fix.DataOffset

NameInRange == fix.RefIndex \in DOMAIN seg.extnames
Name == seg.extnames[fix.RefIndex]
Resolves == NameInRange /\ (Name \in DOMAIN symtab \/ IsFun(Name))
Resolved == IF Name \in DOMAIN symtab THEN symbols[symtab[Name]]
            ELSE Local(Name, Name[2], Name[3], FALSE)
\* A FUN_ name that is resolved becomes a symbol.
resolve == IF Name \in DOMAIN symtab THEN UNCHANGED <<symbols, symtab>>
           ELSE AddSymbols(<<Resolved>>)

External == fix.RefType = "external" /\ Resolves
Imports == External /\ Resolved.module # 0
InBounds == fix.DataOffset + 2 <= Len(data)

\* What the fixup is a relocation to, if it is one: the offset half of a
\* reference to an imported symbol, or the segment half of another.
Relocates ==
  \/ External /\ (Imports <=> fix.FixupType = "offset")
  \/ fix.RefType = "segment" /\ fix.RefIndex = 1 /\ fix.FixupType = "segment"
Target == IF fix.RefType = "segment" THEN <<"segment", seg.num>>
          ELSE IF Imports THEN <<"symbol", symtab[Name]>>
          ELSE <<"segment", Resolved.segment>>

WritesOffset == External /\ ~Imports /\ fix.FixupType = "offset"

FixDone == fixes' = Tail(fixes) /\ pc' = "fixups"
Panic == pc' = "panic" /\ UNCHANGED <<fixes, data>>

\* Fault: goes on with the same fixup.
SkipFixAgain == Fixing /\ (InBounds => ~Relocates /\ ~WritesOffset) /\ UNCHANGED vars

\* Nothing to write: out of bounds, unresolved, the other half of an imported
\* symbol, or what the assembler has seen to.
SkipFix ==
  /\ Fixing /\ (InBounds => ~Relocates /\ ~WritesOffset)
  /\ FixDone
  /\ UNCHANGED <<rec, symbols, symtab, segments, ledata, data, chainVars, out, errors>>
  /\ InPatch

\* A local symbol's offset is known.  put16 panics if it has more than 16 bits.
OffsetFix ==
  /\ Fixing /\ InBounds /\ WritesOffset
  /\ resolve
  /\ IF Put16OK(Resolved.offset)
     THEN FixDone /\ data' = Put16(data, fix.DataOffset, Resolved.offset)
     ELSE Panic
  /\ UNCHANGED <<rec, segments, ledata, chainVars, out, errors>> /\ InPatch

\* Fault: the bucket's head stays where it is.
ChainedLost(ri, at) == [ri EXCEPT !.patches = Append(@, at)]

\* The bucket with one more address, which is now its head.
Chained(ri, at) == [ri EXCEPT !.patches = Append(@, at), !.last = at]

\* The rest become links of a chain: the word takes the address of the
\* bucket's last fixup before it.
ChainFix ==
  /\ Fixing /\ InBounds /\ Relocates
  /\ IF External THEN resolve ELSE UNCHANGED <<symbols, symtab>>
  /\ LET list == getOrMake(seg.reloclist, Target)
         b == BucketOf(list, Target)
     IN  /\ segments' = [segments EXCEPT ![file].reloclist =
                           [list EXCEPT ![b] = Chained(@, Address)]]
         /\ IF Put16OK(list[b].last)
            THEN FixDone /\ data' = Put16(data, fix.DataOffset, list[b].last)
            ELSE Panic
  /\ UNCHANGED <<rec, ledata, chainVars, out, errors>> /\ InPatch

\* The record's data go out; ledata shares them, so that a second FIXUP record
\* would find them patched.
WriteData ==
  /\ pc = "fixups" /\ fixes = <<>>
  /\ pc' = "records" /\ rec' = rec + 1
  /\ out' = [out EXCEPT ![file] = @ \o data]
  /\ ledata' = [ledata EXCEPT !.Data = data]
  /\ segments' = [segments EXCEPT ![file].size = @ + Len(data)]
  /\ UNCHANGED <<symbols, symtab, data, fixes, chainVars, errors>> /\ InPatch
-----------------------------------------------------------------------------
(***************************************************************************)
(* patch's second phase: chains in the order of the script.                *)
(***************************************************************************)
Users == userinfo[seg.num]
InEnd == UNCHANGED <<rec, scriptVars, recordVars>> /\ InPatch

RecordsDone ==
  /\ pc = "records" /\ rec > Len(Object)
  /\ pc' = "sort" /\ user' = 1 /\ patches' = {}
  /\ UNCHANGED <<segments, out, errors>> /\ InEnd

\* Fault: the address after it, while the head stays the last.
LinksAhead(p) == {[addr |-> p[i], value |-> IF i = Len(p) THEN End ELSE p[i + 1]] : i \in DOMAIN p}

\* The word that each address of a chain is to hold: the address before it.
Links(p) == {[addr |-> p[i], value |-> IF i = 1 THEN End ELSE p[i - 1]] : i \in DOMAIN p}

\* The bucket with its addresses in another order.
Reordered(ri, p) == [ri EXCEPT !.patches = p, !.last = IF p = <<>> THEN End ELSE p[Len(p)]]

\* One RELOC line's bucket is put in order and its links are noted.
SortBucket ==
  /\ pc = "sort" /\ user <= Len(Users)
  /\ LET list == seg.reloclist
         b == BucketOf(list, Users[user].target)
         p == sortFixes(list[b].patches, Users[user].spans)
     IN  /\ segments' = [segments EXCEPT ![file].reloclist =
                           [list EXCEPT ![b] = Reordered(@, p)]]
         /\ patches' = patches \cup Links(p)
  /\ user' = user + 1
  /\ UNCHANGED <<pc, out, errors>> /\ InEnd

SortDone == /\ pc = "sort" /\ user > Len(Users)
            /\ pc' = "relink"
            /\ UNCHANGED <<segments, chainVars, out, errors>> /\ InEnd

\* A file grows when it is written past its end.
WriteAt(bytes, words) ==
  LET len == Max({Len(bytes)} \cup {a + 2 : a \in DOMAIN words})
  IN  [i \in 1..len |->
         IF i - 1 \in DOMAIN words THEN words[i - 1] % 256
         ELSE IF i - 2 \in DOMAIN words THEN words[i - 2] \div 256
         ELSE IF i <= Len(bytes) THEN bytes[i] ELSE 0]

\* The links are written in the order of their addresses.  When two RELOC lines
\* name one target an address has two links, which the sort may leave in either
\* order: the one written last stays.
Relink ==
  /\ pc = "relink"
  /\ \E words \in [{p.addr : p \in patches} -> {p.value : p \in patches}] :
       /\ \A a \in DOMAIN words : [addr |-> a, value |-> words[a]] \in patches
       /\ IF \A p \in patches : Put16OK(p.value)
          THEN /\ out' = [out EXCEPT ![file] = WriteAt(@, words)]
               /\ pc' = "relocs"
          ELSE pc' = "panic" /\ UNCHANGED out
  /\ UNCHANGED <<segments, chainVars, errors>> /\ InEnd

\* One record of the table: what kind of fixup, its chain's head, and the
\* target, a segment or an import's module and ordinal.
TargetWords(t) ==
  IF t[1] = "segment" THEN <<t[2] % 256, 0>>
  ELSE <<modules[symbols[t[2]].module].num, symbols[t[2]].offset>>
Kind(t) == IF t[1] = "segment" THEN <<2, 0>>
           ELSE IF symbols[t[2]].constant THEN <<5, 1>> ELSE <<3, 1>>
Word(v) == <<v % 256, v \div 256>>
RelocRecord(ri) == LET w == TargetWords(ri.target)
                   IN  Kind(ri.target) \o Word(ri.last) \o Word(w[1]) \o Word(w[2])
\* Behind the data come the number of relocations, in one byte of two, and the
\* records.  A bucket without patches is counted, and then skipped.
WriteRelocs ==
  /\ pc = "relocs"
  /\ LET list == seg.reloclist
         fits == \A ri \in Range(list) :
                   ri.patches # <<>> => /\ Put16OK(ri.last)
                                        /\ \A k \in 1..2 : Put16OK(TargetWords(ri.target)[k])
     IN  /\ segments' = [segments EXCEPT ![file].relocsize = 2 + 8 * Len(list)]
         /\ IF fits
            THEN /\ out' = [out EXCEPT ![file] = @ \o <<Len(list) % 256, 0>> \o
                              FlattenSeq([i \in DOMAIN list |->
                                IF list[i].patches = <<>> THEN <<>> ELSE RelocRecord(list[i])])]
                 /\ pc' = "open" /\ file' = file + 1
            ELSE pc' = "panic" /\ UNCHANGED <<out, file>>
  /\ UNCHANGED <<input, line, rec, scriptVars, recordVars, chainVars, errors, map>>

\* These writes are not looked at: on a full disk the table is lost.
LoseRelocs ==
  /\ pc = "relocs" /\ input.full
  /\ segments' = [segments EXCEPT ![file].relocsize = 2 + 8 * Len(seg.reloclist)]
  /\ pc' = "open" /\ file' = file + 1
  /\ UNCHANGED <<input, line, rec, scriptVars, recordVars, chainVars, out, errors, map>>
-----------------------------------------------------------------------------
(***************************************************************************)
(* The end of cmdLink: where the segments come to lie, and the map.        *)
(***************************************************************************)
\* Fault: rounds down.
alignDown(v, size) == v - (v % size)

\* v rounded up to a multiple of size.
align(v, size) == IF v % size # 0 THEN v + size - (v % size) ELSE v

\* The gaps that this executable has before its second and third segment.
Gap(i) == CASE i = 2 -> 512 [] i = 3 -> 25088 - 18432 [] OTHER -> 0
Starts ==
  LET start[i \in Files] ==
        Gap(i) + (IF i = 1 THEN 2560
                  ELSE align(start[i - 1] + segments[i - 1].size
                               + segments[i - 1].relocsize, 512))
  IN  start

\* Fault: constants and addresses alike.
ExportedAll(i, const) == segments[i].symbols

\* The map lists the symbols of each input that it was the first to declare:
\* the constants, then the others with their address in the executable.
Exported(i, const) ==
  LET list == segments[i].symbols
  IN  FlattenSeq([k \in DOMAIN list |->
        IF symbols[list[k]].constant = const THEN <<list[k]>> ELSE <<>>])
MapText(starts) ==
  LET Row(i, s) == [name |-> symbols[s].name, virtual |-> symbols[s].offset,
                    real |-> starts[i] + symbols[s].offset]
      Const(s) == [name |-> symbols[s].name, value |-> symbols[s].offset]
      Rows(i) == [k \in DOMAIN Exported(i, FALSE) |-> Row(i, Exported(i, FALSE)[k])]
      Consts(i) == [k \in DOMAIN Exported(i, TRUE) |-> Const(Exported(i, TRUE)[k])]
  IN  [constants |-> FlattenSeq([i \in Files |-> Consts(i)]),
       sections |-> [i \in Files |-> Rows(i)]]

\* A map that cannot be written is not an error; a failed patch is.
Finish ==
  /\ pc = "open" /\ file > Len(input.objects)
  /\ segments' = [i \in Files |-> [segments[i] EXCEPT !.start = Starts[i]]]
  /\ map' \in (IF input.map = "new" THEN {MapText(Starts)} ELSE {map})
                \cup (IF input.full THEN {map} ELSE {})
  /\ pc' = IF errors = {} THEN "done" ELSE "failed"
  /\ UNCHANGED <<input, line, file, rec, scriptVars, recordVars, chainVars, out, errors>>
-----------------------------------------------------------------------------
NoMap == [constants |-> <<>>, sections |-> <<>>]
NoFile == <<>>

Init ==
  /\ input \in Inputs
  /\ pc = "script" /\ line = 1 /\ file = 0 /\ rec = 0
  /\ modules = <<>> /\ symbols = <<>> /\ symtab = <<>>
  /\ userinfo = [n \in SegmentNumbers |-> <<>>]
  /\ segments = <<>>
  /\ ledata = NoOffset /\ data = <<>> /\ fixes = <<>>
  /\ user = 0 /\ patches = {}
  /\ out = [i \in DOMAIN input.objects |-> NoFile]
  /\ errors = {} /\ map = NoMap

ReadScript == \/ BlankLine \/ UnknownLine \/ scriptModule \/ scriptRelocSegment
              \/ scriptRelocSymbol \/ BadRelocLine \/ MakeSegments
Patch == \/ OpenOutput \/ DiskFull \/ OtherRecord \/ LedataRecord \/ FixupRecord
         \/ BadFixupRecord \/ SkipFix \/ OffsetFix \/ ChainFix \/ WriteData
         \/ RecordsDone \/ SortBucket \/ SortDone \/ Relink \/ WriteRelocs
         \/ LoseRelocs
Next == ReadScript \/ loadSymbols \/ BeginPatching \/ Patch \/ Finish

Spec == Init /\ [][Next]_vars

\* The linker is one thread that nothing makes wait.
FairSpec == Spec /\ WF_vars(Next)
=============================================================================
