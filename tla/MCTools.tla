------------------------------ MODULE MCTools ------------------------------
(***************************************************************************)
(* The tools around the linker, one at a time, on small files.             *)
(***************************************************************************)
EXTENDS CopyReloc, Label, Resources

VARIABLE tool   \* which of them runs

CONSTANT Tools
-----------------------------------------------------------------------------
(***************************************************************************)
(* copyreloc: segments of three words, each free or a link, and tables of  *)
(* up to two relocations.                                                  *)
(***************************************************************************)
Entry(type, head) == <<2, type>> \o Bytes16(head) \o <<1, 0, 0, 0>>
Executable(words, count, table) ==
  [readable |-> TRUE, segments |-> 2, reloc |-> TRUE, size |-> 6,
   bytes |-> FlattenSeq([i \in 1..3 |-> Bytes16(words[i])]) \o count \o table \o <<7, 7>>]
Bin(n) == [i \in 1..n |-> 100 + i]
Call(e) == [exe |-> e, segment |-> 2, bin |-> Bin(6)]

Chains == [1..3 -> {ChainEnd, 0, 4}]
HeadsIn == {0, 2, ChainEnd}
E1 == Executable(<<4, ChainEnd, ChainEnd>>, <<1, 0>>, Entry(1, 0))
Calls ==
  {Call(Executable(w, <<1, 0>>, Entry(0, h))) : w \in Chains, h \in HeadsIn}
  \cup {Call(Executable(w, <<2, 0>>, Entry(0, 0) \o Entry(1, h))) : w \in Chains, h \in HeadsIn}
  \cup {Call(Executable(<<4, 4, 4>>, <<0, 0>>, <<>>)),
        Call(Executable(<<4, 4, 4>>, <<1, 0>>, Entry(4, 0))),
        Call(Executable(<<300, 4, 4>>, <<1, 0>>, Entry(3, 0))),
        Call(Executable(<<4, 4, 4>>, <<2, 0>>, Entry(0, 0))),
        Call(Executable(<<4, 4, ChainEnd>>, <<0, 32>>, <<>>)),
        Call(Executable(<<4, 4, ChainEnd>>, <<1, 32>>, Entry(1, 0))),
        [Call(E1) EXCEPT !.exe.readable = FALSE], [Call(E1) EXCEPT !.exe.reloc = FALSE],
        [Call(E1) EXCEPT !.segment = 3], [Call(E1) EXCEPT !.bin = Bin(5)]}
-----------------------------------------------------------------------------
(***************************************************************************)
(* label: every listing of four short lines, and some with a jump table.   *)
(***************************************************************************)
In(kind, dest, bytes) == [kind |-> kind, dest |-> dest, bytes |-> bytes, addr |-> 0]
Op == In("op", 0, <<17>>)
Long == In("op", 0, <<18, 19, 20>>)
Ret == In("retf", 0, <<203>>)
Nop == In("nop", 0, <<144>>)
Text == In("text", 0, <<>>)
Jmp(d) == In("jump", d, <<235, d>>)
Short == {Op, Ret, Nop, Text, Jmp(0), Jmp(3), Jmp(2)}

\* The lines with their addresses.
Placed(ls) ==
  [i \in DOMAIN ls |->
     [ls[i] EXCEPT !.addr = FoldSet(LAMBDA k, n : n + Len(ls[k].bytes), 0, 1..(i - 1))]]
Listed(ls, start, mode) == [lines |-> Placed(ls), start |-> start, mode |-> mode]

\* A jump through a table of words, which the disassembler shows as ops.
Switch(n) == In("table", 0, [i \in 1..n |-> 46])
Tables == {
  <<Switch(4), In("op", 0, <<8, 0>>), In("op", 0, <<9, 0, 161>>), Ret, Op>>,
  <<Op, Switch(2), Nop, In("op", 0, <<10, 0, 8>>), In("op", 0, <<0>>), Op, Ret, Jmp(9)>>,
  <<Op, Switch(2), In("op", 0, <<144, 8>>), In("retf", 0, <<0, 9>>), In("op", 0, <<0, 162, 163>>),
    Jmp(0), Op>>,
  <<Switch(2), In("op", 0, <<2, 0, 17>>), Ret, Switch(2), Nop, Op>>,
  <<Jmp(6), Switch(2), In("op", 0, <<9, 0, 7>>), Text, In("op", 0, <<0, 1>>), Ret>>,
  <<Op, Switch(2), Text, Op, Op>>, <<Op, Switch(2)>>, <<Switch(2)>>,
  <<Op, Ret, Switch(2), In("op", 0, <<6, 0>>), Nop, Jmp(6), Ret, Op>>,
  <<Long, Ret, In("bad", 0, <<1, 2>>), Ret, Jmp(4)>>,
  <<Op, Ret, In("bad", 0, <<1, 2>>), Nop, Op, Ret, Op>>, <<Text, Long, Ret, Long, Jmp(7), Ret>> }

SomeListings ==
  {Listed(ls, 0, "many") : ls \in [1..4 -> Short]}
  \cup {Listed(ls, 0, "one") : ls \in [1..3 -> Short]}
  \cup {Listed(ls, start, mode) : ls \in Tables, start \in {0, 3}, mode \in {"all", "one", "many"}}
-----------------------------------------------------------------------------
(***************************************************************************)
(* res: bitmaps of every depth up to 8, and tables that end too soon;      *)
(* dialog: a dialog with strings of every kind, cut at every place.        *)
(***************************************************************************)
Bitmap(bits, colors, w, len) ==
  [HeaderSize |-> 40, Width |-> w, Height |-> 3, NBits |-> bits, Compression |-> 0,
   Len |-> len, NColors |-> colors, rest |-> 5000]
EntryOf(id, name, bmp) == [id |-> id, name |-> name, bmp |-> bmp]
Ids(n) == 32768 + n
Block(type, entries) == [type |-> type, num |-> Len(entries), entries |-> entries]
Image(blocks) == [readable |-> TRUE, terminated |-> TRUE, dump |-> TRUE, blocks |-> blocks]
NoName == <<>>
Odd24 == Bitmap(24, 0, 5, 0)
Pictures ==
  {Image(<<Block(32771, <<EntryOf(Ids(1), NoName, Odd24)>>),
           Block(RT_BITMAP, <<EntryOf(Ids(1), NoName, Bitmap(b, c, w, 0)),
                              EntryOf(12, <<65>>, Bitmap(8, 2, w, 24)),
                              EntryOf(13, NoName, [Odd24 EXCEPT !.Compression = 1])>>)>>) :
     b \in {1, 4, 8}, c \in {0, 2}, w \in 1..33}
Blocks == << Block(RT_BITMAP, <<EntryOf(Ids(1), NoName, [Odd24 EXCEPT !.HeaderSize = 12])>>) >>
SomeImages == Pictures \cup {
  [Image(Blocks) EXCEPT !.terminated = FALSE], [Image(Blocks) EXCEPT !.readable = FALSE],
  [Image(Blocks) EXCEPT !.dump = FALSE], Image(<<[Blocks[1] EXCEPT !.num = 2]>>) }

Piece(title, data) == [fixed |-> [i \in 1..15 |-> (3 * i) % 5], title |-> title, data |-> data]
Dialog(items) == [caption |-> <<72, 105>>, size |-> <<8, 1>>, font |-> <<70>>, items |-> items]
SomeTemplates ==
  UNION {{[dialog |-> d, cut |-> n] : n \in 0..Len(Layout(d))} :
           d \in {Dialog(<<>>), Dialog(<<Piece(<<79, 75>>, <<>>)>>),
                  Dialog(<<Piece(<<>>, <<9>>), Piece(<<79>>, <<>>), Piece(<<>>, <<>>)>>)}}
-----------------------------------------------------------------------------
\* The tools that do not run stand at some beginning.
AnyCall == CHOOSE c \in Calls : TRUE
AnyListing == CHOOSE l \in SomeListings : TRUE
AnyImage == CHOOSE i \in SomeImages : TRUE
AnyTemplate == CHOOSE t \in SomeTemplates : TRUE
Init == /\ tool \in Tools
        /\ IF tool = "copyreloc" THEN CopyInit ELSE call = AnyCall /\ CopyInit
        /\ IF tool = "label" THEN LabelInit ELSE listing = AnyListing /\ LabelInit
        /\ IF tool = "res" THEN ResInit ELSE image = AnyImage /\ ResInit
        /\ IF tool = "dialog" THEN DialogInit ELSE template = AnyTemplate /\ DialogInit

copyrelocRuns == tool = "copyreloc" /\ UNCHANGED <<tool, labelVars, resVars, dialogVars>>
labelRuns == tool = "label" /\ UNCHANGED <<tool, copyVars, resVars, dialogVars>>
resRuns == tool = "res" /\ UNCHANGED <<tool, copyVars, labelVars, dialogVars>>
dialogRuns == tool = "dialog" /\ UNCHANGED <<tool, copyVars, labelVars, resVars>>
OwnStep == \/ copyrelocRuns /\ CopyStep
           \/ labelRuns /\ LabelNext
           \/ resRuns /\ ResNext
           \/ dialogRuns /\ DialogNext
Next == OwnStep \/ (copyrelocRuns /\ (Stop \/ Again))

toolVars == <<tool, copyVars, labelVars, resVars, dialogVars>>
Spec == Init /\ [][Next]_toolVars /\ WF_toolVars(OwnStep)
=============================================================================
