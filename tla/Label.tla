------------------------------- MODULE Label -------------------------------
(***************************************************************************)
(* tools/label: a disassembly is read line by line, jump tables in it are  *)
(* turned back into words, and every address that a jump goes to gets a    *)
(* label; with -many, function by function.                                *)
(*                                                                         *)
(* A line of the listing is kept as its address, its bytes, and kind:      *)
(*   "text"   fewer than three fields, and no bytes                        *)
(*   "table"  jmp [cs:...]                                                 *)
(*   "jump"   a jump, to dest (0 if the second argument is no number)      *)
(*   "bad"    a jump whose argument is no number                           *)
(*   "retf", "nop", or "op": any other, far jumps among them.              *)
(* A line that is written is kept as its address, its bytes and what it    *)
(* has to do with labels.                                                  *)
(***************************************************************************)
EXTENDS Integers, Sequences, FiniteSets, SequencesExt, FiniteSetsExt

CONSTANT Listings   \* [lines, start, mode]: what label may read; mode is "all",
                    \* "one" or "many"

ListingLine == [kind: {"text", "table", "jump", "bad", "retf", "nop", "op"},
                addr: Nat, dest: Nat, bytes: Seq(0..255)]

\* A listing as a disassembler writes it: a line of code has bytes, and their
\* addresses ascend.
ASSUME ListingsAssumption ==
  \A l \in Listings :
    /\ l.lines \in Seq(ListingLine) /\ l.start \in Nat /\ l.mode \in {"all", "one", "many"}
    /\ \A i \in DOMAIN l.lines : l.lines[i].kind = "text" <=> l.lines[i].bytes = <<>>
    /\ \A i, k \in DOMAIN l.lines :
         i < k /\ l.lines[i].kind # "text" /\ l.lines[k].kind # "text"
           => l.lines[i].addr <= l.lines[k].addr

VARIABLES
  listing, next,                     \* the member of Listings, the next line
  labelling,                         \* where label is
  lines, jumps, errorsSeen, lastAddr, breaking,   \* locals of main
  addr, minAddr, buf,                \* and of its loop over a jump table
  left,                              \* why the main loop was left
  functions                          \* what has been written, drain by drain

tableVars == <<addr, minAddr, buf>>
labelVars == <<listing, next, labelling, lines, jumps, errorsSeen, lastAddr, breaking,
               tableVars, left, functions>>

NoLabel == -1
Highest == 1048575
Split == listing.mode \in {"one", "many"}

TextAt(a) == [Addr |-> a, Mnemonic |-> "", bytes |-> <<>>, IsJump |-> FALSE,
              IsTarget |-> FALSE, Label |-> 0, JumpLabel |-> NoLabel, JumpDest |-> 0]
CodeAt(a, mnemonic, bytes) == [TextAt(a) EXCEPT !.Mnemonic = mnemonic, !.bytes = bytes]
JumpAt(a, mnemonic, bytes, dest) ==
  [CodeAt(a, mnemonic, bytes) EXCEPT !.IsJump = TRUE, !.JumpDest = dest]

LabelInit ==
  /\ listing \in Listings
  /\ next = 1 /\ labelling = "top" /\ lines = <<>> /\ jumps = <<>> /\ errorsSeen = 0
  /\ lastAddr = 0 /\ breaking = FALSE
  /\ addr = 0 /\ minAddr = Highest /\ buf = <<>>
  /\ left = "no" /\ functions = <<>>
-----------------------------------------------------------------------------
(***************************************************************************)
(* drain: the destinations in ascending order get labels, each before the  *)
(* first line that has its address.                                        *)
(***************************************************************************)
\* Fault: the last line of that address.
findLast(ls, a) == SelectLastInSeq(ls, LAMBDA l : l.Addr = a)

findLine(ls, a) == SelectInSeq(ls, LAMBDA l : l.Addr = a)   \* 0 if there is none

drain(ls, js) ==
  LET found == {js[k].Dest : k \in {k \in DOMAIN js : findLine(ls, js[k].Dest) # 0}}
      number(d) == Cardinality({e \in found : e < d})
      aimed(i) == {d \in found : findLine(ls, d) = i}
      dests(i) == {js[k].Dest : k \in {k \in DOMAIN js : js[k].Line = i}} \cap found
  IN  [i \in DOMAIN ls |->
         [ls[i] EXCEPT
            !.IsTarget = aimed(i) # {},
            !.Label = IF aimed(i) # {} THEN number(Max(aimed(i))) ELSE 0,
            !.JumpLabel = IF dests(i) # {} THEN number(Max(dests(i))) ELSE NoLabel]]
-----------------------------------------------------------------------------
(***************************************************************************)
(* The main loop.                                                          *)
(***************************************************************************)
AtLine == labelling = "top" /\ next <= Len(listing.lines)
Now == listing.lines[next]
Code == AtLine /\ Now.kind # "text"
Low == Now.addr < listing.start
Ripe == breaking /\ Now.kind # "nop"      \* a function has ended
Take == Code /\ ~Low /\ ~Ripe
Consume == next' = next + 1 /\ lastAddr' = Now.addr
InListing == UNCHANGED <<listing, labelling, tableVars, left, functions>>

TextLine ==
  /\ AtLine /\ Now.kind = "text"
  /\ lines' = Append(lines, TextAt(lastAddr)) /\ next' = next + 1
  /\ UNCHANGED <<jumps, errorsSeen, lastAddr, breaking>> /\ InListing
BelowStart ==
  /\ Code /\ Low /\ Consume /\ lines' = <<>>
  /\ UNCHANGED <<jumps, errorsSeen, breaking>> /\ InListing

NewFunction ==
  /\ Code /\ ~Low /\ Ripe /\ listing.mode = "many" /\ lines # <<>>
  /\ functions' = Append(functions, drain(lines, jumps))
  /\ lines' = <<>> /\ jumps' = <<>> /\ breaking' = FALSE
  /\ UNCHANGED <<listing, labelling, next, errorsSeen, lastAddr, tableVars, left>>
StopAtNext ==
  /\ Code /\ ~Low /\ Ripe /\ ~(listing.mode = "many" /\ lines # <<>>)
  /\ labelling' = "end" /\ left' = "break" /\ lastAddr' = Now.addr
  /\ UNCHANGED <<listing, next, lines, jumps, errorsSeen, breaking, tableVars, functions>>

\* Fault: a function goes on if its return is followed by a nop.
BreaksHere(kind) == Split /\ kind = "retf"

Breaks(kind) == breaking \/ (Split /\ kind = "retf")
PlainLine ==
  /\ Take /\ Now.kind \in {"op", "nop", "retf"} /\ Consume
  /\ lines' = Append(lines, CodeAt(Now.addr, Now.kind, Now.bytes))
  /\ breaking' = Breaks(Now.kind)
  /\ UNCHANGED <<jumps, errorsSeen>> /\ InListing
JumpLine ==
  /\ Take /\ Now.kind = "jump" /\ Consume
  /\ lines' = Append(lines, JumpAt(Now.addr, "jump", Now.bytes, Now.dest))
  /\ jumps' = Append(jumps, [Dest |-> Now.dest, Line |-> Len(lines) + 1])
  /\ UNCHANGED <<errorsSeen, breaking>> /\ InListing
BadJump ==
  /\ Take /\ Now.kind = "bad" /\ Consume
  /\ errorsSeen' = errorsSeen + 1
  /\ UNCHANGED <<lines, jumps, breaking>> /\ InListing
EndOfListing ==
  /\ labelling = "top" /\ next > Len(listing.lines)
  /\ labelling' = "end" /\ left' = "eof"
  /\ UNCHANGED <<listing, next, lines, jumps, errorsSeen, lastAddr, breaking, tableVars,
                 functions>>
-----------------------------------------------------------------------------
(***************************************************************************)
(* A jump table: words follow the jump, at an even address, up to the      *)
(* lowest address that one of them holds.  Their bytes are taken from      *)
(* whatever instructions the disassembler has made of them.                *)
(***************************************************************************)
TableLine ==
  /\ Take /\ Now.kind = "table" /\ Consume
  /\ LET behind == Now.addr + Len(Now.bytes)
         jmp == CodeAt(Now.addr, "jmp", Now.bytes)
     IN  /\ addr' = behind
         /\ lines' = IF behind % 2 = 0 THEN Append(lines, jmp)
                     ELSE lines \o <<jmp, CodeAt(behind, "nop", <<144>>)>>
         /\ labelling' = IF behind % 2 = 0 THEN "table" ELSE "skip"
  /\ minAddr' = Highest /\ buf' = <<>>
  /\ UNCHANGED <<listing, jumps, errorsSeen, breaking, left, functions>>

InTableLoop == UNCHANGED <<listing, errorsSeen, lastAddr, breaking, functions>>
MoreCode == next <= Len(listing.lines) /\ Now.kind # "text"

\* The byte before an even address is taken for a nop; a line that has none is
\* lost, and no error.
SkipByte ==
  /\ labelling = "skip"
  /\ buf' = IF MoreCode THEN Tail(Now.bytes) ELSE <<>>
  /\ next' = IF next <= Len(listing.lines) THEN next + 1 ELSE next
  /\ addr' = addr + 1 /\ labelling' = "table"
  /\ UNCHANGED <<lines, jumps, minAddr, left>> /\ InTableLoop

TableReads == labelling = "table" /\ addr < minAddr
readline ==
  /\ TableReads /\ Len(buf) < 2 /\ MoreCode
  /\ buf' = buf \o Now.bytes /\ next' = next + 1
  /\ UNCHANGED <<labelling, lines, jumps, addr, minAddr, left>> /\ InTableLoop
\* Where there are no bytes the main loop is left too.
TableCut ==
  /\ TableReads /\ Len(buf) < 2 /\ ~MoreCode
  /\ labelling' = "end" /\ left' = "cut"
  /\ UNCHANGED <<next, lines, jumps, tableVars>> /\ InTableLoop
ReadWord ==
  /\ TableReads /\ Len(buf) >= 2
  /\ LET word == buf[1] + 256 * buf[2]
     IN  /\ minAddr' = Min({minAddr, word})
         /\ lines' = Append(lines, JumpAt(addr, "dw", SubSeq(buf, 1, 2), word))
         /\ jumps' = Append(jumps, [Dest |-> word, Line |-> Len(lines) + 1])
  /\ buf' = SubSeq(buf, 3, Len(buf)) /\ addr' = addr + 2
  /\ UNCHANGED <<labelling, next, left>> /\ InTableLoop

\* Fault: what the last line read had besides the table is forgotten.
LeftOverLost == <<TextAt(addr)>>

LeftOver ==
  IF buf = <<>> THEN <<TextAt(addr)>> ELSE <<TextAt(addr), CodeAt(addr, "db", buf)>>
TableEnd ==
  /\ labelling = "table" /\ addr >= minAddr
  /\ lines' = lines \o LeftOver
  /\ labelling' = "top"
  /\ UNCHANGED <<next, jumps, tableVars, left>> /\ InTableLoop
-----------------------------------------------------------------------------
\* After an error nothing more is written.
FinishLabel ==
  /\ labelling = "end"
  /\ functions' = IF errorsSeen > 0 THEN functions
                  ELSE Append(functions, drain(lines, jumps))
  /\ labelling' = "done"
  /\ UNCHANGED <<listing, next, lines, jumps, errorsSeen, lastAddr, breaking, tableVars,
                 left>>

LabelNext ==
  \/ TextLine \/ BelowStart \/ NewFunction \/ StopAtNext \/ PlainLine \/ JumpLine
  \/ BadJump \/ EndOfListing \/ TableLine \/ SkipByte \/ readline \/ TableCut
  \/ ReadWord \/ TableEnd \/ FinishLabel

LabelSpec == LabelInit /\ [][LabelNext]_labelVars /\ WF_labelVars(LabelNext)
-----------------------------------------------------------------------------
\* A jump is written with the label that stands before the first line of its
\* destination, or with none if what is written with it has no such line;
\* and the labels rise with the addresses.  (drain, and the lists of lines
\* and jumps that the main loop keeps in step.)
Reaches(f) ==
  /\ \A i \in DOMAIN f : f[i].IsJump =>
       LET at == {k \in DOMAIN f : f[k].Addr = f[i].JumpDest}
       IN  IF at = {} THEN f[i].JumpLabel = NoLabel
           ELSE f[Min(at)].IsTarget /\ f[Min(at)].Label = f[i].JumpLabel
  /\ \A i, k \in DOMAIN f :
       f[i].IsTarget /\ f[k].IsTarget /\ f[i].Addr < f[k].Addr => f[i].Label < f[k].Label
JumpsReach == \A n \in DOMAIN functions : Reaches(functions[n])

\* What is written has the bytes of the listing, from the start address on, in
\* their order and with none left out, up to where label has stopped; and
\* it stops before the end only after the one function it was asked for, or
\* in a table that runs into a line without bytes.  So it is if there
\* is a nop wherever a byte is skipped.  (The two readers of one input, main
\* and bytereader.)
BytesOf(ls) == FlattenSeq([i \in DOMAIN ls |-> ls[i].bytes])
Wished ==
  FlattenSeq([i \in DOMAIN listing.lines |->
                LET l == listing.lines[i]
                IN  IF l.addr >= listing.start THEN l.bytes ELSE <<>>])
NopsSkipped ==
  \A i \in DOMAIN listing.lines :
    LET l == listing.lines[i]
    IN  l.kind = "table" /\ (l.addr + Len(l.bytes)) % 2 = 1
          => /\ i < Len(listing.lines)
             /\ IsPrefix(<<144>>, listing.lines[i + 1].bytes)
CodeKept ==
  labelling = "done" /\ errorsSeen = 0 /\ NopsSkipped =>
    LET written == FlattenSeq([n \in DOMAIN functions |-> BytesOf(functions[n])])
    IN  /\ IsPrefix(written, Wished)
        /\ written = Wished \/ left = "cut" \/ (left = "break" /\ listing.mode = "one")

\* With -many a function ends with its return and the nops behind it, so each
\* but the last has a return, and none but the first is empty or starts with a nop,
\* unless a line could not be read.  (breaking, which outlives the nops but
\* not the function.)
Ended(f) == \E i \in DOMAIN f : f[i].Mnemonic = "retf"
EndsOnce(f) ==
  \A i, k \in DOMAIN f :
    f[i].Mnemonic = "retf" /\ i < k => f[k].Mnemonic \in {"", "nop"}
FunctionsSplit ==
  listing.mode = "many" =>
    \A n \in DOMAIN functions :
      LET f == functions[n]
      IN  /\ n < Len(functions) => Ended(f)
          /\ n > 1 => errorsSeen > 0 \/ (f # <<>> /\ f[1].Mnemonic # "nop")
          /\ EndsOnce(f)
=============================================================================
