----------------------------- MODULE CopyReloc -----------------------------
(***************************************************************************)
(* tools/copyreloc: the relocations of a segment are read from an          *)
(* executable and written over and behind the segment in a .bin file,      *)
(* write by write.  It may be stopped anywhere, and run again.             *)
(*                                                                         *)
(* An executable is kept as what copyReloc reads of it:                    *)
(*   readable  whether the headers and the segment table are there         *)
(*   segments  their number                                                *)
(*   reloc     the flag SegHasReloc of the segment                         *)
(*   size      the size of the segment                                     *)
(*   bytes     from the start of the segment to the end of the file        *)
(***************************************************************************)
EXTENDS Integers, Sequences, FiniteSets, SequencesExt, FiniteSetsExt

CONSTANTS Copies,      \* [exe, segment, bin]: what it may be called with
          MaxAttempts  \* bound: how often it is called

VARIABLES
  call,                \* the member of Copies
  dst,                 \* the bytes of the destination
  copying,             \* where copyReloc is, or how it ended
  relocdata, record, x, patchlist,   \* its locals
  writes,              \* the writes that it still has to do
  attempts

copyVars == <<call, dst, copying, relocdata, record, x, patchlist, writes, attempts>>

Byte == 0..255
ASSUME CopiesAssumption ==
  \A c \in Copies : /\ c.exe.size \in Nat /\ c.exe.bytes \in Seq(Byte)
                    /\ c.bin \in Seq(Byte)

exe == call.exe
ChainEnd == 65535
CopyEnded == {"done", "error", "panic", "stopped"}

\* Offsets count from 0.
ReadOK(e, at, n) == at + n <= Len(e.bytes)
Read(e, at, n) == SubSeq(e.bytes, at + 1, at + n)
Word16(b) == b[1] + 256 * b[2]
Bytes16(v) == <<v % 256, v \div 256>>
read16(e, at) == Word16(Read(e, at, 2))

\* The number of relocations is a uint16, and 8 times that number too: it wraps.
Count(e) == read16(e, e.size)
TableLen(e) == (8 * Count(e)) % 65536

CopyInit == /\ call \in Copies /\ dst = call.bin /\ attempts = 1
            /\ copying = "table" /\ relocdata = <<>> /\ record = 0 /\ x = ChainEnd
            /\ patchlist = {} /\ writes = <<>>
-----------------------------------------------------------------------------
Unchanged == UNCHANGED <<call, attempts>>
ReadingOnly == UNCHANGED <<dst, writes>> /\ Unchanged
GiveUpCopy(how) == copying' = how /\ UNCHANGED <<relocdata, record, x, patchlist>>

TableReadable ==
  /\ exe.readable /\ call.segment \in 1..exe.segments /\ exe.reloc
  /\ ReadOK(exe, exe.size, 2) /\ ReadOK(exe, exe.size + 2, TableLen(exe))
ReadTable ==
  /\ copying = "table" /\ TableReadable
  /\ relocdata' = Read(exe, exe.size + 2, TableLen(exe))
  /\ copying' = "records" /\ record' = 1
  /\ UNCHANGED <<x, patchlist>> /\ ReadingOnly
NoTable == copying = "table" /\ ~TableReadable /\ GiveUpCopy("error") /\ ReadingOnly

InTable == 8 * record <= Len(relocdata)
TableRecord == SubSeq(relocdata, 8 * record - 7, 8 * record)
AtRelocation == copying = "records" /\ record <= Count(exe)
StartChain ==
  /\ AtRelocation /\ InTable /\ TableRecord[2] \in 0..3
  /\ copying' = "chain" /\ x' = Word16(SubSeq(TableRecord, 3, 4))
  /\ UNCHANGED <<relocdata, record, patchlist>> /\ ReadingOnly
UnknownType ==
  AtRelocation /\ InTable /\ TableRecord[2] > 3 /\ GiveUpCopy("error") /\ ReadingOnly
\* A slice out of range.
TableTooShort == AtRelocation /\ ~InTable /\ GiveUpCopy("panic") /\ ReadingOnly

\* Fault: the loop ends before the last word of a chain is noted.
NotedUnlessLast(at, v) ==
  IF v = ChainEnd THEN patchlist ELSE patchlist \cup {[addr |-> at, value |-> v]}

\* The patches; what matters of a list that is to be sorted is what is in it.
Noted(at, v) == patchlist \cup {[addr |-> at, value |-> v]}

\* Fault: never moves on.
NextLinkSame(v) == x

NextLink(v) == v
FollowChain ==
  /\ copying = "chain" /\ x # ChainEnd /\ ReadOK(exe, x, 2)
  /\ LET v == read16(exe, x) IN patchlist' = Noted(x, v) /\ x' = NextLink(v)
  /\ UNCHANGED <<copying, relocdata, record>> /\ ReadingOnly
ChainLeavesFile ==
  copying = "chain" /\ x # ChainEnd /\ ~ReadOK(exe, x, 2) /\ GiveUpCopy("error")
  /\ ReadingOnly
ChainDone ==
  /\ copying = "chain" /\ x = ChainEnd
  /\ copying' = "records" /\ record' = record + 1
  /\ UNCHANGED <<relocdata, x, patchlist>> /\ ReadingOnly
-----------------------------------------------------------------------------
AlreadyPatched == Len(dst) = exe.size + 2 + Len(relocdata)
SizeFits == Len(dst) = exe.size \/ AlreadyPatched

\* Fault: the table goes to the end of the file, patched or not.
TableAtEnd == Len(dst)

\* Where the table goes: the end of an unpatched file.
TableAt == exe.size

\* The patches in the order of their addresses, of which no two are the same.
ByAddress(list) ==
  [n \in 1..Cardinality(list) |->
     CHOOSE p \in list : Cardinality({q \in list : q.addr < p.addr}) = n - 1]

CheckSize ==
  /\ copying = "records" /\ record > Count(exe) /\ SizeFits
  /\ LET byAddress == ByAddress(patchlist)
     IN  writes' = <<[at |-> TableAt, bytes |-> Bytes16(Count(exe))],
                     [at |-> TableAt + 2, bytes |-> relocdata]>> \o
                   [i \in DOMAIN byAddress |-> [at |-> byAddress[i].addr,
                                                bytes |-> Bytes16(byAddress[i].value)]]
  /\ copying' = "writing"
  /\ UNCHANGED <<dst, relocdata, record, x, patchlist>> /\ Unchanged
WrongSize ==
  copying = "records" /\ record > Count(exe) /\ ~SizeFits /\ GiveUpCopy("error")
  /\ ReadingOnly

Overwritten(bytes, at, new) ==
  [i \in 1..Max({Len(bytes), at + Len(new)}) |->
     IF i \in (at + 1)..(at + Len(new)) THEN new[i - at] ELSE bytes[i]]
Write ==
  /\ copying = "writing" /\ writes # <<>>
  /\ dst' = Overwritten(dst, writes[1].at, writes[1].bytes) /\ writes' = Tail(writes)
  /\ UNCHANGED <<copying, relocdata, record, x, patchlist>> /\ Unchanged
CopyDone ==
  copying = "writing" /\ writes = <<>> /\ GiveUpCopy("done") /\ ReadingOnly

\* The user, a full disk or a crash ends it, perhaps in the middle of a write.
Stop ==
  /\ copying \notin CopyEnded
  /\ \/ UNCHANGED dst
     \/ /\ writes # <<>>
        /\ \E n \in 1..(Len(writes[1].bytes) - 1) :
             dst' = Overwritten(dst, writes[1].at, SubSeq(writes[1].bytes, 1, n))
  /\ GiveUpCopy("stopped") /\ writes' = <<>> /\ Unchanged

Again ==
  /\ copying \in CopyEnded /\ attempts < MaxAttempts
  /\ attempts' = attempts + 1 /\ UNCHANGED <<call, dst>>
  /\ copying' = "table" /\ relocdata' = <<>> /\ record' = 0 /\ x' = ChainEnd
  /\ patchlist' = {} /\ writes' = <<>>

CopyStep == \/ ReadTable \/ NoTable \/ StartChain \/ UnknownType \/ TableTooShort
            \/ FollowChain \/ ChainLeavesFile \/ ChainDone \/ CheckSize \/ WrongSize
            \/ Write \/ CopyDone
CopyNext == CopyStep \/ Stop \/ Again

\* Only its own steps are sure to be taken.
CopySpec == CopyInit /\ [][CopyNext]_copyVars /\ WF_copyVars(CopyStep)
-----------------------------------------------------------------------------
(***************************************************************************)
(* What the destination should become.                                     *)
(***************************************************************************)
TableOf(e) == Read(e, e.size, 2 + 8 * Count(e))
Heads(e) == {read16(e, e.size + 8 * k - 4) : k \in 1..Count(e)}
After(e, a) == IF a # ChainEnd /\ ReadOK(e, a, 2) THEN read16(e, a) ELSE ChainEnd
Chain(e, head) ==        \* one address more than there can be in a segment
  LET at[n \in 0..e.size] == IF n = 0 THEN head ELSE After(e, at[n - 1])
  IN  [n \in 0..e.size |-> at[n]]
Fixups(e) == (UNION {Range(Chain(e, h)) : h \in Heads(e)}) \ {ChainEnd}
Ends(e) == \A h \in Heads(e) : Chain(e, h)[e.size] = ChainEnd

\* The .bin with the words of the chains as the executable has them, and its
\* relocation table behind.
Relocated ==
  LET fixed == UNION {{a, a + 1} : a \in Fixups(exe)}
  IN  [i \in 1..exe.size |-> IF i - 1 \in fixed THEN exe.bytes[i] ELSE call.bin[i]]
        \o TableOf(exe)

\* A .bin of the segment's size, and an executable that Windows could load: what
\* copyReloc reads is there, and the chains stay in the segment and run in no
\* circle.
Loadable ==
  /\ Len(call.bin) = exe.size /\ TableReadable /\ Count(exe) < 8192
  /\ \A a \in Fixups(exe) : a + 2 <= exe.size
  /\ Ends(exe)

\* A run that says nothing has made the .bin what it should be, whatever became
\* of the runs before it.  (copyReloc, which writes the table first and
\* then takes the size of the file for a sign that it may start over.)
CopiedWhole == Loadable /\ copying = "done" => dst = Relocated

\* What is relocated once stays so, and so at every step of a run that is made
\* again and may be stopped.  (The seek to the end of the segment, and
\* writes that repeat what is there.)
KeptCopied == [][Loadable /\ dst = Relocated => dst' = Relocated]_copyVars

\* Every run ends, if no chain of the executable runs in a circle.
CopyEnds == Loadable => []<>(copying \in CopyEnded)
=============================================================================
