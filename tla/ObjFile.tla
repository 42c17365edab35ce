------------------------------ MODULE ObjFile ------------------------------
(***************************************************************************)
(* Object files as the linker reads them.  A record is kept as the fields  *)
(* that its type has: a name is a tuple of its parts, a FIXUP subrecord    *)
(* the tuple of its four or five bytes.                                    *)
(*   PUBDEF  base (the base segment index), names: <<[name, offset], ...>> *)
(*   EXTDEF  names                                                         *)
(*   LEDATA  index (one or two bytes), start, data (bytes)                 *)
(*   FIXUP   subs                                                          *)
(***************************************************************************)
EXTENDS Integers, Sequences, SequencesExt

Byte == 0..255
SymbolName == ({"FUN"} \X Nat \X Nat) \cup Seq(STRING)

\* FUN_<seg>_<offset>, as a name of three parts, says itself where it is.
IsFun(name) == Len(name) = 3 /\ name[1] = "FUN"
FunOK(name) == IsFun(name) => name[2] \in Nat /\ name[3] \in Nat

\* An index of two bytes makes a FIXUP subrecord longer.
SubOK(sub) == /\ sub \in Seq(Byte) /\ Len(sub) \in 4..5
              /\ Len(sub) = 5 <=> sub[4] >= 128
RecordOK(rec) ==
  CASE rec.type = "PUBDEF" -> rec.names \in Seq([name: SymbolName, offset: Nat])
    [] rec.type = "EXTDEF" -> /\ rec.names \in Seq(SymbolName)
                              /\ \A i \in DOMAIN rec.names : FunOK(rec.names[i])
    [] rec.type = "LEDATA" -> rec.start \in Nat /\ rec.data \in Seq(Byte)
    [] rec.type = "FIXUP" -> /\ rec.subs \in Seq(Seq(Byte))
                             /\ \A i \in DOMAIN rec.subs : SubOK(rec.subs[i])
    [] OTHER -> TRUE

NoOffset == [StartOffset |-> 0, Data |-> <<>>]

\* ReadRecord gives up on a length it cannot believe and where the file ends
\* in the middle of a record.  (Right behind a record's header the end is taken
\* for that of the file.)
ReadRecordOK(rec) == rec.size \in 1..1024 /\ ~rec.cut

\* An index is one byte, or two when the first has its top bit set.
readIndex(b) == IF b[1] >= 128 THEN (b[1] % 128) * 256 + b[2] ELSE b[1]

\* The names of all records of a type, in file order.
NamesIn(obj, type, Parse(_)) ==
  FlattenSeq([i \in DOMAIN obj |->
                IF obj[i].type = type THEN Parse(obj[i]) ELSE <<>>])

\* A public name without a segment is a constant.
parsePubdef(rec) ==
  [i \in DOMAIN rec.names |-> [Name |-> rec.names[i].name,
                               Offset |-> rec.names[i].offset,
                               Const |-> rec.base = 0]]
parseExtdef(rec) == rec.names

ReadObjNames(obj) == NamesIn(obj, "PUBDEF", parsePubdef)
ReadExternalNames(obj) == NamesIn(obj, "EXTDEF", parseExtdef)

ParseLedata(rec) == [StartOffset |-> rec.start, Data |-> rec.data]

\* One FIXUP subrecord: two bits of type and ten of offset, the frame and
\* target methods, and what they refer to.
FixupType(sub) == CASE sub[1] \div 4 = 49 -> "offset"      \* 0xC4
                    [] sub[1] \div 4 = 50 -> "segment"     \* 0xC8
                    [] OTHER -> "unknown"
RefType(sub) == CASE sub[3] = 84 -> "segment"              \* 0x54
                  [] sub[3] = 86 -> "external"             \* 0x56
                  [] OTHER -> "unknown"

ParseFixupOK(rec) ==
  \A i \in DOMAIN rec.subs : /\ FixupType(rec.subs[i]) # "unknown"
                             /\ RefType(rec.subs[i]) # "unknown"

ParseSub(sub) ==
  [FixupType |-> FixupType(sub), RefType |-> RefType(sub),
   DataOffset |-> sub[2] + (sub[1] % 4) * 256,
   RefIndex |-> readIndex(SubSeq(sub, 4, Len(sub)))]

ParseFixup(rec) == [i \in DOMAIN rec.subs |-> ParseSub(rec.subs[i])]
=============================================================================
