----------------------------- MODULE ToolProofs -----------------------------
(***************************************************************************)
(* copyreloc, for every executable and .bin file, and stopped anywhere any *)
(* number of times: a run that ends well leaves the relocated segment, and *)
(* a segment once relocated stays so.  label, for every listing: jumps and *)
(* functions are as they should be, and no byte is lost.  res and dialog,  *)
(* for every executable and every template, cut off anywhere: what comes   *)
(* out is what was there.                                                  *)
(*                                                                         *)
(* Of copyreloc the argument is that every write puts down bytes of        *)
(* Relocated, at their places, so that no write can do harm, and that the  *)
(* writes a run is left with cover all that is not yet as it should be     *)
(* (Pending).                                                              *)
(***************************************************************************)
EXTENDS CopyReloc, Label, Resources, NaturalFacts, SequenceTheorems

Word == {n \in Nat : n < 65536}

LEMMA ReadIs ==
  ASSUME NEW e, e.bytes \in Seq(Byte), NEW at \in Nat, NEW n \in Nat, ReadOK(e, at, n)
  PROVE  /\ Read(e, at, n) \in Seq(Byte) /\ Len(Read(e, at, n)) = n
         /\ \A i \in 1..n : Read(e, at, n)[i] = e.bytes[at + i] /\ e.bytes[at + i] \in Byte
<1>1. Len(e.bytes) \in Nat /\ at + n <= Len(e.bytes)
  BY DEF ReadOK
<1>2. \A i \in (at + 1)..(at + n) : e.bytes[i] \in Byte
  BY <1>1, ElementOfSeq
<1>3. /\ SubSeq(e.bytes, at + 1, at + n) \in Seq(Byte)
      /\ Len(SubSeq(e.bytes, at + 1, at + n)) = IF at + 1 <= at + n THEN at + n - (at + 1) + 1 ELSE 0
      /\ \A i \in 1..((at + n) - (at + 1) + 1) :
           SubSeq(e.bytes, at + 1, at + n)[i] = e.bytes[(at + 1) + i - 1]
  <2> DEFINE f == at + 1
             l == at + n
             s == e.bytes
  <2>1. f \in Int /\ l \in Int /\ \A i \in f..l : s[i] \in Byte
    BY <1>2
  <2> HIDE DEF f, l, s
  <2>2. /\ SubSeq(s, f, l) \in Seq(Byte) /\ Len(SubSeq(s, f, l)) = IF f <= l THEN l - f + 1 ELSE 0
        /\ \A i \in 1..(l - f + 1) : SubSeq(s, f, l)[i] = s[f + i - 1]
    BY <2>1, SubSeqProperties
  <2> QED
    BY <2>2 DEF f, l, s
<1>4. \A i \in 1..n : (at + 1) + i - 1 = at + i /\ at + i \in (at + 1)..(at + n)
  OBVIOUS
<1> QED
  BY <1>2, <1>3, <1>4 DEF Read

\* A word and its two bytes.
LEMMA WordOfBytes ==
  ASSUME NEW a \in Byte, NEW b \in Byte
  PROVE  a + 256 * b \in Word /\ Bytes16(a + 256 * b) = <<a, b>>
<1>1. (a + 256 * b) % 256 = a /\ (a + 256 * b) \div 256 = b
  BY DEF Byte
<1>2. a + 256 * b \in Word
  BY DEF Byte, Word
<1> QED
  BY <1>1, <1>2 DEF Bytes16

LEMMA ReadWordIs ==
  ASSUME NEW e, e.bytes \in Seq(Byte), NEW at \in Nat, ReadOK(e, at, 2)
  PROVE  /\ read16(e, at) \in Word
         /\ e.bytes[at + 1] \in Byte /\ e.bytes[at + 2] \in Byte
         /\ read16(e, at) = e.bytes[at + 1] + 256 * e.bytes[at + 2]
         /\ Bytes16(read16(e, at)) = <<e.bytes[at + 1], e.bytes[at + 2]>>
<1>1. read16(e, at) = e.bytes[at + 1] + 256 * e.bytes[at + 2]
  BY ReadIs DEF read16, Word16
<1>2. e.bytes[at + 1] \in Byte /\ e.bytes[at + 2] \in Byte
  BY ReadIs
<1> QED
  BY <1>1, <1>2, WordOfBytes
-----------------------------------------------------------------------------
(***************************************************************************)
(* Chains.                                                                 *)
(***************************************************************************)
LEMMA AfterType ==
  ASSUME NEW e, e.bytes \in Seq(Byte), NEW a \in Word
  PROVE  After(e, a) \in Word
<1>1. ChainEnd \in Word /\ a \in Nat
  BY DEF ChainEnd, Word
<1>2. ReadOK(e, a, 2) => read16(e, a) \in Word
  BY <1>1, ReadWordIs
<1> QED
  BY <1>1, <1>2 DEF After

LEMMA ChainRuns ==
  ASSUME NEW e, e.size \in Nat, e.bytes \in Seq(Byte), NEW head \in Word
  PROVE  /\ Chain(e, head) \in [0..e.size -> Word]
         /\ Chain(e, head)[0] = head
         /\ \A n \in 1..e.size : Chain(e, head)[n] = After(e, Chain(e, head)[n - 1])
<1> DEFINE step == [k \in 1..e.size |-> [v \in Word |-> After(e, v)]]
           at == CHOOSE f : f = [n \in 0..e.size |-> IF n = 0 THEN head ELSE After(e, f[n - 1])]
<1>1. step \in Steps(Word, e.size)
  BY AfterType DEF Steps
<1>2. PICK s : IsRun(s, Word, e.size, head, step)
  BY <1>1, RunExists
<1>3. /\ s \in [0..e.size -> Word] /\ s[0] = head
      /\ \A n \in 1..e.size : s[n - 1] \in Word /\ s[n] = After(e, s[n - 1])
  <2>1. /\ s \in [0..e.size -> Word] /\ s[0] = head
        /\ \A n \in 1..e.size : s[n] = step[n][s[n - 1]]
    BY <1>2 DEF IsRun
  <2>2. ASSUME NEW n \in 1..e.size PROVE s[n - 1] \in Word
    <3>1. n - 1 \in 0..e.size
      OBVIOUS
    <3> QED
      BY <2>1, <3>1
  <2> QED
    BY <2>1, <2>2
<1>4. s = [n \in 0..e.size |-> IF n = 0 THEN head ELSE After(e, s[n - 1])]
  BY <1>3
<1>5. at = [n \in 0..e.size |-> IF n = 0 THEN head ELSE After(e, at[n - 1])]
  BY <1>4
<1>6. Chain(e, head) = [n \in 0..e.size |-> at[n]]
  BY DEF Chain
<1> HIDE DEF at
<1>7. at[0] = head /\ \A n \in 1..e.size : at[n] = After(e, at[n - 1])
  BY <1>5
<1> DEFINE S == {n \in Nat : n <= e.size => at[n] \in Word}
<1>8. 0 \in S
  BY <1>7
<1>9. ASSUME NEW n \in Nat, n \in S PROVE n + 1 \in S
  BY <1>7, <1>9, AfterType
<1> HIDE DEF S
<1>10. Nat \subseteq S
  BY <1>8, <1>9, NatInd
<1>11. \A n \in 0..e.size : at[n] \in Word
  BY <1>10 DEF S
<1> QED
  BY <1>6, <1>7, <1>11

\* Nothing follows the end of a chain.
LEMMA ChainStops ==
  ASSUME NEW e, e.size \in Nat, e.bytes \in Seq(Byte), NEW head \in Word,
         NEW n \in 0..e.size, Chain(e, head)[n] = ChainEnd, NEW m \in n..e.size
  PROVE  Chain(e, head)[m] = ChainEnd
<1> DEFINE c == Chain(e, head)
           S == {k \in Nat : n + k <= e.size => c[n + k] = ChainEnd}
<1>1. \A k \in 1..e.size : c[k] = After(e, c[k - 1])
  BY ChainRuns
<1>2. 0 \in S
  OBVIOUS
<1>3. ASSUME NEW k \in Nat, k \in S PROVE k + 1 \in S
  <2> SUFFICES ASSUME n + (k + 1) <= e.size PROVE c[n + (k + 1)] = ChainEnd
    OBVIOUS
  <2>1. n + (k + 1) \in 1..e.size /\ (n + (k + 1)) - 1 = n + k /\ c[n + k] = ChainEnd
    BY <1>3
  <2>2. c[n + (k + 1)] = After(e, c[n + k])
    BY <1>1, <2>1
  <2> QED
    BY <2>1, <2>2 DEF After
<1> HIDE DEF S, c
<1>4. Nat \subseteq S
  BY <1>2, <1>3, NatInd
<1>5. m - n \in Nat /\ n + (m - n) = m
  OBVIOUS
<1> QED
  BY <1>4, <1>5 DEF S, c
-----------------------------------------------------------------------------
(***************************************************************************)
(* What a loadable executable has, and what its segment should become.     *)
(***************************************************************************)
FixedBytes == UNION {{a, a + 1} : a \in Fixups(exe)}
HeadAt(k) == read16(exe, exe.size + 8 * k - 4)
TheTable == Read(exe, exe.size + 2, 8 * Count(exe))

LEMMA CallParts ==
  ASSUME call \in Copies
  PROVE  exe.size \in Nat /\ exe.bytes \in Seq(Byte) /\ call.bin \in Seq(Byte)
         /\ Len(exe.bytes) \in Nat
BY CopiesAssumption DEF exe

\* The k-th record of a table of c lies within it.
LEMMA RecordFits ==
  ASSUME NEW s \in Nat, NEW c \in Nat, NEW l \in Nat, NEW k \in 1..c, s + 2 + 8 * c <= l
  PROVE  s + 8 * k - 4 \in Nat /\ s + 8 * k - 4 + 2 <= l
OBVIOUS

LEMMA LoadableParts ==
  ASSUME call \in Copies, Loadable
  PROVE  /\ Count(exe) \in Nat /\ TableLen(exe) = 8 * Count(exe)
         /\ exe.size + 2 + 8 * Count(exe) <= Len(exe.bytes)
         /\ \A k \in 1..Count(exe) : HeadAt(k) \in Word
         /\ Len(call.bin) = exe.size
<1>1. /\ exe.size \in Nat /\ exe.bytes \in Seq(Byte) /\ Len(exe.bytes) \in Nat
      /\ ReadOK(exe, exe.size, 2) /\ ReadOK(exe, exe.size + 2, TableLen(exe))
      /\ Count(exe) < 8192
  BY CallParts DEF Loadable, TableReadable
<1>2. Count(exe) \in Nat
  BY <1>1, ReadWordIs DEF Count, Word
<1>3. TableLen(exe) = 8 * Count(exe)
  <2>1. PICK n \in Nat : n = Count(exe) /\ n < 8192
    BY <1>1, <1>2
  <2>2. (8 * n) % 65536 = 8 * n
    BY <2>1
  <2> QED
    BY <2>1, <2>2 DEF TableLen
<1>4. exe.size + 2 + 8 * Count(exe) <= Len(exe.bytes)
  BY <1>1, <1>2, <1>3 DEF ReadOK
<1>5. ASSUME NEW k \in 1..Count(exe) PROVE HeadAt(k) \in Word
  <2>1. /\ exe.size + 8 * k - 4 \in Nat
        /\ exe.size + 8 * k - 4 + 2 <= Len(exe.bytes)
    <3> DEFINE s == exe.size
               c == Count(exe)
               l == Len(exe.bytes)
    <3>1. s \in Nat /\ c \in Nat /\ l \in Nat /\ k \in 1..c /\ s + 2 + 8 * c <= l
      BY <1>1, <1>2, <1>4
    <3> HIDE DEF s, c, l
    <3>2. s + 8 * k - 4 \in Nat /\ s + 8 * k - 4 + 2 <= l
      BY <3>1, RecordFits
    <3> QED
      BY <3>2 DEF s, l
  <2> DEFINE at == exe.size + 8 * k - 4
  <2>2. at \in Nat /\ ReadOK(exe, at, 2) /\ HeadAt(k) = read16(exe, at)
    BY <2>1 DEF HeadAt, ReadOK
  <2> HIDE DEF at
  <2> QED
    BY <1>1, <2>2, ReadWordIs
<1> QED
  BY <1>2, <1>3, <1>4, <1>5 DEF Loadable

LEMMA FixupsIn ==
  ASSUME call \in Copies, Loadable, NEW a \in Fixups(exe)
  PROVE  a \in Word /\ a # ChainEnd /\ a + 2 <= exe.size /\ ReadOK(exe, a, 2)
<1>1. PICK k \in 1..Count(exe) : a \in Range(Chain(exe, HeadAt(k))) /\ a # ChainEnd
  <2>1. PICK h \in Heads(exe) : a \in Range(Chain(exe, h)) /\ a # ChainEnd
    <3> DEFINE links == {Range(Chain(exe, h)) : h \in Heads(exe)}
    <3>1. a \in (UNION links) \ {ChainEnd}
      BY DEF Fixups
    <3> HIDE DEF links
    <3>2. PICK c \in links : a \in c /\ a # ChainEnd
      BY <3>1
    <3> QED
      BY <3>2 DEF links
  <2>2. PICK k \in 1..Count(exe) : h = HeadAt(k)
    BY DEF Heads, HeadAt
  <2> QED
    BY <2>1, <2>2
<1>2. a \in Word
  <2>1. HeadAt(k) \in Word
    BY LoadableParts
  <2>2. Chain(exe, HeadAt(k)) \in [0..exe.size -> Word]
    BY <2>1, CallParts, ChainRuns
  <2> QED
    BY <1>1, <2>2 DEF Range
<1>3. a + 2 <= exe.size /\ exe.size <= Len(exe.bytes) /\ exe.size \in Nat /\ Len(exe.bytes) \in Nat
  BY CallParts, LoadableParts DEF Loadable
<1>4. ReadOK(exe, a, 2)
  BY <1>2, <1>3 DEF ReadOK, Word
<1> QED
  BY <1>1, <1>2, <1>3, <1>4

LEMMA TheTableIs ==
  ASSUME call \in Copies, Loadable
  PROVE  /\ TheTable \in Seq(Byte) /\ Len(TheTable) = 8 * Count(exe)
         /\ \A i \in 1..(8 * Count(exe)) : TheTable[i] = exe.bytes[exe.size + 2 + i]
<1>1. ReadOK(exe, exe.size + 2, 8 * Count(exe)) /\ exe.size + 2 \in Nat /\ 8 * Count(exe) \in Nat
  BY CallParts, LoadableParts DEF ReadOK
<1> QED
  BY <1>1, CallParts, ReadIs DEF TheTable

LEMMA RelocatedIs ==
  ASSUME call \in Copies, Loadable
  PROVE  /\ Relocated \in Seq(Byte) /\ Len(Relocated) = exe.size + 2 + 8 * Count(exe)
         /\ \A i \in 1..exe.size :
              Relocated[i] = IF i - 1 \in FixedBytes THEN exe.bytes[i] ELSE call.bin[i]
         /\ \A i \in 1..(2 + 8 * Count(exe)) : Relocated[exe.size + i] = exe.bytes[exe.size + i]
<1> DEFINE n == exe.size
           t == 2 + 8 * Count(exe)
           patched == [i \in 1..n |-> IF i - 1 \in FixedBytes THEN exe.bytes[i] ELSE call.bin[i]]
<1>1. /\ n \in Nat /\ t \in Nat /\ exe.bytes \in Seq(Byte) /\ call.bin \in Seq(Byte)
      /\ Len(exe.bytes) \in Nat /\ n + t <= Len(exe.bytes) /\ Len(call.bin) = n
  <2>1. /\ n \in Nat /\ exe.bytes \in Seq(Byte) /\ call.bin \in Seq(Byte) /\ Len(call.bin) = n
        /\ Len(exe.bytes) \in Nat /\ Count(exe) \in Nat /\ n + 2 + 8 * Count(exe) <= Len(exe.bytes)
    BY CallParts, LoadableParts
  <2> HIDE DEF n
  <2> QED
    BY <2>1
<1>2. \A i \in 1..n : exe.bytes[i] \in Byte /\ call.bin[i] \in Byte
  BY <1>1, ElementOfSeq
<1>3. patched \in Seq(Byte) /\ Len(patched) = n
  <2>1. \A i \in 1..n : (IF i - 1 \in FixedBytes THEN exe.bytes[i] ELSE call.bin[i]) \in Byte
    BY <1>2
  <2>2. patched \in [1..n -> Byte]
    BY <2>1
  <2> HIDE DEF patched
  <2> QED
    BY <1>1, <2>2, ListOf
<1>4. ReadOK(exe, n, t)
  BY <1>1 DEF ReadOK
<1>5. /\ TableOf(exe) \in Seq(Byte) /\ Len(TableOf(exe)) = t
      /\ \A i \in 1..t : TableOf(exe)[i] = exe.bytes[n + i]
  <2>1. /\ Read(exe, n, t) \in Seq(Byte) /\ Len(Read(exe, n, t)) = t
        /\ \A i \in 1..t : Read(exe, n, t)[i] = exe.bytes[n + i]
    <3> HIDE DEF n, t
    <3> QED
      <4>1. exe.bytes \in Seq(Byte) /\ n \in Nat /\ t \in Nat
        BY <1>1
      <4> QED
        BY <1>4, <4>1, ReadIs
  <2>2. TableOf(exe) = Read(exe, n, t)
    BY DEF TableOf
  <2> QED
    BY <2>1, <2>2
<1>6. Relocated = patched \o TableOf(exe)
  BY DEF Relocated, FixedBytes
<1> HIDE DEF patched
<1>7. /\ patched \o TableOf(exe) \in Seq(Byte) /\ Len(patched \o TableOf(exe)) = n + t
      /\ \A i \in 1..(n + t) : (patched \o TableOf(exe))[i] =
           IF i <= n THEN patched[i] ELSE TableOf(exe)[i - n]
  <2> DEFINE table == TableOf(exe)
  <2>1. table \in Seq(Byte) /\ Len(table) = t
    BY <1>5
  <2> HIDE DEF table
  <2>2. /\ patched \o table \in Seq(Byte) /\ Len(patched \o table) = Len(patched) + Len(table)
        /\ \A i \in 1..(Len(patched) + Len(table)) : (patched \o table)[i] =
             IF i <= Len(patched) THEN patched[i] ELSE table[i - Len(patched)]
    BY <1>3, <2>1, ConcatProperties
  <2> QED
    BY <1>3, <2>1, <2>2 DEF table
<1>8. \A i \in 1..n : Relocated[i] = patched[i]
  BY <1>1, <1>6, <1>7
<1>9. ASSUME NEW i \in 1..t PROVE Relocated[n + i] = exe.bytes[n + i]
  <2>1. n + i \in 1..(n + t) /\ ~(n + i <= n) /\ (n + i) - n = i
    BY <1>1
  <2> QED
    BY <1>5, <1>6, <1>7, <2>1
<1> QED
  <2>1. Relocated \in Seq(Byte) /\ Len(Relocated) = n + t
    BY <1>6, <1>7
  <2>2. ASSUME NEW i \in 1..n
        PROVE  Relocated[i] = IF i - 1 \in FixedBytes THEN exe.bytes[i] ELSE call.bin[i]
    BY <1>8 DEF patched
  <2>3. n + t = n + 2 + 8 * Count(exe)
    BY <1>1, LoadableParts
  <2> QED
    BY <1>9, <2>1, <2>2, <2>3

\* The bytes of a word that is fixed up are the executable's.
LEMMA WordsRelocated ==
  ASSUME call \in Copies, Loadable, NEW a \in Fixups(exe)
  PROVE  /\ a \in Nat /\ a + 2 <= exe.size
         /\ Bytes16(read16(exe, a)) = <<Relocated[a + 1], Relocated[a + 2]>>
<1>1. /\ a \in Nat /\ a + 2 <= exe.size /\ exe.size \in Nat
      /\ Bytes16(read16(exe, a)) = <<exe.bytes[a + 1], exe.bytes[a + 2]>>
  BY FixupsIn, CallParts, ReadWordIs DEF Word
<1>2. /\ a + 1 \in 1..exe.size /\ a + 2 \in 1..exe.size
      /\ (a + 1) - 1 \in FixedBytes /\ (a + 2) - 1 \in FixedBytes
  BY <1>1 DEF FixedBytes
<1>3. Relocated[a + 1] = exe.bytes[a + 1] /\ Relocated[a + 2] = exe.bytes[a + 2]
  BY <1>2, RelocatedIs
<1> QED
  BY <1>1, <1>3
-----------------------------------------------------------------------------
(***************************************************************************)
(* Writing.                                                                *)
(***************************************************************************)
LEMMA OverwrittenIs ==
  ASSUME NEW d \in Seq(Byte), NEW at \in Nat, at <= Len(d), NEW b \in Seq(Byte)
  PROVE  LET o == Overwritten(d, at, b)
         IN  /\ o \in Seq(Byte)
             /\ Len(o) = IF Len(d) <= at + Len(b) THEN at + Len(b) ELSE Len(d)
             /\ \A i \in 1..Len(o) : o[i] = IF i \in (at + 1)..(at + Len(b)) THEN b[i - at]
                                            ELSE d[i]
<1> DEFINE o == Overwritten(d, at, b)
           n == IF Len(d) <= at + Len(b) THEN at + Len(b) ELSE Len(d)
           byte(i) == IF i \in (at + 1)..(at + Len(b)) THEN b[i - at] ELSE d[i]
<1>1. Len(d) \in Nat /\ Len(b) \in Nat /\ n \in Nat
  OBVIOUS
<1>2. Max({Len(d), at + Len(b)}) = n
  BY <1>1 DEF Max
<1>3. o = [i \in 1..n |-> byte(i)]
  BY <1>2 DEF Overwritten
<1>4. ASSUME NEW i \in 1..n PROVE byte(i) \in Byte
  <2>1. CASE i \in (at + 1)..(at + Len(b))
    <3>1. i - at \in 1..Len(b)
      BY <1>1, <2>1
    <3> QED
      BY <2>1, <3>1, ElementOfSeq
  <2>2. CASE i \notin (at + 1)..(at + Len(b))
    <3>1. i \in 1..Len(d)
      BY <1>1, <2>2
    <3> QED
      BY <2>2, <3>1, ElementOfSeq
  <2> QED
    BY <2>1, <2>2
<1> HIDE DEF byte, n
<1>5. o \in [1..n -> Byte]
  BY <1>3, <1>4
<1>6. o \in Seq(Byte) /\ Len(o) = n
  BY <1>1, <1>5
<1>7. \A i \in 1..n : o[i] = byte(i)
  BY <1>3
<1> HIDE DEF o
<1> QED
  BY <1>6, <1>7 DEF o, n, byte

WriteType == [at: Nat, bytes: Seq(Byte)]

\* A write that can do no harm.
Right(at, b) ==
  /\ at + Len(b) <= Len(Relocated)
  /\ \A i \in 1..Len(b) : b[i] = Relocated[at + i]

\* A .bin on its way to Relocated.
OnTheWay(d) ==
  /\ d \in Seq(Byte) /\ exe.size <= Len(d) /\ Len(d) <= Len(Relocated)
  /\ \A i \in 1..Len(d) : \/ d[i] = Relocated[i]
                          \/ i <= exe.size /\ d[i] = call.bin[i]

LEMMA WriteRight ==
  ASSUME call \in Copies, Loadable, NEW d, OnTheWay(d),
         NEW at \in Nat, at <= Len(d), NEW b \in Seq(Byte), Right(at, b)
  PROVE  LET o == Overwritten(d, at, b)
         IN  /\ OnTheWay(o)
             /\ Len(d) <= Len(o) /\ at + Len(b) <= Len(o)
             /\ \A i \in 1..Len(d) : d[i] = Relocated[i] => o[i] = Relocated[i]
             /\ \A i \in (at + 1)..(at + Len(b)) : o[i] = Relocated[i]
<1> DEFINE o == Overwritten(d, at, b)
<1>1. /\ d \in Seq(Byte) /\ Len(d) \in Nat /\ Len(b) \in Nat /\ exe.size \in Nat
      /\ exe.size <= Len(d) /\ Len(d) <= Len(Relocated)
      /\ Len(Relocated) \in Nat /\ at + Len(b) <= Len(Relocated)
  BY CallParts, RelocatedIs DEF OnTheWay, Right
<1>2. /\ o \in Seq(Byte)
      /\ Len(o) = IF Len(d) <= at + Len(b) THEN at + Len(b) ELSE Len(d)
      /\ \A i \in 1..Len(o) : o[i] = IF i \in (at + 1)..(at + Len(b)) THEN b[i - at]
                                     ELSE d[i]
  BY <1>1, OverwrittenIs
<1> HIDE DEF o
<1>3. /\ Len(d) <= Len(o) /\ at + Len(b) <= Len(o) /\ Len(o) <= Len(Relocated)
      /\ Len(o) \in Nat
  BY <1>1, <1>2
<1>4. ASSUME NEW i \in (at + 1)..(at + Len(b)) PROVE o[i] = Relocated[i]
  <2>1. i \in 1..Len(o) /\ i - at \in 1..Len(b) /\ at + (i - at) = i
    BY <1>1, <1>3
  <2>2. b[i - at] = Relocated[at + (i - at)]
    BY <2>1 DEF Right
  <2> QED
    BY <1>2, <2>1, <2>2
<1>5. ASSUME NEW i \in 1..Len(o), i \notin (at + 1)..(at + Len(b))
      PROVE  o[i] = d[i] /\ i \in 1..Len(d)
  BY <1>1, <1>2, <1>5
<1>6. \A i \in 1..Len(d) : d[i] = Relocated[i] => o[i] = Relocated[i]
  <2> SUFFICES ASSUME NEW i \in 1..Len(d), d[i] = Relocated[i] PROVE o[i] = Relocated[i]
    OBVIOUS
  <2>1. i \in 1..Len(o)
    BY <1>1, <1>3
  <2> QED
    BY <1>4, <1>5, <2>1
<1>7. \A i \in 1..Len(o) : \/ o[i] = Relocated[i]
                           \/ i <= exe.size /\ o[i] = call.bin[i]
  BY <1>4, <1>5 DEF OnTheWay
<1>8. OnTheWay(o)
  BY <1>1, <1>2, <1>3, <1>7 DEF OnTheWay
<1> QED
  BY <1>3, <1>4, <1>6, <1>8 DEF o

\* What is relocated is not changed by such a write.
LEMMA WriteKeeps ==
  ASSUME call \in Copies, Loadable, NEW at \in Nat, at <= Len(Relocated),
         NEW b \in Seq(Byte), Right(at, b)
  PROVE  Overwritten(Relocated, at, b) = Relocated
<1> DEFINE o == Overwritten(Relocated, at, b)
<1>1. Relocated \in Seq(Byte) /\ Len(Relocated) \in Nat
  BY RelocatedIs
<1>2. /\ Len(b) \in Nat /\ at + Len(b) <= Len(Relocated)
      /\ \A i \in 1..Len(b) : b[i] = Relocated[at + i]
  BY DEF Right
<1>3. /\ o \in Seq(Byte)
      /\ Len(o) = IF Len(Relocated) <= at + Len(b) THEN at + Len(b) ELSE Len(Relocated)
      /\ \A i \in 1..Len(o) : o[i] = IF i \in (at + 1)..(at + Len(b)) THEN b[i - at]
                                     ELSE Relocated[i]
  BY <1>1, OverwrittenIs
<1> HIDE DEF o
<1>4. Len(o) = Len(Relocated)
  BY <1>1, <1>2, <1>3
<1>5. ASSUME NEW i \in 1..Len(o) PROVE o[i] = Relocated[i]
  <2>1. CASE i \in (at + 1)..(at + Len(b))
    <3>1. i - at \in 1..Len(b) /\ at + (i - at) = i
      BY <1>1, <1>2, <2>1
    <3> QED
      BY <1>2, <1>3, <2>1, <3>1
  <2> QED
    BY <1>3, <2>1
<1>6. o = Relocated
  BY <1>1, <1>3, <1>4, <1>5, SeqEqual
<1> QED
  BY <1>6 DEF o

\* The first n bytes of a write, if the rest is lost.
LEMMA PartRight ==
  ASSUME NEW at \in Nat, NEW b \in Seq(Byte), Right(at, b), NEW n \in 1..(Len(b) - 1),
         Len(Relocated) \in Nat
  PROVE  SubSeq(b, 1, n) \in Seq(Byte) /\ Right(at, SubSeq(b, 1, n))
<1>1. \A i \in 1..n : b[i] \in Byte
  BY ElementOfSeq
<1>2. /\ SubSeq(b, 1, n) \in Seq(Byte) /\ Len(SubSeq(b, 1, n)) = n
      /\ \A i \in 1..n : SubSeq(b, 1, n)[i] = b[i]
  BY <1>1, SubSeqProperties
<1>3. /\ at + Len(b) <= Len(Relocated) /\ Len(b) \in Nat
      /\ \A i \in 1..Len(b) : b[i] = Relocated[at + i]
  BY LenProperties DEF Right
<1> DEFINE c == SubSeq(b, 1, n)
<1>4. c \in Seq(Byte) /\ Len(c) = n /\ \A i \in 1..n : c[i] = b[i]
  BY <1>2
<1> HIDE DEF c
<1>5. at + n <= Len(Relocated)
  BY <1>3
<1>6. \A i \in 1..n : i \in 1..Len(b)
  BY <1>3
<1>7. \A i \in 1..n : c[i] = Relocated[at + i]
  BY <1>3, <1>4, <1>6
<1>8. Right(at, c)
  BY <1>4, <1>5, <1>7 DEF Right
<1> QED
  BY <1>4, <1>8 DEF c
-----------------------------------------------------------------------------
(***************************************************************************)
(* The invariant: what has been noted while the executable is read, and    *)
(* what is still to be written after that.                                 *)
(***************************************************************************)
WordPatch(a) == [addr |-> a, value |-> read16(exe, a)]

PatchesOK(list) ==
  IsFiniteSet(list) /\ list \subseteq {WordPatch(a) : a \in Fixups(exe)}

\* The first links of a chain, from 0 to n, are in the list.
Notes(list, head, n) ==
  \A m \in 0..n : Chain(exe, head)[m] # ChainEnd => WordPatch(Chain(exe, head)[m]) \in list
HeadsNoted(list, n) == \A k \in 1..n : Notes(list, HeadAt(k), exe.size)

Reading(where, table, k, at, list) ==
  /\ where \in {"records", "chain", "writing"} => table = TheTable
  /\ where = "table" => list = {}
  /\ where \in {"records", "chain"} => PatchesOK(list)
  /\ where = "records" => k \in 1..(Count(exe) + 1) /\ HeadsNoted(list, k - 1)
  /\ where = "chain" =>
       /\ k \in 1..Count(exe) /\ HeadsNoted(list, k - 1)
       /\ \E n \in 0..exe.size : /\ at = Chain(exe, HeadAt(k))[n]
                                 /\ Notes(list, HeadAt(k), n - 1)

\* The writes ws are right, leave no gap, and will put right all of d that is
\* not so.
Pending(d, ws) ==
  /\ ws \in Seq(WriteType)
  /\ \A k \in 1..Len(ws) :
       /\ Right(ws[k].at, ws[k].bytes)
       /\ \/ ws[k].at <= Len(d)
          \/ k = 2 /\ ws[2].at <= ws[1].at + Len(ws[1].bytes)
  /\ \A i \in 1..Len(Relocated) :
       \/ i <= Len(d) /\ d[i] = Relocated[i]
       \/ \E k \in 1..Len(ws) : i \in (ws[k].at + 1)..(ws[k].at + Len(ws[k].bytes))

Steady(d, where, ws) ==
  /\ OnTheWay(d)
  /\ where = "writing" => Pending(d, ws)
  /\ where = "done" => d = Relocated

Places == {"table", "records", "chain", "writing"} \cup CopyEnded

CopyInv ==
  /\ call \in Copies /\ copying \in Places
  /\ copying # "writing" => writes = <<>>
  /\ Loadable => /\ Reading(copying, relocdata, record, x, patchlist)
                 /\ Steady(dst, copying, writes)

LEMMA CallKept ==
  ASSUME call' = call
  PROVE  /\ exe' = exe /\ Loadable' = Loadable /\ Relocated' = Relocated
         /\ TheTable' = TheTable
<1>1. exe' = exe
  BY DEF exe
<1>2. Loadable' = Loadable
  BY <1>1 DEF Loadable, TableReadable
<1>3. Relocated' = Relocated
  BY <1>1 DEF Relocated
<1>4. TheTable' = TheTable
  BY <1>1 DEF TheTable
<1> QED
  BY <1>1, <1>2, <1>3, <1>4

LEMMA CopyInvNext ==
  ASSUME call' = call, call \in Copies, copying' \in Places,
         copying' # "writing" => writes' = <<>>,
         Loadable => /\ Reading(copying', relocdata', record', x', patchlist')
                     /\ Steady(dst', copying', writes')
  PROVE  CopyInv'
<1>1. exe' = exe /\ Loadable' = Loadable /\ Relocated' = Relocated /\ TheTable' = TheTable
  BY CallKept
<1>2. Reading(copying', relocdata', record', x', patchlist')
        => Reading(copying, relocdata, record, x, patchlist)'
  BY <1>1 DEF Reading, PatchesOK, HeadsNoted, Notes, WordPatch, HeadAt
<1>3. Steady(dst', copying', writes') => Steady(dst, copying, writes)'
  BY <1>1 DEF Steady, OnTheWay, Pending, Right
<1> QED
  BY <1>1, <1>2, <1>3 DEF CopyInv, Places

LEMMA AllNoted ==
  ASSUME call \in Copies, Loadable, NEW list, HeadsNoted(list, Count(exe)),
         NEW a \in Fixups(exe)
  PROVE  WordPatch(a) \in list
<1> DEFINE links == {Range(Chain(exe, h)) : h \in Heads(exe)}
<1>1. a \in (UNION links) \ {ChainEnd}
  BY DEF Fixups
<1> HIDE DEF links
<1>2. PICK c \in links : a \in c /\ a # ChainEnd
  BY <1>1
<1>3. PICK h \in Heads(exe) : c = Range(Chain(exe, h))
  BY <1>2 DEF links
<1>4. PICK k \in 1..Count(exe) : h = HeadAt(k)
  BY <1>3 DEF Heads, HeadAt
<1>5. Chain(exe, HeadAt(k)) \in [0..exe.size -> Word]
  BY CallParts, LoadableParts, ChainRuns
<1>6. PICK m \in 0..exe.size : a = Chain(exe, HeadAt(k))[m]
  BY <1>2, <1>3, <1>4, <1>5 DEF Range
<1> QED
  BY <1>2, <1>6 DEF HeadsNoted, Notes

LEMMA ByAddressIs ==
  ASSUME call \in Copies, Loadable, NEW list, PatchesOK(list)
  PROVE  /\ Cardinality(list) \in Nat
         /\ \A n \in 1..Cardinality(list) : ByAddress(list)[n] \in list
         /\ \A p \in list : \E n \in 1..Cardinality(list) : ByAddress(list)[n] = p
<1> DEFINE R == {pq \in list \X list : pq[1].addr < pq[2].addr}
           c == Cardinality(list)
           lower(p) == {q \in list : q.addr < p.addr}
<1>1. \A p \in list : p.addr \in Fixups(exe) /\ p = WordPatch(p.addr) /\ p.addr \in Nat
  BY FixupsIn DEF PatchesOK, WordPatch, Word
<1>2. \A p, q \in list : <<p, q>> \in R <=> p.addr < q.addr
  OBVIOUS
<1>3. \A p \in list : BelowIn(list, R, p) = lower(p)
  BY <1>2 DEF BelowIn
<1> HIDE DEF R
<1>4. StrictOrder(list, R)
  BY <1>1, <1>2 DEF StrictOrder
<1>5. /\ c \in Nat
      /\ \A p \in list : RankIn(list, R, p) \in 0..(c - 1)
      /\ \A p, q \in list : RankIn(list, R, p) = RankIn(list, R, q) => p = q
      /\ \A n \in 0..(c - 1) : \E p \in list : RankIn(list, R, p) = n
  BY <1>4, RanksFill DEF PatchesOK
<1>6. \A p \in list : RankIn(list, R, p) = Cardinality(lower(p))
  BY <1>3 DEF RankIn
<1>7. ASSUME NEW n \in 1..c
      PROVE  ByAddress(list)[n] \in list /\ Cardinality(lower(ByAddress(list)[n])) = n - 1
  <2>1. ByAddress(list)[n] = CHOOSE p \in list : Cardinality(lower(p)) = n - 1
    BY DEF ByAddress
  <2>2. n - 1 \in 0..(c - 1)
    BY <1>5
  <2>3. \E p \in list : Cardinality(lower(p)) = n - 1
    BY <1>5, <1>6, <2>2
  <2> QED
    BY <2>1, <2>3
<1>8. ASSUME NEW p \in list PROVE \E n \in 1..c : ByAddress(list)[n] = p
  <2>1. /\ RankIn(list, R, p) \in 0..(c - 1)
        /\ RankIn(list, R, p) + 1 \in 1..c /\ (RankIn(list, R, p) + 1) - 1 = RankIn(list, R, p)
    BY <1>5
  <2> DEFINE q == ByAddress(list)[RankIn(list, R, p) + 1]
  <2>2. q \in list /\ RankIn(list, R, q) = RankIn(list, R, p)
    BY <1>6, <1>7, <2>1
  <2>3. q = p
    BY <1>5, <2>2
  <2> QED
    BY <2>1, <2>3
<1> QED
  BY <1>5, <1>7, <1>8

\* The writes with which a run begins.
LEMMA WritesCover ==
  ASSUME call \in Copies, Loadable, NEW d, OnTheWay(d), NEW list, PatchesOK(list),
         HeadsNoted(list, Count(exe))
  PROVE  LET byAddress == ByAddress(list)
         IN  Pending(d, <<[at |-> TableAt, bytes |-> Bytes16(Count(exe))],
                          [at |-> TableAt + 2, bytes |-> TheTable]>> \o
                        [i \in DOMAIN byAddress |-> [at |-> byAddress[i].addr,
                                                     bytes |-> Bytes16(byAddress[i].value)]])
<1> DEFINE c == Cardinality(list)
           p(n) == ByAddress(list)[n]
           first == [at |-> TableAt, bytes |-> Bytes16(Count(exe))]
           second == [at |-> TableAt + 2, bytes |-> TheTable]
           head == <<first, second>>
           rest == [i \in DOMAIN ByAddress(list) |-> [at |-> p(i).addr,
                                                      bytes |-> Bytes16(p(i).value)]]
           ws == head \o rest
           t == 8 * Count(exe)
<1>1. /\ exe.size \in Nat /\ Count(exe) \in Nat /\ t \in Nat
      /\ exe.size <= Len(d) /\ Len(d) \in Nat
  BY CallParts, LoadableParts DEF OnTheWay
<1>2. /\ Relocated \in Seq(Byte) /\ Len(Relocated) = exe.size + 2 + t
      /\ \A i \in 1..(2 + t) : Relocated[exe.size + i] = exe.bytes[exe.size + i]
  BY RelocatedIs
<1>3. /\ first \in WriteType /\ Right(first.at, first.bytes)
      /\ first.at = exe.size /\ Len(first.bytes) = 2
  <2>1. ReadOK(exe, exe.size, 2)
    BY CallParts, LoadableParts DEF ReadOK
  <2>2. /\ Bytes16(Count(exe)) = <<exe.bytes[exe.size + 1], exe.bytes[exe.size + 2]>>
        /\ exe.bytes[exe.size + 1] \in Byte /\ exe.bytes[exe.size + 2] \in Byte
    BY <1>1, <2>1, CallParts, ReadWordIs DEF Count
  <2>3. Bytes16(Count(exe)) = <<Relocated[exe.size + 1], Relocated[exe.size + 2]>>
    BY <1>1, <1>2, <2>2
  <2>4. Bytes16(Count(exe)) \in Seq(Byte) /\ Len(Bytes16(Count(exe))) = 2
    BY <2>2
  <2> QED
    <3>1. first \in WriteType /\ first.at = exe.size /\ Len(first.bytes) = 2
      BY <1>1, <2>4 DEF WriteType, TableAt
    <3>2. exe.size + 2 <= Len(Relocated)
      BY <1>1, <1>2
    <3>3. \A i \in 1..2 : Bytes16(Count(exe))[i] = Relocated[exe.size + i]
      BY <2>3
    <3>4. Right(exe.size, Bytes16(Count(exe)))
      BY <2>4, <3>2, <3>3 DEF Right
    <3> QED
      BY <3>1, <3>4 DEF TableAt
<1>4. /\ second \in WriteType /\ Right(second.at, second.bytes)
      /\ second.at = exe.size + 2 /\ Len(second.bytes) = t
  <2>1. /\ TheTable \in Seq(Byte) /\ Len(TheTable) = t
        /\ \A i \in 1..t : TheTable[i] = exe.bytes[exe.size + 2 + i]
    BY TheTableIs
  <2>2. ASSUME NEW i \in 1..t PROVE TheTable[i] = Relocated[exe.size + 2 + i]
    <3>1. 2 + i \in 1..(2 + t) /\ exe.size + (2 + i) = exe.size + 2 + i
      BY <1>1
    <3> QED
      BY <1>2, <2>1, <3>1
  <2> QED
    BY <1>1, <1>2, <2>1, <2>2 DEF Right, WriteType, TableAt
<1>5. /\ c \in Nat /\ DOMAIN ByAddress(list) = 1..c
      /\ \A n \in 1..c : p(n) \in list
      /\ \A q \in list : \E n \in 1..c : p(n) = q
  BY ByAddressIs DEF ByAddress
<1>6. ASSUME NEW q \in list
      PROVE  /\ q.addr \in Fixups(exe) /\ q = WordPatch(q.addr)
             /\ [at |-> q.addr, bytes |-> Bytes16(q.value)] \in WriteType
             /\ Right(q.addr, Bytes16(q.value))
             /\ Len(Bytes16(q.value)) = 2 /\ q.addr \in Nat /\ q.addr + 2 <= exe.size
  <2>1. q.addr \in Fixups(exe) /\ q = WordPatch(q.addr) /\ q.value = read16(exe, q.addr)
    BY DEF PatchesOK, WordPatch
  <2>2. /\ q.addr \in Nat /\ q.addr + 2 <= exe.size
        /\ Bytes16(q.value) = <<Relocated[q.addr + 1], Relocated[q.addr + 2]>>
    BY <2>1, WordsRelocated
  <2>3. Relocated[q.addr + 1] \in Byte /\ Relocated[q.addr + 2] \in Byte
    <3>1. /\ q.addr \in Nat /\ q.addr + 2 <= exe.size /\ exe.size <= Len(Relocated)
          /\ exe.size \in Nat /\ Len(Relocated) \in Nat
      BY <1>1, <1>2, <2>2
    <3>2. \A a, m, l \in Nat : a + 2 <= m /\ m <= l => a + 1 \in 1..l /\ a + 2 \in 1..l
      OBVIOUS
    <3>3. q.addr + 1 \in 1..Len(Relocated) /\ q.addr + 2 \in 1..Len(Relocated)
      BY <3>1, <3>2
    <3> QED
      BY <1>2, <3>3, ElementOfSeq
  <2>4. Bytes16(q.value) \in Seq(Byte) /\ Len(Bytes16(q.value)) = 2
    <3>1. \A a, b \in Byte : <<a, b>> \in Seq(Byte) /\ Len(<<a, b>>) = 2
      OBVIOUS
    <3> QED
      BY <2>2, <2>3, <3>1
  <2>5. Right(q.addr, Bytes16(q.value))
    <3>1. q.addr + 2 <= Len(Relocated)
      <4>1. exe.size <= Len(Relocated) /\ exe.size \in Nat /\ Len(Relocated) \in Nat
        BY <1>1, <1>2
      <4> QED
        BY <2>2, <4>1
    <3>2. \A i \in 1..2 : Bytes16(q.value)[i] = Relocated[q.addr + i]
      BY <2>2
    <3> QED
      BY <2>4, <3>1, <3>2 DEF Right
  <2> QED
    BY <2>1, <2>2, <2>4, <2>5 DEF WriteType
<1>7. /\ rest \in Seq(WriteType) /\ Len(rest) = c
      /\ \A n \in 1..c : rest[n] = [at |-> p(n).addr, bytes |-> Bytes16(p(n).value)]
  <2>1. rest = [n \in 1..c |-> [at |-> p(n).addr, bytes |-> Bytes16(p(n).value)]]
    BY <1>5
  <2>2. \A n \in 1..c : [at |-> p(n).addr, bytes |-> Bytes16(p(n).value)] \in WriteType
    BY <1>5, <1>6
  <2> HIDE DEF rest, p
  <2>3. rest \in [1..c -> WriteType]
    BY <2>1, <2>2
  <2> QED
    BY <1>5, <2>1, <2>3
<1>8. head \in Seq(WriteType) /\ Len(head) = 2 /\ head[1] = first /\ head[2] = second
  <2> HIDE DEF first, second
  <2> QED
    BY <1>3, <1>4
<1> HIDE DEF first, second, head, rest, p
<1>9. /\ ws \in Seq(WriteType) /\ Len(ws) = 2 + c
      /\ ws[1] = first /\ ws[2] = second
      /\ \A n \in 1..c : ws[2 + n] = rest[n]
  <2>1. /\ ws \in Seq(WriteType) /\ Len(ws) = Len(head) + Len(rest)
        /\ \A i \in 1..(Len(head) + Len(rest)) :
             ws[i] = IF i <= Len(head) THEN head[i] ELSE rest[i - Len(head)]
    BY <1>7, <1>8, ConcatProperties
  <2>2. Len(ws) = 2 + c /\ ws[1] = first /\ ws[2] = second
    BY <1>5, <1>7, <1>8, <2>1
  <2>3. ASSUME NEW n \in 1..c PROVE ws[2 + n] = rest[n]
    <3>1. 2 + n \in 1..(2 + c) /\ ~(2 + n <= 2) /\ (2 + n) - 2 = n
      BY <1>5
    <3> QED
      BY <1>7, <1>8, <2>1, <3>1
  <2> QED
    BY <2>1, <2>2, <2>3
<1>10. ASSUME NEW n \in 1..c
       PROVE  /\ ws[2 + n].at = p(n).addr /\ ws[2 + n].bytes = Bytes16(p(n).value)
              /\ Right(ws[2 + n].at, ws[2 + n].bytes) /\ ws[2 + n].at <= Len(d)
  <2>1. ws[2 + n] = [at |-> p(n).addr, bytes |-> Bytes16(p(n).value)]
    BY <1>7, <1>9
  <2>2. p(n) \in list
    BY <1>5
  <2>3. /\ Right(p(n).addr, Bytes16(p(n).value))
        /\ p(n).addr \in Nat /\ p(n).addr + 2 <= exe.size
    BY <1>6, <2>2
  <2>4. p(n).addr <= Len(d)
    BY <1>1, <2>3
  <2> QED
    BY <2>1, <2>3, <2>4
<1>11. ASSUME NEW k \in 1..Len(ws)
       PROVE  /\ Right(ws[k].at, ws[k].bytes)
              /\ \/ ws[k].at <= Len(d)
                 \/ k = 2 /\ ws[2].at <= ws[1].at + Len(ws[1].bytes)
  <2>1. CASE k = 1
    BY <1>1, <1>3, <1>9, <2>1
  <2>2. CASE k = 2
    <3>1. Right(ws[k].at, ws[k].bytes)
      BY <1>4, <1>9, <2>2
    <3>2. ws[2].at = exe.size + 2 /\ ws[1].at = exe.size /\ Len(ws[1].bytes) = 2
      BY <1>3, <1>4, <1>9
    <3> QED
      BY <1>1, <2>2, <3>1, <3>2
  <2>3. CASE k > 2
    <3>1. k - 2 \in 1..c /\ 2 + (k - 2) = k
      BY <1>5, <1>9, <2>3
    <3> QED
      BY <1>10, <3>1
  <2>4. k = 1 \/ k = 2 \/ k > 2
    BY <1>5, <1>9
  <2> QED
    BY <2>1, <2>2, <2>3, <2>4
<1>12. ASSUME NEW i \in 1..Len(Relocated)
       PROVE  \/ i <= Len(d) /\ d[i] = Relocated[i]
              \/ \E k \in 1..Len(ws) : i \in (ws[k].at + 1)..(ws[k].at + Len(ws[k].bytes))
  <2>1. CASE i > exe.size
    <3>1. 1 \in 1..Len(ws) /\ 2 \in 1..Len(ws)
      BY <1>5, <1>9
    <3>2. /\ ws[1].at = exe.size /\ Len(ws[1].bytes) = 2
          /\ ws[2].at = exe.size + 2 /\ Len(ws[2].bytes) = t
      BY <1>3, <1>4, <1>9
    <3>3. \/ i \in (exe.size + 1)..(exe.size + 2)
          \/ i \in (exe.size + 2 + 1)..(exe.size + 2 + t)
      <4> HIDE DEF t
      <4>1. i \in (exe.size + 1)..(exe.size + 2 + t)
        BY <1>1, <1>2, <2>1
      <4> QED
        BY <1>1, <4>1
    <3> QED
      BY <3>1, <3>2, <3>3
  <2>2. CASE i <= exe.size /\ i - 1 \notin FixedBytes
    <3>1. i \in 1..exe.size /\ i \in 1..Len(d)
      BY <1>1, <1>2, <2>2
    <3>2. Relocated[i] = call.bin[i]
      BY <2>2, <3>1, RelocatedIs
    <3> QED
      BY <3>1, <3>2 DEF OnTheWay
  <2>3. CASE i <= exe.size /\ i - 1 \in FixedBytes
    <3>1. PICK a \in Fixups(exe) : i - 1 \in {a, a + 1}
      BY <2>3 DEF FixedBytes
    <3>2. WordPatch(a) \in list
      BY AllNoted
    <3>3. PICK n \in 1..c : p(n) = WordPatch(a)
      BY <1>5, <3>2
    <3>4. p(n).addr = a /\ a \in Nat /\ Len(Bytes16(p(n).value)) = 2
      BY <1>6, <3>2, <3>3 DEF WordPatch
    <3>5. i \in (ws[2 + n].at + 1)..(ws[2 + n].at + Len(ws[2 + n].bytes))
      <4>1. ws[2 + n].at = a /\ Len(ws[2 + n].bytes) = 2
        BY <1>10, <3>4
      <4>2. i \in Int
        BY <1>1, <1>2
      <4> QED
        BY <3>1, <3>4, <4>1, <4>2
    <3>6. 2 + n \in 1..Len(ws)
      BY <1>5, <1>9
    <3> QED
      BY <3>5, <3>6
  <2>4. i > exe.size \/ i <= exe.size
    BY <1>1, <1>2
  <2> QED
    BY <2>1, <2>2, <2>3, <2>4
<1>13. Pending(d, ws)
  BY <1>9, <1>11, <1>12 DEF Pending
<1> QED
  BY <1>13 DEF head, first, second, rest, p
-----------------------------------------------------------------------------
(***************************************************************************)
(* Every step keeps the invariant.                                         *)
(***************************************************************************)
LEMMA CopyStarts ==
  ASSUME CopyInit
  PROVE  CopyInv
<1>1. /\ call \in Copies /\ copying = "table" /\ writes = <<>> /\ dst = call.bin
      /\ patchlist = {}
  BY DEF CopyInit
<1>2. ASSUME Loadable PROVE OnTheWay(dst)
  <2>1. /\ dst \in Seq(Byte) /\ Len(dst) = exe.size /\ exe.size \in Nat
        /\ Len(Relocated) = exe.size + 2 + 8 * Count(exe) /\ Count(exe) \in Nat
    BY <1>1, <1>2, CallParts, LoadableParts, RelocatedIs
  <2> QED
    BY <1>1, <2>1 DEF OnTheWay
<1>3. Loadable => Reading(copying, relocdata, record, x, patchlist)
  BY <1>1 DEF Reading
<1> QED
  BY <1>1, <1>2, <1>3 DEF CopyInv, Steady, Places

\* A run that gives up leaves the .bin on its way.
LEMMA GivesUp ==
  ASSUME CopyInv, copying \in {"table", "records", "chain"}, NEW how \in {"error", "panic"},
         GiveUpCopy(how), ReadingOnly
  PROVE  CopyInv'
<1>1. /\ call' = call /\ call \in Copies /\ copying' = how /\ how \in Places
      /\ dst' = dst /\ writes' = <<>>
  BY DEF CopyInv, GiveUpCopy, ReadingOnly, Unchanged, Places, CopyEnded
<1>2. ASSUME Loadable
      PROVE  /\ Reading(copying', relocdata', record', x', patchlist')
             /\ Steady(dst', copying', writes')
  BY <1>1, <1>2 DEF CopyInv, Reading, Steady
<1> QED
  BY <1>1, <1>2, CopyInvNext

LEMMA ReadTableKeeps ==
  ASSUME CopyInv, ReadTable
  PROVE  CopyInv'
<1>1. /\ call' = call /\ call \in Copies /\ copying = "table" /\ copying' = "records"
      /\ dst' = dst /\ writes' = writes /\ writes = <<>> /\ record' = 1
      /\ patchlist' = patchlist /\ relocdata' = Read(exe, exe.size + 2, TableLen(exe))
  BY DEF CopyInv, ReadTable, ReadingOnly, Unchanged
<1>2. ASSUME Loadable
      PROVE  /\ Reading(copying', relocdata', record', x', patchlist')
             /\ Steady(dst', copying', writes')
  <2>1. relocdata' = TheTable /\ Count(exe) \in Nat
    BY <1>1, <1>2, LoadableParts DEF TheTable
  <2>2. patchlist' = {} /\ PatchesOK({})
    BY <1>1, <1>2, FS_EmptySet DEF CopyInv, Reading, PatchesOK
  <2>3. HeadsNoted(patchlist', 1 - 1)
    BY DEF HeadsNoted
  <2>4. Reading(copying', relocdata', record', x', patchlist')
    BY <1>1, <2>1, <2>2, <2>3 DEF Reading
  <2> QED
    BY <1>1, <1>2, <2>4 DEF CopyInv, Steady
<1> QED
  BY <1>1, <1>2, CopyInvNext DEF Places

LEMMA HeadPlace ==
  ASSUME NEW s \in Nat, NEW k \in Nat, NEW c \in Nat, NEW l \in Nat,
         1 <= k, k <= c, s + 2 + 8 * c <= l
  PROVE  /\ s + 8 * k - 4 \in Nat /\ s + 8 * k - 4 + 2 <= l
         /\ s + 2 + (8 * k - 5) = s + 8 * k - 4 + 1
         /\ s + 2 + (8 * k - 4) = s + 8 * k - 4 + 2
OBVIOUS

LEMMA StartChainKeeps ==
  ASSUME CopyInv, StartChain
  PROVE  CopyInv'
<1>1. /\ call' = call /\ call \in Copies /\ copying = "records" /\ copying' = "chain"
      /\ dst' = dst /\ writes' = writes /\ writes = <<>> /\ record' = record
      /\ patchlist' = patchlist /\ relocdata' = relocdata /\ record <= Count(exe)
      /\ x' = Word16(SubSeq(TableRecord, 3, 4))
  BY DEF CopyInv, StartChain, AtRelocation, ReadingOnly, Unchanged
<1>2. ASSUME Loadable
      PROVE  /\ Reading(copying', relocdata', record', x', patchlist')
             /\ Steady(dst', copying', writes')
  <2> DEFINE k == record
  <2>1. /\ relocdata = TheTable /\ Count(exe) \in Nat /\ k \in 1..Count(exe)
        /\ PatchesOK(patchlist) /\ HeadsNoted(patchlist, k - 1)
    <3>1. /\ relocdata = TheTable /\ k \in 1..(Count(exe) + 1)
          /\ PatchesOK(patchlist) /\ HeadsNoted(patchlist, k - 1)
      BY <1>1, <1>2 DEF CopyInv, Reading
    <3> QED
      BY <1>1, <1>2, <3>1, LoadableParts
  <2>2. x' = HeadAt(k)
    <3>1. /\ exe.size \in Nat /\ exe.bytes \in Seq(Byte) /\ Len(exe.bytes) \in Nat
          /\ exe.size + 2 + 8 * Count(exe) <= Len(exe.bytes)
      BY <1>1, <1>2, CallParts, LoadableParts
    <3>2. /\ TheTable \in Seq(Byte) /\ Len(TheTable) = 8 * Count(exe)
          /\ \A i \in 1..(8 * Count(exe)) : TheTable[i] = exe.bytes[exe.size + 2 + i]
      BY <1>1, <1>2, TheTableIs
    <3>3. \A i \in (8 * k - 7)..(8 * k) : TheTable[i] \in Byte
      <4>1. \A i \in (8 * k - 7)..(8 * k) : i \in 1..Len(TheTable)
        BY <2>1, <3>2
      <4> QED
        BY <3>2, <4>1, ElementOfSeq
    <3>4. /\ SubSeq(TheTable, 8 * k - 7, 8 * k) \in Seq(Byte)
          /\ Len(SubSeq(TheTable, 8 * k - 7, 8 * k)) = 8
          /\ \A i \in 1..8 :
               SubSeq(TheTable, 8 * k - 7, 8 * k)[i] = TheTable[(8 * k - 7) + i - 1]
      <4>1. 8 * k - 7 \in Int /\ 8 * k \in Int /\ 8 * k - (8 * k - 7) + 1 = 8 /\ 8 * k - 7 <= 8 * k
        BY <2>1
      <4> QED
        BY <3>3, <4>1, SubSeqProperties
    <3> DEFINE r == SubSeq(TheTable, 8 * k - 7, 8 * k)
    <3> HIDE DEF r
    <3>5. r \in Seq(Byte) /\ Len(r) = 8 /\ \A i \in 1..8 : r[i] = TheTable[(8 * k - 7) + i - 1]
      BY <3>4 DEF r
    <3>6. SubSeq(r, 3, 4)[1] = r[3] /\ SubSeq(r, 3, 4)[2] = r[4]
      <4>1. \A i \in 3..4 : r[i] \in Byte
        <5>1. \A i \in 1..Len(r) : r[i] \in Byte
          BY <3>5, ElementOfSeq
        <5>2. \A i \in 3..4 : i \in 1..Len(r)
          BY <3>5
        <5> QED
          BY <5>1, <5>2
      <4>2. \A i \in 1..(4 - 3 + 1) : SubSeq(r, 3, 4)[i] = r[3 + i - 1]
        BY <4>1, SubSeqProperties
      <4> QED
        BY <4>2
    <3>7. /\ r[3] = TheTable[8 * k - 5] /\ r[4] = TheTable[8 * k - 4]
          /\ 8 * k - 5 \in 1..(8 * Count(exe)) /\ 8 * k - 4 \in 1..(8 * Count(exe))
      <4>1. (8 * k - 7) + 3 - 1 = 8 * k - 5 /\ (8 * k - 7) + 4 - 1 = 8 * k - 4
        BY <2>1
      <4>2. r[3] = TheTable[(8 * k - 7) + 3 - 1] /\ r[4] = TheTable[(8 * k - 7) + 4 - 1]
        BY <3>5
      <4> QED
        BY <2>1, <4>1, <4>2
    <3>8. /\ r[3] = exe.bytes[exe.size + 2 + (8 * k - 5)]
          /\ r[4] = exe.bytes[exe.size + 2 + (8 * k - 4)]
      BY <3>2, <3>7
    <3>9. /\ exe.size + 8 * k - 4 \in Nat /\ exe.size + 8 * k - 4 + 2 <= Len(exe.bytes)
          /\ exe.size + 2 + (8 * k - 5) = exe.size + 8 * k - 4 + 1
          /\ exe.size + 2 + (8 * k - 4) = exe.size + 8 * k - 4 + 2
      <4>1. k \in Nat /\ 1 <= k /\ k <= Count(exe)
        BY <2>1
      <4> QED
        BY <2>1, <3>1, <4>1, HeadPlace
    <3>10. HeadAt(k) = exe.bytes[exe.size + 8 * k - 4 + 1] + 256 * exe.bytes[exe.size + 8 * k - 4 + 2]
      BY <3>1, <3>9, ReadWordIs DEF HeadAt, ReadOK
    <3>11. x' = r[3] + 256 * r[4]
      BY <1>1, <2>1, <3>6 DEF TableRecord, Word16, r
    <3> QED
      BY <3>8, <3>9, <3>10, <3>11
  <2>3. 0 \in 0..exe.size /\ x' = Chain(exe, HeadAt(k))[0]
    <3>1. HeadAt(k) \in Word
      BY <1>1, <1>2, <2>1, LoadableParts
    <3> QED
      BY <1>1, <2>2, <3>1, CallParts, ChainRuns
  <2>4. Notes(patchlist, HeadAt(k), 0 - 1)
    BY DEF Notes
  <2>5. Reading(copying', relocdata', record', x', patchlist')
    BY <1>1, <2>1, <2>3, <2>4 DEF Reading
  <2> QED
    BY <1>1, <1>2, <2>5 DEF CopyInv, Steady
<1> QED
  BY <1>1, <1>2, CopyInvNext DEF Places

LEMMA NotesGrow ==
  ASSUME NEW list, NEW p, NEW head, NEW n, Notes(list, head, n)
  PROVE  Notes(list \cup {p}, head, n)
BY DEF Notes

LEMMA FollowChainKeeps ==
  ASSUME CopyInv, FollowChain
  PROVE  CopyInv'
<1> DEFINE v == read16(exe, x)
<1>1. /\ call' = call /\ call \in Copies /\ copying = "chain" /\ copying' = "chain"
      /\ dst' = dst /\ writes' = writes /\ writes = <<>> /\ record' = record
      /\ relocdata' = relocdata /\ x # ChainEnd /\ ReadOK(exe, x, 2)
      /\ x' = v /\ patchlist' = patchlist \cup {[addr |-> x, value |-> v]}
  BY DEF CopyInv, FollowChain, NextLink, Noted, ReadingOnly, Unchanged
<1>2. ASSUME Loadable
      PROVE  /\ Reading(copying', relocdata', record', x', patchlist')
             /\ Steady(dst', copying', writes')
  <2> DEFINE k == record
             head == HeadAt(record)
  <2>1. /\ relocdata = TheTable /\ k \in 1..Count(exe)
        /\ PatchesOK(patchlist) /\ HeadsNoted(patchlist, k - 1)
    BY <1>1, <1>2 DEF CopyInv, Reading
  <2>2. PICK n \in 0..exe.size : x = Chain(exe, head)[n] /\ Notes(patchlist, head, n - 1)
    BY <1>1, <1>2 DEF CopyInv, Reading
  <2>3. /\ head \in Word /\ exe.size \in Nat
        /\ Chain(exe, head) \in [0..exe.size -> Word]
        /\ \A m \in 1..exe.size : Chain(exe, head)[m] = After(exe, Chain(exe, head)[m - 1])
    BY <1>1, <1>2, <2>1, CallParts, LoadableParts, ChainRuns
  <2>4. head \in Heads(exe)
    BY <2>1 DEF Heads, HeadAt
  <2>5. x \in Fixups(exe)
    <3>1. x \in Range(Chain(exe, head))
      BY <2>2, <2>3 DEF Range
    <3> QED
      BY <1>1, <2>4, <3>1 DEF Fixups
  <2>6. n + 1 \in 1..exe.size /\ n + 1 \in 0..exe.size
    <3>1. n # exe.size
      BY <1>1, <1>2, <2>2, <2>4 DEF Loadable, Ends
    <3> QED
      BY <2>2, <2>3, <3>1
  <2>7. x' = Chain(exe, head)[n + 1]
    <3>1. Chain(exe, head)[n + 1] = After(exe, x)
      <4>1. (n + 1) - 1 = n
        BY <2>6
      <4> QED
        BY <2>2, <2>3, <2>6, <4>1
    <3> QED
      BY <1>1, <3>1 DEF After
  <2>8. PatchesOK(patchlist')
    <3>1. IsFiniteSet(patchlist')
      BY <1>1, <2>1, FS_AddElement DEF PatchesOK
    <3>2. patchlist' = patchlist \cup {WordPatch(x)}
      BY <1>1 DEF WordPatch
    <3> QED
      BY <2>1, <2>5, <3>1, <3>2 DEF PatchesOK
  <2>9. HeadsNoted(patchlist', k - 1)
    BY <1>1, <2>1, NotesGrow DEF HeadsNoted
  <2>10. Notes(patchlist', head, (n + 1) - 1)
    <3>1. ASSUME NEW m \in 0..n, Chain(exe, head)[m] # ChainEnd
          PROVE  WordPatch(Chain(exe, head)[m]) \in patchlist'
      <4>1. CASE m = n
        BY <1>1, <2>2, <4>1 DEF WordPatch
      <4>2. CASE m # n
        <5>1. m \in 0..(n - 1)
          BY <4>2
        <5> QED
          BY <1>1, <2>2, <3>1, <5>1 DEF Notes
      <4> QED
        BY <4>1, <4>2
    <3>2. (n + 1) - 1 = n
      OBVIOUS
    <3> QED
      BY <3>1, <3>2 DEF Notes
  <2>11. Reading(copying', relocdata', record', x', patchlist')
    BY <1>1, <2>1, <2>6, <2>7, <2>8, <2>9, <2>10 DEF Reading
  <2> QED
    BY <1>1, <1>2, <2>11 DEF CopyInv, Steady
<1> QED
  BY <1>1, <1>2, CopyInvNext DEF Places

LEMMA ChainDoneKeeps ==
  ASSUME CopyInv, ChainDone
  PROVE  CopyInv'
<1>1. /\ call' = call /\ call \in Copies /\ copying = "chain" /\ copying' = "records"
      /\ dst' = dst /\ writes' = writes /\ writes = <<>> /\ record' = record + 1
      /\ relocdata' = relocdata /\ patchlist' = patchlist /\ x = ChainEnd
  BY DEF CopyInv, ChainDone, ReadingOnly, Unchanged
<1>2. ASSUME Loadable
      PROVE  /\ Reading(copying', relocdata', record', x', patchlist')
             /\ Steady(dst', copying', writes')
  <2> DEFINE k == record
             head == HeadAt(record)
  <2>1. /\ relocdata = TheTable /\ k \in 1..Count(exe)
        /\ PatchesOK(patchlist) /\ HeadsNoted(patchlist, k - 1)
    BY <1>1, <1>2 DEF CopyInv, Reading
  <2>2. PICK n \in 0..exe.size : x = Chain(exe, head)[n] /\ Notes(patchlist, head, n - 1)
    BY <1>1, <1>2 DEF CopyInv, Reading
  <2>3. head \in Word /\ exe.size \in Nat /\ exe.bytes \in Seq(Byte) /\ Count(exe) \in Nat
    BY <1>1, <1>2, <2>1, CallParts, LoadableParts
  <2>4. Notes(patchlist, head, exe.size)
    <3>1. ASSUME NEW m \in 0..exe.size, Chain(exe, head)[m] # ChainEnd
          PROVE  WordPatch(Chain(exe, head)[m]) \in patchlist
      <4>1. m \notin n..exe.size
        BY <1>1, <2>2, <2>3, <3>1, ChainStops
      <4>2. m \in 0..(n - 1)
        BY <2>3, <4>1
      <4> QED
        BY <2>2, <3>1, <4>2 DEF Notes
    <3> QED
      BY <3>1 DEF Notes
  <2>5. HeadsNoted(patchlist, k)
    <3>1. ASSUME NEW j \in 1..k PROVE Notes(patchlist, HeadAt(j), exe.size)
      <4>1. CASE j = k
        BY <2>4, <4>1
      <4>2. CASE j # k
        <5>1. j \in 1..(k - 1)
          BY <2>1, <4>2
        <5> QED
          BY <2>1, <5>1 DEF HeadsNoted
      <4> QED
        BY <4>1, <4>2
    <3> QED
      BY <3>1 DEF HeadsNoted
  <2>6. k + 1 \in 1..(Count(exe) + 1) /\ (k + 1) - 1 = k
    BY <2>1, <2>3
  <2>7. HeadsNoted(patchlist', record' - 1)
    BY <1>1, <2>5, <2>6
  <2>8. Reading(copying', relocdata', record', x', patchlist')
    BY <1>1, <2>1, <2>6, <2>7 DEF Reading
  <2> QED
    BY <1>1, <1>2, <2>8 DEF CopyInv, Steady
<1> QED
  BY <1>1, <1>2, CopyInvNext DEF Places

LEMMA CheckSizeKeeps ==
  ASSUME CopyInv, CheckSize
  PROVE  CopyInv'
<1> DEFINE start(table) ==
      <<[at |-> TableAt, bytes |-> Bytes16(Count(exe))],
        [at |-> TableAt + 2, bytes |-> table]>> \o
      [i \in DOMAIN ByAddress(patchlist) |->
         [at |-> ByAddress(patchlist)[i].addr,
          bytes |-> Bytes16(ByAddress(patchlist)[i].value)]]
<1>1. /\ call' = call /\ call \in Copies /\ copying = "records" /\ copying' = "writing"
      /\ dst' = dst /\ record' = record /\ relocdata' = relocdata
      /\ patchlist' = patchlist /\ record > Count(exe) /\ writes' = start(relocdata)
  BY DEF CopyInv, CheckSize, Unchanged
<1>2. ASSUME Loadable
      PROVE  /\ Reading(copying', relocdata', record', x', patchlist')
             /\ Steady(dst', copying', writes')
  <2>1. /\ relocdata = TheTable /\ record \in 1..(Count(exe) + 1)
        /\ PatchesOK(patchlist) /\ HeadsNoted(patchlist, record - 1) /\ OnTheWay(dst)
    BY <1>1, <1>2 DEF CopyInv, Reading, Steady
  <2>2. record - 1 = Count(exe)
    <3>1. Count(exe) \in Nat
      BY <1>1, <1>2, LoadableParts
    <3> QED
      BY <1>1, <2>1, <3>1
  <2>3. HeadsNoted(patchlist, Count(exe))
    BY <2>1, <2>2
  <2>4. Pending(dst, start(TheTable))
    BY <1>1, <1>2, <2>1, <2>3, WritesCover
  <2> HIDE DEF start
  <2>5. Pending(dst', writes')
    BY <1>1, <2>1, <2>4
  <2>6. Reading(copying', relocdata', record', x', patchlist')
    BY <1>1, <2>1 DEF Reading
  <2> QED
    BY <1>1, <2>1, <2>5, <2>6 DEF Steady
<1> QED
  BY <1>1, <1>2, CopyInvNext DEF Places

LEMMA WriteKeepsInv ==
  ASSUME CopyInv, Write
  PROVE  CopyInv'
<1> DEFINE w == writes[1]
           o == Overwritten(dst, w.at, w.bytes)
<1>1. /\ call' = call /\ call \in Copies /\ copying = "writing" /\ copying' = "writing"
      /\ dst' = o /\ writes # <<>> /\ writes' = Tail(writes) /\ relocdata' = relocdata
  BY DEF CopyInv, Write, Unchanged
<1>2. ASSUME Loadable
      PROVE  /\ Reading(copying', relocdata', record', x', patchlist')
             /\ Steady(dst', copying', writes')
  <2>1. OnTheWay(dst) /\ Pending(dst, writes) /\ relocdata = TheTable
    BY <1>1, <1>2 DEF CopyInv, Reading, Steady
  <2>2. /\ writes \in Seq(WriteType) /\ Len(writes) \in Nat /\ 1 \in 1..Len(writes)
        /\ Len(dst) \in Nat
    BY <1>1, <2>1 DEF Pending, OnTheWay
  <2>3. w \in WriteType /\ w.at \in Nat /\ w.bytes \in Seq(Byte) /\ Len(w.bytes) \in Nat
    <3>1. w \in WriteType
      BY <2>2, ElementOfSeq
    <3> QED
      BY <3>1 DEF WriteType
  <2>4. Right(w.at, w.bytes) /\ w.at <= Len(dst)
    BY <2>1, <2>2 DEF Pending
  <2>5. /\ OnTheWay(o) /\ Len(o) \in Nat
        /\ Len(dst) <= Len(o) /\ w.at + Len(w.bytes) <= Len(o)
        /\ \A i \in 1..Len(dst) : dst[i] = Relocated[i] => o[i] = Relocated[i]
        /\ \A i \in (w.at + 1)..(w.at + Len(w.bytes)) : o[i] = Relocated[i]
    <3>1. OnTheWay(o)
      BY <1>1, <1>2, <2>1, <2>3, <2>4, WriteRight
    <3>2. Len(o) \in Nat
      BY <3>1 DEF OnTheWay
    <3> HIDE DEF w
    <3>3. /\ Len(dst) <= Len(o) /\ w.at + Len(w.bytes) <= Len(o)
          /\ \A i \in 1..Len(dst) : dst[i] = Relocated[i] => o[i] = Relocated[i]
          /\ \A i \in (w.at + 1)..(w.at + Len(w.bytes)) : o[i] = Relocated[i]
      BY <1>1, <1>2, <2>1, <2>3, <2>4, WriteRight
    <3> QED
      BY <3>1, <3>2, <3>3
  <2> DEFINE ws == Tail(writes)
  <2>6. /\ ws \in Seq(WriteType) /\ Len(ws) = Len(writes) - 1
        /\ \A i \in 1..Len(ws) : ws[i] = writes[i + 1]
    BY <1>1, <2>2, HeadTailProperties
  <2> HIDE DEF ws, o
  <2>7. ASSUME NEW k \in 1..Len(ws)
        PROVE  Right(ws[k].at, ws[k].bytes) /\ ws[k].at <= Len(o)
    <3>1. k + 1 \in 1..Len(writes) /\ ws[k] = writes[k + 1] /\ k \in Nat
      BY <2>2, <2>6
    <3>2. /\ Right(ws[k].at, ws[k].bytes)
          /\ \/ ws[k].at <= Len(dst)
             \/ k + 1 = 2 /\ writes[2].at <= w.at + Len(w.bytes)
      BY <2>1, <3>1 DEF Pending
    <3>3. ws[k] \in WriteType /\ ws[k].at \in Nat
      <4>1. writes[k + 1] \in WriteType
        BY <2>2, <3>1, ElementOfSeq
      <4> QED
        BY <3>1, <4>1 DEF WriteType
    <3>4. CASE ws[k].at <= Len(dst)
      BY <2>2, <2>5, <3>2, <3>3, <3>4
    <3>5. CASE k + 1 = 2 /\ writes[2].at <= w.at + Len(w.bytes)
      <4>1. ws[k].at = writes[2].at
        BY <3>1, <3>5
      <4> QED
        BY <2>3, <2>5, <3>2, <3>3, <3>5, <4>1
    <3> QED
      BY <3>2, <3>4, <3>5
  <2>8. ASSUME NEW i \in 1..Len(Relocated)
        PROVE  \/ i <= Len(o) /\ o[i] = Relocated[i]
               \/ \E k \in 1..Len(ws) : i \in (ws[k].at + 1)..(ws[k].at + Len(ws[k].bytes))
    <3>1. i \in Nat /\ 1 <= i
      BY <1>1, <1>2, RelocatedIs
    <3>2. CASE i <= Len(dst) /\ dst[i] = Relocated[i]
      <4>1. i \in 1..Len(dst) /\ i <= Len(o)
        BY <2>2, <2>5, <3>1, <3>2
      <4> QED
        BY <2>5, <3>2, <4>1
    <3>3. ASSUME NEW k \in 1..Len(writes),
                 i \in (writes[k].at + 1)..(writes[k].at + Len(writes[k].bytes))
          PROVE  \/ i <= Len(o) /\ o[i] = Relocated[i]
                 \/ \E j \in 1..Len(ws) : i \in (ws[j].at + 1)..(ws[j].at + Len(ws[j].bytes))
      <4>1. CASE k = 1
        <5>1. i \in (w.at + 1)..(w.at + Len(w.bytes)) /\ i <= Len(o)
          BY <2>3, <2>5, <3>1, <3>3, <4>1
        <5> QED
          BY <2>5, <5>1
      <4>2. CASE k # 1
        <5>1. k - 1 \in 1..Len(ws) /\ (k - 1) + 1 = k
          BY <2>2, <2>6, <4>2
        <5>2. ws[k - 1] = writes[k]
          BY <2>6, <5>1
        <5> QED
          BY <3>3, <5>1, <5>2
      <4> QED
        BY <4>1, <4>2
    <3> QED
      BY <2>1, <3>2, <3>3 DEF Pending
  <2>9. Pending(dst', writes')
    BY <1>1, <2>6, <2>7, <2>8 DEF Pending, o, ws
  <2>10. Reading(copying', relocdata', record', x', patchlist')
    BY <1>1, <2>1 DEF Reading
  <2> QED
    BY <1>1, <2>5, <2>9, <2>10 DEF Steady, o
<1> QED
  BY <1>1, <1>2, CopyInvNext DEF Places

\* With nothing left to write, all is right.
LEMMA NothingPending ==
  ASSUME call \in Copies, Loadable, NEW d, OnTheWay(d), Pending(d, <<>>)
  PROVE  d = Relocated
<1>1. /\ Relocated \in Seq(Byte) /\ Len(Relocated) \in Nat
      /\ Len(Relocated) = exe.size + 2 + 8 * Count(exe)
      /\ exe.size \in Nat /\ Count(exe) \in Nat
  BY RelocatedIs, CallParts, LoadableParts
<1>2. \A i \in 1..Len(Relocated) : i <= Len(d) /\ d[i] = Relocated[i]
  BY DEF Pending
<1>3. d \in Seq(Byte) /\ Len(d) \in Nat /\ Len(d) <= Len(Relocated)
  BY DEF OnTheWay
<1>4. Len(Relocated) \in 1..Len(Relocated)
  BY <1>1
<1>5. Len(d) = Len(Relocated)
  BY <1>1, <1>2, <1>3, <1>4
<1>6. \A i \in 1..Len(d) : d[i] = Relocated[i]
  BY <1>2, <1>5
<1> QED
  BY <1>1, <1>3, <1>5, <1>6, SeqEqual

LEMMA CopyDoneKeeps ==
  ASSUME CopyInv, CopyDone
  PROVE  CopyInv'
<1>1. /\ call' = call /\ call \in Copies /\ copying = "writing" /\ copying' = "done"
      /\ dst' = dst /\ writes' = <<>> /\ writes = <<>>
  BY DEF CopyInv, CopyDone, GiveUpCopy, ReadingOnly, Unchanged
<1>2. ASSUME Loadable
      PROVE  /\ Reading(copying', relocdata', record', x', patchlist')
             /\ Steady(dst', copying', writes')
  <2>1. OnTheWay(dst) /\ Pending(dst, <<>>)
    BY <1>1, <1>2 DEF CopyInv, Steady
  <2>2. dst = Relocated
    BY <1>1, <1>2, <2>1, NothingPending
  <2> QED
    BY <1>1, <2>1, <2>2 DEF Reading, Steady
<1> QED
  BY <1>1, <1>2, CopyInvNext DEF Places, CopyEnded

\* What a run that is stopped may write of the next write.
LEMMA StopWrites ==
  ASSUME CopyInv, Loadable, Stop
  PROVE  \/ dst' = dst
         \/ \E at \in Nat : \E b \in Seq(Byte) :
              at <= Len(dst) /\ Right(at, b) /\ dst' = Overwritten(dst, at, b)
<1> SUFFICES ASSUME dst' # dst
             PROVE  \E at \in Nat : \E b \in Seq(Byte) :
                      at <= Len(dst) /\ Right(at, b) /\ dst' = Overwritten(dst, at, b)
  OBVIOUS
<1> DEFINE w == writes[1]
<1>1. writes # <<>>
  BY DEF Stop
<1>2. PICK n \in 1..(Len(w.bytes) - 1) :
        dst' = Overwritten(dst, w.at, SubSeq(w.bytes, 1, n))
  BY DEF Stop
<1>3. call \in Copies /\ Pending(dst, writes)
  BY <1>1 DEF CopyInv, Steady
<1>4. writes \in Seq(WriteType) /\ 1 \in 1..Len(writes)
  BY <1>1, <1>3 DEF Pending
<1>5. w \in WriteType
  BY <1>4, ElementOfSeq
<1>6. w.at \in Nat /\ w.bytes \in Seq(Byte)
  BY <1>5 DEF WriteType
<1>7. Right(w.at, w.bytes) /\ w.at <= Len(dst)
  BY <1>3, <1>4 DEF Pending
<1>8. Len(Relocated) \in Nat
  BY <1>3, RelocatedIs
<1> DEFINE b == SubSeq(w.bytes, 1, n)
<1>9. b \in Seq(Byte) /\ Right(w.at, b)
  BY <1>2, <1>6, <1>7, <1>8, PartRight
<1> QED
  BY <1>2, <1>6, <1>7, <1>9

LEMMA StopKeeps ==
  ASSUME CopyInv, Stop
  PROVE  CopyInv'
<1>1. /\ call' = call /\ call \in Copies /\ copying' = "stopped" /\ writes' = <<>>
  BY DEF CopyInv, Stop, GiveUpCopy, Unchanged
<1>2. ASSUME Loadable
      PROVE  /\ Reading(copying', relocdata', record', x', patchlist')
             /\ Steady(dst', copying', writes')
  <2>1. OnTheWay(dst)
    BY <1>2 DEF CopyInv, Steady
  <2>2. OnTheWay(dst')
    BY <1>1, <1>2, <2>1, StopWrites, WriteRight
  <2> QED
    BY <1>1, <2>2 DEF Reading, Steady
<1> QED
  BY <1>1, <1>2, CopyInvNext DEF Places, CopyEnded

LEMMA AgainKeeps ==
  ASSUME CopyInv, Again
  PROVE  CopyInv'
<1>1. /\ call' = call /\ call \in Copies /\ copying' = "table" /\ writes' = <<>>
      /\ dst' = dst /\ patchlist' = {}
  BY DEF CopyInv, Again
<1>2. ASSUME Loadable
      PROVE  /\ Reading(copying', relocdata', record', x', patchlist')
             /\ Steady(dst', copying', writes')
  BY <1>1, <1>2 DEF CopyInv, Reading, Steady
<1> QED
  BY <1>1, <1>2, CopyInvNext DEF Places

LEMMA CopyInvKept ==
  ASSUME CopyInv, [CopyNext]_copyVars
  PROVE  CopyInv'
<1>1. CASE NoTable
  BY <1>1, GivesUp DEF NoTable
<1>2. CASE UnknownType
  BY <1>2, GivesUp DEF UnknownType, AtRelocation
<1>3. CASE TableTooShort
  BY <1>3, GivesUp DEF TableTooShort, AtRelocation
<1>4. CASE ChainLeavesFile
  BY <1>4, GivesUp DEF ChainLeavesFile
<1>5. CASE WrongSize
  BY <1>5, GivesUp DEF WrongSize
<1>6. CASE UNCHANGED copyVars
  <2>1. /\ call' = call /\ call \in Copies /\ copying' = copying /\ dst' = dst
        /\ writes' = writes /\ relocdata' = relocdata /\ record' = record /\ x' = x
        /\ patchlist' = patchlist
    BY <1>6 DEF copyVars, CopyInv
  <2> QED
    BY <2>1, CopyInvNext DEF CopyInv
<1> QED
  BY <1>1, <1>2, <1>3, <1>4, <1>5, <1>6, ReadTableKeeps, StartChainKeeps, FollowChainKeeps,
     ChainDoneKeeps, CheckSizeKeeps, WriteKeepsInv, CopyDoneKeeps, StopKeeps, AgainKeeps
  DEF CopyNext, CopyStep

\* What holds of every run of copyReloc, however the runs before it were stopped:
\* what has been written is right, and what is still to be written is known.
THEOREM CopyInvHolds == CopySpec => []CopyInv
<1>1. CopyInit => CopyInv
  BY CopyStarts
<1>2. CopyInv /\ [CopyNext]_copyVars => CopyInv'
  BY CopyInvKept
<1> QED
  BY <1>1, <1>2, PTL DEF CopySpec

\* A run that ends well has made the .bin what it should be: the segment with
\* the words of its relocation chains as the executable has them, and the
\* relocation table behind, whatever runs were stopped before it, and wherever
\* (copyReloc in tools/copyreloc).
THEOREM CopiesAreWhole == CopySpec => []CopiedWhole
<1>1. CopyInv => CopiedWhole
  BY DEF CopyInv, Steady, CopiedWhole
<1> QED
  BY <1>1, CopyInvHolds, PTL

LEMMA KeptByStep ==
  ASSUME CopyInv, [CopyNext]_copyVars, Loadable, dst = Relocated
  PROVE  dst' = Relocated
<1>1. call \in Copies
  BY DEF CopyInv
<1>2. CASE Write
  <2> DEFINE w == writes[1]
  <2>1. Pending(dst, writes) /\ writes # <<>>
    BY <1>2 DEF CopyInv, Steady, Write
  <2>2. writes \in Seq(WriteType) /\ 1 \in 1..Len(writes)
    BY <2>1 DEF Pending
  <2>3. w \in WriteType
    BY <2>2, ElementOfSeq
  <2>4. w.at \in Nat /\ w.bytes \in Seq(Byte) /\ Right(w.at, w.bytes) /\ w.at <= Len(dst)
    BY <2>1, <2>2, <2>3 DEF Pending, WriteType
  <2>5. dst' = Overwritten(dst, w.at, w.bytes)
    BY <1>2 DEF Write
  <2> QED
    BY <1>1, <2>4, <2>5, WriteKeeps
<1>3. CASE Stop
  <2>1. CASE dst' = dst
    BY <2>1
  <2>2. CASE dst' # dst
    <3>1. PICK at \in Nat, b \in Seq(Byte) :
            at <= Len(dst) /\ Right(at, b) /\ dst' = Overwritten(dst, at, b)
      BY <1>3, <2>2, StopWrites
    <3> QED
      BY <1>1, <3>1, WriteKeeps
  <2> QED
    BY <2>1, <2>2
<1>4. CASE ~(Write \/ Stop)
  <2>1. dst' = dst
    BY <1>4 DEF CopyNext, CopyStep, copyVars, ReadTable, NoTable, StartChain, UnknownType,
                TableTooShort, FollowChain, ChainLeavesFile, ChainDone, CheckSize, WrongSize,
                CopyDone, Again, ReadingOnly
  <2> QED
    BY <2>1
<1> QED
  BY <1>2, <1>3, <1>4

\* What is relocated once stays so at every step of every later run, and when
\* that is stopped in the middle of a write (writeAt in tools/copyreloc).
THEOREM RelocatedIsKept == CopySpec => KeptCopied
<1>1. CopyInv /\ [CopyNext]_copyVars
        => [Loadable /\ dst = Relocated => dst' = Relocated]_copyVars
  BY KeptByStep
<1>2. []CopyInv /\ [][CopyNext]_copyVars => KeptCopied
  BY <1>1, PTL DEF KeptCopied
<1> QED
  BY <1>2, CopyInvHolds, PTL DEF CopySpec
-----------------------------------------------------------------------------
(***************************************************************************)
(* label, for every listing whose code addresses ascend: each jump that is *)
(* written has the label of its destination, with -many the functions are  *)
(* split behind their returns, and no byte of the listing is lost.         *)
(*                                                                         *)
(* None of the three is inductive.  That the lists of lines and jumps are  *)
(* in step (InStep) makes drain right; that nothing below the start        *)
(* address comes once anything has been kept (AheadInv) is why clearing    *)
(* the lines there loses no jump; that breaking stands for a return among  *)
(* the lines (RetInv) is why -many never stops with nothing to write; and  *)
(* the bytes are counted at every place label can be (KeptInv), with those *)
(* of the line that a table has begun.                                     *)
(***************************************************************************)

\* What is written: a line's Mnemonic is the kind it came from, or what label makes.
Mnemonics == {"", "op", "nop", "retf", "jump", "jmp", "dw", "db"}
OutLine == [Addr: Nat, Mnemonic: Mnemonics, bytes: Seq(0..255), IsJump: BOOLEAN,
            IsTarget: BOOLEAN, Label: Nat, JumpLabel: Int, JumpDest: Nat]
JumpSet == [Dest: Nat, Line: Nat]

\* Each jump is an entry of jumps, and each entry is of a jump to its destination.
InStep(ls, js) ==
  /\ \A k \in DOMAIN js : /\ js[k].Line \in DOMAIN ls
                          /\ ls[js[k].Line].IsJump
                          /\ ls[js[k].Line].JumpDest = js[k].Dest
  /\ \A i \in DOMAIN ls : ls[i].IsJump => \E k \in DOMAIN js : js[k].Line = i

-----------------------------------------------------------------------------
(***************************************************************************)
(* drain: what it writes of lines and jumps that are in step reaches.      *)
(***************************************************************************)
LEMMA FirstIn ==
  ASSUME NEW I \in SUBSET Nat, I # {}
  PROVE  Min(I) \in I /\ \A i \in I : Min(I) <= i
<1>1. PICK m \in I : \A i \in I : m <= i
  BY LeastNat
<1> QED
  BY <1>1 DEF Min

LEMMA OnlyOne == ASSUME NEW d \in Nat PROVE Max({d}) = d
BY DEF Max

\* findLine returns the first line of the address.
LEMMA FindLineIs ==
  ASSUME NEW ls \in Seq(OutLine), NEW d
  PROVE  LET at == {k \in DOMAIN ls : ls[k].Addr = d}
         IN  /\ at = {} => findLine(ls, d) = 0
             /\ at # {} => /\ findLine(ls, d) = Min(at) /\ Min(at) \in at
                           /\ findLine(ls, d) # 0
<1> DEFINE at == {k \in DOMAIN ls : ls[k].Addr = d}
           I == {i \in 1..Len(ls) : (ls[i]).Addr = d}
<1>1. I = at /\ I \in SUBSET Nat /\ 0 \notin I
  OBVIOUS
<1>2. findLine(ls, d) = IF I # {} THEN Min(I) ELSE 0
  BY DEF findLine, SelectInSeq
<1>3. I # {} => Min(I) \in I
  BY <1>1, FirstIn
<1> QED
  BY <1>1, <1>2, <1>3

\* The destinations that have a line, and their numbers in ascending order.
DestsFound(ls, js) == {js[k].Dest : k \in {k \in DOMAIN js : findLine(ls, js[k].Dest) # 0}}
NumberIn(F, d) == Cardinality({e \in F : e < d})

LEMMA DestsFinite ==
  ASSUME NEW ls, NEW js \in Seq(JumpSet)
  PROVE  /\ DestsFound(ls, js) \in SUBSET Nat
         /\ IsFiniteSet(DestsFound(ls, js))
<1> DEFINE F == DestsFound(ls, js)
           K == {k \in DOMAIN js : findLine(ls, js[k].Dest) # 0}
           f == [k \in K |-> js[k].Dest]
<1>1. \A k \in DOMAIN js : js[k].Dest \in Nat
  <2>1. \A k \in 1..Len(js) : js[k] \in JumpSet
    BY ElementOfSeq
  <2> QED
    BY <2>1 DEF JumpSet
<1>2. F \in SUBSET Nat
  BY <1>1 DEF DestsFound
<1>3. IsFiniteSet(K)
  <2>1. DOMAIN js = 1..Len(js) /\ Len(js) \in Nat
    OBVIOUS
  <2>2. IsFiniteSet(1..Len(js))
    BY <2>1, FS_Interval
  <2>3. K \in SUBSET (1..Len(js))
    BY <2>1
  <2> QED
    BY <2>2, <2>3, FS_Subset
<1>4. f \in Surjection(K, F)
  BY DEF Surjection, DestsFound
<1>5. IsFiniteSet(F)
  BY <1>3, <1>4, FS_Surjection
<1> QED
  BY <1>2, <1>5

LEMMA NumbersRise ==
  ASSUME NEW F \in SUBSET Nat, IsFiniteSet(F)
  PROVE  \A d \in F : /\ NumberIn(F, d) \in Nat
                      /\ \A e \in F : d < e => NumberIn(F, d) < NumberIn(F, e)
<1> DEFINE R == {xy \in Nat \X Nat : xy[1] < xy[2]}
<1>1. \A a, b \in F : <<a, b>> \in R <=> a < b
  OBVIOUS
<1>2. \A d \in F : BelowIn(F, R, d) = {e \in F : e < d}
  BY <1>1 DEF BelowIn
<1> HIDE DEF R
<1>3. StrictOrder(F, R)
  BY <1>1 DEF StrictOrder
<1>4. \A d \in F : NumberIn(F, d) = RankIn(F, R, d)
  BY <1>2 DEF NumberIn, RankIn
<1>5. \A d, e \in F : d < e => RankIn(F, R, d) < RankIn(F, R, e)
  BY <1>1, <1>3, RankRises
<1>6. \A d \in F : RankIn(F, R, d) \in Nat
  BY <1>3, RanksFill
<1> QED
  BY <1>4, <1>5, <1>6

\* drain, line by line.
Aimed(ls, js, i) == {d \in DestsFound(ls, js) : findLine(ls, d) = i}
Going(ls, js, i) == {js[k].Dest : k \in {k \in DOMAIN js : js[k].Line = i}} \cap DestsFound(ls, js)
LEMMA DrainIs ==
  ASSUME NEW ls \in Seq(OutLine), NEW js \in Seq(JumpSet)
  PROVE  /\ DOMAIN drain(ls, js) = DOMAIN ls /\ Len(drain(ls, js)) = Len(ls)
         /\ \A i \in DOMAIN ls :
              LET l == drain(ls, js)[i]
                  F == DestsFound(ls, js)
              IN  /\ l.Addr = ls[i].Addr /\ l.Mnemonic = ls[i].Mnemonic
                  /\ l.bytes = ls[i].bytes /\ l.IsJump = ls[i].IsJump
                  /\ l.JumpDest = ls[i].JumpDest
                  /\ l.IsTarget = (Aimed(ls, js, i) # {})
                  /\ Aimed(ls, js, i) # {} => l.Label = NumberIn(F, Max(Aimed(ls, js, i)))
                  /\ l.JumpLabel = IF Going(ls, js, i) # {} THEN NumberIn(F, Max(Going(ls, js, i)))
                                   ELSE NoLabel
<1> DEFINE F == DestsFound(ls, js)
<1>1. drain(ls, js) =
        [i \in DOMAIN ls |->
         [ls[i] EXCEPT
            !.IsTarget = Aimed(ls, js, i) # {},
            !.Label = IF Aimed(ls, js, i) # {} THEN NumberIn(F, Max(Aimed(ls, js, i))) ELSE 0,
            !.JumpLabel = IF Going(ls, js, i) # {} THEN NumberIn(F, Max(Going(ls, js, i))) ELSE NoLabel]]
  BY Zenon DEF drain, Aimed, Going, DestsFound, NumberIn
<1>2. DOMAIN ls = 1..Len(ls) /\ Len(ls) \in Nat /\ \A i \in DOMAIN ls : ls[i] \in OutLine
  OBVIOUS
<1>4. ASSUME NEW i \in DOMAIN ls,
             NEW t, NEW n, NEW m
      PROVE  LET l == [ls[i] EXCEPT !.IsTarget = t, !.Label = n, !.JumpLabel = m]
             IN  /\ l.Addr = ls[i].Addr /\ l.Mnemonic = ls[i].Mnemonic
                 /\ l.bytes = ls[i].bytes /\ l.IsJump = ls[i].IsJump
                 /\ l.JumpDest = ls[i].JumpDest
                 /\ l.IsTarget = t /\ l.Label = n /\ l.JumpLabel = m
  BY <1>2 DEF OutLine
<1> HIDE DEF F
<1>5. ASSUME NEW i \in DOMAIN ls
      PROVE  drain(ls, js)[i] =
               [ls[i] EXCEPT
                  !.IsTarget = Aimed(ls, js, i) # {},
                  !.Label = IF Aimed(ls, js, i) # {} THEN NumberIn(F, Max(Aimed(ls, js, i))) ELSE 0,
                  !.JumpLabel = IF Going(ls, js, i) # {} THEN NumberIn(F, Max(Going(ls, js, i))) ELSE NoLabel]
  BY <1>1, Zenon
<1>6. DOMAIN drain(ls, js) = DOMAIN ls
  BY <1>1, Zenon
<1>7. ASSUME NEW i \in DOMAIN ls
      PROVE  LET l == drain(ls, js)[i]
             IN  /\ l.Addr = ls[i].Addr /\ l.Mnemonic = ls[i].Mnemonic
                 /\ l.bytes = ls[i].bytes /\ l.IsJump = ls[i].IsJump
                 /\ l.JumpDest = ls[i].JumpDest
                 /\ l.IsTarget = (Aimed(ls, js, i) # {})
                 /\ l.Label = IF Aimed(ls, js, i) # {} THEN NumberIn(F, Max(Aimed(ls, js, i))) ELSE 0
                 /\ l.JumpLabel = IF Going(ls, js, i) # {} THEN NumberIn(F, Max(Going(ls, js, i)))
                                  ELSE NoLabel
  <2> DEFINE t == Aimed(ls, js, i) # {}
             n == IF Aimed(ls, js, i) # {} THEN NumberIn(F, Max(Aimed(ls, js, i))) ELSE 0
             m == IF Going(ls, js, i) # {} THEN NumberIn(F, Max(Going(ls, js, i)))
                  ELSE NoLabel
  <2>1. drain(ls, js)[i] = [ls[i] EXCEPT !.IsTarget = t, !.Label = n, !.JumpLabel = m]
    BY <1>5, Zenon
  <2> HIDE DEF t, n, m
  <2>2. LET l == drain(ls, js)[i]
        IN  /\ l.Addr = ls[i].Addr /\ l.Mnemonic = ls[i].Mnemonic
            /\ l.bytes = ls[i].bytes /\ l.IsJump = ls[i].IsJump
            /\ l.JumpDest = ls[i].JumpDest
            /\ l.IsTarget = t /\ l.Label = n /\ l.JumpLabel = m
    BY <1>4, <2>1
  <2> QED
    BY <2>2, Zenon DEF t, n, m
<1>3. Len(drain(ls, js)) = Len(ls)
  <2>1. drain(ls, js) \in [1..Len(ls) -> {drain(ls, js)[i] : i \in DOMAIN ls}]
    BY <1>1, <1>2, Zenon
  <2> QED
    BY <1>2, <2>1, ListOf
<1> QED
  BY <1>3, <1>6, <1>7, Zenon DEF F

\* The jumps drain writes have the labels of their destinations.
LEMMA DrainReaches ==
  ASSUME NEW ls \in Seq(OutLine), NEW js \in Seq(JumpSet), InStep(ls, js)
  PROVE  Reaches(drain(ls, js))
<1> DEFINE F == DestsFound(ls, js)
           f == drain(ls, js)
<1>1. F \in SUBSET Nat /\ IsFiniteSet(F)
  BY DestsFinite
<1>2. \A d \in F : findLine(ls, d) # 0
  BY DEF DestsFound
<1>3. ASSUME NEW d \in F
      PROVE  /\ findLine(ls, d) \in DOMAIN ls /\ ls[findLine(ls, d)].Addr = d
             /\ findLine(ls, d) = Min({k \in DOMAIN ls : ls[k].Addr = d})
  <2>1. d \in Nat /\ findLine(ls, d) # 0
    BY <1>1, <1>2
  <2> HIDE DEF F, f
  <2> QED
    BY <2>1, FindLineIs
<1>4. ASSUME NEW i \in DOMAIN ls, NEW d \in F, findLine(ls, d) = i
      PROVE  Aimed(ls, js, i) = {d} /\ Max(Aimed(ls, js, i)) = d
  <2>1. Aimed(ls, js, i) = {d}
    BY <1>3, <1>4 DEF Aimed
  <2> QED
    BY <1>1, <2>1, OnlyOne
<1>5. \A i \in DOMAIN ls : ls[i].IsJump =>
        /\ Going(ls, js, i) = {ls[i].JumpDest} \cap F
        /\ ls[i].JumpDest \in Nat
        /\ (ls[i].JumpDest \in F <=> findLine(ls, ls[i].JumpDest) # 0)
  <2> TAKE i \in DOMAIN ls
  <2> HAVE ls[i].IsJump
  <2>1. PICK k \in DOMAIN js : js[k].Line = i
    BY DEF InStep
  <2>2. {js[m].Dest : m \in {m \in DOMAIN js : js[m].Line = i}} = {ls[i].JumpDest}
    BY <2>1 DEF InStep
  <2>3. js[k].Dest = ls[i].JumpDest
    BY <2>1 DEF InStep
  <2>4. ls[i].JumpDest \in F <=> findLine(ls, ls[i].JumpDest) # 0
    BY <1>2, <2>3 DEF DestsFound
  <2>5. ls[i].JumpDest \in Nat
    <3>1. js[k] \in JumpSet
      BY ElementOfSeq
    <3> QED
      BY <2>3, <3>1 DEF JumpSet
  <2> QED
    BY <2>2, <2>4, <2>5 DEF Going
<1> HIDE DEF F, f
<1>6. ASSUME NEW i \in DOMAIN f, f[i].IsJump
      PROVE  LET at == {k \in DOMAIN f : f[k].Addr = f[i].JumpDest}
             IN  IF at = {} THEN f[i].JumpLabel = NoLabel
                 ELSE f[Min(at)].IsTarget /\ f[Min(at)].Label = f[i].JumpLabel
  <2> DEFINE d == ls[i].JumpDest
             at == {k \in DOMAIN ls : ls[k].Addr = d}
  <2>1. i \in DOMAIN ls /\ ls[i].IsJump /\ DOMAIN f = DOMAIN ls /\ f[i].JumpDest = d
    BY <1>6, DrainIs DEF f
  <2>2. \A k \in DOMAIN f : f[k].Addr = ls[k].Addr
    BY <2>1, DrainIs DEF f
  <2>3. {k \in DOMAIN f : f[k].Addr = f[i].JumpDest} = at
    BY <2>1, <2>2
  <2>4. f[i].JumpLabel = IF Going(ls, js, i) # {} THEN NumberIn(F, Max(Going(ls, js, i)))
                         ELSE NoLabel
    BY <2>1, DrainIs DEF f, F
  <2>5. Going(ls, js, i) = {d} \cap F /\ d \in Nat /\ (d \in F <=> findLine(ls, d) # 0)
    BY <1>5, <2>1
  <2>6. CASE at = {}
    <3>1. d \notin F
      BY <2>5, <2>6, FindLineIs
    <3> QED
      BY <2>3, <2>4, <2>5, <2>6, <3>1
  <2>7. CASE at # {}
    <3>1. /\ findLine(ls, d) # 0 /\ Min(at) \in at /\ findLine(ls, d) = Min(at)
      BY <2>7, FindLineIs
    <3>2. d \in F /\ Min(at) \in DOMAIN ls
      BY <2>5, <3>1
    <3>3. Aimed(ls, js, Min(at)) = {d} /\ Max(Aimed(ls, js, Min(at))) = d
      BY <1>4, <3>1, <3>2
    <3>4. f[Min(at)].IsTarget /\ f[Min(at)].Label = NumberIn(F, d)
      BY <3>2, <3>3, DrainIs DEF f, F
    <3>5. f[i].JumpLabel = NumberIn(F, d)
      <4>1. Going(ls, js, i) = {d}
        BY <2>5, <3>2
      <4> HIDE DEF d
      <4>2. Max({d}) = d
        BY <2>5, OnlyOne
      <4> QED
        BY <2>4, <4>1, <4>2
    <3> QED
      BY <2>3, <2>7, <3>4, <3>5
  <2> QED
    BY <2>6, <2>7
<1>7. ASSUME NEW i \in DOMAIN f, NEW k \in DOMAIN f,
             f[i].IsTarget, f[k].IsTarget, f[i].Addr < f[k].Addr
      PROVE  f[i].Label < f[k].Label
  <2>1. DOMAIN f = DOMAIN ls
    BY DrainIs DEF f
  <2>2. ASSUME NEW m \in DOMAIN ls, f[m].IsTarget
        PROVE  f[m].Addr \in F /\ f[m].Label = NumberIn(F, f[m].Addr)
    <3>1. Aimed(ls, js, m) # {} /\ f[m].Label = NumberIn(F, Max(Aimed(ls, js, m))) /\ f[m].Addr = ls[m].Addr
      BY <2>2, DrainIs DEF f, F
    <3>2. PICK d \in F : findLine(ls, d) = m
      BY <3>1 DEF Aimed, F
    <3>3. ls[m].Addr = d /\ Max(Aimed(ls, js, m)) = d
      BY <1>3, <1>4, <3>2
    <3> QED
      BY <3>1, <3>3
  <2> QED
    BY <1>1, <1>7, <2>1, <2>2, NumbersRise
<1> QED
  BY <1>6, <1>7 DEF Reaches, f
LEMMA DrainType ==
  ASSUME NEW ls \in Seq(OutLine), NEW js \in Seq(JumpSet), InStep(ls, js)
  PROVE  drain(ls, js) \in Seq(OutLine)
<1> DEFINE F == DestsFound(ls, js)
           f == drain(ls, js)
<1>1. F \in SUBSET Nat /\ IsFiniteSet(F)
  BY DestsFinite
<1>2. ASSUME NEW d \in F PROVE ls[findLine(ls, d)].Addr = d
  <2>1. findLine(ls, d) # 0
    BY DEF DestsFound
  <2> QED
    BY <2>1, FindLineIs
<1>3. ASSUME NEW T \in SUBSET F, NEW d \in T, T = {d} PROVE NumberIn(F, Max(T)) \in Nat
  <2>1. Max(T) = d
    BY <1>1, <1>3, OnlyOne
  <2> QED
    BY <1>1, <2>1, NumbersRise
<1>4. DOMAIN ls = 1..Len(ls) /\ Len(ls) \in Nat
  OBVIOUS
<1>5. ASSUME NEW i \in DOMAIN ls PROVE f[i] \in OutLine
  <2>1. ls[i] \in OutLine
    BY <1>4, ElementOfSeq
  <2>2. Aimed(ls, js, i) # {} => NumberIn(F, Max(Aimed(ls, js, i))) \in Nat
    <3>1. Aimed(ls, js, i) \in SUBSET F
      BY DEF Aimed
    <3>2. \A d, e \in Aimed(ls, js, i) : d = e
      BY <1>2 DEF Aimed
    <3> QED
      BY <1>3, <3>1, <3>2
  <2>3. Going(ls, js, i) # {} => NumberIn(F, Max(Going(ls, js, i))) \in Nat
    <3>1. Going(ls, js, i) \in SUBSET F
      BY DEF Going
    <3>2. \A d, e \in Going(ls, js, i) : d = e
      BY DEF Going, InStep
    <3> QED
      BY <1>3, <3>1, <3>2
  <2>4. f[i] = [ls[i] EXCEPT
            !.IsTarget = Aimed(ls, js, i) # {},
            !.Label = IF Aimed(ls, js, i) # {} THEN NumberIn(F, Max(Aimed(ls, js, i))) ELSE 0,
            !.JumpLabel = IF Going(ls, js, i) # {} THEN NumberIn(F, Max(Going(ls, js, i))) ELSE NoLabel]
    BY Zenon DEF drain, Aimed, Going, DestsFound, NumberIn
  <2>5. ASSUME NEW t \in BOOLEAN, NEW n \in Nat, NEW m \in Int
        PROVE  [ls[i] EXCEPT !.IsTarget = t, !.Label = n, !.JumpLabel = m] \in OutLine
    BY <2>1 DEF OutLine
  <2> DEFINE t == Aimed(ls, js, i) # {}
             n == IF Aimed(ls, js, i) # {} THEN NumberIn(F, Max(Aimed(ls, js, i))) ELSE 0
             m == IF Going(ls, js, i) # {} THEN NumberIn(F, Max(Going(ls, js, i))) ELSE NoLabel
  <2>6. t \in BOOLEAN /\ n \in Nat /\ m \in Int
    BY <2>2, <2>3 DEF NoLabel
  <2>7. f[i] = [ls[i] EXCEPT !.IsTarget = t, !.Label = n, !.JumpLabel = m]
    BY <2>4, Zenon
  <2> HIDE DEF f, t, n, m
  <2> QED
    <3>1. [ls[i] EXCEPT !.IsTarget = t, !.Label = n, !.JumpLabel = m] \in OutLine
      BY <2>5, <2>6, Zenon
    <3> QED
      BY <2>7, <3>1, Zenon
<1>6. f \in [1..Len(ls) -> OutLine]
  <2>1. f = [i \in DOMAIN ls |-> f[i]]
    BY Zenon DEF drain
  <2> HIDE DEF f
  <2> QED
    BY <1>4, <1>5, <2>1
<1> QED
  BY <1>4, <1>6, ListOf
-----------------------------------------------------------------------------
(***************************************************************************)
(* The types, and what each step appends to the lists.                     *)
(***************************************************************************)
LabelTypes ==
  /\ listing \in Listings
  /\ next \in 1..(Len(listing.lines) + 1)
  /\ labelling \in {"top", "skip", "table", "end", "done"}
  /\ lines \in Seq(OutLine) /\ jumps \in Seq(JumpSet)
  /\ errorsSeen \in Nat /\ lastAddr \in Nat /\ breaking \in BOOLEAN
  /\ addr \in Nat /\ minAddr \in Nat /\ buf \in Seq(0..255)
  /\ functions \in Seq(Seq(OutLine))

LEMMA ListingIs ==
  ASSUME LabelTypes
  PROVE  /\ Len(listing.lines) \in Nat /\ DOMAIN listing.lines = 1..Len(listing.lines)
         /\ \A i \in DOMAIN listing.lines : listing.lines[i] \in ListingLine
         /\ listing.start \in Nat /\ listing.mode \in {"all", "one", "many"}
         /\ next <= Len(listing.lines) => next \in DOMAIN listing.lines /\ Now \in ListingLine
<1>1. /\ listing.lines \in Seq(ListingLine)
      /\ listing.start \in Nat /\ listing.mode \in {"all", "one", "many"}
  BY ListingsAssumption DEF LabelTypes
<1>2. /\ Len(listing.lines) \in Nat /\ DOMAIN listing.lines = 1..Len(listing.lines)
      /\ \A i \in 1..Len(listing.lines) : listing.lines[i] \in ListingLine
  BY <1>1, ElementOfSeq, LenProperties
<1>3. next <= Len(listing.lines) => next \in DOMAIN listing.lines
  BY <1>2 DEF LabelTypes
<1> QED
  BY <1>1, <1>2, <1>3 DEF Now

LEMMA MnemonicsAre ==
  \A m \in {"", "op", "nop", "retf", "jump", "jmp", "dw", "db"} : m \in Mnemonics
BY DEF Mnemonics

LEMMA TwoMore ==
  ASSUME NEW S, NEW s \in Seq(S), NEW d \in S, NEW e \in S
  PROVE  s \o <<d, e>> = Append(Append(s, d), e)
OBVIOUS

\* What the steps add to the lists.
PlainWith(l, m, b) == l \in OutLine /\ ~l.IsJump /\ l.Mnemonic = m /\ l.bytes = b
JumpWith(l, m, b, d) ==
  l \in OutLine /\ l.IsJump /\ l.Mnemonic = m /\ l.bytes = b /\ l.JumpDest = d /\ d \in Nat
JumpTo(d) == [Dest |-> d, Line |-> Len(lines) + 1]

LEMMA TextMade == ASSUME NEW a \in Nat PROVE PlainWith(TextAt(a), "", <<>>)
<1>1. <<>> \in Seq(0..255) /\ NoLabel \in Int
  BY EmptySeq DEF NoLabel
<1>2. TextAt(a) \in OutLine
  BY <1>1 DEF TextAt, OutLine, Mnemonics
<1> QED
  BY <1>2 DEF TextAt, PlainWith

LEMMA CodeMade ==
  ASSUME NEW a \in Nat, NEW m \in Mnemonics, NEW b \in Seq(0..255)
  PROVE  PlainWith(CodeAt(a, m, b), m, b)
<1>1. TextAt(a) \in OutLine /\ ~TextAt(a).IsJump
  BY TextMade DEF PlainWith
<1> QED
  BY <1>1 DEF CodeAt, OutLine, PlainWith

LEMMA JumpMade ==
  ASSUME NEW a \in Nat, NEW m \in Mnemonics, NEW b \in Seq(0..255), NEW d \in Nat
  PROVE  JumpWith(JumpAt(a, m, b, d), m, b, d)
<1>1. CodeAt(a, m, b) \in OutLine /\ CodeAt(a, m, b).Mnemonic = m /\ CodeAt(a, m, b).bytes = b
  BY CodeMade DEF PlainWith
<1> QED
  BY <1>1 DEF JumpAt, OutLine, JumpWith

LEMMA NowIs ==
  ASSUME LabelTypes, next <= Len(listing.lines)
  PROVE  /\ next \in DOMAIN listing.lines /\ Now \in ListingLine
         /\ next \in Nat /\ next + 1 \in 1..(Len(listing.lines) + 1)
         /\ Now.addr \in Nat /\ Now.dest \in Nat /\ Now.bytes \in Seq(0..255)
         /\ Len(Now.bytes) \in Nat
         /\ Now.kind = "text" <=> Now.bytes = <<>>
<1>1. /\ Len(listing.lines) \in Nat /\ DOMAIN listing.lines = 1..Len(listing.lines)
      /\ next \in DOMAIN listing.lines /\ Now \in ListingLine
  BY ListingIs
<1>2. Now.addr \in Nat /\ Now.dest \in Nat /\ Now.bytes \in Seq(0..255)
  BY <1>1 DEF ListingLine
<1>3. Now.kind = "text" <=> Now.bytes = <<>>
  BY <1>1, ListingsAssumption DEF LabelTypes, Now
<1>4. next \in Nat /\ next + 1 \in 1..(Len(listing.lines) + 1)
  BY <1>1
<1> QED
  BY <1>1, <1>2, <1>3, <1>4, LenProperties

LEMMA TextAdded ==
  ASSUME LabelTypes, TextLine
  PROVE  \E l : PlainWith(l, "", <<>>) /\ lines' = Append(lines, l)
<1>1. <<>> \in Seq(0..255) /\ "" \in Mnemonics /\ lastAddr \in Nat
  BY EmptySeq, MnemonicsAre DEF LabelTypes
<1>2. PlainWith(TextAt(lastAddr), "", <<>>)
  BY <1>1, TextMade
<1> QED
  BY <1>2 DEF TextLine

LEMMA LineAdded ==
  ASSUME LabelTypes, PlainLine
  PROVE  \E l : PlainWith(l, Now.kind, Now.bytes) /\ lines' = Append(lines, l)
<1>1. Now.kind \in Mnemonics /\ Now.addr \in Nat /\ Now.bytes \in Seq(0..255)
  BY NowIs, MnemonicsAre DEF PlainLine, Take, Code, AtLine
<1>2. PlainWith(CodeAt(Now.addr, Now.kind, Now.bytes), Now.kind, Now.bytes)
  BY <1>1, CodeMade
<1> QED
  BY <1>2 DEF PlainLine

LEMMA JumpLineAdded ==
  ASSUME LabelTypes, JumpLine
  PROVE  \E l : /\ JumpWith(l, "jump", Now.bytes, Now.dest) /\ lines' = Append(lines, l)
                /\ jumps' = Append(jumps, JumpTo(Now.dest))
<1>1. "jump" \in Mnemonics /\ Now.addr \in Nat /\ Now.bytes \in Seq(0..255) /\ Now.dest \in Nat
  BY NowIs, MnemonicsAre DEF JumpLine, Take, Code, AtLine
<1>2. JumpWith(JumpAt(Now.addr, "jump", Now.bytes, Now.dest), "jump", Now.bytes, Now.dest)
  BY <1>1, JumpMade
<1> QED
  BY <1>2 DEF JumpLine, JumpTo

LEMMA TableAdded ==
  ASSUME LabelTypes, TableLine
  PROVE  /\ addr' = Now.addr + Len(Now.bytes) /\ addr' \in Nat
         /\ \E l, m : /\ PlainWith(l, "jmp", Now.bytes) /\ PlainWith(m, "nop", <<144>>)
                      /\ \/ /\ addr' % 2 = 0 /\ labelling' = "table" /\ lines' = Append(lines, l)
                         \/ /\ addr' % 2 = 1 /\ labelling' = "skip"
                            /\ lines' = Append(Append(lines, l), m)
<1> DEFINE behind == Now.addr + Len(Now.bytes)
           jmp == CodeAt(Now.addr, "jmp", Now.bytes)
           nop == CodeAt(behind, "nop", <<144>>)
<1>1. /\ "jmp" \in Mnemonics /\ Now.addr \in Nat /\ Now.bytes \in Seq(0..255) /\ Len(Now.bytes) \in Nat
  BY NowIs, MnemonicsAre DEF TableLine, Take, Code, AtLine
<1>2. behind \in Nat /\ (behind % 2 = 0 \/ behind % 2 = 1)
  <2>1. ASSUME NEW a \in Nat, NEW n \in Nat
        PROVE  a + n \in Nat /\ ((a + n) % 2 = 0 \/ (a + n) % 2 = 1)
    OBVIOUS
  <2> QED
    BY <1>1, <2>1
<1>3. <<144>> \in Seq(0..255) /\ "nop" \in Mnemonics
  <2>1. <<144>> \in Seq(0..255)
    OBVIOUS
  <2> QED
    BY <2>1, MnemonicsAre
<1>4. PlainWith(jmp, "jmp", Now.bytes)
  BY <1>1, CodeMade
<1>5. PlainWith(nop, "nop", <<144>>)
  <2> HIDE DEF behind
  <2> QED
    BY <1>2, <1>3, CodeMade
<1>6. lines \o <<jmp, nop>> = Append(Append(lines, jmp), nop)
  BY <1>4, <1>5, TwoMore DEF PlainWith, LabelTypes
<1>7. /\ addr' = behind
      /\ lines' = IF behind % 2 = 0 THEN Append(lines, jmp) ELSE lines \o <<jmp, nop>>
      /\ labelling' = IF behind % 2 = 0 THEN "table" ELSE "skip"
  BY DEF TableLine
<1> HIDE DEF behind, jmp, nop
<1>8. \/ /\ addr' % 2 = 0 /\ labelling' = "table" /\ lines' = Append(lines, jmp)
      \/ /\ addr' % 2 = 1 /\ labelling' = "skip" /\ lines' = Append(Append(lines, jmp), nop)
  BY <1>2, <1>6, <1>7
<1>9. addr' = Now.addr + Len(Now.bytes) /\ addr' \in Nat
  BY <1>2, <1>7 DEF behind
<1> QED
  BY <1>4, <1>5, <1>8, <1>9

LEMMA WordAdded ==
  ASSUME LabelTypes, ReadWord
  PROVE  \E l, d : /\ JumpWith(l, "dw", SubSeq(buf, 1, 2), d) /\ lines' = Append(lines, l)
                   /\ jumps' = Append(jumps, JumpTo(d)) /\ minAddr' = Min({minAddr, d})
<1> DEFINE word == buf[1] + 256 * buf[2]
<1>1. Len(buf) \in Nat /\ 2 <= Len(buf) /\ \A i \in 1..Len(buf) : buf[i] \in 0..255
  BY LenProperties, ElementOfSeq DEF ReadWord, LabelTypes
<1>2. buf[1] \in 0..255 /\ buf[2] \in 0..255 /\ \A i \in 1..2 : buf[i] \in 0..255
  BY <1>1
<1>3. word \in Nat
  <2>1. ASSUME NEW lo \in 0..255, NEW hi \in 0..255 PROVE lo + 256 * hi \in Nat
    OBVIOUS
  <2> QED
    BY <1>2, <2>1
<1>4. SubSeq(buf, 1, 2) \in Seq(0..255)
  BY <1>2, SubSeqProperties
<1>5. "dw" \in Mnemonics /\ addr \in Nat
  BY MnemonicsAre DEF LabelTypes
<1>6. JumpWith(JumpAt(addr, "dw", SubSeq(buf, 1, 2), word), "dw", SubSeq(buf, 1, 2), word)
  <2> HIDE DEF word
  <2> QED
    BY <1>3, <1>4, <1>5, JumpMade
<1> QED
  BY <1>6 DEF ReadWord, JumpTo

LEMMA LeftOverAdded ==
  ASSUME LabelTypes, TableEnd
  PROVE  \E l, m : /\ PlainWith(l, "", <<>>) /\ PlainWith(m, "db", buf)
                   /\ \/ buf = <<>> /\ lines' = Append(lines, l)
                      \/ buf # <<>> /\ lines' = Append(Append(lines, l), m)
<1>1. "db" \in Mnemonics /\ "" \in Mnemonics /\ <<>> \in Seq(0..255) /\ addr \in Nat /\ buf \in Seq(0..255)
      /\ lines \in Seq(OutLine)
  BY EmptySeq, MnemonicsAre DEF LabelTypes
<1>2. PlainWith(TextAt(addr), "", <<>>) /\ PlainWith(CodeAt(addr, "db", buf), "db", buf)
  BY <1>1, TextMade, CodeMade
<1>3. /\ lines \o <<TextAt(addr)>> = Append(lines, TextAt(addr))
      /\ lines \o <<TextAt(addr), CodeAt(addr, "db", buf)>>
           = Append(Append(lines, TextAt(addr)), CodeAt(addr, "db", buf))
  <2>1. TextAt(addr) \in OutLine /\ CodeAt(addr, "db", buf) \in OutLine
    BY <1>2 DEF PlainWith
  <2>2. ASSUME NEW l \in OutLine, NEW m \in OutLine
        PROVE  lines \o <<l>> = Append(lines, l) /\ lines \o <<l, m>> = Append(Append(lines, l), m)
    <3>1. lines \in Seq(OutLine)
      BY <1>1
    <3>2. lines \o <<l>> = Append(lines, l)
      BY <3>1, AppendIsConcat, Zenon
    <3>3. lines \o <<l, m>> = Append(Append(lines, l), m)
      BY <3>1, SMT
    <3> QED
      BY <3>2, <3>3
  <2> QED
    BY <2>1, <2>2, Zenon
<1>4. lines' = IF buf = <<>> THEN lines \o <<TextAt(addr)>>
               ELSE lines \o <<TextAt(addr), CodeAt(addr, "db", buf)>>
  BY DEF TableEnd, LeftOver
<1> QED
  BY <1>2, <1>3, <1>4

LEMMA HighestIs == Highest \in Nat
BY SMT DEF Highest

LEMMA TypesStart == ASSUME LabelInit PROVE LabelTypes
<1>1. Len(listing.lines) \in Nat
  BY ListingsAssumption, LenProperties DEF LabelInit
<1>2. lines = <<>> /\ jumps = <<>> /\ buf = <<>> /\ functions = <<>>
  BY DEF LabelInit
<1>3. lines \in Seq(OutLine) /\ jumps \in Seq(JumpSet) /\ buf \in Seq(0..255) /\ functions \in Seq(Seq(OutLine))
  BY <1>2, EmptySeq
<1> QED
  <2>1. next = 1 /\ next \in 1..(Len(listing.lines) + 1)
    BY <1>1 DEF LabelInit
  <2>2. minAddr \in Nat
    BY HighestIs DEF LabelInit
  <2> QED
    BY <1>3, <2>1, <2>2 DEF LabelInit, LabelTypes

\* Every step keeps the types.
LEMMA TypesKept ==
  ASSUME LabelTypes, InStep(lines, jumps), LabelNext
  PROVE  LabelTypes'
<1>1. Len(listing.lines) \in Nat
  BY ListingIs
<1>2. listing' = listing
  BY DEF LabelNext, TextLine, BelowStart, NewFunction, StopAtNext, PlainLine, JumpLine, BadJump,
         EndOfListing, TableLine, SkipByte, readline, TableCut, ReadWord, TableEnd, FinishLabel,
         InListing, InTableLoop
<1>3. ASSUME NEW l \in OutLine
      PROVE  Append(lines, l) \in Seq(OutLine)
             /\ \A m \in OutLine : Append(Append(lines, l), m) \in Seq(OutLine)
  BY AppendIs DEF LabelTypes
<1>4. ASSUME NEW d \in Nat PROVE Append(jumps, JumpTo(d)) \in Seq(JumpSet)
  <2>1. Len(lines) \in Nat /\ jumps \in Seq(JumpSet)
    BY LenProperties DEF LabelTypes
  <2>2. JumpTo(d) \in JumpSet
    BY <2>1 DEF JumpTo, JumpSet
  <2> QED
    BY <2>1, <2>2, AppendIs
<1>5. Append(functions, drain(lines, jumps)) \in Seq(Seq(OutLine))
  <2>1. drain(lines, jumps) \in Seq(OutLine)
    BY DrainType DEF LabelTypes
  <2> QED
    BY <2>1, AppendIs DEF LabelTypes
<1>6. ASSUME Code, Consume PROVE next' \in 1..(Len(listing.lines) + 1) /\ lastAddr' \in Nat
  BY <1>6, NowIs DEF Code, AtLine, Consume
<1>7. CASE TextLine
  <2>1. lines' \in Seq(OutLine)
    BY <1>3, <1>7, TextAdded DEF PlainWith
  <2>2. next' \in 1..(Len(listing.lines) + 1)
    BY <1>7, NowIs DEF TextLine, AtLine
  <2> QED
    BY <1>2, <1>7, <2>1, <2>2 DEF TextLine, LabelTypes, InListing, tableVars
<1>8. CASE BelowStart
  <2>1. lines' \in Seq(OutLine)
    BY <1>8, EmptySeq DEF BelowStart
  <2> QED
    BY <1>2, <1>6, <1>8, <2>1 DEF BelowStart, LabelTypes, InListing, tableVars
<1>9. CASE NewFunction
  <2>1. lines' \in Seq(OutLine) /\ jumps' \in Seq(JumpSet)
    BY <1>9, EmptySeq DEF NewFunction
  <2> QED
    BY <1>2, <1>5, <1>9, <2>1 DEF NewFunction, LabelTypes, tableVars
<1>10. CASE StopAtNext
  <2>1. lastAddr' \in Nat
    BY <1>10, NowIs DEF StopAtNext, Code, AtLine
  <2> QED
    BY <1>2, <1>10, <2>1 DEF StopAtNext, LabelTypes, tableVars
<1>11. CASE PlainLine
  <2>1. lines' \in Seq(OutLine)
    BY <1>3, <1>11, LineAdded DEF PlainWith
  <2>2. breaking' \in BOOLEAN
    BY <1>11 DEF PlainLine, Breaks
  <2> QED
    BY <1>2, <1>6, <1>11, <2>1, <2>2 DEF PlainLine, Take, LabelTypes, InListing, tableVars
<1>12. CASE JumpLine
  <2>1. lines' \in Seq(OutLine) /\ jumps' \in Seq(JumpSet)
    BY <1>3, <1>4, <1>12, JumpLineAdded DEF JumpWith
  <2> QED
    BY <1>2, <1>6, <1>12, <2>1 DEF JumpLine, Take, LabelTypes, InListing, tableVars
<1>13. CASE BadJump
  BY <1>2, <1>6, <1>13 DEF BadJump, Take, LabelTypes, InListing, tableVars
<1>14. CASE EndOfListing
  BY <1>2, <1>14 DEF EndOfListing, LabelTypes, tableVars
<1>15. CASE TableLine
  <2>1. lines' \in Seq(OutLine) /\ labelling' \in {"table", "skip"} /\ addr' \in Nat
    BY <1>3, <1>15, TableAdded DEF PlainWith
  <2>2. minAddr' \in Nat /\ buf' \in Seq(0..255)
    BY <1>15, EmptySeq, HighestIs DEF TableLine
  <2> QED
    BY <1>2, <1>6, <1>15, <2>1, <2>2 DEF TableLine, Take, LabelTypes
<1>16. CASE SkipByte
  <2>1. next' \in 1..(Len(listing.lines) + 1)
    BY <1>16, NowIs DEF SkipByte, LabelTypes
  <2>2. buf' \in Seq(0..255)
    <3>1. ASSUME MoreCode PROVE Tail(Now.bytes) \in Seq(0..255)
      <4>1. Now.bytes # <<>> /\ Now.bytes \in Seq(0..255)
        BY <3>1, NowIs DEF MoreCode
      <4> QED
        BY <4>1, HeadTailProperties
    <3> QED
      BY <1>16, <3>1, EmptySeq DEF SkipByte
  <2>3. addr' \in Nat
    BY <1>16 DEF SkipByte, LabelTypes
  <2> QED
    BY <1>2, <1>16, <2>1, <2>2, <2>3 DEF SkipByte, LabelTypes, InTableLoop
<1>17. CASE readline
  <2>1. next' \in 1..(Len(listing.lines) + 1) /\ Now.bytes \in Seq(0..255)
    BY <1>17, NowIs DEF readline, MoreCode
  <2>2. buf' \in Seq(0..255)
    BY <1>17, <2>1, ConcatProperties DEF readline, LabelTypes
  <2> QED
    BY <1>2, <1>17, <2>1, <2>2 DEF readline, LabelTypes, InTableLoop
<1>18. CASE TableCut
  BY <1>2, <1>18 DEF TableCut, LabelTypes, InTableLoop, tableVars
<1>19. CASE ReadWord
  <2>1. PICK l, d : /\ JumpWith(l, "dw", SubSeq(buf, 1, 2), d) /\ lines' = Append(lines, l)
                    /\ jumps' = Append(jumps, JumpTo(d)) /\ minAddr' = Min({minAddr, d})
    BY <1>19, WordAdded
  <2>2. lines' \in Seq(OutLine) /\ jumps' \in Seq(JumpSet) /\ d \in Nat
    BY <1>3, <1>4, <2>1 DEF JumpWith
  <2>3. minAddr' \in Nat
    <3>1. {minAddr, d} \in SUBSET Nat
      BY <2>2 DEF LabelTypes
    <3>2. Min({minAddr, d}) \in {minAddr, d}
      BY <3>1, FirstIn
    <3> QED
      BY <2>1, <3>1, <3>2
  <2>4. buf' \in Seq(0..255) /\ addr' \in Nat
    <3>1. Len(buf) \in Nat /\ \A i \in 1..Len(buf) : buf[i] \in 0..255
      BY LenProperties, ElementOfSeq DEF LabelTypes
    <3>2. \A i \in 3..Len(buf) : buf[i] \in 0..255
      BY <3>1
    <3>3. SubSeq(buf, 3, Len(buf)) \in Seq(0..255)
      BY <3>1, <3>2, SubSeqProperties
    <3> QED
      BY <1>19, <3>3 DEF ReadWord, LabelTypes
  <2> QED
    BY <1>2, <1>19, <2>2, <2>3, <2>4 DEF ReadWord, LabelTypes, InTableLoop
<1>20. CASE TableEnd
  <2>1. lines' \in Seq(OutLine)
    BY <1>3, <1>20, LeftOverAdded DEF PlainWith
  <2> QED
    BY <1>2, <1>20, <2>1 DEF TableEnd, LabelTypes, InTableLoop, tableVars
<1>21. CASE FinishLabel
  BY <1>2, <1>5, <1>21 DEF FinishLabel, LabelTypes, tableVars
<1> QED
  BY <1>7, <1>8, <1>9, <1>10, <1>11, <1>12, <1>13, <1>14, <1>15, <1>16, <1>17, <1>18, <1>19,
     <1>20, <1>21 DEF LabelNext

-----------------------------------------------------------------------------
(***************************************************************************)
(* The lists are in step, and nothing below the start follows what has     *)
(* been kept.                                                              *)
(***************************************************************************)
\* What appending a line does to the lists.
LEMMA PlainAdded ==
  ASSUME NEW ls \in Seq(OutLine), NEW js \in Seq(JumpSet), InStep(ls, js),
         NEW l \in OutLine, ~l.IsJump
  PROVE  InStep(Append(ls, l), js)
<1>1. /\ Len(ls) \in Nat /\ DOMAIN ls = 1..Len(ls)
      /\ DOMAIN Append(ls, l) = 1..(Len(ls) + 1)
      /\ \A i \in DOMAIN ls : Append(ls, l)[i] = ls[i]
      /\ Append(ls, l)[Len(ls) + 1] = l
  BY AppendIs
<1>2. \A i \in DOMAIN Append(ls, l) : i \in DOMAIN ls \/ i = Len(ls) + 1
  BY <1>1
<1>3. \A i \in DOMAIN ls : i \in DOMAIN Append(ls, l)
  BY <1>1
<1> QED
  BY <1>1, <1>2, <1>3 DEF InStep

LEMMA JumpAdded ==
  ASSUME NEW ls \in Seq(OutLine), NEW js \in Seq(JumpSet), InStep(ls, js),
         NEW l \in OutLine, l.IsJump
  PROVE  InStep(Append(ls, l), Append(js, [Dest |-> l.JumpDest, Line |-> Len(ls) + 1]))
<1> DEFINE j == [Dest |-> l.JumpDest, Line |-> Len(ls) + 1]
           ls1 == Append(ls, l)
           js1 == Append(js, j)
<1>1. /\ Len(ls) \in Nat /\ DOMAIN ls = 1..Len(ls)
      /\ DOMAIN ls1 = 1..(Len(ls) + 1)
      /\ \A i \in DOMAIN ls : ls1[i] = ls[i]
      /\ ls1[Len(ls) + 1] = l
  BY AppendIs
<1>2. j.Dest = l.JumpDest /\ j.Line = Len(ls) + 1 /\ j \in JumpSet
  BY <1>1 DEF JumpSet, OutLine
<1>3. /\ Len(js) \in Nat /\ DOMAIN js = 1..Len(js)
      /\ DOMAIN js1 = 1..(Len(js) + 1)
      /\ \A k \in DOMAIN js : js1[k] = js[k]
      /\ js1[Len(js) + 1] = j
  BY <1>2, AppendIs
<1>4. /\ \A i \in DOMAIN ls1 : i \in DOMAIN ls \/ i = Len(ls) + 1
      /\ \A i \in DOMAIN ls : i \in DOMAIN ls1
      /\ Len(ls) + 1 \in DOMAIN ls1
  BY <1>1
<1>5. /\ \A k \in DOMAIN js1 : k \in DOMAIN js \/ k = Len(js) + 1
      /\ \A k \in DOMAIN js : k \in DOMAIN js1
      /\ Len(js) + 1 \in DOMAIN js1
  BY <1>3
<1> HIDE DEF j, ls1, js1
<1>6. ASSUME NEW k \in DOMAIN js1
      PROVE  /\ js1[k].Line \in DOMAIN ls1 /\ ls1[js1[k].Line].IsJump
             /\ ls1[js1[k].Line].JumpDest = js1[k].Dest
  BY <1>1, <1>2, <1>3, <1>4, <1>5 DEF InStep
<1>7. ASSUME NEW i \in DOMAIN ls1, ls1[i].IsJump PROVE \E k \in DOMAIN js1 : js1[k].Line = i
  BY <1>1, <1>2, <1>3, <1>4, <1>5, <1>7 DEF InStep
<1>8. InStep(ls1, js1)
  BY <1>6, <1>7 DEF InStep
<1> QED
  BY <1>8 DEF j, ls1, js1

\* Whether a return is among the lines, and last, after one more line.
LEMMA EndedThen ==
  ASSUME NEW ls \in Seq(OutLine), NEW l \in OutLine
  PROVE  /\ Ended(Append(ls, l)) <=> Ended(ls) \/ l.Mnemonic = "retf"
         /\ EndsOnce(ls) /\ (~Ended(ls) \/ l.Mnemonic \in {"", "nop"}) => EndsOnce(Append(ls, l))
         /\ Append(ls, l) # <<>>
         /\ Append(ls, l)[1] = IF ls = <<>> THEN l ELSE ls[1]
<1> DEFINE ls1 == Append(ls, l)
<1>1. /\ Len(ls) \in Nat /\ DOMAIN ls = 1..Len(ls)
      /\ DOMAIN ls1 = 1..(Len(ls) + 1)
      /\ \A i \in DOMAIN ls : ls1[i] = ls[i]
      /\ ls1[Len(ls) + 1] = l /\ ls1 # <<>>
  BY AppendIs
<1>2. /\ \A i \in DOMAIN ls1 : i \in DOMAIN ls \/ i = Len(ls) + 1
      /\ \A i \in DOMAIN ls : i \in DOMAIN ls1
      /\ Len(ls) + 1 \in DOMAIN ls1
  BY <1>1
<1>3. ls = <<>> <=> Len(ls) = 0
  BY EmptySeq
<1> HIDE DEF ls1
<1>4. Ended(ls1) <=> Ended(ls) \/ l.Mnemonic = "retf"
  BY <1>1, <1>2 DEF Ended
<1>5. ASSUME EndsOnce(ls), ~Ended(ls) \/ l.Mnemonic \in {"", "nop"}
      PROVE  EndsOnce(ls1)
  <2> SUFFICES ASSUME NEW i \in DOMAIN ls1, NEW k \in DOMAIN ls1,
                      ls1[i].Mnemonic = "retf", i < k
               PROVE  ls1[k].Mnemonic \in {"", "nop"}
    BY DEF EndsOnce
  <2>1. i \in DOMAIN ls
    BY <1>1, <1>2
  <2>2. Ended(ls) /\ ls[i].Mnemonic = "retf"
    BY <1>1, <2>1 DEF Ended
  <2>3. CASE k \in DOMAIN ls
    BY <1>1, <1>5, <2>1, <2>2, <2>3 DEF EndsOnce
  <2>4. CASE k = Len(ls) + 1
    BY <1>1, <1>5, <2>2, <2>4
  <2> QED
    BY <1>2, <2>3, <2>4
<1>6. ls1[1] = IF ls = <<>> THEN l ELSE ls[1]
  BY <1>1, <1>3
<1> QED
  BY <1>1, <1>4, <1>5, <1>6 DEF ls1

\* drain neither makes nor hides a return.
LEMMA DrainEnds ==
  ASSUME NEW ls \in Seq(OutLine), NEW js \in Seq(JumpSet)
  PROVE  /\ Ended(drain(ls, js)) <=> Ended(ls)
         /\ EndsOnce(ls) => EndsOnce(drain(ls, js))
         /\ ls # <<>> => drain(ls, js) # <<>> /\ drain(ls, js)[1].Mnemonic = ls[1].Mnemonic
<1>1. DOMAIN drain(ls, js) = DOMAIN ls /\ Len(drain(ls, js)) = Len(ls)
  BY DrainIs
<1>2. \A i \in DOMAIN ls : drain(ls, js)[i].Mnemonic = ls[i].Mnemonic
  BY DrainIs
<1>3. Ended(drain(ls, js)) <=> Ended(ls)
  BY <1>1, <1>2 DEF Ended
<1>4. EndsOnce(ls) => EndsOnce(drain(ls, js))
  BY <1>1, <1>2 DEF EndsOnce
<1>5. ASSUME ls # <<>> PROVE drain(ls, js) # <<>> /\ 1 \in DOMAIN ls
  <2>1. Len(ls) \in Nat \ {0} /\ DOMAIN ls = 1..Len(ls)
    BY <1>5, EmptySeq
  <2>2. Len(drain(ls, js)) # 0
    BY <1>1, <2>1
  <2> QED
    BY <2>1, <2>2
<1> QED
  BY <1>2, <1>3, <1>4, <1>5

\* Where label is with respect to the start address.
Underway == (functions # <<>> /\ labelling # "done") \/ jumps # <<>> \/ breaking
              \/ labelling \in {"skip", "table"}
AheadInv ==
  /\ Underway => lastAddr >= listing.start
  /\ \A i \in next..Len(listing.lines) :
       listing.lines[i].kind # "text" => lastAddr <= listing.lines[i].addr

\* So code below the start can only come before anything is kept.
LEMMA Ascending ==
  ASSUME LabelTypes, AheadInv, next <= Len(listing.lines), Now.kind # "text"
  PROVE  /\ lastAddr <= Now.addr /\ Now.addr \in Nat
         /\ Low => ~Underway
         /\ \A i \in next..Len(listing.lines) :
              listing.lines[i].kind # "text" => Now.addr <= listing.lines[i].addr
         /\ next + 1 \in Nat
<1>1. /\ Len(listing.lines) \in Nat /\ DOMAIN listing.lines = 1..Len(listing.lines)
      /\ next \in DOMAIN listing.lines /\ Now \in ListingLine /\ next \in Nat
      /\ listing.start \in Nat
  BY ListingIs
<1>2. Now.addr \in Nat
  BY <1>1 DEF ListingLine
<1>3. lastAddr <= Now.addr
  <2>1. next \in next..Len(listing.lines)
    BY <1>1
  <2> QED
    BY <2>1 DEF AheadInv, Now
<1>4. ASSUME NEW i \in next..Len(listing.lines), listing.lines[i].kind # "text"
      PROVE  Now.addr <= listing.lines[i].addr
  <2>1. CASE i = next
    BY <1>2, <2>1 DEF Now
  <2>2. CASE i # next
    <3>1. i \in DOMAIN listing.lines /\ next < i
      BY <1>1, <2>2
    <3> QED
      BY <1>1, <1>4, <3>1, ListingsAssumption DEF LabelTypes, Now
  <2> QED
    BY <2>1, <2>2
<1>5. Low => ~Underway
  BY <1>1, <1>2, <1>3 DEF Low, AheadInv, LabelTypes
<1> QED
  BY <1>1, <1>2, <1>3, <1>4, <1>5

LEMMA AheadKept ==
  ASSUME LabelTypes, AheadInv, LabelNext
  PROVE  AheadInv'
<1> DEFINE Later(n, a) == \A i \in n..Len(listing.lines) :
                            listing.lines[i].kind # "text" => a <= listing.lines[i].addr
<1>1. listing' = listing
  BY DEF LabelNext, TextLine, BelowStart, NewFunction, StopAtNext, PlainLine, JumpLine, BadJump,
         EndOfListing, TableLine, SkipByte, readline, TableCut, ReadWord, TableEnd, FinishLabel,
         InListing, InTableLoop
<1>2. Later(next, lastAddr) /\ next \in Nat /\ Len(listing.lines) \in Nat /\ listing.start \in Nat
  BY ListingIs, SMTT(20) DEF AheadInv, LabelTypes
<1>3. ASSUME NEW a, Later(next, a) PROVE Later(next + 1, a)
  <2>1. \A i \in (next + 1)..Len(listing.lines) : i \in next..Len(listing.lines)
    BY <1>2
  <2> QED
    BY <1>3, <2>1
<1>4. ASSUME Code
      PROVE  /\ Later(next, Now.addr) /\ Later(next + 1, Now.addr)
             /\ Low => ~Underway
             /\ ~Low => Now.addr >= listing.start
  <2>1. next <= Len(listing.lines) /\ Now.kind # "text"
    BY <1>4 DEF Code, AtLine
  <2>2. Later(next, Now.addr) /\ (Low => ~Underway) /\ Now.addr \in Nat
    BY <2>1, Ascending
  <2>3. ~Low => Now.addr >= listing.start
    BY <1>2, <2>2 DEF Low
  <2> QED
    BY <1>3, <2>2, <2>3
<1>5. ASSUME next' = next \/ next' = next + 1, lastAddr' = lastAddr PROVE Later(next', lastAddr')
  BY <1>2, <1>3, <1>5
<1> HIDE DEF Later
<1>6. ASSUME Later(next', lastAddr'), Underway' => lastAddr' >= listing.start
      PROVE  AheadInv'
  BY <1>1, <1>6 DEF AheadInv, Later
<1>7. CASE Take /\ Consume
  <2>1. Later(next', lastAddr') /\ lastAddr' >= listing.start
    BY <1>4, <1>7 DEF Take, Consume
  <2> QED
    BY <1>6, <2>1
<1>8. CASE PlainLine \/ JumpLine \/ BadJump \/ TableLine
  BY <1>7, <1>8 DEF PlainLine, JumpLine, BadJump, TableLine
<1>9. CASE TextLine
  BY <1>5, <1>6, <1>9 DEF TextLine, InListing, AheadInv, Underway
<1>10. CASE BelowStart
  <2>1. Later(next', lastAddr') /\ ~Underway
    BY <1>4, <1>10 DEF BelowStart, Consume
  <2>2. ~Underway'
    BY <1>10, <2>1 DEF BelowStart, InListing, Underway
  <2> QED
    BY <1>6, <2>1, <2>2
<1>11. CASE NewFunction
  <2>1. breaking /\ lastAddr >= listing.start
    BY <1>11 DEF NewFunction, Ripe, AheadInv, Underway
  <2> QED
    BY <1>5, <1>6, <1>11, <2>1 DEF NewFunction
<1>12. CASE StopAtNext
  <2>1. Later(next', lastAddr') /\ lastAddr' >= listing.start
    BY <1>4, <1>12 DEF StopAtNext
  <2> QED
    BY <1>6, <2>1
<1>13. CASE EndOfListing
  BY <1>5, <1>6, <1>13 DEF EndOfListing, AheadInv, Underway
<1>14. CASE SkipByte \/ readline \/ TableCut \/ ReadWord \/ TableEnd
  <2>1. labelling \in {"skip", "table"} /\ lastAddr' = lastAddr /\ (next' = next \/ next' = next + 1)
    BY <1>14 DEF SkipByte, readline, TableCut, ReadWord, TableEnd, TableReads, InTableLoop
  <2>2. lastAddr >= listing.start
    BY <2>1 DEF AheadInv, Underway
  <2> QED
    BY <1>5, <1>6, <2>1, <2>2
<1>15. CASE FinishLabel
  <2>1. Underway' => Underway
    BY <1>15 DEF FinishLabel, Underway
  <2> QED
    BY <1>5, <1>6, <1>15, <2>1 DEF FinishLabel, AheadInv
<1> QED
  BY <1>8, <1>9, <1>10, <1>11, <1>12, <1>13, <1>14, <1>15 DEF LabelNext

LEMMA ListsKept ==
  ASSUME LabelTypes, InStep(lines, jumps), AheadInv, LabelNext
  PROVE  InStep(lines', jumps')
<1>1. lines \in Seq(OutLine) /\ jumps \in Seq(JumpSet)
  BY DEF LabelTypes
<1>2. InStep(<<>>, <<>>)
  BY DEF InStep
<1>3. ASSUME NEW l \in OutLine, ~l.IsJump, lines' = Append(lines, l), jumps' = jumps
      PROVE  InStep(lines', jumps')
  BY <1>1, <1>3, PlainAdded
<1>4. ASSUME NEW l \in OutLine, NEW m \in OutLine, ~l.IsJump, ~m.IsJump,
             lines' = Append(Append(lines, l), m), jumps' = jumps
      PROVE  InStep(lines', jumps')
  <2>1. InStep(Append(lines, l), jumps) /\ Append(lines, l) \in Seq(OutLine)
    BY <1>1, <1>4, PlainAdded, AppendIs
  <2> QED
    BY <1>1, <1>4, <2>1, PlainAdded
<1>5. ASSUME NEW l, NEW m, NEW b, NEW d, JumpWith(l, m, b, d), lines' = Append(lines, l),
             jumps' = Append(jumps, JumpTo(d))
      PROVE  InStep(lines', jumps')
  BY <1>1, <1>5, JumpAdded DEF JumpWith, JumpTo
<1>6. CASE TextLine
  BY <1>3, <1>6, TextAdded DEF TextLine, PlainWith
<1>7. CASE BelowStart
  <2>1. next <= Len(listing.lines) /\ Now.kind # "text" /\ Low
    BY <1>7 DEF BelowStart, Code, AtLine
  <2>2. jumps = <<>>
    BY <2>1, Ascending DEF Underway
  <2> QED
    BY <1>2, <1>7, <2>2 DEF BelowStart
<1>8. CASE NewFunction
  BY <1>2, <1>8 DEF NewFunction
<1>9. CASE StopAtNext \/ BadJump \/ EndOfListing \/ SkipByte \/ readline \/ TableCut \/ FinishLabel
  <2>1. lines' = lines /\ jumps' = jumps
    BY <1>9 DEF StopAtNext, BadJump, EndOfListing, SkipByte, readline, TableCut, FinishLabel
  <2> QED
    BY <2>1
<1>10. CASE PlainLine
  BY <1>3, <1>10, LineAdded DEF PlainLine, PlainWith
<1>11. CASE JumpLine
  BY <1>5, <1>11, JumpLineAdded
<1>12. CASE TableLine
  <2>1. jumps' = jumps
    BY <1>12 DEF TableLine
  <2> QED
    BY <1>3, <1>4, <1>12, <2>1, TableAdded DEF PlainWith
<1>13. CASE ReadWord
  BY <1>5, <1>13, WordAdded
<1>14. CASE TableEnd
  <2>1. jumps' = jumps
    BY <1>14 DEF TableEnd
  <2> QED
    BY <1>3, <1>4, <1>14, <2>1, LeftOverAdded DEF PlainWith
<1> QED
  BY <1>6, <1>7, <1>8, <1>9, <1>10, <1>11, <1>12, <1>13, <1>14 DEF LabelNext

-----------------------------------------------------------------------------
(***************************************************************************)
(* Functions and their returns.                                            *)
(***************************************************************************)
\* breaking says that a return is among the lines.
RetInv ==
  /\ breaking => Split
  /\ Split => (breaking <=> Ended(lines)) /\ EndsOnce(lines)
  /\ labelling \in {"skip", "table"} => ~breaking /\ lines # <<>>

LEMMA RetKept ==
  ASSUME LabelTypes, AheadInv, RetInv, LabelNext
  PROVE  RetInv'
<1>1. lines \in Seq(OutLine) /\ breaking \in BOOLEAN
  BY DEF LabelTypes
<1>2. listing' = listing /\ (Split' <=> Split)
  BY DEF LabelNext, TextLine, BelowStart, NewFunction, StopAtNext, PlainLine, JumpLine, BadJump,
         EndOfListing, TableLine, SkipByte, readline, TableCut, ReadWord, TableEnd, FinishLabel,
         InListing, InTableLoop, Split
<1>3. ~Ended(<<>>) /\ EndsOnce(<<>>)
  BY DEF Ended, EndsOnce
<1>4. ASSUME NEW l \in OutLine, lines' = Append(lines, l),
             breaking' <=> breaking \/ (Split /\ l.Mnemonic = "retf"),
             breaking => l.Mnemonic \in {"", "nop"},
             labelling' \in {"skip", "table"} => ~breaking'
      PROVE  RetInv'
  <2>1. /\ Ended(lines') <=> Ended(lines) \/ l.Mnemonic = "retf"
        /\ EndsOnce(lines) /\ (~Ended(lines) \/ l.Mnemonic \in {"", "nop"}) => EndsOnce(lines')
        /\ lines' # <<>>
    BY <1>1, <1>4, EndedThen
  <2> QED
    BY <1>1, <1>2, <1>4, <2>1 DEF RetInv
<1>5. ASSUME NEW l \in OutLine, NEW m \in OutLine, lines' = Append(Append(lines, l), m),
             breaking' = breaking, ~breaking,
             l.Mnemonic # "retf", m.Mnemonic # "retf"
      PROVE  RetInv'
  <2>1. /\ Ended(Append(lines, l)) <=> Ended(lines)
        /\ EndsOnce(lines) /\ ~Ended(lines) => EndsOnce(Append(lines, l))
        /\ Append(lines, l) \in Seq(OutLine)
    BY <1>1, <1>5, EndedThen, AppendIs
  <2>2. /\ Ended(lines') <=> Ended(Append(lines, l))
        /\ EndsOnce(Append(lines, l)) /\ ~Ended(Append(lines, l)) => EndsOnce(lines')
        /\ lines' # <<>>
    BY <1>5, <2>1, EndedThen
  <2> QED
    BY <1>1, <1>2, <1>5, <2>1, <2>2 DEF RetInv
<1>6. ASSUME lines' = lines, breaking' = breaking,
             labelling' \in {"skip", "table"} => labelling \in {"skip", "table"}
      PROVE  RetInv'
  BY <1>2, <1>6 DEF RetInv
<1>7. ASSUME lines' = <<>>, ~breaking', labelling' \notin {"skip", "table"} PROVE RetInv'
  BY <1>2, <1>3, <1>7 DEF RetInv
<1>8. CASE TextLine
  <2>1. PICK l : PlainWith(l, "", <<>>) /\ lines' = Append(lines, l)
    BY <1>8, TextAdded
  <2> QED
    BY <1>1, <1>4, <1>8, <2>1 DEF TextLine, AtLine, InListing, PlainWith
<1>9. CASE BelowStart
  <2>1. next <= Len(listing.lines) /\ Now.kind # "text" /\ Low /\ labelling = "top"
    BY <1>9 DEF BelowStart, Code, AtLine
  <2>2. ~breaking
    BY <2>1, Ascending DEF Underway
  <2> QED
    BY <1>7, <1>9, <2>1, <2>2 DEF BelowStart, InListing
<1>10. CASE NewFunction
  BY <1>7, <1>10 DEF NewFunction, Code, AtLine
<1>11. CASE StopAtNext \/ BadJump \/ EndOfListing \/ SkipByte \/ readline \/ TableCut \/ FinishLabel
  <2>1. lines' = lines /\ breaking' = breaking
    BY <1>11 DEF StopAtNext, BadJump, EndOfListing, SkipByte, readline, TableCut, FinishLabel,
                 InTableLoop
  <2>2. labelling' \in {"skip", "table"} => labelling \in {"skip", "table"}
    BY <1>11 DEF StopAtNext, BadJump, EndOfListing, SkipByte, readline, TableCut, FinishLabel,
                 InListing
  <2> QED
    BY <1>6, <2>1, <2>2
<1>12. CASE PlainLine
  <2>1. PICK l : PlainWith(l, Now.kind, Now.bytes) /\ lines' = Append(lines, l)
    BY <1>12, LineAdded
  <2>2. breaking => l.Mnemonic \in {"", "nop"}
    BY <1>12, <2>1 DEF PlainLine, Take, Ripe, PlainWith
  <2>3. (breaking' <=> breaking \/ (Split /\ l.Mnemonic = "retf")) /\ labelling' = "top"
    BY <1>12, <2>1 DEF PlainLine, Take, Code, AtLine, InListing, Breaks, PlainWith
  <2> QED
    BY <1>4, <2>1, <2>2, <2>3 DEF PlainWith
<1>13. CASE JumpLine
  <2>1. PICK l : JumpWith(l, "jump", Now.bytes, Now.dest) /\ lines' = Append(lines, l)
    BY <1>13, JumpLineAdded
  <2>2. ~breaking /\ breaking' = breaking /\ labelling' = "top"
    BY <1>13 DEF JumpLine, Take, Ripe, Code, AtLine, InListing
  <2> QED
    BY <1>4, <2>1, <2>2 DEF JumpWith
<1>14. CASE TableLine
  <2>1. ~breaking /\ breaking' = breaking
    BY <1>14 DEF TableLine, Take, Ripe
  <2>2. PICK l, m : /\ PlainWith(l, "jmp", Now.bytes) /\ PlainWith(m, "nop", <<144>>)
                    /\ lines' = Append(lines, l) \/ lines' = Append(Append(lines, l), m)
    BY <1>14, TableAdded
  <2> QED
    BY <1>4, <1>5, <2>1, <2>2 DEF PlainWith
<1>15. CASE ReadWord
  <2>1. PICK l, d : JumpWith(l, "dw", SubSeq(buf, 1, 2), d) /\ lines' = Append(lines, l)
    BY <1>15, WordAdded
  <2>2. ~breaking /\ breaking' = breaking
    BY <1>15 DEF ReadWord, TableReads, InTableLoop, RetInv
  <2> QED
    BY <1>4, <2>1, <2>2 DEF JumpWith
<1>16. CASE TableEnd
  <2>1. ~breaking /\ breaking' = breaking
    BY <1>16 DEF TableEnd, InTableLoop, RetInv
  <2>2. PICK l, m : /\ PlainWith(l, "", <<>>) /\ PlainWith(m, "db", buf)
                    /\ lines' = Append(lines, l) \/ lines' = Append(Append(lines, l), m)
    BY <1>16, LeftOverAdded
  <2> QED
    BY <1>4, <1>5, <2>1, <2>2 DEF PlainWith
<1> QED
  BY <1>8, <1>9, <1>10, <1>11, <1>12, <1>13, <1>14, <1>15, <1>16 DEF LabelNext

\* With -many, how the functions begin and end.
FirstInv ==
  listing.mode = "many" /\ functions # <<>> /\ errorsSeen = 0 /\ labelling # "done" =>
    IF lines = <<>> THEN AtLine /\ Now.kind \notin {"text", "nop"}
    ELSE lines[1].Mnemonic # "nop"
PartsInv ==
  listing.mode = "many" =>
    \A n \in DOMAIN functions :
      /\ n < Len(functions) \/ labelling # "done" => Ended(functions[n])
      /\ n > 1 => errorsSeen > 0 \/ (functions[n] # <<>> /\ functions[n][1].Mnemonic # "nop")
      /\ EndsOnce(functions[n])

LEMMA FirstKept ==
  ASSUME LabelTypes, AheadInv, RetInv, FirstInv, LabelNext
  PROVE  FirstInv'
<1>1. lines \in Seq(OutLine) /\ errorsSeen \in Nat
  BY DEF LabelTypes
<1>2. listing' = listing
  BY DEF LabelNext, TextLine, BelowStart, NewFunction, StopAtNext, PlainLine, JumpLine, BadJump,
         EndOfListing, TableLine, SkipByte, readline, TableCut, ReadWord, TableEnd, FinishLabel,
         InListing, InTableLoop
<1> DEFINE Many == listing.mode = "many" /\ functions # <<>> /\ errorsSeen = 0
<1>3. ASSUME NEW l \in OutLine, lines' = Append(lines, l), Many' => Many,
             labelling # "done",
             Many /\ lines = <<>> => l.Mnemonic # "nop"
      PROVE  FirstInv'
  <2>1. lines' # <<>> /\ lines'[1] = IF lines = <<>> THEN l ELSE lines[1]
    BY <1>1, <1>3, EndedThen
  <2> QED
    BY <1>3, <2>1 DEF FirstInv
<1>4. ASSUME NEW l \in OutLine, NEW m \in OutLine, lines' = Append(Append(lines, l), m),
             Many' => Many, labelling # "done",
             Many /\ lines = <<>> => l.Mnemonic # "nop"
      PROVE  FirstInv'
  <2>1. /\ Append(lines, l) # <<>> /\ Append(lines, l)[1] = IF lines = <<>> THEN l ELSE lines[1]
        /\ Append(lines, l) \in Seq(OutLine)
    BY <1>1, EndedThen, AppendIs
  <2>2. lines' # <<>> /\ lines'[1] = Append(lines, l)[1]
    BY <1>4, <2>1, EndedThen
  <2> QED
    BY <1>4, <2>1, <2>2 DEF FirstInv
<1>5. ASSUME Many' => Many /\ labelling # "done" /\ lines # <<>>, lines' = lines
      PROVE  FirstInv'
  BY <1>5 DEF FirstInv
<1>6. CASE TextLine
  <2>1. PICK l : PlainWith(l, "", <<>>) /\ lines' = Append(lines, l)
    BY <1>6, TextAdded
  <2>2. labelling = "top" /\ (Many' => Many)
    BY <1>2, <1>6 DEF TextLine, AtLine, InListing
  <2> QED
    BY <1>3, <2>1, <2>2 DEF PlainWith
<1>7. CASE BelowStart
  <2>1. next <= Len(listing.lines) /\ Now.kind # "text" /\ Low /\ labelling = "top"
    BY <1>7 DEF BelowStart, Code, AtLine
  <2>2. functions = <<>>
    BY <2>1, Ascending DEF Underway
  <2> QED
    BY <1>7, <2>2 DEF BelowStart, InListing, FirstInv
<1>8. CASE NewFunction
  <2>1. lines' = <<>> /\ AtLine' /\ Now' = Now /\ Now.kind \notin {"text", "nop"}
    BY <1>8 DEF NewFunction, Code, Ripe, AtLine, Now
  <2> QED
    BY <2>1 DEF FirstInv
<1>9. CASE StopAtNext
  <2>1. Many' => Many /\ labelling # "done" /\ lines # <<>>
    <3>1. ASSUME listing.mode = "many" PROVE lines # <<>>
      BY <1>9, <3>1 DEF StopAtNext, Ripe, RetInv, Split, Ended
    <3> QED
      BY <1>2, <1>9, <3>1 DEF StopAtNext, Code, AtLine
  <2> QED
    BY <1>5, <1>9, <2>1 DEF StopAtNext
<1>10. CASE PlainLine
  <2>1. PICK l : PlainWith(l, Now.kind, Now.bytes) /\ lines' = Append(lines, l)
    BY <1>10, LineAdded
  <2>2. labelling = "top" /\ (Many' => Many)
    BY <1>2, <1>10 DEF PlainLine, Take, Code, AtLine, InListing
  <2>3. Many /\ lines = <<>> => l.Mnemonic # "nop"
    BY <2>1, <2>2 DEF FirstInv, PlainWith
  <2> QED
    BY <1>3, <2>1, <2>2, <2>3 DEF PlainWith
<1>11. CASE JumpLine
  <2>1. PICK l : JumpWith(l, "jump", Now.bytes, Now.dest) /\ lines' = Append(lines, l)
    BY <1>11, JumpLineAdded
  <2>2. labelling = "top" /\ (Many' => Many)
    BY <1>2, <1>11 DEF JumpLine, Take, Code, AtLine, InListing
  <2> QED
    BY <1>3, <2>1, <2>2 DEF JumpWith
<1>12. CASE BadJump
  <2>1. errorsSeen' # 0
    BY <1>1, <1>12 DEF BadJump
  <2> QED
    BY <2>1 DEF FirstInv
<1>13. CASE EndOfListing
  <2>1. Many' => Many /\ labelling # "done" /\ lines # <<>>
    <3>1. next \in Int /\ Len(listing.lines) \in Int
      BY ListingIs DEF LabelTypes
    <3>2. ~AtLine
      BY <1>13, <3>1 DEF EndOfListing, AtLine
    <3> QED
      BY <1>2, <1>13, <3>2 DEF EndOfListing, FirstInv
  <2> QED
    BY <1>5, <1>13, <2>1 DEF EndOfListing
<1>14. CASE TableLine
  <2>1. PICK l, m : /\ PlainWith(l, "jmp", Now.bytes) /\ PlainWith(m, "nop", <<144>>)
                    /\ lines' = Append(lines, l) \/ lines' = Append(Append(lines, l), m)
    BY <1>14, TableAdded
  <2>2. labelling = "top" /\ (Many' => Many)
    BY <1>2, <1>14 DEF TableLine, Take, Code, AtLine
  <2> QED
    BY <1>3, <1>4, <2>1, <2>2 DEF PlainWith
<1>15. CASE SkipByte \/ readline \/ TableCut
  <2>1. labelling \in {"skip", "table"} /\ lines' = lines /\ (Many' => Many)
    BY <1>2, <1>15 DEF SkipByte, readline, TableCut, TableReads, InTableLoop
  <2> QED
    BY <1>5, <2>1 DEF RetInv
<1>16. CASE ReadWord
  <2>1. PICK l, d : JumpWith(l, "dw", SubSeq(buf, 1, 2), d) /\ lines' = Append(lines, l)
    BY <1>16, WordAdded
  <2>2. labelling = "table" /\ (Many' => Many)
    BY <1>2, <1>16 DEF ReadWord, TableReads, InTableLoop
  <2> QED
    BY <1>3, <2>1, <2>2 DEF JumpWith
<1>17. CASE TableEnd
  <2>1. PICK l, m : /\ PlainWith(l, "", <<>>) /\ PlainWith(m, "db", buf)
                    /\ lines' = Append(lines, l) \/ lines' = Append(Append(lines, l), m)
    BY <1>17, LeftOverAdded
  <2>2. labelling = "table" /\ (Many' => Many)
    BY <1>2, <1>17 DEF TableEnd, InTableLoop
  <2> QED
    BY <1>3, <1>4, <2>1, <2>2 DEF PlainWith
<1>18. CASE FinishLabel
  BY <1>18 DEF FinishLabel, FirstInv
<1> QED
  BY <1>6, <1>7, <1>8, <1>9, <1>10, <1>11, <1>12, <1>13, <1>14, <1>15, <1>16, <1>17, <1>18
  DEF LabelNext

\* What writing a function does to the functions.
LEMMA WrittenThen ==
  ASSUME LabelTypes, NEW f, functions' = Append(functions, f)
  PROVE  /\ Len(functions) \in Nat /\ DOMAIN functions = 1..Len(functions)
         /\ Len(functions') = Len(functions) + 1
         /\ \A n \in DOMAIN functions' :
              \/ n \in DOMAIN functions /\ n < Len(functions') /\ functions'[n] = functions[n]
              \/ n = Len(functions) + 1 /\ functions'[n] = f
<1> DEFINE S == Seq(OutLine) \cup {f}
<1>1. functions \in Seq(S)
  <2>1. \A n \in 1..Len(functions) : functions[n] \in S
    BY ElementOfSeq DEF LabelTypes
  <2>2. functions = [n \in 1..Len(functions) |-> functions[n]] /\ Len(functions) \in Nat
    BY LenProperties DEF LabelTypes
  <2> HIDE DEF S
  <2>3. functions \in [1..Len(functions) -> S]
    BY <2>1, <2>2
  <2> QED
    BY <2>2, <2>3, ListOf
<1>2. f \in S
  OBVIOUS
<1> HIDE DEF S
<1>3. /\ Len(functions) \in Nat /\ DOMAIN functions = 1..Len(functions)
      /\ Len(functions') = Len(functions) + 1
      /\ DOMAIN functions' = 1..(Len(functions) + 1)
      /\ \A n \in DOMAIN functions : functions'[n] = functions[n]
      /\ functions'[Len(functions) + 1] = f
  BY <1>1, <1>2, AppendIs
<1> QED
  BY <1>3

LEMMA PartsKept ==
  ASSUME LabelTypes, RetInv, FirstInv, PartsInv, LabelNext
  PROVE  PartsInv'
<1>1. lines \in Seq(OutLine) /\ jumps \in Seq(JumpSet) /\ errorsSeen \in Nat
  BY DEF LabelTypes
<1>2. listing' = listing
  BY DEF LabelNext, TextLine, BelowStart, NewFunction, StopAtNext, PlainLine, JumpLine, BadJump,
         EndOfListing, TableLine, SkipByte, readline, TableCut, ReadWord, TableEnd, FinishLabel,
         InListing, InTableLoop
<1> DEFINE f == drain(lines, jumps)
<1>3. ASSUME functions' = functions, labelling # "done", errorsSeen > 0 => errorsSeen' > 0
      PROVE  PartsInv'
  BY <1>2, <1>3 DEF PartsInv
<1>4. ASSUME functions' = Append(functions, f), labelling # "done", errorsSeen' = errorsSeen,
             listing.mode = "many" =>
               /\ labelling' # "done" => Ended(f)
               /\ functions # <<>> => errorsSeen > 0 \/ (f # <<>> /\ f[1].Mnemonic # "nop")
               /\ EndsOnce(f)
      PROVE  PartsInv'
  <2> HIDE DEF f
  <2>1. functions # <<>> <=> Len(functions) # 0
    BY EmptySeq DEF LabelTypes
  <2> SUFFICES ASSUME listing.mode = "many", NEW n \in DOMAIN functions'
               PROVE  /\ n < Len(functions') \/ labelling' # "done" => Ended(functions'[n])
                      /\ n > 1 => errorsSeen' > 0 \/ (functions'[n] # <<>> /\ functions'[n][1].Mnemonic # "nop")
                      /\ EndsOnce(functions'[n])
    BY <1>2 DEF PartsInv
  <2>2. CASE n \in DOMAIN functions /\ n < Len(functions') /\ functions'[n] = functions[n]
    BY <1>4, <2>2 DEF PartsInv
  <2>3. CASE n = Len(functions) + 1 /\ functions'[n] = f
    <3>1. Len(functions) \in Nat /\ Len(functions') = Len(functions) + 1
      BY <1>4, WrittenThen
    <3>2. ~(n < Len(functions')) /\ (n > 1 => functions # <<>>)
      BY <2>1, <2>3, <3>1
    <3> QED
      BY <1>4, <2>3, <3>2
  <2> QED
    BY <1>4, <2>2, <2>3, WrittenThen
<1>5. /\ Ended(f) <=> Ended(lines)
      /\ EndsOnce(lines) => EndsOnce(f)
      /\ lines # <<>> => f # <<>> /\ f[1].Mnemonic = lines[1].Mnemonic
  BY <1>1, DrainEnds
<1> HIDE DEF f
<1>6. CASE NewFunction
  <2>1. functions' = Append(functions, f) /\ errorsSeen' = errorsSeen /\ labelling = "top"
        /\ lines # <<>> /\ breaking
    BY <1>6 DEF NewFunction, Code, AtLine, Ripe, f
  <2>2. listing.mode = "many" => Ended(f) /\ EndsOnce(f)
    BY <1>5, <2>1 DEF RetInv, Split
  <2>3. listing.mode = "many" /\ functions # <<>> =>
          errorsSeen > 0 \/ (f # <<>> /\ f[1].Mnemonic # "nop")
    BY <1>1, <1>5, <2>1 DEF FirstInv
  <2> QED
    BY <1>4, <2>1, <2>2, <2>3
<1>7. CASE FinishLabel
  <2>1. CASE errorsSeen > 0
    <3>1. functions' = functions /\ labelling = "end" /\ errorsSeen' = errorsSeen
      BY <1>7, <2>1 DEF FinishLabel
    <3> QED
      BY <1>3, <2>1, <3>1
  <2>2. CASE ~(errorsSeen > 0)
    <3>1. functions' = Append(functions, f) /\ errorsSeen' = errorsSeen /\ labelling = "end"
          /\ labelling' = "done" /\ errorsSeen = 0
      BY <1>1, <1>7, <2>2 DEF FinishLabel, f
    <3>2. listing.mode = "many" => EndsOnce(f)
      BY <1>5 DEF RetInv, Split
    <3>3. listing.mode = "many" /\ functions # <<>> => f # <<>> /\ f[1].Mnemonic # "nop"
      BY <1>5, <3>1 DEF FirstInv, AtLine
    <3> QED
      BY <1>4, <3>1, <3>2, <3>3
  <2> QED
    BY <2>1, <2>2
<1>8. CASE \/ TextLine \/ BelowStart \/ StopAtNext \/ PlainLine \/ JumpLine \/ BadJump \/ EndOfListing
           \/ TableLine \/ SkipByte \/ readline \/ TableCut \/ ReadWord \/ TableEnd
  <2>1. functions' = functions /\ labelling # "done"
    BY <1>8 DEF TextLine, BelowStart, StopAtNext, PlainLine, JumpLine, BadJump, EndOfListing,
       TableLine, SkipByte, readline, TableCut, ReadWord, TableEnd, TableReads, Take, Code, AtLine,
       InListing, InTableLoop
  <2>2. errorsSeen' = errorsSeen \/ errorsSeen' = errorsSeen + 1
    BY <1>8 DEF TextLine, BelowStart, StopAtNext, PlainLine, JumpLine, BadJump, EndOfListing,
       TableLine, SkipByte, readline, TableCut, ReadWord, TableEnd, InListing, InTableLoop
  <2> QED
    BY <1>1, <1>3, <2>1, <2>2
<1> QED
  BY <1>6, <1>7, <1>8 DEF LabelNext

-----------------------------------------------------------------------------
(***************************************************************************)
(* The invariant, and what it shows of jumps and functions.                *)
(***************************************************************************)
LEMMA ReachKept ==
  ASSUME LabelTypes, InStep(lines, jumps), JumpsReach, LabelNext
  PROVE  JumpsReach'
<1>1. Reaches(drain(lines, jumps))
  BY DrainReaches DEF LabelTypes
<1>2. functions' = functions \/ functions' = Append(functions, drain(lines, jumps))
  BY DEF LabelNext, TextLine, BelowStart, NewFunction, StopAtNext, PlainLine, JumpLine, BadJump,
         EndOfListing, TableLine, SkipByte, readline, TableCut, ReadWord, TableEnd, FinishLabel,
         InListing, InTableLoop
<1>3. CASE functions' = functions
  BY <1>3 DEF JumpsReach
<1>4. CASE functions' = Append(functions, drain(lines, jumps))
  BY <1>1, <1>4, WrittenThen DEF JumpsReach
<1> QED
  BY <1>2, <1>3, <1>4

LabelInv ==
  /\ LabelTypes /\ InStep(lines, jumps) /\ AheadInv /\ RetInv /\ FirstInv /\ PartsInv
  /\ JumpsReach

LEMMA LabelStarts == ASSUME LabelInit PROVE LabelInv
<1>1. LabelTypes
  BY TypesStart
<1>2. lines = <<>> /\ jumps = <<>> /\ functions = <<>> /\ labelling = "top" /\ ~breaking /\ lastAddr = 0
  BY DEF LabelInit
<1>3. AheadInv
  <2>1. ~Underway
    BY <1>2 DEF Underway
  <2>2. ASSUME NEW i \in next..Len(listing.lines) PROVE 0 <= listing.lines[i].addr
    <3>1. i \in DOMAIN listing.lines
      BY <1>1, <2>2, ListingIs DEF LabelTypes
    <3> QED
      BY <1>1, <3>1, ListingIs DEF ListingLine
  <2> QED
    BY <1>2, <2>1, <2>2 DEF AheadInv
<1>4. RetInv
  BY <1>2 DEF RetInv, Ended, EndsOnce
<1> QED
  BY <1>1, <1>2, <1>3, <1>4 DEF LabelInv, InStep, FirstInv, PartsInv, JumpsReach

LEMMA LabelInvKept == ASSUME LabelInv, [LabelNext]_labelVars PROVE LabelInv'
<1>1. CASE LabelNext
  BY <1>1, TypesKept, ListsKept, AheadKept, RetKept, FirstKept, PartsKept, ReachKept DEF LabelInv
<1>2. CASE UNCHANGED labelVars
  <2>1. /\ LabelTypes' /\ InStep(lines, jumps)' /\ AheadInv' /\ RetInv' 
    BY <1>2 DEF LabelInv, labelVars, tableVars, LabelTypes, InStep, AheadInv, Underway, RetInv, Split
  <2>2. FirstInv' /\ PartsInv' /\ JumpsReach'
    BY <1>2 DEF LabelInv, labelVars, tableVars, FirstInv, PartsInv, JumpsReach, AtLine, Now
  <2> QED
    BY <2>1, <2>2 DEF LabelInv
<1> QED
  BY <1>1, <1>2

\* All of this holds throughout, for every listing (the main loop and drain).
THEOREM LabelInvHolds == LabelSpec => []LabelInv
<1>1. LabelInit => LabelInv
  BY LabelStarts
<1>2. LabelInv /\ [LabelNext]_labelVars => LabelInv'
  BY LabelInvKept
<1> QED
  BY <1>1, <1>2, PTL DEF LabelSpec

\* Each jump has the label of the first line of its destination, for every
\* listing (drain, and the main loop's lists of lines and jumps).
THEOREM JumpsAlwaysReach == LabelSpec => []JumpsReach
<1>1. LabelInv => JumpsReach
  BY DEF LabelInv
<1> QED
  BY <1>1, LabelInvHolds, PTL

\* With -many, functions end with their return, for every listing (breaking).
THEOREM FunctionsAreSplit == LabelSpec => []FunctionsSplit
<1>1. LabelInv => FunctionsSplit
  BY DEF LabelInv, PartsInv, FunctionsSplit
<1> QED
  BY <1>1, LabelInvHolds, PTL
-----------------------------------------------------------------------------
(***************************************************************************)
(* No byte is lost.                                                        *)
(***************************************************************************)
Bytes == Seq(0..255)

LEMMA Joins ==
  ASSUME NEW a \in Bytes, NEW b \in Bytes
  PROVE  /\ a \o b \in Bytes /\ a \o <<>> = a /\ <<>> \o a = a
         /\ \A c \in Bytes : (a \o b) \o c = a \o (b \o c)
<1>1. a \o b \in Bytes
  BY ConcatProperties DEF Bytes
<1>2. a \o <<>> = a /\ <<>> \o a = a
  BY ConcatEmptySeq DEF Bytes
<1>3. ASSUME NEW c \in Bytes PROVE (a \o b) \o c = a \o (b \o c)
  BY ConcatAssociative DEF Bytes
<1> QED
  BY <1>1, <1>2, <1>3

LEMMA Associates ==
  \A a, b, c \in Bytes : (a \o b) \o c = a \o (b \o c)
BY Joins

LEMMA PrefixOf ==
  ASSUME NEW a \in Bytes, NEW b \in Bytes
  PROVE  IsPrefix(a, a \o b) /\ IsPrefix(a, a)
<1>1. /\ a \o b \in Bytes /\ Len(a \o b) = Len(a) + Len(b)
      /\ \A i \in 1..(Len(a) + Len(b)) : (a \o b)[i] = IF i <= Len(a) THEN a[i] ELSE b[i - Len(a)]
  BY ConcatProperties DEF Bytes
<1>2. Len(a) \in Nat /\ Len(b) \in Nat /\ DOMAIN a = 1..Len(a) /\ DOMAIN (a \o b) = 1..Len(a \o b)
  BY <1>1, LenProperties DEF Bytes
<1>3. \A i \in 1..Len(a) : (a \o b)[i] = a[i]
  BY <1>1, <1>2
<1>4. Len(a) <= Len(a \o b) /\ Len(a) <= Len(a)
  BY <1>1, <1>2
<1>5. SubSeq(a, 1, Len(a)) = SubSeq(a \o b, 1, Len(a))
  BY <1>2, <1>3, <1>4
<1> QED
  BY <1>4, <1>5 DEF IsPrefix

\* What the bytes of lines and of functions come to.
LEMMA BytesOfIs ==
  ASSUME NEW ls \in Seq(OutLine)
  PROVE  /\ BytesOf(ls) \in Bytes
         /\ \A l \in OutLine : BytesOf(Append(ls, l)) = BytesOf(ls) \o l.bytes
<1> DEFINE of(t) == [i \in DOMAIN t |-> t[i].bytes]
<1>1. \A l \in OutLine : l.bytes \in Bytes
  BY DEF OutLine, Bytes
<1>2. ASSUME NEW t \in Seq(OutLine) PROVE of(t) \in Seq(Bytes) /\ Len(of(t)) = Len(t)
  <2>1. Len(t) \in Nat /\ DOMAIN t = 1..Len(t) /\ \A i \in 1..Len(t) : t[i] \in OutLine
    BY LenProperties, ElementOfSeq
  <2>2. of(t) \in [1..Len(t) -> Bytes]
    BY <1>1, <2>1
  <2> QED
    BY <2>1, <2>2, ListOf
<1>3. BytesOf(ls) \in Bytes
  BY <1>2, FlattenType DEF BytesOf, Bytes
<1>4. ASSUME NEW l \in OutLine PROVE BytesOf(Append(ls, l)) = BytesOf(ls) \o l.bytes
  <2> DEFINE t == Append(ls, l)
  <2>1. /\ t \in Seq(OutLine) /\ Len(ls) \in Nat /\ DOMAIN ls = 1..Len(ls) /\ Len(t) = Len(ls) + 1
        /\ DOMAIN t = 1..(Len(ls) + 1) /\ t[Len(ls) + 1] = l
        /\ \A i \in DOMAIN ls : t[i] = ls[i]
    BY AppendIs
  <2>2. of(ls) \in Seq(Bytes) /\ Len(of(ls)) = Len(ls) /\ l.bytes \in Bytes
    BY <1>1, <1>2
  <2>3. of(t) = Append(of(ls), l.bytes)
    <3>1. /\ Append(of(ls), l.bytes) \in Seq(Bytes)
          /\ DOMAIN Append(of(ls), l.bytes) = 1..(Len(ls) + 1)
          /\ \A i \in DOMAIN of(ls) : Append(of(ls), l.bytes)[i] = of(ls)[i]
          /\ Append(of(ls), l.bytes)[Len(ls) + 1] = l.bytes
      BY <2>2, AppendIs
    <3> DEFINE u == Append(of(ls), l.bytes)
    <3>2. u = [i \in 1..(Len(ls) + 1) |-> u[i]]
      BY <2>1, <3>1
    <3>3. \A i \in 1..Len(ls) : u[i] = ls[i].bytes
      BY <2>1, <3>1
    <3> HIDE DEF u
    <3>4. ASSUME NEW i \in 1..(Len(ls) + 1) PROVE u[i] = t[i].bytes
      BY <2>1, <3>1, <3>3 DEF u
    <3>5. u = [i \in 1..(Len(ls) + 1) |-> t[i].bytes]
      BY <3>2, <3>4
    <3> HIDE DEF t
    <3> QED
      BY <2>1, <3>5 DEF u
  <2>4. FlattenSeq(Append(of(ls), l.bytes)) = FlattenSeq(of(ls)) \o l.bytes
    BY <2>2, FlattenAppend DEF Bytes
  <2> QED
    BY <2>3, <2>4 DEF BytesOf
<1> QED
  BY <1>3, <1>4

OutBytes == FlattenSeq([n \in DOMAIN functions |-> BytesOf(functions[n])])

LEMMA OutBytesIs ==
  ASSUME LabelTypes
  PROVE  /\ OutBytes \in Bytes
         /\ functions = <<>> => OutBytes = <<>>
         /\ \A f \in Seq(OutLine) : functions' = Append(functions, f)
              => OutBytes' = OutBytes \o BytesOf(f)
<1> DEFINE of(t) == [n \in DOMAIN t |-> BytesOf(t[n])]
<1>1. ASSUME NEW t \in Seq(Seq(OutLine)) PROVE of(t) \in Seq(Bytes) /\ Len(of(t)) = Len(t)
  <2>1. Len(t) \in Nat /\ DOMAIN t = 1..Len(t) /\ \A n \in 1..Len(t) : t[n] \in Seq(OutLine)
    BY LenProperties, ElementOfSeq
  <2>2. \A n \in 1..Len(t) : BytesOf(t[n]) \in Bytes
    BY <2>1, BytesOfIs
  <2>3. of(t) \in [1..Len(t) -> Bytes]
    BY <2>1, <2>2
  <2> QED
    BY <2>1, <2>3, ListOf
<1>2. functions \in Seq(Seq(OutLine))
  BY DEF LabelTypes
<1>3. OutBytes \in Bytes
  BY <1>1, <1>2, FlattenType DEF OutBytes, Bytes
<1>4. ASSUME functions = <<>> PROVE OutBytes = <<>>
  <2>1. of(functions) = <<>>
    BY <1>1, <1>2, <1>4, EmptySeq
  <2> QED
    BY <2>1, FlattenEmpty DEF OutBytes
<1>5. ASSUME NEW f \in Seq(OutLine), functions' = Append(functions, f)
      PROVE  OutBytes' = OutBytes \o BytesOf(f)
  <2> DEFINE t == functions'
             u == Append(of(functions), BytesOf(f))
             n1 == Len(functions) + 1
  <2>1. /\ Len(functions) \in Nat /\ DOMAIN functions = 1..Len(functions)
        /\ DOMAIN t = 1..n1 /\ t[n1] = f
        /\ \A n \in DOMAIN functions : t[n] = functions[n]
    BY <1>2, <1>5, AppendIs
  <2>2. of(functions) \in Seq(Bytes) /\ Len(of(functions)) = Len(functions) /\ BytesOf(f) \in Bytes
    BY <1>1, <1>2, BytesOfIs
  <2>3. /\ u \in Seq(Bytes) /\ DOMAIN u = 1..n1 /\ u[n1] = BytesOf(f)
        /\ \A n \in DOMAIN of(functions) : u[n] = of(functions)[n]
    BY <2>2, AppendIs
  <2>4. \A n \in 1..Len(functions) : u[n] = BytesOf(functions[n])
    BY <2>1, <2>3
  <2>5. u = [n \in 1..n1 |-> u[n]]
    BY <2>3
  <2> HIDE DEF u
  <2>6. \A n \in 1..n1 : u[n] = BytesOf(t[n])
    BY <2>1, <2>3, <2>4
  <2>7. u = of(t)
    BY <2>1, <2>5, <2>6
  <2>8. FlattenSeq(u) = FlattenSeq(of(functions)) \o BytesOf(f)
    BY <2>2, FlattenAppend DEF Bytes, u
  <2> QED
    BY <2>7, <2>8 DEF OutBytes
<1> QED
  BY <1>3, <1>4, <1>5

LEMMA DrainBytes ==
  ASSUME NEW ls \in Seq(OutLine), NEW js \in Seq(JumpSet), InStep(ls, js)
  PROVE  drain(ls, js) \in Seq(OutLine) /\ BytesOf(drain(ls, js)) = BytesOf(ls)
<1>1. DOMAIN drain(ls, js) = DOMAIN ls /\ \A i \in DOMAIN ls : drain(ls, js)[i].bytes = ls[i].bytes
  BY DrainIs
<1>2. BytesOf(drain(ls, js)) = BytesOf(ls)
  BY <1>1 DEF BytesOf
<1> QED
  BY <1>2, DrainType

\* What label is asked to write of the first n lines.
Wanted(i) == IF listing.lines[i].addr >= listing.start THEN listing.lines[i].bytes ELSE <<>>
WishedTo(n) == FlattenSeq([i \in 1..n |-> Wanted(i)])

LEMMA WishedIs ==
  ASSUME LabelTypes, NEW n \in 0..Len(listing.lines)
  PROVE  /\ WishedTo(n) \in Bytes
         /\ n < Len(listing.lines) => Wanted(n + 1) \in Bytes /\ WishedTo(n + 1) = WishedTo(n) \o Wanted(n + 1)
<1>1. Len(listing.lines) \in Nat /\ \A i \in 1..Len(listing.lines) : Wanted(i) \in Bytes
  BY ListingIs, EmptySeq DEF Wanted, Bytes, ListingLine
<1> DEFINE to(m) == [i \in 1..m |-> Wanted(i)]
<1>2. ASSUME NEW m \in 0..Len(listing.lines) PROVE to(m) \in Seq(Bytes) /\ Len(to(m)) = m
  <2>1. to(m) \in [1..m -> Bytes] /\ m \in Nat
    BY <1>1
  <2> QED
    BY <2>1, ListOf
<1>3. WishedTo(n) \in Bytes
  BY <1>2, FlattenType DEF WishedTo, Bytes
<1>4. ASSUME n < Len(listing.lines)
      PROVE  Wanted(n + 1) \in Bytes /\ WishedTo(n + 1) = WishedTo(n) \o Wanted(n + 1)
  <2> DEFINE u == Append(to(n), Wanted(n + 1))
  <2>1. n + 1 \in 1..Len(listing.lines) /\ n + 1 \in 0..Len(listing.lines) /\ n \in Nat
    BY <1>1, <1>4
  <2>2. to(n) \in Seq(Bytes) /\ Len(to(n)) = n /\ Wanted(n + 1) \in Bytes
    BY <1>1, <1>2, <2>1
  <2>3. /\ u \in Seq(Bytes) /\ DOMAIN u = 1..(n + 1) /\ u[n + 1] = Wanted(n + 1)
        /\ \A i \in DOMAIN to(n) : u[i] = to(n)[i]
    BY <2>2, AppendIs
  <2>4. u = [i \in 1..(n + 1) |-> u[i]]
    BY <2>3
  <2>5. \A i \in 1..n : u[i] = Wanted(i)
    BY <2>3
  <2> HIDE DEF u
  <2>6. u = to(n + 1)
    <3>1. ASSUME NEW i \in 1..(n + 1) PROVE u[i] = Wanted(i)
      <4>1. i \in 1..n \/ i = n + 1
        BY <2>1
      <4> QED
        BY <2>3, <2>5, <4>1
    <3> QED
      BY <2>4, <3>1
  <2>7. FlattenSeq(u) = FlattenSeq(to(n)) \o Wanted(n + 1)
    BY <2>2, FlattenAppend DEF Bytes, u
  <2> QED
    BY <2>2, <2>6, <2>7 DEF WishedTo
<1> QED
  BY <1>3, <1>4

LEMMA WishedAll == ASSUME LabelTypes PROVE Wished = WishedTo(Len(listing.lines))
BY ListingIs DEF Wished, WishedTo, Wanted

LEMMA WishedNone ==
  ASSUME LabelTypes, NEW n \in 0..Len(listing.lines), \A i \in 1..n : Wanted(i) = <<>>
  PROVE  WishedTo(n) = <<>>
<1>1. Len(listing.lines) \in Nat
  BY ListingIs
<1> DEFINE K == {k \in Nat : k <= n => WishedTo(k) = <<>>}
<1>2. 0 \in K
  <2>1. [i \in 1..0 |-> Wanted(i)] = <<>>
    OBVIOUS
  <2> QED
    BY <2>1, FlattenEmpty DEF WishedTo
<1>3. ASSUME NEW k \in Nat, k \in K PROVE k + 1 \in K
  <2> SUFFICES ASSUME k + 1 <= n PROVE WishedTo(k + 1) = <<>>
    OBVIOUS
  <2>1. k \in 0..Len(listing.lines) /\ k < Len(listing.lines) /\ k + 1 \in 1..n /\ WishedTo(k) = <<>>
    BY <1>1, <1>3
  <2>2. WishedTo(k + 1) = <<>> \o <<>>
    BY <2>1, WishedIs
  <2> QED
    BY <2>2, ConcatEmptySeq, EmptySeq
<1> HIDE DEF K
<1>4. Nat \subseteq K
  BY <1>2, <1>3, NatInd
<1> QED
  BY <1>1, <1>4 DEF K

LEMMA WishedPrefix ==
  ASSUME LabelTypes, NEW n \in 0..Len(listing.lines)
  PROVE  \E t \in Bytes : Wished = WishedTo(n) \o t
<1>1. Len(listing.lines) \in Nat
  BY ListingIs
<1> DEFINE More(m) == \E t \in Bytes : WishedTo(m) = WishedTo(n) \o t
           K == {k \in Nat : n + k <= Len(listing.lines) => More(n + k)}
<1>2. WishedTo(n) \in Bytes
  BY WishedIs
<1>3. 0 \in K
  <2>1. <<>> \in Bytes /\ WishedTo(n) = WishedTo(n) \o <<>> /\ n + 0 = n
    BY <1>2, Joins, EmptySeq DEF Bytes
  <2> QED
    BY <2>1
<1>4. ASSUME NEW k \in Nat, k \in K PROVE k + 1 \in K
  <2> SUFFICES ASSUME n + (k + 1) <= Len(listing.lines) PROVE More(n + (k + 1))
    OBVIOUS
  <2>1. n + k \in 0..Len(listing.lines) /\ n + k < Len(listing.lines) /\ (n + k) + 1 = n + (k + 1)
        /\ n + k <= Len(listing.lines)
    BY <1>1
  <2>2. PICK t \in Bytes : WishedTo(n + k) = WishedTo(n) \o t
    BY <1>4, <2>1
  <2>3. Wanted(n + (k + 1)) \in Bytes /\ WishedTo(n + (k + 1)) = WishedTo(n + k) \o Wanted(n + (k + 1))
    BY <2>1, WishedIs
  <2>4. WishedTo(n + (k + 1)) = WishedTo(n) \o (t \o Wanted(n + (k + 1))) /\ t \o Wanted(n + (k + 1)) \in Bytes
    <3> DEFINE w == Wanted(n + (k + 1))
               a == WishedTo(n)
    <3>1. a \in Bytes /\ w \in Bytes /\ WishedTo(n + (k + 1)) = (a \o t) \o w
      BY <1>2, <2>2, <2>3
    <3> HIDE DEF w, a
    <3>2. (a \o t) \o w = a \o (t \o w) /\ t \o w \in Bytes
      <4>1. t \in Bytes /\ a \in Bytes /\ w \in Bytes
        BY <2>2, <3>1
      <4>2. t \o w \in Bytes
        BY <4>1, Joins
      <4>3. (a \o t) \o w = a \o (t \o w)
        BY <4>1, Associates, Zenon
      <4> QED
        BY <4>2, <4>3
    <3>3. WishedTo(n + (k + 1)) = a \o (t \o w)
      BY <3>1, <3>2
    <3> QED
      BY <3>2, <3>3 DEF w, a
  <2> QED
    BY <2>4
<1> HIDE DEF K
<1>5. Nat \subseteq K
  BY <1>3, <1>4, NatInd
<1>6. Len(listing.lines) - n \in Nat /\ n + (Len(listing.lines) - n) = Len(listing.lines)
      /\ Len(listing.lines) <= Len(listing.lines)
  BY <1>1
<1>7. More(Len(listing.lines))
  BY <1>5, <1>6 DEF K
<1> QED
  BY <1>7, WishedAll

\* What is written so far, with the bytes of a table that are still to be.
SoFar == OutBytes \o BytesOf(lines)
KeptInv ==
  errorsSeen = 0 /\ NopsSkipped =>
    /\ labelling = "top" => SoFar = WishedTo(next - 1)
    /\ labelling = "skip" =>
         /\ SoFar = WishedTo(next - 1) \o <<144>> /\ next > 1
         /\ listing.lines[next - 1].kind = "table"
         /\ (listing.lines[next - 1].addr + Len(listing.lines[next - 1].bytes)) % 2 = 1
    /\ labelling = "table" => SoFar \o buf = WishedTo(next - 1)
    /\ labelling = "end" =>
         \/ left = "eof" /\ SoFar = WishedTo(next - 1) /\ next = Len(listing.lines) + 1
         \/ left = "break" /\ SoFar = WishedTo(next - 1) /\ listing.mode = "one"
         \/ left = "cut" /\ SoFar \o buf = WishedTo(next - 1)
    /\ labelling = "done" =>
         /\ IsPrefix(OutBytes, Wished)
         /\ OutBytes = Wished \/ left = "cut" \/ (left = "break" /\ listing.mode = "one")

LEMMA NowWanted ==
  ASSUME LabelTypes, AheadInv, next <= Len(listing.lines)
  PROVE  /\ next - 1 \in 0..Len(listing.lines) /\ (next + 1) - 1 = next
         /\ WishedTo(next - 1) \in Bytes /\ Now.bytes \in Bytes
         /\ Now.kind = "text" => Now.bytes = <<>> /\ WishedTo(next) = WishedTo(next - 1)
         /\ Now.kind # "text" /\ (Underway \/ ~Low) => WishedTo(next) = WishedTo(next - 1) \o Now.bytes
<1>1. /\ next \in DOMAIN listing.lines /\ next \in Nat /\ next \in 1..Len(listing.lines)
      /\ Now.bytes \in Bytes /\ (Now.kind = "text" <=> Now.bytes = <<>>) /\ Now.addr \in Nat
      /\ listing.start \in Nat /\ Len(listing.lines) \in Nat
  BY NowIs, ListingIs DEF Bytes
<1>2. next - 1 \in 0..Len(listing.lines) /\ (next + 1) - 1 = next /\ (next - 1) + 1 = next
      /\ next - 1 < Len(listing.lines)
  BY <1>1
<1>3. WishedTo(next - 1) \in Bytes /\ WishedTo(next) = WishedTo(next - 1) \o Wanted(next)
  BY <1>2, WishedIs
<1>4. Wanted(next) = IF Low THEN <<>> ELSE Now.bytes
  BY <1>1 DEF Wanted, Low, Now
<1>5. ASSUME Now.kind = "text" PROVE Now.bytes = <<>> /\ WishedTo(next) = WishedTo(next - 1)
  <2>1. Now.bytes = <<>> /\ Wanted(next) = <<>>
    BY <1>1, <1>4, <1>5
  <2> QED
    BY <1>3, <2>1, Joins
<1>6. ASSUME Now.kind # "text", Underway \/ ~Low
      PROVE  WishedTo(next) = WishedTo(next - 1) \o Now.bytes
  <2>1. ~Low
    BY <1>6, Ascending
  <2> QED
    BY <1>3, <1>4, <2>1
<1> QED
  BY <1>1, <1>2, <1>3, <1>5, <1>6

\* Bytes that begin with n are n and the rest.
LEMMA BeginsWith ==
  ASSUME NEW n \in 0..255, NEW b \in Bytes, IsPrefix(<<n>>, b)
  PROVE  b # <<>> /\ b = <<n>> \o Tail(b) /\ Tail(b) \in Bytes
<1>1. Len(b) \in Nat /\ DOMAIN b = 1..Len(b) /\ Len(b) >= 1
  BY LenProperties DEF Bytes, IsPrefix
<1>2. b # <<>>
  BY <1>1, EmptySeq
<1>3. b[1] = n
  <2>1. SubSeq(<<n>>, 1, 1) = SubSeq(b, 1, 1)
    BY DEF IsPrefix
  <2> QED
    BY <1>1, <2>1
<1>4. Tail(b) \in Bytes /\ Head(b) = b[1]
  BY <1>2, HeadTailProperties DEF Bytes
<1>5. b = <<Head(b)>> \o Tail(b)
  BY <1>1, <1>2 DEF Bytes
<1> QED
  BY <1>2, <1>3, <1>4, <1>5

LEMMA SoFarThen ==
  ASSUME LabelTypes
  PROVE  /\ SoFar \in Bytes /\ OutBytes \in Bytes /\ BytesOf(lines) \in Bytes /\ buf \in Bytes
         /\ \A l \in OutLine :
              lines' = Append(lines, l) /\ functions' = functions => SoFar' = SoFar \o l.bytes
         /\ \A l, m \in OutLine :
              lines' = Append(Append(lines, l), m) /\ functions' = functions
                => SoFar' = (SoFar \o l.bytes) \o m.bytes
<1>1. OutBytes \in Bytes /\ BytesOf(lines) \in Bytes /\ lines \in Seq(OutLine) /\ buf \in Bytes
  BY OutBytesIs, BytesOfIs DEF LabelTypes, Bytes
<1>2. SoFar \in Bytes
  BY <1>1, Joins DEF SoFar
<1>3. ASSUME functions' = functions PROVE OutBytes' = OutBytes
  BY <1>3 DEF OutBytes
<1>4. \A l \in OutLine : l.bytes \in Bytes
  BY DEF OutLine, Bytes
<1>5. ASSUME NEW l \in OutLine, lines' = Append(lines, l), functions' = functions
      PROVE  SoFar' = SoFar \o l.bytes
  <2>1. BytesOf(lines') = BytesOf(lines) \o l.bytes /\ l.bytes \in Bytes
    BY <1>1, <1>4, <1>5, BytesOfIs
  <2>2. SoFar' = OutBytes \o (BytesOf(lines) \o l.bytes)
    BY <1>3, <1>5, <2>1 DEF SoFar, BytesOf
  <2>3. (OutBytes \o BytesOf(lines)) \o l.bytes = OutBytes \o (BytesOf(lines) \o l.bytes)
    BY <1>1, <2>1, Associates, Zenon
  <2> QED
    BY <2>2, <2>3 DEF SoFar
<1>6. ASSUME NEW l \in OutLine, NEW m \in OutLine, lines' = Append(Append(lines, l), m),
             functions' = functions
      PROVE  SoFar' = (SoFar \o l.bytes) \o m.bytes
  <2>1. Append(lines, l) \in Seq(OutLine)
    BY <1>1, AppendIs
  <2> DEFINE a == OutBytes
             b == BytesOf(lines)
             c == l.bytes
             d == m.bytes
  <2>2. BytesOf(lines') = (b \o c) \o d /\ c \in Bytes /\ d \in Bytes /\ a \in Bytes /\ b \in Bytes
    <3>1. BytesOf(lines') = BytesOf(Append(lines, l)) \o m.bytes
      BY <1>6, <2>1, BytesOfIs
    <3>2. BytesOf(Append(lines, l)) = BytesOf(lines) \o l.bytes
      BY <1>1, BytesOfIs
    <3> QED
      BY <1>1, <1>4, <3>1, <3>2
  <2>3. SoFar' = a \o ((b \o c) \o d) /\ SoFar = a \o b
    BY <1>3, <1>6, <2>2 DEF SoFar, BytesOf
  <2> HIDE DEF a, b, c, d
  <2>4. b \o c \in Bytes
    BY <2>2, Joins
  <2>5. a \o ((b \o c) \o d) = (a \o (b \o c)) \o d
    BY <2>2, <2>4, Associates, Zenon
  <2>6. a \o (b \o c) = (a \o b) \o c
    BY <2>2, Associates, Zenon
  <2>7. SoFar' = (SoFar \o c) \o d
    BY <2>3, <2>5, <2>6, Zenon
  <2> QED
    BY <2>7 DEF c, d
<1> QED
  BY <1>1, <1>2, <1>5, <1>6

\* Each step accounts for the bytes it reads: they are written, wait in buf, or are
\* below the start.
LEMMA KeptStep ==
  ASSUME LabelTypes, InStep(lines, jumps), AheadInv, RetInv, KeptInv, LabelNext
  PROVE  KeptInv'
<1>1. listing' = listing
  BY DEF LabelNext, TextLine, BelowStart, NewFunction, StopAtNext, PlainLine, JumpLine, BadJump,
         EndOfListing, TableLine, SkipByte, readline, TableCut, ReadWord, TableEnd, FinishLabel,
         InListing, InTableLoop
<1>2. errorsSeen \in Nat /\ (errorsSeen' = errorsSeen \/ errorsSeen' = errorsSeen + 1)
  BY DEF LabelTypes, LabelNext, TextLine, BelowStart, NewFunction, StopAtNext, PlainLine, JumpLine, BadJump,
         EndOfListing, TableLine, SkipByte, readline, TableCut, ReadWord, TableEnd, FinishLabel,
         InListing, InTableLoop
<1> SUFFICES ASSUME errorsSeen' = 0, NopsSkipped'
             PROVE  KeptInv'
  BY DEF KeptInv
<1>3. errorsSeen = 0 /\ NopsSkipped
  BY <1>1, <1>2 DEF NopsSkipped
<1>4. \A n : WishedTo(n)' = WishedTo(n)
  BY <1>1 DEF WishedTo, Wanted
<1>5. SoFar \in Bytes /\ OutBytes \in Bytes /\ BytesOf(lines) \in Bytes /\ buf \in Bytes
      /\ next \in Nat /\ Len(listing.lines) \in Nat
  <2>1. SoFar \in Bytes /\ OutBytes \in Bytes /\ BytesOf(lines) \in Bytes /\ buf \in Bytes
    BY SoFarThen, Zenon
  <2>2. Len(listing.lines) \in Nat
    BY ListingIs, Zenon
  <2>3. next \in Nat
    BY <2>2 DEF LabelTypes
  <2> QED
    BY <2>1, <2>2, <2>3
<1>6. ASSUME labelling' = "top", SoFar' = WishedTo(next' - 1)
      PROVE  KeptInv'
  BY <1>1, <1>4, <1>6 DEF KeptInv, WishedTo, Wanted
<1>7. ASSUME labelling' = "table", SoFar' \o buf' = WishedTo(next' - 1)
      PROVE  KeptInv'
  BY <1>1, <1>4, <1>7 DEF KeptInv, WishedTo, Wanted
<1>8. ASSUME labelling' = "end",
             \/ left' = "eof" /\ SoFar' = WishedTo(next' - 1) /\ next' = Len(listing.lines) + 1
             \/ left' = "break" /\ SoFar' = WishedTo(next' - 1) /\ listing.mode = "one"
             \/ left' = "cut" /\ SoFar' \o buf' = WishedTo(next' - 1)
      PROVE  KeptInv'
  BY <1>1, <1>4, <1>8 DEF KeptInv, WishedTo, Wanted
<1>9. CASE TextLine
  <2>1. PICK l : PlainWith(l, "", <<>>) /\ lines' = Append(lines, l)
    BY <1>9, TextAdded
  <2>2. SoFar' = SoFar \o <<>>
    BY <1>9, <2>1, SoFarThen DEF PlainWith, TextLine, InListing
  <2>3. SoFar' = SoFar
    BY <1>5, <2>2, Joins
  <2>4. labelling = "top" /\ labelling' = "top" /\ next' = next + 1 /\ next <= Len(listing.lines)
        /\ Now.kind = "text"
    BY <1>9 DEF TextLine, AtLine, InListing
  <2>5. WishedTo(next' - 1) = WishedTo(next - 1)
    BY <2>4, NowWanted
  <2>6. SoFar = WishedTo(next - 1)
    BY <1>3, <2>4 DEF KeptInv
  <2> QED
    BY <1>6, <2>3, <2>4, <2>5, <2>6
<1>10. CASE BelowStart
  <2>1. next <= Len(listing.lines) /\ Now.kind # "text" /\ Low /\ labelling = "top" /\ labelling' = "top"
        /\ next' = next + 1 /\ lines' = <<>> /\ functions' = functions
    BY <1>10 DEF BelowStart, Code, AtLine, Consume, InListing
  <2>2. functions = <<>>
    BY <2>1, Ascending DEF Underway
  <2>3. SoFar' = <<>>
    <3>1. OutBytes' = OutBytes /\ OutBytes = <<>>
      BY <2>1, <2>2, OutBytesIs DEF OutBytes
    <3>2. BytesOf(lines)' = <<>>
      <4>1. [i \in DOMAIN <<>> |-> <<>>[i].bytes] = <<>>
        OBVIOUS
      <4> QED
        BY <2>1, <4>1, FlattenEmpty DEF BytesOf
    <3> QED
      BY <3>1, <3>2, ConcatEmptySeq, EmptySeq DEF SoFar
  <2>4. ASSUME NEW i \in 1..next PROVE Wanted(i) = <<>>
    <3>1. /\ i \in DOMAIN listing.lines /\ listing.lines[i] \in ListingLine /\ listing.start \in Nat
          /\ next \in DOMAIN listing.lines /\ Now.addr \in Nat /\ listing.lines[i].addr \in Nat
      BY <1>5, <2>1, NowIs, ListingIs DEF ListingLine
    <3>2. CASE listing.lines[i].kind = "text"
      <4>1. listing.lines[i].bytes = <<>>
        BY <3>1, <3>2, ListingsAssumption DEF LabelTypes
      <4> QED
        BY <4>1 DEF Wanted
    <3>3. CASE listing.lines[i].kind # "text"
      <4>1. i = next \/ i < next
        BY <1>5
      <4>2. listing.lines[i].addr <= Now.addr
        <5>1. \A k, m \in DOMAIN listing.lines :
                k < m /\ listing.lines[k].kind # "text" /\ listing.lines[m].kind # "text"
                  => listing.lines[k].addr <= listing.lines[m].addr
          BY ListingsAssumption DEF LabelTypes
        <5>2. CASE i = next
          BY <3>1, <5>2 DEF Now
        <5>3. CASE i < next
          BY <2>1, <3>1, <3>3, <5>1, <5>3 DEF Now
        <5> QED
          BY <4>1, <5>2, <5>3
      <4>3. listing.lines[i].addr < listing.start
        BY <2>1, <3>1, <4>2 DEF Low
      <4> QED
        BY <3>1, <4>3 DEF Wanted
    <3> QED
      BY <3>2, <3>3
  <2>5. WishedTo(next) = <<>> /\ next' - 1 = next
    <3>1. next \in 0..Len(listing.lines) /\ (next + 1) - 1 = next
      BY <1>5, <2>1
    <3> QED
      BY <2>1, <2>4, <3>1, WishedNone
  <2> QED
    BY <1>6, <2>1, <2>3, <2>5
<1>11. CASE NewFunction
  <2>1. /\ functions' = Append(functions, drain(lines, jumps)) /\ lines' = <<>> /\ next' = next
        /\ labelling = "top" /\ labelling' = "top"
    BY <1>11 DEF NewFunction, Code, AtLine
  <2>2. drain(lines, jumps) \in Seq(OutLine) /\ BytesOf(drain(lines, jumps)) = BytesOf(lines)
    BY DrainBytes DEF LabelTypes
  <2>3. OutBytes' = SoFar
    BY <2>1, <2>2, OutBytesIs DEF SoFar
  <2>4. BytesOf(lines)' = <<>>
    <3>1. [i \in DOMAIN <<>> |-> <<>>[i].bytes] = <<>>
      OBVIOUS
    <3> QED
      BY <2>1, <3>1, FlattenEmpty DEF BytesOf
  <2>5. SoFar' = OutBytes' \o <<>>
    BY <2>4 DEF SoFar
  <2>6. SoFar' = SoFar
    BY <1>5, <2>3, <2>5, Joins
  <2> QED
    BY <1>3, <1>6, <2>1, <2>6 DEF KeptInv
<1>12. CASE StopAtNext
  <2>1. /\ labelling = "top" /\ labelling' = "end" /\ left' = "break" /\ SoFar' = SoFar /\ next' = next
    BY <1>12 DEF StopAtNext, Code, AtLine, SoFar, OutBytes, BytesOf
  <2>2. listing.mode = "one"
    <3>1. breaking /\ ~(listing.mode = "many" /\ lines # <<>>)
      BY <1>12 DEF StopAtNext, Ripe
    <3>2. Split /\ lines # <<>>
      BY <3>1 DEF RetInv, Ended
    <3> QED
      BY <3>1, <3>2 DEF Split
  <2> QED
    BY <1>3, <1>8, <2>1, <2>2 DEF KeptInv
<1>13. CASE PlainLine \/ JumpLine
  <2>1. PICK l \in OutLine : l.bytes = Now.bytes /\ lines' = Append(lines, l)
    BY <1>13, LineAdded, JumpLineAdded DEF PlainWith, JumpWith
  <2>2. /\ labelling = "top" /\ labelling' = "top" /\ next' = next + 1 /\ next <= Len(listing.lines)
        /\ Now.kind # "text" /\ ~Low /\ functions' = functions
    BY <1>13 DEF PlainLine, JumpLine, Take, Code, AtLine, Consume, InListing
  <2>3. SoFar' = SoFar \o Now.bytes
    BY <2>1, <2>2, SoFarThen
  <2>4. WishedTo(next' - 1) = WishedTo(next - 1) \o Now.bytes
    BY <2>2, NowWanted
  <2>5. SoFar = WishedTo(next - 1)
    BY <1>3, <2>2 DEF KeptInv
  <2> QED
    BY <1>6, <2>2, <2>3, <2>4, <2>5
<1>14. CASE BadJump
  BY <1>3, <1>14 DEF BadJump
<1>15. CASE EndOfListing
  <2>1. /\ labelling = "top" /\ labelling' = "end" /\ left' = "eof" /\ SoFar' = SoFar /\ next' = next
        /\ next > Len(listing.lines)
    BY <1>15 DEF EndOfListing, SoFar, OutBytes, BytesOf
  <2>2. next = Len(listing.lines) + 1
    <3>1. next \in 1..(Len(listing.lines) + 1)
      BY DEF LabelTypes
    <3> QED
      BY <1>5, <2>1, <3>1
  <2> QED
    BY <1>3, <1>8, <2>1, <2>2 DEF KeptInv
<1>16. CASE TableLine
  <2>1. /\ labelling = "top" /\ next' = next + 1 /\ next <= Len(listing.lines)
        /\ Now.kind = "table" /\ ~Low /\ functions' = functions /\ buf' = <<>>
    BY <1>16 DEF TableLine, Take, Code, AtLine, Consume
  <2>2. WishedTo(next' - 1) = SoFar \o Now.bytes /\ SoFar \o Now.bytes \in Bytes
    <3>1. WishedTo(next' - 1) = WishedTo(next - 1) \o Now.bytes /\ Now.bytes \in Bytes
      BY <2>1, NowWanted
    <3>2. SoFar = WishedTo(next - 1)
      BY <1>3, <2>1 DEF KeptInv
    <3> QED
      BY <1>5, <3>1, <3>2, Joins
  <2>3. PICK l, m : /\ PlainWith(l, "jmp", Now.bytes) /\ PlainWith(m, "nop", <<144>>)
                    /\ \/ /\ addr' % 2 = 0 /\ labelling' = "table" /\ lines' = Append(lines, l)
                       \/ /\ addr' % 2 = 1 /\ labelling' = "skip"
                          /\ lines' = Append(Append(lines, l), m)
    BY <1>16, TableAdded
  <2>4. CASE labelling' = "table" /\ lines' = Append(lines, l)
    <3>1. SoFar' = SoFar \o Now.bytes
      BY <2>1, <2>3, <2>4, SoFarThen DEF PlainWith
    <3>2. SoFar' \o buf' = SoFar'
      BY <2>1, <2>2, <3>1, Joins
    <3> QED
      BY <1>7, <2>2, <2>4, <3>1, <3>2
  <2>5. CASE addr' % 2 = 1 /\ labelling' = "skip" /\ lines' = Append(Append(lines, l), m)
    <3>1. SoFar' = (SoFar \o Now.bytes) \o <<144>>
      BY <2>1, <2>3, <2>5, SoFarThen DEF PlainWith
    <3>2. SoFar' = WishedTo(next' - 1) \o <<144>>
      BY <2>2, <3>1
    <3>3. addr' = Now.addr + Len(Now.bytes)
      BY <1>16, TableAdded
    <3>4. next' > 1 /\ next' - 1 = next
      BY <1>5, <2>1, NowIs
    <3> QED
      BY <1>1, <1>4, <2>1, <2>5, <3>2, <3>3, <3>4 DEF KeptInv, Now, WishedTo, Wanted
  <2> QED
    BY <2>3, <2>4, <2>5
<1>17. CASE SkipByte
  <2>1. /\ labelling = "skip" /\ labelling' = "table" /\ SoFar' = SoFar
        /\ SoFar = WishedTo(next - 1) \o <<144>> /\ next > 1
    BY <1>3, <1>17 DEF SkipByte, InTableLoop, KeptInv, SoFar, OutBytes, BytesOf
  <2>2. next <= Len(listing.lines) /\ IsPrefix(<<144>>, Now.bytes)
    <3>1. next - 1 \in DOMAIN listing.lines /\ (next - 1) + 1 = next
      <4>1. next \in 1..(Len(listing.lines) + 1) /\ DOMAIN listing.lines = 1..Len(listing.lines)
        BY ListingIs DEF LabelTypes
      <4> QED
        BY <1>5, <2>1, <4>1
    <3>2. /\ listing.lines[next - 1].kind = "table"
          /\ (listing.lines[next - 1].addr + Len(listing.lines[next - 1].bytes)) % 2 = 1
      BY <1>3, <2>1 DEF KeptInv
    <3>3. next - 1 < Len(listing.lines) /\ IsPrefix(<<144>>, listing.lines[(next - 1) + 1].bytes)
      BY <1>3, <3>1, <3>2 DEF NopsSkipped
    <3> QED
      BY <1>5, <3>1, <3>3 DEF Now
  <2>3. /\ Now.bytes \in Bytes /\ Now.bytes = <<144>> \o Tail(Now.bytes) /\ Tail(Now.bytes) \in Bytes
        /\ Now.kind # "text"
    <3>1. Now.bytes \in Bytes /\ 144 \in 0..255 /\ (Now.kind = "text" <=> Now.bytes = <<>>)
      BY <2>2, NowIs DEF Bytes
    <3>2. Now.bytes # <<>> /\ Now.bytes = <<144>> \o Tail(Now.bytes) /\ Tail(Now.bytes) \in Bytes
      BY <2>2, <3>1, BeginsWith
    <3> QED
      BY <3>1, <3>2
  <2>4. buf' = Tail(Now.bytes) /\ next' = next + 1
    BY <1>17, <2>2, <2>3 DEF SkipByte, MoreCode
  <2>5. /\ WishedTo(next' - 1) = WishedTo(next - 1) \o Now.bytes
        /\ WishedTo(next - 1) \in Bytes
    BY <2>1, <2>2, <2>3, <2>4, NowWanted DEF Underway
  <2> DEFINE a == WishedTo(next - 1)
             b == <<144>>
             c == Tail(Now.bytes)
  <2>6. a \in Bytes /\ b \in Bytes /\ c \in Bytes
    BY <2>3, <2>5 DEF Bytes
  <2>7. SoFar' \o buf' = (a \o b) \o c /\ WishedTo(next' - 1) = a \o (b \o c)
    BY <2>1, <2>3, <2>4, <2>5
  <2> HIDE DEF a, b, c
  <2>8. (a \o b) \o c = a \o (b \o c)
    BY <2>6, Associates, Zenon
  <2> QED
    BY <1>7, <2>1, <2>7, <2>8
<1>18. CASE readline
  <2>1. /\ labelling = "table" /\ labelling' = "table" /\ SoFar' = SoFar /\ next' = next + 1
        /\ next <= Len(listing.lines) /\ Now.kind # "text" /\ buf' = buf \o Now.bytes
    BY <1>18 DEF readline, TableReads, MoreCode, InTableLoop, SoFar, OutBytes, BytesOf
  <2>2. WishedTo(next' - 1) = WishedTo(next - 1) \o Now.bytes /\ Now.bytes \in Bytes
    BY <2>1, NowWanted DEF Underway
  <2>3. SoFar \o buf = WishedTo(next - 1)
    BY <1>3, <2>1 DEF KeptInv
  <2>4. (SoFar \o buf) \o Now.bytes = SoFar \o (buf \o Now.bytes)
    BY <1>5, <2>2, Associates, Zenon
  <2>5. SoFar' \o buf' = WishedTo(next' - 1)
    BY <2>1, <2>2, <2>3, <2>4, Zenon
  <2> QED
    BY <1>7, <2>1, <2>5
<1>19. CASE TableCut
  <2>1. /\ labelling = "table" /\ labelling' = "end" /\ left' = "cut" /\ SoFar' = SoFar /\ next' = next
        /\ buf' = buf
    BY <1>19 DEF TableCut, TableReads, InTableLoop, tableVars, SoFar, OutBytes, BytesOf
  <2> QED
    BY <1>3, <1>8, <2>1 DEF KeptInv
<1>20. CASE ReadWord
  <2>1. /\ labelling = "table" /\ labelling' = "table" /\ next' = next /\ Len(buf) >= 2
        /\ functions' = functions /\ buf' = SubSeq(buf, 3, Len(buf))
    BY <1>20 DEF ReadWord, TableReads, InTableLoop
  <2>2. PICK l \in OutLine : l.bytes = SubSeq(buf, 1, 2) /\ lines' = Append(lines, l)
    BY <1>20, WordAdded DEF JumpWith
  <2> DEFINE b == SubSeq(buf, 1, 2)
             c == SubSeq(buf, 3, Len(buf))
  <2>3. b \o c = buf /\ b \in Bytes /\ c \in Bytes
    <3>1. Len(buf) \in Nat /\ \A i \in 1..Len(buf) : buf[i] \in 0..255
      BY <1>5, LenProperties, ElementOfSeq DEF Bytes
    <3>2. (\A i \in 1..2 : buf[i] \in 0..255) /\ (\A i \in 3..Len(buf) : buf[i] \in 0..255)
      BY <2>1, <3>1
    <3>3. b \in Bytes /\ c \in Bytes
      BY <3>1, <3>2, SubSeqProperties DEF Bytes
    <3>4. /\ 1 \in 1..(Len(buf) + 1) /\ 2 \in (1 - 1)..Len(buf) /\ Len(buf) \in 2..Len(buf) /\ 2 + 1 = 3
      BY <2>1, <3>1
    <3>5. SubSeq(buf, 1, 2) \o SubSeq(buf, 2 + 1, Len(buf)) = SubSeq(buf, 1, Len(buf))
      BY <1>5, <3>4, ConcatAdjacentSubSeq DEF Bytes
    <3>6. SubSeq(buf, 1, Len(buf)) = buf
      BY <1>5 DEF Bytes
    <3> QED
      BY <3>3, <3>4, <3>5, <3>6
  <2>4. SoFar' = SoFar \o b
    BY <2>1, <2>2, SoFarThen
  <2>5. SoFar \o buf = WishedTo(next - 1)
    BY <1>3, <2>1 DEF KeptInv
  <2>6. buf' = c
    BY <2>1
  <2> HIDE DEF b, c
  <2>7. (SoFar \o b) \o c = SoFar \o (b \o c)
    <3>1. SoFar \in Bytes
      BY <1>5
    <3> QED
      BY <2>3, <3>1, Associates, Zenon
  <2>8. SoFar' \o buf' = WishedTo(next - 1)
    BY <2>3, <2>4, <2>5, <2>6, <2>7, Zenon
  <2> QED
    BY <1>7, <2>1, <2>8
<1>21. CASE TableEnd
  <2>1. /\ labelling = "table" /\ labelling' = "top" /\ next' = next /\ functions' = functions
    BY <1>21 DEF TableEnd, InTableLoop
  <2>2. PICK l, m : /\ PlainWith(l, "", <<>>) /\ PlainWith(m, "db", buf)
                    /\ \/ buf = <<>> /\ lines' = Append(lines, l)
                       \/ buf # <<>> /\ lines' = Append(Append(lines, l), m)
    BY <1>21, LeftOverAdded
  <2>3. SoFar \o <<>> = SoFar
    BY <1>5, Joins
  <2>4. SoFar' = SoFar \o buf
    <3>1. CASE buf = <<>> /\ lines' = Append(lines, l)
      BY <2>1, <2>2, <3>1, SoFarThen DEF PlainWith
    <3>2. CASE buf # <<>> /\ lines' = Append(Append(lines, l), m)
      <4>1. SoFar' = (SoFar \o <<>>) \o buf
        BY <2>1, <2>2, <3>2, SoFarThen DEF PlainWith
      <4> QED
        BY <2>3, <4>1
    <3> QED
      BY <2>2, <3>1, <3>2
  <2>5. SoFar \o buf = WishedTo(next - 1)
    BY <1>3, <2>1 DEF KeptInv
  <2> QED
    BY <1>6, <2>1, <2>4, <2>5
<1>22. CASE FinishLabel
  <2>1. /\ functions' = Append(functions, drain(lines, jumps)) /\ labelling = "end" /\ labelling' = "done"
        /\ left' = left
    BY <1>3, <1>22 DEF FinishLabel
  <2>2. drain(lines, jumps) \in Seq(OutLine) /\ BytesOf(drain(lines, jumps)) = BytesOf(lines)
    BY DrainBytes DEF LabelTypes
  <2>3. OutBytes' = SoFar
    BY <2>1, <2>2, OutBytesIs DEF SoFar
  <2>4. next - 1 \in 0..Len(listing.lines) /\ (Len(listing.lines) + 1) - 1 = Len(listing.lines)
    BY <1>5 DEF LabelTypes
  <2>5. PICK t \in Bytes : Wished = WishedTo(next - 1) \o t
    BY <2>4, WishedPrefix
  <2>6. \/ left = "eof" /\ SoFar = WishedTo(next - 1) /\ next = Len(listing.lines) + 1
        \/ left = "break" /\ SoFar = WishedTo(next - 1) /\ listing.mode = "one"
        \/ left = "cut" /\ SoFar \o buf = WishedTo(next - 1)
    <3> USE <1>3, <2>1
    <3> QED
      BY Zenon DEF KeptInv
  <2>7. IsPrefix(SoFar, Wished)
    <3>1. CASE SoFar = WishedTo(next - 1)
      BY <1>5, <2>5, <3>1, PrefixOf
    <3>2. CASE SoFar \o buf = WishedTo(next - 1)
      <4>1. Wished = SoFar \o (buf \o t) /\ buf \o t \in Bytes
        <5>1. (SoFar \o buf) \o t = SoFar \o (buf \o t)
          BY <1>5, <2>5, Associates, ZenonT(30)
        <5>2. buf \o t \in Bytes
          BY <1>5, <2>5, Joins
        <5> QED
          BY <2>5, <3>2, <5>1, <5>2, Zenon
      <4> QED
        BY <1>5, <4>1, PrefixOf
    <3> QED
      BY <2>6, <3>1, <3>2
  <2>8. left = "eof" => SoFar = Wished
    BY <2>4, <2>6, WishedAll
  <2>9. Wished' = Wished
    BY <1>1 DEF Wished
  <2> QED
    BY <1>1, <2>1, <2>3, <2>6, <2>7, <2>8, <2>9 DEF KeptInv
<1> QED
  BY <1>9, <1>10, <1>11, <1>12, <1>13, <1>14, <1>15, <1>16, <1>17, <1>18, <1>19, <1>20,
     <1>21, <1>22 DEF LabelNext

LEMMA KeptStarts == ASSUME LabelInit, LabelTypes PROVE KeptInv
<1>1. lines = <<>> /\ functions = <<>> /\ labelling = "top" /\ next = 1
  BY DEF LabelInit
<1>2. OutBytes = <<>>
  BY <1>1, OutBytesIs
<1>3. BytesOf(lines) = <<>>
  <2>1. [i \in DOMAIN <<>> |-> <<>>[i].bytes] = <<>>
    OBVIOUS
  <2> QED
    BY <1>1, <2>1, FlattenEmpty DEF BytesOf
<1>4. SoFar = <<>>
  BY <1>2, <1>3, ConcatEmptySeq, EmptySeq DEF SoFar
<1>5. WishedTo(0) = <<>>
  <2>1. Len(listing.lines) \in Nat
    BY ListingIs
  <2> QED
    BY <2>1, WishedNone
<1> QED
  BY <1>1, <1>4, <1>5 DEF KeptInv

\* No byte of the listing is lost or moved, for every listing (main and bytereader).
THEOREM CodeIsKept == LabelSpec => []CodeKept
<1>1. LabelInit => LabelInv /\ KeptInv
  BY LabelStarts, KeptStarts DEF LabelInv
<1>2. LabelInv /\ KeptInv /\ [LabelNext]_labelVars => LabelInv' /\ KeptInv'
  <2> SUFFICES ASSUME LabelInv, KeptInv, [LabelNext]_labelVars PROVE LabelInv' /\ KeptInv'
    OBVIOUS
  <2>1. LabelInv'
    BY LabelInvKept
  <2>2. CASE LabelNext
    BY <2>1, <2>2, KeptStep DEF LabelInv
  <2>3. CASE UNCHANGED labelVars
    <3>1. /\ UNCHANGED listing /\ UNCHANGED next /\ UNCHANGED labelling /\ UNCHANGED lines
          /\ UNCHANGED errorsSeen /\ UNCHANGED buf /\ UNCHANGED left /\ UNCHANGED functions
      BY <2>3 DEF labelVars, tableVars
    <3>2. OutBytes' = OutBytes /\ Wished' = Wished /\ (NopsSkipped' <=> NopsSkipped)
      BY <3>1 DEF OutBytes, BytesOf, Wished, NopsSkipped
    <3>3. SoFar' = SoFar
      BY <3>1, <3>2 DEF SoFar, BytesOf
    <3>4. \A n : WishedTo(n)' = WishedTo(n)
      BY <3>1 DEF WishedTo, Wanted
    <3>5. WishedTo(next - 1)' = WishedTo(next - 1)
      BY <3>1, <3>4
    <3>6. KeptInv'
      BY <3>1, <3>2, <3>3, <3>5 DEF KeptInv
    <3> QED
      BY <2>1, <3>6
  <2> QED
    BY <2>2, <2>3
<1>3. KeptInv => CodeKept
  BY DEF KeptInv, CodeKept, OutBytes
<1> QED
  BY <1>1, <1>2, <1>3, PTL DEF LabelSpec
-----------------------------------------------------------------------------
(***************************************************************************)
(* res.                                                                    *)
(***************************************************************************)
LEMMA PowerIsNat == \A n \in Nat : 2^n \in Nat
<1> SUFFICES ASSUME NEW n \in Nat PROVE 2^n \in Nat
  OBVIOUS
<1>1. IsFiniteSet(1..n) /\ Cardinality(1..n) = n
  BY FS_Interval
<1>2. IsFiniteSet(SUBSET (1..n)) /\ Cardinality(SUBSET (1..n)) = 2^n
  BY <1>1, FS_SUBSET
<1> QED
  BY <1>2, FS_CardinalityType

LEMMA LesserIs ==
  ASSUME NEW a \in Nat, NEW b \in Nat, a <= b
  PROVE  Min({a, b}) = a
BY DEF Min

LEMMA RowsAre ==
  ASSUME NEW s \in Nat, NEW h \in Nat \ {0}
  PROVE  (s * h) \div h = s
OBVIOUS

\* Rows of 32 bits, and enough of them.
LEMMA RowIsPadded ==
  ASSUME NEW w \in Nat, NEW bits \in Nat
  PROVE  /\ stride(w, bits) \in Nat
         /\ (8 * stride(w, bits)) % 32 = 0 /\ 8 * stride(w, bits) >= bits * w
<1> DEFINE q == bits * w
<1>1. q \in Nat
  OBVIOUS
<1> HIDE DEF q
<1>2. /\ ((q + 31) \div 32) * 4 \in Nat
      /\ (8 * (((q + 31) \div 32) * 4)) % 32 = 0 /\ 8 * (((q + 31) \div 32) * 4) >= q
  BY <1>1
<1> QED
  BY <1>2 DEF stride, q

LEMMA SizesAre ==
  ASSUME NEW bmp \in Bitmaps
  PROVE  Palette(bmp) \in Nat /\ PixelBytes(bmp) \in Nat
<1>1. /\ bmp.Width \in Nat /\ bmp.Height \in Nat /\ bmp.NBits \in Nat /\ bmp.NColors \in Nat
      /\ bmp.Len \in Nat
  BY DEF Bitmaps
<1>2. FullPalette(bmp.NBits) \in Nat
  <2>1. 2^(bmp.NBits) \in Nat
    BY <1>1, PowerIsNat
  <2> DEFINE p == 2^(bmp.NBits)
  <2> HIDE DEF p
  <2>2. p \in Nat
    BY <2>1 DEF p
  <2>3. 4 * p \in Nat
    BY <2>2
  <2> QED
    BY <2>3 DEF FullPalette, p
<1>3. Palette(bmp) \in Nat
  BY <1>1, <1>2 DEF Palette
<1>4. stride(bmp.Width, bmp.NBits) \in Nat
  BY <1>1, RowIsPadded
<1>5. stride(bmp.Width, bmp.NBits) * bmp.Height \in Nat
  BY <1>1, <1>4
<1> QED
  BY <1>1, <1>3, <1>5 DEF PixelBytes

\* A bitmap that is there as a whole is dumped as a whole.
LEMMA DumpedWhole ==
  ASSUME NEW bmp \in Bitmaps, bmp.rest >= Palette(bmp) + PixelBytes(bmp)
  PROVE  LET f == Dumped(bmp)
             rowBits == 8 * ((f.length - f.pixelsAt) \div bmp.Height)
         IN  /\ f.size = f.length
             /\ bmp.Compression = 0 /\ bmp.Len = 0 /\ bmp.Height > 0
                  => rowBits % 32 = 0 /\ rowBits >= bmp.NBits * bmp.Width
<1> DEFINE p == Palette(bmp)
           n == PixelBytes(bmp)
           f == Dumped(bmp)
<1>1. p \in Nat /\ n \in Nat
  BY SizesAre
<1>2. bmp.rest \in Nat /\ bmp.rest >= p + n
  BY DEF Bitmaps
<1> HIDE DEF p, n
<1>3. Min({p + n, bmp.rest}) = p + n
  BY <1>1, <1>2, LesserIs
<1>4. f = [size |-> 14 + 40 + (p + n), pixelsAt |-> 14 + 40 + p, length |-> 14 + 40 + (p + n)]
  BY <1>3 DEF Dumped, p, n
<1> HIDE DEF f
<1>5. f.size = f.length /\ f.length - f.pixelsAt = n
  BY <1>1, <1>4
<1>6. ASSUME bmp.Compression = 0, bmp.Len = 0, bmp.Height > 0
      PROVE  LET rowBits == 8 * ((f.length - f.pixelsAt) \div bmp.Height)
             IN  rowBits % 32 = 0 /\ rowBits >= bmp.NBits * bmp.Width
  <2> DEFINE s == stride(bmp.Width, bmp.NBits)
  <2>1. bmp.Width \in Nat /\ bmp.NBits \in Nat /\ bmp.Height \in Nat \ {0}
    BY <1>6 DEF Bitmaps
  <2>2. s \in Nat /\ (8 * s) % 32 = 0 /\ 8 * s >= bmp.NBits * bmp.Width
    BY <2>1, RowIsPadded
  <2>3. n = s * bmp.Height
    BY <1>6 DEF n, PixelBytes
  <2> HIDE DEF s
  <2>4. n \div bmp.Height = s
    BY <2>1, <2>2, <2>3, RowsAre
  <2> QED
    BY <1>5, <2>2, <2>4
<1> QED
  BY <1>5, <1>6 DEF f

\* Which resource it was that a file is of: the last of its name.
Dumps(i) == res[i].type = RT_BITMAP /\ res[i].entry.bmp.HeaderSize = 40
Name(i) == Called(res[i].entry)
ResInv ==
  /\ image \in Images /\ resStep \in {"table", "print", "done", "failed"}
  /\ block \in Nat \ {0} /\ res \in Seq([type : Uint16, entry : Entries])
  /\ item \in 1..(Len(res) + 1) /\ (resStep = "table" => item = 1)
  /\ resStep = "done" => item = Len(res) + 1
  /\ image.dump =>
       \A i \in 1..(item - 1) :
         Dumps(i) /\ (\A k \in (i + 1)..(item - 1) : Name(k) # Name(i))
           => Name(i) \in DOMAIN files /\ files[Name(i)] = Dumped(res[i].entry.bmp)

LEMMA ResStarts == ASSUME ResInit PROVE ResInv
<1>1. res \in Seq([type : Uint16, entry : Entries]) /\ Len(res) = 0
  BY EmptySeq DEF ResInit
<1> QED
  BY <1>1 DEF ResInit, ResInv

LEMMA BlockKeeps == ASSUME ResInv, ReadBlock PROVE ResInv'
<1> DEFINE b == image.blocks[block]
           R == [type : Uint16, entry : Entries]
           new == [i \in 1..b.num |-> [type |-> b.type, entry |-> b.entries[i]]]
<1>1. b \in [type : Uint16, num : Nat, entries : Seq(Entries)]
  <2>1. image.blocks \in Seq([type : Uint16, num : Nat, entries : Seq(Entries)])
    BY ImagesAssumption DEF ResInv
  <2>2. block \in 1..Len(image.blocks)
    BY <2>1 DEF ReadBlock, AtBlock, ResInv
  <2> QED
    BY <2>1, <2>2, ElementOfSeq
<1>2. b.type \in Uint16 /\ b.num \in Nat /\ b.entries \in Seq(Entries)
  BY <1>1
<1> HIDE DEF b
<1>3. /\ image' = image /\ item' = item /\ files' = files /\ item = 1 /\ resStep = "table"
      /\ item - 1 = 0
  BY DEF ReadBlock, AtBlock, ResInv
<1>4. CASE Len(b.entries) < b.num
  <2>1. resStep' = "failed" /\ UNCHANGED <<block, res>>
    BY <1>4 DEF ReadBlock, b
  <2> QED
    BY <1>3, <2>1 DEF ResInv
<1>5. CASE ~(Len(b.entries) < b.num)
  <2>1. res' = res \o new /\ block' = block + 1 /\ resStep' = resStep
    BY <1>5 DEF ReadBlock, b
  <2>2. \A i \in 1..b.num : b.entries[i] \in Entries
    BY <1>2, <1>5, ElementOfSeq
  <2>3. new \in [1..b.num -> R]
    BY <1>2, <2>2
  <2>4. new \in Seq(R)
    BY <1>2, <2>3, ListOf
  <2>5. res \in Seq(R)
    BY DEF ResInv
  <2> HIDE DEF new, R
  <2>6. res' \in Seq(R) /\ Len(res') \in Nat
    BY <2>1, <2>4, <2>5, ConcatProperties, LenProperties
  <2> QED
    BY <1>3, <2>1, <2>6 DEF ResInv, R
<1> QED
  BY <1>4, <1>5

LEMMA PrintKeeps == ASSUME ResInv, PrintResource PROVE ResInv'
<1> DEFINE new == Name(item)
<1>1. /\ image' = image /\ resStep' = resStep /\ block' = block /\ res' = res
      /\ item' = item + 1 /\ resStep = "print" /\ item <= Len(res)
  BY DEF PrintResource
<1>2. Len(res) \in Nat /\ item \in 1..Len(res) /\ item' \in 1..(Len(res) + 1) /\ item' - 1 = item
  BY <1>1, LenProperties DEF ResInv
<1>3. files' = IF image.dump /\ Dumps(item)
               THEN [n \in DOMAIN files \cup {new} |->
                       IF n = new THEN Dumped(res[item].entry.bmp) ELSE files[n]]
               ELSE files
  BY DEF PrintResource, Dumps, Name
<1>4. ASSUME image.dump, NEW i \in 1..item, Dumps(i),
             \A k \in (i + 1)..item : Name(k) # Name(i)
      PROVE  Name(i) \in DOMAIN files' /\ files'[Name(i)] = Dumped(res[i].entry.bmp)
  <2>1. CASE i = item
    BY <1>3, <1>4, <2>1
  <2>2. CASE i # item
    <3>1. i \in 1..(item - 1) /\ item \in (i + 1)..item
          /\ \A k \in (i + 1)..(item - 1) : k \in (i + 1)..item
      BY <1>2, <2>2
    <3>2. Name(i) \in DOMAIN files /\ files[Name(i)] = Dumped(res[i].entry.bmp)
      BY <1>4, <3>1 DEF ResInv
    <3>3. Name(i) # new
      BY <1>4, <3>1
    <3> HIDE DEF new
    <3> QED
      BY <1>3, <3>2, <3>3
  <2> QED
    BY <2>1, <2>2
<1>5. \A i : Dumps(i)' = Dumps(i) /\ Name(i)' = Name(i)
  BY <1>1 DEF Dumps, Name
<1> QED
  BY <1>1, <1>2, <1>4, <1>5 DEF ResInv

LEMMA ResInvKept == ASSUME ResInv, [ResNext]_resVars PROVE ResInv'
<1>1. CASE ReadBlock
  BY <1>1, BlockKeeps
<1>2. CASE EndOfTable
  <2>1. Len(res) \in Nat
    BY LenProperties DEF ResInv
  <2> QED
    BY <1>2, <2>1 DEF EndOfTable, ResInv, Dumps, Name
<1>3. CASE PrintResource
  BY <1>3, PrintKeeps
<1>4. CASE ResDone
  <2>1. Len(res) \in Nat
    BY LenProperties DEF ResInv
  <2> QED
    BY <1>4, <2>1 DEF ResDone, ResInv, Dumps, Name
<1>5. CASE UNCHANGED resVars
  BY <1>5 DEF resVars, ResInv, Dumps, Name
<1> QED
  BY <1>1, <1>2, <1>3, <1>4, <1>5 DEF ResNext

LEMMA DumpsAreWhole == ASSUME ResInv PROVE DumpsWhole
<1> SUFFICES ASSUME resStep = "done", image.dump, NEW i \in DOMAIN res,
                    res[i].type = RT_BITMAP, Indexed(res[i].entry.bmp),
                    \A k \in (i + 1)..Len(res) : Name(k) # Name(i)
             PROVE  LET bmp == res[i].entry.bmp
                        f == files[Name(i)]
                        rowBits == 8 * ((f.length - f.pixelsAt) \div bmp.Height)
                    IN  /\ f.size = f.length
                        /\ bmp.Compression = 0 /\ bmp.Len = 0 /\ bmp.Height > 0
                             => rowBits % 32 = 0 /\ rowBits >= bmp.NBits * bmp.Width
  BY DEF DumpsWhole, Name
<1>1. Len(res) \in Nat /\ i \in 1..Len(res) /\ item - 1 = Len(res)
  BY LenProperties DEF ResInv
<1>2. Dumps(i)
  BY DEF Dumps, Indexed
<1>3. files[Name(i)] = Dumped(res[i].entry.bmp)
  BY <1>1, <1>2 DEF ResInv
<1>4. res[i].entry.bmp \in Bitmaps
  <2>1. res[i] \in [type : Uint16, entry : Entries]
    BY <1>1, ElementOfSeq DEF ResInv
  <2> QED
    BY <2>1 DEF Entries
<1>5. res[i].entry.bmp.rest >= Palette(res[i].entry.bmp) + PixelBytes(res[i].entry.bmp)
  BY DEF Indexed
<1> QED
  BY <1>3, <1>4, <1>5, DumpedWhole

\* For every executable: each bitmap of up to 256 colours that is whole in it
\* becomes a file as long as its header says, with room for every row, unless
\* a later one has its name.  (main, dumpBitmap and stride of res.go.)
THEOREM BitmapsAreWhole == ResSpec => []DumpsWhole
<1>1. ResInit => ResInv
  BY ResStarts
<1>2. ResInv /\ [ResNext]_resVars => ResInv'
  BY ResInvKept
<1>3. ResInv => DumpsWhole
  BY DumpsAreWhole
<1> QED
  BY <1>1, <1>2, <1>3, PTL DEF ResSpec
-----------------------------------------------------------------------------
(***************************************************************************)
(* dialog.                                                                 *)
(***************************************************************************)

\* Where the bytes of two strings come to lie in both.
LEMMA JoinedBytes ==
  ASSUME NEW a \in Bytes, NEW b \in Bytes
  PROVE  /\ Len(a) \in Nat /\ Len(b) \in Nat /\ a \o b \in Bytes
         /\ Len(a \o b) = Len(a) + Len(b)
         /\ \A i \in 1..Len(a) : (a \o b)[i] = a[i]
         /\ \A i \in 1..Len(b) : (a \o b)[Len(a) + i] = b[i]
<1>1. /\ a \o b \in Bytes /\ Len(a \o b) = Len(a) + Len(b)
      /\ \A i \in 1..(Len(a) + Len(b)) : (a \o b)[i] = IF i <= Len(a) THEN a[i] ELSE b[i - Len(a)]
  BY ConcatProperties DEF Bytes
<1>2. Len(a) \in Nat /\ Len(b) \in Nat
  BY LenProperties DEF Bytes
<1>3. ASSUME NEW i \in 1..Len(b) PROVE (a \o b)[Len(a) + i] = b[i]
  <2>1. /\ Len(a) + i \in 1..(Len(a) + Len(b)) /\ ~(Len(a) + i <= Len(a))
        /\ (Len(a) + i) - Len(a) = i
    BY <1>2
  <2> QED
    BY <1>1, <2>1
<1> QED
  BY <1>1, <1>2, <1>3

LEMMA TextsAre ==
  ASSUME NEW s \in CStrings
  PROVE  /\ s \in Bytes /\ Terminated(s) \in Bytes /\ Len(s) \in Nat
         /\ Len(Terminated(s)) = Len(s) + 1 /\ Terminated(s)[Len(s) + 1] = 0
         /\ \A i \in 1..Len(s) : s[i] \in 1..255 /\ Terminated(s)[i] = s[i]
<1>1. Len(s) \in Nat /\ \A i \in 1..Len(s) : s[i] \in 1..255
  BY LenProperties, ElementOfSeq DEF CStrings
<1>2. s \in Bytes
  <2>1. s \in [1..Len(s) -> 1..255]
    BY LenProperties DEF CStrings
  <2>2. s \in [1..Len(s) -> 0..255]
    BY <2>1
  <2> QED
    BY <1>1, <2>2, ListOf DEF Bytes
<1>3. <<0>> \in Bytes /\ Len(<<0>>) = 1 /\ <<0>>[1] = 0
  BY DEF Bytes
<1> DEFINE z == <<0>>
<1> HIDE DEF z
<1>4. /\ s \o z \in Bytes /\ Len(s \o z) = Len(s) + 1
      /\ \A i \in 1..Len(s) : (s \o z)[i] = s[i]
      /\ (s \o z)[Len(s) + 1] = 0
  <2>1. z \in Bytes /\ Len(z) = 1 /\ z[1] = 0 /\ 1 \in 1..Len(z)
    BY <1>3 DEF z
  <2> QED
    <3>1. /\ s \o z \in Bytes /\ Len(s \o z) = Len(s) + Len(z)
          /\ \A i \in 1..Len(s) : (s \o z)[i] = s[i]
          /\ \A i \in 1..Len(z) : (s \o z)[Len(s) + i] = z[i]
      BY <1>2, <2>1, JoinedBytes
    <3> QED
      BY <2>1, <3>1
<1> QED
  BY <1>1, <1>2, <1>4 DEF Terminated, z

LEMMA BytesListed ==
  ASSUME NEW n \in Nat, NEW f \in [1..n -> 0..255]
  PROVE  f \in Bytes /\ Len(f) = n
BY ListOf DEF Bytes

LEMMA ItemIs ==
  ASSUME NEW it \in Items
  PROVE  /\ it.title \in CStrings /\ it.data \in CStrings /\ it.fixed \in Bytes /\ Len(it.fixed) = 15
         /\ Terminated(it.title) \in Bytes /\ Terminated(it.data) \in Bytes /\ LaidOut(it) \in Bytes
         /\ it = [fixed |-> it.fixed, title |-> it.title, data |-> it.data]
<1>1. /\ it.title \in CStrings /\ it.data \in CStrings /\ it.fixed \in [1..15 -> 0..255]
      /\ it = [fixed |-> it.fixed, title |-> it.title, data |-> it.data]
  BY DEF Items
<1>2. it.fixed \in Bytes /\ Len(it.fixed) = 15
  <2> DEFINE n == 15
  <2>1. n \in Nat /\ it.fixed \in [1..n -> 0..255]
    BY <1>1
  <2> HIDE DEF n
  <2>2. it.fixed \in Bytes /\ Len(it.fixed) = n
    BY <2>1, BytesListed
  <2> QED
    BY <2>2 DEF n
<1>3. Terminated(it.title) \in Bytes /\ Terminated(it.data) \in Bytes
  BY <1>1, TextsAre
<1>4. LaidOut(it) \in Bytes
  BY <1>2, <1>3, Joins DEF LaidOut
<1> QED
  BY <1>1, <1>2, <1>3, <1>4

HeadOf(d) == Terminated(d.caption) \o d.size \o Terminated(d.font)

LEMMA DialogIs ==
  ASSUME NEW d \in Dialogs
  PROVE  /\ d.caption \in CStrings /\ d.font \in CStrings
         /\ d.size \in Bytes /\ Len(d.size) = 2 /\ d.size[1] \in 0..255 /\ d.size[2] \in 0..255
         /\ d.size = <<d.size[1], d.size[2]>>
         /\ Terminated(d.caption) \in Bytes /\ Terminated(d.font) \in Bytes /\ HeadOf(d) \in Bytes
         /\ d.items \in Seq(Items) /\ Len(d.items) \in Nat /\ DOMAIN d.items = 1..Len(d.items)
         /\ d = [caption |-> d.caption, size |-> d.size, font |-> d.font, items |-> d.items]
<1>1. /\ d.caption \in CStrings /\ d.font \in CStrings /\ d.size \in [1..2 -> 0..255]
      /\ d.items \in Seq(Items)
      /\ d = [caption |-> d.caption, size |-> d.size, font |-> d.font, items |-> d.items]
  BY DEF Dialogs
<1>2. d.size \in Bytes /\ Len(d.size) = 2
  <2> DEFINE n == 2
  <2>1. n \in Nat /\ d.size \in [1..n -> 0..255]
    BY <1>1
  <2> HIDE DEF n
  <2>2. d.size \in Bytes /\ Len(d.size) = n
    BY <2>1, BytesListed
  <2> QED
    BY <2>2 DEF n
<1>3. d.size = <<d.size[1], d.size[2]>>
  BY <1>1
<1>4. Terminated(d.caption) \in Bytes /\ Terminated(d.font) \in Bytes
  BY <1>1, TextsAre
<1>5. HeadOf(d) \in Bytes
  BY <1>2, <1>4, Joins DEF HeadOf
<1>6. Len(d.items) \in Nat /\ DOMAIN d.items = 1..Len(d.items)
  BY <1>1, LenProperties
<1> QED
  BY <1>1, <1>2, <1>3, <1>4, <1>5, <1>6

\* What lies before an item.
Before(d, k) == HeadOf(d) \o FlattenSeq([i \in 1..k |-> LaidOut(d.items[i])])

LEMMA BeforeIs ==
  ASSUME NEW d \in Dialogs
  PROVE  /\ Before(d, 0) = HeadOf(d) /\ Before(d, Len(d.items)) = Layout(d)
         /\ \A k \in 0..Len(d.items) : Before(d, k) \in Bytes
         /\ \A k \in 1..Len(d.items) : Before(d, k) = Before(d, k - 1) \o LaidOut(d.items[k])
<1> DEFINE n == Len(d.items)
           of(k) == [i \in 1..k |-> LaidOut(d.items[i])]
<1>1. n \in Nat /\ DOMAIN d.items = 1..n /\ HeadOf(d) \in Bytes
  BY DialogIs
<1>2. \A i \in 1..n : LaidOut(d.items[i]) \in Bytes
  <2>1. \A i \in 1..n : d.items[i] \in Items
    BY DialogIs, ElementOfSeq
  <2> QED
    BY <2>1, ItemIs
<1>3. ASSUME NEW k \in 0..n
      PROVE  of(k) \in Seq(Bytes) /\ Len(of(k)) = k /\ FlattenSeq(of(k)) \in Bytes
  <2>1. of(k) \in [1..k -> Bytes] /\ k \in Nat
    BY <1>1, <1>2
  <2>2. of(k) \in Seq(Bytes) /\ Len(of(k)) = k
    BY <2>1, ListOf
  <2> HIDE DEF of
  <2>3. FlattenSeq(of(k)) \in Bytes
    BY <2>2, FlattenType DEF Bytes
  <2> QED
    BY <2>2, <2>3
<1>4. \A k \in 0..n : Before(d, k) \in Bytes
  BY <1>1, <1>3, Joins DEF Before
<1>5. Before(d, 0) = HeadOf(d)
  <2>1. 0 \in 0..n
    BY <1>1
  <2>2. of(0) = <<>>
    BY <1>3, <2>1, EmptySeq
  <2>3. FlattenSeq(of(0)) = <<>>
    BY <2>2, FlattenEmpty
  <2> QED
    BY <1>1, <2>3, Joins DEF Before
<1>6. Before(d, n) = Layout(d)
  BY <1>1 DEF Before, Layout, HeadOf
<1>7. ASSUME NEW k \in 1..n PROVE Before(d, k) = Before(d, k - 1) \o LaidOut(d.items[k])
  <2> DEFINE e == LaidOut(d.items[k])
             t == Append(of(k - 1), e)
  <2>1. k - 1 \in 0..n /\ k \in 0..n /\ e \in Bytes /\ (k - 1) + 1 = k
    BY <1>1, <1>2
  <2>2. of(k - 1) \in Seq(Bytes) /\ Len(of(k - 1)) = k - 1 /\ FlattenSeq(of(k - 1)) \in Bytes
    BY <1>3, <2>1
  <2>3. of(k) = t
    <3>1. /\ t \in Seq(Bytes) /\ DOMAIN t = 1..((k - 1) + 1) /\ t[(k - 1) + 1] = e
          /\ \A i \in 1..(k - 1) : t[i] = of(k - 1)[i]
      <4>1. /\ t \in Seq(Bytes) /\ DOMAIN t = 1..(Len(of(k - 1)) + 1)
            /\ t[Len(of(k - 1)) + 1] = e
            /\ \A i \in DOMAIN of(k - 1) : t[i] = of(k - 1)[i]
        BY <2>1, <2>2, AppendIs
      <4>2. DOMAIN of(k - 1) = 1..(k - 1)
        OBVIOUS
      <4> HIDE DEF t, of
      <4> QED
        BY <2>2, <4>1, <4>2
    <3>2. t = [i \in 1..k |-> t[i]]
      <4> HIDE DEF t
      <4>1. DOMAIN t = 1..k
        BY <2>1, <3>1
      <4>2. t = [i \in DOMAIN t |-> t[i]]
        BY <3>1
      <4> QED
        BY <4>1, <4>2
    <3>3. ASSUME NEW i \in 1..k PROVE t[i] = LaidOut(d.items[i])
      <4>1. CASE i = k
        BY <2>1, <3>1, <4>1
      <4>2. CASE i # k
        <5>1. i \in 1..(k - 1)
          BY <4>2
        <5> HIDE DEF t
        <5> QED
          BY <3>1, <5>1
      <4> QED
        BY <4>1, <4>2
    <3> HIDE DEF t
    <3> QED
      BY <3>2, <3>3
  <2>4. FlattenSeq(of(k)) = FlattenSeq(of(k - 1)) \o e
    <3> HIDE DEF of, e
    <3> QED
      BY <2>1, <2>2, <2>3, FlattenAppend DEF Bytes
  <2> HIDE DEF e
  <2>5. HeadOf(d) \o (FlattenSeq(of(k - 1)) \o e) = (HeadOf(d) \o FlattenSeq(of(k - 1))) \o e
    BY <1>1, <2>1, <2>2, Associates
  <2> QED
    BY <2>4, <2>5 DEF Before, e
<1> QED
  BY <1>4, <1>5, <1>6, <1>7

\* What is before an item is the beginning of the file.
LEMMA BeginsSo ==
  ASSUME NEW d \in Dialogs, NEW k \in 0..Len(d.items)
  PROVE  \E c \in Bytes : Layout(d) = Before(d, k) \o c
<1> DEFINE n == Len(d.items)
           K == {j \in Nat : j <= n => \E c \in Bytes : Layout(d) = Before(d, n - j) \o c}
<1>1. n \in Nat
  BY DialogIs
<1>2. 0 \in K
  <2>1. <<>> \in Bytes /\ n - 0 = n /\ n \in 0..n
    BY <1>1, EmptySeq DEF Bytes
  <2>2. Layout(d) = Before(d, n) \o <<>>
    BY <2>1, BeforeIs, Joins
  <2> QED
    BY <2>1, <2>2
<1>3. ASSUME NEW j \in Nat, j \in K PROVE j + 1 \in K
  <2> SUFFICES ASSUME j + 1 <= n PROVE \E c \in Bytes : Layout(d) = Before(d, n - (j + 1)) \o c
    OBVIOUS
  <2>1. PICK c \in Bytes : Layout(d) = Before(d, n - j) \o c
    BY <1>1, <1>3
  <2>2. n - j \in 1..n /\ (n - j) - 1 = n - (j + 1) /\ n - (j + 1) \in 0..n
    BY <1>1
  <2> DEFINE e == LaidOut(d.items[n - j])
  <2>3. Before(d, n - j) = Before(d, n - (j + 1)) \o e /\ Before(d, n - (j + 1)) \in Bytes
    BY <2>2, BeforeIs
  <2>4. e \in Bytes
    BY <2>2, DialogIs, ElementOfSeq, ItemIs
  <2> HIDE DEF e
  <2>5. e \o c \in Bytes /\ Layout(d) = Before(d, n - (j + 1)) \o (e \o c)
    <3>1. (Before(d, n - (j + 1)) \o e) \o c = Before(d, n - (j + 1)) \o (e \o c)
      BY <2>3, <2>4, Associates
    <3> QED
      BY <2>1, <2>3, <2>4, <3>1, Joins
  <2> QED
    BY <2>5
<1> HIDE DEF K
<1>4. Nat \subseteq K
  BY <1>2, <1>3, NatInd
<1>5. n - k \in K /\ n - k <= n /\ n - (n - k) = k
  BY <1>1, <1>4
<1> QED
  BY <1>5 DEF K
\* The dialog, and the bytes it is laid out as.
Dlg == template.dialog
Whole == Layout(Dlg)

LEMMA PresentIs ==
  ASSUME template \in Templates
  PROVE  /\ Dlg \in Dialogs /\ Whole \in Bytes /\ template.cut \in 0..Len(Whole)
         /\ Present \in Bytes /\ Len(Present) = Len(Whole) - template.cut
         /\ \A i \in 1..Len(Present) : Present[i] = Whole[i]
<1>1. Dlg \in Dialogs /\ template.cut \in 0..Len(Whole)
  BY TemplatesAssumption DEF Dlg, Whole
<1>2. Whole \in Bytes /\ Len(Whole) \in Nat
  <2>1. Len(Dlg.items) \in Nat /\ Len(Dlg.items) \in 0..Len(Dlg.items)
    BY <1>1, DialogIs
  <2>2. Whole \in Bytes
    BY <1>1, <2>1, BeforeIs DEF Whole
  <2> QED
    BY <2>2, LenProperties DEF Bytes
<1> DEFINE m == Len(Whole) - template.cut
<1>3. m \in 0..Len(Whole)
  BY <1>1, <1>2
<1>4. Present = SubSeq(Whole, 1, m)
  BY DEF Present, Whole, Dlg
<1> HIDE DEF m
<1>5. /\ SubSeq(Whole, 1, m) \in Bytes /\ Len(SubSeq(Whole, 1, m)) = m
      /\ \A i \in 1..m : SubSeq(Whole, 1, m)[i] = Whole[i]
  <2>1. \A i \in 1..Len(Whole) : Whole[i] \in 0..255
    BY <1>2, ElementOfSeq DEF Bytes
  <2> DEFINE f == [i \in 1..m |-> Whole[i]]
  <2>2. SubSeq(Whole, 1, m) = f
    BY <1>2, <1>3 DEF Bytes
  <2>3. f \in [1..m -> 0..255] /\ m \in Nat /\ \A i \in 1..m : f[i] = Whole[i]
    BY <1>3, <2>1
  <2> HIDE DEF f
  <2>4. f \in Bytes /\ Len(f) = m
    BY <2>3, BytesListed
  <2> QED
    BY <2>2, <2>3, <2>4
<1> QED
  BY <1>1, <1>2, <1>4, <1>5 DEF m

\* The first zero from a place on.
LEMMA ZeroFromIs ==
  ASSUME Present \in Bytes, NEW at \in Nat \ {0}
  PROVE  \/ ZeroFrom(at) = 0 /\ \A i \in at..Len(Present) : Present[i] # 0
         \/ /\ ZeroFrom(at) \in at..Len(Present) /\ Present[ZeroFrom(at)] = 0
            /\ \A i \in at..(ZeroFrom(at) - 1) : Present[i] # 0
<1> DEFINE I == {i \in at..Len(Present) : Present[i] = 0}
<1>1. Len(Present) \in Nat
  BY LenProperties DEF Bytes
<1>2. ZeroFrom(at) = IF I # {} THEN Min(I) ELSE 0
  BY DEF ZeroFrom, SelectInSubSeq
<1>3. CASE I = {}
  BY <1>2, <1>3
<1>4. CASE I # {}
  <2>1. I \in SUBSET Nat
    BY <1>1
  <2> HIDE DEF I
  <2>2. PICK n \in I : \A j \in I : n <= j
    BY <1>4, <2>1, LeastNat
  <2>3. Min(I) \in I /\ \A j \in I : Min(I) <= j
    BY <2>2 DEF Min
  <2> DEFINE z == Min(I)
  <2> HIDE DEF z
  <2>4. z \in at..Len(Present) /\ Present[z] = 0
    BY <2>3 DEF I, z
  <2>5. ASSUME NEW i \in at..(z - 1) PROVE Present[i] # 0
    <3>1. i \in at..Len(Present) /\ ~(z <= i)
      BY <1>1, <2>4
    <3> QED
      BY <2>3, <3>1 DEF I, z
  <2> QED
    BY <1>2, <1>4, <2>4, <2>5 DEF z
<1> QED
  BY <1>3, <1>4

\* A string of the dialog, read where it begins: it is there with its zero, or
\* nothing is.
Here(a, s) == Len(a) + Len(s) + 1 <= Len(Present)
LEMMA CStringIs ==
  ASSUME template \in Templates, NEW a \in Bytes, NEW s \in CStrings, NEW c \in Bytes,
         Whole = (a \o Terminated(s)) \o c
  PROVE  /\ Here(a, s) => /\ ZeroFrom(Len(a) + 1) # 0
                          /\ CString(Len(a) + 1) = [text |-> s, next |-> Len(a) + Len(s) + 2]
         /\ ~Here(a, s) => /\ ZeroFrom(Len(a) + 1) = 0
                           /\ CString(Len(a) + 1) = [text |-> <<>>, next |-> Len(Present) + 1]
<1> DEFINE at == Len(a) + 1
           t == Terminated(s)
           z == ZeroFrom(at)
           e == Len(a) + Len(s) + 1
<1>1. /\ Len(s) \in Nat /\ t \in Bytes /\ Len(t) = Len(s) + 1 /\ t[Len(s) + 1] = 0
      /\ \A i \in 1..Len(s) : s[i] \in 1..255 /\ t[i] = s[i]
  BY TextsAre
<1> HIDE DEF t
<1>2. /\ Len(a) \in Nat /\ a \o t \in Bytes /\ Len(a \o t) = Len(a) + Len(t)
      /\ \A i \in 1..Len(t) : (a \o t)[Len(a) + i] = t[i]
  BY <1>1, JoinedBytes
<1>3. /\ Len(Whole) = Len(a \o t) + Len(c) /\ Len(c) \in Nat
      /\ \A i \in 1..Len(a \o t) : Whole[i] = (a \o t)[i]
  <2> DEFINE b == a \o t
  <2>1. b \in Bytes /\ Whole = b \o c
    BY <1>2 DEF t
  <2> HIDE DEF b
  <2>2. /\ Len(b \o c) = Len(b) + Len(c) /\ Len(c) \in Nat
        /\ \A i \in 1..Len(b) : (b \o c)[i] = b[i]
    BY <2>1, JoinedBytes
  <2> QED
    BY <2>1, <2>2 DEF b
<1>4. \A i \in 1..(Len(s) + 1) : Whole[Len(a) + i] = t[i]
  <2> SUFFICES ASSUME NEW i \in 1..(Len(s) + 1) PROVE Whole[Len(a) + i] = t[i]
    OBVIOUS
  <2>1. Len(a) + i \in 1..Len(a \o t) /\ i \in 1..Len(t)
    BY <1>1, <1>2
  <2> QED
    BY <1>2, <1>3, <2>1
<1>5. /\ Present \in Bytes /\ Len(Present) \in Nat
      /\ \A i \in 1..Len(Present) : Present[i] = Whole[i]
  BY PresentIs, LenProperties DEF Bytes
<1>6. at \in Nat \ {0} /\ e \in Nat /\ e = Len(a) + (Len(s) + 1)
  BY <1>1, <1>2
<1>7. \/ z = 0 /\ \A i \in at..Len(Present) : Present[i] # 0
      \/ /\ z \in at..Len(Present) /\ Present[z] = 0
         /\ \A i \in at..(z - 1) : Present[i] # 0
  BY <1>5, <1>6, ZeroFromIs
<1>8. Whole[e] = 0
  <2>1. Len(s) + 1 \in 1..(Len(s) + 1)
    BY <1>1
  <2> QED
    BY <1>1, <1>4, <1>6, <2>1
<1>9. \A i \in at..(e - 1) : Whole[i] # 0 /\ Whole[i] = s[i - Len(a)] /\ i - Len(a) \in 1..Len(s)
  <2> SUFFICES ASSUME NEW i \in at..(e - 1)
               PROVE  Whole[i] # 0 /\ Whole[i] = s[i - Len(a)] /\ i - Len(a) \in 1..Len(s)
    OBVIOUS
  <2>1. i - Len(a) \in 1..Len(s) /\ i - Len(a) \in 1..(Len(s) + 1) /\ Len(a) + (i - Len(a)) = i
    BY <1>1, <1>2
  <2>2. Whole[i] = t[i - Len(a)]
    BY <1>4, <2>1
  <2>3. s[i - Len(a)] \in 1..255 /\ t[i - Len(a)] = s[i - Len(a)]
    BY <1>1, <2>1
  <2>4. s[i - Len(a)] # 0
    <3>1. \A v \in 1..255 : v # 0
      OBVIOUS
    <3> QED
      BY <2>3, <3>1
  <2> QED
    BY <2>1, <2>2, <2>3, <2>4
<1>10. ASSUME Here(a, s)
       PROVE  z # 0 /\ CString(at) = [text |-> s, next |-> Len(a) + Len(s) + 2]
  <2>1. e <= Len(Present) /\ e \in at..Len(Present) /\ e \in 1..Len(Present)
    BY <1>1, <1>2, <1>5, <1>10 DEF Here
  <2>2. Present[e] = 0
    BY <1>5, <1>8, <2>1
  <2> HIDE DEF at, e, z
  <2>3. \A i \in at..(e - 1) : i \in 1..Len(Present) /\ Present[i] = Whole[i]
    <3>1. at..(e - 1) \subseteq 1..Len(Present)
      BY <1>5, <1>6, <2>1
    <3> QED
      BY <1>5, <3>1
  <2>4. z = e
    <3>1. z \in at..Len(Present) /\ Present[z] = 0 /\ \A i \in at..(z - 1) : Present[i] # 0
      BY <1>7, <2>1, <2>2
    <3>2. ~(z < e)
      <4> SUFFICES ASSUME z < e PROVE FALSE
        OBVIOUS
      <4>1. z \in at..(e - 1)
        BY <1>5, <1>6, <3>1
      <4> QED
        BY <1>9, <2>3, <3>1, <4>1
    <3>3. ~(z > e)
      <4> SUFFICES ASSUME z > e PROVE FALSE
        OBVIOUS
      <4>1. e \in at..(z - 1)
        BY <1>5, <1>6, <2>1, <3>1
      <4> QED
        BY <2>2, <3>1, <4>1
    <3> QED
      BY <1>5, <1>6, <3>1, <3>2, <3>3
  <2>5. StringAt(at) = s
    <3>1. StringAt(at) = SubSeq(Present, at, e - 1)
      BY <2>4 DEF StringAt, z
    <3>2. SubSeq(Present, at, e - 1) = [i \in 1..Len(s) |-> Present[at + i - 1]]
      <4>1. e - 1 \in Int /\ at \in Int /\ (e - 1) - at + 1 = Len(s)
        BY <1>1, <1>2 DEF at, e
      <4>2. \A i \in 1..Len(s) : Present[i + at - 1] = Present[at + i - 1]
        <5>1. \A i \in 1..Len(s) : i + at - 1 = at + i - 1
          BY <1>6
        <5> QED
          BY <5>1
      <4>3. SubSeq(Present, at, e - 1) = [i \in 1..((e - 1) - at + 1) |-> Present[at + i - 1]]
        BY <1>1, <1>2, <1>5, <1>6, <2>1 DEF Bytes
      <4> QED
        BY <4>1, <4>3
    <3>3. ASSUME NEW i \in 1..Len(s) PROVE Present[at + i - 1] = s[i]
      <4>1. at + i - 1 \in at..(e - 1) /\ (at + i - 1) - Len(a) = i
        BY <1>1, <1>2 DEF at, e
      <4> QED
        BY <1>9, <2>3, <4>1
    <3>4. s = [i \in 1..Len(s) |-> s[i]]
      BY <1>1 DEF CStrings
    <3> QED
      BY <3>1, <3>2, <3>3, <3>4
  <2>6. z # 0 /\ z + 1 = Len(a) + Len(s) + 2
    BY <1>1, <1>2, <2>4 DEF e
  <2>7. CString(at) = [text |-> StringAt(at), next |-> z + 1]
    BY <2>6 DEF CString, z
  <2> QED
    BY <2>5, <2>6, <2>7
<1>11. ASSUME ~Here(a, s)
       PROVE  z = 0 /\ CString(at) = [text |-> <<>>, next |-> Len(Present) + 1]
  <2>1. Len(Present) <= e - 1
    BY <1>1, <1>2, <1>5, <1>11 DEF Here
  <2>2. ASSUME NEW i \in at..Len(Present) PROVE Present[i] # 0
    <3>1. i \in at..(e - 1) /\ i \in 1..Len(Present)
      BY <1>5, <1>6, <2>1, <2>2
    <3> HIDE DEF at, e
    <3> QED
      BY <1>5, <1>9, <3>1
  <2> HIDE DEF at
  <2>3. z = 0
    BY <1>7, <2>2
  <2> QED
    BY <2>3 DEF CString, z
<1> QED
  BY <1>10, <1>11

\* How far dialog has come: it stands before the next item, or where the file
\* ended within what comes before the items.
UpTo(k) == Before(Dlg, k)
InItems == /\ shown.caption = Dlg.caption /\ shown.size = Dlg.size /\ shown.font = Dlg.font
           /\ pos = Len(UpTo(Len(shown.items))) + 1
Lost == pos = Len(Present) + 1 /\ template.cut > 0 /\ shown.items = <<>>
DialogInv ==
  /\ template \in Templates /\ dialogStep \in {"caption", "items", "error", "done"}
  /\ shown \in [caption : CStrings, size : Bytes, font : CStrings, items : Seq(Items)]
  /\ Len(shown.items) <= ItemCount
  /\ \A k \in 1..Len(shown.items) : shown.items[k] = Dlg.items[k]
  /\ dialogStep = "caption" => pos = 1 /\ shown.items = <<>>
  /\ dialogStep # "caption" => InItems \/ Lost
  /\ dialogStep = "done" => Len(shown.items) = ItemCount
  /\ dialogStep = "error" => template.cut > 0

LEMMA NoText == <<>> \in CStrings /\ <<>> \in Bytes /\ <<>> \in Seq(Items) /\ Len(<<>>) = 0
BY EmptySeq DEF CStrings, Bytes

LEMMA DialogStarts == ASSUME DialogInit PROVE DialogInv
<1>1. template \in Templates /\ dialogStep = "caption" /\ pos = 1
      /\ shown = [caption |-> <<>>, size |-> <<>>, font |-> <<>>, items |-> <<>>]
  BY DEF DialogInit
<1>2. ItemCount \in Nat
  BY <1>1, PresentIs, DialogIs DEF ItemCount, Dlg
<1> QED
  BY <1>1, <1>2, NoText DEF DialogInv

\* Past the end of the file there are no strings.
LEMMA NoneBehind ==
  ASSUME Present \in Bytes, NEW at \in Nat \ {0}, at > Len(Present)
  PROVE  CString(at) = [text |-> <<>>, next |-> Len(Present) + 1]
<1>1. Len(Present) \in Nat
  BY LenProperties DEF Bytes
<1>2. ZeroFrom(at) = 0
  <2>1. ~(ZeroFrom(at) \in at..Len(Present))
    BY <1>1
  <2> QED
    BY <2>1, ZeroFromIs
<1> QED
  BY <1>2 DEF CString

LEMMA BytesAre == ASSUME Present \in Bytes, NEW at \in Nat \ {0} PROVE ByteAt(at) \in 0..255
<1>1. \A i \in 1..Len(Present) : Present[i] \in 0..255
  BY ElementOfSeq DEF Bytes
<1>2. Len(Present) \in Nat
  BY LenProperties DEF Bytes
<1>3. CASE at <= Len(Present)
  <2>1. at \in 1..Len(Present)
    BY <1>2, <1>3
  <2> QED
    BY <1>1, <1>3, <2>1 DEF ByteAt
<1>4. CASE ~(at <= Len(Present))
  BY <1>4 DEF ByteAt
<1> QED
  BY <1>3, <1>4

\* The parts of the head, each where it is read.
LEMMA HeadParts ==
  ASSUME template \in Templates
  PROVE  \E c \in Bytes :
           LET cap == Terminated(Dlg.caption)
               font == Terminated(Dlg.font)
           IN  /\ Whole = (HeadOf(Dlg)) \o c
               /\ Dlg.size \o (font \o c) \in Bytes
               /\ Whole = (<<>> \o cap) \o (Dlg.size \o (font \o c))
               /\ Whole = ((cap \o Dlg.size) \o font) \o c
               /\ font \o c \in Bytes
               /\ cap \o Dlg.size \in Bytes /\ Len(cap \o Dlg.size) = Len(Dlg.caption) + 3
               /\ Len(HeadOf(Dlg)) = Len(Dlg.caption) + Len(Dlg.font) + 4
               /\ \A i \in 1..2 : Len(Dlg.caption) + 1 + i <= Len(Whole)
                                  /\ Whole[Len(Dlg.caption) + 1 + i] = Dlg.size[i]
<1> DEFINE cap == Terminated(Dlg.caption)
           font == Terminated(Dlg.font)
           size == Dlg.size
           m == Len(Dlg.caption)
<1>1. Dlg \in Dialogs
  BY PresentIs
<1>2. /\ cap \in Bytes /\ font \in Bytes /\ size \in Bytes /\ Len(size) = 2 /\ HeadOf(Dlg) \in Bytes
      /\ HeadOf(Dlg) = (cap \o size) \o font /\ Len(Dlg.items) \in Nat
      /\ Dlg.caption \in CStrings /\ Dlg.font \in CStrings
  BY <1>1, DialogIs DEF HeadOf
<1>3. Len(cap) = m + 1 /\ Len(font) = Len(Dlg.font) + 1 /\ m \in Nat /\ Len(Dlg.font) \in Nat
  BY <1>2, TextsAre
<1>4. 0 \in 0..Len(Dlg.items)
  BY <1>2
<1>5. PICK c \in Bytes : Whole = HeadOf(Dlg) \o c
  <2>1. PICK c \in Bytes : Layout(Dlg) = Before(Dlg, 0) \o c
    BY <1>1, <1>4, BeginsSo
  <2> QED
    BY <1>1, <2>1, BeforeIs DEF Whole
<1> HIDE DEF cap, font, size, m
<1>6. /\ cap \o size \in Bytes /\ font \o c \in Bytes /\ size \o (font \o c) \in Bytes
      /\ <<>> \o cap = cap
  BY <1>2, <1>5, Joins
<1>7. ((cap \o size) \o font) \o c = cap \o (size \o (font \o c))
  <2>0. cap \in Bytes /\ size \in Bytes /\ font \in Bytes /\ cap \o size \in Bytes /\ font \o c \in Bytes
    BY <1>2, <1>6
  <2>1. ((cap \o size) \o font) \o c = (cap \o size) \o (font \o c)
    <3> DEFINE t == cap \o size
    <3>1. t \in Bytes /\ font \in Bytes /\ c \in Bytes
      BY <2>0
    <3> HIDE DEF t
    <3>2. (t \o font) \o c = t \o (font \o c)
      BY <3>1, Associates
    <3> QED
      BY <3>2 DEF t
  <2>2. (cap \o size) \o (font \o c) = cap \o (size \o (font \o c))
    <3> DEFINE t == font \o c
    <3>1. t \in Bytes /\ cap \in Bytes /\ size \in Bytes
      BY <2>0
    <3> HIDE DEF t
    <3>2. (cap \o size) \o t = cap \o (size \o t)
      BY <3>1, Associates
    <3> QED
      BY <3>2 DEF t
  <2> QED
    BY <2>1, <2>2
<1>8. Len(cap \o size) = m + 3 /\ Len(HeadOf(Dlg)) = m + Len(Dlg.font) + 4
  <2>1. Len(cap \o size) = Len(cap) + Len(size)
    BY <1>2, JoinedBytes
  <2>2. Len((cap \o size) \o font) = Len(cap \o size) + Len(font)
    BY <1>2, <1>6, JoinedBytes
  <2>3. Len(cap) = m + 1 /\ Len(font) = Len(Dlg.font) + 1 /\ m \in Nat /\ Len(Dlg.font) \in Nat
        /\ Len(size) = 2 /\ HeadOf(Dlg) = (cap \o size) \o font
    BY <1>2, <1>3
  <2> DEFINE q == Len(cap \o size)
             h == Len((cap \o size) \o font)
             k == Len(Dlg.font)
  <2>4. /\ q = Len(cap) + Len(size) /\ h = q + Len(font) /\ Len(cap) = m + 1 /\ Len(font) = k + 1
        /\ m \in Nat /\ k \in Nat /\ Len(size) = 2
    BY <2>1, <2>2, <2>3
  <2> HIDE DEF q, h, k
  <2>5. q = m + 3 /\ h = m + k + 4
    BY <2>4
  <2> QED
    BY <2>3, <2>5 DEF q, h, k
<1>9. \A i \in 1..2 : m + 1 + i <= Len(Whole) /\ Whole[m + 1 + i] = size[i]
  <2> SUFFICES ASSUME NEW i \in 1..2 PROVE m + 1 + i <= Len(Whole) /\ Whole[m + 1 + i] = size[i]
    OBVIOUS
  <2> DEFINE rest == font \o c
             tail == size \o rest
  <2>1. rest \in Bytes /\ tail \in Bytes /\ Whole = cap \o tail
    BY <1>2, <1>5, <1>6, <1>7
  <2> HIDE DEF rest
  <2>2. Len(tail) = 2 + Len(rest) /\ Len(rest) \in Nat /\ \A k \in 1..2 : tail[k] = size[k]
    <3>1. /\ Len(size) \in Nat /\ Len(rest) \in Nat /\ Len(size \o rest) = Len(size) + Len(rest)
          /\ \A k \in 1..Len(size) : (size \o rest)[k] = size[k]
      BY <1>2, <2>1, JoinedBytes
    <3> QED
      BY <1>2, <3>1
  <2> HIDE DEF tail
  <2>3. /\ Len(cap \o tail) = Len(cap) + Len(tail)
        /\ \A k \in 1..Len(tail) : (cap \o tail)[Len(cap) + k] = tail[k]
    BY <1>2, <2>1, JoinedBytes
  <2>4. i \in 1..Len(tail) /\ m + 1 + i = Len(cap) + i /\ m + 1 + i <= Len(Whole)
    BY <1>3, <2>1, <2>2, <2>3
  <2> QED
    BY <2>1, <2>2, <2>3, <2>4
<1> QED
  BY <1>2, <1>5, <1>6, <1>7, <1>8, <1>9 DEF cap, font, size, m

LEMMA HeadRead == ASSUME DialogInv, ReadHead PROVE DialogInv'
<1> DEFINE cap == CString(pos)
           font == CString(cap.next + 2)
           m == Len(Dlg.caption)
           n == Len(Dlg.font)
<1>1. /\ template \in Templates /\ pos = 1 /\ shown.items = <<>> /\ dialogStep' = "items"
      /\ template' = template /\ pos' = font.next
      /\ shown' = [shown EXCEPT !.caption = cap.text, !.font = font.text,
                                !.size = <<ByteAt(cap.next), ByteAt(cap.next + 1)>>]
      /\ shown \in [caption : CStrings, size : Bytes, font : CStrings, items : Seq(Items)]
  BY DEF DialogInv, ReadHead
<1>2. /\ Dlg \in Dialogs /\ Present \in Bytes /\ Len(Present) = Len(Whole) - template.cut
      /\ template.cut \in 0..Len(Whole) /\ Whole \in Bytes
      /\ \A i \in 1..Len(Present) : Present[i] = Whole[i]
  BY <1>1, PresentIs
<1>3. Len(Present) \in Nat /\ Len(Whole) \in Nat
  BY <1>2, LenProperties DEF Bytes
<1>4. /\ Dlg.caption \in CStrings /\ Dlg.font \in CStrings /\ Dlg.size = <<Dlg.size[1], Dlg.size[2]>>
      /\ Dlg.size[1] \in 0..255 /\ Dlg.size[2] \in 0..255 /\ Len(Dlg.items) \in Nat
      /\ Dlg.size \in Bytes
  BY <1>2, DialogIs
<1>5. m \in Nat /\ n \in Nat
  BY <1>4, TextsAre
<1>6. PICK c \in Bytes :
        /\ Dlg.size \o (Terminated(Dlg.font) \o c) \in Bytes
        /\ Whole = (<<>> \o Terminated(Dlg.caption)) \o (Dlg.size \o (Terminated(Dlg.font) \o c))
        /\ Whole = ((Terminated(Dlg.caption) \o Dlg.size) \o Terminated(Dlg.font)) \o c
        /\ Terminated(Dlg.caption) \o Dlg.size \in Bytes
        /\ Len(Terminated(Dlg.caption) \o Dlg.size) = m + 3
        /\ Len(HeadOf(Dlg)) = m + n + 4
        /\ \A i \in 1..2 : m + 1 + i <= Len(Whole) /\ Whole[m + 1 + i] = Dlg.size[i]
  BY <1>1, HeadParts
<1>7. /\ m + 1 <= Len(Present) => cap = [text |-> Dlg.caption, next |-> m + 2]
      /\ ~(m + 1 <= Len(Present)) => cap = [text |-> <<>>, next |-> Len(Present) + 1]
  <2>1. Len(<<>>) = 0 /\ <<>> \in Bytes /\ 0 + m + 1 = m + 1 /\ 0 + m + 2 = m + 2 /\ 0 + 1 = 1
    BY <1>5, NoText
  <2> DEFINE e == <<>>
             t == Dlg.size \o (Terminated(Dlg.font) \o c)
  <2>2. e \in Bytes /\ Len(e) = 0 /\ t \in Bytes /\ Whole = (e \o Terminated(Dlg.caption)) \o t
    BY <1>6, <2>1
  <2> HIDE DEF e, t
  <2>3. /\ Here(e, Dlg.caption) => CString(Len(e) + 1) = [text |-> Dlg.caption, next |-> Len(e) + m + 2]
        /\ ~Here(e, Dlg.caption) => CString(Len(e) + 1) = [text |-> <<>>, next |-> Len(Present) + 1]
    BY <1>1, <1>4, <2>2, CStringIs
  <2> QED
    BY <1>1, <2>1, <2>2, <2>3 DEF Here
<1>8. /\ m + n + 4 <= Len(Present) => CString(m + 4) = [text |-> Dlg.font, next |-> m + n + 5]
      /\ ~(m + n + 4 <= Len(Present)) => CString(m + 4) = [text |-> <<>>, next |-> Len(Present) + 1]
  <2> DEFINE a == Terminated(Dlg.caption) \o Dlg.size
  <2>1. a \in Bytes /\ Len(a) = m + 3 /\ Whole = (a \o Terminated(Dlg.font)) \o c
    BY <1>6
  <2> HIDE DEF a
  <2>2. /\ Here(a, Dlg.font) => CString(Len(a) + 1) = [text |-> Dlg.font, next |-> Len(a) + n + 2]
        /\ ~Here(a, Dlg.font) => CString(Len(a) + 1) = [text |-> <<>>, next |-> Len(Present) + 1]
    BY <1>1, <1>4, <2>1, CStringIs
  <2> HIDE DEF m, n
  <2>3. Len(a) + n + 1 = m + n + 4 /\ Len(a) + 1 = m + 4 /\ Len(a) + n + 2 = m + n + 5
    BY <1>5, <2>1
  <2>4. Here(a, Dlg.font) <=> Len(a) + n + 1 <= Len(Present)
    BY DEF Here, n
  <2> QED
    BY <2>2, <2>3, <2>4
<1>9. shown'.items = <<>> /\ ItemCount' = ItemCount /\ ItemCount \in Nat /\ Dlg' = Dlg /\ Present' = Present
  BY <1>1, <1>4 DEF ItemCount, Dlg, Present
<1> HIDE DEF cap, m, n
<1>10. CASE m + n + 4 <= Len(Present)
  <2>1. m + 1 <= Len(Present)
    BY <1>3, <1>5, <1>10
  <2>2. cap.text = Dlg.caption /\ cap.next = m + 2 /\ cap.next + 1 = m + 3 /\ cap.next + 2 = m + 4
    BY <1>5, <1>7, <2>1
  <2>3. font.text = Dlg.font /\ font.next = m + n + 5
    BY <1>8, <1>10, <2>2
  <2>4. ByteAt(m + 2) = Dlg.size[1] /\ ByteAt(m + 3) = Dlg.size[2]
    <3>1. /\ 1 \in 1..2 /\ 2 \in 1..2 /\ m + 1 + 1 = m + 2 /\ m + 1 + 2 = m + 3
          /\ m + 2 \in 1..Len(Present) /\ m + 3 \in 1..Len(Present)
          /\ m + 2 <= Len(Present) /\ m + 3 <= Len(Present)
      BY <1>3, <1>5, <1>10
    <3>2. Whole[m + 2] = Dlg.size[1] /\ Whole[m + 3] = Dlg.size[2]
      BY <1>6, <3>1
    <3> QED
      BY <1>2, <3>1, <3>2 DEF ByteAt
  <2> HIDE DEF font
  <2>5. shown' = [caption |-> Dlg.caption, size |-> Dlg.size, font |-> Dlg.font, items |-> <<>>]
    BY <1>1, <1>4, <2>2, <2>3, <2>4
  <2>6. pos' = Len(UpTo(0)) + 1
    <3>1. UpTo(0) = HeadOf(Dlg)
      BY <1>2, BeforeIs DEF UpTo
    <3>2. Len(UpTo(0)) = m + n + 4 /\ m + n + 4 + 1 = m + n + 5
      BY <1>5, <1>6, <3>1
    <3>3. pos' = font.next
      BY <1>1
    <3> QED
      BY <2>3, <3>2, <3>3
  <2>7. UpTo(Len(shown.items))' = UpTo(0)
    BY <1>9, NoText DEF UpTo
  <2>8. InItems'
    BY <1>9, <2>5, <2>6, <2>7 DEF InItems
  <2>9. shown' \in [caption : CStrings, size : Bytes, font : CStrings, items : Seq(Items)]
    BY <1>4, <2>5, NoText
  <2> QED
    BY <1>1, <1>9, <2>8, <2>9, NoText DEF DialogInv
<1>11. CASE ~(m + n + 4 <= Len(Present))
  <2>1. template.cut > 0
    <3>1. Len(HeadOf(Dlg)) <= Len(Whole)
      <4>1. PICK k \in Bytes : Whole = HeadOf(Dlg) \o k
        BY <1>1, HeadParts
      <4>2. HeadOf(Dlg) \in Bytes
        BY <1>2, DialogIs
      <4>3. Len(Whole) = Len(HeadOf(Dlg)) + Len(k) /\ Len(k) \in Nat /\ Len(HeadOf(Dlg)) \in Nat
        BY <4>1, <4>2, JoinedBytes
      <4> QED
        BY <4>3
    <3>2. Len(HeadOf(Dlg)) = m + n + 4
      BY <1>6
    <3>3. Len(Present) = Len(Whole) - template.cut /\ template.cut \in Nat
      BY <1>2, <1>3
    <3> DEFINE p == Len(Present)
               w == Len(Whole)
    <3>4. /\ m + n + 4 <= w /\ ~(m + n + 4 <= p) /\ p = w - template.cut /\ template.cut \in Nat
          /\ p \in Nat /\ w \in Nat
      BY <1>3, <1>11, <3>1, <3>2, <3>3
    <3> HIDE DEF p, w
    <3> QED
      BY <1>5, <3>4
  <2>2. /\ cap.text \in CStrings /\ cap.next \in Nat \ {0}
        /\ font = [text |-> <<>>, next |-> Len(Present) + 1]
    <3>1. CASE m + 1 <= Len(Present)
      <4>1. cap.text = Dlg.caption /\ cap.next = m + 2 /\ cap.next + 2 = m + 4 /\ m + 2 \in Nat \ {0}
        BY <1>5, <1>7, <3>1
      <4> QED
        BY <1>4, <1>8, <1>11, <4>1
    <3>2. CASE ~(m + 1 <= Len(Present))
      <4>1. cap.text = <<>> /\ cap.next = Len(Present) + 1
        BY <1>7, <3>2
      <4>2. /\ cap.next + 2 \in Nat \ {0} /\ cap.next + 2 > Len(Present) /\ cap.next \in Nat \ {0}
        BY <1>3, <4>1
      <4>3. font = [text |-> <<>>, next |-> Len(Present) + 1]
        BY <1>2, <4>2, NoneBehind
      <4> QED
        BY <4>1, <4>2, <4>3, NoText
    <3> QED
      BY <3>1, <3>2
  <2>3. font.text = <<>> /\ font.next = Len(Present) + 1
    BY <2>2
  <2> HIDE DEF font
  <2>4. ByteAt(cap.next) \in 0..255 /\ ByteAt(cap.next + 1) \in 0..255
    <3>1. cap.next + 1 \in Nat \ {0}
      BY <2>2
    <3> QED
      BY <1>2, <2>2, <3>1, BytesAre
  <2> DEFINE two == <<ByteAt(cap.next), ByteAt(cap.next + 1)>>
  <2>5. two \in Bytes
    BY <2>4 DEF Bytes
  <2> HIDE DEF two
  <2>6. shown' = [caption |-> cap.text, size |-> two, font |-> <<>>, items |-> <<>>]
    BY <1>1, <2>3 DEF two
  <2>7. shown' \in [caption : CStrings, size : Bytes, font : CStrings, items : Seq(Items)]
    BY <2>2, <2>5, <2>6, NoText
  <2>8. Lost'
    BY <1>1, <1>9, <2>1, <2>3 DEF Lost
  <2> QED
    BY <1>1, <1>9, <2>7, <2>8, NoText DEF DialogInv
<1> QED
  BY <1>10, <1>11

\* The parts of an item, each where it is read.
LEMMA ItemParts ==
  ASSUME template \in Templates, NEW k \in 0..(Len(Dlg.items) - 1)
  PROVE  LET it == Dlg.items[k + 1]
             a == UpTo(k) \o it.fixed
             b == a \o Terminated(it.title)
         IN  /\ it \in Items /\ UpTo(k) \in Bytes /\ a \in Bytes /\ b \in Bytes
             /\ Len(a) = Len(UpTo(k)) + 15 /\ Len(b) = Len(UpTo(k)) + Len(it.title) + 16
             /\ Len(UpTo(k + 1)) = Len(b) + Len(it.data) + 1
             /\ Len(UpTo(k)) \in Nat /\ Len(it.title) \in Nat /\ Len(it.data) \in Nat
             /\ \E c \in Bytes : Whole = (b \o Terminated(it.data)) \o c
             /\ \E c \in Bytes : Whole = b \o c
             /\ \A i \in 1..15 : Whole[Len(UpTo(k)) + i] = it.fixed[i]
             /\ Len(UpTo(k + 1)) <= Len(Whole)
<1> DEFINE it == Dlg.items[k + 1]
           fixed == it.fixed
           title == Terminated(it.title)
           more == Terminated(it.data)
           u == UpTo(k)
           a == u \o fixed
           b == a \o title
<1>1. Dlg \in Dialogs
  BY PresentIs
<1>2. Len(Dlg.items) \in Nat /\ Dlg.items \in Seq(Items)
  BY <1>1, DialogIs
<1>3. k \in 0..Len(Dlg.items) /\ k + 1 \in 1..Len(Dlg.items) /\ k + 1 \in 0..Len(Dlg.items)
      /\ (k + 1) - 1 = k
  BY <1>2
<1>4. it \in Items
  BY <1>2, <1>3, ElementOfSeq
<1> HIDE DEF it
<1>5. /\ fixed \in Bytes /\ Len(fixed) = 15 /\ title \in Bytes /\ more \in Bytes
      /\ LaidOut(it) = (fixed \o title) \o more
      /\ it.title \in CStrings /\ it.data \in CStrings
  BY <1>4, ItemIs DEF LaidOut
<1>6. /\ Len(title) = Len(it.title) + 1 /\ Len(more) = Len(it.data) + 1
      /\ Len(it.title) \in Nat /\ Len(it.data) \in Nat
  BY <1>5, TextsAre
<1>7. u \in Bytes /\ UpTo(k + 1) = u \o LaidOut(it)
  BY <1>1, <1>3, BeforeIs DEF UpTo, it
<1>8. PICK c \in Bytes : Whole = UpTo(k + 1) \o c
  BY <1>1, <1>3, BeginsSo DEF UpTo, Whole
<1> HIDE DEF fixed, title, more, u
<1>9. /\ a \in Bytes /\ Len(u) \in Nat /\ Len(a) = Len(u) + Len(fixed)
      /\ \A i \in 1..Len(fixed) : a[Len(u) + i] = fixed[i]
      /\ \A i \in 1..Len(u) : a[i] = u[i]
  BY <1>5, <1>7, JoinedBytes
<1> HIDE DEF a
<1>10. /\ b \in Bytes /\ Len(b) = Len(a) + Len(title)
       /\ \A i \in 1..Len(a) : b[i] = a[i]
  <2>1. a \in Bytes /\ title \in Bytes
    BY <1>5, <1>9
  <2> QED
    BY <2>1, JoinedBytes
<1> HIDE DEF b
<1>11. UpTo(k + 1) = b \o more
  <2>1. fixed \o title \in Bytes
    BY <1>5, Joins
  <2>2. u \o ((fixed \o title) \o more) = (u \o (fixed \o title)) \o more
    <3> DEFINE t == fixed \o title
    <3> HIDE DEF t
    <3>1. t \in Bytes
      BY <2>1 DEF t
    <3>2. u \o (t \o more) = (u \o t) \o more
      BY <1>5, <1>7, <3>1, Associates
    <3> QED
      BY <3>2 DEF t
  <2>3. u \o (fixed \o title) = (u \o fixed) \o title
    BY <1>5, <1>7, Associates
  <2> QED
    BY <1>5, <1>7, <2>2, <2>3 DEF a, b
<1>12. b \o more \in Bytes /\ Len(b \o more) = Len(b) + Len(more)
  BY <1>5, <1>10, JoinedBytes
<1>13. Whole = (b \o more) \o c
  BY <1>8, <1>11
<1>14. more \o c \in Bytes /\ Whole = b \o (more \o c)
  <2>1. b \in Bytes /\ more \in Bytes /\ c \in Bytes
    BY <1>5, <1>8, <1>10
  <2>2. more \o c \in Bytes
    BY <2>1, Joins
  <2>3. (b \o more) \o c = b \o (more \o c)
    BY <2>1, Associates
  <2> QED
    BY <1>13, <2>2, <2>3
<1>15. /\ Len(Whole) = Len(b) + Len(more \o c) /\ Len(more \o c) \in Nat /\ Len(b) \in Nat
       /\ \A i \in 1..Len(b) : Whole[i] = b[i]
  <2> DEFINE t == more \o c
  <2>1. t \in Bytes /\ Whole = b \o t
    BY <1>14
  <2> HIDE DEF t
  <2>2. /\ Len(b \o t) = Len(b) + Len(t) /\ Len(t) \in Nat /\ Len(b) \in Nat
        /\ \A i \in 1..Len(b) : (b \o t)[i] = b[i]
    BY <1>10, <2>1, JoinedBytes
  <2> QED
    BY <2>1, <2>2 DEF t
<1>16. Len(b \o more) <= Len(Whole)
  <2> DEFINE t == b \o more
  <2>1. t \in Bytes /\ Whole = t \o c
    BY <1>12, <1>13
  <2> HIDE DEF t
  <2>2. Len(t \o c) = Len(t) + Len(c) /\ Len(c) \in Nat /\ Len(t) \in Nat
    BY <1>8, <2>1, JoinedBytes
  <2>3. Len(t) <= Len(Whole)
    BY <2>1, <2>2
  <2> QED
    BY <2>3 DEF t
<1> DEFINE la == Len(a)
           lb == Len(b)
           lu == Len(u)
           q == Len(it.title)
           y == Len(it.data)
           w == Len(b \o more)
<1>17. /\ la = lu + Len(fixed) /\ lb = la + Len(title) /\ w = lb + Len(more)
       /\ Len(fixed) = 15 /\ Len(title) = q + 1 /\ Len(more) = y + 1
       /\ lu \in Nat /\ q \in Nat /\ y \in Nat
  BY <1>5, <1>6, <1>9, <1>10, <1>12
<1> HIDE DEF la, lb, lu, q, y, w
<1>18. /\ la \in Nat /\ lb \in Nat /\ la = lu + 15 /\ lb = lu + q + 16 /\ w = lb + y + 1
  BY <1>17
<1>19. ASSUME NEW i \in 1..15 PROVE Whole[Len(u) + i] = fixed[i]
  <2> DEFINE j == Len(u) + i
  <2>1. i \in 1..Len(fixed) /\ lu + i \in 1..la /\ lu + i \in 1..lb
    BY <1>17, <1>18
  <2>2. j \in 1..Len(a) /\ j \in 1..Len(b)
    BY <2>1 DEF la, lb, lu
  <2>3. a[j] = fixed[i]
    BY <1>9, <2>1
  <2> HIDE DEF j
  <2>4. Whole[j] = a[j]
    BY <1>10, <1>15, <2>2
  <2> QED
    BY <2>3, <2>4 DEF j
<1>20. Len(a) = Len(u) + 15 /\ Len(b) = Len(u) + Len(it.title) + 16
       /\ Len(b \o more) = Len(b) + Len(it.data) + 1
  BY <1>18 DEF la, lb, lu, q, y, w
<1>21. /\ \E k1 \in Bytes : Whole = (b \o more) \o k1
       /\ \E k1 \in Bytes : Whole = b \o k1
  BY <1>8, <1>13, <1>14
<1> QED
  BY <1>4, <1>6, <1>7, <1>9, <1>10, <1>11, <1>16, <1>19, <1>20, <1>21
  DEF it, fixed, title, more, u, a, b

\* What is read of an item, and when all of it is there.
LEMMA ItemRead ==
  ASSUME template \in Templates, NEW k \in 0..(Len(Dlg.items) - 1), pos = Len(UpTo(k)) + 1
  PROVE  LET it == Dlg.items[k + 1]
             data == CString(Title.next)
         IN  /\ ItemHere => /\ SubSeq(Present, pos, pos + ItemSize - 1) = it.fixed
                            /\ Title.text = it.title /\ data.text = it.data
                            /\ data.next = Len(UpTo(k + 1)) + 1
             /\ template.cut = 0 => ItemHere
<1> DEFINE it == Dlg.items[k + 1]
           u == Len(UpTo(k))
           p == Len(Present)
           q == Len(it.title)
           y == Len(it.data)
           a == UpTo(k) \o it.fixed
           b == a \o Terminated(it.title)
<1>1. /\ Present \in Bytes /\ p = Len(Whole) - template.cut /\ template.cut \in 0..Len(Whole)
      /\ \A i \in 1..p : Present[i] = Whole[i]
  BY PresentIs
<1>2. p \in Nat /\ Len(Whole) \in Nat
  BY <1>1, PresentIs, LenProperties DEF Bytes
<1>3. /\ it \in Items /\ a \in Bytes /\ b \in Bytes /\ Len(a) = u + 15 /\ Len(b) = u + q + 16
      /\ Len(UpTo(k + 1)) = Len(b) + y + 1
      /\ u \in Nat /\ q \in Nat /\ y \in Nat
      /\ \E c \in Bytes : Whole = (b \o Terminated(it.data)) \o c
      /\ \E c \in Bytes : Whole = b \o c
      /\ \A i \in 1..15 : Whole[u + i] = it.fixed[i]
      /\ Len(UpTo(k + 1)) <= Len(Whole)
  BY ItemParts
<1>4. it.title \in CStrings /\ it.data \in CStrings /\ it.fixed \in [1..15 -> 0..255]
  BY <1>3, ItemIs DEF Items
<1> HIDE DEF it
<1>5. PICK c1 \in Bytes : Whole = (a \o Terminated(it.title)) \o c1
  BY <1>3
<1>6. PICK c2 \in Bytes : Whole = (b \o Terminated(it.data)) \o c2
  BY <1>3
<1> HIDE DEF a, b
<1>7. /\ Here(a, it.title) => /\ ZeroFrom(Len(a) + 1) # 0
                              /\ CString(Len(a) + 1) = [text |-> it.title, next |-> Len(a) + Len(it.title) + 2]
      /\ ~Here(a, it.title) => ZeroFrom(Len(a) + 1) = 0
  BY <1>3, <1>4, <1>5, CStringIs
<1>8. /\ Here(b, it.data) => /\ ZeroFrom(Len(b) + 1) # 0
                             /\ CString(Len(b) + 1) = [text |-> it.data, next |-> Len(b) + Len(it.data) + 2]
      /\ ~Here(b, it.data) => ZeroFrom(Len(b) + 1) = 0
  BY <1>3, <1>4, <1>6, CStringIs
<1>9. /\ Here(a, it.title) <=> Len(a) + q + 1 <= p
      /\ Here(b, it.data) <=> Len(b) + y + 1 <= p
  BY DEF Here
<1>10. Title = CString(pos + ItemSize) /\ (FixedHere <=> pos + ItemSize - 1 <= p)
  BY DEF Title, FixedHere
<1>11. ItemSize = 15 /\ pos = u + 1
  BY DEF ItemSize
<1>12. ItemHere <=> /\ FixedHere /\ ZeroFrom(pos + ItemSize) # 0 /\ ZeroFrom(Title.next) # 0
  BY DEF ItemHere
<1>13. /\ Here(a, it.title) => CString(Len(a) + 1) = [text |-> it.title, next |-> Len(a) + q + 2]
       /\ Here(b, it.data) => CString(Len(b) + 1) = [text |-> it.data, next |-> Len(b) + y + 2]
  BY <1>7, <1>8
<1>14. u \in Nat /\ q \in Nat /\ y \in Nat /\ Len(a) = u + 15
  BY <1>3
<1> HIDE DEF u, p, q, y
<1>15. pos + ItemSize = Len(a) + 1 /\ pos + ItemSize - 1 = u + 15 /\ Len(a) + q + 2 = Len(b) + 1
       /\ Len(b) + y + 2 = Len(UpTo(k + 1)) + 1
  <2> DEFINE v == Len(a)
             w == Len(b)
             z == Len(UpTo(k + 1))
  <2>1. v = u + 15 /\ w = u + q + 16 /\ z = w + y + 1 /\ u \in Nat /\ q \in Nat /\ y \in Nat
    BY <1>3
  <2> HIDE DEF v, w, z
  <2>2. /\ (u + 1) + 15 = v + 1 /\ (u + 1) + 15 - 1 = u + 15 /\ v + q + 2 = w + 1
        /\ w + y + 2 = z + 1
    BY <2>1
  <2> QED
    BY <1>11, <2>2 DEF v, w, z
<1>16. ASSUME Here(a, it.title)
       PROVE  Title.text = it.title /\ Title.next = Len(b) + 1
  <2>1. Title = CString(Len(a) + 1)
    BY <1>10, <1>15
  <2>2. Title = [text |-> it.title, next |-> Len(a) + q + 2]
    BY <1>13, <1>16, <2>1
  <2> QED
    BY <1>15, <2>2
<1>17. ASSUME ItemHere
       PROVE  /\ SubSeq(Present, pos, pos + ItemSize - 1) = it.fixed
              /\ Title.text = it.title /\ CString(Title.next).text = it.data
              /\ CString(Title.next).next = Len(UpTo(k + 1)) + 1
  <2>1. u + 15 <= p /\ ZeroFrom(Len(a) + 1) # 0
    <3>1. FixedHere /\ ZeroFrom(pos + ItemSize) # 0
      BY <1>12, <1>17
    <3> QED
      BY <1>10, <1>15, <3>1
  <2>2. Here(a, it.title)
    BY <1>7, <2>1
  <2>3. Title.text = it.title /\ Title.next = Len(b) + 1
    BY <1>16, <2>2
  <2>4. Here(b, it.data)
    BY <1>8, <1>12, <1>17, <2>3
  <2>5. CString(Title.next) = [text |-> it.data, next |-> Len(UpTo(k + 1)) + 1]
    BY <1>13, <1>15, <2>3, <2>4
  <2>6. SubSeq(Present, pos, pos + ItemSize - 1) = it.fixed
    <3>1. SubSeq(Present, u + 1, u + 15) = [i \in 1..15 |-> Present[u + i]]
      <4>1. /\ u + 1 \in Int /\ u + 15 \in Int /\ (u + 15) - (u + 1) + 1 = 15
            /\ \A i \in 1..15 : i + (u + 1) - 1 = u + i /\ (u + 1) + i - 1 = u + i
        BY <1>14
      <4>2. SubSeq(Present, u + 1, u + 15)
              = [i \in 1..((u + 15) - (u + 1) + 1) |-> Present[(u + 1) + i - 1]]
        <5> DEFINE f == u + 1
                   l == u + 15
        <5>1. /\ f \in Int /\ l \in Int /\ f >= 1 /\ l <= Len(Present) /\ Present \in Seq(0..255)
          BY <1>1, <1>14, <2>1 DEF p, Bytes
        <5> HIDE DEF f, l
        <5>2. \A i \in f..l : Present[i] \in 0..255
          <6>1. Len(Present) \in Nat
            BY <5>1, LenProperties
          <6>2. f..l \subseteq 1..Len(Present)
            BY <5>1, <6>1
          <6> QED
            BY <5>1, <6>2, ElementOfSeq
        <5>3. SubSeq(Present, f, l) = [i \in 1..(l - f + 1) |-> Present[f + i - 1]]
          BY <5>1
        <5> QED
          BY <5>3 DEF f, l
      <4> QED
        BY <4>1, <4>2
    <3>2. ASSUME NEW i \in 1..15 PROVE Present[u + i] = it.fixed[i]
      <4>1. u + i \in 1..p
        BY <1>2, <1>14, <2>1
      <4> QED
        BY <1>1, <1>3, <4>1
    <3>3. it.fixed = [i \in 1..15 |-> it.fixed[i]]
      BY <1>4
    <3>4. SubSeq(Present, pos, pos + ItemSize - 1) = SubSeq(Present, u + 1, u + 15)
      BY <1>15, <1>11
    <3>5. [i \in 1..15 |-> Present[u + i]] = [i \in 1..15 |-> it.fixed[i]]
      BY <3>2
    <3> QED
      BY <3>1, <3>3, <3>4, <3>5
  <2> QED
    BY <2>3, <2>5, <2>6
<1>18. ASSUME template.cut = 0 PROVE ItemHere
  <2>1. /\ u + 15 <= p /\ Len(a) + q + 1 <= p /\ Len(b) + y + 1 <= p
    <3> DEFINE v == Len(a)
               w == Len(b)
               z == Len(UpTo(k + 1))
               l == Len(Whole)
    <3>1. /\ v = u + 15 /\ w = u + q + 16 /\ z = w + y + 1 /\ u \in Nat /\ q \in Nat /\ y \in Nat
          /\ z <= l /\ p = l /\ l \in Nat
      BY <1>1, <1>2, <1>3, <1>18
    <3> HIDE DEF v, w, z, l
    <3>2. u + 15 <= p /\ v + q + 1 <= p /\ w + y + 1 <= p
      BY <3>1
    <3> QED
      BY <3>2 DEF v, w
  <2>2. Here(a, it.title) /\ Here(b, it.data)
    BY <1>9, <2>1
  <2>3. ZeroFrom(pos + ItemSize) # 0 /\ ZeroFrom(Title.next) # 0
    BY <1>7, <1>8, <1>15, <1>16, <2>2
  <2>4. FixedHere
    BY <1>10, <1>15, <2>1
  <2> QED
    BY <1>12, <2>3, <2>4
<1> QED
  BY <1>17, <1>18 DEF it

\* No item is read where the file has ended.
LEMMA LostIsCut ==
  ASSUME template \in Templates, Lost PROVE ~ItemHere
<1>1. Len(Present) \in Nat
  BY PresentIs, LenProperties DEF Bytes
<1>2. ~FixedHere
  BY <1>1 DEF Lost, FixedHere, ItemSize
<1> QED
  BY <1>2 DEF ItemHere

LEMMA ReadItemKeeps == ASSUME DialogInv, ReadItem PROVE DialogInv'
<1> DEFINE k == Len(shown.items)
           new == [fixed |-> SubSeq(Present, pos, pos + ItemSize - 1),
                   title |-> Title.text, data |-> CString(Title.next).text]
<1>1. /\ template \in Templates /\ dialogStep = "items" /\ k < ItemCount /\ ItemHere
      /\ shown' = [shown EXCEPT !.items = Append(shown.items, new)]
      /\ pos' = CString(Title.next).next
      /\ template' = template /\ dialogStep' = dialogStep
      /\ shown \in [caption : CStrings, size : Bytes, font : CStrings, items : Seq(Items)]
      /\ \A j \in 1..k : shown.items[j] = Dlg.items[j]
  BY DEF DialogInv, ReadItem
<1>2. InItems
  BY <1>1, LostIsCut DEF DialogInv
<1>3. shown.items \in Seq(Items) /\ k \in Nat
  BY <1>1, LenProperties
<1>4. Len(Dlg.items) \in Nat /\ ItemCount = Len(Dlg.items) /\ Dlg.items \in Seq(Items)
  BY <1>1, PresentIs, DialogIs DEF ItemCount, Dlg
<1>5. k \in 0..(Len(Dlg.items) - 1) /\ pos = Len(UpTo(k)) + 1
  BY <1>1, <1>2, <1>3, <1>4 DEF InItems
<1> DEFINE it == Dlg.items[k + 1]
<1>6. /\ new.fixed = it.fixed /\ new.title = it.title /\ new.data = it.data
      /\ pos' = Len(UpTo(k + 1)) + 1 /\ it \in Items
  BY <1>1, <1>5, ItemRead, ItemParts
<1>7. new = it
  BY <1>6 DEF Items
<1> HIDE DEF k, new, it
<1>8. /\ Append(shown.items, new) \in Seq(Items) /\ Len(Append(shown.items, new)) = k + 1
      /\ \A j \in 1..k : Append(shown.items, new)[j] = shown.items[j]
      /\ Append(shown.items, new)[k + 1] = new
  BY <1>3, <1>6, <1>7, AppendProperties DEF k
<1> DEFINE list == Append(shown.items, new)
<1> HIDE DEF list
<1>9. /\ shown'.items = list /\ shown'.caption = shown.caption /\ shown'.size = shown.size
      /\ shown'.font = shown.font
      /\ shown' \in [caption : CStrings, size : Bytes, font : CStrings, items : Seq(Items)]
  BY <1>1, <1>8 DEF list
<1>10. Dlg' = Dlg /\ ItemCount' = ItemCount /\ \A j : UpTo(j)' = UpTo(j)
  BY <1>1 DEF Dlg, ItemCount, UpTo
<1>11. \A j \in 1..(k + 1) : list[j] = Dlg.items[j]
  <2> SUFFICES ASSUME NEW j \in 1..(k + 1) PROVE list[j] = Dlg.items[j]
    OBVIOUS
  <2>1. j = k + 1 \/ j \in 1..k
    BY <1>3
  <2> QED
    BY <1>1, <1>7, <1>8, <2>1 DEF list, it, k
<1>12. InItems'
  BY <1>2, <1>6, <1>8, <1>9, <1>10 DEF InItems, list
<1>13. k + 1 <= ItemCount /\ Len(shown'.items) = k + 1
  BY <1>3, <1>4, <1>5, <1>8, <1>9 DEF list
<1> QED
  BY <1>1, <1>9, <1>10, <1>11, <1>12, <1>13 DEF DialogInv

LEMMA DialogInvKept == ASSUME DialogInv, [DialogNext]_dialogVars PROVE DialogInv'
<1>1. CASE ReadHead
  BY <1>1, HeadRead
<1>2. CASE ReadItem
  BY <1>2, ReadItemKeeps
<1>3. CASE ItemCut
  <2>1. template.cut > 0
    <3>1. CASE InItems
      <4> DEFINE k == Len(shown.items)
      <4>1. Len(Dlg.items) \in Nat /\ ItemCount = Len(Dlg.items) /\ template \in Templates
        BY PresentIs, DialogIs DEF ItemCount, Dlg, DialogInv
      <4>2. k \in Nat
        BY LenProperties DEF DialogInv
      <4>3. k < ItemCount /\ ~ItemHere
        BY <1>3 DEF ItemCut
      <4>4. k \in 0..(Len(Dlg.items) - 1) /\ pos = Len(UpTo(k)) + 1
        BY <3>1, <4>1, <4>2, <4>3 DEF InItems
      <4>5. template.cut # 0
        BY <4>1, <4>3, <4>4, ItemRead
      <4>6. template.cut \in Nat
        <5>1. template.cut \in 0..Len(Whole) /\ Len(Whole) \in Nat
          BY <4>1, PresentIs, LenProperties DEF Bytes
        <5> QED
          BY <5>1
      <4> QED
        BY <4>5, <4>6
    <3>2. CASE Lost
      BY <3>2 DEF Lost
    <3> QED
      BY <1>3, <3>1, <3>2 DEF DialogInv, ItemCut
  <2> QED
    BY <1>3, <2>1 DEF ItemCut, DialogInv, InItems, Lost, Dlg, UpTo, ItemCount, Present
<1>4. CASE DialogDone
  BY <1>4 DEF DialogDone, DialogInv, InItems, Lost, Dlg, UpTo, ItemCount, Present
<1>5. CASE UNCHANGED dialogVars
  BY <1>5 DEF dialogVars, DialogInv, InItems, Lost, Dlg, UpTo, ItemCount, Present
<1> QED
  BY <1>1, <1>2, <1>3, <1>4, <1>5 DEF DialogNext

LEMMA ReadAsLaidOut == ASSUME DialogInv PROVE DialogRead
<1> DEFINE k == Len(shown.items)
<1>1. /\ template \in Templates /\ k <= ItemCount /\ shown.items \in Seq(Items)
      /\ \A j \in 1..k : shown.items[j] = Dlg.items[j]
  BY DEF DialogInv
<1>2. /\ Dlg.items \in Seq(Items) /\ Len(Dlg.items) \in Nat /\ ItemCount = Len(Dlg.items)
      /\ Dlg = [caption |-> Dlg.caption, size |-> Dlg.size, font |-> Dlg.font, items |-> Dlg.items]
  BY <1>1, PresentIs, DialogIs DEF ItemCount, Dlg
<1>3. k \in Nat
  BY <1>1, LenProperties
<1>4. IsPrefix(shown.items, Dlg.items)
  <2>1. SubSeq(shown.items, 1, k) = [i \in 1..k |-> shown.items[i]]
    BY <1>1, <1>3
  <2>2. SubSeq(Dlg.items, 1, k) = [i \in 1..k |-> Dlg.items[i]]
    BY <1>1, <1>2, <1>3
  <2>3. SubSeq(shown.items, 1, k) = SubSeq(Dlg.items, 1, k)
    BY <1>1, <2>1, <2>2
  <2> QED
    BY <1>1, <1>2, <2>3 DEF IsPrefix
<1>5. ASSUME dialogStep = "done", template.cut = 0 \/ ItemCount > 0 PROVE shown = Dlg
  <2>1. k = ItemCount /\ (InItems \/ Lost)
    BY <1>5 DEF DialogInv
  <2>2. InItems
    <3> SUFFICES ASSUME Lost PROVE FALSE
      BY <2>1
    <3>1. k = 0 /\ template.cut > 0
      BY NoText DEF Lost
    <3> QED
      BY <1>5, <2>1, <3>1
  <2>3. shown.items = Dlg.items
    <3>1. shown.items = [i \in 1..k |-> shown.items[i]]
      BY <1>1
    <3>2. Dlg.items = [i \in 1..k |-> Dlg.items[i]]
      BY <1>2, <2>1
    <3> QED
      BY <1>1, <3>1, <3>2
  <2>4. shown = [caption |-> shown.caption, size |-> shown.size, font |-> shown.font,
                 items |-> shown.items]
    BY DEF DialogInv
  <2> QED
    BY <1>2, <2>2, <2>3, <2>4 DEF InItems
<1>6. dialogStep = "error" => template.cut > 0
  BY DEF DialogInv
<1> QED
  BY <1>4, <1>5, <1>6 DEF DialogRead, Dlg

\* For every dialog, cut off anywhere: what dialog shows is what was laid out, or
\* it reports an error and has shown the items that are whole.  (readDialog.)
THEOREM DialogsAreRead == DialogSpec => []DialogRead
<1>1. DialogInit => DialogInv
  BY DialogStarts
<1>2. DialogInv /\ [DialogNext]_dialogVars => DialogInv'
  BY DialogInvKept
<1>3. DialogInv => DialogRead
  BY ReadAsLaidOut
<1> QED
  BY <1>1, <1>2, <1>3, PTL DEF DialogSpec
=============================================================================
