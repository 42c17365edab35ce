----------------------------- MODULE LinkProofs -----------------------------
(***************************************************************************)
(* The linker, for every script and every set of objects.  Its variables   *)
(* keep their types, its files hold bytes, no target has two buckets; the  *)
(* segments it lays out do not overlap; the map tells what is declared and *)
(* where it lies; what the script binds stays bound, if it declares a name *)
(* before it looks it up; and the chains that grow through the data stay   *)
(* whole, if the objects are as an assembler writes them.                  *)
(***************************************************************************)
EXTENDS LinkProps, NaturalFacts, SequenceTheorems

(***************************************************************************)
(* Sequences.                                                              *)
(***************************************************************************)
LEMMA FirstOf ==
  ASSUME NEW n \in Nat, NEW I \in SUBSET (1..n), I # {}
  PROVE  Min(I) \in I /\ \A i \in I : Min(I) <= i
<1>1. PICK m \in I : \A i \in I : m <= i
  BY LeastNat
<1> QED
  BY <1>1 DEF Min

LEMMA LastOf ==
  ASSUME NEW n \in Nat, NEW I \in SUBSET (1..n), I # {}
  PROVE  \E m \in I : \A i \in I : i <= m
<1> DEFINE T == {n - i : i \in I}
<1>1. T \in SUBSET Nat /\ T # {}
  <2>1. \A i \in I : n - i \in Nat
    OBVIOUS
  <2> QED
    BY <2>1
<1>2. \A i \in I : n - i \in T
  OBVIOUS
<1>3. \A k \in T : \E m \in I : k = n - m
  OBVIOUS
<1> HIDE DEF T
<1>4. PICK k \in T : \A j \in T : k <= j
  BY <1>1, LeastNat
<1>5. PICK m \in I : k = n - m
  BY <1>3
<1>6. ASSUME NEW i \in I PROVE i <= m
  <2>1. n - m <= n - i
    BY <1>2, <1>4, <1>5
  <2> QED
    BY <2>1
<1> QED
  BY <1>6

LEMMA LeastIn ==
  ASSUME NEW S, IsFiniteSet(S), S # {}, NEW R, StrictOrder(S, R)
  PROVE  \E x \in S : \A y \in S : <<y, x>> \notin R
<1>1. /\ Cardinality(S) \in Nat
      /\ \A n \in 0..(Cardinality(S) - 1) : \E x \in S : RankIn(S, R, x) = n
  BY RanksFill
<1>2. Cardinality(S) # 0
  BY FS_EmptySet
<1>3. PICK x \in S : RankIn(S, R, x) = 0
  BY <1>1, <1>2
<1>4. BelowIn(S, R, x) = {}
  <2>1. IsFiniteSet(BelowIn(S, R, x))
    BY FS_Subset DEF BelowIn
  <2> QED
    BY <1>3, <2>1, FS_EmptySet DEF RankIn
<1> QED
  BY <1>4 DEF BelowIn

\* A finite set of numbers has a greatest.
LEMMA MaxIs ==
  ASSUME NEW S \in SUBSET Nat, IsFiniteSet(S), S # {}
  PROVE  Max(S) \in S /\ \A m \in S : m <= Max(S)
<1> DEFINE R == {mn \in S \X S : mn[1] > mn[2]}
<1>1. \A m, n \in S : <<m, n>> \in R <=> m > n
  OBVIOUS
<1> HIDE DEF R
<1>2. StrictOrder(S, R)
  BY <1>1 DEF StrictOrder
<1>3. PICK x \in S : \A m \in S : <<m, x>> \notin R
  BY <1>2, LeastIn
<1>4. ASSUME NEW m \in S PROVE x >= m
  <2>1. m \in Nat /\ x \in Nat /\ ~(m > x)
    BY <1>1, <1>3
  <2> QED
    BY <2>1
<1> QED
  BY <1>4 DEF Max
-----------------------------------------------------------------------------
(***************************************************************************)
(* Types.                                                                  *)
(***************************************************************************)
ExternalName == {n \in SymbolName : FunOK(n)}
PublicName == [Name: SymbolName, Offset: Nat, Const: BOOLEAN]
ModuleSet == [num: Int, name: STRING, hasSyms: BOOLEAN]
SymbolSet == [name: SymbolName, module: Nat, segment: Nat, offset: Nat, constant: BOOLEAN]
TargetSet == {"segment", "symbol"} \X Nat
SpanSet == [Low: Int, High: Int, Desc: BOOLEAN]
UserSet == [target: TargetSet, spans: Seq(SpanSet)]
BucketSet == [target: TargetSet, patches: Seq(Nat), last: Nat]
SegmentSet == [num: SegmentNumbers, symbols: Seq(Nat), extnames: Seq(ExternalName),
               reloclist: Seq(BucketSet), start: Nat, size: Nat, relocsize: Nat]
FixSet == [FixupType: {"offset", "segment", "unknown"},
           RefType: {"segment", "external", "unknown"}, DataOffset: Nat, RefIndex: Nat]
PatchSet == [addr: Nat, value: Nat]

Objects(in) == Len(in.objects)

LEMMA InputParts ==
  ASSUME input \in Inputs
  PROVE  /\ Objects(input) \in Nat /\ Files = 1..Objects(input) /\ Files \subseteq SegmentNumbers
         /\ \A i \in Files : /\ Len(input.objects[i]) \in Nat
                             /\ DOMAIN input.objects[i] = 1..Len(input.objects[i])
                             /\ \A k \in DOMAIN input.objects[i] : RecordOK(input.objects[i][k])
         /\ Len(input.script) \in Nat
         /\ \A k \in 1..Len(input.script) :
              /\ LineOK(input.script[k])
              /\ input.script[k].cmd = "RELOC" /\ input.script[k].seg > 0
                   => input.script[k].seg \in SegmentNumbers
         /\ SegmentNumbers \subseteq Nat /\ input.seg \in SegmentNumbers \cup {0}
<1>1. /\ input.objects \in Seq(Range(input.objects)) /\ DOMAIN input.objects \subseteq SegmentNumbers
      /\ \A i \in DOMAIN input.objects :
           /\ input.objects[i] \in Seq(Range(input.objects[i]))
           /\ \A k \in DOMAIN input.objects[i] : RecordOK(input.objects[i][k])
      /\ input.script \in Seq(Range(input.script))
      /\ \A k \in DOMAIN input.script : LineOK(input.script[k])
      /\ \A k \in DOMAIN input.script :
           input.script[k].cmd = "RELOC" /\ input.script[k].seg > 0
             => input.script[k].seg \in SegmentNumbers
      /\ SegmentNumbers \subseteq Nat /\ input.seg \in SegmentNumbers \cup {0}
  BY InputsAssumption DEF IsList
<1>2. Objects(input) \in Nat /\ Files = 1..Objects(input)
  BY <1>1, LenProperties DEF Files, Objects
<1>3. Len(input.script) \in Nat /\ DOMAIN input.script = 1..Len(input.script)
  BY <1>1, LenProperties
<1>4. \A i \in Files : /\ Len(input.objects[i]) \in Nat
                       /\ DOMAIN input.objects[i] = 1..Len(input.objects[i])
  BY <1>1, LenProperties DEF Files
<1> QED
  BY <1>1, <1>2, <1>3, <1>4 DEF Files
-----------------------------------------------------------------------------
(***************************************************************************)
(* Records of an object.                                                   *)
(***************************************************************************)
LEMMA ExternalNamesType ==
  ASSUME input \in Inputs, NEW i \in Files
  PROVE  ReadExternalNames(input.objects[i]) \in Seq(ExternalName)
<1> DEFINE obj == input.objects[i]
           n == Len(obj)
           names(k) == IF obj[k].type = "EXTDEF" THEN obj[k].names ELSE <<>>
           lists == [k \in DOMAIN obj |-> names(k)]
<1>1. n \in Nat /\ DOMAIN obj = 1..n
  BY InputParts
<1>2. ASSUME NEW k \in 1..n PROVE names(k) \in Seq(ExternalName)
  <2>1. CASE obj[k].type = "EXTDEF"
    <3>1. RecordOK(obj[k])
      BY <1>1, InputParts
    <3>2. /\ obj[k].names \in Seq(SymbolName)
          /\ \A j \in DOMAIN obj[k].names : FunOK(obj[k].names[j])
      BY <2>1, <3>1 DEF RecordOK
    <3> DEFINE l == obj[k].names
    <3> HIDE DEF l
    <3>3. l \in Seq(SymbolName) /\ \A j \in DOMAIN l : FunOK(l[j])
      BY <3>2 DEF l
    <3>4. \A j \in 1..Len(l) : l[j] \in ExternalName
      BY <3>3, ElementOfSeq, LenProperties DEF ExternalName
    <3>5. Len(l) \in Nat /\ l \in [1..Len(l) -> ExternalName]
      BY <3>3, <3>4, LenProperties
    <3>6. l \in Seq(ExternalName)
      BY <3>5, ListOf
    <3> QED
      BY <2>1, <3>6 DEF l
  <2>2. CASE obj[k].type # "EXTDEF"
    BY <2>2, EmptySeq
  <2> QED
    BY <2>1, <2>2
<1>3. lists \in [1..n -> Seq(ExternalName)]
  BY <1>1, <1>2
<1>4. FlattenSeq(lists) \in Seq(ExternalName)
  <2> HIDE DEF lists
  <2> QED
    BY <1>1, <1>3, ListOf, FlattenType
<1> QED
  BY <1>4 DEF ReadExternalNames, NamesIn, parseExtdef

LEMMA ObjNamesType ==
  ASSUME input \in Inputs, NEW i \in Files
  PROVE  ReadObjNames(input.objects[i]) \in Seq(PublicName)
<1> DEFINE obj == input.objects[i]
           n == Len(obj)
           names(k) == IF obj[k].type = "PUBDEF" THEN parsePubdef(obj[k]) ELSE <<>>
           lists == [k \in DOMAIN obj |-> names(k)]
<1>1. n \in Nat /\ DOMAIN obj = 1..n
  BY InputParts
<1>2. ASSUME NEW k \in 1..n PROVE names(k) \in Seq(PublicName)
  <2>1. CASE obj[k].type = "PUBDEF"
    <3>1. RecordOK(obj[k])
      BY <1>1, InputParts
    <3>2. obj[k].names \in Seq([name: SymbolName, offset: Nat])
      BY <2>1, <3>1 DEF RecordOK
    <3> DEFINE l == obj[k].names
               base == obj[k].base
    <3> HIDE DEF l
    <3>3. l \in Seq([name: SymbolName, offset: Nat])
      BY <3>2 DEF l
    <3>4. Len(l) \in Nat /\ DOMAIN l = 1..Len(l)
      BY <3>3, LenProperties
    <3> DEFINE row(j) == [Name |-> l[j].name, Offset |-> l[j].offset, Const |-> base = 0]
    <3>5. ASSUME NEW j \in 1..Len(l) PROVE row(j) \in PublicName
      <4>1. l[j] \in [name: SymbolName, offset: Nat]
        BY <3>3, ElementOfSeq
      <4> QED
        BY <4>1 DEF PublicName
    <3> HIDE DEF row
    <3>6. [j \in 1..Len(l) |-> row(j)] \in [1..Len(l) -> PublicName]
      BY <3>5
    <3>7. [j \in 1..Len(l) |-> row(j)] \in Seq(PublicName)
      BY <3>4, <3>6, ListOf
    <3>8. parsePubdef(obj[k]) = [j \in 1..Len(l) |-> row(j)]
      BY <3>4 DEF parsePubdef, l, row
    <3> QED
      BY <2>1, <3>7, <3>8
  <2>2. CASE obj[k].type # "PUBDEF"
    BY <2>2, EmptySeq
  <2> QED
    BY <2>1, <2>2
<1>3. lists \in [1..n -> Seq(PublicName)]
  BY <1>1, <1>2
<1>4. FlattenSeq(lists) \in Seq(PublicName)
  <2> HIDE DEF lists
  <2> QED
    BY <1>1, <1>3, ListOf, FlattenType
<1> QED
  BY <1>4 DEF ReadObjNames, NamesIn

\* New names are new.
LEMMA NewNamesType ==
  ASSUME NEW names \in Seq(PublicName)
  PROVE  NewNames(names) \in Seq({p \in PublicName : p.Name \notin DOMAIN symtab})
<1> DEFINE N == {p \in PublicName : p.Name \notin DOMAIN symtab}
           n == Len(names)
           first(i) == /\ names[i].Name \notin DOMAIN symtab
                       /\ \A j \in 1..(i - 1) : names[j].Name # names[i].Name
           one(i) == IF first(i) THEN <<names[i]>> ELSE <<>>
           lists == [i \in DOMAIN names |-> one(i)]
<1>1. n \in Nat /\ DOMAIN names = 1..n
  BY LenProperties
<1>2. ASSUME NEW i \in 1..n PROVE one(i) \in Seq(N)
  <2>1. CASE first(i)
    <3>1. names[i] \in N
      BY <2>1, ElementOfSeq
    <3> HIDE DEF N
    <3>2. <<names[i]>> \in Seq(N)
      BY <3>1
    <3> QED
      BY <2>1, <3>2
  <2>2. CASE ~first(i)
    BY <2>2, EmptySeq
  <2> QED
    BY <2>1, <2>2
<1> HIDE DEF N
<1>3. lists \in [1..n -> Seq(N)]
  BY <1>1, <1>2
<1>4. FlattenSeq(lists) \in Seq(N)
  <2> HIDE DEF lists
  <2> QED
    BY <1>1, <1>3, ListOf, FlattenType
<1> QED
  BY <1>4 DEF NewNames, N

\* A subrecord that can be parsed is a fixup.
LEMMA SubType ==
  ASSUME NEW sub, SubOK(sub)
  PROVE  ParseSub(sub) \in FixSet
<1>1. /\ sub \in Seq(Byte) /\ Len(sub) \in 4..5 /\ (Len(sub) = 5 <=> sub[4] >= 128)
      /\ \A k \in 1..Len(sub) : sub[k] \in Byte
  BY ElementOfSeq DEF SubOK
<1>2. sub[1] \in Byte /\ sub[2] \in Byte /\ sub[4] \in Byte /\ (Len(sub) = 5 => sub[5] \in Byte)
  BY <1>1
<1>3. FixupType(sub) \in {"offset", "segment", "unknown"}
  BY Zenon DEF FixupType
<1>6. RefType(sub) \in {"segment", "external", "unknown"}
  BY Zenon DEF RefType
<1>4. sub[2] + (sub[1] % 4) * 256 \in Nat
  <2>1. \A a, b \in 0..255 : a + (b % 4) * 256 \in Nat
    OBVIOUS
  <2> QED
    BY <1>2, <2>1 DEF Byte
<1>5. readIndex(SubSeq(sub, 4, Len(sub))) \in Nat
  <2> DEFINE b == SubSeq(sub, 4, Len(sub))
             l == Len(sub)
  <2>1. \A k \in 4..l : sub[k] \in Byte
    BY <1>1
  <2>2. l \in Int
    BY <1>1
  <2>3. \A k \in 1..(l - 4 + 1) : b[k] = sub[4 + k - 1]
    BY <2>1, <2>2, SubSeqProperties
  <2>4. b[1] = sub[4]
    <3>1. 1 \in 1..(l - 4 + 1) /\ 4 + 1 - 1 = 4
      BY <1>1
    <3> QED
      BY <2>3, <3>1
  <2>5. l = 5 => b[2] = sub[5]
    <3>1. l = 5 => 2 \in 1..(l - 4 + 1) /\ 4 + 2 - 1 = 5
      OBVIOUS
    <3> QED
      BY <2>3, <3>1
  <2> HIDE DEF b
  <2>6. b[1] \in Byte /\ (b[1] >= 128 => b[2] \in Byte)
    BY <1>1, <1>2, <2>4, <2>5
  <2>7. readIndex(b) \in Nat
    <3>1. CASE b[1] >= 128
      <4>1. (b[1] % 128) * 256 + b[2] \in Nat
        <5>1. b[1] \in Nat /\ b[2] \in Nat
          BY <2>6, <3>1 DEF Byte
        <5>2. b[1] % 128 \in Nat
          BY <5>1
        <5>3. \A m, n \in Nat : m * 256 + n \in Nat
          OBVIOUS
        <5> QED
          BY <5>1, <5>2, <5>3
      <4> QED
        BY <3>1, <4>1 DEF readIndex
    <3>2. CASE ~(b[1] >= 128)
      BY <2>6, <3>2 DEF readIndex, Byte
    <3> QED
      BY <3>1, <3>2
  <2> QED
    BY <2>7 DEF b
<1> QED
  BY <1>3, <1>4, <1>5, <1>6 DEF ParseSub, FixSet

LEMMA FixupsType ==
  ASSUME NEW r, RecordOK(r), r.type = "FIXUP"
  PROVE  ParseFixup(r) \in Seq(FixSet)
<1> DEFINE n == Len(r.subs)
<1>1. r.subs \in Seq(Seq(Byte)) /\ \A i \in DOMAIN r.subs : SubOK(r.subs[i])
  BY DEF RecordOK
<1>2. n \in Nat /\ DOMAIN r.subs = 1..n
  BY <1>1, LenProperties
<1>3. \A i \in 1..n : ParseSub(r.subs[i]) \in FixSet
  BY <1>1, <1>2, SubType
<1>4. [i \in 1..n |-> ParseSub(r.subs[i])] \in [1..n -> FixSet]
  BY <1>3
<1>5. [i \in 1..n |-> ParseSub(r.subs[i])] \in Seq(FixSet)
  BY <1>2, <1>4, ListOf
<1> QED
  BY <1>2, <1>5 DEF ParseFixup

\* A word put into bytes.
LEMMA Put16Is ==
  ASSUME NEW bytes \in Seq(Byte), NEW at \in Nat, at + 2 <= Len(bytes), NEW v, Put16OK(v)
  PROVE  /\ Put16(bytes, at, v) \in Seq(Byte) /\ Len(Put16(bytes, at, v)) = Len(bytes)
         /\ Put16(bytes, at, v)[at + 1] = v % 256 /\ Put16(bytes, at, v)[at + 2] = v \div 256
         /\ \A i \in 1..Len(bytes) :
              i # at + 1 /\ i # at + 2 => Put16(bytes, at, v)[i] = bytes[i]
<1> DEFINE n == Len(bytes)
           new == Put16(bytes, at, v)
<1>1. n \in Nat /\ bytes \in [1..n -> Byte]
  BY LenProperties
<1>2. v % 256 \in Byte /\ v \div 256 \in Byte
  BY DEF Put16OK, Byte
<1>3. at + 1 \in 1..n /\ at + 2 \in 1..n /\ at + 1 # at + 2
  BY <1>1
<1>4. new \in [1..n -> Byte]
  BY <1>1, <1>2 DEF Put16
<1>5. /\ new[at + 1] = v % 256 /\ new[at + 2] = v \div 256
      /\ \A i \in 1..n : i # at + 1 /\ i # at + 2 => new[i] = bytes[i]
  BY <1>1, <1>3 DEF Put16
<1> HIDE DEF new
<1>6. new \in Seq(Byte) /\ Len(new) = n
  BY <1>1, <1>4, ListOf
<1> QED
  BY <1>5, <1>6 DEF new
-----------------------------------------------------------------------------
(***************************************************************************)
(* Symbols.                                                                *)
(***************************************************************************)
SymbolsKnown(tab, syms) ==
  \A n \in DOMAIN tab : tab[n] \in 1..Len(syms) /\ syms[tab[n]].name = n

LEMMA AddedSymbols ==
  ASSUME symbols \in Seq(SymbolSet), SymbolsKnown(symtab, symbols), NEW new \in Seq(SymbolSet)
  PROVE  /\ symbols \o new \in Seq(SymbolSet)
         /\ Len(symbols \o new) = Len(symbols) + Len(new)
         /\ \A i \in 1..Len(symbols) : (symbols \o new)[i] = symbols[i]
         /\ \A i \in 1..Len(new) : (symbols \o new)[Len(symbols) + i] = new[i]
         /\ SymbolsKnown(Bound(new), symbols \o new)
         /\ DOMAIN symtab \subseteq DOMAIN Bound(new)
         /\ \A n \in DOMAIN symtab :
              (\A i \in 1..Len(new) : new[i].name # n) => Bound(new)[n] = symtab[n]
<1> DEFINE l == Len(symbols)
           m == Len(new)
           all == symbols \o new
           names == {new[i].name : i \in DOMAIN new}
           last(n) == CHOOSE i \in DOMAIN new :
                        new[i].name = n /\ \A j \in DOMAIN new : new[j].name = n => j <= i
           tab == Bound(new)
<1>1. l \in Nat /\ m \in Nat /\ DOMAIN new = 1..m
  BY LenProperties
<1>2. /\ all \in Seq(SymbolSet) /\ Len(all) = l + m
      /\ \A i \in 1..(l + m) : all[i] = IF i <= l THEN symbols[i] ELSE new[i - l]
  <2>1. /\ symbols \o new \in Seq(SymbolSet) /\ Len(symbols \o new) = Len(symbols) + Len(new)
        /\ \A i \in 1..(Len(symbols) + Len(new)) : (symbols \o new)[i] =
             IF i <= Len(symbols) THEN symbols[i] ELSE new[i - Len(symbols)]
    BY ConcatProperties
  <2> QED
    BY <2>1
<1> HIDE DEF all
<1>3. \A i \in 1..l : all[i] = symbols[i]
  BY <1>1, <1>2
<1>4. ASSUME NEW i \in 1..m PROVE l + i \in 1..(l + m) /\ all[l + i] = new[i]
  <2>1. l + i \in 1..(l + m) /\ ~(l + i <= l) /\ (l + i) - l = i
    BY <1>1
  <2> QED
    BY <1>2, <2>1
<1>5. /\ DOMAIN tab = DOMAIN symtab \cup names
      /\ \A n \in DOMAIN symtab \cup names :
           tab[n] = IF n \in names THEN l + last(n) ELSE symtab[n]
  BY DEF Bound
<1>6. ASSUME NEW n \in names PROVE last(n) \in 1..m /\ new[last(n)].name = n
  <2> DEFINE I == {i \in 1..m : new[i].name = n}
  <2>1. I # {} /\ I \in SUBSET (1..m)
    BY <1>1
  <2>2. PICK k \in I : \A i \in I : i <= k
    BY <1>1, <2>1, LastOf
  <2>3. \E i \in DOMAIN new :
          new[i].name = n /\ \A j \in DOMAIN new : new[j].name = n => j <= i
    BY <1>1, <2>2
  <2>4. last(n) \in DOMAIN new /\ new[last(n)].name = n
    BY <2>3
  <2> QED
    BY <1>1, <2>4
<1> HIDE DEF last, tab
<1>7. ASSUME NEW n \in DOMAIN tab PROVE tab[n] \in 1..Len(all) /\ all[tab[n]].name = n
  <2>1. CASE n \in names
    <3>1. last(n) \in 1..m /\ new[last(n)].name = n /\ tab[n] = l + last(n)
      BY <1>5, <1>6, <2>1
    <3>2. l + last(n) \in 1..(l + m) /\ all[l + last(n)] = new[last(n)]
      BY <1>4, <3>1
    <3> QED
      BY <1>2, <3>1, <3>2
  <2>2. CASE n \notin names
    <3>1. n \in DOMAIN symtab /\ tab[n] = symtab[n]
      BY <1>5, <2>2
    <3>2. symtab[n] \in 1..l /\ symbols[symtab[n]].name = n
      BY <3>1 DEF SymbolsKnown
    <3> QED
      BY <1>1, <1>2, <1>3, <3>1, <3>2
  <2> QED
    BY <2>1, <2>2
<1>8. SymbolsKnown(tab, all)
  BY <1>7 DEF SymbolsKnown
<1>9. \A n \in DOMAIN symtab : (\A i \in 1..m : new[i].name # n) => tab[n] = symtab[n]
  BY <1>1, <1>5
<1> QED
  BY <1>2, <1>3, <1>4, <1>5, <1>8, <1>9 DEF all, tab
-----------------------------------------------------------------------------
(***************************************************************************)
(* Buckets.                                                                *)
(***************************************************************************)
Distinct(list) == \A j, k \in DOMAIN list : list[j].target = list[k].target => j = k
Buckets == {list \in Seq(BucketSet) : Distinct(list)}
HasBucket(list, t) == \E i \in DOMAIN list : list[i].target = t
Fresh(list) == \A i \in DOMAIN list : list[i].patches = <<>> /\ list[i].last = End

LEMMA BucketIs ==
  ASSUME NEW list \in Seq(BucketSet), NEW t
  PROVE  /\ BucketOf(list, t) \in 0..Len(list)
         /\ BucketOf(list, t) # 0 => list[BucketOf(list, t)].target = t
         /\ HasBucket(list, t) <=> BucketOf(list, t) # 0
<1> DEFINE n == Len(list)
           I == {i \in 1..n : list[i].target = t}
<1>1. n \in Nat /\ DOMAIN list = 1..n
  BY LenProperties
<1>2. BucketOf(list, t) = IF I # {} THEN Min(I) ELSE 0
  BY DEF BucketOf, SelectInSeq
<1>3. CASE I = {}
  BY <1>1, <1>2, <1>3 DEF HasBucket
<1>4. CASE I # {}
  <2>1. Min(I) \in I
    BY <1>1, <1>4, FirstOf
  <2>2. BucketOf(list, t) \in 1..n /\ list[BucketOf(list, t)].target = t
    BY <1>2, <1>4, <2>1
  <2> QED
    BY <1>1, <2>2 DEF HasBucket
<1> QED
  BY <1>3, <1>4

LEMMA MadeBucket ==
  ASSUME NEW list \in Buckets, NEW t \in TargetSet
  PROVE  /\ getOrMake(list, t) \in Buckets /\ HasBucket(getOrMake(list, t), t)
         /\ \A u : HasBucket(list, u) => HasBucket(getOrMake(list, t), u)
         /\ \A i \in DOMAIN getOrMake(list, t) :
              \/ i \in DOMAIN list /\ getOrMake(list, t)[i] = list[i]
              \/ getOrMake(list, t)[i] = RelocInfo(t)
<1> DEFINE new == getOrMake(list, t)
           n == Len(list)
<1>1. list \in Seq(BucketSet) /\ Distinct(list) /\ n \in Nat /\ DOMAIN list = 1..n
  BY LenProperties DEF Buckets
<1>2. CASE BucketOf(list, t) # 0
  <2>1. new = list
    BY <1>2 DEF getOrMake
  <2>2. HasBucket(list, t)
    BY <1>1, <1>2, BucketIs
  <2> HIDE DEF new
  <2> QED
    BY <2>1, <2>2 DEF new
<1>3. CASE BucketOf(list, t) = 0
  <2> DEFINE r == RelocInfo(t)
  <2>1. r \in BucketSet /\ r.target = t
    <3>1. End \in Nat
      BY DEF End
    <3>2. <<>> \in Seq(Nat)
      BY EmptySeq
    <3> QED
      BY <3>1, <3>2 DEF RelocInfo, BucketSet
  <2> HIDE DEF r
  <2>2. new = Append(list, r)
    BY <1>3 DEF getOrMake, r
  <2> HIDE DEF new
  <2>3. /\ new \in Seq(BucketSet) /\ Len(new) = n + 1 /\ DOMAIN new = 1..(n + 1)
        /\ \A i \in 1..n : new[i] = list[i]
        /\ new[n + 1] = r
    BY <1>1, <2>1, <2>2
  <2>4. \A i \in 1..n : list[i].target # t
    BY <1>1, <1>3, BucketIs DEF HasBucket
  <2>5. Distinct(new)
    <3>1. ASSUME NEW j \in 1..(n + 1), NEW k \in 1..(n + 1), new[j].target = new[k].target
          PROVE  j = k
      <4>1. CASE j \in 1..n /\ k \in 1..n
        BY <1>1, <2>3, <3>1, <4>1 DEF Distinct
      <4>2. CASE j = n + 1 /\ k = n + 1
        BY <4>2
      <4>3. CASE j = n + 1 /\ k \in 1..n
        BY <2>1, <2>3, <2>4, <3>1, <4>3
      <4>4. CASE j \in 1..n /\ k = n + 1
        BY <2>1, <2>3, <2>4, <3>1, <4>4
      <4>5. (j = n + 1 \/ j \in 1..n) /\ (k = n + 1 \/ k \in 1..n)
        BY <1>1
      <4> QED
        BY <4>1, <4>2, <4>3, <4>4, <4>5
    <3> QED
      BY <2>3, <3>1 DEF Distinct
  <2>6. n + 1 \in DOMAIN new /\ 1..n \subseteq DOMAIN new
    BY <1>1, <2>3
  <2>7. HasBucket(new, t)
    BY <2>1, <2>3, <2>6 DEF HasBucket
  <2>8. \A u : HasBucket(list, u) => HasBucket(new, u)
    BY <1>1, <2>3, <2>6 DEF HasBucket
  <2>9. ASSUME NEW i \in DOMAIN new
        PROVE  (i \in DOMAIN list /\ new[i] = list[i]) \/ new[i] = r
    <3>1. i \in 1..n \/ i = n + 1
      BY <1>1, <2>3
    <3> QED
      BY <1>1, <2>3, <3>1
  <2> QED
    BY <2>3, <2>5, <2>7, <2>8, <2>9 DEF Buckets, new, r
<1> QED
  BY <1>2, <1>3

LEMMA ChangedBucket ==
  ASSUME NEW list \in Buckets, NEW b \in 1..Len(list), NEW r \in BucketSet,
         r.target = list[b].target
  PROVE  /\ [list EXCEPT ![b] = r] \in Buckets
         /\ \A u : HasBucket(list, u) => HasBucket([list EXCEPT ![b] = r], u)
<1> DEFINE new == [list EXCEPT ![b] = r]
<1>1. list \in Seq(BucketSet) /\ Distinct(list) /\ DOMAIN list = 1..Len(list)
  BY LenProperties DEF Buckets
<1>2. new \in Seq(BucketSet)
  BY <1>1, ExceptSeq
<1>3. DOMAIN new = DOMAIN list /\ \A i \in DOMAIN list : new[i].target = list[i].target
  BY <1>1
<1> HIDE DEF new
<1>4. Distinct(new)
  BY <1>1, <1>3 DEF Distinct
<1>5. \A u : HasBucket(list, u) => HasBucket(new, u)
  BY <1>3 DEF HasBucket
<1> QED
  BY <1>2, <1>4, <1>5 DEF Buckets, new

LEMMA PreloadedBuckets ==
  ASSUME NEW users \in Seq(UserSet), seg.reloclist \in Buckets, Fresh(seg.reloclist)
  PROVE  /\ Preloaded(users) \in Buckets /\ Fresh(Preloaded(users))
         /\ \A k \in 1..Len(users) : HasBucket(Preloaded(users), users[k].target)
<1> DEFINE n == Len(users)
           base == seg.reloclist
           V == {list \in Buckets : Fresh(list)}
           step == [k \in 1..n |-> [v \in V |-> getOrMake(v, users[k].target)]]
           l == CHOOSE f : f = [k \in 0..n |-> IF k = 0 THEN base
                                               ELSE getOrMake(f[k - 1], users[k].target)]
<1>1. n \in Nat /\ \A k \in 1..n : users[k].target \in TargetSet
  <2>1. \A k \in 1..n : users[k] \in UserSet
    BY ElementOfSeq
  <2> QED
    BY <2>1, LenProperties DEF UserSet
<1>2. ASSUME NEW v \in V, NEW t \in TargetSet
      PROVE  /\ getOrMake(v, t) \in V /\ HasBucket(getOrMake(v, t), t)
             /\ \A u : HasBucket(v, u) => HasBucket(getOrMake(v, t), u)
  <2> DEFINE w == getOrMake(v, t)
  <2>1. /\ w \in Buckets /\ HasBucket(w, t)
        /\ \A u : HasBucket(v, u) => HasBucket(w, u)
        /\ \A i \in DOMAIN w : (i \in DOMAIN v /\ w[i] = v[i]) \/ w[i] = RelocInfo(t)
    BY MadeBucket
  <2> HIDE DEF w
  <2>2. Fresh(w)
    BY <2>1 DEF Fresh, RelocInfo
  <2> QED
    BY <2>1, <2>2 DEF w
<1>3. base \in V
  OBVIOUS
<1> HIDE DEF V
<1>4. step \in Steps(V, n)
  BY <1>1, <1>2 DEF Steps
<1>5. PICK r : IsRun(r, V, n, base, step)
  BY <1>1, <1>3, <1>4, RunExists
<1>6. /\ r \in [0..n -> V] /\ r[0] = base
      /\ \A k \in 1..n : r[k] = getOrMake(r[k - 1], users[k].target)
  <2>1. r \in [0..n -> V] /\ r[0] = base /\ \A k \in 1..n : r[k] = step[k][r[k - 1]]
    BY <1>5 DEF IsRun
  <2>2. \A k \in 1..n : k - 1 \in 0..n
    BY <1>1
  <2>3. \A k \in 1..n : r[k - 1] \in V
    BY <2>1, <2>2
  <2> QED
    BY <2>1, <2>3
<1>7. r = [k \in 0..n |-> IF k = 0 THEN base ELSE getOrMake(r[k - 1], users[k].target)]
  BY <1>6
<1>8. l = [k \in 0..n |-> IF k = 0 THEN base ELSE getOrMake(l[k - 1], users[k].target)]
  BY <1>7
<1>9. Preloaded(users) = l[n]
  BY DEF Preloaded
<1> HIDE DEF l, base
<1>10. l[0] = base /\ \A k \in 1..n : l[k] = getOrMake(l[k - 1], users[k].target)
  BY <1>1, <1>8
<1> DEFINE K == {k \in Nat : k <= n => /\ l[k] \in V
                                       /\ \A j \in 1..k : HasBucket(l[k], users[j].target)}
<1>11. 0 \in K
  BY <1>3, <1>10 DEF base
<1>12. ASSUME NEW k \in Nat, k \in K PROVE k + 1 \in K
  <2> SUFFICES ASSUME k + 1 <= n
               PROVE  /\ l[k + 1] \in V
                      /\ \A j \in 1..(k + 1) : HasBucket(l[k + 1], users[j].target)
    OBVIOUS
  <2>1. /\ k + 1 \in 1..n /\ (k + 1) - 1 = k
        /\ l[k] \in V /\ \A j \in 1..k : HasBucket(l[k], users[j].target)
    BY <1>1, <1>12
  <2>2. l[k + 1] = getOrMake(l[k], users[k + 1].target)
    BY <1>10, <2>1
  <2>3. /\ l[k + 1] \in V /\ HasBucket(l[k + 1], users[k + 1].target)
        /\ \A u : HasBucket(l[k], u) => HasBucket(l[k + 1], u)
    BY <1>1, <1>2, <2>1, <2>2
  <2>4. ASSUME NEW j \in 1..(k + 1) PROVE HasBucket(l[k + 1], users[j].target)
    <3>1. j \in 1..k \/ j = k + 1
      OBVIOUS
    <3> QED
      BY <2>1, <2>3, <3>1
  <2> QED
    BY <2>3, <2>4
<1> HIDE DEF K
<1>13. Nat \subseteq K
  BY <1>11, <1>12, NatInd
<1> QED
  BY <1>1, <1>9, <1>13 DEF K, V
-----------------------------------------------------------------------------
(***************************************************************************)
(* The order of a chain.                                                   *)
(***************************************************************************)
LEMMA PlacesIn ==
  ASSUME NEW n \in Nat, NEW I \in SUBSET (1..n)
  PROVE  IsFiniteSet(I) /\ Cardinality(I) \in 0..n
<1>1. IsFiniteSet(1..n) /\ Cardinality(1..n) = n
  BY FS_Interval
<1>2. IsFiniteSet(I) /\ Cardinality(I) <= n /\ Cardinality(I) \in Nat
  BY <1>1, FS_Subset, FS_CardinalityType
<1> QED
  BY <1>2

LEMMA AscendingType ==
  ASSUME NEW list \in Seq(Nat)
  PROVE  Ascending(list) \in Seq(Nat) /\ Len(Ascending(list)) = Len(list)
<1> DEFINE n == Len(list)
           le(v) == {i \in DOMAIN list : list[i] <= v}
           lt(v) == {i \in DOMAIN list : list[i] < v}
           R == Range(list)
           at(k) == CHOOSE v \in R : Cardinality(lt(v)) < k /\ Cardinality(le(v)) >= k
<1>1. n \in Nat /\ DOMAIN list = 1..n /\ list \in [1..n -> Nat]
  BY LenProperties
<1>2. R \in SUBSET Nat /\ \A i \in 1..n : list[i] \in R
  BY <1>1 DEF Range
<1>3. \A v : le(v) \in SUBSET (1..n) /\ lt(v) \in SUBSET (1..n)
  BY <1>1
<1>4. ASSUME NEW I \in SUBSET (1..n), I # {}
      PROVE  \E v \in R : (\E i \in I : list[i] = v) /\ \A i \in I : list[i] <= v
  <2> DEFINE S == {list[i] : i \in I}
  <2>1. S \in SUBSET Nat /\ S # {} /\ S \subseteq R
    BY <1>1, <1>2, <1>4
  <2>2. IsFiniteSet(S)
    <3> DEFINE f == [i \in I |-> list[i]]
    <3>1. IsFiniteSet(I)
      BY <1>1, PlacesIn
    <3>2. f \in Surjection(I, S)
      BY DEF Surjection
    <3> HIDE DEF f
    <3> QED
      BY <3>1, <3>2, FS_Surjection
  <2>3. \A i \in I : list[i] \in S
    OBVIOUS
  <2>4. \A v \in S : \E i \in I : list[i] = v
    OBVIOUS
  <2> HIDE DEF S
  <2>5. Max(S) \in S /\ \A m \in S : m <= Max(S)
    BY <2>1, <2>2, MaxIs
  <2> QED
    BY <2>1, <2>3, <2>4, <2>5
<1>5. ASSUME NEW k \in 1..n PROVE at(k) \in Nat
  <2> DEFINE T == {v \in R : Cardinality(le(v)) >= k}
  <2>1. T # {}
    <3>1. PICK v \in R : \A i \in 1..n : list[i] <= v
      BY <1>1, <1>4
    <3>2. le(v) = 1..n
      BY <1>1, <3>1
    <3> HIDE DEF le
    <3>3. Cardinality(1..n) = n
      <4>1. 1 \in Int /\ n \in Int
        BY <1>1
      <4>2. Cardinality(1..n) = IF 1 > n THEN 0 ELSE n - 1 + 1
        BY <4>1, FS_Interval
      <4> QED
        BY <1>1, <4>2
    <3> QED
      BY <1>1, <3>2, <3>3
  <2>2. T \in SUBSET Nat
    BY <1>2
  <2>3. PICK v \in T : \A w \in T : v <= w
    BY <2>1, <2>2, LeastNat
  <2>4. v \in Nat /\ Cardinality(lt(v)) \in Nat /\ IsFiniteSet(lt(v))
    BY <1>1, <1>3, <2>2, PlacesIn
  <2>5. Cardinality(lt(v)) < k
    <3> SUFFICES ASSUME Cardinality(lt(v)) >= k PROVE FALSE
      BY <2>4
    <3>1. lt(v) # {}
      <4>1. Cardinality({}) = 0 /\ ~(0 >= k)
        BY <1>1, FS_EmptySet
      <4> HIDE DEF lt
      <4> QED
        BY <4>1
    <3>2. PICK w \in R : (\E i \in lt(v) : list[i] = w) /\ \A i \in lt(v) : list[i] <= w
      BY <1>3, <1>4, <3>1
    <3>3. w < v /\ w \in Nat
      BY <1>2, <3>2
    <3>4. lt(v) \subseteq le(w)
      BY <3>2
    <3>5. IsFiniteSet(le(w)) /\ Cardinality(le(w)) \in Nat
      BY <1>1, <1>3, PlacesIn
    <3>6. Cardinality(lt(v)) <= Cardinality(le(w))
      BY <3>4, <3>5, FS_Subset
    <3>7. w \in T
      BY <2>4, <3>2, <3>5, <3>6
    <3> QED
      BY <2>3, <2>4, <3>3, <3>7
  <2>6. \E w \in R : Cardinality(lt(w)) < k /\ Cardinality(le(w)) >= k
    BY <2>3, <2>5
  <2> HIDE DEF R, lt, le
  <2>7. at(k) \in R
    BY <2>6
  <2> QED
    BY <1>2, <2>7
<1>6. Ascending(list) = [k \in 1..n |-> at(k)]
  BY <1>1 DEF Ascending
<1> HIDE DEF at
<1>7. [k \in 1..n |-> at(k)] \in [1..n -> Nat]
  BY <1>5
<1>8. [k \in 1..n |-> at(k)] \in Seq(Nat) /\ Len([k \in 1..n |-> at(k)]) = n
  BY <1>1, <1>7, ListOf
<1> QED
  BY <1>6, <1>8

LEMMA SpansLie ==
  ASSUME NEW p \in Seq(Nat), NEW spans \in Seq(SpanSet)
  PROVE  /\ DOMAIN SpansIn(p, spans) = 1..Len(spans)
         /\ \A k \in 1..Len(spans) : /\ SpansIn(p, spans)[k].after \in 0..Len(p)
                                     /\ SpansIn(p, spans)[k].upto \in 0..Len(p)
<1> DEFINE n == Len(p)
           m == Len(spans)
           low(k) == Cardinality({i \in DOMAIN p : p[i] < spans[k].Low})
           high(k) == Cardinality({i \in DOMAIN p : BeforeEnd(p[i], spans[k])})
           V == 0..n
           next(k, e) == Larger(Larger(e, low(k)), high(k))
           step == [k \in 1..m |-> [v \in V |-> next(k, v)]]
           end == CHOOSE f : f = [k \in 0..m |-> IF k = 0 THEN 0 ELSE next(k, f[k - 1])]
           s == [k \in DOMAIN spans |-> [after |-> Larger(end[k - 1], low(k)), upto |-> end[k]]]
<1>1. n \in Nat /\ m \in Nat /\ DOMAIN p = 1..n /\ DOMAIN spans = 1..m
  BY LenProperties
<1>2. \A k : low(k) \in V /\ high(k) \in V
  <2>1. \A k : /\ {i \in DOMAIN p : p[i] < spans[k].Low} \in SUBSET (1..n)
               /\ {i \in DOMAIN p : BeforeEnd(p[i], spans[k])} \in SUBSET (1..n)
    BY <1>1
  <2> QED
    BY <1>1, <2>1, PlacesIn
<1>3. \A a, b \in V : Larger(a, b) \in V
  BY DEF Larger
<1> HIDE DEF low, high
<1>4. step \in Steps(V, m)
  <2>1. \A k \in 1..m : \A v \in V : next(k, v) \in V
    BY <1>2, <1>3
  <2> HIDE DEF next
  <2> QED
    BY <2>1 DEF Steps
<1>5. PICK r : IsRun(r, V, m, 0, step)
  <2>1. 0 \in V
    BY <1>1
  <2> HIDE DEF V, step
  <2> QED
    BY <1>1, <1>4, <2>1, RunExists
<1> HIDE DEF next
<1>6. r \in [0..m -> V] /\ r[0] = 0 /\ \A k \in 1..m : r[k] = next(k, r[k - 1])
  <2>1. r \in [0..m -> V] /\ r[0] = 0 /\ \A k \in 1..m : r[k] = step[k][r[k - 1]]
    BY <1>5 DEF IsRun
  <2>2. \A k \in 1..m : k - 1 \in 0..m
    BY <1>1
  <2>3. \A k \in 1..m : r[k - 1] \in V
    BY <2>1, <2>2
  <2> HIDE DEF V
  <2> QED
    BY <2>1, <2>3
<1>7. r = [k \in 0..m |-> IF k = 0 THEN 0 ELSE next(k, r[k - 1])]
  BY <1>6
<1>8. end = [k \in 0..m |-> IF k = 0 THEN 0 ELSE next(k, end[k - 1])]
  BY <1>7
<1>9. SpansIn(p, spans) = s
  BY DEF SpansIn, next, low, high
<1> HIDE DEF end
<1>10. Nat \subseteq {k \in Nat : k <= m => end[k] \in V}
  <2> DEFINE K == {k \in Nat : k <= m => end[k] \in V}
  <2>1. 0 \in K
    BY <1>1, <1>8
  <2>2. ASSUME NEW k \in Nat, k \in K PROVE k + 1 \in K
    <3> SUFFICES ASSUME k + 1 <= m PROVE end[k + 1] \in V
      OBVIOUS
    <3>1. k + 1 \in 0..m /\ k + 1 # 0 /\ (k + 1) - 1 = k /\ end[k] \in V
      BY <1>1, <2>2
    <3>2. end[k + 1] = next(k + 1, end[k])
      BY <1>8, <3>1
    <3> QED
      BY <1>2, <1>3, <3>1, <3>2 DEF next
  <2> HIDE DEF K
  <2> QED
    BY <2>1, <2>2, NatInd DEF K
<1>11. ASSUME NEW k \in 1..m PROVE s[k].after \in V /\ s[k].upto \in V
  <2>1. k - 1 \in Nat /\ k - 1 <= m /\ k \in Nat /\ k <= m
    BY <1>1
  <2>2. end[k - 1] \in V /\ end[k] \in V
    BY <1>10, <2>1
  <2>3. Larger(end[k - 1], low(k)) \in V
    BY <1>2, <1>3, <2>2
  <2> QED
    BY <1>1, <2>2, <2>3
<1> QED
  BY <1>1, <1>9, <1>11

\* The order of a chain has as many addresses as the chain.
LEMMA SortedType ==
  ASSUME NEW fixed \in Seq(Nat), NEW spans \in Seq(SpanSet)
  PROVE  sortFixes(fixed, spans) \in Seq(Nat)
<1> DEFINE p == Ascending(fixed)
           s == SpansIn(fixed, spans)
           n == Len(p)
           Turned(i) == {k \in DOMAIN s : spans[k].Desc /\ i \in (s[k].after + 1)..s[k].upto}
           at(i) == IF Turned(i) = {} THEN p[i]
                    ELSE LET k == CHOOSE k \in Turned(i) : TRUE
                         IN  p[s[k].after + s[k].upto + 1 - i]
<1>1. p \in Seq(Nat) /\ n = Len(fixed)
  BY AscendingType
<1>2. \A k \in DOMAIN s : s[k].after \in 0..n /\ s[k].upto \in 0..n
  BY <1>1, SpansLie
<1>3. sortFixes(fixed, spans) = [i \in DOMAIN p |-> at(i)]
  BY DEF sortFixes
<1> HIDE DEF p, s
<1>4. n \in Nat /\ DOMAIN p = 1..n /\ \A i \in 1..n : p[i] \in Nat
  BY <1>1, LenProperties, ElementOfSeq
<1>5. ASSUME NEW i \in 1..n PROVE at(i) \in Nat
  <2>1. CASE Turned(i) = {}
    BY <1>4, <2>1
  <2>2. CASE Turned(i) # {}
    <3> DEFINE k == CHOOSE k \in Turned(i) : TRUE
    <3>1. k \in DOMAIN s /\ i \in (s[k].after + 1)..s[k].upto
      BY <2>2
    <3> HIDE DEF k
    <3>2. s[k].after \in 0..n /\ s[k].upto \in 0..n
      BY <1>2, <3>1
    <3>3. \A a, u \in 0..n : \A j \in (a + 1)..u : a + u + 1 - j \in 1..n
      BY <1>4
    <3>5. s[k].after + s[k].upto + 1 - i \in 1..n
      BY <3>1, <3>2, <3>3
    <3>4. p[s[k].after + s[k].upto + 1 - i] \in Nat
      BY <1>4, <3>5
    <3> QED
      BY <2>2, <3>4 DEF k
  <2> QED
    BY <2>1, <2>2
<1> HIDE DEF at
<1>6. [i \in 1..n |-> at(i)] \in [1..n -> Nat]
  BY <1>5
<1>7. [i \in 1..n |-> at(i)] \in Seq(Nat)
  BY <1>4, <1>6, ListOf
<1> QED
  BY <1>3, <1>4, <1>7
-----------------------------------------------------------------------------
(***************************************************************************)
(* The invariant, in parts that the steps disturb one at a time.           *)
(***************************************************************************)
Working == {"records", "fixups", "sort", "relink", "relocs"}

PlaceInv ==
  /\ input \in Inputs /\ pc \in {"script", "symbols", "open"} \cup Working \cup Ended
  /\ line \in Nat \ {0} /\ file \in 0..(Objects(input) + 1) /\ rec \in Nat /\ user \in Nat
  /\ pc = "script" => file = 0
  /\ pc \in {"symbols", "open"} => file # 0
  /\ pc \in Working => file \in Files /\ rec # 0
  /\ pc = "sort" => user # 0
  /\ pc = "done" => file > Objects(input)
  /\ errors \subseteq Files

SymbolsInv ==
  /\ modules \in Seq(ModuleSet) /\ symbols \in Seq(SymbolSet)
  /\ \A s \in 1..Len(symbols) : symbols[s].module <= Len(modules)
  /\ SymbolsKnown(symtab, symbols)

UsersInv == userinfo \in [SegmentNumbers -> Seq(UserSet)]

RecordsInv ==
  /\ ledata \in [StartOffset: Nat, Data: Seq(Byte)] /\ data \in Seq(Byte)
  /\ fixes \in Seq(FixSet)
  /\ IsFiniteSet(patches) /\ patches \subseteq PatchSet

OutInv == out \in [Files -> Seq(Byte)]

\* No input has buckets before its turn.
SegmentsInv ==
  /\ file = 0 => segments = <<>>
  /\ file # 0 =>
       /\ segments \in [Files -> SegmentSet]
       /\ \A i \in Files : segments[i].reloclist \in Buckets
       /\ \A i \in Files : pc = "symbols" \/ i > file \/ (i = file /\ pc = "open")
                             => segments[i].reloclist = <<>>

\* A bucket for each RELOC line: SortBucket does not look whether there is one.
LinesInv ==
  pc \in {"records", "fixups", "sort"} =>
    \A k \in 1..Len(Users) : HasBucket(seg.reloclist, Users[k].target)

LinkInv == /\ PlaceInv /\ SymbolsInv /\ UsersInv /\ RecordsInv /\ OutInv /\ SegmentsInv
           /\ LinesInv /\ SegmentsApart

LEMMA LinkStarts == ASSUME Init PROVE LinkInv
<1>1. input \in Inputs /\ Objects(input) \in Nat /\ Files = DOMAIN input.objects
  BY InputParts DEF Init, Files
<1>2. PlaceInv
  BY <1>1 DEF Init, PlaceInv, Working, Ended
<1>3. SymbolsInv
  <2>1. <<>> \in Seq(ModuleSet) /\ <<>> \in Seq(SymbolSet) /\ Len(<<>>) = 0 /\ DOMAIN <<>> = {}
    BY EmptySeq
  <2>2. SymbolsKnown(<<>>, <<>>)
    BY <2>1 DEF SymbolsKnown
  <2> QED
    BY <2>1, <2>2 DEF Init, SymbolsInv
<1>4. UsersInv
  <2>1. <<>> \in Seq(UserSet)
    BY EmptySeq
  <2> QED
    BY <2>1 DEF Init, UsersInv
<1>5. RecordsInv
  BY EmptySeq, FS_EmptySet DEF Init, RecordsInv, NoOffset
<1>6. OutInv
  BY <1>1, EmptySeq DEF Init, OutInv, NoFile
<1>7. SegmentsInv /\ LinesInv /\ SegmentsApart
  BY DEF Init, SegmentsInv, LinesInv, SegmentsApart
<1> QED
  BY <1>2, <1>3, <1>4, <1>5, <1>6, <1>7 DEF LinkInv

LEMMA InputStays ==
  ASSUME Next
  PROVE  input' = input /\ Files' = Files
BY Zenon DEF Next, ReadScript, Patch, BlankLine, UnknownLine, scriptModule, scriptRelocSegment,
  scriptRelocSymbol, BadRelocLine, MakeSegments, OutsideScript, loadSymbols, BeginPatching,
  OpenOutput, DiskFull, OtherRecord, LedataRecord, FixupRecord, BadFixupRecord, SkipFix,
  OffsetFix, ChainFix, WriteData, RecordsDone, SortBucket, SortDone, Relink, WriteRelocs,
  LoseRelocs, Finish, InPatch, InEnd, GiveUp, Files

LEMMA PlaceStep ==
  ASSUME LinkInv, Next
  PROVE  PlaceInv'
<1> USE DEF PlaceInv, Working, Ended
<1>1. PlaceInv /\ Objects(input) \in Nat /\ Files = 1..Objects(input)
  BY InputParts DEF LinkInv
<1>2. input' = input /\ Files' = Files /\ Objects(input') = Objects(input)
  BY InputStays
<1>3. CASE ReadScript
  <2>1. /\ file' \in {0, 1} /\ rec' = rec /\ user' = user /\ errors' = errors
        /\ pc' \in {"script", "symbols", "failed"} /\ line' \in {line, line + 1}
        /\ pc' = "script" => file' = file
        /\ pc' = "symbols" => file' = 1
    <3>1. CASE BlankLine \/ UnknownLine \/ BadRelocLine \/ MakeSegments
      BY <1>1, <3>1 DEF BlankLine, UnknownLine, BadRelocLine, MakeSegments, OutsideScript,
        NextLine, Fail, Reading, chainVars
    <3>2. CASE scriptModule
      BY <1>1, <3>2 DEF scriptModule, OutsideScript, NextLine, Fail, Reading, chainVars
    <3>3. CASE scriptRelocSegment \/ scriptRelocSymbol
      BY <1>1, <3>3 DEF scriptRelocSegment, scriptRelocSymbol, OutsideScript, NextLine, Fail,
        Reading, chainVars
    <3> QED
      BY <1>3, <3>1, <3>2, <3>3 DEF ReadScript
  <2>2. pc = "script"
    BY <1>3, Zenon DEF ReadScript, BlankLine, UnknownLine, BadRelocLine, MakeSegments,
      scriptModule, scriptRelocSegment, scriptRelocSymbol, Reading
  <2> QED
    BY <1>1, <1>2, <2>1, <2>2
<1>4. CASE loadSymbols \/ BeginPatching \/ Finish
  BY <1>1, <1>2, <1>4 DEF loadSymbols, BeginPatching, Finish, chainVars, Objects
<1>5. CASE OpenOutput \/ DiskFull \/ OtherRecord \/ LedataRecord \/ FixupRecord \/ BadFixupRecord
  <2>1. CASE OpenOutput \/ DiskFull
    BY <1>1, <1>2, <2>1 DEF OpenOutput, DiskFull, GiveUp, InPatch, chainVars, Objects
  <2>2. CASE OtherRecord \/ LedataRecord
    <3>1. pc = "records" /\ pc' = pc /\ rec' = rec + 1
      BY <2>2, Zenon DEF OtherRecord, LedataRecord, AtRecord
    <3>2. UNCHANGED <<line, file, user, errors>>
      BY <2>2, Zenon DEF OtherRecord, LedataRecord, InPatch, chainVars
    <3> QED
      BY <1>1, <1>2, <3>1, <3>2
  <2>3. CASE FixupRecord
    <3>1. pc = "records" /\ pc' = "fixups"
      BY <2>3, Zenon DEF FixupRecord, AtRecord
    <3>2. UNCHANGED <<line, file, rec, user, errors>>
      BY <2>3, Zenon DEF FixupRecord, InPatch, chainVars
    <3> QED
      BY <1>1, <1>2, <3>1, <3>2
  <2>4. CASE BadFixupRecord
    <3>1. /\ pc = "records" /\ pc' = "open" /\ file' = file + 1
          /\ errors' = errors \cup {file} /\ UNCHANGED <<line, rec, user>>
      BY <2>4, Zenon DEF BadFixupRecord, AtRecord, GiveUp, chainVars
    <3> QED
      BY <1>1, <1>2, <3>1 DEF Objects
  <2> QED
    BY <1>5, <2>1, <2>2, <2>3, <2>4
<1>6. CASE SkipFix \/ OffsetFix \/ ChainFix \/ WriteData
  BY <1>1, <1>2, <1>6 DEF SkipFix, OffsetFix, ChainFix, WriteData, FixDone, Panic, Fixing,
    InPatch, chainVars
<1>7. CASE RecordsDone \/ SortBucket \/ SortDone
  BY <1>1, <1>2, <1>7 DEF RecordsDone, SortBucket, SortDone, InPatch, InEnd, chainVars
<1>8. CASE Relink
  <2>1. pc = "relink" /\ pc' \in {"relocs", "panic"}
    BY <1>8, Zenon DEF Relink
  <2>2. UNCHANGED <<line, file, rec, user, errors>>
    BY <1>8, Zenon DEF Relink, InEnd, InPatch, chainVars
  <2> QED
    BY <1>1, <1>2, <2>1, <2>2
<1>9. CASE WriteRelocs \/ LoseRelocs
  BY <1>1, <1>2, <1>9 DEF WriteRelocs, LoseRelocs, chainVars
<1> QED
  BY <1>3, <1>4, <1>5, <1>6, <1>7, <1>8, <1>9 DEF Next, Patch
-----------------------------------------------------------------------------
(***************************************************************************)
(* The symbol table.                                                       *)
(***************************************************************************)
FirstNamed(list, n) == SelectInSeq(list, LAMBDA x : x.name = n)

LEMMA ModuleFound ==
  ASSUME NEW list \in Seq(ModuleSet), NEW n
  PROVE  /\ FirstNamed(list, n) \in 0..Len(list)
         /\ FirstNamed(list, n) # 0 => list[FirstNamed(list, n)].name = n
         /\ (\E i \in 1..Len(list) : list[i].name = n) => FirstNamed(list, n) # 0
<1> DEFINE I == {i \in 1..Len(list) : list[i].name = n}
           m == FirstNamed(list, n)
<1>1. Len(list) \in Nat
  BY LenProperties
<1>2. m = IF I # {} THEN Min(I) ELSE 0
  BY DEF FirstNamed, SelectInSeq
<1>3. I # {} => Min(I) \in I
  BY <1>1, FirstOf
<1> HIDE DEF m
<1>4. m \in 0..Len(list) /\ (m # 0 => list[m].name = n) /\ (I # {} => m # 0)
  BY <1>1, <1>2, <1>3
<1> QED
  BY <1>4 DEF m

LEMMA ModulesGrow ==
  ASSUME modules \in Seq(ModuleSet), NEW num \in Int, NEW name \in STRING
  PROVE  /\ addModule(num, name) \in Seq(ModuleSet)
         /\ Len(modules) <= Len(addModule(num, name))
         /\ \A i \in 1..Len(modules) : addModule(num, name)[i] = modules[i]
         /\ \E i \in 1..Len(addModule(num, name)) : addModule(num, name)[i].name = name
<1>1. Len(modules) \in Nat
  BY LenProperties
<1>2. CASE ModuleNamed(name) # 0
  <2>1. addModule(num, name) = modules
    BY <1>2 DEF addModule
  <2>2. ModuleNamed(name) \in 1..Len(modules) /\ modules[ModuleNamed(name)].name = name
    <3> DEFINE m == ModuleNamed(name)
    <3>1. m = FirstNamed(modules, name)
      BY DEF ModuleNamed, FirstNamed, SelectInSeq
    <3> HIDE DEF m
    <3>2. m \in 0..Len(modules) /\ (m # 0 => modules[m].name = name)
      BY <3>1, ModuleFound
    <3> QED
      BY <1>1, <1>2, <3>2 DEF m
  <2> QED
    BY <1>1, <2>1, <2>2
<1>3. CASE ModuleNamed(name) = 0
  <2> DEFINE new == [num |-> num, name |-> name, hasSyms |-> FALSE]
  <2>1. new \in ModuleSet /\ new.name = name
    BY DEF ModuleSet
  <2>2. addModule(num, name) = Append(modules, new)
    BY <1>3 DEF addModule
  <2> HIDE DEF new
  <2>3. /\ Append(modules, new) \in Seq(ModuleSet)
        /\ Len(Append(modules, new)) = Len(modules) + 1
        /\ \A i \in 1..Len(modules) : Append(modules, new)[i] = modules[i]
        /\ Append(modules, new)[Len(modules) + 1] = new
    BY <2>1
  <2>4. Len(modules) + 1 \in 1..(Len(modules) + 1) /\ Len(modules) <= Len(modules) + 1
    BY <1>1
  <2> QED
    BY <2>1, <2>2, <2>3, <2>4
<1> QED
  BY <1>2, <1>3

\* New symbols of modules that there are.
LEMMA SymbolsKept ==
  ASSUME SymbolsInv, NEW new \in Seq(SymbolSet), NEW count \in Nat, Len(modules) <= count,
         \A i \in 1..Len(new) : new[i].module <= count
  PROVE  /\ symbols \o new \in Seq(SymbolSet)
         /\ \A s \in 1..Len(symbols \o new) : (symbols \o new)[s].module <= count
         /\ SymbolsKnown(Bound(new), symbols \o new)
<1>1. /\ symbols \o new \in Seq(SymbolSet)
      /\ Len(symbols \o new) = Len(symbols) + Len(new)
      /\ \A i \in 1..Len(symbols) : (symbols \o new)[i] = symbols[i]
      /\ \A i \in 1..Len(new) : (symbols \o new)[Len(symbols) + i] = new[i]
      /\ SymbolsKnown(Bound(new), symbols \o new)
  BY AddedSymbols DEF SymbolsInv
<1> DEFINE all == symbols \o new
<1> HIDE DEF all
<1>2. /\ Len(symbols) \in Nat /\ Len(new) \in Nat /\ Len(modules) \in Nat
      /\ \A s \in 1..Len(symbols) : symbols[s].module <= Len(modules)
      /\ \A s \in 1..Len(symbols) : symbols[s].module \in Nat
  <2>1. \A s \in 1..Len(symbols) : symbols[s] \in SymbolSet
    BY ElementOfSeq DEF SymbolsInv
  <2> QED
    BY <2>1, LenProperties DEF SymbolsInv, SymbolSet
<1>3. ASSUME NEW s \in 1..Len(all) PROVE all[s].module <= count
  <2>1. CASE s <= Len(symbols)
    BY <1>1, <1>2, <2>1 DEF all
  <2>2. CASE s > Len(symbols)
    <3>1. s - Len(symbols) \in 1..Len(new) /\ Len(symbols) + (s - Len(symbols)) = s
      BY <1>1, <1>2, <2>2 DEF all
    <3>2. all[s] = new[s - Len(symbols)]
      BY <1>1, <3>1 DEF all
    <3> QED
      BY <3>1, <3>2
  <2> QED
    BY <1>1, <1>2, <2>1, <2>2 DEF all
<1> QED
  BY <1>1, <1>3 DEF all

\* What loadSymbols adds.
LEMMA LoadedSymbols ==
  ASSUME LinkInv, pc = "symbols", file <= Len(input.objects),
         NEW names, names = NewNames(ReadObjNames(Object)),
         NEW new, new = [i \in DOMAIN names |->
                           Local(names[i].Name, seg.num, names[i].Offset, names[i].Const)]
  PROVE  /\ new \in Seq(SymbolSet) /\ DOMAIN new = 1..Len(new) /\ Len(new) \in Nat
         /\ \A i \in 1..Len(new) : new[i].module = 0 /\ new[i].name \notin DOMAIN symtab
<1>1. input \in Inputs /\ file \in Files /\ file # 0
  BY InputParts DEF LinkInv, PlaceInv, Objects
<1>2. ReadObjNames(Object) \in Seq(PublicName)
  BY <1>1, ObjNamesType DEF Object
<1>3. names \in Seq({p \in PublicName : p.Name \notin DOMAIN symtab})
  BY <1>2, NewNamesType
<1> DEFINE row(i) == Local(names[i].Name, seg.num, names[i].Offset, names[i].Const)
           n == Len(names)
<1>4. n \in Nat /\ DOMAIN names = 1..n
  BY <1>3, LenProperties
<1>5. seg.num \in Nat
  BY <1>1, InputsAssumption DEF LinkInv, SegmentsInv, SegmentSet, seg
<1>6. ASSUME NEW i \in 1..n
      PROVE  row(i) \in SymbolSet /\ row(i).module = 0 /\ row(i).name \notin DOMAIN symtab
  <2>1. names[i] \in {p \in PublicName : p.Name \notin DOMAIN symtab}
    BY <1>3, ElementOfSeq
  <2> QED
    BY <1>5, <2>1 DEF Local, SymbolSet, PublicName
<1> HIDE DEF row
<1>7. [i \in 1..n |-> row(i)] \in [1..n -> SymbolSet]
  BY <1>6
<1>8. /\ [i \in 1..n |-> row(i)] \in Seq(SymbolSet) /\ Len([i \in 1..n |-> row(i)]) = n
      /\ DOMAIN [i \in 1..n |-> row(i)] = 1..n
  BY <1>4, <1>7, ListOf
<1>9. new = [i \in 1..n |-> row(i)]
  BY <1>4 DEF row
<1> QED
  BY <1>4, <1>6, <1>8, <1>9

\* The symbol of an external name that resolves.
LEMMA ResolvedType ==
  ASSUME LinkInv, pc \in Working, Resolves
  PROVE  /\ Resolved \in SymbolSet /\ Resolved.name = Name
         /\ Name \in DOMAIN symtab => symtab[Name] \in 1..Len(symbols)
         /\ Name \notin DOMAIN symtab => Resolved.module = 0
<1>1. file \in Files /\ file # 0
  BY InputParts DEF LinkInv, PlaceInv
<1>2. Name \in ExternalName
  <2>1. seg.extnames \in Seq(ExternalName)
    BY <1>1 DEF LinkInv, SegmentsInv, SegmentSet, seg
  <2> QED
    BY <2>1, LenProperties, ElementOfSeq DEF Resolves, NameInRange, Name
<1>3. CASE Name \in DOMAIN symtab
  <2>1. symtab[Name] \in 1..Len(symbols) /\ symbols[symtab[Name]].name = Name
    BY <1>3 DEF LinkInv, SymbolsInv, SymbolsKnown
  <2>2. symbols[symtab[Name]] \in SymbolSet
    BY <2>1, ElementOfSeq DEF LinkInv, SymbolsInv
  <2> QED
    BY <1>3, <2>1, <2>2 DEF Resolved
<1>4. CASE Name \notin DOMAIN symtab
  <2>1. Name \in SymbolName /\ Name[2] \in Nat /\ Name[3] \in Nat
    BY <1>2, <1>4 DEF ExternalName, FunOK, Resolves
  <2>2. Resolved = Local(Name, Name[2], Name[3], FALSE)
    BY <1>4 DEF Resolved
  <2> QED
    BY <1>4, <2>1, <2>2 DEF Local, SymbolSet
<1> QED
  BY <1>3, <1>4

LEMMA ResolveKeeps ==
  ASSUME LinkInv, pc \in Working, Resolves, resolve, modules' = modules
  PROVE  SymbolsInv'
<1>1. CASE Name \in DOMAIN symtab
  BY <1>1 DEF resolve, LinkInv, SymbolsInv
<1>2. CASE Name \notin DOMAIN symtab
  <2> DEFINE new == <<Resolved>>
  <2>1. new \in Seq(SymbolSet) /\ Len(new) = 1 /\ new[1] = Resolved /\ Resolved.module = 0
    BY <1>2, ResolvedType
  <2>2. symbols' = symbols \o new /\ symtab' = Bound(new)
    BY <1>2 DEF resolve, AddSymbols
  <2> HIDE DEF new
  <2>3. \A i \in 1..Len(new) : new[i].module <= Len(modules)
    BY <2>1, LenProperties DEF LinkInv, SymbolsInv
  <2>4. Len(modules) \in Nat /\ SymbolsInv
    BY LenProperties DEF LinkInv, SymbolsInv
  <2>5. /\ symbols \o new \in Seq(SymbolSet)
        /\ \A s \in 1..Len(symbols \o new) : (symbols \o new)[s].module <= Len(modules)
        /\ SymbolsKnown(Bound(new), symbols \o new)
    BY <2>1, <2>3, <2>4, SymbolsKept
  <2> QED
    BY <2>2, <2>4, <2>5 DEF SymbolsInv
<1> QED
  BY <1>1, <1>2

LEMMA NamesInModule ==
  ASSUME SymbolsInv, input \in Inputs, Reading("MODULE"), line \in Nat \ {0},
         NEW mods, mods = addModule(Line.num, Line.name),
         NEW m, m = SelectInSeq(mods, LAMBDA x : x.name = Line.name),
         NEW names, names = [i \in DOMAIN Line.file.names |->
                               LET n == Line.file.names[i]
                               IN  Imported(<<Line.name>> \o n.name, m, n.ordinal, n.equate)]
  PROVE  /\ mods \in Seq(ModuleSet) /\ Len(modules) <= Len(mods) /\ m \in 1..Len(mods)
         /\ names \in Seq(SymbolSet) /\ \A i \in 1..Len(names) : names[i].module = m
<1> DEFINE l == Line.file.names
           n == Len(l)
           row(i) == Imported(<<Line.name>> \o l[i].name, m, l[i].ordinal, l[i].equate)
<1>1. Line.num \in Int /\ Line.name \in STRING /\ l \in Listing
  <2>1. line \in 1..Len(input.script)
    BY InputParts DEF Reading
  <2>2. LineOK(Line) /\ Line.cmd = "MODULE"
    BY <2>1, InputParts DEF Reading, Line
  <2> QED
    BY <2>2 DEF LineOK
<1>2. n \in Nat /\ DOMAIN l = 1..n
  BY <1>1, LenProperties DEF Listing
<1>3. /\ mods \in Seq(ModuleSet) /\ Len(modules) <= Len(mods)
      /\ \E i \in 1..Len(mods) : mods[i].name = Line.name
  BY <1>1, ModulesGrow DEF SymbolsInv
<1>4. m \in 1..Len(mods)
  <2>1. m = FirstNamed(mods, Line.name)
    BY DEF FirstNamed, SelectInSeq
  <2>2. m \in 0..Len(mods) /\ m # 0
    BY <1>3, <2>1, ModuleFound
  <2>3. Len(mods) \in Nat
    BY <1>3, LenProperties
  <2> QED
    BY <2>2, <2>3
<1>5. ASSUME NEW i \in 1..n PROVE row(i) \in SymbolSet /\ row(i).module = m
  <2>1. l[i] \in [name: Seq(STRING), ordinal: Nat, equate: BOOLEAN]
    BY <1>1, ElementOfSeq DEF Listing
  <2>2. <<Line.name>> \o l[i].name \in Seq(STRING)
    <3>1. <<Line.name>> \in Seq(STRING) /\ l[i].name \in Seq(STRING)
      BY <1>1, <2>1
    <3> QED
      BY <3>1, ConcatProperties
  <2>3. m \in Nat
    BY <1>4
  <2> QED
    BY <2>1, <2>2, <2>3 DEF Imported, SymbolSet, SymbolName
<1> HIDE DEF row
<1>6. [i \in 1..n |-> row(i)] \in [1..n -> SymbolSet]
  BY <1>5
<1>7. /\ [i \in 1..n |-> row(i)] \in Seq(SymbolSet) /\ Len([i \in 1..n |-> row(i)]) = n
      /\ DOMAIN [i \in 1..n |-> row(i)] = 1..n
  BY <1>2, <1>6, ListOf
<1>8. names = [i \in 1..n |-> row(i)]
  BY <1>2 DEF row
<1> QED
  BY <1>3, <1>4, <1>5, <1>7, <1>8

LEMMA ModuleLineKeeps ==
  ASSUME LinkInv, scriptModule
  PROVE  SymbolsInv'
<1> DEFINE mods == addModule(Line.num, Line.name)
           m == SelectInSeq(mods, LAMBDA x : x.name = Line.name)
           names == [i \in DOMAIN Line.file.names |->
                       LET n == Line.file.names[i]
                       IN  Imported(<<Line.name>> \o n.name, m, n.ordinal, n.equate)]
<1>1. SymbolsInv /\ input \in Inputs /\ line \in Nat \ {0} /\ Reading("MODULE")
  BY DEF LinkInv, PlaceInv, scriptModule
<1>2. /\ mods \in Seq(ModuleSet) /\ Len(modules) <= Len(mods) /\ m \in 1..Len(mods)
      /\ names \in Seq(SymbolSet) /\ \A i \in 1..Len(names) : names[i].module = m
  BY <1>1, NamesInModule
<1>3. \/ UNCHANGED <<modules, symbols, symtab>>
      \/ modules' = mods /\ UNCHANGED <<symbols, symtab>>
      \/ AddSymbols(names) /\ modules' = [mods EXCEPT ![m].hasSyms = TRUE]
  BY Zenon DEF scriptModule, scriptVars
<1> HIDE DEF mods, m, names
<1>4. /\ Len(mods) \in Nat /\ Len(modules) \in Nat
      /\ \A s \in 1..Len(symbols) : symbols[s].module <= Len(modules)
      /\ \A s \in 1..Len(symbols) : symbols[s].module \in Nat
  <2>1. \A s \in 1..Len(symbols) : symbols[s] \in SymbolSet
    BY <1>1, ElementOfSeq DEF SymbolsInv
  <2> QED
    BY <1>1, <1>2, <2>1, LenProperties DEF SymbolsInv, SymbolSet
<1>5. CASE UNCHANGED <<modules, symbols, symtab>>
  BY <1>1, <1>5 DEF SymbolsInv
<1>6. CASE modules' = mods /\ UNCHANGED <<symbols, symtab>>
  BY <1>1, <1>2, <1>4, <1>6 DEF SymbolsInv
<1>7. CASE AddSymbols(names) /\ modules' = [mods EXCEPT ![m].hasSyms = TRUE]
  <2>1. modules' \in Seq(ModuleSet) /\ Len(modules') = Len(mods)
    <3>1. mods \in [1..Len(mods) -> ModuleSet]
      BY <1>2, LenProperties
    <3>2. modules' \in [1..Len(mods) -> ModuleSet]
      BY <1>2, <1>7, <3>1 DEF ModuleSet
    <3> QED
      BY <1>4, <3>2, ListOf
  <2>2. symbols' = symbols \o names /\ symtab' = Bound(names)
    BY <1>7 DEF AddSymbols
  <2>3. /\ symbols \o names \in Seq(SymbolSet)
        /\ \A s \in 1..Len(symbols \o names) : (symbols \o names)[s].module <= Len(mods)
        /\ SymbolsKnown(Bound(names), symbols \o names)
    <3>1. \A i \in 1..Len(names) : names[i].module <= Len(mods)
      BY <1>2
    <3> QED
      BY <1>1, <1>2, <1>4, <3>1, SymbolsKept
  <2> QED
    BY <2>1, <2>2, <2>3 DEF SymbolsInv
<1> QED
  BY <1>3, <1>5, <1>6, <1>7

LEMMA RelocLineKeeps ==
  ASSUME LinkInv, scriptRelocSymbol
  PROVE  SymbolsInv'
<1> DEFINE m == ModuleNamed(Line.mod)
           new == <<Imported(Line.to, m, Line.number, FALSE)>>
<1>1. SymbolsInv /\ input \in Inputs /\ line \in Nat \ {0} /\ Len(modules) \in Nat
  BY LenProperties DEF LinkInv, PlaceInv, SymbolsInv
<1>2. Line.to \in Seq(STRING) /\ Line.number \in Nat
  <2>1. line \in 1..Len(input.script) /\ Line.cmd = "RELOC" /\ Line.mod # "SEGMENT"
    BY <1>1, InputParts DEF scriptRelocSymbol, Reading, ToSegment
  <2>2. LineOK(Line)
    BY <1>1, <2>1, InputParts DEF Line
  <2> QED
    BY <2>1, <2>2 DEF LineOK
<1>3. m \in 0..Len(modules)
  <2>1. m = FirstNamed(modules, Line.mod)
    BY DEF ModuleNamed, FirstNamed, SelectInSeq
  <2> HIDE DEF m
  <2> QED
    BY <1>1, <2>1, ModuleFound DEF SymbolsInv
<1>4. \/ UNCHANGED <<symbols, symtab>>
      \/ AddSymbols(new)
  BY Zenon DEF scriptRelocSymbol
<1>5. modules' = modules
  BY DEF scriptRelocSymbol
<1>6. CASE AddSymbols(new)
  <2>1. new \in Seq(SymbolSet) /\ Len(new) = 1 /\ new[1].module = m
    <3>1. m \in Nat
      BY <1>3
    <3> HIDE DEF m
    <3> DEFINE s == Imported(Line.to, m, Line.number, FALSE)
    <3>2. s \in SymbolSet /\ s.module = m
      BY <1>2, <3>1 DEF Imported, SymbolSet, SymbolName
    <3> HIDE DEF s
    <3>3. <<s>> \in Seq(SymbolSet) /\ Len(<<s>>) = 1 /\ <<s>>[1].module = m
      BY <3>2
    <3> QED
      BY <3>3 DEF s, m
  <2>2. symbols' = symbols \o new /\ symtab' = Bound(new)
    BY <1>6 DEF AddSymbols
  <2> HIDE DEF new, m
  <2>3. \A i \in 1..Len(new) : new[i].module <= Len(modules)
    BY <1>1, <1>3, <2>1
  <2>4. /\ symbols \o new \in Seq(SymbolSet)
        /\ \A s \in 1..Len(symbols \o new) : (symbols \o new)[s].module <= Len(modules)
        /\ SymbolsKnown(Bound(new), symbols \o new)
    <3>1. Len(modules) <= Len(modules)
      BY <1>1
    <3> QED
      BY <1>1, <2>1, <2>3, <3>1, SymbolsKept
  <2> QED
    BY <1>1, <1>5, <2>2, <2>4 DEF SymbolsInv
<1>7. CASE UNCHANGED <<symbols, symtab>>
  BY <1>1, <1>5, <1>7 DEF SymbolsInv
<1> QED
  BY <1>4, <1>6, <1>7

LEMMA SymbolsStep ==
  ASSUME LinkInv, Next
  PROVE  SymbolsInv'
<1>1. CASE scriptModule
  BY <1>1, ModuleLineKeeps
<1>2. CASE scriptRelocSymbol
  BY <1>2, RelocLineKeeps
<1>3. CASE loadSymbols
  <2>1. CASE AllRead(Object)
    <3> DEFINE names == NewNames(ReadObjNames(Object))
               new == [i \in DOMAIN names |->
                         Local(names[i].Name, seg.num, names[i].Offset, names[i].Const)]
    <3>1. AddSymbols(new) /\ modules' = modules /\ pc = "symbols" /\ file <= Len(input.objects)
      BY <1>3, <2>1 DEF loadSymbols
    <3>2. /\ new \in Seq(SymbolSet) /\ Len(new) \in Nat
          /\ \A i \in 1..Len(new) : new[i].module = 0
      BY <3>1, LoadedSymbols
    <3> HIDE DEF new
    <3>3. SymbolsInv /\ Len(modules) \in Nat
      BY LenProperties DEF LinkInv, SymbolsInv
    <3>4. \A i \in 1..Len(new) : new[i].module <= Len(modules)
      <4>1. 0 <= Len(modules)
        BY <3>3
      <4> QED
        BY <3>2, <4>1
    <3>5. /\ symbols \o new \in Seq(SymbolSet)
          /\ \A s \in 1..Len(symbols \o new) : (symbols \o new)[s].module <= Len(modules)
          /\ SymbolsKnown(Bound(new), symbols \o new)
      BY <3>2, <3>3, <3>4, SymbolsKept
    <3> QED
      BY <3>1, <3>3, <3>5 DEF SymbolsInv, AddSymbols
  <2>2. CASE ~AllRead(Object)
    BY <1>3, <2>2 DEF loadSymbols, LinkInv, SymbolsInv
  <2> QED
    BY <2>1, <2>2
<1>4. CASE OffsetFix
  <2>1. pc \in Working /\ Resolves /\ resolve /\ modules' = modules
    BY <1>4 DEF OffsetFix, Fixing, WritesOffset, External, InPatch, Working
  <2> QED
    BY <2>1, ResolveKeeps
<1>5. CASE ChainFix
  <2>1. pc \in Working /\ modules' = modules
    BY <1>5 DEF ChainFix, Fixing, InPatch, Working
  <2>2. (External /\ resolve) \/ UNCHANGED <<symbols, symtab>>
    BY <1>5 DEF ChainFix
  <2>3. CASE External /\ resolve
    BY <2>1, <2>3, ResolveKeeps DEF External
  <2>4. CASE UNCHANGED <<symbols, symtab>>
    BY <2>1, <2>4 DEF LinkInv, SymbolsInv
  <2> QED
    BY <2>2, <2>3, <2>4
<1>6. CASE UNCHANGED <<modules, symbols, symtab>>
  BY <1>6 DEF LinkInv, SymbolsInv
<1>7. \/ scriptModule \/ scriptRelocSymbol \/ loadSymbols \/ OffsetFix \/ ChainFix
      \/ UNCHANGED <<modules, symbols, symtab>>
  BY Zenon DEF Next, ReadScript, Patch, BlankLine, UnknownLine, scriptRelocSegment,
    BadRelocLine, MakeSegments, BeginPatching, OpenOutput, DiskFull, OtherRecord, LedataRecord,
    FixupRecord, BadFixupRecord, SkipFix, WriteData, RecordsDone, SortBucket, SortDone, Relink,
    WriteRelocs, LoseRelocs, Finish, InPatch, InEnd, GiveUp, scriptVars
<1> QED
  BY <1>1, <1>2, <1>3, <1>4, <1>5, <1>6, <1>7

-----------------------------------------------------------------------------
(***************************************************************************)
(* The lines of the script, as the segments use them.                      *)
(***************************************************************************)
LEMMA SpansType ==
  ASSUME NEW list \in Patchlist
  PROVE  parsePatchlist(list) \in Seq(SpanSet)
<1> DEFINE n == Len(list)
           row(i) == [Low |-> list[i].addr, Desc |-> list[i].minus,
                      High |-> IF i = n THEN MaxSpan ELSE list[i + 1].addr]
<1>1. n \in Nat /\ DOMAIN list = 1..n
  BY LenProperties DEF Patchlist
<1>2. MaxSpan \in Int
  BY DEF MaxSpan
<1>3. CASE list = <<>>
  <2> DEFINE s == [Low |-> 0, High |-> MaxSpan, Desc |-> TRUE]
  <2>1. s \in SpanSet
    BY <1>2 DEF SpanSet
  <2>2. parsePatchlist(list) = <<s>>
    BY <1>3 DEF parsePatchlist
  <2> HIDE DEF s
  <2> QED
    BY <2>1, <2>2
<1>4. CASE list # <<>>
  <2>1. ASSUME NEW i \in 1..n PROVE list[i].addr \in Int /\ list[i].minus \in BOOLEAN
    <3>1. list[i] \in [addr: Int, minus: BOOLEAN, signs: Nat]
      BY <1>1, ElementOfSeq DEF Patchlist
    <3> QED
      BY <3>1
  <2>2. ASSUME NEW i \in 1..n PROVE row(i) \in SpanSet
    <3>1. i # n => i + 1 \in 1..n
      <4>1. \A m \in Nat : \A j \in 1..m : j # m => j + 1 \in 1..m
        OBVIOUS
      <4>2. n \in Nat /\ i \in 1..n
        BY <1>1
      <4> HIDE DEF n
      <4> QED
        BY <4>1, <4>2
    <3>2. (IF i = n THEN MaxSpan ELSE list[i + 1].addr) \in Int
      BY <1>2, <2>1, <3>1
    <3> QED
      BY <2>1, <3>2 DEF SpanSet
  <2>3. parsePatchlist(list) = [i \in 1..n |-> row(i)]
    BY <1>1, <1>4 DEF parsePatchlist
  <2> HIDE DEF row
  <2>4. [i \in 1..n |-> row(i)] \in [1..n -> SpanSet]
    BY <2>2
  <2>5. [i \in 1..n |-> row(i)] \in Seq(SpanSet)
    BY <1>1, <2>4, ListOf
  <2> QED
    BY <2>3, <2>5
<1> QED
  BY <1>3, <1>4

LEMMA AddedUser ==
  ASSUME LinkInv, Reading("RELOC"), Line.seg > 0, NEW t \in TargetSet, AddReloc(t)
  PROVE  UsersInv'
<1>1. UsersInv /\ input \in Inputs /\ line \in 1..Len(input.script)
  BY InputParts DEF LinkInv, PlaceInv, Reading
<1>2. LineOK(Line) /\ Line.cmd = "RELOC" /\ Line.seg \in SegmentNumbers
  BY <1>1, InputParts DEF Reading, Line
<1>3. parsePatchlist(Line.patchlist) \in Seq(SpanSet)
  BY <1>2, SpansType DEF LineOK
<1> DEFINE u == [target |-> t, spans |-> parsePatchlist(Line.patchlist)]
<1>4. u \in UserSet
  BY <1>3 DEF UserSet
<1>5. userinfo' = [userinfo EXCEPT ![Line.seg] = Append(userinfo[Line.seg], u)]
  BY DEF AddReloc
<1> HIDE DEF u
<1>6. userinfo \in [SegmentNumbers -> Seq(UserSet)] /\ userinfo[Line.seg] \in Seq(UserSet)
  BY <1>1, <1>2 DEF UsersInv
<1>7. Append(userinfo[Line.seg], u) \in Seq(UserSet)
  BY <1>4, <1>6
<1> QED
  BY <1>5, <1>6, <1>7 DEF UsersInv

LEMMA UsersStep ==
  ASSUME LinkInv, Next
  PROVE  UsersInv'
<1>1. CASE scriptRelocSegment
  <2>1. Reading("RELOC") /\ Line.seg > 0 /\ ToSegment(Line)
    BY <1>1 DEF scriptRelocSegment
  <2>2. CASE AddReloc(<<"segment", Line.to>>)
    <3>1. Line.to \in Nat
      <4>1. input \in Inputs /\ line \in 1..Len(input.script) /\ Line.cmd = "RELOC"
        BY <2>1, InputParts DEF LinkInv, PlaceInv, Reading
      <4>2. LineOK(Line)
        BY <4>1, InputParts DEF Line
      <4> QED
        BY <2>1, <4>1, <4>2 DEF LineOK, ToSegment
    <3>2. <<"segment", Line.to>> \in TargetSet
      BY <3>1 DEF TargetSet
    <3> QED
      BY <2>1, <2>2, <3>2, AddedUser
  <2>3. CASE UNCHANGED userinfo
    BY <2>3 DEF LinkInv, UsersInv
  <2> QED
    BY <1>1, <2>2, <2>3, Zenon DEF scriptRelocSegment
<1>2. CASE scriptRelocSymbol
  <2> DEFINE s == lookup(<<Line.mod>> \o Line.to)
  <2>1. Reading("RELOC") /\ Line.seg > 0
    BY <1>2 DEF scriptRelocSymbol
  <2>2. CASE AddReloc(<<"symbol", s>>)
    <3>1. s \in Nat
      BY LenProperties DEF lookup, LinkInv, SymbolsInv, SymbolsKnown
    <3> HIDE DEF s
    <3>2. <<"symbol", s>> \in TargetSet
      BY <3>1 DEF TargetSet
    <3> QED
      BY <2>1, <2>2, <3>2, AddedUser
  <2>3. CASE UNCHANGED userinfo
    BY <2>3 DEF LinkInv, UsersInv
  <2> QED
    BY <1>2, <2>2, <2>3, Zenon DEF scriptRelocSymbol
<1>3. CASE UNCHANGED userinfo
  BY <1>3 DEF LinkInv, UsersInv
<1>4. scriptRelocSegment \/ scriptRelocSymbol \/ UNCHANGED userinfo
  <2>1. CASE scriptModule
    BY <2>1 DEF scriptModule, scriptVars
  <2>2. ~scriptModule => scriptRelocSegment \/ scriptRelocSymbol \/ UNCHANGED userinfo
    BY Zenon DEF Next, ReadScript, Patch, BlankLine, UnknownLine, BadRelocLine, MakeSegments,
      loadSymbols, BeginPatching, OpenOutput, DiskFull, OtherRecord, LedataRecord,
      FixupRecord, BadFixupRecord, SkipFix, OffsetFix, ChainFix, WriteData, RecordsDone,
      SortBucket, SortDone, Relink, WriteRelocs, LoseRelocs, Finish, InPatch, InEnd, GiveUp,
      scriptVars
  <2> QED
    BY <2>1, <2>2
<1> QED
  BY <1>1, <1>2, <1>3, <1>4

-----------------------------------------------------------------------------
(***************************************************************************)
(* The bytes.                                                              *)
(***************************************************************************)
LEMMA AddressType ==
  ASSUME LinkInv, Fixing
  PROVE  /\ fix \in FixSet /\ Address \in Nat /\ Tail(fixes) \in Seq(FixSet)
         /\ file \in Files /\ file # 0 /\ input \in Inputs
<1>1. fixes \in Seq(FixSet) /\ fixes # <<>> /\ ledata.StartOffset \in Nat
  BY DEF LinkInv, RecordsInv, Fixing
<1>2. fix \in FixSet /\ Tail(fixes) \in Seq(FixSet)
  BY <1>1, HeadTailProperties DEF fix
<1>3. Address \in Nat
  BY <1>1, <1>2 DEF Address, FixSet
<1> QED
  BY <1>2, <1>3, InputParts DEF LinkInv, PlaceInv, Fixing, Working

\* A fixup within the record's data leaves bytes.
LEMMA FixedData ==
  ASSUME LinkInv, Fixing, InBounds, NEW v, Put16OK(v)
  PROVE  Put16(data, fix.DataOffset, v) \in Seq(Byte)
<1>1. fix.DataOffset \in Nat /\ data \in Seq(Byte)
  BY AddressType DEF FixSet, LinkInv, RecordsInv
<1>2. fix.DataOffset + 2 <= Len(data)
  BY DEF InBounds
<1> QED
  BY <1>1, <1>2, Put16Is

LEMMA LinksAre ==
  ASSUME NEW p \in Seq(Nat)
  PROVE  IsFiniteSet(Links(p)) /\ Links(p) \subseteq PatchSet
<1> DEFINE n == Len(p)
           link(i) == [addr |-> p[i], value |-> IF i = 1 THEN End ELSE p[i - 1]]
           f == [i \in 1..n |-> link(i)]
<1>1. n \in Nat /\ DOMAIN p = 1..n /\ \A i \in 1..n : p[i] \in Nat
  BY LenProperties, ElementOfSeq
<1>2. \A i \in 1..n : link(i) \in PatchSet
  <2>1. \A i \in 1..n : i # 1 => i - 1 \in 1..n
    BY <1>1
  <2>2. End \in Nat
    BY DEF End
  <2> QED
    BY <1>1, <2>1, <2>2 DEF PatchSet
<1>3. Links(p) = {link(i) : i \in 1..n}
  BY <1>1 DEF Links
<1> HIDE DEF link
<1>4. f \in Surjection(1..n, Links(p))
  BY <1>3 DEF Surjection
<1>5. IsFiniteSet(1..n)
  BY <1>1, FS_Interval
<1> HIDE DEF f
<1>6. IsFiniteSet(Links(p))
  BY <1>4, <1>5, FS_Surjection
<1> QED
  BY <1>2, <1>3, <1>6

LEMMA SortedPatches ==
  ASSUME LinkInv, SortBucket
  PROVE  /\ IsFiniteSet(patches') /\ patches' \subseteq PatchSet
         /\ segments'[file].reloclist \in Buckets
         /\ segments' = [segments EXCEPT ![file].reloclist = segments'[file].reloclist]
         /\ \A u : HasBucket(seg.reloclist, u) => HasBucket(segments'[file].reloclist, u)
<1> DEFINE t == Users[user].target
           list == seg.reloclist
           b == BucketOf(list, t)
           p == sortFixes(list[b].patches, Users[user].spans)
           new == [list EXCEPT ![b] = Reordered(list[b], p)]
<1>1. /\ pc = "sort" /\ file \in Files /\ file # 0 /\ user # 0 /\ user \in Nat /\ user <= Len(Users)
      /\ seg \in SegmentSet /\ Users \in Seq(UserSet) /\ list \in Buckets
  <2>1. pc = "sort" /\ file \in Files /\ file # 0 /\ user # 0 /\ user \in Nat /\ user <= Len(Users)
    BY InputParts DEF LinkInv, PlaceInv, Working, SortBucket
  <2>2. seg \in SegmentSet /\ list \in Buckets
    BY <2>1 DEF LinkInv, SegmentsInv, seg
  <2>3. Users \in Seq(UserSet)
    BY <2>2 DEF LinkInv, UsersInv, Users, SegmentSet
  <2> QED
    BY <2>1, <2>2, <2>3
<1>2. user \in 1..Len(Users) /\ Users[user] \in UserSet
  BY <1>1, LenProperties, ElementOfSeq
<1>3. HasBucket(list, t)
  BY <1>1, <1>2 DEF LinkInv, LinesInv
<1>4. b \in 1..Len(list) /\ list[b].target = t /\ list \in Seq(BucketSet)
  <2>1. list \in Seq(BucketSet) /\ Len(list) \in Nat
    BY <1>1, LenProperties DEF Buckets
  <2>2. b \in 0..Len(list) /\ b # 0 /\ list[b].target = t
    BY <1>3, <2>1, BucketIs
  <2> QED
    BY <2>1, <2>2
<1>5. list[b] \in BucketSet
  BY <1>4, ElementOfSeq
<1>6. p \in Seq(Nat)
  BY <1>2, <1>5, SortedType DEF BucketSet, UserSet
<1>7. /\ segments' = [segments EXCEPT ![file].reloclist =
                        [segments[file].reloclist EXCEPT ![b] = Reordered(list[b], p)]]
      /\ patches' = patches \cup Links(p)
  BY Zenon DEF SortBucket, seg
<1> HIDE DEF p, b
<1>8. Reordered(list[b], p) \in BucketSet /\ Reordered(list[b], p).target = list[b].target
  <2> DEFINE l == IF p = <<>> THEN End ELSE p[Len(p)]
  <2>1. l \in Nat
    <3>1. p # <<>> => Len(p) \in 1..Len(p)
      BY <1>6, LenProperties, EmptySeq
    <3> QED
      BY <1>6, <3>1, ElementOfSeq DEF End
  <2> HIDE DEF l
  <2>2. Reordered(list[b], p) = [list[b] EXCEPT !.patches = p, !.last = l]
    BY DEF Reordered, l
  <2> QED
    BY <1>5, <1>6, <2>1, <2>2 DEF BucketSet
<1>9. /\ new \in Buckets
      /\ \A u : HasBucket(list, u) => HasBucket(new, u)
  BY <1>1, <1>4, <1>8, ChangedBucket
<1>10. segments' = [segments EXCEPT ![file].reloclist = new]
  BY <1>7 DEF seg
<1> HIDE DEF new
<1>11. segments'[file].reloclist = new
  BY <1>1, <1>10 DEF LinkInv, SegmentsInv, SegmentSet
<1>12. /\ IsFiniteSet(patches) /\ patches \subseteq PatchSet
       /\ IsFiniteSet(Links(p)) /\ Links(p) \subseteq PatchSet
  BY <1>6, LinksAre DEF LinkInv, RecordsInv
<1>13. IsFiniteSet(patches') /\ patches' \subseteq PatchSet
  BY <1>7, <1>12, FS_Union
<1> QED
  BY <1>9, <1>10, <1>11, <1>13

\* A fixup that becomes a link, in the bucket of its target.
LEMMA TargetType ==
  ASSUME LinkInv, Fixing, Relocates
  PROVE  Target \in TargetSet
<1>1. /\ file \in Files /\ file # 0 /\ pc \in Working
      /\ SegmentNumbers \subseteq Nat
  BY AddressType, InputParts DEF Fixing, Working
<1>2. CASE fix.RefType = "segment"
  <2>1. seg.num \in Nat
    BY <1>1 DEF LinkInv, SegmentsInv, SegmentSet, seg
  <2> QED
    BY <1>2, <2>1 DEF Target, TargetSet
<1>3. CASE fix.RefType # "segment"
  <2>1. External /\ Resolves
    BY <1>3 DEF Relocates, External
  <2>2. /\ Resolved \in SymbolSet
        /\ Name \in DOMAIN symtab => symtab[Name] \in 1..Len(symbols)
        /\ Name \notin DOMAIN symtab => Resolved.module = 0
    BY <1>1, <2>1, ResolvedType
  <2>3. CASE Imports
    <3>1. Name \in DOMAIN symtab
      BY <2>2, <2>3 DEF Imports
    <3>2. symtab[Name] \in Nat
      BY <2>2, <3>1
    <3>3. Target = <<"symbol", symtab[Name]>>
      BY <1>3, <2>3 DEF Target
    <3> QED
      BY <3>2, <3>3 DEF TargetSet
  <2>4. CASE ~Imports
    <3>1. Target = <<"segment", Resolved.segment>>
      BY <1>3, <2>4 DEF Target
    <3>2. Resolved.segment \in Nat
      BY <2>2 DEF SymbolSet
    <3> QED
      BY <3>1, <3>2 DEF TargetSet
  <2> QED
    BY <2>3, <2>4
<1> QED
  BY <1>2, <1>3

LEMMA MadeForTarget ==
  ASSUME LinkInv, Fixing, Relocates,
         NEW list, list = getOrMake(seg.reloclist, Target),
         NEW b, b = BucketOf(list, Target)
  PROVE  /\ seg.reloclist \in Buckets /\ list \in Buckets
         /\ b \in 1..Len(list) /\ list[b].target = Target /\ list[b] \in BucketSet
         /\ \A u : HasBucket(seg.reloclist, u) => HasBucket(list, u)
         /\ \A i \in DOMAIN list :
              (i \in DOMAIN seg.reloclist /\ list[i] = seg.reloclist[i]) \/ list[i] = RelocInfo(Target)
<1>1. Target \in TargetSet /\ seg.reloclist \in Buckets
  BY AddressType, TargetType DEF LinkInv, SegmentsInv, seg
<1>2. /\ list \in Buckets /\ HasBucket(list, Target)
      /\ \A u : HasBucket(seg.reloclist, u) => HasBucket(list, u)
      /\ \A i \in DOMAIN list :
           (i \in DOMAIN seg.reloclist /\ list[i] = seg.reloclist[i]) \/ list[i] = RelocInfo(Target)
  BY <1>1, MadeBucket
<1>3. list \in Seq(BucketSet) /\ Len(list) \in Nat
  BY <1>2, LenProperties DEF Buckets
<1>4. b \in 0..Len(list) /\ b # 0 /\ list[b].target = Target
  BY <1>2, <1>3, BucketIs
<1>5. b \in 1..Len(list)
  BY <1>3, <1>4
<1>6. list[b] \in BucketSet
  BY <1>3, <1>5, ElementOfSeq
<1> QED
  BY <1>1, <1>2, <1>4, <1>5, <1>6

LEMMA ChainedBuckets ==
  ASSUME LinkInv, ChainFix
  PROVE  /\ segments'[file].reloclist \in Buckets
         /\ segments' = [segments EXCEPT ![file].reloclist = segments'[file].reloclist]
         /\ \A u : HasBucket(seg.reloclist, u) => HasBucket(segments'[file].reloclist, u)
<1> DEFINE list == getOrMake(seg.reloclist, Target)
           b == BucketOf(list, Target)
           new == [list EXCEPT ![b] = Chained(list[b], Address)]
<1>1. Fixing /\ Relocates /\ segments' = [segments EXCEPT ![file].reloclist = new]
  BY Zenon DEF ChainFix
<1>2. /\ list \in Buckets /\ b \in 1..Len(list) /\ list[b] \in BucketSet
      /\ \A u : HasBucket(seg.reloclist, u) => HasBucket(list, u)
  BY <1>1, MadeForTarget
<1>3. Address \in Nat /\ file \in Files /\ file # 0
  BY <1>1, AddressType
<1> HIDE DEF list, b
<1>4. Chained(list[b], Address) \in BucketSet /\ Chained(list[b], Address).target = list[b].target
  <2> DEFINE q == Append(list[b].patches, Address)
  <2>1. q \in Seq(Nat)
    BY <1>2, <1>3 DEF BucketSet
  <2> HIDE DEF q
  <2>2. Chained(list[b], Address) = [list[b] EXCEPT !.patches = q, !.last = Address]
    BY DEF Chained, q
  <2> QED
    BY <1>2, <1>3, <2>1, <2>2 DEF BucketSet
<1>5. new \in Buckets /\ \A u : HasBucket(list, u) => HasBucket(new, u)
  BY <1>2, <1>4, ChangedBucket
<1> HIDE DEF new
<1>6. segments'[file].reloclist = new
  BY <1>1, <1>3 DEF LinkInv, SegmentsInv, SegmentSet
<1> QED
  BY <1>1, <1>2, <1>5, <1>6

LEMMA RecordsStep ==
  ASSUME LinkInv, Next
  PROVE  RecordsInv'
<1> USE DEF RecordsInv
<1>1. RecordsInv
  BY DEF LinkInv
<1>2. CASE OpenOutput
  BY <1>1, <1>2, EmptySeq DEF OpenOutput, NoOffset, chainVars
<1>3. CASE LedataRecord
  <2>1. file \in Files /\ input \in Inputs
    BY <1>3, InputParts DEF LedataRecord, AtRecord, LinkInv, PlaceInv, Working
  <2>2. rec \in DOMAIN Object /\ Record.type = "LEDATA"
    BY <1>3, <2>1, InputParts DEF LedataRecord, AtRecord, LinkInv, PlaceInv, Object, Working
  <2>3. RecordOK(Record)
    BY <2>1, <2>2, InputParts DEF Object, Record
  <2>4. Record.start \in Nat /\ Record.data \in Seq(Byte)
    BY <2>2, <2>3 DEF RecordOK
  <2>5. /\ ledata' = [StartOffset |-> Record.start, Data |-> Record.data]
        /\ UNCHANGED <<data, fixes, patches>>
    BY <1>3 DEF LedataRecord, ParseLedata, chainVars
  <2> QED
    BY <1>1, <2>4, <2>5
<1>4. CASE FixupRecord
  <2>1. file \in Files /\ input \in Inputs
    BY <1>4, InputParts DEF FixupRecord, AtRecord, LinkInv, PlaceInv, Working
  <2>2. rec \in DOMAIN Object /\ Record.type = "FIXUP"
    BY <1>4, <2>1, InputParts DEF FixupRecord, AtRecord, LinkInv, PlaceInv, Object, Working
  <2>3. RecordOK(Record)
    BY <2>1, <2>2, InputParts DEF Object, Record
  <2>4. ParseFixup(Record) \in Seq(FixSet)
    BY <2>2, <2>3, FixupsType
  <2>5. /\ fixes' = ParseFixup(Record) /\ data' = ledata.Data
        /\ UNCHANGED <<ledata, patches>>
    BY <1>4 DEF FixupRecord, chainVars
  <2> QED
    BY <1>1, <2>4, <2>5
<1>5. CASE SkipFix
  <2>1. Tail(fixes) \in Seq(FixSet)
    BY <1>5, AddressType DEF SkipFix
  <2> QED
    BY <1>1, <1>5, <2>1 DEF SkipFix, FixDone, chainVars
<1>6. CASE OffsetFix
  <2>1. Tail(fixes) \in Seq(FixSet)
    BY <1>6, AddressType DEF OffsetFix
  <2>2. Put16OK(Resolved.offset) => Put16(data, fix.DataOffset, Resolved.offset) \in Seq(Byte)
    BY <1>6, FixedData DEF OffsetFix
  <2>3. UNCHANGED <<ledata, patches>>
    BY <1>6 DEF OffsetFix, chainVars
  <2>4. \/ /\ fixes' = Tail(fixes) /\ Put16OK(Resolved.offset)
           /\ data' = Put16(data, fix.DataOffset, Resolved.offset)
        \/ UNCHANGED <<fixes, data>>
    BY <1>6, Zenon DEF OffsetFix, FixDone, Panic
  <2> QED
    BY <1>1, <2>1, <2>2, <2>3, <2>4
<1>7. CASE ChainFix
  <2> DEFINE list == getOrMake(seg.reloclist, Target)
             v == list[BucketOf(list, Target)].last
  <2>1. Tail(fixes) \in Seq(FixSet)
    BY <1>7, AddressType DEF ChainFix
  <2>2. Put16OK(v) => Put16(data, fix.DataOffset, v) \in Seq(Byte)
    BY <1>7, FixedData DEF ChainFix
  <2>3. UNCHANGED <<ledata, patches>>
    BY <1>7 DEF ChainFix, chainVars
  <2>4. \/ /\ fixes' = Tail(fixes) /\ Put16OK(v)
           /\ data' = Put16(data, fix.DataOffset, v)
        \/ UNCHANGED <<fixes, data>>
    BY <1>7, Zenon DEF ChainFix, FixDone, Panic
  <2> HIDE DEF v
  <2> QED
    BY <1>1, <2>1, <2>2, <2>3, <2>4
<1>8. CASE WriteData
  <2>1. /\ ledata' = [ledata EXCEPT !.Data = data]
        /\ UNCHANGED <<data, fixes, patches>>
    BY <1>8 DEF WriteData, chainVars
  <2> QED
    BY <1>1, <2>1
<1>9. CASE RecordsDone
  BY <1>1, <1>9, FS_EmptySet DEF RecordsDone, InEnd, recordVars
<1>10. CASE SortBucket
  <2>1. UNCHANGED recordVars
    BY <1>10 DEF SortBucket, InEnd
  <2> QED
    BY <1>1, <1>10, <2>1, SortedPatches DEF recordVars
<1>11. CASE UNCHANGED <<ledata, data, fixes, patches>>
  BY <1>1, <1>11
<1>12. \/ OpenOutput \/ LedataRecord \/ FixupRecord \/ SkipFix \/ OffsetFix \/ ChainFix
       \/ WriteData \/ RecordsDone \/ SortBucket \/ UNCHANGED <<ledata, data, fixes, patches>>
  BY Zenon DEF Next, ReadScript, Patch, BlankLine, UnknownLine, BadRelocLine, scriptModule,
    scriptRelocSegment, scriptRelocSymbol, MakeSegments, OutsideScript, loadSymbols,
    BeginPatching, DiskFull, OtherRecord, BadFixupRecord, SortDone, Relink, WriteRelocs,
    LoseRelocs, Finish, InEnd, GiveUp, recordVars, chainVars
<1> QED
  BY <1>2, <1>3, <1>4, <1>5, <1>6, <1>7, <1>8, <1>9, <1>10, <1>11, <1>12

\* What is written over a file, and behind it, are bytes.
LEMMA WrittenAt ==
  ASSUME NEW bytes \in Seq(Byte), NEW words, IsFiniteSet(DOMAIN words), DOMAIN words \subseteq Nat,
         \A a \in DOMAIN words : Put16OK(words[a])
  PROVE  /\ WriteAt(bytes, words) \in Seq(Byte)
         /\ Len(WriteAt(bytes, words)) >= Len(bytes)
         /\ \A i \in 1..Len(bytes) :
              i - 1 \notin DOMAIN words /\ i - 2 \notin DOMAIN words
                => WriteAt(bytes, words)[i] = bytes[i]
<1> DEFINE n == Len(bytes)
           A == DOMAIN words
           E == {a + 2 : a \in A}
           M == {n} \cup E
           len == Max(M)
           row(i) == IF i - 1 \in A THEN words[i - 1] % 256
                     ELSE IF i - 2 \in A THEN words[i - 2] \div 256
                     ELSE IF i <= n THEN bytes[i] ELSE 0
<1>1. n \in Nat /\ \A i \in 1..n : bytes[i] \in Byte
  BY LenProperties, ElementOfSeq
<1>2. E \subseteq Nat /\ IsFiniteSet(E)
  <2> DEFINE f == [a \in A |-> a + 2]
  <2>1. f \in Surjection(A, E)
    BY DEF Surjection
  <2> HIDE DEF f
  <2>2. IsFiniteSet(E)
    BY <2>1, FS_Surjection
  <2>3. \A a \in A : a + 2 \in Nat
    OBVIOUS
  <2> QED
    BY <2>2, <2>3
<1> HIDE DEF E
<1>3. M \in SUBSET Nat /\ M # {} /\ IsFiniteSet(M)
  <2>1. IsFiniteSet({n})
    BY FS_Singleton
  <2> QED
    BY <1>1, <1>2, <2>1, FS_Union
<1>4. len \in Nat /\ len >= n
  <2>1. n \in M
    OBVIOUS
  <2> HIDE DEF M
  <2>2. Max(M) \in M /\ \A m \in M : m <= Max(M)
    BY <1>3, MaxIs
  <2> QED
    BY <1>1, <1>3, <2>1, <2>2
<1>5. WriteAt(bytes, words) = [i \in 1..len |-> row(i)]
  BY DEF WriteAt, E
<1> HIDE DEF len
<1>6. ASSUME NEW i \in 1..len PROVE row(i) \in Byte
  <2>1. \A a \in A : words[a] % 256 \in Byte /\ words[a] \div 256 \in Byte
    <3>1. \A v \in Nat : v < 65536 => v % 256 \in Byte /\ v \div 256 \in Byte
      BY DEF Byte
    <3> QED
      BY <3>1 DEF Put16OK
  <2>2. i <= n => bytes[i] \in Byte
    BY <1>1
  <2>3. 0 \in Byte
    BY DEF Byte
  <2> HIDE DEF A, n
  <2> QED
    BY <2>1, <2>2, <2>3, Zenon
<1>7. [i \in 1..len |-> row(i)] \in [1..len -> Byte]
  <2> HIDE DEF row
  <2> QED
    BY <1>6
<1>8. /\ [i \in 1..len |-> row(i)] \in Seq(Byte) /\ Len([i \in 1..len |-> row(i)]) = len
  <2> HIDE DEF row
  <2> QED
    BY <1>4, <1>7, ListOf
<1>9. ASSUME NEW i \in 1..n, i - 1 \notin A, i - 2 \notin A
      PROVE  [k \in 1..len |-> row(k)][i] = bytes[i]
  <2>1. i \in 1..len /\ i <= n
    BY <1>1, <1>4
  <2>2. row(i) = bytes[i]
    BY <1>9, <2>1
  <2> HIDE DEF row
  <2> QED
    BY <2>1, <2>2
<1> HIDE DEF row
<1> QED
  BY <1>4, <1>5, <1>8, <1>9

LEMMA WordsType ==
  ASSUME LinkInv, NEW words \in [{p.addr : p \in patches} -> {p.value : p \in patches}],
         \A p \in patches : Put16OK(p.value)
  PROVE  /\ IsFiniteSet(DOMAIN words) /\ DOMAIN words \subseteq Nat
         /\ \A a \in DOMAIN words : Put16OK(words[a])
<1> DEFINE A == {p.addr : p \in patches}
           f == [p \in patches |-> p.addr]
<1>1. IsFiniteSet(patches) /\ patches \subseteq PatchSet
  BY DEF LinkInv, RecordsInv
<1>2. f \in Surjection(patches, A)
  BY DEF Surjection
<1> HIDE DEF f
<1>3. IsFiniteSet(A)
  BY <1>1, <1>2, FS_Surjection
<1>4. A \subseteq Nat
  BY <1>1 DEF PatchSet
<1>5. \A a \in A : Put16OK(words[a])
  OBVIOUS
<1> QED
  BY <1>3, <1>4, <1>5

LEMMA WordType ==
  ASSUME NEW v, Put16OK(v)
  PROVE  Word(v) \in Seq(Byte) /\ Len(Word(v)) = 2
<1>1. v % 256 \in Byte /\ v \div 256 \in Byte
  BY DEF Put16OK, Byte
<1> DEFINE a == v % 256
           b == v \div 256
<1> HIDE DEF a, b
<1>2. <<a, b>> \in Seq(Byte) /\ Len(<<a, b>>) = 2
  BY <1>1 DEF a, b
<1> QED
  BY <1>2 DEF Word, a, b

LEMMA RelocType ==
  ASSUME NEW ri, Put16OK(ri.last), \A k \in 1..2 : Put16OK(TargetWords(ri.target)[k])
  PROVE  RelocRecord(ri) \in Seq(Byte) /\ Len(RelocRecord(ri)) = 8
<1> DEFINE w == TargetWords(ri.target)
           A == Kind(ri.target)
           B1 == Word(ri.last)
           B2 == Word(w[1])
           B3 == Word(w[2])
<1>1. A \in Seq(Byte) /\ Len(A) = 2
  <2>1. 0 \in Byte /\ 1 \in Byte /\ 2 \in Byte /\ 3 \in Byte /\ 5 \in Byte
    BY DEF Byte
  <2>2. A = <<2, 0>> \/ A = <<5, 1>> \/ A = <<3, 1>>
    BY Zenon DEF Kind
  <2>3. <<2, 0>> \in Seq(Byte) /\ <<5, 1>> \in Seq(Byte) /\ <<3, 1>> \in Seq(Byte)
    BY <2>1
  <2>4. Len(<<2, 0>>) = 2 /\ Len(<<5, 1>>) = 2 /\ Len(<<3, 1>>) = 2
    OBVIOUS
  <2> HIDE DEF A
  <2> QED
    BY <2>2, <2>3, <2>4, Zenon
<1>2. /\ B1 \in Seq(Byte) /\ Len(B1) = 2
      /\ B2 \in Seq(Byte) /\ Len(B2) = 2
      /\ B3 \in Seq(Byte) /\ Len(B3) = 2
  <2>1. Put16OK(w[1]) /\ Put16OK(w[2])
    OBVIOUS
  <2> HIDE DEF w
  <2> QED
    BY <2>1, WordType
<1>3. RelocRecord(ri) = A \o B1 \o B2 \o B3
  BY DEF RelocRecord
<1> HIDE DEF A, B1, B2, B3
<1> DEFINE AB == A \o B1
           ABB == AB \o B2
           ABBB == ABB \o B3
<1>4. AB \in Seq(Byte) /\ Len(AB) = Len(A) + Len(B1)
  BY <1>1, <1>2, JoinType, Zenon
<1> HIDE DEF AB
<1>5. ABB \in Seq(Byte) /\ Len(ABB) = Len(AB) + Len(B2)
  BY <1>2, <1>4, JoinType, Zenon
<1> HIDE DEF ABB
<1>6. ABBB \in Seq(Byte) /\ Len(ABBB) = Len(ABB) + Len(B3)
  BY <1>2, <1>5, JoinType, Zenon
<1> HIDE DEF ABBB
<1>7. ABBB \in Seq(Byte) /\ Len(ABBB) = 8
  BY <1>1, <1>2, <1>4, <1>5, <1>6
<1> QED
  BY <1>3, <1>7 DEF AB, ABB, ABBB

LEMMA OutStep ==
  ASSUME LinkInv, Next
  PROVE  OutInv'
<1> USE DEF OutInv
<1>1. /\ out \in [Files -> Seq(Byte)] /\ Files' = Files
      /\ pc \in Working \/ (pc = "open" /\ file <= Len(input.objects)) => file \in Files /\ file # 0
      /\ data \in Seq(Byte)
  BY InputStays, InputParts DEF LinkInv, PlaceInv, RecordsInv, Objects
<1>2. CASE OpenOutput
  BY <1>1, <1>2, EmptySeq DEF OpenOutput
<1>3. CASE WriteData
  <2>1. out' = [out EXCEPT ![file] = out[file] \o data] /\ file \in Files
    BY <1>1, <1>3 DEF WriteData, Working
  <2>2. out[file] \o data \in Seq(Byte)
    BY <1>1, <2>1, ConcatProperties
  <2> QED
    BY <1>1, <2>1, <2>2
<1>4. CASE Relink
  <2>1. file \in Files
    BY <1>1, <1>4 DEF Relink, Working
  <2>2. PICK words \in [{p.addr : p \in patches} -> {p.value : p \in patches}] :
          \/ /\ \A p \in patches : Put16OK(p.value)
             /\ out' = [out EXCEPT ![file] = WriteAt(out[file], words)]
          \/ out' = out
    BY <1>4, Zenon DEF Relink
  <2>3. CASE /\ \A p \in patches : Put16OK(p.value)
             /\ out' = [out EXCEPT ![file] = WriteAt(out[file], words)]
    <3>1. /\ IsFiniteSet(DOMAIN words) /\ DOMAIN words \subseteq Nat
          /\ \A a \in DOMAIN words : Put16OK(words[a])
      BY <2>3, WordsType
    <3>2. out[file] \in Seq(Byte)
      BY <1>1, <2>1
    <3>3. WriteAt(out[file], words) \in Seq(Byte)
      BY <3>1, <3>2, WrittenAt
    <3> QED
      BY <1>1, <2>1, <2>3, <3>3
  <2> QED
    BY <1>1, <2>2, <2>3
<1>5. CASE WriteRelocs
  <2> DEFINE list == seg.reloclist
             n == Len(list)
             row(i) == IF list[i].patches = <<>> THEN <<>> ELSE RelocRecord(list[i])
             rows == [i \in DOMAIN list |-> row(i)]
             head == <<n % 256, 0>>
             fits == \A ri \in Range(list) :
                       ri.patches # <<>> => /\ Put16OK(ri.last)
                                            /\ \A k \in 1..2 : Put16OK(TargetWords(ri.target)[k])
  <2>1. file \in Files /\ file # 0
    BY <1>1, <1>5 DEF WriteRelocs, Working
  <2>2. list \in Seq(BucketSet) /\ n \in Nat /\ DOMAIN list = 1..n
    BY <2>1, LenProperties DEF LinkInv, SegmentsInv, SegmentSet, seg
  <2>3. \/ fits /\ out' = [out EXCEPT ![file] = out[file] \o head \o FlattenSeq(rows)]
        \/ out' = out
    BY <1>5, Zenon DEF WriteRelocs
  <2>4. CASE fits /\ out' = [out EXCEPT ![file] = out[file] \o head \o FlattenSeq(rows)]
    <3>1. ASSUME NEW i \in 1..n PROVE row(i) \in Seq(Byte)
      <4>1. list[i] \in Range(list)
        BY <2>2 DEF Range
      <4>2. CASE list[i].patches = <<>>
        BY <4>2, EmptySeq
      <4>3. CASE list[i].patches # <<>>
        BY <2>4, <4>1, <4>3, RelocType
      <4> QED
        BY <4>2, <4>3
    <3> HIDE DEF row
    <3>2. rows \in [1..n -> Seq(Byte)]
      BY <2>2, <3>1
    <3> HIDE DEF rows
    <3>3. FlattenSeq(rows) \in Seq(Byte)
      BY <2>2, <3>2, ListOf, FlattenType
    <3>4. head \in Seq(Byte)
      <4> DEFINE c == n % 256
      <4>1. c \in Byte /\ 0 \in Byte
        <5>1. \A m \in Nat : m % 256 \in 0..255
          OBVIOUS
        <5> HIDE DEF n
        <5> QED
          BY <2>2, <5>1 DEF Byte
      <4> HIDE DEF c
      <4>2. <<c, 0>> \in Seq(Byte)
        BY <4>1
      <4> QED
        BY <4>2 DEF c
    <3> HIDE DEF head
    <3>5. out[file] \in Seq(Byte)
      BY <1>1, <2>1
    <3>6. out[file] \o head \o FlattenSeq(rows) \in Seq(Byte)
      BY <3>3, <3>4, <3>5, ConcatProperties
    <3> QED
      BY <1>1, <2>1, <2>4, <3>6
  <2> QED
    BY <1>1, <2>3, <2>4
<1>6. CASE out' = out
  BY <1>1, <1>6
<1>7. OpenOutput \/ WriteData \/ Relink \/ WriteRelocs \/ out' = out
  BY Zenon DEF Next, ReadScript, Patch, BlankLine, UnknownLine, BadRelocLine, scriptModule,
    scriptRelocSegment, scriptRelocSymbol, MakeSegments, OutsideScript, loadSymbols,
    BeginPatching, DiskFull, OtherRecord, LedataRecord, FixupRecord, BadFixupRecord, SkipFix,
    OffsetFix, ChainFix, RecordsDone, SortBucket, SortDone, LoseRelocs, Finish
<1> QED
  BY <1>2, <1>3, <1>4, <1>5, <1>6, <1>7

-----------------------------------------------------------------------------
(***************************************************************************)
(* The layout of the executable.                                           *)
(***************************************************************************)
Sectors == {v \in Nat : v % 512 = 0}

LEMMA Aligned ==
  ASSUME NEW v \in Nat
  PROVE  align(v, 512) \in Sectors /\ align(v, 512) >= v
<1>1. v % 512 \in 0..511
  OBVIOUS
<1>2. CASE v % 512 = 0
  BY <1>2 DEF align, Sectors
<1>3. CASE v % 512 # 0
  <2> DEFINE w == v + 512 - (v % 512)
  <2>1. align(v, 512) = w
    BY <1>3 DEF align
  <2>2. w \in Nat /\ w >= v
    BY <1>1
  <2>3. w % 512 = 0
    BY <1>1
  <2> QED
    BY <2>1, <2>2, <2>3 DEF Sectors
<1> QED
  BY <1>2, <1>3

LEMMA GapIs == \A i : Gap(i) \in Sectors
<1>1. 512 \in Sectors /\ 6656 \in Sectors /\ 0 \in Sectors
  BY DEF Sectors
<1>2. 25088 - 18432 = 6656
  OBVIOUS
<1>3. ASSUME NEW i PROVE Gap(i) = 512 \/ Gap(i) = 25088 - 18432 \/ Gap(i) = 0
  <2>1. CASE i = 2
    BY <2>1 DEF Gap
  <2>2. CASE i = 3
    BY <2>2 DEF Gap
  <2>3. CASE i # 2 /\ i # 3
    BY <2>3 DEF Gap
  <2> QED
    BY <2>1, <2>2, <2>3
<1> QED
  BY <1>1, <1>2, <1>3

LEMMA SectorSum == ASSUME NEW a \in Sectors, NEW b \in Sectors PROVE a + b \in Sectors
BY DEF Sectors

\* Each segment begins on a sector behind the one before it.
LEMMA StartsAre ==
  ASSUME LinkInv, file # 0
  PROVE  \A i \in Files : /\ Starts[i] \in Sectors
                          /\ i > 1 => Starts[i] >= Starts[i - 1] + segments[i - 1].size
                                                     + segments[i - 1].relocsize
<1> DEFINE n == Objects(input)
           long(k) == segments[k].size + segments[k].relocsize
           next(k, v) == Gap(k) + (IF k = 1 THEN 2560
                                   ELSE align(v + segments[k - 1].size
                                                + segments[k - 1].relocsize, 512))
           step == [k \in 1..n |-> [v \in Sectors |-> next(k, v)]]
           body(f, i) == Gap(i) + (IF i = 1 THEN 2560
                                   ELSE align(f[i - 1] + segments[i - 1].size
                                                + segments[i - 1].relocsize, 512))
           start == CHOOSE f : f = [i \in Files |-> body(f, i)]
<1>1. n \in Nat /\ Files = 1..n
  BY InputParts DEF LinkInv, PlaceInv
<1>2. \A k \in 1..n : segments[k].size \in Nat /\ segments[k].relocsize \in Nat
  BY <1>1 DEF LinkInv, SegmentsInv, SegmentSet
<1>3. 2560 \in Sectors
  BY DEF Sectors
<1>4. ASSUME NEW k \in 1..n, NEW v \in Sectors PROVE next(k, v) \in Sectors
  <2>1. CASE k = 1
    <3>1. Gap(k) \in Sectors
      BY GapIs
    <3> QED
      BY <1>3, <2>1, <3>1, SectorSum
  <2>2. CASE k # 1
    <3> DEFINE w == v + segments[k - 1].size + segments[k - 1].relocsize
    <3>1. k - 1 \in 1..n
      BY <1>1, <2>2
    <3>2. w \in Nat
      BY <1>2, <3>1 DEF Sectors
    <3> HIDE DEF w
    <3>3. Gap(k) \in Sectors /\ align(w, 512) \in Sectors
      BY <3>2, Aligned, GapIs
    <3>4. Gap(k) + align(w, 512) \in Sectors
      BY <3>3, SectorSum
    <3> QED
      BY <2>2, <3>4 DEF w
  <2> QED
    BY <2>1, <2>2
<1> HIDE DEF next
<1>5. step \in Steps(Sectors, n)
  BY <1>4 DEF Steps
<1>6. PICK r : IsRun(r, Sectors, n, 0, step)
  <2>1. 0 \in Sectors
    BY DEF Sectors
  <2> HIDE DEF step
  <2> QED
    BY <1>1, <1>5, <2>1, RunExists
<1>7. r \in [0..n -> Sectors] /\ \A k \in 1..n : r[k] = next(k, r[k - 1])
  <2>1. r \in [0..n -> Sectors] /\ \A k \in 1..n : r[k] = step[k][r[k - 1]]
    BY <1>6 DEF IsRun
  <2>2. \A k \in 1..n : k - 1 \in 0..n
    BY <1>1
  <2>3. \A k \in 1..n : r[k - 1] \in Sectors
    BY <2>1, <2>2
  <2> QED
    BY <2>1, <2>3
<1> DEFINE h == [k \in 1..n |-> r[k]]
<1>8. h = [i \in Files |-> body(h, i)]
  <2>1. \A k \in 1..n : k # 1 => k - 1 \in 1..n
    BY <1>1
  <2>2. ASSUME NEW k \in 1..n
        PROVE  r[k] = body(h, k)
    <3>1. k # 1 => h[k - 1] = r[k - 1]
      BY <2>1
    <3> HIDE DEF h
    <3> QED
      BY <1>7, <3>1 DEF next
  <2> HIDE DEF body
  <2>3. [k \in 1..n |-> r[k]] = [i \in 1..n |-> body(h, i)]
    BY <2>2
  <2> QED
    BY <1>1, <2>3 DEF h
<1>9. Starts = start
  BY DEF Starts
<1> HIDE DEF h, body
<1>10. start = [i \in Files |-> body(start, i)]
  BY <1>8
<1> HIDE DEF start
<1>11. \A k \in 1..n : start[k] = next(k, start[k - 1])
  BY <1>1, <1>10 DEF next, body
<1>12. \A k \in 1..n : start[k] \in Sectors
  <2> DEFINE K == {k \in Nat : k + 1 <= n => start[k + 1] \in Sectors}
  <2>1. 0 \in K
    <3> SUFFICES ASSUME 1 <= n PROVE start[1] \in Sectors
      OBVIOUS
    <3>1. 1 \in 1..n
      BY <1>1
    <3>2. start[1] = Gap(1) + 2560
      BY <1>11, <3>1 DEF next
    <3>3. Gap(1) \in Sectors
      BY GapIs
    <3> QED
      BY <1>3, <3>2, <3>3, SectorSum
  <2>2. ASSUME NEW k \in Nat, k \in K PROVE k + 1 \in K
    <3> SUFFICES ASSUME (k + 1) + 1 <= n PROVE start[(k + 1) + 1] \in Sectors
      OBVIOUS
    <3>1. (k + 1) + 1 \in 1..n /\ ((k + 1) + 1) - 1 = k + 1 /\ start[k + 1] \in Sectors
      BY <1>1, <2>2
    <3>2. start[(k + 1) + 1] = next((k + 1) + 1, start[k + 1])
      BY <1>11, <3>1
    <3> QED
      BY <1>4, <3>1, <3>2
  <2> HIDE DEF K
  <2>3. Nat \subseteq K
    BY <2>1, <2>2, NatInd
  <2>4. ASSUME NEW k \in 1..n PROVE start[k] \in Sectors
    <3>1. k - 1 \in Nat /\ (k - 1) + 1 = k /\ k <= n
      BY <1>1
    <3>2. k - 1 \in K
      BY <2>3, <3>1
    <3> QED
      BY <3>1, <3>2 DEF K
  <2> QED
    BY <2>4
<1>13. ASSUME NEW k \in 1..n, k > 1
       PROVE  start[k] >= start[k - 1] + segments[k - 1].size + segments[k - 1].relocsize
  <2> DEFINE w == start[k - 1] + segments[k - 1].size + segments[k - 1].relocsize
  <2>1. k - 1 \in 1..n /\ k # 1
    BY <1>1, <1>13
  <2>2. w \in Nat
    BY <1>2, <1>12, <2>1 DEF Sectors
  <2>3. start[k] = Gap(k) + align(w, 512)
    BY <1>11, <2>1 DEF next
  <2> HIDE DEF w
  <2>4. Gap(k) \in Nat /\ align(w, 512) \in Nat /\ align(w, 512) >= w
    BY <2>2, GapIs, Aligned DEF Sectors
  <2> DEFINE g == Gap(k)
             a == align(w, 512)
  <2> HIDE DEF g, a
  <2>5. g + a >= w
    BY <2>2, <2>4 DEF g, a
  <2> QED
    BY <2>3, <2>5 DEF w, g, a
<1> QED
  BY <1>1, <1>9, <1>12, <1>13

-----------------------------------------------------------------------------
(***************************************************************************)
(* The segments.                                                           *)
(***************************************************************************)
LEMMA SegmentChanged ==
  ASSUME LinkInv, input' = input, Files' = Files, file \in Files, file # 0, NEW s \in SegmentSet,
         s.reloclist \in Buckets, segments' = [segments EXCEPT ![file] = s],
         \/ pc = "symbols" /\ s.reloclist = <<>>
         \/ pc' # "symbols" /\ ((file' = file /\ pc' # "open") \/ file' = file + 1),
         file' # 0
  PROVE  SegmentsInv'
<1>1. /\ segments \in [Files -> SegmentSet]
      /\ \A i \in Files : segments[i].reloclist \in Buckets
      /\ \A i \in Files : pc = "symbols" \/ i > file => segments[i].reloclist = <<>>
      /\ Files \subseteq Nat
  BY InputParts DEF LinkInv, SegmentsInv, PlaceInv
<1>2. segments' \in [Files -> SegmentSet]
  BY <1>1
<1>3. \A i \in Files : segments'[i] = IF i = file THEN s ELSE segments[i]
  BY <1>1
<1>4. \A i \in Files : segments'[i].reloclist \in Buckets
  BY <1>1, <1>3
<1>5. ASSUME NEW i \in Files, pc' = "symbols" \/ i > file' \/ (i = file' /\ pc' = "open")
      PROVE  segments'[i].reloclist = <<>>
  <2>1. i \in Nat /\ file \in Nat
    BY <1>1
  <2>2. CASE pc = "symbols" /\ s.reloclist = <<>>
    BY <1>1, <1>3, <2>2
  <2>3. CASE pc' # "symbols" /\ ((file' = file /\ pc' # "open") \/ file' = file + 1)
    <3>1. i > file /\ i # file
      BY <1>5, <2>1, <2>3
    <3> QED
      BY <1>1, <1>3, <3>1
  <2> QED
    BY <2>2, <2>3
<1> QED
  BY <1>2, <1>4, <1>5 DEF SegmentsInv

LEMMA LoadSymbolsKeeps ==
  ASSUME LinkInv, Next, loadSymbols
  PROVE  SegmentsInv'
<1>1. /\ input' = input /\ Files' = Files /\ file \in Files /\ file # 0 /\ file \in Nat
      /\ pc = "symbols" /\ input \in Inputs
      /\ seg \in SegmentSet /\ seg.reloclist = <<>> /\ segments \in [Files -> SegmentSet]
  BY InputStays, InputParts DEF LinkInv, PlaceInv, SegmentsInv, loadSymbols, Objects, seg
<1>2. CASE AllRead(Object)
  <2> DEFINE names == NewNames(ReadObjNames(Object))
             new == [i \in DOMAIN names |->
                       Local(names[i].Name, seg.num, names[i].Offset, names[i].Const)]
             own == [i \in DOMAIN new |-> Len(symbols) + i]
             ext == ReadExternalNames(Object)
             s == [seg EXCEPT !.extnames = ext, !.symbols = own]
  <2>1. /\ segments' = [segments EXCEPT ![file].extnames = ext, ![file].symbols = own]
        /\ file' = file + 1 /\ pc' = "symbols"
    BY <1>2 DEF loadSymbols
  <2>2. DOMAIN new = 1..Len(new) /\ Len(new) \in Nat
    BY LoadedSymbols DEF loadSymbols
  <2> HIDE DEF new
  <2>3. own \in Seq(Nat)
    <3>1. Len(symbols) \in Nat
      BY LenProperties DEF LinkInv, SymbolsInv
    <3>2. \A i \in 1..Len(new) : Len(symbols) + i \in Nat
      BY <2>2, <3>1
    <3>3. own \in [1..Len(new) -> Nat]
      BY <2>2, <3>2
    <3> HIDE DEF own
    <3> QED
      BY <2>2, <3>3, ListOf
  <2>4. ext \in Seq(ExternalName)
    BY <1>1, ExternalNamesType DEF Object
  <2> HIDE DEF own, ext
  <2>5. s \in SegmentSet /\ s.reloclist = <<>>
    BY <1>1, <2>3, <2>4 DEF SegmentSet
  <2>6. segments' = [segments EXCEPT ![file] = s]
    BY <1>1, <2>1 DEF seg, SegmentSet
  <2>7. <<>> \in Buckets
    BY EmptySeq DEF Buckets, Distinct
  <2> HIDE DEF s
  <2>8. file' # 0
    BY <1>1, <2>1
  <2> QED
    BY <1>1, <2>5, <2>6, <2>7, <2>8, SegmentChanged
<1>3. CASE ~AllRead(Object)
  <2>1. UNCHANGED <<segments, file>> /\ pc' = "failed"
    BY <1>3 DEF loadSymbols
  <2> QED
    BY <1>1, <2>1 DEF LinkInv, SegmentsInv
<1> QED
  BY <1>2, <1>3

LEMMA SegmentsStep ==
  ASSUME LinkInv, Next
  PROVE  SegmentsInv'
<1>1. /\ input' = input /\ Files' = Files /\ input \in Inputs /\ SegmentsInv
      /\ Objects(input) \in Nat /\ Files = 1..Objects(input)
      /\ file \in 0..(Objects(input) + 1) /\ (pc = "script" => file = 0)
      /\ pc \in Working => file \in Files
  BY InputStays, InputParts DEF LinkInv, PlaceInv
<1>2. CASE MakeSegments
  <2> DEFINE num(i) == IF Len(input.objects) = 1 /\ input.seg > 0 THEN input.seg ELSE i
  <2>1. segments' = [i \in Files |-> Segment(num(i))] /\ file' = 1
    BY <1>2 DEF MakeSegments
  <2>2. ASSUME NEW i \in Files
        PROVE  Segment(num(i)) \in SegmentSet /\ Segment(num(i)).reloclist = <<>>
    <3>1. num(i) \in SegmentNumbers
      BY <1>1, InputParts
    <3> HIDE DEF num
    <3> QED
      BY <3>1, EmptySeq DEF Segment, SegmentSet
  <2> HIDE DEF num
  <2>3. <<>> \in Buckets
    BY EmptySeq DEF Buckets, Distinct
  <2> QED
    BY <1>1, <2>1, <2>2, <2>3 DEF SegmentsInv
<1>3. CASE loadSymbols
  BY <1>3, LoadSymbolsKeeps
<1>4. CASE OpenOutput
  <2> DEFINE list == Preloaded(userinfo[seg.num])
             s == [seg EXCEPT !.reloclist = list]
  <2>1. /\ file \in Files /\ file # 0 /\ file' = file /\ pc' = "records"
        /\ segments' = [segments EXCEPT ![file].reloclist = list]
        /\ segments \in [Files -> SegmentSet] /\ seg \in SegmentSet
        /\ seg.reloclist = <<>>
    BY <1>1, <1>4 DEF OpenOutput, LinkInv, PlaceInv, SegmentsInv, InPatch, Objects, seg
  <2>2. userinfo[seg.num] \in Seq(UserSet)
    BY <2>1 DEF LinkInv, UsersInv, SegmentSet
  <2>3. seg.reloclist \in Buckets /\ Fresh(seg.reloclist)
    BY <2>1, EmptySeq DEF Buckets, Distinct, Fresh
  <2>4. list \in Buckets
    BY <2>2, <2>3, PreloadedBuckets
  <2> HIDE DEF list
  <2>5. s \in SegmentSet /\ s.reloclist \in Buckets
    BY <2>1, <2>4 DEF SegmentSet, Buckets
  <2>6. segments' = [segments EXCEPT ![file] = s]
    BY <2>1 DEF seg, SegmentSet
  <2> HIDE DEF s
  <2> QED
    BY <1>1, <2>1, <2>5, <2>6, SegmentChanged
<1>5. CASE ChainFix \/ SortBucket
  <2> DEFINE list == segments'[file].reloclist
             s == [seg EXCEPT !.reloclist = list]
  <2>1. list \in Buckets /\ segments' = [segments EXCEPT ![file].reloclist = list]
    BY <1>5, ChainedBuckets, SortedPatches
  <2>2. /\ file \in Files /\ file # 0 /\ file' = file
        /\ pc' # "open" /\ pc' # "symbols"
        /\ segments \in [Files -> SegmentSet] /\ seg \in SegmentSet
    BY <1>1, <1>5 DEF ChainFix, SortBucket, Fixing, FixDone, Panic, LinkInv, PlaceInv,
      SegmentsInv, InPatch, InEnd, seg, Working
  <2> HIDE DEF list
  <2>3. s \in SegmentSet /\ s.reloclist \in Buckets
    BY <2>1, <2>2 DEF SegmentSet, Buckets
  <2>4. segments' = [segments EXCEPT ![file] = s]
    BY <2>1, <2>2 DEF seg, SegmentSet
  <2> HIDE DEF s
  <2> QED
    BY <1>1, <2>2, <2>3, <2>4, SegmentChanged
<1>6. CASE WriteData
  <2> DEFINE size == segments[file].size + Len(data)
             s == [seg EXCEPT !.size = size]
  <2>1. /\ file \in Files /\ file # 0 /\ file' = file /\ pc' = "records"
        /\ segments \in [Files -> SegmentSet] /\ seg \in SegmentSet /\ seg.reloclist \in Buckets
        /\ segments' = [segments EXCEPT ![file].size = size]
    BY <1>1, <1>6 DEF WriteData, LinkInv, PlaceInv, SegmentsInv, InPatch, seg, Working
  <2>2. size \in Nat
    <3>1. Len(data) \in Nat
      BY LenProperties DEF LinkInv, RecordsInv
    <3>2. segments[file].size \in Nat
      BY <2>1 DEF SegmentSet
    <3> QED
      BY <3>1, <3>2
  <2> HIDE DEF size
  <2>3. s \in SegmentSet /\ s.reloclist \in Buckets
    BY <2>1, <2>2 DEF SegmentSet
  <2>4. segments' = [segments EXCEPT ![file] = s]
    BY <2>1 DEF seg, SegmentSet
  <2> HIDE DEF s
  <2> QED
    BY <1>1, <2>1, <2>3, <2>4, SegmentChanged
<1>7. CASE WriteRelocs \/ LoseRelocs
  <2> DEFINE size == 2 + 8 * Len(seg.reloclist)
             s == [seg EXCEPT !.relocsize = size]
  <2>1. /\ file \in Files /\ file # 0 /\ file \in Nat
        /\ (file' = file /\ pc' = "panic") \/ (file' = file + 1 /\ pc' = "open")
        /\ segments \in [Files -> SegmentSet] /\ seg \in SegmentSet /\ seg.reloclist \in Buckets
        /\ segments' = [segments EXCEPT ![file].relocsize = size]
    <3>1. pc = "relocs" /\ segments' = [segments EXCEPT ![file].relocsize = size]
      BY <1>7, Zenon DEF WriteRelocs, LoseRelocs
    <3>2. (file' = file /\ pc' = "panic") \/ (file' = file + 1 /\ pc' = "open")
      BY <1>7, Zenon DEF WriteRelocs, LoseRelocs
    <3>3. file \in Files /\ file # 0 /\ file \in Nat
      BY <1>1, <3>1 DEF LinkInv, PlaceInv, Working
    <3>4. segments \in [Files -> SegmentSet] /\ seg \in SegmentSet /\ seg.reloclist \in Buckets
      BY <1>1, <3>3 DEF SegmentsInv, seg
    <3> QED
      BY <3>1, <3>2, <3>3, <3>4
  <2>2. size \in Nat
    BY <2>1, LenProperties DEF Buckets
  <2> HIDE DEF size
  <2>3. s \in SegmentSet /\ s.reloclist \in Buckets
    BY <2>1, <2>2 DEF SegmentSet
  <2>4. segments' = [segments EXCEPT ![file] = s]
    BY <2>1 DEF seg, SegmentSet
  <2> HIDE DEF s
  <2>5. file' # 0
    BY <2>1
  <2> QED
    BY <1>1, <2>1, <2>3, <2>4, <2>5, SegmentChanged
<1>8. CASE Finish
  <2>1. /\ file # 0 /\ file' = file /\ pc' \in {"done", "failed"}
        /\ segments' = [i \in Files |-> [segments[i] EXCEPT !.start = Starts[i]]]
        /\ segments \in [Files -> SegmentSet]
    BY <1>1, <1>8 DEF Finish, SegmentsInv
  <2>2. \A i \in Files : Starts[i] \in Nat
    BY <2>1, StartsAre DEF Sectors
  <2>3. ASSUME NEW i \in Files
        PROVE  /\ [segments[i] EXCEPT !.start = Starts[i]] \in SegmentSet
               /\ [segments[i] EXCEPT !.start = Starts[i]].reloclist = segments[i].reloclist
    BY <2>1, <2>2 DEF SegmentSet
  <2> QED
    BY <1>1, <2>1, <2>3 DEF SegmentsInv
<1>9. CASE BeginPatching
  BY <1>1, <1>9 DEF BeginPatching, SegmentsInv
<1>10. CASE DiskFull \/ BadFixupRecord
  <2>1. UNCHANGED segments /\ file' = file + 1 /\ pc' = "open"
    BY <1>10, Zenon DEF DiskFull, BadFixupRecord, GiveUp
  <2>2. file # 0
    <3>1. pc \in Working \cup {"open"}
      BY <1>10 DEF DiskFull, BadFixupRecord, AtRecord, Working
    <3> QED
      BY <1>1, <3>1 DEF LinkInv, PlaceInv
  <2> QED
    BY <1>1, <2>1, <2>2 DEF SegmentsInv
<1>11. CASE /\ UNCHANGED <<segments, file>>
            /\ (pc' # "symbols" /\ pc' # "open") \/ pc' = pc
  BY <1>1, <1>11 DEF SegmentsInv
<1>12. CASE BlankLine \/ UnknownLine \/ BadRelocLine \/ scriptModule \/ scriptRelocSegment
            \/ scriptRelocSymbol
  <2>1. UNCHANGED <<segments, file>> /\ pc' \in {"script", "failed"}
    BY <1>12, Zenon DEF BlankLine, UnknownLine, BadRelocLine, scriptModule, scriptRelocSegment,
      scriptRelocSymbol, OutsideScript, NextLine, Fail
  <2> QED
    BY <1>11, <2>1
<1>13. CASE OtherRecord \/ LedataRecord \/ FixupRecord \/ SkipFix \/ OffsetFix \/ RecordsDone
            \/ SortDone \/ Relink
  <2>1. UNCHANGED <<segments, file>> /\ (pc' \in Working \cup {"panic"} \/ pc' = pc)
    BY <1>13, Zenon DEF OtherRecord, LedataRecord, FixupRecord, SkipFix, OffsetFix, RecordsDone,
      SortDone, Relink, InPatch, InEnd, FixDone, Panic, Working
  <2> QED
    BY <1>11, <2>1 DEF Working
<1> QED
  BY <1>2, <1>3, <1>4, <1>5, <1>6, <1>7, <1>8, <1>9, <1>10, <1>12, <1>13
    DEF Next, ReadScript, Patch

LEMMA LinesStep ==
  ASSUME LinkInv, Next
  PROVE  LinesInv'
<1> USE DEF LinesInv
<1>1. /\ SegmentsInv /\ UsersInv /\ LinesInv
      /\ pc \in Working \/ (pc = "open" /\ file <= Objects(input))
           => /\ file \in Files /\ file # 0
              /\ segments \in [Files -> SegmentSet] /\ seg \in SegmentSet
  BY InputParts DEF LinkInv, PlaceInv, SegmentsInv, seg
<1>2. CASE OpenOutput
  <2> DEFINE list == Preloaded(userinfo[seg.num])
  <2>1. /\ file \in Files /\ file # 0 /\ file' = file /\ userinfo' = userinfo
        /\ segments \in [Files -> SegmentSet] /\ seg \in SegmentSet /\ seg.reloclist = <<>>
        /\ segments' = [segments EXCEPT ![file].reloclist = list]
    BY <1>1, <1>2 DEF OpenOutput, SegmentsInv, InPatch, Objects, seg
  <2>2. userinfo[seg.num] \in Seq(UserSet)
    BY <1>1, <2>1 DEF UsersInv, SegmentSet
  <2>3. seg.reloclist \in Buckets /\ Fresh(seg.reloclist)
    BY <2>1, EmptySeq DEF Buckets, Distinct, Fresh
  <2>4. \A k \in 1..Len(userinfo[seg.num]) : HasBucket(list, userinfo[seg.num][k].target)
    BY <2>2, <2>3, PreloadedBuckets
  <2> HIDE DEF list
  <2>5. seg'.reloclist = list /\ seg'.num = seg.num
    BY <2>1 DEF seg, SegmentSet
  <2>6. Users' = userinfo[seg.num]
    BY <2>1, <2>5 DEF Users
  <2> QED
    BY <2>4, <2>5, <2>6
<1>3. CASE ChainFix \/ SortBucket
  <2> DEFINE list == segments'[file].reloclist
  <2>1. /\ segments' = [segments EXCEPT ![file].reloclist = list]
        /\ \A u : HasBucket(seg.reloclist, u) => HasBucket(list, u)
    BY <1>3, ChainedBuckets, SortedPatches
  <2>2. /\ pc \in {"fixups", "sort"} /\ file' = file /\ userinfo' = userinfo
        /\ file \in Files /\ segments \in [Files -> SegmentSet]
    BY <1>1, <1>3 DEF ChainFix, SortBucket, Fixing, InPatch, InEnd, Working
  <2> HIDE DEF list
  <2>3. seg'.reloclist = list /\ seg'.num = seg.num
    BY <2>1, <2>2 DEF seg, SegmentSet
  <2>4. Users' = Users
    BY <2>2, <2>3 DEF Users
  <2> QED
    BY <1>1, <2>1, <2>2, <2>3, <2>4
<1>4. CASE WriteData
  <2>1. /\ pc = "fixups" /\ file' = file /\ userinfo' = userinfo
        /\ file \in Files /\ segments \in [Files -> SegmentSet]
        /\ segments' = [segments EXCEPT ![file].size = segments[file].size + Len(data)]
    BY <1>1, <1>4 DEF WriteData, InPatch, Working
  <2>2. seg'.reloclist = seg.reloclist /\ seg'.num = seg.num
    BY <2>1 DEF seg, SegmentSet
  <2>3. Users' = Users
    BY <2>1, <2>2 DEF Users
  <2> QED
    BY <1>1, <2>1, <2>2, <2>3
<1>5. CASE OtherRecord \/ LedataRecord \/ FixupRecord \/ SkipFix \/ OffsetFix \/ RecordsDone
  <2>1. /\ UNCHANGED <<segments, file, userinfo>> /\ pc \in {"records", "fixups"}
    BY <1>5, Zenon DEF OtherRecord, LedataRecord, FixupRecord, SkipFix, OffsetFix, RecordsDone,
      AtRecord, Fixing, InPatch, InEnd
  <2>2. seg' = seg /\ Users' = Users
    BY <2>1 DEF seg, Users
  <2> QED
    BY <1>1, <2>1, <2>2
<1>6. CASE pc' \notin {"records", "fixups", "sort"}
  BY <1>6
<1>7. \/ OpenOutput \/ ChainFix \/ SortBucket \/ WriteData
      \/ OtherRecord \/ LedataRecord \/ FixupRecord \/ SkipFix \/ OffsetFix \/ RecordsDone
      \/ pc' \notin {"records", "fixups", "sort"}
  <2>1. CASE ReadScript
    <3>1. pc' \in {"script", "failed", "symbols"}
      BY <2>1, Zenon DEF ReadScript, BlankLine, UnknownLine, BadRelocLine, scriptModule,
        scriptRelocSegment, scriptRelocSymbol, MakeSegments, NextLine, Fail
    <3> QED
      BY <3>1
  <2>2. CASE loadSymbols \/ BeginPatching \/ Finish \/ DiskFull \/ BadFixupRecord \/ SortDone
             \/ Relink \/ WriteRelocs \/ LoseRelocs
    <3>1. pc' \in {"symbols", "failed", "open", "done", "relink", "relocs", "panic"}
      BY <2>2, Zenon DEF loadSymbols, BeginPatching, Finish, DiskFull, BadFixupRecord, GiveUp,
        SortDone, Relink, WriteRelocs, LoseRelocs
    <3> QED
      BY <3>1
  <2> QED
    BY <2>1, <2>2 DEF Next, Patch
<1> QED
  BY <1>2, <1>3, <1>4, <1>5, <1>6, <1>7

LEMMA ApartStep ==
  ASSUME LinkInv, Next
  PROVE  SegmentsApart'
<1>1. /\ input' = input /\ Files' = Files /\ input \in Inputs /\ SegmentsInv
      /\ Objects(input) \in Nat /\ Files = 1..Objects(input)
      /\ file \in 0..(Objects(input) + 1) /\ (pc = "script" => file = 0)
      /\ Objects(input') = Len(input'.objects)
  BY InputStays, InputParts DEF LinkInv, PlaceInv, Objects
<1>2. CASE Finish
  <2>1. /\ file # 0 /\ segments \in [Files -> SegmentSet]
        /\ segments' = [i \in Files |-> [segments[i] EXCEPT !.start = Starts[i]]]
    BY <1>1, <1>2 DEF Finish, SegmentsInv, Objects
  <2>2. \A i \in Files : /\ Starts[i] \in Sectors
                         /\ i > 1 => Starts[i] >= Starts[i - 1] + segments[i - 1].size
                                                    + segments[i - 1].relocsize
    BY <2>1, StartsAre
  <2>3. \A i \in Files : /\ segments'[i].start = Starts[i]
                         /\ segments'[i].size = segments[i].size
                         /\ segments'[i].relocsize = segments[i].relocsize
    BY <2>1 DEF SegmentSet
  <2>4. \A i \in Files : i > 1 => i - 1 \in Files
    BY <1>1
  <2>5. \A i \in Files : /\ segments'[i].start % 512 = 0
                         /\ i > 1 => segments'[i].start >= segments'[i - 1].start
                                       + segments'[i - 1].size + segments'[i - 1].relocsize
    BY <2>2, <2>3, <2>4 DEF Sectors
  <2> QED
    BY <1>1, <2>5 DEF SegmentsApart
<1>3. CASE ReadScript
  <2>1. pc' \in {"script", "failed", "symbols"}
    BY <1>3, Zenon DEF ReadScript, BlankLine, UnknownLine, BadRelocLine, scriptModule,
      scriptRelocSegment, scriptRelocSymbol, MakeSegments, NextLine, Fail
  <2>2. pc = "script" /\ (pc' = "symbols" \/ file' = file)
    BY <1>3, Zenon DEF ReadScript, BlankLine, UnknownLine, BadRelocLine, scriptModule,
      scriptRelocSegment, scriptRelocSymbol, MakeSegments, OutsideScript, Reading
  <2>3. pc' \notin {"done", "failed"} \/ file' = 0
    BY <1>1, <2>1, <2>2
  <2> QED
    BY <2>3 DEF SegmentsApart, Patching
<1>4. CASE loadSymbols
  <2>1. pc' = "symbols" \/ (pc' = "failed" /\ file' = file /\ file <= Objects(input))
    BY <1>4, Zenon DEF loadSymbols, Objects
  <2> QED
    BY <1>1, <2>1 DEF SegmentsApart, Patching
<1>5. CASE BeginPatching \/ Patch
  <2>1. pc' \notin {"done", "failed"}
    <3>1. CASE BeginPatching \/ OpenOutput \/ DiskFull \/ FixupRecord \/ BadFixupRecord
               \/ SkipFix \/ OffsetFix \/ ChainFix
      <4>1. pc' \in {"open", "records", "fixups", "panic"}
        BY <3>1, Zenon DEF BeginPatching, OpenOutput, DiskFull, GiveUp, FixupRecord,
          BadFixupRecord, SkipFix, OffsetFix, ChainFix, FixDone, Panic
      <4> QED
        BY <4>1
    <3>2. CASE WriteData \/ RecordsDone \/ SortDone \/ Relink \/ WriteRelocs \/ LoseRelocs
      <4>1. pc' \in {"records", "sort", "relink", "relocs", "open", "panic"}
        BY <3>2, Zenon DEF WriteData, RecordsDone, SortDone, Relink, WriteRelocs, LoseRelocs
      <4> QED
        BY <4>1
    <3>3. CASE OtherRecord \/ LedataRecord \/ SortBucket
      BY <3>3 DEF OtherRecord, LedataRecord, AtRecord, SortBucket
    <3> QED
      BY <1>5, <3>1, <3>2, <3>3 DEF Patch
  <2> QED
    BY <2>1 DEF SegmentsApart
<1> QED
  BY <1>2, <1>3, <1>4, <1>5 DEF Next

LEMMA LinkStep ==
  ASSUME LinkInv, [Next]_vars
  PROVE  LinkInv'
<1>1. CASE Next
  BY <1>1, PlaceStep, SymbolsStep, UsersStep, RecordsStep, OutStep, SegmentsStep, LinesStep,
    ApartStep DEF LinkInv
<1>2. CASE UNCHANGED vars
  <2>1. UNCHANGED <<input, pc, line, file, rec, modules, symbols, symtab, userinfo, segments,
                    ledata, data, fixes, user, patches, out, errors, map>>
    BY <1>2 DEF vars, scriptVars, recordVars, chainVars
  <2>2. PlaceInv' /\ SymbolsInv' /\ UsersInv' /\ RecordsInv' /\ OutInv'
    BY <2>1 DEF LinkInv, PlaceInv, SymbolsInv, UsersInv, RecordsInv, OutInv, Files
  <2>3. SegmentsInv' /\ SegmentsApart'
    BY <2>1 DEF LinkInv, SegmentsInv, SegmentsApart, Patching, Files
  <2>4. LinesInv'
    BY <2>1 DEF LinkInv, LinesInv, Users, seg
  <2> QED
    BY <2>2, <2>3, <2>4 DEF LinkInv
<1> QED
  BY <1>1, <1>2

\* The linker's state is as this module describes it, however long it runs and
\* whatever the script and the objects say.
THEOREM LinkInvHolds == Spec => []LinkInv
<1>1. Init => LinkInv
  BY LinkStarts
<1>2. LinkInv /\ [Next]_vars => LinkInv'
  BY LinkStep
<1> QED
  BY <1>1, <1>2, PTL DEF Spec

\* Every name in the symbol table leads to the symbol of that name, what is
\* written are bytes, and no target has two buckets.  (AddSymbols, put16,
\* getOrMake.)
THEOREM LinkTypeCorrect == Spec => []LinkTypeOK
<1>1. LinkInv => LinkTypeOK
  <2> SUFFICES ASSUME LinkInv PROVE LinkTypeOK
    OBVIOUS
  <2>1. /\ pc \in {"script", "symbols", "open", "records", "fixups", "sort", "relink",
                   "relocs"} \cup Ended
        /\ file \in 0..(Len(input.objects) + 1) /\ errors \subseteq Files
    BY DEF LinkInv, PlaceInv, Working, Objects
  <2>2. DOMAIN symbols = 1..Len(symbols) /\ Len(modules) \in Nat
    BY LenProperties DEF LinkInv, SymbolsInv
  <2>3. \A n \in DOMAIN symtab : symtab[n] \in DOMAIN symbols /\ symbols[symtab[n]].name = n
    BY <2>2 DEF LinkInv, SymbolsInv, SymbolsKnown
  <2>4. ASSUME NEW s \in DOMAIN symbols PROVE symbols[s].module \in 0..Len(modules)
    <3>1. symbols[s] \in SymbolSet /\ symbols[s].module <= Len(modules)
      BY <2>2, ElementOfSeq DEF LinkInv, SymbolsInv
    <3> QED
      BY <2>2, <3>1 DEF SymbolSet
  <2>5. ASSUME NEW i \in Files, NEW k \in DOMAIN out[i] PROVE out[i][k] \in 0..255
    <3>1. out[i] \in Seq(Byte)
      BY DEF LinkInv, OutInv
    <3>2. out[i][k] \in Byte
      BY <3>1, LenProperties, ElementOfSeq
    <3> QED
      BY <3>2 DEF Byte
  <2>6. ASSUME NEW i \in DOMAIN segments PROVE Distinct(segments[i].reloclist)
    <3>1. CASE file = 0
      BY <3>1, EmptySeq DEF LinkInv, SegmentsInv
    <3>2. CASE file # 0
      BY <3>2 DEF LinkInv, SegmentsInv, Buckets
    <3> QED
      BY <3>1, <3>2
  <2> QED
    BY <2>1, <2>3, <2>4, <2>5, <2>6 DEF LinkTypeOK, Distinct
<1> QED
  BY <1>1, LinkInvHolds, PTL

\* The segments come to lie on sectors of the executable, behind one another,
\* with room for their relocations.  (The end of cmdLink; align.)
THEOREM LaidApart == Spec => []SegmentsApart
<1>1. LinkInv => SegmentsApart
  BY DEF LinkInv
<1> QED
  BY <1>1, LinkInvHolds, PTL

-----------------------------------------------------------------------------
(***************************************************************************)
(* What a RELOC line looked up stays what its name means, when the script  *)
(* declares names before it looks them up.                                 *)
(***************************************************************************)
IsSymbol(t) == t[1] = "symbol" /\ t[2] # 0
Current(t, syms, tab) ==
  IsSymbol(t) => /\ t[2] \in 1..Len(syms) /\ syms[t[2]].name \in DOMAIN tab
                 /\ tab[syms[t[2]].name] = t[2]
LookedUp(t, syms, l) ==
  IsSymbol(t) => \E j \in 1..(l - 1) : syms[t[2]].name \in LooksUp(input.script[j])

Aims(users) == UNION {{users[n][k].target : k \in 1..Len(users[n])} : n \in SegmentNumbers}

CurrentInv ==
  \A t \in Aims(userinfo) : /\ Current(t, symbols, symtab)
                            /\ pc = "script" => LookedUp(t, symbols, line)

LEMMA AimsAre ==
  ASSUME NEW users
  PROVE  /\ \A n \in SegmentNumbers : \A k \in 1..Len(users[n]) : users[n][k].target \in Aims(users)
         /\ \A t \in Aims(users) : \E n \in SegmentNumbers : \E k \in 1..Len(users[n]) :
              t = users[n][k].target
<1> DEFINE T(n) == {users[n][k].target : k \in 1..Len(users[n])}
           U == {T(n) : n \in SegmentNumbers}
<1>1. Aims(users) = UNION U
  BY DEF Aims
<1>2. \A n \in SegmentNumbers : T(n) \in U
  OBVIOUS
<1>3. \A s \in U : \E n \in SegmentNumbers : s = T(n)
  OBVIOUS
<1>4. ASSUME NEW n \in SegmentNumbers, NEW k \in 1..Len(users[n])
      PROVE  users[n][k].target \in Aims(users)
  <2>1. users[n][k].target \in T(n)
    OBVIOUS
  <2> HIDE DEF U, T
  <2> QED
    BY <1>1, <1>2, <2>1
<1>5. ASSUME NEW t \in Aims(users)
      PROVE  \E n \in SegmentNumbers : \E k \in 1..Len(users[n]) : t = users[n][k].target
  <2> HIDE DEF U
  <2>1. PICK s \in U : t \in s
    BY <1>1, <1>5
  <2>2. PICK n \in SegmentNumbers : s = T(n)
    BY <1>3
  <2> QED
    BY <2>1, <2>2
<1> QED
  BY <1>4, <1>5

LEMMA CurrentKept ==
  ASSUME symbols \in Seq(SymbolSet), SymbolsKnown(symtab, symbols), NEW new \in Seq(SymbolSet),
         NEW t, Current(t, symbols, symtab),
         IsSymbol(t) => \A i \in 1..Len(new) : new[i].name # symbols[t[2]].name
  PROVE  /\ Current(t, symbols \o new, Bound(new))
         /\ IsSymbol(t) => (symbols \o new)[t[2]].name = symbols[t[2]].name
<1> DEFINE all == symbols \o new
           tab == Bound(new)
<1>1. /\ Len(all) = Len(symbols) + Len(new)
      /\ \A i \in 1..Len(symbols) : all[i] = symbols[i]
      /\ DOMAIN symtab \subseteq DOMAIN tab
      /\ \A n \in DOMAIN symtab : (\A i \in 1..Len(new) : new[i].name # n) => tab[n] = symtab[n]
  BY AddedSymbols
<1>2. Len(symbols) \in Nat /\ Len(new) \in Nat
  BY LenProperties
<1> HIDE DEF all, tab
<1> SUFFICES ASSUME IsSymbol(t)
             PROVE  /\ t[2] \in 1..Len(all) /\ all[t[2]].name \in DOMAIN tab
                    /\ tab[all[t[2]].name] = t[2]
                    /\ all[t[2]].name = symbols[t[2]].name
  BY DEF Current, all, tab
<1>3. /\ t[2] \in 1..Len(symbols) /\ symbols[t[2]].name \in DOMAIN symtab
      /\ symtab[symbols[t[2]].name] = t[2]
  BY DEF Current
<1>4. t[2] \in 1..Len(all) /\ all[t[2]] = symbols[t[2]]
  BY <1>1, <1>2, <1>3
<1> QED
  BY <1>1, <1>3, <1>4

\* A line that declares names keeps those that were looked up before.
LEMMA DeclaringKeeps ==
  ASSUME LinkInv, CurrentInv, DeclaredFirst(input), pc = "script",
         line \in 1..Len(input.script), NEW new \in Seq(SymbolSet),
         \A i \in 1..Len(new) : new[i].name \in Declares(Line), AddSymbols(new),
         NEW t \in Aims(userinfo)
  PROVE  Current(t, symbols', symtab') /\ LookedUp(t, symbols', line + 1)
<1>1. Current(t, symbols, symtab) /\ LookedUp(t, symbols, line)
  BY DEF CurrentInv
<1>2. symbols' = symbols \o new /\ symtab' = Bound(new)
  BY DEF AddSymbols
<1>3. /\ line \in Nat /\ DOMAIN input.script = 1..Len(input.script)
  <2>1. input \in Inputs
    BY DEF LinkInv, PlaceInv
  <2>2. input.script \in Seq(Range(input.script))
    BY <2>1, InputsAssumption DEF IsList
  <2> QED
    BY <2>2, LenProperties
<1>4. IsSymbol(t) => \A i \in 1..Len(new) : new[i].name # symbols[t[2]].name
  <2> SUFFICES ASSUME IsSymbol(t), NEW i \in 1..Len(new), new[i].name = symbols[t[2]].name
               PROVE  FALSE
    OBVIOUS
  <2>1. PICK j \in 1..(line - 1) : symbols[t[2]].name \in LooksUp(input.script[j])
    BY <1>1 DEF LookedUp
  <2>2. Declares(input.script[line]) \cap LooksUp(input.script[j]) = {}
    BY <1>3 DEF DeclaredFirst
  <2> QED
    BY <2>1, <2>2 DEF Line
<1>5. /\ Current(t, symbols \o new, Bound(new))
      /\ IsSymbol(t) => (symbols \o new)[t[2]].name = symbols[t[2]].name
  BY <1>1, <1>4, CurrentKept DEF LinkInv, SymbolsInv
<1>6. LookedUp(t, symbols', line + 1)
  <2> SUFFICES ASSUME IsSymbol(t)
               PROVE  \E j \in 1..((line + 1) - 1) : symbols'[t[2]].name \in LooksUp(input.script[j])
    BY DEF LookedUp
  <2>1. PICK j \in 1..(line - 1) : symbols[t[2]].name \in LooksUp(input.script[j])
    BY <1>1 DEF LookedUp
  <2>2. j \in 1..((line + 1) - 1)
    BY <1>3
  <2> QED
    BY <1>2, <1>5, <2>1, <2>2
<1> QED
  BY <1>2, <1>5, <1>6

\* A line that declares none does, too.
LEMMA LineKeeps ==
  ASSUME LinkInv, CurrentInv, pc = "script", UNCHANGED <<symbols, symtab>>, NEW t \in Aims(userinfo)
  PROVE  Current(t, symbols', symtab') /\ LookedUp(t, symbols', line + 1)
<1>1. Current(t, symbols, symtab) /\ LookedUp(t, symbols, line) /\ line \in Nat
  BY DEF CurrentInv, LinkInv, PlaceInv
<1>2. 1..(line - 1) \subseteq 1..((line + 1) - 1)
  BY <1>1
<1> QED
  BY <1>1, <1>2 DEF LookedUp

LEMMA AimAdded ==
  ASSUME LinkInv, Reading("RELOC"), Line.seg > 0, NEW t, AddReloc(t)
  PROVE  \A u \in Aims(userinfo') : u \in Aims(userinfo) \/ u = t
<1> DEFINE new == [target |-> t, spans |-> parsePatchlist(Line.patchlist)]
           s == Line.seg
<1>1. /\ s \in SegmentNumbers /\ userinfo \in [SegmentNumbers -> Seq(UserSet)]
      /\ userinfo' = [userinfo EXCEPT ![s] = Append(userinfo[s], new)]
  <2>1. input \in Inputs /\ line \in 1..Len(input.script)
    BY InputParts DEF LinkInv, PlaceInv, Reading
  <2>2. s \in SegmentNumbers
    BY <2>1, InputParts DEF Reading, Line
  <2>3. userinfo' = [userinfo EXCEPT ![s] = Append(userinfo[s], new)]
    BY DEF AddReloc
  <2> QED
    BY <2>2, <2>3 DEF LinkInv, UsersInv
<1>2. new.target = t
  OBVIOUS
<1> HIDE DEF new, s
<1>3. ASSUME NEW u \in Aims(userinfo') PROVE u \in Aims(userinfo) \/ u = t
  <2>1. PICK n \in SegmentNumbers : \E k \in 1..Len(userinfo'[n]) : u = userinfo'[n][k].target
    BY AimsAre
  <2>2. PICK k \in 1..Len(userinfo'[n]) : u = userinfo'[n][k].target
    BY <2>1
  <2>3. CASE n # s
    <3>1. userinfo'[n] = userinfo[n]
      BY <1>1, <2>3
    <3> QED
      BY <2>2, <3>1, AimsAre
  <2>4. CASE n = s
    <3> DEFINE l == userinfo[s]
    <3>1. userinfo'[n] = Append(l, new) /\ Len(l) \in Nat
      BY <1>1, <2>4, LenProperties
    <3>2. /\ Len(Append(l, new)) = Len(l) + 1
          /\ \A i \in 1..Len(l) : Append(l, new)[i] = l[i]
          /\ Append(l, new)[Len(l) + 1] = new
      <4>1. l \in Seq(UserSet)
        BY <1>1
      <4> HIDE DEF l
      <4> QED
        BY <4>1, AppendProperties
    <3>3. k \in 1..(Len(l) + 1)
      BY <2>2, <3>1, <3>2
    <3>4. k \in 1..Len(l) \/ k = Len(l) + 1
      BY <3>1, <3>3
    <3>5. CASE k = Len(l) + 1
      BY <1>2, <2>2, <3>1, <3>2, <3>5
    <3>6. CASE k \in 1..Len(l)
      <4>1. u = userinfo[s][k].target
        BY <2>2, <3>1, <3>2, <3>6
      <4> QED
        BY <1>1, <3>6, <4>1, AimsAre
    <3> QED
      BY <3>4, <3>5, <3>6
  <2> QED
    BY <2>3, <2>4
<1> QED
  BY <1>3

LEMMA LoadingKeeps ==
  ASSUME LinkInv, CurrentInv, NEW new \in Seq(SymbolSet), AddSymbols(new),
         \A i \in 1..Len(new) : new[i].name \notin DOMAIN symtab, NEW t \in Aims(userinfo)
  PROVE  Current(t, symbols', symtab')
<1>1. Current(t, symbols, symtab)
  BY DEF CurrentInv
<1>2. IsSymbol(t) => \A i \in 1..Len(new) : new[i].name # symbols[t[2]].name
  BY <1>1 DEF Current
<1>3. Current(t, symbols \o new, Bound(new))
  BY <1>1, <1>2, CurrentKept DEF LinkInv, SymbolsInv
<1> QED
  BY <1>3 DEF AddSymbols

LEMMA ResolvingKeeps ==
  ASSUME LinkInv, CurrentInv, pc \in Working, Resolves, resolve, NEW t \in Aims(userinfo)
  PROVE  Current(t, symbols', symtab')
<1>1. CASE Name \in DOMAIN symtab
  BY <1>1 DEF resolve, CurrentInv
<1>2. CASE Name \notin DOMAIN symtab
  <2> DEFINE new == <<Resolved>>
  <2>1. new \in Seq(SymbolSet) /\ Len(new) = 1 /\ new[1].name = Name
    BY <1>2, ResolvedType
  <2>2. AddSymbols(new)
    BY <1>2 DEF resolve
  <2> HIDE DEF new
  <2>3. \A i \in 1..Len(new) : new[i].name \notin DOMAIN symtab
    BY <1>2, <2>1
  <2> QED
    BY <2>1, <2>2, <2>3, LoadingKeeps
<1> QED
  BY <1>1, <1>2

LEMMA RelocSymbolKeeps ==
  ASSUME LinkInv, CurrentInv, DeclaredFirst(input), scriptRelocSymbol
  PROVE  CurrentInv'
<1> DEFINE m == ModuleNamed(Line.mod)
           own == Imported(Line.to, m, Line.number, FALSE)
           full == <<Line.mod>> \o Line.to
           s == lookup(full)
           added == m # 0 /\ Line.ordinal /\ Line.valid
<1>1. /\ input \in Inputs /\ input' = input /\ pc = "script" /\ line \in 1..Len(input.script)
      /\ line \in Nat
      /\ Reading("RELOC") /\ Line.seg > 0 /\ ~ToSegment(Line) /\ Line.cmd = "RELOC"
  <2>1. Reading("RELOC") /\ Line.seg > 0 /\ ~ToSegment(Line) /\ input' = input
    BY DEF scriptRelocSymbol, OutsideScript
  <2> QED
    BY <2>1, InputParts DEF LinkInv, PlaceInv, Reading
<1>2. Line.to \in Seq(STRING) /\ Line.mod \in STRING /\ Line.number \in Nat
  <2>1. LineOK(Line) /\ Line.mod # "SEGMENT"
    BY <1>1, InputParts DEF Line, ToSegment
  <2> QED
    BY <1>1, <2>1 DEF LineOK
<1>3. full # Line.to /\ full \in LooksUp(Line)
  <2>1. <<Line.mod>> \in Seq(STRING) /\ Len(<<Line.mod>>) = 1
    BY <1>2
  <2> DEFINE one == <<Line.mod>>
  <2> HIDE DEF one
  <2>2. Len(one \o Line.to) = Len(one) + Len(Line.to)
    BY <1>2, <2>1, JoinType DEF one
  <2>3. Len(Line.to) \in Nat
    BY <1>2, LenProperties
  <2>4. one \o Line.to # Line.to
    BY <2>1, <2>2, <2>3 DEF one
  <2> QED
    BY <1>1, <2>4 DEF one, LooksUp
<1>4. own \in SymbolSet /\ own.name = Line.to
  <2>1. m = FirstNamed(modules, Line.mod)
    BY DEF ModuleNamed, FirstNamed, SelectInSeq
  <2> HIDE DEF m
  <2>2. m \in 0..Len(modules)
    BY <2>1, ModuleFound DEF LinkInv, SymbolsInv
  <2>3. m \in Nat
    BY <2>2
  <2> QED
    BY <1>2, <2>3 DEF Imported, SymbolSet, SymbolName
<1>5. /\ (added /\ AddSymbols(<<own>>)) \/ (UNCHANGED <<symbols, symtab>>)
      /\ (AddReloc(<<"symbol", s>>) /\ NextLine) \/ (UNCHANGED userinfo /\ Fail)
  BY Zenon DEF scriptRelocSymbol
<1>6. added => Line.to \in Declares(Line)
  BY <1>1 DEF Declares
<1> HIDE DEF own, full, s
<1>7. <<own>> \in Seq(SymbolSet) /\ Len(<<own>>) = 1 /\ <<own>>[1] = own
  BY <1>4
<1> DEFINE new == <<own>>
<1> HIDE DEF new
<1>8. ASSUME NEW t \in Aims(userinfo)
      PROVE  Current(t, symbols', symtab') /\ LookedUp(t, symbols', line + 1)
  <2>1. CASE added /\ AddSymbols(<<own>>)
    <3>1. \A i \in 1..Len(new) : new[i].name \in Declares(Line)
      BY <1>4, <1>6, <1>7, <2>1 DEF new
    <3>2. AddSymbols(new) /\ new \in Seq(SymbolSet)
      BY <1>7, <2>1 DEF new
    <3> HIDE DEF added
    <3> QED
      BY <1>1, <3>1, <3>2, DeclaringKeeps
  <2>2. CASE UNCHANGED <<symbols, symtab>>
    BY <1>1, <2>2, LineKeeps
  <2> QED
    BY <1>5, <2>1, <2>2
<1>9. LET t == <<"symbol", s>>
      IN  Current(t, symbols', symtab') /\ LookedUp(t, symbols', line + 1)
  <2> DEFINE t == <<"symbol", s>>
  <2>1. IsSymbol(t) => /\ s # 0 /\ t[2] = s /\ full \in DOMAIN symtab /\ s = symtab[full]
                       /\ s \in 1..Len(symbols) /\ symbols[s].name = full
    BY DEF IsSymbol, s, lookup, LinkInv, SymbolsInv, SymbolsKnown
  <2> HIDE DEF t
  <2>2. Current(t, symbols, symtab)
    BY <2>1 DEF Current
  <2>3. CASE added /\ AddSymbols(<<own>>)
    <3>1. IsSymbol(t) => \A i \in 1..Len(new) : new[i].name # symbols[t[2]].name
      BY <1>3, <1>4, <1>7, <2>1 DEF new
    <3>2. AddSymbols(new) /\ new \in Seq(SymbolSet)
      BY <1>7, <2>3 DEF new
    <3>3. /\ Current(t, symbols \o new, Bound(new))
          /\ IsSymbol(t) => (symbols \o new)[t[2]].name = symbols[t[2]].name
      BY <2>2, <3>1, <3>2, CurrentKept DEF LinkInv, SymbolsInv
    <3>4. IsSymbol(t) => symbols'[t[2]].name = full
      BY <2>1, <3>2, <3>3 DEF AddSymbols
    <3>5. line \in 1..((line + 1) - 1)
      BY <1>1
    <3>6. LookedUp(t, symbols', line + 1)
      BY <1>3, <3>4, <3>5 DEF LookedUp, Line
    <3> QED
      BY <3>2, <3>3, <3>6 DEF AddSymbols, t
  <2>4. CASE UNCHANGED <<symbols, symtab>>
    <3>1. line \in 1..((line + 1) - 1)
      BY <1>1
    <3>2. LookedUp(t, symbols', line + 1)
      BY <1>3, <2>1, <2>4, <3>1 DEF LookedUp, Line
    <3> QED
      BY <2>2, <2>4, <3>2 DEF t
  <2> QED
    BY <1>5, <2>3, <2>4
<1>10. ASSUME NEW t \in Aims(userinfo') PROVE t \in Aims(userinfo) \/ t = <<"symbol", s>>
  <2>1. CASE AddReloc(<<"symbol", s>>)
    BY <1>1, <2>1, AimAdded
  <2>2. CASE UNCHANGED userinfo
    BY <2>2
  <2> QED
    BY <1>5, <2>1, <2>2
<1>11. pc' = "script" => line' = line + 1
  BY <1>5 DEF NextLine, Fail
<1> QED
  BY <1>1, <1>8, <1>9, <1>10, <1>11 DEF CurrentInv, LookedUp

LEMMA ModuleKeeps ==
  ASSUME LinkInv, CurrentInv, DeclaredFirst(input), scriptModule
  PROVE  CurrentInv'
<1> DEFINE mods == addModule(Line.num, Line.name)
           m == SelectInSeq(mods, LAMBDA x : x.name = Line.name)
           names == [i \in DOMAIN Line.file.names |->
                       LET n == Line.file.names[i]
                       IN  Imported(<<Line.name>> \o n.name, m, n.ordinal, n.equate)]
<1>1. /\ SymbolsInv /\ input \in Inputs /\ input' = input /\ line \in Nat \ {0}
      /\ Reading("MODULE") /\ pc = "script" /\ line \in 1..Len(input.script) /\ Line.cmd = "MODULE"
  <2>1. Reading("MODULE") /\ input' = input
    BY DEF scriptModule, OutsideScript
  <2> QED
    BY <2>1, InputParts DEF LinkInv, PlaceInv, Reading
<1>2. /\ mods \in Seq(ModuleSet) /\ Len(modules) <= Len(mods) /\ m \in 1..Len(mods)
      /\ names \in Seq(SymbolSet) /\ \A i \in 1..Len(names) : names[i].module = m
  BY <1>1, NamesInModule
<1>3. /\ AddSymbols(names) \/ UNCHANGED <<symbols, symtab>>
      /\ NextLine \/ Fail
      /\ UNCHANGED userinfo
  BY Zenon DEF scriptModule, scriptVars
<1>4. ASSUME NEW i \in 1..Len(names) PROVE names[i].name \in Declares(Line)
  <2>1. i \in DOMAIN names
    BY <1>2, LenProperties
  <2>2. names[i].name = <<Line.name>> \o Line.file.names[i].name
    BY <2>1 DEF Imported
  <2> QED
    BY <1>1, <2>1, <2>2 DEF Declares
<1> HIDE DEF names
<1>5. ASSUME NEW t \in Aims(userinfo)
      PROVE  Current(t, symbols', symtab') /\ LookedUp(t, symbols', line + 1)
  <2>1. CASE AddSymbols(names)
    BY <1>1, <1>2, <1>4, <2>1, DeclaringKeeps
  <2>2. CASE UNCHANGED <<symbols, symtab>>
    BY <1>1, <2>2, LineKeeps
  <2> QED
    BY <1>3, <2>1, <2>2
<1>6. pc' = "script" => line' = line + 1
  BY <1>3 DEF NextLine, Fail
<1> QED
  BY <1>1, <1>3, <1>5, <1>6 DEF CurrentInv, LookedUp

LEMMA RelocSegmentKeeps ==
  ASSUME LinkInv, CurrentInv, scriptRelocSegment
  PROVE  CurrentInv'
<1> DEFINE t == <<"segment", Line.to>>
<1>1. /\ Reading("RELOC") /\ Line.seg > 0 /\ pc = "script" /\ input' = input
      /\ UNCHANGED <<symbols, symtab>>
  BY DEF scriptRelocSegment, OutsideScript, Reading
<1>2. (AddReloc(t) /\ NextLine) \/ (UNCHANGED userinfo /\ Fail)
  BY Zenon DEF scriptRelocSegment
<1>3. ~IsSymbol(t)
  BY DEF IsSymbol
<1> HIDE DEF t
<1>4. \A u \in Aims(userinfo') : u \in Aims(userinfo) \/ u = t
  BY <1>1, <1>2, AimAdded
<1>5. \A u \in Aims(userinfo) : Current(u, symbols', symtab') /\ LookedUp(u, symbols', line + 1)
  BY <1>1, LineKeeps
<1>6. pc' = "script" => line' = line + 1
  BY <1>2 DEF NextLine, Fail
<1> QED
  BY <1>1, <1>3, <1>4, <1>5, <1>6 DEF CurrentInv, LookedUp, Current

LEMMA CurrentStep ==
  ASSUME LinkInv, CurrentInv, DeclaredFirst(input), Next
  PROVE  CurrentInv'
<1>1. CASE scriptModule
  BY <1>1, ModuleKeeps
<1>2. CASE scriptRelocSymbol
  BY <1>2, RelocSymbolKeeps
<1>3. CASE scriptRelocSegment
  BY <1>3, RelocSegmentKeeps
<1>4. CASE loadSymbols
  <2>1. pc = "symbols" /\ file <= Len(input.objects) /\ userinfo' = userinfo /\ pc' # "script"
    BY <1>4 DEF loadSymbols
  <2>2. CASE AllRead(Object)
    <3> DEFINE names == NewNames(ReadObjNames(Object))
               new == [i \in DOMAIN names |->
                         Local(names[i].Name, seg.num, names[i].Offset, names[i].Const)]
    <3>1. AddSymbols(new)
      BY <1>4, <2>2 DEF loadSymbols
    <3>2. /\ new \in Seq(SymbolSet)
          /\ \A i \in 1..Len(new) : new[i].name \notin DOMAIN symtab
      BY <2>1, LoadedSymbols
    <3> HIDE DEF new
    <3>3. \A t \in Aims(userinfo) : Current(t, symbols', symtab')
      BY <3>1, <3>2, LoadingKeeps
    <3> QED
      BY <2>1, <3>3 DEF CurrentInv
  <2>3. CASE ~AllRead(Object)
    <3>1. UNCHANGED <<symbols, symtab>>
      BY <1>4, <2>3 DEF loadSymbols
    <3> QED
      BY <2>1, <3>1 DEF CurrentInv
  <2> QED
    BY <2>2, <2>3
<1>5. CASE OffsetFix \/ ChainFix
  <2>1. pc = "fixups" /\ userinfo' = userinfo /\ pc' # "script"
    BY <1>5 DEF OffsetFix, ChainFix, Fixing, FixDone, Panic, InPatch
  <2>2. (Resolves /\ resolve) \/ UNCHANGED <<symbols, symtab>>
    BY <1>5 DEF OffsetFix, ChainFix, WritesOffset, External
  <2>3. \A t \in Aims(userinfo) : Current(t, symbols', symtab')
    BY <2>1, <2>2, ResolvingKeeps DEF Working, CurrentInv
  <2> QED
    BY <2>1, <2>3 DEF CurrentInv
<1>6. CASE BlankLine
  <2>1. /\ pc = "script" /\ UNCHANGED <<input, symbols, symtab, userinfo>> /\ line' = line + 1
    BY <1>6 DEF BlankLine, Reading, NextLine, OutsideScript, scriptVars
  <2>2. \A t \in Aims(userinfo) : Current(t, symbols', symtab') /\ LookedUp(t, symbols', line + 1)
    BY <2>1, LineKeeps
  <2> QED
    BY <2>1, <2>2 DEF CurrentInv, LookedUp
<1>7. CASE UNCHANGED <<symbols, symtab, userinfo>> /\ pc' # "script"
  BY <1>7 DEF CurrentInv
<1>8. CASE UnknownLine \/ BadRelocLine \/ MakeSegments \/ BeginPatching \/ Finish
  <2>1. UNCHANGED <<symbols, symtab, userinfo>>
    BY <1>8, Zenon DEF UnknownLine, BadRelocLine, MakeSegments, BeginPatching, Finish, scriptVars
  <2>2. pc' \in {"failed", "symbols", "open", "done"}
    BY <1>8, Zenon DEF UnknownLine, BadRelocLine, MakeSegments, BeginPatching, Finish, Fail
  <2> QED
    BY <1>7, <2>1, <2>2
<1>9. CASE Patch /\ ~OffsetFix /\ ~ChainFix
  <2>1. UNCHANGED <<symbols, symtab, userinfo>>
    BY <1>9, Zenon DEF Patch, OpenOutput, DiskFull, GiveUp, OtherRecord, LedataRecord,
      FixupRecord, BadFixupRecord, SkipFix, WriteData, RecordsDone, SortBucket, SortDone, Relink,
      WriteRelocs, LoseRelocs, InPatch, InEnd, scriptVars
  <2>2. pc' # "script"
    <3>1. pc # "script"
      BY <1>9 DEF Patch, OpenOutput, DiskFull, OtherRecord, LedataRecord, FixupRecord,
        BadFixupRecord, AtRecord, SkipFix, Fixing, WriteData, RecordsDone, SortBucket, SortDone,
        Relink, WriteRelocs, LoseRelocs
    <3>2. pc' \in {"open", "records", "fixups", "sort", "relink", "relocs", "panic"} \/ pc' = pc
      BY <1>9, Zenon DEF Patch, OpenOutput, DiskFull, GiveUp, OtherRecord, LedataRecord,
        FixupRecord, BadFixupRecord, SkipFix, FixDone, WriteData, RecordsDone, SortBucket,
        SortDone, Relink, WriteRelocs, LoseRelocs
    <3> QED
      BY <3>1, <3>2
  <2> QED
    BY <1>7, <2>1, <2>2
<1> QED
  BY <1>1, <1>2, <1>3, <1>4, <1>5, <1>6, <1>8, <1>9 DEF Next, ReadScript

\* When the script declares each name before it looks it up, what a RELOC line
\* names is still what its name means when the objects are patched.
\* (scriptRelocSymbol, and loadSymbols, which never redeclares a name.)
THEOREM RelocsStayCurrent == Spec /\ DeclaredFirst(input) => []RelocsCurrent
<1>1. LinkInv /\ CurrentInv => RelocsCurrent
  <2> SUFFICES ASSUME LinkInv, CurrentInv, NEW n \in SegmentNumbers, NEW u \in Range(userinfo[n]),
                      u.target[1] = "symbol", u.target[2] # 0
               PROVE  symtab[symbols[u.target[2]].name] = u.target[2]
    BY DEF RelocsCurrent
  <2>1. PICK k \in 1..Len(userinfo[n]) : u = userinfo[n][k]
    BY LenProperties DEF Range, LinkInv, UsersInv
  <2>2. u.target \in Aims(userinfo)
    BY <2>1, AimsAre
  <2> QED
    BY <2>2 DEF CurrentInv, Current, IsSymbol
<1>2. Init => CurrentInv
  <2> SUFFICES ASSUME Init, NEW t \in Aims(userinfo) PROVE FALSE
    BY DEF CurrentInv
  <2>1. PICK n \in SegmentNumbers : \E k \in 1..Len(userinfo[n]) : t = userinfo[n][k].target
    BY AimsAre
  <2>2. userinfo[n] = <<>>
    BY DEF Init
  <2> QED
    BY <2>1, <2>2, EmptySeq
<1>3. LinkInv /\ CurrentInv /\ DeclaredFirst(input) /\ [Next]_vars
        => CurrentInv' /\ DeclaredFirst(input)'
  <2>1. ASSUME LinkInv, CurrentInv, DeclaredFirst(input), Next
        PROVE  CurrentInv' /\ DeclaredFirst(input)'
    BY <2>1, CurrentStep, InputStays
  <2>2. ASSUME CurrentInv, DeclaredFirst(input), UNCHANGED vars
        PROVE  CurrentInv' /\ DeclaredFirst(input)'
    <3>1. UNCHANGED <<input, pc, line, symbols, symtab, userinfo>>
      BY <2>2 DEF vars, scriptVars
    <3> QED
      BY <2>2, <3>1 DEF CurrentInv, LookedUp
  <2> QED
    BY <2>1, <2>2
<1> QED
  BY <1>1, <1>2, <1>3, LinkInvHolds, PTL DEF Spec

-----------------------------------------------------------------------------
(***************************************************************************)
(* The chains of tidy objects.                                             *)
(***************************************************************************)
ChainIn(bytes, ri) ==
  /\ ri.last = IF ri.patches = <<>> THEN End ELSE Last(ri.patches)
  /\ \A k \in DOMAIN ri.patches :
       /\ ri.patches[k] + 2 <= Len(bytes)
       /\ WordAt(bytes, ri.patches[k]) = IF k = 1 THEN End ELSE ri.patches[k - 1]

ClearOf(ri, a) == \A k \in DOMAIN ri.patches : WordsApart(ri.patches[k], a)

ChainsIn(bytes, list) == \A i \in DOMAIN list : ChainIn(bytes, list[i])

\* Between two records the data of the records before are in the file.
BetweenInv ==
  pc = "records" =>
    /\ Len(out[file]) = DataEnd(Object, rec)
    /\ ChainsIn(out[file], seg.reloclist)
    /\ rec > 1 /\ Object[rec - 1].type = "LEDATA" => ledata = ParseLedata(Object[rec - 1])

\* The fixups that a record still has touch no word of a chain.
WithinInv ==
  pc = "fixups" =>
    /\ Object[rec].type = "FIXUP"
    /\ ledata.StartOffset = Len(out[file])
    /\ DataEnd(Object, rec + 1) = Len(out[file]) + Len(data)
    /\ ChainsIn(out[file] \o data, seg.reloclist)
    /\ \A j, k \in 1..Len(fixes) :
         j # k => WordsApart(fixes[j].DataOffset, fixes[k].DataOffset)
    /\ \A i \in DOMAIN seg.reloclist : \A j \in 1..Len(fixes) :
         ClearOf(seg.reloclist[i], Len(out[file]) + fixes[j].DataOffset)

GrowInv == BetweenInv /\ WithinInv

LEMMA DataEndSteps ==
  ASSUME NEW obj, NEW k \in Nat \ {0}
  PROVE  /\ DataEnd(obj, 1) = 0
         /\ DataEnd(obj, k + 1) = IF obj[k].type = "FIXUP"
                                  THEN obj[k - 1].start + Len(obj[k - 1].data)
                                  ELSE DataEnd(obj, k)
<1> DEFINE before(m) == {j \in 1..(m - 1) : obj[j].type = "FIXUP"}
           end(F) == IF F = {} THEN 0
                     ELSE LET j == Max(F) IN obj[j - 1].start + Len(obj[j - 1].data)
<1>1. \A m : DataEnd(obj, m) = end(before(m))
  BY DEF DataEnd
<1>2. before(1) = {}
  OBVIOUS
<1>3. CASE obj[k].type = "FIXUP"
  <2>1. /\ before(k + 1) \in SUBSET Nat /\ k \in before(k + 1)
        /\ \A j \in before(k + 1) : j <= k
    BY <1>3
  <2>2. IsFiniteSet(before(k + 1))
    <3>1. IsFiniteSet(1..((k + 1) - 1))
      BY FS_Interval
    <3> QED
      BY <3>1, FS_Subset
  <2> DEFINE F == before(k + 1)
  <2> HIDE DEF F
  <2>3. Max(F) \in F /\ \A j \in F : j <= Max(F)
    BY <2>1, <2>2, MaxIs DEF F
  <2>4. Max(F) = k /\ F # {}
    <3>1. Max(F) \in Nat /\ Max(F) <= k /\ k <= Max(F)
      BY <2>1, <2>3 DEF F
    <3> QED
      BY <2>1, <3>1 DEF F
  <2>5. end(F) = obj[k - 1].start + Len(obj[k - 1].data)
    BY <2>4
  <2> HIDE DEF end
  <2>6. DataEnd(obj, k + 1) = obj[k - 1].start + Len(obj[k - 1].data)
    BY <1>1, <2>5 DEF F
  <2> QED
    BY <1>1, <1>2, <1>3, <2>6 DEF end
<1>4. CASE obj[k].type # "FIXUP"
  <2>1. before(k + 1) = before(k)
    <3>1. 1..((k + 1) - 1) = 1..(k - 1) \cup {k} /\ k \notin 1..(k - 1)
      OBVIOUS
    <3> QED
      BY <1>4, <3>1
  <2> HIDE DEF end
  <2>2. DataEnd(obj, k + 1) = DataEnd(obj, k)
    BY <1>1, <2>1
  <2> QED
    BY <1>1, <1>2, <1>4, <2>2 DEF end
<1> QED
  BY <1>3, <1>4

LEMMA JoinIs ==
  ASSUME NEW S, NEW a \in Seq(S), NEW b \in Seq(S)
  PROVE  \A i \in 1..(Len(a) + Len(b)) :
           (a \o b)[i] = IF i <= Len(a) THEN a[i] ELSE b[i - Len(a)]
BY ConcatProperties

\* A word that is put into the data, seen from the beginning of the file.
LEMMA PutBehind ==
  ASSUME NEW o \in Seq(Byte), NEW d \in Seq(Byte), NEW at \in Nat, at + 2 <= Len(d),
         NEW v, Put16OK(v)
  PROVE  /\ Len(o \o Put16(d, at, v)) = Len(o \o d) /\ Len(o \o d) = Len(o) + Len(d)
         /\ WordAt(o \o Put16(d, at, v), Len(o) + at) = v
         /\ \A a \in Nat : a + 2 <= Len(o \o d) /\ WordsApart(a, Len(o) + at)
                             => WordAt(o \o Put16(d, at, v), a) = WordAt(o \o d, a)
<1> DEFINE e == Put16(d, at, v)
           new == o \o e
           old == o \o d
           l == Len(o)
           m == Len(d)
<1>1. /\ e \in Seq(Byte) /\ Len(e) = m
      /\ e[at + 1] = v % 256 /\ e[at + 2] = v \div 256
      /\ \A i \in 1..m : i # at + 1 /\ i # at + 2 => e[i] = d[i]
  BY Put16Is
<1> HIDE DEF e
<1>2. l \in Nat /\ m \in Nat
  BY LenProperties
<1>3. /\ new \in Seq(Byte) /\ Len(new) = l + m
      /\ \A i \in 1..(l + m) : new[i] = IF i <= l THEN o[i] ELSE e[i - l]
  <2>1. new = o \o e
    OBVIOUS
  <2>2. e \in Seq(Byte)
    BY <1>1
  <2>3. o \o e \in Seq(Byte) /\ Len(o \o e) = Len(o) + Len(e)
    BY <2>2, JoinType, Zenon
  <2>4. \A i \in 1..(Len(o) + Len(e)) : (o \o e)[i] = IF i <= Len(o) THEN o[i] ELSE e[i - Len(o)]
    BY <2>2, JoinIs, Zenon
  <2> QED
    BY <1>1, <2>1, <2>3, <2>4
<1>4. /\ Len(old) = l + m
      /\ \A i \in 1..(l + m) : old[i] = IF i <= l THEN o[i] ELSE d[i - l]
  <2>1. o \o d \in Seq(Byte) /\ Len(o \o d) = Len(o) + Len(d)
    BY JoinType, Zenon
  <2>2. \A i \in 1..(Len(o) + Len(d)) : (o \o d)[i] = IF i <= Len(o) THEN o[i] ELSE d[i - Len(o)]
    BY JoinIs, Zenon
  <2> QED
    BY <2>1, <2>2
<1> HIDE DEF old, new
<1>5. WordAt(new, l + at) = v
  <2>1. /\ (l + at) + 1 \in 1..(l + m) /\ ~((l + at) + 1 <= l) /\ ((l + at) + 1) - l = at + 1
        /\ (l + at) + 2 \in 1..(l + m) /\ ~((l + at) + 2 <= l) /\ ((l + at) + 2) - l = at + 2
    BY <1>2
  <2>2. new[(l + at) + 1] = v % 256 /\ new[(l + at) + 2] = v \div 256
    BY <1>1, <1>3, <2>1
  <2>3. (v % 256) + 256 * (v \div 256) = v
    BY DEF Put16OK
  <2> QED
    BY <2>2, <2>3 DEF WordAt
<1>6. ASSUME NEW a \in Nat, a + 2 <= l + m, WordsApart(a, l + at)
      PROVE  WordAt(new, a) = WordAt(old, a)
  <2>1. ASSUME NEW i \in {a + 1, a + 2} PROVE new[i] = old[i]
    <3>1. i \in 1..(l + m) /\ i # l + at + 1 /\ i # l + at + 2
      BY <1>2, <1>6 DEF WordsApart
    <3>2. CASE i <= l
      BY <1>3, <1>4, <3>1, <3>2
    <3>3. CASE i > l
      <4>1. i - l \in 1..m /\ i - l # at + 1 /\ i - l # at + 2 /\ ~(i <= l)
        BY <1>2, <3>1, <3>3
      <4>2. new[i] = e[i - l] /\ old[i] = d[i - l]
        BY <1>3, <1>4, <3>1, <4>1
      <4>3. e[i - l] = d[i - l]
        BY <1>1, <4>1
      <4> QED
        BY <4>2, <4>3
    <3>4. i <= l \/ i > l
      BY <1>2, <3>1
    <3> QED
      BY <3>2, <3>3, <3>4
  <2> QED
    BY <2>1 DEF WordAt
<1> QED
  BY <1>3, <1>4, <1>5, <1>6 DEF old, new, e

\* Bytes behind a file leave its words.
LEMMA WordsStay ==
  ASSUME NEW o \in Seq(Byte), NEW d \in Seq(Byte)
  PROVE  /\ Len(o \o d) = Len(o) + Len(d)
         /\ \A a \in Nat : a + 2 <= Len(o) => WordAt(o \o d, a) = WordAt(o, a)
<1>1. /\ Len(o \o d) = Len(o) + Len(d)
      /\ \A i \in 1..(Len(o) + Len(d)) : (o \o d)[i] =
           IF i <= Len(o) THEN o[i] ELSE d[i - Len(o)]
  BY ConcatProperties
<1>2. Len(o) \in Nat /\ Len(d) \in Nat
  BY LenProperties
<1>3. ASSUME NEW a \in Nat, a + 2 <= Len(o) PROVE WordAt(o \o d, a) = WordAt(o, a)
  <2>1. /\ a + 1 \in 1..(Len(o) + Len(d)) /\ a + 1 <= Len(o)
        /\ a + 2 \in 1..(Len(o) + Len(d))
    BY <1>2, <1>3
  <2> QED
    BY <1>1, <1>3, <2>1 DEF WordAt
<1> QED
  BY <1>1, <1>3

LEMMA ChainStays ==
  ASSUME NEW ri \in BucketSet, NEW old, NEW new, ChainIn(old, ri), Len(old) \in Nat,
         Len(new) \in Nat, Len(old) <= Len(new),
         \A k \in DOMAIN ri.patches : WordAt(new, ri.patches[k]) = WordAt(old, ri.patches[k])
  PROVE  ChainIn(new, ri)
<1>1. \A k \in DOMAIN ri.patches : ri.patches[k] \in Nat
  BY LenProperties, ElementOfSeq DEF BucketSet
<1> QED
  BY <1>1 DEF ChainIn

\* A chain with one more word before its head.
LEMMA ChainExtends ==
  ASSUME NEW ri \in BucketSet, NEW old, NEW new, ChainIn(old, ri), Len(old) \in Nat,
         Len(new) = Len(old), NEW a \in Nat, a + 2 <= Len(new), WordAt(new, a) = ri.last,
         \A k \in DOMAIN ri.patches : WordAt(new, ri.patches[k]) = WordAt(old, ri.patches[k])
  PROVE  /\ ChainIn(new, Chained(ri, a))
         /\ \A w : ClearOf(ri, w) /\ WordsApart(a, w) => ClearOf(Chained(ri, a), w)
<1> DEFINE p == ri.patches
           q == Append(p, a)
           n == Len(p)
<1>1. p \in Seq(Nat) /\ n \in Nat /\ DOMAIN p = 1..n
  BY LenProperties DEF BucketSet
<1>2. /\ q \in Seq(Nat) /\ Len(q) = n + 1 /\ DOMAIN q = 1..(n + 1) /\ q[n + 1] = a
      /\ \A k \in 1..n : q[k] = p[k]
  BY <1>1, AppendProperties
<1>3. Chained(ri, a) = [ri EXCEPT !.patches = q, !.last = a]
  BY DEF Chained
<1> HIDE DEF q
<1>4. Chained(ri, a).patches = q /\ Chained(ri, a).last = a
  BY <1>3 DEF BucketSet
<1>5. Last(q) = a /\ q # <<>>
  BY <1>1, <1>2, EmptySeq DEF Last
<1>6. ASSUME NEW k \in 1..(n + 1)
      PROVE  q[k] + 2 <= Len(new) /\ WordAt(new, q[k]) = IF k = 1 THEN End ELSE q[k - 1]
  <2>1. CASE k \in 1..n
    <3>1. q[k] = p[k] /\ (k # 1 => q[k - 1] = p[k - 1])
      <4>1. k # 1 => k - 1 \in 1..n
        BY <1>1, <2>1
      <4> QED
        BY <1>2, <2>1, <4>1
    <3> QED
      BY <1>1, <2>1, <3>1 DEF ChainIn
  <2>2. CASE k = n + 1
    <3>1. q[k] = a /\ WordAt(new, q[k]) = ri.last
      BY <1>2, <2>2
    <3>2. CASE n = 0
      <4>1. p = <<>> /\ k = 1
        BY <1>1, <2>2, <3>2, EmptySeq
      <4> QED
        BY <3>1, <4>1 DEF ChainIn
    <3>3. CASE n # 0
      <4>1. k # 1 /\ k - 1 \in 1..n /\ k - 1 = n /\ p # <<>>
        BY <1>1, <2>2, <3>3, EmptySeq
      <4>2. q[k - 1] = Last(p)
        BY <1>2, <4>1 DEF Last
      <4> QED
        BY <3>1, <4>1, <4>2 DEF ChainIn
    <3> QED
      BY <3>2, <3>3
  <2> QED
    BY <1>1, <2>1, <2>2
<1>7. ChainIn(new, Chained(ri, a))
  BY <1>2, <1>4, <1>5, <1>6 DEF ChainIn
<1>8. ASSUME NEW w, ClearOf(ri, w), WordsApart(a, w), NEW k \in 1..(n + 1)
      PROVE  WordsApart(q[k], w)
  <2>1. k \in 1..n \/ k = n + 1
    BY <1>1
  <2> QED
    BY <1>1, <1>2, <1>8, <2>1 DEF ClearOf
<1> QED
  BY <1>2, <1>4, <1>7, <1>8 DEF ClearOf

LEMMA RecordAt ==
  ASSUME LinkInv, pc \in Working
  PROVE  /\ file \in Files /\ file # 0 /\ input \in Inputs /\ rec \in Nat \ {0}
         /\ out[file] \in Seq(Byte) /\ Len(out[file]) \in Nat
         /\ data \in Seq(Byte) /\ Len(data) \in Nat /\ fixes \in Seq(FixSet)
         /\ seg.reloclist \in Seq(BucketSet) /\ Object = input.objects[file]
         /\ \A i \in DOMAIN seg.reloclist : seg.reloclist[i] \in BucketSet
         /\ file \in DOMAIN input.objects
<1>1. file \in Files /\ file # 0 /\ input \in Inputs /\ rec \in Nat \ {0}
  BY InputParts DEF LinkInv, PlaceInv
<1>2. out[file] \in Seq(Byte) /\ data \in Seq(Byte) /\ fixes \in Seq(FixSet)
  BY <1>1 DEF LinkInv, OutInv, RecordsInv
<1>3. seg.reloclist \in Seq(BucketSet)
  BY <1>1 DEF LinkInv, SegmentsInv, seg, Buckets
<1>4. \A i \in DOMAIN seg.reloclist : seg.reloclist[i] \in BucketSet
  BY <1>3, LenProperties, ElementOfSeq
<1> QED
  BY <1>1, <1>2, <1>3, <1>4, LenProperties DEF Object, Files

LEMMA OpenGrows ==
  ASSUME LinkInv, OpenOutput
  PROVE  GrowInv'
<1>1. /\ file \in Files /\ file # 0 /\ input \in Inputs /\ SegmentNumbers \subseteq Nat
  BY InputParts DEF OpenOutput, LinkInv, PlaceInv, Files
<1>2. /\ pc' = "records" /\ rec' = 1 /\ input' = input /\ file' = file
      /\ out' = [out EXCEPT ![file] = <<>>]
      /\ segments' = [segments EXCEPT ![file].reloclist = Preloaded(Users)]
  BY DEF OpenOutput, InPatch, Users
<1>3. Fresh(Preloaded(Users)) /\ Preloaded(Users) \in Buckets
  <2>1. seg.reloclist = <<>> /\ seg.num \in SegmentNumbers
    BY <1>1 DEF LinkInv, SegmentsInv, SegmentSet, seg, OpenOutput
  <2>2. seg.reloclist \in Buckets /\ Fresh(seg.reloclist)
    BY <1>1, <2>1, EmptySeq DEF LinkInv, SegmentsInv, seg, Fresh
  <2>3. Users \in Seq(UserSet)
    BY <2>1 DEF Users, LinkInv, UsersInv
  <2> QED
    BY <2>2, <2>3, PreloadedBuckets
<1>4. seg'.reloclist = Preloaded(Users) /\ (out[file])' = <<>>
  BY <1>1, <1>2 DEF LinkInv, SegmentsInv, SegmentSet, OutInv, seg
<1>5. ChainsIn(<<>>, Preloaded(Users))
  BY <1>3 DEF Fresh, ChainsIn, ChainIn
<1>6. DataEnd(Object', 1) = 0 /\ Len(<<>>) = 0
  BY DataEndSteps, EmptySeq
<1> QED
  BY <1>2, <1>4, <1>5, <1>6 DEF GrowInv, BetweenInv, WithinInv

LEMMA RecordGrows ==
  ASSUME LinkInv, GrowInv, OtherRecord \/ LedataRecord
  PROVE  GrowInv'
<1>1. /\ pc = "records" /\ pc' = "records" /\ rec' = rec + 1 /\ rec <= Len(Object)
      /\ Record.type # "FIXUP" /\ UNCHANGED <<input, file, segments, out>>
      /\ Record.type = "LEDATA" => ledata' = ParseLedata(Record)
  BY DEF OtherRecord, LedataRecord, AtRecord, InPatch
<1>2. rec \in Nat \ {0}
  BY <1>1, RecordAt DEF Working
<1>3. Len(out[file]) = DataEnd(Object, rec) /\ ChainsIn(out[file], seg.reloclist)
  BY <1>1 DEF GrowInv, BetweenInv
<1>4. DataEnd(Object, rec + 1) = DataEnd(Object, rec)
  BY <1>1, <1>2, DataEndSteps DEF Record
<1>5. Object' = Object /\ seg' = seg /\ (out[file])' = out[file]
  BY <1>1 DEF Object, seg
<1>6. (rec + 1) - 1 = rec
  BY <1>2
<1> QED
  BY <1>1, <1>3, <1>4, <1>5, <1>6 DEF GrowInv, BetweenInv, WithinInv, Record

LEMMA FixupGrows ==
  ASSUME LinkInv, Tidy(input), GrowInv, FixupRecord
  PROVE  GrowInv'
<1> DEFINE o == out[file]
           d == Object[rec - 1].data
           fs == ParseFixup(Record)
           list == seg.reloclist
<1>1. /\ pc = "records" /\ pc' = "fixups" /\ rec' = rec /\ rec <= Len(Object)
      /\ Record.type = "FIXUP" /\ UNCHANGED <<input, file, segments, out, ledata>>
      /\ fixes' = fs /\ data' = ledata.Data
  BY DEF FixupRecord, AtRecord, InPatch
<1>2. /\ file \in Files /\ input \in Inputs /\ rec \in Nat \ {0} /\ o \in Seq(Byte)
      /\ Len(o) \in Nat /\ \A i \in DOMAIN list : list[i] \in BucketSet
      /\ Object = input.objects[file] /\ file \in DOMAIN input.objects
  BY <1>1, RecordAt DEF Working
<1>3. Len(o) = DataEnd(Object, rec) /\ ChainsIn(o, list)
  BY <1>1 DEF GrowInv, BetweenInv
<1>4. rec \in DOMAIN Object /\ DOMAIN Object = 1..Len(Object) /\ Len(Object) \in Nat
  BY <1>1, <1>2, InputParts DEF Object
<1>5. RecordOK(Record)
  BY <1>2, <1>4, InputParts DEF Object, Record
<1>6. fs \in Seq(FixSet) /\ DOMAIN fs = 1..Len(fs) /\ \A j \in 1..Len(fs) : fs[j].DataOffset \in Nat
  <2>1. fs \in Seq(FixSet)
    BY <1>1, <1>5, FixupsType
  <2> HIDE DEF fs
  <2>2. \A j \in 1..Len(fs) : fs[j] \in FixSet
    BY <2>1, ElementOfSeq
  <2> QED
    BY <2>1, <2>2, LenProperties DEF FixSet
<1>7. /\ rec > 1 /\ Object[rec - 1].type = "LEDATA" /\ Object[rec - 1].start = DataEnd(Object, rec)
      /\ \A a, b \in DOMAIN fs : a # b => WordsApart(fs[a].DataOffset, fs[b].DataOffset)
  BY <1>1, <1>2, <1>4 DEF Tidy, Record
<1>8. ledata = ParseLedata(Object[rec - 1])
  BY <1>1, <1>7 DEF GrowInv, BetweenInv
<1>9. ledata.StartOffset = Len(o) /\ ledata.Data = d
  BY <1>3, <1>7, <1>8 DEF ParseLedata
<1>10. d \in Seq(Byte)
  BY <1>9 DEF LinkInv, RecordsInv
<1>11. DataEnd(Object, rec + 1) = Len(o) + Len(d)
  <2>1. rec \in Nat \ {0} /\ Object[rec].type = "FIXUP"
    BY <1>1, <1>2, <1>4 DEF Record
  <2>2. DataEnd(Object, rec + 1) = Object[rec - 1].start + Len(Object[rec - 1].data)
    BY <2>1, DataEndSteps
  <2>3. Object[rec - 1].start = Len(o)
    BY <1>3, <1>7
  <2> QED
    BY <2>2, <2>3
<1> HIDE DEF fs, o, d
<1>12. ChainsIn(o \o d, list)
  <2> SUFFICES ASSUME NEW i \in DOMAIN list PROVE ChainIn(o \o d, list[i])
    BY DEF ChainsIn
  <2>1. ChainIn(o, list[i]) /\ list[i] \in BucketSet
    BY <1>2, <1>3 DEF ChainsIn
  <2>2. /\ Len(o \o d) = Len(o) + Len(d)
        /\ \A a \in Nat : a + 2 <= Len(o) => WordAt(o \o d, a) = WordAt(o, a)
    BY <1>2, <1>10, WordsStay
  <2>3. Len(o \o d) \in Nat /\ Len(o) <= Len(o \o d)
    <3>1. Len(d) \in Nat
      BY <1>10, LenProperties
    <3> QED
      BY <1>2, <2>2, <3>1
  <2>4. \A k \in DOMAIN list[i].patches : list[i].patches[k] \in Nat
    BY <2>1, LenProperties, ElementOfSeq DEF BucketSet
  <2>5. \A k \in DOMAIN list[i].patches :
          WordAt(o \o d, list[i].patches[k]) = WordAt(o, list[i].patches[k])
    BY <2>1, <2>2, <2>4 DEF ChainIn
  <2> QED
    BY <1>2, <2>1, <2>3, <2>5, ChainStays
<1>13. ASSUME NEW i \in DOMAIN list, NEW j \in 1..Len(fs)
       PROVE  ClearOf(list[i], Len(o) + fs[j].DataOffset)
  <2>1. ChainIn(o, list[i]) /\ list[i] \in BucketSet /\ fs[j].DataOffset \in Nat
    BY <1>2, <1>3, <1>6 DEF ChainsIn
  <2>2. \A k \in DOMAIN list[i].patches : list[i].patches[k] \in Nat
    BY <2>1, LenProperties, ElementOfSeq DEF BucketSet
  <2> QED
    BY <1>2, <2>1, <2>2 DEF ChainIn, ClearOf, WordsApart
<1>14. Object' = Object /\ seg' = seg /\ (out[file])' = o /\ data' = d /\ ledata' = ledata
  BY <1>1, <1>9 DEF Object, seg, o
<1>15. BetweenInv'
  BY <1>1 DEF BetweenInv
<1>16. WithinInv'
  BY <1>1, <1>6, <1>7, <1>9, <1>11, <1>12, <1>13, <1>14 DEF WithinInv, Record
<1> QED
  BY <1>15, <1>16 DEF GrowInv

\* What a fixup less leaves to be said.
LEMMA FixGone ==
  ASSUME LinkInv, Fixing
  PROVE  \A j \in 1..Len(Tail(fixes)) : j + 1 \in 1..Len(fixes) /\ Tail(fixes)[j] = fixes[j + 1]
<1>1. fixes \in Seq(FixSet) /\ fixes # <<>>
  BY DEF LinkInv, RecordsInv, Fixing
<1> QED
  BY <1>1, HeadTailProperties

LEMMA SkipGrows ==
  ASSUME LinkInv, GrowInv, SkipFix
  PROVE  GrowInv'
<1>1. /\ pc = "fixups" /\ pc' = "fixups" /\ fixes' = Tail(fixes) /\ Fixing
      /\ UNCHANGED <<input, file, rec, segments, out, ledata, data>>
  BY DEF SkipFix, Fixing, FixDone, InPatch
<1>2. Object' = Object /\ seg' = seg /\ (out[file])' = out[file]
  BY <1>1 DEF Object, seg
<1>3. \A j \in 1..Len(Tail(fixes)) : j + 1 \in 1..Len(fixes) /\ Tail(fixes)[j] = fixes[j + 1]
  BY <1>1, FixGone
<1>4. \A j, k \in 1..Len(Tail(fixes)) : j # k => j + 1 # k + 1
  OBVIOUS
<1> QED
  BY <1>1, <1>2, <1>3, <1>4 DEF GrowInv, BetweenInv, WithinInv

\* The first fixup's word, once it is written, and what is left of the others.
WordIn(o, old, new, list, v) ==
  /\ Len(new) = Len(old) /\ Len(old) \in Nat
  /\ Address + 2 <= Len(new) /\ WordAt(new, Address) = v
  /\ \A i \in DOMAIN list :
       /\ list[i] \in BucketSet /\ ChainIn(old, list[i])
       /\ \A k \in DOMAIN list[i].patches :
            WordAt(new, list[i].patches[k]) = WordAt(old, list[i].patches[k])
  /\ \A j \in 1..Len(Tail(fixes)) :
       /\ WordsApart(Address, Len(o) + Tail(fixes)[j].DataOffset)
       /\ \A i \in DOMAIN list : ClearOf(list[i], Len(o) + Tail(fixes)[j].DataOffset)
  /\ \A j, k \in 1..Len(Tail(fixes)) :
       j # k => WordsApart(Tail(fixes)[j].DataOffset, Tail(fixes)[k].DataOffset)
  /\ Len(Put16(data, fix.DataOffset, v)) = Len(data)

LEMMA WordPut ==
  ASSUME LinkInv, GrowInv, Fixing, InBounds, NEW v, Put16OK(v)
  PROVE  WordIn(out[file], out[file] \o data, out[file] \o Put16(data, fix.DataOffset, v),
                seg.reloclist, v)
<1> DEFINE at == fix.DataOffset
           o == out[file]
           old == o \o data
           put == Put16(data, at, v)
           new == o \o put
           list == seg.reloclist
<1>1. pc = "fixups" /\ fixes # <<>>
  BY DEF Fixing
<1>2. /\ o \in Seq(Byte) /\ Len(o) \in Nat /\ data \in Seq(Byte) /\ Len(data) \in Nat
      /\ fixes \in Seq(FixSet) /\ \A i \in DOMAIN list : list[i] \in BucketSet
  BY <1>1, RecordAt DEF Working
<1>3. /\ at \in Nat /\ at + 2 <= Len(data) /\ fix = fixes[1] /\ 1 \in 1..Len(fixes)
      /\ Tail(fixes) \in Seq(FixSet)
  <2>1. at \in Nat /\ Tail(fixes) \in Seq(FixSet)
    BY AddressType DEF FixSet
  <2>2. fix = fixes[1] /\ 1 \in 1..Len(fixes)
    BY <1>1, <1>2, HeadTailProperties, EmptySeq DEF fix
  <2> QED
    BY <2>1, <2>2 DEF InBounds
<1>4. /\ ledata.StartOffset = Len(o) /\ ChainsIn(old, list)
      /\ \A j, k \in 1..Len(fixes) :
           j # k => WordsApart(fixes[j].DataOffset, fixes[k].DataOffset)
      /\ \A i \in DOMAIN list : \A j \in 1..Len(fixes) :
           ClearOf(list[i], Len(o) + fixes[j].DataOffset)
  BY <1>1 DEF GrowInv, WithinInv
<1>5. Address = Len(o) + at
  BY <1>4 DEF Address
<1>6. /\ Len(new) = Len(old) /\ Len(old) = Len(o) + Len(data)
      /\ WordAt(new, Len(o) + at) = v
      /\ \A a \in Nat : a + 2 <= Len(old) /\ WordsApart(a, Len(o) + at)
                          => WordAt(new, a) = WordAt(old, a)
  <2>1. o \in Seq(Byte) /\ data \in Seq(Byte) /\ at \in Nat /\ at + 2 <= Len(data)
    BY <1>2, <1>3
  <2> HIDE DEF o, at
  <2>2. Len(new) = Len(o \o data) /\ Len(o \o data) = Len(o) + Len(data)
    BY <2>1, PutBehind
  <2>3. WordAt(new, Len(o) + at) = v
    BY <2>1, PutBehind
  <2>4. \A a \in Nat : a + 2 <= Len(o \o data) /\ WordsApart(a, Len(o) + at)
                          => WordAt(new, a) = WordAt(o \o data, a)
    BY <2>1, PutBehind
  <2> HIDE DEF put
  <2> QED
    BY <2>2, <2>3, <2>4
<1> HIDE DEF o, at, old, new, put, list
<1>7. Len(put) = Len(data)
  BY <1>2, <1>3, Put16Is DEF put, at
<1>8. Address + 2 <= Len(new) /\ Len(old) \in Nat
  <2>1. \A l, m \in Nat : l + m \in Nat /\ \A k \in Nat : k + 2 <= m => (l + k) + 2 <= l + m
    OBVIOUS
  <2>2. (Len(o) + at) + 2 <= Len(o) + Len(data) /\ Len(o) + Len(data) \in Nat
    BY <1>2, <1>3, <2>1
  <2> QED
    BY <1>5, <1>6, <2>2
<1>9. ASSUME NEW i \in DOMAIN list, NEW k \in DOMAIN list[i].patches
      PROVE  WordAt(new, list[i].patches[k]) = WordAt(old, list[i].patches[k])
  <2>1. ChainIn(old, list[i]) /\ ClearOf(list[i], Len(o) + at) /\ list[i] \in BucketSet
    BY <1>2, <1>3, <1>4 DEF ChainsIn, at
  <2>2. list[i].patches[k] \in Nat
    BY <2>1, LenProperties, ElementOfSeq DEF BucketSet
  <2>3. /\ list[i].patches[k] + 2 <= Len(old)
        /\ WordsApart(list[i].patches[k], Len(o) + at)
    BY <2>1 DEF ChainIn, ClearOf
  <2> QED
    BY <1>6, <2>2, <2>3
<1>10. \A j \in 1..Len(Tail(fixes)) : j + 1 \in 1..Len(fixes) /\ Tail(fixes)[j] = fixes[j + 1]
  BY FixGone
<1>11. ASSUME NEW j \in 1..Len(Tail(fixes))
       PROVE  WordsApart(Address, Len(o) + Tail(fixes)[j].DataOffset)
  <2> DEFINE b == Tail(fixes)[j].DataOffset
  <2>1. j + 1 # 1 /\ j + 1 \in 1..Len(fixes) /\ Tail(fixes)[j] = fixes[j + 1]
    BY <1>10
  <2>2. b \in Nat
    <3>1. Tail(fixes)[j] \in FixSet
      BY <1>3, ElementOfSeq
    <3> QED
      BY <3>1 DEF FixSet
  <2>3. WordsApart(at, b)
    BY <1>3, <1>4, <2>1 DEF at
  <2> HIDE DEF b
  <2> QED
    BY <1>2, <1>3, <1>5, <2>2, <2>3 DEF WordsApart, b
<1>12. \A j, k \in 1..Len(Tail(fixes)) : j # k => j + 1 # k + 1
  OBVIOUS
<1>13. \A j, k \in 1..Len(Tail(fixes)) :
          j # k => WordsApart(Tail(fixes)[j].DataOffset, Tail(fixes)[k].DataOffset)
  BY <1>4, <1>10, <1>12
<1>14. \A j \in 1..Len(Tail(fixes)) : \A i \in DOMAIN list :
          ClearOf(list[i], Len(o) + Tail(fixes)[j].DataOffset)
  BY <1>4, <1>10
<1>15. \A i \in DOMAIN list : list[i] \in BucketSet /\ ChainIn(old, list[i])
  BY <1>2, <1>4 DEF ChainsIn
<1> QED
  BY <1>5, <1>6, <1>7, <1>8, <1>9, <1>11, <1>13, <1>14, <1>15
  DEF WordIn, o, at, old, new, put, list

LEMMA OffsetGrows ==
  ASSUME LinkInv, GrowInv, OffsetFix
  PROVE  GrowInv'
<1> DEFINE v == Resolved.offset
           o == out[file]
           new == o \o Put16(data, fix.DataOffset, v)
           list == seg.reloclist
<1>1. /\ Fixing /\ InBounds /\ UNCHANGED <<input, file, rec, segments, out, ledata>>
      /\ \/ /\ Put16OK(v) /\ pc' = "fixups" /\ fixes' = Tail(fixes)
            /\ data' = Put16(data, fix.DataOffset, v)
         \/ pc' = "panic"
  BY Zenon DEF OffsetFix, FixDone, Panic, InPatch
<1>2. CASE pc' = "panic"
  BY <1>2 DEF GrowInv, BetweenInv, WithinInv
<1>3. CASE pc' # "panic"
  <2> HIDE DEF v
  <2>1. /\ Put16OK(v) /\ pc' = "fixups" /\ fixes' = Tail(fixes)
        /\ data' = Put16(data, fix.DataOffset, v)
    BY <1>1, <1>3
  <2>2. Object' = Object /\ seg' = seg /\ (out[file])' = o
    BY <1>1 DEF Object, seg
  <2>3. WordIn(o, o \o data, new, list, v)
    BY <1>1, <2>1, WordPut, Zenon
  <2>4. Len(o \o data) <= Len(new)
    BY <2>3 DEF WordIn
  <2>5. ChainsIn(new, list)
    BY <2>3, <2>4, ChainStays DEF ChainsIn, WordIn
  <2>6. /\ Object[rec].type = "FIXUP" /\ ledata.StartOffset = Len(o)
        /\ DataEnd(Object, rec + 1) = Len(o) + Len(data)
    BY <1>1 DEF GrowInv, WithinInv, Fixing
  <2>7. new = (out[file] \o data)'
    BY <1>1, <2>1 DEF new
  <2> QED
    BY <1>1, <2>1, <2>2, <2>3, <2>5, <2>6, <2>7
      DEF GrowInv, BetweenInv, WithinInv, WordIn
<1> QED
  BY <1>2, <1>3

LEMMA ChainFixGrows ==
  ASSUME LinkInv, GrowInv, ChainFix
  PROVE  GrowInv'
<1> DEFINE list == getOrMake(seg.reloclist, Target)
           b == BucketOf(list, Target)
           v == list[b].last
           o == out[file]
           old == o \o data
           new == o \o Put16(data, fix.DataOffset, v)
           longer == [list EXCEPT ![b] = Chained(list[b], Address)]
<1>1. /\ Fixing /\ InBounds /\ Relocates /\ UNCHANGED <<input, file, rec, out, ledata>>
      /\ segments' = [segments EXCEPT ![file].reloclist = longer]
      /\ \/ /\ Put16OK(v) /\ pc' = "fixups" /\ fixes' = Tail(fixes)
            /\ data' = Put16(data, fix.DataOffset, v)
         \/ pc' = "panic"
  BY Zenon DEF ChainFix, FixDone, Panic, InPatch
<1>2. CASE pc' = "panic"
  BY <1>2 DEF GrowInv, BetweenInv, WithinInv
<1>3. CASE pc' # "panic"
  <2>1. /\ list \in Buckets /\ b \in 1..Len(list) /\ list[b] \in BucketSet
        /\ \A i \in DOMAIN list :
             (i \in DOMAIN seg.reloclist /\ list[i] = seg.reloclist[i]) \/ list[i] = RelocInfo(Target)
    BY <1>1, MadeForTarget
  <2>2. DOMAIN list = 1..Len(list) /\ file \in Files /\ file # 0
    BY <1>1, <2>1, LenProperties, AddressType DEF Buckets
  <2> HIDE DEF list, b
  <2>3. /\ Put16OK(v) /\ pc' = "fixups" /\ fixes' = Tail(fixes)
        /\ data' = Put16(data, fix.DataOffset, v)
    BY <1>1, <1>3
  <2> HIDE DEF v
  <2>4. WordIn(o, old, new, seg.reloclist, v)
    BY <1>1, <2>3, WordPut, Zenon
  <2>5. Address \in Nat
    BY <1>1, AddressType
  <2>6. new = (out[file] \o data)' /\ (out[file])' = o /\ Object' = Object
    BY <1>1, <2>3 DEF Object
  <2> HIDE DEF new, old, longer, o
  <2>7. ChainIn(old, RelocInfo(Target)) /\ \A w : ClearOf(RelocInfo(Target), w)
    BY DEF ChainIn, ClearOf, RelocInfo
  <2>8. RelocInfo(Target).patches = <<>>
    BY DEF RelocInfo
  <2>9. ASSUME NEW i \in DOMAIN list
        PROVE  /\ ChainIn(old, list[i])
               /\ \A k \in DOMAIN list[i].patches :
                    WordAt(new, list[i].patches[k]) = WordAt(old, list[i].patches[k])
               /\ \A j \in 1..Len(Tail(fixes)) :
                    ClearOf(list[i], Len(o) + Tail(fixes)[j].DataOffset)
    BY <2>1, <2>4, <2>7, <2>8 DEF WordIn
  <2>10. /\ ChainIn(new, Chained(list[b], Address))
         /\ \A w : ClearOf(list[b], w) /\ WordsApart(Address, w) => ClearOf(Chained(list[b], Address), w)
    <3>1. v = list[b].last /\ b \in DOMAIN list
      BY <2>1, <2>2 DEF v
    <3> QED
      BY <2>1, <2>4, <2>5, <2>9, <3>1, ChainExtends DEF WordIn
  <2>11. /\ DOMAIN longer = DOMAIN list /\ longer[b] = Chained(list[b], Address)
         /\ \A i \in DOMAIN list : i # b => longer[i] = list[i]
    BY <2>1, <2>2 DEF longer
  <2>12. ChainsIn(new, longer)
    <3> SUFFICES ASSUME NEW i \in DOMAIN list, i # b PROVE ChainIn(new, list[i])
      BY <2>10, <2>11 DEF ChainsIn
    <3>1. list[i] \in BucketSet
      BY <2>1, <2>2, ElementOfSeq DEF Buckets
    <3>2. Len(new) \in Nat /\ Len(old) <= Len(new)
      BY <2>4 DEF WordIn
    <3> QED
      BY <2>9, <3>1, <3>2, <2>4, ChainStays DEF WordIn
  <2>13. \A i \in DOMAIN longer : \A j \in 1..Len(Tail(fixes)) :
           ClearOf(longer[i], Len(o) + Tail(fixes)[j].DataOffset)
    BY <2>1, <2>2, <2>4, <2>9, <2>10, <2>11 DEF WordIn
  <2>14. seg'.reloclist = longer
    BY <1>1, <2>2 DEF LinkInv, SegmentsInv, SegmentSet, seg
  <2>15. /\ Object[rec].type = "FIXUP" /\ ledata.StartOffset = Len(o)
         /\ DataEnd(Object, rec + 1) = Len(o) + Len(data)
    BY <1>1 DEF GrowInv, WithinInv, Fixing, o
  <2> QED
    BY <1>1, <2>3, <2>4, <2>6, <2>12, <2>13, <2>14, <2>15
      DEF GrowInv, BetweenInv, WithinInv, WordIn
<1> QED
  BY <1>2, <1>3

LEMMA WriteGrows ==
  ASSUME LinkInv, GrowInv, WriteData
  PROVE  GrowInv'
<1> DEFINE o == out[file]
           list == seg.reloclist
<1>1. /\ pc = "fixups" /\ pc' = "records" /\ rec' = rec + 1
      /\ out' = [out EXCEPT ![file] = o \o data]
      /\ UNCHANGED <<input, file>>
      /\ segments' = [segments EXCEPT ![file].size = segments[file].size + Len(data)]
  BY DEF WriteData, InPatch
<1>2. /\ file \in Files /\ file # 0 /\ rec \in Nat \ {0} /\ o \in Seq(Byte)
      /\ data \in Seq(Byte)
  BY <1>1, RecordAt DEF Working
<1>3. /\ Object[rec].type = "FIXUP" /\ DataEnd(Object, rec + 1) = Len(o) + Len(data)
      /\ ChainsIn(o \o data, list)
  BY <1>1 DEF GrowInv, WithinInv
<1>4. Len(o \o data) = Len(o) + Len(data)
  BY <1>2, JoinType
<1>5. Object' = Object /\ (out[file])' = o \o data /\ seg'.reloclist = list
  BY <1>1, <1>2 DEF Object, LinkInv, OutInv, SegmentsInv, SegmentSet, seg
<1>6. (rec + 1) - 1 = rec
  BY <1>2
<1> QED
  BY <1>1, <1>3, <1>4, <1>5, <1>6 DEF GrowInv, BetweenInv, WithinInv

LEMMA GrowStep ==
  ASSUME LinkInv, Tidy(input), GrowInv, [Next]_vars
  PROVE  GrowInv'
<1>1. CASE OpenOutput
  BY <1>1, OpenGrows
<1>2. CASE OtherRecord \/ LedataRecord
  BY <1>2, RecordGrows
<1>3. CASE FixupRecord
  BY <1>3, FixupGrows
<1>4. CASE SkipFix
  BY <1>4, SkipGrows
<1>5. CASE OffsetFix
  BY <1>5, OffsetGrows
<1>6. CASE ChainFix
  BY <1>6, ChainFixGrows
<1>7. CASE WriteData
  BY <1>7, WriteGrows
<1>8. CASE pc' \notin {"records", "fixups"}
  BY <1>8 DEF GrowInv, BetweenInv, WithinInv
<1>9. CASE UNCHANGED vars
  <2>1. UNCHANGED <<input, pc, file, rec, segments, out, ledata, data, fixes>>
    BY <1>9 DEF vars, recordVars
  <2>2. Object' = Object /\ seg' = seg /\ (out[file])' = out[file]
    BY <2>1 DEF Object, seg
  <2> QED
    BY <2>1, <2>2 DEF GrowInv, BetweenInv, WithinInv
<1>10. CASE ReadScript \/ loadSymbols \/ BeginPatching
  <2>1. pc' \in {"script", "failed", "symbols", "open"}
    BY <1>10, Zenon DEF ReadScript, BlankLine, UnknownLine, scriptModule, scriptRelocSegment,
      scriptRelocSymbol, BadRelocLine, MakeSegments, NextLine, Fail, loadSymbols, BeginPatching
  <2> QED
    BY <1>8, <2>1
<1>11. CASE DiskFull \/ BadFixupRecord \/ LoseRelocs
  BY <1>8, <1>11 DEF DiskFull, BadFixupRecord, GiveUp, LoseRelocs
<1>12. CASE RecordsDone \/ SortDone \/ Finish
  BY <1>8, <1>12 DEF RecordsDone, SortDone, Finish
<1>13. CASE SortBucket
  BY <1>8, <1>13 DEF SortBucket
<1>14. CASE Relink \/ WriteRelocs
  <2>1. pc' \in {"relocs", "panic", "open"}
    BY <1>14, Zenon DEF Relink, WriteRelocs
  <2> QED
    BY <1>8, <2>1
<1> QED
  BY <1>1, <1>2, <1>3, <1>4, <1>5, <1>6, <1>7, <1>9, <1>10, <1>11, <1>12, <1>13, <1>14,
    Zenon DEF Next, Patch

\* With the objects of an assembler, each bucket's addresses are a chain in the
\* data at every moment of phase one, from its head back to End: neither a later
\* record nor another fixup breaks a link.  (fixup's chain, patch.)
THEOREM ChainsStayWhole == Spec /\ Tidy(input) => []ChainsGrow
<1>1. LinkInv /\ GrowInv => ChainsGrow
  <2> SUFFICES ASSUME LinkInv, GrowInv, pc \in {"records", "fixups"},
                      NEW ri \in Range(seg.reloclist)
               PROVE  LET bytes == IF pc = "fixups" THEN out[file] \o data ELSE out[file]
                      IN  /\ ri.last = IF ri.patches = <<>> THEN End ELSE Last(ri.patches)
                          /\ \A k \in DOMAIN ri.patches :
                               WordAt(bytes, ri.patches[k]) = IF k = 1 THEN End ELSE ri.patches[k - 1]
    BY DEF ChainsGrow
  <2>1. PICK i \in DOMAIN seg.reloclist : ri = seg.reloclist[i]
    BY DEF Range
  <2>2. ChainIn(IF pc = "fixups" THEN out[file] \o data ELSE out[file], ri)
    BY <2>1 DEF GrowInv, BetweenInv, WithinInv, ChainsIn
  <2> QED
    BY <2>2 DEF ChainIn
<1>2. Init => GrowInv
  BY DEF Init, GrowInv, BetweenInv, WithinInv
<1>3. LinkInv /\ GrowInv /\ Tidy(input) /\ [Next]_vars => GrowInv' /\ Tidy(input)'
  <2>1. ASSUME Tidy(input), UNCHANGED vars PROVE Tidy(input)'
    BY <2>1 DEF vars
  <2> QED
    BY <2>1, GrowStep, InputStays
<1> QED
  BY <1>1, <1>2, <1>3, LinkInvHolds, PTL DEF Spec
-----------------------------------------------------------------------------
(***************************************************************************)
(* What the map tells.                                                     *)
(***************************************************************************)
LEMMA JoinedRange ==
  ASSUME NEW S, NEW a \in Seq(S), NEW b \in Seq(S)
  PROVE  Range(a \o b) = Range(a) \cup Range(b)
<1> DEFINE m == Len(a)
           n == Len(b)
           c == a \o b
<1>1. /\ m \in Nat /\ n \in Nat /\ DOMAIN a = 1..m /\ DOMAIN b = 1..n
  BY LenProperties
<1>2. /\ c \in Seq(S) /\ Len(c) = m + n
      /\ \A i \in 1..(m + n) : c[i] = IF i <= m THEN a[i] ELSE b[i - m]
  BY ConcatProperties
<1> HIDE DEF c, m, n
<1>3. DOMAIN c = 1..(m + n)
  BY <1>2, LenProperties
<1>4. ASSUME NEW x \in Range(c) PROVE x \in Range(a) \cup Range(b)
  <2>1. PICK i \in 1..(m + n) : x = c[i]
    BY <1>3 DEF Range
  <2>2. i <= m => i \in DOMAIN a
    BY <1>1
  <2>3. ~(i <= m) => i - m \in DOMAIN b
    BY <1>1
  <2> QED
    BY <1>2, <2>1, <2>2, <2>3 DEF Range
<1>5. ASSUME NEW x \in Range(a) PROVE x \in Range(c)
  <2>1. PICK i \in 1..m : x = a[i]
    BY <1>1 DEF Range
  <2>2. i \in 1..(m + n) /\ i <= m
    BY <1>1
  <2> QED
    BY <1>2, <1>3, <2>1, <2>2 DEF Range
<1>6. ASSUME NEW x \in Range(b) PROVE x \in Range(c)
  <2>1. PICK i \in 1..n : x = b[i]
    BY <1>1 DEF Range
  <2>2. m + i \in 1..(m + n) /\ ~(m + i <= m) /\ (m + i) - m = i
    BY <1>1
  <2> QED
    BY <1>2, <1>3, <2>1, <2>2 DEF Range
<1> QED
  BY <1>4, <1>5, <1>6 DEF c

\* t has what the first m lists of s have.
Holds(t, s, m) == \A x : x \in Range(t) <=> \E k \in 1..m : x \in Range(s[k])

LEMMA AddedRange ==
  ASSUME NEW S, NEW s \in Seq(Seq(S)), NEW r, Adding(r, s, S), NEW m \in 0..Len(s)
  PROVE  r[m] \in Seq(S) /\ Holds(r[m], s, m)
<1> DEFINE n == Len(s)
<1>1. n \in Nat /\ \A k \in 1..n : s[k] \in Seq(S)
  BY LenProperties, ElementOfSeq
<1>2. r[0] = <<>> /\ \A k \in 1..n : r[k] = r[k - 1] \o s[k] /\ r[k - 1] \in Seq(S)
  <2>1. \A k \in 1..n : k - 1 \in 0..n
    BY <1>1
  <2> QED
    BY <2>1 DEF Adding
<1> DEFINE K == {l \in Nat : l <= n => Range(r[l]) = UNION {Range(s[k]) : k \in 1..l}}
<1>3. 0 \in K
  <2>1. Range(<<>>) = {} /\ 1..0 = {}
    BY EmptySeq DEF Range
  <2> QED
    BY <1>2, <2>1
<1>4. ASSUME NEW l \in K PROVE l + 1 \in K
  <2> SUFFICES ASSUME l + 1 <= n
               PROVE  Range(r[l + 1]) = UNION {Range(s[k]) : k \in 1..(l + 1)}
    OBVIOUS
  <2>1. l \in Nat /\ n \in Nat /\ l + 1 <= n
    BY <1>1
  <2> HIDE DEF n, K
  <2>2. l + 1 \in 1..n /\ (l + 1) - 1 = l /\ l <= n
    BY <2>1
  <2>3. Range(r[l + 1]) = Range(r[l]) \cup Range(s[l + 1])
    <3>1. r[l + 1] = r[l] \o s[l + 1] /\ r[l] \in Seq(S) /\ s[l + 1] \in Seq(S)
      BY <1>1, <1>2, <2>2
    <3> QED
      BY <3>1, JoinedRange
  <2>4. Range(r[l]) = UNION {Range(s[k]) : k \in 1..l}
    BY <2>2 DEF K
  <2>5. 1..(l + 1) = 1..l \cup {l + 1}
    BY <2>1
  <2> QED
    BY <2>3, <2>4, <2>5
<1> HIDE DEF K
<1>5. Nat \subseteq K
  BY <1>3, <1>4, NatInd
<1>6. m \in K /\ m <= n
  BY <1>1, <1>5
<1> QED
  BY <1>6 DEF K, Adding, Holds

LEMMA FlattenRange ==
  ASSUME NEW S, NEW s \in Seq(Seq(S))
  PROVE  Holds(FlattenSeq(s), s, Len(s))
<1>1. PICK r : Adding(r, s, S) /\ FlattenSeq(s) = r[Len(s)]
  BY FlattenIs
<1>2. Len(s) \in 0..Len(s) /\ Len(s) \in Nat
  BY LenProperties
<1>3. Holds(r[Len(s)], s, Len(s))
  <2>1. Adding(r, s, S)
    BY <1>1
  <2> QED
    BY <1>2, <2>1, AddedRange
<1> QED
  BY <1>1, <1>3

\* Those of a list that are the first of their names.
FirstAt(s, j) == \A k \in 1..(j - 1) : s[k].name # s[j].name
FirstsOf(s) == {s[i] : i \in {j \in 1..Len(s) : FirstAt(s, j)}}

LEMMA FirstsJoined ==
  ASSUME NEW S, NEW a \in Seq(S), NEW b \in Seq(S)
  PROVE  FirstsOf(a \o b) = FirstsOf(a) \cup {p \in FirstsOf(b) : \A q \in Range(a) : q.name # p.name}
<1> DEFINE m == Len(a)
           n == Len(b)
           c == a \o b
<1>1. /\ m \in Nat /\ n \in Nat /\ DOMAIN a = 1..m
  BY LenProperties
<1>2. /\ Len(c) = m + n
      /\ \A i \in 1..(m + n) : c[i] = IF i <= m THEN a[i] ELSE b[i - m]
  BY ConcatProperties
<1> HIDE DEF c
<1>3. /\ \A p : p \in FirstsOf(a) <=> \E i \in 1..m : p = a[i] /\ FirstAt(a, i)
      /\ \A p : p \in FirstsOf(b) <=> \E i \in 1..n : p = b[i] /\ FirstAt(b, i)
      /\ \A p : p \in FirstsOf(c) <=> \E i \in 1..(m + n) : p = c[i] /\ FirstAt(c, i)
  BY <1>2 DEF FirstsOf
<1>4. \A p : (\A q \in Range(a) : q.name # p.name) <=> \A k \in 1..m : a[k].name # p.name
  BY <1>1 DEF Range
<1> HIDE DEF m, n
<1>5. ASSUME NEW i \in 1..m PROVE i \in 1..(m + n) /\ c[i] = a[i] /\ (FirstAt(c, i) <=> FirstAt(a, i))
  <2>1. i \in 1..(m + n) /\ c[i] = a[i]
    BY <1>1, <1>2
  <2>2. \A k \in 1..(i - 1) : c[k] = a[k]
    BY <1>1, <1>2
  <2> QED
    BY <2>1, <2>2 DEF FirstAt
<1>6. ASSUME NEW i \in 1..n
      PROVE  /\ m + i \in 1..(m + n) /\ c[m + i] = b[i]
             /\ FirstAt(c, m + i) <=> FirstAt(b, i) /\ \A k \in 1..m : a[k].name # b[i].name
  <2>1. m + i \in 1..(m + n) /\ c[m + i] = b[i]
    <3>1. m + i \in 1..(m + n) /\ ~(m + i <= m) /\ (m + i) - m = i
      BY <1>1
    <3> QED
      BY <1>2, <3>1
  <2>2. \A k \in 1..m : k \in 1..(m + i - 1) /\ c[k] = a[k]
    BY <1>1, <1>2
  <2>3. ASSUME NEW k \in 1..(i - 1) PROVE m + k \in 1..(m + i - 1) /\ c[m + k] = b[k]
    <3>1. m + k \in 1..(m + n) /\ ~(m + k <= m) /\ (m + k) - m = k /\ m + k \in 1..(m + i - 1)
      BY <1>1
    <3> QED
      BY <1>2, <3>1
  <2>4. ASSUME NEW k \in 1..(m + i - 1)
        PROVE  k \in 1..m \/ (k - m \in 1..(i - 1) /\ m + (k - m) = k)
    BY <1>1
  <2>5. ASSUME FirstAt(c, m + i)
        PROVE  FirstAt(b, i) /\ \A k \in 1..m : a[k].name # b[i].name
    <3> DEFINE j == m + i
    <3>1. c[j] = b[i] /\ FirstAt(c, j)
      BY <2>1, <2>5
    <3>2. \A k \in 1..(j - 1) : c[k].name # b[i].name
      <4> HIDE DEF j
      <4> QED
        BY <3>1 DEF FirstAt
    <3>3. ASSUME NEW k \in 1..(i - 1) PROVE b[k].name # b[i].name
      <4>1. m + k \in 1..(j - 1) /\ c[m + k] = b[k]
        BY <1>1, <2>3
      <4> QED
        BY <3>2, <4>1
    <3>4. ASSUME NEW k \in 1..m PROVE a[k].name # b[i].name
      <4>1. k \in 1..(j - 1) /\ c[k] = a[k]
        BY <1>1, <2>2
      <4> QED
        BY <3>2, <4>1
    <3> QED
      BY <3>3, <3>4 DEF FirstAt
  <2>6. ASSUME FirstAt(b, i), \A k \in 1..m : a[k].name # b[i].name, NEW k \in 1..(m + i - 1)
        PROVE  c[k].name # c[m + i].name
    <3>1. CASE k \in 1..m
      BY <2>1, <2>2, <2>6, <3>1
    <3>2. CASE k - m \in 1..(i - 1) /\ m + (k - m) = k
      <4>1. c[k] = b[k - m] /\ b[k - m].name # b[i].name
        BY <2>3, <2>6, <3>2 DEF FirstAt
      <4> QED
        BY <2>1, <4>1
    <3> QED
      BY <2>4, <3>1, <3>2
  <2>7. ASSUME FirstAt(b, i), \A k \in 1..m : a[k].name # b[i].name PROVE FirstAt(c, m + i)
    BY <1>1, <2>6, <2>7 DEF FirstAt
  <2> QED
    BY <2>1, <2>5, <2>7
<1>7. ASSUME NEW i \in 1..(m + n) PROVE i \in 1..m \/ (i - m \in 1..n /\ m + (i - m) = i)
  BY <1>1
<1>8. ASSUME NEW p
      PROVE  p \in FirstsOf(c) <=>
               \/ p \in FirstsOf(a)
               \/ p \in FirstsOf(b) /\ \A k \in 1..m : a[k].name # p.name
  <2>1. ASSUME p \in FirstsOf(c)
        PROVE  p \in FirstsOf(a) \/ (p \in FirstsOf(b) /\ \A k \in 1..m : a[k].name # p.name)
    <3>1. PICK i \in 1..(m + n) : p = c[i] /\ FirstAt(c, i)
      BY <1>3, <2>1
    <3>2. CASE i \in 1..m
      BY <1>3, <1>5, <3>1, <3>2
    <3>3. CASE i - m \in 1..n /\ m + (i - m) = i
      <4>1. p = b[i - m] /\ FirstAt(b, i - m) /\ \A k \in 1..m : a[k].name # b[i - m].name
        BY <1>6, <3>1, <3>3
      <4> QED
        BY <1>3, <3>3, <4>1
    <3> QED
      BY <1>7, <3>2, <3>3
  <2>2. ASSUME p \in FirstsOf(a) PROVE p \in FirstsOf(c)
    BY <1>3, <1>5, <2>2
  <2>3. ASSUME p \in FirstsOf(b), \A k \in 1..m : a[k].name # p.name PROVE p \in FirstsOf(c)
    <3>1. PICK i \in 1..n : p = b[i] /\ FirstAt(b, i)
      BY <1>3, <2>3
    <3>2. m + i \in 1..(m + n) /\ c[m + i] = p /\ FirstAt(c, m + i)
      BY <1>6, <2>3, <3>1
    <3> QED
      BY <1>3, <3>2
  <2> QED
    BY <2>1, <2>2, <2>3
<1> QED
  BY <1>4, <1>8 DEF c

LEMMA FlattenFirsts ==
  ASSUME NEW S, NEW s \in Seq(Seq(S))
  PROVE  FirstsOf(FlattenSeq(s)) =
           UNION {{p \in FirstsOf(s[k]) : \A j \in 1..(k - 1) : \A q \in Range(s[j]) : q.name # p.name} :
                    k \in 1..Len(s)}
<1> DEFINE n == Len(s)
           part(k) == {p \in FirstsOf(s[k]) :
                         \A j \in 1..(k - 1) : \A q \in Range(s[j]) : q.name # p.name}
<1>1. n \in Nat /\ \A k \in 1..n : s[k] \in Seq(S)
  BY LenProperties, ElementOfSeq
<1>2. PICK r : Adding(r, s, S) /\ FlattenSeq(s) = r[Len(s)]
  BY FlattenIs
<1>3. r[0] = <<>> /\ \A k \in 1..n : r[k] = r[k - 1] \o s[k]
  BY <1>2 DEF Adding
<1> DEFINE K == {l \in Nat : l <= n => FirstsOf(r[l]) = UNION {part(k) : k \in 1..l}}
<1> HIDE DEF part
<1>4. 0 \in K
  <2>1. 1..0 = {} /\ Len(<<>>) = 0
    BY EmptySeq
  <2>2. FirstsOf(<<>>) = {}
    BY <2>1 DEF FirstsOf
  <2> QED
    BY <1>3, <2>1, <2>2
<1>5. ASSUME NEW l \in K PROVE l + 1 \in K
  <2> SUFFICES ASSUME l + 1 <= n
               PROVE  FirstsOf(r[l + 1]) = UNION {part(k) : k \in 1..(l + 1)}
    OBVIOUS
  <2>1. l \in Nat /\ n \in Nat /\ l + 1 <= n
    BY <1>1
  <2>2. l \in 0..Len(s)
    BY <2>1
  <2> HIDE DEF n, K
  <2>3. l + 1 \in 1..n /\ (l + 1) - 1 = l /\ l <= n
    BY <2>1
  <2>4. r[l] \in Seq(S) /\ Holds(r[l], s, l)
    <3>1. Adding(r, s, S)
      BY <1>2
    <3> QED
      BY <2>1, <2>2, <3>1, AddedRange
  <2>5. FirstsOf(r[l + 1]) =
          FirstsOf(r[l]) \cup {p \in FirstsOf(s[l + 1]) : \A q \in Range(r[l]) : q.name # p.name}
    <3>1. r[l + 1] = r[l] \o s[l + 1] /\ s[l + 1] \in Seq(S)
      BY <1>1, <1>3, <2>3
    <3> QED
      BY <2>4, <3>1, FirstsJoined
  <2>6. {p \in FirstsOf(s[l + 1]) : \A q \in Range(r[l]) : q.name # p.name} = part(l + 1)
    BY <2>3, <2>4 DEF part, Holds
  <2>7. FirstsOf(r[l]) = UNION {part(k) : k \in 1..l}
    BY <2>3 DEF K
  <2>8. 1..(l + 1) = 1..l \cup {l + 1}
    BY <2>1
  <2> QED
    BY <2>5, <2>6, <2>7, <2>8
<1> HIDE DEF K
<1>6. Nat \subseteq K
  BY <1>4, <1>5, NatInd
<1>7. n \in K /\ n <= n
  BY <1>1, <1>6
<1> QED
  BY <1>2, <1>7 DEF K, part

\* The public names of an input, as PublicNames has them.
OfObject(i) == ReadObjNames(input.objects[i])
RowOf(p, i) == [name |-> p.Name, input |-> i, segment |-> SegmentOf(input, i),
                offset |-> p.Offset, const |-> p.Const]
PublicOf(i) == [k \in DOMAIN OfObject(i) |-> RowOf(OfObject(i)[k], i)]
RowSet == {RowOf(p, i) : p \in PublicName, i \in Files}

LEMMA PublicIs ==
  ASSUME input \in Inputs, NEW i \in Files
  PROVE  /\ OfObject(i) \in Seq(PublicName) /\ PublicOf(i) \in Seq(RowSet)
         /\ Len(PublicOf(i)) = Len(OfObject(i)) /\ Len(OfObject(i)) \in Nat
         /\ \A k \in 1..Len(OfObject(i)) : PublicOf(i)[k] = RowOf(OfObject(i)[k], i)
<1> DEFINE names == OfObject(i)
           n == Len(names)
<1>1. names \in Seq(PublicName)
  BY ObjNamesType DEF OfObject
<1>2. n \in Nat /\ DOMAIN names = 1..n
  BY <1>1, LenProperties
<1>3. \A k \in 1..n : names[k] \in PublicName
  BY <1>1, ElementOfSeq
<1>4. PublicOf(i) = [k \in 1..n |-> RowOf(names[k], i)]
  BY <1>2 DEF PublicOf
<1> HIDE DEF names, n
<1>5. ASSUME NEW k \in 1..n PROVE RowOf(names[k], i) \in RowSet
  <2>1. names[k] \in PublicName
    BY <1>3
  <2> QED
    BY <2>1 DEF RowSet
<1>6. PublicOf(i) \in [1..n -> RowSet] /\ \A k \in 1..n : PublicOf(i)[k] = RowOf(names[k], i)
  BY <1>4, <1>5
<1>7. PublicOf(i) \in Seq(RowSet) /\ Len(PublicOf(i)) = n
  BY <1>2, <1>6, ListOf
<1> QED
  BY <1>1, <1>2, <1>6, <1>7 DEF names, n

LEMMA NewNamesAre ==
  ASSUME NEW names \in Seq(PublicName), NEW p
  PROVE  p \in Range(NewNames(names)) <=>
           \E j \in 1..Len(names) :
             /\ p = names[j] /\ names[j].Name \notin DOMAIN symtab
             /\ \A k \in 1..(j - 1) : names[k].Name # names[j].Name
<1> DEFINE n == Len(names)
           first(j) == /\ names[j].Name \notin DOMAIN symtab
                       /\ \A k \in 1..(j - 1) : names[k].Name # names[j].Name
           one(j) == IF first(j) THEN <<names[j]>> ELSE <<>>
           lists == [j \in DOMAIN names |-> one(j)]
<1>1. n \in Nat /\ DOMAIN names = 1..n /\ \A j \in 1..n : names[j] \in PublicName
  BY LenProperties, ElementOfSeq
<1>2. NewNames(names) = FlattenSeq(lists)
  BY DEF NewNames
<1> HIDE DEF first
<1>3. ASSUME NEW j \in 1..n
      PROVE  /\ one(j) \in Seq(PublicName)
             /\ p \in Range(one(j)) <=> p = names[j] /\ first(j)
  <2>1. CASE first(j)
    <3>1. one(j) = <<names[j]>> /\ names[j] \in PublicName
      BY <1>1, <2>1
    <3>2. <<names[j]>> \in Seq(PublicName) /\ DOMAIN <<names[j]>> = 1..1 /\ <<names[j]>>[1] = names[j]
      BY <3>1
    <3> QED
      BY <2>1, <3>1, <3>2 DEF Range
  <2>2. CASE ~first(j)
    <3>1. one(j) = <<>> /\ <<>> \in Seq(PublicName) /\ Range(<<>>) = {}
      BY <2>2, EmptySeq DEF Range
    <3> QED
      BY <2>2, <3>1
  <2> QED
    BY <2>1, <2>2
<1> HIDE DEF one
<1>4. lists \in [1..n -> Seq(PublicName)] /\ \A j \in 1..n : lists[j] = one(j)
  BY <1>1, <1>3
<1> HIDE DEF lists
<1>5. lists \in Seq(Seq(PublicName)) /\ Len(lists) = n
  BY <1>1, <1>4, ListOf
<1>6. Holds(FlattenSeq(lists), lists, n)
  <2>1. Holds(FlattenSeq(lists), lists, Len(lists))
    BY <1>5, FlattenRange
  <2> QED
    BY <1>5, <2>1
<1>7. p \in Range(FlattenSeq(lists)) <=> \E j \in 1..n : p \in Range(one(j))
  BY <1>4, <1>6 DEF Holds
<1> QED
  BY <1>2, <1>3, <1>7 DEF first

\* Each name of a list has a first.
LEMMA FirstHere ==
  ASSUME NEW S, NEW s \in Seq(S), NEW i \in 1..Len(s)
  PROVE  \E j \in 1..Len(s) : s[j].name = s[i].name /\ FirstAt(s, j)
<1> DEFINE I == {j \in 1..Len(s) : s[j].name = s[i].name}
<1>1. Len(s) \in Nat
  BY LenProperties
<1>2. I \in SUBSET Nat /\ i \in I
  BY <1>1
<1>3. PICK j \in I : \A k \in I : j <= k
  BY <1>2, LeastNat
<1>4. FirstAt(s, j)
  <2>1. ASSUME NEW k \in 1..(j - 1), s[k].name = s[j].name PROVE FALSE
    <3>1. k \in 1..Len(s) /\ k < j
      BY <1>1
    <3>2. k \in I /\ j \in Nat /\ k \in Nat
      BY <1>1, <2>1, <3>1
    <3> QED
      BY <1>3, <3>1, <3>2
  <2> QED
    BY <2>1 DEF FirstAt
<1> QED
  BY <1>3, <1>4

\* Declared looks for a name's first row.
LEMMA FirstsAre ==
  ASSUME NEW S, NEW s \in Seq(S), NEW p
  PROVE  (p \in Range(s) /\ p = s[FirstNamed(s, p.name)]) <=> p \in FirstsOf(s)
<1> DEFINE I == {j \in 1..Len(s) : s[j].name = p.name}
           m == FirstNamed(s, p.name)
<1>1. Len(s) \in Nat /\ DOMAIN s = 1..Len(s)
  BY LenProperties
<1>2. m = IF I # {} THEN Min(I) ELSE 0
  BY DEF FirstNamed, SelectInSeq
<1>3. I # {} => Min(I) \in I /\ \A j \in I : Min(I) <= j
  BY <1>1, FirstOf
<1>4. I # {} => m \in I /\ \A j \in I : m <= j
  BY <1>2, <1>3
<1> HIDE DEF m
<1>5. ASSUME p \in Range(s), p = s[m] PROVE p \in FirstsOf(s)
  <2>1. PICK i \in 1..Len(s) : p = s[i]
    BY <1>1, <1>5 DEF Range
  <2>2. m \in 1..Len(s) /\ \A j \in I : m <= j
    BY <1>4, <2>1
  <2>3. FirstAt(s, m)
    <3>1. ASSUME NEW k \in 1..(m - 1), s[k].name = s[m].name PROVE FALSE
      <4>1. k \in 1..Len(s) /\ k < m
        BY <1>1, <2>2
      <4>2. k \in I
        BY <1>5, <3>1, <4>1
      <4>3. m <= k /\ k \in Nat /\ m \in Nat
        BY <1>1, <2>2, <4>1, <4>2
      <4> QED
        BY <4>1, <4>3
    <3> QED
      BY <3>1 DEF FirstAt
  <2> QED
    BY <1>5, <2>2, <2>3 DEF FirstsOf
<1>6. ASSUME p \in FirstsOf(s) PROVE p \in Range(s) /\ p = s[m]
  <2>1. PICK i \in 1..Len(s) : p = s[i] /\ FirstAt(s, i)
    BY <1>6 DEF FirstsOf
  <2>2. i \in I
    BY <2>1
  <2>3. m \in 1..Len(s) /\ s[m].name = p.name /\ m <= i
    BY <1>4, <2>2
  <2>4. ~(m \in 1..(i - 1))
    BY <2>1, <2>3 DEF FirstAt
  <2>5. m = i
    BY <1>1, <2>3, <2>4
  <2> QED
    BY <1>1, <2>1, <2>5 DEF Range
<1> QED
  BY <1>5, <1>6 DEF m

\* What the first l lines of the script declare.
Wrote(l) == UNION {Declares(input.script[k]) : k \in 1..l}
ListOfLine(l) ==
  IF l.cmd = "MODULE"
  THEN [i \in DOMAIN l.file.names |->
          [name |-> <<l.name>> \o l.file.names[i].name,
           to |-> <<IF l.file.names[i].equate THEN "const" ELSE "far",
                    ModuleNumber(input, l.name), l.file.names[i].ordinal>>]]
  ELSE IF l.cmd = "RELOC" /\ ~ToSegment(l) /\ l.ordinal
  THEN <<[name |-> l.to, to |-> <<"far", ModuleNumber(input, l.mod), l.number>>]>>
  ELSE <<>>

LEMMA LineDeclares ==
  ASSUME input \in Inputs, NEW k \in 1..Len(input.script), NEW S, Range(ListOfLine(input.script[k])) \subseteq S
  PROVE  /\ ListOfLine(input.script[k]) \in Seq(S)
         /\ Declares(input.script[k]) = {x.name : x \in Range(ListOfLine(input.script[k]))}
<1> DEFINE l == input.script[k]
           list == ListOfLine(l)
<1>1. LineOK(l)
  BY InputParts
<1>2. CASE l.cmd = "MODULE"
  <2> DEFINE names == l.file.names
             n == Len(names)
             row(i) == [name |-> <<l.name>> \o names[i].name,
                        to |-> <<IF names[i].equate THEN "const" ELSE "far",
                                 ModuleNumber(input, l.name), names[i].ordinal>>]
             called(i) == <<l.name>> \o names[i].name
  <2>1. n \in Nat /\ DOMAIN names = 1..n
    BY <1>1, <1>2, LenProperties DEF LineOK, Listing
  <2>2. list = [i \in 1..n |-> row(i)]
    BY <1>2, <2>1 DEF ListOfLine
  <2>3. \A i \in 1..n : row(i).name = called(i)
    OBVIOUS
  <2>4. Declares(l) = {called(i) : i \in 1..n}
    BY <1>2, <2>1 DEF Declares
  <2> HIDE DEF row, called, list, names, n, l
  <2>5. DOMAIN list = 1..n /\ \A i \in 1..n : list[i] = row(i)
    BY <2>2
  <2>6. \A i \in 1..n : row(i) \in S
    BY <2>5 DEF Range, list, l
  <2>7. list \in [1..n -> S]
    BY <2>2, <2>6
  <2>8. list \in Seq(S)
    BY <2>1, <2>7, ListOf
  <2>9. Declares(l) = {x.name : x \in Range(list)}
    <3>1. Range(list) = {row(i) : i \in 1..n}
      BY <2>5 DEF Range
    <3> QED
      BY <2>3, <2>4, <3>1
  <2> QED
    BY <2>8, <2>9 DEF list, l
<1>3. CASE l.cmd # "MODULE" /\ l.cmd = "RELOC" /\ ~ToSegment(l) /\ l.ordinal
  <2> DEFINE x == [name |-> l.to, to |-> <<"far", ModuleNumber(input, l.mod), l.number>>]
  <2>1. list = <<x>> /\ Declares(l) = {l.to} /\ x.name = l.to
    BY <1>3 DEF ListOfLine, Declares
  <2> HIDE DEF x, list, l
  <2>2. DOMAIN <<x>> = 1..1 /\ <<x>>[1] = x
    OBVIOUS
  <2>3. Range(list) = {x}
    BY <2>1, <2>2 DEF Range
  <2>4. x \in S
    BY <2>3 DEF list, l
  <2>5. list \in Seq(S)
    BY <2>1, <2>4
  <2>6. Declares(l) = {y.name : y \in Range(list)}
    BY <2>1, <2>3
  <2> QED
    BY <2>5, <2>6 DEF list, l
<1>4. CASE l.cmd # "MODULE" /\ ~(l.cmd = "RELOC" /\ ~ToSegment(l) /\ l.ordinal)
  <2>1. list = <<>> /\ Declares(l) = {} /\ <<>> \in Seq(S) /\ Range(<<>>) = {}
    <3>1. list = <<>>
      BY <1>4 DEF ListOfLine
    <3>2. Declares(l) = {}
      BY <1>4 DEF Declares
    <3>3. <<>> \in Seq(S) /\ Range(<<>>) = {}
      BY EmptySeq DEF Range
    <3> HIDE DEF list, l
    <3> QED
      BY <3>1, <3>2, <3>3
  <2> HIDE DEF list, l
  <2> QED
    BY <2>1 DEF list, l
<1> QED
  BY <1>2, <1>3, <1>4

\* An import is a name that the script declares.
LEMMA ImportedNames ==
  ASSUME input \in Inputs, NEW n
  PROVE  Meaning(input, n).import <=> n \in Wrote(Len(input.script))
<1> DEFINE script == ScriptNames(input)
           m == Len(input.script)
           lists == [k \in DOMAIN input.script |-> ListOfLine(input.script[k])]
           S == UNION {Range(ListOfLine(input.script[k])) : k \in 1..m}
           I == {i \in 1..Len(script) : script[i].name = n}
           s == SelectLastInSeq(script, LAMBDA x : x.name = n)
<1>1. m \in Nat /\ DOMAIN input.script = 1..m
  BY InputParts, InputsAssumption, LenProperties DEF IsList
<1>2. script = FlattenSeq(lists)
  BY DEF ScriptNames, ListOfLine
<1>3. ASSUME NEW k \in 1..m
      PROVE  /\ ListOfLine(input.script[k]) \in Seq(S)
             /\ Declares(input.script[k]) = {x.name : x \in Range(ListOfLine(input.script[k]))}
  <2>1. Range(ListOfLine(input.script[k])) \subseteq S
    OBVIOUS
  <2> HIDE DEF S
  <2> QED
    BY <2>1, LineDeclares
<1> HIDE DEF S
<1>4. lists \in [1..m -> Seq(S)] /\ \A k \in 1..m : lists[k] = ListOfLine(input.script[k])
  BY <1>1, <1>3
<1> HIDE DEF lists
<1>5. lists \in Seq(Seq(S)) /\ Len(lists) = m
  BY <1>1, <1>4, ListOf
<1>6. script \in Seq(S)
  BY <1>2, <1>5, FlattenType
<1>7. Holds(script, lists, m)
  <2>1. Holds(FlattenSeq(lists), lists, Len(lists))
    BY <1>5, FlattenRange
  <2> QED
    BY <1>2, <1>5, <2>1
<1> HIDE DEF script
<1>8. Len(script) \in Nat /\ DOMAIN script = 1..Len(script)
  BY <1>6, LenProperties
<1>9. n \in Wrote(m) <=> \E x \in Range(script) : x.name = n
  <2>1. n \in Wrote(m) <=> \E k \in 1..m : n \in Declares(input.script[k])
    BY DEF Wrote
  <2>2. ASSUME NEW k \in 1..m
        PROVE  n \in Declares(input.script[k]) <=> \E x \in Range(lists[k]) : x.name = n
    <3>1. /\ lists[k] = ListOfLine(input.script[k])
          /\ Declares(input.script[k]) = {x.name : x \in Range(ListOfLine(input.script[k]))}
      BY <1>3, <1>4
    <3> QED
      BY <3>1
  <2>3. \A x : x \in Range(script) <=> \E k \in 1..m : x \in Range(lists[k])
    BY <1>7 DEF Holds
  <2> QED
    BY <2>1, <2>2, <2>3
<1>10. I # {} <=> \E x \in Range(script) : x.name = n
  BY <1>8 DEF Range
<1>11. s = IF I # {} THEN Max(I) ELSE 0
  BY DEF SelectLastInSeq
<1>12. I # {} => s # 0
  <2>1. I \in SUBSET (1..Len(script)) /\ I \in SUBSET Nat /\ 0 \notin I
    BY <1>8
  <2>2. IsFiniteSet(I)
    <3>1. IsFiniteSet(1..Len(script))
      BY <1>8, FS_Interval
    <3> QED
      BY <2>1, <3>1, FS_Subset
  <2> HIDE DEF I
  <2>3. I # {} => Max(I) \in I
    BY <2>1, <2>2, MaxIs
  <2> QED
    BY <1>11, <2>1, <2>3
<1> HIDE DEF I, s
<1>13. s # 0 <=> n \in Wrote(m)
  BY <1>9, <1>10, <1>11, <1>12
<1>14. Meaning(input, n).import <=> s # 0
  <2>1. s # 0 => Meaning(input, n).import
    BY DEF Meaning, s, script
  <2>2. s = 0 => ~Meaning(input, n).import
    BY DEF Meaning, s, script, Inside, Unknown
  <2> QED
    BY <2>1, <2>2
<1> QED
  BY <1>13, <1>14

\* A name that the script or one of the first i inputs declares.
IsDeclared(n, i) ==
  \/ n \in Wrote(Len(input.script))
  \/ \E j \in 1..i : \E q \in Range(PublicOf(j)) : q.name = n

\* What an input is the first to declare.
Own(i) == {p \in FirstsOf(PublicOf(i)) : ~IsDeclared(p.name, i - 1)}

LEMMA DeclaredIs ==
  ASSUME input \in Inputs, NEW p
  PROVE  p \in Declared <=> \E i \in Files : p \in Own(i)
<1> DEFINE public == PublicNames(input)
           n == Objects(input)
           lists == [i \in Files |-> PublicOf(i)]
           import(x) == x.name \in Wrote(Len(input.script))
<1>1. n \in Nat /\ Files = 1..n
  BY InputParts
<1>2. public = FlattenSeq(lists)
  BY DEF PublicNames, PublicOf, OfObject, RowOf, Files
<1>3. lists \in [1..n -> Seq(RowSet)] /\ \A i \in 1..n : lists[i] = PublicOf(i)
  BY <1>1, PublicIs
<1> HIDE DEF lists
<1>4. lists \in Seq(Seq(RowSet)) /\ Len(lists) = n
  <2> HIDE DEF n
  <2> QED
    BY <1>1, <1>3, ListOf
<1>5. public \in Seq(RowSet)
  BY <1>2, <1>4, FlattenType
<1>6. Declared = {x \in Range(public) : ~Meaning(input, x.name).import /\ x = public[FirstNamed(public, x.name)]}
  BY DEF Declared, DeclaredIn, FirstNamed
<1> HIDE DEF public
<1>7. p \in Declared <=> p \in FirstsOf(public) /\ ~import(p)
  <2>1. Meaning(input, p.name).import <=> import(p)
    BY ImportedNames
  <2>2. (p \in Range(public) /\ p = public[FirstNamed(public, p.name)]) <=> p \in FirstsOf(public)
    BY <1>5, FirstsAre
  <2> HIDE DEF import
  <2> QED
    BY <1>6, <2>1, <2>2
<1>8. p \in FirstsOf(public) <=>
        \E k \in 1..n : /\ p \in FirstsOf(lists[k])
                        /\ \A j \in 1..(k - 1) : \A q \in Range(lists[j]) : q.name # p.name
  <2>1. FirstsOf(public) =
          UNION {{x \in FirstsOf(lists[k]) :
                    \A j \in 1..(k - 1) : \A q \in Range(lists[j]) : q.name # x.name} : k \in 1..Len(lists)}
    BY <1>2, <1>4, FlattenFirsts
  <2> HIDE DEF n
  <2> QED
    BY <1>4, <2>1
<1> HIDE DEF n
<1>9. ASSUME NEW k \in 1..n
      PROVE  p \in Own(k) <=>
               /\ p \in FirstsOf(lists[k]) /\ ~import(p)
               /\ \A j \in 1..(k - 1) : \A q \in Range(lists[j]) : q.name # p.name
  <2>1. lists[k] = PublicOf(k) /\ \A j \in 1..(k - 1) : lists[j] = PublicOf(j)
    <3>1. \A j \in 1..(k - 1) : j \in 1..n
      BY <1>1
    <3> QED
      BY <1>3, <3>1
  <2> QED
    BY <2>1 DEF Own, IsDeclared
<1> HIDE DEF import
<1> QED
  BY <1>1, <1>7, <1>8, <1>9

\* A row says of which input it is.
LEMMA OwnRows ==
  ASSUME input \in Inputs, NEW i \in Files, NEW p \in Own(i)
  PROVE  p \in RowSet /\ p.input = i /\ p.const \in BOOLEAN
<1>1. PICK k \in 1..Len(PublicOf(i)) : p = PublicOf(i)[k]
  BY DEF Own, FirstsOf
<1>2. /\ p = RowOf(OfObject(i)[k], i) /\ k \in 1..Len(OfObject(i)) /\ OfObject(i) \in Seq(PublicName)
      /\ PublicOf(i) \in Seq(RowSet)
  BY <1>1, PublicIs
<1>3. OfObject(i)[k] \in PublicName /\ p \in RowSet
  BY <1>1, <1>2, ElementOfSeq
<1> QED
  BY <1>2, <1>3 DEF RowOf, PublicName

\* What the symbols of an input say, and what they should.
Entry(s) == [name |-> s.name, offset |-> s.offset, const |-> s.constant]
OwnEntries(i) == {[name |-> p.name, offset |-> p.offset, const |-> p.const] : p \in Own(i)}
Listed(syms, list, i) ==
  /\ Range(list) \subseteq 1..Len(syms)
  /\ {Entry(syms[s]) : s \in Range(list)} = OwnEntries(i)

NamesUpTo(i) ==
  Wrote(Len(input.script)) \cup UNION {{q.name : q \in Range(PublicOf(j))} : j \in 1..i}

\* The table has exactly the names that were declared up to now; each input's
\* symbols are what it was the first to declare; the map is made of these.
TableInv ==
  /\ pc = "script" => line <= Len(input.script) + 1 /\ DOMAIN symtab = Wrote(line - 1)
  /\ pc = "symbols" => DOMAIN symtab = NamesUpTo(file - 1)
  /\ pc \notin {"script"} \cup Ended =>
       \A i \in Files : (pc = "symbols" => i < file) => Listed(symbols, segments[i].symbols, i)
  /\ pc \notin Ended => map = NoMap
  /\ MapTells

LEMMA NamesAre ==
  ASSUME NEW n, NEW i
  PROVE  n \in NamesUpTo(i) <=> IsDeclared(n, i)
<1>1. n \in NamesUpTo(i) <=>
        \/ n \in Wrote(Len(input.script))
        \/ \E j \in 1..i : n \in {q.name : q \in Range(PublicOf(j))}
  BY DEF NamesUpTo
<1>2. \A j \in 1..i : n \in {q.name : q \in Range(PublicOf(j))} <=> \E q \in Range(PublicOf(j)) : q.name = n
  OBVIOUS
<1> QED
  BY <1>1, <1>2 DEF IsDeclared

\* The new names of an input are those of the rows that it is the first to
\* declare.
LEMMA OwnNames ==
  ASSUME input \in Inputs, NEW i \in Files, DOMAIN symtab = NamesUpTo(i - 1)
  PROVE  /\ \A p : p \in Own(i) <=> \E q \in Range(NewNames(OfObject(i))) : p = RowOf(q, i)
         /\ NamesUpTo(i) = DOMAIN symtab \cup {q.Name : q \in Range(NewNames(OfObject(i)))}
<1> DEFINE names == OfObject(i)
           rows == PublicOf(i)
           n == Len(names)
           new == NewNames(names)
           first(j) == \A k \in 1..(j - 1) : names[k].Name # names[j].Name
<1>1. /\ names \in Seq(PublicName) /\ rows \in Seq(RowSet) /\ Len(rows) = n /\ n \in Nat
      /\ \A k \in 1..n : rows[k] = RowOf(names[k], i)
  BY PublicIs
<1>2. i \in Nat \ {0}
  BY InputParts
<1>3. \A q : q \in Range(new) <=>
               \E j \in 1..n : q = names[j] /\ names[j].Name \notin DOMAIN symtab /\ first(j)
  BY <1>1, NewNamesAre
<1> HIDE DEF names, rows, n, new
<1>4. \A j \in 1..n : rows[j].name = names[j].Name
  BY <1>1 DEF RowOf
<1>5. ASSUME NEW j \in 1..n PROVE FirstAt(rows, j) <=> first(j)
  <2>1. \A k \in 1..(j - 1) : k \in 1..n
    BY <1>1
  <2> QED
    BY <1>4, <2>1 DEF FirstAt
<1> HIDE DEF first
<1>6. \A p : p \in Own(i) <=>
               \E j \in 1..n : p = rows[j] /\ first(j) /\ names[j].Name \notin DOMAIN symtab
  <2>1. \A x : x \in DOMAIN symtab <=> IsDeclared(x, i - 1)
    BY NamesAre
  <2>2. \A p : p \in Own(i) <=> p \in FirstsOf(rows) /\ p.name \notin DOMAIN symtab
    BY <2>1 DEF Own, rows
  <2>3. \A p : p \in FirstsOf(rows) <=> \E j \in 1..n : p = rows[j] /\ first(j)
    BY <1>1, <1>5 DEF FirstsOf
  <2> QED
    BY <1>4, <2>2, <2>3
<1>7. \A p : p \in Own(i) <=> \E q \in Range(new) : p = RowOf(q, i)
  BY <1>1, <1>3, <1>6
<1>8. ASSUME NEW x
      PROVE  x \in NamesUpTo(i) <=> x \in DOMAIN symtab \/ \E q \in Range(new) : q.Name = x
  <2>1. x \in NamesUpTo(i) <=> x \in NamesUpTo(i - 1) \/ \E q \in Range(rows) : q.name = x
    <3>1. 1..i = 1..(i - 1) \cup {i}
      BY <1>2
    <3>2. x \in NamesUpTo(i) <=> IsDeclared(x, i)
      BY NamesAre
    <3>3. x \in NamesUpTo(i - 1) <=> IsDeclared(x, i - 1)
      BY NamesAre
    <3> QED
      BY <3>1, <3>2, <3>3 DEF IsDeclared, rows
  <2>2. (\E q \in Range(rows) : q.name = x) <=> \E j \in 1..n : names[j].Name = x
    <3>1. DOMAIN rows = 1..n
      BY <1>1, LenProperties
    <3> QED
      BY <1>4, <3>1 DEF Range
  <2>3. (\E j \in 1..n : names[j].Name = x) <=> \E j \in 1..n : names[j].Name = x /\ first(j)
    <3>1. ASSUME NEW k \in 1..n, names[k].Name = x PROVE \E j \in 1..n : names[j].Name = x /\ first(j)
      <4>1. PICK j \in 1..n : rows[j].name = rows[k].name /\ FirstAt(rows, j)
        BY <1>1, FirstHere
      <4> QED
        BY <1>4, <1>5, <3>1, <4>1
    <3> QED
      BY <3>1
  <2> QED
    BY <1>3, <2>1, <2>2, <2>3
<1>9. NamesUpTo(i) = DOMAIN symtab \cup {q.Name : q \in Range(new)}
  BY <1>8
<1> QED
  BY <1>7, <1>9 DEF new, names

LEMMA BoundNames ==
  ASSUME NEW new
  PROVE  DOMAIN Bound(new) = DOMAIN symtab \cup {new[i].name : i \in DOMAIN new}
BY DEF Bound

\* A line of the script that is accepted binds the names that it declares.
LEMMA LineBinds ==
  ASSUME LinkInv, BlankLine \/ scriptModule \/ scriptRelocSegment \/ scriptRelocSymbol
  PROVE  /\ pc = "script" /\ pc' \in {"script", "failed"} /\ map' = map
         /\ line \in 1..Len(input.script)
         /\ pc' = "script" => line' = line + 1 /\ DOMAIN symtab' = DOMAIN symtab \cup Declares(Line)
<1>1. /\ input \in Inputs /\ line \in Nat \ {0} /\ SymbolsInv
      /\ pc = "script" /\ map' = map /\ line <= Len(input.script)
  BY DEF LinkInv, PlaceInv, BlankLine, scriptModule, scriptRelocSegment, scriptRelocSymbol,
    Reading, OutsideScript
<1>2. line \in 1..Len(input.script)
  BY <1>1, InputParts
<1>3. LineOK(Line)
  BY <1>1, <1>2, InputParts DEF Line
<1>4. CASE BlankLine
  <2>1. Line.cmd = "blank" /\ symtab' = symtab /\ pc' = "script" /\ line' = line + 1
    BY <1>4 DEF BlankLine, Reading, NextLine, scriptVars
  <2>2. Declares(Line) = {}
    BY <2>1 DEF Declares
  <2> QED
    BY <1>1, <1>2, <2>1, <2>2
<1>5. CASE scriptRelocSegment
  <2>1. /\ Line.cmd = "RELOC" /\ ToSegment(Line) /\ symtab' = symtab
        /\ pc' \in {"script", "failed"} /\ (pc' = "script" => line' = line + 1)
    BY <1>5 DEF scriptRelocSegment, Reading, NextLine, Fail
  <2>2. Declares(Line) = {}
    BY <2>1 DEF Declares
  <2> QED
    BY <1>1, <1>2, <2>1, <2>2
<1>6. CASE scriptModule
  <2> DEFINE mods == addModule(Line.num, Line.name)
             m == SelectInSeq(mods, LAMBDA x : x.name = Line.name)
             names == [i \in DOMAIN Line.file.names |->
                         LET n == Line.file.names[i]
                         IN  Imported(<<Line.name>> \o n.name, m, n.ordinal, n.equate)]
  <2>1. Line.cmd = "MODULE"
    BY <1>6 DEF scriptModule, Reading
  <2>2. \/ pc' = "failed"
        \/ pc' = "script" /\ line' = line + 1 /\ ~Line.file.given /\ symtab' = symtab
        \/ pc' = "script" /\ line' = line + 1 /\ symtab' = Bound(names)
    BY <1>6, Zenon DEF scriptModule, NextLine, Fail, scriptVars, AddSymbols
  <2>3. Declares(Line) = {<<Line.name>> \o Line.file.names[i].name : i \in DOMAIN Line.file.names}
    BY <2>1 DEF Declares
  <2>4. ~Line.file.given => Declares(Line) = {}
    BY <1>3, <2>1, <2>3, EmptySeq DEF LineOK
  <2>5. {names[i].name : i \in DOMAIN names} = Declares(Line)
    <3>1. DOMAIN names = DOMAIN Line.file.names
      OBVIOUS
    <3>2. \A i \in DOMAIN Line.file.names : names[i].name = <<Line.name>> \o Line.file.names[i].name
      BY DEF Imported
    <3> HIDE DEF names
    <3> QED
      BY <2>3, <3>1, <3>2
  <2> HIDE DEF names
  <2>6. DOMAIN Bound(names) = DOMAIN symtab \cup Declares(Line)
    BY <2>5, BoundNames
  <2> QED
    BY <1>1, <1>2, <2>2, <2>4, <2>6
<1>7. CASE scriptRelocSymbol
  <2> DEFINE m == ModuleNamed(Line.mod)
             new == <<Imported(Line.to, m, Line.number, FALSE)>>
  <2>1. Line.cmd = "RELOC" /\ ~ToSegment(Line)
    BY <1>7 DEF scriptRelocSymbol, Reading
  <2>2. \/ pc' = "failed"
        \/ pc' = "script" /\ line' = line + 1 /\ ~Line.ordinal /\ symtab' = symtab
        \/ pc' = "script" /\ line' = line + 1 /\ Line.ordinal /\ symtab' = Bound(new)
    BY <1>7, Zenon DEF scriptRelocSymbol, NextLine, Fail, AddSymbols
  <2>3. Declares(Line) = IF Line.ordinal THEN {Line.to} ELSE {}
    BY <2>1 DEF Declares
  <2>4. {new[i].name : i \in DOMAIN new} = {Line.to}
    <3> DEFINE s == Imported(Line.to, m, Line.number, FALSE)
    <3>1. s.name = Line.to
      BY DEF Imported
    <3> HIDE DEF s
    <3>2. DOMAIN <<s>> = 1..1 /\ <<s>>[1] = s
      OBVIOUS
    <3>3. {<<s>>[i].name : i \in DOMAIN <<s>>} = {Line.to}
      BY <3>1, <3>2
    <3> QED
      BY <3>3 DEF s
  <2> HIDE DEF new
  <2>5. DOMAIN Bound(new) = DOMAIN symtab \cup {Line.to}
    BY <2>4, BoundNames
  <2> QED
    BY <1>1, <1>2, <2>2, <2>3, <2>5
<1> QED
  BY <1>4, <1>5, <1>6, <1>7

LEMMA WroteLine ==
  ASSUME NEW l \in Nat \ {0}
  PROVE  Wrote(l) = Wrote(l - 1) \cup Declares(input.script[l])
<1>1. 1..l = 1..(l - 1) \cup {l}
  OBVIOUS
<1> QED
  BY <1>1 DEF Wrote

LEMMA ScriptTells ==
  ASSUME LinkInv, TableInv, Next,
         BlankLine \/ scriptModule \/ scriptRelocSegment \/ scriptRelocSymbol
  PROVE  TableInv'
<1>1. /\ pc = "script" /\ pc' \in {"script", "failed"} /\ map' = map
      /\ line \in 1..Len(input.script)
      /\ pc' = "script" => line' = line + 1 /\ DOMAIN symtab' = DOMAIN symtab \cup Declares(Line)
  BY LineBinds
<1>2. input' = input /\ Len(input.script) \in Nat
  BY InputStays, InputParts DEF LinkInv, PlaceInv
<1>3. map = NoMap /\ map' = NoMap /\ DOMAIN symtab = Wrote(line - 1)
  BY <1>1 DEF TableInv, Ended
<1>4. pc' = "script" => line' <= Len(input.script) + 1 /\ line' - 1 = line /\ DOMAIN symtab' = Wrote(line)
  <2>1. line \in Nat \ {0} /\ line + 1 <= Len(input.script) + 1 /\ (line + 1) - 1 = line
    BY <1>1, <1>2
  <2>2. Wrote(line) = Wrote(line - 1) \cup Declares(Line)
    BY <2>1, WroteLine DEF Line
  <2> QED
    BY <1>1, <1>3, <2>1, <2>2
<1>5. pc' = "script" => (DOMAIN symtab = Wrote(line - 1))'
  <2> SUFFICES ASSUME pc' = "script" PROVE (DOMAIN symtab = Wrote(line - 1))'
    OBVIOUS
  <2>1. (Wrote(line - 1))' = UNION {Declares(input.script[k]) : k \in 1..(line' - 1)}
    BY <1>2 DEF Wrote
  <2>2. (Wrote(line - 1))' = Wrote(line)
    BY <1>4, <2>1 DEF Wrote
  <2> QED
    BY <1>4, <2>2
<1>6. (map = NoMap)' /\ MapTells'
  BY <1>3 DEF MapTells, NoMap
<1> QED
  BY <1>1, <1>2, <1>4, <1>5, <1>6 DEF TableInv, Ended

\* Symbols that are added leave the earlier ones alone.
LEMMA StillTold ==
  ASSUME symbols \in Seq(SymbolSet), SymbolsKnown(symtab, symbols), NEW new \in Seq(SymbolSet),
         NEW list, NEW i, Listed(symbols, list, i)
  PROVE  Listed(symbols \o new, list, i)
<1> DEFINE all == symbols \o new
<1>1. /\ Len(all) = Len(symbols) + Len(new) /\ \A s \in 1..Len(symbols) : all[s] = symbols[s]
      /\ Len(symbols) \in Nat /\ Len(new) \in Nat
  BY AddedSymbols, LenProperties
<1> HIDE DEF all
<1>2. Range(list) \subseteq 1..Len(all)
  BY <1>1 DEF Listed
<1>3. \A s \in Range(list) : all[s] = symbols[s]
  BY <1>1 DEF Listed
<1>4. {Entry(all[s]) : s \in Range(list)} = {Entry(symbols[s]) : s \in Range(list)}
  BY <1>3
<1> QED
  BY <1>2, <1>4 DEF Listed, all

LocalsOf(names, s) ==
  [i \in DOMAIN names |-> Local(names[i].Name, s, names[i].Offset, names[i].Const)]
EntryOf(q) == [name |-> q.Name, offset |-> q.Offset, const |-> q.Const]

LEMMA LocalsAre ==
  ASSUME NEW names \in Seq(PublicName), NEW s
  PROVE  /\ DOMAIN LocalsOf(names, s) = 1..Len(names)
         /\ \A k \in 1..Len(names) : Entry(LocalsOf(names, s)[k]) = EntryOf(names[k])
         /\ {LocalsOf(names, s)[k].name : k \in DOMAIN LocalsOf(names, s)} = {q.Name : q \in Range(names)}
<1> DEFINE n == Len(names)
           new == LocalsOf(names, s)
<1>1. n \in Nat /\ DOMAIN names = 1..n
  BY LenProperties
<1> HIDE DEF n
<1>2. new = [k \in 1..n |-> Local(names[k].Name, s, names[k].Offset, names[k].Const)]
  BY <1>1 DEF LocalsOf
<1> HIDE DEF new
<1>3. DOMAIN new = 1..n
  BY <1>2
<1>4. \A k \in 1..n : new[k] = Local(names[k].Name, s, names[k].Offset, names[k].Const)
  BY <1>2
<1>5. \A k \in 1..n : new[k].name = names[k].Name /\ Entry(new[k]) = EntryOf(names[k])
  <2>1. ASSUME NEW q
        PROVE  LET x == Local(q.Name, s, q.Offset, q.Const)
               IN  x.name = q.Name /\ Entry(x) = EntryOf(q)
    BY DEF Local, Entry, EntryOf
  <2> QED
    BY <1>4, <2>1
<1>6. ASSUME NEW x
      PROVE  x \in {new[k].name : k \in DOMAIN new} <=> x \in {q.Name : q \in Range(names)}
  <2>1. x \in {new[k].name : k \in DOMAIN new} <=> \E k \in 1..n : x = names[k].Name
    BY <1>3, <1>5
  <2>2. x \in {q.Name : q \in Range(names)} <=> \E k \in 1..n : x = names[k].Name
    BY <1>1 DEF Range
  <2> QED
    BY <2>1, <2>2
<1>7. {new[k].name : k \in DOMAIN new} = {q.Name : q \in Range(names)}
  BY <1>6
<1> QED
  BY <1>3, <1>5, <1>7 DEF n, new

\* The entries of a list are those of the names it was made from.
LEMMA EntriesAre ==
  ASSUME NEW names \in Seq(PublicName), NEW i,
         \A p : p \in Own(i) <=> \E q \in Range(names) : p = RowOf(q, i)
  PROVE  OwnEntries(i) = {EntryOf(names[k]) : k \in 1..Len(names)}
<1> DEFINE n == Len(names)
           entry(p) == [name |-> p.name, offset |-> p.offset, const |-> p.const]
<1>1. n \in Nat /\ DOMAIN names = 1..n
  BY LenProperties
<1> HIDE DEF n
<1>2. ASSUME NEW q PROVE entry(RowOf(q, i)) = EntryOf(q)
  BY DEF RowOf, EntryOf
<1>3. OwnEntries(i) = {entry(p) : p \in Own(i)}
  BY DEF OwnEntries
<1> HIDE DEF entry
<1>4. ASSUME NEW e \in OwnEntries(i) PROVE e \in {EntryOf(names[k]) : k \in 1..n}
  <2>1. PICK p \in Own(i) : e = entry(p)
    BY <1>3, <1>4
  <2>2. PICK q \in Range(names) : p = RowOf(q, i)
    BY <2>1
  <2>3. PICK k \in 1..n : q = names[k]
    BY <1>1, <2>2 DEF Range
  <2> QED
    BY <1>2, <2>1, <2>2, <2>3
<1>5. ASSUME NEW k \in 1..n PROVE EntryOf(names[k]) \in OwnEntries(i)
  <2>1. names[k] \in Range(names)
    BY <1>1 DEF Range
  <2>2. RowOf(names[k], i) \in Own(i)
    BY <2>1
  <2> QED
    BY <1>2, <1>3, <2>2
<1> QED
  BY <1>4, <1>5 DEF n

\* What is added behind a table's symbols is listed by its places.
LEMMA PlacesAre ==
  ASSUME symbols \in Seq(SymbolSet), SymbolsKnown(symtab, symbols), NEW new \in Seq(SymbolSet),
         NEW n \in Nat, Len(new) = n, NEW i, OwnEntries(i) = {Entry(new[k]) : k \in 1..n}
  PROVE  Listed(symbols \o new, [k \in 1..n |-> Len(symbols) + k], i)
<1> DEFINE l == Len(symbols)
           own == [k \in 1..n |-> l + k]
           all == symbols \o new
<1>1. /\ Len(all) = l + n /\ l \in Nat /\ \A k \in 1..n : all[l + k] = new[k]
  BY AddedSymbols, LenProperties
<1>2. DOMAIN own = 1..n /\ \A k \in 1..n : own[k] = l + k
  OBVIOUS
<1> HIDE DEF all, l, own
<1>3. Range(own) = {l + k : k \in 1..n}
  BY <1>2 DEF Range
<1>4. Range(own) \subseteq 1..Len(all)
  BY <1>1, <1>3
<1>5. ASSUME NEW e
      PROVE  e \in {Entry(all[s]) : s \in Range(own)} <=> e \in {Entry(all[l + k]) : k \in 1..n}
  BY <1>3
<1>6. {Entry(all[l + k]) : k \in 1..n} = {Entry(new[k]) : k \in 1..n}
  BY <1>1
<1> QED
  BY <1>4, <1>5, <1>6 DEF Listed, all, own, l

\* loadSymbols lists what an input is the first to declare.
NamesHere == NewNames(ReadObjNames(Object))
NewHere == LocalsOf(NamesHere, seg.num)
LEMMA LoadTells ==
  ASSUME LinkInv, TableInv, pc = "symbols", file <= Len(input.objects)
  PROVE  /\ DOMAIN Bound(NewHere) = NamesUpTo(file) /\ NewHere \in Seq(SymbolSet)
         /\ Listed(symbols \o NewHere, [i \in DOMAIN NewHere |-> Len(symbols) + i], file)
<1>1. input \in Inputs /\ file \in Files /\ DOMAIN symtab = NamesUpTo(file - 1)
  BY InputParts DEF LinkInv, PlaceInv, Objects, TableInv
<1>2. /\ \A p : p \in Own(file) <=> \E q \in Range(NamesHere) : p = RowOf(q, file)
      /\ NamesUpTo(file) = DOMAIN symtab \cup {q.Name : q \in Range(NamesHere)}
  BY <1>1, OwnNames DEF OfObject, Object, NamesHere
<1>3. NamesHere \in Seq({p \in PublicName : p.Name \notin DOMAIN symtab})
  BY <1>1, ObjNamesType, NewNamesType DEF Object, NamesHere
<1>4. NamesHere \in Seq(PublicName)
  BY <1>3
<1> DEFINE n == Len(NamesHere)
<1>5. n \in Nat
  BY <1>4, LenProperties
<1>6. /\ DOMAIN NewHere = 1..n /\ \A k \in 1..n : Entry(NewHere[k]) = EntryOf(NamesHere[k])
      /\ {NewHere[k].name : k \in DOMAIN NewHere} = {q.Name : q \in Range(NamesHere)}
  BY <1>4, LocalsAre DEF NewHere
<1>7. NewHere \in Seq(SymbolSet)
  BY LoadedSymbols DEF NewHere, LocalsOf, NamesHere
<1>8. Len(NewHere) = n
  BY <1>5, <1>6, <1>7, LenProperties
<1> HIDE DEF n
<1>9. DOMAIN Bound(NewHere) = NamesUpTo(file)
  <2>1. DOMAIN Bound(NewHere) = DOMAIN symtab \cup {NewHere[k].name : k \in DOMAIN NewHere}
    BY BoundNames
  <2> QED
    BY <1>2, <1>6, <2>1
<1>10. OwnEntries(file) = {Entry(NewHere[k]) : k \in 1..n}
  <2>1. OwnEntries(file) = {EntryOf(NamesHere[k]) : k \in 1..n}
    BY <1>2, <1>4, EntriesAre DEF n
  <2> QED
    BY <1>6, <2>1
<1>11. Listed(symbols \o NewHere, [i \in 1..n |-> Len(symbols) + i], file)
  BY <1>5, <1>7, <1>8, <1>10, PlacesAre DEF LinkInv, SymbolsInv
<1> QED
  BY <1>6, <1>7, <1>9, <1>11

\* The symbols of an input that the map lists.
LEMMA ExportedAre ==
  ASSUME NEW i, segments[i].symbols \in Seq(Nat), NEW c
  PROVE  /\ Exported(i, c) \in Seq(Nat)
         /\ Range(Exported(i, c)) = {s \in Range(segments[i].symbols) : symbols[s].constant = c}
<1> DEFINE list == segments[i].symbols
           n == Len(list)
           one(k) == IF symbols[list[k]].constant = c THEN <<list[k]>> ELSE <<>>
           lists == [k \in DOMAIN list |-> one(k)]
<1>1. n \in Nat /\ DOMAIN list = 1..n /\ \A k \in 1..n : list[k] \in Nat
  BY LenProperties, ElementOfSeq
<1>2. Exported(i, c) = FlattenSeq(lists)
  BY DEF Exported
<1> HIDE DEF list
<1>3. ASSUME NEW k \in 1..n, NEW s
      PROVE  /\ one(k) \in Seq(Nat)
             /\ s \in Range(one(k)) <=> s = list[k] /\ symbols[list[k]].constant = c
  <2>1. CASE symbols[list[k]].constant = c
    <3>1. one(k) = <<list[k]>> /\ list[k] \in Nat
      BY <1>1, <2>1
    <3>2. <<list[k]>> \in Seq(Nat) /\ DOMAIN <<list[k]>> = 1..1 /\ <<list[k]>>[1] = list[k]
      BY <3>1
    <3> QED
      BY <2>1, <3>1, <3>2 DEF Range
  <2>2. CASE symbols[list[k]].constant # c
    <3>1. one(k) = <<>> /\ <<>> \in Seq(Nat) /\ Range(<<>>) = {}
      BY <2>2, EmptySeq DEF Range
    <3> QED
      BY <2>2, <3>1
  <2> QED
    BY <2>1, <2>2
<1> HIDE DEF one
<1>4. lists \in [1..n -> Seq(Nat)] /\ \A k \in 1..n : lists[k] = one(k)
  BY <1>1, <1>3
<1> HIDE DEF lists
<1>5. lists \in Seq(Seq(Nat)) /\ Len(lists) = n
  BY <1>1, <1>4, ListOf
<1>6. Holds(FlattenSeq(lists), lists, n) /\ FlattenSeq(lists) \in Seq(Nat)
  <2>1. Holds(FlattenSeq(lists), lists, Len(lists))
    BY <1>5, FlattenRange
  <2>2. FlattenSeq(lists) \in Seq(Nat)
    BY <1>5, FlattenType
  <2> QED
    BY <1>5, <2>1, <2>2
<1>7. ASSUME NEW s
      PROVE  s \in Range(FlattenSeq(lists)) <=> s \in Range(list) /\ symbols[s].constant = c
  <2>1. s \in Range(FlattenSeq(lists)) <=> \E k \in 1..n : s \in Range(one(k))
    BY <1>4, <1>6 DEF Holds
  <2>2. s \in Range(FlattenSeq(lists)) <=> \E k \in 1..n : s = list[k] /\ symbols[list[k]].constant = c
    BY <1>3, <2>1
  <2> QED
    BY <1>1, <2>2 DEF Range
<1>8. Range(FlattenSeq(lists)) = {s \in Range(list) : symbols[s].constant = c}
  BY <1>7
<1> QED
  BY <1>2, <1>6, <1>8 DEF list

\* They are the rows that the input is the first to declare.
RowEntry(p) == [name |-> p.name, offset |-> p.offset, const |-> p.const]

LEMMA ExportedTell ==
  ASSUME LinkInv, TableInv, pc = "open", NEW i \in Files, NEW c \in BOOLEAN, NEW e
  PROVE  (\E s \in Range(Exported(i, c)) : e = Entry(symbols[s]))
           <=> \E p \in Declared : p.input = i /\ p.const = c /\ e = RowEntry(p)
<1>1. /\ input \in Inputs /\ segments[i].symbols \in Seq(Nat)
      /\ Listed(symbols, segments[i].symbols, i)
  BY DEF LinkInv, PlaceInv, SegmentsInv, SegmentSet, TableInv, Ended
<1>2. Range(Exported(i, c)) = {s \in Range(segments[i].symbols) : symbols[s].constant = c}
  BY <1>1, ExportedAre
<1>3. (\E s \in Range(Exported(i, c)) : e = Entry(symbols[s]))
        <=> \E s \in Range(segments[i].symbols) : symbols[s].constant = c /\ e = Entry(symbols[s])
  BY <1>2
<1>4. \A s : Entry(symbols[s]).const = symbols[s].constant
  BY DEF Entry
<1>5. (\E s \in Range(Exported(i, c)) : e = Entry(symbols[s]))
        <=> e.const = c /\ \E s \in Range(segments[i].symbols) : e = Entry(symbols[s])
  BY <1>3, <1>4
<1>6. (\E s \in Range(segments[i].symbols) : e = Entry(symbols[s])) <=> e \in OwnEntries(i)
  BY <1>1 DEF Listed
<1>7. e \in OwnEntries(i) <=> \E p \in Own(i) : e = RowEntry(p)
  BY DEF OwnEntries, RowEntry
<1>8. \A p : p \in Own(i) <=> p \in Declared /\ p.input = i
  <2>1. ASSUME NEW p \in Own(i) PROVE p \in Declared /\ p.input = i
    BY <1>1, DeclaredIs, OwnRows
  <2>2. ASSUME NEW p \in Declared, p.input = i PROVE p \in Own(i)
    <3>1. PICK j \in Files : p \in Own(j)
      BY <1>1, <2>2, DeclaredIs
    <3>2. p.input = j
      BY <1>1, <3>1, OwnRows
    <3> QED
      BY <2>2, <3>1, <3>2
  <2> QED
    BY <2>1, <2>2
<1>9. \A p : RowEntry(p).const = p.const
  BY DEF RowEntry
<1>10. (e.const = c /\ \E p \in Own(i) : e = RowEntry(p))
         <=> \E p \in Declared : p.input = i /\ p.const = c /\ e = RowEntry(p)
  BY <1>8, <1>9
<1> QED
  BY <1>5, <1>6, <1>7, <1>10

\* A row's const is one of the two.
LEMMA ConstKnown ==
  ASSUME input \in Inputs, NEW p \in Declared
  PROVE  p.const \in BOOLEAN /\ p.input \in Files
<1>1. PICK i \in Files : p \in Own(i)
  BY DeclaredIs
<1> QED
  BY <1>1, OwnRows

SectionRows(i, start) ==
  [k \in DOMAIN Exported(i, FALSE) |->
     [name |-> symbols[Exported(i, FALSE)[k]].name,
      virtual |-> symbols[Exported(i, FALSE)[k]].offset,
      real |-> start + symbols[Exported(i, FALSE)[k]].offset]]
LEMMA SectionTells ==
  ASSUME LinkInv, TableInv, pc = "open", NEW i \in Files, NEW start
  PROVE  Range(SectionRows(i, start)) =
           {[name |-> p.name, virtual |-> p.offset, real |-> start + p.offset] :
              p \in {q \in Declared : ~q.const /\ q.input = i}}
<1> DEFINE ex == Exported(i, FALSE)
           row(e) == [name |-> e.name, virtual |-> e.offset, real |-> start + e.offset]
<1>1. input \in Inputs
  BY DEF LinkInv, PlaceInv
<1>2. SectionRows(i, start) = [k \in DOMAIN ex |-> row(Entry(symbols[ex[k]]))]
  BY DEF SectionRows, Entry
<1>3. \A p : row(RowEntry(p)) = [name |-> p.name, virtual |-> p.offset, real |-> start + p.offset]
  BY DEF RowEntry
<1> HIDE DEF ex, row
<1>4. ASSUME NEW x \in Range(SectionRows(i, start))
      PROVE  \E p \in Declared : ~p.const /\ p.input = i /\ x = row(RowEntry(p))
  <2>1. PICK k \in DOMAIN ex : x = row(Entry(symbols[ex[k]]))
    BY <1>2 DEF Range
  <2>2. ex[k] \in Range(ex)
    BY DEF Range
  <2>3. PICK p \in Declared : p.input = i /\ p.const = FALSE /\ Entry(symbols[ex[k]]) = RowEntry(p)
    <3> DEFINE e == Entry(symbols[ex[k]])
               c == FALSE
    <3>1. c \in BOOLEAN /\ \E s \in Range(Exported(i, c)) : e = Entry(symbols[s])
      BY <2>2 DEF ex
    <3> HIDE DEF e, c
    <3>2. \E p \in Declared : p.input = i /\ p.const = c /\ e = RowEntry(p)
      BY <3>1, ExportedTell
    <3> QED
      BY <3>2 DEF e, c
  <2> QED
    BY <2>1, <2>3
<1>5. ASSUME NEW p \in Declared, ~p.const, p.input = i
      PROVE  row(RowEntry(p)) \in Range(SectionRows(i, start))
  <2>1. p.const = FALSE
    BY <1>1, <1>5, ConstKnown
  <2>2. PICK s \in Range(ex) : RowEntry(p) = Entry(symbols[s])
    BY <1>5, <2>1, ExportedTell DEF ex
  <2>3. PICK k \in DOMAIN ex : s = ex[k]
    BY DEF Range
  <2> QED
    BY <1>2, <2>2, <2>3 DEF Range
<1> QED
  BY <1>3, <1>4, <1>5

ConstRows(i) ==
  [k \in DOMAIN Exported(i, TRUE) |->
     [name |-> symbols[Exported(i, TRUE)[k]].name, value |-> symbols[Exported(i, TRUE)[k]].offset]]
LEMMA ConstantsTell ==
  ASSUME LinkInv, TableInv, pc = "open"
  PROVE  Range(FlattenSeq([i \in Files |-> ConstRows(i)])) =
           {[name |-> p.name, value |-> p.offset] : p \in {q \in Declared : q.const}}
<1> DEFINE n == Objects(input)
           row(e) == [name |-> e.name, value |-> e.offset]
           lists == [i \in Files |-> ConstRows(i)]
           S == UNION {Range(ConstRows(i)) : i \in Files}
<1>1. input \in Inputs /\ n \in Nat /\ Files = 1..n
  BY InputParts DEF LinkInv, PlaceInv
<1>2. \A i : ConstRows(i) = [k \in DOMAIN Exported(i, TRUE) |-> row(Entry(symbols[Exported(i, TRUE)[k]]))]
  BY DEF ConstRows, Entry
<1>3. \A p : row(RowEntry(p)) = [name |-> p.name, value |-> p.offset]
  BY DEF RowEntry
<1> HIDE DEF row, n
<1>4. ASSUME NEW i \in Files PROVE ConstRows(i) \in Seq(S)
  <2>1. Exported(i, TRUE) \in Seq(Nat)
    BY ExportedAre DEF LinkInv, SegmentsInv, SegmentSet, PlaceInv
  <2>2. Len(Exported(i, TRUE)) \in Nat /\ DOMAIN Exported(i, TRUE) = 1..Len(Exported(i, TRUE))
    BY <2>1, LenProperties
  <2> DEFINE m == Len(Exported(i, TRUE))
             ex == Exported(i, TRUE)
             list == ConstRows(i)
  <2>3. list \in [1..m -> S]
    <3>1. list = [k \in 1..m |-> row(Entry(symbols[ex[k]]))]
      BY <1>2, <2>2
    <3>2. Range(list) \subseteq S
      OBVIOUS
    <3> HIDE DEF list, m, ex, S
    <3>3. DOMAIN list = 1..m /\ \A k \in 1..m : list[k] = row(Entry(symbols[ex[k]]))
      BY <3>1
    <3>4. \A k \in 1..m : row(Entry(symbols[ex[k]])) \in S
      BY <3>2, <3>3 DEF Range
    <3> QED
      BY <3>1, <3>4
  <2> HIDE DEF S
  <2> QED
    BY <2>2, <2>3, ListOf
<1> HIDE DEF S
<1>5. lists \in [1..n -> Seq(S)] /\ \A i \in 1..n : lists[i] = ConstRows(i)
  BY <1>1, <1>4
<1> HIDE DEF lists
<1>6. lists \in Seq(Seq(S)) /\ Len(lists) = n
  BY <1>1, <1>5, ListOf
<1>7. Holds(FlattenSeq(lists), lists, n)
  <2>1. Holds(FlattenSeq(lists), lists, Len(lists))
    BY <1>6, FlattenRange
  <2> QED
    BY <1>6, <2>1
<1>8. ASSUME NEW x
      PROVE  x \in Range(FlattenSeq(lists)) <=> \E i \in Files : x \in Range(ConstRows(i))
  BY <1>1, <1>5, <1>7 DEF Holds
<1>9. ASSUME NEW i \in Files, NEW x \in Range(ConstRows(i))
      PROVE  \E p \in Declared : p.const /\ x = row(RowEntry(p))
  <2> DEFINE ex == Exported(i, TRUE)
  <2>1. PICK k \in DOMAIN ex : x = row(Entry(symbols[ex[k]]))
    BY <1>2 DEF Range
  <2> HIDE DEF ex
  <2>2. ex[k] \in Range(ex)
    BY DEF Range
  <2>3. PICK p \in Declared : p.input = i /\ p.const = TRUE /\ Entry(symbols[ex[k]]) = RowEntry(p)
    <3> DEFINE e == Entry(symbols[ex[k]])
               c == TRUE
    <3>1. c \in BOOLEAN /\ \E s \in Range(Exported(i, c)) : e = Entry(symbols[s])
      BY <2>2 DEF ex
    <3> HIDE DEF e, c
    <3>2. \E p \in Declared : p.input = i /\ p.const = c /\ e = RowEntry(p)
      BY <3>1, ExportedTell
    <3> QED
      BY <3>2 DEF e, c
  <2> QED
    BY <2>1, <2>3
<1>10. ASSUME NEW p \in Declared, p.const
       PROVE  \E i \in Files : row(RowEntry(p)) \in Range(ConstRows(i))
  <2>1. p.const = TRUE /\ p.input \in Files
    BY <1>1, <1>10, ConstKnown
  <2> DEFINE ex == Exported(p.input, TRUE)
  <2>2. PICK s \in Range(ex) : RowEntry(p) = Entry(symbols[s])
    BY <2>1, ExportedTell
  <2>3. ConstRows(p.input) = [k \in DOMAIN ex |-> row(Entry(symbols[ex[k]]))]
    BY <1>2
  <2> HIDE DEF ex
  <2>4. PICK k \in DOMAIN ex : s = ex[k]
    BY DEF Range
  <2>5. row(RowEntry(p)) \in Range(ConstRows(p.input))
    BY <2>2, <2>3, <2>4 DEF Range
  <2> QED
    BY <2>1, <2>5
<1>11. Range(FlattenSeq(lists)) = {[name |-> p.name, value |-> p.offset] : p \in {q \in Declared : q.const}}
  BY <1>3, <1>8, <1>9, <1>10
<1> QED
  BY <1>11 DEF lists

LEMMA MapRight ==
  ASSUME LinkInv, TableInv, Finish
  PROVE  map' = NoMap \/
           /\ Range((map').constants) =
                {[name |-> p.name, value |-> p.offset] : p \in {q \in Declared : q.const}}
           /\ \A i \in Files :
                Range((map').sections[i]) =
                  {[name |-> p.name, virtual |-> p.offset, real |-> (segments')[i].start + p.offset] :
                     p \in {q \in Declared : ~q.const /\ q.input = i}}
<1>1. pc = "open" /\ (map' = map \/ map' = MapText(Starts)) /\ map = NoMap
      /\ segments' = [i \in Files |-> [segments[i] EXCEPT !.start = Starts[i]]]
  <2>1. pc = "open" /\ (map' = map \/ map' = MapText(Starts))
        /\ segments' = [i \in Files |-> [segments[i] EXCEPT !.start = Starts[i]]]
    BY Zenon DEF Finish
  <2> QED
    BY <2>1 DEF TableInv, Ended
<1>2. segments \in [Files -> SegmentSet]
  BY <1>1 DEF LinkInv, PlaceInv, SegmentsInv
<1>3. \A i \in Files : (segments')[i].start = Starts[i]
  <2> DEFINE at(i) == Starts[i]
  <2>1. segments' = [i \in Files |-> [segments[i] EXCEPT !.start = at(i)]]
    BY <1>1
  <2> HIDE DEF at
  <2>2. \A i \in Files : (segments')[i] = [segments[i] EXCEPT !.start = at(i)]
    BY <2>1
  <2>3. \A i \in Files : (segments')[i].start = at(i)
    BY <1>2, <2>2 DEF SegmentSet
  <2> QED
    BY <2>3 DEF at
<1>4. /\ MapText(Starts).constants = FlattenSeq([i \in Files |-> ConstRows(i)])
      /\ \A i \in Files : MapText(Starts).sections[i] = SectionRows(i, Starts[i])
  BY Zenon DEF MapText, ConstRows, SectionRows
<1>5. CASE map' = MapText(Starts)
  <2>1. Range((map').constants) = {[name |-> p.name, value |-> p.offset] : p \in {q \in Declared : q.const}}
    BY <1>1, <1>4, <1>5, ConstantsTell
  <2>2. ASSUME NEW i \in Files
        PROVE  Range((map').sections[i]) =
                 {[name |-> p.name, virtual |-> p.offset, real |-> (segments')[i].start + p.offset] :
                    p \in {q \in Declared : ~q.const /\ q.input = i}}
    <3> DEFINE at == Starts[i]
    <3>1. (map').sections[i] = SectionRows(i, at) /\ (segments')[i].start = at
      BY <1>3, <1>4, <1>5
    <3> HIDE DEF at
    <3>2. Range(SectionRows(i, at)) =
            {[name |-> p.name, virtual |-> p.offset, real |-> at + p.offset] :
               p \in {q \in Declared : ~q.const /\ q.input = i}}
      BY <1>1, SectionTells
    <3> QED
      BY <3>1, <3>2
  <2> QED
    BY <2>1, <2>2
<1> QED
  BY <1>1, <1>5

\* What is declared depends on the input alone.
LEMMA DeclaredStays ==
  ASSUME input' = input, Files' = Files
  PROVE  /\ Declared' = Declared /\ \A i : (NamesUpTo(i))' = NamesUpTo(i)
         /\ \A i : (OwnEntries(i))' = OwnEntries(i) /\ \A l : (Wrote(l))' = Wrote(l)
<1>1. Declared' = Declared
  BY DEF Declared
<1>2. \A l : (Wrote(l))' = Wrote(l)
  BY DEF Wrote
<1>3. \A i : (PublicOf(i))' = PublicOf(i)
  BY DEF PublicOf, OfObject, RowOf
<1>4. \A i : (NamesUpTo(i))' = NamesUpTo(i)
  BY <1>2, <1>3 DEF NamesUpTo
<1>5. \A n, i : (IsDeclared(n, i))' <=> IsDeclared(n, i)
  BY <1>2, <1>3 DEF IsDeclared
<1>6. \A i : (Own(i))' = Own(i)
  BY <1>3, <1>5 DEF Own
<1>7. \A i : (OwnEntries(i))' = OwnEntries(i)
  BY <1>6 DEF OwnEntries
<1> QED
  BY <1>1, <1>2, <1>4, <1>7

LEMMA FinishTells ==
  ASSUME LinkInv, TableInv, Next, Finish
  PROVE  TableInv'
<1>1. input' = input /\ Files' = Files /\ pc' \in {"done", "failed"}
  BY InputStays DEF Finish
<1>2. Declared' = Declared
  BY <1>1, DeclaredStays
<1>3. MapTells'
  <2>1. CASE map' = NoMap
    BY <2>1 DEF MapTells, NoMap
  <2>2. CASE map' # NoMap
    BY <1>1, <1>2, <2>2, MapRight DEF MapTells
  <2> QED
    BY <2>1, <2>2
<1> QED
  BY <1>1, <1>3 DEF TableInv, Ended

LEMMA EndedStops == ASSUME Next PROVE pc \notin Ended
BY Zenon DEF Next, ReadScript, Patch, BlankLine, UnknownLine, scriptModule, scriptRelocSegment,
  scriptRelocSymbol, BadRelocLine, MakeSegments, Reading, loadSymbols, BeginPatching,
  OpenOutput, DiskFull, OtherRecord, LedataRecord, FixupRecord, BadFixupRecord, AtRecord, SkipFix,
  OffsetFix, ChainFix, Fixing, WriteData, RecordsDone, SortBucket, SortDone, Relink, WriteRelocs,
  LoseRelocs, Finish, Ended

LEMMA ScriptEndsTold ==
  ASSUME LinkInv, TableInv, Next, MakeSegments
  PROVE  TableInv'
<1>1. /\ pc = "script" /\ line > Len(input.script) /\ pc' = "symbols" /\ file' = 1
      /\ map' = map /\ symtab' = symtab
  BY DEF MakeSegments, scriptVars
<1>2. input' = input /\ Files' = Files /\ Len(input.script) \in Nat /\ line \in Nat /\ Files \subseteq Nat \ {0}
  BY InputStays, InputParts DEF LinkInv, PlaceInv
<1>3. map = NoMap /\ line <= Len(input.script) + 1 /\ DOMAIN symtab = Wrote(line - 1)
  BY <1>1 DEF TableInv, Ended
<1>4. line - 1 = Len(input.script)
  BY <1>1, <1>2, <1>3
<1>5. NamesUpTo(0) = Wrote(Len(input.script))
  <2>1. 1..0 = {}
    OBVIOUS
  <2> QED
    BY <2>1 DEF NamesUpTo
<1>6. (DOMAIN symtab = NamesUpTo(file - 1))'
  <2>1. \A i : (NamesUpTo(i))' = NamesUpTo(i)
    BY <1>2, DeclaredStays
  <2>2. (NamesUpTo(file - 1))' = NamesUpTo(file' - 1)
    BY <1>2, <2>1 DEF NamesUpTo, Wrote, PublicOf, OfObject, RowOf
  <2>3. file' - 1 = 0
    BY <1>1
  <2> QED
    BY <1>1, <1>3, <1>4, <1>5, <2>2, <2>3
<1>7. map' = NoMap /\ MapTells' /\ NoMap' = NoMap
  BY <1>1, <1>3 DEF MapTells, NoMap
<1>8. \A i \in Files : ~(i < 1)
  BY <1>2
<1> QED
  BY <1>1, <1>2, <1>6, <1>7, <1>8 DEF TableInv, Ended

LEMMA LoadingDoneTold ==
  ASSUME LinkInv, TableInv, Next, BeginPatching
  PROVE  TableInv'
<1>1. /\ pc = "symbols" /\ file > Len(input.objects) /\ pc' = "open"
      /\ map' = map /\ symbols' = symbols /\ segments' = segments
  BY DEF BeginPatching, scriptVars
<1>2. /\ input' = input /\ Files' = Files /\ Objects(input) \in Nat /\ Files = 1..Objects(input)
      /\ file \in Nat
  BY InputStays, InputParts DEF LinkInv, PlaceInv
<1>3. map = NoMap /\ \A i \in Files : i < file => Listed(symbols, segments[i].symbols, i)
  BY <1>1 DEF TableInv, Ended
<1>4. \A i \in Files : i < file
  BY <1>1, <1>2 DEF Objects
<1>5. \A i \in Files : Listed(symbols, segments[i].symbols, i)'
  <2>1. \A i : (OwnEntries(i))' = OwnEntries(i)
    BY <1>2, DeclaredStays
  <2> QED
    BY <1>1, <1>3, <1>4, <2>1 DEF Listed
<1>6. map' = NoMap /\ MapTells' /\ NoMap' = NoMap
  BY <1>1, <1>3 DEF MapTells, NoMap
<1> QED
  BY <1>1, <1>2, <1>5, <1>6 DEF TableInv, Ended

LEMMA LoadStep ==
  ASSUME LinkInv, TableInv, Next, loadSymbols
  PROVE  TableInv'
<1>1. /\ pc = "symbols" /\ file <= Len(input.objects) /\ map' = map
      /\ input' = input /\ Files' = Files /\ file \in Files /\ file \in Nat /\ Files \subseteq Nat
      /\ segments \in [Files -> SegmentSet] /\ file # 0
  BY InputStays, InputParts DEF LinkInv, PlaceInv, SegmentsInv, loadSymbols, Objects
<1>2. map' = NoMap /\ MapTells' /\ NoMap' = NoMap
  BY <1>1 DEF MapTells, NoMap, TableInv, Ended
<1>3. CASE ~AllRead(Object)
  <2>1. pc' = "failed"
    BY <1>3 DEF loadSymbols
  <2> QED
    BY <1>2, <2>1 DEF TableInv, Ended
<1>4. CASE AllRead(Object)
  <2> DEFINE new == NewHere
             own == [i \in DOMAIN new |-> Len(symbols) + i]
             all == symbols \o new
             names == NamesUpTo(file)
  <2>1. /\ symbols' = all /\ symtab' = Bound(new) /\ pc' = "symbols" /\ file' = file + 1
        /\ segments' = [segments EXCEPT ![file].extnames = ReadExternalNames(Object),
                                        ![file].symbols = own]
    BY <1>4 DEF loadSymbols, AddSymbols, NewHere, NamesHere, LocalsOf
  <2>2. DOMAIN Bound(new) = names /\ new \in Seq(SymbolSet) /\ Listed(all, own, file)
    BY <1>1, LoadTells
  <2>3. \A i \in Files : (segments')[i].symbols = IF i = file THEN own ELSE segments[i].symbols
    <3> DEFINE ext == ReadExternalNames(Object)
    <3>1. segments' = [segments EXCEPT ![file].extnames = ext, ![file].symbols = own]
      BY <2>1
    <3> HIDE DEF ext, own, new, all
    <3> QED
      BY <1>1, <3>1 DEF SegmentSet
  <2> HIDE DEF new, own, all, names
  <2>4. ASSUME NEW i \in Files, i < file' PROVE Listed(all, (segments')[i].symbols, i)
    <3>1. CASE i = file
      BY <2>2, <2>3, <3>1
    <3>2. CASE i # file
      <4>1. i < file
        BY <1>1, <2>1, <2>4, <3>2
      <4>2. Listed(symbols, segments[i].symbols, i)
        BY <1>1, <4>1 DEF TableInv, Ended
      <4>3. Listed(all, segments[i].symbols, i)
        BY <2>2, <4>2, StillTold DEF LinkInv, SymbolsInv, all
      <4> QED
        BY <2>3, <3>2, <4>3
    <3> QED
      BY <3>1, <3>2
  <2>5. \A i \in Files : i < file' => Listed(symbols, segments[i].symbols, i)'
    <3>1. \A i : (OwnEntries(i))' = OwnEntries(i)
      BY <1>1, DeclaredStays
    <3> QED
      BY <2>1, <2>4, <3>1 DEF Listed
  <2>6. (DOMAIN symtab = NamesUpTo(file - 1))'
    <3>1. (NamesUpTo(file - 1))' = NamesUpTo(file' - 1)
      BY <1>1 DEF NamesUpTo, Wrote, PublicOf, OfObject, RowOf
    <3>2. file' - 1 = file
      BY <1>1, <2>1
    <3> QED
      BY <2>1, <2>2, <3>1, <3>2 DEF names
  <2> QED
    BY <1>1, <1>2, <2>1, <2>5, <2>6 DEF TableInv, Ended
<1> QED
  BY <1>3, <1>4

\* patch leaves the symbols of the inputs alone.
SymbolsHeld == \A i \in Files : (segments')[i].symbols = segments[i].symbols

LEMMA SymbolsAside ==
  ASSUME segments \in [Files -> SegmentSet], NEW x,
         \/ segments' = segments
         \/ segments' = [segments EXCEPT ![file].reloclist = x]
         \/ segments' = [segments EXCEPT ![file].size = x]
         \/ segments' = [segments EXCEPT ![file].relocsize = x]
  PROVE  SymbolsHeld
<1>1. CASE segments' = segments
  BY <1>1 DEF SymbolsHeld
<1>2. CASE segments' = [segments EXCEPT ![file].reloclist = x]
  BY <1>2 DEF SymbolsHeld, SegmentSet
<1>3. CASE segments' = [segments EXCEPT ![file].size = x]
  BY <1>3 DEF SymbolsHeld, SegmentSet
<1>4. CASE segments' = [segments EXCEPT ![file].relocsize = x]
  BY <1>4 DEF SymbolsHeld, SegmentSet
<1> QED
  BY <1>1, <1>2, <1>3, <1>4

LEMMA PatchPlace ==
  ASSUME Patch
  PROVE  /\ pc \in {"open"} \cup Working /\ pc \notin {"script", "symbols"} \cup Ended
         /\ pc' \notin {"script", "symbols"}
         /\ map' = map
<1>1. pc \in {"open", "records", "fixups", "sort", "relink", "relocs"}
  BY Zenon DEF Patch, OpenOutput, DiskFull, OtherRecord, LedataRecord,
    FixupRecord, BadFixupRecord, AtRecord, SkipFix, OffsetFix, ChainFix, Fixing, WriteData,
    RecordsDone, SortBucket, SortDone, Relink, WriteRelocs, LoseRelocs
<1>2. pc' = pc \/ pc' \in {"open", "records", "fixups", "sort", "relink", "relocs", "panic"}
  BY Zenon DEF Patch, OpenOutput, DiskFull, GiveUp, OtherRecord, LedataRecord,
    FixupRecord, BadFixupRecord, SkipFix, FixDone, Panic, OffsetFix, ChainFix, WriteData,
    RecordsDone, SortBucket, SortDone, Relink, WriteRelocs, LoseRelocs
<1>3. map' = map
  BY Zenon DEF Patch, OpenOutput, DiskFull, GiveUp, OtherRecord, LedataRecord,
    FixupRecord, BadFixupRecord, SkipFix, OffsetFix, ChainFix, WriteData,
    RecordsDone, SortBucket, SortDone, Relink, WriteRelocs, LoseRelocs, InPatch, InEnd
<1> QED
  BY <1>1, <1>2, <1>3 DEF Ended, Working

LEMMA PatchHolds ==
  ASSUME LinkInv, Patch
  PROVE  SymbolsHeld
<1>1. CASE segments' = segments
  BY <1>1 DEF SymbolsHeld
<1>2. file # 0
  <2>1. pc \in {"open"} \cup Working /\ PlaceInv /\ Files \subseteq Nat \ {0}
    BY PatchPlace, InputParts DEF LinkInv, PlaceInv
  <2> QED
    BY <2>1 DEF PlaceInv
<1>3. segments \in [Files -> SegmentSet]
  BY <1>2 DEF LinkInv, SegmentsInv
<1>4. CASE OpenOutput
  <2>1. PICK x : segments' = [segments EXCEPT ![file].reloclist = x]
    BY <1>4, Zenon DEF OpenOutput
  <2> QED
    BY <1>3, <2>1, SymbolsAside
<1>5. CASE ChainFix
  <2>1. PICK x : segments' = [segments EXCEPT ![file].reloclist = x]
    BY <1>5, Zenon DEF ChainFix
  <2> QED
    BY <1>3, <2>1, SymbolsAside
<1>6. CASE SortBucket
  <2>1. PICK x : segments' = [segments EXCEPT ![file].reloclist = x]
    BY <1>6, Zenon DEF SortBucket
  <2> QED
    BY <1>3, <2>1, SymbolsAside
<1>7. CASE WriteData
  <2>1. segments' = [segments EXCEPT ![file].size = @ + Len(data)]
    BY <1>7, Zenon DEF WriteData
  <2> DEFINE x == segments[file].size + Len(data)
  <2>2. segments' = [segments EXCEPT ![file].size = x]
    BY <2>1
  <2> HIDE DEF x
  <2> QED
    BY <1>3, <2>2, SymbolsAside
<1>8. CASE WriteRelocs \/ LoseRelocs
  <2>1. PICK x : segments' = [segments EXCEPT ![file].relocsize = x]
    BY <1>8, Zenon DEF WriteRelocs, LoseRelocs
  <2> QED
    BY <1>3, <2>1, SymbolsAside
<1>9. CASE \/ DiskFull \/ OtherRecord \/ LedataRecord \/ FixupRecord \/ BadFixupRecord \/ SkipFix
           \/ OffsetFix \/ RecordsDone \/ SortDone \/ Relink
  BY <1>1, <1>9, Zenon DEF DiskFull, GiveUp, OtherRecord, LedataRecord, FixupRecord, BadFixupRecord,
    SkipFix, OffsetFix, RecordsDone, SortDone, Relink
<1> QED
  BY <1>4, <1>5, <1>6, <1>7, <1>8, <1>9, Zenon DEF Patch

\* patch adds symbols at most.
LEMMA PatchAdds ==
  ASSUME LinkInv, Patch
  PROVE  symbols' = symbols \/ \E new \in Seq(SymbolSet) : symbols' = symbols \o new
<1>1. CASE OffsetFix \/ ChainFix
  <2>1. symbols' = symbols \/ (Resolves /\ resolve /\ pc \in Working)
    BY <1>1, Zenon DEF OffsetFix, ChainFix, WritesOffset, External, Fixing, Working
  <2>2. CASE Resolves /\ resolve /\ pc \in Working
    <3>1. symbols' = symbols \/ symbols' = symbols \o <<Resolved>>
      BY <2>2, Zenon DEF resolve, AddSymbols
    <3>2. Resolved \in SymbolSet
      BY <2>2, ResolvedType
    <3>3. <<Resolved>> \in Seq(SymbolSet)
      BY <3>2
    <3> QED
      BY <3>1, <3>3
  <2> QED
    BY <2>1, <2>2
<1>2. CASE \/ OpenOutput \/ DiskFull \/ OtherRecord \/ LedataRecord \/ FixupRecord \/ BadFixupRecord
           \/ SkipFix \/ WriteData \/ RecordsDone \/ SortBucket \/ SortDone \/ Relink \/ WriteRelocs
           \/ LoseRelocs
  <2>1. symbols' = symbols
    BY <1>2, Zenon DEF OpenOutput, DiskFull, GiveUp, OtherRecord, LedataRecord, FixupRecord,
      BadFixupRecord, SkipFix, WriteData, RecordsDone, SortBucket, SortDone, Relink, WriteRelocs,
      LoseRelocs, InEnd, scriptVars
  <2> QED
    BY <2>1
<1> QED
  BY <1>1, <1>2, Zenon DEF Patch

LEMMA PatchTells ==
  ASSUME LinkInv, TableInv, Next, Patch
  PROVE  TableInv'
<1>1. /\ pc \notin {"script", "symbols"} \cup Ended /\ pc' \notin {"script", "symbols"}
      /\ map' = map
  BY PatchPlace
<1>2. input' = input /\ Files' = Files
  BY InputStays
<1>3. map = NoMap /\ \A i \in Files : Listed(symbols, segments[i].symbols, i)
  BY <1>1 DEF TableInv
<1>4. map' = NoMap /\ MapTells' /\ NoMap' = NoMap
  BY <1>1, <1>3 DEF MapTells, NoMap
<1>5. \A i \in Files : Listed(symbols', segments[i].symbols, i)
  <2>1. CASE symbols' = symbols
    BY <1>3, <2>1
  <2>2. CASE \E new \in Seq(SymbolSet) : symbols' = symbols \o new
    BY <1>3, <2>2, StillTold DEF LinkInv, SymbolsInv
  <2> QED
    BY <2>1, <2>2, PatchAdds
<1>6. \A i \in Files : Listed(symbols', (segments')[i].symbols, i)
  BY <1>5, PatchHolds DEF SymbolsHeld
<1>7. \A i \in Files : Listed(symbols, segments[i].symbols, i)'
  <2>1. \A i : (OwnEntries(i))' = OwnEntries(i)
    BY <1>2, DeclaredStays
  <2> QED
    BY <1>6, <2>1 DEF Listed
<1> QED
  BY <1>1, <1>2, <1>4, <1>7 DEF TableInv, Ended

LEMMA TableStep ==
  ASSUME LinkInv, TableInv, Next
  PROVE  TableInv'
<1>1. CASE BlankLine \/ scriptModule \/ scriptRelocSegment \/ scriptRelocSymbol
  BY <1>1, ScriptTells
<1>2. CASE UnknownLine \/ BadRelocLine
  <2>1. pc = "script" /\ pc' = "failed" /\ map' = map
    BY <1>2, Zenon DEF UnknownLine, BadRelocLine, Reading, Fail, OutsideScript
  <2>2. map' = NoMap /\ MapTells' /\ NoMap' = NoMap
    BY <2>1 DEF TableInv, Ended, MapTells, NoMap
  <2> QED
    BY <2>1, <2>2 DEF TableInv, Ended
<1>3. CASE MakeSegments
  BY <1>3, ScriptEndsTold
<1>4. CASE loadSymbols
  BY <1>4, LoadStep
<1>5. CASE BeginPatching
  BY <1>5, LoadingDoneTold
<1>6. CASE Patch
  BY <1>6, PatchTells
<1>7. CASE Finish
  BY <1>7, FinishTells
<1> QED
  BY <1>1, <1>2, <1>3, <1>4, <1>5, <1>6, <1>7, Zenon DEF Next, ReadScript

LEMMA TableStarts == ASSUME Init PROVE TableInv
<1>1. input \in Inputs
  BY DEF Init
<1>2. Len(input.script) \in Nat
  BY <1>1, InputParts
<1>3. Wrote(0) = {}
  <2>1. 1..0 = {}
    OBVIOUS
  <2> QED
    BY <2>1 DEF Wrote
<1>4. DOMAIN symtab = {} /\ pc = "script" /\ line = 1 /\ map = NoMap
  BY EmptySeq DEF Init
<1>5. MapTells
  BY <1>4 DEF MapTells
<1> QED
  BY <1>2, <1>3, <1>4, <1>5 DEF TableInv

\* The map lists each public name once, as the first input that declares it has
\* it, none that the script imports, and its real address is where the byte
\* comes to lie.  (loadSymbols, writeMapFile.)
THEOREM MapIsRight == Spec => []MapTells
<1>1. Init => TableInv
  BY TableStarts
<1>2. LinkInv /\ TableInv /\ [Next]_vars => TableInv'
  <2> SUFFICES ASSUME LinkInv, TableInv, [Next]_vars PROVE TableInv'
    OBVIOUS
  <2>1. CASE Next
    BY <2>1, TableStep
  <2>2. CASE UNCHANGED vars
    <3>1. /\ input' = input /\ Files' = Files /\ pc' = pc /\ line' = line /\ file' = file
          /\ symtab' = symtab /\ symbols' = symbols /\ segments' = segments /\ map' = map
      BY <2>2 DEF vars, scriptVars, Files
    <3>2. Declared' = Declared
      BY <3>1, DeclaredStays
    <3>3. MapTells'
      BY <3>1, <3>2 DEF TableInv, MapTells, NoMap
    <3>4. /\ (Wrote(line - 1))' = Wrote(line - 1) /\ (NamesUpTo(file - 1))' = NamesUpTo(file - 1)
      BY <3>1 DEF NamesUpTo, Wrote, PublicOf, OfObject, RowOf
    <3>5. \A i \in Files : Listed(symbols, segments[i].symbols, i)' <=> Listed(symbols, segments[i].symbols, i)
      <4>1. \A i : (OwnEntries(i))' = OwnEntries(i)
        BY <3>1, DeclaredStays
      <4> QED
        BY <3>1, <4>1 DEF Listed
    <3> QED
      BY <3>1, <3>3, <3>4, <3>5 DEF TableInv, NoMap, Ended
  <2> QED
    BY <2>1, <2>2
<1>3. TableInv => MapTells
  BY DEF TableInv
<1> QED
  BY <1>1, <1>2, <1>3, LinkInvHolds, PTL DEF Spec
=============================================================================
