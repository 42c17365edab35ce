------------------------------- MODULE Script -------------------------------
(***************************************************************************)
(* The linker script: what one line asks for, and the order that a         *)
(* patchlist gives to the fixups of a relocation.  A line is kept as its   *)
(* fields:                                                                 *)
(*   "MODULE"  fields (their number), num, name, file (the names in the    *)
(*             symfile, or NoSymfile, or Unreadable)                       *)
(*   "RELOC"   fields (left of "="), seg, mod, to, valid (its number is    *)
(*             one), ordinal (it began with "@"), patchlist                *)
(*   "blank"   nothing, or a comment; anything else is no command.         *)
(* A field that should be a number and is not has the value -1.            *)
(***************************************************************************)
EXTENDS ObjFile, TLC

NoSymfile == [open |-> TRUE, given |-> FALSE, names |-> <<>>]
Unreadable == [open |-> FALSE, given |-> TRUE, names |-> <<>>]

MaxSpan == 65535

Listing == Seq([name: Seq(STRING), ordinal: Nat, equate: BOOLEAN])
Patchlist == Seq([addr: Int, minus: BOOLEAN, signs: Nat])
LineOK(l) ==
  /\ l.cmd = "MODULE" => /\ l.num \in Int /\ l.name \in STRING /\ l.file.names \in Listing
                         /\ ~l.file.given => l.file.names = <<>>
  /\ l.cmd = "RELOC" => /\ l.seg \in Int /\ l.mod \in STRING /\ l.patchlist \in Patchlist
                        /\ l.mod = "SEGMENT" => l.to \in Nat
                        /\ l.mod # "SEGMENT" => l.to \in Seq(STRING) /\ l.number \in Nat

\* A RELOC line may name a segment in place of a module.
ToSegment(l) == l.mod = "SEGMENT"

ModuleLineOK(l) == l.fields \in {3, 4} /\ l.num > 0

\* Every address carries one sign, and fits a signed 16-bit number.
PatchlistOK(list) ==
  \A i \in DOMAIN list : list[i].signs = 1 /\ list[i].addr \in -32768..32767

\* Each span reaches to the next one's address, the last to the end.
parsePatchlist(list) ==
  IF list = <<>> THEN << [Low |-> 0, High |-> MaxSpan, Desc |-> TRUE] >>
  ELSE [i \in DOMAIN list |->
          [Low |-> list[i].addr, Desc |-> list[i].minus,
           High |-> IF i = Len(list) THEN MaxSpan ELSE list[i + 1].addr]]

Larger(a, b) == IF a < b THEN b ELSE a

\* Fault: the span takes its upper end in.
BeforeEndIn(a, span) == a <= span.High

\* A span does not include the address at which the next one begins.
BeforeEnd(a, span) == a < span.High

\* Where each span lies when the addresses p ascend: after is the number of
\* those before it.  A span begins no earlier than the one before it ended,
\* also when the addresses of the patchlist do not increase.
SpansIn(p, spans) ==
  LET low(k) == Cardinality({i \in DOMAIN p : p[i] < spans[k].Low})
      high(k) == Cardinality({i \in DOMAIN p : BeforeEnd(p[i], spans[k])})
      end[k \in 0..Len(spans)] ==
        IF k = 0 THEN 0 ELSE Larger(Larger(end[k - 1], low(k)), high(k))
  IN  [k \in DOMAIN spans |-> [after |-> Larger(end[k - 1], low(k)), upto |-> end[k]]]

\* Of which no more than k - 1 are less, and k are no greater.
Ascending(list) ==
  [k \in DOMAIN list |->
     CHOOSE v \in Range(list) : /\ Cardinality({i \in DOMAIN list : list[i] < v}) < k
                                /\ Cardinality({i \in DOMAIN list : list[i] <= v}) >= k]

\* The addresses in ascending order, with the descending spans turned round.
sortFixes(patches, spans) ==
  LET p == Ascending(patches)
      s == SpansIn(patches, spans)
      Turned(i) == {k \in DOMAIN s : /\ spans[k].Desc
                                     /\ i \in (s[k].after + 1)..s[k].upto}
  IN  [i \in DOMAIN p |->
         IF Turned(i) = {} THEN p[i]
         ELSE LET k == CHOOSE k \in Turned(i) : TRUE
              IN  p[s[k].after + s[k].upto + 1 - i]]
=============================================================================
