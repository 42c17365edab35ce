----------------------------- MODULE Resources -----------------------------
(***************************************************************************)
(* tools/res prints the resource table of an executable and, with -dump,   *)
(* writes its bitmaps to files; tools/dialog prints a dialog template.     *)
(*                                                                         *)
(* An executable is kept as its resource table, with the option -dump:     *)
(*   dump        whether it is given                                       *)
(*   readable    whether the headers are there                             *)
(*   terminated  whether a block of type 0 ends the table                  *)
(*   blocks      <<[type, num, entries], ...>>                             *)
(* An entry has its id and name (<<>> if it is empty), and bmp: what is    *)
(* there if it is a bitmap, with rest the number of bytes behind its       *)
(* header.  Sizes are uint32 in the code; here they stay below 2^31.       *)
(***************************************************************************)
EXTENDS Integers, Sequences, FiniteSets, SequencesExt, FiniteSetsExt

CONSTANTS Images,      \* the executables
          Templates    \* [dialog, cut]: a template and how many bytes the file
                       \* lacks at its end

Uint16 == 0..65535

\* The fields of a bitmap's header that matter, and of an entry of the table.
Bitmaps == [HeaderSize : Nat, Width : Nat, Height : Nat, NBits : Nat, Compression : Nat,
            Len : Nat, NColors : Nat, rest : Nat]
Entries == [id : Uint16, name : Seq(0..255), bmp : Bitmaps]

ASSUME ImagesAssumption ==
  \A im \in Images :
    /\ {im.readable, im.terminated, im.dump} \subseteq BOOLEAN
    /\ im.blocks \in Seq([type : Uint16, num : Nat, entries : Seq(Entries)])

\* A dialog and its items; the character 0 ends a string in the file.
CStrings == Seq(1..255)
Items == [fixed : [1..15 -> 0..255], title : CStrings, data : CStrings]
Dialogs == [caption : CStrings, size : [1..2 -> 0..255], font : CStrings, items : Seq(Items)]

Terminated(s) == s \o <<0>>
LaidOut(it) == it.fixed \o Terminated(it.title) \o Terminated(it.data)
Layout(d) ==
  Terminated(d.caption) \o d.size \o Terminated(d.font) \o
  FlattenSeq([i \in DOMAIN d.items |-> LaidOut(d.items[i])])

ASSUME TemplatesAssumption ==
  \A t \in Templates : t.dialog \in Dialogs /\ t.cut \in 0..Len(Layout(t.dialog))

VARIABLES
  image, resStep, block, res, item,  \* where res is, and its locals
  printed, files,                    \* what it has printed and written
  template, dialogStep, pos, shown   \* where dialog is, and what it has printed

resVars == <<image, resStep, block, res, item, printed, files>>
dialogVars == <<template, dialogStep, pos, shown>>

RT_BITMAP == 32770
ResInit == /\ image \in Images
           /\ resStep = "table" /\ block = 1 /\ res = <<>> /\ item = 1
           /\ printed = <<>> /\ files = <<>>
-----------------------------------------------------------------------------
\* One block of entries; the table ends with a block of type 0, and nothing is
\* printed if it does not.
AtBlock == resStep = "table" /\ image.readable /\ block <= Len(image.blocks)
ReadBlock ==
  /\ AtBlock
  /\ LET b == image.blocks[block]
     IN  IF Len(b.entries) < b.num
         THEN resStep' = "failed" /\ UNCHANGED <<block, res>>
         ELSE /\ res' = res \o [i \in 1..b.num |-> [type |-> b.type, entry |-> b.entries[i]]]
              /\ block' = block + 1 /\ UNCHANGED resStep
  /\ UNCHANGED <<image, item, printed, files>>
EndOfTable ==
  /\ resStep = "table" /\ ~AtBlock
  /\ resStep' = IF image.readable /\ image.terminated THEN "print" ELSE "failed"
  /\ UNCHANGED <<image, block, res, item, printed, files>>

\* A resource is called by its name or else by its number, a uint16.
Called(e) == IF e.id < 32768 /\ e.name # <<>> THEN e.name
             ELSE <<(e.id + 32768) % 65536>>

\* The default is a full palette for the depth; in a uint32 nothing is left of
\* 4 << 30 and more.
FullPalette(bits) == IF bits < 29 THEN 4 * 2^bits ELSE 0
Palette(bmp) == IF bmp.NColors # 0 THEN 4 * bmp.NColors ELSE FullPalette(bmp.NBits)

\* Fault: rows are padded to bytes.
strideBytes(w, bits) == (bits * w + 7) \div 8

stride(w, bits) == ((bits * w + 31) \div 32) * 4

PixelBytes(bmp) == IF bmp.Len = 0 /\ bmp.Compression = 0
                   THEN stride(bmp.Width, bmp.NBits) * bmp.Height ELSE bmp.Len

\* A .bmp file: the sizes that its header tells, and its own.
Dumped(bmp) ==
  LET body == Palette(bmp) + PixelBytes(bmp)
  IN  [size |-> 14 + 40 + body, pixelsAt |-> 14 + 40 + Palette(bmp),
       length |-> 14 + 40 + Min({body, bmp.rest})]

\* A bad bitmap is passed over.  Of two files of one name the last stays.
PrintResource ==
  /\ resStep = "print" /\ item <= Len(res)
  /\ LET r == res[item]
         dumps == image.dump /\ r.type = RT_BITMAP /\ r.entry.bmp.HeaderSize = 40
         name == Called(r.entry)
     IN  /\ printed' = Append(printed, <<r.type, name>>)
         /\ files' = IF dumps
                     THEN [n \in DOMAIN files \cup {name} |->
                             IF n = name THEN Dumped(r.entry.bmp) ELSE files[n]]
                     ELSE files
  /\ item' = item + 1
  /\ UNCHANGED <<image, resStep, block, res>>
ResDone ==
  /\ resStep = "print" /\ item > Len(res) /\ resStep' = "done"
  /\ UNCHANGED <<image, block, res, item, printed, files>>

ResNext == ReadBlock \/ EndOfTable \/ PrintResource \/ ResDone
ResSpec == ResInit /\ [][ResNext]_resVars /\ WF_resVars(ResNext)

\* Every bitmap of up to 256 colours that is whole in the executable becomes a
\* file as long as its header says, with room for every pixel of every row,
\* rows being padded to 32 bits.  (dumpBitmap; with more colours there is
\* no palette, and it writes one all the same.)
Indexed(bmp) == /\ bmp.HeaderSize = 40 /\ bmp.NBits <= 8 /\ bmp.NColors <= 2^bmp.NBits
                /\ bmp.rest >= Palette(bmp) + PixelBytes(bmp)
DumpsWhole ==
  resStep = "done" /\ image.dump =>
    \A i \in DOMAIN res :
      LET bmp == res[i].entry.bmp
          last == \A k \in (i + 1)..Len(res) : Called(res[k].entry) # Called(res[i].entry)
          f == files[Called(res[i].entry)]
          rowBits == 8 * ((f.length - f.pixelsAt) \div bmp.Height)
      IN  res[i].type = RT_BITMAP /\ Indexed(bmp) /\ last
            => /\ f.size = f.length
               /\ bmp.Compression = 0 /\ bmp.Len = 0 /\ bmp.Height > 0
                    => rowBits % 32 = 0 /\ rowBits >= bmp.NBits * bmp.Width
-----------------------------------------------------------------------------
(***************************************************************************)
(* dialog.  A template is kept as the bytes behind its header:             *)
(* caption, font size, font, and as many items as the header counts.       *)
(***************************************************************************)
Present == LET bytes == Layout(template.dialog)
           IN  SubSeq(bytes, 1, Len(bytes) - template.cut)

\* Fault: the class byte is not among them.
ItemSizeShort == 14

ItemSize == 15     \* the fixed part of an item

\* The zero that ends the string at a place, or 0.
ZeroFrom(at) == SelectInSubSeq(Present, at, Len(Present), LAMBDA b : b = 0)
StringAt(at) == SubSeq(Present, at, ZeroFrom(at) - 1)

\* What readCString and ReadByte leave behind at the end of the file.
CString(at) == IF ZeroFrom(at) = 0 THEN [text |-> <<>>, next |-> Len(Present) + 1]
               ELSE [text |-> StringAt(at), next |-> ZeroFrom(at) + 1]
ByteAt(at) == IF at <= Len(Present) THEN Present[at] ELSE 0

DialogInit == /\ template \in Templates
              /\ dialogStep = "caption" /\ pos = 1
              /\ shown = [caption |-> <<>>, size |-> <<>>, font |-> <<>>, items |-> <<>>]

\* Errors are not looked at here: what is missing is shown as empty.
ReadHead ==
  /\ dialogStep = "caption"
  /\ LET caption == CString(pos)
         font == CString(caption.next + 2)
     IN  /\ shown' = [shown EXCEPT !.caption = caption.text, !.font = font.text,
                                   !.size = <<ByteAt(caption.next), ByteAt(caption.next + 1)>>]
         /\ pos' = font.next
  /\ dialogStep' = "items" /\ UNCHANGED template

ItemCount == Len(template.dialog.items)
FixedHere == pos + ItemSize - 1 <= Len(Present)
Title == CString(pos + ItemSize)
ItemHere == /\ FixedHere /\ ZeroFrom(pos + ItemSize) # 0 /\ ZeroFrom(Title.next) # 0
ReadItem ==
  /\ dialogStep = "items" /\ Len(shown.items) < ItemCount /\ ItemHere
  /\ LET data == CString(Title.next)
     IN  /\ shown' = [shown EXCEPT !.items =
                        Append(@, [fixed |-> SubSeq(Present, pos, pos + ItemSize - 1),
                                   title |-> Title.text, data |-> data.text])]
         /\ pos' = data.next
  /\ UNCHANGED <<template, dialogStep>>
ItemCut ==
  /\ dialogStep = "items" /\ Len(shown.items) < ItemCount /\ ~ItemHere
  /\ dialogStep' = "error" /\ UNCHANGED <<template, pos, shown>>
DialogDone ==
  /\ dialogStep = "items" /\ Len(shown.items) = ItemCount
  /\ dialogStep' = "done" /\ UNCHANGED <<template, pos, shown>>

DialogNext == ReadHead \/ ReadItem \/ ItemCut \/ DialogDone
DialogSpec == DialogInit /\ [][DialogNext]_dialogVars /\ WF_dialogVars(DialogNext)

\* A dialog is shown as it was laid out, or an error is reported, and then
\* the items shown are those that are there.  (readDialog, which must count
\* the bytes of every part; but a dialog without items may have lost its
\* font, and nothing is said.)
DialogRead ==
  /\ IsPrefix(shown.items, template.dialog.items)
  /\ dialogStep = "done" /\ (template.cut = 0 \/ ItemCount > 0) => shown = template.dialog
  /\ dialogStep = "error" => template.cut > 0
=============================================================================
