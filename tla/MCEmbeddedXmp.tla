--------------------------- MODULE MCEmbeddedXmp ---------------------------
EXTENDS EmbeddedXmp

CONSTANTS l1, l2, f1, f2, f3, v1, t0, t1, t2

MCLeaves == <<l1, l2>>
MCScope == {<<l1>>, <<l1, l2>>}
MCGiven(f) == {l1}
MCXmpTable(f) == l1 :> "simple" @@ l2 :> IF f = "xmp" THEN "odd" ELSE "none"
MCExifTags == <<t0, t1, t2>>
MCExifTable ==
  <<[tag |-> t1, leaf |-> Absent], [tag |-> t1, leaf |-> l1], [tag |-> t2, leaf |-> Absent]>>
MCQRow == l1 :> "none" @@ l2 :> "Lumin"
MCPacket(charset, readOnly, room, text) ==
  [charset |-> charset, bReadOnly |-> readOnly, text |-> text, size |-> Bytes(charset, 2),
   cells |-> Filled(Bytes(charset, 2)) \o Blank(room)]
MCText == [l \in Leaf |-> IF l = l2 THEN v1 ELSE Absent]
MCOne == [l \in Leaf |-> IF l = l1 THEN v1 ELSE Absent]
MCDisks(f) ==
  CASE f = "xmp" ->
         {f1 :> XmpFile(1, MCPacket("utf8", FALSE, 1, MCText), 2)
            @@ f2 :> XmpFile(2, MCPacket("utf16l", FALSE, 0, MCText), 0)
            @@ f3 :> XmpFile(0, MCPacket("none", FALSE, 0, MCText), 0)}
    [] f = "exif" ->
         {f1 :> ExifFile(t0 :> Absent @@ t1 :> v1 @@ t2 :> v1, [i \in 0 .. 3 |-> Absent],
                         <<MCPacket("utf8", FALSE, 1, MCText), MCPacket("utf8", FALSE, 1, MCOne)>>)
            @@ f2 :> ExifFile(t0 :> v1 @@ t1 :> v1 @@ t2 :> Absent, [i \in 0 .. 3 |-> IF i = 3 THEN v1 ELSE Absent],
                         <<MCPacket("utf8", FALSE, 0, Malformed), MCPacket("utf8", TRUE, 0, MCOne)>>)
            @@ f3 :> Absent}
=============================================================================
