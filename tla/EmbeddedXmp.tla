---------------------------- MODULE EmbeddedXmp ----------------------------
(***************************************************************************)
(* The two accessors that read and write XMP packets side by side: the XMP *)
(* accessor on a file of its own, and the Exif accessor with an XMP        *)
(* accessor inside.                                                        *)
(***************************************************************************)
EXTENDS ExifAccessor, TLC

\* The files at the start, for a format.
CONSTANT Disks(_)

ASSUME EmbeddedXmpAssumption ==
  /\ Format \subseteq {"xmp", "exif"}
  /\ Absent \notin File \cup Packets \cup XmpFiles \cup ExifFiles
  /\ \A f \in Format :
       Disks(f) \subseteq [File -> (IF f = "xmp" THEN XmpFiles ELSE ExifFiles) \cup {Absent}]

vars == <<baseVars, xmp, exif>>

Init ==
  /\ AccessorInit
  /\ disk \in Disks(format)
  /\ XmpInit /\ ExifInit

Next ==
  \/ /\ SetValue \/ NewTree
     /\ UNCHANGED <<xmp, exif>>
  \/ format = "xmp" /\ XmpNext /\ UNCHANGED exif
  \/ format = "exif" /\ ExifNext

Spec == Init /\ [][Next]_vars

-----------------------------------------------------------------------------
\* What the accessor's metadata say of a leaf that the table maps, its tree of nodes
\* says too, whatever was opened, appended, set and removed; unless it is the empty
\* text, which the nodes need not know of.
XmpCopiesAgree ==
  xmp.built => \A l \in Leaf : XmpRow[l] = "simple" /\ xmp.root[l] # Unset =>
                 xmp.node[l] = xmp.root[l]

\* When a file is closed, by close() or by the next open(), its packet says what
\* could be read from the accessor just before, but for empty texts, unless the
\* packet has no room and may not grow, or is in an encoding that cannot be written.
\* (A file that is created after an open that found no packet is never written: its
\* position stays the one that was not found.)
XmpSavesAll ==
  [][/\ format = "xmp" /\ xmp.built /\ xmp.file # Absent /\ xmp.mOpenMode # "readonly"
     /\ xmp.mStartPosition >= 0
     /\ XmpClose \/ XmpOpenMemory \/ (XmpOpen /\ xmp'.file # xmp.file)
     =>
     \/ ~Flush(xmp).done
     \/ /\ disk'[xmp.file].packet # Absent
        /\ \A l \in Leaf : XmpRow[l] = "simple" /\ xmp.root[l] # Unset =>
             disk'[xmp.file].packet.text[l] = xmp.root[l]]_vars

\* Nothing of an earlier, longer text is left behind the text of a packet in
\* UTF-8.
NoStaleText ==
  format = "xmp" => \A f \in File :
    disk[f] # Absent /\ disk[f].packet # Absent =>
      LET p == disk[f].packet
      IN  p.charset = "utf8" => \A i \in DOMAIN p.cells : i > p.size => p.cells[i] = "blank"

\* The two ways to read the tags of an Exif file find the same: readMetadata(nsURI)
\* goes through the entries of the file and searches the table from where the last
\* search ended, getMdValue looks the leaf up in the table.
ExifReadsAgree ==
  \A l \in {x \in Leaf : Tagged(x)} :
    l \in ExifRootReads <=> exif.content.tags[TagOf(l)] # Absent

\* A file that was open for writing holds after close() what the XMP accessor
\* said, but for empty texts, in one segment, if it has a packet that was read and
\* that may grow.  With several XMP segments this is by what SaveXMPValues takes
\* OpenExif's removeAppSeg and insertAppSeg to do.
ExifSavesPacket ==
  [][LET name == exif.name
     IN  /\ format = "exif" /\ ExifSaves /\ (ExifClose \/ ExifOpen) /\ exif'.name # name
         /\ exif.mnXMPLength # 0 /\ xmp.built /\ exif.content.segs # <<>> /\ Flush(xmp).done
         => /\ Len(disk'[name].segs) = 1
            /\ \A l \in Leaf : XmpRow[l] = "simple" /\ xmp.root[l] # Unset =>
                 disk'[name].segs[1].text[l] = xmp.root[l]]_vars
=============================================================================
