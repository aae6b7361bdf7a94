SPECIFICATION Spec
CONSTANTS
  l1 = l1
  l2 = l2
  f1 = f1
  f2 = f2
  f3 = f3
  v1 = v1
  t0 = t0
  t1 = t1
  t2 = t2
  Unset = Unset
  Absent = Absent
  Format = {"xmp", "exif"}
  File = {f1, f2, f3}
  Input = {f2, f3}
  Leaf = {l1, l2}
  Leaves <- MCLeaves
  Scope <- MCScope
  Value = {v1}
  Given <- MCGiven
  Throwing = {FALSE}
  MaxErrors = 0
  XmpTable <- MCXmpTable
  Malformed = Malformed
  ExtendUnit = 2
  ExifTag = {t0, t1, t2}
  ExifTags <- MCExifTags
  ExifTable <- MCExifTable
  QRow <- MCQRow
  Disks <- MCDisks
INVARIANTS
  XmpCopiesAgree
  NoStaleText
  ExifReadsAgree
PROPERTIES
  XmpSavesAll
  ExifSavesPacket
