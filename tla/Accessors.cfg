SPECIFICATION Spec
CONSTANTS
  l1 = l1
  l2 = l2
  l3 = l3
  f1 = f1
  f2 = f2
  f3 = f3
  v1 = v1
  Unset = Unset
  Absent = Absent
  Garbage = Garbage
  NoDocument = NoDocument
  OtherBox = OtherBox
  Odd = Odd
  NotTiff = NotTiff
  Format = {"dig35", "j2k", "tiff", "qt", "xml", "faces"}
  File = {f1, f2, f3}
  Input = {f2, f3}
  Leaf = {l1, l2, l3}
  Leaves <- MCLeaves
  Scope <- MCScope
  Value = {v1}
  Given <- MCGiven
  Throwing = {TRUE, FALSE}
  MaxErrors = 1
  Tag <- MCTag
  Root = "root"
  BlockKeys = {"B1", "B2"}
  Dig35Tag <- MCDig35Tag
  OneText <- MCOneText
  MaxElements = 4
  TiffTables <- MCTiffTables
  QtPlace <- MCQtPlace
  QtFile <- MCQtFile
  MaxAtoms = 4
  XmlSchemas <- MCXmlSchemas
  NoBlock = "top"
  Malformed = Malformed
  Below = {33091663}
  FaceFiles <- MCFaceFiles
  FaceFeatures <- MCFaceFeatures
  FaceIds <- MCFaceIds
  FaceNames <- MCFaceNames
  MaxFaces = 2
  MaxFeatures = 2
  MaxEdits = 2
  Disks <- MCDisks
INVARIANTS
  SetReadsBack
  FacesReadBack
PROPERTIES
  NoChangeLost
  OnlyOwnFileChanges
  FirstBoxWins
  QtReadsTree
