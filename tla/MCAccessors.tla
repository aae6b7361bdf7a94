---------------------------- MODULE MCAccessors ----------------------------
EXTENDS Accessors

CONSTANTS l1, l2, l3, f1, f2, f3, v1

MCLeaves == <<l1, l2, l3>>
MCScope == {<<l2>>, <<l1, l2, l3>>}
MCGiven(f) == IF f = "dig35" THEN {l1} ELSE {l1, l2}
MCTag == {"root", "B1", "B2", "p", "q"}
MCDig35Tag ==
  l1 :> <<"B1", "p">> @@ l2 :> <<"B1", "p", "q">> @@ l3 :> <<>>
MCTiffTables ==
  {l1 :> "entry" @@ l2 :> "none" @@ l3 :> "entry",
   l1 :> "audio" @@ l2 :> "noTranslator" @@ l3 :> "badLocation",
   l1 :> "badType" @@ l2 :> "noTranslator" @@ l3 :> "none"}
MCBlock == <<Node("B1", 0, NoText), Node("p", 1, NoText), Node(TextTag, 2, v1)>>
MCOther == <<Node("B1", 0, NoText), Node("p", 1, NoText)>>
MCMixed == <<Node("root", 0, NoText), Node(TextTag, 1, v1), Node("p", 1, NoText), Node("q", 2, NoText),
             Node(TextTag, 2, v1)>>
MCLater == <<Node("B2", 0, NoText), Node("q", 1, NoText), Node(TextTag, 2, v1)>>
MCOneText(a, b) == v1
MCQtPlace ==
  l1 :> <<<<"moov", "mvhd">>, "TimeScale">>
  @@ l2 :> <<<<"moov", "trak", "mdia", "minf">>, "FrameCount">>
  @@ l3 :> <<<<"moov", "udta", "Titl">>, "">>
Data(type) == QtAtom(type, v1, <<>>)
Box(type, kids) == QtAtom(type, Unset, kids)
Track(head) == Box("trak", <<Data("tkhd"), Box("mdia", <<Box("minf", <<head, Box("stbl", <<Data("stts")>>)>>)>>)>>)
User == Box("udta", <<Data("Titl")>>)
Movie(kids) == Box("moov", <<Data("mvhd")>> \o kids)
MCQtFile ==
  {<<Data("mdat"), Movie(<<Track(Data("smhd")), Track(Data("vmhd")), User>>)>>,
   <<Movie(<<Box("udta", <<Data("free"), QtAtom("free", Unset, <<>>)>>), User>>)>>,
   <<Movie(<<Track(Data("smhd")), Box("udta", <<Data("Titl"), Box("end", <<>>)>>)>>), Data("wide")>>,
   <<Movie(<<Box("udta", <<Data("free"), Data("wide")>>), User>>)>>}
FaceOf(atoms) == FaceAtom("ffob", FlattenSeq(atoms))
Double(v) == <<<<"double", v>>>> \o [i \in 1 .. 7 |-> Rest]
Half == 500000
MCFaceFiles ==
  {FaceOf(<<FaceAtom("fpdt", Representation(2)), FaceAtom("obID", AsciiPayload(<<"a">>)),
            FaceAtom("FPCL", Number(300, 2)), FaceAtom("leye", Double(Half) \o Double(3 * Half)),
            FaceAtom("leye", Double(0) \o Double(0))>>)
   \o FaceOf(<<FaceAtom("uCON", Number(2, 1)), FaceAtom("obXX", <<Rest>>)>>),
   FaceOf(<<FaceAtom("FEAD", Number(7, 1) \o Number(255, 1)),
            FaceAtom("obNa", UnicodePayload(<<65, 0, 66, 0>>))>>)}
MCFaceFeatures ==
  {<<"LeftEye", <<"floats", <<250000, -22000000>>>>>>, <<"LeftEye", <<"floats", <<33091663, 1024123456>>>>>>,
   <<"Outline", <<"floats", <<0, 1000000, -21000000, Half>>>>>>,
   <<"FacePoseYawAngle", <<"floats", <<-45500000>>>>>>,
   <<"UserConfirmation", <<"word", "Implicit">>>>}
MCFaceNames == {<<65, 0, 66>>}
MCFaceIds == {<<>>, <<"b", "c">>}
XmlPlace(block, name, occurrence, multiple) ==
  [block |-> block, name |-> name, occurrence |-> occurrence, multiple |-> multiple]
MCSingle == l1 :> XmlPlace("B1", "p", 0, FALSE) @@ l2 :> XmlPlace("B1", "q", 0, FALSE)
            @@ l3 :> XmlPlace("top", "r", 0, FALSE)
MCMultiple == l1 :> XmlPlace("top", "m", 0, TRUE) @@ l2 :> XmlPlace("top", "m", 1, TRUE)
              @@ l3 :> XmlPlace("B1", "p", 0, FALSE)
MCXmlSchemas == {[place |-> MCSingle, nameSpace |-> FALSE], [place |-> MCSingle, nameSpace |-> TRUE],
                 [place |-> MCMultiple, nameSpace |-> FALSE]}
Text(block, name, text) == [key |-> <<block, name>>, text |-> text]
MCDisks(f) ==
  CASE f = "dig35" -> {f1 :> Absent @@ f2 :> d @@ f3 :> Garbage : d \in {MCMixed}}
    [] f = "j2k" -> {f1 :> Absent @@ f2 :> b @@ f3 :> <<>> :
         b \in {<<MCBlock, OtherBox, MCLater>>, <<MCOther, MCBlock>>, <<OtherBox, MCLater, Garbage, MCBlock>>}}
    [] f = "tiff" -> {f1 :> Absent @@ f2 :> (l1 :> v1 @@ l2 :> v1 @@ l3 :> e) @@ f3 :> NotTiff : e \in {v1, Odd}}
    [] f = "xml" -> {f1 :> Absent @@ f2 :> d @@ f3 :> Malformed :
         d \in {<<Text("B1", "p", v1), Text("B1", "p", Unset), Text("top", "r", Unset),
                  Text("B1", "unknown", v1), Text("B1", "q", v1)>>,
                <<Text("top", "m", v1), Text("top", "m", Unset), Text("B1", "p", v1)>>}}
    [] f = "faces" -> {[file \in File |-> Absent]}
    [] f = "qt" -> {f1 :> Absent @@ f2 :> Words(a) @@ f3 :> Words(b) : a, b \in MCQtFile}
=============================================================================
