--------------------------- MODULE MCXmpMetadata ---------------------------
EXTENDS XmpMetadata

MCSpace(key) ==
  CASE key \in {"rdf:RDF", "rdf:Description", "rdf:Seq", "rdf:Bag", "rdf:Alt", "rdf:li"} -> "rdf"
    [] key = "xml:lang" -> "xml"
    [] key = "photo:Rating" -> "photo"
    [] OTHER -> "adobe"

Row(md, tag, type, value) ==
  [md |-> md, tag |-> tag, type |-> type, value |-> value, many |-> FALSE, inMS |-> FALSE]
RowInMS(md, tag, type, value, many) ==
  [Row(md, tag, type, value) EXCEPT !.inMS = TRUE, !.many = many]

Str(letter) == <<"string", <<letter>>>>
Num(n) == <<"int", n>>
Seq0(key, texts) == Branch(key, <<Branch("rdf:Seq", Items(texts))>>)
Bag0(key, texts) == Branch(key, <<Branch("rdf:Bag", Items(texts))>>)
LangItem(lang, text) == Node("rdf:li", <<Attribute("xml:lang", Str(lang))>>, <<>>, text)
Alt0(key, items) == Branch(key, <<Branch("rdf:Alt", items)>>)
Packet(descriptions) == Branch("rdf:RDF", descriptions)
Plainly(attributes, subs) == Node("rdf:Description", attributes, subs, NoText)

\* Two metadata that share a node, and a rational.
Shared ==
  [rows |-> <<Row("Width", "tiff:ImageWidth", "Integer", "int"),
              Row("ActualWidth", "tiff:ImageWidth", "Integer", "int"),
              Row("Aperture", "exif:ApertureValue", "Rational", "float")>>,
   values |-> [k \in {"Width", "ActualWidth", "Aperture"} |->
                 CASE k = "Width" -> {Num(1), Num(2)} [] k = "ActualWidth" -> {Num(1)}
                   [] k = "Aperture" -> {<<"float", <<355, 113>>>>}],
   packets |->
     {Packet(<<Plainly(<<Attribute("tiff:ImageWidth", Num(3))>>, <<>>),
               Plainly(<<>>, <<Leaf("exif:ApertureValue", <<"rational", 28, 10>>)>>)>>),
      Packet(<<Plainly(<<>>, <<Leaf("tiff:ImageWidth", Num(3))>>),
               Plainly(<<Attribute("tiff:ImageWidth", Num(2))>>, <<>>)>>),
      Packet(<<Plainly(<<Attribute("exif:ApertureValue", <<"rational", 1, 0>>),
                         Attribute("tiff:ImageWidth", Num(3))>>, <<>>)>>)}]

\* The flash byte and the members of its structure.
Flash ==
  [rows |-> <<Row("Flash", "exif:Flash", "Flash", "byte"),
              Row("Fired", "exif:Fired", "Boolean", "bool"),
              Row("Return", "exif:Return", "Integer", "int")>>,
   values |-> [k \in {"Flash", "Fired", "Return"} |->
                 CASE k = "Flash" -> {Num(31)}
                   [] k = "Fired" -> {<<"bool", TRUE>>}
                   [] k = "Return" -> {Num(2)}],
   packets |->
     {Packet(<<Plainly(<<>>, <<Branch("exif:Flash",
                 <<Leaf("exif:Fired", <<"bool", TRUE>>), Leaf("exif:Function", <<"bool", FALSE>>),
                   Leaf("exif:Mode", Num(1)), Leaf("exif:RedEyeMode", <<"bool", FALSE>>),
                   Leaf("exif:Return", Num(2))>>)>>)>>),
      Packet(<<Plainly(<<>>, <<Branch("exif:Flash", <<Leaf("exif:Fired", <<"bool", FALSE>>)>>)>>)>>)}]

\* Lists of many metadata, and what else is in the same composite.
Wide(letter) == <<"wide", <<letter, Terminator>>>>
ListTheme ==
  [rows |-> <<RowInMS("Title", "dc:title", "LangAlt", "wide", FALSE),
              RowInMS("Author", "dc:creator", "SeqString", "wide", TRUE),
              RowInMS("Keywords", "dc:subject", "BagString", "wide", TRUE)>>,
   values |-> [k \in {"Title", "Author", "Keywords"} |->
                 IF k = "Author" THEN {Wide("a"), Wide("b")} ELSE {Wide("a")}],
   packets |->
     {Packet(<<Plainly(<<>>, <<Alt0("dc:title", <<LangItem("fr", Str("f")), LangItem("x-default", Str("d"))>>),
                               Seq0("dc:creator", <<Str("a"), Str("c")>>)>>)>>),
      Packet(<<Plainly(<<>>, <<Bag0("dc:subject", <<Str("a")>>), Alt0("dc:title", <<LangItem("fr", Str("f"))>>)>>)>>)}]

\* Structures.
Tables ==
  [rows |-> <<Row("OECF", "exif:OECF", "OECF", "bytes"),
              Row("CFAPattern", "exif:CFAPattern", "CFAPattern", "bytes"),
              Row("DeviceSetting", "exif:DeviceSettingDescription", "DeviceSetting", "bytes")>>,
   values |-> [k \in {"OECF", "CFAPattern", "DeviceSetting"} |->
                 CASE k = "OECF" -> {Grid(1, 2, <<Str("n")>>, <<<<1, 2>>, <<3, 1>>>>),
                                     Grid(2, 1, <<Str("n")>>, <<>>)}
                   [] k = "CFAPattern" -> {Grid(2, 1, <<>>, <<0, 1>>)}
                   [] k = "DeviceSetting" -> {Grid(1, 1, <<>>, <<Str("s")>>), Grid(2, 1, <<>>, <<Str("s"), Str("t")>>)}],
   packets |->
     {Packet(<<Plainly(<<>>,
        <<Branch("exif:OECF", <<Leaf("exif:Columns", Num(1)), Leaf("exif:Rows", Num(1)),
                                Seq0("exif:Names", <<Str("n")>>), Seq0("exif:Values", <<<<"rational", 1, 2>>>>)>>),
          Branch("exif:CFAPattern", <<Leaf("exif:Columns", Num(2)), Leaf("exif:Rows", Num(1)),
                                      Seq0("exif:Values", <<Num(1), Num(2)>>)>>),
          Branch("exif:DeviceSettingDescription",
                 <<Leaf("exif:Columns", Num(2)), Seq0("exif:Values", <<Str("s")>>)>>)>>)>>)}]

\* Dates and coordinates.
Gps(minutes) == <<"gps", 45, 30, ".", minutes, 1, "N">>
Single ==
  [rows |-> <<Row("CaptureDate", "exif:DateTimeOriginal", "Date", "string"),
              Row("TimeStamp", "exif:GPSTimeStamp", "Date", "floats"),
              Row("Latitude", "exif:GPSLatitude", "GPSCoordinate", "floats")>>,
   values |-> [k \in {"CaptureDate", "TimeStamp", "Latitude"} |->
                 CASE k = "CaptureDate" -> {<<"datetime", <<2008, 12, 31, 23, 59, 58>>>>,
                                            <<"datetime", <<2008, 2, 0, 1, 2, 3>>>>}
                   [] k = "TimeStamp" -> {<<"floats", <<<<10, 1>>, <<20, 1>>, <<30, 1>>>>>>}
                   [] k = "Latitude" -> {<<"floats", <<<<45, 1>>, <<30, 1>>, <<61, 2>>>>>>}],
   packets |->
     {Packet(<<Plainly(<<Attribute("exif:DateTimeOriginal", <<"date", <<2007, 6>>, "">>),
                         Attribute("exif:GPSLatitude", Gps(5))>>, <<>>)>>),
      Packet(<<Plainly(<<>>, <<Leaf("exif:DateTimeOriginal", <<"date", <<2007, 6, 5, 4, 3, 2>>, "+hh:mm">>),
                               Leaf("exif:GPSLatitude", Str("x"))>>)>>)}]

\* Texts with markup, and a name space without a prefix.
Texts ==
  [rows |-> <<Row("Make", "tiff:Make", "String", "string"),
              RowInMS("Rating", "photo:Rating", "Integer", "int", FALSE)>>,
   values |-> [k \in {"Make", "Rating"} |->
                 IF k = "Make" THEN {Str("m"), Str("&")} ELSE {Num(5)}],
   packets |->
     {Packet(<<Plainly(<<>>, <<Leaf("tiff:Make", Str("&"))>>)>>),
      [Packet(<<Plainly(<<Attribute("photo:Rating", Num(4))>>, <<>>)>>)
         EXCEPT !.declares = {"photo"}]}]

\* Bytes, and a float that is a text.
Bytes ==
  [rows |-> <<Row("ExifVersion", "exif:ExifVersion", "String", "bytes"),
              Row("FrameRate", "dm:videoFrameRate", "String", "float")>>,
   values |-> [k \in {"ExifVersion", "FrameRate"} |->
                 IF k = "ExifVersion" THEN {<<"bytes", <<"v", "w">>>>, <<"bytes", <<"v", Terminator, "w">>>>}
                 ELSE {<<"float", <<25, 1>>>>, <<"float", <<26, 1>>>>}],
   packets |->
     {Packet(<<Plainly(<<Attribute("dm:videoFrameRate", Str("24"))>>, <<Leaf("exif:ExifVersion", Str("v"))>>)>>)}]

\* Lists of numbers.
Vectors ==
  [rows |-> <<Row("Components", "exif:ComponentsConfiguration", "SeqInteger", "ints"),
              Row("ISOSpeed", "exif:ISOSpeedRatings", "SeqInteger", "int"),
              Row("WhitePoint", "tiff:WhitePoint", "SeqRational", "floats")>>,
   values |-> [k \in {"Components", "ISOSpeed", "WhitePoint"} |->
                 CASE k = "Components" -> {<<"ints", <<1, 2>>>>} [] k = "ISOSpeed" -> {Num(200)}
                   [] k = "WhitePoint" -> {<<"floats", <<<<355, 113>>, <<1, 3>>>>>>}],
   packets |->
     {Packet(<<Plainly(<<>>, <<Seq0("exif:ISOSpeedRatings", <<Num(100)>>),
                               Seq0("tiff:WhitePoint", <<<<"rational", 1, 3>>>>)>>)>>),
      Packet(<<Plainly(<<>>, <<Seq0("tiff:WhitePoint", <<<<"rational", 1, 0>>>>)>>)>>)}]

\* A text in languages and a duration.
Composed ==
  [rows |-> <<Row("Copyright", "dc:rights", "LangAlt", "string"),
              Row("Duration", "dm:duration", "Time", "float")>>,
   values |-> [k \in {"Copyright", "Duration"} |->
                 IF k = "Copyright" THEN {Str("c"), Str("f")} ELSE {<<"float", <<3, 1>>>>}],
   packets |->
     {Packet(<<Plainly(<<>>, <<Alt0("dc:rights", <<LangItem("fr", Str("f")), LangItem("fr", Str("g"))>>)>>)>>),
      Packet(<<Plainly(<<>>, <<Alt0("dc:rights", <<LangItem("fr", Str("f")), LangItem("de", Str("g"))>>)>>),
               Plainly(<<>>, <<Branch("dm:duration", <<Leaf("mm:scale", <<"rational", 1, 2>>),
                                                        Leaf("mm:value", Num(4))>>)>>)>>)}]

MCTheme == {Shared, Flash, ListTheme, Tables, Single, Texts, Bytes, Vectors, Composed}

MCKey ==
  {"rdf:RDF", "rdf:Description", "rdf:Seq", "rdf:Bag", "rdf:Alt", "rdf:li", "xml:lang"}
  \cup UNION {{t.rows[i].tag : i \in DOMAIN t.rows} : t \in MCTheme}
=============================================================================
