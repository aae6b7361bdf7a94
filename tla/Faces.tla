------------------------------- MODULE Faces -------------------------------
(***************************************************************************)
(* The faces of an image: the metadata SceneContent.Faces.Object and the   *)
(* value the Exif accessor stores of them, which PmtFaceTranslator makes   *)
(* of one another.                                                         *)
(*                                                                         *)
(* A scene is the sequence of its objects, each with the sequence of its   *)
(* features; what has not been created is NotThere, or Untyped.            *)
(***************************************************************************)
EXTENDS FaceAtoms

CONSTANTS
  FaceFiles,      \* values of other writers: sequences of bytes
  FaceFeatures,   \* what a user may set: a type and a text
  FaceIds, FaceNames,
  MaxFaces, MaxFeatures, MaxEdits

VARIABLES
  scene,
  edits     \* changes a user has made, at most MaxEdits

faceVars == <<scene, edits>>

NotThere == <<"not there">>
Untyped == "not there"

EmptyFeature == [type |-> Untyped, data |-> NotThere, value |-> NotThere]
EmptyObject == [type |-> Untyped, id |-> NotThere, name |-> NotThere, features |-> <<>>]

\* Feature types and their atoms, in the order they are looked for.
FeatureTypes ==
  <<<<"LeftEye", "leye">>, <<"RightEye", "reye">>, <<"Outline", "fout">>,
    <<"LeftOuterEyeCoordinate", "LOEC">>, <<"LeftInnerEyeCoordinate", "LIEC">>,
    <<"RightOuterEyeCoordinate", "ROEC">>, <<"RightInnerEyeCoordinate", "RIEC">>,
    <<"LeftMouthCenterPoint", "LMCP">>, <<"RightMouthCenterPoint", "RMCP">>,
    <<"FacePosePitchAngle", "FPPA">>, <<"FacePoseYawAngle", "FPYA">>,
    <<"FacePoseRotationAngle", "FPRA">>, <<"FacePoseConfidenceLevel", "FPCL">>,
    <<"UserConfirmation", "uCON">>, <<"OKAOData", "FEAD">>>>

TypesOfFeatures == {t[1] : t \in Range(FeatureTypes)}
AtomOfFeature(type) == (CHOOSE t \in Range(FeatureTypes) : t[1] = type)[2]

\* getMetadatum that creates: those before it are created too.
CreatedTo(list, n, empty) ==
  IF n <= Len(list) THEN list ELSE list \o [i \in 1 .. n - Len(list) |-> empty]

-----------------------------------------------------------------------------
\* PmtFaceTranslator::assign

\* A feature found in a face: a confirmation is a Value, anything else Data.
ReadFeature(feature, type, text) ==
  IF type = "UserConfirmation" THEN [feature EXCEPT !.type = type, !.value = text]
  ELSE [feature EXCEPT !.type = type, !.data = text]

\* The first feature goes to Feature[1].
ReadFeatures(features, bytes, atoms) ==
  LET found == SelectSeq(FeatureTypes, LAMBDA t : HasAtom(atoms, t[2]))
      created == IF found = <<>> THEN features ELSE CreatedTo(features, Len(found) + 1, EmptyFeature)
      Text(t) == TextOfAtom(bytes, FirstAtom(atoms, t[2]), RepresentationFor(bytes, atoms, t[2]))
  IN  [i \in DOMAIN created |->
         IF i - 1 \in DOMAIN found
         THEN ReadFeature(created[i], found[i - 1][1], Text(found[i - 1])) ELSE created[i]]

ReadFace(object, bytes, atoms) ==
  [object EXCEPT
     !.type = "face",
     !.id = IF HasAtom(atoms, "obID") THEN ReadAscii(bytes, FirstAtom(atoms, "obID")) ELSE @,
     !.name = IF HasAtom(atoms, "obNa") THEN ReadUnicode(bytes, FirstAtom(atoms, "obNa")) ELSE @,
     !.features = ReadFeatures(@, bytes, atoms)]

\* valueToMetadata: the objects that are there are not counted, for getMetadata does not
\* answer with composites, and the first face goes to Object[1].
RECURSIVE ReadFrom(_, _, _, _)
ReadFrom(objects, bytes, readsize, facecount) ==
  LET face == NextFaceAtom(bytes, readsize, Len(bytes) - readsize)
      created == CreatedTo(objects, facecount + 2, EmptyObject)
  IN  IF readsize >= Len(bytes) THEN objects
      ELSE ReadFrom([created EXCEPT ![facecount + 2] = ReadFace(@, bytes, ReadContainer(bytes, face))],
                    bytes, readsize + face.size + 8, facecount + 1)

ReadFaces(objects, bytes) == ReadFrom(objects, bytes, 0, 0)

\* Objects that have a type
Typed(objects) == SelectSeq(objects, LAMBDA o : o.type # Untyped)

\* Data, or else Value; Data that is there hides Value.
TextOfFeature(feature) == IF feature.data # NotThere THEN feature.data ELSE feature.value

HasText(feature) ==
  /\ feature.type \in TypesOfFeatures
  /\ TextOfFeature(feature) \notin {NotThere, <<"floats", <<>>>>, <<"word", "">>}

WriteFeature(feature) ==
  FaceAtom(AtomOfFeature(feature.type), FacePayload(AtomOfFeature(feature.type), TextOfFeature(feature)))

OrEmpty(text) == IF text = NotThere THEN <<>> ELSE text

WriteFace(object) ==
  LET features == SelectSeq(object.features, HasText)
  IN  FaceAtom("ffob",
           FaceAtom("fpdt", Representation(1))
           \o FaceAtom("obID", AsciiPayload(OrEmpty(object.id)))
           \o FaceAtom("obNa", UnicodePayload(OrEmpty(object.name)))
           \o FlattenSeq([i \in DOMAIN features |-> WriteFeature(features[i])]))

WriteFaces(objects) == FlattenSeq([i \in DOMAIN Typed(objects) |-> WriteFace(Typed(objects)[i])])

\* What writing creates in the metadata.
LookedAt(object) ==
  IF object.type = Untyped THEN object
  ELSE [object EXCEPT !.id = OrEmpty(@), !.name = OrEmpty(@),
                      !.features = [i \in DOMAIN @ |->
                         [@[i] EXCEPT !.type = IF @ = Untyped THEN "" ELSE @]]]

-----------------------------------------------------------------------------
\* Calls

\* A file is read, by a new accessor or into the metadata of the file before.
OpenFaces ==
  \E bytes \in FaceFiles, objects \in {<<>>, scene} :
    scene' = ReadFaces(objects, bytes) /\ UNCHANGED edits

\* assign to a value.  The Exif accessor's setMdValue would pass SceneContent.Faces to
\* it, but climbs past that composite: a caller of the translator writes faces.
SaveFaces ==
  /\ Typed(scene) # <<>>
  /\ scene' = [i \in DOMAIN scene |-> LookedAt(scene[i])]
  /\ UNCHANGED edits

\* The file that was saved is read again, in the same two ways.
ReopenFaces ==
  /\ Len(Typed(scene)) \in 1 .. MaxFaces
  /\ \E objects \in {<<>>, [i \in DOMAIN scene |-> LookedAt(scene[i])]} :
       scene' = ReadFaces(objects, WriteFaces(scene))
  /\ UNCHANGED edits

Edited == edits < MaxEdits /\ edits' = edits + 1

SetFeature ==
  /\ Edited
  /\ \E i \in 1 .. MaxFaces, j \in 1 .. MaxFeatures, set \in FaceFeatures :
       LET objects == CreatedTo(scene, i, EmptyObject)
           features == CreatedTo(objects[i].features, j, EmptyFeature)
       IN  scene' = [objects EXCEPT
                       ![i].type = "face",
                       ![i].features = [features EXCEPT ![j] = ReadFeature(@, set[1], set[2])]]

SetNames ==
  /\ Edited
  /\ \E i \in DOMAIN scene, id \in FaceIds, name \in FaceNames :
       scene' = [scene EXCEPT ![i].id = id, ![i].name = name]

\* deleteMetadata of an object: those behind it move up.
DeleteObject ==
  /\ Edited
  /\ \E i \in DOMAIN scene : scene' = RemoveAt(scene, i)

FacesInit == scene = <<>> /\ edits = 0

FacesNext == OpenFaces \/ SaveFaces \/ ReopenFaces \/ SetFeature \/ SetNames \/ DeleteObject

FacesSpec == FacesInit /\ [][FacesNext]_faceVars

-----------------------------------------------------------------------------
\* Properties

\* The texts given for a type, of which the first counts.
TextsGiven(object, type) ==
  SelectSeq(object.features, LAMBDA f : f.type = type /\ HasText(f))

\* What may be lost of a coordinate: nothing up to ten, and above it less than one of
\* the last of eight digits, or just that one where the double is below the decimal.
Loss(v) == IF v <= 10 * Million THEN 0 ELSE 10 ^ (Tens(v) - 2)

Exact(text) == text[1] = "word" \/ \A i \in DOMAIN text[2] : Loss(text[2][i]) = 0

\* What is stored of a text: whole degrees, bytes, words that are known, coordinates but
\* for their loss.
StoredAs(type, text, stored) ==
  CASE AtomOfFeature(type) \in Angles \cup {"FPCL"} ->
         stored = <<"floats", <<ToInt(text[2][1]) * Million>>>>
    [] type = "UserConfirmation" ->
         stored = <<"word", IF text[1] = "word" /\ text[2] \in Range(Confirmations)
                            THEN text[2] ELSE "Unknown">>
    [] type = "OKAOData" ->
         stored = <<"floats", [i \in DOMAIN text[2] |-> (ToInt(text[2][i]) % 256) * Million]>>
    [] OTHER ->
         /\ stored[1] = "floats" /\ Len(stored[2]) = Len(text[2])
         /\ \A i \in DOMAIN text[2] : text[2][i] - stored[2][i] \in 0 .. Loss(text[2][i])

\* A coordinate below -21.47 has no place in an int, nor has a confidence of more than
\* two bytes in a short.
Fits(type, text) ==
  text[1] = "word" \/ \A i \in DOMAIN text[2] :
    /\ text[2][i] > -21474836
    /\ type = "FacePoseConfidenceLevel" => ToInt(text[2][i]) \in 0 .. 65535

\* Faces that are saved read back, in their order: their ids, the whole pairs of their
\* names, and of each type of feature the first one that has a text, whatever was read,
\* set and deleted before and wherever in the metadata it was put, but for the last
\* decimals of coordinates above ten; and a scene that was read and has none of those is
\* saved and read again as the same (PmtFaceTranslator::assign, the atoms' writeAtom and
\* readAtom; a face begins where the size of the one before says).
FacesReadBack ==
  LET given == Typed(scene)
      read == ReadFaces(<<>>, WriteFaces(scene))
      faces == Typed(read)
  IN  /\ Len(faces) = Len(given)
      /\ \A i \in DOMAIN given :
           /\ faces[i].id = OrEmpty(given[i].id)
           /\ faces[i].name = Even(OrEmpty(given[i].name))
           /\ \A type \in TypesOfFeatures :
                LET texts == TextsGiven(given[i], type)
                    back == TextsGiven(faces[i], type)
                IN  IF texts = <<>> THEN back = <<>>
                    ELSE /\ Len(back) = 1
                         /\ Fits(type, TextOfFeature(texts[1])) =>
                              StoredAs(type, TextOfFeature(texts[1]), TextOfFeature(back[1]))
      /\ (\A i \in DOMAIN read : \A j \in DOMAIN read[i].features :
            HasText(read[i].features[j]) => Exact(TextOfFeature(read[i].features[j])))
         => ReadFaces(<<>>, WriteFaces(read)) = read
=============================================================================
