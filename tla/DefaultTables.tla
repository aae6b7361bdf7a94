---------------------------- MODULE DefaultTables ----------------------------
(***************************************************************************)
(* The two tables that are compiled into the toolkit, generated from the   *)
(* XML files of DefaultDefinitions: the default schema, one row for each   *)
(* tag of it, and the default translation table, one row for each key.     *)
(*                                                                         *)
(* Of a leaf, the row keeps the type its code stands for, of a row of the  *)
(* translation table the entries of the formats that are translated, Exif  *)
(* and TIFF: where the entry is, and the rows of the other formats, whose  *)
(* accessors convert by themselves, are left out, as is the documentation. *)
(***************************************************************************)
EXTENDS Sequences

-----------------------------------------------------------------------------
\* The rows of the schema.  An end tag has the key of what it ends, and a repeated
\* composite that of its first occurrence.

Tag(name, code, vector) == [name |-> name, code |-> code, vector |-> vector, many |-> FALSE]
Begin(name) == Tag(name, "composite", FALSE)
End(name) == Tag(name, "end", FALSE)
Many(row) == [row EXCEPT !.many = TRUE]

InSequence(items) == <<Begin("xsd:sequence")>> \o items \o <<End("xsd:sequence")>>
Composite(name, items) == <<Begin(name)>> \o InSequence(items) \o <<End(name)>>
Repeated(name, items) == <<Many(Begin(name))>> \o InSequence(items) \o <<End(name \o "[1]")>>

Bool(name) == Tag(name, "BOOL", FALSE)
U8(name) == Tag(name, "UINT8", FALSE)
VU8(name) == Tag(name, "UINT8", TRUE)
VI16(name) == Tag(name, "INT16", TRUE)
U16(name) == Tag(name, "UINT16", FALSE)
VU16(name) == Tag(name, "UINT16", TRUE)
I32(name) == Tag(name, "INT32", FALSE)
VI32(name) == Tag(name, "INT32", TRUE)
U32(name) == Tag(name, "UINT32", FALSE)
VU32(name) == Tag(name, "UINT32", TRUE)
Fl(name) == Tag(name, "FLOAT", FALSE)
VFl(name) == Tag(name, "FLOAT", TRUE)
Str(name) == Tag(name, "STRING", FALSE)

Flash == Composite("Flash",
  <<U8("Flash"), Bool("Fired"), U8("Return"), Fl("Energy") >>)

CaptureConditions == Composite("CaptureConditions",
  <<Fl("Aperture"), Fl("BatteryLevel"), Fl("Brightness"), U8("Contrast"),
    U8("CustomRendered"), VU8("DeviceSettingDescription"), Fl("DigitalZoomRatio"),
    Fl("ExposureBias"), Fl("ExposureIndex"), U8("ExposureMode"), U8("ExposureProgram"),
    Fl("ExposureTime") >> \o
  Flash \o
  <<Fl("Fnumber"), Fl("FocalLength"), U16("FocalLengthIn35mmFilm"), U8("GainControl"),
    U32("ImageNumber"), U8("LightSource"), Fl("Magnification"), Fl("MaxAperture"),
    U8("MeteringMode"), U8("PAR"), U16("PrintQuantity"), U8("Saturation"),
    U8("SceneCaptureType"), Str("SecurityClassification"), U16("SelfTimerMode"),
    U8("Sharpness"), Fl("ShutterSpeed"), VU16("SubjectArea"), Fl("SubjectDistance"),
    U8("SubjectDistanceRange"), U8("WhiteBalance") >>)

CameraOwner == Composite("CameraOwner",
  <<Str("CameraOwner"), VU8("EK") >>)

Scanner == Composite("Scanner",
  <<Str("ModelAndVersion") >>)

SerialNumber == Composite("SerialNumber",
  <<VU8("Camera") >>)

CaptureDevice == Composite("CaptureDevice",
  <<VU8("CFAPattern"), VU16("CFARepeatPatternDim") >> \o
  CameraOwner \o
  <<VU8("FID"), U8("FilmCategory"), Str("FilmGencode"), Str("FilmProductCode"),
    U8("FilmSize"), U8("FocalPlaneResolutionUnit"), Fl("FocalPlaneXResolution"),
    Fl("FocalPlaneYResolution"), Str("HostComputer"), U16("ISOSpeedRating"),
    U16("Interlace"), Str("Make"), VU8("MakerNotes"), Str("Model"),
    U16("NativePhysicalResolutionUnit"), Fl("NativePhysicalXResolution"),
    Fl("NativePhysicalYResolution"), VU8("Noise"), VU8("OECF") >> \o
  Scanner \o
  <<U8("SensingMethod") >> \o
  SerialNumber \o
  <<Str("Software"), VU8("SpatialFrequencyResponse"), Str("SpectralSensitivity"),
    Str("Type") >>)

History == Composite("History",
  <<VU16("EditTagArray"), VU8("SBAExposureRecord"), VU16("SBAInputImageBitDepth"),
    U16("SBAInputImageColorspace"), VI32("SBARGBShifts"), VI32("UserAdjSBARGBShifts") >>)

SOF == Composite("SOF",
  <<Str("ChrominanceSampling"), U16("Components"), U32("Height"), VU8("HorizontalSampling"),
    U16("Precision"), VU8("VerticalSampling"), U32("Width") >>)

Jpeg == Composite("Jpeg",
  <<VU8("AlphaQTable"), VU8("Chroma1QTable"), VU8("Chroma2QTable"), VU8("LuminQTable") >> \o
  SOF)

PrinterDock == Composite("PrinterDock",
  <<VU8("ImageLinkVersion"), U8("UseOfImageLinkPartnerColorPreferenceData"),
    U16("ImageLinkPartnerColorPreferenceDataType"),
    VU8("ImageLinkPartnerColorPreferenceData") >>)

DigitalProcess == Composite("DigitalProcess",
  <<U16("CellLength"), U16("CellWidth"), U16("EnhancementPathUtilized"),
    U32("CompletedImageProcessing"), Str("EnhancementPathVersionNumber"),
    VU16("HalftoneHints") >> \o
  History \o
  <<VU8("ICCProfile"), Str("ImageFileChangeDateTime"), Str("ImageFileCreationDateTime"),
    Str("ImageFileCreationSubSecond"), U8("ImagePrintStatus"), U8("ImageRotationStatus"),
    U8("ImageSource"), U16("ImageSourceEK"), U16("ImageState") >> \o
  Jpeg \o
  PrinterDock \o
  <<VU8("RollGuid"), U16("ScanFrameSequenceNumber"), U16("Thresholding") >>)

Interoperability == Composite("Interoperability",
  <<Str("Index"), VU8("Version") >>)

Movie == Composite("Movie",
  <<Fl("Duration"), Fl("FrameRate"), U32("FrameCount"), Fl("SoundSampleRate"),
    Str("SpecialHardwareAndSoftwareRequirements"), I32("TimeScale") >>)

Thumbnail == Composite("Thumbnail",
  <<VU16("BitsPerSample"), U32("BytesOfJPEGData"), U16("Compression"),
    U8("DisplayResolutionUnit"), Fl("DisplayXResolution"), Fl("DisplayYResolution"),
    U32("Height"), U32("OffsetToJPEGSOI"), U8("Orientation"),
    U8("PhotometricInterpretation"), U8("PlanarConfiguration"), U32("RowsPerStrip"),
    U16("SamplesPerPixel"), VU32("StripByteCounts"), VU32("StripOffsets"), U32("Width"),
    VFl("YCbCrCoefficients"), U8("YCbCrPositioning"), VU16("YCbCrSubSampling") >>)

ImageContainer == Composite("ImageContainer",
  <<U32("ActualImageHeight"), U32("ActualImageWidth"), VU16("BitsPerSample"),
    U16("ColorSpaceInformation"), VU8("ComponentsConfiguration"),
    Fl("CompressedBitsPerPixel"), U16("Compression"), U8("DisplayResolutionUnit"),
    Fl("DisplayXResolution"), Fl("DisplayYResolution"), VU8("ExifVersion"),
    VU8("FlashpixVersion"), Fl("Gamma"), U32("Height"), VU8("IPTC_NAA"),
    Str("ImageUniqueID") >> \o
  Interoperability \o
  <<VU8("MetadataNumber") >> \o
  Movie \o
  <<U8("Orientation"), U8("PhotometricInterpretation"), U8("PlanarConfiguration"),
    VFl("PrimaryChromaticities"), VFl("ReferenceBlackWhite"), U32("RowsPerStrip"),
    U16("SamplesPerPixel"), U16("SoundType"), VU8("SourceImageDirectory"),
    VU8("SourceImageFileName"), VU8("SourceImageVolumeName"), VU32("StripByteCounts"),
    VU32("StripOffsets"), VU32("SubIfdPointers") >> \o
  Thumbnail \o
  <<VU8("TiffepVersion"), VU16("TransferFunction"), VU16("TransferRange"),
    VFl("WhitePoint"), U32("Width"), VFl("YCbCrCoefficients"), U8("YCbCrPositioning"),
    VU16("YCbCrSubSampling") >>)

IntellectualProperty == Composite("IntellectualProperty",
  <<Str("Copyright"), Str("ImageCreator"), Str("Photographer") >>)

Information == Composite("Information",
  <<VU8("DealerIDNumber"), VU8("EnvelopeNumber"), VU8("VendorOrderNumber") >>)

SimpleRenderInst == Composite("SimpleRenderInst",
  <<U16("FrameNumber") >>)

OutputOrder == Composite("OutputOrder",
  Information \o
  SimpleRenderInst)

GPS == Composite("GPS",
  <<Fl("Altitude"), U8("AltitudeRef"), VU8("AreaInformation"), Str("DateStamp"), Fl("DOP"),
    Fl("DestBearing"), Str("DestBearingRef"), Fl("DestDistance"), Str("DestDistanceRef"),
    VFl("DestLatitude"), Str("DestLatitudeRef"), VFl("DestLongitude"),
    Str("DestLongitudeRef"), U8("Differential"), Fl("ImgDirection"), Str("ImgDirectionRef"),
    VFl("Latitude"), Str("LatitudeRef"), VFl("Longitude"), Str("LongitudeRef"),
    Str("MapDatum"), Str("MeasureMode"), VU8("ProcessingMethod"), Str("Satellites"),
    Fl("Speed"), Str("SpeedRef"), Str("Status"), VFl("TimeStamp"), Fl("Track"),
    Str("TrackRef"), VU8("VersionID") >>)

GroupCaption == Composite("GroupCaption",
  <<Str("GroupCaption"), Str("UserInputGroupTitle"), VU8("UserSelectGroupTitle") >>)

ImageCaptureDateTime == Composite("ImageCaptureDateTime",
  <<Str("ImageCaptureDateTime"), Str("ImageCaptureSubSecondTime"), VI16("TimeZoneOffset") >>)

Feature == Repeated("Feature",
  <<Str("Type"), VFl("Data"), Str("Value") >>)

Object == Repeated("Object",
  <<Str("Type"), Str("ID"), VU8("Name"), Str("Reference") >> \o
  Feature)

Faces == Composite("Faces",
  <<Str("DetectionAlgorithmID"), Str("RecognitionAlgorithmID"), U16("CartesianZeroPoint") >> \o
  Object)

MS == Composite("MS",
  <<Many(VU8("Author")), VU8("Comments"), Many(VU8("Keywords")), U16("PhotoRating"),
    U16("Rating"), VU8("Subject"), VU8("Title") >>)

UserComment == Composite("UserComment",
  MS \o
  <<VU8("UserComment"), Str("UserInputFrameTitle"), Str("UserSelectFrameTitle") >>)

SceneContent == Composite("SceneContent",
  <<VU8("Audio") >> \o
  GPS \o
  GroupCaption \o
  ImageCaptureDateTime \o
  <<Str("ImageDescription"), Str("RelatedSoundFile") >> \o
  Faces \o
  <<U8("SceneType"), Str("SoundCaptureDateTime"), VU16("SubjectLocation") >> \o
  UserComment)

XMP == Composite("XMP",
  <<Str("Document") >>)

PmtDefaultPreparsedSchema == Composite("PmtRootElement",
  CaptureConditions \o
  CaptureDevice \o
  DigitalProcess \o
  ImageContainer \o
  IntellectualProperty \o
  OutputOrder \o
  SceneContent \o
  XMP)

-----------------------------------------------------------------------------
\* The rows of the translation table: a key, the URI the metadata get, and the entries.
\* Two entries of one type in two directories are one here.

Row(key, uri, entries) == [key |-> key, uri |-> uri, entries |-> entries]

\* The URI is made of the key.
Own(key, entries) == Row(key, "pmt:" \o key, entries)

Entry(format, type, translator) == {[format |-> format, type |-> type, translator |-> translator]}
Exif(type, translator) == Entry("EXIF", type, translator)
Tiff(type, translator) == Entry("TIFF", type, translator)
Both(type, translator) == Exif(type, translator) \cup Tiff(type, translator)
Text == Exif("ascii", "ascii") \cup Tiff("ascii", "string")
None == {}

Rows1 == <<
  Own("SceneContent.Audio", Both("audio", "undefined")),
  Row("ImageContainer.Width", "tiff:ImageWidth", Both("ulong", "ulong")),
  Row("ImageContainer.Height", "tiff:ImageLength", Both("ulong", "ulong")),
  Row("ImageContainer.BitsPerSample", "tiff:BitsPerSample", Both("ushort", "ushort")),
  Row("ImageContainer.Compression", "tiff:Compression", Both("ushort", "ushort")),
  Row("ImageContainer.PhotometricInterpretation", "tiff:PhotometricInterpretation", Both("ushort", "ushort")),
  Row("SceneContent.ImageDescription", "tiff:ImageDescription", Text),
  Row("CaptureDevice.Make", "tiff:Make", Text),
  Row("CaptureDevice.Model", "tiff:Model", Text) >>

Rows2 == <<
  Own("ImageContainer.StripOffsets", Both("ulong", "ulong")),
  Row("ImageContainer.Orientation", "tiff:Orientation", Both("ushort", "ushort")),
  Row("ImageContainer.SamplesPerPixel", "tiff:SamplesPerPixel", Both("ushort", "ushort")),
  Own("ImageContainer.RowsPerStrip", Both("ulong", "ulong")),
  Own("ImageContainer.StripByteCounts", Both("ulong", "ulong")),
  Row("ImageContainer.DisplayXResolution", "tiff:XResolution", Both("urational", "float")),
  Row("ImageContainer.DisplayYResolution", "tiff:YResolution", Both("urational", "float")),
  Own("ImageContainer.PlanarConfiguration", Both("ushort", "ushort")),
  Row("ImageContainer.DisplayResolutionUnit", "tiff:ResolutionUnit", Both("ushort", "ushort")),
  Row("ImageContainer.TransferFunction", "tiff:TransferFunction", Both("ushort", "ushort")),
  Row("CaptureDevice.Software", "tiff:Software", Text) >>

Rows3 == <<
  Row("DigitalProcess.ImageFileChangeDateTime", "tiff:DateTime", Text),
  Row("CaptureDevice.CameraOwner.CameraOwner", "tiff:Artist", Text),
  Row("IntellectualProperty.ImageCreator", "tiff:Artist", Text),
  Row("IntellectualProperty.Photographer", "tiff:Artist", Text),
  Row("ImageContainer.WhitePoint", "tiff:WhitePoint", Both("urational", "float")),
  Row("ImageContainer.PrimaryChromaticities", "tiff:PrimaryChromaticities", Both("urational", "float")),
  Own("ImageContainer.SubIfdPointers", Tiff("ulong", "ulong")),
  Row("ImageContainer.YCbCrCoefficients", "tiff:YCbCrCoefficients", Both("urational", "float")),
  Row("ImageContainer.YCbCrSubSampling", "tiff:YCbCrSubSampling", Both("ushort", "ushort")),
  Row("ImageContainer.YCbCrPositioning", "tiff:YCbCrPositioning", Both("ushort", "ushort")) >>

Rows4 == <<
  Row("ImageContainer.ReferenceBlackWhite", "tiff:ReferenceBlackWhite", Both("urational", "float")),
  Row("IntellectualProperty.Copyright", "tiff:Copyright", Text),
  Own("ImageContainer.IPTC_NAA", Both("undefined", "undefined")),
  Row("CaptureConditions.ExposureTime", "exif:ExposureTime", Both("urational", "float")),
  Row("CaptureConditions.Fnumber", "exif:Fnumber", Both("urational", "float")),
  Row("CaptureConditions.ExposureProgram", "exif:ExposureProgram", Both("ushort", "ushort")),
  Row("CaptureDevice.SpectralSensitivity", "exif:SpectralSensitivity", Text),
  Row("CaptureDevice.ISOSpeedRating", "exif:ISOSpeedRatings", Both("ushort", "ushort")) >>

Rows5 == <<
  Row("CaptureDevice.OECF", "exif:OECF", Both("undefined", "undefined")),
  Row("ImageContainer.ExifVersion", "exif:ExifVersion", Both("undefined", "undefined")),
  Row("SceneContent.ImageCaptureDateTime.ImageCaptureDateTime", "exif:DateTimeOriginal", Text),
  Own("SceneContent.ImageCaptureDateTime.ImageCaptureSubSecondTime", Text),
  Row("DigitalProcess.ImageFileCreationDateTime", "exif:DateTimeDigitized", Text),
  Own("DigitalProcess.ImageFileCreationSubSecond", Text),
  Row("ImageContainer.ComponentsConfiguration", "exif:ComponentsConfiguration", Both("undefined", "undefined")),
  Row("ImageContainer.CompressedBitsPerPixel", "exif:CompressedBitsPerPixel", Both("urational", "float")),
  Row("CaptureConditions.ShutterSpeed", "exif:ShutterSpeedValue", Exif("rational", "float") \cup Tiff("urational", "float")) >>

Rows6 == <<
  Row("CaptureConditions.Aperture", "exif:ApertureValue", Both("urational", "float")),
  Row("CaptureConditions.Brightness", "exif:BrightnessValue", Both("rational", "float")),
  Row("CaptureConditions.ExposureBias", "exif:ExposureBiasValue", Both("rational", "float")),
  Row("CaptureConditions.MaxAperture", "exif:MaxApertureValue", Both("urational", "float")),
  Row("CaptureConditions.SubjectDistance", "exif:SubjectDistance", Exif("urational", "float") \cup Tiff("rational", "float")),
  Row("CaptureConditions.MeteringMode", "exif:MeteringMode", Both("ushort", "ushort")),
  Row("CaptureConditions.LightSource", "exif:LightSource", Both("ushort", "ushort")),
  Row("CaptureConditions.Flash.Flash", "exif:Flash", Both("ushort", "ushort")) >>

Rows7 == <<
  Row("CaptureConditions.FocalLength", "exif:FocalLength", Both("urational", "float")),
  Row("CaptureConditions.SubjectArea", "exif:SubjectArea", Both("ushort", "ushort")),
  Own("CaptureDevice.MakerNotes", Both("undefined", "undefined")),
  Own("SceneContent.UserComment.UserComment", Both("undefined", "undefined")),
  Row("ImageContainer.FlashpixVersion", "exif:FlashpixVersion", Both("undefined", "undefined")),
  Row("ImageContainer.ColorSpaceInformation", "exif:ColorSpace", Both("ushort", "ushort")),
  Row("ImageContainer.Width", "tiff:ImageWidth", Both("ulong", "ulong")),
  Row("ImageContainer.ActualImageWidth", "kodak-tiff:ActualImageWidth", Both("ulong", "ulong")),
  Row("ImageContainer.Height", "tiff:ImageLength", Both("ulong", "ulong")) >>

Rows8 == <<
  Row("ImageContainer.ActualImageHeight", "kodak-tiff:ActualImageLength", Both("ulong", "ulong")),
  Row("SceneContent.RelatedSoundFile", "exif:RelatedSoundFile", Text),
  Row("CaptureConditions.Flash.Energy", "exif:FlashEnergy", Both("urational", "float")),
  Row("CaptureDevice.SpatialFrequencyResponse", "exif:SpatialFrequencyResponse", Both("undefined", "undefined")),
  Row("CaptureDevice.FocalPlaneXResolution", "exif:FocalPlaneXResolution", Both("urational", "float")),
  Row("CaptureDevice.FocalPlaneYResolution", "exif:FocalPlaneYResolution", Both("urational", "float")),
  Row("CaptureDevice.FocalPlaneResolutionUnit", "exif:FocalPlaneResolutionUnit", Both("ushort", "ushort")),
  Row("SceneContent.SubjectLocation", "exif:SubjectLocation", Both("ushort", "ushort")) >>

Rows9 == <<
  Row("CaptureConditions.ExposureIndex", "exif:ExposureIndex", Both("urational", "float")),
  Row("CaptureDevice.SensingMethod", "exif:SensingMethod", Both("ushort", "ushort")),
  Row("DigitalProcess.ImageSource", "exif:FileSource", Both("undefined", "undefined")),
  Row("SceneContent.SceneType", "exif:SceneType", Both("undefined", "undefined")),
  Row("CaptureDevice.CFAPattern", "exif:CFAPattern", Both("undefined", "undefined")),
  Row("CaptureConditions.CustomRendered", "exif:CustomRendered", Both("ushort", "ushort")),
  Row("CaptureConditions.ExposureMode", "exif:ExposureMode", Both("ushort", "ushort")),
  Row("CaptureConditions.WhiteBalance", "exif:WhiteBalance", Both("ushort", "ushort")),
  Row("CaptureConditions.DigitalZoomRatio", "exif:DigitalZoomRatio", Both("urational", "float")) >>

Rows10 == <<
  Row("CaptureConditions.FocalLengthIn35mmFilm", "exif:FocalLengthIn35mmFilm", Both("ushort", "ushort")),
  Row("CaptureConditions.SceneCaptureType", "exif:SceneCaptureType", Both("ushort", "ushort")),
  Row("CaptureConditions.GainControl", "exif:GainControl", Both("ushort", "ushort")),
  Row("CaptureConditions.Contrast", "exif:Contrast", Both("ushort", "ushort")),
  Row("CaptureConditions.Saturation", "exif:Saturation", Both("ushort", "ushort")),
  Row("CaptureConditions.Sharpness", "exif:Sharpness", Both("ushort", "ushort")),
  Row("CaptureConditions.DeviceSettingDescription", "exif:DeviceSettingDescription", Both("undefined", "undefined")),
  Row("CaptureConditions.SubjectDistanceRange", "exif:SubjectDistanceRange", Both("ushort", "ushort")),
  Row("ImageContainer.ImageUniqueID", "exif:ImageUniqueID", Text),
  Own("ImageContainer.Gamma", Both("urational", "float")),
  Own("ImageContainer.Interoperability.Index", Exif("ascii", "ascii")) >>

Rows11 == <<
  Own("ImageContainer.Interoperability.Version", Exif("undefined", "undefined")),
  Row("SceneContent.GPS.VersionID", "exif:GPSVersionID", Both("ubyte", "uchar")),
  Own("SceneContent.GPS.LatitudeRef", Text),
  Row("SceneContent.GPS.Latitude", "exif:GPSLatitude", Both("urational", "float")),
  Own("SceneContent.GPS.LongitudeRef", Text),
  Row("SceneContent.GPS.Longitude", "exif:GPSLongitude", Both("urational", "float")),
  Row("SceneContent.GPS.AltitudeRef", "exif:GPSAltitudeRef", Both("ubyte", "uchar")),
  Row("SceneContent.GPS.Altitude", "exif:GPSAltitude", Both("urational", "float")),
  Row("SceneContent.GPS.TimeStamp", "exif:GPSTimeStamp", Both("urational", "float")),
  Row("SceneContent.GPS.Satellites", "exif:GPSSatellites", Text),
  Row("SceneContent.GPS.Status", "exif:GPSStatus", Text) >>

Rows12 == <<
  Row("SceneContent.GPS.MeasureMode", "exif:GPSMeasureMode", Text),
  Row("SceneContent.GPS.DOP", "exif:GPSDOP", Both("urational", "float")),
  Row("SceneContent.GPS.SpeedRef", "exif:GPSSpeedRef", Text),
  Row("SceneContent.GPS.Speed", "exif:GPSSpeed", Both("urational", "float")),
  Row("SceneContent.GPS.TrackRef", "exif:GPSTrackRef", Text),
  Row("SceneContent.GPS.Track", "exif:GPSTrack", Both("urational", "float")),
  Row("SceneContent.GPS.ImgDirectionRef", "exif:GPSImgDirectionRef", Text),
  Row("SceneContent.GPS.ImgDirection", "exif:GPSImgDirection", Both("urational", "float")),
  Row("SceneContent.GPS.MapDatum", "exif:GPSMapDatum", Text),
  Own("SceneContent.GPS.DestLatitudeRef", Text),
  Row("SceneContent.GPS.DestLatitude", "exif:GPSDestLatitude", Both("urational", "float")) >>

Rows13 == <<
  Own("SceneContent.GPS.DestLongitudeRef", Text),
  Row("SceneContent.GPS.DestLongitude", "exif:GPSDestLongitude", Both("urational", "float")),
  Row("SceneContent.GPS.DestBearingRef", "exif:GPSDestBearingRef", Text),
  Row("SceneContent.GPS.DestBearing", "exif:GPSDestBearing", Both("urational", "float")),
  Row("SceneContent.GPS.DestDistanceRef", "exif:GPSDestDistanceRef", Text),
  Row("SceneContent.GPS.DestDistance", "exif:GPSDestDistance", Both("urational", "float")),
  Row("SceneContent.GPS.ProcessingMethod", "exif:GPSProcessingMethod", Exif("undefined", "undefined")),
  Row("SceneContent.GPS.AreaInformation", "exif:GPSAreaInformation", Exif("undefined", "undefined")),
  Own("SceneContent.GPS.DateStamp", Exif("ascii", "ascii")),
  Row("SceneContent.GPS.Differential", "exif:GPSDifferential", Exif("ushort", "ushort")),
  Own("ImageContainer.Thumbnail.Width", Both("ulong", "ulong")),
  Own("ImageContainer.Thumbnail.Height", Both("ulong", "ulong")) >>

Rows14 == <<
  Own("ImageContainer.Thumbnail.BitsPerSample", Both("ushort", "ushort")),
  Own("ImageContainer.Thumbnail.Compression", Both("ushort", "ushort")),
  Own("ImageContainer.Thumbnail.PhotometricInterpretation", Both("ushort", "ushort")),
  Own("ImageContainer.Thumbnail.StripOffsets", Both("ulong", "ulong")),
  Own("ImageContainer.Thumbnail.Orientation", Both("ushort", "ushort")),
  Own("ImageContainer.Thumbnail.SamplesPerPixel", Both("ushort", "ushort")),
  Own("ImageContainer.Thumbnail.RowsPerStrip", Both("ulong", "ulong")),
  Own("ImageContainer.Thumbnail.StripByteCounts", Both("ulong", "ulong")),
  Own("ImageContainer.Thumbnail.DisplayXResolution", Both("urational", "float")),
  Own("ImageContainer.Thumbnail.DisplayYResolution", Both("urational", "float")),
  Own("ImageContainer.Thumbnail.PlanarConfiguration", Both("ushort", "ushort")),
  Own("ImageContainer.Thumbnail.DisplayResolutionUnit", Both("ushort", "ushort")) >>

Rows15 == <<
  Own("ImageContainer.Thumbnail.OffsetToJPEGSOI", Both("ulong", "ulong")),
  Own("ImageContainer.Thumbnail.BytesOfJPEGData", Both("ulong", "ulong")),
  Own("ImageContainer.Thumbnail.YCbCrCoefficients", Both("urational", "float")),
  Own("ImageContainer.Thumbnail.YCbCrSubSampling", Both("ushort", "ushort")),
  Own("ImageContainer.Thumbnail.YCbCrPositioning", Both("ushort", "ushort")),
  Own("CaptureDevice.FilmProductCode", Text),
  Own("DigitalProcess.ImageSourceEK", Both("ushort", "ushort")),
  Own("CaptureConditions.PAR", Both("ushort", "ushort")),
  Own("CaptureDevice.CameraOwner.EK", Both("undefined", "undefined")),
  Row("CaptureDevice.SerialNumber.Camera", "photo:CameraSerialNumber", Both("undefined", "undefined")),
  Own("SceneContent.GroupCaption.UserSelectGroupTitle", Both("undefined", "undefined")) >>

Rows16 == <<
  Own("OutputOrder.Information.DealerIDNumber", Both("undefined", "undefined")),
  Own("CaptureDevice.FID", Both("undefined", "undefined")),
  Own("OutputOrder.Information.VendorOrderNumber", Both("undefined", "undefined")),
  Own("OutputOrder.Information.EnvelopeNumber", Both("undefined", "undefined")),
  Own("OutputOrder.SimpleRenderInst.FrameNumber", Both("ushort", "ushort")),
  Own("DigitalProcess.ScanFrameSequenceNumber", Both("ushort", "ushort")),
  Own("CaptureDevice.FilmCategory", Both("ushort", "ushort")),
  Own("CaptureDevice.FilmGencode", Text),
  Own("CaptureDevice.Scanner.ModelAndVersion", Text),
  Own("CaptureDevice.FilmSize", Both("ushort", "ushort")),
  Own("DigitalProcess.History.SBARGBShifts", Both("long", "long")) >>

Rows17 == <<
  Own("DigitalProcess.History.SBAInputImageColorspace", Both("ushort", "ushort")),
  Own("DigitalProcess.History.SBAInputImageBitDepth", Both("ushort", "ushort")),
  Own("DigitalProcess.History.SBAExposureRecord", Both("undefined", "undefined")),
  Own("DigitalProcess.History.UserAdjSBARGBShifts", Both("long", "long")),
  Own("DigitalProcess.ImageRotationStatus", Both("ushort", "ushort")),
  Own("DigitalProcess.RollGuid", Both("undefined", "undefined")),
  Own("ImageContainer.MetadataNumber", Both("undefined", "undefined")),
  Own("DigitalProcess.History.EditTagArray", Both("ushort", "ushort")),
  Own("CaptureConditions.Magnification", Both("urational", "float")),
  Own("DigitalProcess.EnhancementPathVersionNumber", Text),
  Own("CaptureDevice.NativePhysicalXResolution", Both("urational", "float")) >>

Rows18 == <<
  Own("CaptureDevice.NativePhysicalYResolution", Both("urational", "float")),
  Own("CaptureDevice.NativePhysicalResolutionUnit", Both("ushort", "ushort")),
  Own("ImageContainer.SourceImageDirectory", Both("undefined", "undefined")),
  Own("ImageContainer.SourceImageFileName", Both("undefined", "undefined")),
  Own("ImageContainer.SourceImageVolumeName", Both("undefined", "undefined")),
  Own("CaptureConditions.PrintQuantity", Both("ushort", "ushort")),
  Own("DigitalProcess.ImagePrintStatus", Both("undefined", "undefined")),
  Own("DigitalProcess.EnhancementPathUtilized", Both("ushort", "ushort")),
  Own("DigitalProcess.ImageState", Both("ushort", "ushort")),
  Own("DigitalProcess.CompletedImageProcessing", Both("ulong", "ulong")),
  Own("CaptureConditions.BatteryLevel", Tiff("urational", "float")),
  Row("CaptureConditions.Flash.Fired", "exif:Flash", None),
  Own("CaptureConditions.Flash.Return", None) >>

Rows19 == <<
  Own("CaptureConditions.ImageNumber", Tiff("ulong", "ulong")),
  Own("CaptureConditions.SecurityClassification", Tiff("ascii", "string")),
  Own("CaptureConditions.SelfTimerMode", Tiff("ushort", "ushort")),
  Own("CaptureDevice.CFARepeatPatternDim", Tiff("ushort", "ushort")),
  Own("CaptureDevice.HostComputer", Tiff("ascii", "string")),
  Own("CaptureDevice.Interlace", Tiff("ushort", "ushort")),
  Own("CaptureDevice.Noise", Tiff("undefined", "undefined")),
  Own("DigitalProcess.CellLength", Tiff("ushort", "ushort")),
  Own("DigitalProcess.CellWidth", Tiff("ushort", "ushort")),
  Own("DigitalProcess.HalftoneHints", Tiff("ushort", "ushort")),
  Own("DigitalProcess.ICCProfile", Tiff("undefined", "undefined")),
  Own("DigitalProcess.Jpeg.AlphaQTable", Exif("vuchar", "uchar")),
  Own("DigitalProcess.Jpeg.Chroma1QTable", Exif("ubyte", "uchar")),
  Own("DigitalProcess.Jpeg.Chroma2QTable", Exif("ubyte", "uchar")),
  Own("DigitalProcess.Jpeg.LuminQTable", Exif("ubyte", "uchar")),
  Own("DigitalProcess.Jpeg.SOF.ChrominanceSampling", Exif("ascii", "string")),
  Own("DigitalProcess.Jpeg.SOF.Components", Exif("ushort", "ushort")),
  Own("DigitalProcess.Jpeg.SOF.HorizontalSampling", Exif("ubyte", "uchar")) >>

Rows20 == <<
  Own("DigitalProcess.Jpeg.SOF.VerticalSampling", Exif("ubyte", "uchar")),
  Own("DigitalProcess.Jpeg.SOF.Height", Exif("ulong", "ulong")),
  Own("DigitalProcess.Jpeg.SOF.Precision", Exif("ushort", "ushort")),
  Own("DigitalProcess.Jpeg.SOF.Width", Exif("ulong", "ulong")),
  Own("DigitalProcess.Thresholding", Tiff("ushort", "ushort")),
  Own("DigitalProcess.PrinterDock.ImageLinkVersion", Exif("undefined", "undefined")),
  Own("DigitalProcess.PrinterDock.UseOfImageLinkPartnerColorPreferenceData", Exif("undefined", "undefined")),
  Own("DigitalProcess.PrinterDock.ImageLinkPartnerColorPreferenceDataType", Exif("ushort", "ushort")),
  Own("DigitalProcess.PrinterDock.ImageLinkPartnerColorPreferenceData", Exif("undefined", "undefined")),
  Own("ImageContainer.SoundType", Tiff("ushort", "ushort")),
  Own("ImageContainer.TiffepVersion", Tiff("undefined", "undefined")),
  Own("ImageContainer.TransferRange", Tiff("ushort", "ushort")),
  Own("SceneContent.ImageCaptureDateTime.TimeZoneOffset", Tiff("short", "short")),
  Own("SceneContent.SoundCaptureDateTime", Tiff("ascii", "string")),
  Own("SceneContent.UserComment.UserInputFrameTitle", None),
  Row("ImageContainer.Movie.Duration", "media:duration", None),
  Row("ImageContainer.Movie.FrameRate", "media:videoFrameRate", None),
  Own("ImageContainer.Movie.FrameCount", None) >>

Rows21 == <<
  Row("ImageContainer.Movie.SoundSampleRate", "media:audioSampleRate", None),
  Own("ImageContainer.Movie.TimeScale", None),
  Own("ImageContainer.Movie.SpecialHardwareAndSoftwareRequirements", None),
  Own("CaptureDevice.Type", None),
  Row("SceneContent.UserComment.MS.Rating", "photo:Rating", Exif("ushort", "ushort")),
  Own("SceneContent.UserComment.MS.PhotoRating", Exif("ushort", "ushort")),
  Row("SceneContent.UserComment.MS.Title", "dc:title", Exif("ubyte", "uchar")),
  Own("SceneContent.UserComment.MS.Comments", Exif("ubyte", "uchar")),
  Row("SceneContent.UserComment.MS.Author", "dc:creator", Exif("ubyte", "uchar")),
  Row("SceneContent.UserComment.MS.Keywords", "dc:subject", Exif("ubyte", "uchar")),
  Row("SceneContent.UserComment.MS.Subject", "dc:subject", Exif("ubyte", "uchar")),
  Own("XMP.Document", Exif("ascii", "ascii")),
  Own("SceneContent.Faces.DetectionAlgorithmID", Exif("ascii", "ascii")),
  Own("SceneContent.Faces.RecognitionAlgorithmID", Exif("ascii", "ascii")) >>

Rows22 == <<
  Own("SceneContent.Faces.CartesianZeroPoint", Exif("ushort", "ushort")),
  Own("SceneContent.Faces", Exif("face", "face")) >>

defaultTranslationTableArray ==
  Rows1 \o Rows2 \o Rows3 \o Rows4 \o Rows5 \o Rows6 \o Rows7 \o Rows8 \o Rows9 \o Rows10 \o
  Rows11 \o Rows12 \o Rows13 \o Rows14 \o Rows15 \o Rows16 \o Rows17 \o Rows18 \o Rows19 \o Rows20 \o
  Rows21 \o Rows22
=============================================================================
