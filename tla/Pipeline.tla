------------------------------ MODULE Pipeline ------------------------------
(* From the file to the decoded image: RawParser finds the decoder, and a client calls its
   checkSupport(), decodeRaw() and decodeMetaData().  A client is what the README and rstest
   do, which check for support, decode and then ask for the metadata, or it is
   rawspeed-identify, which asks for the metadata first, and again at the end.

   DngDecoder is not here, its calls end with the decoder; see DngImage.              *)
EXTENDS RawParser, DecodedImage, MakerDecoders

CONSTANT Tools   \* the clients, "rstest" and "identify"

ASSUME ToolsAssumption == Tools \subseteq {"rstest", "identify"} /\ Modes = {"", "mode", "other"}

VARIABLES calls, result

decoding == << img, dec, camera, client, todo >>
vars == << inner, outer, decoding, calls, result >>

Decoders == {Map[d] : d \in 2 .. Len(Map)} \cup {"MrwDecoder", "RafDecoder", "CrwDecoder", "NakedDecoder"}

NoDecoder ==
  [name |-> "none", crop |-> FALSE, hints |-> {}, guard |-> "none", mode |-> "", special |-> FALSE,
   shift |-> 0, exif |-> 0, precision |-> 14, kept |-> [black |-> Unset, white |-> Unset]]

NoCamera == [mode \in {} |-> "none"]

Init ==
  /\ ParserInit
  /\ img = NewImage /\ dec = NoDecoder /\ camera = NoCamera /\ todo = << >>
  /\ client = [fail |-> FALSE, uncorrected |-> FALSE]
  /\ calls = << >> /\ result = "none"

(* What a member that nobody has set may hold. *)
Indeterminate == {0, 12, 14}

(* The decoder is constructed, and the client has set what it wants of it.  `special` is what
   is so of some files of a decoder only: a compressed RAF, a subsampled CR2.          *)
Open(tool, uncorrected, cam, special, precision) ==
  /\ special => made \in {"RafDecoder", "Cr2Decoder"}
  /\ made # "Cr2Decoder" => precision = 14
  /\ tool = "identify" => ~uncorrected
  /\ camera' = cam
  /\ client' = [fail |-> tool = "identify", uncorrected |-> uncorrected]
  /\ dec' = [NoDecoder EXCEPT !.name = made, !.crop = tool = "rstest", !.special = special,
                              !.precision = precision]
  /\ calls' = (IF tool = "identify" THEN << "meta" >> ELSE << >>) \o << "support", "raw", "meta" >>
  /\ UNCHANGED << inner, outer, img, todo, result >>
-----------------------------------------------------------------------------
(* The virtual functions. *)
RawWays ==
  [DcrDecoder |-> DcrRaw, DcsDecoder |-> DcsRaw, ErfDecoder |-> ErfRaw, MefDecoder |-> MefRaw,
   KdcDecoder |-> KdcRaw, StiDecoder |-> StiRaw, ThreefrDecoder |-> ThreefrRaw, MosDecoder |-> MosRaw,
   PefDecoder |-> PefRaw, SrwDecoder |-> SrwRaw, MrwDecoder |-> MrwRaw, NakedDecoder |-> NakedRaw,
   CrwDecoder |-> CrwRaw, OrfDecoder |-> OrfRaw, ArwDecoder |-> ArwRaw, Cr2Decoder |-> Cr2Raw(dec.special),
   NefDecoder |-> NefRaw, Rw2Decoder |-> Rw2Raw, IiqDecoder |-> IiqRaw, RafDecoder |-> RafRaw(dec.special)]

MetaWays ==
  [ErfDecoder |-> ErfMeta, KdcDecoder |-> KdcMeta, ThreefrDecoder |-> ThreefrMeta, MosDecoder |-> MosMeta,
   PefDecoder |-> PefMeta, SrwDecoder |-> SrwMeta, MrwDecoder |-> MrwMeta, CrwDecoder |-> CrwMeta,
   OrfDecoder |-> OrfMeta, ArwDecoder |-> ArwMeta, Cr2Decoder |-> Cr2Meta, NefDecoder |-> NefMeta,
   Rw2Decoder |-> Rw2Meta, IiqDecoder |-> IiqMeta, RafDecoder |-> RafMeta]

SupportWays ==
  [SrwDecoder |-> SrwSupport, NefDecoder |-> NefSupport, Cr2Decoder |-> Cr2Support(dec.special),
   Rw2Decoder |-> Rw2Support, IiqDecoder |-> IiqSupport, RafDecoder |-> RafSupport(dec.special)]

Ways(call) ==
  LET d == dec.name IN
  CASE call = "raw"     -> RawWays[d]
    [] call = "meta"    -> IF d \in DOMAIN MetaWays THEN MetaWays[d] ELSE SetMetaDataOnly
    [] call = "support" -> IF d \in DOMAIN SupportWays THEN SupportWays[d] ELSE Support

Call ==
  /\ todo = << >> /\ calls # << >>
  /\ todo' \in Ways(Head(calls))
  /\ calls' = Tail(calls)
  /\ UNCHANGED << inner, outer, img, dec, camera, client, result >>

(* decodeRaw(), decodeMetaData() and checkSupport() make a RawDecoderException of those of
   the parser and of the input, and of no other; the client gives up.                  *)
AsRDE(e) == IF e \in {"TPE", "IOE"} THEN "RDE" ELSE e

CannotThrow ==
  {"try", "caught", "endCurve", "notCFA", "setMode", "cameraCFA", "setPrecision", "whiteOfPrecision",
   "lookupIfWanted", "shiftUp", "shiftUpLevels", "noMoreCrops", "shiftDown", "shiftExif",
   "shiftLevels", "keepLevels", "restoreLevels", "sensorLevels"}

Throw(e) ==
  /\ todo # << >> /\ Head(todo) \notin CannotThrow
  /\ e = "CPE" => dec.name = "CrwDecoder"
  /\ IF HandlerOf(e) # {} THEN Caught(e) /\ UNCHANGED << calls, result >>
     ELSE Escapes /\ result' = AsRDE(e) /\ calls' = << >>
  /\ UNCHANGED << inner, outer >>

Delivered ==
  /\ dec.name # "none" /\ todo = << >> /\ calls = << >> /\ result = "none"
  /\ result' = "image"
  /\ UNCHANGED << inner, outer, decoding, calls >>
-----------------------------------------------------------------------------
(* The steps that belong to one decoder.  Which mode is asked for: *)
Either(mode) == IF mode \in DOMAIN camera THEN mode ELSE ""

SupportMode ==
  CASE dec.name = "SrwDecoder" -> Either("mode")
    [] dec.name = "NefDecoder" -> IF "other" \in DOMAIN camera THEN "other" ELSE "mode"
    [] OTHER -> "mode"

(* The subsampling of a CR2 file is known when the image is no CFA any more.           *)
MetaModes ==
  CASE dec.name = "SrwDecoder" -> {Either("mode")}
    [] dec.name = "NefDecoder" -> {IF "other" \in DOMAIN camera THEN "other" ELSE Either("mode")}
    [] dec.name = "Cr2Decoder" -> IF img.isCFA THEN {""} ELSE {"mode", "other"}
    [] OTHER -> {dec.mode}

VendorCrops == IF dec.name \in {"Rw2Decoder", "RafDecoder"} THEN {0, 1} ELSE {0}

(* Rw2Decoder::guessMode() goes by the shape of the image, when there is one.          *)
GuessedMode == IF img.allocated THEN "mode" ELSE ""

Modal ==
  \/ At("checkSupport") /\ CheckSupport("")
  \/ At("checkSupportInMode") /\ CheckSupport(SupportMode)
  \/ /\ At("checkSupportInEither") /\ ~Refused(GuessedMode)
     /\ CheckSupport(Either(GuessedMode))
  \/ \E vendor \in VendorCrops, separate \in BOOLEAN :
       \/ At("setMetaData") /\ SetMetaData("", vendor, separate)
       \/ At("setMetaDataInMode") /\ \E mode \in MetaModes : SetMetaData(mode, vendor, separate)
       \/ /\ At("checkSupportAndSetMetaData") /\ ~Refused(GuessedMode)
          /\ LET mode == Either(GuessedMode) IN
             /\ ~Refused(mode)
             /\ img' = IF mode \in DOMAIN camera THEN WithMetaData(camera[mode], vendor, separate) ELSE img
             /\ dec' = Knows(GuessedMode)
             /\ Done
  \/ At("cameraOrRefuse") /\ dec.mode \in DOMAIN camera /\ Makes(img)
  \/ At("setMode") /\ dec' = [dec EXCEPT !.mode = "mode"] /\ UNCHANGED img /\ Done

WhiteBalance == (At("whiteBalance") \/ At("correct") ) /\ Makes(img)

(* What a step does to the decoder, and nothing else. *)
Notes(decoder) == dec' = decoder /\ UNCHANGED img /\ Done

(* What ArwDecoder shifts is blackLevel, and not blackLevelSeparate.                    *)
WhiteAndBlackScaled(image) == [image EXCEPT !.white = Scaled(@), !.black = Scaled(@)]

Sony ==
  \/ At("cropToSize") /\ Makes(SubFrame(img, 0))
  \/ At("noMoreCrops") /\ Notes([dec EXCEPT !.crop = FALSE])
  \/ At("shiftDown") /\ Notes([dec EXCEPT !.shift = 1])
  \/ At("shiftExif") /\ Notes([dec EXCEPT !.exif = 1])
  \/ At("shiftLevels") /\ Makes(IF dec.shift = 0 THEN img ELSE WhiteAndBlackScaled(img))
  \/ At("exifBlack") /\ Makes([img EXCEPT !.separate = [from |-> "exif", scaled |-> dec.exif]])
  \/ At("exifWhite") /\ Makes([img EXCEPT !.white = [from |-> "exif", scaled |-> dec.exif]])

(* The levels of the maker note are of 14 bits, those of some cameras' black are not; they
   are the four of blackLevelSeparate.                                               *)
Canon ==
  \/ At("setPrecision") /\ \E p \in {12, 14} : Notes([dec EXCEPT !.precision = p])
  \/ At("whiteOfPrecision") /\ Makes(SetWhite("file"))
  \/ At("canonLevels") /\ Makes([SetWhite("file") EXCEPT !.separate = Level("file")])
  \/ /\ At("rescaleToPrecision")
     /\ \/ dec.precision >= 14 /\ Makes(img)
        \/ dec.precision < 14 /\ Makes([img EXCEPT !.white = Scaled(@), !.separate = Scaled(@)])
        \/ dec.precision < 14 /\ Makes([img EXCEPT !.white = Scaled(@)])
  \/ At("lookupIfWanted") /\ Makes(IF client.uncorrected THEN img ELSE Mapped(img))
  \/ At("newImageOf3") /\ Makes([NewImage EXCEPT !.dim = TRUE, !.allocated = TRUE, !.isCFA = FALSE])
  \/ At("shiftUp") /\ Notes([dec EXCEPT !.shift = 1])
  \/ /\ At("shiftUpLevels")
     /\ Makes(IF dec.shift = 0 THEN img
              ELSE [img EXCEPT !.black = Level("file"), !.separate = Unset, !.white = Scaled(@)])

Nikon ==
  \/ At("keepLevels") /\ Notes([dec EXCEPT !.kept = [black |-> img.black, white |-> img.white]])
  \/ /\ At("restoreLevels")
     /\ Makes([img EXCEPT !.black = IF dec.kept.black = Unset THEN @ ELSE dec.kept.black,
                          !.white = IF dec.kept.white = Unset THEN @ ELSE dec.kept.white])

Hasselblad == At("fileWhite") /\ Makes(SetWhite("file"))

(* RafDecoder::applyCorrections(): what is rotated is a new image with the CFA and the
   metadata of the old, and without its levels.                                      *)
Rotates == "fuji_rotate" \in dec.hints /\ ~client.uncorrected

Fuji ==
  \/ /\ At("applyCorrections")
     /\ IF Rotates
          THEN Makes([NewImage EXCEPT !.dim = TRUE, !.allocated = TRUE, !.cfa = img.cfa,
                                      !.shift = img.shift, !.table = img.table, !.mapped = img.mapped])
          ELSE \E vendor \in {0, 1} :
                 Makes(IF dec.crop THEN SubFrame(img, IF camera[dec.mode].crop = NoCrop THEN vendor
                                                       ELSE camera[dec.mode].crop)
                       ELSE img)
  \/ /\ At("sensorLevels")
     /\ Makes(IF camera[dec.mode].sensors > 0 THEN [SetWhite("db") EXCEPT !.black = Level("db")] ELSE img)
-----------------------------------------------------------------------------
Step ==
  /\ Generic \/ Modal \/ WhiteBalance \/ Sony \/ Canon \/ Nikon \/ Hasselblad \/ Fuji
  /\ UNCHANGED << inner, outer, calls, result >>

Parsing == ParserNext /\ UNCHANGED << decoding, calls, result >>

Next ==
  \/ Parsing
  \/ /\ at = "done" /\ made \in Decoders /\ dec.name = "none"
     /\ \E tool \in Tools, uncorrected, special \in BOOLEAN, cam \in Cameras, precision \in Indeterminate :
          Open(tool, uncorrected, cam, special, precision)
  \/ Call \/ Step \/ Delivered
  \/ \E e \in Exceptions : Throw(e)

Spec == Init /\ [][Next]_vars /\ WF_vars(Next)
-----------------------------------------------------------------------------
TypeOK ==
  /\ TreeTypeOK
  /\ camera \in Cameras \cup {NoCamera} /\ dec.name \in Decoders \cup {"none"}
  /\ result \in Exceptions \cup {"none", "image"}
  /\ ToSet(calls) \subseteq {"support", "raw", "meta"}
  /\ img.cfa \in {"none", "file", "db"} /\ img.table \in {"none", "plain", "dither"}
  /\ img.shift \in {0, 1} /\ img.offset \in {0, 1} /\ {img.crops, img.mapped} \subseteq Nat
  /\ {img.black.from, img.white.from, img.separate.from} \subseteq {"unset", "file", "exif", "db"}

(* The parsing comes to an end whatever the directories of the file point at, and so does
   the decoding: with an image, with an exception, or with the DngDecoder of DngImage.   *)
Terminates == <>(result # "none" \/ (at = "done" /\ made \notin Decoders))

(* Who asks for the colour of a sample, the decompressor of a compressed RAF or the levels in
   the order of the colours, is told one, if cameras.xml has a CFA of the camera; and the CFA
   is that of the cropped image, which is cropped once, by the decoder or by setMetaData(),
   whichever comes first.                                                            *)
CfaIsRight ==
  /\ At("askCFA") /\ (\A mode \in DOMAIN camera : HasCFA(camera[mode])) => img.cfa # "none"
  /\ img.isCFA /\ img.cfa # "none" => img.shift = img.offset
  /\ img.crops <= 1

(* No sample goes through a table twice, and the dithering one is gone with its guard however
   the guard was left.  Without corrections no CFA sample goes through one at all (the README:
   "completely unscaled values"); those of a sNEF, which are no CFA, do.  But the samples of
   the Kodak formats, which are never without a curve, have gone through it in the end.  *)
MappedOnce ==
  /\ img.mapped <= 1
  /\ result = "image" /\ dec.name \in {"DcrDecoder", "DcsDecoder"} /\ ~client.uncorrected => img.mapped = 1
  /\ dec.guard = "none" => img.table # "dither"
  /\ client.uncorrected /\ img.isCFA => img.mapped = 0 /\ img.table # "dither"

(* In the image that is delivered the levels that cameras.xml tells were scaled together and
   once at most, and as the samples were, also when the metadata was decoded before them;
   but for the black levels of the colours of an ARW file, which are left for the samples of
   14 bits when white and common black level are shifted.  And the precision of a CR2 file is
   set when its levels go by it and there are samples; when there are none yet, as for a
   client that asks for the metadata first, the levels go by what its memory holds.   *)
LevelsScaledOnce ==
  /\ At("rescaleToPrecision") /\ img.allocated => 14 - dec.precision \in 0 .. 12
  /\ result = "image" =>
    /\ \A level \in {img.black, img.white, img.separate} : level.from = "db" => level.scaled <= 1
    /\ img.black.from = "db" /\ img.white.from = "db" =>
         /\ img.black.scaled = img.white.scaled
         /\ dec.name = "ArwDecoder" => img.white.scaled = dec.shift
    /\ img.separate.from = "db" /\ img.white.from = "db" =>
         img.separate.scaled = IF dec.name = "ArwDecoder" THEN 0 ELSE img.white.scaled
=============================================================================
