---------------------------- MODULE DecodedImage ----------------------------
(* The image a decoder makes and the steps it is made of, in RawDecoder, RawImageData and
   RawImageCurveGuard.  The samples, the sizes and the numbers of the levels are left out:
   of each part of the image it is told whether it is there, where it comes from, and how
   often it has been changed.

   `todo` are the steps the call at work has left to do; each may instead throw, before it
   has done anything.  Positions count modulo 2, which is what a CFA of 2 x 2 can tell.
   A level is [from, scaled]: where its value is from, and how often it was scaled since;
   black levels there are two, blackLevel and the four of blackLevelSeparate.          *)
EXTENDS Cameras

CONSTANT Modes   \* the modes an entry of cameras.xml may be for, "" among them

ASSUME CamerasAssumption ==
  \A cam \in Cameras :
    DOMAIN cam \subseteq Modes /\ \A mode \in DOMAIN cam : cam[mode].crop \in {NoCrop, 0, 1}

VARIABLES img, dec, camera, client, todo

Exceptions == {"RDE", "TPE", "IOE", "CPE"}

Unset == [from |-> "unset", scaled |-> 0]
Level(from) == [from |-> from, scaled |-> 0]
Scaled(level) == [level EXCEPT !.scaled = @ + 1]

(* RawImage::create(). *)
NewImage ==
  [dim |-> FALSE, allocated |-> FALSE, isCFA |-> TRUE, cfa |-> "none", shift |-> 0,
   offset |-> 0, crops |-> 0, table |-> "none", mapped |-> 0, black |-> Unset, white |-> Unset,
   separate |-> Unset]

At(step) == todo # << >> /\ Head(todo) = step

Done == todo' = Tail(todo) /\ UNCHANGED << camera, client >>

(* What a step does to the image, and nothing else.                                  *)
Makes(image) == img' = image /\ UNCHANGED dec /\ Done

UnguardedIfKept(image, guard) ==   \* (mutant) of Unguarded: the dithering table stays
  IF guard = "kept" THEN [image EXCEPT !.table = "plain"] ELSE image

(* ~RawImageCurveGuard(), on every way out of the scope it is in.                    *)
Unguarded(image, guard) ==
  CASE guard = "curve" -> [image EXCEPT !.table = "none"]
    [] guard = "kept"  -> [image EXCEPT !.table = "plain"]
    [] OTHER -> image

(* An exception is caught by the innermost "try" that is open, if that catches it at all; the
   call goes on after it.                                                            *)
Tries == [KdcDecoder |-> {"TPE"}, CrwDecoder |-> {"RDE", "TPE", "IOE", "CPE"},
          ArwDecoder |-> {"RDE", "TPE", "IOE", "CPE"}, Cr2Decoder |-> {"RDE", "TPE", "IOE", "CPE"}]

HandlerOf(e) ==
  {k \in 1 .. Len(todo) :
     /\ dec.name \in DOMAIN Tries /\ e \in Tries[dec.name]
     /\ todo[k] = "caught" /\ \A i \in 1 .. k - 1 : todo[i] \notin {"try", "caught"}}

Caught(e) ==
  /\ HandlerOf(e) # {}
  /\ \E k \in HandlerOf(e) : todo' = SubSeq(todo, k + 1, Len(todo))
  /\ UNCHANGED << img, dec, camera, client >>

Escapes == /\ img' = Unguarded(img, dec.guard)
           /\ dec' = [dec EXCEPT !.guard = "none"]
           /\ todo' = << >>
           /\ UNCHANGED << camera, client >>
-----------------------------------------------------------------------------
Marks == (At("try") \/ At("caught")) /\ Makes(img)

SetDim == At("dim") /\ Makes([img EXCEPT !.dim = TRUE])

NotCFA == At("notCFA") /\ Makes([img EXCEPT !.isCFA = FALSE])

(* createData() and setCpp() throw of an image that has its data.                    *)
SetCpp == At("cpp") /\ ~img.allocated /\ Makes(img)

CreateData == At("create") /\ img.dim /\ ~img.allocated /\ Makes([img EXCEPT !.allocated = TRUE])

Unguard == At("endCurve") /\ img' = Unguarded(img, dec.guard)
             /\ dec' = [dec EXCEPT !.guard = "none"] /\ Done

(* RawImageCurveGuard(): the table is there now, or not before the guard has gone.  NefDecoder
   has one that does not ask what the client wants.                                  *)
Guard(always) ==
  /\ At(IF always THEN "curveAlways" ELSE "curve")
  /\ dec' = [dec EXCEPT !.guard = IF always \/ ~client.uncorrected THEN "curve" ELSE "kept"]
  /\ img' = IF dec'.guard = "curve" THEN [img EXCEPT !.table = "dither"] ELSE img
  /\ Done

(* A decompressor writes the samples as they are, or with setWithLookUp().            *)
Write == At("decode") /\ Makes(img)

Mapped(image) == [image EXCEPT !.mapped = IF image.table = "none" THEN @ ELSE @ + 1]

WriteMapped == At("decodeMapped") /\ Makes(Mapped(img))

SixteenBitLookup == At("lookup") /\ Makes(Mapped(img))

(* setCFA() by what the file says. *)
FileCFA == At("fileCFA") /\ Makes([img EXCEPT !.cfa = "file", !.shift = 0])

(* `entry` is the camera in the mode that was found. *)
WithCameraCFA(image, entry) ==
  IF HasCFA(entry) THEN [image EXCEPT !.cfa = "db", !.shift = 0] ELSE image

SetCameraCFA ==
  /\ At("cameraCFA")
  /\ Makes(WithCameraCFA([img EXCEPT !.cfa = "none", !.shift = 0], camera[dec.mode]))

(* Somebody needs the colour of a sample, and goes by the CFA.                        *)
AskCFA == At("askCFA") /\ Makes(img)

(* subFrame(). *)
SubFrame(image, parity) ==
  [image EXCEPT !.shift = IF image.isCFA /\ image.cfa # "none" THEN (@ + parity) % 2 ELSE @,
                !.offset = (@ + parity) % 2, !.crops = @ + 1]

SetWhite(from) == [img EXCEPT !.white = Level(from)]

WhiteOfBits == At("whiteOfBits") /\ Makes(SetWhite("file"))

(* The file has one black level, one of each colour, or those and what they are on average. *)
FileLevels ==
  \/ At("fileBlack") /\ Makes([img EXCEPT !.black = Level("file")])
  \/ At("fileSeparate") /\ Makes([img EXCEPT !.separate = Level("file")])
  \/ At("fileBlacks") /\ Makes([img EXCEPT !.black = Level("file"), !.separate = Level("file")])

ScaleLevels ==
  /\ At("scale")
  /\ Makes([img EXCEPT !.white = Scaled(@), !.black = Scaled(@), !.separate = Scaled(@)])
-----------------------------------------------------------------------------
(* handleCameraSupport(): what it returns, where it does not throw.                  *)
Refused(mode) ==
  IF mode \in DOMAIN camera
    THEN camera[mode].status = "unsupported" \/ (camera[mode].status = "unknown" /\ client.fail)
    ELSE client.fail

(* checkCameraSupported(): the hints are those of the camera that was found.          *)
Knows(mode) == IF mode \in DOMAIN camera THEN [dec EXCEPT !.hints = camera[mode].hints] ELSE dec

CheckSupport(mode) ==
  ~Refused(mode) /\ dec' = Knows(mode) /\ UNCHANGED img /\ Done

(* setMetaData(): without a camera it leaves all as it is.  `vendor` is where the crop of
   getDefaultCrop() begins, and `separate` whether a sensor has black levels enough for the
   colours, and no black areas.                                                      *)
WithMetaData(entry, vendor, separate) ==
  LET coloured == WithCameraCFA(img, entry)
      cropped == IF ~dec.crop THEN coloured
                 ELSE SubFrame(coloured, IF entry.crop = NoCrop THEN vendor ELSE entry.crop)
  IN  IF entry.sensors > 0
        THEN [cropped EXCEPT !.black = Level("db"), !.white = Level("db"),
                             !.separate = IF separate THEN Level("db") ELSE @]
        ELSE cropped

SetMetaData(mode, vendor, separate) ==
  /\ ~Refused(mode)
  /\ Makes(IF mode \in DOMAIN camera THEN WithMetaData(camera[mode], vendor, separate) ELSE img)

Generic ==
  \/ Marks \/ SetDim \/ NotCFA \/ SetCpp \/ CreateData \/ Unguard
  \/ Guard(TRUE) \/ Guard(FALSE) \/ Write \/ WriteMapped \/ SixteenBitLookup
  \/ FileCFA \/ SetCameraCFA \/ AskCFA \/ WhiteOfBits \/ FileLevels \/ ScaleLevels
=============================================================================
