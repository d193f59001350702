------------------------------ MODULE DngImage ------------------------------
(* From the tags of a DNG to the image it describes: DngDecoder::decodeRawInternal()
   and handleMetadata() with what they call of RawImageData (createData, subFrame,
   scaleBlackWhite, calculateBlackAreas, fixBadPixels) and of DngOpcodes.

   The image is cropped up to three times (ActiveArea, DefaultCrop, TrimBounds), and
   four things are stated relative to it in different ways: the colour filter array,
   which moves with the crop; the opcodes, which are parsed as a list before the first
   of them is applied; the positions of bad pixels and the masked areas, which refer to
   the whole image.  Samples are left out but for whether they have been scaled.     *)
EXTENDS Integers, Sequences

CONSTANTS Width, Height,  \* of the image as it is stored
          Cpps,           \* the components per pixel a file may have
          CfaSizes,       \* the sizes of its colour pattern, 1 x 1 when it has none
          MaxOpcodes,     \* how long opcode lists 1 and 2 may be
          Sse2            \* the build and the processor have SSE2

Point(a, b) == [x |-> a, y |-> b]
Plus(p, q) == Point(p.x + q.x, p.y + q.y)
Minus(p, q) == Point(p.x - q.x, p.y - q.y)
Leq(p, q) == p.x <= q.x /\ p.y <= q.y
Less(p, q) == p.x < q.x /\ p.y < q.y

Origin == Point(0, 0)
FullDim == Point(Width, Height)

Corner == [x : 0 .. Width, y : 0 .. Height]
Pixel == [x : 0 .. Width - 1, y : 0 .. Height - 1]
Rectangle == [pos : Corner, dim : Corner]

ASSUME DngImageAssumption ==
  /\ {Width, Height} \subseteq Nat \ {0}
  /\ Cpps \subseteq Nat \ {0}
  /\ CfaSizes \subseteq [x : Nat \ {0}, y : Nat \ {0}]
  /\ MaxOpcodes \in [{1, 2} -> Nat]
  /\ Sse2 \in BOOLEAN

WholeOf(d) == [pos |-> Origin, dim |-> d]

NoSubImage == WholeOf(Origin)   \* while no list is being parsed

(* A rectangle given by its corners, which are checked to lie in an image of size d, on
   its border at most, and in the right order (parseACTIVEAREA(), ROIOpcode).     *)
RectsIn(d) == {r \in Rectangle : Leq(Plus(r.pos, r.dim), d)}

HasArea(r) == r.dim.x > 0 /\ r.dim.y > 0

NonemptyIn(d) == {r \in RectsIn(d) : HasArea(r)}

PixelsOf(r) == {p \in Pixel : Leq(r.pos, p) /\ Less(p, Plus(r.pos, r.dim))}

VARIABLES
  file,        \* cpp, float, cfaSize, active: what the tags say of the whole image
  stage,       \* how far decodeRaw() is
  dim,         \* the size of the crop
  mOffset,     \* its position
  cfa,         \* which cell of the file's pattern is the colour of the crop's origin
  integrated,  \* integrated_subimg of the DngOpcodes being made
  opcodes,     \* its opcodes that have not been applied yet
  positions,   \* mBadPixelPositions
  blackAreas,
  separate,    \* blackLevelSeparate holds values
  scaled,      \* the samples <<row, column>> that scaleBlackWhite() has scaled
  levels       \* what the black and white level say: "file" or "scaled"

geometry == <<dim, mOffset, cfa>>
black == <<blackAreas, separate, scaled, levels>>
vars == <<file, stage, geometry, integrated, opcodes, positions, black>>

Crop == [pos |-> mOffset, dim |-> dim]

(* ColorFilterArray::shiftRight() and shiftDown(), by any number of cells; getColorAt()
   makes the remainder positive.                                                  *)
CRemainder(a, b) == IF a >= 0 THEN a % b ELSE -((-a) % b)

ShiftedSigned(phase, n) ==    \* (mutant) the remainder of C, as it is
  Point(CRemainder(phase.x + n.x, file.cfaSize.x), CRemainder(phase.y + n.y, file.cfaSize.y))

Shifted(phase, n) == Point((phase.x + n.x) % file.cfaSize.x, (phase.y + n.y) % file.cfaSize.y)

(* The pattern is neither X-Trans nor one that has no dcraw filter.               *)
MovesWithCrop == file.cfaSize.x <= 2 /\ file.cfaSize.y \in {1, 2, 4, 8}

Fits(r) == Leq(r.dim, Minus(dim, r.pos)) /\ Leq(Origin, r.pos)

(* RawImageData::subFrame(): throws without a positive area; is skipped when the crop
   does not fit.                                                                   *)
SubFrame(r) ==
  /\ HasArea(r)
  /\ IF Fits(r)
       THEN /\ dim' = r.dim
            /\ mOffset' = Plus(mOffset, r.pos)
            /\ cfa' = IF MovesWithCrop THEN Shifted(cfa, r.pos) ELSE cfa
       ELSE UNCHANGED geometry

Init == /\ file \in [cpp : Cpps, float : BOOLEAN, cfaSize : CfaSizes, active : RectsIn(FullDim)]
        /\ stage = "load"
        /\ dim = FullDim
        /\ mOffset = Origin
        /\ cfa = Origin
        /\ integrated = NoSubImage
        /\ opcodes = << >>
        /\ positions = {}
        /\ blackAreas = {}
        /\ separate = FALSE
        /\ scaled = {}
        /\ levels = "file"
-----------------------------------------------------------------------------
(* decodeRawInternal(): parseCFA(), which undoes what the crop to the active area is
   going to do to the pattern, and then the samples.  A file without ActiveArea is one
   whose active area is everything.                                               *)
PatternAsStored == Origin     \* (mutant) the pattern is taken to begin at the image

PatternOfImage == Shifted(Origin, Minus(Origin, file.active.pos))

LoadImage == /\ stage = "load"
             /\ cfa' = PatternOfImage
             /\ stage' = "active"
             /\ UNCHANGED <<file, dim, mOffset, integrated, opcodes, positions, black>>

CropToActiveArea ==
  /\ stage = "active"
  /\ SubFrame(file.active)
  /\ stage' = "default"
  /\ UNCHANGED <<file, integrated, opcodes, positions, black>>

(* DefaultCropOrigin and DefaultCropSize, each replaced by what is left of the image
   when it does not fit; without the tags the crop is the image.                  *)
DefaultCrop(origin, size) ==
  LET pos == IF Leq(origin, dim) THEN origin ELSE Origin
  IN  [pos |-> pos,
       dim |-> IF Leq(size, dim) /\ Leq(Plus(size, pos), dim) THEN size ELSE Minus(dim, pos)]

CropToDefault ==
  /\ stage = "default"
  /\ \E origin, size \in Corner : SubFrame(DefaultCrop(origin, size))
  /\ stage' = "list1"
  /\ UNCHANGED <<file, integrated, opcodes, positions, black>>
-----------------------------------------------------------------------------
(* An opcode list: handleMetadata() makes a DngOpcodes of it and applies that, in a try
   block that logs whatever is wrong with it.  List 1 comes before
   the levels (and linearization, which is about values), list 2 after scaling.   *)
Parsing == stage \in {"parse1", "parse2"}
Applying == stage \in {"apply1", "apply2"}
AfterList == IF stage \in {"list1", "parse1", "apply1"} THEN "black" ELSE "levels"

BeginList == /\ stage \in {"list1", "list2"}
             /\ stage' = IF stage = "list1" THEN "parse1" ELSE "parse2"
             /\ integrated' = Crop
             /\ UNCHANGED <<file, geometry, opcodes, positions, black>>

NoList == /\ stage = "list1"
          /\ stage' = AfterList
          /\ UNCHANGED <<file, geometry, integrated, opcodes, positions, black>>

(* The constructors: each opcode remembers the crop its predecessors leave.
     "constant"  FixBadPixelsConstant
     "points"    FixBadPixelsList, of one point; "rects", of one rectangle
     "trim"      TrimBounds; one empty rectangle stands for all
     "pixel"     the maps of pixel values (PixelOpcode), which need some pixels    *)
\* (mutant) the fence is taken for a part of the image
PointsOnFence == {[pos |-> p, dim |-> Point(1, 1)] : p \in Corner}

PointsInImage == {r \in RectsIn(FullDim) : r.dim = Point(1, 1)}

Roi(kind) == CASE kind = "constant" -> {WholeOf(integrated.dim)}
               [] kind = "points"   -> PointsInImage
               [] kind = "rects"    -> NonemptyIn(FullDim)
               [] kind = "trim"     -> NonemptyIn(integrated.dim) \cup {NoSubImage}
               [] kind = "pixel"    -> NonemptyIn(integrated.dim)

TrimmedInPlace(r) == [integrated EXCEPT !.dim = r.dim]    \* (mutant) forgets the position

Trimmed(r) == [pos |-> Plus(integrated.pos, r.pos), dim |-> r.dim]

(* FixBadPixelsList reads each of its rectangles with a DummyROIOpcode of its own, for
   the whole image, whose constructor calls setup() there and then.               *)
Dummies(kind) == IF kind = "rects" THEN {WholeOf(FullDim)} ELSE {}

ParseOpcode(kind) ==
  /\ Parsing
  /\ Len(opcodes) < MaxOpcodes[IF stage = "parse1" THEN 1 ELSE 2]
  /\ \E r \in Roi(kind) :
       /\ opcodes' = Append(opcodes, [kind |-> kind, roi |-> r, expected |-> integrated,
                                    dummies |-> Dummies(kind)])
       /\ integrated' = IF kind = "trim" THEN Trimmed(r) ELSE integrated
  /\ UNCHANGED <<file, stage, geometry, positions, black>>

ListParsed == /\ Parsing
              /\ stage' = IF stage = "parse1" THEN "apply1" ELSE "apply2"
              /\ integrated' = NoSubImage
              /\ UNCHANGED <<file, geometry, opcodes, positions, black>>

Op == Head(opcodes)

NextOpcode == /\ opcodes' = Tail(opcodes)
              /\ UNCHANGED <<file, stage, integrated, black>>

(* Which samples have the value is up to the image; one stands for all of them.   *)
ApplyConstant == /\ Applying /\ opcodes # << >> /\ Op.kind = "constant"
                 /\ ~file.float /\ file.cpp = 1
                 /\ \E p \in PixelsOf(WholeOf(dim)) : positions' = positions \cup {Plus(mOffset, p)}
                 /\ UNCHANGED geometry
                 /\ NextOpcode

ApplyList == /\ Applying /\ opcodes # << >> /\ Op.kind \in {"points", "rects"}
             /\ positions' = positions \cup
                   {p \in Corner : Leq(Op.roi.pos, p) /\ Less(p, Plus(Op.roi.pos, Op.roi.dim))}
             /\ UNCHANGED geometry
             /\ NextOpcode

ApplyTrim == /\ Applying /\ opcodes # << >> /\ Op.kind = "trim"
             /\ SubFrame(Op.roi)
             /\ UNCHANGED positions
             /\ NextOpcode

ApplyPixel == /\ Applying /\ opcodes # << >> /\ Op.kind = "pixel"
              /\ UNCHANGED <<geometry, positions>>
              /\ NextOpcode

ListApplied == /\ Applying
               /\ opcodes = << >>
               /\ stage' = AfterList
               /\ UNCHANGED <<file, geometry, integrated, opcodes, positions, black>>

(* What throws in setup() or apply(): a constant in an image it is not for, a map of
   values that are out of range, an empty TrimBounds.                             *)
OpcodeThrows == /\ Applying
                /\ opcodes # << >>
                /\ \/ Op.kind = "constant" /\ (file.float \/ file.cpp # 1)
                   \/ Op.kind = "trim" /\ ~HasArea(Op.roi)
                   \/ Op.kind = "pixel"

EndOfDecoding == "fix"        \* (mutant) the handler leaves handleMetadata()

AfterOpcodeError == AfterList

LogOpcodeError == /\ Parsing \/ OpcodeThrows
                  /\ stage' = AfterOpcodeError
                  /\ opcodes' = << >>
                  /\ integrated' = NoSubImage
                  /\ UNCHANGED <<file, geometry, positions, black>>
-----------------------------------------------------------------------------
(* decodeMaskedAreas(): of a masked rectangle inside the image, its rows are a black
   area when it spans the width of the crop, or else its columns when it spans the
   height.  Each rectangle is taken by itself: one stands for all.                *)
SpansWidth(r) == r.pos.x <= mOffset.x /\ r.pos.x + r.dim.x >= mOffset.x + dim.x
SpansHeight(r) == r.pos.y <= mOffset.y /\ r.pos.y + r.dim.y >= mOffset.y + dim.y

Rows(first, count) == {[offset |-> first, size |-> count, isVertical |-> FALSE]}
Columns(first, count) == {[offset |-> first, size |-> count, isVertical |-> TRUE]}

BlackAreaToEdge(r) ==         \* (mutant) the far edge passes for the size
  IF SpansWidth(r) THEN Rows(r.pos.y, r.pos.y + r.dim.y)
  ELSE IF SpansHeight(r) THEN Columns(r.pos.x, r.pos.x + r.dim.x)
  ELSE {}

BlackArea(r) ==
  IF SpansWidth(r) THEN Rows(r.pos.y, r.dim.y)
  ELSE IF SpansHeight(r) THEN Columns(r.pos.x, r.dim.x)
  ELSE {}

(* setBlack(): the black areas, or else the levels of the file, 0 by default.     *)
SetBlack == /\ stage = "black"
            /\ \/ blackAreas' = {}
               \/ \E r \in NonemptyIn(FullDim) : blackAreas' = BlackArea(r)
            /\ separate' = (blackAreas' = {})
            /\ \/ stage' = "fix"
               \/ ~file.float /\ stage' = "scale"     \* lossy, with an OpcodeList2
            /\ UNCHANGED <<file, geometry, integrated, opcodes, positions, scaled, levels>>

(* calculateBlackAreas() throws for an area that leaves the image.                *)
AreaFits(a) == LET size == a.size - (a.size % 2)
               IN  a.offset + size <= (IF a.isVertical THEN Width ELSE Height)

(* scaleValues_plain() scales the samples of the crop; scaleValues_SSE2() those of its
   rows, eight at a time, in as many columns as the image has pixels.  Which one it is
   depends on the levels, too.                                                     *)
RowsOf(c) == {row \in 0 .. Height - 1 : c.pos.y <= row /\ row < c.pos.y + c.dim.y}

ColumnsOf(c) == {col \in 0 .. file.cpp * Width - 1 :
                   file.cpp * c.pos.x <= col /\ col < file.cpp * (c.pos.x + c.dim.x)}

SseColumns == {col \in 0 .. file.cpp * Width - 1 : col < Width - (Width % 8)}

ScaleBlackWhite ==
  /\ stage = "scale"
  /\ separate \/ \A a \in blackAreas : AreaFits(a)
  /\ separate' = TRUE
  /\ \/ scaled' = RowsOf(Crop) \X ColumnsOf(Crop)
     \/ Sse2 /\ scaled' = RowsOf(Crop) \X SseColumns
  /\ stage' = "list2"
  /\ UNCHANGED <<file, geometry, integrated, opcodes, positions, blackAreas, levels>>

(* After list 2 the levels are those of scaled samples.                           *)
ResetLevels == /\ stage = "levels"
               /\ blackAreas' = {}
               /\ levels' = "scaled"
               /\ stage' = "fix"
               /\ UNCHANGED <<file, geometry, integrated, opcodes, positions, separate, scaled>>

(* The rest of RawDecoder::decodeRaw(): fixBadPixels() empties the list into the map.  *)
FixBadPixels == /\ stage = "fix"
                /\ positions' \in {{}, positions}     \* emptied with interpolateBadPixels
                /\ stage' = "done"
                /\ UNCHANGED <<file, geometry, integrated, opcodes, black>>

(* Tags that are missing or out of range, and samples that cannot be decoded.     *)
Throw == /\ stage \notin {"fix", "done", "threw"}
         /\ stage' = "threw"
         /\ opcodes' = << >>
         /\ integrated' = NoSubImage
         /\ UNCHANGED <<file, geometry, positions, black>>

Finished == stage \in {"done", "threw"} /\ UNCHANGED vars

Next == \/ LoadImage \/ CropToActiveArea \/ CropToDefault
        \/ BeginList \/ NoList \/ ListParsed \/ ListApplied
        \/ \E kind \in {"constant", "points", "rects", "trim", "pixel"} : ParseOpcode(kind)
        \/ ApplyConstant \/ ApplyList \/ ApplyTrim \/ ApplyPixel \/ LogOpcodeError
        \/ SetBlack \/ ScaleBlackWhite \/ ResetLevels \/ FixBadPixels
        \/ Throw \/ Finished

Spec == Init /\ [][Next]_vars
-----------------------------------------------------------------------------
Kinds == {"constant", "points", "rects", "trim", "pixel"}

Opcode == [kind : Kinds, roi : Rectangle, expected : Rectangle, dummies : SUBSET {WholeOf(FullDim)}]

TypeOK ==
  /\ file \in [cpp : Cpps, float : BOOLEAN, cfaSize : CfaSizes, active : RectsIn(FullDim)]
  /\ stage \in {"load", "active", "default", "list1", "parse1", "apply1", "black",
                "scale", "list2", "parse2", "apply2", "levels", "fix", "done", "threw"}
  /\ dim \in Corner
  /\ mOffset \in Corner
  /\ cfa \in [x : 0 .. file.cfaSize.x - 1, y : 0 .. file.cfaSize.y - 1]
  /\ integrated \in Rectangle
  /\ opcodes \in Seq(Opcode)
  /\ positions \subseteq Corner
  /\ blackAreas \subseteq [offset : Nat, size : Nat, isVertical : BOOLEAN]
  /\ separate \in BOOLEAN
  /\ scaled \subseteq Nat \X Nat
  /\ levels \in {"file", "scaled"}

(* Whatever the tags ask for, and wherever an opcode list breaks off, the crop is a part
   of the image and not empty.                                                     *)
CropInside == /\ HasArea(Crop)
              /\ Leq(Origin, mOffset)
              /\ Leq(Plus(mOffset, dim), FullDim)

(* The colours of the pattern stay where the file put them, relative to the active area,
   through every crop.  A pattern that does not move with the crop is relative to the
   whole image instead ("the cfa is specified relative to the ActiveArea. we want it
   relative (0,0)", DngDecoder.cpp:250).                                           *)
CfaFollowsCrop ==
  stage \notin {"load", "threw"} =>
    cfa = Shifted(Origin, Minus(IF MovesWithCrop THEN mOffset ELSE Origin, file.active.pos))

(* When an opcode is applied, the image has the crop that its predecessors were to leave
   when it was parsed, and the pixels of its region are in it ("Current image sub-crop
   does not match the expected one!", DngOpcodes.cpp:132).  A dummy of FixBadPixelsList,
   set up while it is parsed, has the crop it expects if the image has not been cropped
   before; if it has, that assertion fails.                                        *)
OpcodesMeetTheirCrop ==
  /\ Applying /\ opcodes # << >> =>
       /\ Op.expected = Crop
       /\ Op.kind \in {"constant", "trim", "pixel"} => Leq(Plus(Op.roi.pos, Op.roi.dim), dim)
  /\ Parsing /\ Crop = WholeOf(FullDim) => \A i \in DOMAIN opcodes : \A d \in opcodes[i].dummies : d = Crop

(* A bad pixel is a pixel of the image (the assertions of transferBadPixelsToMap()),
   recorded relative to the crop or to the image, before or after trimming.        *)
BadPixelsInside == positions \subseteq Pixel

(* calculateBlackAreas() has no reason to throw: a black area of a DNG fits.         *)
BlackAreasFit == \A a \in blackAreas : AreaFits(a)

(* The levels the caller gets are those of the samples it gets, also when the opcodes
   between scaling and resetting them fail or trim the image: no sample was scaled when
   they are the file's; or else all of the crop were, as far as the code that scales
   comes (LossyIsScaled), and no black area is left to be measured.                *)
ScaledColumns == IF Sse2 THEN ColumnsOf(Crop) \cap SseColumns ELSE ColumnsOf(Crop)

LevelsDescribeSamples ==
  stage \in {"fix", "done"} =>
    /\ levels = "file" => scaled = {}
    /\ levels = "scaled" => blackAreas = {} /\ RowsOf(Crop) \X ScaledColumns \subseteq scaled

(* "We must apply black/white scaling" (DngDecoder.cpp:623): the opcodes of list 2 work
   on an image all of whose samples have been scaled.                              *)
LossyIsScaled ==
  stage \in {"list2", "parse2", "apply2", "levels"} => RowsOf(Crop) \X ColumnsOf(Crop) \subseteq scaled
=============================================================================
