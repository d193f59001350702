--------------------------- MODULE DngImage_proofs ---------------------------
(* Theorems about DngImage, for images, patterns and opcode lists of every size.   *)
EXTENDS DngImage, TLAPS

ListStages == {"parse1", "apply1", "parse2", "apply2"}

(* The crop that an opcode leaves to the next one.                                 *)
CropAfter(op) ==
  IF op.kind = "trim" THEN [pos |-> Plus(op.expected.pos, op.roi.pos), dim |-> op.roi.dim]
                      ELSE op.expected

InImage(r) == Leq(Plus(r.pos, r.dim), FullDim)

(* What the constructor of an opcode has checked.                                  *)
OpcodeFits(op) ==
  /\ InImage(op.expected)
  /\ op.kind \in {"constant", "trim", "pixel"} => Leq(Plus(op.roi.pos, op.roi.dim), op.expected.dim)
  /\ op.kind = "points" => op.roi.dim = Point(1, 1)
  /\ InImage(op.roi)

(* The opcodes of a list expect the crop that the image has, then each what the one
   before it leaves; the parser knows what the last one leaves.                    *)
OpcodesChain ==
  /\ stage \notin ListStages => opcodes = << >>
  /\ ~Parsing => integrated = NoSubImage
  /\ InImage(integrated)
  /\ \A i \in 1 .. Len(opcodes) : OpcodeFits(opcodes[i])
  /\ opcodes # << >> => opcodes[1].expected = Crop
  /\ \A i \in 1 .. Len(opcodes) - 1 : opcodes[i + 1].expected = CropAfter(opcodes[i])
  /\ Parsing => integrated = IF opcodes = << >> THEN Crop ELSE CropAfter(opcodes[Len(opcodes)])

IInv == TypeOK /\ CropInside /\ OpcodesChain /\ BadPixelsInside /\ BlackAreasFit

LEMMA Parameters == Width \in Nat \ {0} /\ Height \in Nat \ {0}
  BY DngImageAssumption

(* Shifting a pattern gives one of its cells.                                      *)
LEMMA ShiftRange ==
  ASSUME TypeOK, NEW phase \in [x : Int, y : Int], NEW n \in [x : Int, y : Int]
  PROVE  Shifted(phase, n) \in [x : 0 .. file.cfaSize.x - 1, y : 0 .. file.cfaSize.y - 1]
<1>1. file.cfaSize.x \in Nat \ {0} /\ file.cfaSize.y \in Nat \ {0}
  BY DngImageAssumption DEF TypeOK
<1>2. phase.x + n.x \in Int /\ phase.y + n.y \in Int
  OBVIOUS
<1> QED BY <1>1, <1>2 DEF Shifted, Point

(* A crop that does not leave the image is part of it.                             *)
LEMMA CropStep ==
  ASSUME TypeOK, CropInside, NEW r \in Rectangle, SubFrame(r)
  PROVE  /\ dim' \in Corner /\ mOffset' \in Corner
         /\ cfa' \in [x : 0 .. file.cfaSize.x - 1, y : 0 .. file.cfaSize.y - 1]
         /\ CropInside'
         /\ Leq(Plus(r.pos, r.dim), dim) =>
              Crop' = [pos |-> Plus(mOffset, r.pos), dim |-> r.dim]
<1>1. Shifted(cfa, r.pos) \in [x : 0 .. file.cfaSize.x - 1, y : 0 .. file.cfaSize.y - 1]
  <2>1. cfa \in [x : Int, y : Int]
    BY DngImageAssumption DEF TypeOK
  <2>2. r.pos \in [x : Int, y : Int]
    BY Parameters DEF Rectangle, Corner
  <2> QED BY <2>1, <2>2, ShiftRange
<1>2. CASE Fits(r)
  <2>1. dim' = r.dim /\ mOffset' = Plus(mOffset, r.pos)
        /\ cfa' = IF MovesWithCrop THEN Shifted(cfa, r.pos) ELSE cfa
    BY <1>2 DEF SubFrame
  <2>2. r.pos \in Corner /\ r.dim \in Corner /\ dim \in Corner /\ mOffset \in Corner
    BY DEF TypeOK, Rectangle
  <2>3. r.pos.x + r.dim.x <= dim.x /\ r.pos.y + r.dim.y <= dim.y
    BY <1>2, <2>2, Parameters DEF Fits, Leq, Minus, Point, Corner
  <2>4. mOffset.x + dim.x <= Width /\ mOffset.y + dim.y <= Height
    BY <2>2 DEF CropInside, Leq, Plus, Point, FullDim
  <2>5. mOffset' \in Corner
    BY <2>1, <2>2, <2>3, <2>4, Parameters DEF Corner, Plus, Point
  <2>6. Leq(Origin, mOffset') /\ Leq(Plus(mOffset', dim'), FullDim)
    BY <2>1, <2>2, <2>3, <2>4, Parameters DEF Corner, Plus, Point, Leq, Origin, FullDim
  <2>7. HasArea(Crop)'
    BY <2>1 DEF SubFrame, HasArea, Crop
  <2> QED BY <2>1, <2>2, <2>5, <2>6, <2>7, <1>1 DEF Crop, TypeOK, CropInside, Origin, FullDim, Point
<1>3. CASE ~Fits(r)
  <2>1. UNCHANGED geometry
    BY <1>3 DEF SubFrame
  <2>2. ~Leq(Plus(r.pos, r.dim), dim)
    <3>1. r.pos \in Corner /\ r.dim \in Corner /\ dim \in Corner
      BY DEF TypeOK, Rectangle
    <3> QED BY <1>3, <3>1, Parameters DEF Fits, Leq, Plus, Minus, Point, Origin, Corner
  <2> QED BY <2>1, <2>2 DEF geometry, TypeOK, CropInside, Crop
<1> QED BY <1>2, <1>3

(* The initial state.                                                              *)
LEMMA InitInv == Init => IInv
<1> SUFFICES ASSUME Init PROVE IInv
  OBVIOUS
<1>1. file.cfaSize.x \in Nat \ {0} /\ file.cfaSize.y \in Nat \ {0}
  BY DngImageAssumption DEF Init
<1>2. FullDim \in Corner /\ Origin \in Corner
  BY Parameters DEF FullDim, Origin, Corner, Point
<1>3. TypeOK
  <2>1. cfa \in [x : 0 .. file.cfaSize.x - 1, y : 0 .. file.cfaSize.y - 1]
    BY <1>1 DEF Init, Origin, Point
  <2>2. integrated \in Rectangle
    BY <1>2 DEF Init, NoSubImage, WholeOf, Rectangle
  <2>3. opcodes \in Seq(Opcode)
    BY DEF Init
  <2> QED BY <1>2, <2>1, <2>2, <2>3 DEF Init, TypeOK
<1>4. CropInside
  BY Parameters DEF Init, CropInside, Crop, HasArea, Leq, Plus, Origin, FullDim, Point
<1>5. OpcodesChain
  BY Parameters DEF Init, OpcodesChain, ListStages, Parsing, InImage, NoSubImage, WholeOf, Leq,
     Plus, Origin, FullDim, Point
<1> QED BY <1>3, <1>4, <1>5 DEF IInv, Init, BadPixelsInside, BlackAreasFit

(* Outside of a list there are no opcodes, and the crop may move.                  *)
LEMMA NoOpcodes ==
  ASSUME OpcodesChain, stage \notin ListStages PROVE opcodes = << >> /\ integrated = NoSubImage
  BY DEF OpcodesChain, ListStages, Parsing

LEMMA NoOpcodesStep ==
  ASSUME stage' \notin ListStages, opcodes' = << >>, integrated' = NoSubImage
  PROVE  OpcodesChain'
<1>1. ~Parsing' /\ Len(opcodes') = 0
  BY DEF ListStages, Parsing
<1>2. InImage(integrated')
  BY Parameters DEF InImage, NoSubImage, WholeOf, Leq, Plus, Origin, FullDim, Point
<1> QED BY <1>1, <1>2 DEF OpcodesChain, InImage, NoSubImage, WholeOf, Origin, Point, FullDim

(* An opcode leaves the list: the image has the crop that the next one expects.    *)
LEMMA TailStep ==
  ASSUME TypeOK, OpcodesChain, Applying, opcodes # << >>, opcodes' = Tail(opcodes),
         UNCHANGED <<stage, integrated>>, Crop' = CropAfter(Op)
  PROVE  OpcodesChain'
<1>1. opcodes \in Seq(Opcode) /\ Len(opcodes) \in Nat \ {0}
  BY DEF TypeOK
<1>2. Len(opcodes') = Len(opcodes) - 1 /\ \A i \in 1 .. Len(opcodes) - 1 : opcodes'[i] = opcodes[i + 1]
  BY <1>1
<1>3. \A i \in 1 .. Len(opcodes') : OpcodeFits(opcodes'[i])
  BY <1>1, <1>2 DEF OpcodesChain
<1>4. \A i \in 1 .. Len(opcodes') - 1 : opcodes'[i + 1].expected = CropAfter(opcodes'[i])
  BY <1>1, <1>2 DEF OpcodesChain
<1>5. opcodes' # << >> => opcodes'[1].expected = Crop'
  <2>1. SUFFICES ASSUME opcodes' # << >> PROVE opcodes'[1].expected = Crop'
    OBVIOUS
  <2>2. Len(opcodes') # 0
    BY <1>1, <2>1
  <2>3. opcodes'[1] = opcodes[2] /\ 1 \in 1 .. Len(opcodes) - 1
    BY <1>1, <1>2, <2>2
  <2>4. opcodes[1 + 1].expected = CropAfter(opcodes[1])
    BY <2>3 DEF OpcodesChain
  <2> QED BY <1>1, <2>3, <2>4 DEF Op
<1>6. stage' \in ListStages /\ ~Parsing /\ ~Parsing'
  BY DEF Applying, ListStages, Parsing
<1>7. integrated' = NoSubImage /\ InImage(integrated')
  BY <1>6 DEF OpcodesChain
<1> QED BY <1>3, <1>4, <1>5, <1>6, <1>7 DEF OpcodesChain, OpcodeFits, CropAfter, InImage, NoSubImage,
        WholeOf, Origin, Point, FullDim

(* The constructors check what OpcodeFits says.                                    *)
LEMMA RoiFits ==
  ASSUME TypeOK, OpcodesChain, NEW kind \in Kinds, NEW r \in Roi(kind)
  PROVE  /\ r \in Rectangle
         /\ OpcodeFits([kind |-> kind, roi |-> r, expected |-> integrated,
                        dummies |-> Dummies(kind)])
<1>1. integrated \in Rectangle /\ InImage(integrated) /\ integrated.pos \in Corner
      /\ integrated.dim \in Corner
  BY DEF TypeOK, OpcodesChain, Rectangle
<1>2. ASSUME r \in RectsIn(integrated.dim) PROVE InImage(r) /\ Leq(Plus(r.pos, r.dim), integrated.dim)
  <2>1. r.pos \in Corner /\ r.dim \in Corner
    BY <1>2 DEF RectsIn, Rectangle
  <2> QED BY <1>1, <1>2, <2>1, Parameters DEF RectsIn, InImage, Leq, Plus, Point, FullDim, Corner
<1>3. WholeOf(integrated.dim) \in RectsIn(integrated.dim) /\ NoSubImage \in RectsIn(integrated.dim)
  BY <1>1, Parameters DEF RectsIn, WholeOf, NoSubImage, Leq, Plus, Point, Origin, Rectangle, Corner
<1>4. ASSUME kind \in {"constant", "trim", "pixel"} PROVE r \in RectsIn(integrated.dim)
  <2>1. CASE kind = "constant"
    BY <2>1, <1>3 DEF Roi
  <2>2. CASE kind = "trim"
    BY <2>2, <1>3 DEF Roi, NonemptyIn
  <2>3. CASE kind = "pixel"
    BY <2>3 DEF Roi, NonemptyIn
  <2> QED BY <1>4, <2>1, <2>2, <2>3
<1>5. ASSUME kind \in {"points", "rects"}
      PROVE  r \in RectsIn(FullDim) /\ (kind = "points" => r.dim = Point(1, 1))
  BY <1>5 DEF Roi, PointsInImage, NonemptyIn
<1>6. CASE kind \in {"constant", "trim", "pixel"}
  BY <1>1, <1>2, <1>4, <1>6 DEF OpcodeFits, RectsIn
<1>7. CASE kind \in {"points", "rects"}
  BY <1>1, <1>5, <1>7 DEF OpcodeFits, RectsIn, InImage
<1> QED BY <1>6, <1>7 DEF Kinds

(* An opcode joins the list: it expects what the last one leaves.                  *)
LEMMA ParseStep ==
  ASSUME TypeOK, OpcodesChain, NEW kind \in Kinds, ParseOpcode(kind)
  PROVE  OpcodesChain' /\ opcodes' \in Seq(Opcode) /\ integrated' \in Rectangle
<1>1. PICK r \in Roi(kind) :
        /\ opcodes' = Append(opcodes, [kind |-> kind, roi |-> r, expected |-> integrated,
                                       dummies |-> Dummies(kind)])
        /\ integrated' = IF kind = "trim" THEN Trimmed(r) ELSE integrated
  BY DEF ParseOpcode
<1> DEFINE op == [kind |-> kind, roi |-> r, expected |-> integrated, dummies |-> Dummies(kind)]
           n == Len(opcodes)
<1>2. r \in Rectangle /\ OpcodeFits(op)
  BY RoiFits
<1>3. opcodes \in Seq(Opcode) /\ integrated \in Rectangle /\ InImage(integrated) /\ op \in Opcode
  <2>1. Dummies(kind) \subseteq {WholeOf(FullDim)}
    BY DEF Dummies
  <2> QED BY <1>2, <2>1 DEF TypeOK, OpcodesChain, Opcode
<1>4. n \in Nat /\ Len(opcodes') = n + 1 /\ opcodes'[n + 1] = op
      /\ \A i \in 1 .. n : opcodes'[i] = opcodes[i]
  BY <1>1, <1>3
<1>5. integrated' = CropAfter(op)
  BY <1>1 DEF CropAfter, Trimmed
<1>6. integrated' \in Rectangle /\ InImage(integrated')
  <2>1. CASE kind = "trim"
    <3>1. r.pos \in Corner /\ r.dim \in Corner /\ integrated.pos \in Corner /\ integrated.dim \in Corner
      BY <1>2, <1>3 DEF Rectangle
    <3>2. Leq(Plus(r.pos, r.dim), integrated.dim)
      BY <1>2, <2>1 DEF OpcodeFits
    <3>3. integrated' = [pos |-> Plus(integrated.pos, r.pos), dim |-> r.dim]
      BY <1>1, <2>1 DEF Trimmed
    <3>4. /\ r.pos.x + r.dim.x <= integrated.dim.x /\ r.pos.y + r.dim.y <= integrated.dim.y
          /\ integrated.pos.x + integrated.dim.x <= Width
          /\ integrated.pos.y + integrated.dim.y <= Height
      BY <1>3, <3>2 DEF InImage, Leq, Plus, Point, FullDim
    <3>5. Plus(integrated.pos, r.pos) \in Corner
      BY <3>1, <3>4, Parameters DEF Plus, Point, Corner
    <3>6. Leq(Plus(Plus(integrated.pos, r.pos), r.dim), FullDim)
      BY <3>1, <3>4, Parameters DEF Plus, Point, Corner, Leq, FullDim
    <3> QED BY <3>1, <3>3, <3>5, <3>6 DEF InImage, Rectangle
  <2>2. CASE kind # "trim"
    BY <1>1, <1>3, <2>2 DEF InImage
  <2> QED BY <2>1, <2>2
<1>7. stage' = stage /\ stage \in ListStages /\ Parsing /\ Parsing' /\ Crop' = Crop
  BY DEF ParseOpcode, Parsing, ListStages, geometry, Crop
<1>8. \A i \in 1 .. Len(opcodes') : OpcodeFits(opcodes'[i])
  BY <1>2, <1>4 DEF OpcodesChain
<1>9. opcodes'[1].expected = Crop'
  <2>1. CASE opcodes = << >>
    BY <1>4, <1>7, <2>1 DEF OpcodesChain
  <2>2. CASE opcodes # << >>
    BY <1>3, <1>4, <1>7, <2>2 DEF OpcodesChain
  <2> QED BY <2>1, <2>2
<1>10. \A i \in 1 .. Len(opcodes') - 1 : opcodes'[i + 1].expected = CropAfter(opcodes'[i])
  <2> SUFFICES ASSUME NEW i \in 1 .. n PROVE opcodes'[i + 1].expected = CropAfter(opcodes'[i])
    BY <1>4
  <2>1. CASE i = n
    <3>1. opcodes # << >>
      BY <1>3, <1>4, <2>1
    <3>2. integrated = CropAfter(opcodes[n])
      BY <1>7, <3>1 DEF OpcodesChain
    <3> QED BY <1>4, <2>1, <3>2
  <2>2. CASE i # n
    <3>1. i \in 1 .. n - 1 /\ i + 1 \in 1 .. n
      BY <1>4, <2>2
    <3> QED BY <1>4, <3>1 DEF OpcodesChain
  <2> QED BY <2>1, <2>2
<1>11. opcodes' # << >> /\ integrated' = CropAfter(opcodes'[Len(opcodes')])
  BY <1>3, <1>4, <1>5
<1>12. opcodes' \in Seq(Opcode)
  BY <1>1, <1>3
<1> QED BY <1>6, <1>7, <1>8, <1>9, <1>10, <1>11, <1>12 DEF OpcodesChain, OpcodeFits, CropAfter, InImage,
        FullDim, Point

(* What opcodes record are pixels of the image.                                    *)
LEMMA ConstantStep ==
  ASSUME IInv, ApplyConstant PROVE positions' \subseteq Pixel
<1>1. PICK p \in PixelsOf(WholeOf(dim)) : positions' = positions \cup {Plus(mOffset, p)}
  BY DEF ApplyConstant
<1>2. p \in Pixel /\ p.x < dim.x /\ p.y < dim.y
  BY DEF PixelsOf, WholeOf, Less, Plus, Origin, Point, IInv, TypeOK, Corner
<1>3. dim \in Corner /\ mOffset \in Corner /\ mOffset.x + dim.x <= Width /\ mOffset.y + dim.y <= Height
  BY DEF IInv, TypeOK, CropInside, Leq, Plus, Point, FullDim
<1>4. Plus(mOffset, p) \in Pixel
  BY <1>2, <1>3, Parameters DEF Plus, Point, Pixel, Corner
<1> QED BY <1>1, <1>4 DEF IInv, BadPixelsInside

LEMMA ListStep ==
  ASSUME IInv, ApplyList PROVE positions' \subseteq Pixel
<1>1. Op \in Opcode /\ OpcodeFits(Op)
  BY DEF IInv, TypeOK, OpcodesChain, ApplyList, Op
<1>2. Op.roi.pos \in Corner /\ Op.roi.dim \in Corner /\ InImage(Op.roi)
  BY <1>1 DEF Opcode, Rectangle, OpcodeFits
<1>3. ASSUME NEW p \in Corner, Less(p, Plus(Op.roi.pos, Op.roi.dim)) PROVE p \in Pixel
  BY <1>2, <1>3, Parameters DEF InImage, Leq, Less, Plus, Point, FullDim, Corner, Pixel
<1> QED BY <1>3 DEF ApplyList, IInv, BadPixelsInside

(* A black area is a part of a rectangle that lies in the image.                   *)
LEMMA AreaStep ==
  ASSUME NEW r \in NonemptyIn(FullDim), NEW a \in BlackArea(r)
  PROVE  a \in [offset : Nat, size : Nat, isVertical : BOOLEAN] /\ AreaFits(a)
<1>1. r.pos \in Corner /\ r.dim \in Corner /\ r.pos.x + r.dim.x <= Width /\ r.pos.y + r.dim.y <= Height
  BY DEF NonemptyIn, RectsIn, Rectangle, Leq, Plus, Point, FullDim
<1>2. \/ a = [offset |-> r.pos.y, size |-> r.dim.y, isVertical |-> FALSE]
      \/ a = [offset |-> r.pos.x, size |-> r.dim.x, isVertical |-> TRUE]
  BY DEF BlackArea, Rows, Columns
<1>3. r.pos.x \in Nat /\ r.pos.y \in Nat /\ r.dim.x \in Nat /\ r.dim.y \in Nat
  BY <1>1, Parameters DEF Corner
<1>4. CASE a = [offset |-> r.pos.y, size |-> r.dim.y, isVertical |-> FALSE]
  <2>1. a.offset = r.pos.y /\ a.size = r.dim.y /\ a.isVertical = FALSE
        /\ a \in [offset : Nat, size : Nat, isVertical : BOOLEAN]
    BY <1>3, <1>4
  <2>2. r.pos.y + (r.dim.y - (r.dim.y % 2)) <= Height
    BY <1>1, <1>3, Parameters
  <2> QED BY <2>1, <2>2 DEF AreaFits
<1>5. CASE a = [offset |-> r.pos.x, size |-> r.dim.x, isVertical |-> TRUE]
  <2>1. a.offset = r.pos.x /\ a.size = r.dim.x /\ a.isVertical = TRUE
        /\ a \in [offset : Nat, size : Nat, isVertical : BOOLEAN]
    BY <1>3, <1>5
  <2>2. r.pos.x + (r.dim.x - (r.dim.x % 2)) <= Width
    BY <1>1, <1>3, Parameters
  <2> QED BY <2>1, <2>2 DEF AreaFits
<1> QED BY <1>2, <1>4, <1>5

(* The samples that are scaled have a row and a column.                            *)
LEMMA ScaledRange ==
  ASSUME TypeOK
  PROVE  RowsOf(Crop) \X ColumnsOf(Crop) \subseteq Nat \X Nat /\ RowsOf(Crop) \X SseColumns \subseteq Nat \X Nat
<1>1. file.cpp * Width - 1 \in Int
  <2>1. file.cpp \in Cpps
    BY DEF TypeOK
  <2>2. file.cpp \in Nat
    BY <2>1, DngImageAssumption, Zenon
  <2> QED BY <2>2, Parameters
<1>2. RowsOf(Crop) \subseteq Nat
  BY Parameters DEF RowsOf
<1>3. ColumnsOf(Crop) \subseteq Nat /\ SseColumns \subseteq Nat
  BY <1>1 DEF ColumnsOf, SseColumns
<1> QED BY <1>2, <1>3

(* The actions that apply an opcode.                                               *)
LEMMA ApplySteps ==
  ASSUME IInv, ApplyConstant \/ ApplyList \/ ApplyTrim \/ ApplyPixel
  PROVE  IInv'
<1>1. Op \in Opcode /\ OpcodeFits(Op) /\ Op.expected = Crop
  BY DEF IInv, TypeOK, OpcodesChain, ApplyConstant, ApplyList, ApplyTrim, ApplyPixel, Op
<1>2. /\ Applying /\ opcodes # << >> /\ opcodes' = Tail(opcodes)
      /\ UNCHANGED <<file, stage, integrated, black>>
  BY DEF ApplyConstant, ApplyList, ApplyTrim, ApplyPixel, NextOpcode
<1>3. opcodes' \in Seq(Opcode)
  BY <1>2 DEF IInv, TypeOK
<1>4. positions' \subseteq Pixel
  <2>1. CASE ApplyTrim \/ ApplyPixel
    BY <2>1 DEF ApplyTrim, ApplyPixel, IInv, BadPixelsInside
  <2> QED BY <2>1, ConstantStep, ListStep
<1>5. Pixel \subseteq Corner
  BY Parameters DEF Pixel, Corner
<1>6. BlackAreasFit'
  BY <1>2 DEF IInv, BlackAreasFit, black, AreaFits
<1>7. /\ dim' \in Corner /\ mOffset' \in Corner /\ CropInside' /\ Crop' = CropAfter(Op)
      /\ cfa' \in [x : 0 .. file.cfaSize.x - 1, y : 0 .. file.cfaSize.y - 1]
  <2>1. CASE ApplyTrim
    <3>1. Op.kind = "trim" /\ SubFrame(Op.roi) /\ Op.roi \in Rectangle
      BY <2>1, <1>1 DEF ApplyTrim, Opcode
    <3>2. Leq(Plus(Op.roi.pos, Op.roi.dim), dim)
      BY <1>1, <3>1 DEF OpcodeFits, Crop
    <3>3. CropAfter(Op) = [pos |-> Plus(mOffset, Op.roi.pos), dim |-> Op.roi.dim]
      BY <1>1, <3>1 DEF CropAfter, Crop
    <3> QED BY <3>1, <3>2, <3>3, CropStep DEF IInv
  <2>2. CASE ~ApplyTrim
    <3>1. UNCHANGED geometry /\ Op.kind # "trim"
      BY <2>2 DEF ApplyConstant, ApplyList, ApplyPixel
    <3> QED BY <1>1, <3>1 DEF geometry, IInv, TypeOK, CropInside, Crop, CropAfter
  <2> QED BY <2>1, <2>2
<1>8. TypeOK'
  BY <1>2, <1>3, <1>4, <1>5, <1>7 DEF IInv, TypeOK, black
<1>9. OpcodesChain'
  BY <1>2, <1>7, TailStep DEF IInv
<1> QED BY <1>4, <1>6, <1>7, <1>8, <1>9 DEF IInv, BadPixelsInside, Pixel

(* The actions before and after the lists, and at their ends, one by one.          *)
LEMMA CropSteps ==
  ASSUME IInv, LoadImage \/ CropToActiveArea \/ CropToDefault PROVE IInv'
<1>1. stage \notin ListStages /\ stage' \notin ListStages /\ opcodes' = opcodes /\ integrated' = integrated
  BY DEF LoadImage, CropToActiveArea, CropToDefault, ListStages
<1>2. UNCHANGED <<file, positions, black>> /\ stage' \in {"active", "default", "list1"}
  BY DEF LoadImage, CropToActiveArea, CropToDefault
<1>3. OpcodesChain'
  BY <1>1, NoOpcodes, NoOpcodesStep DEF IInv
<1>4. BlackAreasFit' /\ BadPixelsInside'
  BY <1>2 DEF IInv, BlackAreasFit, BadPixelsInside, black, AreaFits, Pixel
<1>5. /\ dim' \in Corner /\ mOffset' \in Corner /\ CropInside'
      /\ cfa' \in [x : 0 .. file.cfaSize.x - 1, y : 0 .. file.cfaSize.y - 1]
  <2>1. CASE LoadImage
    <3>1. file.active \in Rectangle
      BY DEF IInv, TypeOK, RectsIn
    <3>2. Origin \in [x : Int, y : Int] /\ Minus(Origin, file.active.pos) \in [x : Int, y : Int]
      BY <3>1, Parameters DEF Rectangle, Corner, Minus, Origin, Point
    <3>3. PatternOfImage \in [x : 0 .. file.cfaSize.x - 1, y : 0 .. file.cfaSize.y - 1]
      BY <3>2, ShiftRange DEF IInv, PatternOfImage
    <3> QED BY <2>1, <3>3 DEF LoadImage, IInv, TypeOK, CropInside, Crop
  <2>2. CASE CropToActiveArea
    <3>1. file.active \in Rectangle /\ SubFrame(file.active)
      BY <2>2 DEF IInv, TypeOK, RectsIn, CropToActiveArea
    <3> QED BY <3>1, CropStep DEF IInv
  <2>3. CASE CropToDefault
    <3>1. PICK origin \in Corner, size \in Corner : SubFrame(DefaultCrop(origin, size))
      BY <2>3 DEF CropToDefault
    <3> DEFINE pos == IF Leq(origin, dim) THEN origin ELSE Origin
    <3>2. pos \in Corner /\ dim \in Corner /\ Leq(pos, dim)
      BY <3>1, Parameters DEF Origin, Corner, Point, Leq, IInv, TypeOK
    <3>3. Minus(dim, pos) \in Corner
      BY <3>2, Parameters DEF Corner, Minus, Point, Leq
    <3>4. DefaultCrop(origin, size) \in Rectangle
      BY <3>1, <3>2, <3>3 DEF DefaultCrop, Rectangle
    <3> QED BY <3>1, <3>4, CropStep DEF IInv
  <2> QED BY <2>1, <2>2, <2>3
<1>6. TypeOK'
  BY <1>1, <1>2, <1>5 DEF IInv, TypeOK, black
<1> QED BY <1>3, <1>4, <1>5, <1>6 DEF IInv

LEMMA ListBegins ==
  ASSUME IInv, BeginList PROVE IInv'
<1>1. opcodes = << >> /\ opcodes' = << >> /\ integrated' = Crop /\ Crop' = Crop
  BY NoOpcodes DEF IInv, BeginList, ListStages, geometry, Crop
<1>2. Parsing' /\ stage' \in ListStages /\ stage' \in {"parse1", "parse2"}
  BY DEF BeginList, Parsing, ListStages
<1>3. Crop \in Rectangle /\ InImage(Crop)
  BY DEF IInv, TypeOK, CropInside, Crop, Rectangle, InImage
<1>4. OpcodesChain'
  <2>1. Len(opcodes') = 0 /\ InImage(integrated')
    BY <1>1, <1>3
  <2> QED BY <1>1, <1>2, <2>1 DEF OpcodesChain, InImage, FullDim, Point
<1>5. TypeOK'
  BY <1>1, <1>2, <1>3 DEF IInv, TypeOK, BeginList, geometry, black
<1>6. CropInside' /\ BadPixelsInside' /\ BlackAreasFit'
  BY DEF IInv, BeginList, geometry, black, CropInside, Crop, BadPixelsInside, Pixel, BlackAreasFit, AreaFits
<1> QED BY <1>4, <1>5, <1>6 DEF IInv

LEMMA ParseSteps ==
  ASSUME IInv, NEW kind \in Kinds, ParseOpcode(kind) PROVE IInv'
<1>1. OpcodesChain' /\ opcodes' \in Seq(Opcode) /\ integrated' \in Rectangle
  BY ParseStep DEF IInv
<1>2. UNCHANGED <<file, stage, geometry, positions, black>>
  BY DEF ParseOpcode
<1>3. TypeOK'
  BY <1>1, <1>2 DEF IInv, TypeOK, geometry, black
<1>4. CropInside' /\ BadPixelsInside' /\ BlackAreasFit'
  BY <1>2 DEF IInv, geometry, black, CropInside, Crop, BadPixelsInside, Pixel, BlackAreasFit, AreaFits
<1> QED BY <1>1, <1>3, <1>4 DEF IInv

LEMMA ListEnds ==
  ASSUME IInv, ListParsed \/ ListApplied PROVE IInv'
<1>1. UNCHANGED <<file, geometry, opcodes, positions, black>> /\ integrated' = NoSubImage
  BY DEF ListParsed, ListApplied, IInv, OpcodesChain, Applying, Parsing
<1>2. NoSubImage \in Rectangle /\ InImage(NoSubImage)
  BY Parameters DEF NoSubImage, WholeOf, Rectangle, Corner, Origin, Point, InImage, Leq, Plus, FullDim
<1>3. OpcodesChain'
  <2>1. CASE ListParsed
    <3>1. stage' \in ListStages /\ ~Parsing' /\ Crop' = Crop
      BY <1>1, <2>1 DEF ListParsed, ListStages, Parsing, geometry, Crop
    <3> QED BY <1>1, <1>2, <3>1 DEF IInv, OpcodesChain, OpcodeFits, CropAfter, InImage, NoSubImage,
            WholeOf, Origin, Point, FullDim
  <2>2. CASE ListApplied
    <3>1. stage' \notin ListStages /\ opcodes' = << >>
      BY <1>1, <2>2 DEF ListApplied, ListStages, AfterList
    <3> QED BY <1>1, <3>1, NoOpcodesStep
  <2> QED BY <2>1, <2>2
<1>4. stage' \in {"apply1", "apply2", "black", "levels"}
  BY DEF ListParsed, ListApplied, AfterList
<1>5. TypeOK'
  BY <1>1, <1>2, <1>4 DEF IInv, TypeOK, geometry, black
<1>6. CropInside' /\ BadPixelsInside' /\ BlackAreasFit'
  BY <1>1 DEF IInv, geometry, black, CropInside, Crop, BadPixelsInside, Pixel, BlackAreasFit, AreaFits
<1> QED BY <1>3, <1>5, <1>6 DEF IInv

(* An error, of an opcode or of anything else, and the end leave no opcodes behind. *)
LEMMA QuietSteps ==
  ASSUME IInv, NoList \/ LogOpcodeError \/ FixBadPixels \/ Throw PROVE IInv'
<1>1. opcodes' = << >> /\ integrated' = NoSubImage /\ stage' \notin ListStages
      /\ stage' \in {"black", "levels", "done", "threw"}
  BY NoOpcodes DEF IInv, NoList, LogOpcodeError, AfterOpcodeError, AfterList, FixBadPixels, Throw, ListStages
<1>2. UNCHANGED <<file, geometry, black>> /\ positions' \subseteq positions
  BY DEF NoList, LogOpcodeError, FixBadPixels, Throw
<1>3. NoSubImage \in Rectangle
  BY Parameters DEF NoSubImage, WholeOf, Rectangle, Corner, Origin, Point
<1>4. TypeOK'
  BY <1>1, <1>2, <1>3 DEF IInv, TypeOK, geometry, black
<1>5. CropInside' /\ BadPixelsInside' /\ BlackAreasFit'
  BY <1>2 DEF IInv, geometry, black, CropInside, Crop, BadPixelsInside, Pixel, BlackAreasFit, AreaFits
<1> QED BY <1>1, <1>4, <1>5, NoOpcodesStep DEF IInv

LEMMA LevelSteps ==
  ASSUME IInv, SetBlack \/ ScaleBlackWhite \/ ResetLevels PROVE IInv'
<1>1. /\ opcodes' = << >> /\ integrated' = NoSubImage /\ stage' \notin ListStages
      /\ stage' \in {"fix", "scale", "list2"}
  BY NoOpcodes DEF IInv, SetBlack, ScaleBlackWhite, ResetLevels, ListStages
<1>2. UNCHANGED <<file, geometry, positions, opcodes, integrated>>
  BY DEF SetBlack, ScaleBlackWhite, ResetLevels
<1>3. blackAreas' \subseteq [offset : Nat, size : Nat, isVertical : BOOLEAN] /\ BlackAreasFit'
  <2>1. CASE blackAreas' \subseteq blackAreas
    BY <2>1 DEF IInv, TypeOK, BlackAreasFit, AreaFits
  <2>2. CASE \E r \in NonemptyIn(FullDim) : blackAreas' = BlackArea(r)
    BY <2>2, AreaStep DEF BlackAreasFit, AreaFits
  <2> QED BY <2>1, <2>2 DEF SetBlack, ScaleBlackWhite, ResetLevels
<1>4. separate' \in BOOLEAN /\ levels' \in {"file", "scaled"}
  BY DEF IInv, TypeOK, SetBlack, ScaleBlackWhite, ResetLevels
<1>5. scaled' \subseteq Nat \X Nat
  BY ScaledRange DEF IInv, TypeOK, SetBlack, ScaleBlackWhite, ResetLevels
<1>6. TypeOK'
  BY <1>1, <1>2, <1>3, <1>4, <1>5 DEF IInv, TypeOK, geometry
<1>7. CropInside' /\ BadPixelsInside'
  BY <1>2 DEF IInv, geometry, CropInside, Crop, BadPixelsInside, Pixel
<1> QED BY <1>1, <1>3, <1>6, <1>7, NoOpcodesStep DEF IInv

LEMMA Inductive == IInv /\ [Next]_vars => IInv'
<1> SUFFICES ASSUME IInv, [Next]_vars PROVE IInv'
  OBVIOUS
<1>1. CASE UNCHANGED vars
  BY <1>1 DEF vars, geometry, black, IInv, TypeOK, CropInside, Crop, OpcodesChain, ListStages, Parsing,
     OpcodeFits, CropAfter, InImage, NoSubImage, WholeOf, Origin, Point, FullDim, BadPixelsInside, Pixel,
     BlackAreasFit, AreaFits
<1>2. CASE \E kind \in Kinds : ParseOpcode(kind)
  BY <1>2, ParseSteps
<1> QED BY <1>1, <1>2, CropSteps, ListBegins, ListEnds, ApplySteps, QuietSteps, LevelSteps
        DEF Next, Finished, Kinds

(* IInv holds in every state that the pipeline of DngDecoder and RawDecoder reaches. *)
THEOREM InvariantHolds == Spec => []IInv
  BY InitInv, Inductive, PTL DEF Spec

(* The state of the DNG pipeline keeps its types.                                  *)
THEOREM TypeCorrect == Spec => []TypeOK
<1>1. IInv => TypeOK
  BY DEF IInv
<1> QED BY <1>1, InvariantHolds, PTL

(* However tags and opcodes crop, the crop is a part of the image and not empty.   *)
THEOREM CropIsInside == Spec => []CropInside
<1>1. IInv => CropInside
  BY DEF IInv
<1> QED BY <1>1, InvariantHolds, PTL

(* Every opcode of a list is applied to the crop that it was parsed for, with its region
   inside: what DngOpcode::setup() asserts when it is called by applyOpCodes().  Of the
   dummies that FixBadPixelsList sets up itself, so does each in an image that has not
   been cropped.                                                                   *)
THEOREM ListsMeetTheirCrop == Spec => []OpcodesMeetTheirCrop
<1>1. IInv => OpcodesMeetTheirCrop
  <2> SUFFICES ASSUME IInv PROVE OpcodesMeetTheirCrop
    OBVIOUS
  <2>1. ASSUME Applying, opcodes # << >>
        PROVE  /\ Op.expected = Crop
               /\ Op.kind \in {"constant", "trim", "pixel"} =>
                    Leq(Plus(Op.roi.pos, Op.roi.dim), dim)
    <3>1. OpcodeFits(Op) /\ Op.expected = Crop
      BY <2>1 DEF IInv, TypeOK, OpcodesChain, Op
    <3> QED BY <3>1 DEF OpcodeFits, Crop
  <2>2. \A i \in DOMAIN opcodes : opcodes[i].dummies \subseteq {WholeOf(FullDim)}
    <3>1. \A i \in DOMAIN opcodes : opcodes[i] \in Opcode
      BY DEF IInv, TypeOK
    <3>2. \A o \in Opcode : o.dummies \subseteq {WholeOf(FullDim)}
      BY DEF Opcode
    <3> QED BY <3>1, <3>2
  <2>3. ASSUME Parsing, Crop = WholeOf(FullDim)
        PROVE  \A i \in DOMAIN opcodes : \A d \in opcodes[i].dummies : d = Crop
    BY <2>2, <2>3
  <2> QED BY <2>1, <2>3 DEF OpcodesMeetTheirCrop
<1> QED BY <1>1, InvariantHolds, PTL

(* Every recorded position is a pixel of the image (transferBadPixelsToMap()).     *)
THEOREM PositionsAreInside == Spec => []BadPixelsInside
<1>1. IInv => BadPixelsInside
  BY DEF IInv
<1> QED BY <1>1, InvariantHolds, PTL

(* calculateBlackAreas() never throws for the masked areas of a DNG.               *)
THEOREM BlackAreasAreInside == Spec => []BlackAreasFit
<1>1. IInv => BlackAreasFit
  BY DEF IInv
<1> QED BY <1>1, InvariantHolds, PTL
-----------------------------------------------------------------------------
(* The pattern.  Two shifts are one, in each of the sizes that move with the crop.  *)
LEMMA ShiftTwice ==
  ASSUME NEW n \in {1, 2, 4, 8}, NEW a \in Int, NEW b \in Int
  PROVE  ((a % n) + b) % n = (a + b) % n
<1>1. CASE n = 1
  BY <1>1
<1>2. CASE n = 2
  BY <1>2
<1>3. CASE n = 4
  BY <1>3
<1>4. CASE n = 8
  BY <1>4
<1> QED BY <1>1, <1>2, <1>3, <1>4

CfaInv == CfaFollowsCrop /\ (stage \in {"load", "active"} => mOffset = Origin)

LEMMA MinusOfPoint ==
  ASSUME NEW a, NEW b, NEW q PROVE Minus(Point(a, b), q) = Point(a - q.x, b - q.y)
BY DEF Minus, Point

LEMMA CfaCrop ==
  ASSUME IInv, CfaInv, stage \notin {"load", "threw"}, NEW r \in Rectangle, SubFrame(r), file' = file,
         stage' \notin {"load", "active", "threw"}
  PROVE  CfaInv'
<1>1. SUFFICES CfaFollowsCrop'
  BY DEF CfaInv
<1> DEFINE home == file.active.pos
<1>2. cfa = Shifted(Origin, Minus(IF MovesWithCrop THEN mOffset ELSE Origin, home))
  BY DEF CfaInv, CfaFollowsCrop
<1>3. CASE UNCHANGED geometry
  BY <1>2, <1>3 DEF geometry, CfaFollowsCrop, Shifted, MovesWithCrop
<1>4. CASE /\ mOffset' = Plus(mOffset, r.pos)
           /\ cfa' = IF MovesWithCrop THEN Shifted(cfa, r.pos) ELSE cfa
  <2>1. CASE ~MovesWithCrop
    BY <1>2, <1>4, <2>1 DEF CfaFollowsCrop, Shifted, MovesWithCrop
  <2>2. CASE MovesWithCrop
    <3>1. mOffset \in Corner /\ home \in Corner /\ r.pos \in Corner
      BY DEF IInv, TypeOK, RectsIn, Rectangle
    <3>2. /\ mOffset.x \in Int /\ mOffset.y \in Int /\ home.x \in Int /\ home.y \in Int
          /\ r.pos.x \in Int /\ r.pos.y \in Int
      BY <3>1, Parameters DEF Corner
    <3> DEFINE sx == file.cfaSize.x
               sy == file.cfaSize.y
    <3>3. sx \in {1, 2, 4, 8} /\ sy \in {1, 2, 4, 8}
      BY <2>2, DngImageAssumption DEF MovesWithCrop, IInv, TypeOK
    <3>4. cfa = Point((mOffset.x - home.x) % sx, (mOffset.y - home.y) % sy)
      BY <1>2, <2>2, <3>2 DEF Shifted, Minus, Origin, Point
    <3>5. cfa' = Point((((mOffset.x - home.x) % sx) + r.pos.x) % sx, (((mOffset.y - home.y) % sy) + r.pos.y) % sy)
      BY <1>4, <2>2, <3>4 DEF Shifted, Point
    <3>6. /\ (((mOffset.x - home.x) % sx) + r.pos.x) % sx = (mOffset.x - home.x + r.pos.x) % sx
          /\ (((mOffset.y - home.y) % sy) + r.pos.y) % sy = (mOffset.y - home.y + r.pos.y) % sy
      <4> DEFINE ax == mOffset.x - home.x
                 ay == mOffset.y - home.y
                 rx == r.pos.x
                 ry == r.pos.y
      <4>1. ax \in Int /\ ay \in Int /\ rx \in Int /\ ry \in Int
        BY <3>2
      <4> HIDE DEF ax, ay, rx, ry, sx, sy
      <4>2. ((ax % sx) + rx) % sx = (ax + rx) % sx
        BY <3>3, <4>1, ShiftTwice
      <4>3. ((ay % sy) + ry) % sy = (ay + ry) % sy
        BY <3>3, <4>1, ShiftTwice
      <4> QED BY <4>2, <4>3 DEF ax, ay, rx, ry
    <3>7. Shifted(Origin, Minus(mOffset', home)) =
            Point((mOffset.x - home.x + r.pos.x) % sx, (mOffset.y - home.y + r.pos.y) % sy)
      <4>1. /\ 0 + ((mOffset.x + r.pos.x) - home.x) = mOffset.x - home.x + r.pos.x
            /\ 0 + ((mOffset.y + r.pos.y) - home.y) = mOffset.y - home.y + r.pos.y
        BY <3>2
      <4>2. Minus(mOffset', home) = Point((mOffset.x + r.pos.x) - home.x, (mOffset.y + r.pos.y) - home.y)
        <5>1. mOffset' = Point(mOffset.x + r.pos.x, mOffset.y + r.pos.y)
          BY <1>4 DEF Plus
        <5> QED BY <5>1, MinusOfPoint
      <4>3. Shifted(Origin, Minus(mOffset', home)) =
              Point((0 + ((mOffset.x + r.pos.x) - home.x)) % sx, (0 + ((mOffset.y + r.pos.y) - home.y)) % sy)
        BY <4>2 DEF Shifted, Origin, Point
      <4> QED BY <4>1, <4>3
    <3>8. cfa' = Shifted(Origin, Minus(mOffset', home))
      BY <3>5, <3>6, <3>7
    <3> QED BY <2>2, <3>8 DEF CfaFollowsCrop, Shifted, MovesWithCrop
  <2> QED BY <2>1, <2>2
<1> QED BY <1>3, <1>4 DEF SubFrame

LEMMA CfaStep ==
  ASSUME IInv, CfaInv, [Next]_vars PROVE CfaInv'
<1>1. CASE LoadImage
  BY <1>1 DEF LoadImage, CfaInv, CfaFollowsCrop, PatternOfImage, Shifted, MovesWithCrop
<1>2. CASE CropToActiveArea
  <2>1. file.active \in Rectangle
    BY DEF IInv, TypeOK, RectsIn
  <2> QED BY <1>2, <2>1, CfaCrop DEF CropToActiveArea
<1>3. CASE CropToDefault
  <2>1. PICK origin \in Corner, size \in Corner : SubFrame(DefaultCrop(origin, size))
    BY <1>3 DEF CropToDefault
  <2>2. DefaultCrop(origin, size) \in Rectangle
    <3> DEFINE pos == IF Leq(origin, dim) THEN origin ELSE Origin
    <3>1. pos \in Corner /\ dim \in Corner /\ Leq(pos, dim)
      BY <2>1, Parameters DEF Origin, Corner, Point, Leq, IInv, TypeOK
    <3>2. Minus(dim, pos) \in Corner
      BY <3>1, Parameters DEF Corner, Minus, Point, Leq
    <3> QED BY <2>1, <3>1, <3>2 DEF DefaultCrop, Rectangle
  <2> QED BY <1>3, <2>1, <2>2, CfaCrop DEF CropToDefault
<1>4. CASE ApplyTrim
  <2>1. Op.roi \in Rectangle
    <3>1. Op \in Opcode
      BY <1>4 DEF IInv, TypeOK, ApplyTrim, Op
    <3> QED BY <3>1 DEF Opcode
  <2>2. stage \in {"apply1", "apply2"} /\ stage' = stage /\ file' = file /\ SubFrame(Op.roi)
    BY <1>4 DEF ApplyTrim, NextOpcode, Applying
  <2> QED BY <2>1, <2>2, CfaCrop
<1>5. CASE \/ BeginList \/ NoList \/ ListParsed \/ ListApplied \/ \E kind \in Kinds : ParseOpcode(kind)
           \/ ApplyConstant \/ ApplyList \/ ApplyPixel \/ LogOpcodeError
           \/ SetBlack \/ ScaleBlackWhite \/ ResetLevels \/ FixBadPixels \/ Throw \/ UNCHANGED vars
  <2>1. UNCHANGED <<file, geometry>>
    BY <1>5 DEF BeginList, NoList, ListParsed, ListApplied, ParseOpcode, ApplyConstant, ApplyList,
       ApplyPixel, NextOpcode, LogOpcodeError, SetBlack, ScaleBlackWhite, ResetLevels, FixBadPixels,
       Throw, vars
  <2>2. \/ stage' \in {"threw"}
        \/ stage' \notin {"load", "active", "threw"} /\ stage \notin {"load", "threw"}
        \/ stage' = stage
    BY <1>5 DEF BeginList, NoList, ListParsed, ListApplied, ParseOpcode, ApplyConstant, ApplyList,
       ApplyPixel, NextOpcode, LogOpcodeError, SetBlack, ScaleBlackWhite, ResetLevels, FixBadPixels,
       Throw, vars, AfterList, AfterOpcodeError, Applying, Parsing, OpcodeThrows
  <2> QED BY <2>1, <2>2 DEF CfaInv, CfaFollowsCrop, geometry, Shifted, MovesWithCrop
<1> QED BY <1>1, <1>2, <1>3, <1>4, <1>5 DEF Next, Finished, Kinds

(* The colours stay where the file put them, through every crop: for images and active areas
   of any size and every pattern, whether it moves with the crop or not.           *)
THEOREM ColoursStay == Spec => []CfaFollowsCrop
<1>1. Init => CfaInv
  BY DEF Init, CfaInv, CfaFollowsCrop
<1>2. IInv /\ CfaInv /\ [Next]_vars => CfaInv'
  BY CfaStep
<1>3. CfaInv => CfaFollowsCrop
  BY DEF CfaInv
<1> QED BY <1>1, <1>2, <1>3, InvariantHolds, PTL DEF Spec
-----------------------------------------------------------------------------
(* The levels.                                                                     *)
LevelInv ==
  /\ stage \in {"load", "active", "default", "list1", "parse1", "apply1", "black", "scale"} =>
       levels = "file" /\ scaled = {}
  /\ stage \in {"list2", "parse2", "apply2", "levels"} =>
       levels = "file" /\ RowsOf(Crop) \X ScaledColumns \subseteq scaled
  /\ LevelsDescribeSamples

(* No crop brings back samples that were cropped before.                           *)
LEMMA CropShrinks ==
  ASSUME TypeOK, CropInside, NEW r \in Rectangle, SubFrame(r), file' = file
  PROVE  RowsOf(Crop)' \subseteq RowsOf(Crop) /\ ScaledColumns' \subseteq ScaledColumns
<1>1. CASE UNCHANGED geometry
  BY <1>1 DEF geometry, RowsOf, ScaledColumns, ColumnsOf, SseColumns, Crop
<1>2. CASE Fits(r) /\ dim' = r.dim /\ mOffset' = Plus(mOffset, r.pos)
  <2>1. r.pos \in Corner /\ r.dim \in Corner /\ dim \in Corner /\ mOffset \in Corner
    BY DEF TypeOK, Rectangle
  <2>2. /\ r.pos.x \in Nat /\ r.pos.y \in Nat /\ r.dim.x \in Nat /\ r.dim.y \in Nat
        /\ dim.x \in Nat /\ dim.y \in Nat /\ mOffset.x \in Nat /\ mOffset.y \in Nat
    BY <2>1, Parameters DEF Corner
  <2>3. r.pos.x + r.dim.x <= dim.x /\ r.pos.y + r.dim.y <= dim.y
    BY <1>2, <2>2 DEF Fits, Leq, Minus, Point
  <2>4. /\ mOffset'.x = mOffset.x + r.pos.x /\ mOffset'.y = mOffset.y + r.pos.y
        /\ dim'.x = r.dim.x /\ dim'.y = r.dim.y
    BY <1>2 DEF Plus, Point
  <2>5. RowsOf(Crop)' \subseteq RowsOf(Crop)
    BY <2>2, <2>3, <2>4, Parameters DEF RowsOf, Crop
  <2>6. file.cpp \in Nat
    <3>1. file.cpp \in Cpps
      BY DEF TypeOK
    <3> QED BY <3>1, DngImageAssumption, Zenon
  <2> DEFINE n == file.cpp
             first == mOffset.x
             next == mOffset.x + dim.x
             firstNow == mOffset.x + r.pos.x
             nextNow == mOffset.x + r.pos.x + r.dim.x
  <2>7. /\ n \in Nat /\ first \in Nat /\ next \in Nat /\ firstNow \in Nat /\ nextNow \in Nat
        /\ first <= firstNow /\ nextNow <= next
    BY <2>2, <2>3, <2>6
  <2>8. n * first <= n * firstNow /\ n * nextNow <= n * next
    <3> HIDE DEF n, first, next, firstNow, nextNow
    <3>1. ASSUME NEW a \in Nat, NEW b \in Nat, a <= b PROVE n * a <= n * b
      <4>1. PICK d \in Nat : b = a + d
        <5>1. b - a \in Nat /\ b = a + (b - a)
          BY <3>1
        <5> QED BY <5>1
      <4>2. n * b = n * a + n * d /\ n * d \in Nat /\ n * a \in Nat
        BY <2>7, <3>1, <4>1
      <4> QED BY <4>2
    <3> QED BY <2>7, <3>1
  <2>9. /\ n * first \in Nat /\ n * firstNow \in Nat /\ n * nextNow \in Nat /\ n * next \in Nat
        /\ n * Width \in Nat
    <3> HIDE DEF n, first, next, firstNow, nextNow
    <3> QED BY <2>7, Parameters
  <2>10. ColumnsOf(Crop)' = {col \in 0 .. n * Width - 1 : n * firstNow <= col /\ col < n * nextNow}
    BY <2>4 DEF ColumnsOf, Crop
  <2>11. ColumnsOf(Crop) = {col \in 0 .. n * Width - 1 : n * first <= col /\ col < n * next}
    BY DEF ColumnsOf, Crop
  <2>12. ColumnsOf(Crop)' \subseteq ColumnsOf(Crop)
    <3> HIDE DEF n, first, next, firstNow, nextNow
    <3> QED BY <2>8, <2>9, <2>10, <2>11
  <2>13. SseColumns' = SseColumns
    BY DEF SseColumns
  <2> QED BY <2>5, <2>12, <2>13 DEF ScaledColumns
<1> QED BY <1>1, <1>2 DEF SubFrame

(* Whether list 2 is applied, trims the image, fails or is missing, and whatever breaks off
   before: the levels of the image that is delivered are those of its samples.  They are
   the file's and no sample was scaled, or all of the crop were that scaleBlackWhite()
   reaches; without SSE2 these are all.                                            *)
THEOREM LevelsAreTrue == Spec => []LevelsDescribeSamples
<1>1. Init => LevelInv
  BY DEF Init, LevelInv, LevelsDescribeSamples
<1>2. IInv /\ LevelInv /\ [Next]_vars => LevelInv'
  <2> SUFFICES ASSUME IInv, LevelInv, [Next]_vars PROVE LevelInv'
    OBVIOUS
  <2> DEFINE all == RowsOf(Crop) \X ScaledColumns
  <2>1. ASSUME UNCHANGED <<file, dim, mOffset>> PROVE all' = all
    BY <2>1 DEF RowsOf, ScaledColumns, ColumnsOf, SseColumns, Crop
  <2>2. CASE ScaleBlackWhite
    <3>1. all' = all
      BY <2>1, <2>2 DEF ScaleBlackWhite, geometry
    <3>2. \/ scaled' = RowsOf(Crop) \X ColumnsOf(Crop)
          \/ Sse2 /\ scaled' = RowsOf(Crop) \X SseColumns
      BY <2>2 DEF ScaleBlackWhite
    <3>3. all \subseteq scaled'
      BY <3>2 DEF ScaledColumns
    <3>4. stage' = "list2" /\ levels' = "file"
      BY <2>2 DEF ScaleBlackWhite, LevelInv
    <3>5. all' \subseteq scaled'
      BY <3>1, <3>3
    <3> QED BY <3>4, <3>5 DEF LevelInv, LevelsDescribeSamples
  <2>3. CASE SetBlack
    <3>1. stage' \in {"fix", "scale"} /\ levels' = "file" /\ scaled' = {}
      BY <2>3 DEF SetBlack, LevelInv
    <3> QED BY <3>1 DEF LevelInv, LevelsDescribeSamples
  <2>4. CASE ResetLevels
    <3>1. stage' = "fix" /\ levels' = "scaled" /\ blackAreas' = {} /\ scaled' = scaled
      BY <2>4 DEF ResetLevels
    <3>2. all' = all /\ all \subseteq scaled
      BY <2>1, <2>4 DEF ResetLevels, geometry, LevelInv
    <3>3. all' \subseteq scaled'
      BY <3>1, <3>2
    <3> QED BY <3>1, <3>3 DEF LevelInv, LevelsDescribeSamples
  <2>5. CASE CropToActiveArea \/ CropToDefault
    BY <2>5 DEF CropToActiveArea, CropToDefault, black, LevelInv, LevelsDescribeSamples
  <2>6. CASE ApplyTrim
    <3>1. Op.roi \in Rectangle
      <4>1. Op \in Opcode
        BY <2>6 DEF IInv, TypeOK, ApplyTrim, Op
      <4> QED BY <4>1 DEF Opcode
    <3>2. RowsOf(Crop)' \subseteq RowsOf(Crop) /\ ScaledColumns' \subseteq ScaledColumns
      BY <2>6, <3>1, CropShrinks DEF ApplyTrim, NextOpcode, IInv
    <3>3. all' \subseteq all
      BY <3>2
    <3>4. stage' = stage /\ stage \in {"apply1", "apply2"} /\ UNCHANGED <<scaled, levels>>
      BY <2>6 DEF ApplyTrim, NextOpcode, Applying, black
    <3>5. all \subseteq scaled => all' \subseteq scaled'
      BY <3>3, <3>4
    <3> QED BY <3>4, <3>5 DEF LevelInv, LevelsDescribeSamples
  <2>7. ASSUME all' = all, UNCHANGED black,
               \/ stage' = stage \/ stage' = "threw"
               \/ stage \in {"load", "list1", "parse1", "apply1"}
                    /\ stage' \in {"active", "parse1", "apply1", "black"}
               \/ stage \in {"list2", "parse2", "apply2"} /\ stage' \in {"parse2", "apply2", "levels"}
               \/ stage = "fix" /\ stage' = "done"
        PROVE  LevelInv'
    <3>1. UNCHANGED <<blackAreas, scaled, levels>>
      BY <2>7 DEF black
    <3>2. all \subseteq scaled => all' \subseteq scaled'
      BY <2>7, <3>1
    <3> QED BY <2>7, <3>1, <3>2 DEF LevelInv, LevelsDescribeSamples
  <2>8. CASE BeginList \/ NoList \/ ListParsed \/ ListApplied \/ LogOpcodeError
    <3>1. all' = all
      BY <2>1, <2>8 DEF BeginList, NoList, ListParsed, ListApplied, LogOpcodeError, geometry
    <3> HIDE DEF all
    <3>2. UNCHANGED black
      BY <2>8 DEF BeginList, NoList, ListParsed, ListApplied, LogOpcodeError
    <3>3. \/ stage \in {"list1", "parse1", "apply1"} /\ stage' \in {"parse1", "apply1", "black"}
          \/ stage \in {"list2", "parse2", "apply2"} /\ stage' \in {"parse2", "apply2", "levels"}
      BY <2>8 DEF BeginList, NoList, ListParsed, ListApplied, LogOpcodeError, AfterList,
         AfterOpcodeError, Applying, Parsing, OpcodeThrows
    <3> QED BY <2>7, <3>1, <3>2, <3>3
  <2>9. CASE LoadImage \/ FixBadPixels \/ Throw
    <3>1. all' = all
      BY <2>1, <2>9 DEF LoadImage, FixBadPixels, Throw, geometry
    <3> HIDE DEF all
    <3> QED BY <2>7, <2>9, <3>1 DEF LoadImage, FixBadPixels, Throw
  <2>10. CASE \/ \E kind \in Kinds : ParseOpcode(kind)
              \/ ApplyConstant \/ ApplyList \/ ApplyPixel \/ UNCHANGED vars
    <3>1. all' = all
      BY <2>1, <2>10 DEF ParseOpcode, ApplyConstant, ApplyList, ApplyPixel, NextOpcode, vars, geometry
    <3> HIDE DEF all
    <3>2. UNCHANGED <<black, stage>>
      BY <2>10 DEF ParseOpcode, ApplyConstant, ApplyList, ApplyPixel, NextOpcode, vars
    <3> QED BY <2>7, <3>1, <3>2
  <2> QED BY <2>2, <2>3, <2>4, <2>5, <2>6, <2>8, <2>9, <2>10 DEF Next, Finished, Kinds
<1>3. LevelInv => LevelsDescribeSamples
  BY DEF LevelInv
<1> QED BY <1>1, <1>2, <1>3, InvariantHolds, PTL DEF Spec
=============================================================================
