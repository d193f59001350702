------------------------------ MODULE LJpegScan ------------------------------
(* LJpegDecoder and LJpegDecompressor: the scan of a lossless JPEG whose frame, of
   MCUs, covers a tile of at most `max` pixels, of which the image has room for `rect`.

   A frame is a scan of LJpegMarkers: w, h (in MCUs)  cps  restart (0 for none)
   A place in the input is the index of an MCU in the frame.                     *)
EXTENDS LJpegMarkers

(* LJpegDecoder::decode()                                                         *)
TileAccepted(rect, max, imgW, imgH) ==
  /\ rect.x < imgW /\ rect.y < imgH
  /\ rect.x + rect.w <= imgW /\ rect.y + rect.h <= imgH
  /\ max.w > 0 /\ max.h > 0 /\ max.w >= rect.w /\ max.h >= rect.h

(* LJpegDecoder::decodeScan(): the size of an MCU follows from the two sizes.       *)
MCU(max, frame, cpp) == [x |-> (cpp * max.w) \div frame.w, y |-> max.h \div frame.h]

ScanAccepted(max, frame, cpp) ==
  /\ frame.predictor = 1
  /\ \A c \in Range(frame.comps) : c.superH = 1 /\ c.superV = 1
  /\ DecodersExist(frame, frame.cps)
  /\ (cpp * max.w) * max.h = frame.cps * frame.w * frame.h
  /\ (cpp * max.w) % frame.w = 0 /\ max.h % frame.h = 0
  /\ MCU(max, frame, cpp).x * MCU(max, frame, cpp).y = frame.cps
  /\ frame.restart % frame.w = 0

RowsPerRestartInterval(frame) ==
  IF frame.restart = 0 THEN frame.h ELSE frame.restart \div frame.w

(* LJpegDecompressor::LJpegDecompressor()                                         *)
FrameAccepted(rect, mcu, frame, cpp) ==
  /\ <<mcu.x, mcu.y>> \in {<<1, 1>>, <<2, 1>>, <<3, 1>>, <<4, 1>>, <<2, 2>>}
  /\ RowsPerRestartInterval(frame) >= 1
  /\ rect.w >= mcu.x /\ rect.h >= mcu.y
  /\ rect.h % mcu.y = 0
  /\ frame.w >= CeilDiv(cpp * rect.w, mcu.x)
  /\ mcu.y * frame.h >= rect.h
  /\ mcu.x * frame.w >= cpp * rect.w

LJpegTileAccepts(rect, max, frame, cpp, imgW, imgH) ==
  /\ TileAccepted(rect, max, imgW, imgH)
  /\ ScanAccepted(max, frame, cpp)
  /\ FrameAccepted(rect, MCU(max, frame, cpp), frame, cpp)
-----------------------------------------------------------------------------
RoundedUp(width, mcu) == CeilDiv(width, mcu)   \* (mutant) the cut MCU counts as a full one
NumFullMCUs(width, mcu) == width \div mcu

(* decodeRowN(): a row of the frame, into a stripe of mcu.y rows.  The prediction for
   an MCU is the MCU before it; that for the first of the row is passed.  Only the
   samples inside the stripe are written; MCUs beyond it are read and discarded.    *)
StripeSteps(row, predFirst, rect, mcu, frame, cpp, from) ==
  LET left == cpp * rect.x
      width == cpp * rect.w
      top == rect.y + mcu.y * row
      Samples(m) == Rectangle(left + mcu.x * m, top, mcu.x, mcu.y)
      inside == Rectangle(left, top, width, mcu.y)
      full == NumFullMCUs(width, mcu.x)
      cut == width % mcu.x # 0
  IN  [k \in 1 .. frame.w |->
         LET m == k - 1
             pred == IF m = 0 THEN predFirst ELSE Samples(m - 1)
             place == {from + frame.w * row + m}
         IN  IF m < full THEN Step(Samples(m), pred, place)
             ELSE IF m = full /\ cut THEN Step(Samples(m) \cap inside, pred, place)
             ELSE Step({}, {}, place)]

(* decodeN(): the rows of the frame that the tile needs.  The prediction for a row is
   the first MCU of the row above, and begins anew with each restart interval.     *)
LJpegTileSteps(rect, max, frame, cpp, from) ==
  LET mcu == MCU(max, frame, cpp)
      FirstMCU(row) == Rectangle(cpp * rect.x, rect.y + mcu.y * row, mcu.x, mcu.y)
  IN  ForEach(rect.h \div mcu.y, LAMBDA row :
        StripeSteps(row,
                    IF row % RowsPerRestartInterval(frame) = 0 THEN {} ELSE FirstMCU(row - 1),
                    rect, mcu, frame, cpp, from))
=============================================================================
