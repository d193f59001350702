------------------------------ MODULE Cr2Slices ------------------------------
(* Cr2LJpegDecoder and Cr2Decompressor: a lossless JPEG whose frame is cut into slices;
   the slices, one below the other, are what fills the image column by column.

   A job:  w, h  cpp  cfa (not an sRaw)  superH, superV (metadata.subsampling)
           slices: num, width, last, or num = 0  items (of the JPEG, see LJpegMarkers)
   and, once the scan has come, its `frame`.                                     *)
EXTENDS LJpegMarkers

(* Cr2LJpegDecoder::decodeScan(): what it makes of the frame and the slices.        *)
Subsampled(j) == \E c \in Range(j.frame.comps) : c.superH # 1 \/ c.superV # 1

Format(j) == [n |-> j.frame.cps, x |-> j.superH, y |-> j.superV]

FormatSupported(j) ==
  IF Subsampled(j) THEN /\ ~j.cfa /\ j.frame.cps = 3 /\ j.superH = 2 /\ j.superV \in {1, 2}
                        /\ \A i \in {2, 3} : j.frame.comps[i].superH = 1 /\ j.frame.comps[i].superV = 1
                   ELSE j.cfa /\ j.frame.cps \in {2, 4}

GuessedSlices(j) ==
  IF j.slices.num = 0 THEN [num |-> 1, width |-> 0, last |-> j.frame.w * j.frame.cps]
                      ELSE j.slices

DecoderSlices(j) ==
  LET s == GuessedSlices(j)
  IN  IF Subsampled(j) /\ j.superV = 1
        THEN [s EXCEPT !.width = (3 * @) \div 2, !.last = (3 * @) \div 2]
        ELSE s

(* FIX_CANON_HALF_HEIGHT_DOUBLE_WIDTH                                             *)
FrameHeight(j) ==
  IF j.frame.cps # 3 /\ j.frame.w * j.frame.cps > 2 * j.frame.h THEN 2 * j.frame.h ELSE j.frame.h

(* Dsc: a group of samples is what the inner loop decodes.                        *)
PixelsPerGroup(f) == f.x * f.y
GroupSize(f) == IF f.x = 1 /\ f.y = 1 THEN f.n ELSE 2 + PixelsPerGroup(f)
SliceColStep(f) == f.n * f.x

(* Image, frame and slices in groups, as the constructor of Cr2Decompressor has them:
   the layout d of a job.                                                         *)
Dim(j) == [x |-> j.w \div GroupSize(Format(j)), y |-> j.h]
FrameDim(j) == [x |-> j.frame.w \div j.superH, y |-> FrameHeight(j) \div j.superV]
Layout(j) == [f |-> Format(j), slices |-> DecoderSlices(j), dim |-> Dim(j), frame |-> FrameDim(j)]

SliceWidth(i, d) ==
  (IF i = d.slices.num - 1 THEN d.slices.last ELSE d.slices.width) \div SliceColStep(d.f)
-----------------------------------------------------------------------------
(* Cr2OutputTileIterator: where it stands in the slices and in the image.           *)
TileAt(it, d) ==
  [x |-> it.x, y |-> it.y, w |-> SliceWidth(it.slice, d),
   h |-> Least(d.dim.y - it.y, d.frame.y - it.sliceRow)]

NextIterator(it, d) ==
  LET t == TileAt(it, d)
      sliceDone == it.sliceRow + t.h = d.frame.y
      columnDone == t.y + t.h = d.dim.y
  IN  [slice |-> IF sliceDone THEN it.slice + 1 ELSE it.slice,
       sliceRow |-> IF sliceDone THEN 0 ELSE it.sliceRow + t.h,
       x |-> IF columnDone THEN it.x + t.w ELSE it.x,
       y |-> IF columnDone THEN 0 ELSE t.y + t.h]

AllOutputTiles(d) ==
  LET num == d.slices.num
      Iterator[n \in Nat] == IF n = 0 THEN [slice |-> 0, sliceRow |-> 0, x |-> 0, y |-> 0]
                                      ELSE NextIterator(Iterator[n - 1], d)
      bound == num * (CeilDiv(d.frame.y, d.dim.y) + 1)
      count == CHOOSE n \in 1 .. bound : Iterator[n].slice = num /\ Iterator[n - 1].slice # num
  IN  [n \in 1 .. count |-> TileAt(Iterator[n - 1], d)]

TileRight(t) == t.x + t.w
TileBottom(t) == t.y + t.h

ContinuesColumn(t, next) == next.x = t.x /\ next.y = TileBottom(t) /\ next.w = t.w
BeginsNewColumn(t, next) == ~ContinuesColumn(t, next) /\ next.y = 0 /\ next.x = TileRight(t)

InImage(t, d) == TileRight(t) <= d.dim.x /\ TileBottom(t) <= d.dim.y
StartsInImage(t, d) == t.x < d.dim.x /\ t.y < d.dim.y
EndsImage(t, d) == TileRight(t) = d.dim.x /\ TileBottom(t) = d.dim.y

(* The loop of the constructor over all tiles: those inside the image come first, each
   adjoins the last, and the last one ends where the image does.                 *)
PrefixAccepted(tiles, d) ==
  \E n \in DOMAIN tiles :
    /\ \A i \in 1 .. n : InImage(tiles[i], d)
    /\ n < Len(tiles) => ~InImage(tiles[n + 1], d) /\ ~StartsInImage(tiles[n + 1], d)
    /\ \A i \in 1 .. Least(n, Len(tiles) - 1) :
         ContinuesColumn(tiles[i], tiles[i + 1]) \/ BeginsNewColumn(tiles[i], tiles[i + 1])
    /\ EndsImage(tiles[n], d)

FrameCoversImage(j) == FrameDim(j).x * FrameDim(j).y >= Dim(j).x * Dim(j).y

Cr2HeaderAccepted(j) ==
  /\ j.frame.restart = 0 /\ j.frame.predictor = 1
  /\ FormatSupported(j)
  /\ DecodersExist(j.frame, j.frame.cps)

Cr2ScanAccepted(j) ==
  /\ Cr2HeaderAccepted(j)
  /\ j.slices.num = 0 => j.frame.w * j.frame.cps <= j.w
  /\ j.w > 0 /\ j.h > 0 /\ j.w % GroupSize(Format(j)) = 0
  /\ j.frame.w % j.superH = 0 /\ FrameHeight(j) % j.superV = 0
  /\ DecoderSlices(j).width % SliceColStep(Format(j)) = 0
  /\ DecoderSlices(j).last % SliceColStep(Format(j)) = 0
  /\ FrameCoversImage(j)
  /\ PrefixAccepted(AllOutputTiles(Layout(j)), Layout(j))

(* Cr2LJpegDecoder::decode()                                                      *)
Cr2Parsed(j) == Parsed(j.items, j, FALSE)
WithFrame(j, scan) == [frame |-> scan] @@ j

Cr2Accepts(j) ==
  /\ \A i \in 0 .. j.slices.num - 1 : (IF i = j.slices.num - 1 THEN j.slices.last ELSE j.slices.width) > 0
  /\ Found(Cr2Parsed(j))
  /\ \A scan \in Range(Cr2Parsed(j).scans) : Cr2ScanAccepted(WithFrame(j, scan))
-----------------------------------------------------------------------------
(* getOutputTiles() and Cr2VerticalOutputStripIterator: the tiles up to the one that
   ends the image; those that continue a column are one strip.                   *)
OutputTiles(tiles, d) ==
  LET last == CHOOSE n \in DOMAIN tiles :
                /\ EndsImage(tiles[n], d)
                /\ \A i \in 1 .. n - 1 : ~EndsImage(tiles[i], d)
  IN  SubSeq(tiles, 1, last)

AddTile(strips, t) ==
  IF strips # << >> /\ ContinuesColumn(Last(strips), t)
    THEN [strips EXCEPT ![Len(strips)].h = @ + t.h]
    ELSE Append(strips, t)

VerticalStrips(d) == FoldLeft(AddTile, << >>, OutputTiles(AllOutputTiles(d), d))

(* The groups of the image, as <<row, col>>, in the order they are decoded.         *)
GroupsOfStrip(strip) ==
  [i \in 1 .. strip.h * strip.w |->
     <<strip.y + ((i - 1) \div strip.w), strip.x + ((i - 1) % strip.w)>>]

Groups(strips) == FlattenSeq([s \in DOMAIN strips |-> GroupsOfStrip(strips[s])])

GroupSamples(g, f) == Row(g[1], GroupSize(f) * g[2], GroupSize(f))

(* The samples of a group that predict: the first, and the last of each component but
   the first.                                                                    *)
PredSamples(g, f) ==
  {<<g[1], GroupSize(f) * g[2] + (IF c = 0 THEN 0 ELSE GroupSize(f) - (f.n - c))>> : c \in 0 .. f.n - 1}

(* decompressN_X_Y(): after each row of the frame, wherever in the image that is, the
   prediction is that of the group one frame row back.                           *)
GroupSteps(groups, d) ==
  [k \in DOMAIN groups |->
     Step(GroupSamples(groups[k], d.f),
          IF k > 1 /\ (k - 1) % d.frame.x = 0 THEN PredSamples(groups[k - d.frame.x], d.f) ELSE {},
          {k - 1})]

Cr2ScanSteps(j) ==
  UseDecoders(0, j.frame, j.frame.cps) \o GroupSteps(Groups(VerticalStrips(Layout(j))), Layout(j))

Cr2Work(j) ==
  LET p == Cr2Parsed(j)
  IN  <<MarkerSteps(0, j.items, p,
                    [k \in DOMAIN p.scans |-> Cr2ScanSteps(WithFrame(j, p.scans[k]))])>>
=============================================================================
