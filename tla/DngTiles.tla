------------------------------- MODULE DngTiles -------------------------------
(* DngDecoder::getTilingDescription() and decodeData(), AbstractDngDecompressor and the
   decompressors of one tile: uncompressed, lossless JPEG, deflate and lossy JPEG.

   A job:  w, h (w in samples)  cpp  bps  float  order  compression
           tileW, tileH (in pixels)  count (of tiles)  strips (no tiles, but strips)
           bytes (of a tile)  items (of LJpegMarkers, in every tile)
           jpegs (the size that libjpeg reports of each tile)
           unpacked (the rows that zlib has unpacked of each tile, not more than tileH)
   A tile that throws is logged, and decompress() asks the log: a job with such a
   tile is not accepted.                                                         *)
EXTENDS Uncompressed, LJpegScan

TilesX(j) == CeilDiv(PixelsPerRow(j), j.tileW)
TilesY(j) == CeilDiv(j.h, j.tileH)

TilingAccepted(j) ==
  /\ j.tileW > 0 /\ j.tileH > 0
  /\ IF j.strips THEN j.tileW = PixelsPerRow(j) /\ j.count = TilesY(j)
                 ELSE j.count = TilesX(j) * TilesY(j)

(* DngSliceElement: tiles in the last column and row are as large as the image allows. *)
Tile(n, j) ==
  LET column == n % TilesX(j)
      row == n \div TilesX(j)
      offX == j.tileW * column
      offY == j.tileH * row
  IN  [x |-> offX, y |-> offY,
       w |-> IF column + 1 = TilesX(j) THEN PixelsPerRow(j) - offX ELSE j.tileW,
       h |-> IF row + 1 = TilesY(j) THEN j.h - offY ELSE j.tileH]

MaxTile(j) == [w |-> j.tileW, h |-> j.tileH]
-----------------------------------------------------------------------------
(* Uncompressed.  The pitch is that of a whole tile; integers that are not of 8, 16 or
   32 bits are big endian, whatever the file is.                                 *)
InputPitchBits(j) == j.cpp * j.bps * j.tileW

Ordered(j) == IF j.bps \notin {8, 16, 32} /\ ~j.float THEN [j EXCEPT !.order = "MSB"] ELSE j

UncompressedTileAccepted(n, j) ==
  /\ InputPitchBits(j) % 8 = 0
  /\ UncompressedAccepts(Tile(n, j), InputPitchBits(j) \div 8, j.bytes, Ordered(j))
  /\ HasLoop(Ordered(j))

UncompressedTileSteps(n, j) ==
  UncompressedRows(Tile(n, j), InputPitchBits(j) \div 8, n * j.bytes, Ordered(j))

(* Lossless JPEG                                                                  *)
LJpegParsed(j) ==
  Parsed(j.items, [cpp |-> j.cpp, w |-> PixelsPerRow(j), superH |-> 1, superV |-> 1], FALSE)

LJpegTileAccepted(n, j) ==
  /\ Found(LJpegParsed(j))
  /\ \A scan \in Range(LJpegParsed(j).scans) :
       LJpegTileAccepts(Tile(n, j), MaxTile(j), scan, j.cpp, PixelsPerRow(j), j.h)

LJpegSteps(n, j) ==
  LET p == LJpegParsed(j)
      ScanSteps(scan) ==
        UseDecoders(n, scan, scan.cps)
          \o LJpegTileSteps(Tile(n, j), MaxTile(j), scan, j.cpp, n * scan.w * scan.h)
  IN  MarkerSteps(n, j.items, p, [k \in DOMAIN p.scans |-> ScanSteps(p.scans[k])])

(* Deflate.  uncompress() fills as many rows of the thread's buffer as the tile's data
   holds, and says how much that was in dstLen, which nobody reads; the rows of the image
   come from the rows of the buffer.                                             *)
BufferRow(n, y) == <<"uBuffer", n, y>>

DeflateTileAccepted(j) == j.float /\ j.bps \in {16, 24, 32} /\ j.predictor \in {3, 34894, 34895}

DeflateSteps(n, j) ==
  LET t == Tile(n, j)
  IN  <<Write({BufferRow(n, y) : y \in 0 .. j.unpacked[n + 1] - 1})>> \o
      [i \in 1 .. t.h |->
         Step(Row(t.y + i - 1, j.cpp * t.x, j.cpp * t.w), {BufferRow(n, i - 1)}, {})]

(* Lossy JPEG.  What is copied is what fits into the image, of the size that the JPEG
   has: the tile's own is not looked at.                                         *)
Copied(n, j) ==
  [w |-> Least(PixelsPerRow(j) - Tile(n, j).x, j.jpegs[n + 1].w),
   h |-> Least(j.h - Tile(n, j).y, j.jpegs[n + 1].h)]

JpegSteps(n, j) ==
  LET t == Tile(n, j)
  IN  [i \in 1 .. Copied(n, j).h |->
         Write(Row(t.y + i - 1, j.cpp * t.x, j.cpp * Copied(n, j).w))]
-----------------------------------------------------------------------------
TileAccepts(n, j) ==
  CASE j.compression = "none" -> UncompressedTileAccepted(n, j)
    [] j.compression = "ljpeg" -> ~j.float /\ LJpegTileAccepted(n, j)
    [] j.compression = "deflate" -> DeflateTileAccepted(j)
    [] j.compression = "jpeg" -> ~j.float

DngAccepts(j) ==
  /\ TilingAccepted(j)
  /\ j.bytes > 0
  /\ \A n \in 0 .. j.count - 1 : TileAccepts(n, j)

DngScratch(j) ==
  CASE j.compression = "deflate" -> {BufferRow(n, y) : n \in 0 .. j.count - 1, y \in 0 .. j.tileH - 1}
    [] j.compression = "ljpeg" -> UNION {JpegCells(n) : n \in 0 .. j.count - 1}
    [] OTHER -> {}

DngWork(j) ==
  [i \in 1 .. j.count |->
     CASE j.compression = "none" -> UncompressedTileSteps(i - 1, j)
       [] j.compression = "ljpeg" -> LJpegSteps(i - 1, j)
       [] j.compression = "deflate" -> DeflateSteps(i - 1, j)
       [] j.compression = "jpeg" -> JpegSteps(i - 1, j)]

(* What no check makes sure of, neither of AbstractDngDecompressor nor of its callers: that
   zlib has unpacked each row of a tile that is inside the image, that a lossy JPEG has
   what its tile shows of the image and not more, and that tiles beside each other are of
   those that pixels are copied from.                                             *)
DngTrusted(j) ==
  /\ j.compression = "deflate" => \A n \in 0 .. j.count - 1 : Tile(n, j).h <= j.unpacked[n + 1]
  /\ j.compression = "jpeg" =>
       \A n \in 0 .. j.count - 1 : Copied(n, j) = [w |-> Tile(n, j).w, h |-> Tile(n, j).h]
  /\ j.compression = "none" => CopiesPixels(Ordered(j)) \/ TilesX(j) = 1
=============================================================================
