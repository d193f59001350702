------------------------------ MODULE MCRaster ------------------------------
(* Small images for every decompressor: at least two slices where slices are shared, an
   image that does not end with a full block where the code allows it, and images and
   inputs that the constructors must not accept.                                  *)
EXTENDS Raster, Decompressors

Image(codec, w, h) == [codec |-> codec, w |-> w, h |-> h]
Input(size) == [size |-> size]
Bits(bps) == [bps |-> bps]

(* What a job has that says nothing of its input, or of an image it starts from.    *)
NoInput == Input(0) @@ [source |-> [w |-> 0, h |-> 0]]

(* PacketsPerBlock is 2: units of 8 bytes, 4 in a block.                          *)
PanasonicJobs ==
  LET V8(w, h, rects) == Image("panasonic8", w, h) @@ [rects |-> rects] @@ Input(1)
      R(x, y, w, h) == [x |-> x, y |-> y, w |-> w, h |-> h]
  IN  {Image("panasonic4", 14, 3) @@ [split |-> s] @@ Input(n) : s \in {0, 1, 4}, n \in {7, 8}} \cup
      {Image("panasonic4", 28, 3) @@ [split |-> 3] @@ Input(12)} \cup
      {Image("panasonic5", 20, 3) @@ Bits(b) @@ Input(12) : b \in {12, 13}} \cup
      {Image("panasonic5", 9, 5) @@ Bits(14) @@ Input(n) : n \in {12, 11}} \cup
      {Image("panasonic6", 22, 2) @@ Bits(14) @@ Input(n) : n \in {8, 6}} \cup
      {Image("panasonic6", 28, 2) @@ Bits(12) @@ Input(8), Image("panasonic7", 18, 2) @@ Bits(14) @@ Input(8)} \cup
      {V8(6, 4, <<R(0, 0, 2, 4), R(2, 0, 4, 4)>>), V8(4, 6, <<R(0, 0, 4, 2), R(0, 2, 4, 4)>>),
       V8(6, 6, <<R(0, 0, 4, 4), R(4, 0, 2, 4), R(0, 4, 6, 2)>>),
       V8(6, 4, <<R(0, 0, 2, 4), R(2, 0, 4, 2), R(2, 2, 4, 2)>>),
       V8(6, 4, <<R(0, 0, 4, 2), R(4, 0, 2, 4), R(0, 4, 6, 0)>>),
       V8(6, 6, <<R(0, 0, 4, 4), R(4, 0, 2, 2), R(0, 2, 6, 4)>>),
       V8(6, 4, <<R(0, 0, 4, 4)>>), V8(6, 4, <<R(0, 0, 6, 2)>>)}

UncompressedJobs ==
  LET Packed(codec, w, h, bps, order, pitch) ==
        Image(codec, w, h) @@ Bits(bps) @@ Input(h * pitch) @@
        [cpp |-> 1, float |-> FALSE, order |-> order, pitch |-> pitch]
  IN  {Packed(c, 20, 3, 12, "LSB", p) : c \in {"uncompressed", "12bitControl"}, p \in {29, 30, 32}} \cup
      {Packed("8bit", 3, 2, 8, "LSB", p) : p \in {2, 3}} \cup
      {Packed("12bitUnpacked", 4, 2, 16, "MSB", 8)}

(* Lossless JPEGs.  The tables are given out to the components in turn.              *)
Item(marker) == [marker |-> marker]
Dht(tables) == Item("DHT") @@ [tables |-> tables]
Dri(restart) == Item("DRI") @@ [restart |-> restart]
Component(id, hor, ver) == [id |-> id, superH |-> hor, superV |-> ver]
Sof(w, h, comps) ==
  Item("SOF3") @@ [frame |-> [prec |-> 14, w |-> w, h |-> h, cps |-> Len(comps), comps |-> comps]]
Sos(predictor, comps) == Item("SOS") @@ [comps |-> comps, predictor |-> predictor, pt |-> 0]
SelectAll(n) == [i \in 1 .. n |-> [cs |-> i, td |-> (i - 1) % 2]]

Jpeg(w, h, cps, restart, hor, ver) ==
  [items |-> << Item("SOI"), Dht(<<0, 1>>), Dri(restart), Item("APP0"),
                Sof(w, h, [i \in 1 .. cps |-> IF i = 1 THEN Component(1, hor, ver) ELSE Component(i, 1, 1)]),
                Sos(1, SelectAll(cps)), Item("padding"), Item("EOI") >>]

Tiled(w, h, cpp, tileW, tileH, count) ==
  Image("dng", w, h) @@
  [cpp |-> cpp, tileW |-> tileW, tileH |-> tileH, count |-> count, strips |-> FALSE, bytes |-> 1]

Integers(bps) == Bits(bps) @@ [float |-> FALSE, order |-> "LSB"]
Floats(bps) == Bits(bps) @@ [float |-> TRUE, order |-> "LSB"]
None(bytes, count) == [compression |-> "none", bytes |-> bytes] @@ Input(bytes * count)

Deflate(unpacked) == [compression |-> "deflate", predictor |-> 3, unpacked |-> unpacked]
Lossy(jpegs) == [compression |-> "jpeg", jpegs |-> jpegs]
Size(w, h) == [w |-> w, h |-> h]

(* 5 x 3 pixels in four tiles of 3 x 2, those at the right and at the bottom cut off.   *)
Cut(cpp) == Tiled(5 * cpp, 3, cpp, 3, 2, 4)

(* Data that is not what it is trusted to be: a tile that is not unpacked whole, JPEGs larger
   and smaller than their tiles, and tiles beside each other whose samples are unpacked
   from a bit stream.                                                            *)
ShortDeflates == {j @@ NoInput : j \in {Deflate(<<2, 1, 1, 2>>) @@ Floats(24) @@ Cut(1)}}

LargerJpegs ==
  {j @@ NoInput : j \in {Lossy(<<s, Size(3, 2), Size(3, 2), Size(2, 1)>>) @@ Integers(8) @@ Cut(c) :
                            s \in {Size(4, 2), Size(3, 3)}, c \in {1, 3}}}

SmallerJpegs ==
  {j @@ NoInput : j \in {Lossy(<<Size(3, 2), s, Size(3, 2), Size(2, 1)>>) @@ Integers(8) @@ Cut(c) :
                            s \in {Size(1, 2), Size(2, 1)}, c \in {1, 3}}}

PackedTiles ==
  {j @@ NoInput : j \in {None(12, 2) @@ Integers(12) @@ Tiled(6, 2, 1, 4, 2, 2),
                         None(16, 2) @@ Floats(16) @@ Tiled(6, 2, 1, 4, 2, 2)}}

UntrustedJobs == ShortDeflates \cup LargerJpegs \cup SmallerJpegs \cup PackedTiles

DngJobs ==
  LET LJpeg(w, h, cps, restart, count) ==
        [compression |-> "ljpeg"] @@ Jpeg(w, h, cps, restart, 1, 1) @@ Input(w * h * count)
      Strips(count) == [strips |-> TRUE, count |-> count]
  IN  {Strips(n) @@ None(9 * r, 3) @@ Integers(12) @@ Tiled(6, 5, 1, 6, 2, 3) : n \in {2, 3}, r \in {1, 2}} \cup
      {None(12, 4) @@ Integers(16) @@ Tiled(5, 3, 1, 3, 2, 4),
       None(48, 4) @@ Floats(32) @@ Tiled(8, 3, 2, 3, 2, 4)} \cup
      {LJpeg(2, 2, 2, r, 4) @@ Integers(14) @@ Tiled(7, 3, 1, 4, 2, n) : r \in {0, 2, 3}, n \in {3, 4}} \cup
      {LJpeg(2, 1, 4, 0, 4) @@ Integers(14) @@ Tiled(7, h, 1, 4, 2, 4) : h \in {3, 4}} \cup
      {LJpeg(4, 1, 3, 0, 2) @@ Integers(14) @@ Tiled(21, 1, 3, 4, 1, 2)} \cup
      {Deflate(<<2, 2, 1, 2>>) @@ Floats(b) @@ Cut(1) : b \in {24, 8}} \cup
      {Lossy(<<Size(3, 2), s, Size(3, 1), Size(2, 2)>>) @@ Integers(8) @@ Cut(3) : s \in {Size(2, 2), Size(3, 4)}}

Cr2Jobs ==
  LET Cr2(w, h, groups, hor, ver, frameW, frameH, cps) ==
        Image("cr2", w, h) @@ Input(groups) @@ Jpeg(frameW, frameH, cps, 0, hor, ver) @@
        [cpp |-> 1, superH |-> hor, superV |-> ver, cfa |-> <<hor, ver>> = <<1, 1>>]
      Sliced(num, width, last) == [slices |-> [num |-> num, width |-> width, last |-> last]]
  IN  {Cr2(8, 4, 16, 1, 1, 4, 4, 2) @@ Sliced(2, w, 4) : w \in {2, 4}} \cup
      {Cr2(8, 4, 32, 1, 1, 8, 2, 2) @@ Sliced(2, 4, 4)} \cup
      {Cr2(8, 4, 2 * h, 1, 1, 2, h, 2) @@ Sliced(2, w, w) : h \in {4, 8}, w \in {2, 4}} \cup
      {Cr2(12, h, 4, 2, 2, 4, 4, 3) @@ Sliced(0, 0, 0) : h \in {2, 3}} \cup
      {Cr2(8, 2, 4, 2, 1, 4, 2, 3) @@ Sliced(n, 4, 4) : n \in {0, 2}}

(* JPEGs of one tile, or one Hasselblad image, with the items in any order, twice or
   missing (the scan is a different one if DRI comes before it), and with other flaws:
   bytes before SOI, no or too many tables, one component selected twice.            *)
OddJpegJobs ==
  LET SofOfTwo == Sof(2, 2, <<Component(1, 1, 1), Component(2, 1, 1)>>)
      InAnyOrder == BoundedSeq({Dht(<<0, 1>>), Dri(4), SofOfTwo, Sos(1, SelectAll(2))}, 4)
      Flawed ==
        {<<tables, SofOfTwo, Sos(1, <<[cs |-> a, td |-> t], [cs |-> b, td |-> 0]>>), last>> :
           tables \in {Dht(<<0>>), Dht(<< >>), Dht(<<0, 0>>)}, a \in 1 .. 3, b \in 1 .. 3, t \in {0, 1},
           last \in {Item("padding"), Item("DQT"), Item("cut")}}
      Ends == {<< >>, <<Item("EOI")>>}
      OneTile(items) == [compression |-> "ljpeg", items |-> items] @@ Input(4) @@ Integers(14) @@
                        Tiled(4, 2, 1, 4, 2, 1)
      Pairs(items) == Image("hasselblad", 2, 2) @@ [items |-> items, cpp |-> 1, superH |-> 1, superV |-> 1]
  IN  UNION {{OneTile(<<Item("SOI")>> \o middle \o end), Pairs(<<Item("SOI")>> \o middle \o end)} :
               middle \in InAnyOrder \cup Flawed, end \in Ends}
        \cup {OneTile(<<Item("padding"), Item("SOI")>>)}

(* One row of units and several; a single unit in a row; a height that is not a multiple. *)
SRawJobs ==
  {[codec |-> "sraw"] @@ SRawJob([w |-> w, h |-> h], 2, v) : w \in {2, 6}, h \in {2, 4, 5}, v \in {1, 2}}
    \cup {[codec |-> "sraw"] @@ SRawJob([w |-> 4, h |-> 4], 1, 2)}

RowJobs ==
  {Image("nikon", 4, 4) @@ Bits(b) @@ [split |-> s] : b \in {12, 10}, s \in {0, 2, 4}} \cup
  {Image("pentax", w, 4) : w \in {3, 4}} \cup
  {Image("samsung0", 34, 4) @@ Input(12) @@ [offsets |-> o, up |-> u] :
     o \in {<<0, 3, 5, 9>>, <<0, 5, 5, 9>>}, u \in BOOLEAN} \cup
  {Image("samsung1", 32, h) @@ Bits(12) : h \in {3, 4}} \cup
  {Image("samsung2", 32, 4) @@ Bits(12) @@ [motion |-> m] : m \in 0 .. 7} \cup
  {Image("hasselblad", w, 2) @@ Jpeg(w, h, 1, 0, 1, 1) @@ [cpp |-> 1, superH |-> 1, superV |-> 1] :
     w \in {3, 4}, h \in {1, 2}} \cup
  {Image("kodak", 12, 2) @@ Bits(12) @@ Input(n) : n \in {11, 12}} \cup
  {Image("olympus", 6, 4), Image("arw1", 3, 4), Image("arw1", 3, 3)} \cup
  {Image("arw2", 64, 2) @@ Input(n) : n \in {127, 128}} \cup
  {Image("phaseone", 2, 3) @@ [strips |-> s] : s \in {<<2, 0, 1>>, <<2, 0, 2>>}} \cup
  {Image("crw", 12, 16) @@ Input(n) @@ [lowbits |-> TRUE] : n \in {47, 48}}

(* BlockSize is 12, WidthMultiple 6: two strips, the second one of half the width.  *)
FujiJobs ==
  {Image("fuji", 18, 6) @@ Bits(14) @@ [xtrans |-> x, threads |-> 2, lines |-> 1, strips |-> n] :
     x \in BOOLEAN, n \in {1, 2}} \cup
  {Image("fuji", 18, 12) @@ Bits(14) @@ [xtrans |-> x, threads |-> 1, lines |-> 2, strips |-> 2] :
     x \in BOOLEAN}

AllJobs ==
  {j @@ NoInput :
     j \in PanasonicJobs \cup UncompressedJobs \cup DngJobs
             \cup OddJpegJobs \cup Cr2Jobs \cup SRawJobs \cup RowJobs \cup FujiJobs}
    \cup UntrustedJobs

(* As if nothing were trusted.                                                    *)
AnyData(j) == TRUE
=============================================================================
