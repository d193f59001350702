------------------------------ MODULE FujiLines ------------------------------
(* FujiDecompressor: the image is cut into strips; a thread decodes its strips one after
   the other through one set of line buffers.  A buffer has lines of each colour: two
   that were decoded before and those of the next six rows of the image; the columns at
   both ends of a line are helpers that repeat samples of the line before.

   A job:  w  h  xtrans (or Bayer)  threads  bps  lines (the header's total_lines)
           strips (the header's blocks_in_row)                                    *)
EXTENDS RasterSteps

CONSTANTS BlockSize,       \* 768: the width of a strip
          WidthMultiple    \* 24: what widths are multiples of

ASSUME FujiAssumption ==
  /\ BlockSize \in Nat \ {0} /\ WidthMultiple \in Nat \ {0}
  /\ BlockSize % 12 = 0 /\ WidthMultiple % 6 = 0

LineHeight == 6

(* FujiHeader::operator bool(), but for the largest sizes                           *)
FujiAccepts(j) ==
  /\ j.h >= LineHeight /\ j.h % LineHeight = 0
  /\ j.w >= BlockSize /\ j.w % WidthMultiple = 0
  /\ j.strips = CeilDiv(j.w, BlockSize)
  /\ j.lines = j.h \div LineHeight
  /\ j.bps \in {14, 16}

LineWidth(j) == IF j.xtrans THEN (BlockSize * 2) \div 3 ELSE BlockSize \div 2

OffsetX(strip) == BlockSize * strip
StripWidth(strip, j) == IF strip + 1 # j.strips THEN BlockSize ELSE j.w - OffsetX(strip)
-----------------------------------------------------------------------------
(* xt_lines: the first line of each colour, and how many it has.                    *)
FirstLine == [R |-> 0, G |-> 5, B |-> 13]
LineCount == [R |-> 5, G |-> 8, B |-> 5]
Colours == {"R", "G", "B"}

(* A cell of the buffer of thread t.                                              *)
Cell(t, line, col) == <<"line", t, line, col>>
Helper(j) == LineWidth(j) + 1
Columns(j) == 0 .. Helper(j)

LinesOf(colour) == FirstLine[colour] .. FirstLine[colour] + LineCount[colour] - 1
NewLinesOf(colour) == LinesOf(colour) \ {FirstLine[colour], FirstLine[colour] + 1}

Buffer(t, j) == {Cell(t, l, x) : l \in 0 .. 17, x \in Columns(j)}

FujiScratch(j) == UNION {Buffer(t, j) : t \in 1 .. j.threads}

(* The helper at the end of the first new line of each colour repeats the last sample of
   the line before.                                                              *)
FirstHelpers(t, j) ==
  LET target == {Cell(t, FirstLine[c] + 2, Helper(j)) : c \in Colours}
  IN  Copy([cell \in target |-> Cell(t, cell[3] - 1, LineWidth(j))])

NoReset(t, j) == << >>   \* (mutant) the next strip begins with the buffer as it is

(* reset(): the whole buffer is void, but for two lines of zeroes of each colour; the
   helpers of the first of them stay void.                                        *)
Reset(t, j) ==
  LET zeroed == {Cell(t, FirstLine[c], x) : c \in Colours, x \in 1 .. LineWidth(j)} \cup
                {Cell(t, FirstLine[c] + 1, x) : c \in Colours, x \in Columns(j)}
  IN  <<Drop(Buffer(t, j)), Write(zeroed), FirstHelpers(t, j)>>
-----------------------------------------------------------------------------
(* What the prediction of sample 2 * col, or 2 * col + 1, of line l looks at.         *)
EvenReads(t, l, col) ==
  {Cell(t, l - 1, x) : x \in 2 * col .. 2 * col + 2} \cup {Cell(t, l - 2, 2 * col + 1)}

OddReads(t, l, col) ==
  {Cell(t, i, x) : i \in {l - 1, l}, x \in {2 * col + 1, 2 * col + 3}} \cup
  {Cell(t, l - 1, 2 * col + 2)}

(* pass(): a line of each of two colours; the odd samples are four behind the even ones. *)
Pass(t, lines, j) ==
  LET half == LineWidth(j) \div 2
      Even(col) == Step({Cell(t, l, 2 * col + 1) : l \in lines},
                        UNION {EvenReads(t, l, col) : l \in lines}, {})
      Odd(col) == Step({Cell(t, l, 2 * col + 2) : l \in lines},
                       UNION {OddReads(t, l, col) : l \in lines}, {})
  IN  ForEach(half + 4, LAMBDA i :
        (IF i < half THEN <<Even(i)>> ELSE << >>) \o (IF i >= 4 THEN <<Odd(i - 4)>> ELSE << >>))

(* fuji_extend_generic(): the helpers of all new lines of a colour.  They repeat samples
   that no helper is, so that all can be set at once.                             *)
Extend(t, colour, j) ==
  LET target == {Cell(t, l, x) : l \in NewLinesOf(colour), x \in {0, Helper(j)}}
  IN  Copy([cell \in target |->
              Cell(t, cell[3] - 1, IF cell[4] = 0 THEN 1 ELSE LineWidth(j))])

(* fuji_decode_block(): rows of the RGGB pattern; each colour has a counter of its own. *)
RowColours(row) == IF row % 2 = 0 THEN <<"R", "G">> ELSE <<"G", "B">>

CurLine(colour, row) ==
  FirstLine[colour] + 2 + (IF colour = "G" THEN row ELSE row \div 2)

DecodeBlock(t, j) ==
  ForEach(LineHeight, LAMBDA row :
    Pass(t, {CurLine(c, row) : c \in ToSet(RowColours(row))}, j) \o
    <<Extend(t, RowColours(row)[1], j), Extend(t, RowColours(row)[2], j)>>)
-----------------------------------------------------------------------------
(* copy_line(): where the sample of a row and a column of the strip is found.        *)
XTransColour(row, col) ==
  LET rows == << <<"G", "G", "R", "G", "G", "B">>, <<"G", "G", "B", "G", "G", "R">>,
                 <<"B", "R", "G", "R", "B", "G">>, <<"G", "G", "B", "G", "G", "R">>,
                 <<"G", "G", "R", "G", "G", "B">>, <<"R", "B", "G", "B", "R", "G">> >>
  IN  rows[row + 1][(col % 6) + 1]

BayerColour(row, col) == RowColours(row)[(col % 2) + 1]

XTransIndex(col) ==
  LET even == 2 * (((col * 2) \div 3) \div 2)
      third == col % 3
  IN  even + (third % 2) + (third \div 2)

BayerIndex(col) == col \div 2

Source(t, row, col, j) ==
  Cell(t, CurLine(IF j.xtrans THEN XTransColour(row, col) ELSE BayerColour(row, col), row),
       1 + (IF j.xtrans THEN XTransIndex(col) ELSE BayerIndex(col)))

CopyLine(t, strip, line, j) ==
  [i \in 1 .. LineHeight |->
     Step(Row(LineHeight * line + i - 1, OffsetX(strip), StripWidth(strip, j)),
          {Source(t, i - 1, col, j) : col \in 0 .. StripWidth(strip, j) - 1}, {})]

(* Between two lines of a strip the last two lines of each colour become its first two,
   and the others are void.                                                       *)
Rotate(t, j) ==
  LET kept == {Cell(t, FirstLine[c] + i, x) : c \in Colours, i \in 0 .. 1, x \in Columns(j)}
      ColourOf(line) == CHOOSE c \in Colours : line \in LinesOf(c)
  IN  <<Copy([cell \in kept |->
                Cell(t, cell[3] + LineCount[ColourOf(cell[3])] - 2, cell[4])]),
        Drop(UNION {{Cell(t, l, x) : l \in NewLinesOf(c), x \in Columns(j)} : c \in Colours}),
        FirstHelpers(t, j)>>

(* fuji_decode_strip()                                                            *)
StripSteps(t, strip, j) ==
  Reset(t, j) \o
  ForEach(j.lines, LAMBDA line :
    DecodeBlock(t, j) \o CopyLine(t, strip, line, j) \o
    (IF line + 1 = j.lines THEN << >> ELSE Rotate(t, j)))

(* decompressThread(): schedule(static), equal shares of consecutive strips.         *)
FujiWork(j) ==
  LET share == CeilDiv(j.strips, j.threads)
      Mine(t) == {s \in 0 .. j.strips - 1 : s \div share = t - 1}
  IN  [t \in 1 .. j.threads |->
         ForEach(Cardinality(Mine(t)), LAMBDA i : StripSteps(t, share * (t - 1) + i, j))]
=============================================================================
