----------------------------- MODULE RawParser ------------------------------
(* RawParser::getDecoder(): the parsers are tried one after the other, and each exception is
   caught by some of them and not by others.  FiffParser::parseData() and
   MrwDecoder::parseHeader(), which call TiffParser::parse() from within, are here too.

   `at` is the parser that is tried, `magic` how the file begins, `blocks` how many blocks
   the header of a MRW file has left, `made` the decoder, or the exception that is all the
   caller gets.                                                                      *)
EXTENDS CiffParser

CONSTANTS MaxBlocks,   \* of the header of a MRW file
          Ids          \* what may be read from a root directory, see IsAppropriate

ASSUME BlocksAssumption == MaxBlocks \in Nat

VARIABLES at, magic, blocks, foundPRD, made

inner == << tree, ranges, stack, root, next, outcome, values >>
outer == << at, magic, blocks, foundPRD, made >>

Magics == {"MRM", "FUJIFILMCCD-RAW", "II or MM", "other"}

ParserInit ==
  /\ tree = << >> /\ ranges = << >> /\ stack = << >> /\ root = 0 /\ next = 0
  /\ outcome = "none" /\ values = << >>
  /\ at = "size" /\ blocks = 0 /\ foundPRD = FALSE /\ made = "nothing"
  /\ magic \in Magics

(* What the catch clauses after the call of each parser let pass to the next.        *)
CaughtAt(parser) ==
  CASE parser = "mrw"  -> {"RDE"}
    [] parser \in {"fiff", "fiff second", "fiff third"} -> {"FPE"}
    [] parser = "tiff" -> {"TPE"}
    [] parser = "ciff" -> {"CPE"}
    [] OTHER -> {}

After(parser) == IF parser = "tiff" THEN "ciff" ELSE IF parser = "ciff" THEN "chdk" ELSE "tiff"

(* The tree belongs to the decoder then, or to nobody.                               *)
Forgets ==
  /\ tree' = << >> /\ ranges' = << >> /\ outcome' = "none"
  /\ UNCHANGED << stack, root, next, values >>

Goes(to) == at' = to /\ UNCHANGED << magic, blocks, foundPRD, made >>

Made(what) ==
  /\ Forgets
  /\ at' = "done" /\ made' = what
  /\ UNCHANGED << magic, blocks, foundPRD >>

(* An exception e leaves the parser, with all it had made.                           *)
Leaves(e) == IF e \in CaughtAt(at) THEN Forgets /\ Goes(After(at)) ELSE Made(e)

Returns == outcome' = "none" /\ UNCHANGED << tree, ranges, stack, root, next, values >>

Idle == outcome = "none" /\ root = 0 /\ values = << >>

(* The call of TiffParser::parse(), that may have thrown already.                     *)
Parse(above, parent) ==
  /\ Header(above, parent) \/ \E e \in {"TPE", "IOE"} : NoHeader(above, e)
  /\ UNCHANGED << outer, values >>
-----------------------------------------------------------------------------
Size ==
  /\ at = "size"
  /\ \/ Made("RDE")
     \/ /\ at' = CASE magic = "MRM" -> "mrw" [] magic = "FUJIFILMCCD-RAW" -> "fiff" [] OTHER -> "tiff"
        /\ blocks' \in IF magic = "MRM" THEN 0 .. MaxBlocks ELSE {0}
        /\ UNCHANGED << inner, magic, foundPRD, made >>

(* MrwDecoder::parseHeader(): one block after the other, each of some bytes; TTW is a TIFF
   file.                                                                             *)
MrwBlock ==
  /\ at = "mrw" /\ Idle /\ blocks > 0
  /\ \/ \E e \in {"RDE", "IOE"} : Leaves(e)
     \/ /\ blocks' = blocks - 1
        /\ foundPRD' \in {foundPRD, TRUE}
        /\ UNCHANGED << inner, at, magic, made >>
     \/ Parse(<< >>, 0)

MrwParsed ==
  /\ at = "mrw" /\ outcome # "none"
  /\ IF outcome = "ok"
       THEN Forgets /\ blocks' = blocks - 1 /\ UNCHANGED << at, magic, foundPRD, made >>
       ELSE Leaves(outcome)

MrwDone ==
  /\ at = "mrw" /\ Idle /\ blocks = 0
  /\ IF foundPRD THEN Leaves("IOE") \/ Made("MrwDecoder") ELSE Leaves("RDE")

(* FiffParser::parseData(): the first directories; then the one that is to hold the raw
   data's place, constructed now and added last ...                                  *)
FiffFirst ==
  /\ at = "fiff" /\ Idle /\ tree = << >>
  /\ \/ \E e \in {"FPE", "IOE"} : Leaves(e)
     \/ Parse(<< >>, 0)

FiffSubIFD ==
  LET above == Above(tree, 1) IN
  /\ at = "fiff" /\ outcome # "none"
  /\ IF outcome # "ok" THEN Leaves(outcome)
     ELSE IF ~HasRoom(tree, above) THEN Leaves("TPE")
     ELSE /\ tree' = Append(Counted(tree, 1, above), IFD(1, above, Bytes(0, 0)))
          /\ outcome' = "none"
          /\ Goes("fiff second")
          /\ UNCHANGED << ranges, stack, root, next, values >>

(* ... the second, a TIFF file below the root, or data ...                           *)
FiffSecond ==
  /\ at = "fiff second" /\ Idle
  /\ \/ Goes("fiff third") /\ UNCHANGED inner
     \/ Parse(tree, 1)

FiffSecondParsed ==
  /\ at = "fiff second" /\ outcome # "none"
  /\ CASE outcome = "ok"  -> Returns /\ Goes("fiff third")
       [] outcome = "TPE" -> Leaves("FPE") \/ (Returns /\ Goes("fiff third"))
       [] OTHER -> Leaves(outcome)

(* ... the third, a list of entries; and RafDecoder::isAppropriateDecoder().          *)
FiffThird ==
  /\ at = "fiff third"
  /\ \/ \E e \in {"FPE", "IOE", "TPE"} : Leaves(e)
     \/ Made("RafDecoder")

(* TiffParser::makeDecoder(): the map of the decoders, in its order, and what each wants of
   the file: what is in `id`, where `make` and `model` may be missing.                *)
Map == << "DngDecoder", "MosDecoder", "IiqDecoder", "Cr2Decoder", "NefDecoder", "OrfDecoder",
          "ArwDecoder", "PefDecoder", "Rw2Decoder", "SrwDecoder", "MefDecoder", "DcrDecoder",
          "DcsDecoder", "KdcDecoder", "ErfDecoder", "StiDecoder", "ThreefrDecoder" >>

MakesOf ==
  [MosDecoder |-> {"Leaf"}, IiqDecoder |-> {"Phase One A/S", "Phase One", "Leaf"},
   Cr2Decoder |-> {"Canon"}, NefDecoder |-> {"NIKON CORPORATION", "NIKON"},
   OrfDecoder |-> {"OLYMPUS IMAGING CORP.", "OLYMPUS CORPORATION", "OLYMPUS OPTICAL CO.,LTD",
                   "OM Digital Solutions"},
   ArwDecoder |-> {"SONY"},
   PefDecoder |-> {"PENTAX Corporation", "RICOH IMAGING COMPANY, LTD.", "PENTAX"},
   Rw2Decoder |-> {"Panasonic", "LEICA", "LEICA CAMERA AG"}, SrwDecoder |-> {"SAMSUNG"},
   MefDecoder |-> {"Mamiya-OP Co.,Ltd."}, DcrDecoder |-> {"Kodak"}, DcsDecoder |-> {"KODAK"},
   KdcDecoder |-> {"EASTMAN KODAK COMPANY"}, ErfDecoder |-> {"SEIKO EPSON CORP."},
   StiDecoder |-> {"Sinar AG"}, ThreefrDecoder |-> {"Hasselblad"}]

NoID == "missing"

Anonymous == [make |-> NoID, DCS520C |-> FALSE, dngVersion |-> FALSE, iiq |-> FALSE, software |-> FALSE]

IsAppropriate(decoder, id) ==
  CASE decoder = "DngDecoder" -> id.dngVersion
    [] decoder = "MosDecoder" /\ id.make = NoID -> id.software
    [] decoder = "MosDecoder" -> id.make \in MakesOf[decoder] /\ ~id.iiq
    [] decoder = "IiqDecoder" -> id.make \in MakesOf[decoder] /\ id.iiq
    [] decoder = "Cr2Decoder" -> id.make \in MakesOf[decoder] \/ (id.make = "Kodak" /\ id.DCS520C)
    [] OTHER -> id.make \in MakesOf[decoder]

(* IiqDecoder's is the first to let the exception of a missing make pass.            *)
Appropriate(id) ==
  LET yes == {d \in 1 .. Len(Map) : IsAppropriate(Map[d], id)} IN
  IF yes = {} THEN "none" ELSE Map[CHOOSE d \in yes : \A k \in yes : d <= k]

TiffFirst ==
  /\ at = "tiff" /\ Idle /\ tree = << >>
  /\ \/ magic = "II or MM" /\ Header(<< >>, 0)
     \/ NoHeader(<< >>, "TPE")
  /\ UNCHANGED << outer, values >>

TiffParsed(id) ==
  /\ at = "tiff" /\ outcome # "none"
  /\ IF outcome # "ok" THEN Leaves(outcome)
     ELSE /\ Len(tree) = 1 => id = Anonymous
          /\ IF Appropriate(id) = "none" THEN Leaves("TPE")
             ELSE \/ Made(Appropriate(id))
                  \/ \E e \in {"RDE", "TPE", "IOE"} :
                       Appropriate(id) \in {"DngDecoder", "MosDecoder"} /\ Leaves(e)

CiffFirst ==
  /\ at = "ciff" /\ Idle /\ tree = << >>
  /\ IF magic = "II or MM" THEN CiffHeader ELSE CiffThrown("CPE")
  /\ UNCHANGED outer

CiffParsed ==
  /\ at = "ciff" /\ outcome # "none"
  /\ IF outcome # "ok" THEN Leaves(outcome)
     ELSE Leaves("CPE") \/ Made("CrwDecoder")

Chdk ==
  /\ at = "chdk"
  /\ Made("NakedDecoder") \/ Made("RDE")

ParserNext ==
  \/ ((TiffStep /\ UNCHANGED values) \/ CiffStep) /\ UNCHANGED outer
  \/ Size \/ MrwBlock \/ MrwParsed \/ MrwDone
  \/ FiffFirst \/ FiffSubIFD \/ FiffSecond \/ FiffSecondParsed \/ FiffThird
  \/ TiffFirst \/ \E id \in Ids : TiffParsed(id)
  \/ CiffFirst \/ CiffParsed \/ Chdk
-----------------------------------------------------------------------------
Frames ==
  {[ifd |-> i, entries |-> n, subs |-> k] : i \in 1 .. Len(tree), n \in 0 .. MaxEntries, k \in 0 .. MaxSubs}

(* What is where: directories come after those above them, and what is under construction
   is in the tree.                                                                   *)
TreeTypeOK ==
  /\ \A i \in 1 .. Len(tree) :
       /\ tree[i].parent \in {0} \cup tree[i].above
       /\ tree[i].above \subseteq 1 .. i - 1
       /\ tree[i].range.begin <= tree[i].range.end /\ tree[i].range.end <= FileSize
       /\ {tree[i].count, tree[i].recursive} \subseteq Nat
  /\ root \in 0 .. Len(tree)
  /\ next \in Places \cup {0}
  /\ \A k \in 1 .. Len(stack) : stack[k].ifd \in 1 .. Len(tree)
  /\ at # "ciff" => \A k \in 1 .. Len(stack) : stack[k] \in Frames
  /\ values # << >> => at = "ciff" /\ Len(values) = Len(stack)
  /\ outcome \in {"none", "ok", "TPE", "IOE", "CPE"}

(* As many as the limits allow: what the directories count is no less than what is in the
   tree, and the tree is no larger or deeper than TiffIFD::Limits and CiffIFD's say, whatever
   has been thrown away in between.                                                  *)
LimitsKept ==
  \A i \in 1 .. Len(tree) :
    /\ Cardinality(SubIFDs(tree, i)) <= tree[i].count
    /\ Cardinality(Below(tree, i)) <= tree[i].recursive
    /\ tree[i].count <= SubIFDCount /\ tree[i].recursive <= RecursiveSubIFDCount
    /\ Cardinality(tree[i].above) <= Depth

Apart(elts) ==
  \A i, k \in 1 .. Len(elts) : i < k =>
    elts[i].begin < elts[k].begin /\ elts[i].end <= elts[k].begin

Within(r, s) == s.begin <= r.begin /\ r.end <= s.end

(* No byte of the file is in two directories of a TIFF file, or in two values of a directory
   of a CIFF file, so that one of its directories is within another or apart from it, though
   NORangesSet::insert() compares a range with its two neighbours only.               *)
RangesApart ==
  /\ Apart(ranges)
  /\ \A i \in 1 .. Len(values) : Apart(values[i])
  /\ at = "ciff" => \A i, k \in 1 .. Len(tree) : i < k =>
       LET r == tree[i].range  s == tree[k].range IN
       IF i \in tree[k].above THEN Within(s, r) /\ s # r ELSE r.end <= s.begin \/ s.end <= r.begin
=============================================================================
