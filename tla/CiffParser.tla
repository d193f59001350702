----------------------------- MODULE CiffParser -----------------------------
(* CiffParser::parseData() and the constructors of CiffIFD.  A directory is a range of
   bytes: the area of its values, the entries, and in the last four bytes the size of
   the area.  A value lies in the area, where no other may overlap it, or in the entry;
   a value can be a directory.  No exception is caught: all is given up.

   `values` are, for each directory under construction, the values seen so far; its frame
   has the area of its values and the place of its next entry.                       *)
EXTENDS TiffParser

CONSTANT Sizes   \* of values, and of areas

ASSUME SizesAssumption == Sizes \subseteq Nat

VARIABLE values

EntrySize == 10
InlineSize == 8

CiffThrownLater(e) ==   \* (mutant) of CiffThrown: the values are left for the next parser
  /\ outcome' = e
  /\ tree' = << >> /\ stack' = << >>
  /\ UNCHANGED << ranges, root, next, values >>

CiffThrown(e) ==
  /\ outcome' = e
  /\ tree' = << >> /\ stack' = << >> /\ values' = << >>
  /\ UNCHANGED << ranges, root, next >>

(* The constructor of a directory up to its entries, its parent under construction in the
   last of `frames`; `seen` are their values.                                        *)
CiffConstruct(range, frames, seen) ==
  LET parent == IF frames = << >> THEN 0 ELSE Last(frames).ifd
      above == Above(tree, parent)
      size == range.end - range.begin
  IN  IF ~HasRoom(tree, above) \/ size < 4 THEN CiffThrown("CPE")
      ELSE \E area \in Sizes, n \in 0 .. MaxEntries :
        IF area + 2 + EntrySize * n > size THEN CiffThrown("IOE")
        ELSE /\ tree' = Append(Counted(tree, parent, above), IFD(parent, above, range))
             /\ stack' = Append(frames, [ifd |-> Len(tree) + 1, entries |-> n,
                                         area |-> Bytes(range.begin, area),
                                         place |-> range.begin + area + 2])
             /\ values' = Append(seen, << >>)
             /\ UNCHANGED << ranges, root, next, outcome >>

(* The header of the file, its root directory and the 8 bytes of the signature.      *)
CiffHeader ==
  \/ \E e \in {"CPE", "IOE"} : CiffThrown(e)
  \/ \E begin \in Places : begin <= FileSize /\ CiffConstruct(Bytes(begin, FileSize - begin), << >>, << >>)

AtCiffEntry == stack # << >> /\ Last(stack).entries > 0

AfterEntry == Top([Last(stack) EXCEPT !.entries = @ - 1, !.place = @ + EntrySize])

(* CiffEntry::Create() and parseIFDEntry(): the value is in the area ...             *)
CiffValue(offset, size, isIFD) ==
  LET area == Last(stack).area
      value == Bytes(area.begin + offset, size)
      seen == Last(values)
  IN  /\ AtCiffEntry
      /\ IF value.end > area.end THEN CiffThrown("IOE")
         ELSE \E p \in 1 .. Len(seen) + 1 :
           /\ IsPartitionPoint(seen, value, p)
           /\ LET all == Front(values) \o << Inserted(seen, value, p) >> IN
              IF OverlapsExisting(seen, value, p) THEN CiffThrown("CPE")
              ELSE IF isIFD THEN CiffConstruct(value, AfterEntry, all)
              ELSE /\ stack' = AfterEntry
                   /\ values' = all
                   /\ UNCHANGED << tree, ranges, root, next, outcome >>

(* ... or in the entry itself ...                                                    *)
InlineValue(isIFD) ==
  /\ AtCiffEntry
  /\ IF isIFD THEN CiffConstruct(Bytes(Last(stack).place + 2, InlineSize), AfterEntry, values)
     ELSE /\ stack' = AfterEntry
          /\ UNCHANGED << tree, ranges, root, next, outcome, values >>

(* ... or nobody knows where.                                                        *)
BadLocation == AtCiffEntry /\ CiffThrown("CPE")

CiffFinish ==
  /\ stack # << >> /\ Last(stack).entries = 0
  /\ stack' = Front(stack)
  /\ values' = Front(values)
  /\ outcome' = IF Len(stack) = 1 THEN "ok" ELSE "none"
  /\ UNCHANGED << tree, ranges, root, next >>

CiffStep ==
  /\ outcome = "none" /\ values # << >>
  /\ \/ \E offset, size \in Sizes, isIFD \in BOOLEAN : CiffValue(offset, size, isIFD)
     \/ \E isIFD \in BOOLEAN : InlineValue(isIFD)
     \/ BadLocation
     \/ CiffFinish
=============================================================================
