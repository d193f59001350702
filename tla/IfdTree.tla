------------------------------ MODULE IfdTree ------------------------------
(* What the directories of TIFF and of CIFF files have in common: the tree they make, with
   the limits that are checked as it grows, and the set of byte ranges that may not
   overlap.

   A tree is a sequence of directories in the order they were constructed.  `above` are
   the directories on the way to the root, the indices of the parent and of its parents;
   `count` and `recursive` are subIFDCount and subIFDCountRecursive, which go up when a sub
   directory is constructed, long before it is added, and never go down.            *)
EXTENDS Integers, Sequences, FiniteSets

CONSTANTS Depth, SubIFDCount, RecursiveSubIFDCount   \* Limits

ASSUME LimitsAssumption == {Depth, SubIFDCount, RecursiveSubIFDCount} \subseteq Nat \ {0}

IFD(parent, above, range) ==
  [parent |-> parent, above |-> above, range |-> range, count |-> 0, recursive |-> 0]

Above(tree, parent) == IF parent = 0 THEN {} ELSE tree[parent].above \cup {parent}

(* recursivelyCheckSubIFDs(1), called by the constructor of a directory whose way to the
   root is `above`: is there room in all of them?                                   *)
RoomInParent(tree, above) ==   \* (mutant) only the directory it belongs to is asked
  /\ Cardinality(above) <= Depth
  /\ \A i \in above : (\A k \in above : k <= i) =>
       tree[i].count < SubIFDCount /\ tree[i].recursive < RecursiveSubIFDCount

HasRoom(tree, above) ==
  /\ Cardinality(above) <= Depth
  /\ \A i \in above : tree[i].count < SubIFDCount /\ tree[i].recursive < RecursiveSubIFDCount

(* recursivelyIncrementSubIFDCount(). *)
Counted(tree, parent, above) ==
  [i \in 1 .. Len(tree) |->
     [tree[i] EXCEPT !.count = IF i = parent THEN @ + 1 ELSE @,
                     !.recursive = IF i \in above THEN @ + 1 ELSE @]]

(* A directory is destroyed, and with it all that were constructed for it since.    *)
Without(tree, ifd) == SubSeq(tree, 1, ifd - 1)

SubIFDs(tree, i) == {k \in 1 .. Len(tree) : tree[k].parent = i}
Below(tree, i) == {k \in 1 .. Len(tree) : i \in tree[k].above}
-----------------------------------------------------------------------------
(* Ranges of bytes, and NORangesSet: a std::set of ranges in the order of where they
   begin and then of where they end, none of which overlaps another.                *)
Bytes(begin, size) == [begin |-> begin, end |-> begin + size]

Less(r, s) == r.begin < s.begin \/ (r.begin = s.begin /\ r.end < s.end)

RangeContains(r, pos) == r.begin <= pos /\ pos < r.end

RangesOverlap(r, s) ==
  \/ r.begin = s.begin
  \/ r.begin < s.begin /\ RangeContains(r, s.begin)
  \/ s.begin < r.begin /\ RangeContains(s, r.begin)

(* std::partition_point(): the first that is not less than r, or one past the last.  *)
IsPartitionPoint(elts, r, p) ==
  /\ p \in 1 .. Len(elts) + 1
  /\ \A i \in 1 .. p - 1 : Less(elts[i], r)
  /\ \A i \in p .. Len(elts) : ~Less(elts[i], r)

OverlapsNext(elts, r, p) ==   \* (mutant) of OverlapsExisting: the one before is forgotten
  p <= Len(elts) /\ RangesOverlap(r, elts[p])

OverlapsExisting(elts, r, p) ==
  \/ p <= Len(elts) /\ RangesOverlap(r, elts[p])
  \/ p > 1 /\ RangesOverlap(r, elts[p - 1])

Inserted(elts, r, p) ==
  [i \in 1 .. Len(elts) + 1 |-> IF i < p THEN elts[i] ELSE IF i = p THEN r ELSE elts[i - 1]]
=============================================================================
