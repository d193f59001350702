----------------------------- MODULE TiffParser -----------------------------
(* TiffParser::parse() and the constructors of TiffIFD it calls.  The file is read lazily:
   what a directory says is chosen when it is read, which is once, as no two directories
   may overlap.

   A file has FileSize bytes; Places are the offsets that are found in it.  `next` is the
   offset of the next directory of the chain, `root` the TiffRootIFD of the call that is
   at work, `stack` the directories under construction, the innermost last, each with the
   entries it has left to read and, of the entry it is at, the sub directories it has left
   to construct.  An exception that is caught within is not to be seen; `outcome` is what
   the call made: "ok", or the exception that left it.                               *)
EXTENDS IfdTree, SequencesExt

CONSTANTS FileSize, Places, MaxEntries, MaxSubs

ASSUME FileAssumption ==
  /\ FileSize \in Nat
  /\ Places \subseteq Nat \ {0}
  /\ {MaxEntries, MaxSubs} \subseteq Nat

VARIABLES tree, ranges, stack, root, next, outcome

Frame(ifd, entries) == [ifd |-> ifd, entries |-> entries, subs |-> 0]

Innermost == IF stack = << >> THEN root ELSE Last(stack).ifd

Top(f) == Front(stack) \o << f >>

ThrownAndOn(e, callers, left) ==   \* (mutant) of Thrown: the chain goes on after it
  /\ UNCHANGED ranges
  /\ IF callers # << >>
       THEN /\ tree' = left
            /\ stack' = Front(callers) \o << [Last(callers) EXCEPT !.subs = 0] >>
            /\ UNCHANGED << root, next, outcome >>
       ELSE /\ stack' = << >>
            /\ tree' = IF e = "TPE" THEN left ELSE Without(left, root)
            /\ IF e = "TPE" THEN UNCHANGED << root, next, outcome >>
               ELSE next' = 0 /\ root' = 0 /\ outcome' = e

(* An exception leaves the constructor of a directory; `callers` are those around it.
   parseIFDEntry() catches all of them, gives up the other sub directories of that entry
   and makes it a plain one; the chain of the top ends with a TiffParserException only,
   any other takes the tree with it.                                                *)
Thrown(e, callers, left) ==
  /\ UNCHANGED ranges
  /\ IF callers # << >>
       THEN /\ tree' = left
            /\ stack' = Front(callers) \o << [Last(callers) EXCEPT !.subs = 0] >>
            /\ UNCHANGED << root, next, outcome >>
       ELSE /\ stack' = << >>
            /\ next' = 0
            /\ root' = 0
            /\ IF e = "TPE"
                 THEN outcome' = "ok" /\ tree' = left
                 ELSE outcome' = e /\ tree' = Without(left, root)

FullSize(entries) == 2 + 4 + 12 * entries

(* TiffParser::parse() up to its loop, `t` being the tree and `parent` the directory in it
   that the new root is to have above it, or 0:                                                                    *)
NoHeader(t, e) == outcome' = e /\ tree' = t /\ UNCHANGED << ranges, stack, root, next >>

Header(t, parent) ==
  LET above == Above(t, parent) IN
  IF ~HasRoom(t, above) THEN NoHeader(t, "TPE")
  ELSE /\ tree' = Append(Counted(t, parent, above), IFD(parent, above, Bytes(0, 0)))
       /\ next' \in Places \cup {0}
       /\ root' = IF next' = 0 THEN 0 ELSE Len(t) + 1
       /\ ranges' = << >>
       /\ outcome' = IF next' = 0 THEN "ok" ELSE "none"
       /\ UNCHANGED stack

(* The constructor of a directory, of the chain or a sub directory, up to its entries. *)
Construct(offset, entries) ==
  LET above == Above(tree, Innermost)
      counted == Counted(tree, Innermost, above)
      range == Bytes(offset, FullSize(entries))
  IN  /\ IF stack = << >> THEN offset = next ELSE Last(stack).subs > 0
      /\ IF ~HasRoom(tree, above) THEN Thrown("TPE", stack, tree)
         ELSE IF range.end > FileSize THEN Thrown("IOE", stack, counted)
         ELSE \E p \in 1 .. Len(ranges) + 1 :
           /\ IsPartitionPoint(ranges, range, p)
           /\ IF OverlapsExisting(ranges, range, p) THEN Thrown("TPE", stack, counted)
              ELSE /\ tree' = Append(counted, IFD(Innermost, above, range))
                   /\ ranges' = Inserted(ranges, range, p)
                   /\ stack' = Append(IF stack = << >> THEN << >>
                                        ELSE Top([Last(stack) EXCEPT !.subs = @ - 1]),
                                      Frame(Len(tree) + 1, entries))
                   /\ UNCHANGED << root, next, outcome >>

AtEntry == stack # << >> /\ Last(stack).subs = 0 /\ Last(stack).entries > 0

(* parseIFDEntry(): a plain entry, or one that lies outside of the file and is ignored; one
   with `n` offsets of sub directories, or a maker note; one of unknown type, whose
   exception leaves the directory.                                                  *)
PlainEntry ==
  /\ AtEntry
  /\ stack' = Top([Last(stack) EXCEPT !.entries = @ - 1])
  /\ UNCHANGED << tree, ranges, root, next, outcome >>

SubIFDsEntry(n) ==
  /\ AtEntry
  /\ stack' = Top([Last(stack) EXCEPT !.entries = @ - 1, !.subs = n])
  /\ UNCHANGED << tree, ranges, root, next, outcome >>

BadEntry ==
  /\ AtEntry
  /\ Thrown("TPE", Front(stack), Without(tree, Last(stack).ifd))

(* An offset that cannot be read, a maker note whose header is broken.               *)
BadOffset ==
  /\ stack # << >> /\ Last(stack).subs > 0
  /\ Thrown("IOE", stack, tree)

(* The entries are done: the directory is added to its parent.                       *)
Finish ==
  /\ stack # << >> /\ Last(stack).subs = 0 /\ Last(stack).entries = 0
  /\ stack' = Front(stack)
  /\ IF Len(stack) = 1
       THEN /\ next' \in Places \cup {0}
            /\ outcome' = IF next' = 0 THEN "ok" ELSE "none"
            /\ root' = IF next' = 0 THEN 0 ELSE root
       ELSE UNCHANGED << next, outcome, root >>
  /\ UNCHANGED << tree, ranges >>

TiffStep ==
  /\ outcome = "none" /\ root # 0
  /\ \/ \E offset \in Places, n \in 0 .. MaxEntries : Construct(offset, n)
     \/ PlainEntry
     \/ \E n \in 0 .. MaxSubs : SubIFDsEntry(n)
     \/ BadEntry
     \/ BadOffset
     \/ Finish
=============================================================================
