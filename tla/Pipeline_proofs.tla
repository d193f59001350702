---------------------------- MODULE Pipeline_proofs ----------------------------
(* What holds of the decoding of a file, from the parsers to the client that has the
   image, whatever is thrown on the way.  That of the parsers are PInv, the limits of the
   trees of directories and that no byte is in two of them, and PlacesInv: every step of
   RawParser keeps them, and no later step touches what they made.  That of the decoders
   is DecodingInv: what is still to be done is a sequence of steps, and each property
   needs to know of some of them whether they are among these, which of them comes first,
   and whether an exception finds the clause it is caught by; an invariant that speaks of
   the step at hand alone would not be kept. So the lemmas come in this order: the
   parsers; sequences of steps and what is in them; the sequences that the decoders and
   RawDecoder have; what an exception leaves of them; each part of DecodingInv, over a
   call, a step and an exception; the theorems. *)
EXTENDS Pipeline, FiniteSetTheorems, TLAPS

Extent == {r \in [begin : Nat, end : Nat] : r.begin <= r.end}

Dir == [parent : Nat, above : SUBSET Nat, range : Extent, count : Nat, recursive : Nat]
-----------------------------------------------------------------------------
(* Sequences. *)
LEMMA FrontOf ==
  ASSUME NEW S, NEW s \in Seq(S), s # << >>
  PROVE  /\ Front(s) \in Seq(S)
         /\ Len(s) \in Nat \ {0}
         /\ Len(Front(s)) = Len(s) - 1
         /\ \A k \in 1 .. Len(s) - 1 : Front(s)[k] = s[k]
         /\ Last(s) = s[Len(s)] /\ Last(s) \in S
<1>1. Len(s) \in Nat \ {0}
  OBVIOUS
<1>2. Front(s) = [k \in 1 .. Len(s) - 1 |-> s[k]]
  BY <1>1 DEF Front
<1>3. Front(s) \in Seq(S) /\ Len(Front(s)) = Len(s) - 1
  BY <1>1, <1>2
<1> QED BY <1>1, <1>2, <1>3 DEF Last

LEMMA TopOf ==
  ASSUME NEW S, NEW s \in Seq(S), s # << >>, NEW f \in S
  PROVE  /\ Front(s) \o << f >> \in Seq(S)
         /\ Len(Front(s) \o << f >>) = Len(s)
         /\ \A k \in 1 .. Len(s) - 1 : (Front(s) \o << f >>)[k] = s[k]
         /\ (Front(s) \o << f >>)[Len(s)] = f
<1> DEFINE t == Front(s)
<1>1. t \in Seq(S) /\ Len(t) = Len(s) - 1 /\ Len(s) \in Nat \ {0} /\ \A k \in 1 .. Len(s) - 1 : t[k] = s[k]
  BY FrontOf
<1> HIDE DEF t
<1>2. t \o << f >> \in Seq(S) /\ Len(t \o << f >>) = Len(s)
  BY <1>1
<1>3. \A k \in 1 .. Len(s) - 1 : (t \o << f >>)[k] = s[k]
  BY <1>1
<1>4. (t \o << f >>)[Len(s)] = f
  BY <1>1
<1> QED BY <1>2, <1>3, <1>4 DEF t

LEMMA AppendOf ==
  ASSUME NEW S, NEW s \in Seq(S), NEW f \in S
  PROVE  /\ Append(s, f) \in Seq(S) /\ Len(Append(s, f)) = Len(s) + 1 /\ Len(s) \in Nat
         /\ \A k \in 1 .. Len(s) : Append(s, f)[k] = s[k]
         /\ Append(s, f)[Len(s) + 1] = f
OBVIOUS

LEMMA Bounds == ASSUME NEW S, NEW s \in Seq(S) PROVE 0 \in 0 .. Len(s) /\ Len(s) \in 0 .. Len(s) /\ Len(s) \in Nat
OBVIOUS

LEMMA PrefixOf ==
  ASSUME NEW S, NEW s \in Seq(S), NEW n \in 0 .. Len(s)
  PROVE  /\ SubSeq(s, 1, n) \in Seq(S) /\ Len(SubSeq(s, 1, n)) = n
         /\ \A k \in 1 .. n : SubSeq(s, 1, n)[k] = s[k]
<1>1. Len(s) \in Nat /\ n \in Nat /\ n <= Len(s)
  OBVIOUS
<1>2. SubSeq(s, 1, n) = [k \in 1 .. n |-> s[k]]
  BY <1>1
<1> QED BY <1>1, <1>2
-----------------------------------------------------------------------------
(* Trees: what their directories count is kept by all that happens to them.        *)
Limited(t) ==
  \A i \in 1 .. Len(t) :
    /\ t[i].above \subseteq 1 .. i - 1
    /\ t[i].parent \in {0} \cup t[i].above
    /\ Cardinality(SubIFDs(t, i)) <= t[i].count /\ Cardinality(Below(t, i)) <= t[i].recursive
    /\ t[i].count <= SubIFDCount /\ t[i].recursive <= RecursiveSubIFDCount
    /\ Cardinality(t[i].above) <= Depth

LEMMA AtMost ==
  ASSUME NEW a \in Nat, NEW b \in Nat, NEW c \in Nat, a <= b, b <= c PROVE a <= c
OBVIOUS

LEMMA FewDirectories ==
  ASSUME NEW t \in Seq(Dir), NEW i
  PROVE  /\ IsFiniteSet(SubIFDs(t, i)) /\ Cardinality(SubIFDs(t, i)) \in Nat
         /\ IsFiniteSet(Below(t, i)) /\ Cardinality(Below(t, i)) \in Nat
<1>1. Len(t) \in Nat /\ IsFiniteSet(1 .. Len(t))
  BY FS_Interval
<1>2. SubIFDs(t, i) \subseteq 1 .. Len(t) /\ Below(t, i) \subseteq 1 .. Len(t)
  BY DEF SubIFDs, Below
<1> QED BY <1>1, <1>2, FS_Subset, FS_CardinalityType

LEMMA PrefixLimited ==
  ASSUME NEW t \in Seq(Dir), Limited(t), NEW n \in 0 .. Len(t)
  PROVE  SubSeq(t, 1, n) \in Seq(Dir) /\ Len(SubSeq(t, 1, n)) = n /\ Limited(SubSeq(t, 1, n))
<1> DEFINE u == SubSeq(t, 1, n)
<1>1. u \in Seq(Dir) /\ Len(u) = n /\ \A k \in 1 .. n : u[k] = t[k]
  BY PrefixOf
<1>2. Len(t) \in Nat /\ n \in Nat /\ n <= Len(t)
  OBVIOUS
<1> HIDE DEF u
<1>3. ASSUME NEW i \in 1 .. n
      PROVE  /\ Cardinality(SubIFDs(u, i)) <= Cardinality(SubIFDs(t, i))
             /\ Cardinality(Below(u, i)) <= Cardinality(Below(t, i))
  <2>1. SubIFDs(u, i) \subseteq SubIFDs(t, i)
    BY <1>1, <1>2 DEF SubIFDs
  <2>2. Below(u, i) \subseteq Below(t, i)
    BY <1>1, <1>2 DEF Below
  <2> QED BY <2>1, <2>2, FewDirectories, FS_Subset
<1>4. ASSUME NEW i \in 1 .. n
      PROVE  /\ u[i] = t[i] /\ t[i] \in Dir /\ i \in 1 .. Len(t)
             /\ Cardinality(SubIFDs(u, i)) \in Nat /\ Cardinality(Below(u, i)) \in Nat
             /\ Cardinality(SubIFDs(t, i)) \in Nat /\ Cardinality(Below(t, i)) \in Nat
  BY <1>1, <1>2, FewDirectories
<1>5. ASSUME NEW i \in 1 .. n
      PROVE  /\ u[i].above \subseteq 1 .. i - 1
             /\ u[i].parent \in {0} \cup u[i].above
             /\ Cardinality(SubIFDs(u, i)) <= u[i].count /\ Cardinality(Below(u, i)) <= u[i].recursive
             /\ u[i].count <= SubIFDCount /\ u[i].recursive <= RecursiveSubIFDCount
             /\ Cardinality(u[i].above) <= Depth
  <2>1. /\ t[i].above \subseteq 1 .. i - 1
        /\ t[i].parent \in {0} \cup t[i].above
        /\ Cardinality(SubIFDs(t, i)) <= t[i].count /\ Cardinality(Below(t, i)) <= t[i].recursive
        /\ t[i].count <= SubIFDCount /\ t[i].recursive <= RecursiveSubIFDCount
        /\ Cardinality(t[i].above) <= Depth
    BY <1>4 DEF Limited
  <2>2. t[i].count \in Nat /\ t[i].recursive \in Nat
    BY <1>4 DEF Dir
  <2>3. Cardinality(SubIFDs(u, i)) <= t[i].count
    BY <2>1, <2>2, <1>3, <1>4, AtMost, Zenon
  <2>4. Cardinality(Below(u, i)) <= t[i].recursive
    BY <2>1, <2>2, <1>3, <1>4, AtMost, Zenon
  <2> QED BY <2>1, <2>3, <2>4, <1>4
<1> QED BY <1>1, <1>5 DEF Limited, u

LEMMA AboveOf ==
  ASSUME NEW t \in Seq(Dir), Limited(t), NEW parent \in 0 .. Len(t)
  PROVE  /\ Above(t, parent) \subseteq 1 .. Len(t)
         /\ parent \in {0} \cup Above(t, parent)
         /\ IsFiniteSet(Above(t, parent)) /\ Cardinality(Above(t, parent)) \in Nat
<1>1. Len(t) \in Nat
  OBVIOUS
<1>2. Above(t, parent) \subseteq 1 .. Len(t) /\ parent \in {0} \cup Above(t, parent)
  <2>1. CASE parent = 0
    BY <2>1 DEF Above
  <2>2. CASE parent \in 1 .. Len(t)
    <3>1. t[parent].above \subseteq 1 .. parent - 1
      BY <2>2 DEF Limited
    <3>2. 1 .. parent - 1 \subseteq 1 .. Len(t)
      BY <2>2, <1>1
    <3> QED BY <2>2, <3>1, <3>2, <1>1 DEF Above
  <2> QED BY <2>1, <2>2, <1>1
<1>3. IsFiniteSet(1 .. Len(t))
  BY <1>1, FS_Interval
<1> QED BY <1>2, <1>3, FS_Subset, FS_CardinalityType

LEMMA CountedLimited ==
  ASSUME NEW t \in Seq(Dir), Limited(t), NEW parent \in 0 .. Len(t), HasRoom(t, Above(t, parent))
  PROVE  LET u == Counted(t, parent, Above(t, parent)) IN
         /\ u \in Seq(Dir) /\ Len(u) = Len(t) /\ Limited(u)
         /\ \A i \in 1 .. Len(t) : u[i].parent = t[i].parent /\ u[i].above = t[i].above /\ u[i].range = t[i].range
<1> DEFINE above == Above(t, parent)
           u == Counted(t, parent, above)
<1>1. Len(t) \in Nat /\ above \subseteq 1 .. Len(t) /\ parent \in {0} \cup above
  BY AboveOf
<1>2. \A i \in 1 .. Len(t) : t[i] \in Dir
  OBVIOUS
<1>3. /\ DOMAIN u = 1 .. Len(t)
      /\ \A i \in 1 .. Len(t) :
           u[i] = [t[i] EXCEPT !.count = IF i = parent THEN @ + 1 ELSE @,
                               !.recursive = IF i \in above THEN @ + 1 ELSE @]
  BY DEF Counted
<1>4. u = [i \in 1 .. Len(t) |-> u[i]]
  BY DEF Counted
<1> HIDE DEF above
<1>5. ASSUME NEW i \in 1 .. Len(t)
      PROVE  /\ u[i] \in Dir
             /\ u[i].parent = t[i].parent /\ u[i].above = t[i].above /\ u[i].range = t[i].range
             /\ u[i].count = IF i = parent THEN t[i].count + 1 ELSE t[i].count
             /\ u[i].recursive = IF i \in above THEN t[i].recursive + 1 ELSE t[i].recursive
  <2> DEFINE count == IF i = parent THEN t[i].count + 1 ELSE t[i].count
             recursive == IF i \in above THEN t[i].recursive + 1 ELSE t[i].recursive
  <2>1. t[i].count \in Nat /\ t[i].recursive \in Nat /\ t[i] \in Dir
    BY <1>2 DEF Dir
  <2>2. count \in Nat /\ recursive \in Nat
    BY <2>1
  <2>3. u[i] = [t[i] EXCEPT !.count = count, !.recursive = recursive]
    BY <1>3
  <2> HIDE DEF u, count, recursive
  <2>4. u[i] \in Dir /\ u[i].parent = t[i].parent /\ u[i].above = t[i].above /\ u[i].range = t[i].range
        /\ u[i].count = count /\ u[i].recursive = recursive
    BY <2>1, <2>2, <2>3 DEF Dir
  <2> QED BY <2>4 DEF count, recursive
<1> HIDE DEF u
<1>6. u \in Seq(Dir) /\ Len(u) = Len(t)
  BY <1>1, <1>4, <1>5
<1>7. \A i \in above : t[i].count < SubIFDCount /\ t[i].recursive < RecursiveSubIFDCount
  BY DEF HasRoom, above
<1>8. ASSUME NEW i \in 1 .. Len(t)
      PROVE  /\ u[i].count <= SubIFDCount /\ u[i].recursive <= RecursiveSubIFDCount
             /\ t[i].count <= u[i].count /\ t[i].recursive <= u[i].recursive
  <2>1. t[i].count \in Nat /\ t[i].recursive \in Nat
    BY <1>2 DEF Dir
  <2>2. t[i].count <= SubIFDCount /\ t[i].recursive <= RecursiveSubIFDCount
    BY DEF Limited
  <2>3. i = parent => i \in above
    BY <1>1
  <2> QED BY <1>5, <1>7, <2>1, <2>2, <2>3, LimitsAssumption
<1>9. \A i : SubIFDs(u, i) = SubIFDs(t, i) /\ Below(u, i) = Below(t, i)
  BY <1>5, <1>6 DEF SubIFDs, Below
<1>10. Limited(u)
  <2> SUFFICES ASSUME NEW i \in 1 .. Len(t)
               PROVE  /\ u[i].above \subseteq 1 .. i - 1
                      /\ u[i].parent \in {0} \cup u[i].above
                      /\ Cardinality(SubIFDs(t, i)) <= u[i].count /\ Cardinality(Below(t, i)) <= u[i].recursive
                      /\ u[i].count <= SubIFDCount /\ u[i].recursive <= RecursiveSubIFDCount
                      /\ Cardinality(u[i].above) <= Depth
    BY <1>6, <1>9 DEF Limited
  <2>1. /\ t[i].above \subseteq 1 .. i - 1
        /\ t[i].parent \in {0} \cup t[i].above
        /\ Cardinality(SubIFDs(t, i)) <= t[i].count /\ Cardinality(Below(t, i)) <= t[i].recursive
        /\ Cardinality(t[i].above) <= Depth
    BY DEF Limited
  <2>2. Cardinality(SubIFDs(t, i)) \in Nat /\ Cardinality(Below(t, i)) \in Nat
    BY FewDirectories
  <2>3. t[i].count \in Nat /\ t[i].recursive \in Nat /\ u[i].count \in Nat /\ u[i].recursive \in Nat
    BY <1>2, <1>5 DEF Dir
  <2>4. Cardinality(SubIFDs(t, i)) <= u[i].count
    BY <1>8, <2>1, <2>2, <2>3, AtMost, Zenon
  <2>5. Cardinality(Below(t, i)) <= u[i].recursive
    BY <1>8, <2>1, <2>2, <2>3, AtMost, Zenon
  <2> QED BY <1>5, <1>8, <2>1, <2>4, <2>5
<1> QED BY <1>5, <1>6, <1>10 DEF u, above

(* A new directory: the last of the tree, with nothing below it yet.                 *)
LEMMA AppendLimited ==
  ASSUME NEW t \in Seq(Dir), Limited(t), NEW parent \in 0 .. Len(t), HasRoom(t, Above(t, parent)),
         NEW range \in Extent
  PROVE  LET u == Append(Counted(t, parent, Above(t, parent)), IFD(parent, Above(t, parent), range)) IN
         /\ u \in Seq(Dir) /\ Len(u) = Len(t) + 1 /\ Limited(u)
         /\ \A i \in 1 .. Len(t) : u[i].parent = t[i].parent /\ u[i].above = t[i].above /\ u[i].range = t[i].range
         /\ u[Len(t) + 1].parent = parent /\ u[Len(t) + 1].above = Above(t, parent)
         /\ u[Len(t) + 1].range = range
<1> DEFINE above == Above(t, parent)
           c == Counted(t, parent, above)
           d == IFD(parent, above, range)
           n == Len(t) + 1
           u == Append(c, d)
<1>1. Len(t) \in Nat /\ above \subseteq 1 .. Len(t) /\ parent \in {0} \cup above /\ Cardinality(above) <= Depth
  BY AboveOf DEF HasRoom
<1>2. /\ c \in Seq(Dir) /\ Len(c) = Len(t) /\ Limited(c)
      /\ \A i \in 1 .. Len(t) : c[i].parent = t[i].parent /\ c[i].above = t[i].above /\ c[i].range = t[i].range
  BY CountedLimited
<1>3. \A i \in 1 .. Len(t) : /\ (i = parent => c[i].count = t[i].count + 1)
                             /\ (i # parent => c[i].count = t[i].count)
                             /\ (i \in above => c[i].recursive = t[i].recursive + 1)
                             /\ (i \notin above => c[i].recursive = t[i].recursive)
                             /\ c[i] \in Dir /\ t[i] \in Dir
  <2> SUFFICES ASSUME NEW i \in 1 .. Len(t)
               PROVE  /\ (i = parent => c[i].count = t[i].count + 1)
                      /\ (i # parent => c[i].count = t[i].count)
                      /\ (i \in above => c[i].recursive = t[i].recursive + 1)
                      /\ (i \notin above => c[i].recursive = t[i].recursive)
                      /\ c[i] \in Dir /\ t[i] \in Dir
    OBVIOUS
  <2>1. c[i] = [t[i] EXCEPT !.count = IF i = parent THEN @ + 1 ELSE @,
                            !.recursive = IF i \in above THEN @ + 1 ELSE @]
    BY DEF Counted
  <2>2. c[i] \in Dir /\ t[i] \in Dir
    BY <1>2
  <2> HIDE DEF c, above
  <2> QED BY <2>1, <2>2 DEF Dir
<1>4. d \in Dir /\ d.count = 0 /\ d.recursive = 0 /\ d.parent = parent /\ d.above = above /\ d.range = range
  BY <1>1 DEF IFD, Dir
<1> HIDE DEF above, c, d
<1>5. /\ u \in Seq(Dir) /\ Len(u) = n /\ u[n] = d
      /\ \A i \in 1 .. Len(t) : u[i] = c[i]
  BY <1>2, <1>4, AppendOf
<1> HIDE DEF u
<1>6. /\ \A k \in 1 .. Len(t) : u[k].parent = t[k].parent /\ u[k].above = t[k].above /\ u[k].range = t[k].range
                                /\ u[k].count = c[k].count /\ u[k].recursive = c[k].recursive
      /\ u[n].parent = parent /\ u[n].above = above /\ u[n].count = 0 /\ u[n].recursive = 0
  BY <1>2, <1>4, <1>5
<1>7. 1 .. Len(u) = (1 .. Len(t)) \cup {n} /\ n \notin 1 .. Len(t) /\ n - 1 = Len(t) /\ n \in Nat
  BY <1>1, <1>5
<1> HIDE DEF n
<1>8. ASSUME NEW i \in 1 .. Len(t)
      PROVE  Cardinality(SubIFDs(u, i)) <= u[i].count /\ Cardinality(Below(u, i)) <= u[i].recursive
  <2>1. /\ Cardinality(SubIFDs(t, i)) <= t[i].count /\ Cardinality(Below(t, i)) <= t[i].recursive
        /\ Cardinality(SubIFDs(t, i)) \in Nat /\ Cardinality(Below(t, i)) \in Nat
        /\ t[i].count \in Nat /\ t[i].recursive \in Nat
    BY <1>3, FewDirectories DEF Limited, Dir
  <2>2. n \notin SubIFDs(t, i) /\ n \notin Below(t, i)
    BY <1>7 DEF SubIFDs, Below
  <2>3. Cardinality(SubIFDs(u, i)) <= u[i].count
    <3>1. CASE i = parent
      <4>1. SubIFDs(u, i) = SubIFDs(t, i) \cup {n}
        BY <1>6, <1>7, <3>1 DEF SubIFDs
      <4>2. Cardinality(SubIFDs(u, i)) = Cardinality(SubIFDs(t, i)) + 1
        BY <4>1, <2>2, FewDirectories, FS_AddElement
      <4>3. u[i].count = t[i].count + 1
        BY <1>3, <1>6, <3>1
      <4> QED BY <4>2, <4>3, <2>1
    <3>2. CASE i # parent
      <4>1. SubIFDs(u, i) = SubIFDs(t, i)
        BY <1>6, <1>7, <3>2 DEF SubIFDs
      <4> QED BY <4>1, <2>1, <3>2, <1>3, <1>6
    <3> QED BY <3>1, <3>2
  <2>4. Cardinality(Below(u, i)) <= u[i].recursive
    <3>1. CASE i \in above
      <4>1. Below(u, i) = Below(t, i) \cup {n}
        BY <1>6, <1>7, <3>1 DEF Below
      <4>2. Cardinality(Below(u, i)) = Cardinality(Below(t, i)) + 1
        BY <4>1, <2>2, FewDirectories, FS_AddElement
      <4>3. u[i].recursive = t[i].recursive + 1
        BY <1>3, <1>6, <3>1
      <4> QED BY <4>2, <4>3, <2>1
    <3>2. CASE i \notin above
      <4>1. Below(u, i) = Below(t, i)
        BY <1>6, <1>7, <3>2 DEF Below
      <4> QED BY <4>1, <2>1, <3>2, <1>3, <1>6
    <3> QED BY <3>1, <3>2
  <2> QED BY <2>3, <2>4
<1>9. Cardinality(SubIFDs(u, n)) = 0 /\ Cardinality(Below(u, n)) = 0
  <2>1. ASSUME NEW k \in 1 .. Len(t) PROVE u[k].parent # n /\ n \notin u[k].above
    <3>1. t[k].above \subseteq 1 .. k - 1 /\ t[k].parent \in {0} \cup t[k].above
      BY DEF Limited
    <3>2. n \notin 1 .. k - 1 /\ n # 0
      BY <1>1, <1>7
    <3> QED BY <3>1, <3>2, <1>6
  <2>2. u[n].parent # n /\ n \notin u[n].above
    BY <1>1, <1>6, <1>7
  <2>3. SubIFDs(u, n) = {} /\ Below(u, n) = {}
    BY <1>7, <2>1, <2>2 DEF SubIFDs, Below
  <2> QED BY <2>3, FS_EmptySet
<1>10. Limited(u)
  <2> SUFFICES ASSUME NEW i \in 1 .. Len(u)
               PROVE  /\ u[i].above \subseteq 1 .. i - 1
                      /\ u[i].parent \in {0} \cup u[i].above
                      /\ Cardinality(SubIFDs(u, i)) <= u[i].count /\ Cardinality(Below(u, i)) <= u[i].recursive
                      /\ u[i].count <= SubIFDCount /\ u[i].recursive <= RecursiveSubIFDCount
                      /\ Cardinality(u[i].above) <= Depth
    BY DEF Limited
  <2>1. CASE i \in 1 .. Len(t)
    <3>1. /\ c[i].above \subseteq 1 .. i - 1 /\ c[i].parent \in {0} \cup c[i].above
          /\ c[i].count <= SubIFDCount /\ c[i].recursive <= RecursiveSubIFDCount
          /\ Cardinality(c[i].above) <= Depth
      BY <1>2, <2>1 DEF Limited
    <3> QED BY <2>1, <3>1, <1>2, <1>6, <1>8
  <2>2. CASE i = n
    <3>1. u[i].above \subseteq 1 .. i - 1 /\ u[i].parent \in {0} \cup u[i].above /\ Cardinality(u[i].above) <= Depth
      BY <2>2, <1>1, <1>6, <1>7
    <3>2. 0 <= SubIFDCount /\ 0 <= RecursiveSubIFDCount
      BY LimitsAssumption
    <3> QED BY <2>2, <3>1, <3>2, <1>6, <1>9
  <2> QED BY <2>1, <2>2, <1>7
<1> QED BY <1>2, <1>4, <1>5, <1>10 DEF u, c, d, above, n
-----------------------------------------------------------------------------
(* NORangesSet.  As the ranges in it are apart, each of them is before the neighbours of the
   new one or after them.                                                            *)
Disjoint(r, s) == r.end <= s.begin \/ s.end <= r.begin

LEMMA InsertApart ==
  ASSUME NEW elts \in Seq(Extent), Apart(elts), NEW r \in Extent, NEW p,
         IsPartitionPoint(elts, r, p), ~OverlapsExisting(elts, r, p)
  PROVE  /\ Inserted(elts, r, p) \in Seq(Extent) /\ Apart(Inserted(elts, r, p))
         /\ Len(Inserted(elts, r, p)) = Len(elts) + 1
         /\ \A k \in 1 .. Len(elts) : Disjoint(elts[k], r)
         /\ \A k \in 1 .. Len(elts) : \E m \in 1 .. Len(elts) + 1 : Inserted(elts, r, p)[m] = elts[k]
         /\ \A m \in 1 .. Len(elts) + 1 :
              Inserted(elts, r, p)[m] = r \/ \E k \in 1 .. Len(elts) : Inserted(elts, r, p)[m] = elts[k]
         /\ \E m \in 1 .. Len(elts) + 1 : Inserted(elts, r, p)[m] = r
<1> DEFINE n == Len(elts)
           new == Inserted(elts, r, p)
<1>1. n \in Nat /\ p \in 1 .. n + 1
  BY DEF IsPartitionPoint
<1>2. \A k \in 1 .. n : elts[k] \in Extent /\ elts[k].begin \in Nat /\ elts[k].end \in Nat
                        /\ elts[k].begin <= elts[k].end
  BY DEF Extent
<1>3. r.begin \in Nat /\ r.end \in Nat /\ r.begin <= r.end
  BY DEF Extent
<1>4. \A i, k \in 1 .. n : i < k => elts[i].begin < elts[k].begin /\ elts[i].end <= elts[k].begin
  BY DEF Apart
<1>5. /\ DOMAIN new = 1 .. n + 1
      /\ \A i \in 1 .. n + 1 : /\ (i < p => new[i] = elts[i])
                               /\ (i = p => new[i] = r)
                               /\ (i > p => new[i] = elts[i - 1])
  BY <1>1 DEF Inserted
<1>6. new = [i \in 1 .. n + 1 |-> new[i]]
  BY DEF Inserted
<1>7. ASSUME NEW i \in 1 .. n, i < p PROVE elts[i].begin < r.begin /\ elts[i].end <= r.begin
  <2>1. p - 1 \in 1 .. n
    BY <1>1, <1>7
  <2>2. elts[p - 1].begin <= r.begin
    <3>1. p - 1 \in 1 .. p - 1
      BY <2>1
    <3>2. Less(elts[p - 1], r)
      BY <3>1 DEF IsPartitionPoint
    <3> QED BY <3>2, <2>1, <1>2, <1>3 DEF Less
  <2>3. ~RangesOverlap(r, elts[p - 1])
    BY <1>1, <2>1 DEF OverlapsExisting
  <2>4. elts[p - 1].begin < r.begin /\ elts[p - 1].end <= r.begin
    BY <2>1, <2>2, <2>3, <1>2, <1>3 DEF RangesOverlap, RangeContains
  <2>5. CASE i = p - 1
    BY <2>4, <2>5
  <2>6. CASE i < p - 1
    <3>1. elts[i].begin < elts[p - 1].begin /\ elts[i].end <= elts[p - 1].begin
      BY <2>1, <2>6, <1>4
    <3>2. elts[i].begin \in Nat /\ elts[i].end \in Nat /\ elts[p - 1].begin \in Nat
      BY <2>1, <1>2
    <3> QED BY <3>1, <3>2, <2>4, <1>3
  <2> QED BY <2>5, <2>6, <1>1, <1>7
<1>8. ASSUME NEW i \in 1 .. n, p <= i PROVE r.begin < elts[i].begin /\ r.end <= elts[i].begin
  <2>1. p \in 1 .. n
    BY <1>1, <1>8
  <2>2. r.begin <= elts[p].begin
    <3>1. p \in p .. n
      BY <2>1
    <3>2. ~Less(elts[p], r)
      BY <3>1 DEF IsPartitionPoint
    <3> QED BY <3>2, <2>1, <1>2, <1>3 DEF Less
  <2>3. ~RangesOverlap(r, elts[p])
    BY <1>1, <2>1 DEF OverlapsExisting
  <2>4. r.begin < elts[p].begin /\ r.end <= elts[p].begin
    BY <2>1, <2>2, <2>3, <1>2, <1>3 DEF RangesOverlap, RangeContains
  <2>5. CASE i = p
    BY <2>4, <2>5
  <2>6. CASE p < i
    <3>1. elts[p].begin < elts[i].begin
      BY <2>1, <2>6, <1>4
    <3>2. elts[i].begin \in Nat /\ elts[p].begin \in Nat
      BY <2>1, <1>2
    <3> QED BY <3>1, <3>2, <2>4, <1>3
  <2> QED BY <2>5, <2>6, <1>1, <1>8
<1> HIDE DEF new
<1>9. \A i \in 1 .. n + 1 : new[i] \in Extent
  <2> SUFFICES ASSUME NEW i \in 1 .. n + 1 PROVE new[i] \in Extent
    OBVIOUS
  <2>1. CASE i < p
    BY <2>1, <1>1, <1>2, <1>5
  <2>2. CASE i = p
    BY <2>2, <1>5
  <2>3. CASE i > p
    BY <2>3, <1>1, <1>2, <1>5
  <2> QED BY <2>1, <2>2, <2>3, <1>1
<1>10. new \in Seq(Extent) /\ Len(new) = n + 1
  BY <1>1, <1>6, <1>9
<1>11. ASSUME NEW i \in 1 .. n + 1, NEW k \in 1 .. n + 1, i < k
       PROVE  new[i].begin < new[k].begin /\ new[i].end <= new[k].begin
  <2>1. CASE i < p /\ k < p
    BY <2>1, <1>1, <1>4, <1>5, <1>11
  <2>2. CASE i < p /\ k = p
    BY <2>2, <1>1, <1>5, <1>7
  <2>3. CASE i < p /\ k > p
    <3>1. i \in 1 .. n /\ k - 1 \in 1 .. n /\ i < k - 1
      BY <2>3, <1>1
    <3> QED BY <3>1, <2>3, <1>4, <1>5
  <2>4. CASE i = p
    <3>1. k - 1 \in 1 .. n /\ p <= k - 1 /\ k > p
      BY <2>4, <1>1, <1>11
    <3> QED BY <3>1, <2>4, <1>5, <1>8
  <2>5. CASE i > p
    <3>1. k - 1 \in 1 .. n /\ i - 1 \in 1 .. n /\ i - 1 < k - 1 /\ k > p
      BY <2>5, <1>1, <1>11
    <3> QED BY <3>1, <2>5, <1>4, <1>5
  <2> QED BY <2>1, <2>2, <2>3, <2>4, <2>5, <1>1, <1>11
<1>12. ASSUME NEW k \in 1 .. n PROVE Disjoint(elts[k], r)
  BY <1>1, <1>7, <1>8, <1>12 DEF Disjoint
<1>13. ASSUME NEW k \in 1 .. n PROVE \E m \in 1 .. n + 1 : new[m] = elts[k]
  <2>1. CASE k < p
    BY <2>1, <1>1, <1>5
  <2>2. CASE p <= k
    <3>1. k + 1 \in 1 .. n + 1 /\ k + 1 > p /\ k + 1 - 1 = k
      BY <2>2, <1>1
    <3> QED BY <3>1, <1>5
  <2> QED BY <2>1, <2>2, <1>1
<1>14. ASSUME NEW m \in 1 .. n + 1 PROVE new[m] = r \/ \E k \in 1 .. n : new[m] = elts[k]
  <2>1. CASE m < p
    BY <2>1, <1>1, <1>5
  <2>2. CASE m = p
    BY <2>2, <1>5
  <2>3. CASE m > p
    <3>1. m - 1 \in 1 .. n
      BY <2>3, <1>1
    <3> QED BY <3>1, <2>3, <1>5
  <2> QED BY <2>1, <2>2, <2>3, <1>1
<1>15. \E m \in 1 .. n + 1 : new[m] = r
  BY <1>1, <1>5
<1>16. Apart(new)
  BY <1>10, <1>11 DEF Apart
<1> QED BY <1>10, <1>12, <1>13, <1>14, <1>15, <1>16 DEF new
-----------------------------------------------------------------------------
(* Directories under construction: each was constructed after those around it.       *)
TFrame == [ifd : Nat, entries : Int, subs : Int]

Builds(s, low, n) ==
  \A k \in 1 .. Len(s) :
    /\ s[k].ifd \in Nat /\ low < s[k].ifd /\ s[k].ifd <= n
    /\ \A j \in 1 .. Len(s) : j < k => s[j].ifd < s[k].ifd

LEMMA BuildsFront ==
  ASSUME NEW S, NEW s \in Seq(S), s # << >>, NEW low \in Nat, NEW n \in Nat, Builds(s, low, n)
  PROVE  /\ Builds(Front(s), low, Last(s).ifd - 1)
         /\ Last(s).ifd \in Nat /\ low < Last(s).ifd /\ Last(s).ifd <= n
         /\ Builds(Front(s), low, n)
<1> DEFINE t == Front(s)
           last == Last(s).ifd
<1>1. /\ t \in Seq(S) /\ Len(s) \in Nat \ {0} /\ Len(t) = Len(s) - 1
      /\ \A k \in 1 .. Len(s) - 1 : t[k] = s[k]
      /\ Last(s) = s[Len(s)]
  BY FrontOf
<1>2. last \in Nat /\ low < last /\ last <= n
  BY <1>1 DEF Builds
<1> HIDE DEF t
<1>3. ASSUME NEW k \in 1 .. Len(t)
      PROVE  /\ t[k].ifd \in Nat /\ low < t[k].ifd /\ t[k].ifd <= n /\ t[k].ifd < last
             /\ \A j \in 1 .. Len(t) : j < k => t[j].ifd < t[k].ifd
  <2>1. k \in 1 .. Len(s) /\ k < Len(s) /\ t[k] = s[k] /\ Len(s) \in 1 .. Len(s)
    BY <1>1
  <2>2. s[k].ifd \in Nat /\ low < s[k].ifd /\ s[k].ifd <= n /\ s[k].ifd < last
    BY <2>1, <1>1 DEF Builds
  <2>3. ASSUME NEW j \in 1 .. Len(t), j < k PROVE t[j].ifd < t[k].ifd
    <3>1. j \in 1 .. Len(s) /\ t[j] = s[j]
      BY <1>1
    <3> QED BY <3>1, <2>1, <2>3 DEF Builds
  <2> QED BY <2>1, <2>2, <2>3
<1> HIDE DEF last
<1>4. ASSUME NEW a \in Nat, a < last PROVE a <= last - 1
  BY <1>2, <1>4
<1>5. Builds(t, low, last - 1)
  BY <1>3, <1>4 DEF Builds
<1>6. Builds(t, low, n)
  BY <1>3 DEF Builds
<1> QED BY <1>2, <1>5, <1>6 DEF t, last

LEMMA BuildsTop ==
  ASSUME NEW S, NEW s \in Seq(S), s # << >>, NEW low \in Nat, NEW n \in Nat, Builds(s, low, n),
         NEW f \in S, f.ifd = Last(s).ifd
  PROVE  Builds(Front(s) \o << f >>, low, n)
<1> DEFINE t == Front(s) \o << f >>
<1>1. Len(s) \in Nat \ {0} /\ Last(s) = s[Len(s)]
  BY FrontOf
<1>2. /\ t \in Seq(S) /\ Len(t) = Len(s) /\ t[Len(s)] = f
      /\ \A k \in 1 .. Len(s) - 1 : t[k] = s[k]
  BY TopOf
<1> HIDE DEF t
<1>3. \A k \in 1 .. Len(s) : t[k].ifd = s[k].ifd
  BY <1>1, <1>2
<1>4. Builds(t, low, n)
  BY <1>2, <1>3 DEF Builds
<1> QED BY <1>4 DEF t

LEMMA BuildsAppend ==
  ASSUME NEW S, NEW s \in Seq(S), NEW low \in Nat, NEW n \in Nat, low <= n, Builds(s, low, n),
         NEW f \in S, f.ifd = n + 1
  PROVE  Builds(Append(s, f), low, n + 1)
<1> DEFINE t == Append(s, f)
           m == Len(s) + 1
<1>1. /\ t \in Seq(S) /\ Len(t) = m /\ Len(s) \in Nat /\ t[m] = f
      /\ \A k \in 1 .. Len(s) : t[k] = s[k]
  BY AppendOf
<1> HIDE DEF t
<1>2. \A k \in 1 .. m : k \in 1 .. Len(s) \/ k = m
  BY <1>1
<1>3. \A k \in 1 .. Len(s) : t[k] = s[k] /\ s[k].ifd \in Nat /\ low < s[k].ifd /\ s[k].ifd <= n /\ s[k].ifd < n + 1
                             /\ k < m
  BY <1>1 DEF Builds
<1>4. t[m].ifd \in Nat /\ low < t[m].ifd /\ t[m].ifd <= n + 1 /\ t[m].ifd = n + 1
  BY <1>1
<1>5. ASSUME NEW k \in 1 .. m
      PROVE  t[k].ifd \in Nat /\ low < t[k].ifd /\ t[k].ifd <= n + 1
  BY <1>2, <1>3, <1>4
<1>6. ASSUME NEW k \in 1 .. m, NEW j \in 1 .. m, j < k PROVE t[j].ifd < t[k].ifd
  <2>1. j \in 1 .. Len(s)
    BY <1>1, <1>6
  <2>2. CASE k \in 1 .. Len(s)
    BY <2>1, <2>2, <1>3, <1>6 DEF Builds
  <2>3. CASE k = m
    BY <2>1, <2>3, <1>3, <1>4
  <2> QED BY <2>2, <2>3, <1>2
<1>7. Builds(t, low, n + 1)
  BY <1>1, <1>5, <1>6 DEF Builds
<1> QED BY <1>7 DEF t

LEMMA BuildsMore ==
  ASSUME NEW S, NEW s \in Seq(S), NEW low \in Nat, NEW n \in Nat, NEW m \in Nat, n <= m, Builds(s, low, n)
  PROVE  Builds(s, low, m)
BY DEF Builds
-----------------------------------------------------------------------------
(* CIFF: where the directories of a file under construction are.  Of each of them, `f` is the
   frame and `vals` its values: all that was constructed below it lies within one of those
   or among its entries up to the place of the next.                                 *)
CFrame == [ifd : Nat, entries : Nat, area : Extent, place : Nat]

Located(r, f, vals) ==
  \/ \E v \in 1 .. Len(vals) : Within(r, vals[v])
  \/ f.area.end + 2 <= r.begin /\ r.end <= f.place

FrameOK(d, f, vals) ==
  /\ d.begin <= f.area.begin /\ f.area.end + 2 <= f.place /\ f.place + EntrySize * f.entries <= d.end
  /\ Apart(vals) /\ \A v \in 1 .. Len(vals) : Within(vals[v], f.area)

Chain(t, s, vals) ==
  /\ s \in Seq(CFrame) /\ vals \in Seq(Seq(Extent)) /\ Len(vals) = Len(s)
  /\ Builds(s, 0, Len(t))
  /\ \A j \in 1 .. Len(s) :
       /\ FrameOK(t[s[j].ifd].range, s[j], vals[j])
       /\ \A i \in 1 .. Len(t) : s[j].ifd < i => Located(t[i].range, s[j], vals[j])

Nested(t) ==
  \A i, k \in 1 .. Len(t) : i < k =>
    IF i \in t[k].above THEN Within(t[k].range, t[i].range) /\ t[k].range # t[i].range
    ELSE Disjoint(t[i].range, t[k].range)

CiffInv ==
  /\ Chain(tree, stack, values)
  /\ Nested(tree)
  /\ outcome # "none" => values = << >>
-----------------------------------------------------------------------------
(* The invariant of the parsers.                                                    *)
TiffAt == {"mrw", "fiff", "fiff second", "tiff"}

PInv ==
  /\ tree \in Seq(Dir) /\ Limited(tree)
  /\ ranges \in Seq(Extent) /\ Apart(ranges)
  /\ root \in 0 .. Len(tree)
  /\ root # 0 => outcome = "none" /\ at \in TiffAt
  /\ at # "ciff" => /\ values = << >> /\ stack \in Seq(TFrame) /\ Builds(stack, root, Len(tree))
                    /\ (root = 0 => stack = << >>)
  /\ at = "ciff" => CiffInv
  /\ at = "fiff" /\ outcome = "ok" => tree # << >>
  /\ at = "fiff second" /\ outcome = "none" => tree # << >>
  /\ at = "size" => outcome = "none"

LEMMA NothingYet ==
  /\ << >> \in Seq(Dir) /\ Limited(<< >>) /\ Nested(<< >>) /\ Chain(<< >>, << >>, << >>)
  /\ << >> \in Seq(Extent) /\ Apart(<< >>)
  /\ << >> \in Seq(TFrame) /\ \A low, n : Builds(<< >>, low, n)
<1>1. << >> \in Seq(Dir) /\ << >> \in Seq(Extent) /\ << >> \in Seq(TFrame) /\ << >> \in Seq(CFrame)
      /\ << >> \in Seq(Seq(Extent)) /\ Len(<< >>) = 0 /\ 1 .. 0 = {}
  OBVIOUS
<1> QED BY <1>1 DEF Limited, Nested, Chain, Apart, Builds

LEMMA ParserStarts == ParserInit => PInv
<1> SUFFICES ASSUME ParserInit PROVE PInv
  OBVIOUS
<1>1. tree = << >> /\ ranges = << >> /\ stack = << >> /\ root = 0 /\ outcome = "none" /\ values = << >> /\ at = "size"
  BY DEF ParserInit
<1>2. Builds(stack, root, Len(tree)) /\ Len(tree) = 0
  BY <1>1, NothingYet
<1> QED BY <1>1, <1>2, NothingYet DEF PInv

(* The tree is given up when nothing is under construction.                          *)
LEMMA ForgetsInv ==
  ASSUME PInv, root = 0, stack = << >>, values = << >>, Forgets, at' \notin {"fiff second"}
  PROVE  PInv'
<1>1. tree' = << >> /\ ranges' = << >> /\ outcome' = "none" /\ stack' = << >> /\ root' = 0 /\ values' = << >>
  BY DEF Forgets
<1>2. CiffInv'
  BY <1>1, NothingYet DEF CiffInv
<1>3. Builds(stack', root', Len(tree')) /\ Len(tree') = 0
  BY <1>1, NothingYet
<1>4. /\ tree' \in Seq(Dir) /\ Limited(tree') /\ ranges' \in Seq(Extent) /\ Apart(ranges')
      /\ stack' \in Seq(TFrame)
  BY <1>1, NothingYet
<1>5. root' \in 0 .. Len(tree')
  <2>1. 0 \in 0 .. Len(tree')
    BY <1>4, Bounds, Zenon
  <2> QED BY <1>1, <2>1, Zenon
<1> QED BY <1>1, <1>2, <1>3, <1>4, <1>5 DEF PInv

LEMMA Quiet ==
  ASSUME PInv, Idle \/ outcome # "none" \/ at \notin TiffAt \cup {"ciff"}
  PROVE  root = 0 /\ stack = << >> /\ values = << >>
<1>1. root = 0
  BY DEF PInv, Idle
<1>2. CASE at # "ciff"
  BY <1>1, <1>2 DEF PInv
<1>3. CASE at = "ciff"
  <2>1. values = << >> /\ Len(values) = Len(stack) /\ stack \in Seq(CFrame)
    BY <1>3 DEF PInv, CiffInv, Chain, Idle
  <2>2. stack = << >>
    BY <2>1
  <2> QED BY <1>1, <2>1, <2>2
<1> QED BY <1>2, <1>3

LEMMA LeavesInv ==
  ASSUME PInv, Idle \/ outcome # "none" \/ at \notin TiffAt \cup {"ciff"}, NEW e, Leaves(e) PROVE PInv'
<1>1. root = 0 /\ stack = << >> /\ values = << >>
  BY Quiet
<1>2. Forgets /\ at' \in {"done", "tiff", "ciff", "chdk"}
  BY DEF Leaves, Made, Goes, After
<1> QED BY <1>1, <1>2, ForgetsInv

LEMMA MadeInv ==
  ASSUME PInv, Idle \/ outcome # "none" \/ at \notin TiffAt \cup {"ciff"}, NEW d, Made(d) PROVE PInv'
BY Quiet, ForgetsInv DEF Made

(* The steps of the TIFF parser.                                                     *)
LEMMA TiffResult ==
  ASSUME PInv, at \in TiffAt, at' = at, values' = values,
         tree' \in Seq(Dir), Limited(tree'), ranges' \in Seq(Extent), Apart(ranges'),
         root' \in 0 .. Len(tree'), root' # 0 => outcome' = "none",
         stack' \in Seq(TFrame), Builds(stack', root', Len(tree')), root' = 0 => stack' = << >>,
         at = "fiff" /\ outcome' = "ok" => tree' # << >>,
         at = "fiff second" /\ outcome' = "none" => tree' # << >>
  PROVE  PInv'
BY DEF PInv, TiffAt

LEMMA SubsOf == ASSUME NEW f \in TFrame, NEW n \in Int
                PROVE  [f EXCEPT !.subs = n] \in TFrame /\ [f EXCEPT !.subs = n].ifd = f.ifd
BY DEF TFrame

LEMMA ThrownInv ==
  ASSUME PInv, root # 0, UNCHANGED << outer, values >>,
         NEW e \in {"TPE", "IOE"}, NEW callers \in Seq(TFrame), NEW left \in Seq(Dir),
         Limited(left), root <= Len(left), Builds(callers, root, Len(left)), Thrown(e, callers, left)
  PROVE  PInv'
<1>1. root \in Nat /\ root # 0 /\ Len(left) \in Nat /\ at \in TiffAt /\ outcome = "none" /\ Len(tree) \in Nat
  <2>1. Len(left) \in Nat /\ Len(tree) \in Nat
    <3>1. tree \in Seq(Dir)
      BY DEF PInv
    <3> QED BY <3>1
  <2>2. root \in 0 .. Len(tree) /\ at \in TiffAt /\ outcome = "none"
    BY DEF PInv
  <2> QED BY <2>1, <2>2
<1>2. /\ ranges' \in Seq(Extent) /\ Apart(ranges')
      /\ at' = at /\ values' = values
  BY DEF Thrown, PInv, outer
<1>3. left # << >>
  BY <1>1
<1>4. CASE callers # << >>
  <2> DEFINE f == [Last(callers) EXCEPT !.subs = 0]
  <2>1. /\ tree' = left /\ stack' = Front(callers) \o << f >>
        /\ root' = root /\ outcome' = outcome
    BY <1>4 DEF Thrown
  <2>2. Last(callers) \in TFrame
    BY <1>4, FrontOf
  <2>3. f \in TFrame /\ f.ifd = Last(callers).ifd
    BY <2>2, 0 \in Int, SubsOf, Zenon
  <2> HIDE DEF f
  <2>4. stack' \in Seq(TFrame) /\ Builds(stack', root, Len(left))
    BY <1>1, <1>4, <2>1, <2>3, TopOf, BuildsTop
  <2>5. root' \in 0 .. Len(tree') /\ root' # 0 /\ outcome' = "none" /\ tree' # << >>
    BY <1>1, <1>3, <2>1
  <2>6. tree' \in Seq(Dir) /\ Limited(tree') /\ Builds(stack', root', Len(tree'))
    BY <2>1, <2>4
  <2> QED BY <1>1, <1>2, <2>4, <2>5, <2>6, TiffResult
<1>5. CASE callers = << >>
  <2>1. /\ stack' = << >> /\ root' = 0 /\ outcome' \in {"ok", "IOE"}
        /\ outcome' = "ok" => tree' = left
        /\ tree' \in {left, Without(left, root)}
    BY <1>5 DEF Thrown
  <2>2. root - 1 \in 0 .. Len(left)
    BY <1>1
  <2>3. Without(left, root) \in Seq(Dir) /\ Limited(Without(left, root))
    BY <2>2, PrefixLimited DEF Without
  <2>4. tree' \in Seq(Dir) /\ Limited(tree')
    BY <2>1, <2>3
  <2>5. 0 \in 0 .. Len(tree')
    BY <2>4
  <2>6. stack' \in Seq(TFrame) /\ Builds(stack', root', Len(tree')) /\ outcome' # "none"
    BY <2>1, NothingYet
  <2>7. outcome' = "ok" => tree' # << >>
    BY <1>3, <2>1
  <2> QED BY <1>1, <1>2, <2>1, <2>4, <2>5, <2>6, <2>7, TiffResult
<1> QED BY <1>4, <1>5

LEMMA PInvTypes ==
  ASSUME PInv
  PROVE  /\ tree \in Seq(Dir) /\ Limited(tree) /\ Len(tree) \in Nat /\ root \in 0 .. Len(tree)
         /\ ranges \in Seq(Extent) /\ Apart(ranges)
<1>1. tree \in Seq(Dir) /\ Limited(tree) /\ root \in 0 .. Len(tree)
      /\ ranges \in Seq(Extent) /\ Apart(ranges)
  BY DEF PInv
<1> QED BY <1>1

(* The directory that is being constructed last is the innermost of those around the next. *)
LEMMA InnermostIn ==
  ASSUME PInv, root # 0
  PROVE  /\ at \in TiffAt /\ outcome = "none" /\ at # "ciff"
         /\ root \in Nat /\ root <= Len(tree) /\ tree # << >>
         /\ stack \in Seq(TFrame) /\ Builds(stack, root, Len(tree))
         /\ Innermost \in 0 .. Len(tree)
         /\ (stack # << >> => /\ Last(stack) \in TFrame /\ Front(stack) \in Seq(TFrame)
                              /\ Last(stack).ifd \in Nat /\ root < Last(stack).ifd /\ Last(stack).ifd <= Len(tree)
                              /\ Builds(Front(stack), root, Len(tree))
                              /\ Builds(Front(stack), root, Last(stack).ifd - 1))
<1>1. /\ at \in TiffAt /\ outcome = "none" /\ at # "ciff"
      /\ stack \in Seq(TFrame) /\ Builds(stack, root, Len(tree))
  BY DEF PInv, TiffAt
<1>2. tree \in Seq(Dir) /\ Len(tree) \in Nat /\ root \in Nat /\ root <= Len(tree)
  BY PInvTypes
<1>3. tree # << >>
  BY <1>2
<1>4. stack # << >> => /\ Last(stack) \in TFrame /\ Front(stack) \in Seq(TFrame)
                       /\ Last(stack).ifd \in Nat /\ root < Last(stack).ifd /\ Last(stack).ifd <= Len(tree)
                       /\ Builds(Front(stack), root, Len(tree))
                       /\ Builds(Front(stack), root, Last(stack).ifd - 1)
  BY <1>1, <1>2, FrontOf, BuildsFront
<1>5. Innermost \in 0 .. Len(tree)
  BY <1>2, <1>4 DEF Innermost
<1> QED BY <1>1, <1>2, <1>3, <1>4, <1>5

LEMMA NoHeaderInv ==
  ASSUME PInv, Idle, at \in TiffAt, at' = at, values' = values,
         NEW t \in Seq(Dir), Limited(t), at = "fiff second" => t # << >>,
         NEW e \in {"TPE", "IOE"}, NoHeader(t, e)
  PROVE  PInv'
<1>1. root = 0 /\ stack = << >> /\ ranges \in Seq(Extent) /\ Apart(ranges)
  BY Quiet, PInvTypes
<1>2. outcome' = e /\ tree' = t /\ ranges' = ranges /\ stack' = << >> /\ root' = 0
  BY <1>1 DEF NoHeader
<1>3. Builds(stack', root', Len(tree')) /\ stack' \in Seq(TFrame)
  BY <1>2, NothingYet
<1>4. root' \in 0 .. Len(tree')
  BY <1>2, Bounds
<1>5. e # "none" /\ e # "ok"
  OBVIOUS
<1> QED BY <1>1, <1>2, <1>3, <1>4, <1>5, TiffResult

(* The tree has its new root. *)
LEMMA RootInv ==
  ASSUME PInv, at \in TiffAt, at' = at, values' = values,
         NEW n \in Nat, NEW u \in Seq(Dir), Limited(u), Len(u) = n + 1, tree' = u,
         ranges' = << >>, stack' = << >>,
         root' = (IF next' = 0 THEN 0 ELSE n + 1), outcome' = (IF next' = 0 THEN "ok" ELSE "none")
  PROVE  PInv'
<1>1. u # << >> /\ root' \in 0 .. Len(u) /\ (root' # 0 => outcome' = "none")
  OBVIOUS
<1>2. Builds(stack', root', Len(tree')) /\ stack' \in Seq(TFrame) /\ ranges' \in Seq(Extent) /\ Apart(ranges')
  BY NothingYet
<1> QED BY <1>1, <1>2, TiffResult

LEMMA EmptyExtent == \A n \in Nat : Bytes(n, 0) \in Extent
BY DEF Bytes, Extent

LEMMA HeaderInv ==
  ASSUME PInv, Idle, at \in TiffAt, at' = at, values' = values,
         NEW t \in Seq(Dir), Limited(t), NEW parent \in 0 .. Len(t),
         at = "fiff second" => t # << >>, Header(t, parent)
  PROVE  PInv'
<1>1. root = 0 /\ stack = << >>
  BY Quiet
<1>2. CASE HasRoom(t, Above(t, parent))
  <2> DEFINE u == Append(Counted(t, parent, Above(t, parent)), IFD(parent, Above(t, parent), Bytes(0, 0)))
  <2>1. 0 \in Nat
    OBVIOUS
  <2>2. Bytes(0, 0) \in Extent /\ Len(t) \in Nat
    BY <2>1, EmptyExtent, Bounds, Zenon
  <2>3. u \in Seq(Dir) /\ Limited(u) /\ Len(u) = Len(t) + 1
    BY <1>2, <2>2, AppendLimited
  <2>4. /\ tree' = u /\ root' = (IF next' = 0 THEN 0 ELSE Len(t) + 1) /\ ranges' = << >>
        /\ outcome' = (IF next' = 0 THEN "ok" ELSE "none") /\ stack' = << >>
    BY <1>1, <1>2 DEF Header
  <2> HIDE DEF u
  <2> QED BY <2>2, <2>3, <2>4, RootInv
<1>3. CASE ~HasRoom(t, Above(t, parent))
  <2>1. NoHeader(t, "TPE")
    BY <1>3 DEF Header
  <2> QED BY <2>1, NoHeaderInv
<1> QED BY <1>2, <1>3

LEMMA ConstructInv ==
  ASSUME PInv, root # 0, UNCHANGED << outer, values >>,
         NEW offset \in Places, NEW entries \in 0 .. MaxEntries, Construct(offset, entries)
  PROVE  PInv'
<1> DEFINE above == Above(tree, Innermost)
           counted == Counted(tree, Innermost, above)
           range == Bytes(offset, FullSize(entries))
           d == IFD(Innermost, above, range)
           frames == IF stack = << >> THEN << >> ELSE Top([Last(stack) EXCEPT !.subs = @ - 1])
<1>1. /\ tree \in Seq(Dir) /\ Limited(tree) /\ Len(tree) \in Nat
      /\ ranges \in Seq(Extent) /\ Apart(ranges)
  BY PInvTypes
<1>2. /\ at \in TiffAt /\ outcome = "none" /\ root \in Nat /\ root <= Len(tree)
      /\ stack \in Seq(TFrame) /\ Builds(stack, root, Len(tree))
      /\ Innermost \in 0 .. Len(tree)
  BY InnermostIn
<1>3. CASE ~HasRoom(tree, above)
  <2>1. Thrown("TPE", stack, tree)
    BY <1>3 DEF Construct
  <2> QED BY <1>1, <1>2, <2>1, ThrownInv
<1>4. CASE HasRoom(tree, above)
  <2>1. counted \in Seq(Dir) /\ Len(counted) = Len(tree) /\ Limited(counted)
    BY <1>1, <1>2, <1>4, CountedLimited
  <2>2. /\ range.end > FileSize => Thrown("IOE", stack, counted)
        /\ range.end <= FileSize =>
             \E p \in 1 .. Len(ranges) + 1 :
               /\ IsPartitionPoint(ranges, range, p)
               /\ IF OverlapsExisting(ranges, range, p) THEN Thrown("TPE", stack, counted)
                  ELSE /\ tree' = Append(counted, d)
                       /\ ranges' = Inserted(ranges, range, p)
                       /\ stack' = Append(frames, Frame(Len(tree) + 1, entries))
                       /\ UNCHANGED << root, next, outcome >>
    <3>1. /\ range.end > FileSize => Thrown("IOE", stack, counted)
          /\ ~(range.end > FileSize) =>
               \E p \in 1 .. Len(ranges) + 1 :
                 /\ IsPartitionPoint(ranges, range, p)
                 /\ IF OverlapsExisting(ranges, range, p) THEN Thrown("TPE", stack, counted)
                    ELSE /\ tree' = Append(counted, d)
                         /\ ranges' = Inserted(ranges, range, p)
                         /\ stack' = Append(frames, Frame(Len(tree) + 1, entries))
                         /\ UNCHANGED << root, next, outcome >>
      BY <1>4, Zenon DEF Construct
    <3>2. range.end \in Nat /\ FileSize \in Nat
      BY FileAssumption DEF Bytes, FullSize
    <3> HIDE DEF range, d, frames, counted
    <3>3. range.end <= FileSize => ~(range.end > FileSize)
      BY <3>2
    <3> QED BY <3>1, <3>3, Zenon
  <2> HIDE DEF counted
  <2>3. \A e \in {"TPE", "IOE"} : Thrown(e, stack, counted) => PInv'
    BY <1>2, <2>1, ThrownInv
  <2>4. ASSUME NEW p, IsPartitionPoint(ranges, range, p), ~OverlapsExisting(ranges, range, p),
               tree' = Append(counted, d), ranges' = Inserted(ranges, range, p),
               stack' = Append(frames, Frame(Len(tree) + 1, entries)), UNCHANGED << root, next, outcome >>
        PROVE  PInv'
    <3>1. range \in Extent
      BY FileAssumption DEF Bytes, FullSize, Extent
    <3>2. tree' \in Seq(Dir) /\ Limited(tree') /\ Len(tree') = Len(tree) + 1
      BY <1>1, <1>2, <1>4, <2>4, <3>1, AppendLimited DEF counted
    <3>3. ranges' \in Seq(Extent) /\ Apart(ranges')
      BY <1>1, <2>4, <3>1, InsertApart
    <3>4. frames \in Seq(TFrame) /\ Builds(frames, root, Len(tree))
      <4>1. CASE stack = << >>
        BY <4>1, NothingYet
      <4>2. CASE stack # << >>
        <5> DEFINE f == [Last(stack) EXCEPT !.subs = @ - 1]
        <5>1. Last(stack) \in TFrame
          BY <1>2, <4>2, FrontOf
        <5>2. Last(stack).subs - 1 \in Int
          BY <5>1 DEF TFrame
        <5>3. f \in TFrame /\ f.ifd = Last(stack).ifd
          BY <5>1, <5>2, SubsOf, Zenon
        <5>4. frames = Front(stack) \o << f >>
          BY <4>2 DEF Top
        <5> HIDE DEF f, frames
        <5> QED BY <1>1, <1>2, <4>2, <5>3, <5>4, TopOf, BuildsTop
      <4> QED BY <4>1, <4>2
    <3>5. Frame(Len(tree) + 1, entries) \in TFrame /\ Frame(Len(tree) + 1, entries).ifd = Len(tree) + 1
      BY <1>1, FileAssumption DEF Frame, TFrame
    <3> HIDE DEF frames, d, range
    <3>6. stack' \in Seq(TFrame) /\ Builds(stack', root, Len(tree) + 1)
      BY <1>1, <1>2, <2>4, <3>4, <3>5, BuildsAppend, AppendOf
    <3>7. root' = root /\ root' \in 0 .. Len(tree') /\ tree' # << >> /\ outcome' = "none"
      BY <1>1, <1>2, <2>4, <3>2
    <3>8. at' = at /\ values' = values /\ Builds(stack', root', Len(tree'))
      BY <3>2, <3>6, <3>7 DEF outer
    <3> QED BY <1>2, <3>2, <3>3, <3>6, <3>7, <3>8, TiffResult
  <2>5. range.end \in Nat /\ FileSize \in Nat
    BY FileAssumption DEF Bytes, FullSize
  <2> HIDE DEF range, d, frames
  <2> QED BY <2>2, <2>3, <2>4, <2>5
<1> QED BY <1>3, <1>4

(* An entry is read: the directory at work goes on to the next.                      *)
LEMMA EntryInv ==
  ASSUME PInv, root # 0, UNCHANGED << outer, values, tree, ranges, root, outcome >>,
         stack # << >>, NEW f \in TFrame, f.ifd = Last(stack).ifd, stack' = Top(f)
  PROVE  PInv'
<1>1. /\ tree' = tree /\ ranges' = ranges /\ root' = root /\ outcome' = outcome /\ values' = values /\ at' = at
      /\ stack' = Front(stack) \o << f >>
  BY DEF outer, Top
<1>2. /\ tree \in Seq(Dir) /\ Limited(tree) /\ Len(tree) \in Nat /\ root \in 0 .. Len(tree)
      /\ ranges \in Seq(Extent) /\ Apart(ranges)
  BY PInvTypes
<1>3. /\ at \in TiffAt /\ outcome = "none" /\ root \in Nat /\ tree # << >>
      /\ stack \in Seq(TFrame) /\ Builds(stack, root, Len(tree))
  BY InnermostIn
<1>4. stack' \in Seq(TFrame) /\ Builds(stack', root, Len(tree))
  BY <1>1, <1>2, <1>3, TopOf, BuildsTop
<1>5. stack' \in Seq(TFrame) /\ Builds(stack', root', Len(tree'))
  BY <1>1, <1>4
<1> QED BY <1>1, <1>2, <1>3, <1>5, TiffResult

LEMMA EntriesOf == ASSUME NEW f \in TFrame, NEW m \in Int
                   PROVE  [f EXCEPT !.entries = m] \in TFrame /\ [f EXCEPT !.entries = m].ifd = f.ifd
BY DEF TFrame

LEMMA TakesEntry ==
  ASSUME NEW f \in TFrame, NEW n \in Int
  PROVE  /\ [f EXCEPT !.entries = @ - 1] \in TFrame /\ [f EXCEPT !.entries = @ - 1].ifd = f.ifd
         /\ [f EXCEPT !.entries = @ - 1, !.subs = n] \in TFrame
         /\ [f EXCEPT !.entries = @ - 1, !.subs = n].ifd = f.ifd
<1> DEFINE g == [f EXCEPT !.entries = @ - 1]
<1>1. f.entries - 1 \in Int
  BY DEF TFrame
<1>2. g \in TFrame /\ g.ifd = f.ifd
  BY <1>1, EntriesOf, Zenon
<1>3. [g EXCEPT !.subs = n] = [f EXCEPT !.entries = @ - 1, !.subs = n]
  OBVIOUS
<1> HIDE DEF g
<1>4. [g EXCEPT !.subs = n] \in TFrame /\ [g EXCEPT !.subs = n].ifd = g.ifd
  BY <1>2, SubsOf, Zenon
<1> QED BY <1>2, <1>3, <1>4 DEF g

LEMMA FinishInv ==
  ASSUME PInv, root # 0, UNCHANGED << outer, values >>, Finish
  PROVE  PInv'
<1>1. /\ tree' = tree /\ ranges' = ranges /\ values' = values /\ at' = at /\ stack' = Front(stack) /\ stack # << >>
  BY DEF outer, Finish
<1>2. /\ tree \in Seq(Dir) /\ Limited(tree) /\ Len(tree) \in Nat /\ root \in 0 .. Len(tree)
      /\ ranges \in Seq(Extent) /\ Apart(ranges)
  BY PInvTypes
<1>3. /\ at \in TiffAt /\ outcome = "none" /\ root \in Nat /\ tree # << >>
      /\ stack \in Seq(TFrame) /\ Builds(Front(stack), root, Len(tree)) /\ Front(stack) \in Seq(TFrame)
  BY <1>1, InnermostIn
<1>4. CASE Len(stack) = 1
  <2>1. /\ outcome' = (IF next' = 0 THEN "ok" ELSE "none")
        /\ root' = (IF next' = 0 THEN 0 ELSE root)
    BY <1>4 DEF Finish
  <2>2. stack' = << >>
    <3>1. stack' \in Seq(TFrame) /\ Len(stack') = 0
      BY <1>1, <1>3, <1>4, FrontOf
    <3> QED BY <3>1
  <2>3. root' \in 0 .. Len(tree') /\ (root' # 0 => outcome' = "none")
    BY <1>1, <1>2, <2>1
  <2>4. stack' \in Seq(TFrame) /\ Builds(stack', root', Len(tree'))
    BY <2>2, NothingYet
  <2> QED BY <1>1, <1>2, <1>3, <2>2, <2>3, <2>4, TiffResult
<1>5. CASE Len(stack) # 1
  <2>1. outcome' = outcome /\ root' = root
    BY <1>5 DEF Finish
  <2>2. stack' \in Seq(TFrame) /\ Builds(stack', root', Len(tree'))
    BY <1>1, <1>3, <2>1
  <2> QED BY <1>1, <1>2, <1>3, <2>1, <2>2, TiffResult
<1> QED BY <1>4, <1>5

LEMMA TiffStepInv ==
  ASSUME PInv, TiffStep, UNCHANGED values, UNCHANGED outer
  PROVE  PInv'
<1>1. root # 0
  BY DEF TiffStep
<1>2. /\ tree \in Seq(Dir) /\ Limited(tree) /\ Len(tree) \in Nat
      /\ root \in Nat /\ root <= Len(tree) /\ stack \in Seq(TFrame) /\ Builds(stack, root, Len(tree))
      /\ (stack # << >> => /\ Last(stack) \in TFrame /\ Front(stack) \in Seq(TFrame)
                           /\ Last(stack).ifd \in Nat /\ root < Last(stack).ifd /\ Last(stack).ifd <= Len(tree)
                           /\ Builds(Front(stack), root, Last(stack).ifd - 1))
  BY <1>1, PInvTypes, InnermostIn
<1>3. ASSUME NEW offset \in Places, NEW n \in 0 .. MaxEntries, Construct(offset, n) PROVE PInv'
  BY <1>1, <1>3, ConstructInv
<1>4. CASE PlainEntry
  <2> DEFINE f == [Last(stack) EXCEPT !.entries = @ - 1]
  <2>1. stack # << >> /\ stack' = Top(f) /\ UNCHANGED << tree, ranges, root, outcome >>
    BY <1>4 DEF PlainEntry, AtEntry
  <2>2. f \in TFrame /\ f.ifd = Last(stack).ifd
    <3>1. Last(stack) \in TFrame /\ 0 \in Int
      BY <1>2, <2>1
    <3> QED BY <3>1, TakesEntry, Zenon
  <2> HIDE DEF f
  <2> QED BY <1>1, <2>1, <2>2, EntryInv
<1>5. ASSUME NEW n \in 0 .. MaxSubs, SubIFDsEntry(n) PROVE PInv'
  <2> DEFINE f == [Last(stack) EXCEPT !.entries = @ - 1, !.subs = n]
  <2>1. stack # << >> /\ stack' = Top(f) /\ UNCHANGED << tree, ranges, root, outcome >>
    BY <1>5 DEF SubIFDsEntry, AtEntry
  <2>2. f \in TFrame /\ f.ifd = Last(stack).ifd
    <3>1. Last(stack) \in TFrame /\ n \in Int
      BY <1>2, <2>1
    <3> QED BY <3>1, TakesEntry, Zenon
  <2> HIDE DEF f
  <2> QED BY <1>1, <2>1, <2>2, EntryInv
<1>6. CASE BadEntry
  <2> DEFINE left == Without(tree, Last(stack).ifd)
  <2>1. stack # << >> /\ Thrown("TPE", Front(stack), left)
    BY <1>6 DEF BadEntry, AtEntry
  <2>2. Last(stack).ifd - 1 \in 0 .. Len(tree)
    BY <1>2, <2>1
  <2>3. left \in Seq(Dir) /\ Limited(left) /\ Len(left) = Last(stack).ifd - 1
    BY <1>2, <2>2, PrefixLimited DEF Without
  <2>4. root <= Len(left) /\ Builds(Front(stack), root, Len(left)) /\ Front(stack) \in Seq(TFrame)
    BY <1>2, <2>1, <2>3
  <2> HIDE DEF left
  <2> QED BY <1>1, <2>1, <2>3, <2>4, ThrownInv
<1>7. CASE BadOffset
  <2>1. Thrown("IOE", stack, tree)
    BY <1>7 DEF BadOffset
  <2> QED BY <1>1, <1>2, <2>1, ThrownInv
<1>8. CASE Finish
  BY <1>1, <1>8, FinishInv
<1> QED BY <1>3, <1>4, <1>5, <1>6, <1>7, <1>8 DEF TiffStep
-----------------------------------------------------------------------------
(* The steps of the CIFF parser.                                                     *)
LEMMA CiffThrownInv ==
  ASSUME PInv, at = "ciff", at' = at, NEW e, e # "none", CiffThrown(e) PROVE PInv'
<1>1. /\ tree' = << >> /\ stack' = << >> /\ values' = << >> /\ ranges' = ranges /\ root' = root /\ outcome' = e
  BY DEF CiffThrown
<1>2. root = 0 /\ ranges \in Seq(Extent) /\ Apart(ranges)
  BY PInvTypes DEF PInv, TiffAt
<1>3. CiffInv'
  BY <1>1, NothingYet DEF CiffInv
<1>4. tree' \in Seq(Dir) /\ Limited(tree')
  BY <1>1, NothingYet
<1>5. root' \in 0 .. Len(tree')
  BY <1>1, <1>2, <1>4, Bounds
<1> QED BY <1>1, <1>2, <1>3, <1>4, <1>5 DEF PInv

LEMMA CiffResult ==
  ASSUME PInv, at = "ciff", at' = at, tree' \in Seq(Dir), Limited(tree'), ranges' = ranges, root' = root,
         Chain(tree', stack', values'), Nested(tree'), outcome' # "none" => values' = << >>
  PROVE  PInv'
<1>1. root = 0 /\ ranges \in Seq(Extent) /\ Apart(ranges)
  BY PInvTypes DEF PInv, TiffAt
<1>2. root' \in 0 .. Len(tree')
  BY <1>1, Bounds
<1> QED BY <1>1, <1>2 DEF PInv, CiffInv

(* What is within a range is where that is. *)
LEMMA LocatedWithin ==
  ASSUME NEW r \in Extent, NEW s \in Extent, NEW f \in CFrame, NEW vals \in Seq(Extent),
         Within(r, s), Located(s, f, vals)
  PROVE  Located(r, f, vals)
<1>1. r.begin \in Nat /\ r.end \in Nat /\ s.begin \in Nat /\ s.end \in Nat /\ f.area.end \in Nat /\ f.place \in Nat
      /\ s.begin <= r.begin /\ r.end <= s.end
  BY DEF Extent, CFrame, Within
<1>2. CASE \E v \in 1 .. Len(vals) : Within(s, vals[v])
  <2>1. PICK v \in 1 .. Len(vals) : Within(s, vals[v])
    BY <1>2
  <2>2. vals[v].begin \in Nat /\ vals[v].end \in Nat
    BY DEF Extent
  <2>3. Within(r, vals[v])
    BY <1>1, <2>1, <2>2 DEF Within
  <2> QED BY <2>3 DEF Located
<1>3. CASE f.area.end + 2 <= s.begin /\ s.end <= f.place
  BY <1>1, <1>3 DEF Located
<1> QED BY <1>2, <1>3 DEF Located

(* The chain of the directories around the innermost.                                *)
LEMMA ChainFront ==
  ASSUME NEW t \in Seq(Dir), NEW s, NEW vals, Chain(t, s, vals), s # << >>
  PROVE  Chain(t, Front(s), Front(vals))
<1>1. s \in Seq(CFrame) /\ vals \in Seq(Seq(Extent)) /\ Len(vals) = Len(s) /\ Builds(s, 0, Len(t)) /\ Len(t) \in Nat
  BY DEF Chain
<1>2. vals # << >>
  BY <1>1
<1> DEFINE c == Front(s)
           w == Front(vals)
<1>3. /\ c \in Seq(CFrame) /\ Len(s) \in Nat \ {0} /\ Len(c) = Len(s) - 1
      /\ \A k \in 1 .. Len(s) - 1 : c[k] = s[k]
  BY <1>1, FrontOf
<1>4. /\ w \in Seq(Seq(Extent)) /\ Len(w) = Len(s) - 1
      /\ \A k \in 1 .. Len(s) - 1 : w[k] = vals[k]
  BY <1>1, <1>2, FrontOf
<1>5. Builds(c, 0, Len(t))
  BY <1>1, BuildsFront
<1> HIDE DEF c, w
<1>6. \A j \in 1 .. Len(c) : j \in 1 .. Len(s) /\ c[j] = s[j] /\ w[j] = vals[j]
  BY <1>3, <1>4
<1>7. \A j \in 1 .. Len(c) :
        /\ FrameOK(t[c[j].ifd].range, c[j], w[j])
        /\ \A i \in 1 .. Len(t) : c[j].ifd < i => Located(t[i].range, c[j], w[j])
  BY <1>6 DEF Chain
<1>8. Len(w) = Len(c)
  BY <1>3, <1>4
<1>9. Chain(t, c, w)
  BY <1>3, <1>4, <1>5, <1>7, <1>8 DEF Chain
<1> QED BY <1>9 DEF c, w

(* The innermost directory.                                                          *)
LEMMA InnermostFrame ==
  ASSUME NEW t \in Seq(Dir), NEW s, NEW vals, Chain(t, s, vals), s # << >>
  PROVE  LET f == Last(s)  r == t[f.ifd].range  seen == Last(vals) IN
         /\ Len(s) \in Nat \ {0} /\ Len(vals) = Len(s) /\ f = s[Len(s)] /\ seen = vals[Len(s)]
         /\ s \in Seq(CFrame) /\ vals \in Seq(Seq(Extent)) /\ vals # << >>
         /\ f \in CFrame /\ f.ifd \in 1 .. Len(t) /\ seen \in Seq(Extent) /\ r \in Extent
         /\ FrameOK(r, f, seen)
         /\ \A i \in 1 .. Len(t) : f.ifd < i => Located(t[i].range, f, seen)
         /\ \A j \in 1 .. Len(s) - 1 : s[j].ifd \in 1 .. Len(t) /\ s[j].ifd < f.ifd /\ Located(r, s[j], vals[j])
<1> DEFINE n == Len(s)
<1>1. s \in Seq(CFrame) /\ vals \in Seq(Seq(Extent)) /\ Len(vals) = n /\ Builds(s, 0, Len(t)) /\ Len(t) \in Nat
  BY DEF Chain
<1>2. vals # << >> /\ n \in Nat \ {0} /\ n \in 1 .. n
  BY <1>1
<1>3. Last(s) = s[n] /\ Last(s) \in CFrame
  BY <1>1, FrontOf
<1>4. Last(vals) = vals[n] /\ Last(vals) \in Seq(Extent)
  BY <1>1, <1>2, FrontOf
<1>5. \A j \in 1 .. n : s[j].ifd \in Nat /\ 0 < s[j].ifd /\ s[j].ifd <= Len(t)
  BY <1>1 DEF Builds
<1>6. \A j \in 1 .. n : s[j].ifd \in 1 .. Len(t)
  BY <1>1, <1>5
<1>7. t[s[n].ifd] \in Dir
  BY <1>2, <1>6
<1>8. t[s[n].ifd].range \in Extent
  BY <1>7 DEF Dir
<1>9. FrameOK(t[s[n].ifd].range, s[n], vals[n])
      /\ \A i \in 1 .. Len(t) : s[n].ifd < i => Located(t[i].range, s[n], vals[n])
  BY <1>1, <1>2 DEF Chain
<1>10. ASSUME NEW j \in 1 .. n - 1
       PROVE  s[j].ifd \in 1 .. Len(t) /\ s[j].ifd < s[n].ifd /\ Located(t[s[n].ifd].range, s[j], vals[j])
  <2>1. j \in 1 .. n /\ j < n
    BY <1>2
  <2>2. s[j].ifd < s[n].ifd
    BY <1>1, <1>2, <2>1 DEF Builds
  <2>3. Located(t[s[n].ifd].range, s[j], vals[j])
    BY <1>2, <1>6, <2>1, <2>2 DEF Chain
  <2> QED BY <1>6, <2>1, <2>2, <2>3
<1> HIDE DEF n
<1>11. Last(s).ifd \in 1 .. Len(t) /\ t[Last(s).ifd].range \in Extent
  BY <1>2, <1>3, <1>6, <1>8
<1> QED BY <1>1, <1>2, <1>3, <1>4, <1>9, <1>10, <1>11 DEF n

LEMMA FrontLast ==
  ASSUME NEW S, NEW s \in Seq(S), s # << >> PROVE Front(s) \o << Last(s) >> = s
<1> DEFINE c == Front(s) \o << Last(s) >>
<1>1. /\ Last(s) = s[Len(s)] /\ Last(s) \in S /\ Len(s) \in Nat \ {0}
  BY FrontOf
<1>2. /\ c \in Seq(S) /\ Len(c) = Len(s) /\ c[Len(s)] = Last(s)
      /\ \A k \in 1 .. Len(s) - 1 : c[k] = s[k]
  BY <1>1, TopOf
<1> HIDE DEF c
<1>3. \A k \in 1 .. Len(s) : c[k] = s[k]
  BY <1>1, <1>2
<1>4. c = s
  BY <1>2, <1>3
<1> QED BY <1>4 DEF c

LEMMA BytesExtent ==
  ASSUME NEW b \in Nat, NEW n \in Nat
  PROVE  /\ Bytes(b, n) \in Extent /\ Bytes(b, n).begin = b /\ Bytes(b, n).end = b + n
         /\ Bytes(b, n).end \in Nat
BY DEF Bytes, Extent

(* The frame of the innermost directory when it has read an entry, and its values.   *)
LEMMA EntryRead ==
  ASSUME NEW f \in CFrame, f.entries > 0
  PROVE  LET g == [f EXCEPT !.entries = @ - 1, !.place = @ + EntrySize] IN
         g \in CFrame /\ g.ifd = f.ifd /\ g.area = f.area /\ g.place = f.place + EntrySize /\ g.entries = f.entries - 1
<1> DEFINE n == f.entries - 1
           p == f.place + EntrySize
           g == [f EXCEPT !.entries = n, !.place = p]
<1>1. f.entries \in Nat /\ f.place \in Nat
  BY DEF CFrame
<1>2. n \in Nat /\ p \in Nat
  BY <1>1 DEF EntrySize
<1> HIDE DEF n, p
<1>3. g \in CFrame /\ g.ifd = f.ifd /\ g.area = f.area /\ g.place = p /\ g.entries = n
  BY <1>2 DEF CFrame
<1> QED BY <1>3 DEF n, p

LEMMA Read ==
  ASSUME NEW a \in Nat, NEW b \in Nat, NEW c \in Nat, NEW n \in Nat, n > 0, a + 2 <= b, b + 10 * n <= c
  PROVE  a + 2 <= b + 10 /\ (b + 10) + 10 * (n - 1) <= c
OBVIOUS

LEMMA EntryEnds ==
  ASSUME NEW c \in Nat, NEW p \in Nat, NEW n \in Nat, NEW d \in Nat, n > 0, c + 2 <= p, p + 10 * n <= d
  PROVE  c + 2 <= p /\ p + 10 <= d
OBVIOUS

LEMMA EntryReadOK ==
  ASSUME NEW d \in Extent, NEW f \in CFrame, NEW g \in CFrame,
         f.entries > 0, g.area = f.area, g.place = f.place + EntrySize, g.entries = f.entries - 1,
         NEW seen, FrameOK(d, f, seen), NEW new, Apart(new), \A m \in 1 .. Len(new) : Within(new[m], f.area)
  PROVE  FrameOK(d, g, new)
<1>1. /\ d.begin \in Nat /\ d.end \in Nat /\ f.area.begin \in Nat /\ f.area.end \in Nat
      /\ f.place \in Nat /\ f.entries \in Nat /\ g.place \in Nat /\ g.entries \in Nat
  BY DEF Extent, CFrame
<1>2. d.begin <= f.area.begin /\ f.area.end + 2 <= f.place /\ f.place + 10 * f.entries <= d.end
      /\ f.entries > 0
  BY DEF FrameOK, EntrySize
<1>3. g.place = f.place + 10 /\ g.entries = f.entries - 1
  BY DEF EntrySize
<1>4. f.area.end + 2 <= g.place /\ g.place + 10 * g.entries <= d.end
  BY <1>1, <1>2, <1>3, Read
<1>5. \A m \in 1 .. Len(new) : Within(new[m], g.area)
  OBVIOUS
<1> QED BY <1>2, <1>4, <1>5 DEF FrameOK, EntrySize

LEMMA EntryReadLocated ==
  ASSUME NEW r \in Extent, NEW f \in CFrame, NEW g \in CFrame, g.area = f.area, g.place = f.place + EntrySize,
         NEW seen, NEW new, Located(r, f, seen),
         \A k \in 1 .. Len(seen) : \E m \in 1 .. Len(new) : new[m] = seen[k]
  PROVE  Located(r, g, new)
<1>1. CASE \E v \in 1 .. Len(seen) : Within(r, seen[v])
  <2>1. PICK v \in 1 .. Len(seen) : Within(r, seen[v])
    BY <1>1
  <2>2. PICK m \in 1 .. Len(new) : new[m] = seen[v]
    OBVIOUS
  <2> QED BY <2>1, <2>2 DEF Located
<1>2. CASE f.area.end + 2 <= r.begin /\ r.end <= f.place
  <2>1. r.end \in Nat /\ f.place \in Nat
    BY DEF Extent, CFrame
  <2>2. r.end <= g.place
    BY <2>1, <1>2 DEF EntrySize
  <2> QED BY <1>2, <2>2 DEF Located
<1> QED BY <1>1, <1>2 DEF Located

LEMMA TopFrame ==
  ASSUME NEW s \in Seq(CFrame), s # << >>, NEW g \in CFrame
  PROVE  /\ Front(s) \o << g >> \in Seq(CFrame)
         /\ Len(Front(s) \o << g >>) = Len(s)
         /\ \A k \in 1 .. Len(s) - 1 : (Front(s) \o << g >>)[k] = s[k]
         /\ (Front(s) \o << g >>)[Len(s)] = g
BY TopOf, Zenon

LEMMA TopValues ==
  ASSUME NEW s \in Seq(Seq(Extent)), s # << >>, NEW g \in Seq(Extent)
  PROVE  /\ Front(s) \o << g >> \in Seq(Seq(Extent))
         /\ Len(Front(s) \o << g >>) = Len(s)
         /\ \A k \in 1 .. Len(s) - 1 : (Front(s) \o << g >>)[k] = s[k]
         /\ (Front(s) \o << g >>)[Len(s)] = g
BY TopOf, Zenon

LEMMA ChainTop ==
  ASSUME NEW t \in Seq(Dir), NEW s, NEW vals, Chain(t, s, vals), s # << >>,
         NEW g \in CFrame, g.ifd = Last(s).ifd, NEW new \in Seq(Extent),
         FrameOK(t[g.ifd].range, g, new),
         \A i \in 1 .. Len(t) : g.ifd < i => Located(t[i].range, g, new)
  PROVE  Chain(t, Front(s) \o << g >>, Front(vals) \o << new >>)
<1> DEFINE n == Len(s)
           c == Front(s) \o << g >>
           w == Front(vals) \o << new >>
<1>1. n \in Nat \ {0} /\ Len(vals) = n /\ s \in Seq(CFrame) /\ vals \in Seq(Seq(Extent)) /\ vals # << >>
  BY InnermostFrame
<1>2. Builds(s, 0, Len(t)) /\ Len(t) \in Nat /\ 0 \in Nat
  BY DEF Chain
<1>3. c \in Seq(CFrame) /\ Len(c) = n /\ c[n] = g /\ \A k \in 1 .. n - 1 : c[k] = s[k]
  BY <1>1, TopFrame
<1>4. w \in Seq(Seq(Extent)) /\ Len(w) = Len(vals) /\ w[Len(vals)] = new
      /\ \A k \in 1 .. Len(vals) - 1 : w[k] = vals[k]
  BY <1>1, TopValues
<1>5. Builds(c, 0, Len(t))
  BY <1>1, <1>2, BuildsTop
<1> HIDE DEF c, w
<1>6. ASSUME NEW j \in 1 .. n
      PROVE  /\ FrameOK(t[c[j].ifd].range, c[j], w[j])
             /\ \A i \in 1 .. Len(t) : c[j].ifd < i => Located(t[i].range, c[j], w[j])
  <2>1. CASE j = n
    BY <2>1, <1>1, <1>3, <1>4
  <2>2. CASE j # n
    <3>1. j \in 1 .. n - 1
      BY <1>1, <2>2
    <3>2. c[j] = s[j] /\ w[j] = vals[j]
      BY <1>1, <1>3, <1>4, <3>1
    <3> QED BY <3>2 DEF Chain
  <2> QED BY <2>1, <2>2
<1>7. Chain(t, c, w)
  BY <1>1, <1>3, <1>4, <1>5, <1>6 DEF Chain
<1> QED BY <1>7 DEF c, w

(* The next entry has a value, `new` are those of the innermost directory then; or it has none
   in the area.                                                                      *)
LEMMA NextEntry ==
  ASSUME NEW t \in Seq(Dir), NEW s, NEW vals, Chain(t, s, vals), s # << >>, Last(s).entries > 0,
         NEW new \in Seq(Extent), Apart(new),
         \A m \in 1 .. Len(new) : Within(new[m], Last(s).area),
         \A k \in 1 .. Len(Last(vals)) : \E m \in 1 .. Len(new) : new[m] = Last(vals)[k]
  PROVE  LET g == [Last(s) EXCEPT !.entries = @ - 1, !.place = @ + EntrySize] IN
         Chain(t, Front(s) \o << g >>, Front(vals) \o << new >>)
<1> DEFINE f == Last(s)
           seen == Last(vals)
           g == [f EXCEPT !.entries = @ - 1, !.place = @ + EntrySize]
<1>1. /\ f \in CFrame /\ f.ifd \in 1 .. Len(t) /\ t[f.ifd].range \in Extent /\ FrameOK(t[f.ifd].range, f, seen)
      /\ \A i \in 1 .. Len(t) : f.ifd < i => Located(t[i].range, f, seen)
  BY InnermostFrame
<1>2. /\ g \in CFrame /\ g.ifd = f.ifd /\ g.area = f.area /\ g.place = f.place + EntrySize
      /\ g.entries = f.entries - 1
  BY <1>1, EntryRead
<1> HIDE DEF g, seen
<1>3. FrameOK(t[g.ifd].range, g, new)
  <2> HIDE DEF f
  <2>1. f.entries > 0 /\ \A m \in 1 .. Len(new) : Within(new[m], f.area)
    BY DEF f
  <2>2. FrameOK(t[f.ifd].range, g, new)
    BY <1>1, <1>2, <2>1, EntryReadOK
  <2> QED BY <2>2, <1>2
<1>4. ASSUME NEW i \in 1 .. Len(t), g.ifd < i PROVE Located(t[i].range, g, new)
  <2> HIDE DEF f
  <2>1. t[i] \in Dir
    OBVIOUS
  <2>2. t[i].range \in Extent
    BY <2>1 DEF Dir
  <2>3. Located(t[i].range, f, seen)
    BY <1>1, <1>2, <1>4
  <2>4. \A k \in 1 .. Len(seen) : \E m \in 1 .. Len(new) : new[m] = seen[k]
    BY DEF seen
  <2> QED BY <1>1, <1>2, <2>2, <2>3, <2>4, EntryReadLocated
<1>5. Chain(t, Front(s) \o << g >>, Front(vals) \o << new >>)
  BY <1>2, <1>3, <1>4, ChainTop
<1> QED BY <1>5 DEF g

(* What is within a directory but is not the whole of it.                            *)
LEMMA Smaller ==
  ASSUME NEW r \in Extent, NEW d \in Extent, Within(r, d), r # d
  PROVE  /\ r.begin \in Nat /\ r.end \in Nat /\ d.begin \in Nat /\ d.end \in Nat
         /\ d.begin <= r.begin /\ r.end <= d.end
         /\ r.begin # d.begin \/ r.end # d.end
<1>1. /\ r = [begin |-> r.begin, end |-> r.end] /\ d = [begin |-> d.begin, end |-> d.end]
      /\ r.begin \in Nat /\ r.end \in Nat /\ d.begin \in Nat /\ d.end \in Nat
  BY DEF Extent
<1>2. r.begin # d.begin \/ r.end # d.end
  BY <1>1
<1> QED BY <1>1, <1>2 DEF Within

(* Where a directory can be that is constructed within the innermost one.             *)
LEMMA Inside ==
  ASSUME NEW t \in Seq(Dir), NEW s, NEW vals, Chain(t, s, vals), s # << >>, Limited(t), Nested(t),
         NEW r \in Extent, Within(r, t[Last(s).ifd].range), r # t[Last(s).ifd].range,
         \A i \in 1 .. Len(t) : Last(s).ifd < i => Disjoint(t[i].range, r)
  PROVE  /\ \A i \in 1 .. Len(t) :
              IF i \in Above(t, Last(s).ifd) THEN Within(r, t[i].range) /\ r # t[i].range
              ELSE Disjoint(t[i].range, r)
         /\ \A j \in 1 .. Len(s) - 1 : Located(r, s[j], vals[j])
<1> DEFINE f == Last(s)
           d == t[f.ifd].range
<1>1. /\ f \in CFrame /\ f.ifd \in 1 .. Len(t) /\ d \in Extent /\ s \in Seq(CFrame) /\ vals \in Seq(Seq(Extent))
      /\ Len(vals) = Len(s) /\ Len(s) \in Nat \ {0}
      /\ \A j \in 1 .. Len(s) - 1 : s[j].ifd \in 1 .. Len(t) /\ s[j].ifd < f.ifd /\ Located(d, s[j], vals[j])
  BY InnermostFrame
<1>2. Above(t, f.ifd) = t[f.ifd].above \cup {f.ifd} /\ t[f.ifd].above \subseteq 1 .. f.ifd - 1
  BY <1>1 DEF Above, Limited
<1> HIDE DEF f
<1>3. /\ r.begin \in Nat /\ r.end \in Nat /\ d.begin \in Nat /\ d.end \in Nat /\ Len(t) \in Nat /\ f.ifd \in Nat
      /\ d.begin <= r.begin /\ r.end <= d.end
      /\ r.begin # d.begin \/ r.end # d.end
  <2>1. Within(r, d) /\ r # d
    BY DEF f
  <2> HIDE DEF d
  <2>2. Len(t) \in Nat /\ f.ifd \in Nat
    BY <1>1
  <2> QED BY <1>1, <2>1, <2>2, Smaller
<1>4. ASSUME NEW i \in 1 .. Len(t)
      PROVE  IF i \in Above(t, f.ifd) THEN Within(r, t[i].range) /\ r # t[i].range
             ELSE Disjoint(t[i].range, r)
  <2>1. t[i] \in Dir /\ i \in Nat
    OBVIOUS
  <2>2. t[i].range.begin \in Nat /\ t[i].range.end \in Nat
    BY <2>1 DEF Dir, Extent
  <2>3. CASE i = f.ifd
    <3>1. i \in Above(t, f.ifd)
      BY <1>2, <2>3
    <3> QED BY <2>3, <3>1 DEF f
  <2>4. CASE i < f.ifd /\ i \in t[f.ifd].above
    <3>1. Within(d, t[i].range)
      BY <1>1, <2>4 DEF Nested
    <3>2. t[i].range.begin <= d.begin /\ d.end <= t[i].range.end
      BY <3>1 DEF Within
    <3>3. t[i].range.begin <= r.begin /\ r.end <= t[i].range.end
          /\ (r.begin # t[i].range.begin \/ r.end # t[i].range.end)
      BY <1>3, <2>2, <3>2
    <3>4. i \in Above(t, f.ifd)
      BY <1>2, <2>4
    <3> QED BY <3>3, <3>4 DEF Within
  <2>5. CASE i < f.ifd /\ i \notin t[f.ifd].above
    <3>1. Disjoint(t[i].range, d)
      BY <1>1, <2>5 DEF Nested
    <3>2. t[i].range.end <= d.begin \/ d.end <= t[i].range.begin
      BY <3>1 DEF Disjoint
    <3>3. t[i].range.end <= r.begin \/ r.end <= t[i].range.begin
      BY <1>3, <2>2, <3>2
    <3>4. i \notin Above(t, f.ifd)
      BY <1>2, <1>3, <2>1, <2>5
    <3> QED BY <3>3, <3>4 DEF Disjoint
  <2>6. CASE f.ifd < i
    <3>1. i \notin Above(t, f.ifd)
      BY <1>2, <1>3, <2>1, <2>6
    <3> QED BY <2>6, <3>1 DEF f
  <2> QED BY <1>3, <2>1, <2>3, <2>4, <2>5, <2>6
<1>5. ASSUME NEW j \in 1 .. Len(s) - 1 PROVE Located(r, s[j], vals[j])
  <2>1. j \in 1 .. Len(s)
    BY <1>1
  <2>2. s[j] \in CFrame /\ vals[j] \in Seq(Extent)
    BY <1>1, <2>1
  <2>3. Within(r, d)
    BY DEF f
  <2>4. Located(d, s[j], vals[j])
    BY <1>1
  <2> HIDE DEF d
  <2> QED BY <1>1, <2>2, <2>3, <2>4, LocatedWithin
<1> QED BY <1>4, <1>5 DEF f

(* A directory is constructed within those of `s`.                                   *)
Fits(t, parent, r) ==
  \A i \in 1 .. Len(t) :
    IF i \in Above(t, parent) THEN Within(r, t[i].range) /\ r # t[i].range ELSE Disjoint(t[i].range, r)

LEMMA NestedAppend ==
  ASSUME NEW t \in Seq(Dir), Nested(t), NEW parent, NEW r, Fits(t, parent, r),
         NEW u \in Seq(Dir), Len(u) = Len(t) + 1,
         \A i \in 1 .. Len(t) : u[i].above = t[i].above /\ u[i].range = t[i].range,
         u[Len(t) + 1].above = Above(t, parent), u[Len(t) + 1].range = r
  PROVE  Nested(u)
<1>1. Len(t) \in Nat
  OBVIOUS
<1> SUFFICES ASSUME NEW i \in 1 .. Len(u), NEW k \in 1 .. Len(u), i < k
             PROVE  IF i \in u[k].above THEN Within(u[k].range, u[i].range) /\ u[k].range # u[i].range
                    ELSE Disjoint(u[i].range, u[k].range)
  BY DEF Nested
<1>2. i \in 1 .. Len(t) /\ (k \in 1 .. Len(t) \/ k = Len(t) + 1)
  BY <1>1
<1>3. CASE k \in 1 .. Len(t)
  <2>1. IF i \in t[k].above THEN Within(t[k].range, t[i].range) /\ t[k].range # t[i].range
        ELSE Disjoint(t[i].range, t[k].range)
    BY <1>2, <1>3 DEF Nested
  <2> QED BY <2>1, <1>2, <1>3
<1>4. CASE k = Len(t) + 1
  <2>1. IF i \in Above(t, parent) THEN Within(r, t[i].range) /\ r # t[i].range ELSE Disjoint(t[i].range, r)
    BY <1>2 DEF Fits
  <2> QED BY <2>1, <1>2, <1>4
<1> QED BY <1>2, <1>3, <1>4

LEMMA ChainAppend ==
  ASSUME NEW t \in Seq(Dir), NEW s, NEW vals, Chain(t, s, vals),
         NEW u \in Seq(Dir), Len(u) = Len(t) + 1, \A i \in 1 .. Len(t) : u[i].range = t[i].range,
         NEW r, u[Len(t) + 1].range = r, \A j \in 1 .. Len(s) : Located(r, s[j], vals[j]),
         NEW g \in CFrame, g.ifd = Len(t) + 1, FrameOK(r, g, << >>)
  PROVE  Chain(u, Append(s, g), Append(vals, << >>))
<1> DEFINE n == Len(s)
           c == Append(s, g)
           w == Append(vals, << >>)
<1>1. s \in Seq(CFrame) /\ vals \in Seq(Seq(Extent)) /\ Len(vals) = n /\ Builds(s, 0, Len(t)) /\ Len(t) \in Nat
  BY DEF Chain
<1>2. c \in Seq(CFrame) /\ Len(c) = n + 1 /\ n \in Nat /\ c[n + 1] = g /\ \A k \in 1 .. n : c[k] = s[k]
  BY <1>1, AppendOf
<1>3. << >> \in Seq(Extent)
  OBVIOUS
<1>4. w \in Seq(Seq(Extent)) /\ Len(w) = n + 1 /\ w[n + 1] = << >> /\ \A k \in 1 .. n : w[k] = vals[k]
  BY <1>1, <1>3, AppendOf
<1>5. Builds(c, 0, Len(u))
  <2>1. 0 \in Nat /\ 0 <= Len(t)
    BY <1>1
  <2>2. Builds(c, 0, Len(t) + 1)
    BY <1>1, <2>1, BuildsAppend
  <2> QED BY <2>2
<1> HIDE DEF c, w, n
<1>6. ASSUME NEW j \in 1 .. n
      PROVE  /\ FrameOK(u[c[j].ifd].range, c[j], w[j])
             /\ \A i \in 1 .. Len(u) : c[j].ifd < i => Located(u[i].range, c[j], w[j])
  <2>1. c[j] = s[j] /\ w[j] = vals[j]
    BY <1>2, <1>4
  <2>2. s[j].ifd \in 1 .. Len(t)
    BY <1>1 DEF Builds, n
  <2>3. FrameOK(t[s[j].ifd].range, s[j], vals[j])
        /\ \A i \in 1 .. Len(t) : s[j].ifd < i => Located(t[i].range, s[j], vals[j])
    BY DEF Chain, n
  <2>4. ASSUME NEW i \in 1 .. Len(u), s[j].ifd < i PROVE Located(u[i].range, s[j], vals[j])
    <3>1. i \in 1 .. Len(t) \/ i = Len(t) + 1
      BY <1>1
    <3>2. CASE i \in 1 .. Len(t)
      BY <2>3, <2>4, <3>2
    <3>3. CASE i = Len(t) + 1
      BY <3>3 DEF n
    <3> QED BY <3>1, <3>2, <3>3
  <2> QED BY <2>1, <2>2, <2>3, <2>4
<1>7. /\ FrameOK(u[c[n + 1].ifd].range, c[n + 1], w[n + 1])
      /\ \A i \in 1 .. Len(u) : ~(c[n + 1].ifd < i)
  BY <1>1, <1>2, <1>4
<1>8. \A j \in 1 .. n + 1 : j \in 1 .. n \/ j = n + 1
  BY <1>2
<1>9. ASSUME NEW j \in 1 .. n + 1
      PROVE  /\ FrameOK(u[c[j].ifd].range, c[j], w[j])
             /\ \A i \in 1 .. Len(u) : c[j].ifd < i => Located(u[i].range, c[j], w[j])
  BY <1>6, <1>7, <1>8
<1>10. Chain(u, c, w)
  BY <1>2, <1>4, <1>5, <1>9 DEF Chain
<1> QED BY <1>10 DEF c, w

(* The frame of a directory as it is constructed: no value yet.                       *)
LEMMA Constructed ==
  ASSUME NEW r \in Extent, NEW ifd \in Nat, NEW area \in Nat, NEW n \in Nat,
         area + 2 + EntrySize * n <= r.end - r.begin
  PROVE  LET g == [ifd |-> ifd, entries |-> n, area |-> Bytes(r.begin, area), place |-> r.begin + area + 2] IN
         g \in CFrame /\ g.ifd = ifd /\ FrameOK(r, g, << >>)
<1> DEFINE a == Bytes(r.begin, area)
           p == r.begin + area + 2
           g == [ifd |-> ifd, entries |-> n, area |-> a, place |-> p]
<1>1. r.begin \in Nat /\ r.end \in Nat
  BY DEF Extent
<1>2. a \in Extent /\ a.begin = r.begin /\ a.end = r.begin + area /\ p \in Nat
  BY <1>1 DEF Bytes, Extent
<1>3. r.begin <= a.begin /\ a.end + 2 <= p /\ p + EntrySize * n <= r.end
  BY <1>1, <1>2 DEF EntrySize
<1> HIDE DEF a, p
<1>4. g \in CFrame /\ g.ifd = ifd /\ g.area = a /\ g.place = p /\ g.entries = n
  BY <1>2 DEF CFrame
<1> HIDE DEF g
<1>5. FrameOK(r, g, << >>)
  BY <1>3, <1>4, NothingYet DEF FrameOK
<1> QED BY <1>4, <1>5 DEF g, a, p

LEMMA CiffConstructInv ==
  ASSUME PInv, at = "ciff", at' = at, outcome = "none",
         NEW r \in Extent, NEW s, NEW vals, Chain(tree, s, vals),
         Fits(tree, IF s = << >> THEN 0 ELSE Last(s).ifd, r),
         \A j \in 1 .. Len(s) : Located(r, s[j], vals[j]),
         CiffConstruct(r, s, vals)
  PROVE  PInv'
<1> DEFINE parent == IF s = << >> THEN 0 ELSE Last(s).ifd
           above == Above(tree, parent)
           u == Append(Counted(tree, parent, above), IFD(parent, above, r))
<1>1. tree \in Seq(Dir) /\ Limited(tree) /\ Nested(tree) /\ Len(tree) \in Nat
  <2>1. tree \in Seq(Dir) /\ Limited(tree) /\ Nested(tree)
    BY DEF PInv, CiffInv
  <2> QED BY <2>1
<1>2. parent \in 0 .. Len(tree)
  <2>1. CASE s = << >>
    BY <2>1, <1>1
  <2>2. CASE s # << >>
    <3>1. Last(s).ifd \in 1 .. Len(tree)
      BY <1>1, <2>2, InnermostFrame
    <3> QED BY <2>2, <3>1
  <2> QED BY <2>1, <2>2
<1>3. CASE \E e \in {"CPE", "IOE"} : CiffThrown(e)
  BY <1>3, CiffThrownInv
<1>4. CASE /\ HasRoom(tree, above)
           /\ \E area \in Sizes, n \in 0 .. MaxEntries :
                /\ area + 2 + EntrySize * n <= r.end - r.begin
                /\ tree' = u
                /\ stack' = Append(s, [ifd |-> Len(tree) + 1, entries |-> n, area |-> Bytes(r.begin, area),
                                       place |-> r.begin + area + 2])
                /\ values' = Append(vals, << >>)
                /\ UNCHANGED << ranges, root, next, outcome >>
  <2>1. PICK area \in Sizes, n \in 0 .. MaxEntries :
                /\ area + 2 + EntrySize * n <= r.end - r.begin
                /\ tree' = u
                /\ stack' = Append(s, [ifd |-> Len(tree) + 1, entries |-> n, area |-> Bytes(r.begin, area),
                                       place |-> r.begin + area + 2])
                /\ values' = Append(vals, << >>)
                /\ UNCHANGED << ranges, root, next, outcome >>
    BY <1>4
  <2> DEFINE g == [ifd |-> Len(tree) + 1, entries |-> n, area |-> Bytes(r.begin, area),
                   place |-> r.begin + area + 2]
  <2>2. area \in Nat /\ n \in Nat /\ Len(tree) + 1 \in Nat
    BY <1>1, SizesAssumption, FileAssumption
  <2>3. g \in CFrame /\ g.ifd = Len(tree) + 1 /\ FrameOK(r, g, << >>)
    BY <2>1, <2>2, Constructed
  <2> HIDE DEF g
  <2>4. /\ u \in Seq(Dir) /\ Len(u) = Len(tree) + 1 /\ Limited(u)
        /\ \A i \in 1 .. Len(tree) : u[i].above = tree[i].above /\ u[i].range = tree[i].range
        /\ u[Len(tree) + 1].above = above /\ u[Len(tree) + 1].range = r
    BY <1>1, <1>2, <1>4, AppendLimited
  <2> HIDE DEF u, parent, above
  <2>5. Chain(u, Append(s, g), Append(vals, << >>))
    BY <1>1, <2>3, <2>4, ChainAppend
  <2>6. Nested(u)
    BY <1>1, <2>4, NestedAppend DEF parent, above
  <2>7. tree' = u /\ stack' = Append(s, g) /\ values' = Append(vals, << >>) /\ ranges' = ranges /\ root' = root
        /\ outcome' = "none"
    BY <2>1 DEF g
  <2>8. Chain(tree', stack', values')
    BY <2>5, <2>7
  <2> QED BY <2>4, <2>6, <2>7, <2>8, CiffResult
<1>5. (\E e \in {"CPE", "IOE"} : CiffThrown(e))
      \/ (/\ HasRoom(tree, above)
          /\ \E area \in Sizes, n \in 0 .. MaxEntries :
                /\ ~(area + 2 + EntrySize * n > r.end - r.begin)
                /\ tree' = u
                /\ stack' = Append(s, [ifd |-> Len(tree) + 1, entries |-> n, area |-> Bytes(r.begin, area),
                                       place |-> r.begin + area + 2])
                /\ values' = Append(vals, << >>)
                /\ UNCHANGED << ranges, root, next, outcome >>)
  BY Zenon DEF CiffConstruct
<1>6. ASSUME NEW area \in Sizes, NEW n \in 0 .. MaxEntries, ~(area + 2 + EntrySize * n > r.end - r.begin)
      PROVE  area + 2 + EntrySize * n <= r.end - r.begin
  <2>1. area \in Nat /\ n \in Nat /\ r.begin \in Nat /\ r.end \in Nat
    BY SizesAssumption, FileAssumption DEF Extent
  <2> QED BY <1>6, <2>1 DEF EntrySize
<1> HIDE DEF above, parent, u
<1> QED BY <1>3, <1>4, <1>5, <1>6

(* A directory that is constructed as one of the values of the innermost.             *)
LEMMA FitsIn ==
  ASSUME NEW t \in Seq(Dir), NEW s, NEW vals, Chain(t, s, vals), s # << >>, Limited(t), Nested(t),
         NEW r \in Extent, Within(r, t[Last(s).ifd].range), r # t[Last(s).ifd].range,
         \A i \in 1 .. Len(t) : Last(s).ifd < i => Disjoint(t[i].range, r),
         NEW g \in CFrame, g.ifd = Last(s).ifd, NEW new \in Seq(Extent), Located(r, g, new)
  PROVE  LET c == Front(s) \o << g >>  w == Front(vals) \o << new >> IN
         /\ c # << >> /\ Fits(t, Last(c).ifd, r)
         /\ \A j \in 1 .. Len(c) : Located(r, c[j], w[j])
<1> DEFINE n == Len(s)
           c == Front(s) \o << g >>
           w == Front(vals) \o << new >>
<1>1. n \in Nat \ {0} /\ Len(vals) = n /\ s \in Seq(CFrame) /\ vals \in Seq(Seq(Extent)) /\ vals # << >>
  BY InnermostFrame
<1>2. c \in Seq(CFrame) /\ Len(c) = n /\ c[n] = g /\ \A k \in 1 .. n - 1 : c[k] = s[k]
  BY <1>1, TopFrame
<1>3. w \in Seq(Seq(Extent)) /\ Len(w) = Len(vals) /\ w[Len(vals)] = new
      /\ \A k \in 1 .. Len(vals) - 1 : w[k] = vals[k]
  BY <1>1, TopValues
<1>4. Fits(t, Last(s).ifd, r) /\ \A j \in 1 .. n - 1 : Located(r, s[j], vals[j])
  BY Inside DEF Fits
<1> HIDE DEF c, w
<1>5. c # << >>
  BY <1>1, <1>2
<1>6. Last(c) = g
  BY <1>2, <1>5, FrontOf
<1>7. ASSUME NEW j \in 1 .. n PROVE Located(r, c[j], w[j])
  <2>1. CASE j = n
    BY <2>1, <1>1, <1>2, <1>3
  <2>2. CASE j # n
    <3>1. j \in 1 .. n - 1
      BY <1>1, <2>2
    <3> QED BY <3>1, <1>1, <1>2, <1>3, <1>4
  <2> QED BY <2>1, <2>2
<1>8. c # << >> /\ Fits(t, Last(c).ifd, r) /\ \A j \in 1 .. Len(c) : Located(r, c[j], w[j])
  BY <1>2, <1>4, <1>5, <1>6, <1>7
<1> QED BY <1>8 DEF c, w

(* A value in the area of a directory, which other directories are not in ...         *)
LEMMA ValuePlace ==
  ASSUME NEW d \in Extent, NEW f \in CFrame, NEW seen \in Seq(Extent), FrameOK(d, f, seen), f.entries > 0,
         NEW r \in Extent, Within(r, f.area), \A k \in 1 .. Len(seen) : Disjoint(seen[k], r)
  PROVE  /\ Within(r, d) /\ r # d
         /\ \A q \in Extent : Located(q, f, seen) => Disjoint(q, r)
<1>1. /\ d.begin \in Nat /\ d.end \in Nat /\ f.area.begin \in Nat /\ f.area.end \in Nat
      /\ f.place \in Nat /\ f.entries \in Nat /\ r.begin \in Nat /\ r.end \in Nat
  BY DEF Extent, CFrame
<1>2. d.begin <= f.area.begin /\ f.area.end + 2 <= f.place /\ f.place + 10 <= d.end
  <2>1. f.area.end + 2 <= f.place /\ f.place + 10 * f.entries <= d.end /\ f.entries > 0
    BY DEF FrameOK, EntrySize
  <2>2. f.area.end + 2 <= f.place /\ f.place + 10 <= d.end
    BY <1>1, <2>1, EntryEnds
  <2> QED BY <2>2 DEF FrameOK
<1>3. f.area.begin <= r.begin /\ r.end <= f.area.end
  BY DEF Within
<1>4. d.begin <= r.begin /\ r.end < d.end
  <2>1. d.begin <= r.begin
    BY <1>1, <1>2, <1>3
  <2>2. r.end < d.end
    BY <1>1, <1>2, <1>3
  <2> QED BY <2>1, <2>2
<1>5. Within(r, d) /\ r # d
  BY <1>1, <1>4 DEF Within
<1>6. ASSUME NEW q \in Extent, Located(q, f, seen) PROVE Disjoint(q, r)
  <2>1. q.begin \in Nat /\ q.end \in Nat
    BY DEF Extent
  <2>2. CASE \E v \in 1 .. Len(seen) : Within(q, seen[v])
    <3>1. PICK v \in 1 .. Len(seen) : Within(q, seen[v])
      BY <2>2
    <3>2. seen[v] \in Extent
      OBVIOUS
    <3>3. seen[v].begin \in Nat /\ seen[v].end \in Nat
      BY <3>2 DEF Extent
    <3>4. seen[v].begin <= q.begin /\ q.end <= seen[v].end
      BY <3>1 DEF Within
    <3>5. seen[v].end <= r.begin \/ r.end <= seen[v].begin
      BY DEF Disjoint
    <3>6. q.end <= r.begin \/ r.end <= q.begin
      BY <1>1, <2>1, <3>3, <3>4, <3>5
    <3> QED BY <3>6 DEF Disjoint
  <2>3. CASE f.area.end + 2 <= q.begin /\ q.end <= f.place
    <3>1. r.end <= q.begin
      BY <1>1, <1>3, <2>1, <2>3
    <3> QED BY <3>1 DEF Disjoint
  <2> QED BY <1>6, <2>2, <2>3 DEF Located
<1> QED BY <1>5, <1>6

(* ... and one in the entry.                                                          *)
LEMMA InlinePlace ==
  ASSUME NEW d \in Extent, NEW f \in CFrame, NEW seen \in Seq(Extent), FrameOK(d, f, seen), f.entries > 0
  PROVE  LET r == Bytes(f.place + 2, InlineSize) IN
         /\ r \in Extent /\ Within(r, d) /\ r # d
         /\ \A q \in Extent : Located(q, f, seen) => Disjoint(q, r)
         /\ \A g \in CFrame : g.area = f.area /\ g.place = f.place + EntrySize => Located(r, g, seen)
<1> DEFINE r == Bytes(f.place + 2, InlineSize)
<1>1. /\ d.begin \in Nat /\ d.end \in Nat /\ f.area.begin \in Nat /\ f.area.end \in Nat
      /\ f.area.begin <= f.area.end /\ f.place \in Nat /\ f.entries \in Nat
  BY DEF Extent, CFrame
<1>2. d.begin <= f.area.begin /\ f.area.end + 2 <= f.place /\ f.place + 10 <= d.end
  <2>1. f.area.end + 2 <= f.place /\ f.place + 10 * f.entries <= d.end /\ f.entries > 0
    BY DEF FrameOK, EntrySize
  <2>2. f.area.end + 2 <= f.place /\ f.place + 10 <= d.end
    BY <1>1, <2>1, EntryEnds
  <2> QED BY <2>2 DEF FrameOK
<1>3. r.begin = f.place + 2 /\ r.end = f.place + 10 /\ r = [begin |-> f.place + 2, end |-> f.place + 10]
  BY <1>1 DEF Bytes, InlineSize
<1>4. r \in Extent
  BY <1>1, <1>3 DEF Extent
<1> HIDE DEF r
<1>5. d.begin < r.begin /\ r.end <= d.end
  <2>1. d.begin < r.begin
    <3>1. r.begin = f.place + 2
      BY <1>3
    <3>2. d.begin <= f.place
      BY <1>1, <1>2
    <3> QED BY <1>1, <3>1, <3>2
  <2>2. r.end <= d.end
    BY <1>1, <1>2, <1>3
  <2> QED BY <2>1, <2>2
<1>6. r.begin \in Nat /\ r.end \in Nat
  BY <1>1, <1>3
<1>7. Within(r, d) /\ r # d
  BY <1>1, <1>5, <1>6 DEF Within
<1>8. ASSUME NEW q \in Extent, Located(q, f, seen) PROVE Disjoint(q, r)
  <2>1. q.begin \in Nat /\ q.end \in Nat
    BY DEF Extent
  <2>2. CASE \E v \in 1 .. Len(seen) : Within(q, seen[v])
    <3>1. PICK v \in 1 .. Len(seen) : Within(q, seen[v])
      BY <2>2
    <3>2. seen[v] \in Extent
      OBVIOUS
    <3>3. seen[v].end \in Nat
      BY <3>2 DEF Extent
    <3>4. q.end <= seen[v].end
      BY <3>1 DEF Within
    <3>5. seen[v].end <= f.area.end
      BY DEF FrameOK, Within
    <3>6. q.end <= r.begin
      BY <1>1, <1>2, <1>3, <2>1, <3>3, <3>4, <3>5
    <3> QED BY <3>6 DEF Disjoint
  <2>3. CASE f.area.end + 2 <= q.begin /\ q.end <= f.place
    <3>1. q.end <= r.begin
      BY <1>1, <1>3, <2>1, <2>3
    <3> QED BY <3>1 DEF Disjoint
  <2> QED BY <1>8, <2>2, <2>3 DEF Located
<1>9. ASSUME NEW g \in CFrame, g.area = f.area, g.place = f.place + EntrySize PROVE Located(r, g, seen)
  <2>1. g.area.end + 2 <= r.begin /\ r.end <= g.place
    BY <1>1, <1>2, <1>3, <1>9 DEF EntrySize
  <2> QED BY <2>1 DEF Located
<1> QED BY <1>4, <1>7, <1>8, <1>9 DEF r

(* The innermost directory under construction, and what is left of it after an entry.  *)
LEMMA CiffInnermost ==
  ASSUME PInv, at = "ciff", outcome = "none", AtCiffEntry
  PROVE  LET f == Last(stack)  d == tree[f.ifd].range  seen == Last(values) IN
         /\ tree \in Seq(Dir) /\ Limited(tree) /\ Nested(tree) /\ Chain(tree, stack, values)
         /\ stack # << >> /\ f.entries > 0
         /\ f \in CFrame /\ d \in Extent /\ seen \in Seq(Extent) /\ FrameOK(d, f, seen)
         /\ \A i \in 1 .. Len(tree) : f.ifd < i => tree[i].range \in Extent /\ Located(tree[i].range, f, seen)
         /\ values \in Seq(Seq(Extent)) /\ values # << >>
<1>1. tree \in Seq(Dir) /\ Limited(tree) /\ Nested(tree) /\ Chain(tree, stack, values)
  BY DEF PInv, CiffInv
<1>2. stack # << >> /\ Last(stack).entries > 0
  BY DEF AtCiffEntry
<1>3. \A i \in 1 .. Len(tree) : tree[i] \in Dir
  BY <1>1
<1>4. \A i \in 1 .. Len(tree) : tree[i].range \in Extent
  BY <1>3 DEF Dir
<1> QED BY <1>1, <1>2, <1>4, InnermostFrame

(* The frames and the values after an entry whose value makes the values `new`.        *)
LEMMA ReadChain ==
  ASSUME PInv, at = "ciff", outcome = "none", AtCiffEntry,
         NEW new \in Seq(Extent), Apart(new),
         \A m \in 1 .. Len(new) : Within(new[m], Last(stack).area),
         \A k \in 1 .. Len(Last(values)) : \E m \in 1 .. Len(new) : new[m] = Last(values)[k]
  PROVE  Chain(tree, AfterEntry, Front(values) \o << new >>)
<1>1. tree \in Seq(Dir) /\ Chain(tree, stack, values) /\ stack # << >> /\ Last(stack).entries > 0
  BY CiffInnermost
<1> QED BY <1>1, NextEntry DEF AfterEntry, Top

LEMMA ReadPlain ==
  ASSUME PInv, at = "ciff", at' = at, outcome = "none", NEW s, NEW vals, Chain(tree, s, vals),
         stack' = s, values' = vals, UNCHANGED << tree, ranges, root, outcome >>
  PROVE  PInv'
<1>1. tree \in Seq(Dir) /\ Limited(tree) /\ Nested(tree)
  BY DEF PInv, CiffInv
<1>2. tree' \in Seq(Dir) /\ Limited(tree') /\ Nested(tree') /\ Chain(tree', stack', values')
  BY <1>1
<1> QED BY <1>2, CiffResult

LEMMA ReadIFD ==
  ASSUME PInv, at = "ciff", at' = at, outcome = "none", AtCiffEntry,
         NEW new \in Seq(Extent), Chain(tree, AfterEntry, Front(values) \o << new >>),
         NEW r \in Extent, Within(r, tree[Last(stack).ifd].range), r # tree[Last(stack).ifd].range,
         \A q \in Extent : Located(q, Last(stack), Last(values)) => Disjoint(q, r),
         Located(r, [Last(stack) EXCEPT !.entries = @ - 1, !.place = @ + EntrySize], new),
         CiffConstruct(r, AfterEntry, Front(values) \o << new >>)
  PROVE  PInv'
<1> DEFINE f == Last(stack)
           g == [f EXCEPT !.entries = @ - 1, !.place = @ + EntrySize]
           c == Front(stack) \o << g >>
           w == Front(values) \o << new >>
<1>1. /\ tree \in Seq(Dir) /\ Limited(tree) /\ Nested(tree) /\ Chain(tree, stack, values)
      /\ stack # << >> /\ f.entries > 0 /\ f \in CFrame
      /\ \A i \in 1 .. Len(tree) : f.ifd < i => tree[i].range \in Extent /\ Located(tree[i].range, f, Last(values))
  BY CiffInnermost
<1>2. g \in CFrame /\ g.ifd = f.ifd
  BY <1>1, EntryRead
<1>3. \A i \in 1 .. Len(tree) : f.ifd < i => Disjoint(tree[i].range, r)
  BY <1>1
<1>4. Located(r, g, new)
  OBVIOUS
<1>5. Chain(tree, c, w) /\ CiffConstruct(r, c, w)
  BY DEF AfterEntry, Top
<1> HIDE DEF g
<1>6. c # << >> /\ Fits(tree, Last(c).ifd, r) /\ \A j \in 1 .. Len(c) : Located(r, c[j], w[j])
  BY <1>1, <1>2, <1>3, <1>4, FitsIn
<1> HIDE DEF c, w
<1>7. Fits(tree, IF c = << >> THEN 0 ELSE Last(c).ifd, r)
  BY <1>6
<1> QED BY <1>5, <1>6, <1>7, CiffConstructInv

LEMMA CiffValueInv ==
  ASSUME PInv, at = "ciff", at' = at, outcome = "none",
         NEW offset \in Sizes, NEW size \in Sizes, NEW isIFD \in BOOLEAN, CiffValue(offset, size, isIFD)
  PROVE  PInv'
<1> DEFINE f == Last(stack)
           d == tree[f.ifd].range
           seen == Last(values)
           value == Bytes(f.area.begin + offset, size)
<1>1. AtCiffEntry
  BY DEF CiffValue
<1>2. /\ f \in CFrame /\ d \in Extent /\ seen \in Seq(Extent) /\ FrameOK(d, f, seen) /\ f.entries > 0
      /\ values \in Seq(Seq(Extent)) /\ values # << >>
  BY <1>1, CiffInnermost
<1>3. /\ value \in Extent /\ value.begin = f.area.begin + offset /\ value.end \in Nat
      /\ f.area.begin \in Nat /\ f.area.end \in Nat /\ offset \in Nat /\ size \in Nat
  <2>1. f.area.begin \in Nat /\ f.area.end \in Nat /\ offset \in Nat /\ size \in Nat
    BY <1>2, SizesAssumption DEF CFrame, Extent
  <2>2. f.area.begin + offset \in Nat
    BY <2>1
  <2> HIDE DEF f
  <2> QED BY <2>1, <2>2, BytesExtent
<1>4. CASE value.end > f.area.end
  <2>1. CiffThrown("IOE")
    BY <1>4 DEF CiffValue
  <2> QED BY <2>1, CiffThrownInv
<1>5. CASE ~(value.end > f.area.end)
  <2>1. PICK p \in 1 .. Len(seen) + 1 :
          /\ IsPartitionPoint(seen, value, p)
          /\ LET all == Front(values) \o << Inserted(seen, value, p) >> IN
             IF OverlapsExisting(seen, value, p) THEN CiffThrown("CPE")
             ELSE IF isIFD THEN CiffConstruct(value, AfterEntry, all)
             ELSE /\ stack' = AfterEntry
                  /\ values' = all
                  /\ UNCHANGED << tree, ranges, root, next, outcome >>
    BY <1>5 DEF CiffValue
  <2>2. CASE OverlapsExisting(seen, value, p)
    BY <2>1, <2>2, CiffThrownInv
  <2>3. CASE ~OverlapsExisting(seen, value, p)
    <3> DEFINE new == Inserted(seen, value, p)
    <3>1. Within(value, f.area)
      BY <1>3, <1>5 DEF Within
    <3>2. Apart(seen) /\ \A k \in 1 .. Len(seen) : Within(seen[k], f.area)
      BY <1>2 DEF FrameOK
    <3> HIDE DEF f, seen, value
    <3>3. /\ new \in Seq(Extent) /\ Apart(new) /\ Len(new) = Len(seen) + 1
          /\ \A k \in 1 .. Len(seen) : Disjoint(seen[k], value)
          /\ \A k \in 1 .. Len(seen) : \E m \in 1 .. Len(seen) + 1 : new[m] = seen[k]
          /\ \A m \in 1 .. Len(seen) + 1 : new[m] = value \/ \E k \in 1 .. Len(seen) : new[m] = seen[k]
          /\ \E m \in 1 .. Len(seen) + 1 : new[m] = value
      <4>1. seen \in Seq(Extent) /\ value \in Extent /\ Apart(seen) /\ IsPartitionPoint(seen, value, p)
        BY <1>2, <1>3, <2>1, <3>2
      <4> QED BY <2>3, <4>1, InsertApart
    <3> HIDE DEF new
    <3>4. \A m \in 1 .. Len(new) : Within(new[m], f.area)
      BY <3>1, <3>2, <3>3
    <3>5. Chain(tree, AfterEntry, Front(values) \o << new >>)
      BY <1>1, <3>3, <3>4, ReadChain DEF f, seen
    <3>6. CASE isIFD
      <4>1. CiffConstruct(value, AfterEntry, Front(values) \o << new >>)
        BY <2>1, <2>3, <3>6 DEF new
      <4>2. Within(value, d) /\ value # d /\ \A q \in Extent : Located(q, f, seen) => Disjoint(q, value)
        BY <1>2, <1>3, <3>1, <3>3, ValuePlace
      <4>3. PICK m \in 1 .. Len(new) : new[m] = value
        BY <3>3
      <4>4. Within(value, new[m])
        BY <1>3, <4>3 DEF Within, Extent
      <4>5. Located(value, [f EXCEPT !.entries = @ - 1, !.place = @ + EntrySize], new)
        BY <4>4 DEF Located
      <4> QED BY <1>1, <1>3, <3>3, <3>5, <4>1, <4>2, <4>5, ReadIFD DEF f, seen
    <3>7. CASE ~isIFD
      <4>1. stack' = AfterEntry /\ values' = Front(values) \o << new >>
            /\ UNCHANGED << tree, ranges, root, outcome >>
        BY <2>1, <2>3, <3>7 DEF new
      <4> QED BY <3>5, <4>1, ReadPlain
    <3> QED BY <3>6, <3>7
  <2> QED BY <2>2, <2>3
<1> QED BY <1>4, <1>5

LEMMA InlineValueInv ==
  ASSUME PInv, at = "ciff", at' = at, outcome = "none", NEW isIFD \in BOOLEAN, InlineValue(isIFD)
  PROVE  PInv'
<1> DEFINE f == Last(stack)
           d == tree[f.ifd].range
           seen == Last(values)
           value == Bytes(f.place + 2, InlineSize)
           g == [f EXCEPT !.entries = @ - 1, !.place = @ + EntrySize]
<1>1. AtCiffEntry
  BY DEF InlineValue
<1>2. /\ f \in CFrame /\ d \in Extent /\ seen \in Seq(Extent) /\ FrameOK(d, f, seen) /\ f.entries > 0
      /\ values \in Seq(Seq(Extent)) /\ values # << >>
  BY <1>1, CiffInnermost
<1>3. Front(values) \o << seen >> = values
  BY <1>2, FrontLast
<1>4. Apart(seen) /\ \A k \in 1 .. Len(seen) : Within(seen[k], f.area)
  BY <1>2 DEF FrameOK
<1>5. Chain(tree, AfterEntry, Front(values) \o << seen >>)
  BY <1>1, <1>2, <1>4, ReadChain
<1>6. CASE isIFD
  <2>1. CiffConstruct(value, AfterEntry, Front(values) \o << seen >>)
    BY <1>3, <1>6 DEF InlineValue
  <2>2. g \in CFrame /\ g.area = f.area /\ g.place = f.place + EntrySize
    BY <1>2, EntryRead
  <2> HIDE DEF g, f, seen, d
  <2>3. /\ value \in Extent /\ Within(value, d) /\ value # d
        /\ \A q \in Extent : Located(q, f, seen) => Disjoint(q, value)
        /\ Located(value, g, seen)
    BY <1>2, <2>2, InlinePlace
  <2> HIDE DEF value
  <2> QED BY <1>1, <1>2, <1>5, <2>1, <2>3, ReadIFD DEF f, seen, d, g
<1>7. CASE ~isIFD
  <2>1. stack' = AfterEntry /\ values' = Front(values) \o << seen >>
        /\ UNCHANGED << tree, ranges, root, outcome >>
    BY <1>3, <1>7 DEF InlineValue
  <2> HIDE DEF seen
  <2> QED BY <1>5, <2>1, ReadPlain
<1> QED BY <1>6, <1>7

LEMMA CiffStepInv ==
  ASSUME PInv, at = "ciff", CiffStep, UNCHANGED outer PROVE PInv'
<1>1. outcome = "none" /\ values # << >> /\ at' = at
  BY DEF CiffStep, outer
<1>2. ASSUME NEW offset \in Sizes, NEW size \in Sizes, NEW isIFD \in BOOLEAN, CiffValue(offset, size, isIFD)
      PROVE  PInv'
  BY <1>1, <1>2, CiffValueInv
<1>3. ASSUME NEW isIFD \in BOOLEAN, InlineValue(isIFD) PROVE PInv'
  BY <1>1, <1>3, InlineValueInv
<1>4. CASE BadLocation
  BY <1>1, <1>4, CiffThrownInv DEF BadLocation
<1>5. CASE CiffFinish
  <2>1. tree \in Seq(Dir) /\ Limited(tree) /\ Nested(tree) /\ Chain(tree, stack, values)
    BY DEF PInv, CiffInv
  <2>2. /\ stack # << >> /\ stack' = Front(stack) /\ values' = Front(values) /\ UNCHANGED << tree, ranges, root >>
        /\ outcome' = IF Len(stack) = 1 THEN "ok" ELSE "none"
    BY <1>5 DEF CiffFinish
  <2>3. Chain(tree, Front(stack), Front(values))
    BY <2>1, <2>2, ChainFront
  <2>4. tree' \in Seq(Dir) /\ Limited(tree') /\ Nested(tree') /\ Chain(tree', stack', values')
    BY <2>1, <2>2, <2>3
  <2>5. outcome' # "none" => values' = << >>
    <3> SUFFICES ASSUME outcome' # "none" PROVE values' = << >>
      OBVIOUS
    <3>1. Len(stack) = 1
      BY <2>2
    <3>2. stack \in Seq(CFrame) /\ Len(values') = Len(stack') /\ values' \in Seq(Seq(Extent))
      BY <2>1, <2>4 DEF Chain
    <3>3. Len(stack') = 0
      <4>1. stack \in Seq(CFrame) /\ stack # << >>
        BY <2>2, <3>2
      <4>2. Len(Front(stack)) = Len(stack) - 1
        BY <4>1, FrontOf
      <4> QED BY <2>2, <3>1, <4>2
    <3> QED BY <3>2, <3>3
  <2> QED BY <1>1, <2>2, <2>4, <2>5, CiffResult
<1> QED BY <1>1, <1>2, <1>3, <1>4, <1>5 DEF CiffStep

LEMMA CiffHeaderInv ==
  ASSUME PInv, at = "ciff", at' = at, Idle, tree = << >>, CiffHeader PROVE PInv'
<1>1. outcome = "none"
  BY DEF Idle
<1>2. ASSUME NEW e \in {"CPE", "IOE"}, CiffThrown(e) PROVE PInv'
  BY <1>2, CiffThrownInv
<1>3. ASSUME NEW begin \in Places, begin <= FileSize,
             CiffConstruct(Bytes(begin, FileSize - begin), << >>, << >>)
      PROVE  PInv'
  <2> DEFINE r == Bytes(begin, FileSize - begin)
  <2>1. begin \in Nat /\ FileSize - begin \in Nat
    BY <1>3, FileAssumption
  <2>2. r \in Extent
    BY <2>1, BytesExtent
  <2> HIDE DEF r
  <2>3. Chain(tree, << >>, << >>)
    BY NothingYet
  <2>4. Fits(tree, IF << >> = << >> THEN 0 ELSE Last(<< >>).ifd, r)
    BY DEF Fits
  <2>5. \A j \in 1 .. Len(<< >>) : Located(r, << >>[j], << >>[j])
    OBVIOUS
  <2>6. CiffConstruct(r, << >>, << >>)
    BY <1>3 DEF r
  <2> QED BY <1>1, <2>2, <2>3, <2>4, <2>5, <2>6, CiffConstructInv
<1> QED BY <1>2, <1>3 DEF CiffHeader
-----------------------------------------------------------------------------
(* From parser to parser. *)
LEMMA MovesInv ==
  ASSUME PInv, at # "ciff", at' \notin {"size", "ciff"}, outcome' = "none", root = 0,
         UNCHANGED << tree, ranges, stack, root, values >>,
         at' = "fiff second" => tree # << >>
  PROVE  PInv'
<1>1. /\ tree \in Seq(Dir) /\ Limited(tree) /\ ranges \in Seq(Extent) /\ Apart(ranges)
      /\ root \in 0 .. Len(tree) /\ values = << >> /\ stack \in Seq(TFrame) /\ Builds(stack, root, Len(tree))
      /\ stack = << >>
  BY DEF PInv
<1>2. /\ tree' = tree /\ ranges' = ranges /\ root' = root /\ values' = values /\ stack' = stack
  OBVIOUS
<1>3. /\ tree' \in Seq(Dir) /\ Limited(tree') /\ ranges' \in Seq(Extent) /\ Apart(ranges')
      /\ root' \in 0 .. Len(tree') /\ values' = << >> /\ stack' \in Seq(TFrame) /\ Builds(stack', root', Len(tree'))
      /\ stack' = << >> /\ root' = 0
  BY <1>1, <1>2
<1>4. at' = "fiff second" => tree' # << >>
  BY <1>2
<1> QED BY <1>3, <1>4 DEF PInv

LEMMA ParseInv ==
  ASSUME PInv, Idle, at \in TiffAt, NEW t \in Seq(Dir), Limited(t), NEW parent \in 0 .. Len(t),
         at = "fiff second" => t # << >>, Parse(t, parent)
  PROVE  PInv'
<1>1. at' = at /\ values' = values
  BY DEF Parse, outer
<1>2. CASE Header(t, parent)
  BY <1>1, <1>2, HeaderInv
<1>3. ASSUME NEW e \in {"TPE", "IOE"}, NoHeader(t, e) PROVE PInv'
  BY <1>1, <1>3, NoHeaderInv
<1> QED BY <1>2, <1>3 DEF Parse

LEMMA EmptyTree == << >> \in Seq(Dir) /\ Limited(<< >>) /\ 0 \in 0 .. Len(<< >>)
<1>1. << >> \in Seq(Dir)
  OBVIOUS
<1>2. 0 \in 0 .. Len(<< >>)
  BY <1>1, Bounds, Zenon
<1> QED BY <1>1, <1>2, NothingYet

LEMMA SizeInv == ASSUME PInv, Size PROVE PInv'
<1>1. at = "size" /\ outcome = "none" /\ root = 0
  BY DEF Size, PInv, TiffAt
<1>2. CASE Made("RDE")
  BY <1>1, <1>2, MadeInv DEF TiffAt
<1>3. CASE /\ at' = CASE magic = "MRM" -> "mrw" [] magic = "FUJIFILMCCD-RAW" -> "fiff" [] OTHER -> "tiff"
           /\ UNCHANGED inner
  <2>1. at' \in {"mrw", "fiff", "tiff"}
    BY <1>3
  <2>2. UNCHANGED << tree, ranges, stack, root, values >> /\ outcome' = "none"
    BY <1>1, <1>3 DEF inner
  <2> QED BY <1>1, <2>1, <2>2, MovesInv
<1> QED BY <1>2, <1>3 DEF Size

LEMMA MrwInv == ASSUME PInv, MrwBlock \/ MrwParsed \/ MrwDone PROVE PInv'
<1>1. at = "mrw" /\ at \in TiffAt
  BY DEF MrwBlock, MrwParsed, MrwDone, TiffAt
<1>2. CASE MrwBlock
  <2>1. Idle /\ outcome = "none" /\ root = 0
    BY <1>2 DEF MrwBlock, Idle
  <2>2. ASSUME NEW e \in {"RDE", "IOE"}, Leaves(e) PROVE PInv'
    BY <2>1, <2>2, LeavesInv
  <2>3. CASE UNCHANGED << inner, at, magic, made >>
    BY <1>1, <2>1, <2>3, MovesInv DEF inner
  <2>4. CASE Parse(<< >>, 0)
    BY <1>1, <2>1, <2>4, EmptyTree, ParseInv
  <2> QED BY <1>2, <2>2, <2>3, <2>4 DEF MrwBlock
<1>3. CASE MrwParsed
  <2>1. outcome # "none"
    BY <1>3 DEF MrwParsed
  <2>2. CASE outcome = "ok"
    <3>1. Forgets /\ at' = at
      BY <1>3, <2>2 DEF MrwParsed
    <3>2. root = 0 /\ stack = << >> /\ values = << >>
      BY <2>1, Quiet
    <3> QED BY <1>1, <3>1, <3>2, ForgetsInv
  <2>3. CASE outcome # "ok"
    <3>1. Leaves(outcome)
      BY <1>3, <2>3 DEF MrwParsed
    <3> QED BY <2>1, <3>1, LeavesInv
  <2> QED BY <2>2, <2>3
<1>4. CASE MrwDone
  <2>1. Idle
    BY <1>4 DEF MrwDone
  <2>2. CASE Made("MrwDecoder")
    BY <2>1, <2>2, MadeInv
  <2>3. CASE Leaves("IOE")
    BY <2>1, <2>3, LeavesInv
  <2>4. CASE Leaves("RDE")
    BY <2>1, <2>4, LeavesInv
  <2> QED BY <1>4, <2>2, <2>3, <2>4 DEF MrwDone
<1> QED BY <1>2, <1>3, <1>4

LEMMA FiffSubIFDInv == ASSUME PInv, FiffSubIFD PROVE PInv'
<1>1. at = "fiff" /\ outcome # "none"
  BY DEF FiffSubIFD
<1>2. root = 0 /\ stack = << >> /\ values = << >>
  BY <1>1, Quiet
<1>3. CASE \E e \in {outcome, "TPE"} : Leaves(e)
  BY <1>1, <1>3, LeavesInv
<1>4. CASE /\ outcome = "ok" /\ HasRoom(tree, Above(tree, 1))
           /\ tree' = Append(Counted(tree, 1, Above(tree, 1)), IFD(1, Above(tree, 1), Bytes(0, 0)))
           /\ outcome' = "none"
           /\ Goes("fiff second")
           /\ UNCHANGED << ranges, stack, root, next, values >>
  <2>1. tree \in Seq(Dir) /\ Limited(tree) /\ tree # << >> /\ ranges \in Seq(Extent) /\ Apart(ranges)
    BY <1>1, <1>4 DEF PInv
  <2>2. 1 \in 0 .. Len(tree) /\ 0 \in Nat
    BY <2>1
  <2>3. Bytes(0, 0) \in Extent
    BY <2>2, EmptyExtent
  <2>4. tree' \in Seq(Dir) /\ Limited(tree') /\ Len(tree') = Len(tree) + 1 /\ HasRoom(tree, Above(tree, 1))
    BY <1>4, <2>1, <2>2, <2>3, AppendLimited
  <2>5. tree' # << >>
    BY <2>1, <2>4
  <2>6. /\ ranges' = ranges /\ stack' = << >> /\ root' = 0 /\ values' = << >> /\ at' = "fiff second"
        /\ outcome' = "none"
    BY <1>2, <1>4 DEF Goes
  <2>7. Builds(stack', root', Len(tree')) /\ stack' \in Seq(TFrame)
    BY <2>6, NothingYet
  <2>8. root' \in 0 .. Len(tree')
    BY <2>4, <2>6, Bounds
  <2> QED BY <2>1, <2>4, <2>5, <2>6, <2>7, <2>8 DEF PInv
<1> QED BY <1>3, <1>4 DEF FiffSubIFD

LEMMA FiffInv == ASSUME PInv, FiffFirst \/ FiffSecond \/ FiffSecondParsed \/ FiffThird PROVE PInv'
<1>1. CASE FiffFirst
  <2>1. at = "fiff" /\ at \in TiffAt /\ Idle
    BY <1>1 DEF FiffFirst, TiffAt
  <2>2. ASSUME NEW e \in {"FPE", "IOE"}, Leaves(e) PROVE PInv'
    BY <2>1, <2>2, LeavesInv
  <2>3. CASE Parse(<< >>, 0)
    BY <2>1, <2>3, EmptyTree, ParseInv
  <2> QED BY <1>1, <2>2, <2>3 DEF FiffFirst
<1>2. CASE FiffSecond
  <2>1. at = "fiff second" /\ at \in TiffAt /\ Idle /\ outcome = "none" /\ root = 0
    BY <1>2 DEF FiffSecond, TiffAt, Idle
  <2>2. CASE Goes("fiff third") /\ UNCHANGED inner
    <3>1. at' = "fiff third" /\ outcome' = "none" /\ UNCHANGED << tree, ranges, stack, root, values >>
      BY <2>1, <2>2 DEF Goes, inner
    <3> QED BY <2>1, <3>1, MovesInv
  <2>3. CASE Parse(tree, 1)
    <3>1. tree \in Seq(Dir) /\ Limited(tree) /\ tree # << >>
      BY <2>1 DEF PInv
    <3>2. 1 \in 0 .. Len(tree)
      BY <3>1
    <3> QED BY <2>1, <2>3, <3>1, <3>2, ParseInv
  <2> QED BY <1>2, <2>2, <2>3 DEF FiffSecond
<1>3. CASE FiffSecondParsed
  <2>1. at = "fiff second" /\ outcome # "none"
    BY <1>3 DEF FiffSecondParsed
  <2>2. root = 0
    BY <2>1, Quiet
  <2>3. ASSUME NEW e \in {outcome, "FPE"}, Leaves(e) PROVE PInv'
    BY <2>1, <2>3, LeavesInv
  <2>4. CASE Returns /\ Goes("fiff third")
    <3>1. at' = "fiff third" /\ outcome' = "none" /\ UNCHANGED << tree, ranges, stack, root, values >>
      BY <2>4 DEF Returns, Goes
    <3> QED BY <2>1, <2>2, <3>1, MovesInv
  <2> QED BY <1>3, <2>3, <2>4 DEF FiffSecondParsed
<1>4. CASE FiffThird
  <2>1. at \notin TiffAt \cup {"ciff"}
    BY <1>4 DEF FiffThird, TiffAt
  <2>2. ASSUME NEW e \in {"FPE", "IOE", "TPE"}, Leaves(e) PROVE PInv'
    BY <2>1, <2>2, LeavesInv
  <2>3. CASE Made("RafDecoder")
    BY <2>1, <2>3, MadeInv
  <2> QED BY <1>4, <2>2, <2>3 DEF FiffThird
<1> QED BY <1>1, <1>2, <1>3, <1>4

LEMMA TiffInv == ASSUME PInv, TiffFirst \/ \E id \in Ids : TiffParsed(id) PROVE PInv'
<1>1. CASE TiffFirst
  <2>1. at = "tiff" /\ at \in TiffAt /\ Idle /\ at' = at /\ values' = values
    BY <1>1 DEF TiffFirst, TiffAt, outer
  <2>2. CASE Header(<< >>, 0)
    BY <2>1, <2>2, EmptyTree, HeaderInv
  <2>3. CASE NoHeader(<< >>, "TPE")
    BY <2>1, <2>3, EmptyTree, NoHeaderInv
  <2> QED BY <1>1, <2>2, <2>3 DEF TiffFirst
<1>2. ASSUME NEW id \in Ids, TiffParsed(id) PROVE PInv'
  <2>1. outcome # "none"
    BY <1>2 DEF TiffParsed
  <2>2. ASSUME NEW e \in {outcome, "RDE", "TPE", "IOE"}, Leaves(e) PROVE PInv'
    BY <2>1, <2>2, LeavesInv
  <2>3. CASE Made(Appropriate(id))
    BY <2>1, <2>3, MadeInv
  <2> QED BY <1>2, <2>2, <2>3 DEF TiffParsed
<1> QED BY <1>1, <1>2

LEMMA CiffInvStep == ASSUME PInv, CiffFirst \/ CiffParsed \/ Chdk PROVE PInv'
<1>1. CASE CiffFirst
  <2>1. at = "ciff" /\ Idle /\ tree = << >> /\ at' = at
    BY <1>1 DEF CiffFirst, outer
  <2>2. CASE CiffHeader
    BY <2>1, <2>2, CiffHeaderInv
  <2>3. CASE CiffThrown("CPE")
    BY <2>1, <2>3, CiffThrownInv
  <2> QED BY <1>1, <2>2, <2>3 DEF CiffFirst
<1>2. CASE CiffParsed
  <2>1. outcome # "none"
    BY <1>2 DEF CiffParsed
  <2>2. ASSUME NEW e \in {outcome, "CPE"}, Leaves(e) PROVE PInv'
    BY <2>1, <2>2, LeavesInv
  <2>3. CASE Made("CrwDecoder")
    BY <2>1, <2>3, MadeInv
  <2> QED BY <1>2, <2>2, <2>3 DEF CiffParsed
<1>3. CASE Chdk
  <2>1. at \notin TiffAt \cup {"ciff"}
    BY <1>3 DEF Chdk, TiffAt
  <2> QED BY <1>3, <2>1, MadeInv DEF Chdk
<1> QED BY <1>1, <1>2, <1>3

LEMMA ParserNextInv == PInv /\ ParserNext => PInv'
<1> SUFFICES ASSUME PInv, ParserNext PROVE PInv'
  OBVIOUS
<1>1. CASE TiffStep /\ UNCHANGED values /\ UNCHANGED outer
  BY <1>1, TiffStepInv
<1>2. CASE CiffStep /\ UNCHANGED outer
  <2>1. at = "ciff"
    BY <1>2 DEF CiffStep, PInv
  <2> QED BY <1>2, <2>1, CiffStepInv
<1>3. CASE Size
  BY <1>3, SizeInv
<1>4. CASE MrwBlock \/ MrwParsed \/ MrwDone
  BY <1>4, MrwInv
<1>5. CASE FiffSubIFD
  BY <1>5, FiffSubIFDInv
<1>6. CASE FiffFirst \/ FiffSecond \/ FiffSecondParsed \/ FiffThird
  BY <1>6, FiffInv
<1>7. CASE TiffFirst \/ \E id \in Ids : TiffParsed(id)
  BY <1>7, TiffInv
<1>8. CASE CiffFirst \/ CiffParsed \/ Chdk
  BY <1>8, CiffInvStep
<1> QED BY <1>1, <1>2, <1>3, <1>4, <1>5, <1>6, <1>7, <1>8 DEF ParserNext

LEMMA NoParserStep == PInv /\ UNCHANGED << inner, outer >> => PInv'
<1> SUFFICES ASSUME PInv, UNCHANGED << inner, outer >> PROVE PInv'
  OBVIOUS
<1>1. tree' = tree /\ ranges' = ranges /\ stack' = stack /\ root' = root /\ outcome' = outcome /\ values' = values
      /\ at' = at
  BY DEF inner, outer
<1>2. CiffInv => CiffInv'
  BY <1>1 DEF CiffInv
<1> QED BY <1>1, <1>2 DEF PInv

LEMMA ParsersKeep == PInv => LimitsKept /\ RangesApart
<1> SUFFICES ASSUME PInv PROVE LimitsKept /\ RangesApart
  OBVIOUS
<1>1. LimitsKept
  BY DEF PInv, Limited, LimitsKept
<1>2. Apart(ranges)
  BY DEF PInv
<1>3. \A i \in 1 .. Len(values) : Apart(values[i])
  <2>1. CASE at # "ciff"
    <3>1. values = << >>
      BY <2>1 DEF PInv
    <3> QED BY <3>1
  <2>2. CASE at = "ciff"
    BY <2>2 DEF PInv, CiffInv, Chain, FrameOK
  <2> QED BY <2>1, <2>2
<1>4. at = "ciff" => \A i, k \in 1 .. Len(tree) : i < k =>
        LET r == tree[i].range  s == tree[k].range IN
        IF i \in tree[k].above THEN Within(s, r) /\ s # r ELSE r.end <= s.begin \/ s.end <= r.begin
  BY DEF PInv, CiffInv, Nested, Disjoint
<1> QED BY <1>1, <1>2, <1>3, <1>4 DEF RangesApart
-----------------------------------------------------------------------------
(* What PInv does not need: where a directory ends, and how much of it is left to read.
   The offsets of the chain are those of the file, and no parser has another exception
   than its own.                                                                     *)
EndsIn(t) == \A i \in 1 .. Len(t) : t[i].range.end <= FileSize

Fitting(f) == f.entries \in 0 .. MaxEntries /\ f.subs \in 0 .. MaxSubs

FramesFit(s) == \A k \in 1 .. Len(s) : Fitting(s[k])

Results == {"none", "ok", "TPE", "IOE", "CPE"}

PlacesInv ==
  /\ EndsIn(tree)
  /\ next \in Places \cup {0}
  /\ outcome \in Results
  /\ at # "ciff" => FramesFit(stack)

LEMMA NothingEnds == EndsIn(<< >>) /\ FramesFit(<< >>)
<1>1. 1 .. Len(<< >>) = {}
  OBVIOUS
<1> QED BY <1>1 DEF EndsIn, FramesFit

LEMMA EndsPrefix ==
  ASSUME NEW t \in Seq(Dir), EndsIn(t), NEW n \in 0 .. Len(t) PROVE EndsIn(SubSeq(t, 1, n))
<1> DEFINE u == SubSeq(t, 1, n)
<1>1. Len(u) = n /\ \A k \in 1 .. n : u[k] = t[k]
  BY PrefixOf
<1>2. 1 .. n \subseteq 1 .. Len(t)
  OBVIOUS
<1> HIDE DEF u
<1>3. EndsIn(u)
  BY <1>1, <1>2 DEF EndsIn
<1> QED BY <1>3 DEF u

LEMMA EndsCounted ==
  ASSUME NEW t \in Seq(Dir), Limited(t), EndsIn(t), NEW parent \in 0 .. Len(t), HasRoom(t, Above(t, parent))
  PROVE  EndsIn(Counted(t, parent, Above(t, parent)))
<1> DEFINE u == Counted(t, parent, Above(t, parent))
<1>1. Len(u) = Len(t) /\ \A i \in 1 .. Len(t) : u[i].range = t[i].range
  BY CountedLimited
<1> HIDE DEF u
<1>2. EndsIn(u)
  BY <1>1 DEF EndsIn
<1> QED BY <1>2 DEF u

LEMMA EndsAppend ==
  ASSUME NEW t \in Seq(Dir), Limited(t), EndsIn(t), NEW parent \in 0 .. Len(t), HasRoom(t, Above(t, parent)),
         NEW range \in Extent, range.end <= FileSize
  PROVE  EndsIn(Append(Counted(t, parent, Above(t, parent)), IFD(parent, Above(t, parent), range)))
<1> DEFINE u == Append(Counted(t, parent, Above(t, parent)), IFD(parent, Above(t, parent), range))
<1>1. Len(u) = Len(t) + 1 /\ u[Len(t) + 1].range = range /\ \A i \in 1 .. Len(t) : u[i].range = t[i].range
  BY AppendLimited
<1>2. Len(t) \in Nat
  OBVIOUS
<1> HIDE DEF u
<1>3. \A i \in 1 .. Len(t) + 1 : i \in 1 .. Len(t) \/ i = Len(t) + 1
  BY <1>2
<1>4. EndsIn(u)
  BY <1>1, <1>3 DEF EndsIn
<1> QED BY <1>4 DEF u

LEMMA FitFront == ASSUME NEW s \in Seq(TFrame), s # << >>, FramesFit(s) PROVE FramesFit(Front(s)) /\ Fitting(Last(s))
<1> DEFINE t == Front(s)
<1>1. /\ t \in Seq(TFrame) /\ Len(s) \in Nat \ {0} /\ Len(t) = Len(s) - 1 /\ \A k \in 1 .. Len(s) - 1 : t[k] = s[k]
      /\ Last(s) = s[Len(s)]
  BY FrontOf
<1> HIDE DEF t
<1>2. Len(s) \in 1 .. Len(s) /\ \A k \in 1 .. Len(t) : k \in 1 .. Len(s)
  BY <1>1
<1>3. FramesFit(t) /\ Fitting(Last(s))
  BY <1>1, <1>2 DEF FramesFit
<1> QED BY <1>3 DEF t

LEMMA FitTop ==
  ASSUME NEW s \in Seq(TFrame), s # << >>, FramesFit(s), NEW f \in TFrame, Fitting(f)
  PROVE  FramesFit(Front(s) \o << f >>)
<1> DEFINE t == Front(s) \o << f >>
<1>1. /\ Len(t) = Len(s) /\ t[Len(s)] = f /\ Len(s) \in Nat \ {0}
      /\ \A k \in 1 .. Len(s) - 1 : t[k] = s[k]
  BY TopOf, FrontOf
<1> HIDE DEF t
<1>2. \A k \in 1 .. Len(s) : k \in 1 .. Len(s) - 1 \/ k = Len(s)
  BY <1>1
<1>3. FramesFit(t)
  BY <1>1, <1>2 DEF FramesFit
<1> QED BY <1>3 DEF t

LEMMA FitAppend ==
  ASSUME NEW s \in Seq(TFrame), FramesFit(s), NEW f \in TFrame, Fitting(f) PROVE FramesFit(Append(s, f))
<1> DEFINE t == Append(s, f)
<1>1. Len(t) = Len(s) + 1 /\ Len(s) \in Nat /\ t[Len(s) + 1] = f /\ \A k \in 1 .. Len(s) : t[k] = s[k]
  BY AppendOf
<1> HIDE DEF t
<1>2. \A k \in 1 .. Len(s) + 1 : k \in 1 .. Len(s) \/ k = Len(s) + 1
  BY <1>1
<1>3. FramesFit(t)
  BY <1>1, <1>2 DEF FramesFit
<1> QED BY <1>3 DEF t

LEMMA FitSubs ==
  ASSUME NEW f \in TFrame, Fitting(f), NEW n \in 0 .. MaxSubs
  PROVE  [f EXCEPT !.subs = n] \in TFrame /\ Fitting([f EXCEPT !.subs = n])
<1> DEFINE g == [f EXCEPT !.subs = n]
<1>1. g \in TFrame /\ g.entries = f.entries /\ g.subs = n
  BY FileAssumption DEF TFrame
<1> HIDE DEF g
<1>2. Fitting(g)
  BY <1>1 DEF Fitting
<1> QED BY <1>1, <1>2 DEF g

LEMMA FitEntries ==
  ASSUME NEW f \in TFrame, Fitting(f), f.entries > 0, NEW n \in 0 .. MaxSubs
  PROVE  /\ [f EXCEPT !.entries = @ - 1] \in TFrame /\ Fitting([f EXCEPT !.entries = @ - 1])
         /\ [f EXCEPT !.entries = @ - 1, !.subs = n] \in TFrame
         /\ Fitting([f EXCEPT !.entries = @ - 1, !.subs = n])
<1> DEFINE m == f.entries - 1
           g == [f EXCEPT !.entries = m]
<1>1. m \in 0 .. MaxEntries /\ m \in Int
  BY FileAssumption DEF Fitting
<1> HIDE DEF m
<1>2. g \in TFrame /\ g.entries = m /\ g.subs = f.subs
  BY <1>1 DEF TFrame
<1>3. [g EXCEPT !.subs = n] = [f EXCEPT !.entries = m, !.subs = n]
  OBVIOUS
<1> HIDE DEF g
<1>4. Fitting(g)
  BY <1>1, <1>2 DEF Fitting
<1>5. [g EXCEPT !.subs = n] \in TFrame /\ Fitting([g EXCEPT !.subs = n])
  BY <1>2, <1>4, FitSubs
<1> QED BY <1>2, <1>3, <1>4, <1>5 DEF g, m

LEMMA PlacesStart == ParserInit => PlacesInv
<1> SUFFICES ASSUME ParserInit PROVE PlacesInv
  OBVIOUS
<1>1. tree = << >> /\ stack = << >> /\ next = 0 /\ outcome = "none"
  BY DEF ParserInit
<1> QED BY <1>1, NothingEnds DEF PlacesInv, Results

LEMMA ForgetsPlaces ==
  ASSUME PInv, PlacesInv, Idle \/ outcome # "none" \/ at \notin TiffAt \cup {"ciff"}, Forgets
  PROVE  PlacesInv'
<1>1. stack = << >>
  BY Quiet
<1>2. tree' = << >> /\ outcome' = "none" /\ stack' = << >> /\ next' = next
  BY <1>1 DEF Forgets
<1>3. next \in Places \cup {0}
  BY DEF PlacesInv
<1> QED BY <1>2, <1>3, NothingEnds DEF PlacesInv, Results

LEMMA LeavesPlaces ==
  ASSUME PInv, PlacesInv, Idle \/ outcome # "none" \/ at \notin TiffAt \cup {"ciff"}, NEW e, Leaves(e)
  PROVE  PlacesInv'
<1>1. Forgets
  BY DEF Leaves, Made
<1> QED BY <1>1, ForgetsPlaces

LEMMA MadePlaces ==
  ASSUME PInv, PlacesInv, Idle \/ outcome # "none" \/ at \notin TiffAt \cup {"ciff"}, NEW d, Made(d)
  PROVE  PlacesInv'
<1>1. Forgets
  BY DEF Made
<1> QED BY <1>1, ForgetsPlaces

LEMMA StaysPlaces ==
  ASSUME PlacesInv, UNCHANGED << tree, next >>, outcome' \in Results, at' # "ciff" => FramesFit(stack')
  PROVE  PlacesInv'
<1>1. tree' = tree /\ next' = next
  OBVIOUS
<1>2. EndsIn(tree') /\ next' \in Places \cup {0}
  BY <1>1 DEF PlacesInv
<1> QED BY <1>2 DEF PlacesInv

LEMMA ThrownPlaces ==
  ASSUME PlacesInv, at # "ciff", at' = at, root \in Nat \ {0},
         NEW e \in {"TPE", "IOE"}, NEW callers \in Seq(TFrame), FramesFit(callers),
         NEW left \in Seq(Dir), EndsIn(left), root <= Len(left), Thrown(e, callers, left)
  PROVE  PlacesInv'
<1>1. CASE callers # << >>
  <2> DEFINE f == [Last(callers) EXCEPT !.subs = 0]
  <2>1. tree' = left /\ stack' = Front(callers) \o << f >> /\ next' = next /\ outcome' = outcome
    BY <1>1 DEF Thrown
  <2>2. Last(callers) \in TFrame /\ Fitting(Last(callers)) /\ 0 \in 0 .. MaxSubs
    BY <1>1, FrontOf, FitFront, FileAssumption
  <2>3. f \in TFrame /\ Fitting(f)
    BY <2>2, FitSubs
  <2> HIDE DEF f
  <2>4. FramesFit(stack')
    BY <1>1, <2>1, <2>3, FitTop
  <2>5. EndsIn(tree') /\ next' \in Places \cup {0} /\ outcome' \in Results
    BY <2>1 DEF PlacesInv
  <2> QED BY <2>4, <2>5 DEF PlacesInv
<1>2. CASE callers = << >>
  <2>1. stack' = << >> /\ next' = 0 /\ outcome' \in {"ok", "IOE"} /\ tree' \in {left, Without(left, root)}
    BY <1>2 DEF Thrown
  <2>2. root - 1 \in 0 .. Len(left)
    <3>1. Len(left) \in Nat
      OBVIOUS
    <3> QED BY <3>1
  <2>3. EndsIn(Without(left, root))
    BY <2>2, EndsPrefix DEF Without
  <2>4. EndsIn(tree') /\ FramesFit(stack')
    BY <2>1, <2>3, NothingEnds
  <2> QED BY <2>1, <2>4 DEF PlacesInv, Results
<1> QED BY <1>1, <1>2

LEMMA NoHeaderPlaces ==
  ASSUME PInv, PlacesInv, Idle, at # "ciff", at' = at, NEW t, EndsIn(t), NEW e \in {"TPE", "IOE"}, NoHeader(t, e)
  PROVE  PlacesInv'
<1>1. tree' = t /\ outcome' = e /\ stack' = stack /\ next' = next
  BY DEF NoHeader
<1>2. EndsIn(tree') /\ FramesFit(stack') /\ next' \in Places \cup {0} /\ outcome' \in Results
  BY <1>1 DEF PlacesInv, Results
<1> QED BY <1>2 DEF PlacesInv

LEMMA HeaderPlaces ==
  ASSUME PInv, PlacesInv, Idle, at # "ciff", at' = at,
         NEW t \in Seq(Dir), Limited(t), EndsIn(t), NEW parent \in 0 .. Len(t), Header(t, parent)
  PROVE  PlacesInv'
<1>1. CASE ~HasRoom(t, Above(t, parent))
  <2>1. NoHeader(t, "TPE")
    BY <1>1 DEF Header
  <2> QED BY <2>1, NoHeaderPlaces
<1>2. CASE HasRoom(t, Above(t, parent))
  <2> DEFINE u == Append(Counted(t, parent, Above(t, parent)), IFD(parent, Above(t, parent), Bytes(0, 0)))
  <2>1. Bytes(0, 0) \in Extent /\ Bytes(0, 0).end <= FileSize
    BY FileAssumption DEF Bytes, Extent
  <2>2. EndsIn(u)
    BY <1>2, <2>1, EndsAppend
  <2>3. tree' = u /\ next' \in Places \cup {0} /\ outcome' \in {"ok", "none"} /\ stack' = stack
    BY <1>2 DEF Header
  <2> HIDE DEF u
  <2>4. EndsIn(tree') /\ FramesFit(stack')
    BY <2>2, <2>3 DEF PlacesInv
  <2> QED BY <2>3, <2>4 DEF PlacesInv, Results
<1> QED BY <1>1, <1>2

LEMMA ParsePlaces ==
  ASSUME PInv, PlacesInv, Idle, at # "ciff", NEW t \in Seq(Dir), Limited(t), EndsIn(t), NEW parent \in 0 .. Len(t),
         Parse(t, parent)
  PROVE  PlacesInv'
<1>1. at' = at
  BY DEF Parse, outer
<1>2. CASE Header(t, parent)
  BY <1>1, <1>2, HeaderPlaces
<1>3. ASSUME NEW e \in {"TPE", "IOE"}, NoHeader(t, e) PROVE PlacesInv'
  BY <1>1, <1>3, NoHeaderPlaces
<1> QED BY <1>2, <1>3 DEF Parse

LEMMA ConstructPlaces ==
  ASSUME PInv, PlacesInv, root # 0, UNCHANGED outer,
         NEW offset \in Places, NEW entries \in 0 .. MaxEntries, Construct(offset, entries)
  PROVE  PlacesInv'
<1> DEFINE above == Above(tree, Innermost)
           counted == Counted(tree, Innermost, above)
           range == Bytes(offset, FullSize(entries))
           d == IFD(Innermost, above, range)
           frames == IF stack = << >> THEN << >> ELSE Top([Last(stack) EXCEPT !.subs = @ - 1])
<1>1. /\ tree \in Seq(Dir) /\ Limited(tree) /\ Len(tree) \in Nat /\ root \in Nat \ {0} /\ root <= Len(tree)
      /\ at # "ciff" /\ at' = at /\ stack \in Seq(TFrame) /\ Innermost \in 0 .. Len(tree)
  BY PInvTypes, InnermostIn DEF outer
<1>2. EndsIn(tree) /\ FramesFit(stack) /\ next \in Places \cup {0} /\ outcome \in Results
  BY <1>1 DEF PlacesInv
<1>3. range \in Extent /\ range.end \in Nat /\ FileSize \in Nat
  BY FileAssumption DEF Bytes, FullSize, Extent
<1>4. CASE ~HasRoom(tree, above)
  <2>1. Thrown("TPE", stack, tree)
    BY <1>4 DEF Construct
  <2> QED BY <1>1, <1>2, <2>1, ThrownPlaces
<1>5. CASE HasRoom(tree, above)
  <2>1. counted \in Seq(Dir) /\ Len(counted) = Len(tree) /\ EndsIn(counted)
    BY <1>1, <1>2, <1>5, CountedLimited, EndsCounted
  <2>2. ASSUME NEW e \in {"TPE", "IOE"}, Thrown(e, stack, counted) PROVE PlacesInv'
    <3> HIDE DEF counted
    <3> QED BY <1>1, <1>2, <2>1, <2>2, ThrownPlaces
  <2>3. ASSUME range.end <= FileSize, tree' = Append(counted, d), UNCHANGED << next, outcome >>,
               stack' = Append(frames, Frame(Len(tree) + 1, entries)),
               stack = << >> \/ Last(stack).subs > 0
        PROVE  PlacesInv'
    <3>1. EndsIn(tree')
      <4> HIDE DEF range
      <4> QED BY <1>1, <1>2, <1>3, <1>5, <2>3, EndsAppend
    <3>2. frames \in Seq(TFrame) /\ FramesFit(frames)
      <4>1. CASE stack = << >>
        BY <4>1, NothingEnds, NothingYet
      <4>2. CASE stack # << >>
        <5> DEFINE f == [Last(stack) EXCEPT !.subs = @ - 1]
        <5>1. Last(stack) \in TFrame /\ Fitting(Last(stack))
          BY <1>1, <1>2, <4>2, FrontOf, FitFront
        <5>2. Last(stack).subs - 1 \in 0 .. MaxSubs
          BY <2>3, <4>2, <5>1, FileAssumption DEF Fitting
        <5>3. f \in TFrame /\ Fitting(f)
          BY <5>1, <5>2, FitSubs, Zenon
        <5>4. frames = Front(stack) \o << f >>
          BY <4>2 DEF Top
        <5> HIDE DEF f, frames
        <5> QED BY <1>1, <1>2, <4>2, <5>3, <5>4, TopOf, FitTop
      <4> QED BY <4>1, <4>2
    <3>3. Frame(Len(tree) + 1, entries) \in TFrame /\ Fitting(Frame(Len(tree) + 1, entries))
      BY <1>1, FileAssumption DEF Frame, TFrame, Fitting
    <3> HIDE DEF frames
    <3>4. FramesFit(stack')
      BY <2>3, <3>2, <3>3, FitAppend
    <3>5. next' \in Places \cup {0} /\ outcome' \in Results
      BY <1>2, <2>3
    <3> QED BY <3>1, <3>4, <3>5 DEF PlacesInv
  <2>4. stack = << >> \/ Last(stack).subs > 0
    BY DEF Construct
  <2>5. \/ Thrown("IOE", stack, counted) \/ Thrown("TPE", stack, counted)
        \/ /\ ~(range.end > FileSize) /\ tree' = Append(counted, d) /\ UNCHANGED << next, outcome >>
           /\ stack' = Append(frames, Frame(Len(tree) + 1, entries))
    BY <1>5, Zenon DEF Construct
  <2> HIDE DEF range, d, frames, counted
  <2>6. ~(range.end > FileSize) => range.end <= FileSize
    BY <1>3
  <2> QED BY <2>2, <2>3, <2>4, <2>5, <2>6
<1> HIDE DEF above
<1> QED BY <1>4, <1>5

LEMMA EntryPlaces ==
  ASSUME PInv, PlacesInv, root # 0, UNCHANGED << outer, tree, next, outcome >>,
         stack # << >>, NEW f \in TFrame, Fitting(f), stack' = Top(f)
  PROVE  PlacesInv'
<1>1. at # "ciff" /\ stack \in Seq(TFrame)
  BY InnermostIn
<1>2. FramesFit(stack) /\ outcome \in Results
  BY <1>1 DEF PlacesInv
<1>3. FramesFit(stack')
  BY <1>1, <1>2, FitTop DEF Top
<1>4. outcome' \in Results /\ tree' = tree /\ next' = next
  BY <1>2
<1> QED BY <1>3, <1>4, StaysPlaces

LEMMA TiffStepPlaces ==
  ASSUME PInv, PlacesInv, TiffStep, UNCHANGED outer PROVE PlacesInv'
<1>1. root # 0 /\ at' = at
  BY DEF TiffStep, outer
<1>2. /\ tree \in Seq(Dir) /\ Len(tree) \in Nat /\ root \in Nat \ {0} /\ root <= Len(tree)
      /\ at # "ciff" /\ stack \in Seq(TFrame)
      /\ (stack # << >> => /\ Last(stack) \in TFrame /\ Front(stack) \in Seq(TFrame)
                           /\ Last(stack).ifd \in Nat /\ root < Last(stack).ifd /\ Last(stack).ifd <= Len(tree))
  BY <1>1, PInvTypes, InnermostIn
<1>3. EndsIn(tree) /\ FramesFit(stack) /\ next \in Places \cup {0} /\ outcome \in Results
  BY <1>2 DEF PlacesInv
<1>4. stack # << >> => Fitting(Last(stack)) /\ FramesFit(Front(stack))
  BY <1>2, <1>3, FitFront
<1>5. ASSUME NEW offset \in Places, NEW n \in 0 .. MaxEntries, Construct(offset, n) PROVE PlacesInv'
  BY <1>1, <1>5, ConstructPlaces
<1>6. CASE PlainEntry
  <2> DEFINE f == [Last(stack) EXCEPT !.entries = @ - 1]
  <2>1. stack # << >> /\ stack' = Top(f) /\ UNCHANGED << tree, next, outcome >> /\ Last(stack).entries > 0
    BY <1>6 DEF PlainEntry, AtEntry
  <2>2. 0 \in 0 .. MaxSubs
    BY FileAssumption
  <2>3. f \in TFrame /\ Fitting(f)
    BY <1>2, <1>4, <2>1, <2>2, FitEntries
  <2> HIDE DEF f
  <2> QED BY <1>1, <2>1, <2>3, EntryPlaces
<1>7. ASSUME NEW n \in 0 .. MaxSubs, SubIFDsEntry(n) PROVE PlacesInv'
  <2> DEFINE f == [Last(stack) EXCEPT !.entries = @ - 1, !.subs = n]
  <2>1. stack # << >> /\ stack' = Top(f) /\ UNCHANGED << tree, next, outcome >> /\ Last(stack).entries > 0
    BY <1>7 DEF SubIFDsEntry, AtEntry
  <2>2. f \in TFrame /\ Fitting(f)
    BY <1>2, <1>4, <2>1, FitEntries
  <2> HIDE DEF f
  <2> QED BY <1>1, <2>1, <2>2, EntryPlaces
<1>8. CASE BadEntry
  <2> DEFINE left == Without(tree, Last(stack).ifd)
  <2>1. stack # << >> /\ Thrown("TPE", Front(stack), left)
    BY <1>8 DEF BadEntry, AtEntry
  <2>2. Last(stack).ifd - 1 \in 0 .. Len(tree)
    BY <1>2, <2>1
  <2>3. left \in Seq(Dir) /\ Len(left) = Last(stack).ifd - 1
    BY <1>2, <2>2, PrefixOf DEF Without
  <2>4. EndsIn(left) /\ root <= Len(left) /\ Front(stack) \in Seq(TFrame) /\ FramesFit(Front(stack))
    BY <1>2, <1>3, <1>4, <2>1, <2>2, <2>3, EndsPrefix DEF Without
  <2> HIDE DEF left
  <2> QED BY <1>1, <1>2, <2>1, <2>3, <2>4, ThrownPlaces
<1>9. CASE BadOffset
  <2>1. Thrown("IOE", stack, tree)
    BY <1>9 DEF BadOffset
  <2> QED BY <1>1, <1>2, <1>3, <2>1, ThrownPlaces
<1>10. CASE Finish
  <2>1. stack' = Front(stack) /\ stack # << >> /\ tree' = tree
        /\ next' \in Places \cup {0} /\ outcome' \in Results
    BY <1>3, <1>10 DEF Finish, Results
  <2>2. EndsIn(tree') /\ FramesFit(stack')
    BY <1>3, <1>4, <2>1
  <2> QED BY <2>1, <2>2 DEF PlacesInv
<1> QED BY <1>5, <1>6, <1>7, <1>8, <1>9, <1>10 DEF TiffStep

(* A directory of a CIFF file lies within the one around it, and the root ends where the file
   does.                                                                             *)
LEMMA CiffConstructPlaces ==
  ASSUME PInv, PInv', PlacesInv, at = "ciff", at' = at,
         NEW r \in Extent, NEW s, NEW vals, IF s = << >> THEN r.end <= FileSize ELSE Last(s).ifd \in 1 .. Len(tree),
         CiffConstruct(r, s, vals)
  PROVE  PlacesInv'
<1> DEFINE parent == IF s = << >> THEN 0 ELSE Last(s).ifd
           above == Above(tree, parent)
           u == Append(Counted(tree, parent, above), IFD(parent, above, r))
<1>1. tree \in Seq(Dir) /\ Limited(tree) /\ Len(tree) \in Nat /\ EndsIn(tree) /\ outcome \in Results
      /\ next \in Places \cup {0}
  BY PInvTypes DEF PlacesInv
<1>2. parent \in 0 .. Len(tree)
  <2>1. CASE s = << >>
    BY <2>1, <1>1
  <2>2. CASE s # << >>
    BY <2>2, <1>1
  <2> QED BY <2>1, <2>2
<1>3. ASSUME NEW e \in {"CPE", "IOE"}, CiffThrown(e) PROVE PlacesInv'
  <2>1. tree' = << >> /\ outcome' = e /\ next' = next
    BY <1>3 DEF CiffThrown
  <2> QED BY <1>1, <2>1, NothingEnds DEF PlacesInv, Results
<1>4. ASSUME HasRoom(tree, above), tree' = u, UNCHANGED << next, outcome >> PROVE PlacesInv'
  <2>1. r.end <= FileSize
    <3>1. CASE s = << >>
      BY <3>1
    <3>2. CASE s # << >>
      <4> DEFINE p == Last(s).ifd
                 n == Len(tree) + 1
      <4>1. p \in 1 .. Len(tree) /\ parent = p /\ p \in above
        BY <1>1, <3>2 DEF Above
      <4>2. /\ Len(u) = n /\ u[n].above = above /\ u[n].range = r /\ u[p].range = tree[p].range
        BY <1>1, <1>2, <1>4, <4>1, AppendLimited
      <4> HIDE DEF u, above, parent, p
      <4>3. Nested(u)
        BY <1>4 DEF PInv, CiffInv
      <4>4. p \in 1 .. Len(u) /\ n \in 1 .. Len(u) /\ p < n
        BY <1>1, <4>1, <4>2
      <4>5. Within(r, tree[p].range)
        BY <4>1, <4>2, <4>3, <4>4 DEF Nested
      <4>6. tree[p].range.end <= FileSize /\ tree[p] \in Dir
        BY <1>1, <4>1 DEF EndsIn
      <4>7. tree[p].range.end \in Nat /\ r.end \in Nat /\ r.end <= tree[p].range.end
        BY <4>5, <4>6 DEF Dir, Extent, Within
      <4> QED BY <4>6, <4>7, FileAssumption
    <3> QED BY <3>1, <3>2
  <2>2. EndsIn(u)
    BY <1>1, <1>2, <1>4, <2>1, EndsAppend
  <2> HIDE DEF u
  <2>3. EndsIn(tree') /\ next' \in Places \cup {0} /\ outcome' \in Results
    BY <1>1, <1>4, <2>2
  <2> QED BY <2>3 DEF PlacesInv
<1>5. (\E e \in {"CPE", "IOE"} : CiffThrown(e))
      \/ (HasRoom(tree, above) /\ tree' = u /\ UNCHANGED << next, outcome >>)
  BY Zenon DEF CiffConstruct
<1> HIDE DEF above, parent, u
<1> QED BY <1>3, <1>4, <1>5

LEMMA AfterEntryAt ==
  ASSUME PInv, at = "ciff", outcome = "none", AtCiffEntry
  PROVE  AfterEntry # << >> /\ Last(AfterEntry).ifd \in 1 .. Len(tree)
<1> DEFINE f == Last(stack)
           g == [f EXCEPT !.entries = @ - 1, !.place = @ + EntrySize]
           c == Front(stack) \o << g >>
<1>1. tree \in Seq(Dir) /\ Chain(tree, stack, values) /\ stack # << >> /\ f \in CFrame /\ f.entries > 0
  BY CiffInnermost
<1>2. stack \in Seq(CFrame) /\ Len(stack) \in Nat \ {0} /\ f.ifd \in 1 .. Len(tree)
  BY <1>1, InnermostFrame
<1>3. g \in CFrame /\ g.ifd = f.ifd
  BY <1>1, EntryRead
<1>4. AfterEntry = c
  BY DEF AfterEntry, Top
<1> HIDE DEF f, g
<1>5. c \in Seq(CFrame) /\ Len(c) = Len(stack) /\ c[Len(stack)] = g
  BY <1>1, <1>2, <1>3, TopOf
<1> HIDE DEF c
<1>6. c # << >>
  <2>1. Len(c) # 0
    BY <1>2, <1>5
  <2> QED BY <2>1, <1>5
<1>7. Last(c) = c[Len(c)]
  BY DEF Last
<1> QED BY <1>2, <1>3, <1>4, <1>5, <1>6, <1>7

LEMMA CiffThrownPlaces ==
  ASSUME PlacesInv, at = "ciff", at' = at, NEW e \in {"CPE", "IOE"}, CiffThrown(e) PROVE PlacesInv'
<1>1. tree' = << >> /\ outcome' = e /\ next' = next /\ next \in Places \cup {0}
  BY DEF CiffThrown, PlacesInv
<1> QED BY <1>1, NothingEnds DEF PlacesInv, Results

LEMMA CiffValuePlaces ==
  ASSUME PInv, PInv', PlacesInv, at = "ciff", at' = at, outcome = "none",
         NEW offset \in Sizes, NEW size \in Sizes, NEW isIFD \in BOOLEAN, CiffValue(offset, size, isIFD)
  PROVE  PlacesInv'
<1> DEFINE f == Last(stack)
           value == Bytes(f.area.begin + offset, size)
<1>1. AtCiffEntry
  BY DEF CiffValue
<1>2. value \in Extent
  <2>1. f.area.begin \in Nat /\ offset \in Nat /\ size \in Nat
    BY <1>1, CiffInnermost, SizesAssumption DEF CFrame, Extent
  <2>2. f.area.begin + offset \in Nat
    BY <2>1
  <2> HIDE DEF f
  <2> QED BY <2>1, <2>2, BytesExtent
<1>3. ASSUME NEW all, CiffConstruct(value, AfterEntry, all) PROVE PlacesInv'
  <2> HIDE DEF value
  <2>1. IF AfterEntry = << >> THEN value.end <= FileSize ELSE Last(AfterEntry).ifd \in 1 .. Len(tree)
    BY <1>1, AfterEntryAt
  <2> QED BY <1>2, <1>3, <2>1, CiffConstructPlaces
<1>4. ASSUME UNCHANGED << tree, next, outcome >> PROVE PlacesInv'
  BY <1>4, StaysPlaces DEF PlacesInv
<1>5. ASSUME NEW e \in {"CPE", "IOE"}, CiffThrown(e) PROVE PlacesInv'
  BY <1>5, CiffThrownPlaces
<1>6. \/ \E e \in {"CPE", "IOE"} : CiffThrown(e)
      \/ \E all : CiffConstruct(value, AfterEntry, all)
      \/ UNCHANGED << tree, next, outcome >>
  BY DEF CiffValue
<1> HIDE DEF value
<1> QED BY <1>3, <1>4, <1>5, <1>6

LEMMA InlineValuePlaces ==
  ASSUME PInv, PInv', PlacesInv, at = "ciff", at' = at, outcome = "none", NEW isIFD \in BOOLEAN, InlineValue(isIFD)
  PROVE  PlacesInv'
<1> DEFINE value == Bytes(Last(stack).place + 2, InlineSize)
<1>1. AtCiffEntry
  BY DEF InlineValue
<1>2. value \in Extent
  <2>1. Last(stack).place + 2 \in Nat /\ InlineSize \in Nat
    BY <1>1, CiffInnermost DEF CFrame, InlineSize
  <2> QED BY <2>1, BytesExtent
<1>3. IF AfterEntry = << >> THEN value.end <= FileSize ELSE Last(AfterEntry).ifd \in 1 .. Len(tree)
  BY <1>1, AfterEntryAt
<1>4. CiffConstruct(value, AfterEntry, values) \/ UNCHANGED << tree, next, outcome >>
  BY DEF InlineValue
<1> HIDE DEF value
<1>5. ASSUME UNCHANGED << tree, next, outcome >> PROVE PlacesInv'
  BY <1>5, StaysPlaces DEF PlacesInv
<1> QED BY <1>2, <1>3, <1>4, <1>5, CiffConstructPlaces

LEMMA CiffStepPlaces ==
  ASSUME PInv, PInv', PlacesInv, at = "ciff", CiffStep, UNCHANGED outer PROVE PlacesInv'
<1>1. at' = at /\ outcome = "none"
  BY DEF outer, CiffStep
<1>2. ASSUME NEW offset \in Sizes, NEW size \in Sizes, NEW isIFD \in BOOLEAN, CiffValue(offset, size, isIFD)
      PROVE  PlacesInv'
  BY <1>1, <1>2, CiffValuePlaces
<1>3. ASSUME NEW isIFD \in BOOLEAN, InlineValue(isIFD) PROVE PlacesInv'
  BY <1>1, <1>3, InlineValuePlaces
<1>4. CASE BadLocation
  BY <1>1, <1>4, CiffThrownPlaces DEF BadLocation
<1>5. CASE CiffFinish
  <2>1. UNCHANGED << tree, next >> /\ outcome' \in Results
    BY <1>5 DEF CiffFinish, Results
  <2> QED BY <1>1, <2>1, StaysPlaces
<1> QED BY <1>2, <1>3, <1>4, <1>5 DEF CiffStep

LEMMA MrwPlaces == ASSUME PInv, PlacesInv, MrwBlock \/ MrwParsed \/ MrwDone PROVE PlacesInv'
<1>1. at = "mrw" /\ at # "ciff"
  BY DEF MrwBlock, MrwParsed, MrwDone
<1>2. CASE MrwBlock
  <2>1. Idle
    BY <1>2 DEF MrwBlock
  <2>2. ASSUME NEW e \in {"RDE", "IOE"}, Leaves(e) PROVE PlacesInv'
    BY <2>1, <2>2, LeavesPlaces
  <2>3. ASSUME UNCHANGED << inner, at, magic, made >> PROVE PlacesInv'
    BY <1>1, <2>3, StaysPlaces DEF inner, PlacesInv
  <2>4. CASE Parse(<< >>, 0)
    BY <1>1, <2>1, <2>4, EmptyTree, NothingEnds, ParsePlaces
  <2> QED BY <1>2, <2>2, <2>3, <2>4 DEF MrwBlock
<1>3. CASE MrwParsed
  <2>1. outcome # "none" /\ (Forgets \/ Leaves(outcome))
    BY <1>3 DEF MrwParsed
  <2> QED BY <2>1, ForgetsPlaces, LeavesPlaces
<1>4. CASE MrwDone
  <2>1. Idle /\ (Leaves("IOE") \/ Leaves("RDE") \/ Made("MrwDecoder"))
    BY <1>4 DEF MrwDone
  <2> QED BY <2>1, LeavesPlaces, MadePlaces
<1> QED BY <1>2, <1>3, <1>4

LEMMA FirstOf == ASSUME NEW S, NEW s \in Seq(S), s # << >> PROVE 1 \in 0 .. Len(s)
OBVIOUS

LEMMA FiffPlaces ==
  ASSUME PInv, PlacesInv, FiffFirst \/ FiffSubIFD \/ FiffSecond \/ FiffSecondParsed \/ FiffThird PROVE PlacesInv'
<1>1. at \in {"fiff", "fiff second", "fiff third"} /\ at # "ciff" /\ EndsIn(tree) /\ FramesFit(stack)
      /\ tree \in Seq(Dir) /\ Limited(tree)
  <2>1. at \in {"fiff", "fiff second", "fiff third"}
    BY DEF FiffFirst, FiffSubIFD, FiffSecond, FiffSecondParsed, FiffThird
  <2>2. at # "ciff"
    BY <2>1
  <2> QED BY <2>1, <2>2, PInvTypes DEF PlacesInv
<1>2. CASE FiffFirst
  <2>1. Idle
    BY <1>2 DEF FiffFirst
  <2>2. ASSUME NEW e \in {"FPE", "IOE"}, Leaves(e) PROVE PlacesInv'
    BY <2>1, <2>2, LeavesPlaces
  <2>3. CASE Parse(<< >>, 0)
    BY <1>1, <2>1, <2>3, EmptyTree, NothingEnds, ParsePlaces
  <2> QED BY <1>2, <2>2, <2>3 DEF FiffFirst
<1>3. CASE FiffSubIFD
  <2>1. at = "fiff" /\ outcome # "none"
    BY <1>3 DEF FiffSubIFD
  <2>2. ASSUME NEW e, Leaves(e) PROVE PlacesInv'
    BY <2>1, <2>2, LeavesPlaces
  <2>3. CASE /\ outcome = "ok" /\ HasRoom(tree, Above(tree, 1))
             /\ tree' = Append(Counted(tree, 1, Above(tree, 1)), IFD(1, Above(tree, 1), Bytes(0, 0)))
             /\ outcome' = "none" /\ UNCHANGED << stack, next >>
    <3>1. tree # << >>
      BY <2>1, <2>3 DEF PInv
    <3>2. 1 \in 0 .. Len(tree)
      BY <1>1, <3>1, FirstOf
    <3>3. Bytes(0, 0) \in Extent /\ Bytes(0, 0).end <= FileSize
      BY FileAssumption DEF Bytes, Extent
    <3>4. EndsIn(tree')
      BY <1>1, <2>3, <3>2, <3>3, EndsAppend
    <3>5. FramesFit(stack') /\ next' \in Places \cup {0} /\ outcome' \in Results
      BY <1>1, <2>3 DEF PlacesInv, Results
    <3> QED BY <3>4, <3>5 DEF PlacesInv
  <2> QED BY <1>3, <2>2, <2>3 DEF FiffSubIFD
<1>4. CASE FiffSecond
  <2>1. Idle /\ at = "fiff second"
    BY <1>4 DEF FiffSecond
  <2>2. ASSUME UNCHANGED inner PROVE PlacesInv'
    BY <1>1, <2>2, StaysPlaces DEF inner, PlacesInv
  <2>3. CASE Parse(tree, 1)
    <3>1. tree # << >>
      BY <2>1 DEF PInv, Idle
    <3>2. 1 \in 0 .. Len(tree)
      BY <1>1, <3>1, FirstOf
    <3> QED BY <1>1, <2>1, <2>3, <3>2, ParsePlaces
  <2> QED BY <1>4, <2>2, <2>3 DEF FiffSecond
<1>5. CASE FiffSecondParsed
  <2>1. outcome # "none"
    BY <1>5 DEF FiffSecondParsed
  <2>2. ASSUME NEW e, Leaves(e) PROVE PlacesInv'
    BY <2>1, <2>2, LeavesPlaces
  <2>3. CASE Returns
    <3>1. UNCHANGED << tree, next >> /\ outcome' \in Results /\ stack' = stack
      BY <2>3 DEF Returns, Results
    <3> QED BY <1>1, <3>1, StaysPlaces
  <2> QED BY <1>5, <2>2, <2>3 DEF FiffSecondParsed
<1>6. CASE FiffThird
  <2>1. at \notin TiffAt \cup {"ciff"}
    BY <1>6 DEF FiffThird, TiffAt
  <2>2. ASSUME NEW e \in {"FPE", "IOE", "TPE"}, Leaves(e) PROVE PlacesInv'
    BY <2>1, <2>2, LeavesPlaces
  <2>3. CASE Made("RafDecoder")
    BY <2>1, <2>3, MadePlaces
  <2> QED BY <1>6, <2>2, <2>3 DEF FiffThird
<1> QED BY <1>2, <1>3, <1>4, <1>5, <1>6

LEMMA TiffPlaces == ASSUME PInv, PlacesInv, TiffFirst \/ \E id \in Ids : TiffParsed(id) PROVE PlacesInv'
<1>1. CASE TiffFirst
  <2>1. at # "ciff" /\ Idle /\ at' = at
    BY <1>1 DEF TiffFirst, outer
  <2>2. CASE Header(<< >>, 0)
    BY <2>1, <2>2, EmptyTree, NothingEnds, HeaderPlaces
  <2>3. CASE NoHeader(<< >>, "TPE")
    BY <2>1, <2>3, NothingEnds, NoHeaderPlaces
  <2> QED BY <1>1, <2>2, <2>3 DEF TiffFirst
<1>2. ASSUME NEW id \in Ids, TiffParsed(id) PROVE PlacesInv'
  <2>1. outcome # "none"
    BY <1>2 DEF TiffParsed
  <2>2. ASSUME NEW e, Leaves(e) PROVE PlacesInv'
    BY <2>1, <2>2, LeavesPlaces
  <2>3. CASE Made(Appropriate(id))
    BY <2>1, <2>3, MadePlaces
  <2> QED BY <1>2, <2>2, <2>3 DEF TiffParsed
<1> QED BY <1>1, <1>2

LEMMA CiffPlaces == ASSUME PInv, PInv', PlacesInv, CiffFirst \/ CiffParsed \/ Chdk PROVE PlacesInv'
<1>1. CASE CiffFirst
  <2>1. at = "ciff" /\ at' = at
    BY <1>1 DEF CiffFirst, outer
  <2>2. ASSUME NEW e \in {"CPE", "IOE"}, CiffThrown(e) PROVE PlacesInv'
    BY <2>1, <2>2, CiffThrownPlaces
  <2>3. ASSUME NEW begin \in Places, begin <= FileSize,
               CiffConstruct(Bytes(begin, FileSize - begin), << >>, << >>)
        PROVE  PlacesInv'
    <3> DEFINE r == Bytes(begin, FileSize - begin)
    <3>1. begin \in Nat /\ FileSize \in Nat /\ FileSize - begin \in Nat /\ begin + (FileSize - begin) = FileSize
      BY <2>3, FileAssumption
    <3>2. r \in Extent /\ r.end = FileSize
      BY <3>1, BytesExtent
    <3>3. r.end <= FileSize /\ CiffConstruct(r, << >>, << >>)
      BY <2>3, <3>1, <3>2
    <3> HIDE DEF r
    <3> QED BY <2>1, <3>2, <3>3, CiffConstructPlaces
  <2> QED BY <1>1, <2>2, <2>3 DEF CiffFirst, CiffHeader
<1>2. CASE CiffParsed
  <2>1. outcome # "none"
    BY <1>2 DEF CiffParsed
  <2>2. ASSUME NEW e, Leaves(e) PROVE PlacesInv'
    BY <2>1, <2>2, LeavesPlaces
  <2>3. CASE Made("CrwDecoder")
    BY <2>1, <2>3, MadePlaces
  <2> QED BY <1>2, <2>2, <2>3 DEF CiffParsed
<1>3. CASE Chdk
  <2>1. at \notin TiffAt \cup {"ciff"}
    BY <1>3 DEF Chdk, TiffAt
  <2> QED BY <1>3, <2>1, MadePlaces DEF Chdk
<1> QED BY <1>1, <1>2, <1>3

LEMMA SizePlaces == ASSUME PInv, PlacesInv, Size PROVE PlacesInv'
<1>1. at \notin TiffAt \cup {"ciff"} /\ at # "ciff"
  BY DEF Size, TiffAt
<1>2. CASE Made("RDE")
  BY <1>1, <1>2, MadePlaces
<1>3. ASSUME UNCHANGED inner PROVE PlacesInv'
  BY <1>1, <1>3, StaysPlaces DEF inner, PlacesInv
<1> QED BY <1>2, <1>3 DEF Size

LEMMA PlacesNext == PInv /\ PInv' /\ PlacesInv /\ ParserNext => PlacesInv'
<1> SUFFICES ASSUME PInv, PInv', PlacesInv, ParserNext PROVE PlacesInv'
  OBVIOUS
<1>1. CASE TiffStep /\ UNCHANGED outer
  BY <1>1, TiffStepPlaces
<1>2. CASE CiffStep /\ UNCHANGED outer
  <2>1. at = "ciff"
    BY <1>2 DEF CiffStep, PInv
  <2> QED BY <1>2, <2>1, CiffStepPlaces
<1>3. CASE Size
  BY <1>3, SizePlaces
<1>4. CASE MrwBlock \/ MrwParsed \/ MrwDone
  BY <1>4, MrwPlaces
<1>5. CASE FiffFirst \/ FiffSubIFD \/ FiffSecond \/ FiffSecondParsed \/ FiffThird
  BY <1>5, FiffPlaces
<1>6. CASE TiffFirst \/ \E id \in Ids : TiffParsed(id)
  BY <1>6, TiffPlaces
<1>7. CASE CiffFirst \/ CiffParsed \/ Chdk
  BY <1>7, CiffPlaces
<1> QED BY <1>1, <1>2, <1>3, <1>4, <1>5, <1>6, <1>7 DEF ParserNext

LEMMA NoParserStepPlaces == PlacesInv /\ UNCHANGED << inner, outer >> => PlacesInv'
<1> SUFFICES ASSUME PlacesInv, UNCHANGED << inner, outer >> PROVE PlacesInv'
  OBVIOUS
<1>1. tree' = tree /\ next' = next /\ outcome' = outcome /\ stack' = stack /\ at' = at
  BY DEF inner, outer
<1> QED BY <1>1 DEF PlacesInv

LEMMA FrameIn ==
  ASSUME NEW f \in TFrame, Fitting(f), f.ifd \in 1 .. Len(tree) PROVE f \in Frames
<1>1. f = [ifd |-> f.ifd, entries |-> f.entries, subs |-> f.subs]
  BY DEF TFrame
<1> QED BY <1>1 DEF Fitting, Frames

LEMMA ParserTypes == PInv /\ PlacesInv => TreeTypeOK
<1> SUFFICES ASSUME PInv, PlacesInv PROVE TreeTypeOK
  OBVIOUS
<1>1. tree \in Seq(Dir) /\ Limited(tree) /\ Len(tree) \in Nat /\ root \in 0 .. Len(tree) /\ root \in Nat
  BY PInvTypes
<1>2. ASSUME NEW i \in 1 .. Len(tree)
      PROVE  /\ tree[i].parent \in {0} \cup tree[i].above
             /\ tree[i].above \subseteq 1 .. i - 1
             /\ tree[i].range.begin <= tree[i].range.end /\ tree[i].range.end <= FileSize
             /\ {tree[i].count, tree[i].recursive} \subseteq Nat
  <2>1. tree[i].parent \in {0} \cup tree[i].above /\ tree[i].above \subseteq 1 .. i - 1
    BY <1>1 DEF Limited
  <2>2. tree[i] \in Dir
    BY <1>1
  <2>3. tree[i].range \in Extent /\ tree[i].count \in Nat /\ tree[i].recursive \in Nat
    BY <2>2 DEF Dir
  <2>4. tree[i].range.begin <= tree[i].range.end
    BY <2>3 DEF Extent
  <2>5. tree[i].range.end <= FileSize
    BY DEF PlacesInv, EndsIn
  <2> QED BY <2>1, <2>3, <2>4, <2>5
<1>3. \A k \in 1 .. Len(stack) : stack[k].ifd \in 1 .. Len(tree)
  <2>1. CASE at = "ciff"
    <3>1. Builds(stack, 0, Len(tree))
      BY <2>1 DEF PInv, CiffInv, Chain
    <3> QED BY <1>1, <3>1 DEF Builds
  <2>2. CASE at # "ciff"
    <3>1. Builds(stack, root, Len(tree))
      BY <2>2 DEF PInv
    <3> QED BY <1>1, <3>1 DEF Builds
  <2> QED BY <2>1, <2>2
<1>4. at # "ciff" => \A k \in 1 .. Len(stack) : stack[k] \in Frames
  <2> SUFFICES ASSUME at # "ciff", NEW k \in 1 .. Len(stack) PROVE stack[k] \in Frames
    OBVIOUS
  <2>1. stack \in Seq(TFrame)
    BY DEF PInv
  <2>2. stack[k] \in TFrame
    BY <2>1
  <2>3. Fitting(stack[k])
    BY DEF PlacesInv, FramesFit
  <2> QED BY <1>3, <2>2, <2>3, FrameIn
<1>5. values # << >> => at = "ciff" /\ Len(values) = Len(stack)
  BY DEF PInv, CiffInv, Chain
<1>6. next \in Places \cup {0} /\ outcome \in {"none", "ok", "TPE", "IOE", "CPE"}
  BY DEF PlacesInv, Results
<1> QED BY <1>1, <1>2, <1>3, <1>4, <1>5, <1>6 DEF TreeTypeOK
-----------------------------------------------------------------------------
(* No step of the decoders touches what the parsers made. *)
LEMMA PipelineKeeps == Spec => []PInv
<1>1. Init => PInv
  BY ParserStarts DEF Init
<1>2. PInv /\ [Next]_vars => PInv'
  <2> SUFFICES ASSUME PInv, [Next]_vars PROVE PInv'
    OBVIOUS
  <2>1. CASE Parsing
    BY <2>1, ParserNextInv DEF Parsing
  <2>2. ASSUME NEW tool \in Tools, NEW uncorrected \in BOOLEAN, NEW special \in BOOLEAN, NEW cam \in Cameras,
               NEW precision \in Indeterminate, Open(tool, uncorrected, cam, special, precision)
        PROVE  UNCHANGED << inner, outer >>
    BY <2>2 DEF Open
  <2>3. CASE Call
    BY <2>3, NoParserStep DEF Call
  <2>4. CASE Step
    BY <2>4, NoParserStep DEF Step
  <2>5. CASE Delivered
    BY <2>5, NoParserStep DEF Delivered
  <2>6. ASSUME NEW e \in Exceptions, Throw(e) PROVE UNCHANGED << inner, outer >>
    BY <2>6 DEF Throw
  <2>7. CASE UNCHANGED vars
    BY <2>7, NoParserStep DEF vars
  <2> QED BY <2>1, <2>2, <2>3, <2>4, <2>5, <2>6, <2>7, NoParserStep DEF Next
<1> QED BY <1>1, <1>2, PTL DEF Spec

LEMMA PlacesKept == Spec => []PlacesInv
<1>1. Init => PInv /\ PlacesInv
  BY ParserStarts, PlacesStart DEF Init
<1>2. PInv /\ PInv' /\ PlacesInv /\ [Next]_vars => PlacesInv'
  <2> SUFFICES ASSUME PInv, PInv', PlacesInv, [Next]_vars PROVE PlacesInv'
    OBVIOUS
  <2>1. CASE Parsing
    BY <2>1, PlacesNext DEF Parsing
  <2>2. ASSUME NEW tool \in Tools, NEW uncorrected \in BOOLEAN, NEW special \in BOOLEAN, NEW cam \in Cameras,
               NEW precision \in Indeterminate, Open(tool, uncorrected, cam, special, precision)
        PROVE  UNCHANGED << inner, outer >>
    BY <2>2 DEF Open
  <2>3. CASE Call
    BY <2>3, NoParserStepPlaces DEF Call
  <2>4. CASE Step
    BY <2>4, NoParserStepPlaces DEF Step
  <2>5. CASE Delivered
    BY <2>5, NoParserStepPlaces DEF Delivered
  <2>6. ASSUME NEW e \in Exceptions, Throw(e) PROVE UNCHANGED << inner, outer >>
    BY <2>6 DEF Throw
  <2>7. CASE UNCHANGED vars
    BY <2>7, NoParserStepPlaces DEF vars
  <2> QED BY <2>1, <2>2, <2>3, <2>4, <2>5, <2>6, <2>7, NoParserStepPlaces DEF Next
<1> QED BY <1>1, <1>2, PipelineKeeps, PTL DEF Spec

(* However many directories a file has, and whatever was thrown and caught on the way: no
   directory counts fewer sub directories than it has, and none has more of them, or
   is deeper, than the limits allow (TiffIFD.cpp, CiffIFD.cpp: recursivelyCheckSubIFDs()). *)
THEOREM LimitsHold == Spec => []LimitsKept
<1>1. PInv => LimitsKept
  BY ParsersKeep
<1> QED BY <1>1, PipelineKeeps, PTL

(* However many there are, comparing a new range with its two neighbours in the set is
   enough (NORangesSet::insert()): no byte is in two directories of a TIFF file or in two
   values of a directory of a CIFF file, and a directory of a CIFF file lies within
   another or apart from it, one that is in an entry included.                       *)
THEOREM RangesHold == Spec => []RangesApart
<1>1. PInv => RangesApart
  BY ParsersKeep
<1> QED BY <1>1, PipelineKeeps, PTL

Steps ==
  {"try", "caught", "refuse", "dim", "notCFA", "cpp", "create", "curve", "curveAlways", "endCurve", "decode",
   "decodeMapped", "lookup", "lookupIfWanted", "fileCFA", "cameraCFA", "askCFA", "whiteOfBits", "fileBlack",
   "fileWhite", "fileSeparate", "fileBlacks", "scale", "checkSupport", "checkSupportInMode", "checkSupportInEither", "setMetaData",
   "setMetaDataInMode", "checkSupportAndSetMetaData", "cameraOrRefuse", "setMode", "whiteBalance", "correct",
   "cropToSize", "noMoreCrops", "shiftDown", "shiftExif", "shiftLevels", "exifBlack", "exifWhite",
   "setPrecision", "whiteOfPrecision", "canonLevels", "rescaleToPrecision", "newImageOf3", "shiftUp", "shiftUpLevels", "keepLevels",
   "restoreLevels", "applyCorrections", "sensorLevels"}

Maps == {"decodeMapped", "lookup", "lookupIfWanted"}
Metas == {"setMetaData", "setMetaDataInMode", "checkSupportAndSetMetaData", "applyCorrections"}
Crops == Metas \cup {"cropToSize"}
SetsCFA == {"fileCFA", "cameraCFA"}
AsksCamera == {"cameraCFA", "applyCorrections", "sensorLevels"}
OtherLevels == {"setMetaDataInMode", "checkSupportAndSetMetaData", "sensorLevels", "restoreLevels"}
SetsDb == OtherLevels \cup {"setMetaData"}
Scalings == {"scale", "shiftLevels", "shiftUpLevels", "rescaleToPrecision", "exifBlack", "exifWhite"}
RawOnly == Maps \cup {"create", "curveAlways", "endCurve", "cropToSize", "newImageOf3", "shiftDown", "shiftUp"}
MetaOnly == Metas \cup SetsDb \cup Scalings \cup {"caught", "whiteOfPrecision"}

Lacks(w, S) == \A k \in 1 .. Len(w) : w[k] \notin S

(* After one of A there is none of B. *)
Never(w, A, B) == \A j, k \in 1 .. Len(w) : j < k /\ w[j] \in A => w[k] \notin B

(* What each of B needs is there when its turn comes: it is there now, and none of C undoes
   it, or it is there after one of A.                                                 *)
Ready(now, w, B, A, C) ==
  \A k \in 1 .. Len(w) : w[k] \in B =>
    \/ now /\ \A i \in 1 .. k - 1 : w[i] \notin C
    \/ \E j \in 1 .. k - 1 : w[j] \in A /\ \A i \in j + 1 .. k - 1 : w[i] \notin C

RightBefore(w, a, b) == \A k \in 1 .. Len(w) : w[k] = a => k + 1 \in 1 .. Len(w) /\ w[k + 1] = b

AfterTry(w, a) == \A k \in 1 .. Len(w) : w[k] = a /\ k # 1 => w[k - 1] = "try"

(* None of A is left out when what follows it is caught. *)
Outside(w, A) ==
  \A j, k \in 1 .. Len(w) : j < k /\ w[j] \in A /\ w[k] = "caught" => \E i \in j + 1 .. k - 1 : w[i] = "try"

Tame(w) ==
  /\ w \in Seq(Steps)
  /\ Ready(FALSE, w, AsksCamera, {"cameraOrRefuse"}, {"caught", "setMode"})
  /\ Never(w, Crops, Crops \cup SetsCFA)

AsksAfter(w) == Ready(FALSE, w, {"askCFA"}, SetsCFA, {"caught", "newImageOf3"})

RawWay(w) ==
  /\ Tame(w)
  /\ Lacks(w, MetaOnly)
  /\ Ready(FALSE, w, {"curveAlways"}, {"notCFA"}, {"caught", "applyCorrections"})
  /\ RightBefore(w, "cropToSize", "noMoreCrops")
  /\ Never(w, Maps \cup {"endCurve"}, Maps)

(* Its samples go through a curve that is there. *)
IsMapped(w) ==
  /\ ~Lacks(w, {"decodeMapped"}) /\ Lacks(w, {"newImageOf3"})
  /\ Ready(FALSE, w, {"decodeMapped"}, {"curve"}, {"endCurve"})

SupportWay(w) == Tame(w) /\ Lacks(w, MetaOnly \cup RawOnly \cup {"askCFA"})

MetaWay(w) == Tame(w) /\ Lacks(w, RawOnly) /\ AsksAfter(w)

ArwLevels(w) ==
  /\ Lacks(w, OtherLevels \cup (Scalings \ {"shiftLevels", "exifBlack", "exifWhite"}))
  /\ RightBefore(w, "setMetaData", "shiftLevels") /\ ~Lacks(w, {"setMetaData"})
  /\ Never(w, {"shiftLevels"}, {"shiftLevels"})
  /\ Outside(w, {"setMetaData", "shiftLevels"})

OrfLevels(w) ==
  /\ Lacks(w, OtherLevels \cup (Scalings \ {"scale"}))
  /\ Never(w, {"scale"}, {"scale"}) /\ ~Lacks(w, {"setMetaData"})
  /\ Ready(FALSE, w, {"scale"}, {"fileSeparate"}, {"caught"} \cup SetsDb)

Cr2Levels(w) ==
  /\ Lacks(w, {"restoreLevels", "applyCorrections"} \cup (Scalings \ {"rescaleToPrecision", "shiftUpLevels"}))
  /\ Ready(FALSE, w, {"rescaleToPrecision"}, {"canonLevels"}, {"caught"} \cup SetsDb)
  /\ Never(w, {"shiftUpLevels"}, {"shiftUpLevels", "whiteOfPrecision"})
  /\ ~Lacks(w, {"whiteOfPrecision"}) /\ AfterTry(w, "whiteOfPrecision")

KodakTable == {<< "dim", "curve", "create", "decodeMapped", "endCurve" >>}

RawTable ==
  {<< "dim", "create", "decode" >>,
   << "dim", "refuse" >>,
   << "dim", "create", "whiteOfBits", "decode" >>,
   << "notCFA", "dim", "create", "decode" >>,
   << "dim", "curve", "create", "decodeMapped", "endCurve" >>,
   << "dim", "create", "curve", "decodeMapped", "endCurve" >>,
   << "dim", "create", "decode", "cropToSize", "noMoreCrops" >>,
   << "dim", "curve", "create", "decode", "shiftExif", "endCurve" >>,
   << "dim", "curve", "create", "decode", "shiftDown", "shiftExif", "endCurve" >>,
   << "dim", "cpp", "notCFA", "create", "curveAlways", "decodeMapped", "endCurve" >>,
   << "dim", "fileCFA", "askCFA", "create", "decode" >>,
   << "dim", "create", "decode", "whiteBalance" >>,
   << "dim", "create", "decode", "correct", "whiteBalance" >>}

Cr2Table ==
  {<< "dim", "create", "decode", "setPrecision" >>,
   << "dim", "create", "decode", "setPrecision", "curve", "lookupIfWanted", "endCurve" >>,
   << "dim", "cpp", "create", "decode", "setPrecision" >>,
   << "dim", "cpp", "notCFA", "create", "decode", "setPrecision", "newImageOf3", "shiftUp" >>}

EarlyTable ==
  {<< "dim", "create", "decode", "askCFA", "correct", "whiteBalance" >>,
   << "setMode", "dim", "askCFA", "create", "decode" >>}

MetaTable ==
  {<< "setMetaData" >>,
   << "setMetaData", "whiteBalance" >>,
   << "setMetaData", "fileBlack" >>,
   << "setMetaDataInMode", "whiteBalance" >>,
   << "setMetaData", "try", "whiteBalance", "caught", "whiteBalance" >>,
   << "fileCFA", "setMetaData", "whiteBalance" >>,
   << "fileCFA", "setMetaData", "fileSeparate", "whiteBalance" >>,
   << "fileCFA", "try", "whiteBalance", "caught", "setMetaData" >>,
   << "fileCFA", "keepLevels", "whiteBalance", "setMetaDataInMode", "restoreLevels" >>,
   << "fileCFA", "keepLevels", "whiteBalance", "fileSeparate", "setMetaDataInMode", "restoreLevels" >>,
   << "fileCFA", "setMetaData", "fileWhite", "whiteBalance" >>,
   << "fileCFA", "setMetaData", "fileBlack", "whiteBalance" >>,
   << "fileCFA", "setMetaData", "fileBlack", "fileWhite", "whiteBalance" >>,
   << "fileCFA", "checkSupportAndSetMetaData", "whiteBalance" >>,
   << "fileCFA", "checkSupportAndSetMetaData", "askCFA", "fileSeparate", "whiteBalance" >>,
   << "cameraOrRefuse", "cameraCFA", "applyCorrections", "sensorLevels", "whiteBalance" >>,
   << "cameraOrRefuse", "cameraCFA", "applyCorrections", "fileBlacks", "sensorLevels", "whiteBalance" >>,
   << "whiteOfBits", "cameraOrRefuse", "cameraCFA", "applyCorrections", "sensorLevels", "whiteBalance" >>,
   << "whiteOfBits", "cameraOrRefuse", "cameraCFA", "applyCorrections", "fileBlacks", "sensorLevels", "whiteBalance" >>}

KodakMetaTable == {<< "setMetaData" >>}

ArwMetaTable ==
  {<< "fileCFA", "setMetaData", "shiftLevels", "try", "whiteBalance", "caught" >>,
   << "fileCFA", "setMetaData", "shiftLevels", "try", "whiteBalance", "exifBlack", "caught" >>,
   << "fileCFA", "setMetaData", "shiftLevels", "try", "whiteBalance", "exifWhite", "caught" >>,
   << "fileCFA", "setMetaData", "shiftLevels", "try", "whiteBalance", "exifBlack", "exifWhite", "caught" >>}

OrfMetaTable ==
  {<< "whiteOfBits", "fileCFA", "setMetaData", "whiteBalance" >>,
   << "whiteOfBits", "fileCFA", "setMetaData", "whiteBalance", "askCFA", "fileSeparate" >>,
   << "whiteOfBits", "fileCFA", "setMetaData", "whiteBalance", "askCFA", "fileSeparate", "scale" >>}

Cr2MetaTable ==
  {<< "fileCFA", "try", "whiteOfPrecision", "whiteBalance", "caught", "setMetaDataInMode", "shiftUpLevels" >>,
   << "fileCFA", "try", "whiteOfPrecision", "whiteBalance", "canonLevels", "rescaleToPrecision", "caught", "setMetaDataInMode", "shiftUpLevels" >>}

SupportTable ==
  {<< "checkSupport" >>,
   << "checkSupportInMode" >>,
   << "checkSupportInEither" >>,
   << "checkSupport", "cameraOrRefuse" >>}

CFATable ==
  {<< "checkSupport", "cameraOrRefuse", "cameraCFA" >>,
   << "checkSupport", "cameraOrRefuse", "setMode", "cameraOrRefuse", "cameraCFA" >>}

(* What the tables say, looked up. *)
LEMMA RawTables ==
  /\ \A w \in RawTable : RawWay(w) /\ AsksAfter(w)
  /\ \A w \in KodakTable : IsMapped(w)
  /\ \A w \in Cr2Table : RawWay(w) /\ AsksAfter(w) /\ ~Lacks(w, {"setPrecision"})
  /\ \A w \in EarlyTable : RawWay(w) /\ Lacks(w, {"newImageOf3"})
<1> USE DEF RawWay, AsksAfter, MetaOnly, SetsDb, OtherLevels, Scalings, RightBefore, Maps, Tame, Lacks, Never, Ready, Steps, Metas, Crops, SetsCFA, AsksCamera
<1>1. \A w \in RawTable : RawWay(w) /\ AsksAfter(w)
  <2>1. RawWay(<< "dim", "create", "decode" >>) /\ AsksAfter(<< "dim", "create", "decode" >>)
    OBVIOUS
  <2>2. RawWay(<< "dim", "refuse" >>) /\ AsksAfter(<< "dim", "refuse" >>)
    OBVIOUS
  <2>3. RawWay(<< "dim", "create", "whiteOfBits", "decode" >>) /\ AsksAfter(<< "dim", "create", "whiteOfBits", "decode" >>)
    OBVIOUS
  <2>4. RawWay(<< "notCFA", "dim", "create", "decode" >>) /\ AsksAfter(<< "notCFA", "dim", "create", "decode" >>)
    OBVIOUS
  <2>5. RawWay(<< "dim", "curve", "create", "decodeMapped", "endCurve" >>) /\ AsksAfter(<< "dim", "curve", "create", "decodeMapped", "endCurve" >>)
    OBVIOUS
  <2>6. RawWay(<< "dim", "create", "curve", "decodeMapped", "endCurve" >>) /\ AsksAfter(<< "dim", "create", "curve", "decodeMapped", "endCurve" >>)
    OBVIOUS
  <2>7. RawWay(<< "dim", "create", "decode", "cropToSize", "noMoreCrops" >>) /\ AsksAfter(<< "dim", "create", "decode", "cropToSize", "noMoreCrops" >>)
    OBVIOUS
  <2>8. RawWay(<< "dim", "curve", "create", "decode", "shiftExif", "endCurve" >>) /\ AsksAfter(<< "dim", "curve", "create", "decode", "shiftExif", "endCurve" >>)
    OBVIOUS
  <2>9. RawWay(<< "dim", "curve", "create", "decode", "shiftDown", "shiftExif", "endCurve" >>) /\ AsksAfter(<< "dim", "curve", "create", "decode", "shiftDown", "shiftExif", "endCurve" >>)
    OBVIOUS
  <2>10. RawWay(<< "dim", "cpp", "notCFA", "create", "curveAlways", "decodeMapped", "endCurve" >>) /\ AsksAfter(<< "dim", "cpp", "notCFA", "create", "curveAlways", "decodeMapped", "endCurve" >>)
    OBVIOUS
  <2>11. RawWay(<< "dim", "fileCFA", "askCFA", "create", "decode" >>) /\ AsksAfter(<< "dim", "fileCFA", "askCFA", "create", "decode" >>)
    OBVIOUS
  <2>12. RawWay(<< "dim", "create", "decode", "whiteBalance" >>) /\ AsksAfter(<< "dim", "create", "decode", "whiteBalance" >>)
    OBVIOUS
  <2>13. RawWay(<< "dim", "create", "decode", "correct", "whiteBalance" >>) /\ AsksAfter(<< "dim", "create", "decode", "correct", "whiteBalance" >>)
    OBVIOUS
  <2> HIDE DEF RawWay, AsksAfter, MetaOnly, SetsDb, OtherLevels, Scalings, RightBefore, Maps, Tame, Lacks, Never, Ready, Steps, Metas, Crops, SetsCFA, AsksCamera
  <2> QED BY <2>1, <2>2, <2>3, <2>4, <2>5, <2>6, <2>7, <2>8, <2>9, <2>10, <2>11, <2>12, <2>13, Zenon DEF RawTable
<1>2. \A w \in Cr2Table : RawWay(w) /\ AsksAfter(w) /\ ~Lacks(w, {"setPrecision"})
  <2>1. RawWay(<< "dim", "create", "decode", "setPrecision" >>) /\ AsksAfter(<< "dim", "create", "decode", "setPrecision" >>) /\ ~Lacks(<< "dim", "create", "decode", "setPrecision" >>, {"setPrecision"})
    OBVIOUS
  <2>2. RawWay(<< "dim", "create", "decode", "setPrecision", "curve", "lookupIfWanted", "endCurve" >>) /\ AsksAfter(<< "dim", "create", "decode", "setPrecision", "curve", "lookupIfWanted", "endCurve" >>) /\ ~Lacks(<< "dim", "create", "decode", "setPrecision", "curve", "lookupIfWanted", "endCurve" >>, {"setPrecision"})
    OBVIOUS
  <2>3. RawWay(<< "dim", "cpp", "create", "decode", "setPrecision" >>) /\ AsksAfter(<< "dim", "cpp", "create", "decode", "setPrecision" >>) /\ ~Lacks(<< "dim", "cpp", "create", "decode", "setPrecision" >>, {"setPrecision"})
    OBVIOUS
  <2>4. RawWay(<< "dim", "cpp", "notCFA", "create", "decode", "setPrecision", "newImageOf3", "shiftUp" >>) /\ AsksAfter(<< "dim", "cpp", "notCFA", "create", "decode", "setPrecision", "newImageOf3", "shiftUp" >>) /\ ~Lacks(<< "dim", "cpp", "notCFA", "create", "decode", "setPrecision", "newImageOf3", "shiftUp" >>, {"setPrecision"})
    OBVIOUS
  <2> HIDE DEF RawWay, AsksAfter, MetaOnly, SetsDb, OtherLevels, Scalings, RightBefore, Maps, Tame, Lacks, Never, Ready, Steps, Metas, Crops, SetsCFA, AsksCamera
  <2> QED BY <2>1, <2>2, <2>3, <2>4, Zenon DEF Cr2Table
<1>3. \A w \in EarlyTable : RawWay(w) /\ Lacks(w, {"newImageOf3"})
  <2>1. RawWay(<< "dim", "create", "decode", "askCFA", "correct", "whiteBalance" >>) /\ Lacks(<< "dim", "create", "decode", "askCFA", "correct", "whiteBalance" >>, {"newImageOf3"})
    OBVIOUS
  <2>2. RawWay(<< "setMode", "dim", "askCFA", "create", "decode" >>) /\ Lacks(<< "setMode", "dim", "askCFA", "create", "decode" >>, {"newImageOf3"})
    OBVIOUS
  <2> HIDE DEF RawWay, AsksAfter, MetaOnly, SetsDb, OtherLevels, Scalings, RightBefore, Maps, Tame, Lacks, Never, Ready, Steps, Metas, Crops, SetsCFA, AsksCamera
  <2> QED BY <2>1, <2>2, Zenon DEF EarlyTable
<1>4. \A w \in KodakTable : IsMapped(w)
  <2>1. IsMapped(<< "dim", "curve", "create", "decodeMapped", "endCurve" >>)
    BY DEF IsMapped
  <2> HIDE DEF Lacks, Ready
  <2> QED BY <2>1, Zenon DEF KodakTable
<1> QED BY <1>1, <1>2, <1>3, <1>4

LEMMA MetaTables ==
  /\ \A w \in MetaTable : MetaWay(w) /\ Lacks(w, Scalings)
  /\ \A w \in KodakMetaTable : Lacks(w, {"caught", "applyCorrections"})
  /\ \A w \in ArwMetaTable : MetaWay(w) /\ ArwLevels(w)
  /\ \A w \in OrfMetaTable : MetaWay(w) /\ OrfLevels(w)
  /\ \A w \in Cr2MetaTable : MetaWay(w) /\ Cr2Levels(w)
<1> USE DEF MetaWay, AsksAfter, RawOnly, Maps, ArwLevels, OrfLevels, Cr2Levels, SetsDb, OtherLevels, Scalings, RightBefore, Outside, AfterTry, Tame, Lacks, Never, Ready, Steps, Metas, Crops, SetsCFA, AsksCamera
<1>1. \A w \in MetaTable : MetaWay(w) /\ Lacks(w, Scalings)
  <2>1. MetaWay(<< "setMetaData" >>) /\ Lacks(<< "setMetaData" >>, Scalings)
    OBVIOUS
  <2>2. MetaWay(<< "setMetaData", "whiteBalance" >>) /\ Lacks(<< "setMetaData", "whiteBalance" >>, Scalings)
    OBVIOUS
  <2>3. MetaWay(<< "setMetaData", "fileBlack" >>) /\ Lacks(<< "setMetaData", "fileBlack" >>, Scalings)
    OBVIOUS
  <2>4. MetaWay(<< "setMetaDataInMode", "whiteBalance" >>) /\ Lacks(<< "setMetaDataInMode", "whiteBalance" >>, Scalings)
    OBVIOUS
  <2>5. MetaWay(<< "setMetaData", "try", "whiteBalance", "caught", "whiteBalance" >>) /\ Lacks(<< "setMetaData", "try", "whiteBalance", "caught", "whiteBalance" >>, Scalings)
    OBVIOUS
  <2>6. MetaWay(<< "fileCFA", "setMetaData", "whiteBalance" >>) /\ Lacks(<< "fileCFA", "setMetaData", "whiteBalance" >>, Scalings)
    OBVIOUS
  <2>7. MetaWay(<< "fileCFA", "setMetaData", "fileSeparate", "whiteBalance" >>) /\ Lacks(<< "fileCFA", "setMetaData", "fileSeparate", "whiteBalance" >>, Scalings)
    OBVIOUS
  <2>8. MetaWay(<< "fileCFA", "try", "whiteBalance", "caught", "setMetaData" >>) /\ Lacks(<< "fileCFA", "try", "whiteBalance", "caught", "setMetaData" >>, Scalings)
    OBVIOUS
  <2>9. MetaWay(<< "fileCFA", "keepLevels", "whiteBalance", "setMetaDataInMode", "restoreLevels" >>) /\ Lacks(<< "fileCFA", "keepLevels", "whiteBalance", "setMetaDataInMode", "restoreLevels" >>, Scalings)
    OBVIOUS
  <2>10. MetaWay(<< "fileCFA", "keepLevels", "whiteBalance", "fileSeparate", "setMetaDataInMode", "restoreLevels" >>) /\ Lacks(<< "fileCFA", "keepLevels", "whiteBalance", "fileSeparate", "setMetaDataInMode", "restoreLevels" >>, Scalings)
    OBVIOUS
  <2>11. MetaWay(<< "fileCFA", "setMetaData", "fileWhite", "whiteBalance" >>) /\ Lacks(<< "fileCFA", "setMetaData", "fileWhite", "whiteBalance" >>, Scalings)
    OBVIOUS
  <2>12. MetaWay(<< "fileCFA", "setMetaData", "fileBlack", "whiteBalance" >>) /\ Lacks(<< "fileCFA", "setMetaData", "fileBlack", "whiteBalance" >>, Scalings)
    OBVIOUS
  <2>13. MetaWay(<< "fileCFA", "setMetaData", "fileBlack", "fileWhite", "whiteBalance" >>) /\ Lacks(<< "fileCFA", "setMetaData", "fileBlack", "fileWhite", "whiteBalance" >>, Scalings)
    OBVIOUS
  <2>14. MetaWay(<< "fileCFA", "checkSupportAndSetMetaData", "whiteBalance" >>) /\ Lacks(<< "fileCFA", "checkSupportAndSetMetaData", "whiteBalance" >>, Scalings)
    OBVIOUS
  <2>15. MetaWay(<< "fileCFA", "checkSupportAndSetMetaData", "askCFA", "fileSeparate", "whiteBalance" >>) /\ Lacks(<< "fileCFA", "checkSupportAndSetMetaData", "askCFA", "fileSeparate", "whiteBalance" >>, Scalings)
    OBVIOUS
  <2>16. MetaWay(<< "cameraOrRefuse", "cameraCFA", "applyCorrections", "sensorLevels", "whiteBalance" >>) /\ Lacks(<< "cameraOrRefuse", "cameraCFA", "applyCorrections", "sensorLevels", "whiteBalance" >>, Scalings)
    OBVIOUS
  <2>17. MetaWay(<< "cameraOrRefuse", "cameraCFA", "applyCorrections", "fileBlacks", "sensorLevels", "whiteBalance" >>) /\ Lacks(<< "cameraOrRefuse", "cameraCFA", "applyCorrections", "fileBlacks", "sensorLevels", "whiteBalance" >>, Scalings)
    OBVIOUS
  <2>18. MetaWay(<< "whiteOfBits", "cameraOrRefuse", "cameraCFA", "applyCorrections", "sensorLevels", "whiteBalance" >>) /\ Lacks(<< "whiteOfBits", "cameraOrRefuse", "cameraCFA", "applyCorrections", "sensorLevels", "whiteBalance" >>, Scalings)
    OBVIOUS
  <2>19. MetaWay(<< "whiteOfBits", "cameraOrRefuse", "cameraCFA", "applyCorrections", "fileBlacks", "sensorLevels", "whiteBalance" >>) /\ Lacks(<< "whiteOfBits", "cameraOrRefuse", "cameraCFA", "applyCorrections", "fileBlacks", "sensorLevels", "whiteBalance" >>, Scalings)
    OBVIOUS
  <2> HIDE DEF MetaWay, AsksAfter, RawOnly, Maps, ArwLevels, OrfLevels, Cr2Levels, SetsDb, OtherLevels, Scalings, RightBefore, Outside, AfterTry, Tame, Lacks, Never, Ready, Steps, Metas, Crops, SetsCFA, AsksCamera
  <2> QED BY <2>1, <2>2, <2>3, <2>4, <2>5, <2>6, <2>7, <2>8, <2>9, <2>10, <2>11, <2>12, <2>13, <2>14, <2>15, <2>16, <2>17, <2>18, <2>19, Zenon DEF MetaTable
<1>2. \A w \in ArwMetaTable : MetaWay(w) /\ ArwLevels(w)
  <2>1. MetaWay(<< "fileCFA", "setMetaData", "shiftLevels", "try", "whiteBalance", "caught" >>) /\ ArwLevels(<< "fileCFA", "setMetaData", "shiftLevels", "try", "whiteBalance", "caught" >>)
    OBVIOUS
  <2>2. MetaWay(<< "fileCFA", "setMetaData", "shiftLevels", "try", "whiteBalance", "exifBlack", "caught" >>) /\ ArwLevels(<< "fileCFA", "setMetaData", "shiftLevels", "try", "whiteBalance", "exifBlack", "caught" >>)
    OBVIOUS
  <2>3. MetaWay(<< "fileCFA", "setMetaData", "shiftLevels", "try", "whiteBalance", "exifWhite", "caught" >>) /\ ArwLevels(<< "fileCFA", "setMetaData", "shiftLevels", "try", "whiteBalance", "exifWhite", "caught" >>)
    OBVIOUS
  <2>4. MetaWay(<< "fileCFA", "setMetaData", "shiftLevels", "try", "whiteBalance", "exifBlack", "exifWhite", "caught" >>) /\ ArwLevels(<< "fileCFA", "setMetaData", "shiftLevels", "try", "whiteBalance", "exifBlack", "exifWhite", "caught" >>)
    OBVIOUS
  <2> HIDE DEF MetaWay, AsksAfter, RawOnly, Maps, ArwLevels, OrfLevels, Cr2Levels, SetsDb, OtherLevels, Scalings, RightBefore, Outside, AfterTry, Tame, Lacks, Never, Ready, Steps, Metas, Crops, SetsCFA, AsksCamera
  <2> QED BY <2>1, <2>2, <2>3, <2>4, Zenon DEF ArwMetaTable
<1>3. \A w \in OrfMetaTable : MetaWay(w) /\ OrfLevels(w)
  <2>1. MetaWay(<< "whiteOfBits", "fileCFA", "setMetaData", "whiteBalance" >>) /\ OrfLevels(<< "whiteOfBits", "fileCFA", "setMetaData", "whiteBalance" >>)
    OBVIOUS
  <2>2. MetaWay(<< "whiteOfBits", "fileCFA", "setMetaData", "whiteBalance", "askCFA", "fileSeparate" >>) /\ OrfLevels(<< "whiteOfBits", "fileCFA", "setMetaData", "whiteBalance", "askCFA", "fileSeparate" >>)
    OBVIOUS
  <2>3. MetaWay(<< "whiteOfBits", "fileCFA", "setMetaData", "whiteBalance", "askCFA", "fileSeparate", "scale" >>) /\ OrfLevels(<< "whiteOfBits", "fileCFA", "setMetaData", "whiteBalance", "askCFA", "fileSeparate", "scale" >>)
    OBVIOUS
  <2> HIDE DEF MetaWay, AsksAfter, RawOnly, Maps, ArwLevels, OrfLevels, Cr2Levels, SetsDb, OtherLevels, Scalings, RightBefore, Outside, AfterTry, Tame, Lacks, Never, Ready, Steps, Metas, Crops, SetsCFA, AsksCamera
  <2> QED BY <2>1, <2>2, <2>3, Zenon DEF OrfMetaTable
<1>4. \A w \in Cr2MetaTable : MetaWay(w) /\ Cr2Levels(w)
  <2>1. MetaWay(<< "fileCFA", "try", "whiteOfPrecision", "whiteBalance", "caught", "setMetaDataInMode", "shiftUpLevels" >>) /\ Cr2Levels(<< "fileCFA", "try", "whiteOfPrecision", "whiteBalance", "caught", "setMetaDataInMode", "shiftUpLevels" >>)
    OBVIOUS
  <2>2. MetaWay(<< "fileCFA", "try", "whiteOfPrecision", "whiteBalance", "canonLevels", "rescaleToPrecision", "caught", "setMetaDataInMode", "shiftUpLevels" >>) /\ Cr2Levels(<< "fileCFA", "try", "whiteOfPrecision", "whiteBalance", "canonLevels", "rescaleToPrecision", "caught", "setMetaDataInMode", "shiftUpLevels" >>)
    OBVIOUS
  <2> HIDE DEF MetaWay, AsksAfter, RawOnly, Maps, ArwLevels, OrfLevels, Cr2Levels, SetsDb, OtherLevels, Scalings, RightBefore, Outside, AfterTry, Tame, Lacks, Never, Ready, Steps, Metas, Crops, SetsCFA, AsksCamera
  <2> QED BY <2>1, <2>2, Zenon DEF Cr2MetaTable
<1>5. \A w \in KodakMetaTable : Lacks(w, {"caught", "applyCorrections"})
  <2>1. Lacks(<< "setMetaData" >>, {"caught", "applyCorrections"})
    OBVIOUS
  <2> HIDE DEF Lacks
  <2> QED BY <2>1, Zenon DEF KodakMetaTable
<1> QED BY <1>1, <1>2, <1>3, <1>4, <1>5

LEMMA SupportTables ==
  /\ \A w \in SupportTable : SupportWay(w)
  /\ \A w \in CFATable : SupportWay(w) /\ ~Lacks(w, {"cameraCFA"})
<1> USE DEF SupportWay, MetaOnly, RawOnly, Maps, SetsDb, OtherLevels, Scalings, Tame, Lacks, Never, Ready, Steps, Metas, Crops, SetsCFA, AsksCamera
<1>1. \A w \in SupportTable : SupportWay(w)
  <2>1. SupportWay(<< "checkSupport" >>)
    OBVIOUS
  <2>2. SupportWay(<< "checkSupportInMode" >>)
    OBVIOUS
  <2>3. SupportWay(<< "checkSupportInEither" >>)
    OBVIOUS
  <2>4. SupportWay(<< "checkSupport", "cameraOrRefuse" >>)
    OBVIOUS
  <2> HIDE DEF SupportWay, MetaOnly, RawOnly, Maps, SetsDb, OtherLevels, Scalings, Tame, Lacks, Never, Ready, Steps, Metas, Crops, SetsCFA, AsksCamera
  <2> QED BY <2>1, <2>2, <2>3, <2>4, Zenon DEF SupportTable
<1>2. \A w \in CFATable : SupportWay(w) /\ ~Lacks(w, {"cameraCFA"})
  <2>1. SupportWay(<< "checkSupport", "cameraOrRefuse", "cameraCFA" >>) /\ ~Lacks(<< "checkSupport", "cameraOrRefuse", "cameraCFA" >>, {"cameraCFA"})
    OBVIOUS
  <2>2. SupportWay(<< "checkSupport", "cameraOrRefuse", "setMode", "cameraOrRefuse", "cameraCFA" >>) /\ ~Lacks(<< "checkSupport", "cameraOrRefuse", "setMode", "cameraOrRefuse", "cameraCFA" >>, {"cameraCFA"})
    OBVIOUS
  <2> HIDE DEF SupportWay, MetaOnly, RawOnly, Maps, SetsDb, OtherLevels, Scalings, Tame, Lacks, Never, Ready, Steps, Metas, Crops, SetsCFA, AsksCamera
  <2> QED BY <2>1, <2>2, Zenon DEF CFATable
<1> QED BY <1>1, <1>2

(* The decoders. *)
Names ==
  {"DcrDecoder", "DcsDecoder", "ErfDecoder", "MefDecoder", "KdcDecoder", "StiDecoder", "ThreefrDecoder", "MosDecoder",
   "PefDecoder", "SrwDecoder", "MrwDecoder", "NakedDecoder", "CrwDecoder", "OrfDecoder", "ArwDecoder", "Cr2Decoder",
   "NefDecoder", "Rw2Decoder", "IiqDecoder", "RafDecoder"}

Kodak == {"DcrDecoder", "DcsDecoder"}

LEMMA DecodersNamed == \A d \in Decoders : d \in Names
  BY DEF Decoders, Map, Names

AskedEarly == dec.name = "IiqDecoder" \/ (dec.name = "RafDecoder" /\ dec.special)

LEMMA ThenWithin ==
  ASSUME NEW A, NEW B, NEW C, NEW E, \A w \in A : w \in C, \A w \in B : w \in E
  PROVE  \A w \in Then(A, B) : w \in Then(C, E)
  BY DEF Then

(* The ways of the decoders are those of the tables. *)
LEMMA TiffWays ==
  /\ \A w \in DcrRaw \cup DcsRaw \cup ErfRaw \cup MefRaw \cup KdcRaw \cup StiRaw : w \in RawTable
  /\ \A w \in DcrRaw \cup DcsRaw : w \in KodakTable
  /\ \A w \in ThreefrRaw \cup MosRaw \cup PefRaw \cup SrwRaw \cup MrwRaw \cup NakedRaw : w \in RawTable
  /\ \A w \in CrwRaw \cup OrfRaw \cup NefRaw \cup Rw2Raw : w \in RawTable
<1>1. \A w \in DcrRaw \cup DcsRaw \cup ErfRaw \cup MefRaw \cup KdcRaw \cup StiRaw : w \in RawTable
  BY DEF DcrRaw, DcsRaw, ErfRaw, MefRaw, KdcRaw, StiRaw, Prepare, Decompress, RawTable
<1>2. \A w \in ThreefrRaw \cup MosRaw \cup PefRaw \cup SrwRaw \cup MrwRaw \cup NakedRaw : w \in RawTable
  BY DEF ThreefrRaw, MosRaw, PefRaw, SrwRaw, MrwRaw, NakedRaw, Then, Uncompressed, Decompress, RawTable
<1>3. \A w \in CrwRaw \cup OrfRaw \cup NefRaw \cup Rw2Raw : w \in RawTable
  BY DEF CrwRaw, OrfRaw, NefRaw, NefD100, NefUncompressed, NefSNef, NikonDecompress, DecodeNikonSNef, Rw2Raw, Rw2V8,
         Decompress, RawTable
<1>4. \A w \in DcrRaw \cup DcsRaw : w \in KodakTable
  BY DEF DcrRaw, DcsRaw, Prepare, KodakTable
<1> QED BY <1>1, <1>2, <1>3, <1>4

LEMMA ArwWays == \A w \in ArwRaw : w \in RawTable
<1> DEFINE first == {<< "dim", "curve" >>}
<1> DEFINE ends == {<< "create", "decode", "shiftExif", "endCurve" >>, << "create", "decodeMapped", "endCurve" >>,
                    << "create", "decode", "shiftDown", "shiftExif", "endCurve" >>}
<1> DEFINE rest == Then({<< "create", "decode", "shiftExif" >>} \cup DecodeARW2, {<< "endCurve" >>})
<1>1. \A w \in rest : w \in ends
  BY DEF DecodeARW2, Then
<1>2. \A w \in Then(first, ends) : w \in RawTable
  BY DEF Then, RawTable
<1>3. ArwCompressed = Then(first, rest)
  BY DEF ArwCompressed
<1>4. \A w \in ArwCompressed : w \in RawTable
  <2> HIDE DEF first, ends, rest
  <2>1. \A w \in Then(first, rest) : w \in Then(first, ends)
    BY <1>1, ThenWithin
  <2> QED BY <1>2, <1>3, <2>1
<1>5. \A w \in Then(ArwLJpeg, {<< "noMoreCrops" >>}) : w \in RawTable
  BY DEF ArwLJpeg, Then, Decompress, RawTable
<1>6. \A w \in TransitionalArw \cup ArwUncompressed : w \in RawTable
  BY DEF TransitionalArw, DecodeSRF, ArwUncompressed, Decompress, RawTable
<1> QED BY <1>4, <1>5, <1>6 DEF ArwRaw

LEMMA IiqWays == \A w \in IiqRaw : w \in RawTable \cup EarlyTable
<1> DEFINE first == {Decompress}
<1> DEFINE ends == {<< "whiteBalance" >>, << "correct", "whiteBalance" >>, << "askCFA", "correct", "whiteBalance" >>}
<1> DEFINE rest == Then({<< >>} \cup IiqCorrections, {<< "whiteBalance" >>})
<1>1. \A w \in rest : w \in ends
  BY DEF IiqCorrections, Then
<1>2. \A w \in Then(first, ends) : w \in RawTable \cup EarlyTable
  BY DEF Then, Decompress, RawTable, EarlyTable
<1>3. IiqRaw = Then(first, rest)
  BY DEF IiqRaw
<1> HIDE DEF first, ends, rest
<1>4. \A w \in Then(first, rest) : w \in Then(first, ends)
  BY <1>1, ThenWithin
<1> QED BY <1>2, <1>3, <1>4

LEMMA Cr2Ways ==
  ASSUME NEW special
  PROVE  \A w \in Cr2Raw(special) : w \in Cr2Table
<1>1. \A w \in Cr2OldFormat : w \in Cr2Table
  BY DEF Cr2OldFormat, Then, Decompress, Cr2Table
<1>2. \A w \in Cr2NewFormat : w \in Cr2Table
  BY DEF Cr2NewFormat, SRawInterpolate, Cr2Table
<1> QED BY <1>1, <1>2 DEF Cr2Raw

LEMMA RafWays ==
  ASSUME NEW special
  PROVE  \A w \in RafRaw(special) : w \in IF special THEN RawTable \cup EarlyTable ELSE RawTable
  BY DEF RafRaw, Decompress, RawTable, EarlyTable

LEMMA RawWaysFit ==
  ASSUME dec.name \in Names, NEW w \in Ways("raw")
  PROVE  RawWay(w) /\ (AsksAfter(w) \/ (AskedEarly /\ Lacks(w, {"newImageOf3"})))
         /\ (dec.name = "Cr2Decoder" => ~Lacks(w, {"setPrecision"}))
         /\ (dec.name \in Kodak => IsMapped(w))
<1>1. CASE dec.name = "DcrDecoder"
  BY <1>1, TiffWays, RawTables DEF Ways, RawWays, Kodak
<1>2. CASE dec.name = "DcsDecoder"
  BY <1>2, TiffWays, RawTables DEF Ways, RawWays, Kodak
<1>3. CASE dec.name = "ErfDecoder"
  BY <1>3, TiffWays, RawTables DEF Ways, RawWays, Kodak
<1>4. CASE dec.name = "MefDecoder"
  BY <1>4, TiffWays, RawTables DEF Ways, RawWays, Kodak
<1>5. CASE dec.name = "KdcDecoder"
  BY <1>5, TiffWays, RawTables DEF Ways, RawWays, Kodak
<1>6. CASE dec.name = "StiDecoder"
  BY <1>6, TiffWays, RawTables DEF Ways, RawWays, Kodak
<1>7. CASE dec.name = "ThreefrDecoder"
  BY <1>7, TiffWays, RawTables DEF Ways, RawWays, Kodak
<1>8. CASE dec.name = "MosDecoder"
  BY <1>8, TiffWays, RawTables DEF Ways, RawWays, Kodak
<1>9. CASE dec.name = "PefDecoder"
  BY <1>9, TiffWays, RawTables DEF Ways, RawWays, Kodak
<1>10. CASE dec.name = "SrwDecoder"
  BY <1>10, TiffWays, RawTables DEF Ways, RawWays, Kodak
<1>11. CASE dec.name = "MrwDecoder"
  BY <1>11, TiffWays, RawTables DEF Ways, RawWays, Kodak
<1>12. CASE dec.name = "NakedDecoder"
  BY <1>12, TiffWays, RawTables DEF Ways, RawWays, Kodak
<1>13. CASE dec.name = "CrwDecoder"
  BY <1>13, TiffWays, RawTables DEF Ways, RawWays, Kodak
<1>14. CASE dec.name = "OrfDecoder"
  BY <1>14, TiffWays, RawTables DEF Ways, RawWays, Kodak
<1>15. CASE dec.name = "NefDecoder"
  BY <1>15, TiffWays, RawTables DEF Ways, RawWays, Kodak
<1>16. CASE dec.name = "Rw2Decoder"
  BY <1>16, TiffWays, RawTables DEF Ways, RawWays, Kodak
<1>17. CASE dec.name = "ArwDecoder"
  BY <1>17, ArwWays, RawTables DEF Ways, RawWays, Kodak
<1>18. CASE dec.name = "Cr2Decoder"
  BY <1>18, Cr2Ways, RawTables DEF Ways, RawWays, Kodak
<1>19. CASE dec.name = "IiqDecoder"
  BY <1>19, IiqWays, RawTables DEF Ways, RawWays, Kodak, AskedEarly
<1>20. CASE dec.name = "RafDecoder"
  BY <1>20, RafWays, RawTables DEF Ways, RawWays, Kodak, AskedEarly
<1> QED BY <1>1, <1>2, <1>3, <1>4, <1>5, <1>6, <1>7, <1>8, <1>9, <1>10, <1>11, <1>12, <1>13, <1>14, <1>15, <1>16, <1>17, <1>18, <1>19, <1>20 DEF Names

LEMMA SupportWaysFit ==
  ASSUME dec.name \in Names, NEW w \in Ways("support")
  PROVE  SupportWay(w) /\ (AskedEarly => ~Lacks(w, {"cameraCFA"}))
<1>1. CASE dec.name \notin {"SrwDecoder", "NefDecoder", "Cr2Decoder", "Rw2Decoder", "IiqDecoder", "RafDecoder"}
  <2>1. w \in SupportTable
    BY <1>1 DEF Ways, SupportWays, Support, SupportTable
  <2> QED BY <1>1, <2>1, SupportTables DEF AskedEarly
<1>2. CASE dec.name \in {"SrwDecoder", "NefDecoder", "Cr2Decoder", "Rw2Decoder"}
  <2>1. w \in SupportTable
    BY <1>2 DEF Ways, SupportWays, SrwSupport, NefSupport, Cr2Support, Rw2Support, SupportTable
  <2> QED BY <1>2, <2>1, SupportTables DEF AskedEarly
<1>3. CASE dec.name = "IiqDecoder"
  <2>1. w \in CFATable
    BY <1>3 DEF Ways, SupportWays, IiqSupport, CFATable
  <2> QED BY <2>1, SupportTables
<1>4. CASE dec.name = "RafDecoder"
  <2>1. \A v \in RafSupport(dec.special) : v \in IF dec.special THEN CFATable ELSE SupportTable
    <3>1. CASE dec.special
      BY <3>1 DEF RafSupport, Then, CFATable
    <3>2. CASE ~dec.special
      BY <3>2 DEF RafSupport, Then, SupportTable
    <3> QED BY <3>1, <3>2
  <2>2. w \in IF dec.special THEN CFATable ELSE SupportTable
    BY <1>4, <2>1 DEF Ways, SupportWays
  <2> QED BY <1>4, <2>2, SupportTables DEF AskedEarly
<1> QED BY <1>1, <1>2, <1>3, <1>4

LEMMA ThreefrMetaWays == \A w \in ThreefrMeta : w \in MetaTable
<1> DEFINE first == {<< "fileCFA", "setMetaData" >>}
<1> DEFINE blacks == {<< >>, << "fileBlack" >>}
<1> DEFINE whites == {<< "whiteBalance" >>, << "fileWhite", "whiteBalance" >>}
<1> DEFINE levels == {<< "whiteBalance" >>, << "fileWhite", "whiteBalance" >>, << "fileBlack", "whiteBalance" >>,
                      << "fileBlack", "fileWhite", "whiteBalance" >>}
<1> DEFINE rest == Then({<< >>, << "fileWhite" >>}, {<< "whiteBalance" >>})
<1> DEFINE rests == Then(blacks, rest)
<1>1. \A w \in rest : w \in whites
  BY DEF Then
<1>2. \A w \in Then(blacks, whites) : w \in levels
  BY DEF Then
<1>3. \A w \in Then(first, levels) : w \in MetaTable
  BY DEF Then, MetaTable
<1>4. ThreefrMeta = Then(first, rests)
  BY DEF ThreefrMeta
<1>5. rests = Then(blacks, rest)
  OBVIOUS
<1> HIDE DEF first, blacks, whites, levels, rest, rests
<1>6. \A w \in Then(blacks, rest) : w \in Then(blacks, whites)
  BY <1>1, ThenWithin
<1>7. \A w \in rests : w \in levels
  BY <1>2, <1>5, <1>6
<1>8. \A w \in Then(first, rests) : w \in Then(first, levels)
  BY <1>7, ThenWithin
<1> QED BY <1>3, <1>4, <1>8

LEMMA RafMetaWays == \A w \in RafMeta : w \in MetaTable
<1> DEFINE one == Then({<< >>, << "whiteOfBits" >>}, {<< "cameraOrRefuse", "cameraCFA", "applyCorrections" >>})
<1> DEFINE other == Then({<< >>, << "fileBlacks" >>}, {<< "sensorLevels", "whiteBalance" >>})
<1> DEFINE ones == {<< "cameraOrRefuse", "cameraCFA", "applyCorrections" >>,
                    << "whiteOfBits", "cameraOrRefuse", "cameraCFA", "applyCorrections" >>}
<1> DEFINE others == {<< "sensorLevels", "whiteBalance" >>, << "fileBlacks", "sensorLevels", "whiteBalance" >>}
<1>1. \A w \in one : w \in ones
  BY DEF Then
<1>2. \A w \in other : w \in others
  BY DEF Then
<1>3. \A w \in Then(ones, others) : w \in MetaTable
  BY DEF Then, MetaTable
<1>4. RafMeta = Then(one, other)
  BY DEF RafMeta
<1> HIDE DEF one, other, ones, others
<1>5. \A w \in Then(one, other) : w \in Then(ones, others)
  BY <1>1, <1>2, ThenWithin
<1> QED BY <1>3, <1>4, <1>5

LEMMA ArwMetaWays == \A w \in ArwMeta : w \in ArwMetaTable
<1> DEFINE first == {<< "fileCFA", "setMetaData", "shiftLevels", "try" >>}
<1> DEFINE balance == {<< "whiteBalance" >>}
<1> DEFINE rest == Then({<< >>, << "exifBlack" >>}, {<< >>, << "exifWhite" >>})
<1> DEFINE exif == {<< >>, << "exifBlack" >>, << "exifWhite" >>, << "exifBlack", "exifWhite" >>}
<1> DEFINE levels == {<< "whiteBalance" >>, << "whiteBalance", "exifBlack" >>, << "whiteBalance", "exifWhite" >>,
                      << "whiteBalance", "exifBlack", "exifWhite" >>}
<1> DEFINE last == {<< "caught" >>}
<1> DEFINE ends == {<< "whiteBalance", "caught" >>, << "whiteBalance", "exifBlack", "caught" >>,
                    << "whiteBalance", "exifWhite", "caught" >>,
                    << "whiteBalance", "exifBlack", "exifWhite", "caught" >>}
<1> DEFINE tail == Then(A100WB \cup GetWB, last)
<1>1. \A w \in rest : w \in exif
  BY DEF Then
<1>2. \A w \in Then(balance, exif) : w \in levels
  BY DEF Then
<1>3. \A w \in Then(levels, last) : w \in ends
  BY DEF Then
<1>4. \A w \in Then(first, ends) : w \in ArwMetaTable
  BY DEF Then, ArwMetaTable
<1>5. GetWB = Then(balance, rest) /\ \A w \in A100WB : w \in levels
  BY DEF GetWB, A100WB
<1>6. ArwMeta = Then(first, tail) /\ tail = Then(A100WB \cup GetWB, last)
  BY DEF ArwMeta
<1> HIDE DEF first, balance, rest, exif, levels, last, ends, tail
<1>7. \A w \in Then(balance, rest) : w \in Then(balance, exif)
  BY <1>1, ThenWithin
<1>8. \A w \in A100WB \cup GetWB : w \in levels
  BY <1>2, <1>5, <1>7
<1>9. \A w \in Then(A100WB \cup GetWB, last) : w \in Then(levels, last)
  BY <1>8, ThenWithin
<1>10. \A w \in tail : w \in ends
  BY <1>3, <1>6, <1>9
<1>11. \A w \in Then(first, tail) : w \in Then(first, ends)
  BY <1>10, ThenWithin
<1> QED BY <1>4, <1>6, <1>11

LEMMA PefMetaWays == \A w \in PefMeta : w \in MetaTable
<1> DEFINE first == {<< "fileCFA", "setMetaData" >>}
<1> DEFINE rest == Then({<< >>, << "fileSeparate" >>}, {<< "whiteBalance" >>})
<1> DEFINE ends == {<< "whiteBalance" >>, << "fileSeparate", "whiteBalance" >>}
<1>1. \A w \in rest : w \in ends
  BY DEF Then
<1>2. \A w \in Then(first, ends) : w \in MetaTable
  BY DEF Then, MetaTable
<1>3. PefMeta = Then(first, rest)
  BY DEF PefMeta
<1> HIDE DEF first, rest, ends
<1>4. \A w \in Then(first, rest) : w \in Then(first, ends)
  BY <1>1, ThenWithin
<1> QED BY <1>2, <1>3, <1>4

LEMMA NefMetaWays == \A w \in NefMeta : w \in MetaTable
<1> DEFINE first == {<< "fileCFA", "keepLevels" >>}
<1> DEFINE last == Then({<< >>, << "fileSeparate" >>}, {<< "setMetaDataInMode", "restoreLevels" >>})
<1> DEFINE rest == Then({NefWhiteBalance}, last)
<1> DEFINE ends == {<< "setMetaDataInMode", "restoreLevels" >>, << "fileSeparate", "setMetaDataInMode", "restoreLevels" >>}
<1> DEFINE longer == {<< "whiteBalance", "setMetaDataInMode", "restoreLevels" >>,
                      << "whiteBalance", "fileSeparate", "setMetaDataInMode", "restoreLevels" >>}
<1>1. \A w \in last : w \in ends
  BY DEF Then
<1>2. \A w \in Then({NefWhiteBalance}, ends) : w \in longer
  BY DEF Then, NefWhiteBalance
<1>3. \A w \in Then(first, longer) : w \in MetaTable
  BY DEF Then, MetaTable
<1>4. NefMeta = Then(first, rest)
  BY DEF NefMeta
<1> HIDE DEF first, last, ends, longer
<1>5. \A w \in rest : w \in Then({NefWhiteBalance}, ends)
  BY <1>1, ThenWithin
<1>6. \A w \in rest : w \in longer
  BY <1>2, <1>5
<1> HIDE DEF rest
<1>7. \A w \in Then(first, rest) : w \in Then(first, longer)
  BY <1>6, ThenWithin
<1> QED BY <1>3, <1>4, <1>7

LEMMA Cr2MetaWays == \A w \in Cr2Meta : w \in Cr2MetaTable
<1> DEFINE first == {<< "fileCFA", "try" >>}
<1> DEFINE ends == {<< "caught", "setMetaDataInMode", "shiftUpLevels" >>}
<1> DEFINE balance == {<< "whiteOfPrecision", "whiteBalance" >>,
                       << "whiteOfPrecision", "whiteBalance", "canonLevels", "rescaleToPrecision" >>}
<1> DEFINE tails == {<< "whiteOfPrecision", "whiteBalance", "caught", "setMetaDataInMode", "shiftUpLevels" >>,
                     << "whiteOfPrecision", "whiteBalance", "canonLevels", "rescaleToPrecision", "caught",
                        "setMetaDataInMode", "shiftUpLevels" >>}
<1> DEFINE rest == Then(Cr2WhiteBalance, ends)
<1>1. \A w \in Cr2WhiteBalance : w \in balance
  BY DEF Cr2WhiteBalance, CanonColorData, Then
<1>2. \A w \in Then(balance, ends) : w \in tails
  BY DEF Then
<1>3. \A w \in Then(first, tails) : w \in Cr2MetaTable
  BY DEF Then, Cr2MetaTable
<1>4. Cr2Meta = Then(first, rest) /\ rest = Then(Cr2WhiteBalance, ends)
  BY DEF Cr2Meta
<1> HIDE DEF first, ends, balance, tails, rest
<1>5. \A w \in Then(Cr2WhiteBalance, ends) : w \in Then(balance, ends)
  BY <1>1, ThenWithin
<1>6. \A w \in rest : w \in tails
  BY <1>2, <1>4, <1>5
<1>7. \A w \in Then(first, rest) : w \in Then(first, tails)
  BY <1>6, ThenWithin
<1> QED BY <1>3, <1>4, <1>7

LEMMA MetaWaysFit ==
  ASSUME dec.name \in Names, NEW w \in Ways("meta")
  PROVE  /\ MetaWay(w)
         /\ dec.name = "ArwDecoder" => ArwLevels(w)
         /\ dec.name = "OrfDecoder" => OrfLevels(w)
         /\ dec.name = "Cr2Decoder" => Cr2Levels(w)
         /\ dec.name \notin {"ArwDecoder", "OrfDecoder", "Cr2Decoder"} => Lacks(w, Scalings)
         /\ dec.name \in Kodak => Lacks(w, {"caught", "applyCorrections"})
<1>1. CASE dec.name \in {"DcrDecoder", "DcsDecoder", "MefDecoder", "StiDecoder", "NakedDecoder"}
  <2>1. w \in MetaTable /\ w \in KodakMetaTable
    BY <1>1 DEF Ways, MetaWays, SetMetaDataOnly, MetaTable, KodakMetaTable
  <2> QED BY <1>1, <2>1, MetaTables DEF Kodak
<1>2. CASE dec.name \in {"ErfDecoder", "KdcDecoder", "MosDecoder", "SrwDecoder", "MrwDecoder", "CrwDecoder"}
  <2>1. w \in MetaTable
    BY <1>2 DEF Ways, MetaWays, ErfMeta, KdcMeta, MosMeta, SrwMeta, MrwMeta, CrwMeta, MetaTable
  <2> QED BY <1>2, <2>1, MetaTables DEF Kodak
<1>3. CASE dec.name = "ThreefrDecoder"
  <2>1. w \in MetaTable
    BY <1>3, ThreefrMetaWays DEF Ways, MetaWays
  <2> QED BY <1>3, <2>1, MetaTables DEF Kodak
<1>4. CASE dec.name = "NefDecoder"
  <2>1. w \in MetaTable
    BY <1>4, NefMetaWays DEF Ways, MetaWays
  <2> QED BY <1>4, <2>1, MetaTables DEF Kodak
<1>5. CASE dec.name = "Rw2Decoder"
  <2>1. \A v \in Rw2Meta : v \in MetaTable
    BY DEF Rw2Meta, Rw2ParseCFA, Then, MetaTable
  <2>2. w \in MetaTable
    BY <1>5, <2>1 DEF Ways, MetaWays
  <2> QED BY <1>5, <2>2, MetaTables DEF Kodak
<1>6. CASE dec.name = "IiqDecoder"
  <2>1. w \in MetaTable
    BY <1>6 DEF Ways, MetaWays, IiqMeta, MetaTable
  <2> QED BY <1>6, <2>1, MetaTables DEF Kodak
<1>7. CASE dec.name = "RafDecoder"
  <2>1. w \in MetaTable
    BY <1>7, RafMetaWays DEF Ways, MetaWays
  <2> QED BY <1>7, <2>1, MetaTables DEF Kodak
<1>8. CASE dec.name = "ArwDecoder"
  <2>1. w \in ArwMetaTable
    BY <1>8, ArwMetaWays DEF Ways, MetaWays
  <2> QED BY <1>8, <2>1, MetaTables DEF Kodak
<1>9. CASE dec.name = "Cr2Decoder"
  <2>1. w \in Cr2MetaTable
    BY <1>9, Cr2MetaWays DEF Ways, MetaWays
  <2> QED BY <1>9, <2>1, MetaTables DEF Kodak
<1>10. CASE dec.name = "OrfDecoder"
  <2>1. \A v \in OrfMeta : v \in OrfMetaTable
    BY DEF OrfMeta, Then, OrfMetaTable
  <2>2. w \in OrfMetaTable
    BY <1>10, <2>1 DEF Ways, MetaWays
  <2> QED BY <1>10, <2>2, MetaTables DEF Kodak
<1>11. CASE dec.name = "PefDecoder"
  <2>1. w \in MetaTable
    BY <1>11, PefMetaWays DEF Ways, MetaWays
  <2> QED BY <1>11, <2>1, MetaTables DEF Kodak
<1> QED BY <1>1, <1>2, <1>3, <1>4, <1>5, <1>6, <1>7, <1>8, <1>9, <1>10, <1>11 DEF Names

(* What is left of a call is the end of one of the ways. *)
EndOf(v, w) ==
  /\ v \in Seq(Steps)
  /\ \E n \in 0 .. Len(w) : Len(v) = Len(w) - n /\ \A k \in 1 .. Len(v) : v[k] = w[n + k]

LEMMA TailIsEnd ==
  ASSUME NEW w \in Seq(Steps), w # << >>
  PROVE  /\ EndOf(Tail(w), w) /\ Len(Tail(w)) = Len(w) - 1 /\ Len(w) >= 1 /\ Head(w) = w[1]
         /\ \A k \in 1 .. Len(w) - 1 : Tail(w)[k] = w[k + 1]
<1>1. Tail(w) \in Seq(Steps) /\ Len(Tail(w)) = Len(w) - 1 /\ Len(w) >= 1 /\ Head(w) = w[1]
  OBVIOUS
<1>2. \A k \in 1 .. Len(w) - 1 : Tail(w)[k] = w[k + 1]
  OBVIOUS
<1>3. \E n \in 0 .. Len(w) : Len(Tail(w)) = Len(w) - n /\ \A k \in 1 .. Len(Tail(w)) : Tail(w)[k] = w[n + k]
  <2>1. 1 \in 0 .. Len(w) /\ \A k \in 1 .. Len(Tail(w)) : Tail(w)[k] = w[1 + k]
    BY <1>1, <1>2
  <2> QED BY <1>1, <2>1
<1> QED BY <1>1, <1>2, <1>3 DEF EndOf

LEMMA SubSeqIsEnd ==
  ASSUME NEW w \in Seq(Steps), NEW n \in 1 .. Len(w)
  PROVE  LET v == SubSeq(w, n + 1, Len(w)) IN
         EndOf(v, w) /\ Len(v) = Len(w) - n /\ \A k \in 1 .. Len(w) - n : v[k] = w[n + k]
<1> DEFINE v == SubSeq(w, n + 1, Len(w))
<1>1. v \in Seq(Steps) /\ Len(v) = Len(w) - n
  OBVIOUS
<1>2. \A k \in 1 .. Len(w) - n : v[k] = w[n + k]
  OBVIOUS
<1> HIDE DEF v
<1>3. \E m \in 0 .. Len(w) : Len(v) = Len(w) - m /\ \A k \in 1 .. Len(v) : v[k] = w[m + k]
  BY <1>1, <1>2
<1>4. EndOf(v, w) /\ Len(v) = Len(w) - n /\ \A k \in 1 .. Len(w) - n : v[k] = w[n + k]
  BY <1>1, <1>2, <1>3 DEF EndOf
<1> QED BY <1>4 DEF v

LEMMA NothingLeft ==
  /\ << >> \in Seq(Steps)
  /\ \A w \in Seq(Steps) : EndOf(<< >>, w)
<1>1. << >> \in Seq(Steps) /\ Len(<< >>) = 0
  OBVIOUS
<1>2. ASSUME NEW w \in Seq(Steps) PROVE EndOf(<< >>, w)
  <2>1. Len(w) \in 0 .. Len(w) /\ Len(<< >>) = Len(w) - Len(w)
    OBVIOUS
  <2> QED BY <1>1, <2>1 DEF EndOf
<1> QED BY <1>1, <1>2

LEMMA EmptyHasNone ==
  ASSUME NEW A, NEW B, NEW C, NEW now
  PROVE  Lacks(<< >>, A) /\ Never(<< >>, A, B) /\ Ready(now, << >>, B, A, C) /\ RightBefore(<< >>, A, B)
         /\ AfterTry(<< >>, A) /\ Outside(<< >>, A)
<1>1. Len(<< >>) = 0
  OBVIOUS
<1>2. 1 .. Len(<< >>) = {}
  BY <1>1
<1> QED BY <1>2 DEF Lacks, Never, Ready, RightBefore, AfterTry, Outside

LEMMA LacksInEnd ==
  ASSUME NEW w \in Seq(Steps), NEW v, EndOf(v, w), NEW A, Lacks(w, A)
  PROVE  Lacks(v, A)
<1>1. PICK n \in 0 .. Len(w) : Len(v) = Len(w) - n /\ \A k \in 1 .. Len(v) : v[k] = w[n + k]
  BY DEF EndOf
<1>2. ASSUME NEW k \in 1 .. Len(v) PROVE v[k] \notin A
  <2>1. n + k \in 1 .. Len(w) /\ v[k] = w[n + k]
    BY <1>1
  <2> QED BY <2>1 DEF Lacks
<1> QED BY <1>2 DEF Lacks

LEMMA NeverInEnd ==
  ASSUME NEW w \in Seq(Steps), NEW v, EndOf(v, w), NEW A, NEW B, Never(w, A, B)
  PROVE  Never(v, A, B)
<1>1. PICK n \in 0 .. Len(w) : Len(v) = Len(w) - n /\ \A k \in 1 .. Len(v) : v[k] = w[n + k]
  BY DEF EndOf
<1>2. ASSUME NEW j \in 1 .. Len(v), NEW k \in 1 .. Len(v), j < k, v[j] \in A PROVE v[k] \notin B
  <2>1. n + j \in 1 .. Len(w) /\ n + k \in 1 .. Len(w) /\ n + j < n + k /\ v[j] = w[n + j] /\ v[k] = w[n + k]
    BY <1>1, <1>2
  <2> QED BY <1>2, <2>1 DEF Never
<1> QED BY <1>2 DEF Never

LEMMA RightBeforeInEnd ==
  ASSUME NEW w \in Seq(Steps), NEW v, EndOf(v, w), NEW a, NEW b, RightBefore(w, a, b)
  PROVE  RightBefore(v, a, b)
<1>1. PICK n \in 0 .. Len(w) : Len(v) = Len(w) - n /\ \A k \in 1 .. Len(v) : v[k] = w[n + k]
  BY DEF EndOf
<1>2. ASSUME NEW k \in 1 .. Len(v), v[k] = a PROVE k + 1 \in 1 .. Len(v) /\ v[k + 1] = b
  <2>1. n + k \in 1 .. Len(w) /\ v[k] = w[n + k]
    BY <1>1
  <2>2. n + k + 1 \in 1 .. Len(w) /\ w[n + k + 1] = b
    BY <1>2, <2>1 DEF RightBefore
  <2>3. k + 1 \in 1 .. Len(v) /\ n + (k + 1) = n + k + 1
    BY <1>1, <2>2
  <2> QED BY <1>1, <2>2, <2>3
<1> QED BY <1>2 DEF RightBefore

LEMMA AfterTryInEnd ==
  ASSUME NEW w \in Seq(Steps), NEW v, EndOf(v, w), NEW a, AfterTry(w, a)
  PROVE  AfterTry(v, a)
<1>1. PICK n \in 0 .. Len(w) : Len(v) = Len(w) - n /\ \A k \in 1 .. Len(v) : v[k] = w[n + k]
  BY DEF EndOf
<1>2. ASSUME NEW k \in 1 .. Len(v), v[k] = a, k # 1 PROVE v[k - 1] = "try"
  <2>1. n + k \in 1 .. Len(w) /\ v[k] = w[n + k] /\ n + k # 1
    BY <1>1, <1>2
  <2>2. w[n + k - 1] = "try"
    BY <1>2, <2>1 DEF AfterTry
  <2>3. k - 1 \in 1 .. Len(v) /\ n + (k - 1) = n + k - 1
    BY <1>1, <1>2
  <2> QED BY <1>1, <2>2, <2>3
<1> QED BY <1>2 DEF AfterTry

LEMMA OutsideInEnd ==
  ASSUME NEW w \in Seq(Steps), NEW v, EndOf(v, w), NEW A, Outside(w, A)
  PROVE  Outside(v, A)
<1>1. PICK n \in 0 .. Len(w) : Len(v) = Len(w) - n /\ \A k \in 1 .. Len(v) : v[k] = w[n + k]
  BY DEF EndOf
<1>2. ASSUME NEW j \in 1 .. Len(v), NEW k \in 1 .. Len(v), j < k, v[j] \in A, v[k] = "caught"
      PROVE  \E i \in j + 1 .. k - 1 : v[i] = "try"
  <2>1. n + j \in 1 .. Len(w) /\ n + k \in 1 .. Len(w) /\ n + j < n + k /\ v[j] = w[n + j] /\ v[k] = w[n + k]
    BY <1>1, <1>2
  <2>2. PICK m \in n + j + 1 .. n + k - 1 : w[m] = "try"
    BY <1>2, <2>1 DEF Outside
  <2>3. m - n \in j + 1 .. k - 1 /\ m - n \in 1 .. Len(v) /\ n + (m - n) = m
    BY <1>1
  <2> QED BY <1>1, <2>2, <2>3
<1> QED BY <1>2 DEF Outside

LEMMA LacksFewer ==
  ASSUME NEW w, NEW A, NEW B, Lacks(w, A), B \subseteq A
  PROVE  Lacks(w, B)
  BY DEF Lacks

LEMMA LacksBoth ==
  ASSUME NEW w, NEW A, NEW B
  PROVE  Lacks(w, A \cup B) <=> Lacks(w, A) /\ Lacks(w, B)
  BY DEF Lacks

LEMMA LacksNow ==
  ASSUME NEW w \in Seq(Steps), w # << >>, NEW A, Lacks(w, A)
  PROVE  Head(w) \notin A
<1>1. 1 \in 1 .. Len(w) /\ Head(w) = w[1]
  BY TailIsEnd
<1> QED BY <1>1 DEF Lacks

LEMMA HasLater ==
  ASSUME NEW w \in Seq(Steps), w # << >>, NEW A, Lacks(Tail(w), A), Head(w) \notin A
  PROVE  Lacks(w, A)
<1>1. ASSUME NEW k \in 1 .. Len(w) PROVE w[k] \notin A
  <2>1. CASE k = 1
    BY <2>1, TailIsEnd
  <2>2. CASE k # 1
    <3>1. k - 1 \in 1 .. Len(w) - 1 /\ (k - 1) + 1 = k
      BY <2>2
    <3>2. Tail(w)[k - 1] = w[k] /\ k - 1 \in 1 .. Len(Tail(w))
      BY <3>1, TailIsEnd
    <3> QED BY <3>2 DEF Lacks
  <2> QED BY <2>1, <2>2
<1> QED BY <1>1 DEF Lacks

LEMMA NeverAgain ==
  ASSUME NEW w \in Seq(Steps), w # << >>, NEW A, NEW B, Never(w, A, B), Head(w) \in A
  PROVE  Lacks(Tail(w), B)
<1>1. ASSUME NEW k \in 1 .. Len(Tail(w)) PROVE Tail(w)[k] \notin B
  <2>1. k + 1 \in 1 .. Len(w) /\ 1 \in 1 .. Len(w) /\ 1 < k + 1 /\ Tail(w)[k] = w[k + 1] /\ w[1] = Head(w)
    BY TailIsEnd
  <2> QED BY <2>1 DEF Never
<1> QED BY <1>1 DEF Lacks

LEMMA RightNext ==
  ASSUME NEW w \in Seq(Steps), w # << >>, NEW a, NEW b, RightBefore(w, a, b), Head(w) = a
  PROVE  Tail(w) # << >> /\ Head(Tail(w)) = b
<1>1. 2 \in 1 .. Len(w) /\ w[2] = b
  <2>1. 1 \in 1 .. Len(w) /\ w[1] = a
    BY TailIsEnd
  <2>2. 1 + 1 \in 1 .. Len(w) /\ w[1 + 1] = b
    BY <2>1 DEF RightBefore
  <2> QED BY <2>2
<1>2. Tail(w) \in Seq(Steps) /\ Len(Tail(w)) >= 1 /\ Tail(w)[1] = b
  <2>1. 1 \in 1 .. Len(w) - 1 /\ 1 + 1 = 2
    BY <1>1
  <2> QED BY <1>1, <2>1, TailIsEnd DEF EndOf
<1>3. Tail(w) # << >>
  <2>1. \A v \in Seq(Steps) : Len(v) >= 1 => v # << >>
    OBVIOUS
  <2> QED BY <1>2, <2>1
<1>4. Head(Tail(w)) = Tail(w)[1]
  <2>1. \A v \in Seq(Steps) : Head(v) = v[1]
    OBVIOUS
  <2> QED BY <1>2, <2>1
<1> QED BY <1>2, <1>3, <1>4

LEMMA ReadyNow ==
  ASSUME NEW w \in Seq(Steps), w # << >>, NEW A, NEW B, NEW C, NEW now \in BOOLEAN,
         Ready(now, w, B, A, C), Head(w) \in B
  PROVE  now
<1>1. 1 \in 1 .. Len(w) /\ Head(w) = w[1] /\ 1 .. 1 - 1 = {}
  BY TailIsEnd
<1> QED BY <1>1 DEF Ready

LEMMA ReadyAhead ==
  ASSUME NEW w, NEW A, NEW B, NEW C, NEW now \in BOOLEAN, NEW then \in BOOLEAN, Ready(now, w, B, A, C), now => then
  PROVE  Ready(then, w, B, A, C)
  BY DEF Ready

LEMMA ReadyNext ==
  ASSUME NEW w \in Seq(Steps), w # << >>, NEW A, NEW B, NEW C, NEW now \in BOOLEAN, NEW then \in BOOLEAN,
         Ready(now, w, B, A, C), now /\ Head(w) \notin C => then, Head(w) \in A => then
  PROVE  Ready(then, Tail(w), B, A, C)
<1> DEFINE v == Tail(w)
<1>1. ASSUME NEW k \in 1 .. Len(v), v[k] \in B
      PROVE  \/ then /\ \A i \in 1 .. k - 1 : v[i] \notin C
             \/ \E j \in 1 .. k - 1 : v[j] \in A /\ \A i \in j + 1 .. k - 1 : v[i] \notin C
  <2>1. k + 1 \in 1 .. Len(w) /\ v[k] = w[k + 1] /\ k \in Nat
    BY TailIsEnd
  <2>2. \A i \in 1 .. k - 1 : i + 1 \in 1 .. k /\ v[i] = w[i + 1]
    BY TailIsEnd
  <2>3. w[1] = Head(w)
    BY TailIsEnd
  <2> HIDE DEF v
  <2>4. \/ now /\ \A i \in 1 .. k : w[i] \notin C
        \/ \E j \in 1 .. k : w[j] \in A /\ \A i \in j + 1 .. k : w[i] \notin C
    <3>1. (k + 1) - 1 = k
      BY <2>1
    <3> QED BY <1>1, <2>1, <3>1 DEF Ready
  <2>5. CASE now /\ \A i \in 1 .. k : w[i] \notin C
    <3>1. 1 \in 1 .. k
      BY <2>1
    <3>2. then
      BY <2>3, <2>5, <3>1
    <3> QED BY <2>2, <2>5, <3>2
  <2>6. ASSUME NEW j \in 1 .. k, w[j] \in A, \A i \in j + 1 .. k : w[i] \notin C
        PROVE  \/ then /\ \A i \in 1 .. k - 1 : v[i] \notin C
               \/ \E m \in 1 .. k - 1 : v[m] \in A /\ \A i \in m + 1 .. k - 1 : v[i] \notin C
    <3>1. CASE j = 1
      <4>1. then
        BY <2>3, <2>6, <3>1
      <4>2. \A i \in 1 .. k - 1 : v[i] \notin C
        BY <2>2, <2>6, <3>1
      <4> QED BY <4>1, <4>2
    <3>2. CASE j # 1
      <4>1. j - 1 \in 1 .. k - 1 /\ (j - 1) + 1 = j
        BY <3>2
      <4>2. v[j - 1] \in A
        BY <2>2, <2>6, <4>1
      <4>3. \A i \in (j - 1) + 1 .. k - 1 : i \in 1 .. k - 1 /\ i + 1 \in j + 1 .. k
        BY <4>1
      <4>4. \A i \in (j - 1) + 1 .. k - 1 : v[i] \notin C
        BY <2>2, <2>6, <4>3
      <4> QED BY <4>1, <4>2, <4>4
    <3> QED BY <3>1, <3>2
  <2> QED BY <2>4, <2>5, <2>6
<1> QED BY <1>1 DEF Ready

(* What has been caught undoes it. *)
LEMMA ReadyCaught ==
  ASSUME NEW w \in Seq(Steps), NEW n \in 1 .. Len(w), NEW A, NEW B, NEW C, NEW now, NEW then,
         Ready(now, w, B, A, C), w[n] \in C, w[n] \notin A
  PROVE  Ready(then, SubSeq(w, n + 1, Len(w)), B, A, C)
<1> DEFINE v == SubSeq(w, n + 1, Len(w))
<1>1. Len(v) = Len(w) - n /\ \A k \in 1 .. Len(w) - n : v[k] = w[n + k]
  BY SubSeqIsEnd
<1> HIDE DEF v
<1>2. ASSUME NEW k \in 1 .. Len(v), v[k] \in B
      PROVE  \E j \in 1 .. k - 1 : v[j] \in A /\ \A i \in j + 1 .. k - 1 : v[i] \notin C
  <2>1. n + k \in 1 .. Len(w) /\ w[n + k] \in B /\ n \in 1 .. n + k - 1
    BY <1>1, <1>2
  <2>2. PICK j \in 1 .. n + k - 1 : w[j] \in A /\ \A i \in j + 1 .. n + k - 1 : w[i] \notin C
    BY <2>1 DEF Ready
  <2>3. j > n
    <3>1. j < n => n \in j + 1 .. n + k - 1
      BY <2>1
    <3> QED BY <2>2, <3>1
  <2>4. j - n \in 1 .. k - 1 /\ n + (j - n) = j
    BY <2>3
  <2>5. v[j - n] \in A
    BY <1>1, <2>2, <2>4
  <2>6. ASSUME NEW i \in (j - n) + 1 .. k - 1 PROVE v[i] \notin C
    <3>1. n + i \in j + 1 .. n + k - 1 /\ i \in 1 .. Len(w) - n
      BY <1>1, <2>4
    <3> QED BY <1>1, <2>2, <3>1
  <2> QED BY <2>4, <2>5, <2>6
<1>3. Ready(then, v, B, A, C)
  BY <1>2 DEF Ready
<1> QED BY <1>3 DEF v

LevelType == [from : {"unset", "file", "exif", "db"}, scaled : Nat]

ImageType ==
  [dim : BOOLEAN, allocated : BOOLEAN, isCFA : BOOLEAN, cfa : {"none", "file", "db"}, shift : {0, 1},
   offset : {0, 1}, crops : Nat, table : {"none", "plain", "dither"}, mapped : Nat,
   black : LevelType, white : LevelType, separate : LevelType]

AnyHints == {{}} \cup {cam[mode].hints : cam \in Cameras, mode \in Modes}

DecoderType ==
  [name : Decoders \cup {"none"}, crop : BOOLEAN, hints : AnyHints, guard : {"none", "curve", "kept"},
   mode : {"", "mode", "other"}, special : BOOLEAN, shift : {0, 1}, exif : {0, 1}, precision : Indeterminate,
   kept : [black : LevelType, white : LevelType]]

DecodingType ==
  /\ img \in ImageType /\ dec \in DecoderType /\ todo \in Seq(Steps)
  /\ client \in [fail : BOOLEAN, uncorrected : BOOLEAN]
  /\ camera \in Cameras \cup {NoCamera}

(* What a step whose name is h does to the decoder, and to each part of the image.     *)
DecEffect(h) ==
  /\ dec' \in DecoderType
  /\ dec'.name = dec.name /\ dec'.special = dec.special
  /\ dec'.crop => dec.crop /\ h # "noMoreCrops"
  /\ dec'.mode = dec.mode \/ h = "setMode"
  /\ dec'.shift = dec.shift \/ h \in {"shiftDown", "shiftUp"}
  /\ IF h = "setPrecision" THEN dec'.precision # 0 ELSE dec'.precision = dec.precision
  /\ dec'.kept = dec.kept \/ (dec'.kept.black = img.black /\ dec'.kept.white = img.white)

MapEffect(h) ==
  /\ img'.isCFA => img.isCFA \/ (h = "applyCorrections" /\ ~client.uncorrected)
  /\ h = "notCFA" => ~img'.isCFA
  /\ \/ img'.mapped \in {0, img.mapped}
     \/ h \in Maps /\ img.table # "none" /\ img'.mapped = img.mapped + 1
  /\ \/ h # "endCurve" /\ dec'.guard = dec.guard /\ img'.table \in {img.table, "none"}
     \/ h \in {"curve", "curveAlways"} /\ dec'.guard = "curve" /\ img'.table = "dither"
          /\ (client.uncorrected => h = "curveAlways")
     \/ h = "curve" /\ dec'.guard = "kept" /\ img'.table = img.table
     \/ h = "endCurve" /\ dec'.guard = "none" /\ img'.table = Unguarded(img, dec.guard).table

CropEffect(h) ==
  /\ h \in SetsCFA =>
       img'.isCFA = img.isCFA /\ img'.shift = 0 /\ img'.offset = img.offset /\ img'.crops = img.crops
  /\ h \in Metas /\ img.shift = 0 /\ img.offset = 0 =>
       /\ img'.isCFA /\ img'.cfa # "none" => img'.shift = img'.offset
       /\ img'.shift # 0 => img'.offset # 0
       /\ img'.offset # 0 => dec.crop
       /\ img'.crops \in {0, img.crops} \/ (dec.crop /\ img'.crops = img.crops + 1)
  /\ h = "cropToSize" =>
       /\ img'.isCFA = img.isCFA /\ img'.cfa = img.cfa /\ img'.shift = img.shift /\ img'.offset = img.offset
       /\ img'.crops = img.crops + 1
  /\ h \notin Crops \cup SetsCFA =>
       \/ img'.cfa = img.cfa /\ img'.shift = img.shift /\ img'.offset = img.offset /\ img'.crops = img.crops
       \/ h = "newImageOf3" /\ ~img'.isCFA /\ img'.shift = 0 /\ img'.offset = 0 /\ img'.crops = 0

AllCFA == \A mode \in DOMAIN camera : HasCFA(camera[mode])

ColourEffect(h) ==
  /\ h \notin {"newImageOf3", "cameraCFA"} => (img.cfa # "none" => img'.cfa # "none")
  /\ h = "cameraOrRefuse" => dec.mode \in DOMAIN camera
  /\ h = "fileCFA" => img'.cfa # "none"
  /\ h = "cameraCFA" /\ AllCFA => img'.cfa # "none"

Sensed == "" \in DOMAIN camera /\ camera[""].sensors > 0

SameLevels == img'.black = img.black /\ img'.white = img.white /\ img'.separate = img.separate

LevelsOfDb ==
  img'.black = Level("db") /\ img'.white = Level("db") /\ img'.separate \in {img.separate, Level("db")}

LevelEffect(h) ==
  /\ h \notin SetsDb \cup Scalings =>
       /\ img'.black \in {img.black, Level("file"), Unset} /\ img'.white \in {img.white, Level("file"), Unset}
       /\ img'.separate \in {img.separate, Level("file"), Unset}
  /\ h = "canonLevels" => img'.white = Level("file") /\ img'.separate = Level("file")
  /\ h = "fileSeparate" => img'.separate = Level("file")
  /\ h = "whiteOfPrecision" => img'.white = Level("file")
  /\ h \in SetsDb \ {"restoreLevels"} => SameLevels \/ LevelsOfDb
  /\ h = "setMetaData" => IF Sensed THEN LevelsOfDb ELSE SameLevels
  /\ h = "restoreLevels" =>
       /\ img'.black \in {img.black, dec.kept.black} /\ img'.white \in {img.white, dec.kept.white}
       /\ img'.separate = img.separate
  /\ h = "scale" =>
       img'.black = Scaled(img.black) /\ img'.white = Scaled(img.white) /\ img'.separate = Scaled(img.separate)
  /\ h = "shiftLevels" =>
       IF dec.shift = 0 THEN SameLevels
       ELSE img'.black = Scaled(img.black) /\ img'.white = Scaled(img.white) /\ img'.separate = img.separate
  /\ h = "exifBlack" => img'.black = img.black /\ img'.white = img.white /\ img'.separate.from = "exif"
  /\ h = "exifWhite" => img'.black = img.black /\ img'.white.from = "exif" /\ img'.separate = img.separate
  /\ h = "rescaleToPrecision" =>
       \/ SameLevels
       \/ /\ img'.black = img.black /\ img'.white = Scaled(img.white)
          /\ img'.separate \in {img.separate, Scaled(img.separate)}
  /\ h = "shiftUpLevels" =>
       SameLevels \/ (img'.black = Level("file") /\ img'.white = Scaled(img.white) /\ img'.separate = Unset)

(* The table of the image, the samples that go through it, and the memory they are in. *)
CurveEffect(h) ==
  /\ h \notin {"endCurve", "newImageOf3", "applyCorrections"} => (img.table # "none" => img'.table # "none")
  /\ h = "curve" /\ ~client.uncorrected => img'.table # "none"
  /\ h = "decodeMapped" /\ img.table # "none" => img'.mapped # 0
  /\ h \notin {"newImageOf3", "applyCorrections"} => (img.mapped # 0 => img'.mapped # 0)
  /\ h \notin {"create", "newImageOf3", "applyCorrections"} => img'.allocated = img.allocated

Effect ==
  /\ todo # << >> /\ Done /\ img' \in ImageType
  /\ DecEffect(Head(todo)) /\ MapEffect(Head(todo)) /\ CropEffect(Head(todo))
  /\ ColourEffect(Head(todo)) /\ LevelEffect(Head(todo)) /\ CurveEffect(Head(todo))

LEMMA LevelTypes ==
  /\ Unset \in LevelType /\ \A from \in {"unset", "file", "exif", "db"} : Level(from) \in LevelType
  /\ \A level \in LevelType :
       Scaled(level) \in LevelType /\ Scaled(level).scaled = level.scaled + 1 /\ Scaled(level).from = level.from
<1>1. Unset \in LevelType /\ \A from \in {"unset", "file", "exif", "db"} : Level(from) \in LevelType
  BY DEF Unset, Level, LevelType
<1>2. \A level \in LevelType :
        Scaled(level) \in LevelType /\ Scaled(level).scaled = level.scaled + 1 /\ Scaled(level).from = level.from
  BY DEF Scaled, LevelType
<1> QED BY <1>1, <1>2

LEMMA NewImageType == NewImage \in ImageType
  BY LevelTypes DEF NewImage, ImageType

LEMMA DecSame ==
  ASSUME dec \in DecoderType, UNCHANGED dec, NEW h, h \notin {"noMoreCrops", "setPrecision"}
  PROVE  DecEffect(h) /\ dec'.guard = dec.guard
  BY DEF DecEffect

(* The steps that do nothing to the image but to say that it has a size or is allocated.  *)
LEMMA PlainEffect ==
  ASSUME DecodingType, UNCHANGED << dec, camera, client >>, todo # << >>, todo' = Tail(todo),
         Head(todo) \notin Maps \cup Crops \cup SetsCFA \cup SetsDb \cup Scalings \cup
           {"endCurve", "curve", "canonLevels", "fileSeparate", "whiteOfPrecision", "notCFA", "noMoreCrops", "setPrecision"},
         img' = img \/ img' = [img EXCEPT !.dim = TRUE] \/ img' = [img EXCEPT !.allocated = TRUE],
         img'.allocated = img.allocated \/ Head(todo) = "create",
         Head(todo) = "cameraOrRefuse" => dec.mode \in DOMAIN camera
  PROVE  Effect
<1>0. img' \in ImageType
  <2>1. CASE img' = img
    BY <2>1 DEF DecodingType
  <2>2. CASE img' = [img EXCEPT !.dim = TRUE]
    BY <2>2 DEF DecodingType, ImageType
  <2>3. CASE img' = [img EXCEPT !.allocated = TRUE]
    BY <2>3 DEF DecodingType, ImageType
  <2> QED BY <2>1, <2>2, <2>3
<1>1. /\ img'.isCFA = img.isCFA /\ img'.cfa = img.cfa /\ img'.shift = img.shift /\ img'.offset = img.offset
      /\ img'.crops = img.crops /\ img'.table = img.table /\ img'.mapped = img.mapped
      /\ img'.black = img.black /\ img'.white = img.white /\ img'.separate = img.separate
  BY DEF DecodingType, ImageType
<1> DEFINE h == Head(todo)
<1> HIDE DEF h
<1>h. h \notin Maps \cup Crops \cup SetsCFA \cup SetsDb \cup Scalings \cup
           {"endCurve", "curve", "canonLevels", "fileSeparate", "whiteOfPrecision", "notCFA", "noMoreCrops", "setPrecision"}
  BY DEF h
<1>2. DecEffect(h)
  BY <1>h, DecSame DEF DecodingType
<1>3. MapEffect(h)
  BY <1>1, <1>h DEF MapEffect
<1>4. CropEffect(h)
  BY <1>1, <1>h DEF CropEffect, Crops
<1>5. ColourEffect(h)
  <2>1. h = "cameraOrRefuse" => dec.mode \in DOMAIN camera
    BY DEF h
  <2> QED BY <1>1, <1>h, <2>1 DEF ColourEffect, SetsCFA
<1>6. LevelEffect(h)
  BY <1>1, <1>h DEF LevelEffect, SetsDb, Scalings
<1>7. CurveEffect(h)
  <2>1. img'.allocated = img.allocated \/ h = "create"
    BY DEF h
  <2> QED BY <1>1, <1>h, <2>1 DEF CurveEffect, Maps
<1> QED BY <1>0, <1>2, <1>3, <1>4, <1>5, <1>6, <1>7 DEF Effect, h, Done

LEMMA PlainSteps ==
  ASSUME DecodingType,
         \/ Marks \/ SetDim \/ SetCpp \/ CreateData \/ Write \/ AskCFA \/ WhiteBalance
         \/ At("cameraOrRefuse") /\ dec.mode \in DOMAIN camera /\ Makes(img)
  PROVE  Effect
<1>1. UNCHANGED << dec, camera, client >> /\ todo # << >> /\ todo' = Tail(todo)
  BY DEF Marks, SetDim, SetCpp, CreateData, Write, AskCFA, WhiteBalance, Makes, Done, At
<1>2. Head(todo) \in {"try", "caught", "dim", "cpp", "create", "decode", "askCFA", "whiteBalance", "correct",
                      "cameraOrRefuse"}
  BY DEF Marks, SetDim, SetCpp, CreateData, Write, AskCFA, WhiteBalance, At
<1>3. img' = img \/ img' = [img EXCEPT !.dim = TRUE] \/ img' = [img EXCEPT !.allocated = TRUE]
  BY DEF Marks, SetDim, SetCpp, CreateData, Write, AskCFA, WhiteBalance, Makes
<1>4. Head(todo) \notin Maps \cup Crops \cup SetsCFA \cup SetsDb \cup Scalings \cup
           {"endCurve", "curve", "canonLevels", "fileSeparate", "whiteOfPrecision", "notCFA", "noMoreCrops", "setPrecision"}
  BY <1>2 DEF Maps, Crops, Metas, SetsCFA, SetsDb, OtherLevels, Scalings
<1>5. Head(todo) = "cameraOrRefuse" => dec.mode \in DOMAIN camera
  BY DEF Marks, SetDim, SetCpp, CreateData, Write, AskCFA, WhiteBalance, At
<1>6. img'.allocated = img.allocated \/ Head(todo) = "create"
  BY DEF Marks, SetDim, SetCpp, CreateData, Write, AskCFA, WhiteBalance, Makes, At, DecodingType, ImageType
<1> QED BY <1>1, <1>3, <1>4, <1>5, <1>6, PlainEffect

(* The steps that change the levels only. *)
LEMMA LevelsOnly ==
  ASSUME DecodingType, UNCHANGED << dec, camera, client >>, todo # << >>, todo' = Tail(todo), img' \in ImageType,
         Head(todo) \notin Maps \cup Crops \cup SetsCFA \cup {"endCurve", "curve", "notCFA", "noMoreCrops", "setPrecision", "cameraOrRefuse"},
         img'.isCFA = img.isCFA, img'.cfa = img.cfa, img'.shift = img.shift, img'.offset = img.offset,
         img'.crops = img.crops, img'.table = img.table, img'.mapped = img.mapped, img'.allocated = img.allocated,
         LevelEffect(Head(todo))
  PROVE  Effect
<1> DEFINE h == Head(todo)
<1> HIDE DEF h
<1>h. h \notin Maps \cup Crops \cup SetsCFA \cup {"endCurve", "curve", "notCFA", "noMoreCrops", "setPrecision", "cameraOrRefuse"}
  BY DEF h
<1>2. DecEffect(h)
  BY <1>h, DecSame DEF DecodingType
<1>3. MapEffect(h)
  BY <1>h DEF MapEffect
<1>4. CropEffect(h)
  BY <1>h DEF CropEffect, Crops
<1>5. ColourEffect(h)
  BY <1>h DEF ColourEffect, SetsCFA
<1>6. CurveEffect(h)
  BY <1>h DEF CurveEffect, Maps
<1> QED BY <1>2, <1>3, <1>4, <1>5, <1>6 DEF Effect, h, Done

OnlyLevels(i, image, black, white, separate) ==
  /\ i \in ImageType /\ i.black = black /\ i.white = white /\ i.separate = separate
  /\ i.isCFA = image.isCFA /\ i.cfa = image.cfa /\ i.shift = image.shift /\ i.offset = image.offset
  /\ i.crops = image.crops /\ i.table = image.table /\ i.mapped = image.mapped /\ i.allocated = image.allocated

(* A step that makes the levels what LevelEffect says. *)
LEMMA LevelStep ==
  ASSUME DecodingType, NEW black, NEW white, NEW separate, NEW i, Makes(i), todo # << >>,
         Head(todo) \notin Maps \cup Crops \cup SetsCFA \cup {"endCurve", "curve", "notCFA", "noMoreCrops", "setPrecision", "cameraOrRefuse"},
         OnlyLevels(i, img, black, white, separate),
         img'.black = black /\ img'.white = white /\ img'.separate = separate => LevelEffect(Head(todo))
  PROVE  Effect
<1>1. img' = i /\ UNCHANGED << dec, camera, client >> /\ todo' = Tail(todo)
  BY DEF Makes, Done
<1>4. /\ img' \in ImageType
      /\ img'.isCFA = img.isCFA /\ img'.cfa = img.cfa /\ img'.shift = img.shift /\ img'.offset = img.offset
      /\ img'.crops = img.crops /\ img'.table = img.table /\ img'.mapped = img.mapped
      /\ img'.allocated = img.allocated
  BY <1>1 DEF OnlyLevels
<1>5. LevelEffect(Head(todo))
  BY <1>1 DEF OnlyLevels
<1> QED BY <1>1, <1>4, <1>5, LevelsOnly

LEMMA LevelNames ==
  \A h \in {"whiteOfBits", "fileBlack", "fileSeparate", "fileBlacks", "fileWhite", "scale", "shiftLevels",
            "exifBlack", "exifWhite", "whiteOfPrecision", "canonLevels", "rescaleToPrecision", "shiftUpLevels",
            "restoreLevels", "sensorLevels"} :
    h \notin Maps \cup Crops \cup SetsCFA \cup {"endCurve", "curve", "notCFA", "noMoreCrops", "setPrecision", "cameraOrRefuse"}
  BY DEF Maps, Crops, Metas, SetsCFA

LEMMA ExifLevelType ==
  ASSUME DecodingType PROVE [from |-> "exif", scaled |-> dec.exif] \in LevelType
<1>1. dec.exif \in {0, 1}
  BY DEF DecodingType, DecoderType
<1> QED BY <1>1 DEF LevelType

LEMMA LevelSteps ==
  ASSUME DecodingType,
         \/ WhiteOfBits \/ FileLevels \/ ScaleLevels \/ Hasselblad
         \/ At("shiftLevels") /\ Makes(IF dec.shift = 0 THEN img ELSE WhiteAndBlackScaled(img))
         \/ At("exifBlack") /\ Makes([img EXCEPT !.separate = [from |-> "exif", scaled |-> dec.exif]])
         \/ At("exifWhite") /\ Makes([img EXCEPT !.white = [from |-> "exif", scaled |-> dec.exif]])
         \/ At("whiteOfPrecision") /\ Makes(SetWhite("file"))
         \/ At("canonLevels") /\ Makes([SetWhite("file") EXCEPT !.separate = Level("file")])
         \/ /\ At("rescaleToPrecision")
            /\ \/ Makes(img) \/ Makes([img EXCEPT !.white = Scaled(@), !.separate = Scaled(@)])
               \/ Makes([img EXCEPT !.white = Scaled(@)])
         \/ /\ At("shiftUpLevels")
            /\ Makes(IF dec.shift = 0 THEN img
                     ELSE [img EXCEPT !.black = Level("file"), !.separate = Unset, !.white = Scaled(@)])
         \/ /\ At("restoreLevels")
            /\ Makes([img EXCEPT !.black = IF dec.kept.black = Unset THEN @ ELSE dec.kept.black,
                                !.white = IF dec.kept.white = Unset THEN @ ELSE dec.kept.white])
         \/ /\ At("sensorLevels")
            /\ Makes(IF camera[dec.mode].sensors > 0 THEN [SetWhite("db") EXCEPT !.black = Level("db")] ELSE img)
  PROVE  Effect
<1>1. ASSUME WhiteOfBits PROVE Effect
  <2> DEFINE i == [img EXCEPT !.white = Level("file")]
  <2> DEFINE b == img.black
  <2> DEFINE w == Level("file")
  <2> DEFINE s == img.separate
  <2>1. todo # << >> /\ Head(todo) = "whiteOfBits" /\ Makes(i)
    BY <1>1 DEF At, WhiteOfBits, SetWhite
  <2>2. b \in LevelType /\ w \in LevelType /\ s \in LevelType
    BY LevelTypes DEF DecodingType, DecoderType, ImageType
  <2> HIDE DEF b, w, s
  <2>3. OnlyLevels(i, img, b, w, s)
    BY <2>2 DEF OnlyLevels, DecodingType, ImageType, b, w, s
  <2>4. img'.black = b /\ img'.white = w /\ img'.separate = s => LevelEffect(Head(todo))
    BY <1>1, <2>1 DEF LevelEffect, SetsDb, OtherLevels, Scalings, SameLevels, LevelsOfDb, b, w, s
  <2> HIDE DEF i
  <2> QED BY <2>1, <2>2, <2>3, <2>4, LevelNames, LevelStep
<1>2. ASSUME At("fileBlack") /\ Makes([img EXCEPT !.black = Level("file")]) PROVE Effect
  <2> DEFINE i == [img EXCEPT !.black = Level("file")]
  <2> DEFINE b == Level("file")
  <2> DEFINE w == img.white
  <2> DEFINE s == img.separate
  <2>1. todo # << >> /\ Head(todo) = "fileBlack" /\ Makes(i)
    BY <1>2 DEF At
  <2>2. b \in LevelType /\ w \in LevelType /\ s \in LevelType
    BY LevelTypes DEF DecodingType, DecoderType, ImageType
  <2> HIDE DEF b, w, s
  <2>3. OnlyLevels(i, img, b, w, s)
    BY <2>2 DEF OnlyLevels, DecodingType, ImageType, b, w, s
  <2>4. img'.black = b /\ img'.white = w /\ img'.separate = s => LevelEffect(Head(todo))
    BY <1>2, <2>1 DEF LevelEffect, SetsDb, OtherLevels, Scalings, SameLevels, LevelsOfDb, b, w, s
  <2> HIDE DEF i
  <2> QED BY <2>1, <2>2, <2>3, <2>4, LevelNames, LevelStep
<1>3. ASSUME At("fileSeparate") /\ Makes([img EXCEPT !.separate = Level("file")]) PROVE Effect
  <2> DEFINE i == [img EXCEPT !.separate = Level("file")]
  <2> DEFINE b == img.black
  <2> DEFINE w == img.white
  <2> DEFINE s == Level("file")
  <2>1. todo # << >> /\ Head(todo) = "fileSeparate" /\ Makes(i)
    BY <1>3 DEF At
  <2>2. b \in LevelType /\ w \in LevelType /\ s \in LevelType
    BY LevelTypes DEF DecodingType, DecoderType, ImageType
  <2> HIDE DEF b, w, s
  <2>3. OnlyLevels(i, img, b, w, s)
    BY <2>2 DEF OnlyLevels, DecodingType, ImageType, b, w, s
  <2>4. img'.black = b /\ img'.white = w /\ img'.separate = s => LevelEffect(Head(todo))
    BY <1>3, <2>1 DEF LevelEffect, SetsDb, OtherLevels, Scalings, SameLevels, LevelsOfDb, b, w, s
  <2> HIDE DEF i
  <2> QED BY <2>1, <2>2, <2>3, <2>4, LevelNames, LevelStep
<1>4. ASSUME At("fileBlacks") /\ Makes([img EXCEPT !.black = Level("file"), !.separate = Level("file")]) PROVE Effect
  <2> DEFINE i == [img EXCEPT !.black = Level("file"), !.separate = Level("file")]
  <2> DEFINE b == Level("file")
  <2> DEFINE w == img.white
  <2> DEFINE s == Level("file")
  <2>1. todo # << >> /\ Head(todo) = "fileBlacks" /\ Makes(i)
    BY <1>4 DEF At
  <2>2. b \in LevelType /\ w \in LevelType /\ s \in LevelType
    BY LevelTypes DEF DecodingType, DecoderType, ImageType
  <2> HIDE DEF b, w, s
  <2>3. OnlyLevels(i, img, b, w, s)
    BY <2>2 DEF OnlyLevels, DecodingType, ImageType, b, w, s
  <2>4. img'.black = b /\ img'.white = w /\ img'.separate = s => LevelEffect(Head(todo))
    BY <1>4, <2>1 DEF LevelEffect, SetsDb, OtherLevels, Scalings, SameLevels, LevelsOfDb, b, w, s
  <2> HIDE DEF i
  <2> QED BY <2>1, <2>2, <2>3, <2>4, LevelNames, LevelStep
<1>5. ASSUME ScaleLevels PROVE Effect
  <2> DEFINE i == [img EXCEPT !.white = Scaled(@), !.black = Scaled(@), !.separate = Scaled(@)]
  <2> DEFINE b == Scaled(img.black)
  <2> DEFINE w == Scaled(img.white)
  <2> DEFINE s == Scaled(img.separate)
  <2>1. todo # << >> /\ Head(todo) = "scale" /\ Makes(i)
    BY <1>5 DEF At, ScaleLevels
  <2>2. b \in LevelType /\ w \in LevelType /\ s \in LevelType
    BY LevelTypes DEF DecodingType, DecoderType, ImageType
  <2> HIDE DEF b, w, s
  <2>3. OnlyLevels(i, img, b, w, s)
    BY <2>2 DEF OnlyLevels, DecodingType, ImageType, b, w, s
  <2>4. img'.black = b /\ img'.white = w /\ img'.separate = s => LevelEffect(Head(todo))
    BY <1>5, <2>1 DEF LevelEffect, SetsDb, OtherLevels, Scalings, SameLevels, LevelsOfDb, b, w, s
  <2> HIDE DEF i
  <2> QED BY <2>1, <2>2, <2>3, <2>4, LevelNames, LevelStep
<1>6. ASSUME Hasselblad PROVE Effect
  <2> DEFINE i == [img EXCEPT !.white = Level("file")]
  <2> DEFINE b == img.black
  <2> DEFINE w == Level("file")
  <2> DEFINE s == img.separate
  <2>1. todo # << >> /\ Head(todo) = "fileWhite" /\ Makes(i)
    BY <1>6 DEF At, Hasselblad, SetWhite
  <2>2. b \in LevelType /\ w \in LevelType /\ s \in LevelType
    BY LevelTypes DEF DecodingType, DecoderType, ImageType
  <2> HIDE DEF b, w, s
  <2>3. OnlyLevels(i, img, b, w, s)
    BY <2>2 DEF OnlyLevels, DecodingType, ImageType, b, w, s
  <2>4. img'.black = b /\ img'.white = w /\ img'.separate = s => LevelEffect(Head(todo))
    BY <1>6, <2>1 DEF LevelEffect, SetsDb, OtherLevels, Scalings, SameLevels, LevelsOfDb, b, w, s
  <2> HIDE DEF i
  <2> QED BY <2>1, <2>2, <2>3, <2>4, LevelNames, LevelStep
<1>7. ASSUME At("shiftLevels") /\ dec.shift = 0 /\ Makes(img) PROVE Effect
  <2> DEFINE i == img
  <2> DEFINE b == img.black
  <2> DEFINE w == img.white
  <2> DEFINE s == img.separate
  <2>1. todo # << >> /\ Head(todo) = "shiftLevels" /\ Makes(i)
    BY <1>7 DEF At
  <2>2. b \in LevelType /\ w \in LevelType /\ s \in LevelType
    BY LevelTypes DEF DecodingType, DecoderType, ImageType
  <2> HIDE DEF b, w, s
  <2>3. OnlyLevels(i, img, b, w, s)
    BY <2>2 DEF OnlyLevels, DecodingType, ImageType, b, w, s
  <2>4. img'.black = b /\ img'.white = w /\ img'.separate = s => LevelEffect(Head(todo))
    BY <1>7, <2>1 DEF LevelEffect, SetsDb, OtherLevels, Scalings, SameLevels, LevelsOfDb, b, w, s
  <2> HIDE DEF i
  <2> QED BY <2>1, <2>2, <2>3, <2>4, LevelNames, LevelStep
<1>8. ASSUME At("shiftLevels") /\ dec.shift # 0 /\ Makes(WhiteAndBlackScaled(img)) PROVE Effect
  <2> DEFINE i == [img EXCEPT !.white = Scaled(@), !.black = Scaled(@)]
  <2> DEFINE b == Scaled(img.black)
  <2> DEFINE w == Scaled(img.white)
  <2> DEFINE s == img.separate
  <2>1. todo # << >> /\ Head(todo) = "shiftLevels" /\ Makes(i)
    BY <1>8 DEF At, WhiteAndBlackScaled
  <2>2. b \in LevelType /\ w \in LevelType /\ s \in LevelType
    BY LevelTypes DEF DecodingType, DecoderType, ImageType
  <2> HIDE DEF b, w, s
  <2>3. OnlyLevels(i, img, b, w, s)
    BY <2>2 DEF OnlyLevels, DecodingType, ImageType, b, w, s
  <2>4. img'.black = b /\ img'.white = w /\ img'.separate = s => LevelEffect(Head(todo))
    BY <1>8, <2>1 DEF LevelEffect, SetsDb, OtherLevels, Scalings, SameLevels, LevelsOfDb, b, w, s
  <2> HIDE DEF i
  <2> QED BY <2>1, <2>2, <2>3, <2>4, LevelNames, LevelStep
<1>9. ASSUME At("exifBlack") /\ Makes([img EXCEPT !.separate = [from |-> "exif", scaled |-> dec.exif]]) PROVE Effect
  <2> DEFINE i == [img EXCEPT !.separate = [from |-> "exif", scaled |-> dec.exif]]
  <2> DEFINE b == img.black
  <2> DEFINE w == img.white
  <2> DEFINE s == [from |-> "exif", scaled |-> dec.exif]
  <2>1. todo # << >> /\ Head(todo) = "exifBlack" /\ Makes(i)
    BY <1>9 DEF At
  <2>2. b \in LevelType /\ w \in LevelType /\ s \in LevelType
    BY ExifLevelType DEF DecodingType, ImageType
  <2> HIDE DEF b, w, s
  <2>3. OnlyLevels(i, img, b, w, s)
    BY <2>2 DEF OnlyLevels, DecodingType, ImageType, b, w, s
  <2>4. img'.black = b /\ img'.white = w /\ img'.separate = s => LevelEffect(Head(todo))
    BY <1>9, <2>1 DEF LevelEffect, SetsDb, OtherLevels, Scalings, SameLevels, LevelsOfDb, b, w, s
  <2> HIDE DEF i
  <2> QED BY <2>1, <2>2, <2>3, <2>4, LevelNames, LevelStep
<1>10. ASSUME At("exifWhite") /\ Makes([img EXCEPT !.white = [from |-> "exif", scaled |-> dec.exif]]) PROVE Effect
  <2> DEFINE i == [img EXCEPT !.white = [from |-> "exif", scaled |-> dec.exif]]
  <2> DEFINE b == img.black
  <2> DEFINE w == [from |-> "exif", scaled |-> dec.exif]
  <2> DEFINE s == img.separate
  <2>1. todo # << >> /\ Head(todo) = "exifWhite" /\ Makes(i)
    BY <1>10 DEF At
  <2>2. b \in LevelType /\ w \in LevelType /\ s \in LevelType
    BY ExifLevelType DEF DecodingType, ImageType
  <2> HIDE DEF b, w, s
  <2>3. OnlyLevels(i, img, b, w, s)
    BY <2>2 DEF OnlyLevels, DecodingType, ImageType, b, w, s
  <2>4. img'.black = b /\ img'.white = w /\ img'.separate = s => LevelEffect(Head(todo))
    BY <1>10, <2>1 DEF LevelEffect, SetsDb, OtherLevels, Scalings, SameLevels, LevelsOfDb, b, w, s
  <2> HIDE DEF i
  <2> QED BY <2>1, <2>2, <2>3, <2>4, LevelNames, LevelStep
<1>11. ASSUME At("whiteOfPrecision") /\ Makes(SetWhite("file")) PROVE Effect
  <2> DEFINE i == [img EXCEPT !.white = Level("file")]
  <2> DEFINE b == img.black
  <2> DEFINE w == Level("file")
  <2> DEFINE s == img.separate
  <2>1. todo # << >> /\ Head(todo) = "whiteOfPrecision" /\ Makes(i)
    BY <1>11 DEF At, SetWhite
  <2>2. b \in LevelType /\ w \in LevelType /\ s \in LevelType
    BY LevelTypes DEF DecodingType, DecoderType, ImageType
  <2> HIDE DEF b, w, s
  <2>3. OnlyLevels(i, img, b, w, s)
    BY <2>2 DEF OnlyLevels, DecodingType, ImageType, b, w, s
  <2>4. img'.black = b /\ img'.white = w /\ img'.separate = s => LevelEffect(Head(todo))
    BY <1>11, <2>1 DEF LevelEffect, SetsDb, OtherLevels, Scalings, SameLevels, LevelsOfDb, b, w, s
  <2> HIDE DEF i
  <2> QED BY <2>1, <2>2, <2>3, <2>4, LevelNames, LevelStep
<1>12. ASSUME At("canonLevels") /\ Makes([SetWhite("file") EXCEPT !.separate = Level("file")]) PROVE Effect
  <2> DEFINE i == [[img EXCEPT !.white = Level("file")] EXCEPT !.separate = Level("file")]
  <2> DEFINE b == img.black
  <2> DEFINE w == Level("file")
  <2> DEFINE s == Level("file")
  <2>1. todo # << >> /\ Head(todo) = "canonLevels" /\ Makes(i)
    BY <1>12 DEF At, SetWhite
  <2>2. b \in LevelType /\ w \in LevelType /\ s \in LevelType
    BY LevelTypes DEF DecodingType, DecoderType, ImageType
  <2> HIDE DEF b, w, s
  <2>3. OnlyLevels(i, img, b, w, s)
    BY <2>2 DEF OnlyLevels, DecodingType, ImageType, b, w, s
  <2>4. img'.black = b /\ img'.white = w /\ img'.separate = s => LevelEffect(Head(todo))
    BY <1>12, <2>1 DEF LevelEffect, SetsDb, OtherLevels, Scalings, SameLevels, LevelsOfDb, b, w, s
  <2> HIDE DEF i
  <2> QED BY <2>1, <2>2, <2>3, <2>4, LevelNames, LevelStep
<1>13. ASSUME At("rescaleToPrecision") /\ Makes(img) PROVE Effect
  <2> DEFINE i == img
  <2> DEFINE b == img.black
  <2> DEFINE w == img.white
  <2> DEFINE s == img.separate
  <2>1. todo # << >> /\ Head(todo) = "rescaleToPrecision" /\ Makes(i)
    BY <1>13 DEF At
  <2>2. b \in LevelType /\ w \in LevelType /\ s \in LevelType
    BY LevelTypes DEF DecodingType, DecoderType, ImageType
  <2> HIDE DEF b, w, s
  <2>3. OnlyLevels(i, img, b, w, s)
    BY <2>2 DEF OnlyLevels, DecodingType, ImageType, b, w, s
  <2>4. img'.black = b /\ img'.white = w /\ img'.separate = s => LevelEffect(Head(todo))
    BY <1>13, <2>1 DEF LevelEffect, SetsDb, OtherLevels, Scalings, SameLevels, LevelsOfDb, b, w, s
  <2> HIDE DEF i
  <2> QED BY <2>1, <2>2, <2>3, <2>4, LevelNames, LevelStep
<1>14. ASSUME At("rescaleToPrecision") /\ Makes([img EXCEPT !.white = Scaled(@), !.separate = Scaled(@)]) PROVE Effect
  <2> DEFINE i == [img EXCEPT !.white = Scaled(@), !.separate = Scaled(@)]
  <2> DEFINE b == img.black
  <2> DEFINE w == Scaled(img.white)
  <2> DEFINE s == Scaled(img.separate)
  <2>1. todo # << >> /\ Head(todo) = "rescaleToPrecision" /\ Makes(i)
    BY <1>14 DEF At
  <2>2. b \in LevelType /\ w \in LevelType /\ s \in LevelType
    BY LevelTypes DEF DecodingType, DecoderType, ImageType
  <2> HIDE DEF b, w, s
  <2>3. OnlyLevels(i, img, b, w, s)
    BY <2>2 DEF OnlyLevels, DecodingType, ImageType, b, w, s
  <2>4. img'.black = b /\ img'.white = w /\ img'.separate = s => LevelEffect(Head(todo))
    BY <1>14, <2>1 DEF LevelEffect, SetsDb, OtherLevels, Scalings, SameLevels, LevelsOfDb, b, w, s
  <2> HIDE DEF i
  <2> QED BY <2>1, <2>2, <2>3, <2>4, LevelNames, LevelStep
<1>15. ASSUME At("rescaleToPrecision") /\ Makes([img EXCEPT !.white = Scaled(@)]) PROVE Effect
  <2> DEFINE i == [img EXCEPT !.white = Scaled(@)]
  <2> DEFINE b == img.black
  <2> DEFINE w == Scaled(img.white)
  <2> DEFINE s == img.separate
  <2>1. todo # << >> /\ Head(todo) = "rescaleToPrecision" /\ Makes(i)
    BY <1>15 DEF At
  <2>2. b \in LevelType /\ w \in LevelType /\ s \in LevelType
    BY LevelTypes DEF DecodingType, DecoderType, ImageType
  <2> HIDE DEF b, w, s
  <2>3. OnlyLevels(i, img, b, w, s)
    BY <2>2 DEF OnlyLevels, DecodingType, ImageType, b, w, s
  <2>4. img'.black = b /\ img'.white = w /\ img'.separate = s => LevelEffect(Head(todo))
    BY <1>15, <2>1 DEF LevelEffect, SetsDb, OtherLevels, Scalings, SameLevels, LevelsOfDb, b, w, s
  <2> HIDE DEF i
  <2> QED BY <2>1, <2>2, <2>3, <2>4, LevelNames, LevelStep
<1>16. ASSUME At("shiftUpLevels") /\ dec.shift = 0 /\ Makes(img) PROVE Effect
  <2> DEFINE i == img
  <2> DEFINE b == img.black
  <2> DEFINE w == img.white
  <2> DEFINE s == img.separate
  <2>1. todo # << >> /\ Head(todo) = "shiftUpLevels" /\ Makes(i)
    BY <1>16 DEF At
  <2>2. b \in LevelType /\ w \in LevelType /\ s \in LevelType
    BY LevelTypes DEF DecodingType, DecoderType, ImageType
  <2> HIDE DEF b, w, s
  <2>3. OnlyLevels(i, img, b, w, s)
    BY <2>2 DEF OnlyLevels, DecodingType, ImageType, b, w, s
  <2>4. img'.black = b /\ img'.white = w /\ img'.separate = s => LevelEffect(Head(todo))
    BY <1>16, <2>1 DEF LevelEffect, SetsDb, OtherLevels, Scalings, SameLevels, LevelsOfDb, b, w, s
  <2> HIDE DEF i
  <2> QED BY <2>1, <2>2, <2>3, <2>4, LevelNames, LevelStep
<1>17. ASSUME At("shiftUpLevels") /\ dec.shift # 0 /\ Makes([img EXCEPT !.black = Level("file"), !.separate = Unset, !.white = Scaled(@)]) PROVE Effect
  <2> DEFINE i == [img EXCEPT !.black = Level("file"), !.separate = Unset, !.white = Scaled(@)]
  <2> DEFINE b == Level("file")
  <2> DEFINE w == Scaled(img.white)
  <2> DEFINE s == Unset
  <2>1. todo # << >> /\ Head(todo) = "shiftUpLevels" /\ Makes(i)
    BY <1>17 DEF At
  <2>2. b \in LevelType /\ w \in LevelType /\ s \in LevelType
    BY LevelTypes DEF DecodingType, DecoderType, ImageType
  <2> HIDE DEF b, w, s
  <2>3. OnlyLevels(i, img, b, w, s)
    BY <2>2 DEF OnlyLevels, DecodingType, ImageType, b, w, s
  <2>4. img'.black = b /\ img'.white = w /\ img'.separate = s => LevelEffect(Head(todo))
    BY <1>17, <2>1 DEF LevelEffect, SetsDb, OtherLevels, Scalings, SameLevels, LevelsOfDb, b, w, s
  <2> HIDE DEF i
  <2> QED BY <2>1, <2>2, <2>3, <2>4, LevelNames, LevelStep
<1>18. ASSUME At("restoreLevels") /\ Makes([img EXCEPT !.black = IF dec.kept.black = Unset THEN @ ELSE dec.kept.black,
                                  !.white = IF dec.kept.white = Unset THEN @ ELSE dec.kept.white]) PROVE Effect
  <2> DEFINE i == [img EXCEPT !.black = IF dec.kept.black = Unset THEN @ ELSE dec.kept.black,
                                  !.white = IF dec.kept.white = Unset THEN @ ELSE dec.kept.white]
  <2> DEFINE b == (IF dec.kept.black = Unset THEN img.black ELSE dec.kept.black)
  <2> DEFINE w == (IF dec.kept.white = Unset THEN img.white ELSE dec.kept.white)
  <2> DEFINE s == img.separate
  <2>1. todo # << >> /\ Head(todo) = "restoreLevels" /\ Makes(i)
    BY <1>18 DEF At
  <2>2. b \in LevelType /\ w \in LevelType /\ s \in LevelType
    BY LevelTypes DEF DecodingType, DecoderType, ImageType
  <2> HIDE DEF b, w, s
  <2>3. OnlyLevels(i, img, b, w, s)
    BY <2>2 DEF OnlyLevels, DecodingType, ImageType, b, w, s
  <2>4. img'.black = b /\ img'.white = w /\ img'.separate = s => LevelEffect(Head(todo))
    BY <1>18, <2>1 DEF LevelEffect, SetsDb, OtherLevels, Scalings, SameLevels, LevelsOfDb, b, w, s
  <2> HIDE DEF i
  <2> QED BY <2>1, <2>2, <2>3, <2>4, LevelNames, LevelStep
<1>19. ASSUME At("sensorLevels") /\ Makes(img) PROVE Effect
  <2> DEFINE i == img
  <2> DEFINE b == img.black
  <2> DEFINE w == img.white
  <2> DEFINE s == img.separate
  <2>1. todo # << >> /\ Head(todo) = "sensorLevels" /\ Makes(i)
    BY <1>19 DEF At
  <2>2. b \in LevelType /\ w \in LevelType /\ s \in LevelType
    BY LevelTypes DEF DecodingType, DecoderType, ImageType
  <2> HIDE DEF b, w, s
  <2>3. OnlyLevels(i, img, b, w, s)
    BY <2>2 DEF OnlyLevels, DecodingType, ImageType, b, w, s
  <2>4. img'.black = b /\ img'.white = w /\ img'.separate = s => LevelEffect(Head(todo))
    BY <1>19, <2>1 DEF LevelEffect, SetsDb, OtherLevels, Scalings, SameLevels, LevelsOfDb, b, w, s
  <2> HIDE DEF i
  <2> QED BY <2>1, <2>2, <2>3, <2>4, LevelNames, LevelStep
<1>20. ASSUME At("sensorLevels") /\ Makes([SetWhite("db") EXCEPT !.black = Level("db")]) PROVE Effect
  <2> DEFINE i == [[img EXCEPT !.white = Level("db")] EXCEPT !.black = Level("db")]
  <2> DEFINE b == Level("db")
  <2> DEFINE w == Level("db")
  <2> DEFINE s == img.separate
  <2>1. todo # << >> /\ Head(todo) = "sensorLevels" /\ Makes(i)
    BY <1>20 DEF At, SetWhite
  <2>2. b \in LevelType /\ w \in LevelType /\ s \in LevelType
    BY LevelTypes DEF DecodingType, DecoderType, ImageType
  <2> HIDE DEF b, w, s
  <2>3. OnlyLevels(i, img, b, w, s)
    BY <2>2 DEF OnlyLevels, DecodingType, ImageType, b, w, s
  <2>4. img'.black = b /\ img'.white = w /\ img'.separate = s => LevelEffect(Head(todo))
    BY <1>20, <2>1 DEF LevelEffect, SetsDb, OtherLevels, Scalings, SameLevels, LevelsOfDb, b, w, s
  <2> HIDE DEF i
  <2> QED BY <2>1, <2>2, <2>3, <2>4, LevelNames, LevelStep
<1> QED BY <1>1, <1>2, <1>3, <1>4, <1>5, <1>6, <1>7, <1>8, <1>9, <1>10, <1>11, <1>12, <1>13, <1>14, <1>15, <1>16, <1>17, <1>18, <1>19, <1>20 DEF FileLevels

LEMMA SameImage ==
  ASSUME DecodingType, UNCHANGED << img, camera, client >>, todo # << >>, todo' = Tail(todo),
         DecEffect(Head(todo)), dec'.guard = dec.guard,
         Head(todo) \notin Maps \cup Crops \cup SetsCFA \cup SetsDb \cup Scalings \cup
           {"endCurve", "curve", "canonLevels", "fileSeparate", "whiteOfPrecision", "notCFA", "cameraOrRefuse"}
  PROVE  Effect
<1> DEFINE h == Head(todo)
<1> HIDE DEF h
<1>1. h \notin Maps \cup Crops \cup SetsCFA \cup SetsDb \cup Scalings \cup
        {"endCurve", "curve", "canonLevels", "fileSeparate", "whiteOfPrecision", "notCFA", "cameraOrRefuse"}
  BY DEF h
<1>2. MapEffect(h)
  BY <1>1 DEF MapEffect
<1>3. CropEffect(h)
  BY <1>1 DEF CropEffect, Crops
<1>4. ColourEffect(h)
  BY <1>1 DEF ColourEffect, SetsCFA
<1>5. LevelEffect(h)
  BY <1>1 DEF LevelEffect, SetsDb, Scalings
<1>6. CurveEffect(h)
  BY <1>1 DEF CurveEffect, Maps
<1> QED BY <1>2, <1>3, <1>4, <1>5, <1>6 DEF Effect, h, Done, DecodingType

LEMMA CameraTypes ==
  ASSUME DecodingType, NEW mode \in DOMAIN camera
  PROVE  mode \in Modes /\ camera[mode].crop \in {NoCrop, 0, 1} /\ camera[mode].hints \in AnyHints
<1>1. CASE camera \in Cameras
  <2>1. mode \in Modes /\ camera[mode].crop \in {NoCrop, 0, 1}
    BY <1>1, CamerasAssumption
  <2> QED BY <1>1, <2>1 DEF AnyHints
<1>2. CASE camera = NoCamera
  BY <1>2 DEF NoCamera
<1> QED BY <1>1, <1>2 DEF DecodingType

LEMMA KnowsType ==
  ASSUME DecodingType, NEW mode, dec' = Knows(mode), NEW h, h \notin {"noMoreCrops", "setPrecision"}
  PROVE  DecEffect(h) /\ dec'.guard = dec.guard
<1>1. CASE mode \in DOMAIN camera
  <2> DEFINE hints == camera[mode].hints
  <2>1. hints \in AnyHints
    BY <1>1, CameraTypes
  <2>2. dec' = [dec EXCEPT !.hints = hints]
    BY <1>1 DEF Knows
  <2> HIDE DEF hints
  <2>3. dec' \in DecoderType
    BY <2>1, <2>2 DEF DecodingType, DecoderType
  <2>4. dec \in DecoderType
    BY DEF DecodingType
  <2>5. /\ dec'.name = dec.name /\ dec'.special = dec.special /\ dec'.crop = dec.crop /\ dec'.mode = dec.mode
        /\ dec'.shift = dec.shift /\ dec'.precision = dec.precision /\ dec'.kept = dec.kept
        /\ dec'.guard = dec.guard
    BY <2>2, <2>4 DEF DecoderType
  <2> QED BY <2>3, <2>5 DEF DecEffect
<1>2. CASE mode \notin DOMAIN camera
  BY <1>2, DecSame DEF Knows, DecodingType
<1> QED BY <1>1, <1>2

LEMMA SupportSteps ==
  ASSUME DecodingType, NEW mode, CheckSupport(mode),
         At("checkSupport") \/ At("checkSupportInMode") \/ At("checkSupportInEither")
  PROVE  Effect
<1>1. todo # << >> /\ Head(todo) \in {"checkSupport", "checkSupportInMode", "checkSupportInEither"}
  BY DEF At
<1>2. UNCHANGED << img, camera, client >> /\ todo' = Tail(todo) /\ dec' = Knows(mode)
  BY DEF CheckSupport, Done
<1>3. DecEffect(Head(todo)) /\ dec'.guard = dec.guard
  BY <1>1, <1>2, KnowsType
<1>4. Head(todo) \notin Maps \cup Crops \cup SetsCFA \cup SetsDb \cup Scalings \cup
           {"endCurve", "curve", "canonLevels", "fileSeparate", "whiteOfPrecision", "notCFA", "cameraOrRefuse"}
  BY <1>1 DEF Maps, Crops, Metas, SetsCFA, SetsDb, OtherLevels, Scalings
<1> QED BY <1>1, <1>2, <1>3, <1>4, SameImage

LEMMA NotesSteps ==
  ASSUME DecodingType,
         \/ At("setMode") /\ dec' = [dec EXCEPT !.mode = "mode"] /\ UNCHANGED img /\ Done
         \/ At("noMoreCrops") /\ Notes([dec EXCEPT !.crop = FALSE])
         \/ At("shiftDown") /\ Notes([dec EXCEPT !.shift = 1])
         \/ At("shiftUp") /\ Notes([dec EXCEPT !.shift = 1])
         \/ At("shiftExif") /\ Notes([dec EXCEPT !.exif = 1])
         \/ At("setPrecision") /\ \E p \in {12, 14} : Notes([dec EXCEPT !.precision = p])
         \/ At("keepLevels") /\ Notes([dec EXCEPT !.kept = [black |-> img.black, white |-> img.white]])
  PROVE  Effect
<1>1. todo # << >> /\ Head(todo) \in {"setMode", "noMoreCrops", "shiftDown", "shiftUp", "shiftExif", "setPrecision", "keepLevels"}
  BY DEF At
<1>2. UNCHANGED << img, camera, client >> /\ todo' = Tail(todo)
  BY DEF Notes, Done
<1>3. DecEffect(Head(todo)) /\ dec'.guard = dec.guard
  <2> USE DEF At, Notes, DecEffect, DecodingType, DecoderType
  <2>1. CASE At("setMode") /\ dec' = [dec EXCEPT !.mode = "mode"]
    BY <2>1
  <2>2. CASE At("noMoreCrops") /\ Notes([dec EXCEPT !.crop = FALSE])
    BY <2>2
  <2>3. CASE At("shiftDown") /\ Notes([dec EXCEPT !.shift = 1])
    BY <2>3
  <2>4. CASE At("shiftUp") /\ Notes([dec EXCEPT !.shift = 1])
    BY <2>4
  <2>5. CASE At("shiftExif") /\ Notes([dec EXCEPT !.exif = 1])
    BY <2>5
  <2>6. ASSUME NEW p \in {12, 14}, At("setPrecision"), Notes([dec EXCEPT !.precision = p])
        PROVE  DecEffect(Head(todo)) /\ dec'.guard = dec.guard
    <3>1. p \in Indeterminate /\ p # 0
      <4> HIDE DEF At, Notes, DecEffect, DecodingType, DecoderType
      <4> QED BY <2>6 DEF Indeterminate
    <3>2. Head(todo) = "setPrecision" /\ dec' = [dec EXCEPT !.precision = p]
      BY <2>6
    <3>3. dec' \in DecoderType /\ dec'.precision = p /\ dec'.guard = dec.guard
      BY <3>1, <3>2
    <3>4. /\ dec'.name = dec.name /\ dec'.special = dec.special /\ dec'.crop = dec.crop
          /\ dec'.mode = dec.mode /\ dec'.shift = dec.shift /\ dec'.kept = dec.kept
      BY <3>2
    <3> HIDE DEF DecodingType, DecoderType
    <3> QED BY <3>1, <3>2, <3>3, <3>4
  <2>7. CASE At("keepLevels") /\ Notes([dec EXCEPT !.kept = [black |-> img.black, white |-> img.white]])
    <3>1. [black |-> img.black, white |-> img.white] \in [black : LevelType, white : LevelType]
      BY DEF ImageType
    <3> DEFINE kept == [black |-> img.black, white |-> img.white]
    <3>2. kept.black = img.black /\ kept.white = img.white
      OBVIOUS
    <3> HIDE DEF kept
    <3>3. At("keepLevels") /\ Notes([dec EXCEPT !.kept = kept])
      BY <2>7 DEF kept
    <3> QED BY <3>1, <3>2, <3>3 DEF kept
  <2> QED BY <2>1, <2>2, <2>3, <2>4, <2>5, <2>6, <2>7
<1>4. Head(todo) \notin Maps \cup Crops \cup SetsCFA \cup SetsDb \cup Scalings \cup
           {"endCurve", "curve", "canonLevels", "fileSeparate", "whiteOfPrecision", "notCFA", "cameraOrRefuse"}
  BY <1>1 DEF Maps, Crops, Metas, SetsCFA, SetsDb, OtherLevels, Scalings
<1> QED BY <1>1, <1>2, <1>3, <1>4, SameImage

LEMMA OtherParts ==
  ASSUME NEW h, h \notin SetsDb \cup Scalings \cup {"canonLevels", "fileSeparate", "whiteOfPrecision"}, SameLevels
  PROVE  LevelEffect(h)
  BY DEF LevelEffect, SetsDb, Scalings, SameLevels

MapHeads == {"notCFA", "endCurve", "curve", "curveAlways"} \cup Maps

(* The steps that change what samples go through. *)
LEMMA MapStep ==
  ASSUME DecodingType, UNCHANGED << camera, client >>, todo # << >>, todo' = Tail(todo), Head(todo) \in MapHeads,
         img' \in ImageType, img'.cfa = img.cfa, img'.shift = img.shift, img'.offset = img.offset,
         img'.crops = img.crops, SameLevels, DecEffect(Head(todo)), MapEffect(Head(todo)), CurveEffect(Head(todo))
  PROVE  Effect
<1> DEFINE h == Head(todo)
<1> HIDE DEF h
<1>1. h \in MapHeads
  BY DEF h
<1>2. CropEffect(h)
  BY <1>1 DEF CropEffect, Crops, Metas, SetsCFA, MapHeads, Maps
<1>3. ColourEffect(h)
  BY <1>1 DEF ColourEffect, MapHeads, Maps
<1>4. LevelEffect(h)
  BY <1>1, OtherParts DEF SetsDb, OtherLevels, Scalings, MapHeads, Maps
<1> QED BY <1>2, <1>3, <1>4 DEF Effect, h, Done

LEMMA MappedType ==
  ASSUME NEW image \in ImageType
  PROVE  LET i == Mapped(image) IN
         /\ i \in ImageType /\ i.isCFA = image.isCFA /\ i.cfa = image.cfa /\ i.shift = image.shift
         /\ i.offset = image.offset /\ i.crops = image.crops /\ i.black = image.black /\ i.white = image.white
         /\ i.separate = image.separate /\ i.allocated = image.allocated
         /\ i.table = image.table
         /\ i.mapped = IF image.table = "none" THEN image.mapped ELSE image.mapped + 1
  BY DEF Mapped, ImageType

LEMMA UnguardedType ==
  ASSUME NEW image \in ImageType, NEW guard
  PROVE  LET i == Unguarded(image, guard) IN
         /\ i \in ImageType /\ i.isCFA = image.isCFA /\ i.cfa = image.cfa /\ i.shift = image.shift
         /\ i.offset = image.offset /\ i.crops = image.crops /\ i.black = image.black /\ i.white = image.white
         /\ i.separate = image.separate /\ i.allocated = image.allocated
         /\ i.mapped = image.mapped
         /\ i.table = IF guard = "curve" THEN "none" ELSE IF guard = "kept" THEN "plain" ELSE image.table
<1>1. CASE guard = "curve"
  BY <1>1 DEF Unguarded, ImageType
<1>2. CASE guard = "kept"
  BY <1>2 DEF Unguarded, ImageType
<1>3. CASE guard # "curve" /\ guard # "kept"
  BY <1>3 DEF Unguarded, ImageType
<1> QED BY <1>1, <1>2, <1>3

LEMMA MapSteps ==
  ASSUME DecodingType,
         \/ NotCFA \/ Unguard \/ Guard(TRUE) \/ Guard(FALSE) \/ WriteMapped \/ SixteenBitLookup
         \/ At("lookupIfWanted") /\ Makes(IF client.uncorrected THEN img ELSE Mapped(img))
  PROVE  Effect
<1>0. img \in ImageType /\ dec \in DecoderType
  BY DEF DecodingType
<1>1. CASE NotCFA
  <2>1. /\ todo # << >> /\ Head(todo) = "notCFA" /\ UNCHANGED << dec, camera, client >> /\ todo' = Tail(todo)
        /\ img' = [img EXCEPT !.isCFA = FALSE]
    BY <1>1 DEF NotCFA, At, Makes, Done
  <2>2. /\ img' \in ImageType /\ img'.cfa = img.cfa /\ img'.shift = img.shift /\ img'.offset = img.offset
        /\ img'.crops = img.crops /\ SameLevels /\ img'.allocated = img.allocated /\ ~img'.isCFA /\ img'.table = img.table /\ img'.mapped = img.mapped
    BY <1>0, <2>1 DEF ImageType, SameLevels
  <2>3. DecEffect(Head(todo)) /\ MapEffect(Head(todo)) /\ CurveEffect(Head(todo))
    BY <1>0, <2>1, <2>2, DecSame DEF MapEffect, CurveEffect
  <2> QED BY <2>1, <2>2, <2>3, MapStep DEF MapHeads
<1>2. CASE Unguard
  <2>1. /\ todo # << >> /\ Head(todo) = "endCurve" /\ UNCHANGED << camera, client >> /\ todo' = Tail(todo)
        /\ img' = Unguarded(img, dec.guard) /\ dec' = [dec EXCEPT !.guard = "none"]
    BY <1>2 DEF Unguard, At, Done
  <2>2. /\ img' \in ImageType /\ img'.cfa = img.cfa /\ img'.shift = img.shift /\ img'.offset = img.offset
        /\ img'.crops = img.crops /\ SameLevels /\ img'.allocated = img.allocated /\ img'.isCFA = img.isCFA /\ img'.mapped = img.mapped
    BY <1>0, <2>1, UnguardedType DEF SameLevels
  <2>3. DecEffect(Head(todo)) /\ dec'.guard = "none"
    BY <1>0, <2>1 DEF DecEffect, DecoderType
  <2>4. MapEffect(Head(todo)) /\ CurveEffect(Head(todo))
    BY <2>1, <2>2, <2>3 DEF MapEffect, CurveEffect
  <2> QED BY <2>1, <2>2, <2>3, <2>4, MapStep DEF MapHeads
<1>3. ASSUME NEW always \in BOOLEAN, Guard(always) PROVE Effect
  <2> DEFINE guard == IF always \/ ~client.uncorrected THEN "curve" ELSE "kept"
  <2>1. /\ todo # << >> /\ Head(todo) = (IF always THEN "curveAlways" ELSE "curve")
        /\ UNCHANGED << camera, client >> /\ todo' = Tail(todo)
        /\ dec' = [dec EXCEPT !.guard = guard]
        /\ img' = IF dec'.guard = "curve" THEN [img EXCEPT !.table = "dither"] ELSE img
    BY <1>3 DEF Guard, At, Done
  <2>2. guard \in {"curve", "kept"} /\ (guard = "kept" => ~always /\ client.uncorrected) /\ (guard = "curve" /\ client.uncorrected => always)
    OBVIOUS
  <2> HIDE DEF guard
  <2>3. DecEffect(Head(todo)) /\ dec'.guard = guard
    BY <1>0, <2>1, <2>2 DEF DecEffect, DecoderType
  <2>4. /\ img' \in ImageType /\ img'.cfa = img.cfa /\ img'.shift = img.shift /\ img'.offset = img.offset
        /\ img'.crops = img.crops /\ SameLevels /\ img'.allocated = img.allocated /\ img'.isCFA = img.isCFA /\ img'.mapped = img.mapped
        /\ img'.table = IF guard = "curve" THEN "dither" ELSE img.table
    <3>1. CASE guard = "curve"
      BY <1>0, <2>1, <2>3, <3>1 DEF ImageType, SameLevels
    <3>2. CASE guard # "curve"
      BY <1>0, <2>1, <2>3, <3>2 DEF SameLevels
    <3> QED BY <3>1, <3>2
  <2>5. MapEffect(Head(todo)) /\ CurveEffect(Head(todo))
    BY <2>1, <2>2, <2>3, <2>4 DEF MapEffect, CurveEffect
  <2> QED BY <2>1, <2>3, <2>4, <2>5, MapStep DEF MapHeads
<1>4. CASE WriteMapped \/ SixteenBitLookup \/ (At("lookupIfWanted") /\ Makes(IF client.uncorrected THEN img ELSE Mapped(img)))
  <2>1. /\ todo # << >> /\ Head(todo) \in Maps /\ UNCHANGED << dec, camera, client >> /\ todo' = Tail(todo)
        /\ img' = img \/ img' = Mapped(img)
        /\ Head(todo) = "decodeMapped" => img' = Mapped(img)
    BY <1>4 DEF WriteMapped, SixteenBitLookup, At, Makes, Done, Maps
  <2>2. /\ img' \in ImageType /\ img'.cfa = img.cfa /\ img'.shift = img.shift /\ img'.offset = img.offset
        /\ img'.crops = img.crops /\ SameLevels /\ img'.allocated = img.allocated /\ img'.isCFA = img.isCFA /\ img'.table = img.table
        /\ img'.mapped = img.mapped \/ (img.table # "none" /\ img'.mapped = img.mapped + 1)
        /\ Head(todo) = "decodeMapped" /\ img.table # "none" => img'.mapped = img.mapped + 1
    BY <1>0, <2>1, MappedType DEF SameLevels
  <2>3. DecEffect(Head(todo)) /\ MapEffect(Head(todo))
    BY <1>0, <2>1, <2>2, DecSame DEF MapEffect, Maps
  <2>4. img.mapped \in Nat
    BY <1>0 DEF ImageType
  <2>5. CurveEffect(Head(todo))
    BY <2>1, <2>2, <2>4 DEF CurveEffect, Maps
  <2> QED BY <2>1, <2>2, <2>3, <2>5, MapStep DEF MapHeads
<1> QED BY <1>1, <1>2, <1>3, <1>4

LEMMA ColouredType ==
  ASSUME NEW image \in ImageType, NEW entry
  PROVE  LET i == WithCameraCFA(image, entry) IN
         /\ i \in ImageType /\ i.isCFA = image.isCFA /\ i.offset = image.offset
         /\ i.crops = image.crops /\ i.black = image.black /\ i.white = image.white
         /\ i.separate = image.separate /\ i.table = image.table /\ i.mapped = image.mapped
         /\ i.allocated = image.allocated
         /\ HasCFA(entry) => i.cfa = "db" /\ i.shift = 0
         /\ ~HasCFA(entry) => i = image
<1>1. CASE HasCFA(entry)
  BY <1>1 DEF WithCameraCFA, ImageType
<1>2. CASE ~HasCFA(entry)
  BY <1>2 DEF WithCameraCFA
<1> QED BY <1>1, <1>2

LEMMA SubFrameType ==
  ASSUME NEW image \in ImageType, NEW parity \in {0, 1}
  PROVE  LET i == SubFrame(image, parity) IN
         /\ i \in ImageType /\ i.isCFA = image.isCFA /\ i.cfa = image.cfa
         /\ i.black = image.black /\ i.white = image.white /\ i.separate = image.separate
         /\ i.table = image.table /\ i.mapped = image.mapped /\ i.allocated = image.allocated /\ i.crops = image.crops + 1
         /\ parity = 0 => i.shift = image.shift /\ i.offset = image.offset
         /\ image.offset = 0 => i.offset = parity
         /\ image.shift = 0 /\ image.isCFA /\ image.cfa # "none" => i.shift = parity
         /\ ~(image.isCFA /\ image.cfa # "none") => i.shift = image.shift
<1> DEFINE coloured == image.isCFA /\ image.cfa # "none"
<1> DEFINE shift == IF coloured THEN (image.shift + parity) % 2 ELSE image.shift
<1> DEFINE offset == (image.offset + parity) % 2
<1>1. image.shift \in {0, 1} /\ image.offset \in {0, 1} /\ image.crops \in Nat
  BY DEF ImageType
<1>2. \A n, m \in {0, 1} : (n + m) % 2 \in {0, 1} /\ (m = 0 => (n + m) % 2 = n) /\ (n = 0 => (n + m) % 2 = m)
  OBVIOUS
<1>3. shift \in {0, 1} /\ (coloured /\ image.shift = 0 => shift = parity) /\ (~coloured => shift = image.shift)
      /\ (parity = 0 => shift = image.shift)
  BY <1>1, <1>2
<1>4. offset \in {0, 1} /\ (image.offset = 0 => offset = parity) /\ (parity = 0 => offset = image.offset)
  BY <1>1, <1>2
<1>5. SubFrame(image, parity) = [image EXCEPT !.shift = shift, !.offset = offset, !.crops = image.crops + 1]
  BY DEF SubFrame
<1>6. image.crops + 1 \in Nat
  BY <1>1
<1> DEFINE crops == image.crops + 1
<1> HIDE DEF shift, offset, crops
<1>7. [image EXCEPT !.shift = shift, !.offset = offset, !.crops = crops] \in ImageType
  BY <1>3, <1>4, <1>6 DEF ImageType, crops
<1> DEFINE i == SubFrame(image, parity)
<1>8. i = [image EXCEPT !.shift = shift, !.offset = offset, !.crops = crops]
  BY <1>5 DEF crops
<1> HIDE DEF i
<1>9. /\ i.isCFA = image.isCFA /\ i.cfa = image.cfa /\ i.black = image.black /\ i.white = image.white
      /\ i.separate = image.separate /\ i.allocated = image.allocated
      /\ i.table = image.table /\ i.mapped = image.mapped /\ i.crops = crops /\ i.shift = shift /\ i.offset = offset
  BY <1>8 DEF ImageType
<1>10. /\ i \in ImageType /\ i.isCFA = image.isCFA /\ i.cfa = image.cfa
       /\ i.black = image.black /\ i.white = image.white /\ i.separate = image.separate
       /\ i.allocated = image.allocated
       /\ i.table = image.table /\ i.mapped = image.mapped /\ i.crops = image.crops + 1
       /\ parity = 0 => i.shift = image.shift /\ i.offset = image.offset
       /\ image.offset = 0 => i.offset = parity
       /\ image.shift = 0 /\ image.isCFA /\ image.cfa # "none" => i.shift = parity
       /\ ~(image.isCFA /\ image.cfa # "none") => i.shift = image.shift
  BY <1>3, <1>4, <1>7, <1>8, <1>9 DEF crops
<1> QED BY <1>10 DEF i

CropHeads == Crops \cup SetsCFA \cup {"newImageOf3"}

(* The steps that crop the image, or set its CFA. *)
LEMMA CropStep ==
  ASSUME DecodingType, UNCHANGED << camera, client >>, todo # << >>, todo' = Tail(todo), Head(todo) \in CropHeads,
         img' \in ImageType, img'.isCFA => img.isCFA \/ (Head(todo) = "applyCorrections" /\ ~client.uncorrected),
         img'.mapped \in {0, img.mapped}, img'.table \in {img.table, "none"},
         \/ Head(todo) \in {"newImageOf3", "applyCorrections"}
         \/ img'.mapped = img.mapped /\ img'.table = img.table /\ img'.allocated = img.allocated,
         DecEffect(Head(todo)), dec'.guard = dec.guard,
         CropEffect(Head(todo)), ColourEffect(Head(todo)), LevelEffect(Head(todo))
  PROVE  Effect
<1>1. MapEffect(Head(todo))
  BY DEF MapEffect, CropHeads, Crops, Metas, SetsCFA
<1>2. CurveEffect(Head(todo))
  BY DEF CurveEffect, CropHeads, Crops, Metas, SetsCFA
<1> QED BY <1>1, <1>2 DEF Effect, Done

LEMMA ColourSteps ==
  ASSUME DecodingType,
         \/ FileCFA \/ SetCameraCFA
         \/ At("cropToSize") /\ Makes(SubFrame(img, 0))
         \/ At("newImageOf3") /\ Makes([NewImage EXCEPT !.dim = TRUE, !.allocated = TRUE, !.isCFA = FALSE]),
         At("cameraCFA") => dec.mode \in DOMAIN camera
  PROVE  Effect
<1>0. img \in ImageType /\ dec \in DecoderType
  BY DEF DecodingType
<1> DEFINE h == Head(todo)
<1>h. /\ h = "fileCFA" \/ h = "cameraCFA" \/ h = "newImageOf3" =>
           h \notin Crops \cup {"noMoreCrops", "setPrecision", "canonLevels", "fileSeparate", "whiteOfPrecision"} \cup SetsDb \cup Scalings
      /\ h = "cropToSize" =>
           h \notin Metas \cup SetsCFA \cup {"noMoreCrops", "setPrecision", "canonLevels", "fileSeparate", "whiteOfPrecision"} \cup SetsDb \cup Scalings
  BY DEF Crops, Metas, SetsCFA, SetsDb, OtherLevels, Scalings
<1>1. CASE FileCFA
  <2>1. /\ todo # << >> /\ h = "fileCFA" /\ UNCHANGED << dec, camera, client >> /\ todo' = Tail(todo)
        /\ img' = [img EXCEPT !.cfa = "file", !.shift = 0]
    BY <1>1 DEF FileCFA, At, Makes, Done
  <2>2. /\ img' \in ImageType /\ img'.isCFA = img.isCFA /\ img'.cfa = "file" /\ img'.shift = 0
        /\ img'.offset = img.offset /\ img'.crops = img.crops /\ SameLevels /\ img'.table = img.table
        /\ img'.mapped = img.mapped /\ img'.allocated = img.allocated
    BY <1>0, <2>1 DEF ImageType, SameLevels
  <2> HIDE DEF h
  <2>3. DecEffect(h) /\ dec'.guard = dec.guard
    BY <1>0, <2>1, DecSame
  <2>4. CropEffect(h)
    BY <1>h, <2>1, <2>2 DEF CropEffect, Crops, SetsCFA
  <2>5. ColourEffect(h)
    BY <2>1, <2>2 DEF ColourEffect
  <2>6. LevelEffect(h)
    BY <1>h, <2>1, <2>2, OtherParts
  <2> QED BY <2>1, <2>2, <2>3, <2>4, <2>5, <2>6, CropStep DEF h, CropHeads, SetsCFA
<1>2. CASE SetCameraCFA
  <2> DEFINE bare == [img EXCEPT !.cfa = "none", !.shift = 0]
  <2>1. /\ todo # << >> /\ h = "cameraCFA" /\ UNCHANGED << dec, camera, client >> /\ todo' = Tail(todo)
        /\ img' = WithCameraCFA(bare, camera[dec.mode]) /\ dec.mode \in DOMAIN camera
    BY <1>2 DEF SetCameraCFA, At, Makes, Done
  <2>2. /\ bare \in ImageType /\ bare.isCFA = img.isCFA /\ bare.cfa = "none" /\ bare.shift = 0
        /\ bare.offset = img.offset /\ bare.crops = img.crops /\ bare.black = img.black /\ bare.white = img.white
        /\ bare.separate = img.separate /\ bare.allocated = img.allocated /\ bare.table = img.table /\ bare.mapped = img.mapped
    BY <1>0 DEF ImageType
  <2> HIDE DEF bare
  <2>3. /\ img' \in ImageType /\ img'.isCFA = img.isCFA /\ img'.shift = 0
        /\ img'.offset = img.offset /\ img'.crops = img.crops /\ SameLevels /\ img'.table = img.table
        /\ img'.mapped = img.mapped /\ img'.allocated = img.allocated /\ (HasCFA(camera[dec.mode]) => img'.cfa = "db")
    <3> DEFINE entry == camera[dec.mode]
    <3> HIDE DEF entry
    <3>1. img' = WithCameraCFA(bare, entry)
      BY <2>1 DEF entry
    <3>2. /\ img' \in ImageType /\ img'.isCFA = img.isCFA /\ img'.shift = 0
          /\ img'.offset = img.offset /\ img'.crops = img.crops /\ SameLevels /\ img'.table = img.table
          /\ img'.mapped = img.mapped /\ img'.allocated = img.allocated /\ (HasCFA(entry) => img'.cfa = "db")
      BY <2>2, <3>1, ColouredType DEF SameLevels
    <3> QED BY <3>2 DEF entry
  <2> HIDE DEF h
  <2>4. DecEffect(h) /\ dec'.guard = dec.guard
    BY <1>0, <2>1, DecSame
  <2>5. CropEffect(h)
    BY <1>h, <2>1, <2>3 DEF CropEffect, Crops, SetsCFA
  <2>6. ColourEffect(h)
    BY <2>1, <2>3 DEF ColourEffect, AllCFA
  <2>7. LevelEffect(h)
    BY <1>h, <2>1, <2>3, OtherParts
  <2> QED BY <2>1, <2>3, <2>4, <2>5, <2>6, <2>7, CropStep DEF h, CropHeads, SetsCFA
<1>3. CASE At("cropToSize") /\ Makes(SubFrame(img, 0))
  <2>1. /\ todo # << >> /\ h = "cropToSize" /\ UNCHANGED << dec, camera, client >> /\ todo' = Tail(todo)
        /\ img' = SubFrame(img, 0)
    BY <1>3 DEF At, Makes, Done
  <2>2. /\ img' \in ImageType /\ img'.isCFA = img.isCFA /\ img'.cfa = img.cfa /\ img'.shift = img.shift
        /\ img'.offset = img.offset /\ img'.crops = img.crops + 1 /\ SameLevels /\ img'.table = img.table
        /\ img'.mapped = img.mapped /\ img'.allocated = img.allocated
    BY <1>0, <2>1, SubFrameType DEF SameLevels
  <2> HIDE DEF h
  <2>3. DecEffect(h) /\ dec'.guard = dec.guard
    BY <1>0, <1>h, <2>1, DecSame
  <2>4. CropEffect(h)
    BY <1>h, <2>1, <2>2 DEF CropEffect, Crops
  <2>5. ColourEffect(h)
    BY <2>1, <2>2 DEF ColourEffect
  <2>6. LevelEffect(h)
    BY <1>h, <2>1, <2>2, OtherParts
  <2> QED BY <2>1, <2>2, <2>3, <2>4, <2>5, <2>6, CropStep DEF h, CropHeads, Crops
<1>4. CASE At("newImageOf3") /\ Makes([NewImage EXCEPT !.dim = TRUE, !.allocated = TRUE, !.isCFA = FALSE])
  <2>1. /\ todo # << >> /\ h = "newImageOf3" /\ UNCHANGED << dec, camera, client >> /\ todo' = Tail(todo)
        /\ img' = [NewImage EXCEPT !.dim = TRUE, !.allocated = TRUE, !.isCFA = FALSE]
    BY <1>4 DEF At, Makes, Done
  <2>2. img' \in ImageType
    BY <2>1, NewImageType DEF ImageType
  <2>3. /\ ~img'.isCFA /\ img'.shift = 0 /\ img'.offset = 0 /\ img'.crops = 0 /\ img'.table = "none"
        /\ img'.mapped = 0 /\ img'.black = Unset /\ img'.white = Unset /\ img'.separate = Unset
    BY <2>1 DEF NewImage
  <2> HIDE DEF h
  <2>4. DecEffect(h) /\ dec'.guard = dec.guard
    BY <1>0, <2>1, DecSame
  <2>5. CropEffect(h)
    BY <1>h, <2>1, <2>3 DEF CropEffect, Crops, SetsCFA
  <2>6. ColourEffect(h)
    BY <2>1 DEF ColourEffect
  <2>7. LevelEffect(h)
    BY <1>h, <2>1, <2>3 DEF LevelEffect, SetsDb, Scalings
  <2> QED BY <2>1, <2>2, <2>3, <2>4, <2>5, <2>6, <2>7, CropStep DEF h, CropHeads
<1> QED BY <1>1, <1>2, <1>3, <1>4

(* The image of setMetaData() and of subFrame(), of an image that is not cropped before.  *)
CroppedOnce(i, image) ==
  /\ i \in ImageType /\ (i.isCFA => image.isCFA) /\ (image.cfa # "none" => i.cfa # "none")
  /\ i.table = image.table /\ i.mapped = image.mapped /\ i.allocated = image.allocated
  /\ image.shift = 0 /\ image.offset = 0 =>
       /\ i.isCFA /\ i.cfa # "none" => i.shift = i.offset
       /\ i.shift # 0 => i.offset # 0
       /\ i.offset # 0 => dec.crop
  /\ i.crops = image.crops \/ (dec.crop /\ i.crops = image.crops + 1)

LEMMA SubFrameOnce ==
  ASSUME NEW image \in ImageType, NEW parity \in {0, 1}, dec.crop
  PROVE  /\ CroppedOnce(SubFrame(image, parity), image)
         /\ SubFrame(image, parity).black = image.black /\ SubFrame(image, parity).white = image.white
         /\ SubFrame(image, parity).separate = image.separate
<1> DEFINE i == SubFrame(image, parity)
<1>1. /\ i \in ImageType /\ i.isCFA = image.isCFA /\ i.cfa = image.cfa
      /\ i.black = image.black /\ i.white = image.white /\ i.separate = image.separate
      /\ i.allocated = image.allocated /\ i.table = image.table /\ i.mapped = image.mapped /\ i.crops = image.crops + 1
      /\ image.offset = 0 => i.offset = parity
      /\ image.shift = 0 /\ image.isCFA /\ image.cfa # "none" => i.shift = parity
      /\ ~(image.isCFA /\ image.cfa # "none") => i.shift = image.shift
  BY SubFrameType
<1> HIDE DEF i
<1>2. CroppedOnce(i, image) /\ i.black = image.black /\ i.white = image.white /\ i.separate = image.separate
  BY <1>1 DEF CroppedOnce
<1> QED BY <1>2 DEF i

LEMMA UncroppedOnce ==
  ASSUME NEW image \in ImageType
  PROVE  CroppedOnce(image, image)
  BY DEF CroppedOnce

LEMMA ColouredOnce ==
  ASSUME NEW image \in ImageType, NEW entry, NEW i, CroppedOnce(i, WithCameraCFA(image, entry))
  PROVE  CroppedOnce(i, image)
<1> DEFINE c == WithCameraCFA(image, entry)
<1>1. /\ c \in ImageType /\ c.isCFA = image.isCFA /\ c.offset = image.offset /\ c.crops = image.crops
      /\ c.allocated = image.allocated /\ c.table = image.table /\ c.mapped = image.mapped
      /\ HasCFA(entry) => c.cfa = "db" /\ c.shift = 0
      /\ ~HasCFA(entry) => c = image
  BY ColouredType
<1> HIDE DEF c
<1>2. CroppedOnce(i, c) => CroppedOnce(i, image)
  BY <1>1 DEF CroppedOnce
<1> QED BY <1>2 DEF c

LEMMA MetaDataType ==
  ASSUME DecodingType, NEW mode \in DOMAIN camera, NEW vendor \in {0, 1}, NEW separate \in BOOLEAN
  PROVE  LET i == WithMetaData(camera[mode], vendor, separate) IN
         /\ CroppedOnce(i, img)
         /\ IF camera[mode].sensors > 0
            THEN i.black = Level("db") /\ i.white = Level("db") /\ i.separate \in {img.separate, Level("db")}
            ELSE i.black = img.black /\ i.white = img.white /\ i.separate = img.separate
<1>0. img \in ImageType /\ camera[mode].crop \in {NoCrop, 0, 1}
  BY CameraTypes DEF DecodingType
<1> DEFINE entry == camera[mode]
<1> DEFINE c == WithCameraCFA(img, entry)
<1> DEFINE p == IF entry.crop = NoCrop THEN vendor ELSE entry.crop
<1> DEFINE r == IF ~dec.crop THEN c ELSE SubFrame(c, p)
<1> DEFINE i == WithMetaData(entry, vendor, separate)
<1>1. p \in {0, 1}
  BY <1>0
<1>2. /\ c \in ImageType /\ c.offset = img.offset /\ c.black = img.black /\ c.white = img.white /\ c.separate = img.separate
      /\ c.shift \in {0, img.shift} /\ (HasCFA(entry) => c.shift = 0) /\ (~HasCFA(entry) => c = img)
  BY <1>0, ColouredType
<1>3. i = IF entry.sensors > 0
          THEN [r EXCEPT !.black = Level("db"), !.white = Level("db"),
                         !.separate = IF separate THEN Level("db") ELSE @]
          ELSE r
  BY DEF WithMetaData
<1> HIDE DEF p
<1>4. r.black = img.black /\ r.white = img.white /\ r.separate = img.separate /\ CroppedOnce(r, img)
  <2>1. CASE dec.crop
    <3>1. CroppedOnce(r, c) /\ r.black = c.black /\ r.white = c.white /\ r.separate = c.separate
      <4> HIDE DEF c
      <4> QED BY <1>1, <1>2, <2>1, SubFrameOnce
    <3> HIDE DEF r, entry
    <3>2. CroppedOnce(r, WithCameraCFA(img, entry))
      BY <3>1
    <3>3. CroppedOnce(r, img)
      BY <1>0, <3>2, ColouredOnce
    <3> HIDE DEF c
    <3> QED BY <1>2, <3>1, <3>3
  <2>2. CASE ~dec.crop
    <3>1. r = c
      BY <2>2
    <3>2. /\ c \in ImageType /\ c.isCFA = img.isCFA /\ c.offset = img.offset /\ c.crops = img.crops
          /\ c.allocated = img.allocated /\ c.table = img.table /\ c.mapped = img.mapped
          /\ HasCFA(entry) => c.cfa = "db" /\ c.shift = 0
          /\ ~HasCFA(entry) => c = img
      BY <1>0, ColouredType
    <3> HIDE DEF r, c, entry
    <3>3. CroppedOnce(c, img)
      BY <1>0, <3>2 DEF CroppedOnce
    <3> QED BY <1>2, <3>1, <3>3
  <2> QED BY <2>1, <2>2
<1> HIDE DEF r, i
<1>5. CASE entry.sensors > 0
  <2> HIDE DEF entry
  <2>1. r \in ImageType /\ Level("db") \in LevelType
    BY <1>4, LevelTypes DEF CroppedOnce
  <2>2. i = [r EXCEPT !.black = Level("db"), !.white = Level("db"),
                      !.separate = IF separate THEN Level("db") ELSE @]
    BY <1>3, <1>5 DEF entry
  <2>3. /\ i \in ImageType /\ i.black = Level("db") /\ i.white = Level("db")
        /\ i.separate \in {r.separate, Level("db")} /\ i.allocated = r.allocated /\ i.isCFA = r.isCFA /\ i.cfa = r.cfa
        /\ i.shift = r.shift /\ i.offset = r.offset /\ i.crops = r.crops /\ i.table = r.table /\ i.mapped = r.mapped
    BY <2>1, <2>2 DEF ImageType
  <2>4. CroppedOnce(i, img)
    BY <1>4, <2>3 DEF CroppedOnce
  <2> QED BY <1>4, <1>5, <2>3, <2>4 DEF i, entry
<1>6. CASE ~(entry.sensors > 0)
  BY <1>3, <1>4, <1>6 DEF i
<1> QED BY <1>5, <1>6

LEMMA MetaNames ==
  \A h \in {"setMetaData", "setMetaDataInMode", "checkSupportAndSetMetaData"} :
    /\ h \in Metas /\ h \in CropHeads /\ h \in SetsDb \ {"restoreLevels"}
    /\ h \notin SetsCFA \cup Scalings \cup {"cropToSize", "canonLevels", "fileSeparate", "whiteOfPrecision", "noMoreCrops", "setPrecision", "cameraOrRefuse"}
  BY DEF CropHeads, Crops, Metas, SetsCFA, SetsDb, OtherLevels, Scalings

LEMMA MetaStep ==
  ASSUME DecodingType, UNCHANGED << camera, client >>, todo # << >>, todo' = Tail(todo), NEW mode, NEW vendor \in {0, 1}, NEW separate \in BOOLEAN,
         Head(todo) \in {"setMetaData", "setMetaDataInMode", "checkSupportAndSetMetaData"},
         Head(todo) = "setMetaData" => mode = "",
         img' = IF mode \in DOMAIN camera THEN WithMetaData(camera[mode], vendor, separate) ELSE img,
         DecEffect(Head(todo)), dec'.guard = dec.guard
  PROVE  Effect
<1> DEFINE h == Head(todo)
<1>h. /\ h \in Metas /\ h \in CropHeads /\ h \in SetsDb \ {"restoreLevels"}
      /\ h \notin SetsCFA \cup Scalings \cup {"cropToSize", "canonLevels", "fileSeparate", "whiteOfPrecision", "noMoreCrops", "setPrecision", "cameraOrRefuse"}
  BY MetaNames
<1>0. img \in ImageType
  BY DEF DecodingType
<1>1. CroppedOnce(img', img)
  <2>1. CASE mode \in DOMAIN camera
    <3> DEFINE i == WithMetaData(camera[mode], vendor, separate)
    <3>1. CroppedOnce(i, img)
      BY <2>1, MetaDataType
    <3>2. img' = i
      BY <2>1
    <3> HIDE DEF i
    <3> QED BY <3>1, <3>2
  <2>2. CASE mode \notin DOMAIN camera
    BY <1>0, <2>2, UncroppedOnce
  <2> QED BY <2>1, <2>2
<1>2. IF mode \in DOMAIN camera /\ camera[mode].sensors > 0 THEN LevelsOfDb ELSE SameLevels
  <2>1. CASE mode \in DOMAIN camera
    <3> DEFINE i == WithMetaData(camera[mode], vendor, separate)
    <3>1. IF camera[mode].sensors > 0
          THEN i.black = Level("db") /\ i.white = Level("db") /\ i.separate \in {img.separate, Level("db")}
          ELSE i.black = img.black /\ i.white = img.white /\ i.separate = img.separate
      BY <2>1, MetaDataType
    <3>2. img' = i
      BY <2>1
    <3> HIDE DEF i
    <3> QED BY <2>1, <3>1, <3>2 DEF LevelsOfDb, SameLevels
  <2>2. CASE mode \notin DOMAIN camera
    BY <2>2 DEF SameLevels
  <2> QED BY <2>1, <2>2
<1>3. h = "setMetaData" => mode = ""
  OBVIOUS
<1> HIDE DEF h
<1>4. CropEffect(h)
  BY <1>h, <1>1 DEF CropEffect, CroppedOnce, Crops
<1>5. ColourEffect(h)
  BY <1>h, <1>1 DEF ColourEffect, CroppedOnce, SetsCFA
<1>6. LevelEffect(h)
  <2>1. h = "setMetaData" => IF Sensed THEN LevelsOfDb ELSE SameLevels
    BY <1>2, <1>3 DEF Sensed
  <2>2. SameLevels \/ LevelsOfDb
    BY <1>2
  <2> QED BY <1>h, <2>1, <2>2 DEF LevelEffect, Scalings
<1>7. /\ img' \in ImageType /\ (img'.isCFA => img.isCFA) /\ img'.mapped = img.mapped /\ img'.table = img.table
      /\ img'.allocated = img.allocated
  BY <1>1 DEF CroppedOnce
<1> QED BY <1>h, <1>4, <1>5, <1>6, <1>7, CropStep DEF h

LEMMA MetaSteps ==
  ASSUME DecodingType, NEW vendor \in {0, 1}, NEW separate \in BOOLEAN,
         \/ At("setMetaData") /\ SetMetaData("", vendor, separate)
         \/ At("setMetaDataInMode") /\ \E mode \in MetaModes : SetMetaData(mode, vendor, separate)
         \/ /\ At("checkSupportAndSetMetaData") /\ ~Refused(GuessedMode)
            /\ LET mode == Either(GuessedMode) IN
               /\ ~Refused(mode)
               /\ img' = IF mode \in DOMAIN camera THEN WithMetaData(camera[mode], vendor, separate) ELSE img
               /\ dec' = Knows(GuessedMode)
               /\ Done
  PROVE  Effect
<1>0. dec \in DecoderType
  BY DEF DecodingType
<1>1. ASSUME NEW mode, SetMetaData(mode, vendor, separate), todo # << >>, Head(todo) \in {"setMetaData", "setMetaDataInMode"},
             Head(todo) = "setMetaData" => mode = ""
      PROVE  Effect
  <2>1. /\ UNCHANGED << dec, camera, client >> /\ todo' = Tail(todo)
        /\ img' = IF mode \in DOMAIN camera THEN WithMetaData(camera[mode], vendor, separate) ELSE img
    BY <1>1 DEF SetMetaData, Makes, Done
  <2>2. DecEffect(Head(todo)) /\ dec'.guard = dec.guard
    BY <1>0, <1>1, <2>1, DecSame
  <2>3. Head(todo) \in {"setMetaData", "setMetaDataInMode", "checkSupportAndSetMetaData"}
    BY <1>1
  <2> QED BY <1>1, <2>1, <2>2, <2>3, MetaStep
<1>2. CASE At("setMetaData") /\ SetMetaData("", vendor, separate)
  BY <1>1, <1>2 DEF At
<1>3. CASE At("setMetaDataInMode") /\ \E mode \in MetaModes : SetMetaData(mode, vendor, separate)
  BY <1>1, <1>3 DEF At
<1>4. ASSUME At("checkSupportAndSetMetaData"), dec' = Knows(GuessedMode), Done,
             NEW mode, img' = IF mode \in DOMAIN camera THEN WithMetaData(camera[mode], vendor, separate) ELSE img
      PROVE  Effect
  <2>1. UNCHANGED << camera, client >> /\ todo' = Tail(todo) /\ todo # << >> /\ Head(todo) = "checkSupportAndSetMetaData"
    BY <1>4 DEF Done, At
  <2>2. DecEffect(Head(todo)) /\ dec'.guard = dec.guard
    BY <1>4, <2>1, KnowsType
  <2>3. Head(todo) \in {"setMetaData", "setMetaDataInMode", "checkSupportAndSetMetaData"} /\ Head(todo) # "setMetaData"
    BY <2>1
  <2> QED BY <1>4, <2>1, <2>2, <2>3, MetaStep
<1> QED BY <1>2, <1>3, <1>4

LEMMA CorrectionSteps ==
  ASSUME DecodingType, dec.mode \in DOMAIN camera, At("applyCorrections"),
         IF Rotates
         THEN Makes([NewImage EXCEPT !.dim = TRUE, !.allocated = TRUE, !.cfa = img.cfa,
                                     !.shift = img.shift, !.table = img.table, !.mapped = img.mapped])
         ELSE \E vendor \in {0, 1} :
                Makes(IF dec.crop THEN SubFrame(img, IF camera[dec.mode].crop = NoCrop THEN vendor
                                                     ELSE camera[dec.mode].crop)
                      ELSE img)
  PROVE  Effect
<1>0. img \in ImageType /\ dec \in DecoderType /\ camera[dec.mode].crop \in {NoCrop, 0, 1}
  BY CameraTypes DEF DecodingType
<1> DEFINE h == Head(todo)
<1>1. todo # << >> /\ h = "applyCorrections" /\ UNCHANGED << dec, camera, client >> /\ todo' = Tail(todo)
  BY DEF At, Makes, Done
<1>2. /\ h \in Metas /\ h \in CropHeads
      /\ h \notin SetsCFA \cup SetsDb \cup Scalings \cup
           {"cropToSize", "canonLevels", "fileSeparate", "whiteOfPrecision", "noMoreCrops", "setPrecision", "newImageOf3"}
  BY <1>1 DEF CropHeads, Crops, Metas, SetsCFA, SetsDb, OtherLevels, Scalings
<1>3. CASE Rotates
  <2>1. ~client.uncorrected
    BY <1>3 DEF Rotates
  <2>2. img' = [NewImage EXCEPT !.dim = TRUE, !.allocated = TRUE, !.cfa = img.cfa,
                                !.shift = img.shift, !.table = img.table, !.mapped = img.mapped]
    BY <1>3 DEF Makes
  <2>3. img' \in ImageType
    BY <1>0, <2>2, NewImageType DEF ImageType
  <2>4. /\ img'.cfa = img.cfa /\ img'.shift = img.shift /\ img'.offset = 0 /\ img'.crops = 0
        /\ img'.table = img.table /\ img'.mapped = img.mapped /\ img'.black = Unset /\ img'.white = Unset
        /\ img'.separate = Unset
    BY <2>2 DEF NewImage
  <2> HIDE DEF h
  <2>5. DecEffect(h) /\ dec'.guard = dec.guard
    BY <1>0, <1>1, <1>2, DecSame
  <2>6. CropEffect(h)
    BY <1>1, <1>2, <2>4 DEF CropEffect, Crops
  <2>7. ColourEffect(h)
    BY <1>1, <1>2, <2>4 DEF ColourEffect
  <2>8. LevelEffect(h)
    BY <1>1, <1>2, <2>4 DEF LevelEffect, SetsDb, Scalings
  <2> QED BY <1>1, <1>2, <2>1, <2>3, <2>4, <2>5, <2>6, <2>7, <2>8, CropStep DEF h
<1>4. CASE ~Rotates
  <2>1. PICK vendor \in {0, 1} :
          img' = IF dec.crop THEN SubFrame(img, IF camera[dec.mode].crop = NoCrop THEN vendor ELSE camera[dec.mode].crop)
                 ELSE img
    BY <1>4 DEF Makes
  <2> DEFINE parity == IF camera[dec.mode].crop = NoCrop THEN vendor ELSE camera[dec.mode].crop
  <2>2. parity \in {0, 1}
    BY <1>0
  <2>3. img' = IF dec.crop THEN SubFrame(img, parity) ELSE img
    BY <2>1
  <2> HIDE DEF parity
  <2>4. CroppedOnce(img', img) /\ SameLevels
    <3>1. CASE dec.crop
      <4> DEFINE i == SubFrame(img, parity)
      <4>1. CroppedOnce(i, img) /\ i.black = img.black /\ i.white = img.white /\ i.separate = img.separate
        BY <1>0, <2>2, <3>1, SubFrameOnce
      <4>2. img' = i
        BY <2>3, <3>1
      <4> HIDE DEF i
      <4> QED BY <4>1, <4>2 DEF SameLevels
    <3>2. CASE ~dec.crop
      BY <1>0, <2>3, <3>2, UncroppedOnce DEF SameLevels
    <3> QED BY <3>1, <3>2
  <2> HIDE DEF h
  <2>5. DecEffect(h) /\ dec'.guard = dec.guard
    BY <1>0, <1>1, <1>2, DecSame
  <2>6. CropEffect(h)
    BY <1>1, <1>2, <2>4 DEF CropEffect, CroppedOnce, Crops
  <2>7. ColourEffect(h)
    BY <1>1, <1>2, <2>4 DEF ColourEffect, CroppedOnce
  <2>8. LevelEffect(h)
    BY <1>2, <2>4, OtherParts
  <2>9. img' \in ImageType /\ (img'.isCFA => img.isCFA) /\ img'.mapped = img.mapped /\ img'.table = img.table
    BY <2>4 DEF CroppedOnce
  <2> QED BY <1>1, <1>2, <2>5, <2>6, <2>7, <2>8, <2>9, CropStep DEF h
<1> QED BY <1>3, <1>4

LEMMA StepEffect ==
  ASSUME DecodingType, Step, todo # << >> /\ Head(todo) \in AsksCamera => dec.mode \in DOMAIN camera
  PROVE  Effect /\ UNCHANGED << inner, outer, calls, result >>
<1>1. UNCHANGED << inner, outer, calls, result >>
  BY DEF Step
<1>2. ASSUME Generic PROVE Effect
  <2>1. At("cameraCFA") => dec.mode \in DOMAIN camera
    BY DEF At, AsksCamera
  <2> QED BY <1>2, <2>1, PlainSteps, MapSteps, ColourSteps, LevelSteps DEF Generic
<1>3. ASSUME Modal PROVE Effect
  <2>1. ASSUME NEW mode, CheckSupport(mode), At("checkSupport") \/ At("checkSupportInMode") \/ At("checkSupportInEither")
        PROVE  Effect
    BY <2>1, SupportSteps
  <2>2. ASSUME NEW vendor \in VendorCrops, NEW separate \in BOOLEAN,
               \/ At("setMetaData") /\ SetMetaData("", vendor, separate)
               \/ At("setMetaDataInMode") /\ \E mode \in MetaModes : SetMetaData(mode, vendor, separate)
               \/ /\ At("checkSupportAndSetMetaData") /\ ~Refused(GuessedMode)
                  /\ LET mode == Either(GuessedMode) IN
                     /\ ~Refused(mode)
                     /\ img' = IF mode \in DOMAIN camera THEN WithMetaData(camera[mode], vendor, separate) ELSE img
                     /\ dec' = Knows(GuessedMode)
                     /\ Done
        PROVE  Effect
    <3>1. vendor \in {0, 1}
      BY DEF VendorCrops
    <3> QED BY <2>2, <3>1, MetaSteps
  <2>3. CASE At("cameraOrRefuse") /\ dec.mode \in DOMAIN camera /\ Makes(img)
    BY <2>3, PlainSteps
  <2>4. CASE At("setMode") /\ dec' = [dec EXCEPT !.mode = "mode"] /\ UNCHANGED img /\ Done
    BY <2>4, NotesSteps
  <2> QED BY <1>3, <2>1, <2>2, <2>3, <2>4 DEF Modal
<1>4. ASSUME Sony PROVE Effect
  <2>1. At("cropToSize") => ~At("cameraCFA")
    BY DEF At
  <2> QED BY <1>4, <2>1, ColourSteps, NotesSteps, LevelSteps DEF Sony
<1>5. ASSUME Canon PROVE Effect
  <2>1. At("newImageOf3") => ~At("cameraCFA")
    BY DEF At
  <2> QED BY <1>5, <2>1, ColourSteps, NotesSteps, LevelSteps, MapSteps DEF Canon
<1>6. ASSUME Nikon PROVE Effect
  BY <1>6, NotesSteps, LevelSteps DEF Nikon
<1>7. ASSUME Fuji PROVE Effect
  <2>1. ASSUME At("applyCorrections") PROVE dec.mode \in DOMAIN camera
    BY <2>1 DEF At, AsksCamera
  <2> QED BY <1>7, <2>1, CorrectionSteps, LevelSteps DEF Fuji
<1> QED BY <1>1, <1>2, <1>3, <1>4, <1>5, <1>6, <1>7, PlainSteps, LevelSteps DEF Step

(* The calls the client has yet to make. *)
CallsLeft ==
  {<< >>, << "meta" >>, << "raw", "meta" >>, << "support", "raw", "meta" >>, << "meta", "support", "raw", "meta" >>}

CallsInv ==
  /\ calls \in CallsLeft /\ result \in Exceptions \cup {"none", "image"}
  /\ calls = << "meta", "support", "raw", "meta" >> => client.fail
  /\ dec.crop => ~client.fail
  /\ calls # << "meta" >> => Lacks(todo, RawOnly)
  /\ result # "none" => calls = << >> /\ todo = << >>
  /\ dec.name = "none" => img = NewImage /\ todo = << >> /\ calls = << >> /\ result = "none"

(* The samples have yet to be decoded. *)
RawPending == calls # << >> /\ calls # << "meta" >>

MapsInv ==
  /\ MappedOnce
  /\ Never(todo, Maps \cup {"endCurve"}, Maps)
  /\ RawPending => img.mapped = 0 /\ img.table # "plain"
  /\ img.mapped # 0 \/ img.table = "plain" => Lacks(todo, Maps)
  /\ Ready(~img.isCFA, todo, {"curveAlways"}, {"notCFA"}, {"caught", "applyCorrections"})

CropInv ==
  /\ img.crops <= 1
  /\ img.isCFA /\ img.cfa # "none" => img.shift = img.offset
  /\ Never(todo, Crops, Crops \cup SetsCFA)
  /\ RightBefore(todo, "cropToSize", "noMoreCrops")
  /\ dec.crop /\ calls # << >> => Lacks(todo, Metas)
  /\ img.crops # 0 => Lacks(todo, {"cropToSize"}) /\ ~RawPending
  /\ img.crops # 0 /\ dec.crop => At("noMoreCrops") \/ (Lacks(todo, Metas) /\ calls = << >>)
  /\ img.offset # 0 => calls = << >> /\ Lacks(todo, Crops \cup SetsCFA)
  /\ img.shift # 0 => img.offset # 0

Coloured == AllCFA => img.cfa # "none"

CameraInv ==
  /\ Ready(dec.mode \in DOMAIN camera, todo, AsksCamera, {"cameraOrRefuse"}, {"caught", "setMode"})
  /\ Ready(Coloured, todo, {"askCFA"}, SetsCFA, {"caught", "newImageOf3"})
  /\ AskedEarly /\ calls = << "raw", "meta" >> /\ ~Coloured => ~Lacks(todo, {"cameraCFA"})

PrecisionInv ==
  dec.name = "Cr2Decoder" =>
    /\ calls = << "meta" >> => Lacks(todo, {"rescaleToPrecision", "caught"})
    /\ dec.precision = 0 =>
         \/ RawPending /\ ~img.allocated
         \/ calls = << "meta" >> /\ ~Lacks(todo, {"setPrecision"})
         \/ calls = << >> /\ todo = << >> /\ result # "none"

(* The samples of the Kodak formats are not decoded without their curve. *)
KodakInv ==
  dec.name \in Kodak /\ ~client.uncorrected =>
    /\ Lacks(todo, {"caught", "newImageOf3", "applyCorrections"})
    /\ Ready(img.table # "none", todo, {"decodeMapped"}, {"curve"}, {"endCurve"})
    /\ \/ RawPending \/ result \in Exceptions \/ img.mapped # 0
       \/ calls = << "meta" >> /\ ~Lacks(todo, {"decodeMapped"})

(* Of most decoders no level is ever scaled. *)
UnscaledInv ==
  dec.name \notin {"ArwDecoder", "OrfDecoder", "Cr2Decoder"} =>
    /\ Lacks(todo, Scalings)
    /\ \A level \in {img.black, img.white, img.separate, dec.kept.black, dec.kept.white} : level.scaled = 0

DbIsSensed == \A level \in {img.black, img.white} : level.from = "db" => Sensed

(* setMetaData() has been called, and nobody has thrown out of it. *)
Known == calls = << >> /\ Lacks(todo, {"setMetaData"}) /\ result \notin Exceptions

ArwInv ==
  dec.name = "ArwDecoder" =>
    /\ Lacks(todo, OtherLevels \cup (Scalings \ {"shiftLevels", "exifBlack", "exifWhite"}))
    /\ RightBefore(todo, "setMetaData", "shiftLevels")
    /\ Never(todo, {"shiftLevels"}, {"shiftLevels"})
    /\ Outside(todo, {"setMetaData", "shiftLevels"})
    /\ DbIsSensed
    /\ Known => \A level \in {img.black, img.white} :
         level.from = "db" => level.scaled = IF Lacks(todo, {"shiftLevels"}) THEN dec.shift ELSE 0
    /\ img.separate.from = "db" => img.separate.scaled = 0

SeparateIsOther == img.separate.from # "db"

(* The levels that OrfDecoder scales are not those of cameras.xml for the colours. *)
OrfInv ==
  dec.name = "OrfDecoder" =>
    /\ Lacks(todo, OtherLevels \cup (Scalings \ {"scale"}))
    /\ Never(todo, {"scale"}, {"scale"})
    /\ DbIsSensed
    /\ Known => \A level \in {img.black, img.white} :
         level.from = "db" => level.scaled \in {0, 1} /\ (Lacks(todo, {"scale"}) \/ level.scaled = 0)
    /\ Known /\ img.black.from = "db" /\ img.white.from = "db" => img.black.scaled = img.white.scaled
    /\ Ready(SeparateIsOther, todo, {"scale"}, {"fileSeparate"}, {"caught"} \cup SetsDb)
    /\ img.separate.from = "db" => img.separate.scaled = 0
    /\ img.separate.from = "db" /\ img.white.from = "db" => img.white.scaled = 0

NoneOfDb == img.black.from # "db" /\ img.white.from # "db"

OthersAreRescaled == img.white.from # "db" /\ img.separate.from # "db"

Cr2Inv ==
  dec.name = "Cr2Decoder" =>
    /\ Lacks(todo, {"restoreLevels", "applyCorrections"} \cup (Scalings \ {"rescaleToPrecision", "shiftUpLevels"}))
    /\ Never(todo, {"shiftUpLevels"}, {"shiftUpLevels", "whiteOfPrecision"})
    /\ AfterTry(todo, "whiteOfPrecision")
    /\ Ready(OthersAreRescaled, todo, {"rescaleToPrecision"}, {"canonLevels"}, {"caught"} \cup SetsDb)
    /\ img.black.from = "db" => img.black.scaled = 0
    /\ img.white.from = "db" => img.white.scaled \in {0, 1}
    /\ img.separate.from = "db" => img.separate.scaled = 0
    /\ img.black.from = "db" \/ img.separate.from = "db" => (img.white.from = "db" => img.white.scaled = 0)
    /\ img.white.from = "db" /\ img.white.scaled # 0 =>
         Lacks(todo, {"shiftUpLevels"}) \/ ~Lacks(todo, {"whiteOfPrecision"})

DecodingInv ==
  /\ DecodingType /\ CallsInv /\ MapsInv /\ CropInv /\ CameraInv /\ PrecisionInv
  /\ KodakInv /\ UnscaledInv /\ ArwInv /\ OrfInv /\ Cr2Inv
-----------------------------------------------------------------------------
(* A step. *)
LEMMA StepLeaves ==
  ASSUME DecodingType, Effect
  PROVE  /\ todo \in Seq(Steps) /\ todo # << >> /\ todo' = Tail(todo) /\ EndOf(todo', todo) /\ todo' \in Seq(Steps)
         /\ camera' = camera /\ client' = client
<1>1. todo \in Seq(Steps) /\ todo # << >> /\ todo' = Tail(todo) /\ camera' = camera /\ client' = client
  BY DEF DecodingType, Effect, Done
<1>2. EndOf(Tail(todo), todo)
  BY <1>1, TailIsEnd
<1> QED BY <1>1, <1>2 DEF EndOf

LEMMA TypeStep ==
  ASSUME DecodingType, Effect
  PROVE  DecodingType'
  BY StepLeaves DEF DecodingType, Effect, DecEffect

LEMMA CallsStep ==
  ASSUME DecodingType, CallsInv, Effect, UNCHANGED << calls, result >>
  PROVE  CallsInv'
<1>1. dec'.name = dec.name /\ (dec'.crop => dec.crop)
  BY DEF Effect, DecEffect
<1>2. calls # << "meta" >> => Lacks(todo', RawOnly)
  BY StepLeaves, LacksInEnd DEF CallsInv
<1>3. todo # << >> /\ client' = client
  BY StepLeaves
<1> QED BY <1>1, <1>2, <1>3 DEF CallsInv

LEMMA MapsStep ==
  ASSUME DecodingType, CallsInv, MapsInv, Effect, UNCHANGED << calls, result >>
  PROVE  MapsInv'
<1> DEFINE h == Head(todo)
<1>1. /\ todo \in Seq(Steps) /\ todo # << >> /\ todo' = Tail(todo) /\ EndOf(todo', todo) /\ client' = client
  BY StepLeaves
<1>2. MapEffect(h)
  BY DEF Effect
<1>3. /\ img.mapped \in Nat /\ img.isCFA \in BOOLEAN /\ img'.isCFA \in BOOLEAN
      /\ dec.guard \in {"none", "curve", "kept"} /\ img.table \in {"none", "plain", "dither"}
  BY DEF DecodingType, ImageType, DecoderType, Effect
<1>4. h \in Maps => Lacks(todo', Maps) /\ img.mapped = 0 /\ img.table # "plain"
  <2>1. ASSUME h \in Maps PROVE Lacks(todo', Maps)
    BY <1>1, <2>1, NeverAgain DEF MapsInv
  <2>2. ASSUME h \in Maps PROVE ~Lacks(todo, Maps)
    BY <1>1, <2>2, LacksNow
  <2> QED BY <2>1, <2>2 DEF MapsInv
<1>5. h = "endCurve" => Lacks(todo', Maps)
  BY <1>1, NeverAgain DEF MapsInv
<1>6. Lacks(todo, Maps) => Lacks(todo', Maps)
  BY <1>1, LacksInEnd
<1>7. h = "curveAlways" => ~img.isCFA
  <2>1. (~img.isCFA) \in BOOLEAN
    OBVIOUS
  <2>2. Ready(~img.isCFA, todo, {"curveAlways"}, {"notCFA"}, {"caught", "applyCorrections"})
    BY DEF MapsInv
  <2> QED BY <1>1, <2>1, <2>2, ReadyNow
<1>8. RawPending => h \notin Maps \cup {"endCurve"}
  BY <1>1, LacksNow DEF CallsInv, RawPending, RawOnly
<1>t. Unguarded(img, dec.guard).table = IF dec.guard = "curve" THEN "none" ELSE IF dec.guard = "kept" THEN "plain" ELSE img.table
  BY UnguardedType DEF DecodingType
<1>9. Never(todo', Maps \cup {"endCurve"}, Maps)
  BY <1>1, NeverInEnd DEF MapsInv
<1>10. Ready(~img'.isCFA, todo', {"curveAlways"}, {"notCFA"}, {"caught", "applyCorrections"})
  <2>1. (~img.isCFA) \in BOOLEAN /\ (~img'.isCFA) \in BOOLEAN
    OBVIOUS
  <2>2. Ready(~img.isCFA, todo, {"curveAlways"}, {"notCFA"}, {"caught", "applyCorrections"})
    BY DEF MapsInv
  <2>3. ~img.isCFA /\ h \notin {"caught", "applyCorrections"} => ~img'.isCFA
    BY <1>2 DEF MapEffect
  <2>4. h \in {"notCFA"} => ~img'.isCFA
    BY <1>2 DEF MapEffect
  <2> QED BY <1>1, <2>1, <2>2, <2>3, <2>4, ReadyNext
<1> HIDE DEF h
<1>11. img'.mapped # 0 \/ img'.table = "plain" => Lacks(todo', Maps)
  BY <1>2, <1>3, <1>4, <1>5, <1>6, <1>t DEF MapEffect, MapsInv
<1>12. RawPending => img'.mapped = 0 /\ img'.table # "plain"
  BY <1>2, <1>8, <1>t DEF MapEffect, MapsInv
<1>13. img'.mapped <= 1
  BY <1>2, <1>3, <1>4 DEF MapEffect, MapsInv, MappedOnce
<1>14. dec'.guard = "none" => img'.table # "dither"
  BY <1>2, <1>3, <1>t DEF MapEffect, MapsInv, MappedOnce
<1>15. client.uncorrected /\ img'.isCFA => img'.mapped = 0 /\ img'.table # "dither"
  BY <1>2, <1>3, <1>4, <1>7, <1>t DEF MapEffect, MapsInv, MappedOnce
<1>16. result' # "image"
  BY <1>1 DEF CallsInv
<1> QED BY <1>1, <1>9, <1>10, <1>11, <1>12, <1>13, <1>14, <1>15, <1>16 DEF MapsInv, MappedOnce, RawPending

LEMMA CropsStep ==
  ASSUME DecodingType, CallsInv, CropInv, Effect, UNCHANGED << calls, result >>
  PROVE  CropInv'
<1> DEFINE h == Head(todo)
<1>1. /\ todo \in Seq(Steps) /\ todo # << >> /\ todo' = Tail(todo) /\ EndOf(todo', todo)
  BY StepLeaves
<1>2. CropEffect(h) /\ MapEffect(h) /\ (dec'.crop => dec.crop /\ h # "noMoreCrops")
  BY DEF Effect, DecEffect
<1>3. /\ img.crops \in Nat /\ img.offset \in {0, 1} /\ img.shift \in {0, 1}
      /\ img'.crops \in Nat /\ img'.offset \in {0, 1} /\ img'.shift \in {0, 1}
  BY DEF DecodingType, ImageType, Effect
<1>4. Never(todo', Crops, Crops \cup SetsCFA) /\ RightBefore(todo', "cropToSize", "noMoreCrops")
  BY <1>1, NeverInEnd, RightBeforeInEnd DEF CropInv
<1>5. \A A : Lacks(todo, A) => Lacks(todo', A) /\ h \notin A
  BY <1>1, LacksInEnd, LacksNow
<1>6. h \in Crops => Lacks(todo', Crops \cup SetsCFA)
  BY <1>1, NeverAgain DEF CropInv
<1>7. \A A, B : Lacks(todo', A \cup B) => Lacks(todo', A) /\ Lacks(todo', B)
  BY LacksBoth
<1>8. h \in Crops => Lacks(todo', Metas) /\ Lacks(todo', {"cropToSize"}) /\ Lacks(todo', Crops \cup SetsCFA)
  BY <1>6, LacksFewer DEF Crops
<1>9. h = "cropToSize" => At("noMoreCrops")'
  <2>1. h = "cropToSize" => todo' # << >> /\ Head(todo') = "noMoreCrops"
    BY <1>1, RightNext DEF CropInv
  <2> QED BY <2>1 DEF At
<1>10. At("noMoreCrops") => h = "noMoreCrops"
  BY DEF At
<1>11. RawPending => h # "cropToSize"
  BY <1>5 DEF CallsInv, RawPending, RawOnly
<1>12. calls' = calls
  OBVIOUS
<1>t. /\ "cropToSize" \in Crops /\ "cropToSize" \notin Metas \cup SetsCFA /\ "noMoreCrops" \notin Crops \cup SetsCFA
      /\ Metas \subseteq Crops /\ Crops = Metas \cup {"cropToSize"} /\ "applyCorrections" \in Metas
      /\ \A x \in SetsCFA : x \notin Crops
  BY DEF Crops, Metas, SetsCFA
<1> HIDE DEF h
<1>20. CASE h = "cropToSize"
  <2>1. img.offset = 0 /\ img.shift = 0 /\ img.crops = 0
    BY <1>5, <1>20, <1>t DEF CropInv
  <2>2. /\ img'.isCFA = img.isCFA /\ img'.cfa = img.cfa /\ img'.shift = 0 /\ img'.offset = 0 /\ img'.crops = 1
    BY <1>2, <1>20, <2>1 DEF CropEffect
  <2>3. dec'.crop /\ calls # << >> => Lacks(todo', Metas)
    BY <1>2, <1>5 DEF CropInv
  <2> QED BY <1>4, <1>8, <1>9, <1>11, <1>12, <1>20, <1>t, <2>2, <2>3 DEF CropInv, RawPending
<1>21. CASE h \in Metas
  <2>1. img.offset = 0 /\ img.shift = 0
    BY <1>5, <1>21, <1>t DEF CropInv
  <2>2. dec.crop => calls = << >> /\ img.crops = 0
    <3>1. ~Lacks(todo, Metas)
      BY <1>5, <1>21
    <3>2. ~At("noMoreCrops")
      BY <1>10, <1>21, <1>t
    <3> QED BY <3>1, <3>2 DEF CropInv
  <2>3. /\ img'.isCFA /\ img'.cfa # "none" => img'.shift = img'.offset
        /\ img'.shift # 0 => img'.offset # 0
        /\ img'.offset # 0 => dec.crop
        /\ img'.crops \in {0, img.crops} \/ (dec.crop /\ img'.crops = img.crops + 1)
    BY <1>2, <1>21, <2>1 DEF CropEffect
  <2>4. img'.crops <= 1 /\ (img'.crops # 0 => img.crops # 0 \/ dec.crop)
    BY <1>3, <2>2, <2>3 DEF CropInv
  <2>5. img'.crops # 0 => ~RawPending
    BY <2>2, <2>4 DEF CropInv, RawPending
  <2>6. Lacks(todo', Metas) /\ Lacks(todo', {"cropToSize"}) /\ Lacks(todo', Crops \cup SetsCFA)
    BY <1>8, <1>21, <1>t
  <2>7. dec'.crop => calls = << >>
    BY <1>2, <2>2
  <2>8. img'.offset # 0 => calls = << >>
    BY <2>2, <2>3
  <2> QED BY <1>4, <1>12, <2>3, <2>4, <2>5, <2>6, <2>7, <2>8 DEF CropInv, RawPending
<1>22. CASE h \in SetsCFA
  <2>1. img.offset = 0
    BY <1>5, <1>22 DEF CropInv
  <2>2. img'.isCFA = img.isCFA /\ img'.shift = 0 /\ img'.offset = 0 /\ img'.crops = img.crops
    BY <1>2, <1>22, <2>1 DEF CropEffect
  <2>3. h # "noMoreCrops"
    BY <1>22, <1>t
  <2> QED BY <1>2, <1>4, <1>5, <1>10, <1>12, <2>2, <2>3 DEF CropInv, RawPending
<1>23. CASE h \notin Crops \cup SetsCFA
  <2>1. img'.isCFA => img.isCFA
    BY <1>2, <1>23, <1>t DEF MapEffect
  <2>2. img'.crops # 0 /\ dec'.crop => Lacks(todo', Metas) /\ calls = << >>
    BY <1>2, <1>5, <1>10, <1>23 DEF CropInv, CropEffect
  <2>3. img'.crops # 0 => Lacks(todo', {"cropToSize"}) /\ ~RawPending
    BY <1>2, <1>5, <1>23 DEF CropInv, CropEffect
  <2>4. img'.offset # 0 => calls = << >> /\ Lacks(todo', Crops \cup SetsCFA)
    BY <1>2, <1>5, <1>23 DEF CropInv, CropEffect
  <2>5. dec'.crop /\ calls # << >> => Lacks(todo', Metas)
    BY <1>2, <1>5 DEF CropInv
  <2>6. /\ img'.isCFA /\ img'.cfa # "none" => img'.shift = img'.offset
        /\ img'.shift # 0 => img'.offset # 0 /\ img'.crops <= 1
        /\ img'.crops <= 1
    BY <1>2, <1>23, <2>1 DEF CropInv, CropEffect
  <2> QED BY <1>4, <1>12, <2>2, <2>3, <2>4, <2>5, <2>6 DEF CropInv, RawPending
<1> QED BY <1>20, <1>21, <1>22, <1>23, <1>t

LEMMA HasOnlyThis ==
  ASSUME NEW w \in Seq(Steps), w # << >>, NEW a, Head(w) # a, ~Lacks(w, {a})
  PROVE  ~Lacks(Tail(w), {a})
  BY HasLater

LEMMA CameraStep ==
  ASSUME DecodingType, CallsInv, CameraInv, Effect, UNCHANGED << calls, result >>
  PROVE  CameraInv'
<1> DEFINE h == Head(todo)
<1>1. /\ todo \in Seq(Steps) /\ todo # << >> /\ todo' = Tail(todo) /\ camera' = camera
  BY StepLeaves
<1>2. ColourEffect(h) /\ (dec'.mode = dec.mode \/ h = "setMode") /\ dec'.name = dec.name /\ dec'.special = dec.special
  BY DEF Effect, DecEffect
<1>3. AllCFA' <=> AllCFA
  BY <1>1 DEF AllCFA, HasCFA
<1>4. Ready((dec.mode \in DOMAIN camera)', todo', AsksCamera, {"cameraOrRefuse"}, {"caught", "setMode"})
  <2> DEFINE now == dec.mode \in DOMAIN camera
  <2>1. now \in BOOLEAN /\ now' \in BOOLEAN
    OBVIOUS
  <2>2. now /\ h \notin {"caught", "setMode"} => now'
    BY <1>1, <1>2
  <2>3. h \in {"cameraOrRefuse"} => now'
    BY <1>1, <1>2 DEF ColourEffect
  <2>4. Ready(now, todo, AsksCamera, {"cameraOrRefuse"}, {"caught", "setMode"})
    BY DEF CameraInv
  <2> HIDE DEF now
  <2>5. Ready(now', todo', AsksCamera, {"cameraOrRefuse"}, {"caught", "setMode"})
    BY <1>1, <2>1, <2>2, <2>3, <2>4, ReadyNext
  <2> QED BY <2>5 DEF now
<1>5. Ready(Coloured', todo', {"askCFA"}, SetsCFA, {"caught", "newImageOf3"})
  <2>1. Coloured \in BOOLEAN /\ Coloured' \in BOOLEAN
    BY DEF Coloured
  <2>2. Coloured /\ h \notin {"caught", "newImageOf3"} => Coloured'
    BY <1>2, <1>3 DEF ColourEffect, Coloured
  <2>3. h \in SetsCFA => Coloured'
    BY <1>2, <1>3 DEF ColourEffect, Coloured, SetsCFA
  <2> QED BY <1>1, <2>1, <2>2, <2>3, ReadyNext DEF CameraInv
<1>6. ASSUME AskedEarly', calls' = << "raw", "meta" >>, ~Coloured' PROVE ~Lacks(todo', {"cameraCFA"})
  <2>1. h # "newImageOf3"
    <3>1. Lacks(todo, RawOnly)
      BY <1>6 DEF CallsInv
    <3> QED BY <1>1, <3>1, LacksNow DEF RawOnly
  <2>2. h # "cameraCFA" /\ ~Coloured
    BY <1>2, <1>3, <1>6, <2>1 DEF ColourEffect, Coloured
  <2>3. AskedEarly /\ calls = << "raw", "meta" >>
    BY <1>2, <1>6 DEF AskedEarly
  <2>4. ~Lacks(todo, {"cameraCFA"})
    BY <2>2, <2>3 DEF CameraInv
  <2> QED BY <1>1, <2>2, <2>4, HasOnlyThis
<1> QED BY <1>4, <1>5, <1>6 DEF CameraInv

LEMMA PrecisionStep ==
  ASSUME DecodingType, CallsInv, PrecisionInv, Cr2Inv, Effect, UNCHANGED << calls, result >>
  PROVE  PrecisionInv'
<1> DEFINE h == Head(todo)
<1> SUFFICES ASSUME dec'.name = "Cr2Decoder" PROVE PrecisionInv'
  BY DEF PrecisionInv
<1>1. /\ todo \in Seq(Steps) /\ todo # << >> /\ todo' = Tail(todo) /\ EndOf(todo', todo)
  BY StepLeaves
<1>2. /\ dec'.name = dec.name /\ CurveEffect(h)
      /\ IF h = "setPrecision" THEN dec'.precision # 0 ELSE dec'.precision = dec.precision
  BY DEF Effect, DecEffect
<1>3. h # "setPrecision" /\ ~Lacks(todo, {"setPrecision"}) => ~Lacks(todo', {"setPrecision"})
  BY <1>1, HasOnlyThis
<1>4. \A A : Lacks(todo, A) => Lacks(todo', A) /\ h \notin A
  BY <1>1, LacksInEnd, LacksNow
<1>5. h # "applyCorrections"
  BY <1>2, <1>4 DEF Cr2Inv
<1>6. RawPending => img'.allocated = img.allocated
  <2>1. RawPending => h \notin {"create", "newImageOf3"}
    BY <1>4 DEF CallsInv, RawPending, RawOnly
  <2> QED BY <1>2, <1>5, <2>1 DEF CurveEffect
<1> HIDE DEF h
<1> QED BY <1>1, <1>2, <1>3, <1>4, <1>6 DEF PrecisionInv, RawPending

LEMMA KodakStep ==
  ASSUME DecodingType, CallsInv, KodakInv, Effect, UNCHANGED << calls, result >>
  PROVE  KodakInv'
<1> DEFINE h == Head(todo)
<1> DEFINE now == img.table # "none"
<1>1. /\ todo \in Seq(Steps) /\ todo # << >> /\ todo' = Tail(todo) /\ EndOf(todo', todo) /\ client' = client
  BY StepLeaves
<1> SUFFICES ASSUME dec.name \in Kodak, ~client.uncorrected
    PROVE  /\ Lacks(todo', {"caught", "newImageOf3", "applyCorrections"})
           /\ Ready(now', todo', {"decodeMapped"}, {"curve"}, {"endCurve"})
           /\ \/ RawPending \/ result \in Exceptions \/ img'.mapped # 0
              \/ calls = << "meta" >> /\ ~Lacks(todo', {"decodeMapped"})
  BY <1>1 DEF KodakInv, RawPending, Effect, DecEffect
<1>2. CurveEffect(h)
  BY DEF Effect
<1>3. /\ Lacks(todo, {"caught", "newImageOf3", "applyCorrections"})
      /\ Ready(now, todo, {"decodeMapped"}, {"curve"}, {"endCurve"})
      /\ \/ RawPending \/ result \in Exceptions \/ img.mapped # 0
         \/ calls = << "meta" >> /\ ~Lacks(todo, {"decodeMapped"})
  BY DEF KodakInv
<1>4. Lacks(todo', {"caught", "newImageOf3", "applyCorrections"}) /\ h \notin {"newImageOf3", "applyCorrections"}
  BY <1>1, <1>3, LacksInEnd, LacksNow
<1>5. now \in BOOLEAN /\ now' \in BOOLEAN
  OBVIOUS
<1>6. (now /\ h \notin {"endCurve"} => now') /\ (h \in {"curve"} => now')
  BY <1>2, <1>4 DEF CurveEffect
<1>7. h = "decodeMapped" => img'.mapped # 0
  <2>1. h = "decodeMapped" => now
    BY <1>1, <1>3, <1>5, ReadyNow
  <2> QED BY <1>2, <2>1 DEF CurveEffect
<1>8. img.mapped # 0 => img'.mapped # 0
  BY <1>2, <1>4 DEF CurveEffect
<1>9. h # "decodeMapped" /\ ~Lacks(todo, {"decodeMapped"}) => ~Lacks(todo', {"decodeMapped"})
  BY <1>1, HasOnlyThis
<1>10. Ready(now', todo', {"decodeMapped"}, {"curve"}, {"endCurve"})
  <2> HIDE DEF now
  <2> QED BY <1>1, <1>3, <1>5, <1>6, ReadyNext
<1> HIDE DEF h, now
<1> QED BY <1>3, <1>4, <1>7, <1>8, <1>9, <1>10

LEMMA LevelFacts ==
  /\ Level("file").from = "file" /\ Level("file").scaled = 0 /\ Level("db").from = "db" /\ Level("db").scaled = 0
  /\ Unset.from = "unset" /\ Unset.scaled = 0
  BY DEF Level, Unset

LEMMA UnscaledStep ==
  ASSUME DecodingType, CallsInv, UnscaledInv, Effect, UNCHANGED << calls, result >>
  PROVE  UnscaledInv'
<1> DEFINE h == Head(todo)
<1> SUFFICES ASSUME dec'.name \notin {"ArwDecoder", "OrfDecoder", "Cr2Decoder"}
    PROVE  /\ Lacks(todo', Scalings)
           /\ \A level \in {img'.black, img'.white, img'.separate, dec'.kept.black, dec'.kept.white} : level.scaled = 0
  BY DEF UnscaledInv
<1>1. /\ todo \in Seq(Steps) /\ todo # << >> /\ todo' = Tail(todo) /\ EndOf(todo', todo)
  BY StepLeaves
<1>2. /\ dec'.name = dec.name /\ LevelEffect(h)
      /\ dec'.kept = dec.kept \/ (dec'.kept.black = img.black /\ dec'.kept.white = img.white)
  BY DEF Effect, DecEffect
<1>3. Lacks(todo, Scalings) /\ img.black.scaled = 0 /\ img.white.scaled = 0 /\ img.separate.scaled = 0
      /\ dec.kept.black.scaled = 0 /\ dec.kept.white.scaled = 0
  BY <1>2 DEF UnscaledInv
<1>4. Lacks(todo', Scalings) /\ h \notin Scalings
  BY <1>1, <1>3, LacksInEnd, LacksNow
<1> HIDE DEF h
<1>5. img'.black.scaled = 0 /\ img'.white.scaled = 0 /\ img'.separate.scaled = 0
  <2>1. CASE h \notin SetsDb
    BY <1>2, <1>3, <1>4, <2>1, LevelFacts DEF LevelEffect
  <2>2. CASE h \in SetsDb \ {"restoreLevels"}
    BY <1>2, <1>3, <2>2, LevelFacts DEF LevelEffect, SameLevels, LevelsOfDb
  <2>3. CASE h = "restoreLevels"
    BY <1>2, <1>3, <2>3 DEF LevelEffect
  <2> QED BY <2>1, <2>2, <2>3
<1>6. dec'.kept.black.scaled = 0 /\ dec'.kept.white.scaled = 0
  BY <1>2, <1>3
<1> QED BY <1>4, <1>5, <1>6

LEMMA ArwStep ==
  ASSUME DecodingType, CallsInv, ArwInv, Effect, UNCHANGED << calls, result >>
  PROVE  ArwInv'
<1> DEFINE h == Head(todo)
<1> SUFFICES ASSUME dec'.name = "ArwDecoder" PROVE ArwInv'
  BY DEF ArwInv
<1>1. /\ todo \in Seq(Steps) /\ todo # << >> /\ todo' = Tail(todo) /\ EndOf(todo', todo) /\ camera' = camera
  BY StepLeaves
<1>2. /\ dec'.name = dec.name /\ LevelEffect(h) /\ (dec'.shift = dec.shift \/ h \in {"shiftDown", "shiftUp"})
      /\ dec.shift \in {0, 1}
  BY DEF Effect, DecEffect, DecodingType, DecoderType
<1>3. /\ Lacks(todo, OtherLevels \cup (Scalings \ {"shiftLevels", "exifBlack", "exifWhite"}))
      /\ RightBefore(todo, "setMetaData", "shiftLevels")
      /\ Never(todo, {"shiftLevels"}, {"shiftLevels"})
      /\ Outside(todo, {"setMetaData", "shiftLevels"})
      /\ DbIsSensed
      /\ img.separate.from = "db" => img.separate.scaled = 0
  BY <1>2 DEF ArwInv
<1>4. h \notin OtherLevels \cup (Scalings \ {"shiftLevels", "exifBlack", "exifWhite"})
  BY <1>1, <1>3, LacksNow
<1>5. /\ Lacks(todo', OtherLevels \cup (Scalings \ {"shiftLevels", "exifBlack", "exifWhite"}))
      /\ RightBefore(todo', "setMetaData", "shiftLevels")
      /\ Never(todo', {"shiftLevels"}, {"shiftLevels"})
      /\ Outside(todo', {"setMetaData", "shiftLevels"})
  BY <1>1, <1>3, LacksInEnd, RightBeforeInEnd, NeverInEnd, OutsideInEnd
<1>6. Sensed' <=> Sensed
  BY <1>1 DEF Sensed
<1>7. /\ h = "setMetaData" => ~Lacks(todo', {"shiftLevels"})
      /\ h = "shiftLevels" => Lacks(todo', {"shiftLevels"}) /\ ~Lacks(todo, {"shiftLevels"})
      /\ h # "shiftLevels" => (Lacks(todo', {"shiftLevels"}) <=> Lacks(todo, {"shiftLevels"}))
      /\ h # "setMetaData" /\ Lacks(todo', {"setMetaData"}) => Lacks(todo, {"setMetaData"})
  <2>1. h = "setMetaData" => ~Lacks(todo', {"shiftLevels"})
    <3>1. ASSUME h = "setMetaData" PROVE todo' # << >> /\ Head(todo') = "shiftLevels" /\ todo' \in Seq(Steps)
      BY <1>1, <1>3, <3>1, RightNext DEF EndOf
    <3>2. ASSUME h = "setMetaData", Lacks(todo', {"shiftLevels"}) PROVE FALSE
      BY <3>1, <3>2, LacksNow
    <3> QED BY <3>2
  <2>2. h = "shiftLevels" => Lacks(todo', {"shiftLevels"}) /\ ~Lacks(todo, {"shiftLevels"})
    BY <1>1, <1>3, NeverAgain, LacksNow
  <2>3. h # "shiftLevels" => (Lacks(todo', {"shiftLevels"}) <=> Lacks(todo, {"shiftLevels"}))
    BY <1>1, HasLater, LacksInEnd
  <2>4. h # "setMetaData" /\ Lacks(todo', {"setMetaData"}) => Lacks(todo, {"setMetaData"})
    BY <1>1, HasLater
  <2> QED BY <2>1, <2>2, <2>3, <2>4
<1>8. calls = << >> => dec'.shift = dec.shift
  <2>1. calls = << >> => Lacks(todo, RawOnly)
    BY DEF CallsInv
  <2>2. calls = << >> => h \notin RawOnly
    BY <1>1, <2>1, LacksNow
  <2> QED BY <1>2, <2>2 DEF RawOnly
<1>t. /\ SetsDb = OtherLevels \cup {"setMetaData"} /\ "setMetaData" \notin OtherLevels \cup Scalings
      /\ "shiftLevels" \notin OtherLevels /\ {"exifBlack", "exifWhite"} \cap OtherLevels = {}
      /\ {"shiftLevels", "exifBlack", "exifWhite"} \subseteq Scalings
  BY DEF SetsDb, OtherLevels, Scalings
<1> HIDE DEF h
<1>p. img'.separate.from = "db" => img'.separate.scaled = 0
  <2>1. CASE h = "setMetaData"
    BY <1>2, <1>3, <2>1, LevelFacts DEF LevelEffect, SameLevels, LevelsOfDb
  <2>2. CASE h \in {"shiftLevels", "exifBlack", "exifWhite"}
    BY <1>2, <1>3, <2>2 DEF LevelEffect, SameLevels
  <2>3. CASE h \notin SetsDb \cup Scalings
    BY <1>2, <1>3, <2>3, LevelFacts DEF LevelEffect
  <2> QED BY <1>4, <1>t, <2>1, <2>2, <2>3
<1>k. Known' => calls = << >> /\ Lacks(todo', {"setMetaData"}) /\ result \notin Exceptions
  BY DEF Known
<1>s. h # "setMetaData" /\ Known' => \A level \in {img.black, img.white} :
        level.from = "db" => level.scaled = IF Lacks(todo, {"shiftLevels"}) THEN dec.shift ELSE 0
  <2>1. h # "setMetaData" /\ Known' => Known
    BY <1>7, <1>k DEF Known
  <2> QED BY <1>2, <2>1 DEF ArwInv
<1>20. CASE h = "setMetaData"
  <2>1. (Sensed /\ LevelsOfDb) \/ (NoneOfDb /\ SameLevels)
    BY <1>2, <1>3, <1>20 DEF LevelEffect, DbIsSensed, NoneOfDb
  <2>2. DbIsSensed'
    BY <1>6, <2>1 DEF DbIsSensed, NoneOfDb, SameLevels
  <2>3. \A level \in {img'.black, img'.white} : level.from = "db" => level.scaled = 0
    BY <2>1, LevelFacts DEF NoneOfDb, SameLevels, LevelsOfDb
  <2> QED BY <1>5, <1>7, <1>20, <1>p, <2>2, <2>3 DEF ArwInv
<1>21. CASE h = "shiftLevels"
  <2>1. IF dec.shift = 0 THEN SameLevels ELSE img'.black = Scaled(img.black) /\ img'.white = Scaled(img.white)
    BY <1>2, <1>21 DEF LevelEffect, SameLevels
  <2>2. img.black \in LevelType /\ img.white \in LevelType
    BY DEF DecodingType, ImageType
  <2>3. /\ img'.black.from = img.black.from /\ img'.white.from = img.white.from
        /\ img'.black.scaled = img.black.scaled + dec.shift /\ img'.white.scaled = img.white.scaled + dec.shift
    <3>1. CASE dec.shift = 0
      <4>1. img.black.scaled \in Nat /\ img.white.scaled \in Nat
        BY <2>2 DEF LevelType
      <4> QED BY <2>1, <3>1, <4>1 DEF SameLevels
    <3>2. CASE dec.shift # 0
      BY <1>2, <2>1, <2>2, <3>2, LevelTypes
    <3> QED BY <3>1, <3>2
  <2>4. Known' => \A level \in {img.black, img.white} : level.from = "db" => level.scaled = 0
    BY <1>7, <1>21, <1>s
  <2>5. Known' => \A level \in {img'.black, img'.white} : level.from = "db" => level.scaled = dec.shift
    BY <1>2, <2>3, <2>4
  <2>6. DbIsSensed'
    BY <1>3, <1>6, <2>3 DEF DbIsSensed
  <2>7. dec'.shift = dec.shift
    BY <1>2, <1>21
  <2> QED BY <1>5, <1>7, <1>21, <1>p, <2>5, <2>6, <2>7 DEF ArwInv
<1>22. CASE h \in {"exifBlack", "exifWhite"}
  <2>1. img'.black = img.black /\ (img'.white = img.white \/ img'.white.from = "exif")
    BY <1>2, <1>22 DEF LevelEffect
  <2>2. DbIsSensed'
    BY <1>3, <1>6, <2>1 DEF DbIsSensed
  <2>3. dec'.shift = dec.shift
    BY <1>2, <1>22
  <2>4. Known' => \A level \in {img'.black, img'.white} :
          level.from = "db" => level.scaled = IF Lacks(todo', {"shiftLevels"}) THEN dec'.shift ELSE 0
    BY <1>7, <1>22, <1>s, <1>t, <2>1, <2>3
  <2> QED BY <1>5, <1>p, <2>2, <2>4 DEF ArwInv
<1>23. CASE h \notin SetsDb \cup Scalings
  <2>1. img'.black \in {img.black, Level("file"), Unset} /\ img'.white \in {img.white, Level("file"), Unset}
    BY <1>2, <1>23 DEF LevelEffect
  <2>2. DbIsSensed'
    BY <1>3, <1>6, <2>1, LevelFacts DEF DbIsSensed
  <2>3. Known' => \A level \in {img'.black, img'.white} : level.from = "db" =>
          level.scaled = IF Lacks(todo, {"shiftLevels"}) THEN dec.shift ELSE 0
    BY <1>23, <1>s, <1>t, <2>1, LevelFacts
  <2>4. Known' => \A level \in {img'.black, img'.white} : level.from = "db" =>
          level.scaled = IF Lacks(todo', {"shiftLevels"}) THEN dec'.shift ELSE 0
    BY <1>7, <1>8, <1>23, <1>k, <1>t, <2>3
  <2> QED BY <1>5, <1>p, <2>2, <2>4 DEF ArwInv
<1> QED BY <1>4, <1>20, <1>21, <1>22, <1>23, <1>t

LEMMA OrfStep ==
  ASSUME DecodingType, CallsInv, OrfInv, Effect, UNCHANGED << calls, result >>
  PROVE  OrfInv'
<1> DEFINE h == Head(todo)
<1> SUFFICES ASSUME dec'.name = "OrfDecoder" PROVE OrfInv'
  BY DEF OrfInv
<1>1. /\ todo \in Seq(Steps) /\ todo # << >> /\ todo' = Tail(todo) /\ EndOf(todo', todo) /\ camera' = camera
  BY StepLeaves
<1>2. dec'.name = dec.name /\ LevelEffect(h) /\ img.black \in LevelType /\ img.white \in LevelType /\ img.separate \in LevelType
  BY DEF Effect, DecEffect, DecodingType, ImageType
<1>3. /\ Lacks(todo, OtherLevels \cup (Scalings \ {"scale"}))
      /\ Never(todo, {"scale"}, {"scale"})
      /\ DbIsSensed
      /\ Ready(SeparateIsOther, todo, {"scale"}, {"fileSeparate"}, {"caught"} \cup SetsDb)
      /\ img.separate.from = "db" => img.separate.scaled = 0
      /\ img.separate.from = "db" /\ img.white.from = "db" => img.white.scaled = 0
  BY <1>2 DEF OrfInv
<1>4. h \notin OtherLevels \cup (Scalings \ {"scale"})
  BY <1>1, <1>3, LacksNow
<1>5. /\ Lacks(todo', OtherLevels \cup (Scalings \ {"scale"})) /\ Never(todo', {"scale"}, {"scale"})
  BY <1>1, <1>3, LacksInEnd, NeverInEnd
<1>6. Sensed' <=> Sensed
  BY <1>1 DEF Sensed
<1>7. /\ h = "scale" => Lacks(todo', {"scale"}) /\ ~Lacks(todo, {"scale"})
      /\ Lacks(todo, {"scale"}) => Lacks(todo', {"scale"})
      /\ h # "setMetaData" /\ Lacks(todo', {"setMetaData"}) => Lacks(todo, {"setMetaData"})
  <2>1. h = "scale" => Lacks(todo', {"scale"}) /\ ~Lacks(todo, {"scale"})
    BY <1>1, <1>3, NeverAgain, LacksNow
  <2>2. Lacks(todo, {"scale"}) => Lacks(todo', {"scale"})
    BY <1>1, LacksInEnd
  <2>3. h # "setMetaData" /\ Lacks(todo', {"setMetaData"}) => Lacks(todo, {"setMetaData"})
    BY <1>1, HasLater
  <2> QED BY <2>1, <2>2, <2>3
<1>t. /\ SetsDb = OtherLevels \cup {"setMetaData"} /\ "setMetaData" \notin OtherLevels \cup Scalings
      /\ "scale" \in Scalings
  BY DEF SetsDb, OtherLevels, Scalings
<1>8. SeparateIsOther \in BOOLEAN /\ SeparateIsOther' \in BOOLEAN
  BY DEF SeparateIsOther
<1>9. h = "scale" => SeparateIsOther
  BY <1>1, <1>3, <1>8, ReadyNow
<1>10. Ready(SeparateIsOther', todo', {"scale"}, {"fileSeparate"}, {"caught"} \cup SetsDb)
  <2> HIDE DEF h
  <2>1. SeparateIsOther /\ h \notin {"caught"} \cup SetsDb => SeparateIsOther'
    <3>1. CASE h \in Scalings
      BY <1>2, <1>4, <1>t, <3>1, LevelTypes DEF LevelEffect, SeparateIsOther
    <3>2. CASE h \notin SetsDb \cup Scalings
      BY <1>2, <3>2, LevelFacts DEF LevelEffect, SeparateIsOther
    <3> QED BY <3>1, <3>2
  <2>2. h \in {"fileSeparate"} => SeparateIsOther'
    BY <1>2, LevelFacts DEF LevelEffect, SeparateIsOther
  <2> HIDE DEF SeparateIsOther
  <2>3. Head(todo) = h
    BY DEF h
  <2> QED BY <1>1, <1>3, <1>8, <2>1, <2>2, <2>3, ReadyNext
<1> HIDE DEF h
<1>p. /\ img'.separate.from = "db" => img'.separate.scaled = 0
      /\ img'.separate.from = "db" /\ img'.white.from = "db" => img'.white.scaled = 0
  <2>1. CASE h = "setMetaData"
    BY <1>2, <1>3, <2>1, LevelFacts DEF LevelEffect, SameLevels, LevelsOfDb
  <2>2. CASE h = "scale"
    <3>1. img'.separate.from = img.separate.from
      BY <1>2, <2>2, LevelTypes DEF LevelEffect
    <3> QED BY <1>9, <2>2, <3>1 DEF SeparateIsOther
  <2>3. CASE h \notin SetsDb \cup Scalings
    <3>1. img'.separate.from = "db" => img'.separate = img.separate
      BY <1>2, <2>3, LevelFacts DEF LevelEffect
    <3>2. img'.white.from = "db" => img'.white = img.white
      BY <1>2, <2>3, LevelFacts DEF LevelEffect
    <3> QED BY <1>3, <3>1, <3>2
  <2> QED BY <1>4, <1>t, <2>1, <2>2, <2>3
<1>k. Known' => calls = << >> /\ Lacks(todo', {"setMetaData"}) /\ result \notin Exceptions
  BY DEF Known
<1>s. h # "setMetaData" /\ Known' =>
        /\ \A level \in {img.black, img.white} :
             level.from = "db" => level.scaled \in {0, 1} /\ (Lacks(todo, {"scale"}) \/ level.scaled = 0)
        /\ img.black.from = "db" /\ img.white.from = "db" => img.black.scaled = img.white.scaled
  <2>1. h # "setMetaData" /\ Known' => Known
    BY <1>7, <1>k DEF Known
  <2> QED BY <1>2, <2>1 DEF OrfInv
<1>20. CASE h = "setMetaData"
  <2>1. (Sensed /\ LevelsOfDb) \/ (NoneOfDb /\ SameLevels)
    BY <1>2, <1>3, <1>20 DEF LevelEffect, DbIsSensed, NoneOfDb
  <2>2. DbIsSensed'
    BY <1>6, <2>1 DEF DbIsSensed, NoneOfDb, SameLevels
  <2>3. \A level \in {img'.black, img'.white} : level.from = "db" => level.scaled = 0
    BY <2>1, LevelFacts DEF NoneOfDb, SameLevels, LevelsOfDb
  <2> QED BY <1>5, <1>10, <1>p, <2>2, <2>3 DEF OrfInv
<1>21. CASE h = "scale"
  <2>1. img'.black = Scaled(img.black) /\ img'.white = Scaled(img.white)
    BY <1>2, <1>21 DEF LevelEffect
  <2>2. /\ img'.black.from = img.black.from /\ img'.white.from = img.white.from
        /\ img'.black.scaled = img.black.scaled + 1 /\ img'.white.scaled = img.white.scaled + 1
    BY <1>2, <2>1, LevelTypes
  <2>3. Known' => \A level \in {img.black, img.white} : level.from = "db" => level.scaled = 0
    BY <1>7, <1>21, <1>s
  <2>4. Known' => \A level \in {img'.black, img'.white} : level.from = "db" => level.scaled = 1
    BY <2>2, <2>3
  <2>5. DbIsSensed'
    BY <1>3, <1>6, <2>2 DEF DbIsSensed
  <2> QED BY <1>5, <1>7, <1>10, <1>21, <1>p, <2>4, <2>5 DEF OrfInv
<1>22. CASE h \notin SetsDb \cup Scalings
  <2>1. img'.black \in {img.black, Level("file"), Unset} /\ img'.white \in {img.white, Level("file"), Unset}
    BY <1>2, <1>22 DEF LevelEffect
  <2>2. DbIsSensed'
    BY <1>3, <1>6, <2>1, LevelFacts DEF DbIsSensed
  <2>3. Known' => \A level \in {img'.black, img'.white} : level.from = "db" =>
          level.scaled \in {0, 1} /\ (Lacks(todo', {"scale"}) \/ level.scaled = 0)
    BY <1>7, <1>22, <1>s, <1>t, <2>1, LevelFacts
  <2>4. Known' /\ img'.black.from = "db" /\ img'.white.from = "db" => img'.black.scaled = img'.white.scaled
    <3>1. img'.black.from = "db" => img'.black = img.black
      BY <2>1, LevelFacts
    <3>2. img'.white.from = "db" => img'.white = img.white
      BY <2>1, LevelFacts
    <3> QED BY <1>22, <1>s, <1>t, <3>1, <3>2
  <2> QED BY <1>5, <1>10, <1>p, <2>2, <2>3, <2>4 DEF OrfInv
<1> QED BY <1>4, <1>20, <1>21, <1>22, <1>t

LEMMA Cr2Step ==
  ASSUME DecodingType, CallsInv, Cr2Inv, Effect, UNCHANGED << calls, result >>
  PROVE  Cr2Inv'
<1> DEFINE h == Head(todo)
<1> SUFFICES ASSUME dec'.name = "Cr2Decoder" PROVE Cr2Inv'
  BY DEF Cr2Inv
<1>1. /\ todo \in Seq(Steps) /\ todo # << >> /\ todo' = Tail(todo) /\ EndOf(todo', todo)
  BY StepLeaves
<1>2. dec'.name = dec.name /\ LevelEffect(h) /\ img.black \in LevelType /\ img.white \in LevelType /\ img.separate \in LevelType
  BY DEF Effect, DecEffect, DecodingType, ImageType
<1>3. /\ Lacks(todo, {"restoreLevels", "applyCorrections"} \cup (Scalings \ {"rescaleToPrecision", "shiftUpLevels"}))
      /\ Never(todo, {"shiftUpLevels"}, {"shiftUpLevels", "whiteOfPrecision"})
      /\ AfterTry(todo, "whiteOfPrecision")
      /\ Ready(OthersAreRescaled, todo, {"rescaleToPrecision"}, {"canonLevels"}, {"caught"} \cup SetsDb)
      /\ img.black.from = "db" => img.black.scaled = 0
      /\ img.white.from = "db" => img.white.scaled \in {0, 1}
      /\ img.separate.from = "db" => img.separate.scaled = 0
      /\ img.black.from = "db" \/ img.separate.from = "db" => (img.white.from = "db" => img.white.scaled = 0)
      /\ img.white.from = "db" /\ img.white.scaled # 0 =>
           Lacks(todo, {"shiftUpLevels"}) \/ ~Lacks(todo, {"whiteOfPrecision"})
  BY <1>2 DEF Cr2Inv
<1>4. h \notin {"restoreLevels", "applyCorrections"} \cup (Scalings \ {"rescaleToPrecision", "shiftUpLevels"})
  BY <1>1, <1>3, LacksNow
<1>5. /\ Lacks(todo', {"restoreLevels", "applyCorrections"} \cup (Scalings \ {"rescaleToPrecision", "shiftUpLevels"}))
      /\ Never(todo', {"shiftUpLevels"}, {"shiftUpLevels", "whiteOfPrecision"})
      /\ AfterTry(todo', "whiteOfPrecision")
  BY <1>1, <1>3, LacksInEnd, NeverInEnd, AfterTryInEnd
<1>6. OthersAreRescaled \in BOOLEAN /\ OthersAreRescaled' \in BOOLEAN
  BY DEF OthersAreRescaled
<1>7. h = "rescaleToPrecision" => OthersAreRescaled
  BY <1>1, <1>3, <1>6, ReadyNow
<1>8. h = "shiftUpLevels" => Lacks(todo', {"shiftUpLevels"}) /\ ~Lacks(todo, {"shiftUpLevels"})
                             /\ Lacks(todo, {"whiteOfPrecision"})
  <2>1. ASSUME h = "shiftUpLevels" PROVE Lacks(todo', {"shiftUpLevels", "whiteOfPrecision"})
    BY <1>1, <1>3, <2>1, NeverAgain
  <2>2. ASSUME h = "shiftUpLevels" PROVE ~Lacks(todo, {"shiftUpLevels"})
    BY <1>1, <2>2, LacksNow
  <2>3. ASSUME h = "shiftUpLevels" PROVE Lacks(todo', {"shiftUpLevels"}) /\ Lacks(todo', {"whiteOfPrecision"})
    <3>1. {"shiftUpLevels", "whiteOfPrecision"} = {"shiftUpLevels"} \cup {"whiteOfPrecision"}
      OBVIOUS
    <3> QED BY <2>1, <2>3, <3>1, LacksBoth
  <2>4. ASSUME h = "shiftUpLevels" PROVE Lacks(todo, {"whiteOfPrecision"})
    <3>1. Lacks(Tail(todo), {"whiteOfPrecision"})
      BY <1>1, <2>3, <2>4
    <3>2. Head(todo) \notin {"whiteOfPrecision"}
      BY <2>4
    <3> QED BY <1>1, <3>1, <3>2, HasLater
  <2> QED BY <2>2, <2>3, <2>4
<1>9. Lacks(todo, {"shiftUpLevels"}) => Lacks(todo', {"shiftUpLevels"})
  BY <1>1, LacksInEnd
<1>10. h # "whiteOfPrecision" /\ ~Lacks(todo, {"whiteOfPrecision"}) => ~Lacks(todo', {"whiteOfPrecision"})
  BY <1>1, HasOnlyThis
<1>t. /\ SetsDb = OtherLevels \cup {"setMetaData"} /\ SetsDb \cap Scalings = {} /\ "restoreLevels" \in SetsDb
      /\ {"rescaleToPrecision", "shiftUpLevels"} \subseteq Scalings
      /\ "whiteOfPrecision" \notin SetsDb \cup Scalings
  BY DEF SetsDb, OtherLevels, Scalings
<1> HIDE DEF h
<1> DEFINE Fine == /\ img'.black.from = "db" => img'.black.scaled = 0
                   /\ img'.white.from = "db" => img'.white.scaled \in {0, 1}
                   /\ img'.separate.from = "db" => img'.separate.scaled = 0
                   /\ img'.black.from = "db" \/ img'.separate.from = "db" =>
                        (img'.white.from = "db" => img'.white.scaled = 0)
                   /\ img'.white.from = "db" /\ img'.white.scaled # 0 =>
                        Lacks(todo', {"shiftUpLevels"}) \/ ~Lacks(todo', {"whiteOfPrecision"})
<1>20. ASSUME h \in SetsDb PROVE Fine
  <2>1. SameLevels \/ LevelsOfDb
    BY <1>2, <1>4, <1>20 DEF LevelEffect
  <2>2. h # "whiteOfPrecision"
    BY <1>20, <1>t
  <2>3. ASSUME SameLevels PROVE Fine
    BY <1>3, <1>9, <1>10, <2>2, <2>3 DEF SameLevels
  <2>4. ASSUME LevelsOfDb PROVE Fine
    BY <1>3, <2>4, LevelFacts DEF LevelsOfDb
  <2> QED BY <2>1, <2>3, <2>4
<1>21. ASSUME h = "rescaleToPrecision" PROVE Fine
  <2>1. SameLevels \/ (img'.black = img.black /\ img'.white = Scaled(img.white)
                         /\ img'.separate \in {img.separate, Scaled(img.separate)})
    BY <1>2, <1>21 DEF LevelEffect
  <2>2. img'.black = img.black /\ img'.white.from # "db" /\ img'.separate.from # "db"
    BY <1>2, <1>7, <1>21, <2>1, LevelTypes DEF SameLevels, OthersAreRescaled
  <2> QED BY <1>3, <2>2
<1>22. ASSUME h = "shiftUpLevels" PROVE Fine
  <2>1. SameLevels \/ (img'.black = Level("file") /\ img'.white = Scaled(img.white) /\ img'.separate = Unset)
    BY <1>2, <1>22 DEF LevelEffect
  <2>2. img.white.from = "db" => img.white.scaled = 0
    BY <1>3, <1>8, <1>22
  <2>3. ASSUME SameLevels PROVE Fine
    BY <1>3, <2>2, <2>3 DEF SameLevels
  <2>4. ASSUME img'.black = Level("file") /\ img'.white = Scaled(img.white) /\ img'.separate = Unset PROVE Fine
    <3>1. img'.black.from = "file" /\ img'.separate.from = "unset" /\ img'.white.from = img.white.from /\ img'.white.scaled = img.white.scaled + 1
      BY <1>2, <2>4, LevelTypes, LevelFacts
    <3>2. img'.white.from = "db" => img'.white.scaled = 1
      BY <2>2, <3>1
    <3> QED BY <1>8, <1>22, <3>1, <3>2
  <2> QED BY <2>1, <2>3, <2>4
<1>23. ASSUME h \notin SetsDb \cup Scalings PROVE Fine
  <2>1. img'.black \in {img.black, Level("file"), Unset} /\ img'.white \in {img.white, Level("file"), Unset}
    BY <1>2, <1>23 DEF LevelEffect
  <2>2. h = "whiteOfPrecision" => img'.white = Level("file")
    BY <1>2, <1>23 DEF LevelEffect
  <2>3. img'.black.from = "db" => img'.black = img.black
    BY <2>1, LevelFacts
  <2>4. img'.white.from = "db" => img'.white = img.white /\ h # "whiteOfPrecision"
    BY <2>1, <2>2, LevelFacts
  <2>5. img'.separate.from = "db" => img'.separate = img.separate
    BY <1>2, <1>23, LevelFacts DEF LevelEffect
  <2> QED BY <1>3, <1>9, <1>10, <2>3, <2>4, <2>5
<1>24. Fine
  BY <1>4, <1>20, <1>21, <1>22, <1>23, <1>t
<1> HIDE DEF Fine
<1>25. Ready(OthersAreRescaled', todo', {"rescaleToPrecision"}, {"canonLevels"}, {"caught"} \cup SetsDb)
  <2>1. OthersAreRescaled /\ h \notin {"caught"} \cup SetsDb => OthersAreRescaled'
    <3>1. CASE h \in Scalings
      <4>1. h = "rescaleToPrecision" \/ h = "shiftUpLevels"
        BY <1>4, <3>1
      <4>2. OthersAreRescaled => OthersAreRescaled'
        BY <1>2, <1>t, <4>1, LevelTypes, LevelFacts DEF OthersAreRescaled, LevelEffect, SameLevels
      <4> QED BY <4>2
    <3>2. CASE h \notin SetsDb \cup Scalings
      BY <1>2, <3>2, LevelFacts DEF LevelEffect, OthersAreRescaled
    <3> QED BY <3>1, <3>2
  <2>2. h \in {"canonLevels"} => OthersAreRescaled'
    BY <1>2, LevelFacts DEF LevelEffect, OthersAreRescaled
  <2> HIDE DEF OthersAreRescaled
  <2>3. Head(todo) = h
    BY DEF h
  <2> QED BY <1>1, <1>3, <1>6, <2>1, <2>2, <2>3, ReadyNext
<1> QED BY <1>5, <1>24, <1>25 DEF Cr2Inv, Fine

LEMMA StepKeeps ==
  ASSUME DecodingInv, Step
  PROVE  DecodingInv'
<1>1. todo # << >> /\ Head(todo) \in AsksCamera => dec.mode \in DOMAIN camera
  <2> DEFINE now == dec.mode \in DOMAIN camera
  <2>1. now \in BOOLEAN
    OBVIOUS
  <2>2. todo \in Seq(Steps)
    BY DEF DecodingInv, DecodingType
  <2>3. Ready(now, todo, AsksCamera, {"cameraOrRefuse"}, {"caught", "setMode"})
    BY DEF DecodingInv, CameraInv
  <2> HIDE DEF now
  <2>4. todo # << >> /\ Head(todo) \in AsksCamera => now
    BY <2>1, <2>2, <2>3, ReadyNow
  <2> QED BY <2>4 DEF now
<1>2. Effect /\ UNCHANGED << calls, result >>
  BY <1>1, StepEffect DEF DecodingInv
<1>3. DecodingType' /\ CallsInv' /\ MapsInv' /\ CropInv'
  BY <1>2, TypeStep, CallsStep, MapsStep, CropsStep DEF DecodingInv
<1>4. CameraInv' /\ PrecisionInv' /\ KodakInv' /\ UnscaledInv'
  BY <1>2, CameraStep, PrecisionStep, KodakStep, UnscaledStep DEF DecodingInv
<1>5. ArwInv' /\ OrfInv' /\ Cr2Inv'
  BY <1>2, ArwStep, OrfStep, Cr2Step DEF DecodingInv
<1> QED BY <1>3, <1>4, <1>5 DEF DecodingInv
-----------------------------------------------------------------------------
(* The parsing, and the end of it all. *)
LEMMA CallsDiffer ==
  /\ << "meta" >> # << >> /\ << "raw", "meta" >> # << >> /\ << "support", "raw", "meta" >> # << >>
  /\ << "raw", "meta" >> # << "meta" >> /\ << "support", "raw", "meta" >> # << "meta" >>
  OBVIOUS

LEMMA SameKeeps ==
  ASSUME DecodingInv, UNCHANGED << decoding, calls >>,
         \/ result' = result
         \/ dec.name # "none" /\ todo = << >> /\ calls = << >> /\ result = "none" /\ result' = "image"
  PROVE  DecodingInv'
<1>1. img' = img /\ dec' = dec /\ camera' = camera /\ client' = client /\ todo' = todo /\ calls' = calls
  BY DEF decoding
<1>2. result \in Exceptions <=> result' \in Exceptions
  BY DEF Exceptions
<1>3. DecodingType' /\ MapsInv' /\ CameraInv' /\ UnscaledInv' /\ Cr2Inv'
  <2>1. DecodingType'
    BY <1>1 DEF DecodingInv, DecodingType
  <2>2. MapsInv'
    <3>1. MappedOnce
      BY DEF DecodingInv, MapsInv
    <3>2. result' = "image" /\ dec.name \in {"DcrDecoder", "DcsDecoder"} /\ ~client.uncorrected => img.mapped = 1
      <4> SUFFICES ASSUME result' = "image", dec.name \in Kodak, ~client.uncorrected, result = "none",
                          todo = << >>, calls = << >>
                   PROVE  img.mapped = 1
        BY <3>1 DEF MappedOnce, Kodak
      <4>1. img.mapped # 0
        BY CallsDiffer DEF DecodingInv, KodakInv, RawPending, Exceptions
      <4>2. img.mapped \in Nat /\ img.mapped <= 1
        BY <3>1 DEF DecodingInv, DecodingType, ImageType, MappedOnce
      <4> QED BY <4>1, <4>2
    <3> QED BY <1>1, <3>1, <3>2 DEF DecodingInv, MapsInv, MappedOnce, RawPending
  <2>3. CameraInv'
    BY <1>1 DEF DecodingInv, CameraInv, Coloured, AllCFA, AskedEarly
  <2>4. UnscaledInv'
    BY <1>1 DEF DecodingInv, UnscaledInv
  <2>5. Cr2Inv'
    BY <1>1 DEF DecodingInv, Cr2Inv, OthersAreRescaled
  <2> QED BY <2>1, <2>2, <2>3, <2>4, <2>5
<1>4. CropInv'
  BY <1>1 DEF DecodingInv, CropInv, RawPending, At
<1>5. CallsInv'
  BY <1>1 DEF DecodingInv, CallsInv
<1>6. PrecisionInv'
  BY <1>1 DEF DecodingInv, PrecisionInv, RawPending
<1>7. (Known' <=> Known) /\ (DbIsSensed' <=> DbIsSensed)
  BY <1>1, <1>2 DEF Known, DbIsSensed, Sensed
<1>8. ArwInv' /\ OrfInv'
  BY <1>1, <1>7 DEF DecodingInv, ArwInv, OrfInv, SeparateIsOther
<1>9. KodakInv'
  BY <1>1, <1>2 DEF DecodingInv, KodakInv, RawPending
<1> QED BY <1>3, <1>4, <1>5, <1>6, <1>8, <1>9 DEF DecodingInv

(* Nothing is decoded yet. *)
LEMMA NewImageIsUnset ==
  /\ NewImage \in ImageType /\ NewImage.isCFA /\ NewImage.cfa = "none" /\ NewImage.shift = 0 /\ NewImage.offset = 0
  /\ NewImage.crops = 0 /\ NewImage.table = "none" /\ NewImage.mapped = 0
  /\ NewImage.separate = Unset /\ NewImage.allocated = FALSE
  /\ NewImage.black = Unset /\ NewImage.white = Unset /\ Unset \in LevelType /\ Unset.from # "db" /\ Unset.scaled = 0
  BY DEF NewImage, ImageType, LevelType, Unset

LEMMA NoHints == {} \in AnyHints
  BY DEF AnyHints

(* The decoder of this name, as it is constructed. *)
AsConstructed(name, crop, special, precision) ==
  [name |-> name, crop |-> crop, hints |-> {}, guard |-> "none", mode |-> "", special |-> special,
   shift |-> 0, exif |-> 0, precision |-> precision, kept |-> [black |-> Unset, white |-> Unset]]

IsConstructed(d, name, crop, precision) ==
  /\ d \in DecoderType /\ d.name = name /\ d.crop = crop /\ d.guard = "none" /\ d.precision = precision
  /\ d.kept.black = Unset /\ d.kept.white = Unset

LEMMA ConstructedType ==
  ASSUME NEW name \in Decoders \cup {"none"}, NEW crop \in BOOLEAN, NEW special \in BOOLEAN,
         NEW precision \in Indeterminate
  PROVE  IsConstructed(AsConstructed(name, crop, special, precision), name, crop, precision)
<1> DEFINE k == [black |-> Unset, white |-> Unset]
<1>1. k \in [black : LevelType, white : LevelType] /\ k.black = Unset /\ k.white = Unset
  BY NewImageIsUnset
<1>2. AsConstructed(name, crop, special, precision) =
        [name |-> name, crop |-> crop, hints |-> {}, guard |-> "none", mode |-> "", special |-> special,
         shift |-> 0, exif |-> 0, precision |-> precision, kept |-> k]
  BY DEF AsConstructed
<1> HIDE DEF k
<1> DEFINE d == [name |-> name, crop |-> crop, hints |-> {}, guard |-> "none", mode |-> "", special |-> special,
                 shift |-> 0, exif |-> 0, precision |-> precision, kept |-> k]
<1>3. d \in DecoderType
  BY <1>1, NoHints DEF DecoderType
<1>4. d.name = name /\ d.crop = crop /\ d.guard = "none" /\ d.precision = precision /\ d.kept = k
  OBVIOUS
<1> HIDE DEF d
<1> QED BY <1>1, <1>2, <1>3, <1>4 DEF d, IsConstructed

(* All that is asked of the steps is so of none. *)
LEMMA EmptyIsFine ==
  ASSUME NEW w, w = << >>
  PROVE  /\ Never(w, Crops, Crops \cup SetsCFA) /\ RightBefore(w, "cropToSize", "noMoreCrops")
         /\ Lacks(w, Metas) /\ Lacks(w, {"cropToSize"}) /\ Lacks(w, Crops \cup SetsCFA)
         /\ Never(w, Maps \cup {"endCurve"}, Maps) /\ Lacks(w, Maps)
  BY EmptyHasNone

LEMMA StartsDecoding == Init => DecodingInv
<1> SUFFICES ASSUME Init PROVE DecodingInv
  OBVIOUS
<1>1. /\ img = NewImage /\ dec = NoDecoder /\ camera = NoCamera /\ todo = << >> /\ calls = << >> /\ result = "none"
      /\ client = [fail |-> FALSE, uncorrected |-> FALSE]
  BY DEF Init
<1>2. /\ dec \in DecoderType /\ dec.name = "none" /\ dec.guard = "none" /\ dec.crop = FALSE
      /\ dec.kept.black = Unset /\ dec.kept.white = Unset /\ dec.precision = 14
  <2>1. NoDecoder = AsConstructed("none", FALSE, FALSE, 14) 
    BY DEF NoDecoder, AsConstructed
  <2>2. 14 \in Indeterminate
    BY DEF Indeterminate
  <2>3. IsConstructed(AsConstructed("none", FALSE, FALSE, 14), "none", FALSE, 14)
    BY <2>2, ConstructedType
  <2> QED BY <1>1, <2>1, <2>3 DEF IsConstructed
<1>3. DecodingType
  BY <1>1, <1>2, NothingLeft, NewImageIsUnset DEF DecodingType
<1>4. CallsInv
  BY <1>1, <1>2, EmptyHasNone DEF CallsInv, CallsLeft
<1>5. MapsInv
  BY <1>1, <1>2, EmptyHasNone, NewImageIsUnset DEF MapsInv, MappedOnce
<1>6. CropInv
  <2>1. img.crops = 0 /\ img.offset = 0 /\ img.shift = 0 /\ img.cfa = "none"
    BY <1>1, NewImageIsUnset
  <2>2. Never(todo, Crops, Crops \cup SetsCFA) /\ RightBefore(todo, "cropToSize", "noMoreCrops")
        /\ Lacks(todo, Metas)
    BY <1>1, EmptyIsFine
  <2> QED BY <2>1, <2>2 DEF CropInv
<1>7. CameraInv
  <2>1. calls # << "raw", "meta" >>
    BY <1>1
  <2> QED BY <1>1, <2>1, EmptyHasNone DEF CameraInv
<1>8. PrecisionInv /\ KodakInv /\ ArwInv /\ OrfInv /\ Cr2Inv
  BY <1>2 DEF PrecisionInv, KodakInv, Kodak, ArwInv, OrfInv, Cr2Inv
<1>9. UnscaledInv
  BY <1>1, <1>2, EmptyHasNone, NewImageIsUnset DEF UnscaledInv
<1> QED BY <1>3, <1>4, <1>5, <1>6, <1>7, <1>8, <1>9 DEF DecodingInv

(* The calls of a client are those of the other after one of its own. *)
LEMMA JoinedUp ==
  ASSUME NEW S, NEW u \in Seq(S), NEW v \in Seq(S), NEW w \in Seq(S), Len(w) = Len(u) + Len(v),
   \A i \in 1 .. Len(u) : w[i] = u[i], \A i \in 1 .. Len(v) : w[Len(u) + i] = v[i]
  PROVE u \o v = w
<1>1. Len(u \o v) = Len(w) /\ u \o v \in Seq(S)
  OBVIOUS
<1>2. \A i \in 1 .. Len(w) : (u \o v)[i] = w[i]
  <2> TAKE i \in 1 .. Len(w)
  <2>1. CASE i <= Len(u)
    BY <2>1
  <2>2. CASE i > Len(u)
    <3>1. (u \o v)[i] = v[i - Len(u)] /\ i - Len(u) \in 1 .. Len(v)
      BY <2>2
    <3>2. Len(u) + (i - Len(u)) = i
      OBVIOUS
    <3> QED BY <3>1, <3>2
  <2> QED BY <2>1, <2>2
<1> QED BY <1>1, <1>2

LEMMA BothTogether ==
  /\ << "meta" >> \o << "support", "raw", "meta" >> = << "meta", "support", "raw", "meta" >>
  /\ << >> \o << "support", "raw", "meta" >> = << "support", "raw", "meta" >>
<1> DEFINE Calls == {"support", "raw", "meta"}
<1> DEFINE n == << >>
<1> DEFINE u == << "meta" >>
<1> DEFINE v == << "support", "raw", "meta" >>
<1> DEFINE w == << "meta", "support", "raw", "meta" >>
<1>1. n \in Seq(Calls) /\ u \in Seq(Calls) /\ v \in Seq(Calls) /\ w \in Seq(Calls)
  OBVIOUS
<1>2. Len(n) = 0 /\ Len(u) = 1 /\ Len(v) = 3 /\ Len(w) = 4
  OBVIOUS
<1>3. u[1] = w[1] /\ v[1] = w[2] /\ v[2] = w[3] /\ v[3] = w[4]
  OBVIOUS
<1> HIDE DEF Calls, n, u, v, w
<1>4. u \o v = w
  <2>1. \A i \in 1 .. Len(u) : w[i] = u[i]
    BY <1>2, <1>3
  <2>2. \A i \in 1 .. Len(v) : w[Len(u) + i] = v[i]
    <3> TAKE i \in 1 .. Len(v)
    <3>1. i = 1 \/ i = 2 \/ i = 3
      BY <1>2
    <3>2. 1 + 1 = 2 /\ 1 + 2 = 3 /\ 1 + 3 = 4
      OBVIOUS
    <3> QED BY <1>2, <1>3, <3>1, <3>2
  <2>3. Len(w) = Len(u) + Len(v)
    BY <1>2
  <2> QED BY <1>1, <2>1, <2>2, <2>3, JoinedUp
<1>5. n \o v = v
  <2>1. \A i \in 1 .. Len(n) : v[i] = n[i]
    BY <1>2
  <2>2. \A i \in 1 .. Len(v) : v[Len(n) + i] = v[i]
    BY <1>2
  <2>3. Len(v) = Len(n) + Len(v)
    BY <1>2
  <2> QED BY <1>1, <2>1, <2>2, <2>3, JoinedUp
<1> QED BY <1>4, <1>5 DEF n, u, v, w

LEMMA OpenKeeps ==
  ASSUME DecodingInv, made \in Decoders, dec.name = "none", NEW tool \in Tools, NEW uncorrected \in BOOLEAN,
         NEW special \in BOOLEAN, NEW cam \in Cameras, NEW precision \in Indeterminate,
         Open(tool, uncorrected, cam, special, precision)
  PROVE  DecodingInv'
<1>1. img = NewImage /\ todo = << >> /\ calls = << >> /\ result = "none"
  BY DEF DecodingInv, CallsInv
<1>2. img' = NewImage /\ todo' = << >> /\ result' = "none" /\ camera' = cam
      /\ client' = [fail |-> tool = "identify", uncorrected |-> uncorrected]
  BY <1>1 DEF Open
<1>3. /\ dec' \in DecoderType /\ dec'.name = made /\ dec'.crop = (tool = "rstest")
      /\ dec'.kept.black = Unset /\ dec'.kept.white = Unset /\ dec'.guard = "none"
  <2>1. dec' = AsConstructed(made, tool = "rstest", special, precision)
    BY DEF Open, NoDecoder, AsConstructed
  <2>2. (tool = "rstest") \in BOOLEAN /\ made \in Decoders \cup {"none"}
    OBVIOUS
  <2>3. IsConstructed(AsConstructed(made, tool = "rstest", special, precision), made, tool = "rstest", precision)
    BY <2>2, ConstructedType
  <2> QED BY <2>1, <2>3 DEF IsConstructed
<1>4. IF tool = "identify" THEN calls' = << "meta", "support", "raw", "meta" >> ELSE calls' = << "support", "raw", "meta" >>
  <2>1. << "meta" >> \o << "support", "raw", "meta" >> = << "meta", "support", "raw", "meta" >>
        /\ << >> \o << "support", "raw", "meta" >> = << "support", "raw", "meta" >>
    BY BothTogether
  <2> QED BY <2>1 DEF Open
<1>5. calls' \in CallsLeft /\ calls' # << >> /\ calls' # << "meta" >> /\ calls' # << "raw", "meta" >>
      /\ (calls' = << "meta", "support", "raw", "meta" >> => tool = "identify")
  BY <1>4 DEF CallsLeft
<1>6. made # "none"
  BY DecodersNamed DEF Names
<1>7. client'.fail = (tool = "identify") /\ client' \in [fail : BOOLEAN, uncorrected : BOOLEAN]
  BY <1>2
<1>8. DecodingType'
  BY <1>2, <1>3, <1>7, NothingLeft, NewImageIsUnset DEF DecodingType
<1>9. CallsInv'
  <2>1. tool = "rstest" => tool # "identify"
    OBVIOUS
  <2> QED BY <1>2, <1>3, <1>5, <1>6, <1>7, <2>1, EmptyHasNone DEF CallsInv
<1>10. MapsInv'
  BY <1>2, EmptyHasNone, NewImageIsUnset DEF MapsInv, MappedOnce
<1>11. CropInv'
  <2>1. img'.crops = 0 /\ img'.offset = 0 /\ img'.shift = 0 /\ img'.cfa = "none"
    BY <1>2, NewImageIsUnset
  <2>2. Never(todo', Crops, Crops \cup SetsCFA) /\ RightBefore(todo', "cropToSize", "noMoreCrops")
        /\ Lacks(todo', Metas)
    BY <1>2, EmptyIsFine
  <2> QED BY <2>1, <2>2 DEF CropInv
<1>12. CameraInv'
  BY <1>2, <1>5, EmptyHasNone DEF CameraInv
<1>13. PrecisionInv'
  BY <1>2, <1>5, EmptyHasNone, NewImageIsUnset DEF PrecisionInv, RawPending
<1>14. UnscaledInv'
  BY <1>2, <1>3, EmptyHasNone, NewImageIsUnset DEF UnscaledInv
<1>15. DbIsSensed' /\ ~Known'
  BY <1>2, <1>5, NewImageIsUnset DEF DbIsSensed, Known
<1>16. ArwInv' /\ OrfInv'
  BY <1>2, <1>15, EmptyHasNone, NewImageIsUnset DEF ArwInv, OrfInv
<1>17. Cr2Inv'
  BY <1>2, EmptyHasNone, NewImageIsUnset DEF Cr2Inv
<1>18. KodakInv'
  BY <1>2, <1>5, EmptyHasNone DEF KodakInv, RawPending
<1> QED BY <1>18, <1>8, <1>9, <1>10, <1>11, <1>12, <1>13, <1>14, <1>16, <1>17 DEF DecodingInv
-----------------------------------------------------------------------------
(* What lacks a step has it nowhere wrong. *)
LEMMA LacksIsFine ==
  ASSUME NEW w, NEW A, NEW B, NEW C, NEW now, Lacks(w, A)
  PROVE  Never(w, A, B) /\ Never(w, B, A) /\ Ready(now, w, A, B, C) /\ Outside(w, A)
  BY DEF Lacks, Never, Ready, Outside

LEMMA LacksOneIsFine ==
  ASSUME NEW w, NEW a, NEW b, Lacks(w, {a})
  PROVE  RightBefore(w, a, b) /\ AfterTry(w, a)
  BY DEF Lacks, RightBefore, AfterTry

(* What is so of any way of a call. *)
RawCall(w) == RawWay(w) /\ (AsksAfter(w) \/ (AskedEarly /\ Lacks(w, {"newImageOf3"})))
              /\ (dec.name = "Cr2Decoder" => ~Lacks(w, {"setPrecision"}))
              /\ (dec.name \in Kodak => IsMapped(w))

SupportCall(w) == SupportWay(w) /\ (AskedEarly => ~Lacks(w, {"cameraCFA"}))

MetaCall(w) ==
  /\ MetaWay(w)
  /\ dec.name = "ArwDecoder" => ArwLevels(w)
  /\ dec.name = "OrfDecoder" => OrfLevels(w)
  /\ dec.name = "Cr2Decoder" => Cr2Levels(w)
  /\ dec.name \notin {"ArwDecoder", "OrfDecoder", "Cr2Decoder"} => Lacks(w, Scalings)
  /\ dec.name \in Kodak => Lacks(w, {"caught", "applyCorrections"})

Called ==
  /\ todo = << >> /\ UNCHANGED << img, dec, camera, client, result >>
  /\ \/ calls = << "meta" >> /\ calls' = << >> /\ MetaCall(todo')
     \/ calls = << "raw", "meta" >> /\ calls' = << "meta" >> /\ RawCall(todo')
     \/ calls = << "support", "raw", "meta" >> /\ calls' = << "raw", "meta" >> /\ SupportCall(todo')
     \/ calls = << "meta", "support", "raw", "meta" >> /\ calls' = << "support", "raw", "meta" >> /\ MetaCall(todo')

LEMMA CallIsCalled ==
  ASSUME DecodingInv, Call
  PROVE  Called
<1>1. /\ todo = << >> /\ calls # << >> /\ todo' \in Ways(Head(calls)) /\ calls' = Tail(calls)
      /\ UNCHANGED << img, dec, camera, client, result >>
  BY DEF Call
<1>2. dec.name \in Names
  <2>1. dec.name \in Decoders \cup {"none"} /\ dec.name # "none"
    BY <1>1 DEF DecodingInv, CallsInv, DecodingType, DecoderType
  <2> QED BY <2>1, DecodersNamed
<1>3. calls \in CallsLeft
  BY DEF DecodingInv, CallsInv
<1>4. CASE calls = << "meta" >>
  <2>1. Head(calls) = "meta" /\ Tail(calls) = << >>
    BY <1>4
  <2>2. MetaCall(todo')
    BY <1>1, <1>2, <2>1, MetaWaysFit DEF MetaCall
  <2> QED BY <1>1, <1>4, <2>1, <2>2 DEF Called
<1>5. CASE calls = << "raw", "meta" >>
  <2>1. Head(calls) = "raw" /\ Tail(calls) = << "meta" >>
    BY <1>5
  <2>2. RawCall(todo')
    BY <1>1, <1>2, <2>1, RawWaysFit DEF RawCall
  <2> QED BY <1>1, <1>5, <2>1, <2>2 DEF Called
<1>6. CASE calls = << "support", "raw", "meta" >>
  <2>1. Head(calls) = "support" /\ Tail(calls) = << "raw", "meta" >>
    BY <1>6
  <2>2. SupportCall(todo')
    BY <1>1, <1>2, <2>1, SupportWaysFit DEF SupportCall
  <2> QED BY <1>1, <1>6, <2>1, <2>2 DEF Called
<1>7. CASE calls = << "meta", "support", "raw", "meta" >>
  <2>1. Head(calls) = "meta" /\ Tail(calls) = << "support", "raw", "meta" >>
    BY <1>7
  <2>2. MetaCall(todo')
    BY <1>1, <1>2, <2>1, MetaWaysFit DEF MetaCall
  <2> QED BY <1>1, <1>7, <2>1, <2>2 DEF Called
<1> QED BY <1>1, <1>3, <1>4, <1>5, <1>6, <1>7 DEF CallsLeft

(* What none of the ways of a call has, and what all of them have. *)
LEMMA RawCallLacks ==
  ASSUME NEW w, RawCall(w)
  PROVE  /\ Tame(w) /\ Lacks(w, Metas) /\ Lacks(w, Scalings) /\ Lacks(w, OtherLevels) /\ Lacks(w, {"caught"})
         /\ Lacks(w, {"whiteOfPrecision"}) /\ Lacks(w, {"setMetaData"})
<1>1. Lacks(w, MetaOnly) /\ Tame(w)
  BY DEF RawCall, RawWay
<1>2. /\ Metas \subseteq MetaOnly /\ Scalings \subseteq MetaOnly /\ OtherLevels \subseteq MetaOnly
      /\ {"caught"} \subseteq MetaOnly /\ {"whiteOfPrecision"} \subseteq MetaOnly /\ {"setMetaData"} \subseteq MetaOnly
  BY DEF MetaOnly, SetsDb, Metas
<1> QED BY <1>1, <1>2, LacksFewer

LEMMA SupportCallLacks ==
  ASSUME NEW w, SupportCall(w)
  PROVE  /\ Tame(w) /\ Lacks(w, Metas) /\ Lacks(w, Scalings) /\ Lacks(w, OtherLevels) /\ Lacks(w, {"caught"})
         /\ Lacks(w, {"whiteOfPrecision"}) /\ Lacks(w, {"setMetaData"}) /\ Lacks(w, RawOnly) /\ Lacks(w, {"askCFA"})
<1>1. Lacks(w, MetaOnly \cup RawOnly \cup {"askCFA"}) /\ Tame(w)
  BY DEF SupportCall, SupportWay
<1>2. Lacks(w, MetaOnly) /\ Lacks(w, RawOnly) /\ Lacks(w, {"askCFA"})
  BY <1>1, LacksBoth
<1>3. /\ Metas \subseteq MetaOnly /\ Scalings \subseteq MetaOnly /\ OtherLevels \subseteq MetaOnly
      /\ {"caught"} \subseteq MetaOnly /\ {"whiteOfPrecision"} \subseteq MetaOnly /\ {"setMetaData"} \subseteq MetaOnly
  BY DEF MetaOnly, SetsDb, Metas
<1> QED BY <1>1, <1>2, <1>3, LacksFewer

LEMMA RawOnlyLacks ==
  ASSUME NEW w, Lacks(w, RawOnly)
  PROVE  /\ Lacks(w, Maps) /\ Lacks(w, Maps \cup {"endCurve"}) /\ Lacks(w, {"curveAlways"}) /\ Lacks(w, {"cropToSize"})
  BY LacksFewer DEF RawOnly

(* Nothing of this is asked of a call before decodeMetaData(). *)
Levelless(w) ==
  /\ Lacks(w, Scalings) /\ Lacks(w, OtherLevels) /\ Lacks(w, {"whiteOfPrecision"}) /\ Lacks(w, {"setMetaData"})
  /\ Lacks(w, Metas)

LEMMA LevellessFits ==
  ASSUME NEW w, Levelless(w)
  PROVE  /\ Lacks(w, OtherLevels \cup (Scalings \ {"shiftLevels", "exifBlack", "exifWhite"}))
         /\ RightBefore(w, "setMetaData", "shiftLevels") /\ Never(w, {"shiftLevels"}, {"shiftLevels"})
         /\ Outside(w, {"setMetaData", "shiftLevels"})
         /\ Lacks(w, OtherLevels \cup (Scalings \ {"scale"})) /\ Never(w, {"scale"}, {"scale"})
         /\ Lacks(w, {"restoreLevels", "applyCorrections"} \cup (Scalings \ {"rescaleToPrecision", "shiftUpLevels"}))
         /\ Never(w, {"shiftUpLevels"}, {"shiftUpLevels", "whiteOfPrecision"}) /\ AfterTry(w, "whiteOfPrecision")
         /\ Ready(FALSE, w, {"rescaleToPrecision"}, {"canonLevels"}, {"caught"} \cup SetsDb)
         /\ Lacks(w, {"shiftUpLevels"})
         /\ Ready(FALSE, w, {"scale"}, {"fileSeparate"}, {"caught"} \cup SetsDb)
<1> DEFINE S == Scalings \cup OtherLevels \cup {"whiteOfPrecision"} \cup {"setMetaData"} \cup Metas
<1>1. Lacks(w, S)
  BY LacksBoth DEF Levelless
<1>2. /\ {"shiftLevels"} \subseteq S /\ {"setMetaData"} \subseteq S /\ {"setMetaData", "shiftLevels"} \subseteq S
      /\ {"scale"} \subseteq S /\ {"shiftUpLevels"} \subseteq S /\ {"whiteOfPrecision"} \subseteq S
      /\ {"rescaleToPrecision"} \subseteq S /\ {"restoreLevels"} \subseteq S
      /\ OtherLevels \cup (Scalings \ {"shiftLevels", "exifBlack", "exifWhite"}) \subseteq S
      /\ OtherLevels \cup (Scalings \ {"scale"}) \subseteq S
      /\ {"restoreLevels", "applyCorrections"} \cup (Scalings \ {"rescaleToPrecision", "shiftUpLevels"}) \subseteq S
  BY DEF Scalings, OtherLevels, Metas
<1> HIDE DEF S
<1>3. \A A : A \subseteq S => Lacks(w, A)
  BY <1>1, LacksFewer
<1>4. /\ Lacks(w, {"shiftLevels"}) /\ Lacks(w, {"setMetaData"}) /\ Lacks(w, {"setMetaData", "shiftLevels"})
      /\ Lacks(w, {"scale"}) /\ Lacks(w, {"shiftUpLevels"}) /\ Lacks(w, {"whiteOfPrecision"})
      /\ Lacks(w, {"rescaleToPrecision"})
      /\ Lacks(w, OtherLevels \cup (Scalings \ {"shiftLevels", "exifBlack", "exifWhite"}))
      /\ Lacks(w, OtherLevels \cup (Scalings \ {"scale"}))
      /\ Lacks(w, {"restoreLevels", "applyCorrections"} \cup (Scalings \ {"rescaleToPrecision", "shiftUpLevels"}))
  BY <1>2, <1>3
<1>5. RightBefore(w, "setMetaData", "shiftLevels") /\ AfterTry(w, "whiteOfPrecision")
  BY <1>4, LacksOneIsFine
<1>6. Never(w, {"shiftLevels"}, {"shiftLevels"}) /\ Never(w, {"scale"}, {"scale"})
      /\ Never(w, {"shiftUpLevels"}, {"shiftUpLevels", "whiteOfPrecision"})
  BY <1>4, LacksIsFine
<1>7. Outside(w, {"setMetaData", "shiftLevels"})
  BY <1>4, LacksIsFine
<1>8. /\ Ready(FALSE, w, {"rescaleToPrecision"}, {"canonLevels"}, {"caught"} \cup SetsDb)
      /\ Ready(FALSE, w, {"scale"}, {"fileSeparate"}, {"caught"} \cup SetsDb)
  BY <1>4, LacksIsFine
<1> QED BY <1>4, <1>5, <1>6, <1>7, <1>8

LEMMA CallHappens ==
  ASSUME DecodingInv, Called
  PROVE  /\ todo = << >> /\ img' = img /\ dec' = dec /\ camera' = camera /\ client' = client /\ result' = result
         /\ calls # << >> /\ calls' \in CallsLeft /\ calls' # << "meta", "support", "raw", "meta" >> /\ result = "none"
         /\ \/ MetaCall(todo') /\ ~RawPending /\ calls' = << >>
            \/ MetaCall(todo') /\ RawPending /\ client.fail /\ calls' = << "support", "raw", "meta" >>
            \/ RawCall(todo') /\ RawPending /\ calls = << "raw", "meta" >> /\ calls' = << "meta" >>
            \/ SupportCall(todo') /\ RawPending /\ calls' = << "raw", "meta" >>
<1>1. calls # << >>
  BY DEF Called
<1>2. result = "none"
  BY <1>1 DEF DecodingInv, CallsInv
<1>3. calls' \in CallsLeft /\ calls' # << "meta", "support", "raw", "meta" >>
  BY DEF Called, CallsLeft
<1>4. calls = << "meta", "support", "raw", "meta" >> => client.fail
  BY DEF DecodingInv, CallsInv
<1> QED BY <1>1, <1>2, <1>3, <1>4 DEF Called, RawPending

LEMMA CallMaps ==
  ASSUME DecodingInv, Called
  PROVE  MapsInv'
<1> DEFINE w == todo'
<1>1. /\ img' = img /\ dec' = dec /\ client' = client
      /\ (RawPending' => RawPending)
      /\ (RawCall(w) /\ RawPending) \/ Lacks(w, RawOnly)
  <2>1. RawPending' => RawPending
    BY CallHappens DEF RawPending
  <2>2. (RawCall(w) /\ RawPending) \/ Lacks(w, RawOnly)
    <3>1. MetaCall(w) => Lacks(w, RawOnly)
      BY DEF MetaCall, MetaWay
    <3>2. SupportCall(w) => Lacks(w, RawOnly)
      BY SupportCallLacks
    <3> HIDE DEF w
    <3> QED BY <3>1, <3>2, CallHappens DEF w
  <2> QED BY <2>1, <2>2, CallHappens
<1> HIDE DEF w
<1>2. MappedOnce' /\ (RawPending' => img'.mapped = 0 /\ img'.table # "plain")
  BY <1>1, CallHappens DEF DecodingInv, MapsInv, MappedOnce
<1>3. Never(w, Maps \cup {"endCurve"}, Maps)
  <2>1. CASE RawCall(w)
    BY <2>1 DEF RawCall, RawWay
  <2>2. CASE Lacks(w, RawOnly)
    BY <2>2, RawOnlyLacks, LacksIsFine
  <2> QED BY <1>1, <2>1, <2>2
<1>4. img.mapped # 0 \/ img.table = "plain" => Lacks(w, Maps)
  BY <1>1, RawOnlyLacks DEF DecodingInv, MapsInv
<1>5. Ready(~img.isCFA, w, {"curveAlways"}, {"notCFA"}, {"caught", "applyCorrections"})
  <2>1. CASE RawCall(w)
    <3>1. Ready(FALSE, w, {"curveAlways"}, {"notCFA"}, {"caught", "applyCorrections"})
      BY <2>1 DEF RawCall, RawWay
    <3>2. (~img.isCFA) \in BOOLEAN
      OBVIOUS
    <3> QED BY <3>1, <3>2, ReadyAhead
  <2>2. CASE Lacks(w, RawOnly)
    BY <2>2, RawOnlyLacks, LacksIsFine
  <2> QED BY <1>1, <2>1, <2>2
<1> QED BY <1>1, <1>2, <1>3, <1>4, <1>5 DEF MapsInv, w

LEMMA CallCrops ==
  ASSUME DecodingInv, Called
  PROVE  CropInv'
<1> DEFINE w == todo'
<1>1. /\ img' = img /\ dec' = dec /\ calls # << >> /\ todo = << >> /\ (RawPending' => RawPending)
      /\ Tame(w)
      /\ (RawCall(w) /\ RawPending) \/ Lacks(w, RawOnly)
      /\ Lacks(w, Metas) \/ calls' = << >> \/ client.fail
  <2>1. RawPending' => RawPending
    BY CallHappens DEF RawPending
  <2>2. MetaCall(w) => Lacks(w, RawOnly) /\ Tame(w)
    BY DEF MetaCall, MetaWay
  <2>3. SupportCall(w) => Lacks(w, RawOnly) /\ Tame(w) /\ Lacks(w, Metas)
    BY SupportCallLacks
  <2>4. RawCall(w) => Tame(w) /\ Lacks(w, Metas)
    BY RawCallLacks
  <2> HIDE DEF w
  <2> QED BY <2>1, <2>2, <2>3, <2>4, CallHappens DEF w
<1> HIDE DEF w
<1>2. Never(w, Crops, Crops \cup SetsCFA)
  BY <1>1 DEF Tame
<1>3. RightBefore(w, "cropToSize", "noMoreCrops")
  <2>1. CASE RawCall(w)
    BY <2>1 DEF RawCall, RawWay
  <2>2. CASE Lacks(w, RawOnly)
    BY <2>2, RawOnlyLacks, LacksOneIsFine
  <2> QED BY <1>1, <2>1, <2>2
<1>4. dec.crop => ~client.fail
  BY DEF DecodingInv, CallsInv
<1>5. img.crops # 0 => ~RawPending /\ ~dec.crop
  <2>1. ~At("noMoreCrops")
    BY <1>1 DEF At
  <2> QED BY <1>1, <2>1 DEF DecodingInv, CropInv
<1>6. img.crops # 0 => Lacks(w, {"cropToSize"})
  BY <1>1, <1>5, RawOnlyLacks
<1>7. img.offset = 0 /\ img.shift = 0 /\ img.crops <= 1
  BY <1>1 DEF DecodingInv, CropInv
<1> QED BY <1>1, <1>2, <1>3, <1>4, <1>5, <1>6, <1>7 DEF CropInv, w

LEMMA NothingUndoes ==
  ASSUME NEW w \in Seq(Steps), NEW A, NEW B, NEW C, NEW now, now, Lacks(w, C)
  PROVE  Ready(now, w, B, A, C)
<1>1. Len(w) \in Nat
  OBVIOUS
<1>2. ASSUME NEW k \in 1 .. Len(w) PROVE \A i \in 1 .. k - 1 : w[i] \notin C
  BY <1>1 DEF Lacks
<1> QED BY <1>2 DEF Ready

LEMMA CallCamera ==
  ASSUME DecodingInv, Called
  PROVE  CameraInv'
<1> DEFINE w == todo'
<1>1. /\ dec' = dec /\ (Coloured' <=> Coloured) /\ ((dec.mode \in DOMAIN camera)' <=> dec.mode \in DOMAIN camera)
      /\ (AskedEarly' <=> AskedEarly)
  BY CallHappens DEF Coloured, AllCFA, AskedEarly
<1>2. Tame(w)
  <2>1. MetaCall(w) => Tame(w)
    BY DEF MetaCall, MetaWay
  <2>2. SupportCall(w) => Tame(w)
    BY SupportCallLacks
  <2>3. RawCall(w) => Tame(w)
    BY RawCallLacks
  <2> HIDE DEF w
  <2> QED BY <2>1, <2>2, <2>3, CallHappens DEF w
<1>3. Ready((dec.mode \in DOMAIN camera)', w, AsksCamera, {"cameraOrRefuse"}, {"caught", "setMode"})
  <2> DEFINE now == (dec.mode \in DOMAIN camera)'
  <2>1. now \in BOOLEAN
    OBVIOUS
  <2> HIDE DEF now, w
  <2>2. Ready(FALSE, w, AsksCamera, {"cameraOrRefuse"}, {"caught", "setMode"})
    BY <1>2 DEF Tame
  <2>3. Ready(now, w, AsksCamera, {"cameraOrRefuse"}, {"caught", "setMode"})
    BY <2>1, <2>2, ReadyAhead
  <2> QED BY <2>3 DEF now
<1>4. Coloured' \in BOOLEAN
  BY DEF Coloured
<1>5. AsksAfter(w) => Ready(Coloured', w, {"askCFA"}, SetsCFA, {"caught", "newImageOf3"})
  <2> HIDE DEF w
  <2> QED BY <1>4, ReadyAhead DEF AsksAfter
<1>6. SupportCall(w) => Ready(Coloured', w, {"askCFA"}, SetsCFA, {"caught", "newImageOf3"})
  <2> HIDE DEF w
  <2> QED BY SupportCallLacks, LacksIsFine
<1>7. RawCall(w) /\ calls = << "raw", "meta" >> => Ready(Coloured', w, {"askCFA"}, SetsCFA, {"caught", "newImageOf3"})
  <2> SUFFICES ASSUME RawCall(w), calls = << "raw", "meta" >>, ~AsksAfter(w)
               PROVE  Ready(Coloured', w, {"askCFA"}, SetsCFA, {"caught", "newImageOf3"})
    BY <1>5
  <2>1. AskedEarly /\ Lacks(w, {"newImageOf3"})
    BY DEF RawCall
  <2>2. Lacks(w, {"caught"})
    BY RawCallLacks
  <2>3. Lacks(w, {"caught", "newImageOf3"})
    <3>1. {"caught", "newImageOf3"} = {"caught"} \cup {"newImageOf3"}
      OBVIOUS
    <3> QED BY <2>1, <2>2, <3>1, LacksBoth
  <2>4. Lacks(todo, {"cameraCFA"})
    BY CallHappens, EmptyHasNone
  <2>5. Coloured'
    BY <1>1, <2>1, <2>4 DEF DecodingInv, CameraInv
  <2>6. w \in Seq(Steps)
    BY <1>2 DEF Tame
  <2> HIDE DEF w
  <2> QED BY <2>3, <2>5, <2>6, NothingUndoes
<1>8. Ready(Coloured', w, {"askCFA"}, SetsCFA, {"caught", "newImageOf3"})
  <2>1. MetaCall(w) => AsksAfter(w)
    BY DEF MetaCall, MetaWay
  <2> HIDE DEF w
  <2> QED BY <1>5, <1>6, <1>7, <2>1, CallHappens DEF w
<1>9. ASSUME AskedEarly', calls' = << "raw", "meta" >> PROVE ~Lacks(w, {"cameraCFA"})
  <2>1. SupportCall(w)
    BY <1>9, CallHappens
  <2> QED BY <1>1, <1>9, <2>1 DEF SupportCall
<1> QED BY <1>3, <1>8, <1>9 DEF CameraInv, w

LEMMA CallLevels ==
  ASSUME DecodingInv, Called
  PROVE  ArwInv' /\ OrfInv' /\ Cr2Inv' /\ UnscaledInv'
<1> DEFINE w == todo'
<1>1. /\ img' = img /\ dec' = dec /\ (DbIsSensed' <=> DbIsSensed) /\ (OthersAreRescaled' <=> OthersAreRescaled)
  BY CallHappens DEF DbIsSensed, Sensed, OthersAreRescaled
<1>2. MetaCall(w) \/ (Levelless(w) /\ calls' # << >>)
  <2>1. RawCall(w) => Levelless(w)
    BY RawCallLacks DEF Levelless
  <2>2. SupportCall(w) => Levelless(w)
    BY SupportCallLacks DEF Levelless
  <2>3. MetaCall(w) \/ (RawCall(w) /\ calls' = << "meta" >>) \/ (SupportCall(w) /\ calls' = << "raw", "meta" >>)
    BY CallHappens
  <2> HIDE DEF w
  <2> QED BY <2>1, <2>2, <2>3, CallsDiffer
<1>3. OthersAreRescaled' \in BOOLEAN /\ SeparateIsOther' \in BOOLEAN
  BY DEF OthersAreRescaled, SeparateIsOther
<1>4. Known' => calls' = << >> /\ Lacks(w, {"setMetaData"})
  BY DEF Known
<1> HIDE DEF w
<1>5. ArwInv'
  <2> SUFFICES ASSUME dec.name = "ArwDecoder" PROVE ArwInv'
    BY <1>1 DEF ArwInv
  <2>1. DbIsSensed' /\ (img'.separate.from = "db" => img'.separate.scaled = 0)
    BY <1>1 DEF DecodingInv, ArwInv
  <2>2. ~Known'
    BY <1>2, <1>4 DEF MetaCall, ArwLevels
  <2>3. /\ Lacks(w, OtherLevels \cup (Scalings \ {"shiftLevels", "exifBlack", "exifWhite"}))
        /\ RightBefore(w, "setMetaData", "shiftLevels") /\ Never(w, {"shiftLevels"}, {"shiftLevels"})
        /\ Outside(w, {"setMetaData", "shiftLevels"})
    BY <1>2, LevellessFits DEF MetaCall, ArwLevels
  <2> QED BY <2>1, <2>2, <2>3 DEF ArwInv, w
<1>6. OrfInv'
  <2> SUFFICES ASSUME dec.name = "OrfDecoder" PROVE OrfInv'
    BY <1>1 DEF OrfInv
  <2>1. /\ DbIsSensed' /\ (img'.separate.from = "db" => img'.separate.scaled = 0)
        /\ img'.separate.from = "db" /\ img'.white.from = "db" => img'.white.scaled = 0
    BY <1>1 DEF DecodingInv, OrfInv
  <2>2. ~Known'
    BY <1>2, <1>4 DEF MetaCall, OrfLevels
  <2>3. Lacks(w, OtherLevels \cup (Scalings \ {"scale"})) /\ Never(w, {"scale"}, {"scale"})
    BY <1>2, LevellessFits DEF MetaCall, OrfLevels
  <2>4. Ready(FALSE, w, {"scale"}, {"fileSeparate"}, {"caught"} \cup SetsDb)
    BY <1>2, LevellessFits DEF MetaCall, OrfLevels
  <2>5. Ready(SeparateIsOther', w, {"scale"}, {"fileSeparate"}, {"caught"} \cup SetsDb)
    BY <1>3, <2>4, ReadyAhead
  <2> QED BY <2>1, <2>2, <2>3, <2>5 DEF OrfInv, w
<1>7. Cr2Inv'
  <2> SUFFICES ASSUME dec.name = "Cr2Decoder" PROVE Cr2Inv'
    BY <1>1 DEF Cr2Inv
  <2>1. Ready(FALSE, w, {"rescaleToPrecision"}, {"canonLevels"}, {"caught"} \cup SetsDb)
    BY <1>2, LevellessFits DEF MetaCall, Cr2Levels
  <2>2. Ready(OthersAreRescaled', w, {"rescaleToPrecision"}, {"canonLevels"}, {"caught"} \cup SetsDb)
    BY <1>3, <2>1, ReadyAhead
  <2>3. /\ Lacks(w, {"restoreLevels", "applyCorrections"} \cup (Scalings \ {"rescaleToPrecision", "shiftUpLevels"}))
        /\ Never(w, {"shiftUpLevels"}, {"shiftUpLevels", "whiteOfPrecision"}) /\ AfterTry(w, "whiteOfPrecision")
        /\ Lacks(w, {"shiftUpLevels"}) \/ ~Lacks(w, {"whiteOfPrecision"})
    BY <1>2, LevellessFits DEF MetaCall, Cr2Levels
  <2>4. /\ img.black.from = "db" => img.black.scaled = 0
        /\ img.white.from = "db" => img.white.scaled \in {0, 1}
        /\ img.separate.from = "db" => img.separate.scaled = 0
        /\ img.black.from = "db" \/ img.separate.from = "db" => (img.white.from = "db" => img.white.scaled = 0)
    BY DEF DecodingInv, Cr2Inv
  <2> QED BY <1>1, <2>2, <2>3, <2>4 DEF Cr2Inv, w
<1>8. UnscaledInv'
  <2> SUFFICES ASSUME dec.name \notin {"ArwDecoder", "OrfDecoder", "Cr2Decoder"} PROVE UnscaledInv'
    BY <1>1 DEF UnscaledInv
  <2>1. Lacks(w, Scalings)
    BY <1>2 DEF MetaCall, Levelless
  <2>2. \A level \in {img.black, img.white, img.separate, dec.kept.black, dec.kept.white} : level.scaled = 0
    BY DEF DecodingInv, UnscaledInv
  <2> QED BY <1>1, <2>1, <2>2 DEF UnscaledInv, w
<1> QED BY <1>5, <1>6, <1>7, <1>8

LEMMA CallPrecision ==
  ASSUME DecodingInv, Called
  PROVE  PrecisionInv'
<1> DEFINE w == todo'
<1>0. /\ img' = img /\ dec' = dec /\ todo = << >> /\ calls # << >> /\ result = "none"
      /\ \/ MetaCall(w) /\ ~RawPending /\ calls' = << >>
         \/ MetaCall(w) /\ RawPending /\ calls' = << "support", "raw", "meta" >>
         \/ RawCall(w) /\ RawPending /\ calls' = << "meta" >>
         \/ SupportCall(w) /\ RawPending /\ calls' = << "raw", "meta" >>
  BY CallHappens
<1> SUFFICES ASSUME dec.name = "Cr2Decoder"
             PROVE  /\ calls' = << "meta" >> => Lacks(w, {"rescaleToPrecision", "caught"})
                    /\ dec.precision = 0 =>
                         \/ RawPending' /\ ~img.allocated
                         \/ calls' = << "meta" >> /\ ~Lacks(w, {"setPrecision"})
  BY <1>0 DEF PrecisionInv
<1> HIDE DEF w
<1>1. RawCall(w) => Lacks(w, {"rescaleToPrecision", "caught"}) /\ ~Lacks(w, {"setPrecision"})
  <2>1. {"rescaleToPrecision", "caught"} \subseteq Scalings \cup {"caught"}
    BY DEF Scalings
  <2>2. RawCall(w) => Lacks(w, Scalings \cup {"caught"})
    BY RawCallLacks, LacksBoth
  <2>3. RawCall(w) => Lacks(w, {"rescaleToPrecision", "caught"})
    BY <2>1, <2>2, LacksFewer
  <2> QED BY <2>3 DEF RawCall
<1>2. Lacks(todo, {"setPrecision"})
  BY <1>0, EmptyHasNone
<1>3. dec.precision = 0 => RawPending /\ ~img.allocated
  BY <1>0, <1>2 DEF DecodingInv, PrecisionInv
<1>4. \/ calls' = << >> /\ ~RawPending
      \/ calls' = << "meta" >> /\ RawCall(w)
      \/ RawPending'
  BY <1>0, CallsDiffer DEF RawPending
<1>5. calls' = << "meta" >> => RawCall(w)
  BY <1>4, CallsDiffer DEF RawPending
<1> QED BY <1>1, <1>3, <1>4, <1>5

LEMMA CallKodak ==
  ASSUME DecodingInv, Called
  PROVE  KodakInv'
<1> DEFINE w == todo'
<1>0. /\ img' = img /\ dec' = dec /\ client' = client /\ todo = << >> /\ calls # << >> /\ result = "none"
      /\ \/ MetaCall(w) /\ ~RawPending
         \/ MetaCall(w) /\ RawPending /\ calls' = << "support", "raw", "meta" >>
         \/ RawCall(w) /\ calls' = << "meta" >>
         \/ SupportCall(w) /\ calls' = << "raw", "meta" >>
  BY CallHappens
<1> DEFINE now == img'.table # "none"
<1> SUFFICES ASSUME dec.name \in Kodak, ~client.uncorrected
             PROVE  /\ Lacks(w, {"caught", "newImageOf3", "applyCorrections"})
                    /\ Ready(now, w, {"decodeMapped"}, {"curve"}, {"endCurve"})
                    /\ \/ RawPending' \/ img.mapped # 0
                       \/ calls' = << "meta" >> /\ ~Lacks(w, {"decodeMapped"})
  BY <1>0 DEF KodakInv
<1>1. now \in BOOLEAN
  OBVIOUS
<1> HIDE DEF w, now
<1>2. {"caught", "newImageOf3", "applyCorrections"} = {"caught", "applyCorrections"} \cup {"newImageOf3"}
      /\ {"caught", "applyCorrections"} \subseteq {"caught"} \cup Metas
      /\ {"newImageOf3"} \subseteq RawOnly /\ {"decodeMapped"} \subseteq RawOnly
  BY DEF Metas, RawOnly, Maps
<1>3. ASSUME Lacks(w, {"caught"}), Lacks(w, Metas) PROVE Lacks(w, {"caught", "applyCorrections"})
  <2>1. Lacks(w, {"caught"} \cup Metas)
    BY <1>3, LacksBoth
  <2> QED BY <1>2, <2>1, LacksFewer
<1>4. Lacks(w, {"caught", "applyCorrections"})
  <2>1. RawCall(w) => Lacks(w, {"caught"}) /\ Lacks(w, Metas)
    BY RawCallLacks
  <2>2. SupportCall(w) => Lacks(w, {"caught"}) /\ Lacks(w, Metas)
    BY SupportCallLacks
  <2> QED BY <1>0, <1>3, <2>1, <2>2 DEF MetaCall
<1>5. (IsMapped(w) /\ RawCall(w)) \/ Lacks(w, RawOnly)
  <2>1. SupportCall(w) => Lacks(w, RawOnly)
    BY SupportCallLacks
  <2> QED BY <1>0, <2>1 DEF MetaCall, MetaWay, RawCall
<1>6. Lacks(w, {"newImageOf3"}) /\ Ready(now, w, {"decodeMapped"}, {"curve"}, {"endCurve"})
  <2>1. CASE IsMapped(w)
    BY <1>1, <2>1, ReadyAhead DEF IsMapped
  <2>2. CASE Lacks(w, RawOnly)
    <3>1. Lacks(w, {"newImageOf3"}) /\ Lacks(w, {"decodeMapped"})
      BY <1>2, <2>2, LacksFewer
    <3> QED BY <3>1, LacksIsFine
  <2> QED BY <1>5, <2>1, <2>2
<1>7. Lacks(w, {"caught", "newImageOf3", "applyCorrections"})
  BY <1>2, <1>4, <1>6, LacksBoth
<1>8. \/ RawPending' \/ img.mapped # 0
      \/ calls' = << "meta" >> /\ ~Lacks(w, {"decodeMapped"})
  <2>1. CASE ~RawPending
    <3>1. Lacks(todo, {"decodeMapped"}) /\ result \notin Exceptions
      BY <1>0, EmptyHasNone DEF Exceptions
    <3> QED BY <2>1, <3>1 DEF DecodingInv, KodakInv
  <2>2. CASE RawCall(w) /\ calls' = << "meta" >>
    BY <2>2 DEF RawCall, IsMapped
  <2> QED BY <1>0, <2>1, <2>2, CallsDiffer DEF RawPending
<1> QED BY <1>6, <1>7, <1>8

LEMMA CallKeeps ==
  ASSUME DecodingInv, Call
  PROVE  DecodingInv'
<1>1. Called
  BY CallIsCalled
<1> DEFINE w == todo'
<1>2. w \in Seq(Steps) /\ (calls' # << "meta" >> => Lacks(w, RawOnly))
  <2>1. MetaCall(w) => w \in Seq(Steps) /\ Lacks(w, RawOnly)
    BY DEF MetaCall, MetaWay, Tame
  <2>2. SupportCall(w) => w \in Seq(Steps) /\ Lacks(w, RawOnly)
    BY SupportCallLacks DEF Tame
  <2>3. RawCall(w) => w \in Seq(Steps)
    BY RawCallLacks DEF Tame
  <2> HIDE DEF w
  <2> QED BY <1>1, <2>1, <2>2, <2>3, CallHappens DEF w
<1>3. DecodingType'
  BY <1>1, <1>2, CallHappens DEF DecodingInv, DecodingType
<1>4. CallsInv'
  <2>1. dec.name # "none" /\ (dec.crop => ~client.fail)
    BY <1>1, CallHappens DEF DecodingInv, CallsInv
  <2> QED BY <1>1, <1>2, <2>1, CallHappens DEF CallsInv
<1> QED BY <1>1, <1>3, <1>4, CallMaps, CallCrops, CallCamera, CallPrecision, CallKodak, CallLevels DEF DecodingInv

(* What is thrown and caught. *)
LEMMA SkippedHadNone ==
  ASSUME NEW w \in Seq(Steps), NEW k \in 1 .. Len(w), w[k] = "caught", \A i \in 1 .. k - 1 : w[i] \notin {"try", "caught"},
         NEW A, NEW B, Outside(w, A), B \subseteq A, "caught" \notin B, Lacks(SubSeq(w, k + 1, Len(w)), B)
  PROVE  Lacks(w, B)
<1> DEFINE v == SubSeq(w, k + 1, Len(w))
<1>1. Len(v) = Len(w) - k /\ \A i \in 1 .. Len(w) - k : v[i] = w[k + i]
  BY SubSeqIsEnd
<1> HIDE DEF v
<1>2. ASSUME NEW j \in 1 .. Len(w), w[j] \in B PROVE FALSE
  <2>1. CASE j < k
    <3>1. PICK i \in j + 1 .. k - 1 : w[i] = "try"
      BY <1>2, <2>1 DEF Outside
    <3>2. i \in 1 .. k - 1
      OBVIOUS
    <3> QED BY <3>1, <3>2
  <2>2. CASE j = k
    BY <1>2, <2>2
  <2>3. CASE j > k
    <3>1. j - k \in 1 .. Len(w) - k /\ k + (j - k) = j
      BY <2>3
    <3>2. v[j - k] = w[j] /\ j - k \in 1 .. Len(v)
      BY <1>1, <3>1
    <3>3. Lacks(v, B)
      BY DEF v
    <3> QED BY <1>2, <3>2, <3>3 DEF Lacks
  <2> QED BY <2>1, <2>2, <2>3
<1> QED BY <1>2 DEF Lacks

LEMMA AfterTryIsKept ==
  ASSUME NEW w \in Seq(Steps), NEW k \in 1 .. Len(w), \A i \in 1 .. k - 1 : w[i] \notin {"try", "caught"},
         w[k] = "caught", NEW a, a # "caught", AfterTry(w, a), w[1] # a, ~Lacks(w, {a})
  PROVE  ~Lacks(SubSeq(w, k + 1, Len(w)), {a})
<1> DEFINE v == SubSeq(w, k + 1, Len(w))
<1>1. Len(v) = Len(w) - k /\ \A i \in 1 .. Len(w) - k : v[i] = w[k + i]
  BY SubSeqIsEnd
<1> HIDE DEF v
<1>2. PICK j \in 1 .. Len(w) : w[j] = a
  BY DEF Lacks
<1>3. j # 1 /\ j # k /\ w[j - 1] = "try"
  BY <1>2 DEF AfterTry
<1>4. j > k
  <2>1. j < k => j - 1 \in 1 .. k - 1
    BY <1>3
  <2> QED BY <1>3, <2>1
<1>5. j - k \in 1 .. Len(w) - k /\ k + (j - k) = j
  BY <1>4
<1>6. j - k \in 1 .. Len(v) /\ v[j - k] = a
  BY <1>1, <1>2, <1>5
<1>7. ~Lacks(v, {a})
  BY <1>6 DEF Lacks
<1> QED BY <1>7 DEF v

ThrownTo(k) ==
  /\ k \in 1 .. Len(todo) /\ todo[k] = "caught" /\ todo' = SubSeq(todo, k + 1, Len(todo))
  /\ \A i \in 1 .. k - 1 : todo[i] \notin {"try", "caught"}
  /\ dec.name \in {"KdcDecoder", "CrwDecoder", "ArwDecoder", "Cr2Decoder"}
  /\ todo # << >> /\ Head(todo) \notin CannotThrow
  /\ img' = img /\ dec' = dec /\ camera' = camera /\ client' = client /\ calls' = calls /\ result' = result

LEMMA CaughtSomewhere ==
  ASSUME NEW e, todo # << >>, Head(todo) \notin CannotThrow, Caught(e), UNCHANGED << calls, result >>
  PROVE  \E k \in 1 .. Len(todo) : ThrownTo(k)
<1>1. PICK k \in HandlerOf(e) : todo' = SubSeq(todo, k + 1, Len(todo))
  BY DEF Caught
<1>2. DOMAIN Tries = {"KdcDecoder", "CrwDecoder", "ArwDecoder", "Cr2Decoder"}
  BY DEF Tries
<1>3. /\ k \in 1 .. Len(todo) /\ dec.name \in DOMAIN Tries /\ todo[k] = "caught"
      /\ \A i \in 1 .. k - 1 : todo[i] \notin {"try", "caught"}
  BY <1>1 DEF HandlerOf
<1>4. ThrownTo(k)
  BY <1>1, <1>2, <1>3 DEF ThrownTo, Caught
<1> QED BY <1>3, <1>4

(* What is left of the call then. *)
LEMMA CaughtLeaves ==
  ASSUME DecodingType, NEW k, ThrownTo(k)
  PROVE  todo \in Seq(Steps) /\ EndOf(todo', todo) /\ todo' \in Seq(Steps) /\ ~Lacks(todo, {"caught"})
<1>1. todo \in Seq(Steps) /\ k \in 1 .. Len(todo)
  BY DEF ThrownTo, DecodingType
<1>2. EndOf(SubSeq(todo, k + 1, Len(todo)), todo)
  BY <1>1, SubSeqIsEnd
<1>3. ~Lacks(todo, {"caught"})
  BY <1>1 DEF ThrownTo, Lacks
<1> QED BY <1>1, <1>2, <1>3 DEF ThrownTo, EndOf

LEMMA CaughtKeepsMost ==
  ASSUME DecodingInv, NEW k, ThrownTo(k)
  PROVE  DecodingType' /\ CallsInv' /\ MapsInv' /\ CropInv' /\ PrecisionInv' /\ KodakInv' /\ UnscaledInv' /\ OrfInv'
<1>1. /\ img' = img /\ dec' = dec /\ camera' = camera /\ client' = client /\ calls' = calls /\ result' = result
      /\ todo # << >> /\ Head(todo) \notin CannotThrow
  BY DEF ThrownTo
<1>2. todo \in Seq(Steps) /\ EndOf(todo', todo) /\ todo' \in Seq(Steps) /\ ~Lacks(todo, {"caught"})
  BY CaughtLeaves DEF DecodingInv
<1>3. \A A : Lacks(todo, A) => Lacks(todo', A)
  BY <1>2, LacksInEnd
<1>4. DecodingType'
  BY <1>1, <1>2 DEF DecodingInv, DecodingType
<1>5. CallsInv'
  BY <1>1, <1>3 DEF DecodingInv, CallsInv
<1>6. MapsInv'
  <2>1. Never(todo', Maps \cup {"endCurve"}, Maps)
    BY <1>2, NeverInEnd DEF DecodingInv, MapsInv
  <2>2. Ready(~img.isCFA, todo', {"curveAlways"}, {"notCFA"}, {"caught", "applyCorrections"})
    <3> DEFINE now == ~img.isCFA
    <3>1. Ready(now, todo, {"curveAlways"}, {"notCFA"}, {"caught", "applyCorrections"})
      BY DEF DecodingInv, MapsInv
    <3>2. k \in 1 .. Len(todo) /\ todo[k] = "caught" /\ todo' = SubSeq(todo, k + 1, Len(todo))
      BY DEF ThrownTo
    <3>3. todo[k] \in {"caught", "applyCorrections"} /\ todo[k] \notin {"notCFA"}
      BY <3>2
    <3> HIDE DEF now
    <3>4. Ready(now, todo', {"curveAlways"}, {"notCFA"}, {"caught", "applyCorrections"})
      BY <1>2, <3>1, <3>2, <3>3, ReadyCaught
    <3> QED BY <3>4 DEF now
  <2>3. MappedOnce' /\ (RawPending' <=> RawPending)
    BY <1>1 DEF DecodingInv, MapsInv, MappedOnce, RawPending
  <2> QED BY <1>1, <1>3, <2>1, <2>2, <2>3 DEF DecodingInv, MapsInv
<1>7. CropInv'
  <2>1. Never(todo', Crops, Crops \cup SetsCFA) /\ RightBefore(todo', "cropToSize", "noMoreCrops")
    BY <1>2, NeverInEnd, RightBeforeInEnd DEF DecodingInv, CropInv
  <2>2. ~At("noMoreCrops") /\ (RawPending' <=> RawPending)
    BY <1>1 DEF At, CannotThrow, RawPending
  <2> QED BY <1>1, <1>3, <2>1, <2>2 DEF DecodingInv, CropInv
<1>8. PrecisionInv'
  <2>1. Lacks(todo, {"rescaleToPrecision", "caught"}) => Lacks(todo, {"caught"})
    BY LacksFewer
  <2>2. calls # << "meta" >> \/ dec.name # "Cr2Decoder"
    BY <1>2, <2>1 DEF DecodingInv, PrecisionInv
  <2> QED BY <1>1, <2>2 DEF DecodingInv, PrecisionInv, RawPending
<1>9. UnscaledInv'
  BY <1>1, <1>3 DEF DecodingInv, UnscaledInv
<1>10. OrfInv'
  BY <1>1 DEF ThrownTo, OrfInv
<1>11. KodakInv'
  BY <1>1 DEF ThrownTo, KodakInv, Kodak
<1> QED BY <1>11, <1>4, <1>5, <1>6, <1>7, <1>8, <1>9, <1>10

LEMMA CaughtKeeps ==
  ASSUME DecodingInv, NEW k, ThrownTo(k)
  PROVE  DecodingInv'
<1>1. /\ img' = img /\ dec' = dec /\ camera' = camera /\ client' = client /\ calls' = calls /\ result' = result
      /\ todo # << >> /\ Head(todo) \notin CannotThrow
      /\ dec.name \in {"KdcDecoder", "CrwDecoder", "ArwDecoder", "Cr2Decoder"}
  BY DEF ThrownTo
<1>2. todo \in Seq(Steps) /\ EndOf(todo', todo) /\ todo' \in Seq(Steps)
  BY CaughtLeaves DEF DecodingInv
<1>3. \A A : Lacks(todo, A) => Lacks(todo', A)
  BY <1>2, LacksInEnd
<1>4. /\ k \in 1 .. Len(todo) /\ todo[k] = "caught" /\ todo' = SubSeq(todo, k + 1, Len(todo))
      /\ \A i \in 1 .. k - 1 : todo[i] \notin {"try", "caught"}
  BY DEF ThrownTo
<1>5. CameraInv'
  <2>1. ~AskedEarly /\ (AskedEarly' <=> AskedEarly)
    BY <1>1 DEF AskedEarly
  <2>2. Ready((dec.mode \in DOMAIN camera)', todo', AsksCamera, {"cameraOrRefuse"}, {"caught", "setMode"})
    <3> DEFINE now == dec.mode \in DOMAIN camera
    <3>1. Ready(now, todo, AsksCamera, {"cameraOrRefuse"}, {"caught", "setMode"})
      BY DEF DecodingInv, CameraInv
    <3>2. todo[k] \in {"caught", "setMode"} /\ todo[k] \notin {"cameraOrRefuse"}
      BY <1>4
    <3>3. Ready(now', todo', AsksCamera, {"cameraOrRefuse"}, {"caught", "setMode"})
      <4> HIDE DEF now
      <4> QED BY <1>2, <1>4, <3>1, <3>2, ReadyCaught
    <3> QED BY <3>3
  <2>3. Ready(Coloured', todo', {"askCFA"}, SetsCFA, {"caught", "newImageOf3"})
    <3>1. Ready(Coloured, todo, {"askCFA"}, SetsCFA, {"caught", "newImageOf3"})
      BY DEF DecodingInv, CameraInv
    <3>2. todo[k] \in {"caught", "newImageOf3"} /\ todo[k] \notin SetsCFA
      BY <1>4 DEF SetsCFA
    <3> QED BY <1>2, <1>4, <3>1, <3>2, ReadyCaught
  <2> QED BY <2>1, <2>2, <2>3 DEF CameraInv
<1>6. ArwInv'
  <2> SUFFICES ASSUME dec.name = "ArwDecoder" PROVE ArwInv'
    BY <1>1 DEF ArwInv
  <2>1. /\ Lacks(todo, OtherLevels \cup (Scalings \ {"shiftLevels", "exifBlack", "exifWhite"}))
        /\ RightBefore(todo, "setMetaData", "shiftLevels")
        /\ Never(todo, {"shiftLevels"}, {"shiftLevels"})
        /\ Outside(todo, {"setMetaData", "shiftLevels"})
        /\ DbIsSensed
        /\ img.separate.from = "db" => img.separate.scaled = 0
    BY DEF DecodingInv, ArwInv
  <2>2. /\ Lacks(todo', OtherLevels \cup (Scalings \ {"shiftLevels", "exifBlack", "exifWhite"}))
        /\ RightBefore(todo', "setMetaData", "shiftLevels")
        /\ Never(todo', {"shiftLevels"}, {"shiftLevels"})
        /\ Outside(todo', {"setMetaData", "shiftLevels"})
    BY <1>2, <1>3, <2>1, RightBeforeInEnd, NeverInEnd, OutsideInEnd
  <2>3. DbIsSensed'
    BY <1>1, <2>1 DEF DbIsSensed, Sensed
  <2>4. Lacks(todo', {"setMetaData"}) => Lacks(todo, {"setMetaData"})
    <3>1. {"setMetaData"} \subseteq {"setMetaData", "shiftLevels"} /\ "caught" \notin {"setMetaData"}
      OBVIOUS
    <3> QED BY <1>2, <1>4, <2>1, <3>1, SkippedHadNone
  <2>5. Lacks(todo', {"shiftLevels"}) => Lacks(todo, {"shiftLevels"})
    <3>1. {"shiftLevels"} \subseteq {"setMetaData", "shiftLevels"} /\ "caught" \notin {"shiftLevels"}
      OBVIOUS
    <3> QED BY <1>2, <1>4, <2>1, <3>1, SkippedHadNone
  <2>6. Known' => Known
    BY <1>1, <2>4 DEF Known
  <2>7. Lacks(todo', {"shiftLevels"}) <=> Lacks(todo, {"shiftLevels"})
    BY <1>3, <2>5
  <2>8. Known => \A level \in {img.black, img.white} :
          level.from = "db" => level.scaled = IF Lacks(todo, {"shiftLevels"}) THEN dec.shift ELSE 0
    BY DEF DecodingInv, ArwInv
  <2> QED BY <1>1, <2>1, <2>2, <2>3, <2>6, <2>7, <2>8 DEF ArwInv
<1>7. Cr2Inv'
  <2> SUFFICES ASSUME dec.name = "Cr2Decoder" PROVE Cr2Inv'
    BY <1>1 DEF Cr2Inv
  <2>1. /\ Lacks(todo, {"restoreLevels", "applyCorrections"} \cup (Scalings \ {"rescaleToPrecision", "shiftUpLevels"}))
        /\ Never(todo, {"shiftUpLevels"}, {"shiftUpLevels", "whiteOfPrecision"})
        /\ AfterTry(todo, "whiteOfPrecision")
        /\ Ready(OthersAreRescaled, todo, {"rescaleToPrecision"}, {"canonLevels"}, {"caught"} \cup SetsDb)
        /\ img.black.from = "db" => img.black.scaled = 0
        /\ img.white.from = "db" => img.white.scaled \in {0, 1}
        /\ img.separate.from = "db" => img.separate.scaled = 0
        /\ img.black.from = "db" \/ img.separate.from = "db" => (img.white.from = "db" => img.white.scaled = 0)
        /\ img.white.from = "db" /\ img.white.scaled # 0 =>
             Lacks(todo, {"shiftUpLevels"}) \/ ~Lacks(todo, {"whiteOfPrecision"})
    BY DEF DecodingInv, Cr2Inv
  <2>2. /\ Lacks(todo', {"restoreLevels", "applyCorrections"} \cup (Scalings \ {"rescaleToPrecision", "shiftUpLevels"}))
        /\ Never(todo', {"shiftUpLevels"}, {"shiftUpLevels", "whiteOfPrecision"})
        /\ AfterTry(todo', "whiteOfPrecision")
    BY <1>2, <1>3, <2>1, NeverInEnd, AfterTryInEnd
  <2>3. Ready(OthersAreRescaled', todo', {"rescaleToPrecision"}, {"canonLevels"}, {"caught"} \cup SetsDb)
    <3>1. todo[k] \in {"caught"} \cup SetsDb /\ todo[k] \notin {"canonLevels"}
      BY <1>4
    <3> HIDE DEF OthersAreRescaled
    <3> QED BY <1>2, <1>4, <2>1, <3>1, ReadyCaught
  <2>4. ~Lacks(todo, {"whiteOfPrecision"}) => ~Lacks(todo', {"whiteOfPrecision"})
    <3>1. todo[1] # "whiteOfPrecision"
      BY <1>1, <1>2, TailIsEnd DEF CannotThrow
    <3> QED BY <1>2, <1>4, <2>1, <3>1, AfterTryIsKept
  <2> QED BY <1>1, <1>3, <2>1, <2>2, <2>3, <2>4 DEF Cr2Inv
<1> QED BY <1>5, <1>6, <1>7, CaughtKeepsMost DEF DecodingInv

(* What is thrown and not caught. *)
LEMMA EscapesKeeps ==
  ASSUME DecodingInv, todo # << >>, Escapes, calls' = << >>, result' \in Exceptions
  PROVE  DecodingInv'
<1>1. /\ img' = Unguarded(img, dec.guard) /\ dec' = [dec EXCEPT !.guard = "none"] /\ todo' = << >>
      /\ camera' = camera /\ client' = client
  BY DEF Escapes
<1>2. dec \in DecoderType /\ img \in ImageType /\ dec.guard \in {"none", "curve", "kept"}
  BY DEF DecodingInv, DecodingType, DecoderType
<1>3. /\ dec' \in DecoderType /\ dec'.guard = "none" /\ dec'.name = dec.name /\ dec'.crop = dec.crop
      /\ dec'.kept = dec.kept /\ dec'.mode = dec.mode /\ dec'.special = dec.special /\ dec'.precision = dec.precision
  BY <1>1, <1>2 DEF DecoderType
<1>4. /\ img' \in ImageType /\ img'.isCFA = img.isCFA /\ img'.mapped = img.mapped /\ img'.crops = img.crops
      /\ img'.cfa = img.cfa /\ img'.shift = img.shift /\ img'.offset = img.offset /\ img'.black = img.black
      /\ img'.white = img.white /\ img'.separate = img.separate
      /\ img'.table = IF dec.guard = "curve" THEN "none" ELSE IF dec.guard = "kept" THEN "plain" ELSE img.table
  BY <1>1, <1>2, UnguardedType
<1>5. DecodingType'
  BY <1>1, <1>3, <1>4, NothingLeft DEF DecodingInv, DecodingType
<1>6. dec.name # "none" /\ result' # "none"
  BY DEF DecodingInv, CallsInv, Exceptions
<1>7. CallsInv'
  <2>1. dec.crop => ~client.fail
    BY DEF DecodingInv, CallsInv
  <2>2. << >> \in CallsLeft /\ << >> # << "meta", "support", "raw", "meta" >>
    BY DEF CallsLeft
  <2> QED BY <1>1, <1>3, <1>6, <2>1, <2>2, EmptyHasNone DEF CallsInv
<1>8. MapsInv'
  <2>1. /\ img.mapped <= 1 /\ (dec.guard = "none" => img.table # "dither")
        /\ (client.uncorrected /\ img.isCFA => img.mapped = 0 /\ img.table # "dither")
    BY DEF DecodingInv, MapsInv, MappedOnce
  <2>2. MappedOnce'
    <3>1. result' # "image"
      BY DEF Exceptions
    <3> QED BY <1>1, <1>2, <1>3, <1>4, <2>1, <3>1 DEF MappedOnce
  <2>3. ~RawPending'
    BY DEF RawPending
  <2>4. Never(todo', Maps \cup {"endCurve"}, Maps) /\ Lacks(todo', Maps)
    BY <1>1, EmptyIsFine
  <2>5. Ready(~img'.isCFA, todo', {"curveAlways"}, {"notCFA"}, {"caught", "applyCorrections"})
    BY <1>1, EmptyHasNone
  <2> QED BY <2>2, <2>3, <2>4, <2>5 DEF MapsInv
<1>9. CropInv'
  <2>1. Never(todo', Crops, Crops \cup SetsCFA) /\ RightBefore(todo', "cropToSize", "noMoreCrops") /\ Lacks(todo', Metas)
        /\ Lacks(todo', {"cropToSize"}) /\ Lacks(todo', Crops \cup SetsCFA)
    BY <1>1, EmptyIsFine
  <2>2. ~RawPending'
    BY DEF RawPending
  <2>3. /\ img.crops <= 1
        /\ img.isCFA /\ img.cfa # "none" => img.shift = img.offset
        /\ img.shift # 0 => img.offset # 0
    BY DEF DecodingInv, CropInv
  <2> QED BY <1>4, <2>1, <2>2, <2>3 DEF CropInv
<1>10. CameraInv'
  <2>1. calls' # << "raw", "meta" >>
    BY CallsDiffer
  <2>2. Ready((dec.mode \in DOMAIN camera)', todo', AsksCamera, {"cameraOrRefuse"}, {"caught", "setMode"})
        /\ Ready(Coloured', todo', {"askCFA"}, SetsCFA, {"caught", "newImageOf3"})
    BY <1>1, EmptyHasNone
  <2> QED BY <2>1, <2>2 DEF CameraInv
<1>11. PrecisionInv'
  BY <1>1, <1>6, EmptyHasNone DEF PrecisionInv
<1>12. UnscaledInv'
  BY <1>1, <1>3, <1>4, EmptyHasNone DEF DecodingInv, UnscaledInv
<1>13. ~Known' /\ (DbIsSensed' <=> DbIsSensed)
  BY <1>1, <1>4 DEF Known, DbIsSensed, Sensed
<1>14. ArwInv' /\ OrfInv'
  BY <1>1, <1>3, <1>4, <1>13, EmptyHasNone DEF DecodingInv, ArwInv, OrfInv
<1>15. Cr2Inv'
  BY <1>1, <1>3, <1>4, EmptyHasNone DEF DecodingInv, Cr2Inv
<1>16. KodakInv'
  BY <1>1, EmptyHasNone DEF KodakInv
<1> QED BY <1>16, <1>5, <1>7, <1>8, <1>9, <1>10, <1>11, <1>12, <1>14, <1>15 DEF DecodingInv

LEMMA ThrowKeeps ==
  ASSUME DecodingInv, NEW e \in Exceptions, Throw(e)
  PROVE  DecodingInv'
<1>1. todo # << >> /\ Head(todo) \notin CannotThrow
  BY DEF Throw
<1>2. CASE HandlerOf(e) # {}
  <2>1. Caught(e) /\ UNCHANGED << calls, result >>
    BY <1>2 DEF Throw
  <2>2. PICK k \in 1 .. Len(todo) : ThrownTo(k)
    BY <1>1, <2>1, CaughtSomewhere
  <2> QED BY <2>2, CaughtKeeps
<1>3. CASE HandlerOf(e) = {}
  <2>1. Escapes /\ result' = AsRDE(e) /\ calls' = << >>
    BY <1>3 DEF Throw
  <2>2. result' \in Exceptions
    BY <2>1 DEF AsRDE, Exceptions
  <2> QED BY <1>1, <2>1, <2>2, EscapesKeeps
<1> QED BY <1>2, <1>3

LEMMA DecodingKept == Spec => []DecodingInv
<1>1. Init => DecodingInv
  BY StartsDecoding
<1>2. DecodingInv /\ [Next]_vars => DecodingInv'
  <2> SUFFICES ASSUME DecodingInv, [Next]_vars PROVE DecodingInv'
    OBVIOUS
  <2>1. CASE Parsing
    BY <2>1, SameKeeps DEF Parsing, decoding
  <2>2. ASSUME made \in Decoders, dec.name = "none", NEW tool \in Tools, NEW uncorrected \in BOOLEAN,
               NEW special \in BOOLEAN, NEW cam \in Cameras, NEW precision \in Indeterminate,
               Open(tool, uncorrected, cam, special, precision)
        PROVE  DecodingInv'
    BY <2>2, OpenKeeps
  <2>3. CASE Call
    BY <2>3, CallKeeps
  <2>4. CASE Step
    BY <2>4, StepKeeps
  <2>5. CASE Delivered
    BY <2>5, SameKeeps DEF Delivered, decoding
  <2>6. ASSUME NEW e \in Exceptions, Throw(e) PROVE DecodingInv'
    BY <2>6, ThrowKeeps
  <2>7. CASE UNCHANGED vars
    BY <2>7, SameKeeps DEF vars, decoding
  <2> QED BY <2>1, <2>2, <2>3, <2>4, <2>5, <2>6, <2>7 DEF Next
<1> QED BY <1>1, <1>2, PTL DEF Spec

LEMMA CallsAre == CallsLeft \subseteq Seq({"support", "raw", "meta"})
<1> DEFINE Calls == {"support", "raw", "meta"}
           n == << >>
           m == << "meta" >>
           r == << "raw", "meta" >>
           s == << "support", "raw", "meta" >>
           w == << "meta", "support", "raw", "meta" >>
<1>1. n \in Seq(Calls) /\ m \in Seq(Calls) /\ r \in Seq(Calls) /\ s \in Seq(Calls) /\ w \in Seq(Calls)
  OBVIOUS
<1>2. CallsLeft = {n, m, r, s, w}
  BY DEF CallsLeft
<1> HIDE DEF Calls, n, m, r, s, w
<1>3. CallsLeft \subseteq Seq(Calls)
  BY <1>1, <1>2
<1> QED BY <1>3 DEF Calls

(* What the decoders have, and what the image is, is of its type, whatever is thrown between
   two steps of RawDecoder and of the client that calls it.                          *)
THEOREM PipelineTypes == Spec => []TypeOK
<1>1. DecodingInv /\ PInv /\ PlacesInv => TypeOK
  <2> SUFFICES ASSUME DecodingInv, PInv, PlacesInv PROVE TypeOK
    OBVIOUS
  <2>1. TreeTypeOK
    BY ParserTypes
  <2>2. camera \in Cameras \cup {NoCamera} /\ dec.name \in Decoders \cup {"none"}
        /\ result \in Exceptions \cup {"none", "image"}
    BY DEF DecodingInv, DecodingType, DecoderType, CallsInv
  <2>3. ToSet(calls) \subseteq {"support", "raw", "meta"}
    <3>1. calls \in CallsLeft
      BY DEF DecodingInv, CallsInv
    <3>2. calls \in Seq({"support", "raw", "meta"})
      BY <3>1, CallsAre
    <3>3. ASSUME NEW c \in ToSet(calls) PROVE c \in {"support", "raw", "meta"}
      <4>1. PICK k \in DOMAIN calls : calls[k] = c
        BY <3>3 DEF ToSet
      <4> QED BY <3>2, <4>1
    <3> QED BY <3>3
  <2>4. /\ img.cfa \in {"none", "file", "db"} /\ img.table \in {"none", "plain", "dither"}
        /\ img.shift \in {0, 1} /\ img.offset \in {0, 1} /\ img.crops \in Nat /\ img.mapped \in Nat
        /\ img.black \in LevelType /\ img.white \in LevelType /\ img.separate \in LevelType
    BY DEF DecodingInv, DecodingType, ImageType
  <2>5. /\ img.black.from \in {"unset", "file", "exif", "db"} /\ img.white.from \in {"unset", "file", "exif", "db"}
        /\ img.separate.from \in {"unset", "file", "exif", "db"}
    BY <2>4 DEF LevelType
  <2> QED BY <2>1, <2>2, <2>3, <2>4, <2>5 DEF TypeOK
<1> QED BY <1>1, PipelineKeeps, PlacesKept, DecodingKept, PTL

(* Whatever is thrown between curve and endCurve, and whoever catches it: no sample goes
   through a table twice, the dithering table does not outlive RawImageCurveGuard, and a client
   that wants no corrections is given none of a CFA.  A finished image of the Kodak formats of
   DcrDecoder and DcsDecoder has gone through its curve, where corrections are wanted; of the
   other decoders it is not said that one has (RawImage.h, AbstractTiffDecoder.h,
   NefDecoder.cpp: DecodeNikonSNef(), DcrDecoder.cpp, DcsDecoder.cpp).               *)
THEOREM MapsHold == Spec => []MappedOnce
<1>1. DecodingInv => MappedOnce
  BY DEF DecodingInv, MapsInv
<1> QED BY <1>1, DecodingKept, PTL

(* Whichever decoder and whichever camera it is, and whether or not the metadata was decoded
   first: who asks for the colour of a sample is told one if cameras.xml has them all, the CFA
   is that of the image as it was cropped, and it was cropped once (RawDecoder.cpp:
   setMetaData(), ArwDecoder.cpp, RafDecoder.cpp: applyCorrections()).               *)
THEOREM ColoursHold == Spec => []CfaIsRight
<1>1. DecodingInv => CfaIsRight
  <2> SUFFICES ASSUME DecodingInv PROVE CfaIsRight
    OBVIOUS
  <2>1. Coloured \in BOOLEAN
    BY DEF Coloured
  <2>2. todo \in Seq(Steps) /\ Ready(Coloured, todo, {"askCFA"}, SetsCFA, {"caught", "newImageOf3"})
    BY DEF DecodingInv, DecodingType, CameraInv
  <2>3. At("askCFA") => Coloured
    BY <2>1, <2>2, ReadyNow DEF At
  <2>4. (img.isCFA /\ img.cfa # "none" => img.shift = img.offset) /\ img.crops <= 1
    BY DEF DecodingInv, CropInv
  <2> QED BY <2>3, <2>4 DEF CfaIsRight, Coloured, AllCFA
<1> QED BY <1>1, DecodingKept, PTL

(* Whichever of the levels of cameras.xml, of the file and of the Exif came last, and whatever
   was thrown in decodeMetaData() and caught there, of a client that decodes first or asks for
   the metadata first: those of cameras.xml are scaled once at most, the white, the black and
   the separate black levels alike, but for the separate ones of an ARW file; an ARW's white
   and black as its samples were; and no level of a CR2 file that has samples is scaled by a
   precision that nobody has set (ArwDecoder.cpp, OrfDecoder.cpp, Cr2Decoder.cpp).    *)
THEOREM LevelsHold == Spec => []LevelsScaledOnce
<1>1. DecodingInv => LevelsScaledOnce
  <2> SUFFICES ASSUME DecodingInv PROVE LevelsScaledOnce
    OBVIOUS
  <2>t. /\ img \in ImageType /\ dec \in DecoderType /\ todo \in Seq(Steps)
        /\ img.black \in LevelType /\ img.white \in LevelType /\ img.separate \in LevelType
    BY DEF DecodingInv, DecodingType, ImageType
  <2>1. ASSUME At("rescaleToPrecision"), img.allocated PROVE 14 - dec.precision \in 0 .. 12
    <3>1. \A A : Lacks(todo, A) => "rescaleToPrecision" \notin A
      BY <2>t, <2>1, LacksNow DEF At
    <3>2. dec.name = "Cr2Decoder"
      BY <3>1 DEF DecodingInv, UnscaledInv, ArwInv, OrfInv, Scalings
    <3>3. dec.precision # 0
      <4>1. todo # << >> /\ calls # << "meta" >>
        BY <2>1, <3>1, <3>2 DEF DecodingInv, PrecisionInv, At
      <4> QED BY <2>1, <3>2, <4>1 DEF DecodingInv, PrecisionInv
    <3>4. dec.precision \in {0, 12, 14}
      BY <2>t DEF DecoderType, Indeterminate
    <3> QED BY <3>3, <3>4
  <2>2. ASSUME result = "image"
        PROVE  /\ \A level \in {img.black, img.white, img.separate} : level.from = "db" => level.scaled <= 1
               /\ img.black.from = "db" /\ img.white.from = "db" =>
                    /\ img.black.scaled = img.white.scaled
                    /\ dec.name = "ArwDecoder" => img.white.scaled = dec.shift
               /\ img.separate.from = "db" /\ img.white.from = "db" =>
                    img.separate.scaled = IF dec.name = "ArwDecoder" THEN 0 ELSE img.white.scaled
    <3>1. calls = << >> /\ todo = << >> /\ result \notin Exceptions
      BY <2>2 DEF DecodingInv, CallsInv, Exceptions
    <3>2. Known /\ \A A : Lacks(todo, A)
      BY <3>1, EmptyHasNone DEF Known
    <3>3. CASE dec.name = "ArwDecoder"
      <4>1. \A level \in {img.black, img.white} : level.from = "db" => level.scaled = dec.shift
        BY <3>2, <3>3 DEF DecodingInv, ArwInv
      <4>2. dec.shift \in {0, 1}
        BY <2>t DEF DecoderType
      <4>3. img.separate.from = "db" => img.separate.scaled = 0
        BY <3>3 DEF DecodingInv, ArwInv
      <4> QED BY <3>3, <4>1, <4>2, <4>3
    <3>4. CASE dec.name = "OrfDecoder"
      BY <3>2, <3>4 DEF DecodingInv, OrfInv
    <3>5. CASE dec.name = "Cr2Decoder"
      BY <3>5 DEF DecodingInv, Cr2Inv
    <3>6. CASE dec.name \notin {"ArwDecoder", "OrfDecoder", "Cr2Decoder"}
      BY <3>6 DEF DecodingInv, UnscaledInv
    <3> QED BY <3>3, <3>4, <3>5, <3>6
  <2> QED BY <2>1, <2>2 DEF LevelsScaledOnce
<1> QED BY <1>1, DecodingKept, PTL
===============================================================================
