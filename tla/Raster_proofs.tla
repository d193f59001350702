---------------------------- MODULE Raster_proofs ----------------------------
(* Proofs about Raster.  First, for any decompressor: if the plan of each job it accepts
   is bounded, and sound when the job's data is what it is trusted to be, which is about the
   plan alone, then every interleaving of its slices keeps the four invariants
   (PlansSuffice).  Then most plans are plain, for which soundness is that the
   writes are apart and cover the image, that inputs are apart and inside the buffer, and
   that a step reads what its slice has written (PlainIsSound).  At last, decompressor by
   decompressor, that its loops make such a plan for images of every size.
   What needs induction over data, as sequences put one behind the other, is proved
   from the least element that a set of natural numbers has.                       *)
EXTENDS Raster, Decompressors, WellFoundedInduction, TLAPS

(* Induction on data, without an operator as a parameter: a set of natural numbers that
   is not empty has a least element, and so a set with 0 in it and with n + 1 whenever n
   is in it has all of them.                                                      *)
LEMMA LeastNatural ==
  ASSUME NEW S \in SUBSET Nat, S # {}
  PROVE  \E n \in S : \A m \in S : n <= m
<1> DEFINE R == OpToRel(<, Nat)
<1>1. \E n \in S : \A m \in S : <<m, n>> \notin R
  <2>1. IsWellFoundedOn(R, Nat)
    BY NatLessThanWellFounded
  <2> HIDE DEF R
  <2> QED BY <2>1, WFMin
<1>2. R = {p \in Nat \X Nat : p[1] < p[2]}
  BY DEF OpToRel
<1> HIDE DEF R
<1>3. \A m, n \in Nat : m < n => <<m, n>> \in R
  BY <1>2
<1>4. PICK n \in S : \A m \in S : <<m, n>> \notin R
  BY <1>1
<1>5. \A m \in S : n <= m
  <2> TAKE m \in S
  <2>1. m \in Nat /\ n \in Nat
    OBVIOUS
  <2>2. ~(m < n)
    BY <1>3, <1>4, <2>1
  <2> QED BY <2>1, <2>2
<1> QED BY <1>4, <1>5

LEMMA AllNaturals ==
  ASSUME NEW S, 0 \in S, \A n \in Nat : n \in S => n + 1 \in S
  PROVE  Nat \subseteq S
<1> DEFINE Others == {n \in Nat : n \notin S}
<1> SUFFICES ASSUME Others # {} PROVE FALSE
  OBVIOUS
<1>1. PICK n \in Others : \A m \in Others : n <= m
  BY LeastNatural
<1>2. n # 0 /\ n - 1 \in Nat /\ n - 1 \notin Others
  BY <1>1
<1> QED BY <1>1, <1>2

(* The same up to a bound.                                                        *)
LEMMA AllUpTo ==
  ASSUME NEW n \in Nat, NEW S, 0 \in S, \A k \in 0 .. n - 1 : k \in S => k + 1 \in S
  PROVE  0 .. n \subseteq S
<1> DEFINE T == S \cup {k \in Nat : k > n}
<1>1. \A k \in Nat : k \in T => k + 1 \in T
  OBVIOUS
<1>2. Nat \subseteq T
  <2>1. 0 \in T
    OBVIOUS
  <2> HIDE DEF T
  <2> QED BY <1>1, <2>1, AllNaturals
<1> QED BY <1>2

(* There is a function for a recursion on 0 .. n.                                  *)
Recurs(g, n, d, G) == g[0] = d /\ \A k \in 1 .. n : g[k] = G[<<k, g[k - 1]>>]

LEMMA Recursion ==
  ASSUME NEW n \in Nat, NEW D, NEW d \in D, NEW G \in [(1 .. n) \X D -> D]
  PROVE  \E g \in [0 .. n -> D] : Recurs(g, n, d, G)
<1> DEFINE Upto(m) == \E g \in [0 .. m -> D] : g[0] = d /\ \A k \in 1 .. m : g[k] = G[<<k, g[k - 1]>>]
           S == {m \in 0 .. n : Upto(m)}
<1>1. 0 \in S
  <2>1. Upto(0)
    <3> DEFINE g == [k \in 0 .. 0 |-> d]
    <3>1. g \in [0 .. 0 -> D] /\ g[0] = d /\ \A k \in 1 .. 0 : g[k] = G[<<k, g[k - 1]>>]
      OBVIOUS
    <3> HIDE DEF g
    <3> QED BY <3>1
  <2> QED BY <2>1
<1>2. ASSUME NEW m \in 0 .. n - 1, m \in S PROVE m + 1 \in S
  <2>1. PICK g \in [0 .. m -> D] : g[0] = d /\ \A k \in 1 .. m : g[k] = G[<<k, g[k - 1]>>]
    BY <1>2
  <2> DEFINE h == [k \in 0 .. m + 1 |-> IF k <= m THEN g[k] ELSE G[<<m + 1, g[m]>>]]
  <2>2. G[<<m + 1, g[m]>>] \in D
    BY <2>1
  <2>3. h \in [0 .. m + 1 -> D]
    BY <2>1, <2>2
  <2>4. h[0] = d
    BY <2>1
  <2>5. \A k \in 1 .. m + 1 : h[k] = G[<<k, h[k - 1]>>]
    <3> TAKE k \in 1 .. m + 1
    <3>1. CASE k <= m
      <4>1. h[k] = g[k] /\ h[k - 1] = g[k - 1] /\ k \in 1 .. m
        BY <3>1
      <4> HIDE DEF h
      <4> QED BY <2>1, <4>1
    <3>2. CASE k = m + 1
      <4>1. h[k] = G[<<m + 1, g[m]>>] /\ h[k - 1] = g[m]
        BY <3>2
      <4> HIDE DEF h
      <4> QED BY <3>2, <4>1
    <3> QED BY <3>1, <3>2
  <2> HIDE DEF h
  <2>6. Upto(m + 1)
    BY <2>3, <2>4, <2>5
  <2> HIDE DEF Upto
  <2> QED BY <2>6
<1> HIDE DEF S
<1>3. 0 .. n \subseteq S
  BY <1>1, <1>2, AllUpTo
<1> QED BY <1>3 DEF S, Recurs
LEMMA TypedUpTo ==
  ASSUME NEW n \in Nat, NEW D, NEW f, f[0] \in D,
         \A k \in 1 .. n : f[k - 1] \in D => f[k] \in D
  PROVE  \A k \in 0 .. n : f[k] \in D
<1> DEFINE S == {k \in 0 .. n : f[k] \in D}
<1>1. 0 \in S
  OBVIOUS
<1>2. \A k \in 0 .. n - 1 : k \in S => k + 1 \in S
  <2> TAKE k \in 0 .. n - 1
  <2>1. k + 1 \in 1 .. n /\ (k + 1) - 1 = k
    OBVIOUS
  <2> QED BY <2>1
<1>3. 0 .. n \subseteq S
  <2> HIDE DEF S
  <2> QED BY <1>1, <1>2, AllUpTo
<1> QED BY <1>3
-----------------------------------------------------------------------------
(* The plan of a job.  What is right about it does not depend on the order in which the
   slices proceed: it is a matter of the sequence of steps of each of them.
   `Owned(slice)[k]` are the cells a slice has content of its own in after k steps, if
   nobody else changes them; a cell that was copied is the slice's if its source was.   *)
Area(slice) == UNION {Touched(slice[k]) : k \in DOMAIN slice}

After(step, owned) ==
  step.writes \cup (owned \ (step.drops \cup DOMAIN step.copies)) \cup
  {c \in DOMAIN step.copies \ step.drops : step.copies[c] \in owned}

Owned(slice) ==
  LET owned[k \in 0 .. Len(slice)] == IF k = 0 THEN {} ELSE After(slice[k], owned[k - 1])
  IN  owned

IsSlice(slice) == Len(slice) \in Nat /\ DOMAIN slice = 1 .. Len(slice)

(* Threads that decode slices share no cell, and no input.                          *)
Apart(plan) == \A s, t \in DOMAIN plan : s # t => Area(plan[s]) \cap Area(plan[t]) = {}

TakesApart(plan) ==
  \A s, t \in DOMAIN plan : \A k \in DOMAIN plan[s], l \in DOMAIN plan[t] :
    <<s, k>> # <<t, l>> => plan[s][k].takes \cap plan[t][l].takes = {}

StepIsSound(j, step, before) ==
  /\ Touched(step) \subseteq Cells(j) /\ step.loads \subseteq Samples(j.source)
  /\ step.reads \subseteq before
  /\ step.writes \cap Samples(j) \cap before = {}
  /\ step.takes \subseteq 0 .. j.size - 1

SliceIsSound(j, slice) ==
  \A k \in DOMAIN slice : StepIsSound(j, slice[k], Owned(slice)[k - 1])

Covers(j, plan) ==
  \A p \in Samples(j) : \E s \in DOMAIN plan : p \in Owned(plan[s])[Len(plan[s])]

Sound(j) ==
  /\ 0 \notin DOMAIN Work(j)
  /\ \A s \in DOMAIN Work(j) : IsSlice(Work(j)[s]) /\ SliceIsSound(j, Work(j)[s])
  /\ Apart(Work(j)) /\ TakesApart(Work(j)) /\ Covers(j, Work(j))

(* What is so whatever the data of a job is: slices are sequences of steps, and no step
   touches what is not there.                                                       *)
IsBounded(j, slice) ==
  \A k \in DOMAIN slice : Touched(slice[k]) \subseteq Cells(j) /\ slice[k].loads \subseteq Samples(j.source)

Bounded(j, plan) == \A s \in DOMAIN plan : IsSlice(plan[s]) /\ IsBounded(j, plan[s])

PlansAreSound ==
  \A j \in Jobs : Accepts(j) => Bounded(j, Work(j)) /\ (Trusted(j) => Sound(j))

LEMMA SoundIsBounded == ASSUME NEW j, Sound(j) PROVE Bounded(j, Work(j))
BY DEF Sound, SliceIsSound, StepIsSound, Bounded, IsBounded

LEMMA TouchedBySlice ==
  ASSUME NEW slice, NEW k \in DOMAIN slice
  PROVE  /\ Touched(slice[k]) \subseteq Area(slice)
         /\ slice[k].writes \subseteq Area(slice) /\ DOMAIN slice[k].copies \subseteq Area(slice)
         /\ slice[k].reads \subseteq Area(slice) /\ slice[k].drops \subseteq Area(slice)
         /\ \A c \in DOMAIN slice[k].copies : slice[k].copies[c] \in Area(slice)
<1>1. Touched(slice[k]) \subseteq Area(slice)
  BY DEF Area
<1> HIDE DEF Area
<1> QED BY <1>1 DEF Touched

(* The recursion that Owned is defined by.                                         *)
LEMMA OwnedSteps ==
  ASSUME NEW slice, IsSlice(slice)
  PROVE  /\ Owned(slice) \in [0 .. Len(slice) -> SUBSET Area(slice)]
         /\ Owned(slice)[0] = {}
         /\ \A k \in 1 .. Len(slice) : Owned(slice)[k] = After(slice[k], Owned(slice)[k - 1])
<1> DEFINE n == Len(slice)
           D == SUBSET Area(slice)
           G == [p \in (1 .. n) \X D |-> After(slice[p[1]], p[2])]
           Rec(f) == [k \in 0 .. n |-> IF k = 0 THEN {} ELSE After(slice[k], f[k - 1])]
<1>1. n \in Nat /\ DOMAIN slice = 1 .. n
  BY DEF IsSlice
<1>2. \A k \in 1 .. n, o \in D : After(slice[k], o) \in D
  <2> TAKE k \in 1 .. n, o \in D
  <2>1. slice[k].writes \subseteq Area(slice) /\ DOMAIN slice[k].copies \subseteq Area(slice)
    BY <1>1, TouchedBySlice
  <2> QED BY <2>1 DEF After
<1>3. G \in [(1 .. n) \X D -> D]
  BY <1>2
<1>4. {} \in D
  OBVIOUS
<1>5. \A k \in 1 .. n, o \in D : G[<<k, o>>] = After(slice[k], o)
  OBVIOUS
<1> HIDE DEF G, D
<1>6. PICK g \in [0 .. n -> D] : g[0] = {} /\ \A k \in 1 .. n : g[k] = G[<<k, g[k - 1]>>]
  <2> HIDE DEF n
  <2>1. \E g \in [0 .. n -> D] : Recurs(g, n, {}, G)
    BY <1>1, <1>3, <1>4, Recursion
  <2> QED BY <2>1 DEF Recurs
<1>7. \A k \in 1 .. n : g[k] = After(slice[k], g[k - 1])
  <2> TAKE k \in 1 .. n
  <2>1. g[k - 1] \in D
    BY <1>1, <1>6
  <2> QED BY <1>5, <1>6, <2>1
<1>8. g = Rec(g)
  <2> HIDE DEF n
  <2>1. \A k \in 0 .. n : g[k] = Rec(g)[k]
    BY <1>1, <1>6, <1>7
  <2> QED BY <1>6, <2>1
<1>9. Owned(slice) = CHOOSE f : f = Rec(f)
  BY DEF Owned
<1>10. Owned(slice) = Rec(Owned(slice))
  <2> HIDE DEF Rec
  <2> QED BY <1>8, <1>9
<1> DEFINE O == Owned(slice)
<1>11. /\ O = [k \in 0 .. n |-> O[k]]
       /\ \A k \in 0 .. n : O[k] = IF k = 0 THEN {} ELSE After(slice[k], O[k - 1])
  <2> HIDE DEF n
  <2>1. O = Rec(O)
    BY <1>10
  <2> HIDE DEF O
  <2>2. DOMAIN O = 0 .. n
    BY <2>1
  <2>3. \A k \in 0 .. n : O[k] = IF k = 0 THEN {} ELSE After(slice[k], O[k - 1])
    BY <2>1
  <2> QED BY <2>1, <2>2, <2>3
<1> HIDE DEF n, O
<1>12. O[0] = {} /\ \A k \in 1 .. n : O[k] = After(slice[k], O[k - 1])
  <2>1. 0 \in 0 .. n /\ \A k \in 1 .. n : k \in 0 .. n /\ k # 0
    BY <1>1
  <2> QED BY <1>11, <2>1
<1>13. \A k \in 0 .. n : O[k] \in D
  <2>1. \A k \in 1 .. n : O[k - 1] \in D => O[k] \in D
    BY <1>2, <1>12
  <2> QED BY Zenon, <1>1, <1>4, <1>12, <2>1, TypedUpTo
<1>14. O \in [0 .. n -> D]
  BY <1>11, <1>13
<1> QED BY <1>12, <1>14 DEF n, O, D
-----------------------------------------------------------------------------
(* What holds in every state: of what a slice will ever touch it has the content that its
   own steps so far have given it, if the data is what it is trusted to be.          *)
Mine(s, slice, k) ==
  \A c \in Area(slice) : by[c] = IF c \in Owned(slice)[k] THEN s ELSE 0

Running == outcome \in {"running", "ok"}

StateInv ==
  /\ Accepts(job)
  /\ DOMAIN at = Slices /\ \A s \in Slices : at[s] \in 0 .. Len(Plan[job][s])
  /\ by \in [Cells(job) -> {0} \cup Slices]
  /\ Trusted(job) => \A s \in Slices : Mine(s, Plan[job][s], at[s])

RasterInv ==
  /\ job \in Jobs /\ outcome \in {"new", "rejected", "running", "ok"}
  /\ Running => StateInv
  /\ outcome = "ok" => \A s \in Slices : ~Busy(s)

LEMMA PlanIs ==
  ASSUME job \in Jobs, Accepts(job)
  PROVE  Plan[job] = Work(job) /\ Slices = DOMAIN Work(job)
BY DEF Plan, Slices

LEMMA BoundedJob ==
  ASSUME PlansAreSound, job \in Jobs, Accepts(job)
  PROVE  /\ Plan[job] = Work(job) /\ Slices = DOMAIN Work(job)
         /\ \A s \in Slices : IsSlice(Plan[job][s]) /\ IsBounded(job, Plan[job][s])
BY PlanIs DEF PlansAreSound, Bounded

LEMMA SoundJob ==
  ASSUME PlansAreSound, job \in Jobs, Accepts(job), Trusted(job)
  PROVE  /\ Plan[job] = Work(job) /\ Slices = DOMAIN Work(job) /\ 0 \notin Slices
         /\ \A s \in Slices : IsSlice(Plan[job][s]) /\ SliceIsSound(job, Plan[job][s])
         /\ Apart(Plan[job]) /\ TakesApart(Plan[job]) /\ Covers(job, Plan[job])
BY PlanIs DEF PlansAreSound, Sound

LEMMA RasterStarts == Init => RasterInv
BY DEF Init, RasterInv, Running

LEMMA AreaInCells ==
  ASSUME NEW j, NEW slice, IsBounded(j, slice)
  PROVE  Area(slice) \subseteq Cells(j)
BY DEF Area, IsBounded

LEMMA ConstructKeeps ==
  ASSUME PlansAreSound, RasterInv, Construct
  PROVE  RasterInv'
<1>1. CASE ~Accepts(job)
  BY <1>1 DEF Construct, RasterInv, Running
<1>2. CASE Accepts(job)
  <2>1. job \in Jobs /\ job' = job /\ outcome' = "running"
    BY <1>2 DEF Construct, RasterInv
  <2>2. at' = [s \in Slices |-> 0] /\ by' = [c \in Cells(job) |-> 0]
    BY <1>2 DEF Construct
  <2>3. Slices' = Slices /\ Plan' = Plan
    BY <2>1 DEF Slices, Plan
  <2>4. \A s \in Slices : IsSlice(Plan[job][s]) /\ IsBounded(job, Plan[job][s])
    BY <1>2, <2>1, BoundedJob
  <2>5. \A s \in Slices : at'[s] \in 0 .. Len(Plan[job][s])
    BY <2>2, <2>4 DEF IsSlice
  <2>6. \A s \in Slices : Mine(s, Plan[job][s], at[s])'
    <3> SUFFICES ASSUME NEW s \in Slices PROVE Mine(s, Plan[job][s], at[s])'
      BY <2>3
    <3>1. Area(Plan[job][s]) \subseteq Cells(job)
      BY <2>4, AreaInCells
    <3>2. Owned(Plan[job][s])[0] = {}
      BY <2>4, OwnedSteps
    <3>3. at'[s] = 0 /\ \A c \in Area(Plan[job][s]) : by'[c] = 0
      BY <2>2, <3>1
    <3> QED BY <2>1, <2>3, <3>2, <3>3 DEF Mine
  <2>7. StateInv'
    BY <1>2, <2>1, <2>2, <2>3, <2>5, <2>6 DEF StateInv
  <2> QED BY <2>1, <2>7 DEF RasterInv, Running
<1> QED BY <1>1, <1>2

(* What a step of its own does to a cell of a slice, and that of another does not.    *)
LEMMA StepChangesOwn ==
  ASSUME NEW s, s # 0, NEW slice, IsSlice(slice), NEW k \in 0 .. Len(slice) - 1,
         Mine(s, slice, k), NEW c \in Area(slice)
  PROVE  Written(s, slice[k + 1], c) = IF c \in Owned(slice)[k + 1] THEN s ELSE 0
<1> DEFINE step == slice[k + 1]
           before == Owned(slice)[k]
<1>1. k + 1 \in 1 .. Len(slice) /\ (k + 1) - 1 = k /\ k + 1 \in DOMAIN slice
  BY DEF IsSlice
<1>2. Owned(slice)[k + 1] = After(step, before)
  BY <1>1, OwnedSteps
<1>3. \A d \in DOMAIN step.copies : step.copies[d] \in Area(slice)
  BY <1>1, TouchedBySlice
<1>4. \A d \in Area(slice) : by[d] = IF d \in before THEN s ELSE 0
  BY DEF Mine
<1> HIDE DEF step, before
<1>5. CASE c \in step.writes
  BY <1>5, <1>2 DEF Written, After, step
<1>6. CASE c \notin step.writes /\ c \in step.drops
  BY <1>6, <1>2 DEF Written, After, step
<1>7. CASE c \notin step.writes /\ c \notin step.drops /\ c \in DOMAIN step.copies
  <2>1. Written(s, step, c) = by[step.copies[c]]
    BY <1>7 DEF Written
  <2>2. c \in After(step, before) <=> step.copies[c] \in before
    BY <1>7 DEF After
  <2> QED BY <1>2, <1>3, <1>4, <1>7, <2>1, <2>2 DEF step
<1>8. CASE c \notin step.writes /\ c \notin step.drops /\ c \notin DOMAIN step.copies
  <2>1. Written(s, step, c) = by[c]
    BY <1>8 DEF Written
  <2>2. c \in After(step, before) <=> c \in before
    BY <1>8 DEF After
  <2> QED BY <1>2, <1>4, <2>1, <2>2 DEF step
<1> QED BY <1>5, <1>6, <1>7, <1>8

LEMMA StepLeavesOthers ==
  ASSUME NEW plan, Apart(plan), NEW s \in DOMAIN plan, NEW t \in DOMAIN plan, s # t,
         NEW k \in DOMAIN plan[s], NEW c \in Area(plan[t])
  PROVE  Written(s, plan[s][k], c) = by[c]
<1>1. c \notin Area(plan[s])
  BY DEF Apart
<1>2. /\ plan[s][k].writes \subseteq Area(plan[s]) /\ plan[s][k].drops \subseteq Area(plan[s])
      /\ DOMAIN plan[s][k].copies \subseteq Area(plan[s])
  BY TouchedBySlice
<1> QED BY <1>1, <1>2 DEF Written

LEMMA DoStepKeeps ==
  ASSUME PlansAreSound, RasterInv, NEW s \in Slices, DoStep(s)
  PROVE  RasterInv'
<1> DEFINE plan == Plan[job]
           k == at[s] + 1
<1>1. /\ job \in Jobs /\ Accepts(job) /\ outcome = "running" /\ outcome' = "running" /\ job' = job
      /\ StateInv
  BY DEF DoStep, RasterInv, StateInv, Running
<1>2. Plan' = Plan /\ Slices' = Slices
  BY <1>1 DEF Plan, Slices
<1>3. /\ Slices = DOMAIN plan
      /\ \A t \in Slices : IsSlice(plan[t]) /\ IsBounded(job, plan[t])
  <2>1. Plan[job] = Work(job)
    BY <1>1, PlanIs
  <2> QED BY <1>1, <2>1, BoundedJob
<1>4. /\ DOMAIN at = Slices /\ \A t \in Slices : at[t] \in 0 .. Len(plan[t])
      /\ by \in [Cells(job) -> {0} \cup Slices]
      /\ Trusted(job) => \A t \in Slices : Mine(t, plan[t], at[t])
  BY <1>1 DEF StateInv
<1>13. Trusted(job) => 0 \notin Slices /\ Apart(plan)
  <2>1. Plan[job] = Work(job)
    BY <1>1, PlanIs
  <2> QED BY <1>1, <2>1, SoundJob
<1>5. at[s] \in 0 .. Len(plan[s]) - 1 /\ k \in 1 .. Len(plan[s])
  <2>1. at[s] < Len(plan[s]) /\ Len(plan[s]) \in Nat
    BY <1>3 DEF DoStep, Busy, IsSlice
  <2> QED BY <1>4, <2>1
<1>6. /\ at' = [at EXCEPT ![s] = k]
      /\ by' = [c \in DOMAIN by |-> Written(s, plan[s][k], c)]
  BY DEF DoStep, NextStep, Advance
<1> HIDE DEF plan
<1>7. k \in DOMAIN plan[s]
  BY <1>3, <1>5 DEF IsSlice
<1>8. \A t \in Slices : at'[t] = IF t = s THEN k ELSE at[t]
  BY <1>4, <1>6
<1>9. DOMAIN at' = Slices /\ \A t \in Slices : at'[t] \in 0 .. Len(plan[t])
  <2>1. DOMAIN at' = Slices
    BY <1>4, <1>6
  <2>2. \A t \in Slices : at'[t] \in 0 .. Len(plan[t])
    <3>1. k \in 0 .. Len(plan[s])
      BY <1>5
    <3> HIDE DEF k
    <3> QED BY <1>4, <1>8, <3>1
  <2> QED BY <2>1, <2>2
<1>10. by' \in [Cells(job) -> {0} \cup Slices]
  <2>1. \A c \in Cells(job) : Written(s, plan[s][k], c) \in {0} \cup Slices
    <3>1. \A c \in DOMAIN plan[s][k].copies : plan[s][k].copies[c] \in Cells(job)
      <4>1. Area(plan[s]) \subseteq Cells(job)
        BY <1>3, AreaInCells
      <4> QED BY <1>7, <4>1, TouchedBySlice
    <3> HIDE DEF k
    <3> QED BY <1>4, <3>1 DEF Written
  <2>2. DOMAIN by = Cells(job)
    BY <1>4
  <2> HIDE DEF k
  <2> QED BY <1>6, <2>1, <2>2
<1>11. Trusted(job) => \A t \in Slices : Mine(t, plan[t], at[t])'
  <2> SUFFICES ASSUME Trusted(job) PROVE \A t \in Slices : Mine(t, plan[t], at[t])'
    OBVIOUS
  <2>1. ASSUME NEW t \in Slices, NEW c \in Area(plan[t])
        PROVE  by'[c] = IF c \in Owned(plan[t])[at'[t]] THEN t ELSE 0
    <3>1. c \in Cells(job) /\ DOMAIN by = Cells(job)
      BY <1>3, <1>4, AreaInCells
    <3>2. by'[c] = Written(s, plan[s][k], c)
      <4> HIDE DEF k
      <4> QED BY <1>6, <3>1
    <3>3. CASE t = s
      <4>1. Mine(s, plan[s], at[s]) /\ IsSlice(plan[s]) /\ s # 0
        BY <1>3, <1>4, <1>13
      <4>2. Written(s, plan[s][k], c) = IF c \in Owned(plan[s])[k] THEN s ELSE 0
        BY <1>5, <3>3, <4>1, StepChangesOwn
      <4> HIDE DEF k
      <4> QED BY <1>8, <3>2, <3>3, <4>2
    <3>4. CASE t # s
      <4>1. Written(s, plan[s][k], c) = by[c]
        <5> HIDE DEF k
        <5> QED BY <1>3, <1>7, <1>13, <3>4, StepLeavesOthers
      <4>2. by[c] = IF c \in Owned(plan[t])[at[t]] THEN t ELSE 0
        BY <1>4 DEF Mine
      <4> HIDE DEF k
      <4> QED BY <1>8, <3>2, <3>4, <4>1, <4>2
    <3> QED BY <3>3, <3>4
  <2>2. plan' = plan
    BY <1>1, <1>2 DEF plan
  <2> QED BY <2>1, <2>2, <1>2 DEF Mine
<1>12. StateInv'
  BY <1>1, <1>2, <1>9, <1>10, <1>11 DEF StateInv, plan
<1> QED BY <1>1, <1>12 DEF RasterInv, Running

LEMMA RasterKeeps ==
  ASSUME PlansAreSound, RasterInv, [Next]_vars
  PROVE  RasterInv'
<1>1. CASE Construct
  BY <1>1, ConstructKeeps
<1>2. ASSUME NEW s \in Slices, DoStep(s) PROVE RasterInv'
  BY <1>2, DoStepKeeps
<1>3. CASE Return
  <2>1. /\ outcome = "running" /\ outcome' = "ok" /\ job' = job /\ at' = at /\ by' = by
        /\ \A s \in Slices : ~Busy(s)
    BY <1>3 DEF Return
  <2>2. Plan' = Plan /\ Slices' = Slices
    BY <2>1 DEF Plan, Slices
  <2>3. StateInv' /\ job' \in Jobs
    <3>1. StateInv /\ job \in Jobs
      BY <2>1 DEF RasterInv, Running
    <3> QED BY <2>1, <2>2, <3>1 DEF StateInv, Mine
  <2>4. \A s \in Slices' : ~Busy(s)'
    BY <2>1, <2>2 DEF Busy
  <2> QED BY <2>1, <2>3, <2>4 DEF RasterInv, Running
<1>4. CASE UNCHANGED vars
  <2>1. job' = job /\ at' = at /\ by' = by /\ outcome' = outcome
    BY <1>4 DEF vars
  <2>2. Plan' = Plan /\ Slices' = Slices
    BY <2>1 DEF Plan, Slices
  <2>3. StateInv' <=> StateInv
    BY <2>1, <2>2 DEF StateInv, Mine
  <2>4. \A s \in Slices : Busy(s)' <=> Busy(s)
    BY <2>1, <2>2 DEF Busy
  <2> QED BY <2>1, <2>2, <2>3, <2>4 DEF RasterInv, Running
<1> QED BY <1>1, <1>2, <1>3, <1>4 DEF Next, Finished
-----------------------------------------------------------------------------
(* The properties follow from it: of a slice that has steps to do, what is said of its next
   step.                                                                           *)
LEMMA NextStepIsSound ==
  ASSUME PlansAreSound, RasterInv, Running, Trusted(job), NEW s \in Slices, Busy(s)
  PROVE  /\ at[s] + 1 \in DOMAIN Plan[job][s]
         /\ NextStep(s) = Plan[job][s][at[s] + 1]
         /\ StepIsSound(job, NextStep(s), Owned(Plan[job][s])[at[s]])
         /\ Touched(NextStep(s)) \subseteq Area(Plan[job][s])
         /\ Mine(s, Plan[job][s], at[s])
<1>1. job \in Jobs /\ StateInv /\ Accepts(job)
  BY DEF RasterInv, StateInv
<1>2. IsSlice(Plan[job][s]) /\ SliceIsSound(job, Plan[job][s])
  BY <1>1, SoundJob
<1>3. at[s] \in 0 .. Len(Plan[job][s]) /\ Mine(s, Plan[job][s], at[s])
  BY <1>1 DEF StateInv
<1>4. at[s] + 1 \in DOMAIN Plan[job][s] /\ (at[s] + 1) - 1 = at[s]
  BY <1>2, <1>3 DEF Busy, IsSlice
<1>5. NextStep(s) = Plan[job][s][at[s] + 1]
  BY DEF NextStep
<1>6. StepIsSound(job, NextStep(s), Owned(Plan[job][s])[at[s]])
  BY <1>2, <1>4, <1>5 DEF SliceIsSound
<1> QED BY <1>3, <1>4, <1>5, <1>6, TouchedBySlice

LEMMA BoundsHold == ASSUME PlansAreSound, RasterInv PROVE InBounds
<1> SUFFICES ASSUME outcome = "running", NEW s \in Slices, Busy(s)
             PROVE  /\ Touched(NextStep(s)) \subseteq Cells(job)
                    /\ NextStep(s).loads \subseteq Samples(job.source)
  BY DEF InBounds
<1>1. StateInv /\ job \in Jobs /\ Accepts(job)
  BY DEF RasterInv, StateInv, Running
<1>2. IsSlice(Plan[job][s]) /\ IsBounded(job, Plan[job][s])
  BY <1>1, BoundedJob
<1>3. at[s] \in 0 .. Len(Plan[job][s])
  BY <1>1 DEF StateInv
<1>4. at[s] + 1 \in DOMAIN Plan[job][s]
  BY <1>2, <1>3 DEF Busy, IsSlice
<1> QED BY <1>2, <1>4 DEF NextStep, IsBounded

LEMMA TypesHold == ASSUME PlansAreSound, RasterInv PROVE TypeOK
BY BoundsHold DEF RasterInv, Running, StateInv, TypeOK

LEMMA FreshHolds == ASSUME PlansAreSound, RasterInv PROVE TargetsFresh
<1> SUFFICES ASSUME outcome = "running", Trusted(job), NEW s \in Slices, Busy(s),
                    NEW p \in NextStep(s).writes \cap Samples(job)
             PROVE  by[p] = 0
  BY DEF TargetsFresh
<1>1. Running
  BY DEF Running
<1>2. p \notin Owned(Plan[job][s])[at[s]]
  BY <1>1, NextStepIsSound DEF StepIsSound
<1>3. p \in Touched(NextStep(s))
  BY DEF Touched
<1> QED BY <1>1, <1>2, <1>3, NextStepIsSound DEF Mine

LEMMA InputsHold == ASSUME PlansAreSound, RasterInv PROVE InputsReady
<1> SUFFICES ASSUME outcome = "running", Trusted(job), NEW s \in DOMAIN Plan[job], at[s] < Len(Plan[job][s])
             PROVE  /\ \A c \in Plan[job][s][at[s] + 1].reads \cap DOMAIN by : by[c] = s
                    /\ Plan[job][s][at[s] + 1].takes \subseteq 0 .. job.size - 1
                    /\ \A t \in DOMAIN Plan[job] : \A k \in DOMAIN Plan[job][t] :
                         <<t, k>> # <<s, at[s] + 1>> =>
                           Plan[job][s][at[s] + 1].takes \cap Plan[job][t][k].takes = {}
  BY DEF InputsReady
<1>1. Running /\ job \in Jobs /\ Accepts(job)
  BY DEF Running, RasterInv, StateInv
<1>2. Slices = DOMAIN Plan[job] /\ TakesApart(Plan[job])
  BY <1>1, SoundJob
<1>3. s \in Slices /\ Busy(s)
  BY <1>2 DEF Busy
<1> DEFINE step == NextStep(s)
<1>4. /\ at[s] + 1 \in DOMAIN Plan[job][s] /\ step = Plan[job][s][at[s] + 1]
      /\ StepIsSound(job, step, Owned(Plan[job][s])[at[s]])
      /\ Touched(step) \subseteq Area(Plan[job][s])
      /\ Mine(s, Plan[job][s], at[s])
  BY <1>1, <1>3, NextStepIsSound
<1> HIDE DEF step
<1>5. \A c \in step.reads : by[c] = s
  <2>1. step.reads \subseteq Owned(Plan[job][s])[at[s]] /\ step.reads \subseteq Area(Plan[job][s])
    BY <1>4 DEF StepIsSound, Touched
  <2> QED BY <1>4, <2>1 DEF Mine
<1>6. step.takes \subseteq 0 .. job.size - 1
  BY <1>4 DEF StepIsSound
<1>7. \A t \in DOMAIN Plan[job] : \A k \in DOMAIN Plan[job][t] :
        <<t, k>> # <<s, at[s] + 1>> => step.takes \cap Plan[job][t][k].takes = {}
  <2> TAKE t \in DOMAIN Plan[job]
  <2> TAKE k \in DOMAIN Plan[job][t]
  <2> HAVE <<t, k>> # <<s, at[s] + 1>>
  <2>1. <<s, at[s] + 1>> # <<t, k>>
    OBVIOUS
  <2> QED BY <1>2, <1>4, <2>1 DEF TakesApart
<1> QED BY <1>4, <1>5, <1>6, <1>7

LEMMA CompleteHolds == ASSUME PlansAreSound, RasterInv PROVE Complete
<1> SUFFICES ASSUME outcome = "ok", Trusted(job), NEW p \in Samples(job) PROVE by[p] # 0
  BY DEF Complete
<1>1. StateInv /\ job \in Jobs /\ Accepts(job) /\ \A s \in Slices : ~Busy(s)
  BY DEF Running, RasterInv, StateInv
<1>2. /\ Slices = DOMAIN Plan[job] /\ 0 \notin Slices /\ Covers(job, Plan[job])
      /\ \A s \in Slices : IsSlice(Plan[job][s])
  BY <1>1, SoundJob
<1>3. PICK s \in Slices : p \in Owned(Plan[job][s])[Len(Plan[job][s])]
  BY <1>2 DEF Covers
<1>4. at[s] = Len(Plan[job][s])
  BY <1>1, <1>2 DEF StateInv, Busy, IsSlice
<1>5. p \in Area(Plan[job][s])
  <2>1. Len(Plan[job][s]) \in 0 .. Len(Plan[job][s])
    BY <1>2 DEF IsSlice
  <2> QED BY <1>2, <1>3, <2>1, OwnedSteps
<1>6. Mine(s, Plan[job][s], at[s])
  BY <1>1 DEF StateInv
<1> QED BY <1>2, <1>3, <1>4, <1>5, <1>6 DEF Mine

(* Whatever the order in which the slices of an image proceed, and whoever runs them, a
   plan that is right does what it should.                                          *)
THEOREM PlansSuffice ==
  ASSUME PlansAreSound
  PROVE  Spec => [](TypeOK /\ TargetsFresh /\ InputsReady /\ Complete)
<1>1. RasterInv /\ [Next]_vars => RasterInv'
  BY RasterKeeps
<1>2. RasterInv => TypeOK /\ TargetsFresh /\ InputsReady /\ Complete
  BY TypesHold, FreshHolds, InputsHold, CompleteHolds
<1> QED BY RasterStarts, <1>1, <1>2, PTL DEF Spec
-----------------------------------------------------------------------------
(* Most plans are plain: no cell is written twice, none is dropped or copied.  What a slice
   has is then what its steps have written.                                         *)
PlainStep(step) == step.drops = {} /\ step.copies = << >>

WrittenBefore(slice, k) == UNION {slice[i].writes : i \in 1 .. k - 1}

StepIsPlain(j, slice, k) ==
  /\ PlainStep(slice[k])
  /\ slice[k].writes \subseteq Cells(j) /\ slice[k].loads \subseteq Samples(j.source)
  /\ slice[k].takes \subseteq 0 .. j.size - 1
  /\ slice[k].reads \subseteq WrittenBefore(slice, k)

WritesApart(plan) ==
  \A s, t \in DOMAIN plan : \A k \in DOMAIN plan[s], l \in DOMAIN plan[t] :
    <<s, k>> # <<t, l>> => plan[s][k].writes \cap plan[t][l].writes = {}

WritesCover(j, plan) ==
  \A p \in Samples(j) : \E s \in DOMAIN plan : \E k \in DOMAIN plan[s] : p \in plan[s][k].writes

Plain(j, plan) ==
  /\ 0 \notin DOMAIN plan
  /\ \A s \in DOMAIN plan : IsSlice(plan[s]) /\ \A k \in DOMAIN plan[s] : StepIsPlain(j, plan[s], k)
  /\ WritesApart(plan) /\ TakesApart(plan) /\ WritesCover(j, plan)

LEMMA PlainOwned ==
  ASSUME NEW slice, IsSlice(slice), \A k \in DOMAIN slice : PlainStep(slice[k])
  PROVE  \A k \in 0 .. Len(slice) : Owned(slice)[k] = WrittenBefore(slice, k + 1)
<1> DEFINE O == Owned(slice)
           S == {k \in 0 .. Len(slice) : O[k] = WrittenBefore(slice, k + 1)}
<1>1. Len(slice) \in Nat /\ DOMAIN slice = 1 .. Len(slice)
  BY DEF IsSlice
<1>2. O[0] = {} /\ \A k \in 1 .. Len(slice) : O[k] = After(slice[k], O[k - 1])
  BY OwnedSteps
<1> HIDE DEF O
<1>3. 0 \in S
  <2>1. WrittenBefore(slice, 1) = {}
    BY DEF WrittenBefore
  <2>2. 0 \in 0 .. Len(slice) /\ 0 + 1 = 1
    BY <1>1
  <2>3. O[0] = WrittenBefore(slice, 0 + 1)
    BY <1>2, <2>1, <2>2
  <2> QED BY <2>2, <2>3
<1>4. ASSUME NEW k \in 0 .. Len(slice) - 1, k \in S PROVE k + 1 \in S
  <2>1. k + 1 \in 1 .. Len(slice) /\ (k + 1) - 1 = k /\ k + 1 \in 0 .. Len(slice)
    BY <1>1
  <2>2. O[k] = WrittenBefore(slice, k + 1)
    BY <1>4
  <2>3. O[k + 1] = After(slice[k + 1], O[k])
    BY <1>2, <2>1
  <2>4. After(slice[k + 1], O[k]) = slice[k + 1].writes \cup O[k]
    BY <1>1, <2>1 DEF After, PlainStep
  <2>5. WrittenBefore(slice, k + 1 + 1) = slice[k + 1].writes \cup WrittenBefore(slice, k + 1)
    <3>1. 1 .. k + 1 + 1 - 1 = 1 .. (k + 1 - 1) \cup {k + 1}
      BY <2>1
    <3> QED BY <3>1 DEF WrittenBefore
  <2> QED BY <2>1, <2>2, <2>3, <2>4, <2>5
<1>5. 0 .. Len(slice) \subseteq S
  <2> HIDE DEF S
  <2> QED BY <1>1, <1>3, <1>4, AllUpTo
<1> QED BY <1>5 DEF O

LEMMA PlainIsSound ==
  ASSUME NEW j, Plain(j, Work(j))
  PROVE  Sound(j)
<1> DEFINE plan == Work(j)
<1>1. Plain(j, plan)
  OBVIOUS
<1> SUFFICES /\ 0 \notin DOMAIN plan
             /\ \A s \in DOMAIN plan : IsSlice(plan[s]) /\ SliceIsSound(j, plan[s])
             /\ Apart(plan) /\ TakesApart(plan) /\ Covers(j, plan)
  BY DEF Sound
<1> HIDE DEF plan
<1>2. \A s \in DOMAIN plan : \A k \in 0 .. Len(plan[s]) : Owned(plan[s])[k] = WrittenBefore(plan[s], k + 1)
  <2> TAKE s \in DOMAIN plan
  <2>1. IsSlice(plan[s]) /\ \A k \in DOMAIN plan[s] : PlainStep(plan[s][k])
    BY <1>1 DEF Plain, StepIsPlain
  <2> QED BY <2>1, PlainOwned
<1>3. \A s \in DOMAIN plan : \A k \in DOMAIN plan[s] :
        Touched(plan[s][k]) \subseteq UNION {plan[s][i].writes : i \in 1 .. k}
  <2> TAKE s \in DOMAIN plan
  <2> TAKE k \in DOMAIN plan[s]
  <2>1. k \in Nat /\ k >= 1
    BY <1>1 DEF Plain, IsSlice
  <2>2. PlainStep(plan[s][k]) /\ plan[s][k].reads \subseteq WrittenBefore(plan[s], k)
    BY <1>1 DEF Plain, StepIsPlain
  <2>3. Touched(plan[s][k]) = plan[s][k].writes \cup plan[s][k].reads
    BY <2>2 DEF Touched, PlainStep
  <2>4. WrittenBefore(plan[s], k) \subseteq UNION {plan[s][i].writes : i \in 1 .. k}
    BY <2>1 DEF WrittenBefore
  <2>5. plan[s][k].writes \subseteq UNION {plan[s][i].writes : i \in 1 .. k}
    BY <2>1
  <2> QED BY <2>2, <2>3, <2>4, <2>5
<1>4. \A s \in DOMAIN plan : \A k \in DOMAIN plan[s] : \A i \in 1 .. k : i \in DOMAIN plan[s]
  BY <1>1 DEF Plain, IsSlice
<1>5. \A s \in DOMAIN plan : SliceIsSound(j, plan[s])
  <2> SUFFICES ASSUME NEW s \in DOMAIN plan, NEW k \in DOMAIN plan[s]
               PROVE  StepIsSound(j, plan[s][k], Owned(plan[s])[k - 1])
    BY DEF SliceIsSound
  <2>1. k \in 1 .. Len(plan[s]) /\ Len(plan[s]) \in Nat /\ DOMAIN plan[s] = 1 .. Len(plan[s])
    BY <1>1 DEF Plain, IsSlice
  <2>2. Owned(plan[s])[k - 1] = WrittenBefore(plan[s], k)
    <3>1. k - 1 \in 0 .. Len(plan[s]) /\ (k - 1) + 1 = k
      BY <2>1
    <3> QED BY <1>2, <3>1
  <2>3. StepIsPlain(j, plan[s], k)
    BY <1>1 DEF Plain
  <2>4. Touched(plan[s][k]) \subseteq Cells(j)
    <3>1. \A i \in 1 .. k : plan[s][i].writes \subseteq Cells(j)
      BY <1>1, <1>4 DEF Plain, StepIsPlain
    <3> QED BY <1>3, <3>1
  <2>5. plan[s][k].writes \cap WrittenBefore(plan[s], k) = {}
    <3>1. \A i \in 1 .. k - 1 : i \in DOMAIN plan[s] /\ <<s, k>> # <<s, i>>
      BY <2>1
    <3>2. \A i \in 1 .. k - 1 : plan[s][k].writes \cap plan[s][i].writes = {}
      BY <1>1, <3>1 DEF Plain, WritesApart
    <3> QED BY <3>2 DEF WrittenBefore
  <2> QED BY <2>2, <2>3, <2>4, <2>5 DEF StepIsSound, StepIsPlain
<1>6. Apart(plan)
  <2> SUFFICES ASSUME NEW s \in DOMAIN plan, NEW t \in DOMAIN plan, s # t,
                      NEW c \in Area(plan[s]), c \in Area(plan[t])
               PROVE  FALSE
    BY DEF Apart
  <2>1. PICK k \in DOMAIN plan[s] : c \in plan[s][k].writes
    BY <1>3, <1>4 DEF Area
  <2>2. PICK l \in DOMAIN plan[t] : c \in plan[t][l].writes
    BY <1>3, <1>4 DEF Area
  <2>3. <<s, k>> # <<t, l>>
    OBVIOUS
  <2> QED BY <1>1, <2>1, <2>2, <2>3 DEF Plain, WritesApart
<1>7. Covers(j, plan)
  <2> SUFFICES ASSUME NEW p \in Samples(j)
               PROVE  \E s \in DOMAIN plan : p \in Owned(plan[s])[Len(plan[s])]
    BY DEF Covers
  <2>0. PICK s \in DOMAIN plan : \E k \in DOMAIN plan[s] : p \in plan[s][k].writes
    BY <1>1 DEF Plain, WritesCover
  <2>1. PICK k \in DOMAIN plan[s] : p \in plan[s][k].writes
    BY <2>0
  <2>2. k \in 1 .. Len(plan[s]) /\ Len(plan[s]) \in Nat
    BY <1>1 DEF Plain, IsSlice
  <2>3. Owned(plan[s])[Len(plan[s])] = WrittenBefore(plan[s], Len(plan[s]) + 1)
    BY <1>2, <2>2
  <2>4. k \in 1 .. (Len(plan[s]) + 1) - 1
    BY <2>2
  <2> QED BY <2>1, <2>3, <2>4 DEF WrittenBefore
<1> QED BY <1>1, <1>5, <1>6, <1>7 DEF Plain
-----------------------------------------------------------------------------
(* Numbers: the rows of a rectangle of numbers do not overlap, and have all of them.   *)
LEMMA Times == ASSUME NEW a \in Int, NEW b \in Int PROVE a * b \in Int /\ a * b = b * a
OBVIOUS

LEMMA TimesNat == ASSUME NEW a \in Nat, NEW b \in Nat PROVE a * b \in Nat
OBVIOUS

LEMMA NextRow ==
  ASSUME NEW a \in Nat, NEW b \in Nat, NEW n \in Nat, a < b
  PROVE  a * n + n <= b * n
<1>1. PICK d \in Nat : b = a + 1 + d
  BY b - a - 1 \in Nat
<1>2. b * n = a * n + n + d * n
  BY <1>1
<1>3. d * n \in Nat /\ a * n \in Nat /\ b * n \in Nat
  BY TimesNat
<1> QED BY <1>2, <1>3

LEMMA SamePlace ==
  ASSUME NEW n \in Nat, NEW a \in Nat, NEW b \in Nat, NEW i \in 0 .. n - 1, NEW k \in 0 .. n - 1,
         a * n + i = b * n + k
  PROVE  a = b /\ i = k
<1>1. a * n \in Nat /\ b * n \in Nat
  BY TimesNat
<1>2. ~(a < b)
  BY <1>1, NextRow
<1>3. ~(b < a)
  BY <1>1, NextRow
<1> QED BY <1>1, <1>2, <1>3

LEMMA InRectangle ==
  ASSUME NEW n \in Nat, NEW m \in Nat, NEW a \in 0 .. m - 1, NEW i \in 0 .. n - 1
  PROVE  a * n + i \in 0 .. m * n - 1
<1>1. a * n \in Nat /\ m * n \in Nat
  BY TimesNat
<1>2. a * n + n <= m * n
  BY NextRow
<1> QED BY <1>1, <1>2

(* The quotient and the remainder of a number.                                     *)
LEMMA DivMod ==
  ASSUME NEW x \in Nat, NEW n \in Nat \ {0}
  PROVE  /\ x \div n \in Nat /\ x % n \in 0 .. n - 1
         /\ x = (x \div n) * n + (x % n)
OBVIOUS

LEMMA QuotientBelow ==
  ASSUME NEW n \in Nat \ {0}, NEW m \in Nat, NEW x \in 0 .. m * n - 1
  PROVE  x \div n \in 0 .. m - 1
<1>1. m * n \in Nat
  BY TimesNat
<1>2. x \in Nat
  BY <1>1
<1>3. x \div n \in Nat /\ x % n \in 0 .. n - 1 /\ x = (x \div n) * n + (x % n)
  BY <1>2, DivMod
<1> DEFINE q == x \div n
           r == x % n
<1> HIDE DEF q, r
<1>4. q \in Nat /\ r \in 0 .. n - 1 /\ x = q * n + r
  BY <1>3 DEF q, r
<1>5. ~(m < q)
  <2> SUFFICES ASSUME m < q PROVE FALSE
    OBVIOUS
  <2>1. m * n + n <= q * n
    BY <1>4, NextRow
  <2>2. q * n \in Nat
    BY <1>4, TimesNat
  <2> QED BY <1>1, <1>4, <2>1, <2>2
<1>6. q # m
  BY <1>1, <1>4
<1> QED BY <1>4, <1>5, <1>6 DEF q

LEMMA ExactQuotient ==
  ASSUME NEW n \in Nat \ {0}, NEW a \in Nat
  PROVE  (a * n) \div n = a /\ (a * n) % n = 0
<1>1. a * n \in Nat
  BY TimesNat
<1> DEFINE q == (a * n) \div n
           r == (a * n) % n
<1>2. q \in Nat /\ r \in 0 .. n - 1 /\ a * n = q * n + r
  BY <1>1, DivMod
<1> HIDE DEF q, r
<1>3. a * n + 0 = q * n + r /\ 0 \in 0 .. n - 1
  BY <1>1, <1>2
<1>4. a = q /\ 0 = r
  BY <1>2, <1>3, SamePlace
<1> QED BY <1>4 DEF q, r

LEMMA WholeMultiple ==
  ASSUME NEW n \in Nat \ {0}, NEW x \in Nat, x % n = 0
  PROVE  x \div n \in Nat /\ x = (x \div n) * n
BY DivMod
-----------------------------------------------------------------------------
(* What the sizes of an image and of its input are.                                *)
IsImage(j) == j.w \in Nat /\ j.h \in Nat /\ j.size \in Nat

LEMMA SampleIs ==
  ASSUME NEW j, IsImage(j), NEW p
  PROVE  p \in Samples(j) <=> \E y \in 0 .. j.h - 1, x \in 0 .. j.w - 1 : p = <<y, x>>
BY DEF Samples

(* A slice whose steps are listed by a function.                                   *)
LEMMA ListedSlice ==
  ASSUME NEW n \in Nat, NEW f, DOMAIN f = 1 .. n
  PROVE  IsSlice(f) /\ Len(f) = n
<1>1. Len(f) = n
  OBVIOUS
<1> QED BY <1>1 DEF IsSlice

(* A plan of m slices of n steps each.                                             *)
Numbered(plan, m, n) == DOMAIN plan = 1 .. m /\ \A s \in 1 .. m : DOMAIN plan[s] = 1 .. n

StepsPlain(j, plan, m, n) == \A s \in 1 .. m : \A k \in 1 .. n : StepIsPlain(j, plan[s], k)

StepsApart(plan, m, n) ==
  \A s, t \in 1 .. m : \A k \in 1 .. n : \A l \in 1 .. n : <<s, k>> # <<t, l>> =>
    plan[s][k].writes \cap plan[t][l].writes = {} /\ plan[s][k].takes \cap plan[t][l].takes = {}

StepsCover(j, plan, m, n) ==
  \A y \in 0 .. j.h - 1, x \in 0 .. j.w - 1 :
    \E s \in 1 .. m : \E k \in 1 .. n : <<y, x>> \in plan[s][k].writes

LEMMA NumberedPlan ==
  ASSUME NEW j, IsImage(j), NEW plan, NEW m \in Nat, NEW n \in Nat,
         Numbered(plan, m, n), StepsPlain(j, plan, m, n), StepsApart(plan, m, n), StepsCover(j, plan, m, n)
  PROVE  Plain(j, plan)
<1> USE DEF Numbered, StepsPlain, StepsApart, StepsCover
<1>1. \A s \in DOMAIN plan : IsSlice(plan[s])
  BY ListedSlice
<1>2. \A s \in DOMAIN plan : \A k \in DOMAIN plan[s] : StepIsPlain(j, plan[s], k)
  OBVIOUS
<1>3. WritesApart(plan) /\ TakesApart(plan)
  <2> SUFFICES ASSUME NEW s \in DOMAIN plan, NEW t \in DOMAIN plan, NEW k \in DOMAIN plan[s],
                      NEW l \in DOMAIN plan[t], <<s, k>> # <<t, l>>
               PROVE  /\ plan[s][k].writes \cap plan[t][l].writes = {}
                      /\ plan[s][k].takes \cap plan[t][l].takes = {}
    BY DEF WritesApart, TakesApart
  <2>1. s \in 1 .. m /\ t \in 1 .. m
    OBVIOUS
  <2>2. k \in 1 .. n /\ l \in 1 .. n
    BY <2>1
  <2> QED BY <2>1, <2>2
<1>4. WritesCover(j, plan)
  <2> SUFFICES ASSUME NEW p \in Samples(j)
               PROVE  \E s \in DOMAIN plan : \E k \in DOMAIN plan[s] : p \in plan[s][k].writes
    BY DEF WritesCover
  <2>1. PICK y \in 0 .. j.h - 1, x \in 0 .. j.w - 1 : p = <<y, x>>
    BY SampleIs
  <2>2. PICK s \in 1 .. m : \E k \in 1 .. n : <<y, x>> \in plan[s][k].writes
    OBVIOUS
  <2>3. PICK k \in 1 .. n : p \in plan[s][k].writes
    BY <2>1, <2>2
  <2>4. s \in DOMAIN plan /\ k \in DOMAIN plan[s]
    OBVIOUS
  <2> QED BY <2>3, <2>4
<1>5. 0 \notin DOMAIN plan
  OBVIOUS
<1> QED BY <1>1, <1>2, <1>3, <1>4, <1>5 DEF Plain

(* Panasonic V6 and V7: the blocks of a row are its pixels, and the rows take the blocks of
   the input one after the other.                                                  *)
LEMMA V6IsPlain ==
  ASSUME NEW j, IsImage(j), j.codec \in {"panasonic6", "panasonic7"}, V6Accepts(j)
  PROVE  Plain(j, V6Work(j))
<1> DEFINE P == PixelsPerBlock(j)
           n == j.w \div P
           Block(row, k) == PacketPixels(<<row - 1, (k - 1) * P>>, P)
           Units(row, k) == {UnitsPerPacket * (n * (row - 1) + k - 1) + i : i \in 0 .. 1}
           plan == V6Work(j)
<1>1. P \in {9, 11, 14}
  BY DEF PixelsPerBlock, V6Accepts
<1>2. /\ j.w \in Nat /\ j.h \in Nat /\ j.size \in Nat /\ j.w > 0 /\ j.h > 0
      /\ n \in Nat /\ j.w = n * P
  BY <1>1, WholeMultiple DEF V6Accepts, IsImage
<1>3. plan = [row \in 1 .. j.h |-> [k \in 1 .. n |-> Step(Block(row, k), {}, Units(row, k))]]
  BY DEF V6Work
<1> HIDE DEF plan, n, P
<1>4. DOMAIN plan = 1 .. j.h /\ \A s \in 1 .. j.h : DOMAIN plan[s] = 1 .. n
  BY <1>3
<1>5. \A s \in 1 .. j.h : \A k \in 1 .. n : plan[s][k] = Step(Block(s, k), {}, Units(s, k))
  BY <1>3
<1>7. \A s \in 1 .. j.h : \A k \in 1 .. n :
        Block(s, k) = {<<s - 1, (k - 1) * P + i>> : i \in 0 .. P - 1}
  BY DEF PacketPixels
<1>8. ASSUME NEW s \in 1 .. j.h, NEW k \in 1 .. n
      PROVE  Block(s, k) \subseteq Samples(j)
  <2> SUFFICES ASSUME NEW i \in 0 .. P - 1 PROVE <<s - 1, (k - 1) * P + i>> \in Samples(j)
    BY <1>7
  <2>1. k - 1 \in 0 .. n - 1 /\ s - 1 \in 0 .. j.h - 1 /\ P \in Nat
    BY <1>1, <1>2, <1>4
  <2>2. (k - 1) * P + i \in 0 .. n * P - 1
    BY <1>2, <2>1, InRectangle
  <2> QED BY <1>2, <2>1, <2>2 DEF Samples
<1>9. ASSUME NEW s \in 1 .. j.h, NEW k \in 1 .. n
      PROVE  Units(s, k) \subseteq 0 .. j.size - 1
  <2>1. k - 1 \in 0 .. n - 1 /\ s - 1 \in 0 .. j.h - 1
    BY <1>2, <1>4
  <2>2. (s - 1) * n + (k - 1) \in 0 .. j.h * n - 1
    BY <1>2, <2>1, InRectangle
  <2>3. j.h * n <= j.size \div UnitsPerPacket
    <3>1. j.w * j.h = (j.h * n) * P /\ j.h * n \in Nat
      BY <1>1, <1>2, TimesNat
    <3>2. (j.w * j.h) \div P = j.h * n
      BY <1>1, <3>1, ExactQuotient
    <3> QED BY <3>2 DEF V6Accepts, P
  <2>4. 2 * (j.h * n) <= j.size /\ j.h * n \in Nat
    BY <1>2, <2>3, TimesNat DEF UnitsPerPacket
  <2>5. n * (s - 1) + k - 1 = (s - 1) * n + (k - 1)
    BY <1>2, <2>1
  <2> DEFINE u == (s - 1) * n + (k - 1)
             m == j.h * n
  <2>6. u \in 0 .. m - 1 /\ m \in Nat /\ 2 * m <= j.size
    BY <2>2, <2>4
  <2>7. Units(s, k) = {2 * u + i : i \in 0 .. 1}
    BY <2>5 DEF UnitsPerPacket
  <2> HIDE DEF u, m, Units
  <2> QED BY <1>2, <2>6, <2>7
<1>10. ASSUME NEW s \in 1 .. j.h, NEW t \in 1 .. j.h, NEW k \in 1 .. n,
              NEW l \in 1 .. n, <<s, k>> # <<t, l>>
       PROVE  Block(s, k) \cap Block(t, l) = {}
  <2> SUFFICES ASSUME NEW i \in 0 .. P - 1, NEW m \in 0 .. P - 1,
                      <<s - 1, (k - 1) * P + i>> = <<t - 1, (l - 1) * P + m>>
               PROVE  FALSE
    BY <1>7
  <2>1. k - 1 \in Nat /\ l - 1 \in Nat /\ P \in Nat
    BY <1>1, <1>2, <1>4
  <2>2. k - 1 = l - 1
    BY <2>1, SamePlace
  <2>3. s - 1 = t - 1
    OBVIOUS
  <2>4. s = t /\ k = l
    BY <1>2, <2>2, <2>3
  <2> QED BY <1>10, <2>4
<1>11. ASSUME NEW s \in 1 .. j.h, NEW t \in 1 .. j.h, NEW k \in 1 .. n,
              NEW l \in 1 .. n, <<s, k>> # <<t, l>>
       PROVE  Units(s, k) \cap Units(t, l) = {}
  <2> DEFINE u == n * (s - 1) + k - 1
             v == n * (t - 1) + l - 1
  <2>1. /\ s - 1 \in Nat /\ t - 1 \in Nat /\ k - 1 \in 0 .. n - 1 /\ l - 1 \in 0 .. n - 1
    BY <1>2, <1>4
  <2>2. u = (s - 1) * n + (k - 1) /\ v = (t - 1) * n + (l - 1) /\ u \in Int /\ v \in Int
    BY <1>2, <2>1, TimesNat
  <2>3. u # v
    <3> SUFFICES ASSUME u = v PROVE FALSE
      OBVIOUS
    <3>1. s - 1 = t - 1 /\ k - 1 = l - 1
      BY <1>2, <2>1, <2>2, SamePlace
    <3>2. s = t /\ k = l
      BY <1>2, <3>1
    <3> QED BY <1>11, <3>2
  <2>4. Units(s, k) = {2 * u + i : i \in 0 .. 1} /\ Units(t, l) = {2 * v + i : i \in 0 .. 1}
    BY DEF UnitsPerPacket
  <2> HIDE DEF u, v
  <2>5. \A a, b \in 0 .. 1 : 2 * u + a # 2 * v + b
    BY <2>2, <2>3
  <2> QED BY <2>4, <2>5
<1>12. ASSUME NEW y \in 0 .. j.h - 1, NEW x \in 0 .. j.w - 1
       PROVE  \E s \in 1 .. j.h : \E k \in 1 .. n : <<y, x>> \in Block(s, k)
  <2>1. x \in 0 .. n * P - 1 /\ P \in Nat \ {0}
    BY <1>1, <1>2
  <2>2. x \div P \in 0 .. n - 1
    BY <1>2, <2>1, QuotientBelow
  <2>3. x % P \in 0 .. P - 1 /\ x = (x \div P) * P + (x % P)
    BY <1>2, <2>1, DivMod
  <2> DEFINE q == x \div P
  <2> HIDE DEF q
  <2>4. y + 1 \in 1 .. j.h /\ q + 1 \in 1 .. n /\ (q + 1) - 1 = q /\ (y + 1) - 1 = y
    BY <1>2, <1>4, <2>2 DEF q
  <2>5. <<y, x>> \in Block(y + 1, q + 1)
    <3>1. Block(y + 1, q + 1) = {<<y, q * P + i>> : i \in 0 .. P - 1}
      BY <1>7, <2>4
    <3> QED BY <2>3, <3>1 DEF q
  <2> HIDE DEF Block
  <2> QED BY <2>4, <2>5
<1> HIDE DEF Block, Units
<1>13. \A s \in 1 .. j.h : \A k \in 1 .. n :
         /\ plan[s][k].writes = Block(s, k) /\ plan[s][k].takes = Units(s, k)
         /\ plan[s][k].reads = {} /\ plan[s][k].loads = {} /\ PlainStep(plan[s][k])
  <2> TAKE s \in 1 .. j.h
  <2> TAKE k \in 1 .. n
  <2>1. plan[s][k] = Step(Block(s, k), {}, Units(s, k))
    BY <1>5
  <2> QED BY <2>1 DEF Step, PlainStep
<1>14. \A s \in 1 .. j.h : \A k \in 1 .. n : StepIsPlain(j, plan[s], k)
  BY <1>8, <1>9, <1>13 DEF StepIsPlain, Cells
<1>15. \A y \in 0 .. j.h - 1, x \in 0 .. j.w - 1 :
         \E s \in 1 .. j.h : \E k \in 1 .. n : <<y, x>> \in plan[s][k].writes
  BY <1>12, <1>13
<1>16. \A s, t \in 1 .. j.h : \A k \in 1 .. n : \A l \in 1 .. n : <<s, k>> # <<t, l>> =>
         plan[s][k].writes \cap plan[t][l].writes = {} /\ plan[s][k].takes \cap plan[t][l].takes = {}
  BY <1>10, <1>11, <1>13
<1>17. /\ Numbered(plan, j.h, n) /\ StepsPlain(j, plan, j.h, n)
       /\ StepsApart(plan, j.h, n) /\ StepsCover(j, plan, j.h, n)
  BY <1>4, <1>14, <1>15, <1>16 DEF Numbered, StepsPlain, StepsApart, StepsCover
<1>18. Plain(j, plan)
  BY <1>2, <1>17, NumberedPlan
<1> QED BY <1>18 DEF plan
-----------------------------------------------------------------------------
(* Sequences put one behind the other: where each of them begins.                   *)
IsList(f) == IsSlice(f) /\ f = [k \in 1 .. Len(f) |-> f[k]]

AreLists(rows, n) == DOMAIN rows = 1 .. n /\ \A i \in 1 .. n : IsList(rows[i])

LEMMA ListOfItems ==
  ASSUME NEW f, IsList(f), NEW T, \A k \in 1 .. Len(f) : f[k] \in T
  PROVE  f \in Seq(T)
<1>1. Len(f) \in Nat
  BY DEF IsList, IsSlice
<1>2. f \in [1 .. Len(f) -> T]
  BY DEF IsList
<1> QED BY <1>1, <1>2

ListsOver(seqs, n, T) == DOMAIN seqs = 1 .. n /\ \A i \in 1 .. n : seqs[i] \in Seq(T)

FlattensBy(seqs, n, F) ==
  /\ F[0] = << >> /\ FlattenSeq(seqs) = F[n]
  /\ \A i \in 1 .. n : F[i] = F[i - 1] \o seqs[i]

LEMMA FlattenRecursion ==
  ASSUME NEW T, NEW n \in Nat \ {0}, NEW seqs, ListsOver(seqs, n, T)
  PROVE  \E F \in [0 .. n -> Seq(T)] : FlattensBy(seqs, n, F)
<1> DEFINE D == Seq(T)
           G == [p \in (1 .. n) \X D |-> p[2] \o seqs[p[1]]]
           Rec(f) == [i \in 1 .. n |-> IF i = 1 THEN seqs[i] ELSE f[i - 1] \o seqs[i]]
<1> USE DEF ListsOver
<1>1. Len(seqs) = n
  OBVIOUS
<1>2. \A k \in 1 .. n, o \in D : G[<<k, o>>] = o \o seqs[k] /\ o \o seqs[k] \in D
  <2> TAKE k \in 1 .. n, o \in D
  <2>1. o \in Seq(T) /\ seqs[k] \in Seq(T)
    OBVIOUS
  <2>2. o \o seqs[k] \in Seq(T)
    BY <2>1
  <2>3. G[<<k, o>>] = o \o seqs[k]
    OBVIOUS
  <2> QED BY <2>2, <2>3
<1>3. G \in [(1 .. n) \X D -> D] /\ << >> \in D
  OBVIOUS
<1> HIDE DEF G, D
<1>0. 1 \in 1 .. n /\ 1 - 1 = 0
  OBVIOUS
<1>4. PICK g \in [0 .. n -> D] : Recurs(g, n, << >>, G)
  BY <1>3, Recursion
<1>5. g[0] = << >> /\ \A i \in 1 .. n : g[i] = g[i - 1] \o seqs[i]
  <2>1. \A i \in 1 .. n : g[i - 1] \in D
    BY <1>4
  <2> QED BY <1>2, <1>4, <2>1 DEF Recurs
<1> DEFINE f == [i \in 1 .. n |-> g[i]]
<1>6. f = Rec(f)
  <2>1. g[1] = seqs[1]
    <3>1. g[1] = << >> \o seqs[1] /\ seqs[1] \in Seq(T)
      BY <1>0, <1>5
    <3> QED BY <3>1
  <2>2. \A i \in 1 .. n : g[i] = IF i = 1 THEN seqs[i] ELSE f[i - 1] \o seqs[i]
    <3> TAKE i \in 1 .. n
    <3>1. CASE i = 1
      BY <2>1, <3>1
    <3>2. CASE i # 1
      <4>1. i - 1 \in 1 .. n
        BY <3>2
      <4>2. f[i - 1] = g[i - 1]
        BY <4>1
      <4> HIDE DEF f
      <4> QED BY <1>5, <3>2, <4>2
    <3> QED BY <3>1, <3>2
  <2> QED BY <2>2
<1> DEFINE O == CHOOSE h : h = Rec(h)
<1>7. O = Rec(O)
  <2> HIDE DEF Rec, f
  <2> QED BY <1>6
<1>8. FlattenSeq(seqs) = O[n]
  BY <1>1 DEF FlattenSeq
<1> HIDE DEF O, f
<1>9. O[1] = seqs[1] /\ \A i \in 2 .. n : O[i] = O[i - 1] \o seqs[i]
  <2>1. \A i \in 1 .. n : Rec(O)[i] = IF i = 1 THEN seqs[i] ELSE O[i - 1] \o seqs[i]
    OBVIOUS
  <2> HIDE DEF Rec
  <2>2. \A i \in 1 .. n : O[i] = IF i = 1 THEN seqs[i] ELSE O[i - 1] \o seqs[i]
    BY <1>7, <2>1
  <2>3. O[1] = seqs[1]
    BY <1>0, <2>2
  <2>4. \A i \in 2 .. n : i \in 1 .. n /\ i # 1
    OBVIOUS
  <2> QED BY <2>2, <2>3, <2>4
<1> HIDE DEF Rec
<1> DEFINE S == {0} \cup {i \in 1 .. n : O[i] = g[i]}
<1>10. 0 .. n \subseteq S
  <2>1. \A k \in 0 .. n - 1 : k \in S => k + 1 \in S
    <3> SUFFICES ASSUME NEW k \in 0 .. n - 1, k \in S PROVE k + 1 \in S
      OBVIOUS
    <3>1. CASE k = 0
      <4>1. g[1] = << >> \o seqs[1] /\ seqs[1] \in Seq(T)
        BY <1>0, <1>5
      <4>2. O[1] = g[1]
        BY <1>9, <4>1
      <4> QED BY <3>1, <4>2
    <3>2. CASE k # 0
      <4>1. k \in 1 .. n /\ k + 1 \in 2 .. n /\ k + 1 \in 1 .. n /\ (k + 1) - 1 = k
        BY <3>2
      <4>2. O[k] = g[k]
        BY <3>2
      <4>3. O[k + 1] = O[k] \o seqs[k + 1] /\ g[k + 1] = g[k] \o seqs[k + 1]
        BY <1>5, <1>9, <4>1
      <4> QED BY <4>1, <4>2, <4>3
    <3> QED BY <3>1, <3>2
  <2>2. 0 \in S
    OBVIOUS
  <2> HIDE DEF S
  <2> QED BY <2>1, <2>2, AllUpTo
<1>11. FlattenSeq(seqs) = g[n]
  <2>1. n \in S /\ n # 0
    BY <1>10
  <2> QED BY <1>8, <2>1
<1> QED BY <1>4, <1>5, <1>11 DEF D, FlattensBy

Concatenates(slice, rows, n, off) ==
  /\ off \in [0 .. n -> Nat] /\ off[0] = 0
  /\ \A i \in 1 .. n : off[i] = off[i - 1] + Len(rows[i])
  /\ IsList(slice) /\ Len(slice) = off[n]
  /\ \A i \in 1 .. n : \A k \in 1 .. Len(rows[i]) : slice[off[i - 1] + k] = rows[i][k]

LEMMA GrowingOffsets ==
  ASSUME NEW n \in Nat, NEW off \in [0 .. n -> Nat], \A i \in 1 .. n : off[i - 1] <= off[i]
  PROVE  \A i \in 0 .. n : \A a \in 0 .. i : off[a] <= off[i]
<1> DEFINE S == {i \in 0 .. n : \A a \in 0 .. i : off[a] <= off[i]}
<1>1. 0 \in S
  OBVIOUS
<1>2. \A k \in 0 .. n - 1 : k \in S => k + 1 \in S
  <2> SUFFICES ASSUME NEW k \in 0 .. n - 1, k \in S, NEW a \in 0 .. k + 1 PROVE off[a] <= off[k + 1]
    OBVIOUS
  <2>1. k + 1 \in 1 .. n /\ (k + 1) - 1 = k /\ k \in 0 .. n /\ k + 1 \in 0 .. n /\ a \in 0 .. n
    OBVIOUS
  <2>2. off[k] <= off[k + 1] /\ off[k] \in Nat /\ off[k + 1] \in Nat /\ off[a] \in Nat
    BY <2>1
  <2>3. CASE a = k + 1
    BY <2>2, <2>3
  <2>4. CASE a # k + 1
    <3>1. a \in 0 .. k
      BY <2>4
    <3>2. off[a] <= off[k]
      BY <3>1
    <3> QED BY <2>2, <3>2
  <2> QED BY <2>3, <2>4
<1>3. 0 .. n \subseteq S
  <2> HIDE DEF S
  <2> QED BY <1>1, <1>2, AllUpTo
<1> QED BY <1>3

LEMMA OffsetsGrow ==
  ASSUME NEW a \in Nat, NEW l \in Nat, NEW b, b = a + l
  PROVE  a <= b
<1> QED OBVIOUS

LEMMA PlaceInRow ==
  ASSUME NEW a \in Nat, NEW l \in Nat, NEW b, NEW n \in Nat, b <= n, b = a + l, NEW k \in 1 .. l
  PROVE  a + k \in 1 .. n
<1> QED OBVIOUS

LEMMA PlaceBefore ==
  ASSUME NEW a \in Nat, NEW l \in Nat, NEW k \in Nat, k <= l, NEW p, p = a + k, NEW b \in 1 .. k - 1
  PROVE  b \in 1 .. l /\ a + b \in 1 .. p - 1
<1> QED OBVIOUS

LEMMA ConcatPlaces ==
  ASSUME NEW n \in Nat, NEW rows, AreLists(rows, n), NEW slice, NEW off, Concatenates(slice, rows, n, off)
  PROVE  /\ \A i \in 1 .. n : \A k \in 1 .. Len(rows[i]) : off[i - 1] + k \in 1 .. Len(slice)
         /\ \A p \in 1 .. Len(slice) : \E i \in 1 .. n : \E k \in 1 .. Len(rows[i]) : p = off[i - 1] + k
         /\ \A i \in 1 .. n : \A a \in 1 .. i - 1 : \A b \in 1 .. Len(rows[a]) : off[a - 1] + b <= off[i - 1]
<1>1. /\ off \in [0 .. n -> Nat] /\ off[0] = 0 /\ Len(slice) = off[n]
      /\ \A i \in 1 .. n : off[i] = off[i - 1] + Len(rows[i])
  BY DEF Concatenates
<1>2. \A i \in 1 .. n : Len(rows[i]) \in Nat
  BY DEF AreLists, IsList, IsSlice
<1>3. \A i \in 1 .. n : off[i - 1] \in Nat /\ off[i] \in Nat /\ off[i - 1] <= off[i]
  <2> TAKE i \in 1 .. n
  <2>1. i - 1 \in 0 .. n /\ i \in 0 .. n
    OBVIOUS
  <2>2. off[i - 1] \in Nat /\ off[i] \in Nat
    BY <1>1, <2>1
  <2>3. off[i] = off[i - 1] + Len(rows[i]) /\ Len(rows[i]) \in Nat
    BY Zenon, <1>1, <1>2
  <2>4. off[i - 1] <= off[i]
    BY Zenon, <2>2, <2>3, OffsetsGrow
  <2> QED BY <2>2, <2>4
<1>4. \A i \in 0 .. n : \A a \in 0 .. i : off[a] <= off[i]
  BY <1>1, <1>3, GrowingOffsets
<1>5. ASSUME NEW i \in 1 .. n, NEW k \in 1 .. Len(rows[i]) PROVE off[i - 1] + k \in 1 .. Len(slice)
  <2>1. off[i] <= off[n] /\ off[n] \in Nat
    <3>1. n \in 0 .. n /\ i \in 0 .. n
      OBVIOUS
    <3> QED BY <1>1, <1>4, <3>1
  <2>2. off[i] = off[i - 1] + Len(rows[i]) /\ off[i - 1] \in Nat /\ Len(rows[i]) \in Nat
    BY <1>1, <1>2, <1>3
  <2>3. off[i - 1] + k \in 1 .. off[n]
    BY Zenon, <2>1, <2>2, PlaceInRow
  <2> QED BY Zenon, <1>1, <2>3
<1>6. ASSUME NEW p \in 1 .. Len(slice)
      PROVE  \E i \in 1 .. n : \E k \in 1 .. Len(rows[i]) : p = off[i - 1] + k
  <2> DEFINE Ends == {i \in 0 .. n : p <= off[i]}
  <2>1. n \in Ends /\ Ends \subseteq Nat
    BY <1>1
  <2>2. PICK i \in Ends : \A a \in Ends : i <= a
    <3> HIDE DEF Ends
    <3> QED BY <2>1, LeastNatural
  <2>3. i \in 1 .. n /\ p <= off[i]
    <3>1. off[0] = 0 /\ p >= 1
      BY <1>1
    <3>2. i # 0
      BY <2>2, <3>1
    <3> QED BY <2>2, <3>2
  <2>4. i - 1 \in 0 .. n /\ i - 1 \notin Ends
    BY <2>2, <2>3
  <2>5. ~(p <= off[i - 1])
    BY <2>4
  <2>6. off[i] = off[i - 1] + Len(rows[i]) /\ off[i - 1] \in Nat /\ Len(rows[i]) \in Nat
    BY <1>1, <1>2, <1>3, <2>3
  <2> HIDE DEF Ends
  <2>7. p - off[i - 1] \in 1 .. Len(rows[i]) /\ p = off[i - 1] + (p - off[i - 1])
    BY <2>3, <2>5, <2>6
  <2> QED BY <2>3, <2>7
<1>7. ASSUME NEW i \in 1 .. n, NEW a \in 1 .. i - 1, NEW b \in 1 .. Len(rows[a])
      PROVE  off[a - 1] + b <= off[i - 1]
  <2>1. a \in 1 .. n /\ i - 1 \in 0 .. n /\ a \in 0 .. i - 1
    OBVIOUS
  <2>2. off[a] <= off[i - 1] /\ off[i - 1] \in Nat
    BY <1>1, <1>4, <2>1
  <2>3. off[a] = off[a - 1] + Len(rows[a]) /\ off[a - 1] \in Nat /\ Len(rows[a]) \in Nat
    BY <1>1, <1>2, <1>3, <2>1
  <2> QED BY <2>2, <2>3
<1> QED BY <1>5, <1>6, <1>7

LEMMA Flattened ==
  ASSUME NEW n \in Nat \ {0}, NEW rows, AreLists(rows, n)
  PROVE  \E off : Concatenates(FlattenSeq(rows), rows, n, off)
<1> DEFINE T == UNION {{rows[i][k] : k \in 1 .. Len(rows[i])} : i \in 1 .. n}
<1>1. \A i \in 1 .. n : rows[i] \in Seq(T)
  <2> TAKE i \in 1 .. n
  <2>1. IsList(rows[i])
    BY DEF AreLists
  <2>2. \A k \in 1 .. Len(rows[i]) : rows[i][k] \in T
    OBVIOUS
  <2> HIDE DEF T
  <2> QED BY <2>1, <2>2, ListOfItems
<1>2. DOMAIN rows = 1 .. n
  BY DEF AreLists
<1> HIDE DEF T
<1>3. PICK F \in [0 .. n -> Seq(T)] :
        F[0] = << >> /\ (\A i \in 1 .. n : F[i] = F[i - 1] \o rows[i]) /\ FlattenSeq(rows) = F[n]
  <2>1. ListsOver(rows, n, T)
    BY <1>1, <1>2 DEF ListsOver
  <2>2. \E F \in [0 .. n -> Seq(T)] : FlattensBy(rows, n, F)
    BY Zenon, <2>1, FlattenRecursion
  <2> QED BY <2>2 DEF FlattensBy
<1> DEFINE off == [i \in 0 .. n |-> Len(F[i])]
<1>4. \A i \in 0 .. n : F[i] \in Seq(T) /\ off[i] = Len(F[i]) /\ off[i] \in Nat
  BY <1>3
<1>5. off \in [0 .. n -> Nat] /\ off[0] = 0
  <2>1. off[0] = Len(F[0]) /\ F[0] = << >>
    BY <1>3
  <2>2. off \in [0 .. n -> Nat]
    BY <1>4
  <2> HIDE DEF off
  <2> QED BY <2>1, <2>2
<1> HIDE DEF off
<1>6. ASSUME NEW i \in 1 .. n
      PROVE  /\ off[i] = off[i - 1] + Len(rows[i])
             /\ \A k \in 1 .. off[i - 1] : F[i][k] = F[i - 1][k]
             /\ \A k \in 1 .. Len(rows[i]) : F[i][off[i - 1] + k] = rows[i][k]
  <2>1. i - 1 \in 0 .. n /\ i \in 0 .. n
    OBVIOUS
  <2>2. F[i - 1] \in Seq(T) /\ rows[i] \in Seq(T) /\ F[i] = F[i - 1] \o rows[i]
    BY <1>1, <1>3, <2>1
  <2>3. off[i - 1] = Len(F[i - 1]) /\ off[i] = Len(F[i]) /\ Len(rows[i]) \in Nat /\ off[i - 1] \in Nat
    <3>1. off[i] = Len(F[i]) /\ Len(rows[i]) \in Nat
      <4>1. off[i] = Len(F[i])
        BY Zenon, <1>4, <2>1
      <4>2. Len(rows[i]) \in Nat
        BY <2>2
      <4> QED BY <4>1, <4>2
    <3>2. off[i - 1] = Len(F[i - 1]) /\ off[i - 1] \in Nat
      BY <1>4, <2>1
    <3> QED BY <3>1, <3>2
  <2> DEFINE u == F[i - 1]
             v == rows[i]
  <2> HIDE DEF u, v
  <2>4. /\ Len(u \o v) = Len(u) + Len(v)
        /\ \A k \in 1 .. Len(u) : (u \o v)[k] = u[k]
        /\ \A k \in 1 .. Len(v) : (u \o v)[Len(u) + k] = v[k]
    <3>1. u \in Seq(T) /\ v \in Seq(T)
      BY <2>2 DEF u, v
    <3> QED BY <3>1
  <2> QED BY <2>2, <2>3, <2>4 DEF u, v
<1>7. \A i \in 0 .. n : \A a \in 0 .. i : off[a] <= off[i]
  <2>1. \A i \in 1 .. n : off[i - 1] <= off[i]
    <3> TAKE i \in 1 .. n
    <3>1. i - 1 \in 0 .. n /\ Len(rows[i]) \in Nat
      BY <1>1
    <3>2. off[i] = off[i - 1] + Len(rows[i])
      BY Zenon, <1>6
    <3>3. off[i - 1] \in Nat
      BY Zenon, <1>4, <3>1
    <3> QED BY Zenon, <3>1, <3>2, <3>3, OffsetsGrow
  <2> QED BY <1>5, <2>1, GrowingOffsets
<1> DEFINE S == {m \in 0 .. n : \A i \in 1 .. m : \A k \in 1 .. Len(rows[i]) : F[m][off[i - 1] + k] = rows[i][k]}
<1>8. 0 .. n \subseteq S
  <2>1. 0 \in S
    OBVIOUS
  <2>2. \A m \in 0 .. n - 1 : m \in S => m + 1 \in S
    <3> SUFFICES ASSUME NEW m \in 0 .. n - 1, m \in S, NEW i \in 1 .. m + 1, NEW k \in 1 .. Len(rows[i])
                 PROVE  F[m + 1][off[i - 1] + k] = rows[i][k]
      <4>1. \A a \in 0 .. n - 1 : a + 1 \in 0 .. n
        OBVIOUS
      <4> QED BY <4>1
    <3>1. m + 1 \in 1 .. n /\ (m + 1) - 1 = m /\ i \in 1 .. n /\ i - 1 \in 0 .. n /\ m \in 0 .. n
      OBVIOUS
    <3>2. CASE i = m + 1
      <4>1. F[m + 1][off[m] + k] = rows[m + 1][k]
        BY <1>6, <3>1, <3>2
      <4> QED BY <3>1, <3>2, <4>1
    <3>3. CASE i # m + 1
      <4>1. i \in 1 .. m /\ i \in 0 .. m
        BY <3>3
      <4>2. F[m][off[i - 1] + k] = rows[i][k]
        BY <4>1
      <4>3. off[i - 1] + k \in 1 .. off[m]
        <5>1. off[i] <= off[m] /\ off[i] = off[i - 1] + Len(rows[i])
          <6>1. off[i] <= off[m]
            BY <1>7, <3>1, <4>1
          <6>2. off[i] = off[i - 1] + Len(rows[i])
            BY <1>6, <3>1
          <6> QED BY <6>1, <6>2
        <5>2. off[i - 1] \in Nat /\ off[m] \in Nat /\ Len(rows[i]) \in Nat
          <6>1. off[i - 1] \in Nat /\ off[m] \in Nat
            BY Zenon, <1>4, <3>1
          <6>2. Len(rows[i]) \in Nat
            BY <1>1, <3>1
          <6> QED BY <6>1, <6>2
        <5> HIDE DEF S
        <5> QED BY Zenon, <5>1, <5>2, PlaceInRow
      <4>4. F[m + 1][off[i - 1] + k] = F[m][off[i - 1] + k]
        <5>1. \A c \in 1 .. off[(m + 1) - 1] : F[m + 1][c] = F[(m + 1) - 1][c]
          BY Zenon, <1>6, <3>1
        <5> QED BY <3>1, <4>3, <5>1
      <4> QED BY <4>2, <4>4
    <3> QED BY <3>2, <3>3
  <2> HIDE DEF S
  <2> QED BY <2>1, <2>2, AllUpTo
<1>9. \A i \in 1 .. n : \A k \in 1 .. Len(rows[i]) : F[n][off[i - 1] + k] = rows[i][k]
  <2>1. n \in S
    BY <1>8
  <2> QED BY <2>1
<1>10. IsList(F[n]) /\ Len(F[n]) = off[n]
  <2>1. F[n] \in Seq(T)
    BY <1>4
  <2>2. Len(F[n]) \in Nat /\ DOMAIN F[n] = 1 .. Len(F[n]) /\ F[n] = [k \in 1 .. Len(F[n]) |-> F[n][k]]
    BY <2>1
  <2> QED BY <1>4, <2>2 DEF IsList, IsSlice
<1>11. Concatenates(F[n], rows, n, off)
  BY <1>5, <1>6, <1>9, <1>10 DEF Concatenates
<1> QED BY <1>3, <1>11

(* A plan of one slice whose steps are listed row by row: conditions on the k-th step of
   the i-th row.                                                                    *)
Earlier(rows, i, k) ==
  (UNION {rows[i][b].writes : b \in 1 .. k - 1}) \cup
  (UNION {UNION {rows[a][b].writes : b \in 1 .. Len(rows[a])} : a \in 1 .. i - 1})

RowsPlain(j, rows, n) ==
  \A i \in 1 .. n : \A k \in 1 .. Len(rows[i]) :
    /\ PlainStep(rows[i][k])
    /\ rows[i][k].writes \subseteq Cells(j) /\ rows[i][k].loads \subseteq Samples(j.source)
    /\ rows[i][k].takes \subseteq 0 .. j.size - 1
    /\ rows[i][k].reads \subseteq Earlier(rows, i, k)

RowsApart(rows, n) ==
  \A i \in 1 .. n : \A a \in 1 .. n : \A k \in 1 .. Len(rows[i]) : \A b \in 1 .. Len(rows[a]) :
    <<i, k>> # <<a, b>> =>
      rows[i][k].writes \cap rows[a][b].writes = {} /\ rows[i][k].takes \cap rows[a][b].takes = {}

RowsCover(j, rows, n) ==
  \A y \in 0 .. j.h - 1, x \in 0 .. j.w - 1 :
    \E i \in 1 .. n : \E k \in 1 .. Len(rows[i]) : <<y, x>> \in rows[i][k].writes

LEMMA RowsPlan ==
  ASSUME NEW j, IsImage(j), NEW n \in Nat \ {0}, NEW rows, AreLists(rows, n),
         RowsPlain(j, rows, n), RowsApart(rows, n), RowsCover(j, rows, n)
  PROVE  Plain(j, << FlattenSeq(rows) >>)
<1> DEFINE slice == FlattenSeq(rows)
           plan == << slice >>
<1>1. PICK off : Concatenates(slice, rows, n, off)
  BY Zenon, Flattened
<1> HIDE DEF slice
<1>2. /\ \A i \in 1 .. n : \A k \in 1 .. Len(rows[i]) : off[i - 1] + k \in 1 .. Len(slice)
      /\ \A p \in 1 .. Len(slice) : \E i \in 1 .. n : \E k \in 1 .. Len(rows[i]) : p = off[i - 1] + k
      /\ \A i \in 1 .. n : \A a \in 1 .. i - 1 : \A b \in 1 .. Len(rows[a]) : off[a - 1] + b <= off[i - 1]
  BY Zenon, <1>1, ConcatPlaces
<1>3. /\ \A i \in 1 .. n : \A k \in 1 .. Len(rows[i]) : slice[off[i - 1] + k] = rows[i][k]
      /\ IsSlice(slice) /\ off \in [0 .. n -> Nat]
  BY <1>1 DEF Concatenates, IsList
<1>4. Len(slice) \in Nat /\ DOMAIN slice = 1 .. Len(slice)
  BY <1>3 DEF IsSlice
<1>5. \A i \in 1 .. n : Len(rows[i]) \in Nat /\ off[i - 1] \in Nat
  <2> TAKE i \in 1 .. n
  <2>1. i - 1 \in 0 .. n
    OBVIOUS
  <2> QED BY <1>3, <2>1 DEF AreLists, IsList, IsSlice
<1>6. ASSUME NEW p \in 1 .. Len(slice) PROVE StepIsPlain(j, slice, p)
  <2>1. PICK i \in 1 .. n : \E k \in 1 .. Len(rows[i]) : p = off[i - 1] + k
    BY <1>2
  <2>2. PICK k \in 1 .. Len(rows[i]) : p = off[i - 1] + k
    BY <2>1
  <2>3. slice[p] = rows[i][k]
    BY <1>3, <2>2
  <2>4. Earlier(rows, i, k) \subseteq WrittenBefore(slice, p)
    <3> SUFFICES ASSUME NEW c \in Earlier(rows, i, k) PROVE c \in WrittenBefore(slice, p)
      OBVIOUS
    <3>0. /\ k \in Nat /\ Len(rows[i]) \in Nat /\ off[i - 1] \in Nat /\ k <= Len(rows[i])
      BY <1>5
    <3>1. CASE \E b \in 1 .. k - 1 : c \in rows[i][b].writes
      <4>1. PICK b \in 1 .. k - 1 : c \in rows[i][b].writes
        BY <3>1
      <4>2. b \in 1 .. Len(rows[i]) /\ off[i - 1] + b \in 1 .. p - 1
        <5>1. k \in Nat /\ Len(rows[i]) \in Nat /\ off[i - 1] \in Nat /\ k <= Len(rows[i])
          BY <3>0
        <5>2. p = off[i - 1] + k /\ b \in 1 .. k - 1
          BY <2>2
        <5> DEFINE o == off[i - 1]
                   l == Len(rows[i])
        <5> HIDE DEF o, l
        <5>3. k \in Nat /\ l \in Nat /\ o \in Nat /\ k <= l /\ p = o + k /\ b \in 1 .. k - 1
          BY Zenon, <5>1, <5>2 DEF o, l
        <5>4. b \in 1 .. l /\ o + b \in 1 .. p - 1
          BY <5>3
        <5> QED BY Zenon, <5>4 DEF o, l
      <4>3. slice[off[i - 1] + b] = rows[i][b]
        BY <1>3, <4>2
      <4> QED BY <4>1, <4>2, <4>3 DEF WrittenBefore
    <3>2. CASE \E a \in 1 .. i - 1 : \E b \in 1 .. Len(rows[a]) : c \in rows[a][b].writes
      <4>1. PICK a \in 1 .. i - 1 : \E b \in 1 .. Len(rows[a]) : c \in rows[a][b].writes
        BY <3>2
      <4>2. PICK b \in 1 .. Len(rows[a]) : c \in rows[a][b].writes
        BY <4>1
      <4>3. a \in 1 .. n
        OBVIOUS
      <4>4. off[a - 1] + b <= off[i - 1] /\ off[a - 1] \in Nat /\ Len(rows[a]) \in Nat
        BY <1>2, <1>5, <4>3
      <4>5. off[a - 1] + b \in 1 .. p - 1
        <5>1. b \in Nat /\ b >= 1
          BY <4>4
        <5> DEFINE u == off[a - 1]
                   v == off[i - 1]
        <5>2. u \in Nat /\ v \in Nat /\ u + b <= v /\ p = v + k
          BY <2>2, <3>0, <4>4
        <5> HIDE DEF u, v
        <5>3. u + b \in 1 .. p - 1
          BY <5>1, <5>2
        <5> QED BY <5>3 DEF u
      <4>6. slice[off[a - 1] + b] = rows[a][b]
        BY <1>3, <4>3
      <4> QED BY <4>2, <4>5, <4>6 DEF WrittenBefore
    <3> QED BY <3>1, <3>2 DEF Earlier
  <2> QED BY <2>3, <2>4 DEF RowsPlain, StepIsPlain
<1>7. ASSUME NEW p \in 1 .. Len(slice), NEW q \in 1 .. Len(slice), p # q
      PROVE  slice[p].writes \cap slice[q].writes = {} /\ slice[p].takes \cap slice[q].takes = {}
  <2>1. PICK i \in 1 .. n : \E k \in 1 .. Len(rows[i]) : p = off[i - 1] + k
    BY <1>2
  <2>2. PICK k \in 1 .. Len(rows[i]) : p = off[i - 1] + k
    BY <2>1
  <2>3. PICK a \in 1 .. n : \E b \in 1 .. Len(rows[a]) : q = off[a - 1] + b
    BY <1>2
  <2>4. PICK b \in 1 .. Len(rows[a]) : q = off[a - 1] + b
    BY <2>3
  <2>5. slice[p] = rows[i][k] /\ slice[q] = rows[a][b]
    BY <1>3, <2>2, <2>4
  <2>6. <<i, k>> # <<a, b>>
    BY <1>7, <2>2, <2>4
  <2>7. /\ rows[i][k].writes \cap rows[a][b].writes = {}
        /\ rows[i][k].takes \cap rows[a][b].takes = {}
    BY Zenon, <2>6 DEF RowsApart
  <2> QED BY <2>5, <2>7
<1>8. DOMAIN plan = {1} /\ plan[1] = slice
  OBVIOUS
<1> HIDE DEF plan
<1>9. WritesApart(plan) /\ TakesApart(plan)
  <2> SUFFICES ASSUME NEW s \in DOMAIN plan, NEW t \in DOMAIN plan, NEW k \in DOMAIN plan[s],
                      NEW l \in DOMAIN plan[t], <<s, k>> # <<t, l>>
               PROVE  /\ plan[s][k].writes \cap plan[t][l].writes = {}
                      /\ plan[s][k].takes \cap plan[t][l].takes = {}
    BY DEF WritesApart, TakesApart
  <2>1. s = 1 /\ t = 1
    BY <1>8
  <2>2. k # l /\ k \in 1 .. Len(slice) /\ l \in 1 .. Len(slice)
    BY <1>4, <1>8, <2>1
  <2> QED BY <1>7, <1>8, <2>1, <2>2
<1>10. WritesCover(j, plan)
  <2> SUFFICES ASSUME NEW c \in Samples(j)
               PROVE  \E s \in DOMAIN plan : \E k \in DOMAIN plan[s] : c \in plan[s][k].writes
    BY DEF WritesCover
  <2>1. PICK y \in 0 .. j.h - 1, x \in 0 .. j.w - 1 : c = <<y, x>>
    BY SampleIs
  <2>2. PICK i \in 1 .. n : \E k \in 1 .. Len(rows[i]) : c \in rows[i][k].writes
    BY <2>1 DEF RowsCover
  <2>3. PICK k \in 1 .. Len(rows[i]) : c \in rows[i][k].writes
    BY <2>2
  <2>4. off[i - 1] + k \in DOMAIN plan[1] /\ plan[1][off[i - 1] + k] = rows[i][k]
    BY <1>2, <1>3, <1>4, <1>8
  <2> QED BY <1>8, <2>3, <2>4
<1>11. 0 \notin DOMAIN plan
  BY <1>8
<1>12. \A s \in DOMAIN plan : IsSlice(plan[s]) /\ \A k \in DOMAIN plan[s] : StepIsPlain(j, plan[s], k)
  BY <1>3, <1>4, <1>6, <1>8
<1>13. Plain(j, plan)
  BY <1>9, <1>10, <1>11, <1>12 DEF Plain
<1> QED BY <1>13 DEF plan, slice
-----------------------------------------------------------------------------
(* The decompressors whose rows are written from left to right.                     *)
LEMMA StepFields ==
  ASSUME NEW writes, NEW reads, NEW takes
  PROVE  LET step == Step(writes, reads, takes)
         IN  /\ PlainStep(step) /\ step.loads = {}
             /\ step.writes = writes /\ step.reads = reads /\ step.takes = takes
BY DEF Step, PlainStep

LEMMA RowInside ==
  ASSUME NEW j, IsImage(j), NEW y \in 0 .. j.h - 1, NEW first \in Nat, NEW width \in Nat,
         first + width <= j.w
  PROVE  /\ Row(y, first, width) \subseteq Samples(j)
         /\ Row(y, first, width) \subseteq Cells(j)
BY DEF Row, Samples, Cells, IsImage

(* One slice that writes a whole row in each step and predicts from earlier rows.    *)
WritesRows(j, slice) ==
  \A k \in 1 .. j.h :
    /\ PlainStep(slice[k]) /\ slice[k].loads = {}
    /\ slice[k].writes = WholeRow(k - 1, j)
    /\ slice[k].takes \subseteq 0 .. j.size - 1
    /\ \A c \in slice[k].reads : \E y \in 0 .. k - 2 : c \in WholeRow(y, j)

LEMMA RowsArePlain ==
  ASSUME NEW j, IsImage(j), NEW slice, DOMAIN slice = 1 .. j.h, WritesRows(j, slice),
         \A k, l \in 1 .. j.h : k # l => slice[k].takes \cap slice[l].takes = {}
  PROVE  Plain(j, << slice >>)
<1> DEFINE plan == << slice >>
<1>1. j.w \in Nat /\ j.h \in Nat
  BY DEF IsImage
<1>2. DOMAIN plan = 1 .. 1 /\ \A s \in 1 .. 1 : plan[s] = slice
  OBVIOUS
<1> HIDE DEF plan
<1>3. Numbered(plan, 1, j.h)
  BY <1>2 DEF Numbered
<1>4. \A k \in 1 .. j.h : slice[k].writes = {<<k - 1, x>> : x \in 0 .. j.w - 1}
  BY <1>1 DEF WritesRows, WholeRow, Row
<1>5. ASSUME NEW k \in 1 .. j.h PROVE StepIsPlain(j, slice, k)
  <2>1. slice[k].writes \subseteq Cells(j)
    BY <1>1, <1>4 DEF Cells, Samples
  <2>2. slice[k].reads \subseteq WrittenBefore(slice, k)
    <3> SUFFICES ASSUME NEW c \in slice[k].reads PROVE c \in WrittenBefore(slice, k)
      OBVIOUS
    <3>1. PICK y \in 0 .. k - 2 : c \in WholeRow(y, j)
      BY DEF WritesRows
    <3>2. y + 1 \in 1 .. j.h /\ y + 1 \in 1 .. k - 1 /\ (y + 1) - 1 = y
      BY <1>1
    <3>3. c \in slice[y + 1].writes
      BY <3>1, <3>2 DEF WritesRows
    <3> QED BY <3>2, <3>3 DEF WrittenBefore
  <2> QED BY <2>1, <2>2 DEF StepIsPlain, WritesRows
<1>6. StepsPlain(j, plan, 1, j.h)
  BY <1>2, <1>5 DEF StepsPlain
<1>7. \A k, l \in 1 .. j.h : k # l => slice[k].writes \cap slice[l].writes = {}
  BY <1>4
<1>8. StepsApart(plan, 1, j.h)
  <2> SUFFICES ASSUME NEW s \in 1 .. 1, NEW t \in 1 .. 1, NEW k \in 1 .. j.h, NEW l \in 1 .. j.h,
                      <<s, k>> # <<t, l>>
               PROVE  /\ plan[s][k].writes \cap plan[t][l].writes = {}
                      /\ plan[s][k].takes \cap plan[t][l].takes = {}
    BY DEF StepsApart
  <2>1. k # l /\ plan[s] = slice /\ plan[t] = slice
    BY <1>2
  <2> QED BY <1>7, <2>1
<1>9. StepsCover(j, plan, 1, j.h)
  <2> SUFFICES ASSUME NEW y \in 0 .. j.h - 1, NEW x \in 0 .. j.w - 1
               PROVE  \E s \in 1 .. 1 : \E k \in 1 .. j.h : <<y, x>> \in plan[s][k].writes
    BY DEF StepsCover
  <2>1. y + 1 \in 1 .. j.h /\ (y + 1) - 1 = y /\ plan[1] = slice
    BY <1>1, <1>2
  <2>2. <<y, x>> \in plan[1][y + 1].writes
    BY <1>4, <2>1
  <2>3. 1 \in 1 .. 1
    OBVIOUS
  <2> QED BY Zenon, <2>1, <2>2, <2>3
<1>10. 1 \in Nat
  OBVIOUS
<1>11. Plain(j, plan)
  BY Zenon, <1>1, <1>3, <1>6, <1>8, <1>9, <1>10, NumberedPlan
<1> QED BY <1>11 DEF plan

(* Pentax and Samsung V1: the first two samples two rows up are there.              *)
LEMMA TwoUpIsPlain ==
  ASSUME NEW j, IsImage(j), PentaxAccepts(j) \/ SamsungV1Accepts(j)
  PROVE  Plain(j, TwoUpWork(j))
<1> DEFINE slice == [i \in 1 .. j.h |-> Step(WholeRow(i - 1, j), TwoUp(i - 1), {})]
<1>1. j.w \in Nat /\ j.h \in Nat /\ j.w >= 2
  BY DEF IsImage, PentaxAccepts, SamsungV1Accepts, NotEmpty
<1>2. \A k \in 1 .. j.h : slice[k] = Step(WholeRow(k - 1, j), TwoUp(k - 1), {})
  OBVIOUS
<1>3. DOMAIN slice = 1 .. j.h /\ TwoUpWork(j) = << slice >>
  BY DEF TwoUpWork
<1> HIDE DEF slice
<1>4. ASSUME NEW k \in 1 .. j.h, NEW c \in TwoUp(k - 1)
      PROVE  \E y \in 0 .. k - 2 : c \in WholeRow(y, j)
  <2>1. k >= 3 /\ k \in Nat /\ c \in {<<k - 3, 0>>, <<k - 3, 1>>}
    BY <1>1 DEF TwoUp
  <2>2. c \in WholeRow(k - 3, j) /\ k - 3 \in 0 .. k - 2
    BY <1>1, <2>1 DEF WholeRow, Row
  <2> QED BY <2>2
<1>5. WritesRows(j, slice)
  BY <1>2, <1>4, StepFields DEF WritesRows
<1>6. \A k, l \in 1 .. j.h : k # l => slice[k].takes \cap slice[l].takes = {}
  BY <1>2, StepFields
<1> QED BY <1>3, <1>5, <1>6, RowsArePlain

(* s is u with v behind it.                                                        *)
Joins(s, u, v) ==
  /\ IsSlice(s) /\ Len(s) = Len(u) + Len(v)
  /\ \A k \in 1 .. Len(u) : s[k] = u[k]
  /\ \A k \in 1 .. Len(v) : s[Len(u) + k] = v[k]

LEMMA Joined ==
  ASSUME NEW u, NEW v, IsList(u), IsList(v)
  PROVE  Joins(u \o v, u, v)
<1> DEFINE T == {u[k] : k \in 1 .. Len(u)} \cup {v[k] : k \in 1 .. Len(v)}
<1>1. \A k \in 1 .. Len(u) : u[k] \in T
  OBVIOUS
<1>2. \A k \in 1 .. Len(v) : v[k] \in T
  OBVIOUS
<1> HIDE DEF T
<1>3. u \in Seq(T) /\ v \in Seq(T)
  BY <1>1, <1>2, ListOfItems
<1>4. u \o v \in Seq(T)
  BY <1>3
<1>5. IsSlice(u \o v)
  BY <1>4 DEF IsSlice
<1>6. /\ Len(u \o v) = Len(u) + Len(v)
      /\ \A k \in 1 .. Len(u) : (u \o v)[k] = u[k]
      /\ \A k \in 1 .. Len(v) : (u \o v)[Len(u) + k] = v[k]
  BY <1>3
<1> QED BY <1>5, <1>6 DEF Joins

LEMMA JoinedLists ==
  ASSUME NEW u, NEW v, NEW s, IsList(u), IsList(v), s = u \o v
  PROVE  Joins(s, u, v)
<1> QED BY Zenon, Joined

LEMMA ListIs ==
  ASSUME NEW n \in Nat, NEW f, f = [k \in 1 .. n |-> f[k]]
  PROVE  IsList(f) /\ Len(f) = n
<1>1. DOMAIN f = 1 .. n
  OBVIOUS
<1>2. Len(f) = n /\ IsSlice(f)
  BY <1>1, ListedSlice
<1> QED BY <1>2 DEF IsList

(* Nikon: the two parts of a split image follow one another.                        *)
LEMMA RowsListed ==
  ASSUME NEW j, NEW start \in Nat, NEW end \in Nat, start <= end
  PROVE  /\ IsList(RowsFromTo(start, end, j)) /\ Len(RowsFromTo(start, end, j)) = end - start
         /\ \A i \in 1 .. end - start : RowsFromTo(start, end, j)[i] = Write(WholeRow(start + i - 1, j))
<1> DEFINE n == end - start
           f == [i \in 1 .. n |-> Write(WholeRow(start + i - 1, j))]
<1>1. (\A i \in 1 .. n : f[i] = Write(WholeRow(start + i - 1, j))) /\ n \in Nat
  OBVIOUS
<1>2. f = [i \in 1 .. n |-> f[i]]
  OBVIOUS
<1>3. f = RowsFromTo(start, end, j)
  BY DEF RowsFromTo
<1> HIDE DEF f, n
<1>4. IsList(f) /\ Len(f) = n
  BY <1>1, <1>2, ListIs
<1> QED BY <1>1, <1>3, <1>4 DEF n

LEMMA NikonIsPlain ==
  ASSUME NEW j, IsImage(j), j.split \in Nat, NikonAccepts(j)
  PROVE  Plain(j, NikonWork(j))
<1> DEFINE S == Split(j)
           slice == IF S = 0 THEN RowsFromTo(0, j.h, j) ELSE RowsFromTo(0, S, j) \o RowsFromTo(S, j.h, j)
<1>1. j.w \in Nat /\ j.h \in Nat /\ S \in Nat /\ (S = 0 \/ S < j.h)
  BY DEF IsImage, Split
<1>2. /\ IsSlice(slice) /\ Len(slice) = j.h
      /\ \A k \in 1 .. j.h : slice[k] = Write(WholeRow(k - 1, j))
  <2>1. CASE S = 0
    <3>1. j.h - 0 = j.h /\ 0 \in Nat /\ 0 <= j.h /\ slice = RowsFromTo(0, j.h, j)
      BY <1>1, <2>1
    <3> HIDE DEF slice
    <3>2. /\ IsList(slice) /\ Len(slice) = j.h
          /\ \A k \in 1 .. j.h : slice[k] = Write(WholeRow(0 + k - 1, j))
      BY <1>1, <3>1, RowsListed
    <3>3. \A k \in 1 .. j.h : 0 + k - 1 = k - 1
      BY <1>1
    <3> QED BY <3>2, <3>3 DEF IsList
  <2>2. CASE S # 0
    <3> DEFINE u == RowsFromTo(0, S, j)
               v == RowsFromTo(S, j.h, j)
               m == j.h - S
    <3>1. slice = u \o v
      BY <2>2
    <3>2. /\ S <= j.h /\ 0 \in Nat /\ 0 <= S /\ S - 0 = S /\ m \in Nat /\ S + m = j.h
      BY <1>1, <2>2
    <3> HIDE DEF S, slice
    <3>3. /\ IsList(u) /\ Len(u) = S
          /\ \A k \in 1 .. S : u[k] = Write(WholeRow(0 + k - 1, j))
      BY <1>1, <3>2, RowsListed
    <3>4. /\ IsList(v) /\ Len(v) = m
          /\ \A k \in 1 .. m : v[k] = Write(WholeRow(S + k - 1, j))
      BY <1>1, <3>2, RowsListed
    <3> HIDE DEF u, v, m
    <3>5. /\ IsSlice(slice) /\ Len(slice) = Len(u) + Len(v)
          /\ \A k \in 1 .. Len(u) : slice[k] = u[k]
          /\ \A k \in 1 .. Len(v) : slice[Len(u) + k] = v[k]
      <4>1. IsList(u) /\ IsList(v)
        BY <3>3, <3>4
      <4>2. Joins(slice, u, v)
        BY Zenon, <3>1, <4>1, JoinedLists
      <4> QED BY <4>2 DEF Joins
    <3>6. ASSUME NEW k \in 1 .. j.h PROVE slice[k] = Write(WholeRow(k - 1, j))
      <4>1. CASE k \in 1 .. S
        <5>1. 0 + k - 1 = k - 1
          OBVIOUS
        <5> QED BY <3>3, <3>5, <4>1, <5>1
      <4>2. CASE k - S \in 1 .. m
        <5> DEFINE i == k - S
        <5>1. i \in 1 .. m /\ S + i = k /\ S + i - 1 = k - 1
          BY <1>1, <4>2
        <5> HIDE DEF i
        <5> QED BY <3>3, <3>4, <3>5, <5>1
      <4>3. k \in 1 .. S \/ k - S \in 1 .. m
        BY <1>1, <3>2
      <4> QED BY <4>1, <4>2, <4>3
    <3> QED BY <3>2, <3>3, <3>4, <3>5, <3>6
  <2> QED BY <2>1, <2>2
<1>3. NikonWork(j) = << slice >>
  BY DEF NikonWork
<1> HIDE DEF slice
<1>4. DOMAIN slice = 1 .. j.h
  BY <1>2 DEF IsSlice
<1>5. WritesRows(j, slice)
  BY <1>2, StepFields DEF WritesRows, Write
<1>6. \A k, l \in 1 .. j.h : k # l => slice[k].takes \cap slice[l].takes = {}
  BY <1>2, StepFields DEF Write
<1> QED BY <1>3, <1>4, <1>5, <1>6, RowsArePlain

(* Phase One: a strip for each row.                                                *)
LEMMA PhaseOneIsPlain ==
  ASSUME NEW j, IsImage(j)
  PROVE  Plain(j, PhaseOneWork(j))
<1> DEFINE plan == PhaseOneWork(j)
<1>1. j.w \in Nat /\ j.h \in Nat
  BY DEF IsImage
<1>2. \A s \in 1 .. j.h : \A k \in 1 .. j.w : plan[s][k] = Write({<<s - 1, k - 1>>})
  BY DEF PhaseOneWork
<1>3. Numbered(plan, j.h, j.w)
  BY DEF PhaseOneWork, Numbered
<1> HIDE DEF plan
<1>4. \A s \in 1 .. j.h : \A k \in 1 .. j.w :
        /\ PlainStep(plan[s][k]) /\ plan[s][k].reads = {} /\ plan[s][k].loads = {}
        /\ plan[s][k].writes = {<<s - 1, k - 1>>} /\ plan[s][k].takes = {}
  <2> TAKE s \in 1 .. j.h
  <2> TAKE k \in 1 .. j.w
  <2>1. plan[s][k] = Step({<<s - 1, k - 1>>}, {}, {})
    BY <1>2 DEF Write
  <2> QED BY <2>1, StepFields
<1>5. \A s \in 1 .. j.h : \A k \in 1 .. j.w : <<s - 1, k - 1>> \in Cells(j)
  BY <1>1 DEF Cells, Samples
<1>6. StepsPlain(j, plan, j.h, j.w)
  BY <1>4, <1>5 DEF StepsPlain, StepIsPlain
<1>7. StepsApart(plan, j.h, j.w)
  <2> SUFFICES ASSUME NEW s \in 1 .. j.h, NEW t \in 1 .. j.h, NEW k \in 1 .. j.w, NEW l \in 1 .. j.w,
                      <<s, k>> # <<t, l>>
               PROVE  /\ plan[s][k].writes \cap plan[t][l].writes = {}
                      /\ plan[s][k].takes \cap plan[t][l].takes = {}
    BY DEF StepsApart
  <2>1. <<s - 1, k - 1>> # <<t - 1, l - 1>>
    BY <1>1
  <2> QED BY <1>4, <2>1
<1>8. StepsCover(j, plan, j.h, j.w)
  <2> SUFFICES ASSUME NEW y \in 0 .. j.h - 1, NEW x \in 0 .. j.w - 1
               PROVE  \E s \in 1 .. j.h : \E k \in 1 .. j.w : <<y, x>> \in plan[s][k].writes
    BY DEF StepsCover
  <2>1. y + 1 \in 1 .. j.h /\ x + 1 \in 1 .. j.w /\ (y + 1) - 1 = y /\ (x + 1) - 1 = x
    BY <1>1
  <2>2. <<y, x>> \in plan[y + 1][x + 1].writes
    BY <1>4, <2>1
  <2> QED BY <2>1, <2>2
<1>9. Plain(j, plan)
  BY <1>1, <1>3, <1>6, <1>7, <1>8, NumberedPlan
<1> QED BY <1>9 DEF plan

(* Sony ARW2: sixteen samples, every other one, then those between them.            *)
GroupOf(s, k) == {<<s - 1, GroupColumn(k - 1) + 2 * i>> : i \in 0 .. 15}
BytesOf(s, k, w) == (s - 1) * w + 16 * (k - 1) .. (s - 1) * w + 16 * (k - 1) + 15

LEMMA SonyArw2IsPlain ==
  ASSUME NEW j, IsImage(j), SonyArw2Accepts(j)
  PROVE  Plain(j, SonyArw2Work(j))
<1> DEFINE plan == SonyArw2Work(j)
           n == j.w \div 16
<1>1. /\ j.w \in Nat /\ j.h \in Nat /\ j.size \in Nat /\ j.w = 16 * n /\ n \in Nat /\ n % 2 = 0
      /\ j.w * j.h <= j.size
  BY DEF IsImage, SonyArw2Accepts
<1>2. \A s \in 1 .. j.h : \A k \in 1 .. n : plan[s][k] = Step(GroupOf(s, k), {}, BytesOf(s, k, j.w))
  BY DEF SonyArw2Work, GroupOf, BytesOf
<1>3. Numbered(plan, j.h, n)
  BY DEF SonyArw2Work, Numbered
<1> HIDE DEF plan, n
<1>4. \A s \in 1 .. j.h : \A k \in 1 .. n :
        /\ PlainStep(plan[s][k]) /\ plan[s][k].reads = {} /\ plan[s][k].loads = {}
        /\ plan[s][k].writes = GroupOf(s, k) /\ plan[s][k].takes = BytesOf(s, k, j.w)
  BY <1>2, StepFields
<1>5. \A k \in 1 .. n : GroupColumn(k - 1) \in Nat /\ \A i \in 0 .. 15 : GroupColumn(k - 1) + 2 * i \in 0 .. j.w - 1
  BY <1>1 DEF GroupColumn
<1>6. \A s \in 1 .. j.h : \A k \in 1 .. n : GroupOf(s, k) \subseteq Cells(j)
  <2> TAKE s \in 1 .. j.h
  <2> TAKE k \in 1 .. n
  <2>1. s - 1 \in 0 .. j.h - 1
    BY <1>1
  <2> QED BY <1>5, <2>1 DEF GroupOf, Cells, Samples
<1>7. \A s \in 1 .. j.h : \A k \in 1 .. n : BytesOf(s, k, j.w) \subseteq 0 .. j.size - 1
  <2> TAKE s \in 1 .. j.h
  <2> TAKE k \in 1 .. n
  <2> DEFINE a == (s - 1) * j.w
  <2>1. s - 1 \in Nat /\ s - 1 < j.h
    BY <1>1
  <2>2. a \in Nat /\ a + j.w <= j.h * j.w
    BY <1>1, <2>1, NextRow, TimesNat
  <2>3. j.h * j.w = j.w * j.h
    BY <1>1
  <2> DEFINE area == j.w * j.h
  <2>4. area \in Nat /\ area <= j.size /\ a + j.w <= area
    BY <1>1, <2>2, <2>3, TimesNat
  <2>5. BytesOf(s, k, j.w) = a + 16 * (k - 1) .. a + 16 * (k - 1) + 15
    BY DEF BytesOf
  <2> HIDE DEF a, area
  <2> QED BY <1>1, <2>2, <2>4, <2>5
<1>8. StepsPlain(j, plan, j.h, n)
  BY <1>4, <1>6, <1>7 DEF StepsPlain, StepIsPlain
<1>9. StepsApart(plan, j.h, n)
  <2> SUFFICES ASSUME NEW s \in 1 .. j.h, NEW t \in 1 .. j.h, NEW k \in 1 .. n, NEW l \in 1 .. n,
                      <<s, k>> # <<t, l>>
               PROVE  GroupOf(s, k) \cap GroupOf(t, l) = {} /\ BytesOf(s, k, j.w) \cap BytesOf(t, l, j.w) = {}
    BY <1>4 DEF StepsApart
  <2>1. CASE s = t
    <3>1. k # l
      BY <2>1
    <3>2. \A i, m \in 0 .. 15 : GroupColumn(k - 1) + 2 * i # GroupColumn(l - 1) + 2 * m
      BY <1>1, <3>1 DEF GroupColumn
    <3>3. GroupOf(s, k) \cap GroupOf(t, l) = {}
      BY <3>2 DEF GroupOf
    <3> DEFINE a == (s - 1) * j.w
    <3>4. a \in Nat
      <4>1. s - 1 \in Nat
        BY <1>1
      <4> QED BY <1>1, <4>1, TimesNat
    <3>5. /\ BytesOf(s, k, j.w) = a + 16 * (k - 1) .. a + 16 * (k - 1) + 15
          /\ BytesOf(t, l, j.w) = a + 16 * (l - 1) .. a + 16 * (l - 1) + 15
      BY <2>1 DEF BytesOf
    <3> HIDE DEF a
    <3>6. BytesOf(s, k, j.w) \cap BytesOf(t, l, j.w) = {}
      BY <1>1, <3>1, <3>4, <3>5
    <3> QED BY <3>3, <3>6
  <2>2. CASE s # t
    <3>1. s - 1 # t - 1 /\ s - 1 \in Nat /\ t - 1 \in Nat
      BY <1>1, <2>2
    <3>2. GroupOf(s, k) \cap GroupOf(t, l) = {}
      BY <3>1 DEF GroupOf
    <3> DEFINE a == (s - 1) * j.w
               b == (t - 1) * j.w
    <3>3. a \in Nat /\ b \in Nat
      BY <1>1, <3>1, TimesNat
    <3>4. a + j.w <= b \/ b + j.w <= a
      <4>1. CASE s - 1 < t - 1
        BY <1>1, <3>1, <4>1, NextRow
      <4>2. CASE t - 1 < s - 1
        BY <1>1, <3>1, <4>2, NextRow
      <4> QED BY <3>1, <4>1, <4>2
    <3>5. /\ BytesOf(s, k, j.w) = a + 16 * (k - 1) .. a + 16 * (k - 1) + 15
          /\ BytesOf(t, l, j.w) = b + 16 * (l - 1) .. b + 16 * (l - 1) + 15
      BY DEF BytesOf
    <3> HIDE DEF a, b
    <3>6. BytesOf(s, k, j.w) \cap BytesOf(t, l, j.w) = {}
      BY <1>1, <3>3, <3>4, <3>5
    <3> QED BY <3>2, <3>6
  <2> QED BY <2>1, <2>2
<1>10. StepsCover(j, plan, j.h, n)
  <2> SUFFICES ASSUME NEW y \in 0 .. j.h - 1, NEW x \in 0 .. j.w - 1
               PROVE  \E s \in 1 .. j.h : \E k \in 1 .. n : <<y, x>> \in GroupOf(s, k)
    BY <1>4 DEF StepsCover
  <2> DEFINE k == 2 * (x \div 32) + (x % 2) + 1
             i == (x % 32) \div 2
  <2>1. y + 1 \in 1 .. j.h /\ (y + 1) - 1 = y
    BY <1>1
  <2>2. k \in 1 .. n /\ i \in 0 .. 15
    BY <1>1
  <2>3. GroupColumn(k - 1) + 2 * i = x
    BY <1>1 DEF GroupColumn
  <2> HIDE DEF k, i
  <2>4. <<y, x>> \in GroupOf(y + 1, k)
    BY <2>1, <2>2, <2>3 DEF GroupOf
  <2> QED BY <2>1, <2>2, <2>4
<1>11. Plain(j, plan)
  BY <1>1, <1>3, <1>8, <1>9, <1>10, NumberedPlan
<1> QED BY <1>11 DEF plan

(* Images that are not compressed, of cpp samples per pixel: the rows are `pitch` bytes
   apart in the input.                                                             *)
LEMMA InputIsLongEnough ==
  ASSUME NEW j, IsImage(j), LoopAccepts(j)
  PROVE  /\ j.w \in Nat /\ j.h \in Nat /\ j.size \in Nat /\ j.cpp \in 1 .. 3 /\ j.bps \in Nat
         /\ WholeImage(j).x = 0 /\ WholeImage(j).y = 0 /\ WholeImage(j).h = j.h
         /\ WholeImage(j).w = j.w \div j.cpp
         /\ j.h * j.pitch <= j.size /\ OutPixelBits(WholeImage(j), j) % 8 = 0
         /\ OutPixelBits(WholeImage(j), j) \div 8 <= j.pitch
<1>1. UncompressedAccepts(WholeImage(j), j.pitch, j.size, j)
  BY Zenon DEF LoopAccepts
<1>2. /\ WholeImage(j).x = 0 /\ WholeImage(j).y = 0 /\ WholeImage(j).h = j.h
      /\ WholeImage(j).w = j.w \div j.cpp
  BY DEF WholeImage, PixelsPerRow
<1>3. /\ WholeImage(j).h * j.pitch <= j.size /\ j.cpp \in 1 .. 3
      /\ j.bps \in 1 .. (IF j.float THEN 32 ELSE 16)
      /\ OutPixelBits(WholeImage(j), j) % 8 = 0
      /\ OutPixelBits(WholeImage(j), j) \div 8 <= j.pitch
  BY Zenon, <1>1 DEF UncompressedAccepts
<1>4. j.bps \in Nat
  <2>1. CASE j.float
    BY <1>3, <2>1
  <2>2. CASE ~j.float
    BY <1>3, <2>2
  <2> QED BY <2>1, <2>2
<1> QED BY <1>2, <1>3, <1>4 DEF IsImage

LEMMA UncompressedIsPlain ==
  ASSUME NEW j, IsImage(j), j.pitch \in Nat, j.w % j.cpp = 0, LoopAccepts(j)
  PROVE  Plain(j, UncompressedWork(j))
<1> DEFINE slice == UncompressedRows(WholeImage(j), j.pitch, 0, j)
           bytes == OutPixelBits(WholeImage(j), j) \div 8
<1>1. /\ j.w \in Nat /\ j.h \in Nat /\ j.size \in Nat /\ j.cpp \in 1 .. 3 /\ j.bps \in Nat
      /\ WholeImage(j).x = 0 /\ WholeImage(j).y = 0 /\ WholeImage(j).h = j.h
      /\ WholeImage(j).w = j.w \div j.cpp
      /\ j.h * j.pitch <= j.size /\ bytes <= j.pitch /\ OutPixelBits(WholeImage(j), j) % 8 = 0
  BY InputIsLongEnough
<1>2. (j.w \div j.cpp) * j.cpp = j.w /\ j.w \div j.cpp \in Nat
  BY <1>1, WholeMultiple
<1>3. OutPixelBits(WholeImage(j), j) = j.w * j.bps
  BY <1>1, <1>2 DEF OutPixelBits
<1>4. bytes \in Nat
  BY <1>1, <1>3, TimesNat
<1>5. FirstSample(WholeImage(j), j) = 0
  BY <1>1 DEF FirstSample
<1>6. Least(j.h, j.h - 0) = j.h
  BY <1>1 DEF Least
<1>7. slice = [k \in 1 .. j.h |->
                 Step(Row(0 + k - 1, 0, j.w), {}, 0 + (k - 1) * j.pitch .. 0 + (k - 1) * j.pitch + bytes - 1)]
  BY <1>1, <1>2, <1>5, <1>6 DEF UncompressedRows
<1> HIDE DEF slice, bytes
<1>8. \A k \in 1 .. j.h :
        slice[k] = Step(WholeRow(k - 1, j), {}, (k - 1) * j.pitch .. (k - 1) * j.pitch + bytes - 1)
  <2> TAKE k \in 1 .. j.h
  <2>1. 0 + k - 1 = k - 1 /\ k - 1 \in Nat
    BY <1>1
  <2>2. (k - 1) * j.pitch \in Nat
    BY <2>1, TimesNat
  <2>3. 0 + (k - 1) * j.pitch = (k - 1) * j.pitch
    BY <2>2
  <2> QED BY <1>7, <2>1, <2>3 DEF WholeRow
<1>9. DOMAIN slice = 1 .. j.h
  BY <1>7
<1> DEFINE at0(k) == (k - 1) * j.pitch
<1>10. \A k \in 1 .. j.h : at0(k) \in Nat /\ at0(k) + j.pitch <= j.size
  <2> TAKE k \in 1 .. j.h
  <2>1. k - 1 \in Nat /\ k - 1 < j.h
    BY <1>1
  <2>2. at0(k) \in Nat /\ at0(k) + j.pitch <= j.h * j.pitch /\ j.h * j.pitch \in Nat
    BY <1>1, <2>1, NextRow, TimesNat
  <2> DEFINE all == j.h * j.pitch
  <2> HIDE DEF at0, all
  <2>3. at0(k) \in Nat /\ at0(k) + j.pitch <= all /\ all \in Nat /\ all <= j.size
    BY <1>1, <2>2 DEF all
  <2> QED BY <1>1, <2>3
<1>11. \A k, l \in 1 .. j.h : k < l => at0(k) + j.pitch <= at0(l)
  <2> TAKE k, l \in 1 .. j.h
  <2>1. k - 1 \in Nat /\ l - 1 \in Nat /\ (k < l => k - 1 < l - 1)
    BY <1>1
  <2> QED BY <2>1, NextRow
<1>12. \A k \in 1 .. j.h : slice[k] = Step(WholeRow(k - 1, j), {}, at0(k) .. at0(k) + bytes - 1)
  BY <1>8
<1> HIDE DEF at0
<1>13. WritesRows(j, slice)
  <2> SUFFICES ASSUME NEW k \in 1 .. j.h
               PROVE  /\ PlainStep(slice[k]) /\ slice[k].loads = {}
                      /\ slice[k].writes = WholeRow(k - 1, j)
                      /\ slice[k].takes \subseteq 0 .. j.size - 1
                      /\ slice[k].reads = {}
    BY DEF WritesRows
  <2>1. /\ PlainStep(slice[k]) /\ slice[k].loads = {} /\ slice[k].writes = WholeRow(k - 1, j)
        /\ slice[k].reads = {} /\ slice[k].takes = at0(k) .. at0(k) + bytes - 1
    BY <1>12, StepFields
  <2>2. at0(k) .. at0(k) + bytes - 1 \subseteq 0 .. j.size - 1
    BY <1>1, <1>4, <1>10
  <2> QED BY <2>1, <2>2
<1>14. \A k, l \in 1 .. j.h : k # l => slice[k].takes \cap slice[l].takes = {}
  <2> SUFFICES ASSUME NEW k \in 1 .. j.h, NEW l \in 1 .. j.h, k # l
               PROVE  slice[k].takes \cap slice[l].takes = {}
    OBVIOUS
  <2>1. slice[k].takes = at0(k) .. at0(k) + bytes - 1 /\ slice[l].takes = at0(l) .. at0(l) + bytes - 1
    BY <1>12, StepFields
  <2>2. at0(k) + j.pitch <= at0(l) \/ at0(l) + j.pitch <= at0(k)
    BY <1>1, <1>11
  <2>3. at0(k) \in Nat /\ at0(l) \in Nat
    BY <1>10
  <2> DEFINE a == at0(k)
             b == at0(l)
  <2> HIDE DEF a, b
  <2>4. a \in Nat /\ b \in Nat /\ (a + j.pitch <= b \/ b + j.pitch <= a)
    BY <2>2, <2>3 DEF a, b
  <2>5. (a .. a + bytes - 1) \cap (b .. b + bytes - 1) = {}
    BY <1>1, <1>4, <2>4
  <2> QED BY <2>1, <2>5 DEF a, b
<1> QED BY <1>9, <1>13, <1>14, RowsArePlain DEF UncompressedWork, slice

(* The pixels of one row after the other, each from the same number of bytes.       *)
LEMMA QuotientFits ==
  ASSUME NEW x \in Nat, NEW n \in Nat \ {0}, NEW m \in Nat, m <= x \div n
  PROVE  m * n <= x
<1>1. x \div n \in Nat /\ x % n \in 0 .. n - 1 /\ x = (x \div n) * n + (x % n)
  BY DivMod
<1> DEFINE q == x \div n
           r == x % n
<1> HIDE DEF q, r
<1>2. q \in Nat /\ r \in 0 .. n - 1 /\ x = q * n + r /\ m <= q
  BY <1>1 DEF q, r
<1>3. m * n \in Nat /\ q * n \in Nat
  BY <1>2, TimesNat
<1>4. m * n <= q * n
  <2>1. CASE m = q
    BY <1>3, <2>1
  <2>2. CASE m < q
    <3>1. m * n + n <= q * n
      BY <1>2, <2>2, NextRow
    <3> QED BY <1>3, <3>1
  <2> QED BY <1>2, <2>1, <2>2
<1> QED BY <1>2, <1>3, <1>4

LEMMA BytesArePlain ==
  ASSUME NEW j, IsImage(j), j.pitch \in Nat, NEW bytes \in {1, 2}, LoopAccepts(j), j.w > 0,
         EnoughLines(bytes * j.w, j)
  PROVE  Plain(j, BytesWork(bytes, j))
<1> DEFINE plan == BytesWork(bytes, j)
           n == j.w * j.h
           At(k) == <<(k - 1) \div j.w, (k - 1) % j.w>>
           Units(k) == bytes * (k - 1) .. bytes * k - 1
<1>1. j.w \in Nat \ {0} /\ j.h \in Nat /\ j.size \in Nat /\ j.h * j.pitch <= j.size
  BY InputIsLongEnough
<1>2. n \in Nat /\ n = j.h * j.w
  BY <1>1, TimesNat
<1>3. bytes * n <= j.size
  <2>1. bytes * j.w \in Nat \ {0} /\ j.h * j.pitch \in Nat
    BY <1>1, TimesNat
  <2>2. j.h * (bytes * j.w) <= j.h * j.pitch
    BY <1>1, <2>1, QuotientFits DEF EnoughLines
  <2>3. j.h * (bytes * j.w) = bytes * n
    BY <1>1
  <2>4. bytes * n \in Nat
    BY <1>2, TimesNat
  <2> HIDE DEF n
  <2> DEFINE u == j.h * j.pitch
             v == bytes * n
  <2>5. u \in Nat /\ v \in Nat /\ v <= u /\ u <= j.size
    BY <1>1, <2>1, <2>2, <2>3, <2>4
  <2> HIDE DEF u, v
  <2>6. v <= j.size
    BY <1>1, <2>5
  <2> QED BY <2>6 DEF v
<1>4. DOMAIN plan = 1 .. 1 /\ DOMAIN plan[1] = 1 .. n
      /\ \A k \in 1 .. n : plan[1][k] = Step({At(k)}, {}, Units(k))
  BY DEF BytesWork
<1> HIDE DEF plan
<1>5. Numbered(plan, 1, n)
  BY <1>4 DEF Numbered
<1>6. \A s \in 1 .. 1 : \A k \in 1 .. n :
        /\ PlainStep(plan[s][k]) /\ plan[s][k].reads = {} /\ plan[s][k].loads = {}
        /\ plan[s][k].writes = {At(k)} /\ plan[s][k].takes = Units(k)
  <2> TAKE s \in 1 .. 1
  <2> TAKE k \in 1 .. n
  <2> HIDE DEF At, Units, n
  <2>1. plan[s][k] = Step({At(k)}, {}, Units(k))
    BY <1>4
  <2> QED BY <2>1, StepFields
<1>7. \A k \in 1 .. n : At(k) \in Samples(j)
  <2> TAKE k \in 1 .. n
  <2>1. k - 1 \in 0 .. j.h * j.w - 1
    BY <1>2
  <2>2. (k - 1) \div j.w \in 0 .. j.h - 1
    BY <1>1, <2>1, QuotientBelow
  <2>3. k - 1 \in Nat
    BY <1>2
  <2>4. (k - 1) % j.w \in 0 .. j.w - 1
    BY <1>1, <2>3, DivMod
  <2> QED BY <2>2, <2>4 DEF Samples
<1>8. \A k \in 1 .. n : Units(k) \subseteq 0 .. j.size - 1
  <2> HIDE DEF n
  <2> QED BY <1>1, <1>2, <1>3
<1>9. \A k, l \in 1 .. n : k # l => At(k) # At(l) /\ Units(k) \cap Units(l) = {}
  <2> SUFFICES ASSUME NEW k \in 1 .. n, NEW l \in 1 .. n, k # l
               PROVE  At(k) # At(l) /\ Units(k) \cap Units(l) = {}
    OBVIOUS
  <2>1. k - 1 \in Nat /\ l - 1 \in Nat /\ k - 1 # l - 1
    BY <1>2
  <2>2. /\ k - 1 = ((k - 1) \div j.w) * j.w + ((k - 1) % j.w)
        /\ l - 1 = ((l - 1) \div j.w) * j.w + ((l - 1) % j.w)
    BY <1>1, <2>1, DivMod
  <2>3. At(k) # At(l)
    BY <2>1, <2>2
  <2> HIDE DEF n
  <2>4. Units(k) \cap Units(l) = {}
    BY <1>2
  <2> QED BY <2>3, <2>4
<1>10. \A y \in 0 .. j.h - 1, x \in 0 .. j.w - 1 : \E k \in 1 .. n : At(k) = <<y, x>>
  <2> TAKE y \in 0 .. j.h - 1, x \in 0 .. j.w - 1
  <2> DEFINE p == y * j.w + x
  <2>1. p \in 0 .. j.h * j.w - 1
    BY <1>1, InRectangle
  <2>2. p + 1 \in 1 .. n /\ (p + 1) - 1 = p /\ p \in Nat
    BY <1>2, <2>1
  <2>3. p = (p \div j.w) * j.w + (p % j.w) /\ p \div j.w \in Nat /\ p % j.w \in 0 .. j.w - 1
    BY <1>1, <2>2, DivMod
  <2>4. y = p \div j.w /\ x = p % j.w
    <3> DEFINE q == p \div j.w
               r == p % j.w
    <3>1. y * j.w + x = q * j.w + r /\ q \in Nat /\ r \in 0 .. j.w - 1 /\ y \in Nat
      BY <2>3
    <3> HIDE DEF q, r
    <3>2. y = q /\ x = r
      BY <1>1, <3>1, SamePlace
    <3> QED BY <3>2 DEF q, r
  <2>5. At(p + 1) = <<y, x>>
    BY <2>2, <2>4
  <2> HIDE DEF p, At
  <2> QED BY <2>2, <2>5
<1> HIDE DEF n, At, Units
<1>11. StepsPlain(j, plan, 1, n)
  BY <1>6, <1>7, <1>8 DEF StepsPlain, StepIsPlain, Cells
<1>12. StepsApart(plan, 1, n)
  <2> SUFFICES ASSUME NEW s \in 1 .. 1, NEW t \in 1 .. 1, NEW k \in 1 .. n, NEW l \in 1 .. n,
                      <<s, k>> # <<t, l>>
               PROVE  /\ plan[s][k].writes \cap plan[t][l].writes = {}
                      /\ plan[s][k].takes \cap plan[t][l].takes = {}
    BY DEF StepsApart
  <2>1. k # l
    OBVIOUS
  <2> QED BY <1>6, <1>9, <2>1
<1>13. StepsCover(j, plan, 1, n)
  <2> SUFFICES ASSUME NEW y \in 0 .. j.h - 1, NEW x \in 0 .. j.w - 1
               PROVE  \E s \in 1 .. 1 : \E k \in 1 .. n : <<y, x>> \in plan[s][k].writes
    BY DEF StepsCover
  <2>1. PICK k \in 1 .. n : At(k) = <<y, x>>
    BY <1>10
  <2>2. 1 \in 1 .. 1
    OBVIOUS
  <2> QED BY <1>6, <2>1, <2>2
<1>14. 1 \in Nat
  OBVIOUS
<1>15. Plain(j, plan)
  BY <1>2, <1>5, <1>11, <1>12, <1>13, <1>14, NumberedPlan
<1> QED BY <1>15 DEF plan
-----------------------------------------------------------------------------
(* One slice of n times m steps, as ForEach lists them.                             *)
Grid(rows, n, m) == DOMAIN rows = 1 .. n /\ \A i \in 1 .. n : rows[i] = [k \in 1 .. m |-> rows[i][k]]

GridReads(rows, i, k, m) ==
  \A c \in rows[i][k].reads :
    \/ \E b \in 1 .. k - 1 : c \in rows[i][b].writes
    \/ \E a \in 1 .. i - 1 : \E b \in 1 .. m : c \in rows[a][b].writes

GridPlain(j, rows, n, m) ==
  \A i \in 1 .. n : \A k \in 1 .. m :
    /\ PlainStep(rows[i][k])
    /\ rows[i][k].writes \subseteq Samples(j) /\ rows[i][k].loads \subseteq Samples(j.source)
    /\ rows[i][k].takes \subseteq 0 .. j.size - 1
    /\ GridReads(rows, i, k, m)

GridApart(rows, n, m) ==
  \A i \in 1 .. n : \A a \in 1 .. n : \A k \in 1 .. m : \A b \in 1 .. m : <<i, k>> # <<a, b>> =>
    rows[i][k].writes \cap rows[a][b].writes = {} /\ rows[i][k].takes \cap rows[a][b].takes = {}

GridCover(j, rows, n, m) ==
  \A y \in 0 .. j.h - 1, x \in 0 .. j.w - 1 :
    \E i \in 1 .. n : \E k \in 1 .. m : <<y, x>> \in rows[i][k].writes

LEMMA GridPlan ==
  ASSUME NEW j, IsImage(j), NEW n \in Nat \ {0}, NEW m \in Nat, NEW rows, Grid(rows, n, m),
         GridPlain(j, rows, n, m), GridApart(rows, n, m), GridCover(j, rows, n, m)
  PROVE  Plain(j, << FlattenSeq(rows) >>)
<1>1. \A i \in 1 .. n : IsList(rows[i]) /\ Len(rows[i]) = m
  BY ListIs DEF Grid
<1>2. AreLists(rows, n)
  BY <1>1 DEF AreLists, Grid
<1>3. RowsPlain(j, rows, n)
  <2> SUFFICES ASSUME NEW i \in 1 .. n, NEW k \in 1 .. Len(rows[i])
               PROVE  /\ PlainStep(rows[i][k])
                      /\ rows[i][k].writes \subseteq Cells(j) /\ rows[i][k].loads \subseteq Samples(j.source)
                      /\ rows[i][k].takes \subseteq 0 .. j.size - 1
                      /\ rows[i][k].reads \subseteq Earlier(rows, i, k)
    BY DEF RowsPlain
  <2>1. k \in 1 .. m
    BY <1>1
  <2>2. /\ PlainStep(rows[i][k])
        /\ rows[i][k].writes \subseteq Samples(j) /\ rows[i][k].loads \subseteq Samples(j.source)
        /\ rows[i][k].takes \subseteq 0 .. j.size - 1 /\ GridReads(rows, i, k, m)
    BY Zenon, <2>1 DEF GridPlain
  <2>3. ASSUME NEW c \in rows[i][k].reads PROVE c \in Earlier(rows, i, k)
    <3>1. CASE \E b \in 1 .. k - 1 : c \in rows[i][b].writes
      BY <3>1 DEF Earlier
    <3>2. CASE \E a \in 1 .. i - 1 : \E b \in 1 .. m : c \in rows[a][b].writes
      <4>1. PICK a \in 1 .. i - 1 : \E b \in 1 .. m : c \in rows[a][b].writes
        BY <3>2
      <4>2. a \in 1 .. n
        OBVIOUS
      <4>3. Len(rows[a]) = m
        BY <1>1, <4>2
      <4> QED BY <4>1, <4>3 DEF Earlier
    <3> QED BY <2>2, <2>3, <3>1, <3>2 DEF GridReads
  <2>4. rows[i][k].writes \subseteq Cells(j)
    BY <2>2 DEF Cells
  <2> QED BY <2>2, <2>3, <2>4
<1>4. RowsApart(rows, n)
  BY <1>1 DEF RowsApart, GridApart
<1>5. RowsCover(j, rows, n)
  BY <1>1 DEF RowsCover, GridCover
<1> QED BY <1>2, <1>3, <1>4, <1>5, RowsPlan

(* Olympus: a sample for each step.                                                *)
LEMMA OlympusIsPlain ==
  ASSUME NEW j, IsImage(j), OlympusAccepts(j)
  PROVE  Plain(j, OlympusWork(j))
<1> DEFINE rows == [i \in 1 .. j.h |->
                      [k \in 1 .. j.w |-> Step({<<i - 1, k - 1>>}, OlympusReads(i - 1, k - 1), {})]]
<1>1. j.w \in Nat /\ j.h \in Nat \ {0}
  BY DEF IsImage, OlympusAccepts, NotEmpty
<1>2. OlympusWork(j) = << FlattenSeq(rows) >>
  BY DEF OlympusWork, ForEach
<1>3. Grid(rows, j.h, j.w)
  BY DEF Grid
<1>4. \A i \in 1 .. j.h : \A k \in 1 .. j.w :
        rows[i][k] = Step({<<i - 1, k - 1>>}, OlympusReads(i - 1, k - 1), {})
  OBVIOUS
<1> HIDE DEF rows
<1>5. \A i \in 1 .. j.h : \A k \in 1 .. j.w :
        /\ PlainStep(rows[i][k]) /\ rows[i][k].loads = {} /\ rows[i][k].takes = {}
        /\ rows[i][k].writes = {<<i - 1, k - 1>>} /\ rows[i][k].reads = OlympusReads(i - 1, k - 1)
  <2> TAKE i \in 1 .. j.h
  <2> TAKE k \in 1 .. j.w
  <2>1. rows[i][k] = Step({<<i - 1, k - 1>>}, OlympusReads(i - 1, k - 1), {})
    BY <1>4
  <2> QED BY <2>1, StepFields
<1>6. GridPlain(j, rows, j.h, j.w)
  <2> SUFFICES ASSUME NEW i \in 1 .. j.h, NEW k \in 1 .. j.w
               PROVE  /\ PlainStep(rows[i][k])
                      /\ rows[i][k].writes \subseteq Samples(j) /\ rows[i][k].loads \subseteq Samples(j.source)
                      /\ rows[i][k].takes \subseteq 0 .. j.size - 1
                      /\ GridReads(rows, i, k, j.w)
    BY DEF GridPlain
  <2>1. <<i - 1, k - 1>> \in Samples(j)
    BY <1>1 DEF Samples
  <2>2. ASSUME NEW c \in OlympusReads(i - 1, k - 1)
        PROVE  \/ \E b \in 1 .. k - 1 : c \in rows[i][b].writes
               \/ \E a \in 1 .. i - 1 : \E b \in 1 .. j.w : c \in rows[a][b].writes
    <3>1. \/ k - 1 >= 2 /\ c = <<i - 1, k - 3>>
          \/ i - 1 >= 2 /\ c = <<i - 3, k - 1>>
          \/ i - 1 >= 2 /\ k - 1 >= 2 /\ c = <<i - 3, k - 3>>
      BY <1>1 DEF OlympusReads
    <3>2. CASE k - 1 >= 2 /\ c = <<i - 1, k - 3>>
      <4>1. k - 2 \in 1 .. k - 1 /\ k - 2 \in 1 .. j.w /\ (k - 2) - 1 = k - 3
        BY <1>1, <3>2
      <4>2. c \in rows[i][k - 2].writes
        BY <1>5, <3>2, <4>1
      <4> QED BY <4>1, <4>2
    <3>3. CASE i - 1 >= 2 /\ c = <<i - 3, k - 1>>
      <4>1. i - 2 \in 1 .. i - 1 /\ i - 2 \in 1 .. j.h /\ (i - 2) - 1 = i - 3
        BY <1>1, <3>3
      <4>2. c \in rows[i - 2][k].writes
        BY <1>5, <3>3, <4>1
      <4> QED BY <4>1, <4>2
    <3>4. CASE i - 1 >= 2 /\ k - 1 >= 2 /\ c = <<i - 3, k - 3>>
      <4>1. i - 2 \in 1 .. i - 1 /\ i - 2 \in 1 .. j.h /\ (i - 2) - 1 = i - 3
        BY <1>1, <3>4
      <4>2. k - 2 \in 1 .. j.w /\ (k - 2) - 1 = k - 3
        BY <1>1, <3>4
      <4>3. c \in rows[i - 2][k - 2].writes
        BY <1>5, <3>4, <4>1, <4>2
      <4> QED BY <4>1, <4>2, <4>3
    <3> QED BY <3>1, <3>2, <3>3, <3>4
  <2>3. rows[i][k].reads = OlympusReads(i - 1, k - 1)
    BY <1>5
  <2>4. GridReads(rows, i, k, j.w)
    BY <2>2, <2>3 DEF GridReads
  <2> QED BY <1>5, <2>1, <2>4
<1>7. GridApart(rows, j.h, j.w)
  <2> SUFFICES ASSUME NEW i \in 1 .. j.h, NEW a \in 1 .. j.h, NEW k \in 1 .. j.w, NEW b \in 1 .. j.w,
                      <<i, k>> # <<a, b>>
               PROVE  <<i - 1, k - 1>> # <<a - 1, b - 1>>
    BY <1>5 DEF GridApart
  <2> QED BY <1>1
<1>8. GridCover(j, rows, j.h, j.w)
  <2> SUFFICES ASSUME NEW y \in 0 .. j.h - 1, NEW x \in 0 .. j.w - 1
               PROVE  \E i \in 1 .. j.h : \E k \in 1 .. j.w : <<y, x>> \in rows[i][k].writes
    BY DEF GridCover
  <2>1. y + 1 \in 1 .. j.h /\ x + 1 \in 1 .. j.w /\ (y + 1) - 1 = y /\ (x + 1) - 1 = x
    BY <1>1
  <2>2. <<y, x>> \in rows[y + 1][x + 1].writes
    BY <1>5, <2>1
  <2> QED BY <2>1, <2>2
<1> QED BY <1>1, <1>2, <1>3, <1>6, <1>7, <1>8, GridPlan

(* Sony ARW1: the column c from the right, its even rows and then its odd ones.      *)
LEMMA EvenThenOddIs ==
  ASSUME NEW h \in Nat, h % 2 = 0
  PROVE  /\ \A i \in 0 .. h - 1 : EvenThenOdd(i, h) \in 0 .. h - 1
         /\ \A i, k \in 0 .. h - 1 : EvenThenOdd(i, h) = EvenThenOdd(k, h) => i = k
         /\ \A y \in 0 .. h - 1 : \E i \in 0 .. h - 1 : EvenThenOdd(i, h) = y
<1>1. PICK half \in Nat : h = 2 * half
  BY h \div 2 \in Nat
<1>2. \A i \in 0 .. h - 1 : EvenThenOdd(i, h) \in 0 .. h - 1
  BY <1>1 DEF EvenThenOdd
<1>3. \A i, k \in 0 .. h - 1 : EvenThenOdd(i, h) = EvenThenOdd(k, h) => i = k
  BY <1>1 DEF EvenThenOdd
<1>4. ASSUME NEW y \in 0 .. h - 1 PROVE \E i \in 0 .. h - 1 : EvenThenOdd(i, h) = y
  <2>1. CASE y % 2 = 0
    <3>1. y \div 2 \in 0 .. h - 1 /\ EvenThenOdd(y \div 2, h) = y
      BY <1>1, <2>1 DEF EvenThenOdd
    <3> QED BY <3>1
  <2>2. CASE y % 2 = 1
    <3>1. half + (y \div 2) \in 0 .. h - 1 /\ EvenThenOdd(half + (y \div 2), h) = y
      BY <1>1, <2>2 DEF EvenThenOdd
    <3> QED BY <3>1
  <2> QED BY <2>1, <2>2
<1> QED BY <1>2, <1>3, <1>4

LEMMA SonyArw1IsPlain ==
  ASSUME NEW j, IsImage(j), SonyArw1Accepts(j)
  PROVE  Plain(j, SonyArw1Work(j))
<1> DEFINE At(i, k) == <<EvenThenOdd(k - 1, j.h), j.w - 1 - (i - 1)>>
           rows == [i \in 1 .. j.w |-> [k \in 1 .. j.h |-> Write({At(i, k)})]]
<1>1. j.w \in Nat \ {0} /\ j.h \in Nat /\ j.h % 2 = 0
  BY DEF IsImage, SonyArw1Accepts, NotEmpty
<1>2. SonyArw1Work(j) = << FlattenSeq(rows) >>
  BY DEF SonyArw1Work, ForEach
<1>3. Grid(rows, j.w, j.h)
  BY DEF Grid
<1>4. \A i \in 1 .. j.w : \A k \in 1 .. j.h : rows[i][k] = Step({At(i, k)}, {}, {})
  BY DEF Write
<1>5. \A i \in 1 .. j.w : \A k \in 1 .. j.h : At(i, k) \in Samples(j)
  <2> TAKE i \in 1 .. j.w
  <2> TAKE k \in 1 .. j.h
  <2>1. EvenThenOdd(k - 1, j.h) \in 0 .. j.h - 1 /\ j.w - 1 - (i - 1) \in 0 .. j.w - 1
    <3>1. k - 1 \in 0 .. j.h - 1
      BY <1>1
    <3> QED BY <1>1, <3>1, EvenThenOddIs
  <2> QED BY <2>1 DEF Samples
<1>6. ASSUME NEW i \in 1 .. j.w, NEW a \in 1 .. j.w, NEW k \in 1 .. j.h, NEW b \in 1 .. j.h,
             <<i, k>> # <<a, b>>
      PROVE  At(i, k) # At(a, b)
  <2> SUFFICES ASSUME At(i, k) = At(a, b) PROVE FALSE
    OBVIOUS
  <2>1. EvenThenOdd(k - 1, j.h) = EvenThenOdd(b - 1, j.h) /\ j.w - 1 - (i - 1) = j.w - 1 - (a - 1)
    OBVIOUS
  <2>2. k - 1 \in 0 .. j.h - 1 /\ b - 1 \in 0 .. j.h - 1
    BY <1>1
  <2>3. k - 1 = b - 1
    BY <1>1, <2>1, <2>2, EvenThenOddIs
  <2> QED BY <1>1, <1>6, <2>1, <2>3
<1>7. ASSUME NEW y \in 0 .. j.h - 1, NEW x \in 0 .. j.w - 1
      PROVE  \E i \in 1 .. j.w : \E k \in 1 .. j.h : At(i, k) = <<y, x>>
  <2>1. PICK k \in 0 .. j.h - 1 : EvenThenOdd(k, j.h) = y
    BY <1>1, EvenThenOddIs
  <2>2. k + 1 \in 1 .. j.h /\ (k + 1) - 1 = k /\ j.w - x \in 1 .. j.w /\ j.w - 1 - (j.w - x - 1) = x
    BY <1>1
  <2>3. At(j.w - x, k + 1) = <<y, x>>
    BY <2>1, <2>2
  <2> HIDE DEF At
  <2> QED BY <2>2, <2>3
<1> HIDE DEF rows, At
<1>8. \A i \in 1 .. j.w : \A k \in 1 .. j.h :
        /\ PlainStep(rows[i][k]) /\ rows[i][k].loads = {} /\ rows[i][k].takes = {}
        /\ rows[i][k].writes = {At(i, k)} /\ rows[i][k].reads = {}
  <2> TAKE i \in 1 .. j.w
  <2> TAKE k \in 1 .. j.h
  <2>1. rows[i][k] = Step({At(i, k)}, {}, {})
    BY <1>4
  <2> QED BY <2>1, StepFields
<1>9. GridPlain(j, rows, j.w, j.h)
  BY <1>5, <1>8 DEF GridPlain, GridReads
<1>10. GridApart(rows, j.w, j.h)
  BY <1>6, <1>8 DEF GridApart
<1>11. GridCover(j, rows, j.w, j.h)
  BY <1>7, <1>8 DEF GridCover
<1> QED BY <1>1, <1>2, <1>3, <1>9, <1>10, <1>11, GridPlan

(* Grids of steps that write pieces of a row: what GridPlan asks for, then.           *)
RowPieces(j, rows, n, m, first, width) ==
  \A i \in 1 .. n : \A k \in 1 .. m :
    /\ PlainStep(rows[i][k]) /\ rows[i][k].loads = {}
    /\ rows[i][k].writes = Row(i - 1, first[k], width[k])

(* The pieces of a row adjoin each other.                                          *)
Adjoin(first, width, m, w) ==
  /\ \A k \in 1 .. m : first[k] \in Nat /\ width[k] \in Nat /\ first[k] + width[k] <= w
  /\ \A k, l \in 1 .. m : k < l => first[k] + width[k] <= first[l]
  /\ \A x \in 0 .. w - 1 : \E k \in 1 .. m : x \in first[k] .. first[k] + width[k] - 1

LEMMA PiecesOfRows ==
  ASSUME NEW j, IsImage(j), NEW m \in Nat, NEW rows, NEW first, NEW width,
         Adjoin(first, width, m, j.w), RowPieces(j, rows, j.h, m, first, width)
  PROVE  /\ \A i \in 1 .. j.h : \A k \in 1 .. m : rows[i][k].writes \subseteq Samples(j)
         /\ \A i \in 1 .. j.h : \A a \in 1 .. j.h : \A k \in 1 .. m : \A b \in 1 .. m :
              <<i, k>> # <<a, b>> => rows[i][k].writes \cap rows[a][b].writes = {}
         /\ GridCover(j, rows, j.h, m)
<1>1. j.w \in Nat /\ j.h \in Nat
  BY DEF IsImage
<1>2. \A i \in 1 .. j.h : \A k \in 1 .. m :
        rows[i][k].writes = {<<i - 1, x>> : x \in first[k] .. first[k] + width[k] - 1}
  BY DEF RowPieces, Row
<1>3. \A k \in 1 .. m : first[k] \in Nat /\ width[k] \in Nat /\ first[k] + width[k] <= j.w
  BY DEF Adjoin
<1>4. ASSUME NEW i \in 1 .. j.h, NEW k \in 1 .. m PROVE rows[i][k].writes \subseteq Samples(j)
  <2> DEFINE a == first[k]
             b == width[k]
  <2>1. a \in Nat /\ b \in Nat /\ a + b <= j.w /\ rows[i][k].writes = {<<i - 1, x>> : x \in a .. a + b - 1}
    BY <1>2, <1>3
  <2> HIDE DEF a, b
  <2> QED BY <1>1, <2>1 DEF Samples
<1>5. ASSUME NEW i \in 1 .. j.h, NEW a \in 1 .. j.h, NEW k \in 1 .. m, NEW b \in 1 .. m, <<i, k>> # <<a, b>>
      PROVE  rows[i][k].writes \cap rows[a][b].writes = {}
  <2>1. CASE i # a
    BY <1>1, <1>2, <2>1
  <2>2. CASE i = a
    <3>1. k # b
      BY <1>5, <2>2
    <3>2. first[k] + width[k] <= first[b] \/ first[b] + width[b] <= first[k]
      BY <3>1 DEF Adjoin
    <3> DEFINE f == first[k]
               g == first[b]
               u == width[k]
               v == width[b]
    <3>3. /\ f \in Nat /\ g \in Nat /\ u \in Nat /\ v \in Nat /\ (f + u <= g \/ g + v <= f)
          /\ rows[i][k].writes = {<<i - 1, x>> : x \in f .. f + u - 1}
          /\ rows[a][b].writes = {<<i - 1, x>> : x \in g .. g + v - 1}
      BY <1>2, <1>3, <2>2, <3>2
    <3> HIDE DEF f, g, u, v
    <3> QED BY <3>3
  <2> QED BY <2>1, <2>2
<1>6. ASSUME NEW y \in 0 .. j.h - 1, NEW x \in 0 .. j.w - 1
      PROVE  \E i \in 1 .. j.h : \E k \in 1 .. m : <<y, x>> \in rows[i][k].writes
  <2>1. PICK k \in 1 .. m : x \in first[k] .. first[k] + width[k] - 1
    BY DEF Adjoin
  <2>2. y + 1 \in 1 .. j.h /\ (y + 1) - 1 = y
    BY <1>1
  <2>3. <<y, x>> \in rows[y + 1][k].writes
    BY <1>2, <2>1, <2>2
  <2> QED BY <2>2, <2>3
<1> QED BY <1>4, <1>5, <1>6 DEF GridCover

(* Kodak: segments, the last of a row as long as the row allows.                     *)
LEMMA KodakIsPlain ==
  ASSUME NEW j, IsImage(j), KodakAccepts(j)
  PROVE  Plain(j, KodakWork(j))
<1> DEFINE Z == SegmentSize
           m == CeilDiv(j.w, Z)
           first == [k \in 1 .. m |-> Z * (k - 1)]
           width == [k \in 1 .. m |-> Least(Z, j.w - Z * (k - 1))]
           rows == [i \in 1 .. j.h |-> [k \in 1 .. m |->
                      Write(Row(i - 1, Z * (k - 1), Least(Z, j.w - Z * (k - 1))))]]
<1>1. j.w \in Nat /\ j.w > 0 /\ j.h \in Nat \ {0} /\ Z \in Nat \ {0}
  BY RowCodecsAssumption DEF IsImage, KodakAccepts, NotEmpty
<1>2. KodakWork(j) = << FlattenSeq(rows) >>
  BY DEF KodakWork, ForEach
<1>3. m \in Nat /\ (m - 1) * Z < j.w /\ j.w <= m * Z /\ m >= 1
  <2>1. j.w + Z - 1 \in Nat
    BY <1>1
  <2>2. m \in Nat /\ (j.w + Z - 1) % Z \in 0 .. Z - 1 /\ j.w + Z - 1 = m * Z + ((j.w + Z - 1) % Z)
    BY <1>1, <2>1, DivMod DEF CeilDiv
  <2> DEFINE r == (j.w + Z - 1) % Z
             q == m
  <2> HIDE DEF r, q, Z
  <2>3. q \in Nat /\ r \in 0 .. Z - 1 /\ j.w + Z - 1 = q * Z + r
    BY <2>2 DEF r, q
  <2>4. q * Z \in Nat
    BY <1>1, <2>3, TimesNat
  <2>5. q # 0
    <3>1. q = 0 => q * Z = 0
      BY <1>1
    <3> QED BY <1>1, <2>3, <2>4, <3>1
  <2>6. (q - 1) * Z = q * Z - Z
    BY <1>1, <2>3
  <2>7. q \in Nat /\ (q - 1) * Z < j.w /\ j.w <= q * Z /\ q >= 1
    BY <1>1, <2>3, <2>4, <2>5, <2>6
  <2> QED BY <2>7 DEF q
<1>4. Grid(rows, j.h, m)
  BY DEF Grid
<1>5. \A i \in 1 .. j.h : \A k \in 1 .. m : rows[i][k] = Step(Row(i - 1, first[k], width[k]), {}, {})
  BY DEF Write
<1>6. \A k \in 1 .. m : first[k] = Z * (k - 1) /\ width[k] = Least(Z, j.w - Z * (k - 1))
  OBVIOUS
<1> HIDE DEF rows, first, width, m, Z
<1>7. \A k \in 1 .. m : first[k] = (k - 1) * Z /\ first[k] \in Nat /\ first[k] < j.w
  <2> TAKE k \in 1 .. m
  <2>1. k - 1 \in Nat /\ m - 1 \in Nat /\ k - 1 <= m - 1
    BY <1>3
  <2>2. first[k] = (k - 1) * Z /\ (k - 1) * Z \in Nat /\ (m - 1) * Z \in Nat
    BY <1>1, <1>6, <2>1, TimesNat
  <2>3. (k - 1) * Z <= (m - 1) * Z
    <3>1. CASE k = m
      BY <2>2, <3>1
    <3>2. CASE k # m
      <4>1. k - 1 < m - 1
        BY <1>3, <2>1, <3>2
      <4>2. (k - 1) * Z + Z <= (m - 1) * Z
        BY <1>1, <2>1, <4>1, NextRow
      <4> QED BY <1>1, <2>2, <4>2
    <3> QED BY <3>1, <3>2
  <2> DEFINE a == (k - 1) * Z
             b == (m - 1) * Z
  <2>4. a \in Nat /\ b \in Nat /\ a <= b /\ b < j.w
    BY <1>3, <2>2, <2>3
  <2> HIDE DEF a, b
  <2>5. a < j.w
    BY <1>1, <2>4
  <2> QED BY <2>2, <2>5 DEF a
<1>8. \A k \in 1 .. m : /\ width[k] \in Nat /\ width[k] <= Z /\ first[k] + width[k] <= j.w
                        /\ (first[k] + width[k] = j.w \/ width[k] = Z)
  <2> TAKE k \in 1 .. m
  <2>1. width[k] = Least(Z, j.w - first[k]) /\ first[k] \in Nat /\ first[k] < j.w
    BY <1>6, <1>7
  <2> DEFINE f == first[k]
             v == width[k]
  <2>2. v = Least(Z, j.w - f) /\ f \in Nat /\ f < j.w
    BY <2>1
  <2> HIDE DEF f, v
  <2>3. v \in Nat /\ v <= Z /\ f + v <= j.w /\ (f + v = j.w \/ v = Z)
    BY <1>1, <2>2 DEF Least
  <2> QED BY <2>3 DEF f, v
<1>9. Adjoin(first, width, m, j.w)
  <2>1. \A k, l \in 1 .. m : k < l => first[k] + width[k] <= first[l]
    <3> SUFFICES ASSUME NEW k \in 1 .. m, NEW l \in 1 .. m, k < l PROVE first[k] + width[k] <= first[l]
      OBVIOUS
    <3>1. k - 1 \in Nat /\ l - 1 \in Nat /\ k - 1 < l - 1
      BY <1>3
    <3>2. (k - 1) * Z + Z <= (l - 1) * Z
      BY <1>1, <3>1, NextRow
    <3>3. first[k] + Z <= first[l] /\ first[k] \in Nat /\ first[l] \in Nat /\ width[k] \in Nat /\ width[k] <= Z
      BY <1>7, <1>8, <3>2
    <3> QED BY <1>1, <3>3
  <2>2. ASSUME NEW x \in 0 .. j.w - 1
        PROVE  \E k \in 1 .. m : x \in first[k] .. first[k] + width[k] - 1
    <3> DEFINE q == x \div Z
               r == x % Z
    <3>1. q \in Nat /\ r \in 0 .. Z - 1 /\ x = q * Z + r
      <4>1. x \in Nat
        BY <1>1
      <4> QED BY <1>1, <4>1, DivMod
    <3>2. x \in 0 .. m * Z - 1
      <4>1. m * Z \in Nat
        BY <1>1, <1>3, TimesNat
      <4> QED BY <1>1, <1>3, <4>1
    <3>3. q \in 0 .. m - 1
      BY <1>1, <1>3, <3>2, QuotientBelow
    <3> HIDE DEF q, r
    <3>4. q + 1 \in 1 .. m /\ (q + 1) - 1 = q
      BY <1>3, <3>3
    <3>5. first[q + 1] = q * Z /\ first[q + 1] \in Nat
      BY <1>7, <3>4
    <3>6. width[q + 1] \in Nat /\ (first[q + 1] + width[q + 1] = j.w \/ width[q + 1] = Z)
      BY <1>8, <3>4
    <3>7. x \in first[q + 1] .. first[q + 1] + width[q + 1] - 1
      BY <1>1, <3>1, <3>5, <3>6
    <3> QED BY <3>4, <3>7
  <2> QED BY <1>7, <1>8, <2>1, <2>2 DEF Adjoin
<1>10. \A i \in 1 .. j.h : \A k \in 1 .. m :
         /\ PlainStep(rows[i][k]) /\ rows[i][k].loads = {} /\ rows[i][k].takes = {} /\ rows[i][k].reads = {}
         /\ rows[i][k].writes = Row(i - 1, first[k], width[k])
  <2> TAKE i \in 1 .. j.h
  <2> TAKE k \in 1 .. m
  <2>1. rows[i][k] = Step(Row(i - 1, first[k], width[k]), {}, {})
    BY <1>5
  <2> QED BY <2>1, StepFields
<1>11. RowPieces(j, rows, j.h, m, first, width)
  BY <1>10 DEF RowPieces
<1>12. /\ \A i \in 1 .. j.h : \A k \in 1 .. m : rows[i][k].writes \subseteq Samples(j)
       /\ \A i \in 1 .. j.h : \A a \in 1 .. j.h : \A k \in 1 .. m : \A b \in 1 .. m :
            <<i, k>> # <<a, b>> => rows[i][k].writes \cap rows[a][b].writes = {}
       /\ GridCover(j, rows, j.h, m)
  BY <1>3, <1>9, <1>11, PiecesOfRows
<1>13. GridPlain(j, rows, j.h, m)
  BY <1>10, <1>12 DEF GridPlain, GridReads
<1>14. GridApart(rows, j.h, m)
  BY <1>10, <1>12 DEF GridApart
<1> QED BY <1>1, <1>2, <1>3, <1>4, <1>12, <1>13, <1>14, GridPlan

(* Samsung V2: sixteen samples predict from others a motion vector away, or from the two
   on their left.                                                                 *)
LEMMA MotionStaysInside ==
  ASSUME NEW j, IsImage(j), NEW y \in 0 .. j.h - 1, NEW x \in Nat, NEW motion \in 0 .. 6,
         MotionAllowed(y, x, motion, j), NEW c \in MotionReads(y, x, motion)
  PROVE  \E v \in 0 .. y - 1, u \in 0 .. j.w - 1 : c = <<v, u>>
<1>1. j.w \in Nat /\ j.h \in Nat /\ y >= 2
  BY DEF IsImage, MotionAllowed
<1>2. PICK i \in 0 .. 15 :
        c \in (IF Averages(motion)
                 THEN {MotionReference(y, x, i, motion),
                       <<MotionReference(y, x, i, motion)[1], MotionReference(y, x, i, motion)[2] + 2>>}
                 ELSE {MotionReference(y, x, i, motion)})
  BY DEF MotionReads
<1> DEFINE r == MotionReference(y, x, i, motion)
<1>3. MotionOffset[motion + 1] \in Int
  BY DEF MotionOffset
<1>4. r \in Int \X Int /\ r = <<r[1], r[2]>> /\ r[1] \in {y - 1, y - 2}
  BY <1>1, <1>3 DEF MotionReference
<1>5. r[2] >= 0 /\ r[2] < j.w /\ (Averages(motion) => r[2] + 2 < j.w)
  BY DEF MotionAllowed
<1> HIDE DEF r
<1>6. c = r \/ (Averages(motion) /\ c = <<r[1], r[2] + 2>>)
  BY <1>2 DEF r
<1>7. r[1] \in 0 .. y - 1 /\ r[2] \in 0 .. j.w - 1
  BY <1>1, <1>4, <1>5
<1>8. CASE c = r
  BY <1>4, <1>7, <1>8
<1>9. CASE Averages(motion) /\ c = <<r[1], r[2] + 2>>
  <2>1. r[2] + 2 \in 0 .. j.w - 1
    BY <1>1, <1>4, <1>5, <1>9
  <2> QED BY <1>7, <1>9, <2>1
<1> QED BY <1>6, <1>8, <1>9

LEMMA SamsungV2IsPlain ==
  ASSUME NEW j, IsImage(j), j.motion \in 0 .. 7, SamsungV2Accepts(j)
  PROVE  Plain(j, SamsungV2Work(j))
<1> DEFINE m == j.w \div 16
           first == [k \in 1 .. m |-> 16 * (k - 1)]
           width == [k \in 1 .. m |-> 16]
           Reads(i, k) == SamsungV2Reads(i - 1, 16 * (k - 1), j)
           rows == [i \in 1 .. j.h |-> [k \in 1 .. m |->
                      Step(Row(i - 1, 16 * (k - 1), 16), Reads(i, k), {})]]
<1>1. /\ j.w \in Nat /\ j.h \in Nat \ {0} /\ m \in Nat /\ j.w = 16 * m
  BY DEF IsImage, SamsungV2Accepts, NotEmpty
<1>2. SamsungV2Work(j) = << FlattenSeq(rows) >>
  BY DEF SamsungV2Work, ForEach
<1>3. Grid(rows, j.h, m)
  BY DEF Grid
<1>4. \A i \in 1 .. j.h : \A k \in 1 .. m :
        rows[i][k] = Step(Row(i - 1, first[k], width[k]), Reads(i, k), {})
  OBVIOUS
<1>5. \A k \in 1 .. m : first[k] = 16 * (k - 1) /\ width[k] = 16
  OBVIOUS
<1> HIDE DEF rows, first, width, m, Reads
<1>6. Adjoin(first, width, m, j.w)
  <2>1. \A x \in 0 .. j.w - 1 : \E k \in 1 .. m : x \in first[k] .. first[k] + width[k] - 1
    <3> TAKE x \in 0 .. j.w - 1
    <3>1. (x \div 16) + 1 \in 1 .. m
      BY <1>1
    <3>2. first[(x \div 16) + 1] = 16 * (x \div 16) /\ width[(x \div 16) + 1] = 16
      BY <1>1, <1>5, <3>1
    <3>3. x \in 16 * (x \div 16) .. 16 * (x \div 16) + 16 - 1
      BY <1>1
    <3> QED BY <3>1, <3>2, <3>3
  <2>2. \A k \in 1 .. m : first[k] \in Nat /\ width[k] \in Nat /\ first[k] + width[k] <= j.w
    BY <1>1, <1>5
  <2>3. \A k, l \in 1 .. m : k < l => first[k] + width[k] <= first[l]
    BY <1>1, <1>5
  <2> QED BY <2>1, <2>2, <2>3 DEF Adjoin
<1>7. \A i \in 1 .. j.h : \A k \in 1 .. m :
        /\ PlainStep(rows[i][k]) /\ rows[i][k].loads = {} /\ rows[i][k].takes = {}
        /\ rows[i][k].reads = Reads(i, k)
        /\ rows[i][k].writes = Row(i - 1, first[k], width[k])
  <2> TAKE i \in 1 .. j.h
  <2> TAKE k \in 1 .. m
  <2>1. rows[i][k] = Step(Row(i - 1, first[k], width[k]), Reads(i, k), {})
    BY <1>4
  <2> QED BY <2>1, StepFields
<1>8. RowPieces(j, rows, j.h, m, first, width)
  BY <1>7 DEF RowPieces
<1>9. /\ \A i \in 1 .. j.h : \A k \in 1 .. m : rows[i][k].writes \subseteq Samples(j)
      /\ \A i \in 1 .. j.h : \A a \in 1 .. j.h : \A k \in 1 .. m : \A b \in 1 .. m :
           <<i, k>> # <<a, b>> => rows[i][k].writes \cap rows[a][b].writes = {}
      /\ GridCover(j, rows, j.h, m)
  BY <1>1, <1>6, <1>8, PiecesOfRows
<1>10. ASSUME NEW i \in 1 .. j.h, NEW k \in 1 .. m PROVE GridReads(rows, i, k, m)
  <2> SUFFICES ASSUME NEW c \in Reads(i, k)
               PROVE  \/ \E b \in 1 .. k - 1 : c \in rows[i][b].writes
                      \/ \E a \in 1 .. i - 1 : \E b \in 1 .. m : c \in rows[a][b].writes
    BY <1>7 DEF GridReads
  <2> DEFINE x == 16 * (k - 1)
  <2>1. x \in Nat /\ k \in Nat /\ i - 1 \in 0 .. j.h - 1
    BY <1>1
  <2>2. CASE j.motion # 7 /\ MotionAllowed(i - 1, x, j.motion, j)
    <3>1. c \in MotionReads(i - 1, x, j.motion) /\ j.motion \in 0 .. 6
      BY <2>2 DEF Reads, SamsungV2Reads
    <3> HIDE DEF x
    <3>2. PICK v \in 0 .. i - 1 - 1, u \in 0 .. j.w - 1 : c = <<v, u>>
      BY <2>1, <2>2, <3>1, MotionStaysInside
    <3>3. v + 1 \in 1 .. i - 1 /\ v \in 0 .. j.h - 1
      BY <1>1
    <3>4. PICK a \in 1 .. j.h : \E b \in 1 .. m : <<v, u>> \in rows[a][b].writes
      BY <1>9, <3>3 DEF GridCover
    <3>5. PICK b \in 1 .. m : <<v, u>> \in rows[a][b].writes
      BY <3>4
    <3>6. a - 1 = v
      BY <1>7, <3>5 DEF Row
    <3>7. a \in 1 .. i - 1
      BY <1>1, <3>3, <3>6
    <3> QED BY <3>2, <3>5, <3>7
  <2>3. CASE ~(j.motion # 7 /\ MotionAllowed(i - 1, x, j.motion, j))
    <3>1. x # 0 /\ c \in {<<i - 1, x - 2>>, <<i - 1, x - 1>>}
      BY <2>3 DEF Reads, SamsungV2Reads
    <3>2. k - 1 \in 1 .. k - 1 /\ k - 1 \in 1 .. m
      BY <1>1, <3>1
    <3>3. rows[i][k - 1].writes = Row(i - 1, first[k - 1], width[k - 1])
      BY <1>7, <3>2
    <3>4. first[k - 1] = x - 16 /\ width[k - 1] = 16
      BY <1>1, <1>5, <3>2
    <3>5. c \in rows[i][k - 1].writes
      BY <2>1, <3>1, <3>3, <3>4 DEF Row
    <3> QED BY <3>2, <3>5
  <2> QED BY <2>2, <2>3
<1>11. GridPlain(j, rows, j.h, m)
  BY <1>7, <1>9, <1>10 DEF GridPlain
<1>12. GridApart(rows, j.h, m)
  BY <1>7, <1>9 DEF GridApart
<1> QED BY <1>1, <1>2, <1>3, <1>9, <1>11, <1>12, GridPlan

(* 12 bits with a control byte behind every ten pixels.                             *)
LEMMA ControlIsPlain ==
  ASSUME NEW j, IsImage(j), j.pitch \in Nat, j.codec = "12bitControl", LoopAccepts(j), j.w > 0, j.h > 0
  PROVE  Plain(j, ControlWork(j))
<1> DEFINE m == j.w \div 2
           L == BytesPerLine(j.w)
           first == [k \in 1 .. m |-> 2 * (k - 1)]
           width == [k \in 1 .. m |-> 2]
           start(i, k) == (i - 1) * L + PairAt(2 * (k - 1))
           rows == [i \in 1 .. j.h |-> [k \in 1 .. m |->
                      Step({<<i - 1, 2 * (k - 1)>>, <<i - 1, 2 * (k - 1) + 1>>}, {}, start(i, k) .. start(i, k) + 2)]]
<1>0. (12 * j.w) % 8 = 0 /\ EnoughLines(L, j)
  BY DEF LoopAccepts
<1>1. /\ j.w \in Nat /\ j.h \in Nat \ {0} /\ j.size \in Nat /\ m \in Nat /\ j.w = 2 * m /\ m > 0
      /\ j.h * j.pitch <= j.size
  BY <1>0, InputIsLongEnough
<1>2. ControlWork(j) = << FlattenSeq(rows) >>
  BY DEF ControlWork, ForEach
<1>3. Grid(rows, j.h, m)
  BY DEF Grid
<1>4. L \in Nat \ {0} /\ L >= 3 * m + (m + 1) \div 5
  BY <1>1 DEF BytesPerLine
<1>5. \A k \in 1 .. m : first[k] = 2 * (k - 1) /\ width[k] = 2
  OBVIOUS
<1>6. \A i \in 1 .. j.h : \A k \in 1 .. m :
        rows[i][k] = Step({<<i - 1, 2 * (k - 1)>>, <<i - 1, 2 * (k - 1) + 1>>}, {}, start(i, k) .. start(i, k) + 2)
  OBVIOUS
<1>7. \A k \in 1 .. m : PairAt(2 * (k - 1)) \in Nat /\ PairAt(2 * (k - 1)) + 2 < L
  <2> TAKE k \in 1 .. m
  <2>1. PairAt(2 * (k - 1)) = 3 * (k - 1) + (k - 1) \div 5
    BY <1>1 DEF PairAt
  <2> HIDE DEF L, m
  <2> QED BY <1>1, <1>4, <2>1
<1>8. \A k, l \in 1 .. m : k < l => PairAt(2 * (k - 1)) + 3 <= PairAt(2 * (l - 1))
  BY <1>1 DEF PairAt
<1>9. j.h * L <= j.size
  <2> DEFINE x == j.h * j.pitch
             y == j.h * L
  <2>1. x \in Nat /\ y \in Nat
    BY <1>1, <1>4, TimesNat
  <2>2. y <= x
    BY <1>0, <1>1, <1>4, <2>1, QuotientFits DEF EnoughLines
  <2>3. x <= j.size
    BY <1>1
  <2> HIDE DEF x, y
  <2>4. y <= j.size
    BY <1>1, <2>1, <2>2, <2>3
  <2> QED BY <2>4 DEF y
<1> HIDE DEF rows, first, width, m, L
<1>10. \A i \in 1 .. j.h : \A k \in 1 .. m : start(i, k) \in Nat /\ start(i, k) + 2 < j.size
  <2> TAKE i \in 1 .. j.h
  <2> TAKE k \in 1 .. m
  <2> DEFINE a == (i - 1) * L
             b == j.h * L
             p == PairAt(2 * (k - 1))
  <2>1. i - 1 \in Nat /\ i - 1 < j.h
    BY <1>1
  <2>2. a \in Nat /\ b \in Nat /\ a + L <= b /\ b <= j.size /\ start(i, k) = a + p
    BY <1>1, <1>4, <1>9, <2>1, TimesNat, NextRow
  <2>3. p \in Nat /\ p + 2 < L
    BY <1>7
  <2> HIDE DEF a, b, p, start
  <2> QED BY <1>1, <1>4, <2>2, <2>3
<1>11. ASSUME NEW i \in 1 .. j.h, NEW a \in 1 .. j.h, NEW k \in 1 .. m, NEW b \in 1 .. m, <<i, k>> # <<a, b>>
       PROVE  start(i, k) + 3 <= start(a, b) \/ start(a, b) + 3 <= start(i, k)
  <2> DEFINE p == PairAt(2 * (k - 1))
             q == PairAt(2 * (b - 1))
             u == (i - 1) * L
             v == (a - 1) * L
  <2>1. p \in Nat /\ q \in Nat /\ p + 2 < L /\ q + 2 < L
    BY <1>7
  <2>2. i - 1 \in Nat /\ a - 1 \in Nat
    BY <1>1
  <2>3. u \in Nat /\ v \in Nat
    BY <1>4, <2>2, TimesNat
  <2>4. start(i, k) = u + p /\ start(a, b) = v + q
    OBVIOUS
  <2>5. CASE i = a
    <3>1. u = v /\ k # b
      BY <1>11, <2>5
    <3>2. p + 3 <= q \/ q + 3 <= p
      BY <1>1, <1>8, <3>1
    <3> HIDE DEF p, q, u, v, start
    <3> QED BY <2>1, <2>3, <2>4, <3>1, <3>2
  <2>6. CASE i # a
    <3>1. u + L <= v \/ v + L <= u
      <4>1. CASE i - 1 < a - 1
        BY <1>4, <2>2, <4>1, NextRow
      <4>2. CASE a - 1 < i - 1
        BY <1>4, <2>2, <4>2, NextRow
      <4> QED BY <1>1, <2>2, <2>6, <4>1, <4>2
    <3> HIDE DEF p, q, u, v, start
    <3> QED BY <1>4, <2>1, <2>3, <2>4, <3>1
  <2> QED BY <2>5, <2>6
<1>12. \A i \in 1 .. j.h : \A k \in 1 .. m :
         Row(i - 1, first[k], width[k]) = {<<i - 1, 2 * (k - 1)>>, <<i - 1, 2 * (k - 1) + 1>>}
  <2> TAKE i \in 1 .. j.h
  <2> TAKE k \in 1 .. m
  <2>1. first[k] = 2 * (k - 1) /\ width[k] = 2
    BY <1>5
  <2>2. 2 * (k - 1) .. 2 * (k - 1) + 2 - 1 = {2 * (k - 1), 2 * (k - 1) + 1}
    BY <1>1
  <2> QED BY <2>1, <2>2 DEF Row
<1> HIDE DEF start
<1>13. \A i \in 1 .. j.h : \A k \in 1 .. m :
         /\ PlainStep(rows[i][k]) /\ rows[i][k].loads = {} /\ rows[i][k].reads = {}
         /\ rows[i][k].takes = start(i, k) .. start(i, k) + 2
         /\ rows[i][k].writes = Row(i - 1, first[k], width[k])
  <2> TAKE i \in 1 .. j.h
  <2> TAKE k \in 1 .. m
  <2>1. rows[i][k] = Step({<<i - 1, 2 * (k - 1)>>, <<i - 1, 2 * (k - 1) + 1>>}, {}, start(i, k) .. start(i, k) + 2)
    BY <1>6
  <2>2. rows[i][k] = Step(Row(i - 1, first[k], width[k]), {}, start(i, k) .. start(i, k) + 2)
    BY <1>12, <2>1
  <2> QED BY <2>2, StepFields
<1>14. Adjoin(first, width, m, j.w)
  <2>1. ASSUME NEW x \in 0 .. j.w - 1
        PROVE  \E k \in 1 .. m : x \in first[k] .. first[k] + width[k] - 1
    <3> DEFINE k == (x \div 2) + 1
    <3>1. k \in 1 .. m /\ x \in 2 * (k - 1) .. 2 * (k - 1) + 2 - 1
      BY <1>1
    <3> HIDE DEF k
    <3>2. first[k] = 2 * (k - 1) /\ width[k] = 2
      BY <1>5, <3>1
    <3> QED BY <3>1, <3>2
  <2>2. \A k \in 1 .. m : first[k] \in Nat /\ width[k] \in Nat /\ first[k] + width[k] <= j.w
    BY <1>1, <1>5
  <2>3. \A k, l \in 1 .. m : k < l => first[k] + width[k] <= first[l]
    BY <1>1, <1>5
  <2> QED BY <2>1, <2>2, <2>3 DEF Adjoin
<1>15. RowPieces(j, rows, j.h, m, first, width)
  BY <1>13 DEF RowPieces
<1>16. /\ \A i \in 1 .. j.h : \A k \in 1 .. m : rows[i][k].writes \subseteq Samples(j)
       /\ \A i \in 1 .. j.h : \A a \in 1 .. j.h : \A k \in 1 .. m : \A b \in 1 .. m :
            <<i, k>> # <<a, b>> => rows[i][k].writes \cap rows[a][b].writes = {}
       /\ GridCover(j, rows, j.h, m)
  BY <1>1, <1>14, <1>15, PiecesOfRows
<1>17. \A i \in 1 .. j.h : \A k \in 1 .. m : rows[i][k].takes \subseteq 0 .. j.size - 1
  <2> TAKE i \in 1 .. j.h
  <2> TAKE k \in 1 .. m
  <2>1. start(i, k) \in Nat /\ start(i, k) + 2 < j.size
    BY <1>10
  <2>2. rows[i][k].takes = start(i, k) .. start(i, k) + 2
    BY <1>13
  <2> QED BY <1>1, <2>1, <2>2
<1>18. GridPlain(j, rows, j.h, m)
  BY <1>13, <1>16, <1>17 DEF GridPlain, GridReads
<1>19. \A i \in 1 .. j.h : \A a \in 1 .. j.h : \A k \in 1 .. m : \A b \in 1 .. m :
         <<i, k>> # <<a, b>> => rows[i][k].takes \cap rows[a][b].takes = {}
  <2> SUFFICES ASSUME NEW i \in 1 .. j.h, NEW a \in 1 .. j.h, NEW k \in 1 .. m, NEW b \in 1 .. m,
                      <<i, k>> # <<a, b>>
               PROVE  rows[i][k].takes \cap rows[a][b].takes = {}
    OBVIOUS
  <2>1. start(i, k) \in Nat /\ start(a, b) \in Nat
    BY <1>10
  <2>2. start(i, k) + 3 <= start(a, b) \/ start(a, b) + 3 <= start(i, k)
    BY <1>11
  <2>3. rows[i][k].takes = start(i, k) .. start(i, k) + 2 /\ rows[a][b].takes = start(a, b) .. start(a, b) + 2
    BY <1>13
  <2> QED BY <2>1, <2>2, <2>3
<1>20. GridApart(rows, j.h, m)
  BY <1>16, <1>19 DEF GridApart
<1> QED BY <1>1, <1>2, <1>3, <1>16, <1>18, <1>20, GridPlan

(* sRaw: an image three times as wide as its units of superH pixels are many, and superV
   times as high.                                                                  *)
IsSRaw(j) ==
  /\ j.source.w \in Nat /\ j.source.h \in Nat \ {0}
  /\ LET dims == InterpolatedDims(j.source, j.superH, j.superV) IN j.w = dims.w /\ j.h = dims.h

LEMMA SRawIsPlain ==
  ASSUME NEW j, IsImage(j), IsSRaw(j), SRawAccepts(j)
  PROVE  Plain(j, SRawWork(j))
<1> DEFINE V == j.superV
           C == 2 + 2 * V
           n == j.source.w \div C
           H == j.source.h
           Stores(i, k) == StoreMCU(j, i - 1, k - 1)
           Loads(i, k) == UNION {LoadMCU(j, u[1], u[2]) : u \in Neighbours(j, i - 1, k - 1)}
           rows == [i \in 1 .. H |-> SRawRow(j, i - 1)]
<1>1. V \in {1, 2} /\ j.superH = 2 /\ C \in {4, 6} /\ H \in Nat \ {0} /\ j.source.w \in Nat
  BY DEF SRawAccepts, IsSRaw
<1>2. n \in Nat /\ n * C <= j.source.w
  <2>1. CASE C = 4
    BY <1>1, <2>1
  <2>2. CASE C = 6
    BY <1>1, <2>2
  <2> QED BY <1>1, <2>1, <2>2
<1>3. j.w = 6 * n /\ j.h = V * H
  <2>1. InterpolatedDims(j.source, 2, V) = [w |-> 3 * 2 * n, h |-> V * H]
    BY DEF InterpolatedDims, ComponentsPerPixel
  <2>2. j.w = 3 * 2 * n /\ j.h = V * H
    BY <1>1, <2>1 DEF IsSRaw
  <2> HIDE DEF n
  <2> QED BY <1>2, <2>2
<1>4. ComponentsPerMCU(j) = C /\ NumMCUs(j) = n
  BY <1>1 DEF ComponentsPerMCU, NumMCUs
<1>5. \A i \in 1 .. H : rows[i] = [k \in 1 .. n |-> [Write(Stores(i, k)) EXCEPT !.loads = Loads(i, k)]]
  BY <1>4 DEF SRawRow
<1>6. Grid(rows, H, n) /\ Numbered(rows, H, n)
  BY <1>5 DEF Grid, Numbered
<1>7. \A i \in 1 .. H : \A k \in 1 .. n :
        /\ rows[i][k].writes = Stores(i, k) /\ rows[i][k].loads = Loads(i, k)
        /\ rows[i][k].reads = {} /\ rows[i][k].takes = {} /\ PlainStep(rows[i][k])
  <2> TAKE i \in 1 .. H
  <2> TAKE k \in 1 .. n
  <2>1. rows[i][k] = [Write(Stores(i, k)) EXCEPT !.loads = Loads(i, k)]
    BY <1>5
  <2> HIDE DEF Stores, Loads
  <2> QED BY <2>1 DEF Write, Step, PlainStep
<1> HIDE DEF rows, n
<1>8. \A i \in 1 .. H : \A k \in 1 .. n :
        Stores(i, k) = (V * (i - 1) .. V * (i - 1) + V - 1) \X (6 * (k - 1) .. 6 * (k - 1) + 5)
  <2> TAKE i \in 1 .. H
  <2> TAKE k \in 1 .. n
  <2>1. Stores(i, k) = (V * (i - 1) .. V * (i - 1) + V - 1) \X (3 * 2 * (k - 1) .. 3 * 2 * (k - 1) + 3 * 2 - 1)
    BY <1>1 DEF StoreMCU, Rectangle, ComponentsPerPixel
  <2>2. 3 * 2 * (k - 1) = 6 * (k - 1) /\ 6 * (k - 1) + 3 * 2 - 1 = 6 * (k - 1) + 5
    BY <1>2
  <2> QED BY <2>1, <2>2
<1>9. ASSUME NEW i \in 1 .. H, NEW k \in 1 .. n PROVE Loads(i, k) \subseteq Samples(j.source)
  <2> SUFFICES ASSUME NEW u \in Neighbours(j, i - 1, k - 1) PROVE LoadMCU(j, u[1], u[2]) \subseteq Samples(j.source)
    OBVIOUS
  <2>1. u[1] \in 0 .. H - 1 /\ u[2] \in 0 .. n - 1
    BY <1>1, <1>2, <1>4 DEF Neighbours
  <2>2. LoadMCU(j, u[1], u[2]) = (u[1] .. u[1] + 1 - 1) \X (C * u[2] .. C * u[2] + C - 1)
    BY <1>4 DEF LoadMCU, Rectangle
  <2>3. CASE C = 4
    BY <1>1, <1>2, <2>1, <2>2, <2>3 DEF Samples
  <2>4. CASE C = 6
    BY <1>1, <1>2, <2>1, <2>2, <2>4 DEF Samples
  <2> QED BY <1>1, <2>3, <2>4
<1>10. ASSUME NEW i \in 1 .. H, NEW k \in 1 .. n PROVE Stores(i, k) \subseteq Samples(j)
  <2>1. CASE V = 1
    BY <1>1, <1>2, <1>3, <1>8, <2>1 DEF Samples
  <2>2. CASE V = 2
    BY <1>1, <1>2, <1>3, <1>8, <2>2 DEF Samples
  <2> QED BY <1>1, <2>1, <2>2
<1>11. ASSUME NEW i \in 1 .. H, NEW a \in 1 .. H, NEW k \in 1 .. n, NEW b \in 1 .. n, <<i, k>> # <<a, b>>
       PROVE  Stores(i, k) \cap Stores(a, b) = {}
  <2>1. CASE k # b
    <3> DEFINE P == 6 * (k - 1) .. 6 * (k - 1) + 5
               Q == 6 * (b - 1) .. 6 * (b - 1) + 5
    <3>1. P \cap Q = {}
      BY <1>2, <2>1
    <3>2. /\ Stores(i, k) = (V * (i - 1) .. V * (i - 1) + V - 1) \X P
          /\ Stores(a, b) = (V * (a - 1) .. V * (a - 1) + V - 1) \X Q
      BY <1>8
    <3> HIDE DEF P, Q, Stores
    <3> QED BY <3>1, <3>2
  <2>2. CASE i # a
    <3> DEFINE P == V * (i - 1) .. V * (i - 1) + V - 1
               Q == V * (a - 1) .. V * (a - 1) + V - 1
    <3>1. P \cap Q = {}
      <4>1. CASE V = 1
        BY <1>1, <2>2, <4>1
      <4>2. CASE V = 2
        BY <1>1, <2>2, <4>2
      <4> QED BY <1>1, <4>1, <4>2
    <3>2. /\ Stores(i, k) = P \X (6 * (k - 1) .. 6 * (k - 1) + 5)
          /\ Stores(a, b) = Q \X (6 * (b - 1) .. 6 * (b - 1) + 5)
      BY <1>8
    <3> HIDE DEF P, Q, Stores
    <3> QED BY <3>1, <3>2
  <2> QED BY <1>11, <2>1, <2>2
<1>12. ASSUME NEW y \in 0 .. j.h - 1, NEW x \in 0 .. j.w - 1
       PROVE  \E i \in 1 .. H : \E k \in 1 .. n : <<y, x>> \in Stores(i, k)
  <2>1. PICK k \in 1 .. n : x \in 6 * (k - 1) .. 6 * (k - 1) + 5
    <3>1. (x \div 6) + 1 \in 1 .. n /\ x \in 6 * (((x \div 6) + 1) - 1) .. 6 * (((x \div 6) + 1) - 1) + 5
      BY <1>2, <1>3
    <3> QED BY <3>1
  <2>2. PICK i \in 1 .. H : y \in V * (i - 1) .. V * (i - 1) + V - 1
    <3>1. CASE V = 1
      <4>1. y + 1 \in 1 .. H /\ y \in V * ((y + 1) - 1) .. V * ((y + 1) - 1) + V - 1
        BY <1>1, <1>3, <3>1
      <4> QED BY <4>1
    <3>2. CASE V = 2
      <4>1. (y \div 2) + 1 \in 1 .. H /\ y \in V * (((y \div 2) + 1) - 1) .. V * (((y \div 2) + 1) - 1) + V - 1
        BY <1>1, <1>3, <3>2
      <4> QED BY <4>1
    <3> QED BY <1>1, <3>1, <3>2
  <2>3. <<y, x>> \in Stores(i, k)
    BY <1>8, <2>1, <2>2
  <2> HIDE DEF Stores
  <2> QED BY <2>3
<1> HIDE DEF Stores, Loads
<1>13. CASE V = 1
  <2>1. SRawWork(j) = << FlattenSeq(rows) >>
    BY <1>13 DEF SRawWork, ForEach, rows
  <2>2. GridPlain(j, rows, H, n)
    BY <1>7, <1>9, <1>10 DEF GridPlain, GridReads
  <2>3. GridApart(rows, H, n)
    BY <1>7, <1>11 DEF GridApart
  <2>4. GridCover(j, rows, H, n)
    BY <1>7, <1>12 DEF GridCover
  <2> QED BY <1>1, <1>2, <1>6, <2>1, <2>2, <2>3, <2>4, GridPlan
<1>14. CASE V = 2
  <2>1. SRawWork(j) = rows
    BY <1>14 DEF SRawWork, rows
  <2>2. StepsPlain(j, rows, H, n)
    BY <1>7, <1>9, <1>10 DEF StepsPlain, StepIsPlain, Cells
  <2>3. StepsApart(rows, H, n)
    BY <1>7, <1>11 DEF StepsApart
  <2>4. StepsCover(j, rows, H, n)
    BY <1>7, <1>12 DEF StepsCover
  <2>5. H \in Nat
    BY <1>1
  <2> QED BY <1>2, <1>6, <2>1, <2>2, <2>3, <2>4, <2>5, NumberedPlan
<1> QED BY <1>1, <1>13, <1>14

(* Canon CRW: blocks of 64 samples in the order of rows, and then the low bits of four
   samples at a time.                                                              *)
LEMMA CrwIsPlain ==
  ASSUME NEW j, IsImage(j), j.lowbits \in BOOLEAN, CrwAccepts(j)
  PROVE  Plain(j, CrwWork(j))
<1> DEFINE N == j.w * j.h
           blocks == N \div 64
           bytes == IF j.lowbits THEN N \div 4 ELSE 0
           At(k) == <<k \div j.w, k % j.w>>
           u == [b \in 1 .. blocks |-> Write(CrwBlock(b - 1, j))]
           v == [n \in 1 .. bytes |-> Step({}, CrwFour(n - 1, j), {n - 1})]
           slice == u \o v
           plan == << slice >>
           m == blocks + bytes
<1>1. j.w \in Nat \ {0} /\ j.h \in Nat /\ N % 64 = 0 /\ (j.lowbits => N \div 4 <= j.size) /\ j.size \in Nat
  BY DEF IsImage, CrwAccepts, NotEmpty
<1>2. N \in Nat /\ N = j.h * j.w
  BY <1>1, TimesNat
<1> HIDE DEF N
<1>3. blocks \in Nat /\ N = 64 * blocks
  BY <1>1, <1>2
<1>4. bytes \in Nat /\ 4 * bytes <= N /\ bytes <= j.size
  BY <1>1, <1>2
<1>5. CrwWork(j) = plan
  BY DEF CrwWork, N
<1>6. (\A b \in 1 .. blocks : u[b] = Write(CrwBlock(b - 1, j))) /\ u = [b \in 1 .. blocks |-> u[b]]
  OBVIOUS
<1>7. (\A n \in 1 .. bytes : v[n] = Step({}, CrwFour(n - 1, j), {n - 1})) /\ v = [n \in 1 .. bytes |-> v[n]]
  OBVIOUS
<1> HIDE DEF u, v, blocks, bytes
<1>8. IsList(u) /\ Len(u) = blocks /\ IsList(v) /\ Len(v) = bytes
  BY <1>3, <1>4, <1>6, <1>7, ListIs
<1>9. /\ IsSlice(slice) /\ Len(slice) = m
      /\ \A b \in 1 .. blocks : slice[b] = Write(CrwBlock(b - 1, j))
      /\ \A n \in 1 .. bytes : slice[blocks + n] = Step({}, CrwFour(n - 1, j), {n - 1})
  <2>1. /\ IsSlice(slice) /\ Len(slice) = Len(u) + Len(v)
        /\ \A k \in 1 .. Len(u) : slice[k] = u[k]
        /\ \A k \in 1 .. Len(v) : slice[Len(u) + k] = v[k]
    BY <1>8, Joined DEF Joins
  <2> HIDE DEF slice
  <2> QED BY <1>6, <1>7, <1>8, <2>1
<1>10. m \in Nat /\ DOMAIN slice = 1 .. m /\ DOMAIN plan = 1 .. 1 /\ plan[1] = slice
  BY <1>3, <1>4, <1>9 DEF IsSlice
<1> HIDE DEF slice, plan, m
<1>11. \A k \in 1 .. m : k \in 1 .. blocks \/ \E n \in 1 .. bytes : k = blocks + n
  <2> TAKE k \in 1 .. m
  <2>1. CASE k <= blocks
    BY <1>3, <2>1
  <2>2. CASE ~(k <= blocks)
    <3>1. k - blocks \in 1 .. bytes /\ k = blocks + (k - blocks)
      BY <1>3, <1>4, <1>10, <2>2 DEF m
    <3> QED BY <3>1
  <2> QED BY <2>1, <2>2
<1>12. \A b \in 1 .. blocks :
         /\ b \in 1 .. m
         /\ PlainStep(slice[b]) /\ slice[b].loads = {} /\ slice[b].reads = {} /\ slice[b].takes = {}
         /\ slice[b].writes = CrwBlock(b - 1, j)
  <2> TAKE b \in 1 .. blocks
  <2>1. slice[b] = Step(CrwBlock(b - 1, j), {}, {})
    BY <1>9 DEF Write
  <2>2. b \in 1 .. m
    BY <1>3, <1>4 DEF m
  <2> QED BY <2>1, <2>2, StepFields
<1>13. \A n \in 1 .. bytes :
         /\ PlainStep(slice[blocks + n]) /\ slice[blocks + n].loads = {}
         /\ slice[blocks + n].reads = CrwFour(n - 1, j)
         /\ slice[blocks + n].takes = {n - 1} /\ slice[blocks + n].writes = {}
  <2> TAKE n \in 1 .. bytes
  <2>1. slice[blocks + n] = Step({}, CrwFour(n - 1, j), {n - 1})
    BY <1>9
  <2> QED BY <2>1, StepFields
<1>14. \A b \in 1 .. blocks : \A c : c \in CrwBlock(b - 1, j) <=> \E k \in 64 * (b - 1) .. 64 * (b - 1) + 63 : c = At(k)
  BY DEF CrwBlock
<1>15. ASSUME NEW k \in 0 .. N - 1 PROVE At(k) \in Samples(j)
  <2>1. k \in 0 .. j.h * j.w - 1 /\ k \in Nat
    BY <1>2
  <2>2. k \div j.w \in 0 .. j.h - 1
    BY <1>1, <2>1, QuotientBelow
  <2>3. k % j.w \in 0 .. j.w - 1
    BY <1>1, <2>1, DivMod
  <2> QED BY <2>2, <2>3 DEF Samples
<1>16. ASSUME NEW k \in 0 .. N - 1, NEW l \in 0 .. N - 1, At(k) = At(l) PROVE k = l
  <2>1. k \in Nat /\ l \in Nat
    BY <1>2
  <2>2. k = (k \div j.w) * j.w + (k % j.w) /\ l = (l \div j.w) * j.w + (l % j.w)
    BY <1>1, <2>1, DivMod
  <2>3. k \div j.w = l \div j.w /\ k % j.w = l % j.w
    BY <1>16
  <2> QED BY <2>2, <2>3
<1>17. \A b \in 1 .. blocks : \A k \in 64 * (b - 1) .. 64 * (b - 1) + 63 : k \in 0 .. N - 1
  BY <1>3
<1> HIDE DEF At
<1>18. \A k \in 0 .. N - 1 : (k \div 64) + 1 \in 1 .. blocks /\ At(k) \in CrwBlock(((k \div 64) + 1) - 1, j)
  <2> TAKE k \in 0 .. N - 1
  <2> DEFINE b == (k \div 64) + 1
  <2>1. b \in 1 .. blocks /\ k \in 64 * (b - 1) .. 64 * (b - 1) + 63
    BY <1>2, <1>3
  <2> HIDE DEF b
  <2>2. At(k) \in CrwBlock(b - 1, j)
    BY <1>14, <2>1
  <2> QED BY <2>1, <2>2 DEF b
<1>19. \A b \in 1 .. blocks : CrwBlock(b - 1, j) \subseteq Cells(j)
  BY <1>14, <1>15, <1>17 DEF Cells
<1>20. ASSUME NEW n \in 1 .. bytes PROVE CrwFour(n - 1, j) \subseteq WrittenBefore(slice, blocks + n)
  <2> SUFFICES ASSUME NEW k \in 4 * (n - 1) .. 4 * (n - 1) + 3 PROVE At(k) \in WrittenBefore(slice, blocks + n)
    BY DEF CrwFour, At
  <2>1. k \in 0 .. N - 1
    BY <1>2, <1>4
  <2> DEFINE b == (k \div 64) + 1
  <2>2. b \in 1 .. blocks /\ At(k) \in slice[b].writes
    BY <1>12, <1>18, <2>1
  <2> HIDE DEF b
  <2>3. b \in 1 .. (blocks + n) - 1
    BY <1>3, <1>4, <2>2
  <2> DEFINE w == slice[b].writes
  <2>4. At(k) \in w /\ w \in {slice[i].writes : i \in 1 .. (blocks + n) - 1}
    BY <2>2, <2>3
  <2> HIDE DEF w
  <2>5. At(k) \in UNION {slice[i].writes : i \in 1 .. (blocks + n) - 1}
    BY <2>4
  <2> QED BY Zenon, <2>5 DEF WrittenBefore
<1>21. ASSUME NEW k \in 1 .. m PROVE StepIsPlain(j, slice, k)
  <2>1. CASE k \in 1 .. blocks
    <3>1. {} \subseteq WrittenBefore(slice, k) /\ {} \subseteq 0 .. j.size - 1 /\ {} \subseteq Samples(j.source)
      OBVIOUS
    <3> QED BY <1>12, <1>19, <2>1, <3>1 DEF StepIsPlain
  <2>2. CASE \E n \in 1 .. bytes : k = blocks + n
    <3>1. PICK n \in 1 .. bytes : k = blocks + n
      BY <2>2
    <3>2. {n - 1} \subseteq 0 .. j.size - 1
      BY <1>1, <1>4
    <3>3. {} \subseteq Cells(j) /\ {} \subseteq Samples(j.source)
      OBVIOUS
    <3> QED BY <1>13, <1>20, <3>1, <3>2, <3>3 DEF StepIsPlain
  <2> QED BY <1>11, <2>1, <2>2
<1>22. ASSUME NEW k \in 1 .. m, NEW l \in 1 .. m, k # l
       PROVE  slice[k].writes \cap slice[l].writes = {} /\ slice[k].takes \cap slice[l].takes = {}
  <2>1. CASE k \in 1 .. blocks /\ l \in 1 .. blocks
    <3>1. CrwBlock(k - 1, j) \cap CrwBlock(l - 1, j) = {}
      <4> SUFFICES ASSUME NEW a \in 64 * (k - 1) .. 64 * (k - 1) + 63, NEW b \in 64 * (l - 1) .. 64 * (l - 1) + 63,
                          At(a) = At(b)
                   PROVE  FALSE
        BY <1>14, <2>1
      <4>1. a = b
        BY <1>16, <1>17, <2>1
      <4> QED BY <1>3, <1>22, <2>1, <4>1
    <3> QED BY <1>12, <2>1, <3>1
  <2>2. CASE k \in 1 .. blocks /\ \E n \in 1 .. bytes : l = blocks + n
    BY <1>12, <1>13, <2>2
  <2>3. CASE (\E n \in 1 .. bytes : k = blocks + n) /\ l \in 1 .. blocks
    BY <1>12, <1>13, <2>3
  <2>4. CASE (\E n \in 1 .. bytes : k = blocks + n) /\ \E n \in 1 .. bytes : l = blocks + n
    <3>1. PICK a \in 1 .. bytes : k = blocks + a
      BY <2>4
    <3>2. PICK b \in 1 .. bytes : l = blocks + b
      BY <2>4
    <3>3. a - 1 # b - 1
      BY <1>4, <1>22, <3>1, <3>2
    <3>4. /\ slice[k].writes = {} /\ slice[k].takes = {a - 1} /\ slice[l].takes = {b - 1}
      BY <1>13, <3>1, <3>2
    <3> QED BY <3>3, <3>4
  <2> QED BY <1>11, <2>1, <2>2, <2>3, <2>4
<1>23. ASSUME NEW y \in 0 .. j.h - 1, NEW x \in 0 .. j.w - 1
       PROVE  \E k \in 1 .. m : <<y, x>> \in slice[k].writes
  <2> DEFINE p == y * j.w + x
  <2>1. p \in 0 .. N - 1 /\ p \in Nat
    <3>1. p \in 0 .. j.h * j.w - 1
      BY <1>1, InRectangle
    <3> QED BY <1>2, <3>1
  <2>2. p = (p \div j.w) * j.w + (p % j.w) /\ p \div j.w \in Nat /\ p % j.w \in 0 .. j.w - 1
    BY <1>1, <2>1, DivMod
  <2>3. At(p) = <<y, x>>
    <3> DEFINE q == p \div j.w
               r == p % j.w
    <3>1. y * j.w + x = q * j.w + r /\ q \in Nat /\ r \in 0 .. j.w - 1 /\ y \in Nat
      BY <2>2
    <3> HIDE DEF q, r
    <3>2. y = q /\ x = r
      BY <1>1, <3>1, SamePlace
    <3> QED BY <3>2 DEF q, r, At
  <2> HIDE DEF p
  <2>4. PICK b \in 1 .. blocks : At(p) \in CrwBlock(b - 1, j)
    BY <1>18, <2>1
  <2> QED BY <1>12, <2>3, <2>4
<1>24. Numbered(plan, 1, m)
  BY <1>10 DEF Numbered
<1>25. StepsPlain(j, plan, 1, m)
  BY <1>10, <1>21 DEF StepsPlain
<1>26. StepsApart(plan, 1, m)
  <2> SUFFICES ASSUME NEW s \in 1 .. 1, NEW t \in 1 .. 1, NEW k \in 1 .. m, NEW l \in 1 .. m,
                      <<s, k>> # <<t, l>>
               PROVE  /\ plan[s][k].writes \cap plan[t][l].writes = {}
                      /\ plan[s][k].takes \cap plan[t][l].takes = {}
    BY DEF StepsApart
  <2>1. k # l /\ plan[s] = slice /\ plan[t] = slice
    BY <1>10
  <2> QED BY <1>22, <2>1
<1>27. StepsCover(j, plan, 1, m)
  <2>1. 1 \in 1 .. 1
    OBVIOUS
  <2> QED BY <1>10, <1>23, <2>1 DEF StepsCover
<1>28. 1 \in Nat
  OBVIOUS
<1> QED BY <1>5, <1>10, <1>24, <1>25, <1>26, <1>27, <1>28, NumberedPlan
-----------------------------------------------------------------------------
(* Slices of which each has an area of its own, and the areas fill the image.         *)
Areas(j, plan, area, n) ==
  /\ DOMAIN plan = 1 .. n
  /\ \A s \in 1 .. n : IsSlice(plan[s])
  /\ \A s, t \in 1 .. n : s # t => area[s] \cap area[t] = {}
  /\ \A p \in Samples(j) : \E s \in 1 .. n : p \in area[s]

FillsArea(j, slice, area) ==
  /\ \A k \in DOMAIN slice : StepIsPlain(j, slice, k) /\ slice[k].writes \subseteq area
  /\ \A k, l \in DOMAIN slice : k # l => slice[k].writes \cap slice[l].writes = {}
  /\ \A p \in area : \E k \in DOMAIN slice : p \in slice[k].writes

LEMMA AreasPlan ==
  ASSUME NEW j, NEW n \in Nat, NEW plan, NEW area, Areas(j, plan, area, n),
         \A s \in 1 .. n : FillsArea(j, plan[s], area[s]),
         TakesApart(plan)
  PROVE  Plain(j, plan)
<1>1. DOMAIN plan = 1 .. n /\ \A s \in 1 .. n : IsSlice(plan[s])
  BY DEF Areas
<1>2. \A s \in DOMAIN plan : \A k \in DOMAIN plan[s] : StepIsPlain(j, plan[s], k)
  BY <1>1 DEF FillsArea
<1>3. WritesApart(plan)
  <2> SUFFICES ASSUME NEW s \in DOMAIN plan, NEW t \in DOMAIN plan, NEW k \in DOMAIN plan[s],
                      NEW l \in DOMAIN plan[t], <<s, k>> # <<t, l>>
               PROVE  plan[s][k].writes \cap plan[t][l].writes = {}
    BY DEF WritesApart
  <2>1. CASE s = t
    <3>1. k # l
      BY <2>1
    <3> QED BY <1>1, <2>1, <3>1 DEF FillsArea
  <2>2. CASE s # t
    <3>1. area[s] \cap area[t] = {}
      BY <1>1, <2>2 DEF Areas
    <3>2. plan[s][k].writes \subseteq area[s] /\ plan[t][l].writes \subseteq area[t]
      BY <1>1 DEF FillsArea
    <3> QED BY <3>1, <3>2
  <2> QED BY <2>1, <2>2
<1>4. WritesCover(j, plan)
  <2> SUFFICES ASSUME NEW p \in Samples(j)
               PROVE  \E s \in DOMAIN plan : \E k \in DOMAIN plan[s] : p \in plan[s][k].writes
    BY DEF WritesCover
  <2>1. PICK s \in 1 .. n : p \in area[s]
    BY DEF Areas
  <2>2. \E k \in DOMAIN plan[s] : p \in plan[s][k].writes
    BY <2>1 DEF FillsArea
  <2> QED BY <1>1, <2>2
<1>5. 0 \notin DOMAIN plan
  BY <1>1
<1> QED BY <1>1, <1>2, <1>3, <1>4, <1>5 DEF Plain

(* Panasonic V8: what isValidImageGrid() says of the strips' rectangles.  Up to each of
   them they fill the rows above it, and its own rows up to where it ends.             *)
AreRects(j) ==
  j.rects \in Seq([x : Nat, y : Nat, w : Nat, h : Nat])

AreaOf(r) == {<<y, x>> : y \in r.y .. Bottom(r) - 1, x \in r.x .. Right(r) - 1}

LEMMA GridFills ==
  ASSUME NEW j, IsImage(j), AreRects(j), V8Accepts(j)
  PROVE  /\ Len(j.rects) \in Nat /\ DOMAIN j.rects = 1 .. Len(j.rects)
         /\ \A i \in DOMAIN j.rects : AreaOf(j.rects[i]) \subseteq Samples(j)
         /\ \A s, t \in DOMAIN j.rects : s # t => AreaOf(j.rects[s]) \cap AreaOf(j.rects[t]) = {}
         /\ \A p \in Samples(j) : \E s \in DOMAIN j.rects : p \in AreaOf(j.rects[s])
<1> DEFINE R == j.rects
           n == Len(R)
           Filled(i, y, x) == y < R[i].y \/ (y < Bottom(R[i]) /\ x < Right(R[i]))
           In(i, y, x) == R[i].y <= y /\ y < Bottom(R[i]) /\ R[i].x <= x /\ x < Right(R[i])
           S == {0} \cup {i \in 1 .. n : \A y \in 0 .. j.h - 1, x \in 0 .. j.w - 1 :
                            (\E t \in 1 .. i : In(t, y, x)) <=> Filled(i, y, x)}
<1>1. j.w \in Nat /\ j.h \in Nat
  BY DEF IsImage
<1>2. n \in Nat \ {0} /\ DOMAIN R = 1 .. n
  BY DEF AreRects, V8Accepts
<1>3. \A i \in 1 .. n :
        /\ R[i].x \in Nat /\ R[i].y \in Nat /\ R[i].w \in Nat /\ R[i].h \in Nat
        /\ R[i].w > 0 /\ R[i].h > 0 /\ Right(R[i]) <= j.w /\ Bottom(R[i]) <= j.h
        /\ Right(R[i]) = R[i].x + R[i].w /\ Bottom(R[i]) = R[i].y + R[i].h
  <2> TAKE i \in 1 .. n
  <2>1. R[i] \in [x : Nat, y : Nat, w : Nat, h : Nat]
    <3> DEFINE T == [x : Nat, y : Nat, w : Nat, h : Nat]
    <3>1. R \in Seq(T) /\ i \in 1 .. Len(R)
      BY DEF AreRects
    <3> HIDE DEF R, T, n
    <3>2. R[i] \in T
      BY <3>1
    <3> QED BY <3>2 DEF T
  <2>2. IsTile(R[i], j)
    BY <1>2 DEF V8Accepts
  <2> QED BY <2>1, <2>2 DEF IsTile, Right, Bottom
<1>4. /\ R[1].x = 0 /\ R[1].y = 0
      /\ \A i \in 1 .. n - 1 :
           \/ R[i + 1].x = Right(R[i]) /\ R[i + 1].y = R[i].y /\ Bottom(R[i + 1]) = Bottom(R[i])
           \/ R[i + 1].x = 0 /\ R[i + 1].y = Bottom(R[i]) /\ Right(R[i]) = j.w
      /\ Right(R[n]) = j.w /\ Bottom(R[n]) = j.h
  <2>1. IsValidImageGrid(j)
    BY DEF V8Accepts
  <2> QED BY Zenon, <2>1 DEF IsValidImageGrid, ContinuesRow, BeginsNewRow, EndsImageGrid
<1> HIDE DEF R, n
<1>5. ASSUME NEW i \in 1 .. n - 1, NEW y \in 0 .. j.h - 1, NEW x \in 0 .. j.w - 1
      PROVE  /\ ~(Filled(i, y, x) /\ In(i + 1, y, x))
             /\ (Filled(i, y, x) \/ In(i + 1, y, x)) <=> Filled(i + 1, y, x)
  <2>1. i \in 1 .. n /\ i + 1 \in 1 .. n
    BY <1>2
  <2>2. CASE R[i + 1].x = Right(R[i]) /\ R[i + 1].y = R[i].y /\ Bottom(R[i + 1]) = Bottom(R[i])
    BY <1>1, <1>3, <2>1, <2>2
  <2>3. CASE R[i + 1].x = 0 /\ R[i + 1].y = Bottom(R[i]) /\ Right(R[i]) = j.w
    BY <1>1, <1>3, <2>1, <2>3
  <2> QED BY <1>4, <2>2, <2>3
<1>6. \A y \in 0 .. j.h - 1, x \in 0 .. j.w - 1 : In(1, y, x) <=> Filled(1, y, x)
  <2>1. 1 \in 1 .. n
    BY <1>2
  <2> QED BY <1>1, <1>3, <1>4, <2>1
<1> HIDE DEF Filled, In
<1>7. 0 .. n \subseteq S
  <2>1. ASSUME NEW i \in 0 .. n - 1, i \in S PROVE i + 1 \in S
    <3>1. CASE i = 0
      <4>1. 1 .. 1 = {1} /\ 1 \in 1 .. n
        BY <1>2
      <4>2. \A y \in 0 .. j.h - 1, x \in 0 .. j.w - 1 : (\E t \in 1 .. 1 : In(t, y, x)) <=> Filled(1, y, x)
        BY <1>6, <4>1
      <4> QED BY <3>1, <4>1, <4>2
    <3>2. CASE i # 0
      <4>1. i \in 1 .. n - 1 /\ i + 1 \in 1 .. n /\ 1 .. i + 1 = (1 .. i) \cup {i + 1}
        BY <1>2, <3>2
      <4>2. \A y \in 0 .. j.h - 1, x \in 0 .. j.w - 1 : (\E t \in 1 .. i : In(t, y, x)) <=> Filled(i, y, x)
        BY <2>1, <3>2
      <4>3. \A y \in 0 .. j.h - 1, x \in 0 .. j.w - 1 :
              (\E t \in 1 .. i + 1 : In(t, y, x)) <=> (Filled(i, y, x) \/ In(i + 1, y, x))
        BY <4>1, <4>2
      <4>4. \A y \in 0 .. j.h - 1, x \in 0 .. j.w - 1 :
              (\E t \in 1 .. i + 1 : In(t, y, x)) <=> Filled(i + 1, y, x)
        BY <1>5, <4>1, <4>3
      <4> QED BY <4>1, <4>4
    <3> QED BY <3>1, <3>2
  <2>2. 0 \in S
    OBVIOUS
  <2> HIDE DEF S
  <2> QED BY <1>2, <2>1, <2>2, AllUpTo
<1>8. \A i \in 1 .. n : \A y, x : <<y, x>> \in AreaOf(R[i]) <=> (y \in Int /\ x \in Int /\ In(i, y, x))
  <2> TAKE i \in 1 .. n
  <2> QED BY <1>3 DEF AreaOf, In
<1>9. \A i \in 1 .. n : AreaOf(R[i]) \subseteq Samples(j)
  BY <1>1, <1>3 DEF AreaOf, Samples
<1>10. ASSUME NEW s \in 1 .. n, NEW t \in 1 .. n, s < t PROVE AreaOf(R[s]) \cap AreaOf(R[t]) = {}
  <2> SUFFICES ASSUME NEW p \in AreaOf(R[s]), p \in AreaOf(R[t]) PROVE FALSE
    OBVIOUS
  <2>1. PICK y \in 0 .. j.h - 1, x \in 0 .. j.w - 1 : p = <<y, x>>
    BY <1>9, SampleIs
  <2>2. In(s, y, x) /\ In(t, y, x)
    BY <1>8, <2>1
  <2>3. t - 1 \in 1 .. n - 1 /\ t - 1 \in 0 .. n /\ t - 1 \in 1 .. n /\ (t - 1) + 1 = t /\ s \in 1 .. t - 1
    BY <1>2, <1>10
  <2>4. Filled(t - 1, y, x)
    <3>1. t - 1 \in S /\ t - 1 # 0
      BY <1>7, <2>3
    <3> QED BY <2>2, <2>3, <3>1
  <2> QED BY <1>5, <2>2, <2>3, <2>4
<1>11. \A s, t \in 1 .. n : s # t => AreaOf(R[s]) \cap AreaOf(R[t]) = {}
  BY <1>2, <1>10
<1>12. ASSUME NEW p \in Samples(j) PROVE \E s \in 1 .. n : p \in AreaOf(R[s])
  <2>1. PICK y \in 0 .. j.h - 1, x \in 0 .. j.w - 1 : p = <<y, x>>
    BY SampleIs
  <2>2. Filled(n, y, x)
    <3>1. n \in 1 .. n
      BY <1>2
    <3> QED BY <1>1, <1>3, <1>4, <3>1 DEF Filled
  <2>3. n \in S /\ n # 0
    BY <1>2, <1>7
  <2>4. \E t \in 1 .. n : In(t, y, x)
    BY <2>2, <2>3
  <2> QED BY <1>8, <2>1, <2>4
<1> QED BY <1>2, <1>9, <1>11, <1>12 DEF R, n

LEMMA V8IsPlain ==
  ASSUME NEW j, IsImage(j), AreRects(j), V8Accepts(j)
  PROVE  Plain(j, V8Work(j))
<1> DEFINE plan == V8Work(j)
           n == Len(j.rects)
           area == [s \in 1 .. n |-> AreaOf(j.rects[s])]
<1>1. /\ n \in Nat /\ DOMAIN j.rects = 1 .. n
      /\ \A i \in 1 .. n : AreaOf(j.rects[i]) \subseteq Samples(j)
      /\ \A s, t \in 1 .. n : s # t => AreaOf(j.rects[s]) \cap AreaOf(j.rects[t]) = {}
      /\ \A p \in Samples(j) : \E s \in 1 .. n : p \in AreaOf(j.rects[s])
  BY GridFills
<1> HIDE DEF n
<1>2. ASSUME NEW s \in 1 .. n
      PROVE  /\ IsSlice(plan[s]) /\ FillsArea(j, plan[s], AreaOf(j.rects[s]))
             /\ \A k \in DOMAIN plan[s] : plan[s][k].takes = {}
  <2> DEFINE r == j.rects[s]
             p == r.w \div 2
             q == r.h \div 2
             len == p * q
             Block(m) == {r.y + 2 * (m \div p), r.y + 2 * (m \div p) + 1} \X
                           {r.x + 2 * (m % p), r.x + 2 * (m % p) + 1}
             Reads(k) == IF k > 1 /\ (k - 1) % p = 0 THEN Block(k - 1 - p) ELSE {}
             slice == plan[s]
  <2>1. r.x \in Nat /\ r.y \in Nat /\ r.w \in Nat /\ r.h \in Nat
    <3> DEFINE T == [x : Nat, y : Nat, w : Nat, h : Nat]
               R == j.rects
    <3>1. R \in Seq(T) /\ s \in 1 .. Len(R)
      BY DEF AreRects, n
    <3> HIDE DEF R, T
    <3>2. R[s] \in T
      BY <3>1
    <3> QED BY <3>2 DEF R, T
  <2>2. IsTile(r, j)
    BY <1>1 DEF V8Accepts
  <2>3. slice = [k \in 1 .. len |-> Step(Block(k - 1), Reads(k), {})]
    BY <1>1 DEF V8Work
  <2> HIDE DEF r, plan
  <2>4. p \in Nat \ {0} /\ q \in Nat \ {0} /\ r.w = 2 * p /\ r.h = 2 * q
    BY <2>1, <2>2 DEF IsTile
  <2> HIDE DEF p, q
  <2>5. len \in Nat /\ len = q * p
    BY <2>4, TimesNat
  <2>6. DOMAIN slice = 1 .. len /\ IsSlice(slice)
    <3>1. DOMAIN slice = 1 .. len
      BY <2>3
    <3> HIDE DEF slice, len
    <3> QED BY <2>5, <3>1, ListedSlice
  <2>7. \A k \in 1 .. len :
          /\ PlainStep(slice[k]) /\ slice[k].loads = {} /\ slice[k].takes = {}
          /\ slice[k].writes = Block(k - 1) /\ slice[k].reads = Reads(k)
    <3> TAKE k \in 1 .. len
    <3>1. slice[k] = Step(Block(k - 1), Reads(k), {})
      BY <2>3
    <3> HIDE DEF Block, Reads, slice
    <3> QED BY <3>1, StepFields
  <2> HIDE DEF slice, len
  <2>8. \A m \in 0 .. len - 1 :
          /\ m \div p \in 0 .. q - 1 /\ m % p \in 0 .. p - 1 /\ m \in Nat
          /\ m = (m \div p) * p + (m % p)
    <3> TAKE m \in 0 .. len - 1
    <3>1. m \in 0 .. q * p - 1 /\ m \in Nat
      BY <2>5
    <3>2. m \div p \in 0 .. q - 1
      BY <2>4, <3>1, QuotientBelow
    <3> QED BY <2>4, <3>1, <3>2, DivMod
  <2>9. \A m \in 0 .. len - 1 : Block(m) \subseteq AreaOf(r)
    <3> TAKE m \in 0 .. len - 1
    <3> DEFINE a == m \div p
               b == m % p
    <3>1. a \in 0 .. q - 1 /\ b \in 0 .. p - 1
      BY <2>8
    <3>2. Block(m) = {r.y + 2 * a, r.y + 2 * a + 1} \X {r.x + 2 * b, r.x + 2 * b + 1}
      OBVIOUS
    <3> HIDE DEF a, b
    <3>3. {r.y + 2 * a, r.y + 2 * a + 1} \subseteq r.y .. Bottom(r) - 1
      BY <2>1, <2>4, <3>1 DEF Bottom
    <3>4. {r.x + 2 * b, r.x + 2 * b + 1} \subseteq r.x .. Right(r) - 1
      BY <2>1, <2>4, <3>1 DEF Right
    <3> HIDE DEF Block
    <3> QED BY <3>2, <3>3, <3>4 DEF AreaOf
  <2>10. ASSUME NEW k \in 1 .. len, NEW l \in 1 .. len, k # l PROVE Block(k - 1) \cap Block(l - 1) = {}
    <3> DEFINE a == (k - 1) \div p
               b == (k - 1) % p
               c == (l - 1) \div p
               d == (l - 1) % p
    <3>1. k - 1 \in 0 .. len - 1 /\ l - 1 \in 0 .. len - 1 /\ k - 1 # l - 1
      BY <2>5, <2>10
    <3>2. /\ a \in 0 .. q - 1 /\ b \in 0 .. p - 1 /\ c \in 0 .. q - 1 /\ d \in 0 .. p - 1
          /\ k - 1 = a * p + b /\ l - 1 = c * p + d
      BY Zenon, <2>8, <3>1
    <3>3. Block(k - 1) = {r.y + 2 * a, r.y + 2 * a + 1} \X {r.x + 2 * b, r.x + 2 * b + 1}
      OBVIOUS
    <3>4. Block(l - 1) = {r.y + 2 * c, r.y + 2 * c + 1} \X {r.x + 2 * d, r.x + 2 * d + 1}
      OBVIOUS
    <3> HIDE DEF a, b, c, d, Block
    <3>5. a # c \/ b # d
      BY <3>1, <3>2
    <3>6. a \in Nat /\ b \in Nat /\ c \in Nat /\ d \in Nat
      BY <2>4, <3>2
    <3>7. CASE a # c
      <4>1. {r.y + 2 * a, r.y + 2 * a + 1} \cap {r.y + 2 * c, r.y + 2 * c + 1} = {}
        BY <2>1, <3>6, <3>7
      <4> QED BY <3>3, <3>4, <4>1
    <3>8. CASE b # d
      <4>1. {r.x + 2 * b, r.x + 2 * b + 1} \cap {r.x + 2 * d, r.x + 2 * d + 1} = {}
        BY <2>1, <3>6, <3>8
      <4> QED BY <3>3, <3>4, <4>1
    <3> QED BY <3>5, <3>7, <3>8
  <2>11. ASSUME NEW c \in AreaOf(r) PROVE \E k \in 1 .. len : c \in Block(k - 1)
    <3>1. PICK y \in r.y .. Bottom(r) - 1, x \in r.x .. Right(r) - 1 : c = <<y, x>>
      BY DEF AreaOf
    <3> DEFINE a == (y - r.y) \div 2
               b == (x - r.x) \div 2
               m == a * p + b
    <3>2. /\ a \in 0 .. q - 1 /\ b \in 0 .. p - 1
          /\ y \in {r.y + 2 * a, r.y + 2 * a + 1} /\ x \in {r.x + 2 * b, r.x + 2 * b + 1}
      <4> DEFINE e == y - r.y
                 f == x - r.x
      <4>1. e \in 0 .. 2 * q - 1 /\ y = r.y + e /\ f \in 0 .. 2 * p - 1 /\ x = r.x + f
        BY <2>1, <2>4 DEF Right, Bottom
      <4> HIDE DEF e, f
      <4>2. e \div 2 \in 0 .. q - 1 /\ (e = 2 * (e \div 2) \/ e = 2 * (e \div 2) + 1)
        BY <2>4, <4>1
      <4>3. f \div 2 \in 0 .. p - 1 /\ (f = 2 * (f \div 2) \/ f = 2 * (f \div 2) + 1)
        BY <2>4, <4>1
      <4>4. a = e \div 2 /\ b = f \div 2
        BY DEF e, f
      <4> HIDE DEF a, b
      <4>5. y = r.y + 2 * a \/ y = r.y + 2 * a + 1
        BY <2>1, <2>4, <4>1, <4>2, <4>4
      <4>6. x = r.x + 2 * b \/ x = r.x + 2 * b + 1
        BY <2>1, <2>4, <4>1, <4>3, <4>4
      <4> QED BY <4>2, <4>3, <4>4, <4>5, <4>6
    <3> HIDE DEF a, b
    <3>3. m \in 0 .. len - 1
      BY <2>4, <2>5, <3>2, InRectangle
    <3>4. m \div p = a /\ m % p = b
      <4> DEFINE u == m \div p
                 v == m % p
      <4>1. u \in Nat /\ v \in 0 .. p - 1 /\ a * p + b = u * p + v /\ a \in Nat
        BY <2>4, <2>8, <3>2, <3>3
      <4> HIDE DEF u, v
      <4>2. a = u /\ b = v
        BY <2>4, <3>2, <4>1, SamePlace
      <4> QED BY <4>2 DEF u, v
    <3> HIDE DEF m
    <3>5. c \in Block(m)
      BY <3>1, <3>2, <3>4
    <3>6. m + 1 \in 1 .. len /\ (m + 1) - 1 = m
      BY <2>5, <3>3
    <3> HIDE DEF Block
    <3> QED BY <3>5, <3>6
  <2>12. ASSUME NEW k \in 1 .. len PROVE Reads(k) \subseteq WrittenBefore(slice, k)
    <3>1. CASE k > 1 /\ (k - 1) % p = 0
      <4> DEFINE a == (k - 1) \div p
      <4>1. k - 1 \in 0 .. len - 1
        BY <2>5
      <4>2. a \in Nat /\ k - 1 = a * p
        <5>1. a \in Nat /\ k - 1 = a * p + 0
          BY <2>4, <2>8, <3>1, <4>1
        <5>2. a * p \in Nat
          BY <2>4, <5>1, TimesNat
        <5> HIDE DEF a
        <5> QED BY <5>1, <5>2
      <4> HIDE DEF a
      <4>3. a # 0
        BY <2>4, <3>1, <4>2
      <4>4. p <= k - 1
        <5>1. 0 \in Nat /\ 0 < a
          BY <4>2, <4>3
        <5>2. 0 * p + p <= a * p
          BY <2>4, <4>2, <5>1, NextRow
        <5> QED BY <2>4, <4>2, <5>2
      <4>5. k - p \in 1 .. k - 1 /\ k - p \in 1 .. len /\ (k - p) - 1 = k - 1 - p
        BY <2>4, <2>5, <4>4
      <4>6. Reads(k) = slice[k - p].writes
        <5>1. Reads(k) = Block(k - 1 - p)
          BY <3>1
        <5> HIDE DEF Block, Reads
        <5> QED BY <2>7, <4>5, <5>1
      <4> HIDE DEF Reads
      <4> QED BY <4>5, <4>6 DEF WrittenBefore
    <3>2. CASE ~(k > 1 /\ (k - 1) % p = 0)
      BY <3>2
    <3> QED BY <3>1, <3>2
  <2> HIDE DEF Block, Reads
  <2>13. \A k \in 1 .. len : StepIsPlain(j, slice, k) /\ slice[k].writes \subseteq AreaOf(r)
    <3> TAKE k \in 1 .. len
    <3>1. k - 1 \in 0 .. len - 1
      BY <2>5
    <3>2. slice[k].writes \subseteq AreaOf(r)
      BY <2>7, <2>9, <3>1
    <3>3. AreaOf(r) \subseteq Samples(j)
      BY <1>1 DEF r
    <3> QED BY <2>7, <2>12, <3>2, <3>3 DEF StepIsPlain, Cells
  <2>14. FillsArea(j, slice, AreaOf(r))
    BY <2>6, <2>7, <2>10, <2>11, <2>13 DEF FillsArea
  <2> QED BY <2>6, <2>7, <2>14 DEF slice, r
<1>3. DOMAIN plan = 1 .. n
  BY <1>1 DEF V8Work
<1>4. \A s \in 1 .. n : area[s] = AreaOf(j.rects[s])
  OBVIOUS
<1> HIDE DEF plan, area
<1>5. Areas(j, plan, area, n)
  BY <1>1, <1>2, <1>3, <1>4 DEF Areas
<1>6. TakesApart(plan)
  BY <1>2, <1>3 DEF TakesApart
<1>7. \A s \in 1 .. n : FillsArea(j, plan[s], area[s])
  BY <1>2, <1>4
<1>8. Plain(j, plan)
  BY <1>1, <1>5, <1>6, <1>7, AreasPlan
<1> QED BY <1>8 DEF plan
-----------------------------------------------------------------------------
(* Panasonic V4 and V5.  A row has q packets of ppp pixels, and packet n of the image is: *)
PacketAt(n, q, ppp) == <<n \div q, (n % q) * ppp>>

LEMMA PlaceOfPacket ==
  ASSUME NEW q \in Nat \ {0}, NEW y \in Nat, NEW a \in 0 .. q - 1
  PROVE  (y * q + a) \div q = y /\ (y * q + a) % q = a
<1> DEFINE n == y * q + a
           u == n \div q
           v == n % q
<1>1. n \in Nat
  BY TimesNat
<1>2. u \in Nat /\ v \in 0 .. q - 1 /\ n = u * q + v
  BY <1>1, DivMod
<1> HIDE DEF u, v
<1>3. y = u /\ a = v
  BY <1>2, SamePlace
<1> QED BY <1>3 DEF u, v

(* The place of a packet, from the number of pixels before it.                      *)
LEMMA PacketBegins ==
  ASSUME NEW q \in Nat \ {0}, NEW ppp \in Nat \ {0}, NEW n \in Nat
  PROVE  /\ RowMajor(n * ppp, q * ppp) = [x |-> (n % q) * ppp, y |-> n \div q]
         /\ n \div q \in Nat /\ n % q \in 0 .. q - 1 /\ n = (n \div q) * q + (n % q)
<1> DEFINE u == n \div q
           v == n % q
           w == q * ppp
           m == n * ppp
           c == m \div w
           d == m % w
<1>1. u \in Nat /\ v \in 0 .. q - 1 /\ n = u * q + v
  BY DivMod
<1>2. RowMajor(m, w) = [x |-> d, y |-> c]
  BY DEF RowMajor
<1> HIDE DEF u, v
<1>3. w \in Nat \ {0} /\ m \in Nat
  <2>1. w \in Nat /\ m \in Nat
    BY TimesNat
  <2>2. w # 0
    OBVIOUS
  <2> QED BY <2>1, <2>2
<1>4. m = u * w + v * ppp
  BY <1>1
<1>5. v * ppp \in 0 .. w - 1
  <2>1. v \in 0 .. q - 1 /\ 0 \in 0 .. ppp - 1
    BY <1>1
  <2>2. v * ppp + 0 \in 0 .. q * ppp - 1
    BY <2>1, InRectangle
  <2>3. v * ppp + 0 = v * ppp
    BY <1>1, TimesNat
  <2> QED BY <2>2, <2>3
<1> DEFINE e == v * ppp
<1> HIDE DEF w, m
<1>6. c \in Nat /\ d \in 0 .. w - 1 /\ m = c * w + d
  BY <1>3, DivMod
<1> HIDE DEF c, d, e
<1>7. e \in 0 .. w - 1 /\ m = u * w + e
  BY <1>4, <1>5 DEF e
<1>8. u = c /\ e = d
  BY <1>1, <1>3, <1>6, <1>7, SamePlace
<1>9. RowMajor(m, w) = [x |-> e, y |-> u]
  BY <1>2, <1>8
<1> QED BY <1>1, <1>9 DEF m, w, e, u, v

(* processBlock() goes through the packets from one place to another, one after another. *)
Spans(begin, end, y0, a0, y1, a1, q, ppp) ==
  /\ begin = [x |-> a0 * ppp, y |-> y0] /\ end = [x |-> a1 * ppp, y |-> y1]
  /\ y0 <= y1 /\ y0 * q + a0 <= y1 * q + a1

ListsPackets(packets, n0, n1, q, ppp) ==
  /\ Len(packets) = n1 - n0
  /\ \A k \in 1 .. Len(packets) : packets[k] = PacketAt(n0 + k - 1, q, ppp)

LEMMA PacketsListed ==
  ASSUME NEW q \in Nat \ {0}, NEW ppp \in Nat \ {0}, NEW y0 \in Nat, NEW y1 \in Nat,
         NEW a0 \in 0 .. q - 1, NEW a1 \in 0 .. q, NEW begin, NEW end,
         Spans(begin, end, y0, a0, y1, a1, q, ppp)
  PROVE  ListsPackets(PacketsFromTo(begin, end, q * ppp, ppp), y0 * q + a0, y1 * q + a1, q, ppp)
<1> DEFINE n0 == y0 * q + a0
           n1 == y1 * q + a1
           R == y1 - y0 + 1
           From(i) == IF i = 1 THEN a0 ELSE 0
           To(i) == IF i = R THEN a1 ELSE q
           rows == [i \in 1 .. R |-> [k \in 1 .. To(i) - From(i) |->
                      <<y0 + i - 1, (From(i) + k - 1) * ppp>>]]
           packets == PacketsFromTo(begin, end, q * ppp, ppp)
<1>1. n0 \in Nat /\ n1 \in Nat /\ n0 <= n1
  BY TimesNat DEF Spans
<1>2. R \in Nat \ {0} /\ y0 + R - 1 = y1
  BY DEF Spans
<1>3. \A i \in 1 .. R : From(i) \in 0 .. q - 1 /\ To(i) \in 0 .. q /\ To(i) - From(i) \in Nat
  <2> TAKE i \in 1 .. R
  <2>1. CASE i = 1 /\ R = 1
    <3>1. y0 = y1 /\ y0 * q \in Nat
      BY <1>2, <2>1, TimesNat
    <3>2. a0 <= a1
      BY <3>1 DEF Spans
    <3> QED BY <2>1, <3>2
  <2>2. CASE ~(i = 1 /\ R = 1)
    BY <1>2, <2>2
  <2> QED BY <2>1, <2>2
<1>4. packets = FlattenSeq(rows)
  <2> DEFINE Packets(row) ==
               LET col == IF row = begin.y THEN begin.x ELSE 0
                   endCol == IF row = end.y THEN end.x ELSE q * ppp
               IN  [k \in 1 .. CeilDiv(endCol - col, ppp) |-> <<row, col + (k - 1) * ppp>>]
             list == [i \in 1 .. end.y - begin.y + 1 |-> Packets(begin.y + i - 1)]
  <2>1. packets = FlattenSeq(list)
    BY DEF PacketsFromTo
  <2>2. /\ end.y - begin.y + 1 = R /\ begin.y = y0 /\ end.y = y1
        /\ begin.x = a0 * ppp /\ end.x = a1 * ppp
    BY DEF Spans
  <2>3. \A i \in 1 .. R : Packets(begin.y + i - 1) = rows[i]
    <3> TAKE i \in 1 .. R
    <3> DEFINE f == From(i)
               t == To(i)
               row == begin.y + i - 1
               col == IF row = begin.y THEN begin.x ELSE 0
               endCol == IF row = end.y THEN end.x ELSE q * ppp
    <3>1. row = y0 + i - 1 /\ (row = begin.y <=> i = 1) /\ (row = end.y <=> i = R)
      BY <1>2, <2>2
    <3>2. col = f * ppp /\ endCol = t * ppp
      BY <2>2, <3>1
    <3>3. f \in Nat /\ t \in Nat /\ t - f \in Nat
      BY <1>3
    <3> HIDE DEF f, t, col, endCol, row
    <3>4. CeilDiv(endCol - col, ppp) = t - f
      <4> DEFINE d == t - f
      <4>1. endCol - col + ppp - 1 = d * ppp + (ppp - 1) /\ d \in Nat
        BY <3>2, <3>3
      <4> HIDE DEF d
      <4> DEFINE u == (d * ppp + (ppp - 1)) \div ppp
                 v == (d * ppp + (ppp - 1)) % ppp
      <4>2. d * ppp + (ppp - 1) \in Nat /\ ppp - 1 \in 0 .. ppp - 1
        BY <4>1, TimesNat
      <4>3. u \in Nat /\ v \in 0 .. ppp - 1 /\ d * ppp + (ppp - 1) = u * ppp + v
        BY <4>2, DivMod
      <4>4. CeilDiv(endCol - col, ppp) = u
        BY <4>1 DEF CeilDiv
      <4> HIDE DEF u, v
      <4>5. d = u
        BY <4>1, <4>2, <4>3, SamePlace
      <4> QED BY <4>4, <4>5 DEF d
    <3>5. \A k \in 1 .. t - f : col + (k - 1) * ppp = (f + k - 1) * ppp
      BY <3>2, <3>3
    <3>6. Packets(begin.y + i - 1) = [k \in 1 .. t - f |-> <<row, col + (k - 1) * ppp>>]
      BY <3>4 DEF row, col, endCol
    <3>7. rows[i] = [k \in 1 .. t - f |-> <<row, (f + k - 1) * ppp>>]
      BY <3>1 DEF f, t
    <3> HIDE DEF rows, Packets
    <3> QED BY <3>5, <3>6, <3>7
  <2> HIDE DEF Packets
  <2>4. list = [i \in 1 .. R |-> rows[i]]
    BY <2>2, <2>3
  <2>5. rows = [i \in 1 .. R |-> rows[i]]
    OBVIOUS
  <2> HIDE DEF list, rows, packets
  <2> QED BY <2>1, <2>4, <2>5
<1>5. DOMAIN rows = 1 .. R
  OBVIOUS
<1>6. \A i \in 1 .. R :
        /\ DOMAIN rows[i] = 1 .. To(i) - From(i)
        /\ rows[i] = [k \in 1 .. To(i) - From(i) |-> <<y0 + i - 1, (From(i) + k - 1) * ppp>>]
        /\ \A k \in 1 .. To(i) - From(i) : rows[i][k] = <<y0 + i - 1, (From(i) + k - 1) * ppp>>
  OBVIOUS
<1> HIDE DEF rows, packets
<1>7. AreLists(rows, R) /\ \A i \in 1 .. R : Len(rows[i]) = To(i) - From(i)
  <2> SUFFICES ASSUME NEW i \in 1 .. R PROVE IsList(rows[i]) /\ Len(rows[i]) = To(i) - From(i)
    BY <1>5 DEF AreLists
  <2> DEFINE n == To(i) - From(i)
             item == [k \in 1 .. n |-> <<y0 + i - 1, (From(i) + k - 1) * ppp>>]
  <2>1. n \in Nat /\ rows[i] = item
    BY <1>3, <1>6
  <2>2. DOMAIN item = 1 .. n /\ item = [k \in 1 .. n |-> item[k]]
    OBVIOUS
  <2> HIDE DEF n, item
  <2>3. IsList(item) /\ Len(item) = n
    BY <2>1, <2>2, ListedSlice DEF IsList
  <2> QED BY <2>1, <2>3 DEF n
<1>8. PICK off : Concatenates(packets, rows, R, off)
  <2>1. \E off : Concatenates(FlattenSeq(rows), rows, R, off)
    BY Zenon, <1>2, <1>7, Flattened
  <2> QED BY Zenon, <1>4, <2>1
<1>9. /\ From(1) = a0 /\ \A i \in 1 .. R : i # 1 => From(i) = 0
      /\ To(R) = a1 /\ \A i \in 1 .. R : i # R => To(i) = q
      /\ n0 = y0 * q + a0 /\ n1 = y1 * q + a1 /\ y0 * q \in Nat /\ y1 * q \in Nat
  BY TimesNat
<1> HIDE DEF R, From, To, n0, n1
<1>10. /\ off \in [0 .. R -> Nat] /\ off[0] = 0 /\ Len(packets) = off[R]
       /\ \A i \in 1 .. R : off[i] = off[i - 1] + (To(i) - From(i))
       /\ \A i \in 1 .. R : \A k \in 1 .. To(i) - From(i) : packets[off[i - 1] + k] = rows[i][k]
       /\ \A p \in 1 .. Len(packets) : \E i \in 1 .. R : \E k \in 1 .. To(i) - From(i) : p = off[i - 1] + k
  <2>1. R \in Nat /\ AreLists(rows, R)
    BY <1>2, <1>7
  <2>2. /\ \A i \in 1 .. R : \A k \in 1 .. Len(rows[i]) : off[i - 1] + k \in 1 .. Len(packets)
        /\ \A p \in 1 .. Len(packets) : \E i \in 1 .. R : \E k \in 1 .. Len(rows[i]) : p = off[i - 1] + k
        /\ \A i \in 1 .. R : \A a \in 1 .. i - 1 : \A b \in 1 .. Len(rows[a]) : off[a - 1] + b <= off[i - 1]
    BY Zenon, <2>1, <1>8, ConcatPlaces
  <2>3. /\ off \in [0 .. R -> Nat] /\ off[0] = 0 /\ Len(packets) = off[R]
        /\ \A i \in 1 .. R : off[i] = off[i - 1] + Len(rows[i])
        /\ \A i \in 1 .. R : \A k \in 1 .. Len(rows[i]) : packets[off[i - 1] + k] = rows[i][k]
    BY <1>8 DEF Concatenates
  <2>4. \A i \in 1 .. R : Len(rows[i]) = To(i) - From(i)
    BY <1>7
  <2>5. \A i \in 1 .. R : \A k \in 1 .. To(i) - From(i) : packets[off[i - 1] + k] = rows[i][k]
    BY Zenon, <2>3, <2>4
  <2>6. \A i \in 1 .. R : off[i] = off[i - 1] + (To(i) - From(i))
    BY Zenon, <2>3, <2>4
  <2>7. \A p \in 1 .. Len(packets) : \E i \in 1 .. R : \E k \in 1 .. To(i) - From(i) : p = off[i - 1] + k
    BY Zenon, <2>2, <2>4
  <2> QED BY Zenon, <2>3, <2>5, <2>6, <2>7
<1>11. \A i \in 1 .. R : off[i - 1] \in Nat /\ off[i] \in Nat /\ i - 1 \in 0 .. R
  <2> TAKE i \in 1 .. R
  <2>1. i - 1 \in 0 .. R /\ i \in 0 .. R
    BY <1>2
  <2> QED BY <1>10, <2>1
<1> DEFINE S == {i \in 0 .. R : i = 0 \/ n0 + off[i - 1] = (y0 + i - 1) * q + From(i)}
<1>12. 0 .. R \subseteq S
  <2>1. ASSUME NEW i \in 0 .. R - 1, i \in S PROVE i + 1 \in S
    <3>1. CASE i = 0
      <4>1. 0 + 1 = 1 /\ 1 - 1 = 0 /\ y0 + 1 - 1 = y0 /\ n0 + 0 = n0 /\ 1 \in 0 .. R
        BY <1>1, <1>2
      <4>2. n0 + off[1 - 1] = (y0 + 1 - 1) * q + From(1)
        BY <1>9, <1>10, <4>1
      <4> QED BY <3>1, <4>1, <4>2
    <3>2. CASE i # 0
      <4>1. i \in 1 .. R /\ i + 1 \in 1 .. R /\ i # R /\ i + 1 # 1 /\ (i + 1) - 1 = i /\ i \in Nat /\ i + 1 \in 0 .. R
        BY <1>2, <3>2
      <4>2. off[i] = off[i - 1] + (q - From(i)) /\ From(i + 1) = 0
        <5>1. off[i] = off[i - 1] + (To(i) - From(i))
          BY <1>10, <4>1
        <5> QED BY <1>9, <4>1, <5>1
      <4>3. n0 + off[i - 1] = (y0 + i - 1) * q + From(i)
        BY <2>1, <3>2
      <4>4. off[i] \in Nat /\ off[i - 1] \in Nat /\ From(i) \in Nat
        BY <1>3, <1>11, <4>1
      <4> DEFINE r == y0 + i - 1
      <4>5. y0 + (i + 1) - 1 = r + 1 /\ r \in Nat
        BY <4>1
      <4> HIDE DEF r
      <4>6. (r + 1) * q = r * q + q /\ r * q \in Nat
        BY <4>5, TimesNat
      <4> DEFINE c == r * q
                 f == From(i)
      <4>7. n0 + off[i - 1] = c + f /\ (y0 + (i + 1) - 1) * q = c + q /\ c \in Nat /\ off[i] = off[i - 1] + (q - f) /\ f \in Nat
        BY <4>2, <4>3, <4>4, <4>5, <4>6 DEF r
      <4> HIDE DEF c, f
      <4>8. n0 + off[i] = c + q + 0
        BY <1>1, <4>4, <4>7
      <4>9. n0 + off[(i + 1) - 1] = (y0 + (i + 1) - 1) * q + From(i + 1)
        BY <4>1, <4>2, <4>7, <4>8
      <4> QED BY <4>1, <4>9
    <3> QED BY <3>1, <3>2
  <2>2. 0 \in S
    BY <1>2
  <2> HIDE DEF S
  <2> QED BY <1>2, <2>1, <2>2, AllUpTo
<1>13. \A i \in 1 .. R : n0 + off[i - 1] = (y0 + i - 1) * q + From(i)
  <2> TAKE i \in 1 .. R
  <2>1. i \in 0 .. R /\ i # 0
    BY <1>2
  <2>2. i \in S
    BY <1>12, <2>1
  <2> QED BY <2>1, <2>2
<1> HIDE DEF S
<1>14. Len(packets) = n1 - n0
  <2> DEFINE m == y1 * q
             f == From(R)
             o == off[R - 1]
  <2>1. R \in 1 .. R
    BY <1>2
  <2>2. n0 + o = m + f /\ off[R] = o + (a1 - f)
    BY <1>2, <1>9, <1>10, <1>13, <2>1
  <2>3. off[R] \in Nat /\ o \in Nat /\ f \in Nat /\ m \in Nat /\ n1 = m + a1
    BY <1>3, <1>9, <1>11, <2>1
  <2> HIDE DEF m, f, o
  <2> QED BY <1>1, <1>10, <2>2, <2>3
<1>15. ASSUME NEW p \in 1 .. Len(packets) PROVE packets[p] = PacketAt(n0 + p - 1, q, ppp)
  <2>1. PICK i \in 1 .. R : \E k \in 1 .. To(i) - From(i) : p = off[i - 1] + k
    BY <1>10
  <2>2. PICK k \in 1 .. To(i) - From(i) : p = off[i - 1] + k
    BY <2>1
  <2> DEFINE f == From(i)
             t == To(i)
             y == y0 + i - 1
             a == f + k - 1
             o == off[i - 1]
             m == y * q
  <2>3. f \in 0 .. q - 1 /\ t \in 0 .. q /\ k \in 1 .. t - f /\ p = o + k
    BY <1>3, <2>2
  <2>4. packets[p] = <<y, a * ppp>>
    <3>1. packets[p] = rows[i][k]
      BY <1>10, <2>2
    <3>2. rows[i][k] = <<y, a * ppp>>
      BY Zenon, <1>6, <2>2
    <3> QED BY <3>1, <3>2
  <2>5. n0 + o = m + f
    BY <1>13
  <2>6. o \in Nat /\ y \in Nat
    <3>1. o \in Nat
      BY <1>11
    <3>2. y \in Nat
      BY <1>2
    <3> QED BY <3>1, <3>2
  <2>7. m \in Nat
    BY <2>6, TimesNat
  <2> HIDE DEF y, o, f, t
  <2>8. a \in 0 .. q - 1 /\ k \in Nat
    BY <2>3
  <2>9. n0 + p - 1 = m + a
    <3> HIDE DEF m
    <3> QED BY <1>1, <2>3, <2>5, <2>6, <2>7, <2>8
  <2> HIDE DEF a
  <2>10. n0 + p - 1 = y * q + a
    BY <2>9
  <2> DEFINE n == n0 + p - 1
  <2>11. n = y * q + a
    BY <2>10
  <2> HIDE DEF n, m
  <2>12. n \div q = y /\ n % q = a
    <3>1. (y * q + a) \div q = y /\ (y * q + a) % q = a
      BY Zenon, <2>6, <2>8, PlaceOfPacket
    <3> QED BY Zenon, <2>11, <3>1
  <2>13. PacketAt(n, q, ppp) = <<y, a * ppp>>
    BY Zenon, <2>12 DEF PacketAt
  <2> QED BY <2>4, <2>13 DEF n
<1>16. ListsPackets(packets, n0, n1, q, ppp)
  BY <1>14, <1>15 DEF ListsPackets
<1> QED BY <1>16 DEF packets, n0, n1

(* How many packets a block has: Z, or what is left for the last one.                *)
BlocksOf(blocks, total, Z) ==
  /\ Z \in Nat \ {0} /\ total \in Nat \ {0} /\ blocks \in Nat \ {0}
  /\ (blocks - 1) * Z < total /\ total <= blocks * Z

LEMMA CeilDivIs ==
  ASSUME NEW total \in Nat \ {0}, NEW Z \in Nat \ {0}
  PROVE  BlocksOf(CeilDiv(total, Z), total, Z)
<1> DEFINE x == total + Z - 1
           c == x \div Z
           d == x % Z
           m == c * Z
<1>1. x \in Nat /\ x = total + Z - 1
  OBVIOUS
<1>2. CeilDiv(total, Z) = c
  BY DEF CeilDiv
<1> HIDE DEF x
<1>3. c \in Nat /\ d \in 0 .. Z - 1 /\ x = m + d
  BY <1>1, DivMod
<1> HIDE DEF c, d
<1>4. m \in Nat /\ (c - 1) * Z = m - Z
  BY <1>3, TimesNat
<1>5. c # 0
  <2> SUFFICES ASSUME c = 0 PROVE FALSE
    OBVIOUS
  <2>1. m = 0
    OBVIOUS
  <2> HIDE DEF m
  <2> QED BY <1>1, <1>3, <2>1
<1>6. m - Z < total /\ total <= m
  <2> HIDE DEF m
  <2> QED BY <1>1, <1>3, <1>4
<1>7. (c - 1) * Z < total /\ total <= c * Z
  <2>1. (c - 1) * Z < total
    <3> HIDE DEF m
    <3> QED BY <1>4, <1>6
  <2> QED BY <1>6, <2>1
<1> QED BY <1>2, <1>3, <1>5, <1>7 DEF BlocksOf

(* Block b begins with packet b * Z and ends before packet (b + 1) * Z, or where the image does. *)
EndOf(b, blocks, total, Z) == IF b = blocks - 1 THEN total ELSE (b + 1) * Z

LEMMA BlockBounds ==
  ASSUME NEW blocks, NEW total, NEW Z, BlocksOf(blocks, total, Z), NEW b \in 0 .. blocks - 1
  PROVE  /\ b * Z \in Nat /\ b * Z < total
         /\ EndOf(b, blocks, total, Z) \in Nat /\ EndOf(b, blocks, total, Z) <= total
         /\ b * Z < EndOf(b, blocks, total, Z) /\ EndOf(b, blocks, total, Z) <= b * Z + Z
         /\ b # blocks - 1 => (b + 1) * Z < total
<1> DEFINE m == b * Z
           e == (blocks - 1) * Z
<1>1. /\ Z \in Nat \ {0} /\ total \in Nat \ {0} /\ blocks \in Nat \ {0}
      /\ e < total /\ total <= blocks * Z
  BY DEF BlocksOf
<1>2. m \in Nat /\ e \in Nat /\ (b + 1) * Z = m + Z /\ blocks * Z = e + Z
  BY <1>1, TimesNat
<1>3. b # blocks - 1 => m + Z <= e
  BY <1>1, NextRow
<1>4. b = blocks - 1 => m = e
  OBVIOUS
<1> HIDE DEF m, e
<1>5. m < total
  BY <1>1, <1>2, <1>3, <1>4
<1>6. b # blocks - 1 => (b + 1) * Z = m + Z /\ m + Z < total
  BY <1>1, <1>2, <1>3
<1>7. b = blocks - 1 => total <= m + Z
  BY <1>1, <1>2, <1>4
<1> QED BY <1>1, <1>2, <1>5, <1>6, <1>7 DEF EndOf, m

(* The packets that processBlock() is given for a block.                             *)
LEMMA PacketsOfBlock ==
  ASSUME NEW j, NEW q \in Nat \ {0}, NEW ppp \in Nat \ {0}, j.w = q * ppp, j.h \in Nat \ {0},
         NEW blocks, BlocksOf(blocks, j.h * q, PacketsPerBlock), NEW b \in 0 .. blocks - 1
  PROVE  ListsPackets(PacketsFromTo(BlockBegin(b, j, ppp), BlockEnd(b, blocks, j, ppp), j.w, ppp),
                      b * PacketsPerBlock, EndOf(b, blocks, j.h * q, PacketsPerBlock), q, ppp)
<1> DEFINE n0 == b * PacketsPerBlock
           n1 == EndOf(b, blocks, j.h * q, PacketsPerBlock)
           y0 == n0 \div q
           a0 == n0 % q
           last == b = blocks - 1
           y1 == IF last THEN j.h - 1 ELSE n1 \div q
           a1 == IF last THEN q ELSE n1 % q
           begin == BlockBegin(b, j, ppp)
           end == BlockEnd(b, blocks, j, ppp)
<1>1. n0 \in Nat /\ n1 \in Nat /\ n0 < n1 /\ n1 <= j.h * q
  BY BlockBounds
<1>2. begin = [x |-> a0 * ppp, y |-> y0] /\ y0 \in Nat /\ a0 \in 0 .. q - 1 /\ n0 = y0 * q + a0
  BY <1>1, PacketBegins DEF BlockBegin
<1>3. end = [x |-> a1 * ppp, y |-> y1] /\ y1 \in Nat /\ a1 \in 0 .. q /\ n1 = y1 * q + a1
  <2>1. CASE last
    <3>1. end = [x |-> q * ppp, y |-> j.h - 1] /\ n1 = j.h * q
      BY <2>1 DEF BlockEnd, EndOf
    <3>2. j.h * q = (j.h - 1) * q + q /\ j.h - 1 \in Nat /\ q \in 0 .. q
      OBVIOUS
    <3> QED BY <2>1, <3>1, <3>2
  <2>2. CASE ~last
    <3>1. n1 = (b + 1) * PacketsPerBlock
      BY <2>2 DEF EndOf
    <3>2. end = RowMajor(n1 * ppp, q * ppp)
      BY <2>2, <3>1 DEF BlockEnd
    <3>3. end = [x |-> (n1 % q) * ppp, y |-> n1 \div q] /\ n1 \div q \in Nat /\ n1 % q \in 0 .. q - 1
          /\ n1 = (n1 \div q) * q + (n1 % q)
      BY <1>1, <3>2, PacketBegins
    <3> QED BY <2>2, <3>3
  <2> QED BY <2>1, <2>2
<1>4. y0 * q \in Nat /\ y1 * q \in Nat
  BY <1>2, <1>3, TimesNat
<1> HIDE DEF n0, n1, y0, a0, y1, a1, begin, end, last
<1>5. y0 <= y1 /\ y0 \in Nat /\ y1 \in Nat
  <2> SUFFICES ASSUME y1 < y0 PROVE FALSE
    BY <1>2, <1>3
  <2>1. y1 * q + q <= y0 * q
    BY <1>2, <1>3, NextRow
  <2> DEFINE u == y0 * q
             v == y1 * q
  <2>2. n0 = u + a0 /\ n1 = v + a1 /\ v + q <= u /\ u \in Nat /\ v \in Nat
    BY <1>2, <1>3, <1>4, <2>1
  <2> HIDE DEF u, v
  <2> QED BY <1>1, <1>2, <1>3, <2>2
<1>6. y0 * q + a0 <= y1 * q + a1
  <2> DEFINE u == y0 * q
             v == y1 * q
  <2>1. n0 = u + a0 /\ n1 = v + a1 /\ u \in Nat /\ v \in Nat
    BY <1>2, <1>3, <1>4
  <2> HIDE DEF u, v
  <2>2. u + a0 <= v + a1
    BY <1>1, <1>2, <1>3, <2>1
  <2> QED BY <2>2 DEF u, v
<1>7. Spans(begin, end, y0, a0, y1, a1, q, ppp)
  BY <1>2, <1>3, <1>5, <1>6 DEF Spans
<1> DEFINE packets == PacketsFromTo(begin, end, q * ppp, ppp)
<1>8. ListsPackets(packets, y0 * q + a0, y1 * q + a1, q, ppp)
  BY Zenon, <1>2, <1>3, <1>5, <1>7, PacketsListed
<1> HIDE DEF packets
<1>9. ListsPackets(packets, n0, n1, q, ppp)
  BY Zenon, <1>2, <1>3, <1>8
<1> QED BY <1>9 DEF packets, begin, end, n0, n1

(* The units of a block: swapping its two sections takes each of them to another one.  *)
LEMMA SectionsSwapped ==
  ASSUME NEW length \in Nat, NEW split \in 0 .. length
  PROVE  /\ \A i \in 0 .. length - 1 : Unrotated(i, split, length) \in 0 .. length - 1
         /\ \A i, k \in 0 .. length - 1 : i # k => Unrotated(i, split, length) # Unrotated(k, split, length)
BY DEF Unrotated

(* The packets of an image have all of its samples, each in one of them.            *)
PixelsOf(n, q, ppp) == PacketPixels(PacketAt(n, q, ppp), ppp)

LEMMA PacketsPartition ==
  ASSUME NEW j, NEW q \in Nat \ {0}, NEW ppp \in Nat \ {0}, j.w = q * ppp, j.h \in Nat \ {0}
  PROVE  /\ \A n \in 0 .. j.h * q - 1 : PixelsOf(n, q, ppp) \subseteq Samples(j)
         /\ \A n \in 0 .. j.h * q - 1 : \A m \in 0 .. j.h * q - 1 :
              n # m => PixelsOf(n, q, ppp) \cap PixelsOf(m, q, ppp) = {}
         /\ \A p \in Samples(j) : \E n \in 0 .. j.h * q - 1 : p \in PixelsOf(n, q, ppp)
<1> DEFINE N == j.h * q
           Y(n) == n \div q
           X(n) == n % q
<1>1. N \in Nat
  BY TimesNat
<1>2. \A n \in 0 .. N - 1 : Y(n) \in 0 .. j.h - 1 /\ X(n) \in 0 .. q - 1 /\ n = Y(n) * q + X(n) /\ n \in Nat
  <2> TAKE n \in 0 .. N - 1
  <2>1. n \in 0 .. j.h * q - 1 /\ n \in Nat /\ j.h \in Nat
    BY <1>1
  <2>2. Y(n) \in 0 .. j.h - 1
    BY <2>1, QuotientBelow
  <2> QED BY <2>1, <2>2, DivMod
<1>3. \A n : PixelsOf(n, q, ppp) = {<<Y(n), X(n) * ppp + i>> : i \in 0 .. ppp - 1}
  BY DEF PixelsOf, PacketPixels, PacketAt
<1> HIDE DEF Y, X
<1>4. ASSUME NEW n \in 0 .. N - 1 PROVE PixelsOf(n, q, ppp) \subseteq Samples(j)
  <2> SUFFICES ASSUME NEW i \in 0 .. ppp - 1 PROVE <<Y(n), X(n) * ppp + i>> \in Samples(j)
    BY <1>3
  <2>1. Y(n) \in 0 .. j.h - 1 /\ X(n) \in 0 .. q - 1
    BY <1>2
  <2>2. X(n) * ppp + i \in 0 .. q * ppp - 1
    BY <2>1, InRectangle
  <2> QED BY <2>1, <2>2 DEF Samples
<1>5. ASSUME NEW n \in 0 .. N - 1, NEW m \in 0 .. N - 1, NEW c \in PixelsOf(n, q, ppp), c \in PixelsOf(m, q, ppp)
      PROVE  n = m
  <2>1. PICK i \in 0 .. ppp - 1 : c = <<Y(n), X(n) * ppp + i>>
    BY <1>3
  <2>2. PICK k \in 0 .. ppp - 1 : c = <<Y(m), X(m) * ppp + k>>
    BY <1>3, <1>5
  <2>3. Y(n) = Y(m) /\ X(n) * ppp + i = X(m) * ppp + k
    BY <2>1, <2>2
  <2>4. X(n) \in Nat /\ X(m) \in Nat
    BY <1>2
  <2>5. X(n) = X(m)
    <3> DEFINE a == X(n)
               b == X(m)
    <3>1. a * ppp + i = b * ppp + k /\ a \in Nat /\ b \in Nat
      BY <2>3, <2>4
    <3> HIDE DEF a, b
    <3>2. a = b
      BY Zenon, <3>1, ppp \in Nat, SamePlace
    <3> QED BY <3>2 DEF a, b
  <2> QED BY <1>2, <2>3, <2>5
<1>6. ASSUME NEW p \in Samples(j) PROVE \E n \in 0 .. N - 1 : p \in PixelsOf(n, q, ppp)
  <2>1. PICK y \in 0 .. j.h - 1, x \in 0 .. q * ppp - 1 : p = <<y, x>>
    BY DEF Samples
  <2> DEFINE a == x \div ppp
             b == x % ppp
             n == y * q + a
  <2>2. a \in 0 .. q - 1 /\ b \in 0 .. ppp - 1 /\ x = a * ppp + b
    <3>1. a \in 0 .. q - 1
      BY <2>1, QuotientBelow
    <3>2. x \in Nat
      BY TimesNat
    <3> QED BY <3>1, <3>2, DivMod
  <2> HIDE DEF a, b
  <2>3. n \in 0 .. N - 1
    BY <2>1, <2>2, InRectangle
  <2>4. Y(n) = y /\ X(n) = a
    <3>1. y \in Nat
      OBVIOUS
    <3> QED BY <2>2, <3>1, PlaceOfPacket DEF Y, X
  <2> HIDE DEF n
  <2>5. p \in PixelsOf(n, q, ppp)
    BY <1>3, <2>1, <2>2, <2>4
  <2> QED BY <2>3, <2>5
<1> QED BY <1>4, <1>5, <1>6

(* The units that a block has, of what is left of the input.                         *)
LengthOf(b, supply) ==
  IF supply - b * UnitsPerBlock < UnitsPerBlock THEN supply - b * UnitsPerBlock ELSE UnitsPerBlock

Supplies(blocks, total, split, supply) ==
  /\ supply \in Nat /\ split \in Nat /\ 2 * total <= supply
  /\ split = 0 \/ (split <= UnitsPerBlock /\ supply = blocks * UnitsPerBlock)

LEMMA UnitsOfBlock ==
  ASSUME NEW blocks, NEW total, BlocksOf(blocks, total, PacketsPerBlock), NEW b \in 0 .. blocks - 1,
         NEW split, NEW supply, Supplies(blocks, total, split, supply)
  PROVE  LET length == LengthOf(b, supply)
             first == b * UnitsPerBlock
         IN  /\ length \in Nat /\ first \in Nat /\ split \in 0 .. length
             /\ first + length <= supply /\ length <= UnitsPerBlock
             /\ 2 * (EndOf(b, blocks, total, PacketsPerBlock) - b * PacketsPerBlock) <= length
<1> DEFINE Z == PacketsPerBlock
           U == UnitsPerBlock
           m == b * Z
           n == blocks * Z
           e == EndOf(b, blocks, total, PacketsPerBlock)
           f == b * U
<1>1. /\ Z \in Nat \ {0} /\ blocks \in Nat \ {0} /\ total \in Nat /\ U = 2 * Z
  BY DEF BlocksOf, UnitsPerBlock, UnitsPerPacket
<1>2. m \in Nat /\ e \in Nat /\ m < e /\ e <= total /\ e <= m + Z
  <2> HIDE DEF e
  <2> QED BY <1>1, BlockBounds DEF e, BlocksOf
<1>3. m + Z <= n /\ n \in Nat
  BY <1>1, NextRow, TimesNat
<1>4. f = 2 * m /\ blocks * U = 2 * n
  <2> HIDE DEF U
  <2> QED BY <1>1
<1>5. supply \in Nat /\ split \in Nat /\ 2 * total <= supply
      /\ (split = 0 \/ (split <= U /\ supply = 2 * n))
  BY <1>4 DEF Supplies
<1>6. LengthOf(b, supply) = IF supply - f < U THEN supply - f ELSE U
  BY DEF LengthOf
<1> HIDE DEF Z, U, m, n, e, f
<1> DEFINE length == LengthOf(b, supply)
<1>7. length = IF supply - f < U THEN supply - f ELSE U
  BY <1>6
<1> HIDE DEF length
<1>8. length \in Nat /\ f \in Nat /\ split \in 0 .. length /\ f + length <= supply /\ length <= U /\ 2 * (e - m) <= length
  BY <1>1, <1>2, <1>3, <1>4, <1>5, <1>7
<1> QED BY <1>8 DEF length, e, m, f, U, Z

LEMMA BlocksArePlain ==
  ASSUME NEW j, IsImage(j), NEW q \in Nat \ {0}, NEW ppp \in Nat \ {0}, j.w = q * ppp, j.h \in Nat \ {0},
         NEW blocks, BlocksOf(blocks, j.h * q, PacketsPerBlock),
         NEW split, NEW supply, Supplies(blocks, j.h * q, split, supply), supply <= j.size
  PROVE  Plain(j, [b \in 1 .. blocks |-> BlockWork(b - 1, blocks, j, ppp, split, supply)])
<1> DEFINE plan == [b \in 1 .. blocks |-> BlockWork(b - 1, blocks, j, ppp, split, supply)]
           N == j.h * q
           Z == PacketsPerBlock
           F(s) == (s - 1) * Z
           L(s) == EndOf(s - 1, blocks, N, Z) - F(s)
           Length(s) == LengthOf(s - 1, supply)
           First(s) == (s - 1) * UnitsPerBlock
           Pixels(s, k) == PixelsOf(F(s) + k - 1, q, ppp)
           Units(s, k) == {First(s) + Unrotated(2 * (k - 1) + i, split, Length(s)) : i \in 0 .. 1}
<1>1. Z \in Nat \ {0} /\ blocks \in Nat \ {0} /\ N \in Nat /\ N <= blocks * Z /\ j.size \in Nat /\ supply \in Nat
  BY DEF BlocksOf, IsImage, Supplies
<1>2. \A s \in 1 .. blocks : s - 1 \in 0 .. blocks - 1 /\ s - 1 \in Nat
  BY <1>1
<1>3. \A s \in 1 .. blocks :
        /\ F(s) \in Nat /\ L(s) \in 1 .. Z /\ F(s) + L(s) \in Nat /\ F(s) + L(s) <= N
        /\ s # blocks => L(s) = Z
        /\ s = blocks => F(s) + L(s) = N
  <2> TAKE s \in 1 .. blocks
  <2> DEFINE b == s - 1
             f == F(s)
             e == EndOf(b, blocks, N, Z)
  <2>1. b \in 0 .. blocks - 1
    BY <1>2
  <2>2. f \in Nat /\ e \in Nat /\ e <= N /\ f < e /\ e <= f + Z
    BY <2>1, BlockBounds
  <2>3. s = blocks => e = N
    BY DEF EndOf
  <2>4. s # blocks => e = f + Z
    <3>1. (b + 1) * Z = b * Z + Z
      BY <1>1, <2>1
    <3> QED BY <1>1, <3>1 DEF EndOf
  <2>5. L(s) = e - f
    OBVIOUS
  <2> HIDE DEF f, e, L
  <2> QED BY <1>1, <2>2, <2>3, <2>4, <2>5 DEF f
<1>4. \A s \in 1 .. blocks :
        /\ Length(s) \in Nat /\ First(s) \in Nat /\ split \in 0 .. Length(s)
        /\ First(s) + Length(s) <= supply /\ Length(s) <= UnitsPerBlock /\ 2 * L(s) <= Length(s)
  <2> TAKE s \in 1 .. blocks
  <2> DEFINE b == s - 1
  <2>1. b \in 0 .. blocks - 1
    BY <1>2
  <2> HIDE DEF b
  <2>2. LET length == LengthOf(b, supply)
            first == b * UnitsPerBlock
        IN  /\ length \in Nat /\ first \in Nat /\ split \in 0 .. length
            /\ first + length <= supply /\ length <= UnitsPerBlock
            /\ 2 * (EndOf(b, blocks, N, Z) - b * Z) <= length
    BY <2>1, UnitsOfBlock
  <2> QED BY <2>2 DEF b
<1>5. \A s \in 1 .. blocks :
        /\ DOMAIN plan[s] = 1 .. L(s)
        /\ \A k \in 1 .. L(s) : plan[s][k] = Step(Pixels(s, k), {}, Units(s, k))
  <2> TAKE s \in 1 .. blocks
  <2> DEFINE b == s - 1
             packets == PacketsFromTo(BlockBegin(b, j, ppp), BlockEnd(b, blocks, j, ppp), j.w, ppp)
  <2>1. b \in 0 .. blocks - 1
    BY <1>2
  <2>2. ListsPackets(packets, b * Z, EndOf(b, blocks, N, Z), q, ppp)
    BY <2>1, PacketsOfBlock
  <2>3. Len(packets) = L(s) /\ \A k \in 1 .. Len(packets) : packets[k] = PacketAt(F(s) + k - 1, q, ppp)
    BY <2>2 DEF ListsPackets
  <2>4. plan[s] = [k \in 1 .. Len(packets) |->
                     Step(PacketPixels(packets[k], ppp), {},
                       {First(s) + Unrotated(UnitsPerPacket * (k - 1) + i, split, Length(s)) : i \in 0 .. 1})]
    BY DEF BlockWork, LengthOf
  <2> HIDE DEF packets, plan, L, First, Length, F
  <2>5. DOMAIN plan[s] = 1 .. L(s)
    BY <2>3, <2>4
  <2>6. ASSUME NEW k \in 1 .. L(s) PROVE plan[s][k] = Step(Pixels(s, k), {}, Units(s, k))
    <3>1. plan[s][k] = Step(PacketPixels(packets[k], ppp), {},
                         {First(s) + Unrotated(UnitsPerPacket * (k - 1) + i, split, Length(s)) : i \in 0 .. 1})
      BY <2>3, <2>4
    <3>2. PacketPixels(packets[k], ppp) = Pixels(s, k)
      BY <2>3 DEF PixelsOf
    <3> QED BY <3>1, <3>2 DEF UnitsPerPacket
  <2> QED BY <2>5, <2>6
<1>6. \A s \in 1 .. blocks : \A k \in 1 .. L(s) :
        /\ PlainStep(plan[s][k]) /\ plan[s][k].reads = {} /\ plan[s][k].loads = {}
        /\ plan[s][k].writes = Pixels(s, k) /\ plan[s][k].takes = Units(s, k)
  <2> HIDE DEF plan, L, Pixels, Units
  <2> QED BY <1>5, StepFields
<1>7. DOMAIN plan = 1 .. blocks
  OBVIOUS
<1> HIDE DEF plan, L, F, First, Length, N
<1>8. \A s \in 1 .. blocks : \A k \in 1 .. L(s) :
        /\ k \in 1 .. Z /\ F(s) + k - 1 \in 0 .. N - 1
        /\ 2 * (k - 1) \in Nat /\ 2 * (k - 1) + 1 \in 0 .. Length(s) - 1 /\ 2 * (k - 1) \in 0 .. Length(s) - 1
  <2> TAKE s \in 1 .. blocks
  <2> TAKE k \in 1 .. L(s)
  <2>1. /\ F(s) \in Nat /\ L(s) \in 1 .. Z /\ F(s) + L(s) <= N
        /\ Length(s) \in Nat /\ 2 * L(s) <= Length(s)
    BY <1>3, <1>4
  <2> DEFINE f == F(s)
             l == L(s)
             n == Length(s)
  <2>2. f \in Nat /\ l \in 1 .. Z /\ f + l <= N /\ n \in Nat /\ 2 * l <= n /\ k \in 1 .. l
    BY <2>1
  <2> HIDE DEF f, l, n, Z
  <2>3. k \in 1 .. Z /\ f + k - 1 \in 0 .. N - 1 /\ 2 * (k - 1) \in Nat
        /\ 2 * (k - 1) + 1 \in 0 .. n - 1 /\ 2 * (k - 1) \in 0 .. n - 1
    BY <1>1, <2>2
  <2> QED BY <2>3 DEF f, n
<1>9. ASSUME NEW s \in 1 .. blocks, NEW k \in 1 .. L(s)
      PROVE  Units(s, k) \subseteq First(s) .. First(s) + Length(s) - 1
  <2> DEFINE n == Length(s)
             f == First(s)
  <2>1. \A i \in 0 .. 1 : 2 * (k - 1) + i \in 0 .. n - 1
    BY <1>8
  <2>2. n \in Nat /\ split \in 0 .. n /\ f \in Nat
    BY <1>4
  <2>3. \A i \in 0 .. n - 1 : Unrotated(i, split, n) \in 0 .. n - 1
    BY <2>2, SectionsSwapped
  <2>4. Units(s, k) = {f + Unrotated(2 * (k - 1) + i, split, n) : i \in 0 .. 1}
    OBVIOUS
  <2> HIDE DEF n, f, Units
  <2>5. \A i \in 0 .. 1 : Unrotated(2 * (k - 1) + i, split, n) \in 0 .. n - 1
    BY <2>1, <2>3
  <2>6. \A i \in 0 .. 1 : f + Unrotated(2 * (k - 1) + i, split, n) \in f .. f + n - 1
    BY <2>2, <2>5
  <2> QED BY <2>4, <2>6 DEF n, f
<1>10. ASSUME NEW s \in 1 .. blocks, NEW t \in 1 .. blocks, s < t
       PROVE  First(s) + Length(s) <= First(t)
  <2>1. (s - 1) * UnitsPerBlock + UnitsPerBlock <= (t - 1) * UnitsPerBlock
    <3>1. UnitsPerBlock \in Nat
      BY <1>1 DEF UnitsPerBlock, UnitsPerPacket
    <3>2. s - 1 \in Nat /\ t - 1 \in Nat /\ s - 1 < t - 1
      BY <1>1, <1>10
    <3> QED BY <3>1, <3>2, NextRow
  <2> DEFINE U == UnitsPerBlock
             f == First(s)
             g == First(t)
  <2>2. f + U <= g /\ U \in Nat /\ f \in Nat /\ g \in Nat
    <3>1. UnitsPerBlock \in Nat
      BY <1>1 DEF UnitsPerBlock, UnitsPerPacket
    <3> QED BY <1>4, <2>1, <3>1 DEF First
  <2> HIDE DEF U, f, g
  <2>3. Length(s) \in Nat /\ Length(s) <= U
    BY <1>4 DEF U
  <2>4. f + Length(s) <= g
    BY <2>2, <2>3
  <2> QED BY <2>4 DEF f, g
<1>11. ASSUME NEW s \in 1 .. blocks, NEW k \in 1 .. L(s), NEW l \in 1 .. L(s), k # l
       PROVE  Units(s, k) \cap Units(s, l) = {}
  <2> DEFINE n == Length(s)
             f == First(s)
             V(m) == Unrotated(m, split, n)
  <2>1. \A i \in 0 .. 1 : 2 * (k - 1) + i \in 0 .. n - 1 /\ 2 * (l - 1) + i \in 0 .. n - 1
    BY <1>8
  <2>2. n \in Nat /\ split \in 0 .. n /\ f \in Nat
    BY <1>4
  <2>3. /\ \A i \in 0 .. n - 1 : V(i) \in 0 .. n - 1
        /\ \A i, m \in 0 .. n - 1 : i # m => V(i) # V(m)
    BY <2>2, SectionsSwapped
  <2>4. Units(s, k) = {f + V(2 * (k - 1) + i) : i \in 0 .. 1} /\ Units(s, l) = {f + V(2 * (l - 1) + i) : i \in 0 .. 1}
    OBVIOUS
  <2>5. \A i, m \in 0 .. 1 : 2 * (k - 1) + i # 2 * (l - 1) + m
    BY <1>8, <1>11
  <2> HIDE DEF n, f, V, Units
  <2>6. ASSUME NEW i \in 0 .. 1, NEW m \in 0 .. 1 PROVE f + V(2 * (k - 1) + i) # f + V(2 * (l - 1) + m)
    <3>1. V(2 * (k - 1) + i) # V(2 * (l - 1) + m)
      BY <2>1, <2>3, <2>5
    <3>2. V(2 * (k - 1) + i) \in Int /\ V(2 * (l - 1) + m) \in Int
      BY <2>1, <2>2, <2>3
    <3> QED BY <2>2, <3>1, <3>2
  <2> QED BY <2>4, <2>6
<1>12. ASSUME NEW s \in 1 .. blocks, NEW t \in 1 .. blocks, NEW k \in 1 .. L(s), NEW l \in 1 .. L(t),
              <<s, k>> # <<t, l>>
       PROVE  Pixels(s, k) \cap Pixels(t, l) = {} /\ Units(s, k) \cap Units(t, l) = {}
  <2>1. Pixels(s, k) \cap Pixels(t, l) = {}
    <3> DEFINE n == F(s) + k - 1
               m == F(t) + l - 1
    <3>1. n \in 0 .. N - 1 /\ m \in 0 .. N - 1 /\ k \in 1 .. Z /\ l \in 1 .. Z
      BY <1>8
    <3>2. n # m
      <4> SUFFICES ASSUME n = m PROVE FALSE
        OBVIOUS
      <4> DEFINE b == s - 1
                 c == t - 1
                 k1 == k - 1
                 l1 == l - 1
      <4>1. b \in Nat /\ c \in Nat /\ k1 \in 0 .. Z - 1 /\ l1 \in 0 .. Z - 1 /\ Z \in Nat
        BY <1>1, <1>2, <3>1
      <4>2. n = b * Z + k1 /\ m = c * Z + l1
        <5>1. F(s) = b * Z /\ F(t) = c * Z /\ F(s) \in Nat /\ F(t) \in Nat
          BY <1>3 DEF F
        <5> DEFINE x == b * Z
                   y == c * Z
        <5>2. F(s) = x /\ F(t) = y /\ x \in Nat /\ y \in Nat
          BY <5>1
        <5> HIDE DEF x, y, b, c
        <5>3. n = x + k1 /\ m = y + l1
          BY <3>1, <5>2
        <5> QED BY <5>3 DEF x, y
      <4> HIDE DEF b, c, k1, l1
      <4>3. b * Z + k1 = c * Z + l1
        BY <4>2
      <4>4. b = c /\ k1 = l1
        <5> HIDE DEF n, m, Z
        <5> QED BY <4>1, <4>3, SamePlace
      <4>5. s = t /\ k = l
        BY <1>2, <3>1, <4>4 DEF b, c, k1, l1
      <4> QED BY <1>12, <4>5
    <3>3. Pixels(s, k) = PixelsOf(n, q, ppp) /\ Pixels(t, l) = PixelsOf(m, q, ppp)
      OBVIOUS
    <3> HIDE DEF n, m, Pixels
    <3> QED BY <3>1, <3>2, <3>3, PacketsPartition DEF N
  <2>2. Units(s, k) \cap Units(t, l) = {}
    <3>1. CASE s = t
      <4>1. k # l /\ l \in 1 .. L(s)
        BY <1>12, <3>1
      <4> HIDE DEF Units
      <4> QED BY <1>11, <3>1, <4>1
    <3>2. CASE s # t
      <4> DEFINE f == First(s)
                 g == First(t)
                 u == Length(s)
                 v == Length(t)
      <4>1. Units(s, k) \subseteq f .. f + u - 1 /\ Units(t, l) \subseteq g .. g + v - 1
        BY <1>9
      <4>2. f \in Nat /\ g \in Nat /\ u \in Nat /\ v \in Nat
        BY <1>4
      <4>3. f + u <= g \/ g + v <= f
        BY <1>1, <1>10, <3>2
      <4> HIDE DEF f, g, u, v, Units
      <4> QED BY <4>1, <4>2, <4>3
    <3> QED BY <3>1, <3>2
  <2> QED BY <2>1, <2>2
<1>13. ASSUME NEW s \in 1 .. blocks, NEW k \in 1 .. L(s)
       PROVE  Pixels(s, k) \subseteq Samples(j) /\ Units(s, k) \subseteq 0 .. j.size - 1
  <2>1. Pixels(s, k) \subseteq Samples(j)
    BY <1>8, PacketsPartition DEF N
  <2>2. Units(s, k) \subseteq 0 .. j.size - 1
    <3> DEFINE f == First(s)
               u == Length(s)
    <3>1. Units(s, k) \subseteq f .. f + u - 1
      BY <1>9
    <3>2. f \in Nat /\ u \in Nat /\ f + u <= supply
      BY <1>4
    <3> HIDE DEF f, u, Units
    <3> QED BY <1>1, <3>1, <3>2
  <2> QED BY <2>1, <2>2
<1>14. ASSUME NEW p \in Samples(j) PROVE \E s \in 1 .. blocks : \E k \in 1 .. L(s) : p \in Pixels(s, k)
  <2>1. PICK n \in 0 .. N - 1 : p \in PixelsOf(n, q, ppp)
    BY PacketsPartition DEF N
  <2> DEFINE b == n \div Z
             a == n % Z
  <2>2. n \in Nat /\ b \in Nat /\ a \in 0 .. Z - 1 /\ n = b * Z + a
    <3>1. n \in Nat
      BY <1>1
    <3> QED BY <1>1, <3>1, DivMod
  <2>3. b \in 0 .. blocks - 1
    <3> DEFINE m == blocks * Z
    <3>1. m \in Nat /\ N <= m
      BY <1>1, TimesNat
    <3> HIDE DEF m
    <3>2. n \in 0 .. m - 1
      BY <1>1, <3>1
    <3> QED BY <1>1, <3>2, QuotientBelow DEF m
  <2> HIDE DEF b, a
  <2>4. b + 1 \in 1 .. blocks /\ (b + 1) - 1 = b
    BY <1>1, <2>3
  <2>5. F(b + 1) = b * Z
    BY <2>4 DEF F
  <2> DEFINE f == F(b + 1)
             l == L(b + 1)
  <2>6. n = f + a /\ f \in Nat /\ l \in 1 .. Z /\ (b + 1 # blocks => l = Z) /\ (b + 1 = blocks => f + l = N)
    BY <1>3, <2>2, <2>4, <2>5
  <2> HIDE DEF f, l, Z
  <2>7. a + 1 \in 1 .. l /\ f + (a + 1) - 1 = n
    BY <1>1, <2>1, <2>2, <2>6
  <2>8. p \in Pixels(b + 1, a + 1)
    BY <2>1, <2>7 DEF f
  <2> HIDE DEF Pixels
  <2> QED BY <2>4, <2>7, <2>8 DEF l
<1> HIDE DEF Pixels, Units, Z
<1>15. ASSUME NEW s \in 1 .. blocks PROVE IsSlice(plan[s])
  <2>1. L(s) \in Nat /\ DOMAIN plan[s] = 1 .. L(s)
    BY <1>1, <1>3, <1>5
  <2> QED BY <2>1, ListedSlice
<1>16. ASSUME NEW s \in 1 .. blocks, NEW k \in 1 .. L(s) PROVE StepIsPlain(j, plan[s], k)
  BY <1>6, <1>13 DEF StepIsPlain, Cells
<1>17. WritesApart(plan) /\ TakesApart(plan)
  <2> SUFFICES ASSUME NEW s \in DOMAIN plan, NEW t \in DOMAIN plan, NEW k \in DOMAIN plan[s],
                      NEW l \in DOMAIN plan[t], <<s, k>> # <<t, l>>
               PROVE  /\ plan[s][k].writes \cap plan[t][l].writes = {}
                      /\ plan[s][k].takes \cap plan[t][l].takes = {}
    BY DEF WritesApart, TakesApart
  <2>1. s \in 1 .. blocks /\ t \in 1 .. blocks
    BY <1>7
  <2>2. k \in 1 .. L(s) /\ l \in 1 .. L(t)
    BY <1>5, <2>1
  <2>3. Pixels(s, k) \cap Pixels(t, l) = {} /\ Units(s, k) \cap Units(t, l) = {}
    BY <1>12, <2>1, <2>2
  <2> QED BY <1>6, <2>1, <2>2, <2>3
<1>18. WritesCover(j, plan)
  <2> SUFFICES ASSUME NEW p \in Samples(j)
               PROVE  \E s \in DOMAIN plan : \E k \in DOMAIN plan[s] : p \in plan[s][k].writes
    BY DEF WritesCover
  <2>1. PICK s \in 1 .. blocks : \E k \in 1 .. L(s) : p \in Pixels(s, k)
    BY <1>14
  <2>2. PICK k \in 1 .. L(s) : p \in Pixels(s, k)
    BY <2>1
  <2>3. s \in DOMAIN plan /\ k \in DOMAIN plan[s]
    BY <1>5, <1>7
  <2>4. p \in plan[s][k].writes
    BY <1>6, <2>2
  <2> QED BY <2>3, <2>4
<1>19. Plain(j, plan)
  <2>1. 0 \notin DOMAIN plan
    BY <1>1, <1>7
  <2>2. ASSUME NEW s \in DOMAIN plan PROVE IsSlice(plan[s]) /\ \A k \in DOMAIN plan[s] : StepIsPlain(j, plan[s], k)
    <3>1. s \in 1 .. blocks
      BY <1>7
    <3>2. DOMAIN plan[s] = 1 .. L(s)
      BY <1>5, <3>1
    <3> QED BY <1>15, <1>16, <3>1, <3>2
  <2> QED BY <1>17, <1>18, <2>1, <2>2 DEF Plain
<1> QED BY <1>19 DEF plan

(* V4, whose input is rounded up to whole blocks when its sections are swapped.       *)
LEMMA V4IsPlain ==
  ASSUME NEW j, IsImage(j), j.split \in Nat, V4Accepts(j)
  PROVE  Plain(j, V4Work(j))
<1> DEFINE Z == PacketsPerBlock
           q == j.w \div 14
           N == j.h * q
           supply == V4Supply(j)
           blocks == CeilDiv(supply, UnitsPerBlock)
<1>1. j.w \in Nat \ {0} /\ j.h \in Nat \ {0} /\ j.w % 14 = 0 /\ j.size \in Nat
      /\ j.split <= UnitsPerBlock /\ supply <= j.size
  BY DEF IsImage, V4Accepts, V4PixelsPerPacket
<1>2. q \in Nat \ {0} /\ j.w = q * 14
  BY <1>1
<1>3. Z \in Nat \ {0} /\ UnitsPerBlock = 2 * Z
  BY PanasonicAssumption DEF UnitsPerBlock, UnitsPerPacket
<1> HIDE DEF q
<1>4. N \in Nat \ {0}
  <2>1. N \in Nat /\ N # 0
    BY <1>1, <1>2, TimesNat
  <2> QED BY <2>1
<1>5. (j.w * j.h) \div 14 = N
  <2>1. j.w * j.h = N * 14
    BY <1>1, <1>2
  <2> HIDE DEF N
  <2> QED BY <1>4, <2>1, ExactQuotient
<1> HIDE DEF N, Z
<1>6. supply = IF j.split = 0 THEN 2 * N ELSE CeilDiv(2 * N, 2 * Z) * (2 * Z)
  BY <1>3, <1>5 DEF V4Supply, UnitsPerPacket, V4PixelsPerPacket
<1>7. BlocksOf(CeilDiv(2 * N, 2 * Z), 2 * N, 2 * Z)
  BY <1>3, <1>4, CeilDivIs
<1> DEFINE c == CeilDiv(2 * N, 2 * Z)
<1>8. c \in Nat \ {0} /\ (c - 1) * (2 * Z) < 2 * N /\ 2 * N <= c * (2 * Z)
  BY <1>7 DEF BlocksOf
<1> HIDE DEF c, supply
<1>9. BlocksOf(c, N, Z)
  <2> DEFINE x == c * Z
             y == (c - 1) * Z
  <2>1. (c - 1) * (2 * Z) = 2 * y /\ c * (2 * Z) = 2 * x
    BY <1>3, <1>8
  <2>2. x \in Nat /\ y \in Nat
    BY <1>3, <1>8, TimesNat
  <2> HIDE DEF x, y
  <2>3. y < N /\ N <= x
    BY <1>4, <1>8, <2>1, <2>2
  <2> QED BY <1>3, <1>4, <1>8, <2>3 DEF BlocksOf, x, y
<1>10. blocks = c
  <2>1. CASE j.split = 0
    BY <1>3, <1>6, <2>1 DEF c
  <2>2. CASE j.split # 0
    <3>1. supply = c * (2 * Z)
      BY <1>6, <2>2 DEF c
    <3> DEFINE u == 2 * Z
               x == c * u
    <3>2. u \in Nat \ {0} /\ supply = x /\ x \in Nat /\ blocks = (x + u - 1) \div u
      BY <1>3, <1>8, <3>1, TimesNat DEF CeilDiv
    <3> HIDE DEF u, blocks
    <3> DEFINE m == (x + u - 1) \div u
               r == (x + u - 1) % u
    <3>3. m \in Nat /\ r \in 0 .. u - 1 /\ x + u - 1 = m * u + r
      <4> HIDE DEF x
      <4>1. x + u - 1 \in Nat
        BY <3>2
      <4> QED BY <3>2, <4>1, DivMod
    <3> HIDE DEF m, r
    <3>4. c * u + (u - 1) = m * u + r
      <4> DEFINE y == m * u
      <4>1. y \in Nat
        BY <3>2, <3>3, TimesNat
      <4> HIDE DEF x, y
      <4>2. x + (u - 1) = y + r
        BY <3>2, <3>3, <4>1 DEF y
      <4> QED BY <4>2 DEF x, y
    <3>5. c = m
      <4>1. u - 1 \in 0 .. u - 1
        BY <3>2
      <4> HIDE DEF x
      <4> QED BY <1>8, <3>2, <3>3, <3>4, <4>1, SamePlace
    <3> QED BY <3>2, <3>5 DEF m
  <2> QED BY <2>1, <2>2
<1> HIDE DEF blocks
<1>11. Supplies(c, N, j.split, supply) /\ supply <= j.size /\ supply \in Nat
  <2> DEFINE x == c * (2 * Z)
  <2>1. x \in Nat /\ 2 * N <= x
    BY <1>3, <1>8, TimesNat
  <2>2. UnitsPerBlock = 2 * Z
    BY <1>3
  <2>3. supply = IF j.split = 0 THEN 2 * N ELSE x
    BY <1>6 DEF c
  <2>4. supply <= j.size /\ j.split <= UnitsPerBlock
    BY <1>1
  <2> HIDE DEF x
  <2>5. j.split # 0 => supply = c * UnitsPerBlock
    BY <2>2, <2>3 DEF x
  <2> QED BY <1>4, <2>1, <2>3, <2>4, <2>5 DEF Supplies
<1>12. Plain(j, [b \in 1 .. c |-> BlockWork(b - 1, c, j, 14, j.split, supply)])
  <2>1. BlocksOf(c, j.h * q, PacketsPerBlock) /\ Supplies(c, j.h * q, j.split, supply)
    BY <1>9, <1>11 DEF N, Z
  <2>2. 14 \in Nat \ {0}
    OBVIOUS
  <2> QED BY <1>1, <1>2, <1>11, <2>1, <2>2, BlocksArePlain
<1>13. V4Work(j) = [b \in 1 .. blocks |-> BlockWork(b - 1, blocks, j, 14, j.split, supply)]
  BY DEF V4Work, blocks, supply, V4PixelsPerPacket
<1> QED BY <1>10, <1>12, <1>13

(* V5, whose blocks are whole.                                                      *)
LEMMA V5IsPlain ==
  ASSUME NEW j, IsImage(j), V5Accepts(j)
  PROVE  Plain(j, V5Work(j))
<1> DEFINE Z == PacketsPerBlock
           ppp == V5PixelsPerPacket(j.bps)
           q == j.w \div ppp
           N == j.h * q
           blocks == V5Blocks(j)
           supply == blocks * UnitsPerBlock
           split == UnitsPerBlock \div 2 - 1
<1>1. /\ j.w \in Nat \ {0} /\ j.h \in Nat \ {0} /\ j.size \in Nat /\ j.w % ppp = 0
      /\ blocks <= j.size \div UnitsPerBlock
  BY DEF IsImage, V5Accepts
<1>2. ppp \in {9, 10}
  BY DEF V5Accepts, V5PixelsPerPacket
<1> HIDE DEF ppp
<1>3. q \in Nat \ {0} /\ j.w = q * ppp
  <2>1. CASE ppp = 9
    BY <1>1, <2>1
  <2>2. CASE ppp = 10
    BY <1>1, <2>2
  <2> QED BY <1>2, <2>1, <2>2
<1>4. Z \in Nat \ {0} /\ UnitsPerBlock = 2 * Z /\ ppp \in Nat \ {0}
  BY <1>2, PanasonicAssumption DEF UnitsPerBlock, UnitsPerPacket
<1> HIDE DEF q
<1>5. N \in Nat \ {0}
  <2>1. N \in Nat /\ N # 0
    BY <1>1, <1>3, TimesNat
  <2> QED BY <2>1
<1>6. (j.w * j.h) \div ppp = N
  <2>1. j.w * j.h = N * ppp
    BY <1>1, <1>2, <1>3
  <2> HIDE DEF N
  <2> QED BY <1>4, <1>5, <2>1, ExactQuotient
<1>7. BlocksOf(blocks, N, Z)
  <2>1. blocks = CeilDiv(N, Z)
    BY <1>6 DEF V5Blocks, ppp
  <2> HIDE DEF N, Z, blocks
  <2> QED BY <1>4, <1>5, <2>1, CeilDivIs
<1> HIDE DEF blocks
<1>8. blocks \in Nat \ {0} /\ N <= blocks * Z
  BY <1>7 DEF BlocksOf
<1>9. Supplies(blocks, N, split, supply) /\ supply <= j.size
  <2> DEFINE x == blocks * Z
             u == UnitsPerBlock
             d == j.size \div u
  <2>1. u \in Nat \ {0} /\ split = Z - 1 /\ split \in Nat /\ split <= u
    BY <1>4
  <2>2. supply = 2 * x /\ x \in Nat
    BY <1>4, <1>8, TimesNat
  <2>3. supply <= j.size
    <3> HIDE DEF u
    <3>1. d \in Nat /\ j.size % u \in 0 .. u - 1 /\ j.size = d * u + (j.size % u)
      BY <1>1, <2>1, DivMod
    <3>2. blocks <= d
      BY <1>1 DEF u
    <3> HIDE DEF d
    <3>3. blocks * u <= d * u
      <4>1. CASE blocks = d
        BY <1>8, <2>1, <4>1, TimesNat
      <4>2. CASE blocks < d
        <5>1. blocks * u + u <= d * u
          BY <1>8, <2>1, <3>1, <4>2, NextRow
        <5>2. blocks * u \in Nat /\ d * u \in Nat
          BY <1>8, <2>1, <3>1, TimesNat
        <5> QED BY <2>1, <5>1, <5>2
      <4> QED BY <1>8, <3>1, <3>2, <4>1, <4>2
    <3> DEFINE y == blocks * u
               z == d * u
    <3>4. y <= z /\ y \in Nat /\ z \in Nat /\ j.size = z + (j.size % u) /\ supply = y
      BY <1>8, <2>1, <3>1, <3>3, TimesNat DEF u
    <3> HIDE DEF y, z, supply
    <3> QED BY <1>1, <3>1, <3>4
  <2>4. 2 * N <= supply /\ supply \in Nat
    <3> HIDE DEF supply, x, N
    <3> QED BY <1>5, <1>8, <2>2 DEF x
  <2> QED BY <2>1, <2>3, <2>4 DEF Supplies
<1>10. Plain(j, [b \in 1 .. blocks |-> BlockWork(b - 1, blocks, j, ppp, split, supply)])
  <2> HIDE DEF split, supply, N, Z
  <2>1. BlocksOf(blocks, j.h * q, PacketsPerBlock) /\ Supplies(blocks, j.h * q, split, supply)
    BY <1>7, <1>9 DEF N, Z
  <2>2. j.h \in Nat \ {0} /\ q \in Nat \ {0} /\ ppp \in Nat \ {0} /\ j.w = q * ppp /\ supply <= j.size
    BY <1>1, <1>3, <1>4, <1>9
  <2> QED BY Zenon, <2>1, <2>2, BlocksArePlain
<1>11. V5Work(j) = [b \in 1 .. blocks |-> BlockWork(b - 1, blocks, j, ppp, split, supply)]
  BY DEF V5Work, blocks, ppp
<1> QED BY <1>10, <1>11
-----------------------------------------------------------------------------
(* Samsung V0.  A row of the plan is the input of the strip and, for each 16 columns, two steps:
   step q, from 2 on, is for the columns of block q \div 2, those that are odd if q is.    *)
V0Half(y, x, odd, j) == {<<y, x + c>> : c \in {d \in 0 .. 15 : d % 2 = odd /\ x + d < j.w}}

V0Reads(y, x, odd, j) ==
  IF j.up /\ MayGoUp(y, x, j) THEN {<<p[1] - 1 - odd, p[2]>> : p \in V0Half(y, x, odd, j)}
  ELSE IF x = 0 THEN {} ELSE {<<y, x - 2 + odd>>}

V0Place(q) == 16 * ((q \div 2) - 1)

V0Step(y, q, j) ==
  IF q = 1 THEN Step({}, {}, SamsungV0Input(y, j))
  ELSE Step(V0Half(y, V0Place(q), q % 2, j), V0Reads(y, V0Place(q), q % 2, j), {})

LEMMA ListsJoined ==
  ASSUME NEW u, NEW v, IsList(u), IsList(v)
  PROVE  IsList(u \o v)
<1> DEFINE T == {u[k] : k \in 1 .. Len(u)} \cup {v[k] : k \in 1 .. Len(v)}
<1>1. \A k \in 1 .. Len(u) : u[k] \in T
  OBVIOUS
<1>2. \A k \in 1 .. Len(v) : v[k] \in T
  OBVIOUS
<1> HIDE DEF T
<1>3. u \in Seq(T) /\ v \in Seq(T)
  BY <1>1, <1>2, ListOfItems
<1> DEFINE s == u \o v
<1>4. s \in Seq(T)
  BY <1>3
<1> HIDE DEF s
<1>5. IsList(s)
  BY <1>4 DEF IsList, IsSlice
<1> QED BY <1>5 DEF s

LEMMA V0BlockIs ==
  ASSUME NEW j, NEW y, NEW b \in Nat \ {0}
  PROVE  /\ IsList(SamsungV0Block(y, 16 * (b - 1), j)) /\ Len(SamsungV0Block(y, 16 * (b - 1), j)) = 2
         /\ SamsungV0Block(y, 16 * (b - 1), j)[1] = V0Step(y, 2 * b, j)
         /\ SamsungV0Block(y, 16 * (b - 1), j)[2] = V0Step(y, 2 * b + 1, j)
<1> DEFINE x == 16 * (b - 1)
           f == SamsungV0Block(y, x, j)
<1>1. f = [i \in 1 .. 2 |-> Step(V0Half(y, x, i - 1, j), V0Reads(y, x, i - 1, j), {})]
  BY DEF SamsungV0Block, V0Half, V0Reads
<1>2. DOMAIN f = 1 .. 2 /\ f = [i \in 1 .. 2 |-> f[i]] /\ 2 \in Nat
  BY <1>1
<1>3. /\ V0Place(2 * b) = x /\ (2 * b) % 2 = 0 /\ 2 * b # 1
      /\ V0Place(2 * b + 1) = x /\ (2 * b + 1) % 2 = 1 /\ 2 * b + 1 # 1
  BY DEF V0Place
<1>4. /\ f[1] = Step(V0Half(y, x, 0, j), V0Reads(y, x, 0, j), {})
      /\ f[2] = Step(V0Half(y, x, 1, j), V0Reads(y, x, 1, j), {})
  <2>1. 1 \in 1 .. 2 /\ 2 \in 1 .. 2 /\ 1 - 1 = 0 /\ 2 - 1 = 1
    OBVIOUS
  <2> HIDE DEF f
  <2> QED BY <1>1, <2>1
<1> HIDE DEF f
<1>5. f[1] = V0Step(y, 2 * b, j) /\ f[2] = V0Step(y, 2 * b + 1, j)
  BY <1>3, <1>4 DEF V0Step
<1> QED BY <1>2, <1>5, ListIs DEF f

(* The row of the plan.                                                              *)
V0Row(y, j) ==
  <<Step({}, {}, SamsungV0Input(y, j))>> \o
    ForEach(CeilDiv(j.w, 16), LAMBDA b : SamsungV0Block(y, 16 * b, j))

LEMMA V0RowIs ==
  ASSUME NEW j, NEW y, NEW n \in Nat \ {0}, n = CeilDiv(j.w, 16)
  PROVE  V0Row(y, j) = [q \in 1 .. 2 * n + 1 |-> V0Step(y, q, j)]
<1> DEFINE blocks == [b \in 1 .. n |-> SamsungV0Block(y, 16 * (b - 1), j)]
           u == <<Step({}, {}, SamsungV0Input(y, j))>>
           v == FlattenSeq(blocks)
           row == V0Row(y, j)
<1>1. row = u \o v
  BY DEF V0Row, ForEach
<1>2. /\ AreLists(blocks, n)
      /\ \A b \in 1 .. n : Len(blocks[b]) = 2 /\ blocks[b][1] = V0Step(y, 2 * b, j)
                             /\ blocks[b][2] = V0Step(y, 2 * b + 1, j)
  <2>1. \A b \in 1 .. n : blocks[b] = SamsungV0Block(y, 16 * (b - 1), j) /\ b \in Nat \ {0}
    OBVIOUS
  <2>2. DOMAIN blocks = 1 .. n
    OBVIOUS
  <2> HIDE DEF blocks
  <2>3. ASSUME NEW b \in 1 .. n
        PROVE  /\ IsList(blocks[b]) /\ Len(blocks[b]) = 2
               /\ blocks[b][1] = V0Step(y, 2 * b, j) /\ blocks[b][2] = V0Step(y, 2 * b + 1, j)
    <3> DEFINE f == SamsungV0Block(y, 16 * (b - 1), j)
    <3>1. b \in Nat \ {0} /\ blocks[b] = f
      BY <2>1
    <3>2. IsList(f) /\ Len(f) = 2 /\ f[1] = V0Step(y, 2 * b, j) /\ f[2] = V0Step(y, 2 * b + 1, j)
      BY Zenon, <3>1, V0BlockIs
    <3> HIDE DEF f
    <3> QED BY <3>1, <3>2
  <2> QED BY <2>2, <2>3 DEF AreLists
<1> HIDE DEF blocks
<1>3. PICK off : Concatenates(v, blocks, n, off)
  BY Zenon, <1>2, Flattened
<1>4. /\ off \in [0 .. n -> Nat] /\ off[0] = 0
      /\ \A i \in 1 .. n : off[i] = off[i - 1] + 2
      /\ IsList(v) /\ Len(v) = off[n]
      /\ \A i \in 1 .. n : \A k \in 1 .. 2 : v[off[i - 1] + k] = blocks[i][k]
  BY <1>2, <1>3 DEF Concatenates
<1> HIDE DEF v
<1> DEFINE S == {i \in 0 .. n : off[i] = 2 * i}
<1>5. 0 .. n \subseteq S
  <2>1. 0 \in S
    BY <1>4
  <2>2. \A i \in 0 .. n - 1 : i \in S => i + 1 \in S
    <3> SUFFICES ASSUME NEW i \in 0 .. n - 1, off[i] = 2 * i PROVE off[i + 1] = 2 * (i + 1) /\ i + 1 \in 0 .. n
      OBVIOUS
    <3>1. i + 1 \in 1 .. n /\ (i + 1) - 1 = i
      OBVIOUS
    <3>2. off[i + 1] = off[(i + 1) - 1] + 2
      BY <1>4, <3>1
    <3> QED BY <3>1, <3>2
  <2> HIDE DEF S
  <2> QED BY <2>1, <2>2, AllUpTo
<1>6. \A i \in 0 .. n : off[i] = 2 * i
  BY <1>5
<1> HIDE DEF S
<1>7. Len(v) = 2 * n
  BY <1>4, <1>6
<1>8. \A b \in 1 .. n : v[2 * b - 1] = V0Step(y, 2 * b, j) /\ v[2 * b] = V0Step(y, 2 * b + 1, j)
  <2> TAKE b \in 1 .. n
  <2>1. b - 1 \in 0 .. n
    OBVIOUS
  <2>2. off[b - 1] = 2 * b - 2
    BY <1>6, <2>1
  <2>3. off[b - 1] + 1 = 2 * b - 1 /\ off[b - 1] + 2 = 2 * b
    BY <2>2
  <2>4. v[off[b - 1] + 1] = blocks[b][1] /\ v[off[b - 1] + 2] = blocks[b][2]
    BY <1>4
  <2> QED BY <1>2, <2>3, <2>4
<1>9. IsList(u) /\ Len(u) = 1 /\ u[1] = V0Step(y, 1, j)
  <2>1. DOMAIN u = 1 .. 1 /\ u = [k \in 1 .. 1 |-> u[k]] /\ u[1] = V0Step(y, 1, j)
    BY DEF V0Step
  <2> HIDE DEF u
  <2> QED BY <2>1, ListIs
<1> HIDE DEF u, row
<1>10. Joins(row, u, v)
  BY Zenon, <1>1, <1>4, <1>9, JoinedLists
<1>11. /\ IsSlice(row) /\ Len(row) = 1 + 2 * n /\ row[1] = u[1]
       /\ \A k \in 1 .. 2 * n : row[1 + k] = v[k]
  <2>1. /\ IsSlice(row) /\ Len(row) = 1 + 2 * n
        /\ \A k \in 1 .. 1 : row[k] = u[k]
        /\ \A k \in 1 .. 2 * n : row[1 + k] = v[k]
    BY Zenon, <1>7, <1>9, <1>10 DEF Joins
  <2> QED BY <2>1
<1>12. \A q \in 1 .. 2 * n + 1 : row[q] = V0Step(y, q, j)
  <2> TAKE q \in 1 .. 2 * n + 1
  <2> DEFINE b == q \div 2
  <2>1. CASE q = 1
    BY <1>9, <1>11, <2>1
  <2>2. CASE q # 1 /\ q % 2 = 0
    <3>1. b \in 1 .. n /\ 2 * b = q /\ 2 * b - 1 \in 1 .. 2 * n /\ 1 + (2 * b - 1) = q
      BY <2>2
    <3> HIDE DEF b
    <3>2. v[2 * b - 1] = V0Step(y, 2 * b, j)
      BY <1>8, <3>1
    <3>3. row[1 + (2 * b - 1)] = v[2 * b - 1]
      BY <1>11, <3>1
    <3> QED BY <3>1, <3>2, <3>3
  <2>3. CASE q # 1 /\ q % 2 = 1
    <3>1. b \in 1 .. n /\ 2 * b + 1 = q /\ 2 * b \in 1 .. 2 * n /\ 1 + 2 * b = q
      BY <2>3
    <3> HIDE DEF b
    <3>2. v[2 * b] = V0Step(y, 2 * b + 1, j)
      BY <1>8, <3>1
    <3>3. row[1 + 2 * b] = v[2 * b]
      BY <1>11, <3>1
    <3> QED BY <3>1, <3>2, <3>3
  <2>4. q % 2 \in {0, 1}
    OBVIOUS
  <2> QED BY <2>1, <2>2, <2>3, <2>4
<1>13. DOMAIN row = 1 .. 2 * n + 1
  BY <1>11 DEF IsSlice
<1>14. row = [q \in DOMAIN row |-> row[q]]
  <2>1. IsList(row)
    BY Zenon, <1>1, <1>4, <1>9, ListsJoined
  <2> QED BY <1>11, <2>1 DEF IsList, IsSlice
<1>15. row = [q \in 1 .. 2 * n + 1 |-> V0Step(y, q, j)]
  BY <1>12, <1>13, <1>14
<1> QED BY <1>15 DEF row

(* Steps that only read, behind a plain slice that has written the image.              *)
OnlyReads(j, v) ==
  \A i \in 1 .. Len(v) :
    /\ PlainStep(v[i]) /\ v[i].writes = {} /\ v[i].takes = {} /\ v[i].loads = {}
    /\ v[i].reads \subseteq Samples(j)

LEMMA PlainSlice ==
  ASSUME NEW j, NEW s, IsSlice(s), \A k \in 1 .. Len(s) : StepIsPlain(j, s, k),
         \A k, l \in 1 .. Len(s) : k # l => s[k].writes \cap s[l].writes = {} /\ s[k].takes \cap s[l].takes = {},
         \A p \in Samples(j) : \E k \in 1 .. Len(s) : p \in s[k].writes
  PROVE  Plain(j, << s >>)
<1> DEFINE plan == << s >>
<1>1. DOMAIN plan = {1} /\ plan[1] = s /\ DOMAIN s = 1 .. Len(s)
  BY DEF IsSlice
<1> HIDE DEF plan
<1>2. WritesApart(plan) /\ TakesApart(plan)
  <2> SUFFICES ASSUME NEW a \in DOMAIN plan, NEW b \in DOMAIN plan, NEW k \in DOMAIN plan[a],
                      NEW l \in DOMAIN plan[b], <<a, k>> # <<b, l>>
               PROVE  /\ plan[a][k].writes \cap plan[b][l].writes = {}
                      /\ plan[a][k].takes \cap plan[b][l].takes = {}
    BY DEF WritesApart, TakesApart
  <2>1. a = 1 /\ b = 1
    BY <1>1
  <2>2. k \in 1 .. Len(s) /\ l \in 1 .. Len(s) /\ k # l
    BY <1>1, <2>1
  <2> QED BY <1>1, <2>1, <2>2
<1>3. WritesCover(j, plan)
  <2> SUFFICES ASSUME NEW p \in Samples(j)
               PROVE  \E a \in DOMAIN plan : \E k \in DOMAIN plan[a] : p \in plan[a][k].writes
    BY DEF WritesCover
  <2>1. PICK k \in 1 .. Len(s) : p \in s[k].writes
    OBVIOUS
  <2>2. 1 \in DOMAIN plan /\ k \in DOMAIN plan[1] /\ p \in plan[1][k].writes
    BY <1>1, <2>1
  <2> QED BY <2>2
<1>4. 0 \notin DOMAIN plan
  BY <1>1
<1>5. \A a \in DOMAIN plan : IsSlice(plan[a]) /\ \A k \in DOMAIN plan[a] : StepIsPlain(j, plan[a], k)
  BY <1>1
<1>6. Plain(j, plan)
  BY <1>2, <1>3, <1>4, <1>5 DEF Plain
<1> QED BY <1>6 DEF plan

LEMMA AppendReads ==
  ASSUME NEW j, NEW s, NEW v, NEW t, Plain(j, << s >>), IsList(s), IsList(v), t = s \o v, OnlyReads(j, v)
  PROVE  Plain(j, << t >>)
<1> DEFINE n == Len(s)
           l == Len(v)
<1>1. Joins(t, s, v)
  BY Zenon, JoinedLists
<1>2. n \in Nat /\ l \in Nat
  BY DEF IsList, IsSlice
<1>3. /\ IsSlice(t) /\ Len(t) = n + l
      /\ \A k \in 1 .. n : t[k] = s[k]
      /\ \A k \in 1 .. l : t[n + k] = v[k]
  BY <1>1 DEF Joins
<1>4. /\ \A k \in 1 .. n : StepIsPlain(j, s, k)
      /\ \A k \in 1 .. n : \A m \in 1 .. n : k # m =>
           s[k].writes \cap s[m].writes = {} /\ s[k].takes \cap s[m].takes = {}
      /\ \A p \in Samples(j) : \E k \in 1 .. n : p \in s[k].writes
  <2> DEFINE plan == << s >>
  <2>1. DOMAIN plan = {1} /\ plan[1] = s /\ Plain(j, plan)
    OBVIOUS
  <2>2. DOMAIN s = 1 .. n
    BY DEF IsList, IsSlice
  <2> HIDE DEF plan, n
  <2>3. \A k \in 1 .. n : StepIsPlain(j, s, k)
    BY <2>1, <2>2 DEF Plain
  <2>4. \A k \in 1 .. n : \A m \in 1 .. n : k # m =>
          s[k].writes \cap s[m].writes = {} /\ s[k].takes \cap s[m].takes = {}
    <3> SUFFICES ASSUME NEW k \in 1 .. n, NEW m \in 1 .. n, k # m
                 PROVE  s[k].writes \cap s[m].writes = {} /\ s[k].takes \cap s[m].takes = {}
      OBVIOUS
    <3>1. <<1, k>> # <<1, m>> /\ 1 \in DOMAIN plan /\ k \in DOMAIN plan[1] /\ m \in DOMAIN plan[1]
      BY <2>1, <2>2
    <3>2. WritesApart(plan) /\ TakesApart(plan)
      BY <2>1 DEF Plain
    <3>3. /\ plan[1][k].writes \cap plan[1][m].writes = {}
          /\ plan[1][k].takes \cap plan[1][m].takes = {}
      BY <3>1, <3>2 DEF WritesApart, TakesApart
    <3> QED BY <2>1, <3>3
  <2>5. \A p \in Samples(j) : \E k \in 1 .. n : p \in s[k].writes
    BY <2>1, <2>2 DEF Plain, WritesCover
  <2> QED BY <2>3, <2>4, <2>5
<1>5. \A k \in 1 .. n + l : k \in 1 .. n \/ (k > n /\ k - n \in 1 .. l /\ n + (k - n) = k)
  BY <1>2
<1> HIDE DEF n, l
<1>6. ASSUME NEW k \in 1 .. n + l, k > n
      PROVE  /\ PlainStep(t[k]) /\ t[k].writes = {} /\ t[k].takes = {} /\ t[k].loads = {}
             /\ t[k].reads \subseteq Samples(j)
  <2>1. k - n \in 1 .. l /\ n + (k - n) = k
    BY <1>2, <1>6
  <2>2. t[k] = v[k - n]
    BY <1>3, <2>1
  <2> QED BY <2>1, <2>2 DEF OnlyReads, l
<1>7. ASSUME NEW k \in 1 .. n + l PROVE StepIsPlain(j, t, k)
  <2>1. CASE k \in 1 .. n
    <3>1. \A i \in 1 .. k - 1 : i \in 1 .. n
      BY <1>2, <2>1
    <3>2. WrittenBefore(t, k) = WrittenBefore(s, k)
      BY <1>3, <3>1 DEF WrittenBefore
    <3>3. t[k] = s[k] /\ StepIsPlain(j, s, k)
      BY <1>3, <1>4, <2>1
    <3> QED BY <3>2, <3>3 DEF StepIsPlain
  <2>2. CASE k > n
    <3>1. \A i \in 1 .. n : i \in 1 .. k - 1
      BY <1>2, <2>2
    <3>2. Samples(j) \subseteq WrittenBefore(t, k)
      <4> SUFFICES ASSUME NEW p \in Samples(j) PROVE p \in WrittenBefore(t, k)
        OBVIOUS
      <4>1. PICK i \in 1 .. n : p \in s[i].writes
        BY <1>4
      <4>2. p \in t[i].writes /\ i \in 1 .. k - 1
        BY <1>3, <3>1, <4>1
      <4> QED BY <4>2 DEF WrittenBefore
    <3> QED BY <1>6, <2>2, <3>2 DEF StepIsPlain
  <2> QED BY <1>5, <2>1, <2>2
<1>8. ASSUME NEW k \in 1 .. n + l, NEW m \in 1 .. n + l, k # m
      PROVE  t[k].writes \cap t[m].writes = {} /\ t[k].takes \cap t[m].takes = {}
  <2>1. CASE k \in 1 .. n /\ m \in 1 .. n
    BY <1>3, <1>4, <1>8, <2>1
  <2>2. CASE k > n
    BY <1>6, <2>2
  <2>3. CASE m > n
    BY <1>6, <2>3
  <2> QED BY <1>5, <2>1, <2>2, <2>3
<1>9. ASSUME NEW p \in Samples(j) PROVE \E k \in 1 .. n + l : p \in t[k].writes
  <2>1. PICK k \in 1 .. n : p \in s[k].writes
    BY <1>4
  <2>2. k \in 1 .. n + l /\ t[k] = s[k]
    BY <1>2, <1>3
  <2> QED BY <2>1, <2>2
<1>10. /\ IsSlice(t) /\ \A k \in 1 .. Len(t) : StepIsPlain(j, t, k)
       /\ \A k, m \in 1 .. Len(t) : k # m => t[k].writes \cap t[m].writes = {} /\ t[k].takes \cap t[m].takes = {}
       /\ \A p \in Samples(j) : \E k \in 1 .. Len(t) : p \in t[k].writes
  BY <1>3, <1>7, <1>8, <1>9
<1> QED BY <1>10, PlainSlice

(* The columns of step q.                                                          *)
V0Columns(q, w) == {u \in 0 .. w - 1 : u \div 16 = (q \div 2) - 1 /\ u % 2 = q % 2}

LEMMA V0HalfIs ==
  ASSUME NEW j, j.w \in Nat, NEW y, NEW q \in Nat, q >= 2
  PROVE  V0Half(y, V0Place(q), q % 2, j) = {<<y, u>> : u \in V0Columns(q, j.w)}
<1> DEFINE b == (q \div 2) - 1
           x == 16 * b
<1>1. b \in Nat /\ V0Place(q) = x
  BY DEF V0Place
<1> HIDE DEF b
<1>2. ASSUME NEW d \in 0 .. 15, d % 2 = q % 2, x + d < j.w PROVE x + d \in V0Columns(q, j.w)
  <2>1. (x + d) \div 16 = b /\ (x + d) % 2 = d % 2 /\ x + d \in 0 .. j.w - 1
    BY <1>1, <1>2
  <2> QED BY <1>2, <2>1 DEF V0Columns, b
<1>3. ASSUME NEW u \in V0Columns(q, j.w)
      PROVE  \E d \in 0 .. 15 : d % 2 = q % 2 /\ x + d < j.w /\ u = x + d
  <2>1. u \in 0 .. j.w - 1 /\ u \div 16 = b /\ u % 2 = q % 2
    BY DEF V0Columns, b
  <2> DEFINE d == u % 16
  <2>2. d \in 0 .. 15 /\ u = 16 * b + d /\ d % 2 = u % 2
    BY <2>1
  <2> HIDE DEF d
  <2>3. d \in 0 .. 15 /\ d % 2 = q % 2 /\ x + d < j.w /\ u = x + d
    BY <1>1, <2>1, <2>2
  <2> HIDE DEF x
  <2> QED BY <2>3
<1> HIDE DEF x
<1>4. V0Half(y, x, q % 2, j) = {<<y, u>> : u \in V0Columns(q, j.w)}
  <2>1. ASSUME NEW c \in V0Half(y, x, q % 2, j) PROVE c \in {<<y, u>> : u \in V0Columns(q, j.w)}
    BY <1>2 DEF V0Half
  <2>2. ASSUME NEW u \in V0Columns(q, j.w) PROVE <<y, u>> \in V0Half(y, x, q % 2, j)
    BY <1>3 DEF V0Half
  <2> QED BY <2>1, <2>2
<1> QED BY <1>1, <1>4

LEMMA V0ColumnsApart ==
  ASSUME NEW w \in Nat, NEW q \in Nat, NEW b \in Nat, q # b
  PROVE  V0Columns(q, w) \cap V0Columns(b, w) = {}
<1> SUFFICES ASSUME NEW u, u \in V0Columns(q, w), u \in V0Columns(b, w) PROVE FALSE
  OBVIOUS
<1>1. (q \div 2) - 1 = (b \div 2) - 1 /\ q % 2 = b % 2
  BY DEF V0Columns
<1>2. q = 2 * (q \div 2) + (q % 2) /\ b = 2 * (b \div 2) + (b % 2)
  OBVIOUS
<1> QED BY <1>1, <1>2

LEMMA V0ColumnsCover ==
  ASSUME NEW w \in Nat, NEW n \in Nat, w <= 16 * n, NEW u \in 0 .. w - 1
  PROVE  \E q \in 2 .. 2 * n + 1 : u \in V0Columns(q, w)
<1> DEFINE b == u \div 16
           q == 2 * b + 2 + (u % 2)
<1>1. b \in 0 .. n - 1
  OBVIOUS
<1>2. u % 2 \in {0, 1}
  OBVIOUS
<1> HIDE DEF b
<1>3. q \in 2 .. 2 * n + 1 /\ q \div 2 = b + 1 /\ q % 2 = u % 2
  BY <1>1, <1>2
<1>4. u \in V0Columns(q, w)
  BY <1>1, <1>3 DEF V0Columns, b
<1> QED BY <1>3, <1>4

(* The inputs of the rows, as the offsets grow, are apart and inside the buffer.         *)
V0Ends(j) == Append(j.offsets, j.size)

LEMMA V0InputIs ==
  ASSUME NEW j, IsImage(j), j.offsets \in Seq(Nat), SamsungV0Accepts(j)
  PROVE  /\ \A y \in 0 .. j.h - 1 : SamsungV0Input(y, j) \subseteq 0 .. j.size - 1
         /\ \A y, z \in 0 .. j.h - 1 : y # z => SamsungV0Input(y, j) \cap SamsungV0Input(z, j) = {}
<1> DEFINE h == j.h
           off == [i \in 0 .. h |-> V0Ends(j)[i + 1]]
<1>1. h \in Nat /\ j.size \in Nat /\ Len(j.offsets) = h
  BY DEF IsImage, SamsungV0Accepts
<1>2. /\ V0Ends(j) \in Seq(Nat) /\ Len(V0Ends(j)) = h + 1 /\ V0Ends(j)[h + 1] = j.size
      /\ \A i \in 1 .. h : V0Ends(j)[i] = j.offsets[i]
  BY <1>1 DEF V0Ends
<1>3. off \in [0 .. h -> Nat] /\ \A i \in 0 .. h : off[i] = V0Ends(j)[i + 1]
  <2>1. \A i \in 0 .. h : V0Ends(j)[i + 1] \in Nat
    BY <1>1, <1>2
  <2> QED BY <2>1
<1> HIDE DEF off, h
<1>4. \A i \in 1 .. h : off[i - 1] < off[i]
  <2> TAKE i \in 1 .. h
  <2>1. i - 1 \in 0 .. h /\ i \in 0 .. h /\ (i - 1) + 1 = i
    BY <1>1
  <2>2. V0Ends(j)[i] < V0Ends(j)[i + 1]
    BY DEF SamsungV0Accepts, V0Ends, h
  <2> QED BY <1>3, <2>1, <2>2
<1>5. \A i \in 0 .. h : \A a \in 0 .. i : off[a] <= off[i]
  <2>1. \A i \in 1 .. h : off[i - 1] <= off[i]
    <3> TAKE i \in 1 .. h
    <3>1. i - 1 \in 0 .. h /\ i \in 0 .. h
      BY <1>1
    <3>2. off[i - 1] \in Nat /\ off[i] \in Nat /\ off[i - 1] < off[i]
      BY <1>3, <1>4, <3>1
    <3> QED BY <3>2
  <2> QED BY <1>1, <1>3, <2>1, GrowingOffsets
<1>6. \A y \in 0 .. h - 1 : SamsungV0Input(y, j) = off[y] .. off[y + 1] - 1
  <2> TAKE y \in 0 .. h - 1
  <2>1. y \in 0 .. h /\ y + 1 \in 0 .. h /\ y + 1 \in 1 .. h /\ (y + 1) + 1 = y + 2
    BY <1>1
  <2>2. off[y] = j.offsets[y + 1] /\ off[y + 1] = V0Ends(j)[y + 2]
    BY <1>2, <1>3, <2>1
  <2> QED BY <2>2 DEF SamsungV0Input, V0Ends
<1>7. off[h] = j.size
  <2>1. h \in 0 .. h
    BY <1>1
  <2> QED BY <1>2, <1>3, <2>1
<1>8. \A y \in 0 .. h - 1 : SamsungV0Input(y, j) \subseteq 0 .. j.size - 1
  <2> TAKE y \in 0 .. h - 1
  <2>1. y \in 0 .. h /\ y + 1 \in 0 .. h /\ h \in 0 .. h /\ y + 1 \in 0 .. h
    BY <1>1
  <2>2. off[y + 1] <= off[h] /\ off[y] \in Nat /\ off[y + 1] \in Nat
    BY <1>3, <1>5, <2>1
  <2>3. SamsungV0Input(y, j) = off[y] .. off[y + 1] - 1
    BY <1>6
  <2> DEFINE a == off[y]
             b == off[y + 1]
  <2>4. a \in Nat /\ b \in Nat /\ b <= j.size /\ SamsungV0Input(y, j) = a .. b - 1
    BY <1>7, <2>2, <2>3
  <2> HIDE DEF a, b
  <2> QED BY <1>1, <2>4
<1>9. ASSUME NEW y \in 0 .. h - 1, NEW z \in 0 .. h - 1, y < z
      PROVE  SamsungV0Input(y, j) \cap SamsungV0Input(z, j) = {}
  <2>1. y + 1 \in 0 .. z /\ y \in 0 .. h /\ z \in 0 .. h /\ y + 1 \in 0 .. h /\ z + 1 \in 0 .. h
    BY <1>1, <1>9
  <2>2. off[y + 1] <= off[z]
    BY <1>5, <2>1
  <2>3. off[y] \in Nat /\ off[z] \in Nat /\ off[y + 1] \in Nat /\ off[z + 1] \in Nat
    BY <1>3, <2>1
  <2>4. SamsungV0Input(y, j) = off[y] .. off[y + 1] - 1 /\ SamsungV0Input(z, j) = off[z] .. off[z + 1] - 1
    BY <1>6
  <2>5. \A a, b, c, d \in Nat : b <= c => (a .. b - 1) \cap (c .. d - 1) = {}
    OBVIOUS
  <2> QED BY <2>2, <2>3, <2>4, <2>5
<1>10. ASSUME NEW y \in 0 .. h - 1, NEW z \in 0 .. h - 1, y # z
       PROVE  SamsungV0Input(y, j) \cap SamsungV0Input(z, j) = {}
  <2>1. CASE y < z
    BY <1>9, <2>1
  <2>2. CASE z < y
    BY <1>9, <2>2
  <2> QED BY <1>1, <1>10, <2>1, <2>2
<1> QED BY <1>8, <1>10 DEF h

(* What the steps of the grid are.                                                  *)
V0Fields(j, rows, h, m) ==
  \A i \in 1 .. h : \A q \in 1 .. m :
    /\ PlainStep(rows[i][q]) /\ rows[i][q].loads = {}
    /\ q = 1 => /\ rows[i][q].writes = {} /\ rows[i][q].reads = {}
                /\ rows[i][q].takes = SamsungV0Input(i - 1, j)
    /\ q # 1 => /\ rows[i][q].writes = {<<i - 1, u>> : u \in V0Columns(q, j.w)}
                /\ rows[i][q].reads = V0Reads(i - 1, V0Place(q), q % 2, j)
                /\ rows[i][q].takes = {}

LEMMA V0FieldsAre ==
  ASSUME NEW j, j.w \in Nat, NEW h \in Nat, NEW m \in Nat, NEW rows,
         \A i \in 1 .. h : \A q \in 1 .. m : rows[i][q] = V0Step(i - 1, q, j)
  PROVE  V0Fields(j, rows, h, m)
<1> SUFFICES ASSUME NEW i \in 1 .. h, NEW q \in 1 .. m
             PROVE  /\ PlainStep(rows[i][q]) /\ rows[i][q].loads = {}
                    /\ q = 1 => /\ rows[i][q].writes = {} /\ rows[i][q].reads = {}
                                /\ rows[i][q].takes = SamsungV0Input(i - 1, j)
                    /\ q # 1 => /\ rows[i][q].writes = {<<i - 1, u>> : u \in V0Columns(q, j.w)}
                                /\ rows[i][q].reads = V0Reads(i - 1, V0Place(q), q % 2, j)
                                /\ rows[i][q].takes = {}
  BY DEF V0Fields
<1> DEFINE half == V0Half(i - 1, V0Place(q), q % 2, j)
           reads == V0Reads(i - 1, V0Place(q), q % 2, j)
           takes == SamsungV0Input(i - 1, j)
           step == rows[i][q]
<1>1. step = IF q = 1 THEN Step({}, {}, takes) ELSE Step(half, reads, {})
  BY DEF V0Step
<1>2. q # 1 => half = {<<i - 1, u>> : u \in V0Columns(q, j.w)}
  <2> SUFFICES ASSUME q # 1 PROVE half = {<<i - 1, u>> : u \in V0Columns(q, j.w)}
    OBVIOUS
  <2>1. q \in Nat /\ q >= 2
    OBVIOUS
  <2> QED BY <2>1, V0HalfIs
<1> HIDE DEF half, reads, takes, step
<1>3. CASE q = 1
  <2>1. step = Step({}, {}, takes)
    BY <1>1, <1>3
  <2>2. PlainStep(step) /\ step.loads = {} /\ step.writes = {} /\ step.reads = {} /\ step.takes = takes
    BY <2>1, StepFields
  <2> QED BY <1>3, <2>2 DEF step, takes
<1>4. CASE q # 1
  <2>1. step = Step(half, reads, {})
    BY <1>1, <1>4
  <2>2. PlainStep(step) /\ step.loads = {} /\ step.writes = half /\ step.reads = reads /\ step.takes = {}
    BY <2>1, StepFields
  <2> QED BY <1>2, <1>4, <2>2 DEF step, reads
<1> QED BY <1>3, <1>4

LEMMA V0ReadsAreThere ==
  ASSUME NEW j, IsImage(j), NEW n \in Nat, NEW m, m = 2 * n + 1, NEW rows,
         V0Fields(j, rows, j.h, m), GridCover(j, rows, j.h, m), 16 * (n - 1) < j.w,
         NEW i \in 1 .. j.h, NEW q \in 1 .. m
  PROVE  GridReads(rows, i, q, m)
<1> DEFINE reads == V0Reads(i - 1, V0Place(q), q % 2, j)
           b == q \div 2
           r == q % 2
           x == V0Place(q)
<1>1. j.h \in Nat /\ j.w \in Nat /\ m \in Nat /\ q \in Nat /\ i \in Nat
  BY DEF IsImage
<1>2. CASE q = 1
  <2>1. rows[i][q].reads = {}
    BY <1>2 DEF V0Fields
  <2> QED BY <2>1 DEF GridReads
<1>3. CASE q # 1
  <2>1. rows[i][q].reads = reads
    BY <1>3 DEF V0Fields
  <2>2. x = 16 * (b - 1)
    BY DEF V0Place
  <2>3. b \in 1 .. n /\ r \in 0 .. 1 /\ q = 2 * b + r
    BY <1>1, <1>3
  <2> HIDE DEF b, r, x
  <2>4. ASSUME NEW c \in reads
        PROVE  \/ \E k \in 1 .. q - 1 : c \in rows[i][k].writes
               \/ \E a \in 1 .. i - 1 : \E k \in 1 .. m : c \in rows[a][k].writes
    <3>0. c \in V0Reads(i - 1, x, r, j)
      BY <2>4 DEF r, x
    <3>1. CASE j.up /\ MayGoUp(i - 1, x, j)
      <4>1. i - 1 >= 2
        BY <3>1 DEF MayGoUp
      <4>2. c \in {<<p[1] - 1 - r, p[2]>> : p \in V0Half(i - 1, x, r, j)}
        BY <3>0, <3>1 DEF V0Reads
      <4>3. V0Half(i - 1, x, r, j) = {<<i - 1, u>> : u \in V0Columns(q, j.w)}
        <5>1. q >= 2
          BY <1>1, <1>3
        <5> QED BY <1>1, <5>1, V0HalfIs DEF x, r
      <4>4. PICK u \in V0Columns(q, j.w) : c = <<i - 1 - 1 - r, u>>
        BY <4>2, <4>3
      <4> DEFINE v == i - 2 - r
      <4>5. v \in 0 .. j.h - 1 /\ v + 1 \in 1 .. i - 1 /\ c = <<v, u>>
        BY <1>1, <2>3, <4>1, <4>4
      <4> HIDE DEF v
      <4>6. u \in 0 .. j.w - 1
        BY DEF V0Columns
      <4>7. PICK a \in 1 .. j.h : \E k \in 1 .. m : <<v, u>> \in rows[a][k].writes
        BY <4>5, <4>6 DEF GridCover
      <4>8. PICK k \in 1 .. m : <<v, u>> \in rows[a][k].writes
        BY <4>7
      <4>9. k # 1
        BY <4>8 DEF V0Fields
      <4>10. a - 1 = v
        <5>1. rows[a][k].writes = {<<a - 1, z>> : z \in V0Columns(k, j.w)}
          BY <4>9 DEF V0Fields
        <5> QED BY <4>8, <5>1
      <4>11. a \in 1 .. i - 1
        BY <1>1, <4>5, <4>10
      <4> QED BY <4>5, <4>8, <4>11
    <3>2. CASE ~(j.up /\ MayGoUp(i - 1, x, j))
      <4>1. x # 0 /\ c = <<i - 1, x - 2 + r>>
        BY <3>0, <3>2 DEF V0Reads
      <4> DEFINE u == x - 2 + r
                 k == q - 2
      <4>2. b >= 2
        BY <2>2, <2>3, <4>1
      <4>3. /\ u \in 0 .. j.w - 1 /\ u \div 16 = b - 2 /\ u % 2 = r
            /\ k \in 1 .. q - 1 /\ k \in 1 .. m /\ k # 1 /\ k \div 2 = b - 1 /\ k % 2 = r
        BY <1>1, <2>2, <2>3, <4>2
      <4> HIDE DEF u, k
      <4>4. u \in V0Columns(k, j.w)
        BY <2>3, <4>2, <4>3 DEF V0Columns
      <4>5. rows[i][k].writes = {<<i - 1, z>> : z \in V0Columns(k, j.w)}
        BY <4>3 DEF V0Fields
      <4>6. c \in rows[i][k].writes
        BY <4>1, <4>4, <4>5 DEF u
      <4> QED BY <4>3, <4>6
    <3> QED BY <3>1, <3>2
  <2> QED BY <2>1, <2>4 DEF GridReads
<1> QED BY <1>2, <1>3

LEMMA V0GridIsPlain ==
  ASSUME NEW j, IsImage(j), j.offsets \in Seq(Nat), SamsungV0Accepts(j), NEW n \in Nat,
         16 * (n - 1) < j.w, j.w <= 16 * n, NEW rows, V0Fields(j, rows, j.h, 2 * n + 1)
  PROVE  /\ GridPlain(j, rows, j.h, 2 * n + 1) /\ GridApart(rows, j.h, 2 * n + 1)
         /\ GridCover(j, rows, j.h, 2 * n + 1)
<1> DEFINE m == 2 * n + 1
           h == j.h
<1>1. h \in Nat /\ j.w \in Nat /\ m \in Nat /\ m = 2 * n + 1 /\ V0Fields(j, rows, h, m)
  BY DEF IsImage
<1> HIDE DEF m
<1>2. /\ \A y \in 0 .. h - 1 : SamsungV0Input(y, j) \subseteq 0 .. j.size - 1
      /\ \A y, z \in 0 .. h - 1 : y # z => SamsungV0Input(y, j) \cap SamsungV0Input(z, j) = {}
  BY V0InputIs
<1>3. GridCover(j, rows, h, m)
  <2> SUFFICES ASSUME NEW y \in 0 .. j.h - 1, NEW u \in 0 .. j.w - 1
               PROVE  \E i \in 1 .. h : \E q \in 1 .. m : <<y, u>> \in rows[i][q].writes
    BY DEF GridCover
  <2>1. PICK q \in 2 .. 2 * n + 1 : u \in V0Columns(q, j.w)
    BY <1>1, V0ColumnsCover
  <2>2. q \in 1 .. m /\ q # 1 /\ y + 1 \in 1 .. h /\ (y + 1) - 1 = y
    BY <1>1
  <2>3. rows[y + 1][q].writes = {<<y + 1 - 1, z>> : z \in V0Columns(q, j.w)}
    BY <1>1, <2>2 DEF V0Fields
  <2>4. <<y, u>> \in rows[y + 1][q].writes
    BY <2>1, <2>2, <2>3
  <2> QED BY <2>2, <2>4
<1>4. GridPlain(j, rows, h, m)
  <2> SUFFICES ASSUME NEW i \in 1 .. h, NEW q \in 1 .. m
               PROVE  /\ PlainStep(rows[i][q])
                      /\ rows[i][q].writes \subseteq Samples(j) /\ rows[i][q].loads \subseteq Samples(j.source)
                      /\ rows[i][q].takes \subseteq 0 .. j.size - 1
                      /\ GridReads(rows, i, q, m)
    BY DEF GridPlain
  <2>1. PlainStep(rows[i][q]) /\ rows[i][q].loads = {}
    BY <1>1 DEF V0Fields
  <2>2. i - 1 \in 0 .. h - 1
    BY <1>1
  <2>3. rows[i][q].writes \subseteq Samples(j)
    <3>1. CASE q = 1
      BY <1>1, <3>1 DEF V0Fields
    <3>2. CASE q # 1
      <4>1. rows[i][q].writes = {<<i - 1, z>> : z \in V0Columns(q, j.w)}
        BY <1>1, <3>2 DEF V0Fields
      <4>2. V0Columns(q, j.w) \subseteq 0 .. j.w - 1
        BY DEF V0Columns
      <4> QED BY <2>2, <4>1, <4>2 DEF Samples
    <3> QED BY <3>1, <3>2
  <2>4. rows[i][q].takes \subseteq 0 .. j.size - 1
    <3>1. rows[i][q].takes = SamsungV0Input(i - 1, j) \/ rows[i][q].takes = {}
      BY <1>1 DEF V0Fields
    <3> QED BY <1>2, <2>2, <3>1
  <2>5. GridReads(rows, i, q, m)
    BY <1>1, <1>3, V0ReadsAreThere
  <2> QED BY <2>1, <2>3, <2>4, <2>5
<1>5. GridApart(rows, h, m)
  <2> SUFFICES ASSUME NEW i \in 1 .. h, NEW a \in 1 .. h, NEW q \in 1 .. m, NEW k \in 1 .. m,
                      <<i, q>> # <<a, k>>
               PROVE  /\ rows[i][q].writes \cap rows[a][k].writes = {}
                      /\ rows[i][q].takes \cap rows[a][k].takes = {}
    BY DEF GridApart
  <2>1. q \in Nat /\ k \in Nat /\ i - 1 \in 0 .. h - 1 /\ a - 1 \in 0 .. h - 1 /\ (i # a => i - 1 # a - 1)
    BY <1>1
  <2>2. rows[i][q].writes \cap rows[a][k].writes = {}
    <3>1. CASE q = 1 \/ k = 1
      BY <1>1, <3>1 DEF V0Fields
    <3>2. CASE q # 1 /\ k # 1
      <4>1. /\ rows[i][q].writes = {<<i - 1, z>> : z \in V0Columns(q, j.w)}
            /\ rows[a][k].writes = {<<a - 1, z>> : z \in V0Columns(k, j.w)}
        BY <1>1, <3>2 DEF V0Fields
      <4>2. q # k => V0Columns(q, j.w) \cap V0Columns(k, j.w) = {}
        BY <1>1, <2>1, V0ColumnsApart
      <4> QED BY <2>1, <4>1, <4>2
    <3> QED BY <3>1, <3>2
  <2>3. rows[i][q].takes \cap rows[a][k].takes = {}
    <3>1. CASE q # 1 \/ k # 1
      BY <1>1, <3>1 DEF V0Fields
    <3>2. CASE q = 1 /\ k = 1
      <4>1. rows[i][q].takes = SamsungV0Input(i - 1, j) /\ rows[a][k].takes = SamsungV0Input(a - 1, j)
        BY <1>1, <3>2 DEF V0Fields
      <4>2. i # a
        BY <3>2
      <4> QED BY <1>2, <2>1, <4>1, <4>2
    <3> QED BY <3>1, <3>2
  <2> QED BY <2>2, <2>3
<1> QED BY <1>3, <1>4, <1>5 DEF m

LEMMA SamsungV0IsPlain ==
  ASSUME NEW j, IsImage(j), j.offsets \in Seq(Nat), SamsungV0Accepts(j)
  PROVE  Plain(j, SamsungV0Work(j))
<1> DEFINE n == CeilDiv(j.w, 16)
           m == 2 * n + 1
           rows == [i \in 1 .. j.h |-> V0Row(i - 1, j)]
           s == FlattenSeq(rows)
           l == j.h \div 2
           Swapped(i) == {<<2 * (i - 1), 2 * k + 1>> : k \in 0 .. j.w \div 2 - 1} \cup
                         {<<2 * (i - 1) + 1, 2 * k>> : k \in 0 .. j.w \div 2 - 1}
           v == [i \in 1 .. l |-> Read(Swapped(i))]
           t == s \o v
<1>1. j.w \in Nat \ {0} /\ j.h \in Nat \ {0} /\ l \in Nat
  BY DEF IsImage, SamsungV0Accepts, NotEmpty
<1>2. SamsungV0Work(j) = << t >>
  BY DEF SamsungV0Work, ForEach, V0Row
<1>3. n \in Nat \ {0} /\ (n - 1) * 16 < j.w /\ j.w <= n * 16
  <2>1. BlocksOf(n, j.w, 16)
    BY <1>1, CeilDivIs
  <2> HIDE DEF n
  <2> QED BY <2>1 DEF BlocksOf
<1>4. \A i \in 1 .. j.h : rows[i] = [q \in 1 .. 2 * n + 1 |-> V0Step(i - 1, q, j)]
  <2> SUFFICES ASSUME NEW i \in 1 .. j.h PROVE V0Row(i - 1, j) = [q \in 1 .. 2 * n + 1 |-> V0Step(i - 1, q, j)]
    OBVIOUS
  <2>1. n \in Nat \ {0} /\ n = CeilDiv(j.w, 16)
    BY <1>3
  <2> QED BY Zenon, <2>1, V0RowIs
<1>5. DOMAIN rows = 1 .. j.h
  OBVIOUS
<1> HIDE DEF n, rows
<1>6. m \in Nat /\ m = 2 * n + 1 /\ 16 * (n - 1) < j.w /\ j.w <= 16 * n
  BY <1>1, <1>3
<1> HIDE DEF m
<1>7. \A i \in 1 .. j.h : \A q \in 1 .. m : rows[i][q] = V0Step(i - 1, q, j)
  BY <1>4, <1>6
<1>8. Grid(rows, j.h, m)
  BY <1>4, <1>5, <1>6 DEF Grid
<1>9. V0Fields(j, rows, j.h, m)
  BY <1>1, <1>6, <1>7, V0FieldsAre
<1>10. GridPlain(j, rows, j.h, m) /\ GridApart(rows, j.h, m) /\ GridCover(j, rows, j.h, m)
  <2>1. n \in Nat /\ V0Fields(j, rows, j.h, 2 * n + 1)
    BY <1>3, <1>6, <1>9
  <2>2. /\ GridPlain(j, rows, j.h, 2 * n + 1) /\ GridApart(rows, j.h, 2 * n + 1)
        /\ GridCover(j, rows, j.h, 2 * n + 1)
    BY Zenon, <1>6, <2>1, V0GridIsPlain
  <2> QED BY <1>6, <2>2
<1>11. Plain(j, << s >>)
  BY <1>1, <1>6, <1>8, <1>10, GridPlan
<1>12. IsList(s)
  <2>1. \A i \in 1 .. j.h : IsList(rows[i])
    BY <1>6, <1>8, ListIs DEF Grid
  <2>2. AreLists(rows, j.h)
    BY <1>5, <2>1 DEF AreLists
  <2>3. PICK off : Concatenates(s, rows, j.h, off)
    BY Zenon, <1>1, <2>2, Flattened
  <2> QED BY <2>3 DEF Concatenates
<1> HIDE DEF s
<1>13. IsList(v) /\ Len(v) = l /\ OnlyReads(j, v)
  <2>1. v = [i \in 1 .. l |-> v[i]] /\ \A i \in 1 .. l : v[i] = Read(Swapped(i))
    OBVIOUS
  <2>2. ASSUME NEW i \in 1 .. l PROVE Swapped(i) \subseteq Samples(j)
    <3>1. 2 * (i - 1) \in 0 .. j.h - 1 /\ 2 * (i - 1) + 1 \in 0 .. j.h - 1
      BY <1>1
    <3>2. \A k \in 0 .. j.w \div 2 - 1 : 2 * k + 1 \in 0 .. j.w - 1 /\ 2 * k \in 0 .. j.w - 1
      BY <1>1
    <3> QED BY <3>1, <3>2 DEF Samples
  <2> HIDE DEF v, Swapped, l
  <2>3. IsList(v) /\ Len(v) = l
    BY <1>1, <2>1, ListIs
  <2>4. \A i \in 1 .. l : /\ PlainStep(v[i]) /\ v[i].writes = {} /\ v[i].takes = {} /\ v[i].loads = {}
                          /\ v[i].reads = Swapped(i)
    <3> TAKE i \in 1 .. l
    <3>1. v[i] = Step({}, Swapped(i), {})
      BY <2>1 DEF Read
    <3> QED BY <3>1, StepFields
  <2> QED BY <2>2, <2>3, <2>4 DEF OnlyReads
<1> HIDE DEF v
<1>14. Plain(j, << t >>)
  BY Zenon, <1>11, <1>12, <1>13, AppendReads
<1> QED BY <1>2, <1>14
-----------------------------------------------------------------------------
(* DNG: how the tiles of an image, of cpp samples per pixel, divide it.                 *)
IsTiled(j) ==
  /\ j.w \in Nat \ {0} /\ j.h \in Nat \ {0} /\ j.size \in Nat
  /\ j.cpp \in Nat \ {0} /\ j.w % j.cpp = 0
  /\ j.tileW \in Nat /\ j.tileH \in Nat

TileCells(t, j) ==
  {<<y, x>> : y \in t.y .. t.y + t.h - 1, x \in j.cpp * t.x .. j.cpp * (t.x + t.w) - 1}

TileInside(t, j) ==
  /\ t.x \in Nat /\ t.y \in Nat /\ t.w \in Nat \ {0} /\ t.h \in Nat \ {0}
  /\ t.x + t.w <= PixelsPerRow(j) /\ t.y + t.h <= j.h
  /\ t.w <= j.tileW /\ t.h <= j.tileH
  /\ t.x + t.w = PixelsPerRow(j) \/ t.w = j.tileW
  /\ t.y + t.h = j.h \/ t.h = j.tileH

(* The tiles side by side, and those one below the other, as BlocksOf has it.          *)
LEMMA TilesAre ==
  ASSUME NEW j, IsTiled(j), TilingAccepted(j)
  PROVE  /\ PixelsPerRow(j) \in Nat \ {0} /\ j.w = PixelsPerRow(j) * j.cpp
         /\ BlocksOf(TilesX(j), PixelsPerRow(j), j.tileW) /\ BlocksOf(TilesY(j), j.h, j.tileH)
         /\ j.count = TilesY(j) * TilesX(j) /\ j.count \in Nat
<1> DEFINE P == PixelsPerRow(j)
           X == TilesX(j)
           Y == TilesY(j)
<1>1. /\ j.w \in Nat \ {0} /\ j.h \in Nat \ {0} /\ j.cpp \in Nat \ {0} /\ j.w % j.cpp = 0
      /\ j.tileW \in Nat \ {0} /\ j.tileH \in Nat \ {0}
  BY DEF IsTiled, TilingAccepted
<1>2. P \in Nat /\ j.w = P * j.cpp
  BY <1>1, WholeMultiple DEF PixelsPerRow
<1>3. P # 0
  <2> SUFFICES ASSUME P = 0 PROVE FALSE
    OBVIOUS
  <2> HIDE DEF P
  <2>1. 0 * j.cpp = 0
    BY <1>1
  <2> QED BY <1>1, <1>2, <2>1
<1> HIDE DEF P
<1>4. BlocksOf(X, P, j.tileW)
  <2>1. X = CeilDiv(P, j.tileW)
    BY DEF TilesX, P
  <2>2. P \in Nat \ {0} /\ j.tileW \in Nat \ {0}
    BY <1>1, <1>2, <1>3
  <2> HIDE DEF X
  <2> QED BY <2>1, <2>2, CeilDivIs
<1>5. BlocksOf(Y, j.h, j.tileH)
  <2>1. Y = CeilDiv(j.h, j.tileH)
    BY DEF TilesY
  <2> HIDE DEF Y
  <2> QED BY <1>1, <2>1, CeilDivIs
<1>6. X \in Nat \ {0} /\ Y \in Nat \ {0} /\ (X - 1) * j.tileW < P
  <2> HIDE DEF X, Y
  <2> QED BY Zenon, <1>4, <1>5 DEF BlocksOf
<1>7. j.count = Y * X
  <2>1. CASE ~j.strips
    <3>1. j.count = X * Y
      BY <2>1 DEF TilingAccepted
    <3> HIDE DEF X, Y
    <3> QED BY <1>6, <3>1, Times
  <2>2. CASE j.strips
    <3>1. j.tileW = P /\ j.count = Y
      BY <2>2 DEF TilingAccepted, P
    <3> HIDE DEF X, Y
    <3>2. X = 1
      <4> SUFFICES ASSUME X # 1 PROVE FALSE
        OBVIOUS
      <4>1. PICK d \in Nat : X - 1 = d + 1
        BY <1>6, X - 2 \in Nat
      <4>2. (d + 1) * P = d * P + P /\ d * P \in Nat
        BY <1>2, TimesNat
      <4> QED BY <1>2, <1>6, <3>1, <4>1, <4>2
    <3> QED BY <1>6, <3>1, <3>2
  <2> QED BY <2>1, <2>2
<1>8. j.count \in Nat
  <2> HIDE DEF X, Y
  <2> QED BY <1>6, <1>7, TimesNat
<1> QED BY <1>2, <1>3, <1>4, <1>5, <1>7, <1>8 DEF P

(* Tile n is the one in column c and row r.                                          *)
TileIsAt(n, j, c, r) ==
  /\ n = r * TilesX(j) + c
  /\ Tile(n, j).x = c * j.tileW /\ Tile(n, j).y = r * j.tileH
  /\ Tile(n, j).x + Tile(n, j).w = EndOf(c, TilesX(j), PixelsPerRow(j), j.tileW)
  /\ Tile(n, j).y + Tile(n, j).h = EndOf(r, TilesY(j), j.h, j.tileH)
  /\ TileInside(Tile(n, j), j)

LEMMA TilePlaced ==
  ASSUME NEW j, IsTiled(j), TilingAccepted(j), NEW n \in 0 .. j.count - 1
  PROVE  \E c \in 0 .. TilesX(j) - 1 : \E r \in 0 .. TilesY(j) - 1 : TileIsAt(n, j, c, r)
<1> DEFINE P == PixelsPerRow(j)
           X == TilesX(j)
           Y == TilesY(j)
           c == n % X
           r == n \div X
           x == c * j.tileW
           y == r * j.tileH
           t == Tile(n, j)
<1>1. /\ P \in Nat \ {0} /\ BlocksOf(X, P, j.tileW) /\ BlocksOf(Y, j.h, j.tileH) /\ j.count = Y * X
  BY TilesAre
<1>2. /\ X \in Nat \ {0} /\ Y \in Nat \ {0} /\ j.tileW \in Nat \ {0} /\ j.tileH \in Nat \ {0}
      /\ j.h \in Nat \ {0}
  BY <1>1 DEF BlocksOf
<1>3. t = [x |-> j.tileW * c, y |-> j.tileH * r,
           w |-> IF c + 1 = X THEN P - j.tileW * c ELSE j.tileW,
           h |-> IF r + 1 = Y THEN j.h - j.tileH * r ELSE j.tileH]
  BY DEF Tile
<1> HIDE DEF P, X, Y, t
<1>4. n \in Nat /\ n \in 0 .. Y * X - 1
  <2>1. Y * X \in Nat
    BY <1>2, TimesNat
  <2> QED BY <1>1, <2>1
<1>5. c \in 0 .. X - 1 /\ n = r * X + c /\ r \in 0 .. Y - 1
  <2>1. r \in 0 .. Y - 1
    BY <1>2, <1>4, QuotientBelow
  <2>2. c \in 0 .. X - 1 /\ n = r * X + c
    BY <1>2, <1>4, DivMod
  <2> QED BY <2>1, <2>2
<1> HIDE DEF c, r
<1>6. /\ j.tileW * c = x /\ j.tileH * r = y /\ x \in Nat /\ y \in Nat
      /\ (c + 1) * j.tileW = x + j.tileW /\ (r + 1) * j.tileH = y + j.tileH
  <2>1. c \in Nat /\ r \in Nat
    BY <1>2, <1>5
  <2> QED BY <1>2, <2>1, Times, TimesNat
<1> DEFINE ex == EndOf(c, X, P, j.tileW)
           ey == EndOf(r, Y, j.h, j.tileH)
<1>7. /\ x < P /\ ex \in Nat /\ ex <= P /\ x < ex /\ ex <= x + j.tileW
      /\ y < j.h /\ ey \in Nat /\ ey <= j.h /\ y < ey /\ ey <= y + j.tileH
  <2>1. /\ x < P /\ ex \in Nat /\ ex <= P /\ x < ex /\ ex <= x + j.tileW
    BY Zenon, <1>1, <1>5, BlockBounds
  <2>2. /\ y < j.h /\ ey \in Nat /\ ey <= j.h /\ y < ey /\ ey <= y + j.tileH
    BY Zenon, <1>1, <1>5, BlockBounds
  <2> QED BY <2>1, <2>2
<1>8. /\ ex = IF c + 1 = X THEN P ELSE x + j.tileW
      /\ ey = IF r + 1 = Y THEN j.h ELSE y + j.tileH
  <2>1. (c = X - 1 <=> c + 1 = X) /\ (r = Y - 1 <=> r + 1 = Y)
    BY <1>2, <1>5
  <2> HIDE DEF x, y
  <2> QED BY <1>6, <2>1 DEF EndOf
<1>9. t.x = x /\ t.y = y /\ t.x + t.w = ex /\ t.y + t.h = ey /\ t.w = ex - x /\ t.h = ey - y
  <2>1. /\ t.x = x /\ t.y = y
        /\ t.w = IF c + 1 = X THEN P - x ELSE j.tileW
        /\ t.h = IF r + 1 = Y THEN j.h - y ELSE j.tileH
    BY <1>3, <1>6
  <2> HIDE DEF x, y, ex, ey
  <2> QED BY <1>1, <1>2, <1>6, <1>7, <1>8, <2>1
<1>10. TileInside(t, j)
  <2>1. \/ ex = P \/ ex = x + j.tileW
    BY <1>8
  <2>2. \/ ey = j.h \/ ey = y + j.tileH
    BY <1>8
  <2> HIDE DEF x, y, ex, ey
  <2>3. /\ x \in Nat /\ y \in Nat /\ ex - x \in Nat \ {0} /\ ey - y \in Nat \ {0}
        /\ ex - x <= j.tileW /\ ey - y <= j.tileH
        /\ ex = P \/ ex - x = j.tileW
        /\ ey = j.h \/ ey - y = j.tileH
    BY <1>2, <1>6, <1>7, <2>1, <2>2
  <2> QED BY <1>7, <1>9, <2>3 DEF TileInside, P
<1>11. TileIsAt(n, j, c, r)
  BY <1>5, <1>9, <1>10 DEF TileIsAt, P, X, Y, t
<1>12. c \in 0 .. TilesX(j) - 1 /\ r \in 0 .. TilesY(j) - 1
  BY <1>5 DEF X, Y
<1> QED BY Zenon, <1>11, <1>12

(* Two tiles have no sample in common, and every sample is in a tile.                  *)
LEMMA ScaledInterval ==
  ASSUME NEW cpp \in Nat \ {0}, NEW a \in Nat, NEW b \in Nat, NEW x \in cpp * a .. cpp * b - 1
  PROVE  x \in Nat /\ x \div cpp \in a .. b - 1
<1> DEFINE q == x \div cpp
           r == x % cpp
           u == cpp * a
           v == cpp * b
<1>1. u \in Nat /\ v \in Nat /\ u = a * cpp /\ v = b * cpp
  BY TimesNat, Times
<1>2. x \in Nat
  <2> HIDE DEF u, v
  <2> QED BY <1>1
<1>3. q \in Nat /\ r \in 0 .. cpp - 1 /\ x = q * cpp + r
  BY <1>2, DivMod
<1> HIDE DEF q, r
<1> DEFINE m == q * cpp
<1>4. m \in Nat
  BY <1>3, TimesNat
<1>5. ~(q < a)
  <2> SUFFICES ASSUME q < a PROVE FALSE
    OBVIOUS
  <2>1. m + cpp <= u
    BY <1>1, <1>3, NextRow
  <2> HIDE DEF m, u, v
  <2> QED BY <1>1, <1>3, <1>4, <2>1 DEF m
<1>6. ~(b < q) /\ b # q
  <2>1. ~(b < q)
    <3> SUFFICES ASSUME b < q PROVE FALSE
      OBVIOUS
    <3>1. v + cpp <= m
      BY <1>1, <1>3, NextRow
    <3>2. x = m + r /\ x < v
      BY <1>1, <1>3, <1>4
    <3> HIDE DEF m, u, v
    <3> QED BY <1>1, <1>3, <1>4, <3>1, <3>2
  <2>2. b # q
    <3> SUFFICES ASSUME b = q PROVE FALSE
      OBVIOUS
    <3>1. v = m /\ x = m + r /\ x < v
      BY <1>1, <1>3, <1>4
    <3> HIDE DEF m, u, v
    <3> QED BY <1>3, <1>4, <3>1
  <2> QED BY <2>1, <2>2
<1> QED BY <1>2, <1>3, <1>5, <1>6 DEF q

LEMMA TileCellsInside ==
  ASSUME NEW j, IsTiled(j), NEW P \in Nat, P = PixelsPerRow(j), j.w = P * j.cpp, NEW t, TileInside(t, j)
  PROVE  TileCells(t, j) \subseteq Samples(j)
<1> SUFFICES ASSUME NEW y \in t.y .. t.y + t.h - 1, NEW x \in j.cpp * t.x .. j.cpp * (t.x + t.w) - 1
             PROVE  <<y, x>> \in Samples(j)
  BY DEF TileCells
<1>1. t.x \in Nat /\ t.y \in Nat /\ t.w \in Nat /\ t.h \in Nat /\ t.x + t.w <= P /\ t.y + t.h <= j.h
  BY DEF TileInside
<1>2. j.cpp \in Nat \ {0} /\ j.w \in Nat /\ j.h \in Nat
  BY DEF IsTiled
<1> DEFINE e == t.x + t.w
           m == e * j.cpp
           u == j.cpp * t.x
<1>3. e \in Nat /\ e <= P
  BY <1>1
<1> HIDE DEF e
<1>4. m \in Nat /\ m <= j.w /\ j.cpp * e = m /\ u \in Nat
  <2>1. m \in Nat /\ j.cpp * e = m /\ u \in Nat
    BY <1>1, <1>2, <1>3, TimesNat, Times
  <2>2. m <= j.w
    <3>1. CASE e = P
      BY <1>2, <3>1
    <3>2. CASE e # P
      <4>1. e < P
        BY <1>3, <3>2
      <4>2. m + j.cpp <= j.w
        BY <1>2, <1>3, <4>1, NextRow
      <4> HIDE DEF m
      <4> QED BY <1>2, <2>1, <4>2
    <3> QED BY <3>1, <3>2
  <2> QED BY <2>1, <2>2
<1>5. x \in u .. m - 1
  BY <1>4 DEF e
<1> HIDE DEF u, m
<1>6. x \in 0 .. j.w - 1 /\ y \in 0 .. j.h - 1
  BY <1>1, <1>2, <1>4, <1>5
<1> QED BY <1>6 DEF Samples

(* Where a sample of a tile is, in pixels.                                            *)
LEMMA CellOfTile ==
  ASSUME NEW j, IsTiled(j), NEW t, TileInside(t, j), NEW p \in TileCells(t, j)
  PROVE  /\ p[1] \in t.y .. t.y + t.h - 1 /\ p[2] \in Nat
         /\ p[2] \div j.cpp \in t.x .. t.x + t.w - 1
<1>1. PICK y \in t.y .. t.y + t.h - 1 : \E x \in j.cpp * t.x .. j.cpp * (t.x + t.w) - 1 : p = <<y, x>>
  BY DEF TileCells
<1>2. PICK x \in j.cpp * t.x .. j.cpp * (t.x + t.w) - 1 : p = <<y, x>>
  BY <1>1
<1>3. p[1] = y /\ p[2] = x
  BY <1>2
<1>4. t.x \in Nat /\ t.w \in Nat /\ t.x + t.w \in Nat /\ j.cpp \in Nat \ {0}
  BY DEF TileInside, IsTiled
<1>5. x \in Nat /\ x \div j.cpp \in t.x .. t.x + t.w - 1
  <2> DEFINE q == x \div j.cpp
  <2>1. PICK e \in Nat : e = t.x + t.w
    BY <1>4
  <2>2. x \in j.cpp * t.x .. j.cpp * e - 1
    BY <2>1
  <2>3. x \in Nat /\ q \in t.x .. e - 1
    BY Zenon, <1>4, <2>2, ScaledInterval
  <2> HIDE DEF q
  <2>4. q \in t.x .. t.x + t.w - 1
    BY <1>4, <2>1, <2>3
  <2> QED BY <2>3, <2>4 DEF q
<1> QED BY <1>3, <1>5

LEMMA TilesApart ==
  ASSUME NEW j, IsTiled(j), TilingAccepted(j), NEW n \in 0 .. j.count - 1, NEW m \in 0 .. j.count - 1,
         n # m
  PROVE  TileCells(Tile(n, j), j) \cap TileCells(Tile(m, j), j) = {}
<1> SUFFICES ASSUME NEW p, p \in TileCells(Tile(n, j), j), p \in TileCells(Tile(m, j), j) PROVE FALSE
  OBVIOUS
<1> DEFINE X == TilesX(j)
           Y == TilesY(j)
           s == Tile(n, j)
           t == Tile(m, j)
           y == p[1]
           x == p[2] \div j.cpp
<1>1. PICK c \in 0 .. X - 1 : \E r \in 0 .. Y - 1 : TileIsAt(n, j, c, r)
  BY TilePlaced
<1>2. PICK r \in 0 .. Y - 1 : TileIsAt(n, j, c, r)
  BY <1>1
<1>3. PICK d \in 0 .. X - 1 : \E q \in 0 .. Y - 1 : TileIsAt(m, j, d, q)
  BY TilePlaced
<1>4. PICK q \in 0 .. Y - 1 : TileIsAt(m, j, d, q)
  BY <1>3
<1>5. /\ n = r * X + c /\ s.x = c * j.tileW /\ s.y = r * j.tileH /\ TileInside(s, j)
      /\ m = q * X + d /\ t.x = d * j.tileW /\ t.y = q * j.tileH /\ TileInside(t, j)
  BY <1>2, <1>4 DEF TileIsAt
<1>6. /\ y \in s.y .. s.y + s.h - 1 /\ x \in s.x .. s.x + s.w - 1
      /\ y \in t.y .. t.y + t.h - 1 /\ x \in t.x .. t.x + t.w - 1
  BY <1>5, CellOfTile
<1> HIDE DEF s, t, y, x
<1>7. /\ s.x \in Nat /\ s.y \in Nat /\ s.w \in Nat /\ s.h \in Nat /\ s.w <= j.tileW /\ s.h <= j.tileH
      /\ t.x \in Nat /\ t.y \in Nat /\ t.w \in Nat /\ t.h \in Nat /\ t.w <= j.tileW /\ t.h <= j.tileH
  BY <1>5 DEF TileInside
<1>8. X \in Nat /\ Y \in Nat
  BY TilesAre DEF BlocksOf
<1>9. j.tileW \in Nat /\ j.tileH \in Nat
  BY DEF IsTiled
<1> HIDE DEF X, Y
<1>10. c \in Nat /\ d \in Nat /\ r \in Nat /\ q \in Nat
  BY <1>8
<1>11. ~(c < d) /\ ~(d < c)
  <2>1. c < d => s.x + j.tileW <= t.x
    BY <1>5, <1>9, <1>10, NextRow
  <2>2. d < c => t.x + j.tileW <= s.x
    BY <1>5, <1>9, <1>10, NextRow
  <2> QED BY <1>6, <1>7, <1>9, <2>1, <2>2
<1>12. ~(r < q) /\ ~(q < r)
  <2>1. r < q => s.y + j.tileH <= t.y
    BY <1>5, <1>9, <1>10, NextRow
  <2>2. q < r => t.y + j.tileH <= s.y
    BY <1>5, <1>9, <1>10, NextRow
  <2> QED BY <1>6, <1>7, <1>9, <2>1, <2>2
<1>13. c = d /\ r = q
  BY <1>10, <1>11, <1>12
<1> QED BY <1>5, <1>13

LEMMA BlockOf ==
  ASSUME NEW blocks, NEW total, NEW Z, BlocksOf(blocks, total, Z), NEW x \in 0 .. total - 1
  PROVE  \E b \in 0 .. blocks - 1 : b * Z <= x /\ x < EndOf(b, blocks, total, Z)
<1> DEFINE b == x \div Z
           m == b * Z
           r == x % Z
           all == blocks * Z
<1>1. Z \in Nat \ {0} /\ total \in Nat \ {0} /\ blocks \in Nat \ {0} /\ total <= all /\ all \in Nat
  <2>1. Z \in Nat \ {0} /\ total \in Nat \ {0} /\ blocks \in Nat \ {0} /\ total <= all
    BY DEF BlocksOf
  <2> QED BY <2>1, TimesNat
<1>2. x \in 0 .. all - 1
  <2> HIDE DEF all
  <2> QED BY <1>1
<1>3. b \in 0 .. blocks - 1
  BY <1>1, <1>2, QuotientBelow
<1>4. r \in 0 .. Z - 1 /\ x = m + r
  <2>1. x \in Nat
    BY <1>1
  <2> QED BY <1>1, <2>1, DivMod
<1> HIDE DEF b, r
<1>5. m \in Nat /\ (b + 1) * Z = m + Z
  BY <1>1, <1>3, TimesNat
<1> HIDE DEF m
<1>6. m <= x /\ x < m + Z /\ x < total
  BY <1>1, <1>4, <1>5
<1>7. m <= x /\ x < EndOf(b, blocks, total, Z)
  BY <1>5, <1>6 DEF EndOf
<1> QED BY Zenon, <1>3, <1>7 DEF m

LEMMA TilesCover ==
  ASSUME NEW j, IsTiled(j), TilingAccepted(j), NEW p \in Samples(j)
  PROVE  \E n \in 0 .. j.count - 1 : p \in TileCells(Tile(n, j), j)
<1> DEFINE P == PixelsPerRow(j)
           X == TilesX(j)
           Y == TilesY(j)
<1>1. PICK y \in 0 .. j.h - 1, x \in 0 .. j.w - 1 : p = <<y, x>>
  BY DEF Samples
<1>2. /\ P \in Nat \ {0} /\ j.w = P * j.cpp /\ BlocksOf(X, P, j.tileW) /\ BlocksOf(Y, j.h, j.tileH)
      /\ j.count = Y * X
  BY TilesAre
<1>3. j.cpp \in Nat \ {0} /\ j.w \in Nat \ {0} /\ j.h \in Nat \ {0} /\ j.tileW \in Nat /\ j.tileH \in Nat
  BY DEF IsTiled
<1> HIDE DEF P, X, Y
<1> DEFINE a == x \div j.cpp
<1>4. a \in 0 .. P - 1
  BY <1>2, <1>3, QuotientBelow
<1>5. x \in Nat /\ a \in Nat /\ x % j.cpp \in 0 .. j.cpp - 1 /\ x = a * j.cpp + (x % j.cpp)
  <2>1. x \in Nat
    BY <1>3
  <2> QED BY <1>3, <2>1, DivMod
<1> HIDE DEF a
<1>6. PICK c \in 0 .. X - 1 : c * j.tileW <= a /\ a < EndOf(c, X, P, j.tileW)
  BY Zenon, <1>2, <1>4, BlockOf
<1>7. PICK r \in 0 .. Y - 1 : r * j.tileH <= y /\ y < EndOf(r, Y, j.h, j.tileH)
  BY Zenon, <1>2, BlockOf
<1> DEFINE n == r * X + c
           t == Tile(n, j)
<1>8. X \in Nat /\ Y \in Nat
  BY <1>2 DEF BlocksOf
<1>9. n \in 0 .. j.count - 1
  BY <1>2, <1>8, InRectangle
<1> HIDE DEF n, t
<1>10. PICK d \in 0 .. X - 1 : \E q \in 0 .. Y - 1 : TileIsAt(n, j, d, q)
  BY <1>9, TilePlaced DEF X, Y
<1>11. PICK q \in 0 .. Y - 1 : TileIsAt(n, j, d, q)
  BY <1>10
<1>12. c = d /\ r = q
  <2>1. r * X + c = q * X + d
    BY <1>11 DEF TileIsAt, n, X
  <2>2. r \in Nat /\ q \in Nat /\ c \in 0 .. X - 1 /\ d \in 0 .. X - 1
    BY <1>8
  <2> QED BY <1>8, <2>1, <2>2, SamePlace
<1>13. /\ t.x = c * j.tileW /\ t.y = r * j.tileH /\ TileInside(t, j)
       /\ t.x + t.w = EndOf(c, X, P, j.tileW) /\ t.y + t.h = EndOf(r, Y, j.h, j.tileH)
  BY <1>11, <1>12 DEF TileIsAt, t, X, Y, P
<1>14. t.x <= a /\ a < t.x + t.w /\ t.y <= y /\ y < t.y + t.h
  BY Zenon, <1>6, <1>7, <1>13
<1>15. t.x \in Nat /\ t.y \in Nat /\ t.w \in Nat /\ t.h \in Nat
  BY <1>13 DEF TileInside
<1>16. y \in t.y .. t.y + t.h - 1
  BY <1>3, <1>14, <1>15
<1>17. x \in j.cpp * t.x .. j.cpp * (t.x + t.w) - 1
  <2> DEFINE e == t.x + t.w
             u == t.x * j.cpp
             v == e * j.cpp
             m == a * j.cpp
  <2>1. e \in Nat /\ a < e
    BY <1>14, <1>15
  <2> HIDE DEF e
  <2>2. /\ u \in Nat /\ v \in Nat /\ m \in Nat /\ j.cpp * t.x = u /\ j.cpp * e = v
    BY <1>3, <1>5, <1>15, <2>1, TimesNat, Times
  <2>3. m + j.cpp <= v
    BY <1>3, <1>5, <2>1, NextRow
  <2>4. u <= m
    <3>1. CASE t.x = a
      BY <2>2, <3>1
    <3>2. CASE t.x # a
      <4>1. t.x < a
        BY <1>5, <1>14, <1>15, <3>2
      <4>2. u + j.cpp <= m
        BY <1>3, <1>5, <1>15, <4>1, NextRow
      <4> HIDE DEF u, m
      <4> QED BY <1>3, <2>2, <4>2
    <3> QED BY <3>1, <3>2
  <2> HIDE DEF u, v, m
  <2>5. x \in u .. v - 1
    BY <1>3, <1>5, <2>2, <2>3, <2>4 DEF m
  <2> QED BY <2>2, <2>5 DEF e
<1>18. p \in TileCells(t, j)
  BY <1>1, <1>16, <1>17 DEF TileCells
<1> QED BY <1>9, <1>18 DEF t

(* What fills a tile: its rows, one after the other, as the last of the slice's steps.   *)
RowOfTile(i, t, j) == Row(t.y + i - 1, j.cpp * t.x, j.cpp * t.w)

LEMMA RowsOfTile ==
  ASSUME NEW j, IsTiled(j), NEW t, TileInside(t, j)
  PROVE  /\ \A i \in 1 .. t.h : RowOfTile(i, t, j) \subseteq TileCells(t, j)
         /\ \A i, k \in 1 .. t.h : i # k => RowOfTile(i, t, j) \cap RowOfTile(k, t, j) = {}
         /\ \A p \in TileCells(t, j) : \E i \in 1 .. t.h : p \in RowOfTile(i, t, j)
<1> DEFINE u == j.cpp * t.x
           v == j.cpp * t.w
           e == j.cpp * (t.x + t.w)
<1>1. t.x \in Nat /\ t.y \in Nat /\ t.w \in Nat /\ t.h \in Nat
  BY DEF TileInside
<1>2. u \in Nat /\ v \in Nat /\ e = u + v
  <2>1. j.cpp \in Nat
    BY DEF IsTiled
  <2> QED BY <1>1, <2>1, TimesNat
<1>3. TileCells(t, j) = {<<y, x>> : y \in t.y .. t.y + t.h - 1, x \in u .. u + v - 1}
  BY <1>2 DEF TileCells
<1>4. \A i : RowOfTile(i, t, j) = {<<t.y + i - 1, x>> : x \in u .. u + v - 1}
  BY DEF RowOfTile, Row
<1> HIDE DEF u, v, e
<1>5. \A i \in 1 .. t.h : t.y + i - 1 \in t.y .. t.y + t.h - 1
  BY <1>1
<1>6. \A i \in 1 .. t.h : RowOfTile(i, t, j) \subseteq TileCells(t, j)
  BY <1>3, <1>4, <1>5
<1>7. \A i, k \in 1 .. t.h : i # k => RowOfTile(i, t, j) \cap RowOfTile(k, t, j) = {}
  <2> TAKE i, k \in 1 .. t.h
  <2>1. i # k => t.y + i - 1 # t.y + k - 1
    BY <1>1
  <2> QED BY <1>4, <2>1
<1>8. ASSUME NEW p \in TileCells(t, j) PROVE \E i \in 1 .. t.h : p \in RowOfTile(i, t, j)
  <2>1. PICK y \in t.y .. t.y + t.h - 1 : \E x \in u .. u + v - 1 : p = <<y, x>>
    BY <1>3
  <2>2. PICK x \in u .. u + v - 1 : p = <<y, x>>
    BY <2>1
  <2> DEFINE i == y - t.y + 1
  <2>3. i \in 1 .. t.h /\ t.y + i - 1 = y
    BY <1>1
  <2> HIDE DEF i
  <2>4. p \in RowOfTile(i, t, j)
    BY <1>4, <2>2, <2>3
  <2> QED BY <2>3, <2>4
<1> QED BY <1>6, <1>7, <1>8

(* A slice that fills its tile, after `before` steps that fill cells of its own; what it
   has filled of these, the rows are made of.                                         *)
FillsRows(j, slice, before, t, own) ==
  /\ DOMAIN slice = 1 .. before + t.h
  /\ \A k \in 1 .. before + t.h :
       /\ PlainStep(slice[k]) /\ slice[k].loads = {} /\ slice[k].takes \subseteq 0 .. j.size - 1
  /\ \A i \in 1 .. t.h : slice[before + i].writes = RowOfTile(i, t, j) /\ slice[before + i].reads \subseteq own
  /\ before = 0 => own = {}
  /\ before = 1 => slice[1].writes = own /\ slice[1].reads = {}

LEMMA TileIsFilled ==
  ASSUME NEW j, IsTiled(j), NEW t, TileInside(t, j), TileCells(t, j) \subseteq Samples(j),
         NEW before \in {0, 1}, NEW own, own \subseteq Cells(j), own \cap TileCells(t, j) = {}, NEW slice, FillsRows(j, slice, before, t, own)
  PROVE  IsSlice(slice) /\ FillsArea(j, slice, TileCells(t, j) \cup own)
<1> DEFINE n == before + t.h
<1>1. t.h \in Nat /\ before \in Nat /\ n \in Nat
  BY DEF TileInside
<1>2. /\ DOMAIN slice = 1 .. n
      /\ \A k \in 1 .. n :
           PlainStep(slice[k]) /\ slice[k].loads = {} /\ slice[k].takes \subseteq 0 .. j.size - 1
      /\ \A i \in 1 .. t.h : slice[before + i].writes = RowOfTile(i, t, j) /\ slice[before + i].reads \subseteq own
      /\ before = 0 => own = {}
      /\ before = 1 => slice[1].writes = own /\ slice[1].reads = {}
  BY DEF FillsRows
<1>3. IsSlice(slice)
  <2> HIDE DEF n
  <2> QED BY <1>1, <1>2, ListedSlice
<1>4. /\ \A i \in 1 .. t.h : RowOfTile(i, t, j) \subseteq TileCells(t, j)
      /\ \A i, k \in 1 .. t.h : i # k => RowOfTile(i, t, j) \cap RowOfTile(k, t, j) = {}
      /\ \A p \in TileCells(t, j) : \E i \in 1 .. t.h : p \in RowOfTile(i, t, j)
  BY RowsOfTile
<1>5. \A k \in 1 .. n : (before = 1 /\ k = 1) \/ (k - before \in 1 .. t.h /\ before + (k - before) = k)
  BY <1>1
<1>6. \A i \in 1 .. t.h : before + i \in 1 .. n
  BY <1>1
<1>7. before = 1 => 1 \in 1 .. n
  BY <1>1
<1> HIDE DEF n
<1>8. ASSUME NEW k \in 1 .. n
      PROVE  /\ slice[k].writes \subseteq TileCells(t, j) \cup own
             /\ slice[k].reads \subseteq WrittenBefore(slice, k)
  <2>1. CASE before = 1 /\ k = 1
    BY <1>2, <2>1
  <2>2. CASE k - before \in 1 .. t.h /\ before + (k - before) = k
    <3>1. slice[k].writes = RowOfTile(k - before, t, j) /\ slice[k].reads \subseteq own
      BY <1>2, <2>2
    <3>2. own \subseteq WrittenBefore(slice, k)
      <4>1. CASE before = 0
        BY <1>2, <4>1
      <4>2. CASE before = 1
        <5>1. 1 \in 1 .. k - 1 /\ slice[1].writes = own
          BY <1>1, <1>2, <2>2, <4>2
        <5> QED BY <5>1 DEF WrittenBefore
      <4> QED BY <4>1, <4>2
    <3> QED BY <1>4, <2>2, <3>1, <3>2
  <2> QED BY <1>5, <2>1, <2>2
<1>9. \A k \in 1 .. n : StepIsPlain(j, slice, k)
  <2> TAKE k \in 1 .. n
  <2>1. slice[k].writes \subseteq Cells(j)
    BY <1>8 DEF Cells
  <2> QED BY <1>2, <1>8, <2>1 DEF StepIsPlain
<1>10. ASSUME NEW k \in 1 .. n, NEW l \in 1 .. n, k # l PROVE slice[k].writes \cap slice[l].writes = {}
  <2> DEFINE IsRow(m) == m - before \in 1 .. t.h /\ slice[m].writes = RowOfTile(m - before, t, j)
  <2>1. \A m \in 1 .. n : (before = 1 /\ m = 1 /\ slice[m].writes = own) \/ IsRow(m)
    BY <1>2, <1>5
  <2>2. k - before # l - before
    BY <1>1, <1>10
  <2>3. \A m \in 1 .. n : IsRow(m) => slice[m].writes \cap own = {}
    BY <1>4
  <2> QED BY <1>4, <1>10, <2>1, <2>2, <2>3
<1>11. ASSUME NEW p \in TileCells(t, j) \cup own PROVE \E k \in 1 .. n : p \in slice[k].writes
  <2>1. CASE p \in TileCells(t, j)
    <3>1. PICK i \in 1 .. t.h : p \in RowOfTile(i, t, j)
      BY <1>4, <2>1
    <3> QED BY <1>2, <1>6, <3>1
  <2>2. CASE p \in own
    BY <1>2, <1>7, <2>2
  <2> QED BY <2>1, <2>2
<1>12. FillsArea(j, slice, TileCells(t, j) \cup own)
  BY <1>2, <1>8, <1>9, <1>10, <1>11 DEF FillsArea
<1> QED BY <1>3, <1>12

(* All of the tiles.                                                                *)
OwnCells(j, own) ==
  /\ \A n \in 0 .. j.count - 1 : own[n] \subseteq Cells(j) /\ own[n] \cap Samples(j) = {}
  /\ \A n, m \in 0 .. j.count - 1 : n # m => own[n] \cap own[m] = {}

LEMMA TiledPlan ==
  ASSUME NEW j, IsTiled(j), TilingAccepted(j), NEW plan, DOMAIN plan = 1 .. j.count,
         NEW before \in {0, 1}, NEW own, OwnCells(j, own),
         \A n \in 0 .. j.count - 1 : FillsRows(j, plan[n + 1], before, Tile(n, j), own[n]),
         TakesApart(plan)
  PROVE  Plain(j, plan)
<1> DEFINE area == [s \in 1 .. j.count |-> TileCells(Tile(s - 1, j), j) \cup own[s - 1]]
<1>1. j.count \in Nat
  BY TilesAre
<1>2. \A n \in 0 .. j.count - 1 : TileInside(Tile(n, j), j) /\ TileCells(Tile(n, j), j) \subseteq Samples(j)
  <2> TAKE n \in 0 .. j.count - 1
  <2>1. TileInside(Tile(n, j), j)
    BY TilePlaced DEF TileIsAt
  <2>2. PixelsPerRow(j) \in Nat /\ j.w = PixelsPerRow(j) * j.cpp
    BY TilesAre
  <2>3. TileCells(Tile(n, j), j) \subseteq Samples(j)
    BY Zenon, <2>1, <2>2, TileCellsInside
  <2> QED BY <2>1, <2>3
<1>3. \A s \in 1 .. j.count : s - 1 \in 0 .. j.count - 1 /\ (s - 1) + 1 = s
  BY <1>1
<1>4. \A s \in 1 .. j.count : area[s] = TileCells(Tile(s - 1, j), j) \cup own[s - 1]
  OBVIOUS
<1> HIDE DEF area
<1>5. ASSUME NEW s \in 1 .. j.count PROVE IsSlice(plan[s]) /\ FillsArea(j, plan[s], area[s])
  <2> DEFINE t == Tile(s - 1, j)
             o == own[s - 1]
  <2>1. o \subseteq Cells(j) /\ o \cap TileCells(t, j) = {}
    BY <1>2, <1>3 DEF OwnCells
  <2>2. FillsRows(j, plan[s], before, t, o) /\ TileInside(t, j) /\ TileCells(t, j) \subseteq Samples(j)
    <3>1. FillsRows(j, plan[(s - 1) + 1], before, t, o)
      BY <1>3
    <3> QED BY <1>2, <1>3, <3>1
  <2> HIDE DEF t, o
  <2>3. IsSlice(plan[s]) /\ FillsArea(j, plan[s], TileCells(t, j) \cup o)
    BY Zenon, <2>1, <2>2, TileIsFilled
  <2> QED BY <1>4, <2>3 DEF t, o
<1>6. ASSUME NEW s \in 1 .. j.count, NEW u \in 1 .. j.count, s # u PROVE area[s] \cap area[u] = {}
  <2>1. s - 1 # u - 1
    BY <1>1, <1>6
  <2>2. TileCells(Tile(s - 1, j), j) \cap TileCells(Tile(u - 1, j), j) = {}
    BY <1>3, <2>1, TilesApart
  <2>3. own[s - 1] \cap own[u - 1] = {} /\ own[s - 1] \cap Samples(j) = {} /\ own[u - 1] \cap Samples(j) = {}
    BY <1>3, <2>1 DEF OwnCells
  <2> QED BY <1>2, <1>3, <1>4, <2>2, <2>3
<1>7. \A p \in Samples(j) : \E s \in 1 .. j.count : p \in area[s]
  <2> TAKE p \in Samples(j)
  <2>1. PICK n \in 0 .. j.count - 1 : p \in TileCells(Tile(n, j), j)
    BY TilesCover
  <2>2. n + 1 \in 1 .. j.count /\ (n + 1) - 1 = n
    BY <1>1
  <2> QED BY <1>4, <2>1, <2>2
<1>8. Areas(j, plan, area, j.count)
  BY <1>5, <1>6, <1>7 DEF Areas
<1> QED BY <1>1, <1>5, <1>8, AreasPlan

(* Lossy JPEG: what is copied of it is what the image shows of its tile.                 *)
LEMMA JpegTilesArePlain ==
  ASSUME NEW j, IsTiled(j), TilingAccepted(j), NEW plan, DOMAIN plan = 1 .. j.count,
         \A n \in 0 .. j.count - 1 : Copied(n, j) = [w |-> Tile(n, j).w, h |-> Tile(n, j).h],
         \A n \in 0 .. j.count - 1 : plan[n + 1] = JpegSteps(n, j)
  PROVE  Plain(j, plan)
<1> DEFINE own == [n \in 0 .. j.count - 1 |-> {}]
<1>1. ASSUME NEW n \in 0 .. j.count - 1 PROVE FillsRows(j, JpegSteps(n, j), 0, Tile(n, j), {})
  <2> DEFINE t == Tile(n, j)
             slice == JpegSteps(n, j)
  <2>1. TileInside(t, j)
    BY TilePlaced DEF TileIsAt
  <2>2. slice = [i \in 1 .. t.h |-> Write(Row(t.y + i - 1, j.cpp * t.x, j.cpp * t.w))]
    BY DEF JpegSteps
  <2> HIDE DEF t, slice
  <2>3. t.h \in Nat
    BY <2>1 DEF TileInside
  <2>4. slice = [i \in 1 .. t.h |-> Step(RowOfTile(i, t, j), {}, {})]
    BY <2>2 DEF RowOfTile, Write
  <2>5. \A i \in 1 .. t.h : slice[i] = Step(RowOfTile(i, t, j), {}, {})
    BY <2>4
  <2>6. DOMAIN slice = 1 .. t.h
    BY <2>4
  <2>7. \A i \in 1 .. t.h :
          /\ PlainStep(slice[i]) /\ slice[i].loads = {} /\ slice[i].takes = {}
          /\ slice[i].writes = RowOfTile(i, t, j) /\ slice[i].reads = {}
    BY <2>5, StepFields
  <2>8. 0 + t.h = t.h /\ \A i \in 1 .. t.h : 0 + i = i
    BY <2>3
  <2>9. FillsRows(j, slice, 0, t, {})
    BY <2>6, <2>7, <2>8 DEF FillsRows
  <2> QED BY <2>9 DEF t, slice
<1>2. j.count \in Nat
  BY TilesAre
<1>3. \A n \in 0 .. j.count - 1 : FillsRows(j, plan[n + 1], 0, Tile(n, j), own[n])
  BY <1>1
<1>4. OwnCells(j, own)
  BY DEF OwnCells
<1>5. TakesApart(plan)
  <2> SUFFICES ASSUME NEW s \in DOMAIN plan, NEW k \in DOMAIN plan[s] PROVE plan[s][k].takes = {}
    BY DEF TakesApart
  <2> DEFINE m == s - 1
  <2>1. m \in 0 .. j.count - 1 /\ m + 1 = s
    BY <1>2
  <2>2. plan[s] = JpegSteps(m, j)
    BY <2>1
  <2> HIDE DEF m
  <2>3. plan[s][k].takes = {}
    BY <2>2 DEF JpegSteps, Write, Step
  <2> QED BY <2>3
<1> HIDE DEF own
<1> QED BY <1>3, <1>4, <1>5, TiledPlan

LEMMA LongerTuple == ASSUME NEW a, NEW b, NEW c, NEW d, NEW e PROVE <<a, b, c>> # <<d, e>>
<1>1. Len(<<a, b, c>>) = 3 /\ Len(<<d, e>>) = 2
  OBVIOUS
<1> QED BY <1>1

BufferRows(j) == {BufferRow(n, y) : n \in 0 .. j.count - 1, y \in 0 .. j.tileH - 1}

UnpackedRows(n, j) == {BufferRow(n, y) : y \in 0 .. j.unpacked[n + 1] - 1}

(* Deflate: one step fills the buffer, and there is one for each row of the tile.        *)
LEMMA DeflateSlice ==
  ASSUME NEW j, NEW n, Tile(n, j).h \in Nat
  PROVE  LET t == Tile(n, j)
             slice == DeflateSteps(n, j)
         IN  /\ IsSlice(slice) /\ DOMAIN slice = 1 .. 1 + t.h
             /\ slice[1] = Step(UnpackedRows(n, j), {}, {})
             /\ \A i \in 1 .. t.h : slice[1 + i] = Step(RowOfTile(i, t, j), {BufferRow(n, i - 1)}, {})
<1> DEFINE t == Tile(n, j)
           slice == DeflateSteps(n, j)
           u == << Write(UnpackedRows(n, j)) >>
           v == [i \in 1 .. t.h |->
                   Step(Row(t.y + i - 1, j.cpp * t.x, j.cpp * t.w), {BufferRow(n, i - 1)}, {})]
<1>1. slice = u \o v
  BY DEF DeflateSteps, UnpackedRows
<1>2. t.h \in Nat
  OBVIOUS
<1> HIDE DEF t, slice
<1>3. DOMAIN v = 1 .. t.h /\ v = [i \in 1 .. t.h |-> v[i]]
  OBVIOUS
<1>4. \A i \in 1 .. t.h : v[i] = Step(RowOfTile(i, t, j), {BufferRow(n, i - 1)}, {})
  BY DEF RowOfTile
<1>5. DOMAIN u = 1 .. 1 /\ u = [k \in 1 .. 1 |-> u[k]] /\ u[1] = Step(UnpackedRows(n, j), {}, {})
  BY DEF Write
<1> HIDE DEF u, v
<1>6. IsList(u) /\ Len(u) = 1 /\ IsList(v) /\ Len(v) = t.h
  BY <1>2, <1>3, <1>5, ListIs
<1>7. Joins(slice, u, v)
  BY Zenon, <1>1, <1>6, JoinedLists
<1>8. /\ IsSlice(slice) /\ Len(slice) = 1 + t.h
      /\ \A k \in 1 .. 1 : slice[k] = u[k]
      /\ \A k \in 1 .. t.h : slice[1 + k] = v[k]
  BY Zenon, <1>6, <1>7 DEF Joins
<1> QED BY <1>4, <1>5, <1>8 DEF IsSlice, t, slice

(* When zlib has unpacked the rows that the image has of each tile.                      *)
LEMMA DeflateTilesArePlain ==
  ASSUME NEW j, IsTiled(j), TilingAccepted(j),
         \A n \in 0 .. j.count - 1 : j.unpacked[n + 1] \in Tile(n, j).h .. j.tileH,
         Scratch(j) = BufferRows(j),
         NEW plan, DOMAIN plan = 1 .. j.count,
         \A n \in 0 .. j.count - 1 : plan[n + 1] = DeflateSteps(n, j)
  PROVE  Plain(j, plan)
<1> DEFINE own == [n \in 0 .. j.count - 1 |-> UnpackedRows(n, j)]
<1>1. ASSUME NEW n \in 0 .. j.count - 1
      PROVE  /\ FillsRows(j, DeflateSteps(n, j), 1, Tile(n, j), UnpackedRows(n, j))
             /\ \A k \in DOMAIN DeflateSteps(n, j) : DeflateSteps(n, j)[k].takes = {}
  <2> DEFINE t == Tile(n, j)
             slice == DeflateSteps(n, j)
             rows == UnpackedRows(n, j)
  <2>1. TileInside(t, j) /\ j.tileH \in Nat /\ j.unpacked[n + 1] \in t.h .. j.tileH
    BY TilePlaced DEF TileIsAt, IsTiled
  <2>2. t.h \in Nat
    <3> HIDE DEF t
    <3> QED BY <2>1 DEF TileInside
  <2>9. /\ DOMAIN slice = 1 .. 1 + t.h /\ slice[1] = Step(rows, {}, {})
        /\ \A i \in 1 .. t.h : slice[1 + i] = Step(RowOfTile(i, t, j), {BufferRow(n, i - 1)}, {})
    BY Zenon, <2>2, DeflateSlice
  <2> HIDE DEF t, slice
  <2>10. \A i \in 1 .. t.h : BufferRow(n, i - 1) \in rows
    BY <2>1, <2>2 DEF UnpackedRows
  <2> HIDE DEF rows
  <2>11. /\ PlainStep(slice[1]) /\ slice[1].loads = {} /\ slice[1].takes = {}
         /\ slice[1].writes = rows /\ slice[1].reads = {}
    BY <2>9, StepFields
  <2>12. \A i \in 1 .. t.h :
           /\ PlainStep(slice[1 + i]) /\ slice[1 + i].loads = {} /\ slice[1 + i].takes = {}
           /\ slice[1 + i].writes = RowOfTile(i, t, j) /\ slice[1 + i].reads = {BufferRow(n, i - 1)}
    <3> TAKE i \in 1 .. t.h
    <3> DEFINE r == RowOfTile(i, t, j)
               b == {BufferRow(n, i - 1)}
    <3>1. slice[1 + i] = Step(r, b, {})
      BY <2>9
    <3> HIDE DEF r, b
    <3>2. /\ PlainStep(slice[1 + i]) /\ slice[1 + i].loads = {} /\ slice[1 + i].takes = {}
          /\ slice[1 + i].writes = r /\ slice[1 + i].reads = b
      BY <3>1, StepFields
    <3> QED BY <3>2 DEF r, b
  <2>13. \A k \in 1 .. 1 + t.h : k = 1 \/ (k - 1 \in 1 .. t.h /\ 1 + (k - 1) = k)
    BY <2>2
  <2>14. \A k \in 1 .. 1 + t.h : PlainStep(slice[k]) /\ slice[k].loads = {} /\ slice[k].takes = {}
    <3> TAKE k \in 1 .. 1 + t.h
    <3>1. CASE k = 1
      BY <2>11, <3>1
    <3>2. CASE k - 1 \in 1 .. t.h /\ 1 + (k - 1) = k
      <4> DEFINE i == k - 1
      <4>1. i \in 1 .. t.h /\ 1 + i = k
        BY <3>2
      <4> HIDE DEF i
      <4> QED BY <2>12, <4>1
    <3> QED BY <2>13, <3>1, <3>2
  <2>15. FillsRows(j, slice, 1, t, rows)
    BY <2>9, <2>10, <2>11, <2>12, <2>14 DEF FillsRows
  <2>16. \A k \in DOMAIN slice : slice[k].takes = {}
    BY <2>9, <2>14
  <2> QED BY <2>15, <2>16 DEF t, slice, rows
<1>2. j.count \in Nat
  BY TilesAre
<1>3. \A n \in 0 .. j.count - 1 : own[n] = {BufferRow(n, y) : y \in 0 .. j.unpacked[n + 1] - 1}
  BY DEF UnpackedRows
<1>4. OwnCells(j, own)
  <2>1. \A n \in 0 .. j.count - 1 : own[n] \subseteq Cells(j)
    <3> TAKE n \in 0 .. j.count - 1
    <3>1. Tile(n, j).h \in Nat /\ j.tileH \in Nat
      <4>1. TileInside(Tile(n, j), j)
        BY TilePlaced DEF TileIsAt
      <4> QED BY <4>1 DEF TileInside, IsTiled
    <3>2. 0 .. j.unpacked[n + 1] - 1 \subseteq 0 .. j.tileH - 1
      BY <3>1
    <3>3. own[n] \subseteq BufferRows(j)
      BY <1>3, <3>2 DEF BufferRows
    <3> QED BY <3>3 DEF Cells
  <2>2. \A n \in 0 .. j.count - 1 : own[n] \cap Samples(j) = {}
    <3> SUFFICES ASSUME NEW n \in 0 .. j.count - 1, NEW y, BufferRow(n, y) \in Samples(j)
                 PROVE  FALSE
      BY <1>3
    <3>1. PICK d \in 0 .. j.h - 1, e \in 0 .. j.w - 1 : BufferRow(n, y) = <<d, e>>
      BY DEF Samples
    <3> QED BY <3>1, LongerTuple DEF BufferRow
  <2>3. \A n, m \in 0 .. j.count - 1 : n # m => own[n] \cap own[m] = {}
    <3> SUFFICES ASSUME NEW n \in 0 .. j.count - 1, NEW m \in 0 .. j.count - 1, n # m,
                        NEW c \in own[n], c \in own[m]
                 PROVE  FALSE
      OBVIOUS
    <3>1. PICK y \in 0 .. j.unpacked[n + 1] - 1 : c = BufferRow(n, y)
      BY <1>3
    <3>2. PICK z \in 0 .. j.unpacked[m + 1] - 1 : c = BufferRow(m, z)
      BY <1>3
    <3> QED BY <3>1, <3>2 DEF BufferRow
  <2> QED BY <2>1, <2>2, <2>3 DEF OwnCells
<1>5. \A n \in 0 .. j.count - 1 : FillsRows(j, plan[n + 1], 1, Tile(n, j), own[n])
  BY <1>1
<1> HIDE DEF own
<1>6. TakesApart(plan)
  <2> SUFFICES ASSUME NEW s \in DOMAIN plan, NEW k \in DOMAIN plan[s] PROVE plan[s][k].takes = {}
    BY DEF TakesApart
  <2> DEFINE m == s - 1
  <2>1. m \in 0 .. j.count - 1 /\ m + 1 = s
    BY <1>2
  <2>2. plan[s] = DeflateSteps(m, j)
    BY <2>1
  <2> HIDE DEF m
  <2> QED BY <1>1, <2>1, <2>2
<1> QED BY <1>4, <1>5, <1>6, TiledPlan

(* No compression.  Each tile's rows are `pitch` bytes apart in its part of the input.
   Tiles side by side have to be of those whose pixels are copied (SideBySide): the others
   are written to the first columns of the image.                                   *)
IsPacked(j) ==
  /\ {"w", "h", "cpp", "bps", "float", "order"} \subseteq DOMAIN j
  /\ j.bytes \in Nat /\ j.size = j.count * j.bytes

SideBySide(j) == CopiesPixels(Ordered(j)) \/ TilesX(j) = 1

LEMMA OrderedIs ==
  ASSUME NEW j, IsPacked(j)
  PROVE  /\ Ordered(j).w = j.w /\ Ordered(j).h = j.h /\ Ordered(j).cpp = j.cpp
         /\ Ordered(j).bps = j.bps /\ Ordered(j).float = j.float
<1>1. {"w", "h", "cpp", "bps", "float"} \subseteq DOMAIN j
  BY DEF IsPacked
<1>2. "w" # "order" /\ "h" # "order" /\ "cpp" # "order" /\ "bps" # "order" /\ "float" # "order"
  OBVIOUS
<1> QED BY <1>1, <1>2 DEF Ordered

LEMMA PackedTile ==
  ASSUME NEW j, IsTiled(j), TilingAccepted(j), IsPacked(j), SideBySide(j), NEW n \in 0 .. j.count - 1,
         UncompressedTileAccepted(n, j)
  PROVE  \E pitch \in Nat : \E bytes \in Nat :
           /\ bytes <= pitch /\ Tile(n, j).h * pitch <= j.bytes
           /\ DOMAIN UncompressedTileSteps(n, j) = 1 .. Tile(n, j).h
           /\ \A i \in 1 .. Tile(n, j).h :
                UncompressedTileSteps(n, j)[i] =
                  Step(RowOfTile(i, Tile(n, j), j), {},
                       n * j.bytes + (i - 1) * pitch .. n * j.bytes + (i - 1) * pitch + bytes - 1)
<1> DEFINE t == Tile(n, j)
           pitch == InputPitchBits(j) \div 8
           bits == OutPixelBits(t, Ordered(j))
           bytes == bits \div 8
           o == Ordered(j)
           from == n * j.bytes
           slice == UncompressedTileSteps(n, j)
<1>1. slice = UncompressedRows(t, pitch, from, o)
  BY Zenon DEF UncompressedTileSteps
<1>2. o.w = j.w /\ o.h = j.h /\ o.cpp = j.cpp /\ o.bps = j.bps /\ o.float = j.float
  BY OrderedIs
<1>3. UncompressedAccepts(t, pitch, j.bytes, o) /\ InputPitchBits(j) % 8 = 0
  BY Zenon DEF UncompressedTileAccepted
<1>4. TilesX(j) = 1 => t.x = 0
  <2>1. PICK c \in 0 .. TilesX(j) - 1 : \E r \in 0 .. TilesY(j) - 1 : TileIsAt(n, j, c, r)
    BY TilePlaced
  <2>2. TileInside(t, j) /\ t.x = c * j.tileW
    BY <2>1 DEF TileIsAt
  <2>3. j.tileW \in Nat
    BY DEF IsTiled
  <2>4. TilesX(j) = 1 => c = 0
    OBVIOUS
  <2> HIDE DEF t
  <2> QED BY <2>2, <2>3, <2>4
<1>5. /\ t.x \in Nat /\ t.y \in Nat /\ t.w \in Nat /\ t.h \in Nat /\ t.y + t.h <= j.h
      /\ j.cpp \in Nat \ {0} /\ j.tileW \in Nat /\ j.h \in Nat
  <2>1. TileInside(t, j)
    BY TilePlaced DEF TileIsAt
  <2> HIDE DEF t
  <2> QED BY <2>1 DEF TileInside, IsTiled
<1> HIDE DEF t, o
<1>6. /\ t.h * pitch <= j.bytes /\ pitch > 0 /\ bytes <= pitch /\ bits % 8 = 0 /\ j.bps \in Nat
  <2>1. /\ t.h * pitch <= j.bytes /\ pitch > 0 /\ bytes <= pitch /\ bits % 8 = 0
        /\ o.bps \in 1 .. (IF o.float THEN 32 ELSE 16)
    BY Zenon, <1>3 DEF UncompressedAccepts, o
  <2>2. o.bps \in Nat
    <3>1. CASE o.float
      BY <2>1, <3>1
    <3>2. CASE ~o.float
      BY <2>1, <3>2
    <3> QED BY <3>1, <3>2
  <2> QED BY <1>2, <2>1, <2>2
<1>7. bits \in Nat /\ InputPitchBits(j) \in Nat
  <2>1. bits = t.w * o.cpp * o.bps
    BY DEF OutPixelBits, o
  <2>2. t.w * j.cpp \in Nat /\ j.cpp * j.bps \in Nat
    BY <1>5, <1>6, TimesNat
  <2>3. t.w * j.cpp * j.bps \in Nat /\ j.cpp * j.bps * j.tileW \in Nat
    BY <1>5, <1>6, <2>2, TimesNat
  <2> QED BY <1>2, <2>1, <2>3 DEF InputPitchBits
<1>8. bytes \in Nat /\ pitch \in Nat
  <2> HIDE DEF bits
  <2> QED BY <1>7
<1>9. FirstSample(t, o) = j.cpp * t.x /\ t.w * o.cpp = j.cpp * t.w
  <2>1. j.cpp * t.x = t.x * j.cpp /\ j.cpp * t.w = t.w * j.cpp
    BY <1>5, Times
  <2>2. CASE CopiesPixels(o)
    BY <1>2, <2>1, <2>2 DEF FirstSample
  <2>3. CASE ~CopiesPixels(o)
    <3>1. t.x = 0
      BY <1>4, <2>3 DEF SideBySide, o
    <3>2. j.cpp * t.x = 0
      BY <1>5, <3>1
    <3>3. FirstSample(t, o) = 0
      BY <2>3, <3>1 DEF FirstSample
    <3> QED BY <1>2, <2>1, <3>2, <3>3
  <2> QED BY <2>2, <2>3
<1>10. Least(t.h, o.h - t.y) = t.h
  BY <1>2, <1>5 DEF Least
<1> HIDE DEF slice, pitch, from
<1>11. slice = [i \in 1 .. t.h |->
                  Step(Row(t.y + i - 1, j.cpp * t.x, j.cpp * t.w), {},
                       from + (i - 1) * pitch .. from + (i - 1) * pitch + bytes - 1)]
  <2>1. slice = [i \in 1 .. Least(t.h, o.h - t.y) |->
                   Step(Row(t.y + i - 1, FirstSample(t, o), t.w * o.cpp), {},
                        from + (i - 1) * pitch .. from + (i - 1) * pitch + bytes - 1)]
    BY Zenon, <1>1 DEF UncompressedRows, o
  <2> HIDE DEF bytes
  <2> QED BY <1>9, <1>10, <2>1
<1> HIDE DEF bytes
<1>12. /\ DOMAIN slice = 1 .. t.h
       /\ \A i \in 1 .. t.h :
            slice[i] = Step(RowOfTile(i, t, j), {},
                            from + (i - 1) * pitch .. from + (i - 1) * pitch + bytes - 1)
  BY <1>11 DEF RowOfTile
<1>13. bytes <= pitch /\ t.h * pitch <= j.bytes
  BY Zenon, <1>6
<1> QED BY Zenon, <1>8, <1>12, <1>13 DEF slice, from, t

LEMMA SpanWithin ==
  ASSUME NEW from \in Nat, NEW o \in Nat, NEW bytes \in Nat, NEW pitch \in Nat, NEW all \in Nat,
         bytes <= pitch, o + pitch <= all
  PROVE  from + o .. from + o + bytes - 1 \subseteq from .. from + all - 1
OBVIOUS

(* The input of a tile's rows is inside the tile's part, and apart.                      *)
LEMMA PackedInput ==
  ASSUME NEW j, IsTiled(j), TilingAccepted(j), IsPacked(j), SideBySide(j), NEW n \in 0 .. j.count - 1,
         UncompressedTileAccepted(n, j)
  PROVE  /\ FillsRows(j, UncompressedTileSteps(n, j), 0, Tile(n, j), {})
         /\ \A k \in DOMAIN UncompressedTileSteps(n, j) :
              UncompressedTileSteps(n, j)[k].takes \subseteq n * j.bytes .. n * j.bytes + j.bytes - 1
         /\ \A k, l \in DOMAIN UncompressedTileSteps(n, j) :
              k # l => UncompressedTileSteps(n, j)[k].takes \cap UncompressedTileSteps(n, j)[l].takes = {}
<1> DEFINE t == Tile(n, j)
           slice == UncompressedTileSteps(n, j)
           from == n * j.bytes
           all == j.count * j.bytes
           Begin(i, pitch) == (i - 1) * pitch
<1>1. PICK pitch \in Nat : \E bytes \in Nat :
           /\ bytes <= pitch /\ t.h * pitch <= j.bytes
           /\ DOMAIN slice = 1 .. t.h
           /\ \A i \in 1 .. t.h :
                slice[i] = Step(RowOfTile(i, t, j), {},
                                from + (i - 1) * pitch .. from + (i - 1) * pitch + bytes - 1)
  BY Zenon, PackedTile
<1>2. PICK bytes \in Nat :
           /\ bytes <= pitch /\ t.h * pitch <= j.bytes
           /\ DOMAIN slice = 1 .. t.h
           /\ \A i \in 1 .. t.h :
                slice[i] = Step(RowOfTile(i, t, j), {},
                                from + (i - 1) * pitch .. from + (i - 1) * pitch + bytes - 1)
  BY Zenon, <1>1
<1>3. j.count \in Nat /\ j.bytes \in Nat /\ j.size = all /\ t.h \in Nat
  <2>1. TileInside(t, j)
    BY TilePlaced DEF TileIsAt
  <2>2. t.h \in Nat
    BY <2>1 DEF TileInside
  <2> QED BY <2>2, TilesAre DEF IsPacked
<1>4. from \in Nat /\ all \in Nat /\ from + j.bytes <= all
  <2>1. n \in Nat /\ n < j.count
    BY <1>3
  <2> QED BY <1>3, <2>1, NextRow, TimesNat
<1> HIDE DEF from, all, slice, t
<1>5. \A i \in 1 .. t.h :
        slice[i] = Step(RowOfTile(i, t, j), {}, from + Begin(i, pitch) .. from + Begin(i, pitch) + bytes - 1)
  BY <1>2
<1>6. \A i \in 1 .. t.h : Begin(i, pitch) \in Nat /\ Begin(i, pitch) + pitch <= j.bytes
  <2> TAKE i \in 1 .. t.h
  <2> DEFINE m == t.h * pitch
  <2>1. i - 1 \in Nat /\ i - 1 < t.h
    BY <1>3
  <2>2. Begin(i, pitch) \in Nat /\ Begin(i, pitch) + pitch <= m /\ m \in Nat
    BY <1>3, <2>1, NextRow, TimesNat
  <2>3. m <= j.bytes
    BY <1>2
  <2> HIDE DEF m, Begin
  <2> QED BY <1>3, <2>2, <2>3
<1>7. \A i, k \in 1 .. t.h : i < k => Begin(i, pitch) + pitch <= Begin(k, pitch)
  <2> TAKE i, k \in 1 .. t.h
  <2>1. i - 1 \in Nat /\ k - 1 \in Nat /\ (i < k => i - 1 < k - 1)
    BY <1>3
  <2> QED BY <2>1, NextRow
<1> HIDE DEF Begin
<1> DEFINE b(i) == Begin(i, pitch)
<1>8. ASSUME NEW i \in 1 .. t.h
      PROVE  /\ PlainStep(slice[i]) /\ slice[i].loads = {} /\ slice[i].writes = RowOfTile(i, t, j)
             /\ slice[i].reads = {} /\ slice[i].takes = from + b(i) .. from + b(i) + bytes - 1
  <2> DEFINE r == RowOfTile(i, t, j)
             in == from + b(i) .. from + b(i) + bytes - 1
  <2>1. slice[i] = Step(r, {}, in)
    BY <1>5
  <2> HIDE DEF r, in
  <2>2. /\ PlainStep(slice[i]) /\ slice[i].loads = {} /\ slice[i].writes = r
        /\ slice[i].reads = {} /\ slice[i].takes = in
    BY <2>1, StepFields
  <2> QED BY <2>2 DEF r, in
<1>9. \A i \in 1 .. t.h : b(i) \in Nat /\ b(i) + pitch <= j.bytes
  BY <1>6
<1>10. \A i, k \in 1 .. t.h : i < k => b(i) + pitch <= b(k)
  BY <1>7
<1> HIDE DEF b
<1>11. bytes <= pitch /\ DOMAIN slice = 1 .. t.h
  BY <1>2
<1>12. \A i \in 1 .. t.h : slice[i].takes \subseteq from .. from + j.bytes - 1
  <2> TAKE i \in 1 .. t.h
  <2>1. slice[i].takes = from + b(i) .. from + b(i) + bytes - 1 /\ b(i) \in Nat /\ b(i) + pitch <= j.bytes
    BY <1>8, <1>9
  <2> DEFINE o == b(i)
  <2> HIDE DEF o
  <2>2. o \in Nat /\ o + pitch <= j.bytes /\ slice[i].takes = from + o .. from + o + bytes - 1
    BY Zenon, <2>1 DEF o
  <2>3. from + o .. from + o + bytes - 1 \subseteq from .. from + j.bytes - 1
    BY Zenon, <1>3, <1>4, <1>11, <2>2, SpanWithin
  <2> QED BY <2>2, <2>3
<1>13. \A i \in 1 .. t.h : slice[i].takes \subseteq 0 .. j.size - 1
  BY <1>3, <1>4, <1>12
<1>14. ASSUME NEW i \in 1 .. t.h, NEW k \in 1 .. t.h, i # k PROVE slice[i].takes \cap slice[k].takes = {}
  <2>1. b(i) + pitch <= b(k) \/ b(k) + pitch <= b(i)
    BY <1>3, <1>10, <1>14
  <2> DEFINE o == b(i)
             e == b(k)
  <2>2. o \in Nat /\ e \in Nat /\ (o + pitch <= e \/ e + pitch <= o)
    BY <1>9, <2>1
  <2>3. slice[i].takes = from + o .. from + o + bytes - 1 /\ slice[k].takes = from + e .. from + e + bytes - 1
    BY Zenon, <1>8
  <2> HIDE DEF o, e
  <2>4. (from + o .. from + o + bytes - 1) \cap (from + e .. from + e + bytes - 1) = {}
    BY <1>4, <1>11, <2>2
  <2> QED BY <2>3, <2>4
<1>15. 0 + t.h = t.h /\ \A i \in 1 .. t.h : 0 + i = i
  BY <1>3
<1>16. FillsRows(j, slice, 0, t, {})
  BY <1>8, <1>11, <1>13, <1>15 DEF FillsRows
<1> QED BY <1>11, <1>12, <1>14, <1>16 DEF from, slice, t

LEMMA PackedTilesArePlain ==
  ASSUME NEW j, IsTiled(j), TilingAccepted(j), IsPacked(j), SideBySide(j),
         \A n \in 0 .. j.count - 1 : UncompressedTileAccepted(n, j),
         NEW plan, DOMAIN plan = 1 .. j.count,
         \A n \in 0 .. j.count - 1 : plan[n + 1] = UncompressedTileSteps(n, j)
  PROVE  Plain(j, plan)
<1> DEFINE own == [n \in 0 .. j.count - 1 |-> {}]
           from(n) == n * j.bytes
<1>1. j.count \in Nat /\ j.bytes \in Nat
  BY TilesAre DEF IsPacked
<1>2. ASSUME NEW n \in 0 .. j.count - 1
      PROVE  /\ FillsRows(j, plan[n + 1], 0, Tile(n, j), {})
             /\ \A k \in DOMAIN plan[n + 1] : plan[n + 1][k].takes \subseteq from(n) .. from(n) + j.bytes - 1
             /\ \A k, l \in DOMAIN plan[n + 1] : k # l => plan[n + 1][k].takes \cap plan[n + 1][l].takes = {}
  BY Zenon, PackedInput
<1>3. \A n \in 0 .. j.count - 1 : from(n) \in Nat
  BY <1>1, TimesNat
<1>4. \A n, m \in 0 .. j.count - 1 : n < m => from(n) + j.bytes <= from(m)
  <2> TAKE n, m \in 0 .. j.count - 1
  <2>1. n \in Nat /\ m \in Nat
    BY <1>1
  <2> QED BY <1>1, <2>1, NextRow
<1> HIDE DEF from
<1>5. TakesApart(plan)
  <2> SUFFICES ASSUME NEW s \in DOMAIN plan, NEW u \in DOMAIN plan, NEW k \in DOMAIN plan[s],
                      NEW l \in DOMAIN plan[u], <<s, k>> # <<u, l>>
               PROVE  plan[s][k].takes \cap plan[u][l].takes = {}
    BY DEF TakesApart
  <2> DEFINE n == s - 1
             m == u - 1
  <2>1. n \in 0 .. j.count - 1 /\ n + 1 = s /\ m \in 0 .. j.count - 1 /\ m + 1 = u
    BY <1>1
  <2> HIDE DEF n, m
  <2>2. CASE s = u
    <3>1. k # l
      BY <2>2
    <3> QED BY <1>2, <2>1, <2>2, <3>1
  <2>3. CASE s # u
    <3>1. /\ plan[s][k].takes \subseteq from(n) .. from(n) + j.bytes - 1
          /\ plan[u][l].takes \subseteq from(m) .. from(m) + j.bytes - 1
      BY <1>2, <2>1
    <3>2. from(n) + j.bytes <= from(m) \/ from(m) + j.bytes <= from(n)
      <4>1. n < m \/ m < n
        BY <1>1, <2>1, <2>3
      <4> QED BY <1>4, <2>1, <4>1
    <3>3. from(n) \in Nat /\ from(m) \in Nat
      BY <1>3, <2>1
    <3>4. (from(n) .. from(n) + j.bytes - 1) \cap (from(m) .. from(m) + j.bytes - 1) = {}
      BY <1>1, <3>2, <3>3
    <3> QED BY <3>1, <3>4
  <2> QED BY <2>2, <2>3
<1>6. \A n \in 0 .. j.count - 1 : FillsRows(j, plan[n + 1], 0, Tile(n, j), own[n])
  BY <1>2
<1>7. OwnCells(j, own)
  BY DEF OwnCells
<1> HIDE DEF own
<1> QED BY <1>5, <1>6, <1>7, TiledPlan

(* What is known of a DNG whose tiles are not lossless JPEGs.                            *)
IsDng(j) ==
  /\ IsTiled(j) /\ j.compression \in {"none", "deflate", "jpeg"}
  /\ j.compression = "none" => IsPacked(j)
  /\ j.compression = "deflate" => \A n \in 0 .. j.count - 1 : j.unpacked[n + 1] \in 0 .. j.tileH
  /\ j.compression = "jpeg" =>
       \A n \in 0 .. j.count - 1 : j.jpegs[n + 1].w \in Nat /\ j.jpegs[n + 1].h \in Nat

LEMMA DngIsPlain ==
  ASSUME NEW j, IsDng(j), DngAccepts(j), DngTrusted(j), Scratch(j) = DngScratch(j)
  PROVE  Plain(j, DngWork(j))
<1> DEFINE plan == DngWork(j)
<1>1. IsTiled(j) /\ j.compression \in {"none", "deflate", "jpeg"}
  BY DEF IsDng
<1>2. TilingAccepted(j) /\ \A n \in 0 .. j.count - 1 : TileAccepts(n, j)
  BY DEF DngAccepts
<1>3. j.count \in Nat
  BY <1>1, <1>2, TilesAre
<1>4. /\ DOMAIN plan = 1 .. j.count
      /\ \A i \in 1 .. j.count :
           plan[i] = CASE j.compression = "none" -> UncompressedTileSteps(i - 1, j)
                       [] j.compression = "ljpeg" -> LJpegSteps(i - 1, j)
                       [] j.compression = "deflate" -> DeflateSteps(i - 1, j)
                       [] j.compression = "jpeg" -> JpegSteps(i - 1, j)
  BY DEF DngWork
<1> HIDE DEF plan
<1>5. \A n \in 0 .. j.count - 1 : n + 1 \in 1 .. j.count /\ (n + 1) - 1 = n
  BY <1>3
<1>6. CASE j.compression = "none"
  <2>1. \A i \in 1 .. j.count : plan[i] = UncompressedTileSteps(i - 1, j)
    BY Zenon, <1>4, <1>6
  <2>2. \A n \in 0 .. j.count - 1 : plan[n + 1] = UncompressedTileSteps(n, j)
    BY Zenon, <1>5, <2>1
  <2>3. \A n \in 0 .. j.count - 1 : UncompressedTileAccepted(n, j)
    BY Zenon, <1>2, <1>6 DEF TileAccepts
  <2>4. IsPacked(j) /\ SideBySide(j) /\ DOMAIN plan = 1 .. j.count
    BY <1>4, <1>6 DEF IsDng, DngTrusted, SideBySide
  <2> QED BY Zenon, <1>1, <1>2, <2>2, <2>3, <2>4, PackedTilesArePlain DEF plan
<1>7. CASE j.compression = "deflate"
  <2>1. \A i \in 1 .. j.count : plan[i] = DeflateSteps(i - 1, j)
    BY Zenon, <1>4, <1>7
  <2>2. \A n \in 0 .. j.count - 1 : plan[n + 1] = DeflateSteps(n, j)
    BY Zenon, <1>5, <2>1
  <2>3. Scratch(j) = BufferRows(j)
    BY <1>7 DEF DngScratch, BufferRows
  <2>4. \A n \in 0 .. j.count - 1 : j.unpacked[n + 1] \in Tile(n, j).h .. j.tileH
    <3> TAKE n \in 0 .. j.count - 1
    <3>1. j.unpacked[n + 1] \in 0 .. j.tileH /\ Tile(n, j).h <= j.unpacked[n + 1]
      BY <1>7 DEF IsDng, DngTrusted
    <3>2. Tile(n, j).h \in Nat /\ j.tileH \in Nat
      <4>1. TileInside(Tile(n, j), j)
        BY <1>1, <1>2, TilePlaced DEF TileIsAt
      <4> QED BY <1>1, <4>1 DEF TileInside, IsTiled
    <3> QED BY <3>1, <3>2
  <2>5. DOMAIN plan = 1 .. j.count
    BY <1>4
  <2> QED BY Zenon, <1>1, <1>2, <2>2, <2>3, <2>4, <2>5, DeflateTilesArePlain DEF plan
<1>8. CASE j.compression = "jpeg"
  <2>1. \A i \in 1 .. j.count : plan[i] = JpegSteps(i - 1, j)
    BY Zenon, <1>4, <1>8
  <2>2. \A n \in 0 .. j.count - 1 : plan[n + 1] = JpegSteps(n, j)
    BY Zenon, <1>5, <2>1
  <2>3. /\ DOMAIN plan = 1 .. j.count
        /\ \A n \in 0 .. j.count - 1 : Copied(n, j) = [w |-> Tile(n, j).w, h |-> Tile(n, j).h]
    BY <1>4, <1>8 DEF DngTrusted
  <2> QED BY Zenon, <1>1, <1>2, <2>2, <2>3, JpegTilesArePlain DEF plan
<1> QED BY <1>1, <1>6, <1>7, <1>8

(* Whatever the data of the tiles is, their steps stay inside the image and the buffer.    *)
StepInside(j, step) ==
  /\ PlainStep(step) /\ step.loads = {}
  /\ step.writes \subseteq Cells(j) /\ step.reads \subseteq Cells(j)

LEMMA InsideIsBounded ==
  ASSUME NEW j, NEW slice, \A k \in DOMAIN slice : StepInside(j, slice[k])
  PROVE  IsBounded(j, slice)
BY DEF IsBounded, StepInside, PlainStep, Touched

LEMMA RowInCells ==
  ASSUME NEW j, j.w \in Nat, j.h \in Nat, NEW y \in 0 .. j.h - 1,
         NEW first \in Nat, NEW width \in Int, first + width <= j.w
  PROVE  Row(y, first, width) \subseteq Cells(j)
BY DEF Row, Samples, Cells

LEMMA PixelsInside ==
  ASSUME NEW j, IsTiled(j), TilingAccepted(j), NEW x \in Nat, NEW v \in Nat, x + v <= PixelsPerRow(j)
  PROVE  /\ j.cpp * x \in Nat /\ j.cpp * v \in Nat /\ j.cpp * x + j.cpp * v <= j.w
         /\ x <= j.cpp * x
<1> DEFINE P == PixelsPerRow(j)
           d == P - (x + v)
<1>1. P \in Nat /\ j.w = P * j.cpp /\ j.w \in Nat /\ j.cpp \in Nat \ {0}
  BY TilesAre DEF IsTiled
<1> HIDE DEF P
<1>2. d \in Nat /\ P = x + v + d
  BY <1>1 DEF P
<1> HIDE DEF d
<1>3. j.cpp * x \in Nat /\ j.cpp * v \in Nat /\ j.cpp * d \in Nat
  BY <1>1, <1>2, TimesNat
<1>4. P * j.cpp = j.cpp * x + j.cpp * v + j.cpp * d
  BY <1>1, <1>2
<1>5. x <= j.cpp * x
  BY <1>1
<1> QED BY <1>1, <1>3, <1>4, <1>5

LEMMA JpegTilesBounded ==
  ASSUME NEW j, IsTiled(j), TilingAccepted(j), NEW n \in 0 .. j.count - 1,
         j.jpegs[n + 1].w \in Nat, j.jpegs[n + 1].h \in Nat
  PROVE  IsSlice(JpegSteps(n, j)) /\ IsBounded(j, JpegSteps(n, j))
<1> DEFINE t == Tile(n, j)
           w == Copied(n, j).w
           h == Copied(n, j).h
           slice == JpegSteps(n, j)
<1>1. TileInside(t, j) /\ PixelsPerRow(j) \in Nat /\ j.w \in Nat /\ j.h \in Nat
  BY TilePlaced, TilesAre DEF TileIsAt, IsTiled
<1>2. slice = [i \in 1 .. h |-> Write(Row(t.y + i - 1, j.cpp * t.x, j.cpp * w))]
  BY DEF JpegSteps
<1>3. w = Least(PixelsPerRow(j) - t.x, j.jpegs[n + 1].w) /\ h = Least(j.h - t.y, j.jpegs[n + 1].h)
  BY DEF Copied
<1> HIDE DEF t, w, h, slice
<1>4. t.x \in Nat /\ t.y \in Nat /\ w \in Nat /\ h \in Nat /\ t.x + w <= PixelsPerRow(j) /\ t.y + h <= j.h
  BY <1>1, <1>3 DEF TileInside, Least
<1>5. ASSUME NEW i \in 1 .. h PROVE Row(t.y + i - 1, j.cpp * t.x, j.cpp * w) \subseteq Cells(j)
  <2>1. t.y + i - 1 \in 0 .. j.h - 1
    BY <1>1, <1>4
  <2>2. j.cpp * t.x \in Nat /\ j.cpp * w \in Nat /\ j.cpp * t.x + j.cpp * w <= j.w
    BY <1>4, PixelsInside
  <2> QED BY <1>1, <2>1, <2>2, RowInCells
<1>6. ASSUME NEW i \in 1 .. h PROVE StepInside(j, slice[i])
  <2> DEFINE r == Row(t.y + i - 1, j.cpp * t.x, j.cpp * w)
  <2>1. slice[i] = Step(r, {}, {}) /\ r \subseteq Cells(j)
    BY <1>2, <1>5 DEF Write
  <2> HIDE DEF r
  <2> QED BY <2>1, StepFields DEF StepInside
<1>7. DOMAIN slice = 1 .. h
  BY <1>2
<1> QED BY <1>4, <1>6, <1>7, ListedSlice, InsideIsBounded DEF slice

LEMMA DeflateTilesBounded ==
  ASSUME NEW j, IsTiled(j), TilingAccepted(j), NEW n \in 0 .. j.count - 1,
         j.unpacked[n + 1] \in 0 .. j.tileH, Scratch(j) = BufferRows(j)
  PROVE  IsSlice(DeflateSteps(n, j)) /\ IsBounded(j, DeflateSteps(n, j))
<1> DEFINE t == Tile(n, j)
           rows == UnpackedRows(n, j)
           slice == DeflateSteps(n, j)
<1>1. TileInside(t, j) /\ j.w \in Nat /\ j.h \in Nat /\ j.tileH \in Nat
  BY TilePlaced DEF TileIsAt, IsTiled
<1>2. /\ t.x \in Nat /\ t.y \in Nat /\ t.w \in Nat /\ t.h \in Nat
      /\ t.x + t.w <= PixelsPerRow(j) /\ t.y + t.h <= j.h /\ t.h <= j.tileH
  <2> HIDE DEF t
  <2> QED BY <1>1 DEF TileInside
<1>3. /\ IsSlice(slice) /\ DOMAIN slice = 1 .. 1 + t.h /\ slice[1] = Step(rows, {}, {})
      /\ \A i \in 1 .. t.h : slice[1 + i] = Step(RowOfTile(i, t, j), {BufferRow(n, i - 1)}, {})
  BY Zenon, <1>2, DeflateSlice
<1>4. rows \subseteq Cells(j)
  <2>1. 0 .. j.unpacked[n + 1] - 1 \subseteq 0 .. j.tileH - 1
    BY <1>1
  <2>2. rows \subseteq BufferRows(j)
    BY <2>1 DEF UnpackedRows, BufferRows
  <2> QED BY <2>2 DEF Cells
<1> HIDE DEF t, rows, slice
<1>5. ASSUME NEW i \in 1 .. t.h PROVE StepInside(j, slice[1 + i])
  <2> DEFINE r == RowOfTile(i, t, j)
             b == {BufferRow(n, i - 1)}
  <2>1. t.y + i - 1 \in 0 .. j.h - 1 /\ i - 1 \in 0 .. j.tileH - 1
    BY <1>1, <1>2
  <2>2. j.cpp * t.x \in Nat /\ j.cpp * t.w \in Nat /\ j.cpp * t.x + j.cpp * t.w <= j.w
    BY <1>2, PixelsInside
  <2>3. r \subseteq Cells(j)
    BY <1>1, <2>1, <2>2, RowInCells DEF RowOfTile
  <2>4. b \subseteq Cells(j)
    BY <2>1 DEF BufferRows, Cells
  <2>5. slice[1 + i] = Step(r, b, {})
    BY <1>3
  <2> HIDE DEF r, b
  <2> QED BY <2>3, <2>4, <2>5, StepFields DEF StepInside
<1>6. StepInside(j, slice[1])
  BY <1>3, <1>4, StepFields DEF StepInside
<1>7. \A k \in 1 .. 1 + t.h : StepInside(j, slice[k])
  <2> TAKE k \in 1 .. 1 + t.h
  <2>1. CASE k = 1
    BY <1>6, <2>1
  <2>2. CASE k # 1
    <3> DEFINE i == k - 1
    <3>1. i \in 1 .. t.h /\ 1 + i = k
      BY <1>2, <2>2
    <3> HIDE DEF i
    <3> QED BY <1>5, <3>1
  <2> QED BY <2>1, <2>2
<1> QED BY <1>3, <1>7, InsideIsBounded DEF slice

LEMMA PackedTilesBounded ==
  ASSUME NEW j, IsTiled(j), TilingAccepted(j), IsPacked(j), NEW n \in 0 .. j.count - 1
  PROVE  IsSlice(UncompressedTileSteps(n, j)) /\ IsBounded(j, UncompressedTileSteps(n, j))
<1> DEFINE t == Tile(n, j)
           o == Ordered(j)
           slice == UncompressedTileSteps(n, j)
           first == FirstSample(t, o)
           pitch == InputPitchBits(j) \div 8
           from == n * j.bytes
           bytes == OutPixelBits(t, o) \div 8
           Takes(i) == from + (i - 1) * pitch .. from + (i - 1) * pitch + bytes - 1
<1>1. slice = UncompressedRows(t, pitch, from, o)
  BY Zenon DEF UncompressedTileSteps
<1>2. o.w = j.w /\ o.h = j.h /\ o.cpp = j.cpp
  BY OrderedIs
<1>3. TileInside(t, j) /\ j.w \in Nat /\ j.h \in Nat /\ j.cpp \in Nat \ {0}
  BY TilePlaced DEF TileIsAt, IsTiled
<1> HIDE DEF t, o
<1>4. /\ t.x \in Nat /\ t.y \in Nat /\ t.w \in Nat /\ t.h \in Nat
      /\ t.x + t.w <= PixelsPerRow(j) /\ t.y + t.h <= j.h
  BY <1>3 DEF TileInside
<1>5. /\ j.cpp * t.x \in Nat /\ j.cpp * t.w \in Nat /\ j.cpp * t.x + j.cpp * t.w <= j.w
      /\ t.x <= j.cpp * t.x /\ t.x * j.cpp = j.cpp * t.x /\ t.w * j.cpp = j.cpp * t.w
  BY <1>3, <1>4, PixelsInside, Times
<1>6. first \in Nat /\ first <= j.cpp * t.x
  BY <1>2, <1>4, <1>5 DEF FirstSample
<1>7. Least(t.h, o.h - t.y) = t.h
  BY <1>2, <1>3, <1>4 DEF Least
<1>8. slice = [i \in 1 .. t.h |-> Step(Row(t.y + i - 1, first, t.w * o.cpp), {}, Takes(i))]
  BY <1>1, <1>7 DEF UncompressedRows
<1> HIDE DEF slice, first, Takes
<1>9. ASSUME NEW i \in 1 .. t.h PROVE StepInside(j, slice[i])
  <2> DEFINE r == Row(t.y + i - 1, first, t.w * o.cpp)
  <2>1. t.y + i - 1 \in 0 .. j.h - 1
    BY <1>3, <1>4
  <2>2. t.w * o.cpp \in Nat /\ first + t.w * o.cpp <= j.w
    BY <1>2, <1>3, <1>5, <1>6
  <2>3. r \subseteq Cells(j)
    BY <1>3, <1>6, <2>1, <2>2, RowInCells
  <2>4. slice[i] = Step(r, {}, Takes(i))
    BY <1>8
  <2> HIDE DEF r
  <2> QED BY <2>3, <2>4, StepFields DEF StepInside
<1>10. DOMAIN slice = 1 .. t.h
  BY <1>8
<1> QED BY <1>4, <1>9, <1>10, ListedSlice, InsideIsBounded DEF slice

LEMMA DngIsBounded ==
  ASSUME NEW j, IsDng(j), DngAccepts(j), Scratch(j) = DngScratch(j)
  PROVE  Bounded(j, DngWork(j))
<1> DEFINE plan == DngWork(j)
<1>1. IsTiled(j) /\ j.compression \in {"none", "deflate", "jpeg"} /\ TilingAccepted(j)
  BY DEF IsDng, DngAccepts
<1>2. j.count \in Nat
  BY <1>1, TilesAre
<1> SUFFICES ASSUME NEW s \in DOMAIN plan PROVE IsSlice(plan[s]) /\ IsBounded(j, plan[s])
  BY DEF Bounded
<1> DEFINE n == s - 1
<1>3. s \in 1 .. j.count /\ n \in 0 .. j.count - 1 /\ n + 1 = s
  BY <1>2 DEF DngWork
<1>4. plan[s] = CASE j.compression = "none" -> UncompressedTileSteps(n, j)
                  [] j.compression = "ljpeg" -> LJpegSteps(n, j)
                  [] j.compression = "deflate" -> DeflateSteps(n, j)
                  [] j.compression = "jpeg" -> JpegSteps(n, j)
  BY <1>3 DEF DngWork
<1> HIDE DEF plan, n
<1>5. CASE j.compression = "none"
  <2>1. IsPacked(j) /\ plan[s] = UncompressedTileSteps(n, j)
    BY <1>4, <1>5 DEF IsDng
  <2> QED BY <1>1, <1>3, <2>1, PackedTilesBounded
<1>6. CASE j.compression = "deflate"
  <2>1. Scratch(j) = BufferRows(j)
    BY <1>6 DEF DngScratch, BufferRows
  <2>2. j.unpacked[n + 1] \in 0 .. j.tileH /\ plan[s] = DeflateSteps(n, j)
    BY <1>3, <1>4, <1>6 DEF IsDng
  <2> QED BY <1>1, <1>3, <2>1, <2>2, DeflateTilesBounded
<1>7. CASE j.compression = "jpeg"
  <2>1. j.jpegs[n + 1].w \in Nat /\ j.jpegs[n + 1].h \in Nat /\ plan[s] = JpegSteps(n, j)
    BY <1>3, <1>4, <1>7 DEF IsDng
  <2> QED BY <1>1, <1>3, <2>1, JpegTilesBounded
<1> QED BY <1>1, <1>5, <1>6, <1>7
-----------------------------------------------------------------------------
(* All of these decompressors together.  What is so of a job by its types and its callers,
   besides what the constructor checks: sizes are natural numbers, a row has whole pixels,
   the loops of UncompressedDecompressor for one sample per pixel are called with one, the
   entries of a table are unsigned, an sRaw image has the dimensions that its source gives,
   zlib does not write behind the buffer it is given, and the parts of the input of
   uncompressed tiles follow each other (IsPacked).                                 *)
ProvedCodecs ==
  {"panasonic4", "panasonic5", "panasonic6", "panasonic7", "panasonic8", "uncompressed",
   "8bit", "12bitUnpacked", "12bitControl", "sraw", "nikon", "pentax", "samsung1",
   "samsung2", "kodak", "olympus", "arw1", "arw2", "phaseone", "crw", "samsung0", "dng"}

IsJob(j) ==
  /\ IsImage(j) /\ j.codec \in ProvedCodecs
  /\ j.codec = "panasonic4" => j.split \in Nat
  /\ j.codec = "panasonic8" => AreRects(j)
  /\ j.codec \in UncompressedCodecs => j.pitch \in Nat /\ j.w % j.cpp = 0
  /\ j.codec \in UncompressedCodecs \ {"uncompressed"} => j.cpp = 1
  /\ j.codec = "sraw" => IsSRaw(j)
  /\ j.codec = "nikon" => j.split \in Nat
  /\ j.codec = "samsung2" => j.motion \in 0 .. 7
  /\ j.codec = "crw" => j.lowbits \in BOOLEAN
  /\ j.codec = "samsung0" => j.offsets \in Seq(Nat)
  /\ j.codec = "dng" => IsDng(j)

(* The loops for one sample per pixel are called for the whole image.              *)
LEMMA LoopNotEmpty ==
  ASSUME NEW j, IsImage(j), j.cpp = 1, LoopAccepts(j)
  PROVE  j.w > 0 /\ j.h > 0
BY DEF IsImage, LoopAccepts, UncompressedAccepts, WholeImage, PixelsPerRow

LEMMA JobIsPlain ==
  ASSUME NEW j, IsJob(j), CodecAccepts(j), CodecTrusted(j), Scratch(j) = CodecScratch(j)
  PROVE  Plain(j, CodecWork(j))
<1>1. IsImage(j) /\ j.codec \in ProvedCodecs
  BY DEF IsJob
<1>2. CASE j.codec = "panasonic4"
  <2>1. V4Accepts(j) /\ CodecWork(j) = V4Work(j)
    BY Zenon, <1>2 DEF CodecAccepts, CodecWork, UncompressedCodecs
  <2>2. j.split \in Nat
    BY <1>2 DEF IsJob, UncompressedCodecs
  <2>3. Plain(j, V4Work(j))
    BY <1>2, <1>1, <2>1, <2>2, V4IsPlain
  <2> QED BY <2>1, <2>3
<1>3. CASE j.codec = "panasonic5"
  <2>1. V5Accepts(j) /\ CodecWork(j) = V5Work(j)
    BY Zenon, <1>3 DEF CodecAccepts, CodecWork, UncompressedCodecs
  <2>2. Plain(j, V5Work(j))
    BY <1>3, <1>1, <2>1, V5IsPlain
  <2> QED BY <2>1, <2>2
<1>4. CASE j.codec = "panasonic6" \/ j.codec = "panasonic7"
  <2>1. V6Accepts(j) /\ CodecWork(j) = V6Work(j)
    BY Zenon, <1>4 DEF CodecAccepts, CodecWork, UncompressedCodecs
  <2>2. Plain(j, V6Work(j))
    BY <1>4, <1>1, <2>1, V6IsPlain
  <2> QED BY <2>1, <2>2
<1>5. CASE j.codec = "panasonic8"
  <2>1. V8Accepts(j) /\ CodecWork(j) = V8Work(j)
    BY Zenon, <1>5 DEF CodecAccepts, CodecWork, UncompressedCodecs
  <2>2. AreRects(j)
    BY <1>5 DEF IsJob, UncompressedCodecs
  <2>3. Plain(j, V8Work(j))
    BY <1>5, <1>1, <2>1, <2>2, V8IsPlain
  <2> QED BY <2>1, <2>3
<1>6. CASE j.codec = "uncompressed"
  <2>1. LoopAccepts(j) /\ CodecWork(j) = UncompressedWork(j)
    BY Zenon, <1>6 DEF CodecAccepts, CodecWork, UncompressedCodecs
  <2>2. j.pitch \in Nat /\ j.w % j.cpp = 0
    BY <1>6 DEF IsJob, UncompressedCodecs
  <2>3. Plain(j, UncompressedWork(j))
    BY <1>6, <1>1, <2>1, <2>2, UncompressedIsPlain
  <2> QED BY <2>1, <2>3
<1>7. CASE j.codec = "8bit"
  <2>1. LoopAccepts(j) /\ CodecWork(j) = BytesWork(1, j)
    BY Zenon, <1>7 DEF CodecAccepts, CodecWork, UncompressedCodecs
  <2>2. j.pitch \in Nat /\ j.cpp = 1
    BY <1>7 DEF IsJob, UncompressedCodecs
  <2>3. j.w > 0 /\ j.h > 0
    BY <1>1, <2>1, <2>2, LoopNotEmpty
  <2>4. EnoughLines(j.w, j)
    BY Zenon, <1>7, <2>1 DEF LoopAccepts
  <2>5. 1 * j.w = j.w
    BY <1>1 DEF IsImage
  <2>6. Plain(j, BytesWork(1, j))
    BY <1>1, <2>1, <2>2, <2>3, <2>4, <2>5, BytesArePlain
  <2> QED BY <2>1, <2>6
<1>8. CASE j.codec = "12bitUnpacked"
  <2>1. LoopAccepts(j) /\ CodecWork(j) = BytesWork(2, j)
    BY Zenon, <1>8 DEF CodecAccepts, CodecWork, UncompressedCodecs
  <2>2. j.pitch \in Nat /\ j.cpp = 1
    BY <1>8 DEF IsJob, UncompressedCodecs
  <2>3. j.w > 0 /\ j.h > 0
    BY <1>1, <2>1, <2>2, LoopNotEmpty
  <2>4. EnoughLines(2 * j.w, j)
    BY Zenon, <1>8, <2>1 DEF LoopAccepts
  <2>5. Plain(j, BytesWork(2, j))
    BY <1>1, <2>1, <2>2, <2>3, <2>4, BytesArePlain
  <2> QED BY <2>1, <2>5
<1>9. CASE j.codec = "12bitControl"
  <2>1. LoopAccepts(j) /\ CodecWork(j) = ControlWork(j)
    BY Zenon, <1>9 DEF CodecAccepts, CodecWork, UncompressedCodecs
  <2>2. j.pitch \in Nat /\ j.cpp = 1
    BY <1>9 DEF IsJob, UncompressedCodecs
  <2>3. j.w > 0 /\ j.h > 0
    BY <1>1, <2>1, <2>2, LoopNotEmpty
  <2>4. Plain(j, ControlWork(j))
    BY <1>9, <1>1, <2>1, <2>2, <2>3, ControlIsPlain
  <2> QED BY <2>1, <2>4
<1>10. CASE j.codec = "sraw"
  <2>1. SRawAccepts(j) /\ CodecWork(j) = SRawWork(j)
    BY Zenon, <1>10 DEF CodecAccepts, CodecWork, UncompressedCodecs
  <2>2. IsSRaw(j)
    BY <1>10 DEF IsJob, UncompressedCodecs
  <2>3. Plain(j, SRawWork(j))
    BY <1>10, <1>1, <2>1, <2>2, SRawIsPlain
  <2> QED BY <2>1, <2>3
<1>11. CASE j.codec = "nikon"
  <2>1. NikonAccepts(j) /\ CodecWork(j) = NikonWork(j)
    BY Zenon, <1>11 DEF CodecAccepts, CodecWork, UncompressedCodecs
  <2>2. j.split \in Nat
    BY <1>11 DEF IsJob, UncompressedCodecs
  <2>3. Plain(j, NikonWork(j))
    BY <1>11, <1>1, <2>1, <2>2, NikonIsPlain
  <2> QED BY <2>1, <2>3
<1>12. CASE j.codec = "pentax"
  <2>1. PentaxAccepts(j) /\ CodecWork(j) = TwoUpWork(j)
    BY Zenon, <1>12 DEF CodecAccepts, CodecWork, UncompressedCodecs
  <2>2. Plain(j, TwoUpWork(j))
    BY <1>12, <1>1, <2>1, TwoUpIsPlain
  <2> QED BY <2>1, <2>2
<1>13. CASE j.codec = "samsung1"
  <2>1. SamsungV1Accepts(j) /\ CodecWork(j) = TwoUpWork(j)
    BY Zenon, <1>13 DEF CodecAccepts, CodecWork, UncompressedCodecs
  <2>2. Plain(j, TwoUpWork(j))
    BY <1>13, <1>1, <2>1, TwoUpIsPlain
  <2> QED BY <2>1, <2>2
<1>14. CASE j.codec = "samsung2"
  <2>1. SamsungV2Accepts(j) /\ CodecWork(j) = SamsungV2Work(j)
    BY Zenon, <1>14 DEF CodecAccepts, CodecWork, UncompressedCodecs
  <2>2. j.motion \in 0 .. 7
    BY <1>14 DEF IsJob, UncompressedCodecs
  <2>3. Plain(j, SamsungV2Work(j))
    BY <1>14, <1>1, <2>1, <2>2, SamsungV2IsPlain
  <2> QED BY <2>1, <2>3
<1>15. CASE j.codec = "kodak"
  <2>1. KodakAccepts(j) /\ CodecWork(j) = KodakWork(j)
    BY Zenon, <1>15 DEF CodecAccepts, CodecWork, UncompressedCodecs
  <2>2. Plain(j, KodakWork(j))
    BY <1>15, <1>1, <2>1, KodakIsPlain
  <2> QED BY <2>1, <2>2
<1>16. CASE j.codec = "olympus"
  <2>1. OlympusAccepts(j) /\ CodecWork(j) = OlympusWork(j)
    BY Zenon, <1>16 DEF CodecAccepts, CodecWork, UncompressedCodecs
  <2>2. Plain(j, OlympusWork(j))
    BY <1>16, <1>1, <2>1, OlympusIsPlain
  <2> QED BY <2>1, <2>2
<1>17. CASE j.codec = "arw1"
  <2>1. SonyArw1Accepts(j) /\ CodecWork(j) = SonyArw1Work(j)
    BY Zenon, <1>17 DEF CodecAccepts, CodecWork, UncompressedCodecs
  <2>2. Plain(j, SonyArw1Work(j))
    BY <1>17, <1>1, <2>1, SonyArw1IsPlain
  <2> QED BY <2>1, <2>2
<1>18. CASE j.codec = "arw2"
  <2>1. SonyArw2Accepts(j) /\ CodecWork(j) = SonyArw2Work(j)
    BY Zenon, <1>18 DEF CodecAccepts, CodecWork, UncompressedCodecs
  <2>2. Plain(j, SonyArw2Work(j))
    BY <1>18, <1>1, <2>1, SonyArw2IsPlain
  <2> QED BY <2>1, <2>2
<1>19. CASE j.codec = "phaseone"
  <2>1. PhaseOneAccepts(j) /\ CodecWork(j) = PhaseOneWork(j)
    BY Zenon, <1>19 DEF CodecAccepts, CodecWork, UncompressedCodecs
  <2>2. Plain(j, PhaseOneWork(j))
    BY <1>19, <1>1, <2>1, PhaseOneIsPlain
  <2> QED BY <2>1, <2>2
<1>20. CASE j.codec = "crw"
  <2>1. CrwAccepts(j) /\ CodecWork(j) = CrwWork(j)
    BY Zenon, <1>20 DEF CodecAccepts, CodecWork, UncompressedCodecs
  <2>2. j.lowbits \in BOOLEAN
    BY <1>20 DEF IsJob, UncompressedCodecs
  <2>3. Plain(j, CrwWork(j))
    BY <1>20, <1>1, <2>1, <2>2, CrwIsPlain
  <2> QED BY <2>1, <2>3
<1>21. CASE j.codec = "samsung0"
  <2>1. SamsungV0Accepts(j) /\ CodecWork(j) = SamsungV0Work(j)
    BY Zenon, <1>21 DEF CodecAccepts, CodecWork, UncompressedCodecs
  <2>2. j.offsets \in Seq(Nat)
    BY <1>21 DEF IsJob, UncompressedCodecs
  <2>3. Plain(j, SamsungV0Work(j))
    BY <1>21, <1>1, <2>1, <2>2, SamsungV0IsPlain
  <2> QED BY <2>1, <2>3
<1>22. CASE j.codec = "dng"
  <2>1. DngAccepts(j) /\ CodecWork(j) = DngWork(j)
    BY Zenon, <1>22 DEF CodecAccepts, CodecWork, UncompressedCodecs
  <2>2. IsDng(j) /\ DngTrusted(j)
    BY <1>22 DEF IsJob, UncompressedCodecs, CodecTrusted
  <2>3. Scratch(j) = DngScratch(j)
    BY Zenon, <1>22 DEF CodecScratch
  <2>4. Plain(j, DngWork(j))
    BY <1>22, <1>1, <2>1, <2>2, <2>3, DngIsPlain
  <2> QED BY <2>1, <2>4
<1> QED BY <1>1, <1>2, <1>3, <1>4, <1>5, <1>6, <1>7, <1>8, <1>9, <1>10, <1>11, <1>12, <1>13, <1>14, <1>15, <1>16, <1>17, <1>18, <1>19, <1>20, <1>21, <1>22 DEF ProvedCodecs

(* The parameters of Raster, as its runs give them, and jobs of these decompressors; what
   is not accepted may be anything.                                               *)
JobsAreProved ==
  \A j \in Jobs :
    /\ CodecAccepts(j) => IsJob(j)
    /\ Accepts(j) = CodecAccepts(j)
    /\ Scratch(j) = CodecScratch(j) /\ Work(j) = CodecWork(j)
    /\ Trusted(j) = CodecTrusted(j)

LEMMA ProvedJobsAreSound == ASSUME JobsAreProved PROVE PlansAreSound
<1> SUFFICES ASSUME NEW j \in Jobs, Accepts(j)
             PROVE  Bounded(j, Work(j)) /\ (Trusted(j) => Sound(j))
  BY DEF PlansAreSound
<1>1. /\ IsJob(j) /\ CodecAccepts(j) /\ Scratch(j) = CodecScratch(j) /\ Work(j) = CodecWork(j)
      /\ Trusted(j) = CodecTrusted(j)
  BY DEF JobsAreProved
<1>2. Trusted(j) => Sound(j)
  <2> SUFFICES ASSUME CodecTrusted(j) PROVE Sound(j)
    BY <1>1
  <2>1. Plain(j, Work(j))
    BY <1>1, JobIsPlain
  <2> QED BY <2>1, PlainIsSound
<1>3. CASE j.codec = "dng"
  <2>1. DngAccepts(j) /\ CodecWork(j) = DngWork(j)
    BY Zenon, <1>1, <1>3 DEF CodecAccepts, CodecWork, UncompressedCodecs
  <2>2. Scratch(j) = DngScratch(j) /\ IsDng(j)
    BY <1>1, <1>3 DEF CodecScratch, IsJob
  <2>3. Bounded(j, Work(j))
    BY <1>1, <2>1, <2>2, DngIsBounded
  <2> QED BY <1>2, <2>3
<1>4. CASE j.codec # "dng"
  <2>1. Sound(j)
    BY <1>1, <1>2, <1>4 DEF CodecTrusted
  <2> QED BY <2>1, SoundIsBounded
<1> QED BY <1>3, <1>4
-----------------------------------------------------------------------------
(* In every interleaving of the slices, for an image of every size and whatever data its
   tiles have: the state has its shape and no step of an accepted job touches a sample
   outside the image, or one outside the image it starts from.                     *)
THEOREM RasterTypes == ASSUME JobsAreProved PROVE Spec => []TypeOK
BY ProvedJobsAreSound, PlansSuffice, PTL

(* No sample is written twice, by one slice or by two, where the tiles' data is what
   DngTrusted says (the property is about Trusted jobs, as the next two are): a lossy JPEG
   larger than its tile and packed tiles side by side are written over other tiles.  *)
THEOREM TargetsAreFresh == ASSUME JobsAreProved PROVE Spec => []TargetsFresh
BY ProvedJobsAreSound, PlansSuffice, PTL

(* A prediction uses only what its own slice has written before, and the input of a step is
   inside the buffer and no other step's: of trusted data, since rows that zlib has not
   unpacked are read as the buffer was.                                           *)
THEOREM InputsAreReady == ASSUME JobsAreProved PROVE Spec => []InputsReady
BY ProvedJobsAreSound, PlansSuffice, PTL

(* A decompressor that returns has written all of the image: of trusted data, since a lossy
   JPEG that is smaller than its tile leaves samples out.                          *)
THEOREM ImagesAreComplete == ASSUME JobsAreProved PROVE Spec => []Complete
BY ProvedJobsAreSound, PlansSuffice, PTL
=============================================================================
