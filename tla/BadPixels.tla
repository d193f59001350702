------------------------------ MODULE BadPixels ------------------------------
(* The bad pixels of a raw image.  The threads of a decompressor, and the opcodes and
   calibration tables applied after it, record positions in mBadPixelPositions under
   mBadPixelMutex.  RawImageData::fixBadPixels() then moves them into a bitmap, and a
   team of workers, each with its own rows, replaces every marked pixel by an
   interpolation of its valid neighbours, in place and without a lock: the picture one
   worker reads is the picture the others write.

   The image is one of 16-bit samples (RawImageDataU16).                          *)
EXTENDS Integers, FiniteSets, FiniteSetsExt

CONSTANTS Width, Height,  \* uncropped_dim
          Cpp,            \* components per pixel
          Step,           \* 2 for a colour filter array, 1 otherwise
          Cores,          \* rawspeed_get_number_of_processor_cores()
          Recorder,       \* who may record bad pixels
          Candidate,      \* the pixels that may turn out to be bad
          Picture,        \* the samples as they were decoded
          MaxSample       \* 65535, the largest sample and the largest dimension

Pixel == (0 .. Width - 1) \X (0 .. Height - 1)

(* The position of a sample in getU16DataAsUncroppedArray2DRef().                 *)
Sample == (0 .. Width * Cpp - 1) \X (0 .. Height - 1)

ASSUME BadPixelsAssumption == /\ MaxSample \in Nat
                              /\ Width \in 1 .. MaxSample /\ Height \in 1 .. MaxSample
                              /\ Cpp \in Nat \ {0}
                              /\ Step \in {1, 2}
                              /\ Cores \in Nat \ {0}
                              /\ Candidate \subseteq Pixel
                              /\ Picture \in [Sample -> 0 .. MaxSample]

Direction == 0 .. 3       \* left, right, up, down

(* The rows startWorker() hands to worker i.                                      *)
Worker == 0 .. Cores - 1

RowsPerWorker == (Height + Cores - 1) \div Cores

LesserOf(a, b) == IF a < b THEN a ELSE b

RowsRoundedDown(i) ==     \* (mutant) y_per_thread = height / threads
  LET n == Height \div Cores
  IN  LesserOf(i * n, Height) .. LesserOf((i + 1) * n, Height) - 1

Rows(i) ==
  LesserOf(i * RowsPerWorker, Height) .. LesserOf((i + 1) * RowsPerWorker, Height) - 1

(* fixBadPixelsThread() looks at the bitmap in blocks of 32 pixels.               *)
BlockPixels == 32

VisitedColumn == 0 .. BlockPixels * ((Width + 15) \div BlockPixels) - 1

InScanOrder(p, q) == p[2] < q[2] \/ (p[2] = q[2] /\ p[1] <= q[1])

VARIABLES
  zeroPos,      \* per recorder: the bad pixels it has found
  recorder,     \* per recorder: "found", "insert" (holding the mutex), "done"
  seen,         \* per recorder: the vector as it is when the insertion begins
  positions,    \* mBadPixelPositions
  map,          \* mBadPixelMap
  phase,        \* "record", "fix", "done"
  img,          \* the samples
  todo,         \* per worker: the marked pixels it has not finished yet
  at,           \* per worker: "scan", "find", "write"
  cur,          \* per worker: x, y of fixBadPixel()
  component,    \* per worker: component of fixBadPixel()
  direction,    \* per worker: the direction to look in next
  values, dist  \* per worker: what has been found in each direction

recording == <<zeroPos, recorder, seen, positions>>
working == <<img, todo, at, cur, component, direction, values, dist>>
vars == <<recording, map, phase, working>>

Nothing == [d \in Direction |-> -1]
Nowhere == [d \in Direction |-> 0]

Init == /\ zeroPos \in [Recorder -> SUBSET Candidate]
        /\ recorder = [r \in Recorder |-> IF zeroPos[r] = {} THEN "done" ELSE "found"]
        /\ seen = [r \in Recorder |-> {}]
        /\ positions = {}
        /\ map = {}
        /\ phase = "record"
        /\ img = Picture
        /\ todo = [i \in Worker |-> {}]
        /\ at = [i \in Worker |-> "scan"]
        /\ cur = [i \in Worker |-> <<0, 0>>]
        /\ component = [i \in Worker |-> 0]
        /\ direction = [i \in Worker |-> 0]
        /\ values = [i \in Worker |-> Nothing]
        /\ dist = [i \in Worker |-> Nowhere]
-----------------------------------------------------------------------------
(* mBadPixelPositions.insert() under mBadPixelMutex: the vector is read, then replaced
   by the longer one.                                                             *)
MutexIgnored == TRUE      \* (mutant) nobody locks

MutexFree == \A r \in Recorder : recorder[r] # "insert"

BeginInsert(r) ==
  /\ recorder[r] = "found"
  /\ MutexFree
  /\ recorder' = [recorder EXCEPT ![r] = "insert"]
  /\ seen' = [seen EXCEPT ![r] = positions]
  /\ UNCHANGED <<zeroPos, positions, map, phase, working>>

EndInsert(r) ==
  /\ recorder[r] = "insert"
  /\ recorder' = [recorder EXCEPT ![r] = "done"]
  /\ positions' = seen[r] \cup zeroPos[r]
  /\ UNCHANGED <<zeroPos, seen, map, phase, working>>

(* fixBadPixels(): transferBadPixelsToMap(), then the team, if anything is marked. *)
Transfer ==
  /\ phase = "record"
  /\ \A r \in Recorder : recorder[r] = "done"
  /\ map' = map \cup positions
  /\ positions' = {}
  /\ phase' = IF map' = {} THEN "done" ELSE "fix"
  /\ todo' = [i \in Worker |-> {p \in map' : p[2] \in Rows(i) /\ p[1] \in VisitedColumn}]
  /\ UNCHANGED <<zeroPos, recorder, seen, img, at, cur, component, direction, values, dist>>
-----------------------------------------------------------------------------
(* fixBadPixelsThread(): the next marked pixel of the worker's rows.              *)
NextPixel(i) ==
  /\ phase = "fix"
  /\ at[i] = "scan"
  /\ \E p \in todo[i] : /\ \A q \in todo[i] : InScanOrder(p, q)
                        /\ cur' = [cur EXCEPT ![i] = p]
  /\ at' = [at EXCEPT ![i] = "find"]
  /\ component' = [component EXCEPT ![i] = 0]
  /\ direction' = [direction EXCEPT ![i] = 0]
  /\ values' = [values EXCEPT ![i] = Nothing]
  /\ dist' = [dist EXCEPT ![i] = Nowhere]
  /\ UNCHANGED <<recording, map, phase, img, todo>>

(* The pixel k away from p in direction d, and how far the picture goes there.     *)
Away(p, d, k) == CASE d = 0 -> <<p[1] - k, p[2]>>
                   [] d = 1 -> <<p[1] + k, p[2]>>
                   [] d = 2 -> <<p[1], p[2] - k>>
                   [] d = 3 -> <<p[1], p[2] + k>>

ToEdge(p, d) == CASE d = 0 -> p[1]
                  [] d = 1 -> Width - 1 - p[1]
                  [] d = 2 -> p[2]
                  [] d = 3 -> Height - 1 - p[2]

AnyNeighbour(p, d) ==     \* (mutant) the next pixel will do, marked or not
  {k \in 1 .. ToEdge(p, d) : k % Step = 0}

ValidNeighbours(p, d) ==
  {k \in 1 .. ToEdge(p, d) : k % Step = 0 /\ Away(p, d, k) \notin map}

(* fixBadPixel() addresses a component of a pixel as x + component.               *)
SampleOf(p, c) == <<p[1] + c, p[2]>>

(* fixBadPixel(), one of its four searches: the closest valid pixel.              *)
FindNeighbour(i) ==
  LET p == cur[i]
      d == direction[i]
      close == ValidNeighbours(p, d)
  IN
  /\ at[i] = "find"
  /\ IF close = {}
       THEN UNCHANGED <<values, dist>>
       ELSE \E k \in close :
              /\ \A j \in close : k <= j
              /\ values' = [values EXCEPT ![i][d] = img[SampleOf(Away(p, d, k), component[i])]]
              /\ dist' = [dist EXCEPT ![i][d] = k]
  /\ direction' = [direction EXCEPT ![i] = (d + 1) % 4]
  /\ at' = [at EXCEPT ![i] = IF d = 3 THEN "write" ELSE "find"]
  /\ UNCHANGED <<recording, map, phase, img, todo, cur, component>>

(* The weights of the two neighbours on an axis, of 256; none has 256 - 0 of it.   *)
Weight(ds, d) ==
  LET near == IF d \in {0, 1} THEN 0 ELSE 2
      total == ds[near] + ds[near + 1]
      first == IF ds[near] = 0 THEN 0 ELSE ((total - ds[near]) * 256) \div total
  IN  IF total = 0 THEN 0 ELSE IF d = near THEN first ELSE 256 - first

(* 2 ^ total_shifts: the weights of an axis that has a neighbour add up to 256.    *)
Divisor(ds) ==
  128 * (IF ds[0] + ds[1] > 0 THEN 2 ELSE 1) * (IF ds[2] + ds[3] > 0 THEN 2 ELSE 1)

Share(vs, ds, d) == IF vs[d] >= 0 THEN vs[d] * Weight(ds, d) ELSE 0

WeightedSum(vs, ds) ==
  Share(vs, ds, 0) + Share(vs, ds, 1) + Share(vs, ds, 2) + Share(vs, ds, 3)

NotDivided(vs, ds) ==     \* (mutant) the sum is written as it is
  WeightedSum(vs, ds)

Interpolate(vs, ds) == LesserOf(WeightedSum(vs, ds) \div Divisor(ds), MaxSample)

(* The rest of fixBadPixel(): the sample is written, and the other components of the
   pixel are gone through in the same way.                                        *)
WriteSample(i) ==
  /\ at[i] = "write"
  /\ img' = [img EXCEPT ![SampleOf(cur[i], component[i])] = Interpolate(values[i], dist[i])]
  /\ IF component[i] + 1 < Cpp
       THEN /\ component' = [component EXCEPT ![i] = @ + 1]
            /\ at' = [at EXCEPT ![i] = "find"]
            /\ UNCHANGED todo
       ELSE /\ todo' = [todo EXCEPT ![i] = @ \ {cur[i]}]
            /\ at' = [at EXCEPT ![i] = "scan"]
            /\ UNCHANGED component
  /\ values' = [values EXCEPT ![i] = Nothing]
  /\ dist' = [dist EXCEPT ![i] = Nowhere]
  /\ UNCHANGED <<recording, map, phase, cur, direction>>

(* The end of the parallel region.                                                *)
Join ==
  /\ phase = "fix"
  /\ \A i \in Worker : at[i] = "scan" /\ todo[i] = {}
  /\ phase' = "done"
  /\ UNCHANGED <<recording, map, working>>

Finished == phase = "done" /\ UNCHANGED vars

Next == \/ \E r \in Recorder : BeginInsert(r) \/ EndInsert(r)
        \/ Transfer
        \/ \E i \in Worker : NextPixel(i) \/ FindNeighbour(i) \/ WriteSample(i)
        \/ Join
        \/ Finished

Spec == Init /\ [][Next]_vars
-----------------------------------------------------------------------------
TypeOK ==
  /\ zeroPos \in [Recorder -> SUBSET Candidate]
  /\ recorder \in [Recorder -> {"found", "insert", "done"}]
  /\ seen \in [Recorder -> SUBSET Candidate]
  /\ positions \subseteq Candidate
  /\ map \subseteq Candidate
  /\ phase \in {"record", "fix", "done"}
  /\ img \in [Sample -> 0 .. MaxSample]
  /\ todo \in [Worker -> SUBSET Candidate]
  /\ at \in [Worker -> {"scan", "find", "write"}]
  /\ cur \in [Worker -> Pixel]
  /\ component \in [Worker -> 0 .. Cpp - 1]
  /\ direction \in [Worker -> Direction]
  /\ values \in [Worker -> [Direction -> -1 .. MaxSample]]
  /\ dist \in [Worker -> [Direction -> 0 .. MaxSample]]

(* Whatever the recorders do at the same time, the bitmap ends up with everything that
   was found, and nothing else.                                                   *)
NoPositionLost == phase # "record" => map = UNION {zeroPos[r] : r \in Recorder}

(* What a pixel is interpolated to when it is the only one that is touched: by the
   picture as it was decoded.                                                     *)
Closest(p, d) == Min(ValidNeighbours(p, d))

DecodedValue(p, d) ==
  IF ValidNeighbours(p, d) = {} THEN -1 ELSE Picture[Away(p, d, Closest(p, d))]

Distance(p, d) == IF ValidNeighbours(p, d) = {} THEN 0 ELSE Closest(p, d)

Interpolated(p) == Interpolate([d \in Direction |-> DecodedValue(p, d)],
                               [d \in Direction |-> Distance(p, d)])

(* In an image of one component the workers do not get into each other's way: whatever
   their order the result is that of fixing each marked pixel of the visited columns
   on its own, and no other pixel has changed.                                    *)
Visited == {p \in map : p[1] \in VisitedColumn}

ResultIsSequential ==
  phase = "done" => img = [p \in Pixel |-> IF p \in Visited THEN Interpolated(p) ELSE Picture[p]]

(* "Positions of zeroes that must be interpolated": every recorded pixel is.      *)
AllInterpolated == phase = "done" => \A p \in map : img[p] = Interpolated(p)
=============================================================================
