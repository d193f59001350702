--------------------------- MODULE BadPixels_proofs ---------------------------
(* The fixing of bad pixels, for every picture, every set of bad pixels, every number
   of recorders and every number of cores.                                       *)
EXTENDS BadPixels, TLAPS

LEMMA Division ==
  ASSUME NEW a \in Nat, NEW b \in Nat \ {0}
  PROVE  /\ a \div b \in Nat
         /\ b * (a \div b) <= a
         /\ a < b * ((a \div b) + 1)
OBVIOUS

LEMMA LeastIsMin ==
  ASSUME NEW S \in SUBSET Nat, NEW k \in S, \A j \in S : k <= j
  PROVE  Min(S) = k
<1> DEFINE IsLeast(x) == \A y \in S : x <= y
<1>1. \A x \in S : IsLeast(x) => x = k
  OBVIOUS
<1>2. \E x \in S : IsLeast(x)
  OBVIOUS
<1>3. (CHOOSE x \in S : IsLeast(x)) \in S /\ IsLeast(CHOOSE x \in S : IsLeast(x))
  BY <1>2
<1> QED BY <1>1, <1>3 DEF Min

LEMMA Parameters ==
  /\ Width \in Nat \ {0} /\ Height \in Nat \ {0} /\ Cpp \in Nat \ {0} /\ Cores \in Nat \ {0}
  /\ MaxSample \in Nat /\ Width <= MaxSample /\ Height <= MaxSample
BY BadPixelsAssumption

(* startWorker(): the rows of the workers are rows of the picture, and every row of the
   picture is a row of some worker, whatever the number of cores.                *)
THEOREM RowsCovered ==
  /\ \A i \in Worker : Rows(i) \subseteq 0 .. Height - 1
  /\ \A y \in 0 .. Height - 1 : \E i \in Worker : y \in Rows(i)
<1> DEFINE n == RowsPerWorker
<1> USE Parameters
<1>1. Height \in Nat \ {0} /\ Cores \in Nat \ {0}
  OBVIOUS
<1>2. n \in Nat /\ Height - 1 < Cores * n
  <2>1. n \in Nat /\ Height + Cores - 1 < Cores * (n + 1)
    BY <1>1, Division DEF RowsPerWorker
  <2>2. Cores * (n + 1) = Cores * n + Cores
    BY <1>1, <2>1
  <2>3. Cores * n \in Nat
    BY <1>1, <2>1
  <2> QED BY <1>1, <2>1, <2>2, <2>3
<1>3. n # 0
  <2>1. Cores * 0 = 0
    BY <1>1
  <2> QED BY <1>1, <1>2, <2>1
<1> HIDE DEF n
<1>4. ASSUME NEW i \in Worker PROVE Rows(i) \subseteq 0 .. Height - 1
  <2>1. i * n \in Nat /\ (i + 1) * n \in Nat
    BY <1>2 DEF Worker
  <2>2. Rows(i) = LesserOf(i * n, Height) .. LesserOf((i + 1) * n, Height) - 1
    BY DEF Rows, n
  <2> QED BY <1>1, <2>1, <2>2 DEF LesserOf
<1>5. ASSUME NEW y \in 0 .. Height - 1 PROVE \E i \in Worker : y \in Rows(i)
  <2> DEFINE i == y \div n
  <2>1. i \in Nat /\ n * i <= y /\ y < n * (i + 1)
    BY <1>2, <1>3, Division
  <2>2. i < Cores
    <3>1. SUFFICES ASSUME i >= Cores PROVE FALSE
      BY <1>1, <2>1
    <3> HIDE DEF i
    <3>2. n * i >= n * Cores
      BY <1>1, <1>2, <2>1, <3>1
    <3>3. n * Cores = Cores * n /\ n * Cores \in Nat /\ n * i \in Nat
      BY <1>1, <1>2, <2>1
    <3> QED BY <1>1, <1>2, <2>1, <3>2, <3>3
  <2>3. i \in Worker
    BY <1>1, <2>1, <2>2 DEF Worker
  <2> HIDE DEF i
  <2>4. n * i = i * n /\ n * (i + 1) = (i + 1) * n /\ i * n \in Nat /\ (i + 1) * n \in Nat
    BY <1>2, <2>1
  <2>5. y \in LesserOf(i * n, Height) .. LesserOf((i + 1) * n, Height) - 1
    BY <1>1, <2>1, <2>4 DEF LesserOf
  <2> QED BY <2>3, <2>5 DEF Rows, n
<1> QED BY <1>4, <1>5
-----------------------------------------------------------------------------
LEMMA WeightRange ==
  ASSUME NEW ds \in [Direction -> 0 .. MaxSample], NEW d \in Direction
  PROVE  Weight(ds, d) \in 0 .. 256
<1> DEFINE near == IF d \in {0, 1} THEN 0 ELSE 2
           total == ds[near] + ds[near + 1]
           first == IF ds[near] = 0 THEN 0 ELSE ((total - ds[near]) * 256) \div total
<1>1. near \in Direction /\ near + 1 \in Direction
  BY DEF Direction
<1>2. ds[near] \in Nat /\ total \in Nat /\ total - ds[near] \in Nat /\ total - ds[near] <= total
  BY <1>1
<1>3. ASSUME total # 0 PROVE ((total - ds[near]) * 256) \div total \in 0 .. 256
  <2>1. \A a \in Nat, b \in Nat \ {0} : a <= b => (a * 256) \div b \in 0 .. 256
    OBVIOUS
  <2> HIDE DEF total, near
  <2> QED BY <1>2, <1>3, <2>1
<1>4. total # 0 => first \in 0 .. 256
  <2> HIDE DEF total, near
  <2> QED BY <1>3
<1>5. Weight(ds, d) = IF total = 0 THEN 0 ELSE IF d = near THEN first ELSE 256 - first
  BY DEF Weight
<1> HIDE DEF first, total, near
<1> QED BY <1>4, <1>5

LEMMA InterpolateRange ==
  ASSUME NEW vs \in [Direction -> -1 .. MaxSample], NEW ds \in [Direction -> 0 .. MaxSample]
  PROVE  Interpolate(vs, ds) \in 0 .. MaxSample
<1>1. \A d \in Direction : Share(vs, ds, d) \in Nat
  <2> SUFFICES ASSUME NEW d \in Direction PROVE Share(vs, ds, d) \in Nat
    OBVIOUS
  <2>1. vs[d] \in -1 .. MaxSample /\ Weight(ds, d) \in Nat
    BY WeightRange
  <2>2. \A a \in -1 .. MaxSample, b \in Nat : a >= 0 => a * b \in Nat
    BY Parameters
  <2> QED BY <2>1, <2>2 DEF Share
<1>2. WeightedSum(vs, ds) \in Nat
  BY <1>1 DEF WeightedSum, Direction
<1>3. Divisor(ds) \in Nat \ {0}
  <2>1. Divisor(ds) \in {128, 256, 512}
    BY DEF Divisor
  <2> QED BY <2>1
<1>4. WeightedSum(vs, ds) \div Divisor(ds) \in Nat
  BY <1>2, <1>3, Division
<1> QED BY <1>4, Parameters DEF Interpolate, LesserOf

LEMMA SampleShape ==
  ASSUME NEW p \in Pixel, NEW c \in 0 .. Cpp - 1
  PROVE  SampleOf(p, c) \in Sample
<1> USE Parameters
<1>1. p[1] \in 0 .. Width - 1 /\ p[2] \in 0 .. Height - 1
  BY DEF Pixel
<1>2. (Width - 1) * (Cpp - 1) >= 0 /\ (Width - 1) * (Cpp - 1) = Width * Cpp - Width - Cpp + 1
      /\ Width * Cpp \in Nat
  OBVIOUS
<1> QED BY <1>1, <1>2 DEF SampleOf, Sample

(* The searches stay inside the picture.                                          *)
LEMMA NeighbourShape ==
  ASSUME NEW p \in Pixel, NEW d \in Direction
  PROVE  /\ ValidNeighbours(p, d) \subseteq 1 .. MaxSample
         /\ \A k \in ValidNeighbours(p, d) : Away(p, d, k) \in Pixel \ map
<1> USE Parameters
<1>1. p[1] \in 0 .. Width - 1 /\ p[2] \in 0 .. Height - 1 /\ d \in {0, 1, 2, 3}
  BY DEF Pixel, Direction
<1>2. ToEdge(p, d) \in 0 .. MaxSample
  BY <1>1 DEF ToEdge
<1>3. ASSUME NEW k \in ValidNeighbours(p, d) PROVE k \in 1 .. ToEdge(p, d) /\ Away(p, d, k) \notin map
  BY DEF ValidNeighbours
<1>4. \A k \in 1 .. ToEdge(p, d) : Away(p, d, k) \in Pixel
  BY <1>1 DEF ToEdge, Away, Pixel
<1> QED BY <1>2, <1>3, <1>4
-----------------------------------------------------------------------------
(* Only one recorder at a time is inside the insertion, and it sees everything that
   was inserted before it.                                                        *)
RecordInv ==
  /\ \A r, q \in Recorder : recorder[r] = "insert" /\ recorder[q] = "insert" => r = q
  /\ \A r \in Recorder : recorder[r] = "insert" => seen[r] = positions
  /\ \A r \in Recorder : recorder[r] = "found" \/ recorder[r] = "insert" \/ zeroPos[r] \subseteq
                           (IF phase = "record" THEN positions ELSE map)
  /\ positions \cup map \subseteq UNION {zeroPos[r] : r \in Recorder}
  /\ phase # "record" => \A r \in Recorder : recorder[r] = "done"
  /\ phase = "record" => map = {}

(* A worker that is at a pixel is at a marked one of its rows.                    *)
WorkInv ==
  /\ phase = "record" => \A i \in Worker : todo[i] = {}
  /\ phase = "done" => \A i \in Worker : todo[i] = {}
  /\ \A i \in Worker : todo[i] \subseteq {p \in map : p[1] \in VisitedColumn}
  /\ \A i \in Worker : at[i] # "scan" => phase = "fix" /\ cur[i] \in todo[i]

LEMMA RowUnion ==
  ASSUME NEW T, NEW t \in T, NEW f
  PROVE  f[t] \subseteq UNION {f[r] : r \in T}
OBVIOUS

Inv == TypeOK /\ RecordInv /\ WorkInv

LEMMA InitInv == Init => Inv
<1> SUFFICES ASSUME Init PROVE Inv
  OBVIOUS
<1> USE DEF Init
<1>1. TypeOK
  <2>1. <<0, 0>> \in Pixel
    BY Parameters DEF Pixel
  <2>2. 0 \in 0 .. Cpp - 1 /\ 0 \in Direction
    BY Parameters DEF Direction
  <2>3. Nothing \in [Direction -> -1 .. MaxSample] /\ Nowhere \in [Direction -> 0 .. MaxSample]
    BY Parameters DEF Nothing, Nowhere
  <2> QED BY <2>1, <2>2, <2>3, BadPixelsAssumption DEF TypeOK
<1>2. RecordInv /\ WorkInv
  BY DEF RecordInv, WorkInv
<1> QED BY <1>1, <1>2 DEF Inv

LEMMA RecordStep ==
  ASSUME Inv, NEW r \in Recorder, BeginInsert(r) \/ EndInsert(r) PROVE Inv'
<1> USE DEF Inv
<1>1. phase = "record" /\ UNCHANGED <<zeroPos, map, phase, working>>
  BY DEF BeginInsert, EndInsert, RecordInv
<1>2. TypeOK'
  BY <1>1 DEF TypeOK, BeginInsert, EndInsert, working
<1>3. RecordInv'
  <2>1. CASE BeginInsert(r)
    BY <1>1, <2>1 DEF RecordInv, BeginInsert, MutexFree, TypeOK
  <2>2. CASE EndInsert(r)
    <3>1. positions' = positions \cup zeroPos[r] /\ recorder'[r] = "done"
          /\ \A q \in Recorder : q # r => recorder'[q] = recorder[q] /\ recorder[q] # "insert"
      BY <2>2 DEF EndInsert, RecordInv, TypeOK
    <3>2. zeroPos[r] \subseteq UNION {zeroPos[q] : q \in Recorder}
      BY RowUnion
    <3> QED BY <1>1, <2>2, <3>1, <3>2 DEF RecordInv, EndInsert
  <2> QED BY <2>1, <2>2
<1>4. WorkInv'
  BY <1>1 DEF WorkInv, working
<1> QED BY <1>2, <1>3, <1>4

LEMMA TransferStep == Inv /\ Transfer => Inv'
<1> SUFFICES ASSUME Inv, Transfer PROVE Inv'
  OBVIOUS
<1> USE DEF Inv, Transfer
<1>1. map' = positions /\ phase' \in {"fix", "done"} /\ (phase' = "done" => map' = {})
  BY DEF RecordInv
<1>2. TypeOK'
  <2>1. todo' \in [Worker -> SUBSET Candidate]
    BY <1>1 DEF TypeOK
  <2>2. map' \subseteq Candidate /\ positions' \subseteq Candidate
    BY <1>1 DEF TypeOK
  <2> QED BY <1>1, <2>1, <2>2 DEF TypeOK
<1>3. RecordInv'
  BY <1>1 DEF RecordInv
<1>4. WorkInv'
  <2>1. \A i \in Worker : at[i] = "scan"
    BY DEF WorkInv, TypeOK
  <2> QED BY <1>1, <2>1 DEF WorkInv
<1> QED BY <1>2, <1>3, <1>4

LEMMA NextPixelStep == ASSUME Inv, NEW i \in Worker, NextPixel(i) PROVE Inv'
<1> USE DEF Inv, NextPixel
<1>1. PICK p \in todo[i] : cur' = [cur EXCEPT ![i] = p]
  OBVIOUS
<1>2. p \in Pixel
  BY <1>1, BadPixelsAssumption DEF TypeOK
<1>3. TypeOK'
  <2>1. 0 \in 0 .. Cpp - 1 /\ 0 \in Direction
    BY Parameters DEF Direction
  <2>2. Nothing \in [Direction -> -1 .. MaxSample] /\ Nowhere \in [Direction -> 0 .. MaxSample]
    BY Parameters DEF Nothing, Nowhere
  <2> QED BY <1>1, <1>2, <2>1, <2>2 DEF TypeOK, recording
<1>4. RecordInv'
  BY DEF RecordInv, recording
<1>5. WorkInv'
  BY <1>1 DEF WorkInv, TypeOK
<1> QED BY <1>3, <1>4, <1>5

(* What a search finds.                                                           *)
LEMMA FindResult ==
  ASSUME Inv, NEW i \in Worker, FindNeighbour(i)
  PROVE  LET d == direction[i]
             close == ValidNeighbours(cur[i], d)
         IN  \/ close = {} /\ UNCHANGED <<values, dist>>
             \/ \E k \in close :
                  /\ k = Min(close)
                  /\ values' = [values EXCEPT ![i][d] = img[SampleOf(Away(cur[i], d, k), component[i])]]
                  /\ dist' = [dist EXCEPT ![i][d] = k]
<1> DEFINE d == direction[i]
           close == ValidNeighbours(cur[i], d)
<1>1. cur[i] \in Pixel /\ d \in Direction
  BY DEF Inv, TypeOK
<1>2. close \in SUBSET Nat
  BY <1>1, NeighbourShape
<1>3. CASE close = {}
  BY <1>3 DEF FindNeighbour
<1>4. CASE close # {}
  <2>1. PICK k \in close :
          /\ \A j \in close : k <= j
          /\ values' = [values EXCEPT ![i][d] = img[SampleOf(Away(cur[i], d, k), component[i])]]
          /\ dist' = [dist EXCEPT ![i][d] = k]
    BY <1>4 DEF FindNeighbour
  <2>2. k = Min(close)
    BY <1>2, <2>1, LeastIsMin
  <2> QED BY <2>1, <2>2
<1> QED BY <1>3, <1>4

LEMMA FindStep == ASSUME Inv, NEW i \in Worker, FindNeighbour(i) PROVE Inv'
<1> USE DEF Inv
<1> DEFINE d == direction[i]
           close == ValidNeighbours(cur[i], d)
<1>1. cur[i] \in Pixel /\ d \in Direction /\ component[i] \in 0 .. Cpp - 1
  BY DEF TypeOK
<1>2. \A k \in close : /\ k \in 0 .. MaxSample
                       /\ img[SampleOf(Away(cur[i], d, k), component[i])] \in -1 .. MaxSample
  <2> SUFFICES ASSUME NEW k \in close
               PROVE  /\ k \in 0 .. MaxSample
                      /\ img[SampleOf(Away(cur[i], d, k), component[i])] \in -1 .. MaxSample
    OBVIOUS
  <2>1. k \in 1 .. MaxSample /\ Away(cur[i], d, k) \in Pixel
    BY <1>1, NeighbourShape
  <2>2. SampleOf(Away(cur[i], d, k), component[i]) \in Sample
    BY <1>1, <2>1, SampleShape
  <2>3. img[SampleOf(Away(cur[i], d, k), component[i])] \in 0 .. MaxSample
    BY <2>2 DEF TypeOK
  <2> QED BY <2>1, <2>3, Parameters
<1>3. /\ values' \in [Worker -> [Direction -> -1 .. MaxSample]]
      /\ dist' \in [Worker -> [Direction -> 0 .. MaxSample]]
  <2> HIDE DEF d, close
  <2>1. CASE UNCHANGED <<values, dist>>
    BY <2>1 DEF TypeOK
  <2>2. ASSUME NEW k \in close,
               values' = [values EXCEPT ![i][d] = img[SampleOf(Away(cur[i], d, k), component[i])]],
               dist' = [dist EXCEPT ![i][d] = k]
        PROVE  /\ values' \in [Worker -> [Direction -> -1 .. MaxSample]]
               /\ dist' \in [Worker -> [Direction -> 0 .. MaxSample]]
    BY <1>1, <1>2, <2>2 DEF TypeOK
  <2> QED BY <2>1, <2>2, FindResult DEF d, close
<1>4. TypeOK'
  <2>1. (d + 1) % 4 \in Direction
    BY <1>1 DEF Direction
  <2> QED BY <1>3, <2>1 DEF TypeOK, FindNeighbour, recording
<1>5. RecordInv'
  BY DEF RecordInv, FindNeighbour, recording
<1>6. WorkInv'
  BY DEF WorkInv, FindNeighbour, TypeOK
<1> QED BY <1>4, <1>5, <1>6

LEMMA WriteStep == ASSUME Inv, NEW i \in Worker, WriteSample(i) PROVE Inv'
<1> USE DEF Inv
<1>1. /\ at[i] = "write"
      /\ img' = [img EXCEPT ![SampleOf(cur[i], component[i])] = Interpolate(values[i], dist[i])]
      /\ values' = [values EXCEPT ![i] = Nothing]
      /\ dist' = [dist EXCEPT ![i] = Nowhere]
      /\ UNCHANGED <<recording, map, phase, cur, direction>>
  BY DEF WriteSample
<1>2. ASSUME component[i] + 1 < Cpp,
             component' = [component EXCEPT ![i] = @ + 1],
             at' = [at EXCEPT ![i] = "find"],
             UNCHANGED todo
      PROVE  /\ component' \in [Worker -> 0 .. Cpp - 1] /\ todo' \in [Worker -> SUBSET Candidate]
             /\ at' \in [Worker -> {"scan", "find", "write"}] /\ WorkInv'
  <2>1. component[i] + 1 \in 0 .. Cpp - 1
    BY <1>2, Parameters DEF TypeOK
  <2>2. component' \in [Worker -> 0 .. Cpp - 1]
    BY <1>2, <2>1 DEF TypeOK
  <2>3. at' \in [Worker -> {"scan", "find", "write"}]
    BY <1>2 DEF TypeOK
  <2>4. WorkInv'
    BY <1>1, <1>2 DEF WorkInv, TypeOK
  <2>5. todo' \in [Worker -> SUBSET Candidate]
    BY <1>2 DEF TypeOK
  <2> QED BY <2>2, <2>3, <2>4, <2>5
<1>3. ASSUME todo' = [todo EXCEPT ![i] = @ \ {cur[i]}],
             at' = [at EXCEPT ![i] = "scan"],
             UNCHANGED component
      PROVE  /\ component' \in [Worker -> 0 .. Cpp - 1] /\ todo' \in [Worker -> SUBSET Candidate]
             /\ at' \in [Worker -> {"scan", "find", "write"}] /\ WorkInv'
  <2>1. todo[i] \ {cur[i]} \in SUBSET Candidate
    BY DEF TypeOK
  <2>2. todo' \in [Worker -> SUBSET Candidate] /\ at' \in [Worker -> {"scan", "find", "write"}]
    BY <1>3, <2>1 DEF TypeOK
  <2>3. \A j \in Worker : j # i => todo'[j] = todo[j] /\ at'[j] = at[j]
    BY <1>3 DEF TypeOK
  <2>4. todo'[i] \subseteq todo[i] /\ at'[i] = "scan"
    BY <1>3 DEF TypeOK
  <2>5. WorkInv'
    BY <1>1, <2>3, <2>4 DEF WorkInv, TypeOK
  <2>6. component' \in [Worker -> 0 .. Cpp - 1]
    BY <1>3 DEF TypeOK
  <2> QED BY <2>2, <2>5, <2>6
<1>4. \/ /\ component[i] + 1 < Cpp
         /\ component' = [component EXCEPT ![i] = @ + 1]
         /\ at' = [at EXCEPT ![i] = "find"]
         /\ UNCHANGED todo
      \/ /\ todo' = [todo EXCEPT ![i] = @ \ {cur[i]}]
         /\ at' = [at EXCEPT ![i] = "scan"]
         /\ UNCHANGED component
  BY DEF WriteSample
<1>5. RecordInv'
  BY <1>1 DEF RecordInv, recording
<1>6. img' \in [Sample -> 0 .. MaxSample]
  <2>1. Interpolate(values[i], dist[i]) \in 0 .. MaxSample
    BY InterpolateRange DEF TypeOK
  <2> QED BY <1>1, <2>1 DEF TypeOK
<1>7. /\ values' \in [Worker -> [Direction -> -1 .. MaxSample]]
      /\ dist' \in [Worker -> [Direction -> 0 .. MaxSample]]
  <2>1. Nothing \in [Direction -> -1 .. MaxSample] /\ Nowhere \in [Direction -> 0 .. MaxSample]
    BY Parameters DEF Nothing, Nowhere
  <2> QED BY <1>1, <2>1 DEF TypeOK
<1>8. /\ component' \in [Worker -> 0 .. Cpp - 1] /\ todo' \in [Worker -> SUBSET Candidate]
      /\ at' \in [Worker -> {"scan", "find", "write"}] /\ WorkInv'
  BY <1>2, <1>3, <1>4
<1>9. TypeOK'
  BY <1>1, <1>6, <1>7, <1>8 DEF TypeOK, recording
<1> QED BY <1>5, <1>8, <1>9

LEMMA JoinStep == Inv /\ Join => Inv'
<1> SUFFICES ASSUME Inv, Join PROVE Inv'
  OBVIOUS
<1> QED BY DEF Inv, Join, TypeOK, RecordInv, WorkInv, recording, working

LEMMA Inductive == Inv /\ [Next]_vars => Inv'
<1> SUFFICES ASSUME Inv, [Next]_vars PROVE Inv'
  OBVIOUS
<1>1. CASE UNCHANGED vars
  BY <1>1 DEF Inv, vars, TypeOK, RecordInv, WorkInv, recording, working
<1>2. ASSUME NEW r \in Recorder, BeginInsert(r) \/ EndInsert(r) PROVE Inv'
  BY <1>2, RecordStep
<1>3. ASSUME NEW i \in Worker, NextPixel(i) \/ FindNeighbour(i) \/ WriteSample(i) PROVE Inv'
  BY <1>3, NextPixelStep, FindStep, WriteStep
<1> QED BY <1>1, <1>2, <1>3, TransferStep, JoinStep DEF Next, Finished

THEOREM InvariantHolds == Spec => []Inv
BY InitInv, Inductive, PTL DEF Spec

(* TypeOK: samples stay 16-bit samples, and nothing outside the picture is addressed,
   for every number of components.                                               *)
THEOREM TypeCorrect == Spec => []TypeOK
<1>1. Inv => TypeOK
  BY DEF Inv
<1> QED BY <1>1, InvariantHolds, PTL

(* NoPositionLost: the mutex keeps every position every recorder has found.        *)
THEOREM PositionsKept == Spec => []NoPositionLost
<1>1. Inv => NoPositionLost
  BY DEF Inv, RecordInv, NoPositionLost
<1> QED BY <1>1, InvariantHolds, PTL
-----------------------------------------------------------------------------
(* In an image of one component: nothing but the visited marked pixels ever changes,
   a worker has already found the decoded values of the neighbours it has looked for,
   and what it has finished is interpolated.                                     *)
FoundSoFar(i) ==
  \A d \in Direction :
    /\ at[i] = "write" \/ d < direction[i]
         => values[i][d] = DecodedValue(cur[i], d) /\ dist[i][d] = Distance(cur[i], d)
    /\ at[i] = "find" /\ d >= direction[i] => values[i][d] = -1 /\ dist[i][d] = 0

SeqInv ==
  /\ phase = "record" => img = Picture
  /\ \A p \in Pixel : p \notin Visited => img[p] = Picture[p]
  /\ \A i \in Worker : at[i] # "scan" => FoundSoFar(i)
  /\ phase # "record" =>
       \A i \in Worker, p \in Visited :
         p[2] \in Rows(i) /\ p \notin todo[i] => img[p] = Interpolated(p)

LEMMA OneComponent ==
  ASSUME Cpp = 1
  PROVE  /\ Sample = Pixel
         /\ \A p \in Pixel : SampleOf(p, 0) = p
<1>1. Width * 1 = Width
  BY Parameters
<1>2. \A p \in Pixel : p = <<p[1], p[2]>> /\ p[1] + 0 = p[1]
  BY Parameters DEF Pixel
<1> QED BY <1>1, <1>2 DEF Sample, Pixel, SampleOf

LEMMA InitSeq == Init => SeqInv
BY DEF Init, SeqInv

(* Steps that touch neither the picture nor the bitmap nor the workers.           *)
LEMMA SeqUnchanged ==
  ASSUME Inv, SeqInv, UNCHANGED <<map, working>>,
         phase' = "record" => phase = "record",
         phase' # "record" => phase # "record"
  PROVE  SeqInv'
<1> USE DEF working
<1>1. \A q \in Pixel, e \in Direction : /\ DecodedValue(q, e)' = DecodedValue(q, e)
                                        /\ Distance(q, e)' = Distance(q, e)
  BY DEF DecodedValue, Distance, Closest, ValidNeighbours
<1>2. \A q \in Pixel : Interpolated(q)' = Interpolated(q)
  BY <1>1 DEF Interpolated
<1>3. Visited' = Visited /\ Visited \subseteq Pixel
  BY BadPixelsAssumption DEF Visited, Inv, TypeOK
<1>4. ASSUME NEW j \in Worker, at'[j] # "scan" PROVE FoundSoFar(j)'
  <2>1. FoundSoFar(j) /\ cur[j] \in Pixel
    BY <1>4 DEF SeqInv, Inv, TypeOK
  <2> QED BY <1>1, <2>1 DEF FoundSoFar
<1> QED BY <1>2, <1>3, <1>4 DEF SeqInv

LEMMA SeqTransfer == Inv /\ SeqInv /\ Transfer => SeqInv'
<1> SUFFICES ASSUME Inv, SeqInv, Transfer PROVE SeqInv'
  OBVIOUS
<1>1. img' = Picture /\ phase' # "record"
  BY DEF Transfer, SeqInv
<1>2. \A i \in Worker : at'[i] = "scan"
  BY DEF Inv, WorkInv, TypeOK, Transfer
<1>3. \A i \in Worker, p \in Visited' : p[2] \in Rows(i) => p \in todo'[i]
  BY DEF Transfer, Visited
<1> QED BY <1>1, <1>2, <1>3 DEF SeqInv

LEMMA SeqNextPixel ==
  ASSUME Inv, SeqInv, NEW i \in Worker, NextPixel(i) PROVE SeqInv'
<1>1. /\ at' = [at EXCEPT ![i] = "find"] /\ direction' = [direction EXCEPT ![i] = 0]
      /\ values' = [values EXCEPT ![i] = Nothing] /\ dist' = [dist EXCEPT ![i] = Nowhere]
      /\ \E p \in todo[i] : cur' = [cur EXCEPT ![i] = p]
      /\ UNCHANGED <<map, phase, img, todo>>
  BY DEF NextPixel
<1>2. FoundSoFar(i)'
  <2>1. /\ at'[i] = "find" /\ direction'[i] = 0
        /\ \A d \in Direction : values'[i][d] = -1 /\ dist'[i][d] = 0
    BY <1>1 DEF Inv, TypeOK, Nothing, Nowhere
  <2>2. \A d \in Direction : ~(d < 0)
    BY DEF Direction
  <2> QED BY <2>1, <2>2 DEF FoundSoFar
<1>3. ASSUME NEW j \in Worker, j # i, at'[j] # "scan" PROVE FoundSoFar(j)'
  <2>1. /\ at'[j] = at[j] /\ direction'[j] = direction[j] /\ values'[j] = values[j]
        /\ dist'[j] = dist[j] /\ cur'[j] = cur[j]
    BY <1>1, <1>3 DEF Inv, TypeOK
  <2>2. FoundSoFar(j)
    BY <1>3, <2>1 DEF SeqInv
  <2> QED BY <1>1, <2>1, <2>2 DEF FoundSoFar, DecodedValue, Distance, Closest, ValidNeighbours
<1>4. \A p \in Pixel : Interpolated(p)' = Interpolated(p)
  BY <1>1 DEF Interpolated, DecodedValue, Distance, Closest, ValidNeighbours
<1>5. Visited' = Visited /\ Visited \subseteq Pixel
  BY <1>1, BadPixelsAssumption DEF Visited, Inv, TypeOK
<1> QED BY <1>1, <1>2, <1>3, <1>4, <1>5 DEF SeqInv

LEMMA SeqFind ==
  ASSUME Cpp = 1, Inv, SeqInv, NEW i \in Worker, FindNeighbour(i) PROVE SeqInv'
<1> DEFINE p == cur[i]
           d == direction[i]
           close == ValidNeighbours(p, d)
<1>1. /\ at[i] = "find" /\ direction' = [direction EXCEPT ![i] = (d + 1) % 4]
      /\ at' = [at EXCEPT ![i] = IF d = 3 THEN "write" ELSE "find"]
      /\ UNCHANGED <<map, phase, img, todo, cur, component>>
  BY DEF FindNeighbour
<1>2. p \in Pixel /\ d \in Direction /\ component[i] = 0 /\ FoundSoFar(i)
  BY <1>1 DEF Inv, TypeOK, SeqInv
<1>3. \A k \in close : img[SampleOf(Away(p, d, k), component[i])] = Picture[Away(p, d, k)]
  <2> SUFFICES ASSUME NEW k \in close
               PROVE  img[SampleOf(Away(p, d, k), 0)] = Picture[Away(p, d, k)]
    BY <1>2
  <2>1. Away(p, d, k) \in Pixel /\ Away(p, d, k) \notin Visited
    BY <1>2, NeighbourShape DEF Visited
  <2> QED BY <2>1, OneComponent DEF SeqInv
<1>4. /\ values'[i][d] = DecodedValue(p, d) /\ dist'[i][d] = Distance(p, d)
      /\ \A e \in Direction : e # d => values'[i][e] = values[i][e] /\ dist'[i][e] = dist[i][e]
      /\ \A j \in Worker : j # i => values'[j] = values[j] /\ dist'[j] = dist[j]
  <2>1. CASE close = {} /\ UNCHANGED <<values, dist>>
    <3>1. values[i][d] = -1 /\ dist[i][d] = 0
      BY <1>1, <1>2 DEF FoundSoFar, Direction
    <3> QED BY <2>1, <3>1 DEF DecodedValue, Distance
  <2>2. ASSUME NEW k \in close, k = Min(close),
               values' = [values EXCEPT ![i][d] = img[SampleOf(Away(p, d, k), component[i])]],
               dist' = [dist EXCEPT ![i][d] = k]
        PROVE  /\ values'[i][d] = DecodedValue(p, d) /\ dist'[i][d] = Distance(p, d)
               /\ \A e \in Direction : e # d => values'[i][e] = values[i][e] /\ dist'[i][e] = dist[i][e]
               /\ \A j \in Worker : j # i => values'[j] = values[j] /\ dist'[j] = dist[j]
    <3>1. values'[i][d] = Picture[Away(p, d, k)] /\ dist'[i][d] = k
      BY <1>2, <1>3, <2>2 DEF Inv, TypeOK
    <3>2. close # {} /\ Closest(p, d) = k
      BY <2>2 DEF Closest
    <3>3. DecodedValue(p, d) = Picture[Away(p, d, k)] /\ Distance(p, d) = k
      BY <3>2 DEF DecodedValue, Distance
    <3>4. /\ \A e \in Direction : e # d => values'[i][e] = values[i][e] /\ dist'[i][e] = dist[i][e]
          /\ \A j \in Worker : j # i => values'[j] = values[j] /\ dist'[j] = dist[j]
      BY <1>2, <2>2 DEF Inv, TypeOK
    <3> QED BY <3>1, <3>3, <3>4
  <2> QED BY <2>1, <2>2, FindResult
<1>5. \A q \in Pixel, e \in Direction : /\ DecodedValue(q, e)' = DecodedValue(q, e)
                                        /\ Distance(q, e)' = Distance(q, e)
  BY <1>1 DEF DecodedValue, Distance, Closest, ValidNeighbours
<1>6. FoundSoFar(i)'
  <2>1. cur'[i] = p
    BY <1>1
  <2>2. \A e \in Direction : e < d => values[i][e] = DecodedValue(p, e) /\ dist[i][e] = Distance(p, e)
    BY <1>2 DEF FoundSoFar
  <2>3. \A e \in Direction : e > d => values[i][e] = -1 /\ dist[i][e] = 0
    BY <1>1, <1>2 DEF FoundSoFar, Direction
  <2>4. \A e \in Direction : e <= d => values'[i][e] = DecodedValue(p, e) /\ dist'[i][e] = Distance(p, e)
    BY <1>2, <1>4, <2>2 DEF Direction
  <2>5. \A e \in Direction : e > d => values'[i][e] = -1 /\ dist'[i][e] = 0
    BY <1>2, <1>4, <2>3 DEF Direction
  <2>6. \/ d = 3 /\ at'[i] = "write" /\ direction'[i] = 0
        \/ d # 3 /\ at'[i] = "find" /\ direction'[i] = d + 1
    BY <1>1, <1>2 DEF Inv, TypeOK, Direction
  <2>7. \A e \in Direction : /\ at'[i] = "write" \/ e < direction'[i] => e <= d
                             /\ at'[i] = "find" /\ e >= direction'[i] => e > d
    BY <1>2, <2>6 DEF Direction
  <2> HIDE DEF p, d
  <2> QED BY <1>2, <1>5, <2>1, <2>4, <2>5, <2>7 DEF FoundSoFar
<1>7. ASSUME NEW j \in Worker, j # i, at'[j] # "scan" PROVE FoundSoFar(j)'
  <2>1. /\ at'[j] = at[j] /\ direction'[j] = direction[j] /\ cur'[j] = cur[j]
        /\ values'[j] = values[j] /\ dist'[j] = dist[j] /\ cur[j] \in Pixel
    BY <1>1, <1>4, <1>7 DEF Inv, TypeOK
  <2>2. FoundSoFar(j)
    BY <1>7, <2>1 DEF SeqInv
  <2> QED BY <1>5, <2>1, <2>2 DEF FoundSoFar
<1>8. \A q \in Pixel : Interpolated(q)' = Interpolated(q)
  BY <1>5 DEF Interpolated
<1>9. Visited' = Visited /\ Visited \subseteq Pixel
  BY <1>1, BadPixelsAssumption DEF Visited, Inv, TypeOK
<1> QED BY <1>1, <1>6, <1>7, <1>8, <1>9 DEF SeqInv

LEMMA SeqWrite ==
  ASSUME Cpp = 1, Inv, SeqInv, NEW i \in Worker, WriteSample(i) PROVE SeqInv'
<1> DEFINE p == cur[i]
<1>1. p \in Pixel /\ component[i] = 0 /\ p \in todo[i] /\ p \in Visited /\ phase = "fix"
  BY DEF Inv, TypeOK, WorkInv, WriteSample, Visited
<1>2. /\ at[i] = "write" /\ at' = [at EXCEPT ![i] = "scan"]
      /\ todo' = [todo EXCEPT ![i] = @ \ {p}]
      /\ values' = [values EXCEPT ![i] = Nothing] /\ dist' = [dist EXCEPT ![i] = Nowhere]
      /\ UNCHANGED <<map, phase, cur, direction>>
  BY <1>1 DEF WriteSample
<1>3. img' = [img EXCEPT ![p] = Interpolated(p)]
  <2>1. SampleOf(p, component[i]) = p
    BY <1>1, OneComponent
  <2>2. \A d \in Direction : values[i][d] = DecodedValue(p, d) /\ dist[i][d] = Distance(p, d)
    BY <1>2 DEF SeqInv, FoundSoFar
  <2>3. /\ values[i] = [d \in Direction |-> DecodedValue(p, d)]
        /\ dist[i] = [d \in Direction |-> Distance(p, d)]
    BY <2>2 DEF Inv, TypeOK
  <2> QED BY <2>1, <2>3 DEF WriteSample, Interpolated
<1>4. img'[p] = Interpolated(p) /\ \A q \in Pixel : q # p => img'[q] = img[q]
  BY <1>1, <1>3, OneComponent DEF Inv, TypeOK
<1>5. \A q \in Pixel, e \in Direction : /\ DecodedValue(q, e)' = DecodedValue(q, e)
                                        /\ Distance(q, e)' = Distance(q, e)
  BY <1>2 DEF DecodedValue, Distance, Closest, ValidNeighbours
<1>6. \A q \in Pixel : Interpolated(q)' = Interpolated(q)
  BY <1>5 DEF Interpolated
<1>7. Visited' = Visited /\ Visited \subseteq Pixel
  BY <1>2, BadPixelsAssumption DEF Visited, Inv, TypeOK
<1>8. ASSUME NEW j \in Worker, at'[j] # "scan" PROVE FoundSoFar(j)'
  <2>1. /\ j # i /\ at'[j] = at[j] /\ direction'[j] = direction[j] /\ cur'[j] = cur[j]
        /\ values'[j] = values[j] /\ dist'[j] = dist[j] /\ cur[j] \in Pixel
    BY <1>2, <1>8 DEF Inv, TypeOK
  <2>2. FoundSoFar(j)
    BY <1>8, <2>1 DEF SeqInv
  <2> QED BY <1>5, <2>1, <2>2 DEF FoundSoFar
<1>9. ASSUME NEW j \in Worker, NEW q \in Visited, q[2] \in Rows(j), q \notin todo'[j]
      PROVE  img'[q] = Interpolated(q)
  <2>1. CASE q = p
    BY <1>4, <2>1
  <2>2. CASE q # p
    <3>1. q \notin todo[j]
      BY <1>2, <1>9, <2>2 DEF Inv, TypeOK
    <3> QED BY <1>1, <1>4, <1>7, <1>9, <2>2, <3>1 DEF SeqInv
  <2> QED BY <2>1, <2>2
<1>10. \A q \in Pixel : q \notin Visited => img'[q] = Picture[q]
  BY <1>1, <1>4 DEF SeqInv
<1> QED BY <1>1, <1>2, <1>6, <1>7, <1>8, <1>9, <1>10 DEF SeqInv

LEMMA SeqInductive == ASSUME Cpp = 1, Inv, SeqInv, [Next]_vars PROVE SeqInv'
<1>1. CASE UNCHANGED vars
  BY <1>1, SeqUnchanged DEF vars
<1>2. ASSUME NEW r \in Recorder, BeginInsert(r) \/ EndInsert(r) PROVE SeqInv'
  BY <1>2, SeqUnchanged DEF BeginInsert, EndInsert
<1>3. ASSUME NEW i \in Worker, NextPixel(i) \/ FindNeighbour(i) \/ WriteSample(i) PROVE SeqInv'
  BY <1>3, SeqNextPixel, SeqFind, SeqWrite
<1>4. CASE Join
  BY <1>4, SeqUnchanged DEF Join
<1> QED BY <1>1, <1>2, <1>3, <1>4, SeqTransfer DEF Next, Finished

(* ResultIsSequential: for an image of one component the parallel, in-place, lock-free
   fixing computes the same picture as fixing each pixel on its own, for every number
   of cores and every interleaving.                                              *)
THEOREM ParallelIsSequential == ASSUME Cpp = 1 PROVE Spec => []ResultIsSequential
<1>1. Inv /\ SeqInv /\ [Next]_vars => SeqInv'
  BY SeqInductive
<1>2. Inv /\ SeqInv => ResultIsSequential
  <2> SUFFICES ASSUME Inv, SeqInv, phase = "done"
               PROVE  img = [p \in Pixel |-> IF p \in Visited THEN Interpolated(p) ELSE Picture[p]]
    BY DEF ResultIsSequential
  <2>1. img \in [Pixel -> 0 .. MaxSample]
    BY OneComponent DEF Inv, TypeOK
  <2>2. ASSUME NEW p \in Visited PROVE img[p] = Interpolated(p)
    <3>1. p[2] \in 0 .. Height - 1
      BY BadPixelsAssumption DEF Visited, Inv, TypeOK, Pixel
    <3>2. PICK i \in Worker : p[2] \in Rows(i)
      BY <3>1, RowsCovered
    <3>3. p \notin todo[i]
      BY DEF Inv, WorkInv
    <3> QED BY <3>2, <3>3 DEF SeqInv
  <2> QED BY <2>1, <2>2 DEF SeqInv
<1> QED BY <1>1, <1>2, InitSeq, InvariantHolds, PTL DEF Spec
=============================================================================
