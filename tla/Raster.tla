------------------------------- MODULE Raster -------------------------------
(* How a decompressor fills an image.  Its constructor accepts the image and the input
   or throws; decompress() then works on slices (tiles, strips, blocks, rows; one slice
   when the decompressor is sequential), each of them step by step: a step takes a
   part of the input, reads samples that the prediction needs and writes samples.
   Slices of a work-sharing loop proceed in any order and interleaved.

   What differs from one decompressor to the next are the constants, for a job j, which
   says what the image and its input look like:
     Accepts(j)   the checks of the constructor and of its caller
     Scratch(j)   the cells of the line buffers the slices decode into, if there are any
     Work(j)      for each slice the sequence of its steps
     Trusted(j)   what the data of an accepted job is trusted to be, though nobody checks it
   A slice whose data is bad throws in the middle; SliceDecode is about that.      *)
EXTENDS RasterSteps

CONSTANTS Jobs, Accepts(_), Scratch(_), Work(_), Trusted(_)

VARIABLES job,      \* the image to be decoded
          at,       \* per slice: the number of steps it has finished
          by,       \* per sample and cell: the slice that has written it, 0 for none
          outcome   \* "new", then "rejected" or "running", at last "ok"

vars == <<job, at, by, outcome>>

(* Row and column of a sample of the uncropped image.                             *)
Samples(j) == (0 .. j.h - 1) \X (0 .. j.w - 1)
Cells(j) == Samples(j) \cup Scratch(j)

Plan == [j \in {k \in Jobs : Accepts(k)} |-> Work(j)]

Slices == IF job \in DOMAIN Plan THEN DOMAIN Plan[job] ELSE {}
Busy(s) == at[s] < Len(Plan[job][s])
NextStep(s) == Plan[job][s][at[s] + 1]

Advance(n) == n + 1

(* Who has written a cell, after a step of slice s.                               *)
Written(s, step, c) ==
  IF c \in step.writes THEN s
  ELSE IF c \in step.drops THEN 0
  ELSE IF c \in DOMAIN step.copies THEN by[step.copies[c]]
  ELSE by[c]

Init == /\ job \in Jobs
        /\ at = << >>
        /\ by = << >>
        /\ outcome = "new"

Construct ==
  /\ outcome = "new"
  /\ IF Accepts(job)
       THEN /\ outcome' = "running"
            /\ at' = [s \in Slices |-> 0]
            /\ by' = [c \in Cells(job) |-> 0]
       ELSE outcome' = "rejected" /\ UNCHANGED <<at, by>>
  /\ UNCHANGED job

DoStep(s) ==
  /\ outcome = "running"
  /\ Busy(s)
  /\ at' = [at EXCEPT ![s] = Advance(@)]
  /\ LET step == NextStep(s) IN by' = [c \in DOMAIN by |-> Written(s, step, c)]
  /\ UNCHANGED <<job, outcome>>

Return ==
  /\ outcome = "running"
  /\ \A s \in Slices : ~Busy(s)
  /\ outcome' = "ok"
  /\ UNCHANGED <<job, at, by>>

Finished == outcome \in {"rejected", "ok"} /\ UNCHANGED vars

Next == Construct \/ (\E s \in Slices : DoStep(s)) \/ Return \/ Finished

Spec == Init /\ [][Next]_vars
-----------------------------------------------------------------------------
Touched(step) == step.writes \cup step.reads \cup step.drops
                   \cup DOMAIN step.copies \cup {step.copies[c] : c \in DOMAIN step.copies}

(* No step touches a sample outside the image, of the image it starts from or a cell
   outside its line buffer, whatever rounding of blocks, strips and tiles the loops do. *)
InBounds ==
  outcome = "running" =>
    \A s \in Slices : Busy(s) => /\ Touched(NextStep(s)) \subseteq Cells(job)
                               /\ NextStep(s).loads \subseteq Samples(job.source)

(* The state keeps its shape: no slice runs past the end of its steps.            *)
TypeOK ==
  /\ outcome \in {"new", "rejected", "running", "ok"}
  /\ outcome \in {"running", "ok"} =>
       /\ DOMAIN at = Slices
       /\ \A s \in Slices : at[s] \in 0 .. Len(Plan[job][s])
       /\ by \in [Cells(job) -> {0} \cup Slices]
  /\ InBounds

(* No sample of the image is written twice, neither by one slice nor by two: the loops'
   ranges do not overlap, and so the threads that share them do not race.  That is said of
   trusted data only, as is what follows.                                        *)
TargetsFresh ==
  outcome = "running" /\ Trusted(job) =>
    \A s \in Slices : Busy(s) =>
      \A p \in NextStep(s).writes \cap Samples(job) : by[p] = 0

(* What is used for prediction has been written, and by the slice itself: nothing reads
   memory that createData() left uninitialized, a line buffer's content from the
   strip before, or what another thread may still be writing.  And where the place of a
   step's input is computed, it is inside the buffer that the constructor has checked,
   and no other step's.                                                            *)
InputsReady ==
  outcome = "running" /\ Trusted(job) =>
    LET plan == Plan[job]
    IN  \A s \in DOMAIN plan : at[s] < Len(plan[s]) =>
          LET step == plan[s][at[s] + 1]
          IN  /\ \A c \in step.reads \cap DOMAIN by : by[c] = s
              /\ step.takes \subseteq 0 .. job.size - 1
              /\ \A t \in DOMAIN plan : \A k \in DOMAIN plan[t] :
                   <<t, k>> # <<s, at[s] + 1>> => step.takes \cap plan[t][k].takes = {}

(* A decompressor that returns has written every sample of the image.             *)
Complete == outcome = "ok" /\ Trusted(job) => \A p \in Samples(job) : by[p] # 0
=============================================================================
