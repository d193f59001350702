------------------------------ MODULE VC5Tasks ------------------------------
(* VC5Decompressor::decode(): one thread of the team walks the pyramid of wavelets
   and makes OpenMP tasks that decode the bands of the stream and reconstruct the
   others; `depend` clauses order the tasks; a band that cannot be decoded is logged
   and raises exceptionThrown, which every later task reads before it does anything;
   after the barrier every thread of the team reads it once more and either joins the
   loop that writes the image or does not.

   Pixels are left out; what is kept of a band is whether its data is there.      *)
EXTENDS Integers, FiniteSets

CONSTANTS NumChannels,   \* 4 in the code
          Levels,        \* numWaveletLevels, 3 in the code
          Thread,        \* the team
          MaxBad,        \* how many bands of the stream may be undecodable
          Unsupported    \* of DecodeContract: not a cause a VC-5 image has

ASSUME VC5TasksAssumption == /\ NumChannels \in Nat \ {0}
                             /\ Levels \in Nat \ {0}
                             /\ IsFiniteSet(Thread) /\ Thread # {}
                             /\ MaxBad \in Nat

Channel == 0 .. NumChannels - 1
Wavelet == 0 .. Levels
Bands(w) == IF w = 0 THEN {0} ELSE 0 .. 3

(* A band, and the Optional<BandData> in it, is <<channel, wavelet, band>>; so are the
   two intermediates of a band to be reconstructed.                              *)
Band == {l \in Channel \X Wavelet \X (0 .. 3) : l[3] \in Bands(l[2])}

Reconstructable(l) == l[3] = 0 /\ l[2] < Levels

DecodableBand == {l \in Band : ~Reconstructable(l)}

(* Only HighPassBand::decode() can throw, LowPassBand::decode() is noexcept.      *)
HighPassBand == {l \in DecodableBand : l[3] # 0}

Data(l) == <<"data", l>>
LowPass(l) == <<"lowpass", l>>
HighPass(l) == <<"highpass", l>>

Place == {"data", "lowpass", "highpass"} \X Band

(* The tasks createDecodingTasks() makes for a band.                              *)
TasksOf(l) == IF Reconstructable(l)
                THEN {"low", "high", "clear", "combine"} \X {l}
                ELSE {<<"decode", l>>}

Task == UNION {TasksOf(l) : l \in Band}

Decode(l) == <<"decode", l>>

(* The band `b` of the next smaller wavelet, of which band l is reconstructed.    *)
Source(l, b) == <<l[1], l[2] + 1, b>>

(* depend(in : ...) and depend(out : ...) of each task.                          *)
InWithoutLowLow(t) ==     \* (mutant) createLowpassReconstructionTask forgets lowlow
  LET l == t[2] IN
  CASE t[1] = "decode"  -> {}
    [] t[1] = "low"     -> {Data(Source(l, 2))}
    [] t[1] = "high"    -> {Data(Source(l, 3)), Data(Source(l, 1))}
    [] t[1] = "clear"   -> {LowPass(l), HighPass(l)}
    [] t[1] = "combine" -> {LowPass(l), HighPass(l)}

ClearTooEarly(t) ==       \* (mutant) the clearing task waits for one intermediate only
  LET l == t[2] IN
  CASE t[1] = "decode"  -> {}
    [] t[1] = "low"     -> {Data(Source(l, 2)), Data(Source(l, 0))}
    [] t[1] = "high"    -> {Data(Source(l, 3)), Data(Source(l, 1))}
    [] t[1] = "clear"   -> {LowPass(l)}
    [] t[1] = "combine" -> {LowPass(l), HighPass(l)}

In(t) ==
  LET l == t[2] IN
  CASE t[1] = "decode"  -> {}
    [] t[1] = "low"     -> {Data(Source(l, 2)), Data(Source(l, 0))}
    [] t[1] = "high"    -> {Data(Source(l, 3)), Data(Source(l, 1))}
    [] t[1] = "clear"   -> {LowPass(l), HighPass(l)}
    [] t[1] = "combine" -> {LowPass(l), HighPass(l)}

Out(t) ==
  CASE t[1] = "decode"  -> {Data(t[2])}
    [] t[1] = "low"     -> {LowPass(t[2])}
    [] t[1] = "high"    -> {HighPass(t[2])}
    [] t[1] = "clear"   -> {}
    [] t[1] = "combine" -> {Data(t[2])}

(* The order of createWaveletBandDecodingTasks(): small wavelets first, high bands
   first, then channel by channel; and that of one createDecodingTasks().         *)
EarlierBand(k, l) == \/ k[2] > l[2]
                     \/ k[2] = l[2] /\ k[3] > l[3]
                     \/ k[2] = l[2] /\ k[3] = l[3] /\ k[1] < l[1]

Rank(kind) == CASE kind = "decode" -> 0 [] kind = "low" -> 1 [] kind = "high" -> 2
                [] kind = "clear" -> 3 [] kind = "combine" -> 4

Earlier(p, t) == EarlierBand(p[2], t[2]) \/ (p[2] = t[2] /\ Rank(p[1]) < Rank(t[1]))

(* OpenMP: a task waits for the earlier tasks whose `out` it names, or that name its
   own `out`.                                                                     *)
DependsOn(t, p) == /\ Earlier(p, t)
                   /\ \/ Out(p) \cap (In(t) \cup Out(t)) # {}
                      \/ In(p) \cap Out(t) # {}

Predecessors == [t \in Task |-> {p \in Task : DependsOn(t, p)}]

VARIABLES
  bad,              \* the high-pass bands whose bytes cannot be decoded
  made,             \* the bands whose tasks have been created
  creator,          \* of the thread in `omp single`: "create", "check", "left"
  st,               \* per task: "none", "created", "run", "log", "done", "failed", "skipped"
  engaged,          \* the Optionals that hold data
  cleared,          \* the <<channel, wavelet>> whose `bands` were cleared
  exceptionThrown,
  errors,           \* the bands whose error is in the log
  pc,               \* per thread: "tasks", then "combine", "combined", "left", or "skip"
  outcome,          \* "running", then "ok" or "threw", or "undefined"
  firstErr

vars == <<bad, made, creator, st, engaged, cleared, exceptionThrown, errors, pc,
          outcome, firstErr>>

Init == /\ bad \in {b \in SUBSET HighPassBand : Cardinality(b) <= MaxBad}
        /\ made = {}
        /\ creator = "create"
        /\ st = [t \in Task |-> "none"]
        /\ engaged = {}
        /\ cleared = {}
        /\ exceptionThrown = FALSE
        /\ errors = {}
        /\ pc = [t \in Thread |-> "tasks"]
        /\ outcome = "running"
        /\ firstErr = {}
-----------------------------------------------------------------------------
(* createWaveletBandDecodingTasks(): the tasks of the next band, then the early
   return if a task has failed by now.                                           *)
CreateTasks(l) ==
  /\ creator = "create"
  /\ l \in Band \ made
  /\ \A k \in Band : EarlierBand(k, l) => k \in made
  /\ made' = made \cup {l}
  /\ st' = [t \in Task |-> IF t \in TasksOf(l) THEN "created" ELSE st[t]]
  /\ creator' = "check"
  /\ UNCHANGED <<bad, engaged, cleared, exceptionThrown, errors, pc, outcome, firstErr>>

CheckCreator ==
  /\ creator = "check"
  /\ creator' = IF exceptionThrown \/ made = Band THEN "left" ELSE "create"
  /\ UNCHANGED <<bad, made, st, engaged, cleared, exceptionThrown, errors, pc, outcome,
                 firstErr>>
-----------------------------------------------------------------------------
Completed(t) == st[t] \in {"done", "failed", "skipped"}

Running == {t \in Task : st[t] \in {"run", "log"}}

Ready(t) == /\ st[t] = "created"
            /\ \A p \in Predecessors[t] : Completed(p)

(* A thread picks a task whose dependences are met.  The task first reads the flag
   and does nothing when it is set.                                              *)
StartTask(t) ==
  /\ Ready(t)
  /\ Cardinality(Running) < Cardinality(Thread)
  /\ st' = [st EXCEPT ![t] = IF exceptionThrown THEN "skipped" ELSE "run"]
  /\ UNCHANGED <<bad, made, creator, engaged, cleared, exceptionThrown, errors, pc,
                 outcome, firstErr>>

(* AbstractDecodeableBand::createDecodingTasks(): the task decodes; or the exception
   is logged, and then the flag is written, before the task ends.                *)
DecodeIntoNext(l) ==   \* (mutant) the data ends up one wavelet further
  /\ st[Decode(l)] = "run"
  /\ l \notin bad
  /\ st' = [st EXCEPT ![Decode(l)] = "done"]
  /\ engaged' = engaged \cup {Data(Source(l, l[3]))}
  /\ UNCHANGED <<bad, made, creator, cleared, exceptionThrown, errors, pc, outcome, firstErr>>

DecodeBand(l) ==
  /\ st[Decode(l)] = "run"
  /\ l \notin bad
  /\ st' = [st EXCEPT ![Decode(l)] = "done"]
  /\ engaged' = engaged \cup {Data(l)}
  /\ UNCHANGED <<bad, made, creator, cleared, exceptionThrown, errors, pc, outcome, firstErr>>

RetryBand(l) ==        \* (mutant) a band that throws is decoded again
  /\ st[Decode(l)] = "run"
  /\ l \in bad
  /\ st' = [st EXCEPT ![Decode(l)] = "created"]
  /\ UNCHANGED <<bad, made, creator, engaged, cleared, exceptionThrown, errors, pc, outcome,
                 firstErr>>

LogFailure(l) ==
  /\ st[Decode(l)] = "run"
  /\ l \in bad
  /\ st' = [st EXCEPT ![Decode(l)] = "log"]
  /\ errors' = errors \cup {l}
  /\ UNCHANGED <<bad, made, creator, engaged, cleared, exceptionThrown, pc, outcome, firstErr>>

RaiseFlag(l) ==
  /\ st[Decode(l)] = "log"
  /\ st' = [st EXCEPT ![Decode(l)] = "failed"]
  /\ exceptionThrown' = TRUE
  /\ UNCHANGED <<bad, made, creator, engaged, cleared, errors, pc, outcome, firstErr>>

(* The three reconstruction steps of ReconstructableBand: each engages its result. *)
Reconstruct(t) ==
  /\ t[1] \in {"low", "high", "combine"}
  /\ st[t] = "run"
  /\ st' = [st EXCEPT ![t] = "done"]
  /\ engaged' = engaged \cup Out(t)
  /\ UNCHANGED <<bad, made, creator, cleared, exceptionThrown, errors, pc, outcome, firstErr>>

(* The objects of the bands of wavelet l[2] + b, in the channel of l, exist.        *)
Alive(l, b) == <<l[1], l[2] + b>> \notin cleared

(* `wavelet.bands.clear()`: the band objects of the wavelet just used are destroyed,
   with everything in them.  The task finds `wavelet` through the band it belongs to,
   and nothing orders it with the clearing of that band's own wavelet: the band may be
   gone.  Then the memory still holds what was there, and the same wavelet is cleared;
   or it does not (ClearAstray), and nothing is known of the program any more.     *)
InWavelet(place, c, w) == place[2][1] = c /\ place[2][2] = w

ClearBands(t) ==
  /\ t[1] = "clear"
  /\ st[t] = "run"
  /\ st' = [st EXCEPT ![t] = "done"]
  /\ LET c == t[2][1]  w == t[2][2] + 1 IN
       /\ cleared' = cleared \cup {<<c, w>>}
       /\ engaged' = {p \in engaged : ~InWavelet(p, c, w)}
  /\ UNCHANGED <<bad, made, creator, exceptionThrown, errors, pc, outcome, firstErr>>

ClearAstray(t) ==
  /\ t[1] = "clear"
  /\ st[t] = "run"
  /\ ~Alive(t[2], 0)
  /\ outcome' = "undefined"
  /\ UNCHANGED <<bad, made, creator, st, engaged, cleared, exceptionThrown, errors, pc,
                 firstErr>>
-----------------------------------------------------------------------------
(* The barrier at the end of `omp single`: nobody passes it before the creator is
   done and every task has completed.                                            *)
NoWait == creator = "left"            \* (mutant) the other threads do not wait for tasks

BarrierOpen == /\ creator = "left"
               /\ \A t \in Task : st[t] = "none" \/ Completed(t)

(* decodeThread(): the thread reads the flag and joins combineFinalLowpassBands(), or
   leaves.                                                                        *)
PassBarrier(t) ==
  /\ pc[t] = "tasks"
  /\ BarrierOpen
  /\ pc' = [pc EXCEPT ![t] = IF exceptionThrown THEN "skip" ELSE "combine"]
  /\ UNCHANGED <<bad, made, creator, st, engaged, cleared, exceptionThrown, errors, outcome,
                 firstErr>>

CombineRows(t) ==
  /\ pc[t] = "combine"
  /\ pc' = [pc EXCEPT ![t] = "combined"]
  /\ UNCHANGED <<bad, made, creator, st, engaged, cleared, exceptionThrown, errors, outcome,
                 firstErr>>

(* The barrier that ends `omp for`: the whole team has to be there.               *)
LeaveLoop(t) ==
  /\ pc[t] = "combined"
  /\ \A r \in Thread : pc[r] \in {"combined", "left"}
  /\ pc' = [pc EXCEPT ![t] = "left"]
  /\ UNCHANGED <<bad, made, creator, st, engaged, cleared, exceptionThrown, errors, outcome,
                 firstErr>>

(* The rest of decode(): the log decides whether it throws.                      *)
Joined == outcome = "running" /\ \A t \in Thread : pc[t] \in {"skip", "left"}

FinishRegardless ==    \* (mutant) decode() does not ask the log
  /\ Joined
  /\ outcome' = "ok"
  /\ UNCHANGED <<bad, made, creator, st, engaged, cleared, exceptionThrown, errors, pc,
                 firstErr>>

Finish ==
  /\ Joined
  /\ IF errors # {}
       THEN outcome' = "threw" /\ \E l \in errors : firstErr' = {l}
       ELSE outcome' = "ok" /\ UNCHANGED firstErr
  /\ UNCHANGED <<bad, made, creator, st, engaged, cleared, exceptionThrown, errors, pc>>

Finished == outcome # "running" /\ UNCHANGED vars

Next == \/ \E l \in Band : CreateTasks(l)
        \/ CheckCreator
        \/ \E t \in Task : StartTask(t) \/ Reconstruct(t) \/ ClearBands(t) \/ ClearAstray(t)
        \/ \E l \in DecodableBand : DecodeBand(l) \/ LogFailure(l) \/ RaiseFlag(l)
        \/ \E t \in Thread : PassBarrier(t) \/ CombineRows(t) \/ LeaveLoop(t)
        \/ Finish
        \/ Finished

Spec == Init /\ [][Next]_vars

(* The OpenMP runtime completes the tasks of a region; no step is ever repeated, so
   it is enough that the team as a whole does not stop.                          *)
FairSpec == Spec /\ WF_vars(Next)
-----------------------------------------------------------------------------
TypeOK ==
  /\ bad \subseteq HighPassBand
  /\ made \subseteq Band
  /\ creator \in {"create", "check", "left"}
  /\ st \in [Task -> {"none", "created", "run", "log", "done", "failed", "skipped"}]
  /\ engaged \subseteq Place
  /\ cleared \subseteq Channel \X Wavelet
  /\ exceptionThrown \in BOOLEAN
  /\ errors \subseteq HighPassBand
  /\ pc \in [Thread -> {"tasks", "combine", "combined", "left", "skip"}]
  /\ outcome \in {"running", "ok", "threw", "undefined"}
  /\ firstErr \subseteq HighPassBand

(* "Failed to produce precursor bands?", "Failed to combine precursor bands?": a
   reconstruction task that saw the flag down finds its inputs, whatever has failed,
   been skipped or been freed meanwhile.                                         *)
PrecursorsReady ==
  \A l \in Band : Reconstructable(l) =>
    /\ st[<<"low", l>>] = "run" => {Data(Source(l, 2)), Data(Source(l, 0))} \subseteq engaged
    /\ st[<<"high", l>>] = "run" => {Data(Source(l, 3)), Data(Source(l, 1))} \subseteq engaged
    /\ st[<<"combine", l>>] = "run" => {LowPass(l), HighPass(l)} \subseteq engaged

(* "Failed to reconstruct all final lowpass bands?": a thread that writes the image has
   the full-size low-pass band of every channel.                                 *)
FinalBandsReady ==
  \A t \in Thread : pc[t] = "combine" =>
    \A c \in Channel : Data(<<c, 0, 0>>) \in engaged

(* The band objects a task is made of, or works on, have not been destroyed by the
   clearing task of the wavelet they are in: neither when the creator walks over them
   nor while the task runs.  A clearing task itself has no such guarantee, it may find its
   own band destroyed; but then nobody needs the bands it is to clear any more, and the
   clearing task of the full-size band, which has no next one, is always safe.     *)
LiveBands ==
  /\ \A l \in Band : creator = "create" /\ l \notin made =>
       Alive(l, 0) /\ (Reconstructable(l) => Alive(l, 1))
  /\ \A t \in Running :
       /\ t[1] # "clear" \/ t[2][2] = 0 => Alive(t[2], 0)
       /\ t[1] = "clear" /\ ~Alive(t[2], 0) =>
            \A k \in {"low", "high", "combine"} : st[<<k, t[2]>>] = "done"
       /\ t[1] \in {"low", "high"} => Alive(t[2], 1)

(* The assertions of decode(): the flag was raised exactly when something is in the
   log.                                                                           *)
LogMatchesFlag == outcome \in {"ok", "threw"} => (errors # {} <=> exceptionThrown)

(* The whole team joins the loop over the rows, or nobody does: its barrier counts on
   every thread.                                                                  *)
TeamAgrees == \A t, r \in Thread : pc[t] = "skip" => pc[r] \in {"tasks", "skip"}

(* decode() keeps the contract of a decompressor: with slices read as the bands of the
   stream, it returns only when each was decoded and otherwise reports one that was
   not.  A program that has gone astray does neither as far as is known.          *)
Contract == INSTANCE DecodeContract
              WITH Slice <- DecodableBand, supported <- TRUE,
                   decoded <- {l \in DecodableBand : st[Decode(l)] = "done"},
                   outcome <- IF outcome = "undefined" THEN "running" ELSE outcome

Implements == Contract!Spec

(* The task graph has no cycle and nobody waits for a task that will not run: decode()
   ends, unless a clearing task goes astray.                                      *)
Terminates == <>(outcome # "running")
=============================================================================
