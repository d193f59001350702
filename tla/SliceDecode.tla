---------------------------- MODULE SliceDecode ----------------------------
(* The work-sharing decompressors: a team of OpenMP threads shares the slices of
   one image (`#pragma omp for schedule(static)`), each slice is decoded inside a
   try block, a failure is appended to the image's ErrorLog, and once the team has
   joined, decompress() asks the log whether to throw.

   AbstractDngDecompressor, PhaseOneDecompressor, FujiDecompressor,
   SonyArw2Decompressor, PanasonicV8Decompressor and the tile loop of
   ArwDecoder::decodeLJpeg all have this shape; they differ in the constants:
     ChecksLog      decompress() calls isTooManyErrors() (PanasonicV8 does not)
     HasCancel      the handler runs `omp cancel for` (SonyArw2 only), which does
                    something when OMP_CANCELLATION is set
     ChecksCodec    the codec is dispatched inside the parallel region and may be
                    unknown (AbstractDngDecompressor only)
   A slice's pixels do not matter here, only whether its decoding threw.         *)
EXTENDS Naturals, Sequences

CONSTANTS Thread,        \* the team of the parallel region
          NSlices,       \* slices / strips / tiles / rows of the image
          Owner,         \* OpenMP's static schedule: iteration -> thread
          ChecksLog, HasCancel, ChecksCodec,
          Unsupported,   \* the error every thread logs for an unknown codec
          NoThread       \* "the mutex is free"

Slice == 0 .. NSlices - 1

ASSUME SliceDecodeAssumption ==
  /\ NSlices \in Nat
  /\ Owner \in [Slice -> Thread]
  /\ {ChecksLog, HasCancel, ChecksCodec} \subseteq BOOLEAN
  /\ Unsupported \notin Slice
  /\ NoThread \notin Thread
  /\ Thread # {}

VARIABLES bad,        \* slices whose bytes make their decoder throw
          supported,  \* the codec is known to this build
          cancelling, \* `omp cancel for` is there and OMP_CANCELLATION set
          pc,         \* per thread
          todo,       \* per thread: iterations of its chunk not yet started
          cur,        \* per thread: the slice at hand
          end,        \* per thread: the end of `errors` push_back has read
          image,      \* per slice: "blank", "partial" (threw), "done"
          errors,     \* ErrorLog::errors
          mutex,      \* ErrorLog::mutex
          outcome,    \* of decompress(): "running", "ok", "threw"
          firstErr    \* {} or {the error the exception quotes}

shared == <<image, errors, mutex>>
vars == <<bad, supported, cancelling, pc, todo, cur, end, image, errors, mutex, outcome, firstErr>>

PCs == {"enter", "for", "decode", "lock", "push", "store", "handled", "joined"}

Init == /\ bad \in SUBSET Slice
        /\ supported \in BOOLEAN
        /\ supported \/ ChecksCodec
        /\ cancelling \in BOOLEAN
        /\ cancelling => HasCancel
        /\ pc = [t \in Thread |-> "enter"]
        /\ todo = [t \in Thread |-> {s \in Slice : Owner[s] = t}]
        /\ cur = [t \in Thread |-> Unsupported]
        /\ end = [t \in Thread |-> 0]
        /\ image = [s \in Slice |-> "blank"]
        /\ errors = << >>
        /\ mutex = NoThread
        /\ outcome = "running"
        /\ firstErr = {}
-----------------------------------------------------------------------------
Goto(t, from, to) == pc[t] = from /\ pc' = [pc EXCEPT ![t] = to]

(* decompressThread(): the dispatch on `compression`; an unknown one is logged by
   every thread of the team, outside any loop.                                  *)
Enter(t) == /\ Goto(t, "enter", IF supported THEN "for" ELSE "lock")
            /\ UNCHANGED <<bad, supported, cancelling, todo, cur, end, shared, outcome, firstErr>>

(* The next iteration of the thread's chunk, in increasing order; when there is
   none the thread waits at the barrier that ends the loop.                     *)
NextSlice(t) == /\ Goto(t, "for", "decode")
                /\ \E s \in todo[t] :
                     /\ \A r \in todo[t] : s <= r
                     /\ cur' = [cur EXCEPT ![t] = s]
                     /\ todo' = [todo EXCEPT ![t] = @ \ {s}]
                /\ UNCHANGED <<bad, supported, cancelling, end, shared, outcome, firstErr>>

LoopDone(t) == /\ todo[t] = {}
               /\ Goto(t, "for", "joined")
               /\ UNCHANGED <<bad, supported, cancelling, todo, cur, end, shared, outcome, firstErr>>

(* The body of the try block: decodes the slice, or throws half way through.    *)
DecodeSlice(t) == /\ cur[t] \notin bad
                  /\ Goto(t, "decode", "for")
                  /\ image' = [image EXCEPT ![cur[t]] = "done"]
                  /\ UNCHANGED <<bad, supported, cancelling, todo, cur, end, errors, mutex, outcome, firstErr>>

\* (mutant) a failed slice goes back to the chunk instead of to the log
SliceIsRetried(t) == /\ cur[t] \in bad
                     /\ Goto(t, "decode", "for")
                     /\ todo' = [todo EXCEPT ![t] = @ \cup {cur[t]}]
                     /\ UNCHANGED <<bad, supported, cancelling, cur, end, shared, outcome, firstErr>>

SliceThrows(t) == /\ cur[t] \in bad
                  /\ Goto(t, "decode", "lock")
                  /\ image' = [image EXCEPT ![cur[t]] = "partial"]
                  /\ UNCHANGED <<bad, supported, cancelling, todo, cur, end, errors, mutex, outcome, firstErr>>

(* ErrorLog::setError(): MutexLocker, push_back (reads the vector's end, then
   stores at it), and the release when the locker goes out of scope.            *)
LockIgnored(t) == TRUE           \* (mutant) setError() without its MutexLocker

LockFree(t) == mutex = NoThread

Acquire(t) == /\ LockFree(t)
              /\ Goto(t, "lock", "push")
              /\ mutex' = t
              /\ UNCHANGED <<bad, supported, cancelling, todo, cur, end, image, errors, outcome, firstErr>>

\* (mutant) push_back at the last element instead of behind it
PushReadLast(t) == /\ Goto(t, "push", "store")
                   /\ end' = [end EXCEPT ![t] = Len(errors) - 1]
                   /\ UNCHANGED <<bad, supported, cancelling, todo, cur, shared, outcome, firstErr>>

PushRead(t) == /\ Goto(t, "push", "store")
               /\ end' = [end EXCEPT ![t] = Len(errors)]
               /\ UNCHANGED <<bad, supported, cancelling, todo, cur, shared, outcome, firstErr>>

PushStore(t) == /\ Goto(t, "store", "handled")
                /\ errors' = Append(SubSeq(errors, 1, end[t]), cur[t])
                /\ mutex' = NoThread
                /\ UNCHANGED <<bad, supported, cancelling, todo, cur, end, image, outcome, firstErr>>

(* After the handler: `omp cancel for` leaves the loop at once, otherwise the
   thread goes on with its chunk; the unknown-codec branch has no loop.         *)
AfterError(t) == IF cur[t] = Unsupported \/ cancelling THEN "joined" ELSE "for"

Handled(t) == /\ Goto(t, "handled", AfterError(t))
              /\ UNCHANGED <<bad, supported, cancelling, todo, cur, end, shared, outcome, firstErr>>

(* The rest of decompress(), by the master, once the region has joined:
   isTooManyErrors(1, &firstErr) locks the log, compares its size with 1 and
   copies errors[0]; decompress() throws when it returned true.                 *)
MoreErrorsThan(many) == Len(errors) > many     \* (mutant) off by one

TooManyErrors(many) == Len(errors) >= many

Joined == \A t \in Thread : pc[t] = "joined"

Finish == /\ outcome = "running"
          /\ Joined
          /\ mutex = NoThread
          /\ IF ChecksLog /\ TooManyErrors(1)
               THEN outcome' = "threw" /\ firstErr' = {errors[1]}
               ELSE outcome' = "ok" /\ UNCHANGED firstErr
          /\ UNCHANGED <<bad, supported, cancelling, pc, todo, cur, end, shared>>

ThreadStep(t) == \/ Enter(t) \/ NextSlice(t) \/ LoopDone(t)
                 \/ DecodeSlice(t) \/ SliceThrows(t)
                 \/ Acquire(t) \/ PushRead(t) \/ PushStore(t) \/ Handled(t)

(* decompress() has returned or thrown.                                         *)
Finished == outcome # "running" /\ UNCHANGED vars

Next == Finish \/ Finished \/ \E t \in Thread : ThreadStep(t)

Spec == Init /\ [][Next]_vars

(* Every thread of the team runs (they are OS threads and hold the mutex for a
   bounded time only, and at most one acquisition per error is ever waited for).*)
Fairness == WF_vars(Finish) /\ \A t \in Thread : WF_vars(ThreadStep(t))

FairSpec == Spec /\ Fairness
-----------------------------------------------------------------------------
TypeOK == /\ bad \subseteq Slice
          /\ {supported, cancelling} \subseteq BOOLEAN
          /\ pc \in [Thread -> PCs]
          /\ todo \in [Thread -> SUBSET Slice]
          /\ cur \in [Thread -> Slice \cup {Unsupported}]
          /\ end \in [Thread -> Nat]
          /\ image \in [Slice -> {"blank", "partial", "done"}]
          /\ errors \in Seq(Slice \cup {Unsupported})
          /\ mutex \in Thread \cup {NoThread}
          /\ outcome \in {"running", "ok", "threw"}
          /\ firstErr \in SUBSET (Slice \cup {Unsupported})

Recording(t) == pc[t] \in {"lock", "push", "store"}

Logged(s) == \E i \in 1 .. Len(errors) : errors[i] = s

(* When decompress() returns normally every slice of the image was decoded: no
   interleaving of the team, of its failures and of its log writes lets a failed
   or skipped slice through.                                                    *)
OkMeansComplete == outcome = "ok" => \A s \in Slice : image[s] = "done"

(* No two threads' setError() calls can overwrite one another: a slice that has
   failed is in the log exactly once as soon as its owner has left setError().   *)
EveryFailureLoggedOnce ==
  \A s \in Slice :
    image[s] = "partial" /\ ~(Recording(Owner[s]) /\ cur[Owner[s]] = s)
      => /\ Logged(s)
         /\ \A i, j \in 1 .. Len(errors) : errors[i] = s /\ errors[j] = s => i = j

(* A slice that threw inside the region makes decompress() throw ("Propagate the
   exception out of OpenMP magic.", the comment of every one of these handlers).  *)
FailuresPropagate ==
  outcome = "ok" => \A s \in Slice : image[s] # "partial"

(* Threads, chunks and log together implement the contract of decompress(): return
   only with the whole image, throw only for a failure of this very image.       *)
Contract == INSTANCE DecodeContract WITH decoded <- {s \in Slice : image[s] = "done"}

Implements == Contract!Spec

(* decompress() comes to an end whatever the slices contain.                     *)
Terminates == <>(outcome # "running")
=============================================================================
