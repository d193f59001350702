------------------------- MODULE SliceDecode_proofs -------------------------
(* Safety of the slice-parallel decompressors, for every team, every number of
   slices and every schedule.                                                   *)
EXTENDS SliceDecode, SequenceTheorems, TLAPS

(* The state of the log and of its mutex: a thread that is pushing holds the mutex,
   the end it has read is still the end when it stores, and a thread that has
   been through the handler leaves a log that is not empty.                     *)
LockInv ==
  \A t \in Thread : /\ pc[t] \in {"push", "store"} => mutex = t
                    /\ pc[t] = "store" => end[t] = Len(errors)
                    /\ pc[t] = "handled" => errors # << >>

(* What each thread is doing with the slice at hand: the slices it still has to do
   are untouched, the one it decodes is untouched and the one it is recording is
   not in the log yet.                                                          *)
CurInv ==
  \A t \in Thread :
    /\ \A s \in todo[t] : Owner[s] = t /\ image[s] = "blank"
    /\ pc[t] = "enter" => cur[t] = Unsupported
    /\ pc[t] = "decode" => /\ cur[t] \in Slice
                           /\ Owner[cur[t]] = t
                           /\ cur[t] \notin todo[t]
                           /\ image[cur[t]] = "blank"
    /\ Recording(t) => \/ cur[t] = Unsupported /\ ~supported
                       \/ /\ cur[t] \in Slice
                          /\ Owner[cur[t]] = t
                          /\ image[cur[t]] = "partial"
                          /\ ~Logged(cur[t])

BlankNotLogged == \A s \in Slice : image[s] = "blank" => ~Logged(s)

(* The log is not empty, or each slice is finished, or its owner still has it.   *)
StillOwned(s) ==
  LET t == Owner[s]
  IN  \/ pc[t] # "joined" /\ s \in todo[t]
      \/ cur[t] = s /\ (pc[t] = "decode" \/ Recording(t))
      \/ ~supported /\ (pc[t] = "enter" \/ Recording(t))

NoneForgotten ==
  errors # << >> \/ \A s \in Slice : image[s] = "done" \/ StillOwned(s)

Closed == outcome # "running" =>
            /\ Joined
            /\ outcome = "ok" /\ ChecksLog => errors = << >>

IInv == /\ TypeOK
        /\ LockInv
        /\ CurInv
        /\ BlankNotLogged
        /\ EveryFailureLoggedOnce
        /\ NoneForgotten
        /\ Closed

LEMMA InitIInv == Init => IInv
<1> SUFFICES ASSUME Init PROVE IInv
  OBVIOUS
<1> USE SliceDecodeAssumption DEF Init
<1>1. TypeOK
  BY DEF TypeOK, PCs
<1>2. LockInv /\ CurInv /\ BlankNotLogged /\ EveryFailureLoggedOnce /\ Closed
  BY DEF LockInv, CurInv, BlankNotLogged, EveryFailureLoggedOnce, Closed, Recording, Logged
<1>3. NoneForgotten
  BY DEF NoneForgotten, StillOwned
<1> QED BY <1>1, <1>2, <1>3 DEF IInv

(* One lemma per action of a thread.                                             *)
LEMMA EnterStep ==
  ASSUME IInv, NEW t \in Thread, Enter(t) PROVE IInv'
<1> USE SliceDecodeAssumption DEF IInv, Enter, Goto, shared, TypeOK, PCs, Recording
<1>1. TypeOK'
  OBVIOUS
<1>2. LockInv'
  BY DEF LockInv
<1>3. CurInv' /\ BlankNotLogged'
  BY DEF CurInv, BlankNotLogged, Logged
<1>4. EveryFailureLoggedOnce'
  BY DEF CurInv, EveryFailureLoggedOnce, Logged
<1>5. NoneForgotten'
  BY DEF CurInv, NoneForgotten, StillOwned
<1>6. Closed'
  BY DEF Closed, Joined
<1> QED BY <1>1, <1>2, <1>3, <1>4, <1>5, <1>6

LEMMA NextSliceStep ==
  ASSUME IInv, NEW t \in Thread, NextSlice(t) PROVE IInv'
<1> USE SliceDecodeAssumption DEF IInv, NextSlice, Goto, shared, TypeOK, PCs, Recording
<1>1. TypeOK'
  OBVIOUS
<1>2. LockInv'
  BY DEF LockInv
<1>3. CurInv' /\ BlankNotLogged'
  BY DEF CurInv, BlankNotLogged, Logged
<1>4. EveryFailureLoggedOnce'
  BY DEF CurInv, EveryFailureLoggedOnce, Logged
<1>5. NoneForgotten'
  BY DEF CurInv, NoneForgotten, StillOwned
<1>6. Closed'
  BY DEF Closed, Joined
<1> QED BY <1>1, <1>2, <1>3, <1>4, <1>5, <1>6

LEMMA LoopDoneStep ==
  ASSUME IInv, NEW t \in Thread, LoopDone(t) PROVE IInv'
<1> USE SliceDecodeAssumption DEF IInv, LoopDone, Goto, shared, TypeOK, PCs, Recording
<1>1. TypeOK'
  OBVIOUS
<1>2. LockInv'
  BY DEF LockInv
<1>3. CurInv' /\ BlankNotLogged'
  BY DEF CurInv, BlankNotLogged, Logged
<1>4. EveryFailureLoggedOnce'
  BY DEF CurInv, EveryFailureLoggedOnce, Logged
<1>5. NoneForgotten'
  BY DEF CurInv, NoneForgotten, StillOwned
<1>6. Closed'
  BY DEF Closed, Joined
<1> QED BY <1>1, <1>2, <1>3, <1>4, <1>5, <1>6

LEMMA DecodeSliceStep ==
  ASSUME IInv, NEW t \in Thread, DecodeSlice(t) PROVE IInv'
<1> USE SliceDecodeAssumption DEF IInv, DecodeSlice, Goto, shared, TypeOK, PCs, Recording
<1>1. TypeOK'
  OBVIOUS
<1>2. LockInv'
  BY DEF LockInv
<1>3. CurInv' /\ BlankNotLogged'
  BY DEF CurInv, BlankNotLogged, Logged
<1>4. EveryFailureLoggedOnce'
  BY DEF CurInv, EveryFailureLoggedOnce, Logged
<1>5. NoneForgotten'
  BY DEF CurInv, NoneForgotten, StillOwned
<1>6. Closed'
  BY DEF Closed, Joined
<1> QED BY <1>1, <1>2, <1>3, <1>4, <1>5, <1>6

LEMMA SliceThrowsStep ==
  ASSUME IInv, NEW t \in Thread, SliceThrows(t) PROVE IInv'
<1> USE SliceDecodeAssumption DEF IInv, SliceThrows, Goto, shared, TypeOK, PCs, Recording
<1>1. TypeOK'
  OBVIOUS
<1>2. LockInv'
  BY DEF LockInv
<1>3. CurInv' /\ BlankNotLogged'
  BY DEF CurInv, BlankNotLogged, Logged
<1>4. EveryFailureLoggedOnce'
  BY DEF CurInv, EveryFailureLoggedOnce, Logged
<1>5. NoneForgotten'
  BY DEF CurInv, NoneForgotten, StillOwned
<1>6. Closed'
  BY DEF Closed, Joined
<1> QED BY <1>1, <1>2, <1>3, <1>4, <1>5, <1>6

LEMMA AcquireStep ==
  ASSUME IInv, NEW t \in Thread, Acquire(t) PROVE IInv'
<1> USE SliceDecodeAssumption DEF IInv, Acquire, Goto, shared, TypeOK, PCs, Recording
<1>1. TypeOK'
  OBVIOUS
<1>2. LockInv'
  BY DEF LockInv, LockFree
<1>3. CurInv' /\ BlankNotLogged'
  BY DEF CurInv, BlankNotLogged, Logged
<1>4. EveryFailureLoggedOnce'
  BY DEF CurInv, EveryFailureLoggedOnce, Logged
<1>5. NoneForgotten'
  BY DEF CurInv, NoneForgotten, StillOwned
<1>6. Closed'
  BY DEF Closed, Joined
<1> QED BY <1>1, <1>2, <1>3, <1>4, <1>5, <1>6

LEMMA PushReadStep ==
  ASSUME IInv, NEW t \in Thread, PushRead(t) PROVE IInv'
<1> USE SliceDecodeAssumption DEF IInv, PushRead, Goto, shared, TypeOK, PCs, Recording
<1>1. TypeOK'
  OBVIOUS
<1>2. LockInv'
  BY DEF LockInv
<1>3. CurInv' /\ BlankNotLogged'
  BY DEF CurInv, BlankNotLogged, Logged
<1>4. EveryFailureLoggedOnce'
  BY DEF CurInv, EveryFailureLoggedOnce, Logged
<1>5. NoneForgotten'
  BY DEF CurInv, NoneForgotten, StillOwned
<1>6. Closed'
  BY DEF Closed, Joined
<1> QED BY <1>1, <1>2, <1>3, <1>4, <1>5, <1>6

LEMMA HandledStep ==
  ASSUME IInv, NEW t \in Thread, Handled(t) PROVE IInv'
<1> USE SliceDecodeAssumption DEF IInv, Handled, Goto, shared, TypeOK, PCs, Recording,
         AfterError
<1>1. TypeOK'
  OBVIOUS
<1>2. LockInv'
  BY DEF LockInv
<1>3. CurInv' /\ BlankNotLogged'
  BY DEF CurInv, BlankNotLogged, Logged
<1>4. EveryFailureLoggedOnce'
  BY DEF CurInv, EveryFailureLoggedOnce, Logged
<1>5. NoneForgotten'
  BY DEF LockInv, CurInv, NoneForgotten, StillOwned
<1>6. Closed'
  BY DEF Closed, Joined
<1> QED BY <1>1, <1>2, <1>3, <1>4, <1>5, <1>6

(* push_back under the mutex appends, and only a slice not in the log yet.       *)
LEMMA PushStoreStep ==
  ASSUME IInv, NEW t \in Thread, PushStore(t) PROVE IInv'
<1> USE SliceDecodeAssumption DEF IInv, PushStore, Goto
<1>1. /\ end[t] = Len(errors) /\ mutex = t
      /\ cur[t] \in Slice \cup {Unsupported}
      /\ errors \in Seq(Slice \cup {Unsupported})
  BY DEF LockInv, TypeOK
<1>2. SubSeq(errors, 1, Len(errors)) = errors
  BY <1>1, SubSeqFull
<1>3. errors' = Append(errors, cur[t])
  BY <1>1, <1>2
<1>4. /\ errors' \in Seq(Slice \cup {Unsupported})
      /\ errors' # << >>
      /\ Len(errors') = Len(errors) + 1
      /\ errors'[Len(errors) + 1] = cur[t]
      /\ \A i \in 1 .. Len(errors) : errors'[i] = errors[i]
  BY <1>1, <1>3
<1>5. \A s : Logged(s)' <=> Logged(s) \/ s = cur[t]
  BY <1>1, <1>4 DEF Logged
<1>6. TypeOK'
  BY <1>4 DEF TypeOK, PCs
<1>7. LockInv'
  BY <1>1, <1>4 DEF LockInv, TypeOK
<1>8. CurInv'
  <2>1. \A r \in Thread : Recording(r)' => r # t /\ Recording(r)
    BY DEF TypeOK, Recording
  <2>2. \A r \in Thread : Recording(r)' /\ cur[r] \in Slice => cur[r] # cur[t]
    BY <2>1 DEF CurInv, TypeOK, Recording
  <2>3. \A r \in Thread : pc'[r] \in {"enter", "decode"} => pc'[r] = pc[r]
    BY DEF TypeOK
  <2>4. \A r \in Thread : Recording(r)' =>
                            \/ cur[r] = Unsupported /\ ~supported
                            \/ /\ cur[r] \in Slice
                               /\ Owner[cur[r]] = r
                               /\ image[cur[r]] = "partial"
                               /\ ~Logged(cur[r])'
    BY <1>5, <2>1, <2>2 DEF CurInv
  <2> HIDE DEF PushStore
  <2>5. UNCHANGED <<todo, cur, image, supported>>
    BY DEF PushStore
  <2>6. \A r \in Thread : cur'[r] = cur[r] /\ todo'[r] = todo[r]
    BY <2>5
  <2> QED BY <2>3, <2>4, <2>5, <2>6 DEF CurInv
<1>9. BlankNotLogged'
  <2>1. cur[t] \in Slice => image[cur[t]] = "partial"
    BY SliceDecodeAssumption DEF CurInv, Recording
  <2>2. image' = image
    OBVIOUS
  <2> QED BY <1>5, <2>1, <2>2 DEF BlankNotLogged
<1>10. EveryFailureLoggedOnce'
  <2>1. SUFFICES ASSUME NEW s \in Slice, image[s] = "partial",
                        ~(Recording(Owner[s])' /\ cur[Owner[s]] = s)
                 PROVE  /\ Logged(s)'
                        /\ \A i, j \in 1 .. Len(errors') :
                             errors'[i] = s /\ errors'[j] = s => i = j
    BY DEF EveryFailureLoggedOnce
  <2>2. CASE s = cur[t]
    <3>1. ~Logged(s)
      BY <2>1, <2>2, SliceDecodeAssumption DEF CurInv, Recording
    <3>2. \A i \in 1 .. Len(errors) : errors'[i] # s
      BY <3>1, <1>4 DEF Logged
    <3> QED BY <1>1, <1>4, <1>5, <2>2, <3>2
  <2>3. CASE s # cur[t]
    <3>1. ~(Recording(Owner[s]) /\ cur[Owner[s]] = s)
      BY <2>1, <2>3 DEF TypeOK, Recording
    <3> QED BY <1>1, <1>4, <1>5, <2>1, <2>3, <3>1 DEF EveryFailureLoggedOnce
  <2> QED BY <2>2, <2>3
<1>11. NoneForgotten'
  BY <1>4 DEF NoneForgotten
<1>12. Closed'
  BY DEF Closed, Joined, TypeOK
<1> QED BY <1>6, <1>7, <1>8, <1>9, <1>10, <1>11, <1>12

LEMMA FinishStep == IInv /\ Finish => IInv'
<1> SUFFICES ASSUME IInv, Finish PROVE IInv'
  OBVIOUS
<1> USE SliceDecodeAssumption DEF IInv, Finish, shared
<1>1. TypeOK'
  BY DEF TypeOK, TooManyErrors
<1>2. LockInv' /\ CurInv' /\ BlankNotLogged' /\ EveryFailureLoggedOnce' /\ NoneForgotten'
  BY DEF LockInv, CurInv, BlankNotLogged, EveryFailureLoggedOnce, NoneForgotten,
         StillOwned, Recording, Logged
<1>3. Closed'
  BY DEF Closed, Joined, TooManyErrors, TypeOK
<1> QED BY <1>1, <1>2, <1>3

LEMMA StutterStep == IInv /\ UNCHANGED vars => IInv'
  BY DEF IInv, vars, TypeOK, LockInv, CurInv, BlankNotLogged, EveryFailureLoggedOnce,
         NoneForgotten, Closed, StillOwned, Recording, Logged, Joined

THEOREM Inductive == Spec => []IInv
<1>1. IInv /\ [Next]_vars => IInv'
  BY EnterStep, NextSliceStep, LoopDoneStep, DecodeSliceStep, SliceThrowsStep,
     AcquireStep, PushReadStep, PushStoreStep, HandledStep, FinishStep, StutterStep
     DEF Next, ThreadStep, Finished
<1> QED BY InitIInv, <1>1, PTL DEF Spec

(* The variables of the model stay in their types: in particular a push never reads
   an end outside of the log.                                                    *)
THEOREM TypeCorrect == Spec => []TypeOK
<1>1. IInv => TypeOK
  BY DEF IInv
<1> QED BY Inductive, <1>1, PTL

(* ErrorLog::setError() under its mutex loses and duplicates nothing, for every team
   and every schedule.                                                           *)
THEOREM LogIsExact == Spec => []EveryFailureLoggedOnce
<1>1. IInv => EveryFailureLoggedOnce
  BY DEF IInv
<1> QED BY Inductive, <1>1, PTL

(* A decompressor that asks the log returns normally only with the whole image.  *)
THEOREM CompleteWhenChecked ==
  ASSUME ChecksLog PROVE Spec => []OkMeansComplete
<1>1. IInv => OkMeansComplete
  <2> SUFFICES ASSUME IInv, outcome = "ok", NEW s \in Slice PROVE image[s] = "done"
    BY DEF OkMeansComplete
  <2>1. Joined /\ errors = << >>
    BY ChecksLog DEF IInv, Closed
  <2>2. pc[Owner[s]] = "joined"
    BY <2>1, SliceDecodeAssumption DEF Joined
  <2> QED BY <2>1, <2>2 DEF IInv, NoneForgotten, StillOwned, Recording
<1> QED BY Inductive, <1>1, PTL
-----------------------------------------------------------------------------
(* Where errors come from: whatever is in the log, or on its way to it, is a cause
   the contract allows; a thread is in the loop only if the codec is known, and an
   unknown codec reaches the log of every team.                                 *)
CauseInv ==
  /\ \A i \in 1 .. Len(errors) : errors[i] \in Contract!Causes
  /\ \A t \in Thread : Recording(t) => cur[t] \in Contract!Causes
  /\ \A t \in Thread : pc[t] \in {"for", "decode"} \/ cur[t] # Unsupported => supported
  /\ \A t \in Thread : supported \/ pc[t] = "enter" \/ Recording(t) \/ errors # << >>
  /\ \A s \in Slice : image[s] = "done" => s \notin bad

LEMMA CauseInductive ==
  ASSUME IInv, CauseInv, [Next]_vars PROVE CauseInv'
<1> USE SliceDecodeAssumption DEF IInv, TypeOK, PCs, Goto, shared
<1>1. UNCHANGED Contract!Causes
  BY DEF Contract!Causes, Next, ThreadStep, Finish, Finished, vars, Enter, NextSlice,
         LoopDone, DecodeSlice, SliceThrows, Acquire, PushRead, PushStore, Handled
<1>2. ASSUME NEW t \in Thread, Enter(t) PROVE CauseInv'
  <2>1. cur[t] = Unsupported
    BY <1>2 DEF Enter, CurInv
  <2>2. ~supported => cur[t] \in Contract!Causes
    BY <2>1 DEF Contract!Causes
  <2> QED BY <1>1, <1>2, <2>2 DEF CauseInv, Recording, Enter
<1>9. ASSUME NEW t \in Thread, NextSlice(t) \/ LoopDone(t) PROVE CauseInv'
  BY <1>1, <1>9 DEF CauseInv, Recording, NextSlice, LoopDone
<1>3. ASSUME NEW t \in Thread, DecodeSlice(t) \/ SliceThrows(t) PROVE CauseInv'
  BY <1>1, <1>3 DEF CauseInv, Recording, DecodeSlice, SliceThrows, Contract!Causes, CurInv
<1>4. ASSUME NEW t \in Thread, Acquire(t) \/ PushRead(t) PROVE CauseInv'
  <2>1. UNCHANGED <<bad, supported, cur, image, errors>>
    BY <1>4 DEF Acquire, PushRead
  <2>2. ASSUME NEW r \in Thread
        PROVE  /\ Recording(r)' <=> Recording(r)
               /\ pc'[r] \in {"for", "decode"} => pc[r] \in {"for", "decode"}
               /\ pc[r] = "enter" => pc'[r] = "enter"
    BY <1>4 DEF Recording, Acquire, PushRead
  <2>3. /\ \A i \in 1 .. Len(errors') : errors'[i] \in Contract!Causes'
        /\ \A s \in Slice : image'[s] = "done" => s \notin bad'
    BY <1>1, <2>1 DEF CauseInv
  <2>4. \A r \in Thread : Recording(r)' => cur'[r] \in Contract!Causes'
    BY <1>1, <2>1, <2>2 DEF CauseInv
  <2>5. \A r \in Thread : pc'[r] \in {"for", "decode"} \/ cur'[r] # Unsupported => supported'
    BY <2>1, <2>2 DEF CauseInv
  <2>6. \A r \in Thread : supported' \/ pc'[r] = "enter" \/ Recording(r)' \/ errors' # << >>
    BY <2>1, <2>2 DEF CauseInv
  <2> QED BY <2>3, <2>4, <2>5, <2>6 DEF CauseInv
<1>5. ASSUME NEW t \in Thread, Handled(t) PROVE CauseInv'
  BY <1>1, <1>5 DEF CauseInv, Recording, Handled, AfterError, LockInv
<1>6. ASSUME NEW t \in Thread, PushStore(t) PROVE CauseInv'
  <2>1. end[t] = Len(errors) /\ cur[t] \in Contract!Causes
    BY <1>6 DEF LockInv, CauseInv, Recording, PushStore
  <2>2. SubSeq(errors, 1, Len(errors)) = errors
    BY SubSeqFull
  <2>3. errors' = Append(errors, cur[t])
    BY <1>6, <2>1, <2>2 DEF PushStore
  <2>4. /\ errors' # << >>
        /\ \A i \in 1 .. Len(errors') : errors'[i] \in Contract!Causes
    BY <2>1, <2>3 DEF CauseInv
  <2> QED BY <1>1, <1>6, <2>4 DEF CauseInv, Recording, PushStore
<1>7. ASSUME Finish PROVE CauseInv'
  BY <1>1, <1>7 DEF CauseInv, Recording, Finish
<1>8. ASSUME UNCHANGED vars PROVE CauseInv'
  BY <1>1, <1>8 DEF CauseInv, Recording, vars
<1> QED BY <1>2, <1>3, <1>4, <1>5, <1>6, <1>7, <1>8, <1>9 DEF Next, ThreadStep, Finished

THEOREM ErrorsHaveCauses == Spec => []CauseInv
<1>1. Init => CauseInv
  BY SliceDecodeAssumption DEF Init, CauseInv, Recording
<1>2. IInv /\ CauseInv /\ [Next]_vars => CauseInv'
  BY CauseInductive
<1> QED BY Inductive, <1>1, <1>2, PTL DEF Spec

(* Every step of the team is a step of the contract or invisible to it.          *)
LEMMA StepRefines ==
  ASSUME ChecksLog, IInv, CauseInv, [Next]_vars
  PROVE  [Contract!Next]_(Contract!vars)
<1> DEFINE done == {s \in Slice : image[s] = "done"}
<1> USE SliceDecodeAssumption DEF IInv, TypeOK, Goto, shared
<1>1. ASSUME NEW t \in Thread, DecodeSlice(t) PROVE Contract!DecodeSlice(cur[t])
  <2>1. /\ cur[t] \in Slice
        /\ supported
        /\ outcome = "running"
    BY <1>1 DEF DecodeSlice, CurInv, CauseInv, Closed, Joined
  <2>2. done' = done \cup {cur[t]}
    BY <1>1, <2>1 DEF DecodeSlice
  <2> QED BY <1>1, <2>1, <2>2 DEF DecodeSlice, Contract!DecodeSlice
<1>2. ASSUME NEW t \in Thread, SliceThrows(t) PROVE UNCHANGED Contract!vars
  <2>1. cur[t] \in Slice /\ image[cur[t]] = "blank"
    BY <1>2 DEF SliceThrows, CurInv
  <2>2. done' = done
    BY <1>2, <2>1 DEF SliceThrows
  <2> QED BY <1>2, <2>2 DEF SliceThrows, Contract!vars
<1>3. ASSUME NEW t \in Thread,
             \/ Enter(t) \/ NextSlice(t) \/ LoopDone(t)
             \/ Acquire(t) \/ PushRead(t) \/ PushStore(t) \/ Handled(t)
      PROVE  UNCHANGED Contract!vars
  BY <1>3 DEF Enter, NextSlice, LoopDone, Acquire, PushRead, PushStore, Handled, Contract!vars
<1>4. ASSUME Finish PROVE Contract!Return \/ Contract!Throw
  <2>1. CASE TooManyErrors(1)
    <3>1. errors[1] \in Contract!Causes
      BY <2>1 DEF TooManyErrors, CauseInv
    <3> QED BY <1>4, <2>1, <3>1, ChecksLog DEF Finish, Contract!Throw
  <2>2. CASE ~TooManyErrors(1)
    <3>1. errors = << >>
      BY <2>2, EmptySeq DEF TooManyErrors
    <3>2. \A t \in Thread : pc[t] = "joined"
      BY <1>4 DEF Finish, Joined
    <3>3. done = Slice
      <4>1. ASSUME NEW s \in Slice PROVE image[s] = "done"
        <5>1. Owner[s] \in Thread /\ pc[Owner[s]] = "joined"
          BY <3>2
        <5> QED BY <3>1, <5>1 DEF NoneForgotten, StillOwned, Recording
      <4> QED BY <4>1
    <3>4. Contract!Causes = {}
      BY <3>1, <3>2, <3>3 DEF CauseInv, Recording, Contract!Causes
    <3> QED BY <1>4, <2>2, <3>3, <3>4 DEF Finish, Contract!Return
  <2> QED BY <2>1, <2>2
<1>5. ASSUME UNCHANGED vars PROVE UNCHANGED Contract!vars
  BY <1>5 DEF vars, Contract!vars
<1>6. ASSUME NEW t \in Thread, DecodeSlice(t) PROVE Contract!Next
  <2>1. cur[t] \in Slice
    BY <1>6 DEF DecodeSlice, CurInv
  <2>2. \E s \in Slice : Contract!DecodeSlice(s)
    BY <1>1, <1>6, <2>1 DEF Contract!DecodeSlice
  <2> QED BY <2>2 DEF Contract!Next
<1> QED BY <1>2, <1>3, <1>4, <1>5, <1>6 DEF Next, ThreadStep, Finished, Contract!Next

(* The decompressors that ask the log implement the contract of decompress(): they
   return only the whole image, and throw only about a failure of this image.    *)
THEOREM Refinement == ASSUME ChecksLog PROVE Spec => Implements
<1>1. Init => Contract!Init
  BY SliceDecodeAssumption DEF Init, Contract!Init
<1>2. IInv /\ CauseInv /\ [Next]_vars => [Contract!Next]_(Contract!vars)
  BY ChecksLog, StepRefines
<1> QED BY Inductive, ErrorsHaveCauses, <1>1, <1>2, PTL DEF Spec, Implements, Contract!Spec
=============================================================================
