--------------------------- MODULE VC5Tasks_proofs ---------------------------
(* Safety of the VC-5 task graph, for every number of channels and wavelet levels,
   every team and every set of undecodable bands.                               *)
EXTENDS VC5Tasks, TLAPS

(* The task whose `out` is the data of band l.                                   *)
Producer(l) == IF Reconstructable(l) THEN <<"combine", l>> ELSE Decode(l)

LEMMA BandShape ==
  ASSUME NEW l \in Band
  PROVE  /\ l = <<l[1], l[2], l[3]>>
         /\ l[1] \in Channel /\ l[2] \in 0 .. Levels /\ l[3] \in 0 .. 3
         /\ l[2] = 0 => l[3] = 0
  BY VC5TasksAssumption DEF Band, Bands, Wavelet

LEMMA BandIntro ==
  ASSUME NEW c \in Channel, NEW w \in Wavelet, NEW b \in 0 .. 3, w = 0 => b = 0
  PROVE  <<c, w, b>> \in Band
  BY VC5TasksAssumption DEF Band, Bands, Wavelet

LEMMA TaskShape ==
  ASSUME NEW t \in Task
  PROVE  /\ t = <<t[1], t[2]>>
         /\ t[2] \in Band
         /\ \/ Reconstructable(t[2]) /\ t[1] \in {"low", "high", "clear", "combine"}
            \/ ~Reconstructable(t[2]) /\ t[1] = "decode"
<1>1. PICK l \in Band : t \in TasksOf(l)
  BY DEF Task
<1>2. CASE Reconstructable(l)
  BY <1>1, <1>2 DEF TasksOf
<1>3. CASE ~Reconstructable(l)
  BY <1>1, <1>3 DEF TasksOf
<1> QED BY <1>2, <1>3

LEMMA TaskIntro ==
  ASSUME NEW l \in Band
  PROVE  /\ Reconstructable(l) => \A k \in {"low", "high", "clear", "combine"} : <<k, l>> \in Task
         /\ ~Reconstructable(l) => Decode(l) \in Task
         /\ Producer(l) \in Task
<1>1. Reconstructable(l) => \A k \in {"low", "high", "clear", "combine"} : <<k, l>> \in TasksOf(l)
  BY DEF TasksOf
<1>2. ~Reconstructable(l) => Decode(l) \in TasksOf(l)
  BY DEF TasksOf, Decode
<1>3. TasksOf(l) \subseteq Task
  BY DEF Task
<1> QED BY <1>1, <1>2, <1>3 DEF Producer

LEMMA SourceBand ==
  ASSUME NEW l \in Band, Reconstructable(l), NEW b \in 0 .. 3
  PROVE  /\ Source(l, b) \in Band
         /\ Source(l, b) = <<l[1], l[2] + 1, b>>
         /\ EarlierBand(Source(l, b), l)
<1>1. l[1] \in Channel /\ l[2] \in 0 .. Levels /\ l[2] < Levels
  BY BandShape DEF Reconstructable
<1>2. l[2] + 1 \in Wavelet /\ l[2] + 1 # 0
  BY <1>1, VC5TasksAssumption DEF Wavelet
<1>3. <<l[1], l[2] + 1, b>> \in Band
  BY <1>1, <1>2, BandIntro
<1> QED BY <1>1, <1>3, VC5TasksAssumption DEF Source, EarlierBand

(* The dependences that carry data: what a reconstruction reads is written by tasks
   it depends on, and both things that use the intermediates depend on both.     *)
LEMMA DataDependences ==
  ASSUME NEW l \in Band, Reconstructable(l)
  PROVE  /\ Producer(Source(l, 2)) \in Predecessors[<<"low", l>>]
         /\ Producer(Source(l, 0)) \in Predecessors[<<"low", l>>]
         /\ Producer(Source(l, 3)) \in Predecessors[<<"high", l>>]
         /\ Producer(Source(l, 1)) \in Predecessors[<<"high", l>>]
         /\ \A k \in {"clear", "combine"} :
              /\ <<"low", l>> \in Predecessors[<<k, l>>]
              /\ <<"high", l>> \in Predecessors[<<k, l>>]
<1>1. ASSUME NEW k \in {"low", "high"}, NEW b \in 0 .. 3, Data(Source(l, b)) \in In(<<k, l>>)
      PROVE  Producer(Source(l, b)) \in Predecessors[<<k, l>>]
  <2> DEFINE t == <<k, l>>
             p == Producer(Source(l, b))
  <2>1. t \in Task /\ t[2] = l
    BY TaskIntro
  <2>2. p \in Task /\ p[2] = Source(l, b) /\ p[1] \in {"combine", "decode"}
    BY SourceBand, TaskIntro DEF Producer, Decode
  <2>3. Out(p) = {Data(Source(l, b))}
    BY <2>2 DEF Out
  <2>4. Out(p) \cap In(t) # {}
    BY <1>1, <2>3
  <2>5. Earlier(p, t)
    BY <2>1, <2>2, SourceBand DEF Earlier
  <2> QED BY <2>1, <2>2, <2>4, <2>5 DEF Predecessors, DependsOn
<1>2. ASSUME NEW k \in {"clear", "combine"}, NEW j \in {"low", "high"}
      PROVE  <<j, l>> \in Predecessors[<<k, l>>]
  <2>1. <<j, l>> \in Task /\ <<k, l>> \in Task
    BY TaskIntro
  <2>2. Out(<<j, l>>) \cap In(<<k, l>>) # {}
    BY DEF Out, In
  <2>3. Earlier(<<j, l>>, <<k, l>>)
    BY DEF Earlier, Rank
  <2> QED BY <2>1, <2>2, <2>3 DEF Predecessors, DependsOn
<1>3. /\ Data(Source(l, 2)) \in In(<<"low", l>>) /\ Data(Source(l, 0)) \in In(<<"low", l>>)
      /\ Data(Source(l, 3)) \in In(<<"high", l>>) /\ Data(Source(l, 1)) \in In(<<"high", l>>)
  BY DEF In
<1> QED BY <1>1, <1>2, <1>3
-----------------------------------------------------------------------------
Started(t) == st[t] \in {"run", "log", "done", "failed"}

(* Creation goes through the bands in order, and every task of a band at once.    *)
CreationInv ==
  /\ \A t \in Task : st[t] = "none" <=> t[2] \notin made
  /\ \A l \in made, k \in Band : EarlierBand(k, l) => k \in made
  /\ creator = "left" => exceptionThrown \/ made = Band

(* A task that got past the flag has only successful predecessors; one that did not
   succeed has left the flag up.                                                 *)
OrderInv ==
  /\ \A t \in Task : Started(t) => \A p \in Predecessors[t] : st[p] = "done"
  /\ \A t \in Task : st[t] \in {"failed", "skipped"} => exceptionThrown
  /\ \A t \in Task : st[t] \in {"log", "failed"} => t[1] = "decode" /\ t[2] \in errors
  /\ \A t \in Task : t[1] = "decode" /\ st[t] = "done" => t[2] \notin bad

(* The log holds the bands that failed, and the flag is never up without it.      *)
ErrorInv ==
  /\ \A l \in errors : l \in bad /\ st[Decode(l)] \in {"log", "failed"}
  /\ exceptionThrown => errors # {}

(* What successful tasks produced is there until the wavelet it is in is cleared, and
   a wavelet is cleared by the task that belongs to the next larger one.         *)
DataInv ==
  \A l \in Band : <<l[1], l[2]>> \notin cleared =>
    /\ st[Producer(l)] = "done" => Data(l) \in engaged
    /\ Reconstructable(l) /\ st[<<"low", l>>] = "done" => LowPass(l) \in engaged
    /\ Reconstructable(l) /\ st[<<"high", l>>] = "done" => HighPass(l) \in engaged

ClearInv ==
  \A c \in Channel, w \in Wavelet :
    <<c, w>> \in cleared => w > 0 /\ st[<<"clear", <<c, w - 1, 0>>>>] = "done"

(* Behind the barrier nothing changes any more but the threads themselves.        *)
TeamInv ==
  /\ \A t \in Thread : pc[t] # "tasks" => BarrierOpen
  /\ \A t \in Thread : pc[t] = "skip" => exceptionThrown
  /\ \A t \in Thread : pc[t] \in {"combine", "combined", "left"} => ~exceptionThrown
  /\ outcome \in {"ok", "threw"} => \A t \in Thread : pc[t] \in {"skip", "left"}

IInv == /\ TypeOK
        /\ CreationInv
        /\ OrderInv
        /\ ErrorInv
        /\ DataInv
        /\ ClearInv
        /\ TeamInv

LEMMA InitIInv == Init => IInv
<1> SUFFICES ASSUME Init PROVE IInv
  OBVIOUS
<1> USE DEF Init
<1>1. TypeOK
  BY DEF TypeOK
<1>2. CreationInv /\ OrderInv /\ ErrorInv /\ ClearInv /\ TeamInv
  BY DEF CreationInv, OrderInv, ErrorInv, ClearInv, TeamInv, Started
<1>3. DataInv
  <2> SUFFICES ASSUME NEW l \in Band
               PROVE  /\ st[Producer(l)] # "done"
                      /\ Reconstructable(l) => st[<<"low", l>>] # "done" /\ st[<<"high", l>>] # "done"
    BY DEF DataInv
  <2> QED BY TaskIntro
<1> QED BY <1>1, <1>2, <1>3 DEF IInv

(* The task that clears wavelet w of a channel is the one of the band that is
   reconstructed from it.                                                        *)
LEMMA ClearerTask ==
  ASSUME NEW c \in Channel, NEW w \in Wavelet, w > 0
  PROVE  LET l == <<c, w - 1, 0>>
         IN  l \in Band /\ Reconstructable(l) /\ <<"clear", l>> \in Task
<1> DEFINE l == <<c, w - 1, 0>>
<1>1. w - 1 \in Wavelet /\ w - 1 < Levels
  BY VC5TasksAssumption DEF Wavelet
<1>2. l \in Band
  BY <1>1 DEF Band, Bands
<1>3. Reconstructable(l)
  BY <1>1 DEF Reconstructable
<1> QED BY <1>2, <1>3, TaskIntro

(* As long as the creator or a task is busy the whole team is before the barrier.  *)
LEMMA TeamBusy ==
  ASSUME IInv, \/ creator # "left"
               \/ \E t \in Task : st[t] \in {"created", "run", "log"}
  PROVE  outcome \in {"running", "undefined"} /\ \A t \in Thread : pc[t] = "tasks"
<1>1. ~BarrierOpen
  BY DEF BarrierOpen, Completed
<1>2. \A t \in Thread : pc[t] = "tasks"
  BY <1>1 DEF IInv, TeamInv
<1> QED BY <1>2, VC5TasksAssumption DEF IInv, TeamInv, TypeOK

LEMMA CreateStep ==
  ASSUME IInv, NEW l \in Band, CreateTasks(l) PROVE IInv'
<1>1. /\ TypeOK /\ CreationInv /\ OrderInv /\ ErrorInv /\ DataInv /\ ClearInv /\ TeamInv
      /\ creator = "create" /\ l \notin made /\ \A k \in Band : EarlierBand(k, l) => k \in made
      /\ made' = made \cup {l}
      /\ st' = [t \in Task |-> IF t \in TasksOf(l) THEN "created" ELSE st[t]]
      /\ creator' = "check"
      /\ UNCHANGED <<bad, engaged, cleared, exceptionThrown, errors, pc, outcome, firstErr>>
  BY DEF IInv, CreateTasks
<1>2. \A t \in Task : t \in TasksOf(l) <=> t[2] = l
  <2> SUFFICES ASSUME NEW t \in Task PROVE t \in TasksOf(l) <=> t[2] = l
    OBVIOUS
  <2>1. PICK k \in Band : t \in TasksOf(k)
    BY DEF Task
  <2>2. \A j \in Band : t \in TasksOf(j) => t[2] = j
    BY DEF TasksOf
  <2> QED BY <2>1, <2>2
<1>3. /\ \A t \in Task : t[2] = l => st[t] = "none" /\ st'[t] = "created"
      /\ \A t \in Task : t[2] # l => st'[t] = st[t]
  BY <1>1, <1>2 DEF CreationInv
<1>4. TypeOK'
  BY <1>1 DEF TypeOK
<1>5. CreationInv'
  BY <1>1, <1>3, TaskShape DEF CreationInv
<1>6. OrderInv'
  <2>1. \A t \in Task : Started(t)' => Started(t) /\ st'[t] = st[t]
    BY <1>3 DEF Started
  <2>2. \A p \in Task : st[p] = "done" => st'[p] = "done"
    BY <1>3
  <2>3. \A t \in Task : Predecessors[t] \subseteq Task
    BY DEF Predecessors
  <2> QED BY <1>1, <1>3, <2>1, <2>2, <2>3 DEF OrderInv
<1>7. ErrorInv'
  <2>1. \A k \in errors : Decode(k) \in Task
    BY <1>1, TaskIntro DEF TypeOK, HighPassBand, DecodableBand
  <2> QED BY <1>1, <1>3, <2>1 DEF ErrorInv
<1>8. DataInv'
  <2> SUFFICES ASSUME NEW k \in Band, <<k[1], k[2]>> \notin cleared
               PROVE  /\ st'[Producer(k)] = "done" => Data(k) \in engaged
                      /\ Reconstructable(k) /\ st'[<<"low", k>>] = "done" => LowPass(k) \in engaged
                      /\ Reconstructable(k) /\ st'[<<"high", k>>] = "done" => HighPass(k) \in engaged
    BY <1>1 DEF DataInv
  <2>1. /\ Producer(k) \in Task
        /\ Reconstructable(k) => <<"low", k>> \in Task /\ <<"high", k>> \in Task
    BY TaskIntro
  <2> QED BY <1>1, <1>3, <2>1 DEF DataInv
<1>9. ClearInv'
  <2> SUFFICES ASSUME NEW c \in Channel, NEW w \in Wavelet, <<c, w>> \in cleared
               PROVE  w > 0 /\ st'[<<"clear", <<c, w - 1, 0>>>>] = "done"
    BY <1>1 DEF ClearInv
  <2>1. w > 0 /\ st[<<"clear", <<c, w - 1, 0>>>>] = "done"
    BY <1>1 DEF ClearInv
  <2>2. <<"clear", <<c, w - 1, 0>>>> \in Task
    BY <2>1, ClearerTask
  <2> QED BY <1>3, <2>1, <2>2
<1>10. TeamInv'
  BY <1>1, TeamBusy DEF TeamInv
<1> QED BY <1>4, <1>5, <1>6, <1>7, <1>8, <1>9, <1>10 DEF IInv

LEMMA CheckStep == IInv /\ CheckCreator => IInv'
<1> SUFFICES ASSUME IInv, CheckCreator PROVE IInv'
  OBVIOUS
<1> USE DEF IInv, CheckCreator
<1>1. outcome \notin {"ok", "threw"} /\ \A t \in Thread : pc[t] = "tasks"
  BY TeamBusy
<1>2. TypeOK' /\ CreationInv'
  BY DEF TypeOK, CreationInv
<1>3. OrderInv' /\ ErrorInv' /\ DataInv' /\ ClearInv'
  BY DEF OrderInv, ErrorInv, DataInv, ClearInv, Started
<1>4. TeamInv'
  BY <1>1 DEF TeamInv
<1> QED BY <1>2, <1>3, <1>4

(* What the steps of a task have in common.                                       *)
Advance(u) ==
  /\ u \in Task
  /\ st[u] \in {"created", "run", "log"}
  /\ st'[u] \in {"run", "log", "done", "failed", "skipped"}
  /\ \A t \in Task : t # u => st'[t] = st[t]
  /\ st' \in [Task -> {"none", "created", "run", "log", "done", "failed", "skipped"}]
  /\ Started(u)' => \A p \in Predecessors[u] : st[p] = "done"
  /\ exceptionThrown => exceptionThrown'
  /\ UNCHANGED <<bad, made, creator, pc, outcome, firstErr>>

LEMMA AdvanceKeeps ==
  ASSUME IInv, NEW u, Advance(u)
  PROVE  /\ CreationInv'
         /\ TeamInv'
         /\ \A t \in Task : st[t] = "done" => st'[t] = "done"
         /\ \A t \in Task : Started(t)' => \A p \in Predecessors[t] : st'[p] = "done"
<1> USE DEF Advance
<1>1. outcome \notin {"ok", "threw"} /\ \A t \in Thread : pc[t] = "tasks"
  BY TeamBusy
<1>2. TeamInv'
  BY <1>1 DEF TeamInv
<1>3. \A t \in Task : st[t] = "done" => st'[t] = "done"
  OBVIOUS
<1>4. ASSUME NEW t \in Task, Started(t)', NEW p \in Predecessors[t] PROVE st'[p] = "done"
  <2>1. p \in Task
    BY DEF Predecessors
  <2>2. st[p] = "done"
    BY <1>4 DEF IInv, OrderInv, Started
  <2> QED BY <1>3, <2>1, <2>2
<1>5. \A t \in Task : st'[t] = "none" <=> t[2] \notin made
  BY DEF IInv, CreationInv
<1>6. CreationInv'
  BY <1>5 DEF IInv, CreationInv
<1> QED BY <1>2, <1>3, <1>4, <1>6

(* A step that only adds data, and all that its task names when it succeeds.       *)
LEMMA AdvanceKeepsData ==
  ASSUME IInv, NEW u, Advance(u), cleared' = cleared, engaged \subseteq engaged',
         st'[u] = "done" => Out(u) \subseteq engaged'
  PROVE  DataInv' /\ ClearInv'
<1>1. ASSUME NEW t \in Task, st'[t] = "done" PROVE st[t] = "done" \/ Out(t) \subseteq engaged'
  BY <1>1 DEF Advance
<1>2. DataInv'
  <2> SUFFICES ASSUME NEW k \in Band, <<k[1], k[2]>> \notin cleared
               PROVE  /\ st'[Producer(k)] = "done" => Data(k) \in engaged'
                      /\ Reconstructable(k) /\ st'[<<"low", k>>] = "done" => LowPass(k) \in engaged'
                      /\ Reconstructable(k) /\ st'[<<"high", k>>] = "done" => HighPass(k) \in engaged'
    BY DEF DataInv
  <2>1. Producer(k) \in Task /\ Data(k) \in Out(Producer(k))
    BY TaskIntro DEF Producer, Decode, Out
  <2>2. Reconstructable(k) => /\ <<"low", k>> \in Task /\ LowPass(k) \in Out(<<"low", k>>)
                              /\ <<"high", k>> \in Task /\ HighPass(k) \in Out(<<"high", k>>)
    BY TaskIntro DEF Out
  <2> QED BY <1>1, <2>1, <2>2 DEF IInv, DataInv
<1>3. ClearInv'
  <2> SUFFICES ASSUME NEW c \in Channel, NEW w \in Wavelet, <<c, w>> \in cleared
               PROVE  w > 0 /\ st'[<<"clear", <<c, w - 1, 0>>>>] = "done"
    BY DEF ClearInv
  <2>1. w > 0 /\ st[<<"clear", <<c, w - 1, 0>>>>] = "done"
    BY DEF IInv, ClearInv
  <2> QED BY <2>1, ClearerTask, AdvanceKeeps
<1> QED BY <1>2, <1>3

LEMMA StartStep ==
  ASSUME IInv, NEW t \in Task, StartTask(t) PROVE IInv'
<1> USE DEF StartTask
<1>1. \A p \in Predecessors[t] : p \in Task /\ Completed(p)
  BY DEF Ready, Predecessors
<1>2. ~exceptionThrown => \A p \in Predecessors[t] : st[p] = "done"
  BY <1>1 DEF IInv, OrderInv, Completed
<1>3. Advance(t)
  BY <1>2 DEF Advance, Ready, IInv, TypeOK, Started
<1>4. st[t] = "created" /\ st'[t] \in {"run", "skipped"} /\ (st'[t] = "skipped" => exceptionThrown)
  BY DEF Ready, IInv, TypeOK
<1>5. \A u \in Task : u # t => st'[u] = st[u]
  BY <1>3 DEF Advance
<1>6. TypeOK'
  BY <1>3 DEF IInv, TypeOK, Advance
<1>7. OrderInv'
  BY <1>3, <1>4, <1>5, AdvanceKeeps DEF IInv, OrderInv
<1>8. ErrorInv'
  <2>1. \A l \in errors : Decode(l) \in Task
    BY TaskIntro DEF IInv, TypeOK, HighPassBand, DecodableBand
  <2> QED BY <1>4, <1>5, <2>1 DEF IInv, ErrorInv
<1>9. DataInv' /\ ClearInv'
  BY <1>3, <1>4, AdvanceKeepsData
<1> QED BY <1>3, <1>6, <1>7, <1>8, <1>9, AdvanceKeeps DEF IInv

LEMMA DecodeStep ==
  ASSUME IInv, NEW l \in DecodableBand, DecodeBand(l) PROVE IInv'
<1> USE DEF DecodeBand
<1>1. Decode(l) \in Task /\ l \in Band /\ Decode(l)[1] = "decode" /\ Decode(l)[2] = l
  BY TaskIntro DEF DecodableBand, Decode
<1>2. Advance(Decode(l))
  BY <1>1 DEF Advance, IInv, TypeOK, OrderInv, Started
<1>3. st[Decode(l)] = "run" /\ st'[Decode(l)] = "done"
      /\ \A u \in Task : u # Decode(l) => st'[u] = st[u]
  BY <1>1, <1>2 DEF Advance, IInv, TypeOK
<1>4. TypeOK'
  <2>1. Data(l) \in Place
    BY <1>1 DEF Place, Data
  <2> QED BY <1>2, <2>1 DEF IInv, TypeOK, Advance
<1>5. OrderInv'
  BY <1>1, <1>2, <1>3, AdvanceKeeps DEF IInv, OrderInv
<1>6. ErrorInv'
  <2>1. \A k \in errors : Decode(k) \in Task
    BY TaskIntro DEF IInv, TypeOK, HighPassBand, DecodableBand
  <2> QED BY <1>3, <2>1 DEF IInv, ErrorInv
<1>7. Out(Decode(l)) \subseteq engaged'
  BY DEF Out, Decode
<1>8. DataInv' /\ ClearInv'
  BY <1>2, <1>7, AdvanceKeepsData
<1> QED BY <1>2, <1>4, <1>5, <1>6, <1>8, AdvanceKeeps DEF IInv

LEMMA LogStep ==
  ASSUME IInv, NEW l \in DecodableBand, LogFailure(l) PROVE IInv'
<1> USE DEF LogFailure
<1>1. Decode(l) \in Task /\ l \in Band /\ Decode(l)[1] = "decode" /\ Decode(l)[2] = l
  BY TaskIntro DEF DecodableBand, Decode
<1>2. Advance(Decode(l))
  BY <1>1 DEF Advance, IInv, TypeOK, OrderInv, Started
<1>3. st[Decode(l)] = "run" /\ st'[Decode(l)] = "log"
      /\ \A u \in Task : u # Decode(l) => st'[u] = st[u]
  BY <1>1, <1>2 DEF Advance, IInv, TypeOK
<1>4. TypeOK'
  BY <1>2 DEF IInv, TypeOK, Advance
<1>5. OrderInv'
  BY <1>1, <1>2, <1>3, AdvanceKeeps DEF IInv, OrderInv
<1>6. ErrorInv'
  <2>1. \A k \in errors : Decode(k) \in Task
    BY TaskIntro DEF IInv, TypeOK, HighPassBand, DecodableBand
  <2> QED BY <1>3, <2>1 DEF IInv, ErrorInv
<1>7. DataInv' /\ ClearInv'
  BY <1>2, <1>3, AdvanceKeepsData
<1> QED BY <1>2, <1>4, <1>5, <1>6, <1>7, AdvanceKeeps DEF IInv

LEMMA RaiseStep ==
  ASSUME IInv, NEW l \in DecodableBand, RaiseFlag(l) PROVE IInv'
<1> USE DEF RaiseFlag
<1>1. Decode(l) \in Task /\ l \in Band /\ Decode(l)[1] = "decode" /\ Decode(l)[2] = l
  BY TaskIntro DEF DecodableBand, Decode
<1>2. Advance(Decode(l))
  BY <1>1 DEF Advance, IInv, TypeOK, OrderInv, Started
<1>3. st[Decode(l)] = "log" /\ st'[Decode(l)] = "failed"
      /\ \A u \in Task : u # Decode(l) => st'[u] = st[u]
  BY <1>1, <1>2 DEF Advance, IInv, TypeOK
<1>4. l \in errors
  BY <1>1, <1>3 DEF IInv, OrderInv
<1>5. TypeOK'
  BY <1>2 DEF IInv, TypeOK, Advance
<1>6. OrderInv'
  BY <1>1, <1>2, <1>3, <1>4, AdvanceKeeps DEF IInv, OrderInv
<1>7. ErrorInv'
  <2>1. \A k \in errors : Decode(k) \in Task
    BY TaskIntro DEF IInv, TypeOK, HighPassBand, DecodableBand
  <2> QED BY <1>3, <1>4, <2>1 DEF IInv, ErrorInv
<1>8. DataInv' /\ ClearInv'
  BY <1>2, <1>3, AdvanceKeepsData
<1> QED BY <1>2, <1>5, <1>6, <1>7, <1>8, AdvanceKeeps DEF IInv

LEMMA ReconstructStep ==
  ASSUME IInv, NEW t \in Task, Reconstruct(t) PROVE IInv'
<1> USE DEF Reconstruct
<1>1. Advance(t)
  BY DEF Advance, IInv, TypeOK, OrderInv, Started
<1>2. st[t] = "run" /\ st'[t] = "done" /\ \A u \in Task : u # t => st'[u] = st[u]
  BY <1>1 DEF Advance, IInv, TypeOK
<1>3. TypeOK'
  <2>1. Out(t) \subseteq Place
    BY TaskShape DEF Out, Place, Data, LowPass, HighPass
  <2> QED BY <1>1, <2>1 DEF IInv, TypeOK, Advance
<1>4. OrderInv'
  BY <1>1, <1>2, AdvanceKeeps DEF IInv, OrderInv
<1>5. ErrorInv'
  <2>1. \A k \in errors : Decode(k) \in Task
    BY TaskIntro DEF IInv, TypeOK, HighPassBand, DecodableBand
  <2> QED BY <1>2, <2>1 DEF IInv, ErrorInv
<1>6. DataInv' /\ ClearInv'
  BY <1>1, AdvanceKeepsData
<1> QED BY <1>1, <1>3, <1>4, <1>5, <1>6, AdvanceKeeps DEF IInv

LEMMA ClearStep ==
  ASSUME IInv, NEW t \in Task, ClearBands(t) PROVE IInv'
<1> USE DEF ClearBands
<1> DEFINE c == t[2][1]
           w == t[2][2] + 1
<1>1. Advance(t)
  BY DEF Advance, IInv, TypeOK, OrderInv, Started
<1>2. st[t] = "run" /\ st'[t] = "done" /\ \A u \in Task : u # t => st'[u] = st[u]
  BY <1>1 DEF Advance, IInv, TypeOK
<1>3. t = <<"clear", t[2]>> /\ t[2] \in Band /\ Reconstructable(t[2])
  BY TaskShape
<1>4. c \in Channel /\ w \in Wavelet /\ w > 0 /\ w - 1 = t[2][2] /\ t[2] = <<c, w - 1, 0>>
  BY <1>3, BandShape, VC5TasksAssumption DEF Reconstructable, Wavelet
<1>5. TypeOK'
  BY <1>1, <1>4 DEF IInv, TypeOK, Advance
<1>6. OrderInv'
  BY <1>1, <1>2, AdvanceKeeps DEF IInv, OrderInv
<1>7. ErrorInv'
  <2>1. \A k \in errors : Decode(k) \in Task
    BY TaskIntro DEF IInv, TypeOK, HighPassBand, DecodableBand
  <2> QED BY <1>2, <2>1 DEF IInv, ErrorInv
<1>8. DataInv'
  <2> SUFFICES ASSUME NEW k \in Band, <<k[1], k[2]>> \notin cleared'
               PROVE  /\ st'[Producer(k)] = "done" => Data(k) \in engaged'
                      /\ Reconstructable(k) /\ st'[<<"low", k>>] = "done" => LowPass(k) \in engaged'
                      /\ Reconstructable(k) /\ st'[<<"high", k>>] = "done" => HighPass(k) \in engaged'
    BY DEF DataInv
  <2>1. <<k[1], k[2]>> \notin cleared /\ ~(k[1] = c /\ k[2] = w)
    OBVIOUS
  <2>2. \A p \in {Data(k), LowPass(k), HighPass(k)} : p \in engaged => p \in engaged'
    BY <2>1 DEF InWavelet, Data, LowPass, HighPass
  <2>3. Producer(k)[1] # "clear"
    BY DEF Producer, Decode
  <2>4. <<"low", k>>[1] # "clear" /\ <<"high", k>>[1] # "clear"
    OBVIOUS
  <2>5. Producer(k) # t /\ <<"low", k>> # t /\ <<"high", k>> # t
    BY <2>3, <2>4
  <2>6. st'[Producer(k)] = st[Producer(k)]
    BY <1>2, <2>5, TaskIntro
  <2>7. Reconstructable(k) => /\ st'[<<"low", k>>] = st[<<"low", k>>]
                              /\ st'[<<"high", k>>] = st[<<"high", k>>]
    BY <1>2, <2>5, TaskIntro
  <2> QED BY <2>1, <2>2, <2>6, <2>7 DEF IInv, DataInv
<1>9. ClearInv'
  <2> SUFFICES ASSUME NEW d \in Channel, NEW v \in Wavelet, <<d, v>> \in cleared'
               PROVE  v > 0 /\ st'[<<"clear", <<d, v - 1, 0>>>>] = "done"
    BY DEF ClearInv
  <2>1. CASE <<d, v>> \in cleared
    <3>1. v > 0 /\ st[<<"clear", <<d, v - 1, 0>>>>] = "done"
      BY <2>1 DEF IInv, ClearInv
    <3> QED BY <1>1, <3>1, ClearerTask, AdvanceKeeps
  <2>2. CASE <<d, v>> = <<c, w>>
    BY <1>2, <1>3, <1>4, <2>2
  <2> QED BY <2>1, <2>2
<1> QED BY <1>1, <1>5, <1>6, <1>7, <1>8, <1>9, AdvanceKeeps DEF IInv

LEMMA AstrayStep ==
  ASSUME IInv, NEW t \in Task, ClearAstray(t) PROVE IInv'
<1>1. /\ UNCHANGED <<bad, made, creator, st, engaged, cleared, exceptionThrown, errors, pc,
                     firstErr>>
      /\ outcome' = "undefined"
  BY DEF ClearAstray
<1>2. TypeOK'
  BY <1>1 DEF IInv, TypeOK
<1>3. CreationInv' /\ OrderInv' /\ ErrorInv' /\ DataInv' /\ ClearInv'
  BY <1>1 DEF IInv, CreationInv, OrderInv, ErrorInv, DataInv, ClearInv, Started
<1>4. TeamInv'
  BY <1>1 DEF IInv, TeamInv, BarrierOpen, Completed
<1> QED BY <1>2, <1>3, <1>4 DEF IInv

LEMMA TeamStep ==
  ASSUME IInv, NEW t \in Thread, PassBarrier(t) \/ CombineRows(t) \/ LeaveLoop(t)
  PROVE  IInv'
<1>1. /\ UNCHANGED <<bad, made, creator, st, engaged, cleared, exceptionThrown, errors,
                     outcome, firstErr>>
      /\ pc[t] \in {"tasks", "combine", "combined"}
      /\ pc' \in [Thread -> {"tasks", "combine", "combined", "left", "skip"}]
      /\ \A r \in Thread : r # t => pc'[r] = pc[r]
  BY DEF IInv, TypeOK, PassBarrier, CombineRows, LeaveLoop
<1>2. BarrierOpen
  BY DEF IInv, TeamInv, PassBarrier, CombineRows, LeaveLoop
<1>3. /\ pc'[t] = "skip" => exceptionThrown
      /\ pc'[t] \in {"combine", "combined", "left"} => ~exceptionThrown
  BY DEF IInv, TypeOK, TeamInv, PassBarrier, CombineRows, LeaveLoop
<1>4. TypeOK'
  BY <1>1 DEF IInv, TypeOK
<1>5. CreationInv' /\ OrderInv' /\ ErrorInv' /\ DataInv' /\ ClearInv'
  BY <1>1 DEF IInv, CreationInv, OrderInv, ErrorInv, DataInv, ClearInv, Started
<1>6. TeamInv'
  <2>1. BarrierOpen'
    BY <1>1, <1>2 DEF BarrierOpen, Completed
  <2>2. outcome \notin {"ok", "threw"}
    BY <1>1 DEF IInv, TeamInv
  <2> QED BY <1>1, <1>3, <2>1, <2>2 DEF IInv, TeamInv
<1> QED BY <1>4, <1>5, <1>6 DEF IInv

LEMMA FinishStep == IInv /\ Finish => IInv'
<1> SUFFICES ASSUME IInv, Finish PROVE IInv'
  OBVIOUS
<1>1. /\ UNCHANGED <<bad, made, creator, st, engaged, cleared, exceptionThrown, errors, pc>>
      /\ outcome' \in {"ok", "threw"} /\ firstErr' \subseteq HighPassBand
      /\ \A t \in Thread : pc[t] \in {"skip", "left"}
  BY DEF Finish, Joined, IInv, TypeOK
<1>2. TypeOK'
  BY <1>1 DEF IInv, TypeOK
<1>3. CreationInv' /\ OrderInv' /\ ErrorInv' /\ DataInv' /\ ClearInv'
  BY <1>1 DEF IInv, CreationInv, OrderInv, ErrorInv, DataInv, ClearInv, Started
<1>4. TeamInv'
  BY <1>1 DEF IInv, TeamInv, BarrierOpen, Completed
<1> QED BY <1>2, <1>3, <1>4 DEF IInv

LEMMA StutterStep == IInv /\ UNCHANGED vars => IInv'
<1> SUFFICES ASSUME IInv, UNCHANGED vars PROVE IInv'
  OBVIOUS
<1> USE DEF vars, IInv
<1>1. TypeOK' /\ CreationInv' /\ OrderInv'
  BY DEF TypeOK, CreationInv, OrderInv, Started
<1>2. ErrorInv' /\ DataInv' /\ ClearInv'
  BY DEF ErrorInv, DataInv, ClearInv
<1>3. TeamInv'
  BY DEF TeamInv, BarrierOpen, Completed
<1> QED BY <1>1, <1>2, <1>3

LEMMA Inductive == IInv /\ [Next]_vars => IInv'
<1> SUFFICES ASSUME IInv, [Next]_vars PROVE IInv'
  OBVIOUS
<1>1. ASSUME NEW l \in Band, CreateTasks(l) PROVE IInv'
  BY <1>1, CreateStep
<1>2. ASSUME NEW t \in Task, \/ StartTask(t) \/ Reconstruct(t)
                             \/ ClearBands(t) \/ ClearAstray(t)
      PROVE  IInv'
  BY <1>2, StartStep, ReconstructStep, ClearStep, AstrayStep
<1>3. ASSUME NEW l \in DecodableBand, DecodeBand(l) \/ LogFailure(l) \/ RaiseFlag(l) PROVE IInv'
  BY <1>3, DecodeStep, LogStep, RaiseStep
<1>4. ASSUME NEW t \in Thread, PassBarrier(t) \/ CombineRows(t) \/ LeaveLoop(t) PROVE IInv'
  BY <1>4, TeamStep
<1>5. CASE CheckCreator
  BY <1>5, CheckStep
<1>6. CASE Finish
  BY <1>6, FinishStep
<1>7. CASE UNCHANGED vars
  BY <1>7, StutterStep
<1> QED BY <1>1, <1>2, <1>3, <1>4, <1>5, <1>6, <1>7 DEF Next, Finished

THEOREM InvariantHolds == Spec => []IInv
BY InitIInv, Inductive, PTL DEF Spec
-----------------------------------------------------------------------------
(* TypeOK: every state of the task graph and of the team has its type.            *)
THEOREM TypeCorrect == Spec => []TypeOK
<1>1. IInv => TypeOK
  BY DEF IInv
<1> QED BY <1>1, InvariantHolds, PTL

(* LogMatchesFlag: the assertions of VC5Decompressor::decode() hold - it throws, with
   something in the log, exactly when a task has raised the flag.                *)
THEOREM FlagIsTheLog == Spec => []LogMatchesFlag
<1>1. IInv => LogMatchesFlag
  <2> SUFFICES ASSUME IInv, outcome \in {"ok", "threw"}
               PROVE  errors # {} <=> exceptionThrown
    BY DEF LogMatchesFlag
  <2>1. PICK t \in Thread : pc[t] \in {"skip", "left"}
    BY VC5TasksAssumption DEF IInv, TeamInv
  <2>2. BarrierOpen
    BY <2>1 DEF IInv, TeamInv
  <2>3. ASSUME NEW l \in errors PROVE exceptionThrown
    <3>1. Decode(l) \in Task
      BY TaskIntro DEF IInv, TypeOK, HighPassBand, DecodableBand
    <3>2. st[Decode(l)] = "failed"
      BY <2>2, <3>1 DEF IInv, ErrorInv, BarrierOpen, Completed
    <3> QED BY <3>1, <3>2 DEF IInv, OrderInv
  <2>4. exceptionThrown => errors # {}
    BY DEF IInv, ErrorInv
  <2> QED BY <2>3, <2>4
<1> QED BY <1>1, InvariantHolds, PTL

(* TeamAgrees: behind the barrier the threads read the flag one by one, and all read
   the same, so the loop that writes the image has the whole team or nobody.     *)
THEOREM TeamIsWhole == Spec => []TeamAgrees
<1>1. IInv => TeamAgrees
  BY DEF IInv, TypeOK, TeamInv, TeamAgrees
<1> QED BY <1>1, InvariantHolds, PTL
-----------------------------------------------------------------------------
LEMMA Clearer ==
  ASSUME IInv
  PROVE  \A c \in Channel, w \in Wavelet :
           <<c, w>> \in cleared => w > 0 /\ st[<<"clear", <<c, w - 1, 0>>>>] = "done"
BY Zenon DEF IInv, ClearInv

(* The wavelet a band is in is destroyed only after everything that writes into the
   band, and everything made from it, is done.                                   *)
LEMMA ClearedIsUsed ==
  ASSUME IInv, NEW l \in Band
  PROVE  /\ <<l[1], l[2]>> \in cleared => st[Producer(l)] = "done"
         /\ <<l[1], l[2]>> \in cleared /\ Reconstructable(l)
              => st[<<"low", l>>] = "done" /\ st[<<"high", l>>] = "done"
         /\ <<l[1], l[2] + 1>> \in cleared /\ Reconstructable(l)
              => st[<<"low", l>>] = "done" /\ st[<<"high", l>>] = "done"
<1>1. ASSUME NEW t \in Task, st[t] = "done", NEW p \in Predecessors[t] PROVE st[p] = "done"
  BY <1>1 DEF IInv, OrderInv, Started
<1>2. ASSUME NEW m \in Band, Reconstructable(m), <<m[1], m[2] + 1>> \in cleared
      PROVE  /\ st[<<"low", m>>] = "done" /\ st[<<"high", m>>] = "done"
             /\ \A b \in 0 .. 3 : st[Producer(Source(m, b))] = "done"
  <2>1. m[1] \in Channel /\ m[2] + 1 \in Wavelet
    BY <1>2, BandShape, VC5TasksAssumption DEF Reconstructable, Wavelet
  <2>2. st[<<"clear", m>>] = "done"
    <3>1. ASSUME NEW c \in Channel, NEW w \in Wavelet, <<c, w>> \in cleared, m = <<c, w - 1, 0>>
          PROVE  st[<<"clear", m>>] = "done"
      BY <3>1, Clearer
    <3>2. PICK c \in Channel, w \in Wavelet : /\ c = m[1] /\ w = m[2] + 1 /\ w - 1 = m[2]
      BY <2>1, BandShape
    <3>3. m = <<c, w - 1, 0>>
      BY <1>2, <3>2, BandShape DEF Reconstructable
    <3>4. <<c, w>> \in cleared
      BY <1>2, <3>2
    <3> QED BY <3>1, <3>3, <3>4
  <2>3. <<"clear", m>> \in Task /\ <<"low", m>> \in Task /\ <<"high", m>> \in Task
    BY <1>2, TaskIntro
  <2>4. st[<<"low", m>>] = "done" /\ st[<<"high", m>>] = "done"
    BY <1>1, <1>2, <2>2, <2>3, DataDependences
  <2>5. \A b \in {0, 1, 2, 3} : st[Producer(Source(m, b))] = "done"
    BY <1>1, <1>2, <2>3, <2>4, DataDependences
  <2> QED BY <2>4, <2>5
<1>3. ASSUME <<l[1], l[2]>> \in cleared PROVE st[Producer(l)] = "done"
  <2> DEFINE m == <<l[1], l[2] - 1, 0>>
  <2>1. l[1] \in Channel /\ l[2] \in Wavelet /\ l[3] \in 0 .. 3 /\ l = <<l[1], l[2], l[3]>>
    BY BandShape DEF Wavelet
  <2>2. l[2] > 0
    BY <1>3, <2>1, Clearer
  <2>3. m \in Band /\ Reconstructable(m)
    BY <2>1, <2>2, ClearerTask
  <2>4. m[1] = l[1] /\ m[2] + 1 = l[2]
    BY <2>1 DEF Wavelet
  <2>5. Source(m, l[3]) = l
    BY <2>1, <2>4 DEF Source
  <2> QED BY <1>2, <1>3, <2>1, <2>3, <2>4, <2>5
<1>4. ASSUME <<l[1], l[2]>> \in cleared, Reconstructable(l)
      PROVE  st[<<"low", l>>] = "done" /\ st[<<"high", l>>] = "done"
  <2>1. st[<<"combine", l>>] = "done"
    BY <1>3, <1>4 DEF Producer
  <2> QED BY <1>1, <1>4, <2>1, TaskIntro, DataDependences
<1> QED BY <1>2, <1>3, <1>4

(* PrecursorsReady: a reconstruction task that saw the flag down finds its inputs - the
   conditions "Failed to produce precursor bands?" and "Failed to combine precursor
   bands?" guard against never happen.                                           *)
THEOREM PrecursorsAreReady == Spec => []PrecursorsReady
<1>1. IInv => PrecursorsReady
  <2> SUFFICES ASSUME IInv, NEW l \in Band, Reconstructable(l)
               PROVE  /\ st[<<"low", l>>] = "run"
                           => {Data(Source(l, 2)), Data(Source(l, 0))} \subseteq engaged
                      /\ st[<<"high", l>>] = "run"
                           => {Data(Source(l, 3)), Data(Source(l, 1))} \subseteq engaged
                      /\ st[<<"combine", l>>] = "run" => {LowPass(l), HighPass(l)} \subseteq engaged
    BY DEF PrecursorsReady
  <2>1. \A t \in Task : st[t] = "run" => \A p \in Predecessors[t] : st[p] = "done"
    BY DEF IInv, OrderInv, Started
  <2>2. <<"low", l>> \in Task /\ <<"high", l>> \in Task /\ <<"combine", l>> \in Task
    BY TaskIntro
  <2>3. ASSUME st[<<"low", l>>] = "run" \/ st[<<"high", l>>] = "run", NEW b \in 0 .. 3,
               st[Producer(Source(l, b))] = "done"
        PROVE  Data(Source(l, b)) \in engaged
    <3>1. <<l[1], l[2] + 1>> \notin cleared
      BY <2>3, ClearedIsUsed
    <3>2. Source(l, b) \in Band /\ Source(l, b)[1] = l[1] /\ Source(l, b)[2] = l[2] + 1
      BY SourceBand
    <3> QED BY <2>3, <3>1, <3>2 DEF IInv, DataInv
  <2>6. ASSUME st[<<"combine", l>>] = "run" PROVE {LowPass(l), HighPass(l)} \subseteq engaged
    <3>1. st[<<"low", l>>] = "done" /\ st[<<"high", l>>] = "done"
      BY <2>1, <2>2, <2>6, DataDependences
    <3>2. <<l[1], l[2]>> \notin cleared
      BY <2>6, ClearedIsUsed DEF Producer
    <3> QED BY <3>1, <3>2 DEF IInv, DataInv
  <2>7. ASSUME st[<<"low", l>>] = "run"
        PROVE  {Data(Source(l, 2)), Data(Source(l, 0))} \subseteq engaged
    <3>1. st[Producer(Source(l, 2))] = "done" /\ st[Producer(Source(l, 0))] = "done"
      BY <2>1, <2>2, <2>7, DataDependences
    <3>2. 2 \in 0 .. 3 /\ 0 \in 0 .. 3
      OBVIOUS
    <3> QED BY <2>3, <2>7, <3>1, <3>2
  <2>8. ASSUME st[<<"high", l>>] = "run"
        PROVE  {Data(Source(l, 3)), Data(Source(l, 1))} \subseteq engaged
    <3>1. st[Producer(Source(l, 3))] = "done" /\ st[Producer(Source(l, 1))] = "done"
      BY <2>1, <2>2, <2>8, DataDependences
    <3>2. 3 \in 0 .. 3 /\ 1 \in 0 .. 3
      OBVIOUS
    <3> QED BY <2>3, <2>8, <3>1, <3>2
  <2> QED BY <2>6, <2>7, <2>8
<1> QED BY <1>1, InvariantHolds, PTL

(* LiveBands: the creator visits no band object, and no decoding or reconstructing task
   works on one, after the clearing task of its wavelet has destroyed it.  A clearing
   task whose own band is destroyed belongs to a band that is reconstructed already, and
   never to a full-size one.                                                     *)
THEOREM BandsAreAlive == Spec => []LiveBands
<1>1. IInv => LiveBands
  <2> SUFFICES ASSUME IInv PROVE LiveBands
    OBVIOUS
  <2>1. ASSUME NEW l \in Band, l \notin made
        PROVE  Alive(l, 0) /\ (Reconstructable(l) => Alive(l, 1))
    <3>1. Producer(l) \in Task /\ Producer(l)[2] = l
      BY TaskIntro DEF Producer, Decode
    <3>2. st[Producer(l)] # "done"
      BY <2>1, <3>1 DEF IInv, CreationInv
    <3>3. Reconstructable(l) => <<"low", l>> \in Task /\ <<"low", l>>[2] = l
      BY TaskIntro
    <3>4. Reconstructable(l) => st[<<"low", l>>] # "done"
      BY <2>1, <3>3 DEF IInv, CreationInv
    <3>5. l[2] + 0 = l[2]
      BY BandShape
    <3> QED BY <3>2, <3>4, <3>5, ClearedIsUsed DEF Alive
  <2>2. ASSUME NEW t \in Running
        PROVE  /\ t[1] # "clear" \/ t[2][2] = 0 => Alive(t[2], 0)
               /\ t[1] = "clear" /\ ~Alive(t[2], 0) =>
                    \A k \in {"low", "high", "combine"} : st[<<k, t[2]>>] = "done"
               /\ t[1] \in {"low", "high"} => Alive(t[2], 1)
    <3>1. t \in Task /\ st[t] \in {"run", "log"}
      BY DEF Running
    <3>2. /\ t = <<t[1], t[2]>> /\ t[2] \in Band /\ t[2][2] + 0 = t[2][2]
          /\ \/ Reconstructable(t[2]) /\ t[1] \in {"low", "high", "clear", "combine"}
             \/ ~Reconstructable(t[2]) /\ t[1] = "decode"
      BY <3>1, TaskShape, BandShape
    <3>3. st[<<t[1], t[2]>>] # "done"
      BY <3>1, <3>2
    <3>4. <<t[2][1], t[2][2]>> \in cleared => t[1] = "clear"
      BY <3>2, <3>3, ClearedIsUsed DEF Producer, Decode
    <3>5. <<t[2][1], t[2][2] + 1>> \in cleared => t[1] \notin {"low", "high"}
      BY <3>2, <3>3, ClearedIsUsed
    <3>6. <<t[2][1], t[2][2]>> \in cleared => t[2][2] # 0
      <4>1. t[2][1] \in Channel /\ t[2][2] \in Wavelet
        BY <3>2, BandShape DEF Wavelet
      <4>2. <<t[2][1], t[2][2]>> \in cleared => t[2][2] > 0
        BY <4>1, Clearer, Zenon
      <4>3. ~(0 > 0)
        OBVIOUS
      <4> QED BY <4>2, <4>3
    <3>7. <<t[2][1], t[2][2]>> \in cleared /\ t[1] = "clear" =>
            \A k \in {"low", "high", "combine"} : st[<<k, t[2]>>] = "done"
      BY <3>2, ClearedIsUsed DEF Producer
    <3> QED BY <3>2, <3>4, <3>5, <3>6, <3>7 DEF Alive
  <2> QED BY <2>1, <2>2 DEF LiveBands
<1> QED BY <1>1, InvariantHolds, PTL

(* FinalBandsReady: a thread in combineFinalLowpassBands() has the final low-pass band
   of every channel, so "Failed to reconstruct all final lowpass bands?" never happens. *)
THEOREM FinalBandsAreReady == Spec => []FinalBandsReady
<1>1. IInv => FinalBandsReady
  <2> SUFFICES ASSUME IInv, NEW t \in Thread, pc[t] = "combine", NEW c \in Channel
               PROVE  Data(<<c, 0, 0>>) \in engaged
    BY DEF FinalBandsReady
  <2> DEFINE l == <<c, 0, 0>>
  <2>1. BarrierOpen /\ ~exceptionThrown
    BY DEF IInv, TeamInv
  <2>2. made = Band
    BY <2>1 DEF IInv, CreationInv, BarrierOpen
  <2>3. l \in Band /\ 0 \in Wavelet
    BY VC5TasksAssumption DEF Band, Bands, Wavelet
  <2>4. Producer(l) \in Task /\ Producer(l)[2] = l
    BY <2>3, TaskIntro DEF Producer, Decode
  <2>5. st[Producer(l)] = "done"
    BY <2>1, <2>2, <2>3, <2>4 DEF BarrierOpen, Completed, IInv, CreationInv, OrderInv
  <2>6. <<c, 0>> \notin cleared
    <3>1. ~(0 > 0)
      OBVIOUS
    <3> QED BY <2>3, <3>1, Clearer, Zenon
  <2> QED BY <2>3, <2>5, <2>6 DEF IInv, DataInv
<1> QED BY <1>1, InvariantHolds, PTL
-----------------------------------------------------------------------------
Decoded == {l \in DecodableBand : st[Decode(l)] = "done"}

LEMMA DecodeTask ==
  ASSUME NEW l \in DecodableBand
  PROVE  l \in Band /\ Decode(l) \in Task /\ Decode(l)[1] = "decode" /\ Decode(l)[2] = l
BY TaskIntro DEF DecodableBand, Decode

(* Behind the barrier, with the flag down, every task has succeeded.              *)
LEMMA AllDone ==
  ASSUME IInv, BarrierOpen, ~exceptionThrown, NEW t \in Task
  PROVE  st[t] = "done"
<1>1. made = Band
  BY DEF IInv, CreationInv, BarrierOpen
<1>2. st[t] # "none"
  BY <1>1, TaskShape DEF IInv, CreationInv
<1> QED BY <1>2 DEF BarrierOpen, Completed, IInv, OrderInv

(* Every step of the task graph is a step of the contract or invisible to it.     *)
LEMMA StepRefines ==
  ASSUME IInv, [Next]_vars PROVE [Contract!Next]_(Contract!vars)
<1> USE DEF Decoded
<1>1. ASSUME NEW l \in DecodableBand, DecodeBand(l) PROVE Contract!DecodeSlice(l)
  <2>1. outcome \in {"running", "undefined"}
    BY <1>1, DecodeTask, TeamBusy DEF DecodeBand
  <2>2. st \in [Task -> {"none", "created", "run", "log", "done", "failed", "skipped"}]
    BY DEF IInv, TypeOK
  <2>3. Decoded' = Decoded \cup {l}
    BY <1>1, <2>2, DecodeTask DEF DecodeBand
  <2> QED BY <1>1, <2>1, <2>3 DEF DecodeBand, Contract!DecodeSlice
<1>2. ASSUME NEW t \in Task, st[t] \in {"none", "created", "run", "log"},
             st' = [st EXCEPT ![t] = st'[t]], st'[t] # "done" \/ t[1] # "decode",
             UNCHANGED <<bad, outcome, firstErr>>
      PROVE  UNCHANGED Contract!vars
  <2>1. \A l \in DecodableBand : st'[Decode(l)] = "done" <=> st[Decode(l)] = "done"
    BY <1>2, DecodeTask DEF IInv, TypeOK
  <2>2. Decoded' = Decoded
    BY <2>1
  <2> QED BY <1>2, <2>2 DEF Contract!vars
<1>3. ASSUME NEW l \in Band, CreateTasks(l) PROVE UNCHANGED Contract!vars
  <2>1. \A t \in Task : st'[t] = "done" <=> st[t] = "done"
    <3> SUFFICES ASSUME NEW t \in Task PROVE st'[t] = "done" <=> st[t] = "done"
      OBVIOUS
    <3>1. st'[t] = IF t \in TasksOf(l) THEN "created" ELSE st[t]
      BY <1>3 DEF CreateTasks
    <3>2. t \in TasksOf(l) => t[2] = l
      BY DEF TasksOf
    <3>3. t \in TasksOf(l) => st[t] = "none"
      BY <1>3, <3>2 DEF CreateTasks, IInv, CreationInv
    <3> QED BY <3>1, <3>3
  <2>2. Decoded' = Decoded
    BY <2>1, DecodeTask
  <2> QED BY <1>3, <2>2 DEF CreateTasks, Contract!vars
<1>4. ASSUME NEW t \in Task, StartTask(t) \/ Reconstruct(t) \/ ClearBands(t)
      PROVE  UNCHANGED Contract!vars
  <2>1. st \in [Task -> {"none", "created", "run", "log", "done", "failed", "skipped"}]
    BY DEF IInv, TypeOK
  <2> QED BY <1>2, <1>4, <2>1 DEF StartTask, Ready, Reconstruct, ClearBands
<1>5. ASSUME NEW l \in DecodableBand, LogFailure(l) \/ RaiseFlag(l)
      PROVE  UNCHANGED Contract!vars
  <2>1. st \in [Task -> {"none", "created", "run", "log", "done", "failed", "skipped"}]
    BY DEF IInv, TypeOK
  <2> QED BY <1>2, <1>5, <2>1, DecodeTask DEF LogFailure, RaiseFlag
<1>9. ASSUME NEW t \in Task, ClearAstray(t) PROVE UNCHANGED Contract!vars
  <2>1. outcome \in {"running", "undefined"}
    BY <1>9, TeamBusy DEF ClearAstray
  <2> QED BY <1>9, <2>1 DEF ClearAstray, Contract!vars
<1>6. ASSUME \/ CheckCreator
             \/ \E t \in Thread : PassBarrier(t) \/ CombineRows(t) \/ LeaveLoop(t)
             \/ UNCHANGED vars
      PROVE  UNCHANGED Contract!vars
  BY <1>6 DEF CheckCreator, PassBarrier, CombineRows, LeaveLoop, vars, Contract!vars
<1>7. ASSUME Finish PROVE Contract!Return \/ Contract!Throw
  <2>1. CASE errors # {}
    <3>1. errors \subseteq bad
      BY DEF IInv, ErrorInv
    <3> QED BY <1>7, <2>1, <3>1 DEF Finish, Joined, Contract!Throw, Contract!Causes
  <2>2. CASE errors = {}
    <3>1. BarrierOpen
      BY <1>7, VC5TasksAssumption DEF Finish, Joined, IInv, TeamInv
    <3>2. ~exceptionThrown
      BY <2>2 DEF IInv, ErrorInv
    <3>3. \A l \in DecodableBand : st[Decode(l)] = "done"
      BY <3>1, <3>2, AllDone, DecodeTask
    <3>4. bad = {}
      BY <3>3, DecodeTask DEF IInv, OrderInv, TypeOK, HighPassBand
    <3> QED BY <1>7, <2>2, <3>3, <3>4 DEF Finish, Joined, Contract!Return, Contract!Causes
  <2> QED BY <2>1, <2>2
<1>8. ASSUME NEW l \in DecodableBand, DecodeBand(l) PROVE Contract!Next
  BY <1>1, <1>8 DEF Contract!Next
<1> QED BY <1>3, <1>4, <1>5, <1>6, <1>7, <1>8, <1>9 DEF Next, Finished, Contract!Next

(* VC5Decompressor::decode() implements the contract of decompress(): it returns only
   when every band of the stream has been decoded, and throws only about a band that
   could not be.                                                                  *)
THEOREM Refinement == Spec => Implements
<1>1. Init => Contract!Init
  <2> SUFFICES ASSUME Init PROVE Contract!Init
    OBVIOUS
  <2>1. \A l \in DecodableBand : st[Decode(l)] # "done"
    BY DecodeTask DEF Init
  <2> QED BY <2>1 DEF Init, Contract!Init, HighPassBand
<1>2. IInv /\ [Next]_vars => [Contract!Next]_(Contract!vars)
  BY StepRefines
<1> QED BY InvariantHolds, <1>1, <1>2, PTL DEF Spec, Implements, Contract!Spec
=============================================================================
