--------------------------- MODULE VC5Parse_proofs ---------------------------
(* What the VC-5 parser guarantees the decoder, for every number of channels and of
   wavelet levels and every stream.                                             *)
EXTENDS VC5Parse, TLAPS

(* The subband tables stay inside the pyramid, and only subband 0 is a low-pass
   band, that of the smallest wavelet.                                          *)
LEMMA SubbandTables ==
  ASSUME NEW s \in Subband
  PROVE  /\ WaveletIndex(s) \in 0 .. Levels - 1
         /\ BandIndex(s) \in Band
         /\ BandIndex(s) = 0 <=> s = 0
         /\ s = 0 => WaveletIndex(s) = Levels - 1
<1> USE VC5ParseAssumption DEF Subband, NumSubbands, Band
<1>1. CASE s = 0
  BY <1>1 DEF WaveletIndex, BandIndex
<1>2. CASE s # 0
  <2>1. (s - 1) % Levels \in 0 .. Levels - 1
    BY <1>2
  <2> DEFINE x == NumSubbands - 1 - s
             q == x \div Levels
  <2>2. x \in Nat /\ x < Levels * Levels
    BY <1>2
  <2>3. q \in Nat /\ Levels * q <= x
    BY <2>2
  <2>4. q < Levels
    <3> SUFFICES ASSUME q >= Levels PROVE FALSE
      BY <2>3
    <3>1. Levels * q >= Levels * Levels
      BY <2>3
    <3> QED BY <2>2, <2>3, <3>1
  <2> QED BY <1>2, <2>1, <2>3, <2>4 DEF WaveletIndex, BandIndex
<1> QED BY <1>1, <1>2

IInv == TypeOK /\ MaskMatchesBands /\ ReconHasItsWavelet
          /\ (status = "done" => AllDone(valid))

(* What a code block does to the masks and to the band objects, entry by entry: the
   band it holds goes to wavelet idx + 1, and if that completes the wavelet, a band to
   be reconstructed goes to wavelet idx.                                         *)
idx == WaveletIndex(iSubband)
band == BandIndex(iSubband)
own == valid[iChannel][idx + 1] \cup {band}
kind == IF iSubband = 0 THEN "low" ELSE "high"

Here(c, w) == c = iChannel /\ w = idx + 1
Larger(c, w) == c = iChannel /\ w = idx /\ own = Band

MaskEffect ==
  /\ valid' \in [Channel -> [Wavelet -> SUBSET Band]]
  /\ \A c \in Channel, w \in Wavelet :
       /\ Here(c, w) => valid'[c][w] = own
       /\ Larger(c, w) => valid'[c][w] = valid[c][w] \cup {0}
       /\ ~Here(c, w) /\ ~Larger(c, w) => valid'[c][w] = valid[c][w]

BandEffect ==
  /\ DOMAIN bands' = Channel
  /\ \A c \in Channel :
       /\ DOMAIN bands'[c] = Wavelet
       /\ \A w \in Wavelet :
            /\ bands'[c][w] \in [Bands(w) -> {"null", "low", "high", "recon"}]
            /\ \A b \in Bands(w) :
                 bands'[c][w][b] = IF Here(c, w) /\ b = band THEN kind
                                   ELSE IF Larger(c, w) /\ b = 0 THEN "recon"
                                   ELSE bands[c][w][b]

LEMMA CodeblockEffect ==
  ASSUME TypeOK, LargeCodeblock PROVE MaskEffect /\ BandEffect
<1> USE VC5ParseAssumption
<1>1. /\ iSubband \in Subband /\ iChannel \in Channel
      /\ idx \in 0 .. Levels - 1 /\ band \in Band
  <2>1. iSubband \in Subband /\ iChannel \in Channel
    BY DEF TypeOK, LargeCodeblock
  <2> QED BY <2>1, SubbandTables DEF idx, band
<1>2. /\ idx \in Wavelet /\ idx + 1 \in Wavelet /\ idx # idx + 1
      /\ Bands(idx + 1) = Band /\ 0 \in Bands(idx) /\ 0 \in Band
  BY <1>1 DEF Wavelet, Band, Bands
<1>3. own \in SUBSET Band
  BY <1>1, <1>2 DEF TypeOK, own
<1> DEFINE withBand == [valid EXCEPT ![iChannel][idx + 1] = own]
           objects == [bands EXCEPT ![iChannel][idx + 1][band] = kind]
<1>4. /\ valid' = IF own = Band THEN [withBand EXCEPT ![iChannel][idx] = @ \cup {0}]
                               ELSE withBand
      /\ bands' = IF own = Band THEN [objects EXCEPT ![iChannel][idx][0] = "recon"]
                               ELSE objects
  <2>1. 1 + idx = idx + 1
    BY <1>1
  <2> QED BY <2>1 DEF LargeCodeblock, Complete, AllBandsValid, NextWavelet,
                      idx, band, own, kind
<1>5. /\ withBand \in [Channel -> [Wavelet -> SUBSET Band]]
      /\ \A c \in Channel, w \in Wavelet :
           /\ Here(c, w) => withBand[c][w] = own
           /\ ~Here(c, w) => withBand[c][w] = valid[c][w]
  BY <1>1, <1>2, <1>3 DEF TypeOK, Here
<1>6. /\ DOMAIN objects = Channel
      /\ \A c \in Channel :
           /\ DOMAIN objects[c] = Wavelet
           /\ \A w \in Wavelet :
                /\ objects[c][w] \in [Bands(w) -> {"null", "low", "high", "recon"}]
                /\ \A b \in Bands(w) :
                     objects[c][w][b] = IF Here(c, w) /\ b = band THEN kind
                                        ELSE bands[c][w][b]
  BY <1>1, <1>2 DEF TypeOK, Here, kind
<1> HIDE DEF withBand, objects
<1>7. MaskEffect
  <2>1. CASE own = Band
    <3>1. valid' = [withBand EXCEPT ![iChannel][idx] = @ \cup {0}]
      BY <1>4, <2>1
    <3>2. valid' \in [Channel -> [Wavelet -> SUBSET Band]]
      BY <1>1, <1>2, <1>5, <3>1
    <3>3. ASSUME NEW c \in Channel, NEW w \in Wavelet
          PROVE  /\ c = iChannel /\ w = idx => valid'[c][w] = withBand[c][w] \cup {0}
                 /\ ~(c = iChannel /\ w = idx) => valid'[c][w] = withBand[c][w]
      BY <1>1, <1>2, <1>5, <3>1
    <3>4. ASSUME NEW c \in Channel, NEW w \in Wavelet
          PROVE  /\ Here(c, w) => valid'[c][w] = own
                 /\ Larger(c, w) => valid'[c][w] = valid[c][w] \cup {0}
                 /\ ~Here(c, w) /\ ~Larger(c, w) => valid'[c][w] = valid[c][w]
      BY <1>2, <1>5, <2>1, <3>3 DEF Here, Larger
    <3> QED BY <3>2, <3>4 DEF MaskEffect
  <2>2. CASE own # Band
    BY <1>4, <1>5, <2>2 DEF MaskEffect, Here, Larger
  <2> QED BY <2>1, <2>2
<1>8. BandEffect
  <2>1. CASE own = Band
    BY <1>1, <1>2, <1>4, <1>6, <2>1 DEF BandEffect, Here, Larger
  <2>2. CASE own # Band
    BY <1>4, <1>6, <2>2 DEF BandEffect, Larger
  <2> QED BY <2>1, <2>2
<1> QED BY <1>7, <1>8

LEMMA InitIInv == Init => IInv
<1> SUFFICES ASSUME Init PROVE IInv
  OBVIOUS
<1> USE VC5ParseAssumption DEF Init
<1>1. 0 \in Channel
  BY DEF Channel
<1>2. TypeOK
  BY <1>1 DEF TypeOK
<1>3. MaskMatchesBands /\ ReconHasItsWavelet
  BY DEF MaskMatchesBands, ReconHasItsWavelet
<1> QED BY <1>2, <1>3 DEF IInv

LEMMA CodeblockStep == IInv /\ LargeCodeblock => IInv'
<1> SUFFICES ASSUME IInv, LargeCodeblock PROVE IInv'
  OBVIOUS
<1>1. /\ TypeOK /\ MaskMatchesBands /\ ReconHasItsWavelet
      /\ iSubband \in Subband /\ iChannel \in Channel
  BY DEF IInv, TypeOK, LargeCodeblock
<1>2. /\ idx \in 0 .. Levels - 1 /\ band \in Band
      /\ band = 0 <=> iSubband = 0
      /\ iSubband = 0 => idx = Levels - 1
  BY <1>1, SubbandTables DEF idx, band
<1>3. MaskEffect /\ BandEffect
  BY <1>1, CodeblockEffect
<1>4. /\ status' = IF AllDone(valid') THEN "done" ELSE "parsing"
      /\ UNCHANGED iChannel
      /\ iSubband' = None
      /\ {lowpassPrecision', quantization'} \subseteq BOOLEAN
      /\ inOrder' \in BOOLEAN
  BY <1>1 DEF LargeCodeblock, TypeOK
<1> USE VC5ParseAssumption
<1>5. /\ idx \in Wavelet /\ idx + 1 \in Wavelet /\ idx # Levels
      /\ Bands(idx + 1) = Band /\ 0 \in Bands(idx) /\ 0 \in Band
      /\ idx + 1 = Levels <=> idx = Levels - 1
  BY <1>2 DEF Wavelet, Band, Bands
<1>6. TypeOK'
  BY <1>1, <1>3, <1>4 DEF TypeOK, MaskEffect, BandEffect
<1>7. MaskMatchesBands'
  <2> SUFFICES ASSUME NEW c \in Channel, NEW w \in Wavelet
               PROVE  /\ valid'[c][w] \subseteq Bands(w)
                      /\ \A b \in Bands(w) :
                           bands'[c][w][b] = IF b \notin valid'[c][w] THEN "null"
                                             ELSE IF b # 0 THEN "high"
                                             ELSE IF w = Levels THEN "low"
                                             ELSE "recon"
    BY DEF MaskMatchesBands
  <2>1. /\ valid[c][w] \subseteq Bands(w)
        /\ \A b \in Bands(w) :
             bands[c][w][b] = IF b \notin valid[c][w] THEN "null"
                              ELSE IF b # 0 THEN "high"
                              ELSE IF w = Levels THEN "low"
                              ELSE "recon"
    BY <1>1 DEF MaskMatchesBands
  <2>2. CASE Here(c, w)
    <3>1. valid'[c][w] = valid[c][w] \cup {band}
      BY <1>3, <2>2 DEF MaskEffect, own, Here
    <3>2. kind = IF band = 0 THEN "low" ELSE "high"
      BY <1>2 DEF kind
    <3>3. \A b \in Bands(w) : bands'[c][w][b] = IF b = band THEN kind ELSE bands[c][w][b]
      BY <1>2, <1>3, <2>2 DEF BandEffect, Here, Larger
    <3>4. band = 0 => w = Levels
      BY <1>2, <1>5, <2>2 DEF Here
    <3>5. Bands(w) = Band
      BY <1>5, <2>2 DEF Here
    <3> QED BY <1>2, <2>1, <3>1, <3>2, <3>3, <3>4, <3>5
  <2>3. CASE Larger(c, w)
    <3>1. valid'[c][w] = valid[c][w] \cup {0}
      BY <1>3, <2>3 DEF MaskEffect
    <3>2. \A b \in Bands(w) : bands'[c][w][b] = IF b = 0 THEN "recon" ELSE bands[c][w][b]
      BY <1>2, <1>3, <2>3 DEF BandEffect, Here, Larger
    <3>3. w # Levels /\ 0 \in Bands(w)
      BY <1>5, <2>3 DEF Larger
    <3> QED BY <2>1, <3>1, <3>2, <3>3
  <2>4. CASE ~Here(c, w) /\ ~Larger(c, w)
    BY <1>3, <2>1, <2>4 DEF MaskEffect, BandEffect
  <2> QED BY <2>2, <2>3, <2>4
<1>8. ReconHasItsWavelet'
  <2> SUFFICES ASSUME NEW c \in Channel, NEW w \in Wavelet, NEW v \in Wavelet,
                      0 \in valid'[c][w], v > w
               PROVE  valid'[c][v] = Band
    BY DEF ReconHasItsWavelet, AllBandsValid
  <2>1. valid[c][v] = Band => valid'[c][v] = Band
    <3>1. valid[c][v] \subseteq valid'[c][v]
      <4>1. Here(c, v) => valid[c][v] \subseteq own
        BY DEF Here, own
      <4> QED BY <1>3, <4>1 DEF MaskEffect
    <3>2. valid'[c][v] \subseteq Band
      BY <1>3 DEF MaskEffect
    <3> QED BY <3>1, <3>2
  <2>2. CASE 0 \in valid[c][w]
    BY <1>1, <2>1, <2>2 DEF ReconHasItsWavelet, AllBandsValid
  <2>3. CASE 0 \notin valid[c][w]
    <3>1. Here(c, w) \/ Larger(c, w)
      BY <1>3, <2>3 DEF MaskEffect
    <3>2. CASE Here(c, w)
      <4>1. valid'[c][w] = valid[c][w] \cup {band}
        BY <1>3, <3>2 DEF MaskEffect, Here, own
      <4>2. band = 0
        BY <2>3, <4>1
      <4>3. w = Levels
        BY <1>2, <3>2, <4>2 DEF Here
      <4> QED BY <4>3 DEF Wavelet
    <3>3. CASE Larger(c, w)
      <4>1. CASE v = idx + 1
        BY <1>3, <3>3, <4>1 DEF MaskEffect, Here, Larger
      <4>2. CASE v # idx + 1
        <5>1. v > idx + 1 /\ idx + 1 # Levels
          BY <1>2, <3>3, <4>2 DEF Wavelet, Larger
        <5>2. 0 \in valid[c][idx + 1]
          BY <1>2, <1>5, <3>3, <5>1 DEF own, Larger
        <5> QED BY <1>1, <1>5, <2>1, <5>1, <5>2 DEF ReconHasItsWavelet, AllBandsValid
      <4> QED BY <4>1, <4>2
    <3> QED BY <3>1, <3>2, <3>3
  <2> QED BY <2>2, <2>3
<1>9. status' = "done" => AllDone(valid')
  BY <1>4
<1>10. AllDone(valid)' <=> AllDone(valid')
  BY DEF AllDone
<1> QED BY <1>6, <1>7, <1>8, <1>9, <1>10 DEF IInv

(* The other tags leave masks and objects alone.                                 *)
LEMMA TagStep ==
  ASSUME IInv, [Next]_vars, ~LargeCodeblock PROVE IInv'
<1>1. TypeOK' /\ UNCHANGED <<bands, valid>> /\ (status' = "done" => status = "done")
  BY DEF IInv, TypeOK, Next, vars, CheckedTag, Throw, Finished, TagLowpassPrecision,
         TagQuantization, TagChannelNumber, TagSubbandNumber
<1> QED BY <1>1 DEF IInv, MaskMatchesBands, ReconHasItsWavelet, AllDone

THEOREM Inductive == Spec => []IInv
<1>1. IInv /\ [Next]_vars => IInv'
  BY CodeblockStep, TagStep
<1> QED BY InitIInv, <1>1, PTL DEF Spec

THEOREM TypeCorrect == Spec => []TypeOK
<1>1. IInv => TypeOK
  BY DEF IInv
<1> QED BY Inductive, <1>1, PTL

(* The band mask, which is all the parser looks at, never disagrees with the band
   objects, which is all the decoder looks at.                                   *)
THEOREM MaskIsFaithful == Spec => []MaskMatchesBands
<1>1. IInv => MaskMatchesBands
  BY DEF IInv
<1> QED BY Inductive, <1>1, PTL

(* A band to be reconstructed is made only above complete wavelets, whichever band
   completed them and in whatever order the code blocks came: the task that reconstructs
   it dereferences all bands of the next wavelet, and of all below.                *)
THEOREM ReconstructionHasInputs == Spec => []ReconHasItsWavelet
<1>1. IInv => ReconHasItsWavelet
  BY DEF IInv
<1> QED BY Inductive, <1>1, PTL

(* A parser that returns leaves no null band for the decoder to dereference, however
   the stream was ordered.                                                       *)
THEOREM ParserIsComplete == Spec => []DoneMeansAllBands
<1>1. IInv => DoneMeansAllBands
  <2> SUFFICES ASSUME IInv, status = "done",
                      NEW c \in Channel, NEW w \in Wavelet, NEW b \in Bands(w)
               PROVE  bands[c][w][b] # "null"
    BY DEF DoneMeansAllBands, Band
  <2>1. 0 \in valid[c][0] /\ 0 \in Wavelet
    BY VC5ParseAssumption DEF IInv, AllDone, Wavelet
  <2>2. b \in valid[c][w]
    <3>1. CASE w = 0
      BY <2>1, <3>1 DEF Bands
    <3>2. CASE w # 0
      <4>1. valid[c][w] = Band
        BY <2>1, <3>2 DEF IInv, ReconHasItsWavelet, AllBandsValid, Wavelet
      <4> QED BY <3>2, <4>1 DEF Bands
    <3> QED BY <3>1, <3>2
  <2> QED BY <2>2 DEF IInv, MaskMatchesBands
<1> QED BY Inductive, <1>1, PTL
-----------------------------------------------------------------------------
(* The order of the encoder.  Its subbands go through the wavelets from the smallest to
   the largest, and each subband is for one place in the pyramid, and each place but the
   low-pass bands that are reconstructed for one subband.                         *)
LEMMA Division ==
  ASSUME NEW n \in Nat \ {0}, NEW q \in Nat, NEW r \in 0 .. n - 1
  PROVE  (n * q + r) \div n = q /\ (n * q + r) % n = r
<1> DEFINE x == n * q + r
           d == x \div n
<1>1. n * q \in Nat /\ x \in Nat
  OBVIOUS
<1> HIDE DEF x
<1>2. d \in Nat /\ n * d <= x /\ x < n * d + n /\ x = n * d + (x % n)
  BY <1>1
<1>3. n * q <= x /\ x < n * q + n
  BY <1>1 DEF x
<1>4. d = q
  <2>1. CASE d > q
    <3>1. n * d >= n * (q + 1)
      BY <1>2, <2>1
    <3>2. n * (q + 1) = n * q + n
      OBVIOUS
    <3> QED BY <1>1, <1>2, <1>3, <3>1, <3>2
  <2>2. CASE d < q
    <3>1. n * q >= n * (d + 1)
      BY <1>2, <2>2
    <3>2. n * (d + 1) = n * d + n
      BY <1>2
    <3> QED BY <1>1, <1>2, <1>3, <3>1, <3>2
  <2> QED BY <1>2, <2>1, <2>2
<1>5. x % n = r
  <2>1. x = n * q + (x % n) /\ x % n \in Int
    BY <1>1, <1>2, <1>4
  <2> QED BY <1>1, <2>1 DEF x
<1> QED BY <1>4, <1>5 DEF x

LEMMA SubbandOf ==
  ASSUME NEW w \in 1 .. Levels, NEW b \in 1 .. Levels
  PROVE  \E s \in Subband : s # 0 /\ WaveletIndex(s) = w - 1 /\ BandIndex(s) = b
<1> USE VC5ParseAssumption
<1> DEFINE s == 1 + Levels * (Levels - w) + (b - 1)
           after == Levels - b
<1>1. Levels * (Levels - w) \in Nat /\ Levels * (w - 1) \in Nat
  BY w \in Nat, Levels - w \in Nat, w - 1 \in Nat
<1>2. NumSubbands - 1 - s = Levels * (w - 1) + after
  BY <1>1 DEF NumSubbands
<1>3. s \in Subband /\ s # 0
  BY <1>1, <1>2 DEF Subband, NumSubbands
<1>4. (Levels * (w - 1) + after) \div Levels = w - 1
  BY Division, after \in 0 .. Levels - 1, w - 1 \in Nat
<1>5. (Levels * (Levels - w) + (b - 1)) % Levels = b - 1
  BY Division, b - 1 \in 0 .. Levels - 1, Levels - w \in Nat
<1>6. s - 1 = Levels * (Levels - w) + (b - 1)
  BY <1>1
<1> HIDE DEF s
<1>7. WaveletIndex(s) = w - 1
  BY <1>2, <1>3, <1>4 DEF WaveletIndex
<1>8. BandIndex(s) = b
  BY <1>3, <1>5, <1>6 DEF BandIndex
<1> QED BY <1>3, <1>7, <1>8

(* The subbands of a larger wavelet come after those of a smaller one.             *)
LEMMA SmallerFirst ==
  ASSUME NEW s \in Subband, NEW t \in Subband, WaveletIndex(s) < WaveletIndex(t)
  PROVE  t < s
<1> USE VC5ParseAssumption DEF Subband, NumSubbands
<1>1. s # 0
  BY SubbandTables
<1>2. CASE t = 0
  BY <1>1, <1>2
<1>3. CASE t # 0
  <2> DEFINE x == NumSubbands - 1 - s
             y == NumSubbands - 1 - t
  <2>1. x \in Nat /\ y \in Nat
    OBVIOUS
  <2>2. WaveletIndex(s) = x \div Levels /\ WaveletIndex(t) = y \div Levels
    BY <1>1, <1>3 DEF WaveletIndex
  <2> HIDE DEF x, y
  <2> DEFINE q == x \div Levels
             p == y \div Levels
  <2>3. q \in Nat /\ p \in Nat /\ x < Levels * q + Levels /\ Levels * p <= y /\ q + 1 <= p
    BY <2>1, <2>2
  <2> HIDE DEF q, p
  <2>4. Levels * (q + 1) <= Levels * p /\ Levels * (q + 1) = Levels * q + Levels
    BY <2>3
  <2>5. x < y
    BY <2>1, <2>3, <2>4
  <2> QED BY <2>5 DEF x, y
<1> QED BY <1>2, <1>3

LEMMA OnePlace ==
  ASSUME NEW s \in Subband, NEW t \in Subband, WaveletIndex(s) = WaveletIndex(t), BandIndex(s) = BandIndex(t)
  PROVE  s = t
<1> USE VC5ParseAssumption DEF Subband, NumSubbands
<1>1. CASE s = 0 \/ t = 0
  BY <1>1, SubbandTables
<1>2. CASE s # 0 /\ t # 0
  <2> DEFINE x == NumSubbands - 1 - s
             y == NumSubbands - 1 - t
             q == x \div Levels
  <2>1. x \in Nat /\ y \in Nat /\ q = y \div Levels
    BY <1>2 DEF WaveletIndex
  <2>2. Levels * q <= x /\ x < Levels * q + Levels /\ q \in Nat
    BY <2>1
  <2>3. Levels * q <= y /\ y < Levels * q + Levels
    BY <2>1
  <2>4. s - t < Levels /\ t - s < Levels
    <3> HIDE DEF q
    <3>1. Levels * q \in Nat
      BY <2>2
    <3> QED BY <2>1, <2>2, <2>3, <3>1
  <2> DEFINE a == (s - 1) \div Levels
             b == (t - 1) \div Levels
             m == (s - 1) % Levels
  <2>5. m = (t - 1) % Levels
    BY <1>2 DEF BandIndex
  <2>6. a \in Nat /\ m \in Nat /\ s - 1 = Levels * a + m
    BY <1>2
  <2>7. b \in Nat /\ t - 1 = Levels * b + m
    BY <1>2, <2>5
  <2> HIDE DEF a, b, m
  <2>8. a = b
    <3>1. CASE a > b
      <4>1. Levels * a >= Levels * (b + 1) /\ Levels * (b + 1) = Levels * b + Levels
        BY <2>6, <2>7, <3>1
      <4> QED BY <2>4, <2>6, <2>7, <4>1
    <3>2. CASE b > a
      <4>1. Levels * b >= Levels * (a + 1) /\ Levels * (a + 1) = Levels * a + Levels
        BY <2>6, <2>7, <3>2
      <4> QED BY <2>4, <2>6, <2>7, <4>1
    <3> QED BY <2>6, <2>7, <3>1, <3>2
  <2> QED BY <2>6, <2>7, <2>8
<1> QED BY <1>1, <1>2

Sent(c, s) == BandIndex(s) \in valid[c][1 + WaveletIndex(s)]

(* In the encoder's order what has been sent is an initial part of the subbands; the low-pass
   band of a wavelet is there before any other of its bands, so that the last of these
   completes it, and the next larger one gets its low-pass band at once.          *)
OrderInv ==
  /\ inOrder =>
       \A c \in Channel :
         /\ \A s \in Subband, r \in Subband : Sent(c, s) /\ r < s => Sent(c, r)
         /\ \A s \in Subband : Sent(c, s) => 0 \in valid[c][1 + WaveletIndex(s)]
         /\ \A w \in 1 .. Levels : valid[c][w] = Band => 0 \in valid[c][w - 1]
  /\ AllDone(valid) => status # "parsing"

LEMMA InitOrder == Init => OrderInv
<1> SUFFICES ASSUME Init PROVE OrderInv
  OBVIOUS
<1> USE VC5ParseAssumption
<1>1. \A c \in Channel, w \in Wavelet : valid[c][w] = {}
  BY DEF Init
<1>2. \A s \in Subband : 1 + WaveletIndex(s) \in Wavelet
  BY SubbandTables DEF Wavelet
<1>3. 0 \in Channel /\ 0 \in Wavelet /\ 0 \in Band /\ 1 .. Levels \subseteq Wavelet
  BY DEF Channel, Wavelet, Band
<1> QED BY <1>1, <1>2, <1>3 DEF OrderInv, Sent, AllDone

(* A wavelet all of whose subbands have been sent is complete.                     *)
LEMMA SentIsComplete ==
  ASSUME TypeOK, NEW c \in Channel, NEW w \in 1 .. Levels,
         \A s \in Subband : WaveletIndex(s) = w - 1 => Sent(c, s),
         \A s \in Subband : Sent(c, s) => 0 \in valid[c][1 + WaveletIndex(s)]
  PROVE  valid[c][w] = Band
<1> USE VC5ParseAssumption
<1>1. ASSUME NEW b \in 1 .. Levels PROVE b \in valid[c][w] /\ 0 \in valid[c][w]
  <2>1. PICK s \in Subband : WaveletIndex(s) = w - 1 /\ BandIndex(s) = b
    BY SubbandOf
  <2>2. 1 + WaveletIndex(s) = w
    BY <2>1
  <2> QED BY <2>1, <2>2 DEF Sent
<1>2. 1 \in 1 .. Levels /\ w \in Wavelet
  BY DEF Wavelet
<1>3. valid[c][w] \subseteq Band
  BY <1>2 DEF TypeOK
<1>4. ASSUME NEW b \in Band PROVE b \in valid[c][w]
  <2>1. CASE b = 0
    BY <1>1, <1>2, <2>1
  <2>2. CASE b # 0
    BY <1>1, <2>2 DEF Band
  <2> QED BY <2>1, <2>2
<1> QED BY <1>3, <1>4

LEMMA CodeblockOrder ==
  ASSUME IInv, OrderInv, LargeCodeblock PROVE OrderInv'
<1> USE VC5ParseAssumption
<1>1. TypeOK /\ iSubband \in Subband /\ iChannel \in Channel /\ MaskEffect
  BY CodeblockEffect DEF IInv, TypeOK, LargeCodeblock
<1>2. /\ idx \in 0 .. Levels - 1 /\ band \in Band /\ (band = 0 <=> iSubband = 0)
      /\ (iSubband = 0 => idx = Levels - 1) /\ idx + 1 = 1 + WaveletIndex(iSubband)
  BY <1>1, SubbandTables DEF idx, band
<1>3. idx \in Wavelet /\ idx + 1 \in Wavelet /\ 0 \in Band /\ 1 \in Band
  BY <1>2 DEF Wavelet, Band
<1>4. AllDone(valid)' => status' # "parsing"
  BY DEF LargeCodeblock, AllDone
<1>5. inOrder' = inOrder
  BY DEF LargeCodeblock
<1>6. CASE ~inOrder
  BY <1>4, <1>5, <1>6 DEF OrderInv
<1>7. CASE inOrder
  <2> SUFFICES ASSUME NEW c \in Channel
               PROVE  /\ \A s \in Subband, r \in Subband : Sent(c, s)' /\ r < s => Sent(c, r)'
                      /\ \A s \in Subband : Sent(c, s)' => 0 \in valid'[c][1 + WaveletIndex(s)]
                      /\ \A w \in 1 .. Levels : valid'[c][w] = Band => 0 \in valid'[c][w - 1]
    BY <1>4 DEF OrderInv
  <2>1. /\ \A s \in Subband, r \in Subband : Sent(c, s) /\ r < s => Sent(c, r)
        /\ \A s \in Subband : Sent(c, s) => 0 \in valid[c][1 + WaveletIndex(s)]
        /\ \A w \in 1 .. Levels : valid[c][w] = Band => 0 \in valid[c][w - 1]
    BY <1>7 DEF OrderInv
  <2>2. /\ c = iChannel => ~Sent(c, iSubband)
        /\ \A r \in Subband : c = iChannel /\ r < iSubband => Sent(c, r)
    <3>1. BandIndex(iSubband) \notin valid[iChannel][1 + WaveletIndex(iSubband)]
      BY DEF LargeCodeblock, Accepted
    <3>2. \A r \in Subband : r < iSubband => BandIndex(r) \in valid[iChannel][1 + WaveletIndex(r)]
      BY <1>1, <1>7 DEF LargeCodeblock, Sendable, Subband
    <3> QED BY <3>1, <3>2 DEF Sent
  <2>3. \A w \in Wavelet : valid[c][w] \subseteq valid'[c][w]
    BY <1>1 DEF MaskEffect, Here, own
  <2>4. \A s \in Subband : 1 + WaveletIndex(s) \in Wavelet /\ 1 + WaveletIndex(s) \in 1 .. Levels
    BY SubbandTables DEF Wavelet
  <2>5. \A s \in Subband : Sent(c, s) => Sent(c, s)'
    BY <2>3, <2>4 DEF Sent
  \* the block's own subband is the only one that is sent now
  <2>6. ASSUME NEW s \in Subband, Sent(c, s)', ~Sent(c, s) PROVE c = iChannel /\ s = iSubband
    <3> DEFINE v == 1 + WaveletIndex(s)
    <3>1. v \in Wavelet /\ BandIndex(s) \in valid'[c][v] /\ BandIndex(s) \notin valid[c][v]
      BY <2>4, <2>6 DEF Sent
    <3>2. CASE Here(c, v)
      <4>1. BandIndex(s) = band /\ WaveletIndex(s) = WaveletIndex(iSubband)
        BY <1>1, <1>2, <3>1, <3>2, SubbandTables DEF MaskEffect, Here, own
      <4> QED BY <1>1, <3>2, <4>1, OnePlace DEF Here, band
    <3>3. CASE ~Here(c, v)
      <4>1. Larger(c, v) /\ BandIndex(s) = 0
        BY <1>1, <3>1, <3>3 DEF MaskEffect
      <4>2. s = 0 /\ v = Levels
        BY <4>1, SubbandTables
      <4> QED BY <1>2, <4>1, <4>2 DEF Larger
    <3> QED BY <3>2, <3>3
  <2>7. \A s \in Subband, r \in Subband : Sent(c, s)' /\ r < s => Sent(c, r)'
    BY <2>1, <2>2, <2>5, <2>6
  \* the low-pass band is there: it is sent, or the smaller wavelet is complete
  <2>8. ASSUME c = iChannel PROVE 0 \in valid'[c][idx + 1]
    <3>1. CASE iSubband = 0
      BY <1>1, <1>2, <1>3, <2>8, <3>1 DEF MaskEffect, Here, own
    <3>2. CASE iSubband # 0 /\ idx + 1 = Levels
      <4>1. 0 \in Subband /\ 0 < iSubband
        BY <1>1, <3>2 DEF Subband, NumSubbands
      <4>2. Sent(c, 0)
        BY <2>2, <2>8, <4>1
      <4>3. 0 \in valid[c][1 + WaveletIndex(0)] /\ 1 + WaveletIndex(0) = Levels
        BY <2>1, <4>1, <4>2, SubbandTables
      <4> QED BY <1>3, <2>3, <3>2, <4>3
    <3>3. CASE idx + 1 # Levels
      <4>1. idx + 2 \in 1 .. Levels
        BY <1>2, <3>3
      <4>2. ASSUME NEW s \in Subband, WaveletIndex(s) = idx + 1 PROVE Sent(c, s)
        <5>1. WaveletIndex(iSubband) = idx
          BY DEF idx
        <5>2. s < iSubband
          BY <1>1, <1>2, <4>2, <5>1, SmallerFirst
        <5> QED BY <2>2, <2>8, <5>2
      <4>3. (idx + 2) - 1 = idx + 1
        BY <1>2
      <4>4. valid[c][idx + 2] = Band
        BY <1>1, <2>1, <4>1, <4>2, <4>3, SentIsComplete
      <4>5. 0 \in valid[c][idx + 1]
        BY <2>1, <4>1, <4>3, <4>4
      <4> QED BY <1>3, <2>3, <4>5
    <3> QED BY <3>1, <3>2, <3>3
  <2>9. ASSUME NEW s \in Subband, Sent(c, s)' PROVE 0 \in valid'[c][1 + WaveletIndex(s)]
    <3>1. CASE Sent(c, s)
      BY <2>1, <2>3, <2>4, <3>1
    <3>2. CASE ~Sent(c, s)
      BY <1>2, <2>6, <2>8, <2>9, <3>2
    <3> QED BY <3>1, <3>2
  \* a wavelet that becomes complete becomes so by the block itself
  <2>10. ASSUME NEW w \in 1 .. Levels, valid'[c][w] = Band PROVE 0 \in valid'[c][w - 1]
    <3>1. w \in Wavelet /\ w - 1 \in Wavelet
      BY DEF Wavelet
    <3>2. CASE Here(c, w)
      <4>1. own = Band /\ w - 1 = idx
        BY <1>1, <1>2, <2>10, <3>1, <3>2 DEF MaskEffect, Here
      <4>2. Larger(c, w - 1)
        BY <3>2, <4>1 DEF Larger, Here
      <4> QED BY <1>1, <3>1, <4>2 DEF MaskEffect
    <3>3. CASE ~Here(c, w) /\ Larger(c, w)
      <4>1. valid'[c][w] = valid[c][w] \cup {0} /\ c = iChannel /\ w = idx
        BY <1>1, <3>1, <3>3 DEF MaskEffect, Larger
      <4>2. 1 \in valid[c][w] /\ 1 \in 1 .. Levels
        BY <1>3, <2>10, <4>1
      <4>3. PICK s \in Subband : WaveletIndex(s) = w - 1 /\ BandIndex(s) = 1
        BY <4>2, SubbandOf
      <4>4. Sent(c, s)
        BY <4>2, <4>3, 1 + (w - 1) = w DEF Sent
      <4>5. WaveletIndex(s) < WaveletIndex(iSubband)
        BY <4>1, <4>3 DEF idx
      <4>6. iSubband < s
        BY <1>1, <4>5, SmallerFirst
      <4>7. Sent(c, iSubband)
        BY <1>1, <2>1, <4>4, <4>6
      <4> QED BY <2>2, <4>1, <4>7
    <3>4. CASE ~Here(c, w) /\ ~Larger(c, w)
      BY <1>1, <2>1, <2>3, <2>10, <3>1, <3>4 DEF MaskEffect
    <3> QED BY <3>2, <3>3, <3>4
  <2> QED BY <2>7, <2>9, <2>10
<1> QED BY <1>6, <1>7

LEMMA TagOrder ==
  ASSUME OrderInv, [Next]_vars, ~LargeCodeblock PROVE OrderInv'
<1>1. UNCHANGED <<inOrder, valid>> /\ (status # "parsing" => status' # "parsing")
  BY DEF Next, vars, CheckedTag, Throw, Finished, TagLowpassPrecision, TagQuantization,
         TagChannelNumber, TagSubbandNumber
<1> QED BY <1>1 DEF OrderInv, Sent, AllDone

(* A stream in the encoder's order all of whose code blocks have been accepted is finished,
   for every number of channels and levels: parseVC5() does not ask it for more.  *)
THEOREM EncodersStreamsEnd == Spec => []AllSentMeansDone
<1>1. IInv /\ OrderInv => AllSentMeansDone
  <2> SUFFICES ASSUME IInv, OrderInv, inOrder, \A c \in Channel, s \in Subband : Sent(c, s)
               PROVE  status # "parsing"
    BY DEF AllSentMeansDone, Sent
  <2> USE VC5ParseAssumption
  <2>1. ASSUME NEW c \in Channel PROVE 0 \in valid[c][0]
    <3>1. /\ \A s \in Subband : Sent(c, s) => 0 \in valid[c][1 + WaveletIndex(s)]
          /\ \A w \in 1 .. Levels : valid[c][w] = Band => 0 \in valid[c][w - 1]
      BY DEF OrderInv
    <3>2. 1 \in 1 .. Levels /\ TypeOK
      BY DEF IInv
    <3>3. valid[c][1] = Band
      BY <3>1, <3>2, SentIsComplete
    <3>4. 0 \in valid[c][1 - 1]
      BY <3>1, <3>2, <3>3
    <3> QED BY <3>4
  <2> QED BY <2>1 DEF OrderInv, AllDone
<1>2. IInv /\ OrderInv /\ [Next]_vars => OrderInv'
  BY CodeblockOrder, TagOrder
<1>3. Spec => []OrderInv
  BY InitOrder, Inductive, <1>2, PTL DEF Spec
<1> QED BY <1>1, <1>3, Inductive, PTL
=============================================================================
