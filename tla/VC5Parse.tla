------------------------------ MODULE VC5Parse ------------------------------
(* VC5Decompressor::parseVC5(): the tag/value pairs of a VC-5 stream and the code
   blocks they announce fill in, per channel, a pyramid of wavelets of which the
   decoder later makes tasks.  A wavelet has one low-pass and some high-pass bands;
   the low-pass band of the smallest wavelet is in the stream, every other one is
   reconstructed from the bands of the next smaller wavelet.

   What a tag says about the payload (sizes, pattern, precision values) is reduced to
   "accepted or not"; what it changes in the parser is kept.                     *)
EXTENDS Integers, FiniteSets

CONSTANTS NumChannels,   \* numChannels, 4 in the code
          Levels         \* numWaveletLevels = numHighPassBands, 3 in the code

ASSUME VC5ParseAssumption == /\ NumChannels \in Nat \ {0}
                             /\ Levels \in Nat \ {0}

Channel == 0 .. NumChannels - 1
NumSubbands == 1 + Levels * Levels
Subband == 0 .. NumSubbands - 1
Wavelet == 0 .. Levels           \* 0 is the full-size one, with a low-pass band only
Band == 0 .. Levels              \* 0 is the low-pass band

Bands(w) == IF w = 0 THEN {0} ELSE Band

None == -1                       \* an empty Optional

(* subband_wavelet_index and subband_band_index: filled from the last subband back,
   `numWaveletLevels` entries per wavelet; the first one is a low-pass band.      *)
WaveletIndex(s) == IF s = 0 THEN Levels - 1 ELSE (NumSubbands - 1 - s) \div Levels

BandIndexFromTwo(s) == IF s = 0 THEN 0 ELSE 2 + ((s - 1) % Levels)   \* (mutant)

BandIndex(s) == IF s = 0 THEN 0 ELSE 1 + ((s - 1) % Levels)

VARIABLES
  inOrder,    \* the encoder sends a channel's subbands in increasing order
  bands,      \* channels[c].wavelets[w].bands[b]: "null", "low", "high", "recon"
  valid,      \* Wavelet::mDecodedBandMask, as the set of its bits
  iChannel, iSubband,
  lowpassPrecision, quantization,   \* is the Optional engaged?
  status      \* "parsing", "done", "threw"

vars == <<inOrder, bands, valid, iChannel, iSubband, lowpassPrecision,
          quantization, status>>

(* The constructor: one band slot in the full-size wavelet, all in the others; no
   tag seen.                                                                     *)
Init == /\ inOrder \in BOOLEAN
        /\ bands = [c \in Channel |-> [w \in Wavelet |-> [b \in Bands(w) |-> "null"]]]
        /\ valid = [c \in Channel |-> [w \in Wavelet |-> {}]]
        /\ iChannel = 0
        /\ iSubband = None
        /\ lowpassPrecision = FALSE
        /\ quantization = FALSE
        /\ status = "parsing"
-----------------------------------------------------------------------------
AllBandsValid(mask) == mask = Band

AnyDone(v) == \E c \in Channel : 0 \in v[c][0]         \* (mutant) any_of for all_of

(* The loop condition, evaluated after every tag.                                *)
AllDone(v) == \A c \in Channel : 0 \in v[c][0]

Throw == /\ status = "parsing"
         /\ status' = "threw"
         /\ UNCHANGED <<inOrder, bands, valid, iChannel, iSubband, lowpassPrecision,
                        quantization>>

(* Tags that must repeat what the decoder already knows (channel count, image size,
   format, subband count, bit depth, pattern, components), optional chunks that are
   skipped, and PrescaleShift, which is for the arithmetic of a channel only; they
   change nothing of this or, like a read past the end, throw.                    *)
CheckedTag == /\ status = "parsing"
              /\ UNCHANGED vars

TagLowpassPrecision == /\ status = "parsing"
                       /\ lowpassPrecision' = TRUE
                       /\ UNCHANGED <<inOrder, bands, valid, iChannel, iSubband,
                                      quantization, status>>

TagQuantization == /\ status = "parsing"
                   /\ quantization' = TRUE
                   /\ UNCHANGED <<inOrder, bands, valid, iChannel, iSubband,
                                  lowpassPrecision, status>>

TagChannelNumber(c) == /\ status = "parsing"
                       /\ iChannel' = c
                       /\ UNCHANGED <<inOrder, bands, valid, iSubband, lowpassPrecision,
                                      quantization, status>>

TagSubbandNumber(s) == /\ status = "parsing"
                       /\ iSubband' = s
                       /\ UNCHANGED <<inOrder, bands, valid, iChannel, lowpassPrecision,
                                      quantization, status>>

(* The order in which the encoder sends the code blocks of a channel.             *)
Sendable(c, s) ==
  inOrder => \A r \in 0 .. s - 1 : BandIndex(r) \in valid[c][1 + WaveletIndex(r)]

(* parseLargeCodeblock(): the band the code block holds, and, when it completes its
   wavelet, the reconstructable low-pass band of the next larger one.  Without the
   tags it needs, for a band seen before or with too few bytes it throws.        *)
Accepted(c, s) == /\ BandIndex(s) \notin valid[c][1 + WaveletIndex(s)]
                  /\ IF s = 0 THEN lowpassPrecision ELSE quantization

\* (mutant) the reconstructable band goes to the wavelet that has just been completed
SameWavelet(idx) == idx + 1

NextWavelet(idx) == idx

CompleteByHighPass(mask) == 1 .. Levels \subseteq mask     \* (mutant) the low-pass band may come

Complete(mask) == AllBandsValid(mask)

LargeCodeblock ==
  /\ status = "parsing"
  /\ iSubband # None
  /\ Sendable(iChannel, iSubband)
  /\ Accepted(iChannel, iSubband)
  /\ LET c == iChannel
         idx == WaveletIndex(iSubband)
         band == BandIndex(iSubband)
         own == valid[c][1 + idx] \cup {band}
         kind == IF iSubband = 0 THEN "low" ELSE "high"
         withBand == [valid EXCEPT ![c][1 + idx] = own]
         objects == [bands EXCEPT ![c][1 + idx][band] = kind]
         next == NextWavelet(idx)
     IN  /\ valid' = IF Complete(own)
                       THEN [withBand EXCEPT ![c][next] = @ \cup {0}]
                       ELSE withBand
         /\ bands' = IF Complete(own)
                       THEN [objects EXCEPT ![c][next][0] = "recon"]
                       ELSE objects
  /\ lowpassPrecision' = (lowpassPrecision /\ iSubband # 0)
  /\ quantization' = (quantization /\ iSubband = 0)
  /\ iSubband' = None
  /\ status' = IF AllDone(valid') THEN "done" ELSE "parsing"
  /\ UNCHANGED <<inOrder, iChannel>>

(* The constructor has returned, or its exception has left it.                   *)
Finished == status # "parsing" /\ UNCHANGED vars

Next == \/ CheckedTag \/ Throw \/ Finished
        \/ TagLowpassPrecision \/ TagQuantization
        \/ \E c \in Channel : TagChannelNumber(c)
        \/ \E s \in Subband : TagSubbandNumber(s)
        \/ LargeCodeblock

Spec == Init /\ [][Next]_vars
-----------------------------------------------------------------------------
TypeOK ==
  /\ inOrder \in BOOLEAN
  /\ DOMAIN bands = Channel
  /\ \A c \in Channel :
       /\ DOMAIN bands[c] = Wavelet
       /\ \A w \in Wavelet : bands[c][w] \in [Bands(w) -> {"null", "low", "high", "recon"}]
  /\ valid \in [Channel -> [Wavelet -> SUBSET Band]]
  /\ iChannel \in Channel
  /\ iSubband \in Subband \cup {None}
  /\ {lowpassPrecision, quantization} \subseteq BOOLEAN
  /\ status \in {"parsing", "done", "threw"}

(* A bit of the mask is set exactly when there is a band object behind it, of the kind
   its place in the pyramid calls for.                                           *)
MaskMatchesBands ==
  \A c \in Channel, w \in Wavelet :
    /\ valid[c][w] \subseteq Bands(w)
    /\ \A b \in Bands(w) :
         bands[c][w][b] = IF b \notin valid[c][w] THEN "null"
                          ELSE IF b # 0 THEN "high"
                          ELSE IF w = Levels THEN "low"
                          ELSE "recon"

(* A band to be reconstructed hangs on wavelets that are completely specified, down to
   the smallest one, in whatever order the code blocks came: createDecodingTasks()
   asserts it of the next (`wavelet.allBandsValid()`), and that there is no such band
   before its wavelet is complete is what parseLargeCodeblock() asserts
   (`!nextWavelet.isBandValid(0)`).                                              *)
ReconHasItsWavelet ==
  \A c \in Channel, w, smaller \in Wavelet :
    0 \in valid[c][w] /\ smaller > w => AllBandsValid(valid[c][smaller])

(* When the parser is satisfied, every band the decoder is going to dereference in
   createWaveletBandDecodingTasks() is there, in every channel.                  *)
DoneMeansAllBands ==
  status = "done" =>
    \A c \in Channel, w \in Wavelet, b \in Band : b \in Bands(w) => bands[c][w][b] # "null"

(* A stream whose code blocks have all been accepted, in the encoder's order, is a
   finished one: the parser does not read on past its end.                        *)
AllSentMeansDone ==
  inOrder /\ (\A c \in Channel, s \in Subband : BandIndex(s) \in valid[c][1 + WaveletIndex(s)])
    => status # "parsing"
=============================================================================
