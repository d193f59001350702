---------------------------- MODULE TiffDecoders ----------------------------
(* The decoders of one or two formats: for each of their functions that reach the image, the
   set of the ways through it, each the sequence of the steps of DecodedImage it takes.
   What is checked before a step, and throws, is that step failing.                  *)
EXTENDS Sequences, SequencesExt

(* Each of the ways `one`, and then each of the ways `other`.                        *)
Then(one, other) == {w \o v : w \in one, v \in other}

(* SimpleTiffDecoder::prepareForRawDecoding(). *)
Prepare == << "dim" >>

(* RawDecoder::decodeUncompressed(): the white level is known before a sample is read. *)
Uncompressed == << "dim", "create", "whiteOfBits", "decode" >>

(* What most decoders do with a decompressor: it is constructed, which can fail, before the
   image is allocated.                                                               *)
Decompress == << "dim", "create", "decode" >>

DcrRaw == {Prepare \o << "curve", "create", "decodeMapped", "endCurve" >>}

DcsRaw == {Prepare \o << "curve", "create", "decodeMapped", "endCurve" >>}

ErfRaw == {Prepare \o << "create", "decode" >>}

MefRaw == {Prepare \o << "create", "decode" >>}

(* The Kodak directory is parsed anew, and gives the size.                           *)
KdcRaw == {Decompress}

StiRaw == {Decompress}

(* DecodeUncompressed(), or the LJpeg of Hasselblad. *)
ThreefrRaw == {Decompress}

(* The compressed ones are not supported. *)
MosRaw == {Decompress, << "dim", "refuse" >>}

(* The photometric interpretation may say that it is no CFA.                          *)
PefRaw == {Uncompressed} \cup Then({<< >>, << "notCFA" >>}, {Decompress})

SrwRaw == {Uncompressed, Decompress}

MrwRaw == {Decompress}

NakedRaw == {Decompress}

CrwRaw == {Decompress}

(* Uncompressed in one of five ways, the interleaved one with no decompressor; or not.  *)
OrfRaw == {Decompress}
-----------------------------------------------------------------------------
(* decodeMetaDataInternal(); the white balance is read, if it is there, and can fail.    *)
SetMetaDataOnly == {<< "setMetaData" >>}

ErfMeta == {<< "setMetaData", "whiteBalance" >>}

(* A broken Kodak directory is not what stops it. *)
KdcMeta == {<< "setMetaData", "try", "whiteBalance", "caught", "whiteBalance" >>}

ThreefrMeta ==
  Then({<< "fileCFA", "setMetaData" >>},
       Then({<< >>, << "fileBlack" >>}, Then({<< >>, << "fileWhite" >>}, {<< "whiteBalance" >>})))

MosMeta == {<< "setMetaData", "whiteBalance" >>}

PefMeta ==
  Then({<< "fileCFA", "setMetaData" >>}, Then({<< >>, << "fileSeparate" >>}, {<< "whiteBalance" >>}))

SrwMeta == {<< "setMetaDataInMode", "whiteBalance" >>}

MrwMeta == {<< "setMetaData" >>}

CrwMeta == {<< "fileCFA", "try", "whiteBalance", "caught", "setMetaData" >>}

(* parseCFA() leaves the CFA half set if it throws.  The black levels of the file are put in
   the order of the CFA, which by then follows the crop; and the white level goes with
   them.                                                                             *)
OrfMeta ==
  Then({<< "whiteOfBits", "fileCFA", "setMetaData", "whiteBalance" >>},
       {<< >>, << "askCFA", "fileSeparate" >>, << "askCFA", "fileSeparate", "scale" >>})
-----------------------------------------------------------------------------
(* checkSupportInternal(): the camera, without a mode or in the one the file tells.      *)
Support == {<< "checkSupport" >>}

(* getMode() and hasCamera(). *)
SrwSupport == {<< "checkSupportInMode" >>}
=============================================================================
