---------------------------- MODULE MakerDecoders ---------------------------
(* The decoders of the makers with many formats, in the manner of TiffDecoders.  Steps that
   only one of them has are actions of Pipeline.                                     *)
EXTENDS TiffDecoders

(* ArwDecoder.  The files of before ARW: the A100, and the encrypted SRF.             *)
DecodeSRF == {Decompress}

TransitionalArw == {Decompress} \cup DecodeSRF

ArwUncompressed == {Decompress}

(* The tiles log their errors, one is too many; then the image is cropped.             *)
ArwLJpeg == {Decompress \o << "cropToSize" >>}

(* Of 8 bits, with the curve; or of 12, whose levels are two bits narrower then.       *)
DecodeARW2 == {<< "create", "decodeMapped" >>, << "create", "decode", "shiftDown", "shiftExif" >>}

ArwCompressed ==
  Then({<< "dim", "curve" >>},
       Then({<< "create", "decode", "shiftExif" >>} \cup DecodeARW2, {<< "endCurve" >>}))

ArwRaw ==
  TransitionalArw \cup ArwUncompressed \cup Then(ArwLJpeg, {<< "noMoreCrops" >>}) \cup ArwCompressed

(* ParseA100WB() sets no levels. *)
A100WB == {<< "whiteBalance" >>}

GetWB ==
  Then({<< "whiteBalance" >>}, Then({<< >>, << "exifBlack" >>}, {<< >>, << "exifWhite" >>}))

ArwMetaShiftedFirst ==   \* (mutant) of ArwMeta: the levels are shifted before they are there
  Then({<< "fileCFA", "shiftLevels", "setMetaData", "try" >>},
       Then(A100WB \cup GetWB, {<< "caught" >>}))

ArwMeta ==
  Then({<< "fileCFA", "setMetaData", "shiftLevels", "try" >>},
       Then(A100WB \cup GetWB, {<< "caught" >>}))

(* Cr2Decoder.  The table of the D2000, if it is there, is applied to the whole image.    *)
Cr2OldFormat ==
  Then({Decompress \o << "setPrecision" >>}, {<< >>, << "curve", "lookupIfWanted", "endCurve" >>})

SRawInterpolate == << "newImageOf3", "shiftUp" >>

(* isCFA says whether it is subsampled. *)
Cr2NewFormat ==
  {<< "dim", "cpp", "create", "decode", "setPrecision" >>,
   << "dim", "cpp", "notCFA", "create", "decode", "setPrecision" >> \o SRawInterpolate}

Cr2Raw(subsampled) ==
  IF subsampled THEN {w \in Cr2NewFormat : "notCFA" \in ToSet(w)}
  ELSE Cr2OldFormat \cup {w \in Cr2NewFormat : "notCFA" \notin ToSet(w)}

(* parseWhiteBalance() and decodeCanonColorData().                                    *)
CanonColorData ==
  {<< "whiteBalance" >>, << "whiteBalance", "canonLevels", "rescaleToPrecision" >>}

Cr2WhiteBalance ==
  Then({<< "whiteOfPrecision" >>}, CanonColorData \cup {<< "whiteBalance" >>})

Cr2Meta ==
  Then({<< "fileCFA", "try" >>},
       Then(Cr2WhiteBalance, {<< "caught", "setMetaDataInMode", "shiftUpLevels" >>}))

Cr2Support(subsampled) ==
  {<< IF subsampled THEN "checkSupportInMode" ELSE "checkSupport" >>}

(* NefDecoder.  DecodeUncompressed() has one more check, of the bits, after the image is
   allocated.                                                                        *)
NefUncompressed == {<< "dim", "create", "decode" >>}

NefD100 == {Decompress}

DecodeNikonSNef == << "curveAlways", "decodeMapped", "endCurve" >>

NefSNef == {<< "dim", "cpp", "notCFA", "create" >> \o DecodeNikonSNef}

(* NikonDecompressor::decompress(), with its guard.                                   *)
NikonDecompress == << "curve", "decodeMapped", "endCurve" >>

NefRaw ==
  NefD100 \cup NefUncompressed \cup NefSNef \cup {<< "dim", "create" >> \o NikonDecompress}

NefWhiteBalance == << "whiteBalance" >>

NefSupport == {<< "checkSupportInMode" >>}

NefMeta ==
  Then({<< "fileCFA", "keepLevels" >>},
       Then({NefWhiteBalance}, Then({<< >>, << "fileSeparate" >>}, {<< "setMetaDataInMode", "restoreLevels" >>})))

(* Rw2Decoder.  Version 8 wants the CFA first, and one that begins with red.            *)
Rw2V8 == {<< "dim", "fileCFA", "askCFA", "create", "decode" >>}

Rw2Raw == {Decompress} \cup Rw2V8

Rw2ParseCFA == << "fileCFA" >>

Rw2Support == {<< "checkSupportInEither" >>}

(* The black levels of the file go by the colours of the cropped image.                *)
Rw2Meta ==
  Then({Rw2ParseCFA \o << "checkSupportAndSetMetaData" >>},
       {<< "whiteBalance" >>, << "askCFA", "fileSeparate", "whiteBalance" >>})

(* IiqDecoder.  Bad columns and the chroma of the flat field need the CFA.              *)
IiqCorrections == {<< "correct" >>, << "askCFA", "correct" >>}

IiqRaw ==
  Then({Decompress}, Then({<< >>} \cup IiqCorrections, {<< "whiteBalance" >>}))

IiqSupport == {<< "checkSupport", "cameraOrRefuse", "cameraCFA" >>}

IiqMeta == {<< "setMetaData" >>, << "setMetaData", "fileBlack" >>}

(* RafDecoder.  The compressed ones have a decompressor that is constructed with the CFA.  *)
RafRaw(compressed) ==
  IF compressed THEN {<< "setMode", "dim", "askCFA", "create", "decode" >>} ELSE {Decompress}

RafSupportWithoutCFA(compressed) ==   \* (mutant) of RafSupport
  Then({<< "checkSupport", "cameraOrRefuse" >>},
       IF compressed THEN {<< "setMode", "cameraOrRefuse" >>} ELSE {<< >>})

RafSupport(compressed) ==
  Then({<< "checkSupport", "cameraOrRefuse" >>},
       IF compressed THEN {<< "setMode", "cameraOrRefuse", "cameraCFA" >>} ELSE {<< >>})

RafMeta ==
  Then(Then({<< >>, << "whiteOfBits" >>}, {<< "cameraOrRefuse", "cameraCFA", "applyCorrections" >>}),
       Then({<< >>, << "fileBlacks" >>}, {<< "sensorLevels", "whiteBalance" >>}))
=============================================================================
