---------------------------- MODULE Decompressors ----------------------------
(* Which decompressor a job is for: its `codec` says.  What the decompressors do not use
   of a job is not there.                                                        *)
EXTENDS PanasonicBlocks, DngTiles, Cr2Slices, Cr2sRaw, RowCodecs, FujiLines

UncompressedCodecs == {"uncompressed", "8bit", "12bitControl", "12bitUnpacked"}

CodecAccepts(j) ==
  CASE j.codec = "panasonic4" -> V4Accepts(j)
    [] j.codec = "panasonic5" -> V5Accepts(j)
    [] j.codec \in {"panasonic6", "panasonic7"} -> V6Accepts(j)
    [] j.codec = "panasonic8" -> V8Accepts(j)
    [] j.codec \in UncompressedCodecs -> LoopAccepts(j)
    [] j.codec = "dng" -> DngAccepts(j)
    [] j.codec = "cr2" -> Cr2Accepts(j)
    [] j.codec = "sraw" -> SRawAccepts(j)
    [] j.codec = "nikon" -> NikonAccepts(j)
    [] j.codec = "pentax" -> PentaxAccepts(j)
    [] j.codec = "samsung0" -> SamsungV0Accepts(j)
    [] j.codec = "samsung1" -> SamsungV1Accepts(j)
    [] j.codec = "samsung2" -> SamsungV2Accepts(j)
    [] j.codec = "hasselblad" -> HasselbladAccepts(j)
    [] j.codec = "kodak" -> KodakAccepts(j)
    [] j.codec = "olympus" -> OlympusAccepts(j)
    [] j.codec = "arw1" -> SonyArw1Accepts(j)
    [] j.codec = "arw2" -> SonyArw2Accepts(j)
    [] j.codec = "phaseone" -> PhaseOneAccepts(j)
    [] j.codec = "crw" -> CrwAccepts(j)
    [] j.codec = "fuji" -> FujiAccepts(j)

CodecScratch(j) ==
  CASE j.codec = "dng" -> DngScratch(j)
    [] j.codec = "fuji" -> FujiScratch(j)
    [] j.codec \in {"cr2", "hasselblad"} -> JpegCells(0)
    [] OTHER -> {}

CodecWork(j) ==
  CASE j.codec = "panasonic4" -> V4Work(j)
    [] j.codec = "panasonic5" -> V5Work(j)
    [] j.codec \in {"panasonic6", "panasonic7"} -> V6Work(j)
    [] j.codec = "panasonic8" -> V8Work(j)
    [] j.codec = "uncompressed" -> UncompressedWork(j)
    [] j.codec = "8bit" -> BytesWork(1, j)
    [] j.codec = "12bitUnpacked" -> BytesWork(2, j)
    [] j.codec = "12bitControl" -> ControlWork(j)
    [] j.codec = "dng" -> DngWork(j)
    [] j.codec = "cr2" -> Cr2Work(j)
    [] j.codec = "sraw" -> SRawWork(j)
    [] j.codec = "nikon" -> NikonWork(j)
    [] j.codec \in {"pentax", "samsung1"} -> TwoUpWork(j)
    [] j.codec = "samsung0" -> SamsungV0Work(j)
    [] j.codec = "samsung2" -> SamsungV2Work(j)
    [] j.codec = "hasselblad" -> HasselbladWork(j)
    [] j.codec = "kodak" -> KodakWork(j)
    [] j.codec = "olympus" -> OlympusWork(j)
    [] j.codec = "arw1" -> SonyArw1Work(j)
    [] j.codec = "arw2" -> SonyArw2Work(j)
    [] j.codec = "phaseone" -> PhaseOneWork(j)
    [] j.codec = "crw" -> CrwWork(j)
    [] j.codec = "fuji" -> FujiWork(j)

CodecTrusted(j) == j.codec = "dng" => DngTrusted(j)
=============================================================================
