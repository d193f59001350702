------------------------------ MODULE Cr2sRaw ------------------------------
(* Cr2sRawInterpolator: the sRaw image that Cr2Slices has decoded, a job's `source`, is
   turned into RGB.  A unit of the source (an MCU) is superH x superV luma samples and one
   pair of chroma samples, which belong to the unit's first pixel; the chroma of the other
   pixels is interpolated with that of the units to the right and below, of which there
   are none in the last column and in the last row.                               *)
EXTENDS RasterSteps

ComponentsPerPixel == 3
ComponentsPerMCU(j) == 2 + j.superH * j.superV
NumMCUs(j) == j.source.w \div ComponentsPerMCU(j)

(* decodeNewFormat(): the dimensions of the subsampled image, from the sensor's.    *)
SubsampledDims(sensor, hor, ver) ==
  [w |-> (sensor.w \div hor) * (2 + hor * ver), h |-> sensor.h \div ver]

(* sRawInterpolate(): the image made for a source.                                *)
InterpolatedDims(source, hor, ver) ==
  [w |-> ComponentsPerPixel * hor * (source.w \div (2 + hor * ver)), h |-> ver * source.h]

SRawJob(sensor, hor, ver) ==
  LET source == SubsampledDims(sensor, hor, ver)
  IN  [sensor |-> sensor, superH |-> hor, superV |-> ver, source |-> source]
        @@ InterpolatedDims(source, hor, ver)

(* The version, which the camera's hints give, is only about colours.  (There is no
   code for 2 x 2 and version 0, which no camera that has the hint for it makes.)    *)
SRawAccepts(j) ==
  /\ j.sensor.w % j.superH = 0 /\ j.sensor.h % j.superV = 0
  /\ j.superH = 2 /\ j.superV \in {1, 2}

LoadMCU(j, row, mcu) ==
  Rectangle(ComponentsPerMCU(j) * mcu, row, ComponentsPerMCU(j), 1)
StoreMCU(j, row, mcu) ==
  Rectangle(ComponentsPerPixel * j.superH * mcu, j.superV * row,
            ComponentsPerPixel * j.superH, j.superV)

(* The units whose chroma the pixels of a unit need.                              *)
Neighbours(j, row, mcu) ==
  {row, IF j.superV = 2 /\ row + 1 < j.source.h THEN row + 1 ELSE row} \X
    {mcu, IF mcu + 1 < NumMCUs(j) THEN mcu + 1 ELSE mcu}

SRawRow(j, row) ==
  [m \in 1 .. NumMCUs(j) |->
     [Write(StoreMCU(j, row, m - 1)) EXCEPT !.loads =
        UNION {LoadMCU(j, u[1], u[2]) : u \in Neighbours(j, row, m - 1)}]]

(* 4:2:2 goes through the rows in order; for 4:2:0 they are shared by the threads.  The
   last row waits for the others, but here it need not: it uses nothing of theirs.  *)
SRawWork(j) ==
  IF j.superV = 1 THEN <<ForEach(j.source.h, LAMBDA row : SRawRow(j, row))>>
  ELSE [row \in 1 .. j.source.h |-> SRawRow(j, row - 1)]
=============================================================================
