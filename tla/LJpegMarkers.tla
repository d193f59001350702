----------------------------- MODULE LJpegMarkers -----------------------------
(* AbstractLJpegDecoder: from marker to marker through a lossless JPEG.  Tables, the
   frame and the restart interval are remembered until the scan, which is decoded with
   them as soon as its marker has come.

   A JPEG is a sequence of items.  An item has a `marker`: "padding" for bytes that are
   none, "cut" when its segment is longer than the data, and
     DHT    tables: the indices of the tables it defines, one after the other
     SOF3   frame: prec, w, h, cps, comps: for each component its id, superH, superV
     DRI    restart (MCUs in a restart interval)
     SOS    comps: component selector cs and table td  predictor  pt
   The image a JPEG is for:  cpp  w (in pixels)  superH, superV (metadata.subsampling)
   Some JPEGs have an implicit EOI after the scan.                               *)
EXTENDS RasterSteps

NumTables == 4
NoTable == NumTables     \* what dcTblNo is before it is set: no index of a table

Start == [status |-> "start", read |-> 0, found |-> {}, tables |-> {}, restart |-> 0, scans |-> << >>,
          frame |-> [prec |-> 0, w |-> 0, h |-> 0, cps |-> 0, comps |-> << >>]]

(* parseDHT(): no table is defined a second time.                                 *)
TablesAccepted(state, item) ==
  /\ IsInjective(item.tables)
  /\ Range(item.tables) \subseteq (0 .. NumTables - 1) \ state.tables

(* parseSOF()                                                                     *)
FrameInfoAccepted(frame, img) ==
  /\ frame.prec \in 2 .. 16 /\ frame.w > 0 /\ frame.h > 0
  /\ frame.cps \in 1 .. 4 /\ frame.cps \in img.cpp .. img.w
  /\ Len(frame.comps) = frame.cps
  /\ \A c \in Range(frame.comps) : c.superH \in 1 .. 4 /\ c.superV \in 1 .. 4
  /\ frame.comps[1].superH = img.superH /\ frame.comps[1].superV = img.superV

(* parseSOS(): the component that a selector is about, 0 for none.                  *)
Selected(frame, cs) ==
  LET same == {i \in DOMAIN frame.comps : frame.comps[i].id = cs}
  IN  IF same = {} THEN 0 ELSE Max(same)

ScanHeaderAccepted(state, item) ==
  /\ Len(item.comps) = state.frame.cps
  /\ \A c \in Range(item.comps) : c.td \in state.tables /\ Selected(state.frame, c.cs) # 0
  /\ item.predictor <= 8 /\ item.pt = 0

(* The tables of the components: of two selectors for one the last counts, and a
   component that none selects has no table.                                      *)
TablesOf(frame, selectors) ==
  [i \in DOMAIN frame.comps |->
     LET chosen == {k \in DOMAIN selectors : Selected(frame, selectors[k].cs) = i}
     IN  IF chosen = {} THEN NoTable ELSE selectors[Max(chosen)].td]

Scan(state, item) ==
  state.frame @@ [restart |-> state.restart, predictor |-> item.predictor,
                  dcTblNo |-> TablesOf(state.frame, item.comps)]
-----------------------------------------------------------------------------
(* advanceToNextMarker(): bytes that are no marker are skipped, but not before SOI.  *)
StartsWithSOI(state, item) == state.status = "start" => item.marker = "SOI"

(* decodeSOI(): may this item come here?                                          *)
ItemAccepted(state, item, img) ==
  LET m == item.marker
      found == state.found
  IN  /\ StartsWithSOI(state, item)
      /\ m \notin {"cut", "DQT"}
      /\ m = "DHT" => "SOS" \notin found /\ TablesAccepted(state, item)
      /\ m = "SOF3" => found \cap {"SOS", "SOF3"} = {} /\ FrameInfoAccepted(item.frame, img)
      /\ m = "SOS" => "SOS" \notin found /\ {"DHT", "SOF3"} \subseteq found
                        /\ ScanHeaderAccepted(state, item)
      /\ m = "DRI" => "DRI" \notin found

AfterItem(state, item, implicitEOI) ==
  LET m == item.marker
  IN  [status |-> IF m = "EOI" \/ (m = "SOS" /\ implicitEOI) THEN "ended" ELSE "markers",
       read |-> state.read + 1,
       found |-> state.found \cup {m},
       tables |-> IF m = "DHT" THEN state.tables \cup Range(item.tables) ELSE state.tables,
       frame |-> IF m = "SOF3" THEN item.frame ELSE state.frame,
       restart |-> IF m = "DRI" THEN item.restart ELSE state.restart,
       scans |-> IF m = "SOS" THEN Append(state.scans, Scan(state, item)) ELSE state.scans]

Parsed(items, img, implicitEOI) ==
  LET GoOn(state, item) ==
        IF state.status \in {"ended", "threw"} THEN state
        ELSE IF ItemAccepted(state, item, img) THEN AfterItem(state, item, implicitEOI)
        ELSE [state EXCEPT !.status = "threw"]
  IN  FoldLeft(GoOn, Start, items)

Found(state) == state.status = "ended" /\ "SOS" \in state.found

(* getPrefixCodeDecoders(), getInitialPredictors() for n components of a scan.      *)
DecodersExist(scan, n) == \A i \in 1 .. n : scan.dcTblNo[i] # NoTable
-----------------------------------------------------------------------------
(* The steps for JPEG number n: what defines tables and the frame writes them, and the
   steps of a scan, stepsOfScans[k], begin with the use of those that it was given, for
   its first `comps` components.                                                  *)
TableCell(n, t) == <<"huff", n, t>>
FrameCell(n) == <<"frame", n, 0>>

JpegCells(n) == {FrameCell(n)} \cup {TableCell(n, t) : t \in 0 .. NumTables - 1}

UseDecoders(n, scan, comps) ==
  <<Read({FrameCell(n)} \cup {TableCell(n, scan.dcTblNo[i]) : i \in 1 .. comps})>>

MarkerSteps(n, items, state, stepsOfScans) ==
  LET ScansUpTo(i) == Cardinality({k \in 1 .. i : items[k].marker = "SOS"})
      StepsAt(i) ==
        CASE items[i].marker = "DHT" -> <<Write({TableCell(n, t) : t \in Range(items[i].tables)})>>
          [] items[i].marker = "SOF3" -> <<Write({FrameCell(n)})>>
          [] items[i].marker = "SOS" -> stepsOfScans[ScansUpTo(i)]
          [] OTHER -> << >>
  IN  FlattenSeq([i \in 1 .. state.read |-> StepsAt(i)])
=============================================================================
