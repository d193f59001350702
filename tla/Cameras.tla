------------------------------ MODULE Cameras ------------------------------
(* cameras.xml: what Camera makes of an element and of what is in it, and CameraMetaData, where
   the cameras of the document and their aliases are found by model and mode.

   An element is [model, mode, supported, children].  Of a child there is what tells one
   camera from another in the pipeline: the size of a CFA and where its rows are, the
   place of a crop, that there is a sensor, the aliases, the names of the hints.  The make
   is the same for all; colour matrices, black areas and identifiers are left out.       *)
EXTENDS Integers, Sequences, SequencesExt, Functions, TLC

CONSTANTS Documents,   \* sequences of elements
          Model        \* of the camera whose file is decoded

NoCrop == -1

Statuses ==
  [yes |-> "supported", no |-> "unsupported", unknown |-> "unknown"]
  @@ ("no-samples" :> "supported") @@ ("unknown-no-samples" :> "unknown")

Attributes(element) ==
  [model |-> element.model, mode |-> element.mode, status |-> Statuses[element.supported],
   cfa |-> << 0, 0 >>, crop |-> NoCrop, sensors |-> 0, hints |-> {}, aliases |-> << >>]

(* A CFA of no size leaves the one there is, and its rows are put into that.           *)
SetSize(cam, child) == IF child.size = << 0, 0 >> THEN cam.cfa ELSE child.size

ColorRowFits(row, size) == row.y \in 0 .. size[2] - 1 /\ row.colors = size[1]

(* parseCFA(), parseCrop(), parseSensor(), parseHints() and parseAliases(): what is not right is
   a CameraMetadataException ...                                                      *)
ChildAccepted(cam, child) ==
  CASE child.kind = "CFA"   -> LET size == SetSize(cam, child) IN
                                 /\ size[1] * size[2] <= 36
                                 /\ \A row \in child.rows : ColorRowFits(row, size)
    [] child.kind = "Crop"  -> child.x >= 0 /\ child.y >= 0
    [] child.kind = "Hints" -> "" \notin child.names
    [] OTHER -> TRUE

(* ... a second CFA or crop takes the place of the first, sensors and hints add up.     *)
WithChild(cam, child) ==
  CASE child.kind = "CFA"     -> [cam EXCEPT !.cfa = SetSize(cam, child)]
    [] child.kind = "Crop"    -> [cam EXCEPT !.crop = IF child.given THEN (child.x + child.y) % 2 ELSE NoCrop]
    [] child.kind = "Sensor"  -> [cam EXCEPT !.sensors = @ + 1]
    [] child.kind = "Hints"   -> [cam EXCEPT !.hints = @ \cup child.names]
    [] child.kind = "Aliases" -> [cam EXCEPT !.aliases = @ \o child.models]
    [] OTHER -> cam

WithChildren(element, children) == FoldLeft(WithChild, Attributes(element), children)

Camera(element) == WithChildren(element, element.children)

Accepted(element) ==
  /\ element.supported \in DOMAIN Statuses
  /\ \A i \in 1 .. Len(element.children) :
       ChildAccepted(WithChildren(element, SubSeq(element.children, 1, i - 1)), element.children[i])

AliasOf(cam, alias) == [cam EXCEPT !.model = alias, !.aliases = << >>]

HasCFA(cam) == cam.cfa[1] * cam.cfa[2] > 0
-----------------------------------------------------------------------------
(* addCamera(): the first of each model and mode stays.                               *)
Id(cam) == << cam.model, cam.mode >>

AddCamera(db, cam) == IF Id(cam) \in DOMAIN db THEN db ELSE (Id(cam) :> cam) @@ db

(* A camera that was there already does not bring its aliases.                        *)
AddWithAliases(db, cam) ==
  IF Id(cam) \in DOMAIN db THEN db
  ELSE FoldLeft(LAMBDA all, alias : AddCamera(all, AliasOf(cam, alias)), AddCamera(db, cam), cam.aliases)

CameraMetaData(doc) ==
  FoldLeft(AddWithAliases, [id \in {} |-> 0], [i \in 1 .. Len(doc) |-> Camera(doc[i])])

(* getCamera() by mode, and hasCamera(): the modes in which the camera is in the database.  *)
ModesOf(db) == {id[2] : id \in {id \in DOMAIN db : id[1] = Model}}

GetCamera(db) == [mode \in ModesOf(db) |-> db[<< Model, mode >>]]

Cameras == {GetCamera(CameraMetaData(doc)) :
              doc \in {d \in Documents : \A i \in 1 .. Len(d) : Accepted(d[i])}}
=============================================================================
