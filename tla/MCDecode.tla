------------------------------ MODULE MCDecode ------------------------------
(* Pipeline for TLC: what may be read from a root directory, and the cameras of a database. *)
EXTENDS Pipeline

MCModes == {"", "mode", "other"}

MCIds ==
  {Anonymous, [Anonymous EXCEPT !.software = TRUE], [Anonymous EXCEPT !.dngVersion = TRUE],
   [Anonymous EXCEPT !.make = "Leaf", !.iiq = TRUE], [Anonymous EXCEPT !.make = "Kodak", !.DCS520C = TRUE],
   [Anonymous EXCEPT !.make = "another"]}
  \cup {[Anonymous EXCEPT !.make = CHOOSE m \in MakesOf[d] : TRUE] : d \in DOMAIN MakesOf}

Row(y) == [y |-> y, colors |-> 2]

Bayer == [kind |-> "CFA", size |-> << 2, 2 >>, rows |-> {Row(0), Row(1)}]
Outside == [Bayer EXCEPT !.rows = {Row(2)}]
Sizeless == [Bayer EXCEPT !.size = << 0, 0 >>]
Crop(x) == [kind |-> "Crop", x |-> x, y |-> 0, given |-> TRUE]
Whole == [kind |-> "Crop", x |-> 0, y |-> 0, given |-> FALSE]
Sensor == [kind |-> "Sensor"]
Rotated == [kind |-> "Hints", names |-> {"fuji_rotate"}]
Aliases == [kind |-> "Aliases", models |-> << "M" >>]
Named == [kind |-> "ID"]

Element(model, mode, supported, children) ==
  [model |-> model, mode |-> mode, supported |-> supported, children |-> children]

Usual == << Named, Bayer, Crop(1), Sensor, Sensor >>

If(condition, children) == IF condition THEN children ELSE << >>

(* One camera, in any modes and of any support ... *)
OneCamera ==
  {SetToSeq({Element("M", m, s, Usual) : m \in modes}) :
     modes \in SUBSET MCModes, s \in {"yes", "no", "unknown", "no-samples", "unknown-no-samples", "perhaps"}}

(* ... with some of the children, in all of its modes but one ...                        *)
SomeChildren ==
  {<< Element("M", "", "yes", Usual) >> \o
     [i \in 1 .. 2 |-> Element("M", << "mode", "other" >>[i], "yes",
                                If(c, << Bayer >>) \o << crop >> \o If(s, << Sensor >>) \o If(r, << Rotated >>))] :
     c, s, r \in BOOLEAN, crop \in {Whole, Crop(0), Crop(1)}}
  \cup {[i \in 1 .. 3 |-> Element("M", << "", "mode", "other" >>[i], "yes",
                                If(c, << Bayer >>) \o << crop >> \o If(s, << Sensor >>) \o If(r, << Rotated >>))] :
     c, s, r \in BOOLEAN, crop \in {Whole, Crop(0), Crop(1)}}

(* ... or an alias of another, before or after it, or a second one of the same name.     *)
Others ==
  LET own == Element("M", "", "yes", << Bayer, Sensor >>)
      another == Element("N", "", "unknown", << Bayer, Crop(1), Aliases >>)
      again == Element("M", "", "no", << Aliases >>)
  IN  {<< own, another >>, << another, own >>, << own, again >>, << another, again >>, << another >>,
       << Element("M", "", "yes", << Sizeless, Sensor >>) >>, << Element("M", "", "yes", << Bayer, Sizeless >>) >>,
       << Element("M", "", "yes", << Outside >>) >>}

SomeDocuments == OneCamera \cup SomeChildren \cup Others
=============================================================================
