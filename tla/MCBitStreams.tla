---------------------------- MODULE MCBitStreams ----------------------------
(* Messages of three fields, or symbols, of all kinds of lengths; the tables of all codes
   of up to MaxNumCodeValues symbols are looked at.                                *)
EXTENDS BitStreams

Code(lens, values, full, bug16) ==
  HuffmanCode(lens, Take(values, Total(lens)), full, bug16)

Tables == {lens \in [Lengths -> 0 .. MaxNumCodeValues] : Total(lens) \in 1 .. MaxNumCodeValues}

Up == <<0, 1, 2, 3>>
Down == <<4, 3, 2, 1>>
Uses == {<<FALSE, FALSE>>, <<TRUE, FALSE>>, <<TRUE, TRUE>>}
AllCodes == {Code(lens, v, u[1], u[2]) : lens \in Tables, v \in {Up, Down}, u \in Uses}

(* Codes longer than the table of PrefixCodeLUTDecoder is deep, and differences of the
   largest length.                                                                *)
MessageCodes ==
  {Code(<<1, 1, 1, 1>>, Up, TRUE, FALSE), Code(<<0, 1, 1, 2>>, Down, TRUE, TRUE),
   Code(<<0, 3, 0, 1>>, Down, TRUE, FALSE), Code(<<0, 0, 3, 1>>, Up, FALSE, FALSE)}

Fields == {<<1>>, <<0, 1>>, <<1, 0, 0, 1, 1>>, Zeros(7), <<1, 1, 1, 1, 1, 1, 1, 1>>}
Values == {-8, -7, 0, 1, 3, 6}

Three(S) == {<<a, b, c>> : a \in S, b \in S, c \in S}

SomeFields == {[code |-> NoCode, values |-> s] : s \in Three(Fields)}
SomeSymbols ==
  {[code |-> c, values |-> << >>] : c \in AllCodes} \cup
  UNION {{[code |-> c, values |-> s] : s \in Three(Values \cap Encodable(c))} :
           c \in MessageCodes}

(* Nothing, a marker, and a marker in whose segment there is another.               *)
SomeTrailers == {<< >>, <<3, 2, 0, 0, 0, 0, 0, 0>>, <<3, 1, 1, 3, 2, 0, 0, 0>>}
=============================================================================
