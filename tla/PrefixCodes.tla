----------------------------- MODULE PrefixCodes -----------------------------
(* Prefix codes: how HuffmanCode makes one of the table of a JPEG, what PrefixCode demands
   of it, and the decoders, which must agree on what a run of bits says.

   A code is a record: lens (number of codes of each length), first (the first code of each
   length), before (the number of shorter codes), symbols and values (of the codes in
   their order), full (the values are lengths of differences to be read), bug16 (a
   difference of the largest length is followed by as many bits).

   Bits are sequences of 0 and 1, the first one first.  Widths are parameters: in the
   library MaxCodeLength and MaxDiffLength are 16, LookupDepth is 11.               *)
EXTENDS Integers, Sequences, FiniteSets, SequencesExt, Functions

CONSTANTS MaxCodeLength, MaxDiffLength, LookupDepth, MaxNumCodeValues

ASSUME PrefixCodesAssumption ==
  /\ {MaxCodeLength, MaxDiffLength, LookupDepth, MaxNumCodeValues} \subseteq Nat \ {0}
  /\ LookupDepth < MaxCodeLength

Lengths == 1 .. MaxCodeLength

(* Powers of two, as a function: what a value of n bits is less than.               *)
TwoTo[n \in Nat] == IF n = 0 THEN 1 ELSE 2 * TwoTo[n - 1]

(* The n bits of a value, and the value of bits, the first one the highest.          *)
ToBits(v, n) == [i \in 1 .. n |-> (v \div TwoTo[n - i]) % 2]

FromBits(bits) ==
  LET value[i \in 0 .. Len(bits)] == IF i = 0 THEN 0 ELSE 2 * value[i - 1] + bits[i]
  IN  value[Len(bits)]
-----------------------------------------------------------------------------
(* How many codes there are of up to l bits, and in all.                             *)
NumUpTo(lens) ==
  LET num[l \in 0 .. MaxCodeLength] == IF l = 0 THEN 0 ELSE num[l - 1] + lens[l]
  IN  num

Total(lens) == NumUpTo(lens)[MaxCodeLength]
LongestCode(lens) == CHOOSE l \in Lengths : lens[l] > 0 /\ \A k \in l + 1 .. MaxCodeLength : lens[k] = 0

(* HuffmanCode::setNCodesPerLength(): how many codes of length l there is room for,
   given the leaves above.                                                        *)
Room(lens) ==
  LET room[l \in Lengths] == IF l = 1 THEN 2 ELSE 2 * (room[l - 1] - lens[l - 1])
  IN  room

Accepted(lens) ==
  /\ Total(lens) \in 1 .. MaxNumCodeValues
  /\ \A l \in Lengths : lens[l] <= Room(lens)[l]

(* HuffmanCode::generateCodeSymbols(): codes of a length count up; the next length goes
   on with twice the number.                                                      *)
FirstCode(lens) ==
  LET first[l \in Lengths] == IF l = 1 THEN 0 ELSE 2 * (first[l - 1] + lens[l - 1])
  IN  first

Symbols(lens, first) ==
  FlattenSeq([l \in Lengths |-> [i \in 1 .. lens[l] |-> [code |-> first[l] + i - 1, len |-> l]]])

HuffmanCode(lens, values, full, bug16) ==
  [lens |-> lens, first |-> FirstCode(lens), symbols |-> Symbols(lens, FirstCode(lens)),
   before |-> [l \in Lengths |-> NumUpTo(lens)[l - 1]],
   values |-> values, full |-> full, bug16 |-> bug16]

BitsOf(symbol) == ToBits(symbol.code, symbol.len)

(* PrefixCode::verifyCodeSymbols(), and the assertion of CodeSymbol's constructor.   *)
Verified(symbols) ==
  /\ \A i \in 1 .. Len(symbols) : symbols[i].code < TwoTo[symbols[i].len]
  /\ \A i \in 2 .. Len(symbols) : symbols[i - 1].len <= symbols[i].len
  /\ \A s \in 2 .. Len(symbols) : \A p \in 1 .. s - 1 :
       ~IsPrefix(BitsOf(symbols[p]), BitsOf(symbols[s]))
-----------------------------------------------------------------------------
(* A symbol found in a run of bits: its value and the bits it takes; none: a corrupt
   code.  Each reader goes on from a partial symbol of `from` bits.                 *)
Found(value, used) == [value |-> value, used |-> used]
Bad == Found(0, 0)

(* PrefixCodeVectorDecoder: one more bit, then all codes of that length.            *)
VectorRead(code, bits, from) ==
  LET Hits(l) == {id \in code.before[l] + 1 .. code.before[l] + code.lens[l] :
                    BitsOf(code.symbols[id]) = SubSeq(bits, 1, l)}
      hits == {l \in from + 1 .. LongestCode(code.lens) : Hits(l) # {}}
  IN  IF hits = {} THEN Bad
      ELSE LET l == CHOOSE l \in hits : \A k \in hits : l <= k
           IN  Found(code.values[CHOOSE id \in Hits(l) : TRUE], l)

(* PrefixCodeLookupDecoder: for each length its largest code, and what to take off a
   code to get its number.  It goes on while there is no code of the length, or the
   partial one is larger than all of them.                                        *)
LargestCode(code, l) == code.first[l] + code.lens[l] - 1

CodeOffset(code, l) == code.first[l] - code.before[l]

LookupRead(code, bits, from) ==
  LET longest == LongestCode(code.lens)
      Partial(l) == FromBits(SubSeq(bits, 1, l))
      Goes(l) == l < longest /\ (l = 0 \/ code.lens[l] = 0 \/ Partial(l) > LargestCode(code, l))
      l == CHOOSE l \in from .. MaxCodeLength : ~Goes(l) /\ \A k \in from .. l - 1 : Goes(k)
  IN  IF l > longest \/ Partial(l) > LargestCode(code, l)
        THEN Bad
        ELSE Found(code.values[1 + Partial(l) - CodeOffset(code, l)], l)

(* PrefixCodeTreeDecoder: down BinaryPrefixTree, whose leaves are the codes and whose
   branches are their prefixes.                                                   *)
TreeRead(code, bits) ==
  LET symbols == code.symbols
      Leaves(l) == {id \in 1 .. Len(symbols) : BitsOf(symbols[id]) = SubSeq(bits, 1, l)}
      IsBranch(l) == \E id \in 1 .. Len(symbols) :
                       l < symbols[id].len /\ IsPrefix(SubSeq(bits, 1, l), BitsOf(symbols[id]))
      hits == {l \in Lengths : Leaves(l) # {} /\ \A k \in 1 .. l - 1 : IsBranch(k)}
  IN  IF hits = {} THEN Bad
      ELSE LET l == CHOOSE l \in hits : TRUE
           IN  Found(code.values[CHOOSE id \in Leaves(l) : TRUE], l)
-----------------------------------------------------------------------------
(* AbstractPrefixCodeDecoder: the difference that follows a symbol.                 *)
Extend(diff, n) == IF diff < TwoTo[n - 1] THEN diff - (TwoTo[n] - 1) ELSE diff

Smallest == -TwoTo[MaxDiffLength - 1]

ProcessSymbol(code, bits, symbol) ==
  LET n == symbol.value
      diff == FromBits(SubSeq(bits, symbol.used + 1, symbol.used + n))
  IN  IF symbol = Bad \/ ~code.full THEN symbol
      ELSE IF n = MaxDiffLength
        THEN Found(Smallest, symbol.used + IF code.bug16 THEN MaxDiffLength ELSE 0)
      ELSE Found(IF n = 0 THEN 0 ELSE Extend(diff, n), symbol.used + n)

(* PrefixCodeLUTDecoder: what its table says of the first LookupDepth bits: the answer
   and the bits it takes (`flag`), or the symbol, or nothing (`used` is 0).  DiffBits are
   the bits of a difference of length n that are in the stream.                    *)
AllDiffBits(code, n) == n   \* (mutant) of DiffBits: as if every writer had the bug
DiffBits(code, n) == IF n # MaxDiffLength \/ code.bug16 THEN n ELSE 0

Entry(flag, symbol) == [flag |-> flag, value |-> symbol.value, used |-> symbol.used]

LUTEntry(code, index) ==
  LET symbols == code.symbols
      hits == {i \in 1 .. Len(symbols) :
                 symbols[i].len <= LookupDepth /\ IsPrefix(BitsOf(symbols[i]), index)}
      i == CHOOSE i \in hits : TRUE
      len == symbols[i].len
      n == code.values[i]
      diff == FromBits(SubSeq(index, len + 1, len + n))
  IN  IF hits = {} THEN Entry(FALSE, Bad)
      ELSE IF ~code.full \/ (len + n > LookupDepth /\ n # MaxDiffLength)
        THEN Entry(~code.full, Found(n, len))
      ELSE Entry(TRUE, Found(IF n = 0 THEN 0 ELSE IF n = MaxDiffLength THEN Smallest ELSE Extend(diff, n),
                             len + DiffBits(code, n)))

(* `rest` is what the decoder behind the table goes on to.                           *)
LUTDecode(code, bits, rest) ==
  LET entry == LUTEntry(code, SubSeq(bits, 1, LookupDepth))
      symbol == Found(entry.value, entry.used)
  IN  IF entry.flag THEN symbol
      ELSE IF symbol # Bad THEN ProcessSymbol(code, bits, symbol)
      ELSE ProcessSymbol(code, bits, rest)

(* What the decoder of the library, PrefixCodeLUTDecoder over PrefixCodeLookupDecoder,
   makes of the bits ahead, and the other decoders.                                *)
Decode(code, bits) == LUTDecode(code, bits, LookupRead(code, bits, LookupDepth))

OtherDecoders(code, bits) ==
  {LUTDecode(code, bits, VectorRead(code, bits, LookupDepth)),
   ProcessSymbol(code, bits, VectorRead(code, bits, 0)),
   ProcessSymbol(code, bits, LookupRead(code, bits, 0)),
   ProcessSymbol(code, bits, TreeRead(code, bits))}
-----------------------------------------------------------------------------
(* PanasonicV8Decompressor has a table of its own, of the codes as the file lists them.  They
   need not be a prefix code: the first that matches is taken.  The number of a code is
   the length of its difference; for what no code matches the table has an entry that no
   code may have.                                                                  *)
Sentinel == [len |-> 7, value |-> 0]

V8Symbol(symbols, i) == [len |-> symbols[i].len, value |-> i - 1]

V8TableAccepted(symbols) ==
  /\ Len(symbols) \in 1 .. MaxDiffLength + 1
  /\ \A i \in 1 .. Len(symbols) :
       symbols[i].len \in Lengths /\ symbols[i].code < TwoTo[symbols[i].len] /\ V8Symbol(symbols, i) # Sentinel

V8Entry(symbols, index) ==
  LET hits == {i \in 1 .. Len(symbols) : IsPrefix(BitsOf(symbols[i]), index)}
  IN  IF hits = {} THEN Sentinel ELSE V8Symbol(symbols, CHOOSE i \in hits : \A k \in hits : i <= k)

V8Decode(symbols, bits) ==
  LET entry == V8Entry(symbols, SubSeq(bits, 1, MaxCodeLength))
      n == entry.value
      diff == FromBits(SubSeq(bits, entry.len + 1, entry.len + n))
  IN  IF entry = Sentinel THEN Bad ELSE Found(IF n = 0 THEN 0 ELSE Extend(diff, n), entry.len + n)

(* A difference of the largest length is read like the others, from the bits after it. *)
IsV8(code) ==
  /\ code.full /\ code.values = [i \in 1 .. Len(code.values) |-> i - 1]
  /\ V8TableAccepted(code.symbols)
  /\ MaxDiffLength \in Range(code.values) => code.bug16

V8Decoders(code, bits) ==
  IF IsV8(code) /\ MaxDiffLength \notin Range(code.values) THEN {V8Decode(code.symbols, bits)} ELSE {}
-----------------------------------------------------------------------------
(* AbstractPrefixCodeEncoder::reduce(): the bits of a difference.                   *)
ActiveBits(n) == CHOOSE k \in 0 .. MaxDiffLength : n < TwoTo[k] /\ (k = 0 \/ n >= TwoTo[k - 1])

Reduce(diff) ==
  IF diff >= 0 THEN ToBits(diff, ActiveBits(diff))
  ELSE LET n == ActiveBits(-diff) IN ToBits(diff + TwoTo[n] - 1, n)

IdOf(code, value) == CHOOSE i \in 1 .. Len(code.values) :
                       code.values[i] = value /\ \A k \in 1 .. i - 1 : code.values[k] # value

(* PrefixCodeVectorEncoder: what is put to encode a value.                          *)
Encode(code, value) ==
  LET Put(v) == BitsOf(code.symbols[IdOf(code, v)])
      diff == Reduce(value)
  IN  IF ~code.full THEN << Put(value) >>
      ELSE IF Len(diff) # MaxDiffLength \/ code.bug16 THEN << Put(Len(diff)), diff >>
      ELSE << Put(Len(diff)) >>

Encodable(code) ==
  IF ~code.full THEN Range(code.values)
  ELSE {v \in Smallest .. -Smallest - 1 : Len(Reduce(v)) \in Range(code.values)}
=============================================================================
