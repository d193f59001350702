----------------------------- MODULE BitStreams -----------------------------
(* Bit streams: a message of values is put into a BitVacuumer, the bytes it makes are
   cut, or followed by something else, and a BitStreamer reads the values back.

   A byte has ByteBits bits; four bytes are a chunk, as many bits as can be asked for at
   once (MaxGetBits), and the cache holds two chunks.  A cache is the sequence of the
   bits in it, the next one to leave first: BitStreamCacheLeftInRightOut and
   BitStreamCacheRightInLeftOut both are such queues, and differ in which end of a value
   goes first.                                                                     *)
EXTENDS PrefixCodes

CONSTANTS ByteBits,     \* 8 in the library
          FieldMessages,    \* [code: NoCode, values: bit sequences, got by getBits()]
          SymbolMessages,   \* [code: a code, values: what it encodes]: a table is looked at
                            \* when it comes, whatever values are encoded with it
          NoCode,
          Trailers,     \* byte sequences that may follow the data of a JPEG scan
          Unknown,      \* endOfStreamPos before a marker was found, and
          Overwritten   \* after a second one (PosOrUnknown asserts that there is none)

VARIABLES order, message, todo, writer, status, input, held, reader

vars == << order, message, todo, writer, status, input, held, reader >>

Orders == {"LSB", "MSB", "MSB16", "MSB32", "JPEG", "RevMSB"}   \* the last is PanasonicV8Decompressor's
WithCodes == {"MSB", "MSB32", "JPEG", "RevMSB"}      \* canUseWithPrefixCodeDecoder
MaxGetBits == 4 * ByteBits
CacheSize == 2 * MaxGetBits
Byte == 0 .. TwoTo[ByteBits] - 1
FF == TwoTo[ByteBits] - 1

MaxProcessBytes(o) == IF o = "JPEG" THEN 8 ELSE 4
MinLoadStep(o) == CASE o = "MSB16" -> 2 [] o = "MSB32" -> 4 [] OTHER -> 1

ASSUME BitStreamsAssumption ==
  /\ ByteBits \in Nat \ {0}
  /\ MaxCodeLength + MaxDiffLength <= MaxGetBits
  /\ Unknown \notin Nat /\ Overwritten \notin Nat /\ Unknown # Overwritten

(* A field is of at most MaxGetBits, and a code as HuffmanCode makes it, with values that it
   has codes for; those of a full one are lengths of differences.  What follows the data
   of a JPEG scan begins with a marker.                                             *)
BitStrings == UNION {[1 .. n -> {0, 1}] : n \in 0 .. MaxGetBits}

ASSUME MessagesAssumption ==
  /\ \A m \in FieldMessages :
       m = [code |-> NoCode, values |-> m.values] /\ m.values \in Seq(BitStrings)
  /\ \A m \in SymbolMessages :
       /\ m = [code |-> m.code, values |-> m.values] /\ m.code # NoCode
       /\ m.code = HuffmanCode(m.code.lens, m.code.values, m.code.full, m.code.bug16)
       /\ m.code.lens \in [Lengths -> Nat] /\ m.code.full \in BOOLEAN
       /\ m.code.values \in Seq(IF m.code.full THEN 0 .. MaxDiffLength ELSE Nat)
       /\ Len(m.code.values) = Total(m.code.lens)
       /\ m.values \in Seq(Encodable(m.code))

ASSUME TrailersAssumption ==
  \A t \in Trailers : t \in Seq(Byte) /\ (t # << >> => Len(t) > 1 /\ t[1] = FF /\ t[2] # 0)
-----------------------------------------------------------------------------
Min2(a, b) == IF a <= b THEN a ELSE b
Take(s, n) == SubSeq(s, 1, n)
Drop(s, n) == SubSeq(s, n + 1, Len(s))
Zeros(n) == [i \in 1 .. n |-> 0]
Flat(seqs) == FlattenSeq(seqs)

(* The bits of a value in the order in which they enter the cache.                  *)
Ordered(o, bits) == IF o = "LSB" THEN Reverse(bits) ELSE bits

(* ChunkType and ChunkEndianness: the order in which the bytes of a chunk are gone
   through, the same when they are written and read.                              *)
Chunk(o, bytes) ==
  CASE o = "MSB32" -> Reverse(bytes)
    [] o = "MSB16" -> [i \in 1 .. 4 |-> bytes[IF i % 2 = 1 THEN i + 1 ELSE i - 1]]
    [] OTHER -> bytes

ByteOf(o, bits) == FromBits(Ordered(o, bits))
Reversed(byte) == FromBits(Reverse(ToBits(byte, ByteBits)))
BitsOfByte(o, byte) == Ordered(o, ToBits(byte, ByteBits))
-----------------------------------------------------------------------------
(* What is put for the values of a message.                                         *)
Puts(o, msg) ==
  IF msg.code = NoCode THEN [i \in DOMAIN msg.values |-> Ordered(o, msg.values[i])]
  ELSE Flat([i \in DOMAIN msg.values |-> Encode(msg.code, msg.values[i])])

Unstuffed(byte) == << byte >>   \* (mutant) the stuffing byte is forgotten
Stuff(byte) == IF byte = FF THEN << FF, 0 >> ELSE << byte >>

(* BitVacuumer::drain() and the drainImpl() of the orders.  There is none for RevMSB: it is
   what a camera writes, MSB with the bits of each byte turned round.              *)
Drained(o, w) ==
  LET bytes == [i \in 1 .. 4 |-> ByteOf(o, SubSeq(w.cache, (i - 1) * ByteBits + 1, i * ByteBits))]
  IN  IF Len(w.cache) < MaxGetBits THEN w
      ELSE [cache |-> Drop(w.cache, MaxGetBits),
            out |-> w.out \o IF o = "JPEG" THEN Flat([i \in 1 .. 4 |-> Stuff(bytes[i])])
                   ELSE IF o = "RevMSB" THEN [i \in 1 .. 4 |-> Reversed(bytes[i])]
                   ELSE Chunk(o, bytes)]

PutsAtOnce(o, w, bits) == [w EXCEPT !.cache = @ \o bits]   \* (mutant) the cache is not drained first
PutBits(o, w, bits) == [Drained(o, w) EXCEPT !.cache = @ \o bits]

(* BitVacuumer::flush(): zeros up to a whole chunk.                                 *)
Flushed(o, w) ==
  LET d == Drained(o, w)
  IN  IF d.cache = << >> THEN d
      ELSE Drained(o, PutBits(o, d, Zeros(MaxGetBits - Len(d.cache))))
-----------------------------------------------------------------------------
(* BitStreamerReplenisher::getInput(): zeros past the end, but not for ever.        *)
LoadsInside(o, in, pos) == pos + MaxProcessBytes(o) <= Len(in)
NoOverRead(o, in, pos) == LoadsInside(o, in, pos)   \* (mutant) of MayLoad
MayLoad(o, in, pos) == pos <= Len(in) + 2 * MaxProcessBytes(o)

Padded(o, in, pos) ==
  Take(Drop(in, Min2(pos, Len(in))) \o Zeros(MaxProcessBytes(o)), MaxProcessBytes(o))

(* BitStreamerReversedSequentialReplenisher turns the bits of the bytes round, but for the
   last load, which is not whole.                                                  *)
Loaded(o, in, pos) ==
  LET bytes == Padded(o, in, pos)
  IN  IF o = "RevMSB" /\ LoadsInside(o, in, pos) THEN [i \in DOMAIN bytes |-> Reversed(bytes[i])] ELSE bytes

(* Where a marker found p bytes into a load is, and how far the input has been consumed
   then, if the load has found `data` bytes before it.                             *)
WindowsPlace(r, p) == r.pos   \* (mutant)
MarkerPlace(r, p) == r.pos + p

AllConsumed(in, r, p, data) == r.pos + (Len(in) - r.pos) + (4 - data)

(* Where the four data bytes of a load begin, past their stuffing, and what comes then. *)
After(bytes, at) == at + IF bytes[at] = FF THEN 2 ELSE 1

Starts(bytes) ==
  << 1, After(bytes, 1), After(bytes, After(bytes, 1)), After(bytes, After(bytes, After(bytes, 1))),
     After(bytes, After(bytes, After(bytes, After(bytes, 1)))) >>

(* BitStreamerJPEG::fillCache(): four data bytes; at a marker the rest of the cache is
   zeros and all of the input has been consumed.  The data ends before the first marker. *)
JpegFilled(in, r) ==
  LET bytes == Padded("JPEG", in, r.pos)
      start == Starts(bytes)
      IsMarker(i) == bytes[start[i]] = FF /\ bytes[start[i] + 1] # 0
      markers == {i \in 1 .. 4 : IsMarker(i) /\ \A k \in 1 .. i - 1 : ~IsMarker(k)}
      data == IF markers = {} THEN 4 ELSE (CHOOSE i \in markers : TRUE) - 1
      bits == Flat([i \in 1 .. data |-> BitsOfByte("JPEG", bytes[start[i]])])
      p == start[data + 1] - 1
  IN  IF markers = {} THEN [r EXCEPT !.cache = @ \o bits, !.pos = @ + p]
      ELSE [r EXCEPT !.cache = @ \o bits \o Zeros(CacheSize - Len(r.cache) - Len(bits)),
                     !.pos = AllConsumed(in, r, p, data),
                     !.endPos = IF @ = Unknown THEN MarkerPlace(r, p) ELSE Overwritten]

Filled(o, in, r) ==
  LET bytes == Chunk(o, Loaded(o, in, r.pos))
  IN  IF o = "JPEG" THEN JpegFilled(in, r)
      ELSE [r EXCEPT !.cache = @ \o Flat([i \in 1 .. 4 |-> BitsOfByte(o, bytes[i])]),
                     !.pos = @ + 4]

(* BitStreamer::fill(n): one load if fewer than n bits are there.  A load that is not
   allowed throws, and all that follows is not done.                              *)
Fill(o, in, r, n) ==
  IF r.threw \/ Len(r.cache) >= n THEN r
  ELSE IF ~MayLoad(o, in, r.pos) THEN [r EXCEPT !.threw = TRUE]
  ELSE Filled(o, in, r)

SkipNoFill(r, n) == IF r.threw THEN r ELSE [r EXCEPT !.cache = Drop(@, n), !.used = @ + n]

(* skipManyBits(): whole MaxGetBits, then the rest.                                 *)
SkipManyBits(o, in, r, n) ==
  LET whole == n \div MaxGetBits
      rest == n % MaxGetBits
      after[i \in 0 .. whole] ==
        IF i = 0 THEN r
        ELSE LET s == after[i - 1] IN SkipNoFill(Fill(o, in, s, MaxGetBits), MaxGetBits)
      s == after[whole]
  IN  IF rest = 0 THEN s ELSE SkipNoFill(Fill(o, in, s, rest), rest)

(* reload(): back to the byte (a multiple of MinLoadStep) the next bit is in, by
   getAsByteStreamPosition(), and the bits of it that were taken are skipped.      *)
StepBits(o) == ByteBits * MinLoadStep(o)
BytesBack(o, level) == MinLoadStep(o) * ((level + StepBits(o) - 1) \div StepBits(o))

Reloaded(o, in, r) ==
  LET back == BytesBack(o, Len(r.cache))
      fresh == [r EXCEPT !.cache = << >>, !.pos = @ - back]
      f == Fill(o, in, fresh, MaxGetBits)
  IN  [f EXCEPT !.cache = Drop(@, back * ByteBits - Len(r.cache))]

(* getStreamPosition() of the JPEG reader.                                          *)
StreamPosition(r) == IF r.endPos # Unknown THEN r.endPos ELSE r.pos
-----------------------------------------------------------------------------
NewReader == [cache |-> << >>, pos |-> 0, endPos |-> Unknown, used |-> 0, got |-> << >>,
              threw |-> FALSE]

Init ==
  /\ order \in Orders
  /\ message \in FieldMessages \/ (order \in WithCodes /\ message \in SymbolMessages)
  /\ message.code # NoCode => Accepted(message.code.lens) /\ (order = "RevMSB" => IsV8(message.code))
  /\ todo = Puts(order, message)
  /\ writer = [cache |-> << >>, out |-> << >>]
  /\ status = "writing" /\ input = << >>
  /\ held = [values |-> 0, bits |-> 0, marker |-> Unknown]
  /\ reader = NewReader

Put ==
  /\ status = "writing" /\ todo # << >>
  /\ writer' = PutBits(order, writer, Head(todo))
  /\ todo' = Tail(todo)
  /\ UNCHANGED << order, message, status, input, held, reader >>

Flush ==
  /\ status = "writing" /\ todo = << >>
  /\ writer' = Flushed(order, writer)
  /\ status' = "written"
  /\ UNCHANGED << order, message, todo, input, held, reader >>

(* The bytes as a file has them.  Padding bytes may not be there (other writers pad to
   a byte only), a JPEG scan is followed by a marker, or the end is missing.  `held` is
   what is left of the message: the values and bits of it, and where the marker is; what
   the reader of RevMSB does not turn round it cannot read.                        *)
DataBytes(bytes) ==
  IF order = "JPEG" THEN Len(bytes) - Cardinality({i \in 2 .. Len(bytes) :
                                                     bytes[i] = 0 /\ bytes[i - 1] = FF})
  ELSE LET step == IF order = "RevMSB" THEN MaxProcessBytes(order) ELSE MinLoadStep(order)
       IN  step * (Len(bytes) \div step)

(* Where the values of the message end, in bits.                                      *)
Ends == LET PutsOf(i) == Puts(order, [message EXCEPT !.values = << @[i] >>])
            ends[i \in 0 .. Len(message.values)] ==
              IF i = 0 THEN 0 ELSE ends[i - 1] + Len(Flat(PutsOf(i)))
        IN  ends

Deliver ==
  /\ status = "written"
  /\ \E n \in 0 .. Len(writer.out), t \in Trailers :
       LET kept == Take(writer.out, n)
           ends == Ends
           bits == ends[Len(message.values)]
           there == DataBytes(kept) * ByteBits
           inStuffing == n \in 1 .. Len(writer.out) - 1 /\ writer.out[n] = FF
       IN  /\ t # << >> => order = "JPEG" /\ there >= bits /\ ~inStuffing
           /\ input' = kept \o t
           /\ held' = [bits |-> Min2(bits, there),
                       values |-> Cardinality({i \in DOMAIN message.values : ends[i] <= there}),
                       marker |-> IF t # << >> /\ there - ByteBits < bits THEN n ELSE Unknown]
           /\ status' = IF Len(input') < MaxProcessBytes(order) THEN "rejected" ELSE "reading"
  /\ UNCHANGED << order, message, todo, writer, reader >>

(* A value is read: a field by getBits(), a symbol by the decoder, after it has filled
   the cache.  Past the last value a reader that was not told so reads on.          *)
Next1(r) == Len(r.got) + 1

ReadField(n) ==
  LET f == Fill(order, input, reader, n)
  IN  reader' = IF f.threw THEN f
                ELSE [SkipNoFill(f, n) EXCEPT !.got = Append(@, Ordered(order, Take(f.cache, n)))]

ReadSymbol ==
  LET f == Fill(order, input, reader, MaxGetBits)
      bits == Take(f.cache, MaxGetBits)
      symbol == IF order = "RevMSB" THEN V8Decode(message.code.symbols, bits) ELSE Decode(message.code, bits)
  IN  reader' = IF f.threw \/ symbol = Bad THEN [f EXCEPT !.threw = TRUE]
                ELSE [SkipNoFill(f, symbol.used) EXCEPT !.got = Append(@, symbol.value)]

Read ==
  /\ status = "reading" /\ ~reader.threw
  /\ IF Next1(reader) > Len(message.values) THEN ReadField(MaxGetBits)
     ELSE IF message.code = NoCode THEN ReadField(Len(message.values[Next1(reader)]))
     ELSE ReadSymbol
  /\ UNCHANGED << order, message, todo, writer, status, input, held >>

SkipMany ==
  /\ status = "reading" /\ ~reader.threw /\ message.code = NoCode
  /\ \E k \in Next1(reader) + 1 .. Len(message.values) :
       LET skipped == SubSeq(message.values, Next1(reader), k)
           s == SkipManyBits(order, input, reader, Len(Flat(skipped)))
       IN  reader' = [s EXCEPT !.got = @ \o skipped]
  /\ UNCHANGED << order, message, todo, writer, status, input, held >>

Reload ==
  /\ status = "reading" /\ ~reader.threw /\ order \notin {"JPEG", "RevMSB"}
  /\ reader' = Reloaded(order, input, reader)
  /\ UNCHANGED << order, message, todo, writer, status, input, held >>

Done ==
  /\ status = "rejected" \/ reader.threw
  /\ UNCHANGED vars

Next == Put \/ Flush \/ Deliver \/ Read \/ SkipMany \/ Reload \/ Done

Spec == Init /\ [][Next]_vars
-----------------------------------------------------------------------------
(* The caches hold bits and never more than their Size, at whatever fill level a load or
   a put came (BitStreamCache's invariants).                                       *)
TypeOK ==
  /\ order \in Orders /\ status \in {"writing", "written", "rejected", "reading"}
  /\ \A cache \in {writer.cache, reader.cache} :
       Len(cache) <= CacheSize /\ Range(cache) \subseteq {0, 1}
  /\ Range(writer.out) \subseteq Byte /\ Range(input) \subseteq Byte
  /\ held.values \in Nat /\ reader.pos \in Nat /\ reader.threw \in BOOLEAN

(* A table of a JPEG that HuffmanCode accepts makes a prefix code, as PrefixCode asserts: no
   code is the beginning of another.  And all prefix code decoders of the library say the
   same of every run of bits: value, bits consumed, or that there is no such code.  *)
Windows == {ToBits(v, MaxGetBits) : v \in 0 .. TwoTo[MaxGetBits] - 1}

DecodersAgree ==
  message.code # NoCode =>
    /\ Verified(message.code.symbols)
    /\ message.values = << >> /\ status = "written" =>
         \A bits \in Windows : OtherDecoders(message.code, bits) \cup V8Decoders(message.code, bits) =
                                  {Decode(message.code, bits)}

(* What was put is what is read, as far as the input has the bits of it: in every order
   of bits and bytes, however the loads fall on the values, across stuffing bytes, and
   when the reader is reloaded or skips in between.  In the order of PanasonicV8 that is so
   only as far as the input has whole loads.                                       *)
RoundTrip ==
  \A i \in 1 .. Min2(Len(reader.got), held.values) : reader.got[i] = message.values[i]

(* A marker is found once, and what lies behind it is never loaded.  When the values of a
   scan were read, the reader's place is that of the marker after it, whether or not a
   load has come across it (LJpegDecompressor returns it, and the next marker is looked
   for there).                                                                     *)
MarkerFound ==
  /\ reader.endPos # Overwritten
  /\ held.marker # Unknown /\ Len(reader.got) >= Len(message.values) /\ ~reader.threw
       => StreamPosition(reader) = held.marker

(* The reader gives up when it runs over the end, not before every bit that the input has
   was read, and does so whatever it is asked for: no more comes out of it than the input
   has, three more loads, and a cache of zeros after a marker.                      *)
GivesUp ==
  /\ reader.threw /\ message.code = NoCode => reader.used >= held.bits
  /\ reader.used <= (Len(input) + 3 * MaxProcessBytes(order)) * ByteBits + CacheSize
=============================================================================
