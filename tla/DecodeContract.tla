--------------------------- MODULE DecodeContract ---------------------------
(* What a slice-parallel decompressor promises its caller (RawDecoder::decodeRaw):
   decompress() either returns, and then every slice of the image was decoded, or it
   throws, and then the message it carries is the message of something that really
   went wrong.  Nothing is said of threads, of locks or of the error log.       *)
CONSTANTS Slice, Unsupported

VARIABLES bad,        \* the slices whose bytes cannot be decoded
          supported,  \* is the compression one this build can decode?
          decoded,    \* the slices whose pixels are in the image
          outcome,    \* "running", then "ok" (returned) or "threw"
          firstErr    \* what the exception is about

vars == <<bad, supported, decoded, outcome, firstErr>>

Causes == bad \cup (IF supported THEN {} ELSE {Unsupported})

Init == /\ bad \in SUBSET Slice
        /\ supported \in BOOLEAN
        /\ decoded = {}
        /\ outcome = "running"
        /\ firstErr = {}

DecodeSlice(s) == /\ outcome = "running"
                  /\ supported
                  /\ s \notin bad
                  /\ decoded' = decoded \cup {s}
                  /\ UNCHANGED <<bad, supported, outcome, firstErr>>

Return == /\ outcome = "running"
          /\ decoded = Slice
          /\ Causes = {}
          /\ outcome' = "ok"
          /\ UNCHANGED <<bad, supported, decoded, firstErr>>

Throw == /\ outcome = "running"
         /\ \E c \in Causes : firstErr' = {c}
         /\ outcome' = "threw"
         /\ UNCHANGED <<bad, supported, decoded>>

Next == Return \/ Throw \/ \E s \in Slice : DecodeSlice(s)

Spec == Init /\ [][Next]_vars
=============================================================================
