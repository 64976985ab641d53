--------------------------------- MODULE Codecs ---------------------------------
(***************************************************************************)
(* The codecs: server-sent events (presentation/codecs/sse_stream_codec.py),*)
(* the frames of a WebSocket (transport/_ws_framing.py), and a message that *)
(* is serialized and compressed (json_serializer.py, compression.py).       *)
(* Bytes arrive in pieces of any size and may stop anywhere.  Text is a     *)
(* sequence of tokens: the field's name, the newline, and halves of words;  *)
(* a byte that is masked is the set of its bits.                            *)
(***************************************************************************)
EXTENDS Naturals, Sequences, SequencesExt, FiniteSets

CONSTANTS
  Bodies,     (* what json.dumps or a decoded byte string may write          *)
  MaxItems,   (* the most objects of a stream                                *)
  Lengths,    (* the lengths of a WebSocket payload                          *)
  Payloads,   (* payloads, as sequences of bytes                             *)
  MessageFields,  (* the fields of a message                                 *)
  Keys        (* masking keys, and the empty one                             *)

VARIABLES
  codec,      (* "sse", "header", "mask" or "message"                        *)
  sent,       (* the objects; the payload's length; the payload; the fields  *)
              (* of the model, <<>> for what is no model                     *)
  setting,    (* of the message or the mask: what each end was built with    *)
  wire,       (* what was written and has not arrived                        *)
  buffer,     (* what arrived and was not taken                              *)
  got,        (* what the decoder gave                                       *)
  ended       (* the stream is over                                          *)

cVars == <<codec, sent, setting, wire, buffer, got, ended>>

Raised == <<"PresentationError">>
NL == "newline"
Frame(body) == <<"data">> \o body \o <<NL, NL>>

(* encode_frame's header: the length in 7, 16 or 64 bits, in network order. *)
Shifted(length) == LET shift[k \in 0 .. 8] == IF k = 0 THEN length ELSE shift[k - 1] \div 256 IN shift
Header(length, mask) ==
  LET bit == IF mask THEN 128 ELSE 0
      bytes(n) == [i \in 1 .. n |-> Shifted(length)[n - i] % 256]
  IN <<130>> \o CASE length <= 125 -> <<bit + length>>
                  [] length > 125 /\ length <= 65535 -> <<bit + 126>> \o bytes(2)
                  [] OTHER -> <<bit + 127>> \o bytes(8)

(* XOR with the key, which repeats; a key of another length changes nothing. *)
Masked(payload, key) ==
  IF Len(key) # 4 THEN payload
  ELSE [i \in DOMAIN payload |-> LET k == key[((i - 1) % 4) + 1] IN (payload[i] \ k) \union (k \ payload[i])]

(* A field has a value, of which only the JSON form counts, or None.  Both  *)
(* ends of a message: the compression, the serializer's option exclude_none,*)
(* the fields that the sender's class or its option exclude_unset leaves    *)
(* out, and the target: whether it is a model, which fields it finds under  *)
(* the names that are written, and what it has when it does not.            *)
None == "None"
Values == {"one", "other", None}
Ends == [written : {"gzip", "zstd"}, read : {"gzip", "zstd"}, library : BOOLEAN, exclude_none : BOOLEAN,
         left : SUBSET MessageFields, model : BOOLEAN, knows : SUBSET MessageFields,
         defaults : [MessageFields -> Values \union {"required"}]]

(* What encode_stream writes for the first n objects. *)
Written(n) == FlattenSeq([i \in 1 .. n |-> Frame(sent[i])])

Init ==
  /\ \/ codec = "sse" /\ sent \in UNION {[1 .. n -> Bodies] : n \in 0 .. MaxItems}
        /\ setting = "none" /\ wire = Written(Len(sent))
     \/ codec = "header" /\ sent \in Lengths /\ setting \in BOOLEAN /\ wire = Header(sent, setting)
     \/ codec = "mask" /\ sent \in Payloads /\ setting \in Keys /\ wire = Masked(sent, setting)
     \/ codec = "message" /\ sent \in [MessageFields -> Values] \union {<<>>} /\ setting \in Ends /\ wire = <<>>
  /\ buffer = <<>> /\ got = <<>> /\ ended = FALSE
------------------------------------------------------------------------------
(* Faults: wrong versions of definitions below, which the runs swap in.     *)

(* the buffer starts anew with each chunk *)
LastChunk(old, chunk) == chunk
------------------------------------------------------------------------------
(* _parse_sse_frame: the values of the lines that begin with data:, or the  *)
(* whole text when there is none.                                           *)
First(S) == CHOOSE n \in S : \A m \in S : n <= m
Nth(S, n) == CHOOSE i \in S : Cardinality({j \in S : j <= i}) = n
Starts(text) == {i \in DOMAIN text : text[i] = "data" /\ (i = 1 \/ text[i - 1] = NL)}
Line(text, i) ==
  LET ends == {j \in i .. Len(text) : text[j] = NL}
  IN SubSeq(text, i, IF ends = {} THEN Len(text) ELSE First(ends) - 1)
ParseSseFrame(text) ==
  LET value(n) == Line(text, Nth(Starts(text), n) + 1)
      lines == Cardinality(Starts(text))
  IN IF lines = 0 THEN text ELSE value(1) \o FlattenSeq([n \in 1 .. lines - 1 |-> <<NL>> \o value(n + 1)])

Boundaries(text) == {i \in 1 .. Len(text) - 1 : text[i] = NL /\ text[i + 1] = NL}

(* parse_header, of whatever part of it is there.  The key of a mask is not *)
(* counted in its size.                                                     *)
Number(bytes) ==
  LET read[i \in 0 .. Len(bytes)] == IF i = 0 THEN 0 ELSE 256 * read[i - 1] + bytes[i] IN read[Len(bytes)]
ParseHeader(bytes) ==
  LET small == bytes[2] % 128
      size == CASE small = 126 -> 4 [] small = 127 -> 10 [] OTHER -> 2
  IN IF Len(bytes) < 2 \/ Len(bytes) < size THEN Raised
     ELSE <<"header", bytes[2] >= 128, size, IF size = 2 THEN small ELSE Number(SubSeq(bytes, 3, size))>>

(* decode_stream appends each chunk to its buffer, and takes off every      *)
(* frame that is complete before it reads another.  A header is parsed from *)
(* what has arrived of it, and a payload is unmasked when it is complete.   *)
Buffered(old, chunk) == old \o chunk
Receive ==
  /\ codec # "message" /\ ~ended /\ wire # <<>> /\ (codec = "sse" => Boundaries(buffer) = {})
  /\ \E n \in 1 .. Len(wire) :
       /\ buffer' = Buffered(buffer, SubSeq(wire, 1, n))
       /\ wire' = SubSeq(wire, n + 1, Len(wire))
  /\ got' = CASE codec = "sse" -> got
              [] codec = "header" -> ParseHeader(buffer')
              [] codec = "mask" -> IF wire' = <<>> THEN Masked(buffer', setting) ELSE got
  /\ UNCHANGED <<codec, sent, setting, ended>>

TakeFrame ==
  /\ codec = "sse" /\ ~ended /\ Boundaries(buffer) # {}
  /\ LET i == First(Boundaries(buffer))
     IN got' = Append(got, ParseSseFrame(SubSeq(buffer, 1, i - 1))) /\ buffer' = SubSeq(buffer, i + 2, Len(buffer))
  /\ UNCHANGED <<codec, sent, setting, wire, ended>>

(* The stream ends, perhaps early: a rest that is not blank is a frame too. *)
End ==
  /\ codec = "sse" /\ ~ended /\ Boundaries(buffer) = {}
  /\ ended' = TRUE
  /\ got' = IF ToSet(buffer) \subseteq {NL} THEN got ELSE Append(got, ParseSseFrame(buffer))
  /\ UNCHANGED <<codec, sent, setting, wire, buffer>>

------------------------------------------------------------------------------
(* A message: serialize takes models only, and leaves fields out; the       *)
(* target may be any class, which validates what it finds and has a default *)
(* for the rest, or refuses.  Both ends may lack zstandard.  Every failure  *)
(* is a PresentationError.                                                  *)
Inflates(way) == setting.library \/ way = "gzip"
Raise == got' = Raised

Write ==
  /\ codec = "message" /\ wire = <<>> /\ got = <<>>
  /\ \/ /\ sent # <<>> /\ Inflates(setting.written)
        /\ LET omitted == setting.left \union {f \in MessageFields : setting.exclude_none /\ sent[f] = None}
           IN wire' = <<setting.written, [f \in MessageFields \ omitted |-> sent[f]]>>
        /\ UNCHANGED got
     \/ Raise /\ UNCHANGED wire
  /\ UNCHANGED <<codec, sent, setting, buffer, ended>>

Read ==
  /\ codec = "message" /\ wire # <<>>
  /\ wire' = <<>>
  /\ LET found == DOMAIN Last(wire) \intersect setting.knows
     IN \/ /\ setting.read = Head(wire) /\ Inflates(setting.read) /\ setting.model
           /\ \A f \in MessageFields \ found : setting.defaults[f] # "required"
           /\ got' = [f \in MessageFields |-> IF f \in found THEN Last(wire)[f] ELSE setting.defaults[f]]
        \/ Raise
  /\ UNCHANGED <<codec, sent, setting, buffer, ended>>

Next == Receive \/ TakeFrame \/ End \/ Write \/ Read
------------------------------------------------------------------------------
(* How many frames of the stream have arrived whole.                        *)
Whole ==
  LET arrived == Len(Written(Len(sent))) - Len(wire)
      complete == {n \in 0 .. Len(sent) : Len(Written(n)) <= arrived}
  IN CHOOSE n \in complete : \A m \in complete : m <= n

(* Wherever the bytes are cut, what the decoder gives is what was sent.     *)
(* When it waits for another chunk of events of one line each, it has       *)
(* given the objects whose frames arrived, in order, and nothing else; when *)
(* the stream broke off, at most the beginning of one more.  A header that  *)
(* is not complete raises and is never read as another; unmasking restores  *)
(* the payload.  A message between any two ends raises, or every field that *)
(* arrives has the value that it was sent with, unless it was left out, was *)
(* None where None is left out, or is not known to the target, and then it  *)
(* has the target's default: what was None may come back as something else  *)
(* (sse_stream_codec.py, _ws_framing.py, compression.py, json_serializer.py). *)
CodecsInv ==
  /\ codec = "sse" /\ Boundaries(buffer) = {} /\ (\A n \in DOMAIN sent : NL \notin ToSet(sent[n])) =>
       /\ Len(got) >= Whole /\ SubSeq(got, 1, Whole) = SubSeq(sent, 1, Whole)
       /\ Len(got) > Whole => ended /\ Len(got) = Whole + 1 /\ IsPrefix(Last(got), sent[Whole + 1])
  /\ codec = "header" => /\ got \in {<<>>, Raised, <<"header", setting, Len(buffer), sent>>}
                         /\ wire = <<>> => got \notin {<<>>, Raised}
  /\ codec = "mask" /\ wire = <<>> /\ buffer # <<>> => got = sent
  /\ codec = "message" /\ got \notin {<<>>, Raised} =>
       \A f \in MessageFields :
         \/ got[f] = sent[f]
         \/ /\ got[f] = setting.defaults[f]
            /\ f \in setting.left \/ f \notin setting.knows \/ (setting.exclude_none /\ sent[f] = None)
=============================================================================
