--------------------------------- MODULE Wire ---------------------------------
(* What becomes of the fields of a message between the two ends of a      *)
(* socket: the msgpack codec (packages/protocol/src/codec.ts) on each of  *)
(* them, and before it, for what others wrote, the row of an envelope     *)
(* (ws/redis-fanout.ts) or the JSON of a post on the Redis channel        *)
(* (routes/broadcast.ts, ws/gateway.ts).                                  *)
(*                                                                        *)
(* A field holds a value of some kind; numbers, bigints and dates are     *)
(* told apart by their value too, the others only by their kind.  The two *)
(* reasons of a CodecError are one: both ends refuse a frame for either.  *)
EXTENDS Naturals

CONSTANTS
  Narrow,  \* the largest number msgpack packs as an integer: 2^32 - 1
  Values   \* the values that occur

VARIABLES
  sort,   \* which message, by its discriminator
  made,   \* its fields as the sender has them
  fits,   \* its frame has at most MAX_FRAME_BYTES
  at,     \* how far it has come
  fields, \* its fields there
  frame   \* its packed fields

wireVars == <<sort, made, fits, at, fields, frame>>

Of(kind, v) == [kind |-> kind, v |-> v]
Merge(f, g) == [x \in DOMAIN f \cup DOMAIN g |-> IF x \in DOMAIN f THEN f[x] ELSE g[x]]

(* What each field must be. The envelope inside a message is flattened;   *)
(* its own field stands for its being an object at all.                   *)
EnvelopeShape ==
  [envelope |-> "record", type |-> "enum", sessionId |-> "string",
   senderDeviceId |-> "string", recipientDeviceId |-> "string",
   ciphertext |-> "bytes", id |-> "bigint", createdAt |-> "integer"]
Optional == {"id", "createdAt"}

C2SShape ==
  [HELLO |-> [deviceId |-> "string", protoVersion |-> "one"],
   SEND_ENVELOPE |-> Merge([clientNonce |-> "string"], EnvelopeShape),
   ENVELOPE_RECEIVED |-> [envelopeId |-> "bigint"],
   PRESENCE_PING |-> <<>>,
   SUBSCRIBE_ROOM |-> [slug |-> "string"],
   UNSUBSCRIBE_ROOM |-> [slug |-> "string"]]

PostShape ==
  [post |-> "record", postId |-> "bigint", roomId |-> "string", authorUserId |-> "string",
   authorHandle |-> "string", authorIdentityPub |-> "bytes", body |-> "string",
   authorSignature |-> "bytes", postedAt |-> "integer"]

S2CShape ==
  [HELLO_OK |-> [serverTimeMs |-> "integer", queuedCount |-> "integer"],
   ENVELOPE |-> EnvelopeShape,
   ENVELOPE_QUEUED |-> [clientNonce |-> "string", envelopeId |-> "bigint",
                        serverTimeMs |-> "integer"],
   ROOM_POST |-> PostShape,
   ERROR |-> [code |-> "enum", message |-> "string"]]

Shape == Merge(C2SShape, S2CShape)
Sorts == DOMAIN Shape

Meets(value, need) ==
  CASE need = "integer" -> value.kind = "number"
    [] need = "enum" -> value.kind = "number" /\ value.v \in {0, 1}
    [] need = "one" -> value = Of("number", 1)
    [] OTHER -> value.kind = need

Needed(s, f) == ~(f \in Optional /\ s \in {"SEND_ENVELOPE", "ENVELOPE"})

(* A value other than undefined is tested in an optional field as well.   *)
Valid(s, m) ==
  \A f \in DOMAIN Shape[s] :
     IF f \in DOMAIN m THEN Meets(m[f], Shape[s][f]) ELSE ~Needed(s, f)

(* msgpack, with useBigInt64 on both sides: a bigint is an int64 however  *)
(* small, a number too wide for 32 bits a float, and an int64 is always   *)
(* read as a bigint. A field set to undefined travels as nil.             *)
\* Mutant of Packed: without useBigInt64 a wide number is an int64
PackedWide(value) ==
  IF value.kind = "number" /\ value.v > Narrow THEN Of("int64", value.v)
  ELSE Of(CASE value.kind = "number" -> "uint32"
            [] value.kind = "bigint" -> "int64"
            [] value.kind = "undefined" -> "nil"
            [] OTHER -> value.kind, value.v)

Packed(value) ==
  Of(CASE value.kind = "number" -> IF value.v > Narrow THEN "float64" ELSE "uint32"
       [] value.kind = "bigint" -> "int64"
       [] value.kind = "undefined" -> "nil"
       [] OTHER -> value.kind, value.v)

Unpacked(token) ==
  Of(CASE token.kind \in {"float64", "uint32"} -> "number"
       [] token.kind = "int64" -> "bigint"
       [] OTHER -> token.kind, token.v)

(* The messages: those their types allow, and those another version of a  *)
(* side may make, with one field missing or of another kind.              *)
Sample(need, n, b) ==
  CASE need = "integer" -> Of("number", n)
    [] need = "bigint" -> Of("bigint", b)
    [] need \in {"enum", "one"} -> Of("number", 1)
    [] OTHER -> Of(need, 0)

Others ==
  {Of(k, 0) : k \in {"string", "bytes", "record", "nil", "undefined", "fraction"}}
    \cup {Of(k, n) : k \in {"number", "bigint"}, n \in Values}

Typed(s) ==
  {[f \in DOMAIN Shape[s] |-> Sample(Shape[s][f], n, b)] : n \in Values, b \in Values}

Without(m, f) == [x \in DOMAIN m \ {f} |-> m[x]]

WireInit ==
  /\ sort \in Sorts
  /\ \E m \in Typed(sort) :
       \/ made = m
       \/ \E f \in DOMAIN m : made = Without(m, f)
       \/ \E f \in DOMAIN m, v \in Others : made = [m EXCEPT ![f] = v]
  /\ fits \in BOOLEAN
  /\ at = "made"
  /\ fields = made /\ frame = <<>>

(* A post goes through Redis as JSON: its id in decimals, its bytes in     *)
(* base64, a field set to undefined left out.                              *)
ToText(value) ==
  CASE value.kind = "bigint" -> Of("digits", value.v)
    [] value.kind = "bytes" -> Of("base64", value.v)
    [] OTHER -> value

Publish ==
  /\ at = "made" /\ sort = "ROOM_POST"
  /\ at' = "published"
  /\ fields' = [f \in {g \in DOMAIN made : made[g].kind # "undefined"} |-> ToText(made[f])]
  /\ UNCHANGED <<sort, made, fits, frame>>

Text == {"digits", "base64", "string"}

(* Any text is taken for base64; a fraction passes for a time here.        *)
AcceptsPayload ==
  \A f \in DOMAIN PostShape :
    /\ f \in DOMAIN fields
    /\ CASE f = "post" -> fields[f].kind = "record"
         [] f = "postId" -> fields[f].kind = "digits"
         [] f = "postedAt" -> fields[f].kind \in {"number", "fraction"}
         [] OTHER -> fields[f].kind \in Text

FromText(f, value) ==
  CASE PostShape[f] = "bigint" -> Of("bigint", value.v)
    [] PostShape[f] = "bytes" -> Of("bytes", value.v)
    [] PostShape[f] = "string" -> Of("string", value.v)
    [] OTHER -> value

DecodePayload ==
  /\ at = "published"
  /\ IF AcceptsPayload
     THEN at' = "typed" /\ fields' = [f \in DOMAIN fields |-> FromText(f, fields[f])]
     ELSE at' = "refused" /\ UNCHANGED fields
  /\ UNCHANGED <<sort, made, fits, frame>>

(* An envelope is read back from its row: the id comes as text, the time   *)
(* as a Date.                                                              *)
Hydrate ==
  /\ at = "made" /\ sort = "ENVELOPE" /\ Optional \subseteq DOMAIN made /\ Valid(sort, made)
  /\ at' = "stored"
  /\ fields' = [made EXCEPT !.id.kind = "digits", !.createdAt.kind = "date"]
  /\ UNCHANGED <<sort, made, fits, frame>>

RowToEnvelope ==
  /\ at = "stored"
  /\ at' = "typed"
  /\ fields' = [fields EXCEPT !.id.kind = "bigint", !.createdAt.kind = "number"]
  /\ UNCHANGED <<sort, made, fits, frame>>

(* A frame that is too large is refused on both sides; here the side that  *)
(* encodes it throws first.                                                *)
Encode ==
  /\ at \in {"made", "typed"}
  /\ IF fits
     THEN at' = "framed" /\ frame' = [f \in DOMAIN fields |-> Packed(fields[f])]
     ELSE at' = "refused" /\ UNCHANGED frame
  /\ UNCHANGED <<sort, made, fits, fields>>

Decode ==
  /\ at = "framed"
  /\ fields' = [f \in DOMAIN frame |-> Unpacked(frame[f])]
  /\ at' = IF Valid(sort, fields') THEN "read" ELSE "refused"
  /\ UNCHANGED <<sort, made, fits, frame>>

WireNext == Publish \/ DecodePayload \/ Hydrate \/ RowToEnvelope \/ Encode \/ Decode

WireSpec == WireInit /\ [][WireNext]_wireVars

(* A message of its type that fits in a frame is read at the other end as  *)
(* it was made, whatever it passes through; what is read is of its type    *)
(* whoever made it.                                                        *)
ReadAsMade ==
  /\ at = "read" => Valid(sort, fields) /\ (Valid(sort, made) => fields = made)
  /\ at = "refused" => ~(Valid(sort, made) /\ fits)
=============================================================================
