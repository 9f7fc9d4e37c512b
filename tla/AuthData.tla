------------------------------ MODULE AuthData ------------------------------
(***************************************************************************)
(* internal/authdata/parse.go on top of the decoder: authenticator data    *)
(* has fixed fields, and what its flags announce behind them.  The length  *)
(* of the credential's key is nowhere in it: the key ends where Decode     *)
(* says.  Its bytes are what registration stores and what every later      *)
(* login decodes again (login.go).                                         *)
(*                                                                         *)
(* What decodeAttestationObject (register.go) hands the decoder are the    *)
(* Inputs of Cbor; which fields it finds is Verification's matter.         *)
(***************************************************************************)
EXTENDS Cbor

CONSTANT AuthDataInputs     \* what Parse may be handed

ASSUME AuthDataInputAssumption == AuthDataInputs \subseteq Seq(Byte)

VARIABLES
    data,      \* the argument of Parse
    stage,     \* what a ceremony is decoding, or how that ended
    parsed     \* the fields read so far

vars == <<data, stage, parsed, decoder>>

RPIDHashLen    == 32
FixedHeaderLen == RPIDHashLen + 1 + 4
AAGUIDLen      == 16
CredIDLenLen   == 2

From(b, i) == SubSeq(b, i, Len(b))

Flag(b, bit) == (b[RPIDHashLen + 1] \div bit) % 2 = 1
UP(b) == Flag(b, 1)
UV(b) == Flag(b, 4)
BE(b) == Flag(b, 8)
BS(b) == Flag(b, 16)
AT(b) == Flag(b, 64)
ED(b) == Flag(b, 128)

\* Where the credential ID starts, and how long it says it is.
CredIDStart == FixedHeaderLen + AAGUIDLen + CredIDLenLen
CredIDLen(b) == 256 * b[CredIDStart - 1] + b[CredIDStart]

\* The fields whose length is known before anything is decoded.
Fixed(b) ==
    [rpIDHash |-> SubSeq(b, 1, RPIDHashLen),
     signCount |-> SubSeq(b, RPIDHashLen + 2, FixedHeaderLen),
     up |-> UP(b), uv |-> UV(b), be |-> BE(b), bs |-> BS(b),
     at |-> AT(b), ed |-> ED(b),
     aaguid |-> IF AT(b)
                THEN SubSeq(b, FixedHeaderLen + 1, FixedHeaderLen + AAGUIDLen)
                ELSE None,
     credentialID |-> IF AT(b)
                      THEN SubSeq(b, CredIDStart + 1, CredIDStart + CredIDLen(b))
                      ELSE None,
     key |-> None, keyRaw |-> None, extensions |-> None]

\* Fault: a credential ID needs a byte behind it before the key is decoded.
FixedFitTight(b) ==
    /\ Len(b) >= FixedHeaderLen
    /\ AT(b) => Len(b) >= CredIDStart /\ Len(b) > CredIDStart + CredIDLen(b) + 1

\* The data is long enough for them.
FixedFit(b) ==
    /\ Len(b) >= FixedHeaderLen
    /\ AT(b) => Len(b) >= CredIDStart /\ Len(b) >= CredIDStart + CredIDLen(b)

-----------------------------------------------------------------------------

InitData == data = <<>> /\ stage = "idle" /\ parsed = None

\* Fault: what follows the announced parts is ignored.
EndedAnywhere(rest) == "ok"

\* Nothing may follow the parts that the flags announce.
Ended(rest) == IF rest = <<>> THEN "ok" ELSE "ErrMalformed"

\* The part of Parse behind the attested data, for what is left of it.
AfterAttested(ed, rest) ==
    \/ ed /\ stage' = "extensions" /\ Decode(rest)
    \/ ~ed /\ stage' = Ended(rest) /\ UNCHANGED decoder

Parse(b) ==
    /\ data' = b
    /\ \/ /\ ~FixedFit(b)
          /\ stage' = "ErrTruncated"
          /\ UNCHANGED <<parsed, decoder>>
       \/ /\ FixedFit(b)
          /\ parsed' = Fixed(b)
          /\ \/ /\ AT(b)
                /\ stage' = "key"
                /\ Decode(From(b, CredIDStart + CredIDLen(b) + 1))
             \/ ~AT(b) /\ AfterAttested(ED(b), From(b, FixedHeaderLen + 1))

\* Decode came back with a map, or with something Parse refuses.
MapDecoded == status = "ok" /\ ret.type = "map"

Malformed ==
    /\ stage \in {"key", "extensions"} /\ status # "running"
    /\ ~MapDecoded
    /\ stage' = "ErrMalformed"
    /\ UNCHANGED <<data, parsed, decoder>>

\* Fault: all that is left is taken for the key's encoding.
TakeKeyToEnd ==
    /\ stage = "key" /\ MapDecoded
    /\ parsed' = [parsed EXCEPT !.key = ret, !.keyRaw = buf]
    /\ AfterAttested(parsed.ed, From(buf, pos + 1))
    /\ UNCHANGED data

TakeKey ==
    /\ stage = "key" /\ MapDecoded
    /\ parsed' = [parsed EXCEPT !.key = ret, !.keyRaw = SubSeq(buf, 1, pos)]
    /\ AfterAttested(parsed.ed, From(buf, pos + 1))
    /\ UNCHANGED data

TakeExtensions ==
    /\ stage = "extensions" /\ MapDecoded
    /\ parsed' = [parsed EXCEPT !.extensions = ret]
    /\ stage' = Ended(From(buf, pos + 1))
    /\ UNCHANGED <<data, decoder>>

\* Login decodes the key that registration stored.
LoadKey ==
    /\ stage = "ok" /\ parsed.at
    /\ stage' = "loading"
    /\ Decode(parsed.keyRaw)
    /\ UNCHANGED <<data, parsed>>

KeyLoaded ==
    /\ stage = "loading" /\ status # "running"
    /\ stage' = IF status = "ok" /\ pos = Len(buf) THEN "loaded"
                ELSE "ErrCorruptStoredKey"
    /\ UNCHANGED <<data, parsed, decoder>>

\* decodeAttestationObject, up to the fields it looks for.
DecodeObject(b) ==
    /\ stage' = "object"
    /\ Decode(b)
    /\ UNCHANGED <<data, parsed>>

ObjectDecoded ==
    /\ stage = "object" /\ status # "running"
    /\ stage' = IF MapDecoded /\ pos = Len(buf) THEN "opened"
                ELSE "ErrMalformedAttestationObject"
    /\ UNCHANGED <<data, parsed, decoder>>

Decoding == Steps /\ UNCHANGED <<data, stage, parsed>>

\* The next ceremony's data comes to a new decoder.
Forget ==
    /\ stage \notin {"idle", "object", "key", "extensions", "loading"}
    /\ data' = <<>> /\ stage' = "idle" /\ parsed' = None
    /\ IF status = "idle" THEN UNCHANGED decoder ELSE Drop

InitParser == Init /\ InitData

NextParser ==
    \/ /\ stage = "idle"
       /\ \/ \E b \in Inputs : DecodeObject(b)
          \/ \E b \in AuthDataInputs : Parse(b)
    \/ ObjectDecoded
    \/ Malformed \/ TakeKey \/ TakeExtensions
    \/ LoadKey \/ KeyLoaded
    \/ Decoding
    \/ Forget

SpecParser == InitParser /\ [][NextParser]_vars

-----------------------------------------------------------------------------
(* Properties.                                                             *)

\* The bytes that registration stores decode to the key it verified, to the
\* last one: no credential it stored is found corrupt at login (parse.go
\* 136-146, login.go 113-116).
StoredKeyLoads ==
    /\ stage # "ErrCorruptStoredKey"
    /\ stage = "loaded" => ret = parsed.key

=============================================================================
