-------------------------------- MODULE Cbor --------------------------------
(***************************************************************************)
(* internal/cbor/decode.go: the decoder of canonical CBOR that every       *)
(* attestation object, authenticator data and stored key goes through.     *)
(*                                                                         *)
(* The decoder calls itself for every item.  Here the calls of decodeArray *)
(* and decodeMap under way are a stack, `calls', and a step is what one    *)
(* call does until it calls or returns: read an item's head, take an item  *)
(* that came back, or leave the loop over the items.                       *)
(*                                                                         *)
(* Bytes are bytes.  A 64-bit argument is its digits to the base 256, most *)
(* significant first, without leading zeros.                               *)
(***************************************************************************)
EXTENDS Integers, Sequences

CONSTANTS
    MaxDepth, MaxElements, MaxInputSize,    \* the code's are 8, 10000, 2^20
    Inputs,                                 \* what Decode may be handed
    None

Byte == 0 .. 255

ASSUME LimitAssumption ==
    MaxDepth \in Nat /\ MaxElements \in Nat /\ MaxInputSize \in 0 .. 2^24 - 1
ASSUME InputAssumption == Inputs \subseteq Seq(Byte)

VARIABLES
    buf, pos, depth, elems,     \* the decoder's fields
    calls,    \* the containers being decoded, the innermost last
    ret,      \* the value just decoded, on its way to the caller
    status    \* running, ok, an error, or idle before the first Decode

decoder == <<buf, pos, depth, elems, calls, ret, status>>

Errors == {"ErrTruncated", "ErrNonCanonical", "ErrUnsupported", "ErrDepth",
           "ErrTooManyElements", "ErrInputTooLarge", "ErrMapOrder",
           "ErrDuplicateKey"}

-----------------------------------------------------------------------------
(* Reading a head.                                                         *)

InitialByte == buf[pos + 1]
Major == InitialByte \div 32
Info  == InitialByte % 32

\* How many bytes of argument the additional information announces.
ArgumentLength == IF Info \in 24 .. 27 THEN <<1, 2, 4, 8>>[Info - 23] ELSE 0

ArgumentBytes == SubSeq(buf, pos + 2, pos + 1 + ArgumentLength)

HeadLength == 1 + ArgumentLength

\* The same number without its leading zeros.
Digits(bytes) ==
    CHOOSE d \in {SubSeq(bytes, i, Len(bytes)) : i \in 1 .. Len(bytes) + 1} :
        /\ d # <<>> => d[1] # 0
        /\ \A i \in 1 .. Len(bytes) - Len(d) : bytes[i] = 0

Argument == Digits(IF Info < 24 THEN <<Info>> ELSE ArgumentBytes)

\* Fault: only an argument that is zero is found to be too long.
ShortestNotZero ==
    ArgumentLength > 0 => \E i \in 1 .. ArgumentLength : ArgumentBytes[i] # 0

\* readArgument: 23 and less go in the initial byte, and the upper half of a
\* longer argument must not be zero.
Shortest ==
    /\ Info = 24 => ArgumentBytes[1] >= 24
    /\ Info \in 25 .. 27 =>
          \E i \in 1 .. ArgumentLength \div 2 : ArgumentBytes[i] # 0

OverInt64(digits) == Len(digits) = 8 /\ digits[1] >= 128

\* An argument as a length.  From 2^24 on it is more than any input has
\* bytes, and how much more makes no difference.
Count(digits) ==
    CASE Len(digits) = 0 -> 0
      [] Len(digits) = 1 -> digits[1]
      [] Len(digits) = 2 -> 256 * digits[1] + digits[2]
      [] Len(digits) = 3 -> 65536 * digits[1] + 256 * digits[2] + digits[3]
      [] OTHER           -> MaxInputSize + 1

Remaining == Len(buf) - pos

\* decodeSimple: false, true and null, and nothing else of major type 7.
SimpleError ==
    IF Info \in 20 .. 22 THEN None
    ELSE IF Remaining < HeadLength THEN "ErrTruncated"
    ELSE "ErrUnsupported"

\* Fault: the depth is checked after it is counted.
ItemErrorLate ==
    CASE Major \in {0, 1} /\ OverInt64(Argument) -> "ErrUnsupported"
      [] Major \in {2, 3} /\ Count(Argument) > Remaining - HeadLength
                                                 -> "ErrTruncated"
      [] Major \in {4, 5} /\ depth > MaxDepth    -> "ErrDepth"
      [] Major = 6                               -> "ErrUnsupported"
      [] OTHER                                   -> None

\* The switch of decodeValue.
ItemError ==
    CASE Major \in {0, 1} /\ OverInt64(Argument) -> "ErrUnsupported"
      [] Major \in {2, 3} /\ Count(Argument) > Remaining - HeadLength
                                                 -> "ErrTruncated"
      [] Major \in {4, 5} /\ depth >= MaxDepth   -> "ErrDepth"
      [] Major = 6                               -> "ErrUnsupported"
      [] OTHER                                   -> None

\* What decodeValue finds wrong, in its order, before it calls or returns.
HeadError ==
    IF elems >= MaxElements                THEN "ErrTooManyElements"
    ELSE IF Remaining = 0                  THEN "ErrTruncated"
    ELSE IF Major = 7                      THEN SimpleError
    ELSE IF Info > 27                      THEN "ErrUnsupported"
    ELSE IF Remaining < HeadLength         THEN "ErrTruncated"
    ELSE IF ~Shortest                      THEN "ErrNonCanonical"
    ELSE ItemError

\* A value that is complete with its head, or with the bytes behind it.
StringLength == IF Major \in {2, 3} THEN Count(Argument) ELSE 0

Scalar ==
    LET string == SubSeq(buf, pos + HeadLength + 1,
                         pos + HeadLength + StringLength)
    IN  CASE Major = 0 -> [type |-> "uint", n |-> Argument]
          [] Major = 1 -> [type |-> "negint", n |-> Argument]  \* -1 - n
          [] Major = 2 -> [type |-> "bytes", string |-> string]
          [] Major = 3 -> [type |-> "text", string |-> string]
          [] Major = 7 /\ Info = 22 -> [type |-> "null"]
          [] Major = 7 /\ Info # 22 -> [type |-> "bool", bool |-> Info = 21]

-----------------------------------------------------------------------------
(* The order of map keys.                                                  *)

\* canonicalCompare(a, b) = -1
KeyBefore(a, b) ==
    \/ Len(a) < Len(b)
    \/ /\ Len(a) = Len(b)
       /\ \E i \in 1 .. Len(a) : /\ a[i] < b[i]
                                 /\ \A j \in 1 .. i - 1 : a[j] = b[j]

\* Fault: keys are compared byte by byte first, like strings.
OrderErrorLexical(spans) ==
    LET before(a, b) ==
            \E i \in 1 .. Len(b) :
                /\ i > Len(a) \/ a[i] < b[i]
                /\ \A j \in 1 .. i - 1 : j <= Len(a) /\ a[j] = b[j]
    IN  IF \A i \in 2 .. Len(spans) : before(spans[i - 1], spans[i])
        THEN None ELSE "ErrMapOrder"

\* Fault: only a key that comes before its neighbour is out of order.
OrderErrorDescending(spans) ==
    IF \A i \in 2 .. Len(spans) : ~KeyBefore(spans[i], spans[i - 1])
    THEN None ELSE "ErrMapOrder"

\* The first pair of neighbours out of order.
OrderError(spans) ==
    LET Wrong(i) == ~KeyBefore(spans[i - 1], spans[i])
    IN  IF \A i \in 2 .. Len(spans) : ~Wrong(i) THEN None
        ELSE IF \E i \in 2 .. Len(spans) :
                    /\ spans[i - 1] = spans[i]
                    /\ \A j \in 2 .. i - 1 : ~Wrong(j)
             THEN "ErrDuplicateKey" ELSE "ErrMapOrder"

-----------------------------------------------------------------------------
(* The decoder.                                                            *)

Init ==
    /\ buf = <<>> /\ pos = 0 /\ depth = 0 /\ elems = 0
    /\ calls = <<>>
    /\ ret = None
    /\ status = "idle"

\* Decode: a new decoder for b.
Decode(b) ==
    /\ status # "running"
    /\ buf' = b /\ pos' = 0 /\ depth' = 0 /\ elems' = 0
    /\ calls' = <<>>
    /\ ret' = None
    /\ status' = IF Len(b) > MaxInputSize THEN "ErrInputTooLarge"
                                          ELSE "running"

Fail(e) == status' = e /\ UNCHANGED <<buf, pos, depth, elems, calls, ret>>

Top == calls[Len(calls)]
Outer == SubSeq(calls, 1, Len(calls) - 1)

\* decodeValue is called: by Decode, or in the loop of decodeArray or
\* decodeMap, which has items left to decode.
Called ==
    /\ status = "running"
    /\ ret = None
    /\ calls # <<>> => Len(Top.items) < Top.want

DecodeFails ==
    /\ Called
    /\ HeadError # None
    /\ Fail(HeadError)

DecodeScalar ==
    /\ Called
    /\ HeadError = None
    /\ Major \notin {4, 5}
    /\ pos' = pos + HeadLength + StringLength
    /\ elems' = elems + 1
    /\ ret' = Scalar
    /\ UNCHANGED <<buf, depth, calls, status>>

\* decodeArray or decodeMap as far as the loop.
EnterContainer ==
    /\ Called
    /\ HeadError = None
    /\ Major \in {4, 5}
    /\ pos' = pos + HeadLength
    /\ elems' = elems + 1
    /\ depth' = depth + 1
    /\ calls' = Append(calls,
                   [map |-> Major = 5,
                    want |-> (IF Major = 5 THEN 2 ELSE 1) * Count(Argument),
                    items |-> <<>>, spans |-> <<>>, from |-> pos + HeadLength])
    /\ UNCHANGED <<buf, ret, status>>

\* The loop takes the item that came back, and of a key its span too.
TakeItem ==
    /\ status = "running" /\ ret # None /\ calls # <<>>
    /\ LET isKey == Top.map /\ Len(Top.items) % 2 = 0
           span == SubSeq(buf, Top.from + 1, pos)
       IN  calls' = Append(Outer,
                       [Top EXCEPT !.items = Append(@, ret), !.from = pos,
                                   !.spans = IF isKey THEN Append(@, span)
                                                      ELSE @])
    /\ ret' = None
    /\ UNCHANGED <<buf, pos, depth, elems, status>>

Container(c) ==
    IF c.map
    THEN [type |-> "map",
          entries |-> [i \in 1 .. Len(c.items) \div 2 |->
                          [key |-> c.items[2 * i - 1], val |-> c.items[2 * i]]]]
    ELSE [type |-> "array", items |-> c.items]

\* The loop is over.
LeaveContainer ==
    /\ status = "running" /\ ret = None /\ calls # <<>>
    /\ Len(Top.items) = Top.want
    /\ \/ OrderError(Top.spans) # None /\ Fail(OrderError(Top.spans))
       \/ /\ OrderError(Top.spans) = None
          /\ depth' = depth - 1
          /\ calls' = Outer
          /\ ret' = Container(Top)
          /\ UNCHANGED <<buf, pos, elems, status>>

\* decodeValue returned to Decode, which returns ret and pos.
DecodeReturns ==
    /\ status = "running" /\ ret # None /\ calls = <<>>
    /\ status' = "ok"
    /\ UNCHANGED <<buf, pos, depth, elems, calls, ret>>

Steps == \/ DecodeFails \/ DecodeScalar \/ EnterContainer
         \/ TakeItem \/ LeaveContainer \/ DecodeReturns

\* The decoder is garbage once Decode returned.
Drop ==
    /\ status \notin {"idle", "running"}
    /\ buf' = <<>> /\ pos' = 0 /\ depth' = 0 /\ elems' = 0
    /\ calls' = <<>>
    /\ ret' = None
    /\ status' = "idle"

Next == \/ status = "idle" /\ \E b \in Inputs : Decode(b)
        \/ Steps
        \/ Drop

Spec == Init /\ [][Next]_decoder

-----------------------------------------------------------------------------
(* Properties.                                                             *)

\* Recursion and work are bounded, whatever lengths the input announces: the
\* calls under way are what `depth' says and no more than MaxDepth, and every
\* element counted, of at most MaxElements, has a byte of input to itself
\* (decode.go 28-36).
WorkIsBounded ==
    /\ Len(calls) = depth /\ depth <= MaxDepth
    /\ elems <= MaxElements
    /\ elems <= pos
    /\ pos <= Len(buf)

=============================================================================
