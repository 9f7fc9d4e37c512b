---------------------------- MODULE AuthDataProofs ----------------------------
(***************************************************************************)
(* Theorems of AuthData, for any attestation objects and authenticator     *)
(* data: what holds of a decoder holds of the parsers', Parse accepts data *)
(* that is made of its fields, and no other, and a key that is stored can  *)
(* be loaded again.                                                        *)
(***************************************************************************)
EXTENDS AuthData, CanonicalProofs

\* Where the credential ID of the data b ends, and where the key of p does.
IDEnd(b) == IF AT(b) THEN CredIDStart + CredIDLen(b) ELSE FixedHeaderLen
KeyEnd(b, p) == IF AT(b) THEN IDEnd(b) + Len(p.keyRaw) ELSE IDEnd(b)

DecodedFields == {"key", "keyRaw", "extensions"}

\* The fields that need no decoding are those of the data.
FixedFields(b, p) ==
    /\ FixedFit(b)
    /\ p = [f \in DOMAIN Fixed(b) |-> p[f]]
    /\ \A f \in DOMAIN Fixed(b) \ DecodedFields : p[f] = Fixed(b)[f]

\* e is a canonical encoding of v, and within the decoder's limits.
IsDecodable(v, e) ==
    /\ Canonical(v, e, MaxDepth)
    /\ \E n \in 0 .. MaxElements : HasElements(v, MaxDepth, n)

\* The key's encoding lies behind the credential ID, and what is left of the
\* data there is no longer than what Decode reads.
KeyInPlace(b, p) ==
    AT(b) =>
        /\ p.keyRaw \in Seq(Byte)
        /\ p.keyRaw = Between(b, IDEnd(b), KeyEnd(b, p))
        /\ KeyEnd(b, p) <= Len(b) /\ Len(b) - IDEnd(b) <= MaxInputSize
        /\ p.key.type = "map"
        /\ IsDecodable(p.key, p.keyRaw)

\* The fields p lie in the data b end to end: the fixed ones, if the flags say
\* so a key in its canonical encoding, if they say so extensions in theirs, and
\* not a byte more.
IsLaidOut(b, p) ==
    /\ FixedFields(b, p)
    /\ KeyInPlace(b, p)
    /\ IF ED(b)
       THEN /\ p.extensions.type = "map"
            /\ Len(b) - KeyEnd(b, p) <= MaxInputSize
            /\ IsDecodable(p.extensions, Between(b, KeyEnd(b, p), Len(b)))
       ELSE KeyEnd(b, p) = Len(b)

\* Parse accepts nothing else (parse.go 68-117).
AcceptsOnlyLaidOut ==
    stage \in {"ok", "loading", "loaded"} => IsLaidOut(data, parsed)

\* The key of p is that of q, and the extensions are.
SameKey(b, p, q) == AT(b) => p.key = q.key /\ p.keyRaw = q.keyRaw
SameExtensions(b, p, q) == ED(b) => p.extensions = q.extensions

\* Parse refuses no data in which fields can be laid out, and returns the only
\* ones that can be (parse.go 68-149).
RefusesNothingLaidOut ==
    /\ stage \in {"ErrTruncated", "ErrMalformed"} => \A p : ~IsLaidOut(data, p)
    /\ stage \in {"ok", "loading", "loaded"} =>
          \A p : IsLaidOut(data, p) =>
              SameKey(data, p, parsed) /\ SameExtensions(data, p, parsed)

-----------------------------------------------------------------------------
(* The invariant.                                                          *)

\* What is being decoded lies behind what has been read.
InProgress ==
    /\ stage = "key" =>
          /\ FixedFields(data, parsed) /\ AT(data)
          /\ buf = Between(data, IDEnd(data), Len(data))
    /\ stage = "extensions" =>
          /\ FixedFields(data, parsed) /\ KeyInPlace(data, parsed) /\ ED(data)
          /\ buf = Between(data, KeyEnd(data, parsed), Len(data))

PInv == TInv /\ data \in Seq(Byte) /\ InProgress /\ AcceptsOnlyLaidOut

\* The decoder is at work for the stage, and what it works on leaves no choice.
NoChoice ==
    /\ stage \in {"key", "extensions", "loading"} => status # "idle"
    /\ stage = "extensions" => \A p : IsLaidOut(data, p) => SameKey(data, p, parsed)
    /\ stage = "loading" => AT(data) /\ buf = parsed.keyRaw
    /\ stage = "loaded" => status = "ok"

LInv == PInv /\ NoChoice /\ RefusesNothingLaidOut /\ StoredKeyLoads

-----------------------------------------------------------------------------
(* Slices of slices.                                                       *)

\* Which slices are empty (parse.go 112-116).
LEMMA EmptySlice ==
    ASSUME NEW S, NEW s \in Seq(S), NEW a \in Nat, NEW b \in Nat,
           a <= b, b <= Len(s)
    PROVE  Between(s, a, b) = <<>> <=> a = b
<1> DEFINE w == Between(s, a, b)
<1>1. w \in Seq(S) /\ Len(w) = b - a
    BY Slice, Zenon
<1> HIDE DEF w
<1>2. w = <<>> <=> Len(w) = 0
    BY <1>1
<1> QED
    BY <1>1, <1>2 DEF w

-----------------------------------------------------------------------------
(* Fields.                                                                 *)

\* Data that is long enough ends behind the fields of fixed length.
LEMMA FieldsFit ==
    ASSUME NEW b \in Seq(Byte), FixedFit(b)
    PROVE  /\ IDEnd(b) \in Nat /\ IDEnd(b) <= Len(b) /\ Len(b) \in Nat
           /\ AT(b) => IDEnd(b) = CredIDStart + CredIDLen(b)
           /\ ~AT(b) => IDEnd(b) = FixedHeaderLen
<1>1. Len(b) \in Nat /\ Len(b) >= FixedHeaderLen
    BY DEF FixedFit
<1>2. CASE AT(b)
  <2>1. CredIDStart = 55 /\ Len(b) >= CredIDStart
      BY <1>2 DEF FixedFit, CredIDStart, FixedHeaderLen, RPIDHashLen, AAGUIDLen,
                  CredIDLenLen
  <2>2. b[54] \in Byte /\ b[55] \in Byte
      BY <1>1, <2>1
  <2>3. CredIDLen(b) \in Nat
    <3>1. CredIDLen(b) = 256 * b[54] + b[55]
        BY <2>1 DEF CredIDLen
    <3>2. \A x, y \in Byte : 256 * x + y \in Nat
        BY DEF Byte
    <3> QED
        BY <2>2, <3>1, <3>2, ZenonT(40)
  <2>4. IDEnd(b) = CredIDStart + CredIDLen(b)
      BY <1>2 DEF IDEnd
  <2>5. Len(b) >= CredIDStart + CredIDLen(b)
      BY <1>2 DEF FixedFit
  <2> QED
      BY <1>1, <1>2, <2>1, <2>3, <2>4, <2>5
<1>3. CASE ~AT(b)
    BY <1>1, <1>3 DEF IDEnd, FixedHeaderLen, RPIDHashLen
<1> QED
    BY <1>2, <1>3

\* What Parse fills in before anything is decoded.
LEMMA FixedAreFields ==
    ASSUME NEW b, FixedFit(b)
    PROVE  FixedFields(b, Fixed(b))
<1> DEFINE f == Fixed(b)
<1>1. f = [x \in DOMAIN f |-> f[x]]
    BY DEF Fixed
<1> HIDE DEF f
<1> QED
    BY <1>1, Zenon DEF f, FixedFields

\* The fields of Data, and the flags that say which of them Parse fills
\* (parse.go 77-116).
LEMMA FieldNames ==
    ASSUME NEW b, NEW p, FixedFields(b, p)
    PROVE  /\ DecodedFields \subseteq DOMAIN p
           /\ DOMAIN p = DOMAIN Fixed(b)
           /\ p.at = AT(b) /\ p.ed = ED(b)
<1>1. DecodedFields \subseteq DOMAIN Fixed(b)
    BY DEF DecodedFields, Fixed
<1>2. "at" \in DOMAIN Fixed(b) \ DecodedFields /\ Fixed(b)["at"] = AT(b)
    BY DEF DecodedFields, Fixed
<1>3. "ed" \in DOMAIN Fixed(b) \ DecodedFields /\ Fixed(b)["ed"] = ED(b)
    BY DEF DecodedFields, Fixed
<1> QED
    BY <1>1, <1>2, <1>3 DEF FixedFields

\* A field that was decoded is filled in.
LEMMA FieldsFilledIn ==
    ASSUME NEW b, NEW p, FixedFields(b, p),
           NEW q, q = [f \in DOMAIN p |-> q[f]],
           \A f \in DOMAIN p \ DecodedFields : q[f] = p[f]
    PROVE  FixedFields(b, q)
<1>1. DOMAIN p = DOMAIN Fixed(b)
    BY FieldNames
<1>2. \A f \in DOMAIN Fixed(b) \ DecodedFields : q[f] = Fixed(b)[f]
    BY <1>1, Zenon DEF FixedFields
<1>3. q = [f \in DOMAIN Fixed(b) |-> q[f]]
    BY <1>1
<1> QED
    BY <1>2, <1>3, Zenon DEF FixedFields

\* The key ends inside the data.
LEMMA KeyEndsInside ==
    ASSUME NEW b \in Seq(Byte), NEW p, FixedFit(b), KeyInPlace(b, p)
    PROVE  KeyEnd(b, p) \in Nat /\ KeyEnd(b, p) <= Len(b)
<1>1. IDEnd(b) \in Nat /\ IDEnd(b) <= Len(b)
    BY FieldsFit
<1>2. CASE AT(b)
  <2>1. Len(p.keyRaw) \in Nat /\ KeyEnd(b, p) <= Len(b)
      BY <1>2 DEF KeyInPlace
  <2> QED
      BY <1>1, <1>2, <2>1 DEF KeyEnd
<1>3. CASE ~AT(b)
    BY <1>1, <1>3 DEF KeyEnd
<1> QED
    BY <1>2, <1>3

\* The prefix that was decoded, and what is left of the rest.
LEMMA Decoded ==
    ASSUME NEW a \in Nat, TInv, status = "ok", data \in Seq(Byte),
           a <= Len(data), buf = Between(data, a, Len(data))
    PROVE  /\ pos \in Nat /\ a + pos <= Len(data) /\ a + pos \in Nat
           /\ SubSeq(buf, 1, pos) = Between(data, a, a + pos)
           /\ Len(SubSeq(buf, 1, pos)) = pos
           /\ From(buf, pos + 1) = Between(data, a + pos, Len(data))
           /\ Len(data) - a <= MaxInputSize
           /\ IsDecodable(ret, SubSeq(buf, 1, pos))
<1> DEFINE n == Len(data)
<1>0. CInv
    BY DEF TInv
<1>1. n \in Nat
    OBVIOUS
<1>2. buf \in Seq(Byte) /\ Len(buf) = n - a
  <2> HIDE DEF n
  <2>1. data \in Seq(Byte) /\ n \in Nat /\ a <= n /\ n <= Len(data)
      BY <1>1 DEF n
  <2>2. Between(data, a, n) \in Seq(Byte) /\ Len(Between(data, a, n)) = n - a
      BY <2>1, Slice, Zenon
  <2> QED
      BY <2>2, Zenon DEF n
<1>3. pos \in Nat /\ pos <= n - a
  <2>1. pos \in Nat /\ pos <= Len(buf)
      BY <1>0 DEF CInv, IInv, Shape, WorkIsBounded
  <2> QED
      BY <1>2, <2>1
<1>4. /\ a + pos <= n /\ a + pos \in Nat /\ a + 0 = a /\ a + (n - a) = n
      /\ n - a \in Nat
    BY <1>1, <1>3
<1> HIDE DEF n
<1>s. \A c, d \in Nat : c <= d /\ d <= n - a =>
          Between(Between(data, a, n), c, d) = Between(data, a + c, a + d)
  <2> SUFFICES ASSUME NEW c \in Nat, NEW d \in Nat, c <= d, d <= n - a
               PROVE  Between(Between(data, a, n), c, d)
                          = Between(data, a + c, a + d)
      OBVIOUS
  <2>1. a <= n /\ n <= Len(data)
      BY <1>1 DEF n
  <2> QED
      BY <1>1, <2>1, SliceOfSlice
<1>5. SubSeq(buf, 1, pos) = Between(data, a, a + pos)
  <2>1. 0 \in Nat /\ 0 <= pos /\ 0 + 1 = 1
      BY <1>3
  <2>2. Between(Between(data, a, n), 0, pos) = Between(data, a + 0, a + pos)
      BY <1>3, <1>s, <2>1, Zenon
  <2>3. SubSeq(buf, 1, pos) = Between(buf, 0, pos)
      BY <2>1, Zenon DEF Between
  <2> QED
      BY <1>4, <2>2, <2>3 DEF n
<1>6. From(buf, pos + 1) = Between(data, a + pos, n)
  <2>1. n - a <= n - a
      BY <1>4
  <2>2. Between(Between(data, a, n), pos, n - a)
            = Between(data, a + pos, a + (n - a))
      BY <1>3, <1>4, <1>s, <2>1, Zenon
  <2>3. From(buf, pos + 1) = Between(buf, pos, n - a)
      BY <1>2 DEF From, Between
  <2> QED
      BY <1>4, <2>2, <2>3 DEF n
<1>7. Len(SubSeq(buf, 1, pos)) = pos
  <2>1. pos <= Len(buf)
      BY <1>2, <1>3
  <2> QED
      BY <1>2, <1>3, <2>1, Prefix, Zenon
<1>8. IsDecodable(ret, SubSeq(buf, 1, pos))
  <2>1. Canonical(ret, SubSeq(buf, 1, pos), MaxDepth)
      BY <1>0, CInvIsCanonical DEF AcceptsOnlyCanonical
  <2>2. HasElements(ret, MaxDepth, elems)
      BY TInvCounts DEF CountsElements
  <2>3. elems \in 0 .. MaxElements
      BY <1>0, LimitAssumption DEF CInv, IInv, Shape, WorkIsBounded
  <2> QED
      BY <2>1, <2>2, <2>3 DEF IsDecodable
<1>9. n - a <= MaxInputSize
    BY <1>0, <1>2 DEF CInv
<1> QED
    BY <1>3, <1>4, <1>5, <1>6, <1>7, <1>8, <1>9 DEF n

\* A decoder that was handed the rest of the data, and has stopped, has found
\* what lies there.
LEMMA Found ==
    ASSUME NEW a \in Nat, NEW e \in Nat, NEW v, TInv, data \in Seq(Byte),
           a <= e, e <= Len(data), buf = Between(data, a, Len(data)),
           Len(data) - a <= MaxInputSize, IsDecodable(v, Between(data, a, e)),
           status \notin {"idle", "running"}
    PROVE  status = "ok" /\ ret = v /\ e = a + pos
<1> DEFINE n == Len(data)
           m == e - a
<1>1. n \in Nat /\ m \in Nat /\ m <= n - a /\ a <= n
    OBVIOUS
<1>2. Len(buf) = n - a
  <2> HIDE DEF n
  <2>1. data \in Seq(Byte) /\ n \in Nat /\ a <= n /\ n <= Len(data)
      BY <1>1 DEF n
  <2>2. Len(Between(data, a, n)) = n - a
      BY <2>1, Slice, Zenon
  <2> QED
      BY <2>2, Zenon DEF n
<1>3. Between(buf, 0, m) = Between(data, a, e)
  <2> HIDE DEF n, m
  <2>1. 0 \in Nat /\ 0 <= m /\ a + 0 = a /\ a + m = e
      BY <1>1 DEF m
  <2>2. n <= Len(data)
      BY DEF n
  <2>3. Between(Between(data, a, n), 0, m) = Between(data, a + 0, a + m)
      BY <1>1, <2>1, <2>2, SliceOfSlice
  <2> QED
      BY <2>1, <2>3, Zenon DEF n
<1>4. m \in 0 .. Len(buf) /\ Len(buf) <= MaxInputSize
    BY <1>1, <1>2
<1>5. PICK k \in 0 .. MaxElements : HasElements(v, MaxDepth, k)
    BY DEF IsDecodable
<1> HIDE DEF m, n
<1>6. BeginsWith(buf, v, m, k)
    BY <1>3, <1>4, <1>5 DEF BeginsWith, IsDecodable
<1>7. k <= MaxElements
    BY <1>5, LimitAssumption
<1>8. status = "ok" /\ ret = v /\ pos = m
    BY <1>4, <1>6, <1>7, TInvRefusesNothing DEF RefusesNothingCanonical
<1> QED
    BY <1>8 DEF m

-----------------------------------------------------------------------------
(* Steps.                                                                  *)

\* Behind the attested data there are extensions, or nothing.
LEMMA GoesOnBehindKey ==
    ASSUME NEW rest, AfterAttested(ED(data'), rest),
           data' \in Seq(Byte), KeyEnd(data', parsed') \in Nat,
           KeyEnd(data', parsed') <= Len(data'),
           rest = Between(data', KeyEnd(data', parsed'), Len(data')),
           FixedFields(data', parsed'), KeyInPlace(data', parsed')
    PROVE  InProgress' /\ AcceptsOnlyLaidOut'
<1>1. CASE ED(data')
  <2>1. stage' = "extensions" /\ buf' = rest
      BY <1>1 DEF AfterAttested, Decode
  <2> QED
      BY <1>1, <2>1 DEF InProgress, AcceptsOnlyLaidOut
<1>2. CASE ~ED(data')
  <2>1. stage' = Ended(rest)
      BY <1>2 DEF AfterAttested
  <2>2. stage' \in {"ok", "ErrMalformed"} /\ (stage' = "ok" => rest = <<>>)
      BY <2>1 DEF Ended
  <2>3. rest = <<>> => KeyEnd(data', parsed') = Len(data')
    <3> DEFINE n == Len(data')
               k == KeyEnd(data', parsed')
    <3>1. n \in Nat /\ k \in Nat /\ k <= n /\ n <= Len(data')
        OBVIOUS
    <3>2. rest = Between(data', k, n)
        OBVIOUS
    <3> HIDE DEF n, k
    <3>3. Between(data', k, n) = <<>> <=> k = n
        BY <3>1, EmptySlice, Zenon
    <3> QED
        BY <3>2, <3>3 DEF k, n
  <2>4. stage' = "ok" => IsLaidOut(data', parsed')
      BY <1>2, <2>2, <2>3 DEF IsLaidOut
  <2> QED
      BY <2>2, <2>4 DEF InProgress, AcceptsOnlyLaidOut
<1> QED
    BY <1>1, <1>2

\* Parse reads the fixed fields, and starts to decode what is behind them.
LEMMA ParseGoesOn ==
    ASSUME NEW b \in Seq(Byte), Parse(b)
    PROVE  data' \in Seq(Byte) /\ InProgress' /\ AcceptsOnlyLaidOut'
<1>1. data' = b
    BY DEF Parse
<1>2. CASE ~FixedFit(b)
  <2>1. stage' = "ErrTruncated"
      BY <1>2 DEF Parse
  <2> QED
      BY <1>1, <2>1 DEF InProgress, AcceptsOnlyLaidOut
<1>3. CASE FixedFit(b)
  <2>1. parsed' = Fixed(b) /\ FixedFields(data', parsed')
      BY <1>1, <1>3, FixedAreFields DEF Parse
  <2>2. /\ IDEnd(b) \in Nat /\ IDEnd(b) <= Len(b) /\ Len(b) \in Nat
        /\ AT(b) => IDEnd(b) = CredIDStart + CredIDLen(b)
        /\ ~AT(b) => IDEnd(b) = FixedHeaderLen
      BY <1>3, FieldsFit
  <2>3. From(b, IDEnd(b) + 1) = Between(b, IDEnd(b), Len(b))
      BY Zenon DEF From, Between
  <2>4. CASE AT(b)
    <3>1. stage' = "key" /\ buf' = From(b, IDEnd(b) + 1)
        BY <1>3, <2>2, <2>4 DEF Parse, AfterAttested, Decode
    <3> QED
        BY <1>1, <2>1, <2>3, <2>4, <3>1 DEF InProgress, AcceptsOnlyLaidOut
  <2>5. CASE ~AT(b)
    <3>1. AfterAttested(ED(data'), From(b, IDEnd(b) + 1))
        BY <1>1, <1>3, <2>2, <2>5 DEF Parse
    <3>2. KeyEnd(data', parsed') = IDEnd(b) /\ KeyInPlace(data', parsed')
        BY <1>1, <2>5 DEF KeyEnd, KeyInPlace
    <3> QED
        BY <1>1, <2>1, <2>2, <2>3, <3>1, <3>2, GoesOnBehindKey
  <2> QED
      BY <2>4, <2>5
<1> QED
    BY <1>2, <1>3

\* The key ends where Decode says.
LEMMA TakeKeyGoesOn ==
    ASSUME PInv, TakeKey
    PROVE  InProgress' /\ AcceptsOnlyLaidOut'
<1> DEFINE a == IDEnd(data)
           raw == SubSeq(buf, 1, pos)
<1>1. /\ stage = "key" /\ status = "ok" /\ ret.type = "map"
      /\ parsed' = [parsed EXCEPT !.key = ret, !.keyRaw = raw]
      /\ AfterAttested(parsed.ed, From(buf, pos + 1))
      /\ data' = data
    BY DEF TakeKey, MapDecoded
<1>2. /\ FixedFields(data, parsed) /\ AT(data) /\ data \in Seq(Byte)
      /\ buf = Between(data, a, Len(data)) /\ TInv
    BY <1>1 DEF PInv, InProgress
<1>3. a \in Nat /\ a <= Len(data) /\ Len(data) \in Nat
    BY <1>2, FieldsFit DEF FixedFields
<1> HIDE DEF a
<1>4. /\ pos \in Nat /\ a + pos <= Len(data) /\ a + pos \in Nat
      /\ raw = Between(data, a, a + pos)
      /\ Len(raw) = pos
      /\ From(buf, pos + 1) = Between(data, a + pos, Len(data))
      /\ Len(data) - a <= MaxInputSize
      /\ IsDecodable(ret, raw)
    BY <1>1, <1>2, <1>3, Decoded
<1>5. raw \in Seq(Byte)
  <2> DEFINE k == a + pos
  <2>1. /\ data \in Seq(Byte) /\ a \in Nat /\ k \in Nat
        /\ a <= k /\ k <= Len(data)
      BY <1>2, <1>3, <1>4
  <2>2. raw = Between(data, a, k)
      BY <1>4
  <2> HIDE DEF k
  <2>3. Between(data, a, k) \in Seq(Byte)
      BY <2>1, Slice, Zenon
  <2> QED
      BY <2>2, <2>3
<1> HIDE DEF raw
<1>6. FixedFields(data, parsed') /\ parsed'.key = ret /\ parsed'.keyRaw = raw
  <2>1. /\ DecodedFields \subseteq DOMAIN parsed
        /\ parsed = [f \in DOMAIN parsed |-> parsed[f]]
      BY <1>2, FieldNames DEF FixedFields
  <2>2. {"key", "keyRaw"} \subseteq DOMAIN parsed
      BY <2>1 DEF DecodedFields
  <2>3. /\ parsed'.key = ret /\ parsed'.keyRaw = raw
        /\ parsed' = [f \in DOMAIN parsed |-> parsed'[f]]
      BY <1>1, <2>1, <2>2
  <2>4. \A f \in DOMAIN parsed \ DecodedFields : parsed'[f] = parsed[f]
      BY <1>1, <2>1 DEF DecodedFields
  <2>5. FixedFields(data, parsed')
      BY <1>2, <2>3, <2>4, FieldsFilledIn
  <2> QED
      BY <2>3, <2>5
<1>7. KeyEnd(data, parsed') = a + pos
    BY <1>2, <1>4, <1>6 DEF KeyEnd, a
<1>8. KeyInPlace(data, parsed')
    BY <1>1, <1>4, <1>5, <1>6, <1>7 DEF KeyInPlace, a
<1>9. parsed.ed = ED(data)
    BY <1>2, FieldNames
<1> QED
    BY <1>1, <1>2, <1>4, <1>6, <1>7, <1>8, <1>9, GoesOnBehindKey

\* The extensions must be the last bytes.
LEMMA TakeExtensionsEnds ==
    ASSUME PInv, TakeExtensions
    PROVE  InProgress' /\ AcceptsOnlyLaidOut'
<1> DEFINE a == KeyEnd(data, parsed)
<1>1. /\ stage = "extensions" /\ status = "ok" /\ ret.type = "map"
      /\ parsed' = [parsed EXCEPT !.extensions = ret]
      /\ stage' = Ended(From(buf, pos + 1))
      /\ data' = data
    BY DEF TakeExtensions, MapDecoded
<1>2. /\ FixedFields(data, parsed) /\ KeyInPlace(data, parsed) /\ ED(data)
      /\ data \in Seq(Byte)
      /\ buf = Between(data, a, Len(data)) /\ TInv
    BY <1>1 DEF PInv, InProgress
<1>3. a \in Nat /\ a <= Len(data)
    BY <1>2, KeyEndsInside DEF FixedFields
<1> HIDE DEF a
<1>4. /\ a + pos <= Len(data) /\ a + pos \in Nat
      /\ SubSeq(buf, 1, pos) = Between(data, a, a + pos)
      /\ From(buf, pos + 1) = Between(data, a + pos, Len(data))
      /\ Len(data) - a <= MaxInputSize
      /\ IsDecodable(ret, SubSeq(buf, 1, pos))
    BY <1>1, <1>2, <1>3, Decoded
<1>5. /\ FixedFields(data, parsed') /\ parsed'.extensions = ret
      /\ parsed'.key = parsed.key /\ parsed'.keyRaw = parsed.keyRaw
  <2>1. /\ DecodedFields \subseteq DOMAIN parsed
        /\ parsed = [f \in DOMAIN parsed |-> parsed[f]]
      BY <1>2, FieldNames DEF FixedFields
  <2>2. {"key", "keyRaw", "extensions"} \subseteq DOMAIN parsed
      BY <2>1 DEF DecodedFields
  <2>3. /\ parsed'.extensions = ret
        /\ parsed'.key = parsed.key /\ parsed'.keyRaw = parsed.keyRaw
        /\ parsed' = [f \in DOMAIN parsed |-> parsed'[f]]
      BY <1>1, <2>1, <2>2
  <2>4. \A f \in DOMAIN parsed \ DecodedFields : parsed'[f] = parsed[f]
      BY <1>1, <2>1 DEF DecodedFields
  <2>5. FixedFields(data, parsed')
      BY <1>2, <2>3, <2>4, FieldsFilledIn
  <2> QED
      BY <2>3, <2>5
<1>6. KeyEnd(data, parsed') = a /\ KeyInPlace(data, parsed')
    BY <1>2, <1>5 DEF KeyEnd, KeyInPlace, a
<1>7. stage' \in {"ok", "ErrMalformed"}
      /\ (stage' = "ok" => From(buf, pos + 1) = <<>>)
    BY <1>1 DEF Ended
<1>8. From(buf, pos + 1) = <<>> => a + pos = Len(data)
  <2> DEFINE n == Len(data)
             k == a + pos
  <2>1. n \in Nat /\ k \in Nat /\ k <= n /\ n <= Len(data)
      BY <1>2, <1>4
  <2>2. From(buf, pos + 1) = Between(data, k, n)
      BY <1>4
  <2> HIDE DEF n, k
  <2>3. Between(data, k, n) = <<>> <=> k = n
      BY <1>2, <2>1, EmptySlice, Zenon
  <2> QED
      BY <2>2, <2>3 DEF k, n
<1>9. stage' = "ok" => IsLaidOut(data, parsed')
  <2> SUFFICES ASSUME stage' = "ok" PROVE IsLaidOut(data, parsed')
      OBVIOUS
  <2>1. IsDecodable(ret, Between(data, a, Len(data)))
      BY <1>4, <1>7, <1>8
  <2> QED
      BY <1>1, <1>2, <1>4, <1>5, <1>6, <2>1 DEF IsLaidOut
<1> QED
    BY <1>1, <1>7, <1>9 DEF InProgress, AcceptsOnlyLaidOut

\* The parsers hand the decoder nothing but bytes.
LEMMA ParsersMove ==
    ASSUME PInv, [NextParser]_vars
    PROVE  [Moves]_decoder
<1>1. data \in Seq(Byte) /\ buf \in Seq(Byte) /\ pos \in Nat
    BY DEF PInv, TInv, CInv, IInv, Shape
<1>2. \A b \in Seq(Byte), i \in Nat : From(b, i + 1) \in Seq(Byte)
    BY DEF From
<1>3. \A b \in Seq(Byte) : Decode(b) => [Moves]_decoder
    BY DEF Moves
<1>4. \A ed, rest : rest \in Seq(Byte) /\ AfterAttested(ed, rest) => [Moves]_decoder
    BY <1>3 DEF AfterAttested
<1>5. ASSUME NEW b \in Seq(Byte), Parse(b)
      PROVE  [Moves]_decoder
  <2>1. CASE ~FixedFit(b)
      BY <1>5, <2>1 DEF Parse
  <2>2. CASE FixedFit(b)
    <3>1. /\ IDEnd(b) \in Nat
          /\ AT(b) => IDEnd(b) = CredIDStart + CredIDLen(b)
          /\ ~AT(b) => IDEnd(b) = FixedHeaderLen
        BY <2>2, FieldsFit
    <3>2. From(b, IDEnd(b) + 1) \in Seq(Byte)
        BY <1>2, <3>1
    <3>3. CASE AT(b)
      <4>1. Decode(From(b, IDEnd(b) + 1))
          BY <1>5, <2>2, <3>1, <3>3 DEF Parse, AfterAttested
      <4> QED
          BY <1>3, <3>2, <4>1
    <3>4. CASE ~AT(b)
      <4>1. AfterAttested(ED(b), From(b, IDEnd(b) + 1))
          BY <1>5, <2>2, <3>1, <3>4 DEF Parse
      <4> QED
          BY <1>4, <3>2, <4>1
    <3> QED
        BY <3>3, <3>4
  <2> QED
      BY <2>1, <2>2
<1>6. ASSUME TakeKey PROVE [Moves]_decoder
    BY <1>1, <1>2, <1>4, <1>6 DEF TakeKey
<1>7. ASSUME LoadKey PROVE [Moves]_decoder
  <2>1. FixedFields(data, parsed) /\ KeyInPlace(data, parsed) /\ parsed.at
      BY <1>7 DEF LoadKey, PInv, AcceptsOnlyLaidOut, IsLaidOut
  <2>2. AT(data)
      BY <2>1, FieldNames
  <2>3. parsed.keyRaw \in Seq(Byte)
      BY <2>1, <2>2 DEF KeyInPlace
  <2> QED
      BY <1>3, <1>7, <2>3 DEF LoadKey
<1>8. ASSUME NEW b \in Inputs, DecodeObject(b) PROVE [Moves]_decoder
    BY <1>3, <1>8, InputAssumption DEF DecodeObject
<1>9. ASSUME ObjectDecoded \/ Malformed \/ TakeExtensions \/ KeyLoaded
      PROVE  [Moves]_decoder
    BY <1>9 DEF ObjectDecoded, Malformed, TakeExtensions, KeyLoaded
<1>10. ASSUME Decoding \/ Forget PROVE [Moves]_decoder
    BY <1>10 DEF Decoding, Forget, Moves
<1>11. ASSUME UNCHANGED vars PROVE [Moves]_decoder
    BY <1>11 DEF vars
<1> QED
    BY <1>5, <1>6, <1>7, <1>8, <1>9, <1>10, <1>11, AuthDataInputAssumption
       DEF NextParser

\* No step of the parsers disturbs the invariant.
LEMMA NextParserKeepsPInv ==
    ASSUME None \notin Errors, NoneIsNoValue, PInv, [NextParser]_vars
    PROVE  PInv'
<1>1. TInv'
    BY ParsersMove, MovesKeepTInv DEF PInv
<1> SUFFICES data' \in Seq(Byte) /\ InProgress' /\ AcceptsOnlyLaidOut'
    BY <1>1 DEF PInv
<1>2. CASE \E b \in AuthDataInputs : Parse(b)
    BY <1>2, ParseGoesOn, AuthDataInputAssumption
<1>3. CASE TakeKey
  <2>1. data' \in Seq(Byte)
      BY <1>3 DEF PInv, TakeKey
  <2> QED
      BY <1>3, <2>1, TakeKeyGoesOn
<1>4. CASE TakeExtensions
  <2>1. data' \in Seq(Byte)
      BY <1>4 DEF PInv, TakeExtensions
  <2> QED
      BY <1>4, <2>1, TakeExtensionsEnds
<1>5. CASE \/ \E b \in Inputs : DecodeObject(b)
           \/ ObjectDecoded \/ Malformed
  <2>1. UNCHANGED data
        /\ stage' \in {"object", "opened", "ErrMalformedAttestationObject",
                       "ErrMalformed"}
      BY <1>5 DEF DecodeObject, ObjectDecoded, Malformed
  <2> QED
      BY <2>1 DEF PInv, InProgress, AcceptsOnlyLaidOut
<1>6. CASE LoadKey \/ KeyLoaded
  <2>1. /\ UNCHANGED <<data, parsed>> /\ stage \in {"ok", "loading"}
        /\ stage' \in {"loading", "loaded", "ErrCorruptStoredKey"}
      BY <1>6 DEF LoadKey, KeyLoaded
  <2> QED
      BY <2>1 DEF PInv, InProgress, AcceptsOnlyLaidOut
<1>7. CASE Decoding \/ UNCHANGED vars
  <2>1. UNCHANGED <<data, stage, parsed, buf>>
      BY <1>7 DEF Decoding, vars, decoder, Steps, DecodeFails, DecodeScalar,
                  EnterContainer, TakeItem, LeaveContainer, DecodeReturns, Fail
  <2> QED
      BY <2>1 DEF PInv, InProgress, AcceptsOnlyLaidOut
<1>8. CASE Forget
  <2>1. data' = <<>> /\ stage' = "idle"
      BY <1>8 DEF Forget
  <2>2. <<>> \in Seq(Byte)
      OBVIOUS
  <2> QED
      BY <2>1, <2>2 DEF InProgress, AcceptsOnlyLaidOut
<1> QED
    BY <1>2, <1>3, <1>4, <1>5, <1>6, <1>7, <1>8 DEF NextParser

\* Parsers that have not started satisfy the invariant.
LEMMA InitParserHasPInv == InitParser => PInv
<1> SUFFICES ASSUME InitParser PROVE PInv
    OBVIOUS
<1>1. data = <<>> /\ stage = "idle"
    BY DEF InitParser, InitData
<1>2. <<>> \in Seq(Byte)
    OBVIOUS
<1> QED
    BY <1>1, <1>2, InitHasTInv
       DEF InitParser, PInv, InProgress, AcceptsOnlyLaidOut

-----------------------------------------------------------------------------
(* Nothing else was possible.                                              *)

\* Two keys that are the same end at the same place.
LEMMA SameEnd ==
    ASSUME NEW b, NEW p, NEW q, SameKey(b, p, q)
    PROVE  KeyEnd(b, p) = KeyEnd(b, q)
BY DEF SameKey, KeyEnd

\* The key in the data, if there is one to be found, is what comes back.
LEMMA KeyIsFound ==
    ASSUME NEW p, PInv, stage = "key", status \notin {"idle", "running"},
           IsLaidOut(data, p)
    PROVE  /\ MapDecoded /\ ret = p.key /\ p.keyRaw = SubSeq(buf, 1, pos)
           /\ KeyEnd(data, p) = IDEnd(data) + pos
<1> DEFINE a == IDEnd(data)
           e == KeyEnd(data, p)
<1>1. /\ AT(data) /\ buf = Between(data, a, Len(data)) /\ data \in Seq(Byte)
      /\ FixedFit(data) /\ TInv
    BY DEF PInv, InProgress, FixedFields
<1>2. /\ p.keyRaw \in Seq(Byte) /\ p.keyRaw = Between(data, a, e)
      /\ e <= Len(data) /\ Len(data) - a <= MaxInputSize
      /\ p.key.type = "map" /\ IsDecodable(p.key, p.keyRaw)
      /\ e = a + Len(p.keyRaw)
    BY <1>1 DEF IsLaidOut, KeyInPlace, KeyEnd
<1>3. a \in Nat /\ a <= Len(data)
    BY <1>1, FieldsFit
<1> HIDE DEF a, e
<1>4. e \in Nat /\ a <= e
  <2>1. Len(p.keyRaw) \in Nat
      BY <1>2
  <2> QED
      BY <1>2, <1>3, <2>1
<1>5. IsDecodable(p.key, Between(data, a, e))
    BY <1>2
<1> DEFINE v == p.key
<1>6. IsDecodable(v, Between(data, a, e))
    BY <1>5
<1> HIDE DEF v
<1>7. status = "ok" /\ ret = v /\ e = a + pos
    BY <1>1, <1>2, <1>3, <1>4, <1>6, Found
<1>8. SubSeq(buf, 1, pos) = Between(data, a, a + pos)
    BY <1>1, <1>3, <1>7, Decoded
<1> QED
    BY <1>2, <1>7, <1>8 DEF MapDecoded, v, a, e

\* So are the extensions.
LEMMA ExtensionsAreFound ==
    ASSUME NEW p, PInv, NoChoice, stage = "extensions",
           status \notin {"idle", "running"}, IsLaidOut(data, p)
    PROVE  MapDecoded /\ ret = p.extensions /\ From(buf, pos + 1) = <<>>
<1> DEFINE a == KeyEnd(data, parsed)
           n == Len(data)
           v == p.extensions
<1>1. /\ ED(data) /\ buf = Between(data, a, n) /\ data \in Seq(Byte)
      /\ FixedFit(data) /\ KeyInPlace(data, parsed) /\ TInv
    BY DEF PInv, InProgress, FixedFields
<1>2. KeyEnd(data, p) = a
    BY SameEnd DEF NoChoice
<1>3. /\ v.type = "map" /\ n - a <= MaxInputSize
      /\ IsDecodable(v, Between(data, a, n))
    BY <1>1, <1>2 DEF IsLaidOut
<1>4. a \in Nat /\ a <= n
    BY <1>1, KeyEndsInside
<1>5. n \in Nat /\ n <= n /\ n <= Len(data)
    BY <1>1
<1> HIDE DEF a, v
<1>6. status = "ok" /\ ret = v /\ n = a + pos
  <2>1. /\ buf = Between(data, a, Len(data)) /\ a <= Len(data)
        /\ Len(data) - a <= MaxInputSize
      BY <1>1, <1>3, <1>4
  <2> HIDE DEF n
  <2> QED
      BY <1>1, <1>3, <1>4, <1>5, <2>1, Found
<1>7. From(buf, pos + 1) = <<>>
  <2>1. From(buf, pos + 1) = Between(data, a + pos, n)
      BY <1>1, <1>4, <1>6, Decoded
  <2> HIDE DEF n
  <2>2. From(buf, pos + 1) = Between(data, n, n)
      BY <1>6, <2>1
  <2> QED
      BY <1>1, <1>5, <2>2, EmptySlice
<1> QED
    BY <1>3, <1>6, <1>7 DEF MapDecoded, v

\* Behind the attested data, what must follow is decided.
LEMMA NothingElseFollows ==
    ASSUME NEW rest, AfterAttested(ED(data'), rest),
           data' \in Seq(Byte), KeyEnd(data', parsed') \in Nat,
           KeyEnd(data', parsed') <= Len(data'),
           rest = Between(data', KeyEnd(data', parsed'), Len(data')),
           \A p : IsLaidOut(data', p) => SameKey(data', p, parsed')
    PROVE  NoChoice' /\ RefusesNothingLaidOut'
<1>1. CASE ED(data')
  <2>1. stage' = "extensions" /\ status' # "idle"
      BY <1>1 DEF AfterAttested, Decode
  <2> QED
      BY <2>1 DEF NoChoice, RefusesNothingLaidOut
<1>2. CASE ~ED(data')
  <2>1. stage' = Ended(rest)
      BY <1>2 DEF AfterAttested
  <2>2. stage' \in {"ok", "ErrMalformed"} /\ (stage' # "ok" => rest # <<>>)
      BY <2>1 DEF Ended
  <2>3. ASSUME NEW p, IsLaidOut(data', p) PROVE rest = <<>>
    <3> DEFINE n == Len(data')
               k == KeyEnd(data', parsed')
    <3>1. KeyEnd(data', p) = k
        BY <2>3, SameEnd
    <3>2. k = n
        BY <1>2, <2>3, <3>1 DEF IsLaidOut
    <3>3. rest = Between(data', k, n) /\ k \in Nat /\ k <= n /\ n <= Len(data')
        BY <3>2
    <3>4. n \in Nat
        OBVIOUS
    <3> HIDE DEF n, k
    <3> QED
        BY <3>2, <3>3, <3>4, EmptySlice
  <2>4. NoChoice'
      BY <2>2 DEF NoChoice
  <2>5. RefusesNothingLaidOut'
      BY <1>2, <2>2, <2>3 DEF RefusesNothingLaidOut, SameExtensions
  <2> QED
      BY <2>4, <2>5
<1> QED
    BY <1>1, <1>2

\* Parse refuses at once only what is too short or has bytes left over.
LEMMA ParseLeavesNoChoice ==
    ASSUME NEW b \in Seq(Byte), Parse(b)
    PROVE  NoChoice' /\ RefusesNothingLaidOut'
<1>1. data' = b
    BY DEF Parse
<1>2. CASE ~FixedFit(b)
  <2>1. stage' = "ErrTruncated"
      BY <1>2 DEF Parse
  <2>2. \A p : ~IsLaidOut(b, p)
      BY <1>2 DEF IsLaidOut, FixedFields
  <2> QED
      BY <1>1, <2>1, <2>2 DEF NoChoice, RefusesNothingLaidOut
<1>3. CASE FixedFit(b)
  <2>2. /\ IDEnd(b) \in Nat /\ IDEnd(b) <= Len(b) /\ Len(b) \in Nat
        /\ AT(b) => IDEnd(b) = CredIDStart + CredIDLen(b)
        /\ ~AT(b) => IDEnd(b) = FixedHeaderLen
      BY <1>3, FieldsFit
  <2>3. From(b, IDEnd(b) + 1) = Between(b, IDEnd(b), Len(b))
      BY Zenon DEF From, Between
  <2>4. CASE AT(b)
    <3>1. stage' = "key" /\ status' # "idle"
        BY <1>3, <2>2, <2>4 DEF Parse, AfterAttested, Decode
    <3> QED
        BY <3>1 DEF NoChoice, RefusesNothingLaidOut
  <2>5. CASE ~AT(b)
    <3>1. AfterAttested(ED(data'), From(b, IDEnd(b) + 1))
        BY <1>1, <1>3, <2>2, <2>5 DEF Parse
    <3>2. KeyEnd(data', parsed') = IDEnd(b)
        BY <1>1, <2>5 DEF KeyEnd
    <3>3. \A p : SameKey(data', p, parsed')
        BY <1>1, <2>5 DEF SameKey
    <3> QED
        BY <1>1, <2>2, <2>3, <3>1, <3>2, <3>3, NothingElseFollows
  <2> QED
      BY <2>4, <2>5
<1> QED
    BY <1>2, <1>3

\* The key that is taken is the only one.
LEMMA TakeKeyLeavesNoChoice ==
    ASSUME PInv, TakeKey
    PROVE  NoChoice' /\ RefusesNothingLaidOut'
<1> DEFINE a == IDEnd(data)
<1>1. /\ stage = "key" /\ status = "ok" /\ data' = data
      /\ AfterAttested(parsed.ed, From(buf, pos + 1))
      /\ parsed' = [parsed EXCEPT !.key = ret, !.keyRaw = SubSeq(buf, 1, pos)]
    BY DEF TakeKey, MapDecoded
<1>2. /\ FixedFields(data, parsed) /\ AT(data) /\ data \in Seq(Byte)
      /\ buf = Between(data, a, Len(data)) /\ TInv
    BY <1>1 DEF PInv, InProgress
<1>3. a \in Nat /\ a <= Len(data) /\ Len(data) \in Nat
    BY <1>2, FieldsFit DEF FixedFields
<1>4. parsed'.key = ret /\ parsed'.keyRaw = SubSeq(buf, 1, pos)
  <2>1. {"key", "keyRaw"} \subseteq DOMAIN parsed
      BY <1>2, FieldNames DEF DecodedFields
  <2> QED
      BY <1>1, <2>1
<1>5. \A p : IsLaidOut(data, p) => SameKey(data, p, parsed')
  <2> TAKE p
  <2> SUFFICES ASSUME IsLaidOut(data, p) PROVE SameKey(data, p, parsed')
      OBVIOUS
  <2>1. ret = p.key /\ p.keyRaw = SubSeq(buf, 1, pos)
      BY <1>1, KeyIsFound
  <2> QED
      BY <1>4, <2>1 DEF SameKey
<1>6. KeyEnd(data, parsed') = a + Len(SubSeq(buf, 1, pos))
    BY <1>2, <1>4 DEF KeyEnd
<1> HIDE DEF a
<1>7. /\ pos \in Nat /\ a + pos <= Len(data) /\ a + pos \in Nat
      /\ Len(SubSeq(buf, 1, pos)) = pos
      /\ From(buf, pos + 1) = Between(data, a + pos, Len(data))
    BY <1>1, <1>2, <1>3, Decoded
<1>8. KeyEnd(data, parsed') = a + pos
    BY <1>6, <1>7
<1>9. parsed.ed = ED(data)
    BY <1>2, FieldNames
<1> QED
    BY <1>1, <1>2, <1>5, <1>7, <1>8, <1>9, NothingElseFollows

\* The extensions that are taken are the only ones.
LEMMA TakeExtensionsLeavesNoChoice ==
    ASSUME PInv, NoChoice, TakeExtensions
    PROVE  NoChoice' /\ RefusesNothingLaidOut'
<1>1. /\ stage = "extensions" /\ status = "ok" /\ data' = data
      /\ parsed' = [parsed EXCEPT !.extensions = ret]
      /\ stage' = Ended(From(buf, pos + 1))
    BY DEF TakeExtensions, MapDecoded
<1>2. FixedFields(data, parsed)
    BY <1>1 DEF PInv, InProgress
<1>3. /\ parsed'.extensions = ret
      /\ parsed'.key = parsed.key /\ parsed'.keyRaw = parsed.keyRaw
  <2>1. {"key", "keyRaw", "extensions"} \subseteq DOMAIN parsed
      BY <1>2, FieldNames DEF DecodedFields
  <2> QED
      BY <1>1, <2>1
<1>4. stage' \in {"ok", "ErrMalformed"} /\ (stage' # "ok" => From(buf, pos + 1) # <<>>)
    BY <1>1 DEF Ended
<1>5. ASSUME NEW p, IsLaidOut(data, p)
      PROVE  /\ SameKey(data, p, parsed') /\ SameExtensions(data, p, parsed')
             /\ stage' = "ok"
  <2>1. ret = p.extensions /\ From(buf, pos + 1) = <<>>
      BY <1>1, <1>5, ExtensionsAreFound
  <2>2. SameKey(data, p, parsed)
      BY <1>1, <1>5 DEF NoChoice
  <2> QED
      BY <1>3, <1>4, <2>1, <2>2 DEF SameKey, SameExtensions
<1>6. RefusesNothingLaidOut'
    BY <1>1, <1>4, <1>5 DEF RefusesNothingLaidOut
<1>7. NoChoice'
    BY <1>4 DEF NoChoice
<1> QED
    BY <1>6, <1>7

\* What Decode refuses, or is no map, is not laid out.
LEMMA MalformedLeavesNoChoice ==
    ASSUME PInv, NoChoice, Malformed
    PROVE  NoChoice' /\ RefusesNothingLaidOut'
<1>1. /\ stage \in {"key", "extensions"} /\ status # "running" /\ ~MapDecoded
      /\ stage' = "ErrMalformed" /\ data' = data
    BY DEF Malformed
<1>2. status \notin {"idle", "running"}
    BY <1>1 DEF NoChoice
<1>3. ASSUME NEW p, IsLaidOut(data, p) PROVE FALSE
    BY <1>1, <1>2, <1>3, KeyIsFound, ExtensionsAreFound
<1> QED
    BY <1>1, <1>3 DEF NoChoice, RefusesNothingLaidOut

\* A stored key was decoded once, within the limits, and is so again.
LEMMA StoredKeyIsFound ==
    ASSUME PInv, NoChoice, stage = "loading", status # "running"
    PROVE  status = "ok" /\ ret = parsed.key /\ pos = Len(buf)
<1> DEFINE v == parsed.key
           raw == parsed.keyRaw
<1>1. /\ AT(data) /\ buf = raw /\ status # "idle" /\ IsLaidOut(data, parsed)
      /\ TInv
    BY DEF NoChoice, PInv, AcceptsOnlyLaidOut
<1>2. /\ raw \in Seq(Byte) /\ KeyEnd(data, parsed) <= Len(data)
      /\ Len(data) - IDEnd(data) <= MaxInputSize
      /\ KeyEnd(data, parsed) = IDEnd(data) + Len(raw)
      /\ IsDecodable(v, raw)
    BY <1>1 DEF IsLaidOut, KeyInPlace, KeyEnd
<1>3. IDEnd(data) \in Nat /\ Len(data) \in Nat /\ Len(raw) \in Nat
  <2>1. data \in Seq(Byte) /\ FixedFit(data)
      BY <1>1 DEF PInv, IsLaidOut, FixedFields
  <2> QED
      BY <1>2, <2>1, FieldsFit
<1>4. Len(raw) <= MaxInputSize
  <2> HIDE DEF raw
  <2> QED
      BY <1>2, <1>3, LimitAssumption
<1> HIDE DEF v, raw
<1>5. PICK k \in 0 .. MaxElements : HasElements(v, MaxDepth, k)
    BY <1>2 DEF IsDecodable
<1>6. BeginsWith(raw, v, Len(raw), k)
  <2>1. Between(raw, 0, Len(raw)) = raw
      BY <1>2, WholeSlice
  <2>2. Len(raw) \in 0 .. Len(raw)
      BY <1>3
  <2> QED
      BY <1>2, <1>5, <2>1, <2>2 DEF BeginsWith, IsDecodable
<1>7. k <= MaxElements
    BY <1>5, LimitAssumption
<1>8. status = "ok" /\ ret = v /\ pos = Len(raw)
    BY <1>1, <1>4, <1>6, <1>7, TInvRefusesNothing DEF RefusesNothingCanonical
<1> QED
    BY <1>1, <1>8 DEF v

\* A step of a decoder leaves it at work or finished.
LEMMA StepsDoNotIdle ==
    ASSUME None \notin Errors, Steps
    PROVE  status = "running" /\ buf' = buf /\ status' # "idle"
<1>1. status = "running" /\ buf' = buf
    BY DEF Steps, DecodeFails, DecodeScalar, EnterContainer, TakeItem,
           LeaveContainer, DecodeReturns, Called, Fail
<1>2. "idle" \notin Errors
    BY DEF Errors
<1>3. \A spans : OrderError(spans) \in Errors \union {None}
    BY DEF OrderError, Errors
<1>4. CASE DecodeFails
    BY <1>1, <1>2, <1>4, HeadErrorIsError DEF DecodeFails, Fail
<1>5. CASE LeaveContainer
  <2>1. \/ status' = OrderError(Top.spans) /\ OrderError(Top.spans) # None
        \/ status' = status
      BY <1>5 DEF LeaveContainer, Fail
  <2> QED
      BY <1>1, <1>2, <1>3, <2>1
<1>6. CASE DecodeScalar \/ EnterContainer \/ TakeItem \/ DecodeReturns
    BY <1>1, <1>6 DEF DecodeScalar, EnterContainer, TakeItem, DecodeReturns
<1> QED
    BY <1>1, <1>4, <1>5, <1>6 DEF Steps

\* No step of the parsers disturbs the invariant.
LEMMA NextParserKeepsLInv ==
    ASSUME None \notin Errors, NoneIsNoValue, LInv, [NextParser]_vars
    PROVE  LInv'
<1>1. PInv' /\ PInv /\ NoChoice /\ RefusesNothingLaidOut /\ StoredKeyLoads
    BY NextParserKeepsPInv DEF LInv
<1> SUFFICES NoChoice' /\ RefusesNothingLaidOut' /\ StoredKeyLoads'
    BY <1>1 DEF LInv
<1>2. CASE \E b \in AuthDataInputs : Parse(b)
  <2> PICK b \in AuthDataInputs : Parse(b)
      BY <1>2
  <2>1. NoChoice' /\ RefusesNothingLaidOut'
      BY ParseLeavesNoChoice, AuthDataInputAssumption
  <2>2. stage' \in {"ErrTruncated", "key", "extensions", "ok", "ErrMalformed"}
      BY DEF Parse, AfterAttested, Ended
  <2> QED
      BY <2>1, <2>2 DEF StoredKeyLoads
<1>3. CASE TakeKey
  <2>1. stage' \in {"extensions", "ok", "ErrMalformed"}
      BY <1>3 DEF TakeKey, AfterAttested, Ended
  <2> QED
      BY <1>1, <1>3, <2>1, TakeKeyLeavesNoChoice DEF StoredKeyLoads
<1>4. CASE TakeExtensions
  <2>1. stage' \in {"ok", "ErrMalformed"}
      BY <1>4 DEF TakeExtensions, Ended
  <2> QED
      BY <1>1, <1>4, <2>1, TakeExtensionsLeavesNoChoice DEF StoredKeyLoads
<1>5. CASE Malformed
  <2>1. stage' = "ErrMalformed"
      BY <1>5 DEF Malformed
  <2> QED
      BY <1>1, <1>5, <2>1, MalformedLeavesNoChoice DEF StoredKeyLoads
<1>6. CASE \/ \E b \in Inputs : DecodeObject(b)
           \/ ObjectDecoded \/ Forget
  <2>1. stage' \in {"object", "opened", "ErrMalformedAttestationObject", "idle"}
      BY <1>6 DEF DecodeObject, ObjectDecoded, Forget
  <2> QED
      BY <2>1 DEF NoChoice, RefusesNothingLaidOut, StoredKeyLoads
<1>7. CASE LoadKey
  <2>1. /\ UNCHANGED <<data, parsed>> /\ stage = "ok" /\ stage' = "loading"
        /\ parsed.at /\ buf' = parsed.keyRaw /\ status' # "idle"
      BY <1>7 DEF LoadKey, Decode
  <2>2. AT(data)
    <3>1. FixedFields(data, parsed)
        BY <1>1, <2>1 DEF PInv, AcceptsOnlyLaidOut, IsLaidOut
    <3> QED
        BY <2>1, <3>1, FieldNames
  <2> QED
      BY <1>1, <2>1, <2>2 DEF NoChoice, RefusesNothingLaidOut, StoredKeyLoads
<1>8. CASE KeyLoaded
  <2>1. /\ UNCHANGED <<data, parsed, ret, status>>
        /\ stage = "loading" /\ status # "running"
        /\ stage' = IF status = "ok" /\ pos = Len(buf) THEN "loaded"
                    ELSE "ErrCorruptStoredKey"
      BY <1>8 DEF KeyLoaded, decoder
  <2>2. status = "ok" /\ ret = parsed.key /\ pos = Len(buf)
      BY <1>1, <2>1, StoredKeyIsFound
  <2> QED
      BY <1>1, <2>1, <2>2 DEF NoChoice, RefusesNothingLaidOut, StoredKeyLoads
<1>9. CASE Decoding
  <2>1. /\ UNCHANGED <<data, stage, parsed, buf>>
        /\ status = "running" /\ status' # "idle"
      BY <1>9, StepsDoNotIdle DEF Decoding
  <2> QED
      BY <1>1, <2>1 DEF NoChoice, RefusesNothingLaidOut, StoredKeyLoads
<1>10. CASE UNCHANGED vars
    BY <1>1, <1>10 DEF vars, decoder, NoChoice, RefusesNothingLaidOut, StoredKeyLoads
<1> QED
    BY <1>2, <1>3, <1>4, <1>5, <1>6, <1>7, <1>8, <1>9, <1>10 DEF NextParser

\* Parsers that have not started satisfy the invariant.
LEMMA InitParserHasLInv == InitParser => LInv
BY InitParserHasPInv
   DEF InitParser, InitData, LInv, NoChoice, RefusesNothingLaidOut, StoredKeyLoads

-----------------------------------------------------------------------------
(* Theorems.                                                               *)

\* Parse accepts nothing but fields that lie end to end: the key between the
\* credential ID and the extensions, a canonical map on exactly the bytes that
\* are stored; the extensions, a canonical map up to the last byte; and neither
\* unless the flags announce it (parse.go 68-149).
THEOREM AcceptsOnlyFields ==
    ASSUME None \notin Errors, NoneIsNoValue
    PROVE  SpecParser => []AcceptsOnlyLaidOut
<1>1. PInv /\ [NextParser]_vars => PInv'
    BY NextParserKeepsPInv
<1>2. PInv => AcceptsOnlyLaidOut
    BY DEF PInv
<1> QED
    BY InitParserHasPInv, <1>1, <1>2, PTL DEF SpecParser

\* A key or extensions inside authenticator data, and a stored key, cost the
\* decoder no more than an attestation object does: the limits hold for slices
\* of what the browser posted too (decode.go 28-36, parse.go 136-149).
THEOREM ParsersWorkBounded ==
    ASSUME None \notin Errors, NoneIsNoValue
    PROVE  SpecParser => []WorkIsBounded
<1>1. PInv /\ [NextParser]_vars => PInv'
    BY NextParserKeepsPInv
<1>2. PInv => WorkIsBounded
    BY DEF PInv, TInv, CInv, IInv
<1> QED
    BY InitParserHasPInv, <1>1, <1>2, PTL DEF SpecParser

\* And they are canonical, whoever asks for them to be decoded.
THEOREM ParsersAcceptOnlyCanonical ==
    ASSUME None \notin Errors, NoneIsNoValue
    PROVE  SpecParser => []AcceptsOnlyCanonical
<1>1. PInv /\ [NextParser]_vars => PInv'
    BY NextParserKeepsPInv
<1>2. PInv => AcceptsOnlyCanonical
    BY CInvIsCanonical DEF PInv, TInv
<1> QED
    BY InitParserHasPInv, <1>1, <1>2, PTL DEF SpecParser

\* A key or extensions in which a label stands twice are returned to nobody:
\* the algorithm or the coordinate that cose.Parse finds is the only one there
\* (decode.go 67-86, 341-349, key.go 76-87).
THEOREM ParsersReturnNoKeyTwice ==
    ASSUME None \notin Errors, NoneIsNoValue
    PROVE  SpecParser => []NoKeyTwice
<1>1. PInv /\ [NextParser]_vars => PInv'
    BY NextParserKeepsPInv
<1>2. PInv => NoKeyTwice
    BY CInvHasNoKeyTwice DEF PInv, TInv
<1> QED
    BY InitParserHasPInv, <1>1, <1>2, PTL DEF SpecParser

\* Parse refuses no data that is made of its fields, and no data is made of
\* two keys or two extensions: it does not matter what bytes an ID or a key is
\* made of, or where they end, and whatever follows is not taken for a part of
\* them (parse.go 68-149, decode.go 96-111).
THEOREM NothingLaidOutRefused ==
    ASSUME None \notin Errors, NoneIsNoValue
    PROVE  SpecParser => []RefusesNothingLaidOut
<1>1. LInv /\ [NextParser]_vars => LInv'
    BY NextParserKeepsLInv
<1>2. LInv => RefusesNothingLaidOut
    BY DEF LInv
<1> QED
    BY InitParserHasLInv, <1>1, <1>2, PTL DEF SpecParser

\* Whatever key a registration verified, the bytes that it stored are decoded
\* by every later login, to the last one, as this key: a key that ended where
\* Decode said is one that Decode reads to the end (parse.go 136-146,
\* login.go 113-116).
THEOREM StoredKeysLoad ==
    ASSUME None \notin Errors, NoneIsNoValue
    PROVE  SpecParser => []StoredKeyLoads
<1>1. LInv /\ [NextParser]_vars => LInv'
    BY NextParserKeepsLInv
<1>2. LInv => StoredKeyLoads
    BY DEF LInv
<1> QED
    BY InitParserHasLInv, <1>1, <1>2, PTL DEF SpecParser

=============================================================================
