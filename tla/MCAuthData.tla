----------------------------- MODULE MCAuthData -----------------------------
(***************************************************************************)
(* AuthData on what an authenticator builds, whole and damaged: cut short  *)
(* at every byte, continued, its flags changed, its lengths off by one.    *)
(* And with any of CborInputs for an attestation object.                   *)
(***************************************************************************)
EXTENDS AuthData, CborInputs

\* buildAuthDataRegistration and buildAuthDataAssertion of the tests'
\* authenticator, with any flags, and extensions if they announce some.
BitIf(set, bit) == IF set THEN bit ELSE 0

FlagsOf(p) == BitIf(p.up, 1) + BitIf(p.uv, 4) + BitIf(p.be, 8) + BitIf(p.bs, 16)
              + BitIf(p.at, 64) + BitIf(p.ed, 128)

Build(p, reserved) ==
    p.rpIDHash \o <<FlagsOf(p) + reserved>> \o p.signCount
    \o (IF p.at THEN p.aaguid
                     \o <<Len(p.credentialID) \div 256, Len(p.credentialID) % 256>>
                     \o p.credentialID \o Encode(p.key)
                ELSE <<>>)
    \o (IF p.ed THEN Encode(p.extensions) ELSE <<>>)

\* The two bits of the flags that mean nothing.
Reserved == {0, 2, 32, 34}

-----------------------------------------------------------------------------
(* What authenticators build.                                              *)

UInt(n) == [type |-> "uint", n |-> Digits(<<n>>)]
Text(t) == [type |-> "text", string |-> t]
Map(entries) == [type |-> "map", entries |-> entries]
Entry(k, v) == [key |-> k, val |-> v]

\* A key of two labels, as in COSE, and extensions with a map inside.
Keys == {Map(<<>>),
         Map(<<Entry(UInt(1), UInt(2)),
               Entry(UInt(3), [type |-> "negint", n |-> <<6>>])>>)}
ExtensionMaps == {Map(<<>>), Map(<<Entry(Text(<<99>>), Map(<<>>))>>)}
IDs == {<<>>, <<64, 192>>, [i \in 1 .. 256 |-> 160]}

Fill(n, b) == [i \in 1 .. n |-> b]

Contents ==
    [rpIDHash : {Fill(32, 161)}, signCount : {<<0, 0, 1, 2>>},
     up : BOOLEAN, uv : BOOLEAN, be : BOOLEAN, bs : BOOLEAN,
     at : BOOLEAN, ed : BOOLEAN,
     aaguid : {Fill(16, 160)}, credentialID : IDs, key : Keys,
     extensions : ExtensionMaps]

Built == {Build(p, r) : p \in Contents, r \in Reserved}

\* One of each layout, to be damaged.
Layouts ==
    {Build([p EXCEPT !.up = TRUE], 0) :
        p \in {q \in Contents : ~(q.up \/ q.uv \/ q.be \/ q.bs)
                                /\ Len(q.credentialID) # 256}}

Damaged ==
    UNION {{SubSeq(b, 1, n) : n \in 0 .. Len(b)} : b \in Layouts}
    \union {b \o tail : b \in Layouts, tail \in {<<0>>, <<160>>, <<160, 160>>}}
    \union {[b EXCEPT ![RPIDHashLen + 1] = f] : b \in Layouts, f \in Byte}
    \union {[b EXCEPT ![CredIDStart] = n] :
               b \in {l \in Layouts : AT(l)}, n \in 0 .. 6}
    \union {[b EXCEPT ![CredIDStart - 1] = 255] : b \in {l \in Layouts : AT(l)}}

ParserInputs == Built \union Damaged
ObjectInputs == StructureInputs \union HeadInputs

LegalEncodings == {Encode(v) : v \in {s \in Samples : Legal(s)}}

-----------------------------------------------------------------------------
(* Properties.                                                             *)

Finished == {"ok", "loading", "loaded"}

\* What Parse accepts is what an authenticator builds from the fields it
\* returns: every byte is in one field, no field overlaps another, and the
\* flags say what is there (parse.go 68-117).
AcceptsOnlyBuilt ==
    stage \in Finished => \E r \in Reserved : Build(parsed, r) = data

\* Parse refuses nothing an authenticator builds, whatever bytes its ID and
\* key are made of and wherever they end (parse.go 91-149).
RefusesOnlyUnbuilt ==
    stage \in {"ErrTruncated", "ErrMalformed"} => data \notin Built

\* Decode refuses no input that begins with the encoding of a legal value:
\* the depth is counted down, a limit is off by none, and no order of keys
\* but the encoder's is asked for (decode.go 27-37, 142-196, 342-364).
RefusesOnlyIllegal ==
    status \in Errors /\ Len(buf) <= MaxInputSize =>
        \A n \in 0 .. Len(buf) : SubSeq(buf, 1, n) \notin LegalEncodings

=============================================================================
