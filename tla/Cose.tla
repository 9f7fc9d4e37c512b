-------------------------------- MODULE Cose --------------------------------
(***************************************************************************)
(* internal/cose/key.go, which turns a decoded COSE_Key into a public key  *)
(* with the algorithm it declares, and verifySignature of                  *)
(* internal/ceremony/login.go, which uses the two.                         *)
(*                                                                         *)
(* A COSE_Key is a function from labels to values.  Of a byte string it    *)
(* keeps what its meaning depends on: its length (in bytes, or of a number *)
(* in bits), and the keypair and part of it that the bytes are.  A keypair *)
(* has an owner and a type.  Cryptography is perfect: a signature is the   *)
(* keypair, scheme and message it was made with, and nothing else has its  *)
(* bytes.                                                                  *)
(***************************************************************************)
EXTENDS Integers

CONSTANT None

KeyTypes == {"P-256", "P-384", "P-521", "RSA", "Ed25519"}

ktyOKP == 1
ktyEC2 == 2
ktyRSA == 3

labelKty == 1
labelAlg == 3
labelCrv == -1      \* of EC2 and OKP
labelX   == -2
labelY   == -3
labelN   == -1      \* of RSA
labelE   == -2

AlgES256 == -7
AlgEdDSA == -8
AlgRS256 == -257

curves == [crv \in 1 .. 3 |-> <<"P-256", "P-384", "P-521">>[crv]]
curveEd25519 == 6
coordLen == [curve \in {"P-256", "P-384", "P-521"} |->
                CASE curve = "P-256" -> 32
                  [] curve = "P-384" -> 48
                  [] curve = "P-521" -> 66]
ed25519KeySize    == 32
minRSAModulusBits == 2048

IntValue(n) == [type |-> "int", int |-> n]
BytesOf(kp, part, len) == [type |-> "bytes", kp |-> kp, part |-> part, len |-> len]

Has(k, label, type) == label \in DOMAIN k /\ k[label].type = type

\* Value.Int, which is zero in a value that is no integer.
IntOf(v) == IF v.type = "int" THEN v.int ELSE 0

-----------------------------------------------------------------------------
(* Parse.                                                                  *)

\* NewPublicKey takes the coordinates for a point of the curve.  Those of
\* different points are not a point.
OnCurve(x, y, curve) ==
    /\ x.kp = y.kp /\ x.kp # None /\ x.kp.type = curve
    /\ x.part = "x" /\ y.part = "y"

EC2Error(k) ==
    CASE \/ labelCrv \notin DOMAIN k
         \/ ~Has(k, labelX, "bytes")
         \/ ~Has(k, labelY, "bytes")              -> "ErrMalformedKey"
      [] OTHER ->
            IF IntOf(k[labelCrv]) \notin DOMAIN curves THEN "ErrUnsupportedCurve"
            ELSE LET curve == curves[IntOf(k[labelCrv])]
                 IN  IF /\ k[labelX].len = coordLen[curve]
                        /\ k[labelY].len = coordLen[curve]
                        /\ OnCurve(k[labelX], k[labelY], curve)
                     THEN None ELSE "ErrMalformedKey"

OKPError(k) ==
    IF labelCrv \notin DOMAIN k THEN "ErrMalformedKey"
    ELSE IF IntOf(k[labelCrv]) # curveEd25519 THEN "ErrUnsupportedCurve"
    ELSE IF Has(k, labelX, "bytes") /\ k[labelX].len = ed25519KeySize
    THEN None ELSE "ErrMalformedKey"

\* The lengths are in bits: 0 is the number zero, and a positive exponent is
\* at most maxRSAExponent when it has at most 31.
RSAError(k) ==
    IF /\ Has(k, labelN, "bytes") /\ Has(k, labelE, "bytes")
       /\ k[labelN].len >= minRSAModulusBits
       /\ k[labelE].len \in 1 .. 31
    THEN None ELSE "ErrMalformedKey"

\* k is None when the value is no map.
KeyError(k) ==
    IF k = None THEN "ErrMalformedKey"
    ELSE IF ~Has(k, labelKty, "int") \/ ~Has(k, labelAlg, "int")
    THEN "ErrMalformedKey"
    ELSE CASE k[labelKty].int = ktyEC2 -> EC2Error(k)
           [] k[labelKty].int = ktyRSA -> RSAError(k)
           [] k[labelKty].int = ktyOKP -> OKPError(k)
           [] OTHER                    -> "ErrUnsupportedKeyType"

\* The keypair whose public key the two strings are.
Owner(a, b, type) ==
    IF a.kp = b.kp /\ a.kp # None /\ a.kp.type = type THEN a.kp ELSE None

\* What Parse returns without an error.
Key(k) ==
    [alg |-> k[labelAlg].int,
     kty |-> k[labelKty].int,
     kp  |-> CASE k[labelKty].int = ktyEC2 -> k[labelX].kp
               [] k[labelKty].int = ktyRSA -> Owner(k[labelN], k[labelE], "RSA")
               [] k[labelKty].int = ktyOKP ->
                     Owner(k[labelX], k[labelX], "Ed25519")]

-----------------------------------------------------------------------------
(* verifySignature.                                                        *)

Scheme == [alg \in {AlgES256, AlgRS256, AlgEdDSA} |->
              CASE alg = AlgES256 -> ktyEC2
                [] alg = AlgRS256 -> ktyRSA
                [] alg = AlgEdDSA -> ktyOKP]

Signature(kp, alg, message) == [kp |-> kp, alg |-> alg, over |-> message]

SignatureError(alg, key, message, sig) ==
    IF alg \notin DOMAIN Scheme THEN "ErrUnsupportedAlgorithm"
    ELSE IF key.kty # Scheme[alg] THEN "ErrUnsupportedAlgorithm"
    ELSE IF key.kp = None \/ sig # Signature(key.kp, alg, message)
    THEN "ErrSignatureVerification" ELSE None

-----------------------------------------------------------------------------
(* encodeCOSEKeyEC2, RSA and OKP of internal/webauthntest: the keys that   *)
(* authenticators present.                                                 *)

EncodeKey(kp, alg) ==
    CASE kp.type \in DOMAIN coordLen ->
            [l \in {labelKty, labelAlg, labelCrv, labelX, labelY} |->
                CASE l = labelKty -> IntValue(ktyEC2)
                  [] l = labelAlg -> IntValue(alg)
                  [] l = labelCrv -> IntValue(CHOOSE c \in DOMAIN curves :
                                                 curves[c] = kp.type)
                  [] l = labelX   -> BytesOf(kp, "x", coordLen[kp.type])
                  [] l = labelY   -> BytesOf(kp, "y", coordLen[kp.type])]
      [] kp.type = "RSA" ->
            [l \in {labelKty, labelAlg, labelN, labelE} |->
                CASE l = labelKty -> IntValue(ktyRSA)
                  [] l = labelAlg -> IntValue(alg)
                  [] l = labelN   -> BytesOf(kp, "n", minRSAModulusBits)
                  [] l = labelE   -> BytesOf(kp, "e", 17)]
      [] kp.type = "Ed25519" ->
            [l \in {labelKty, labelAlg, labelCrv, labelX} |->
                CASE l = labelKty -> IntValue(ktyOKP)
                  [] l = labelAlg -> IntValue(alg)
                  [] l = labelCrv -> IntValue(curveEd25519)
                  [] l = labelX   -> BytesOf(kp, "x", ed25519KeySize)]

=============================================================================
