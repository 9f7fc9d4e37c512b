------------------------- MODULE VerificationProofs -------------------------
(***************************************************************************)
(* Theorems of Verification, for any authenticators, pages and postings.   *)
(***************************************************************************)
EXTENDS Verification, TLAPS

\* None is no function and so none of the records it is told apart from, as a
\* null pointer is no struct.  TLC's None is a model value, and that none.
IsAFunction(f) == f = [x \in DOMAIN f |-> f[x]]
NoneIsNoFunction == ~IsAFunction(None)

-----------------------------------------------------------------------------
(* The keys that authenticators present.                                   *)

\* The curve that EncodeKey writes for a type is one of that type
\* (virtualauth.go 307-350).
LEMMA CurveNumber ==
    ASSUME NEW type \in DOMAIN coordLen
    PROVE  LET c == CHOOSE n \in DOMAIN curves : curves[n] = type
           IN  c \in DOMAIN curves /\ curves[c] = type
<1>1. type \in {"P-256", "P-384", "P-521"}
    BY DEF coordLen
<1>2. DOMAIN curves = 1 .. 3
    BY DEF curves
<1>3. curves[1] = "P-256" /\ curves[2] = "P-384" /\ curves[3] = "P-521"
    BY DEF curves
<1>4. \E n \in DOMAIN curves : curves[n] = type
    BY <1>1, <1>2, <1>3
<1> QED
    BY <1>4

\* The key that an authenticator presents, of any type and under whatever
\* algorithm it declares, parses to its keypair (key.go 76-111,
\* webauthntest/virtualauth.go 307-350).
THEOREM EncodedKeyParses ==
    ASSUME NoneIsNoFunction,
           NEW kp, kp # None, kp.type \in KeyTypes, NEW alg \in Int
    PROVE  /\ KeyError(EncodeKey(kp, alg)) = None
           /\ Key(EncodeKey(kp, alg)).alg = alg
           /\ Key(EncodeKey(kp, alg)).kp = kp
           /\ Key(EncodeKey(kp, alg)).kty =
                  CASE kp.type = "RSA" -> ktyRSA
                    [] kp.type = "Ed25519" -> ktyOKP
                    [] OTHER -> ktyEC2
<1> DEFINE k == EncodeKey(kp, alg)
<1>0. /\ labelKty = 1 /\ labelAlg = 3 /\ labelCrv = -1 /\ labelX = -2
      /\ labelY = -3 /\ labelN = -1 /\ labelE = -2
      /\ ktyEC2 = 2 /\ ktyRSA = 3 /\ ktyOKP = 1
    BY DEF labelKty, labelAlg, labelCrv, labelX, labelY, labelN, labelE,
           ktyEC2, ktyRSA, ktyOKP
<1>1. CASE kp.type \in DOMAIN coordLen
  <2> DEFINE c == CHOOSE n \in DOMAIN curves : curves[n] = kp.type
             len == coordLen[kp.type]
             f == [l \in {labelKty, labelAlg, labelCrv, labelX, labelY} |->
                CASE l = labelKty -> IntValue(ktyEC2)
                  [] l = labelAlg -> IntValue(alg)
                  [] l = labelCrv -> IntValue(c)
                  [] l = labelX   -> BytesOf(kp, "x", len)
                  [] l = labelY   -> BytesOf(kp, "y", len)]
  <2>1. c \in DOMAIN curves /\ curves[c] = kp.type
      BY <1>1, CurveNumber
  <2>a. kp.type # "RSA" /\ kp.type # "Ed25519"
      BY <1>1 DEF coordLen
  <2>2. k = f
      BY <1>1, <2>a, Zenon DEF EncodeKey
  <2> HIDE DEF k, c, len
  <2>3. /\ DOMAIN f = {labelKty, labelAlg, labelCrv, labelX, labelY}
        /\ f[labelKty] = IntValue(ktyEC2) /\ f[labelAlg] = IntValue(alg)
        /\ f[labelCrv] = IntValue(c)
        /\ f[labelX] = BytesOf(kp, "x", len)
        /\ f[labelY] = BytesOf(kp, "y", len)
      BY <1>0
  <2>4. k # None
      BY <2>2 DEF NoneIsNoFunction, IsAFunction
  <2> HIDE DEF f
  <2>5. /\ Has(k, labelKty, "int") /\ k[labelKty].int = ktyEC2
        /\ Has(k, labelAlg, "int") /\ k[labelAlg].int = alg
        /\ labelCrv \in DOMAIN k /\ IntOf(k[labelCrv]) = c
        /\ Has(k, labelX, "bytes") /\ Has(k, labelY, "bytes")
        /\ k[labelX].len = len /\ k[labelY].len = len
        /\ k[labelX].kp = kp /\ OnCurve(k[labelX], k[labelY], kp.type)
      BY <2>2, <2>3 DEF Has, IntOf, IntValue, BytesOf, OnCurve
  <2>6. EC2Error(k) = None
      BY <2>1, <2>5, Zenon DEF EC2Error, len
  <2>7. KeyError(k) = None
      BY <1>0, <2>4, <2>5, <2>6 DEF KeyError
  <2>8. Key(k).alg = alg /\ Key(k).kp = kp /\ Key(k).kty = ktyEC2
      BY <1>0, <2>5 DEF Key
  <2> QED
      BY <1>1, <2>7, <2>8 DEF k, coordLen
<1>2. CASE kp.type = "RSA"
  <2> DEFINE f == [l \in {labelKty, labelAlg, labelN, labelE} |->
                CASE l = labelKty -> IntValue(ktyRSA)
                  [] l = labelAlg -> IntValue(alg)
                  [] l = labelN   -> BytesOf(kp, "n", minRSAModulusBits)
                  [] l = labelE   -> BytesOf(kp, "e", 17)]
  <2>1. k = f
      BY <1>2 DEF EncodeKey, coordLen
  <2> HIDE DEF k
  <2>2. /\ DOMAIN f = {labelKty, labelAlg, labelN, labelE}
        /\ f[labelKty] = IntValue(ktyRSA) /\ f[labelAlg] = IntValue(alg)
        /\ f[labelN] = BytesOf(kp, "n", minRSAModulusBits)
        /\ f[labelE] = BytesOf(kp, "e", 17)
      BY <1>0
  <2>3. k # None
      BY <2>1 DEF NoneIsNoFunction, IsAFunction
  <2> HIDE DEF f
  <2>4. /\ Has(k, labelKty, "int") /\ k[labelKty].int = ktyRSA
        /\ Has(k, labelAlg, "int") /\ k[labelAlg].int = alg
        /\ Has(k, labelN, "bytes") /\ Has(k, labelE, "bytes")
        /\ k[labelN].len = minRSAModulusBits /\ k[labelE].len = 17
        /\ k[labelN].kp = kp /\ k[labelE].kp = kp
      BY <2>1, <2>2 DEF Has, IntValue, BytesOf
  <2>5. RSAError(k) = None
      BY <2>4 DEF RSAError, minRSAModulusBits
  <2>6. KeyError(k) = None
      BY <1>0, <2>3, <2>4, <2>5 DEF KeyError
  <2>7. Key(k).alg = alg /\ Key(k).kp = kp /\ Key(k).kty = ktyRSA
      BY <1>0, <1>2, <2>4 DEF Key, Owner
  <2> QED
      BY <1>2, <2>6, <2>7 DEF k
<1>3. CASE kp.type = "Ed25519"
  <2> DEFINE f == [l \in {labelKty, labelAlg, labelCrv, labelX} |->
                CASE l = labelKty -> IntValue(ktyOKP)
                  [] l = labelAlg -> IntValue(alg)
                  [] l = labelCrv -> IntValue(curveEd25519)
                  [] l = labelX   -> BytesOf(kp, "x", ed25519KeySize)]
  <2>1. k = f
      BY <1>3 DEF EncodeKey, coordLen
  <2> HIDE DEF k
  <2>2. /\ DOMAIN f = {labelKty, labelAlg, labelCrv, labelX}
        /\ f[labelKty] = IntValue(ktyOKP) /\ f[labelAlg] = IntValue(alg)
        /\ f[labelCrv] = IntValue(curveEd25519)
        /\ f[labelX] = BytesOf(kp, "x", ed25519KeySize)
      BY <1>0
  <2>3. k # None
      BY <2>1 DEF NoneIsNoFunction, IsAFunction
  <2> HIDE DEF f
  <2>4. /\ Has(k, labelKty, "int") /\ k[labelKty].int = ktyOKP
        /\ Has(k, labelAlg, "int") /\ k[labelAlg].int = alg
        /\ labelCrv \in DOMAIN k /\ IntOf(k[labelCrv]) = curveEd25519
        /\ Has(k, labelX, "bytes") /\ k[labelX].len = ed25519KeySize
        /\ k[labelX].kp = kp
      BY <2>1, <2>2 DEF Has, IntOf, IntValue, BytesOf
  <2>5. OKPError(k) = None
      BY <2>4 DEF OKPError
  <2>6. KeyError(k) = None
      BY <1>0, <2>3, <2>4, <2>5 DEF KeyError
  <2>7. Key(k).alg = alg /\ Key(k).kp = kp /\ Key(k).kty = ktyOKP
      BY <1>0, <1>3, <2>4 DEF Key, Owner
  <2> QED
      BY <1>3, <2>6, <2>7 DEF k
<1> QED
    BY <1>1, <1>2, <1>3 DEF KeyTypes, coordLen

-----------------------------------------------------------------------------
(* The invariant.                                                          *)

\* The store holds what was registered, under the algorithm of its key.
CredsEnrolled ==
    \A id \in Ids : creds[id] # None =>
        LET c == creds[id]
        IN  /\ c = [user |-> c.user, key |-> c.key, alg |-> c.alg, count |-> c.count]
            /\ KeyError(c.key) = None /\ Key(c.key).alg = c.alg
            /\ \E e \in enrolled : /\ e.user = c.user /\ e.id = id
                                   /\ e.key = Key(c.key)

\* A challenge is pending for one name and purpose, or used up.
ChallengesServeOnce ==
    /\ \A k, l \in Names \X Purposes :
          /\ pending[k] # None => pending[k] \in issued
          /\ pending[k] = pending[l] /\ pending[k] # None => k = l
    /\ \A s \in sessions : /\ s.challenge \in issued /\ s.challenge # None
                           /\ \A k \in Names \X Purposes : pending[k] # s.challenge
    /\ \A s, z \in sessions : s.challenge = z.challenge => s = z

Shape == DOMAIN pending = Names \X Purposes /\ DOMAIN creds = Ids

IInv == /\ Shape
        /\ CredsEnrolled
        /\ ChallengesServeOnce
        /\ SessionsAreSigned
        /\ SelfAttestedKeysAreHeld

-----------------------------------------------------------------------------
(* What it takes to get past the checks.                                   *)

USE WorldAssumption DEF Errors

\* A signature that verifySignature accepts (login.go 158-201).
LEMMA GoodSignature ==
    ASSUME NEW alg, NEW key, NEW message, NEW sig,
           SignatureError(alg, key, message, sig) = None
    PROVE  key.kp # None /\ sig = Signature(key.kp, alg, message)
BY DEF SignatureError

\* Client data that passes the first checks (login.go 70-81).
LEMMA GoodClientData ==
    ASSUME NEW client, NEW type, ClientError(client, type) = None
    PROVE  client.type = type /\ client.challenge # None
BY DEF ClientError

\* A challenge that Consume accepts (challenge.go 99-119).
LEMMA GoodChallenge ==
    ASSUME NEW k, NEW c, ConsumeError(k, c) = None
    PROVE  pending[k] # None /\ pending[k] = c
BY DEF ConsumeError

\* Authenticator data that passes the checks (login.go 101-111).
LEMMA GoodAuthData ==
    ASSUME NEW authData, NEW o, AuthDataError(authData, o) = None
    PROVE  authData.rpID = RPID /\ authData.up
BY DEF AuthDataError, FlagsPass, RPIDHashPasses

\* Past the signature, and stopped by the counter at most (login.go 113-149).
LEMMA GoodCredential ==
    ASSUME NEW cred, NEW client, NEW authData, NEW sig,
           \/ CredentialError(cred, client, authData, sig) = None
           \/ CredentialError(cred, client, authData, sig) = "ErrCounterRegression"
    PROVE  /\ Key(cred.key).alg = cred.alg
           /\ sig = Signature(Key(cred.key).kp, cred.alg,
                              SignedOver(authData, client))
<1> DEFINE error == SignatureError(cred.alg, Key(cred.key),
                                   SignedOver(authData, client), sig)
<1>1. KeyError(cred.key) \in Errors \union {None} 
      /\ KeyError(cred.key) # "ErrCounterRegression"
    BY DEF KeyError, EC2Error, RSAError, OKPError
<1>2. error # "ErrCounterRegression"
    BY DEF SignatureError
<1>3. Key(cred.key).alg = cred.alg /\ error = None
    BY <1>1, <1>2 DEF CredentialError
<1> QED
    BY <1>3, GoodSignature

\* What a login that succeeds has been through (login.go 70-149).
LEMMA GoodLogin ==
    ASSUME NEW id, NEW client, NEW authData, NEW sig, NEW o,
           LoginError(id, client, authData, sig, o) = None
    PROVE  /\ client.origin \in Origins
           /\ creds[id] # None
           /\ authData.rpID = RPID /\ authData.up
           /\ Key(creds[id].key).alg = creds[id].alg
           /\ sig = Signature(Key(creds[id].key).kp, creds[id].alg,
                              SignedOver(authData, client))
<1>1. /\ client.origin \in Origins
      /\ creds[id] # None
      /\ AuthDataError(authData, o) = None
      /\ CredentialError(creds[id], client, authData, sig) = None
    BY DEF LoginError, OriginPasses, First
<1> QED
    BY <1>1, GoodAuthData, GoodCredential

\* What a registration that succeeds has been through (register.go 76-125).
LEMMA GoodRegistration ==
    ASSUME NEW client, NEW obj, NEW o, RegisterError(client, obj, o) = None
    PROVE  /\ obj # None
           /\ KeyError(obj.authData.attested.key) = None
           /\ AttestationError(obj, client, Key(obj.authData.attested.key)) = None
BY DEF RegisterError, First

-----------------------------------------------------------------------------
(* Registrations and the store.                                            *)

\* A packed statement without a certificate is signed by the new key
\* (attestation.go 70-97).
LEMMA SelfSigned ==
    ASSUME NEW client, NEW obj \in PostedAttestations, NEW o,
           RegisterError(client, obj, o) = None,
           obj.fmt = "packed", "x5c" \notin DOMAIN obj.stmt
    PROVE  \E g \in signed :
               /\ g.kp = Key(obj.authData.attested.key).kp
               /\ g.over = SignedOver(obj.authData, client)
<1> DEFINE key == Key(obj.authData.attested.key)
           message == SignedOver(obj.authData, client)
           sig == obj.stmt["sig"].sig
<1>1. obj # None /\ AttestationError(obj, client, key) = None
    BY GoodRegistration
<1>2. /\ PackedDecodes(obj.stmt)
      /\ PackedVerifies(obj.stmt, message, key)
    BY <1>1 DEF AttestationError
<1>3. Has(obj.stmt, "sig", "bytes")
    BY <1>2 DEF PackedDecodes
<1>4. SignatureError(key.alg, key, message, sig) = None
    BY <1>2 DEF PackedVerifies
<1>5. key.kp # None /\ sig = Signature(key.kp, key.alg, message)
    BY <1>4, GoodSignature
<1>6. sig.kp = key.kp /\ sig.over = message
    BY <1>5 DEF Signature
<1>7. CASE obj \in OtherAttestations
    BY <1>1, <1>3, <1>5, <1>6, <1>7, ForgeryAssumption
<1>8. CASE \E a \in Authenticators, page \in Pages, id \in Ids :
              obj = AttestationNone(AuthDataRegistration(a, page, id))
    BY <1>8 DEF AttestationNone
<1>9. CASE \E d \in SignedAuthData, s \in signed : obj = AttestationSelf(d, s)
  <2>1. PICK d \in SignedAuthData, s \in signed : obj = AttestationSelf(d, s)
    BY <1>9
  <2>2. sig = s
    BY <2>1 DEF AttestationSelf, StatementSelf
  <2> QED
    BY <2>2, <1>6
<1>10. CASE \E d \in SignedAuthData, s \in signed :
              obj = AttestationFull(d, s, AttestationCert)
    BY <1>10 DEF AttestationFull
<1> QED
    BY <1>7, <1>8, <1>9, <1>10 DEF PostedAttestations

\* Registrations: one that fails leaves them alone, one that succeeds adds
\* a verified one.
LEMMA RegisterKeepsRegistrations ==
    ASSUME Shape, CredsEnrolled, SelfAttestedKeysAreHeld,
           NEW user, NEW client, NEW obj \in PostedAttestations, NEW o,
           RegisterFinish(user, client, obj, o)
    PROVE  Shape' /\ CredsEnrolled' /\ SelfAttestedKeysAreHeld'
<1> DEFINE at == obj.authData.attested
           new == [user |-> user, id |-> at.id, key |-> Key(at.key),
                   client |-> client, obj |-> obj]
           stored == [user |-> user, key |-> at.key, alg |-> Key(at.key).alg,
                      count |-> obj.authData.count]
           k == <<user, "register">>
<1>1. Shape'
    BY DEF RegisterFinish, Refuse, Spend, Shape
<1>2. CASE Refuse(k)
    BY <1>1, <1>2 DEF Refuse, CredsEnrolled, SelfAttestedKeysAreHeld
<1>3. CASE ~Refuse(k)
  <2>1. /\ RegisterError(client, obj, o) = None
        /\ creds' = [creds EXCEPT ![at.id] = stored]
        /\ enrolled' = enrolled \union {new}
        /\ signed' = signed
    BY <1>3 DEF RegisterFinish, First
  <2>2. KeyError(at.key) = None
    BY <2>1, GoodRegistration
  <2>3. CredsEnrolled'
    <3> SUFFICES ASSUME NEW id \in Ids, creds'[id] # None
                 PROVE  /\ creds'[id] = [user |-> creds'[id].user,
                              key |-> creds'[id].key, alg |-> creds'[id].alg,
                              count |-> creds'[id].count]
                        /\ KeyError(creds'[id].key) = None
                        /\ Key(creds'[id].key).alg = creds'[id].alg
                        /\ \E e \in enrolled' :
                              /\ e.user = creds'[id].user /\ e.id = id
                              /\ e.key = Key(creds'[id].key)
      BY DEF CredsEnrolled
    <3>1. CASE id = at.id
      <4>1. creds'[id] = stored
        BY <3>1, <2>1 DEF Shape
      <4>2. new \in enrolled' /\ new.user = user /\ new.id = id
            /\ new.key = Key(at.key)
        BY <2>1, <3>1
      <4> HIDE DEF new
      <4> QED
        BY <4>1, <4>2, <2>2
    <3>2. CASE id # at.id
      <4>1. creds'[id] = creds[id]
        BY <3>2, <2>1 DEF Shape
      <4> QED
        BY <4>1, <2>1 DEF CredsEnrolled
    <3> QED
      BY <3>1, <3>2
  <2>4. SelfAttestedKeysAreHeld'
    <3> SUFFICES ASSUME NEW e \in enrolled',
                        e.obj.fmt = "packed", "x5c" \notin DOMAIN e.obj.stmt
                 PROVE  \E g \in signed : /\ g.kp = e.key.kp
                            /\ g.over = SignedOver(e.obj.authData, e.client)
      BY <2>1 DEF SelfAttestedKeysAreHeld
    <3>1. CASE e \in enrolled
      BY <3>1 DEF SelfAttestedKeysAreHeld
    <3>2. CASE e = new
      <4>1. e.obj = obj /\ e.client = client /\ e.key = Key(at.key)
        BY <3>2
      <4> QED
        BY <4>1, <2>1, SelfSigned
    <3> QED
      BY <3>1, <3>2, <2>1
  <2> QED
    BY <1>1, <2>3, <2>4
<1> QED
    BY <1>2, <1>3

\* A login changes the counter of a record and nothing else in the store.
LEMMA LoginKeepsRegistrations ==
    ASSUME Shape, CredsEnrolled, SelfAttestedKeysAreHeld,
           NEW name, NEW id \in Ids, NEW client, NEW authData, NEW sig, NEW o,
           LoginFinish(name, id, client, authData, sig, o)
    PROVE  Shape' /\ CredsEnrolled' /\ SelfAttestedKeysAreHeld'
<1>1. Shape'
    BY DEF LoginFinish, Refuse, Spend, Shape
<1>2. enrolled' = enrolled /\ signed' = signed
    BY DEF LoginFinish, Refuse
<1>3. SelfAttestedKeysAreHeld'
    BY <1>2 DEF SelfAttestedKeysAreHeld
<1>4. CredsEnrolled'
  <2>1. CASE creds' = creds
    BY <2>1, <1>2 DEF CredsEnrolled
  <2>2. CASE creds' # creds
    <3>1. /\ LoginError(id, client, authData, sig, o) = None
          /\ creds' = [creds EXCEPT ![id].count = authData.count]
      BY <2>2 DEF LoginFinish, First, Refuse
    <3>2. creds[id] # None
      BY <3>1, GoodLogin
    <3>3. creds[id] = [user |-> creds[id].user, key |-> creds[id].key,
                       alg |-> creds[id].alg, count |-> creds[id].count]
      BY <3>2 DEF CredsEnrolled
    <3>4. creds'[id] = [user |-> creds[id].user, key |-> creds[id].key,
                        alg |-> creds[id].alg, count |-> authData.count]
      BY <3>1, <3>3 DEF Shape
    <3>5. \A i \in Ids : i # id => creds'[i] = creds[i]
      BY <3>1 DEF Shape
    <3>6. ASSUME NEW i \in Ids, creds'[i] # None
          PROVE  /\ creds'[i] = [user |-> creds'[i].user,
                       key |-> creds'[i].key, alg |-> creds'[i].alg,
                       count |-> creds'[i].count]
                 /\ KeyError(creds'[i].key) = None
                 /\ Key(creds'[i].key).alg = creds'[i].alg
                 /\ \E e \in enrolled : /\ e.user = creds'[i].user /\ e.id = i
                                        /\ e.key = Key(creds'[i].key)
      <4>1. CASE i = id
        <5>1. /\ KeyError(creds[id].key) = None
              /\ Key(creds[id].key).alg = creds[id].alg
              /\ \E e \in enrolled : /\ e.user = creds[id].user /\ e.id = id
                                     /\ e.key = Key(creds[id].key)
          BY <3>2 DEF CredsEnrolled
        <5>2. /\ creds'[id].user = creds[id].user
              /\ creds'[id].key = creds[id].key
              /\ creds'[id].alg = creds[id].alg
              /\ creds'[id].count = authData.count
          BY <3>4
        <5> QED
          BY <4>1, <5>1, <5>2, <3>4
      <4>2. CASE i # id
        BY <4>2, <3>5, <3>6 DEF CredsEnrolled
      <4> QED
        BY <4>1, <4>2
    <3> QED
      BY <3>6, <1>2 DEF CredsEnrolled
  <2> QED
    BY <2>1, <2>2
<1> QED
    BY <1>1, <1>3, <1>4

-----------------------------------------------------------------------------
(* Challenges and sessions.                                                *)

\* Challenges: taking one out of the store leaves the others.
LEMMA SpendKeepsChallenges ==
    ASSUME Shape, ChallengesServeOnce, NEW k \in Names \X Purposes, Spend(k),
           UNCHANGED <<issued, sessions>>
    PROVE  ChallengesServeOnce'
<1>1. pending'[k] = None
    BY DEF Spend, Shape
<1>2. \A l \in Names \X Purposes : l # k => pending'[l] = pending[l]
    BY DEF Spend, Shape
<1>3. \A l, m \in Names \X Purposes :
          /\ pending'[l] # None => pending'[l] \in issued'
          /\ pending'[l] = pending'[m] /\ pending'[l] # None => l = m
    BY <1>1, <1>2 DEF ChallengesServeOnce
<1>4. \A s \in sessions' : /\ s.challenge \in issued' /\ s.challenge # None
                           /\ \A l \in Names \X Purposes : pending'[l] # s.challenge
    BY <1>1, <1>2 DEF ChallengesServeOnce
<1>5. \A s, z \in sessions' : s.challenge = z.challenge => s = z
    BY DEF ChallengesServeOnce
<1> QED
    BY <1>3, <1>4, <1>5 DEF ChallengesServeOnce

\* Begin hands out a challenge that was never handed out before.
LEMMA BeginKeepsChallenges ==
    ASSUME Shape, ChallengesServeOnce, NEW n \in Names, NEW p \in Purposes,
           NEW c \in Challenges, Begin(n, p, c)
    PROVE  ChallengesServeOnce'
<1> DEFINE k == <<n, p>>
<1>1. /\ c \notin issued /\ c # None
      /\ issued' = issued \union {c} /\ sessions' = sessions
    BY DEF Begin
<1>2. /\ k \in Names \X Purposes
      /\ pending'[k] = c
      /\ \A l \in Names \X Purposes : l # k => pending'[l] = pending[l]
    BY DEF Begin, Shape
<1> HIDE DEF k
<1>3. \A l \in Names \X Purposes :
          /\ pending[l] # None => pending[l] \in issued
          /\ pending[l] # c
    BY <1>1 DEF ChallengesServeOnce
<1>4. \A l \in Names \X Purposes : pending'[l] # None => pending'[l] \in issued'
    BY <1>1, <1>2, <1>3
<1>5. ASSUME NEW l \in Names \X Purposes, NEW m \in Names \X Purposes,
             pending'[l] = pending'[m], pending'[l] # None
      PROVE  l = m
  <2>1. CASE l = k
    BY <2>1, <1>2, <1>3, <1>5
  <2>2. CASE m = k
    BY <2>2, <1>2, <1>3, <1>5
  <2>3. CASE l # k /\ m # k
    BY <2>3, <1>2, <1>5 DEF ChallengesServeOnce
  <2> QED
    BY <2>1, <2>2, <2>3
<1>6. \A s \in sessions' : /\ s.challenge \in issued' /\ s.challenge # None
                           /\ \A l \in Names \X Purposes : pending'[l] # s.challenge
    BY <1>1, <1>2 DEF ChallengesServeOnce
<1>7. \A s, z \in sessions' : s.challenge = z.challenge => s = z
    BY <1>1 DEF ChallengesServeOnce
<1> QED
    BY <1>4, <1>5, <1>6, <1>7 DEF ChallengesServeOnce

\* What a session says of itself is what was signed for it.
SignedFor(s) ==
    /\ s.sig \in signed
    /\ \E e \in enrolled : /\ e.user = s.user /\ e.id = s.id
                           /\ e.key.kp = s.sig.kp /\ e.key.alg = s.sig.alg
    /\ s.sig.over[1].rpID = RPID
    /\ s.sig.over[1].up /\ s.sig.over[1].uv = s.uv
    /\ s.sig.over[2].type = "webauthn.get"
    /\ s.sig.over[2].origin \in Origins
    /\ s.sig.over[2].challenge = s.challenge

\* Sessions: a login that succeeds was signed for by the key on record.
LEMMA LoginIsSignedFor ==
    ASSUME CredsEnrolled,
           NEW name, NEW id \in Ids, NEW client, NEW authData,
           NEW sig \in signed, NEW o, NEW nth,
           ClientError(client, "webauthn.get") = None,
           ConsumeError(<<name, "login">>, client.challenge) = None,
           LoginError(id, client, authData, sig, o) = None
    PROVE  SignedFor([nth |-> nth, user |-> creds[id].user, id |-> id,
                      uv |-> authData.uv,
                      challenge |-> pending[<<name, "login">>], sig |-> sig])
<1> DEFINE k == <<name, "login">>
           s == [nth |-> nth, user |-> creds[id].user, id |-> id,
                 uv |-> authData.uv, challenge |-> pending[k], sig |-> sig]
           key == Key(creds[id].key)
<1>1. /\ client.origin \in Origins /\ creds[id] # None
      /\ authData.rpID = RPID /\ authData.up /\ key.alg = creds[id].alg
      /\ sig = Signature(key.kp, creds[id].alg, SignedOver(authData, client))
    BY GoodLogin
<1>2. client.type = "webauthn.get" /\ pending[k] = client.challenge
    BY GoodClientData, GoodChallenge
<1>3. /\ sig.kp = key.kp /\ sig.alg = key.alg
      /\ sig.over[1] = authData /\ sig.over[2] = client
    BY <1>1 DEF Signature, SignedOver
<1>4. PICK e \in enrolled : /\ e.user = creds[id].user /\ e.id = id
                            /\ e.key = key
    BY <1>1 DEF CredsEnrolled
<1>5. s.user = creds[id].user /\ s.id = id /\ s.uv = authData.uv
      /\ s.challenge = pending[k] /\ s.sig = sig
    OBVIOUS
<1> HIDE DEF s, key
<1>6. SignedFor(s)
    BY <1>1, <1>2, <1>3, <1>4, <1>5 DEF SignedFor
<1> QED
    BY <1>6 DEF s

\* What the invariant says of one session is what the property says.
LEMMA SignedForIsProperty ==
    SessionsAreSigned <=> \A s \in sessions : SignedFor(s)
BY DEF SessionsAreSigned, SignedFor

\* Every session stays signed for, with a challenge of its own.
LEMMA LoginKeepsSessions ==
    ASSUME Shape, CredsEnrolled, ChallengesServeOnce, SessionsAreSigned,
           NEW name \in Names, NEW id \in Ids, NEW client, NEW authData,
           NEW sig \in signed, NEW o,
           LoginFinish(name, id, client, authData, sig, o)
    PROVE  ChallengesServeOnce' /\ SessionsAreSigned'
<1> DEFINE k == <<name, "login">>
           s == [nth |-> Cardinality(sessions), user |-> creds[id].user,
                 id |-> id, uv |-> authData.uv, challenge |-> pending[k],
                 sig |-> sig]
<1>1. k \in Names \X Purposes /\ Spend(k) /\ UNCHANGED <<issued, signed, enrolled>>
    BY DEF LoginFinish, Refuse, Purposes
<1>2. CASE sessions' = sessions
  <2>1. ChallengesServeOnce'
    BY <1>1, <1>2, SpendKeepsChallenges
  <2>2. SessionsAreSigned'
    BY <1>1, <1>2 DEF SessionsAreSigned
  <2> QED
    BY <2>1, <2>2
<1>3. CASE sessions' # sessions
  <2>1. /\ ClientError(client, "webauthn.get") = None
        /\ ConsumeError(k, client.challenge) = None
        /\ LoginError(id, client, authData, sig, o) = None
        /\ sessions' = sessions \union {s}
    BY <1>3 DEF LoginFinish, Refuse, First
  <2>2. pending[k] # None
    BY <2>1, GoodChallenge
  <2>3. SignedFor(s)
    BY <2>1, LoginIsSignedFor
  <2>4. s.challenge = pending[k]
    OBVIOUS
  <2> HIDE DEF s
  <2>5. SessionsAreSigned'
    <3>1. \A z \in sessions' : SignedFor(z)
      BY <2>1, <2>3, SignedForIsProperty
    <3> QED
      BY <3>1, <1>1 DEF SessionsAreSigned, SignedFor
  <2>6. ChallengesServeOnce'
    <3>1. pending'[k] = None
      BY <1>1 DEF Spend, Shape
    <3>2. \A l \in Names \X Purposes : l # k => pending'[l] = pending[l]
      BY <1>1 DEF Spend, Shape
    <3> HIDE DEF k
    <3>3. \A l, m \in Names \X Purposes :
              /\ pending'[l] # None => pending'[l] \in issued'
              /\ pending'[l] = pending'[m] /\ pending'[l] # None => l = m
      BY <1>1, <3>1, <3>2 DEF ChallengesServeOnce
    <3>4. ASSUME NEW z \in sessions'
          PROVE  /\ z.challenge \in issued' /\ z.challenge # None
                 /\ \A l \in Names \X Purposes : pending'[l] # z.challenge
      <4>1. CASE z \in sessions
        BY <4>1, <1>1, <3>1, <3>2 DEF ChallengesServeOnce
      <4>2. CASE z = s
        BY <4>2, <1>1, <2>2, <2>4, <3>1, <3>2 DEF ChallengesServeOnce
      <4> QED
        BY <4>1, <4>2, <2>1
    <3>5. \A z \in sessions : z.challenge # pending[k]
      BY <1>1 DEF ChallengesServeOnce
    <3>6. \A y, z \in sessions' : y.challenge = z.challenge => y = z
      BY <2>1, <2>4, <3>5 DEF ChallengesServeOnce
    <3> QED
      BY <3>3, <3>4, <3>6 DEF ChallengesServeOnce
  <2> QED
    BY <2>5, <2>6
<1> QED
    BY <1>2, <1>3

-----------------------------------------------------------------------------
(* The inductive invariant.                                                *)

\* The initial state satisfies the invariant.
LEMMA InitIInv == Init => IInv
BY DEF Init, IInv, Shape, CredsEnrolled, ChallengesServeOnce, SessionsAreSigned,
       SelfAttestedKeysAreHeld

\* What authenticators do adds signatures and changes nothing else that counts.
LEMMA SigningKeepsIInv ==
    ASSUME IInv, signed \subseteq signed',
           UNCHANGED <<pending, issued, creds, enrolled, sessions>>
    PROVE  IInv'
<1>1. SessionsAreSigned'
    BY DEF IInv, SessionsAreSigned
<1>2. SelfAttestedKeysAreHeld'
    BY DEF IInv, SelfAttestedKeysAreHeld
<1> QED
    BY <1>1, <1>2 DEF IInv, Shape, CredsEnrolled, ChallengesServeOnce

\* No step disturbs the invariant.
LEMMA NextIInv == IInv /\ [Next]_vars => IInv'
<1> SUFFICES ASSUME IInv, [Next]_vars PROVE IInv'
    OBVIOUS
<1> USE DEF IInv
<1>1. ASSUME NEW n \in Names, NEW p \in Purposes, NEW c \in Challenges,
             Begin(n, p, c)
      PROVE  IInv'
  <2>1. UNCHANGED <<creds, signed, enrolled, sessions>> /\ Shape'
    BY <1>1 DEF Begin, Shape
  <2>2. ChallengesServeOnce'
    BY <1>1, BeginKeepsChallenges
  <2> QED
    BY <2>1, <2>2 DEF Shape, CredsEnrolled, SessionsAreSigned, SelfAttestedKeysAreHeld
<1>2. ASSUME NEW k \in Names \X Purposes, Lose(k)
      PROVE  IInv'
  <2>1. UNCHANGED <<creds, signed, enrolled, sessions, issued>> /\ Spend(k) /\ Shape'
    BY <1>2 DEF Lose, Spend, Shape
  <2>2. ChallengesServeOnce'
    BY <2>1, SpendKeepsChallenges
  <2> QED
    BY <2>1, <2>2 DEF Shape, CredsEnrolled, SessionsAreSigned, SelfAttestedKeysAreHeld
<1>3. ASSUME NEW a, NEW page, NEW c, NEW id,
             \/ Get(a, page, c)
             \/ CreatePackedSelf(a, page, c, id)
             \/ CreatePackedFull(a, page, c, id)
      PROVE  IInv'
    BY <1>3, SigningKeepsIInv DEF Get, CreatePackedSelf, CreatePackedFull, Sign
<1>4. ASSUME NEW n \in Names, NEW client, NEW obj \in PostedAttestations, NEW o,
             RegisterFinish(n, client, obj, o)
      PROVE  IInv'
  <2>1. /\ UNCHANGED <<issued, signed, sessions>>
        /\ Spend(<<n, "register">>)
        /\ <<n, "register">> \in Names \X Purposes
        /\ enrolled \subseteq enrolled'
    BY <1>4 DEF RegisterFinish, Refuse, Purposes
  <2>2. Shape' /\ CredsEnrolled' /\ SelfAttestedKeysAreHeld'
    BY <1>4, RegisterKeepsRegistrations
  <2>3. ChallengesServeOnce'
    BY <2>1, SpendKeepsChallenges
  <2>4. SessionsAreSigned'
    BY <2>1 DEF SessionsAreSigned
  <2> QED
    BY <2>2, <2>3, <2>4
<1>5. ASSUME NEW n \in Names, NEW id \in Ids, NEW client, NEW d, NEW s \in signed,
             NEW o, LoginFinish(n, id, client, d, s, o)
      PROVE  IInv'
    BY <1>5, LoginKeepsRegistrations, LoginKeepsSessions
<1>6. CASE UNCHANGED vars
    BY <1>6 DEF vars, Shape, CredsEnrolled, ChallengesServeOnce, SessionsAreSigned,
                SelfAttestedKeysAreHeld
<1>7. CASE Next
    BY <1>1, <1>2, <1>3, <1>4, <1>5, <1>7 DEF Next
<1> QED
    BY <1>6, <1>7

\* The invariant holds in every reachable state.
LEMMA AlwaysIInv == Spec => []IInv
BY InitIInv, NextIInv, PTL DEF Spec

-----------------------------------------------------------------------------
(* Honest ceremonies.                                                      *)

\* Counters are numbers, wherever they are kept, and one that authenticators
\* hold at zero stays there.
CountersCount ==
    /\ counter \in [Authenticators -> Nat]
    /\ \A a \in Authenticators : a.zeroCounter => counter[a] = 0
    /\ \A s \in signed : s.over[1].count \in Nat
    /\ \A id \in Ids : creds[id] # None => creds[id].count \in Nat

\* Counters: an authenticator writes natural numbers.
LEMMA BuiltCountsAreNat ==
    ASSUME CountersCount, NEW a \in Authenticators, NEW page, NEW id
    PROVE  /\ NextCount(a) \in Nat
           /\ AuthDataRegistration(a, page, id).count \in Nat
           /\ AuthDataAssertion(a, page).count \in Nat
BY DEF CountersCount, NextCount, AuthDataRegistration, AuthDataAssertion

\* So does whoever posts authenticator data.
LEMMA PostedCountsAreNat ==
    ASSUME CountersCount
    PROVE  /\ \A d \in PostedAuthData : d # None => d.count \in Nat
           /\ \A obj \in PostedAttestations :
                 obj # None /\ obj.authData # None => obj.authData.count \in Nat
<1>1. \A d \in SignedAuthData : d.count \in Nat
    BY DEF CountersCount, SignedAuthData
<1>2. \A d \in PostedAuthData : d # None => d.count \in Nat
    BY <1>1, CountAssumption DEF PostedAuthData
<1>3. ASSUME NEW obj \in PostedAttestations, obj # None, obj.authData # None
      PROVE  obj.authData.count \in Nat
  <2>1. CASE obj \in OtherAttestations
      BY <1>3, <2>1, CountAssumption
  <2>2. CASE \E a \in Authenticators, page \in Pages, id \in Ids :
                obj = AttestationNone(AuthDataRegistration(a, page, id))
      BY <2>2, BuiltCountsAreNat DEF AttestationNone
  <2>3. CASE \E d \in SignedAuthData, s \in signed : obj = AttestationSelf(d, s)
      BY <2>3, <1>1 DEF AttestationSelf
  <2>4. CASE \E d \in SignedAuthData, s \in signed :
                obj = AttestationFull(d, s, AttestationCert)
      BY <2>4, <1>1 DEF AttestationFull
  <2> QED
      BY <2>1, <2>2, <2>3, <2>4 DEF PostedAttestations
<1> QED
    BY <1>2, <1>3

\* Authenticators sign for their own counters, which the server stores.
LEMMA NextCountersCount == IInv /\ CountersCount /\ [Next]_vars => CountersCount'
<1> SUFFICES ASSUME IInv, CountersCount, [Next]_vars PROVE CountersCount'
    OBVIOUS
<1>s. DOMAIN creds = Ids
    BY DEF IInv, Shape
<1>1. ASSUME UNCHANGED <<counter, signed, creds>>
      PROVE  CountersCount'
    BY <1>1 DEF CountersCount
<1>2. ASSUME NEW a \in Authenticators, NEW page, NEW c, Get(a, page, c)
      PROVE  CountersCount'
  <2> DEFINE s == Signature(a.kp, a.alg,
                     SignedOver(AuthDataAssertion(a, page),
                                ClientData("webauthn.get", page, c)))
  <2>1. /\ counter' = [counter EXCEPT ![a] = NextCount(a)]
        /\ signed' = signed \union {s} /\ creds' = creds
      BY <1>2 DEF Get, Sign
  <2>2. s.over[1].count \in Nat
      BY BuiltCountsAreNat DEF Signature, SignedOver
  <2> HIDE DEF s
  <2>3. \A b \in Authenticators :
            counter'[b] = IF b = a THEN NextCount(a) ELSE counter[b]
      BY <2>1 DEF CountersCount
  <2>4. counter' \in [Authenticators -> Nat]
      BY <2>1, BuiltCountsAreNat DEF CountersCount
  <2>5. \A b \in Authenticators : b.zeroCounter => counter'[b] = 0
      BY <2>3 DEF CountersCount, NextCount
  <2> QED
      BY <2>1, <2>2, <2>4, <2>5 DEF CountersCount
<1>3. ASSUME NEW a \in Authenticators, NEW page, NEW c, NEW id,
             CreatePackedSelf(a, page, c, id) \/ CreatePackedFull(a, page, c, id)
      PROVE  CountersCount'
  <2> DEFINE over == SignedOver(AuthDataRegistration(a, page, id),
                                ClientData("webauthn.create", page, c))
  <2>1. /\ UNCHANGED <<counter, creds>>
        /\ \E kp, alg : signed' = signed \union {Signature(kp, alg, over)}
      BY <1>3 DEF CreatePackedSelf, CreatePackedFull, Sign
  <2>2. over[1].count \in Nat
      BY BuiltCountsAreNat DEF SignedOver
  <2> HIDE DEF over
  <2>3. \A s \in signed' : s.over[1].count \in Nat
      BY <2>1, <2>2 DEF CountersCount, Signature
  <2> QED
      BY <2>1, <2>3 DEF CountersCount
<1>4. ASSUME NEW n, NEW client, NEW obj \in PostedAttestations, NEW o,
             RegisterFinish(n, client, obj, o)
      PROVE  CountersCount'
  <2> DEFINE at == obj.authData.attested
             stored == [user |-> n, key |-> at.key, alg |-> Key(at.key).alg,
                        count |-> obj.authData.count]
  <2>1. UNCHANGED <<counter, signed>>
      BY <1>4 DEF RegisterFinish, Refuse
  <2>2. CASE creds' = creds
      BY <2>1, <2>2, <1>1
  <2>3. CASE creds' # creds
    <3>1. /\ RegisterError(client, obj, o) = None
          /\ creds' = [creds EXCEPT ![at.id] = stored]
        BY <1>4, <2>3 DEF RegisterFinish, Refuse, First
    <3>2. obj # None /\ AuthDataError(obj.authData, o) = None
        BY <3>1 DEF RegisterError, First
    <3>3. stored.count \in Nat
        BY <3>2, PostedCountsAreNat DEF AuthDataError
    <3> HIDE DEF stored, at
    <3>4. \A id \in Ids : creds'[id] # None => creds'[id].count \in Nat
        BY <1>s, <3>1, <3>3 DEF CountersCount
    <3> QED
        BY <2>1, <3>4 DEF CountersCount
  <2> QED
      BY <2>2, <2>3
<1>5. ASSUME NEW n, NEW id \in Ids, NEW client, NEW d \in PostedAuthData, NEW s,
             NEW o, LoginFinish(n, id, client, d, s, o)
      PROVE  CountersCount'
  <2>1. UNCHANGED <<counter, signed>>
      BY <1>5 DEF LoginFinish, Refuse
  <2>2. CASE creds' = creds
      BY <2>1, <2>2, <1>1
  <2>3. CASE creds' # creds
    <3>1. /\ LoginError(id, client, d, s, o) = None
          /\ creds' = [creds EXCEPT ![id].count = d.count]
        BY <1>5, <2>3 DEF LoginFinish, Refuse, First
    <3>2. creds[id] # None /\ AuthDataError(d, o) = None
        BY <3>1 DEF LoginError, First
    <3>3. d.count \in Nat
        BY <3>2, PostedCountsAreNat DEF AuthDataError
    <3>4. creds[id] = [user |-> creds[id].user, key |-> creds[id].key,
                       alg |-> creds[id].alg, count |-> creds[id].count]
        BY <3>2 DEF IInv, CredsEnrolled
    <3>5. creds'[id].count = d.count
        BY <1>s, <3>1, <3>4
    <3>6. \A i \in Ids : i # id => creds'[i] = creds[i]
        BY <1>s, <3>1
    <3> QED
        BY <2>1, <3>3, <3>5, <3>6 DEF CountersCount
  <2> QED
      BY <2>2, <2>3
<1>6. CASE UNCHANGED vars
    BY <1>6, <1>1 DEF vars
<1>7. CASE Next
    BY <1>1, <1>2, <1>3, <1>4, <1>5, <1>7 DEF Next, Begin, Lose
<1> QED
    BY <1>6, <1>7

\* The flags of the project's authenticator satisfy every policy.
LEMMA HonestFlagsPass ==
    ASSUME NEW o
    PROVE  FlagsPass(EffectivePolicy(Floor, o), TRUE, TRUE)
BY DEF FlagsPass, EffectivePolicy

\* The key an authenticator presents parses, and is its own.
LEMMA HonestKey ==
    ASSUME NoneIsNoFunction, NEW a \in Authenticators
    PROVE  /\ KeyError(EncodeKey(a.kp, a.alg)) = None
           /\ Key(EncodeKey(a.kp, a.alg)).alg = a.alg
           /\ Key(EncodeKey(a.kp, a.alg)).kp = a.kp
           /\ a.alg \in DOMAIN Scheme
           /\ Key(EncodeKey(a.kp, a.alg)).kty = Scheme[a.alg]
<1>0. /\ AlgES256 = -7 /\ AlgEdDSA = -8 /\ AlgRS256 = -257
    BY DEF AlgES256, AlgEdDSA, AlgRS256
<1>1. a.alg \in {AlgES256, AlgRS256, AlgEdDSA}
    BY DEF Scheme
<1>2. /\ a.alg = AlgES256 => a.kp.type = "P-256" /\ Scheme[a.alg] = ktyEC2
      /\ a.alg = AlgRS256 => a.kp.type = "RSA" /\ Scheme[a.alg] = ktyRSA
      /\ a.alg = AlgEdDSA => a.kp.type = "Ed25519" /\ Scheme[a.alg] = ktyOKP
  <2>1. /\ Scheme[AlgES256] = ktyEC2 /\ Scheme[AlgRS256] = ktyRSA
        /\ Scheme[AlgEdDSA] = ktyOKP
      BY <1>0 DEF Scheme
  <2>2. /\ NewKeyType[AlgES256] = "P-256" /\ NewKeyType[AlgRS256] = "RSA"
        /\ NewKeyType[AlgEdDSA] = "Ed25519"
      BY <1>0 DEF NewKeyType, Scheme
  <2> QED
      BY <2>1, <2>2
<1>3. a.kp # None /\ a.kp.type \in KeyTypes /\ a.alg \in Int
    BY <1>0, <1>1, <1>2 DEF KeyTypes
<1> QED
    BY <1>1, <1>2, <1>3, EncodedKeyParses

\* An attestation that was made over what is posted passes.
LEMMA HonestAttestation ==
    ASSUME NoneIsNoFunction, NEW a \in Authenticators, NEW authData, NEW client,
           NEW obj \in {AttestationNone(authData),
                         AttestationSelf(authData,
                             Signature(a.kp, a.alg, SignedOver(authData, client))),
                         AttestationFull(authData,
                             Signature(AttestationKey, AlgES256,
                                       SignedOver(authData, client)),
                             AttestationCert)}
    PROVE  /\ obj # None /\ obj.authData = authData
           /\ AttestationError(obj, client, Key(EncodeKey(a.kp, a.alg))) = None
<1> DEFINE over == SignedOver(authData, client)
           self == Signature(a.kp, a.alg, over)
           full == Signature(AttestationKey, AlgES256, over)
           key == Key(EncodeKey(a.kp, a.alg))
<1>1. CASE obj = AttestationNone(authData)
  <2>1. obj # None /\ obj.authData = authData /\ obj.fmt = "none"
      BY <1>1 DEF AttestationNone, NoneIsNoFunction, IsAFunction
  <2>2. DOMAIN obj.stmt = {}
      BY <1>1 DEF AttestationNone
  <2> QED
      BY <2>1, <2>2 DEF AttestationError
<1>2. CASE obj = AttestationSelf(authData, self)
  <2> DEFINE stmt == StatementSelf(self)
  <2>1. obj # None /\ obj.authData = authData /\ obj.fmt = "packed" /\ obj.stmt = stmt
      BY <1>2 DEF AttestationSelf, NoneIsNoFunction, IsAFunction
  <2>2. /\ Has(stmt, "alg", "int") /\ Has(stmt, "sig", "bytes")
        /\ "x5c" \notin DOMAIN stmt
        /\ stmt["alg"].int = a.alg /\ stmt["sig"].sig = self
      BY DEF StatementSelf, Has, IntValue, Signature
  <2> HIDE DEF stmt
  <2>3. SignatureError(key.alg, key, over, self) = None
      BY HonestKey DEF SignatureError
  <2>4. PackedDecodes(stmt) /\ PackedVerifies(stmt, over, key)
      BY <2>2, <2>3, HonestKey DEF PackedDecodes, PackedVerifies
  <2> QED
      BY <2>1, <2>4 DEF AttestationError
<1>3. CASE obj = AttestationFull(authData, full, AttestationCert)
  <2> DEFINE chain == <<[type |-> "bytes", cert |-> AttestationCert]>>
             stmt == [alg |-> IntValue(full.alg), sig |-> [type |-> "bytes", sig |-> full],
                      x5c |-> [type |-> "array", items |-> chain]]
  <2>1. obj # None /\ obj.authData = authData /\ obj.fmt = "packed" /\ obj.stmt = stmt
      BY <1>3 DEF AttestationFull, NoneIsNoFunction, IsAFunction
  <2>2. /\ Has(stmt, "alg", "int") /\ Has(stmt, "sig", "bytes")
        /\ "x5c" \in DOMAIN stmt /\ stmt["x5c"].type = "array"
        /\ stmt["x5c"].items = chain
        /\ stmt["alg"].int = AlgES256 /\ stmt["sig"].sig = full
      BY DEF Has, IntValue, Signature
  <2>3. /\ chain # << >> /\ \A i \in DOMAIN chain : chain[i].type = "bytes"
        /\ chain[1].cert = AttestationCert
      OBVIOUS
  <2> HIDE DEF stmt, chain
  <2>4. /\ AttestationCert # None /\ AttestationCert.kp = AttestationKey
        /\ AttestationKey # None /\ AttestationCert.kty = ktyEC2
      BY DEF AttestationCert, AttestationKey, NoneIsNoFunction, IsAFunction
  <2>s. AlgES256 \in DOMAIN Scheme /\ Scheme[AlgES256] = ktyEC2
      BY DEF Scheme, AlgES256, AlgRS256, AlgEdDSA
  <2>5. SignatureError(AlgES256, AttestationCert, over, full) = None
      BY <2>s, <2>4 DEF SignatureError
  <2>6. PackedDecodes(stmt)
      BY <2>2, <2>3 DEF PackedDecodes
  <2>7. PackedVerifies(stmt, over, key)
      BY <2>2, <2>3, <2>4, <2>5 DEF PackedVerifies
  <2> QED
      BY <2>1, <2>6, <2>7 DEF AttestationError
<1> QED
    BY <1>1, <1>2, <1>3

\* No check stops what an authenticator and a page made for each other.
LEMMA HonestRegistration ==
    ASSUME NoneIsNoFunction, NEW a \in Authenticators,
           NEW page \in Pages, Home(page), NEW id \in Ids, NEW o, NEW c,
           c # None, creds[id] = None,
           NEW obj \in
               LET authData == AuthDataRegistration(a, page, id)
                   over == SignedOver(authData, ClientData("webauthn.create", page, c))
               IN  {AttestationNone(authData),
                    AttestationSelf(authData, Signature(a.kp, a.alg, over)),
                    AttestationFull(authData,
                                    Signature(AttestationKey, AlgES256, over),
                                    AttestationCert)}
    PROVE  /\ ClientError(ClientData("webauthn.create", page, c),
                          "webauthn.create") = None
           /\ RegisterError(ClientData("webauthn.create", page, c), obj, o) = None
<1> DEFINE authData == AuthDataRegistration(a, page, id)
           client == ClientData("webauthn.create", page, c)
           at == [id |-> id, key |-> EncodeKey(a.kp, a.alg)]
<1>1. /\ client # None /\ client.type = "webauthn.create"
      /\ client.challenge = c /\ client.origin = page.origin
    BY DEF ClientData, NoneIsNoFunction, IsAFunction
<1>2. /\ authData # None /\ authData.rpID = page.rpID
      /\ authData.up = TRUE /\ authData.uv = TRUE /\ authData.attested = at
    BY DEF AuthDataRegistration, NoneIsNoFunction, IsAFunction
<1>3. at # None /\ at.id = id /\ at.key = EncodeKey(a.kp, a.alg)
    BY DEF NoneIsNoFunction, IsAFunction
<1>4. /\ obj # None /\ obj.authData = authData
      /\ AttestationError(obj, client, Key(EncodeKey(a.kp, a.alg))) = None
    BY HonestAttestation
<1> HIDE DEF client, authData, at
<1>5. AuthDataError(authData, o) = None
    BY <1>2, HonestFlagsPass DEF AuthDataError, RPIDHashPasses, Home
<1>6. RegisterError(client, obj, o) = None
    BY <1>1, <1>2, <1>3, <1>4, <1>5, HonestKey
    DEF RegisterError, First, OriginPasses, Home
<1>7. ClientError(client, "webauthn.create") = None
    BY <1>1 DEF ClientError
<1> QED
    BY <1>6, <1>7 DEF client

\* Nor does one stop an assertion that was made for the challenge.
LEMMA HonestLogin ==
    ASSUME NoneIsNoFunction, CountersCount, CredsEnrolled,
           NEW a \in Authenticators, NEW page \in Pages, Home(page),
           NEW id \in Ids, NEW o, NEW c,
           c # None, creds[id] # None, creds[id].key = EncodeKey(a.kp, a.alg),
           creds[id].count <= counter[a]
    PROVE  LET client   == ClientData("webauthn.get", page, c)
               authData == AuthDataAssertion(a, page)
               sig      == Signature(a.kp, a.alg, SignedOver(authData, client))
           IN  /\ ClientError(client, "webauthn.get") = None
               /\ LoginError(id, client, authData, sig, o) = None
<1> DEFINE client   == ClientData("webauthn.get", page, c)
           authData == AuthDataAssertion(a, page)
           sig      == Signature(a.kp, a.alg, SignedOver(authData, client))
           cred     == creds[id]
<1>1. /\ client # None /\ client.type = "webauthn.get"
      /\ client.challenge = c /\ client.origin = page.origin
    BY DEF ClientData, NoneIsNoFunction, IsAFunction
<1>2. /\ authData # None /\ authData.rpID = page.rpID
      /\ authData.up = TRUE /\ authData.uv = TRUE
      /\ authData.count = NextCount(a)
    BY DEF AuthDataAssertion, NoneIsNoFunction, IsAFunction
<1>3. cred.alg = a.alg /\ cred.count \in Nat /\ counter[a] \in Nat
  <2>1. Key(cred.key).alg = cred.alg
      BY DEF CredsEnrolled
  <2>2. cred.count \in Nat /\ counter[a] \in Nat
      BY DEF CountersCount
  <2> QED
      BY <2>1, <2>2, HonestKey
<1>4. ~CounterRegression(cred.count, NextCount(a))
    BY <1>3 DEF CounterRegression, NextCount, CountersCount
<1>5. SignatureError(cred.alg, Key(cred.key), SignedOver(authData, client), sig) = None
    BY <1>3, HonestKey DEF SignatureError
<1> HIDE DEF client, authData, sig
<1>6. AuthDataError(authData, o) = None
    BY <1>2, HonestFlagsPass DEF AuthDataError, RPIDHashPasses, Home
<1>7. CredentialError(cred, client, authData, sig) = None
    BY <1>2, <1>3, <1>4, <1>5, HonestKey DEF CredentialError
<1>8. LoginError(id, client, authData, sig, o) = None
    BY <1>1, <1>6, <1>7 DEF LoginError, First, OriginPasses, Home
<1>9. ClientError(client, "webauthn.get") = None
    BY <1>1 DEF ClientError
<1> QED
    BY <1>8, <1>9 DEF client, authData, sig

-----------------------------------------------------------------------------
(* The theorems.                                                           *)

\* Behind every session is a signature of the registered key that was made
\* for this login, on a page of this server, with its user present (login.go
\* 69-155).
THEOREM SignedSessions == Spec => []SessionsAreSigned
<1>1. IInv => SessionsAreSigned
    BY DEF IInv
<1> QED
    BY <1>1, AlwaysIInv, PTL

\* A signature opens one session, whoever posts it however often: its
\* challenge is spent with it (login.go 82, challenge.go 99-119).
THEOREM NoReplay == Spec => []OneSessionPerSignature
<1>1. IInv => OneSessionPerSignature
    BY DEF IInv, SessionsAreSigned, ChallengesServeOnce, OneSessionPerSignature
<1> QED
    BY <1>1, AlwaysIInv, PTL

\* Packed self-attestation proves possession of the registered key
\* (attestation.go 70-87).
THEOREM HeldKeys == Spec => []SelfAttestedKeysAreHeld
<1>1. IInv => SelfAttestedKeysAreHeld
    BY DEF IInv
<1> QED
    BY <1>1, AlwaysIInv, PTL

\* A counter is compared only behind a signature that is good: no alarm
\* without the key (login.go 128-149).
THEOREM GenuineAlarms == Spec => []CounterAlarmIsGenuine
<1>1. CounterAlarmIsGenuine
  <2> SUFFICES ASSUME NEW id \in Ids, NEW client, NEW authData, NEW sig \in signed,
                      NEW o,
                      LoginError(id, client, authData, sig, o)
                          = "ErrCounterRegression"
               PROVE  Signature(Key(creds[id].key).kp, creds[id].alg,
                                SignedOver(authData, client)) \in signed
    BY DEF CounterAlarmIsGenuine
  <2>1. AuthDataError(authData, o) # "ErrCounterRegression"
    BY DEF AuthDataError
  <2>2. CredentialError(creds[id], client, authData, sig) = "ErrCounterRegression"
    BY <2>1 DEF LoginError, First
  <2> QED
    BY <2>2, GoodCredential
<1> QED
    BY <1>1, PTL

\* Whatever was posted before, an authenticator that does its part registers
\* under all three attestations and logs in with what it registered, with a
\* counter or without (register.go 63-125, login.go 69-155).
THEOREM HonestCeremonies ==
    ASSUME NoneIsNoFunction
    PROVE  Spec => []HonestCeremoniesSucceed
<1>1. Init => CountersCount
    BY DEF Init, CountersCount
<1>2. IInv /\ CountersCount => HonestCeremoniesSucceed
  <2> SUFFICES ASSUME IInv, CountersCount,
                      NEW n \in Names, NEW a \in Authenticators,
                      NEW page \in Pages, Home(page), NEW id \in Ids,
                      NEW o \in Overrides
               PROVE  HonestCeremoniesSucceed!(n, a, page, id, o)
      BY DEF HonestCeremoniesSucceed
  <2> QED
      BY HonestRegistration, HonestLogin DEF IInv
<1> QED
    BY <1>1, <1>2, AlwaysIInv, NextCountersCount, PTL DEF Spec

=============================================================================
