---------------------------- MODULE Verification ----------------------------
(***************************************************************************)
(* What Register and Login verify (internal/ceremony/register.go, login.go *)
(* and attestation.go), against authenticators that sign and clients that  *)
(* put together what they like of what was signed.                         *)
(*                                                                         *)
(* RelyingParty has the requests interleave and takes the verification for *)
(* one guard; here a request is one step and the verification is spelled   *)
(* out, error by error, in the code's order.  Pending challenges are what  *)
(* OneTimeToken promises: one per name and purpose, spent by the first     *)
(* posting that gets as far as Consume.                                    *)
(*                                                                         *)
(* The authenticators are those of internal/webauthntest, the project's    *)
(* own: always present and verifying their user, with a counter that every *)
(* assertion advances, or fixed at zero.                                   *)
(***************************************************************************)
EXTENDS Cose, Policy, FiniteSets

CONSTANTS
    Names, Ids, Challenges,
    Origins, RPID, Floor,     \* the server's configuration
    Authenticators,           \* records: a keypair, its algorithm, zeroCounter
    Pages,                    \* where browsers are: an origin and its RP ID
    OtherClientData,          \* what clients post besides what was signed:
    OtherAttestations,        \* client data, attestation objects,
    OtherAuthData,            \* authenticator data
    Overrides,                \* the policies that requests ask for
    MaxCount, MaxSigned       \* bounds of this model

VARIABLES
    pending,     \* the challenge of a name and purpose, or None
    issued,      \* history: the challenges used up
    creds,       \* the credential store
    counter,     \* each authenticator's signCount
    signed,      \* history: the signatures in the world
    enrolled,    \* history: the registrations
    sessions     \* history: the logins

vars == <<pending, issued, creds, counter, signed, enrolled, sessions>>

Purposes == {"register", "login"}

\* The key of a freshly made attestation certificate.
AttestationKey == [owner |-> "maker", type |-> "P-256"]

Errors == {"ErrMalformedClientData", "ErrClientDataType", "ErrChallengeNotFound",
           "ErrChallengeMismatch", "ErrOriginNotAllowed",
           "ErrMalformedAttestationObject", "ErrMalformed",
           "ErrRPIDHashMismatch", "ErrFlags", "ErrMissingAttestedData",
           "ErrMalformedKey", "ErrUnsupportedKeyType", "ErrUnsupportedCurve",
           "ErrAttestationFormat", "ErrAttestationStatement", "ErrExists",
           "ErrCredentialNotFound", "ErrCorruptStoredKey",
           "ErrUnsupportedAlgorithm", "ErrSignatureVerification",
           "ErrCounterRegression"}

\* The type of the keypair that New generates for an algorithm.
NewKeyType == [alg \in DOMAIN Scheme |-> CASE alg = AlgES256 -> "P-256"
                                          [] alg = AlgRS256 -> "RSA"
                                          [] alg = AlgEdDSA -> "Ed25519"]

ASSUME WorldAssumption ==
    /\ None \notin Challenges
    /\ None \notin Errors
    /\ Floor \in UVPolicies
    /\ \A a \in Authenticators :
          /\ a.alg \in DOMAIN Scheme /\ a.zeroCounter \in BOOLEAN
          /\ a.kp # None /\ a.kp.type = NewKeyType[a.alg]

\* Clients cannot make up a signature: their own bytes are nobody's.
ASSUME ForgeryAssumption ==
    \A obj \in OtherAttestations :
        obj # None /\ Has(obj.stmt, "sig", "bytes")
            => obj.stmt["sig"].sig.kp = None

\* Counters are numbers in whatever authenticator data is posted.
ASSUME CountAssumption ==
    \A d \in OtherAuthData \union
               {obj.authData : obj \in OtherAttestations \ {None}} :
        d # None => d.count \in Nat

-----------------------------------------------------------------------------
(* What is posted and signed.                                              *)

\* buildClientDataJSON.  None is data that does not parse, and the challenge
\* None one that is no base64.
ClientData(type, page, c) ==
    [type |-> type, challenge |-> c, origin |-> page.origin]

\* buildAuthDataRegistration
AuthDataRegistration(a, page, id) ==
    [rpID |-> page.rpID, up |-> TRUE, uv |-> TRUE, count |-> counter[a],
     attested |-> [id |-> id, key |-> EncodeKey(a.kp, a.alg)]]

NextCount(a) == IF a.zeroCounter THEN counter[a] ELSE counter[a] + 1

\* buildAuthDataAssertion
AuthDataAssertion(a, page) ==
    [rpID |-> page.rpID, up |-> TRUE, uv |-> TRUE, count |-> NextCount(a),
     attested |-> None]

\* authenticatorData || SHA256(clientDataJSON)
SignedOver(authData, client) == <<authData, client>>

\* buildAttestationObjectNone and Packed, without and with a certificate.
AttestationNone(authData) ==
    [fmt |-> "none", stmt |-> << >>, authData |-> authData]
StatementSelf(sig) == [alg |-> IntValue(sig.alg), sig |-> [type |-> "bytes", sig |-> sig]]
AttestationSelf(authData, sig) ==
    [fmt |-> "packed", stmt |-> StatementSelf(sig), authData |-> authData]
AttestationFull(authData, sig, cert) ==
    [fmt |-> "packed", authData |-> authData,
     stmt |-> [alg |-> IntValue(sig.alg), sig |-> [type |-> "bytes", sig |-> sig],
               x5c |-> [type |-> "array",
                        items |-> <<[type |-> "bytes", cert |-> cert]>>]]]

\* The public key in the certificate; x509 does not parse None.
AttestationCert == [kty |-> ktyEC2, kp |-> AttestationKey]

-----------------------------------------------------------------------------
(* The checks.                                                             *)

\* Of two checks the one that fails first.
First(error, next) == IF error # None THEN error ELSE next

\* Fault: the type of the client data is not looked at.
ClientErrorAnyType(client, type) ==
    IF client = None THEN "ErrMalformedClientData"
    ELSE IF client.challenge = None THEN "ErrMalformedClientData" ELSE None

\* The checks before Consume.
ClientError(client, type) ==
    IF client = None THEN "ErrMalformedClientData"
    ELSE IF client.type # type THEN "ErrClientDataType"
    ELSE IF client.challenge = None THEN "ErrMalformedClientData" ELSE None

ConsumeError(k, c) ==
    IF pending[k] = None THEN "ErrChallengeNotFound"
    ELSE IF pending[k] # c THEN "ErrChallengeMismatch" ELSE None

\* authdata.Parse, CheckRPIDHash and CheckFlags.
AuthDataError(authData, override) ==
    IF authData = None THEN "ErrMalformed"
    ELSE IF ~RPIDHashPasses(RPID, authData.rpID) THEN "ErrRPIDHashMismatch"
    ELSE IF ~FlagsPass(EffectivePolicy(Floor, override), authData.up, authData.uv)
    THEN "ErrFlags" ELSE None

\* decodePackedAttStmt
PackedDecodes(stmt) ==
    /\ Has(stmt, "alg", "int")
    /\ Has(stmt, "sig", "bytes")
    /\ "x5c" \in DOMAIN stmt =>
          /\ stmt["x5c"].type = "array"
          /\ stmt["x5c"].items # << >>
          /\ \A i \in DOMAIN stmt["x5c"].items : stmt["x5c"].items[i].type = "bytes"

\* Fault: self-attestation is good with the right algorithm.
PackedVerifiesUnsigned(stmt, message, key) ==
    IF "x5c" \notin DOMAIN stmt
    THEN stmt["alg"].int = key.alg
    ELSE LET cert == stmt["x5c"].items[1].cert
         IN  /\ cert # None
             /\ SignatureError(stmt["alg"].int, cert, message, stmt["sig"].sig) = None

\* verifyPackedAttestation of what was decoded.
PackedVerifies(stmt, message, key) ==
    IF "x5c" \notin DOMAIN stmt
    THEN /\ stmt["alg"].int = key.alg
         /\ SignatureError(key.alg, key, message, stmt["sig"].sig) = None
    ELSE LET cert == stmt["x5c"].items[1].cert
         IN  /\ cert # None
             /\ SignatureError(stmt["alg"].int, cert, message, stmt["sig"].sig) = None

\* verifyAttestation
AttestationError(obj, client, key) ==
    CASE obj.fmt = "none" ->
            IF DOMAIN obj.stmt = {} THEN None ELSE "ErrAttestationStatement"
      [] obj.fmt = "packed" ->
            IF /\ PackedDecodes(obj.stmt)
               /\ PackedVerifies(obj.stmt, SignedOver(obj.authData, client), key)
            THEN None ELSE "ErrAttestationStatement"
      [] OTHER -> "ErrAttestationFormat"

\* Register behind Consume.  A None for obj does not decode.
RegisterError(client, obj, override) ==
    LET attested == obj.authData.attested
    IN  IF ~OriginPasses(Origins, client.origin) THEN "ErrOriginNotAllowed"
        ELSE IF obj = None THEN "ErrMalformedAttestationObject"
        ELSE First(AuthDataError(obj.authData, override),
             IF attested = None THEN "ErrMissingAttestedData"
             ELSE First(KeyError(attested.key),
                  First(AttestationError(obj, client, Key(attested.key)),
                        IF creds[attested.id] # None THEN "ErrExists" ELSE None)))

CounterRegression(stored, received) ==
    stored # 0 /\ received # 0 /\ received <= stored

\* Fault: the counter is looked at before the signature.
CredentialErrorCounterFirst(cred, client, authData, sig) ==
    IF KeyError(cred.key) # None THEN KeyError(cred.key)
    ELSE IF CounterRegression(cred.count, authData.count) THEN "ErrCounterRegression"
    ELSE SignatureError(cred.alg, Key(cred.key), SignedOver(authData, client), sig)

\* Fault: a counter that is zero is taken for one that stood still.
CredentialErrorZero(cred, client, authData, sig) ==
    LET error == SignatureError(cred.alg, Key(cred.key),
                                SignedOver(authData, client), sig)
    IN  IF KeyError(cred.key) # None THEN KeyError(cred.key)
        ELSE IF error # None THEN error
        ELSE IF authData.count <= cred.count THEN "ErrCounterRegression"
        ELSE None

\* What Login checks against the stored credential.
CredentialError(cred, client, authData, sig) ==
    LET error == SignatureError(cred.alg, Key(cred.key),
                                SignedOver(authData, client), sig)
    IN  IF KeyError(cred.key) # None THEN KeyError(cred.key)
        ELSE IF Key(cred.key).alg # cred.alg THEN "ErrCorruptStoredKey"
        ELSE IF error # None THEN error
        ELSE IF CounterRegression(cred.count, authData.count)
        THEN "ErrCounterRegression" ELSE None

\* Login behind Consume.
LoginError(id, client, authData, sig, override) ==
    IF ~OriginPasses(Origins, client.origin) THEN "ErrOriginNotAllowed"
    ELSE IF creds[id] = None THEN "ErrCredentialNotFound"
    ELSE First(AuthDataError(authData, override),
               CredentialError(creds[id], client, authData, sig))

-----------------------------------------------------------------------------
(* The authenticators and their browsers.                                  *)

Init ==
    /\ pending = [k \in Names \X Purposes |-> None]
    /\ issued = {}
    /\ creds = [i \in Ids |-> None]
    /\ counter = [a \in Authenticators |-> IF a.zeroCounter THEN 0 ELSE 1]
    /\ signed = {}
    /\ enrolled = {} /\ sessions = {}

Sign(kp, alg, message) == signed' = signed \union {Signature(kp, alg, message)}

CanSign == Cardinality(signed) < MaxSigned

\* RegisterPackedSelf.  (Register signs nothing.)
CreatePackedSelf(a, page, c, id) ==
    /\ CanSign
    /\ Sign(a.kp, a.alg, SignedOver(AuthDataRegistration(a, page, id),
                                    ClientData("webauthn.create", page, c)))
    /\ UNCHANGED <<pending, issued, creds, counter, enrolled, sessions>>

\* RegisterPackedFull
CreatePackedFull(a, page, c, id) ==
    /\ CanSign
    /\ Sign(AttestationKey, AlgES256,
            SignedOver(AuthDataRegistration(a, page, id),
                       ClientData("webauthn.create", page, c)))
    /\ UNCHANGED <<pending, issued, creds, counter, enrolled, sessions>>

\* Authenticate
Get(a, page, c) ==
    /\ CanSign
    /\ NextCount(a) <= MaxCount
    /\ counter' = [counter EXCEPT ![a] = NextCount(a)]
    /\ Sign(a.kp, a.alg, SignedOver(AuthDataAssertion(a, page),
                                    ClientData("webauthn.get", page, c)))
    /\ UNCHANGED <<pending, issued, creds, enrolled, sessions>>

-----------------------------------------------------------------------------
(* The server.                                                             *)

\* handleRegisterBegin and handleLoginBegin.
Begin(name, purpose, c) ==
    /\ c \notin issued
    /\ issued' = issued \union {c}
    /\ pending' = [pending EXCEPT ![<<name, purpose>>] = c]
    /\ UNCHANGED <<creds, counter, signed, enrolled, sessions>>

\* A challenge expires, or the server restarts.
Lose(k) ==
    /\ pending[k] # None
    /\ pending' = [pending EXCEPT ![k] = None]
    /\ UNCHANGED <<issued, creds, counter, signed, enrolled, sessions>>

\* Fault: what is found is left for the next posting.
SpendNothing(k) == UNCHANGED pending

\* Consume takes what is pending, right or wrong.
Spend(k) == pending' = [pending EXCEPT ![k] = None]

\* A posting is refused by Consume or behind it.
Refuse(k) ==
    /\ Spend(k)
    /\ UNCHANGED <<issued, creds, counter, signed, enrolled, sessions>>

RegisterFinish(user, client, obj, override) ==
    LET k == <<user, "register">>
        error == First(ConsumeError(k, client.challenge),
                       RegisterError(client, obj, override))
    IN  /\ ClientError(client, "webauthn.create") = None
        /\ \/ error # None /\ Refuse(k)
           \/ /\ error = None
              /\ Spend(k)
              /\ LET at == obj.authData.attested
                 IN  /\ creds' = [creds EXCEPT ![at.id] =
                            [user |-> user, key |-> at.key,
                             alg |-> Key(at.key).alg,
                             count |-> obj.authData.count]]
                     /\ enrolled' = enrolled \union
                            {[user |-> user, id |-> at.id, key |-> Key(at.key),
                              client |-> client, obj |-> obj]}
              /\ UNCHANGED <<issued, counter, signed, sessions>>

LoginFinish(name, id, client, authData, sig, override) ==
    LET k == <<name, "login">>
        error == First(ConsumeError(k, client.challenge),
                       LoginError(id, client, authData, sig, override))
    IN  /\ ClientError(client, "webauthn.get") = None
        /\ \/ error # None /\ Refuse(k)
           \/ /\ error = None
              /\ Spend(k)
              /\ creds' = [creds EXCEPT ![id].count = authData.count]
              /\ sessions' = sessions \union
                    {[nth |-> Cardinality(sessions), user |-> creds[id].user,
                      id |-> id, uv |-> authData.uv,
                      challenge |-> pending[k], sig |-> sig]}
              /\ UNCHANGED <<issued, counter, signed, enrolled>>

-----------------------------------------------------------------------------
(* What clients post: what was signed, in any combination, or anything of  *)
(* their own.                                                              *)

SignedClientData == {s.over[2] : s \in signed}
SignedAuthData   == {s.over[1] : s \in signed}

PostedClientData == SignedClientData \union OtherClientData
PostedAuthData   == SignedAuthData \union OtherAuthData

\* The attestation objects that hold nothing signed, and those that do.
PostedAttestations ==
    OtherAttestations
    \union {AttestationNone(AuthDataRegistration(a, page, id)) :
               a \in Authenticators, page \in Pages, id \in Ids}
    \union {AttestationSelf(d, s) : d \in SignedAuthData, s \in signed}
    \union {AttestationFull(d, s, AttestationCert) :
               d \in SignedAuthData, s \in signed}

Next ==
    \/ \E n \in Names, p \in Purposes, c \in Challenges : Begin(n, p, c)
    \/ \E k \in Names \X Purposes : Lose(k)
    \/ \E a \in Authenticators, page \in Pages, c \in Challenges :
          \/ Get(a, page, c)
          \/ \E id \in Ids : \/ CreatePackedSelf(a, page, c, id)
                             \/ CreatePackedFull(a, page, c, id)
    \/ \E n \in Names, client \in PostedClientData, o \in Overrides :
          \/ \E obj \in PostedAttestations : RegisterFinish(n, client, obj, o)
          \/ \E id \in Ids, d \in PostedAuthData, s \in signed :
                LoginFinish(n, id, client, d, s, o)

Spec == Init /\ [][Next]_vars

-----------------------------------------------------------------------------
(* Properties.                                                             *)

\* Behind every session is a signature made for it: by the holder of the key
\* that the session's user registered, on a page of this server, for its RP
\* ID, with its user present, over the challenge the login was begun with --
\* and made to log in, not to register (login.go 69-155).
SessionsAreSigned ==
    \A s \in sessions :
        /\ s.sig \in signed
        /\ \E e \in enrolled : /\ e.user = s.user /\ e.id = s.id
                               /\ e.key.kp = s.sig.kp /\ e.key.alg = s.sig.alg
        /\ LET authData == s.sig.over[1]
               client   == s.sig.over[2]
           IN  /\ authData.rpID = RPID
               /\ authData.up /\ authData.uv = s.uv
               /\ client.type = "webauthn.get"
               /\ client.origin \in Origins
               /\ client.challenge = s.challenge

\* A signature is good for one session: whoever posts it again, for whatever
\* name, gets none (login.go 82, challenge.go 99-119).
OneSessionPerSignature ==
    \A s, z \in sessions : s.sig = z.sig => s = z

\* A credential registered under packed self-attestation is in the hands of
\* its key's holder, who signed for this registration and this credential ID
\* (attestation.go 70-87).
SelfAttestedKeysAreHeld ==
    \A e \in enrolled :
        e.obj.fmt = "packed" /\ "x5c" \notin DOMAIN e.obj.stmt =>
            \E g \in signed :
                /\ g.kp = e.key.kp
                /\ g.over = SignedOver(e.obj.authData, e.client)

\* The alarm of a cloned authenticator is never raised by someone who could
\* not sign: the counter it goes by was signed with the credential's own key
\* (login.go 132-149).
CounterAlarmIsGenuine ==
    \A id \in Ids, client \in PostedClientData \ {None},
       authData \in PostedAuthData, sig \in signed, o \in Overrides :
        LoginError(id, client, authData, sig, o) = "ErrCounterRegression" =>
            Signature(Key(creds[id].key).kp, creds[id].alg,
                      SignedOver(authData, client)) \in signed

\* A page of this server.
Home(page) == page.origin \in Origins /\ page.rpID = RPID

\* Whatever was posted before, an authenticator that does its part can
\* register, under every attestation the server supports, and can log in
\* with what it registered, even if its counter stays zero (register.go
\* 63-125, login.go 69-155).
HonestCeremoniesSucceed ==
    \A n \in Names, a \in Authenticators, page \in {p \in Pages : Home(p)},
       id \in Ids, o \in Overrides :
        /\ LET c == pending[<<n, "register">>]
               client   == ClientData("webauthn.create", page, c)
               authData == AuthDataRegistration(a, page, id)
               over     == SignedOver(authData, client)
               full     == Signature(AttestationKey, AlgES256, over)
           IN  c # None /\ creds[id] = None =>
                  \A obj \in {AttestationNone(authData),
                              AttestationSelf(authData,
                                              Signature(a.kp, a.alg, over)),
                              AttestationFull(authData, full, AttestationCert)} :
                      /\ ClientError(client, "webauthn.create") = None
                      /\ RegisterError(client, obj, o) = None
        /\ LET c == pending[<<n, "login">>]
               client   == ClientData("webauthn.get", page, c)
               authData == AuthDataAssertion(a, page)
               sig      == Signature(a.kp, a.alg, SignedOver(authData, client))
           IN  /\ c # None /\ creds[id] # None
               /\ creds[id].key = EncodeKey(a.kp, a.alg)
               /\ creds[id].count <= counter[a]
               => /\ ClientError(client, "webauthn.get") = None
                  /\ LoginError(id, client, authData, sig, o) = None

=============================================================================
