--------------------------- MODULE MCVerification ---------------------------
(***************************************************************************)
(* Verification on small sets: two authenticators, one with a counter and  *)
(* one without, one credential ID that they contend for, and pages that    *)
(* are this server's or almost.                                            *)
(***************************************************************************)
EXTENDS Verification, TLC

CONSTANT i1

KeyPair(owner, type) == [owner |-> owner, type |-> type]

Counting == [kp |-> KeyPair("counting", "P-256"), alg |-> AlgES256,
             zeroCounter |-> FALSE]
Zero     == [kp |-> KeyPair("zero", "Ed25519"), alg |-> AlgEdDSA,
             zeroCounter |-> TRUE]
MCAuthenticators == {Counting, Zero}

\* The server's page, a page of a subdomain that has the same RP ID, and an
\* allowed page that has its own.
MCOrigins == {"https://example.com", "https://login.example.com"}
MCRPID == "example.com"
Page(origin, rpID) == [origin |-> origin, rpID |-> rpID]
HomePage == Page("https://example.com", MCRPID)
MCPages == {HomePage, Page("https://sub.example.com", MCRPID),
            Page("https://login.example.com", "login.example.com")}

\* What clients compose themselves: client data to register with.
ToRegister == {ClientData("webauthn.create", HomePage, c) : c \in Challenges}

\* Client data that does not parse, or whose challenge is no base64.
OddClientData ==
    ToRegister \union {None, ClientData("webauthn.create", HomePage, None)}

-----------------------------------------------------------------------------
(* What clients compose themselves to register.                            *)

\* Authenticator data with a key, good or not, that was made elsewhere.
Posted(key, rpID) ==
    [rpID |-> rpID, up |-> TRUE, uv |-> TRUE, count |-> 2,
     attested |-> [id |-> i1, key |-> key]]

Foreign == EncodeKey(KeyPair("foreign", "RSA"), AlgRS256)

OddKeys == {None, [Foreign EXCEPT ![labelN] = IntValue(1)]}

OddAuthData == {None, Posted(Foreign, MCRPID)}

UnusableAuthData ==
    {Posted(Foreign, "other.com"),
     [Posted(Foreign, MCRPID) EXCEPT !.attested = None]}
    \union {Posted(k, MCRPID) : k \in OddKeys}

\* Statements with bytes for a signature, and for a certificate.
Junk == [type |-> "bytes", sig |-> Signature(None, AlgRS256, None)]
JunkChain == [type |-> "array", items |-> <<[type |-> "bytes", cert |-> None]>>]
JunkStatements ==
    {[alg |-> IntValue(AlgRS256), sig |-> Junk],
     [alg |-> IntValue(AlgRS256), sig |-> Junk, x5c |-> JunkChain]}

OddAttestations ==
    {None}
    \union {AttestationNone(d) : d \in OddAuthData \union UnusableAuthData}
    \union {[fmt |-> "packed", stmt |-> s, authData |-> Posted(Foreign, MCRPID)] :
               s \in JunkStatements}

MCSymmetry == Permutations(Challenges)

=============================================================================
