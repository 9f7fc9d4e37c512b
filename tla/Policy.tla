------------------------------- MODULE Policy -------------------------------
(***************************************************************************)
(* The rules of internal/policy: origin and RP ID (origin.go), user        *)
(* presence and user verification (flags.go).  A request carries its       *)
(* policy as any string: the unset one and unknown ones are just not in    *)
(* UVPolicies.                                                             *)
(***************************************************************************)
EXTENDS Naturals

uvStrictness == [discouraged |-> 0, preferred |-> 1, required |-> 2]
UVPolicies   == DOMAIN uvStrictness

\* Fault: a policy that the request names is honoured whatever the floor.
PolicyAsRequested(floor, requested) ==
    IF requested \in UVPolicies THEN requested ELSE floor

\* The stricter of the server's floor and what the request asks for.
EffectivePolicy(floor, requested) ==
    IF /\ requested \in UVPolicies
       /\ uvStrictness[requested] > uvStrictness[floor]
    THEN requested ELSE floor

\* CheckOrigin: the origin is in the list as it is, never by a part of it.
OriginPasses(allowed, origin) == origin \in allowed

\* CheckRPIDHash.  SHA-256 has no collisions here: data with the hash of an
\* RP ID is data for that RP ID.
RPIDHashPasses(rpID, hashed) == rpID = hashed

\* CheckFlags returns no error; it then reports uv as it is.
FlagsPass(policy, up, uv) ==
    /\ up
    /\ policy \in UVPolicies
    /\ policy = "required" => uv

=============================================================================
