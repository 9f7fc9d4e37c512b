---------------------------- MODULE CredentialMap ----------------------------
(***************************************************************************)
(* What the handlers may rely on from the credential store: a map whose    *)
(* methods take effect at one instant between call and return, whose       *)
(* errors change nothing, and which a crash leaves as it was.              *)
(***************************************************************************)
EXTENDS Credentials

CONSTANTS Threads, None

VARIABLES
    map,      \* the credentials
    request,  \* the method each thread is in, None if it is in none
    answer    \* what it will return, None before it took effect

mapVars == <<map, request, answer>>

MapInit ==
    /\ map = Empty
    /\ request = [t \in Threads |-> None]
    /\ answer = [t \in Threads |-> None]

Invoke(t, op) ==
    /\ request[t] = None
    /\ request' = [request EXCEPT ![t] = op]
    /\ UNCHANGED <<map, answer>>

Perform(t) ==
    /\ request[t] # None
    /\ answer[t] = None
    /\ answer' = [answer EXCEPT ![t] = Answer(request[t], map)]
    /\ map' = IF Refused(request[t], map) THEN map
              ELSE Effect(request[t], map)
    /\ UNCHANGED request

Fail(t) ==
    /\ request[t] # None
    /\ answer[t] = None
    /\ answer' = [answer EXCEPT ![t] = IOError]
    /\ UNCHANGED <<map, request>>

Return(t) ==
    /\ answer[t] # None
    /\ request' = [request EXCEPT ![t] = None]
    /\ answer' = [answer EXCEPT ![t] = None]
    /\ UNCHANGED map

Crash ==
    /\ request' = [t \in Threads |-> None]
    /\ answer' = [t \in Threads |-> None]
    /\ UNCHANGED map

MapNext ==
    \/ \E t \in Threads, op \in Ops : Invoke(t, op)
    \/ \E t \in Threads : Perform(t) \/ Fail(t) \/ Return(t)
    \/ Crash

Spec == MapInit /\ [][MapNext]_mapVars

=============================================================================
