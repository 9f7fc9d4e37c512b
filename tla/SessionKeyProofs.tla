-------------------------- MODULE SessionKeyProofs --------------------------
(***************************************************************************)
(* Proofs about SessionKey for any number of servers, starts and keys.     *)
(***************************************************************************)
EXTENDS SessionKey, TLAPS

USE StartAssumption, KeyAssumption

\* The state keeps its types: a process holds a key, whole or not, from the
\* moment it read or drew one until it ends (main.go 227-242).
LEMMA NextKeepsTypes ==
    TypeOK /\ NeverSignsWithPart /\ [Next]_vars => TypeOK'
<1> SUFFICES ASSUME TypeOK, NeverSignsWithPart, [Next]_vars
             PROVE  TypeOK'
    OBVIOUS
<1> USE DEF TypeOK, Stages, At, Goto
<1>1. ASSUME NEW s \in Servers, Exit(s)
      PROVE  TypeOK'
      BY <1>1 DEF Exit
<1>2. ASSUME NEW s \in Servers, Start(s)
      PROVE  TypeOK'
      BY <1>2 DEF Start
<1>3. ASSUME NEW s \in Servers, ReadKey(s)
      PROVE  TypeOK'
      BY <1>3 DEF ReadKey, Generate
<1>4. ASSUME NEW s \in Servers, CreateFile(s) \/ WriteKey(s) \/ WriteFails(s)
      PROVE  TypeOK'
      BY <1>4 DEF CreateFile, WriteKey, WriteFails
<1>5. ASSUME NEW s \in Servers, NewSigner(s) \/ Sign(s)
      PROVE  TypeOK'
      BY <1>1, <1>5 DEF NewSigner, Sign, NeverSignsWithPart
<1>6. CASE Writeback
      BY <1>6 DEF Writeback
<1>7. CASE PowerLoss
      BY <1>7 DEF PowerLoss
<1>8. CASE UNCHANGED vars
      BY <1>8 DEF vars
<1>9. QED
  BY <1>1, <1>2, <1>3, <1>4, <1>5, <1>6, <1>7, <1>8
  DEF Next, ReadFails, CreateFails, Kill

\* Whatever the file held when it was read, only a whole key gets past
\* NewSigner (token.go 42-47).
LEMMA NextKeepsWholeKeys ==
    TypeOK /\ NeverSignsWithPart /\ [Next]_vars => NeverSignsWithPart'
<1> SUFFICES ASSUME TypeOK, NeverSignsWithPart, [Next]_vars
             PROVE  NeverSignsWithPart'
    OBVIOUS
<1> USE DEF TypeOK, Stages, NeverSignsWithPart, At, Goto, Exit
<1>1. ASSUME NEW s \in Servers,
             \/ Start(s) \/ ReadFails(s) \/ CreateFile(s) \/ CreateFails(s)
             \/ WriteKey(s) \/ WriteFails(s) \/ Sign(s) \/ Kill(s)
      PROVE  NeverSignsWithPart'
      BY <1>1 DEF Start, ReadFails, CreateFile, CreateFails, WriteKey,
                  WriteFails, Sign, Kill
<1>2. ASSUME NEW s \in Servers, ReadKey(s)
      PROVE  NeverSignsWithPart'
      BY <1>2 DEF ReadKey, Generate
<1>3. ASSUME NEW s \in Servers, NewSigner(s)
      PROVE  NeverSignsWithPart'
      BY <1>3 DEF NewSigner
<1>4. CASE Writeback \/ PowerLoss \/ UNCHANGED vars
      BY <1>4 DEF Writeback, PowerLoss, vars
<1>5. QED BY <1>1, <1>2, <1>3, <1>4 DEF Next

\* The two hold together: a server signs with keys only because only a key
\* gets past NewSigner.
LEMMA KeysAreTyped == Spec => [](TypeOK /\ NeverSignsWithPart)
<1>1. Init => TypeOK /\ NeverSignsWithPart
      BY DEF Init, TypeOK, Stages, NeverSignsWithPart, At
<1>2. QED BY <1>1, NextKeepsTypes, NextKeepsWholeKeys, PTL DEF Spec

\* The state keeps its types.
THEOREM TypeCorrectness == Spec => []TypeOK
BY KeysAreTyped, PTL

\* No server signs with a key that is too short (token.go 42-47).
THEOREM PartsNeverSign == Spec => []NeverSignsWithPart
BY KeysAreTyped, PTL

\* A settled key stays: the only writers are servers that found no file, and
\* there is none of them left (main.go 227-241).
THEOREM SettledKeysStay == Spec => KeyIsStable
<1>1. TypeOK /\ [Next]_vars
         => [Settled => (Settled' /\ file' = file) \/ PowerLoss]_vars
  <2> SUFFICES ASSUME TypeOK, Settled, Next
               PROVE  (Settled' /\ file' = file) \/ PowerLoss
      OBVIOUS
  <2> USE DEF TypeOK, Stages, Settled, At, Goto, Exit
  <2>1. ASSUME NEW s \in Servers,
               \/ Start(s) \/ ReadFails(s) \/ CreateFile(s) \/ CreateFails(s)
               \/ WriteKey(s) \/ WriteFails(s) \/ Sign(s) \/ Kill(s)
        PROVE  Settled' /\ file' = file
        BY <2>1 DEF Start, ReadFails, CreateFile, CreateFails, WriteKey,
                    WriteFails, Sign, Kill
  <2>2. ASSUME NEW s \in Servers, ReadKey(s) \/ NewSigner(s)
        PROVE  Settled' /\ file' = file
        BY <2>2 DEF ReadKey, NewSigner
  <2>3. CASE Writeback
        BY <2>3 DEF Writeback
  <2>4. QED BY <2>1, <2>2, <2>3 DEF Next
<1>2. QED BY <1>1, TypeCorrectness, PTL DEF Spec, KeyIsStable

\* As long as one server runs at a time, and short of a power loss, whoever
\* serves holds the key in the file, and nothing was ever signed with another.
LEMMA OrderlyInvHolds == Spec => []OrderlyInv
<1> USE DEF OrderlyInv, At, Goto, Exit
<1>1. Init => OrderlyInv
      BY DEF Init
<1>2. TypeOK /\ OrderlyInv /\ [Next]_vars => OrderlyInv'
  <2> SUFFICES ASSUME TypeOK, OrderlyInv, [Next]_vars
               PROVE  OrderlyInv'
      OBVIOUS
  <2> USE DEF TypeOK, Stages
  <2>1. ASSUME NEW s \in Servers, Start(s)
        PROVE  OrderlyInv'
        BY <2>1 DEF Start
  <2>2. ASSUME NEW s \in Servers, ReadFails(s) \/ CreateFails(s) \/ Kill(s)
        PROVE  OrderlyInv'
    <3>1. /\ UNCHANGED <<file, signed, orderly>>
          /\ pc' = [pc EXCEPT ![s] = "down"] /\ key' = [key EXCEPT ![s] = None]
          BY <2>2 DEF ReadFails, CreateFails, Kill
    <3>2. QED BY <3>1
  <2>3. ASSUME NEW s \in Servers, ReadKey(s)
        PROVE  OrderlyInv'
        BY <2>3 DEF ReadKey, Generate
  <2>4. ASSUME NEW s \in Servers, CreateFile(s)
        PROVE  OrderlyInv'
        BY <2>4 DEF CreateFile
  <2>5. ASSUME NEW s \in Servers, WriteKey(s)
        PROVE  OrderlyInv'
        BY <2>5 DEF WriteKey
  <2>6. ASSUME NEW s \in Servers, WriteFails(s)
        PROVE  OrderlyInv'
        BY <2>6 DEF WriteFails
  <2>7. ASSUME NEW s \in Servers, NewSigner(s) \/ Sign(s)
        PROVE  OrderlyInv'
        BY <2>7 DEF NewSigner, Sign
  <2>8. CASE Writeback \/ PowerLoss \/ UNCHANGED vars
        BY <2>8 DEF Writeback, PowerLoss, vars
  <2>9. QED BY <2>1, <2>2, <2>3, <2>4, <2>5, <2>6, <2>7, <2>8 DEF Next
<1>3. QED BY <1>1, <1>2, TypeCorrectness, PTL DEF Spec

\* A token signed under a key path verifies after any number of restarts, by
\* crash or by choice, of one server at a time (main.go 215-217).
THEOREM TokensSurviveRestarts == Spec => []TokensSurvive
<1>1. OrderlyInv => TokensSurvive
      BY DEF OrderlyInv, TokensSurvive, At
<1>2. QED BY <1>1, OrderlyInvHolds, PTL

=============================================================================
