----------------------------- MODULE CborProofs -----------------------------
(***************************************************************************)
(* Theorems of the decoder, for every input and all limits: its work is    *)
(* bounded, and it accepts canonical encodings only.                       *)
(*                                                                         *)
(* The work is bounded because a head has at least a byte and reaches no   *)
(* further than the input, and so has a string: what is needed of the      *)
(* numbers in a head is only that they are numbers.                        *)
(*                                                                         *)
(* What it accepts is canonical because a value on its way to the caller   *)
(* is a canonical encoding of its own bytes, and each call under way holds *)
(* the items that lie end to end behind its head.  Both say so of any set  *)
(* of encodings that is closed under the rules, so neither needs a         *)
(* recursive definition.                                                   *)
(***************************************************************************)
EXTENDS CborCanonical, TLAPS, WellFoundedInduction

\* The stack holds calls of whatever shape, but it is a stack.
Shape ==
    /\ buf \in Seq(Byte)
    /\ pos \in Nat /\ depth \in Nat /\ elems \in Nat
    /\ \E S : calls \in Seq(S)

IInv == Shape /\ WorkIsBounded

-----------------------------------------------------------------------------
(* Heads.                                                                  *)

\* Leading zeros end at a first digit, or with the bytes.
LEMMA LeadingZerosEnd ==
    ASSUME NEW bytes \in Seq(Byte), Len(bytes) <= 8
    PROVE  \E i \in 1 .. Len(bytes) + 1 :
               /\ i <= Len(bytes) => bytes[i] # 0
               /\ \A j \in 1 .. i - 1 : bytes[j] = 0
<1> DEFINE P(i) == /\ i <= Len(bytes) => bytes[i] # 0
                   /\ \A j \in 1 .. i - 1 : bytes[j] = 0
           Z(k) == \A j \in 1 .. k : bytes[j] = 0
<1> SUFFICES \E i \in 1 .. Len(bytes) + 1 : P(i)
    OBVIOUS
<1>0. Len(bytes) \in Nat
    OBVIOUS
<1>z. Z(0)
    OBVIOUS
<1>1. ASSUME NEW k \in 0 .. Len(bytes), Z(k)
      PROVE  \/ P(k + 1)
             \/ k + 1 <= Len(bytes) /\ Z(k + 1)
    BY <1>1, <1>0
<1>4. Len(bytes) > 7 => Len(bytes) = 8
  <2> DEFINE n == Len(bytes)
  <2>1. n \in Nat /\ n <= 8
      OBVIOUS
  <2> HIDE DEF n
  <2>2. n > 7 => n = 8
      BY <2>1
  <2> QED
      BY <2>2 DEF n
<1> HIDE DEF P, Z
<1>2. \/ \E i \in 1 .. Len(bytes) + 1 : P(i)
      \/ Len(bytes) > 3 /\ Z(4)
    BY <1>0, <1>1, <1>z
<1>3. \/ \E i \in 1 .. Len(bytes) + 1 : P(i)
      \/ Len(bytes) > 7 /\ Z(8)
    BY <1>0, <1>1, <1>2
<1> QED
    BY <1>0, <1>1, <1>3, <1>4

\* The digits of an argument are bytes.
LEMMA DigitsAreBytes ==
    ASSUME NEW bytes \in Seq(Byte), Len(bytes) <= 8
    PROVE  Digits(bytes) \in Seq(Byte)
<1> DEFINE Cuts == {SubSeq(bytes, i, Len(bytes)) : i \in 1 .. Len(bytes) + 1}
           P(d) == /\ d # <<>> => d[1] # 0
                   /\ \A i \in 1 .. Len(bytes) - Len(d) : bytes[i] = 0
<1>1. PICK i \in 1 .. Len(bytes) + 1 :
          /\ i <= Len(bytes) => bytes[i] # 0
          /\ \A j \in 1 .. i - 1 : bytes[j] = 0
    BY LeadingZerosEnd
<1>2. P(SubSeq(bytes, i, Len(bytes)))
  <2> DEFINE d == SubSeq(bytes, i, Len(bytes))
  <2>1. Len(d) = Len(bytes) - i + 1
      OBVIOUS
  <2>2. d # <<>> => d[1] = bytes[i] /\ i <= Len(bytes)
      BY <2>1
  <2>3. Len(bytes) - Len(d) = i - 1
      BY <2>1
  <2> QED
      BY <1>1, <2>2, <2>3
<1>3. PICK k \in 1 .. Len(bytes) + 1 : Digits(bytes) = SubSeq(bytes, k, Len(bytes))
    BY <1>2 DEF Digits
<1> QED
    BY <1>3

\* A length is a natural number.
LEMMA CountIsNat ==
    ASSUME NEW d \in Seq(Byte)
    PROVE  Count(d) \in Nat
<1> DEFINE n == Len(d)
<1>0. Byte \subseteq Nat
    BY DEF Byte
<1>1. \A i \in 1 .. n : d[i] \in Nat
  <2>1. \A i \in 1 .. n : d[i] \in Byte
      OBVIOUS
  <2> HIDE DEF n
  <2> QED
      BY <1>0, <2>1
<1>2. MaxInputSize + 1 \in Nat
    BY LimitAssumption
<1>3. ASSUME n = 1 PROVE d[1] \in Nat
    BY <1>1, <1>3
<1>4. ASSUME n = 2 PROVE d[1] \in Nat /\ d[2] \in Nat
    BY <1>1, <1>4
<1>5. ASSUME n = 3 PROVE d[1] \in Nat /\ d[2] \in Nat /\ d[3] \in Nat
    BY <1>1, <1>5
<1>6. Count(d) = CASE n = 0 -> 0
                   [] n = 1 -> d[1]
                   [] n = 2 -> 256 * d[1] + d[2]
                   [] n = 3 -> 65536 * d[1] + 256 * d[2] + d[3]
                   [] OTHER -> MaxInputSize + 1
    BY DEF Count
<1>7. n \in Nat
    OBVIOUS
<1> HIDE DEF n
<1>8. CASE n \in 0 .. 1
    BY <1>3, <1>6, <1>8
<1>9. CASE n \in 2 .. 3
    BY <1>4, <1>5, <1>6, <1>9, SMTT(30)
<1>10. CASE n \notin 0 .. 3
    BY <1>2, <1>6, <1>7, <1>10
<1> QED
    BY <1>7, <1>8, <1>9, <1>10

\* A head without an error lies inside the input (decode.go 122-196).
LEMMA HeadFits ==
    ASSUME Shape, WorkIsBounded, HeadError = None, None \notin Errors
    PROVE  /\ HeadLength \in Nat \ {0}
           /\ StringLength \in Nat
           /\ pos + HeadLength + StringLength <= Len(buf)
           /\ Major \in {4, 5} => depth < MaxDepth
           /\ elems < MaxElements
<1>1. elems < MaxElements /\ pos < Len(buf)
    BY LimitAssumption DEF HeadError, Errors, Shape, WorkIsBounded, Remaining
<1>2. InitialByte \in Byte /\ Info \in 0 .. 31 /\ Major \in 0 .. 7
  <2>1. InitialByte \in Byte
      BY <1>1 DEF Shape, InitialByte
  <2>2. \A b \in 0 .. 255 : b % 32 \in 0 .. 31 /\ b \div 32 \in 0 .. 7
      OBVIOUS
  <2> QED
      BY <2>1, <2>2 DEF Info, Major, Byte
<1>3. ArgumentLength \in 0 .. 8 /\ HeadLength = 1 + ArgumentLength
    BY <1>2 DEF ArgumentLength, HeadLength
<1>4. pos + HeadLength <= Len(buf)
  <2>1. CASE Major = 7
    <3>1. Info \in 20 .. 22
        BY <2>1, <1>1 DEF HeadError, SimpleError, Errors, Shape, Remaining
    <3> QED
        BY <3>1, <1>1 DEF ArgumentLength, HeadLength, Shape
  <2>2. CASE Major # 7
    <3>1. ~(Remaining < HeadLength)
        BY <2>2 DEF HeadError, Errors
    <3> QED
        BY <3>1, <1>1, <1>3 DEF Remaining, Shape
  <2> QED
      BY <2>1, <2>2
<1>5. Argument \in Seq(Byte)
  <2>1. CASE Info < 24
    <3>1. <<Info>> \in Seq(Byte) /\ Len(<<Info>>) <= 8
        BY <1>2 DEF Byte
    <3> QED
        BY <2>1, <3>1, DigitsAreBytes DEF Argument
  <2>2. CASE ~(Info < 24)
    <3>1. ArgumentBytes \in Seq(Byte) /\ Len(ArgumentBytes) <= 8
        BY <1>1, <1>3, <1>4 DEF ArgumentBytes, Shape
    <3> QED
        BY <2>2, <3>1, DigitsAreBytes DEF Argument
  <2> QED
      BY <2>1, <2>2
<1>6. Count(Argument) \in Nat
    BY <1>5, CountIsNat
<1>7. StringLength \in Nat /\ pos + HeadLength + StringLength <= Len(buf)
  <2>1. CASE Major \in {2, 3}
    <3>1. ItemError = None
        BY <2>1 DEF HeadError, Errors
    <3>2. ~(Count(Argument) > Remaining - HeadLength)
        BY <2>1, <3>1 DEF ItemError, Errors
    <3> QED
        BY <2>1, <3>2, <1>1, <1>3, <1>4, <1>6 DEF Remaining, StringLength, Shape
  <2>2. CASE Major \notin {2, 3}
      BY <2>2, <1>3, <1>4 DEF StringLength, Shape
  <2> QED
      BY <2>1, <2>2
<1>8. Major \in {4, 5} => depth < MaxDepth
  <2> SUFFICES ASSUME Major \in {4, 5} PROVE depth < MaxDepth
      OBVIOUS
  <2>1. ItemError = None
      BY DEF HeadError, Errors
  <2> QED
      BY <2>1, LimitAssumption DEF ItemError, Errors, Shape
<1> QED
    BY <1>1, <1>3, <1>7, <1>8

-----------------------------------------------------------------------------
(* Steps.                                                                  *)

\* A call to decodeValue reads what HeadFits says is there (decode.go 238-300).
LEMMA CallsKeepIInv ==
    ASSUME IInv, None \notin Errors, DecodeScalar \/ EnterContainer
    PROVE  IInv'
<1> USE DEF IInv, Called
<1>1. Shape /\ WorkIsBounded /\ HeadError = None
    BY DEF DecodeScalar, EnterContainer
<1>2. /\ HeadLength \in Nat \ {0}
      /\ StringLength \in Nat
      /\ pos + HeadLength + StringLength <= Len(buf)
      /\ Major \in {4, 5} => depth < MaxDepth
      /\ elems < MaxElements
    BY <1>1, HeadFits
<1>3. /\ pos \in Nat /\ elems \in Nat /\ depth \in Nat /\ Len(buf) \in Nat
      /\ MaxElements \in Nat /\ MaxDepth \in Nat
    BY LimitAssumption DEF Shape
<1>4. CASE DecodeScalar
    BY <1>2, <1>3, <1>4 DEF DecodeScalar, Shape, WorkIsBounded
<1>5. CASE EnterContainer
  <2> PICK S : calls \in Seq(S)
      BY DEF Shape
  <2> PICK call : calls' = Append(calls, call)
      BY <1>5 DEF EnterContainer
  <2>1. calls' \in Seq(S \union {call}) /\ Len(calls') = Len(calls) + 1
      OBVIOUS
  <2>2. pos + HeadLength <= Len(buf)
      BY <1>2, <1>3
  <2> QED
      BY <1>2, <1>3, <1>5, <2>1, <2>2 DEF EnterContainer, Shape, WorkIsBounded
<1> QED
    BY <1>4, <1>5

\* The loop replaces its own entry of the stack, and leaves with it
\* (decode.go 302-340).
LEMMA LoopsKeepIInv ==
    ASSUME IInv, TakeItem \/ LeaveContainer
    PROVE  IInv'
<1> USE DEF IInv
<1> PICK S : calls \in Seq(S)
    BY DEF Shape
<1>1. ASSUME calls # <<>>
      PROVE  /\ Outer \in Seq(S)
             /\ Len(Outer) = Len(calls) - 1 /\ Len(calls) \in Nat \ {0}
  <2>1. Len(calls) \in Nat \ {0}
      BY <1>1
  <2>2. SubSeq(calls, 1, Len(calls) - 1) \in Seq(S)
      BY <2>1
  <2>3. ASSUME NEW n \in Nat, n <= Len(calls)
        PROVE  Len(SubSeq(calls, 1, n)) = n
      BY <2>3
  <2>4. Len(SubSeq(calls, 1, Len(calls) - 1)) = Len(calls) - 1
    <3>1. Len(calls) - 1 \in Nat /\ Len(calls) - 1 <= Len(calls)
        BY <2>1
    <3> QED
        BY <3>1, <2>3, Zenon
  <2> QED
      BY <2>1, <2>2, <2>4 DEF Outer
<1>2. CASE TakeItem
  <2> PICK call : calls' = Append(Outer, call)
      BY <1>2 DEF TakeItem
  <2>1. /\ Outer \in Seq(S)
        /\ Len(Outer) = Len(calls) - 1 /\ Len(calls) \in Nat \ {0}
      BY <1>1, <1>2 DEF TakeItem
  <2>2. Outer \in Seq(S \union {call})
      BY <2>1
  <2>3. calls' \in Seq(S \union {call}) /\ Len(calls') = Len(Outer) + 1
      BY <2>2
  <2>4. Len(calls') = Len(calls)
    <3>1. \A n \in Nat : (n - 1) + 1 = n
        OBVIOUS
    <3> QED
        BY <2>1, <2>3, <3>1, Zenon
  <2> QED
      BY <1>2, <2>3, <2>4 DEF TakeItem, Shape, WorkIsBounded
<1>3. CASE LeaveContainer
  <2>1. CASE UNCHANGED <<buf, pos, depth, elems, calls>>
      BY <2>1 DEF Shape, WorkIsBounded
  <2>2. CASE /\ depth' = depth - 1 /\ calls' = Outer /\ calls # <<>>
             /\ UNCHANGED <<buf, pos, elems>>
      BY <2>2, <1>1, LimitAssumption DEF Shape, WorkIsBounded
  <2> QED
      BY <1>3, <2>1, <2>2 DEF LeaveContainer, Fail
<1> QED
    BY <1>2, <1>3

\* A new decoder starts over, whatever bytes it is for.
LEMMA StartsKeepIInv ==
    ASSUME IInv, Drop \/ \E b \in Seq(Byte) : Decode(b)
    PROVE  IInv'
<1>1. PICK b \in Seq(Byte) : /\ buf' = b /\ pos' = 0 /\ depth' = 0 /\ elems' = 0
                             /\ calls' = <<>>
  <2>1. CASE Drop
    <3>1. <<>> \in Seq(Byte)
        OBVIOUS
    <3> QED
        BY <2>1, <3>1 DEF Drop
  <2>2. CASE \E b \in Seq(Byte) : Decode(b)
      BY <2>2 DEF Decode
  <2> QED
      BY <2>1, <2>2
<1>2. calls' \in Seq({}) /\ Len(calls') = 0 /\ Len(buf') \in Nat
    BY <1>1
<1> QED
    BY <1>1, <1>2, LimitAssumption DEF IInv, Shape, WorkIsBounded

\* A decoder that has not started satisfies the invariant.
LEMMA InitHasIInv == Init => IInv
<1> SUFFICES ASSUME Init PROVE IInv
    OBVIOUS
<1>1. calls \in Seq({}) /\ Len(calls) = 0 /\ buf \in Seq(Byte) /\ Len(buf) = 0
    BY DEF Init
<1> QED
    BY <1>1, LimitAssumption DEF Init, IInv, Shape, WorkIsBounded

\* What may become of a decoder, whoever uses it: the parsers hand Decode
\* slices of what they were handed.
Moves == Steps \/ Drop \/ \E b \in Seq(Byte) : Decode(b)

\* No step of a decoder, whoever uses it, disturbs the invariant.
LEMMA MovesKeepIInv ==
    ASSUME None \notin Errors, IInv, [Moves]_decoder
    PROVE  IInv'
<1>1. CASE DecodeFails \/ DecodeReturns \/ UNCHANGED decoder
  <2>1. UNCHANGED <<buf, pos, depth, elems, calls>>
      BY <1>1 DEF DecodeFails, DecodeReturns, Fail, decoder
  <2> QED
      BY <2>1 DEF IInv, Shape, WorkIsBounded
<1> QED
    BY <1>1, CallsKeepIInv, LoopsKeepIInv, StartsKeepIInv DEF Moves, Steps

\* The decoder on its own inputs makes no other moves.
LEMMA NextMoves == [Next]_decoder => [Moves]_decoder
BY InputAssumption DEF Next, Moves

\* However the lengths in an input lie, Decode nests no deeper than MaxDepth,
\* decodes no more than MaxElements items and reads nothing past the end, and
\* the calls it is in are as many as its depth says (decode.go 28-36, 302-340).
THEOREM WorkBounded ==
    ASSUME None \notin Errors
    PROVE  Spec => []WorkIsBounded
<1>1. IInv /\ [Next]_decoder => IInv'
    BY MovesKeepIInv, NextMoves
<1>2. IInv => WorkIsBounded
    BY DEF IInv
<1> QED
    BY InitHasIInv, <1>1, <1>2, PTL DEF Spec

-----------------------------------------------------------------------------
\* None is no function and so none of the records a decoder returns, as a null
\* pointer is no value.  TLC's None is a model value, and that none.
IsAFunction(f) == f = [x \in DOMAIN f |-> f[x]]
NoneIsNoValue == ~IsAFunction(None)

-----------------------------------------------------------------------------
(* Slices.                                                                 *)

\* Two sequences with the same elements are one.
LEMMA SameElements ==
    ASSUME NEW S, NEW T, NEW s \in Seq(S), NEW t \in Seq(T), Len(s) = Len(t),
           \A i \in 1 .. Len(s) : s[i] = t[i]
    PROVE  s = t
OBVIOUS

\* What a concatenation holds, and where.
LEMMA Concatenation ==
    ASSUME NEW S, NEW s \in Seq(S), NEW t \in Seq(S)
    PROVE  /\ s \o t \in Seq(S)
           /\ Len(s \o t) = Len(s) + Len(t)
           /\ \A i \in 1 .. Len(s) : (s \o t)[i] = s[i]
           /\ \A i \in 1 .. Len(t) : (s \o t)[Len(s) + i] = t[i]
<1>1. s \o t \in Seq(S) /\ Len(s \o t) = Len(s) + Len(t)
    OBVIOUS
<1>2. \A i \in 1 .. Len(s) : (s \o t)[i] = s[i]
    OBVIOUS
<1>3. \A i \in 1 .. Len(t) : (s \o t)[Len(s) + i] = t[i]
    OBVIOUS
<1> QED
    BY <1>1, <1>2, <1>3

\* What Between cuts out of a sequence (the Go slice s[a:b]).
LEMMA Slice ==
    ASSUME NEW S, NEW s \in Seq(S), NEW a \in Nat, NEW b \in Nat,
           a <= b, b <= Len(s)
    PROVE  /\ Between(s, a, b) \in Seq(S)
           /\ Len(Between(s, a, b)) = b - a
           /\ \A i \in 1 .. b - a : Between(s, a, b)[i] = s[a + i]
<1>1. Len(SubSeq(s, a + 1, b)) = b - a
    OBVIOUS
<1>2. \A i \in 1 .. b - a : SubSeq(s, a + 1, b)[i] = s[a + i]
    OBVIOUS
<1>3. SubSeq(s, a + 1, b) \in Seq(S)
    OBVIOUS
<1> QED
    BY <1>1, <1>2, <1>3 DEF Between

\* Slices that meet make one.
LEMMA SlicesMeet ==
    ASSUME NEW S, NEW s \in Seq(S), NEW a \in Nat, NEW b \in Nat,
           NEW c \in Nat, a <= b, b <= c, c <= Len(s)
    PROVE  Between(s, a, b) \o Between(s, b, c) = Between(s, a, c)
<1> DEFINE x == Between(s, a, b)
           y == Between(s, b, c)
           z == Between(s, a, c)
<1>0. Len(s) \in Nat /\ b <= Len(s) /\ a <= c
    OBVIOUS
<1>1. /\ x \in Seq(S) /\ Len(x) = b - a
      /\ \A i \in 1 .. b - a : x[i] = s[a + i]
    BY <1>0, Slice, ZenonT(40)
<1>2. /\ y \in Seq(S) /\ Len(y) = c - b
      /\ \A i \in 1 .. c - b : y[i] = s[b + i]
    BY <1>0, Slice, ZenonT(40)
<1>3. /\ z \in Seq(S) /\ Len(z) = c - a
      /\ \A i \in 1 .. c - a : z[i] = s[a + i]
    BY <1>0, Slice, ZenonT(40)
<1> HIDE DEF x, y, z
<1>c. /\ x \o y \in Seq(S)
      /\ Len(x \o y) = Len(x) + Len(y)
      /\ \A i \in 1 .. Len(x) : (x \o y)[i] = x[i]
      /\ \A i \in 1 .. Len(y) : (x \o y)[Len(x) + i] = y[i]
  <2>1. x \in Seq(S) /\ y \in Seq(S)
      BY <1>1, <1>2
  <2>2. x \o y \in Seq(S) /\ Len(x \o y) = Len(x) + Len(y)
      BY <2>1, Concatenation
  <2>3. \A i \in 1 .. Len(x) : (x \o y)[i] = x[i]
      BY <2>1, Concatenation
  <2>4. \A i \in 1 .. Len(y) : (x \o y)[Len(x) + i] = y[i]
      BY <2>1, Concatenation
  <2> QED
      BY <2>2, <2>3, <2>4, Zenon
<1>4. x \o y \in Seq(S) /\ Len(x \o y) = c - a
  <2>1. (b - a) + (c - b) = c - a
      OBVIOUS
  <2> QED
      BY <1>1, <1>2, <1>c, <2>1, Zenon
<1>5. ASSUME NEW i \in 1 .. c - a
      PROVE  (x \o y)[i] = s[a + i]
  <2>1. CASE i <= b - a
    <3>1. i \in 1 .. b - a
        BY <2>1
    <3> QED
        BY <1>1, <1>c, <3>1, Zenon
  <2>2. CASE i > b - a
    <3> DEFINE j == i - (b - a)
    <3>1. j \in 1 .. c - b /\ (b - a) + j = i /\ b + j = a + i
        BY <2>2
    <3> HIDE DEF j
    <3> QED
        BY <1>1, <1>2, <1>c, <3>1, Zenon
  <2>3. i <= b - a \/ i > b - a
      OBVIOUS
  <2> QED
      BY <2>1, <2>2, <2>3, Zenon
<1>6. x \o y = z
    BY <1>3, <1>4, <1>5, SameElements
<1> QED
    BY <1>6 DEF x, y, z

\* A slice of a slice is a slice (parse.go 101-137).
LEMMA SliceOfSlice ==
    ASSUME NEW S, NEW s \in Seq(S), NEW a \in Nat, NEW b \in Nat,
           NEW c \in Nat, NEW d \in Nat,
           a <= b, b <= Len(s), c <= d, d <= b - a
    PROVE  Between(Between(s, a, b), c, d) = Between(s, a + c, a + d)
<1> DEFINE w == Between(s, a, b)
           x == Between(w, c, d)
           e == a + c
           f == a + d
           y == Between(s, e, f)
<1>1. /\ w \in Seq(S) /\ Len(w) = b - a
      /\ \A i \in 1 .. b - a : w[i] = s[a + i]
    BY Slice, Zenon
<1>2. /\ e \in Nat /\ f \in Nat /\ e <= f /\ f <= Len(s)
      /\ Len(s) \in Nat
    OBVIOUS
<1>3. f - e = d - c
    OBVIOUS
<1> HIDE DEF w, e, f
<1>4. /\ x \in Seq(S) /\ Len(x) = d - c
      /\ \A i \in 1 .. d - c : x[i] = w[c + i]
  <2>0. w \in Seq(S) /\ Len(w) = b - a
      BY <1>1
  <2>1. d <= Len(w)
      BY <2>0
  <2> QED
      BY <2>0, <2>1, Slice, Zenon
<1>5. /\ y \in Seq(S) /\ Len(y) = f - e
      /\ \A i \in 1 .. f - e : y[i] = s[e + i]
  <2>1. e \in Nat /\ f \in Nat /\ e <= f /\ f <= Len(s)
      BY <1>2
  <2> QED
      BY <2>1, Slice, Zenon
<1> HIDE DEF x, y
<1>6. ASSUME NEW i \in 1 .. d - c PROVE x[i] = y[i]
  <2>1. c + i \in 1 .. b - a /\ a + (c + i) = e + i
      BY DEF e
  <2> QED
      BY <1>1, <1>3, <1>4, <1>5, <2>1, Zenon
<1>7. x = y
  <2>1. Len(x) = Len(y) /\ \A i \in 1 .. Len(x) : x[i] = y[i]
      BY <1>3, <1>4, <1>5, <1>6, Zenon
  <2> QED
      BY <1>4, <1>5, <2>1, SameElements
<1> QED
    BY <1>7 DEF x, y, w, e, f

-----------------------------------------------------------------------------
(* Numerals and heads.                                                     *)

\* Digits takes away the leading zeros, all of them and nothing else.
LEMMA DigitsAreNumeral ==
    ASSUME NEW bytes \in Seq(Byte), Len(bytes) <= 8
    PROVE  \E z \in 0 .. Len(bytes) :
               /\ Digits(bytes) = Between(bytes, z, Len(bytes))
               /\ Len(Digits(bytes)) = Len(bytes) - z
               /\ Digits(bytes) \in Numerals
               /\ z < Len(bytes) => bytes[z + 1] # 0
               /\ \A j \in 1 .. z : bytes[j] = 0
<1> DEFINE P(d) == /\ d # <<>> => d[1] # 0
                   /\ \A j \in 1 .. Len(bytes) - Len(d) : bytes[j] = 0
           Cuts == {SubSeq(bytes, i, Len(bytes)) : i \in 1 .. Len(bytes) + 1}
           D(z) == Between(bytes, z, Len(bytes))
<1>0. Len(bytes) \in Nat
    OBVIOUS
<1>1. ASSUME NEW z \in 0 .. Len(bytes)
      PROVE  /\ D(z) \in Seq(Byte) /\ Len(D(z)) = Len(bytes) - z
             /\ D(z) # <<>> => z < Len(bytes) /\ D(z)[1] = bytes[z + 1]
             /\ z < Len(bytes) => D(z) # <<>>
  <2>1. /\ D(z) \in Seq(Byte) /\ Len(D(z)) = Len(bytes) - z
        /\ \A i \in 1 .. Len(bytes) - z : D(z)[i] = bytes[z + i]
    <3>1. z \in Nat /\ z <= Len(bytes) /\ Len(bytes) <= Len(bytes)
        BY <1>0
    <3> QED
        BY <1>0, <3>1, Slice, Zenon
  <2> HIDE DEF D
  <2>2. D(z) # <<>> <=> Len(D(z)) > 0
      BY <2>1
  <2> QED
      BY <1>0, <2>1, <2>2
<1>2. PICK i \in 1 .. Len(bytes) + 1 :
          /\ i <= Len(bytes) => bytes[i] # 0
          /\ \A j \in 1 .. i - 1 : bytes[j] = 0
    BY LeadingZerosEnd
<1>3. D(i - 1) \in Cuts /\ P(D(i - 1))
  <2>1. i - 1 \in 0 .. Len(bytes) /\ (i - 1) + 1 = i
        /\ Len(bytes) - (Len(bytes) - (i - 1)) = i - 1
      BY <1>0
  <2>2. D(i - 1) \in Cuts
      BY <2>1 DEF Between
  <2>3. /\ Len(D(i - 1)) = Len(bytes) - (i - 1)
        /\ D(i - 1) # <<>> => i <= Len(bytes) /\ D(i - 1)[1] = bytes[i]
      BY <1>0, <1>1, <2>1
  <2> HIDE DEF D
  <2>4. Len(bytes) - Len(D(i - 1)) = i - 1
      BY <2>1, <2>3
  <2> QED
      BY <1>2, <2>2, <2>3, <2>4
<1>4. Digits(bytes) = CHOOSE d \in Cuts : P(d)
    BY DEF Digits
<1>5. Digits(bytes) \in Cuts /\ P(Digits(bytes))
  <2> HIDE DEF P, D, Cuts
  <2> QED
      BY <1>3, <1>4
<1>6. PICK z \in 0 .. Len(bytes) : Digits(bytes) = D(z)
  <2>1. PICK k \in 1 .. Len(bytes) + 1 : Digits(bytes) = SubSeq(bytes, k, Len(bytes))
      BY <1>5
  <2>2. k - 1 \in 0 .. Len(bytes) /\ (k - 1) + 1 = k
      BY <1>0
  <2> QED
      BY <2>1, <2>2 DEF Between
<1>7. /\ D(z) \in Seq(Byte) /\ Len(D(z)) = Len(bytes) - z
      /\ D(z) # <<>> => D(z)[1] = bytes[z + 1]
      /\ z < Len(bytes) => D(z) # <<>>
    BY <1>1
<1> HIDE DEF D, Cuts
<1>8. /\ D(z) # <<>> => D(z)[1] # 0
      /\ \A j \in 1 .. z : bytes[j] = 0
  <2>1. Len(bytes) - Len(D(z)) = z
      BY <1>0, <1>7
  <2> QED
      BY <1>5, <1>6, <2>1
<1>9. Digits(bytes) \in Numerals
    BY <1>0, <1>6, <1>7, <1>8 DEF Numerals
<1> QED
    BY <1>6, <1>7, <1>8, <1>9 DEF D

\* Padding puts them back.
LEMMA PadsBack ==
    ASSUME NEW bytes \in Seq(Byte), Len(bytes) <= 8
    PROVE  Pad(Digits(bytes), Len(bytes)) = bytes
<1> DEFINE d == Digits(bytes)
           zeros == [i \in 1 .. Len(bytes) - Len(d) |-> 0]
<1>0. Len(bytes) \in Nat
    OBVIOUS
<1>1. PICK z \in 0 .. Len(bytes) :
          /\ d = Between(bytes, z, Len(bytes)) /\ d \in Seq(Byte)
          /\ Len(d) = Len(bytes) - z
          /\ \A j \in 1 .. z : bytes[j] = 0
    BY DigitsAreNumeral DEF Numerals
<1>2. \A j \in 1 .. Len(bytes) - z : d[j] = bytes[z + j]
  <2>1. z \in Nat /\ z <= Len(bytes) /\ Len(bytes) <= Len(bytes)
      BY <1>0
  <2>2. d = Between(bytes, z, Len(bytes))
      BY <1>1
  <2> HIDE DEF d
  <2> QED
      BY <1>0, <2>1, <2>2, Slice, Zenon
<1> HIDE DEF d
<1>3. Len(bytes) - Len(d) = z
    BY <1>0, <1>1
<1>4. /\ zeros \in Seq(Byte) /\ Len(zeros) = z
      /\ \A j \in 1 .. z : zeros[j] = 0
    BY <1>3 DEF Byte
<1> HIDE DEF zeros
<1>c. /\ zeros \o d \in Seq(Byte)
      /\ Len(zeros \o d) = Len(zeros) + Len(d)
      /\ \A i \in 1 .. Len(zeros) : (zeros \o d)[i] = zeros[i]
      /\ \A i \in 1 .. Len(d) : (zeros \o d)[Len(zeros) + i] = d[i]
  <2>1. zeros \in Seq(Byte) /\ d \in Seq(Byte)
      BY <1>1, <1>4
  <2>2. zeros \o d \in Seq(Byte) /\ Len(zeros \o d) = Len(zeros) + Len(d)
      BY <2>1, Concatenation
  <2>3. \A i \in 1 .. Len(zeros) : (zeros \o d)[i] = zeros[i]
      BY <2>1, Concatenation
  <2>4. \A i \in 1 .. Len(d) : (zeros \o d)[Len(zeros) + i] = d[i]
      BY <2>1, Concatenation
  <2> QED
      BY <2>2, <2>3, <2>4, Zenon
<1>5. zeros \o d \in Seq(Byte) /\ Len(zeros \o d) = Len(bytes)
  <2>1. z + (Len(bytes) - z) = Len(bytes)
      BY <1>0
  <2> QED
      BY <1>1, <1>4, <1>c, <2>1, Zenon
<1>6. ASSUME NEW j \in 1 .. Len(bytes)
      PROVE  (zeros \o d)[j] = bytes[j]
  <2>1. CASE j <= z
    <3>1. j \in 1 .. z
        BY <2>1
    <3> QED
        BY <1>1, <1>4, <1>c, <3>1, Zenon
  <2>2. CASE j > z
    <3> DEFINE i == j - z
    <3>1. i \in 1 .. Len(bytes) - z /\ z + i = j
        BY <1>0, <2>2
    <3> HIDE DEF i
    <3> QED
        BY <1>1, <1>2, <1>4, <1>c, <3>1, Zenon
  <2>3. j <= z \/ j > z
      OBVIOUS
  <2> QED
      BY <2>1, <2>2, <2>3, Zenon
<1>7. zeros \o d = bytes
    BY <1>5, <1>6, SameElements
<1> QED
    BY <1>7 DEF d, zeros, Pad

-----------------------------------------------------------------------------
(* The order of keys.                                                      *)

Less == {p \in Nat \X Nat : p[1] < p[2]}

\* Numbers there are have a least one among them: induction over sets, where
\* the library's takes an operator.
LEMMA LeastOf ==
    ASSUME NEW T \in SUBSET Nat, T # {}
    PROVE  \E m \in T : \A k \in T : m <= k
<1>1. IsWellFoundedOn(Less, Nat)
    BY NatLessThanWellFounded, Zenon DEF OpToRel, Less
<1>2. PICK m \in T : \A k \in T : ~(<<k, m>> \in Less)
    BY <1>1, WFMin
<1>3. ASSUME NEW k \in T PROVE m <= k
  <2>1. k \in Nat /\ m \in Nat
      OBVIOUS
  <2>2. <<k, m>> \in Nat \X Nat /\ <<k, m>>[1] = k /\ <<k, m>>[2] = m
      BY <2>1
  <2>3. ~(k < m)
      BY <1>2, <2>2 DEF Less
  <2> QED
      BY <2>1, <2>3
<1> QED
    BY <1>3

\* Keys that follow each other in order stay in order
\* (canonicalCompare, decode.go 353-364).
LEMMA KeyBeforeTransitive ==
    ASSUME NEW a \in Seq(Byte), NEW b \in Seq(Byte), NEW c \in Seq(Byte),
           KeyBefore(a, b), KeyBefore(b, c)
    PROVE  KeyBefore(a, c)
<1>0. /\ Len(a) \in Nat /\ Len(b) \in Nat /\ Len(c) \in Nat
      /\ \A i \in 1 .. Len(a) : a[i] \in Int
      /\ \A i \in 1 .. Len(b) : b[i] \in Int
      /\ \A i \in 1 .. Len(c) : c[i] \in Int
  <2>1. /\ \A i \in 1 .. Len(a) : a[i] \in Byte
        /\ \A i \in 1 .. Len(b) : b[i] \in Byte
        /\ \A i \in 1 .. Len(c) : c[i] \in Byte
      OBVIOUS
  <2>2. Byte \subseteq Int
      BY DEF Byte
  <2>3. Len(a) \in Nat /\ Len(b) \in Nat /\ Len(c) \in Nat
      OBVIOUS
  <2> QED
      BY <2>1, <2>2, <2>3, Zenon
<1>1. CASE Len(a) < Len(b) \/ Len(b) < Len(c)
  <2>1. Len(a) < Len(c)
      BY <1>0, <1>1 DEF KeyBefore
  <2> QED
      BY <2>1 DEF KeyBefore
<1>2. CASE ~(Len(a) < Len(b) \/ Len(b) < Len(c))
  <2>1. Len(a) = Len(b) /\ Len(b) = Len(c)
      BY <1>2 DEF KeyBefore
  <2>2. PICK i \in 1 .. Len(a) : a[i] < b[i] /\ \A j \in 1 .. i - 1 : a[j] = b[j]
      BY <1>2 DEF KeyBefore
  <2>3. PICK k \in 1 .. Len(b) : b[k] < c[k] /\ \A j \in 1 .. k - 1 : b[j] = c[j]
      BY <1>2 DEF KeyBefore
  <2>4. ASSUME NEW m \in 1 .. Len(a),
               a[m] < c[m], \A j \in 1 .. m - 1 : a[j] = c[j]
        PROVE  KeyBefore(a, c)
      BY <2>1, <2>4 DEF KeyBefore
  <2>5. CASE i <= k
    <3>1. i \in 1 .. Len(b) /\ i \in 1 .. Len(c) /\ i - 1 <= k - 1
        BY <1>0, <2>1, <2>5
    <3>2. a[i] < c[i]
      <4>1. b[i] <= c[i]
        <5>1. CASE i = k
            BY <1>0, <2>3, <3>1, <5>1
        <5>2. CASE i < k
          <6>1. i \in 1 .. k - 1
              BY <5>2
          <6> QED
              BY <1>0, <2>3, <3>1, <6>1
        <5> QED
            BY <2>5, <5>1, <5>2
      <4> QED
          BY <1>0, <2>2, <3>1, <4>1
    <3>3. \A j \in 1 .. i - 1 : a[j] = c[j]
        BY <2>2, <2>3, <3>1
    <3> QED
        BY <2>4, <3>2, <3>3
  <2>6. CASE k < i
    <3>1. k \in 1 .. i - 1 /\ k \in 1 .. Len(a)
        BY <1>0, <2>1, <2>6
    <3>2. a[k] < c[k]
        BY <2>2, <2>3, <3>1
    <3>3. \A j \in 1 .. k - 1 : a[j] = c[j]
        BY <2>2, <2>3, <3>1
    <3> QED
        BY <2>4, <3>1, <3>2, <3>3
  <2> QED
      BY <2>5, <2>6
<1> QED
    BY <1>1, <1>2

\* Comparing neighbours is enough (decode.go 341-364).
LEMMA NeighboursAreEnough ==
    ASSUME NEW keys \in Seq(Seq(Byte)),
           OrderError(keys) = None, None \notin Errors
    PROVE  KeysAscend(keys)
<1>0. Len(keys) \in Nat /\ DOMAIN keys = 1 .. Len(keys)
    OBVIOUS
<1>1. \A i \in 2 .. Len(keys) : KeyBefore(keys[i - 1], keys[i])
    BY DEF OrderError, Errors
<1>2. ASSUME NEW i \in 1 .. Len(keys), NEW j \in 1 .. Len(keys), i < j,
             ~KeyBefore(keys[i], keys[j])
      PROVE  FALSE
  <2> DEFINE T == {k \in i + 1 .. Len(keys) : ~KeyBefore(keys[i], keys[k])}
  <2>1. T \in SUBSET Nat /\ j \in T
      BY <1>0, <1>2
  <2>2. PICK m \in T : \A k \in T : m <= k
      BY <2>1, LeastOf
  <2>3. /\ m \in i + 1 .. Len(keys) /\ m \in 2 .. Len(keys)
        /\ ~KeyBefore(keys[i], keys[m])
      BY <1>0
  <2>4. KeyBefore(keys[m - 1], keys[m])
      BY <1>1, <2>3
  <2>5. m - 1 # i
      BY <2>3, <2>4
  <2>6. m - 1 \in i + 1 .. Len(keys) /\ ~(m <= m - 1)
      BY <1>0, <2>3, <2>5
  <2>7. KeyBefore(keys[i], keys[m - 1])
      BY <2>2, <2>6
  <2>8. /\ keys[i] \in Seq(Byte) /\ keys[m - 1] \in Seq(Byte)
        /\ keys[m] \in Seq(Byte)
      BY <1>0, <2>3, <2>6
  <2> QED
      BY <2>3, <2>4, <2>7, <2>8, KeyBeforeTransitive, Zenon
<1> QED
    BY <1>0, <1>2 DEF KeysAscend

-----------------------------------------------------------------------------
(* Heads.                                                                  *)

\* The slice of everything.
LEMMA WholeSlice ==
    ASSUME NEW S, NEW s \in Seq(S)
    PROVE  Between(s, 0, Len(s)) = s
<1> DEFINE n == Len(s)
           w == Between(s, 0, n)
<1>1. n \in Nat /\ 0 \in Nat /\ 0 <= n /\ n <= Len(s)
    OBVIOUS
<1>2. /\ w \in Seq(S) /\ Len(w) = n - 0
      /\ \A i \in 1 .. n - 0 : w[i] = s[0 + i]
    BY <1>1, Slice, Zenon
<1> HIDE DEF w
<1>3. Len(w) = Len(s) /\ \A i \in 1 .. Len(w) : w[i] = s[i]
    BY <1>1, <1>2
<1> QED
    BY <1>2, <1>3, SameElements DEF w

\* The slice of one byte (decode.go 113-120).
LEMMA OneByteSlice ==
    ASSUME NEW S, NEW s \in Seq(S), NEW a \in Nat, a < Len(s)
    PROVE  Between(s, a, a + 1) = <<s[a + 1]>>
<1> DEFINE w == Between(s, a, a + 1)
<1>0. Len(s) \in Nat /\ a + 1 \in Nat /\ a <= a + 1 /\ a + 1 <= Len(s)
    OBVIOUS
<1>1. /\ w \in Seq(S) /\ Len(w) = (a + 1) - a
      /\ \A i \in 1 .. (a + 1) - a : w[i] = s[a + i]
    BY <1>0, Slice, Zenon
<1> HIDE DEF w
<1>2. Len(w) = 1 /\ w[1] = s[a + 1]
    BY <1>0, <1>1
<1> QED
    BY <1>1, <1>2 DEF w

\* What encodeHeader does with a number, by how many digits it has.
LEMMA HeaderByLength ==
    ASSUME NEW m \in Nat, NEW d \in Seq(Byte)
    PROVE  /\ Len(d) = 0 => Header(m, d) = <<32 * m>>
           /\ Len(d) = 1 /\ d[1] < 24 => Header(m, d) = <<32 * m + d[1]>>
           /\ Len(d) = 1 /\ d[1] >= 24 => Header(m, d) = <<32 * m + 24>> \o d
           /\ Len(d) = 2 => Header(m, d) = <<32 * m + 25>> \o d
           /\ Len(d) \in 3 .. 4 => Header(m, d) = <<32 * m + 26>> \o Pad(d, 4)
           /\ Len(d) \in 5 .. 8 => Header(m, d) = <<32 * m + 27>> \o Pad(d, 8)
<1> DEFINE n == Len(d)
           small == d[1] < 24
           large == d[1] >= 24
           h0 == <<32 * m>>
           h1 == <<32 * m + d[1]>>
           h2 == <<32 * m + 24>> \o d
           h3 == <<32 * m + 25>> \o d
           h4 == <<32 * m + 26>> \o Pad(d, 4)
           h5 == <<32 * m + 27>> \o Pad(d, 8)
<1>1. Header(m, d) = CASE n = 0 -> h0
                       [] n = 1 /\ small -> h1
                       [] n = 1 /\ large -> h2
                       [] n = 2 -> h3
                       [] n \in 3 .. 4 -> h4
                       [] n \in 5 .. 8 -> h5
    BY Zenon DEF Header
<1>2. n \in Nat /\ (n = 1 => ~(small /\ large))
  <2>1. n \in Nat /\ (n = 1 => d[1] \in Byte)
      OBVIOUS
  <2>2. \A x \in Byte : ~(x < 24 /\ x >= 24)
      BY DEF Byte
  <2> QED
      BY <2>1, <2>2, Zenon
<1>3. /\ n = 0 => Header(m, d) = h0
      /\ n = 1 /\ small => Header(m, d) = h1
      /\ n = 1 /\ large => Header(m, d) = h2
      /\ n = 2 => Header(m, d) = h3
      /\ n \in 3 .. 4 => Header(m, d) = h4
      /\ n \in 5 .. 8 => Header(m, d) = h5
  <2> HIDE DEF n, small, large, h0, h1, h2, h3, h4, h5
  <2> QED
      BY <1>1, <1>2
<1> QED
    BY <1>3

\* The digits of an argument of one byte (decode.go 151-163).
LEMMA DigitsOfByte ==
    ASSUME NEW x \in Byte
    PROVE  Digits(<<x>>) = IF x = 0 THEN <<>> ELSE <<x>>
<1> DEFINE bytes == <<x>>
<1>1. bytes \in Seq(Byte) /\ Len(bytes) = 1 /\ bytes[1] = x /\ Len(bytes) <= 8
    OBVIOUS
<1> HIDE DEF bytes
<1>2. PICK z \in 0 .. 1 :
          /\ Digits(bytes) = Between(bytes, z, 1)
          /\ Len(Digits(bytes)) = 1 - z
          /\ Digits(bytes) \in Numerals
          /\ z < 1 => bytes[z + 1] # 0
          /\ \A j \in 1 .. z : bytes[j] = 0
    BY <1>1, DigitsAreNumeral
<1>3. CASE z = 0
  <2>1. x # 0 /\ Digits(bytes) = Between(bytes, 0, Len(bytes))
      BY <1>1, <1>2, <1>3
  <2>2. Digits(bytes) = bytes
      BY <1>1, <2>1, WholeSlice
  <2> QED
      BY <2>1, <2>2 DEF bytes
<1>4. CASE z = 1
  <2>1. x = 0 /\ Digits(bytes) \in Seq(Byte) /\ Len(Digits(bytes)) = 0
      BY <1>1, <1>2, <1>4 DEF Numerals
  <2>2. Digits(bytes) = <<>>
      BY <2>1
  <2> QED
      BY <2>1, <2>2 DEF bytes
<1> QED
    BY <1>2, <1>3, <1>4

\* Which has as many digits as a header needs bytes for: an argument whose
\* upper half is not zero (decode.go 142-196).
LEMMA DigitsOfLong ==
    ASSUME NEW bytes \in Seq(Byte), NEW h \in 1 .. 4, Len(bytes) = 2 * h,
           NEW i \in 1 .. h, bytes[i] # 0
    PROVE  /\ Digits(bytes) \in Numerals
           /\ Len(Digits(bytes)) \in h + 1 .. 2 * h
           /\ Pad(Digits(bytes), 2 * h) = bytes
<1>1. Len(bytes) <= 8
    OBVIOUS
<1>2. PICK z \in 0 .. Len(bytes) :
          /\ Len(Digits(bytes)) = Len(bytes) - z
          /\ Digits(bytes) \in Numerals
          /\ \A j \in 1 .. z : bytes[j] = 0
    BY <1>1, DigitsAreNumeral
<1>3. z < i
    BY <1>2
<1>4. Pad(Digits(bytes), Len(bytes)) = bytes
    BY <1>1, PadsBack
<1> QED
    BY <1>2, <1>3, <1>4

\* A head that is not refused is the one encodeHeader writes for its argument.
LEMMA HeadIsCanonical ==
    ASSUME Shape, WorkIsBounded, HeadError = None, None \notin Errors,
           Major # 7
    PROVE  /\ Major \in 0 .. 5
           /\ Argument \in Numerals
           /\ Major \in {0, 1} => ~OverInt64(Argument)
           /\ Between(buf, pos, pos + HeadLength) = Header(Major, Argument)
<1>1. /\ buf \in Seq(Byte) /\ pos \in Nat /\ Len(buf) \in Nat
      /\ HeadLength \in Nat \ {0} /\ pos + HeadLength <= Len(buf)
  <2>1. HeadLength \in Nat \ {0} /\ StringLength \in Nat
        /\ pos + HeadLength + StringLength <= Len(buf)
      BY HeadFits
  <2>2. buf \in Seq(Byte) /\ pos \in Nat /\ Len(buf) \in Nat
      BY DEF Shape
  <2> QED
      BY <2>1, <2>2
<1>2. ~(Info > 27) /\ Shortest /\ ItemError = None
    BY DEF HeadError, Errors
<1>3. InitialByte \in Byte /\ InitialByte = buf[pos + 1] /\ pos < Len(buf)
    BY <1>1 DEF InitialByte
<1>4. /\ Info \in 0 .. 27 /\ Major \in 0 .. 6 /\ Major \in Nat
      /\ InitialByte = 32 * Major + Info
  <2>1. \A b \in 0 .. 255 : /\ b % 32 \in 0 .. 31 /\ b \div 32 \in 0 .. 7
                            /\ b = 32 * (b \div 32) + (b % 32)
      OBVIOUS
  <2>2. InitialByte \in 0 .. 255
      BY <1>3 DEF Byte
  <2>3. /\ Info \in 0 .. 31 /\ Major \in 0 .. 7
        /\ InitialByte = 32 * Major + Info
      BY <2>1, <2>2, Zenon DEF Info, Major
  <2> QED
      BY <1>2, <2>3
<1>5. Major # 6 /\ (Major \in {0, 1} => ~OverInt64(Argument))
  <2> DEFINE over == OverInt64(Argument)
             long == Count(Argument) > Remaining - HeadLength
             deep == depth >= MaxDepth
             m == Major
  <2>1. ItemError = CASE m \in {0, 1} /\ over -> "ErrUnsupported"
                      [] m \in {2, 3} /\ long -> "ErrTruncated"
                      [] m \in {4, 5} /\ deep -> "ErrDepth"
                      [] m = 6                -> "ErrUnsupported"
                      [] OTHER                -> None
      BY DEF ItemError
  <2> HIDE DEF over, long, deep, m
  <2>2. m # 6 /\ (m \in {0, 1} => ~over)
      BY <1>2, <2>1 DEF Errors
  <2> QED
      BY <2>2 DEF m, over
<1>6. Between(buf, pos, pos + 1) = <<InitialByte>>
    BY <1>1, <1>3, OneByteSlice
<1>7. CASE Info < 24
  <2>1. HeadLength = 1 /\ Info \in Byte
      BY <1>4, <1>7 DEF ArgumentLength, HeadLength, Byte
  <2>2. Argument = IF Info = 0 THEN <<>> ELSE <<Info>>
      BY <1>7, <2>1, DigitsOfByte DEF Argument
  <2>3. CASE Info = 0
    <3>1. Argument = <<>>
        BY <2>2, <2>3
    <3>2. Argument \in Numerals /\ Argument \in Seq(Byte) /\ Len(Argument) = 0
      <4>1. <<>> \in Seq(Byte) /\ Len(<<>>) = 0
          OBVIOUS
      <4> QED
          BY <3>1, <4>1 DEF Numerals
    <3>3. Header(Major, Argument) = <<32 * Major>>
        BY <1>4, <3>2, HeaderByLength, Zenon
    <3>4. InitialByte = 32 * Major
        BY <1>4, <2>3
    <3> QED
        BY <1>4, <1>5, <1>6, <2>1, <3>2, <3>3, <3>4
  <2>4. CASE Info # 0
    <3>1. Argument = <<Info>>
        BY <2>2, <2>4
    <3>2. /\ Argument \in Numerals /\ Argument \in Seq(Byte)
          /\ Len(Argument) = 1 /\ Argument[1] = Info
      <4>1. <<Info>> \in Seq(Byte) /\ Len(<<Info>>) = 1 /\ <<Info>>[1] = Info
          BY <2>1
      <4> QED
          BY <2>4, <3>1, <4>1 DEF Numerals
    <3>3. Header(Major, Argument) = <<32 * Major + Info>>
      <4>1. Argument[1] < 24
          BY <1>7, <3>2
      <4>2. Header(Major, Argument) = <<32 * Major + Argument[1]>>
          BY <1>4, <3>2, <4>1, HeaderByLength, Zenon
      <4> QED
          BY <3>2, <4>2, Zenon
    <3> QED
        BY <1>4, <1>5, <1>6, <2>1, <3>2, <3>3
  <2> QED
      BY <2>3, <2>4
<1>8. CASE Info \in 24 .. 27
  <2> DEFINE n == ArgumentLength
             bytes == ArgumentBytes
  <2>1. /\ HeadLength = 1 + n
        /\ Info = 24 => n = 1
        /\ Info = 25 => n = 2
        /\ Info = 26 => n = 4
        /\ Info = 27 => n = 8
      BY <1>8 DEF ArgumentLength, HeadLength
  <2>2. n \in 1 .. 8 /\ n \in Nat
      BY <1>8, <2>1
  <2>3. bytes = Between(buf, pos + 1, pos + HeadLength)
    <3>1. pos + 2 = (pos + 1) + 1 /\ pos + 1 + n = pos + HeadLength
        BY <1>1, <2>1, <2>2
    <3> QED
        BY <3>1, Zenon DEF ArgumentBytes, Between
  <2>4. /\ pos + 1 \in Nat /\ pos + HeadLength \in Nat
        /\ pos <= pos + 1 /\ pos + 1 <= pos + HeadLength
        /\ (pos + HeadLength) - (pos + 1) = n
      BY <1>1, <2>1, <2>2
  <2>5. bytes \in Seq(Byte) /\ Len(bytes) = n
    <3> DEFINE a == pos + 1
               c == pos + HeadLength
    <3>1. /\ buf \in Seq(Byte) /\ a \in Nat /\ c \in Nat
          /\ a <= c /\ c <= Len(buf)
        BY <1>1, <2>4
    <3> HIDE DEF a, c
    <3>2. Between(buf, a, c) \in Seq(Byte) /\ Len(Between(buf, a, c)) = c - a
        BY <3>1, Slice, Zenon
    <3> QED
        BY <2>3, <2>4, <3>2, Zenon DEF a, c
  <2>6. Between(buf, pos, pos + HeadLength) = <<InitialByte>> \o bytes
    <3>1. Between(buf, pos, pos + 1) \o Between(buf, pos + 1, pos + HeadLength)
              = Between(buf, pos, pos + HeadLength)
        BY <1>1, <2>4, SlicesMeet, Zenon
    <3> QED
        BY <1>6, <2>3, <3>1, Zenon
  <2>7. Argument = Digits(bytes)
      BY <1>8 DEF Argument
  <2> HIDE DEF n, bytes
  <2>8. CASE Info = 24
    <3>1. bytes = <<bytes[1]>> /\ bytes[1] \in Byte /\ bytes[1] >= 24
      <4>1. bytes[1] >= 24
          BY <1>2, <2>8 DEF Shortest, bytes
      <4>2. Len(bytes) = 1
          BY <2>1, <2>5, <2>8
      <4> QED
          BY <2>5, <4>1, <4>2
    <3>2. Argument = bytes
      <4>1. bytes[1] # 0
          BY <3>1
      <4>2. Digits(<<bytes[1]>>) = <<bytes[1]>>
          BY <3>1, <4>1, DigitsOfByte
      <4> QED
          BY <2>7, <3>1, <4>2, Zenon
    <3>3. Argument \in Numerals /\ Argument \in Seq(Byte) /\ Len(Argument) = 1
      <4>1. Len(bytes) = 1 /\ bytes[1] # 0 /\ Len(bytes) <= 8
          BY <2>1, <2>5, <2>8, <3>1
      <4>2. bytes \in Numerals
          BY <2>5, <4>1 DEF Numerals
      <4> QED
          BY <2>5, <3>2, <4>1, <4>2, Zenon
    <3>4. Header(Major, Argument) = <<32 * Major + 24>> \o Argument
      <4>1. Argument[1] >= 24
          BY <3>1, <3>2
      <4> QED
          BY <1>4, <3>3, <4>1, HeaderByLength, Zenon
    <3> QED
        BY <1>4, <1>5, <2>6, <2>8, <3>2, <3>3, <3>4
  <2>9. CASE Info \in 25 .. 27
    <3> DEFINE h == n \div 2
    <3>1. h \in 1 .. 4 /\ n = 2 * h
        BY <2>1, <2>9
    <3>2. PICK i \in 1 .. h : bytes[i] # 0
        BY <1>2, <2>9 DEF Shortest, n, bytes
    <3> HIDE DEF h
    <3>3. /\ Argument \in Numerals
          /\ Len(Argument) \in h + 1 .. n
          /\ Pad(Argument, n) = bytes
      <4>1. Len(bytes) = 2 * h
          BY <2>5, <3>1
      <4> QED
          BY <2>5, <2>7, <3>1, <3>2, <4>1, DigitsOfLong
    <3>4. Argument \in Seq(Byte)
        BY <3>3 DEF Numerals
    <3>5. CASE Info = 25
      <4>1. n = 2 /\ h = 1
          BY <2>1, <3>1, <3>5
      <4>2. Len(Argument) = 2
          BY <3>3, <4>1
      <4>3. Pad(Argument, 2) = Argument
        <5>1. Pad(Argument, 2) = [j \in 1 .. 0 |-> 0] \o Argument
            BY <4>2 DEF Pad
        <5>2. [j \in 1 .. 0 |-> 0] = <<>>
            OBVIOUS
        <5>3. <<>> \o Argument = Argument
            BY <3>4
        <5> QED
            BY <5>1, <5>2, <5>3, Zenon
      <4>4. Header(Major, Argument) = <<32 * Major + 25>> \o Argument
          BY <1>4, <3>4, <4>2, HeaderByLength, Zenon
      <4>5. Argument = bytes
          BY <3>3, <4>1, <4>3
      <4> QED
          BY <1>4, <1>5, <2>6, <3>3, <3>5, <4>4, <4>5
    <3>6. CASE Info = 26
      <4>1. n = 4 /\ h = 2
          BY <2>1, <3>1, <3>6
      <4>2. Len(Argument) \in 3 .. 4 /\ Pad(Argument, 4) = bytes
          BY <3>3, <4>1
      <4>4. Header(Major, Argument) = <<32 * Major + 26>> \o Pad(Argument, 4)
          BY <1>4, <3>4, <4>2, HeaderByLength, Zenon
      <4> QED
          BY <1>4, <1>5, <2>6, <3>3, <3>6, <4>2, <4>4
    <3>7. CASE Info = 27
      <4>1. n = 8 /\ h = 4
          BY <2>1, <3>1, <3>7
      <4>2. Len(Argument) \in 5 .. 8 /\ Pad(Argument, 8) = bytes
          BY <3>3, <4>1
      <4>4. Header(Major, Argument) = <<32 * Major + 27>> \o Pad(Argument, 8)
          BY <1>4, <3>4, <4>2, HeaderByLength, Zenon
      <4> QED
          BY <1>4, <1>5, <2>6, <3>3, <3>7, <4>2, <4>4
    <3> QED
        BY <2>9, <3>5, <3>6, <3>7
  <2> QED
      BY <1>8, <2>8, <2>9
<1> QED
    BY <1>4, <1>7, <1>8

\* A count that any input has room for has at most three digits.
LEMMA CountsAreLengths ==
    ASSUME NEW d \in Numerals, Count(d) <= MaxInputSize
    PROVE  d \in Lengths
<1> DEFINE n == Len(d)
           c1 == d[1]
           c2 == 256 * d[1] + d[2]
           c3 == 65536 * d[1] + 256 * d[2] + d[3]
<1>1. n \in Nat
    BY DEF Numerals
<1>2. Count(d) = CASE n = 0 -> 0
                   [] n = 1 -> c1
                   [] n = 2 -> c2
                   [] n = 3 -> c3
                   [] OTHER -> MaxInputSize + 1
    BY DEF Count
<1>3. MaxInputSize \in Nat
    BY LimitAssumption
<1>4. n <= 3
  <2> HIDE DEF n, c1, c2, c3
  <2> QED
      BY <1>1, <1>2, <1>3
<1> QED
    BY <1>4 DEF Lengths

\* What comes without items is returned with its encoding (decode.go 262-300).
LEMMA ScalarIsEncoded ==
    ASSUME Shape, WorkIsBounded, HeadError = None, None \notin Errors,
           Major \notin {4, 5}, Len(buf) <= MaxInputSize, NoneIsNoValue,
           NEW R, ClosedUnderEncoding(R), NEW k \in Nat
    PROVE  /\ Scalar # None
           /\ <<Scalar, Between(buf, pos, pos + HeadLength + StringLength), k>>
                  \in R
<1> DEFINE head == Between(buf, pos, pos + HeadLength)
           end == pos + HeadLength + StringLength
           string == Between(buf, pos + HeadLength, end)
<1>1. /\ buf \in Seq(Byte) /\ pos \in Nat /\ Len(buf) \in Nat
      /\ HeadLength \in Nat \ {0} /\ HeadLength \in Nat
      /\ StringLength \in Nat /\ end <= Len(buf)
  <2>1. HeadLength \in Nat \ {0} /\ StringLength \in Nat
        /\ pos + HeadLength + StringLength <= Len(buf)
      BY HeadFits
  <2>2. buf \in Seq(Byte) /\ pos \in Nat /\ Len(buf) \in Nat
      BY DEF Shape
  <2> QED
      BY <2>1, <2>2
<1>2. /\ pos + HeadLength \in Nat /\ end \in Nat
      /\ pos <= pos + HeadLength /\ pos + HeadLength <= end
      /\ end - (pos + HeadLength) = StringLength
    BY <1>1
<1>3. head \o string = Between(buf, pos, end)
  <2> DEFINE a == pos + HeadLength
  <2>1. a \in Nat /\ pos <= a /\ a <= end
      BY <1>2
  <2> HIDE DEF a, end
  <2>2. Between(buf, pos, a) \o Between(buf, a, end) = Between(buf, pos, end)
      BY <1>1, <1>2, <2>1, SlicesMeet, ZenonT(40)
  <2> QED
      BY <2>2 DEF a, end
<1>4. string \in Seq(Byte) /\ Len(string) = StringLength
  <2> DEFINE a == pos + HeadLength
  <2>1. end - a = StringLength
      BY <1>2
  <2>3. /\ buf \in Seq(Byte) /\ a \in Nat /\ end \in Nat
        /\ a <= end /\ end <= Len(buf)
      BY <1>1, <1>2
  <2> HIDE DEF a, end
  <2>2. Between(buf, a, end) \in Seq(Byte) /\ Len(Between(buf, a, end)) = end - a
      BY <2>3, Slice, Zenon
  <2> QED
      BY <2>1, <2>2 DEF a, end
<1>5. /\ Major = 0 => Scalar = [type |-> "uint", n |-> Argument]
      /\ Major = 1 => Scalar = [type |-> "negint", n |-> Argument]
      /\ Major = 2 => Scalar = [type |-> "bytes", string |-> string]
      /\ Major = 3 => Scalar = [type |-> "text", string |-> string]
      /\ Major = 7 /\ Info = 22 => Scalar = [type |-> "null"]
      /\ Major = 7 /\ Info # 22 => Scalar = [type |-> "bool", bool |-> Info = 21]
  <2> DEFINE m == Major
             i == Info
             uint == [type |-> "uint", n |-> Argument]
             negint == [type |-> "negint", n |-> Argument]
             bytes == [type |-> "bytes", string |-> string]
             text == [type |-> "text", string |-> string]
             null == [type |-> "null"]
             bool == [type |-> "bool", bool |-> Info = 21]
  <2>1. Scalar = CASE m = 0 -> uint
                   [] m = 1 -> negint
                   [] m = 2 -> bytes
                   [] m = 3 -> text
                   [] m = 7 /\ i = 22 -> null
                   [] m = 7 /\ i # 22 -> bool
      BY Zenon DEF Scalar, Between
  <2>2. /\ m = 0 => Scalar = uint
        /\ m = 1 => Scalar = negint
        /\ m = 2 => Scalar = bytes
        /\ m = 3 => Scalar = text
        /\ m = 7 /\ i = 22 => Scalar = null
        /\ m = 7 /\ i # 22 => Scalar = bool
    <3> HIDE DEF m, i, uint, negint, bytes, text, null, bool
    <3> QED
        BY <2>1
  <2> QED
      BY <2>2
<1>6. StringLength = IF Major \in {2, 3} THEN Count(Argument) ELSE 0
    BY DEF StringLength
<1> HIDE DEF string, head
<1>7. ASSUME Major # 7
      PROVE  /\ Major \in 0 .. 3 /\ Argument \in Numerals
             /\ Major \in {0, 1} => ~OverInt64(Argument)
             /\ head = Header(Major, Argument)
             /\ Major \in {2, 3} => Argument \in Lengths
                                   /\ Count(Argument) = Len(string)
  <2>1. /\ Major \in 0 .. 5 /\ Argument \in Numerals
        /\ Major \in {0, 1} => ~OverInt64(Argument)
        /\ head = Header(Major, Argument)
      BY <1>7, HeadIsCanonical DEF head
  <2>2. ASSUME Major \in {2, 3}
        PROVE  Argument \in Lengths /\ Count(Argument) = Len(string)
    <3>1. Count(Argument) = StringLength
        BY <1>6, <2>2
    <3>2. Count(Argument) <= MaxInputSize
        BY <1>1, <3>1, LimitAssumption
    <3> QED
        BY <1>4, <2>1, <3>1, <3>2, CountsAreLengths
  <2> QED
      BY <2>1, <2>2
<1>8. ASSUME Major \in {0, 1, 7} PROVE head = Between(buf, pos, end)
  <2>1. Len(string) = 0
      BY <1>4, <1>6, <1>8
  <2>2. string = <<>>
      BY <1>4, <2>1
  <2>3. head \in Seq(Byte)
    <3> DEFINE a == pos + HeadLength
    <3>1. a \in Nat /\ pos <= a /\ a <= Len(buf)
        BY <1>1
    <3> HIDE DEF a
    <3>2. Between(buf, pos, a) \in Seq(Byte)
        BY <1>1, <3>1, Slice, Zenon
    <3> QED
        BY <3>2 DEF a, head
  <2> QED
      BY <1>3, <2>2, <2>3
<1>0. /\ Major \in 0 .. 3 \/ Major = 7
      /\ Scalar # None
  <2>1. Major \in 0 .. 3 \/ Major = 7
      BY <1>7
  <2>2. IsAFunction(Scalar)
      BY <1>5, <2>1 DEF IsAFunction
  <2> QED
      BY <2>1, <2>2 DEF NoneIsNoValue
<1> SUFFICES <<Scalar, Between(buf, pos, end), k>> \in R
    BY <1>0
<1> HIDE DEF end
<1>r. /\ \A d \in Numerals : ~OverInt64(d) =>
            /\ <<[type |-> "uint", n |-> d], Header(0, d), k>> \in R
            /\ <<[type |-> "negint", n |-> d], Header(1, d), k>> \in R
      /\ \A d \in Lengths, t \in Seq(Byte) : Count(d) = Len(t) =>
            /\ <<[type |-> "bytes", string |-> t], Header(2, d) \o t, k>> \in R
            /\ <<[type |-> "text", string |-> t], Header(3, d) \o t, k>> \in R
      /\ <<[type |-> "bool", bool |-> FALSE], <<244>>, k>> \in R
      /\ <<[type |-> "bool", bool |-> TRUE], <<245>>, k>> \in R
      /\ <<[type |-> "null"], <<246>>, k>> \in R
    BY ZenonT(40) DEF ClosedUnderEncoding
<1>9. CASE Major = 0
  <2>1. Scalar = [type |-> "uint", n |-> Argument]
      BY <1>5, <1>9, Zenon
  <2>2. /\ Argument \in Numerals /\ ~OverInt64(Argument)
        /\ Between(buf, pos, end) = Header(0, Argument)
      BY <1>7, <1>8, <1>9
  <2>3. <<[type |-> "uint", n |-> Argument], Header(0, Argument), k>> \in R
      BY <1>r, <2>2, Zenon
  <2> QED
      BY <2>1, <2>2, <2>3
<1>10. CASE Major = 1
  <2>1. Scalar = [type |-> "negint", n |-> Argument]
      BY <1>5, <1>10, Zenon
  <2>2. /\ Argument \in Numerals /\ ~OverInt64(Argument)
        /\ Between(buf, pos, end) = Header(1, Argument)
      BY <1>7, <1>8, <1>10
  <2>3. <<[type |-> "negint", n |-> Argument], Header(1, Argument), k>> \in R
      BY <1>r, <2>2, Zenon
  <2> QED
      BY <2>1, <2>2, <2>3
<1>11. CASE Major = 2
  <2>1. Scalar = [type |-> "bytes", string |-> string]
      BY <1>5, <1>11, Zenon
  <2>2. /\ Argument \in Lengths /\ Count(Argument) = Len(string)
        /\ head = Header(2, Argument)
      BY <1>7, <1>11
  <2>3. <<[type |-> "bytes", string |-> string],
          Header(2, Argument) \o string, k>> \in R
      BY <1>r, <1>4, <2>2, Zenon
  <2> QED
      BY <1>3, <2>1, <2>2, <2>3
<1>12. CASE Major = 3
  <2>1. Scalar = [type |-> "text", string |-> string]
      BY <1>5, <1>12, Zenon
  <2>2. /\ Argument \in Lengths /\ Count(Argument) = Len(string)
        /\ head = Header(3, Argument)
      BY <1>7, <1>12
  <2>3. <<[type |-> "text", string |-> string],
          Header(3, Argument) \o string, k>> \in R
      BY <1>r, <1>4, <2>2, Zenon
  <2> QED
      BY <1>3, <2>1, <2>2, <2>3
<1>13. CASE Major = 7
  <2>1. Info \in 20 .. 22 /\ pos < Len(buf)
    <3>1. elems < MaxElements /\ Remaining # 0 /\ SimpleError = None
        BY <1>13, LimitAssumption DEF HeadError, Errors, Shape
    <3>2. Info \in 20 .. 22
        BY <3>1 DEF SimpleError, Errors
    <3> QED
        BY <1>1, <3>1, <3>2 DEF Remaining, WorkIsBounded
  <2>2. HeadLength = 1
      BY <2>1 DEF HeadLength, ArgumentLength
  <2>3. head = <<224 + Info>>
    <3>1. InitialByte \in Byte /\ InitialByte = buf[pos + 1]
        BY <1>1, <2>1 DEF InitialByte
    <3>2. InitialByte = 224 + Info
        BY <1>13, <3>1 DEF Major, Info, Byte
    <3>3. Between(buf, pos, pos + 1) = <<buf[pos + 1]>>
        BY <1>1, <2>1, OneByteSlice
    <3> QED
        BY <2>2, <3>1, <3>2, <3>3 DEF head
  <2>4. /\ Info = 22 => Scalar = [type |-> "null"]
        /\ Info # 22 => Scalar = [type |-> "bool", bool |-> Info = 21]
      BY <1>5, <1>13
  <2>9. Between(buf, pos, end) = head
      BY <1>8, <1>13
  <2>5. CASE Info = 20
    <3>0. 224 + Info = 244 /\ Info # 22 /\ (Info = 21) = FALSE
        BY <2>5
    <3>1. head = <<244>> /\ Scalar = [type |-> "bool", bool |-> FALSE]
        BY <2>3, <2>4, <3>0, Zenon
    <3> QED
        BY <1>r, <2>9, <3>1, Zenon
  <2>6. CASE Info = 21
    <3>0. 224 + Info = 245 /\ Info # 22 /\ (Info = 21) = TRUE
        BY <2>6
    <3>1. head = <<245>> /\ Scalar = [type |-> "bool", bool |-> TRUE]
        BY <2>3, <2>4, <3>0, Zenon
    <3> QED
        BY <1>r, <2>9, <3>1, Zenon
  <2>7. CASE Info = 22
    <3>0. 224 + Info = 246 /\ Info = 22
        BY <2>7
    <3>1. head = <<246>> /\ Scalar = [type |-> "null"]
        BY <2>3, <2>4, <3>0, Zenon
    <3> QED
        BY <1>r, <2>9, <3>1, Zenon
  <2> QED
      BY <2>1, <2>5, <2>6, <2>7
<1> QED
    BY <1>0, <1>9, <1>10, <1>11, <1>12, <1>13

-----------------------------------------------------------------------------
(* Containers.                                                             *)

\* The call c, which began at start, has read the head of a container with d
\* for its argument, and the items that lie behind it at the cuts.
CallHolds(R, k, b, c, start, d, cut) ==
    /\ d \in Numerals /\ EndToEnd(R, k, c.items, b, cut)
    /\ start < cut[0] /\ cut[0] <= c.from /\ cut[Len(c.items)] = c.from
    /\ c.map \in BOOLEAN
    /\ Between(b, start, cut[0]) = Header(IF c.map THEN 5 ELSE 4, d)
    /\ c.want = (IF c.map THEN 2 ELSE 1) * Count(d)
    /\ Len(c.items) <= c.want /\ Len(c.items) <= c.from
    /\ c.spans \in Seq(Seq(Byte))
    /\ c.map =>
          /\ Len(c.spans) = (Len(c.items) + 1) \div 2
          /\ \A j \in 1 .. Len(c.spans) :
                c.spans[j] = Between(b, cut[2 * j - 2], cut[2 * j - 1])

CallFields == {"map", "want", "items", "spans", "from"}

CallEncoded(R, k, b, c, start) ==
    /\ c = [f \in CallFields |-> c[f]]
    /\ \E d, cut : CallHolds(R, k, b, c, start, d, cut)

\* The items and the cuts, with one more of each.
LEMMA OneMoreItem ==
    ASSUME NEW R, NEW k, NEW b \in Seq(Byte), NEW items, NEW cut, NEW v,
           EndToEnd(R, k, items, b, cut), NEW p \in 0 .. Len(b),
           cut[Len(items)] < p,
           <<v, Between(b, cut[Len(items)], p), k>> \in R,
           NEW more, more = [j \in 0 .. Len(items) + 1 |->
                                IF j <= Len(items) THEN cut[j] ELSE p]
    PROVE  EndToEnd(R, k, Append(items, v), b, more)
<1> DEFINE n == Len(items)
           V == {t[1] : t \in R}
           new == Append(items, v)
<1>1. items \in Seq(V) /\ n \in Nat /\ cut \in [0 .. n -> 0 .. Len(b)]
    BY DEF EndToEnd
<1>2. v \in V
  <2>1. <<v, Between(b, cut[n], p), k>>[1] = v
      OBVIOUS
  <2> QED
      BY <2>1, Zenon
<1>3. /\ new \in Seq(V) /\ Len(new) = n + 1
      /\ \A i \in 1 .. n : new[i] = items[i]
      /\ new[n + 1] = v
  <2> HIDE DEF V
  <2> QED
      BY <1>1, <1>2
<1>4. \A i \in 1 .. n : /\ cut[i - 1] < cut[i]
                        /\ <<items[i], Between(b, cut[i - 1], cut[i]), k>> \in R
    BY DEF EndToEnd
<1> HIDE DEF n, V, new
<1>5. /\ more \in [0 .. n + 1 -> 0 .. Len(b)]
      /\ \A j \in 0 .. n : more[j] = cut[j]
      /\ more[n + 1] = p
    BY <1>1 DEF n
<1>6. ASSUME NEW i \in 1 .. n + 1
      PROVE  /\ more[i - 1] < more[i]
             /\ <<new[i], Between(b, more[i - 1], more[i]), k>> \in R
  <2>1. CASE i \in 1 .. n
    <3>1. i - 1 \in 0 .. n /\ i \in 0 .. n
        BY <1>1, <2>1
    <3>2. more[i - 1] = cut[i - 1] /\ more[i] = cut[i] /\ new[i] = items[i]
        BY <1>3, <1>5, <2>1, <3>1, Zenon
    <3>3. /\ cut[i - 1] < cut[i]
          /\ <<items[i], Between(b, cut[i - 1], cut[i]), k>> \in R
        BY <1>4, <2>1, Zenon
    <3> QED
        BY <3>2, <3>3
  <2>2. CASE i = n + 1
    <3>1. i - 1 = n /\ n \in 0 .. n
        BY <1>1, <2>2
    <3>2. more[i - 1] = cut[n] /\ more[i] = p /\ new[i] = v
        BY <1>3, <1>5, <2>2, <3>1, Zenon
    <3> QED
        BY <3>2 DEF n
  <2> QED
      BY <1>1, <2>1, <2>2
<1> QED
  <2>1. /\ new \in Seq(V)
        /\ more \in [0 .. Len(new) -> 0 .. Len(b)]
        /\ \A i \in 1 .. Len(new) :
              /\ more[i - 1] < more[i]
              /\ <<new[i], Between(b, more[i - 1], more[i]), k>> \in R
      BY <1>3, <1>5, <1>6, Zenon
  <2> QED
      BY <2>1, Zenon DEF EndToEnd, new, V

\* Items are keys and values by turns: what that does to the number of
\* keys when one more item is taken.
LEMMA Halves ==
    ASSUME NEW n \in Nat, NEW m \in Nat, m = (n + 1) \div 2
    PROVE  /\ 2 * m <= n + 1
           /\ n % 2 = 0 => 2 * m = n /\ m + 1 = (n + 1 + 1) \div 2
           /\ n % 2 # 0 => m = (n + 1 + 1) \div 2
OBVIOUS

\* A call that takes an item has the item behind its others (decode.go
\* 302-340).
LEMMA ItemJoins ==
    ASSUME NEW R, NEW k, NEW b \in Seq(Byte), NEW c, NEW start \in Nat,
           CallEncoded(R, k, b, c, start), Len(c.items) < c.want,
           NEW p \in 0 .. Len(b), c.from < p,
           NEW v, <<v, Between(b, c.from, p), k>> \in R,
           NEW e, e = [f \in CallFields |-> e[f]],
           e.map = c.map, e.want = c.want, e.from = p,
           e.items = Append(c.items, v),
           e.spans = IF c.map /\ Len(c.items) % 2 = 0
                     THEN Append(c.spans, Between(b, c.from, p))
                     ELSE c.spans
    PROVE  CallEncoded(R, k, b, e, start)
<1> PICK d, cut : CallHolds(R, k, b, c, start, d, cut)
    BY DEF CallEncoded
<1> DEFINE n == Len(c.items)
           m == Len(c.spans)
           span == Between(b, c.from, p)
           more == [j \in 0 .. n + 1 |-> IF j <= n THEN cut[j] ELSE p]
<1>1. /\ n \in Nat /\ cut \in [0 .. n -> 0 .. Len(b)] /\ Len(b) \in Nat
      /\ cut[n] = c.from /\ c.from \in 0 .. Len(b)
  <2>1. n \in Nat /\ cut \in [0 .. n -> 0 .. Len(b)]
      BY DEF CallHolds, EndToEnd
  <2>2. cut[n] = c.from
      BY DEF CallHolds
  <2>3. n \in 0 .. n
      BY <2>1
  <2> QED
      BY <2>1, <2>2, <2>3
<1>2. EndToEnd(R, k, e.items, b, more)
  <2>1. EndToEnd(R, k, c.items, b, cut) /\ cut[n] < p
        /\ <<v, Between(b, cut[n], p), k>> \in R
      BY <1>1 DEF CallHolds
  <2>2. EndToEnd(R, k, Append(c.items, v), b, more)
      BY <2>1, OneMoreItem, Zenon
  <2> QED
      BY <2>2
<1>3. /\ \A j \in 0 .. n : more[j] = cut[j]
      /\ more[n + 1] = p
    BY <1>1
<1>4. Len(e.items) = n + 1
  <2>1. c.items \in Seq({t[1] : t \in R} \union {v})
    <3>1. c.items \in Seq({t[1] : t \in R})
        BY DEF CallHolds, EndToEnd
    <3> DEFINE V == {t[1] : t \in R}
    <3> HIDE DEF V
    <3>2. c.items \in Seq(V) => c.items \in Seq(V \union {v})
        OBVIOUS
    <3> QED
        BY <3>1, <3>2 DEF V
  <2> DEFINE V == {t[1] : t \in R} \union {v}
  <2>2. v \in V
      OBVIOUS
  <2> HIDE DEF V
  <2>3. c.items \in Seq(V) => Len(Append(c.items, v)) = n + 1
      BY <2>2
  <2> QED
      BY <2>1, <2>3 DEF V
<1> HIDE DEF more
<1>5. /\ start < more[0] /\ more[0] <= e.from
      /\ more[Len(e.items)] = e.from
      /\ Between(b, start, more[0]) = Header(IF e.map THEN 5 ELSE 4, d)
  <2>1. 0 \in 0 .. n
      BY <1>1
  <2>2. more[0] = cut[0] /\ cut[0] \in Int /\ start < cut[0]
        /\ cut[0] <= c.from /\ c.from \in Int /\ p \in Int
      BY <1>1, <1>3, <2>1, SMTT(30) DEF CallHolds
  <2>3. cut[0] <= p
      BY <2>2
  <2>4. Between(b, start, cut[0]) = Header(IF c.map THEN 5 ELSE 4, d)
      BY DEF CallHolds
  <2> QED
      BY <1>3, <1>4, <2>2, <2>3, <2>4
<1>6. /\ e.want = (IF e.map THEN 2 ELSE 1) * Count(d)
      /\ e.map \in BOOLEAN /\ d \in Numerals
    BY DEF CallHolds
<1>7. Len(e.items) <= e.want /\ Len(e.items) <= e.from
  <2>1. n <= c.from /\ n < c.want
      BY DEF CallHolds
  <2>2. c.want \in Nat
    <3>1. Count(d) \in Nat
        BY <1>6, CountIsNat DEF Numerals
    <3> QED
        BY <1>6, <3>1
  <2> QED
      BY <1>1, <1>4, <2>1, <2>2
<1>8. span \in Seq(Byte)
  <2>1. /\ c.from \in Nat /\ p \in Nat
        /\ c.from <= p /\ p <= Len(b)
      BY <1>1
  <2> QED
      BY <2>1, Slice, Zenon
<1>9. c.spans \in Seq(Seq(Byte)) /\ m \in Nat
    BY DEF CallHolds
<1>10. e.spans \in Seq(Seq(Byte))
  <2> HIDE DEF span
  <2>1. Append(c.spans, span) \in Seq(Seq(Byte))
      BY <1>8, <1>9
  <2>2. e.spans = Append(c.spans, span) \/ e.spans = c.spans
      BY Zenon DEF span
  <2> QED
      BY <1>9, <2>1, <2>2
<1>11. ASSUME e.map
       PROVE  /\ Len(e.spans) = (Len(e.items) + 1) \div 2
              /\ \A j \in 1 .. Len(e.spans) :
                    e.spans[j] = Between(b, more[2 * j - 2], more[2 * j - 1])
  <2>1. /\ m = (n + 1) \div 2
        /\ \A j \in 1 .. m :
              c.spans[j] = Between(b, cut[2 * j - 2], cut[2 * j - 1])
      BY <1>11 DEF CallHolds
  <2>0. /\ m \in Nat /\ 2 * m <= n + 1
        /\ n % 2 = 0 => 2 * m = n /\ m + 1 = (n + 1 + 1) \div 2
        /\ n % 2 # 0 => m = (n + 1 + 1) \div 2
    <3>1. /\ m \in Nat /\ m = (n + 1) \div 2 /\ n \in Nat
        BY <1>1, <1>9, <2>1
    <3> HIDE DEF m, n
    <3> QED
        BY <3>1, Halves
  <2>2. \A j \in 1 .. m :
            c.spans[j] = Between(b, more[2 * j - 2], more[2 * j - 1])
    <3> SUFFICES ASSUME NEW j \in 1 .. m
                 PROVE  c.spans[j] = Between(b, more[2 * j - 2], more[2 * j - 1])
        OBVIOUS
    <3>0. n \in Nat /\ m \in Nat /\ 2 * m <= n + 1
        BY <1>1, <2>0
    <3>1. 2 * j - 2 \in 0 .. n /\ 2 * j - 1 \in 0 .. n
      <4> HIDE DEF n, m
      <4> QED
          BY <3>0, SMTT(30)
    <3>2. more[2 * j - 2] = cut[2 * j - 2] /\ more[2 * j - 1] = cut[2 * j - 1]
        BY <1>3, <3>1, Zenon
    <3> QED
        BY <2>1, <3>2
  <2>3. CASE n % 2 = 0
    <3>1. e.spans = Append(c.spans, span)
        BY <1>11, <2>3
    <3>2. /\ Len(e.spans) = m + 1 /\ e.spans[m + 1] = span
          /\ \A j \in 1 .. m : e.spans[j] = c.spans[j]
      <4> HIDE DEF span, m
      <4>1. /\ Len(Append(c.spans, span)) = m + 1
            /\ Append(c.spans, span)[m + 1] = span
            /\ \A j \in 1 .. m : Append(c.spans, span)[j] = c.spans[j]
          BY <1>8, <1>9 DEF m
      <4> QED
          BY <3>1, <4>1, Zenon
    <3>3. 2 * (m + 1) - 2 = n /\ 2 * (m + 1) - 1 = n + 1
      <4>1. n \in Nat /\ m \in Nat /\ 2 * m = n
          BY <1>1, <2>0, <2>3
      <4> HIDE DEF n, m
      <4> QED
          BY <4>1
    <3>4. span = Between(b, more[2 * (m + 1) - 2], more[2 * (m + 1) - 1])
      <4>1. more[n] = c.from /\ more[n + 1] = p
        <5>1. n \in 0 .. n
            BY <1>1
        <5> QED
            BY <1>1, <1>3, <5>1, Zenon
      <4> QED
          BY <3>3, <4>1
    <3>5. ASSUME NEW j \in 1 .. Len(e.spans)
          PROVE  e.spans[j] = Between(b, more[2 * j - 2], more[2 * j - 1])
      <4>1. j \in 1 .. m \/ j = m + 1
          BY <1>9, <3>2
      <4> QED
          BY <2>2, <3>2, <3>4, <4>1, Zenon
    <3> QED
        BY <1>4, <2>0, <2>3, <3>2, <3>5, Zenon
  <2>4. CASE n % 2 # 0
    <3>1. e.spans = c.spans
        BY <2>4
    <3> QED
        BY <1>4, <2>0, <2>2, <2>4, <3>1, Zenon
  <2> QED
      BY <2>3, <2>4
<1> QED
    BY <1>2, <1>5, <1>6, <1>7, <1>10, <1>11, Zenon DEF CallEncoded, CallHolds

\* A call that has all its items returns a value with its encoding (decode.go
\* 302-364).
LEMMA ContainerIsEncoded ==
    ASSUME NEW R, ClosedUnderEncoding(R), NEW k \in Nat,
           NEW b \in Seq(Byte), Len(b) <= MaxInputSize,
           NEW c, NEW start \in Nat, CallEncoded(R, k, b, c, start),
           Len(c.items) = c.want,
           OrderError(c.spans) = None, None \notin Errors
    PROVE  /\ start < c.from
           /\ <<Container(c), Between(b, start, c.from), k + 1>> \in R
<1> PICK d, cut : CallHolds(R, k, b, c, start, d, cut)
    BY DEF CallEncoded
<1> DEFINE n == Len(c.items)
           count == Count(d)
           e == Between(b, start, c.from)
<1>1. /\ n \in Nat /\ cut \in [0 .. n -> 0 .. Len(b)] /\ Len(b) \in Nat
      /\ cut[n] = c.from /\ c.from \in 0 .. Len(b) /\ cut[0] \in 0 .. Len(b)
      /\ start < cut[0] /\ cut[0] <= c.from /\ n <= c.from
  <2>1. n \in Nat /\ cut \in [0 .. n -> 0 .. Len(b)]
      BY DEF CallHolds, EndToEnd
  <2>2. /\ cut[n] = c.from /\ start < cut[0] /\ cut[0] <= c.from
        /\ n <= c.from
      BY DEF CallHolds
  <2>3. n \in 0 .. n /\ 0 \in 0 .. n
      BY <2>1
  <2>4. Len(b) \in Nat
      OBVIOUS
  <2> QED
      BY <2>1, <2>2, <2>3, <2>4
<1>2. start < c.from
    BY <1>1
<1>3. Between(b, start, cut[0]) \o Between(b, cut[0], cut[n]) = e
  <2> DEFINE x == cut[0]
             y == c.from
  <2>1. /\ x \in Nat /\ y \in Nat /\ start <= x /\ x <= y /\ y <= Len(b)
      BY <1>1
  <2> HIDE DEF x, y
  <2>2. Between(b, start, x) \o Between(b, x, y) = Between(b, start, y)
      BY <2>1, SlicesMeet, Zenon
  <2> QED
      BY <1>1, <2>2, Zenon DEF x, y
<1>4. d \in Numerals /\ count \in Nat /\ c.map \in BOOLEAN
      /\ n = (IF c.map THEN 2 ELSE 1) * count
  <2>1. d \in Numerals /\ c.map \in BOOLEAN
        /\ n = (IF c.map THEN 2 ELSE 1) * count
      BY DEF CallHolds
  <2>2. count \in Nat
      BY <2>1, CountIsNat DEF Numerals
  <2> QED
      BY <2>1, <2>2
<1>5. d \in Lengths
  <2>1. count <= n
      BY <1>4
  <2>2. count <= MaxInputSize
      BY <1>1, <1>4, <2>1, LimitAssumption
  <2> QED
      BY <1>4, <2>2, CountsAreLengths
<1>6. EndToEnd(R, k, c.items, b, cut)
    BY DEF CallHolds
<1> HIDE DEF e
<1>7. CASE ~c.map
  <2>1. n = count
      BY <1>4, <1>7
  <2>2. <<[type |-> "array", items |-> c.items],
          Header(4, d) \o Between(b, cut[0], cut[n]), k + 1>> \in R
    <3>1. \A items, cuts :
              EndToEnd(R, k, items, b, cuts) /\ Len(items) = Count(d) =>
                  <<[type |-> "array", items |-> items],
                    Header(4, d) \o Between(b, cuts[0], cuts[Len(items)]),
                    k + 1>> \in R
        BY <1>5, Zenon DEF ClosedUnderEncoding
    <3> QED
        BY <1>6, <2>1, <3>1, Zenon
  <2>3. Between(b, start, cut[0]) = Header(4, d)
      BY <1>7 DEF CallHolds
  <2>4. Container(c) = [type |-> "array", items |-> c.items]
      BY <1>7 DEF Container
  <2> QED
      BY <1>2, <1>3, <2>2, <2>3, <2>4 DEF e
<1>8. CASE c.map
  <2>1. n = 2 * count /\ n \div 2 = count /\ (n + 1) \div 2 = count
    <3>1. n = 2 * count /\ count \in Nat
        BY <1>4, <1>8
    <3> HIDE DEF n, count
    <3>2. \A x \in Nat : (2 * x) \div 2 = x /\ (2 * x + 1) \div 2 = x
        OBVIOUS
    <3> QED
        BY <3>1, <3>2
  <2>2. KeysAscend(KeysIn(count, b, cut))
    <3> DEFINE keys == KeysIn(count, b, cut)
    <3>1. c.spans \in Seq(Seq(Byte)) /\ KeysAscend(c.spans)
      <4>1. c.spans \in Seq(Seq(Byte))
          BY DEF CallHolds
      <4> QED
          BY <4>1, NeighboursAreEnough
    <3>2. /\ Len(c.spans) = count
          /\ \A j \in 1 .. count :
                c.spans[j] = Between(b, cut[2 * j - 2], cut[2 * j - 1])
        BY <1>8, <2>1 DEF CallHolds
    <3>3. DOMAIN keys = 1 .. count /\ DOMAIN c.spans = 1 .. count
        BY <3>1, <3>2 DEF KeysIn
    <3>4. \A j \in 1 .. count : keys[j] = c.spans[j]
        BY <3>2 DEF KeysIn
    <3> HIDE DEF keys
    <3> QED
        BY <3>1, <3>3, <3>4, Zenon DEF KeysAscend, keys
  <2>3. <<[type |-> "map", entries |-> EntriesOf(count, c.items)],
          Header(5, d) \o Between(b, cut[0], cut[n]), k + 1>> \in R
    <3>1. \A items, cuts :
              /\ EndToEnd(R, k, items, b, cuts) /\ Len(items) = 2 * Count(d)
              /\ KeysAscend(KeysIn(Count(d), b, cuts))
              => <<[type |-> "map", entries |-> EntriesOf(Count(d), items)],
                   Header(5, d) \o Between(b, cuts[0], cuts[Len(items)]),
                   k + 1>> \in R
        BY <1>5, Zenon DEF ClosedUnderEncoding
    <3> QED
        BY <1>6, <2>1, <2>2, <3>1, Zenon
  <2>4. Between(b, start, cut[0]) = Header(5, d)
      BY <1>8 DEF CallHolds
  <2>5. Container(c) = [type |-> "map", entries |-> EntriesOf(count, c.items)]
      BY <1>8, <2>1 DEF Container, EntriesOf
  <2> QED
      BY <1>2, <1>3, <2>3, <2>4, <2>5 DEF e
<1> QED
    BY <1>7, <1>8

-----------------------------------------------------------------------------
(* The stack of calls.                                                     *)

\* A call begins where the one around it has got to.
Since(cs) == IF cs = <<>> THEN 0 ELSE cs[Len(cs)].from
StartOf(cs, i) == IF i = 1 THEN 0 ELSE cs[i - 1].from

\* The innermost call, if there is one, has room for an item.
Waiting(cs) == cs # <<>> => Len(cs[Len(cs)].items) < cs[Len(cs)].want

CallsEncoded(R, b, cs) ==
    \A i \in 1 .. Len(cs) :
        /\ CallEncoded(R, MaxDepth - i, b, cs[i], StartOf(cs, i))
        /\ i < Len(cs) => Len(cs[i].items) < cs[i].want

\* Without a call there is nothing to relate (decode.go 106).
LEMMA NoCalls ==
    ASSUME NEW R, NEW b
    PROVE  CallsEncoded(R, b, <<>>) /\ Since(<<>>) = 0
<1>1. 1 .. Len(<<>>) = {}
    OBVIOUS
<1> QED
    BY <1>1 DEF CallsEncoded, Since

\* The last item taken ended inside the input.
LEMMA FromIsInside ==
    ASSUME NEW R, NEW k, NEW b \in Seq(Byte), NEW c, NEW start,
           CallEncoded(R, k, b, c, start)
    PROVE  c.from \in 0 .. Len(b)
<1> PICK d, cut : CallHolds(R, k, b, c, start, d, cut)
    BY DEF CallEncoded
<1>1. /\ Len(c.items) \in Nat /\ cut \in [0 .. Len(c.items) -> 0 .. Len(b)]
      /\ cut[Len(c.items)] = c.from
    BY DEF CallHolds, EndToEnd
<1>2. Len(c.items) \in 0 .. Len(c.items)
    BY <1>1
<1> QED
    BY <1>1, <1>2

\* A call joins the others.
LEMMA Pushed ==
    ASSUME NEW R, NEW b \in Seq(Byte), NEW S, NEW cs \in Seq(S),
           CallsEncoded(R, b, cs), Waiting(cs),
           NEW c, CallEncoded(R, MaxDepth - (Len(cs) + 1), b, c, Since(cs))
    PROVE  /\ CallsEncoded(R, b, Append(cs, c))
           /\ Since(Append(cs, c)) = c.from
<1> DEFINE n == Len(cs)
           new == Append(cs, c)
<1>1. /\ n \in Nat /\ Len(new) = n + 1 /\ new # <<>>
      /\ \A i \in 1 .. n : new[i] = cs[i]
      /\ new[n + 1] = c
  <2>1. cs \in Seq(S \union {c}) /\ c \in S \union {c}
      OBVIOUS
  <2> DEFINE T == S \union {c}
  <2> HIDE DEF T
  <2>2. cs \in Seq(T) /\ c \in T
      BY <2>1 DEF T
  <2>3. n \in Nat /\ Len(new) = n + 1
      BY <2>2
  <2>4. \A i \in 1 .. n : new[i] = cs[i]
      BY <2>2
  <2>5. new[n + 1] = c
      BY <2>2
  <2> QED
      BY <2>2, <2>3, <2>4, <2>5
<1>2. cs = <<>> <=> n = 0
    OBVIOUS
<1> HIDE DEF new
<1>3. ASSUME NEW i \in 1 .. n
      PROVE  /\ CallEncoded(R, MaxDepth - i, b, new[i], StartOf(new, i))
             /\ Len(new[i].items) < new[i].want
  <2>1. /\ CallEncoded(R, MaxDepth - i, b, cs[i], StartOf(cs, i))
        /\ i < n => Len(cs[i].items) < cs[i].want
      BY DEF CallsEncoded
  <2>2. new[i] = cs[i]
      BY <1>1
  <2>3. StartOf(new, i) = StartOf(cs, i)
    <3>1. i # 1 => i - 1 \in 1 .. n
        BY <1>1
    <3> QED
        BY <1>1, <3>1, Zenon DEF StartOf
  <2>4. Len(cs[i].items) < cs[i].want
    <3>1. i < n \/ (i = n /\ cs # <<>>)
        BY <1>1, <1>2
    <3> QED
        BY <2>1, <3>1 DEF Waiting
  <2> QED
      BY <2>1, <2>2, <2>3, <2>4
<1>4. StartOf(new, n + 1) = Since(cs)
  <2>1. CASE n = 0
    <3>1. n + 1 = 1 /\ cs = <<>>
        BY <1>2, <2>1
    <3> QED
        BY <3>1 DEF StartOf, Since
  <2>2. CASE n # 0
    <3>1. n + 1 # 1 /\ (n + 1) - 1 = n /\ n \in 1 .. n /\ cs # <<>>
        BY <1>1, <1>2, <2>2
    <3> QED
        BY <1>1, <3>1 DEF StartOf, Since
  <2> QED
      BY <2>1, <2>2
<1>5. CallsEncoded(R, b, new)
  <2> SUFFICES ASSUME NEW i \in 1 .. n + 1
               PROVE  /\ CallEncoded(R, MaxDepth - i, b, new[i], StartOf(new, i))
                      /\ i < n + 1 => Len(new[i].items) < new[i].want
      BY <1>1, Zenon DEF CallsEncoded
  <2>1. CASE i \in 1 .. n
      BY <1>3, <2>1, Zenon
  <2>2. CASE i = n + 1
    <3>1. ~(i < n + 1)
        BY <1>1, <2>2
    <3> QED
        BY <1>1, <1>4, <2>2, <3>1, Zenon
  <2>3. i \in 1 .. n \/ i = n + 1
      BY <1>1
  <2> QED
      BY <2>1, <2>2, <2>3, Zenon
<1>6. Since(new) = c.from
    BY <1>1 DEF Since
<1> QED
    BY <1>5, <1>6 DEF new

\* The calls that are left when the last one has returned.
LEMMA Prefix ==
    ASSUME NEW S, NEW s \in Seq(S), NEW m \in Nat, m <= Len(s)
    PROVE  /\ SubSeq(s, 1, m) \in Seq(S)
           /\ Len(SubSeq(s, 1, m)) = m
           /\ \A i \in 1 .. m : SubSeq(s, 1, m)[i] = s[i]
<1>1. Len(SubSeq(s, 1, m)) = m
    OBVIOUS
<1>2. \A i \in 1 .. m : SubSeq(s, 1, m)[i] = s[i]
    OBVIOUS
<1>3. SubSeq(s, 1, m) \in Seq(S)
    OBVIOUS
<1> QED
    BY <1>1, <1>2, <1>3

\* The innermost call is over.
LEMMA Popped ==
    ASSUME NEW R, NEW b \in Seq(Byte), NEW S, NEW cs \in Seq(S),
           CallsEncoded(R, b, cs), cs # <<>>
    PROVE  LET rest == SubSeq(cs, 1, Len(cs) - 1) IN
           /\ Len(cs) \in Nat \ {0}
           /\ rest \in Seq(S) /\ Len(rest) = Len(cs) - 1
           /\ CallsEncoded(R, b, rest) /\ Waiting(rest)
           /\ Since(rest) \in Nat
           /\ CallEncoded(R, MaxDepth - Len(cs), b, cs[Len(cs)], Since(rest))
<1> DEFINE n == Len(cs)
           m == n - 1
           rest == SubSeq(cs, 1, m)
<1>1. n \in Nat \ {0} /\ n \in Nat /\ m \in Nat /\ m <= n
    OBVIOUS
<1>2. /\ rest \in Seq(S) /\ Len(rest) = m
      /\ \A i \in 1 .. m : rest[i] = cs[i]
    BY <1>1, Prefix, Zenon
<1> HIDE DEF rest
<1>3. rest = <<>> <=> m = 0
    BY <1>2
<1>4. \A i \in 1 .. n :
          /\ CallEncoded(R, MaxDepth - i, b, cs[i], StartOf(cs, i))
          /\ i < n => Len(cs[i].items) < cs[i].want
    BY DEF CallsEncoded
<1>5. ASSUME NEW i \in 1 .. m
      PROVE  /\ CallEncoded(R, MaxDepth - i, b, rest[i], StartOf(rest, i))
             /\ Len(rest[i].items) < rest[i].want
  <2>1. i \in 1 .. n /\ i < n /\ (i # 1 => i - 1 \in 1 .. m)
      BY <1>1
  <2>2. StartOf(rest, i) = StartOf(cs, i)
      BY <1>2, <2>1, Zenon DEF StartOf
  <2> QED
      BY <1>2, <1>4, <2>1, <2>2, Zenon
<1>6. CallsEncoded(R, b, rest)
    BY <1>2, <1>5, Zenon DEF CallsEncoded
<1>7. Since(rest) = StartOf(cs, n)
  <2>1. CASE m = 0
    <3>1. n = 1 /\ rest = <<>>
        BY <1>1, <1>3, <2>1
    <3> QED
        BY <3>1 DEF Since, StartOf
  <2>2. CASE m # 0
    <3>1. n # 1 /\ rest # <<>> /\ m \in 1 .. m
      <4> HIDE DEF n
      <4> QED
          BY <1>1, <1>3, <2>2
    <3> QED
        BY <1>2, <3>1 DEF Since, StartOf
  <2> QED
      BY <2>1, <2>2
<1>8. Waiting(rest) /\ Since(rest) \in Nat
  <2>1. CASE m = 0
    <3>1. rest = <<>>
        BY <1>3, <2>1
    <3> QED
        BY <3>1 DEF Waiting, Since
  <2>2. CASE m # 0
    <3>1. m \in 1 .. m /\ rest # <<>>
      <4> HIDE DEF n
      <4> QED
          BY <1>1, <1>3, <2>2
    <3>2. /\ CallEncoded(R, MaxDepth - m, b, rest[m], StartOf(rest, m))
          /\ Len(rest[m].items) < rest[m].want
        BY <1>5, <3>1, Zenon
    <3>3. rest[m].from \in 0 .. Len(b)
        BY <3>2, FromIsInside, Zenon
    <3>4. Waiting(rest) /\ Since(rest) = rest[m].from
      <4>1. Len(rest) = m
          BY <1>2
      <4> QED
          BY <3>1, <3>2, <4>1, Zenon DEF Waiting, Since
    <3> QED
        BY <3>3, <3>4
  <2> QED
      BY <2>1, <2>2
<1>9. CallEncoded(R, MaxDepth - n, b, cs[n], Since(rest))
  <2>1. n \in 1 .. n
      BY <1>1
  <2> QED
      BY <1>4, <1>7, <2>1, Zenon
<1> QED
    BY <1>1, <1>2, <1>6, <1>8, <1>9 DEF rest

-----------------------------------------------------------------------------
(* Steps.                                                                  *)

\* Of any encodings that obey the rules: a value on its way to the caller lies
\* between where its call began and where the decoder is.
Encoded(R) ==
    /\ CallsEncoded(R, buf, calls)
    /\ ret = None => pos = Since(calls)
    /\ ret # None =>
          /\ Since(calls) < pos
          /\ <<ret, Between(buf, Since(calls), pos), MaxDepth - Len(calls)>> \in R
          /\ Waiting(calls)

CInv ==
    /\ IInv
    /\ status \in {"running", "ok"} => Len(buf) <= MaxInputSize
    /\ status = "ok" => ret # None /\ calls = <<>>
    /\ \A R : ClosedUnderEncoding(R) => Encoded(R)

\* decodeValue returns what needs no items.
LEMMA ScalarsKeepEncoded ==
    ASSUME IInv, None \notin Errors, NoneIsNoValue, Len(buf) <= MaxInputSize,
           NEW R, ClosedUnderEncoding(R), Encoded(R), DecodeScalar
    PROVE  Encoded(R)'
<1>1. /\ HeadError = None /\ Major \notin {4, 5} /\ ret = None
      /\ Waiting(calls)
      /\ pos' = pos + HeadLength + StringLength
      /\ ret' = Scalar
      /\ buf' = buf /\ calls' = calls
    BY DEF DecodeScalar, Called, Waiting, Top
<1>2. /\ HeadLength \in Nat \ {0} /\ StringLength \in Nat /\ pos \in Nat
      /\ MaxDepth - Len(calls) \in Nat
  <2>1. HeadLength \in Nat \ {0} /\ StringLength \in Nat
      BY <1>1, HeadFits DEF IInv
  <2>2. /\ pos \in Nat /\ depth \in Nat /\ Len(calls) = depth
        /\ depth <= MaxDepth /\ MaxDepth \in Nat
      BY LimitAssumption DEF IInv, Shape, WorkIsBounded
  <2> QED
      BY <2>1, <2>2
<1>3. /\ Scalar # None
      /\ <<Scalar, Between(buf, pos, pos + HeadLength + StringLength),
           MaxDepth - Len(calls)>> \in R
    BY <1>1, <1>2, ScalarIsEncoded DEF IInv
<1>4. pos = Since(calls) /\ pos < pos'
    BY <1>1, <1>2 DEF Encoded
<1> QED
    BY <1>1, <1>3, <1>4 DEF Encoded

\* It calls decodeArray or decodeMap, which have read their head.
LEMMA EntersKeepEncoded ==
    ASSUME IInv, None \notin Errors, Len(buf) <= MaxInputSize,
           NEW R, Encoded(R), EnterContainer
    PROVE  Encoded(R)'
<1> DEFINE p == pos + HeadLength
           c == [map |-> Major = 5,
                 want |-> (IF Major = 5 THEN 2 ELSE 1) * Count(Argument),
                 items |-> <<>>, spans |-> <<>>, from |-> p]
           cut == [j \in 0 .. 0 |-> p]
<1>1. /\ HeadError = None /\ Major \in {4, 5} /\ ret = None
      /\ Waiting(calls)
      /\ pos' = p /\ calls' = Append(calls, c)
      /\ buf' = buf /\ ret' = ret
    BY DEF EnterContainer, Called, Waiting, Top
<1>2. /\ pos \in Nat /\ p \in Nat /\ pos < p /\ p \in 0 .. Len(buf)
      /\ buf \in Seq(Byte)
  <2>1. /\ HeadLength \in Nat \ {0} /\ StringLength \in Nat
        /\ pos + HeadLength + StringLength <= Len(buf)
      BY <1>1, HeadFits DEF IInv
  <2>2. pos \in Nat /\ buf \in Seq(Byte) /\ Len(buf) \in Nat
      BY DEF IInv, Shape
  <2> QED
      BY <2>1, <2>2
<1>3. /\ Argument \in Numerals
      /\ Between(buf, pos, p) = Header(Major, Argument)
    BY <1>1, HeadIsCanonical DEF IInv
<1>4. Count(Argument) \in Nat
    BY <1>3, CountIsNat DEF Numerals
<1>5. /\ Len(c.items) = 0 /\ Len(c.spans) = 0 /\ c.items = <<>>
      /\ c.from = p /\ c.map = (Major = 5) /\ c.spans = <<>>
      /\ c.want = (IF c.map THEN 2 ELSE 1) * Count(Argument) /\ c.want \in Nat
      /\ c = [f \in CallFields |-> c[f]]
  <2>1. c.items = <<>> /\ c.from = p /\ c.map = (Major = 5) /\ c.spans = <<>>
      OBVIOUS
  <2>2. /\ c.want = (IF Major = 5 THEN 2 ELSE 1) * Count(Argument)
        /\ c.want \in Nat
      BY <1>4
  <2>3. c = [f \in CallFields |-> c[f]]
      BY DEF CallFields
  <2> HIDE DEF c
  <2>4. Len(c.items) = 0 /\ Len(c.spans) = 0
      BY <2>1
  <2>5. (c.map => Major = 5) /\ (Major = 5 => c.map)
      BY <2>1
  <2>6. c.want = (IF c.map THEN 2 ELSE 1) * Count(Argument)
      BY <2>2, <2>5
  <2> QED
      BY <2>1, <2>2, <2>3, <2>4, <2>6
<1> HIDE DEF c
<1>6. ASSUME NEW k
      PROVE  CallEncoded(R, k, buf, c, pos)
  <2>1. EndToEnd(R, k, c.items, buf, cut)
    <3> DEFINE V == {t[1] : t \in R}
    <3> HIDE DEF V
    <3>1. <<>> \in Seq(V) /\ Len(<<>>) = 0
        OBVIOUS
    <3>2. cut \in [0 .. 0 -> 0 .. Len(buf)]
        BY <1>2
    <3>3. 1 .. 0 = {}
        OBVIOUS
    <3> QED
        BY <1>5, <3>1, <3>2, <3>3, Zenon DEF EndToEnd, V
  <2>2. cut[0] = p
      OBVIOUS
  <2> HIDE DEF cut
  <2>3. c.map \in BOOLEAN /\ (IF c.map THEN 5 ELSE 4) = Major
      BY <1>1, <1>5
  <2>4. c.spans \in Seq(Seq(Byte)) /\ 1 .. 0 = {} /\ (0 + 1) \div 2 = 0
    <3>1. <<>> \in Seq(Seq(Byte))
        OBVIOUS
    <3>2. (0 + 1) \div 2 = 0
        OBVIOUS
    <3> QED
        BY <1>5, <3>1, <3>2
  <2>5. 0 <= c.want /\ 0 <= c.from /\ cut[0] <= c.from /\ pos < cut[0]
      BY <1>2, <1>5, <2>2
  <2>6. Between(buf, pos, cut[0]) = Header(IF c.map THEN 5 ELSE 4, Argument)
      BY <1>3, <2>2, <2>3
  <2>7. CallHolds(R, k, buf, c, pos, Argument, cut)
      BY <1>3, <1>5, <2>1, <2>2, <2>3, <2>4, <2>5, <2>6, Zenon DEF CallHolds
  <2> QED
      BY <1>5, <2>7, Zenon DEF CallEncoded
<1> PICK S : calls \in Seq(S)
    BY DEF IInv, Shape
<1>7. pos = Since(calls) /\ CallsEncoded(R, buf, calls)
    BY <1>1 DEF Encoded
<1>8. /\ CallsEncoded(R, buf, Append(calls, c))
      /\ Since(Append(calls, c)) = c.from
  <2>1. CallEncoded(R, MaxDepth - (Len(calls) + 1), buf, c, Since(calls))
      BY <1>6, <1>7
  <2> QED
      BY <1>1, <1>2, <1>7, <2>1, Pushed, Zenon
<1> QED
    BY <1>1, <1>5, <1>8 DEF Encoded

\* The loop takes the item.
LEMMA TakesKeepEncoded ==
    ASSUME IInv, NEW R, Encoded(R), TakeItem
    PROVE  Encoded(R)'
<1> DEFINE c == Top
           span == SubSeq(buf, c.from + 1, pos)
           e == [c EXCEPT !.items = Append(@, ret), !.from = pos,
                          !.spans = IF c.map /\ Len(c.items) % 2 = 0
                                    THEN Append(@, span) ELSE @]
           k == MaxDepth - Len(calls)
<1>1. /\ ret # None /\ calls # <<>> /\ ret' = None
      /\ calls' = Append(Outer, e)
      /\ pos' = pos /\ buf' = buf
    BY DEF TakeItem
<1>2. /\ CallsEncoded(R, buf, calls) /\ Waiting(calls)
      /\ Since(calls) < pos
      /\ <<ret, Between(buf, Since(calls), pos), k>> \in R
    BY <1>1 DEF Encoded
<1>3. /\ Since(calls) = c.from /\ Len(c.items) < c.want
      /\ c = calls[Len(calls)] /\ Outer = SubSeq(calls, 1, Len(calls) - 1)
    BY <1>1, <1>2 DEF Since, Waiting, Top, Outer
<1> PICK S : calls \in Seq(S)
    BY DEF IInv, Shape
<1>4. /\ buf \in Seq(Byte) /\ pos \in 0 .. Len(buf) /\ Len(buf) \in Nat
    BY DEF IInv, Shape, WorkIsBounded
<1>5. /\ Len(calls) \in Nat \ {0}
      /\ Outer \in Seq(S) /\ Len(Outer) = Len(calls) - 1
      /\ CallsEncoded(R, buf, Outer) /\ Waiting(Outer)
      /\ Since(Outer) \in Nat
      /\ CallEncoded(R, k, buf, c, Since(Outer))
    BY <1>1, <1>2, <1>3, <1>4, Popped, Zenon
<1>6. /\ e = [f \in CallFields |-> e[f]]
      /\ e.map = c.map /\ e.want = c.want /\ e.from = pos
      /\ e.items = Append(c.items, ret)
      /\ e.spans = IF c.map /\ Len(c.items) % 2 = 0
                   THEN Append(c.spans, Between(buf, c.from, pos))
                   ELSE c.spans
  <2>1. c = [f \in CallFields |-> c[f]]
      BY <1>5 DEF CallEncoded
  <2> HIDE DEF c
  <2>2. DOMAIN c = CallFields
      BY <2>1
  <2>3. {"map", "want", "items", "spans", "from"} \subseteq DOMAIN c
      BY <2>2 DEF CallFields
  <2>4. e.map = c.map /\ e.want = c.want /\ e.from = pos
      BY <2>3
  <2>5. e.items = Append(c.items, ret)
      BY <2>3
  <2>6. e.spans = IF c.map /\ Len(c.items) % 2 = 0
                  THEN Append(c.spans, span) ELSE c.spans
      BY <2>3
  <2>7. e = [f \in CallFields |-> e[f]]
    <3>1. DOMAIN e = CallFields
        BY <2>2
    <3>2. e = [f \in DOMAIN e |-> e[f]]
        BY <2>1
    <3> HIDE DEF e
    <3> QED
        BY <3>1, <3>2
  <2> QED
      BY <2>4, <2>5, <2>6, <2>7 DEF Between
<1> HIDE DEF e, c, k
<1>7. CallEncoded(R, k, buf, e, Since(Outer))
  <2>1. <<ret, Between(buf, c.from, pos), k>> \in R /\ c.from < pos
      BY <1>2, <1>3
  <2> QED
      BY <1>3, <1>4, <1>5, <1>6, <2>1, ItemJoins, Zenon
<1>8. CallsEncoded(R, buf, calls') /\ Since(calls') = pos
  <2>1. k = MaxDepth - (Len(Outer) + 1)
    <3>1. (Len(calls) - 1) + 1 = Len(calls)
        BY <1>5
    <3> QED
        BY <1>5, <3>1 DEF k
  <2>2. CallEncoded(R, MaxDepth - (Len(Outer) + 1), buf, e, Since(Outer))
      BY <1>7, <2>1
  <2>3. /\ CallsEncoded(R, buf, Append(Outer, e))
        /\ Since(Append(Outer, e)) = e.from
      BY <1>4, <1>5, <2>2, Pushed, Zenon
  <2> QED
      BY <1>1, <1>6, <2>3
<1> QED
    BY <1>1, <1>8 DEF Encoded

\* The loop is over, and the keys were in order, or not.
LEMMA LeavesKeepEncoded ==
    ASSUME IInv, None \notin Errors, NoneIsNoValue, Len(buf) <= MaxInputSize,
           NEW R, ClosedUnderEncoding(R), Encoded(R), LeaveContainer
    PROVE  Encoded(R)'
<1> DEFINE c == Top
           k == MaxDepth - Len(calls)
<1>1. /\ ret = None /\ calls # <<>> /\ Len(c.items) = c.want
      /\ pos' = pos /\ buf' = buf
    BY DEF LeaveContainer, Fail
<1>2. CASE OrderError(c.spans) # None
  <2>1. UNCHANGED <<buf, pos, calls, ret>>
      BY <1>2 DEF LeaveContainer, Fail
  <2> QED
      BY <2>1 DEF Encoded
<1>3. CASE OrderError(c.spans) = None
  <2>1. calls' = Outer /\ ret' = Container(c)
      BY <1>3 DEF LeaveContainer
  <2>2. CallsEncoded(R, buf, calls) /\ pos = Since(calls)
      BY <1>1 DEF Encoded
  <2>3. /\ pos = c.from
        /\ c = calls[Len(calls)] /\ Outer = SubSeq(calls, 1, Len(calls) - 1)
      BY <1>1, <2>2 DEF Since, Top, Outer
  <2> PICK S : calls \in Seq(S)
      BY DEF IInv, Shape
  <2>4. /\ buf \in Seq(Byte)
        /\ Len(calls) = depth /\ depth <= MaxDepth /\ MaxDepth \in Nat
        /\ depth \in Nat
      BY LimitAssumption DEF IInv, Shape, WorkIsBounded
  <2>5. /\ Len(calls) \in Nat \ {0}
        /\ Outer \in Seq(S) /\ Len(Outer) = Len(calls) - 1
        /\ CallsEncoded(R, buf, Outer) /\ Waiting(Outer)
        /\ Since(Outer) \in Nat
        /\ CallEncoded(R, k, buf, c, Since(Outer))
      BY <1>1, <2>2, <2>3, <2>4, Popped, Zenon
  <2>6. k \in Nat /\ k + 1 = MaxDepth - Len(Outer)
      BY <2>4, <2>5
  <2>7. Container(c) # None
    <3>1. IsAFunction(Container(c))
        BY DEF Container, IsAFunction
    <3> QED
        BY <3>1 DEF NoneIsNoValue
  <2> HIDE DEF c, k
  <2>8. /\ Since(Outer) < c.from
        /\ <<Container(c), Between(buf, Since(Outer), c.from), k + 1>> \in R
      BY <1>1, <1>3, <2>4, <2>5, <2>6, ContainerIsEncoded, Zenon
  <2> QED
      BY <1>1, <2>1, <2>3, <2>5, <2>6, <2>7, <2>8 DEF Encoded
<1> QED
    BY <1>2, <1>3

\* What decodeValue finds wrong has one of the errors' names.
LEMMA HeadErrorIsError == HeadError \in Errors \union {None}
<1>1. ItemError \in Errors \union {None}
  <2> DEFINE over == Major \in {0, 1} /\ OverInt64(Argument)
             long == Major \in {2, 3} /\ Count(Argument) > Remaining - HeadLength
             deep == Major \in {4, 5} /\ depth >= MaxDepth
             tag == Major = 6
  <2>1. ItemError = CASE over -> "ErrUnsupported"
                      [] long -> "ErrTruncated"
                      [] deep -> "ErrDepth"
                      [] tag -> "ErrUnsupported"
                      [] OTHER -> None
      BY DEF ItemError
  <2> HIDE DEF over, long, deep, tag
  <2> QED
      BY <2>1 DEF Errors
<1>2. SimpleError \in Errors \union {None}
    BY DEF SimpleError, Errors
<1>3. HeadError \in Errors \union {None}
  <2> DEFINE full == elems >= MaxElements
             item == ItemError
             simple == SimpleError
             e == Errors \union {None}
  <2>1. item \in e /\ simple \in e
      BY <1>1, <1>2
  <2>2. {"ErrTooManyElements", "ErrTruncated", "ErrUnsupported",
         "ErrNonCanonical"} \subseteq e
      BY DEF Errors
  <2> HIDE DEF full, item, simple, e
  <2>3. HeadError =
            IF full THEN "ErrTooManyElements"
            ELSE IF Remaining = 0 THEN "ErrTruncated"
            ELSE IF Major = 7 THEN simple
            ELSE IF Info > 27 THEN "ErrUnsupported"
            ELSE IF Remaining < HeadLength THEN "ErrTruncated"
            ELSE IF ~Shortest THEN "ErrNonCanonical"
            ELSE item
      BY Zenon DEF HeadError, full, item, simple
  <2> QED
      BY <2>1, <2>2, <2>3, Zenon DEF e
<1> QED
    BY <1>3

\* No error is called ok.
LEMMA ErrorsAreErrors ==
    ASSUME None \notin Errors
    PROVE  /\ HeadError # None => HeadError # "ok"
           /\ \A spans : OrderError(spans) # "ok" \/ OrderError(spans) = None
<1>1. \A spans : OrderError(spans) \in Errors \union {None}
    BY DEF OrderError, Errors
<1>2. "ok" \notin Errors
    BY DEF Errors
<1> QED
    BY <1>1, <1>2, HeadErrorIsError

\* A decoder that has not started satisfies the invariant.
LEMMA InitHasCInv == Init => CInv
<1> SUFFICES ASSUME Init PROVE CInv
    OBVIOUS
<1>1. calls = <<>> /\ ret = None /\ pos = 0 /\ status = "idle"
    BY DEF Init
<1>3. ASSUME NEW R PROVE Encoded(R)
    BY <1>1, NoCalls DEF Encoded
<1> QED
    BY <1>1, <1>3, InitHasIInv DEF CInv

\* No step of a decoder, whoever uses it, disturbs the invariant.
LEMMA MovesKeepCInv ==
    ASSUME None \notin Errors, NoneIsNoValue, CInv, [Moves]_decoder
    PROVE  CInv'
<1>1. IInv /\ IInv'
    BY MovesKeepIInv DEF CInv
<1>2. CASE DecodeScalar \/ EnterContainer \/ TakeItem \/ LeaveContainer
  <2>1. /\ status = "running" /\ Len(buf) <= MaxInputSize /\ buf' = buf
        /\ \A R : ClosedUnderEncoding(R) => Encoded(R)
      BY <1>2 DEF CInv, DecodeScalar, EnterContainer, TakeItem, LeaveContainer,
                  Called, Fail
  <2>2. status' # "ok"
    <3>1. CASE DecodeScalar \/ EnterContainer \/ TakeItem
        BY <2>1, <3>1 DEF DecodeScalar, EnterContainer, TakeItem
    <3>2. CASE LeaveContainer
      <4>1. OrderError(Top.spans) = None \/ OrderError(Top.spans) # "ok"
          BY ErrorsAreErrors
      <4> QED
          BY <2>1, <3>2, <4>1 DEF LeaveContainer, Fail
    <3> QED
        BY <1>2, <3>1, <3>2
  <2>3. ASSUME NEW R, ClosedUnderEncoding(R)
        PROVE  Encoded(R)'
    <3>1. Encoded(R)
        BY <2>1, <2>3
    <3> QED
        BY <1>1, <1>2, <2>1, <2>3, <3>1, ScalarsKeepEncoded, EntersKeepEncoded,
           TakesKeepEncoded, LeavesKeepEncoded
  <2> QED
      BY <1>1, <2>1, <2>2, <2>3 DEF CInv
<1>3. CASE DecodeFails \/ DecodeReturns \/ UNCHANGED decoder
  <2>1. UNCHANGED <<buf, pos, calls, ret>>
      BY <1>3 DEF DecodeFails, DecodeReturns, Fail, decoder
  <2>2. \A R : ClosedUnderEncoding(R) => Encoded(R)'
      BY <2>1 DEF CInv, Encoded
  <2>3. /\ status' \in {"running", "ok"} => Len(buf') <= MaxInputSize
        /\ status' = "ok" => ret' # None /\ calls' = <<>>
    <3>1. CASE DecodeFails
        BY <2>1, <3>1, ErrorsAreErrors DEF DecodeFails, Called, Fail, CInv
    <3>2. CASE DecodeReturns
        BY <2>1, <3>2 DEF DecodeReturns, CInv
    <3>3. CASE UNCHANGED decoder
        BY <2>1, <3>3 DEF decoder, CInv
    <3> QED
        BY <1>3, <3>1, <3>2, <3>3
  <2> QED
      BY <1>1, <2>2, <2>3 DEF CInv
<1>4. CASE Drop \/ \E b \in Seq(Byte) : Decode(b)
  <2>1. /\ pos' = 0 /\ calls' = <<>> /\ ret' = None
        /\ status' # "ok"
        /\ status' = "running" => Len(buf') <= MaxInputSize
    <3>1. CASE Drop
        BY <3>1 DEF Drop
    <3>2. CASE \E b \in Seq(Byte) : Decode(b)
      <4> PICK b \in Seq(Byte) : Decode(b)
          BY <3>2
      <4>1. Len(b) \in Nat /\ MaxInputSize \in Nat
          BY LimitAssumption
      <4>2. /\ pos' = 0 /\ calls' = <<>> /\ ret' = None /\ buf' = b
            /\ status' = IF Len(b) > MaxInputSize THEN "ErrInputTooLarge"
                                                  ELSE "running"
          BY DEF Decode
      <4>3. CASE Len(b) > MaxInputSize
          BY <4>2, <4>3
      <4>4. CASE ~(Len(b) > MaxInputSize)
        <5>1. Len(b) <= MaxInputSize
            BY <4>1, <4>4
        <5> QED
            BY <4>2, <4>4, <5>1
      <4> QED
          BY <4>3, <4>4
    <3> QED
        BY <1>4, <3>1, <3>2
  <2>3. ASSUME NEW R PROVE Encoded(R)'
      BY <2>1, NoCalls DEF Encoded
  <2> QED
      BY <1>1, <2>1, <2>3 DEF CInv
<1> QED
    BY <1>2, <1>3, <1>4 DEF Moves, Steps

\* When Decode has returned, the invariant is the property.
LEMMA CInvIsCanonical == CInv => AcceptsOnlyCanonical
<1> SUFFICES ASSUME CInv, status = "ok",
                    NEW R, ClosedUnderEncoding(R)
             PROVE  <<ret, SubSeq(buf, 1, pos), MaxDepth>> \in R
    BY DEF AcceptsOnlyCanonical, Canonical
<1>1. calls = <<>> /\ ret # None /\ Encoded(R)
    BY DEF CInv
<1>2. Since(calls) = 0 /\ MaxDepth - Len(calls) = MaxDepth /\ 0 + 1 = 1
  <2>1. Len(calls) = 0 /\ MaxDepth \in Nat
      BY <1>1, LimitAssumption
  <2> QED
      BY <1>1, <2>1 DEF Since
<1> QED
    BY <1>1, <1>2 DEF Encoded, Between

\* Whatever bytes Decode is handed, what it accepts is a canonical encoding of
\* the value it returns, and ends where it says: no head is longer than it has
\* to be, no container is without an item or has one too many, no key stands
\* twice or out of order, at any depth (decode.go 96-111, 142-196, 238-364).
THEOREM OnlyCanonicalAccepted ==
    ASSUME None \notin Errors, NoneIsNoValue
    PROVE  Spec => []AcceptsOnlyCanonical
<1>1. CInv /\ [Next]_decoder => CInv'
    BY MovesKeepCInv, NextMoves
<1> QED
    BY InitHasCInv, CInvIsCanonical, <1>1, PTL DEF Spec

-----------------------------------------------------------------------------
(* The rules say something: some set is closed under them, so what they    *)
(* leave out is no encoding.                                               *)

\* The containers of values S.
Containers(S) ==
    {[type |-> "array", items |-> s] : s \in Seq(S)}
    \union {[type |-> "map", entries |-> s] : s \in Seq([key : S, val : S])}

\* f[i] has the values that nest i deep or less, up to n.
AreLevels(f, n) ==
    /\ f = [i \in 0 .. n |-> f[i]]
    /\ f[0] = Leaves
    /\ \A i \in 1 .. n : f[i] = Leaves \union Containers(f[i - 1])
Level(k) == (CHOOSE f : AreLevels(f, k))[k]

\* There are levels up to any depth.
LEMMA LevelsExist ==
    ASSUME NEW n \in Nat
    PROVE  \E f : AreLevels(f, n)
<1> DEFINE T == {m \in Nat : ~\E f : AreLevels(f, m)}
<1>1. SUFFICES ASSUME T # {} PROVE FALSE
    OBVIOUS
<1>2. PICK m \in T : \A k \in T : m <= k
    BY <1>1, LeastOf
<1>3. m # 0
  <2> DEFINE f == [i \in 0 .. 0 |-> Leaves]
  <2>1. AreLevels(f, 0)
      BY DEF AreLevels
  <2> HIDE DEF f
  <2> QED
      BY <2>1, <1>2
<1>4. m - 1 \in Nat /\ m - 1 \notin T
    BY <1>2, <1>3
<1>5. PICK f : AreLevels(f, m - 1)
    BY <1>4
<1> DEFINE g == [i \in 0 .. m |-> IF i = m THEN Leaves \union Containers(f[m - 1])
                                  ELSE f[i]]
<1>6. AreLevels(g, m)
  <2>1. g = [i \in 0 .. m |-> g[i]]
      OBVIOUS
  <2>2. g[0] = Leaves
      BY <1>2, <1>3, <1>5 DEF AreLevels
  <2>3. ASSUME NEW i \in 1 .. m PROVE g[i] = Leaves \union Containers(g[i - 1])
    <3>1. i - 1 \in 0 .. m /\ i - 1 # m /\ g[i - 1] = f[i - 1]
        BY <1>2
    <3>2. CASE i = m
        BY <3>1, <3>2
    <3>3. CASE i # m
      <4>1. i \in 1 .. m - 1 /\ g[i] = f[i]
          BY <3>3, <1>2
      <4> QED
          BY <4>1, <3>1, <1>5 DEF AreLevels
    <3> QED
        BY <3>2, <3>3
  <2> HIDE DEF g
  <2> QED
      BY <2>1, <2>2, <2>3 DEF AreLevels
<1> HIDE DEF g
<1> QED
    BY <1>2, <1>6

\* They agree with one another.
LEMMA LevelsAgree ==
    ASSUME NEW n \in Nat, NEW m \in Nat, NEW f, NEW g,
           AreLevels(f, n), AreLevels(g, m),
           NEW j \in Nat, j <= n, j <= m
    PROVE  f[j] = g[j]
<1> DEFINE T == {i \in Nat : i <= n /\ i <= m /\ f[i] # g[i]}
<1>1. SUFFICES ASSUME T # {} PROVE FALSE
    OBVIOUS
<1>2. PICK i \in T : \A k \in T : i <= k
    BY <1>1, LeastOf
<1>3. i # 0
    BY <1>2 DEF AreLevels
<1>4. i - 1 \in Nat /\ i - 1 \notin T /\ f[i - 1] = g[i - 1]
    BY <1>2, <1>3
<1>5. i \in 1 .. n /\ i \in 1 .. m
    BY <1>2, <1>3
<1>6. f[i] = Leaves \union Containers(f[i - 1]) /\ g[i] = Leaves \union Containers(g[i - 1])
    BY <1>5 DEF AreLevels
<1> QED
    BY <1>2, <1>4, <1>6

\* What is on a level.
LEMMA OnLevel ==
    ASSUME NEW k \in Nat
    PROVE  Leaves \subseteq Level(k) /\ Containers(Level(k)) \subseteq Level(k + 1)
<1> DEFINE f == CHOOSE h : AreLevels(h, k)
           g == CHOOSE h : AreLevels(h, k + 1)
<1>1. AreLevels(f, k)
    BY LevelsExist
<1>2. k + 1 \in Nat /\ k \in 0 .. k /\ k + 1 \in 1 .. k + 1 /\ k + 1 - 1 = k
    OBVIOUS
<1>3. AreLevels(g, k + 1)
    BY LevelsExist, <1>2
<1>4. Level(k) = f[k] /\ Level(k + 1) = g[k + 1]
    BY DEF Level
<1> HIDE DEF f, g
<1>5. f[k] = g[k]
  <2>1. k <= k /\ k <= k + 1
      OBVIOUS
  <2> QED
      BY <1>1, <1>2, <1>3, <2>1, LevelsAgree
<1>6. g[k + 1] = Leaves \union Containers(g[k])
    BY <1>2, <1>3 DEF AreLevels
<1>7. k = 0 \/ k \in 1 .. k
    OBVIOUS
<1>8. Leaves \subseteq f[k]
    BY <1>1, <1>7 DEF AreLevels
<1> QED
    BY <1>4, <1>5, <1>6, <1>8

\* Values with as many levels as they nest, and bytes of any kind.
Nestings ==
    UNION {{<<v, e, k>> : v \in Level(k), e \in Seq(Nat)} : k \in Nat}

\* Bytes are numbers.
LEMMA BytesAreNumbers ==
    ASSUME NEW s \in Seq(Byte)
    PROVE  s \in Seq(Nat)
<1>1. Byte \subseteq Nat
    BY DEF Byte
<1>2. Len(s) \in Nat /\ \A i \in 1 .. Len(s) : s[i] \in Byte
    OBVIOUS
<1>3. s = [i \in 1 .. Len(s) |-> s[i]]
    OBVIOUS
<1>4. \A i \in 1 .. Len(s) : s[i] \in Nat
    BY <1>1, <1>2
<1> QED
    BY <1>2, <1>3, <1>4

\* A head is a sequence of numbers.
LEMMA HeaderIsSeq ==
    ASSUME NEW major \in 0 .. 7, NEW d \in Numerals
    PROVE  Header(major, d) \in Seq(Nat)
<1> DEFINE h == Header(major, d)
           b == 32 * major
           p4 == Pad(d, 4)
           p8 == Pad(d, 8)
<1>1. d \in Seq(Byte) /\ Len(d) <= 8
    BY DEF Numerals
<1>2. d \in Seq(Nat) /\ Len(d) \in 0 .. 8 /\ (Len(d) = 1 => d[1] \in Nat)
  <2>1. Len(d) \in Nat /\ d \in Seq(Nat)
      BY <1>1, BytesAreNumbers
  <2>2. \A n \in Nat : n <= 8 => n \in 0 .. 8
      OBVIOUS
  <2>3. Len(d) = 1 => d[1] \in Nat
      BY <2>1, SMTT(30)
  <2> QED
      BY <1>1, <2>1, <2>2, <2>3, Zenon
<1>3. ASSUME NEW n \in Nat, Len(d) <= n PROVE Pad(d, n) \in Seq(Nat)
  <2> DEFINE zeros == [i \in 1 .. n - Len(d) |-> 0]
  <2>1. zeros \in Seq(Nat)
    <3>1. n - Len(d) \in Nat
        BY <1>2, <1>3
    <3> QED
        BY <3>1
  <2> HIDE DEF zeros
  <2>2. zeros \o d \in Seq(Nat)
      BY <1>2, <2>1
  <2> QED
      BY <2>2 DEF Pad, zeros
<1>4. /\ Len(d) \in 3 .. 4 => p4 \in Seq(Nat)
      /\ Len(d) \in 5 .. 8 => p8 \in Seq(Nat)
  <2>1. \A n : n \in 3 .. 4 => n <= 4
      OBVIOUS
  <2>2. \A n : n \in 5 .. 8 => n <= 8
      OBVIOUS
  <2>3. 4 \in Nat /\ 8 \in Nat
      OBVIOUS
  <2> QED
      BY <1>3, <2>1, <2>2, <2>3, Zenon
<1>5. b \in Nat /\ major \in Nat
    OBVIOUS
<1>6. /\ Len(d) = 0 => h = <<b>>
      /\ Len(d) = 1 /\ d[1] < 24 => h = <<b + d[1]>>
      /\ Len(d) = 1 /\ d[1] >= 24 => h = <<b + 24>> \o d
      /\ Len(d) = 2 => h = <<b + 25>> \o d
      /\ Len(d) \in 3 .. 4 => h = <<b + 26>> \o p4
      /\ Len(d) \in 5 .. 8 => h = <<b + 27>> \o p8
    BY <1>1, <1>5, HeaderByLength, Zenon
<1> HIDE DEF h, b, p4, p8
<1>7. \A x \in Nat, t \in Seq(Nat) : <<x>> \in Seq(Nat) /\ <<x>> \o t \in Seq(Nat)
    OBVIOUS
<1>8. /\ b + 24 \in Nat /\ b + 25 \in Nat /\ b + 26 \in Nat /\ b + 27 \in Nat
      /\ Len(d) = 1 => b + d[1] \in Nat
    BY <1>2, <1>5
<1>9. /\ Len(d) = 0 \/ Len(d) = 1 \/ Len(d) = 2 \/ Len(d) \in 3 .. 4 \/ Len(d) \in 5 .. 8
      /\ Len(d) = 1 => d[1] < 24 \/ d[1] >= 24
    BY <1>2
<1>10. h \in Seq(Nat)
    BY <1>2, <1>4, <1>5, <1>6, <1>7, <1>8, <1>9, ZenonT(40)
<1> QED
    BY <1>10 DEF h

\* In b the items lie end to end, each in an encoding of its own.
ItemsEncoded(k, items, b, cut) ==
    /\ items = [i \in 1 .. Len(items) |-> items[i]]
    /\ Len(items) \in Nat
    /\ cut \in [0 .. Len(items) -> 0 .. Len(b)]
    /\ \A i \in 1 .. Len(items) :
          /\ cut[i - 1] < cut[i]
          /\ Canonical(items[i], Between(b, cut[i - 1], cut[i]), k)

\* What the rules say of a value without items, and of an array and a map.
LeafByARule(v, e) ==
    \/ \E d \in Numerals : /\ ~OverInt64(d)
                           /\ \/ /\ v = [type |-> "uint", n |-> d]
                                 /\ e = Header(0, d)
                              \/ /\ v = [type |-> "negint", n |-> d]
                                 /\ e = Header(1, d)
    \/ \E d \in Lengths, s \in Seq(Byte) :
          /\ Count(d) = Len(s)
          /\ \/ v = [type |-> "bytes", string |-> s] /\ e = Header(2, d) \o s
             \/ v = [type |-> "text", string |-> s] /\ e = Header(3, d) \o s
    \/ v = [type |-> "bool", bool |-> FALSE] /\ e = <<244>>
    \/ v = [type |-> "bool", bool |-> TRUE] /\ e = <<245>>
    \/ v = [type |-> "null"] /\ e = <<246>>
ContainerByARule(v, e, k) ==
    \E d \in Lengths, b \in Seq(Byte) : \E items, cut :
       /\ k > 0 /\ ItemsEncoded(k - 1, items, b, cut)
       /\ \/ /\ Len(items) = Count(d)
             /\ v = [type |-> "array", items |-> items]
             /\ e = Header(4, d) \o Between(b, cut[0], cut[Len(items)])
          \/ /\ Len(items) = 2 * Count(d)
             /\ KeysAscend(KeysIn(Count(d), b, cut))
             /\ v = [type |-> "map", entries |-> EntriesOf(Count(d), items)]
             /\ e = Header(5, d) \o Between(b, cut[0], cut[Len(items)])

\* What a rule says, of parts that are canonical.
ByTheRules ==
    {t \in Nestings : /\ Canonical(t[1], t[2], t[3])
                      /\ \/ LeafByARule(t[1], t[2])
                         \/ ContainerByARule(t[1], t[2], t[3])}

\* Values without items.
LEMMA LeavesByRule ==
    ASSUME NEW v \in Leaves, NEW e \in Seq(Nat), NEW k \in Nat, LeafByARule(v, e),
           \A R : ClosedUnderEncoding(R) => <<v, e, k>> \in R
    PROVE  <<v, e, k>> \in ByTheRules
<1> DEFINE t == <<v, e, k>>
<1>1. t[1] = v /\ t[2] = e /\ t[3] = k
    OBVIOUS
<1>2. v \in Level(k)
    BY OnLevel
<1>3. t \in Nestings
    BY <1>2 DEF Nestings
<1>4. Canonical(v, e, k)
    BY DEF Canonical
<1> HIDE DEF t
<1>5. t \in ByTheRules
    BY <1>1, <1>3, <1>4, Zenon DEF ByTheRules
<1> QED
    BY <1>5 DEF t

\* What lies end to end by the rules lies end to end in every closed set.
LEMMA ItemsByRule ==
    ASSUME NEW k \in Nat, NEW b \in Seq(Byte), NEW items, NEW cut,
           EndToEnd(ByTheRules, k, items, b, cut)
    PROVE  /\ ItemsEncoded(k, items, b, cut)
           /\ items \in Seq(Level(k))
           /\ \A R : ClosedUnderEncoding(R) => EndToEnd(R, k, items, b, cut)
<1> DEFINE V == {t[1] : t \in ByTheRules}
           n == Len(items)
           e(i) == Between(b, cut[i - 1], cut[i])
<1>1. /\ items \in Seq(V)
      /\ cut \in [0 .. n -> 0 .. Len(b)]
      /\ \A i \in 1 .. n : cut[i - 1] < cut[i] /\ <<items[i], e(i), k>> \in ByTheRules
    BY DEF EndToEnd
<1> HIDE DEF V
<1>2. n \in Nat /\ items = [i \in 1 .. n |-> items[i]]
    BY <1>1
<1>3. ASSUME NEW i \in 1 .. n
      PROVE  items[i] \in Level(k) /\ Canonical(items[i], e(i), k)
  <2> DEFINE t == <<items[i], e(i), k>>
  <2>1. t[1] = items[i] /\ t[2] = e(i) /\ t[3] = k /\ t \in ByTheRules
      BY <1>1
  <2>2. Canonical(t[1], t[2], t[3]) /\ t \in Nestings
      BY <2>1, Zenon DEF ByTheRules
  <2>3. PICK l \in Nat : \E v \in Level(l), f \in Seq(Nat) : t = <<v, f, l>>
      BY <2>2 DEF Nestings
  <2>4. items[i] \in Level(k)
      BY <2>3
  <2> HIDE DEF t, e
  <2> QED
      BY <2>1, <2>2, <2>4
<1> HIDE DEF e
<1>4. items \in Seq(Level(k))
    BY <1>2, <1>3
<1>5. ItemsEncoded(k, items, b, cut)
    BY <1>1, <1>2, <1>3 DEF ItemsEncoded, e
<1>6. ASSUME NEW R, ClosedUnderEncoding(R) PROVE EndToEnd(R, k, items, b, cut)
  <2> DEFINE W == {t[1] : t \in R}
  <2>1. \A i \in 1 .. n : <<items[i], e(i), k>> \in R
      BY <1>3, <1>6 DEF Canonical
  <2>2. \A i \in 1 .. n : items[i] \in W
    <3>1. ASSUME NEW i \in 1 .. n PROVE items[i] \in W
      <4>1. <<items[i], e(i), k>>[1] = items[i]
          OBVIOUS
      <4> QED
          BY <2>1, <4>1
    <3> QED
        BY <3>1
  <2> HIDE DEF W
  <2>3. items \in Seq(W)
      BY <1>2, <2>2
  <2> QED
      BY <1>1, <2>1, <2>3 DEF EndToEnd, W, e
<1> QED
    BY <1>4, <1>5, <1>6

\* One rule at a time: numbers, strings, the three constants.
LEMMA NumbersByRule ==
    ASSUME NEW k \in Nat, NEW d \in Numerals, ~OverInt64(d)
    PROVE  /\ <<[type |-> "uint", n |-> d], Header(0, d), k>> \in ByTheRules
           /\ <<[type |-> "negint", n |-> d], Header(1, d), k>> \in ByTheRules
<1> DEFINE v == [type |-> "uint", n |-> d]
           w == [type |-> "negint", n |-> d]
<1>1. v \in Leaves /\ w \in Leaves
    BY DEF Leaves
<1>2. Header(0, d) \in Seq(Nat) /\ Header(1, d) \in Seq(Nat)
    BY HeaderIsSeq
<1>3. LeafByARule(v, Header(0, d)) /\ LeafByARule(w, Header(1, d))
    BY Zenon DEF LeafByARule
<1>4. \A R : ClosedUnderEncoding(R) => /\ <<v, Header(0, d), k>> \in R
                                       /\ <<w, Header(1, d), k>> \in R
    BY Zenon DEF ClosedUnderEncoding
<1> HIDE DEF v, w
<1>5. /\ <<v, Header(0, d), k>> \in ByTheRules
      /\ <<w, Header(1, d), k>> \in ByTheRules
    BY <1>1, <1>2, <1>3, <1>4, LeavesByRule, Zenon
<1> QED
    BY <1>5 DEF v, w

\* Strings: a head that counts their bytes, and these.
LEMMA StringsByRule ==
    ASSUME NEW k \in Nat, NEW d \in Lengths, NEW s \in Seq(Byte), Count(d) = Len(s)
    PROVE  /\ <<[type |-> "bytes", string |-> s], Header(2, d) \o s, k>> \in ByTheRules
           /\ <<[type |-> "text", string |-> s], Header(3, d) \o s, k>> \in ByTheRules
<1> DEFINE v == [type |-> "bytes", string |-> s]
           w == [type |-> "text", string |-> s]
           e == Header(2, d) \o s
           f == Header(3, d) \o s
<1>1. v \in Leaves /\ w \in Leaves
    BY DEF Leaves
<1>2. e \in Seq(Nat) /\ f \in Seq(Nat)
  <2>1. Header(2, d) \in Seq(Nat) /\ Header(3, d) \in Seq(Nat)
      BY HeaderIsSeq DEF Lengths
  <2>2. s \in Seq(Nat)
      BY BytesAreNumbers
  <2>3. \A x, y \in Seq(Nat) : x \o y \in Seq(Nat)
      OBVIOUS
  <2> QED
      BY <2>1, <2>2, <2>3, Zenon
<1>3. LeafByARule(v, e) /\ LeafByARule(w, f)
    BY Zenon DEF LeafByARule
<1>4. \A R : ClosedUnderEncoding(R) => <<v, e, k>> \in R /\ <<w, f, k>> \in R
    BY Zenon DEF ClosedUnderEncoding
<1> HIDE DEF v, w, e, f
<1>5. <<v, e, k>> \in ByTheRules /\ <<w, f, k>> \in ByTheRules
    BY <1>1, <1>2, <1>3, <1>4, LeavesByRule, Zenon
<1> QED
    BY <1>5 DEF v, w, e, f

\* The values that are one byte.
LEMMA ConstantsByRule ==
    ASSUME NEW k \in Nat
    PROVE  /\ <<[type |-> "bool", bool |-> FALSE], <<244>>, k>> \in ByTheRules
           /\ <<[type |-> "bool", bool |-> TRUE], <<245>>, k>> \in ByTheRules
           /\ <<[type |-> "null"], <<246>>, k>> \in ByTheRules
<1> DEFINE v == [type |-> "bool", bool |-> FALSE]
           w == [type |-> "bool", bool |-> TRUE]
           x == [type |-> "null"]
<1>1. v \in Leaves /\ w \in Leaves /\ x \in Leaves
    BY DEF Leaves
<1>2. <<244>> \in Seq(Nat) /\ <<245>> \in Seq(Nat) /\ <<246>> \in Seq(Nat)
    OBVIOUS
<1>3. /\ LeafByARule(v, <<244>>) /\ LeafByARule(w, <<245>>)
      /\ LeafByARule(x, <<246>>)
    BY Zenon DEF LeafByARule
<1>4. \A R : ClosedUnderEncoding(R) => /\ <<v, <<244>>, k>> \in R
                                       /\ <<w, <<245>>, k>> \in R
                                       /\ <<x, <<246>>, k>> \in R
    BY Zenon DEF ClosedUnderEncoding
<1> HIDE DEF v, w, x
<1>5. /\ <<v, <<244>>, k>> \in ByTheRules /\ <<w, <<245>>, k>> \in ByTheRules
      /\ <<x, <<246>>, k>> \in ByTheRules
    BY <1>1, <1>2, <1>3, <1>4, LeavesByRule, ZenonT(40)
<1> QED
    BY <1>5 DEF v, w, x

\* A container of what lies end to end.
LEMMA ContainersByRule ==
    ASSUME NEW k \in Nat, NEW v \in Containers(Level(k)), NEW e \in Seq(Nat),
           ContainerByARule(v, e, k + 1),
           \A R : ClosedUnderEncoding(R) => <<v, e, k + 1>> \in R
    PROVE  <<v, e, k + 1>> \in ByTheRules
<1> DEFINE t == <<v, e, k + 1>>
<1>1. t[1] = v /\ t[2] = e /\ t[3] = k + 1
    OBVIOUS
<1>2. k + 1 \in Nat
    OBVIOUS
<1>3. v \in Level(k + 1)
    BY OnLevel
<1>4. t \in Nestings
    BY <1>2, <1>3 DEF Nestings
<1>5. Canonical(v, e, k + 1)
    BY DEF Canonical
<1> HIDE DEF t
<1>6. t \in ByTheRules
    BY <1>1, <1>4, <1>5, Zenon DEF ByTheRules
<1> QED
    BY <1>6 DEF t

\* The slice that a container's items lie in.
LEMMA SlicesAreSeqs ==
    ASSUME NEW b \in Seq(Byte), NEW k, NEW items, NEW cut,
           ItemsEncoded(k, items, b, cut)
    PROVE  Between(b, cut[0], cut[Len(items)]) \in Seq(Nat)
<1> DEFINE n == Len(items)
           p == cut[0]
           q == cut[Len(items)]
<1>1. n \in Nat /\ cut \in [0 .. n -> 0 .. Len(b)]
    BY DEF ItemsEncoded
<1>2. p \in 0 .. Len(b) /\ q \in 0 .. Len(b)
    BY <1>1
<1> HIDE DEF p, q
<1>3. b \in Seq(Nat) /\ Len(b) \in Nat /\ p \in Nat /\ q \in Nat /\ q <= Len(b)
    BY <1>2, BytesAreNumbers
<1>4. Between(b, p, q) \in Seq(Nat)
  <2>1. \A i \in p + 1 .. q : b[i] \in Nat
      BY <1>3
  <2> QED
      BY <1>3, <2>1 DEF Between
<1> QED
    BY <1>4 DEF p, q

\* The bytes of a container: its head, and the slice its items lie in.
LEMMA ContainerIsSeq ==
    ASSUME NEW major \in 0 .. 7, NEW d \in Lengths, NEW b \in Seq(Byte),
           NEW k, NEW items, NEW cut, ItemsEncoded(k, items, b, cut)
    PROVE  Header(major, d) \o Between(b, cut[0], cut[Len(items)]) \in Seq(Nat)
<1>1. Between(b, cut[0], cut[Len(items)]) \in Seq(Nat)
    BY SlicesAreSeqs
<1>2. Header(major, d) \in Seq(Nat)
    BY HeaderIsSeq DEF Lengths
<1>3. \A x, y \in Seq(Nat) : x \o y \in Seq(Nat)
    OBVIOUS
<1> QED
    BY <1>1, <1>2, <1>3, Zenon

\* Arrays: a head that counts their items, and these.
LEMMA ArraysByRule ==
    ASSUME NEW k \in Nat, NEW d \in Lengths, NEW b \in Seq(Byte), NEW items, NEW cut,
           EndToEnd(ByTheRules, k, items, b, cut), Len(items) = Count(d)
    PROVE  <<[type |-> "array", items |-> items],
             Header(4, d) \o Between(b, cut[0], cut[Len(items)]), k + 1>> \in ByTheRules
<1> DEFINE v == [type |-> "array", items |-> items]
           e == Header(4, d) \o Between(b, cut[0], cut[Len(items)])
<1>1. /\ ItemsEncoded(k, items, b, cut) /\ items \in Seq(Level(k))
      /\ \A R : ClosedUnderEncoding(R) => EndToEnd(R, k, items, b, cut)
    BY ItemsByRule
<1>2. v \in Containers(Level(k))
    BY <1>1 DEF Containers
<1>3. e \in Seq(Nat)
    BY <1>1, ContainerIsSeq, SMTT(30)
<1>4. \A R : ClosedUnderEncoding(R) => <<v, e, k + 1>> \in R
    BY <1>1, Zenon DEF ClosedUnderEncoding
<1>5. k + 1 > 0 /\ (k + 1) - 1 = k
    OBVIOUS
<1>6. ContainerByARule(v, e, k + 1)
    BY <1>1, <1>5, Zenon DEF ContainerByARule
<1> HIDE DEF v, e
<1>7. <<v, e, k + 1>> \in ByTheRules
    BY <1>2, <1>3, <1>4, <1>6, ContainersByRule
<1> QED
    BY <1>7 DEF v, e

\* Maps: a head that counts their keys, which ascend, each with its value.
LEMMA MapsByRule ==
    ASSUME NEW k \in Nat, NEW d \in Lengths, NEW b \in Seq(Byte), NEW items, NEW cut,
           EndToEnd(ByTheRules, k, items, b, cut), Len(items) = 2 * Count(d),
           KeysAscend(KeysIn(Count(d), b, cut))
    PROVE  <<[type |-> "map", entries |-> EntriesOf(Count(d), items)],
             Header(5, d) \o Between(b, cut[0], cut[Len(items)]), k + 1>> \in ByTheRules
<1> DEFINE entries == EntriesOf(Count(d), items)
           v == [type |-> "map", entries |-> entries]
           e == Header(5, d) \o Between(b, cut[0], cut[Len(items)])
           L == Level(k)
           n == Count(d)
<1>1. /\ ItemsEncoded(k, items, b, cut) /\ items \in Seq(L)
      /\ \A R : ClosedUnderEncoding(R) => EndToEnd(R, k, items, b, cut)
    BY ItemsByRule
<1>2. v \in Containers(L)
  <2>1. n \in Nat /\ Len(items) = 2 * n
      BY CountIsNat DEF Lengths, Numerals
  <2> HIDE DEF n, L
  <2>2. \A i \in 1 .. n : items[2 * i - 1] \in L /\ items[2 * i] \in L
      BY <1>1, <2>1
  <2> DEFINE E(i) == [key |-> items[2 * i - 1], val |-> items[2 * i]]
  <2>3. \A i \in 1 .. n : E(i) \in [key : L, val : L]
      BY <2>2
  <2>4. entries = [i \in 1 .. n |-> E(i)]
      BY DEF EntriesOf, n
  <2> DEFINE S == [key : L, val : L]
  <2> HIDE DEF entries, E, S
  <2>5. entries \in Seq(S)
      BY <2>1, <2>3, <2>4 DEF S
  <2> QED
      BY <2>5 DEF Containers, S
<1>3. e \in Seq(Nat)
    BY <1>1, ContainerIsSeq, SMTT(30)
<1>4. \A R : ClosedUnderEncoding(R) => <<v, e, k + 1>> \in R
    BY <1>1, Zenon DEF ClosedUnderEncoding
<1>5. k + 1 > 0 /\ (k + 1) - 1 = k
    OBVIOUS
<1>6. ContainerByARule(v, e, k + 1)
    BY <1>1, <1>5, Zenon DEF ContainerByARule
<1> HIDE DEF v, e
<1>7. <<v, e, k + 1>> \in ByTheRules
    BY <1>2, <1>3, <1>4, <1>6, ContainersByRule
<1> QED
    BY <1>7 DEF v, e, entries

\* Some set is closed under the rules, and holds nothing that no rule put
\* there.
LEMMA RulesAreClosed == ClosedUnderEncoding(ByTheRules)
BY NumbersByRule, StringsByRule, ConstantsByRule, ArraysByRule, MapsByRule, Zenon
   DEF ClosedUnderEncoding

\* Nothing is a canonical encoding but what a rule says: that a head, the only
\* one for its number, and then the bytes of a string or the encodings of the
\* items make up all of it, and that the keys of a map ascend
\* (encode.go 12-97).
THEOREM OnlyTheRules ==
    ASSUME NEW v, NEW e, NEW k, Canonical(v, e, k)
    PROVE  LeafByARule(v, e) \/ ContainerByARule(v, e, k)
<1> DEFINE t == <<v, e, k>>
<1>1. t[1] = v /\ t[2] = e /\ t[3] = k
    OBVIOUS
<1>2. t \in ByTheRules
    BY RulesAreClosed DEF Canonical
<1> HIDE DEF t
<1> QED
    BY <1>1, <1>2, Zenon DEF ByTheRules

=============================================================================
