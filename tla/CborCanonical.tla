---------------------------- MODULE CborCanonical ----------------------------
(***************************************************************************)
(* What a canonical encoding is, as rules: the encoding of a number, of a  *)
(* string, of a container whose items are encoded one behind the other.    *)
(* The heads are those of internal/cbortest/encode.go.                     *)
(*                                                                         *)
(* CborEncode computes encodings, by recursion, and TLC compares the       *)
(* decoder with it on small inputs.  The rules say the same without        *)
(* recursion, so that a theorem can say it of every input.                 *)
(***************************************************************************)
EXTENDS Cbor

Pad(digits, n) == [i \in 1 .. n - Len(digits) |-> 0] \o digits

\* encodeHeader
Header(major, digits) ==
    LET b == 32 * major
    IN  CASE Len(digits) = 0                      -> <<b>>
          [] Len(digits) = 1 /\ digits[1] < 24    -> <<b + digits[1]>>
          [] Len(digits) = 1 /\ digits[1] >= 24   -> <<b + 24>> \o digits
          [] Len(digits) = 2                      -> <<b + 25>> \o digits
          [] Len(digits) \in 3 .. 4               -> <<b + 26>> \o Pad(digits, 4)
          [] Len(digits) \in 5 .. 8               -> <<b + 27>> \o Pad(digits, 8)

-----------------------------------------------------------------------------
(* The rules.                                                              *)

\* A number to the base 256, and a length that fits into memory.
Numerals == {d \in Seq(Byte) : Len(d) <= 8 /\ (d # <<>> => d[1] # 0)}
Lengths == {d \in Numerals : Len(d) <= 3}

\* The bytes of b behind the first `from' and as far as `to'.
Between(b, from, to) == SubSeq(b, from + 1, to)

\* In b the items lie end to end, item i from cut[i - 1] to cut[i], each as
\* one of the encodings R, of k levels.
EndToEnd(R, k, items, b, cut) ==
    /\ items \in Seq({t[1] : t \in R})
    /\ cut \in [0 .. Len(items) -> 0 .. Len(b)]
    /\ \A i \in 1 .. Len(items) :
          /\ cut[i - 1] < cut[i]
          /\ <<items[i], Between(b, cut[i - 1], cut[i]), k>> \in R

\* Where every other item is a key, the n keys.
KeysIn(n, b, cut) == [i \in 1 .. n |-> Between(b, cut[2 * i - 2], cut[2 * i - 1])]

\* Each key comes before all later ones.
KeysAscend(keys) ==
    \A i, j \in DOMAIN keys : i < j => KeyBefore(keys[i], keys[j])

EntriesOf(n, items) ==
    [i \in 1 .. n |-> [key |-> items[2 * i - 1], val |-> items[2 * i]]]

\* R holds <<v, e, k>> for every encoding e of a value v that nests k deep or
\* less.
ClosedUnderEncoding(R) ==
    /\ \A k \in Nat, d \in Numerals : ~OverInt64(d) =>
          /\ <<[type |-> "uint", n |-> d], Header(0, d), k>> \in R
          /\ <<[type |-> "negint", n |-> d], Header(1, d), k>> \in R
    /\ \A k \in Nat, d \in Lengths, s \in Seq(Byte) : Count(d) = Len(s) =>
          /\ <<[type |-> "bytes", string |-> s], Header(2, d) \o s, k>> \in R
          /\ <<[type |-> "text", string |-> s], Header(3, d) \o s, k>> \in R
    /\ \A k \in Nat :
          /\ <<[type |-> "bool", bool |-> FALSE], <<244>>, k>> \in R
          /\ <<[type |-> "bool", bool |-> TRUE], <<245>>, k>> \in R
          /\ <<[type |-> "null"], <<246>>, k>> \in R
    /\ \A k \in Nat, d \in Lengths, b \in Seq(Byte) : \A items, cut :
          EndToEnd(R, k, items, b, cut) /\ Len(items) = Count(d) =>
              <<[type |-> "array", items |-> items],
                Header(4, d) \o Between(b, cut[0], cut[Len(items)]),
                k + 1>> \in R
    /\ \A k \in Nat, d \in Lengths, b \in Seq(Byte) : \A items, cut :
          /\ EndToEnd(R, k, items, b, cut) /\ Len(items) = 2 * Count(d)
          /\ KeysAscend(KeysIn(Count(d), b, cut))
          => <<[type |-> "map", entries |-> EntriesOf(Count(d), items)],
               Header(5, d) \o Between(b, cut[0], cut[Len(items)]),
               k + 1>> \in R

\* e is an encoding of v, which nests no deeper than k: the rules, and the
\* rules only, say so.  (Some set is closed under the rules, and holds nothing
\* else: OnlyTheRules in CborProofs.)
Canonical(v, e, k) == \A R : ClosedUnderEncoding(R) => <<v, e, k>> \in R

-----------------------------------------------------------------------------
(* Elements.                                                               *)

\* The values without items.
Leaves ==
    {[type |-> "uint", n |-> d] : d \in Numerals}
    \union {[type |-> "negint", n |-> d] : d \in Numerals}
    \union {[type |-> "bytes", string |-> s] : s \in Seq(Byte)}
    \union {[type |-> "text", string |-> s] : s \in Seq(Byte)}
    \union {[type |-> "bool", bool |-> b] : b \in BOOLEAN}
    \union {[type |-> "null"]}

\* Item i has cnt[i] - cnt[i - 1] elements, and is so counted in N.
Counted(N, k, items, cnt) ==
    /\ items \in Seq({t[1] : t \in N})
    /\ cnt \in [0 .. Len(items) -> Nat]
    /\ \A i \in 1 .. Len(items) :
          /\ cnt[i - 1] < cnt[i]
          /\ <<items[i], k, cnt[i] - cnt[i - 1]>> \in N

\* N holds <<v, k, n>> for every value v that nests k deep or less and has n
\* elements: itself, and those of its items.
ClosedUnderCounting(N) ==
    /\ \A k \in Nat, v \in Leaves : <<v, k, 1>> \in N
    /\ \A k \in Nat : \A items, cnt : Counted(N, k, items, cnt) =>
          <<[type |-> "array", items |-> items],
            k + 1, 1 + cnt[Len(items)] - cnt[0]>> \in N
    /\ \A k \in Nat, n \in Nat : \A items, cnt :
          Counted(N, k, items, cnt) /\ Len(items) = 2 * n =>
              <<[type |-> "map", entries |-> EntriesOf(n, items)],
                k + 1, 1 + cnt[Len(items)] - cnt[0]>> \in N

\* decodeValue is called n times for v, which nests no deeper than k: again the
\* rules say so, and they only (OnlyTheCounts in CanonicalProofs).
HasElements(v, k, n) == \A N : ClosedUnderCounting(N) => <<v, k, n>> \in N

\* The input b begins with m bytes that encode v, which has n elements.
BeginsWith(b, v, m, n) ==
    /\ m \in 0 .. Len(b) /\ Canonical(v, Between(b, 0, m), MaxDepth)
    /\ HasElements(v, MaxDepth, n)

-----------------------------------------------------------------------------
(* Properties.                                                             *)

\* Decode returns a value together with bytes that encode it canonically, and
\* that the input begins with (decode.go 96-111, 142-196, 302-364).
AcceptsOnlyCanonical ==
    status = "ok" => Canonical(ret, SubSeq(buf, 1, pos), MaxDepth)

\* Decode refuses nothing that begins with a canonical encoding of a value with
\* no element too many, and returns that value and where it ends
\* (decode.go 27-37, 96-111, 238-364).
RefusesNothingCanonical ==
    Len(buf) <= MaxInputSize =>
        \A v, m, n : BeginsWith(buf, v, m, n) /\ n <= MaxElements =>
            /\ status \in {"idle", "running", "ok"}
            /\ status = "ok" => ret = v /\ pos = m

\* The elements of the value that Decode returns are those it counted
\* (decode.go 239-242).
CountsElements == status = "ok" => HasElements(ret, MaxDepth, elems)

\* No map that is returned, at whatever depth, has two entries with equal keys:
\* MapGetInt and MapGetText return the first of a key and never look for
\* another (decode.go 67-86, 341-349).
NoKeyTwice ==
    ret # None /\ ret.type = "map" =>
        \A i, j \in DOMAIN ret.entries :
            ret.entries[i].key = ret.entries[j].key => i = j

=============================================================================
