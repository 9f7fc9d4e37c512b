----------------------------- MODULE CborEncode -----------------------------
(***************************************************************************)
(* internal/cbortest/encode.go, the encoder the tests build their inputs   *)
(* with, as the definition of what the decoder has to accept: the          *)
(* encodings of legal values, each in the one form they have.  TLC only:   *)
(* an encoding is as recursive as the value.                               *)
(***************************************************************************)
EXTENDS CborCanonical
LOCAL INSTANCE SequencesExt
LOCAL INSTANCE FiniteSetsExt

\* The length of a sequence that fits into memory.
Length(s) == Digits(<<Len(s) \div 65536, (Len(s) \div 256) % 256, Len(s) % 256>>)

RECURSIVE Encode(_)
Encode(v) ==
    CASE v.type = "uint"   -> Header(0, v.n)
      [] v.type = "negint" -> Header(1, v.n)
      [] v.type = "bytes"  -> Header(2, Length(v.string)) \o v.string
      [] v.type = "text"   -> Header(3, Length(v.string)) \o v.string
      [] v.type = "array"  ->
            Header(4, Length(v.items)) \o
            FlattenSeq([i \in DOMAIN v.items |-> Encode(v.items[i])])
      [] v.type = "map"    ->
            Header(5, Length(v.entries)) \o
            FlattenSeq([i \in DOMAIN v.entries |->
                           Encode(v.entries[i].key) \o Encode(v.entries[i].val)])
      [] v.type = "bool"   -> IF v.bool THEN <<245>> ELSE <<244>>
      [] v.type = "null"   -> <<246>>

\* The values directly inside v.
Parts(v) ==
    CASE v.type = "array" -> v.items
      [] v.type = "map"   ->
            [i \in 1 .. 2 * Len(v.entries) |->
                IF i % 2 = 1 THEN v.entries[(i + 1) \div 2].key
                             ELSE v.entries[i \div 2].val]
      [] OTHER            -> <<>>

RECURSIVE Height(_)
Height(v) ==
    IF v.type \in {"array", "map"}
    THEN 1 + Max({0} \union {Height(Parts(v)[i]) : i \in DOMAIN Parts(v)})
    ELSE 0

RECURSIVE Count1(_)
Count1(v) ==
    1 + FoldSeq(LAMBDA part, sum : Count1(part) + sum, 0, Parts(v))

\* What a value owes the canonical form at its own level, and at all levels.
RECURSIVE WellFormed(_)
WellFormed(v) ==
    /\ v.type \in {"uint", "negint"} => Len(v.n) < 8 \/ v.n[1] < 128
    /\ v.type = "map" =>
          \A i, j \in DOMAIN v.entries :
              i < j => KeyBefore(Encode(v.entries[i].key),
                                 Encode(v.entries[j].key))
    /\ \A i \in DOMAIN Parts(v) : WellFormed(Parts(v)[i])

Legal(v) == WellFormed(v) /\ Height(v) <= MaxDepth /\ Count1(v) <= MaxElements

-----------------------------------------------------------------------------
(* Properties.                                                             *)

\* Decode returns a legal value together with exactly the bytes that are its
\* encoding: no other bytes decode to it, and the caller that goes on behind
\* them (authdata/parse.go) goes on at the right place (decode.go 96-111).
AcceptsCanonical ==
    status = "ok" => Legal(ret) /\ Encode(ret) = SubSeq(buf, 1, pos)

=============================================================================
