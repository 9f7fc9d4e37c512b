----------------------------- MODULE CborInputs -----------------------------
(***************************************************************************)
(* Inputs for the decoder, and the legal values among what they begin      *)
(* with: all short inputs over an alphabet of nine bytes, and every        *)
(* initial byte with telling arguments.                                    *)
(***************************************************************************)
EXTENDS CborEncode, SequencesExt

-----------------------------------------------------------------------------
(* Structure: 0, 1, a string of one byte, arrays and maps of up to two.    *)

Alphabet == {0, 1, 65, 128, 129, 130, 160, 161, 162}

\* Up to five bytes; six for maps with two keys of different lengths.
StructureInputs ==
    BoundedSeq(Alphabet, 5) \union {<<162>> \o s : s \in TupleOf(Alphabet, 5)}

Number(n) == [type |-> "uint", n |-> Digits(<<n>>)]

\* All values with an encoding of n bytes over the alphabet.
ValuesOf[n \in 1 .. 6] ==
    LET V(k) == IF k \in 1 .. n - 1 THEN ValuesOf[k] ELSE {}
        Pairs(k) == UNION {V(i) \X V(k - i) : i \in 1 .. k - 1}
        Entries(k) == {[key |-> p[1], val |-> p[2]] : p \in Pairs(k)}
        TwoEntries(k) == UNION {Entries(i) \X Entries(k - i) : i \in 2 .. k - 2}
    IN  (IF n = 1 THEN {Number(0), Number(1), [type |-> "array", items |-> <<>>],
                        [type |-> "map", entries |-> <<>>]} ELSE {})
        \union
        (IF n = 2 THEN [type : {"bytes"}, string : {<<a>> : a \in Alphabet}]
                  ELSE {})
        \union
        [type : {"array"}, items : {<<v>> : v \in V(n - 1)} \union Pairs(n - 1)]
        \union
        [type : {"map"},
         entries : {<<e>> : e \in Entries(n - 1)} \union TwoEntries(n - 1)]

StructureSamples == UNION {ValuesOf[n] : n \in 1 .. 6}

-----------------------------------------------------------------------------
(* Heads: every initial byte, before arguments on both sides of each       *)
(* width's limit and strings that are complete, or one byte short.         *)

Zeros(n) == [i \in 1 .. n |-> 0]

Arguments ==
    {<<>>, <<23>>, <<24>>, <<255>>, <<0, 255>>, <<1, 0>>, <<255>> \o Zeros(3),
     <<0, 0, 255, 255>>, <<0, 1, 0, 0>>, Zeros(4) \o <<255, 0, 0, 0>>,
     <<0, 0, 0, 1>> \o Zeros(4), <<127>> \o Zeros(7), <<128>> \o Zeros(7)}

Tails == {a \o Zeros(n) : a \in Arguments, n \in {0, 1, 22, 23, 24, 256}}

\* One is more than Decode takes.
HeadInputs == {<<b>> \o t : b \in Byte, t \in Tails}
              \union {Zeros(n) : n \in {0, MaxInputSize, MaxInputSize + 1}}

\* The scalars such inputs can begin with.
HeadSamples ==
    LET numbers == {Digits(a) : a \in Arguments}
                   \union {Digits(<<n>>) : n \in 0 .. 23}
        strings == UNION {{SubSeq(t, i, j) : i \in 1 .. 3, j \in 0 .. Len(t)} :
                             t \in Tails}
    IN  [type : {"uint", "negint"}, n : numbers]
        \union [type : {"bytes", "text"}, string : strings]
        \union [type : {"bool"}, bool : BOOLEAN] \union {[type |-> "null"]}

-----------------------------------------------------------------------------

Samples == StructureSamples \union HeadSamples

=============================================================================
