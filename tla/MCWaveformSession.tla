------------------------- MODULE MCWaveformSession -------------------------
(***************************************************************************)
(* Machine words of four bits.  Three samples of a bit, of a machine word, *)
(* of a signed one, of an object, and of a waveform without a mask; one    *)
(* waveform of no samples and one on another grid.                         *)
(***************************************************************************)
EXTENDS WaveformSession, TLC

At(value, time, width, signed, xz) ==
  New(value, "object", [i \in DOMAIN time |-> i + 3], time, width, signed, xz)

Grid == <<5, 8, 9>>
Load(value, other, width, signed, xz) ==
  <<At(value, Grid, width, signed, xz), At(other, Grid, width, signed, xz)>>

Flag == Load(<<0, 0, 1>>, <<0, 1, 1>>, 1, FALSE, <<FALSE, TRUE, FALSE>>)
Nibble == Load(<<5, 7, 0>>, <<5, 7, 3>>, 3, FALSE, <<FALSE, FALSE, TRUE>>)
Full == Load(<<15, 0, 8>>, <<15, 0, 8>>, 4, FALSE, NoMask)
Negative == Load(<<0, -4, 3>>, <<1, -4, 3>>, 3, TRUE, <<TRUE, FALSE, FALSE>>)
Wide == Load(<<33, 0, 63>>, <<33, 7, 63>>, 6, FALSE, <<FALSE, TRUE, FALSE>>)
Empty == <<At(<<>>, <<>>, 3, FALSE, <<>>), At(<<>>, <<>>, 3, FALSE, <<>>)>>
Elsewhere == <<At(<<1, 0, 1>>, <<5, 8, 10>>, 1, FALSE, NoMask), At(<<1, 0, 1>>, <<5, 8, 10>>, 1, FALSE, NoMask)>>

MCLoaded == {Flag, Nibble, Full, Negative, Wide, Empty}
MCOperands == {Flag, Nibble, Full, Negative, Wide, Elsewhere}

MCScalars == {-1, 0, 1, 5}

MCShape ==
  [sizes |-> {2, 3}, lists |-> {<<1, 2>>, <<1, 3>>, <<2, 1, 3>>},
   indices |-> {<<2, 0>>, <<-1, 0, -1>>},
   keeps |-> {<<TRUE, FALSE, TRUE>>, <<FALSE, FALSE>>},
   offsets |-> {0, 1, 4}, pads |-> {Repeat, 1}]

\* Up to three rows: captures that every row has, or some; lists of one length or not;
\* integers that do not fit a machine word, and words beyond the signed ones.
Row(start, end, status, captures) ==
  [start |-> start, end |-> end, status |-> status, captures |-> captures]
Value(n) == [v |-> <<"word", n>>]
Beats(seq) == [b |-> <<"list", [k \in DOMAIN seq |-> <<"word", seq[k]>>]>>]
ValueChoices == {<<>>, Value(3), Value(9), [v |-> <<"int", 6>>], [v |-> <<"int", 40>>]}
BeatChoices == {Beats(<<1, 2>>), Beats(<<7, 2>>), Beats(<<4>>), Beats(<<8, 9>>)}

MCReports ==
  {<<>>} \union
  {<<Row(2, 3, s, c), Row(4, 4, t, d)>> : s, t \in 0 .. 2, c, d \in ValueChoices} \union
  {<<Row(2, 3, s, c), Row(4, 4, t, d), Row(5, 7, 1, Value(5) @@ c)>> : s, t \in 0 .. 2, c, d \in BeatChoices}
MCStatuses == {0, 1, 2, 7}
=============================================================================
