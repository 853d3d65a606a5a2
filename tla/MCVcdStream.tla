---------------------------- MODULE MCVcdStream ----------------------------
(***************************************************************************)
(* Two signals and a bus: "a" is a signal of its own and bit 0 of the bus, *)
(* "b" is bit 1 only, and "#3" is the identifier of a real number.         *)
(***************************************************************************)
EXTENDS VcdStream

MCStamp == [t \in {"#0", "#1", "#2", "#3", "#1.5", "#9e9"} |->
              CASE t = "#0" -> 0 [] t = "#1" -> 1 [] t = "#2" -> 2 [] t = "#3" -> 3
                [] t = "#1.5" -> Malformed [] t = "#9e9" -> TooLarge]
MCScalar == [t \in {"0a", "1a", "1b"} |->
               CASE t = "0a" -> [sym |-> "a", value |-> <<"0">>]
                 [] t = "1a" -> [sym |-> "a", value |-> <<"1">>]
                 [] t = "1b" -> [sym |-> "b", value |-> <<"1">>]]
MCVector == [t \in {"b1", "b10", "r1.5"} |->
               CASE t = "b1" -> <<"1">> [] t = "b10" -> <<"1", "0">> [] t = "r1.5" -> <<"1", ".", "5">>]
MCPort == [t \in {"pU"} |-> <<"1">>]
MCStrengths == {"0", "1"}
MCWrappers == {"$dumpvars"}
MCSections == {"$comment"}
MCWidth == [s \in {"a", "bus", "#3"} |-> IF s = "bus" THEN 2 ELSE 1]
MCUnsized == {"#3"}
MCBitMap == [s \in {"a", "b"} |-> IF s = "a" THEN <<<<"bus", 0>>>> ELSE <<<<"bus", 1>>>>]

Upto(n, S) == UNION {[1 .. k -> S] : k \in 0 .. n}

All == {"a", "bus", "#3"}
Replay(t0, t1, sids) == [kind |-> "replay", t0 |-> t0, t1 |-> t1, sids |-> sids]
Scan == [kind |-> "scan", t0 |-> 0, t1 |-> NoTime, sids |-> {}]
WholeWalk == Replay(0, NoTime, All)

\* Every way in which the first tokens of a file can go wrong.
TokenFiles ==
  Upto(4, {"#1", "#3", "1a", "b1", "pU", "0", "a", "$comment", "$end", "$dumpvars"})
    \union {<<"1b", "#9e9", "1a">>, <<"#1.5", "b10", "a">>,
              <<"#1", "1a", "#2", "r1.5", "a">>, <<"#1", "b10", "#3", "#2", "b10", "a">>}

\* Files over two or three times, and walks over a part of them.
TimedFiles ==
  {x \o <<"#1">> \o y \o <<t>> \o z : x \in Upto(1, {"1a", "0a", "1b"}),
                                      y \in Upto(2, {"1a", "0a", "1b"}), t \in {"#2", "#1"},
                                      z \in Upto(1, {"1a", "0a", "1b"})}
\* The first timestamp is 0, with data before and after it.
ZeroFiles ==
  {x \o <<"#0">> \o y \o <<"#2">> \o z : x, y, z \in Upto(1, {"1a", "0a", "1b"})}

\* Times in any order, with data before the first of them.
UntidyFiles == Upto(4, {"#1", "#2", "1a"})

SomeWalks ==
  {WholeWalk, Replay(2, NoTime, All), Replay(0, 1, All), Replay(2, NoTime, {"bus"}), Scan}

MCFiles == TokenFiles \union TimedFiles \union ZeroFiles \union UntidyFiles

\* One whole walk over the files that go wrong, two of any kind over the others.
Tried == TimedFiles \union ZeroFiles \union UntidyFiles
MCWalks(f) == IF f \in Tried THEN SomeWalks ELSE {WholeWalk}
MCMaxWalks(f) == IF f \in Tried THEN 2 ELSE 1
=============================================================================
