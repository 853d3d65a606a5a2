------------------------------- MODULE MCNames -------------------------------
(* Instances for Names: headers around every choice of up to three bits of   *)
(* one bus, headers that reach each limit, and the patterns of each kind.     *)
EXTENDS Names

T(text) == [text |-> text, suffix |-> <<>>]
C0 == <<"c", "0">>
C1 == <<"c", "1">>
Top == <<"top">>

Scope(name) == [kw |-> "$scope", name |-> name]
Up == [kw |-> "$upscope"]
Var(size, sym, name, ref) ==
  [kw |-> "$var", type |-> "wire", size |-> size, sym |-> sym, name |-> T(name), ref |-> ref]
Bit(sym, name, b) == Var(<<1>>, sym, name, <<<<b>>>>)
End == [kw |-> "$enddefinitions"]
Other == [kw |-> "other"]

\* Two instances of one module, whose clocks are aliases of the clock outside.
TwoCores(bits) ==
  <<Scope(Top), Var(<<1>>, <<"!">>, <<"clk">>, <<>>), Scope(C0),
    Var(<<1>>, <<"!">>, <<"clk">>, <<>>), Var(<<2>>, <<"d0">>, <<"data">>, <<<<1, 0>>>>), Up,
    Scope(C1), Var(<<1>>, <<"!">>, <<"clk">>, <<>>),
    Var(<<1, 0>>, <<"d1">>, <<"data">>, <<<<1, 0>>>>)>> \o bits \o <<Up, Up>>

BitChoices == UNION {[1 .. n -> 0 .. 2] : n \in 0 .. 3}
Syms == <<<<"b0">>, <<"b1">>, <<"b2">>>>
BitsOf(choice) == [i \in DOMAIN choice |-> Bit(Syms[i], <<"bus">>, choice[i])]

\* Things that a parser meets: a short scope, a scope too many closed, a variable that
\* cannot be read or is too short, a range of one bit, a partial range.
Ragged ==
  <<Other, Up, Scope(<<>>), Scope(Top), Scope(C1), Scope(C1),
    Var(<<>>, <<"x">>, <<"lost">>, <<>>), Var(<<1>>, <<>>, <<"short">>, <<>>),
    Var(<<1>>, <<"r">>, <<"one">>, <<<<0, 0>>>>), Var(<<2>>, <<"p">>, <<"data">>, <<<<3, 2>>>>), Up,
    Bit(<<"b0">>, <<"bus">>, 0), Bit(<<"b0">>, <<"twin">>, 0), Bit(<<"b1">>, <<"bus">>, 1),
    Bit(<<"b1">>, <<"twin">>, 1), Up, Var(<<1>>, <<"g">>, <<"global">>, <<>>)>>

\* Two buses of different scopes with one identifier.
SameIds ==
  <<Scope(<<"a">>), Bit(<<"b0">>, <<"b", "__", "c">>, 0), Bit(<<"b1">>, <<"b", "__", "c">>, 1), Up,
    Scope(<<"a", "__", "b">>), Bit(<<"b2">>, <<"c">>, 0), Bit(<<"b3">>, <<"c">>, 1), Up>>

Failing ==
  {<<Scope(Top), Scope(Top), Scope(Top), Scope(Top)>>,
   <<Var(<<5>>, <<"w">>, <<"wide">>, <<>>)>>, <<Var(<<0>>, <<"w">>, <<"none">>, <<>>)>>,
   [i \in 1 .. 9 |-> Var(<<1>>, <<"v">>, <<"v">>, <<>>)],
   [i \in 1 .. 4 |-> Bit(<<"v">>, <<"bus">>, i - 1)],
   <<End, Other, Other, Other>>}

MCHeaders ==
  {TwoCores(BitsOf(c)) \o <<End>> : c \in BitChoices} \union Failing \union
  {Ragged, SameIds, <<End, Other, Other>>}

MCFstNames ==
  <<[path |-> T(<<"top", ".", "clk">>), width |-> 1],
    [path |-> [text |-> Top \o <<".">> \o C0 \o <<".", "data">>, suffix |-> <<<<1, 0>>>>], width |-> 2],
    [path |-> T(Top \o <<".">> \o C0 \o <<".", "clk">>), width |-> 1],
    [path |-> [text |-> Top \o <<".">> \o C1 \o <<".", "data">>, suffix |-> <<<<3, 2>>>>], width |-> 2],
    [path |-> T(Top \o <<".">> \o C1 \o <<".", "clk">>), width |-> 1]>>

MCModuleOf(name) == IF name \in {C0, C1} THEN <<"core">> ELSE name

Field(name) == Sig(T(name), 1)
MCComposites ==
  <<[scope |-> Top \o <<".">> \o C0,
     sig |-> [Sig(T(Top \o <<".">> \o C0 \o <<".", "st">>), 2)
                EXCEPT !.members = <<Field(<<"f">>), Field(<<"g">>)>>]]>>

MCRegex ==
  (<<"c(.)">> :> (C0 :> <<<<"0">>>> @@ C1 :> <<<<"1">>>>)) @@
  (<<"data.(.).*">> :> (<<"data", "<<1, 0>>">> :> <<<<"1">>>> @@ <<"data", "<<3, 2>>">> :> <<<<"3">>>>)) @@
  (<<"c.">> :> (C0 :> <<>> @@ C1 :> <<>>)) @@
  (<<"(.*)a(.*)">> :> (<<"data">> :> <<<<"d">>, <<"ta">>>>)) @@
  (<<".*">> :> (<<"clk">> :> <<>> @@ <<"data">> :> <<>> @@ <<"bus">> :> <<>>))

-----------------------------------------------------------------------------
W(text) == [braces |-> FALSE, words |-> <<text>>]
B(texts) == [braces |-> TRUE, words |-> texts]
Part(mark, segments) == [mark |-> mark, segments |-> segments, suffix |-> <<>>]
P(text) == Part("", <<W(text)>>)
Sliced(text, suffix) == [P(text) EXCEPT !.suffix = suffix]
Re(text) == Part("@", <<W(text)>>)
Core == Part("", <<W(<<"c">>), B(<<<<"0">>, <<"1">>>>)>>)
Either == Part("", <<B(<<<<"clk">>, <<"data">>>>)>>)
Twice == Part("", <<W(<<"c">>), B(<<<<"1">>, <<"1">>>>)>>)

MCNoRoot == <<>>
Q(parts) == [parts |-> parts, root |-> MCNoRoot]
In(root, parts) == [parts |-> parts, root |-> root]

Absolute ==
  {Q(<<P(Top), P(<<"clk">>)>>), Q(<<P(Top), Core, P(<<"data">>)>>), Q(<<P(Top), Core, Either>>),
   Q(<<P(Top), Twice, P(<<"clk">>)>>), Q(<<P(Top), Core>>), Q(<<P(Top)>>), Q(<<P(<<"data">>)>>),
   Q(<<P(Top), Re(<<"c(.)">>), Re(<<"(.*)a(.*)">>)>>), Q(<<P(Top), Re(<<"c.">>), P(<<"clk">>)>>),
   Q(<<P(Top), Re(<<"c(.)">>), Re(<<".*">>)>>),
   Q(<<Part("$", <<W(C1)>>), P(<<"data">>)>>), Q(<<Part("$$", <<W(C0)>>), P(<<"clk">>)>>),
   Q(<<Part("$", <<W(Top)>>), Core, P(<<"clk">>)>>), Q(<<P(Top), Part("$", <<W(C1)>>), Either>>),
   Q(<<Part("$", <<W(<<"core">>)>>), Either>>), Q(<<Part("$$", <<W(<<"core">>)>>)>>),
   Q(<<P(Top), Core, Sliced(<<"data">>, <<<<1, 0>>>>)>>), Q(<<P(Top), Core, Sliced(<<"data">>, <<<<0>>>>)>>),
   Q(<<P(Top), P(C1), Sliced(<<"bus">>, <<<<1, 0>>>>)>>), Q(<<P(Top), P(C1), P(<<"bus">>)>>),
   Q(<<P(Top), P(C0), P(<<"st">>), Part("", <<B(<<<<"f">>, <<"g">>>>)>>)>>),
   Q(<<P(Top), P(C1), P(C1), Re(<<".*">>)>>), Q(<<P(Top), Re(<<"c.">>), Re(<<"data.(.).*">>)>>),
   Q(<<P(Top), P(C0), Re(<<"data.(.).*">>)>>), Q(<<P(Top), P(C0), Part("$", <<W(<<"data">>)>>)>>)}

Within ==
  {In(Top, <<Core, P(<<"data">>)>>), In(Top, <<P(<<"clk">>)>>), In(Top, <<Core>>),
   In(Top, <<Re(<<"c(.)">>), Either>>), In(Top, <<Re(<<"c.">>), P(<<"clk">>)>>),
   In(Top \o <<".">> \o C1, <<Re(<<"(.*)a(.*)">>)>>), In(Top \o <<".">> \o C1, <<Re(<<".*">>)>>),
   In(Top \o <<".">> \o C1, <<Sliced(<<"bus">>, <<<<1, 0>>>>)>>),
   In(Top \o <<".">> \o C1, <<Sliced(<<"data">>, <<<<1, 0>>>>)>>),
   In(Top, <<Core, Re(<<"data.(.).*">>)>>), In(Top, <<Part("$", <<W(C1)>>), P(<<"data">>)>>),
   In(Top, <<Part("$$", <<W(C0)>>)>>)}

MCQueries == Absolute \union Within

Data == Q(<<P(Top), Core, P(<<"data">>)>>)
Clocks == Q(<<P(Top), Core, P(<<"clk">>)>>)
OneClock == Q(<<P(Top), P(<<"clk">>)>>)
Both == Q(<<P(Top), Re(<<"c(.)">>), P(<<"data">>)>>)
Whole == Q(<<P(Top), Core, Sliced(<<"data">>, <<<<1, 0>>>>)>>)

\* One root serves the signals and the clock.
MCPairs ==
  {[signals |-> s, clocks |-> c] : s \in {Data, Both, Whole, OneClock}, c \in {Clocks, OneClock}} \union
  {[signals |-> In(Top, <<Core, P(<<"data">>)>>), clocks |-> c] :
     c \in {In(Top, <<Core, P(<<"clk">>)>>), In(Top, <<P(<<"clk">>)>>)}}
MCExprs ==
  {<<s, c>> : s \in {Data, OneClock, Both}, c \in {Clocks, OneClock}} \union
  {<<OneClock, Data, Clocks>>, <<Q(<<P(Top), P(<<"none">>)>>)>>,
   <<In(Top, <<P(<<"clk">>)>>), In(Top, <<Core, P(<<"data">>)>>)>>}
=============================================================================
