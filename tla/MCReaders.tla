----------------------------- MODULE MCReaders -----------------------------
(***************************************************************************)
(* Machine words of two bits.  A clock "c", a signal "d" of three bits, so *)
(* of two chunks, a signal "p" stored as [3:2], a signal "e" without a     *)
(* change and a real one "r".                                              *)
(***************************************************************************)
EXTENDS Readers

Signal(width, low, real) == [width |-> width, low |-> low, real |-> real]
MCDeclared ==
  [s \in {"c", "d", "p", "e", "r"} |->
     CASE s = "d" -> Signal(3, 0, FALSE)
       [] s = "p" -> Signal(2, 2, FALSE)
       [] s = "r" -> Signal(4, 0, TRUE)
       [] OTHER -> Signal(1, 0, FALSE)]

None == <<>>
Changes(s, texts) ==
  SelectSeq([i \in DOMAIN texts |-> [at |-> i - 1, sid |-> s, value |-> texts[i]]],
            LAMBDA e : e.value # None)
Place(s) == CASE s = "c" -> 0 [] s = "d" -> 1 [] OTHER -> 2
Merged(events) == SortSeq(events, LAMBDA a, b : a.at < b.at \/ (a.at = b.at /\ Place(a.sid) < Place(b.sid)))

O == <<"0">>
I == <<"1">>
X == <<"x">>
Clocks == {<<O, I, O, I, O, I>>, <<I, O, X, O, I, O>>, <<None, O, X, I, O, I>>, <<X, None, X>>}
Values ==
  {<<<<"1", "0", "1">>, None, <<"0", "1", "0">>, <<"1", "1", "0">>>>,
   <<None, None, None, <<"0", "x", "1">>, I, <<"x", "0", "0">>>>}
Fields == <<<<"1", "0">>, None, <<"0", "x">>>>

\* What is not asked for together is not in one file.
MCFiles ==
  {Merged(Changes("c", k) \o Changes("d", d)) : k \in Clocks, d \in Values} \union
  {Merged(Changes("c", k) \o Changes("p", Fields) \o Changes("r", <<<<"2", ".">>>>)) :
     k \in {<<O, I, O, I, O, I>>, <<I, O, X, O, I, O>>}}

Default == [signal |-> "d", clock |-> "c", posedge |-> TRUE, range |-> Unset, signed |-> FALSE,
            masked |-> FALSE, xzValue |-> 1, beginTime |-> Unset, endTime |-> Unset,
            beginCycle |-> Unset, endCycle |-> Unset]

MCLoads ==
  {[Default EXCEPT !.posedge = FALSE, !.xzValue = 0], [Default EXCEPT !.signal = "c", !.xzValue = 0],
   [Default EXCEPT !.signal = "e"], [Default EXCEPT !.signal = "r"],
   [Default EXCEPT !.clock = "d"], [Default EXCEPT !.clock = "e"], [Default EXCEPT !.xzValue = 2],
   [Default EXCEPT !.beginTime = 1, !.beginCycle = 0], [Default EXCEPT !.endTime = 3, !.endCycle = 1],
   [Default EXCEPT !.signal = "p", !.signed = TRUE], [Default EXCEPT !.signal = "p", !.range = <<0, 0>>]}
  \union {[Default EXCEPT !.beginTime = b, !.endTime = e, !.masked = (e = 4)] :
            b \in {Unset, 3}, e \in {3, 4}}
  \union {[Default EXCEPT !.beginCycle = b, !.endCycle = e, !.posedge = FALSE] :
            b \in {0, 1}, e \in {1, 2}}
  \union {[Default EXCEPT !.range = r, !.signed = s, !.masked = s] :
            r \in {<<2, 1>>, <<1, 1>>}, s \in BOOLEAN}
  \union {[Default EXCEPT !.range = r, !.signed = (r = <<2, 0>>)] :
            r \in {<<2, 0>>, <<0, 1>>, <<3, 0>>, Several}}
=============================================================================
