--------------------------- MODULE VcdStreamProofs ---------------------------
(***************************************************************************)
(* The walk over the tokens is safe for every file: a section is skipped   *)
(* past the tokens given back only when there are none, and what is still  *)
(* to come is always the rest of the file, in its order.  And where the    *)
(* timestamps go forward, so do the events of every signal, and a signal   *)
(* that is a bit of a bus shows the same there and on its own.             *)
(***************************************************************************)
EXTENDS VcdStream, SequenceTheorems, Lemmas

Texts ==
  /\ file \in Seq(STRING) /\ raw \in Seq(STRING) /\ pushback \in Seq(STRING)
  /\ carry.read \in Seq(Strengths)

\* Only the token given back first, the one that stopped a value change, can be
\* anything but a strength.
StrengthsOnTop == \A i \in 2 .. Len(pushback) : pushback[i] \in Strengths

\* While a value change or a section is read nothing is given back.
NothingBack == mode \in {"value", "section"} => pushback = <<>>

IInv == Texts /\ StrengthsOnTop /\ NothingBack

-----------------------------------------------------------------------------
\* Taking a token keeps the stack as it should be.
LEMMA PopKeeps ==
  ASSUME IInv, More, Pop
  PROVE  /\ raw' \in Seq(STRING) /\ pushback' \in Seq(STRING)
         /\ StrengthsOnTop'
         /\ Token \in STRING
<1>1. CASE pushback # <<>>
  <2>1. /\ pushback \in Seq(STRING) /\ Len(pushback) \in Nat /\ Len(pushback) >= 1
        /\ raw' = raw /\ pushback' = SubSeq(pushback, 1, Len(pushback) - 1)
        /\ Token = pushback[Len(pushback)]
    BY <1>1 DEF IInv, Texts, Pop, RestBack, RestRaw, Token, Front, Last
  <2>2. /\ pushback' \in Seq(STRING) /\ Len(pushback') = Len(pushback) - 1
        /\ \A i \in 1 .. Len(pushback) - 1 : pushback'[i] = pushback[i]
    <3> DEFINE n == Len(pushback) - 1
               front == SubSeq(pushback, 1, n)
    <3>1. n \in Int /\ n >= 0 /\ \A i \in 1 .. n : pushback[i] \in STRING
      BY <2>1
    <3>2. pushback' = front
      BY <2>1
    <3> HIDE DEF n
    <3>3. /\ front \in Seq(STRING)
          /\ Len(front) = IF 1 <= n THEN n - 1 + 1 ELSE 0
          /\ \A i \in 1 .. n - 1 + 1 : front[i] = pushback[1 + i - 1]
      BY <3>1, SubSeqProperties
    <3> HIDE DEF front
    <3>4. Len(front) = n
      BY <3>1, <3>3
    <3>5. \A i \in 1 .. n : front[i] = pushback[i]
      BY <3>1, <3>3
    <3> QED  BY <3>2, <3>3, <3>4, <3>5 DEF n
  <2>3. Token \in STRING
    BY <2>1
  <2>4. StrengthsOnTop'
    BY <2>1, <2>2 DEF IInv, StrengthsOnTop
  <2> QED  BY <2>1, <2>2, <2>3, <2>4 DEF IInv, Texts
<1>2. CASE pushback = <<>>
  <2>1. /\ raw \in Seq(STRING) /\ raw # <<>> /\ raw' = Tail(raw) /\ pushback' = <<>>
        /\ Token = Head(raw)
    BY <1>2 DEF IInv, Texts, More, Pop, RestBack, RestRaw, Token
  <2> QED  BY <2>1 DEF StrengthsOnTop
<1> QED  BY <1>1, <1>2

\* A token that is no strength was the last one given back.
LEMMA NoStrengthIsLast ==
  ASSUME IInv, More, Pop, Token \notin Strengths
  PROVE  pushback' = <<>>
<1>1. CASE pushback # <<>>
  <2>1. /\ pushback \in Seq(STRING) /\ Len(pushback) \in Nat /\ Len(pushback) >= 1
        /\ pushback' = SubSeq(pushback, 1, Len(pushback) - 1)
        /\ Token = pushback[Len(pushback)]
    BY <1>1 DEF IInv, Texts, Pop, RestBack, Token, Front, Last
  <2>2. ~ (2 <= Len(pushback))
    BY <2>1 DEF IInv, StrengthsOnTop
  <2> QED  BY <2>1, <2>2
<1>2. CASE pushback = <<>>
  BY <1>2 DEF Pop, RestBack
<1> QED  BY <1>1, <1>2

\* Strengths that are given back lie on top of the token they go back with.
LEMMA ReverseOnTop ==
  ASSUME NEW read \in Seq(Strengths), NEW tok \in STRING
  PROVE  /\ Reverse(Append(read, tok)) \in Seq(STRING)
         /\ \A i \in 2 .. Len(Reverse(Append(read, tok))) :
              Reverse(Append(read, tok))[i] \in Strengths
<1> DEFINE whole == Append(read, tok)
<1>1. /\ whole \in Seq(STRING) /\ Len(whole) = Len(read) + 1 /\ Len(read) \in Nat
      /\ \A j \in 1 .. Len(read) : whole[j] \in Strengths
  <2>1. read \in Seq(STRING)
    <3>1. ASSUME NEW j \in 1 .. Len(read) PROVE read[j] \in STRING
      <4>1. read[j] \in Strengths
        OBVIOUS
      <4> QED  BY <4>1, TokenAssumption
    <3> QED  BY <3>1
  <2>2. /\ whole \in Seq(STRING) /\ Len(whole) = Len(read) + 1
        /\ \A j \in 1 .. Len(read) : whole[j] = read[j]
    <3>0. whole \in Seq(STRING)
      BY <2>1, AppendProperties, Zenon
    <3>1. Len(whole) = Len(read) + 1
      BY <2>1
    <3>2. ASSUME NEW j \in 1 .. Len(read) PROVE whole[j] = read[j]
      BY <2>1
    <3> QED  BY <3>0, <3>1, <3>2
  <2>3. \A j \in 1 .. Len(read) : read[j] \in Strengths
    OBVIOUS
  <2> HIDE DEF whole
  <2> QED  BY <2>2, <2>3
<1>2. Reverse(whole) = [i \in 1 .. Len(whole) |-> whole[(Len(whole) - i) + 1]]
  BY DEF Reverse
<1> HIDE DEF whole
<1>3. \A i \in 1 .. Len(whole) : whole[(Len(whole) - i) + 1] \in STRING
  BY <1>1
<1>4. Reverse(whole) \in Seq(STRING) /\ Len(Reverse(whole)) = Len(whole)
  BY <1>1, <1>2, <1>3
<1>5. \A i \in 2 .. Len(Reverse(whole)) : Reverse(whole)[i] \in Strengths
  BY <1>1, <1>2, <1>4
<1> QED  BY <1>4, <1>5 DEF whole

\* Where no token follows there is nothing but strengths to give back.
LEMMA ReverseStrengths ==
  ASSUME NEW read \in Seq(Strengths)
  PROVE  /\ Reverse(read) \in Seq(STRING)
         /\ \A i \in 2 .. Len(Reverse(read)) : Reverse(read)[i] \in Strengths
<1>1. Reverse(read) = [i \in 1 .. Len(read) |-> read[(Len(read) - i) + 1]] /\ Len(read) \in Nat
  BY DEF Reverse
<1>2. \A i \in 1 .. Len(read) : read[(Len(read) - i) + 1] \in Strengths
  <2> SUFFICES ASSUME NEW i \in 1 .. Len(read)
               PROVE  read[(Len(read) - i) + 1] \in Strengths
    OBVIOUS
  <2>1. (Len(read) - i) + 1 \in 1 .. Len(read)
    BY <1>1
  <2> QED  BY <2>1
<1>3. \A i \in 1 .. Len(read) : read[(Len(read) - i) + 1] \in STRING
  BY <1>2, TokenAssumption
<1>4. Reverse(read) \in Seq(STRING) /\ Len(Reverse(read)) = Len(read)
  BY <1>1, <1>3
<1> QED  BY <1>1, <1>2, <1>4

\* Taking a token, position by position.
LEMMA PopShape ==
  ASSUME IInv, More, Pop
  PROVE  \/ /\ Len(pushback) >= 1 /\ Token = pushback[Len(pushback)] /\ raw' = raw
            /\ Len(pushback') = Len(pushback) - 1
            /\ \A i \in 1 .. Len(pushback) - 1 : pushback'[i] = pushback[i]
         \/ /\ pushback = <<>> /\ pushback' = <<>> /\ Len(raw) >= 1 /\ Token = raw[1]
            /\ Len(raw') = Len(raw) - 1
            /\ \A i \in 1 .. Len(raw) - 1 : raw'[i] = raw[i + 1]
<1>1. CASE pushback # <<>>
  <2>1. /\ pushback \in Seq(STRING) /\ Len(pushback) \in Nat /\ Len(pushback) >= 1
        /\ raw' = raw /\ pushback' = SubSeq(pushback, 1, Len(pushback) - 1)
        /\ Token = pushback[Len(pushback)]
    BY <1>1 DEF IInv, Texts, Pop, RestBack, RestRaw, Token, Front, Last
  <2> DEFINE n == Len(pushback) - 1
             front == SubSeq(pushback, 1, n)
  <2>2. n \in Int /\ n >= 0 /\ \A i \in 1 .. n : pushback[i] \in STRING
    BY <2>1
  <2>3. pushback' = front
    BY <2>1
  <2> HIDE DEF n
  <2>4. /\ Len(front) = IF 1 <= n THEN n - 1 + 1 ELSE 0
        /\ \A i \in 1 .. n - 1 + 1 : front[i] = pushback[1 + i - 1]
    BY <2>2, SubSeqProperties
  <2> HIDE DEF front
  <2>5. Len(front) = n /\ \A i \in 1 .. n : front[i] = pushback[i]
    BY <2>2, <2>4
  <2> QED  BY <2>1, <2>3, <2>5 DEF n
<1>2. CASE pushback = <<>>
  <2>1. /\ raw \in Seq(STRING) /\ raw # <<>> /\ raw' = Tail(raw) /\ pushback' = <<>>
        /\ Token = Head(raw)
    BY <1>2 DEF IInv, Texts, More, Pop, RestBack, RestRaw, Token
  <2>2. Len(raw') = Len(raw) - 1 /\ \A i \in 1 .. Len(raw') : raw'[i] = raw[i + 1]
    BY <2>1, HeadTailProperties
  <2> QED  BY <1>2, <2>1, <2>2
<1> QED  BY <1>1, <1>2

-----------------------------------------------------------------------------
LEMMA WalkInit == Init => IInv
  BY TokenAssumption DEF Init, IInv, Texts, StrengthsOnTop, NothingBack

LEMMA WalkNext == IInv /\ [Next]_vars => IInv'
<1> SUFFICES ASSUME IInv, [Next]_vars PROVE IInv'
  OBVIOUS
<1>1. ASSUME NEW w \in Walks(file), Begin(w) PROVE IInv'
  BY <1>1 DEF Begin, IInv, Texts, StrengthsOnTop, NothingBack
<1>2. ASSUME NEW tok \in ToSet(file), AtTop(tok), Pop, UNCHANGED <<file, carry>>,
             mode' \in {"top", "idle"}
      PROVE  IInv'
  BY <1>2, PopKeeps DEF AtTop, IInv, Texts, NothingBack
<1>3. ASSUME NEW tok \in ToSet(file), AtTop(tok), Pop, tok \notin Strengths, file' = file,
             carry'.read \in Seq(Strengths)
      PROVE  IInv'
  BY <1>3, PopKeeps, NoStrengthIsLast DEF AtTop, IInv, Texts, NothingBack
<1>4. ASSUME NEW tok \in ToSet(file),
             \/ Mark(tok) \/ SkipStamp(tok) \/ StampTooLarge(tok) \/ ReplayStamp(tok)
             \/ ScanStamp(tok) \/ ScalarChange(tok) \/ Junk(tok)
      PROVE  IInv'
  <2>1. AtTop(tok) /\ Pop /\ UNCHANGED <<file, carry>> /\ mode = "top"
    BY <1>4 DEF Mark, SkipStamp, StampTooLarge, ReplayStamp, ScanStamp, ScalarChange, Junk, AtTop
  <2>2. mode' \in {"top", "idle"}
    BY <1>4, <2>1 DEF Mark, SkipStamp, StampTooLarge, ReplayStamp, ScanStamp, ScalarChange, Junk,
                      EndWalk
  <2> QED  BY <1>2, <2>1, <2>2
<1>5. ASSUME NEW tok \in ToSet(file), OpenSection(tok) PROVE IInv'
  <2>1. AtTop(tok) /\ Pop /\ UNCHANGED <<file, carry>> /\ tok \notin Strengths
    BY <1>5, TokenAssumption DEF OpenSection
  <2> QED  BY <1>3, <2>1 DEF IInv, Texts
<1>6. ASSUME NEW tok \in ToSet(file), BeginValue(tok) PROVE IInv'
  <2>1. AtTop(tok) /\ Pop /\ file' = file /\ tok \notin Strengths
    BY <1>6, TokenAssumption DEF BeginValue
  <2>2. carry'.read = <<>>
    BY <1>6 DEF BeginValue
  <2> QED  BY <1>3, <2>1, <2>2
<1>7. CASE SkipSection
  <2>1. pushback' = pushback /\ pushback = <<>> /\ UNCHANGED <<file, carry>>
    BY <1>7 DEF SkipSection, IInv, NothingBack
  <2>2. raw' \in Seq(STRING)
    <3>1. raw \in Seq(STRING)
      BY DEF IInv, Texts
    <3>2. raw' = raw \/ (raw # <<>> /\ raw' = Tail(raw))
      BY <1>7 DEF SkipSection
    <3> QED  BY <3>1, <3>2, HeadTailProperties
  <2> QED  BY <2>1, <2>2 DEF IInv, Texts, StrengthsOnTop, NothingBack
<1>8. ASSUME NEW tok \in ToSet(file), TakeStrength(tok) PROVE IInv'
  <2>1. /\ mode = "value" /\ mode' = mode /\ More /\ Pop /\ file' = file /\ tok \in Strengths
        /\ carry' = [carry EXCEPT !.due = @ - 1, !.read = Append(@, tok)]
    BY <1>8 DEF TakeStrength
  <2>2. pushback' = <<>>
    BY <2>1 DEF IInv, NothingBack, Pop, RestBack
  <2>3. carry'.read \in Seq(Strengths)
    BY <2>1 DEF IInv, Texts
  <2> QED  BY <2>1, <2>2, <2>3, PopKeeps DEF IInv, Texts, NothingBack
<1>9. ASSUME NEW tok \in ToSet(file), TakeIdentifier(tok) PROVE IInv'
  <2>1. More /\ Pop /\ UNCHANGED <<file, carry>> /\ mode' = "top"
    BY <1>9 DEF TakeIdentifier
  <2> QED  BY <2>1, PopKeeps DEF IInv, Texts, NothingBack
<1>10. CASE GiveUp
  <2>1. /\ mode = "value" /\ mode' = "top" /\ pushback = <<>> /\ UNCHANGED <<file, carry>>
        /\ carry.read \in Seq(Strengths)
    BY <1>10 DEF GiveUp, IInv, NothingBack, Texts
  <2>2. CASE More
    <3>1. pushback' = Reverse(Append(carry.read, Token)) /\ raw' = Tail(raw) /\ Token = Head(raw)
      <4>1. pushback' = <<>> \o Reverse(Append(carry.read, Token))
        BY <1>10, <2>1, <2>2 DEF GiveUp, GiveBack, RestBack
      <4>2. raw # <<>> /\ raw' = Tail(raw) /\ Token = Head(raw)
        BY <1>10, <2>1, <2>2 DEF GiveUp, GiveBack, RestRaw, More, Token
      <4>3. Token \in STRING
        BY <4>2 DEF IInv, Texts
      <4>4. Reverse(Append(carry.read, Token)) \in Seq(STRING)
        BY <2>1, <4>3, ReverseOnTop
      <4> QED  BY <4>1, <4>2, <4>4
    <3>2. raw \in Seq(STRING) /\ raw # <<>>
      BY <2>1, <2>2 DEF More, IInv, Texts
    <3>3. Token \in STRING /\ raw' \in Seq(STRING)
      BY <3>1, <3>2
    <3> QED
      BY <2>1, <3>1, <3>3, ReverseOnTop DEF IInv, Texts, StrengthsOnTop, NothingBack
  <2>3. CASE ~More
    <3>1. pushback' = Reverse(carry.read) /\ raw' = raw
      BY <1>10, <2>3 DEF GiveUp
    <3> QED
      BY <2>1, <3>1, ReverseStrengths DEF IInv, Texts, StrengthsOnTop, NothingBack
  <2> QED  BY <2>2, <2>3
<1>11. CASE Finish \/ Abandon
  BY <1>11 DEF Finish, Abandon, EndWalk, IInv, Texts, StrengthsOnTop, NothingBack
<1>12. CASE UNCHANGED vars
  BY <1>12 DEF vars, parse, IInv, Texts, StrengthsOnTop, NothingBack
<1> QED
  BY <1>1, <1>4, <1>5, <1>6, <1>7, <1>8, <1>9, <1>10, <1>11, <1>12 DEF Next

-----------------------------------------------------------------------------
(* Every token knows its place: there is one position that the walk has    *)
(* reached in the file, and all that is still to come follows from there.  *)

Taken == Len(file) - Len(raw)
Kept == IF mode = "value" THEN Len(carry.read) ELSE 0

Comes ==
  /\ Len(raw) + Len(pushback) <= Len(file)
  /\ \A i \in 1 .. Len(raw) : raw[i] = file[Taken + i]
  /\ \A k \in 1 .. Len(pushback) : pushback[k] = file[Taken - k + 1]

ReadBefore ==
  mode = "value" =>
    /\ Len(carry.read) <= Taken
    /\ \A i \in 1 .. Len(carry.read) : carry.read[i] = file[Taken - Len(carry.read) + i]

Placed == Comes /\ ReadBefore

\* The next token is the one of the file that the walk has reached.
LEMMA PopComes ==
  ASSUME IInv, Comes, More, Pop, file' = file
  PROVE  /\ Comes'
         /\ Token = file[Taken - Len(pushback) + 1]
         /\ Len(raw') + Len(pushback') = Len(raw) + Len(pushback) - 1
<1>0. /\ file \in Seq(STRING) /\ raw \in Seq(STRING) /\ pushback \in Seq(STRING)
      /\ Len(file) \in Nat /\ Len(raw) \in Nat /\ Len(pushback) \in Nat
  BY DEF IInv, Texts
<1>1. CASE /\ Len(pushback) >= 1 /\ Token = pushback[Len(pushback)] /\ raw' = raw
           /\ Len(pushback') = Len(pushback) - 1
           /\ \A i \in 1 .. Len(pushback) - 1 : pushback'[i] = pushback[i]
  BY <1>0, <1>1 DEF Comes, Taken
<1>2. CASE /\ pushback = <<>> /\ pushback' = <<>> /\ Len(raw) >= 1 /\ Token = raw[1]
           /\ Len(raw') = Len(raw) - 1
           /\ \A i \in 1 .. Len(raw) - 1 : raw'[i] = raw[i + 1]
  <2>1. ASSUME NEW i \in 1 .. Len(raw')
        PROVE  raw'[i] = file[Len(file) - Len(raw') + i]
    <3>1. i \in 1 .. Len(raw) - 1 /\ i + 1 \in 1 .. Len(raw)
      BY <1>0, <1>2
    <3>2. raw'[i] = raw[i + 1] /\ raw[i + 1] = file[Len(file) - Len(raw) + (i + 1)]
      BY <1>2, <3>1 DEF Comes, Taken
    <3>3. Len(file) - Len(raw) + (i + 1) = Len(file) - Len(raw') + i
      BY <1>0, <1>2
    <3> QED  BY <3>2, <3>3
  <2>2. Token = file[Taken - Len(pushback) + 1]
    BY <1>0, <1>2 DEF Comes, Taken
  <2> QED  BY <1>0, <1>2, <2>1, <2>2 DEF Comes, Taken
<1> QED  BY <1>1, <1>2, PopShape

LEMMA PlacedInit == Init => Placed
  BY TokenAssumption DEF Init, Placed, Comes, ReadBefore, Taken

LEMMA ShiftOne ==
  ASSUME NEW t \in Int, NEW c \in Int
  PROVE  t - c + (c + 1) = t + 1
  OBVIOUS

LEMMA ShiftBack ==
  ASSUME NEW t, NEW c, NEW k, t \in Int, c \in Int, k \in Int
  PROVE  t - c + ((c - k) + 1) = t - k + 1
  OBVIOUS

LEMMA ShiftBackOne ==
  ASSUME NEW t \in Int, NEW c \in Int, NEW k \in Int
  PROVE  t - c + (((c + 1) - k) + 1) = (t + 1) - k + 1
  OBVIOUS

LEMMA PlacedNext == IInv /\ Placed /\ [Next]_vars => Placed'
<1> SUFFICES ASSUME IInv, Placed, [Next]_vars PROVE Placed'
  OBVIOUS
<1>0. /\ file \in Seq(STRING) /\ raw \in Seq(STRING) /\ pushback \in Seq(STRING)
      /\ Len(file) \in Nat /\ Len(raw) \in Nat /\ Len(pushback) \in Nat
      /\ carry.read \in Seq(Strengths) /\ Len(carry.read) \in Nat
      /\ Comes /\ ReadBefore
  BY DEF IInv, Texts, Placed
<1>n. /\ Len(file) \in Nat /\ Len(raw) \in Nat /\ Len(pushback) \in Nat
      /\ Len(carry.read) \in Nat /\ Taken = Len(file) - Len(raw) /\ Taken \in Int
      /\ Len(file) \in Int /\ Len(raw) \in Int /\ Len(carry.read) \in Int
  BY <1>0 DEF Taken
<1>1. ASSUME NEW w \in Walks(file), Begin(w) PROVE Placed'
  BY <1>0, <1>1 DEF Begin, Placed, Comes, ReadBefore, Taken
<1>2. ASSUME More, Pop, file' = file, mode' # "value" PROVE Placed'
  BY <1>2, PopComes, <1>0 DEF Placed, ReadBefore
<1>3. ASSUME NEW tok \in ToSet(file), BeginValue(tok) PROVE Placed'
  <2>1. More /\ Pop /\ file' = file /\ carry'.read = <<>>
    BY <1>3 DEF BeginValue, AtTop
  <2>2. Comes' /\ raw' \in Seq(STRING)
    BY <2>1, PopComes, PopKeeps, <1>0
  <2>3. Len(raw') <= Len(file) /\ Len(raw') \in Nat
    <3>1. pushback' \in Seq(STRING)
      BY <2>1, PopKeeps
    <3> QED  BY <1>0, <2>1, <2>2, <3>1 DEF Comes
  <2> QED  BY <1>0, <2>1, <2>2, <2>3 DEF Placed, ReadBefore, Taken
<1>4. ASSUME NEW tok \in ToSet(file),
             \/ Mark(tok) \/ OpenSection(tok) \/ SkipStamp(tok) \/ StampTooLarge(tok)
             \/ ReplayStamp(tok) \/ ScanStamp(tok) \/ ScalarChange(tok) \/ Junk(tok)
             \/ TakeIdentifier(tok)
      PROVE  Placed'
  <2>1. More /\ Pop /\ file' = file
    BY <1>4 DEF Mark, OpenSection, SkipStamp, StampTooLarge, ReplayStamp, ScanStamp, ScalarChange,
                Junk, TakeIdentifier, AtTop
  <2>2. mode' # "value"
    BY <1>4 DEF Mark, OpenSection, SkipStamp, StampTooLarge, ReplayStamp, ScanStamp, ScalarChange,
                Junk, TakeIdentifier, AtTop, EndWalk
  <2> QED  BY <1>2, <2>1, <2>2
<1>5. CASE SkipSection
  <2>1. pushback' = pushback /\ pushback = <<>> /\ file' = file /\ mode' # "value"
    BY <1>5 DEF SkipSection, IInv, NothingBack
  <2>2. CASE raw' = raw
    BY <1>0, <2>1, <2>2 DEF Placed, Comes, ReadBefore, Taken
  <2>3. CASE raw # <<>> /\ raw' = Tail(raw)
    <3>1. Len(raw') = Len(raw) - 1 /\ \A i \in 1 .. Len(raw') : raw'[i] = raw[i + 1]
      BY <1>0, <2>3, HeadTailProperties
    <3>2. ASSUME NEW i \in 1 .. Len(raw')
          PROVE  raw'[i] = file[Len(file) - Len(raw') + i]
      <4>1. i + 1 \in 1 .. Len(raw)
        BY <1>0, <3>1
      <4>2. raw'[i] = raw[i + 1] /\ raw[i + 1] = file[Len(file) - Len(raw) + (i + 1)]
        BY <1>0, <3>1, <4>1 DEF Comes, Taken
      <4>3. Len(file) - Len(raw) + (i + 1) = Len(file) - Len(raw') + i
        BY <1>0, <3>1
      <4> QED  BY <4>2, <4>3
    <3>3. Len(raw') + Len(pushback') <= Len(file')
      BY <1>n, <1>0, <2>1, <3>1 DEF Comes
    <3>4. Comes'
      BY <2>1, <3>2, <3>3, <1>n DEF Comes, Taken
    <3> QED  BY <2>1, <3>4 DEF Placed, ReadBefore
  <2> QED  BY <1>5, <2>2, <2>3 DEF SkipSection
<1>6. ASSUME NEW tok \in ToSet(file), TakeStrength(tok) PROVE Placed'
  <2>1. /\ mode = "value" /\ pushback = <<>> /\ More /\ Pop /\ file' = file /\ Token = tok
        /\ carry' = [carry EXCEPT !.due = @ - 1, !.read = Append(@, tok)]
    BY <1>6 DEF TakeStrength, IInv, NothingBack
  <2>2. /\ Comes' /\ tok = file[Taken + 1] /\ pushback' = <<>> /\ Len(raw') = Len(raw) - 1
        /\ Len(raw) <= Len(file)
    <3>1. pushback' = <<>>
      BY <2>1 DEF Pop, RestBack
    <3>2. /\ Comes' /\ Token = file[Taken - Len(pushback) + 1]
          /\ Len(raw') + Len(pushback') = Len(raw) + Len(pushback) - 1
      BY <2>1, PopComes, <1>0
    <3>3. raw' \in Seq(STRING)
      BY <2>1, PopKeeps
    <3> QED  BY <1>0, <2>1, <3>1, <3>2, <3>3 DEF Taken, Comes
  <2>3. /\ Len(carry'.read) = Len(carry.read) + 1 /\ carry'.read[Len(carry.read) + 1] = tok
        /\ \A i \in 1 .. Len(carry.read) : carry'.read[i] = carry.read[i]
    <3>1. carry'.read = Append(carry.read, tok)
      BY <2>1
    <3> QED  BY <1>0, <3>1
  <2>4. ReadBefore'
    <3> SUFFICES ASSUME NEW i \in 1 .. Len(carry.read) + 1
                 PROVE  carry'.read[i] = file[(Len(file) - Len(raw')) - (Len(carry.read) + 1) + i]
      <4>1. Len(carry.read) <= Taken
        BY <1>0, <2>1 DEF ReadBefore
      <4>2. Len(carry'.read) <= Len(file) - Len(raw') /\ file' = file
        BY <1>n, <2>1, <2>2, <2>3, <4>1
      <4>3. /\ Len(carry'.read) = Len(carry.read) + 1
            /\ \A i \in 1 .. Len(carry.read) + 1 :
                 carry'.read[i] = file[(Len(file) - Len(raw')) - (Len(carry.read) + 1) + i]
        BY <2>3
      <4> QED  BY <4>2, <4>3 DEF ReadBefore, Taken
    <3>1. (Len(file) - Len(raw')) - (Len(carry.read) + 1) + i = Taken - Len(carry.read) + i
      BY <1>0, <2>2 DEF Taken
    <3>2. CASE i = Len(carry.read) + 1
      <4>1. Taken - Len(carry.read) + i = Taken + 1
        BY <1>n, <3>2, ShiftOne, Zenon
      <4> QED  BY <2>2, <2>3, <3>1, <3>2, <4>1
    <3>3. CASE i \in 1 .. Len(carry.read)
      BY <1>0, <2>1, <2>3, <3>1, <3>3 DEF ReadBefore
    <3>4. \A c \in Nat : \A k \in 1 .. c + 1 : k = c + 1 \/ k \in 1 .. c
      OBVIOUS
    <3> QED  BY <1>n, <3>2, <3>3, <3>4
  <2> QED  BY <2>2, <2>4 DEF Placed
<1>7. CASE GiveUp
  <2>1. /\ mode = "value" /\ mode' = "top" /\ pushback = <<>> /\ UNCHANGED <<file, carry>>
    BY <1>7 DEF GiveUp, IInv, NothingBack
  <2>2. /\ Len(carry.read) <= Taken
        /\ \A i \in 1 .. Len(carry.read) : carry.read[i] = file[Taken - Len(carry.read) + i]
    BY <1>0, <2>1 DEF ReadBefore
  <2>3. CASE ~More
    <3>1. /\ raw = <<>> /\ raw' = raw
          /\ pushback' = [i \in 1 .. Len(carry.read) |-> carry.read[(Len(carry.read) - i) + 1]]
      BY <1>7, <2>3, <2>1 DEF GiveUp, More, Reverse
    <3>2. Len(pushback') = Len(carry.read)
      BY <3>1, <1>0
    <3>3. ASSUME NEW k \in 1 .. Len(carry.read) PROVE pushback'[k] = file[Taken - k + 1]
      <4>1. (Len(carry.read) - k) + 1 \in 1 .. Len(carry.read)
        BY <1>0
      <4>2. Taken - Len(carry.read) + ((Len(carry.read) - k) + 1) = Taken - k + 1
        <5>1. k \in Int
          OBVIOUS
        <5>2. Taken \in Int /\ Len(carry.read) \in Int
          BY <1>n
        <5> QED  BY <5>1, <5>2, ShiftBack, Zenon
      <4>3. pushback'[k] = carry.read[(Len(carry.read) - k) + 1]
        BY <3>1
      <4> QED  BY <2>2, <4>1, <4>2, <4>3
    <3> QED  BY <1>0, <2>1, <2>2, <3>1, <3>2, <3>3 DEF Placed, Comes, ReadBefore, Taken
  <2>4. CASE More
    <3> DEFINE whole == Append(carry.read, Token)
               n == Len(carry.read)
    <3>1. /\ raw # <<>> /\ raw' = Tail(raw) /\ Token = raw[1]
          /\ pushback' = <<>> \o Reverse(whole)
      BY <1>7, <2>1, <2>4, <1>0 DEF GiveUp, GiveBack, RestBack, RestRaw, More, Token
    <3>2. /\ Len(raw') = Len(raw) - 1 /\ Len(raw) >= 1
          /\ \A i \in 1 .. Len(raw') : raw'[i] = raw[i + 1]
      BY <1>0, <3>1, HeadTailProperties
    <3>3. Token = file[Taken + 1] /\ Token \in STRING
      <4>1. 1 \in 1 .. Len(raw)
        BY <1>0, <3>2
      <4> QED  BY <1>0, <3>1, <4>1 DEF Comes
    <3>4. /\ Len(whole) = n + 1 /\ whole[n + 1] = Token
          /\ \A i \in 1 .. n : whole[i] = carry.read[i]
      BY <1>0
    <3>5. ASSUME NEW i \in 1 .. n + 1 PROVE whole[i] = file[Taken - n + i]
      <4>1. CASE i = n + 1
        <5>1. Taken - n + (n + 1) = Taken + 1
          BY <1>n, ShiftOne, Zenon
        <5> QED  BY <3>3, <3>4, <4>1, <5>1
      <4>2. CASE i \in 1 .. n
        BY <2>2, <3>4, <4>2
      <4> QED  BY <1>0, <4>1, <4>2
    <3>6. /\ Reverse(whole) \in Seq(STRING)
          /\ Reverse(whole) = [i \in 1 .. Len(whole) |-> whole[(Len(whole) - i) + 1]]
      BY <1>0, <3>3, ReverseOnTop DEF Reverse
    <3>7. pushback' = Reverse(whole)
      BY <3>1, <3>6
    <3> HIDE DEF whole
    <3>8. Len(pushback') = n + 1
      BY <1>0, <3>4, <3>6, <3>7
    <3>9. ASSUME NEW k \in 1 .. n + 1
          PROVE  pushback'[k] = file[(Len(file) - Len(raw')) - k + 1]
      <4>1. (Len(whole) - k) + 1 \in 1 .. n + 1 /\ k \in 1 .. Len(whole)
        BY <1>0, <3>4
      <4>2. Taken - n + ((Len(whole) - k) + 1) = (Len(file) - Len(raw')) - k + 1
        <5>1. Len(whole) = n + 1 /\ Len(raw') = Len(raw) - 1
          BY <3>2, <3>4
        <5>2. k \in Int /\ n \in Int /\ Taken \in Int
          BY <1>n
        <5> HIDE DEF n
        <5>3. Taken - n + (((n + 1) - k) + 1) = (Taken + 1) - k + 1
          BY <5>2, ShiftBackOne
        <5>4. Len(file) - Len(raw') = Taken + 1
          BY <1>n, <5>1
        <5> QED  BY <5>1, <5>3, <5>4
      <4>3. pushback'[k] = whole[(Len(whole) - k) + 1]
        BY <3>6, <3>7, <4>1
      <4>4. whole[(Len(whole) - k) + 1] = file[Taken - n + ((Len(whole) - k) + 1)]
        BY <3>5, <4>1
      <4> QED  BY <4>2, <4>3, <4>4
    <3>10. ASSUME NEW i \in 1 .. Len(raw')
           PROVE  raw'[i] = file[(Len(file) - Len(raw')) + i]
      <4>1. i + 1 \in 1 .. Len(raw) /\ (Len(file) - Len(raw')) + i = Taken + (i + 1)
        BY <1>0, <3>2 DEF Taken
      <4>2. raw'[i] = raw[i + 1] /\ raw[i + 1] = file[Taken + (i + 1)]
        BY <1>0, <3>2, <4>1 DEF Comes
      <4> QED  BY <4>1, <4>2
    <3>11. Len(raw') + Len(pushback') <= Len(file)
      BY <1>0, <2>2, <3>2, <3>8 DEF Taken
    <3> QED
      BY <1>0, <2>1, <3>8, <3>9, <3>10, <3>11 DEF Placed, Comes, ReadBefore, Taken
  <2> QED  BY <2>3, <2>4
<1>8. CASE Finish \/ Abandon
  BY <1>0, <1>8 DEF Finish, Abandon, EndWalk, Placed, Comes, ReadBefore, Taken
<1>9. CASE UNCHANGED vars
  BY <1>0, <1>9 DEF vars, parse, Placed, Comes, ReadBefore, Taken
<1> QED
  BY <1>1, <1>3, <1>4, <1>5, <1>6, <1>7, <1>8, <1>9 DEF Next

\* A sequence whose elements are the last ones of another is its suffix.
LEMMA SuffixByPlace ==
  ASSUME NEW s \in Seq(STRING), NEW t \in Seq(STRING), Len(s) <= Len(t),
         \A i \in 1 .. Len(s) : s[i] = t[Len(t) - Len(s) + i]
  PROVE  IsSuffix(s, t)
<1> DEFINE rs == Reverse(s)
           rt == Reverse(t)
<1>1. /\ Len(s) \in Nat /\ Len(t) \in Nat
      /\ rs = [i \in 1 .. Len(s) |-> s[(Len(s) - i) + 1]]
      /\ rt = [i \in 1 .. Len(t) |-> t[(Len(t) - i) + 1]]
  BY DEF Reverse
<1>2. \A i \in 1 .. Len(s) : (Len(s) - i) + 1 \in 1 .. Len(s)
  BY <1>1
<1>3. \A i \in 1 .. Len(t) : (Len(t) - i) + 1 \in 1 .. Len(t)
  BY <1>1
<1>4. /\ \A i \in 1 .. Len(s) : s[(Len(s) - i) + 1] \in STRING
      /\ \A i \in 1 .. Len(t) : t[(Len(t) - i) + 1] \in STRING
  BY <1>2, <1>3
<1> HIDE DEF rs, rt
<1>5. rs \in Seq(STRING) /\ rt \in Seq(STRING) /\ Len(rs) = Len(s) /\ Len(rt) = Len(t)
  BY <1>1, <1>4
<1>6. ASSUME NEW i \in 1 .. Len(s) PROVE rs[i] = rt[i]
  <2>1. /\ (Len(s) - i) + 1 \in 1 .. Len(s) /\ i \in 1 .. Len(t)
        /\ Len(t) - Len(s) + ((Len(s) - i) + 1) = (Len(t) - i) + 1
    BY <1>1
  <2>2. rs[i] = s[(Len(s) - i) + 1] /\ rt[i] = t[(Len(t) - i) + 1]
    BY <1>1, <2>1
  <2> QED  BY <2>1, <2>2
<1> DEFINE n == Len(s)
           ps == SubSeq(rs, 1, n)
           pt == SubSeq(rt, 1, n)
<1>7. n \in Nat /\ 1 \in Int /\ n \in Int
      /\ (\A i \in 1 .. n : rs[i] \in STRING) /\ (\A i \in 1 .. n : rt[i] \in STRING)
  BY <1>1, <1>5
<1> HIDE DEF n
<1>8. /\ ps \in Seq(STRING) /\ pt \in Seq(STRING) /\ Len(ps) = Len(pt)
      /\ Len(ps) = IF 1 <= n THEN n - 1 + 1 ELSE 0
      /\ \A i \in 1 .. n - 1 + 1 : ps[i] = rs[1 + i - 1] /\ pt[i] = rt[1 + i - 1]
  BY <1>7, SubSeqProperties
<1> HIDE DEF ps, pt
<1>9. \A i \in 1 .. Len(ps) : ps[i] = pt[i]
  BY <1>6, <1>7, <1>8 DEF n
<1>10. ps = pt
  BY <1>8, <1>9, SeqEqual
<1> QED
  BY <1>5, <1>10 DEF IsSuffix, IsPrefix, n, ps, pt, rs, rt

\* _data_tokens, _push_back and _read_strength_token: for every file the tokens given back
\* and the tokens not yet read are the rest of the file; no malformed value change
\* reorders, drops or doubles what follows it.
THEOREM NothingOutOfOrder == Spec => []InFileOrder
<1>1. ASSUME IInv, Placed PROVE InFileOrder
  <2> SUFFICES ASSUME mode \in {"top", "value"}
               PROVE  IsSuffix((IF mode = "value" THEN carry.read ELSE <<>>)
                                 \o Reverse(pushback) \o raw, file)
    BY DEF InFileOrder
  <2> DEFINE kept == IF mode = "value" THEN carry.read ELSE <<>>
             back == Reverse(pushback)
             m == Len(kept)
             n == Len(pushback)
  <2>0. /\ file \in Seq(STRING) /\ raw \in Seq(STRING) /\ pushback \in Seq(STRING)
        /\ Len(file) \in Nat /\ Len(raw) \in Nat /\ n \in Nat
        /\ carry.read \in Seq(Strengths)
    BY <1>1 DEF IInv, Texts
  <2>1. kept \in Seq(STRING) /\ m \in Nat
    <3>1. Strengths \subseteq STRING
      BY TokenAssumption
    <3>2. carry.read \in Seq(STRING)
      BY <2>0, <3>1, SeqMonotonic
    <3>3. <<>> \in Seq(STRING)
      BY EmptySeq
    <3>4. kept \in Seq(STRING)
      BY <3>2, <3>3
    <3> HIDE DEF kept
    <3> QED  BY <3>4
  <2>2. back = [i \in 1 .. n |-> pushback[(n - i) + 1]]
    BY DEF Reverse
  <2>3. \A i \in 1 .. n : (n - i) + 1 \in 1 .. n
    BY <2>0
  <2>4. back \in Seq(STRING) /\ Len(back) = n
    <3>1. \A i \in 1 .. n : pushback[(n - i) + 1] \in STRING
      BY <2>0, <2>3
    <3> HIDE DEF back, n
    <3> QED  BY <2>0, <2>2, <3>1
  <2>5. ASSUME NEW i \in 1 .. n PROVE back[i] = file[Taken - n + i]
    <3>1. (n - i) + 1 \in 1 .. n /\ Taken - ((n - i) + 1) + 1 = Taken - n + i
      BY <2>0 DEF Taken
    <3>2. pushback[(n - i) + 1] = file[Taken - ((n - i) + 1) + 1]
      BY <1>1, <3>1 DEF Placed, Comes
    <3> QED  BY <2>2, <3>1, <3>2
  <2>n. Taken \in Int /\ Taken = Len(file) - Len(raw)
    BY <2>0 DEF Taken
  <2>6. ASSUME NEW i \in 1 .. m PROVE kept[i] = file[Taken - n - m + i] /\ n = 0 /\ m <= Taken
    <3>1. CASE mode = "value"
      <4>1. n = 0 /\ kept = carry.read
        BY <1>1, <3>1 DEF IInv, NothingBack
      <4>2. Len(kept) <= Taken /\ kept[i] = file[Taken - Len(kept) + i]
        BY <1>1, <3>1, <4>1 DEF Placed, ReadBefore
      <4> HIDE DEF kept, n
      <4>3. Taken - n - m + i = Taken - Len(kept) + i
        BY <2>n, <2>1, <4>1
      <4> QED  BY <4>1, <4>2, <4>3
    <3>2. CASE mode # "value"
      <4>1. m = 0
        BY <3>2
      <4> QED  BY <4>1
    <3> QED  BY <3>1, <3>2
  <2>7. Len(raw) + n <= Len(file) /\ (\A i \in 1 .. Len(raw) : raw[i] = file[Taken + i])
    BY <1>1 DEF Placed, Comes
  <2> HIDE DEF kept, back, n
  <2> DEFINE both == kept \o back
  <2>8. /\ both \in Seq(STRING) /\ Len(both) = m + n
        /\ \A i \in 1 .. m + n : both[i] = IF i <= m THEN kept[i] ELSE back[i - m]
    BY <2>1, <2>4, ConcatProperties
  <2> HIDE DEF both
  <2> DEFINE all == both \o raw
  <2>9. /\ all \in Seq(STRING) /\ Len(all) = m + n + Len(raw)
        /\ \A i \in 1 .. m + n + Len(raw) :
             all[i] = IF i <= m + n THEN both[i] ELSE raw[i - (m + n)]
    <3> HIDE DEF m
    <3>1. Len(both) \in Nat /\ both \in Seq(STRING) /\ raw \in Seq(STRING)
      BY <2>0, <2>8
    <3>2. /\ all \in Seq(STRING) /\ Len(all) = Len(both) + Len(raw)
          /\ \A i \in 1 .. Len(both) + Len(raw) :
               all[i] = IF i <= Len(both) THEN both[i] ELSE raw[i - Len(both)]
      BY <3>1, ConcatProperties
    <3> HIDE DEF all
    <3> QED  BY <2>8, <3>2
  <2> HIDE DEF all, m
  <2>10. Len(all) <= Len(file)
    <3>1. CASE m = 0
      BY <2>0, <2>7, <2>9, <3>1
    <3>2. CASE m # 0
      <4>1. 1 \in 1 .. m
        BY <2>1, <3>2
      <4> QED  BY <2>0, <2>1, <2>6, <2>7, <2>9, <4>1 DEF Taken
    <3> QED  BY <3>1, <3>2
  <2>11. ASSUME NEW i \in 1 .. Len(all) PROVE all[i] = file[Len(file) - Len(all) + i]
    <3>0. Len(file) - Len(all) + i = Taken - n - m + i
      BY <2>0, <2>1, <2>9 DEF Taken
    <3>n. m \in Nat /\ n \in Nat /\ Len(raw) \in Nat
      BY <2>0, <2>1
    <3>1. CASE i \in 1 .. m
      <4>1. i \in 1 .. m + n /\ i <= m + n /\ i <= m
        BY <3>n, <3>1
      <4>2. all[i] = kept[i]
        BY <2>8, <2>9, <4>1
      <4> QED  BY <2>6, <3>0, <3>1, <4>2
    <3>2. CASE i \in m + 1 .. m + n
      <4>1. i - m \in 1 .. n /\ Taken - n + (i - m) = Taken - n - m + i
        BY <2>0, <2>1, <3>2 DEF Taken
      <4>2. all[i] = back[i - m]
        <5>1. i \in 1 .. m + n /\ i \in 1 .. m + n + Len(raw) /\ i <= m + n /\ ~ (i <= m)
          BY <3>n, <3>2
        <5> QED  BY <2>8, <2>9, <5>1
      <4> QED  BY <2>5, <3>0, <4>1, <4>2
    <3>3. CASE i \in m + n + 1 .. m + n + Len(raw)
      <4>1. /\ i - (m + n) \in 1 .. Len(raw)
            /\ Taken + (i - (m + n)) = Taken - n - m + i
        BY <2>0, <2>1, <3>3 DEF Taken
      <4>2. all[i] = raw[i - (m + n)]
        BY <2>0, <2>1, <2>9, <3>3
      <4> QED  BY <2>7, <3>0, <4>1, <4>2
    <3> QED  BY <2>0, <2>1, <2>9, <3>1, <3>2, <3>3
  <2>12. IsSuffix(all, file)
    BY <2>0, <2>9, <2>10, <2>11, SuffixByPlace
  <2> QED  BY <2>12 DEF all, both, kept, back
<1>2. Init => IInv /\ Placed
  BY WalkInit, PlacedInit
<1>3. IInv /\ Placed /\ [Next]_vars => (IInv /\ Placed)'
  BY WalkNext, PlacedNext
<1>4. IInv /\ Placed => InFileOrder
  BY <1>1
<1> QED  BY <1>2, <1>3, <1>4, PTL DEF Spec

\* iter_events and scan_time_range skip the body of a section straight from the
\* file; for every file, walk and parser nothing that was given back is passed over.
THEOREM SectionsSkipOnlyThemselves == Spec => []SkipsItsOwnBody
<1>1. IInv => SkipsItsOwnBody
  BY DEF IInv, NothingBack, SkipsItsOwnBody
<1> QED  BY <1>1, WalkInit, WalkNext, PTL DEF Spec

-----------------------------------------------------------------------------
(* A dictionary in insertion order has every key once.                      *)

\* "x" is a string too, which the provers do not know.
Letter == STRING \union {"x"}
Value == Seq(Letter)

Item == [sid : STRING, value : Value]

KeysOnce(dict) == \A i, j \in 1 .. Len(dict) : dict[i].sid = dict[j].sid => i = j

Dict == {dict \in Seq(Item) : KeysOnce(dict)}

\* Setting a key keeps every key once.
LEMMA PutDict ==
  ASSUME NEW dict \in Dict, NEW sid \in STRING, NEW value \in Value
  PROVE  Put(dict, sid, value) \in Dict
<1> DEFINE item == [sid |-> sid, value |-> value]
<1>1. dict \in Seq(Item) /\ Len(dict) \in Nat /\ item \in Item /\ KeysOnce(dict)
      /\ DOMAIN dict = 1 .. Len(dict)
  BY DEF Dict, Item
<1>2. CASE \E i \in DOMAIN dict : dict[i].sid = sid
  <2> DEFINE new == [i \in DOMAIN dict |-> IF dict[i].sid = sid THEN item ELSE dict[i]]
  <2>1. Put(dict, sid, value) = new
    BY <1>2 DEF Put
  <2>2. \A i \in 1 .. Len(dict) : new[i] \in Item
    BY <1>1
  <2>3. new \in Seq(Item) /\ Len(new) = Len(dict)
    <3> HIDE DEF item
    <3> QED  BY <1>1, <2>2
  <2>4. \A i \in 1 .. Len(dict) : new[i].sid = dict[i].sid
    BY <1>1
  <2> HIDE DEF new
  <2> QED  BY <1>1, <2>1, <2>3, <2>4 DEF Dict, KeysOnce
<1>3. CASE ~ \E i \in DOMAIN dict : dict[i].sid = sid
  <2> DEFINE new == Append(dict, item)
  <2>1. Put(dict, sid, value) = new
    BY <1>3 DEF Put
  <2>2. item.sid = sid
    OBVIOUS
  <2> HIDE DEF item
  <2>3. /\ new \in Seq(Item) /\ Len(new) = Len(dict) + 1 /\ new[Len(dict) + 1] = item
        /\ \A i \in 1 .. Len(dict) : new[i] = dict[i]
    BY <1>1
  <2> HIDE DEF new
  <2>4. \A i \in 1 .. Len(dict) : new[i].sid # sid /\ new[i].sid = dict[i].sid
    BY <1>1, <1>3, <2>3
  <2>5. KeysOnce(new)
    <3> SUFFICES ASSUME NEW i \in 1 .. Len(dict) + 1, NEW j \in 1 .. Len(dict) + 1,
                        new[i].sid = new[j].sid
                 PROVE  i = j
      BY <2>3 DEF KeysOnce
    <3>1. /\ i \in 1 .. Len(dict) \/ i = Len(dict) + 1
          /\ j \in 1 .. Len(dict) \/ j = Len(dict) + 1
      BY <1>1
    <3>2. new[Len(dict) + 1].sid = sid
      BY <2>2, <2>3
    <3> QED  BY <1>1, <2>4, <3>1, <3>2 DEF KeysOnce
  <2> QED  BY <2>1, <2>3, <2>5 DEF Dict
<1> QED  BY <1>2, <1>3

\* The dictionaries that setting several keys goes through.
LEMMA PutAllRuns ==
  ASSUME NEW dict \in Dict, NEW refs, Len(refs) \in Nat, NEW values,
         \A n \in 1 .. Len(refs) : refs[n][1] \in STRING,
         \A g \in DOMAIN values : values[g] \in Value
  PROVE  \E put : /\ PutAll(dict, refs, values) = put[Len(refs)]
                  /\ put[0] = dict /\ \A n \in 0 .. Len(refs) : put[n] \in Dict
                  /\ \A n \in 1 .. Len(refs) :
                       put[n] = IF refs[n][1] \in DOMAIN values
                                THEN Put(put[n - 1], refs[n][1], values[refs[n][1]])
                                ELSE put[n - 1]
<1> DEFINE N == Len(refs)
           Set(d, n) == IF refs[n][1] \in DOMAIN values
                        THEN Put(d, refs[n][1], values[refs[n][1]]) ELSE d
           Equation(f) == f = [n \in 0 .. N |-> IF n = 0 THEN dict ELSE Set(f[n - 1], n)]
           step == [n \in 1 .. N |-> [d \in Dict |-> Set(d, n)]]
           put == CHOOSE f : Equation(f)
<1>1. ASSUME NEW d \in Dict, NEW n \in 1 .. N PROVE Set(d, n) \in Dict
  BY <1>1, PutDict
<1>2. PutAll(dict, refs, values) = put[N]
  BY DEF PutAll
<1> HIDE DEF Set
<1>3. /\ step \in [1 .. N -> [Dict -> Dict]]
      /\ \A n \in 1 .. N : \A d \in Dict : step[n][d] = Set(d, n)
  BY <1>1
<1> HIDE DEF step
<1>4. PICK f \in [0 .. N -> Dict] : f[0] = dict /\ \A n \in 1 .. N : f[n] = step[n][f[n - 1]]
  <2>1. N \in Nat
    OBVIOUS
  <2> HIDE DEF N
  <2> QED  BY <1>3, <2>1, Iteration
<1>5. Equation(f)
  <2>1. \A n \in 1 .. N : n - 1 \in 0 .. N /\ f[n] = Set(f[n - 1], n)
    BY <1>3, <1>4
  <2> QED  BY <1>4, <2>1
<1>6. Equation(put)
  BY <1>5
<1> HIDE DEF put
<1>7. put[0] = dict /\ \A n \in 1 .. N : put[n] = Set(put[n - 1], n)
  BY <1>6
<1>8. \A n \in 0 .. N : put[n] \in Dict
  BY <1>1, <1>7, IterationStays
<1> QED  BY <1>2, <1>7, <1>8 DEF Set

\* Setting several keys, one after the other, keeps every key once too.
LEMMA PutAllDict ==
  ASSUME NEW dict \in Dict, NEW refs, Len(refs) \in Nat, NEW values,
         \A n \in 1 .. Len(refs) : refs[n][1] \in STRING,
         \A g \in DOMAIN values : values[g] \in Value
  PROVE  PutAll(dict, refs, values) \in Dict
<1>1. PICK put : /\ PutAll(dict, refs, values) = put[Len(refs)]
                 /\ \A n \in 0 .. Len(refs) : put[n] \in Dict
  BY PutAllRuns
<1> QED  BY <1>1

-----------------------------------------------------------------------------
(* The invariant.                                                           *)

Event == [at : Nat, sid : STRING, value : Value]

EventsTyped ==
  /\ pending \in Dict /\ out \in Seq(Event) /\ now \in Nat
  /\ carry.value \in Value /\ (\A g \in DOMAIN bits : bits[g] \in Value)
  /\ done \in Seq(ToSet(done))

\* How many tokens of the file the walk has left behind.
Here == Taken - Len(pushback) - Kept

\* The time of the walk is that of a timestamp it has passed.
NowReached ==
  now = 0 \/ \E p \in 1 .. Here : file[p] \in DOMAIN Stamp /\ Stamp[file[p]] = now

\* An event is older than the time of the walk, but for the start.
OutBefore == \A i \in 1 .. Len(out) : out[i].at < now \/ (out[i].at = 0 /\ now = 0)

DoneForward == \A k \in DOMAIN done : GoForward(done[k].out)

EventInv == EventsTyped /\ NowReached /\ (Forward => OutBefore /\ GoForward(out) /\ DoneForward)

-----------------------------------------------------------------------------
LEMMA ReverseText ==
  ASSUME NEW t \in Value
  PROVE  Reverse(t) \in Value
<1>1. t \in Seq(Letter) /\ Len(t) \in Nat /\ Reverse(t) = [i \in 1 .. Len(t) |-> t[(Len(t) - i) + 1]]
  BY DEF Value, Reverse
<1>2. \A i \in 1 .. Len(t) : (Len(t) - i) + 1 \in 1 .. Len(t)
  BY <1>1
<1>3. \A i \in 1 .. Len(t) : t[(Len(t) - i) + 1] \in Letter
  BY <1>1, <1>2
<1> QED  BY <1>1, <1>3 DEF Value

LEMMA ManyX ==
  ASSUME NEW n \in Nat
  PROVE  [i \in 1 .. n |-> "x"] \in Value
<1> DEFINE f == [i \in 1 .. n |-> "x"]
<1>1. f = [i \in 1 .. n |-> f[i]] /\ \A i \in 1 .. n : f[i] \in Letter
  BY DEF Letter
<1> HIDE DEF f
<1>2. f \in Value
  BY <1>1 DEF Value
<1> QED  BY <1>2 DEF f

\* The bits that an identifier drives are bits of signals.
LEMMA RefsTyped ==
  ASSUME NEW sym
  PROVE  Len(Refs(sym)) \in Nat /\ \A n \in 1 .. Len(Refs(sym)) : Refs(sym)[n][1] \in STRING
<1>1. Refs(sym) \in Seq((DOMAIN Width) \X Nat)
  BY SignalAssumption DEF Refs
<1>2. ASSUME NEW n \in 1 .. Len(Refs(sym)) PROVE Refs(sym)[n][1] \in STRING
  <2>1. Refs(sym)[n] \in (DOMAIN Width) \X Nat
    BY <1>1
  <2> QED  BY <2>1, SignalAssumption
<1> QED  BY <1>1, <1>2

LEMMA BusesAreSignals == Buses \subseteq DOMAIN Width
<1> SUFFICES ASSUME NEW s \in DOMAIN BitMap, NEW i \in DOMAIN BitMap[s]
             PROVE  BitMap[s][i][1] \in DOMAIN Width
  BY DEF Buses
<1>1. BitMap[s] \in Seq((DOMAIN Width) \X Nat)
  BY SignalAssumption
<1>2. BitMap[s][i] \in (DOMAIN Width) \X Nat
  BY <1>1
<1> QED  BY <1>2

\* A value change sets keys of the dictionary and emits nothing.
LEMMA ChangeTyped ==
  ASSUME EventsTyped, NEW sym \in STRING, NEW value \in Value, Change(sym, value)
  PROVE  /\ pending' \in Dict /\ (\A g \in DOMAIN bits' : bits'[g] \in Value)
         /\ now' = now /\ out' = out
<1>1. CASE walk.kind = "scan"
  BY <1>1 DEF Change, EventsTyped
<1>2. CASE walk.kind # "scan"
  <2>1. /\ bits' = Drive(sym, value) /\ now' = now /\ out' = out
        /\ pending' = IF now < walk.t0 THEN pending
                      ELSE IF Standalone(sym) THEN Put(PutBuses(sym), sym, Clamp(sym, value))
                           ELSE PutBuses(sym)
    BY <1>2 DEF Change
  <2>2. BitOf(value) \in Letter
    <3>1. CASE IsBits(value) /\ Len(value) = 1
      <4>1. value \in Seq(Letter) /\ 1 \in 1 .. Len(value)
        BY <3>1 DEF Value
      <4>2. value[1] \in Letter
        BY <4>1, ElementOfSeq
      <4> QED  BY <3>1, <4>2 DEF BitOf
    <3>2. CASE ~ (IsBits(value) /\ Len(value) = 1)
      BY <3>2 DEF BitOf, Letter
    <3> QED  BY <3>1, <3>2
  <2>3. DOMAIN bits' = DOMAIN bits
    BY <2>1 DEF Drive
  <2>4. ASSUME NEW g \in DOMAIN bits PROVE bits'[g] \in Value
    <3>1. bits[g] \in Seq(Letter) /\ Len(bits[g]) \in Nat /\ DOMAIN bits[g] = 1 .. Len(bits[g])
      BY DEF EventsTyped, Value
    <3>2. bits'[g] = [i \in 1 .. Len(bits[g]) |->
                        IF <<g, i - 1>> \in ToSet(Refs(sym)) THEN BitOf(value) ELSE bits[g][i]]
      BY <2>1, <3>1 DEF Drive
    <3>3. \A i \in 1 .. Len(bits[g]) :
            (IF <<g, i - 1>> \in ToSet(Refs(sym)) THEN BitOf(value) ELSE bits[g][i]) \in Letter
      <4>1. \A i \in 1 .. Len(bits[g]) : bits[g][i] \in Letter
        BY <3>1, ElementOfSeq
      <4> QED  BY <2>2, <4>1
    <3> DEFINE n == Len(bits[g])
               b == bits'[g]
    <3>4. \A i \in 1 .. n : b[i] \in Letter
      BY <3>2, <3>3
    <3>5. n \in Nat /\ b = [i \in 1 .. n |-> b[i]]
      BY <3>1, <3>2
    <3> HIDE DEF n, b
    <3>6. b \in Seq(Letter)
      BY <3>4, <3>5
    <3> QED  BY <3>6 DEF Value, b
  <2>5. PutBuses(sym) \in Dict
    <3> DEFINE values == [g \in DOMAIN bits |-> Reverse(bits'[g])]
    <3>1. \A g \in DOMAIN values : values[g] \in Value
      BY <2>4, ReverseText
    <3>2. PutBuses(sym) = PutAll(pending, Refs(sym), values)
      BY DEF PutBuses
    <3> HIDE DEF values
    <3> QED  BY <3>1, <3>2, RefsTyped, PutAllDict DEF EventsTyped
  <2>6. ASSUME Standalone(sym) PROVE Clamp(sym, value) \in Value
    <3>1. Width[sym] \in Nat
      BY <2>6, SignalAssumption DEF Standalone
    <3> QED  BY <3>1, ManyX DEF Clamp
  <2>7. pending' \in Dict
    BY <2>1, <2>5, <2>6, PutDict DEF EventsTyped
  <2> QED  BY <2>1, <2>3, <2>4, <2>7
<1> QED  BY <1>1, <1>2

\* What is flushed at the end of a time is not younger than it.
LEMMA FlushedForward ==
  ASSUME EventsTyped
  PROVE  /\ Flushed \in Seq(Event)
         /\ OutBefore /\ GoForward(out) =>
              GoForward(Flushed) /\ \A i \in 1 .. Len(Flushed) : Flushed[i].at <= now
<1>0. out \in Seq(Event) /\ Len(out) \in Nat /\ now \in Nat /\ DOMAIN out = 1 .. Len(out)
      /\ \A i \in 1 .. Len(out) : out[i] \in Event /\ out[i].at \in Nat
  <2>1. out \in Seq(Event) /\ now \in Nat
    BY DEF EventsTyped
  <2>2. Len(out) \in Nat /\ DOMAIN out = 1 .. Len(out) /\ \A i \in 1 .. Len(out) : out[i] \in Event
    BY <2>1, LenProperties, ElementOfSeq
  <2>3. \A e \in Event : e.at \in Nat
    BY DEF Event
  <2> QED  BY <2>1, <2>2, <2>3
<1>1. CASE now < walk.t0
  <2>1. Flushed = out
    BY <1>1 DEF Flushed
  <2> QED  BY <1>0, <2>1 DEF OutBefore
<1>2. CASE ~ (now < walk.t0)
  <2> DEFINE new == [i \in DOMAIN pending |->
                       [at |-> now, sid |-> pending[i].sid, value |-> pending[i].value]]
             both == out \o new
             m == Len(out)
             n == Len(pending)
  <2>1. pending \in Seq(Item) /\ n \in Nat /\ DOMAIN pending = 1 .. n
        /\ \A i \in 1 .. n : pending[i] \in Item
    BY DEF EventsTyped, Dict
  <2>2. \A i \in 1 .. n : /\ new[i] = [at |-> now, sid |-> pending[i].sid, value |-> pending[i].value]
                          /\ new[i] \in Event
    BY <1>0, <2>1 DEF Item, Event
  <2>3. new \in Seq(Event) /\ Len(new) = n
    <3>1. new = [i \in 1 .. n |-> new[i]]
      BY <2>1
    <3> HIDE DEF new, n
    <3> QED  BY <2>1, <2>2, <3>1
  <2>4. \A i \in 1 .. n : new[i].at = now /\ new[i].sid = pending[i].sid
    BY <2>2
  <2>5. Flushed = both
    BY <1>2 DEF Flushed
  <2> HIDE DEF new
  <2>6. /\ both \in Seq(Event) /\ Len(both) = m + n
        /\ \A i \in 1 .. m + n : both[i] = IF i <= m THEN out[i] ELSE new[i - m]
    <3>1. /\ both \in Seq(Event) /\ Len(both) = Len(out) + Len(new)
          /\ \A i \in 1 .. Len(out) + Len(new) :
               both[i] = IF i <= Len(out) THEN out[i] ELSE new[i - Len(out)]
      BY <1>0, <2>3, ConcatProperties
    <3> HIDE DEF both
    <3> QED  BY <2>3, <3>1
  <2> HIDE DEF both
  <2>7. ASSUME OutBefore, GoForward(out)
        PROVE  GoForward(both) /\ \A i \in 1 .. m + n : both[i].at <= now
    <3> HIDE DEF n
    <3>1. ASSUME NEW i \in 1 .. m
          PROVE  /\ both[i] = out[i] /\ both[i].at <= now
                 /\ both[i].at < now \/ (both[i].at = 0 /\ now = 0)
      <4>1. both[i] = out[i]
        BY <1>0, <2>1, <2>6
      <4>2. out[i].at < now \/ (out[i].at = 0 /\ now = 0)
        BY <2>7 DEF OutBefore
      <4> QED  BY <1>0, <4>1, <4>2
    <3>2. ASSUME NEW i \in m + 1 .. m + n
          PROVE  /\ i - m \in 1 .. n
                 /\ both[i].at = now /\ both[i].sid = pending[i - m].sid
      <4>1. i - m \in 1 .. n /\ i \in 1 .. m + n /\ ~ (i <= m)
        BY <1>0, <2>1
      <4> QED  BY <2>4, <2>6, <4>1
    <3>3. \A i \in 1 .. m + n : i \in 1 .. m \/ i \in m + 1 .. m + n
      BY <1>0, <2>1
    <3>4. ASSUME NEW i \in 1 .. m + n, NEW j \in 1 .. m + n, i < j, both[i].sid = both[j].sid
          PROVE  both[i].at < both[j].at \/ (both[i].at = 0 /\ both[j].at = 0)
      <4>1. CASE i \in 1 .. m /\ j \in 1 .. m
        BY <1>0, <2>7, <3>1, <3>4, <4>1 DEF GoForward
      <4>2. CASE i \in 1 .. m /\ j \in m + 1 .. m + n
        BY <3>1, <3>2, <4>2
      <4>3. CASE i \in m + 1 .. m + n /\ j \in m + 1 .. m + n
        <5>1. i - m \in 1 .. n /\ j - m \in 1 .. n /\ pending[i - m].sid = pending[j - m].sid
          BY <3>2, <3>4, <4>3
        <5>2. KeysOnce(pending)
          BY DEF EventsTyped, Dict
        <5>3. i - m = j - m
          BY <5>1, <5>2 DEF KeysOnce, n
        <5> QED  BY <1>0, <3>4, <5>3
      <4>4. ~ (i \in m + 1 .. m + n /\ j \in 1 .. m)
        BY <1>0, <2>1, <3>4
      <4> QED  BY <3>3, <4>1, <4>2, <4>3, <4>4
    <3>5. DOMAIN both = 1 .. m + n
      BY <2>6
    <3>6. \A i \in 1 .. m + n : both[i].at <= now
      BY <1>0, <3>1, <3>2, <3>3
    <3> QED  BY <3>4, <3>5, <3>6 DEF GoForward
  <2> QED  BY <2>5, <2>6, <2>7
<1> QED  BY <1>1, <1>2

\* A walk that ends is added to those that did.
LEMMA DoneGrows ==
  ASSUME EventsTyped, NEW r, done' = Append(done, r)
  PROVE  /\ done' \in Seq(ToSet(done'))
         /\ DoneForward /\ GoForward(r.out) => DoneForward'
<1> DEFINE S == ToSet(done) \union {r}
           n == Len(done)
<1>1. done \in Seq(S) /\ r \in S /\ n \in Nat /\ DOMAIN done = 1 .. n
  BY DEF EventsTyped
<1> HIDE DEF S
<1>2. /\ done' \in Seq(S) /\ Len(done') = n + 1 /\ done'[n + 1] = r
      /\ \A k \in 1 .. n : done'[k] = done[k]
  BY <1>1
<1>3. DOMAIN done' = 1 .. n + 1 /\ \A k \in 1 .. n + 1 : done'[k] \in ToSet(done')
  BY <1>2 DEF ToSet
<1>4. done' \in Seq(ToSet(done'))
  BY <1>1, <1>2, <1>3
<1>5. ASSUME DoneForward, GoForward(r.out) PROVE DoneForward'
  <2> SUFFICES ASSUME NEW k \in 1 .. n + 1 PROVE GoForward(done'[k].out)
    BY <1>3 DEF DoneForward
  <2>1. k \in 1 .. n \/ k = n + 1
    BY <1>1
  <2> QED  BY <1>1, <1>2, <1>5, <2>1 DEF DoneForward
<1> QED  BY <1>4, <1>5

\* The time of the walk stays one that it has passed.
LEMMA NowKept ==
  ASSUME NowReached, Here \in Int, Here' \in Int, Here' >= Here, file' = file, now' = now
  PROVE  NowReached'
<1>1. \A p \in 1 .. Here : p \in 1 .. Here'
  OBVIOUS
<1> QED  BY <1>1 DEF NowReached

-----------------------------------------------------------------------------
LEMMA EventInit == Init => EventInv
<1> SUFFICES ASSUME Init PROVE EventInv
  OBVIOUS
<1>1. /\ pending = <<>> /\ out = <<>> /\ done = <<>> /\ now = 0 /\ carry.value = <<>>
      /\ DOMAIN bits = {}
  BY DEF Init
<1>2. <<>> \in Dict /\ <<>> \in Seq(Event) /\ <<>> \in Value
  BY DEF Dict, KeysOnce, Value
<1>3. <<>> \in Seq(ToSet(<<>>))
  OBVIOUS
<1> QED
  BY <1>1, <1>2, <1>3 DEF EventInv, EventsTyped, NowReached, OutBefore, GoForward, DoneForward

\* A step that emits nothing and sets nothing but keys.
LEMMA QuietStep ==
  ASSUME EventInv, file' = file, now' = now, out' = out,
         pending' \in Dict, carry'.value \in Value, \A g \in DOMAIN bits' : bits'[g] \in Value,
         Here \in Int, Here' \in Int, Here' >= Here,
         \/ done' = done
         \/ \E r : done' = Append(done, r) /\ (r.out = out \/ r.out = Flushed)
  PROVE  EventInv'
<1>1. NowReached'
  BY NowKept DEF EventInv
<1>2. Forward' = Forward
  BY DEF Forward
<1>3. (OutBefore /\ GoForward(out)) => (OutBefore /\ GoForward(out))'
  BY DEF OutBefore, GoForward
<1>4. out' \in Seq(Event) /\ now' \in Nat
  BY DEF EventInv, EventsTyped
<1>5. CASE done' = done
  <2>1. done' \in Seq(ToSet(done'))
    BY <1>5 DEF EventInv, EventsTyped
  <2>2. DoneForward => DoneForward'
    BY <1>5 DEF DoneForward
  <2> QED  BY <1>1, <1>2, <1>3, <1>4, <2>1, <2>2 DEF EventInv, EventsTyped
<1>6. CASE \E r : done' = Append(done, r) /\ (r.out = out \/ r.out = Flushed)
  <2>1. PICK r : done' = Append(done, r) /\ (r.out = out \/ r.out = Flushed)
    BY <1>6
  <2>2. /\ done' \in Seq(ToSet(done'))
        /\ DoneForward /\ GoForward(r.out) => DoneForward'
    BY <2>1, DoneGrows DEF EventInv
  <2>3. OutBefore /\ GoForward(out) => GoForward(r.out)
    BY <2>1, FlushedForward DEF EventInv
  <2> QED  BY <1>1, <1>2, <1>3, <1>4, <2>2, <2>3 DEF EventInv, EventsTyped
<1> QED  BY <1>5, <1>6

LEMMA PlacesTyped ==
  ASSUME IInv
  PROVE  /\ Len(file) \in Nat /\ Len(raw) \in Nat /\ Len(pushback) \in Nat
         /\ Len(carry.read) \in Nat /\ Kept \in Nat /\ Here \in Int
<1>1. /\ file \in Seq(STRING) /\ raw \in Seq(STRING) /\ pushback \in Seq(STRING)
      /\ carry.read \in Seq(Strengths)
  BY DEF IInv, Texts
<1>2. /\ Len(file) \in Nat /\ Len(raw) \in Nat /\ Len(pushback) \in Nat
      /\ Len(carry.read) \in Nat
  BY <1>1, LenProperties
<1>3. Kept \in Nat
  BY <1>2 DEF Kept
<1> QED  BY <1>2, <1>3 DEF Here, Taken

\* Taking a token the walk moves on by one; what a value change has read is then behind it.
LEMMA PopMoves ==
  ASSUME IInv, Placed, More, Pop, file' = file, mode' # "value", IInv'
  PROVE  Here' = Here + Kept + 1 /\ (mode # "value" => Token = file[Here'])
<1>1. /\ Len(raw') + Len(pushback') = Len(raw) + Len(pushback) - 1
      /\ Token = file[Taken - Len(pushback) + 1]
  BY PopComes DEF Placed
<1>2. Kept' = 0 /\ (mode # "value" => Kept = 0)
  BY DEF Kept
<1>3. /\ Len(file) \in Nat /\ Len(raw) \in Nat /\ Len(pushback) \in Nat /\ Kept \in Nat
      /\ Len(raw') \in Nat /\ Len(pushback') \in Nat
  BY PlacesTyped
<1>4. Here = Len(file) - Len(raw) - Len(pushback) - Kept
  BY DEF Here, Taken
<1>5. Here' = Len(file) - Len(raw') - Len(pushback')
  BY <1>2, <1>3 DEF Here, Taken
<1>6. Here' = Here + Kept + 1
  <2> DEFINE f == Len(file)
             a == Len(raw)
             b == Len(pushback)
             c == Len(raw')
             d == Len(pushback')
  <2>1. /\ f \in Nat /\ a \in Nat /\ b \in Nat /\ c \in Nat /\ d \in Nat
        /\ c + d = a + b - 1 /\ Here = f - a - b - Kept /\ Here' = f - c - d
    BY <1>1, <1>3, <1>4, <1>5
  <2> HIDE DEF f, a, b, c, d
  <2> QED  BY <2>1, <1>3
<1>7. mode # "value" => Taken - Len(pushback) + 1 = Here + 1
  BY <1>2, <1>3, <1>4 DEF Taken
<1> QED  BY <1>1, <1>2, <1>3, <1>4, <1>6, <1>7

\* No other step of a walk moves it back.
LEMMA NeverBack ==
  ASSUME IInv, Placed, IInv',
         \/ SkipSection \/ GiveUp \/ Finish \/ Abandon \/ UNCHANGED vars
         \/ \E tok \in ToSet(file) : BeginValue(tok) \/ TakeStrength(tok)
  PROVE  Here' >= Here
<1> DEFINE f == Len(file)
           a == Len(raw)
           b == Len(pushback)
           c == Len(raw')
           d == Len(pushback')
           r == Len(carry.read)
<1>0. /\ f \in Nat /\ a \in Nat /\ b \in Nat /\ c \in Nat /\ d \in Nat /\ r \in Nat
      /\ Kept \in Nat /\ Kept' \in Nat
  <2>1. /\ raw' \in Seq(STRING) /\ pushback' \in Seq(STRING) /\ carry'.read \in Seq(Strengths)
    BY DEF IInv, Texts
  <2>2. c \in Nat /\ d \in Nat /\ Len(carry'.read) \in Nat
    BY <2>1, LenProperties
  <2>3. Kept' \in Nat
    BY <2>2 DEF Kept
  <2> QED  BY <2>2, <2>3, PlacesTyped
<1>1. file' = file
  BY DEF SkipSection, GiveUp, Finish, Abandon, BeginValue, TakeStrength, vars
<1>2. Here = f - a - b - Kept /\ Here' = f - c - d - Kept'
  BY <1>1 DEF Here, Taken
<1>3. SUFFICES c + d + Kept' <= a + b + Kept
  <2> DEFINE k == Kept
             l == Kept'
  <2>1. /\ k \in Nat /\ l \in Nat /\ f \in Nat /\ a \in Nat /\ b \in Nat /\ c \in Nat /\ d \in Nat
        /\ c + d + l <= a + b + k
    BY <1>0, <1>3
  <2> HIDE DEF f, a, b, c, d, r, k, l
  <2>2. f - c - d - l >= f - a - b - k
    BY <2>1
  <2> QED  BY <1>2, <2>2 DEF k, l
<1>4. CASE SkipSection
  <2>1. pushback' = pushback /\ mode # "value" /\ mode' # "value"
    BY <1>4 DEF SkipSection
  <2>2. raw' = raw \/ (raw # <<>> /\ raw' = Tail(raw))
    BY <1>4 DEF SkipSection
  <2>3. c <= a
    <3>1. raw \in Seq(STRING)
      BY DEF IInv, Texts
    <3>2. CASE raw' = raw
      BY <1>0, <3>2
    <3>3. CASE raw # <<>> /\ raw' = Tail(raw)
      BY <1>0, <3>1, <3>3, HeadTailProperties
    <3> QED  BY <2>2, <3>2, <3>3
  <2>4. Kept = 0 /\ Kept' = 0 /\ d = b
    BY <2>1 DEF Kept
  <2> HIDE DEF f, a, b, c, d, r
  <2> QED  BY <1>0, <2>3, <2>4
<1>5. CASE GiveUp
  <2>1. mode = "value" /\ mode' = "top" /\ pushback = <<>> /\ carry.read \in Seq(Strengths)
    BY <1>5 DEF GiveUp, IInv, NothingBack, Texts
  <2>2. Kept = r /\ Kept' = 0 /\ b = 0
    BY <2>1 DEF Kept
  <2>3. CASE More
    <3>1. raw # <<>> /\ raw' = Tail(raw) /\ Token = Head(raw) /\ raw \in Seq(STRING)
      BY <1>5, <2>1, <2>3 DEF GiveUp, GiveBack, RestRaw, More, Token, IInv, Texts
    <3>2. c = a - 1 /\ Token \in STRING
      BY <1>0, <3>1, HeadTailProperties
    <3>3. pushback' = <<>> \o Reverse(Append(carry.read, Token))
      BY <1>5, <2>1, <2>3 DEF GiveUp, GiveBack, RestBack
    <3> DEFINE whole == Append(carry.read, Token)
    <3>4. Reverse(whole) \in Seq(STRING) /\ Len(whole) = r + 1
      BY <2>1, <3>2, ReverseOnTop
    <3>5. Reverse(whole) = [i \in 1 .. Len(whole) |-> whole[(Len(whole) - i) + 1]]
      BY DEF Reverse
    <3>6. pushback' = Reverse(whole)
      BY <3>3, <3>4
    <3> HIDE DEF whole, r
    <3>7. d = r + 1
      BY <1>0, <3>4, <3>5, <3>6
    <3> HIDE DEF f, a, b, c, d
    <3> QED  BY <1>0, <2>2, <3>2, <3>7
  <2>4. CASE ~More
    <3>1. raw' = raw /\ pushback' = Reverse(carry.read)
      BY <1>5, <2>4 DEF GiveUp
    <3>2. Reverse(carry.read) = [i \in 1 .. r |-> carry.read[(r - i) + 1]]
      BY DEF Reverse
    <3>3. pushback' \in Seq(STRING)
      BY DEF IInv, Texts
    <3>4. d = r
      <4> HIDE DEF r
      <4> QED  BY <1>0, <3>1, <3>2, <3>3
    <3>5. c = a
      BY <3>1
    <3> HIDE DEF f, a, b, c, d, r
    <3> QED  BY <1>0, <2>2, <3>4, <3>5
  <2> QED  BY <2>3, <2>4
<1>6. CASE Finish \/ Abandon
  <2>1. raw' = raw /\ pushback' = pushback /\ mode' # "value"
    BY <1>6 DEF Finish, Abandon, EndWalk
  <2>2. Kept' = 0 /\ c = a /\ d = b
    BY <2>1 DEF Kept
  <2> HIDE DEF f, a, b, c, d, r
  <2> QED  BY <1>0, <2>2
<1>7. ASSUME NEW tok \in ToSet(file), BeginValue(tok) \/ TakeStrength(tok)
      PROVE  c + d + Kept' <= a + b + Kept
  <2>1. More /\ Pop
    BY <1>7 DEF BeginValue, TakeStrength, AtTop
  <2>2. c + d = a + b - 1
    BY <1>1, <2>1, PopComes DEF Placed
  <2>3. Kept' <= Kept + 1
    <3>1. CASE BeginValue(tok)
      <4>1. carry'.read = <<>>
        BY <3>1 DEF BeginValue
      <4>2. Kept' = 0
        BY <4>1 DEF Kept
      <4> QED  BY <1>0, <4>2
    <3>2. CASE TakeStrength(tok)
      <4>1. /\ mode = "value" /\ mode' = "value"
            /\ carry' = [carry EXCEPT !.due = @ - 1, !.read = Append(@, tok)]
        BY <3>2 DEF TakeStrength
      <4>2. carry.read \in Seq(Strengths) /\ carry'.read \in Seq(Strengths)
        BY DEF IInv, Texts
      <4>3. Kept = r /\ Kept' = r + 1
        <5>1. carry'.read = Append(carry.read, tok)
          BY <4>1
        <5>2. Len(Append(carry.read, tok)) = Len(carry.read) + 1
          BY <4>2
        <5> QED  BY <4>1, <5>1, <5>2 DEF Kept
      <4> HIDE DEF r
      <4> QED  BY <1>0, <4>3
    <3> QED  BY <1>7, <3>1, <3>2
  <2> DEFINE k == Kept
             l == Kept'
  <2>4. /\ k \in Nat /\ l \in Nat /\ a \in Nat /\ b \in Nat /\ c \in Nat /\ d \in Nat
        /\ c + d = a + b - 1 /\ l <= k + 1
    BY <1>0, <2>2, <2>3
  <2> HIDE DEF f, a, b, c, d, r, k, l
  <2>5. c + d + l <= a + b + k
    BY <2>4
  <2> QED  BY <2>5 DEF k, l
<1>8. CASE UNCHANGED vars
  BY <1>0, <1>8 DEF vars, parse, Kept
<1> QED  BY <1>4, <1>5, <1>6, <1>7, <1>8

-----------------------------------------------------------------------------
LEMMA TextIsValue == Text \subseteq Value
<1> SUFFICES ASSUME NEW t \in Text PROVE t \in Value
  OBVIOUS
<1>1. STRING \subseteq Letter
  BY DEF Letter
<1> QED  BY <1>1, SeqMonotonic DEF Text, Value

LEMMA TokenIsString ==
  ASSUME IInv, NEW tok \in ToSet(file)
  PROVE  tok \in STRING
<1>1. file \in Seq(STRING)
  BY DEF IInv, Texts
<1>2. PICK i \in DOMAIN file : file[i] = tok
  BY DEF ToSet
<1> QED  BY <1>1, <1>2

\* A timestamp ends a time: what was pending is flushed and the walk moves on.
LEMMA StampStep ==
  ASSUME IInv, Placed, IInv', EventInv, NEW tok \in ToSet(file), ReplayStamp(tok)
  PROVE  EventInv'
<1> DEFINE t == Stamp[tok]
<1>1. /\ mode = "top" /\ More /\ Pop /\ Token = tok /\ tok \in DOMAIN Stamp
      /\ t \notin {Malformed, TooLarge}
      /\ now' = t /\ out' = Flushed /\ file' = file /\ carry' = carry /\ bits' = bits
      /\ pending' = IF now < walk.t0 THEN pending ELSE <<>>
      /\ mode' # "value"
      /\ \/ done' = done
         \/ done' = Append(done, Result(TRUE, Flushed, range))
  BY DEF ReplayStamp, AtTop, EndWalk
<1>2. t \in Nat
  BY <1>1, StampAssumption
<1>3. Kept = 0 /\ Here' = Here + 1 /\ file[Here'] = tok /\ Here \in Int
  <2>1. Kept = 0
    BY <1>1 DEF Kept
  <2>2. Here' = Here + Kept + 1 /\ Token = file[Here']
    BY <1>1, PopMoves
  <2> QED  BY <1>1, <2>1, <2>2, PlacesTyped
<1>4. Here' \in 1 .. Len(file)
  <2>1. Len(raw) + Len(pushback) <= Len(file) /\ Here = Len(file) - Len(raw) - Len(pushback) - Kept
    BY DEF Placed, Comes, Here, Taken
  <2>2. More
    BY <1>1
  <2>3. Len(raw) + Len(pushback) >= 1
    <3>1. raw # <<>> \/ pushback # <<>>
      BY <2>2 DEF More
    <3>2. raw \in Seq(STRING) /\ pushback \in Seq(STRING)
      BY DEF IInv, Texts
    <3> QED  BY <3>1, <3>2
  <2> DEFINE f == Len(file)
             a == Len(raw)
             b == Len(pushback)
  <2>4. /\ f \in Nat /\ a \in Nat /\ b \in Nat /\ a + b >= 1 /\ a + b <= f
        /\ Here = f - a - b - 0
    BY <1>3, <2>1, <2>3, PlacesTyped
  <2> HIDE DEF f, a, b
  <2>5. Here + 1 \in 1 .. f
    BY <2>4
  <2> QED  BY <1>3, <2>5 DEF f
<1>5. NowReached'
  <2>1. file'[Here'] \in DOMAIN Stamp /\ Stamp[file'[Here']] = now' /\ Here' \in 1 .. Here'
    BY <1>1, <1>3, <1>4
  <2> QED  BY <2>1 DEF NowReached
<1>6. Flushed \in Seq(Event)
      /\ (OutBefore /\ GoForward(out) =>
            GoForward(Flushed) /\ \A i \in 1 .. Len(Flushed) : Flushed[i].at <= now)
  BY FlushedForward DEF EventInv
<1>7. EventsTyped' /\ (DoneForward /\ GoForward(Flushed) => DoneForward')
  <2>1. <<>> \in Dict
    BY DEF Dict, KeysOnce
  <2>2. /\ pending' \in Dict /\ out' \in Seq(Event) /\ now' \in Nat /\ carry'.value \in Value
        /\ \A g \in DOMAIN bits' : bits'[g] \in Value
    BY <1>1, <1>2, <1>6, <2>1 DEF EventInv, EventsTyped
  <2>3. CASE done' = done
    BY <2>2, <2>3 DEF EventInv, EventsTyped, DoneForward
  <2>4. CASE done' = Append(done, Result(TRUE, Flushed, range))
    <3>1. Result(TRUE, Flushed, range).out = Flushed
      BY DEF Result
    <3>2. /\ done' \in Seq(ToSet(done'))
          /\ DoneForward /\ GoForward(Result(TRUE, Flushed, range).out) => DoneForward'
      BY <2>4, DoneGrows DEF EventInv
    <3> QED  BY <2>2, <3>1, <3>2 DEF EventsTyped
  <2> QED  BY <1>1, <2>3, <2>4
<1>8. ASSUME Forward PROVE OutBefore' /\ GoForward(out') /\ DoneForward'
  <2>1. OutBefore /\ GoForward(out) /\ DoneForward
    BY <1>8 DEF EventInv
  <2>2. GoForward(Flushed) /\ \A i \in 1 .. Len(Flushed) : Flushed[i].at <= now
    BY <1>6, <2>1
  <2>3. now = 0 \/ now < t
    <3> SUFFICES ASSUME now # 0 PROVE now < t
      OBVIOUS
    <3>1. PICK p \in 1 .. Here : file[p] \in DOMAIN Stamp /\ Stamp[file[p]] = now
      BY DEF EventInv, NowReached
    <3>2. p \in 1 .. Len(file) /\ p < Here'
      BY <1>3, <1>4, PlacesTyped
    <3>3. DOMAIN file = 1 .. Len(file)
      BY DEF IInv, Texts
    <3> QED  BY <1>1, <1>3, <1>4, <1>8, <3>1, <3>2, <3>3 DEF Forward
  <2>4. ASSUME NEW i \in 1 .. Len(Flushed)
        PROVE  Flushed[i].at < t \/ (Flushed[i].at = 0 /\ t = 0)
    <3>1. Flushed[i] \in Event
      BY <1>6, ElementOfSeq
    <3>2. Flushed[i].at \in Nat /\ Flushed[i].at <= now
      BY <2>2, <3>1 DEF Event
    <3>3. now \in Nat
      BY DEF EventInv, EventsTyped
    <3> DEFINE e == Flushed[i].at
    <3>4. e \in Nat /\ e <= now /\ now \in Nat /\ t \in Nat /\ (now = 0 \/ now < t)
      BY <1>2, <2>3, <3>2, <3>3
    <3> HIDE DEF e, t
    <3>5. e < t \/ (e = 0 /\ t = 0)
      BY <3>4
    <3> QED  BY <3>5 DEF e
  <2>5. OutBefore'
    BY <1>1, <2>4 DEF OutBefore
  <2> QED  BY <1>1, <1>7, <2>1, <2>2, <2>5
<1>9. Forward' = Forward
  BY <1>1 DEF Forward
<1> QED  BY <1>5, <1>7, <1>8, <1>9 DEF EventInv, OutBefore, GoForward

LEMMA EventNext == IInv /\ Placed /\ EventInv /\ [Next]_vars => EventInv'
<1> SUFFICES ASSUME IInv, Placed, EventInv, [Next]_vars PROVE EventInv'
  OBVIOUS
<1>1. IInv'
  BY WalkNext
<1>2. /\ pending \in Dict /\ carry.value \in Value
      /\ (\A g \in DOMAIN bits : bits[g] \in Value) /\ done \in Seq(ToSet(done))
  BY DEF EventInv, EventsTyped
<1>3. Here \in Int /\ Here' \in Int /\ Kept \in Nat
  <2>1. Here' \in Int
    <3>1. Len(file') \in Nat /\ Len(raw') \in Nat /\ Len(pushback') \in Nat /\ Len(carry'.read) \in Nat
      <4>1. /\ file' \in Seq(STRING) /\ raw' \in Seq(STRING) /\ pushback' \in Seq(STRING)
            /\ carry'.read \in Seq(Strengths)
        BY <1>1 DEF IInv, Texts
      <4> QED  BY <4>1, LenProperties
    <3>2. Kept' \in Nat
      BY <3>1 DEF Kept
    <3> QED  BY <3>1, <3>2 DEF Here, Taken
  <2> QED  BY <2>1, PlacesTyped
<1>4. ASSUME NEW w \in Walks(file), Begin(w) PROVE EventInv'
  <2>1. /\ now' = 0 /\ bits' = NewBits(w) /\ pending' = <<>> /\ out' = <<>>
        /\ UNCHANGED <<file, carry, done>>
    BY <1>4 DEF Begin
  <2>2. <<>> \in Dict /\ <<>> \in Seq(Event)
    BY DEF Dict, KeysOnce
  <2>3. ASSUME NEW g \in DOMAIN bits' PROVE bits'[g] \in Value
    <3>1. g \in Buses /\ bits'[g] = [i \in 1 .. Width[g] |-> "x"]
      BY <2>1 DEF NewBits
    <3>2. Width[g] \in Nat
      BY <3>1, BusesAreSignals, SignalAssumption
    <3> QED  BY <3>1, <3>2, ManyX
  <2>4. EventsTyped' /\ NowReached'
    BY <1>2, <2>1, <2>2, <2>3 DEF EventsTyped, NowReached
  <2>5. OutBefore' /\ GoForward(out')
    BY <2>1 DEF OutBefore, GoForward
  <2>6. Forward' = Forward /\ (DoneForward => DoneForward')
    BY <2>1 DEF Forward, DoneForward
  <2> QED  BY <2>4, <2>5, <2>6 DEF EventInv, GoForward
<1>5. ASSUME NEW tok \in ToSet(file),
             \/ Mark(tok) \/ OpenSection(tok) \/ SkipStamp(tok) \/ StampTooLarge(tok)
             \/ ScanStamp(tok) \/ Junk(tok)
      PROVE  EventInv'
  <2>1. /\ More /\ Pop /\ mode' # "value" /\ file' = file /\ carry' = carry
        /\ now' = now /\ out' = out /\ pending' = pending /\ bits' = bits
    BY <1>5 DEF Mark, OpenSection, SkipStamp, StampTooLarge, ScanStamp, Junk, AtTop, EndWalk, effect
  <2>2. done' = done \/ done' = Append(done, Result(FALSE, out, range))
    BY <1>5 DEF Mark, OpenSection, SkipStamp, StampTooLarge, ScanStamp, Junk, EndWalk
  <2>3. Here' >= Here
    BY <1>1, <1>3, <2>1, PopMoves
  <2>4. Result(FALSE, out, range).out = out
    BY DEF Result
  <2> QED  BY <1>2, <1>3, <2>1, <2>2, <2>3, <2>4, QuietStep
<1>6. ASSUME NEW tok \in ToSet(file), ReplayStamp(tok) PROVE EventInv'
  BY <1>1, <1>6, StampStep
<1>7. ASSUME NEW tok \in ToSet(file), ScalarChange(tok) \/ TakeIdentifier(tok) PROVE EventInv'
  <2>1. /\ More /\ Pop /\ mode' # "value" /\ file' = file /\ carry' = carry /\ done' = done
    BY <1>7 DEF ScalarChange, TakeIdentifier, AtTop
  <2>2. PICK sym \in STRING : \E value \in Value : Change(sym, value)
    <3>1. CASE ScalarChange(tok)
      <4>1. /\ tok \in DOMAIN Scalar /\ Change(Scalar[tok].sym, Scalar[tok].value)
        BY <3>1 DEF ScalarChange
      <4>2. Scalar[tok].sym \in STRING /\ Scalar[tok].value \in Value
        BY <4>1, ValueAssumption, TextIsValue
      <4> QED  BY <4>1, <4>2
    <3>2. CASE TakeIdentifier(tok)
      <4>1. Change(tok, carry.value)
        BY <3>2 DEF TakeIdentifier
      <4> QED  BY <1>2, <4>1, TokenIsString
    <3> QED  BY <1>7, <3>1, <3>2
  <2>3. PICK value \in Value : Change(sym, value)
    BY <2>2
  <2>4. /\ pending' \in Dict /\ (\A g \in DOMAIN bits' : bits'[g] \in Value)
        /\ now' = now /\ out' = out
    BY <2>3, ChangeTyped DEF EventInv
  <2>5. Here' >= Here
    BY <1>1, <1>3, <2>1, PopMoves
  <2> QED  BY <1>2, <1>3, <2>1, <2>4, <2>5, QuietStep
<1>8. ASSUME NEW tok \in ToSet(file), BeginValue(tok) \/ TakeStrength(tok) PROVE EventInv'
  <2>1. UNCHANGED <<file, done, effect>>
    BY <1>8 DEF BeginValue, TakeStrength
  <2>2. carry'.value \in Value
    <3>1. CASE BeginValue(tok)
      <4>1. \/ tok \in DOMAIN Vector /\ carry'.value = Vector[tok]
            \/ tok \in DOMAIN Port /\ carry'.value = Port[tok]
        BY <3>1 DEF BeginValue
      <4> QED  BY <4>1, ValueAssumption, TextIsValue
    <3>2. CASE TakeStrength(tok)
      BY <1>2, <3>2 DEF TakeStrength
    <3> QED  BY <1>8, <3>1, <3>2
  <2>3. Here' >= Here
    BY <1>1, <1>8, NeverBack
  <2> QED  BY <1>2, <1>3, <2>1, <2>2, <2>3, QuietStep DEF effect
<1>9. ASSUME SkipSection \/ GiveUp \/ Finish \/ Abandon \/ UNCHANGED vars PROVE EventInv'
  <2>1. UNCHANGED <<file, carry, effect>>
    BY <1>9 DEF SkipSection, GiveUp, Finish, Abandon, vars, parse
  <2>2. \/ done' = done
        \/ \E r : done' = Append(done, r) /\ (r.out = out \/ r.out = Flushed)
    <3>1. CASE SkipSection \/ GiveUp \/ UNCHANGED vars
      BY <3>1 DEF SkipSection, GiveUp, vars
    <3>2. CASE Abandon
      <4>1. done' = Append(done, Result(FALSE, out, range))
        BY <3>2 DEF Abandon, EndWalk
      <4> QED  BY <4>1 DEF Result
    <3>3. CASE Finish
      <4>1. PICK times, events : /\ done' = Append(done, Result(TRUE, events, times))
                                 /\ events = out \/ events = Flushed
        BY <3>3 DEF Finish, EndWalk
      <4> QED  BY <4>1 DEF Result
    <3> QED  BY <1>9, <3>1, <3>2, <3>3
  <2>3. Here' >= Here
    BY <1>1, <1>9, NeverBack
  <2> QED  BY <1>2, <1>3, <2>1, <2>2, <2>3, QuietStep DEF effect
<1> QED  BY <1>4, <1>5, <1>6, <1>7, <1>8, <1>9 DEF Next

\* VCDParser.iter_events: for every file whose timestamps go forward, whatever walks ran
\* over the parser or were broken off, the events of a signal ascend in time, with one
\* at a time; only at 0 there may be two.
THEOREM EventsAscend == Spec => []OneEventAtATime
<1>1. EventInv => OneEventAtATime
  BY DEF EventInv, OneEventAtATime, DoneForward
<1>2. Init => IInv /\ Placed /\ EventInv
  BY WalkInit, PlacedInit, EventInit
<1>3. IInv /\ Placed /\ EventInv /\ [Next]_vars => (IInv /\ Placed /\ EventInv)'
  BY WalkNext, PlacedNext, EventNext
<1> QED  BY <1>1, <1>2, <1>3, PTL DEF Spec

-----------------------------------------------------------------------------
(* What a dictionary has under a key after keys were set.                   *)

Has(dict, sid, v) == \E i \in 1 .. Len(dict) : dict[i].sid = sid /\ dict[i].value = v

LEMMA PutHas ==
  ASSUME NEW dict \in Dict, NEW sid, NEW value, NEW s, NEW v
  PROVE  Has(Put(dict, sid, value), s, v) <=> IF s = sid THEN v = value ELSE Has(dict, s, v)
<1> DEFINE item == [sid |-> sid, value |-> value]
           new == Put(dict, sid, value)
<1>1. dict \in Seq(Item) /\ Len(dict) \in Nat /\ DOMAIN dict = 1 .. Len(dict)
  BY DEF Dict
<1>2. item.sid = sid /\ item.value = value
  OBVIOUS
<1>3. CASE \E i \in DOMAIN dict : dict[i].sid = sid
  <2>1. new = [i \in 1 .. Len(dict) |-> IF dict[i].sid = sid THEN item ELSE dict[i]]
    BY <1>1, <1>3 DEF Put
  <2> HIDE DEF item, new
  <2>2. /\ Len(new) = Len(dict)
        /\ \A i \in 1 .. Len(dict) : new[i] = IF dict[i].sid = sid THEN item ELSE dict[i]
    BY <1>1, <2>1
  <2>3. \E i \in 1 .. Len(dict) : dict[i].sid = sid
    BY <1>1, <1>3
  <2>4. Has(new, s, v) <=> IF s = sid THEN v = value ELSE Has(dict, s, v)
    BY <1>2, <2>2, <2>3 DEF Has
  <2> QED  BY <2>4 DEF new
<1>4. CASE ~ \E i \in DOMAIN dict : dict[i].sid = sid
  <2>1. new = Append(dict, item)
    BY <1>4 DEF Put
  <2> HIDE DEF item
  <2>2. /\ Len(new) = Len(dict) + 1 /\ new[Len(dict) + 1] = item
        /\ \A i \in 1 .. Len(dict) : new[i] = dict[i]
    BY <1>1, <2>1
  <2> HIDE DEF new
  <2>3. \A i \in 1 .. Len(dict) + 1 : i \in 1 .. Len(dict) \/ i = Len(dict) + 1
    BY <1>1
  <2>4. \A i \in 1 .. Len(dict) : dict[i].sid # sid /\ i \in 1 .. Len(dict) + 1
    BY <1>1, <1>4
  <2>5. Len(dict) + 1 \in 1 .. Len(dict) + 1
    BY <1>1
  <2>6. Has(new, s, v) <=> IF s = sid THEN v = value ELSE Has(dict, s, v)
    BY <1>2, <2>2, <2>3, <2>4, <2>5 DEF Has
  <2> QED  BY <2>6 DEF new
<1> QED  BY <1>3, <1>4

\* Every key of a ref that has a value has it then; the other keys have what they had.
LEMMA PutAllHas ==
  ASSUME NEW dict \in Dict, NEW refs, Len(refs) \in Nat, NEW values,
         \A n \in 1 .. Len(refs) : refs[n][1] \in STRING,
         \A g \in DOMAIN values : values[g] \in Value, NEW s, NEW v
  PROVE  Has(PutAll(dict, refs, values), s, v) <=>
           IF s \in DOMAIN values /\ \E n \in 1 .. Len(refs) : refs[n][1] = s
           THEN v = values[s] ELSE Has(dict, s, v)
<1>1. PICK put : /\ PutAll(dict, refs, values) = put[Len(refs)]
                 /\ put[0] = dict /\ \A n \in 0 .. Len(refs) : put[n] \in Dict
                 /\ \A n \in 1 .. Len(refs) :
                      put[n] = IF refs[n][1] \in DOMAIN values
                               THEN Put(put[n - 1], refs[n][1], values[refs[n][1]])
                               ELSE put[n - 1]
  BY PutAllRuns
<1> DEFINE Hit(m) == s \in DOMAIN values /\ \E n \in 1 .. m : refs[n][1] = s
           Right(m) == Has(put[m], s, v) <=> IF Hit(m) THEN v = values[s] ELSE Has(dict, s, v)
           In == {m \in Nat : m <= Len(refs) => Right(m)}
<1>2. 0 \in In
  BY <1>1
<1>3. ASSUME NEW m \in Nat, m \in In PROVE m + 1 \in In
  <2>1. SUFFICES ASSUME m + 1 <= Len(refs) PROVE Right(m + 1)
    BY DEF In
  <2>2. /\ m + 1 \in 1 .. Len(refs) /\ (m + 1) - 1 = m /\ m \in 0 .. Len(refs)
        /\ \A n \in 1 .. m + 1 : n \in 1 .. m \/ n = m + 1
        /\ \A n \in 1 .. m : n \in 1 .. m + 1
        /\ m + 1 \in 1 .. m + 1
    BY <2>1
  <2>3. Right(m)
    BY <1>3, <2>1
  <2> DEFINE g == refs[m + 1][1]
             q == m + 1
  <2>4. put[q] = IF g \in DOMAIN values THEN Put(put[m], g, values[g]) ELSE put[m]
    BY <1>1, <2>2
  <2>5. Hit(q) <=> Hit(m) \/ (s \in DOMAIN values /\ g = s)
    BY <2>2
  <2> HIDE DEF Hit
  <2>6. CASE g \in DOMAIN values
    <3>1. Has(put[q], s, v) <=> IF s = g THEN v = values[g] ELSE Has(put[m], s, v)
      BY <1>1, <2>2, <2>4, <2>6, PutHas
    <3> HIDE DEF g, q
    <3>2. Right(q)
      BY <2>3, <2>5, <2>6, <3>1
    <3> QED  BY <3>2 DEF q
  <2>7. CASE g \notin DOMAIN values
    <3> HIDE DEF g, q
    <3>1. Right(q)
      BY <2>3, <2>4, <2>5, <2>7
    <3> QED  BY <3>1 DEF q
  <2> QED  BY <2>6, <2>7
<1> HIDE DEF In
<1>4. Len(refs) \in In
  BY <1>2, <1>3, NatSetInduction
<1> QED  BY <1>1, <1>4 DEF In

-----------------------------------------------------------------------------
(* What a signal shows: the value that is pending for it, or else that of   *)
(* its last event, or else nothing yet.                                     *)

IsLast(events, sid, k) ==
  /\ k \in 0 .. Len(events) /\ (k # 0 => events[k].sid = sid)
  /\ \A j \in 1 .. Len(events) : events[j].sid = sid => j <= k

BitAt(events, sid, bit, k) == IF k = 0 THEN "x" ELSE BitIn(sid, bit, events[k].value)

Shows(dict, events, sid, bit, c) ==
  /\ \A v : Has(dict, sid, v) => BitIn(sid, bit, v) = c
  /\ (~ \E v : Has(dict, sid, v)) =>
       \A k : IsLast(events, sid, k) => BitAt(events, sid, bit, k) = c

InWhole == mode # "idle" /\ walk.kind = "replay" /\ Whole(walk)

Bits == {"0", "1", "x", "z"}

BitsTyped ==
  /\ DOMAIN bits = Buses
  /\ \A g \in Buses : bits[g] \in Seq(Bits) /\ Len(bits[g]) = Width[g]

\* The bits of a bus are what the bus shows and what their own signals show.
Mirrored ==
  /\ \A g \in Buses : \A i \in 1 .. Width[g] : Shows(pending, out, g, i - 1, bits[g][i])
  /\ \A sym \in Aliases : \A k \in DOMAIN BitMap[sym] :
       Shows(pending, out, sym, 0, bits[BitMap[sym][k][1]][BitMap[sym][k][2] + 1])

\* A ref is a bit of a bus.
LEMMA RefIsBit ==
  ASSUME NEW sym \in DOMAIN BitMap, NEW k \in DOMAIN BitMap[sym]
  PROVE  /\ BitMap[sym][k] = <<BitMap[sym][k][1], BitMap[sym][k][2]>>
         /\ BitMap[sym][k][1] \in Buses /\ BitMap[sym][k][1] \in DOMAIN Width
         /\ Width[BitMap[sym][k][1]] \in Nat /\ BitMap[sym][k][2] \in Nat
         /\ BitMap[sym][k][2] + 1 \in 1 .. Width[BitMap[sym][k][1]]
<1>1. BitMap[sym] \in Seq((DOMAIN Width) \X Nat)
  BY SignalAssumption
<1>2. BitMap[sym][k] \in (DOMAIN Width) \X Nat
  BY <1>1
<1>3. BitMap[sym][k][1] \in Buses
  BY DEF Buses
<1>4. Width[BitMap[sym][k][1]] \in Nat
  BY <1>2, SignalAssumption
<1>5. BitMap[sym][k][2] < Width[BitMap[sym][k][1]]
  BY BusAssumption
<1> QED  BY <1>2, <1>3, <1>4, <1>5

\* Driving an identifier sets the bits that are its own and leaves the others.
LEMMA DriveBits ==
  ASSUME BitsTyped, NEW sym, NEW value, bits' = Drive(sym, value)
  PROVE  /\ BitsTyped'
         /\ \A g \in Buses : \A i \in 1 .. Width[g] :
              bits'[g][i] = IF <<g, i - 1>> \in ToSet(Refs(sym)) THEN BitOf(value) ELSE bits[g][i]
<1>1. BitOf(value) \in Bits
  BY DEF BitOf, IsBits, Bits
<1>2. DOMAIN bits' = Buses
  BY DEF Drive, BitsTyped
<1>3. ASSUME NEW g \in Buses
      PROVE  /\ bits'[g] \in Seq(Bits) /\ Len(bits'[g]) = Width[g]
             /\ \A i \in 1 .. Width[g] :
                  bits'[g][i] = IF <<g, i - 1>> \in ToSet(Refs(sym)) THEN BitOf(value)
                                ELSE bits[g][i]
  <2>1. /\ bits[g] \in Seq(Bits) /\ Len(bits[g]) = Width[g] /\ Width[g] \in Nat
        /\ DOMAIN bits[g] = 1 .. Width[g] /\ g \in DOMAIN bits
    <3>1. bits[g] \in Seq(Bits) /\ Len(bits[g]) = Width[g] /\ g \in DOMAIN bits
      BY DEF BitsTyped
    <3>2. Len(bits[g]) \in Nat /\ DOMAIN bits[g] = 1 .. Len(bits[g])
      BY <3>1, LenProperties
    <3> QED  BY <3>1, <3>2
  <2> DEFINE n == Width[g]
             b == bits'[g]
             Set(i) == IF <<g, i - 1>> \in ToSet(Refs(sym)) THEN BitOf(value) ELSE bits[g][i]
  <2>2. b = [i \in 1 .. n |-> Set(i)]
    BY <2>1 DEF Drive
  <2>3. ASSUME NEW i \in 1 .. n PROVE Set(i) \in Bits
    <3>1. bits[g][i] \in Bits
      BY <2>1, ElementOfSeq
    <3> QED  BY <1>1, <3>1
  <2>4. n \in Nat
    BY <2>1
  <2> HIDE DEF Set, n, b
  <2>5. b \in Seq(Bits) /\ Len(b) = n /\ \A i \in 1 .. n : b[i] = Set(i)
    BY <2>2, <2>3, <2>4
  <2> QED  BY <2>5 DEF b, n, Set
<1> QED  BY <1>2, <1>3 DEF BitsTyped

\* The value of a bus is its bits from the highest down.
LEMMA BusValue ==
  ASSUME NEW g, NEW b \in Seq(Bits), Len(b) = Width[g], NEW i \in 1 .. Width[g]
  PROVE  BitIn(g, i - 1, Reverse(b)) = b[i]
<1> DEFINE n == Width[g]
           r == Reverse(b)
<1>1. n \in Nat /\ r = [j \in 1 .. n |-> b[(n - j) + 1]]
  BY LenProperties DEF Reverse
<1>2. ASSUME NEW j \in 1 .. n PROVE b[j] \in Bits
  BY <1>1, ElementOfSeq
<1> HIDE DEF n, r
<1>3. \A j \in 1 .. n : (n - j) + 1 \in 1 .. n
  BY <1>1
<1>4. DOMAIN r = 1 .. n /\ \A j \in 1 .. n : r[j] = b[(n - j) + 1]
  BY <1>1
<1>5. IsBits(r)
  BY <1>2, <1>3, <1>4 DEF IsBits, Bits
<1>6. i \in 1 .. n
  BY DEF n
<1>7. n - (i - 1) \in 1 .. n /\ (n - (n - (i - 1))) + 1 = i
  BY <1>1, <1>6
<1>8. r[n - (i - 1)] = b[i]
  BY <1>4, <1>7
<1> QED  BY <1>5, <1>8 DEF BitIn, n, r

\* The one bit of a signal is the bit that its value drives.
LEMMA OneBitValue ==
  ASSUME NEW sym, Width[sym] = 1, sym \notin Unsized, NEW value \in Value, value # <<>>
  PROVE  BitIn(sym, 0, Clamp(sym, value)) = BitOf(value)
<1>1. Len(value) \in Nat /\ Len(value) # 0
  BY DEF Value
<1>2. CASE ~ IsBits(value)
  BY <1>2 DEF Clamp, BitIn, BitOf
<1>3. CASE IsBits(value) /\ Len(value) = 1
  BY <1>3 DEF Clamp, BitIn, BitOf
<1>4. CASE IsBits(value) /\ Len(value) > 1
  <2> DEFINE c == [i \in 1 .. 1 |-> "x"]
  <2>1. Clamp(sym, value) = c
    BY <1>4 DEF Clamp
  <2>2. c[1] = "x" /\ DOMAIN c = 1 .. 1 /\ \A i \in DOMAIN c : c[i] = "x"
    OBVIOUS
  <2> HIDE DEF c
  <2>3. IsBits(c)
    BY <2>2 DEF IsBits
  <2>4. BitIn(sym, 0, c) = "x"
    BY <2>2, <2>3 DEF BitIn
  <2>5. BitOf(value) = "x"
    <3>1. Len(value) # 1
      <4> DEFINE n == Len(value)
      <4>1. n \in Nat /\ n > 1
        BY <1>1, <1>4
      <4> HIDE DEF n
      <4>2. n # 1
        BY <4>1
      <4> QED  BY <4>2 DEF n
    <3> QED  BY <3>1, Zenon DEF BitOf
  <2> QED  BY <2>1, <2>4, <2>5
<1>5. Len(value) = 1 \/ Len(value) > 1
  <2> DEFINE n == Len(value)
  <2>1. n \in Nat /\ n # 0
    BY <1>1
  <2> HIDE DEF n
  <2>2. n = 1 \/ n > 1
    BY <2>1
  <2> QED  BY <2>2 DEF n
<1> QED  BY <1>2, <1>3, <1>4, <1>5

\* A value change keeps the bits of the buses and the signals together.
LEMMA ChangeMirrors ==
  ASSUME EventsTyped, InWhole, BitsTyped, Mirrored,
         NEW sym \in STRING, sym \notin Buses, NEW value \in Value, value # <<>>,
         Change(sym, value)
  PROVE  BitsTyped' /\ Mirrored'
<1> DEFINE values == [g \in DOMAIN bits |-> Reverse(bits'[g])]
           refs == Refs(sym)
           mid == PutAll(pending, refs, values)
<1>1. /\ bits' = Drive(sym, value) /\ out' = out
      /\ pending' = IF Standalone(sym) THEN Put(mid, sym, Clamp(sym, value)) ELSE mid
  <2>1. walk.kind # "scan" /\ ~ (now < walk.t0)
    BY DEF InWhole, Whole, EventsTyped
  <2> QED  BY <2>1 DEF Change, PutBuses
<1>2. /\ BitsTyped'
      /\ \A g \in Buses : \A i \in 1 .. Width[g] :
           bits'[g][i] = IF <<g, i - 1>> \in ToSet(refs) THEN BitOf(value) ELSE bits[g][i]
  BY <1>1, DriveBits
<1>3. /\ DOMAIN values = Buses
      /\ \A g \in Buses : values[g] = Reverse(bits'[g]) /\ values[g] \in Value
  <2>1. ASSUME NEW g \in Buses PROVE bits'[g] \in Value
    BY <1>1, ChangeTyped, <1>2 DEF BitsTyped
  <2> QED  BY <2>1, ReverseText DEF BitsTyped
<1>4. /\ Len(refs) \in Nat /\ DOMAIN refs = 1 .. Len(refs)
      /\ \A n \in 1 .. Len(refs) : /\ refs[n][1] \in STRING /\ refs[n][1] \in Buses
                                   /\ refs[n] = <<refs[n][1], refs[n][2]>>
  <2>1. refs \in Seq((DOMAIN Width) \X Nat)
    BY SignalAssumption DEF Refs
  <2>2. Len(refs) \in Nat /\ DOMAIN refs = 1 .. Len(refs)
    BY <2>1, LenProperties
  <2>3. ASSUME NEW n \in 1 .. Len(refs)
        PROVE  refs[n][1] \in Buses /\ refs[n] = <<refs[n][1], refs[n][2]>>
    <3>1. sym \in DOMAIN BitMap
      <4>1. sym \notin DOMAIN BitMap => refs = <<>>
        BY DEF Refs
      <4>2. refs # <<>>
        <5> HIDE DEF refs
        <5> QED  OBVIOUS
      <4> QED  BY <4>1, <4>2
    <3> QED  BY <2>2, <3>1, RefIsBit DEF Refs
  <2> QED  BY <2>2, <2>3, RefsTyped
<1>5. mid \in Dict
  <2> HIDE DEF values, refs
  <2> QED  BY <1>3, <1>4, PutAllDict DEF EventsTyped
<1>6. ASSUME NEW s, NEW v
      PROVE  Has(mid, s, v) <=> IF s \in Buses /\ \E n \in 1 .. Len(refs) : refs[n][1] = s
                                THEN v = Reverse(bits'[s]) ELSE Has(pending, s, v)
  <2> HIDE DEF values, refs
  <2>1. pending \in Dict
    BY DEF EventsTyped
  <2> QED  BY <1>3, <1>4, <2>1, PutAllHas
<1> HIDE DEF values, mid
<1>7. ASSUME NEW s, NEW v
      PROVE  Has(pending', s, v) <=> IF Standalone(sym) /\ s = sym THEN v = Clamp(sym, value)
                                     ELSE Has(mid, s, v)
  <2>1. CASE Standalone(sym)
    <3>1. pending' = Put(mid, sym, Clamp(sym, value))
      BY <1>1, <2>1
    <3>2. Has(Put(mid, sym, Clamp(sym, value)), s, v) <=>
            IF s = sym THEN v = Clamp(sym, value) ELSE Has(mid, s, v)
      <4> DEFINE c == Clamp(sym, value)
      <4> HIDE DEF c
      <4>1. Has(Put(mid, sym, c), s, v) <=> IF s = sym THEN v = c ELSE Has(mid, s, v)
        BY <1>5, PutHas, Zenon
      <4> QED  BY <4>1 DEF c
    <3> QED  BY <2>1, <3>1, <3>2
  <2>2. CASE ~ Standalone(sym)
    BY <1>1, <2>2
  <2> QED  BY <2>1, <2>2
<1> HIDE DEF refs
<1>8. ASSUME NEW g \in Buses, NEW i \in 1 .. Width[g]
      PROVE  Shows(pending', out', g, i - 1, bits'[g][i])
  <2>1. g # sym
    OBVIOUS
  <2>2. CASE \E n \in 1 .. Len(refs) : refs[n][1] = g
    <3>1. ASSUME NEW v PROVE Has(pending', g, v) <=> v = Reverse(bits'[g])
      <4>1. Has(pending', g, v) <=> Has(mid, g, v)
        BY <1>7, <2>1
      <4> QED  BY <1>6, <2>2, <4>1
    <3>2. BitIn(g, i - 1, Reverse(bits'[g])) = bits'[g][i]
      BY <1>2, BusValue DEF BitsTyped
    <3> QED  BY <3>1, <3>2 DEF Shows
  <2>3. CASE ~ \E n \in 1 .. Len(refs) : refs[n][1] = g
    <3>1. ASSUME NEW v PROVE Has(pending', g, v) <=> Has(pending, g, v)
      <4>1. Has(pending', g, v) <=> Has(mid, g, v)
        BY <1>7, <2>1
      <4> QED  BY <1>6, <2>3, <4>1
    <3>2. <<g, i - 1>> \notin ToSet(refs)
      <4> SUFFICES ASSUME NEW n \in 1 .. Len(refs), refs[n] = <<g, i - 1>> PROVE FALSE
        BY <1>4 DEF ToSet
      <4>1. refs[n][1] = g
        OBVIOUS
      <4> QED  BY <2>3, <4>1
    <3>3. bits'[g][i] = bits[g][i]
      BY <1>2, <3>2
    <3>4. Shows(pending, out, g, i - 1, bits[g][i])
      BY DEF Mirrored
    <3> QED  BY <1>1, <3>1, <3>3, <3>4 DEF Shows
  <2> QED  BY <2>2, <2>3
<1>9. ASSUME NEW s \in Aliases, NEW k \in DOMAIN BitMap[s]
      PROVE  Shows(pending', out', s, 0, bits'[BitMap[s][k][1]][BitMap[s][k][2] + 1])
  <2> DEFINE g == BitMap[s][k][1]
             j == BitMap[s][k][2]
             i == j + 1
  <2>1. /\ s \in DOMAIN Width /\ s \in DOMAIN BitMap /\ Width[s] = 1 /\ s \notin Unsized
        /\ s \notin Buses
        /\ BitMap[s][k] = <<g, j>> /\ g \in Buses /\ j \in Nat /\ i \in 1 .. Width[g]
    BY RefIsBit, BusAssumption DEF Aliases
  <2>2. <<g, j>> \in ToSet(BitMap[s])
    BY <2>1 DEF ToSet
  <2>3. i - 1 = j
    BY <2>1
  <2>4. Shows(pending, out, s, 0, bits[g][i])
    BY DEF Mirrored
  <2> HIDE DEF g, j, i
  <2>5. CASE s = sym
    <3>1. Standalone(sym)
      BY <2>1, <2>5 DEF Standalone, InWhole, Whole
    <3>2. \A v : Has(pending', s, v) <=> v = Clamp(sym, value)
      BY <1>7, <2>5, <3>1
    <3>3. bits'[g][i] = BitOf(value)
      <4>1. <<g, i - 1>> \in ToSet(refs)
        BY <2>1, <2>2, <2>3, <2>5 DEF refs, Refs
      <4> QED  BY <1>2, <2>1, <4>1
    <3>4. BitIn(s, 0, Clamp(sym, value)) = BitOf(value)
      BY <2>1, <2>5, OneBitValue
    <3>5. Shows(pending', out', s, 0, bits'[g][i])
      BY <3>2, <3>3, <3>4 DEF Shows
    <3> QED  BY <3>5 DEF g, j, i
  <2>6. CASE s # sym
    <3>1. ASSUME NEW v PROVE Has(pending', s, v) <=> Has(pending, s, v)
      <4>1. Has(pending', s, v) <=> Has(mid, s, v)
        BY <1>7, <2>6
      <4> QED  BY <1>6, <2>1, <4>1
    <3>2. <<g, i - 1>> \notin ToSet(refs)
      <4> SUFFICES ASSUME <<g, j>> \in ToSet(refs) PROVE FALSE
        BY <2>3
      <4>0. DOMAIN refs # {}
        BY <1>4 DEF ToSet
      <4>1. sym \in DOMAIN BitMap /\ refs = BitMap[sym]
        <5>1. sym \notin DOMAIN BitMap => refs = <<>>
          BY DEF refs, Refs
        <5>2. DOMAIN <<>> = {}
          OBVIOUS
        <5>3. sym \in DOMAIN BitMap
          BY <4>0, <5>1, <5>2
        <5> QED  BY <5>3 DEF refs, Refs
      <4>2. ToSet(BitMap[s]) \intersect ToSet(BitMap[sym]) # {}
        BY <2>2, <4>1
      <4> QED  BY <2>1, <2>6, <4>1, <4>2, BusAssumption
    <3>3. bits'[g][i] = bits[g][i]
      BY <1>2, <2>1, <3>2
    <3>4. Shows(pending', out', s, 0, bits'[g][i])
      BY <1>1, <2>4, <3>1, <3>3 DEF Shows
    <3> QED  BY <3>4 DEF g, j, i
  <2> QED  BY <2>5, <2>6
<1>10. Mirrored'
  BY <1>8, <1>9 DEF Mirrored
<1> QED  BY <1>2, <1>10

\* The events of a flush: those there were, and what was pending at the time of the walk.
LEMMA FlushedShape ==
  ASSUME EventsTyped, ~ (now < walk.t0)
  PROVE  /\ Len(out) \in Nat /\ Len(pending) \in Nat /\ Flushed \in Seq(Event)
         /\ Len(Flushed) = Len(out) + Len(pending)
         /\ \A i \in 1 .. Len(out) : Flushed[i] = out[i]
         /\ \A i \in 1 .. Len(pending) :
              /\ Flushed[Len(out) + i].at = now
              /\ Flushed[Len(out) + i].sid = pending[i].sid
              /\ Flushed[Len(out) + i].value = pending[i].value
<1> DEFINE new == [i \in DOMAIN pending |->
                     [at |-> now, sid |-> pending[i].sid, value |-> pending[i].value]]
           both == out \o new
           m == Len(out)
           n == Len(pending)
<1>1. /\ out \in Seq(Event) /\ m \in Nat /\ now \in Nat
      /\ pending \in Seq(Item) /\ n \in Nat /\ DOMAIN pending = 1 .. n
      /\ \A i \in 1 .. n : pending[i] \in Item
  BY DEF EventsTyped, Dict
<1>2. \A i \in 1 .. n : /\ new[i].at = now /\ new[i].sid = pending[i].sid
                        /\ new[i].value = pending[i].value /\ new[i] \in Event
  BY <1>1 DEF Item, Event
<1>3. new \in Seq(Event) /\ Len(new) = n
  <2>1. new = [i \in 1 .. n |-> new[i]]
    BY <1>1
  <2> HIDE DEF new, n
  <2> QED  BY <1>1, <1>2, <2>1
<1>4. Flushed = both
  BY DEF Flushed
<1> HIDE DEF new
<1>5. /\ both \in Seq(Event) /\ Len(both) = m + n
      /\ \A i \in 1 .. m + n : both[i] = IF i <= m THEN out[i] ELSE new[i - m]
  <2>1. /\ both \in Seq(Event) /\ Len(both) = Len(out) + Len(new)
        /\ \A i \in 1 .. Len(out) + Len(new) :
             both[i] = IF i <= Len(out) THEN out[i] ELSE new[i - Len(out)]
    BY <1>1, <1>3, ConcatProperties
  <2> HIDE DEF both
  <2> QED  BY <1>3, <2>1
<1> HIDE DEF both, m, n
<1>6. \A i \in 1 .. m : both[i] = out[i]
  BY <1>1, <1>5
<1>7. \A i \in 1 .. n : both[m + i] = new[i]
  <2> SUFFICES ASSUME NEW i \in 1 .. n PROVE both[m + i] = new[i]
    OBVIOUS
  <2>1. m + i \in 1 .. m + n /\ ~ (m + i <= m) /\ (m + i) - m = i
    BY <1>1
  <2> QED  BY <1>5, <2>1
<1> QED  BY <1>1, <1>2, <1>4, <1>5, <1>6, <1>7 DEF m, n

\* What is shown before a flush is in the events after it.
LEMMA FlushShows ==
  ASSUME EventsTyped, InWhole, NEW sid, NEW bit, NEW c, Shows(pending, out, sid, bit, c),
         NEW k, IsLast(Flushed, sid, k)
  PROVE  BitAt(Flushed, sid, bit, k) = c
<1> DEFINE m == Len(out)
           n == Len(pending)
<1>1. ~ (now < walk.t0)
  BY DEF InWhole, Whole, EventsTyped
<1>2. /\ m \in Nat /\ n \in Nat /\ Len(Flushed) = m + n
      /\ \A i \in 1 .. m : Flushed[i] = out[i]
      /\ \A i \in 1 .. n : /\ Flushed[m + i].sid = pending[i].sid
                           /\ Flushed[m + i].value = pending[i].value
  BY <1>1, FlushedShape
<1>3. /\ k \in 0 .. m + n /\ (k # 0 => Flushed[k].sid = sid)
      /\ \A j \in 1 .. m + n : Flushed[j].sid = sid => j <= k
  BY <1>2 DEF IsLast
<1>4. CASE \E i \in 1 .. n : pending[i].sid = sid
  <2>1. PICK i \in 1 .. n : pending[i].sid = sid
    BY <1>4
  <2> HIDE DEF m, n
  <2>2. m + i \in 1 .. m + n /\ m + i <= k
    BY <1>2, <1>3, <2>1
  <2> DEFINE j == k - m
  <2>3. j \in 1 .. n /\ k = m + j /\ k # 0
    BY <1>2, <1>3, <2>1, <2>2
  <2> HIDE DEF j
  <2>4. pending[j].sid = sid /\ Flushed[k].value = pending[j].value
    BY <1>2, <1>3, <2>3
  <2>5. Has(pending, sid, pending[j].value)
    BY <2>3, <2>4 DEF Has, n
  <2>6. BitIn(sid, bit, pending[j].value) = c
    BY <2>5 DEF Shows
  <2> QED  BY <2>3, <2>4, <2>6 DEF BitAt
<1>5. CASE ~ \E i \in 1 .. n : pending[i].sid = sid
  <2>1. ~ \E v : Has(pending, sid, v)
    BY <1>5 DEF Has
  <2> HIDE DEF m, n
  <2>2. k \in 0 .. m
    <3> SUFFICES ASSUME k > m PROVE FALSE
      BY <1>2, <1>3
    <3>1. k - m \in 1 .. n /\ k # 0 /\ m + (k - m) = k
      BY <1>2, <1>3
    <3>2. Flushed[m + (k - m)].sid = pending[k - m].sid
      BY <1>2, <3>1
    <3> QED  BY <1>3, <1>5, <3>1, <3>2
  <2>3. IsLast(out, sid, k)
    <3>1. k # 0 => k \in 1 .. m
      BY <1>2, <2>2
    <3>2. \A j \in 1 .. m : j \in 1 .. m + n
      BY <1>2
    <3> QED  BY <1>2, <1>3, <2>2, <3>1, <3>2 DEF IsLast, m
  <2>4. BitAt(out, sid, bit, k) = c
    BY <2>1, <2>3 DEF Shows
  <2>5. k # 0 => Flushed[k] = out[k]
    BY <1>2, <2>2
  <2> QED  BY <2>4, <2>5 DEF BitAt
<1> QED  BY <1>4, <1>5

-----------------------------------------------------------------------------
(* The invariant.                                                           *)

Listed(events) == Len(events) \in Nat /\ DOMAIN events = 1 .. Len(events)

\* What AliasesAgree says of a list of events.
Agree(events) ==
  \A sym \in Aliases : \A k \in DOMAIN BitMap[sym] :
    \A t \in {events[i].at : i \in DOMAIN events} : \A m, n \in 0 .. Len(events) :
      IsLastOf(events, BitMap[sym][k][1], t, m) /\ IsLastOf(events, sym, t, n) =>
        BitAt(events, BitMap[sym][k][1], BitMap[sym][k][2], m) = BitAt(events, sym, 0, n)

Replayed(r) == r.ok /\ r.walk.kind = "replay" /\ Whole(r.walk)

DoneAgree ==
  \A n \in DOMAIN done : Replayed(done[n]) => Listed(done[n].out) /\ Agree(done[n].out)

AliasInv ==
  /\ file \in Files
  /\ mode = "value" => carry.value # <<>>
  /\ InWhole => BitsTyped /\ Mirrored
  /\ Forward => (InWhole => Agree(out)) /\ DoneAgree

\* The events of a flush agree where those before it did.
LEMMA FlushAgrees ==
  ASSUME EventsTyped, InWhole, BitsTyped, Mirrored, OutBefore, GoForward(out), Agree(out)
  PROVE  Listed(Flushed) /\ Agree(Flushed)
<1> DEFINE m == Len(out)
           n == Len(pending)
<1>1. ~ (now < walk.t0)
  BY DEF InWhole, Whole, EventsTyped
<1>2. /\ m \in Nat /\ n \in Nat /\ Len(Flushed) = m + n /\ Flushed \in Seq(Event)
      /\ \A i \in 1 .. m : Flushed[i] = out[i]
      /\ \A i \in 1 .. n : Flushed[m + i].at = now
  BY <1>1, FlushedShape
<1>3. \A i \in 1 .. m + n : Flushed[i].at <= now /\ Flushed[i].at \in Nat
  <2>1. \A i \in 1 .. Len(Flushed) : Flushed[i].at <= now
    BY FlushedForward
  <2>2. ASSUME NEW i \in 1 .. Len(Flushed) PROVE Flushed[i].at \in Nat
    <3>1. Flushed[i] \in Event
      BY <1>2, ElementOfSeq
    <3> QED  BY <3>1 DEF Event
  <2> HIDE DEF m, n
  <2> QED  BY <1>2, <2>1, <2>2
<1>n. now \in Nat
  BY DEF EventsTyped
<1>4. SUFFICES ASSUME NEW sym \in Aliases, NEW k \in DOMAIN BitMap[sym],
                      NEW e \in 1 .. m + n, NEW p \in 0 .. m + n, NEW q \in 0 .. m + n,
                      IsLastOf(Flushed, BitMap[sym][k][1], Flushed[e].at, p),
                      IsLastOf(Flushed, sym, Flushed[e].at, q)
               PROVE  BitAt(Flushed, BitMap[sym][k][1], BitMap[sym][k][2], p)
                        = BitAt(Flushed, sym, 0, q)
  <2>1. DOMAIN Flushed = 1 .. m + n
    BY <1>2
  <2> QED  BY <1>2, <2>1 DEF Agree, Listed
<1> DEFINE g == BitMap[sym][k][1]
           j == BitMap[sym][k][2]
           t == Flushed[e].at
<1>5. /\ sym \in DOMAIN BitMap /\ g \in Buses /\ j \in Nat
      /\ j + 1 \in 1 .. Width[g] /\ (j + 1) - 1 = j
  <2>1. sym \in DOMAIN BitMap
    BY DEF Aliases
  <2>2. g \in Buses /\ j \in Nat /\ j + 1 \in 1 .. Width[g]
    BY <2>1, RefIsBit
  <2> HIDE DEF g, j
  <2>3. (j + 1) - 1 = j
    BY <2>2
  <2> QED  BY <2>1, <2>2, <2>3
<1>6. /\ Shows(pending, out, g, j, bits[g][j + 1])
      /\ Shows(pending, out, sym, 0, bits[g][j + 1])
  <2>1. Shows(pending, out, g, (j + 1) - 1, bits[g][j + 1])
    BY <1>5 DEF Mirrored
  <2>2. Shows(pending, out, sym, 0, bits[g][j + 1])
    BY DEF Mirrored
  <2> QED  BY <1>5, <2>1, <2>2
<1>d. DOMAIN Flushed = 1 .. m + n /\ DOMAIN out = 1 .. m
  BY <1>2 DEF EventsTyped
<1> HIDE DEF m, n, g, j
<1>7. CASE t = now
  <2>1. ASSUME NEW s, NEW r \in 0 .. m + n, IsLastOf(Flushed, s, t, r) PROVE IsLast(Flushed, s, r)
    <3>1. \A i \in 1 .. m + n : Flushed[i].at <= t
      BY <1>3, <1>7
    <3>2. \A i \in 1 .. m + n : Flushed[i].sid = s => i <= r
      BY <1>d, <2>1, <3>1 DEF IsLastOf
    <3>3. r # 0 => Flushed[r].sid = s
      BY <1>d, <2>1 DEF IsLastOf
    <3> QED  BY <1>2, <3>2, <3>3 DEF IsLast
  <2>2. IsLast(Flushed, g, p) /\ IsLast(Flushed, sym, q)
    BY <1>4, <2>1 DEF g
  <2>3. BitAt(Flushed, g, j, p) = bits[g][j + 1] /\ BitAt(Flushed, sym, 0, q) = bits[g][j + 1]
    BY <1>6, <2>2, FlushShows
  <2> QED  BY <2>3 DEF g, j
<1>8. CASE t # now
  <2>1. t \in Nat /\ t < now
    BY <1>3, <1>8, <1>n
  <2>2. \A i \in m + 1 .. m + n : Flushed[i].at = now
    <3> SUFFICES ASSUME NEW i \in m + 1 .. m + n PROVE Flushed[i].at = now
      OBVIOUS
    <3>1. i - m \in 1 .. n /\ m + (i - m) = i
      BY <1>2
    <3>2. Flushed[m + (i - m)].at = now
      BY <1>2, <3>1
    <3> QED  BY <3>1, <3>2
  <2>3. \A i \in 1 .. m + n : i \in 1 .. m \/ i \in m + 1 .. m + n
    BY <1>2
  <2>4. \A i \in 1 .. m + n : Flushed[i].at <= t => i \in 1 .. m
    BY <1>n, <2>1, <2>2, <2>3
  <2>5. e \in 1 .. m /\ out[e].at = t
    <3>1. e \in 1 .. m
      BY <1>n, <2>1, <2>4
    <3> QED  BY <1>2, <3>1
  <2>6. \A i \in 1 .. m : i \in 1 .. m + n
    BY <1>2
  <2>7. ASSUME NEW s, NEW r \in 0 .. m + n, IsLastOf(Flushed, s, t, r)
        PROVE  r \in 0 .. m /\ IsLastOf(out, s, t, r)
    <3> HIDE DEF t
    <3>1. r # 0 => r \in 1 .. m + n /\ Flushed[r].sid = s /\ Flushed[r].at <= t
      BY <1>d, <2>7 DEF IsLastOf
    <3>2. r # 0 => r \in 1 .. m /\ out[r].sid = s /\ out[r].at <= t
      BY <1>2, <2>4, <3>1
    <3>3. \A i \in 1 .. m : out[i].sid = s /\ out[i].at <= t => i <= r
      BY <1>2, <1>d, <2>6, <2>7 DEF IsLastOf
    <3>4. r \in 0 .. m
      BY <1>2, <3>2
    <3> QED  BY <1>d, <3>2, <3>3, <3>4 DEF IsLastOf
  <2>8. /\ p \in 0 .. m /\ IsLastOf(out, g, t, p)
        /\ q \in 0 .. m /\ IsLastOf(out, sym, t, q)
    BY <1>4, <2>7 DEF g
  <2>9. t \in {out[i].at : i \in DOMAIN out}
    BY <1>d, <2>5
  <2>10. BitAt(out, g, j, p) = BitAt(out, sym, 0, q)
    <3> HIDE DEF t
    <3> QED  BY <2>8, <2>9 DEF Agree, g, j, m
  <2>11. (p # 0 => Flushed[p] = out[p]) /\ (q # 0 => Flushed[q] = out[q])
    BY <1>2, <2>8
  <2>12. BitAt(Flushed, g, j, p) = BitAt(Flushed, sym, 0, q)
    BY <2>10, <2>11 DEF BitAt
  <2> QED  BY <2>12 DEF g, j
<1> QED  BY <1>2, <1>7, <1>8

\* There is a last event up to a time, or none.
LEMMA LastOfExists ==
  ASSUME NEW events, Listed(events), NEW sid, NEW t
  PROVE  /\ LastOf(events, sid, t) \in 0 .. Len(events)
         /\ IsLastOf(events, sid, t, LastOf(events, sid, t))
<1> DEFINE there == {i \in DOMAIN events : events[i].sid = sid /\ events[i].at <= t}
<1>1. there \subseteq 1 .. Len(events) /\ Len(events) \in Nat
  BY DEF Listed
<1> HIDE DEF there
<1>2. PICK k \in there \union {0} : \A i \in there : i <= k
  BY <1>1, Greatest
<1>3. k \in 0 .. Len(events)
  BY <1>1, <1>2
<1>4. IsLastOf(events, sid, t, k)
  BY <1>2 DEF IsLastOf, there
<1> QED  BY <1>3, <1>4 DEF LastOf

LEMMA AgreeMeans ==
  ASSUME NEW events, Listed(events), Agree(events),
         NEW sym \in Aliases, NEW k \in DOMAIN BitMap[sym],
         NEW t \in {events[i].at : i \in DOMAIN events}
  PROVE  ShownBit(events, BitMap[sym][k][1], BitMap[sym][k][2], t) = ShownBit(events, sym, 0, t)
<1> DEFINE g == BitMap[sym][k][1]
           m == LastOf(events, g, t)
           n == LastOf(events, sym, t)
<1>1. /\ m \in 0 .. Len(events) /\ IsLastOf(events, g, t, m)
      /\ n \in 0 .. Len(events) /\ IsLastOf(events, sym, t, n)
  <2> HIDE DEF g
  <2> QED  BY LastOfExists
<1> HIDE DEF m, n
<1>2. BitAt(events, g, BitMap[sym][k][2], m) = BitAt(events, sym, 0, n)
  BY <1>1 DEF Agree
<1> QED  BY <1>2 DEF BitAt, ShownBit, m, n

LEMMA DoneAgreeGrows ==
  ASSUME EventsTyped, DoneAgree, NEW r, done' = Append(done, r),
         Replayed(r) => Listed(r.out) /\ Agree(r.out)
  PROVE  DoneAgree'
<1> DEFINE S == ToSet(done) \union {r}
           n == Len(done)
<1>1. done \in Seq(S) /\ r \in S /\ n \in Nat /\ DOMAIN done = 1 .. n
  BY DEF EventsTyped
<1> HIDE DEF S
<1>2. /\ DOMAIN done' = 1 .. n + 1 /\ done'[n + 1] = r
      /\ \A k \in 1 .. n : done'[k] = done[k]
  BY <1>1
<1>3. ASSUME NEW k \in 1 .. n + 1, Replayed(done'[k])
      PROVE  Listed(done'[k].out) /\ Agree(done'[k].out)
  <2>1. k \in 1 .. n \/ k = n + 1
    BY <1>1
  <2>2. CASE k \in 1 .. n
    BY <1>1, <1>2, <1>3, <2>2 DEF DoneAgree
  <2>3. CASE k = n + 1
    BY <1>2, <1>3, <2>3
  <2> QED  BY <2>1, <2>2, <2>3
<1> QED  BY <1>2, <1>3 DEF DoneAgree

\* A step that leaves the events and the bits alone.
LEMMA AliasQuiet ==
  ASSUME EventsTyped, AliasInv, UNCHANGED <<file, walk, bits, pending, out>>,
         mode' # "idle" => mode # "idle", mode' = "value" => carry'.value # <<>>,
         \/ done' = done
         \/ \E r : /\ done' = Append(done, r)
                   /\ DoneAgree /\ Replayed(r) /\ Forward => Listed(r.out) /\ Agree(r.out)
  PROVE  AliasInv'
<1>1. InWhole' => InWhole
  BY DEF InWhole
<1>2. BitsTyped' = BitsTyped /\ Mirrored' = Mirrored /\ Forward' = Forward
  BY DEF BitsTyped, Mirrored, Forward
<1>3. ASSUME Forward PROVE DoneAgree'
  <2>1. DoneAgree
    BY <1>3 DEF AliasInv
  <2>2. CASE done' = done
    BY <2>1, <2>2 DEF DoneAgree
  <2>3. CASE \E r : /\ done' = Append(done, r)
                    /\ DoneAgree /\ Replayed(r) /\ Forward => Listed(r.out) /\ Agree(r.out)
    BY <1>3, <2>1, <2>3, DoneAgreeGrows
  <2> QED  BY <2>2, <2>3
<1> QED  BY <1>1, <1>2, <1>3 DEF AliasInv

\* A whole walk begins with bits that are not known and nothing to show.
LEMMA AliasBegin ==
  ASSUME AliasInv, NEW w, Begin(w)
  PROVE  AliasInv'
<1>1. /\ walk' = w /\ mode' = "top" /\ bits' = NewBits(w) /\ pending' = <<>> /\ out' = <<>>
      /\ UNCHANGED <<file, carry, done>>
  BY DEF Begin
<1>2. ASSUME NEW s, NEW b PROVE Shows(<<>>, <<>>, s, b, "x")
  <2>1. \A v : ~ Has(<<>>, s, v)
    BY DEF Has
  <2>2. \A k : IsLast(<<>>, s, k) => k = 0
    BY DEF IsLast
  <2> QED  BY <2>1, <2>2 DEF Shows, BitAt
<1>3. ASSUME InWhole' PROVE BitsTyped' /\ Mirrored'
  <2>1. DOMAIN bits' = Buses /\ \A g \in Buses : bits'[g] = [i \in 1 .. Width[g] |-> "x"]
    <3>1. Buses \intersect w.sids = Buses
      BY <1>1, <1>3, BusesAreSignals DEF InWhole, Whole
    <3> QED  BY <1>1, <3>1 DEF NewBits
  <2>2. ASSUME NEW g \in Buses
        PROVE  /\ bits'[g] \in Seq(Bits) /\ Len(bits'[g]) = Width[g]
               /\ \A i \in 1 .. Width[g] : bits'[g][i] = "x"
    <3> DEFINE n == Width[g]
               b == [i \in 1 .. n |-> "x"]
    <3>1. n \in Nat
      BY BusesAreSignals, SignalAssumption
    <3>2. \A i \in 1 .. n : b[i] \in Bits /\ b[i] = "x"
      BY DEF Bits
    <3>3. b = [i \in 1 .. n |-> b[i]]
      OBVIOUS
    <3>4. bits'[g] = b
      BY <2>1
    <3> HIDE DEF b, n
    <3>5. b \in Seq(Bits) /\ Len(b) = n
      BY <3>1, <3>2, <3>3
    <3> QED  BY <3>2, <3>4, <3>5 DEF n
  <2>3. BitsTyped'
    BY <2>1, <2>2 DEF BitsTyped
  <2>4. ASSUME NEW g \in Buses, NEW i \in 1 .. Width[g]
        PROVE  Shows(pending', out', g, i - 1, bits'[g][i])
    BY <1>1, <1>2, <2>2
  <2>5. ASSUME NEW s \in Aliases, NEW k \in DOMAIN BitMap[s]
        PROVE  Shows(pending', out', s, 0, bits'[BitMap[s][k][1]][BitMap[s][k][2] + 1])
    <3>1. /\ BitMap[s][k][1] \in Buses
          /\ BitMap[s][k][2] + 1 \in 1 .. Width[BitMap[s][k][1]]
      BY RefIsBit DEF Aliases
    <3> QED  BY <1>1, <1>2, <2>2, <3>1
  <2> QED  BY <2>3, <2>4, <2>5 DEF Mirrored
<1>4. Agree(out') /\ Forward' = Forward /\ (DoneAgree => DoneAgree')
  BY <1>1 DEF Agree, Forward, DoneAgree
<1> QED  BY <1>1, <1>3, <1>4 DEF AliasInv

\* A timestamp turns what is pending into events, which show what was shown.
LEMMA AliasStamp ==
  ASSUME EventsTyped, Forward => OutBefore /\ GoForward(out), AliasInv, NEW tok, ReplayStamp(tok)
  PROVE  AliasInv'
<1>1. /\ mode = "top" /\ walk.kind = "replay" /\ UNCHANGED <<file, walk, bits>> /\ out' = Flushed
      /\ pending' = IF now < walk.t0 THEN pending ELSE <<>>
      /\ mode' # "value"
      /\ \/ done' = done
         \/ walk.t1 # NoTime /\ done' = Append(done, Result(TRUE, Flushed, range))
  BY DEF ReplayStamp, AtTop, EndWalk
<1>2. InWhole' => InWhole
  BY <1>1 DEF InWhole
<1>3. ASSUME InWhole PROVE pending' = <<>>
  BY <1>1, <1>3 DEF InWhole, Whole, EventsTyped
<1>4. ASSUME InWhole, NEW s, NEW b, NEW c, Shows(pending, out, s, b, c)
      PROVE  Shows(pending', out', s, b, c)
  <2>1. \A v : ~ Has(<<>>, s, v)
    BY DEF Has
  <2>2. \A k : IsLast(Flushed, s, k) => BitAt(Flushed, s, b, k) = c
    BY <1>4, FlushShows
  <2> QED  BY <1>1, <1>3, <1>4, <2>1, <2>2 DEF Shows
<1>5. ASSUME InWhole PROVE BitsTyped' /\ Mirrored'
  <2>1. BitsTyped /\ Mirrored
    BY <1>5 DEF AliasInv
  <2>2. BitsTyped'
    BY <1>1, <2>1 DEF BitsTyped
  <2>3. Mirrored'
    BY <1>1, <1>4, <1>5, <2>1 DEF Mirrored
  <2> QED  BY <2>2, <2>3
<1>6. Forward' = Forward
  BY <1>1 DEF Forward
<1>7. ASSUME Forward, InWhole PROVE Agree(out')
  BY <1>1, <1>7, FlushAgrees DEF AliasInv
<1>8. ASSUME Forward PROVE DoneAgree'
  <2>1. DoneAgree
    BY <1>8 DEF AliasInv
  <2>2. CASE done' = done
    BY <2>1, <2>2 DEF DoneAgree
  <2>3. CASE walk.t1 # NoTime /\ done' = Append(done, Result(TRUE, Flushed, range))
    <3>1. ~ Replayed(Result(TRUE, Flushed, range))
      BY <2>3 DEF Replayed, Result, Whole
    <3> QED  BY <2>1, <2>3, <3>1, DoneAgreeGrows
  <2> QED  BY <1>1, <2>2, <2>3
<1> QED  BY <1>1, <1>2, <1>5, <1>6, <1>7, <1>8 DEF AliasInv

LEMMA AliasChange ==
  ASSUME EventsTyped, AliasInv, NEW sym \in STRING, sym \notin Buses,
         NEW value \in Value, value # <<>>, Change(sym, value),
         mode # "idle", mode' = "top", UNCHANGED <<file, walk, done>>
  PROVE  AliasInv'
<1>1. InWhole' => InWhole
  BY DEF InWhole
<1>2. out' = out
  BY ChangeTyped
<1>3. ASSUME InWhole PROVE BitsTyped' /\ Mirrored'
  BY <1>3, ChangeMirrors DEF AliasInv
<1>4. Forward' = Forward /\ DoneAgree' = DoneAgree
  BY DEF Forward, DoneAgree
<1> QED  BY <1>1, <1>2, <1>3, <1>4 DEF AliasInv

LEMMA AliasInit == Init => AliasInv
  BY DEF Init, AliasInv, InWhole, DoneAgree

LEMMA AliasNext == IInv /\ EventInv /\ AliasInv /\ [Next]_vars => AliasInv'
<1> SUFFICES ASSUME IInv, EventInv, AliasInv, [Next]_vars PROVE AliasInv'
  OBVIOUS
<1>1. EventsTyped /\ (Forward => OutBefore /\ GoForward(out)) /\ file \in Files
  BY DEF EventInv, AliasInv
<1>2. ASSUME NEW w \in Walks(file), Begin(w) PROVE AliasInv'
  BY <1>2, AliasBegin
<1>3. ASSUME NEW tok \in ToSet(file),
             \/ Mark(tok) \/ OpenSection(tok) \/ SkipStamp(tok) \/ StampTooLarge(tok)
             \/ ScanStamp(tok) \/ Junk(tok)
      PROVE  AliasInv'
  <2>1. /\ UNCHANGED <<file, walk, bits, pending, out>> /\ mode = "top" /\ mode' # "value"
    BY <1>3 DEF Mark, OpenSection, SkipStamp, StampTooLarge, ScanStamp, Junk, AtTop, EndWalk, effect
  <2>2. done' = done \/ done' = Append(done, Result(FALSE, out, range))
    BY <1>3 DEF Mark, OpenSection, SkipStamp, StampTooLarge, ScanStamp, Junk, EndWalk
  <2>3. ~ Replayed(Result(FALSE, out, range))
    BY DEF Replayed, Result
  <2> QED  BY <1>1, <2>1, <2>2, <2>3, AliasQuiet
<1>4. ASSUME NEW tok \in ToSet(file), ReplayStamp(tok) PROVE AliasInv'
  BY <1>1, <1>4, AliasStamp
<1>5. ASSUME NEW tok \in ToSet(file), ScalarChange(tok) PROVE AliasInv'
  <2>1. /\ mode = "top" /\ mode' = mode /\ UNCHANGED <<file, walk, done>>
        /\ tok \in DOMAIN Scalar /\ Change(Scalar[tok].sym, Scalar[tok].value)
    BY <1>5 DEF ScalarChange, AtTop
  <2>2. /\ Scalar[tok].sym \in STRING /\ Scalar[tok].value \in Value
        /\ Scalar[tok].value # <<>> /\ Scalar[tok].sym \notin Buses
    BY <2>1, ValueAssumption, BusAssumption, TextIsValue
  <2> QED  BY <1>1, <2>1, <2>2, AliasChange
<1>6. ASSUME NEW tok \in ToSet(file), TakeIdentifier(tok) PROVE AliasInv'
  <2>1. /\ mode = "value" /\ mode' = "top" /\ UNCHANGED <<file, walk, done>>
        /\ Change(tok, carry.value)
    BY <1>6 DEF TakeIdentifier
  <2>2. tok \in STRING /\ tok \notin Buses
    BY <1>1, TokenIsString, BusAssumption
  <2>3. carry.value \in Value /\ carry.value # <<>>
    BY <1>1, <2>1 DEF EventsTyped, AliasInv
  <2> QED  BY <1>1, <2>1, <2>2, <2>3, AliasChange
<1>7. ASSUME NEW tok \in ToSet(file), BeginValue(tok) \/ TakeStrength(tok) PROVE AliasInv'
  <2>1. UNCHANGED <<file, walk, bits, pending, out, done>> /\ mode # "idle"
    BY <1>7 DEF BeginValue, TakeStrength, AtTop, effect
  <2>2. carry'.value # <<>>
    <3>1. CASE BeginValue(tok)
      <4>1. \/ tok \in DOMAIN Vector /\ carry'.value = Vector[tok]
            \/ tok \in DOMAIN Port /\ carry'.value = Port[tok]
        BY <3>1 DEF BeginValue
      <4> QED  BY <4>1, ValueAssumption
    <3>2. CASE TakeStrength(tok)
      <4>1. mode = "value" /\ carry'.value = carry.value
        BY <3>2 DEF TakeStrength
      <4> QED  BY <4>1 DEF AliasInv
    <3> QED  BY <1>7, <3>1, <3>2
  <2> QED  BY <1>1, <2>1, <2>2, AliasQuiet
<1>8. CASE SkipSection \/ GiveUp
  <2>1. /\ UNCHANGED <<file, walk, bits, pending, out, done>> /\ mode # "idle" /\ mode' # "value"
    BY <1>8 DEF SkipSection, GiveUp, effect
  <2> QED  BY <1>1, <2>1, AliasQuiet
<1>9. CASE Abandon
  <2>1. /\ UNCHANGED <<file, walk, bits, pending, out>> /\ mode # "idle" /\ mode' = "idle"
        /\ done' = Append(done, Result(FALSE, out, range))
    BY <1>9 DEF Abandon, EndWalk, effect
  <2>2. ~ Replayed(Result(FALSE, out, range))
    BY DEF Replayed, Result
  <2> QED  BY <1>1, <2>1, <2>2, AliasQuiet
<1>10. CASE Finish
  <2>1. /\ UNCHANGED <<file, walk, bits, pending, out>> /\ mode = "top" /\ mode' = "idle"
    BY <1>10 DEF Finish, EndWalk, effect
  <2>2. PICK r : done' = Append(done, r) /\ (Replayed(r) => InWhole /\ r.out = Flushed)
    <3>1. CASE walk.kind = "replay"
      <4>1. done' = Append(done, Result(TRUE, Flushed, range))
        BY <1>10, <3>1 DEF Finish, EndWalk
      <4>2. Replayed(Result(TRUE, Flushed, range)) => InWhole
        BY <2>1 DEF Replayed, Result, InWhole
      <4>3. Result(TRUE, Flushed, range).out = Flushed
        BY DEF Result
      <4> QED  BY <4>1, <4>2, <4>3
    <3>2. CASE walk.kind # "replay"
      <4>1. PICK times : done' = Append(done, Result(TRUE, out, times))
        BY <1>10, <3>2 DEF Finish, EndWalk
      <4>2. ~ Replayed(Result(TRUE, out, times))
        BY <3>2 DEF Replayed, Result
      <4> QED  BY <4>1, <4>2
    <3> QED  BY <3>1, <3>2
  <2>3. ASSUME Forward, Replayed(r) PROVE Listed(r.out) /\ Agree(r.out)
    BY <1>1, <2>2, <2>3, FlushAgrees DEF AliasInv
  <2> QED  BY <1>1, <2>1, <2>2, <2>3, AliasQuiet
<1>11. CASE UNCHANGED vars
  <2>1. UNCHANGED <<file, walk, bits, pending, out, done, mode, carry>>
    BY <1>11 DEF vars, parse, effect
  <2>2. mode' = "value" => carry'.value # <<>>
    BY <2>1 DEF AliasInv
  <2> QED  BY <1>1, <2>1, <2>2, AliasQuiet
<1> QED
  BY <1>2, <1>3, <1>4, <1>5, <1>6, <1>7, <1>8, <1>9, <1>10, <1>11 DEF Next

\* VCDParser.iter_events and its bit_map: for every file whose timestamps go forward, a
\* replay of everything that ends shows an identifier that is a signal and a bit of any
\* number of buses alike in all of them, at every time, whatever ran over the parser.
THEOREM AliasesShowTheSame == Spec => []AliasesAgree
<1>1. EventsTyped /\ AliasInv => AliasesAgree
  <2> SUFFICES ASSUME EventsTyped, AliasInv, Forward, NEW n \in DOMAIN done, Replayed(done[n]),
                      NEW sym \in Aliases, NEW k \in DOMAIN BitMap[sym],
                      NEW t \in {done[n].out[i].at : i \in DOMAIN done[n].out}
               PROVE  ShownBit(done[n].out, BitMap[sym][k][1], BitMap[sym][k][2], t)
                        = ShownBit(done[n].out, sym, 0, t)
    BY DEF AliasesAgree, Replayed
  <2>1. Listed(done[n].out) /\ Agree(done[n].out)
    BY DEF AliasInv, DoneAgree
  <2> QED  BY <2>1, AgreeMeans
<1>2. Init => IInv /\ Placed /\ EventInv /\ AliasInv
  BY WalkInit, PlacedInit, EventInit, AliasInit
<1>3. IInv /\ Placed /\ EventInv /\ AliasInv /\ [Next]_vars => (IInv /\ Placed /\ EventInv /\ AliasInv)'
  BY WalkNext, PlacedNext, EventNext, AliasNext
<1>4. EventInv => EventsTyped
  BY DEF EventInv
<1> QED  BY <1>1, <1>2, <1>3, <1>4, PTL DEF Spec
=============================================================================
