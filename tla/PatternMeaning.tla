--------------------------- MODULE PatternMeaning ---------------------------
(***************************************************************************)
(* What declarative patterns are meant to find, defined without the        *)
(* scheduler, its lists and its channel marks.                             *)
(***************************************************************************)
EXTENDS DeclarativePattern

CONSTANTS
  Req,    (* the signal that carries the id of a request, 0 for none         *)
  Resp    (* the signal that carries the id of a response                    *)

(***************************************************************************)
(* The meaning of a step list for a candidate, told without a scheduler:   *)
(* where it gets from cycle t on, if the scan ends with cycle last.        *)
(***************************************************************************)
Outcome(verdict, at, caps) == [verdict |-> verdict, at |-> at, caps |-> caps]

Earliest(S) == CHOOSE u \in S : \A w \in S : u <= w

RECURSIVE Meaning(_, _, _, _)
Meaning(s, t, caps, last) ==
  IF s = <<>> THEN Outcome("OK", t, caps)
  ELSE LET h == Head(s)
           rest == Tail(s)
           On(cond) == HoldsAt(cond, t, caps)
           Met(u) == IF h.kind = "delay" THEN u >= t + ValueAt(h.n, t, caps)
                                         ELSE HoldsAt(h.cond, u, caps)
           Broken(u) == ~HoldsAt(h.require, u, caps)
           Turns == {u \in t .. last : Met(u) \/ Broken(u)}
       IN CASE h.kind \in Blocking  ->
                 IF Turns = {} THEN Outcome("TIMEOUT", last, caps)
                 ELSE LET u == Earliest(Turns) IN
                        IF Met(u) THEN Meaning(rest, u, caps, last)
                                  ELSE Outcome("REQUIRE_VIOLATED", u, caps)
            [] h.kind = "capture" ->
                 Meaning(rest, t, [caps EXCEPT ![h.name] =
                                     Recorded(@, h.mode, ValueAt(h.source, t, caps))], last)
            [] h.kind = "require" ->
                 IF On(h.cond) THEN Meaning(rest, t, caps, last)
                               ELSE Outcome("REQUIRE_VIOLATED", t, caps)
            [] h.kind = "branch"  ->
                 Meaning((IF On(h.cond) THEN h.yes ELSE h.no) \o rest, t, caps, last)
            [] h.kind = "repeat"  ->
                 IF ValueAt(h.n, t, caps) = 0 THEN Meaning(rest, t, caps, last)
                 ELSE Meaning(h.body \o <<RepeatStep(h.body, Number(ValueAt(h.n, t, caps) - 1))>>
                                \o rest, t, caps, last)
            [] h.kind = "when"    ->
                 IF On(h.cond) THEN Meaning(h.body \o s, t, caps, last)
                               ELSE Meaning(rest, t, caps, last)
            [] h.kind = "until"   ->
                 LET once == Meaning(h.body, t, caps, last) IN
                   IF once.verdict # "OK" THEN once
                   ELSE IF HoldsAt(h.cond, once.at, once.caps)
                          THEN Meaning(rest, once.at, once.caps, last)
                          ELSE Meaning(s, once.at, once.caps, last)

Discarded(c) ==
  /\ program[1].kind = "wait" /\ program[1].require = NoGuard
  /\ ~HoldsAt(program[1].cond, c, NoCaptures)

WithChannels == \E i \in DOMAIN program : program[i].kind = "consume"

\* A pattern without channels gives each candidate what its steps mean, cut
\* off by the time limit: no other candidate and no point of suspension has a
\* say in its verdict, its end or its captures.
VerdictIsMeaning ==
  pc = "done" /\ ~WithChannels =>
    \A c \in start .. stop - 1 :
      LET m == Meaning(program, c, NoCaptures, stop - 1)
          cut == IF Timed THEN c + TimeoutCycles ELSE stop
      IN CASE Discarded(c) /\ (Timed => TimeoutCycles > 0) -> status[c] = "discarded"
           [] ~Discarded(c) /\ m.at < cut ->
                status[c] = m.verdict /\ endAt[c] = m.at /\ captures[c] = m.caps
           [] OTHER -> status[c] = "TIMEOUT" /\ endAt[c] = cut

(***************************************************************************)
(* First come, first served, per key: the queue a transaction pattern is   *)
(* meant to stand for.  At each cycle the requests that ran out of time    *)
(* leave, a request enters, and a response serves the oldest of its key.   *)
(***************************************************************************)
NobodyServed == -1

Serves(q, t) == {i \in 1 .. Len(q) : signal[Req][q[i]] = signal[Resp][t]}

Queue[t \in -1 .. NumCycles - 1] ==
  IF t < start THEN [waiting |-> <<>>, served |-> NobodyServed]
  ELSE LET here == IF signal[Req][t] # 0 THEN Append(Queue[t - 1].waiting, t)
                                         ELSE Queue[t - 1].waiting
           intime == SelectSeq(here, LAMBDA c : ~Timed \/ t - c + 1 <= TimeoutCycles)
       IN IF Serves(intime, t) = {} THEN [waiting |-> intime, served |-> NobodyServed]
          ELSE LET first == Earliest(Serves(intime, t)) IN
                 [waiting |-> SelectSeq(intime, LAMBDA c : c # intime[first]),
                  served |-> intime[first]]

\* wait(request), capture its id, consume(response of that id, channel of that
\* id) pairs requests with responses as a queue per id does: "form a single
\* FIFO consumer group" (Channel).
PairsInOrder ==
  pc = "done" /\ WithChannels =>
    \A c \in start .. stop - 1, t \in start .. stop - 1 :
      (status[c] = "OK" /\ endAt[c] = t) <=> Queue[t].served = c
=============================================================================
