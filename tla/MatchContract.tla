---------------------------- MODULE MatchContract ----------------------------
(***************************************************************************)
(* What the pattern runtime promises, without its lists, marks and epochs. *)
(*                                                                         *)
(* Each cycle of a window admits one candidate.  In a cycle every live     *)
(* candidate, its oldest first, gets exactly one turn; in its turn it may  *)
(* take channels that nobody has taken in this cycle, and it may be        *)
(* judged, once and for all.  The end of the window judges all who are     *)
(* left.                                                                   *)
(***************************************************************************)
EXTENDS Integers

CONSTANTS
  Cycles,    (* the cycles of the axis, which also name the candidates       *)
  Channels   (* the channels that only this run's candidates take            *)

VARIABLES
  phase,     (* "over", "between" two cycles, or within a "cycle"            *)
  now,       (* the cycle being scanned, or the next one                     *)
  turn,      (* the candidate that had or has the last turn of the cycle     *)
  live,      (* the candidates in flight                                     *)
  verdict,   (* per candidate: its verdict                                   *)
  owner      (* per channel: who took it in this cycle                       *)

vars == <<phase, now, turn, live, verdict, owner>>

Nobody   == -1
NoOwners == [ch \in Channels |-> Nobody]
Verdicts == {"OK", "TIMEOUT", "REQUIRE_VIOLATED", "discarded"}
Unjudged == [c \in Cycles |-> "none"]

Init ==
  /\ phase = "over"
  /\ now = 0
  /\ turn = Nobody
  /\ live = {}
  /\ verdict = Unjudged
  /\ owner = NoOwners

Begin ==
  /\ phase = "over"
  /\ phase' \in {"between", "over"}
  /\ now' \in Nat
  /\ turn' = Nobody
  /\ live' = {}
  /\ verdict' = Unjudged
  /\ owner' = NoOwners

Admit ==
  /\ phase = "between"
  /\ phase' = "cycle"
  /\ now \in Cycles
  /\ live' = live \cup {now}
  /\ UNCHANGED <<now, turn, verdict, owner>>

\* c is the oldest live candidate that has not had its turn in this cycle.
IsNext(c) == c \in live /\ c > turn /\ \A d \in live : d > turn => c <= d

GetTurn(c) ==
  /\ phase = "cycle"
  /\ IsNext(c)
  /\ turn' = c
  /\ UNCHANGED <<phase, now, live, verdict, owner>>

Take(ch) ==
  /\ phase = "cycle"
  /\ turn \in live
  /\ owner[ch] = Nobody
  /\ owner' = [owner EXCEPT ![ch] = turn]
  /\ UNCHANGED <<phase, now, turn, live, verdict>>

Judge(c, v) ==
  /\ phase = "cycle"
  /\ (c = turn /\ c \in live) \/ IsNext(c)
  /\ turn' = c
  /\ live' = live \ {c}
  /\ verdict' = [verdict EXCEPT ![c] = v]
  /\ UNCHANGED <<phase, now, owner>>

EndCycle ==
  /\ phase = "cycle"
  /\ \A c \in live : c <= turn
  /\ phase' = "between"
  /\ now' = now + 1
  /\ turn' = Nobody
  /\ owner' = NoOwners
  /\ UNCHANGED <<live, verdict>>

Close ==
  /\ phase = "between"
  /\ phase' = "over"
  /\ live' = {}
  /\ verdict' = [c \in Cycles |-> IF c \in live THEN "TIMEOUT" ELSE verdict[c]]
  /\ UNCHANGED <<now, turn, owner>>

\* An error ends the run where it is.
Abort ==
  /\ phase = "cycle"
  /\ phase' = "over"
  /\ turn' = Nobody
  /\ owner' = NoOwners
  /\ UNCHANGED <<now, live, verdict>>

Next ==
  \/ Begin \/ Admit \/ EndCycle \/ Close \/ Abort
  \/ \E c \in Cycles : GetTurn(c)
  \/ \E ch \in Channels : Take(ch)
  \/ \E c \in Cycles, v \in Verdicts : Judge(c, v)

Spec == Init /\ [][Next]_vars
=============================================================================
