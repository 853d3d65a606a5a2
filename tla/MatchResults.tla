---------------------------- MODULE MatchResults ----------------------------
(***************************************************************************)
(* The arrays that match() makes of its candidates, the selection of rows  *)
(* by status (result.py) and their JSON form (serialize.py).               *)
(*                                                                         *)
(* A row is [start, end, status, captures], the captures a function from   *)
(* names to <<"word", n>>, a machine word taken from a waveform, <<"int",  *)
(* n>>, or <<"list", seq>> of such.                                        *)
(***************************************************************************)
EXTENDS Serialize

CONSTANTS
  Reports,     (* bound: the sequences of rows a run reports                 *)
  Statuses     (* bound: the statuses asked for                              *)

VARIABLES
  rows,        (* the rows of the run                                        *)
  result,      (* MatchResult                                                *)
  asked        (* the statuses of the rows that were kept                    *)

resultVars == <<rows, result, asked>>

Ok == 0
NoCapture == <<"none">>
IsList(v) == v[1] = "list"

-----------------------------------------------------------------------------
\* One column for all rows, on the axis of their starts.
Column(report, value, kind) ==
  LET starts == [i \in DOMAIN report |-> report[i].start]
  IN  New(value, kind, starts, starts, NoWidth, FALSE, NoMask)

\* What numpy's int64 takes: a machine word is cast, a Python integer must fit.
Taken(v) == v[1] = "word" \/ (v[1] = "int" /\ Wrap(v[2], "int") = v[2])
Cast(v) == <<"int", Wrap(v[2], "int")>>

\* Scalars become an array of integers, lists of one length a matrix of them;
\* what does not becomes an array of objects.
CaptureColumn(report, vals) ==
  CASE \A i \in DOMAIN vals : Taken(vals[i]) ->
         Column(report, [i \in DOMAIN vals |-> Cast(vals[i])], "integers")
    [] \A i \in DOMAIN vals : /\ IsList(vals[i]) /\ Len(vals[i][2]) = Len(vals[1][2])
                              /\ \A k \in DOMAIN vals[i][2] : Taken(vals[i][2][k]) ->
         Column(report, [i \in DOMAIN vals |->
                  <<"list", [k \in DOMAIN vals[i][2] |-> Cast(vals[i][2][k])]>>], "matrix")
    [] OTHER -> Column(report, vals, "object")

Captured(row, name) == IF name \in DOMAIN row.captures THEN row.captures[name] ELSE NoCapture

MatchResult(report) ==
  LET names == UNION {DOMAIN report[i].captures : i \in DOMAIN report}
      col(F(_), kind) == Column(report, [i \in DOMAIN report |-> F(report[i])], kind)
  IN  [start    |-> col(LAMBDA r : r.start, "int"),
       end      |-> col(LAMBDA r : r.end, "int"),
       duration |-> col(LAMBDA r : r.end - r.start + 1, "int"),
       status   |-> col(LAMBDA r : r.status, "uint"),
       captures |-> [name \in names |->
                       CaptureColumn(report, [i \in DOMAIN report |-> Captured(report[i], name)])]]

\* Mutant: the captures are left as they were.
MaskedButCaptures(r, mask) ==
  [start |-> MaskBy(r.start, mask), end |-> MaskBy(r.end, mask), duration |-> MaskBy(r.duration, mask),
   status |-> MaskBy(r.status, mask), captures |-> r.captures]

\* The same rows of every column.
Masked(r, mask) ==
  [start |-> MaskBy(r.start, mask), end |-> MaskBy(r.end, mask), duration |-> MaskBy(r.duration, mask),
   status |-> MaskBy(r.status, mask),
   captures |-> [name \in DOMAIN r.captures |-> MaskBy(r.captures[name], mask)]]

NoResult == rows = <<>> /\ result = Failed /\ asked = {}
ResultInit == rows \in Reports /\ result = MatchResult(rows) /\ asked = Statuses \union {Ok}

\* filter_status and filter_ok
FilterStatus(s) ==
  /\ result # Failed
  /\ result' = Masked(result, Eq(result.status, Scalar(s))) /\ asked' = asked \intersect {s}
  /\ UNCHANGED rows

FilterFailed ==
  /\ result # Failed
  /\ result' = Masked(result, Ne(result.status, Scalar(Ok))) /\ asked' = asked \ {Ok}
  /\ UNCHANGED rows

ResultNext == (\E s \in Statuses : FilterStatus(s)) \/ FilterFailed

-----------------------------------------------------------------------------
(* The JSON form.                                                           *)

CoerceCapture(v) ==
  CASE v = NoCapture -> [null |-> TRUE]
    [] v # NoCapture /\ IsList(v) -> [list |-> [k \in DOMAIN v[2] |-> CoerceInt(v[2][k][2])]]
    [] OTHER -> CoerceInt(v[2])

\* _status_counts: the statuses that occur, with their numbers.
StatusCounts(w) ==
  [s \in ToSet(w.value) |-> Cardinality({i \in DOMAIN w.value : w.value[i] = s})]

\* matchresult_to_dict
ResultToDict(r, maxMatches) ==
  LET n     == Len(r.start.value)
      shown == IF maxMatches = NoWidth THEN n ELSE Larger(0, Smaller(n, maxMatches))
  IN  [total |-> n, shown |-> shown, truncated |-> shown < n, counts |-> StatusCounts(r.status),
       matches |-> [i \in 1 .. shown |->
         [start |-> CoerceInt(r.start.value[i]), end |-> CoerceInt(r.end.value[i]),
          duration |-> CoerceInt(r.duration.value[i]), status |-> r.status.value[i],
          captures |-> [name \in DOMAIN r.captures |-> CoerceCapture(r.captures[name].value[i])]]]]

-----------------------------------------------------------------------------
\* The rows that were kept, written out one by one.
Kept == SelectSeq(rows, LAMBDA r : r.status \in asked)
Names == UNION {DOMAIN rows[i].captures : i \in DOMAIN rows}
Written(r) ==
  [start |-> CoerceInt(r.start), end |-> CoerceInt(r.end), duration |-> CoerceInt(r.end - r.start + 1),
   status |-> r.status, captures |-> [name \in Names |-> CoerceCapture(Captured(r, name))]]

RowsAreWritten ==
  result # Failed => \A max \in {NoWidth, 1} :
    LET dict  == ResultToDict(result, max)
        shown == IF max = NoWidth THEN Kept ELSE SubSeq(Kept, 1, Smaller(max, Len(Kept)))
    IN  /\ dict.matches = [i \in DOMAIN shown |-> Written(shown[i])]
        /\ dict.total = Len(Kept) /\ (dict.truncated <=> dict.shown < Len(Kept))
        /\ dict.counts = [s \in {Kept[i].status : i \in DOMAIN Kept} |->
                            Len(SelectSeq(Kept, LAMBDA r : r.status = s))]

\* A machine word that int64 cannot hold.
HighWord(v) == v[1] = "word" /\ Wrap(v[2], "int") # v[2]
NoHighWords ==
  \A i \in DOMAIN rows : \A name \in DOMAIN rows[i].captures :
    LET v == rows[i].captures[name]
    IN  IF IsList(v) THEN \A k \in DOMAIN v[2] : ~HighWord(v[2][k]) ELSE ~HighWord(v)

\* result.py: the filters "keep result fields and captures aligned when selecting rows
\* by status".  Whatever array a column of captures became, every row that is written
\* is a row of the run with all that it captured, and the counts are theirs.
RowsStayTogether == NoHighWords => RowsAreWritten

\* README.md: integers beyond the safe range are strings "so the payload keeps full
\* precision", 64-bit bus values among them.
CapturesKeepPrecision == RowsAreWritten
=============================================================================
