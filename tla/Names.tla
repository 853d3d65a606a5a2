-------------------------------- MODULE Names --------------------------------
(***************************************************************************)
(* The names of a file: its header is parsed, and the reader is asked for  *)
(* the signals and the scopes of a pattern, loads them with their clocks,  *)
(* and evaluates expressions over them (readers/base.py).  A load is       *)
(* known by the paths it is given; what it returns is in Readers.          *)
(***************************************************************************)
EXTENDS ScopeTrees

CONSTANTS
  Queries,   (* bound: the questions asked, [parts, root]                    *)
  Pairs,     (* bound: the loads asked for, [signals, clocks], of queries    *)
  Exprs,     (* bound: the expressions, sequences of queries                 *)
  NoRoot     (* root_scope=None                                              *)

VARIABLES
  asked,     (* the last call                                                *)
  answer     (* what it returned: a dictionary                               *)

vars == <<headerVars, asked, answer>>

NoCall == [call |-> "none"]
Init == HeaderInit /\ asked = NoCall /\ answer = Nothing

Tree(format) ==
  CASE format = "vcd" -> VcdTree [] format = "fst" -> FstTree [] OTHER -> FsdbTree
Formats == {"vcd", "fst", "fsdb"}
Opens(format) == format = "fst" => FstUsable

\* get_matched_signals and get_matched_scopes: within the root, or from every top
\* scope, where a key that two of them have raises.
Matched(tree, q, want) ==
  IF q.root # NoRoot THEN Relative(tree, q.root, q.parts, want)
  ELSE FoldLeft(LAMBDA d, top : Join(d, Traverse(tree, top, q.parts, want)), Nothing, tree.tops)

MayAsk(format) == stage = "ready" /\ asked = NoCall /\ Opens(format)

Ask(call, result) ==
  /\ asked' = call /\ answer' = result
  /\ UNCHANGED headerVars

InTree(tree, q) == q.root # NoRoot => q.root \in DOMAIN tree.kids

GetMatched(format, tree, q, want) ==
  /\ MayAsk(format) /\ InTree(tree, q)
  /\ Ask([call |-> want, format |-> format, q |-> q], Matched(tree, q, want))

\* The list that a load looks a path up in; NPI looks up an FSDB's (external).
ListOf(format) == IF format = "vcd" THEN signals ELSE FstList

\* One load that raises ends the call.
Loaded(format, loads) ==
  IF \A k \in DOMAIN loads : \A i \in DOMAIN loads[k] : Loadable(ListOf(format), loads[k][i])
  THEN Dict(loads) ELSE Raised

Only(d) == d.at[CHOOSE k \in DOMAIN d.at : TRUE]

\* Mutant: the first clock is taken for every signal.
PairedWithOne(sigs, clocks) == [k \in DOMAIN sigs.at |-> <<sigs.at[k].full, Only(clocks).full>>]

\* One clock for all the signals, or the clock of the same key.
Paired(sigs, clocks) ==
  [k \in DOMAIN sigs.at |->
     <<sigs.at[k].full, IF Cardinality(DOMAIN clocks.at) = 1 THEN Only(clocks).full ELSE clocks.at[k].full>>]

\* The loads of the signals and the clocks that were found.
LoadPairs(format, sigs, clocks) ==
  IF \/ ~sigs.ok \/ ~clocks.ok \/ DOMAIN sigs.at = {} \/ DOMAIN clocks.at = {}
     \/ (Cardinality(DOMAIN clocks.at) # 1 /\ DOMAIN clocks.at # DOMAIN sigs.at)
  THEN Raised
  ELSE Loaded(format, Paired(sigs, clocks))

LoadMatched(format, tree, p) ==
  /\ MayAsk(format) /\ InTree(tree, p.signals) /\ InTree(tree, p.clocks)
  /\ Ask([call |-> "load", format |-> format, p |-> p],
         LoadPairs(format, Matched(tree, p.signals, "signals"), Matched(tree, p.clocks, "signals")))

\* In mode single every path has one signal; in mode zip those with several have the
\* same keys, and the others go with each of them.
LoadGroups(format, found, mode) ==
  LET number(i) == Cardinality(DOMAIN found[i].at)
      many == {i \in DOMAIN found : number(i) > 1}
      keys == IF many = {} THEN {<<>>} ELSE DOMAIN found[Min(many)].at
  IN  IF \/ \E i \in DOMAIN found : ~found[i].ok \/ number(i) = 0
         \/ (mode = "single" /\ many # {})
         \/ \E i \in many : DOMAIN found[i].at # keys
      THEN Raised
      ELSE Loaded(format, [k \in keys |-> [i \in DOMAIN found |->
             IF i \in many THEN found[i].at[k].full ELSE Only(found[i]).full]])

Eval(format, tree, expr, mode) ==
  /\ MayAsk(format) /\ \A i \in DOMAIN expr : InTree(tree, expr[i])
  /\ Ask([call |-> "eval", format |-> format, expr |-> expr, mode |-> mode],
         LoadGroups(format, [i \in DOMAIN expr |-> Matched(tree, expr[i], "signals")], mode))

Next ==
  \/ HeaderNext /\ UNCHANGED <<asked, answer>>
  \/ \E format \in Formats, q \in Queries, want \in {"signals", "scopes"} :
       GetMatched(format, Tree(format), q, want)
  \/ \E format \in {"vcd", "fst"}, p \in Pairs : LoadMatched(format, Tree(format), p)
  \/ \E format \in {"vcd", "fst"}, e \in Exprs, mode \in {"single", "zip"} :
       Eval(format, Tree(format), e, mode)

Spec == Init /\ [][Next]_vars

-----------------------------------------------------------------------------
(* What a pattern says, scope by scope, without dictionaries.               *)

\* The nodes below a node, the node among them, down to a depth.
RECURSIVE Below(_, _, _)
Below(tree, nodes, depth) ==
  IF depth = 0 THEN nodes
  ELSE nodes \union Below(tree, UNION {ToSet(tree.kids[n]) : n \in nodes}, depth - 1)

\* Bound: the deepest tree.
Deepest == 6

KeyOf(e, text, flat) ==
  CASE e.mark # "@" -> e.key
    [] e.mark = "@" /\ flat -> RelativeKey(e, text)
    [] OTHER -> <<Groups(Regex[e.text][text])>>

\* The scopes a part stands for among the nodes, as [key, node]; within a root scope a
\* part that begins with a $ is a name.
Stands(tree, nodes, part, flat) ==
  UNION {IF ~flat /\ part.mark \in {"$", "$$"}
         THEN {[key |-> <<Word(TextFrom(n, m))>>, node |-> m] :
                 m \in {b \in Below(tree, {n}, IF part.mark = "$$" \/ tree.deepest THEN Deepest ELSE 1) :
                          tree.module[b] = Entries(part)[1].text}}
         ELSE {[key |-> KeyOf(e, LastName(n), flat), node |-> n] :
                 e \in {f \in ToSet(Entries(part)) : MatchesText(f, LastName(n))}} : n \in nodes}

RECURSIVE ScopeWays(_, _, _, _)
ScopeWays(tree, nodes, parts, flat) ==
  IF Len(parts) = 1 THEN Stands(tree, nodes, parts[1], flat)
  ELSE UNION {{[key |-> s.key \o w.key, node |-> w.node] :
                 w \in ScopeWays(tree, ToSet(tree.kids[s.node]), Tail(parts), flat)} :
              s \in Stands(tree, nodes, parts[1], flat)}

\* The signals that the last parts stand for, through the members of composite ones,
\* as [key, full, of] with the name from the scope on, of the signal as it is stored.
RECURSIVE Chains(_, _, _)
Chains(sigs, parts, flat) ==
  UNION {
    IF Len(parts) = 1
    THEN {[key  |-> KeyOf(e, MatchedText(e, s.name), flat), of |-> s.full,
           full |-> [s.name EXCEPT !.suffix = IF e.suffix = <<>> THEN @ ELSE e.suffix]]}
    ELSE IF flat \/ s.members = Plain THEN {}
    ELSE {[key  |-> KeyOf(e, MatchedText(e, s.name), flat) \o c.key, of |-> c.of,
           full |-> [c.full EXCEPT !.text = Written(s.name) \o <<".">> \o @]] :
            c \in Chains(s.members, Tail(parts), flat)} :
    <<s, e>> \in {x \in ToSet(sigs) \X ToSet(Entries(Head(parts))) : MatchesSignal(x[2], x[1].name)}}

\* Every match of the question, as [key, full, of].
Matches(tree, q, want) ==
  LET flat  == q.root # NoRoot
      start == IF flat THEN ToSet(tree.kids[q.root]) ELSE ToSet(tree.tops)
      ways(k) == IF k = 0 THEN IF flat THEN {[key |-> <<>>, node |-> q.root]} ELSE {}
                 ELSE ScopeWays(tree, start, SubSeq(q.parts, 1, k), flat)
      in(w, parts) ==
        {[key |-> w.key \o c.key, of |-> c.of, full |-> [c.full EXCEPT !.text = w.node \o <<".">> \o @]] :
           c \in Chains(tree.sigs[w.node], parts, flat)}
  IN  IF want = "scopes"
      THEN {[key |-> w.key, of |-> w.node, full |-> [text |-> w.node, suffix |-> <<>>]] : w \in ways(Len(q.parts))}
      ELSE UNION {UNION {in(w, SubSeq(q.parts, k + 1, Len(q.parts))) : w \in ways(k)} :
                    k \in 0 .. Len(q.parts) - 1}

KeysAndPaths(matches) == {[key |-> m.key, full |-> m.full] : m \in matches}

KeysApart(matches) == \A a, b \in matches : a.key = b.key => a = b

\* A module inside a module of the same name, where a search for it goes.
Nested(tree, q) ==
  \E i \in DOMAIN q.parts : q.parts[i].mark \in {"$", "$$"} /\
    \E n \in DOMAIN tree.kids, m \in DOMAIN tree.kids :
      /\ n # m /\ IsPrefix(n \o <<".">>, m)
      /\ tree.module[n] = Entries(q.parts[i])[1].text /\ tree.module[m] = tree.module[n]

Searched == asked.call \in {"signals", "scopes"}

\* Every signal and scope that matches, under its key and its full path; when two
\* matches share a key it raises.
AllOrRaised(matches) ==
  /\ answer.ok <=> KeysApart(matches)
  /\ answer.ok => {[key |-> k, full |-> answer.at[k].full] : k \in DOMAIN answer.at} = KeysAndPaths(matches)

\* Every key of a match is there, with one of its matches.
EveryKey(matches) ==
  /\ KeysApart(matches) => answer.ok
  /\ answer.ok => DOMAIN answer.at = {m.key : m \in matches}
  /\ answer.ok => \A k \in DOMAIN answer.at : [key |-> k, full |-> answer.at[k].full] \in KeysAndPaths(matches)

AnswerIs(tree, matches) ==
  IF asked.q.root # NoRoot THEN EveryKey(matches)
  ELSE ~Nested(tree, asked.q) => AllOrRaised(matches)

\* A pattern finds what it says and nothing else, in the tree of any format.  Within a
\* root scope the last of the matches that share a key is kept, where from the top
\* scopes it raises.
MatchExact ==
  Searched => AnswerIs(Tree(asked.format), Matches(Tree(asked.format), asked.q, asked.call))

\* The signals that a text names, with the ranges of their paths.
StoredAt(list, text) ==
  UNION {{[sig |-> s, suffix |-> a.suffix] : a \in {b \in ToSet(s.aliases) : b.text = text}} : s \in ToSet(list)}

\* A signal that a pattern found can be loaded by the path it was found under, unless
\* the text of the path is stored twice or with a range that does not end at bit 0, or
\* the pattern asks for bits the signal does not have.
FoundLoads ==
  asked.call = "signals" /\ asked.format # "fsdb" /\ answer.ok =>
    \A k \in DOMAIN answer.at :
      LET path == answer.at[k].full
          list == ListOf(asked.format)
      IN  \/ Loadable(list, path)
          \/ Cardinality(StoredAt(list, path.text)) > 1
          \/ \E o \in StoredAt(list, path.text) :
               \/ o.suffix # <<>> /\ LowOf(o.suffix) # 0
               \/ path.suffix # <<>> /\ path.suffix[1][1] >= o.sig.width

\* All the paths under a key were found under that key, or are the only ones of
\* their pattern; and no match is left out.
BelongTogether(matches) ==
  /\ \A k \in DOMAIN answer.at, i \in DOMAIN matches :
       \E m \in matches[i] : m.full = answer.at[k][i] /\ (m.key = k \/ Cardinality(matches[i]) = 1)
  /\ \A i \in DOMAIN matches : \A m \in matches[i] : \E k \in DOMAIN answer.at : m.full = answer.at[k][i]

\* What load_matched_waveforms and eval load together belongs together: a signal with
\* the clock of its own instance, and each path of an expression with its like.
LoadedTogether ==
  asked.call \in {"load", "eval"} /\ answer.ok =>
    LET qs == IF asked.call = "load" THEN <<asked.p.signals, asked.p.clocks>> ELSE asked.expr
    IN  BelongTogether([i \in DOMAIN qs |-> Matches(Tree(asked.format), qs[i], "signals")])
=============================================================================
