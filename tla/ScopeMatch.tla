----------------------------- MODULE ScopeMatch -----------------------------
(***************************************************************************)
(* Patterns and the tree of scopes (scope.py, pattern_parser.py).          *)
(*                                                                         *)
(* A tree is a record: tops, a sequence of nodes; kids and sigs, functions *)
(* from a node to sequences; module, the name of a node's module; deepest, *)
(* whether a search by module goes children first and knows no depth.  A   *)
(* node is its full text.  A signal is [name, full, width, array, members] *)
(* with Plain for the members of one that has none.                        *)
(*                                                                         *)
(* A pattern is a sequence of parts [mark, segments, suffix]: the mark is  *)
(* "", "@" for a regular expression, "$" or "$$" for a module, a segment   *)
(* is [braces, words].  A dictionary is [ok, at], not ok when the code     *)
(* raises, and at is a function from keys.                                 *)
(***************************************************************************)
EXTENDS Integers, SequencesExt, FiniteSetsExt, TLC

CONSTANT Regex   (* external: a regular expression as the function from the texts it matches in full to their groups *)

Plain == <<"plain">>

PartNames(text) ==
  LET dots == SelectSeq([i \in DOMAIN text |-> i], LAMBDA i : text[i] = ".")
  IN  IF dots = <<>> THEN 0 ELSE Last(dots)
LastName(text) == SubSeq(text, PartNames(text) + 1, Len(text))
ParentText(text) == SubSeq(text, 1, PartNames(text) - 1)

Raised == [ok |-> FALSE, at |-> <<>>]
Dict(f) == [ok |-> TRUE, at |-> f]
Nothing == Dict(<<>>)
Single(key, value) == Dict(key :> value)

\* A key that is taken is overwritten.
Overwrite(d, e) == IF ~d.ok \/ ~e.ok THEN Raised ELSE Dict(e.at @@ d.at)

\* A key that is taken raises.
Join(d, e) ==
  IF ~d.ok \/ ~e.ok \/ DOMAIN d.at \intersect DOMAIN e.at # {} THEN Raised ELSE Dict(e.at @@ d.at)

\* Pieces of a dictionary in their order; a strict one raises on a taken key.
Assemble(pieces) ==
  FoldLeft(LAMBDA d, p : IF p.strict THEN Join(d, p.dict) ELSE Overwrite(d, p.dict), Nothing, pieces)
Strict(d) == [strict |-> TRUE, dict |-> d]
Loose(d) == [strict |-> FALSE, dict |-> d]

\* The dictionary with other keys, which stay apart, and other values.
Rekey(d, Key(_), Value(_)) ==
  IF ~d.ok THEN Raised
  ELSE Dict([k \in {Key(j) : j \in DOMAIN d.at} |->
               Value(d.at[CHOOSE j \in DOMAIN d.at : Key(j) = k])])

-----------------------------------------------------------------------------
(* expand_brace_pattern: the words of the braces are the key.               *)

Word(w) == <<"word", w>>
Groups(g) == <<"groups", g>>

\* Every choice of one word for each segment, as [key, text].
Expand(part) ==
  FoldLeft(LAMBDA done, seg :
             FlattenSeq([i \in DOMAIN done |->
               [j \in DOMAIN seg.words |->
                  [key  |-> IF seg.braces THEN Append(done[i].key, Word(seg.words[j])) ELSE done[i].key,
                   text |-> done[i].text \o seg.words[j]]]]),
           <<[key |-> <<>>, text |-> <<>>]>>, part.segments)

\* A dictionary has one entry for each key.
Entries(part) ==
  LET all == Expand(part)
  IN  SelectSeq([i \in DOMAIN all |-> [mark |-> part.mark, suffix |-> part.suffix, key |-> all[i].key,
                                       text |-> all[i].text, first |-> \A j \in 1 .. i - 1 : all[j].key # all[i].key]],
                LAMBDA e : e.first)

\* Where a mark has no meaning, it is a part of the name.
Marked(e) == CASE e.mark = "$" -> <<"$">> \o e.text [] e.mark = "$$" -> <<"$", "$">> \o e.text [] OTHER -> e.text

MatchesText(e, text) == IF e.mark = "@" THEN text \in DOMAIN Regex[e.text] ELSE Marked(e) = text

\* The name of a signal with its range, a pair of brackets as one piece of the text.
Written(name) == name.text \o [i \in DOMAIN name.suffix |-> ToString(name.suffix[i])]

\* A regular expression is tried on the bare name of a signal, then on the name with
\* its range, and the groups are those of the one it matches.
MatchesSignal(e, name) == MatchesText(e, name.text) \/ (e.mark = "@" /\ MatchesText(e, Written(name)))
MatchedText(e, name) == IF MatchesText(e, name.text) THEN name.text ELSE Written(name)

-----------------------------------------------------------------------------
(* Scopes by the name of their module.                                      *)

\* VcdScope.find_scope_by_module: the scope, then its children down to the depth.
RECURSIVE FindByName(_, _, _, _)
FindByName(tree, node, name, depth) ==
  (IF LastName(node) = name THEN <<node>> ELSE <<>>) \o
  (IF depth = 0 THEN <<>>
   ELSE FlattenSeq([i \in DOMAIN tree.kids[node] |->
          FindByName(tree, tree.kids[node][i], name, IF depth > 0 THEN depth - 1 ELSE depth)]))

\* FsdbScope.preload_module_scope: the children first, at every depth.
RECURSIVE Preloaded(_, _, _)
Preloaded(tree, node, name) ==
  FlattenSeq([i \in DOMAIN tree.kids[node] |-> Preloaded(tree, tree.kids[node][i], name)]) \o
  (IF tree.module[node] = name THEN <<node>> ELSE <<>>)

FindModules(tree, node, e) ==
  IF tree.deepest THEN Preloaded(tree, node, e.text)
  ELSE FindByName(tree, node, e.text, IF e.mark = "$$" THEN -1 ELSE 1)

-----------------------------------------------------------------------------
(* Signals of a scope.                                                      *)

WithRange(sig, suffix) ==
  IF suffix = <<>> THEN [sig EXCEPT !.full = sig.name]
  ELSE LET last == Last(suffix)
       IN  [sig EXCEPT !.full = [sig.name EXCEPT !.suffix = suffix],
                       !.width = last[1] - last[Len(last)] + 1]

Prefixed(value, text) == [value EXCEPT !.full.text = text \o <<".">> \o @]

\* _match_signals_in_list: members of a composite signal take the rest of the
\* pattern, those of an array take it again, and a signal takes the first name only.
RECURSIVE MatchList(_, _)
MatchList(sigs, parts) ==
  IF parts = <<>> THEN Nothing
  ELSE
  LET rest == Tail(parts)
      members(sig, key) ==
        Rekey(MatchList(sig.members, rest), LAMBDA k : key \o k,
              LAMBDA v : Prefixed(v, Written(sig.name)))
      found(sig, e, key) ==
        CASE e.mark # "@" /\ sig.array /\ e.suffix # <<>> ->
               Loose(Rekey(MatchList(sig.members, parts), LAMBDA k : key \o k, LAMBDA v : v))
          [] ~(e.mark # "@" /\ sig.array /\ e.suffix # <<>>) /\ rest = <<>> ->
               Strict(Single(key, WithRange(sig, e.suffix)))
          [] OTHER -> IF sig.members = Plain THEN Loose(Nothing) ELSE Loose(members(sig, key))
      piece(sig, e) ==
        IF e.mark # "@" THEN found(sig, e, e.key)
        ELSE IF e.key # <<>> THEN Strict(Raised)
        ELSE found(sig, e, <<Groups(Regex[e.text][MatchedText(e, sig.name)])>>)
      first(entries) == IF Head(parts).mark = "@" \/ entries = <<>> THEN entries ELSE <<Head(entries)>>
  IN  Assemble(FlattenSeq([i \in DOMAIN sigs |->
        LET matching == SelectSeq(Entries(Head(parts)), LAMBDA e : MatchesSignal(e, sigs[i].name))
        IN  [j \in DOMAIN first(matching) |-> piece(sigs[i], first(matching)[j])]]))

-----------------------------------------------------------------------------
(* From the top: match_signals and match_scopes.                            *)

ScopeAt(node) == [full |-> [text |-> node, suffix |-> <<>>]]

Leaf(tree, node, rest, want) ==
  CASE want = "signals" -> MatchList(tree.sigs[node], rest)
    [] want = "scopes" /\ rest = <<>> -> Single(<<>>, ScopeAt(node))
    [] OTHER -> Nothing

\* The text of a node from one of its ancestors down.
TextFrom(ancestor, node) == SubSeq(node, PartNames(ancestor) + 1, Len(node))

\* _traverse_scope_tree; _prepend_scope_name builds the full name of a signal on the
\* way back and leaves a scope alone.
RECURSIVE Traverse(_, _, _, _)
Traverse(tree, node, parts, want) ==
  IF parts = <<>> THEN Nothing
  ELSE
  LET rest == Tail(parts)
      name == LastName(node)
      kids == tree.kids[node]
      up(v, text) == IF want = "scopes" THEN v ELSE Prefixed(v, text)
      leaf(key) ==
        Rekey(Leaf(tree, node, rest, want), LAMBDA k : key \o k, LAMBDA v : up(v, name))
      below(kid, key) ==
        Rekey(Traverse(tree, kid, rest, want), LAMBDA k : key \o k, LAMBDA v : up(v, name))
      \* A module inside the subtree: its key is extended by the way to it.
      inside(module) ==
        LET way == TextFrom(node, ParentText(module))
        IN  Rekey(Traverse(tree, module, parts, want),
                  LAMBDA k : <<Word(way \o <<".">> \o k[1][2])>> \o Tail(k),
                  LAMBDA v : up(v, way))
      byModule(e) ==
        LET modules == FindModules(tree, node, e)
            key     == <<Word(name)>>
        IN  IF modules = <<node>>
            THEN <<Strict(leaf(key))>> \o [i \in DOMAIN kids |-> Loose(below(kids[i], key))]
            \* A module inside a module of its name is searched without end.
            ELSE IF node \in ToSet(modules) THEN <<Strict(Raised)>>
            ELSE [i \in DOMAIN modules |-> Loose(inside(modules[i]))]
      byName(e) ==
        LET key == IF e.mark = "@" THEN <<Groups(Regex[e.text][name])>> ELSE e.key
        IN  IF ~MatchesText(e, name) \/ e.suffix # <<>> THEN <<>>
            ELSE IF e.mark = "@" /\ e.key # <<>> THEN <<Strict(Raised)>>
            ELSE <<Strict(leaf(key))>> \o [i \in DOMAIN kids |-> Strict(below(kids[i], key))]
      entries == Entries(Head(parts))
  IN  Assemble(FlattenSeq([i \in DOMAIN entries |->
        IF entries[i].mark \in {"$", "$$"} THEN byModule(entries[i]) ELSE byName(entries[i])]))

-----------------------------------------------------------------------------
(* Within a scope: match_signals_relative and match_scopes_relative, whose  *)
(* keys hold the groups of a regular expression one by one.                 *)

RelativeKey(e, text) ==
  IF e.mark # "@" THEN e.key
  ELSE e.key \o [i \in DOMAIN Regex[e.text][text] |-> Word(Regex[e.text][text][i])]

\* _build_signal_with_range
Ranged(sig, suffix) ==
  CASE suffix = <<>> -> Dict(<<sig>>)
    [] Len(suffix) > 1 -> Raised
    [] OTHER -> Dict(<<[WithRange(sig, suffix) EXCEPT !.full.text = sig.full.text]>>)

\* _match_local_signals: a key that is taken is overwritten.
LocalSignals(tree, node, part) ==
  LET sigs == tree.sigs[node]
  IN  Assemble(FlattenSeq([i \in DOMAIN sigs |->
        LET es == SelectSeq(Entries(part), LAMBDA e : MatchesSignal(e, sigs[i].name))
        IN  [j \in DOMAIN es |->
               LET r == Ranged(sigs[i], es[j].suffix)
               IN  Loose(IF r.ok THEN Single(RelativeKey(es[j], MatchedText(es[j], sigs[i].name)), r.at[1]) ELSE Raised)]]))

\* _match_child_scopes
ChildScopes(tree, node, part) ==
  LET kids == tree.kids[node]
  IN  Assemble(FlattenSeq([i \in DOMAIN kids |->
        LET es == SelectSeq(Entries(part), LAMBDA e : MatchesText(e, LastName(kids[i])) /\ e.suffix = <<>>)
        IN  [j \in DOMAIN es |-> Loose(Single(RelativeKey(es[j], LastName(kids[i])),
                                              ScopeAt(kids[i])))]]))

RECURSIVE Relative(_, _, _, _)
Relative(tree, node, parts, want) ==
  CASE parts = <<>> -> Nothing
    [] Len(parts) = 1 -> IF want = "signals" THEN LocalSignals(tree, node, Head(parts))
                         ELSE ChildScopes(tree, node, Head(parts))
    [] OTHER ->
         LET kids == ChildScopes(tree, node, Head(parts))
             keys == SetToSeq(DOMAIN kids.at)
         IN  Assemble([i \in DOMAIN keys |->
               Strict(Rekey(Relative(tree, kids.at[keys[i]].full.text, Tail(parts), want),
                            LAMBDA k : keys[i] \o k, LAMBDA v : v))])
=============================================================================
