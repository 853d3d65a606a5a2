----------------------------- MODULE ScopeTrees -----------------------------
(***************************************************************************)
(* The trees of scopes of the three readers, and the signal that a path    *)
(* names in each.                                                          *)
(***************************************************************************)
EXTENDS VcdHeader, ScopeMatch

CONSTANTS
  FstNames,     (* external: the signals of the FST file, [path, width]      *)
  ModuleOf(_),  (* external: the module of an FSDB scope of a name           *)
  Composites    (* external: [scope, sig], composite signals of the FSDB     *)

Sig(path, width) ==
  [name |-> [path EXCEPT !.text = LastName(@)], full |-> path, width |-> width,
   array |-> FALSE, members |-> Plain]

\* Bound: sorted by name is one fixed order here.
Sorted(nodes) == SetToSeq(nodes)

\* The text of every scope above, and of the scope itself.
Upward(sc) == {SubSeq(sc, 1, k) : k \in {j \in DOMAIN sc : j = Len(sc) \/ sc[j + 1] = "."}}

\* A scope of a VCD or FST file has its name for a module.
TreeOf(nodes, sigs) ==
  [tops   |-> Sorted({n \in nodes : PartNames(n) = 0}),
   kids   |-> [n \in nodes |-> Sorted({m \in nodes : PartNames(m) # 0 /\ ParentText(m) = n})],
   sigs   |-> [n \in nodes |-> SelectSeq(sigs, LAMBDA s : PartNames(s.full.text) # 0 /\ ParentText(s.full.text) = n)],
   module |-> [n \in nodes |-> LastName(n)], deepest |-> FALSE]

\* VcdScope: the scopes come from the signals' scopes, the signals of one from the
\* aliases that lie in it, each alias once.
VcdTree ==
  LET aliases == FlattenSeq([i \in DOMAIN signals |->
                   [j \in DOMAIN signals[i].aliases |-> Sig(signals[i].aliases[j], signals[i].width)]])
      seen(i) == \E j \in 1 .. i - 1 : aliases[j].full = aliases[i].full
      fresh == SelectSeq([i \in DOMAIN aliases |-> i], LAMBDA i : ~seen(i))
  IN  TreeOf(UNION {UNION {Upward(sc) : sc \in ToSet(s.scopes)} : s \in ToSet(signals)},
             [k \in DOMAIN fresh |-> aliases[fresh[k]]])

\* FstReader._build_scope_tree; a signal without a scope raises.
FstUsable == \A s \in ToSet(FstNames) : PartNames(s.path.text) # 0
FstTree ==
  TreeOf(UNION {Upward(ParentText(s.path.text)) : s \in ToSet(FstNames)},
         [i \in DOMAIN FstNames |-> Sig(FstNames[i].path, FstNames[i].width)])

\* FsdbScope: the scopes and signals of the VCD file, and the composite ones.
FsdbTree ==
  LET plain == VcdTree
  IN  [plain EXCEPT !.deepest = TRUE,
         !.module = [n \in DOMAIN @ |-> ModuleOf(LastName(n))],
         !.sigs = [n \in DOMAIN @ |->
                     LET own == SelectSeq(Composites, LAMBDA c : c.scope = n)
                     IN  @[n] \o [i \in DOMAIN own |-> own[i].sig]]]

-----------------------------------------------------------------------------
(* From a path to a signal.                                                 *)

NoId == <<>>
Bare(path) == [path EXCEPT !.suffix = <<>>]

\* Mutant: only the path as it is written is found.
ResolveExact(list, path) ==
  LET exact == SelectSeq(list, LAMBDA s : path \in ToSet(s.aliases))
  IN  IF exact # <<>> THEN exact[1].id ELSE NoId

\* _resolve_signal_path: the first with the path, or the only one with the path and
\* one more bracket.
Resolve(list, path) ==
  LET exact == SelectSeq(list, LAMBDA s : path \in ToSet(s.aliases))
      more(a) == a.text = path.text /\ Len(a.suffix) = Len(path.suffix) + 1 /\ Front(a.suffix) = path.suffix
      fuzzy == SelectSeq(list, LAMBDA s : \E a \in ToSet(s.aliases) : more(a))
  IN  IF exact # <<>> THEN exact[1].id
      ELSE IF Len(fuzzy) = 1 THEN fuzzy[1].id ELSE NoId

\* _resolve_signal of an FST file: every signal is its own.
FstList == [i \in DOMAIN FstNames |-> [id |-> <<i>>, aliases |-> <<FstNames[i].path>>, width |-> FstNames[i].width]]

Find(list, id) == list[CHOOSE i \in DOMAIN list : list[i].id = id]

\* The alias whose text begins with the path tells the stored range.
StoredSuffix(s, path) ==
  LET like == SelectSeq(s.aliases, LAMBDA a : IsPrefix(path.text, a.text))
  IN  IF like = <<>> THEN <<>> ELSE like[1].suffix

LowOf(suffix) == Last(suffix)[Len(Last(suffix))]

\* Whether load_waveform finds the signal of a path and takes its range.
Loadable(list, path) ==
  LET id == Resolve(list, Bare(path))
  IN  /\ id # NoId
      /\ path.suffix # <<>> =>
           /\ Len(path.suffix) = 1
           /\ LET stored == StoredSuffix(Find(list, id), path)
              IN  stored # <<>> => LowOf(stored) = 0
           /\ LowOf(path.suffix) <= path.suffix[1][1] /\ path.suffix[1][1] < Find(list, id).width
=============================================================================
