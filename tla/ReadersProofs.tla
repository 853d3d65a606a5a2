---------------------------- MODULE ReadersProofs ----------------------------
(***************************************************************************)
(* The cache that all loads of a VCD reader share: whatever is loaded, in  *)
(* whatever order, by any of the readers, a list in the cache is all that  *)
(* the file says of its signal, unless a scan broke off while filling it.  *)
(***************************************************************************)
EXTENDS Readers, SequenceTheorems, Lemmas

-----------------------------------------------------------------------------
(* What the file says of a signal, change by change.                        *)

Entry(e) == [at |-> e.at, value |-> e.value]
Entries == {Entry(file[i]) : i \in 1 .. Len(file)}

\* Every change of the signal adds its entry to the list, and no other change does.
LEMMA ListGrows ==
  ASSUME Len(file) \in Nat, NEW s
  PROVE  /\ FileLists(s)[0] = <<>>
         /\ \A n \in 1 .. Len(file) :
              FileLists(s)[n] = IF file[n].sid = s THEN Append(FileLists(s)[n - 1], Entry(file[n]))
                                ELSE FileLists(s)[n - 1]
         /\ \A n \in 0 .. Len(file) : FileLists(s)[n] \in Seq(Entries)
<1> DEFINE N == Len(file)
           Grown(l, n) == IF file[n].sid = s THEN Append(l, Entry(file[n])) ELSE l
           Equation(f) == f = [n \in 0 .. N |-> IF n = 0 THEN <<>> ELSE Grown(f[n - 1], n)]
           step == [n \in 1 .. N |-> [l \in Seq(Entries) |-> Grown(l, n)]]
           list == CHOOSE f : Equation(f)
<1>1. FileLists(s) = list
  BY DEF FileLists, Entry
<1>2. ASSUME NEW n \in 1 .. N, NEW l \in Seq(Entries) PROVE Grown(l, n) \in Seq(Entries)
  <2>1. Entry(file[n]) \in Entries
    BY DEF Entries
  <2> HIDE DEF Entry
  <2> QED  BY <2>1, AppendProperties
<1>3. \A n \in 1 .. N : Grown(list[n - 1], n) =
        IF file[n].sid = s THEN Append(list[n - 1], Entry(file[n])) ELSE list[n - 1]
  OBVIOUS
<1> HIDE DEF Grown
<1>4. /\ step \in [1 .. N -> [Seq(Entries) -> Seq(Entries)]]
      /\ \A n \in 1 .. N : \A l \in Seq(Entries) : step[n][l] = Grown(l, n)
  BY <1>2
<1> HIDE DEF step
<1>5. PICK f \in [0 .. N -> Seq(Entries)] :
        f[0] = <<>> /\ \A n \in 1 .. N : f[n] = step[n][f[n - 1]]
  <2> DEFINE Lists == Seq(Entries)
             none == <<>>
  <2>1. none \in Lists /\ N \in Nat /\ step \in [1 .. N -> [Lists -> Lists]]
    BY <1>4
  <2> HIDE DEF N, Lists, none
  <2>2. \E f \in [0 .. N -> Lists] :
          f[0] = none /\ \A n \in 1 .. N : f[n] = step[n][f[n - 1]]
    BY <2>1, Iteration
  <2> QED  BY <2>2 DEF Lists, none
<1>6. Equation(f)
  <2>1. \A n \in 1 .. N : n - 1 \in 0 .. N /\ f[n] = Grown(f[n - 1], n)
    <3>1. N \in Nat
      OBVIOUS
    <3> HIDE DEF N
    <3>2. \A n \in 1 .. N : n - 1 \in 0 .. N /\ f[n - 1] \in Seq(Entries)
      BY <1>5, <3>1
    <3> QED  BY <1>4, <1>5, <3>2
  <2> QED  BY <1>5, <2>1
<1>7. Equation(list)
  BY <1>6
<1> HIDE DEF list
<1>8. list[0] = <<>> /\ \A n \in 1 .. N : list[n] = Grown(list[n - 1], n)
  BY <1>7
<1>9. \A n \in 0 .. N : list[n] \in Seq(Entries)
  <2>1. list[0] \in Seq(Entries)
    BY <1>8
  <2>2. \A n \in 1 .. N : list[n - 1] \in Seq(Entries) => list[n] \in Seq(Entries)
    BY <1>2, <1>8
  <2> HIDE DEF N
  <2>3. N \in Nat
    BY DEF N
  <2> QED  BY <2>1, <2>2, <2>3, IterationStays
<1> QED  BY <1>1, <1>3, <1>8, <1>9

\* The initial x is inserted once only.
LEMMA PaddedOnce ==
  ASSUME NEW s, NEW list \in Seq(Entries)
  PROVE  Padded(s, Padded(s, list)) = Padded(s, list)
<1> DEFINE first == [at |-> 0, value |-> Unknowns(s)]
           long == <<first>> \o list
<1>1. CASE list # <<>> /\ list[1].at > 0
  <2>1. Padded(s, list) = long
    BY <1>1 DEF Padded
  <2>2. long # <<>> /\ long[1] = first
    <3>1. <<first>> \in Seq(Entries \union {first}) /\ list \in Seq(Entries \union {first})
      BY SeqMonotonic
    <3> HIDE DEF first
    <3>2. /\ Len(long) = Len(<<first>>) + Len(list) /\ long \in Seq(Entries \union {first})
          /\ \A i \in 1 .. Len(<<first>>) + Len(list) :
               long[i] = IF i <= Len(<<first>>) THEN <<first>>[i] ELSE list[i - Len(<<first>>)]
      BY <3>1, ConcatProperties
    <3>3. Len(<<first>>) = 1 /\ <<first>>[1] = first /\ Len(list) \in Nat
      OBVIOUS
    <3> HIDE DEF long
    <3> QED  BY <3>2, <3>3
  <2>3. first.at = 0
    OBVIOUS
  <2> HIDE DEF first, long
  <2> QED  BY <2>1, <2>2, <2>3 DEF Padded
<1>2. CASE ~ (list # <<>> /\ list[1].at > 0)
  BY <1>2 DEF Padded
<1> QED  BY <1>1, <1>2

-----------------------------------------------------------------------------
(* The invariant.                                                           *)

\* A scan has come to a change of the file, and looks for what was not cached.
Scanning ==
  phase = "scan" =>
    /\ pos \in 0 .. Len(file)
    /\ Wanted(load) \subseteq DOMAIN cache \union missing
    /\ missing \intersect torn = {}

\* The list it is filling holds what the changes so far say.
Filled ==
  phase = "scan" => \A s \in missing : CachedList(s) = FileLists(s)[pos]

Sampling == phase = "sample" => Wanted(load) \subseteq DOMAIN cache

CacheInv ==
  /\ file \in Files /\ torn \subseteq DOMAIN cache
  /\ Scanning /\ Filled /\ Sampling /\ OthersStayWhole

LEMMA FileTyped ==
  ASSUME CacheInv
  PROVE  Len(file) \in Nat /\ \A s : FileList(s) \in Seq(Entries)
<1>1. Len(file) \in Nat
  BY FileAssumption DEF CacheInv
<1>2. ASSUME NEW s PROVE FileList(s) \in Seq(Entries)
  <2>1. Len(file) \in 0 .. Len(file)
    BY <1>1
  <2> QED  BY <1>1, <2>1, ListGrows DEF FileList
<1> QED  BY <1>1, <1>2

LEMMA CacheInit == Init => CacheInv
  BY DEF Init, BaseInit, VcdInit, CacheInv, Scanning, Filled, Sampling, OthersStayWhole

\* The lists are what they were, and so is what the file says.
LEMMA SameLists ==
  ASSUME file' = file, cache' = cache
  PROVE  /\ \A s : FileList(s)' = FileList(s) /\ FileLists(s)' = FileLists(s)
         /\ \A s : Whole(s)' = Whole(s) /\ CachedList(s)' = CachedList(s)
  BY DEF FileList, FileLists, Whole, CachedList, Padded

\* Between scans a load of any reader that leaves the cache alone keeps the invariant.
LEMMA IdleStep ==
  ASSUME CacheInv, phase # "scan", phase' # "scan", UNCHANGED <<file, cache, torn>>,
         phase' = "sample" => Wanted(load)' \subseteq DOMAIN cache
  PROVE  CacheInv'
<1>1. OthersStayWhole'
  <2> SUFFICES ASSUME NEW s \in DOMAIN cache \ torn PROVE Whole(s)'
    BY DEF OthersStayWhole
  <2>1. Whole(s)
    BY DEF CacheInv, OthersStayWhole
  <2> QED  BY <2>1, SameLists
<1> QED  BY <1>1 DEF CacheInv, Scanning, Filled, Sampling

LEMMA VcdCacheNext == CacheInv /\ VcdNext => CacheInv'
<1> SUFFICES ASSUME CacheInv, VcdNext PROVE CacheInv'
  OBVIOUS
<1>0. /\ Len(file) \in Nat /\ file \in Files /\ torn \subseteq DOMAIN cache
      /\ Scanning /\ Filled /\ Sampling /\ OthersStayWhole
  BY FileTyped DEF CacheInv
<1>1. ASSUME NEW l \in Loads, BeginLoad(l) PROVE CacheInv'
  <2>1. phase = "idle" /\ UNCHANGED <<file, cache, torn>> /\ pos' = 0
    BY <1>1 DEF BeginLoad, Call
  <2>2. CASE Refused(l)
    <3>1. phase' = "idle"
      BY <1>1, <2>2 DEF BeginLoad, Call
    <3> QED  BY <2>1, <3>1, IdleStep
  <2>3. CASE ~Refused(l)
    <3>1. /\ load' = l /\ missing' = Missing(l)
          /\ phase' = IF Missing(l) = {} THEN "sample" ELSE "scan"
      BY <1>1, <2>3 DEF BeginLoad, Call
    <3>2. CASE Missing(l) = {}
      <4>1. Wanted(l) \subseteq DOMAIN cache
        BY <3>2 DEF Missing
      <4> QED  BY <2>1, <3>1, <3>2, <4>1, IdleStep DEF Wanted
    <3>3. CASE Missing(l) # {}
      <4>1. phase' = "scan"
        BY <3>1, <3>3
      <4>2. Scanning'
        BY <1>0, <2>1, <3>1 DEF Scanning, Missing, Wanted
      <4>3. Filled'
        <5> SUFFICES ASSUME NEW s \in missing' PROVE CachedList(s)' = FileLists(s)'[pos']
          BY DEF Filled
        <5>1. CachedList(s) = <<>>
          BY <3>1 DEF Missing, CachedList
        <5>2. FileLists(s)[0] = <<>>
          BY <1>0, ListGrows
        <5> QED  BY <2>1, <5>1, <5>2, SameLists
      <4>4. OthersStayWhole'
        <5> SUFFICES ASSUME NEW s \in DOMAIN cache \ torn PROVE Whole(s)'
          BY <2>1 DEF OthersStayWhole
        <5>1. Whole(s)
          BY <1>0, <2>1 DEF OthersStayWhole
        <5> QED  BY <2>1, <5>1, SameLists
      <4> QED  BY <1>0, <2>1, <4>1, <4>2, <4>3, <4>4 DEF CacheInv, Sampling
    <3> QED  BY <3>2, <3>3
  <2> QED  BY <2>2, <2>3
<1>2. CASE ScanEvent
  <2> DEFINE e == file[pos + 1]
  <2>1. /\ phase = "scan" /\ phase' = "scan" /\ pos < Len(file) /\ pos' = pos + 1
        /\ UNCHANGED <<file, load, missing, torn>>
    BY <1>2 DEF ScanEvent, baseVars
  <2>2. pos \in 0 .. Len(file) /\ pos + 1 \in 1 .. Len(file) /\ (pos + 1) - 1 = pos
    BY <1>0, <2>1 DEF Scanning
  <2>3. \A s : /\ FileLists(s)' = FileLists(s)
               /\ FileLists(s)[pos + 1] = IF e.sid = s THEN Append(FileLists(s)[pos], Entry(e))
                                          ELSE FileLists(s)[pos]
    <3>1. \A s : FileLists(s)' = FileLists(s)
      BY <2>1 DEF FileLists
    <3>2. ASSUME NEW s
          PROVE  FileLists(s)[pos + 1] = IF e.sid = s THEN Append(FileLists(s)[pos], Entry(e))
                                         ELSE FileLists(s)[pos]
      <4>1. FileLists(s)[pos + 1] =
              IF file[pos + 1].sid = s
              THEN Append(FileLists(s)[(pos + 1) - 1], Entry(file[pos + 1]))
              ELSE FileLists(s)[(pos + 1) - 1]
        BY <1>0, <2>2, ListGrows
      <4> QED  BY <2>2, <4>1
    <3> QED  BY <3>1, <3>2
  <2>4. /\ e.sid \in missing =>
             cache' = [t \in DOMAIN cache \union {e.sid} |->
                         IF t = e.sid THEN Append(CachedList(e.sid), Entry(e)) ELSE cache[t]]
        /\ e.sid \notin missing => cache' = cache
    BY <1>2 DEF ScanEvent, Store, Entry
  <2> HIDE DEF e
  <2>5. /\ DOMAIN cache \subseteq DOMAIN cache'
        /\ \A t \in DOMAIN cache' : t \notin missing => t \in DOMAIN cache /\ cache'[t] = cache[t]
    BY <2>4
  <2>6. Filled'
    <3> SUFFICES ASSUME NEW s \in missing PROVE CachedList(s)' = FileLists(s)[pos + 1]
      BY <2>1, <2>3 DEF Filled
    <3>1. CachedList(s) = FileLists(s)[pos]
      BY <1>0, <2>1 DEF Filled
    <3>2. CASE e.sid = s
      <4>1. CachedList(s)' = Append(CachedList(s), Entry(e))
        BY <2>4, <3>2 DEF CachedList
      <4> QED  BY <2>3, <3>1, <3>2, <4>1
    <3>3. CASE e.sid # s
      <4>1. CachedList(s)' = CachedList(s)
        BY <2>4, <3>3 DEF CachedList
      <4> QED  BY <2>3, <3>1, <3>3, <4>1
    <3> QED  BY <3>2, <3>3
  <2>7. OthersStayWhole'
    <3> SUFFICES ASSUME NEW s \in DOMAIN cache' \ torn, s \notin missing PROVE Whole(s)'
      BY <2>1 DEF OthersStayWhole
    <3>1. s \in DOMAIN cache \ torn /\ cache'[s] = cache[s]
      BY <2>5
    <3>2. Whole(s)
      BY <1>0, <3>1 DEF OthersStayWhole
    <3>3. FileList(s)' = FileList(s)
      BY <2>1, <2>3 DEF FileList
    <3>4. Padded(s, FileList(s))' = Padded(s, FileList(s))
      BY <3>3 DEF Padded
    <3> QED  BY <3>1, <3>2, <3>3, <3>4 DEF Whole
  <2>8. Scanning'
    BY <1>0, <2>1, <2>2, <2>5 DEF Scanning, Wanted
  <2> QED  BY <1>0, <2>1, <2>5, <2>6, <2>7, <2>8 DEF CacheInv, Sampling
<1>3. CASE EndScan
  <2>1. /\ phase = "scan" /\ phase' = "sample" /\ pos = Len(file) /\ cache' = AbsentEmpty
        /\ UNCHANGED <<file, load, missing, torn>>
    BY <1>3 DEF EndScan
  <2>2. /\ DOMAIN cache' = DOMAIN cache \union missing
        /\ \A s \in DOMAIN cache' : cache'[s] = CachedList(s)
    BY <2>1 DEF AbsentEmpty
  <2>3. \A s : FileList(s)' = FileList(s) /\ Padded(s, FileList(s))' = Padded(s, FileList(s))
    BY <2>1 DEF FileList, FileLists, Padded
  <2>4. OthersStayWhole'
    <3> SUFFICES ASSUME NEW s \in DOMAIN cache' \ torn PROVE Whole(s)'
      BY <2>1 DEF OthersStayWhole
    <3>1. CASE s \in missing
      <4>1. CachedList(s) = FileList(s)
        BY <1>0, <2>1, <3>1 DEF Filled, FileList
      <4> QED  BY <2>2, <2>3, <4>1 DEF Whole
    <3>2. CASE s \notin missing
      <4>1. s \in DOMAIN cache \ torn /\ cache'[s] = cache[s]
        BY <2>2, <3>2 DEF CachedList
      <4>2. Whole(s)
        BY <1>0, <3>2, <4>1 DEF OthersStayWhole
      <4> QED  BY <2>3, <4>1, <4>2 DEF Whole
    <3> QED  BY <3>1, <3>2
  <2>5. Wanted(load)' \subseteq DOMAIN cache'
    BY <1>0, <2>1, <2>2 DEF Scanning, Wanted
  <2> QED  BY <1>0, <2>1, <2>2, <2>4, <2>5 DEF CacheInv, Scanning, Filled, Sampling
<1>4. CASE InterruptScan
  <2>1. /\ phase = "scan" /\ phase' = "idle" /\ UNCHANGED <<file, cache>>
        /\ torn' = torn \union (missing \intersect DOMAIN cache)
    BY <1>4 DEF InterruptScan, Return
  <2>2. OthersStayWhole'
    <3> SUFFICES ASSUME NEW s \in DOMAIN cache \ torn' PROVE Whole(s)'
      BY <2>1 DEF OthersStayWhole
    <3>1. s \in DOMAIN cache \ torn /\ s \notin missing
      BY <2>1
    <3>2. Whole(s)
      BY <1>0, <3>1 DEF OthersStayWhole
    <3> QED  BY <2>1, <3>2, SameLists
  <2> QED  BY <1>0, <2>1, <2>2 DEF CacheInv, Scanning, Filled, Sampling
<1>5. CASE RefuseClock
  BY <1>5, IdleStep DEF RefuseClock, Return, vcdVars
<1>6. CASE SampleSignal
  <2> DEFINE s == load.signal
  <2>1. /\ phase = "sample" /\ phase' = "idle" /\ UNCHANGED <<file, load, torn>>
        /\ cache' = [t \in DOMAIN cache \union {s} |-> IF t = s THEN Padded(s, cache[s]) ELSE cache[t]]
    BY <1>6 DEF SampleSignal, Store, Return
  <2>2. s \in DOMAIN cache
    BY <1>0, <2>1 DEF Sampling, Wanted
  <2>3. \A t : FileList(t)' = FileList(t) /\ Padded(t, FileList(t))' = Padded(t, FileList(t))
    BY <2>1 DEF FileList, FileLists, Padded
  <2>4. OthersStayWhole'
    <3> SUFFICES ASSUME NEW t \in DOMAIN cache' \ torn PROVE Whole(t)'
      BY <2>1 DEF OthersStayWhole
    <3>1. t \in DOMAIN cache \ torn
      BY <2>1, <2>2
    <3>2. Whole(t)
      BY <1>0, <2>1, <3>1 DEF OthersStayWhole
    <3>3. CASE t # s
      BY <2>1, <2>3, <3>1, <3>2, <3>3 DEF Whole
    <3>4. CASE t = s
      <4>1. cache'[t] = Padded(t, cache[t])
        BY <2>1, <3>4
      <4>2. Padded(t, Padded(t, FileList(t))) = Padded(t, FileList(t))
        BY FileTyped, PaddedOnce
      <4>3. cache'[t] = Padded(t, FileList(t))
        BY <3>2, <4>1, <4>2 DEF Whole
      <4> QED  BY <2>3, <4>3 DEF Whole
    <3> QED  BY <3>3, <3>4
  <2>5. DOMAIN cache' = DOMAIN cache
    BY <2>1, <2>2
  <2> QED  BY <1>0, <2>1, <2>4, <2>5 DEF CacheInv, Scanning, Filled, Sampling
<1> QED  BY <1>1, <1>2, <1>3, <1>4, <1>5, <1>6 DEF VcdNext

LEMMA CacheNext == CacheInv /\ [Next]_vars => CacheInv'
<1> SUFFICES ASSUME CacheInv, [Next]_vars PROVE CacheInv'
  OBVIOUS
<1>1. CASE Vcd
  BY <1>1, VcdCacheNext DEF Vcd
<1>2. CASE Fst
  <2>1. UNCHANGED vcdVars /\ file' = file /\ phase # "scan" /\ phase' \notin {"scan", "sample"}
    BY <1>2 DEF Fst, FstNext, FstBegin, FstReadClock, FstRefuseClock, FstReadSignal, FstInterrupt,
                Call, Return
  <2> QED  BY <2>1, IdleStep DEF vcdVars
<1>3. CASE Fsdb
  <2>1. UNCHANGED vcdVars /\ file' = file /\ phase # "scan" /\ phase' \notin {"scan", "sample"}
    BY <1>3 DEF Fsdb, FsdbLoad
  <2> QED  BY <2>1, IdleStep DEF vcdVars
<1>4. CASE UNCHANGED vars
  <2>1. UNCHANGED <<file, load, phase, cache, missing, pos, torn>>
    BY <1>4 DEF vars, baseVars, vcdVars
  <2>2. OthersStayWhole' /\ Filled'
    BY <2>1, SameLists DEF CacheInv, OthersStayWhole, Filled
  <2> QED  BY <2>1, <2>2 DEF CacheInv, Scanning, Sampling, Wanted
<1> QED  BY <1>1, <1>2, <1>3, <1>4 DEF Next

\* VcdReader._ensure_cached and load_waveform: for every file and any loads, a list in the
\* shared cache is whole unless it is being filled or a scan broke off while filling it.
THEOREM CacheStaysWhole == Spec => []OthersStayWhole
<1>1. CacheInv => OthersStayWhole
  BY DEF CacheInv
<1> QED  BY <1>1, CacheInit, CacheNext, PTL DEF Spec

\* What a load samples, of the clock and of the signal, is there and is whole where no
\* scan of it broke off: load_waveform needs no more of _ensure_cached.
THEOREM SampledIsWhole ==
  Spec => [](phase = "sample" => \A s \in Wanted(load) : s \in DOMAIN cache /\ (s \in torn \/ Whole(s)))
<1>1. CacheInv => (phase = "sample" =>
                    \A s \in Wanted(load) : s \in DOMAIN cache /\ (s \in torn \/ Whole(s)))
  BY DEF CacheInv, Sampling, OthersStayWhole
<1> QED  BY <1>1, CacheInit, CacheNext, PTL DEF Spec

\* Where nothing breaks off a scan, every cached list is whole outside of scans: the
\* exception that goes through _ensure_cached is all that can break its promise.
THEOREM WholeWithoutInterrupts ==
  ASSUME ~Interrupts
  PROVE  Spec => []CachedIsWhole
<1> DEFINE Intact == CacheInv /\ torn = {}
<1>1. Init => Intact
  BY CacheInit DEF Init, VcdInit
<1>2. Intact /\ [Next]_vars => Intact'
  <2> SUFFICES ASSUME Intact, [Next]_vars PROVE torn' = torn
    BY CacheNext
  <2>1. CASE Vcd
    BY <2>1 DEF Vcd, VcdNext, BeginLoad, ScanEvent, EndScan, InterruptScan, RefuseClock, SampleSignal,
                vcdVars
  <2>2. CASE Fst \/ Fsdb \/ UNCHANGED vars
    BY <2>2 DEF Fst, Fsdb, vars, vcdVars
  <2> QED  BY <2>1, <2>2 DEF Next
<1>3. Intact => CachedIsWhole
  BY DEF CacheInv, OthersStayWhole, CachedIsWhole
<1> QED  BY <1>1, <1>2, <1>3, PTL DEF Spec
=============================================================================
