-------------------------- MODULE DriverCacheProofs --------------------------
(***************************************************************************)
(* Proofs about DriverCache: whoever downloads which archives at the same  *)
(* time, files nobody writes are whole and "ok" means that the library is  *)
(* there, for any number of processes and of urls.                         *)
(***************************************************************************)
EXTENDS DriverCache, FiniteSetTheorems, TLAPS

\* Whoever works and whatever was written was asked for, and what somebody
\* writes is there.
AskedInv ==
  /\ IsFiniteSet(asked)
  /\ \A f \in Formats :
       cache[f] \in Urls => cache[f] \in asked /\ Format(cache[f]) = f
  /\ lib \in Libraries => lib \in asked
  /\ \A p \in Procs :
       /\ pc[p] \in Working => url[p] \in asked
       /\ pc[p] \in {"extracted", "lib_open"} => data[p] \in Libraries \intersect asked
       /\ pc[p] = "cache_open" => cache[Name(p)] # None
       /\ pc[p] = "lib_open" => lib # None

\* If all archives have a library, "ok" means that a library is there, in
\* whatever state.
OkInv == Someone({"ok"}) /\ asked \subseteq Libraries => lib # None

\* The inductive invariant.
IInv ==
  /\ TypeOK
  /\ AskedInv
  /\ QuietFilesAreWhole
  /\ OkInv

-----------------------------------------------------------------------------
\* What one step of a process changes.
LEMMA StepFacts ==
  ASSUME TypeOK, NEW p \in Procs, NEW from, NEW to \in Points, Step(p, from, to)
  PROVE  /\ pc[p] = from
         /\ pc' \in [Procs -> Points]
         /\ pc'[p] = to
         /\ \A q \in Procs : q # p => pc'[q] = pc[q]
BY DEF TypeOK, Step

\* Somebody else is where he was.
LEMMA SomeoneFacts ==
  ASSUME TypeOK, NEW p \in Procs, NEW from, NEW to \in Points, Step(p, from, to),
         NEW x
  PROVE  /\ Someone({x}) /\ from # x => Someone({x})'
         /\ Someone({x})' /\ to # x => Someone({x})
         /\ to = x => Someone({x})'
BY StepFacts DEF Someone

\* So are those who write an archive.
LEMMA CachingFacts ==
  ASSUME TypeOK, NEW p \in Procs, NEW from, NEW to \in Points, Step(p, from, to),
         \A q \in Procs : q # p => url'[q] = url[q],
         NEW f \in Formats
  PROVE  /\ Caching(f) /\ (from # "cache_open" \/ Name(p) # f) => Caching(f)'
         /\ to = "cache_open" /\ url'[p] = url[p] /\ Name(p) = f => Caching(f)'
BY StepFacts DEF Caching, Name

\* Every url has a format, and None, Partial and Mixed are no urls.
LEMMA Kinds ==
  /\ \A u : Format(u) \in Formats
  /\ Libraries \subseteq Urls
  /\ None \notin Urls /\ Partial \notin Urls /\ Mixed \notin Urls
  /\ None # Partial /\ None # Mixed /\ Partial # Mixed
  /\ "lib" \notin Formats
BY ConstantsAssumption DEF Format, Formats, None, Partial, Mixed

\* Two urls are more than one.
LEMMA TwoOf ==
  ASSUME NEW S, IsFiniteSet(S), NEW u \in S, NEW v \in S, u # v
  PROVE  Cardinality(S) > 1
<1>1. IsFiniteSet({u, v}) /\ Cardinality({u, v}) = 2
  <2>1. /\ IsFiniteSet({u}) /\ Cardinality({u}) = 1
    BY FS_Singleton
  <2>2. v \notin {u} /\ {u} \union {v} = {u, v}
    OBVIOUS
  <2> QED
    BY <2>1, <2>2, FS_AddElement
<1>2. Cardinality({u, v}) <= Cardinality(S) /\ Cardinality(S) \in Nat
  BY <1>1, FS_Subset, FS_CardinalityType
<1> QED
  BY <1>1, <1>2

LEMMA Clashes ==
  ASSUME AskedInv, NEW u \in asked, NEW v \in asked, u # v
  PROVE  /\ Format(u) = Format(v) => ArchivesClash(Format(u))
         /\ u \in Libraries /\ v \in Libraries => LibrariesClash
<1>1. ASSUME Format(u) = Format(v)
      PROVE  ArchivesClash(Format(u))
  <2> DEFINE S == {w \in asked : Format(w) = Format(u)}
  <2>1. u \in S /\ v \in S
    BY <1>1
  <2>2. S \subseteq asked /\ IsFiniteSet(asked)
    BY DEF AskedInv
  <2>3. IsFiniteSet(S)
    BY <2>2, FS_Subset
  <2> QED
    BY <2>1, <2>3, TwoOf DEF ArchivesClash
<1>2. ASSUME u \in Libraries, v \in Libraries
      PROVE  LibrariesClash
  <2> DEFINE S == asked \intersect Libraries
  <2>1. u \in S /\ v \in S
    BY <1>2
  <2>2. IsFiniteSet(S)
    BY FS_Subset DEF AskedInv
  <2> QED
    BY <2>1, <2>2, TwoOf DEF LibrariesClash
<1> QED
  BY <1>1, <1>2

\* More urls clash no less.
LEMMA MoreOf ==
  ASSUME NEW S, NEW T, S \subseteq T, IsFiniteSet(T), Cardinality(S) > 1
  PROVE  Cardinality(T) > 1
<1>1. /\ Cardinality(S) <= Cardinality(T)
      /\ Cardinality(S) \in Nat /\ Cardinality(T) \in Nat
  BY FS_Subset, FS_CardinalityType
<1> QED
  BY <1>1

LEMMA ClashesStay ==
  ASSUME IsFiniteSet(asked'), asked \subseteq asked'
  PROVE  /\ \A f \in Formats : ArchivesClash(f) => ArchivesClash(f)'
         /\ LibrariesClash => LibrariesClash'
<1>1. ASSUME NEW f \in Formats, ArchivesClash(f)
      PROVE  ArchivesClash(f)'
  <2> DEFINE S == {u \in asked : Format(u) = f}
             T == {u \in asked' : Format(u) = f}
  <2>1. T \subseteq asked' /\ S \subseteq T
    OBVIOUS
  <2>2. IsFiniteSet(T)
    BY <2>1, FS_Subset
  <2>3. Cardinality(S) > 1
    BY <1>1 DEF ArchivesClash
  <2>4. Cardinality(T) > 1
    BY <2>1, <2>2, <2>3, MoreOf
  <2> QED
    BY <2>4 DEF ArchivesClash
<1>2. ASSUME LibrariesClash
      PROVE  LibrariesClash'
  <2>1. IsFiniteSet(asked' \intersect Libraries)
    BY FS_Subset
  <2> QED
    BY <1>2, <2>1, MoreOf DEF LibrariesClash
<1> QED
  BY <1>1, <1>2

-----------------------------------------------------------------------------
(* Steps that write no file.                                               *)

\* A process that gets on, without a write and not to "ok", and that was asked
\* to if it is at work.
LEMMA QuietStep ==
  ASSUME IInv, NEW p \in Procs, NEW from, NEW to \in Points,
         Step(p, from, to),
         to \notin {"ok", "cache_open", "lib_open"},
         from \notin {"cache_open", "lib_open"},
         UNCHANGED <<cache, lib, historyVars>>,
         url' \in [Procs -> Urls], data' \in [Procs -> Libraries \union {None}],
         \A q \in Procs : q # p => url'[q] = url[q] /\ data'[q] = data[q],
         to \in Working => from \in Working /\ url'[p] = url[p],
         to = "extracted" => data'[p] \in Libraries \intersect asked
  PROVE  IInv'
<1>1. TypeOK'
  BY StepFacts DEF IInv, TypeOK, historyVars
<1>2. AskedInv'
  BY StepFacts DEF IInv, AskedInv, Name, historyVars
<1>3. /\ \A f \in Formats : Caching(f) => Caching(f)'
      /\ Someone({"lib_open"}) => Someone({"lib_open"})'
      /\ Someone({"ok"})' => Someone({"ok"})
  BY SomeoneFacts, CachingFacts DEF IInv
<1>4. /\ \A f \in Formats : ArchivesClash(f) => ArchivesClash(f)'
      /\ LibrariesClash => LibrariesClash'
  BY ClashesStay DEF IInv, AskedInv, historyVars
<1>5. QuietFilesAreWhole' /\ OkInv'
  BY <1>3, <1>4 DEF IInv, QuietFilesAreWhole, OkInv, historyVars
<1> QED
  BY <1>1, <1>2, <1>5 DEF IInv

\* Steps of download, and those of a database.
LEMMA QuietSteps ==
  ASSUME IInv, NEW p \in Procs,
         \/ UseCache(p) \/ Fetch(p) \/ FetchFails(p)
         \/ Extract(p) \/ ExtractRaises(p)
         \/ Again(p) \/ FindLibrary(p) \/ LoadLibrary(p) \/ Kill(p)
  PROVE  IInv'
<1> USE DEF Points, Working, Results
<1>0. url \in [Procs -> Urls] /\ data \in [Procs -> Libraries \union {None}]
  BY DEF IInv, TypeOK
<1>1. CASE UseCache(p)
  BY <1>0, <1>1, QuietStep DEF UseCache
<1>2. CASE Fetch(p)
  BY <1>0, <1>2, QuietStep DEF Fetch
<1>3. CASE FetchFails(p)
  BY <1>0, <1>3, QuietStep DEF FetchFails
<1>4. CASE Extract(p)
  <2>1. Archive(p) \in Libraries \intersect asked
    BY <1>4, Kinds DEF Extract, Archive, Name, IInv, AskedInv
  <2>2. /\ data' \in [Procs -> Libraries \union {None}]
        /\ data'[p] = Archive(p)
        /\ \A q \in Procs : q # p => data'[q] = data[q]
    BY <1>0, <1>4, <2>1 DEF Extract
  <2> QED
    BY <1>0, <1>4, <2>1, <2>2, QuietStep DEF Extract
<1>5. CASE ExtractRaises(p)
  BY <1>0, <1>5, QuietStep DEF ExtractRaises
<1>6. CASE Again(p)
  <2>1. PICK from \in Results \union {"dead"} : Step(p, from, "idle")
    BY <1>6 DEF Again
  <2>2. /\ url' \in [Procs -> Urls]
        /\ \A q \in Procs : q # p => url'[q] = url[q]
    BY <1>0, <1>6 DEF Again
  <2> QED
    BY <1>0, <1>6, <2>1, <2>2, QuietStep DEF Again
<1>7. CASE FindLibrary(p)
  BY <1>0, <1>7, QuietStep DEF FindLibrary
<1>8. CASE LoadLibrary(p)
  BY <1>0, <1>8, QuietStep DEF LoadLibrary
<1>9. CASE Kill(p)
  <2>1. PICK from \in Working \ {"cache_open", "lib_open"} : Step(p, from, "dead")
    BY <1>9 DEF Kill
  <2>2. /\ data' \in [Procs -> Libraries \union {None}]
        /\ \A q \in Procs : q # p => data'[q] = data[q]
    BY <1>0, <1>9 DEF Kill
  <2> QED
    BY <1>0, <1>9, <2>1, <2>2, QuietStep DEF Kill
<1> QED
  BY <1>1, <1>2, <1>3, <1>4, <1>5, <1>6, <1>7, <1>8, <1>9

\* A download begins: its url is asked for, and if a library is there, it stays.
LEMMA DownloadKeeps ==
  ASSUME IInv, NEW p \in Procs, Download(p)
  PROVE  IInv'
<1> USE DEF Points, Working, Results
<1>1. PICK to \in {"ok", "missing"} :
        Step(p, "idle", to) /\ (to = "ok" => lib # None)
  BY DEF Download, Available, Exists
<1>2. /\ asked' = asked \union {url[p]}
      /\ UNCHANGED <<cache, lib, url, data, torn>>
      /\ url[p] \in Urls
  BY DEF Download, IInv, TypeOK
<1>3. TypeOK'
  BY <1>1, <1>2, StepFacts DEF IInv, TypeOK
<1>4. IsFiniteSet(asked')
  BY <1>2, FS_AddElement DEF IInv, AskedInv
<1>5. AskedInv'
  BY <1>1, <1>2, <1>4, StepFacts DEF IInv, AskedInv, Name
<1>6. /\ \A f \in Formats : Caching(f) => Caching(f)'
      /\ Someone({"lib_open"}) => Someone({"lib_open"})'
      /\ to # "ok" => (Someone({"ok"})' => Someone({"ok"}))
  <2>1. to \in Points /\ TypeOK /\ (\A q \in Procs : q # p => url'[q] = url[q])
    BY <1>2 DEF IInv
  <2>2. \A f \in Formats : Caching(f) => Caching(f)'
    BY <1>1, <2>1, CachingFacts
  <2>3. /\ Someone({"lib_open"}) => Someone({"lib_open"})'
        /\ to # "ok" => (Someone({"ok"})' => Someone({"ok"}))
    BY <1>1, <2>1, SomeoneFacts
  <2> QED
    BY <2>2, <2>3
<1>7. /\ \A f \in Formats : ArchivesClash(f) => ArchivesClash(f)'
      /\ LibrariesClash => LibrariesClash'
  BY <1>2, <1>4, ClashesStay
<1>8. QuietFilesAreWhole'
  BY <1>2, <1>6, <1>7 DEF IInv, QuietFilesAreWhole
<1>9. OkInv'
  BY <1>1, <1>2, <1>6 DEF IInv, OkInv
<1> QED
  BY <1>3, <1>5, <1>8, <1>9 DEF IInv

\* An archive without a library: it was asked for.
LEMMA NothingKeeps ==
  ASSUME IInv, NEW p \in Procs, ExtractNothing(p)
  PROVE  IInv'
<1> USE DEF Points, Working, Results
<1>1. /\ Step(p, "cached", "ok")
      /\ Archive(p) \in Urls \ Libraries
      /\ UNCHANGED <<cache, lib, url, data, asked, torn>>
  BY DEF ExtractNothing, historyVars
<1>2. TypeOK' /\ AskedInv'
  BY <1>1, StepFacts DEF IInv, TypeOK, AskedInv, Name
<1>3. /\ \A f \in Formats : Caching(f) => Caching(f)'
      /\ Someone({"lib_open"}) => Someone({"lib_open"})'
  <2>1. TypeOK /\ "ok" \in Points /\ (\A q \in Procs : q # p => url'[q] = url[q])
    BY <1>1 DEF IInv
  <2>2. \A f \in Formats : Caching(f) => Caching(f)'
    BY <1>1, <2>1, CachingFacts
  <2>3. Someone({"lib_open"}) => Someone({"lib_open"})'
    BY <1>1, <2>1, SomeoneFacts
  <2> QED
    BY <2>2, <2>3
<1>4. /\ \A f \in Formats : ArchivesClash(f) => ArchivesClash(f)'
      /\ LibrariesClash => LibrariesClash'
  BY <1>1, ClashesStay DEF IInv, AskedInv
<1>5. ~(asked' \subseteq Libraries)
  BY <1>1, Kinds DEF IInv, AskedInv, Archive, Name
<1>6. QuietFilesAreWhole' /\ OkInv'
  BY <1>1, <1>3, <1>4, <1>5 DEF IInv, QuietFilesAreWhole, OkInv
<1> QED
  BY <1>2, <1>6 DEF IInv

-----------------------------------------------------------------------------
(* Steps that write files.                                                 *)

\* The archive: it is opened, written, or left to be torn.
LEMMA CacheKeeps ==
  ASSUME IInv, NEW p \in Procs,
         OpenCache(p) \/ WriteCache(p) \/ KillWhileCaching(p)
  PROVE  IInv'
<1> USE DEF Points, Working, Results
<1>1. PICK n \in Formats, u \in Urls :
        n = Name(p) /\ u = url[p] /\ n = Format(u) /\ Archive(p) = cache[n]
  BY Kinds DEF IInv, TypeOK, Name, Archive
<1>0. cache \in [Formats -> {None, Partial, Mixed} \union Urls]
  BY DEF IInv, TypeOK
<1>2. PICK from \in {"fetched", "cache_open"}, to \in {"cache_open", "cached", "dead"} :
        /\ Step(p, from, to)
        /\ from = "fetched" <=> to = "cache_open"
        /\ to = "cache_open" => cache' = [cache EXCEPT ![n] = Partial]
        /\ to = "cached" => \E file \in Over(cache[n], u) :
                              cache' = [cache EXCEPT ![n] = file]
        /\ to = "dead" => /\ \E file \in CutOff(cache[n], u) :
                               cache' = [cache EXCEPT ![n] = file]
                          /\ n \in torn'
        /\ torn \subseteq torn' /\ torn' \subseteq torn \union {n}
        /\ UNCHANGED <<lib, url, data, asked>>
  BY <1>1 DEF OpenCache, WriteCache, KillWhileCaching, historyVars
<1>3. /\ pc[p] = from
      /\ u \in asked
      /\ from = "cache_open" => cache[n] # None
  <2>1. pc[p] = from
    BY <1>2 DEF Step
  <2> QED
    BY <1>1, <2>1 DEF IInv, AskedInv
<1>4. PICK file \in {Partial, Mixed} \union Urls :
        /\ cache' = [cache EXCEPT ![n] = file]
        /\ to = "cache_open" => file = Partial
        /\ to = "cached" => file \in Over(cache[n], u)
        /\ to = "dead" => file \in CutOff(cache[n], u)
  BY <1>0, <1>1, <1>2, <1>3 DEF Over, CutOff
<1>5. /\ cache'[n] = file
      /\ \A f \in Formats : f # n => cache'[f] = cache[f]
      /\ cache' \in [Formats -> {None, Partial, Mixed} \union Urls]
  BY <1>0, <1>1, <1>4
<1>6. file \in Urls => file = u \/ file = cache[n]
  BY <1>4, Kinds DEF Over, CutOff
<1>7. TypeOK'
  BY <1>1, <1>2, <1>5, StepFacts DEF IInv, TypeOK
<1>8. AskedInv'
  <2>1. file \in Urls => file \in asked /\ Format(file) = n
    BY <1>1, <1>3, <1>6 DEF IInv, AskedInv
  <2>2. file # None
    BY <1>4, Kinds
  <2>3. \A q \in Procs : Name(q)' = Name(q) /\ Name(q) \in Formats
    BY <1>2, Kinds DEF Name
  <2>4. \A q \in Procs :
          pc'[q] = "cache_open" => cache'[Name(q)] # None
    <3>1. \A q \in Procs : q # p => pc'[q] = pc[q]
      BY <1>2, StepFacts DEF IInv
    <3>2. \A q \in Procs : pc[q] = "cache_open" => cache[Name(q)] # None
      BY DEF IInv, AskedInv
    <3>3. n = Name(p)
      BY <1>1
    <3> QED
      BY <1>5, <2>2, <2>3, <3>1, <3>2, <3>3
  <2>5. \A q \in Procs :
          /\ pc'[q] \in Working => url'[q] \in asked'
          /\ pc'[q] \in {"extracted", "lib_open"} =>
               data'[q] \in Libraries \intersect asked'
          /\ pc'[q] = "lib_open" => lib' # None
    BY <1>2, <1>3, StepFacts DEF IInv, AskedInv
  <2>6. \A f \in Formats :
          cache'[f] \in Urls => cache'[f] \in asked' /\ Format(cache'[f]) = f
    BY <1>2, <1>5, <2>1 DEF IInv, AskedInv
  <2>7. /\ IsFiniteSet(asked')
        /\ lib' \in Libraries => lib' \in asked'
    BY <1>2 DEF IInv, AskedInv
  <2> HIDE DEF Working
  <2> QED
    BY <2>3, <2>4, <2>5, <2>6, <2>7 DEF AskedInv
<1>9. /\ \A f \in Formats : f # n /\ Caching(f) => Caching(f)'
      /\ to = "cache_open" => Caching(n)'
      /\ Someone({"lib_open"}) => Someone({"lib_open"})'
      /\ Someone({"ok"})' => Someone({"ok"})
  BY <1>1, <1>2, SomeoneFacts, CachingFacts DEF IInv
<1>10. /\ \A f \in Formats : ArchivesClash(f) => ArchivesClash(f)'
       /\ LibrariesClash => LibrariesClash'
  BY <1>2, ClashesStay DEF IInv, AskedInv
<1>11. file = Partial => to \in {"cache_open", "dead"}
  BY <1>1, <1>4, Kinds DEF Over
<1>12. ASSUME file = Mixed, to = "cached"
       PROVE  ArchivesClash(n) \/ n \in torn
  <2>1. cache[n] \notin {Partial, u, None}
    BY <1>1, <1>2, <1>3, <1>4, <1>12, Kinds DEF Over
  <2>2. CASE cache[n] = Mixed
    BY <1>1, <2>2 DEF IInv, QuietFilesAreWhole
  <2>3. CASE cache[n] \in Urls
    BY <1>0, <1>1, <1>3, <2>1, <2>3, Clashes DEF IInv, AskedInv
  <2> QED
    BY <1>0, <1>1, <2>1, <2>2, <2>3
<1>13. QuietFilesAreWhole'
  <2>1. \A f \in Formats : f # n =>
          /\ cache'[f] = Partial => Caching(f)' \/ f \in torn'
          /\ cache'[f] = Mixed => ArchivesClash(f)' \/ f \in torn'
    BY <1>2, <1>5, <1>9, <1>10 DEF IInv, QuietFilesAreWhole
  <2>2. /\ cache'[n] = Partial => Caching(n)' \/ n \in torn'
        /\ cache'[n] = Mixed => ArchivesClash(n)' \/ n \in torn'
    BY <1>1, <1>2, <1>4, <1>5, <1>9, <1>10, <1>11, <1>12, Kinds
  <2>3. /\ lib' = Partial => Someone({"lib_open"})' \/ "lib" \in torn'
        /\ lib' = Mixed => LibrariesClash' \/ "lib" \in torn'
    BY <1>2, <1>9, <1>10 DEF IInv, QuietFilesAreWhole
  <2> QED
    BY <2>1, <2>2, <2>3 DEF QuietFilesAreWhole
<1>14. OkInv'
  BY <1>2, <1>9 DEF IInv, OkInv
<1> QED
  BY <1>7, <1>8, <1>13, <1>14 DEF IInv

\* The library, likewise: it is mixed only if two urls have one.
LEMMA LibraryKeeps ==
  ASSUME IInv, NEW p \in Procs,
         OpenLibrary(p) \/ WriteLibrary(p) \/ KillWhileExtracting(p)
  PROVE  IInv'
<1> USE DEF Points, Working, Results
<1>1. PICK from \in {"extracted", "lib_open"}, to \in {"lib_open", "ok", "dead"} :
        /\ Step(p, from, to)
        /\ from = "extracted" <=> to = "lib_open"
        /\ to = "lib_open" => lib' = Partial /\ UNCHANGED data
        /\ to = "ok" => lib' \in Over(lib, data[p])
        /\ to = "dead" => lib' \in CutOff(lib, data[p]) /\ "lib" \in torn'
        /\ to \in {"ok", "dead"} => data' = [data EXCEPT ![p] = None]
        /\ torn \subseteq torn' /\ torn' \subseteq torn \union {"lib"}
        /\ UNCHANGED <<cache, url, asked>>
  BY DEF OpenLibrary, WriteLibrary, KillWhileExtracting, historyVars
<1>2. /\ pc[p] = from
      /\ data[p] \in Libraries /\ data[p] \in asked
      /\ from = "lib_open" => lib # None
  BY <1>1, StepFacts DEF IInv, AskedInv
<1>3. /\ lib' \in {Partial, Mixed} \union Libraries
      /\ lib' \in Libraries => lib' \in {data[p], lib}
  BY <1>1, <1>2, Kinds DEF Over, CutOff, IInv, TypeOK
<1>4. /\ data' \in [Procs -> Libraries \union {None}]
      /\ \A q \in Procs : q # p => data'[q] = data[q]
      /\ to = "lib_open" => data'[p] = data[p]
  BY <1>1 DEF IInv, TypeOK
<1>5. TypeOK'
  BY <1>1, <1>3, <1>4, StepFacts DEF IInv, TypeOK
<1>6. AskedInv'
  <2>1. lib' \in Libraries => lib' \in asked'
    BY <1>1, <1>2, <1>3 DEF IInv, AskedInv
  <2>2. lib' # None
    BY <1>3, Kinds
  <2>3. \A q \in Procs : Name(q)' = Name(q)
    BY <1>1 DEF Name
  <2>4. \A q \in Procs :
          /\ pc'[q] \in Working => url'[q] \in asked'
          /\ pc'[q] \in {"extracted", "lib_open"} =>
               data'[q] \in Libraries \intersect asked'
          /\ pc'[q] = "cache_open" => cache'[Name(q)] # None
    BY <1>1, <1>2, <1>4, StepFacts DEF IInv, AskedInv
  <2> QED
    BY <1>1, <2>1, <2>2, <2>3, <2>4 DEF IInv, AskedInv
<1>7. /\ \A f \in Formats : Caching(f) => Caching(f)'
      /\ to = "lib_open" => Someone({"lib_open"})'
  BY <1>1, SomeoneFacts, CachingFacts DEF IInv
<1>8. /\ \A f \in Formats : ArchivesClash(f) => ArchivesClash(f)'
      /\ LibrariesClash => LibrariesClash'
  BY <1>1, ClashesStay DEF IInv, AskedInv
<1>9. lib' = Partial => to \in {"lib_open", "dead"}
  BY <1>1, <1>2, Kinds DEF Over
<1>10. ASSUME lib' = Mixed, to = "ok"
       PROVE  LibrariesClash \/ "lib" \in torn
  <2>1. lib \notin {Partial, data[p], None}
    BY <1>1, <1>2, <1>10, Kinds DEF Over
  <2>2. CASE lib = Mixed
    BY <2>2 DEF IInv, QuietFilesAreWhole
  <2>3. CASE lib \in Libraries
    BY <1>2, <2>1, <2>3, Clashes DEF IInv, AskedInv
  <2> QED
    BY <2>1, <2>2, <2>3 DEF IInv, TypeOK
<1>11. QuietFilesAreWhole'
  <2>1. /\ lib' = Partial => Someone({"lib_open"})' \/ "lib" \in torn'
        /\ lib' = Mixed => LibrariesClash' \/ "lib" \in torn'
    BY <1>1, <1>7, <1>8, <1>9, <1>10, Kinds
  <2> QED
    BY <1>1, <1>7, <1>8, <2>1 DEF IInv, QuietFilesAreWhole
<1>12. OkInv'
  BY <1>3, Kinds DEF OkInv
<1> QED
  BY <1>5, <1>6, <1>11, <1>12 DEF IInv

-----------------------------------------------------------------------------
(* The theorems.                                                           *)

LEMMA InitInv == Init => IInv
<1> SUFFICES ASSUME Init
             PROVE  IInv
  OBVIOUS
<1>1. TypeOK
  BY DEF Init, TypeOK, Points
<1>2. AskedInv
  BY FS_EmptySet, Kinds DEF Init, AskedInv, Working
<1>3. QuietFilesAreWhole /\ OkInv
  BY Kinds DEF Init, QuietFilesAreWhole, OkInv, Someone
<1> QED
  BY <1>1, <1>2, <1>3 DEF IInv

LEMMA NextInv == IInv /\ [Next]_vars => IInv'
<1> SUFFICES ASSUME IInv, [Next]_vars
             PROVE  IInv'
  OBVIOUS
<1>1. ASSUME NEW p \in Procs,
             \/ Work(p) \/ Fetch(p) \/ FetchFails(p)
             \/ FindLibrary(p)
             \/ KillWhileCaching(p) \/ KillWhileExtracting(p) \/ Kill(p)
      PROVE  IInv'
  BY <1>1, QuietSteps, DownloadKeeps, CacheKeeps, LibraryKeeps, NothingKeeps
     DEF Work
<1>2. CASE UNCHANGED vars
  <2>1. UNCHANGED <<cache, lib, pc, url, data, asked, torn>>
    BY <1>2 DEF vars, procVars, historyVars
  <2>2. /\ UNCHANGED LibrariesClash
        /\ \A f \in Formats : ArchivesClash(f)' = ArchivesClash(f)
    BY <2>1 DEF LibrariesClash, ArchivesClash
  <2>3. /\ \A f \in Formats : Caching(f)' = Caching(f)
        /\ Someone({"ok"})' = Someone({"ok"})
        /\ Someone({"lib_open"})' = Someone({"lib_open"})
        /\ \A q \in Procs : Name(q)' = Name(q)
    BY <2>1 DEF Caching, Someone, Name
  <2> QED
    BY <2>1, <2>2, <2>3 DEF IInv, TypeOK, AskedInv, QuietFilesAreWhole, OkInv
<1> QED
  BY <1>1, <1>2 DEF Next

\* The inductive invariant holds.
THEOREM Invariance == Spec => []IInv
BY InitInv, NextInv, PTL DEF Spec

\* The variables keep their types.
THEOREM TypeCorrect == Spec => []TypeOK
BY Invariance, PTL DEF IInv

\* A file that nobody writes is whole, unless its writer was killed or files of
\* two urls were written over each other.
THEOREM QuietFiles == Spec => []QuietFilesAreWhole
BY Invariance, PTL DEF IInv

\* When download returns :ok, and all archives have a library, one is there,
\* whole unless it is being written again, its writer was killed or there are
\* several.
THEOREM OkMeansLibrary == Spec => []OkMeansAvailable
<1>1. IInv => OkMeansAvailable
  BY DEF IInv, TypeOK, OkInv, QuietFilesAreWhole, OkMeansAvailable, Exists
<1> QED
  BY <1>1, Invariance, PTL
=============================================================================
