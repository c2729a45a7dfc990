----------------------------- MODULE DriverCache -----------------------------
(***************************************************************************)
(* Adbc.Driver: drivers are downloaded to a cache and their libraries      *)
(* extracted to the place where databases look for them                    *)
(* (lib/adbc/driver.ex, lib/adbc/helper.ex).                               *)
(*                                                                         *)
(* Several processes, of one or of several Erlang nodes, download the same *)
(* driver (mix compile does, for the drivers of the configuration) and     *)
(* start databases that use it.  What they share is three files: archives  *)
(* are cached by driver and version, one for each of two formats, and all  *)
(* libraries are extracted to one place.  A file is written by             *)
(* File.write!: it is truncated when it is opened and gets its contents by *)
(* one call of the operating system some time later.  There is no lock.    *)
(***************************************************************************)
EXTENDS FiniteSets, Naturals

CONSTANTS
  Procs,       \* the processes
  Urls,        \* the urls they give for this version of the driver
  Tarballs,    \* those that end in .tar.gz
  Libraries    \* those whose archive has a library in it

\* A file does not exist; is empty, and is being written or was left so; or
\* has bytes of several writes, or of one that was cut off.
None    == "none"
Partial == "partial"
Mixed   == "mixed"

\* Otherwise it is the archive of a url, or the library in that archive.
ASSUME ConstantsAssumption ==
  /\ Tarballs \subseteq Urls
  /\ Libraries \subseteq Urls
  /\ {None, Partial, Mixed} \intersect Urls = {}

Formats == {".zip", ".tar.gz"}

Format(u) == IF u \in Tarballs THEN ".tar.gz" ELSE ".zip"

VARIABLES
  cache,    \* cache[f]: the archive of format f in the cache directory
  lib,      \* the library in priv/
  pc,       \* pc[p]: where process p is
  url,      \* url[p]: the url process p downloads from
  data,     \* data[p]: the library it has extracted into memory
  asked,    \* history: the urls of downloads so far
  torn      \* history: the files whose writer was killed

procVars    == <<pc, url, data>>
historyVars == <<asked, torn>>
vars == <<cache, lib, procVars, historyVars>>

Results == {"ok", "error", "raised", "loaded", "invalid"}
Working == {"missing", "fetched", "cache_open", "cached", "extracted",
            "lib_open"}

Points == {"idle", "found", "dead"} \union Working \union Results

TypeOK ==
  /\ cache \in [Formats -> {None, Partial, Mixed} \union Urls]
  /\ lib \in {None, Partial, Mixed} \union Libraries
  /\ pc \in [Procs -> Points]
  /\ url \in [Procs -> Urls]
  /\ data \in [Procs -> Libraries \union {None}]
  /\ asked \subseteq Urls
  /\ torn \subseteq Formats \union {"lib"}

Init ==
  /\ cache = [f \in Formats |-> None]
  /\ lib = None
  /\ pc = [p \in Procs |-> "idle"]
  /\ url \in [Procs -> Urls]
  /\ data = [p \in Procs |-> None]
  /\ asked = {}
  /\ torn = {}

Exists(file) == file # None

\* What a file may be when u was written over what it had since it was
\* truncated: longer contents are overwritten in part.
Over(file, u) == IF file \in {Partial, u} THEN {u} ELSE {u, Mixed}

\* The same when the writer was killed.
CutOff(file, u) == IF file = u THEN {u} ELSE {file, Mixed}

\* cache_path, and the archive that is there.
Name(p)    == Format(url[p])
Archive(p) == cache[Name(p)]

Step(p, from, to) == pc[p] = from /\ pc' = [pc EXCEPT ![p] = to]

-----------------------------------------------------------------------------
(* Adbc.Driver.download.                                                   *)

\* driver_status: nothing is to be done if the library is there.  Mutant: it
\* looks for the archive.
Available_Cached == \E f \in Formats : Exists(cache[f])

Available == Exists(lib)

Download(p) ==
  /\ IF Available THEN Step(p, "idle", "ok") ELSE Step(p, "idle", "missing")
  /\ asked' = asked \union {url[p]}
  /\ UNCHANGED <<cache, lib, url, data, torn>>

\* cached_download finds an archive of the driver, the platform, the version
\* and the format.  Mutant: what is cached is taken to be extracted.
UseCache_Done(p) ==
  /\ Exists(Archive(p))
  /\ Step(p, "missing", "ok")
  /\ UNCHANGED <<cache, lib, url, data, historyVars>>

UseCache(p) ==
  /\ Exists(Archive(p))
  /\ Step(p, "missing", "cached")
  /\ UNCHANGED <<cache, lib, url, data, historyVars>>

\* Helper.download: a response of status 200, ...
Fetch(p) ==
  /\ ~Exists(Archive(p))
  /\ Step(p, "missing", "fetched")
  /\ UNCHANGED <<cache, lib, url, data, historyVars>>

\* ... or any other outcome, which leaves nothing behind.  Mutant: the body is
\* streamed to the file.
FetchFails_Streamed(p) ==
  /\ ~Exists(Archive(p))
  /\ Step(p, "missing", "error")
  /\ cache' = [cache EXCEPT ![Name(p)] = Partial]
  /\ UNCHANGED <<lib, url, data, historyVars>>

FetchFails(p) ==
  /\ ~Exists(Archive(p))
  /\ Step(p, "missing", "error")
  /\ UNCHANGED <<cache, lib, url, data, historyVars>>

\* File.write!(cache_path, body): the file is created or truncated, ...
OpenCache(p) ==
  /\ Step(p, "fetched", "cache_open")
  /\ cache' = [cache EXCEPT ![Name(p)] = Partial]
  /\ UNCHANGED <<lib, url, data, historyVars>>

\* ... and gets its contents.
WriteCache(p) ==
  /\ Step(p, "cache_open", "cached")
  /\ \E file \in Over(Archive(p), url[p]) :
       cache' = [cache EXCEPT ![Name(p)] = file]
  /\ UNCHANGED <<lib, url, data, historyVars>>

\* extract! reads the archive that has the name, ...  Mutant: it takes any
\* file in it for the library.
Extract_AnyFile(p) ==
  /\ Archive(p) \in Urls
  /\ Step(p, "cached", "extracted")
  /\ data' = [data EXCEPT ![p] = Archive(p)]
  /\ UNCHANGED <<cache, lib, url, historyVars>>

Extract(p) ==
  /\ Archive(p) \in Libraries
  /\ Step(p, "cached", "extracted")
  /\ data' = [data EXCEPT ![p] = Archive(p)]
  /\ UNCHANGED <<cache, lib, url, historyVars>>

\* ... does not find {:ok, _} if it is not one, ...
ExtractRaises(p) ==
  /\ Archive(p) \in {Partial, Mixed}
  /\ Step(p, "cached", "raised")
  /\ UNCHANGED <<cache, lib, url, data, historyVars>>

\* ... and succeeds if there is no library in it.
ExtractNothing(p) ==
  /\ Archive(p) \in Urls \ Libraries
  /\ Step(p, "cached", "ok")
  /\ UNCHANGED <<cache, lib, url, data, historyVars>>

\* File.write!(filepath, file_data), in two steps as before.
OpenLibrary(p) ==
  /\ Step(p, "extracted", "lib_open")
  /\ lib' = Partial
  /\ UNCHANGED <<cache, url, data, historyVars>>

WriteLibrary(p) ==
  /\ Step(p, "lib_open", "ok")
  /\ lib' \in Over(lib, data[p])
  /\ data' = [data EXCEPT ![p] = None]
  /\ UNCHANGED <<cache, url, historyVars>>

\* The result was returned, and the process asks once more, with this url or
\* another; or a new process does, in place of a dead one.
Again(p) ==
  /\ \E from \in Results \union {"dead"} : Step(p, from, "idle")
  /\ \E u \in Urls : url' = [url EXCEPT ![p] = u]
  /\ UNCHANGED <<cache, lib, data, historyVars>>

-----------------------------------------------------------------------------
(* Adbc.Database.start_link.                                               *)

\* so_path: the library is there, or not.
FindLibrary(p) ==
  /\ IF Exists(lib) THEN Step(p, "idle", "found") ELSE Step(p, "idle", "error")
  /\ UNCHANGED <<cache, lib, url, data, historyVars>>

\* adbc_database_init: the driver manager loads it, or cannot.
LoadLibrary(p) ==
  /\ Step(p, "found", IF lib \in Libraries THEN "loaded" ELSE "invalid")
  /\ UNCHANGED <<cache, lib, url, data, historyVars>>

-----------------------------------------------------------------------------
(* The process is killed at work, or its node is.                          *)

KillWhileCaching(p) ==
  /\ Step(p, "cache_open", "dead")
  /\ \E file \in CutOff(Archive(p), url[p]) :
       cache' = [cache EXCEPT ![Name(p)] = file]
  /\ torn' = torn \union {Name(p)}
  /\ UNCHANGED <<lib, url, data, asked>>

KillWhileExtracting(p) ==
  /\ Step(p, "lib_open", "dead")
  /\ lib' \in CutOff(lib, data[p])
  /\ data' = [data EXCEPT ![p] = None]
  /\ torn' = torn \union {"lib"}
  /\ UNCHANGED <<cache, url, asked>>

Kill(p) ==
  /\ \E from \in Working \ {"cache_open", "lib_open"} : Step(p, from, "dead")
  /\ data' = [data EXCEPT ![p] = None]
  /\ UNCHANGED <<cache, lib, url, historyVars>>

-----------------------------------------------------------------------------
Work(p) ==
  \/ Download(p)
  \/ UseCache(p)
  \/ OpenCache(p)
  \/ WriteCache(p)
  \/ Extract(p)
  \/ ExtractRaises(p)
  \/ ExtractNothing(p)
  \/ OpenLibrary(p)
  \/ WriteLibrary(p)
  \/ LoadLibrary(p)
  \/ Again(p)

Next ==
  \E p \in Procs :
    \/ Work(p)
    \/ Fetch(p) \/ FetchFails(p)
    \/ FindLibrary(p)
    \/ KillWhileCaching(p) \/ KillWhileExtracting(p) \/ Kill(p)

Spec == Init /\ [][Next]_vars

\* Processes get on with their work and download again, whatever else they try
\* in between, and a server that is asked time and again answers once.
Fairness ==
  \A p \in Procs :
    WF_vars(Work(p)) /\ SF_vars(Download(p)) /\ SF_vars(Fetch(p))

FairSpec == Spec /\ Fairness

-----------------------------------------------------------------------------
(* Properties.                                                             *)

Someone(at) == \E p \in Procs : pc[p] \in at

\* Somebody writes the archive of format f.
Caching(f) == \E p \in Procs : pc[p] = "cache_open" /\ Name(p) = f

\* Urls were asked for whose archives have the same name, or which all have a
\* library.
ArchivesClash(f) == Cardinality({u \in asked : Format(u) = f}) > 1
LibrariesClash   == Cardinality(asked \intersect Libraries) > 1

\* A file that exists is taken to be whole, by download and by so_path.  When
\* nobody writes it, it is, whatever fails and whoever else downloads, unless
\* its writer was killed, or files of two urls were written over each other.
QuietFilesAreWhole ==
  /\ \A f \in Formats :
       /\ cache[f] = Partial => Caching(f) \/ f \in torn
       /\ cache[f] = Mixed => ArchivesClash(f) \/ f \in torn
  /\ lib = Partial => Someone({"lib_open"}) \/ "lib" \in torn
  /\ lib = Mixed => LibrariesClash \/ "lib" \in torn

\* When download returns :ok, a library is there, if all archives have one:
\* "It returns `:ok` or `{:error, binary}`" (Adbc.download_driver), and a
\* database can be started.  It is whole, or another process that also found
\* it missing is writing it again, unless a writer of it was killed or there
\* are libraries of several urls.  A torn archive does not matter.
OkMeansAvailable ==
  Someone({"ok"}) /\ asked \subseteq Libraries =>
    \/ lib \in Libraries
    \/ Someone({"lib_open"})
    \/ Exists(lib) /\ (LibrariesClash \/ "lib" \in torn)

\* Downloads that are tried again end with a library that stays, whatever
\* failed before and whoever was killed, but in the middle of a write; if one
\* url is asked for and its archive has a library.
Undisturbed ==
  torn = {} /\ Cardinality(asked) <= 1 /\ asked \subseteq Libraries

Converges ==
  []Undisturbed /\ <>[]~Someone({"dead"}) => <>[](lib \in Libraries)

\* The same, whatever was killed and whatever was asked for before.
ConvergesAlways == <>[]~Someone({"dead"}) => <>[](lib \in Libraries)

\* The library is that of one url, whoever extracts one, if no writer was
\* killed.
LibraryIsNotMixed == lib = Mixed => "lib" \in torn

\* "It returns `:ok` or `{:error, binary}`" (Adbc.download_driver).
ReturnsStatus == ~Someone({"raised"})

\* The library that so_path has found can be loaded.
FoundLibrariesLoad == ~Someone({"invalid"})
=============================================================================
