# A TLA+ verification of adbc

This directory models [adbc](../src/README.md), the Elixir bindings to Arrow Database Connectivity,
in TLA+. TLC model-checks the modules on small instances, and the TLA+ proof system (TLAPS) checks
proofs that hold for every value of the constants. `PROJECT.json` maps every definition to the lines
it stands for and lists the runs, the hazards, the findings and the theorems.

1. [The system](#1-the-system)
2. [The modules](#2-the-modules)
3. [The runs](#3-the-runs)
4. [Fairness](#4-fairness)
5. [What is proved](#5-what-is-proved)
6. [What the code does not keep](#6-what-the-code-does-not-keep)
7. [What is not modelled](#7-what-is-not-modelled)
8. [Plan](#8-plan)

## 1. The system

adbc has an Elixir part (`lib/`) and a library of NIFs in C++ (`c_src/`), which calls an ADBC driver
through the driver manager (`3rd_party/`).

| component | source | its state | its operations | what makes it correct |
|---|---|---|---|---|
| connection process | `lib/adbc/connection.ex` 850-1080 | `conn`, `queue`, `lock`, `ingest_counter`; its monitors and its mailbox | `handle_call` of `stream`, `command` and `option`, `unlock`, `DOWN`, `execute_on_gc`, `maybe_dequeue`, `terminate` | one request at a time, in the order of arrival; the lock is given back whatever happens to its owner; no message it has no clause for; every caller gets an answer |
| callers, of one or several connections | `connection.ex` 329-336, 432-438, 853-891, `helper.ex` 16-30 | the request they wait for, the stream they read | call, also from inside a reader; read in a NIF; transfer a stream; unlock; die; time out | the stream they read is open and is theirs alone; no call waits for ever; a connection of the driver is used by one request at a time |
| temporary tables | `connection.ex` 1022-1063, `adbc_nif.cpp` 110-150 | `ingest_counter`, tables in the database, results and the references to them | ingest, query, drop, the destructor of a result | a table lives as long as its result, is not dropped while it is read, and goes away afterwards |
| NIF resources | `c_src/adbc_nif.cpp` 1-480 | boxes of databases, connections, statements, streams; references between them | new, init, execute, metadata, bind, release, destructors | no object of the driver is released before the objects that were made from it |
| columns | `lib/adbc/column.ex`, `c_src/from_arrow.hpp`, `c_src/to_arrow.hpp` | buffers: data, null bits, offsets, bit offset, null count | from a list, to an `ArrowArray`, from an `ArrowArray`, to a list | what went in comes out, nils included |
| database process | `lib/adbc/database.ex`, `connection.ex` 895-905 | the database resource, links to connections | init, `initialize_connection`, `option`, exits | its end ends its connections, the end of a connection does not end it, and a start never hangs |
| driver cache | `lib/adbc/driver.ex`, `lib/adbc/helper.ex` | the archives in the cache directory, the library in `priv/` | download, extract, find, load | a file that exists is complete; `:ok` means that the library is there |
| results, fields, IPC | `result.ex`, `field.ex`, `buffers.ex`, `error.ex` | none | pure functions | - |
| Python interoperation | `connection.ex` 600-690, `result.ex` | in another runtime | `py_query` | the stream is valid while Python reads it |
| library loading, types, vendored code | `dll_loader*`, `shared.hpp`, `3rd_party/` | none of their own | - | - |

**How they interact.** A client sends the connection process a request with `GenServer.call`. The
process appends it to its queue and, when it holds no lock, takes the first request, calls the driver
through NIFs, and replies. A request for a stream makes it take its lock and monitor the caller; the
caller then reads the stream with NIF calls of its own, *outside* the connection process, and gives the
lock back by a cast or by dying. While it reads, it may call the same or another connection, and hand
the stream it reads to another one, which binds it to a statement and reads it to the end. Options are
not queued. The result of an ingest is a NIF resource
whose destructor sends a message to the connection process, from whichever thread drops the last
reference; the process then drops the table as one more request of the queue. The resources themselves
refer to each other, so that the destructor of a stream may release the statement, the connection and
the database after it. The columns are encoded in Elixir, exported by C++ to the driver, and back.
A connection calls the database process when it starts, which initializes it and links to it; the
database traps exits and ignores those of its connections. The driver's library is a file that any
process may download and extract at the time another one looks for it.

**What is hard.** Signals of different processes arrive in any order; a process dies while it waits,
while it reads, inside a NIF that goes on without it, or after it has unlocked; a query fails with the
queue full; the process restarts while clients still hold streams and results of the old one;
references are dropped by anyone at any time; a destructor's message is never answered; a process
that holds the lock of one connection waits for another; a process is linked to after it has died, or
not yet linked to when it dies; files are taken to be complete because they exist; and the codec
cuts bits and offsets in three places, two of them in another language. `PROJECT.json` lists each of
these under `hazards`, at its line, with the properties that would notice.

## 2. The modules

```
ConnectionService  <---- implemented by ---- Connection <-- ConnectionInv <-- ConnectionProofs
       ^                                                         ^-- MCConnection
       |------- INSTANCE, composed with ---- Ingest <-- IngestProofs, MCIngest
       |------- implemented by each ---- Transfer <-- TransferInv <-- TransferProofs
                connection of                              ^-- MCTransfer

Lifecycle <-- LifecycleProofs       DriverCache <-- DriverCacheProofs
                                    Resources   <-- ResourcesProofs, MCResources
BooleanColumn, Temporal     <-- ColumnProofs
OffsetColumn,  NestedColumn <-- OffsetColumnProofs
```

The MC modules have the symmetry sets and the relations the instances need; where an instance is
constants only, the configuration is one of the module itself (`tlc -config Lifecycle_safety.cfg Lifecycle`).
The lemmas about sequences, finite sets and functions that the proofs cite are those of the library
(SequenceTheorems, FiniteSetTheorems, FunctionTheorems).

### Connection

One server and a set of clients. The server's position, `server`, is where it is in the loop of the
GenServer: waiting in `receive`, in `maybe_dequeue` (`dequeue`), in the NIFs of a request (`execute`),
in the NIF of an option (`option`), stopped or crashed. The four fields of the `%{...}` state are
`queue` and `lock` here, and `conn` and `ingest_counter` in Resources and Ingest.

| in the model | in the code |
|---|---|
| `chan[s]` | the signals from process `s` to the server that were sent and not handled; signals of one process stay in order, those of several do not |
| `monitors`, `down` | active monitors; `DOWN` messages in the mailbox. `Process.demonitor(ref, [:flush])` removes both |
| `log` | what was sent: who, which kind, to which incarnation (`epoch`) |
| `pc[c]`, `cur[c]`, `answer[c]` | the client: in `GenServer.call`, in the function that reads the stream, in a NIF of it |
| `reading` | the reads whose dirty NIF runs, whether their caller lives or not |
| `open` | the streams that are not released |
| `Enqueue`, `HandleOption`, `HandleUnlock`, `HandleDown` | `handle_call`, `handle_cast`, `handle_info` |
| `Dequeue`, `EndDequeue`, `HandleCommand`, `HandleStream`, `HandleStreamError` | `maybe_dequeue` and what it calls |
| `Terminate`, `Restart` | the end of the process (its database exits, its supervisor stops it) and a new one in its place |
| `CollectStream` | the garbage collector, for a stream nobody refers to |

The driver is a choice between success and error. A handler and the NIF calls in it are several steps
where another process can get in between (a client runs NIFs of its own meanwhile), and one step
where nobody can tell.

**ConnectionService** is what the process promises: requests wait in order, one is active at a time,
an accepted one is finished or forgotten at a failure of the whole process. `ServesInOrder` is the
refinement: the waiting requests are `queue`, the active one is the one that executes or whose lock is
held.

### Ingest

Stands on ConnectionService (`Service == INSTANCE ConnectionService`) instead of repeating the
server: each action of the server here is an action of the service *and* what the handler does to
tables, results and the counter. `holders[r]` are the processes that refer to the result of request
`r`, the server among them: it makes the struct on its own heap and sends a copy. `Destroy` is the
destructor that sends the `DROP TABLE`; `name[r]` is the table, named by a counter that starts again
at 0 with every incarnation.

### Transfer

Several connections and the processes that call them, also from inside the function that reads a
stream. The messages of one connection are Connection's subject; here each connection is what
ConnectionService promises, with the lock that makes it so, and a request arrives when it is sent.

| in the model | in the code |
|---|---|
| `held[c]` | the streams client `c` reads, as the functions given to `query_pointer` nest, the innermost last |
| `queue[k]`, `running[k]`, `lock[k]` | the state of connection `k`, and the request whose NIF calls it executes |
| `log[r]` | request `r`: its sender, the connection it is sent to, the one its statement belongs to (`on`), the stream it transfers (`source`) |
| `open`, `bound` | the streams in the boxes made for them; the transfers whose statement holds a stream that was moved there |
| `CallPlain`, `CallTransfer` | `query`, `execute` and the like; `bulk_insert` and `ingest` of a stream, with the check that it is not a stream of the same connection |
| `BindStream`, `HandleTransfer` | `adbc_statement_bind_stream`, and the rest of `handle_command({:bulk_insert_stream, ...})` and of `ingest_stream` |
| `Return`, `Kill`, `HandleDown` | the `after` clause of `stream/3`; a death; the `DOWN` of the owner of a lock |

`Nestings` and `Prepared` say what applications do: from readers of which connection they call which
other one, and on which connection they execute what was prepared on which other. The properties of
this module are about what applications may do, so these are parameters and not bounds.

### Lifecycle

One database, which its supervisor restarts, and the connections that are started for it. A pid is
the number of the start (`starts`, `Epoch`), so that a call from a process that has gone is told from
that of its successor. `initialize_connection` is three steps, `InitializeConnection` (the NIF),
`LinkConnection` and `ReplyInitialized`, and anything may end between two of them. `End` is the end of
the database: exit signals go to the linked connections (`exits`), which do not trap them, and are
ignored when the reason is `normal`. The database traps exits and ignores those of its connections
(`init`, `handle_info`), so `EndConnection` and a link to a dead process leave it alone.

### DriverCache

The three files that downloads of one driver and version share: an archive of each format
(`cache[".zip"]`, `cache[".tar.gz"]`, the url decides which) and the library, one for all. A file does
not exist (`None`), has what a url has, or is neither: `File.write!` truncates a file before it writes
it (`OpenCache` and `WriteCache`, `OpenLibrary` and `WriteLibrary`), so that it is `Partial` in between
and stays so if the writer is killed, and when two processes write different contents, one over the
other, the file may be `Mixed` (`Over`, `CutOff`). Contents are written by one call of the operating
system; a longer one shows after a shorter one that is written over it. A process is in `download`, or
in `start_link` of a database, which finds the library (`so_path`) and loads it one step later; it may
be killed at any point (`torn` is a history of the files whose writer was). `url[p]` is the `:url`
option or the address of the table, `data[p]` the library that `extract!` has in memory; archives of
some urls have no library in them.

### Resources

`holders[x]` are the processes that refer to a NIF resource, `member[x]` is the resource another one refers
to from inside, `bound[s]` the stream that was moved into a statement, `origin[x]` (a history
variable) what the object of the driver was made from. Destruction follows C++: members in the
reverse order of their declaration, which is why the death of a stream is two steps (`DestroyStream`
drops the reference, `FinishStream` releases the stream).

A NIF that fails does nothing, or makes a resource and forgets it while the call still holds the one it
would refer to; that is left out. `adbc_connection_init` is different: the driver manager makes the
object (`private_driver` is set, `ConnectionNew` called) before an option or the connection itself can
be refused, and the NIF returns before it stores the reference to the database
(`InitConnectionFails`, object `"failed"`). Such a connection is never used, but it is released some time.

### BooleanColumn, OffsetColumn, NestedColumn, Temporal

The path of a column: an Elixir list, the encoder (`column.ex`), the export (`to_arrow.hpp`), the
import (`from_arrow.hpp`), the decoder. BooleanColumn follows bits: one action per element of the
list, with the run of valid elements that the encoder counts and the bits it puts when a nil ends
the run; then the export, `Slice` (the producer of an array hands out a part of it), `FromArrow` and
`FromUnion` (a union makes a column of one element of a member, at a bit offset, for each element of
its own). The null
bitmaps of *every* type go this way. OffsetColumn follows offsets of strings and lists with a child
column. NestedColumn takes the way from the array to the list for the types that only producers make,
or that are decoded like them: a producer appends to an array one element at a time, with the freedom
Arrow's format gives it (list views that overlap, nulls that take up items, slices of run-end encoded
arrays), and keeps in `meaning` what the array stands for; `FromBatch` and `FromUnion` import it,
`DecodeNested` is `to_list`. A union keeps the data of such a column and not its type, and `to_list` has no
clause for a column of a union: for `FromUnion` the decoding says what the buffers of the member stand for, which
an application has to read by itself. An import of a list view changes the array that a union imports from
again (`ListViewLeft`). Temporal follows times and timestamps through their units with `K` small ticks in place of a
factor of 1000, on buffers of `Half32` and `Half64` in place of 2^31 and 2^63.

## 3. The runs

| run | what it asks | instance and why it is enough |
|---|---|---|
| `connection_safety` | `NoStaleSignal`, `StreamValidInCallback`, `ExclusiveCallback`, `OneOpenStream`, `LockWillBeReleased`, `NoLostRequest`, `NoIdleQueue`, the refinement `ServesInOrder` | 2 clients, 3 requests of any kind, 1 restart: a lock that is held, a request that waits for it and one that overtakes or follows; an old lock with a new server. Every hazard found so far needs two clients and two requests |
| `connection_liveness` | `EveryCallReturns` | the same without restarts (they only shorten a wait) and without `pointer`, which the server does not tell from `stream` |
| `transfer_safety` | `TransferKeepsSource`, `DriverSerialized`, `NoDeadlock`, `ServesInOrder` of each connection, `EveryCallReturns` | 2 clients, 2 connections, 4 requests: two streams of the source, or one of each connection, a transfer that waits behind a lock, and a request behind it. Applications transfer from A to B only |
| `lifecycle_safety` | `ServingHasDatabase`, `StartsReturn` | 2 connections, 3 starts of each and of the database: a call of the first process is answered while the second one waits, and a third database is up |
| `cache_safety` | `QuietFilesAreWhole`, `OkMeansAvailable`, `Converges` | 2 processes that write at once, or one that writes and one that reads; 3 urls: a `.zip` and a `.tar.gz` with different libraries, which share the library file, and a `.zip` without one, which shares the archive. A third process was checked with two of the urls, without the liveness |
| `ingest_safety` | `ResultKeepsTable`, `ReadTablesExist`, `FreshNames`, `NoLeak`, `TablesGoAway` | 2 clients, 2 calls, 1 restart: the second incarnation reuses the first name while the first result lives; a query reads a table whose result is collected. `TablesGoAway`: once nothing refers to a result, its table goes away. `MCIngest_calls.cfg` has the safety properties with 3 calls |
| `resources_safety` | `ParentsOutlive`, `HeldStreamsAreUsable`, `BoundStreamsAreLive` | 2 processes, 1 database, 2 connections, 2 statements, 1 stream: a stream of one connection bound to the statement of another, and a connection that could not be initialized beside one that was |
| `boolean_safety` | `EncoderInv`, `ColumnKeepsElements`, `ArrayKeepsNulls` | lists of up to 17 elements: two full bytes and one bit, with two elements that are not `true` at any places; elements taken from a union are exported again, so that bits begin anywhere in a byte |
| `offsets_safety` | `ColumnKeepsElements`, `ArrayKeepsElements` | 4 elements of up to 2 items, exported and imported twice |
| `nested_safety` | `NestedKeepsElements` | 3 elements of up to 2 items: a run before a slice, one cut at each end of it, and views that share an item; a union picks again after it has picked |
| `temporal_safety` | `KeepsValue`, `StoresTheSame` | every time of a small day and every timestamp on both sides of the epoch |

The last run, `resources_order`, is expected to find a violation; section 6 has it. The inductive
invariants of section 5 were checked by TLC on these instances before they were proved.

**Bounds.** `MaxRequests`, `MaxCalls`, `MaxRestarts` and `MaxStarts` bound how much is *sent* or
*started*, in the guards of `Send`, `Call`, `Restart`, `StartConnection` and `StartDatabase` only:
nothing that is under way is ever cut off. `MaxLength`, `MaxMarks`, `MaxSize`, `MaxElements` and `MaxItems` bound the lists,
`MaxExports` the round trips, `Span` the timestamps. DriverCache needs no bound: it has finitely many
states. Deadlock is not checked where the bound lets the system stop (Connection, Ingest, Transfer,
Lifecycle, NestedColumn) or where everything may be collected (Resources); where processes wait for
each other the liveness properties stand in for it. Clients, processes and boxes are symmetric in the
runs without liveness; no symmetry is used with it.

`NoLostRequest` says of every request whose caller waits that it is on its way, queued, executing, or
answered, or that the server has gone. `LockWillBeReleased` says that a held lock has something that
will release it: its owner reads the stream or is about to, or an unlock or a `DOWN` is under way.
They are what makes `EveryCallReturns` true, and they are checked with restarts and deaths at every
point.

`DriverSerialized` looks at a connection of the driver, not at the process in front of it: it is used
by the request that executes on a statement of it, by a transfer that reads a stream of it *from
another connection's process*, and by the reader of a stream. `TransferKeepsSource` is why that is
serialized at all: the caller of the transfer waits inside the function that reads the source, so the
lock of the source is held until the transfer is answered. `NoDeadlock` says that no set of clients
waits for locks that members of the set hold.

## 4. Fairness

`Connection!Fairness` is what the Erlang runtime and the callers of the library provide.

- The server goes on with what it is doing (weak, `ServerLoop`): processes are scheduled, and NIFs of the
  driver return. A driver that never returns blocks the connection, and no property is claimed of it.
- A signal that is in the mailbox is handled (strong, per sender): the server alternates between its
  handlers and `receive`, so it is only now and then that a signal can be handled, and `receive` takes
  the oldest signal first, so none is passed over for ever.
- A `DOWN` is handled for the same reason.
- NIFs return, and a client that has got its reply goes on (weak).
- A client that reads a stream is done with it some day (strong, `Unlock`): the function given to
  `query_pointer` or to the reduction of a stream ends. The code has no timeout there: a reader
  that never ends blocks every other client by design.

Clients are not required to call, nor to die.

In Transfer a connection goes on with what it does and receives what was sent (weak, `Serve`), and a
function that reads a stream returns, unless it waits in a call (strong, `Return`: between two calls
of its own, it is enabled now and then only). Nothing is assumed of `BindStream` and
`CollectStatement`: a transfer may fail before it binds, and nobody has to collect garbage. In
Lifecycle the database handles its messages, and exits and the `DOWN` of a call arrive (weak). In
DriverCache processes go on with their work (weak), and those that are idle download again at some
time, whatever databases they start in between, from a server that answers if it is asked again and
again (strong, `Download` and `Fetch`); `Converges` needs that somebody tries, and no retry is in
the code.

In Ingest the server serves and destructors run. That the connection process collects its garbage is
*not* assumed, as nothing makes an idle process do so: `TablesGoAway` is about results that nothing
refers to any more. That the clients have dropped theirs is not enough, section 6 has it.

## 5. What is proved

Every safety property and every refinement that the passing runs check is a theorem; what stays with TLC is
liveness. All theorems hold for every set of
clients, connections, processes, boxes, urls and elements, every length of a list and every number of
requests and restarts. They rest on the named assumptions on the constants
(`ConstantsAssumption` of Connection, Transfer, Ingest, Lifecycle and DriverCache, `BoxesAssumption`,
`NestedAssumption`, and those at the head of BooleanColumn, OffsetColumn and Temporal), which TLC
evaluates in the runs. Where the code keeps a property in some cases only, the case is a hypothesis of
the theorem: `Prepared = {}` and the order of `Nestings` in Transfer, `Offsets \subseteq {0}` in
BooleanColumn, `Supported` and `NestedSupported` in OffsetColumnProofs, no `"milliseconds"` in
Temporal. These are the constants of the passing runs, and each one is in section 6 with
the counterexample that it keeps away.

**ConnectionProofs.** `NoStaleSignals` is the claim that the server cannot crash from an `unlock` or
`DOWN` that has no clause. By itself it is not inductive: one must know *where* signals about a lock
come from. `IInv` (ConnectionInv) adds it.
- `UnlockInv`: an unlock under way is for the current lock, is sent by its owner, who no longer
  reads, and is the only one.
- `MonitorInv`: so is a monitor or a `DOWN`, and the owner is alive or dead accordingly.
- `HolderInv`: a client of this incarnation that reads, or whose reply is under way, owns the lock.
- `EpochInv`: whatever the server has to do was asked of its present incarnation. Without this an
  unlock of a client that outlived a restart would be a counterexample.
- `StreamInv`: the locked stream is open, and so is every stream that a client refers to.

The proof has one lemma per action and, under it, one step per conjunct. From `IInv` follow
`TypeCorrect`, `NoStaleSignals`, `StreamsStayValid`, `CallbacksAreExclusive`, `OneStreamIsOpen`.
`QueueIsServed` (`NoIdleQueue`) is inductive relative to `IInv`: every path through a handler that
frees the lock or fills the queue ends in `EndDequeue`.

That nothing is *lost* needs more than `IInv`, which only says that what is under way is right.
`RequestInv` adds
- `LockInv`: a lock was granted for a stream, and its owner is monitored or its `DOWN` has come;
- `OnceInv`: a request is in one place, once: sent, in the queue, or executing;
- `WaitsInv`: a live client whose stream or command is pending waits for it and has no answer yet.
  Option calls are excepted, whose callers time out: they are why the invariant is by request and not by
  client.

From it follow `LocksAreReleased`, `RequestsAreKept` and `ServedInOrder`. The first goes through the
ways an owner can leave (it ends the function, its NIF fails, it is killed in any position) and shows
that each leaves an unlock or a `DOWN` behind; the second through the ways a request moves. In the
third every step of the process is shown to be a step of ConnectionService or none; the delicate case is
a restart, which has to be `Fail` for the queue, the lock and all that was still under way at once.

**IngestProofs.** The properties of Ingest hold for each other's reasons, so that `IInv` is their
conjunction with what ties requests to results.
- `LogInv`: a request that has not arrived is of this session; a drop is of the session of its result,
  which was destroyed.
- `MadeInv`: of the results of one session no two have the same table, and each name is below the
  counter; a result that was destroyed is referred to by nobody. Names repeat between sessions, so
  without `LogInv` a drop that is late could hit the table of another result.
- `QueueInv`: what waits is of this session and waits once; the open stream is the query being served.
- `BoundInv`: each result is dropped once. With it `Room` counts the requests: an injection from the
  drops to the results shows that the log never exceeds its bound.

`ResultsKeepTables` is the case of `Dropping` in which another result is dropped, `TablesOutliveReaders`
that of a drop that has to wait, `TablesAreNotLost` all the steps a drop takes from `Destroy` to
`DropTable`.

**TransferProofs.** What is claimed of several connections rests on one fact: *a client that lives gives
back a lock only when none of its calls is under way*. `IInv` (TransferInv) says it in terms of the
state.
- `AcceptedInv`: a connection has each request once, and that of a live client is one it waits for.
- `LockInv`, `HeldInv`: a connection with a lock executes nothing, and the lock is that of a stream
  its owner reads; and back, each stream a client reads has its lock.
- `CallInv`: a client calls a connection only from readers from which applications call it.
- `SourceInv`: while a transfer is awaited its client reads the stream, so that the stream has its
  lock; its own query has been answered and will not open it again.
- `BoundInv`, `OnInv`: a stream that was moved is nowhere else, and statements are used as `Prepared`
  allows.

`TransfersKeepSource` follows at once. `CallsDoNotDeadlock` assumes that the converse of `Nestings` is
well-founded (applications have an order of connections) and takes, of the clients that wait for each
other, one whose connection is minimal in it: the owner of that lock calls a smaller one. Without the
order it is false (section 6), with it the check that `bulk_insert` and `ingest` make is all that is
needed. `DriverIsSerialized` assumes `Prepared = {}` and goes through the pairs of uses.
`ServedInOrder` is the step of the refinement: each action is a step of the service of one connection
and a stutter of the others.

**LifecycleProofs.** `ConnectionsHaveDatabase` is not inductive: a reply could reach a process that is
not linked. `CallsInv` adds that a call that is still to be answered is from a process that was
started, and was made to *this* database if the process waits, and that between the link and the reply
it is linked; `StartsInv` that a process has called a database that existed.

**DriverCacheProofs.** `AskedInv` adds that whoever works does it for a url that was asked for, that what
the files and the processes have is of such a url, an archive of its format and a library of one that
has it, and that a file somebody has opened exists. When one content is written over another the two
are then different elements of `asked` with one format, or with a library each: `Clashes` turns them
into a cardinality, and `ClashesStay` says that `asked` only grows. `QuietFiles` is inductive with it,
for the archives (`CacheKeeps`) as for the library (`LibraryKeeps`): any two urls with a library may mix
theirs, and the theorem says so. `OkMeansLibrary` needs `OkInv`, that there is *something* if all
archives have a library, and `QuietFiles` for what it is. The interesting case is a process that
answers `:ok` since the library exists while another one, which found it missing, has truncated it again.

**ResourcesProofs.** `ParentsOutlive` speaks of the objects of the driver, the code only counts
references. `IInv` connects the two: what is referred to, by a process or from inside another
resource, lives (`ReferenceInv`); a resource refers to what its object was made from (`OriginInv`); and
an object is open exactly in the states of its box that the code can see (`ObjectInv`); one whose
initialization failed is open without a reference, which is why `ParentsOutlive` is about connections that were
initialized and only them. From it follow `ParentsOutliveTheirs`, `HeldStreamsStayUsable`, `BoundStreamsStayLive`.

**ColumnProofs.** `BitsStandForElements`: for a list of any length, after every element, the
bits put so far followed by the run that is only counted stand for exactly the elements so far
(`EncoderInv`). It is inductive with the types; the lemmas are about bytes: `InWholeBytes` and
`InNextByte` (where a bit falls), `PutBitAppends`, and `FlushAppendsRun` (a run put as a whole is as
many valid bits, whatever the bits of the last byte were). `ColumnsInv` carries this on through the export,
the slice that a producer hands out, the import and the union: a column and an array have the null bit of
each element in its place, from the bit offset on, and the count of nulls is theirs. The value bits
are in place up to the first import only, as section 6 says, so that `ColumnsAreDecoded` is about
the first round trip while `ArraysHaveNulls` is about every one. Both assume that the offset of an
array is 0, which is all that `arrow_to_column` looks at.

For Temporal the invariant is that what is stored is the encoding of the value
(`TemporalInv`), and that it is in the range of its width (`StoredIsNotCut`): `FitsAssumption` is what the
code's widths satisfy, a day in nanoseconds in 64 bits and in milliseconds in 32, with `Span` for the
range of timestamps in which no integer is cut. `TemporalIsStable` is then that encoding what was decoded
gives the same integer, on both sides of the epoch and in every unit; `TemporalKeepsValue` that
decoding rounds down.

**OffsetColumnProofs.** *Strings and lists.* `StandFor` says what offsets and items are together: the
first offset is 0, the last is the length of the items, and between two offsets is one element, nothing
for a nil. The invariant (`IInv`) is that what the encoder has so far, the column and the array stand for
the same list with the same items, in however many buffers: a list's column has a buffer for each element
until it is exported (`Flat` of the buffers is what stays). `ColumnsKeepElements` and
`ArraysKeepElements` follow for any number of round trips. `Supported` is the case the code handles: first
offsets of 0, and no nil among the items of a list.

*Arrays of nested types.* `ArrowStands` says of each of the six layouts where the array has each element
of the list: between two offsets (maps), at an offset and of a size (views), in the run that ends
after its place (runs), in a chunk, at its index in each field, at the key's index. An element that is nil
has its bit, and what its items are does not matter. `NestedInvariance` shows that whatever a producer
appends, and a slice of runs, keep it, and that an import leaves an array of which the *next* import
makes the same (`LeftStands`, `LeftColumn`): the bitmap that a list view moves to its items is one
that nobody reads before it is replaced. `NestedColumnsKeepElements` then reads the column that was made,
layout by layout: `MapIsRead`, `ViewIsRead`, `RunsAreRead`, `FixedIsRead`, `StructIsRead`,
`DictionaryIsRead`. Views, structs and dictionaries are read from any offset and for any count, as a
union asks of them; `NestedSupported` leaves out what section 6 has of the others.

*Recursion over data.* `Flat` (FlattenSeq of the community modules) and `DecodeRuns` recur over a sequence.
The induction theorems of the library take an operator as a parameter, which the installed provers
cannot instantiate; here the induction is over a *set* of numbers. `SetInduction` says that a set with 0 and
with the successor of each of its members is `Nat`, and is proved from the well-foundedness of `<`.
With it a recursive function is shown to exist and to be the only one (`FlatExists`, `FlatIsUnique`,
`DecodedIs`), so that CHOOSE picks it. For runs the function has a closed form, `Been`: after the first
`r` runs the decoder has reached the end of the last of them, but no less than the offset and no more than
the end of the slice, and has the elements up to there (`TakeIs`).

**Only model-checked.** Liveness (`EveryCallReturns`, `TablesGoAway`, `StartsReturn`, `Converges`):
the prover has no rules for fairness and `ENABLED`. The counterexamples of section 6 are TLC's, too.

## 6. What the code does not keep

While modelling we met sentences of the repository that the code does not keep. One of them is a run,
`resources_order`: the members of the stream's resource are destroyed in reverse order, so that its
statement may be released before it; `PROJECT.json` quotes the sentence.

The others are kept as properties of the modules with a configuration of their own, to be run by hand
(`tlc -config MCTransfer_crossed.cfg MCTransfer`); each ends with a counterexample. A
configuration with several invariants stops at the first that is violated; keep one to see another.

| configuration | property | what happens |
|---|---|---|
| `MCConnection_refuted` | `ReleasesAreSerialized` | a client killed inside the dirty NIF that reads its stream leaves the NIF running; the `DOWN` handler (`connection.ex` 933) releases the stream under it; `adbc.h` 34 allows "serialized access from multiple threads, but not concurrent access" |
| `MCConnection_refuted` | `OptionsAreSerialized` | an option is set in the driver while another process is inside `stream_next` of the same connection: `handle_call({:option, ...})` (`connection.ex` 918) does not look at the lock; `adbc.h` 880 asks clients to serialize accesses to a connection |
| `MCConnection_refuted` | `PointerValidInCallback` | `py_query` (`connection.ex` 651) hands out the bare address of a stream; when the server ends, nothing refers to the stream while the function reads it; `connection.ex` 564 promises a valid pointer "through the duration of the function" |
| `MCResources_refuted` | `DatabasesOutliveConnections` | a connection that could not be initialized, for an option that is refused (as in `test/adbc_connection_test.exs` 33), has an object of the driver but no reference to the database (`adbc_nif.cpp` 276): the database may be released first; `adbc.h` 1361 "Destroy this database. No connections may exist." |
| `MCResources_refuted` | `ConnectionsOutliveStreams` | streams of metadata (`adbc_nif.cpp` 289) hold no reference to their connection; `adbc.h` 1503 |
| `MCResources_refuted` | `StatementsOutliveBoundStreams` | a stream moved into another statement (`adbc_nif.cpp` 475) leaves the reference to its own statement behind; `adbc_nif.cpp` 55 |
| `MCIngest_idle` | `UnusedTablesGoAway` | an idle connection process keeps the result it sent a copy of (`connection.ex` 1031), so the table stays after the client's copy is collected; `connection.ex` 377 |
| `MCTransfer_prepared` | `DriverSerialized` | a statement that was prepared on another connection is executed without a look at whose it is (`connection.ex` 1089), while that connection executes a request of its own |
| `MCTransfer_crossed` | `NoDeadlock` | two clients transfer between two connections in opposite directions: each waits, with no timeout, for the lock the other one holds (`connection.ex` 334) |
| `MCTransfer_refuted` | `DriverSerializedAlways` | the caller of a transfer dies: the `DOWN` gives back the lock of the source while the destination still reads the stream, and the source executes the next request; `adbc.h` 34 |
| `MCTransfer_refuted` | `StreamsGoWithLock` | a stream that was moved to a statement is not released with its lock, but when the statement is collected; `connection.ex` 924 says "since a stream can be a large resource, we release it now" |
| `MCTransfer_refuted` | `BindsOpenStreams` | a stream is transferred twice, or its caller died: `adbc_statement_bind_stream` (`adbc_nif.cpp` 471) passes on a stream that has been moved or released |
| `Lifecycle_normal` | `ServingHasDatabaseAlways` | a database that ends with reason `normal` (`GenServer.stop`) leaves its connections behind: links do not carry that reason |
| `DriverCache_refuted` | `ReturnsStatus` | `extract!` raises a `MatchError` for a torn archive; `adbc.ex` says of `download_driver` "It returns `:ok` or `{:error, binary}`" |
| `DriverCache_crash` | `ConvergesAlways` | a process killed in the middle of a write leaves a file that is never repaired |
| `DriverCache_url` | `ConvergesAlways` | an archive without a library, from one url, is used by downloads from all others: they answer `:ok` and there is no library (`driver.ex` 339) |
| `DriverCache_refuted` | `LibraryIsNotMixed` | libraries of two urls, in a `.zip` and in a `.tar.gz` say, are written over each other in one file, and nobody was killed (`driver.ex` 373, 385) |
| `DriverCache_refuted` | `FoundLibrariesLoad` | a database finds a library that a download is writing, and cannot load it (`driver.ex` 403) |
| `BooleanColumn_offset` | `ColumnKeepsElements` | the `offset` of an array is read for run-end encoded arrays only (`from_arrow.hpp` 211, 351) |
| `BooleanColumn_reexport` | `ArrayKeepsValues` | only the null bits, not the value bits, are shifted by the bit offset of a column (`to_arrow.hpp` 186) |
| `OffsetColumn_first` | `ColumnKeepsElements` | an array whose first offset is not 0 is decoded at the wrong places (`from_arrow.hpp` 113, `column.ex` 2116) |
| `OffsetColumn_first` | `ArrayKeepsElements` | the first offset of an imported list is replaced by 0 (`to_arrow.hpp` 360) |
| `OffsetColumn_nulls` | `ArrayKeepsElements` | the null bitmaps of the children of a list are appended as bytes (`to_arrow.hpp` 326), so nulls end up at other elements; `column.ex` 1267 has "we keep it as a list so we concat buffers in C" |
| `NestedColumn_maps` | `NestedKeepsElements` | the entries before the first offset of a map are taken for its first ones (`column.ex` 1760) |
| `NestedColumn_views` | `NestedKeepsElements` | the bitmap of the items of a list view is taken away (`from_arrow.hpp` 515), so null items come back as values |
| `NestedColumn_unions` | `NestedKeepsElements` | lists of a fixed size and run-end encoded arrays do not honour the offset and the count with which a union picks an element, and the entries of a map are not cut to it (`from_arrow.hpp` 341, 350, 573) |
| `NestedColumn_empty` | `NestedKeepsElements` | lists of the fixed size 0 are lost: the end of the items is taken for the end of the lists (`column.ex` 1972) |
| `Temporal_milliseconds` | `KeepsValue` | fractions of a second are lost in milliseconds: `div(1_000, 1_000_000)` is 0 (`column.ex` 1415); `column.ex` 48 reads them with three digits |

The passing runs leave exactly these cases out, by their constants (`Offsets`, `Firsts` and `MapFirsts` are `{0}`,
`NullItems` and `NullsInViews` are `FALSE`, `FixedSize` is not 0, `Picked` and
`Nestings` are what works, `Prepared` is empty, `Units` has no `"milliseconds"`) or by the property: `DriverSerialized` speaks of live
callers, `ParentsOutlive` of connections that were initialized, `QuietFilesAreWhole` and
`OkMeansAvailable` of files whose writer was not killed and that no two urls share, `Converges` of one
url that has a library and of writers that are not killed,
`ColumnKeepsElements` speaks of the first round trip, as a boolean column from a union loses its
values in the second. The modules themselves have all of it.

## 7. What is not modelled

- What a driver does but for success or error, and what it computes.
- Option calls in Resources: they change nothing there. NIFs that fail without a trace (section 2). Streams without a statement
  (`from_pointer`, `ipc_load`).
- Prepared statements but for the connection they belong to: parameters, and a second execution that
  invalidates the stream of the first. Messages and restarts in Transfer: they are Connection's, of
  one connection.
- Options of a database; what `find_driver`, `current_target` and `driver_wheel` choose from generated
  tables; the names of files.
- `to_list` of a column of a union: there is none. Types of columns: inference, decimals, intervals, floats, string views, record batches of several
  columns, and the export of nested types other than lists.
- Pure glue (results, fields, IPC), Python's side of `py_query`, the loader of Windows libraries, and
  declarations.
- Vendored code. Of the sources of the tree nearly all lines are those of `3rd_party/`: nanoarrow,
  flatcc, fine, the driver manager and its validation suite. None of it is this repository's work, it
  is reached through the NIFs only, and its promise to them (`adbc.h`) is what Resources and Transfer
  hold the NIFs to. Of the repository's own code, the definitions map what keeps state, orders
  events or converts data; options, documentation, generated tables and the dispatch over types are
  the rest.

## 8. Plan

Done: Connection with its service and proofs, Transfer with proofs, Lifecycle with proofs, DriverCache
with proofs, Resources with proofs, Ingest with proofs, BooleanColumn, Temporal, OffsetColumn and
NestedColumn with proofs. In order of importance, what could follow:

1. **InferType** (`column.ex` 128-300) against a reference definition.
2. Record batches of several columns (`to_arrow.hpp` 661) and the export of structs and dictionaries.
3. Lifecycle composed with Resources: what a killed database leaves to the garbage collector.
4. Proofs: measures for `EveryCallReturns` and `StartsReturn`, and that each step which is assumed to be
   fair lowers them (that it is taken stays with TLC).
