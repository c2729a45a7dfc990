----------------------------- MODULE Resources -----------------------------
(***************************************************************************)
(* The NIF resources of adbc (c_src/adbc_nif.cpp): boxes, counted by the   *)
(* references to them, around the objects of a driver.                     *)
(*                                                                         *)
(* A database, a connection, a statement and an ArrowArrayStream are       *)
(* objects of the driver, each made from the one before it, and each must  *)
(* be released before the one it was made from.  The box of an object may  *)
(* hold a reference to another box (a ResourcePtr member).  Processes hold *)
(* references and pass them on in messages; the garbage collector drops    *)
(* them, one at a time, also when a process dies.  A box that nothing      *)
(* refers to is destroyed: its destructor releases the object, then its    *)
(* members are destroyed, the last one first.                              *)
(*                                                                         *)
(* A stream can be bound to a statement.  The driver moves it out of its   *)
(* box and releases it when it likes, with the statement at the latest.    *)
(*                                                                         *)
(* What a NIF call does when the driver returns an error is left out where *)
(* it does nothing, or makes a box and forgets it while the box it would   *)
(* refer to is still held by the call.  That of adbc_connection_init does  *)
(* more, see InitConnectionFails.                                          *)
(***************************************************************************)
EXTENDS Naturals

CONSTANTS
  Processes,    \* the Erlang processes
  Databases,    \* the boxes, by the type of their objects
  Connections,
  Statements,
  Streams,
  None          \* no box

Boxes == Databases \union Connections \union Statements \union Streams

ASSUME BoxesAssumption ==
  /\ None \notin Boxes
  /\ Databases \intersect (Connections \union Statements \union Streams) = {}
  /\ Connections \intersect (Statements \union Streams) = {}
  /\ Statements \intersect Streams = {}

VARIABLES
  box,      \* box[x]: whether x was made, lives, is being destroyed, is gone
  object,   \* object[x]: the state of the driver's object in x
  member,   \* member[x]: the box the ResourcePtr member of x refers to
  holders,  \* holders[x]: the processes that hold a reference to x
  bound,    \* bound[s]: the stream that was moved into statement s
  origin    \* origin[x]: the box whose object that of x was made from (history)

vars == <<box, object, member, holders, bound, origin>>

TypeOK ==
  /\ box \in [Boxes -> {"free", "alive", "dying", "gone"}]
  /\ object \in [Boxes -> {"none", "live", "failed", "released"}]
  /\ member \in [Boxes -> Boxes \union {None}]
  /\ holders \in [Boxes -> SUBSET Processes]
  /\ bound \in [Statements -> Streams \union {None}]
  /\ origin \in [Boxes -> Boxes \union {None}]

Init ==
  /\ box = [x \in Boxes |-> "free"]
  /\ object = [x \in Boxes |-> "none"]
  /\ member = [x \in Boxes |-> None]
  /\ holders = [x \in Boxes |-> {}]
  /\ bound = [s \in Statements |-> None]
  /\ origin = [x \in Boxes |-> None]

\* Process p holds a reference to x.
Holds(p, x) == p \in holders[x]

\* The stream of box t was bound to a statement: the box is empty.
Moved(t) == \E s \in Statements : bound[s] = t

\* Something refers to box x.
Referenced(x) == holders[x] # {} \/ \E y \in Boxes : member[y] = x

-----------------------------------------------------------------------------
(* The NIFs.  p is the process that calls them.                            *)

\* make_resource: p gets the first reference to a new box.
Make(p, x) ==
  /\ box[x] = "free"
  /\ box' = [box EXCEPT ![x] = "alive"]
  /\ holders' = [holders EXCEPT ![x] = {p}]

\* The object of x is made from that of y, and comes to be in this state.
DeriveTo(x, y, state) ==
  /\ object' = [object EXCEPT ![x] = state]
  /\ origin' = [origin EXCEPT ![x] = y]

Derive(x, y) == DeriveTo(x, y, "live")

\* adbc_database_new and adbc_database_init, called by start_link.
NewDatabase(p, d) ==
  /\ Make(p, d)
  /\ object' = [object EXCEPT ![d] = "live"]
  /\ UNCHANGED <<member, bound, origin>>

\* adbc_connection_new: the object refers to no database yet.
NewConnection(p, c) ==
  /\ Make(p, c)
  /\ UNCHANGED <<object, member, bound, origin>>

\* adbc_connection_init, called by the database process, which was sent c.
\* Mutant: conn->database is not set.
InitConnection_NoMember(p, c, d) ==
  /\ Holds(p, c) /\ object[c] = "none"
  /\ Holds(p, d) /\ object[d] = "live"
  /\ Derive(c, d)
  /\ UNCHANGED <<box, member, holders, bound>>

InitConnection(p, c, d) ==
  /\ Holds(p, c) /\ object[c] = "none"
  /\ Holds(p, d) /\ object[d] = "live"
  /\ Derive(c, d)
  /\ member' = [member EXCEPT ![c] = d]
  /\ UNCHANGED <<box, holders, bound>>

\* It returns an error after AdbcConnectionInit made the object: an option is
\* refused, or the driver cannot connect.  conn->database is not set then.
\* The connection process stops, and whoever gets at c does not use it.
InitConnectionFails(p, c, d) ==
  /\ Holds(p, c) /\ object[c] = "none"
  /\ Holds(p, d) /\ object[d] = "live"
  /\ DeriveTo(c, d, "failed")
  /\ UNCHANGED <<box, member, holders, bound>>

\* adbc_statement_new.  A connection process runs once its connection is
\* initialized.
NewStatement(p, s, c) ==
  /\ Holds(p, c) /\ object[c] = "live"
  /\ Make(p, s)
  /\ Derive(s, c)
  /\ member' = [member EXCEPT ![s] = c]
  /\ UNCHANGED bound

\* adbc_statement_execute_query.  Mutant: stream_res->statement is not set.
ExecuteQuery_NoMember(p, t, s) ==
  /\ Holds(p, s)
  /\ Make(p, t)
  /\ Derive(t, s)
  /\ UNCHANGED <<member, bound>>

ExecuteQuery(p, t, s) ==
  /\ Holds(p, s)
  /\ Make(p, t)
  /\ Derive(t, s)
  /\ member' = [member EXCEPT ![t] = s]
  /\ UNCHANGED bound

\* adbc_connection_get_info, get_objects, get_table_types: the box of the
\* stream has no member for a connection.
GetMetadata(p, t, c) ==
  /\ Holds(p, c) /\ object[c] = "live"
  /\ Make(p, t)
  /\ Derive(t, c)
  /\ UNCHANGED <<member, bound>>

\* adbc_statement_bind_stream: the driver takes the stream over.  A stream
\* that was released or moved is an error of the driver.
BindStream(p, s, t) ==
  /\ Holds(p, s) /\ bound[s] = None
  /\ Holds(p, t) /\ object[t] = "live" /\ ~Moved(t)
  /\ bound' = [bound EXCEPT ![s] = t]
  /\ UNCHANGED <<box, object, member, holders, origin>>

\* adbc_arrow_array_stream_release, and adbc_ipc_dump_stream_ref at its end:
\* nothing happens if the box is empty.  Mutant: the driver copies the stream
\* and leaves it in its box.
ReleaseStream_AlsoMoved(p, t) ==
  /\ Holds(p, t) /\ object[t] = "live"
  /\ object' = [object EXCEPT ![t] = "released"]
  /\ UNCHANGED <<box, member, holders, bound, origin>>

ReleaseStream(p, t) ==
  /\ Holds(p, t) /\ object[t] = "live" /\ ~Moved(t)
  /\ object' = [object EXCEPT ![t] = "released"]
  /\ UNCHANGED <<box, member, holders, bound, origin>>

-----------------------------------------------------------------------------
(* The driver and the runtime.                                             *)

\* The driver has read the stream bound to s.
ReleaseBound(s) ==
  /\ object[s] = "live" /\ bound[s] # None
  /\ object' = [object EXCEPT ![bound[s]] = "released"]
  /\ bound' = [bound EXCEPT ![s] = None]
  /\ UNCHANGED <<box, member, holders, origin>>

\* Process p sends x to process q.
Share(p, q, x) ==
  /\ Holds(p, x) /\ ~Holds(q, x)
  /\ holders' = [holders EXCEPT ![x] = @ \union {q}]
  /\ UNCHANGED <<box, object, member, bound, origin>>

\* The garbage collector drops the reference of p to x, or p dies.
Drop(p, x) ==
  /\ Holds(p, x)
  /\ holders' = [holders EXCEPT ![x] = @ \ {p}]
  /\ UNCHANGED <<box, object, member, bound, origin>>

\* The destructor of a database or a connection: AdbcDatabaseRelease,
\* AdbcConnectionRelease, then the member goes.
Destroy(x) ==
  /\ x \in Databases \union Connections
  /\ box[x] = "alive" /\ ~Referenced(x)
  /\ box' = [box EXCEPT ![x] = "gone"]
  /\ object' = [object EXCEPT ![x] = "released"]
  /\ member' = [member EXCEPT ![x] = None]
  /\ UNCHANGED <<holders, bound, origin>>

\* That of a statement: AdbcStatementRelease, which releases the stream bound
\* to it, then the member goes.
DestroyStatement(s) ==
  /\ box[s] = "alive" /\ ~Referenced(s)
  /\ box' = [box EXCEPT ![s] = "gone"]
  /\ object' = [x \in Boxes |->
                  IF x = s \/ x = bound[s] THEN "released" ELSE object[x]]
  /\ bound' = [bound EXCEPT ![s] = None]
  /\ member' = [member EXCEPT ![s] = None]
  /\ UNCHANGED <<holders, origin>>

\* The members of the box of a stream are destroyed in the reverse of the
\* order of their declaration: the reference to the statement goes first ...
DestroyStream(t) ==
  /\ t \in Streams
  /\ box[t] = "alive" /\ ~Referenced(t)
  /\ box' = [box EXCEPT ![t] = "dying"]
  /\ member' = [member EXCEPT ![t] = None]
  /\ UNCHANGED <<object, holders, bound, origin>>

\* ... and the stream is released after it.
FinishStream(t) ==
  /\ box[t] = "dying"
  /\ box' = [box EXCEPT ![t] = "gone"]
  /\ object' = IF Moved(t) THEN object
               ELSE [object EXCEPT ![t] = "released"]
  /\ UNCHANGED <<member, holders, bound, origin>>

-----------------------------------------------------------------------------
Nif(p) ==
  \/ \E d \in Databases : NewDatabase(p, d)
  \/ \E c \in Connections : NewConnection(p, c)
  \/ \E c \in Connections, d \in Databases :
       InitConnection(p, c, d) \/ InitConnectionFails(p, c, d)
  \/ \E s \in Statements, c \in Connections : NewStatement(p, s, c)
  \/ \E t \in Streams, s \in Statements : ExecuteQuery(p, t, s)
  \/ \E t \in Streams, c \in Connections : GetMetadata(p, t, c)
  \/ \E s \in Statements, t \in Streams : BindStream(p, s, t)
  \/ \E t \in Streams : ReleaseStream(p, t)

Collect ==
  \/ \E x \in Boxes : Destroy(x)
  \/ \E s \in Statements : DestroyStatement(s)
  \/ \E t \in Streams : DestroyStream(t) \/ FinishStream(t)

Next ==
  \/ \E p \in Processes : Nif(p)
  \/ \E p, q \in Processes, x \in Boxes : Share(p, q, x)
  \/ \E p \in Processes, x \in Boxes : Drop(p, x)
  \/ \E s \in Statements : ReleaseBound(s)
  \/ Collect

Spec == Init /\ [][Next]_vars

-----------------------------------------------------------------------------
(* Properties.                                                             *)

\* The object of x is not released before those that were made from it.
Outlived(x) ==
  object[x] = "live" /\ origin[x] # None => object[origin[x]] = "live"

\* Databases outlive the connections that were initialized, and connections
\* outlive statements, in whatever order processes drop their references and
\* die.
ParentsOutlive == \A x \in Connections \union Statements : Outlived(x)

\* Whoever holds the stream of a query reaches live objects all the way up
\* to the database, as long as the stream is not released: the client can go
\* on reading when the connection process and the database process are dead.
HeldStreamsAreUsable ==
  \A t \in Streams :
    /\ holders[t] # {} /\ object[t] = "live" /\ origin[t] \in Statements
    => LET s == origin[t]
           c == origin[s]
           d == origin[c]
       IN  object[s] = "live" /\ object[c] = "live" /\ object[d] = "live"

\* A stream that a driver has taken over is the driver's alone: neither the
\* unlock of the connection it came from nor the destruction of its old box
\* releases it.  That no second statement gets it is the driver's doing: it
\* refuses an empty stream, where adbc_statement_bind_stream checks nothing.
BoundStreamsAreLive ==
  \A s \in Statements :
    bound[s] # None =>
      /\ object[bound[s]] = "live"
      /\ \A q \in Statements : bound[q] = bound[s] => q = s

\* What the counting of references comes to, the inductive invariant behind
\* the properties above.  Objects are made from objects of the right type,
OriginInv ==
  /\ \A d \in Databases : origin[d] = None /\ member[d] = None
  /\ \A c \in Connections :
       origin[c] \in Databases \union {None} /\ member[c] \in {None, origin[c]}
  /\ \A s \in Statements :
       origin[s] \in Connections \union {None} /\ member[s] \in {None, origin[s]}
  /\ \A t \in Streams :
       /\ origin[t] \in Statements \union Connections \union {None}
       /\ member[t] \in {None} \union ({origin[t]} \intersect Statements)

\* a box that something refers to, or that refers to something, is alive,
ReferenceInv ==
  \A x \in Boxes :
    /\ holders[x] # {} => box[x] = "alive"
    /\ member[x] # None => box[x] = "alive" /\ box[member[x]] = "alive"

\* and as long as it is, so is its object, which knows where it came from.  A
\* connection that failed does not.
ObjectInv ==
  /\ \A x \in Boxes : box[x] = "free" => object[x] = "none"
  /\ \A d \in Databases : object[d] = "live" <=> box[d] = "alive"
  /\ \A c \in Connections :
       /\ object[c] = "live" <=> box[c] = "alive" /\ member[c] # None
       /\ object[c] = "none" => member[c] = None
       /\ object[c] = "failed" => box[c] = "alive"
       /\ object[c] = "released" => box[c] = "gone"
  /\ \A s \in Statements :
       /\ object[s] = "live" <=> box[s] = "alive"
       /\ object[s] = "live" => member[s] # None
       /\ origin[s] # None => object[origin[s]] \notin {"none", "failed"}
       /\ bound[s] # None => object[s] = "live"
  /\ \A t \in Streams :
       box[t] = "alive" /\ origin[t] \in Statements => member[t] = origin[t]

IInv ==
  /\ TypeOK
  /\ OriginInv
  /\ ReferenceInv
  /\ ObjectInv
  /\ BoundStreamsAreLive

\* "Destroy this database. No connections may exist." (adbc.h,
\* AdbcDatabaseRelease): not even one whose initialization failed, for the
\* driver has an object for it, which is released through the database's
\* driver.
DatabasesOutliveConnections ==
  \A c \in Connections :
    object[c] \in {"live", "failed"} => object[origin[c]] = "live"

\* "This AdbcStatement must outlive the returned ArrowArrayStream" (adbc.h,
\* AdbcStatementExecuteQuery), for a stream that is in its own box.
StatementsOutliveStreams ==
  \A t \in Streams : origin[t] \in Statements /\ ~Moved(t) => Outlived(t)

\* "This AdbcConnection must outlive the returned ArrowArrayStream" (adbc.h,
\* AdbcConnectionGetInfo and others).
ConnectionsOutliveStreams ==
  \A t \in Streams : origin[t] \in Connections => Outlived(t)

\* "Keeps the statement alive while reading" (the comment of the member
\* `statement`): a stream of another connection that a driver reads.
StatementsOutliveBoundStreams ==
  \A t \in Streams : origin[t] \in Statements /\ Moved(t) => Outlived(t)
=============================================================================
