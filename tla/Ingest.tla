------------------------------- MODULE Ingest -------------------------------
(***************************************************************************)
(* Adbc.Connection.ingest: temporary tables that are dropped when nothing  *)
(* refers to their results any more (lib/adbc/connection.ex).              *)
(*                                                                         *)
(* The connection process names the tables of a session by a counter.  The *)
(* result of an ingest refers to a NIF resource made for the table; its    *)
(* destructor sends {:execute_on_gc, "DROP TABLE ..."} to the process that *)
(* made the table.  There the statement is a request like any other.       *)
(*                                                                         *)
(* Requests are served as ConnectionService promises, and Connection is    *)
(* shown to keep that promise: the actions below say what serving means.   *)
(* A reply is received when it is sent and an unlock is handled when it is *)
(* cast; Connection has these messages.                                    *)
(***************************************************************************)
EXTENDS Naturals, Sequences, FiniteSets

CONSTANTS
  Clients,      \* the processes that call the connection
  Server,       \* the connection process, as a holder of references
  MaxCalls,     \* bound: the calls of clients over a whole behaviour
  MaxRestarts   \* bound: how often a supervisor restarts the connection

\* Every call may be an ingest, whose table is dropped by one more request.
Ids  == 1..(2 * MaxCalls)
None == 0

ASSUME ConstantsAssumption ==
  /\ Server \notin Clients
  /\ MaxCalls \in Nat
  /\ MaxRestarts \in Nat

VARIABLES
  waiting, active, seen,  \* those of ConnectionService
  log,        \* log[r]: what request r is
  pc,         \* pc[c]: where client c is
  cur,        \* cur[c]: the last request of client c
  epoch,      \* the incarnation of the connection process, and its session
  counter,    \* state.ingest_counter
  tables,     \* the temporary tables of the session, by number
  stream,     \* the request whose stream is open and locked, or None
  made,       \* the ingests that succeeded: their results
  name,       \* name[r]: the table of result r
  holders,    \* holders[r]: the processes that refer to result r
  destroyed,  \* the results whose resource was destroyed
  abandoned   \* the tables of ingests and drops that failed half-way

Service == INSTANCE ConnectionService

serviceVars == <<waiting, active, seen>>
clientVars  == <<pc, cur>>
tableVars   == <<counter, tables, abandoned>>
resultVars  == <<made, name, holders, destroyed>>
vars == <<serviceVars, log, clientVars, epoch, tableVars, stream, resultVars>>

Ops == {"ingest", "query", "drop"}

TypeOK ==
  /\ log \in Seq([op : Ops, from : Clients \union {Server},
                  of : Ids \union {None}, epoch : Nat])
  /\ Len(log) <= 2 * MaxCalls
  /\ waiting \in Seq(DOMAIN log)
  /\ active \in DOMAIN log \union {None}
  /\ seen \subseteq DOMAIN log
  /\ pc \in [Clients -> {"idle", "calling", "reading", "dead"}]
  /\ cur \in [Clients -> DOMAIN log \union {None}]
  /\ epoch \in Nat
  /\ counter \in Nat
  /\ tables \subseteq Nat
  /\ stream \in DOMAIN log \union {None}
  /\ made \subseteq DOMAIN log
  /\ name \in [Ids -> Nat]
  /\ holders \in [Ids -> SUBSET (Clients \union {Server})]
  /\ destroyed \subseteq made
  /\ abandoned \subseteq Nat

Init ==
  /\ Service!Init
  /\ log = <<>>
  /\ pc = [c \in Clients |-> "idle"]
  /\ cur = [c \in Clients |-> None]
  /\ epoch = 0
  /\ counter = 0
  /\ tables = {}
  /\ stream = None
  /\ made = {}
  /\ name = [r \in Ids |-> 0]
  /\ holders = [r \in Ids |-> {}]
  /\ destroyed = {}
  /\ abandoned = {}

\* The session of result r is the current one.
Current(r) == log[r].epoch = epoch

\* The table request r reads or drops.
Table(r) == name[log[r].of]

-----------------------------------------------------------------------------
(* The clients.                                                            *)

Send(p, op, r) ==
  log' = Append(log, [op |-> op, from |-> p, of |-> r, epoch |-> epoch])

CallsLeft ==
  Cardinality({i \in DOMAIN log : log[i].op # "drop"}) < MaxCalls

\* Client c ingests columns, or queries a table of which it knows the name:
\* it may have forgotten the result.
Call(c, op, r) ==
  /\ pc[c] = "idle"
  /\ CallsLeft
  /\ Send(c, op, r)
  /\ pc' = [pc EXCEPT ![c] = "calling"]
  /\ cur' = [cur EXCEPT ![c] = Len(log) + 1]
  /\ UNCHANGED <<serviceVars, epoch, tableVars, stream, resultVars>>

CallIngest(c) == Call(c, "ingest", None)

CallQuery(c) == \E r \in made : Call(c, "query", r)

\* The function that reads the stream of c ends, and the lock is given back
\* if the process that granted it is still there.
Unlock(c) ==
  /\ pc[c] = "reading"
  /\ pc' = [pc EXCEPT ![c] = "idle"]
  /\ IF stream = cur[c]
       THEN Service!Finish /\ stream' = None
       ELSE UNCHANGED <<serviceVars, stream>>
  /\ UNCHANGED <<log, cur, epoch, tableVars, resultVars>>

\* Nothing in c refers to the result r any more, and c collects its garbage.
Forget(c, r) ==
  /\ c \in holders[r]
  /\ holders' = [holders EXCEPT ![r] = @ \ {c}]
  /\ UNCHANGED <<serviceVars, log, clientVars, epoch, tableVars, stream,
                 made, name, destroyed>>

\* Process c refers to no result any more.
ForgetAll(c) == holders' = [r \in Ids |-> holders[r] \ {c}]

\* The client dies, and refers to nothing.
Kill(c) ==
  /\ pc[c] # "dead"
  /\ pc' = [pc EXCEPT ![c] = "dead"]
  /\ ForgetAll(c)
  /\ UNCHANGED <<serviceVars, log, cur, epoch, tableVars, stream,
                 made, name, destroyed>>

-----------------------------------------------------------------------------
(* The connection process.                                                 *)

\* A message is received: it joins the queue, that of a destructor too.
\* Mutants: the statement is executed at once; it is ignored while the lock
\* is taken.
Arrive_DropsAtOnce(r) ==
  /\ r \in DOMAIN log \ seen
  /\ IF log[r].op = "drop"
       THEN /\ seen' = seen \union {r}
            /\ tables' = tables \ {Table(r)}
            /\ UNCHANGED <<waiting, active>>
       ELSE Service!Arrive(r) /\ UNCHANGED tables
  /\ UNCHANGED <<log, clientVars, epoch, counter, abandoned, stream, resultVars>>

Arrive_IgnoresDrops(r) ==
  /\ r \in DOMAIN log \ seen
  /\ IF log[r].op = "drop" /\ stream # None
       THEN seen' = seen \union {r} /\ UNCHANGED <<waiting, active>>
       ELSE Service!Arrive(r)
  /\ UNCHANGED <<log, clientVars, epoch, tableVars, stream, resultVars>>

Arrive(r) ==
  /\ r \in DOMAIN log \ seen
  /\ Service!Arrive(r)
  /\ UNCHANGED <<log, clientVars, epoch, tableVars, stream, resultVars>>

Start ==
  /\ Service!Start
  /\ UNCHANGED <<log, clientVars, epoch, tableVars, stream, resultVars>>

\* The reply reaches the caller if it still lives.
Reply(state) ==
  pc' = [c \in Clients |->
           IF pc[c] = "calling" /\ cur[c] = active THEN state ELSE pc[c]]

\* next_ingest_opts counts, whatever becomes of the ingest.  Mutants: it counts
\* the tables that were made, or backwards.
Advance_OnSuccess(ok) == counter' = IF ok THEN counter + 1 ELSE counter

Advance_Down(ok) == counter' = counter - 1

Advance(ok) == counter' = counter + 1

\* handle_command({:ingest, ...}) succeeds: the caller and, until its garbage
\* is collected, the connection process refer to the result.
IngestSucceeds ==
  /\ active # None /\ log[active].op = "ingest"
  /\ counter \notin tables
  /\ tables' = tables \union {counter}
  /\ Advance(TRUE)
  /\ made' = made \union {active}
  /\ name' = [name EXCEPT ![active] = counter]
  /\ holders' = [holders EXCEPT ![active] =
                   {Server} \union {c \in Clients : pc[c] = "calling"
                                                    /\ cur[c] = active}]
  /\ Reply("idle")
  /\ Service!Finish
  /\ UNCHANGED <<log, cur, epoch, abandoned, stream, destroyed>>

\* It fails: before the driver made the table, or after.  A table that exists
\* is an error.
IngestFails ==
  /\ active # None /\ log[active].op = "ingest"
  /\ \/ UNCHANGED <<tables, abandoned>>
     \/ /\ counter \notin tables
        /\ tables' = tables \union {counter}
        /\ abandoned' = abandoned \union {counter}
  /\ Advance(FALSE)
  /\ Reply("idle")
  /\ Service!Finish
  /\ UNCHANGED <<log, cur, epoch, stream, resultVars>>

\* handle_command({:execute_on_gc, statement}) drops the table if it exists.
\* An error is told to no one.
DropTable ==
  /\ active # None /\ log[active].op = "drop"
  /\ \/ tables' = tables \ {Table(active)} /\ UNCHANGED abandoned
     \/ UNCHANGED tables /\ abandoned' = abandoned \union {Table(active)}
  /\ Service!Finish
  /\ UNCHANGED <<log, clientVars, epoch, counter, stream, resultVars>>

\* handle_stream({:query, ...}): the stream is open and the lock is taken, ...
QuerySucceeds ==
  /\ active # None /\ log[active].op = "query" /\ stream = None
  /\ Table(active) \in tables
  /\ stream' = active
  /\ Reply("reading")
  /\ UNCHANGED <<serviceVars, log, cur, epoch, tableVars, resultVars>>

\* ... or the query fails.
QueryFails ==
  /\ active # None /\ log[active].op = "query" /\ stream = None
  /\ Reply("idle")
  /\ Service!Finish
  /\ UNCHANGED <<log, cur, epoch, tableVars, stream, resultVars>>

\* The DOWN message of a client that died with the lock.  Mutant: it is not
\* monitored.
HandleDown_NoMonitor == FALSE /\ UNCHANGED vars

HandleDown ==
  /\ stream # None /\ pc[log[stream].from] = "dead"
  /\ stream' = None
  /\ Service!Finish
  /\ UNCHANGED <<log, clientVars, epoch, tableVars, resultVars>>

\* The connection process dies and is started again, with a new session: the
\* calls exit, and the messages that are under way are lost.
Restart ==
  /\ epoch < MaxRestarts
  /\ epoch' = epoch + 1
  /\ seen' = DOMAIN log
  /\ Service!Fail
  /\ counter' = 0 /\ tables' = {} /\ abandoned' = {} /\ stream' = None
  /\ pc' = [c \in Clients |-> IF pc[c] = "calling" THEN "idle" ELSE pc[c]]
  /\ ForgetAll(Server)
  /\ UNCHANGED <<log, cur, made, name, destroyed>>

-----------------------------------------------------------------------------
(* The runtime.                                                            *)

\* The connection process collects its garbage, and with it its copy of the
\* result it sent.
ServerCollects(r) ==
  /\ Server \in holders[r]
  /\ holders' = [holders EXCEPT ![r] = @ \ {Server}]
  /\ UNCHANGED <<serviceVars, log, clientVars, epoch, tableVars, stream,
                 made, name, destroyed>>

\* The resource of r is destroyed: the message goes to the process that made
\* the table, dead or alive.  Mutant: it goes to the name of the process.
Destroy_ToName(r) ==
  /\ r \in made \ destroyed
  /\ holders[r] = {}
  /\ destroyed' = destroyed \union {r}
  /\ Send(Server, "drop", r)
  /\ UNCHANGED <<serviceVars, clientVars, epoch, tableVars, stream,
                 made, name, holders>>

Destroy(r) ==
  /\ r \in made \ destroyed
  /\ holders[r] = {}
  /\ destroyed' = destroyed \union {r}
  /\ IF Current(r) THEN Send(Server, "drop", r) ELSE UNCHANGED log
  /\ UNCHANGED <<serviceVars, clientVars, epoch, tableVars, stream,
                 made, name, holders>>

-----------------------------------------------------------------------------
Serve ==
  \/ Start
  \/ IngestSucceeds
  \/ IngestFails
  \/ DropTable
  \/ QuerySucceeds
  \/ QueryFails
  \/ HandleDown

ClientStep(c) ==
  \/ CallIngest(c)
  \/ CallQuery(c)
  \/ Unlock(c)
  \/ \E r \in Ids : Forget(c, r)
  \/ Kill(c)

Next ==
  \/ \E c \in Clients : ClientStep(c)
  \/ \E r \in DOMAIN log : Arrive(r)
  \/ Serve
  \/ Restart
  \/ \E r \in Ids : ServerCollects(r) \/ Destroy(r)

Spec == Init /\ [][Next]_vars

\* Messages are received and requests served, functions that read a stream
\* end, and a resource that nothing refers to is destroyed at once.  An idle
\* process does not collect its garbage: neither clients that hold a result
\* nor the connection process are made to.
Fairness ==
  /\ WF_vars(Serve)
  /\ WF_vars(\E r \in DOMAIN log : Arrive(r))
  /\ \A c \in Clients : WF_vars(Unlock(c))
  /\ WF_vars(\E r \in Ids : Destroy(r))

FairSpec == Spec /\ Fairness

-----------------------------------------------------------------------------
(* Properties.                                                             *)

\* As long as a client of the session holds the result of an ingest, its
\* table is there, whatever other results are destroyed, in this session or
\* in one before it whose tables had the same names.
ResultKeepsTable ==
  \A r \in made : Current(r) /\ holders[r] # {} => name[r] \in tables

\* A table is not dropped while a stream that reads it is open, even if its
\* result was collected in the meantime.
ReadTablesExist == stream # None => Table(stream) \in tables

\* The next ingest finds no table of its name, whatever failed before.
FreshNames == \A n \in tables : n < counter

\* No table is lost: but for those abandoned by an error, every table belongs
\* to a result that exists, or its drop is on its way.
NoLeak ==
  \A n \in tables \ abandoned :
    \E r \in made :
      /\ Current(r) /\ name[r] = n
      /\ \/ r \notin destroyed
         \/ \E d \in DOMAIN log :
              /\ log[d].op = "drop" /\ log[d].of = r
              /\ \/ d \notin seen \/ d = active
                 \/ \E i \in DOMAIN waiting : waiting[i] = d

\* Result r has a table, which no error abandoned.
HasTable(r) == r \in made /\ Current(r) /\ name[r] \in tables \ abandoned

\* Once nothing refers to a result, its table goes away, if the drop does not
\* fail and the session lasts: the message of the destructor reaches the
\* connection process and is executed, whatever it has to wait behind, a stream
\* that reads the table or one whose reader died.
TablesGoAway ==
  \A r \in Ids : r \in made /\ holders[r] = {} ~> ~HasTable(r)

\* The same once no client holds the result: "automatically dropped when the
\* returned result is garbage collected" (ingest).
UnusedTablesGoAway ==
  \A r \in Ids :
    r \in made /\ holders[r] \intersect Clients = {} ~> ~HasTable(r)
=============================================================================
