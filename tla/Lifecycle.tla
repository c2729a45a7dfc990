------------------------------ MODULE Lifecycle ------------------------------
(***************************************************************************)
(* The database process and the connections that are started for it        *)
(* (lib/adbc/database.ex, init of lib/adbc/connection.ex), each restarted  *)
(* by a supervisor of its own.                                             *)
(*                                                                         *)
(* A connection that starts calls the database, which initializes it with  *)
(* the driver, links to it and replies.  The database traps exits and      *)
(* ignores those of connections; a connection does not trap exits, and     *)
(* ends with its database unless the database ends normally.  Any of them  *)
(* can be killed between two steps.                                        *)
(***************************************************************************)
EXTENDS Naturals, Sequences

CONSTANTS
  Conns,       \* the children that are connections
  Reasons,     \* how a database may end, see below
  MaxStarts    \* bound: how often each child, and the database, is started

ASSUME ConstantsAssumption ==
  /\ Reasons \subseteq {"normal", "shutdown", "killed"}
  /\ MaxStarts \in Nat

VARIABLES
  ends,       \* how the databases before the current one ended, in order
  db,         \* where the database is, "down" if there is none
  inbox,      \* the calls the database has not handled
  conn,       \* conn[i]: where connection i is
  starts,     \* starts[i]: how often it was started: its pid
  calls,      \* calls[i]: the database it called: its pid
  links,      \* the connections linked to the current database
  exits       \* the connections an exit signal of a database is under way to

dbVars   == <<ends, db, inbox>>
connVars == <<conn, starts, calls>>
vars == <<dbVars, connVars, links, exits>>

\* The pid of the current database: how many there were before, and one.
Epoch == Len(ends) + 1

\* A call is the pid of the connection that makes it.
Pids == [conn : Conns, start : 1..MaxStarts]

Idle        == [at |-> "idle"]
Down        == [at |-> "down"]
Busy(at, m) == [at |-> at, call |-> m]
DbStates    == {Idle, Down} \union
               {Busy(at, m) : at \in {"initialized", "linked"}, m \in Pids}

TypeOK ==
  /\ ends \in Seq(Reasons)
  /\ db \in DbStates
  /\ inbox \in Seq(Pids)
  /\ conn \in [Conns -> {"down", "starting", "serving"}]
  /\ starts \in [Conns -> 0..MaxStarts]
  /\ calls \in [Conns -> 0..MaxStarts]
  /\ links \subseteq Conns
  /\ exits \subseteq Conns

Init ==
  /\ ends = <<>>
  /\ db = Idle
  /\ inbox = <<>>
  /\ conn = [i \in Conns |-> "down"]
  /\ starts = [i \in Conns |-> 0]
  /\ calls = [i \in Conns |-> 0]
  /\ links = {}
  /\ exits = {}

\* The process that sent call m is alive, and it waits for the reply.
Alive(m) == conn[m.conn] # "down" /\ starts[m.conn] = m.start
Waits(m) == conn[m.conn] = "starting" /\ starts[m.conn] = m.start

Goes(i, to) == conn' = [conn EXCEPT ![i] = to]

-----------------------------------------------------------------------------
(* The database.                                                           *)

\* The database process ends.  An exit signal goes to all linked processes;
\* they ignore it if the reason is :normal.
End(reason) ==
  /\ ends' = Append(ends, reason)
  /\ db' = Down
  /\ inbox' = <<>>
  /\ links' = {}
  /\ exits' = IF reason = "normal" THEN exits ELSE exits \union links

\* handle_call({:initialize_connection, _}): adbc_connection_init succeeds, ...
\* Mutant: the reply comes before the link.
InitializeConnection_Replies ==
  /\ db = Idle
  /\ inbox # <<>>
  /\ db' = Busy("initialized", Head(inbox))
  /\ inbox' = Tail(inbox)
  /\ IF Waits(Head(inbox)) THEN Goes(Head(inbox).conn, "serving")
                           ELSE UNCHANGED conn
  /\ UNCHANGED <<ends, starts, calls, links, exits>>

InitializeConnection ==
  /\ db = Idle
  /\ inbox # <<>>
  /\ db' = Busy("initialized", Head(inbox))
  /\ inbox' = Tail(inbox)
  /\ UNCHANGED <<ends, connVars, links, exits>>

\* ... or fails, and the reply makes the connection stop.
InitializeFails ==
  /\ db = Idle
  /\ inbox # <<>>
  /\ inbox' = Tail(inbox)
  /\ LET m == Head(inbox) IN
       IF Waits(m) THEN Goes(m.conn, "down") ELSE UNCHANGED conn
  /\ UNCHANGED <<ends, db, starts, calls, links, exits>>

\* Process.link(pid).  If the process is dead, its exit signal with the reason
\* :noproc comes back at once; init traps exits, and handle_info ignores it.
LinkConnection ==
  /\ db.at = "initialized"
  /\ db' = Busy("linked", db.call)
  /\ links' = links \union {i \in {db.call.conn} : Alive(db.call)}
  /\ UNCHANGED <<ends, inbox, connVars, exits>>

\* {:reply, {:ok, driver}, _}: init of the connection returns.
ReplyInitialized ==
  /\ db.at = "linked"
  /\ db' = Idle
  /\ IF Waits(db.call) THEN Goes(db.call.conn, "serving") ELSE UNCHANGED conn
  /\ UNCHANGED <<ends, inbox, starts, calls, links, exits>>

\* The database is stopped by its supervisor or by GenServer.stop, between two
\* messages; or it is killed at any point.
EndDatabase ==
  /\ db # Down
  /\ \E reason \in Reasons :
       /\ reason # "killed" => db = Idle
       /\ End(reason)
  /\ UNCHANGED connVars

\* Its supervisor starts another one under the same name.
StartDatabase ==
  /\ db = Down
  /\ Epoch <= MaxStarts
  /\ db' = Idle
  /\ UNCHANGED <<ends, inbox, connVars, links, exits>>

-----------------------------------------------------------------------------
(* The connections.                                                        *)

\* start_link, and GenServer.call in init.  If nobody has the name of the
\* database, the call exits and the connection is not started.
StartConnection(i) ==
  /\ conn[i] = "down"
  /\ starts[i] < MaxStarts
  /\ db # Down
  /\ starts' = [starts EXCEPT ![i] = @ + 1]
  /\ calls' = [calls EXCEPT ![i] = Epoch]
  /\ inbox' = Append(inbox, [conn |-> i, start |-> starts[i] + 1])
  /\ Goes(i, "starting")
  /\ UNCHANGED <<ends, db, links, exits>>

\* The database it called is gone: the call exits and init fails.  Mutant:
\* the call does not monitor whom it calls.
CallExits_NoMonitor(i) == FALSE /\ UNCHANGED vars

CallExits(i) ==
  /\ conn[i] = "starting"
  /\ calls[i] # Epoch
  /\ Goes(i, "down")
  /\ exits' = exits \ {i}
  /\ UNCHANGED <<dbVars, starts, calls, links>>

\* The connection ends by itself, is stopped or is killed.  Its links are gone
\* with it, and so is what was under way to it.  The database ignores its exit
\* signal, as above.
EndConnection(i) ==
  /\ conn[i] # "down"
  /\ Goes(i, "down")
  /\ links' = links \ {i}
  /\ exits' = exits \ {i}
  /\ UNCHANGED <<dbVars, starts, calls>>

\* The exit signal of its database reaches it.
ReceiveExit(i) ==
  /\ i \in exits
  /\ Goes(i, "down")
  /\ exits' = exits \ {i}
  /\ UNCHANGED <<dbVars, starts, calls, links>>

-----------------------------------------------------------------------------
HandleCall ==
  \/ InitializeConnection
  \/ InitializeFails
  \/ LinkConnection
  \/ ReplyInitialized

Next ==
  \/ HandleCall
  \/ EndDatabase
  \/ StartDatabase
  \/ \E i \in Conns :
       StartConnection(i) \/ CallExits(i) \/ EndConnection(i) \/ ReceiveExit(i)

Spec == Init /\ [][Next]_vars

\* The database handles its messages, NIF calls return, and signals arrive.
\* Nobody has to start a process, or to end one.
Fairness ==
  /\ WF_vars(HandleCall)
  /\ \A i \in Conns : WF_vars(CallExits(i)) /\ WF_vars(ReceiveExit(i))

FairSpec == Spec /\ Fairness

-----------------------------------------------------------------------------
(* Properties.                                                             *)

\* A connection that serves has a database that takes it down with it: it is
\* linked to the one that initialized it, or the signal of its end is under
\* way; only a normal end is survived.
ServingHasDatabase ==
  \A i \in Conns :
    conn[i] = "serving" =>
      \/ calls[i] = Epoch /\ i \in links
      \/ i \in exits
      \/ calls[i] < Epoch /\ ends[calls[i]] = "normal"

\* The same with no exception.
ServingHasDatabaseAlways ==
  \A i \in Conns :
    conn[i] = "serving" =>
      (calls[i] = Epoch /\ i \in links) \/ i \in exits

\* start_link of a connection returns, whatever becomes of the database.  Its
\* call has no timeout.
StartsReturn ==
  \A i \in Conns : conn[i] = "starting" ~> conn[i] # "starting"
=============================================================================
