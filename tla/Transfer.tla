------------------------------ MODULE Transfer ------------------------------
(***************************************************************************)
(* Several connections, and processes that call one of them from inside    *)
(* the function that reads a stream of another (lib/adbc/connection.ex).   *)
(*                                                                         *)
(* The function given to query_pointer may call any connection: to query,  *)
(* to execute a statement, or to transfer the stream it reads, by          *)
(* bulk_insert or ingest.  The destination binds the stream to a statement *)
(* of its own, which moves it out of the resource the source connection    *)
(* will release, and reads it to the end while it executes.                *)
(*                                                                         *)
(* Each connection keeps the promise of ConnectionService, as Connection   *)
(* is shown to.  A request arrives when it is sent and an unlock is handled*)
(* when it is cast; Connection has these messages.                         *)
(***************************************************************************)
EXTENDS Naturals, Sequences, FiniteSets, Functions

CONSTANTS
  Clients,      \* the processes that call
  Conns,        \* the connections
  Nestings,     \* <<k, l>>: applications call l from inside a reader of k
  Prepared,     \* <<k, l>>: they execute on k what was prepared on l
  MaxRequests   \* bound: the requests sent over a whole behaviour

None == 0
Ids  == 1..MaxRequests

ASSUME ConstantsAssumption ==
  /\ Nestings \subseteq Conns \X Conns
  /\ Prepared \subseteq Conns \X Conns
  /\ MaxRequests \in Nat

VARIABLES
  log,      \* log[r]: the kind of request r, who sent it to which connection,
            \* the connection of its statement, the stream it transfers
  pc,       \* pc[c]: where client c is
  cur,      \* cur[c]: the last request of client c
  held,     \* held[c]: the streams c is reading, the innermost last
  queue,    \* queue[k]: state.queue of connection k
  running,  \* running[k]: the request whose NIF calls k executes, or None
  lock,     \* lock[k]: the stream of state.lock, or None
  open,     \* the streams in the resources made for them
  bound     \* the transfers whose statements hold the streams they bound

clientVars == <<pc, cur, held>>
vars == <<log, clientVars, queue, running, lock, open, bound>>

Kinds == {"stream", "command", "transfer"}

From(r)   == log[r].from
To(r)     == log[r].to
Source(r) == log[r].source

TypeOK ==
  /\ log \in Seq([kind : Kinds, from : Clients, to : Conns, on : Conns,
                  source : Ids \union {None}])
  /\ Len(log) <= MaxRequests
  /\ pc \in [Clients -> {"running", "calling", "dead"}]
  /\ cur \in [Clients -> DOMAIN log \union {None}]
  /\ held \in [Clients -> Seq(DOMAIN log)]
  /\ queue \in [Conns -> Seq(DOMAIN log)]
  /\ running \in [Conns -> DOMAIN log \union {None}]
  /\ lock \in [Conns -> DOMAIN log \union {None}]
  /\ open \subseteq DOMAIN log
  /\ bound \subseteq DOMAIN log

Init ==
  /\ log = <<>>
  /\ pc = [c \in Clients |-> "running"]
  /\ cur = [c \in Clients |-> None]
  /\ held = [c \in Clients |-> <<>>]
  /\ queue = [k \in Conns |-> <<>>]
  /\ running = [k \in Conns |-> None]
  /\ lock = [k \in Conns |-> None]
  /\ open = {}
  /\ bound = {}

-----------------------------------------------------------------------------
(* The clients.                                                            *)

\* :queue.in and, as a mutant, :queue.in_r.
JoinQueue_Front(k, r) == queue' = [queue EXCEPT ![k] = <<r>> \o @]

JoinQueue(k, r) == queue' = [queue EXCEPT ![k] = Append(@, r)]

\* GenServer.call, for {:stream, _} and {:command, _} with no timeout.
Call(c, k, kind, on, source) ==
  /\ pc[c] = "running"
  /\ Len(log) < MaxRequests
  /\ log' = Append(log, [kind |-> kind, from |-> c, to |-> k, on |-> on,
                         source |-> source])
  /\ pc' = [pc EXCEPT ![c] = "calling"]
  /\ cur' = [cur EXCEPT ![c] = Len(log) + 1]
  /\ JoinQueue(k, Len(log) + 1)
  /\ UNCHANGED <<held, running, lock, open, bound>>

Nests(h, k) == <<To(h), k>> \in Nestings

\* query, execute and the like, with a query or a prepared statement.
CallPlain(c, k) ==
  /\ \A h \in Range(held[c]) : Nests(h, k)
  /\ \E kind \in {"stream", "command"} :
       \E on \in {k} \union {l \in Conns : <<k, l>> \in Prepared} :
         Call(c, k, kind, on, None)

\* bulk_insert and ingest of a stream c is reading.  That to the connection
\* of the stream raises: whatever the application tries, it is not sent.
\* Mutant: it is not checked.
MayTransfer_Unchecked(s, k) == TRUE

MayTransfer(s, k) == To(s) # k

CallTransfer(c, k) ==
  \E s \in Range(held[c]) :
    /\ MayTransfer(s, k)
    /\ \A h \in Range(held[c]) : Nests(h, k) \/ To(s) = k
    /\ Call(c, k, "transfer", k, s)

\* adbc_arrow_array_stream_release: a stream that was moved is not there.
Release(s) == open' = open \ {s}

\* The function of the innermost stream returns, and the `after` clause gives
\* the lock back.  Mutant: the call inside of it may time out, and so raise.
Return_OnTimeout(c) ==
  /\ pc[c] \in {"running", "calling"}
  /\ held[c] # <<>>
  /\ LET s == held[c][Len(held[c])] IN
       /\ held' = [held EXCEPT ![c] = SubSeq(@, 1, Len(@) - 1)]
       /\ lock' = [lock EXCEPT ![To(s)] = None]
       /\ Release(s)
  /\ pc' = [pc EXCEPT ![c] = "running"]
  /\ UNCHANGED <<log, cur, queue, running, bound>>

Return(c) ==
  /\ pc[c] = "running"
  /\ held[c] # <<>>
  /\ LET s == held[c][Len(held[c])] IN
       /\ held' = [held EXCEPT ![c] = SubSeq(@, 1, Len(@) - 1)]
       /\ lock' = [lock EXCEPT ![To(s)] = None]
       /\ Release(s)
  /\ UNCHANGED <<log, pc, cur, queue, running, bound>>

Kill(c) ==
  /\ pc[c] # "dead"
  /\ pc' = [pc EXCEPT ![c] = "dead"]
  /\ held' = [held EXCEPT ![c] = <<>>]
  /\ UNCHANGED <<log, cur, queue, running, lock, open, bound>>

-----------------------------------------------------------------------------
(* The connections.                                                        *)

\* maybe_dequeue takes the first request, unless the lock is taken.  Mutant:
\* only a stream waits for the lock.
MayDequeue_Commands(k) ==
  queue[k] # <<>>
  /\ (lock[k] = None \/ log[Head(queue[k])].kind # "stream")

MayDequeue(k) == lock[k] = None /\ queue[k] # <<>>

Dequeue(k) ==
  /\ running[k] = None
  /\ MayDequeue(k)
  /\ running' = [running EXCEPT ![k] = Head(queue[k])]
  /\ queue' = [queue EXCEPT ![k] = Tail(@)]
  /\ UNCHANGED <<log, clientVars, lock, open, bound>>

Executes(k, kind) == running[k] # None /\ log[running[k]].kind = kind

\* GenServer.reply: the reply reaches the client if it still lives.
\* Mutant: the replies of others are forgotten.
Reply_Overwrites(r) == pc' = [c \in {From(r)} |-> "running"]

Reply(r) ==
  pc' = [c \in Clients |->
           IF pc[c] = "calling" /\ cur[c] = r THEN "running" ELSE pc[c]]

Finish(k) == running' = [running EXCEPT ![k] = None]

\* handle_command with no stream: the caller is told how it went.
HandleCommand(k) ==
  /\ Executes(k, "command")
  /\ Reply(running[k])
  /\ Finish(k)
  /\ UNCHANGED <<log, cur, held, queue, lock, open, bound>>

\* handle_stream succeeds: the stream is open and locked, and its caller is
\* monitored, be it dead or alive.
HandleStream(k) ==
  LET s == running[k] c == From(s) IN
  /\ Executes(k, "stream")
  /\ open' = open \union {s}
  /\ lock' = [lock EXCEPT ![k] = s]
  /\ held' = IF pc[c] = "dead" THEN held
                               ELSE [held EXCEPT ![c] = Append(@, s)]
  /\ Reply(s)
  /\ Finish(k)
  /\ UNCHANGED <<log, cur, queue, bound>>

HandleStreamError(k) ==
  /\ Executes(k, "stream")
  /\ Reply(running[k])
  /\ Finish(k)
  /\ UNCHANGED <<log, cur, held, queue, lock, open, bound>>

\* adbc_statement_bind_stream: the statement of the transfer takes the stream
\* over.
BindStream(k) ==
  /\ Executes(k, "transfer")
  /\ Source(running[k]) \in open
  /\ Release(Source(running[k]))
  /\ bound' = bound \union {running[k]}
  /\ UNCHANGED <<log, clientVars, queue, running, lock>>

\* adbc_statement_execute succeeds or fails, or one of the calls before it
\* has failed.  The driver may keep the stream as long as its statement.
HandleTransfer(k) ==
  /\ Executes(k, "transfer")
  /\ bound' \in {bound, bound \ {running[k]}}
  /\ Reply(running[k])
  /\ Finish(k)
  /\ UNCHANGED <<log, cur, held, queue, lock, open>>

\* The DOWN of a client that died with the lock.  Mutant: no DOWN arrives.
HandleDown_NoMonitor(k) == FALSE /\ UNCHANGED vars

HandleDown(k) ==
  /\ lock[k] # None
  /\ pc[From(lock[k])] = "dead"
  /\ Release(lock[k])
  /\ lock' = [lock EXCEPT ![k] = None]
  /\ UNCHANGED <<log, clientVars, queue, running, bound>>

\* The connection process collects its garbage, the statement of a transfer
\* among it, and the stream it still holds is released.
CollectStatement(t) ==
  /\ t \in bound
  /\ running[To(t)] # t
  /\ bound' = bound \ {t}
  /\ UNCHANGED <<log, clientVars, queue, running, lock, open>>

-----------------------------------------------------------------------------
Serve(k) ==
  \/ Dequeue(k)
  \/ HandleCommand(k)
  \/ HandleStream(k)
  \/ HandleStreamError(k)
  \/ HandleTransfer(k)
  \/ HandleDown(k)

ClientStep(c) ==
  \/ \E k \in Conns : CallPlain(c, k) \/ CallTransfer(c, k)
  \/ Return(c)
  \/ Kill(c)

Next ==
  \/ \E c \in Clients : ClientStep(c)
  \/ \E k \in Conns : Serve(k) \/ BindStream(k)
  \/ \E t \in DOMAIN log : CollectStatement(t)

Spec == Init /\ [][Next]_vars

\* NIF calls return, messages are received, and a function that reads a
\* stream returns unless it waits in a call for ever.  No one has to call,
\* and a statement need not be collected.
Fairness ==
  /\ \A k \in Conns : WF_vars(Serve(k))
  /\ \A c \in Clients : SF_vars(Return(c))

FairSpec == Spec /\ Fairness

-----------------------------------------------------------------------------
(* Properties.                                                             *)

\* While a transfer executes and its caller lives, the stream it transfers
\* keeps its own connection locked: the destination reads that stream, and
\* so uses the source connection, from a process that has no part in the
\* lock.
TransferKeepsSource ==
  \A k \in Conns :
    Executes(k, "transfer") /\ pc[From(running[k])] # "dead" =>
      lock[To(Source(running[k]))] = Source(running[k])

\* The requests through which the objects of connection k are used now: those
\* being executed, transfers that read a stream of k, and the stream whose
\* reader is at it.
Uses(k) ==
  {r \in Range(running) \ {None} :
     log[r].on = k \/ (r \in bound /\ log[Source(r)].on = k)}
    \union {s \in Range(lock) \intersect open : log[s].on = k}

\* "In general, objects allow serialized access from multiple threads, but
\* not concurrent access" (adbc.h): a connection of the driver is used by one
\* request at a time, whichever connection processes are involved, ...
DriverSerialized ==
  \A k \in Conns : \A r \in Uses(k), q \in Uses(k) :
    r = q \/ pc[From(r)] = "dead" \/ pc[From(q)] = "dead"

\* ... the requests of clients that died included.
DriverSerializedAlways ==
  \A k \in Conns : \A r \in Uses(k), q \in Uses(k) : r = q

\* Client c waits for a connection that waits for client d.
WaitsFor(c, d) ==
  /\ pc[c] = "calling"
  /\ lock[To(cur[c])] # None
  /\ From(lock[To(cur[c])]) = d
  /\ pc[d] # "dead"

\* No clients wait for each other, none for itself: their calls have no
\* timeout and would never return.
NoDeadlock ==
  \A W \in (SUBSET Clients) \ {{}} : \E c \in W : \A d \in W : ~WaitsFor(c, d)

\* Every call returns, however calls and readers nest.
EveryCallReturns ==
  \A c \in Clients : pc[c] = "calling" ~> pc[c] # "calling"

\* What each of the connections promises.
Service(k) ==
  INSTANCE ConnectionService WITH
    waiting <- queue[k],
    active <- IF running[k] # None THEN running[k] ELSE lock[k],
    seen <- {r \in DOMAIN log : To(r) = k}

\* Every connection serves in order and one at a time: nested calls, moved
\* streams and dead readers do not let a request in between.
ServesInOrder ==
  [][\A k \in Conns : Service(k)!Next \/ UNCHANGED Service(k)!vars]_vars

\* "since a stream can be a large resource, we release it now" (handle_cast):
\* no stream outlives the lock that was taken for it.
StreamsGoWithLock ==
  /\ \A s \in open : lock[To(s)] = s
  /\ \A t \in bound : lock[To(Source(t))] = Source(t)

\* A stream is there when it is bound: adbc_statement_bind_stream does not
\* look whether it was released or moved.
BindsOpenStreams ==
  \A k \in Conns :
    Executes(k, "transfer") =>
      running[k] \in bound \/ Source(running[k]) \in open
=============================================================================
