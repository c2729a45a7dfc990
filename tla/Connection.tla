----------------------------- MODULE Connection -----------------------------
(***************************************************************************)
(* Adbc.Connection: the GenServer that owns one ADBC connection, and the   *)
(* processes that call it (lib/adbc/connection.ex).                        *)
(*                                                                         *)
(* A call is a message.  Requests for a stream (query, query_pointer,      *)
(* get_info, ...) and commands (execute, prepare, bulk_insert, ingest) are *)
(* put in a queue; options are served at once.  A request for a stream     *)
(* that succeeds takes the lock {unlock_ref, stream_ref}: the caller is    *)
(* monitored, reads the stream with NIF calls of its own, and gives it     *)
(* back with an unlock cast.  If it dies first, the monitor's DOWN message *)
(* does it.  While the lock is taken the queue stands still.               *)
(*                                                                         *)
(* Signals between two processes arrive in the order they were sent; no    *)
(* order holds between two senders, so every sender has a channel of its   *)
(* own.  A DOWN signal is the last one of its sender: it is a separate set *)
(* and is received once the sender's channel is empty.                     *)
(*                                                                         *)
(* Request numbers stand for the references of the code: request r has the *)
(* stream_ref r and the unlock_ref r.                                      *)
(***************************************************************************)
EXTENDS Naturals, Sequences

CONSTANTS
  Clients,      \* the processes that call the connection
  CallKinds,    \* the kinds of calls they make, see below
  Runtime,      \* the sender of execute_on_gc messages (a NIF destructor)
  MaxRequests,  \* bound: the requests sent over a whole behaviour
  MaxRestarts   \* bound: how often a supervisor restarts the connection

Senders == Clients \union {Runtime}
None    == 0                       \* no request
Ids     == 1..MaxRequests

StreamKind  == "stream"            \* {:stream, _}, read by stream_results
PointerKind == "pointer"           \* {:stream, _}, its address read only
CommandKind == "command"           \* {:command, _}
OptionKind  == "option"            \* {:option, _, _}
GcKind      == "execute_on_gc"     \* {:execute_on_gc, _}
StreamKinds == {StreamKind, PointerKind}
Kinds       == StreamKinds \union {CommandKind, OptionKind, GcKind}

ASSUME ConstantsAssumption ==
  /\ Runtime \notin Clients
  /\ CallKinds \subseteq Kinds \ {GcKind}
  /\ MaxRequests \in Nat
  /\ MaxRestarts \in Nat

VARIABLES
  log,       \* log[r]: the kind, the sender and the addressee of request r
  pc,        \* pc[c]: where client c is
  cur,       \* cur[c]: the last request client c has sent
  answer,    \* answer[c]: the reply to cur[c] that is under way to c
  chan,      \* chan[s]: the signals from s the server has not received
  down,      \* the monitors whose DOWN signal is under way
  server,    \* where the server is
  epoch,     \* the incarnation of the server: a restart makes a new process
  running,   \* the request whose NIF call the server executes
  queue,     \* state.queue
  lock,      \* state.lock: None is :none
  monitors,  \* the server's monitors that have not fired
  open,      \* the streams that are not released
  reading    \* the streams a NIF call of some thread is reading

clientVars == <<pc, cur, answer>>
streamVars == <<open, reading>>
lockVars   == <<lock, monitors>>
vars == <<log, clientVars, chan, down, server, epoch, running, queue,
          lockVars, streamVars>>

ClientStates == {"idle", "calling", "callback", "in_nif", "dead"}
ServerStates == {"receive", "dequeue", "execute", "option",
                 "terminated", "crashed"}
Answers      == {"none", "ok", "error"}
Signals      == [type : {"request", "unlock"}, req : DOMAIN log]

Request(r) == [type |-> "request", req |-> r]
Unlocking(r) == [type |-> "unlock", req |-> r]

From(r) == log[r].from

\* The server process that request r was sent to is still the current one.
ServerAlive == server \notin {"terminated", "crashed"}
Current(r)  == ServerAlive /\ log[r].epoch = epoch

\* A live client is inside the function that reads the stream it was given.
InCallback(c) == pc[c] \in {"callback", "in_nif"}

\* A client refers to the stream of r: the reply is on its way, or the client
\* loops over stream_next.  A PointerKind request stands for query_pointer
\* with a function that keeps the address of the stream and nothing else, as
\* that of py_query and every 2-arity one do: they read with code that is
\* not a NIF of this library and holds no reference to the resource.
Refers(c, r) ==
  /\ cur[c] = r
  /\ \/ pc[c] = "calling" /\ answer[c] = "ok"
     \/ InCallback(c) /\ log[r].kind = StreamKind

TypeOK ==
  /\ log \in Seq([kind : Kinds, from : Senders, epoch : Nat])
  /\ Len(log) <= MaxRequests
  /\ pc \in [Clients -> ClientStates]
  /\ cur \in [Clients -> DOMAIN log \union {None}]
  /\ answer \in [Clients -> Answers]
  /\ chan \in [Senders -> Seq(Signals)]
  /\ down \subseteq DOMAIN log
  /\ server \in ServerStates
  /\ epoch \in Nat
  /\ running \in DOMAIN log \union {None}
  /\ queue \in Seq(DOMAIN log)
  /\ lock \in DOMAIN log \union {None}
  /\ monitors \subseteq DOMAIN log
  /\ open \subseteq DOMAIN log
  /\ reading \subseteq DOMAIN log

Init ==
  /\ log = <<>>
  /\ pc = [c \in Clients |-> "idle"]
  /\ cur = [c \in Clients |-> None]
  /\ answer = [c \in Clients |-> "none"]
  /\ chan = [s \in Senders |-> <<>>]
  /\ down = {}
  /\ server = "receive"
  /\ epoch = 0
  /\ running = None
  /\ queue = <<>>
  /\ lock = None
  /\ monitors = {}
  /\ open = {}
  /\ reading = {}

-----------------------------------------------------------------------------
(* The clients.                                                            *)

\* Sender s sends request Len(log) + 1 to the server.
Send(s, kind) ==
  /\ Len(log) < MaxRequests
  /\ ServerAlive
  /\ log' = Append(log, [kind |-> kind, from |-> s, epoch |-> epoch])
  /\ chan' = [chan EXCEPT ![s] = Append(@, Request(Len(log) + 1))]

\* GenServer.call: the client sends its request and waits.  A call to a dead
\* process exits at once and changes nothing.
Call(c, kind) ==
  /\ pc[c] = "idle"
  /\ Send(c, kind)
  /\ pc' = [pc EXCEPT ![c] = "calling"]
  /\ cur' = [cur EXCEPT ![c] = Len(log) + 1]
  /\ UNCHANGED <<answer, down, server, epoch, running, queue, lockVars,
                 streamVars>>

\* The reply arrives.  {:ok, conn, unlock_ref, stream_ref, _} enters the
\* function that reads the stream; any other reply ends the call.
ReceiveReply(c) ==
  /\ pc[c] = "calling"
  /\ answer[c] # "none"
  /\ pc' = [pc EXCEPT ![c] =
              IF log[cur[c]].kind \in StreamKinds /\ answer[c] = "ok"
                THEN "callback" ELSE "idle"]
  /\ answer' = [answer EXCEPT ![c] = "none"]
  /\ UNCHANGED <<log, cur, chan, down, server, epoch, running, queue,
                 lockVars, streamVars>>

\* The server died before it replied: GenServer.call exits, and the client
\* catches the exit or dies (Kill).
CallExits(c) ==
  /\ pc[c] = "calling"
  /\ answer[c] = "none"
  /\ ~Current(cur[c])
  /\ pc' = [pc EXCEPT ![c] = "idle"]
  /\ UNCHANGED <<log, cur, answer, chan, down, server, epoch, running, queue,
                 lockVars, streamVars>>

\* An option call waits for 5 seconds only.  The request stays where it is,
\* and its late reply is dropped.
OptionTimeout(c) ==
  /\ pc[c] = "calling"
  /\ log[cur[c]].kind = OptionKind
  /\ answer[c] = "none"
  /\ pc' = [pc EXCEPT ![c] = "idle"]
  /\ UNCHANGED <<log, cur, answer, chan, down, server, epoch, running, queue,
                 lockVars, streamVars>>

\* The client reads the stream: it enters adbc_arrow_array_stream_next on a
\* dirty scheduler, or any function that takes the pointer, ...
ReadNext(c) ==
  /\ pc[c] = "callback"
  /\ cur[c] \in open
  /\ pc' = [pc EXCEPT ![c] = "in_nif"]
  /\ reading' = reading \union {cur[c]}
  /\ UNCHANGED <<log, cur, answer, chan, down, server, epoch, running, queue,
                 lockVars, open>>

\* ... and the NIF returns, to the client if it still lives.
ReadReturns(r) ==
  /\ r \in reading
  /\ reading' = reading \ {r}
  /\ pc' = [c \in Clients |->
              IF pc[c] = "in_nif" /\ cur[c] = r THEN "callback" ELSE pc[c]]
  /\ UNCHANGED <<log, cur, answer, chan, down, server, epoch, running, queue,
                 lockVars, open>>

\* The function returns or raises: the `after` clause casts the unlock, to
\* the process that granted the lock.  A cast to a dead process is lost.
Unlock(c) ==
  /\ pc[c] = "callback"
  /\ chan' = IF Current(cur[c])
               THEN [chan EXCEPT ![c] = Append(@, Unlocking(cur[c]))]
               ELSE chan
  /\ pc' = [pc EXCEPT ![c] = "idle"]
  /\ UNCHANGED <<log, cur, answer, down, server, epoch, running, queue,
                 lockVars, streamVars>>

\* The client is killed, or crashes.  Its monitors fire at once, even if it
\* is inside a NIF call: the call then goes on without it.
Kill(c) ==
  /\ pc[c] # "dead"
  /\ pc' = [pc EXCEPT ![c] = "dead"]
  /\ answer' = [answer EXCEPT ![c] = "none"]
  /\ LET fired == {r \in monitors : From(r) = c}
     IN  /\ down' = down \union fired
         /\ monitors' = monitors \ fired
  /\ UNCHANGED <<log, cur, chan, server, epoch, running, queue, lock,
                 streamVars>>

\* The garbage collector destroys the resource of an ingest result, whose
\* destructor sends {:execute_on_gc, statement} to the server.
ExecuteOnGc ==
  /\ Send(Runtime, GcKind)
  /\ UNCHANGED <<clientVars, down, server, epoch, running, queue, lockVars,
                 streamVars>>

-----------------------------------------------------------------------------
(* The server.                                                             *)

\* The process stops: its mailbox and its state are gone, its monitors too.
Stop(how) ==
  /\ server' = how
  /\ chan' = [s \in Senders |-> <<>>]
  /\ down' = {}
  /\ queue' = <<>>
  /\ running' = None
  /\ lock' = None
  /\ monitors' = {}

\* The next signal from sender s is there for the server to receive.
Receive(s, type) ==
  /\ server = "receive"
  /\ chan[s] # <<>>
  /\ Head(chan[s]).type = type

Consume(s) == chan' = [chan EXCEPT ![s] = Tail(@)]

\* :queue.in and, as a mutant, :queue.in_r.
JoinQueue_Front(r) == queue' = <<r>> \o queue

JoinQueue(r) == queue' = Append(queue, r)

\* Process.monitor: the monitor of a process that is dead fires at once.
\* Mutant: the caller is not monitored.
Monitor_Missing(r) == UNCHANGED <<monitors, down>>

Monitor(r) ==
  IF pc[From(r)] = "dead"
    THEN down' = down \union {r} /\ UNCHANGED monitors
    ELSE monitors' = monitors \union {r} /\ UNCHANGED down

\* Process.demonitor(ref, [:flush]): a DOWN message already sent is removed.
\* Mutant: without :flush.
Demonitor_NoFlush(r) == monitors' = monitors \ {r} /\ UNCHANGED down

Demonitor(r) == monitors' = monitors \ {r} /\ down' = down \ {r}

\* adbc_arrow_array_stream_release.  Mutant: "let the GC be the one".
ReleaseStream_ByGc(r) == UNCHANGED open

ReleaseStream(r) == open' = open \ {r}

\* GenServer.reply: the reply reaches the client if it still waits for it.
\* Mutants: errors are not reported; the replies of others are forgotten.
Reply_NoErrors(r, a) ==
  answer' = [c \in Clients |->
               IF c = From(r) /\ pc[c] = "calling" /\ cur[c] = r /\ a = "ok"
                 THEN a ELSE answer[c]]

Reply_Overwrites(r, a) == answer' = [c \in {From(r)} |-> a]

Reply(r, a) ==
  answer' = [c \in Clients |->
               IF c = From(r) /\ pc[c] = "calling" /\ cur[c] = r
                 THEN a ELSE answer[c]]

\* handle_call for {:stream, _} and {:command, _}, handle_info for
\* {:execute_on_gc, _}: the request joins the queue.
Enqueue(s) ==
  LET r == Head(chan[s]).req IN
  /\ Receive(s, "request")
  /\ Consume(s)
  /\ log[r].kind # OptionKind
  /\ JoinQueue(r)
  /\ server' = "dequeue"
  /\ UNCHANGED <<log, clientVars, down, epoch, running, lockVars, streamVars>>

\* handle_call for {:option, func, args}: neither the queue nor the lock
\* matters, the NIF is called at once.
HandleOption(c) ==
  LET r == Head(chan[c]).req IN
  /\ Receive(c, "request")
  /\ Consume(c)
  /\ log[r].kind = OptionKind
  /\ running' = r
  /\ server' = "option"
  /\ UNCHANGED <<log, clientVars, down, epoch, queue, lockVars, streamVars>>

\* handle_cast({:unlock, ref}): the stream is released, the monitor and a
\* DOWN message it may have sent are removed.  The clause matches the lock
\* only: any other unlock raises a FunctionClauseError.  Mutant: the queue is
\* left for the next request to look at.
HandleUnlock_NoDequeue(c) ==
  LET r == Head(chan[c]).req IN
  /\ Receive(c, "unlock")
  /\ lock = r
  /\ Consume(c)
  /\ ReleaseStream(r)
  /\ Demonitor(r)
  /\ lock' = None
  /\ UNCHANGED <<log, clientVars, server, epoch, running, queue, reading>>

HandleUnlock(c) ==
  LET r == Head(chan[c]).req IN
  /\ Receive(c, "unlock")
  /\ IF lock = r
       THEN /\ Consume(c)
            /\ ReleaseStream(r)
            /\ Demonitor(r)
            /\ lock' = None
            /\ server' = "dequeue"
            /\ UNCHANGED <<running, queue>>
       ELSE Stop("crashed") /\ UNCHANGED open
  /\ UNCHANGED <<log, clientVars, epoch, reading>>

\* handle_info({:DOWN, ref, _, _, _}): the same on behalf of a dead client,
\* whose monitor has fired.  DOWN is the last signal of its sender.
HandleDown(r) ==
  /\ server = "receive"
  /\ r \in down
  /\ chan[From(r)] = <<>>
  /\ IF lock = r
       THEN /\ down' = down \ {r}
            /\ ReleaseStream(r)
            /\ lock' = None
            /\ server' = "dequeue"
            /\ UNCHANGED <<chan, running, queue, monitors>>
       ELSE Stop("crashed") /\ UNCHANGED open
  /\ UNCHANGED <<log, clientVars, epoch, reading>>

\* maybe_dequeue, one turn of its loop.  A taken lock or an empty queue ends
\* it; else the NIF calls of the first request begin.  Mutant: the lock is
\* not looked at.
MayDequeue_AnyLock == queue # <<>>

MayDequeue == lock = None /\ queue # <<>>

EndDequeue ==
  /\ server = "dequeue"
  /\ ~MayDequeue
  /\ server' = "receive"
  /\ UNCHANGED <<log, clientVars, chan, down, epoch, running, queue, lockVars,
                 streamVars>>

Dequeue ==
  /\ server = "dequeue"
  /\ MayDequeue
  /\ running' = Head(queue)
  /\ queue' = Tail(queue)
  /\ server' = "execute"
  /\ UNCHANGED <<log, clientVars, chan, down, epoch, lockVars, streamVars>>

\* handle_command: the NIF calls succeed or fail, the caller is told so
\* either way (no one is when the garbage collector asked), and the loop
\* goes on.
HandleCommand ==
  /\ server = "execute"
  /\ log[running].kind \in {CommandKind, GcKind}
  /\ \E a \in {"ok", "error"} : Reply(running, a)
  /\ running' = None
  /\ server' = "dequeue"
  /\ UNCHANGED <<log, pc, cur, chan, down, epoch, queue, lockVars, streamVars>>

\* handle_stream fails: the caller is told so and the loop goes on.
\* Mutant: the loop ends, as it does when the stream succeeds.
HandleStreamError_EndsLoop ==
  /\ server = "execute"
  /\ log[running].kind \in StreamKinds
  /\ Reply(running, "error")
  /\ running' = None
  /\ server' = "receive"
  /\ UNCHANGED <<log, pc, cur, chan, down, epoch, queue, lockVars, streamVars>>

HandleStreamError ==
  /\ server = "execute"
  /\ log[running].kind \in StreamKinds
  /\ Reply(running, "error")
  /\ running' = None
  /\ server' = "dequeue"
  /\ UNCHANGED <<log, pc, cur, chan, down, epoch, queue, lockVars, streamVars>>

\* handle_stream succeeds: the caller is monitored (the monitor of a dead
\* process fires at once), gets the stream and has the lock.
HandleStream ==
  /\ server = "execute"
  /\ log[running].kind \in StreamKinds
  /\ open' = open \union {running}
  /\ Monitor(running)
  /\ Reply(running, "ok")
  /\ lock' = running
  /\ running' = None
  /\ server' = "receive"
  /\ UNCHANGED <<log, pc, cur, chan, epoch, queue, reading>>

\* The NIF of an option returns and the server replies.
OptionReturns ==
  /\ server = "option"
  /\ \E a \in {"ok", "error"} : Reply(running, a)
  /\ running' = None
  /\ server' = "receive"
  /\ UNCHANGED <<log, pc, cur, chan, down, epoch, queue, lockVars, streamVars>>

\* The server is terminated at any point: it is linked to its database and
\* supervised, and it does not trap exits.
Terminate ==
  /\ ServerAlive
  /\ Stop("terminated")
  /\ UNCHANGED <<log, clientVars, epoch, streamVars>>

\* The supervisor starts a new server, with a connection of its own.
Restart ==
  /\ ~ServerAlive
  /\ epoch < MaxRestarts
  /\ epoch' = epoch + 1
  /\ server' = "receive"
  /\ UNCHANGED <<log, clientVars, chan, down, running, queue, lockVars,
                 streamVars>>

\* A stream that nothing refers to is garbage: the destructor of its resource
\* releases it.  The server refers to it through the lock, and a call of
\* adbc_arrow_array_stream_next through its argument.  Mutant: the lock of
\* the server is the unlock_ref alone.
Referenced_NotByLock(r) ==
  \/ r \in reading /\ log[r].kind = StreamKind
  \/ \E c \in Clients : Refers(c, r)

Referenced(r) ==
  \/ lock = r
  \/ r \in reading /\ log[r].kind = StreamKind
  \/ \E c \in Clients : Refers(c, r)

CollectStream(r) ==
  /\ r \in open
  /\ ~Referenced(r)
  /\ open' = open \ {r}
  /\ UNCHANGED <<log, clientVars, chan, down, server, epoch, running, queue,
                 lockVars, reading>>

-----------------------------------------------------------------------------
ClientStep(c) ==
  \/ \E kind \in CallKinds : Call(c, kind)
  \/ ReceiveReply(c)
  \/ CallExits(c)
  \/ OptionTimeout(c)
  \/ ReadNext(c)
  \/ Unlock(c)
  \/ Kill(c)

ServerLoop ==
  \/ EndDequeue
  \/ Dequeue
  \/ HandleCommand
  \/ HandleStreamError
  \/ HandleStream
  \/ OptionReturns

Next ==
  \/ \E c \in Clients : ClientStep(c)
  \/ ExecuteOnGc
  \/ \E s \in Senders : Enqueue(s)
  \/ \E c \in Clients : HandleOption(c) \/ HandleUnlock(c)
  \/ \E r \in DOMAIN log : HandleDown(r)
  \/ ServerLoop
  \/ Terminate
  \/ Restart
  \/ \E r \in DOMAIN log : ReadReturns(r) \/ CollectStream(r)

Spec == Init /\ [][Next]_vars

\* Every message sent is received and every NIF call returns: the mailbox is
\* a queue and the server handles one message after the other.  The function
\* that reads a stream ends (it reads a finite stream).  Nothing makes a
\* client call, time out or die, a supervisor restart the server, or the
\* garbage collector run.
Fairness ==
  /\ WF_vars(ServerLoop)
  /\ SF_vars(\E r \in DOMAIN log : HandleDown(r))
  /\ WF_vars(\E r \in DOMAIN log : ReadReturns(r))
  /\ \A c \in Clients :
       /\ SF_vars(Enqueue(c) \/ HandleOption(c) \/ HandleUnlock(c))
       /\ WF_vars(ReceiveReply(c) \/ CallExits(c))
       /\ SF_vars(Unlock(c))

FairSpec == Spec /\ Fairness

-----------------------------------------------------------------------------
(* Properties.                                                             *)

\* A signal from s of the given type about request r is under way.
UnderWay(s, signal) ==
  \E i \in DOMAIN chan[s] : chan[s][i] = signal

\* The server never meets an unlock or a DOWN for a lock that is not the
\* current one: handle_cast and handle_info have no clause for it, and the
\* crash would take down every caller in the queue.  It rests on the order
\* of signals, on demonitor's flush and on one monitor per lock.
NoStaleSignal == server # "crashed"

\* As long as the function that reads a stream runs in a live client, the
\* stream is not released, whatever happens to the server and to the other
\* clients.  For query_pointer it is so as long as the server lives.
StreamValidInCallback ==
  \A c \in Clients :
    InCallback(c) /\ (log[cur[c]].kind = StreamKind \/ Current(cur[c]))
      => cur[c] \in open

\* While a client of the current server is inside that function, the lock is
\* its own and no queued request executes.
ExclusiveCallback ==
  \A c \in Clients :
    InCallback(c) /\ Current(cur[c])
      => lock = cur[c] /\ server # "execute"

\* Of the streams of the current connection only the locked one is open.
OneOpenStream == \A r \in open : Current(r) => lock = r

\* The lock is never lost: the client that will give it back is alive, or
\* its unlock or its DOWN is under way.
LockWillBeReleased ==
  lock # None =>
    \/ \E c \in Clients :
         /\ cur[c] = lock
         /\ InCallback(c) \/ (pc[c] = "calling" /\ answer[c] = "ok")
    \/ UnderWay(From(lock), Unlocking(lock))
    \/ lock \in down

\* A request is never lost: that of a client that waits for its reply is on
\* its way to the server, in its queue, or being served.
NoLostRequest ==
  \A c \in Clients :
    pc[c] = "calling" /\ answer[c] = "none" /\ Current(cur[c]) =>
      \/ UnderWay(c, Request(cur[c]))
      \/ \E i \in DOMAIN queue : queue[i] = cur[c]
      \/ running = cur[c]

\* The server never waits for a message while its lock is free and requests
\* are in its queue: nothing would make it look at them.  Every path that
\* frees the lock or finishes a request has to go on with the queue.
NoIdleQueue ==
  server \in {"receive", "option"} /\ lock = None => queue = <<>>

\* Every call returns: to an answer, or to the exit of the server.
EveryCallReturns ==
  \A c \in Clients : pc[c] = "calling" ~> pc[c] # "calling"

\* The request being served, and the requests that have arrived or were lost.
Active == IF server = "execute" THEN running ELSE lock

Seen == {r \in DOMAIN log :
           /\ log[r].kind # OptionKind
           /\ ~UnderWay(From(r), Request(r))}

\* The server serves one request at a time, in the order of arrival.
Service ==
  INSTANCE ConnectionService WITH
    Ids <- Ids,
    None <- None,
    waiting <- queue,
    active <- Active,
    seen <- Seen

ServesInOrder == Service!Spec

\* "In general, objects allow serialized access from multiple threads, but
\* not concurrent access" (adbc.h): the server does not call an option
\* function of the connection while a client reads one of its streams.
OptionsAreSerialized ==
  server = "option" => \A r \in reading : ~Current(r)

\* The same for a stream: it is not released while a thread is inside
\* adbc_arrow_array_stream_next for it.
ReleasesAreSerialized ==
  \A r \in reading : log[r].kind = StreamKind => r \in open

\* "The Adbc.StreamResult holds a pointer to a valid ArrowStream through the
\* duration of the function" (query_pointer).
PointerValidInCallback ==
  \A c \in Clients : InCallback(c) => cur[c] \in open
=============================================================================
