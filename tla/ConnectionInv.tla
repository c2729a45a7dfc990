---------------------------- MODULE ConnectionInv ----------------------------
(***************************************************************************)
(* An inductive invariant of Connection.  It relates the lock of the       *)
(* server to the signals under way and to the states of the clients:       *)
(* whatever speaks of a lock speaks of the current one.  ConnectionProofs  *)
(* proves it for every number of clients, requests and restarts.           *)
(***************************************************************************)
EXTENDS Connection

\* A client that waits for a reply or reads a stream does so for a request
\* of its own; replies are under way to waiting clients only.
ClientsInv ==
  \A c \in Clients :
    /\ pc[c] \in {"calling", "callback", "in_nif"} =>
         cur[c] \in DOMAIN log /\ From(cur[c]) = c
    /\ InCallback(c) => log[cur[c]].kind \in StreamKinds
    /\ pc[c] # "calling" => answer[c] = "none"

\* Requests come from clients, but for those of the garbage collector, and
\* from no future incarnation of the server.
LogInv ==
  \A r \in DOMAIN log :
    /\ log[r].kind # GcKind => From(r) \in Clients
    /\ log[r].epoch <= epoch

\* What the server still has to do was asked of its present incarnation.
EpochInv ==
  /\ \A s \in Senders : \A i \in DOMAIN chan[s] :
       log[chan[s][i].req].epoch = epoch
  /\ \A i \in DOMAIN queue : log[queue[i]].epoch = epoch
  /\ running # None => log[running].epoch = epoch
  /\ lock # None => log[lock].epoch = epoch /\ From(lock) \in Clients

\* Where the server is determines what it holds.
ServerInv ==
  /\ server \in {"execute", "option"} <=> running # None
  /\ server = "execute" => lock = None
  /\ server = "option" => log[running].kind = OptionKind
  /\ server = "execute" => log[running].kind # OptionKind
  /\ \A i \in DOMAIN queue : log[queue[i]].kind # OptionKind
  /\ ~ServerAlive => lock = None /\ queue = <<>> /\ \A s \in Senders : chan[s] = <<>>

\* An unlock under way is for the lock, comes from its owner, which neither
\* reads the stream nor is about to, and is the only one.
UnlockInv ==
  \A s \in Senders : \A i \in DOMAIN chan[s] :
    chan[s][i].type = "unlock" =>
      /\ s \in Clients
      /\ lock = chan[s][i].req
      /\ From(lock) = s
      /\ cur[s] = lock => ~InCallback(s) /\ pc[s] # "calling"
      /\ \A j \in DOMAIN chan[s] : chan[s][j].type = "unlock" => j = i

\* So is a monitor: it watches the owner of the lock, and its DOWN signal is
\* under way if that owner is dead.
MonitorInv ==
  /\ \A r \in down : lock = r /\ pc[From(r)] = "dead" /\ r \notin monitors
  /\ \A r \in monitors : lock = r /\ pc[From(r)] # "dead"

\* A client reads a stream, or is about to.
Holds(c) ==
  \/ InCallback(c)
  \/ /\ pc[c] = "calling"
     /\ answer[c] = "ok"
     /\ log[cur[c]].kind \in StreamKinds

\* A client of this server that reads a stream, or is about to, has the lock.
HolderInv ==
  \A c \in Clients : Holds(c) /\ Current(cur[c]) => lock = cur[c]

\* The locked stream is open, and so is a stream some client refers to.
StreamInv ==
  /\ lock # None => lock \in open
  /\ \A r \in open : Current(r) => lock = r
  /\ \A c \in Clients :
       Holds(c) /\ log[cur[c]].kind = StreamKind => cur[c] \in open

\* The inductive invariant.
IInv ==
  /\ TypeOK
  /\ ClientsInv
  /\ LogInv
  /\ EpochInv
  /\ ServerInv
  /\ UnlockInv
  /\ MonitorInv
  /\ HolderInv
  /\ StreamInv
  /\ NoStaleSignal

-----------------------------------------------------------------------------
(* What IInv leaves open about the requests on their way to the lock.      *)

\* The lock was granted for a stream, and someone watches its owner.
LockInv ==
  lock # None =>
    /\ log[lock].kind \in StreamKinds
    /\ lock \in monitors \union down

\* The server executes r, or has it in its queue.
Accepted(r) == running = r \/ \E i \in DOMAIN queue : queue[i] = r

\* A request is in one place only: it is sent once, by its sender, is put in
\* the queue once, and is gone from there when it is executed.
OnceInv ==
  /\ \A s \in Senders : \A i \in DOMAIN chan[s] :
       chan[s][i].type = "request" =>
         /\ From(chan[s][i].req) = s
         /\ ~Accepted(chan[s][i].req)
         /\ \A j \in DOMAIN chan[s] : chan[s][j] = chan[s][i] => j = i
  /\ \A i, j \in DOMAIN queue : queue[i] = queue[j] => i = j
  /\ \A i \in DOMAIN queue : queue[i] # running

\* Request r is on its way to the server, or the server still has to answer.
Pending(r) == UnderWay(From(r), Request(r)) \/ Accepted(r)

\* Whoever asked for a stream or a command waits until it is answered, or
\* dies: no timeout makes it go on before.
WaitsInv ==
  \A r \in DOMAIN log :
    /\ Pending(r)
    /\ log[r].kind # OptionKind
    /\ From(r) \in Clients
    /\ pc[From(r)] # "dead"
    => /\ pc[From(r)] = "calling"
       /\ cur[From(r)] = r
       /\ answer[From(r)] = "none"

\* The inductive invariant of the requests.
RequestInv ==
  /\ IInv
  /\ LockInv
  /\ OnceInv
  /\ WaitsInv
=============================================================================
