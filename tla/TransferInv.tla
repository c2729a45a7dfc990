---------------------------- MODULE TransferInv ----------------------------
(***************************************************************************)
(* An inductive invariant of Transfer.  It ties the locks to the streams   *)
(* the clients hold, and the requests of the connections to the calls of   *)
(* the clients: a client that lives gives a lock back only when none of    *)
(* its calls is under way.  TransferProofs proves it for every number of   *)
(* clients, connections and requests.                                      *)
(***************************************************************************)
EXTENDS Transfer

\* The requests connection k has to answer.
Accepted(k) == Range(queue[k]) \union ({running[k]} \ {None})

\* The sender of request r waits for its answer.
Awaited(r) == pc[From(r)] = "calling" /\ cur[From(r)] = r

\* A connection has a request once, and that of a client that lives is one
\* the client waits for.
AcceptedInv ==
  \A k \in Conns :
    /\ \A r \in Accepted(k) : To(r) = k /\ (pc[From(r)] = "dead" \/ Awaited(r))
    /\ IsInjective(queue[k])
    /\ running[k] \notin Range(queue[k])

\* No request executes while the lock is taken, and who took it reads the
\* stream or is dead.
LockInv ==
  \A k \in Conns :
    /\ running[k] # None => lock[k] = None
    /\ lock[k] # None =>
         /\ To(lock[k]) = k
         /\ pc[From(lock[k])] = "dead" \/ lock[k] \in Range(held[From(lock[k])])

\* The streams a client reads have their locks.
HeldInv ==
  \A c \in Clients :
    /\ pc[c] = "dead" => held[c] = <<>>
    /\ IsInjective(held[c])
    /\ \A h \in Range(held[c]) : From(h) = c /\ lock[To(h)] = h

\* A client that waits for a connection may call it from where it is.
CallInv ==
  \A c \in Clients :
    pc[c] = "calling" =>
      /\ cur[c] # None
      /\ From(cur[c]) = c
      /\ \A h \in Range(held[c]) : Nests(h, To(cur[c]))

\* A transfer is made by a client that reads the stream: the query for that
\* stream is answered, and will not open it again.
SourceInv ==
  \A t \in DOMAIN log :
    log[t].kind = "transfer" =>
      /\ Source(t) \in DOMAIN log
      /\ Awaited(t) => Source(t) \in Range(held[From(t)])
      /\ \A k \in Conns : Source(t) \notin Accepted(k)

\* A stream that a statement has bound was moved there.
BoundInv ==
  \A t \in bound : log[t].kind = "transfer" /\ Source(t) \notin open

\* A request uses the connection it is sent to, or one that prepared for it.
OnInv ==
  \A r \in DOMAIN log : log[r].on = To(r) \/ <<To(r), log[r].on>> \in Prepared

\* The inductive invariant.
IInv ==
  /\ TypeOK
  /\ AcceptedInv
  /\ LockInv
  /\ HeldInv
  /\ CallInv
  /\ SourceInv
  /\ BoundInv
  /\ OnInv
=============================================================================
