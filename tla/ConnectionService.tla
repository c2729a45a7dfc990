------------------------- MODULE ConnectionService -------------------------
(***************************************************************************)
(* What a connection process promises to the processes that call it: the   *)
(* requests that reach it are served strictly one at a time and in the     *)
(* order in which they arrived, each of them at most once.  A request that *)
(* yields a stream is served until the stream is given back, by the        *)
(* process that reads it or by the death of that process.  When the        *)
(* connection process itself dies, everything it had accepted is           *)
(* forgotten at once.                                                      *)
(*                                                                         *)
(* Connection.tla is shown to implement this specification.                *)
(***************************************************************************)
EXTENDS Naturals, Sequences

CONSTANTS
  Ids,   \* the identities of requests
  None   \* no request, none of Ids

VARIABLES
  waiting,  \* the requests that have arrived and are not served yet
  active,   \* the request being served, or None
  seen      \* every request that has arrived, or was lost on its way

vars == <<waiting, active, seen>>

Init ==
  /\ waiting = <<>>
  /\ active = None
  /\ seen = {}

\* A request arrives: it takes its place behind all those that wait.
Arrive(r) ==
  /\ r \in Ids \ seen
  /\ seen' = seen \union {r}
  /\ waiting' = Append(waiting, r)
  /\ UNCHANGED active

\* The request that has waited longest is served, if no other is.
Start ==
  /\ active = None
  /\ waiting # <<>>
  /\ active' = Head(waiting)
  /\ waiting' = Tail(waiting)
  /\ UNCHANGED seen

\* The request being served is answered, or its stream is given back.
Finish ==
  /\ active # None
  /\ active' = None
  /\ UNCHANGED <<waiting, seen>>

\* The connection process dies, and with it whatever it had accepted or was
\* still to receive.
Fail ==
  /\ waiting' = <<>>
  /\ active' = None
  /\ seen' \in SUBSET Ids
  /\ seen \subseteq seen'

Next ==
  \/ \E r \in Ids : Arrive(r)
  \/ Start
  \/ Finish
  \/ Fail

Spec == Init /\ [][Next]_vars
=============================================================================
