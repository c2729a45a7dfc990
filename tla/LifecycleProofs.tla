-------------------------- MODULE LifecycleProofs --------------------------
(***************************************************************************)
(* Proofs about Lifecycle: whatever starts and ends, a connection that     *)
(* serves has a database that will take it down, for any number of         *)
(* connections and of restarts.                                            *)
(***************************************************************************)
EXTENDS Lifecycle, SequenceTheorems, TLAPS

\* The calls the database has still to answer.
Unanswered(m) ==
  \/ \E n \in DOMAIN inbox : inbox[n] = m
  \/ db # Idle /\ db # Down /\ db.call = m

\* A call that is waited for was made to this database, no call is from a
\* process that is still to be started, and the process whose call the database
\* has linked to, if it waits, is linked.
CallsInv ==
  /\ \A m \in Pids :
       Unanswered(m) =>
         /\ m.start <= starts[m.conn]
         /\ Waits(m) => calls[m.conn] = Epoch
  /\ db # Down /\ db.at = "linked" /\ Waits(db.call) => db.call.conn \in links
  /\ db = Down => inbox = <<>>

\* Processes that were started have called a database, and the database that
\* is up is within the bound.
StartsInv ==
  /\ \A i \in Conns : conn[i] # "down" => calls[i] >= 1
  /\ db # Down /\ MaxStarts > 0 => Epoch <= MaxStarts

\* The inductive invariant.
IInv ==
  /\ TypeOK
  /\ CallsInv
  /\ StartsInv
  /\ ServingHasDatabase

-----------------------------------------------------------------------------
\* The shapes of the database's state.
LEMMA DbFacts ==
  ASSUME TypeOK
  PROVE  /\ Epoch \in Nat \ {0}
         /\ db # Down /\ db # Idle =>
              /\ db.at \in {"initialized", "linked"}
              /\ db.call \in Pids
         /\ db.at \in {"initialized", "linked"} => db # Down /\ db # Idle
         /\ Down # Idle
         /\ \A at, m : Busy(at, m) # Idle /\ Busy(at, m) # Down
         /\ \A at, m : Busy(at, m).at = at /\ Busy(at, m).call = m
         /\ Idle.at = "idle"
         /\ Idle \in DbStates /\ Down \in DbStates
         /\ \A m \in Pids : /\ Busy("initialized", m) \in DbStates
                           /\ Busy("linked", m) \in DbStates
<1>1. ends \in Seq(Reasons)
  BY DEF TypeOK
<1>2. Epoch \in Nat \ {0}
  BY <1>1 DEF Epoch
<1>3. \A at, m : /\ "call" \in DOMAIN Busy(at, m)
                 /\ Busy(at, m).at = at
                 /\ Busy(at, m).call = m
  BY DEF Busy
<1>4. "call" \notin DOMAIN Idle /\ "call" \notin DOMAIN Down
  BY DEF Idle, Down
<1>5. Idle.at = "idle" /\ Down.at = "down" /\ Down # Idle
  BY DEF Idle, Down
<1>6. /\ \A at, m : Busy(at, m) # Idle /\ Busy(at, m) # Down
      /\ \A at, m : Busy(at, m).at = at /\ Busy(at, m).call = m
  BY <1>3, <1>4
<1>7. \/ db = Idle \/ db = Down
      \/ \E at \in {"initialized", "linked"}, m \in Pids : db = Busy(at, m)
  BY DEF TypeOK, DbStates
<1>8. /\ Idle \in DbStates /\ Down \in DbStates
      /\ \A m \in Pids : /\ Busy("initialized", m) \in DbStates
                        /\ Busy("linked", m) \in DbStates
  BY DEF DbStates
<1> QED
  BY <1>2, <1>5, <1>6, <1>7, <1>8

\* The call that is handled next, and those after it, were unanswered.
LEMMA HeadFacts ==
  ASSUME TypeOK, inbox # <<>>
  PROVE  /\ Head(inbox) \in Pids
         /\ Tail(inbox) \in Seq(Pids)
         /\ Unanswered(Head(inbox))
         /\ \A m : (\E n \in DOMAIN Tail(inbox) : Tail(inbox)[n] = m) => Unanswered(m)
<1>1. inbox \in Seq(Pids)
  BY DEF TypeOK
<1>2. /\ Tail(inbox) \in Seq(Pids)
      /\ Head(inbox) \in Pids
      /\ Head(inbox) = inbox[1] /\ 1 \in DOMAIN inbox
      /\ \A n \in DOMAIN Tail(inbox) :
           n + 1 \in DOMAIN inbox /\ Tail(inbox)[n] = inbox[n + 1]
  BY <1>1, HeadTailProperties, LenProperties
<1> QED
  BY <1>2, Zenon DEF Unanswered

-----------------------------------------------------------------------------
(* Type correctness.                                                       *)

\* What an end of the database changes.
LEMMA EndTyped ==
  ASSUME TypeOK, NEW reason \in Reasons, End(reason)
  PROVE  /\ ends' \in Seq(Reasons)
         /\ db' = Down
         /\ inbox' = <<>>
         /\ links' = {}
         /\ exits' \subseteq Conns
         /\ Epoch' = Epoch + 1
<1>1. ends \in Seq(Reasons)
  BY DEF TypeOK
<1> QED
  BY <1>1 DEF End, TypeOK, Epoch

LEMMA DatabaseTyped ==
  ASSUME TypeOK, HandleCall \/ EndDatabase \/ StartDatabase
  PROVE  TypeOK'
<1> USE DbFacts
<1>1. CASE InitializeConnection
  <2>1. db' = Busy("initialized", Head(inbox)) /\ Head(inbox) \in Pids
    BY <1>1, HeadFacts DEF InitializeConnection
  <2>2. db' \in DbStates
    BY <2>1
  <2> QED
    BY <1>1, <2>2, HeadFacts DEF InitializeConnection, connVars, TypeOK
<1>2. CASE InitializeFails
  <2>1. /\ conn' = conn \/ conn' = [conn EXCEPT ![Head(inbox).conn] = "down"]
        /\ inbox' = Tail(inbox) /\ inbox # <<>>
        /\ UNCHANGED <<ends, db, starts, calls, links, exits>>
    BY <1>2 DEF InitializeFails, Goes
  <2>2. Tail(inbox) \in Seq(Pids) /\ Head(inbox).conn \in Conns
    BY <2>1, HeadFacts DEF Pids
  <2>3. conn' \in [Conns -> {"down", "starting", "serving"}]
    BY <2>1, <2>2, ZenonT(30) DEF TypeOK
  <2> QED
    BY <2>1, <2>2, <2>3 DEF TypeOK
<1>3. CASE LinkConnection
  <2>1. db.call \in Pids /\ db.call.conn \in Conns
    BY <1>3 DEF LinkConnection, Pids
  <2>2. /\ db' = Busy("linked", db.call)
        /\ links' \subseteq Conns
        /\ UNCHANGED <<ends, inbox, exits, connVars>>
    BY <1>3, <2>1 DEF LinkConnection, TypeOK
  <2>3. db' \in DbStates
    BY <2>1, <2>2
  <2> QED
    BY <2>2, <2>3 DEF connVars, TypeOK
<1>4. CASE ReplyInitialized
  <2>1. /\ conn' = conn \/ conn' = [conn EXCEPT ![db.call.conn] = "serving"]
        /\ db' = Idle /\ db.call \in Pids
        /\ UNCHANGED <<ends, inbox, starts, calls, links, exits>>
    BY <1>4 DEF ReplyInitialized, Goes
  <2>2. conn' \in [Conns -> {"down", "starting", "serving"}]
    BY <2>1, ZenonT(30) DEF TypeOK, Pids
  <2> QED
    BY <2>1, <2>2 DEF TypeOK
<1>5. CASE EndDatabase
  <2>1. PICK reason \in Reasons : End(reason)
    BY <1>5 DEF EndDatabase
  <2>2. /\ ends' \in Seq(Reasons)
        /\ db' = Down /\ inbox' = <<>> /\ links' = {} /\ exits' \subseteq Conns
    BY <2>1, EndTyped
  <2>3. UNCHANGED <<conn, starts, calls>>
    BY <1>5 DEF EndDatabase, connVars
  <2> QED
    BY <2>2, <2>3 DEF TypeOK
<1>6. CASE StartDatabase
  BY <1>6 DEF StartDatabase, connVars, TypeOK
<1> QED
  BY <1>1, <1>2, <1>3, <1>4, <1>5, <1>6 DEF HandleCall

LEMMA ConnectionTyped ==
  ASSUME TypeOK, StartsInv, NEW i \in Conns,
         StartConnection(i) \/ CallExits(i) \/ EndConnection(i) \/ ReceiveExit(i)
  PROVE  TypeOK'
<1> USE ConstantsAssumption
<1>1. CASE StartConnection(i)
  <2> DEFINE m == [conn |-> i, start |-> starts[i] + 1]
  <2>1. starts[i] \in 0..MaxStarts /\ starts[i] < MaxStarts
    BY <1>1 DEF StartConnection, TypeOK
  <2>2. m \in Pids /\ starts[i] + 1 \in 0..MaxStarts
    BY <2>1 DEF Pids
  <2>3. Epoch \in 0..MaxStarts
    BY <1>1, <2>1, DbFacts DEF StartConnection, StartsInv
  <2>4. inbox' = Append(inbox, m) /\ inbox \in Seq(Pids)
    BY <1>1 DEF StartConnection, TypeOK
  <2>5. inbox' \in Seq(Pids)
    BY <2>2, <2>4, AppendProperties, LenProperties
  <2> QED
    BY <1>1, <2>2, <2>3, <2>5 DEF StartConnection, Goes, TypeOK
<1>2. CASE CallExits(i)
  BY <1>2 DEF CallExits, Goes, dbVars, TypeOK
<1>3. CASE EndConnection(i)
  BY <1>3 DEF EndConnection, Goes, dbVars, TypeOK
<1>4. CASE ReceiveExit(i)
  BY <1>4 DEF ReceiveExit, Goes, dbVars, TypeOK
<1> QED
  BY <1>1, <1>2, <1>3, <1>4

-----------------------------------------------------------------------------
(* The calls to the database.                                              *)

\* A step that sends no call and starts nothing keeps what is said of those
\* that are left.
LEMMA CallsKept ==
  ASSUME CallsInv, UNCHANGED <<ends, starts, calls>>,
         \A m \in Pids : Waits(m)' => Waits(m),
         \A m \in Pids : Unanswered(m)' => Unanswered(m)
  PROVE  \A m \in Pids :
           Unanswered(m)' =>
             /\ m.start <= starts'[m.conn]
             /\ Waits(m)' => calls'[m.conn] = Epoch'
BY DEF CallsInv, Epoch

\* A connection that goes anywhere else does not wait.
LEMMA GoneWaits ==
  ASSUME TypeOK, NEW i \in Conns, NEW to \in {"down", "serving"},
         Goes(i, to) \/ UNCHANGED conn, UNCHANGED starts
  PROVE  \A m \in Pids : Waits(m)' => Waits(m) /\ (Goes(i, to) => m.conn # i)
BY DEF TypeOK, Goes, Waits, Pids

\* Nobody is left to answer when the database ends.
LEMMA EndCalls ==
  ASSUME TypeOK, NEW reason \in Reasons, End(reason)
  PROVE  CallsInv'
<1>1. db' = Down /\ inbox' = <<>>
  BY DEF End
<1>2. \A m \in Pids : ~Unanswered(m)'
  BY <1>1 DEF Unanswered
<1> QED
  BY <1>1, <1>2 DEF CallsInv

LEMMA DatabaseCalls ==
  ASSUME TypeOK, CallsInv, HandleCall \/ EndDatabase \/ StartDatabase
  PROVE  CallsInv'
<1> USE DbFacts
<1>1. CASE InitializeConnection
  <2>1. /\ db' = Busy("initialized", Head(inbox))
        /\ inbox' = Tail(inbox) /\ inbox # <<>>
        /\ UNCHANGED <<ends, conn, starts, calls>>
    BY <1>1 DEF InitializeConnection, connVars
  <2>2. \A m \in Pids : Unanswered(m)' => Unanswered(m)
    BY <2>1, HeadFacts DEF Unanswered
  <2>3. \A m \in Pids : Waits(m)' => Waits(m)
    BY <2>1 DEF Waits
  <2>4. db' # Down /\ db'.at # "linked"
    BY <2>1
  <2> QED
    BY <2>1, <2>2, <2>3, <2>4, CallsKept DEF CallsInv
<1>2. CASE InitializeFails
  <2>1. /\ db' = db /\ db = Idle
        /\ inbox' = Tail(inbox) /\ inbox # <<>>
        /\ UNCHANGED <<ends, starts, calls>>
        /\ Goes(Head(inbox).conn, "down") \/ UNCHANGED conn
    BY <1>2 DEF InitializeFails
  <2>2. \A m \in Pids : Unanswered(m)' => Unanswered(m)
    BY <2>1, HeadFacts DEF Unanswered
  <2>3. \A m \in Pids : Waits(m)' => Waits(m)
    BY <2>1, HeadFacts, GoneWaits DEF Pids
  <2> QED
    BY <2>1, <2>2, <2>3, CallsKept DEF CallsInv
<1>3. CASE LinkConnection
  <2>1. /\ db.at = "initialized" /\ db.call \in Pids
        /\ db' = Busy("linked", db.call)
        /\ links' = links \union {i \in {db.call.conn} : Alive(db.call)}
        /\ UNCHANGED <<ends, inbox, conn, starts, calls>>
    BY <1>3 DEF LinkConnection, connVars
  <2>2. \A m \in Pids : Unanswered(m)' => Unanswered(m)
    BY <2>1 DEF Unanswered
  <2>3. \A m \in Pids : Waits(m)' => Waits(m) /\ Alive(m)
    BY <2>1 DEF Waits, Alive
  <2>4. db'.call = db.call /\ db' # Down
    BY <2>1
  <2> QED
    BY <2>1, <2>2, <2>3, <2>4, CallsKept DEF CallsInv
<1>4. CASE ReplyInitialized
  <2>1. /\ db.call \in Pids /\ db' = Idle
        /\ UNCHANGED <<ends, inbox, starts, calls>>
        /\ Goes(db.call.conn, "serving") \/ UNCHANGED conn
    BY <1>4 DEF ReplyInitialized
  <2>2. \A m \in Pids : Unanswered(m)' => Unanswered(m)
    BY <2>1 DEF Unanswered
  <2>3. \A m \in Pids : Waits(m)' => Waits(m)
    BY <2>1, GoneWaits DEF Pids
  <2> QED
    BY <2>1, <2>2, <2>3, CallsKept DEF CallsInv
<1>5. CASE EndDatabase
  BY <1>5, EndCalls DEF EndDatabase
<1>6. CASE StartDatabase
  <2>1. /\ db = Down /\ db' = Idle
        /\ UNCHANGED <<ends, inbox, conn, starts, calls>>
    BY <1>6 DEF StartDatabase, connVars
  <2>2. \A m \in Pids : Unanswered(m)' => Unanswered(m)
    BY <2>1 DEF Unanswered
  <2>3. \A m \in Pids : Waits(m)' => Waits(m)
    BY <2>1 DEF Waits
  <2> QED
    BY <2>1, <2>2, <2>3, CallsKept DEF CallsInv
<1> QED
  BY <1>1, <1>2, <1>3, <1>4, <1>5, <1>6 DEF HandleCall

LEMMA ConnectionCalls ==
  ASSUME TypeOK, CallsInv, NEW i \in Conns,
         StartConnection(i) \/ CallExits(i) \/ EndConnection(i) \/ ReceiveExit(i)
  PROVE  CallsInv'
<1>1. CASE StartConnection(i)
  <2> DEFINE c == [conn |-> i, start |-> starts[i] + 1]
  <2>1. /\ db # Down /\ UNCHANGED <<ends, db, links>>
        /\ starts' = [starts EXCEPT ![i] = @ + 1]
        /\ calls' = [calls EXCEPT ![i] = Epoch]
        /\ inbox' = Append(inbox, c)
        /\ conn' = [conn EXCEPT ![i] = "starting"]
    BY <1>1 DEF StartConnection, Goes
  <2>2. /\ starts \in [Conns -> 0..MaxStarts] /\ calls \in [Conns -> 0..MaxStarts]
        /\ conn \in [Conns -> {"down", "starting", "serving"}]
        /\ starts[i] < MaxStarts /\ MaxStarts \in Nat
    BY <1>1, ConstantsAssumption DEF StartConnection, TypeOK
  <2>3. inbox \in Seq(Pids) /\ c \in Pids
    BY <2>2 DEF TypeOK, Pids
  <2>4. \A m \in Pids : Unanswered(m)' => Unanswered(m) \/ m = c
    BY <2>1, <2>3, AppendProperties, LenProperties DEF Unanswered
  <2>5. ASSUME NEW m \in Pids, Unanswered(m)
        PROVE  /\ m.start <= starts'[m.conn]
               /\ Waits(m)' => Waits(m) /\ m.conn # i
    <3>1. m.conn \in Conns /\ m.start \in 1..MaxStarts /\ m.start <= starts[m.conn]
      BY <2>5 DEF CallsInv, Pids
    <3>2. CASE m.conn = i
      <4>1. starts'[i] = starts[i] + 1 /\ m.start # starts'[m.conn]
        BY <2>1, <2>2, <3>1, <3>2
      <4> QED
        BY <2>2, <3>1, <3>2, <4>1 DEF Waits
    <3>3. CASE m.conn # i
      BY <2>1, <2>2, <3>1, <3>3 DEF Waits
    <3> QED
      BY <3>2, <3>3
  <2>6. Epoch' = Epoch /\ calls'[i] = Epoch
    BY <2>1, <2>2 DEF Epoch
  <2>7. \A m \in Pids :
          Unanswered(m)' =>
            /\ m.start <= starts'[m.conn]
            /\ Waits(m)' => calls'[m.conn] = Epoch'
    <3> SUFFICES ASSUME NEW m \in Pids, Unanswered(m)'
                 PROVE  /\ m.start <= starts'[m.conn]
                        /\ Waits(m)' => calls'[m.conn] = Epoch'
      OBVIOUS
    <3>1. CASE m = c
      BY <2>1, <2>2, <2>6, <3>1
    <3>2. CASE Unanswered(m)
      <4>1. m.conn \in Conns
        BY DEF Pids
      <4>2. m.conn # i => calls'[m.conn] = calls[m.conn]
        BY <2>1, <2>2, <4>1
      <4> QED
        BY <2>5, <2>6, <3>2, <4>2 DEF CallsInv
    <3> QED
      BY <2>4, <3>1, <3>2
  <2>8. ASSUME db.at = "linked", Waits(db.call)'
        PROVE  db.call.conn \in links
    <3>1. db.call \in Pids /\ Unanswered(db.call)
      BY <2>1, <2>8, DbFacts DEF Unanswered
    <3> QED
      BY <2>1, <2>5, <2>8, <3>1 DEF CallsInv
  <2>9. db' = db /\ db # Down
    BY <2>1
  <2> QED
    BY <2>1, <2>7, <2>8, <2>9 DEF CallsInv, Waits
<1>2. ASSUME Goes(i, "down"), UNCHANGED <<dbVars, starts, calls>>,
             links \ {i} \subseteq links'
      PROVE  CallsInv'
  <2>1. \A m \in Pids : Unanswered(m)' => Unanswered(m)
    BY <1>2 DEF Unanswered, dbVars
  <2>2. \A m \in Pids : Waits(m)' => Waits(m) /\ m.conn # i
    BY <1>2, GoneWaits
  <2>3. db.at = "linked" => db.call \in Pids
    BY DbFacts
  <2> QED
    BY <1>2, <2>1, <2>2, <2>3, CallsKept DEF CallsInv, dbVars, Waits
<1>3. CASE CallExits(i)
  BY <1>2, <1>3 DEF CallExits
<1>4. CASE EndConnection(i)
  BY <1>2, <1>4 DEF EndConnection
<1>5. CASE ReceiveExit(i)
  BY <1>2, <1>5 DEF ReceiveExit
<1> QED
  BY <1>1, <1>3, <1>4, <1>5

-----------------------------------------------------------------------------
(* Processes that were started, and how databases ended.                   *)

\* Whoever is up has called a database.
LEMMA StartsKept ==
  ASSUME TypeOK, CallsInv, StartsInv, Next
  PROVE  StartsInv'
<1>1. /\ ends \in Seq(Reasons)
      /\ calls \in [Conns -> 0..MaxStarts] /\ starts \in [Conns -> 0..MaxStarts]
      /\ conn \in [Conns -> {"down", "starting", "serving"}]
      /\ MaxStarts \in Nat
  BY ConstantsAssumption DEF TypeOK
<1>2. ASSUME UNCHANGED <<ends, calls>>, db' # Down => db # Down,
             \A i \in Conns : conn'[i] # "down" => conn[i] # "down"
      PROVE  StartsInv'
  BY <1>2 DEF StartsInv, Epoch
<1>3. ASSUME NEW reason \in Reasons, End(reason),
             UNCHANGED connVars
      PROVE  StartsInv'
  BY <1>3 DEF End, connVars, StartsInv
<1>4. CASE HandleCall
  <2>1. CASE InitializeConnection
    BY <1>2, <2>1 DEF InitializeConnection, connVars, Down, Idle
  <2>2. CASE InitializeFails
    <3>1. \A i \in Conns : conn'[i] # "down" => conn[i] # "down"
      BY <1>1, <2>2 DEF InitializeFails, Goes
    <3> QED
      BY <1>2, <2>2, <3>1 DEF InitializeFails
  <2>3. CASE LinkConnection
    <3>1. db # Down /\ UNCHANGED <<ends, connVars>>
      BY <2>3, DbFacts DEF LinkConnection
    <3> QED
      BY <1>2, <3>1 DEF connVars
  <2>4. CASE ReplyInitialized
    <3>1. /\ db # Down /\ UNCHANGED <<ends, calls>>
          /\ \/ Waits(db.call) /\ Goes(db.call.conn, "serving")
             \/ UNCHANGED conn
      BY <2>4, DbFacts DEF ReplyInitialized
    <3>2. \A i \in Conns : conn'[i] # "down" => conn[i] # "down"
      BY <1>1, <3>1 DEF Goes, Waits
    <3> QED
      BY <1>2, <3>1, <3>2
  <2> QED
    BY <1>4, <2>1, <2>2, <2>3, <2>4 DEF HandleCall
<1>5. CASE EndDatabase
  BY <1>3, <1>5 DEF EndDatabase
<1>6. CASE StartDatabase
  <2>1. Epoch <= MaxStarts /\ UNCHANGED <<ends, calls, conn>>
    BY <1>6 DEF StartDatabase, connVars
  <2> QED
    BY <2>1 DEF StartsInv, Epoch
<1>7. ASSUME NEW i \in Conns, StartConnection(i)
      PROVE  StartsInv'
  <2>1. /\ db # Down /\ UNCHANGED <<ends, db>>
        /\ calls' = [calls EXCEPT ![i] = Epoch]
        /\ conn' = [conn EXCEPT ![i] = "starting"]
    BY <1>7 DEF StartConnection, Goes
  <2>2. Epoch >= 1
    BY DbFacts
  <2>3. \A j \in Conns : conn'[j] # "down" => calls'[j] >= 1
    BY <1>1, <2>1, <2>2 DEF StartsInv
  <2> QED
    BY <2>1, <2>3 DEF StartsInv, Epoch
<1>8. ASSUME NEW i \in Conns, CallExits(i) \/ EndConnection(i) \/ ReceiveExit(i)
      PROVE  StartsInv'
  <2>1. Goes(i, "down") /\ UNCHANGED <<dbVars, calls>>
    BY <1>8 DEF CallExits, EndConnection, ReceiveExit
  <2>2. \A j \in Conns : conn'[j] # "down" => conn[j] # "down"
    BY <1>1, <2>1 DEF Goes
  <2> QED
    BY <1>2, <2>1, <2>2 DEF dbVars
<1> QED
  BY <1>4, <1>5, <1>6, <1>7, <1>8 DEF Next

-----------------------------------------------------------------------------
(* Connections that serve.                                                 *)

\* A step that lets nobody serve and takes away neither a link nor a signal of
\* those who do.
LEMMA ServingKept ==
  ASSUME ServingHasDatabase, UNCHANGED <<ends, calls>>,
         \A i \in Conns :
           conn'[i] = "serving" =>
             /\ conn[i] = "serving"
             /\ i \in links => i \in links'
             /\ i \in exits => i \in exits'
  PROVE  ServingHasDatabase'
BY DEF ServingHasDatabase, Epoch

\* The end of a database is on its way to those who were linked to it.
LEMMA ServingEnd ==
  ASSUME TypeOK, StartsInv, ServingHasDatabase, NEW reason \in Reasons,
         End(reason), UNCHANGED connVars
  PROVE  ServingHasDatabase'
<1>1. /\ ends \in Seq(Reasons)
      /\ calls \in [Conns -> 0..MaxStarts] /\ MaxStarts \in Nat
      /\ Epoch = Len(ends) + 1
  BY ConstantsAssumption DEF TypeOK, Epoch
<1>2. /\ ends' = Append(ends, reason)
      /\ Epoch' = Epoch + 1
      /\ exits \subseteq exits'
      /\ reason # "normal" => links \subseteq exits'
      /\ UNCHANGED <<conn, calls>>
  BY EndTyped DEF End, connVars
<1>3. /\ \A e \in DOMAIN ends : ends'[e] = ends[e]
      /\ ends'[Epoch] = reason
      /\ DOMAIN ends = 1..(Epoch - 1)
  BY <1>1, <1>2, AppendProperties, LenProperties
<1> SUFFICES ASSUME NEW i \in Conns, conn[i] = "serving"
             PROVE  \/ i \in exits'
                    \/ calls[i] < Epoch' /\ ends'[calls[i]] = "normal"
  BY <1>2 DEF ServingHasDatabase
<1>4. calls[i] \in Nat /\ calls[i] >= 1
  BY <1>1 DEF StartsInv
<1>5. Epoch \in Nat
  BY DbFacts
<1>6. CASE calls[i] = Epoch /\ i \in links
  <2>1. CASE reason = "normal"
    <3>1. calls[i] = Epoch /\ ends'[Epoch] = "normal"
      BY <1>3, <1>6, <2>1
    <3>2. calls[i] < Epoch'
      BY <1>2, <1>5, <1>6
    <3> QED
      BY <3>1, <3>2, Zenon
  <2>2. CASE reason # "normal"
    BY <1>2, <1>6, <2>2
  <2> QED
    BY <2>1, <2>2
<1>7. CASE i \in exits
  BY <1>2, <1>7
<1>8. CASE calls[i] < Epoch /\ ends[calls[i]] = "normal"
  <2>1. calls[i] \in DOMAIN ends
    BY <1>3, <1>4, <1>5, <1>8
  <2> QED
    BY <1>2, <1>3, <1>4, <1>5, <1>8, <2>1
<1> QED
  BY <1>6, <1>7, <1>8 DEF ServingHasDatabase

LEMMA DatabaseServing ==
  ASSUME TypeOK, CallsInv, StartsInv, ServingHasDatabase,
         HandleCall \/ EndDatabase \/ StartDatabase
  PROVE  ServingHasDatabase'
<1>1. conn \in [Conns -> {"down", "starting", "serving"}]
  BY DEF TypeOK
<1>2. CASE InitializeConnection \/ StartDatabase
  BY <1>2, ServingKept DEF InitializeConnection, StartDatabase, connVars
<1>3. CASE InitializeFails
  <2>1. \A i \in Conns : conn'[i] = "serving" => conn[i] = "serving"
    BY <1>1, <1>3 DEF InitializeFails, Goes
  <2> QED
    BY <1>3, <2>1, ServingKept DEF InitializeFails
<1>4. CASE LinkConnection
  <2>1. UNCHANGED <<ends, exits, connVars>> /\ links \subseteq links'
    BY <1>4 DEF LinkConnection
  <2> QED
    BY <2>1, ServingKept DEF connVars
<1>5. CASE ReplyInitialized
  <2>1. /\ db # Down /\ db # Idle /\ db.at = "linked" /\ db.call \in Pids
        /\ UNCHANGED <<ends, calls, links, exits>>
    BY <1>5, DbFacts DEF ReplyInitialized
  <2>2. CASE UNCHANGED conn
    BY <2>1, <2>2, ServingKept
  <2>3. CASE Waits(db.call) /\ Goes(db.call.conn, "serving")
    <3>1. Unanswered(db.call)
      BY <2>1 DEF Unanswered
    <3>2. calls[db.call.conn] = Epoch /\ db.call.conn \in links
      BY <2>1, <2>3, <3>1 DEF CallsInv
    <3>3. \A i \in Conns :
            conn'[i] = "serving" => conn[i] = "serving" \/ i = db.call.conn
      BY <1>1, <2>3 DEF Goes
    <3> QED
      BY <2>1, <3>2, <3>3 DEF ServingHasDatabase, Epoch
  <2> QED
    BY <1>5, <2>2, <2>3 DEF ReplyInitialized
<1>6. CASE EndDatabase
  BY <1>6, ServingEnd DEF EndDatabase
<1> QED
  BY <1>2, <1>3, <1>4, <1>5, <1>6 DEF HandleCall

LEMMA ConnectionServing ==
  ASSUME TypeOK, ServingHasDatabase, NEW i \in Conns,
         StartConnection(i) \/ CallExits(i) \/ EndConnection(i) \/ ReceiveExit(i)
  PROVE  ServingHasDatabase'
<1>1. /\ conn \in [Conns -> {"down", "starting", "serving"}]
      /\ calls \in [Conns -> 0..MaxStarts]
  BY DEF TypeOK
<1>2. CASE StartConnection(i)
  <2>1. /\ conn' = [conn EXCEPT ![i] = "starting"]
        /\ calls' = [calls EXCEPT ![i] = Epoch]
        /\ UNCHANGED <<ends, links, exits>>
    BY <1>2 DEF StartConnection, Goes
  <2>2. \A j \in Conns :
          conn'[j] = "serving" => conn[j] = "serving" /\ calls'[j] = calls[j]
    BY <1>1, <2>1
  <2> QED
    BY <2>1, <2>2 DEF ServingHasDatabase, Epoch
<1>3. CASE CallExits(i) \/ EndConnection(i) \/ ReceiveExit(i)
  <2>1. /\ conn' = [conn EXCEPT ![i] = "down"]
        /\ UNCHANGED <<ends, calls>>
        /\ links \ {i} \subseteq links' /\ exits \ {i} \subseteq exits'
    BY <1>3 DEF CallExits, EndConnection, ReceiveExit, Goes, dbVars
  <2>2. \A j \in Conns : conn'[j] = "serving" => conn[j] = "serving" /\ j # i
    BY <1>1, <2>1
  <2> QED
    BY <2>1, <2>2, ServingKept
<1> QED
  BY <1>2, <1>3

-----------------------------------------------------------------------------
(* The theorems.                                                           *)

LEMMA InitInv == Init => IInv
<1> SUFFICES ASSUME Init
             PROVE  IInv
  OBVIOUS
<1>1. ends = <<>> /\ db = Idle /\ inbox = <<>>
  BY DEF Init
<1>2. db # Down /\ db.at = "idle" /\ Epoch = 1 /\ Idle \in DbStates
  BY <1>1 DEF Idle, Down, Epoch, DbStates
<1>3. \A m \in Pids : ~Unanswered(m)
  BY <1>1 DEF Unanswered
<1>4. TypeOK
  BY <1>1, <1>2, ConstantsAssumption DEF Init, TypeOK
<1>5. CallsInv
  BY <1>1, <1>2, <1>3 DEF CallsInv
<1>6. StartsInv
  BY <1>2, ConstantsAssumption DEF Init, StartsInv
<1>7. ServingHasDatabase
  BY <1>1 DEF Init, ServingHasDatabase
<1> QED
  BY <1>4, <1>5, <1>6, <1>7 DEF IInv

LEMMA NextInv == IInv /\ [Next]_vars => IInv'
<1> SUFFICES ASSUME IInv, [Next]_vars
             PROVE  IInv'
  OBVIOUS
<1>1. CASE Next
  <2>1. StartsInv'
    BY <1>1, StartsKept DEF IInv
  <2>2. CASE HandleCall \/ EndDatabase \/ StartDatabase
    BY <2>1, <2>2, DatabaseTyped, DatabaseCalls, DatabaseServing DEF IInv
  <2>3. ASSUME NEW i \in Conns,
               StartConnection(i) \/ CallExits(i) \/ EndConnection(i)
                 \/ ReceiveExit(i)
        PROVE  IInv'
    BY <2>1, <2>3, ConnectionTyped, ConnectionCalls, ConnectionServing DEF IInv
  <2> QED
    BY <1>1, <2>2, <2>3 DEF Next
<1>2. CASE UNCHANGED vars
  BY <1>2 DEF IInv, TypeOK, CallsInv, StartsInv, ServingHasDatabase,
              Unanswered, Waits, Epoch, vars, dbVars, connVars
<1> QED
  BY <1>1, <1>2

\* The inductive invariant holds.
THEOREM Invariance == Spec => []IInv
BY InitInv, NextInv, PTL DEF Spec

\* The variables keep their types.
THEOREM TypeCorrect == Spec => []TypeOK
BY Invariance, PTL DEF IInv

\* A connection that serves is linked to the database that initialized it, or
\* the signal of its end is under way, or it ended normally.
THEOREM ConnectionsHaveDatabase == Spec => []ServingHasDatabase
BY Invariance, PTL DEF IInv
=============================================================================
