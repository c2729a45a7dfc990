-------------------------- MODULE ConnectionProofs --------------------------
(***************************************************************************)
(* Proofs about Connection, for every set of clients and every bound: its  *)
(* type correctness, the safety of its lock, that neither the lock nor a   *)
(* request is ever lost, and that it implements ConnectionService.         *)
(***************************************************************************)
EXTENDS ConnectionInv, SequenceTheorems, TLAPS

-----------------------------------------------------------------------------
(* Type correctness.                                                       *)

\* TypeOK becomes inductive with the places where it is known that the
\* server executes a request and that a client waits for one.
IndType ==
  /\ TypeOK
  /\ server \in {"execute", "option"} => running # None
  /\ \A c \in Clients :
       pc[c] \in {"calling", "callback", "in_nif"} => cur[c] # None

\* The log only grows, by one request at a time.
LEMMA LogGrows ==
  ASSUME TypeOK, NEW s \in Senders, NEW kind \in Kinds, Send(s, kind)
  PROVE  /\ log' \in Seq([kind : Kinds, from : Senders, epoch : Nat])
         /\ Len(log') = Len(log) + 1
         /\ Len(log') <= MaxRequests
         /\ DOMAIN log' = DOMAIN log \union {Len(log) + 1}
         /\ \A r \in DOMAIN log : log'[r] = log[r]
         /\ log'[Len(log) + 1] = [kind |-> kind, from |-> s, epoch |-> epoch]
         /\ Len(log) + 1 \notin DOMAIN log
         /\ Len(log) + 1 # None
<1> DEFINE e == [kind |-> kind, from |-> s, epoch |-> epoch]
           Entries == [kind : Kinds, from : Senders, epoch : Nat]
<1>1. log \in Seq(Entries) /\ e \in Entries /\ log' = Append(log, e)
  BY DEF TypeOK, Send
<1>2. Len(log) \in Nat /\ Len(log) < MaxRequests /\ MaxRequests \in Nat
  BY <1>1, ConstantsAssumption DEF Send
<1> HIDE DEF e, Entries
<1>3. log' \in Seq(Entries) /\ Len(log') = Len(log) + 1
  BY <1>1
<1>4. DOMAIN log' = DOMAIN log \union {Len(log) + 1}
  BY <1>1, AppendProperties, LenProperties
<1>5. \A r \in DOMAIN log : log'[r] = log[r]
  BY <1>1, AppendProperties, LenProperties
<1>6. log'[Len(log) + 1] = e
  BY <1>1, AppendProperties, LenProperties
<1>7. DOMAIN log = 1..Len(log)
  BY <1>1
<1> QED
  BY <1>2, <1>3, <1>4, <1>5, <1>6, <1>7 DEF e, Entries, None

\* A larger log makes no value of the other variables ill-typed.
LEMMA TypesGrow ==
  ASSUME TypeOK, DOMAIN log \subseteq DOMAIN log'
  PROVE  /\ chan \in [Senders -> Seq([type : {"request", "unlock"}, req : DOMAIN log'])]
         /\ queue \in Seq(DOMAIN log')
<1>1. Signals \subseteq [type : {"request", "unlock"}, req : DOMAIN log']
  BY DEF Signals
<1>2. ASSUME NEW s \in Senders
      PROVE  chan[s] \in Seq([type : {"request", "unlock"}, req : DOMAIN log'])
  <2>1. chan[s] \in Seq(Signals)
    BY DEF TypeOK
  <2>2. ASSUME NEW T, Signals \subseteq T PROVE chan[s] \in Seq(T)
    BY <2>1, <2>2, SeqMonotonic
  <2> QED BY <1>1, <2>2
<1>3. queue \in Seq(DOMAIN log')
  BY SeqMonotonic DEF TypeOK
<1> QED
  BY <1>2, <1>3 DEF TypeOK

\* Sending a request keeps the types of the log and of the channels.
LEMMA SendType ==
  ASSUME TypeOK, NEW s \in Senders, NEW kind \in Kinds, Send(s, kind)
  PROVE  /\ DOMAIN log \subseteq DOMAIN log'
         /\ chan' \in [Senders -> Seq(Signals')]
         /\ queue \in Seq(DOMAIN log')
<1> DEFINE r == Len(log) + 1
           T == [type : {"request", "unlock"}, req : DOMAIN log']
<1>1. DOMAIN log \subseteq DOMAIN log' /\ r \in DOMAIN log'
  BY LogGrows
<1>2. chan \in [Senders -> Seq(T)] /\ queue \in Seq(DOMAIN log')
  BY <1>1, TypesGrow
<1>3. Request(r) \in T
  BY <1>1 DEF Request
<1>4. chan' = [chan EXCEPT ![s] = Append(@, Request(r))]
  BY DEF Send
<1>5. chan' \in [Senders -> Seq(T)]
  <2> HIDE DEF T, r
  <2> QED BY <1>2, <1>3, <1>4
<1> QED
  BY <1>1, <1>2, <1>5 DEF Signals

\* The helpers of the server keep the types of what they change.
LEMMA ReplyType ==
  ASSUME TypeOK, NEW r, NEW a \in Answers, Reply(r, a)
  PROVE  answer' \in [Clients -> Answers]
BY DEF TypeOK, Reply

LEMMA ReceiveType ==
  ASSUME TypeOK, NEW s \in Senders, chan[s] # <<>>
  PROVE  /\ Head(chan[s]) \in Signals
         /\ Head(chan[s]).req \in DOMAIN log
         /\ Head(chan[s]) = chan[s][1]
         /\ 1 \in DOMAIN chan[s]
         /\ Consume(s) => chan' \in [Senders -> Seq(Signals)]
<1>1. chan[s] \in Seq(Signals)
  BY DEF TypeOK
<1>2. Head(chan[s]) \in Signals /\ Tail(chan[s]) \in Seq(Signals)
  BY <1>1, HeadTailProperties, LenProperties
<1>3. Head(chan[s]) = chan[s][1] /\ 1 \in DOMAIN chan[s]
  BY <1>1, HeadTailProperties, LenProperties
<1>4. Head(chan[s]).req \in DOMAIN log
  BY <1>2 DEF Signals
<1>5. ASSUME Consume(s) PROVE chan' \in [Senders -> Seq(Signals)]
  BY <1>2, <1>5 DEF Consume, TypeOK
<1> QED
  BY <1>2, <1>3, <1>4, <1>5

LEMMA StopType ==
  ASSUME TypeOK, NEW how \in ServerStates, Stop(how), UNCHANGED log
  PROVE  /\ chan' \in [Senders -> Seq(Signals')]
         /\ down' \subseteq DOMAIN log'
         /\ server' \in ServerStates
         /\ running' \in DOMAIN log' \union {None}
         /\ queue' \in Seq(DOMAIN log')
         /\ lock' \in DOMAIN log' \union {None}
         /\ monitors' \subseteq DOMAIN log'
<1>1. chan' \in [Senders -> Seq(Signals')]
  <2>1. <<>> \in Seq(Signals')
    OBVIOUS
  <2> QED BY <2>1 DEF Stop
<1> QED
  BY <1>1 DEF Stop

\* Where the log does not change the types do not.
LEMMA SameSignals ==
  ASSUME UNCHANGED log
  PROVE  Signals' = Signals
BY DEF Signals

\* TypeOK of every action.
LEMMA ClientTypes ==
  ASSUME IndType, NEW c \in Clients, ClientStep(c)
  PROVE  IndType'
<1>0. TypeOK /\ c \in Senders
  BY DEF IndType, Senders
<1>1. CASE \E kind \in CallKinds : Call(c, kind)
  <2>1. PICK kind \in CallKinds : Call(c, kind)
    BY <1>1
  <2>2. Send(c, kind) /\ kind \in Kinds
    BY <2>1, ConstantsAssumption DEF Call
  <2>3. /\ log' \in Seq([kind : Kinds, from : Senders, epoch : Nat])
        /\ Len(log') <= MaxRequests
        /\ Len(log) + 1 \in DOMAIN log' \ {None}
        /\ DOMAIN log \subseteq DOMAIN log'
    BY <1>0, <2>2, LogGrows
  <2>4. chan' \in [Senders -> Seq(Signals')] /\ queue \in Seq(DOMAIN log')
    BY <1>0, <2>2, SendType
  <2>5. pc' \in [Clients -> ClientStates]
    BY <1>0, <2>1 DEF Call, TypeOK, ClientStates
  <2>6. cur' \in [Clients -> DOMAIN log' \union {None}]
    BY <1>0, <2>1, <2>3 DEF Call, TypeOK
  <2>7. \A d \in Clients :
          pc'[d] \in {"calling", "callback", "in_nif"} => cur'[d] # None
    BY <2>1, <2>3 DEF IndType, TypeOK, Call
  <2> QED
    BY <2>1, <2>3, <2>4, <2>5, <2>6, <2>7
    DEF IndType, TypeOK, Call, InCallback, lockVars, streamVars
<1>2. CASE ReceiveReply(c)
  <2>1. Signals' = Signals
    BY <1>2, SameSignals DEF ReceiveReply
  <2> QED
    BY <1>2, <2>1 DEF IndType, TypeOK, ReceiveReply, InCallback,
      lockVars, streamVars, ClientStates, Answers
<1>3. CASE CallExits(c)
  <2>1. Signals' = Signals
    BY <1>3, SameSignals DEF CallExits
  <2> QED
    BY <1>3, <2>1 DEF IndType, TypeOK, CallExits, InCallback,
      lockVars, streamVars, ClientStates
<1>4. CASE OptionTimeout(c)
  <2>1. Signals' = Signals
    BY <1>4, SameSignals DEF OptionTimeout
  <2> QED
    BY <1>4, <2>1 DEF IndType, TypeOK, OptionTimeout, InCallback,
      lockVars, streamVars, ClientStates
<1>5. CASE ReadNext(c)
  <2>1. Signals' = Signals
    BY <1>5, SameSignals DEF ReadNext
  <2> QED
    BY <1>5, <2>1 DEF IndType, TypeOK, ReadNext, InCallback,
      lockVars, ClientStates
<1>6. CASE Unlock(c)
  <2>1. Current(cur[c]) => Unlocking(cur[c]) \in Signals
    <3>1. cur[c] \in DOMAIN log
      BY <1>6 DEF IndType, TypeOK, Unlock, InCallback
    <3> QED BY <3>1 DEF Signals, Unlocking
  <2>2. chan' \in [Senders -> Seq(Signals)]
    <3>1. CASE Current(cur[c])
      <4>1. Append(chan[c], Unlocking(cur[c])) \in Seq(Signals)
        BY <1>0, <2>1, <3>1, AppendProperties, LenProperties DEF TypeOK
      <4> QED BY <1>6, <3>1, <4>1, <1>0 DEF TypeOK, Unlock
    <3>2. CASE ~Current(cur[c])
      BY <1>6, <3>2, <1>0 DEF TypeOK, Unlock
    <3> QED BY <3>1, <3>2
  <2>3. Signals' = Signals
    BY <1>6, SameSignals DEF Unlock
  <2> QED
    BY <1>6, <2>2, <2>3 DEF IndType, TypeOK, Unlock, InCallback,
      lockVars, streamVars, ClientStates
<1>7. CASE Kill(c)
  <2>1. Signals' = Signals
    BY <1>7, SameSignals DEF Kill
  <2> QED
    BY <1>7, <2>1 DEF IndType, TypeOK, Kill, InCallback,
      streamVars, ClientStates, Answers
<1> QED
  BY <1>1, <1>2, <1>3, <1>4, <1>5, <1>6, <1>7 DEF ClientStep

LEMMA ReceiveTypes ==
  ASSUME IndType, NEW s \in Senders,
         Enqueue(s) \/ HandleOption(s) \/ (s \in Clients /\ HandleUnlock(s))
  PROVE  IndType'
<1> DEFINE r == Head(chan[s]).req
<1>0. TypeOK /\ chan[s] # <<>>
  BY DEF IndType, Enqueue, HandleOption, HandleUnlock, Receive
<1>1. r \in DOMAIN log /\ (Consume(s) => chan' \in [Senders -> Seq(Signals)])
  BY <1>0, ReceiveType
<1>2. UNCHANGED log /\ Signals' = Signals
  BY SameSignals DEF Enqueue, HandleOption, HandleUnlock
<1>3. CASE Enqueue(s)
  <2>1. queue' \in Seq(DOMAIN log)
    BY <1>0, <1>1, <1>3, AppendProperties, LenProperties DEF Enqueue, JoinQueue, TypeOK
  <2> HIDE DEF r
  <2> QED
    BY <1>1, <1>2, <1>3, <2>1 DEF IndType, TypeOK, Enqueue, ServerStates,
      clientVars, lockVars, streamVars
<1>4. CASE HandleOption(s)
  <2>1. running' = r /\ r # None
    BY <1>0, <1>1, <1>4 DEF HandleOption, TypeOK, None
  <2> HIDE DEF r
  <2> QED
    BY <1>1, <1>2, <1>4, <2>1 DEF IndType, TypeOK, HandleOption, ServerStates,
      clientVars, lockVars, streamVars
<1>5. CASE HandleUnlock(s)
  <2>1. CASE lock = r
    <3>1. UNCHANGED <<running, queue>> /\ Consume(s) /\ server' = "dequeue" /\ lock' = None
      BY <1>5, <2>1 DEF HandleUnlock
    <3>2. ReleaseStream(r) /\ Demonitor(r)
      BY <1>5, <2>1 DEF HandleUnlock
    <3>3. UNCHANGED <<log, clientVars, epoch, reading>>
      BY <1>5 DEF HandleUnlock
    <3> HIDE DEF r
    <3> QED
      BY <1>1, <1>2, <3>1, <3>2, <3>3 DEF IndType, TypeOK, ServerStates,
        ReleaseStream, Demonitor, clientVars
  <2>2. CASE lock # r
    <3>1. Stop("crashed") /\ UNCHANGED <<log, clientVars, epoch, reading, open>>
      BY <1>5, <2>2 DEF HandleUnlock
    <3>2. /\ chan' \in [Senders -> Seq(Signals)]
          /\ server' = "crashed" /\ running' = None /\ lock' = None
          /\ queue' \in Seq(DOMAIN log) /\ down' = {} /\ monitors' = {}
      BY <1>0, <1>2, <3>1, StopType DEF Stop, ServerStates
    <3> QED
      BY <1>2, <3>1, <3>2 DEF IndType, TypeOK, ServerStates, clientVars
  <2> QED BY <2>1, <2>2
<1> QED
  BY <1>3, <1>4, <1>5

\* HandleDown, the loop of the server and the steps of the runtime.
LEMMA DownTypes ==
  ASSUME IndType, NEW r \in DOMAIN log, HandleDown(r)
  PROVE  IndType'
<1>0. TypeOK
  BY DEF IndType
<1>1. UNCHANGED <<log, clientVars, epoch, reading>> /\ Signals' = Signals
  BY SameSignals DEF HandleDown
<1>2. CASE lock = r
  BY <1>1, <1>2 DEF IndType, TypeOK, HandleDown, ReleaseStream, ServerStates,
    clientVars
<1>3. CASE lock # r
  <2>1. Stop("crashed") /\ UNCHANGED open
    BY <1>3 DEF HandleDown
  <2>2. /\ chan' \in [Senders -> Seq(Signals)]
        /\ server' = "crashed" /\ running' = None /\ lock' = None
        /\ queue' \in Seq(DOMAIN log) /\ down' = {} /\ monitors' = {}
    BY <1>0, <1>1, <2>1, StopType DEF Stop, ServerStates
  <2> QED
    BY <1>1, <2>1, <2>2 DEF IndType, TypeOK, ServerStates, clientVars
<1> QED
  BY <1>2, <1>3

LEMMA LoopTypes ==
  ASSUME IndType, ServerLoop
  PROVE  IndType'
<1>0. TypeOK
  BY DEF IndType
<1>1. UNCHANGED <<log, pc, cur, chan, epoch, reading>> /\ Signals' = Signals
  BY SameSignals DEF ServerLoop, EndDequeue, Dequeue, HandleCommand,
    HandleStreamError, HandleStream, OptionReturns, clientVars, streamVars
<1>2. CASE EndDequeue
  BY <1>1, <1>2 DEF IndType, TypeOK, EndDequeue, ServerStates,
    clientVars, lockVars, streamVars
<1>3. CASE Dequeue
  <2>1. queue # <<>>
    BY <1>3 DEF Dequeue, MayDequeue
  <2>2. Head(queue) \in DOMAIN log /\ Tail(queue) \in Seq(DOMAIN log)
    BY <1>0, <2>1, HeadTailProperties, LenProperties DEF TypeOK
  <2>3. Head(queue) # None
    BY <1>0, <2>2 DEF TypeOK, None
  <2> QED
    BY <1>1, <1>3, <2>2, <2>3 DEF IndType, TypeOK, Dequeue, ServerStates,
      clientVars, lockVars, streamVars
<1>4. ASSUME NEW a \in {"ok", "error"}, Reply(running, a),
             running' = None, server' \in {"dequeue", "receive"},
             UNCHANGED <<down, queue, lockVars, streamVars>>
      PROVE  IndType'
  <2>1. answer' \in [Clients -> Answers]
    BY <1>0, <1>4, ReplyType DEF Answers
  <2> QED
    BY <1>1, <1>4, <2>1 DEF IndType, TypeOK, ServerStates, lockVars, streamVars
<1>5. CASE HandleCommand
  BY <1>4, <1>5 DEF HandleCommand
<1>6. CASE HandleStreamError
  BY <1>4, <1>6 DEF HandleStreamError
<1>7. CASE OptionReturns
  BY <1>4, <1>7 DEF OptionReturns
<1>8. CASE HandleStream
  <2>1. answer' \in [Clients -> Answers]
    BY <1>0, <1>8, ReplyType DEF HandleStream, Answers
  <2>2. running \in DOMAIN log
    BY <1>8 DEF IndType, TypeOK, HandleStream
  <2>3. down' \subseteq DOMAIN log /\ monitors' \subseteq DOMAIN log
    BY <1>0, <1>8, <2>2 DEF TypeOK, HandleStream, Monitor
  <2> QED
    BY <1>1, <1>8, <2>1, <2>2, <2>3 DEF IndType, TypeOK, HandleStream,
      ServerStates
<1> QED
  BY <1>2, <1>3, <1>5, <1>6, <1>7, <1>8 DEF ServerLoop

LEMMA RuntimeTypes ==
  ASSUME IndType,
         \/ ExecuteOnGc
         \/ Terminate
         \/ Restart
         \/ \E r \in DOMAIN log : ReadReturns(r) \/ CollectStream(r)
         \/ UNCHANGED vars
  PROVE  IndType'
<1>0. TypeOK
  BY DEF IndType
<1>1. CASE ExecuteOnGc
  <2>1. Send(Runtime, GcKind) /\ Runtime \in Senders /\ GcKind \in Kinds
    BY <1>1 DEF ExecuteOnGc, Senders, Kinds
  <2>2. /\ log' \in Seq([kind : Kinds, from : Senders, epoch : Nat])
        /\ Len(log') <= MaxRequests
        /\ DOMAIN log \subseteq DOMAIN log'
    BY <1>0, <2>1, LogGrows
  <2>3. chan' \in [Senders -> Seq(Signals')] /\ queue \in Seq(DOMAIN log')
    BY <1>0, <2>1, SendType
  <2> QED
    BY <1>1, <2>2, <2>3 DEF IndType, TypeOK, ExecuteOnGc,
      clientVars, lockVars, streamVars
<1>2. CASE Terminate
  <2>1. Stop("terminated") /\ UNCHANGED <<log, clientVars, epoch, streamVars>>
        /\ Signals' = Signals
    BY <1>2, SameSignals DEF Terminate
  <2>2. /\ chan' \in [Senders -> Seq(Signals)]
        /\ server' = "terminated" /\ running' = None /\ lock' = None
        /\ queue' \in Seq(DOMAIN log) /\ down' = {} /\ monitors' = {}
    BY <1>0, <2>1, StopType DEF Stop, ServerStates
  <2> QED
    BY <2>1, <2>2 DEF IndType, TypeOK, ServerStates, clientVars, streamVars
<1>3. CASE Restart
  <2>1. Signals' = Signals
    BY <1>3, SameSignals DEF Restart
  <2> QED
    BY <1>3, <2>1 DEF IndType, TypeOK, Restart, ServerStates,
      clientVars, lockVars, streamVars
<1>4. ASSUME NEW r \in DOMAIN log, ReadReturns(r)
      PROVE  IndType'
  <2>1. Signals' = Signals
    BY <1>4, SameSignals DEF ReadReturns
  <2> QED
    BY <1>4, <2>1 DEF IndType, TypeOK, ReadReturns, ClientStates, lockVars
<1>5. ASSUME NEW r \in DOMAIN log, CollectStream(r)
      PROVE  IndType'
  <2>1. Signals' = Signals
    BY <1>5, SameSignals DEF CollectStream
  <2> QED
    BY <1>5, <2>1 DEF IndType, TypeOK, CollectStream, clientVars, lockVars
<1>6. CASE UNCHANGED vars
  <2>1. Signals' = Signals
    BY <1>6, SameSignals DEF vars
  <2> QED
    BY <1>6, <2>1 DEF IndType, TypeOK, vars, clientVars, lockVars, streamVars
<1> QED
  BY <1>1, <1>2, <1>3, <1>4, <1>5, <1>6

\* Every state of Connection has its type: whatever the order of calls,
\* replies, deaths and restarts, the server and its clients only speak of
\* requests that were sent.
THEOREM TypeCorrect == Spec => []TypeOK
<1>1. Init => IndType
  <2> SUFFICES ASSUME Init PROVE IndType
    OBVIOUS
  <2>1. <<>> \in Seq(Signals)
    OBVIOUS
  <2>2. /\ log \in Seq([kind : Kinds, from : Senders, epoch : Nat])
        /\ Len(log) <= MaxRequests
        /\ queue \in Seq(DOMAIN log)
    BY ConstantsAssumption DEF Init
  <2> QED
    BY <2>1, <2>2 DEF Init, IndType, TypeOK, ClientStates, ServerStates, Answers
<1>2. IndType /\ [Next]_vars => IndType'
  <2> SUFFICES ASSUME IndType, [Next]_vars PROVE IndType'
    OBVIOUS
  <2> QED
    BY ClientTypes, ReceiveTypes, DownTypes, LoopTypes, RuntimeTypes
    DEF Next, Senders
<1>3. IndType => TypeOK
  BY DEF IndType
<1> QED
  BY <1>1, <1>2, <1>3, PTL DEF Spec

-----------------------------------------------------------------------------
(* The inductive invariant.  IInv is kept by every action; each lemma below *)
(* takes the actions that change the same part of the state.               *)

\* IInv contains what TypeOK needs to be inductive.
LEMMA InvTypes ==
  ASSUME IInv
  PROVE  IndType
<1>1. \A c \in Clients :
        pc[c] \in {"calling", "callback", "in_nif"} => cur[c] # None
  BY DEF IInv, ClientsInv, TypeOK, None
<1> QED
  BY <1>1 DEF IInv, IndType, ServerInv

\* Every signal under way is about a request that was sent.
LEMMA SignalFacts ==
  ASSUME TypeOK, NEW s \in Senders, NEW i \in DOMAIN chan[s]
  PROVE  chan[s][i] \in Signals /\ chan[s][i].req \in DOMAIN log
<1>1. chan[s] \in Seq(Signals)
  BY DEF TypeOK
<1>2. chan[s][i] \in Signals
  BY <1>1
<1> QED
  BY <1>2 DEF Signals

\* The signals under way after a request was sent.
LEMMA SendFacts ==
  ASSUME TypeOK, NEW s \in Senders, NEW kind \in Kinds, Send(s, kind),
         NEW t \in Senders, NEW i \in DOMAIN chan'[t]
  PROVE  \/ i \in DOMAIN chan[t] /\ chan'[t][i] = chan[t][i]
         \/ t = s /\ chan'[t][i] = Request(Len(log) + 1)
<1> DEFINE e == Request(Len(log) + 1)
<1>1. chan \in [Senders -> Seq(Signals)] /\ chan' = [chan EXCEPT ![s] = Append(@, e)]
  BY DEF TypeOK, Send
<1>2. CASE t # s
  BY <1>1, <1>2
<1>3. CASE t = s
  <2>1. chan[s] \in Seq(Signals \union {e}) /\ chan'[t] = Append(chan[s], e)
    BY <1>1, <1>3, SeqMonotonic
  <2> HIDE DEF e
  <2>2. DOMAIN chan'[t] = DOMAIN chan[s] \union {Len(chan[s]) + 1}
    BY <2>1, AppendProperties, LenProperties
  <2> QED
    BY <1>3, <2>1, <2>2, AppendProperties, LenProperties DEF e
<1> QED
  BY <1>2, <1>3

\* The signals under way after one was received.
LEMMA ConsumeFacts ==
  ASSUME TypeOK, NEW s \in Senders, chan[s] # <<>>, Consume(s),
         NEW t \in Senders, NEW i \in DOMAIN chan'[t]
  PROVE  /\ t = s => i + 1 \in DOMAIN chan[t] /\ chan'[t][i] = chan[t][i + 1]
         /\ t # s => i \in DOMAIN chan[t] /\ chan'[t][i] = chan[t][i]
         /\ i \in Nat \ {0}
<1>1. chan \in [Senders -> Seq(Signals)] /\ chan' = [chan EXCEPT ![s] = Tail(@)]
  BY DEF TypeOK, Consume
<1>2. chan'[t] \in Seq(Signals)
  BY <1>1, HeadTailProperties, LenProperties
<1>3. i \in Nat \ {0}
  BY <1>2
<1>4. t = s => i + 1 \in DOMAIN chan[t] /\ chan'[t][i] = chan[t][i + 1]
  BY <1>1, HeadTailProperties, LenProperties
<1> QED
  BY <1>1, <1>3, <1>4

\* A request is sent: its number is new, so nothing speaks of it yet.
LEMMA SendInv ==
  ASSUME IInv, NEW s \in Senders, NEW kind \in Kinds, Send(s, kind),
         s = Runtime => kind = GcKind /\ UNCHANGED clientVars,
         s \in Clients => /\ pc[s] = "idle"
                          /\ pc' = [pc EXCEPT ![s] = "calling"]
                          /\ cur' = [cur EXCEPT ![s] = Len(log) + 1]
                          /\ UNCHANGED answer,
         UNCHANGED <<down, server, epoch, running, queue, lockVars, streamVars>>,
         TypeOK'
  PROVE  IInv'
<1> DEFINE n == Len(log) + 1
<1>0. TypeOK /\ UNCHANGED <<down, server, epoch, running, queue, lock, monitors,
                            open, reading>>
  BY DEF IInv, lockVars, streamVars
<1>1. /\ DOMAIN log' = DOMAIN log \union {n} /\ n \notin DOMAIN log /\ n # None
      /\ None \notin DOMAIN log
      /\ \A r \in DOMAIN log : log'[r] = log[r]
      /\ log'[n].kind = kind /\ log'[n].from = s /\ log'[n].epoch = epoch
  <2>1. log'[n] = [kind |-> kind, from |-> s, epoch |-> epoch]
    BY <1>0, LogGrows
  <2>2. /\ DOMAIN log' = DOMAIN log \union {n} /\ n \notin DOMAIN log /\ n # None
        /\ \A r \in DOMAIN log : log'[r] = log[r]
    BY <1>0, LogGrows
  <2>3. None \notin DOMAIN log
    BY <1>0 DEF TypeOK, None
  <2> HIDE DEF n
  <2> QED
    BY <2>1, <2>2, <2>3
<1>2. \A t \in Senders : \A i \in DOMAIN chan'[t] :
        \/ i \in DOMAIN chan[t] /\ chan'[t][i] = chan[t][i]
        \/ t = s /\ chan'[t][i] = Request(n)
  BY <1>0, SendFacts
<1>3. \A t \in Senders : \A i \in DOMAIN chan[t] : chan[t][i].req \in DOMAIN log
  BY <1>0, SignalFacts
<1>4. ServerAlive
  BY DEF Send
<1>5. \A c \in Clients \ {s} : pc'[c] = pc[c] /\ cur'[c] = cur[c]
  BY <1>0, ConstantsAssumption DEF TypeOK, Senders, clientVars
<1>6. s \in Clients => pc'[s] = "calling" /\ cur'[s] = n /\ answer'[s] = "none" /\ pc[s] = "idle"
  BY <1>0 DEF TypeOK, IInv, ClientsInv
<1>7. answer' = answer
  BY ConstantsAssumption DEF Senders, clientVars
<1>8. \A i \in DOMAIN queue : queue[i] \in DOMAIN log
  BY <1>0 DEF TypeOK
<1>9. Request(n).type = "request" /\ Request(n).req = n
  BY DEF Request
<1>10. /\ running \in DOMAIN log \union {None} /\ lock \in DOMAIN log \union {None}
       /\ down \subseteq DOMAIN log /\ monitors \subseteq DOMAIN log
       /\ open \subseteq DOMAIN log
  BY <1>0 DEF TypeOK
<1>11. /\ ClientsInv /\ LogInv /\ EpochInv /\ ServerInv /\ UnlockInv /\ MonitorInv
       /\ HolderInv /\ StreamInv
  BY DEF IInv
<1>12. epoch \in Nat
  BY <1>0 DEF TypeOK
<1> HIDE DEF n
<1>20. ClientsInv'
  BY <1>0, <1>1, <1>5, <1>6, <1>7, <1>11 DEF ClientsInv, From, InCallback
<1>21. LogInv'
  BY <1>0, <1>1, <1>11, <1>12 DEF LogInv, From, Senders
<1>22. EpochInv'
  <2>1. \A t \in Senders : \A i \in DOMAIN chan'[t] :
          log'[chan'[t][i].req].epoch = epoch
    BY <1>1, <1>2, <1>3, <1>9, <1>11 DEF EpochInv
  <2> QED
    BY <1>0, <1>1, <1>8, <1>10, <1>11, <2>1 DEF EpochInv, From
<1>23. ServerInv'
  BY <1>0, <1>1, <1>4, <1>8, <1>10, <1>11 DEF ServerInv, ServerAlive
<1>24. UnlockInv'
  BY <1>0, <1>1, <1>2, <1>3, <1>5, <1>6, <1>9, <1>10, <1>11
  DEF UnlockInv, From, InCallback
<1>25. MonitorInv'
  BY <1>0, <1>1, <1>5, <1>6, <1>10, <1>11
  DEF MonitorInv, EpochInv, From
<1>26. HolderInv'
  BY <1>0, <1>1, <1>5, <1>6, <1>7, <1>10, <1>11
  DEF ClientsInv, HolderInv, Holds, InCallback, Current, ServerAlive
<1>27. StreamInv'
  BY <1>0, <1>1, <1>5, <1>6, <1>7, <1>10, <1>11
  DEF ClientsInv, StreamInv, Holds, InCallback, Current, ServerAlive
<1> QED
  BY <1>0, <1>20, <1>21, <1>22, <1>23, <1>24, <1>25, <1>26, <1>27
  DEF IInv, NoStaleSignal

\* What IInv says, with TypeOK reduced to the range of each variable.
LEMMA InvFacts ==
  ASSUME IInv
  PROVE  /\ ClientsInv /\ LogInv /\ EpochInv /\ ServerInv /\ UnlockInv
         /\ MonitorInv /\ HolderInv /\ StreamInv /\ NoStaleSignal
         /\ None \notin DOMAIN log
         /\ running \in DOMAIN log \union {None} /\ lock \in DOMAIN log \union {None}
         /\ down \subseteq DOMAIN log /\ monitors \subseteq DOMAIN log
         /\ open \subseteq DOMAIN log /\ reading \subseteq DOMAIN log
         /\ \A s \in Senders : \A i \in DOMAIN chan[s] : chan[s][i].req \in DOMAIN log
         /\ \A i \in DOMAIN queue : queue[i] \in DOMAIN log
         /\ DOMAIN pc = Clients /\ DOMAIN answer = Clients
         /\ Clients \subseteq Senders
<1>1. TypeOK
  BY DEF IInv
<1>2. \A s \in Senders : \A i \in DOMAIN chan[s] : chan[s][i].req \in DOMAIN log
  BY <1>1, SignalFacts
<1>3. /\ None \notin DOMAIN log
      /\ \A i \in DOMAIN queue : queue[i] \in DOMAIN log
      /\ DOMAIN pc = Clients /\ DOMAIN answer = Clients
  BY <1>1 DEF TypeOK, None
<1> QED
  BY <1>1, <1>2, <1>3 DEF IInv, TypeOK, Senders

\* The parts of IInv that do not speak of the clients are kept by a step that
\* changes no more than the clients and the streams.
LEMMA ClientFrame ==
  ASSUME IInv, UNCHANGED <<log, server, epoch, running, queue, lock, chan>>
  PROVE  LogInv' /\ EpochInv' /\ ServerInv' /\ NoStaleSignal'
BY InvFacts DEF LogInv, EpochInv, ServerInv, ServerAlive, From, NoStaleSignal

\* A client moves on without a signal: it gets its reply, gives up, or reads.
LEMMA ClientMoves ==
  ASSUME IInv, TypeOK', NEW c \in Clients,
         ReceiveReply(c) \/ CallExits(c) \/ OptionTimeout(c) \/ ReadNext(c)
  PROVE  IInv'
<1>1. UNCHANGED <<log, cur, chan, down, server, epoch, running, queue, lock,
                  monitors, open>>
  BY DEF ReceiveReply, CallExits, OptionTimeout, ReadNext, lockVars, streamVars
<1>2. /\ \A d \in Clients \ {c} : pc'[d] = pc[d] /\ answer'[d] = answer[d]
      /\ pc'[c] # "calling" /\ answer'[c] = "none"
      /\ pc[c] # "dead" /\ pc'[c] # "dead"
      /\ InCallback(c)' => Holds(c)
  BY InvFacts DEF ReceiveReply, CallExits, OptionTimeout, ReadNext, ClientsInv,
    InCallback, Holds
<1>3. InCallback(c)' => log[cur[c]].kind \in StreamKinds
                        /\ cur[c] \in DOMAIN log /\ From(cur[c]) = c
  BY <1>2, InvFacts DEF Holds, ClientsInv, InCallback
<1>4. ClientsInv'
  BY <1>1, <1>2, <1>3, InvFacts DEF ClientsInv, InCallback, From
<1>5. UnlockInv'
  BY <1>1, <1>2, InvFacts DEF UnlockInv, InCallback, Holds, From
<1>6. MonitorInv'
  BY <1>1, <1>2, InvFacts DEF MonitorInv, EpochInv, From
<1>7. \A d \in Clients : Holds(d)' => Holds(d)
  BY <1>1, <1>2 DEF Holds, InCallback
<1>8. HolderInv'
  BY <1>1, <1>7, InvFacts DEF HolderInv, Current, ServerAlive
<1>9. StreamInv'
  BY <1>1, <1>7, InvFacts DEF StreamInv, Current, ServerAlive
<1> QED
  BY <1>1, <1>4, <1>5, <1>6, <1>8, <1>9, ClientFrame DEF IInv

\* A client unlocks: it has the lock, and no unlock is under way yet.
LEMMA ClientUnlocks ==
  ASSUME IInv, TypeOK', NEW c \in Clients, Unlock(c)
  PROVE  IInv'
<1> DEFINE u == Unlocking(cur[c])
<1>1. UNCHANGED <<log, cur, answer, down, server, epoch, running, queue, lock,
                  monitors, open>>
  BY DEF Unlock, lockVars, streamVars
<1>2. /\ \A d \in Clients \ {c} : pc'[d] = pc[d]
      /\ InCallback(c) /\ pc'[c] = "idle"
      /\ cur[c] \in DOMAIN log /\ From(cur[c]) = c
  BY InvFacts DEF Unlock, InCallback, ClientsInv
<1>3. u.type = "unlock" /\ u.req = cur[c]
  BY DEF Unlocking
<1>4. Current(cur[c]) => lock = cur[c]
  BY <1>2, InvFacts DEF HolderInv, Holds
<1>5. Current(cur[c]) =>
        \A s \in Senders : \A i \in DOMAIN chan[s] : chan[s][i].type # "unlock"
  BY <1>2, <1>4, InvFacts DEF UnlockInv
<1>6. \A s \in Senders : \A i \in DOMAIN chan'[s] :
        \/ i \in DOMAIN chan[s] /\ chan'[s][i] = chan[s][i]
        \/ /\ s = c /\ Current(cur[c]) /\ chan'[s][i] = u
           /\ i = Len(chan[c]) + 1
  <2>1. chan \in [Senders -> Seq(Signals)] /\ c \in Senders
    BY InvFacts DEF IInv, TypeOK
  <2>2. CASE ~Current(cur[c])
    BY <2>2 DEF Unlock
  <2>3. CASE Current(cur[c])
    <3>1. chan' = [chan EXCEPT ![c] = Append(@, u)] /\ u \in Signals
      BY <1>2, <2>3 DEF Unlock, Unlocking, Signals
    <3> HIDE DEF u
    <3> QED
      BY <2>1, <2>3, <3>1, AppendProperties, LenProperties
  <2> QED BY <2>2, <2>3
<1> HIDE DEF u
<1>7. ClientsInv'
  BY <1>1, <1>2, InvFacts DEF ClientsInv, InCallback, From
<1>8. EpochInv'
  <2>1. \A s \in Senders : \A i \in DOMAIN chan'[s] :
          log[chan'[s][i].req].epoch = epoch
    BY <1>3, <1>6, InvFacts DEF EpochInv, Current
  <2> QED
    BY <1>1, <2>1, InvFacts DEF EpochInv, From
<1>9. ServerInv'
  BY <1>1, <1>6, InvFacts DEF ServerInv, ServerAlive, Unlock, Current
<1>10. UnlockInv'
  <2>1. CASE Current(cur[c])
    BY <1>1, <1>2, <1>3, <1>4, <1>5, <1>6, <2>1, InvFacts
    DEF UnlockInv, InCallback, From
  <2>2. CASE ~Current(cur[c])
    BY <1>1, <1>2, <2>2, InvFacts DEF UnlockInv, InCallback, From, Unlock
  <2> QED BY <2>1, <2>2
<1>11. MonitorInv'
  BY <1>1, <1>2, InvFacts DEF MonitorInv, EpochInv, From, InCallback
<1>12. \A d \in Clients : Holds(d)' => Holds(d)
  BY <1>1, <1>2 DEF Holds, InCallback
<1>13. HolderInv' /\ StreamInv'
  BY <1>1, <1>12, InvFacts DEF HolderInv, StreamInv, Current, ServerAlive
<1>14. LogInv' /\ NoStaleSignal'
  BY <1>1, InvFacts DEF LogInv, From, NoStaleSignal
<1> QED
  BY <1>7, <1>8, <1>9, <1>10, <1>11, <1>13, <1>14 DEF IInv

\* A client dies: if the server watched it, the DOWN signal is under way.
LEMMA ClientDies ==
  ASSUME IInv, TypeOK', NEW c \in Clients, Kill(c)
  PROVE  IInv'
<1>1. UNCHANGED <<log, cur, chan, server, epoch, running, queue, lock, open>>
  BY DEF Kill, streamVars
<1>2. /\ \A d \in Clients \ {c} : pc'[d] = pc[d] /\ answer'[d] = answer[d]
      /\ pc'[c] = "dead" /\ answer'[c] = "none"
  BY InvFacts DEF Kill
<1>3. ClientsInv'
  BY <1>1, <1>2, InvFacts DEF ClientsInv, InCallback, From
<1>4. UnlockInv'
  BY <1>1, <1>2, InvFacts DEF UnlockInv, InCallback, From
<1>5. MonitorInv'
  BY <1>1, <1>2, InvFacts DEF Kill, MonitorInv, EpochInv, From
<1>6. \A d \in Clients : Holds(d)' => Holds(d)
  BY <1>1, <1>2 DEF Holds, InCallback
<1>7. HolderInv' /\ StreamInv'
  BY <1>1, <1>6, InvFacts DEF HolderInv, StreamInv, Current, ServerAlive
<1> QED
  BY <1>1, <1>3, <1>4, <1>5, <1>7, ClientFrame DEF IInv

\* The parts of IInv that speak of the clients and the streams are kept by a
\* step of the server that leaves both, and the lock, as they are.
LEMMA ServerFrame ==
  ASSUME IInv, UNCHANGED <<log, pc, cur, answer, down, epoch, lock, monitors, open>>,
         ServerAlive
  PROVE  ClientsInv' /\ LogInv' /\ MonitorInv' /\ HolderInv' /\ StreamInv'
<1>1. \A r : Current(r)' => Current(r)
  BY DEF Current
<1>2. \A c \in Clients : Holds(c)' => Holds(c)
  BY DEF Holds, InCallback
<1>3. HolderInv' /\ StreamInv'
  BY <1>1, <1>2, InvFacts DEF HolderInv, StreamInv
<1> QED
  BY <1>3, InvFacts DEF ClientsInv, InCallback, LogInv, MonitorInv, From

\* The server receives a request: nothing about the lock changes.
LEMMA ServerReceives ==
  ASSUME IInv, TypeOK', NEW s \in Senders, Enqueue(s) \/ HandleOption(s)
  PROVE  IInv'
<1> DEFINE r == Head(chan[s]).req
<1>1. /\ UNCHANGED <<log, pc, cur, answer, down, epoch, lock, monitors, open>>
      /\ server = "receive" /\ ServerAlive
      /\ chan[s] # <<>> /\ Consume(s)
  BY DEF Enqueue, HandleOption, Receive, ServerAlive, clientVars, lockVars,
    streamVars
<1>2. TypeOK
  BY DEF IInv
<1>3. r = chan[s][1].req /\ 1 \in DOMAIN chan[s] /\ r \in DOMAIN log
  BY <1>1, <1>2, ReceiveType
<1>4. \A t \in Senders : \A i \in DOMAIN chan'[t] :
        /\ t = s => i + 1 \in DOMAIN chan[t] /\ chan'[t][i] = chan[t][i + 1]
        /\ t # s => i \in DOMAIN chan[t] /\ chan'[t][i] = chan[t][i]
        /\ i \in Nat \ {0}
  BY <1>1, <1>2, ConsumeFacts
<1>5. /\ server' \in {"dequeue", "option"}
      /\ server' = "dequeue" => running' = running
      /\ server' = "option" => running' = r /\ log[r].kind = OptionKind
  BY DEF Enqueue, HandleOption
<1>6. \A i \in DOMAIN queue' :
        \/ i \in DOMAIN queue /\ queue'[i] = queue[i]
        \/ queue'[i] = r /\ log[r].kind # OptionKind
  <2>1. CASE Enqueue(s)
    <3>1. queue \in Seq(DOMAIN log) /\ queue' = Append(queue, r)
          /\ log[r].kind # OptionKind
      BY <1>2, <2>1 DEF Enqueue, JoinQueue, TypeOK
    <3> HIDE DEF r
    <3> QED
      BY <1>3, <3>1, AppendProperties, LenProperties
  <2>2. CASE HandleOption(s)
    BY <2>2 DEF HandleOption
  <2> QED BY <2>1, <2>2
<1>7. log[r].epoch = epoch
  BY <1>3, InvFacts DEF EpochInv
<1> HIDE DEF r
<1>8. EpochInv'
  <2>1. \A t \in Senders : \A i \in DOMAIN chan'[t] :
          log[chan'[t][i].req].epoch = epoch
    BY <1>4, InvFacts DEF EpochInv
  <2> QED
    BY <1>1, <1>5, <1>6, <1>7, <2>1, InvFacts DEF EpochInv, From
<1>9. ServerInv'
  BY <1>1, <1>3, <1>5, <1>6, InvFacts DEF ServerInv, ServerAlive
<1>10. UnlockInv'
  <2> SUFFICES ASSUME NEW t \in Senders, NEW i \in DOMAIN chan'[t],
                      chan'[t][i].type = "unlock"
               PROVE  /\ t \in Clients
                      /\ lock = chan'[t][i].req
                      /\ From(lock) = t
                      /\ cur[t] = lock => ~InCallback(t) /\ pc[t] # "calling"
                      /\ \A j \in DOMAIN chan'[t] : chan'[t][j].type = "unlock" => j = i
    BY <1>1 DEF UnlockInv, From, InCallback
  <2>1. CASE t = s
    BY <1>4, <2>1, InvFacts, SMTT(30) DEF UnlockInv
  <2>2. CASE t # s
    BY <1>4, <2>2, InvFacts DEF UnlockInv
  <2> QED BY <2>1, <2>2
<1> QED
  BY <1>1, <1>5, <1>8, <1>9, <1>10, ServerFrame DEF IInv, NoStaleSignal

\* The server receives an unlock: it is for the lock, and the last one, so no
\* unlock is left under way once the lock is free.
LEMMA ServerUnlocks ==
  ASSUME IInv, TypeOK', NEW s \in Clients, HandleUnlock(s)
  PROVE  IInv'
<1> DEFINE r == Head(chan[s]).req
<1>1. /\ UNCHANGED <<log, pc, cur, answer, epoch, reading>>
      /\ server = "receive" /\ chan[s] # <<>> /\ Head(chan[s]).type = "unlock"
      /\ s \in Senders
  BY InvFacts DEF HandleUnlock, Receive, clientVars
<1>2. TypeOK
  BY DEF IInv
<1>3. r = chan[s][1].req /\ chan[s][1].type = "unlock" /\ 1 \in DOMAIN chan[s]
      /\ r \in DOMAIN log
  BY <1>1, <1>2, ReceiveType
<1>4. lock = r /\ From(r) = s
      /\ (cur[s] = r => ~InCallback(s) /\ pc[s] # "calling")
  BY <1>1, <1>3, InvFacts DEF UnlockInv
<1>5. /\ Consume(s) /\ open' = open \ {r}
      /\ monitors' = monitors \ {r} /\ down' = down \ {r}
      /\ lock' = None /\ server' = "dequeue" /\ UNCHANGED <<running, queue>>
  BY <1>4 DEF HandleUnlock, ReleaseStream, Demonitor
<1>6. \A t \in Senders : \A i \in DOMAIN chan'[t] :
        /\ t = s => i + 1 \in DOMAIN chan[t] /\ chan'[t][i] = chan[t][i + 1]
        /\ t # s => i \in DOMAIN chan[t] /\ chan'[t][i] = chan[t][i]
        /\ i \in Nat \ {0}
  BY <1>1, <1>2, <1>5, ConsumeFacts
<1> HIDE DEF r
<1>7. \A t \in Senders : \A i \in DOMAIN chan'[t] : chan'[t][i].type # "unlock"
  <2> SUFFICES ASSUME NEW t \in Senders, NEW i \in DOMAIN chan'[t],
                      chan'[t][i].type = "unlock"
               PROVE  FALSE
    OBVIOUS
  <2>1. CASE t = s
    <3>1. i + 1 \in DOMAIN chan[s] /\ chan[s][i + 1].type = "unlock" /\ i \in Nat \ {0}
      BY <1>6, <2>1
    <3>2. i + 1 = 1
      BY <1>1, <1>3, <3>1, InvFacts DEF UnlockInv
    <3> QED BY <3>1, <3>2
  <2>2. CASE t # s
    <3>1. From(lock) = t
      BY <1>6, <2>2, InvFacts DEF UnlockInv
    <3> QED BY <1>4, <2>2, <3>1
  <2> QED BY <2>1, <2>2
<1>8. down' = {} /\ monitors' = {}
  BY <1>4, <1>5, InvFacts DEF MonitorInv
<1>9. \A d \in Clients : ~(Holds(d) /\ Current(cur[d]))
  BY <1>4, InvFacts DEF HolderInv, Holds, ClientsInv, InCallback
<1>10. ServerAlive /\ ServerAlive' /\ (\A d \in Clients : Holds(d)' <=> Holds(d))
       /\ (\A q : Current(q)' => Current(q))
  BY <1>1, <1>5 DEF ServerAlive, Holds, InCallback, Current
<1>11. ClientsInv' /\ LogInv'
  BY <1>1, InvFacts DEF ClientsInv, LogInv, InCallback, From
<1>12. EpochInv'
  <2>1. \A t \in Senders : \A i \in DOMAIN chan'[t] :
          log[chan'[t][i].req].epoch = epoch
    BY <1>6, InvFacts DEF EpochInv
  <2> QED
    BY <1>1, <1>5, <2>1, InvFacts DEF EpochInv, From
<1>13. ServerInv'
  BY <1>1, <1>5, <1>10, InvFacts DEF ServerInv
<1>14. UnlockInv'
  BY <1>7 DEF UnlockInv
<1>15. MonitorInv'
  BY <1>8 DEF MonitorInv
<1>16. HolderInv'
  BY <1>1, <1>9, <1>10 DEF HolderInv
<1>17. StreamInv'
  <2>1. \A q \in open' : ~Current(q)'
    BY <1>4, <1>5, <1>10, InvFacts DEF StreamInv
  <2>2. \A d \in Clients : Holds(d) /\ log[cur[d]].kind = StreamKind => cur[d] \in open'
    BY <1>4, <1>5, InvFacts DEF StreamInv, Holds, ClientsInv, InCallback
  <2> QED
    BY <1>1, <1>5, <1>10, <2>1, <2>2 DEF StreamInv
<1> QED
  BY <1>5, <1>11, <1>12, <1>13, <1>14, <1>15, <1>16, <1>17 DEF IInv, NoStaleSignal

\* The server receives a DOWN: its sender had the lock and has sent nothing
\* else that is still under way.
LEMMA ServerReleases ==
  ASSUME IInv, TypeOK', NEW r \in DOMAIN log, HandleDown(r)
  PROVE  IInv'
<1>1. /\ UNCHANGED <<log, pc, cur, answer, epoch, reading>>
      /\ server = "receive" /\ r \in down /\ chan[From(r)] = <<>>
  BY DEF HandleDown, clientVars
<1>2. lock = r /\ pc[From(r)] = "dead" /\ From(r) \in Clients
  BY <1>1, InvFacts DEF MonitorInv, EpochInv
<1>3. /\ down' = down \ {r} /\ open' = open \ {r}
      /\ lock' = None /\ server' = "dequeue"
      /\ UNCHANGED <<chan, running, queue, monitors>>
  BY <1>2 DEF HandleDown, ReleaseStream
<1>4. \A t \in Senders : \A i \in DOMAIN chan[t] : chan[t][i].type # "unlock"
  BY <1>1, <1>2, InvFacts DEF UnlockInv
<1>5. down' = {} /\ monitors' = {}
  BY <1>1, <1>2, <1>3, InvFacts DEF MonitorInv
<1>6. \A d \in Clients : ~(Holds(d) /\ Current(cur[d]))
  BY <1>2, InvFacts DEF HolderInv, Holds, ClientsInv, InCallback
<1>7. ServerAlive /\ ServerAlive' /\ (\A d \in Clients : Holds(d)' <=> Holds(d))
      /\ (\A q : Current(q)' => Current(q))
  BY <1>1, <1>3 DEF ServerAlive, Holds, InCallback, Current
<1>8. ClientsInv' /\ LogInv'
  BY <1>1, InvFacts DEF ClientsInv, LogInv, InCallback, From
<1>9. EpochInv' /\ ServerInv'
  BY <1>1, <1>3, <1>7, InvFacts DEF EpochInv, ServerInv, From
<1>10. UnlockInv' /\ MonitorInv'
  BY <1>3, <1>4, <1>5 DEF UnlockInv, MonitorInv
<1>11. HolderInv'
  BY <1>1, <1>6, <1>7 DEF HolderInv
<1>12. StreamInv'
  <2>1. \A q \in open' : ~Current(q)'
    BY <1>2, <1>3, <1>7, InvFacts DEF StreamInv
  <2>2. \A d \in Clients : Holds(d) /\ log[cur[d]].kind = StreamKind => cur[d] \in open'
    BY <1>2, <1>3, InvFacts DEF StreamInv, Holds, ClientsInv, InCallback
  <2> QED
    BY <1>1, <1>3, <1>7, <2>1, <2>2 DEF StreamInv
<1> QED
  BY <1>3, <1>8, <1>9, <1>10, <1>11, <1>12 DEF IInv, NoStaleSignal

\* One turn of the loop of the server that grants no lock.
LEMMA ServerTurns ==
  ASSUME IInv, TypeOK',
         EndDequeue \/ Dequeue \/ HandleCommand \/ HandleStreamError \/ OptionReturns
  PROVE  IInv'
<1>1. /\ UNCHANGED <<log, pc, cur, chan, down, epoch, lock, monitors, open, reading>>
      /\ ServerAlive /\ ServerAlive'
  BY DEF EndDequeue, Dequeue, HandleCommand, HandleStreamError, OptionReturns,
    ServerAlive, clientVars, lockVars, streamVars
<1>2. \A d \in Clients :
        answer'[d] # answer[d] =>
          /\ pc[d] = "calling"
          /\ answer'[d] = "ok" => log[cur[d]].kind \notin StreamKinds
  <2>1. CASE EndDequeue \/ Dequeue
    BY <2>1 DEF EndDequeue, Dequeue, clientVars
  <2>2. ASSUME NEW a, Reply(running, a), log[running].kind \in StreamKinds => a # "ok"
        PROVE  \A d \in Clients :
                 answer'[d] # answer[d] =>
                   /\ pc[d] = "calling"
                   /\ answer'[d] = "ok" => log[cur[d]].kind \notin StreamKinds
    BY <2>2 DEF Reply
  <2>3. CASE HandleCommand
    BY <2>2, <2>3 DEF HandleCommand, StreamKinds, StreamKind, PointerKind,
      CommandKind, GcKind
  <2>4. CASE HandleStreamError
    BY <2>2, <2>4 DEF HandleStreamError
  <2>5. CASE OptionReturns
    BY <2>2, <2>5, InvFacts DEF OptionReturns, ServerInv, StreamKinds, StreamKind,
      PointerKind, OptionKind
  <2> QED BY <2>1, <2>3, <2>4, <2>5
<1>3. /\ \A i \in DOMAIN queue' : \E j \in DOMAIN queue : queue'[i] = queue[j]
      /\ \/ server' \in {"receive", "dequeue"} /\ running' = None
         \/ /\ server' = "execute" /\ lock = None
            /\ \E j \in DOMAIN queue : running' = queue[j]
  <2>1. CASE Dequeue
    <3>1. queue \in Seq(DOMAIN log) /\ queue # <<>>
      BY <2>1 DEF IInv, TypeOK, Dequeue, MayDequeue
    <3> QED
      BY <2>1, <3>1, HeadTailProperties, LenProperties DEF Dequeue, MayDequeue
  <2>2. CASE EndDequeue
    BY <2>2, InvFacts DEF EndDequeue, ServerInv
  <2>3. CASE HandleCommand \/ HandleStreamError \/ OptionReturns
    BY <2>3 DEF HandleCommand, HandleStreamError, OptionReturns
  <2> QED BY <2>1, <2>2, <2>3
<1>4. \A d \in Clients : Holds(d)' => Holds(d)
  BY <1>1, <1>2 DEF Holds, InCallback
<1>5. ClientsInv' /\ LogInv'
  BY <1>1, <1>2, InvFacts DEF ClientsInv, LogInv, InCallback, From
<1>6. EpochInv'
  BY <1>1, <1>3, InvFacts DEF EpochInv, From
<1>7. ServerInv'
  BY <1>1, <1>3, InvFacts DEF ServerInv
<1>8. UnlockInv' /\ MonitorInv'
  BY <1>1, InvFacts DEF UnlockInv, MonitorInv, InCallback, From
<1>9. HolderInv' /\ StreamInv'
  BY <1>1, <1>4, InvFacts DEF HolderInv, StreamInv, Current
<1> QED
  BY <1>3, <1>5, <1>6, <1>7, <1>8, <1>9 DEF IInv, NoStaleSignal

\* The server grants the lock: it was free, so no unlock, no DOWN and no
\* monitor speaks of another one, and no client holds a stream of this server.
LEMMA ServerGrants ==
  ASSUME IInv, TypeOK', HandleStream
  PROVE  IInv'
<1>1. /\ UNCHANGED <<log, pc, cur, chan, epoch, queue, reading>>
      /\ open' = open \union {running} /\ lock' = running /\ running' = None
      /\ server = "execute" /\ server' = "receive"
      /\ ServerAlive /\ ServerAlive'
      /\ log[running].kind \in StreamKinds
  BY DEF HandleStream, ServerAlive
<1>2. lock = None /\ running \in DOMAIN log /\ log[running].epoch = epoch
  BY <1>1, InvFacts DEF ServerInv, EpochInv
<1>3. From(running) \in Clients
  BY <1>1, <1>2, InvFacts DEF LogInv, StreamKinds, StreamKind, PointerKind, GcKind
<1>4. \A s \in Senders : \A i \in DOMAIN chan[s] : chan[s][i].type # "unlock"
  BY <1>2, InvFacts DEF UnlockInv
<1>5. down = {} /\ monitors = {}
  BY <1>2, InvFacts DEF MonitorInv
<1>6. \A d \in Clients :
        answer'[d] # answer[d] => pc[d] = "calling" /\ cur[d] = running
  BY DEF HandleStream, Reply
<1>7. \A d \in Clients : Holds(d)' => Holds(d) \/ cur[d] = running
  BY <1>1, <1>6 DEF Holds, InCallback
<1>8. \A d \in Clients : ~(Holds(d) /\ Current(cur[d]))
  BY <1>2, InvFacts DEF HolderInv, Holds, ClientsInv, InCallback
<1>9. \A r : Current(r)' => Current(r)
  BY <1>1 DEF Current
<1>10. ClientsInv' /\ LogInv'
  BY <1>1, <1>6, InvFacts DEF ClientsInv, LogInv, InCallback, From
<1>11. EpochInv'
  BY <1>1, <1>2, <1>3, InvFacts DEF EpochInv, From
<1>12. ServerInv'
  BY <1>1, InvFacts DEF ServerInv
<1>13. UnlockInv'
  BY <1>1, <1>4 DEF UnlockInv
<1>14. MonitorInv'
  BY <1>1, <1>2, <1>5 DEF HandleStream, Monitor, MonitorInv, From
<1>15. HolderInv'
  BY <1>1, <1>7, <1>8, <1>9 DEF HolderInv
<1>16. StreamInv'
  <2>1. \A r \in open : ~Current(r)
    BY <1>2, InvFacts DEF StreamInv
  <2>2. \A d \in Clients :
          Holds(d)' /\ log[cur[d]].kind = StreamKind => cur[d] \in open'
    BY <1>1, <1>7, InvFacts DEF StreamInv
  <2> QED
    BY <1>1, <1>9, <2>1, <2>2 DEF StreamInv
<1> QED
  BY <1>1, <1>10, <1>11, <1>12, <1>13, <1>14, <1>15, <1>16 DEF IInv, NoStaleSignal

\* The server dies: whatever it knew is gone, and so is all that was sent to
\* it.  Its successor is of another epoch.
LEMMA ServerDies ==
  ASSUME IInv, TypeOK', Terminate \/ Restart
  PROVE  IInv'
<1>0. \A r \in DOMAIN log : log[r].epoch \in Nat /\ log[r].epoch <= epoch
  <2>1. log \in Seq([kind : Kinds, from : Senders, epoch : Nat])
    BY DEF IInv, TypeOK
  <2>2. \A r \in DOMAIN log : log[r] \in [kind : Kinds, from : Senders, epoch : Nat]
    BY <2>1, ElementOfSeq, LenProperties
  <2>3. \A r \in DOMAIN log : log[r].epoch \in Nat
    BY <2>2
  <2> QED
    BY <2>3, InvFacts DEF LogInv
<1>1. UNCHANGED <<log, pc, cur, answer, open, reading>>
  BY DEF Terminate, Restart, clientVars, streamVars
<1>2. /\ lock' = None /\ running' = None /\ queue' = <<>>
      /\ \A s \in Senders : chan'[s] = <<>>
      /\ down' = {} /\ monitors' = {}
      /\ server' \in {"terminated", "receive"}
  <2>1. CASE Terminate
    BY <2>1 DEF Terminate, Stop
  <2>2. CASE Restart
    BY <2>2, InvFacts DEF Restart, ServerInv, MonitorInv, ServerAlive, lockVars
  <2> QED BY <2>1, <2>2
<1>3. \A r \in DOMAIN log : ~Current(r)'
  <2>1. CASE Terminate
    BY <2>1 DEF Terminate, Stop, Current, ServerAlive
  <2>2. CASE Restart
    <3>1. epoch' = epoch + 1 /\ epoch \in Nat
      BY <2>2 DEF IInv, TypeOK, Restart
    <3> QED
      BY <1>1, <1>0, <3>1 DEF Current
  <2> QED BY <2>1, <2>2
<1>4. LogInv'
  <2>1. epoch \in Nat /\ epoch' \in {epoch, epoch + 1}
    BY DEF IInv, TypeOK, Terminate, Restart
  <2> QED
    BY <1>0, <1>1, <2>1, InvFacts DEF LogInv, From
<1>5. ClientsInv'
  BY <1>1, InvFacts DEF ClientsInv, InCallback, From
<1>6. EpochInv' /\ ServerInv' /\ UnlockInv' /\ MonitorInv'
  BY <1>2 DEF EpochInv, ServerInv, UnlockInv, MonitorInv, ServerAlive
<1>7. \A d \in Clients : Holds(d)' => Holds(d) /\ cur[d] \in DOMAIN log
  BY <1>1, InvFacts DEF Holds, InCallback, ClientsInv
<1>8. HolderInv'
  BY <1>1, <1>3, <1>7 DEF HolderInv
<1>9. StreamInv'
  BY <1>1, <1>2, <1>3, <1>7, InvFacts DEF StreamInv
<1> QED
  BY <1>2, <1>4, <1>5, <1>6, <1>8, <1>9 DEF IInv, NoStaleSignal

\* A NIF call returns, or a stream that nothing refers to is collected.
LEMMA StreamMoves ==
  ASSUME IInv, TypeOK', NEW r \in DOMAIN log, ReadReturns(r) \/ CollectStream(r)
  PROVE  IInv'
<1>1. UNCHANGED <<log, cur, answer, chan, down, server, epoch, running, queue,
                  lock, monitors>>
  BY DEF ReadReturns, CollectStream, clientVars, lockVars
<1>2. \A d \in Clients :
        \/ pc'[d] = pc[d]
        \/ pc[d] = "in_nif" /\ pc'[d] = "callback"
  BY DEF ReadReturns, CollectStream, clientVars
<1>3. open' \subseteq open
      /\ \A q \in open \ open' : lock # q /\ \A d \in Clients : ~Refers(d, q)
  BY DEF ReadReturns, CollectStream, Referenced
<1>4. \A d \in Clients : Holds(d)' <=> Holds(d)
  BY <1>1, <1>2 DEF Holds, InCallback
<1>5. ClientsInv' /\ UnlockInv' /\ MonitorInv'
  BY <1>1, <1>2, InvFacts DEF ClientsInv, UnlockInv, MonitorInv, EpochInv,
    InCallback, From
<1>6. HolderInv'
  BY <1>1, <1>4, InvFacts DEF HolderInv, Current, ServerAlive
<1>7. StreamInv'
  <2>1. \A d \in Clients :
          Holds(d) /\ log[cur[d]].kind = StreamKind => cur[d] \in open'
    BY <1>3, InvFacts DEF StreamInv, Holds, Refers, InCallback
  <2> QED
    BY <1>1, <1>3, <1>4, <2>1, InvFacts DEF StreamInv, Current, ServerAlive
<1> QED
  BY <1>1, <1>5, <1>6, <1>7, ClientFrame DEF IInv

\* Nothing happens.
LEMMA Stutters ==
  ASSUME IInv, UNCHANGED vars, TypeOK'
  PROVE  IInv'
BY ClientFrame, InvFacts
DEF IInv, vars, clientVars, lockVars, streamVars, ClientsInv, UnlockInv, MonitorInv,
  HolderInv, StreamInv, Holds, InCallback, From, Current, ServerAlive

\* IInv holds of every reachable state.
THEOREM Invariance == Spec => []IInv
<1>1. Init => IInv
  <2> SUFFICES ASSUME Init PROVE IInv
    OBVIOUS
  <2>1. <<>> \in Seq(Signals)
    OBVIOUS
  <2>2. /\ log \in Seq([kind : Kinds, from : Senders, epoch : Nat])
        /\ Len(log) <= MaxRequests
        /\ queue \in Seq(DOMAIN log)
    BY ConstantsAssumption DEF Init
  <2>3. TypeOK
    BY <2>1, <2>2 DEF Init, TypeOK, ClientStates, ServerStates, Answers
  <2>4. ClientsInv /\ LogInv /\ EpochInv /\ ServerInv
    BY DEF Init, ClientsInv, LogInv, EpochInv, ServerInv, InCallback, ServerAlive
  <2>5. UnlockInv /\ MonitorInv /\ HolderInv /\ StreamInv /\ NoStaleSignal
    BY DEF Init, UnlockInv, MonitorInv, HolderInv, StreamInv, NoStaleSignal, Holds,
      InCallback
  <2> QED
    BY <2>3, <2>4, <2>5 DEF IInv
<1>2. IInv /\ [Next]_vars => IInv'
  <2> SUFFICES ASSUME IInv, [Next]_vars PROVE IInv'
    OBVIOUS
  <2>1. TypeOK'
    BY InvTypes, ClientTypes, ReceiveTypes, DownTypes, LoopTypes, RuntimeTypes
    DEF Next, Senders, IndType
  <2>2. CASE \E c \in Clients : ClientStep(c)
    <3>1. PICK c \in Clients : ClientStep(c)
      BY <2>2
    <3>2. ASSUME NEW kind \in CallKinds, Call(c, kind)
          PROVE  IInv'
      BY <2>1, <3>2, SendInv, ConstantsAssumption
      DEF Call, Senders, lockVars, streamVars
    <3> QED
      BY <2>1, <3>1, <3>2, ClientMoves, ClientUnlocks, ClientDies DEF ClientStep
  <2>3. CASE ExecuteOnGc
    <3>1. Runtime \notin Clients /\ Runtime \in Senders /\ GcKind \in Kinds
      BY ConstantsAssumption DEF Senders, Kinds
    <3> QED
      BY <2>1, <2>3, <3>1, SendInv DEF ExecuteOnGc
  <2>4. CASE ServerLoop
    BY <2>1, <2>4, ServerTurns, ServerGrants DEF ServerLoop
  <2> QED
    BY <2>1, <2>2, <2>3, <2>4, ServerReceives, ServerUnlocks, ServerReleases,
      ServerDies, StreamMoves, Stutters DEF Next, Senders
<1> QED
  BY <1>1, <1>2, PTL DEF Spec

-----------------------------------------------------------------------------
(* What follows from the invariant.                                        *)

\* No unlock and no DOWN reaches the server that is not for its lock: neither
\* handle_cast nor handle_info ever lacks a clause, whatever clients die, in
\* whatever order their signals arrive.
THEOREM NoStaleSignals == Spec => []NoStaleSignal
BY Invariance, PTL DEF IInv

\* A stream is not released while the client that reads it is in the function
\* that reads it.
THEOREM StreamsStayValid == Spec => []StreamValidInCallback
<1>1. IInv => StreamValidInCallback
  <2> SUFFICES ASSUME IInv, NEW c \in Clients, InCallback(c),
                      log[cur[c]].kind = StreamKind \/ Current(cur[c])
               PROVE  cur[c] \in open
    BY DEF StreamValidInCallback
  <2>1. Holds(c)
    BY DEF Holds
  <2> QED
    BY <2>1, InvFacts DEF StreamInv, HolderInv, ClientsInv, InCallback
<1> QED
  BY <1>1, Invariance, PTL

\* While a client reads a stream, the lock is its own and no queued request
\* executes.
THEOREM CallbacksAreExclusive == Spec => []ExclusiveCallback
<1>1. IInv => ExclusiveCallback
  BY InvFacts DEF ExclusiveCallback, HolderInv, ServerInv, Holds, ClientsInv,
    InCallback
<1> QED
  BY <1>1, Invariance, PTL

\* The connection of a server has one open stream at most, the locked one.
THEOREM OneStreamIsOpen == Spec => []OneOpenStream
<1>1. IInv => OneOpenStream
  BY InvFacts DEF OneOpenStream, StreamInv
<1> QED
  BY <1>1, Invariance, PTL

\* Whenever the server waits for a message with a free lock, its queue is
\* empty: every path through its handlers goes on with the queue.
THEOREM QueueIsServed == Spec => []NoIdleQueue
<1>1. Init => NoIdleQueue
  BY DEF Init, NoIdleQueue
<1>2. IInv /\ NoIdleQueue /\ [Next]_vars => NoIdleQueue'
  <2> SUFFICES ASSUME IInv, NoIdleQueue, [Next]_vars PROVE NoIdleQueue'
    OBVIOUS
  <2>1. ServerInv
    BY DEF IInv
  <2>2. CASE \E c \in Clients : ClientStep(c)
    BY <2>2 DEF NoIdleQueue, ClientStep, Call, Send, ReceiveReply, CallExits,
      OptionTimeout, ReadNext, Unlock, Kill, lockVars
  <2>3. CASE \E s \in Senders : Enqueue(s)
    BY <2>3 DEF NoIdleQueue, Enqueue
  <2>4. CASE \E c \in Clients : HandleOption(c)
    BY <2>4 DEF NoIdleQueue, HandleOption, Receive, lockVars
  <2>5. CASE \E c \in Clients : HandleUnlock(c)
    BY <2>5 DEF NoIdleQueue, HandleUnlock, Stop
  <2>6. CASE \E r \in DOMAIN log : HandleDown(r)
    BY <2>6 DEF NoIdleQueue, HandleDown, Stop
  <2>7. CASE ServerLoop
    <3>1. EndDequeue => NoIdleQueue'
      BY DEF NoIdleQueue, EndDequeue, MayDequeue, lockVars
    <3>2. HandleStream => NoIdleQueue'
      BY <2>1 DEF NoIdleQueue, HandleStream, ServerInv
    <3>3. OptionReturns => NoIdleQueue'
      BY DEF NoIdleQueue, OptionReturns, lockVars
    <3>4. Dequeue \/ HandleCommand \/ HandleStreamError => NoIdleQueue'
      BY DEF NoIdleQueue, Dequeue, HandleCommand, HandleStreamError
    <3> QED
      BY <2>7, <3>1, <3>2, <3>3, <3>4 DEF ServerLoop
  <2>8. CASE Terminate \/ Restart
    BY <2>1, <2>8 DEF NoIdleQueue, Terminate, Restart, Stop, ServerInv, lockVars
  <2>9. CASE ExecuteOnGc \/ \E r \in DOMAIN log : ReadReturns(r) \/ CollectStream(r)
    BY <2>9 DEF NoIdleQueue, ExecuteOnGc, Send, ReadReturns, CollectStream, lockVars
  <2>10. CASE UNCHANGED vars
    BY <2>10 DEF NoIdleQueue, vars, lockVars
  <2> QED
    BY <2>2, <2>3, <2>4, <2>5, <2>6, <2>7, <2>8, <2>9, <2>10 DEF Next
<1> QED
  BY <1>1, <1>2, Invariance, PTL DEF Spec

-----------------------------------------------------------------------------
(* RequestInv: every request is in one place, and its client waits for it. *)

\* Every request has a sender.
LEMMA FromSender ==
  ASSUME TypeOK, NEW r \in DOMAIN log
  PROVE  From(r) \in Senders
<1>1. log \in Seq([kind : Kinds, from : Senders, epoch : Nat])
  BY DEF TypeOK
<1>2. log[r] \in [kind : Kinds, from : Senders, epoch : Nat]
  BY <1>1, ElementOfSeq, LenProperties
<1> QED
  BY <1>2 DEF From

\* What is under way after a signal was appended to the channel of s.
LEMMA SignalSent ==
  ASSUME TypeOK, NEW s \in Senders, NEW e,
         chan' = [chan EXCEPT ![s] = Append(@, e)],
         NEW t \in Senders
  PROVE  /\ \A i \in DOMAIN chan'[t] :
              \/ i \in DOMAIN chan[t] /\ chan'[t][i] = chan[t][i]
              \/ /\ t = s /\ i = Len(chan[s]) + 1 /\ i \notin DOMAIN chan[t]
                 /\ chan'[t][i] = e
         /\ \A i \in DOMAIN chan[t] :
              i \in DOMAIN chan'[t] /\ chan'[t][i] = chan[t][i]
<1>1. chan \in [Senders -> Seq(Signals)]
  BY DEF TypeOK
<1>2. CASE t # s
  BY <1>1, <1>2
<1>3. CASE t = s
  <2>1. chan[s] \in Seq(Signals \union {e}) /\ chan'[t] = Append(chan[s], e)
    BY <1>1, <1>3, SeqMonotonic
  <2>2. Len(chan[s]) + 1 \notin DOMAIN chan[s]
    BY <1>1
  <2>3. /\ DOMAIN chan'[t] = DOMAIN chan[s] \union {Len(chan[s]) + 1}
        /\ \A i \in DOMAIN chan[s] : chan'[t][i] = chan[s][i]
        /\ chan'[t][Len(chan[s]) + 1] = e
    BY <2>1, AppendProperties, LenProperties
  <2> QED
    BY <1>3, <2>2, <2>3
<1> QED
  BY <1>2, <1>3

\* The signal that was sent is under way.
LEMMA SentIsUnderWay ==
  ASSUME TypeOK, NEW s \in Senders, NEW e,
         chan' = [chan EXCEPT ![s] = Append(@, e)]
  PROVE  \E i \in DOMAIN chan'[s] : chan'[s][i] = e
<1>1. chan \in [Senders -> Seq(Signals)]
  BY DEF TypeOK
<1>2. chan[s] \in Seq(Signals \union {e}) /\ chan'[s] = Append(chan[s], e)
  BY <1>1, SeqMonotonic
<1> QED
  BY <1>2, AppendProperties, LenProperties

\* What is under way after the server received a signal from s: all the rest.
LEMMA SignalReceived ==
  ASSUME TypeOK, NEW s \in Senders, chan[s] # <<>>, Consume(s),
         NEW t \in Senders, NEW i \in DOMAIN chan[t]
  PROVE  \/ t = s /\ chan[t][i] = Head(chan[s])
         \/ \E j \in DOMAIN chan'[t] : chan'[t][j] = chan[t][i]
<1>1. chan \in [Senders -> Seq(Signals)] /\ chan' = [chan EXCEPT ![s] = Tail(@)]
  BY DEF TypeOK, Consume
<1>2. CASE t # s
  BY <1>1, <1>2
<1>3. CASE t = s
  <2>1. chan[s] \in Seq(Signals) /\ chan'[t] = Tail(chan[s])
    BY <1>1, <1>3
  <2>2. i = 1 \/ (i - 1 \in DOMAIN Tail(chan[s]) /\ Tail(chan[s])[i - 1] = chan[s][i])
    BY <1>3, <2>1
  <2> QED
    BY <1>3, <2>1, <2>2, HeadTailProperties, LenProperties
<1> QED
  BY <1>2, <1>3

\* What the server still has to do was asked of its present incarnation.
LEMMA PendingIsCurrent ==
  ASSUME IInv, NEW r \in DOMAIN log, Pending(r), From(r) \in Senders
  PROVE  Current(r)
<1>1. Request(r).req = r
  BY DEF Request
<1>2. log[r].epoch = epoch
  BY <1>1, InvFacts DEF Pending, UnderWay, Accepted, EpochInv
<1>3. ServerAlive
  BY InvFacts DEF Pending, UnderWay, Accepted, ServerInv, ServerAlive
<1> QED
  BY <1>2, <1>3 DEF Current

\* A step that sends no request keeps WaitsInv, if it neither makes requests
\* pending nor moves a client that waits for one.
LEMMA WaitsFrame ==
  ASSUME RequestInv, UNCHANGED <<log, cur>>,
         \A r \in DOMAIN log : Pending(r)' => Pending(r),
         \A d \in Clients :
           \/ pc'[d] = pc[d] /\ answer'[d] = answer[d]
           \/ pc'[d] = "dead"
           \/ \A r \in DOMAIN log :
                Pending(r)' /\ From(r) = d => log[r].kind = OptionKind
  PROVE  WaitsInv'
BY DEF RequestInv, WaitsInv, From

\* The requests that are pending do not change with the signals that are not
\* requests, as long as the server keeps what it has.
LEMMA SamePending ==
  ASSUME UNCHANGED <<log, chan, queue, running>>
  PROVE  /\ \A r \in DOMAIN log : Pending(r)' <=> Pending(r)
         /\ OnceInv <=> OnceInv'
<1>1. \A r : Accepted(r)' <=> Accepted(r)
  BY DEF Accepted
<1>2. \A r : From(r)' = From(r)
  BY DEF From
<1> QED
  BY <1>1, <1>2 DEF Pending, UnderWay, OnceInv, From, Request

\* A request is sent.
LEMMA SendRequest ==
  ASSUME RequestInv, NEW s \in Senders, NEW kind \in Kinds, Send(s, kind),
         s = Runtime => UNCHANGED clientVars,
         s \in Clients => /\ pc[s] = "idle"
                          /\ pc' = [pc EXCEPT ![s] = "calling"]
                          /\ cur' = [cur EXCEPT ![s] = Len(log) + 1]
                          /\ UNCHANGED answer,
         UNCHANGED <<down, server, epoch, running, queue, lockVars, streamVars>>
  PROVE  LockInv' /\ OnceInv' /\ WaitsInv'
<1> DEFINE n == Len(log) + 1
           e == Request(n)
<1>0. TypeOK /\ IInv /\ LockInv /\ OnceInv /\ WaitsInv
      /\ UNCHANGED <<down, running, queue, lock, monitors>>
  BY DEF RequestInv, IInv, lockVars
<1>1. /\ DOMAIN log' = DOMAIN log \union {n} /\ n \notin DOMAIN log /\ n # None
      /\ \A r \in DOMAIN log : log'[r] = log[r]
      /\ log'[n].from = s
  <2>1. log'[n] = [kind |-> kind, from |-> s, epoch |-> epoch]
    BY <1>0, LogGrows
  <2>2. /\ DOMAIN log' = DOMAIN log \union {n} /\ n \notin DOMAIN log /\ n # None
        /\ \A r \in DOMAIN log : log'[r] = log[r]
    BY <1>0, LogGrows
  <2> HIDE DEF n
  <2> QED
    BY <2>1, <2>2
<1>2. /\ \A t \in Senders : \A i \in DOMAIN chan'[t] :
           \/ i \in DOMAIN chan[t] /\ chan'[t][i] = chan[t][i]
           \/ /\ t = s /\ i = Len(chan[s]) + 1 /\ i \notin DOMAIN chan[t]
              /\ chan'[t][i] = e
  BY <1>0, SignalSent DEF Send
<1>3. e.type = "request" /\ e.req = n /\ \A r : Request(r) = e => r = n
  BY DEF Request
<1>4. \A t \in Senders : \A i \in DOMAIN chan[t] : chan[t][i].req \in DOMAIN log
  BY <1>0, SignalFacts
<1>5. \A c \in Clients \ {s} : pc'[c] = pc[c] /\ cur'[c] = cur[c]
  BY <1>0, ConstantsAssumption DEF TypeOK, Senders, clientVars
<1>6. s \in Clients => pc'[s] = "calling" /\ cur'[s] = n /\ answer'[s] = "none" /\ pc[s] = "idle"
  BY <1>0 DEF TypeOK, IInv, ClientsInv
<1>7. answer' = answer
  BY ConstantsAssumption DEF Senders, clientVars
<1>8. /\ running \in DOMAIN log \union {None} /\ lock \in DOMAIN log \union {None}
      /\ \A i \in DOMAIN queue : queue[i] \in DOMAIN log
  BY <1>0, InvFacts
<1>9. \A r \in DOMAIN log : Request(r).req = r
  BY DEF Request
<1>10. \A r : Accepted(r)' <=> Accepted(r)
  BY <1>0 DEF Accepted
<1>11. ~Accepted(n)
  BY <1>1, <1>8 DEF Accepted
<1> HIDE DEF n, e
<1>12. LockInv'
  BY <1>0, <1>1, <1>8 DEF LockInv
<1>13. \A r \in DOMAIN log : From(r)' = From(r)
  BY <1>1 DEF From
<1>14. \A r \in DOMAIN log : From(r) \in Senders /\ Pending(r)' => Pending(r)
  BY <1>1, <1>2, <1>3, <1>9, <1>10, <1>13 DEF Pending, UnderWay, Request
<1>15. WaitsInv'
  <2> SUFFICES ASSUME NEW r \in DOMAIN log', Pending(r)', log'[r].kind # OptionKind,
                      From(r)' \in Clients, pc'[From(r)'] # "dead"
               PROVE  /\ pc'[From(r)'] = "calling"
                      /\ cur'[From(r)'] = r
                      /\ answer'[From(r)'] = "none"
    BY DEF WaitsInv
  <2>1. CASE r = n
    BY <1>1, <1>6, <2>1 DEF From
  <2>2. CASE r # n
    <3>1. r \in DOMAIN log /\ From(r)' = From(r) /\ log'[r] = log[r]
      BY <1>1, <1>13, <2>2
    <3>2. From(r) \in Senders /\ Pending(r)
      BY <1>14, <3>1 DEF Senders
    <3>3. CASE From(r) = s
      BY <1>0, <1>6, <3>1, <3>2, <3>3 DEF WaitsInv
    <3>4. CASE From(r) # s
      BY <1>0, <1>5, <1>7, <3>1, <3>2, <3>4 DEF WaitsInv
    <3> QED BY <3>3, <3>4
  <2> QED BY <2>1, <2>2
<1>16. OnceInv'
  <2>1. ASSUME NEW t \in Senders, NEW i \in DOMAIN chan'[t],
               chan'[t][i].type = "request"
        PROVE  /\ log'[chan'[t][i].req].from = t
               /\ ~Accepted(chan'[t][i].req)
               /\ \A j \in DOMAIN chan'[t] : chan'[t][j] = chan'[t][i] => j = i
    <3>1. CASE i \in DOMAIN chan[t] /\ chan'[t][i] = chan[t][i]
      <4>1. \A j \in DOMAIN chan'[t] :
              chan'[t][j] = chan'[t][i] => j \in DOMAIN chan[t] /\ chan'[t][j] = chan[t][j]
        BY <1>1, <1>2, <1>3, <1>4, <3>1
      <4> QED
        BY <1>0, <1>1, <1>4, <2>1, <3>1, <4>1 DEF OnceInv, From
    <3>2. CASE t = s /\ i = Len(chan[s]) + 1 /\ chan'[t][i] = e
      <4>1. chan'[t][i].req = n
        BY <1>3, <3>2
      <4>2. \A j \in DOMAIN chan'[t] : chan'[t][j] = e => j = i
        BY <1>1, <1>2, <1>3, <1>4, <3>2
      <4> QED
        BY <1>1, <1>11, <3>2, <4>1, <4>2
    <3> QED BY <1>2, <3>1, <3>2
  <2> QED
    BY <1>0, <2>1 DEF OnceInv, Accepted, From
<1> QED
  BY <1>12, <1>15, <1>16

\* A client moves on without a signal, or dies.
LEMMA MoveRequest ==
  ASSUME RequestInv, NEW c \in Clients,
         \/ ReceiveReply(c) \/ CallExits(c) \/ OptionTimeout(c) \/ ReadNext(c)
         \/ Kill(c)
  PROVE  LockInv' /\ OnceInv' /\ WaitsInv'
<1>0. IInv /\ LockInv /\ OnceInv /\ WaitsInv
  BY DEF RequestInv
<1>1. UNCHANGED <<log, cur, chan, queue, running, lock>>
  BY DEF ReceiveReply, CallExits, OptionTimeout, ReadNext, Kill, lockVars, streamVars
<1>2. monitors' \union down' = monitors \union down
  BY DEF ReceiveReply, CallExits, OptionTimeout, ReadNext, Kill, lockVars
<1>3. LockInv'
  BY <1>0, <1>1, <1>2 DEF LockInv
<1>4. \A d \in Clients \ {c} : pc'[d] = pc[d] /\ answer'[d] = answer[d]
  BY <1>0, InvFacts DEF ReceiveReply, CallExits, OptionTimeout, ReadNext, Kill
<1>5. pc'[c] # "dead" =>
        \A r \in DOMAIN log : Pending(r) /\ From(r) = c => log[r].kind = OptionKind
  <2> SUFFICES ASSUME pc'[c] # "dead", NEW r \in DOMAIN log, Pending(r), From(r) = c,
                      log[r].kind # OptionKind
               PROVE  FALSE
    OBVIOUS
  <2>1. pc[c] # "dead" /\ ~Kill(c)
    BY <1>0, InvFacts DEF ReceiveReply, CallExits, OptionTimeout, ReadNext, Kill
  <2>2. pc[c] = "calling" /\ cur[c] = r /\ answer[c] = "none"
    BY <1>0, <2>1 DEF WaitsInv
  <2>3. Current(r)
    BY <1>0, PendingIsCurrent DEF Senders
  <2> QED
    BY <2>1, <2>2, <2>3 DEF ReceiveReply, CallExits, OptionTimeout, ReadNext
<1>6. WaitsInv'
  BY <1>1, <1>4, <1>5, SamePending, WaitsFrame
<1> QED
  BY <1>0, <1>1, <1>3, <1>6, SamePending

\* A client unlocks: it waits for no request.
LEMMA UnlockRequest ==
  ASSUME RequestInv, NEW c \in Clients, Unlock(c)
  PROVE  LockInv' /\ OnceInv' /\ WaitsInv'
<1> DEFINE u == Unlocking(cur[c])
<1>0. IInv /\ TypeOK /\ LockInv /\ OnceInv /\ WaitsInv /\ c \in Senders
  BY DEF RequestInv, IInv, Senders
<1>1. UNCHANGED <<log, cur, answer, queue, running, lock, monitors, down>>
  BY DEF Unlock, lockVars, streamVars
<1>2. u.type = "unlock" /\ \A r : Request(r) # u
  BY DEF Unlocking, Request
<1>3. \A t \in Senders : \A i \in DOMAIN chan'[t] :
        \/ i \in DOMAIN chan[t] /\ chan'[t][i] = chan[t][i]
        \/ chan'[t][i] = u
  <2>1. CASE ~Current(cur[c])
    BY <2>1 DEF Unlock
  <2>2. CASE Current(cur[c])
    <3>1. chan' = [chan EXCEPT ![c] = Append(@, u)]
      BY <2>2 DEF Unlock
    <3> HIDE DEF u
    <3> QED
      BY <1>0, <3>1, SignalSent
  <2> QED BY <2>1, <2>2
<1> HIDE DEF u
<1>4. \A r : Accepted(r)' <=> Accepted(r)
  BY <1>1 DEF Accepted
<1>5. \A r : From(r)' = From(r)
  BY <1>1 DEF From
<1>6. \A r \in DOMAIN log : From(r) \in Senders
  BY <1>0, FromSender
<1>7. \A r \in DOMAIN log : Pending(r)' => Pending(r)
  BY <1>2, <1>3, <1>4, <1>5, <1>6 DEF Pending, UnderWay, Request
<1>8. LockInv'
  BY <1>0, <1>1 DEF LockInv
<1>9. OnceInv'
  <2>1. ASSUME NEW t \in Senders, NEW i \in DOMAIN chan'[t],
               chan'[t][i].type = "request"
        PROVE  /\ log'[chan'[t][i].req].from = t
               /\ ~Accepted(chan'[t][i].req)
               /\ \A j \in DOMAIN chan'[t] : chan'[t][j] = chan'[t][i] => j = i
    BY <1>0, <1>1, <1>2, <1>3, <2>1 DEF OnceInv, From
  <2> QED
    BY <1>0, <1>1, <2>1 DEF OnceInv, Accepted, From
<1>10. \A r \in DOMAIN log : Pending(r) /\ From(r) = c => log[r].kind = OptionKind
  BY <1>0 DEF WaitsInv, Unlock
<1>11. \A d \in Clients \ {c} : pc'[d] = pc[d]
  BY <1>0, InvFacts DEF Unlock
<1>12. WaitsInv'
  BY <1>1, <1>7, <1>10, <1>11, WaitsFrame
<1> QED
  BY <1>8, <1>9, <1>12

\* The server takes a signal from the channel of s: a request that it was is
\* under way no more.
LEMMA TakeSignal ==
  ASSUME RequestInv, NEW s \in Senders, chan[s] # <<>>, Consume(s)
  PROVE  LET r == Head(chan[s]).req IN
         /\ r \in DOMAIN log
         /\ Head(chan[s]).type = "request" =>
              /\ Head(chan[s]) = Request(r) /\ UnderWay(s, Request(r))
              /\ From(r) = s /\ ~Accepted(r)
         /\ \A t \in Senders : \A i \in DOMAIN chan'[t] :
              chan'[t][i].type = "request" =>
                /\ Head(chan[s]).type = "request" =>
                     chan'[t][i] # Head(chan[s]) /\ chan'[t][i].req # r
                /\ From(chan'[t][i].req) = t
                /\ ~Accepted(chan'[t][i].req)
                /\ \A j \in DOMAIN chan'[t] : chan'[t][j] = chan'[t][i] => j = i
         /\ \A q \in DOMAIN log :
              UnderWay(From(q), Request(q)) /\ Head(chan[s]) # Request(q)
                => \E i \in DOMAIN chan'[From(q)] : chan'[From(q)][i] = Request(q)
         /\ \A q \in DOMAIN log :
              (\E i \in DOMAIN chan'[From(q)] : chan'[From(q)][i] = Request(q))
                => /\ UnderWay(From(q), Request(q))
                   /\ Head(chan[s]) # Request(q)
<1> DEFINE r == Head(chan[s]).req
<1>0. TypeOK /\ OnceInv
  BY DEF RequestInv, IInv
<1>1. /\ Head(chan[s]) \in Signals /\ r \in DOMAIN log
      /\ Head(chan[s]) = chan[s][1] /\ 1 \in DOMAIN chan[s]
  BY <1>0, ReceiveType
<1>2. \A t \in Senders : \A i \in DOMAIN chan'[t] :
        /\ t = s => i + 1 \in DOMAIN chan[t] /\ chan'[t][i] = chan[t][i + 1]
        /\ t # s => i \in DOMAIN chan[t] /\ chan'[t][i] = chan[t][i]
        /\ i \in Nat \ {0}
  BY <1>0, ConsumeFacts
<1>3. \A t \in Senders : \A i \in DOMAIN chan[t] : chan[t][i] \in Signals
  BY <1>0, SignalFacts
<1>4. \A q \in DOMAIN log : From(q) \in Senders
  BY <1>0, FromSender
<1>5. \A g \in Signals : g.type = "request" => g = Request(g.req)
  BY DEF Signals, Request
<1>6. Head(chan[s]).type = "request" =>
        /\ Head(chan[s]) = Request(r) /\ UnderWay(s, Request(r))
        /\ From(r) = s /\ ~Accepted(r)
  BY <1>0, <1>1, <1>5 DEF OnceInv, UnderWay
<1>7. ASSUME NEW t \in Senders, NEW i \in DOMAIN chan'[t],
             chan'[t][i].type = "request"
      PROVE  /\ chan'[t][i] # Head(chan[s])
             /\ chan'[t][i] = Request(chan'[t][i].req)
             /\ From(chan'[t][i].req) = t
             /\ ~Accepted(chan'[t][i].req)
             /\ \A j \in DOMAIN chan'[t] : chan'[t][j] = chan'[t][i] => j = i
  <2>1. CASE t = s
    <3>1. i + 1 \in DOMAIN chan[s] /\ chan'[t][i] = chan[s][i + 1] /\ i \in Nat \ {0}
      BY <1>2, <2>1
    <3>2. i + 1 # 1
      BY <3>1
    <3>3. chan[s][i + 1] # chan[s][1]
      BY <1>0, <1>1, <1>7, <3>1, <3>2 DEF OnceInv
    <3>4. \A j \in DOMAIN chan'[t] : chan'[t][j] = chan'[t][i] => j + 1 = i + 1
      BY <1>0, <1>2, <1>7, <2>1, <3>1 DEF OnceInv
    <3>5. \A j \in DOMAIN chan'[t] : j + 1 = i + 1 => j = i
      BY <1>2, <3>1
    <3> QED
      BY <1>0, <1>1, <1>3, <1>5, <1>7, <2>1, <3>1, <3>3, <3>4, <3>5 DEF OnceInv
  <2>2. CASE t # s
    <3>1. i \in DOMAIN chan[t] /\ chan'[t][i] = chan[t][i]
      BY <1>2, <2>2
    <3>2. \A j \in DOMAIN chan'[t] : chan'[t][j] = chan'[t][i] => j = i
      BY <1>0, <1>2, <1>7, <2>2, <3>1 DEF OnceInv
    <3>3. /\ chan'[t][i] = Request(chan'[t][i].req)
          /\ From(chan'[t][i].req) = t
          /\ ~Accepted(chan'[t][i].req)
      BY <1>0, <1>3, <1>5, <1>7, <3>1 DEF OnceInv
    <3>4. chan'[t][i] # Head(chan[s])
      BY <1>6, <1>7, <2>2, <3>3
    <3> QED BY <3>2, <3>3, <3>4
  <2> QED BY <2>1, <2>2
<1>8. ASSUME NEW q \in DOMAIN log, UnderWay(From(q), Request(q)),
             Head(chan[s]) # Request(q)
      PROVE  \E i \in DOMAIN chan'[From(q)] : chan'[From(q)][i] = Request(q)
  BY <1>0, <1>4, <1>8, SignalReceived DEF UnderWay
<1>9. ASSUME NEW q \in DOMAIN log,
             NEW i \in DOMAIN chan'[From(q)], chan'[From(q)][i] = Request(q)
      PROVE  UnderWay(From(q), Request(q)) /\ Head(chan[s]) # Request(q)
  <2>1. Request(q).type = "request"
    BY DEF Request
  <2>2. Head(chan[s]) # Request(q)
    BY <1>4, <1>7, <1>9, <2>1
  <2>3. UnderWay(From(q), Request(q))
    BY <1>2, <1>4, <1>9 DEF UnderWay
  <2> QED BY <2>2, <2>3
<1>10. ASSUME NEW t \in Senders, NEW i \in DOMAIN chan'[t],
              chan'[t][i].type = "request", Head(chan[s]).type = "request"
       PROVE  chan'[t][i].req # r
  BY <1>6, <1>7, <1>10
<1> QED
  BY <1>1, <1>6, <1>7, <1>8, <1>9, <1>10

\* The server receives a request.
LEMMA ReceiveRequest ==
  ASSUME RequestInv, NEW s \in Senders, Enqueue(s) \/ HandleOption(s)
  PROVE  /\ LockInv' /\ OnceInv' /\ WaitsInv'
         /\ \A q \in DOMAIN log : Pending(q)' <=> Pending(q)
<1> DEFINE r == Head(chan[s]).req
<1>0. IInv /\ TypeOK /\ LockInv /\ OnceInv
  BY DEF RequestInv, IInv
<1>1. /\ UNCHANGED <<log, pc, cur, answer, lock, monitors, down>>
      /\ chan[s] # <<>> /\ Consume(s) /\ Head(chan[s]).type = "request"
      /\ server = "receive"
  BY DEF Enqueue, HandleOption, Receive, clientVars, lockVars
<1>2. /\ r \in DOMAIN log
      /\ Head(chan[s]) = Request(r) /\ UnderWay(s, Request(r))
      /\ From(r) = s /\ ~Accepted(r)
  BY <1>1, TakeSignal
<1>3. running = None /\ r # None /\ \A i \in DOMAIN queue : queue[i] # None
  BY <1>0, <1>1, <1>2, InvFacts DEF ServerInv
<1>4. /\ \A q : Accepted(q)' /\ q # None <=> (Accepted(q) /\ q # None) \/ q = r
      /\ \A i, j \in DOMAIN queue' : queue'[i] = queue'[j] => i = j
      /\ \A i \in DOMAIN queue' : queue'[i] # running'
  <2>1. CASE Enqueue(s)
    <3>1. queue \in Seq(DOMAIN log) /\ queue' = Append(queue, r) /\ running' = running
      BY <1>0, <2>1 DEF Enqueue, JoinQueue, TypeOK
    <3>2. Len(queue) + 1 \notin DOMAIN queue
      BY <3>1
    <3> HIDE DEF r
    <3>3. /\ DOMAIN queue' = DOMAIN queue \union {Len(queue) + 1}
          /\ \A i \in DOMAIN queue : queue'[i] = queue[i]
          /\ queue'[Len(queue) + 1] = r
      BY <1>2, <3>1, AppendProperties, LenProperties
    <3> QED
      BY <1>0, <1>2, <1>3, <3>1, <3>2, <3>3 DEF Accepted, OnceInv
  <2>2. CASE HandleOption(s)
    <3>1. UNCHANGED queue /\ running' = r
      BY <2>2 DEF HandleOption
    <3> HIDE DEF r
    <3> QED
      BY <1>0, <1>2, <1>3, <3>1 DEF Accepted, OnceInv
  <2> QED BY <2>1, <2>2
<1>5. \A q : From(q)' = From(q)
  BY <1>1 DEF From
<1>6. \A q \in DOMAIN log : Head(chan[s]) = Request(q) <=> q = r
  <2>1. \A q : Request(q).req = q
    BY DEF Request
  <2> QED BY <1>2, <2>1
<1>7. /\ \A q \in DOMAIN log :
           UnderWay(From(q), Request(q)) /\ Head(chan[s]) # Request(q)
             => \E i \in DOMAIN chan'[From(q)] : chan'[From(q)][i] = Request(q)
      /\ \A q \in DOMAIN log :
           (\E i \in DOMAIN chan'[From(q)] : chan'[From(q)][i] = Request(q))
             => UnderWay(From(q), Request(q)) /\ Head(chan[s]) # Request(q)
  BY <1>1, TakeSignal
<1>8. \A t \in Senders : \A i \in DOMAIN chan'[t] :
        chan'[t][i].type = "request" =>
          /\ chan'[t][i].req # r
          /\ From(chan'[t][i].req) = t
          /\ ~Accepted(chan'[t][i].req)
          /\ \A j \in DOMAIN chan'[t] : chan'[t][j] = chan'[t][i] => j = i
  BY <1>1, TakeSignal
<1>9. None \notin DOMAIN log
  BY <1>0, InvFacts
<1> HIDE DEF r
<1>10. \A q \in DOMAIN log : Pending(q)' <=> Pending(q)
  <2>1. \A q \in DOMAIN log : Pending(q)' <=>
           (\E i \in DOMAIN chan'[From(q)] : chan'[From(q)][i] = Request(q)) \/ Accepted(q)'
    BY <1>5 DEF Pending, UnderWay, Request
  <2> QED
    BY <1>2, <1>4, <1>6, <1>7, <1>9, <2>1 DEF Pending
<1>11. WaitsInv'
  BY <1>1, <1>10, WaitsFrame
<1>12. LockInv'
  BY <1>0, <1>1 DEF LockInv
<1>13. \A t \in Senders : \A i \in DOMAIN chan'[t] : chan'[t][i].req \in DOMAIN log
  <2>1. \A t \in Senders : \A i \in DOMAIN chan[t] : chan[t][i].req \in DOMAIN log
    BY <1>0, SignalFacts
  <2> QED
    BY <1>0, <1>1, <2>1, ConsumeFacts
<1>14. OnceInv'
  <2>0. \A q \in DOMAIN log : ~Accepted(q) /\ q # r =>
          running' # q /\ \A k \in DOMAIN queue' : queue'[k] # q
    <3>1. \A q \in DOMAIN log : Accepted(q)' <=> Accepted(q) \/ q = r
      BY <1>2, <1>4, <1>9
    <3>2. \A q : ~Accepted(q)' =>
            running' # q /\ \A k \in DOMAIN queue' : queue'[k] # q
      BY DEF Accepted
    <3> QED BY <3>1, <3>2
  <2>1. \A t \in Senders : \A i \in DOMAIN chan'[t] :
          chan'[t][i].type = "request" =>
            /\ log'[chan'[t][i].req].from = t
            /\ running' # chan'[t][i].req
            /\ \A k \in DOMAIN queue' : queue'[k] # chan'[t][i].req
            /\ \A j \in DOMAIN chan'[t] : chan'[t][j] = chan'[t][i] => j = i
    BY <1>1, <1>8, <1>13, <2>0 DEF From
  <2> QED
    BY <1>4, <2>1 DEF OnceInv, Accepted, From
<1> QED
  BY <1>10, <1>11, <1>12, <1>14

\* The lock is given back, by an unlock or by a DOWN: both are for it.
LEMMA ReleaseFacts ==
  ASSUME IInv, NoStaleSignal',
         \/ \E c \in Clients : HandleUnlock(c)
         \/ \E r \in DOMAIN log : HandleDown(r)
  PROVE  /\ UNCHANGED <<log, pc, cur, answer, epoch, running, queue>>
         /\ server = "receive" /\ server' = "dequeue"
         /\ lock # None /\ lock' = None
<1>1. CASE \E c \in Clients : HandleUnlock(c)
  <2>1. PICK c \in Clients : HandleUnlock(c)
    BY <1>1
  <2>2. lock = Head(chan[c]).req /\ UNCHANGED <<running, queue>>
        /\ lock' = None /\ server' = "dequeue"
    BY <2>1 DEF HandleUnlock, NoStaleSignal, Stop
  <2>3. c \in Senders /\ TypeOK /\ chan[c] # <<>>
    BY <2>1 DEF HandleUnlock, Receive, IInv, Senders
  <2>4. lock # None
    BY <2>2, <2>3, ReceiveType, InvFacts
  <2> QED
    BY <2>1, <2>2, <2>4 DEF HandleUnlock, Receive, clientVars
<1>2. CASE \E r \in DOMAIN log : HandleDown(r)
  BY <1>2, InvFacts DEF HandleDown, NoStaleSignal, Stop, clientVars
<1> QED
  BY <1>1, <1>2

\* No request is touched when the lock is given back.
LEMMA ReleaseRequest ==
  ASSUME RequestInv, NoStaleSignal',
         \/ \E c \in Clients : HandleUnlock(c)
         \/ \E r \in DOMAIN log : HandleDown(r)
  PROVE  /\ LockInv' /\ OnceInv' /\ WaitsInv'
         /\ \A q \in DOMAIN log : Pending(q)' <=> Pending(q)
<1>0. IInv /\ OnceInv /\ TypeOK
  BY DEF RequestInv, IInv
<1>1. UNCHANGED <<log, pc, cur, answer, running, queue>> /\ lock' = None
  BY <1>0, ReleaseFacts
<1>2. LockInv'
  BY <1>1 DEF LockInv
<1>3. CASE \E c \in Clients : HandleUnlock(c)
  <2>1. PICK c \in Clients : HandleUnlock(c)
    BY <1>3
  <2>2. /\ Consume(c) /\ c \in Senders /\ chan[c] # <<>>
        /\ Head(chan[c]).type = "unlock"
    BY <2>1 DEF HandleUnlock, Receive, NoStaleSignal, Stop, Senders
  <2>3. \A q : Head(chan[c]) # Request(q)
    BY <2>2 DEF Request
  <2>4. \A q \in DOMAIN log :
          UnderWay(From(q), Request(q)) <=>
            \E i \in DOMAIN chan'[From(q)] : chan'[From(q)][i] = Request(q)
    BY <2>2, <2>3, TakeSignal
  <2>5. \A q : (Accepted(q)' <=> Accepted(q)) /\ From(q)' = From(q)
    BY <1>1 DEF Accepted, From
  <2>6. \A q \in DOMAIN log : Pending(q)' <=> Pending(q)
    <3>1. \A q \in DOMAIN log : Pending(q)' <=>
             (\E i \in DOMAIN chan'[From(q)] : chan'[From(q)][i] = Request(q)) \/ Accepted(q)'
      BY <2>5 DEF Pending, UnderWay, Request
    <3> QED
      BY <2>4, <2>5, <3>1 DEF Pending
  <2>7. \A t \in Senders : \A i \in DOMAIN chan'[t] :
          chan'[t][i].type = "request" =>
            /\ From(chan'[t][i].req) = t
            /\ ~Accepted(chan'[t][i].req)
            /\ \A j \in DOMAIN chan'[t] : chan'[t][j] = chan'[t][i] => j = i
    BY <2>2, TakeSignal
  <2>8. OnceInv'
    BY <1>0, <1>1, <2>7 DEF OnceInv, Accepted, From
  <2>9. WaitsInv'
    BY <1>1, <2>6, WaitsFrame
  <2> QED
    BY <1>2, <2>6, <2>8, <2>9
<1>4. CASE \E r \in DOMAIN log : HandleDown(r)
  <2>1. UNCHANGED chan
    BY <1>4 DEF HandleDown, NoStaleSignal, Stop
  <2>2. OnceInv' /\ \A q \in DOMAIN log : Pending(q)' <=> Pending(q)
    BY <1>0, <1>1, <2>1, SamePending
  <2>3. WaitsInv'
    BY <1>1, <2>2, WaitsFrame
  <2> QED
    BY <1>2, <2>2, <2>3
<1> QED
  BY <1>3, <1>4

\* The server finishes the request it executes: nothing of it is left.
LEMMA FinishRequest ==
  ASSUME RequestInv, HandleCommand \/ HandleStreamError \/ HandleStream \/ OptionReturns
  PROVE  /\ OnceInv' /\ WaitsInv'
         /\ running \in DOMAIN log
         /\ \A q \in DOMAIN log : q = running => ~Pending(q)'
         /\ \A q \in DOMAIN log : q # running => (Pending(q)' <=> Pending(q))
         /\ \E a \in {"ok", "error"} : Reply(running, a)
<1>0. IInv /\ TypeOK /\ OnceInv /\ WaitsInv
  BY DEF RequestInv, IInv
<1>1. /\ UNCHANGED <<log, pc, cur, chan, queue>> /\ running' = None
      /\ server \in {"execute", "option"}
      /\ \E a \in {"ok", "error"} : Reply(running, a)
  BY DEF HandleCommand, HandleStreamError, HandleStream, OptionReturns
<1>2. running \in DOMAIN log /\ None \notin DOMAIN log
  BY <1>0, <1>1, InvFacts DEF ServerInv
<1>3. /\ \A q \in DOMAIN log : Accepted(q)' <=> Accepted(q) /\ q # running
      /\ Accepted(running)
  <2>1. \A q \in DOMAIN log : Accepted(q)' <=> \E i \in DOMAIN queue : queue[i] = q
    BY <1>1, <1>2 DEF Accepted
  <2>2. \A i \in DOMAIN queue : queue[i] # running
    BY <1>0 DEF OnceInv
  <2> QED
    BY <2>1, <2>2 DEF Accepted
<1>4. \A q : From(q)' = From(q) /\ (UnderWay(From(q), Request(q))' <=> UnderWay(From(q), Request(q)))
  BY <1>1 DEF From, UnderWay, Request
<1>5. ~UnderWay(From(running), Request(running))
  <2> SUFFICES ASSUME NEW i \in DOMAIN chan[From(running)],
                      chan[From(running)][i] = Request(running)
               PROVE  FALSE
    BY DEF UnderWay
  <2>1. From(running) \in Senders
    BY <1>0, <1>2, FromSender
  <2> QED
    BY <1>0, <1>3, <2>1 DEF OnceInv, Request
<1>6. /\ \A q \in DOMAIN log : q # running => (Pending(q)' <=> Pending(q))
      /\ \A q \in DOMAIN log : q = running => ~Pending(q)'
  BY <1>2, <1>3, <1>4, <1>5 DEF Pending
<1>7. OnceInv'
  <2>1. \A i \in DOMAIN queue : queue[i] # None
    BY <1>0, <1>2, InvFacts
  <2>2. \A t \in Senders : \A i \in DOMAIN chan[t] :
          chan[t][i].type = "request" =>
            /\ From(chan[t][i].req) = t
            /\ chan[t][i].req # None
            /\ \A k \in DOMAIN queue : queue[k] # chan[t][i].req
            /\ \A j \in DOMAIN chan[t] : chan[t][j] = chan[t][i] => j = i
    BY <1>0, <1>2, InvFacts DEF OnceInv, Accepted
  <2> QED
    BY <1>0, <1>1, <2>1, <2>2 DEF OnceInv, Accepted, From
<1>8. \A d \in Clients :
        \/ pc'[d] = pc[d] /\ answer'[d] = answer[d]
        \/ \A r \in DOMAIN log :
             Pending(r)' /\ From(r) = d => log[r].kind = OptionKind
  <2> SUFFICES ASSUME NEW d \in Clients, answer'[d] # answer[d],
                      NEW r \in DOMAIN log, Pending(r)', From(r) = d,
                      log[r].kind # OptionKind
               PROVE  FALSE
    BY <1>1
  <2>1. pc[d] = "calling" /\ cur[d] = running
    BY <1>1 DEF Reply
  <2>2. r # running /\ Pending(r)
    BY <1>6
  <2>3. cur[d] = r
    BY <1>0, <2>1, <2>2 DEF WaitsInv
  <2> QED
    BY <2>1, <2>2, <2>3
<1>9. WaitsInv'
  BY <1>1, <1>6, <1>8, WaitsFrame
<1> QED
  BY <1>1, <1>2, <1>6, <1>7, <1>9

\* The server takes a request from its queue, or finds none to take.
LEMMA DequeueRequest ==
  ASSUME RequestInv, EndDequeue \/ Dequeue
  PROVE  /\ LockInv' /\ OnceInv' /\ WaitsInv'
         /\ \A q \in DOMAIN log : Pending(q)' <=> Pending(q)
<1>0. IInv /\ TypeOK /\ LockInv /\ OnceInv /\ WaitsInv
  BY DEF RequestInv, IInv
<1>1. CASE EndDequeue
  <2>1. UNCHANGED <<log, pc, cur, answer, chan, queue, running, lock, monitors, down>>
    BY <1>1 DEF EndDequeue, clientVars, lockVars
  <2>2. OnceInv' /\ \A q \in DOMAIN log : Pending(q)' <=> Pending(q)
    BY <1>0, <2>1, SamePending
  <2>3. WaitsInv'
    BY <2>1, <2>2, WaitsFrame
  <2> QED
    BY <1>0, <2>1, <2>2, <2>3 DEF LockInv
<1>2. CASE Dequeue
  <2>1. /\ UNCHANGED <<log, pc, cur, answer, chan, lock, monitors, down>>
        /\ queue # <<>> /\ running' = Head(queue) /\ queue' = Tail(queue)
        /\ queue \in Seq(DOMAIN log) /\ server = "dequeue"
    BY <1>0, <1>2 DEF Dequeue, MayDequeue, clientVars, lockVars, TypeOK
  <2>2. running = None /\ \A i \in DOMAIN queue : queue[i] # None
    BY <1>0, <2>1, InvFacts DEF ServerInv
  <2>3. /\ running' = queue[1] /\ 1 \in DOMAIN queue
        /\ \A i \in DOMAIN queue' : /\ i + 1 \in DOMAIN queue /\ i + 1 # 1
                                    /\ queue'[i] = queue[i + 1]
        /\ \A i \in DOMAIN queue : i = 1 \/ \E j \in DOMAIN queue' : queue'[j] = queue[i]
        /\ \A i, j \in DOMAIN queue' : i + 1 = j + 1 => i = j
    <3>1. /\ DOMAIN queue = 1..Len(queue) /\ DOMAIN queue' = 1..(Len(queue) - 1)
          /\ Len(queue) \in Nat \ {0}
          /\ \A i \in DOMAIN queue' : queue'[i] = queue[i + 1]
      BY <2>1
    <3>2. \A i \in DOMAIN queue : i = 1 \/ (i - 1 \in DOMAIN queue' /\ queue'[i - 1] = queue[i])
      BY <3>1
    <3>3. running' = queue[1] /\ 1 \in DOMAIN queue
      BY <2>1
    <3>4. \A i \in DOMAIN queue' : i + 1 \in DOMAIN queue /\ i + 1 # 1
      BY <3>1
    <3>5. \A i, j \in DOMAIN queue' : i + 1 = j + 1 => i = j
      BY <3>1
    <3> QED
      BY <3>1, <3>2, <3>3, <3>4, <3>5
  <2>4. \A q : q # None => (Accepted(q)' <=> Accepted(q))
    BY <2>2, <2>3 DEF Accepted
  <2>5. \A q \in DOMAIN log : Accepted(q)' <=> Accepted(q)
    BY <1>0, <2>4, InvFacts
  <2>6. \A q : From(q)' = From(q) /\ (UnderWay(From(q), Request(q))' <=> UnderWay(From(q), Request(q)))
    BY <2>1 DEF From, UnderWay, Request
  <2>7. \A q \in DOMAIN log : Pending(q)' <=> Pending(q)
    BY <2>5, <2>6 DEF Pending
  <2>8. WaitsInv'
    BY <2>1, <2>7, WaitsFrame
  <2>9. OnceInv'
    <3>1. \A q \in DOMAIN log : ~Accepted(q) =>
            running' # q /\ \A k \in DOMAIN queue' : queue'[k] # q
      BY <2>5 DEF Accepted
    <3>2. \A t \in Senders : \A i \in DOMAIN chan[t] :
            chan[t][i].type = "request" =>
              /\ From(chan[t][i].req) = t
              /\ running' # chan[t][i].req
              /\ \A k \in DOMAIN queue' : queue'[k] # chan[t][i].req
              /\ \A j \in DOMAIN chan[t] : chan[t][j] = chan[t][i] => j = i
      BY <1>0, <3>1, InvFacts DEF OnceInv
    <3>3. /\ \A i, j \in DOMAIN queue' : queue'[i] = queue'[j] => i = j
          /\ \A i \in DOMAIN queue' : queue'[i] # running'
      BY <1>0, <2>3 DEF OnceInv
    <3> QED
      BY <2>1, <3>2, <3>3 DEF OnceInv, Accepted, From
  <2> QED
    BY <1>0, <2>1, <2>7, <2>8, <2>9 DEF LockInv
<1> QED
  BY <1>1, <1>2

\* The loop of the server keeps the requests in their places.
LEMMA LoopRequest ==
  ASSUME RequestInv, ServerLoop
  PROVE  LockInv' /\ OnceInv' /\ WaitsInv'
<1>0. LockInv
  BY DEF RequestInv
<1>1. CASE HandleCommand \/ HandleStreamError \/ OptionReturns
  <2>1. UNCHANGED <<log, lock, monitors, down>>
    BY <1>1 DEF HandleCommand, HandleStreamError, OptionReturns, lockVars
  <2> QED
    BY <1>0, <1>1, <2>1, FinishRequest DEF LockInv
<1>2. CASE HandleStream
  <2>1. /\ log' = log /\ lock' = running /\ log[running].kind \in StreamKinds
        /\ running \in monitors' \union down'
    BY <1>2 DEF HandleStream, Monitor
  <2> QED
    BY <1>2, <2>1, FinishRequest DEF LockInv
<1> QED
  BY <1>1, <1>2, DequeueRequest DEF ServerLoop

\* The server dies: no request is pending.
LEMMA DeathRequest ==
  ASSUME RequestInv, Terminate \/ Restart
  PROVE  LockInv' /\ OnceInv' /\ WaitsInv'
<1>0. IInv
  BY DEF RequestInv
<1>1. /\ lock' = None /\ running' = None /\ queue' = <<>>
      /\ \A s \in Senders : chan'[s] = <<>>
      /\ UNCHANGED log
  <2>1. CASE Terminate
    BY <2>1 DEF Terminate, Stop
  <2>2. CASE Restart
    BY <1>0, <2>2, InvFacts DEF Restart, ServerInv, ServerAlive, lockVars
  <2> QED BY <2>1, <2>2
<1>2. \A r \in DOMAIN log : From(r)' \in Clients => ~Pending(r)'
  <2>1. None \notin DOMAIN log /\ Clients \subseteq Senders
    BY <1>0, InvFacts
  <2> QED
    BY <1>1, <2>1 DEF Pending, UnderWay, Accepted
<1>3. WaitsInv'
  BY <1>1, <1>2 DEF WaitsInv
<1> QED
  BY <1>1, <1>3 DEF LockInv, OnceInv

\* A NIF call returns, a stream is collected, or nothing happens.
LEMMA QuietRequest ==
  ASSUME RequestInv,
         \/ \E r \in DOMAIN log : ReadReturns(r) \/ CollectStream(r)
         \/ UNCHANGED vars
  PROVE  LockInv' /\ OnceInv' /\ WaitsInv'
<1>0. IInv /\ TypeOK /\ LockInv /\ OnceInv /\ WaitsInv
  BY DEF RequestInv, IInv
<1>1. UNCHANGED <<log, cur, answer, chan, queue, running, lock, monitors, down>>
  BY DEF ReadReturns, CollectStream, clientVars, lockVars, vars
<1>2. OnceInv' /\ \A q \in DOMAIN log : Pending(q)' <=> Pending(q)
  BY <1>0, <1>1, SamePending
<1>3. \A d \in Clients : pc'[d] = pc[d] \/ pc[d] = "in_nif"
  BY DEF ReadReturns, CollectStream, clientVars, vars
<1>4. \A d \in Clients : pc[d] = "in_nif" =>
        \A r \in DOMAIN log : Pending(r)' /\ From(r) = d => log[r].kind = OptionKind
  BY <1>0, <1>2 DEF WaitsInv
<1>5. WaitsInv'
  BY <1>1, <1>2, <1>3, <1>4, WaitsFrame
<1> QED
  BY <1>0, <1>1, <1>2, <1>5 DEF LockInv

\* RequestInv holds of every reachable state.
THEOREM RequestInvariance == Spec => []RequestInv
<1>1. Init => LockInv /\ OnceInv /\ WaitsInv
  BY DEF Init, LockInv, OnceInv, WaitsInv
<1>2. RequestInv /\ IInv' /\ [Next]_vars => LockInv' /\ OnceInv' /\ WaitsInv'
  <2> SUFFICES ASSUME RequestInv, IInv', [Next]_vars
               PROVE  LockInv' /\ OnceInv' /\ WaitsInv'
    OBVIOUS
  <2>1. CASE \E c \in Clients : ClientStep(c)
    <3>1. PICK c \in Clients : ClientStep(c)
      BY <2>1
    <3>2. ASSUME NEW kind \in CallKinds, Call(c, kind)
          PROVE  LockInv' /\ OnceInv' /\ WaitsInv'
      BY <3>2, SendRequest, ConstantsAssumption DEF Call, Senders, lockVars, streamVars
    <3> QED
      BY <3>1, <3>2, MoveRequest, UnlockRequest DEF ClientStep
  <2>2. CASE ExecuteOnGc
    <3>1. Runtime \notin Clients /\ Runtime \in Senders /\ GcKind \in Kinds
      BY ConstantsAssumption DEF Senders, Kinds
    <3> QED
      BY <2>2, <3>1, SendRequest DEF ExecuteOnGc
  <2>3. NoStaleSignal'
    BY DEF IInv
  <2> QED
    BY <2>1, <2>2, <2>3, ReceiveRequest, ReleaseRequest, LoopRequest, DeathRequest,
      QuietRequest DEF Next, Senders
<1> QED
  BY <1>1, <1>2, Invariance, PTL DEF Spec, RequestInv

-----------------------------------------------------------------------------
(* The lock is never lost.                                                 *)

\* Client c is the one that will give the lock back.
Owner(c) ==
  /\ cur[c] = lock
  /\ InCallback(c) \/ (pc[c] = "calling" /\ answer[c] = "ok")

\* The signals under way stay there until the server receives one.
LEMMA SignalsStay ==
  ASSUME TypeOK, NEW s \in Senders, NEW e,
         \/ UNCHANGED chan
         \/ \E t \in Senders : \E g : chan' = [chan EXCEPT ![t] = Append(@, g)]
         \/ \E t \in Senders : chan[t] # <<>> /\ Consume(t) /\ (t = s => Head(chan[t]) # e),
         UnderWay(s, e)
  PROVE  \E i \in DOMAIN chan'[s] : chan'[s][i] = e
<1>1. CASE UNCHANGED chan
  BY <1>1 DEF UnderWay
<1>2. ASSUME NEW t \in Senders, NEW g, chan' = [chan EXCEPT ![t] = Append(@, g)]
      PROVE  \E i \in DOMAIN chan'[s] : chan'[s][i] = e
  BY <1>2, SignalSent DEF UnderWay
<1>3. ASSUME NEW t \in Senders, chan[t] # <<>>, Consume(t), t = s => Head(chan[t]) # e
      PROVE  \E i \in DOMAIN chan'[s] : chan'[s][i] = e
  BY <1>3, SignalReceived DEF UnderWay
<1> QED
  BY <1>1, <1>2, <1>3

\* A step that leaves the lock, its watchers and its owner where they are.
LEMMA LockStays ==
  ASSUME RequestInv, LockWillBeReleased, UNCHANGED <<log, lock>>,
         lock # None,
         down \subseteq down',
         \A e : e.type = "unlock" /\ UnderWay(From(lock), e) =>
                  \E i \in DOMAIN chan'[From(lock)] : chan'[From(lock)][i] = e,
         \A c \in Clients : Owner(c) =>
           \/ cur'[c] = cur[c] /\ (InCallback(c)' \/ (pc'[c] = "calling" /\ answer'[c] = "ok"))
           \/ lock \in down'
           \/ \E i \in DOMAIN chan'[From(lock)] : chan'[From(lock)][i] = Unlocking(lock)
  PROVE  LockWillBeReleased'
<1>1. Unlocking(lock).type = "unlock"
  BY DEF Unlocking
<1>2. UnderWay(From(lock), Unlocking(lock))' <=>
        \E i \in DOMAIN chan'[From(lock)] : chan'[From(lock)][i] = Unlocking(lock)
  BY DEF UnderWay, From, Unlocking
<1>3. CASE \E c \in Clients : Owner(c)
  <2>1. PICK c \in Clients : Owner(c)
    BY <1>3
  <2> QED
    BY <1>2, <2>1 DEF LockWillBeReleased, Owner
<1>4. CASE UnderWay(From(lock), Unlocking(lock))
  BY <1>1, <1>2, <1>4 DEF LockWillBeReleased
<1>5. CASE lock \in down
  BY <1>5 DEF LockWillBeReleased
<1> QED
  BY <1>3, <1>4, <1>5 DEF LockWillBeReleased, Owner

\* The owner of the lock moves on, gives it back, or dies.
LEMMA ClientKeepsLock ==
  ASSUME RequestInv, LockWillBeReleased, lock # None, NEW c \in Clients,
         ClientStep(c)
  PROVE  LockWillBeReleased'
<1>0. IInv /\ TypeOK /\ LockInv /\ c \in Senders /\ From(lock) \in Senders
  <2>1. IInv /\ TypeOK /\ LockInv
    BY DEF RequestInv, IInv
  <2> QED
    BY <2>1, InvFacts DEF EpochInv, Senders
<1>1. \A e : (UNCHANGED chan \/ \E g : chan' = [chan EXCEPT ![c] = Append(@, g)])
             /\ UnderWay(From(lock), e)
               => \E i \in DOMAIN chan'[From(lock)] : chan'[From(lock)][i] = e
  BY <1>0, SignalsStay
<1>2. CASE \E kind \in CallKinds : Call(c, kind)
  <2>1. PICK kind \in CallKinds : Call(c, kind)
    BY <1>2
  <2>2. Send(c, kind) /\ kind \in Kinds
    BY <2>1, ConstantsAssumption DEF Call
  <2>3. /\ pc[c] = "idle" /\ answer' = answer /\ lock' = lock /\ down' = down
        /\ \A d \in Clients \ {c} : pc'[d] = pc[d] /\ cur'[d] = cur[d]
        /\ From(lock)' = From(lock)
    <3>1. lock \in DOMAIN log
      BY <1>0, InvFacts
    <3>2. \A r \in DOMAIN log : log'[r] = log[r]
      BY <1>0, <2>2, LogGrows
    <3> QED
      BY <1>0, <2>1, <3>1, <3>2 DEF Call, TypeOK, From, lockVars
  <2>4. \A e : UnderWay(From(lock), e) =>
          \E i \in DOMAIN chan'[From(lock)] : chan'[From(lock)][i] = e
    BY <1>1, <2>2 DEF Send
  <2>5. UnderWay(From(lock), Unlocking(lock))' <=>
          \E i \in DOMAIN chan'[From(lock)] : chan'[From(lock)][i] = Unlocking(lock)
    BY <2>3 DEF UnderWay, Unlocking
  <2>6. ASSUME NEW d \in Clients, Owner(d)
        PROVE  LockWillBeReleased'
    BY <2>3, <2>6 DEF LockWillBeReleased, Owner, InCallback
  <2> QED
    BY <2>3, <2>4, <2>5, <2>6 DEF LockWillBeReleased, Owner
<1>3. CASE ReceiveReply(c)
  <2>1. Owner(c) => pc'[c] = "callback"
    BY <1>0, <1>3, InvFacts DEF Owner, ReceiveReply, LockInv, InCallback
  <2>2. /\ UNCHANGED <<log, lock, down, chan, cur>>
        /\ \A d \in Clients \ {c} : pc'[d] = pc[d] /\ answer'[d] = answer[d]
    BY <1>0, <1>3, InvFacts DEF ReceiveReply, lockVars
  <2> QED
    BY <1>1, <2>1, <2>2, LockStays DEF Owner, InCallback
<1>4. CASE CallExits(c) \/ OptionTimeout(c) \/ ReadNext(c)
  <2>1. Owner(c) => InCallback(c)'
    BY <1>0, <1>4, InvFacts DEF Owner, CallExits, OptionTimeout, ReadNext, InCallback
  <2>2. /\ UNCHANGED <<log, lock, down, chan, cur>>
        /\ \A d \in Clients \ {c} : pc'[d] = pc[d] /\ answer'[d] = answer[d]
    BY <1>0, <1>4, InvFacts DEF CallExits, OptionTimeout, ReadNext, lockVars
  <2> QED
    BY <1>1, <2>1, <2>2, LockStays DEF Owner, InCallback
<1>5. CASE Unlock(c)
  <2>1. /\ UNCHANGED <<log, lock, down, cur, answer>>
        /\ \A d \in Clients \ {c} : pc'[d] = pc[d]
    BY <1>0, <1>5, InvFacts DEF Unlock, lockVars
  <2>2. UNCHANGED chan \/ \E g : chan' = [chan EXCEPT ![c] = Append(@, g)]
    BY <1>5 DEF Unlock
  <2>3. ASSUME Owner(c)
        PROVE  \E i \in DOMAIN chan'[From(lock)] : chan'[From(lock)][i] = Unlocking(lock)
    <3>1. cur[c] = lock /\ From(lock) = c /\ Current(lock)
      BY <1>0, <1>5, <2>3, InvFacts
      DEF Owner, Unlock, ClientsInv, EpochInv, ServerInv, Current, ServerAlive
    <3> DEFINE u == Unlocking(lock)
    <3>2. chan' = [chan EXCEPT ![c] = Append(@, u)]
      BY <1>5, <3>1 DEF Unlock
    <3> HIDE DEF u
    <3>3. \E i \in DOMAIN chan'[c] : chan'[c][i] = u
      BY <1>0, <3>2, SentIsUnderWay
    <3> QED
      BY <3>1, <3>3 DEF u
  <2> QED
    BY <1>1, <2>1, <2>2, <2>3, LockStays DEF Owner, InCallback
<1>6. CASE Kill(c)
  <2>1. /\ UNCHANGED <<log, lock, chan, cur>> /\ down \subseteq down'
        /\ \A d \in Clients \ {c} : pc'[d] = pc[d] /\ answer'[d] = answer[d]
    BY <1>0, <1>6, InvFacts DEF Kill
  <2>2. Owner(c) => lock \in down'
    <3>1. Owner(c) => From(lock) = c
      BY <1>0, InvFacts DEF Owner, ClientsInv, InCallback
    <3> QED
      BY <1>0, <1>6, <3>1 DEF Kill, LockInv
  <2> QED
    BY <1>1, <2>1, <2>2, LockStays DEF Owner, InCallback
<1> QED
  BY <1>2, <1>3, <1>4, <1>5, <1>6 DEF ClientStep

\* The server keeps the lock, or grants it to a client that waits for it.
LEMMA ServerKeepsLock ==
  ASSUME RequestInv, LockWillBeReleased,
         ServerLoop \/ \E s \in Senders : Enqueue(s) \/ HandleOption(s)
  PROVE  LockWillBeReleased'
<1>0. IInv /\ TypeOK /\ LockInv /\ WaitsInv
  BY DEF RequestInv, IInv
<1>1. CASE HandleStream
  <2>1. running \in DOMAIN log /\ From(running) \in Clients /\ Pending(running)
        /\ log[running].kind # OptionKind
    BY <1>0, <1>1, InvFacts
    DEF HandleStream, ServerInv, LogInv, Pending, Accepted, StreamKinds,
      StreamKind, PointerKind, GcKind
  <2>2. lock' = running /\ Monitor(running) /\ Reply(running, "ok")
        /\ UNCHANGED <<log, pc, cur>>
    BY <1>1 DEF HandleStream
  <2>3. CASE pc[From(running)] = "dead"
    BY <2>2, <2>3 DEF Monitor, LockWillBeReleased
  <2>4. CASE pc[From(running)] # "dead"
    <3>1. pc[From(running)] = "calling" /\ cur[From(running)] = running
      BY <1>0, <2>1, <2>4 DEF WaitsInv
    <3>2. answer'[From(running)] = "ok"
      BY <2>1, <2>2, <3>1 DEF Reply
    <3> QED
      BY <2>1, <2>2, <3>1, <3>2 DEF LockWillBeReleased
  <2> QED BY <2>3, <2>4
<1>2. CASE lock = None /\ ~HandleStream
  <2>1. lock' = None
    BY <1>2 DEF ServerLoop, EndDequeue, Dequeue, HandleCommand, HandleStreamError,
      OptionReturns, Enqueue, HandleOption, lockVars
  <2> QED BY <2>1 DEF LockWillBeReleased
<1>3. CASE lock # None /\ ~HandleStream
  <2>1. UNCHANGED <<log, lock, down, pc, cur>>
    BY <1>3 DEF ServerLoop, EndDequeue, Dequeue, HandleCommand, HandleStreamError,
      OptionReturns, Enqueue, HandleOption, lockVars, clientVars
  <2>2. From(lock) \in Senders
    BY <1>0, <1>3, InvFacts DEF EpochInv
  <2>3. \A e : e.type = "unlock" /\ UnderWay(From(lock), e) =>
          \E i \in DOMAIN chan'[From(lock)] : chan'[From(lock)][i] = e
    <3>1. CASE ServerLoop
      BY <3>1 DEF ServerLoop, EndDequeue, Dequeue, HandleCommand, HandleStreamError,
        HandleStream, OptionReturns, UnderWay
    <3>2. ASSUME NEW s \in Senders, Enqueue(s) \/ HandleOption(s), NEW e,
                 e.type = "unlock", UnderWay(From(lock), e)
          PROVE  \E i \in DOMAIN chan'[From(lock)] : chan'[From(lock)][i] = e
      <4>1. chan[s] # <<>> /\ Consume(s) /\ Head(chan[s]) # e
        BY <3>2 DEF Enqueue, HandleOption, Receive
      <4> QED
        BY <1>0, <2>2, <3>2, <4>1, SignalsStay
    <3> QED BY <3>1, <3>2
  <2>4. \A c \in Clients : Owner(c) => answer'[c] = answer[c] \/ InCallback(c)
    <3>1. CASE UNCHANGED answer
      BY <3>1
    <3>2. CASE OptionReturns
      <4>1. running # lock
        BY <1>0, <1>3, <3>2, InvFacts
        DEF OptionReturns, ServerInv, LockInv, StreamKinds, StreamKind, PointerKind,
          OptionKind
      <4>2. ASSUME NEW c \in Clients, cur[c] = lock
            PROVE  answer'[c] = answer[c]
        BY <3>2, <4>1, <4>2 DEF OptionReturns, Reply
      <4> QED BY <4>2 DEF Owner
    <3>3. ~HandleCommand /\ ~HandleStreamError
      BY <1>0, <1>3, InvFacts DEF HandleCommand, HandleStreamError, ServerInv
    <3> QED
      BY <1>3, <3>1, <3>2, <3>3 DEF ServerLoop, EndDequeue, Dequeue, Enqueue,
        HandleOption, clientVars
  <2> QED
    BY <1>3, <2>1, <2>3, <2>4, LockStays DEF Owner, InCallback
<1> QED
  BY <1>1, <1>2, <1>3

\* The lock is never lost: whatever clients die and whatever is in its way,
\* its owner lives, or an unlock or a DOWN of it will reach the server.
THEOREM LocksAreReleased == Spec => []LockWillBeReleased
<1>1. Init => LockWillBeReleased
  BY DEF Init, LockWillBeReleased
<1>2. RequestInv /\ RequestInv' /\ LockWillBeReleased /\ [Next]_vars => LockWillBeReleased'
  <2> SUFFICES ASSUME RequestInv, RequestInv', LockWillBeReleased, [Next]_vars
               PROVE  LockWillBeReleased'
    OBVIOUS
  <2>0. IInv /\ TypeOK /\ NoStaleSignal'
    BY DEF RequestInv, IInv
  <2>1. CASE \E c \in Clients : ClientStep(c)
    <3>1. CASE lock = None
      <4>1. lock' = None
        BY <2>1, <3>1 DEF ClientStep, Call, ReceiveReply, CallExits, OptionTimeout,
          ReadNext, Unlock, Kill, lockVars
      <4> QED BY <4>1 DEF LockWillBeReleased
    <3>2. CASE lock # None
      BY <2>1, <3>2, ClientKeepsLock
    <3> QED BY <3>1, <3>2
  <2>2. CASE ExecuteOnGc
    <3>1. /\ lock' = lock /\ UNCHANGED <<pc, cur, answer, down>>
          /\ Send(Runtime, GcKind) /\ Runtime \in Senders /\ GcKind \in Kinds
      BY <2>2 DEF ExecuteOnGc, lockVars, clientVars, Senders, Kinds
    <3>2. CASE lock # None
      <4>1. lock \in DOMAIN log /\ From(lock) \in Senders
        BY <2>0, <3>2, InvFacts DEF EpochInv
      <4>2. From(lock)' = From(lock)
        BY <2>0, <3>1, <4>1, LogGrows DEF From
      <4>3. UnderWay(From(lock), Unlocking(lock)) =>
              \E i \in DOMAIN chan'[From(lock)] : chan'[From(lock)][i] = Unlocking(lock)
        BY <2>0, <3>1, <4>1, SignalsStay DEF Send
      <4>4. UnderWay(From(lock), Unlocking(lock)) => UnderWay(From(lock), Unlocking(lock))'
        BY <3>1, <4>2, <4>3 DEF UnderWay, Unlocking
      <4> QED
        BY <3>1, <4>4 DEF LockWillBeReleased, InCallback
    <3> QED
      BY <3>1, <3>2 DEF LockWillBeReleased
  <2>3. CASE \/ \E c \in Clients : HandleUnlock(c)
             \/ \E r \in DOMAIN log : HandleDown(r)
    <3>1. lock' = None
      BY <2>0, <2>3, ReleaseFacts
    <3> QED BY <3>1 DEF LockWillBeReleased
  <2>4. CASE Terminate \/ Restart
    <3>1. lock' = None
      BY <2>0, <2>4, InvFacts DEF Terminate, Stop, Restart, ServerInv, lockVars
    <3> QED BY <3>1 DEF LockWillBeReleased
  <2>5. CASE (\E r \in DOMAIN log : ReadReturns(r) \/ CollectStream(r)) \/ UNCHANGED vars
    <3>1. UNCHANGED <<log, lock, chan, down, cur, answer>>
      BY <2>5 DEF ReadReturns, CollectStream, vars, lockVars, clientVars
    <3>2. \A c \in Clients : pc'[c] = pc[c] \/ (pc[c] = "in_nif" /\ pc'[c] = "callback")
      BY <2>5 DEF ReadReturns, CollectStream, vars, clientVars
    <3>3. UnderWay(From(lock), Unlocking(lock))' <=> UnderWay(From(lock), Unlocking(lock))
      BY <3>1 DEF UnderWay, From, Unlocking
    <3>4. \A c \in Clients : InCallback(c) => InCallback(c)'
      BY <3>2 DEF InCallback
    <3> QED
      BY <3>1, <3>2, <3>3, <3>4 DEF LockWillBeReleased
  <2> QED
    BY <2>1, <2>2, <2>3, <2>4, <2>5, ServerKeepsLock DEF Next, Senders
<1> QED
  BY <1>1, <1>2, RequestInvariance, PTL DEF Spec

-----------------------------------------------------------------------------
(* No request is lost.                                                     *)

\* A step that sends no request, and after which every client that waits did
\* so before for a request that is still pending.
LEMMA WaitingStays ==
  ASSUME IInv, NoLostRequest, UNCHANGED <<log, cur>>,
         \A d \in Clients :
           pc'[d] = "calling" /\ answer'[d] = "none" /\ Current(cur[d])' =>
             /\ pc[d] = "calling" /\ answer[d] = "none" /\ Current(cur[d])
             /\ \A q \in DOMAIN log : q = cur[d] /\ Pending(q) => Pending(q)'
  PROVE  NoLostRequest'
<1>1. SUFFICES ASSUME NEW d \in Clients,
                      pc'[d] = "calling" /\ answer'[d] = "none" /\ Current(cur[d])'
               PROVE  \/ UnderWay(d, Request(cur[d]))'
                      \/ \E i \in DOMAIN queue' : queue'[i] = cur'[d]
                      \/ running' = cur'[d]
  BY DEF NoLostRequest
<1>2. PICK q \in DOMAIN log : q = cur[d] /\ From(q) = d
  BY <1>1, InvFacts DEF ClientsInv
<1>3. Pending(q)
  BY <1>1, <1>2 DEF NoLostRequest, Pending, Accepted
<1>4. Pending(q)'
  BY <1>1, <1>2, <1>3
<1>5. From(q)' = d /\ cur'[d] = q
  BY <1>2 DEF From
<1>6. UnderWay(d, Request(q))' \/ Accepted(q)'
  BY <1>4, <1>5 DEF Pending
<1> QED
  BY <1>5, <1>6 DEF Accepted, UnderWay, Request

\* A request is never lost: a client that waits for the present incarnation
\* of the server waits for a request that is still to be answered.
THEOREM RequestsAreKept == Spec => []NoLostRequest
<1>1. Init => NoLostRequest
  BY DEF Init, NoLostRequest
<1>2. RequestInv /\ RequestInv' /\ NoLostRequest /\ [Next]_vars => NoLostRequest'
  <2> SUFFICES ASSUME RequestInv, RequestInv', NoLostRequest, [Next]_vars
               PROVE  NoLostRequest'
    OBVIOUS
  <2>0. IInv /\ TypeOK /\ NoStaleSignal'
    BY DEF RequestInv, IInv
  <2>1. ASSUME NEW s \in Senders, NEW kind \in Kinds, Send(s, kind),
               UNCHANGED <<queue, running, server, epoch, answer>>,
               \A d \in Clients : \/ pc'[d] = pc[d] /\ cur'[d] = cur[d]
                                  \/ d = s /\ cur'[d] = Len(log) + 1
        PROVE  NoLostRequest'
    <3> SUFFICES ASSUME NEW d \in Clients,
                        pc'[d] = "calling", answer'[d] = "none", Current(cur[d])'
                 PROVE  \/ \E i \in DOMAIN chan'[d] : chan'[d][i] = Request(cur'[d])
                        \/ \E i \in DOMAIN queue' : queue'[i] = cur'[d]
                        \/ running' = cur'[d]
      BY DEF NoLostRequest, UnderWay, Request
    <3>1. CASE d = s /\ cur'[d] = Len(log) + 1
      <4> DEFINE e == Request(Len(log) + 1)
      <4>1. chan' = [chan EXCEPT ![s] = Append(@, e)]
        BY <2>1 DEF Send
      <4> HIDE DEF e
      <4>2. \E i \in DOMAIN chan'[s] : chan'[s][i] = e
        BY <2>0, <4>1, SentIsUnderWay
      <4> QED BY <3>1, <4>2 DEF e
    <3>2. CASE pc'[d] = pc[d] /\ cur'[d] = cur[d]
      <4>1. cur[d] \in DOMAIN log /\ pc[d] = "calling" /\ answer[d] = "none" /\ d \in Senders
        BY <2>0, <2>1, <3>2, InvFacts DEF ClientsInv
      <4>2. Current(cur[d])
        <5>1. \A r \in DOMAIN log : log'[r] = log[r]
          BY <2>0, <2>1, LogGrows
        <5> QED
          BY <2>1, <3>2, <4>1, <5>1 DEF Current, ServerAlive
      <4>3. UnderWay(d, Request(cur[d])) =>
              \E i \in DOMAIN chan'[d] : chan'[d][i] = Request(cur[d])
        BY <2>0, <2>1, <4>1, SignalsStay DEF Send
      <4> QED
        BY <2>1, <3>2, <4>1, <4>2, <4>3 DEF NoLostRequest
    <3> QED BY <2>1, <3>1, <3>2
  <2>2. CASE \E c \in Clients : ClientStep(c)
    <3>1. PICK c \in Clients : ClientStep(c)
      BY <2>2
    <3>2. ASSUME NEW kind \in CallKinds, Call(c, kind)
          PROVE  NoLostRequest'
      <4>1. kind \in Kinds /\ c \in Senders
        BY ConstantsAssumption DEF Senders
      <4>2. \A d \in Clients : \/ pc'[d] = pc[d] /\ cur'[d] = cur[d]
                               \/ d = c /\ cur'[d] = Len(log) + 1
        BY <2>0, <3>2 DEF Call, TypeOK
      <4> QED
        BY <2>1, <3>2, <4>1, <4>2 DEF Call
    <3>3. CASE ~\E kind \in CallKinds : Call(c, kind)
      <4>1. /\ UNCHANGED <<log, cur, queue, running, server, epoch>>
            /\ pc'[c] # "calling"
            /\ \A d \in Clients \ {c} : pc'[d] = pc[d] /\ answer'[d] = answer[d]
        BY <2>0, <3>1, <3>3, InvFacts DEF ClientStep, ReceiveReply, CallExits,
          OptionTimeout, ReadNext, Unlock, Kill, lockVars, streamVars
      <4>2. UNCHANGED chan \/ \E t \in Senders : \E g : chan' = [chan EXCEPT ![t] = Append(@, g)]
        BY <2>0, <3>1, <3>3, InvFacts DEF ClientStep, ReceiveReply, CallExits,
          OptionTimeout, ReadNext, Unlock, Kill
      <4>3. \A q \in DOMAIN log : UnderWay(From(q), Request(q)) =>
              \E i \in DOMAIN chan'[From(q)] : chan'[From(q)][i] = Request(q)
        BY <2>0, <4>2, FromSender, SignalsStay
      <4>4. \A q : (Accepted(q)' <=> Accepted(q)) /\ From(q)' = From(q)
                   /\ (Current(q)' <=> Current(q))
        BY <4>1 DEF Accepted, From, Current, ServerAlive
      <4>5. \A q \in DOMAIN log : Pending(q) => Pending(q)'
        BY <4>3, <4>4 DEF Pending, UnderWay, Request
      <4> QED
        BY <2>0, <4>1, <4>4, <4>5, WaitingStays
    <3> QED BY <3>2, <3>3
  <2>3. CASE ExecuteOnGc
    <3>1. Runtime \in Senders /\ GcKind \in Kinds
      BY DEF Senders, Kinds
    <3> QED
      BY <2>1, <2>3, <3>1 DEF ExecuteOnGc, clientVars
  <2>4. ASSUME UNCHANGED <<log, cur, epoch>>, ServerAlive,
               \A d \in Clients : pc'[d] = "calling" => pc[d] = "calling",
               \A d \in Clients : pc'[d] = "calling" /\ answer'[d] = "none" => answer[d] = "none",
               \A q \in DOMAIN log : Pending(q) =>
                 Pending(q)' \/ \A d \in Clients : cur[d] = q /\ pc'[d] = "calling" => answer'[d] # "none"
        PROVE  NoLostRequest'
    <3>1. \A q : Current(q)' => Current(q)
      BY <2>4 DEF Current
    <3> QED
      BY <2>0, <2>4, <3>1, WaitingStays
  <2>5. ASSUME NEW s \in Senders, Enqueue(s) \/ HandleOption(s)
        PROVE  NoLostRequest'
    <3>1. UNCHANGED <<log, cur, epoch, pc, answer>> /\ ServerAlive
      BY <2>5 DEF Enqueue, HandleOption, Receive, ServerAlive, clientVars
    <3> QED
      BY <2>4, <2>5, <3>1, ReceiveRequest
  <2>6. CASE \/ \E c \in Clients : HandleUnlock(c)
             \/ \E r \in DOMAIN log : HandleDown(r)
    <3>1. UNCHANGED <<log, cur, epoch, pc, answer>> /\ ServerAlive
      BY <2>0, <2>6, ReleaseFacts DEF ServerAlive
    <3> QED
      BY <2>0, <2>4, <2>6, <3>1, ReleaseRequest
  <2>7. CASE EndDequeue \/ Dequeue
    <3>1. UNCHANGED <<log, cur, epoch, pc, answer>> /\ ServerAlive
      BY <2>7 DEF EndDequeue, Dequeue, ServerAlive, clientVars
    <3> QED
      BY <2>4, <2>7, <3>1, DequeueRequest
  <2>8. CASE HandleCommand \/ HandleStreamError \/ HandleStream \/ OptionReturns
    <3>1. UNCHANGED <<log, cur, epoch, pc>> /\ ServerAlive
      BY <2>8 DEF HandleCommand, HandleStreamError, HandleStream, OptionReturns,
        ServerAlive
    <3>2. PICK a \in {"ok", "error"} : Reply(running, a)
      BY <2>8, FinishRequest
    <3>3. \A d \in Clients : answer'[d] = "none" => answer[d] = "none"
      BY <3>2 DEF Reply
    <3>4. \A d \in Clients :
            cur[d] = running /\ pc[d] = "calling" => From(running) = d
      BY <2>0, InvFacts DEF ClientsInv
    <3>5. \A d \in Clients : cur[d] = running /\ pc[d] = "calling" => answer'[d] # "none"
      BY <3>2, <3>4 DEF Reply
    <3> QED
      BY <2>4, <2>8, <3>1, <3>3, <3>5, FinishRequest
  <2>9. CASE Terminate \/ Restart
    <3>1. UNCHANGED <<log, pc, cur>>
      BY <2>9 DEF Terminate, Restart, clientVars
    <3>2. \A d \in Clients : pc'[d] = "calling" => ~Current(cur[d])'
      <4>1. CASE Terminate
        BY <4>1 DEF Terminate, Stop, Current, ServerAlive
      <4>2. CASE Restart
        <5>1. \A r \in DOMAIN log : log[r].epoch \in Nat /\ log[r].epoch <= epoch
          <6>1. log \in Seq([kind : Kinds, from : Senders, epoch : Nat])
            BY <2>0 DEF TypeOK
          <6>2. \A r \in DOMAIN log : log[r] \in [kind : Kinds, from : Senders, epoch : Nat]
            BY <6>1, ElementOfSeq, LenProperties
          <6>3. \A r \in DOMAIN log : log[r].epoch \in Nat
            BY <6>2
          <6> QED
            BY <2>0, <6>3, InvFacts DEF LogInv
        <5>2. epoch' = epoch + 1 /\ epoch \in Nat
          BY <2>0, <4>2 DEF TypeOK, Restart
        <5>3. \A d \in Clients : pc'[d] = "calling" => cur[d] \in DOMAIN log
          BY <2>0, <3>1, InvFacts DEF ClientsInv
        <5> QED
          BY <3>1, <5>1, <5>2, <5>3 DEF Current
      <4> QED BY <2>9, <4>1, <4>2
    <3> QED
      BY <2>0, <3>1, <3>2, WaitingStays
  <2>10. CASE (\E r \in DOMAIN log : ReadReturns(r) \/ CollectStream(r)) \/ UNCHANGED vars
    <3>1. UNCHANGED <<log, chan, queue, running, server, epoch, cur, answer>>
      BY <2>10 DEF ReadReturns, CollectStream, vars, clientVars
    <3>2. \A d \in Clients : pc'[d] = "calling" => pc[d] = "calling"
      BY <2>10 DEF ReadReturns, CollectStream, vars, clientVars
    <3>3. \A q \in DOMAIN log : Pending(q)' <=> Pending(q)
      BY <3>1, SamePending
    <3>4. \A q : Current(q)' <=> Current(q)
      BY <3>1 DEF Current, ServerAlive
    <3> QED
      BY <2>0, <3>1, <3>2, <3>3, <3>4, WaitingStays
  <2> QED
    BY <2>2, <2>3, <2>5, <2>6, <2>7, <2>8, <2>9, <2>10 DEF Next, ServerLoop, Senders
<1> QED
  BY <1>1, <1>2, RequestInvariance, PTL DEF Spec

-----------------------------------------------------------------------------
(* The server implements ConnectionService.                                *)

\* What a step does to ConnectionService.
Serves == Service!Next \/ UNCHANGED Service!vars

\* A step that changes nothing the service speaks of.
LEMMA SameService ==
  ASSUME UNCHANGED queue, Active' = Active, Seen' = Seen
  PROVE  Serves
BY DEF Serves, Service!vars

\* The service has seen the same requests if the same ones are under way.
LEMMA SameSeen ==
  ASSUME UNCHANGED log,
         \A q \in DOMAIN log :
           UnderWay(From(q), Request(q)) <=>
             \E i \in DOMAIN chan'[From(q)] : chan'[From(q)][i] = Request(q)
  PROVE  Seen' = Seen
BY DEF Seen, UnderWay, From, Request

\* A request that is sent has not arrived yet.
LEMMA SendServes ==
  ASSUME RequestInv, NEW s \in Senders, NEW kind \in Kinds, Send(s, kind),
         UNCHANGED <<server, running, queue, lock>>
  PROVE  Serves
<1> DEFINE n == Len(log) + 1
           e == Request(n)
<1>0. TypeOK
  BY DEF RequestInv, IInv
<1>1. /\ DOMAIN log' = DOMAIN log \union {n} /\ n \notin DOMAIN log
      /\ \A r \in DOMAIN log : log'[r] = log[r]
      /\ log'[n].from = s
  <2>1. log'[n] = [kind |-> kind, from |-> s, epoch |-> epoch]
    BY <1>0, LogGrows
  <2>2. /\ DOMAIN log' = DOMAIN log \union {n} /\ n \notin DOMAIN log
        /\ \A r \in DOMAIN log : log'[r] = log[r]
    BY <1>0, LogGrows
  <2> HIDE DEF n
  <2> QED
    BY <2>1, <2>2
<1>2. \A t \in Senders : \A i \in DOMAIN chan'[t] :
        \/ i \in DOMAIN chan[t] /\ chan'[t][i] = chan[t][i]
        \/ chan'[t][i] = e
  BY <1>0, SignalSent DEF Send
<1>3. \E i \in DOMAIN chan'[s] : chan'[s][i] = e
  BY <1>0, SentIsUnderWay DEF Send
<1>4. \A r : Request(r) = e => r = n
  BY DEF Request
<1>5. \A r \in DOMAIN log : From(r) \in Senders
  BY <1>0, FromSender
<1>6. ASSUME NEW r \in DOMAIN log, UnderWay(From(r), Request(r))
      PROVE  \E i \in DOMAIN chan'[From(r)] : chan'[From(r)][i] = Request(r)
  <2>1. \E t \in Senders : \E g : chan' = [chan EXCEPT ![t] = Append(@, g)]
    BY DEF Send
  <2> QED
    BY <1>0, <1>5, <1>6, <2>1, SignalsStay
<1>7. Seen' = {r \in DOMAIN log' :
                 /\ log'[r].kind # OptionKind
                 /\ ~\E i \in DOMAIN chan'[log'[r].from] :
                       chan'[log'[r].from][i] = Request(r)}
  BY DEF Seen, UnderWay, From, Request
<1>8. e = Request(n)
  OBVIOUS
<1> HIDE DEF n, e
<1>9. \A r \in DOMAIN log : UnderWay(From(r), Request(r)) <=>
        \E i \in DOMAIN chan'[From(r)] : chan'[From(r)][i] = Request(r)
  BY <1>1, <1>2, <1>4, <1>5, <1>6 DEF UnderWay
<1>10. Seen' = Seen
  BY <1>1, <1>3, <1>7, <1>8, <1>9 DEF Seen, From
<1> QED
  BY <1>10, SameService DEF Active

\* A request arrives.
LEMMA EnqueueServes ==
  ASSUME RequestInv, NEW s \in Senders, Enqueue(s)
  PROVE  Serves
<1>0. TypeOK
  BY DEF RequestInv, IInv
<1> PICK r \in DOMAIN log : r = Head(chan[s]).req
  BY TakeSignal DEF Enqueue, Receive
<1>1. /\ UNCHANGED <<log, running, lock>>
      /\ chan[s] # <<>> /\ Consume(s) /\ Head(chan[s]).type = "request"
      /\ server = "receive" /\ server' = "dequeue"
      /\ log[r].kind # OptionKind /\ queue' = Append(queue, r)
  BY DEF Enqueue, Receive, lockVars, JoinQueue
<1>2. /\ r \in DOMAIN log
      /\ Head(chan[s]) = Request(r) /\ UnderWay(s, Request(r)) /\ From(r) = s
  BY <1>1, TakeSignal
<1>3. /\ \A q \in DOMAIN log :
           UnderWay(From(q), Request(q)) /\ Head(chan[s]) # Request(q)
             => \E i \in DOMAIN chan'[From(q)] : chan'[From(q)][i] = Request(q)
      /\ \A q \in DOMAIN log :
           (\E i \in DOMAIN chan'[From(q)] : chan'[From(q)][i] = Request(q))
             => UnderWay(From(q), Request(q)) /\ Head(chan[s]) # Request(q)
  BY <1>1, TakeSignal
<1>4. \A q : Request(q).req = q
  BY DEF Request
<1>5. r \in Ids
  <2>1. DOMAIN log = 1..Len(log) /\ Len(log) \in Nat /\ Len(log) <= MaxRequests
        /\ MaxRequests \in Nat
    BY <1>0, ConstantsAssumption DEF TypeOK
  <2> QED
    BY <1>2, <2>1 DEF Ids
<1>6. Seen' = {q \in DOMAIN log :
                 /\ log[q].kind # OptionKind
                 /\ ~\E i \in DOMAIN chan'[From(q)] : chan'[From(q)][i] = Request(q)}
  BY <1>1 DEF Seen, UnderWay, From, Request
<1>7. r \notin Seen /\ Seen' = Seen \union {r}
  BY <1>1, <1>2, <1>3, <1>4, <1>6 DEF Seen
<1>8. Active' = Active
  BY <1>1 DEF Active
<1>9. Service!Arrive(r)
  BY <1>1, <1>5, <1>7, <1>8 DEF Service!Arrive
<1> QED
  BY <1>5, <1>9 DEF Serves, Service!Next

\* The server takes up a request, finishes one, or loses all of them.
LEMMA LoopServes ==
  ASSUME RequestInv, ServerLoop
  PROVE  Serves
<1>0. IInv
  BY DEF RequestInv
<1>1. Seen' = Seen
  <2>1. UNCHANGED <<log, chan>>
    BY DEF ServerLoop, EndDequeue, Dequeue, HandleCommand, HandleStreamError,
      HandleStream, OptionReturns
  <2> QED
    BY <2>1, SameSeen DEF UnderWay
<1>2. CASE EndDequeue \/ OptionReturns
  <2>1. UNCHANGED queue /\ Active' = Active
    BY <1>2 DEF EndDequeue, OptionReturns, Active, lockVars
  <2> QED
    BY <1>1, <2>1, SameService
<1>3. CASE Dequeue
  <2>1. Service!Start
    BY <1>1, <1>3 DEF Dequeue, MayDequeue, Active, lockVars, Service!Start
  <2> QED
    BY <2>1 DEF Serves, Service!Next
<1>4. CASE HandleCommand \/ HandleStreamError
  <2>1. Active # None /\ Active' = None /\ UNCHANGED queue
    BY <1>0, <1>4, InvFacts DEF HandleCommand, HandleStreamError, Active, ServerInv,
      lockVars
  <2>2. Service!Finish
    BY <1>1, <2>1 DEF Service!Finish
  <2> QED
    BY <2>2 DEF Serves, Service!Next
<1>5. CASE HandleStream
  <2>1. UNCHANGED queue /\ Active' = Active
    BY <1>5 DEF HandleStream, Active
  <2> QED
    BY <1>1, <2>1, SameService
<1> QED
  BY <1>2, <1>3, <1>4, <1>5 DEF ServerLoop

\* The lock is given back: the request that had it is finished.
LEMMA ReleaseServes ==
  ASSUME RequestInv, NoStaleSignal',
         \/ \E c \in Clients : HandleUnlock(c)
         \/ \E r \in DOMAIN log : HandleDown(r)
  PROVE  Serves
<1>1. IInv /\ TypeOK
  BY DEF RequestInv, IInv
<1>2. /\ UNCHANGED <<log, queue>>
      /\ Active # None /\ Active' = None
  BY <1>1, ReleaseFacts DEF Active
<1>3. Seen' = Seen
  <2>1. CASE \E c \in Clients : HandleUnlock(c)
    <3>1. PICK c \in Clients : HandleUnlock(c)
      BY <2>1
    <3>2. /\ Consume(c) /\ c \in Senders /\ chan[c] # <<>>
          /\ Head(chan[c]).type = "unlock"
      BY <3>1 DEF HandleUnlock, Receive, NoStaleSignal, Stop, Senders
    <3>3. \A q : Head(chan[c]) # Request(q)
      BY <3>2 DEF Request
    <3> QED
      BY <1>2, <3>2, <3>3, TakeSignal, SameSeen
  <2>2. CASE \E r \in DOMAIN log : HandleDown(r)
    <3>1. UNCHANGED chan
      BY <2>2 DEF HandleDown, NoStaleSignal, Stop
    <3> QED
      BY <1>2, <3>1, SameSeen DEF UnderWay
  <2> QED BY <2>1, <2>2
<1>4. Service!Finish
  BY <1>2, <1>3 DEF Service!Finish
<1> QED
  BY <1>4 DEF Serves, Service!Next

\* The server dies with all it had accepted and all that was sent to it.
LEMMA DeathServes ==
  ASSUME RequestInv, Terminate
  PROVE  Serves
<1>1. /\ queue' = <<>> /\ Active' = None /\ UNCHANGED log
      /\ \A s \in Senders : chan'[s] = <<>>
  BY DEF Terminate, Stop, Active
<1>2. TypeOK
  BY DEF RequestInv, IInv
<1>3. DOMAIN log \subseteq Ids
  <2>1. DOMAIN log = 1..Len(log) /\ Len(log) \in Nat /\ Len(log) <= MaxRequests
        /\ MaxRequests \in Nat
    BY <1>2, ConstantsAssumption DEF TypeOK
  <2> QED
    BY <2>1 DEF Ids
<1>4. Seen' \subseteq Ids
  BY <1>1, <1>3 DEF Seen
<1>5. Seen \subseteq Seen'
  <2>1. \A q \in DOMAIN log : From(q) \in Senders
    BY <1>2, FromSender
  <2>2. \A q \in DOMAIN log : ~UnderWay(From(q), Request(q))'
    BY <1>1, <2>1 DEF UnderWay, From
  <2> QED
    BY <1>1, <2>2 DEF Seen
<1>6. Service!Fail
  BY <1>1, <1>4, <1>5 DEF Service!Fail
<1> QED
  BY <1>6 DEF Serves, Service!Next

\* The connection process implements ConnectionService: whatever its callers
\* do, requests are served one at a time and in the order of their arrival.
THEOREM ServedInOrder == Spec => ServesInOrder
<1>1. Init => Service!Init
  BY DEF Init, Service!Init, Active, Seen
<1>2. RequestInv /\ RequestInv' /\ [Next]_vars => [Service!Next]_(Service!vars)
  <2> SUFFICES ASSUME RequestInv, RequestInv', [Next]_vars
               PROVE  Serves
    BY DEF Serves
  <2>0. IInv /\ TypeOK /\ NoStaleSignal'
    BY DEF RequestInv, IInv
  <2>1. ASSUME UNCHANGED <<log, chan, queue, server, running, lock>>
        PROVE  Serves
    <3>1. Seen' = Seen /\ Active' = Active
      BY <2>1, SameSeen DEF UnderWay, Active
    <3> QED
      BY <2>1, <3>1, SameService
  <2>2. CASE \E c \in Clients : ClientStep(c)
    <3>1. PICK c \in Clients : ClientStep(c)
      BY <2>2
    <3>2. ASSUME NEW kind \in CallKinds, Call(c, kind)
          PROVE  Serves
      BY <3>2, SendServes, ConstantsAssumption DEF Call, Senders, lockVars
    <3>3. CASE Unlock(c)
      <4>1. UNCHANGED <<log, queue, server, running, lock>>
        BY <3>3 DEF Unlock, lockVars
      <4>2. \A t \in Senders : \A i \in DOMAIN chan'[t] :
              \/ i \in DOMAIN chan[t] /\ chan'[t][i] = chan[t][i]
              \/ chan'[t][i] = Unlocking(cur[c])
        BY <2>0, <3>3, SignalSent DEF Unlock, Senders
      <4>3. \A q : Request(q) # Unlocking(cur[c])
        BY DEF Request, Unlocking
      <4>4. ASSUME NEW q \in DOMAIN log, UnderWay(From(q), Request(q))
            PROVE  \E i \in DOMAIN chan'[From(q)] : chan'[From(q)][i] = Request(q)
        <5>1. UNCHANGED chan \/ \E t \in Senders : \E g : chan' = [chan EXCEPT ![t] = Append(@, g)]
          BY <3>3 DEF Unlock, Senders
        <5> QED
          BY <2>0, <4>4, <5>1, FromSender, SignalsStay
      <4>5. \A q \in DOMAIN log : From(q) \in Senders
        BY <2>0, FromSender
      <4>6. Seen' = Seen
        BY <4>1, <4>2, <4>3, <4>4, <4>5, SameSeen DEF UnderWay
      <4>7. Active' = Active
        BY <4>1 DEF Active
      <4> QED
        BY <4>1, <4>6, <4>7, SameService
    <3>4. CASE \/ ReceiveReply(c) \/ CallExits(c) \/ OptionTimeout(c) \/ ReadNext(c)
               \/ Kill(c)
      BY <2>1, <3>4 DEF ReceiveReply, CallExits, OptionTimeout, ReadNext, Kill, lockVars
    <3> QED
      BY <3>1, <3>2, <3>3, <3>4 DEF ClientStep
  <2>3. CASE ExecuteOnGc
    <3>1. Runtime \in Senders /\ GcKind \in Kinds
      BY DEF Senders, Kinds
    <3> QED
      BY <2>3, <3>1, SendServes DEF ExecuteOnGc, lockVars
  <2>4. ASSUME NEW c \in Clients, HandleOption(c)
        PROVE  Serves
    <3>1. /\ UNCHANGED <<log, queue, lock>> /\ Active' = Active
          /\ Consume(c) /\ chan[c] # <<>> /\ c \in Senders
          /\ log[Head(chan[c]).req].kind = OptionKind
      BY <2>4 DEF HandleOption, Receive, Active, Senders, lockVars
    <3>2. \A q \in DOMAIN log : log[q].kind # OptionKind => Head(chan[c]) # Request(q)
      BY <3>1 DEF Request
    <3>3. \A q \in DOMAIN log : log[q].kind # OptionKind =>
            (UnderWay(From(q), Request(q)) <=>
               \E i \in DOMAIN chan'[From(q)] : chan'[From(q)][i] = Request(q))
      BY <3>1, <3>2, TakeSignal
    <3>4. Seen' = {q \in DOMAIN log :
                     /\ log[q].kind # OptionKind
                     /\ ~\E i \in DOMAIN chan'[From(q)] : chan'[From(q)][i] = Request(q)}
      BY <3>1 DEF Seen, UnderWay, From, Request
    <3>5. Seen' = Seen
      BY <3>3, <3>4 DEF Seen
    <3> QED
      BY <3>1, <3>5, SameService
  <2>5. CASE Restart
    <3>1. UNCHANGED <<log, chan, queue, running, lock>> /\ Active' = Active
      BY <2>0, <2>5, InvFacts DEF Restart, lockVars, Active, ServerAlive
    <3>2. Seen' = Seen
      BY <3>1, SameSeen DEF UnderWay
    <3> QED
      BY <3>1, <3>2, SameService
  <2>6. CASE (\E r \in DOMAIN log : ReadReturns(r) \/ CollectStream(r)) \/ UNCHANGED vars
    BY <2>1, <2>6 DEF ReadReturns, CollectStream, vars, lockVars
  <2> QED
    BY <2>0, <2>2, <2>3, <2>4, <2>5, <2>6, EnqueueServes, LoopServes, ReleaseServes,
      DeathServes DEF Next, Senders
<1> QED
  BY <1>1, <1>2, RequestInvariance, PTL DEF Spec, ServesInOrder, Service!Spec
=============================================================================
