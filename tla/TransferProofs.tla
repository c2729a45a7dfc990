--------------------------- MODULE TransferProofs ---------------------------
(***************************************************************************)
(* Proofs about Transfer: nested calls do not deadlock, do not let a       *)
(* connection be used twice and do not change the order of service, for    *)
(* every set of clients, of connections, and every bound.                  *)
(***************************************************************************)
EXTENDS TransferInv, SequenceTheorems, WellFoundedInduction, TLAPS

-----------------------------------------------------------------------------
(* The elements of a queue, and that it has no duplicates.                 *)

\* Append adds one element.
LEMMA AppendRange ==
  ASSUME NEW S, NEW q \in Seq(S), NEW e \in S
  PROVE  /\ Range(Append(q, e)) = Range(q) \union {e}
         /\ IsInjective(q) /\ e \notin Range(q) => IsInjective(Append(q, e))
<1>1. \A i \in DOMAIN q : q[i] \in Range(q)
  BY DEF Range
<1>2. DOMAIN q = 1..Len(q) /\ Len(q) \in Nat
  OBVIOUS
<1> DEFINE a == Append(q, e)
<1>3. /\ DOMAIN a = DOMAIN q \union {Len(q) + 1}
      /\ \A i \in DOMAIN q : a[i] = q[i]
      /\ a[Len(q) + 1] = e
  BY AppendProperties, LenProperties
<1>4. Len(q) + 1 \notin DOMAIN q
  BY <1>2
<1> HIDE DEF a
<1>5. Range(a) = Range(q) \union {e}
  BY <1>3, <1>4 DEF Range
<1>6. IsInjective(q) /\ e \notin Range(q) => IsInjective(a)
  BY <1>1, <1>3, <1>4 DEF IsInjective
<1> QED
  BY <1>5, <1>6 DEF a

\* Tail takes the first element away.
LEMMA TailRange ==
  ASSUME NEW S, NEW q \in Seq(S), q # <<>>
  PROVE  /\ Range(q) = {Head(q)} \union Range(Tail(q))
         /\ IsInjective(q) => IsInjective(Tail(q)) /\ Head(q) \notin Range(Tail(q))
<1> DEFINE t == Tail(q)
           n == Len(q)
<1>1. /\ n \in Nat \ {0}
      /\ DOMAIN q = 1..n
      /\ DOMAIN t = 1..(n - 1)
      /\ Head(q) = q[1]
      /\ \A i \in DOMAIN t : t[i] = q[i + 1]
  OBVIOUS
<1> HIDE DEF t, n
<1>2. ASSUME NEW i \in DOMAIN q
      PROVE  q[i] = Head(q) \/ \E j \in DOMAIN t : q[i] = t[j]
  <2>1. i = 1 \/ (i - 1 \in DOMAIN t /\ q[i] = t[i - 1])
    BY <1>1
  <2> QED
    BY <1>1, <2>1
<1>3. \A i \in DOMAIN t : i + 1 \in DOMAIN q /\ i + 1 # 1
  BY <1>1
<1>4. 1 \in DOMAIN q
  BY <1>1
<1>5. Range(q) = {Head(q)} \union Range(t)
  <2>1. Head(q) \in Range(q)
    BY <1>1, <1>4 DEF Range
  <2>2. Range(t) \subseteq Range(q)
    BY <1>1, <1>3 DEF Range
  <2>3. Range(q) \subseteq {Head(q)} \union Range(t)
    BY <1>2 DEF Range
  <2> QED
    BY <2>1, <2>2, <2>3
<1>6. ASSUME IsInjective(q)
      PROVE  IsInjective(t) /\ Head(q) \notin Range(t)
  <2>1. ASSUME NEW i \in DOMAIN t, NEW j \in DOMAIN t, t[i] = t[j]
        PROVE  i = j
    <3>1. i + 1 = j + 1
      BY <1>1, <1>3, <1>6, <2>1 DEF IsInjective
    <3> QED
      BY <1>1, <3>1
  <2>2. ASSUME NEW i \in DOMAIN t
        PROVE  t[i] # Head(q)
    BY <1>1, <1>3, <1>4, <1>6 DEF IsInjective
  <2> QED
    BY <2>1, <2>2 DEF IsInjective, Range
<1> QED
  BY <1>5, <1>6 DEF t

\* SubSeq takes the last element away.
LEMMA FrontRange ==
  ASSUME NEW S, NEW q \in Seq(S), q # <<>>
  PROVE  LET f == SubSeq(q, 1, Len(q) - 1) IN
         /\ f \in Seq(S)
         /\ q[Len(q)] \in S
         /\ Range(q) = Range(f) \union {q[Len(q)]}
         /\ IsInjective(q) => IsInjective(f) /\ q[Len(q)] \notin Range(f)
<1> DEFINE f == SubSeq(q, 1, Len(q) - 1)
           n == Len(q)
<1>1. /\ n \in Nat \ {0}
      /\ DOMAIN q = 1..n
      /\ f \in Seq(S)
      /\ DOMAIN f = 1..(n - 1)
      /\ \A i \in DOMAIN f : f[i] = q[i]
  OBVIOUS
<1>2. q[n] \in S
  BY <1>1
<1> HIDE DEF f, n
<1>3. DOMAIN q = DOMAIN f \union {n} /\ n \notin DOMAIN f
  BY <1>1
<1>4. Range(q) = Range(f) \union {q[n]}
  BY <1>1, <1>3 DEF Range
<1>5. IsInjective(q) => IsInjective(f) /\ q[n] \notin Range(f)
  BY <1>1, <1>3 DEF Range, IsInjective
<1> QED
  BY <1>1, <1>2, <1>4, <1>5 DEF f, n

-----------------------------------------------------------------------------
(* Type correctness.                                                       *)

Entries == [kind : Kinds, from : Clients, to : Conns, on : Conns,
            source : Ids \union {None}]

\* Requests are numbered from 1.
LEMMA DomainFacts ==
  ASSUME TypeOK
  PROVE  DOMAIN log \subseteq Ids /\ None \notin DOMAIN log
<1>1. log \in Seq(Entries) /\ Len(log) <= MaxRequests /\ MaxRequests \in Nat
  BY ConstantsAssumption DEF TypeOK, Entries
<1> DEFINE n == Len(log)
<1>2. n \in Nat /\ DOMAIN log = 1..n /\ n <= MaxRequests
  BY <1>1
<1> HIDE DEF n
<1> QED
  BY <1>1, <1>2 DEF Ids, None

\* What an entry of the log is.
LEMMA EntryFacts ==
  ASSUME TypeOK
  PROVE  \A r \in DOMAIN log :
           /\ From(r) \in Clients
           /\ To(r) \in Conns
           /\ log[r].kind \in Kinds
<1>1. log \in Seq(Entries)
  BY DEF TypeOK, Entries
<1>2. \A r \in DOMAIN log : log[r] \in Entries
  BY <1>1, ElementOfSeq, LenProperties
<1> QED
  BY <1>2 DEF Entries, From, To

\* The log only grows, by one request at a time.
LEMMA LogGrows ==
  ASSUME TypeOK, NEW e \in Entries, log' = Append(log, e), Len(log) < MaxRequests
  PROVE  /\ log' \in Seq(Entries)
         /\ Len(log') <= MaxRequests
         /\ DOMAIN log' = DOMAIN log \union {Len(log) + 1}
         /\ \A r \in DOMAIN log : log'[r] = log[r]
         /\ log'[Len(log) + 1] = e
         /\ Len(log) + 1 \notin DOMAIN log
         /\ None \notin DOMAIN log'
<1>1. log \in Seq(Entries) /\ MaxRequests \in Nat
  BY ConstantsAssumption DEF TypeOK, Entries
<1> DEFINE n == Len(log)
<1>2. n \in Nat /\ DOMAIN log = 1..n /\ n < MaxRequests
  BY <1>1
<1>3. /\ log' \in Seq(Entries)
      /\ DOMAIN log' = DOMAIN log \union {n + 1}
      /\ \A r \in DOMAIN log : log'[r] = log[r]
      /\ log'[n + 1] = e
  BY <1>1, AppendProperties, LenProperties
<1>4. Len(log') = n + 1
  BY <1>1
<1> HIDE DEF n
<1> QED
  BY <1>1, <1>2, <1>3, <1>4 DEF n, None

\* A larger log makes no value of the other variables ill-typed.
LEMMA TypesGrow ==
  ASSUME TypeOK, NEW D, DOMAIN log \subseteq D
  PROVE  /\ cur \in [Clients -> D \union {None}]
         /\ held \in [Clients -> Seq(D)]
         /\ queue \in [Conns -> Seq(D)]
         /\ running \in [Conns -> D \union {None}]
         /\ lock \in [Conns -> D \union {None}]
         /\ open \subseteq D
         /\ bound \subseteq D
<1>1. \A q \in Seq(DOMAIN log) : q \in Seq(D)
  BY SeqMonotonic
<1>2. held \in [Clients -> Seq(D)]
  BY <1>1 DEF TypeOK
<1>3. queue \in [Conns -> Seq(D)]
  BY <1>1 DEF TypeOK
<1> QED
  BY <1>2, <1>3 DEF TypeOK

\* What a call changes: the log, the caller and the queue of the connection.
LEMMA CallFacts ==
  ASSUME TypeOK, NEW c \in Clients, NEW k \in Conns, NEW kind \in Kinds,
         NEW on \in Conns, NEW source \in DOMAIN log \union {None},
         Call(c, k, kind, on, source)
  PROVE  LET r == Len(log) + 1 IN
         /\ TypeOK'
         /\ DOMAIN log' = DOMAIN log \union {r}
         /\ \A q \in DOMAIN log : log'[q] = log[q]
         /\ log'[r] = [kind |-> kind, from |-> c, to |-> k, on |-> on,
                       source |-> source]
         /\ r \notin DOMAIN log
         /\ r # None
         /\ None \notin DOMAIN log
<1> DEFINE r == Len(log) + 1
           e == [kind |-> kind, from |-> c, to |-> k, on |-> on, source |-> source]
<1>1. e \in Entries
  <2>1. DOMAIN log \subseteq Ids
    BY DomainFacts
  <2> QED
    BY <2>1 DEF Entries
<1>2. log' = Append(log, e) /\ Len(log) < MaxRequests
  BY DEF Call
<1> HIDE DEF e
<1>3. /\ log' \in Seq(Entries)
      /\ Len(log') <= MaxRequests
      /\ DOMAIN log' = DOMAIN log \union {r}
      /\ \A q \in DOMAIN log : log'[q] = log[q]
      /\ log'[r] = e
      /\ r \notin DOMAIN log
      /\ None \notin DOMAIN log'
  BY <1>1, <1>2, LogGrows
<1> HIDE DEF r
<1>4. /\ cur \in [Clients -> DOMAIN log' \union {None}]
      /\ held \in [Clients -> Seq(DOMAIN log')]
      /\ queue \in [Conns -> Seq(DOMAIN log')]
      /\ running \in [Conns -> DOMAIN log' \union {None}]
      /\ lock \in [Conns -> DOMAIN log' \union {None}]
      /\ open \subseteq DOMAIN log'
      /\ bound \subseteq DOMAIN log'
  BY <1>3, TypesGrow
<1>5. /\ pc' = [pc EXCEPT ![c] = "calling"]
      /\ cur' = [cur EXCEPT ![c] = r]
      /\ queue' = [queue EXCEPT ![k] = Append(@, r)]
      /\ UNCHANGED <<held, running, lock, open, bound>>
  BY DEF Call, JoinQueue, r
<1>6. queue' \in [Conns -> Seq(DOMAIN log')]
  <2>1. queue[k] \in Seq(DOMAIN log') /\ r \in DOMAIN log'
    BY <1>3, <1>4
  <2>2. Append(queue[k], r) \in Seq(DOMAIN log')
    BY <2>1, AppendProperties, LenProperties
  <2> QED
    BY <1>4, <1>5, <2>2
<1>7. pc' \in [Clients -> {"running", "calling", "dead"}]
  BY <1>5 DEF TypeOK
<1>8. cur' \in [Clients -> DOMAIN log' \union {None}]
  BY <1>3, <1>4, <1>5
<1>9. TypeOK'
  BY <1>3, <1>4, <1>5, <1>6, <1>7, <1>8 DEF TypeOK, Entries
<1> QED
  BY <1>3, <1>9 DEF r, e

\* The calls of the applications are such calls.
LEMMA CallForms ==
  ASSUME TypeOK, NEW c \in Clients, NEW k \in Conns,
         CallPlain(c, k) \/ CallTransfer(c, k)
  PROVE  \E kind \in Kinds, on \in Conns, source \in DOMAIN log \union {None} :
           /\ Call(c, k, kind, on, source)
           /\ on = k \/ <<k, on>> \in Prepared
           /\ \A h \in Range(held[c]) : Nests(h, k)
           /\ kind = "transfer" => source \in Range(held[c])
<1>1. held[c] \in Seq(DOMAIN log)
  BY DEF TypeOK
<1>2. Range(held[c]) \subseteq DOMAIN log
  BY <1>1, ElementOfSeq, LenProperties DEF Range
<1>3. CASE CallPlain(c, k)
  BY <1>3 DEF CallPlain, Kinds
<1>4. CASE CallTransfer(c, k)
  BY <1>2, <1>4 DEF CallTransfer, MayTransfer, Kinds
<1> QED
  BY <1>3, <1>4

\* Replies change nothing but where clients are.
LEMMA ReplyType ==
  ASSUME TypeOK, NEW r, Reply(r)
  PROVE  pc' \in [Clients -> {"running", "calling", "dead"}]
BY DEF TypeOK, Reply

\* Every step of a client keeps the types.
LEMMA ClientTypes ==
  ASSUME TypeOK, NEW c \in Clients, ClientStep(c)
  PROVE  TypeOK'
<1>1. ASSUME NEW k \in Conns, CallPlain(c, k) \/ CallTransfer(c, k)
      PROVE  TypeOK'
  BY <1>1, CallForms, CallFacts
<1>2. ASSUME Return(c)
      PROVE  TypeOK'
  <2> DEFINE s == held[c][Len(held[c])]
             f == SubSeq(held[c], 1, Len(held[c]) - 1)
  <2>1. held[c] \in Seq(DOMAIN log) /\ held[c] # <<>>
    BY <1>2 DEF TypeOK, Return
  <2>2. f \in Seq(DOMAIN log) /\ s \in DOMAIN log
    BY <2>1, FrontRange
  <2>3. /\ held' = [held EXCEPT ![c] = f]
        /\ lock' = [lock EXCEPT ![To(s)] = None]
        /\ open' = open \ {s}
        /\ UNCHANGED <<log, pc, cur, queue, running, bound>>
    BY <1>2 DEF Return, Release
  <2> HIDE DEF s, f
  <2> QED
    BY <2>2, <2>3 DEF TypeOK
<1>3. ASSUME Kill(c)
      PROVE  TypeOK'
  BY <1>3 DEF TypeOK, Kill
<1> QED
  BY <1>1, <1>2, <1>3 DEF ClientStep

\* Every step of a connection keeps them.
LEMMA ConnTypes ==
  ASSUME TypeOK, NEW k \in Conns, Serve(k) \/ BindStream(k)
  PROVE  TypeOK'
<1>1. ASSUME Dequeue(k)
      PROVE  TypeOK'
  <2>1. queue[k] \in Seq(DOMAIN log) /\ queue[k] # <<>>
    BY <1>1 DEF TypeOK, Dequeue, MayDequeue
  <2>2. Head(queue[k]) \in DOMAIN log /\ Tail(queue[k]) \in Seq(DOMAIN log)
    BY <2>1, HeadTailProperties, LenProperties
  <2>3. queue' \in [Conns -> Seq(DOMAIN log)]
    BY <1>1, <2>2 DEF TypeOK, Dequeue
  <2>4. running' \in [Conns -> DOMAIN log \union {None}]
    BY <1>1, <2>2 DEF TypeOK, Dequeue
  <2> QED
    BY <1>1, <2>3, <2>4 DEF TypeOK, Dequeue, clientVars
<1>2. ASSUME HandleCommand(k) \/ HandleStreamError(k) \/ HandleTransfer(k)
      PROVE  TypeOK'
  <2>1. Reply(running[k]) /\ Finish(k) /\ bound' \subseteq bound
        /\ UNCHANGED <<log, cur, held, queue, lock, open>>
    BY <1>2 DEF HandleCommand, HandleStreamError, HandleTransfer
  <2> QED
    BY <2>1, ReplyType DEF TypeOK, Finish
<1>3. ASSUME HandleStream(k)
      PROVE  TypeOK'
  <2> DEFINE s == running[k]
             c == From(s)
  <2>1. /\ s \in DOMAIN log
        /\ open' = open \union {s}
        /\ lock' = [lock EXCEPT ![k] = s]
        /\ held' = IF pc[c] = "dead" THEN held
                                     ELSE [held EXCEPT ![c] = Append(@, s)]
        /\ Reply(s)
        /\ running' = [running EXCEPT ![k] = None]
        /\ UNCHANGED <<log, cur, queue, bound>>
    BY <1>3 DEF TypeOK, HandleStream, Executes, Finish
  <2>2. c \in Clients
    BY <2>1, EntryFacts
  <2> HIDE DEF s, c
  <2>3. held[c] \in Seq(DOMAIN log)
    BY <2>2 DEF TypeOK
  <2>4. Append(held[c], s) \in Seq(DOMAIN log)
    BY <2>1, <2>3, AppendProperties, LenProperties
  <2>5. held' \in [Clients -> Seq(DOMAIN log)]
    BY <2>1, <2>4 DEF TypeOK
  <2> QED
    BY <2>1, <2>5, ReplyType DEF TypeOK
<1>4. ASSUME HandleDown(k)
      PROVE  TypeOK'
  BY <1>4 DEF TypeOK, HandleDown, Release, clientVars
<1>5. ASSUME BindStream(k)
      PROVE  TypeOK'
  BY <1>5 DEF TypeOK, BindStream, Executes, Release, clientVars
<1> QED
  BY <1>1, <1>2, <1>3, <1>4, <1>5 DEF Serve

\* So does the collection of a statement.
LEMMA OtherTypes ==
  ASSUME TypeOK, UNCHANGED vars \/ \E t \in DOMAIN log : CollectStatement(t)
  PROVE  TypeOK'
BY DEF TypeOK, vars, CollectStatement, clientVars

\* Every reachable state is well typed.
THEOREM TypeCorrect == Spec => []TypeOK
<1>1. Init => TypeOK
  <2> SUFFICES ASSUME Init PROVE TypeOK
    OBVIOUS
  <2>1. Len(<<>>) <= MaxRequests /\ MaxRequests \in Nat
    BY ConstantsAssumption
  <2>2. log \in Seq([kind : Kinds, from : Clients, to : Conns, on : Conns,
                     source : Ids \union {None}])
    BY DEF Init
  <2> QED
    BY <2>1, <2>2 DEF Init, TypeOK, None
<1>2. TypeOK /\ [Next]_vars => TypeOK'
  BY ClientTypes, ConnTypes, OtherTypes DEF Next
<1> QED
  BY <1>1, <1>2, PTL DEF Spec

-----------------------------------------------------------------------------
(* The inductive invariant.                                                *)

\* Where requests may be.
LEMMA RequestFacts ==
  ASSUME TypeOK
  PROVE  /\ \A c \in Clients :
              /\ held[c] \in Seq(DOMAIN log)
              /\ Range(held[c]) \subseteq DOMAIN log
         /\ \A k \in Conns :
              /\ queue[k] \in Seq(DOMAIN log)
              /\ Range(queue[k]) \subseteq DOMAIN log
              /\ Accepted(k) \subseteq DOMAIN log
              /\ running[k] # None => running[k] \in Accepted(k)
              /\ lock[k] # None => lock[k] \in DOMAIN log
<1>1. \A c \in Clients : held[c] \in Seq(DOMAIN log)
  BY DEF TypeOK
<1>2. \A k \in Conns : queue[k] \in Seq(DOMAIN log)
  BY DEF TypeOK
<1>3. \A q \in Seq(DOMAIN log) : Range(q) \subseteq DOMAIN log
  BY ElementOfSeq, LenProperties DEF Range
<1>4. \A k \in Conns :
        /\ running[k] \in DOMAIN log \union {None}
        /\ lock[k] \in DOMAIN log \union {None}
  BY DEF TypeOK
<1> QED
  BY <1>1, <1>2, <1>3, <1>4 DEF Accepted

\* A client that runs is not waited for, nor are the streams it reads.
LEMMA RunningClient ==
  ASSUME IInv, NEW c \in Clients, pc[c] = "running", NEW k \in Conns
  PROVE  /\ \A r \in Accepted(k) : From(r) # c
         /\ \A h \in Range(held[c]) : h \notin Accepted(k)
<1>1. \A r \in Accepted(k) : From(r) # c
  BY DEF IInv, AcceptedInv, Awaited
<1> QED
  BY <1>1 DEF IInv, HeldInv

\* A call keeps the invariant.
LEMMA CallKeeps ==
  ASSUME IInv, NEW c \in Clients, NEW k \in Conns,
         CallPlain(c, k) \/ CallTransfer(c, k)
  PROVE  IInv'
<1>0. TypeOK
  BY DEF IInv
<1>1. PICK kind \in Kinds, on \in Conns, source \in DOMAIN log \union {None} :
        /\ Call(c, k, kind, on, source)
        /\ on = k \/ <<k, on>> \in Prepared
        /\ \A h \in Range(held[c]) : Nests(h, k)
        /\ kind = "transfer" => source \in Range(held[c])
  BY <1>0, CallForms
<1>r. PICK r : r = Len(log) + 1
  OBVIOUS
<1>2. /\ TypeOK'
      /\ DOMAIN log' = DOMAIN log \union {r}
      /\ \A q \in DOMAIN log : log'[q] = log[q]
      /\ log'[r] = [kind |-> kind, from |-> c, to |-> k, on |-> on,
                    source |-> source]
      /\ r \notin DOMAIN log
      /\ r # None
      /\ None \notin DOMAIN log
  BY <1>0, <1>1, <1>r, CallFacts, ZenonT(30)
<1>3. /\ pc[c] = "running"
      /\ pc' = [pc EXCEPT ![c] = "calling"]
      /\ cur' = [cur EXCEPT ![c] = r]
      /\ queue' = [queue EXCEPT ![k] = Append(@, r)]
      /\ UNCHANGED <<held, running, lock, open, bound>>
  BY <1>1, <1>r DEF Call, JoinQueue
<1>4. /\ \A q \in DOMAIN log :
           /\ From(q)' = From(q)
           /\ To(q)' = To(q)
           /\ Source(q)' = Source(q)
      /\ From(r)' = c /\ To(r)' = k /\ Source(r)' = source
  BY <1>2 DEF From, To, Source
<1>5. /\ \A d \in Clients :
           /\ held[d] \in Seq(DOMAIN log)
           /\ Range(held[d]) \subseteq DOMAIN log
      /\ \A j \in Conns :
           /\ queue[j] \in Seq(DOMAIN log)
           /\ Range(queue[j]) \subseteq DOMAIN log
           /\ Accepted(j) \subseteq DOMAIN log
           /\ running[j] # None => running[j] \in Accepted(j)
           /\ lock[j] # None => lock[j] \in DOMAIN log
  BY <1>0, RequestFacts
<1>6. /\ \A q \in DOMAIN log : From(q) \in Clients /\ To(q) \in Conns
      /\ pc \in [Clients -> {"running", "calling", "dead"}]
      /\ cur \in [Clients -> DOMAIN log \union {None}]
      /\ queue \in [Conns -> Seq(DOMAIN log)]
      /\ bound \subseteq DOMAIN log
  BY <1>0, EntryFacts DEF TypeOK
<1>7. \A j \in Conns :
           /\ \A q \in Accepted(j) : From(q) # c
           /\ \A h \in Range(held[c]) : h \notin Accepted(j)
  BY <1>3, RunningClient
<1>8. \A q \in DOMAIN log :
        /\ From(q) # c => (Awaited(q)' <=> Awaited(q))
        /\ Awaited(q)' => From(q) # c
  BY <1>2, <1>3, <1>4, <1>6 DEF Awaited
<1>9. Awaited(r)'
  BY <1>3, <1>4, <1>6 DEF Awaited
<1>10. /\ Range(queue[k])' = Range(queue[k]) \union {r}
       /\ IsInjective(queue[k]) => IsInjective(queue'[k])
  <2>1. queue[k] \in Seq(DOMAIN log')
    BY <1>0, <1>2, TypesGrow
  <2>2. r \in DOMAIN log' /\ r \notin Range(queue[k])
    BY <1>2, <1>5
  <2>3. queue'[k] = Append(queue[k], r)
    BY <1>3, <1>6
  <2> QED
    BY <2>1, <2>2, <2>3, AppendRange
<1>11. /\ Accepted(k)' = Accepted(k) \union {r}
       /\ \A j \in Conns \ {k} : Accepted(j)' = Accepted(j) /\ queue'[j] = queue[j]
  BY <1>2, <1>3, <1>6, <1>10 DEF Accepted
<1>12. AcceptedInv'
  <2>1. ASSUME NEW j \in Conns, NEW q \in Accepted(j)'
        PROVE  To(q)' = j /\ (pc'[From(q)'] = "dead" \/ Awaited(q)')
    <3>1. CASE q = r
      <4>1. j = k
        BY <1>2, <1>5, <1>11, <2>1, <3>1
      <4> QED
        BY <1>4, <1>9, <3>1, <4>1
    <3>2. CASE q # r
      <4>1. q \in Accepted(j) /\ q \in DOMAIN log
        <5>1. CASE j = k
          BY <1>5, <1>11, <2>1, <3>2, <5>1
        <5>2. CASE j # k
          BY <1>5, <1>11, <2>1, <3>2, <5>2
        <5> QED
          BY <5>1, <5>2
      <4>2. To(q) = j /\ (pc[From(q)] = "dead" \/ Awaited(q))
        BY <4>1 DEF IInv, AcceptedInv
      <4> QED
        BY <1>3, <1>4, <1>6, <1>7, <1>8, <4>1, <4>2
    <3> QED
      BY <3>1, <3>2
  <2>2. ASSUME NEW j \in Conns
        PROVE  IsInjective(queue[j])' /\ running'[j] \notin Range(queue[j])'
    <3>1. IsInjective(queue[j]) /\ running[j] \notin Range(queue[j])
      BY DEF IInv, AcceptedInv
    <3>2. running[j] # r
      BY <1>0, <1>2 DEF TypeOK
    <3> QED
      BY <1>3, <1>10, <1>11, <3>1, <3>2
  <2> QED
    BY <2>1, <2>2 DEF AcceptedInv
<1>13. LockInv'
  BY <1>2, <1>3, <1>5, <1>6 DEF IInv, LockInv, From, To
<1>14. HeldInv'
  <2>1. ASSUME NEW d \in Clients
        PROVE  /\ pc'[d] = "dead" => held'[d] = <<>>
               /\ IsInjective(held'[d])
               /\ \A h \in Range(held'[d]) : From(h)' = d /\ lock'[To(h)'] = h
    BY <1>2, <1>3, <1>5, <1>6 DEF IInv, HeldInv, From, To
  <2> QED
    BY <2>1 DEF HeldInv
<1>15. CallInv'
  <2>1. ASSUME NEW d \in Clients, pc'[d] = "calling"
        PROVE  /\ cur'[d] # None
               /\ log'[cur'[d]].from = d
               /\ \A h \in Range(held'[d]) :
                    <<log'[h].to, log'[cur'[d]].to>> \in Nestings
    <3>1. held'[d] = held[d] /\ \A h \in Range(held[d]) : log'[h] = log[h]
      BY <1>2, <1>3, <1>5
    <3>2. CASE d = c
      <4>1. cur'[d] = r /\ log'[r].to = k /\ log'[r].from = c
        BY <1>2, <1>3, <1>6, <3>2
      <4>2. \A h \in Range(held[d]) : <<log[h].to, k>> \in Nestings
        BY <1>1, <3>2 DEF Nests, To
      <4> QED
        BY <1>2, <3>1, <3>2, <4>1, <4>2
    <3>3. CASE d # c
      <4>1. pc[d] = "calling" /\ cur'[d] = cur[d]
        BY <1>3, <1>6, <2>1, <3>3
      <4>2. /\ cur[d] # None
            /\ log[cur[d]].from = d
            /\ \A h \in Range(held[d]) : <<log[h].to, log[cur[d]].to>> \in Nestings
        BY <4>1 DEF IInv, CallInv, Nests, From, To
      <4>3. cur[d] \in DOMAIN log
        BY <1>6, <4>2
      <4>4. log'[cur[d]] = log[cur[d]]
        BY <1>2, <4>3
      <4> QED
        BY <3>1, <4>1, <4>2, <4>4
    <3> QED
      BY <3>2, <3>3
  <2> QED
    BY <2>1 DEF CallInv, Nests, From, To
<1>16. SourceInv'
  <2>1. ASSUME NEW t \in DOMAIN log', log'[t].kind = "transfer"
        PROVE  /\ Source(t)' \in DOMAIN log'
               /\ Awaited(t)' => Source(t)' \in Range(held'[From(t)'])
               /\ \A j \in Conns : Source(t)' \notin Accepted(j)'
    <3>1. CASE t = r
      <4>1. source \in Range(held[c])
        BY <1>1, <1>2, <2>1, <3>1
      <4>2. source \in DOMAIN log /\ \A j \in Conns : source \notin Accepted(j)
        BY <1>5, <1>7, <4>1
      <4>3. \A j \in Conns : source \notin Accepted(j)'
        <5>1. source # r
          BY <1>2, <4>2
        <5> QED
          BY <1>11, <4>2, <5>1
      <4> QED
        BY <1>2, <1>3, <1>4, <3>1, <4>1, <4>2, <4>3
    <3>2. CASE t # r
      <4>1. t \in DOMAIN log /\ log[t].kind = "transfer"
        BY <1>2, <2>1, <3>2
      <4>2. /\ Source(t) \in DOMAIN log
            /\ Awaited(t) => Source(t) \in Range(held[From(t)])
            /\ \A j \in Conns : Source(t) \notin Accepted(j)
        BY <4>1 DEF IInv, SourceInv
      <4> QED
        BY <1>2, <1>3, <1>4, <1>8, <1>11, <4>1, <4>2
    <3> QED
      BY <3>1, <3>2
  <2> QED
    BY <2>1 DEF SourceInv
<1>17. BoundInv'
  BY <1>2, <1>3, <1>4, <1>6 DEF IInv, BoundInv
<1>18. OnInv'
  <2>1. ASSUME NEW q \in DOMAIN log'
        PROVE  log'[q].on = To(q)' \/ <<To(q)', log'[q].on>> \in Prepared
    BY <1>1, <1>2, <1>4, <2>1 DEF IInv, OnInv
  <2> QED
    BY <2>1 DEF OnInv
<1> QED
  BY <1>2, <1>12, <1>13, <1>14, <1>15, <1>16, <1>17, <1>18 DEF IInv

\* What a step that leaves the log alone leaves alone.
LEMMA SameLog ==
  ASSUME log' = log
  PROVE  \A q : From(q)' = From(q) /\ To(q)' = To(q) /\ Source(q)' = Source(q)
BY DEF From, To, Source

\* When a function returns, the lock of the stream it read is given back, and
\* only that.
LEMMA ReturnKeeps ==
  ASSUME IInv, NEW c \in Clients, Return(c), TypeOK'
  PROVE  IInv'
<1>1. PICK s : s = held[c][Len(held[c])]
  OBVIOUS
<1>2. PICK f : f = SubSeq(held[c], 1, Len(held[c]) - 1)
  OBVIOUS
<1>3. /\ pc[c] = "running"
      /\ held' = [held EXCEPT ![c] = f]
      /\ lock' = [lock EXCEPT ![To(s)] = None]
      /\ open' = open \ {s}
      /\ UNCHANGED <<log, pc, cur, queue, running, bound>>
  BY <1>1, <1>2 DEF Return, Release
<1>4. TypeOK
  BY DEF IInv
<1>5. /\ Range(held[c]) = Range(f) \union {s}
      /\ IsInjective(f)
      /\ s \notin Range(f)
      /\ s \in DOMAIN log
  <2>1. held[c] \in Seq(DOMAIN log) /\ held[c] # <<>>
    BY <1>4, RequestFacts DEF Return
  <2>2. IsInjective(held[c])
    BY DEF IInv, HeldInv
  <2> QED
    BY <1>1, <1>2, <2>1, <2>2, FrontRange
<1>6. /\ To(s) \in Conns
      /\ \A q \in DOMAIN log : From(q) \in Clients
      /\ held \in [Clients -> Seq(DOMAIN log)]
      /\ lock \in [Conns -> DOMAIN log \union {None}]
      /\ None \notin DOMAIN log
  BY <1>4, <1>5, EntryFacts, DomainFacts DEF TypeOK
<1>7. From(s) = c /\ lock[To(s)] = s
  BY <1>5 DEF IInv, HeldInv
<1>8. AcceptedInv'
  BY <1>3 DEF IInv, AcceptedInv, Accepted, Awaited, From, To
<1>9. LockInv'
  <2>1. ASSUME NEW k \in Conns, lock'[k] # None
        PROVE  /\ running[k] = None
               /\ To(lock[k]) = k
               /\ lock'[k] = lock[k]
               /\ \/ pc[From(lock[k])] = "dead"
                  \/ lock[k] \in Range(held'[From(lock[k])])
    <3>1. k # To(s) /\ lock'[k] = lock[k]
      BY <1>3, <1>6, <2>1
    <3>2. /\ running[k] = None
          /\ To(lock[k]) = k
          /\ \/ pc[From(lock[k])] = "dead"
             \/ lock[k] \in Range(held[From(lock[k])])
      BY <2>1, <3>1 DEF IInv, LockInv
    <3>3. lock[k] # s /\ From(lock[k]) \in Clients
      BY <1>6, <2>1, <3>1, <3>2
    <3>4. CASE From(lock[k]) = c
      BY <1>3, <1>5, <1>6, <3>1, <3>2, <3>3, <3>4
    <3>5. CASE From(lock[k]) # c
      BY <1>3, <1>6, <3>1, <3>2, <3>3, <3>5
    <3> QED
      BY <3>4, <3>5
  <2>2. \A k \in Conns : running'[k] # None => lock'[k] = None
    BY <1>3, <2>1
  <2> QED
    BY <1>3, <2>1, <2>2 DEF LockInv, From, To
<1>10. HeldInv'
  <2>1. ASSUME NEW d \in Clients
        PROVE  /\ pc'[d] = "dead" => held'[d] = <<>>
               /\ IsInjective(held'[d])
               /\ \A h \in Range(held'[d]) : From(h) = d /\ lock'[To(h)] = h
    <3>1. /\ pc[d] = "dead" => held[d] = <<>>
          /\ IsInjective(held[d])
          /\ \A h \in Range(held[d]) : From(h) = d /\ lock[To(h)] = h
      BY DEF IInv, HeldInv
    <3>2. \A h \in DOMAIN log : To(h) \in Conns
      BY <1>4, EntryFacts
    <3>3. \A h \in Range(held'[d]) : h \in Range(held[d]) /\ h # s
      BY <1>3, <1>5, <1>6, <1>7, <3>1
    <3>4. \A h \in Range(held'[d]) : From(h) = d /\ lock'[To(h)] = h
      <4> TAKE h \in Range(held'[d])
      <4>1. From(h) = d /\ lock[To(h)] = h /\ h # s
        BY <3>1, <3>3
      <4>2. To(h) # To(s)
        BY <1>7, <4>1
      <4>3. To(h) \in Conns
        BY <1>4, <3>2, <3>3, RequestFacts
      <4> QED
        BY <1>3, <1>6, <4>1, <4>2, <4>3
    <3>5. IsInjective(held'[d])
      BY <1>3, <1>5, <1>6, <3>1
    <3>6. pc'[d] = "dead" => held'[d] = <<>>
      BY <1>3, <1>6, <3>1
    <3> QED
      BY <3>4, <3>5, <3>6
  <2> QED
    BY <1>3, <2>1 DEF HeldInv, From, To
<1>11. CallInv'
  <2>1. ASSUME NEW d \in Clients, pc'[d] = "calling"
        PROVE  d # c /\ pc[d] = "calling" /\ held'[d] = held[d] /\ cur'[d] = cur[d]
    BY <1>3, <1>6, <2>1
  <2> QED
    BY <1>3, <2>1 DEF IInv, CallInv, Nests, From, To
<1>12. SourceInv'
  <2>1. ASSUME NEW t \in DOMAIN log
        PROVE  /\ Awaited(t)' => Awaited(t) /\ held'[From(t)] = held[From(t)]
               /\ \A k \in Conns : Accepted(k)' = Accepted(k)
    BY <1>3, <1>6 DEF Awaited, Accepted, From
  <2>2. ASSUME NEW t \in DOMAIN log', log'[t].kind = "transfer"
        PROVE  /\ Source(t)' \in DOMAIN log'
               /\ Awaited(t)' => Source(t)' \in Range(held'[From(t)'])
               /\ \A k \in Conns : Source(t)' \notin Accepted(k)'
    BY <1>3, <2>1, <2>2, SameLog DEF IInv, SourceInv
  <2> QED
    BY <2>2 DEF SourceInv
<1>13. BoundInv' /\ OnInv'
  BY <1>3 DEF IInv, BoundInv, OnInv, Source, To
<1> QED
  BY <1>8, <1>9, <1>10, <1>11, <1>12, <1>13 DEF IInv

\* Neither does the death of a client disturb it: the locks the client had are
\* those of a dead client.
LEMMA KillKeeps ==
  ASSUME IInv, NEW c \in Clients, Kill(c), TypeOK'
  PROVE  IInv'
<1>1. /\ pc' = [pc EXCEPT ![c] = "dead"]
      /\ held' = [held EXCEPT ![c] = <<>>]
      /\ UNCHANGED <<log, cur, queue, running, lock, open, bound>>
  BY DEF Kill
<1>2. /\ TypeOK
      /\ pc \in [Clients -> {"running", "calling", "dead"}]
      /\ held \in [Clients -> Seq(DOMAIN log)]
      /\ \A q \in DOMAIN log : From(q) \in Clients
  BY EntryFacts DEF IInv, TypeOK
<1>3. Range(<<>>) = {} /\ IsInjective(<<>>)
  BY DEF Range, IsInjective
<1>4. \A q \in DOMAIN log :
        /\ From(q) # c => (Awaited(q)' <=> Awaited(q))
        /\ From(q) # c => pc'[From(q)] = pc[From(q)]
        /\ From(q) = c => pc'[From(q)] = "dead" /\ ~Awaited(q)'
  BY <1>1, <1>2 DEF Awaited, From
<1>5. \A k \in Conns : Accepted(k)' = Accepted(k) /\ Accepted(k) \subseteq DOMAIN log
  BY <1>1, <1>2, RequestFacts DEF Accepted
<1>6. AcceptedInv'
  <2>1. ASSUME NEW k \in Conns, NEW r \in Accepted(k)'
        PROVE  To(r)' = k /\ (pc'[From(r)'] = "dead" \/ Awaited(r)')
    <3>1. To(r) = k /\ (pc[From(r)] = "dead" \/ Awaited(r)) /\ r \in DOMAIN log
      BY <1>5 DEF IInv, AcceptedInv
    <3> QED
      BY <1>1, <1>4, <3>1, SameLog
  <2>2. ASSUME NEW k \in Conns
        PROVE  IsInjective(queue[k])' /\ running'[k] \notin Range(queue[k])'
    BY <1>1 DEF IInv, AcceptedInv
  <2> QED
    BY <2>1, <2>2 DEF AcceptedInv
<1>7. LockInv'
  <2>1. ASSUME NEW k \in Conns, lock[k] # None
        PROVE  /\ To(lock[k]) = k
               /\ \/ pc'[From(lock[k])] = "dead"
                  \/ lock[k] \in Range(held'[From(lock[k])])
    <3>1. lock[k] \in DOMAIN log
      BY <1>2, <2>1, RequestFacts
    <3> QED
      BY <1>1, <1>2, <1>4, <2>1, <3>1 DEF IInv, LockInv
  <2> QED
    BY <1>1, <2>1 DEF IInv, LockInv, From, To
<1>8. HeldInv'
  <2>1. ASSUME NEW d \in Clients
        PROVE  /\ pc'[d] = "dead" => held'[d] = <<>>
               /\ IsInjective(held'[d])
               /\ \A h \in Range(held'[d]) : From(h) = d /\ lock'[To(h)] = h
    BY <1>1, <1>2, <1>3 DEF IInv, HeldInv
  <2> QED
    BY <1>1, <2>1 DEF HeldInv, From, To
<1>9. CallInv'
  <2>1. ASSUME NEW d \in Clients, pc'[d] = "calling"
        PROVE  d # c /\ pc[d] = "calling" /\ held'[d] = held[d] /\ cur'[d] = cur[d]
    BY <1>1, <1>2, <2>1
  <2> QED
    BY <1>1, <2>1 DEF IInv, CallInv, Nests, From, To
<1>10. SourceInv'
  <2>1. ASSUME NEW t \in DOMAIN log', log'[t].kind = "transfer"
        PROVE  /\ Source(t)' \in DOMAIN log'
               /\ Awaited(t)' => Source(t)' \in Range(held'[From(t)'])
               /\ \A k \in Conns : Source(t)' \notin Accepted(k)'
    <3>1. From(t) # c => held'[From(t)] = held[From(t)]
      BY <1>1, <1>2
    <3> QED
      BY <1>1, <1>4, <1>5, <2>1, <3>1, SameLog DEF IInv, SourceInv
  <2> QED
    BY <2>1 DEF SourceInv
<1>11. BoundInv' /\ OnInv'
  BY <1>1 DEF IInv, BoundInv, OnInv, Source, To
<1> QED
  BY <1>6, <1>7, <1>8, <1>9, <1>10, <1>11 DEF IInv

\* A request that is taken from the queue is still accepted.
LEMMA DequeueKeeps ==
  ASSUME IInv, NEW k \in Conns, Dequeue(k), TypeOK'
  PROVE  IInv'
<1>1. /\ running[k] = None /\ lock[k] = None /\ queue[k] # <<>>
      /\ running' = [running EXCEPT ![k] = Head(queue[k])]
      /\ queue' = [queue EXCEPT ![k] = Tail(@)]
      /\ UNCHANGED <<log, pc, cur, held, lock, open, bound>>
  BY DEF Dequeue, MayDequeue, clientVars
<1>2. /\ TypeOK
      /\ queue \in [Conns -> Seq(DOMAIN log)]
      /\ running \in [Conns -> DOMAIN log \union {None}]
      /\ None \notin DOMAIN log
  BY DomainFacts DEF IInv, TypeOK
<1>3. /\ Range(queue[k]) = {Head(queue[k])} \union Range(Tail(queue[k]))
      /\ IsInjective(Tail(queue[k]))
      /\ Head(queue[k]) \notin Range(Tail(queue[k]))
      /\ Head(queue[k]) \in DOMAIN log
  <2>1. queue[k] \in Seq(DOMAIN log) /\ IsInjective(queue[k])
    BY <1>2 DEF IInv, AcceptedInv
  <2> QED
    BY <1>1, <2>1, TailRange, HeadTailProperties, LenProperties
<1>4. \A j \in Conns : Accepted(j)' = Accepted(j)
  <2>1. ASSUME NEW j \in Conns
        PROVE  Accepted(j)' = Accepted(j)
    <3>1. CASE j = k
      BY <1>1, <1>2, <1>3, <3>1 DEF Accepted
    <3>2. CASE j # k
      BY <1>1, <1>2, <3>2 DEF Accepted
    <3> QED
      BY <3>1, <3>2
  <2> QED
    BY <2>1
<1>5. \A q : Awaited(q)' <=> Awaited(q)
  BY <1>1 DEF Awaited, From
<1>6. AcceptedInv'
  <2>1. ASSUME NEW j \in Conns, NEW r \in Accepted(j)'
        PROVE  To(r)' = j /\ (pc'[From(r)'] = "dead" \/ Awaited(r)')
    BY <1>1, <1>4, <1>5, SameLog DEF IInv, AcceptedInv
  <2>2. ASSUME NEW j \in Conns
        PROVE  IsInjective(queue[j])' /\ running'[j] \notin Range(queue[j])'
    BY <1>1, <1>2, <1>3 DEF IInv, AcceptedInv
  <2> QED
    BY <2>1, <2>2 DEF AcceptedInv
<1>7. LockInv'
  BY <1>1, <1>2 DEF IInv, LockInv, From, To
<1>8. HeldInv' /\ CallInv' /\ BoundInv' /\ OnInv'
  BY <1>1 DEF IInv, HeldInv, CallInv, Nests, BoundInv, OnInv, From, To, Source
<1>9. SourceInv'
  BY <1>1, <1>4, <1>5, SameLog DEF IInv, SourceInv
<1> QED
  BY <1>6, <1>7, <1>8, <1>9 DEF IInv

\* A reply ends the wait for one request, and no other waits.
LEMMA ReplyFacts ==
  ASSUME IInv, NEW k \in Conns, running[k] # None, Reply(running[k]),
         UNCHANGED <<log, cur, queue>>, Finish(k)
  PROVE  /\ \A c \in Clients :
              /\ pc'[c] = "dead" <=> pc[c] = "dead"
              /\ pc'[c] = "calling" =>
                   pc[c] = "calling" /\ cur[c] # running[k]
         /\ \A q \in DOMAIN log : Awaited(q)' => Awaited(q)
         /\ \A j \in Conns : Accepted(j)' \subseteq Accepted(j) \ {running[k]}
         /\ AcceptedInv'
<1>1. /\ pc' = [c \in Clients |->
                 IF pc[c] = "calling" /\ cur[c] = running[k] THEN "running"
                                                            ELSE pc[c]]
      /\ running' = [running EXCEPT ![k] = None]
      /\ UNCHANGED <<log, cur, queue>>
  BY DEF Reply, Finish
<1>2. /\ TypeOK
      /\ pc \in [Clients -> {"running", "calling", "dead"}]
      /\ running \in [Conns -> DOMAIN log \union {None}]
      /\ \A q \in DOMAIN log : From(q) \in Clients
  BY EntryFacts DEF IInv, TypeOK
<1>3. \A c \in Clients :
        /\ pc'[c] = "dead" <=> pc[c] = "dead"
        /\ pc'[c] = "calling" =>
             pc[c] = "calling" /\ cur[c] # running[k]
  BY <1>1, <1>2
<1>4. \A q \in DOMAIN log :
        /\ Awaited(q)' => Awaited(q)
        /\ Awaited(q) /\ q # running[k] => Awaited(q)'
  BY <1>1, <1>2 DEF Awaited, From
<1>5. running[k] \in Accepted(k) /\ running[k] \notin Range(queue[k])
      /\ To(running[k]) = k
  BY <1>2, RequestFacts DEF IInv, AcceptedInv
<1>6. ASSUME NEW j \in Conns
      PROVE  Accepted(j)' \subseteq Accepted(j) \ {running[k]}
  <2>1. CASE j = k
    BY <1>1, <1>2, <1>5, <2>1 DEF Accepted
  <2>2. CASE j # k
    <3>1. Accepted(j)' = Accepted(j)
      BY <1>1, <1>2, <2>2 DEF Accepted
    <3>2. \A r \in Accepted(j) : To(r) = j
      BY DEF IInv, AcceptedInv
    <3> QED
      BY <1>5, <2>2, <3>1, <3>2
  <2> QED
    BY <2>1, <2>2
<1>7. AcceptedInv'
  <2>1. ASSUME NEW j \in Conns, NEW r \in Accepted(j)'
        PROVE  To(r)' = j /\ (pc'[From(r)'] = "dead" \/ Awaited(r)')
    <3>1. r \in Accepted(j) /\ r # running[k] /\ r \in DOMAIN log
      BY <1>2, <1>6, RequestFacts
    <3>2. To(r) = j /\ (pc[From(r)] = "dead" \/ Awaited(r)) /\ From(r) \in Clients
      BY <1>2, <3>1 DEF IInv, AcceptedInv
    <3> QED
      BY <1>1, <1>3, <1>4, <3>1, <3>2, SameLog
  <2>2. ASSUME NEW j \in Conns
        PROVE  IsInjective(queue[j])' /\ running'[j] \notin Range(queue[j])'
    <3>1. Range(queue[j]) \subseteq DOMAIN log /\ None \notin DOMAIN log
      BY <1>2, RequestFacts, DomainFacts
    <3> QED
      BY <1>1, <1>2, <3>1 DEF IInv, AcceptedInv
  <2> QED
    BY <2>1, <2>2 DEF AcceptedInv
<1> QED
  BY <1>3, <1>4, <1>6, <1>7

\* An answer without a stream keeps the invariant.
LEMMA AnswerKeeps ==
  ASSUME IInv, NEW k \in Conns, TypeOK',
         HandleCommand(k) \/ HandleStreamError(k) \/ HandleTransfer(k)
  PROVE  IInv'
<1>1. /\ running[k] # None
      /\ Reply(running[k])
      /\ Finish(k)
      /\ running' = [running EXCEPT ![k] = None]
      /\ bound' \subseteq bound
      /\ UNCHANGED <<log, cur, held, queue, lock, open>>
  BY DEF HandleCommand, HandleStreamError, HandleTransfer, Executes, Finish
<1>2. /\ \A c \in Clients :
              /\ pc'[c] = "dead" <=> pc[c] = "dead"
              /\ pc'[c] = "calling" =>
                   pc[c] = "calling" /\ cur[c] # running[k]
      /\ \A q \in DOMAIN log : Awaited(q)' => Awaited(q)
      /\ \A j \in Conns : Accepted(j)' \subseteq Accepted(j) \ {running[k]}
      /\ AcceptedInv'
  BY <1>1, ReplyFacts
<1>3. /\ TypeOK
      /\ running \in [Conns -> DOMAIN log \union {None}]
      /\ \A q \in DOMAIN log : From(q) \in Clients
  BY EntryFacts DEF IInv, TypeOK
<1>4. LockInv'
  <2>1. ASSUME NEW j \in Conns, lock[j] # None
        PROVE  /\ To(lock[j]) = j
               /\ \/ pc'[From(lock[j])] = "dead"
                  \/ lock[j] \in Range(held[From(lock[j])])
    <3>1. From(lock[j]) \in Clients
      BY <1>3, <2>1, RequestFacts
    <3> QED
      BY <1>2, <2>1, <3>1 DEF IInv, LockInv
  <2>2. ASSUME NEW j \in Conns, running'[j] # None
        PROVE  lock[j] = None
    BY <1>1, <1>3, <2>2 DEF IInv, LockInv
  <2> QED
    BY <1>1, <2>1, <2>2 DEF LockInv, From, To
<1>5. HeldInv' /\ CallInv'
  BY <1>1, <1>2 DEF IInv, HeldInv, CallInv, Nests, From, To
<1>6. SourceInv'
  <2>1. ASSUME NEW t \in DOMAIN log', log'[t].kind = "transfer"
        PROVE  /\ Source(t)' \in DOMAIN log'
               /\ Awaited(t)' => Source(t)' \in Range(held'[From(t)'])
               /\ \A j \in Conns : Source(t)' \notin Accepted(j)'
    BY <1>1, <1>2, <2>1, SameLog DEF IInv, SourceInv
  <2> QED
    BY <2>1 DEF SourceInv
<1>7. BoundInv' /\ OnInv'
  BY <1>1 DEF IInv, BoundInv, OnInv, Source, To
<1> QED
  BY <1>2, <1>4, <1>5, <1>6, <1>7 DEF IInv

\* A query that succeeds locks its connection for the client that asked.
LEMMA StreamKeeps ==
  ASSUME IInv, NEW k \in Conns, TypeOK', HandleStream(k)
  PROVE  IInv'
<1>1. PICK s : s = running[k]
  OBVIOUS
<1>2. PICK c : c = From(s)
  OBVIOUS
<1>3. /\ s # None
      /\ Reply(running[k])
      /\ Finish(k)
      /\ running' = [running EXCEPT ![k] = None]
      /\ open' = open \union {s}
      /\ lock' = [lock EXCEPT ![k] = s]
      /\ held' = IF pc[c] = "dead" THEN held
                                   ELSE [held EXCEPT ![c] = Append(@, s)]
      /\ UNCHANGED <<log, cur, queue, bound>>
  BY <1>1, <1>2 DEF HandleStream, Executes, Finish
<1>4. /\ \A d \in Clients :
              /\ pc'[d] = "dead" <=> pc[d] = "dead"
              /\ pc'[d] = "calling" => pc[d] = "calling" /\ cur[d] # s
      /\ \A q \in DOMAIN log : Awaited(q)' => Awaited(q)
      /\ \A j \in Conns : Accepted(j)' \subseteq Accepted(j) \ {s}
      /\ AcceptedInv'
  BY <1>1, <1>3, ReplyFacts
<1>5. /\ TypeOK
      /\ None \notin DOMAIN log
      /\ running \in [Conns -> DOMAIN log \union {None}]
      /\ lock \in [Conns -> DOMAIN log \union {None}]
      /\ held \in [Clients -> Seq(DOMAIN log)]
      /\ \A q \in DOMAIN log : From(q) \in Clients /\ To(q) \in Conns
  BY EntryFacts, DomainFacts DEF IInv, TypeOK
<1>6. /\ s \in Accepted(k)
      /\ s \in DOMAIN log
      /\ To(s) = k
      /\ pc[c] = "dead" \/ (pc[c] = "calling" /\ cur[c] = s)
      /\ c \in Clients
      /\ lock[k] = None
  BY <1>1, <1>2, <1>3, <1>5, RequestFacts
  DEF IInv, AcceptedInv, LockInv, Awaited
<1>7. ASSUME NEW d \in Clients, NEW h \in Range(held[d])
      PROVE  /\ h \in DOMAIN log /\ From(h) = d /\ lock[To(h)] = h
             /\ To(h) # k /\ h # s /\ To(h) \in Conns
  <2>1. h \in DOMAIN log /\ From(h) = d /\ lock[To(h)] = h
    BY <1>5, RequestFacts DEF IInv, HeldInv
  <2>2. To(h) # k
    BY <1>5, <1>6, <2>1
  <2> QED
    BY <1>5, <1>6, <2>1, <2>2
<1>8. pc[c] # "dead" =>
        Range(held'[c]) = Range(held[c]) \union {s} /\ IsInjective(held'[c])
  <2>1. /\ held[c] \in Seq(DOMAIN log)
        /\ IsInjective(held[c])
        /\ s \notin Range(held[c])
    BY <1>5, <1>6, <1>7 DEF IInv, HeldInv
  <2>2. pc[c] # "dead" => held'[c] = Append(held[c], s)
    BY <1>3, <1>5, <1>6
  <2>3. /\ Range(Append(held[c], s)) = Range(held[c]) \union {s}
        /\ IsInjective(Append(held[c], s))
    BY <1>6, <2>1, AppendRange
  <2> QED
    BY <2>2, <2>3
<1>9. \A d \in Clients : d # c \/ pc[c] = "dead" => held'[d] = held[d]
  BY <1>3, <1>5
<1>10. \A d \in Clients : Range(held[d]) \subseteq Range(held'[d])
  BY <1>8, <1>9
<1>11. LockInv'
  <2>1. ASSUME NEW j \in Conns, lock'[j] # None
        PROVE  /\ running'[j] = None
               /\ To(lock'[j]) = j
               /\ \/ pc'[From(lock'[j])] = "dead"
                  \/ lock'[j] \in Range(held'[From(lock'[j])])
    <3>1. CASE j = k
      BY <1>2, <1>3, <1>4, <1>5, <1>6, <1>8, <3>1
    <3>2. CASE j # k
      <4>1. lock'[j] = lock[j] /\ running'[j] = running[j]
        BY <1>3, <1>5, <3>2
      <4>2. /\ running[j] = None
            /\ To(lock[j]) = j
            /\ \/ pc[From(lock[j])] = "dead"
               \/ lock[j] \in Range(held[From(lock[j])])
        BY <2>1, <4>1 DEF IInv, LockInv
      <4>3. From(lock[j]) \in Clients
        BY <1>5, <2>1, <4>1
      <4> QED
        BY <1>4, <1>10, <4>1, <4>2, <4>3
    <3> QED
      BY <3>1, <3>2
  <2> QED
    BY <1>3, <2>1 DEF LockInv, From, To
<1>12. HeldInv'
  <2>1. ASSUME NEW d \in Clients
        PROVE  /\ pc'[d] = "dead" => held'[d] = <<>>
               /\ IsInjective(held'[d])
               /\ \A h \in Range(held'[d]) : From(h) = d /\ lock'[To(h)] = h
    <3>1. /\ pc[d] = "dead" => held[d] = <<>>
          /\ IsInjective(held[d])
      BY DEF IInv, HeldInv
    <3>2. \A h \in Range(held[d]) : From(h) = d /\ lock'[To(h)] = h
      BY <1>3, <1>5, <1>7
    <3>3. CASE d = c /\ pc[c] # "dead"
      <4>1. From(s) = d /\ lock'[To(s)] = s
        BY <1>2, <1>3, <1>5, <1>6, <3>3
      <4> QED
        BY <1>4, <1>8, <3>2, <3>3, <4>1
    <3>4. CASE d # c \/ pc[c] = "dead"
      BY <1>4, <1>9, <3>1, <3>2, <3>4
    <3> QED
      BY <3>3, <3>4
  <2> QED
    BY <1>3, <2>1 DEF HeldInv, From, To
<1>13. CallInv'
  <2>1. ASSUME NEW d \in Clients, pc'[d] = "calling"
        PROVE  pc[d] = "calling" /\ held'[d] = held[d] /\ cur'[d] = cur[d]
    <3>1. pc[d] = "calling" /\ cur[d] # s
      BY <1>4, <2>1
    <3>2. d # c
      BY <1>6, <3>1
    <3> QED
      BY <1>3, <1>9, <3>1, <3>2
  <2> QED
    BY <1>3, <2>1 DEF IInv, CallInv, Nests, From, To
<1>14. SourceInv'
  <2>1. ASSUME NEW t \in DOMAIN log', log'[t].kind = "transfer"
        PROVE  /\ Source(t)' \in DOMAIN log'
               /\ Awaited(t)' => Source(t)' \in Range(held'[From(t)'])
               /\ \A j \in Conns : Source(t)' \notin Accepted(j)'
    BY <1>3, <1>4, <1>5, <1>10, <2>1, SameLog DEF IInv, SourceInv
  <2> QED
    BY <2>1 DEF SourceInv
<1>15. BoundInv'
  <2>1. ASSUME NEW t \in bound
        PROVE  log[t].kind = "transfer" /\ Source(t) \notin open /\ Source(t) # s
    <3>1. t \in DOMAIN log
      BY DEF IInv, TypeOK
    <3> QED
      BY <1>6, <3>1 DEF IInv, BoundInv, SourceInv
  <2> QED
    BY <1>3, <2>1 DEF BoundInv, Source
<1>16. OnInv'
  BY <1>3 DEF IInv, OnInv, To
<1> QED
  BY <1>4, <1>11, <1>12, <1>13, <1>14, <1>15, <1>16 DEF IInv

\* Binding moves a stream out of the resource made for it.
LEMMA BindKeeps ==
  ASSUME IInv, NEW k \in Conns, BindStream(k), TypeOK'
  PROVE  IInv'
<1>1. /\ running[k] \in DOMAIN log /\ log[running[k]].kind = "transfer"
      /\ open' = open \ {Source(running[k])}
      /\ bound' = bound \union {running[k]}
      /\ UNCHANGED <<log, pc, cur, held, queue, running, lock>>
  BY DEF IInv, TypeOK, BindStream, Executes, Release, clientVars
<1>2. AcceptedInv' /\ LockInv' /\ HeldInv' /\ CallInv' /\ SourceInv' /\ OnInv'
  BY <1>1 DEF IInv, AcceptedInv, Accepted, Awaited, LockInv, HeldInv, CallInv, Nests,
    SourceInv, OnInv, From, To, Source
<1>3. BoundInv'
  BY <1>1 DEF IInv, BoundInv, Source
<1> QED
  BY <1>2, <1>3 DEF IInv

\* The lock of a dead client is given back, and no one reads its stream.
LEMMA DownKeeps ==
  ASSUME IInv, NEW k \in Conns, HandleDown(k), TypeOK'
  PROVE  IInv'
<1>1. /\ lock[k] # None
      /\ pc[From(lock[k])] = "dead"
      /\ open' = open \ {lock[k]}
      /\ lock' = [lock EXCEPT ![k] = None]
      /\ UNCHANGED <<log, pc, cur, held, queue, running, bound>>
  BY DEF HandleDown, Release, clientVars
<1>2. /\ TypeOK
      /\ lock \in [Conns -> DOMAIN log \union {None}]
      /\ Range(<<>>) = {}
      /\ \A h \in DOMAIN log : To(h) \in Conns
  BY EntryFacts DEF IInv, TypeOK, Range
<1>3. AcceptedInv' /\ CallInv' /\ SourceInv' /\ OnInv'
  BY <1>1 DEF IInv, AcceptedInv, Accepted, Awaited, CallInv, Nests, SourceInv, OnInv,
    From, To, Source
<1>4. LockInv'
  BY <1>1, <1>2 DEF IInv, LockInv, From, To
<1>5. HeldInv'
  <2>1. ASSUME NEW d \in Clients, NEW h \in Range(held[d])
        PROVE  From(h) = d /\ lock'[To(h)] = h
    <3>1. From(h) = d /\ lock[To(h)] = h /\ pc[d] # "dead"
      BY <1>2 DEF IInv, HeldInv
    <3>2. To(h) # k
      BY <1>1, <3>1
    <3>3. To(h) \in Conns
      BY <1>2, RequestFacts
    <3> QED
      BY <1>1, <1>2, <3>1, <3>2, <3>3
  <2> QED
    BY <1>1, <2>1 DEF IInv, HeldInv, From, To
<1>6. BoundInv'
  BY <1>1 DEF IInv, BoundInv, Source
<1> QED
  BY <1>3, <1>4, <1>5, <1>6 DEF IInv

\* The collection of a statement changes nothing the invariant speaks of, nor
\* does a step of another part of the system.
LEMMA CollectKeeps ==
  ASSUME IInv, TypeOK', UNCHANGED vars \/ \E t \in DOMAIN log : CollectStatement(t)
  PROVE  IInv'
<1>1. bound' \subseteq bound
      /\ UNCHANGED <<log, pc, cur, held, queue, running, lock, open>>
  BY DEF vars, CollectStatement, clientVars
<1>2. AcceptedInv' /\ LockInv' /\ HeldInv' /\ CallInv' /\ SourceInv' /\ OnInv'
  BY <1>1 DEF IInv, AcceptedInv, Accepted, Awaited, LockInv, HeldInv, CallInv, Nests,
    SourceInv, OnInv, From, To, Source
<1>3. BoundInv'
  BY <1>1 DEF IInv, BoundInv, Source
<1> QED
  BY <1>2, <1>3 DEF IInv

\* The invariant holds in every reachable state.
THEOREM Invariance == Spec => []IInv
<1>1. Init => IInv
  <2> SUFFICES ASSUME Init PROVE IInv
    OBVIOUS
  <2>1. Len(<<>>) <= MaxRequests
    BY ConstantsAssumption
  <2>2. log \in Seq([kind : Kinds, from : Clients, to : Conns, on : Conns,
                     source : Ids \union {None}])
    BY DEF Init
  <2>3. TypeOK
    BY <2>1, <2>2 DEF Init, TypeOK, None
  <2>4. Range(<<>>) = {} /\ IsInjective(<<>>) /\ DOMAIN log = {}
    BY DEF Init, Range, IsInjective
  <2>5. AcceptedInv
    BY <2>4 DEF Init, AcceptedInv, Accepted
  <2>6. HeldInv
    BY <2>4 DEF Init, HeldInv
  <2> QED
    BY <2>3, <2>4, <2>5, <2>6
    DEF Init, IInv, LockInv, CallInv, SourceInv, BoundInv, OnInv
<1>2. IInv /\ [Next]_vars => IInv'
  <2> SUFFICES ASSUME IInv, [Next]_vars PROVE IInv'
    OBVIOUS
  <2>1. TypeOK'
    BY ClientTypes, ConnTypes, OtherTypes DEF IInv, Next
  <2>2. CASE \E c \in Clients : ClientStep(c)
    BY <2>1, <2>2, CallKeeps, ReturnKeeps, KillKeeps DEF ClientStep
  <2>3. CASE \E k \in Conns : Serve(k) \/ BindStream(k)
    BY <2>1, <2>3, DequeueKeeps, AnswerKeeps, StreamKeeps, DownKeeps, BindKeeps DEF Serve
  <2> QED
    BY <2>1, <2>2, <2>3, CollectKeeps DEF Next
<1> QED
  BY <1>1, <1>2, PTL DEF Spec

-----------------------------------------------------------------------------
(* What follows from the invariant.                                        *)

\* What a client that lives has to do with the transfer that executes.
LEMMA TransferFacts ==
  ASSUME IInv, NEW k \in Conns, Executes(k, "transfer"), pc[From(running[k])] # "dead"
  PROVE  LET t == running[k] IN
         /\ t \in DOMAIN log
         /\ Awaited(t)
         /\ From(Source(t)) = From(t)
         /\ To(Source(t)) \in Conns
         /\ lock[To(Source(t))] = Source(t)
         /\ Source(t) # None
<1>1. /\ TypeOK
      /\ running[k] # None
      /\ running[k] \in DOMAIN log
      /\ running[k] \in Accepted(k)
      /\ log[running[k]].kind = "transfer"
  BY RequestFacts DEF IInv, Executes, TypeOK
<1>2. Awaited(running[k]) /\ From(running[k]) \in Clients
  BY <1>1, EntryFacts DEF IInv, AcceptedInv
<1>3. /\ Source(running[k]) \in Range(held[From(running[k])])
      /\ Source(running[k]) \in DOMAIN log
  BY <1>1, <1>2 DEF IInv, SourceInv
<1>4. /\ From(Source(running[k])) = From(running[k])
      /\ lock[To(Source(running[k]))] = Source(running[k])
  BY <1>2, <1>3 DEF IInv, HeldInv
<1>5. To(Source(running[k])) \in Conns /\ Source(running[k]) # None
  BY <1>1, <1>3, EntryFacts, DomainFacts
<1> QED
  BY <1>1, <1>2, <1>4, <1>5

\* While the destination of a transfer reads the stream of a client that lives,
\* the source connection stays locked for that stream.
THEOREM TransfersKeepSource == Spec => []TransferKeepsSource
<1>1. IInv => TransferKeepsSource
  BY TransferFacts DEF TransferKeepsSource
<1> QED
  BY <1>1, Invariance, PTL

\* Clients do not wait for each other if applications call connections from
\* inside of one another in no infinite, and so in no circular order: the check
\* of bulk_insert and ingest is all that the code has to add.
THEOREM CallsDoNotDeadlock ==
  ASSUME IsWellFoundedOn({p \in Conns \X Conns : <<p[2], p[1]>> \in Nestings}, Conns)
  PROVE  Spec => []NoDeadlock
<1>1. IInv => NoDeadlock
  <2> SUFFICES ASSUME IInv, NEW W \in (SUBSET Clients) \ {{}},
                      ~\E c \in W : \A d \in W : ~WaitsFor(c, d)
               PROVE  FALSE
    BY Zenon DEF NoDeadlock
  <2>a. W \subseteq Clients /\ W # {}
    OBVIOUS
  <2>0. /\ W \subseteq Clients /\ W # {}
        /\ \A c \in W : \E d \in W : WaitsFor(c, d)
    BY <2>a, Zenon
  <2> DEFINE R == {p \in Conns \X Conns : <<p[2], p[1]>> \in Nestings}
             T == {To(cur[c]) : c \in W}
  <2>1. TypeOK
    BY DEF IInv
  <2>2. \A c \in W :
          /\ pc[c] = "calling"
          /\ cur[c] \in DOMAIN log
          /\ To(cur[c]) \in Conns
    <3> SUFFICES ASSUME NEW c \in W
                 PROVE  /\ pc[c] = "calling"
                        /\ cur[c] \in DOMAIN log
                        /\ To(cur[c]) \in Conns
      OBVIOUS
    <3>1. pc[c] = "calling"
      BY <2>0 DEF WaitsFor
    <3>2. cur[c] # None /\ cur[c] \in DOMAIN log \union {None}
      BY <2>0, <2>1, <3>1 DEF IInv, CallInv, TypeOK
    <3> QED
      BY <2>1, <3>1, <3>2, EntryFacts
  <2>3. T \subseteq Conns /\ T # {}
    BY <2>0, <2>2
  <2>4. IsWellFoundedOn(R, Conns)
    OBVIOUS
  <2>5. PICK k \in T : \A l \in T : <<l, k>> \notin R
    <3> HIDE DEF R, T
    <3> QED
      BY <2>3, <2>4, WFMin
  <2>6. PICK c \in W : k = To(cur[c])
    BY <2>5
  <2>7. PICK d \in W : WaitsFor(c, d)
    BY <2>0
  <2>8. /\ lock[k] # None
        /\ From(lock[k]) = d
        /\ To(lock[k]) = k
        /\ lock[k] \in Range(held[d])
    BY <2>2, <2>6, <2>7 DEF WaitsFor, IInv, LockInv
  <2>9. <<k, To(cur[d])>> \in Nestings
    BY <2>0, <2>2, <2>8 DEF IInv, CallInv, Nests
  <2> QED
    BY <2>2, <2>3, <2>5, <2>9
<1> QED
  BY <1>1, Invariance, PTL

\* If applications execute prepared statements where they were prepared, no
\* two requests use a connection of the driver at once, whatever they transfer
\* from one connection to another.
THEOREM DriverIsSerialized ==
  ASSUME Prepared = {}
  PROVE  Spec => []DriverSerialized
<1>1. IInv => DriverSerialized
  <2> SUFFICES ASSUME IInv, NEW k \in Conns, NEW r \in Uses(k), NEW q \in Uses(k),
                      pc[From(r)] # "dead", pc[From(q)] # "dead"
               PROVE  r = q
    BY DEF DriverSerialized
  <2>1. TypeOK /\ \A x \in DOMAIN log : log[x].on = To(x)
    BY DEF IInv, OnInv
  <2>2. /\ running \in [Conns -> DOMAIN log \union {None}]
        /\ lock \in [Conns -> DOMAIN log \union {None}]
        /\ bound \subseteq DOMAIN log
    BY <2>1 DEF TypeOK
  <2>3. ASSUME NEW u \in Uses(k), pc[From(u)] # "dead"
        PROVE  \/ running[k] = u /\ u # None /\ lock[k] = None
               \/ lock[k] = u /\ u \in open /\ u # None
               \/ /\ u \in bound
                  /\ Awaited(u)
                  /\ lock[k] = Source(u)
                  /\ Source(u) # None
                  /\ Source(u) \notin open
                  /\ From(Source(u)) = From(u)
    <3>1. CASE u \in Range(lock) \intersect open /\ log[u].on = k
      <4>1. PICK j \in Conns : lock[j] = u
        BY <2>2, <3>1 DEF Range
      <4>2. u \in DOMAIN log
        BY <2>1, <3>1 DEF TypeOK
      <4>3. u # None
        BY <2>1, <4>2, DomainFacts
      <4> QED
        BY <2>1, <3>1, <4>1, <4>2, <4>3 DEF IInv, LockInv
    <3>2. CASE u \in Range(running) \ {None} /\ log[u].on = k
      <4>1. PICK j \in Conns : running[j] = u /\ u # None /\ u \in DOMAIN log
        BY <2>2, <3>2 DEF Range
      <4>2. To(u) = j /\ To(u) = k
        BY <2>1, <3>2, <4>1, RequestFacts DEF IInv, AcceptedInv
      <4> QED
        BY <4>1, <4>2 DEF IInv, LockInv
    <3>3. CASE u \in Range(running) \ {None} /\ u \in bound /\ log[Source(u)].on = k
      <4>1. PICK j \in Conns : running[j] = u /\ u # None
        BY <2>2, <3>3 DEF Range
      <4>2. log[u].kind = "transfer" /\ Source(u) \notin open
        BY <3>3 DEF IInv, BoundInv
      <4>3. Executes(j, "transfer")
        BY <4>1, <4>2 DEF Executes
      <4>4. /\ Awaited(u)
            /\ From(Source(u)) = From(u)
            /\ lock[To(Source(u))] = Source(u)
            /\ Source(u) # None
        BY <2>3, <4>1, <4>3, TransferFacts
      <4>5. Source(u) \in DOMAIN log
        BY <2>2, <3>3, <4>2 DEF IInv, SourceInv
      <4> QED
        BY <2>1, <3>3, <4>2, <4>4, <4>5
    <3> QED
      BY <2>3, <3>1, <3>2, <3>3 DEF Uses
  <2>4. \A u \in {r, q} :
          \/ running[k] = u /\ u # None /\ lock[k] = None
          \/ lock[k] = u /\ u \in open /\ u # None
          \/ /\ Awaited(u)
             /\ lock[k] = Source(u)
             /\ Source(u) # None
             /\ Source(u) \notin open
             /\ From(Source(u)) = From(u)
    BY <2>3
  <2>5. \A u, v : Awaited(u) /\ Awaited(v) /\ From(u) = From(v) => u = v
    BY DEF Awaited
  <2> QED
    BY <2>4, <2>5
<1> QED
  BY <1>1, Invariance, PTL

-----------------------------------------------------------------------------
(* Each of the connections implements ConnectionService.                   *)

Active(k) == IF running[k] # None THEN running[k] ELSE lock[k]

Serves(k) == Service(k)!Next \/ UNCHANGED Service(k)!vars

\* Where the log is the same, so are the requests that have arrived.
LEMMA SameService ==
  ASSUME NEW k \in Conns, log' = log, queue'[k] = queue[k], Active(k)' = Active(k)
  PROVE  Serves(k)
<1>1. UNCHANGED Service(k)!vars
  BY DEF Service!vars, Active, To
<1> QED
  BY <1>1 DEF Serves

\* A call arrives at its connection, and nowhere else.
LEMMA CallServes ==
  ASSUME IInv, NEW c \in Clients, NEW l \in Conns,
         CallPlain(c, l) \/ CallTransfer(c, l), NEW k \in Conns
  PROVE  Serves(k)
<1>1. PICK kind \in Kinds, on \in Conns, source \in DOMAIN log \union {None} :
        Call(c, l, kind, on, source)
  BY CallForms DEF IInv
<1>2. PICK r : r = Len(log) + 1
  OBVIOUS
<1>3. /\ TypeOK'
      /\ DOMAIN log' = DOMAIN log \union {r}
      /\ \A q \in DOMAIN log : log'[q] = log[q]
      /\ log'[r] = [kind |-> kind, from |-> c, to |-> l, on |-> on,
                    source |-> source]
      /\ r \notin DOMAIN log
  BY <1>1, <1>2, CallFacts, ZenonT(30) DEF IInv
<1>4. /\ queue' = [queue EXCEPT ![l] = Append(@, r)]
      /\ queue \in [Conns -> Seq(DOMAIN log)]
      /\ UNCHANGED <<running, lock>>
  BY <1>1, <1>2 DEF IInv, TypeOK, Call, JoinQueue
<1>5. CASE k = l
  <2>1. r \in Ids
    <3>1. DOMAIN log' \subseteq Ids
      <4>1. ASSUME TypeOK' PROVE (DOMAIN log \subseteq Ids)'
        BY <4>1, DomainFacts, PTL
      <4> QED
        BY <1>3, <4>1
    <3> QED
      BY <1>3, <3>1
  <2>2. Service(k)!Arrive(r)
    BY <1>3, <1>4, <1>5, <2>1 DEF Service!Arrive, To
  <2> QED
    BY <2>1, <2>2 DEF Serves, Service!Next
<1>6. CASE k # l
  <2>1. {q \in DOMAIN log' : log'[q].to = k} = {q \in DOMAIN log : log[q].to = k}
    BY <1>3, <1>6
  <2>2. UNCHANGED Service(k)!vars
    BY <1>4, <1>6, <2>1 DEF Service!vars, To
  <2> QED
    BY <2>2 DEF Serves
<1> QED
  BY <1>5, <1>6

\* A request that ends, or a lock that is given back, finishes the service of
\* one connection.
LEMMA EndServes ==
  ASSUME NEW k \in Conns, Active(k) # None, Active(k)' = None,
         log' = log, queue'[k] = queue[k]
  PROVE  Serves(k)
<1>1. Service(k)!Finish
  BY DEF Service!Finish, Active, To
<1> QED
  BY <1>1 DEF Serves, Service!Next

\* Clients change the service of a connection by calls and returns only.
LEMMA ClientServes ==
  ASSUME IInv, NEW c \in Clients, ClientStep(c), NEW k \in Conns
  PROVE  Serves(k)
<1>1. CASE Return(c)
  <2>1. PICK s : s = held[c][Len(held[c])]
    OBVIOUS
  <2>2. /\ lock' = [lock EXCEPT ![To(s)] = None]
        /\ UNCHANGED <<log, queue, running>>
    BY <1>1, <2>1 DEF Return
  <2>3. s \in Range(held[c]) /\ s \in DOMAIN log
    <3>1. held[c] \in Seq(DOMAIN log) /\ held[c] # <<>>
      BY <1>1, RequestFacts DEF IInv, Return
    <3> QED
      BY <2>1, <3>1, FrontRange
  <2>4. lock[To(s)] = s /\ s # None /\ lock \in [Conns -> DOMAIN log \union {None}]
    BY <2>3, DomainFacts DEF IInv, HeldInv, TypeOK
  <2>5. CASE k = To(s)
    <3>1. running[k] = None
      BY <2>4, <2>5 DEF IInv, LockInv
    <3> QED
      BY <2>2, <2>4, <2>5, <3>1, EndServes DEF Active
  <2>6. CASE k # To(s)
    BY <2>2, <2>4, <2>6, SameService DEF Active
  <2> QED
    BY <2>5, <2>6
<1>2. CASE Kill(c)
  BY <1>2, SameService DEF Kill, Active
<1> QED
  BY <1>1, <1>2, CallServes DEF ClientStep

\* A connection starts the request at the head of its queue and ends it, or
\* ends the service of a stream.
LEMMA ConnServes ==
  ASSUME IInv, NEW l \in Conns, Serve(l) \/ BindStream(l), NEW k \in Conns
  PROVE  Serves(k)
<1>1. /\ running \in [Conns -> DOMAIN log \union {None}]
      /\ lock \in [Conns -> DOMAIN log \union {None}]
      /\ queue \in [Conns -> Seq(DOMAIN log)]
      /\ \A j \in Conns : running[j] # None => lock[j] = None
  BY DEF IInv, TypeOK, LockInv
<1>2. ASSUME Dequeue(l)
      PROVE  Serves(k)
  <2>1. /\ running[l] = None /\ lock[l] = None /\ queue[l] # <<>>
        /\ running' = [running EXCEPT ![l] = Head(queue[l])]
        /\ queue' = [queue EXCEPT ![l] = Tail(@)]
        /\ UNCHANGED <<log, lock>>
    BY <1>2 DEF Dequeue, MayDequeue
  <2>2. CASE k = l
    <3>1. Head(queue[k]) # None
      <4>1. Head(queue[k]) \in DOMAIN log
        BY <1>1, <2>1, <2>2, HeadTailProperties, LenProperties
      <4> QED
        BY <4>1, DomainFacts DEF IInv
    <3>2. Service(k)!Start
      BY <1>1, <2>1, <2>2, <3>1 DEF Service!Start, To
    <3> QED
      BY <3>2 DEF Serves, Service!Next
  <2>3. CASE k # l
    BY <1>1, <2>1, <2>3, SameService DEF Active
  <2> QED
    BY <2>2, <2>3
<1>3. ASSUME HandleCommand(l) \/ HandleStreamError(l) \/ HandleTransfer(l)
      PROVE  Serves(k)
  <2>1. /\ running[l] # None
        /\ running' = [running EXCEPT ![l] = None]
        /\ UNCHANGED <<log, queue, lock>>
    BY <1>3 DEF HandleCommand, HandleStreamError, HandleTransfer, Executes, Finish
  <2>2. CASE k = l
    BY <1>1, <2>1, <2>2, EndServes DEF Active
  <2>3. CASE k # l
    BY <1>1, <2>1, <2>3, SameService DEF Active
  <2> QED
    BY <2>2, <2>3
<1>4. ASSUME HandleStream(l)
      PROVE  Serves(k)
  <2>1. /\ running[l] # None
        /\ running' = [running EXCEPT ![l] = None]
        /\ lock' = [lock EXCEPT ![l] = running[l]]
        /\ UNCHANGED <<log, queue>>
    BY <1>4 DEF HandleStream, Executes, Finish
  <2> QED
    BY <1>1, <2>1, SameService DEF Active
<1>5. ASSUME HandleDown(l)
      PROVE  Serves(k)
  <2>1. /\ lock[l] # None
        /\ lock' = [lock EXCEPT ![l] = None]
        /\ UNCHANGED <<log, queue, running>>
    BY <1>5 DEF HandleDown
  <2>2. CASE k = l
    BY <1>1, <2>1, <2>2, EndServes DEF Active
  <2>3. CASE k # l
    BY <1>1, <2>1, <2>3, SameService DEF Active
  <2> QED
    BY <2>2, <2>3
<1>6. ASSUME BindStream(l)
      PROVE  Serves(k)
  BY <1>6, SameService DEF BindStream, Active
<1> QED
  BY <1>2, <1>3, <1>4, <1>5, <1>6 DEF Serve

\* Every connection serves the requests that arrive at it in order and one at
\* a time, however calls and readers nest and whichever streams are moved.
THEOREM ServedInOrder == Spec => ServesInOrder
<1>1. ASSUME IInv, [Next]_vars
      PROVE  [\A k \in Conns : Service(k)!Next \/ UNCHANGED Service(k)!vars]_vars
  <2>1. ASSUME Next, NEW k \in Conns
        PROVE  Serves(k)
    <3>1. ASSUME NEW t \in DOMAIN log, CollectStatement(t)
          PROVE  Serves(k)
      BY <3>1, SameService DEF CollectStatement, Active
    <3> QED
      BY <1>1, <2>1, <3>1, ClientServes, ConnServes DEF Next
  <2> QED
    BY <1>1, <2>1 DEF Serves
<1> QED
  BY <1>1, Invariance, PTL DEF Spec, ServesInOrder
=============================================================================
