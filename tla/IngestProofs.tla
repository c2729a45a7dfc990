---------------------------- MODULE IngestProofs ----------------------------
(***************************************************************************)
(* Proofs about Ingest: the tables of ingests are kept, named afresh and   *)
(* dropped for any number of clients, calls and sessions.                  *)
(***************************************************************************)
EXTENDS Ingest, SequenceTheorems, FiniteSetTheorems, FunctionTheorems, TLAPS

\* The requests of clients, and those of destructors.
Calls == {r \in DOMAIN log : log[r].op # "drop"}
Drops == {r \in DOMAIN log : log[r].op = "drop"}

\* A request is of some session, the present one if it is under way.  A drop
\* is of the session of its result, and a query of a result that was made.
LogInv ==
  \A r \in DOMAIN log :
    /\ log[r].epoch <= epoch
    /\ r \notin seen => Current(r)
    /\ log[r].op = "query" => log[r].of \in made
    /\ log[r].op = "drop" =>
         /\ log[r].of \in destroyed
         /\ log[log[r].of].epoch = log[r].epoch

\* Clients make no more calls than they may, and a result is dropped once.
BoundInv ==
  /\ Cardinality(Calls) <= MaxCalls
  /\ \A d, e \in Drops : log[d].of = log[e].of => d = e

\* A result was made by an ingest that is over.  The tables of a session have
\* names of their own.  Nothing refers to a result that was destroyed.
MadeInv ==
  /\ \A r \in made :
       /\ log[r].op = "ingest"
       /\ r \in seen
       /\ r # active
       /\ \A i \in DOMAIN waiting : waiting[i] # r
  /\ \A r \in made : Current(r) => name[r] < counter
  /\ \A r, q \in made : Current(r) /\ Current(q) /\ name[r] = name[q] => r = q
  /\ \A r \in destroyed : holders[r] = {}

\* What waits or is served has arrived in this session, once; the stream that
\* is open is that of the query being served.  A client that calls or reads
\* has made a request.
QueueInv ==
  /\ \A i \in DOMAIN waiting :
       waiting[i] \in seen /\ waiting[i] # active /\ Current(waiting[i])
  /\ \A i, j \in DOMAIN waiting : waiting[i] = waiting[j] => i = j
  /\ active # None => active \in seen /\ Current(active)
  /\ stream # None => stream = active /\ log[stream].op = "query"
  /\ \A c \in Clients : pc[c] \in {"calling", "reading"} => cur[c] # None

\* The inductive invariant.
IInv ==
  /\ TypeOK
  /\ LogInv
  /\ BoundInv
  /\ MadeInv
  /\ QueueInv
  /\ ResultKeepsTable
  /\ ReadTablesExist
  /\ FreshNames
  /\ NoLeak

-----------------------------------------------------------------------------
(* The bound of the log.                                                   *)

Entries == [op : Ops, from : Clients \union {Server},
            of : Ids \union {None}, epoch : Nat]

\* What TypeOK says of the requests.
LEMMA LogFacts ==
  ASSUME TypeOK
  PROVE  /\ log \in Seq(Entries)
         /\ Len(log) \in Nat /\ DOMAIN log = 1..Len(log)
         /\ DOMAIN log \subseteq Ids /\ None \notin DOMAIN log
         /\ None \notin Ids
         /\ \A r \in DOMAIN log : log[r] \in Entries
         /\ \A r \in DOMAIN log : log[r].epoch \in Nat
         /\ \A r \in DOMAIN log : log[r].op \in Ops
<1>1. log \in Seq(Entries)
  BY DEF TypeOK, Entries
<1>2. Len(log) \in Nat /\ DOMAIN log = 1..Len(log)
  BY <1>1
<1>3. DOMAIN log \subseteq Ids /\ None \notin DOMAIN log /\ None \notin Ids
  BY <1>2, ConstantsAssumption DEF TypeOK, Ids, None
<1>4. \A r \in DOMAIN log : log[r] \in Entries
  BY <1>1, ElementOfSeq, LenProperties
<1> QED
  BY <1>1, <1>2, <1>3, <1>4 DEF Entries

\* The log has room for one more request, as long as clients may call or there
\* is a result that was not destroyed.
LEMMA Room ==
  ASSUME TypeOK, LogInv, BoundInv, MadeInv
  PROVE  /\ IsFiniteSet(Calls)
         /\ Cardinality(Calls) \in Nat
         /\ CallsLeft <=> Cardinality(Calls) < MaxCalls
         /\ CallsLeft => Len(log) + 1 <= 2 * MaxCalls
         /\ made \ destroyed # {} => Len(log) + 1 <= 2 * MaxCalls
<1>1. Len(log) \in Nat /\ DOMAIN log = 1..Len(log)
  BY LogFacts
<1>2. IsFiniteSet(DOMAIN log) /\ Cardinality(DOMAIN log) = Len(log)
  <2>1. 1 \in Int /\ Len(log) \in Int
    BY <1>1
  <2>2. /\ IsFiniteSet(1..Len(log))
        /\ Cardinality(1..Len(log)) = IF 1 > Len(log) THEN 0 ELSE Len(log) - 1 + 1
    BY <2>1, FS_Interval
  <2>3. Cardinality(1..Len(log)) = Len(log)
    BY <1>1, <2>2
  <2> QED
    BY <1>1, <2>2, <2>3
<1>3. IsFiniteSet(Calls) /\ IsFiniteSet(Drops)
  <2>1. Calls \in SUBSET DOMAIN log /\ Drops \in SUBSET DOMAIN log
    BY DEF Calls, Drops
  <2> QED
    BY <1>2, <2>1, FS_Subset
<1>4. Cardinality(Calls) \in Nat /\ Cardinality(Drops) \in Nat
  BY <1>3, FS_CardinalityType
<1>5. Len(log) = Cardinality(Calls) + Cardinality(Drops)
  <2>1. Calls \cup Drops = DOMAIN log /\ Calls \cap Drops = {}
    BY DEF Calls, Drops
  <2>2. Cardinality(Calls \cup Drops) =
          Cardinality(Calls) + Cardinality(Drops) - Cardinality(Calls \cap Drops)
    BY <1>3, FS_Union
  <2>3. Cardinality(Calls \cap Drops) = 0
    BY <2>1, FS_EmptySet
  <2> QED
    BY <1>2, <1>4, <2>1, <2>2, <2>3
<1>6. made \subseteq Calls
  BY DEF TypeOK, MadeInv, Calls
<1> DEFINE f == [d \in Drops |-> log[d].of]
<1>7. ASSUME NEW T, T \subseteq Calls, destroyed \subseteq T
      PROVE  Cardinality(Drops) <= Cardinality(T)
  <2>1. f \in [Drops -> T]
    BY <1>7 DEF LogInv, Drops
  <2>2. \A d, e \in Drops : f[d] = f[e] => d = e
    BY DEF BoundInv
  <2> HIDE DEF f
  <2>3. f \in Injection(Drops, T)
    BY <2>1, <2>2, Fun_IsInj
  <2>4. IsFiniteSet(T)
    BY <1>3, <1>7, FS_Subset
  <2> QED
    BY <2>3, <2>4, FS_Injection
<1>8. Cardinality(Drops) <= Cardinality(Calls)
  BY <1>6, <1>7 DEF TypeOK
<1>9. CallsLeft <=> Cardinality(Calls) < MaxCalls
  BY DEF CallsLeft, Calls
<1>10. MaxCalls \in Nat
  BY ConstantsAssumption
<1>11. CallsLeft => Len(log) + 1 <= 2 * MaxCalls
  BY <1>4, <1>5, <1>8, <1>9, <1>10
<1>12. ASSUME made \ destroyed # {}
       PROVE  Len(log) + 1 <= 2 * MaxCalls
  <2>1. PICK r \in made : r \notin destroyed
    BY <1>12
  <2>2. Cardinality(Calls \ {r}) = Cardinality(Calls) - 1
    BY <1>3, <1>6, <2>1, FS_RemoveElement
  <2>3. Cardinality(Drops) <= Cardinality(Calls \ {r})
    BY <1>6, <1>7, <2>1 DEF TypeOK
  <2> QED
    BY <1>4, <1>5, <1>10, <2>2, <2>3 DEF BoundInv
<1> QED
  BY <1>3, <1>4, <1>9, <1>11, <1>12

-----------------------------------------------------------------------------
(* What a step leaves alone.                                               *)

\* Request d has not been served yet.
OnItsWay(d) ==
  \/ d \notin seen
  \/ d = active
  \/ \E i \in DOMAIN waiting : waiting[i] = d

LEMMA LogFrame ==
  ASSUME LogInv, UNCHANGED <<log, epoch, made, destroyed>>, seen \subseteq seen'
  PROVE  LogInv'
BY DEF LogInv, Current

LEMMA BoundFrame ==
  ASSUME BoundInv, UNCHANGED log
  PROVE  BoundInv'
<1>1. Calls' = Calls /\ Drops' = Drops
  BY DEF Calls, Drops
<1> QED
  BY <1>1 DEF BoundInv

\* Results stay as they are while the connection serves other requests.
LEMMA MadeFrame ==
  ASSUME TypeOK, MadeInv,
         UNCHANGED <<log, epoch, made, name, destroyed>>,
         seen \subseteq seen',
         counter' \in Nat, counter <= counter',
         \A r \in Ids : holders'[r] \subseteq holders[r],
         \A r \in made : r # active' /\ \A i \in DOMAIN waiting' : waiting'[i] # r
  PROVE  MadeInv'
<1>1. made \subseteq Ids /\ counter \in Nat /\ destroyed \subseteq Ids
  BY LogFacts DEF TypeOK
<1>2. \A r \in made : name[r] \in Nat
  BY <1>1 DEF TypeOK
<1> QED
  BY <1>1, <1>2 DEF MadeInv, Current

\* The tables of results are kept if no table goes away.
LEMMA ResultFrame ==
  ASSUME TypeOK, ResultKeepsTable,
         UNCHANGED <<log, epoch, made, name>>, tables \subseteq tables',
         \A r \in Ids : holders'[r] \subseteq holders[r]
  PROVE  ResultKeepsTable'
<1>1. made \subseteq Ids
  BY LogFacts DEF TypeOK
<1> QED
  BY <1>1 DEF ResultKeepsTable, Current

\* No table is lost if the drops that leave are those of tables that go.
LEMMA LeakFrame ==
  ASSUME NoLeak,
         UNCHANGED <<log, epoch, made, name, destroyed>>,
         \A n \in tables' \ abandoned' :
           /\ n \in tables \ abandoned
           /\ \A d \in Drops : OnItsWay(d) /\ Table(d) = n => OnItsWay(d)'
  PROVE  NoLeak'
BY DEF NoLeak, OnItsWay, Drops, Table, Current

-----------------------------------------------------------------------------
(* The steps.                                                              *)

\* Clients forget results, die, or end a function after their stream was taken
\* away; the connection process collects its garbage.
LEMMA Forgetting ==
  ASSUME IInv,
         UNCHANGED <<serviceVars, log, cur, epoch, tableVars, stream,
                     made, name, destroyed>>,
         pc' \in [Clients -> {"idle", "calling", "reading", "dead"}],
         \A c \in Clients : pc'[c] \in {pc[c], "idle", "dead"},
         holders' \in [Ids -> SUBSET (Clients \union {Server})],
         \A r \in Ids : holders'[r] \subseteq holders[r]
  PROVE  IInv'
<1>1. TypeOK'
  BY DEF IInv, TypeOK, serviceVars, tableVars
<1>2. LogInv' /\ BoundInv'
  BY LogFrame, BoundFrame DEF IInv, serviceVars
<1>3. counter \in Nat
  BY DEF IInv, TypeOK
<1>4. MadeInv'
  <2>1. \A r \in made : r # active' /\ \A i \in DOMAIN waiting' : waiting'[i] # r
    BY DEF IInv, MadeInv, serviceVars
  <2> QED
    BY <1>3, <2>1, MadeFrame DEF IInv, serviceVars, tableVars
<1>5. QueueInv'
  BY DEF IInv, QueueInv, Current, serviceVars
<1>6. ResultKeepsTable'
  BY ResultFrame DEF IInv, tableVars
<1>7. ReadTablesExist'
  BY DEF IInv, ReadTablesExist, Table, tableVars
<1>8. FreshNames'
  BY DEF IInv, FreshNames, tableVars
<1>9. NoLeak'
  BY LeakFrame DEF IInv, OnItsWay, serviceVars, tableVars
<1> QED
  BY <1>1, <1>2, <1>4, <1>5, <1>6, <1>7, <1>8, <1>9 DEF IInv

\* What waits arrives.
LEMMA Arriving ==
  ASSUME IInv, NEW r \in DOMAIN log, Arrive(r)
  PROVE  IInv'
<1>1. /\ r \notin seen
      /\ seen' = seen \union {r}
      /\ waiting' = Append(waiting, r)
      /\ active' = active
      /\ UNCHANGED <<log, clientVars, epoch, tableVars, stream, resultVars>>
  BY DEF Arrive, Service!Arrive
<1>2. /\ waiting \in Seq(DOMAIN log)
      /\ counter \in Nat
  BY DEF IInv, TypeOK
<1>3. /\ waiting' \in Seq(DOMAIN log)
      /\ DOMAIN waiting' = DOMAIN waiting \union {Len(waiting) + 1}
      /\ \A i \in DOMAIN waiting : waiting'[i] = waiting[i]
      /\ waiting'[Len(waiting) + 1] = r
  BY <1>1, <1>2, AppendProperties, LenProperties
<1>4. TypeOK'
  BY <1>1, <1>3 DEF IInv, TypeOK, clientVars, tableVars, resultVars
<1>5. LogInv' /\ BoundInv'
  BY <1>1, LogFrame, BoundFrame DEF IInv, resultVars
<1>6. MadeInv'
  <2>1. \A q \in made : q # active' /\ \A i \in DOMAIN waiting' : waiting'[i] # q
    BY <1>1, <1>3 DEF IInv, MadeInv
  <2> QED
    BY <1>1, <1>2, <2>1, MadeFrame DEF IInv, tableVars, resultVars
<1>7. QueueInv'
  <2>1. Current(r) /\ (active # None => active \in seen /\ Current(active))
    BY <1>1 DEF IInv, LogInv, QueueInv
  <2>2. \A i \in DOMAIN waiting :
          waiting[i] \in seen /\ waiting[i] # active /\ Current(waiting[i])
    BY DEF IInv, QueueInv
  <2>3. r # active
    BY <1>1, <2>1, LogFacts DEF IInv
  <2>4. \A i \in DOMAIN waiting' :
          /\ waiting'[i] \in seen' /\ waiting'[i] # active'
          /\ log'[waiting'[i]].epoch = epoch'
    BY <1>1, <1>3, <2>1, <2>2, <2>3 DEF Current
  <2>5. \A i, j \in DOMAIN waiting' : waiting'[i] = waiting'[j] => i = j
    BY <1>1, <1>3, <2>2 DEF IInv, QueueInv
  <2> QED
    BY <1>1, <2>1, <2>4, <2>5 DEF IInv, QueueInv, Current, clientVars
<1>8. ResultKeepsTable'
  BY <1>1, ResultFrame DEF IInv, tableVars, resultVars
<1>9. ReadTablesExist' /\ FreshNames'
  BY <1>1 DEF IInv, ReadTablesExist, FreshNames, Table, tableVars, resultVars
<1>10. NoLeak'
  <2>1. \A d \in Drops : OnItsWay(d) => OnItsWay(d)'
    BY <1>1, <1>3 DEF OnItsWay
  <2> QED
    BY <1>1, <2>1, LeakFrame DEF IInv, tableVars, resultVars
<1> QED
  BY <1>4, <1>5, <1>6, <1>7, <1>8, <1>9, <1>10 DEF IInv

\* What has waited longest is served.
LEMMA Starting ==
  ASSUME IInv, Start
  PROVE  IInv'
<1>1. /\ active = None /\ waiting # <<>>
      /\ active' = Head(waiting) /\ waiting' = Tail(waiting)
      /\ UNCHANGED seen
      /\ UNCHANGED <<log, clientVars, epoch, tableVars, stream, resultVars>>
  BY DEF Start, Service!Start
<1>2. waiting \in Seq(DOMAIN log) /\ counter \in Nat
  BY DEF IInv, TypeOK
<1>3. /\ waiting' \in Seq(DOMAIN log)
      /\ active' \in DOMAIN log /\ active' = waiting[1] /\ 1 \in DOMAIN waiting
      /\ \A i \in DOMAIN waiting' :
           i + 1 \in DOMAIN waiting /\ waiting'[i] = waiting[i + 1]
  BY <1>1, <1>2, HeadTailProperties, LenProperties
<1>4. \A i \in DOMAIN waiting : i \in Nat /\ i # 0
  BY <1>2
<1>5. \A i \in DOMAIN waiting' : i \in Nat /\ i # 0
  BY <1>3
<1>6. TypeOK'
  BY <1>1, <1>3 DEF IInv, TypeOK, clientVars, tableVars, resultVars
<1>7. LogInv' /\ BoundInv'
  BY <1>1, LogFrame, BoundFrame DEF IInv, resultVars
<1>8. MadeInv'
  <2>1. \A q \in made : q # active' /\ \A i \in DOMAIN waiting' : waiting'[i] # q
    BY <1>3 DEF IInv, MadeInv
  <2> QED
    BY <1>1, <1>2, <2>1, MadeFrame DEF IInv, tableVars, resultVars
<1>9. stream = None
  BY <1>1 DEF IInv, QueueInv
<1>10. QueueInv'
  <2>1. \A i \in DOMAIN waiting : waiting[i] \in seen /\ Current(waiting[i])
    BY DEF IInv, QueueInv
  <2>2. \A i, j \in DOMAIN waiting : waiting[i] = waiting[j] => i = j
    BY DEF IInv, QueueInv
  <2>3. \A i \in DOMAIN waiting' :
          /\ waiting'[i] \in seen' /\ waiting'[i] # active'
          /\ log'[waiting'[i]].epoch = epoch'
    BY <1>1, <1>3, <1>5, <2>1, <2>2 DEF Current
  <2>4. \A i, j \in DOMAIN waiting' : waiting'[i] = waiting'[j] => i = j
    BY <1>3, <1>5, <2>2
  <2>5. active' \in seen' /\ log'[active'].epoch = epoch'
    BY <1>1, <1>3, <2>1 DEF Current
  <2> QED
    BY <1>1, <1>9, <2>3, <2>4, <2>5 DEF IInv, QueueInv, Current, clientVars
<1>11. ResultKeepsTable'
  BY <1>1, ResultFrame DEF IInv, tableVars, resultVars
<1>12. ReadTablesExist' /\ FreshNames'
  BY <1>1 DEF IInv, ReadTablesExist, FreshNames, Table, tableVars, resultVars
<1>13. NoLeak'
  <2>1. ASSUME NEW d \in Drops, OnItsWay(d)
        PROVE  OnItsWay(d)'
    <3>1. CASE \E i \in DOMAIN waiting : waiting[i] = d
      <4>1. PICK i \in DOMAIN waiting : waiting[i] = d
        BY <3>1
      <4>2. CASE i = 1
        BY <1>3, <4>1, <4>2 DEF OnItsWay
      <4>3. CASE i # 1
        <5>1. i - 1 \in DOMAIN waiting' /\ (i - 1) + 1 = i
          BY <1>1, <1>2, <4>1, <4>3
        <5>2. waiting'[i - 1] = d
          BY <1>3, <4>1, <5>1
        <5> QED
          BY <5>1, <5>2 DEF OnItsWay
      <4> QED
        BY <4>2, <4>3
    <3>2. CASE d \notin seen
      BY <1>1, <3>2 DEF OnItsWay
    <3>3. CASE d = active
      BY <1>1, <3>3, LogFacts DEF IInv, Drops
    <3> QED
      BY <2>1, <3>1, <3>2, <3>3 DEF OnItsWay
  <2> QED
    BY <1>1, <2>1, LeakFrame DEF IInv, tableVars, resultVars
<1> QED
  BY <1>6, <1>7, <1>8, <1>10, <1>11, <1>12, <1>13 DEF IInv

\* A request is sent: by a client that may call, or for a result of the session
\* that nothing refers to.
LEMMA Sending ==
  ASSUME IInv,
         NEW p \in Clients \union {Server}, NEW op \in Ops,
         NEW q \in Ids \union {None}, Send(p, op, q),
         UNCHANGED <<serviceVars, epoch, tableVars, stream, made, name, holders>>,
         pc' \in [Clients -> {"idle", "calling", "reading", "dead"}],
         cur' \in [Clients -> DOMAIN log \union {None, Len(log) + 1}],
         \A c \in Clients : pc'[c] \in {"calling", "reading"} => cur'[c] # None,
         op = "drop" =>
           /\ q \in made \ destroyed /\ holders[q] = {} /\ Current(q)
           /\ destroyed' = destroyed \union {q},
         op = "query" => q \in made,
         op # "drop" => CallsLeft /\ destroyed' = destroyed
  PROVE  IInv'
<1> DEFINE n == Len(log) + 1
           e == [op |-> op, from |-> p, of |-> q, epoch |-> epoch]
<1>1. /\ Len(log) \in Nat /\ DOMAIN log = 1..Len(log)
      /\ log \in Seq(Entries)
      /\ DOMAIN log \subseteq Ids /\ None \notin DOMAIN log
  BY LogFacts DEF IInv
<1>2. epoch \in Nat /\ e \in Entries
  BY DEF IInv, TypeOK, Entries
<1>3. log' = Append(log, e)
  BY DEF Send
<1>4. /\ log' \in Seq(Entries) /\ DOMAIN log' = DOMAIN log \union {n}
      /\ \A d \in DOMAIN log : log'[d] = log[d]
      /\ log'[n] = e
  <2> HIDE DEF e
  <2> QED
    BY <1>1, <1>2, <1>3, AppendProperties, LenProperties
<1>5. n \in Nat /\ n \notin DOMAIN log /\ n # None /\ Len(log') = n
  BY <1>1, <1>3 DEF None
<1>6. n <= 2 * MaxCalls
  <2>1. CallsLeft \/ made \ destroyed # {}
    OBVIOUS
  <2> QED
    BY <2>1, Room DEF IInv
<1>7. /\ waiting \in Seq(DOMAIN log) /\ active \in DOMAIN log \union {None}
      /\ seen \subseteq DOMAIN log /\ stream \in DOMAIN log \union {None}
      /\ made \subseteq DOMAIN log /\ destroyed \subseteq made
  BY DEF IInv, TypeOK
<1> HIDE DEF n
<1>8. TypeOK'
  <2>1. waiting \in Seq(DOMAIN log')
    BY <1>4, <1>7, SeqMonotonic
  <2>2. cur' \in [Clients -> DOMAIN log' \union {None}]
    BY <1>4 DEF n
  <2>3. destroyed' \subseteq made
    BY <1>7
  <2> QED
    BY <1>4, <1>5, <1>6, <1>7, <2>1, <2>2, <2>3
    DEF IInv, TypeOK, Entries, serviceVars, tableVars
<1>9. destroyed \subseteq destroyed'
  OBVIOUS
<1>10. \A r \in DOMAIN log : log'[r].epoch = log[r].epoch
  BY <1>4
<1>11. LogInv'
  <2>1. ASSUME NEW r \in DOMAIN log
        PROVE  /\ log'[r].epoch <= epoch'
               /\ r \notin seen' => log'[r].epoch = epoch'
               /\ log'[r].op = "query" => log'[r].of \in made'
               /\ log'[r].op = "drop" =>
                    /\ log'[r].of \in destroyed'
                    /\ log'[log'[r].of].epoch = log'[r].epoch
    BY <1>4, <1>7, <1>9, <1>10 DEF IInv, LogInv, Current, serviceVars
  <2>2. /\ log'[n].epoch <= epoch'
        /\ log'[n].epoch = epoch'
        /\ log'[n].op = "query" => log'[n].of \in made'
        /\ log'[n].op = "drop" =>
             /\ log'[n].of \in destroyed'
             /\ log'[log'[n].of].epoch = log'[n].epoch
    BY <1>2, <1>4, <1>7, <1>10 DEF Current
  <2> QED
    BY <1>4, <2>1, <2>2 DEF LogInv, Current
<1>12. BoundInv'
  <2>1. CASE op = "drop"
    <3>1. Calls' = Calls /\ Drops' = Drops \union {n}
      BY <1>4, <1>5, <2>1 DEF Calls, Drops
    <3>2. \A d \in Drops : log'[d].of = log[d].of /\ log[d].of \in destroyed
      BY <1>4 DEF Drops, IInv, LogInv
    <3>3. log'[n].of = q /\ q \notin destroyed
      BY <1>4, <2>1
    <3>4. \A d, d2 \in Drops' : log'[d].of = log'[d2].of => d = d2
      BY <3>1, <3>2, <3>3 DEF IInv, BoundInv
    <3> QED
      BY <3>1, <3>4 DEF IInv, BoundInv
  <2>2. CASE op # "drop"
    <3>1. Calls' = Calls \union {n} /\ Drops' = Drops
      BY <1>4, <1>5, <2>2 DEF Calls, Drops
    <3>2. n \notin Calls
      BY <1>5 DEF Calls
    <3>3. /\ IsFiniteSet(Calls) /\ Cardinality(Calls) \in Nat
          /\ Cardinality(Calls) < MaxCalls
      BY <2>2, Room DEF IInv
    <3>4. Cardinality(Calls') = Cardinality(Calls) + 1
      BY <3>1, <3>2, <3>3, FS_AddElement
    <3>5. Cardinality(Calls') <= MaxCalls
      BY <3>3, <3>4, ConstantsAssumption
    <3>6. \A d \in Drops : log'[d].of = log[d].of
      BY <1>4 DEF Drops
    <3>7. \A d, d2 \in Drops' : log'[d].of = log'[d2].of => d = d2
      BY <3>1, <3>6 DEF IInv, BoundInv
    <3> QED
      BY <3>5, <3>7 DEF BoundInv
  <2> QED
    BY <2>1, <2>2
<1>13. MadeInv'
  <2>1. \A r \in made : log'[r].op = log[r].op /\ log'[r].epoch = log[r].epoch
    BY <1>4, <1>7
  <2>2. \A r \in destroyed' : holders[r] = {}
    BY DEF IInv, MadeInv
  <2> QED
    BY <2>1, <2>2 DEF IInv, MadeInv, Current, serviceVars, tableVars
<1>14. QueueInv'
  <2>1. \A i \in DOMAIN waiting : waiting[i] \in DOMAIN log
    BY <1>7, ElementOfSeq, LenProperties
  <2>2. stream # None => log'[stream].op = log[stream].op
    BY <1>4, <1>7
  <2>3. active # None => log'[active].epoch = log[active].epoch
    BY <1>4, <1>7
  <2> QED
    BY <1>10, <2>1, <2>2, <2>3 DEF IInv, QueueInv, Current, serviceVars
<1>15. ResultKeepsTable'
  BY <1>7, <1>10 DEF IInv, ResultKeepsTable, Current, tableVars
<1>16. ReadTablesExist' /\ FreshNames'
  <2>1. stream # None => log'[stream] = log[stream]
    BY <1>4, <1>7
  <2> QED
    BY <2>1 DEF IInv, ReadTablesExist, FreshNames, Table, tableVars
<1>17. NoLeak'
  <2> SUFFICES ASSUME NEW t \in tables \ abandoned
               PROVE  \E r \in made :
                        /\ log'[r].epoch = epoch /\ name[r] = t
                        /\ \/ r \notin destroyed'
                           \/ \E d \in DOMAIN log' :
                                /\ log'[d].op = "drop" /\ log'[d].of = r
                                /\ \/ d \notin seen \/ d = active
                                   \/ \E i \in DOMAIN waiting : waiting[i] = d
    BY DEF NoLeak, Current, serviceVars, tableVars
  <2>1. PICK r \in made :
          /\ Current(r) /\ name[r] = t
          /\ \/ r \notin destroyed
             \/ \E d \in DOMAIN log :
                  /\ log[d].op = "drop" /\ log[d].of = r
                  /\ \/ d \notin seen \/ d = active
                     \/ \E i \in DOMAIN waiting : waiting[i] = d
    BY DEF IInv, NoLeak
  <2>2. log'[r].epoch = epoch
    BY <1>7, <1>10, <2>1 DEF Current
  <2>3. CASE r \notin destroyed /\ r \in destroyed'
    <3>1. op = "drop" /\ q = r
      BY <2>3
    <3>2. n \in DOMAIN log' /\ log'[n].op = "drop" /\ log'[n].of = r /\ n \notin seen
      BY <1>4, <1>5, <1>7, <3>1
    <3> QED
      BY <2>1, <2>2, <3>2
  <2>4. CASE r \notin destroyed'
    BY <2>1, <2>2, <2>4
  <2>5. CASE r \in destroyed
    BY <1>4, <2>1, <2>2, <2>5
  <2> QED
    BY <2>3, <2>4, <2>5
<1> QED
  BY <1>8, <1>11, <1>12, <1>13, <1>14, <1>15, <1>16, <1>17 DEF IInv

\* A client makes a call.
LEMMA Calling ==
  ASSUME IInv, NEW c \in Clients, CallIngest(c) \/ CallQuery(c)
  PROVE  IInv'
<1>1. PICK op \in {"ingest", "query"}, r \in made \union {None} :
        /\ op = "query" => r \in made
        /\ Call(c, op, r)
  BY DEF CallIngest, CallQuery
<1>2. /\ Len(log) + 1 # None /\ Len(log) + 1 \in Nat
      /\ made \subseteq Ids
  <2>1. Len(log) \in Nat /\ DOMAIN log \subseteq Ids
    BY LogFacts DEF IInv
  <2> QED
    BY <2>1 DEF None, IInv, TypeOK
<1>3. /\ pc \in [Clients -> {"idle", "calling", "reading", "dead"}]
      /\ cur \in [Clients -> DOMAIN log \union {None}]
  BY DEF IInv, TypeOK
<1>4. /\ CallsLeft
      /\ Send(c, op, r)
      /\ pc' = [pc EXCEPT ![c] = "calling"]
      /\ cur' = [cur EXCEPT ![c] = Len(log) + 1]
      /\ UNCHANGED <<serviceVars, epoch, tableVars, stream, resultVars>>
  BY <1>1 DEF Call
<1>5. /\ pc' \in [Clients -> {"idle", "calling", "reading", "dead"}]
      /\ cur' \in [Clients -> DOMAIN log \union {None, Len(log) + 1}]
  BY <1>3, <1>4
<1>6. \A d \in Clients : pc'[d] \in {"calling", "reading"} => cur'[d] # None
  BY <1>2, <1>3, <1>4 DEF IInv, QueueInv
<1>7. op \in Ops /\ op # "drop" /\ r \in Ids \union {None}
  BY <1>1, <1>2 DEF Ops
<1> QED
  BY <1>1, <1>4, <1>5, <1>6, <1>7, Sending DEF resultVars

\* A resource is destroyed.
LEMMA Destroying ==
  ASSUME IInv, NEW r \in Ids, Destroy(r)
  PROVE  IInv'
<1>1. /\ r \in made \ destroyed /\ holders[r] = {}
      /\ destroyed' = destroyed \union {r}
      /\ IF Current(r) THEN Send(Server, "drop", r) ELSE UNCHANGED log
      /\ UNCHANGED <<serviceVars, clientVars, epoch, tableVars, stream,
                     made, name, holders>>
  BY DEF Destroy
<1>2. /\ pc \in [Clients -> {"idle", "calling", "reading", "dead"}]
      /\ cur \in [Clients -> DOMAIN log \union {None}]
      /\ \A c \in Clients : pc[c] \in {"calling", "reading"} => cur[c] # None
  BY DEF IInv, TypeOK, QueueInv
<1>3. CASE Current(r)
  <2>1. Send(Server, "drop", r)
    BY <1>1, <1>3
  <2>2. "drop" \in Ops /\ Server \in Clients \union {Server}
    BY DEF Ops
  <2>3. pc' = pc /\ cur' = cur
    BY <1>1 DEF clientVars
  <2>4. cur' \in [Clients -> DOMAIN log \union {None, Len(log) + 1}]
    BY <1>2, <2>3
  <2>5. UNCHANGED <<serviceVars, epoch, tableVars, stream, made, name, holders>>
    BY <1>1
  <2> QED
    BY <1>1, <1>2, <1>3, <2>1, <2>2, <2>3, <2>4, <2>5, Sending
<1>4. CASE ~Current(r)
  <2>1. UNCHANGED log
    BY <1>1, <1>4
  <2>2. TypeOK'
    BY <1>1, <2>1 DEF IInv, TypeOK, serviceVars, clientVars, tableVars
  <2>3. LogInv'
    BY <1>1, <2>1 DEF IInv, LogInv, Current, serviceVars
  <2>4. BoundInv'
    BY <2>1, BoundFrame DEF IInv
  <2>5. MadeInv'
    BY <1>1, <2>1 DEF IInv, MadeInv, Current, serviceVars, tableVars
  <2>6. QueueInv'
    BY <1>1, <2>1 DEF IInv, QueueInv, Current, serviceVars, clientVars
  <2>7. ResultKeepsTable' /\ ReadTablesExist' /\ FreshNames'
    BY <1>1, <2>1
    DEF IInv, ResultKeepsTable, ReadTablesExist, FreshNames, Table, Current, tableVars
  <2>8. NoLeak'
    BY <1>1, <1>4, <2>1 DEF IInv, NoLeak, Current, serviceVars, tableVars
  <2> QED
    BY <2>2, <2>3, <2>4, <2>5, <2>6, <2>7, <2>8 DEF IInv
<1> QED
  BY <1>3, <1>4

\* A request is over that made no result: no table goes away but that of a drop.
LEMMA Finishing ==
  ASSUME IInv, Service!Finish, stream' = None,
         UNCHANGED <<log, cur, epoch, resultVars>>,
         pc' \in [Clients -> {"idle", "calling", "reading", "dead"}],
         \A c \in Clients : pc'[c] \in {pc[c], "idle"},
         counter' \in Nat, counter <= counter',
         tables' \subseteq Nat, abandoned' \subseteq Nat,
         \A t \in tables' : t \in tables \/ t < counter',
         \A t \in tables \ tables' : log[active].op = "drop" /\ t = Table(active),
         \A t \in tables' \ abandoned' :
           /\ t \in tables \ abandoned
           /\ log[active].op = "drop" => t # Table(active)
  PROVE  IInv'
<1>1. active # None /\ active' = None /\ waiting' = waiting /\ seen' = seen
  BY DEF Service!Finish
<1>2. /\ active \in DOMAIN log /\ Current(active) /\ active \in seen
      /\ made \subseteq Ids /\ made \subseteq DOMAIN log /\ counter \in Nat
      /\ None \notin DOMAIN log
  BY <1>1, LogFacts DEF IInv, TypeOK, QueueInv
<1>3. TypeOK'
  BY <1>1 DEF IInv, TypeOK, resultVars
<1>4. LogInv' /\ BoundInv'
  BY <1>1, LogFrame, BoundFrame DEF IInv, resultVars
<1>5. MadeInv'
  <2>1. \A r \in made : r # active' /\ \A i \in DOMAIN waiting' : waiting'[i] # r
    BY <1>1, <1>2 DEF IInv, MadeInv
  <2> QED
    BY <1>1, <2>1, MadeFrame DEF IInv, resultVars
<1>6. QueueInv'
  <2>1. \A i \in DOMAIN waiting : waiting[i] # None
    <3>1. waiting \in Seq(DOMAIN log)
      BY DEF IInv, TypeOK
    <3> QED
      BY <1>2, <3>1, ElementOfSeq, LenProperties
  <2> QED
    BY <1>1, <2>1 DEF IInv, QueueInv, Current
<1>7. ResultKeepsTable'
  <2> SUFFICES ASSUME NEW r \in made, Current(r), holders[r] # {},
                      name[r] \notin tables'
               PROVE  FALSE
    BY DEF ResultKeepsTable, Current, resultVars
  <2>1. name[r] \in tables
    BY DEF IInv, ResultKeepsTable
  <2>2. log[active].op = "drop" /\ name[r] = Table(active)
    BY <2>1
  <2>3. log[active].of \in destroyed /\ Current(log[active].of)
    BY <1>2, <2>2 DEF IInv, LogInv, Current
  <2>4. log[active].of = r
    BY <2>2, <2>3 DEF IInv, TypeOK, MadeInv, Table
  <2> QED
    BY <2>3, <2>4 DEF IInv, MadeInv
<1>8. ReadTablesExist'
  BY DEF ReadTablesExist
<1>9. FreshNames'
  <2>1. \A t \in tables : t \in Nat /\ t < counter
    BY DEF IInv, TypeOK, FreshNames
  <2> QED
    BY <1>2, <2>1 DEF FreshNames
<1>10. NoLeak'
  <2>1. ASSUME NEW t \in tables' \ abandoned', NEW d \in Drops,
               OnItsWay(d), Table(d) = t
        PROVE  OnItsWay(d)'
    <3>1. d # active
      BY <2>1 DEF Drops
    <3> QED
      BY <1>1, <2>1, <3>1 DEF OnItsWay
  <2> QED
    BY <2>1, LeakFrame DEF IInv, resultVars
<1> QED
  BY <1>3, <1>4, <1>5, <1>6, <1>7, <1>8, <1>9, <1>10 DEF IInv

\* What a reply does to the clients.
LEMMA Replies ==
  ASSUME TypeOK, NEW state \in {"idle", "reading"}, Reply(state)
  PROVE  /\ pc' \in [Clients -> {"idle", "calling", "reading", "dead"}]
         /\ \A c \in Clients : pc'[c] \in {pc[c], state}
         /\ \A c \in Clients : pc'[c] # pc[c] => pc[c] = "calling"
BY DEF Reply, TypeOK

LEMMA EndingIngest ==
  ASSUME IInv, IngestFails
  PROVE  IInv'
<1>1. /\ active # None /\ log[active].op = "ingest"
      /\ counter' = counter + 1
      /\ Reply("idle") /\ Service!Finish
      /\ UNCHANGED <<log, cur, epoch, stream, resultVars>>
  BY DEF IngestFails, Advance
<1>2. \/ UNCHANGED <<tables, abandoned>>
      \/ /\ tables' = tables \union {counter}
         /\ abandoned' = abandoned \union {counter}
  BY DEF IngestFails
<1>3. stream = None
  BY <1>1 DEF IInv, QueueInv
<1>4. /\ counter \in Nat /\ tables \subseteq Nat /\ abandoned \subseteq Nat /\ TypeOK
  BY DEF IInv, TypeOK
<1>5. counter' \in Nat /\ counter <= counter' /\ counter < counter'
  BY <1>1, <1>4
<1>6. /\ pc' \in [Clients -> {"idle", "calling", "reading", "dead"}]
      /\ \A c \in Clients : pc'[c] \in {pc[c], "idle"}
  BY <1>1, <1>4, Replies
<1>7. /\ tables' \subseteq Nat /\ abandoned' \subseteq Nat
      /\ \A t \in tables' : t \in tables \/ t < counter'
      /\ tables \subseteq tables'
      /\ \A t \in tables' \ abandoned' : t \in tables \ abandoned
  BY <1>2, <1>4, <1>5
<1> QED
  BY <1>1, <1>3, <1>5, <1>6, <1>7, Finishing

LEMMA Dropping ==
  ASSUME IInv, DropTable
  PROVE  IInv'
<1>1. /\ active # None /\ log[active].op = "drop"
      /\ \/ tables' = tables \ {Table(active)} /\ UNCHANGED abandoned
         \/ UNCHANGED tables /\ abandoned' = abandoned \union {Table(active)}
      /\ Service!Finish
      /\ UNCHANGED <<log, clientVars, epoch, counter, stream, resultVars>>
  BY DEF DropTable
<1>2. stream = None
  BY <1>1 DEF IInv, QueueInv
<1>3. active \in DOMAIN log /\ made \subseteq Ids
  BY <1>1, LogFacts DEF IInv, TypeOK
<1>4. Table(active) \in Nat
  <2>1. log[active].of \in Ids
    BY <1>1, <1>3 DEF IInv, LogInv, TypeOK
  <2> QED
    BY <2>1 DEF Table, IInv, TypeOK
<1>5. /\ tables \subseteq Nat /\ abandoned \subseteq Nat /\ counter \in Nat
      /\ pc \in [Clients -> {"idle", "calling", "reading", "dead"}]
  BY DEF IInv, TypeOK
<1>6. /\ tables' \subseteq tables /\ abandoned' \subseteq Nat
      /\ \A t \in tables \ tables' : t = Table(active)
      /\ \A t \in tables' \ abandoned' : t \in tables \ abandoned /\ t # Table(active)
  BY <1>1, <1>4, <1>5
<1>7. pc' = pc /\ cur' = cur /\ counter' = counter /\ stream' = None /\ counter <= counter'
  BY <1>1, <1>2, <1>5 DEF clientVars
<1> QED
  BY <1>1, <1>5, <1>6, <1>7, Finishing

\* A query is over: it failed, or its stream was given back.
LEMMA EndingQuery ==
  ASSUME IInv, Service!Finish, log[active].op = "query", stream' = None,
         UNCHANGED <<log, cur, epoch, tableVars, resultVars>>,
         pc' \in [Clients -> {"idle", "calling", "reading", "dead"}],
         \A c \in Clients : pc'[c] \in {pc[c], "idle"}
  PROVE  IInv'
<1>1. /\ counter \in Nat /\ counter <= counter
      /\ tables \subseteq Nat /\ abandoned \subseteq Nat
  BY DEF IInv, TypeOK
<1>2. UNCHANGED <<counter, tables, abandoned>>
  BY DEF tableVars
<1> QED
  BY <1>1, <1>2, Finishing

LEMMA Unlocking ==
  ASSUME IInv, NEW c \in Clients, Unlock(c)
  PROVE  IInv'
<1>1. /\ pc[c] = "reading"
      /\ pc' = [pc EXCEPT ![c] = "idle"]
      /\ UNCHANGED <<log, cur, epoch, tableVars, resultVars>>
      /\ IF stream = cur[c]
           THEN Service!Finish /\ stream' = None
           ELSE UNCHANGED <<serviceVars, stream>>
  BY DEF Unlock
<1>2. /\ pc' \in [Clients -> {"idle", "calling", "reading", "dead"}]
      /\ \A d \in Clients : pc'[d] \in {pc[d], "idle"}
  BY <1>1 DEF IInv, TypeOK
<1>3. CASE stream = cur[c]
  <2>1. stream # None
    BY <1>1, <1>3 DEF IInv, QueueInv
  <2>2. log[active].op = "query"
    BY <2>1 DEF IInv, QueueInv
  <2> QED
    BY <1>1, <1>2, <1>3, <2>2, EndingQuery
<1>4. CASE stream # cur[c]
  <2>1. /\ holders' \in [Ids -> SUBSET (Clients \union {Server})]
        /\ \A r \in Ids : holders'[r] \subseteq holders[r]
    BY <1>1 DEF IInv, TypeOK, resultVars
  <2>2. UNCHANGED <<serviceVars, log, cur, epoch, tableVars, stream,
                    made, name, destroyed>>
    BY <1>1, <1>4 DEF resultVars
  <2> QED
    BY <1>2, <2>1, <2>2, Forgetting
<1> QED
  BY <1>3, <1>4

LEMMA FailingQuery ==
  ASSUME IInv, QueryFails
  PROVE  IInv'
<1>1. /\ log[active].op = "query" /\ stream' = None
      /\ Reply("idle") /\ Service!Finish
      /\ UNCHANGED <<log, cur, epoch, tableVars, resultVars>>
  BY DEF QueryFails
<1>2. /\ pc' \in [Clients -> {"idle", "calling", "reading", "dead"}]
      /\ \A c \in Clients : pc'[c] \in {pc[c], "idle"}
  BY <1>1, Replies DEF IInv
<1> QED
  BY <1>1, <1>2, EndingQuery

LEMMA HandlingDown ==
  ASSUME IInv, HandleDown
  PROVE  IInv'
<1>1. /\ stream # None /\ stream' = None /\ Service!Finish
      /\ UNCHANGED <<log, cur, epoch, tableVars, resultVars>>
      /\ pc' = pc
  BY DEF HandleDown, clientVars
<1>2. log[active].op = "query"
  BY <1>1 DEF IInv, QueueInv
<1>3. pc \in [Clients -> {"idle", "calling", "reading", "dead"}]
  BY DEF IInv, TypeOK
<1> QED
  BY <1>1, <1>2, <1>3, EndingQuery

LEMMA OpeningStream ==
  ASSUME IInv, QuerySucceeds
  PROVE  IInv'
<1>1. /\ active # None /\ log[active].op = "query"
      /\ Table(active) \in tables
      /\ stream' = active
      /\ Reply("reading")
      /\ UNCHANGED <<serviceVars, log, cur, epoch, tableVars, resultVars>>
  BY DEF QuerySucceeds
<1>2. /\ pc' \in [Clients -> {"idle", "calling", "reading", "dead"}]
      /\ \A c \in Clients : pc'[c] \in {pc[c], "reading"}
      /\ \A c \in Clients : pc'[c] # pc[c] => pc[c] = "calling"
  BY <1>1, Replies DEF IInv
<1>3. active \in DOMAIN log /\ counter \in Nat
  BY <1>1 DEF IInv, TypeOK
<1>4. TypeOK'
  BY <1>1, <1>2, <1>3 DEF IInv, TypeOK, serviceVars, tableVars, resultVars
<1>5. LogInv' /\ BoundInv'
  BY <1>1, LogFrame, BoundFrame DEF IInv, serviceVars, resultVars
<1>6. MadeInv'
  <2>1. \A r \in made : r # active' /\ \A i \in DOMAIN waiting' : waiting'[i] # r
    BY <1>1 DEF IInv, MadeInv, serviceVars
  <2> QED
    BY <1>1, <1>3, <2>1, MadeFrame DEF IInv, serviceVars, tableVars, resultVars
<1>7. QueueInv'
  BY <1>1, <1>2 DEF IInv, QueueInv, Current, serviceVars
<1>8. ResultKeepsTable' /\ FreshNames'
  BY <1>1 DEF IInv, ResultKeepsTable, FreshNames, Current, tableVars, resultVars
<1>9. ReadTablesExist'
  BY <1>1 DEF ReadTablesExist, Table, tableVars, resultVars
<1>10. NoLeak'
  <2>1. \A d \in Drops : OnItsWay(d) => OnItsWay(d)'
    BY <1>1 DEF OnItsWay, serviceVars
  <2> QED
    BY <1>1, <2>1, LeakFrame DEF IInv, tableVars, resultVars
<1> QED
  BY <1>4, <1>5, <1>6, <1>7, <1>8, <1>9, <1>10 DEF IInv

\* An ingest makes its table and its result.
LEMMA Ingesting ==
  ASSUME IInv, IngestSucceeds
  PROVE  IInv'
<1> DEFINE a == active
<1>1. /\ a # None /\ log[a].op = "ingest"
      /\ counter \notin tables
      /\ tables' = tables \union {counter}
      /\ counter' = counter + 1
      /\ made' = made \union {a}
      /\ name' = [name EXCEPT ![a] = counter]
      /\ holders' = [holders EXCEPT ![a] =
                       {Server} \union {c \in Clients : pc[c] = "calling"
                                                        /\ cur[c] = a}]
      /\ Reply("idle")
      /\ UNCHANGED <<log, cur, epoch, abandoned, stream, destroyed>>
  BY DEF IngestSucceeds, Advance
<1>2. active' = None /\ waiting' = waiting /\ seen' = seen
  BY DEF IngestSucceeds, Service!Finish
<1>3. /\ a \in DOMAIN log /\ a \in Ids /\ Current(a) /\ a \in seen
      /\ made \subseteq Ids /\ made \subseteq DOMAIN log
      /\ None \notin DOMAIN log /\ DOMAIN log \subseteq Ids
  BY <1>1, LogFacts DEF IInv, TypeOK, QueueInv
<1>4. /\ a \notin made /\ destroyed \subseteq made /\ a \notin destroyed
      /\ \A i \in DOMAIN waiting : waiting[i] # a /\ waiting[i] \in DOMAIN log
  <2>1. waiting \in Seq(DOMAIN log)
    BY DEF IInv, TypeOK
  <2>2. \A i \in DOMAIN waiting : waiting[i] \in DOMAIN log
    BY <2>1, ElementOfSeq, LenProperties
  <2> QED
    BY <2>2 DEF IInv, TypeOK, MadeInv, QueueInv
<1>5. stream = None
  BY <1>1 DEF IInv, QueueInv
<1>6. /\ counter \in Nat /\ tables \subseteq Nat
      /\ name \in [Ids -> Nat] /\ holders \in [Ids -> SUBSET (Clients \union {Server})]
  BY DEF IInv, TypeOK
<1>7. /\ pc' \in [Clients -> {"idle", "calling", "reading", "dead"}]
      /\ \A c \in Clients : pc'[c] \in {pc[c], "idle"}
  BY <1>1, Replies DEF IInv
<1>8. /\ name'[a] = counter
      /\ \A r \in made : name'[r] = name[r] /\ holders'[r] = holders[r]
  BY <1>1, <1>3, <1>4, <1>6
<1> HIDE DEF a
<1>9. TypeOK'
  <2>1. name' \in [Ids -> Nat]
    BY <1>1, <1>6
  <2>2. holders' \in [Ids -> SUBSET (Clients \union {Server})]
    BY <1>1, <1>6
  <2>3. made' \subseteq DOMAIN log /\ destroyed \subseteq made'
    BY <1>1, <1>3, <1>4
  <2>4. counter' \in Nat /\ tables' \subseteq Nat
    BY <1>1, <1>6
  <2> QED
    BY <1>1, <1>2, <1>7, <2>1, <2>2, <2>3, <2>4 DEF IInv, TypeOK
<1>10. LogInv'
  BY <1>1, <1>2 DEF IInv, LogInv, Current
<1>11. BoundInv'
  BY <1>1, BoundFrame DEF IInv
<1>12. MadeInv'
  <2>1. \A r \in made' :
          /\ log[r].op = "ingest" /\ r \in seen /\ r # None
          /\ \A i \in DOMAIN waiting : waiting[i] # r
    BY <1>1, <1>3, <1>4 DEF IInv, MadeInv
  <2>2. \A r \in made : Current(r) => name[r] < counter
    BY DEF IInv, MadeInv
  <2>3. \A r \in made : name[r] \in Nat
    BY <1>3, <1>6
  <2>4. \A r \in made' : Current(r) => name'[r] < counter'
    BY <1>1, <1>6, <1>8, <2>2, <2>3
  <2>5. \A r, q \in made : Current(r) /\ Current(q) /\ name[r] = name[q] => r = q
    BY DEF IInv, MadeInv
  <2>6. \A r \in made : Current(r) => name[r] # counter
    BY <1>6, <2>2
  <2>7. \A r, q \in made' :
          Current(r) /\ Current(q) /\ name'[r] = name'[q] => r = q
    BY <1>1, <1>8, <2>5, <2>6
  <2>8. \A r \in destroyed : holders'[r] = {}
    BY <1>4, <1>8 DEF IInv, MadeInv
  <2> QED
    BY <1>1, <1>2, <2>1, <2>4, <2>7, <2>8 DEF MadeInv, Current
<1>13. QueueInv'
  BY <1>1, <1>2, <1>3, <1>4, <1>5, <1>7 DEF IInv, QueueInv, Current
<1>14. ResultKeepsTable'
  <2>1. \A r \in made : Current(r) /\ holders[r] # {} => name[r] \in tables
    BY DEF IInv, ResultKeepsTable
  <2> QED
    BY <1>1, <1>8, <2>1 DEF ResultKeepsTable, Current
<1>15. ReadTablesExist'
  BY <1>1, <1>5 DEF ReadTablesExist
<1>16. FreshNames'
  BY <1>1, <1>6 DEF IInv, FreshNames
<1>17. NoLeak'
  <2> SUFFICES ASSUME NEW t \in tables' \ abandoned
               PROVE  \E r \in made' :
                        /\ log[r].epoch = epoch /\ name'[r] = t
                        /\ \/ r \notin destroyed
                           \/ \E d \in DOMAIN log :
                                /\ log[d].op = "drop" /\ log[d].of = r
                                /\ \/ d \notin seen' \/ d = active'
                                   \/ \E i \in DOMAIN waiting' : waiting'[i] = d
    BY <1>1 DEF NoLeak, Current
  <2>1. CASE t = counter
    BY <1>1, <1>3, <1>4, <1>8, <2>1 DEF Current
  <2>2. CASE t \in tables
    <3>1. PICK r \in made :
            /\ Current(r) /\ name[r] = t
            /\ \/ r \notin destroyed
               \/ \E d \in DOMAIN log :
                    /\ log[d].op = "drop" /\ log[d].of = r
                    /\ \/ d \notin seen \/ d = active
                       \/ \E i \in DOMAIN waiting : waiting[i] = d
      BY <2>2 DEF IInv, NoLeak
    <3>2. r \in made' /\ log[r].epoch = epoch /\ name'[r] = t
      BY <1>1, <1>8, <3>1 DEF Current
    <3>3. \A d \in DOMAIN log : log[d].op = "drop" => d # active
      BY <1>1 DEF a
    <3> QED
      BY <1>2, <3>1, <3>2, <3>3
  <2> QED
    BY <1>1, <2>1, <2>2
<1> QED
  BY <1>9, <1>10, <1>11, <1>12, <1>13, <1>14, <1>15, <1>16, <1>17 DEF IInv

\* The connection process dies: its session is over, and nothing is current.
LEMMA Restarting ==
  ASSUME IInv, Restart
  PROVE  IInv'
<1>1. /\ epoch' = epoch + 1
      /\ seen' = DOMAIN log
      /\ waiting' = <<>> /\ active' = None
      /\ counter' = 0 /\ tables' = {} /\ abandoned' = {} /\ stream' = None
      /\ pc' = [c \in Clients |-> IF pc[c] = "calling" THEN "idle" ELSE pc[c]]
      /\ holders' = [r \in Ids |-> holders[r] \ {Server}]
      /\ UNCHANGED <<log, cur, made, name, destroyed>>
  BY DEF Restart, Service!Fail, ForgetAll
<1>2. /\ epoch \in Nat /\ made \subseteq DOMAIN log /\ made \subseteq Ids
      /\ destroyed \subseteq made
      /\ \A r \in DOMAIN log : log[r].epoch \in Nat
      /\ None \notin DOMAIN log
  BY LogFacts DEF IInv, TypeOK
<1>3. \A r \in DOMAIN log : log[r].epoch <= epoch' /\ log[r].epoch # epoch'
  BY <1>1, <1>2 DEF IInv, LogInv
<1>4. DOMAIN waiting' = {} /\ waiting' \in Seq(DOMAIN log)
  BY <1>1
<1>5. TypeOK'
  <2>1. pc' \in [Clients -> {"idle", "calling", "reading", "dead"}]
    BY <1>1 DEF IInv, TypeOK
  <2>2. holders' \in [Ids -> SUBSET (Clients \union {Server})]
    BY <1>1 DEF IInv, TypeOK
  <2>3. epoch' \in Nat
    BY <1>1, <1>2
  <2> QED
    BY <1>1, <1>4, <2>1, <2>2, <2>3 DEF IInv, TypeOK
<1>6. LogInv'
  BY <1>1, <1>3 DEF IInv, LogInv, Current
<1>7. BoundInv'
  BY <1>1, BoundFrame DEF IInv
<1>8. MadeInv'
  BY <1>1, <1>2, <1>3, <1>4 DEF IInv, MadeInv, Current
<1>9. QueueInv'
  BY <1>1, <1>4 DEF IInv, QueueInv
<1>10. ResultKeepsTable'
  BY <1>1, <1>2, <1>3 DEF ResultKeepsTable, Current
<1>11. ReadTablesExist' /\ FreshNames' /\ NoLeak'
  BY <1>1 DEF ReadTablesExist, FreshNames, NoLeak
<1> QED
  BY <1>5, <1>6, <1>7, <1>8, <1>9, <1>10, <1>11 DEF IInv

-----------------------------------------------------------------------------
(* The theorems.                                                           *)

LEMMA Initially ==
  ASSUME Init
  PROVE  IInv
<1>1. /\ log = <<>> /\ waiting = <<>> /\ active = None /\ seen = {}
      /\ stream = None /\ made = {} /\ destroyed = {}
      /\ tables = {} /\ abandoned = {} /\ counter = 0 /\ epoch = 0
      /\ pc = [c \in Clients |-> "idle"] /\ cur = [c \in Clients |-> None]
      /\ name = [r \in Ids |-> 0] /\ holders = [r \in Ids |-> {}]
  BY DEF Init, Service!Init
<1>2. DOMAIN log = {} /\ DOMAIN waiting = {} /\ Len(log) = 0
  BY <1>1
<1>3. TypeOK
  <2>1. /\ log \in Seq([op : Ops, from : Clients \union {Server},
                         of : Ids \union {None}, epoch : Nat])
        /\ waiting \in Seq(DOMAIN log)
        /\ Len(log) <= 2 * MaxCalls
    BY <1>1, <1>2, ConstantsAssumption
  <2> QED
    BY <1>1, <1>2, <2>1 DEF TypeOK
<1>4. LogInv /\ MadeInv /\ QueueInv
  BY <1>1, <1>2 DEF LogInv, MadeInv, QueueInv
<1>5. BoundInv
  <2>1. Calls = {} /\ Drops = {}
    BY <1>2 DEF Calls, Drops
  <2>2. Cardinality(Calls) = 0
    BY <2>1, FS_EmptySet
  <2> QED
    BY <2>1, <2>2, ConstantsAssumption DEF BoundInv
<1>6. ResultKeepsTable /\ ReadTablesExist /\ FreshNames /\ NoLeak
  BY <1>1 DEF ResultKeepsTable, ReadTablesExist, FreshNames, NoLeak
<1> QED
  BY <1>3, <1>4, <1>5, <1>6 DEF IInv

LEMMA Preservation ==
  ASSUME IInv, [Next]_vars
  PROVE  IInv'
<1>1. /\ pc \in [Clients -> {"idle", "calling", "reading", "dead"}]
      /\ holders \in [Ids -> SUBSET (Clients \union {Server})]
  BY DEF IInv, TypeOK
<1>2. CASE UNCHANGED vars
  <2>1. UNCHANGED <<serviceVars, log, cur, epoch, tableVars, stream,
                    made, name, destroyed, pc, holders>>
    BY <1>2 DEF vars, clientVars, resultVars
  <2> QED
    BY <1>1, <2>1, Forgetting
<1>3. ASSUME NEW c \in Clients, ClientStep(c)
      PROVE  IInv'
  <2>1. CASE CallIngest(c) \/ CallQuery(c)
    BY <2>1, Calling
  <2>2. CASE Unlock(c)
    BY <2>2, Unlocking
  <2>3. ASSUME NEW r \in Ids, Forget(c, r)
        PROVE  IInv'
    <3>1. /\ holders' = [holders EXCEPT ![r] = @ \ {c}]
          /\ UNCHANGED <<serviceVars, log, cur, pc, epoch, tableVars, stream,
                         made, name, destroyed>>
      BY <2>3 DEF Forget, clientVars
    <3>2. /\ holders' \in [Ids -> SUBSET (Clients \union {Server})]
          /\ \A q \in Ids : holders'[q] \subseteq holders[q]
      BY <1>1, <3>1
    <3> QED
      BY <1>1, <3>1, <3>2, Forgetting
  <2>4. CASE Kill(c)
    <3>1. /\ pc' = [pc EXCEPT ![c] = "dead"]
          /\ holders' = [r \in Ids |-> holders[r] \ {c}]
          /\ UNCHANGED <<serviceVars, log, cur, epoch, tableVars, stream,
                         made, name, destroyed>>
      BY <2>4 DEF Kill, ForgetAll
    <3>2. /\ holders' \in [Ids -> SUBSET (Clients \union {Server})]
          /\ \A q \in Ids : holders'[q] \subseteq holders[q]
      BY <1>1, <3>1
    <3>3. /\ pc' \in [Clients -> {"idle", "calling", "reading", "dead"}]
          /\ \A d \in Clients : pc'[d] \in {pc[d], "idle", "dead"}
      BY <1>1, <3>1
    <3> QED
      BY <3>1, <3>2, <3>3, Forgetting
  <2> QED
    BY <1>3, <2>1, <2>2, <2>3, <2>4 DEF ClientStep
<1>4. ASSUME NEW r \in DOMAIN log, Arrive(r)
      PROVE  IInv'
  BY <1>4, Arriving
<1>5. CASE Serve
  BY <1>5, Starting, Ingesting, EndingIngest, Dropping, OpeningStream,
     FailingQuery, HandlingDown DEF Serve
<1>6. CASE Restart
  BY <1>6, Restarting
<1>7. ASSUME NEW r \in Ids, ServerCollects(r)
      PROVE  IInv'
  <2>1. /\ holders' = [holders EXCEPT ![r] = @ \ {Server}]
        /\ UNCHANGED <<serviceVars, log, cur, pc, epoch, tableVars, stream,
                       made, name, destroyed>>
    BY <1>7 DEF ServerCollects, clientVars
  <2>2. /\ holders' \in [Ids -> SUBSET (Clients \union {Server})]
        /\ \A q \in Ids : holders'[q] \subseteq holders[q]
    BY <1>1, <2>1
  <2> QED
    BY <1>1, <2>1, <2>2, Forgetting
<1>8. ASSUME NEW r \in Ids, Destroy(r)
      PROVE  IInv'
  BY <1>8, Destroying
<1> QED
  BY <1>2, <1>3, <1>4, <1>5, <1>6, <1>7, <1>8 DEF Next

\* The inductive invariant: the requests of a session, its tables and the
\* results that name them fit together in every reachable state.
THEOREM Invariance == Spec => []IInv
<1>1. Init => IInv
  BY Initially
<1>2. IInv /\ [Next]_vars => IInv'
  BY Preservation
<1> QED
  BY <1>1, <1>2, PTL DEF Spec

\* Every reachable state is well typed; the log is as long as its bound at most.
THEOREM TypeCorrect == Spec => []TypeOK
<1>1. IInv => TypeOK
  BY DEF IInv
<1> QED
  BY <1>1, Invariance, PTL

\* As long as a client of the session holds the result of an ingest, its table
\* is there, whatever other results are collected, of this session or of one
\* before it that named its tables alike (ingest, {:execute_on_gc, ...}).
THEOREM ResultsKeepTables == Spec => []ResultKeepsTable
<1>1. IInv => ResultKeepsTable
  BY DEF IInv
<1> QED
  BY <1>1, Invariance, PTL

\* No table is dropped while a stream reads it: the statement of the destructor
\* waits its turn behind the lock (maybe_dequeue).
THEOREM TablesOutliveReaders == Spec => []ReadTablesExist
<1>1. IInv => ReadTablesExist
  BY DEF IInv
<1> QED
  BY <1>1, Invariance, PTL

\* An ingest never meets a table of the name it is about to use, whatever failed
\* before (next_ingest_opts).
THEOREM NamesAreFresh == Spec => []FreshNames
<1>1. IInv => FreshNames
  BY DEF IInv
<1> QED
  BY <1>1, Invariance, PTL

\* A table that no error abandoned belongs to a result, or its drop is on its
\* way to be executed (adbc_ingest_gc, handle_command).
THEOREM TablesAreNotLost == Spec => []NoLeak
<1>1. IInv => NoLeak
  BY DEF IInv
<1> QED
  BY <1>1, Invariance, PTL
=============================================================================
