-------------------------- MODULE ResourcesProofs --------------------------
(***************************************************************************)
(* Theorems about Resources, for any number of processes and boxes: the    *)
(* ResourcePtr members keep databases, connections and statements alive as *)
(* long as something made from them is.                                    *)
(***************************************************************************)
EXTENDS Resources, TLAPS

USE DEF Boxes

\* A box is of one type.
LEMMA OneType ==
  /\ \A d \in Databases : d \notin Connections /\ d \notin Statements /\ d \notin Streams
  /\ \A c \in Connections : c \notin Databases /\ c \notin Statements /\ c \notin Streams
  /\ \A s \in Statements : s \notin Databases /\ s \notin Connections /\ s \notin Streams
  /\ \A t \in Streams : t \notin Databases /\ t \notin Connections /\ t \notin Statements
  /\ None \notin Databases /\ None \notin Connections
  /\ None \notin Statements /\ None \notin Streams
BY BoxesAssumption

LEMMA NifTypes ==
  ASSUME TypeOK, NEW p \in Processes, Nif(p)
  PROVE  TypeOK'
<1>1. ASSUME NEW x \in Boxes, Make(p, x)
      PROVE  /\ box' \in [Boxes -> {"free", "alive", "dying", "gone"}]
             /\ holders' \in [Boxes -> SUBSET Processes]
  BY <1>1 DEF TypeOK, Make
<1>2. ASSUME NEW x \in Boxes, NEW y \in Boxes,
             Derive(x, y) \/ DeriveTo(x, y, "failed")
      PROVE  /\ object' \in [Boxes -> {"none", "live", "failed", "released"}]
             /\ origin' \in [Boxes -> Boxes \union {None}]
  BY <1>2 DEF TypeOK, Derive, DeriveTo
<1>3. ASSUME NEW d \in Databases, NewDatabase(p, d)
      PROVE  TypeOK'
  BY <1>1, <1>3 DEF TypeOK, NewDatabase
<1>4. ASSUME NEW c \in Connections, NewConnection(p, c)
      PROVE  TypeOK'
  BY <1>1, <1>4 DEF TypeOK, NewConnection
<1>5. ASSUME NEW c \in Connections, NEW d \in Databases,
             InitConnection(p, c, d) \/ InitConnectionFails(p, c, d)
      PROVE  TypeOK'
  BY <1>2, <1>5 DEF TypeOK, InitConnection, InitConnectionFails
<1>6. ASSUME NEW s \in Statements, NEW c \in Connections, NewStatement(p, s, c)
      PROVE  TypeOK'
  BY <1>1, <1>2, <1>6 DEF TypeOK, NewStatement
<1>7. ASSUME NEW t \in Streams, NEW s \in Statements, ExecuteQuery(p, t, s)
      PROVE  TypeOK'
  BY <1>1, <1>2, <1>7 DEF TypeOK, ExecuteQuery
<1>8. ASSUME NEW t \in Streams, NEW c \in Connections, GetMetadata(p, t, c)
      PROVE  TypeOK'
  BY <1>1, <1>2, <1>8 DEF TypeOK, GetMetadata
<1>9. ASSUME NEW t \in Streams, NEW s \in Statements, BindStream(p, s, t)
      PROVE  TypeOK'
  BY <1>9 DEF TypeOK, BindStream
<1>10. ASSUME NEW t \in Streams, ReleaseStream(p, t)
       PROVE  TypeOK'
  BY <1>10 DEF TypeOK, ReleaseStream
<1> QED
  BY <1>3, <1>4, <1>5, <1>6, <1>7, <1>8, <1>9, <1>10 DEF Nif

LEMMA NextTypes == TypeOK /\ [Next]_vars => TypeOK'
<1> SUFFICES ASSUME TypeOK, [Next]_vars PROVE TypeOK'
  OBVIOUS
<1>1. ASSUME NEW p \in Processes, NEW q \in Processes, NEW x \in Boxes,
             Share(p, q, x) \/ Drop(p, x)
      PROVE  TypeOK'
  BY <1>1 DEF TypeOK, Share, Drop
<1>2. ASSUME NEW s \in Statements, ReleaseBound(s)
      PROVE  TypeOK'
  BY <1>2 DEF TypeOK, ReleaseBound
<1>3. CASE Collect
  <2>1. ASSUME NEW x \in Boxes, Destroy(x) PROVE TypeOK'
    BY <2>1 DEF TypeOK, Destroy
  <2>2. ASSUME NEW s \in Statements, DestroyStatement(s) PROVE TypeOK'
    BY <2>2 DEF TypeOK, DestroyStatement
  <2>3. ASSUME NEW t \in Streams, DestroyStream(t) \/ FinishStream(t) PROVE TypeOK'
    BY <2>3 DEF TypeOK, DestroyStream, FinishStream
  <2> QED
    BY <1>3, <2>1, <2>2, <2>3 DEF Collect
<1>4. CASE UNCHANGED vars
  BY <1>4 DEF vars, TypeOK
<1> QED
  BY <1>1, <1>2, <1>3, <1>4, NifTypes DEF Next

\* Every variable keeps its type.
THEOREM TypeCorrect == Spec => []TypeOK
<1>1. Init => TypeOK
  BY DEF Init, TypeOK
<1> QED
  BY <1>1, NextTypes, PTL DEF Spec

-----------------------------------------------------------------------------
(* The inductive invariant, one lemma for each conjunct that matters to an *)
(* action.                                                                 *)

LEMMA NifInv ==
  ASSUME IInv, TypeOK', NEW p \in Processes, Nif(p)
  PROVE  IInv'
<1> USE OneType DEF IInv, OriginInv, ReferenceInv, ObjectInv, BoundStreamsAreLive, TypeOK,
      Make, Derive, DeriveTo, Holds, Moved
<1>1. ASSUME NEW d \in Databases, NewDatabase(p, d) PROVE IInv'
  BY <1>1 DEF NewDatabase
<1>2. ASSUME NEW c \in Connections, NewConnection(p, c) PROVE IInv'
  BY <1>2 DEF NewConnection
<1>3. ASSUME NEW c \in Connections, NEW d \in Databases, InitConnection(p, c, d) PROVE IInv'
  BY <1>3 DEF InitConnection
<1>4. ASSUME NEW c \in Connections, NEW d \in Databases, InitConnectionFails(p, c, d)
      PROVE  IInv'
  BY <1>4 DEF InitConnectionFails
<1>5. ASSUME NEW s \in Statements, NEW c \in Connections, NewStatement(p, s, c) PROVE IInv'
  BY <1>5 DEF NewStatement
<1>6. ASSUME NEW t \in Streams, NEW s \in Statements, ExecuteQuery(p, t, s) PROVE IInv'
  BY <1>6 DEF ExecuteQuery
<1>7. ASSUME NEW t \in Streams, NEW c \in Connections, GetMetadata(p, t, c) PROVE IInv'
  BY <1>7 DEF GetMetadata
<1>8. ASSUME NEW t \in Streams, NEW s \in Statements, BindStream(p, s, t) PROVE IInv'
  BY <1>8 DEF BindStream
<1>9. ASSUME NEW t \in Streams, ReleaseStream(p, t) PROVE IInv'
  BY <1>9 DEF ReleaseStream
<1> QED
  BY <1>1, <1>2, <1>3, <1>4, <1>5, <1>6, <1>7, <1>8, <1>9 DEF Nif

LEMMA CollectInv ==
  ASSUME IInv, TypeOK', Collect
  PROVE  IInv'
<1> USE OneType DEF IInv, OriginInv, ReferenceInv, ObjectInv, BoundStreamsAreLive, TypeOK,
      Moved, Referenced
<1>1. ASSUME NEW x \in Databases \union Connections, Destroy(x) PROVE IInv'
  BY <1>1 DEF Destroy
<1>2. ASSUME NEW s \in Statements, DestroyStatement(s) PROVE IInv'
  BY <1>2 DEF DestroyStatement
<1>3. ASSUME NEW t \in Streams, DestroyStream(t) PROVE IInv'
  BY <1>3 DEF DestroyStream
<1>4. ASSUME NEW t \in Streams, FinishStream(t) PROVE IInv'
  BY <1>4 DEF FinishStream
<1> QED
  BY <1>1, <1>2, <1>3, <1>4 DEF Collect, Destroy

\* The counting of references keeps the inductive invariant.
THEOREM Invariance == Spec => []IInv
<1>1. Init => IInv
  BY OneType DEF Init, IInv, TypeOK, OriginInv, ReferenceInv, ObjectInv, BoundStreamsAreLive
<1>2. IInv /\ [Next]_vars => IInv'
  <2> SUFFICES ASSUME IInv, [Next]_vars PROVE IInv'
    OBVIOUS
  <2>1. TypeOK'
    BY NextTypes DEF IInv
  <2>2. ASSUME NEW p \in Processes, NEW q \in Processes, NEW x \in Boxes,
               Share(p, q, x) \/ Drop(p, x)
        PROVE  IInv'
    BY <2>1, <2>2, OneType DEF IInv, OriginInv, ReferenceInv, ObjectInv,
      BoundStreamsAreLive, TypeOK, Share, Drop, Holds
  <2>3. ASSUME NEW s \in Statements, ReleaseBound(s) PROVE IInv'
    BY <2>1, <2>3, OneType DEF IInv, OriginInv, ReferenceInv, ObjectInv,
      BoundStreamsAreLive, TypeOK, ReleaseBound
  <2>4. CASE UNCHANGED vars
    BY <2>1, <2>4 DEF IInv, OriginInv, ReferenceInv, ObjectInv, BoundStreamsAreLive, vars
  <2> QED
    BY <2>1, <2>2, <2>3, <2>4, NifInv, CollectInv DEF Next
<1> QED
  BY <1>1, <1>2, PTL DEF Spec

\* Databases outlive the connections that were initialized, connections their
\* statements.
THEOREM ParentsOutliveTheirs == Spec => []ParentsOutlive
<1>1. IInv => ParentsOutlive
  BY OneType DEF IInv, TypeOK, OriginInv, ReferenceInv, ObjectInv, ParentsOutlive, Outlived
<1> QED
  BY <1>1, Invariance, PTL

\* A held stream of a query reaches live objects up to the database.
THEOREM HeldStreamsStayUsable == Spec => []HeldStreamsAreUsable
<1>1. IInv => HeldStreamsAreUsable
  <2> SUFFICES ASSUME IInv, NEW t \in Streams, holders[t] # {}, object[t] = "live",
                      origin[t] \in Statements
               PROVE  /\ object[origin[t]] = "live"
                      /\ object[origin[origin[t]]] = "live"
                      /\ object[origin[origin[origin[t]]]] = "live"
    BY DEF HeldStreamsAreUsable
  <2> DEFINE s == origin[t]
             c == origin[s]
             d == origin[c]
  <2>1. s \in Statements /\ member[t] = s /\ box[s] = "alive" /\ object[s] = "live"
    BY OneType DEF IInv, ReferenceInv, ObjectInv
  <2>2. /\ c \in Connections /\ member[s] = c /\ box[c] = "alive"
        /\ object[c] \notin {"none", "failed"}
    BY <2>1, OneType DEF IInv, OriginInv, ReferenceInv, ObjectInv
  <2>3. object[c] = "live" /\ member[c] = d /\ d \in Databases /\ box[d] = "alive"
    BY <2>2, OneType DEF IInv, TypeOK, OriginInv, ReferenceInv, ObjectInv
  <2>4. object[d] = "live"
    BY <2>3 DEF IInv, ObjectInv
  <2> QED
    BY <2>1, <2>3, <2>4
<1> QED
  BY <1>1, Invariance, PTL

\* A stream that a driver has taken over is released by that driver only.
THEOREM BoundStreamsStayLive == Spec => []BoundStreamsAreLive
BY Invariance, PTL DEF IInv
=============================================================================
