-------------------------- MODULE MessagePortsProofs --------------------------
(***************************************************************************)
(* Theorems about MessagePorts, for any objects and channels and any       *)
(* number of messages: a handle has one owner, a started port is kept.     *)
(***************************************************************************)
EXTENDS MessagePorts, SequenceTheorems, TLAPS

Messages == SUBSET (Ends \cup {Unused})

(* Where an end may be: in an object, in a message, or in a page.          *)
Held(e) == \E p \in Objects : ports[p].connector_ = e
Sent(e) == \E x \in Ends : Carries(x, e)

(* Each end that is open is in one of these places, and once.              *)
OneHolder  == \A p, r \in Objects :
                ports[p].connector_ \in Ends /\ ports[p].connector_ = ports[r].connector_ => p = r
OneMessage == \A x, y \in Ends : \A i \in DOMAIN queue[x], j \in DOMAIN queue[y] :
                \A e \in Ends : e \in queue[x][i] /\ e \in queue[y][j] => x = y /\ i = j
OnePlace   == \A e \in Ends : ~(Held(e) /\ Sent(e)) /\ (e \in away => ~Held(e) /\ ~Sent(e))
OpenIsPut  == \A e \in Ends : e \in open <=> Held(e) \/ Sent(e) \/ e \in away

Types ==
    /\ ports \in [Objects -> MessagePort]
    /\ created \subseteq Channels
    /\ open \subseteq created \X {1, 2}
    /\ away \subseteq Ends
    /\ queue \in [Ends -> Seq(Messages)]

Owned == OneHolder /\ OneMessage /\ OnePlace /\ OpenIsPut

(* What is not an end.                                                     *)
LEMMA NotEnds == NoEnd \notin Ends /\ Unused \notin Ends /\ NoEnd # Unused
BY DEF NoEnd, Unused, Ends

LEMMA PeerIsEnd == \A e \in Ends : Peer(e) \in Ends
BY DEF Ends, Peer

(* What is closed with ends: the ends, with what the messages carry that   *)
(* wait there, and no other.                                               *)
LEMMA DoomedIsClosed ==
    ASSUME NEW ends \in SUBSET Ends
    PROVE  /\ ends \subseteq Doomed(ends)
           /\ Doomed(ends) \subseteq Ends
           /\ Closed(Doomed(ends))
           /\ \A e \in Doomed(ends) : e \in ends \/ \E x \in Doomed(ends) : Carries(x, e)
<1> DEFINE D == Doomed(ends)
<1>1. D \subseteq Ends
  BY DEF Doomed
<1>2. ends \subseteq D
  BY DEF Doomed
<1>3. \A S \in SUBSET Ends : ends \subseteq S /\ Closed(S) => D \subseteq S
  BY DEF Doomed
<1>4. Closed(D)
  <2> SUFFICES ASSUME NEW x \in D, NEW e \in Ends \ D, Carries(x, e)
               PROVE  FALSE
    BY DEF Closed
  <2>1. PICK S \in SUBSET Ends : ends \subseteq S /\ Closed(S) /\ e \notin S
    BY DEF Doomed
  <2>2. x \in S
    BY <1>3, <2>1
  <2> QED
    BY <2>1, <2>2 DEF Closed
<1>5. ASSUME NEW e \in D, e \notin ends
      PROVE  \E x \in D : Carries(x, e)
  <2> SUFFICES ASSUME \A x \in D : ~Carries(x, e)
               PROVE  FALSE
    OBVIOUS
  <2> DEFINE S == D \ {e}
  <2>1. S \in SUBSET Ends /\ ends \subseteq S
    BY <1>1, <1>2, <1>5
  <2>2. Closed(S)
    BY <1>4 DEF Closed
  <2> QED
    BY <1>3, <2>1, <2>2
<1> QED
  BY <1>1, <1>2, <1>4, <1>5

(* A step in which whoever has ends of C gives them away, and nothing else *)
(* of an end changes hands.                                                *)
LetsGo(C) ==
    /\ \A p \in Objects :
         IF ports[p].connector_ \in Ends \ C
           THEN ports'[p].connector_ = ports[p].connector_
           ELSE ports'[p].connector_ \notin Ends
    /\ away' = away \ C

AreHeld(C) == \A e \in C \cap Ends : Held(e) \/ e \in away

(* Closing handles that somebody lets go, with all that goes with them,    *)
(* leaves every other end where it was.                                    *)
LEMMA CloseKeepsOwned ==
    ASSUME Types, Owned, NEW C, LetsGo(C), AreHeld(C), CloseHandles(C)
    PROVE  Owned'
<1> DEFINE D == Doomed(C \cap open)
<1>0. open \subseteq Ends
  BY DEF Types, Ends
<1>1. /\ C \cap open \subseteq D
      /\ D \subseteq Ends
      /\ Closed(D)
      /\ \A e \in D : e \in C \cap open \/ \E x \in D : Carries(x, e)
  <2>1. C \cap open \in SUBSET Ends
    BY <1>0
  <2> QED
    BY <2>1, DoomedIsClosed
<1>2. /\ open' = open \ D
      /\ queue' = [e \in Ends |-> IF e \in D THEN <<>> ELSE queue[e]]
  BY DEF CloseHandles
<1> HIDE DEF D
<1>3. DOMAIN <<>> = {}
  OBVIOUS
<1>4. \A x \in Ends : \A e : Carries(x, e)' <=> x \notin D /\ Carries(x, e)
  BY <1>2, <1>3 DEF Carries
<1>5. \A e \in Ends : Held(e)' <=> Held(e) /\ e \notin C
  BY DEF LetsGo, Held
<1>6. \A e \in Ends : Sent(e)' => Sent(e)
  BY <1>4 DEF Sent
<1>7. \A e \in Ends : e \in away' <=> e \in away /\ e \notin C
  BY DEF LetsGo
<1>8. OneHolder'
  BY DEF LetsGo, Owned, OneHolder
<1>9. OneMessage'
  <2> SUFFICES ASSUME NEW x \in Ends, NEW y \in Ends, NEW i \in DOMAIN queue'[x],
                      NEW j \in DOMAIN queue'[y], NEW e \in Ends,
                      e \in queue'[x][i], e \in queue'[y][j]
               PROVE  x = y /\ i = j
    BY DEF OneMessage
  <2>1. queue'[x] = queue[x] /\ queue'[y] = queue[y]
    BY <1>2, <1>3
  <2> QED
    BY <2>1 DEF Owned, OneMessage
<1>10. OnePlace'
  BY <1>5, <1>6, <1>7 DEF Owned, OnePlace
<1>11. ASSUME NEW e \in Ends, e \in open, e \notin D
       PROVE  (Held(e) \/ Sent(e) \/ e \in away)'
  <2>1. e \notin C
    BY <1>1, <1>11
  <2>2. CASE Sent(e)
    <3>1. PICK x \in Ends : Carries(x, e)
      BY <2>2 DEF Sent
    <3>2. x \notin D
      BY <3>1, <1>1, <1>11 DEF Closed
    <3> QED
      BY <3>1, <3>2, <1>4 DEF Sent
  <2> QED
    BY <2>1, <2>2, <1>5, <1>7, <1>11 DEF Owned, OpenIsPut
<1>12. ASSUME NEW e \in Ends, (Held(e) \/ Sent(e) \/ e \in away)'
       PROVE  e \in open /\ e \notin D
  <2>1. e \in open
    BY <1>5, <1>6, <1>7, <1>12 DEF Owned, OpenIsPut
  <2>2. SUFFICES ASSUME e \in D
                 PROVE  FALSE
    BY <2>1
  <2>3. CASE e \in C
    <3>1. ~Sent(e)
      BY <2>3 DEF AreHeld, Owned, OnePlace
    <3> QED
      BY <3>1, <2>3, <1>5, <1>6, <1>7, <1>12
  <2>4. CASE e \notin C
    <3>1. PICK x \in D : Carries(x, e)
      BY <2>2, <2>4, <1>1
    <3>2. Sent(e)
      BY <3>1, <1>1 DEF Sent
    <3>3. Sent(e)'
      BY <3>2, <1>5, <1>7, <1>12 DEF Owned, OnePlace
    <3>4. PICK y \in Ends : y \notin D /\ Carries(y, e)
      BY <3>3, <1>4 DEF Sent
    <3> QED
      BY <3>1, <3>4, <1>1 DEF Carries, Owned, OneMessage
  <2> QED
    BY <2>3, <2>4
<1>13. OpenIsPut'
  BY <1>2, <1>11, <1>12 DEF OpenIsPut
<1> QED
  BY <1>8, <1>9, <1>10, <1>13 DEF Owned

(* A message that takes with it what somebody lets go.                     *)
LEMMA AppendKeepsOwned ==
    ASSUME Types, Owned, NEW C \in Messages, LetsGo(C), AreHeld(C), NEW y \in Ends,
           queue' = [queue EXCEPT ![y] = Append(@, C)], open' = open
    PROVE  Owned' /\ queue' \in [Ends -> Seq(Messages)]
<1>1. PICK n \in Nat : /\ n = Len(queue[y])
                       /\ DOMAIN queue[y] = 1..n
                       /\ DOMAIN queue'[y] = 1..(n + 1)
                       /\ \A i \in 1..n : queue'[y][i] = queue[y][i]
                       /\ queue'[y][n + 1] = C
                       /\ queue'[y] \in Seq(Messages)
  <2> DEFINE s == queue[y]
             t == Append(s, C)
  <2>1. queue'[y] = t
    BY DEF Types
  <2>2. s \in Seq(Messages)
    BY DEF Types
  <2> HIDE DEF s
  <2>3. /\ t \in Seq(Messages)
        /\ Len(t) = Len(s) + 1
        /\ \A i \in 1..Len(s) : t[i] = s[i]
        /\ t[Len(s) + 1] = C
    BY <2>2, AppendProperties
  <2>4. Len(s) \in Nat /\ DOMAIN s = 1..Len(s) /\ DOMAIN t = 1..Len(t)
    BY <2>2, <2>3, LenProperties
  <2> QED
    BY <2>1, <2>3, <2>4 DEF s
<1>2. \A x \in Ends : x # y => queue'[x] = queue[x]
  BY DEF Types
<1>3. queue' \in [Ends -> Seq(Messages)]
  BY <1>1 DEF Types
<1>4. n + 1 \in DOMAIN queue'[y] /\ n + 1 \notin DOMAIN queue[y]
  BY <1>1
<1>5. \A x \in Ends : \A i \in DOMAIN queue'[x] :
        \/ i \in DOMAIN queue[x] /\ queue'[x][i] = queue[x][i]
        \/ x = y /\ i = n + 1 /\ queue'[x][i] = C
  BY <1>1, <1>2
<1>6. \A x \in Ends : \A i \in DOMAIN queue[x] :
        i \in DOMAIN queue'[x] /\ queue'[x][i] = queue[x][i]
  BY <1>1, <1>2
<1>7. \A e \in Ends : Sent(e)' <=> Sent(e) \/ e \in C
  <2> TAKE e \in Ends
  <2>1. Sent(e)' => Sent(e) \/ e \in C
    BY <1>5 DEF Sent, Carries
  <2>2. Sent(e) => Sent(e)'
    BY <1>6 DEF Sent, Carries
  <2>3. e \in C => Sent(e)'
    BY <1>1, <1>4 DEF Sent, Carries
  <2> QED
    BY <2>1, <2>2, <2>3
<1>8. \A e \in Ends : /\ Held(e)' <=> Held(e) /\ e \notin C
                      /\ e \in away' <=> e \in away /\ e \notin C
                      /\ e \in C => (Held(e) \/ e \in away) /\ ~Sent(e)
  BY DEF LetsGo, Held, AreHeld, Owned, OnePlace
<1>9. OneHolder'
  BY DEF LetsGo, Owned, OneHolder
<1>10. OneMessage'
  <2> SUFFICES ASSUME NEW x \in Ends, NEW z \in Ends, NEW i \in DOMAIN queue'[x],
                      NEW j \in DOMAIN queue'[z], NEW e \in Ends,
                      e \in queue'[x][i], e \in queue'[z][j]
               PROVE  x = z /\ i = j
    BY DEF OneMessage
  <2>1. CASE e \in C
    <3>1. ~Sent(e)
      BY <2>1, <1>8
    <3> QED
      BY <3>1, <1>5 DEF Sent, Carries
  <2>2. CASE e \notin C
    BY <2>2, <1>5 DEF Owned, OneMessage
  <2> QED
    BY <2>1, <2>2
<1>11. OnePlace'
  BY <1>7, <1>8 DEF Owned, OnePlace
<1>12. OpenIsPut'
  BY <1>7, <1>8 DEF Owned, OpenIsPut
<1> QED
  BY <1>3, <1>9, <1>10, <1>11, <1>12 DEF Owned

(* Over a pipe that has another end or not.                                *)
LEMMA SendKeepsOwned ==
    ASSUME Types, Owned, NEW C \in Messages, LetsGo(C), AreHeld(C),
           NEW x \in Ends \cup {Unused}, Send(x, C)
    PROVE  Owned'
<1>1. CASE x # Unused /\ Peer(x) \in open \ C
  <2>1. Peer(x) \in Ends
    BY <1>1, PeerIsEnd
  <2>2. queue' = [queue EXCEPT ![Peer(x)] = Append(@, C)] /\ open' = open
    BY <1>1 DEF Send
  <2> QED
    BY <2>1, <2>2, AppendKeepsOwned
<1>2. CASE ~(x # Unused /\ Peer(x) \in open \ C)
  <2>1. CloseHandles(C)
    BY <1>2 DEF Send
  <2> QED
    BY <2>1, CloseKeepsOwned
<1> QED
  BY <1>1, <1>2

-----------------------------------------------------------------------------
(* What an object is between two calls.                                    *)
ObjectOK(o) ==
    /\ o \in MessagePort
    /\ o.closed_ => o.connector_ \notin Ends
    /\ ~o.alive => IsNeutered(o)
    /\ ~IsNeutered(o) /\ ~o.paused => o.started_
    /\ o.keep_alive_ = HasPendingActivity(o)
    /\ o.wrong = {}

LEMMA NewIsOK == ObjectOK(New) /\ New.connector_ = NoEnd
BY NotEnds DEF ObjectOK, New, MessagePort, IsNeutered, HasPendingActivity, IsEntangled

LEMMA DisentangleIsOK ==
    ASSUME NEW o, ObjectOK(o)
    PROVE  /\ ObjectOK(Disentangle(o))
           /\ Disentangle(o).connector_ = NoEnd
           /\ Disentangle(o).alive = o.alive
BY NotEnds DEF ObjectOK, MessagePort, IsNeutered, HasPendingActivity, IsEntangled,
               Disentangle, Unpin

LEMMA CreatedIsOK ==
    ASSUME NEW e \in Ends \cup {Unused}
    PROVE  /\ ObjectOK(Created(e))
           /\ Created(e).connector_ = e
           /\ Created(e).alive
BY NotEnds DEF ObjectOK, MessagePort, IsNeutered, HasPendingActivity, IsEntangled,
               Created, Entangle, Pin, New

LEMMA StartIsOK ==
    ASSUME NEW o, ObjectOK(o), IsEntangled(o)
    PROVE  LET s == Pin([o EXCEPT !.started_ = TRUE, !.paused = FALSE]) IN
           /\ ObjectOK(s)
           /\ s.connector_ = o.connector_
           /\ s.alive = o.alive
BY NotEnds DEF ObjectOK, MessagePort, IsNeutered, HasPendingActivity, IsEntangled, Pin

LEMMA OtherConnectorIsOK ==
    ASSUME NEW o, ObjectOK(o), o.alive, ~o.closed_
    PROVE  LET c == OtherConnector(o) IN
           /\ ObjectOK(c) /\ c.alive /\ ~c.closed_
           /\ c.connector_ \in {NoEnd, Unused}
<1>1. CASE IsNeutered(o)
  BY <1>1 DEF OtherConnector, IsNeutered
<1>2. CASE ~IsNeutered(o)
  <2> DEFINE d == Disentangle(o)
             c == Entangle(d, Unused)
  <2>1. OtherConnector(o) = c
    BY <1>2 DEF OtherConnector
  <2>2. ObjectOK(d) /\ d.connector_ = NoEnd /\ d.alive /\ ~d.closed_
    <3>1. ~d.closed_
      BY DEF ObjectOK, MessagePort, Disentangle, Unpin
    <3> QED
      BY <3>1, DisentangleIsOK
  <2> HIDE DEF d
  <2>3. ObjectOK(c) /\ c.alive /\ ~c.closed_ /\ c.connector_ = Unused
    BY <2>2, NotEnds DEF ObjectOK, MessagePort, IsNeutered, HasPendingActivity, IsEntangled,
                         Entangle, Pin
  <2> QED
    BY <2>1, <2>3
<1> QED
  BY <1>1, <1>2

LEMMA CloseIsOK ==
    ASSUME NEW o, ObjectOK(o), o.alive, ~o.closed_
    PROVE  LET c == Unpin(EmitClose(OtherConnector(o))) IN
           ObjectOK(c) /\ c.connector_ \notin Ends /\ c.alive
<1> DEFINE d == OtherConnector(o)
<1>1. ObjectOK(d) /\ d.alive /\ ~d.closed_ /\ d.connector_ \in {NoEnd, Unused}
  BY OtherConnectorIsOK
<1> HIDE DEF d
<1>2. EmitClose(d) = [d EXCEPT !.closed_ = TRUE]
  BY <1>1 DEF EmitClose
<1>3. LET c == Unpin([d EXCEPT !.closed_ = TRUE]) IN
      ObjectOK(c) /\ c.connector_ \notin Ends /\ c.alive
  BY <1>1, NotEnds DEF ObjectOK, MessagePort, IsNeutered, HasPendingActivity, IsEntangled, Unpin
<1> QED
  BY <1>2, <1>3 DEF d

-----------------------------------------------------------------------------
Call == [port : Objects, transfer : SUBSET Objects]

PortsOK ==
    /\ \A p \in Objects : ObjectOK(ports[p])
    /\ reachable \subseteq {p \in Objects : ports[p].alive}
    /\ calls \in Seq(Call)
    /\ crashed = FALSE

IInv == Types /\ Owned /\ PortsOK

LEMMA CloseTypes ==
    ASSUME Types, NEW C, CloseHandles(C)
    PROVE  open' \subseteq open /\ queue' \in [Ends -> Seq(Messages)]
<1>1. <<>> \in Seq(Messages)
  BY EmptySeq
<1> QED
  BY <1>1 DEF Types, CloseHandles

(* The steps that give ends away, from objects or from a page.             *)
LEMMA GiveKeepsTypes ==
    ASSUME Types, Owned, NEW C, LetsGo(C), AreHeld(C),
           \/ CloseHandles(C)
           \/ C \in Messages /\ \E x \in Ends \cup {Unused} : Send(x, C),
           created' = created, ports' \in [Objects -> MessagePort]
    PROVE  Types' /\ Owned'
<1>1. Owned'
  BY CloseKeepsOwned, SendKeepsOwned
<1>2. open' \subseteq open /\ queue' \in [Ends -> Seq(Messages)]
  <2>1. CASE CloseHandles(C)
    BY <2>1, CloseTypes
  <2>2. ASSUME C \in Messages, NEW x \in Ends \cup {Unused}, Send(x, C)
        PROVE  open' \subseteq open /\ queue' \in [Ends -> Seq(Messages)]
    <3>1. CASE x # Unused /\ Peer(x) \in open \ C
      <4>1. Peer(x) \in Ends
        BY <3>1, PeerIsEnd
      <4>2. queue' = [queue EXCEPT ![Peer(x)] = Append(@, C)] /\ open' = open
        BY <2>2, <3>1 DEF Send
      <4> QED
        BY <2>2, <4>1, <4>2, AppendKeepsOwned
    <3>2. CASE ~(x # Unused /\ Peer(x) \in open \ C)
      <4>1. CloseHandles(C)
        BY <2>2, <3>2 DEF Send
      <4> QED
        BY <4>1, CloseTypes
    <3> QED
      BY <3>1, <3>2
  <2> QED
    BY <2>1, <2>2
<1>3. away' \subseteq Ends
  BY DEF LetsGo, Types
<1> QED
  BY <1>1, <1>2, <1>3 DEF Types

(* The steps in which objects take ends that no object has.                *)
Takes(N) ==
    /\ \A p \in Objects :
         IF ports[p].connector_ \in Ends
           THEN ports'[p].connector_ = ports[p].connector_
           ELSE ports'[p].connector_ \notin Ends \/ ports'[p].connector_ \in N
    /\ \A e \in N : ~Held(e) /\ \E p \in Objects : ports'[p].connector_ = e
    /\ \A p, r \in Objects :
         ports'[p].connector_ \in N /\ ports'[p].connector_ = ports'[r].connector_ => p = r

LEMMA TakenOnce ==
    ASSUME Owned, NEW N \in SUBSET Ends, Takes(N)
    PROVE  OneHolder' /\ \A e \in Ends : Held(e)' <=> Held(e) \/ e \in N
<1>1. \A e \in Ends : Held(e)' <=> Held(e) \/ e \in N
  <2> TAKE e \in Ends
  <2>1. Held(e)' => Held(e) \/ e \in N
    BY DEF Takes, Held
  <2>2. Held(e) => Held(e)'
    BY DEF Takes, Held
  <2>3. e \in N => Held(e)'
    BY DEF Takes, Held
  <2> QED
    BY <2>1, <2>2, <2>3
<1>2. ASSUME NEW p \in Objects, NEW r \in Objects, ports'[p].connector_ \in Ends,
             ports'[p].connector_ = ports'[r].connector_
      PROVE  p = r
  <2>1. CASE ports'[p].connector_ \in N
    BY <1>2, <2>1 DEF Takes
  <2>2. CASE ports'[p].connector_ \notin N
    BY <1>2, <2>2 DEF Takes, Owned, OneHolder
  <2> QED
    BY <2>1, <2>2
<1> QED
  BY <1>1, <1>2 DEF OneHolder

(* A message that is received.                                             *)
LEMMA TailKeepsMessages ==
    ASSUME Types, Owned, NEW y \in Ends, queue[y] # <<>>,
           queue' = [queue EXCEPT ![y] = Tail(@)]
    PROVE  /\ queue' \in [Ends -> Seq(Messages)]
           /\ Head(queue[y]) \in Messages
           /\ OneMessage'
           /\ \A e \in Ends : Sent(e)' <=> Sent(e) /\ e \notin Head(queue[y])
           /\ \A e \in Head(queue[y]) \cap Ends : Sent(e)
<1> DEFINE h == Head(queue[y])
<1>1. PICK n \in Nat : /\ DOMAIN queue[y] = 1..(n + 1)
                       /\ queue[y][1] = h
                       /\ DOMAIN queue'[y] = 1..n
                       /\ \A i \in 1..n : queue'[y][i] = queue[y][i + 1]
                       /\ queue'[y] \in Seq(Messages)
                       /\ h \in Messages
  <2> DEFINE s == queue[y]
             t == Tail(s)
  <2>1. queue'[y] = t
    BY DEF Types
  <2>2. s \in Seq(Messages) /\ s # <<>>
    BY DEF Types
  <2> HIDE DEF s
  <2>3. /\ Head(s) \in Messages
        /\ t \in Seq(Messages)
        /\ Len(t) = Len(s) - 1
        /\ \A i \in 1..Len(t) : t[i] = s[i + 1]
    BY <2>2, HeadTailProperties
  <2>4. /\ Len(s) \in Nat \ {0} /\ Len(t) \in Nat
        /\ DOMAIN s = 1..Len(s) /\ DOMAIN t = 1..Len(t)
    BY <2>2, <2>3, LenProperties, EmptySeq
  <2>5. Head(s) = s[1]
    BY <2>2
  <2> DEFINE n == Len(t)
  <2>6. n \in Nat /\ Len(s) = n + 1
    <3> HIDE DEF t
    <3> QED
      BY <2>3, <2>4
  <2>7. /\ DOMAIN s = 1..(n + 1) /\ DOMAIN t = 1..n
        /\ \A i \in 1..n : t[i] = s[i + 1]
    BY <2>3, <2>4, <2>6
  <2> HIDE DEF n, t
  <2> QED
    BY <2>1, <2>3, <2>5, <2>6, <2>7 DEF s
<1> HIDE DEF h
<1>2. \A x \in Ends : x # y => queue'[x] = queue[x]
  BY DEF Types
<1>3. queue' \in [Ends -> Seq(Messages)]
  BY <1>1 DEF Types
<1>4. \A i \in 1..n : i + 1 \in 1..(n + 1) /\ i + 1 # 1
  OBVIOUS
<1>5. \A x \in Ends : \A i \in DOMAIN queue'[x] :
        \/ x # y /\ i \in DOMAIN queue[x] /\ queue'[x][i] = queue[x][i]
        \/ x = y /\ i \in Nat /\ i + 1 \in DOMAIN queue[x] /\ queue'[x][i] = queue[x][i + 1]
                 /\ i + 1 # 1
  BY <1>1, <1>2, <1>4
<1>6. \A e \in Ends : Sent(e)' => Sent(e) /\ e \notin h
  <2> TAKE e \in Ends
  <2> SUFFICES ASSUME NEW x \in Ends, NEW i \in DOMAIN queue'[x], e \in queue'[x][i]
               PROVE  Sent(e) /\ e \notin h
    BY DEF Sent, Carries
  <2>1. PICK j \in DOMAIN queue[x] : e \in queue[x][j] /\ (x = y => j # 1)
    BY <1>5
  <2>2. 1 \in DOMAIN queue[y]
    BY <1>1
  <2> QED
    BY <1>1, <2>1, <2>2 DEF Sent, Carries, Owned, OneMessage
<1>7. \A e \in Ends : Sent(e) /\ e \notin h => Sent(e)'
  <2> TAKE e \in Ends
  <2> SUFFICES ASSUME NEW x \in Ends, NEW i \in DOMAIN queue[x], e \in queue[x][i], e \notin h
               PROVE  Sent(e)'
    BY DEF Sent, Carries
  <2>1. CASE x # y
    BY <2>1, <1>2 DEF Sent, Carries
  <2>2. CASE x = y
    <3>1. i \in 1..(n + 1) /\ i # 1
      BY <2>2, <1>1
    <3>2. i - 1 \in 1..n /\ (i - 1) + 1 = i
      BY <3>1
    <3>3. i - 1 \in DOMAIN queue'[y] /\ queue'[y][i - 1] = queue[y][i]
      BY <3>2, <1>1
    <3> QED
      BY <3>3, <2>2 DEF Sent, Carries
  <2> QED
    BY <2>1, <2>2
<1>8. OneMessage'
  <2> SUFFICES ASSUME NEW x \in Ends, NEW z \in Ends, NEW i \in DOMAIN queue'[x],
                      NEW j \in DOMAIN queue'[z], NEW e \in Ends,
                      e \in queue'[x][i], e \in queue'[z][j]
               PROVE  x = z /\ i = j
    BY DEF OneMessage
  <2>1. PICK k \in DOMAIN queue[x] : /\ e \in queue[x][k]
                                     /\ x = y => i \in Nat /\ k = i + 1
                                     /\ x # y => k = i
    BY <1>5
  <2>2. PICK l \in DOMAIN queue[z] : /\ e \in queue[z][l]
                                     /\ z = y => j \in Nat /\ l = j + 1
                                     /\ z # y => l = j
    BY <1>5
  <2>3. x = z /\ k = l
    BY <2>1, <2>2 DEF Owned, OneMessage
  <2> QED
    BY <2>1, <2>2, <2>3
<1>9. \A e \in h \cap Ends : Sent(e)
  BY <1>1 DEF Sent, Carries
<1> QED
  BY <1>1, <1>3, <1>6, <1>7, <1>8, <1>9 DEF h

-----------------------------------------------------------------------------
LEMMA InitIInv == Init => IInv
<1> SUFFICES ASSUME Init PROVE IInv
  OBVIOUS
<1>1. \A p \in Objects : ObjectOK(ports[p]) /\ ports[p].connector_ = NoEnd
  BY NewIsOK DEF Init
<1>2. <<>> \in Seq(Messages) /\ <<>> \in Seq(Call) /\ DOMAIN <<>> = {}
  BY EmptySeq
<1>3. Types
  BY <1>2, NewIsOK DEF Init, Types, ObjectOK
<1>4. \A e \in Ends : ~Held(e) /\ ~Sent(e)
  BY <1>1, <1>2, NotEnds DEF Init, Held, Sent, Carries
<1>5. OneHolder /\ OneMessage
  BY <1>1, <1>2, NotEnds DEF Init, OneHolder, OneMessage
<1>6. OnePlace /\ OpenIsPut
  BY <1>4 DEF Init, OnePlace, OpenIsPut
<1>7. PortsOK
  BY <1>1, <1>2 DEF Init, PortsOK
<1> QED
  BY <1>3, <1>5, <1>6, <1>7 DEF IInv, Owned

LEMMA MessageChannelMainNewStep ==
    ASSUME IInv, NEW c \in Channels, MessageChannelMainNew(c)
    PROVE  IInv'
<1> DEFINE N == {<<c, 1>>, <<c, 2>>}
<1>1. PICK p1 \in Free, p2 \in Free :
        /\ p1 # p2
        /\ ports' = [ports EXCEPT ![p1] = Created(<<c, 1>>), ![p2] = Created(<<c, 2>>)]
        /\ reachable' = reachable \cup {p1, p2}
  BY DEF MessageChannelMainNew
<1>2. /\ c \notin created
      /\ created' = created \cup {c}
      /\ open' = open \cup N
      /\ UNCHANGED <<queue, away, calls, crashed>>
  BY DEF MessageChannelMainNew
<1>3. N \subseteq Ends /\ <<c, 1>> # <<c, 2>> /\ p1 \in Objects /\ p2 \in Objects
  BY DEF Ends, Free
<1>4. N \cap open = {}
  BY <1>2 DEF IInv, Types
<1>5. \A e \in N : ~Held(e) /\ ~Sent(e) /\ e \notin away
  BY <1>3, <1>4 DEF IInv, Owned, OpenIsPut
<1>6. /\ \A p \in Objects \ {p1, p2} : ports'[p] = ports[p]
      /\ ports'[p1] = Created(<<c, 1>>) /\ ports'[p2] = Created(<<c, 2>>)
  BY <1>1, <1>3 DEF IInv, Types
<1>7. /\ ObjectOK(ports'[p1]) /\ ports'[p1].connector_ = <<c, 1>> /\ ports'[p1].alive
      /\ ObjectOK(ports'[p2]) /\ ports'[p2].connector_ = <<c, 2>> /\ ports'[p2].alive
  BY <1>3, <1>6, CreatedIsOK
<1>8. ports[p1].connector_ \notin Ends /\ ports[p2].connector_ \notin Ends
  BY <1>3, NotEnds DEF IInv, PortsOK, ObjectOK, IsNeutered, Free
<1>9. Takes(N)
  BY <1>3, <1>5, <1>6, <1>7, <1>8 DEF Takes, Held
<1>10. OneHolder' /\ \A e \in Ends : Held(e)' <=> Held(e) \/ e \in N
  BY <1>3, <1>9, TakenOnce DEF IInv
<1>11. \A e \in Ends : Sent(e)' <=> Sent(e)
  BY <1>2 DEF Sent, Carries
<1>12. Owned'
  <2>1. OneMessage'
    BY <1>2 DEF IInv, Owned, OneMessage
  <2>2. OnePlace'
    BY <1>2, <1>5, <1>10, <1>11 DEF IInv, Owned, OnePlace
  <2>3. OpenIsPut'
    BY <1>2, <1>10, <1>11 DEF IInv, Owned, OpenIsPut
  <2> QED
    BY <2>1, <2>2, <2>3, <1>10 DEF Owned
<1>13. PortsOK'
  BY <1>1, <1>2, <1>3, <1>6, <1>7 DEF IInv, PortsOK
<1>14. Types'
  <2>1. ports' \in [Objects -> MessagePort]
    BY <1>1, <1>3, <1>6, <1>7 DEF IInv, Types, ObjectOK
  <2> QED
    BY <2>1, <1>2 DEF IInv, Types
<1> QED
  BY <1>12, <1>13, <1>14 DEF IInv

LEMMA StartStep ==
    ASSUME IInv, NEW p \in Objects, Start(p)
    PROVE  IInv'
<1> DEFINE s == Pin([ports[p] EXCEPT !.started_ = TRUE, !.paused = FALSE])
<1>1. ports' = [ports EXCEPT ![p] = s]
  BY DEF Start
<1>2. ObjectOK(s) /\ s.connector_ = ports[p].connector_ /\ s.alive = ports[p].alive
  BY StartIsOK DEF Start, IInv, PortsOK
<1> HIDE DEF s
<1>3. /\ \A r \in Objects : /\ ObjectOK(ports'[r])
                            /\ ports'[r].connector_ = ports[r].connector_
                            /\ ports'[r].alive = ports[r].alive
      /\ ports' \in [Objects -> MessagePort]
  BY <1>1, <1>2 DEF IInv, Types, PortsOK, ObjectOK
<1>4. UNCHANGED <<reachable, created, open, queue, away, calls, crashed>>
  BY DEF Start
<1>5. \A e : (Held(e)' <=> Held(e)) /\ (Sent(e)' <=> Sent(e))
  BY <1>3, <1>4 DEF Held, Sent, Carries
<1>6. Owned'
  BY <1>3, <1>4, <1>5 DEF IInv, Owned, OneHolder, OneMessage, OnePlace, OpenIsPut
<1> QED
  BY <1>3, <1>4, <1>6 DEF IInv, Types, PortsOK

LEMMA CloseStep ==
    ASSUME IInv, NEW p \in Objects, Close(p), ports[p].alive
    PROVE  IInv'
<1> DEFINE c == Unpin(EmitClose(OtherConnector(ports[p])))
           C == {ports[p].connector_}
<1>1. ports' = [ports EXCEPT ![p] = c]
  BY DEF Close
<1>2. ObjectOK(c) /\ c.connector_ \notin Ends /\ c.alive
  BY CloseIsOK DEF Close, IInv, PortsOK
<1> HIDE DEF c
<1>3. /\ ports'[p] = c /\ \A r \in Objects \ {p} : ports'[r] = ports[r]
      /\ ports' \in [Objects -> MessagePort]
  BY <1>1, <1>2 DEF IInv, Types, ObjectOK
<1>4. CloseHandles(C) /\ UNCHANGED <<reachable, created, away, calls, crashed>>
  BY DEF Close
<1>5. AreHeld(C) /\ \A e \in C : e \notin away
  BY DEF AreHeld, Held, IInv, Types, Owned, OnePlace
<1>6. LetsGo(C)
  BY <1>2, <1>3, <1>4, <1>5 DEF LetsGo, IInv, Owned, OneHolder
<1>7. Types' /\ Owned'
  BY <1>3, <1>4, <1>5, <1>6, GiveKeepsTypes DEF IInv
<1>8. PortsOK'
  BY <1>2, <1>3, <1>4 DEF IInv, PortsOK
<1> QED
  BY <1>7, <1>8 DEF IInv

LEMMA CollectStep ==
    ASSUME IInv, NEW p \in Objects, Collect(p)
    PROVE  IInv'
<1> DEFINE C == {ports[p].connector_}
<1>1. ports' = [ports EXCEPT ![p] = New]
  BY DEF Collect
<1>2. /\ ports'[p] = New /\ \A r \in Objects \ {p} : ports'[r] = ports[r]
      /\ ports' \in [Objects -> MessagePort]
  BY <1>1, NewIsOK DEF IInv, Types, ObjectOK
<1>3. /\ CloseHandles(C) /\ reachable' = reachable \ {p}
      /\ UNCHANGED <<created, away, calls, crashed>>
  BY DEF Collect, HandleToClose
<1>4. AreHeld(C) /\ \A e \in C : e \notin away
  BY DEF AreHeld, Held, IInv, Types, Owned, OnePlace
<1>5. LetsGo(C)
  BY <1>2, <1>3, <1>4, NewIsOK, NotEnds DEF LetsGo, IInv, Owned, OneHolder
<1>6. Types' /\ Owned'
  BY <1>2, <1>3, <1>4, <1>5, GiveKeepsTypes DEF IInv
<1>7. PortsOK'
  BY <1>2, <1>3, NewIsOK DEF IInv, PortsOK
<1> QED
  BY <1>6, <1>7 DEF IInv

LEMMA PostMessageStep ==
    ASSUME IInv, NEW p \in Objects, NEW transfer \in SUBSET Objects, PostMessage(p, transfer)
    PROVE  IInv'
<1> DEFINE one == <<[port |-> p, transfer |-> transfer]>>
<1>1. one \in Seq(Call) /\ calls \in Seq(Call)
  BY DEF Call, IInv, PortsOK
<1>2. calls' = one \o calls
  BY DEF PostMessage
<1>3. calls' \in Seq(Call)
  BY <1>1, <1>2, ConcatProperties
<1>4. UNCHANGED <<ports, reachable, created, open, queue, away, crashed>>
  BY DEF PostMessage
<1>5. Types' /\ Owned'
  BY <1>4 DEF IInv, Types, Owned, OneHolder, OneMessage, OnePlace, OpenIsPut,
              Held, Sent, Carries
<1> QED
  BY <1>3, <1>4, <1>5 DEF IInv, PortsOK

(* What the objects are after a transfer.                                  *)
LEMMA DisentangledPorts ==
    ASSUME IInv, NEW transfer \in SUBSET Objects, ports' = Disentangled(transfer)
    PROVE  /\ \A p \in Objects : ObjectOK(ports'[p]) /\ ports'[p].alive = ports[p].alive
           /\ \A p \in transfer : ports'[p].connector_ = NoEnd
           /\ \A p \in Objects \ transfer : ports'[p] = ports[p]
           /\ ports' \in [Objects -> MessagePort]
<1>1. \A p \in Objects : ports'[p] = IF p \in transfer THEN Disentangle(ports[p]) ELSE ports[p]
  BY DEF Disentangled
<1>2. \A p \in Objects : ObjectOK(ports[p])
  BY DEF IInv, PortsOK
<1>3. \A p \in Objects : /\ ObjectOK(Disentangle(ports[p]))
                         /\ Disentangle(ports[p]).connector_ = NoEnd
                         /\ Disentangle(ports[p]).alive = ports[p].alive
  BY <1>2, DisentangleIsOK
<1>4. \A p \in Objects : ObjectOK(ports'[p])
  BY <1>1, <1>2, <1>3
<1>5. \A p \in Objects : ports'[p] \in MessagePort
  BY <1>4 DEF ObjectOK
<1>6. ports' \in [Objects -> MessagePort]
  BY <1>5 DEF Disentangled
<1> QED
  BY <1>1, <1>3, <1>4, <1>6

LEMMA PostMessageSerializedStep ==
    ASSUME IInv, PostMessageSerialized
    PROVE  IInv'
<1> DEFINE p == Head(calls).port
           transfer == Head(calls).transfer
           C == HandlesOf(transfer)
<1>1. /\ p \in Objects /\ transfer \in SUBSET Objects
      /\ calls' \in Seq(Call)
  <2>1. Head(calls) \in Call /\ Tail(calls) \in Seq(Call)
    BY HeadTailProperties DEF PostMessageSerialized, IInv, PortsOK
  <2> QED
    BY <2>1 DEF PostMessageSerialized, Call
<1>2. UNCHANGED <<reachable, created, away>>
  BY DEF PostMessageSerialized
<1>3. CASE UNCHANGED <<ports, open, queue, crashed>>
  <2>1. Types' /\ Owned'
    BY <1>2, <1>3 DEF IInv, Types, Owned, OneHolder, OneMessage, OnePlace, OpenIsPut,
                      Held, Sent, Carries
  <2> QED
    BY <1>1, <1>2, <1>3, <2>1 DEF IInv, PortsOK
<1>4. CASE /\ StillEntangled(ports[p]) /\ CanTransfer(transfer, p)
           /\ ports' = Disentangled(transfer)
           /\ Send(ports[p].connector_, C)
           /\ UNCHANGED crashed
  <2> HIDE DEF p, transfer
  <2>1. ports[p].connector_ \in Ends \cup {Unused}
    BY <1>1, <1>4 DEF StillEntangled, IsEntangled, IsNeutered, IInv, Types, MessagePort
  <2>2. C \in Messages
    BY <1>1, <1>4 DEF CanTransfer, IsNeutered, HandlesOf, Messages, IInv, Types, MessagePort
  <2>3. AreHeld(C)
    BY <1>1 DEF AreHeld, HandlesOf, Held
  <2>4. away' = away \ C
    BY <1>2, <2>3, <1>1 DEF HandlesOf, Held, IInv, Types, Owned, OnePlace
  <2>5. /\ \A r \in Objects : ObjectOK(ports'[r]) /\ ports'[r].alive = ports[r].alive
        /\ \A r \in transfer : ports'[r].connector_ = NoEnd
        /\ \A r \in Objects \ transfer : ports'[r] = ports[r]
        /\ ports' \in [Objects -> MessagePort]
    BY <1>1, <1>4, DisentangledPorts
  <2>6. \A r \in Objects : ports[r].connector_ \in C /\ ports[r].connector_ \in Ends => r \in transfer
    BY <1>1 DEF HandlesOf, IInv, Owned, OneHolder
  <2>7. \A r \in transfer : ports[r].connector_ \in C
    BY DEF HandlesOf
  <2>8. LetsGo(C)
    BY <2>4, <2>5, <2>6, <2>7, NotEnds DEF LetsGo
  <2>9. Types' /\ Owned'
    BY <1>2, <1>4, <2>1, <2>2, <2>3, <2>5, <2>8, GiveKeepsTypes DEF IInv
  <2> QED
    BY <1>1, <1>2, <1>4, <2>5, <2>9 DEF IInv, PortsOK
<1> QED
  BY <1>3, <1>4 DEF PostMessageSerialized, StillEntangled, IsEntangled

LEMMA TransferToPageStep ==
    ASSUME IInv, NEW transfer \in SUBSET Objects, TransferToPage(transfer)
    PROVE  IInv'
<1> DEFINE C == HandlesOf(transfer)
<1>1. /\ ports' = Disentangled(transfer)
      /\ away' = away \cup (C \cap open)
      /\ UNCHANGED <<reachable, created, open, queue, calls, crashed>>
  BY DEF TransferToPage
<1>2. /\ \A r \in Objects : ObjectOK(ports'[r]) /\ ports'[r].alive = ports[r].alive
      /\ \A r \in transfer : ports'[r].connector_ = NoEnd
      /\ \A r \in Objects \ transfer : ports'[r] = ports[r]
      /\ ports' \in [Objects -> MessagePort]
  BY <1>1, DisentangledPorts
<1>3. \A e \in Ends : e \in C => e \in open /\ Held(e)
  BY DEF HandlesOf, Held, IInv, Owned, OpenIsPut
<1>4. \A r \in Objects : ports[r].connector_ \in C /\ ports[r].connector_ \in Ends => r \in transfer
  BY DEF HandlesOf, IInv, Owned, OneHolder
<1>5. \A r \in transfer : ports[r].connector_ \in C
  BY DEF HandlesOf
<1> HIDE DEF C
<1>6. \A e \in Ends : Held(e)' <=> Held(e) /\ e \notin C
  <2> TAKE e \in Ends
  <2>1. Held(e)' => Held(e) /\ e \notin C
    BY <1>2, <1>4, NotEnds DEF Held
  <2>2. Held(e) /\ e \notin C => Held(e)'
    BY <1>2, <1>5 DEF Held
  <2> QED
    BY <2>1, <2>2
<1>7. \A e \in Ends : e \in away' <=> e \in away \/ e \in C
  BY <1>1, <1>3
<1>8. \A e \in Ends : Sent(e)' <=> Sent(e)
  BY <1>1 DEF Sent, Carries
<1>9. OneHolder'
  BY <1>2, NotEnds DEF IInv, Owned, OneHolder
<1>10. OneMessage'
  BY <1>1 DEF IInv, Owned, OneMessage
<1>11. OnePlace'
  BY <1>3, <1>6, <1>7, <1>8 DEF IInv, Owned, OnePlace
<1>12. OpenIsPut'
  BY <1>1, <1>3, <1>6, <1>7, <1>8 DEF IInv, Owned, OpenIsPut
<1>13. Types'
  <2>1. away' \subseteq Ends
    BY <1>1 DEF IInv, Types, Ends
  <2> QED
    BY <1>1, <1>2, <2>1 DEF IInv, Types
<1> QED
  BY <1>1, <1>2, <1>9, <1>10, <1>11, <1>12, <1>13 DEF IInv, Owned, PortsOK

LEMMA DropStep ==
    ASSUME IInv, NEW p \in Objects, Drop(p)
    PROVE  IInv'
<1>1. /\ reachable' \subseteq reachable
      /\ UNCHANGED <<ports, created, open, queue, away, calls, crashed>>
  BY DEF Drop
<1>2. Types' /\ Owned'
  BY <1>1 DEF IInv, Types, Owned, OneHolder, OneMessage, OnePlace, OpenIsPut,
              Held, Sent, Carries
<1> QED
  BY <1>1, <1>2 DEF IInv, PortsOK

LEMMA AcceptStep ==
    ASSUME IInv, NEW p \in Objects, Accept(p)
    PROVE  IInv'
<1> DEFINE e == ports[p].connector_
           h == Head(queue[e])
           N == h \cap Ends
<1>1. /\ e \in Ends /\ queue[e] # <<>>
      /\ ports[p].alive /\ ports[p].started_
  BY DEF Accept, Dispatches, IsNeutered, IInv, Types, MessagePort, PortsOK, ObjectOK
<1>0. PICK objects \in SUBSET Free : \E f \in EntanglePorts(objects, h) :
        /\ ports' = [o \in Objects |-> IF o \in objects THEN Created(f[o])
                                       ELSE IF o = p THEN EmitMessage(ports[p])
                                       ELSE ports[o]]
        /\ reachable' = reachable \cup objects
  BY DEF Accept
<1>2. PICK f \in EntanglePorts(objects, h) :
        /\ ports' = [o \in Objects |-> IF o \in objects THEN Created(f[o])
                                       ELSE IF o = p THEN EmitMessage(ports[p])
                                       ELSE ports[o]]
        /\ reachable' = reachable \cup objects
  BY <1>0
<1>3. /\ queue' = [queue EXCEPT ![e] = Tail(@)]
      /\ UNCHANGED <<created, open, away, calls, crashed>>
  BY DEF Accept
<1>4. /\ queue' \in [Ends -> Seq(Messages)]
      /\ h \in Messages
      /\ OneMessage'
      /\ \A x \in Ends : Sent(x)' <=> Sent(x) /\ x \notin h
      /\ \A x \in h \cap Ends : Sent(x)
  BY <1>1, <1>3, TailKeepsMessages DEF IInv
<1> HIDE DEF h
<1>5. /\ f \in [objects -> h]
      /\ \A o, r \in objects : f[o] = f[r] => o = r
      /\ \A x \in h : \E o \in objects : f[o] = x
  BY DEF EntanglePorts, Bijection, Injection, Surjection, IsInjective
<1>6. \A o \in objects : f[o] \in Ends \cup {Unused}
  BY <1>4, <1>5 DEF Messages
<1>7. objects \subseteq Objects /\ \A o \in objects : ~ports[o].alive /\ ports[o].connector_ = NoEnd
  BY DEF Free, IInv, PortsOK, ObjectOK, IsNeutered
<1>8. EmitMessage(ports[p]) = ports[p]
  BY <1>1 DEF EmitMessage
<1>9. \A o \in Objects : ports'[o] = IF o \in objects THEN Created(f[o]) ELSE ports[o]
  BY <1>2, <1>8
<1>10. \A o \in objects : /\ ObjectOK(ports'[o])
                          /\ ports'[o].connector_ = f[o]
                          /\ ports'[o].alive
  BY <1>6, <1>7, <1>9, CreatedIsOK
<1>11. \A o \in Objects \ objects : ports'[o] = ports[o]
  BY <1>9
<1>12. \A x \in N : ~Held(x) /\ Sent(x) /\ x \notin away
  BY <1>4 DEF IInv, Owned, OnePlace
<1>13. Takes(N)
  <2>1. \A o \in Objects : IF ports[o].connector_ \in Ends
                             THEN ports'[o].connector_ = ports[o].connector_
                             ELSE ports'[o].connector_ \notin Ends \/ ports'[o].connector_ \in N
    BY <1>5, <1>7, <1>10, <1>11, NotEnds
  <2>2. \A x \in N : \E o \in Objects : ports'[o].connector_ = x
    BY <1>5, <1>7, <1>10
  <2>3. \A o \in Objects : ports'[o].connector_ \in N => o \in objects
    BY <1>11, <1>12 DEF Held
  <2>4. \A o, r \in Objects :
          ports'[o].connector_ \in N /\ ports'[o].connector_ = ports'[r].connector_ => o = r
    BY <2>3, <1>5, <1>10
  <2> QED
    BY <2>1, <2>2, <2>4, <1>12 DEF Takes
<1>14. OneHolder' /\ \A x \in Ends : Held(x)' <=> Held(x) \/ x \in N
  BY <1>13, TakenOnce DEF IInv
<1>15. OnePlace'
  BY <1>3, <1>4, <1>12, <1>14 DEF IInv, Owned, OnePlace
<1>16. OpenIsPut'
  BY <1>3, <1>4, <1>12, <1>14 DEF IInv, Owned, OpenIsPut
<1>17. \A o \in Objects : ObjectOK(ports'[o])
  BY <1>10, <1>11 DEF IInv, PortsOK
<1>18. ports' \in [Objects -> MessagePort]
  BY <1>2, <1>17 DEF ObjectOK
<1>19. PortsOK'
  BY <1>2, <1>3, <1>7, <1>10, <1>11, <1>17 DEF IInv, PortsOK
<1>20. Types'
  BY <1>3, <1>4, <1>18 DEF IInv, Types
<1> QED
  BY <1>4, <1>14, <1>15, <1>16, <1>19, <1>20 DEF IInv, Owned

LEMMA PagePostsStep ==
    ASSUME IInv, NEW e \in away, NEW ends \in SUBSET away, PagePosts(e, ends)
    PROVE  IInv'
<1>1. /\ Send(e, ends) /\ away' = away \ ends
      /\ UNCHANGED <<ports, reachable, created, calls, crashed>>
  BY DEF PagePosts
<1>2. e \in Ends /\ ends \in Messages /\ AreHeld(ends)
  BY DEF IInv, Types, Messages, AreHeld
<1>3. LetsGo(ends)
  BY <1>1 DEF LetsGo, Held, IInv, Types, Owned, OnePlace
<1>4. Types' /\ Owned'
  BY <1>1, <1>2, <1>3, GiveKeepsTypes DEF IInv, Types
<1> QED
  BY <1>1, <1>4 DEF IInv, PortsOK

LEMMA PageClosesStep ==
    ASSUME IInv, NEW e \in away, PageCloses(e)
    PROVE  IInv'
<1>1. /\ CloseHandles({e}) /\ away' = away \ {e}
      /\ UNCHANGED <<ports, reachable, created, calls, crashed>>
  BY DEF PageCloses
<1>2. e \in Ends /\ AreHeld({e})
  BY DEF IInv, Types, AreHeld
<1>3. LetsGo({e})
  BY <1>1 DEF LetsGo, Held, IInv, Types, Owned, OnePlace
<1>4. Types' /\ Owned'
  BY <1>1, <1>2, <1>3, GiveKeepsTypes DEF IInv, Types
<1> QED
  BY <1>1, <1>4 DEF IInv, PortsOK

LEMMA PageReturnsStep ==
    ASSUME IInv, NEW e \in away, PageReturns(e)
    PROVE  IInv'
<1>1. PICK p \in Free : /\ ports' = [ports EXCEPT ![p] = Created(e)]
                        /\ reachable' = reachable \cup {p}
  BY DEF PageReturns
<1>2. away' = away \ {e} /\ UNCHANGED <<created, open, queue, calls, crashed>>
  BY DEF PageReturns
<1>3. p \in Objects /\ ports[p].connector_ = NoEnd
  BY DEF Free, IInv, PortsOK, ObjectOK, IsNeutered
<1>4. e \in Ends /\ ~Held(e) /\ ~Sent(e)
  BY DEF IInv, Types, Owned, OnePlace
<1>5. ObjectOK(Created(e)) /\ Created(e).connector_ = e /\ Created(e).alive
  BY <1>4, CreatedIsOK
<1>6. /\ ports'[p] = Created(e)
      /\ \A r \in Objects \ {p} : ports'[r] = ports[r]
      /\ ports' \in [Objects -> MessagePort]
  BY <1>1, <1>3, <1>5 DEF IInv, Types, ObjectOK
<1>7. Takes({e})
  BY <1>3, <1>4, <1>5, <1>6, NotEnds DEF Takes, Held
<1>8. OneHolder' /\ \A x \in Ends : Held(x)' <=> Held(x) \/ x = e
  BY <1>4, <1>7, TakenOnce DEF IInv
<1>9. \A x \in Ends : Sent(x)' <=> Sent(x)
  BY <1>2 DEF Sent, Carries
<1>10. Owned'
  <2>1. OneMessage'
    BY <1>2 DEF IInv, Owned, OneMessage
  <2>2. OnePlace'
    BY <1>2, <1>4, <1>8, <1>9 DEF IInv, Owned, OnePlace
  <2>3. OpenIsPut'
    BY <1>2, <1>8, <1>9 DEF IInv, Owned, OpenIsPut
  <2> QED
    BY <1>8, <2>1, <2>2, <2>3 DEF Owned
<1>11. Types'
  BY <1>2, <1>6 DEF IInv, Types
<1>12. PortsOK'
  BY <1>1, <1>2, <1>3, <1>5, <1>6 DEF IInv, PortsOK
<1> QED
  BY <1>10, <1>11, <1>12 DEF IInv

-----------------------------------------------------------------------------
LEMMA StepIInv == IInv /\ [Next]_vars => IInv'
<1> SUFFICES ASSUME IInv, [Next]_vars PROVE IInv'
  OBVIOUS
<1>1. ASSUME NEW c \in Channels, MessageChannelMainNew(c) PROVE IInv'
  BY <1>1, MessageChannelMainNewStep
<1>2. ASSUME NEW p \in Objects, Start(p) PROVE IInv'
  BY <1>2, StartStep
<1>3. ASSUME NEW p \in Objects, CloseByJS(p) PROVE IInv'
  BY <1>3, CloseStep DEF CloseByJS, JSRuns, IInv, PortsOK
<1>4. ASSUME NEW p \in Objects, Drop(p) PROVE IInv'
  BY <1>4, DropStep
<1>5. ASSUME NEW p \in Objects, NEW transfer \in SUBSET Objects, PostMessage(p, transfer)
      PROVE  IInv'
  BY <1>5, PostMessageStep
<1>6. ASSUME NEW transfer \in SUBSET Objects, TransferToPage(transfer) PROVE IInv'
  BY <1>6, TransferToPageStep
<1>7. ASSUME PostMessageSerialized PROVE IInv'
  BY <1>7, PostMessageSerializedStep
<1>8. ASSUME NEW p \in Objects, Accept(p) PROVE IInv'
  BY <1>8, AcceptStep
<1>9. ASSUME NEW p \in Objects, ConnectionError(p) PROVE IInv'
  BY <1>9, CloseStep DEF ConnectionError, Dispatches
<1>10. ASSUME NEW p \in Objects, Collect(p) PROVE IInv'
  BY <1>10, CollectStep
<1>11. ASSUME NEW e \in away, NEW ends \in SUBSET away, PagePosts(e, ends) PROVE IInv'
  BY <1>11, PagePostsStep
<1>12. ASSUME NEW e \in away, PageCloses(e) PROVE IInv'
  BY <1>12, PageClosesStep
<1>13. ASSUME NEW e \in away, PageReturns(e) PROVE IInv'
  BY <1>13, PageReturnsStep
<1>14. CASE UNCHANGED vars
  BY <1>14 DEF vars, IInv, Types, Owned, PortsOK, OneHolder, OneMessage, OnePlace, OpenIsPut,
               Held, Sent, Carries
<1> QED
  BY <1>1, <1>2, <1>3, <1>4, <1>5, <1>6, <1>7, <1>8, <1>9, <1>10, <1>11, <1>12, <1>13, <1>14
     DEF Next, JavaScript, Connectors, Pages, Batches

LEMMA Invariance == Spec => []IInv
<1>1. IInv /\ [Next]_vars => IInv'
  BY StepIInv
<1> QED
  BY InitIInv, <1>1, PTL DEF Spec

(* Every variable has its type, whatever the bounds.                       *)
THEOREM TypeCorrect == Spec => []TypeOK
<1>1. IInv => TypeOK
  <2> SUFFICES ASSUME IInv PROVE TypeOK
    OBVIOUS
  <2>1. away \subseteq open
    BY DEF IInv, Types, Owned, OpenIsPut
  <2>2. calls \in Seq([port : Objects, transfer : SUBSET Objects])
    BY DEF IInv, PortsOK, Call
  <2>3. crashed \in BOOLEAN
    BY DEF IInv, PortsOK
  <2>4. /\ \A p \in Objects : ports[p].closed_ => ports[p].connector_ \notin Ends
        /\ reachable \subseteq {p \in Objects : ports[p].alive}
    BY DEF IInv, PortsOK, ObjectOK
  <2>5. /\ ports \in [Objects -> MessagePort]
        /\ created \subseteq Channels
        /\ open \subseteq created \X {1, 2}
        /\ queue \in [Ends -> Seq(SUBSET (Ends \cup {Unused}))]
    BY DEF IInv, Types, Messages
  <2> QED
    BY <2>1, <2>2, <2>3, <2>4, <2>5 DEF TypeOK
<1> QED
  BY Invariance, <1>1, PTL

(* The handle of an end that is open is in one place, and that of an end   *)
(* that is closed in none: no transfer, close or collection, in whatever   *)
(* order and however messages are nested, loses or doubles a handle.       *)
THEOREM HandlesOwned == Spec => []HandleHasOneOwner
<1>1. IInv => HandleHasOneOwner
  <2> SUFFICES ASSUME IInv, NEW e \in Ends
               PROVE  IF e \in open THEN \E owner \in Owners(e) : Owners(e) = {owner}
                                    ELSE Owners(e) = {}
    BY DEF HandleHasOneOwner
  <2>1. /\ Held(e) <=> Holders(e) # {}
        /\ \A p, r \in Holders(e) : p = r
    BY DEF Held, Holders, IInv, Owned, OneHolder
  <2>2. \A at \in Carriers(e) : /\ at[1] \in Ends /\ at[2] \in DOMAIN queue[at[1]]
                                /\ at = <<at[1], at[2]>>
                                /\ e \in queue[at[1]][at[2]]
    BY DEF Carriers
  <2>3. Sent(e) <=> Carriers(e) # {}
    <3>1. Carriers(e) # {} => Sent(e)
      BY <2>2 DEF Sent, Carries
    <3>2. ASSUME NEW x \in Ends, NEW i \in DOMAIN queue[x], e \in queue[x][i]
          PROVE  Carriers(e) # {}
      <4>1. <<x, i>> \in Carriers(e)
        BY <3>2 DEF Carriers
      <4> QED
        BY <4>1
    <3> QED
      BY <3>1, <3>2 DEF Sent, Carries
  <2>4. \A s, t \in Carriers(e) : s = t
    <3> TAKE s, t \in Carriers(e)
    <3>1. s[1] = t[1] /\ s[2] = t[2]
      BY <2>2 DEF IInv, Owned, OneMessage
    <3> QED
      BY <2>2, <3>1
  <2>5. e \in open <=> Held(e) \/ Sent(e) \/ e \in away
    BY DEF IInv, Owned, OpenIsPut
  <2>6. ~(Held(e) /\ Sent(e)) /\ (e \in away => ~Held(e) /\ ~Sent(e))
    BY DEF IInv, Owned, OnePlace
  <2>7. CASE Held(e)
    <3>1. PICK p : Holders(e) = {p}
      BY <2>1, <2>7
    <3>2. Owners(e) = {<<"object", p>>}
      BY <3>1, <2>3, <2>6, <2>7 DEF Owners
    <3> QED
      BY <3>2, <2>5, <2>7
  <2>8. CASE Sent(e)
    <3>1. PICK at : Carriers(e) = {at}
      BY <2>3, <2>4, <2>8
    <3>2. Owners(e) = {<<"message", at>>}
      BY <3>1, <2>1, <2>6, <2>8 DEF Owners
    <3> QED
      BY <3>2, <2>5, <2>8
  <2>9. CASE e \in away
    <3>1. Owners(e) = {<<"page">>}
      BY <2>1, <2>3, <2>6, <2>9 DEF Owners
    <3> QED
      BY <3>1, <2>5, <2>9
  <2>10. CASE ~Held(e) /\ ~Sent(e) /\ e \notin away
    <3>1. Owners(e) = {}
      BY <2>1, <2>3, <2>10 DEF Owners
    <3> QED
      BY <3>1, <2>5, <2>10
  <2> QED
    BY <2>7, <2>8, <2>9, <2>10
<1> QED
  BY Invariance, <1>1, PTL

(* An object is kept from the collector exactly while it is started and    *)
(* entangled.                                                              *)
THEOREM KeptAsLongAsStarted == Spec => []KeptWhileStarted
<1>1. IInv => KeptWhileStarted
  BY DEF IInv, PortsOK, ObjectOK, KeptWhileStarted
<1> QED
  BY Invariance, <1>1, PTL

(* JavaScript that runs while a message is serialized cannot make the port *)
(* send with a connector that is gone.                                     *)
THEOREM ConnectorIsThere == Spec => []NoNullConnector
<1>1. IInv => NoNullConnector
  BY DEF IInv, PortsOK, NoNullConnector
<1> QED
  BY Invariance, <1>1, PTL

(* No object hears a message before it is started, or 'close' twice.       *)
THEOREM EventsAreRight == Spec => []EventsOfPort
<1>1. IInv => EventsOfPort
  BY DEF IInv, PortsOK, ObjectOK, EventsOfPort
<1> QED
  BY Invariance, <1>1, PTL

=============================================================================
