------------------------------ MODULE MessagePorts ------------------------------
(***************************************************************************)
(* MessagePortMain: objects that JavaScript in the browser process sends   *)
(* messages with, starts, closes and transfers, in a message over another  *)
(* port or to a page.                                                      *)
(*                                                                         *)
(* A channel is a mojo pipe with two ends.  A handle of an end is in the   *)
(* connector of an object, in a message that waits at some end, or away,   *)
(* in a page; where it goes its messages go.  The garbage collector takes  *)
(* an object that JavaScript has dropped, unless the object keeps itself.  *)
(*                                                                         *)
(* JavaScript runs in tasks and in getters while a message is serialized:  *)
(* calls holds the calls of postMessage() that wait for it.  There it may  *)
(* do to the ports of the call what it likes; what else it does could as   *)
(* well be done before.  Mojo, pages and the garbage collector are         *)
(* external.                                                               *)
(***************************************************************************)
EXTENDS Naturals, Sequences, FiniteSets, Functions

CONSTANTS
    Objects,  \* bound: the objects there are at a time
    Channels, \* bound: the channels that are created
    MaxQueue, \* bound: messages that wait at an end
    MaxBatch, \* bound: ports that are transferred at a time
    MaxCalls  \* bound: calls in progress

ASSUME QueueAssumption == MaxQueue \in Nat
ASSUME BatchAssumption == MaxBatch \in Nat
ASSUME CallsAssumption == MaxCalls \in Nat

VARIABLES
    ports,     \* the objects
    reachable, \* those JavaScript has
    created,   \* the channels that exist
    open,      \* the ends whose handle is not closed
    queue,     \* at each end: messages, each the set of ends it transfers
    away,      \* the ends that are in pages
    calls,     \* postMessage() calls in progress, innermost first
    crashed    \* a connector that is not there was used

vars == <<ports, reachable, created, open, queue, away, calls, crashed>>

Ends    == Channels \X {1, 2}
Peer(e) == <<e[1], 3 - e[2]>>

(* The pipe that close() leaves an object with has no other end.           *)
NoEnd  == <<"none", 0>>
Unused == <<"unused", 0>>

MessagePort == [alive      : BOOLEAN,
                connector_ : Ends \cup {NoEnd, Unused},
                paused     : BOOLEAN, \* of the connector
                started_   : BOOLEAN,
                closed_    : BOOLEAN,
                keep_alive_: BOOLEAN,
                wrong      : SUBSET {"early message", "close again"}]
                              \* history: events that should not have come

New == [alive |-> FALSE, connector_ |-> NoEnd, paused |-> FALSE, started_ |-> FALSE,
        closed_ |-> FALSE, keep_alive_ |-> FALSE, wrong |-> {}]

(* Types, and: an object that is closed has no end of a channel.           *)
TypeOK ==
    /\ ports \in [Objects -> MessagePort]
    /\ \A p \in Objects : ports[p].closed_ => ports[p].connector_ \notin Ends
    /\ reachable \subseteq {p \in Objects : ports[p].alive}
    /\ created \subseteq Channels
    /\ open \subseteq created \X {1, 2}
    /\ queue \in [Ends -> Seq(SUBSET (Ends \cup {Unused}))]
    /\ away \subseteq open
    /\ calls \in Seq([port : Objects, transfer : SUBSET Objects])
    /\ crashed \in BOOLEAN

Init ==
    /\ ports = [p \in Objects |-> New]
    /\ reachable = {}
    /\ created = {}
    /\ open = {}
    /\ queue = [e \in Ends |-> <<>>]
    /\ away = {}
    /\ calls = <<>>
    /\ crashed = FALSE

-----------------------------------------------------------------------------
Free          == {p \in Objects : ~ports[p].alive}
IsNeutered(o) == o.connector_ = NoEnd
IsEntangled(o) == ~o.closed_ /\ ~IsNeutered(o)

HasPendingActivity(o) == o.started_ /\ IsEntangled(o)

(* Fault: an object that was pinned once stays so.                         *)
StayPinned(o) == o

Unpin(o) == [o EXCEPT !.keep_alive_ = @ /\ HasPendingActivity(o)]

Pin(o) == [o EXCEPT !.keep_alive_ = @ \/ HasPendingActivity(o)]

(* Fault: the connector of a new object runs at once.                      *)
EntangleRunning(o, e) == Pin([o EXCEPT !.connector_ = e, !.paused = FALSE])

Entangle(o, e) == Pin([o EXCEPT !.connector_ = e, !.paused = TRUE])

Disentangle(o) == Unpin([o EXCEPT !.connector_ = NoEnd, !.paused = FALSE])

Created(e) == Entangle([New EXCEPT !.alive = TRUE], e)

(* An object for each of the ends.                                         *)
EntanglePorts(objects, ends) == Bijection(objects, ends)

-----------------------------------------------------------------------------
(* The handles.  With an end are closed those that its messages transfer.  *)
Carries(x, e)  == \E i \in DOMAIN queue[x] : e \in queue[x][i]
Closed(ends)   == \A x \in ends, e \in Ends \ ends : ~Carries(x, e)
Doomed(ends)   ==
    LET all == {S \in SUBSET Ends : ends \subseteq S /\ Closed(S)}
    IN {e \in Ends : \A S \in all : e \in S}

CloseHandles(ends) ==
    LET gone == Doomed(ends \cap open) IN
    /\ open' = open \ gone
    /\ queue' = [e \in Ends |-> IF e \in gone THEN <<>> ELSE queue[e]]

(* Over a pipe whose other end is closed, or is itself sent, a message is  *)
(* dropped, with what it transfers.                                        *)
Send(e, ends) ==
    IF e # Unused /\ Peer(e) \in open \ ends
      THEN /\ queue' = [queue EXCEPT ![Peer(e)] = Append(@, ends)]
           /\ UNCHANGED open
      ELSE CloseHandles(ends)

-----------------------------------------------------------------------------
Task == calls = <<>> /\ ~crashed

Concerned(p) == \E i \in DOMAIN calls : p \in calls[i].transfer \cup {calls[i].port}
JSRuns(p)    == p \in reachable /\ ~crashed /\ (Task \/ Concerned(p))

MessageChannelMainNew(c) ==
    /\ Task
    /\ c \notin created
    /\ \E p1, p2 \in Free :
         /\ p1 # p2
         /\ ports' = [ports EXCEPT ![p1] = Created(<<c, 1>>), ![p2] = Created(<<c, 2>>)]
         /\ reachable' = reachable \cup {p1, p2}
    /\ created' = created \cup {c}
    /\ open' = open \cup {<<c, 1>>, <<c, 2>>}
    /\ UNCHANGED <<queue, away, calls, crashed>>

Start(p) ==
    /\ Task
    /\ p \in reachable
    /\ IsEntangled(ports[p])
    /\ ~ports[p].started_
    /\ ports' = [ports EXCEPT ![p] = Pin([@ EXCEPT !.started_ = TRUE, !.paused = FALSE])]
    /\ UNCHANGED <<reachable, created, open, queue, away, calls, crashed>>

EmitClose(o) ==
    IF o.closed_ THEN [o EXCEPT !.wrong = @ \cup {"close again"}]
    ELSE [o EXCEPT !.closed_ = TRUE]

OtherConnector(o) ==
    IF IsNeutered(o) THEN o ELSE Entangle(Disentangle(o), Unused)

Close(p) ==
    /\ ~ports[p].closed_
    /\ ports' = [ports EXCEPT ![p] = Unpin(EmitClose(OtherConnector(ports[p])))]
    /\ CloseHandles({ports[p].connector_})
    /\ UNCHANGED <<reachable, created, away, calls, crashed>>

CloseByJS(p) == JSRuns(p) /\ Close(p)

(* postMessage() up to the serialization, which may run JavaScript.        *)
PostMessage(p, transfer) ==
    /\ JSRuns(p)
    /\ transfer \subseteq reachable
    /\ IsEntangled(ports[p])
    /\ Len(calls) < MaxCalls
    /\ LET e == ports[p].connector_ IN
         e # Unused => Len(queue[Peer(e)]) + Len(calls) < MaxQueue
    /\ calls' = <<[port |-> p, transfer |-> transfer]>> \o calls
    /\ UNCHANGED <<ports, reachable, created, open, queue, away, crashed>>

(* Fault: what was checked before the serialization is relied on after it. *)
NotAskedAgain(o) == TRUE

StillEntangled(o) == IsEntangled(o)

(* DisentanglePorts: all of them or, when it throws, none.                 *)
CanTransfer(transfer, source) ==
    source \notin transfer /\ \A p \in transfer : ~IsNeutered(ports[p])

Disentangled(transfer) ==
    [p \in Objects |-> IF p \in transfer THEN Disentangle(ports[p]) ELSE ports[p]]

HandlesOf(transfer) == {ports[p].connector_ : p \in transfer}

PostMessageSerialized ==
    /\ calls # <<>> /\ ~crashed
    /\ calls' = Tail(calls)
    /\ LET p        == Head(calls).port
           transfer == Head(calls).transfer
       IN IF ~StillEntangled(ports[p]) \/ ~CanTransfer(transfer, p)
            THEN UNCHANGED <<ports, open, queue, crashed>>
          ELSE IF IsNeutered(ports[p])
            THEN crashed' = TRUE /\ UNCHANGED <<ports, open, queue>>
          ELSE /\ ports' = Disentangled(transfer)
               /\ Send(ports[p].connector_, HandlesOf(transfer))
               /\ UNCHANGED crashed
    /\ UNCHANGED <<reachable, created, away>>

(* contents.postMessage() and the like.                                    *)
TransferToPage(transfer) ==
    /\ transfer # {}
    /\ \A p \in transfer : JSRuns(p) /\ ~IsNeutered(ports[p])
    /\ ports' = Disentangled(transfer)
    /\ away' = away \cup (HandlesOf(transfer) \cap open)
    /\ UNCHANGED <<reachable, created, open, queue, calls, crashed>>

(* JavaScript drops an object that keeps itself.                           *)
Drop(p) ==
    /\ Task
    /\ p \in reachable
    /\ ports[p].keep_alive_
    /\ reachable' = reachable \ {p}
    /\ UNCHANGED <<ports, created, open, queue, away, calls, crashed>>

-----------------------------------------------------------------------------
(* Tasks of the connectors.                                                *)
Dispatches(p) ==
    /\ Task
    /\ ports[p].alive
    /\ ~IsNeutered(ports[p])
    /\ ~ports[p].paused

EmitMessage(o) ==
    IF o.started_ THEN o ELSE [o EXCEPT !.wrong = @ \cup {"early message"}]

Accept(p) ==
    LET e == ports[p].connector_ IN
    /\ Dispatches(p)
    /\ e # Unused
    /\ queue[e] # <<>>
    /\ \E objects \in SUBSET Free : \E f \in EntanglePorts(objects, Head(queue[e])) :
         /\ ports' = [o \in Objects |-> IF o \in objects THEN Created(f[o])
                                         ELSE IF o = p THEN EmitMessage(ports[p])
                                         ELSE ports[o]]
         /\ reachable' = reachable \cup objects
    /\ queue' = [queue EXCEPT ![e] = Tail(@)]
    /\ UNCHANGED <<created, open, away, calls, crashed>>

ConnectionError(p) ==
    LET e == ports[p].connector_ IN
    /\ Dispatches(p)
    /\ e # Unused => queue[e] = <<>> /\ Peer(e) \notin open
    /\ Close(p)

-----------------------------------------------------------------------------
(* ~MessagePort: of an object that JavaScript has dropped, now or before.  *)
(* Fault: the handle of the object is not given back.                      *)
KeepHandle(o) == {}

HandleToClose(o) == {o.connector_}

Collect(p) ==
    /\ Task
    /\ ports[p].alive
    /\ ~ports[p].keep_alive_
    /\ ports' = [ports EXCEPT ![p] = New]
    /\ CloseHandles(HandleToClose(ports[p]))
    /\ reachable' = reachable \ {p}
    /\ UNCHANGED <<created, away, calls, crashed>>

(* A page posts, closes, or sends its ends back.                           *)
PagePosts(e, ends) ==
    /\ Task
    /\ e \in away \ ends
    /\ ends \subseteq away
    /\ Len(queue[Peer(e)]) < MaxQueue
    /\ Send(e, ends)
    /\ away' = away \ ends
    /\ UNCHANGED <<ports, reachable, created, calls, crashed>>

PageCloses(e) ==
    /\ Task
    /\ e \in away
    /\ CloseHandles({e})
    /\ away' = away \ {e}
    /\ UNCHANGED <<ports, reachable, created, calls, crashed>>

PageReturns(e) ==
    /\ Task
    /\ e \in away
    /\ away' = away \ {e}
    /\ \E p \in Free :
         /\ ports' = [ports EXCEPT ![p] = Created(e)]
         /\ reachable' = reachable \cup {p}
    /\ UNCHANGED <<created, open, queue, calls, crashed>>

-----------------------------------------------------------------------------
Batches(S) == {T \in SUBSET S : Cardinality(T) <= MaxBatch}

JavaScript ==
    \/ \E c \in Channels : MessageChannelMainNew(c)
    \/ \E p \in Objects : Start(p) \/ CloseByJS(p) \/ Drop(p)
    \/ \E p \in Objects, transfer \in Batches(Objects) : PostMessage(p, transfer)
    \/ \E transfer \in Batches(Objects) : TransferToPage(transfer)
    \/ PostMessageSerialized

Connectors == \E p \in Objects : Accept(p) \/ ConnectionError(p)

Pages ==
    \/ \E e \in away, ends \in Batches(away) : PagePosts(e, ends)
    \/ \E e \in away : PageCloses(e) \/ PageReturns(e)

Next == JavaScript \/ Connectors \/ (\E p \in Objects : Collect(p)) \/ Pages

Spec == Init /\ [][Next]_vars

-----------------------------------------------------------------------------
Holders(e) == {p \in Objects : ports[p].connector_ = e}

(* The messages that have the end on board.                                *)
Carriers(e) == {at \in UNION {{x} \X DOMAIN queue[x] : x \in Ends} :
                  e \in queue[at[1]][at[2]]}

Owners(e) == {<<"object", p>> : p \in Holders(e)}
               \cup {<<"message", at>> : at \in Carriers(e)}
               \cup (IF e \in away THEN {<<"page">>} ELSE {})

(* The handle of an end is in one place until it is closed: no transfer,   *)
(* close or garbage collection loses one, or gives it to two objects.      *)
(* (Entangle, Disentangle, ~MessagePort)                                   *)
HandleHasOneOwner ==
    \A e \in Ends : IF e \in open THEN \E owner \in Owners(e) : Owners(e) = {owner}
                                 ELSE Owners(e) = {}

(* A port that is started and entangled stays although JavaScript has      *)
(* dropped it, and one that is closed or transferred is not kept.          *)
(* (HasPendingActivity, Pin, Unpin)                                        *)
KeptWhileStarted ==
    \A p \in Objects : ports[p].keep_alive_ = HasPendingActivity(ports[p])

(* No message is sent with a connector that JavaScript took away while the *)
(* message was serialized.  (PostMessage checks again)                     *)
NoNullConnector == ~crashed

(* An object hears no message before it is started, where ever its end was *)
(* before, and 'close' once, whether JavaScript closes it, its pipe breaks *)
(* or both.  (Start, Entangle, Close)                                      *)
EventsOfPort ==
    \A p \in Objects : ports[p].wrong = {}
=============================================================================
