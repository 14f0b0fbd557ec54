-------------------------- MODULE NodeStreamLoader --------------------------
(***************************************************************************)
(* A response whose body is a stream of Node.js: NodeStreamLoader pulls    *)
(* the chunks out of the stream and pushes them into a pipe to the client. *)
(*                                                                         *)
(* The class deletes itself when it has told the client how the request    *)
(* ended.  Subscribing to the stream and reading from it run JavaScript,   *)
(* in which the stream may emit any of its events: the handlers then run   *)
(* inside On() or inside the read() of ReadMore().  A write goes on by     *)
(* itself and its end is a task.                                           *)
(*                                                                         *)
(* The stream and the client are external.  Chunks are counted, as each is *)
(* as good as another: read() takes all that is buffered.                  *)
(***************************************************************************)
EXTENDS Naturals, Sequences

CONSTANT MaxChunks   \* bound: how many chunks the stream pushes

ASSUME MaxChunksAssumption == MaxChunks \in Nat \ {0}

VARIABLES
    on,        \* the call of On() that Start() is at: 1 "end", 2 "error",
               \* 3 "readable"; 0 before Start(), 4 after it
    readable_, is_reading_, is_writing_, has_read_waiting_,
    pending_result_, \* result_, or "none" while there is no pending_result_
    chunk,     \* what the read in progress will return, or what is being written
    stream,    \* "ended" had its last push, "ending" and "failing" owe an event
    pushed,    \* history: how many chunks the stream was given
    buffered,  \* those nobody has read
    announce,  \* the stream owes a "readable"
    written,   \* how many chunks are in the pipe to the client
    body,      \* the client's end of that pipe
    client,    \* the other end of url_loader_: "gone" until that is noticed
    told       \* what client_ was told; after the first the loader is deleted

flags  == <<readable_, is_reading_, is_writing_, has_read_waiting_, chunk>>
source == <<stream, pushed, buffered, announce>>
responseVars == <<on, flags, pending_result_, source, written, body, client, told>>

Results == {"OK", "FAILED", "INSUFFICIENT_RESOURCES"}

(* The weak pointers are valid.                                            *)
Alive == told = <<>>

(* No JavaScript is on the stack, and the message loop may run a task.     *)
Idle == on \in {0, 4} /\ ~is_reading_

ResponseTypeOK ==
    /\ on \in 0..4
    /\ {readable_, is_reading_, is_writing_, has_read_waiting_, announce} \subseteq BOOLEAN
    /\ pending_result_ \in Results \cup {"none"}
    /\ stream \in {"open", "ended", "ending", "end", "failing", "error", "closed"}
    /\ {chunk, pushed, buffered, written} \subseteq 0..MaxChunks
    /\ body \in {"open", "dropped"}
    /\ client \in {"there", "gone", "noticed"}
    /\ told \in Seq(Results)

(* A stream may have chunks, and have had its last push, before it is      *)
(* given to the protocol handler.                                          *)
ResponseInit ==
    /\ on = 0
    /\ readable_ = FALSE
    /\ is_reading_ = FALSE
    /\ is_writing_ = FALSE
    /\ has_read_waiting_ = FALSE
    /\ pending_result_ = "none"
    /\ chunk = 0
    /\ stream \in {"open", "ended"}
    /\ pushed \in 0..MaxChunks
    /\ buffered = pushed
    /\ announce = (stream = "ended" \/ buffered > 0)
    /\ written = 0
    /\ body = "open"
    /\ client = "there"
    /\ told = <<>>

-----------------------------------------------------------------------------
(* The end of the request.                                                 *)

(* The client is told and the loader deletes itself, whose destructor      *)
(* destroys a stream that has not said "end" or "error".  The stream is in *)
(* state s.                                                                *)
Finish(result, s) ==
    /\ told' = Append(told, result)
    /\ stream' = IF s \in {"end", "error"} THEN s ELSE "closed"
    /\ UNCHANGED pending_result_

(* Fault: NotifyComplete() waits for a read, but not for a write.          *)
CompleteWhileWriting(result, s, reading, writing) ==
    IF reading
      THEN /\ pending_result_' = result
           /\ stream' = s
           /\ UNCHANGED told
      ELSE Finish(result, s)

NotifyComplete(result, s, reading, writing) ==
    IF reading \/ writing
      THEN /\ pending_result_' = result
           /\ stream' = s
           /\ UNCHANGED told
      ELSE Finish(result, s)

-----------------------------------------------------------------------------
(* Reading.                                                                *)

(* read() is called.  A stream that had its last push and is empty will    *)
(* say so.                                                                 *)
BeginRead ==
    /\ is_reading_' = TRUE
    /\ chunk' = buffered
    /\ buffered' = 0
    /\ stream' = IF stream = "ended" THEN "ending" ELSE stream

(* Start(): without a pipe the request has failed; else On("end").         *)
Start ==
    /\ on = 0
    /\ Alive
    /\ \/ /\ on' = 1
          /\ UNCHANGED <<pending_result_, stream, told>>
       \/ /\ on' = 4
          /\ NotifyComplete("INSUFFICIENT_RESOURCES", stream, FALSE, FALSE)
    /\ UNCHANGED <<flags, pushed, buffered, announce, written, body, client>>

(* Fault: Start() does not check that the loader is still there.           *)
SubscribeUnchecked ==
    /\ on \in 1..3
    /\ ~is_reading_
    /\ on' = on + 1
    /\ UNCHANGED <<flags, pending_result_, source, written, body, client, told>>

(* One of Start()'s calls of On() returns.                                 *)
OnReturns ==
    /\ on \in 1..3
    /\ ~is_reading_
    /\ on' = IF Alive THEN on + 1 ELSE 4
    /\ UNCHANGED <<flags, pending_result_, source, written, body, client, told>>

(* Fault: a "readable" from within read() is not remembered.               *)
ForgetReadable ==
    IF readable_
      THEN UNCHANGED <<flags, stream, buffered>>
      ELSE /\ readable_' = TRUE
           /\ BeginRead
           /\ UNCHANGED <<is_writing_, has_read_waiting_>>

(* NotifyReadable(): inside a read the event is remembered; ReadMore()     *)
(* begins a read otherwise.                                                *)
NotifyReadable ==
    IF readable_
      THEN /\ has_read_waiting_' = (has_read_waiting_ \/ is_reading_)
           /\ UNCHANGED <<readable_, is_reading_, is_writing_, chunk, stream, buffered>>
      ELSE /\ readable_' = TRUE
           /\ IF is_reading_ THEN UNCHANGED <<is_reading_, chunk, stream, buffered>>
                             ELSE BeginRead
           /\ UNCHANGED <<is_writing_, has_read_waiting_>>

(* Fault: a read that yields nothing forgets that the stream has ended.    *)
EmptyReadWaits ==
    /\ is_reading_
    /\ chunk = 0
    /\ ~has_read_waiting_
    /\ is_reading_' = FALSE
    /\ readable_' = FALSE
    /\ UNCHANGED <<on, is_writing_, has_read_waiting_, chunk, pending_result_,
                   source, written, body, client, told>>

(* ReadMore() when read() returns nothing: read again if "readable" came   *)
(* meanwhile, else wait for it, unless the stream ended meanwhile.         *)
EmptyRead ==
    /\ is_reading_
    /\ chunk = 0
    /\ IF has_read_waiting_
         THEN /\ has_read_waiting_' = FALSE
              /\ BeginRead
              /\ UNCHANGED <<readable_, pending_result_, told>>
         ELSE /\ is_reading_' = FALSE
              /\ readable_' = FALSE
              /\ IF pending_result_ = "none"
                   THEN UNCHANGED <<pending_result_, stream, told>>
                   ELSE NotifyComplete(pending_result_, stream, FALSE, is_writing_)
              /\ UNCHANGED <<has_read_waiting_, chunk, buffered>>
    /\ UNCHANGED <<on, is_writing_, pushed, announce, written, body, client>>

(* ReadMore() when read() returns a buffer: the write begins.              *)
ChunkRead ==
    /\ is_reading_
    /\ chunk > 0
    /\ is_reading_' = FALSE
    /\ is_writing_' = TRUE
    /\ UNCHANGED <<on, readable_, has_read_waiting_, chunk, pending_result_,
                   source, written, body, client, told>>

(* DidWrite(), a task bound to a weak pointer.  A write fails if nobody    *)
(* reads the pipe any more.                                                *)
DidWrite(ok) ==
    /\ Idle
    /\ Alive
    /\ is_writing_
    /\ ~ok => body = "dropped"
    /\ is_writing_' = FALSE
    /\ written' = written + (IF ok THEN chunk ELSE 0)
    /\ IF pending_result_ = "none" /\ ok /\ readable_
         THEN BeginRead /\ UNCHANGED <<pending_result_, told>>
         ELSE /\ NotifyComplete(IF pending_result_ = "none" THEN "FAILED" ELSE pending_result_,
                                stream, is_reading_, FALSE)
              /\ UNCHANGED <<is_reading_, chunk, buffered>>
    /\ UNCHANGED <<on, readable_, has_read_waiting_, pushed, announce, body, client>>

-----------------------------------------------------------------------------
(* The stream, external.  Its events are emitted where its JavaScript      *)
(* runs: in a task, in On() or in read().                                  *)

Push ==
    /\ stream = "open"
    /\ pushed < MaxChunks
    /\ pushed' = pushed + 1
    /\ buffered' = buffered + 1
    /\ announce' = TRUE
    /\ UNCHANGED <<on, flags, pending_result_, stream, written, body, client, told>>

(* push(null), an error, and a stream destroyed without one.               *)
LastPush ==
    /\ stream = "open"
    /\ stream' = "ended"
    /\ announce' = TRUE
    /\ UNCHANGED <<on, flags, pending_result_, pushed, buffered, written, body, client, told>>

Fail ==
    /\ stream \in {"open", "ended", "ending"}
    /\ stream' = "failing"
    /\ UNCHANGED <<on, flags, pending_result_, pushed, buffered, announce,
                   written, body, client, told>>

Abandon ==
    /\ stream \in {"open", "ended"}
    /\ stream' = "closed"
    /\ UNCHANGED <<on, flags, pending_result_, pushed, buffered, announce,
                   written, body, client, told>>

(* "readable" is due only if there is something to read or to hear.        *)
EmitReadable ==
    /\ announce
    /\ on >= 3
    /\ announce' = FALSE
    /\ IF Alive /\ stream \in {"open", "ended", "ending"} /\ (buffered > 0 \/ stream # "open")
         THEN NotifyReadable
         ELSE UNCHANGED <<flags, stream, buffered>>
    /\ UNCHANGED <<on, pending_result_, pushed, written, body, client, told>>

(* "end" follows the last read.  An emitter that is no stream of Node.js   *)
(* may emit it by itself, also from within on(), and may repeat it.        *)
EmitEnd ==
    /\ on >= 1
    /\ \/ stream \in {"ending", "end"}
       \/ stream = "ended" /\ buffered = 0
    /\ IF Alive THEN NotifyComplete("OK", "end", is_reading_, is_writing_)
                ELSE stream' = "end" /\ UNCHANGED <<pending_result_, told>>
    /\ UNCHANGED <<on, flags, pushed, buffered, announce, written, body, client>>

(* Before On("error") nobody hears it.                                     *)
EmitError ==
    /\ stream = "failing"
    /\ IF Alive /\ on >= 2
         THEN NotifyComplete("FAILED", "error", is_reading_, is_writing_)
         ELSE stream' = "error" /\ UNCHANGED <<pending_result_, told>>
    /\ UNCHANGED <<on, flags, pushed, buffered, announce, written, body, client>>

-----------------------------------------------------------------------------
(* The client, external.                                                   *)

DropBody ==
    /\ body = "open"
    /\ body' = "dropped"
    /\ UNCHANGED <<on, flags, pending_result_, source, written, client, told>>

GoAway ==
    /\ client = "there"
    /\ client' = "gone"
    /\ UNCHANGED <<on, flags, pending_result_, source, written, body, told>>

(* The disconnect handler of url_loader_.                                  *)
Disconnected ==
    /\ Idle
    /\ on = 4
    /\ client = "gone"
    /\ Alive
    /\ client' = "noticed"
    /\ NotifyComplete("FAILED", stream, is_reading_, is_writing_)
    /\ UNCHANGED <<on, flags, pushed, buffered, announce, written, body>>

-----------------------------------------------------------------------------
Loader ==
    \/ Start
    \/ OnReturns
    \/ EmptyRead
    \/ ChunkRead
    \/ \E ok \in BOOLEAN : DidWrite(ok)
    \/ Disconnected

Stream == Push \/ LastPush \/ Fail \/ Abandon \/ EmitReadable \/ EmitEnd \/ EmitError

ResponseNext == Loader \/ Stream \/ DropBody \/ GoAway

ResponseSpec == ResponseInit /\ [][ResponseNext]_responseVars

(* Calls return, tasks run, the client reads the pipe or closes it, and a  *)
(* stream of Node.js emits the events it owes: "end" after the read that   *)
(* found it empty.                                                         *)
ResponseFairness ==
    /\ WF_responseVars(Loader)
    /\ WF_responseVars(EmitReadable)
    /\ WF_responseVars(stream = "ending" /\ EmitEnd)
    /\ WF_responseVars(EmitError)

ResponseFairSpec == ResponseSpec /\ ResponseFairness

-----------------------------------------------------------------------------
(* What the client is told at the end is what happened: "OK" after an      *)
(* "end", with every chunk in the pipe unless the client has dropped it,   *)
(* although "end" may come while the last chunk is read or written; and    *)
(* an error only for a reason, never because readable_ was not set when a  *)
(* write ended well.                                                       *)
AnswerIsTrue ==
    /\ ResponseTypeOK
    /\ "OK" \in {told[i] : i \in DOMAIN told} =>
         stream = "end" /\ (written = pushed \/ body = "dropped")
    /\ "FAILED" \in {told[i] : i \in DOMAIN told} =>
         stream = "error" \/ client = "noticed" \/ body = "dropped"

(* A loader that neither reads nor writes has nothing to read: the events  *)
(* it has ignored while it did have cost it no wakeup.                     *)
NoReadableForgotten ==
    Alive /\ Idle /\ on = 4 /\ ~is_writing_ =>
      \/ stream = "open" /\ buffered = 0
      \/ announce
      \/ stream \in {"ending", "failing", "error", "closed"}

(* After the loader has deleted itself none of it runs: no read goes on,   *)
(* no listener is added and the client is told nothing, though events come *)
(* from within the very calls that deleted it.                             *)
DeadIsSilent ==
    [][~Alive => on' \in {on, 4} /\ UNCHANGED <<flags, pending_result_, told>>]_responseVars

(* A stream that ends or fails, or a client that goes, ends the request.   *)
Completes ==
    /\ on = 4 /\ stream \in {"ended", "ending", "failing"} ~> ~Alive \/ stream = "closed"
    /\ client = "gone" \/ pending_result_ # "none" ~> ~Alive

=============================================================================
