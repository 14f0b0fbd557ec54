----------------------------- MODULE NodeProofs -----------------------------
(***************************************************************************)
(* Theorems about the two modules that drive machinery of Node.js: its     *)
(* event loop (NodeBindings) and its streams (NodeStreamLoader).  They     *)
(* hold for every choice of hosts, any number of environments and any      *)
(* number of chunks.                                                       *)
(***************************************************************************)
EXTENDS NodeBindings, NodeStreamLoader, TLAPS

-----------------------------------------------------------------------------
(* The event loop.                                                         *)
Running == embed \in {"woken", "polling", "polled"}

(* How the flags of the loop thread go together.                           *)
Flags ==
    /\ epoch = 0 => ~env /\ ~initialized /\ pc = "idle"
    /\ pc = "loading" => ~env /\ ~initialized
    /\ pc = "uvrun" => env
    /\ initialized /\ ~env => pc = "joining"
    /\ pc = "joining" => ~env
    /\ closed => pc = "joining"
    /\ starting => env

(* When there is an embed thread.                                          *)
Thread ==
    /\ ~initialized /\ pc # "loading" => embed = "none"
    /\ initialized \/ pc = "loading" => embed # "none"
    /\ embed = "exited" => closed

(* What the first environment finds, and the one turn it then has.         *)
FirstEpoch ==
    /\ epoch = 0 => sem = 0 /\ tasks = 0
    /\ epoch = 1 /\ env => starting \/ initialized
    /\ epoch = 1 /\ starting => sem = 0 /\ tasks = 0 /\ ~initialized /\ pc = "idle"
    /\ epoch = 1 /\ pc = "loading" => sem = 0 /\ tasks = 0 /\ embed = "wait"
    /\ epoch = 1 /\ env => Turns <= 1

IInv == TypeOK /\ Flags /\ Thread /\ FirstEpoch /\ NeverStalls

-----------------------------------------------------------------------------
(* The initial state satisfies the invariant.                              *)
LEMMA InitIInv == Init => IInv
<1> SUFFICES ASSUME Init PROVE IInv
  OBVIOUS
<1>1. TypeOK
  <2>1. epoch \in 0..MaxEpoch /\ tasks \in Nat /\ sem \in Nat
    <3>1. epoch = 0 /\ tasks = 0 /\ sem = 0
      BY Zenon DEF Init
    <3> QED
      BY <3>1, MaxEpochAssumption, SMT
  <2> QED
    BY <2>1, Zenon DEF Init, TypeOK
<1>2. Flags
  BY DEF Init, Flags
<1>3. Thread
  BY DEF Init, Thread
<1>4. FirstEpoch
  BY DEF Init, FirstEpoch
<1>5. NeverStalls
  BY DEF Init, NeverStalls
<1> QED
  BY <1>1, <1>2, <1>3, <1>4, <1>5 DEF IInv

(* What a read of embed_closed_ may decide.                                *)
LEMMA ReadsClosedOnly ==
    ASSUME NEW synchronized, NEW c \in ReadsClosed(synchronized), c
    PROVE  closed
BY Zenon DEF ReadsClosed

(* Every step keeps every number in its type.                              *)
LEMMA NumberStep ==
    ASSUME TypeOK, Next
    PROVE  epoch' \in 0..MaxEpoch /\ tasks' \in Nat /\ sem' \in Nat
<1> USE MaxEpochAssumption DEF TypeOK, life
<1>1. CASE HostStep
  <2>1. CASE Release
    <3>1. sem' = sem \/ sem' = sem + 1
      BY <2>1, Zenon DEF Release
    <3>2. epoch' = epoch /\ tasks' = tasks
      BY <2>1, Zenon DEF Release
    <3> QED
      BY <3>1, <3>2, SMT
  <2>2. CASE WorkerInitialize \/ FrameCreated \/ ProcessStart
    BY <2>2, SMT DEF WorkerInitialize, FrameCreated, ProcessStart
  <2> QED
    BY <1>1, <2>1, <2>2 DEF HostStep
<1>2. CASE LoopStep
  <2>1. CASE Joined
    <3>1. sem' = 0 /\ epoch' = epoch /\ tasks' = tasks
      BY <2>1, Zenon DEF Joined
    <3> QED
      BY <3>1, SMT
  <2>2. CASE WorkerLoaded \/ FrameStart \/ UvRunOnce \/ UvRunReturns
    BY <2>2, SMT DEF WorkerLoaded, FrameStart, UvRunOnce, UvRunReturns
  <2> QED
    BY <1>2, <2>1, <2>2 DEF LoopStep
<1>3. CASE CallbackArmsTimer \/ TaskArmsTimer \/ TimeoutElapses \/ IOArrives
  BY <1>3, SMT DEF CallbackArmsTimer, TaskArmsTimer, TimeoutElapses, IOArrives
<1>4. CASE SemWait
  BY <1>4, SMT DEF SemWait
<1>5. CASE PollEvents \/ PollReturns
  BY <1>5, SMT DEF PollEvents, PollReturns
<1>6. CASE WakeupMainThread
  BY <1>6, SMT DEF WakeupMainThread
<1> QED
  BY <1>1, <1>2, <1>3, <1>4, <1>5, <1>6 DEF Next, EmbedStep

(* Every step keeps every other variable in its type.                      *)
LEMMA TypeStep ==
    ASSUME TypeOK, Next
    PROVE  TypeOK'
<1>0. epoch' \in 0..MaxEpoch /\ tasks' \in Nat /\ sem' \in Nat
  BY NumberStep
<1> USE <1>0 DEF TypeOK, life, uv, PrepareEmbedThread, StartPolling, Dispatch
<1>1. CASE WorkerInitialize
  BY <1>1, Zenon DEF WorkerInitialize
<1>2. CASE FrameCreated
  BY <1>2, Zenon DEF FrameCreated
<1>3. CASE ProcessStart
  BY <1>3, Zenon DEF ProcessStart
<1>4. CASE Release
  BY <1>4, Zenon DEF Release
<1>5. CASE WorkerLoaded
  BY <1>5, Zenon DEF WorkerLoaded
<1>6. CASE FrameStart
  BY <1>6, Zenon DEF FrameStart
<1>7. CASE Joined
  BY <1>7, Zenon DEF Joined
<1>8. CASE UvRunOnce
  BY <1>8, Zenon DEF UvRunOnce
<1>9. CASE UvRunReturns
  BY <1>9, Zenon DEF UvRunReturns
<1>10. CASE CallbackArmsTimer \/ TaskArmsTimer
  BY <1>10, Zenon DEF CallbackArmsTimer, TaskArmsTimer
<1>11. CASE SemWait
  BY <1>11, Zenon DEF SemWait
<1>12. CASE PollEvents
  BY <1>12, Zenon DEF PollEvents
<1>13. CASE PollReturns
  BY <1>13, Zenon DEF PollReturns
<1>14. CASE WakeupMainThread
  BY <1>14, Zenon DEF WakeupMainThread
<1>15. CASE TimeoutElapses
  BY <1>15, Zenon DEF TimeoutElapses
<1>16. CASE IOArrives
  BY <1>16, Zenon DEF IOArrives
<1> QED
  BY <1>1, <1>2, <1>3, <1>4, <1>5, <1>6, <1>7, <1>8, <1>9, <1>10, <1>11, <1>12,
     <1>13, <1>14, <1>15, <1>16 DEF Next, HostStep, LoopStep, EmbedStep

(* Every step keeps the other parts of the invariant.                      *)
LEMMA PartsStep ==
    ASSUME IInv, Next
    PROVE  Flags' /\ Thread' /\ FirstEpoch' /\ NeverStalls'
<1> USE MaxEpochAssumption
    DEF IInv, TypeOK, Flags, Thread, FirstEpoch, NeverStalls, Turns, life, uv
<1>1. CASE WorkerInitialize
  BY <1>1 DEF WorkerInitialize, PrepareEmbedThread
<1>2. CASE FrameCreated
  BY <1>2 DEF FrameCreated
<1>3. CASE ProcessStart
  BY <1>3 DEF ProcessStart, PrepareEmbedThread, StartPolling
<1>4. CASE Release
  BY <1>4 DEF Release
<1>5. CASE WorkerLoaded
  BY <1>5 DEF WorkerLoaded, StartPolling
<1>6. CASE FrameStart
  BY <1>6 DEF FrameStart, PrepareEmbedThread, StartPolling
<1>7. CASE Joined
  <2>1. /\ ~initialized' /\ ~closed'
        /\ embed' = "none" /\ sem' = 0 /\ pc = "joining" /\ pc' = "idle"
        /\ UNCHANGED <<epoch, env, starting, tasks>>
    BY <1>7, Zenon DEF Joined
  <2> QED
    BY <2>1
<1>8. CASE UvRunOnce
  BY <1>8 DEF UvRunOnce
<1>9. CASE UvRunReturns
  BY <1>9 DEF UvRunReturns
<1>10. CASE CallbackArmsTimer \/ TaskArmsTimer
  BY <1>10 DEF CallbackArmsTimer, TaskArmsTimer
<1>11. CASE SemWait
  <2>1. \/ embed' = "exited" /\ closed
        \/ embed' = "woken"
    BY <1>11, ReadsClosedOnly DEF SemWait
  <2> QED
    BY <1>11, <2>1 DEF SemWait
<1>12. CASE PollEvents \/ PollReturns
  BY <1>12 DEF PollEvents, PollReturns
<1>13. CASE WakeupMainThread
  <2>1. \/ embed' = "exited" /\ closed /\ UNCHANGED tasks
        \/ embed' = "wait" /\ tasks' = tasks + 1
    BY <1>13, ReadsClosedOnly DEF WakeupMainThread
  <2> QED
    BY <1>13, <2>1 DEF WakeupMainThread
<1>14. CASE TimeoutElapses \/ IOArrives
  BY <1>14 DEF TimeoutElapses, IOArrives
<1> QED
  BY <1>1, <1>2, <1>3, <1>4, <1>5, <1>6, <1>7, <1>8, <1>9, <1>10, <1>11, <1>12,
     <1>13, <1>14 DEF Next, HostStep, LoopStep, EmbedStep

LEMMA Inductive == Spec => []IInv
<1>1. IInv /\ UNCHANGED vars => IInv'
  BY DEF IInv, TypeOK, Flags, Thread, FirstEpoch, NeverStalls, Turns, vars
<1>2. IInv /\ [Next]_vars => IInv'
  BY <1>1, TypeStep, PartsStep DEF IInv
<1> QED
  BY InitIInv, <1>2, PTL DEF Spec

-----------------------------------------------------------------------------
(* Every variable keeps its type; in particular no post is ever taken from *)
(* the semaphore that nobody made.                                         *)
THEOREM TypeCorrect == Spec => []TypeOK
BY Inductive, PTL DEF IInv

(* In a NodeBindings' first environment, the only one that the browser or  *)
(* a utility process has, the embed thread is parked while uv_run runs.    *)
THEOREM FirstInLockstep == Spec => []Lockstep
<1>1. IInv => Lockstep
  BY DEF IInv, TypeOK, Flags, Thread, FirstEpoch, Turns, Lockstep, Parked
<1> QED
  BY <1>1, Inductive, PTL

(* Through any number of restarts the two threads never both wait for the  *)
(* other: an environment that is polled for always has a turn somewhere.   *)
THEOREM TurnNeverLost == Spec => []NeverStalls
BY Inductive, PTL DEF IInv

(* No second embed thread is ever created while one runs: when the loop    *)
(* thread is free and nothing is initialized, there is none.               *)
THEOREM NoThreadLeft == Spec => []OneThread
<1>1. IInv => OneThread
  BY DEF IInv, Thread, OneThread
<1> QED
  BY <1>1, Inductive, PTL

-----------------------------------------------------------------------------
(* Streams: a response whose body is a stream of Node.js.                  *)
ResponseTypes ==
    /\ ResponseTypeOK
    /\ told \in {<<>>} \cup {<<r>> : r \in Results}

Busy  == is_reading_ \/ is_writing_

(* The loader reads or writes, not both, as long as readable_ is set, and  *)
(* not when it is gone; what happened meanwhile waits for that.            *)
Working ==
    /\ ~(is_reading_ /\ is_writing_)
    /\ Busy => readable_ /\ Alive
    /\ Alive /\ readable_ => Busy
    /\ on < 3 => ~readable_
    /\ Alive /\ pending_result_ # "none" => Busy

(* A chunk is in the stream, in the hands of the loader or in the pipe.    *)
Held == IF Busy THEN chunk ELSE 0

Counted ==
    /\ written + Held + buffered <= pushed
    /\ body = "open" => written + Held + buffered = pushed
    /\ stream \in {"ending", "end"} => buffered = 0

(* What is told, now or when the loader has done its work, has happened.   *)
HasFailed == stream = "error" \/ client = "noticed" \/ body = "dropped"

Answered ==
    /\ pending_result_ \in {"none", "OK", "FAILED"}
    /\ pending_result_ = "OK" => stream = "end"
    /\ pending_result_ = "FAILED" => HasFailed
    /\ Alive /\ stream = "end" => pending_result_ # "none"
    /\ told = <<"OK">> => stream = "end" /\ (written = pushed \/ body = "dropped")
    /\ told = <<"FAILED">> => HasFailed

(* What is in the stream will be read: a "readable" is owed, or a read     *)
(* follows the one in progress.                                            *)
WillBeRead ==
    Alive /\ (stream = "ended" \/ (stream = "open" /\ buffered > 0)) =>
      announce \/ is_writing_ \/ (is_reading_ /\ (chunk > 0 \/ has_read_waiting_))

ResponseInv == ResponseTypes /\ Working /\ Counted /\ Answered /\ WillBeRead

Streams == {"open", "ended", "ending", "end", "failing", "error", "closed"}

(* What is told is told once.                                              *)
LEMMA AppendNone == \A r : Append(<<>>, r) = <<r>>
OBVIOUS

LEMMA ToldOnce ==
    ASSUME NEW r \in Results
    PROVE  /\ <<r>> # <<>>
           /\ <<r>> = <<"OK">> <=> r = "OK"
           /\ <<r>> = <<"FAILED">> <=> r = "FAILED"
           /\ <<r>> \in Seq(Results)
BY DEF Results

(* Every step keeps the invariant.                                         *)
LEMMA ResponseStep ==
    ASSUME ResponseInv, ResponseNext
    PROVE  ResponseInv'
<1> USE DEF ResponseInv, ResponseTypes, ResponseTypeOK, Results, Working, Busy,
            Counted, Held, Answered, HasFailed, WillBeRead, Alive,
            flags, source, BeginRead, Idle
<1>0. /\ chunk \in 0..MaxChunks /\ pushed \in 0..MaxChunks /\ buffered \in 0..MaxChunks
      /\ written \in 0..MaxChunks /\ 0 \in 0..MaxChunks
      /\ (IF stream = "ended" THEN "ending" ELSE stream) \in Streams
      /\ (IF stream \in {"end", "error"} THEN stream ELSE "closed") \in Streams
  BY MaxChunksAssumption DEF Streams
<1>1. CASE Start
  <2>1. CASE on' = 1
    BY <1>1, <2>1 DEF Start
  <2>2. CASE on' = 4
    <3>1. /\ told' = <<"INSUFFICIENT_RESOURCES">> /\ pending_result_' = pending_result_
          /\ stream' = IF stream \in {"end", "error"} THEN stream ELSE "closed"
      BY <1>1, <2>2, AppendNone DEF Start, NotifyComplete, Finish
    <3>2. /\ UNCHANGED <<readable_, is_reading_, is_writing_, has_read_waiting_, chunk>>
          /\ UNCHANGED <<pushed, buffered, announce, written, body, client>>
          /\ on = 0
      BY <1>1 DEF Start
    <3> QED
      BY <2>2, <3>1, <3>2, ToldOnce
  <2> QED
    BY <1>1, <2>1, <2>2 DEF Start
<1>2. CASE OnReturns
  BY <1>2 DEF OnReturns
<1>3. CASE EmptyRead
  <2>1. /\ is_reading_ /\ chunk = 0 /\ ~is_writing_ /\ Alive /\ readable_
        /\ UNCHANGED <<on, is_writing_, pushed, announce, written, body, client>>
    BY <1>3 DEF EmptyRead
  <2>2. CASE has_read_waiting_
    <3>1. /\ is_reading_' = TRUE /\ has_read_waiting_' = FALSE
          /\ chunk' = buffered /\ buffered' = 0
          /\ stream' = IF stream = "ended" THEN "ending" ELSE stream
          /\ UNCHANGED <<readable_, pending_result_, told>>
      BY <1>3, <2>2 DEF EmptyRead
    <3>2. ResponseTypes'
      <4>1. /\ is_reading_' \in BOOLEAN /\ is_writing_' \in BOOLEAN
            /\ chunk' \in 0..MaxChunks /\ buffered' \in 0..MaxChunks
            /\ written' \in 0..MaxChunks
            /\ stream' \in Streams
        BY <1>0, <2>1, <2>2, <3>1
      <4> QED
        BY <2>1, <3>1, <4>1 DEF Streams
    <3>3. Working'
      BY <2>1, <2>2, <3>1
    <3>4. Counted'
      BY <2>1, <2>2, <3>1
    <3>5. Answered'
      BY <2>1, <2>2, <3>1
    <3>6. WillBeRead'
      BY <2>1, <2>2, <3>1
    <3> QED
      BY <3>2, <3>3, <3>4, <3>5, <3>6
  <2>3. CASE ~has_read_waiting_ /\ pending_result_ = "none"
    <3>1. /\ is_reading_' = FALSE /\ readable_' = FALSE
          /\ UNCHANGED <<has_read_waiting_, chunk, buffered>>
          /\ UNCHANGED <<pending_result_, stream, told>>
      BY <1>3, <2>3 DEF EmptyRead
    <3>2. ResponseTypes'
      BY <2>1, <2>3, <3>1
    <3>3. Working'
      BY <2>1, <2>3, <3>1
    <3>4. Counted'
      BY <2>1, <2>3, <3>1
    <3>5. Answered'
      BY <2>1, <2>3, <3>1
    <3>6. WillBeRead'
      BY <2>1, <2>3, <3>1
    <3> QED
      BY <3>2, <3>3, <3>4, <3>5, <3>6
  <2>4. CASE ~has_read_waiting_ /\ pending_result_ # "none"
    <3>1. /\ told' = <<pending_result_>> /\ pending_result_' = pending_result_
          /\ stream' = IF stream \in {"end", "error"} THEN stream ELSE "closed"
          /\ is_reading_' = FALSE /\ readable_' = FALSE
          /\ UNCHANGED <<has_read_waiting_, chunk, buffered>>
      BY <1>3, <2>1, <2>4, AppendNone
         DEF EmptyRead, NotifyComplete, Finish
    <3>2. pending_result_ \in {"OK", "FAILED"}
      BY <2>4
    <3>3. ResponseTypes'
      BY <2>1, <2>4, <3>1, <3>2, ToldOnce
    <3>4. Working'
      BY <2>1, <2>4, <3>1, <3>2, ToldOnce
    <3>5. Counted'
      BY <2>1, <2>4, <3>1, <3>2, ToldOnce
    <3>6. Answered'
      BY <2>1, <2>4, <3>1, <3>2, ToldOnce
    <3>7. WillBeRead'
      BY <2>1, <2>4, <3>1, <3>2, ToldOnce
    <3> QED
      BY <3>3, <3>4, <3>5, <3>6, <3>7
  <2> QED
    BY <2>2, <2>3, <2>4
<1>4. CASE ChunkRead
  BY <1>4 DEF ChunkRead
<1>5. ASSUME NEW ok \in BOOLEAN, DidWrite(ok) PROVE ResponseInv'
  <2>1. /\ is_writing_ /\ ~is_reading_ /\ Alive /\ readable_ /\ is_writing_' = FALSE
        /\ ~ok => body = "dropped"
        /\ written' = written + (IF ok THEN chunk ELSE 0)
        /\ UNCHANGED <<on, readable_, has_read_waiting_, pushed, announce, body, client>>
    BY <1>5 DEF DidWrite
  <2>2. written' \in 0..MaxChunks
    <3>1. written + chunk + buffered <= pushed
      BY <2>1
    <3> QED
      BY MaxChunksAssumption, <1>0, <2>1, <3>1
  <2>3. CASE pending_result_ = "none" /\ ok
    <3>1. /\ is_reading_' = TRUE /\ chunk' = buffered /\ buffered' = 0
          /\ stream' = IF stream = "ended" THEN "ending" ELSE stream
          /\ UNCHANGED <<pending_result_, told>>
      BY <1>5, <2>1, <2>3 DEF DidWrite
    <3>2. ResponseTypes'
      <4>1. /\ is_reading_' \in BOOLEAN /\ is_writing_' \in BOOLEAN
            /\ chunk' \in 0..MaxChunks /\ buffered' \in 0..MaxChunks
            /\ written' \in 0..MaxChunks
            /\ stream' \in Streams
        BY <1>0, <2>1, <2>3, <2>2, <3>1
      <4> QED
        BY <2>1, <3>1, <4>1 DEF Streams
    <3>3. Working'
      BY <2>1, <2>3, <3>1
    <3>4. Counted'
      BY <2>1, <2>3, <3>1
    <3>5. Answered'
      BY <2>1, <2>3, <3>1
    <3>6. WillBeRead'
      BY <2>1, <2>3, <3>1
    <3> QED
      BY <3>2, <3>3, <3>4, <3>5, <3>6
  <2>4. CASE pending_result_ # "none" \/ ~ok
    <3>1. PICK r \in Results :
            r = IF pending_result_ = "none" THEN "FAILED" ELSE pending_result_
      OBVIOUS
    <3>2. /\ told' = <<r>> /\ pending_result_' = pending_result_
          /\ stream' = IF stream \in {"end", "error"} THEN stream ELSE "closed"
          /\ UNCHANGED <<is_reading_, chunk, buffered>>
      BY <1>5, <2>1, <2>4, <3>1, AppendNone
         DEF DidWrite, NotifyComplete, Finish
    <3>3. ResponseTypes'
      <4>1. /\ is_writing_' \in BOOLEAN /\ written' \in 0..MaxChunks
            /\ stream' \in Streams
        BY <1>0, <2>1, <2>2, <3>2
      <4>2. told' \in Seq(Results) /\ told' \in {<<x>> : x \in Results}
        BY <3>2, ToldOnce
      <4> QED
        BY <2>1, <3>2, <4>1, <4>2 DEF Streams
    <3>4. Working' /\ WillBeRead'
      BY <2>1, <3>2, ToldOnce
    <3>5. Counted'
      BY <2>1, <3>2
    <3>6. Answered'
      BY <2>1, <2>4, <3>1, <3>2, ToldOnce
    <3> QED
      BY <3>3, <3>4, <3>5, <3>6
  <2> QED
    BY <2>3, <2>4
<1>6. CASE Disconnected
  <2>1. /\ Alive /\ client' = "noticed" /\ ~is_reading_
        /\ NotifyComplete("FAILED", stream, is_reading_, is_writing_)
        /\ UNCHANGED <<on, readable_, is_reading_, is_writing_, has_read_waiting_, chunk>>
        /\ UNCHANGED <<pushed, buffered, announce, written, body>>
    BY <1>6 DEF Disconnected
  <2>2. CASE is_writing_
    <3>1. pending_result_' = "FAILED" /\ stream' = stream /\ told' = told
      BY <2>1, <2>2 DEF NotifyComplete
    <3> QED
      BY <2>1, <2>2, <3>1
  <2>3. CASE ~is_writing_
    <3>1. /\ told' = <<"FAILED">> /\ pending_result_' = pending_result_
          /\ stream' = IF stream \in {"end", "error"} THEN stream ELSE "closed"
      BY <2>1, <2>3, AppendNone DEF NotifyComplete, Finish
    <3> QED
      BY <2>1, <2>3, <3>1, ToldOnce
  <2> QED
    BY <2>2, <2>3
<1>7. CASE Push
  BY MaxChunksAssumption, <1>7 DEF Push
<1>8. CASE LastPush
  BY <1>8 DEF LastPush
<1>9. CASE Fail
  BY <1>9 DEF Fail
<1>10. CASE Abandon
  BY <1>10 DEF Abandon
<1>11. CASE EmitReadable
  <2>1. /\ announce /\ on >= 3 /\ announce' = FALSE
        /\ UNCHANGED <<on, pending_result_, pushed, written, body, client, told>>
    BY <1>11 DEF EmitReadable
  <2>2. CASE /\ Alive /\ stream \in {"open", "ended", "ending"}
             /\ buffered > 0 \/ stream # "open"
    <3>1. CASE readable_
      <4>1. /\ has_read_waiting_' = (has_read_waiting_ \/ is_reading_)
            /\ UNCHANGED <<readable_, is_reading_, is_writing_, chunk, stream, buffered>>
        BY <1>11, <2>2, <3>1 DEF EmitReadable, NotifyReadable
      <4> QED
        BY <2>1, <2>2, <3>1, <4>1
    <3>2. CASE ~readable_
      <4>1. /\ readable_' = TRUE /\ is_reading_' = TRUE /\ chunk' = buffered /\ buffered' = 0
            /\ stream' = IF stream = "ended" THEN "ending" ELSE stream
            /\ UNCHANGED <<is_writing_, has_read_waiting_>>
        BY <1>11, <2>2, <3>2 DEF EmitReadable, NotifyReadable
      <4>2. ResponseTypes'
        <5>1. /\ readable_' \in BOOLEAN /\ is_reading_' \in BOOLEAN /\ announce' \in BOOLEAN
              /\ chunk' \in 0..MaxChunks /\ buffered' \in 0..MaxChunks
              /\ stream' \in Streams
          BY <1>0, <2>1, <4>1
        <5> QED
          BY <2>1, <4>1, <5>1 DEF Streams
      <4>3. Working'
        BY <2>1, <2>2, <3>2, <4>1
      <4>4. Counted'
        BY <2>1, <2>2, <3>2, <4>1
      <4>5. Answered'
        BY <2>1, <2>2, <3>2, <4>1
      <4>6. WillBeRead'
        BY <2>1, <2>2, <3>2, <4>1
      <4> QED
        BY <4>2, <4>3, <4>4, <4>5, <4>6
    <3> QED
      BY <3>1, <3>2
  <2>3. CASE ~(/\ Alive /\ stream \in {"open", "ended", "ending"}
               /\ buffered > 0 \/ stream # "open")
    BY <1>11, <2>1, <2>3 DEF EmitReadable
  <2> QED
    BY <2>2, <2>3
<1>12. CASE EmitEnd
  <2>1. /\ buffered = 0 /\ stream \in {"ended", "ending", "end"}
        /\ UNCHANGED <<on, readable_, is_reading_, is_writing_, has_read_waiting_, chunk>>
        /\ UNCHANGED <<pushed, buffered, announce, written, body, client>>
    BY <1>12 DEF EmitEnd
  <2>2. CASE ~Alive
    BY <1>12, <2>1, <2>2 DEF EmitEnd
  <2>3. CASE Alive /\ Busy
    <3>1. pending_result_' = "OK" /\ stream' = "end" /\ told' = told
      BY <1>12, <2>3 DEF EmitEnd, NotifyComplete
    <3> QED
      BY <2>1, <2>3, <3>1
  <2>4. CASE Alive /\ ~Busy
    <3>1. told' = <<"OK">> /\ pending_result_' = pending_result_ /\ stream' = "end"
      BY <1>12, <2>4, AppendNone
         DEF EmitEnd, NotifyComplete, Finish
    <3> QED
      BY <2>1, <2>4, <3>1, ToldOnce
  <2> QED
    BY <2>2, <2>3, <2>4
<1>13. CASE EmitError
  <2>1. /\ stream = "failing"
        /\ UNCHANGED <<on, readable_, is_reading_, is_writing_, has_read_waiting_, chunk>>
        /\ UNCHANGED <<pushed, buffered, announce, written, body, client>>
    BY <1>13 DEF EmitError
  <2>2. CASE ~(Alive /\ on >= 2)
    BY <1>13, <2>1, <2>2 DEF EmitError
  <2>3. CASE Alive /\ on >= 2 /\ Busy
    <3>1. pending_result_' = "FAILED" /\ stream' = "error" /\ told' = told
      BY <1>13, <2>3 DEF EmitError, NotifyComplete
    <3> QED
      BY <2>1, <2>3, <3>1
  <2>4. CASE Alive /\ on >= 2 /\ ~Busy
    <3>1. told' = <<"FAILED">> /\ pending_result_' = pending_result_ /\ stream' = "error"
      BY <1>13, <2>4, AppendNone
         DEF EmitError, NotifyComplete, Finish
    <3> QED
      BY <2>1, <2>4, <3>1, ToldOnce
  <2> QED
    BY <2>2, <2>3, <2>4
<1>14. CASE DropBody
  BY <1>14 DEF DropBody
<1>15. CASE GoAway
  BY <1>15 DEF GoAway
<1> QED
  BY <1>1, <1>2, <1>3, <1>4, <1>5, <1>6, <1>7, <1>8, <1>9, <1>10, <1>11, <1>12,
     <1>13, <1>14, <1>15 DEF ResponseNext, Loader, Stream

LEMMA ResponseStarts ==
    ASSUME ResponseInit
    PROVE  ResponseInv
<1>1. /\ told = <<>> /\ <<>> \in Seq(Results)
      /\ on = 0 /\ written = 0 /\ chunk = 0 /\ buffered = pushed /\ body = "open"
      /\ pushed \in 0..MaxChunks /\ 0 \in 0..MaxChunks
      /\ readable_ = FALSE /\ is_reading_ = FALSE /\ is_writing_ = FALSE
      /\ has_read_waiting_ = FALSE /\ pending_result_ = "none" /\ client = "there"
      /\ stream \in {"open", "ended"}
      /\ announce = (stream = "ended" \/ buffered > 0)
  BY MaxChunksAssumption DEF ResponseInit
<1>2. announce \in BOOLEAN
  BY <1>1
<1>3. ResponseTypes
  <2>1. {readable_, is_reading_, is_writing_, has_read_waiting_, announce} \subseteq BOOLEAN
    BY <1>1, <1>2
  <2>2. {chunk, pushed, buffered, written} \subseteq 0..MaxChunks
    BY <1>1
  <2>3. pending_result_ \in Results \cup {"none"} /\ on \in 0..4
    BY <1>1
  <2> QED
    BY <1>1, <2>1, <2>2, <2>3 DEF ResponseTypes, ResponseTypeOK
<1>4. Working /\ Answered
  BY <1>1 DEF Working, Answered, Busy
<1>5. Counted
  BY <1>1 DEF Counted, Held, Busy
<1>6. WillBeRead
  BY <1>1 DEF WillBeRead
<1> QED
  BY <1>3, <1>4, <1>5, <1>6 DEF ResponseInv

LEMMA ResponseInductive == ResponseSpec => []ResponseInv
<1>1. ResponseInit => ResponseInv
  BY ResponseStarts
<1>2. ASSUME ResponseInv, UNCHANGED responseVars PROVE ResponseInv'
  BY <1>2 DEF responseVars, flags, source, ResponseInv, ResponseTypes,
       ResponseTypeOK, Results, Working, Busy, Counted, Held, Answered,
       HasFailed, WillBeRead, Alive
<1>3. ResponseInv /\ [ResponseNext]_responseVars => ResponseInv'
  BY <1>2, ResponseStep
<1> QED
  BY <1>1, <1>3, PTL DEF ResponseSpec

(* What the client is told is what happened: "OK" after the "end" of the   *)
(* stream and with every chunk in the pipe, unless the client has dropped  *)
(* it, and a failure only if the stream, the client or its end of the pipe *)
(* gave the reason.  (NotifyComplete, pending_result_)                     *)
THEOREM AnswerIsTrueHolds == ResponseSpec => []AnswerIsTrue
<1>1. ASSUME ResponseInv PROVE AnswerIsTrue
  <2>1. \A r : "OK" \in {<<r>>[i] : i \in DOMAIN <<r>>} => r = "OK"
    OBVIOUS
  <2>2. \A r : "FAILED" \in {<<r>>[i] : i \in DOMAIN <<r>>} => r = "FAILED"
    OBVIOUS
  <2>3. told = <<>> \/ \E r \in Results : told = <<r>>
    BY <1>1 DEF ResponseInv, ResponseTypes
  <2>4. "OK" \in {told[i] : i \in DOMAIN told} => told = <<"OK">>
    BY <2>1, <2>3
  <2>5. "FAILED" \in {told[i] : i \in DOMAIN told} => told = <<"FAILED">>
    BY <2>2, <2>3
  <2> QED
    BY <1>1, <2>4, <2>5
       DEF AnswerIsTrue, ResponseInv, ResponseTypes, Answered, HasFailed
<1>2. ResponseInv => AnswerIsTrue
  BY <1>1
<1> QED
  BY <1>2, ResponseInductive, PTL

(* A loader that lives and neither reads nor writes has nothing to read,   *)
(* or the stream still owes an event: no "readable" that was ignored did   *)
(* matter.  (NotifyReadable, has_read_waiting_)                            *)
THEOREM NoReadableForgottenHolds == ResponseSpec => []NoReadableForgotten
<1>1. ASSUME ResponseInv PROVE NoReadableForgotten
  <2> SUFFICES ASSUME Alive, ~is_reading_, ~is_writing_
               PROVE  \/ stream = "open" /\ buffered = 0
                      \/ announce
                      \/ stream \in {"ending", "failing", "error", "closed"}
    BY DEF NoReadableForgotten, Alive, Idle
  <2>1. stream # "end"
    BY <1>1 DEF ResponseInv, Answered, Working, Busy
  <2>2. stream \in {"open", "ended", "ending", "failing", "error", "closed"}
        /\ buffered \in Nat
    BY <1>1, <2>1 DEF ResponseInv, ResponseTypes, ResponseTypeOK
  <2> QED
    BY <1>1, <2>2 DEF ResponseInv, WillBeRead
<1>2. ResponseInv => NoReadableForgotten
  BY <1>1
<1> QED
  BY <1>2, ResponseInductive, PTL

(* Once the loader has deleted itself no read goes on, no listener is      *)
(* added and the client is told nothing, though the deletion comes from    *)
(* within calls that the loader has still to return to.                    *)
(* (weak_factory_, On)                                                     *)
THEOREM DeadIsSilentHolds == ResponseSpec => DeadIsSilent
<1>1. ASSUME ResponseInv, ResponseNext, ~Alive
      PROVE  on' \in {on, 4} /\ UNCHANGED <<flags, pending_result_, told>>
  <2>1. ~is_reading_ /\ ~is_writing_
    BY <1>1 DEF ResponseInv, Working, Busy, Alive
  <2>2. CASE Loader
    BY <1>1, <2>1, <2>2
       DEF Loader, Start, OnReturns, EmptyRead, ChunkRead, DidWrite, Disconnected
  <2>3. CASE Stream
    BY <1>1, <2>3
       DEF Stream, Push, LastPush, Fail, Abandon, EmitReadable, EmitEnd, EmitError, flags
  <2>4. CASE DropBody \/ GoAway
    BY <2>4 DEF DropBody, GoAway
  <2> QED
    BY <1>1, <2>2, <2>3, <2>4 DEF ResponseNext
<1>2. ResponseInv /\ [ResponseNext]_responseVars =>
        [~Alive => on' \in {on, 4}
           /\ UNCHANGED <<flags, pending_result_, told>>]_responseVars
  BY <1>1
<1> QED
  BY <1>2, ResponseInductive, PTL DEF ResponseSpec, DeadIsSilent
=============================================================================
