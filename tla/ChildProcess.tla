----------------------------- MODULE ChildProcess -----------------------------
(***************************************************************************)
(* What utilityProcess.fork() promises its caller, without the pipes and   *)
(* notifications that bring it about (docs/api/utility-process.md, events  *)
(* 'spawn', 'message', 'exit'): the child's messages are emitted in the    *)
(* order it posted them; 'spawn' is never emitted after 'exit'; 'exit' is  *)
(* emitted once, when the child has ended and all its messages were        *)
(* emitted, or when the application quits and drops the rest.              *)
(***************************************************************************)
EXTENDS Naturals, Sequences

CONSTANT Messages

VARIABLES
    phase,   \* what was emitted: nothing yet, 'spawn', or 'exit'
    ended,   \* the child posts no more
    dropped, \* the application quits
    sent,    \* the messages the child has posted
    got      \* the messages emitted

vars == <<phase, ended, dropped, sent, got>>

TypeOK ==
    /\ phase \in {"starting", "running", "gone"}
    /\ ended \in BOOLEAN
    /\ dropped \in BOOLEAN
    /\ sent \in Seq(Messages)
    /\ got \in Seq(Messages)

Init ==
    /\ phase = "starting"
    /\ ended \in BOOLEAN \* a launch may fail at once
    /\ dropped = FALSE
    /\ sent = <<>>
    /\ got = <<>>

Post(m) ==
    /\ ~ended
    /\ sent' = Append(sent, m)
    /\ UNCHANGED <<phase, ended, dropped, got>>

End ==
    /\ ~ended
    /\ ended' = TRUE
    /\ UNCHANGED <<phase, dropped, sent, got>>

Quit ==
    /\ ~dropped
    /\ dropped' = TRUE
    /\ UNCHANGED <<phase, ended, sent, got>>

Spawn ==
    /\ phase = "starting"
    /\ phase' = "running"
    /\ UNCHANGED <<ended, dropped, sent, got>>

Deliver ==
    /\ phase # "gone"
    /\ ~dropped
    /\ Len(got) < Len(sent)
    /\ got' = Append(got, sent[Len(got) + 1])
    /\ UNCHANGED <<phase, ended, dropped, sent>>

ExitAfterEnd ==
    /\ phase # "gone"
    /\ ended
    /\ got = sent
    /\ phase' = "gone"
    /\ UNCHANGED <<ended, dropped, sent, got>>

ExitOnQuit ==
    /\ phase # "gone"
    /\ dropped
    /\ phase' = "gone"
    /\ UNCHANGED <<ended, dropped, sent, got>>

Next == \/ \E m \in Messages : Post(m)
        \/ End
        \/ Quit
        \/ Spawn
        \/ Deliver
        \/ ExitAfterEnd
        \/ ExitOnQuit

Spec == Init /\ [][Next]_vars

(* While the application does not quit, messages come out and a child that *)
(* has ended is reported.                                                  *)
FairSpec == /\ Spec
            /\ WF_vars(Deliver)
            /\ WF_vars(~dropped /\ ExitAfterEnd)

=============================================================================
