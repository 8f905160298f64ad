----------------------------- MODULE EchoService -----------------------------
(***************************************************************************)
(* What a TCP echo server promises each of its clients, however it serves    *)
(* the others: what was sent comes back, once.  A connection that the service *)
(* has taken it leaves only when it has failed, or when the client has        *)
(* finished and has got everything; one that it does not take it has not     *)
(* echoed anything to.  EchoServer and ForkServer implement it.               *)
(***************************************************************************)
EXTENDS Naturals

CONSTANTS Clients

VARIABLES phase,   \* of each connection: "closed", "open", "finished" (the client has sent
                   \*   FIN), "failed", or "refused" (over, but the client goes on)
          taken,   \* the service has taken it
          sent, echoed

vars == <<phase, taken, sent, echoed>>

Init == /\ phase = [c \in Clients |-> "closed"]
        /\ taken = [c \in Clients |-> FALSE]
        /\ sent = [c \in Clients |-> 0]
        /\ echoed = [c \in Clients |-> 0]

Turns(c, from, to) == phase[c] \in from /\ phase' = [phase EXCEPT ![c] = to]

Connect(c) == /\ Turns(c, {"closed"}, "open")
              /\ sent' = [sent EXCEPT ![c] = 0]
              /\ echoed' = [echoed EXCEPT ![c] = 0]
              /\ UNCHANGED taken

Send(c) == /\ phase[c] \in {"open", "refused"}
           /\ sent' = [sent EXCEPT ![c] = @ + 1]
           /\ UNCHANGED <<phase, taken, echoed>>

Leave(c) == /\ \/ Turns(c, {"open"}, "finished")
               \/ Turns(c, {"open", "finished"}, "failed")
               \/ Turns(c, {"refused"}, "closed")
            /\ UNCHANGED <<taken, sent, echoed>>

Take(c) == /\ phase[c] \in {"open", "finished", "failed"} /\ ~taken[c]
           /\ taken' = [taken EXCEPT ![c] = TRUE]
           /\ UNCHANGED <<phase, sent, echoed>>

Echo(c) == /\ phase[c] \in {"open", "finished"} /\ taken[c]
           /\ \E k \in 1..(sent[c] - echoed[c]) : echoed' = [echoed EXCEPT ![c] = @ + k]
           /\ UNCHANGED <<phase, taken, sent>>

Close(c) == /\ taken[c]
            /\ taken' = [taken EXCEPT ![c] = FALSE]
            /\ \/ Turns(c, {"failed"}, "closed")
               \/ echoed[c] = sent[c] /\ Turns(c, {"finished"}, "closed")
            /\ UNCHANGED <<sent, echoed>>

Refuse(c) == /\ ~taken[c] /\ echoed[c] = 0
             /\ Turns(c, {"open"}, "refused") \/ Turns(c, {"finished", "failed"}, "closed")
             /\ UNCHANGED <<taken, sent, echoed>>

Next == \E c \in Clients :
          Connect(c) \/ Send(c) \/ Leave(c) \/ Take(c) \/ Echo(c) \/ Close(c) \/ Refuse(c)

Spec == Init /\ [][Next]_vars

=============================================================================
