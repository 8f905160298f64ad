------------------------------ MODULE MCSignals ------------------------------
(* SignalsServer for TLC. *)
EXTENDS SignalsServer

CONSTANTS c1, c2, p1, p2

MCClients == {c1, c2}
MCPids == {p1, p2}

\* two nest one handler in another
MCMaxSignals == [p \in Programs |-> IF p = "abnormal_terminal_test" THEN 2 ELSE 3]

\* The fairness of FairSpec and of Server!FairSpec.  As serves never changes, only one
\* side of Either can ever be enabled in a behaviour: its fairness is that of this side.
Either(A, B) == \/ ~serves /\ A /\ UNCHANGED <<serves, server>>
                \/ serves /\ B /\ UNCHANGED <<serves, vars>>
MCSpec ==
  /\ AllSpec
  /\ WF_allvars(Either(Step("parent"), Server!main))
  /\ WF_allvars(Either(Step("child"), Server!sig_child_handler))
  /\ WF_allvars(Either(AlarmRings("parent"), Server!str_echo(p1)))
  /\ WF_allvars(Either(AlarmRings("child"), Server!str_echo(p2)))

=============================================================================
