---------------------------- MODULE SignalThread ----------------------------
(***************************************************************************)
(* signal_test1.c: main blocks SIGINT and SIGQUIT for the whole process and  *)
(* makes a thread that takes them with sigwait; SIGQUIT sets quitflag, for   *)
(* which main waits.  The user may send a signal between any two steps.      *)
(***************************************************************************)
EXTENDS Naturals

CONSTANTS MaxSignals,  \* how often the user sends one, and how often main wakes
          MaxWakeups   \*   without being woken (bounds)

UserAssumption == MaxSignals \in Nat /\ MaxWakeups \in Nat

SIGINT == 2
SIGQUIT == 3
mask == {SIGINT, SIGQUIT}

VARIABLES main, thread,  \* where the threads are
          quitflag,
          lock,          \* who holds the mutex
          waitloc,       \* main at the condition: "none", "waits" or "woken"
          blocked,       \* the signals are blocked
          pending,
          signals,       \* how many the user has sent
          wakeups,       \* how often main woke without being woken
          quits          \* SIGQUIT has been taken by the thread (history)

vars == <<main, thread, quitflag, lock, waitloc, blocked, pending, signals, wakeups, quits>>

Init == /\ main = "block" /\ thread = "none"
        /\ quitflag = 0
        /\ lock = "free" /\ waitloc = "none"
        /\ blocked = FALSE /\ pending = {}
        /\ signals = 0 /\ wakeups = 0 /\ quits = FALSE

Over == {"exited", "failed", "killed"}

\* A signal that nobody blocks ends the process; one that is pending already is lost.
User == /\ main \notin Over /\ signals < MaxSignals
        /\ signals' = signals + 1
        /\ \E sig \in mask :
             IF blocked THEN pending' = pending \cup {sig} /\ UNCHANGED <<main, thread>>
             ELSE main' = "killed" /\ thread' = "gone" /\ UNCHANGED pending
        /\ UNCHANGED <<quitflag, lock, waitloc, blocked, wakeups, quits>>

-----------------------------------------------------------------------------
(* thread_signal_test1 *)

Goes(from, to) == main = from /\ main' = to /\ UNCHANGED <<signals, quits>>
Alone == UNCHANGED <<thread, wakeups>>
Exits(status) == main' = status /\ thread' = "gone"

Block == /\ Goes("block", "create")
         /\ blocked' = TRUE
         /\ Alone /\ UNCHANGED <<quitflag, lock, waitloc, pending>>

\* ASSERT ends the process
Create == /\ main = "create"
          /\ (main' = "lock" /\ thread' = "sigwait") \/ Exits("failed")
          /\ UNCHANGED <<quitflag, lock, waitloc, blocked, pending, signals, wakeups, quits>>

Lock == /\ Goes("lock", "test") /\ lock = "free"
        /\ lock' = "main"
        /\ Alone /\ UNCHANGED <<quitflag, waitloc, blocked, pending>>

Test == /\ Goes("test", IF quitflag = 0 THEN "wait" ELSE "unlock")
        /\ Alone /\ UNCHANGED <<quitflag, lock, waitloc, blocked, pending>>

\* it gives up the mutex in the step in which it begins to wait
CondWait == /\ Goes("wait", "asleep")
            /\ lock' = "free" /\ waitloc' = "waits"
            /\ Alone /\ UNCHANGED <<quitflag, blocked, pending>>

\* mutant: main does not look again at what it waits for
Wake_If == /\ waitloc = "woken" \/ wakeups < MaxWakeups
           /\ wakeups' = IF waitloc = "woken" THEN wakeups ELSE wakeups + 1
           /\ Goes("asleep", "unlock") /\ lock = "free"
           /\ lock' = "main" /\ waitloc' = "none"
           /\ UNCHANGED <<thread, quitflag, blocked, pending>>

\* it may return although nobody has signalled the condition
Wake == /\ waitloc = "woken" \/ wakeups < MaxWakeups
        /\ wakeups' = IF waitloc = "woken" THEN wakeups ELSE wakeups + 1
        /\ Goes("asleep", "test") /\ lock = "free"
        /\ lock' = "main" /\ waitloc' = "none"
        /\ UNCHANGED <<thread, quitflag, blocked, pending>>

Unlock == /\ Goes("unlock", "clear")
          /\ lock' = "free"
          /\ Alone /\ UNCHANGED <<quitflag, waitloc, blocked, pending>>

Clear == /\ Goes("clear", "restore")
         /\ quitflag' = 0
         /\ Alone /\ UNCHANGED <<lock, waitloc, blocked, pending>>

\* a signal that came meanwhile ends the process
Restore == /\ main = "restore"
           /\ IF pending = {} THEN main' = "exit" /\ UNCHANGED thread ELSE Exits("killed")
           /\ blocked' = FALSE
           /\ UNCHANGED <<quitflag, lock, waitloc, pending, signals, wakeups, quits>>

Exit == /\ main = "exit" /\ Exits("exited")
        /\ UNCHANGED <<quitflag, lock, waitloc, blocked, pending, signals, wakeups, quits>>

Proceed == Block \/ Create \/ Lock \/ Test \/ CondWait \/ Unlock \/ Clear \/ Restore \/ Exit

thread_signal_test1 == Proceed \/ Wake

-----------------------------------------------------------------------------
(* thread_fun *)

Steps(from, to) == thread = from /\ thread' = to /\ UNCHANGED <<main, blocked, signals, wakeups>>

\* SIGINT is only reported
SigWait == \E sig \in pending :
             /\ Steps("sigwait", IF sig = SIGQUIT THEN "lock" ELSE "sigwait")
             /\ pending' = pending \ {sig}
             /\ quits' = (quits \/ sig = SIGQUIT)
             /\ UNCHANGED <<quitflag, lock, waitloc>>

ThreadLocks == /\ Steps("lock", "set") /\ lock = "free"
               /\ lock' = "thread"
               /\ UNCHANGED <<quitflag, waitloc, pending, quits>>

SetFlag == /\ Steps("set", "unlock")
           /\ quitflag' = 1
           /\ UNCHANGED <<lock, waitloc, pending, quits>>

ThreadUnlocks == /\ Steps("unlock", "signal")
                 /\ lock' = "free"
                 /\ UNCHANGED <<quitflag, waitloc, pending, quits>>

CondSignal == /\ Steps("signal", "done")
              /\ waitloc' = IF waitloc = "waits" THEN "woken" ELSE waitloc
              /\ UNCHANGED <<quitflag, lock, pending, quits>>

thread_fun == SigWait \/ ThreadLocks \/ SetFlag \/ ThreadUnlocks \/ CondSignal

-----------------------------------------------------------------------------

\* the process is over, or the user does nothing more
Rest == (main \in Over \/ signals = MaxSignals) /\ UNCHANGED vars

Next == User \/ thread_signal_test1 \/ thread_fun \/ Rest

Spec == Init /\ [][Next]_vars

\* main is not sure to wake without being woken
FairSpec == /\ Spec
            /\ WF_vars(Proceed \/ (waitloc = "woken" /\ Wake))
            /\ WF_vars(thread_fun)

-----------------------------------------------------------------------------

\* "SIGQUIT has been caught and now blocked" (signal_test1.c:42): main passes its loop
\* only when the thread has taken SIGQUIT and has done with quitflag and the mutex,
\* however often SIGINT comes and whenever main wakes; and a process that ends well
\* has lost no signal.
StopsOnQuit ==
  /\ main \in {"unlock", "clear", "restore", "exit", "exited"} =>
       quits /\ thread \in {"signal", "done", "gone"}
  /\ main = "exited" => pending = {}

\* The condition is signalled after the mutex is given up and only to who waits then:
\* main does not wait while quitflag is set unless the thread is about to signal.
WakeupNotLost == waitloc = "waits" /\ quitflag = 1 => thread \in {"unlock", "signal"}

\* When the user has sent SIGQUIT and the signals are blocked the process ends.
QuitEnds == (SIGQUIT \in pending) ~> main \in Over

=============================================================================
