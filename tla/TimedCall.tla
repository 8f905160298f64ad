------------------------------ MODULE TimedCall ------------------------------
(***************************************************************************)
(* lock_test5.c: main holds a recursive mutex while it asks for a call of    *)
(* retry DELAY seconds later; timeout calls it at once, or makes a thread    *)
(* that sleeps first.  The clock goes on between any two steps.  A time has  *)
(* seconds and nanoseconds, of which a second has SECTONSEC.                 *)
(***************************************************************************)
EXTENDS Integers

CONSTANTS SECTONSEC,
          DELAY,   \* 10 seconds
          Starts,  \* the times at which the program may start
          LastSec  \* the clock stops then (a bound)

Time == [sec : Nat, nsec : 0..(SECTONSEC - 1)]

TimeAssumption ==
  SECTONSEC \in Nat \ {0} /\ DELAY \in Nat /\ LastSec \in Nat /\ Starts \subseteq Time

None == [sec |-> -1, nsec |-> 0]

VARIABLES clock,
          main, helper,  \* where the threads are
          when, now,     \* the time asked for, and the time when it was asked
          to_wait,
          wake,          \* when the sleep of the helper is over
          owner, depth,  \* the mutex
          called         \* when retry was called, None before (history)

vars == <<clock, main, helper, when, now, to_wait, wake, owner, depth, called>>

Before(s, t) == s.sec < t.sec \/ (s.sec = t.sec /\ s.nsec < t.nsec)
After(t, span) ==
  IF t.nsec + span.nsec < SECTONSEC THEN [sec |-> t.sec + span.sec, nsec |-> t.nsec + span.nsec]
  ELSE [sec |-> t.sec + span.sec + 1, nsec |-> t.nsec + span.nsec - SECTONSEC]

Init == /\ clock \in Starts
        /\ main = "lock" /\ helper = "none"
        /\ when = None /\ now = None /\ to_wait = None /\ wake = None
        /\ owner = "none" /\ depth = 0
        /\ called = None

Tick == /\ clock.sec < LastSec
        /\ clock' = After(clock, [sec |-> 0, nsec |-> 1])
        /\ UNCHANGED <<main, helper, when, now, to_wait, wake, owner, depth, called>>

-----------------------------------------------------------------------------
(* The mutex is recursive *)

Lock(t) == owner \in {"none", t} /\ owner' = t /\ depth' = depth + 1
Unlock == depth' = depth - 1 /\ owner' = IF depth = 1 THEN "none" ELSE owner

Goes(from, to) == main = from /\ main' = to /\ UNCHANGED <<clock, helper, wake>>
Helps(from, to) == helper = from /\ helper' = to /\ UNCHANGED <<clock, main, when, now, to_wait>>

-----------------------------------------------------------------------------
(* recursive_mutex_test1 and timeout *)

MainLocks == Goes("lock", "when") /\ Lock("main") /\ UNCHANGED <<when, now, to_wait, called>>

SetWhen == /\ Goes("when", "timeout")
           /\ when' = [clock EXCEPT !.sec = @ + DELAY]
           /\ UNCHANGED <<now, to_wait, owner, depth, called>>

\* nanoseconds are compared with seconds
InFuture(n) == when.sec > n.sec \/ (when.sec = n.sec /\ when.nsec > n.sec)

\* mutant: the seconds only
ToWait_Seconds(n) == [sec |-> IF when.nsec >= n.nsec THEN when.sec - n.sec ELSE when.sec - n.sec - 1,
                      nsec |-> 0]

ToWait(n) == IF when.nsec >= n.nsec THEN [sec |-> when.sec - n.sec, nsec |-> when.nsec - n.nsec]
             ELSE [sec |-> when.sec - n.sec - 1, nsec |-> SECTONSEC - n.nsec + when.nsec]

timeout == /\ main = "timeout"
           /\ now' = clock
           /\ IF InFuture(clock) THEN main' \in {"makethread", "exit"} /\ to_wait' = ToWait(clock)
              ELSE main' = "call" /\ UNCHANGED to_wait
           /\ UNCHANGED <<clock, helper, when, wake, owner, depth, called>>

\* if there is no thread retry is not called
makethread == /\ main = "makethread" /\ main' = "unlock"
              /\ helper' \in {"sleep", "none"}
              /\ UNCHANGED <<clock, when, now, to_wait, wake, owner, depth, called>>

CallNow == /\ Goes("call", "retry")
           /\ called' = clock
           /\ UNCHANGED <<when, now, to_wait, owner, depth>>
MainRetries == \/ Goes("retry", "retried") /\ Lock("main") /\ UNCHANGED <<when, now, to_wait, called>>
               \/ Goes("retried", "unlock") /\ Unlock /\ UNCHANGED <<when, now, to_wait, called>>

MainUnlocks == Goes("unlock", "exit") /\ Unlock /\ UNCHANGED <<when, now, to_wait, called>>

\* exit, which ends the helper as well
Exit == /\ main = "exit" /\ main' = "gone" /\ helper' = "gone"
        /\ UNCHANGED <<clock, when, now, to_wait, wake, owner, depth, called>>

recursive_mutex_test1 ==
  MainLocks \/ SetWhen \/ timeout \/ makethread \/ CallNow \/ MainRetries \/ MainUnlocks \/ Exit

-----------------------------------------------------------------------------
(* timeout_helper *)

\* a time to wait below 0 is refused
Sleep == /\ Helps("sleep", "asleep")
         /\ wake' = IF to_wait.sec < 0 THEN clock ELSE After(clock, to_wait)
         /\ UNCHANGED <<owner, depth, called>>
CallLater == /\ Helps("asleep", "retry")
             /\ ~Before(clock, wake)
             /\ called' = clock
             /\ UNCHANGED <<wake, owner, depth>>
HelperRetries == \/ Helps("retry", "retried") /\ Lock("helper") /\ UNCHANGED <<wake, called>>
                 \/ Helps("retried", "done") /\ Unlock /\ UNCHANGED <<wake, called>>

timeout_helper == Sleep \/ CallLater \/ HelperRetries

-----------------------------------------------------------------------------

Gone == main = "gone" /\ UNCHANGED vars

Next == Tick \/ recursive_mutex_test1 \/ timeout_helper \/ Gone

Spec == Init /\ [][Next]_vars

FairSpec == Spec /\ WF_vars(recursive_mutex_test1) /\ WF_vars(timeout_helper)

-----------------------------------------------------------------------------

\* "implements calling a function after some time" (lock_test5.c:6): retry is not
\* called before the time that was asked for.  Within the second of that time the
\* code calls it at once: it compares nanoseconds with seconds.
CalledInTime == called # None => ~Before(called, when) \/ now.sec = when.sec

\* The mutex is recursive for main only: what the helper does in retry it does while
\* main is outside its region, before or after.
RetryAlone == helper = "retried" => main \in {"exit", "gone"} /\ depth = 1

\* main comes to its exit: it never waits for the helper for good.
Ends == <>(main = "gone")

=============================================================================
