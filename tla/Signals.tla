------------------------------- MODULE Signals -------------------------------
(***************************************************************************)
(* The programs of ch7_12_process/process_relation.c that wait for signals, *)
(* block them, jump out of handlers or wait for a child, and those of        *)
(* ch18_terminal_io/term_io.c that change the terminal.  A program is the    *)
(* sequence of its calls that concern signals; the kernel and the C library  *)
(* of Linux run it, in two processes if it forks: a signal may arrive        *)
(* between any two calls and within those that block, signal() restarts      *)
(* interrupted calls, setjmp does not save the mask.  A signal is delivered  *)
(* before the next call of a process that does not block it.                 *)
(***************************************************************************)
EXTENDS Integers, Sequences, SequencesExt

CONSTANTS Programs,   \* the programs to look at
          MaxSignals  \* how often the user sends one a signal (a bound of each)

Sigs == {"ALRM", "INT", "QUIT", "TSTP", "TERM", "USR1", "USR2", "CHLD", "ABRT"}
Procs == {"parent", "child"}

-----------------------------------------------------------------------------
(* The calls *)

signal(s, h) == [op |-> "signal", sig |-> s, handler |-> h]
sigaction_ignore(s) == [op |-> "ignore", sig |-> s]    \* saving the old action
sigaction_restore(s) == [op |-> "restore", sig |-> s]
sigaction_unignore(s) == [op |-> "unignore", sig |-> s] \* SIG_IGN becomes SIG_DFL
SIG_BLOCK(set) == [op |-> "block", set |-> set]        \* saving the old mask
SIG_SETMASK(set) == [op |-> "setmask", set |-> set]
SETMASK_oldmask == [op |-> "oldmask"]
alarm(on) == [op |-> "alarm", on |-> on]
kill(p, s) == [op |-> "kill", to |-> p, sig |-> s]
pause == [op |-> "pause"]
sigsuspend(set) == [op |-> "sigsuspend", set |-> set]
sleep == [op |-> "sleep"]
read == [op |-> "read"]
wait == [op |-> "wait"]
command == [op |-> "command"]                          \* exec, and what it runs
compute == [op |-> "compute"]
\* when longjmp comes back, skip calls are left out
sigsetjmp(skip) == [op |-> "setjmp", skip |-> skip, savemask |-> TRUE]
setjmp(skip) == [op |-> "setjmp", skip |-> skip, savemask |-> FALSE]
longjmp == [op |-> "longjmp"]
flag(value) == [op |-> "flag", value |-> value]        \* quitflag, sigflag, canjump
flag_on(s) == [op |-> "flag_on", sig |-> s]            \* set in the handler of s
return_unless_flag == [op |-> "return_unless_flag"]
skip_if_flag(skip) == [op |-> "skip_if_flag", skip |-> skip]
back(n) == [op |-> "back", n |-> n]
\* the child runs code; when fork fails, skip calls are left out
fork(code, skip) == [op |-> "fork", code |-> code, skip |-> skip]
go(set) == [op |-> "go", set |-> set]                  \* by one of these numbers of calls
exit == [op |-> "exit"]
\* when the call fails, skip calls are left out
tcgetattr(skip) == [op |-> "tcgetattr", skip |-> skip]
tcsetattr(mode, skip) == [op |-> "tcsetattr", mode |-> mode, skip |-> skip]
tcrestore(skip) == [op |-> "tcrestore", skip |-> skip] \* tcsetattr with what was saved
confirm(mode, skip) == [op |-> "confirm", mode |-> mode, skip |-> skip]
give_up(skip) == [op |-> "give_up", skip |-> skip]     \* tcrestore, and return of -1
ttystate(state) == [op |-> "ttystate", state |-> state]
skip_if_state(states, skip) == [op |-> "skip_if_state", states |-> states, skip |-> skip]

-----------------------------------------------------------------------------
(* The programs *)

sleep1 == <<signal("ALRM", "nop"), alarm(TRUE), pause, alarm(FALSE)>>

sleep2 == <<signal("ALRM", "alarm_sig_handler3"), setjmp(2), alarm(TRUE), pause, alarm(FALSE)>>

sig_test4 == sleep2
sleep2_again == sleep2 \o sleep2  \* a caller that sleeps a second time

sig_test5 == <<signal("INT", "sig_int1")>> \o sleep2
sig_int1 == <<compute>>

sig_test6 == <<signal("ALRM", "alarm_sig_handler5"), setjmp(0), alarm(TRUE), read, alarm(FALSE)>>

sig_child_test == <<signal("CHLD", "sig_child_handler"), fork("sleeper", 0), pause, sleep>>
sleeper == <<sleep>>
sig_child_handler == <<signal("CHLD", "sig_child_handler"), wait>>

sig_proc_mask_test1 ==
  <<signal("QUIT", "sig_quit_handler"), SIG_BLOCK({"QUIT"}), sleep, SETMASK_oldmask, sleep>>
sig_quit_handler == <<signal("QUIT", "SIG_DFL")>>

\* mutant: the flag is set before there is a place to jump to
sig_setjmp_test2_FlagFirst ==
  <<signal("USR1", "sig_usr1"), flag(TRUE), signal("ALRM", "nop"), sigsetjmp(2), pause, back(1)>>

sig_setjmp_test2 ==
  <<signal("USR1", "sig_usr1"), signal("ALRM", "nop"), sigsetjmp(3), flag(TRUE), pause, back(1)>>
sig_usr1 == <<return_unless_flag, alarm(TRUE), compute, flag(FALSE), longjmp>>

\* mutant: pause after the unblocking
sig_suspend_test1_Pause == <<signal("INT", "nop"), SIG_BLOCK({"INT"}), sleep, SETMASK_oldmask, pause>>

sig_suspend_test1 ==
  <<signal("INT", "nop"), SIG_BLOCK({"INT"}), sleep, sigsuspend({"USR1"}), SETMASK_oldmask>>

sig_suspend_test2 ==
  <<signal("INT", "int_signal_handler2"), signal("QUIT", "int_signal_handler2"), SIG_BLOCK({"QUIT"}),
    skip_if_flag(2), sigsuspend({}), back(2), flag(FALSE), SETMASK_oldmask>>
int_signal_handler2 == <<flag_on("QUIT")>>

TELL_WAIT == <<signal("USR1", "usr_signal_handler"), signal("USR2", "usr_signal_handler"),
               SIG_BLOCK({"USR1", "USR2"})>>
usr_signal_handler == <<flag(TRUE)>>
TELL_PARENT == <<kill("parent", "USR2")>>
TELL_CHILD == <<kill("child", "USR1")>>
WAIT_PARENT == <<skip_if_flag(2), sigsuspend({}), back(2), SETMASK_oldmask>>

WAIT_CHILD == <<skip_if_flag(2), sigsuspend({}), back(2), flag(FALSE), SETMASK_oldmask>>

\* how dead_lock_test of ch13_io/io_test.c wants them used
tell_wait == TELL_WAIT \o <<fork("tell_wait_child", 0)>> \o TELL_CHILD \o WAIT_CHILD
tell_wait_child == TELL_PARENT \o WAIT_PARENT

\* mutant: the signals are ignored when the child runs already
system_m1_Late == <<SIG_BLOCK({"CHLD"}), fork("system_child", 3),
  sigaction_ignore("INT"), sigaction_ignore("QUIT"), wait,
  sigaction_restore("INT"), sigaction_restore("QUIT"), SETMASK_oldmask>>

system_m1 == <<sigaction_ignore("INT"), sigaction_ignore("QUIT"), SIG_BLOCK({"CHLD"}),
  fork("system_child", 1), wait,
  sigaction_restore("INT"), sigaction_restore("QUIT"), SETMASK_oldmask>>
system_child == <<sigaction_restore("INT"), sigaction_restore("QUIT"), SETMASK_oldmask, command>>
\* callers with no handlers, with those of system_test1, or with one for SIGCHLD
\* that waits
system_test1 == <<signal("INT", "nop"), signal("CHLD", "nop")>> \o system_m1
system_waits == <<signal("INT", "nop"), signal("CHLD", "sig_child_handler")>> \o system_m1

abort1 == <<sigaction_unignore("ABRT"), SIG_SETMASK(Sigs \ {"ABRT"}), kill("parent", "ABRT"),
            signal("ABRT", "SIG_DFL"), SIG_SETMASK(Sigs \ {"ABRT"}), kill("parent", "ABRT")>>

\* tty_cbreak and tty_raw; when they return -1, skip calls after them are left out
tty_set(mode, state, skip) ==
  <<skip_if_state({"CBREAK", "RAW"}, 5 + skip), tcgetattr(4 + skip), tcsetattr(mode, 3 + skip),
    confirm(mode, 1), give_up(1 + skip), ttystate(state)>>
tty_cbreak(skip) == tty_set("cbreak", "CBREAK", skip)
tty_raw(skip) == tty_set("raw", "RAW", skip)

\* mutant: the state is set first
tty_reset_StateFirst(skip) == <<skip_if_state({"RESET"}, 2), ttystate("RESET"), tcrestore(skip)>>

\* the same when it returns -1
tty_reset(skip) == <<skip_if_state({"RESET"}, 2), tcrestore(1 + skip), ttystate("RESET")>>

\* Reads until DELETE, then until the end of the input; another end of the first loop
\* leaves out what follows.  err_ret of apue.h returns, err_sys does not.
abnormal_terminal_test ==
  <<signal("INT", "sig_catch"), signal("QUIT", "sig_catch"), signal("TERM", "sig_catch")>>
  \o tty_raw(20) \o <<read, go({-1, 1, 16})>>
  \o tty_reset(15) \o tty_cbreak(0) \o <<read, go({-1, 1})>> \o tty_reset(4) \o <<go({4})>>
  \o tty_reset(0)
sig_catch == tty_reset(0) \o <<exit>>

\* reads until the end of the line
getpass_m == <<SIG_BLOCK({"INT", "TSTP"}), tcgetattr(0), tcsetattr("noecho", 0), read, go({-1, 1}),
               tcrestore(0), SETMASK_oldmask>>
getpass_test == getpass_m \o <<exit>>

Code == [nop |-> <<>>, alarm_sig_handler3 |-> <<longjmp>>, alarm_sig_handler5 |-> <<longjmp>>,
  sleep1 |-> sleep1, sig_test4 |-> sig_test4, sleep2_again |-> sleep2_again, sig_test5 |-> sig_test5, sig_int1 |-> sig_int1,
  sig_test6 |-> sig_test6, sig_child_test |-> sig_child_test, sleeper |-> sleeper,
  sig_child_handler |-> sig_child_handler, sig_proc_mask_test1 |-> sig_proc_mask_test1,
  sig_quit_handler |-> sig_quit_handler, sig_setjmp_test2 |-> sig_setjmp_test2, sig_usr1 |-> sig_usr1,
  sig_suspend_test1 |-> sig_suspend_test1, sig_suspend_test2 |-> sig_suspend_test2,
  int_signal_handler2 |-> int_signal_handler2, usr_signal_handler |-> usr_signal_handler,
  tell_wait |-> tell_wait, tell_wait_child |-> tell_wait_child,
  system_m1 |-> system_m1, system_test1 |-> system_test1, system_waits |-> system_waits, system_child |-> system_child, abort1 |-> abort1,
  abnormal_terminal_test |-> abnormal_terminal_test, sig_catch |-> sig_catch, getpass_test |-> getpass_test]

Mains == {"sleep1", "sig_test4", "sleep2_again", "sig_test5", "sig_test6", "sig_child_test",
          "sig_proc_mask_test1", "sig_setjmp_test2", "sig_suspend_test1", "sig_suspend_test2",
          "tell_wait", "system_m1", "system_test1", "system_waits", "abort1",
          "abnormal_terminal_test", "getpass_test"}

\* the other functions are handlers, or run in a child
ASSUME ProgramsAssumption == Programs \subseteq Mains

\* the signals a user sends: those of the terminal go to both processes, and SIGTERM
\* stands for every other signal that ends a process
Sent == [sig_test5 |-> {"INT"}, sig_proc_mask_test1 |-> {"QUIT"}, sig_setjmp_test2 |-> {"USR1"},
         sig_suspend_test1 |-> {"INT", "USR1"}, sig_suspend_test2 |-> {"INT", "QUIT"},
         system_m1 |-> {"INT", "QUIT"}, system_test1 |-> {"INT", "QUIT"}, system_waits |-> {"INT", "QUIT"}, abort1 |-> {"INT"},
         abnormal_terminal_test |-> {"INT", "QUIT", "TSTP", "TERM"},
         getpass_test |-> {"INT", "QUIT", "TSTP", "TERM"}]

-----------------------------------------------------------------------------
(* The processes *)

VARIABLES program,  \* what runs
          proc,     \* the processes
          user,     \* how many signals the user has sent
          tty       \* the terminal, and what the program has noted of it

vars == <<program, proc, user, tty>>

\* one of the functions a process is in: where it stands, the signal it handles and
\* the mask for its return
Frame(code, sig, mask) == [code |-> code, pc |-> 1, sig |-> sig, restore |-> mask]

Idle == [status |-> "none",  \* or "running", "reaped", or how it ended
         stack |-> <<>>, inside |-> FALSE,  \* the last call blocks
         mask |-> {}, before |-> {},        \* the mask, and the one before sigsuspend
         oldmask |-> {}, pending |-> {},
         disp |-> [s \in Sigs |-> "SIG_DFL"], saved |-> [s \in Sigs |-> "SIG_DFL"],
         alarm |-> FALSE, rings |-> 0,      \* the handlers of SIGALRM started, up to 2
         flag |-> FALSE,
         jmp |-> [set |-> FALSE, depth |-> 0, pc |-> 0, savemask |-> FALSE, mask |-> {}],
         result |-> "none"]                 \* of the wait of the program

Init == /\ program \in Programs
        /\ user = 0
        /\ tty = [mode |-> "normal", saved |-> "none", ttystate |-> "RESET", failed |-> FALSE]
        /\ \E d \in (IF program = "abort1" THEN {"SIG_DFL", "SIG_IGN", "nop"} ELSE {"SIG_DFL"}) :
             proc = [parent |-> [Idle EXCEPT !.status = "running", !.disp["ABRT"] = d,
                                             !.stack = <<Frame(program, "none", {})>>],
                     child |-> Idle]

Running(p) == proc[p].status = "running"
Ended(p) == proc[p].status \notin {"none", "running"}
Zombie(p) == Ended(p) /\ proc[p].status # "reaped"
Deliverable(p) == proc[p].pending \ proc[p].mask

Top(p) == Last(proc[p].stack)
Instr(p) == Code[Top(p).code][Top(p).pc]
MoreToDo(p) == Top(p).pc <= Len(Code[Top(p).code])
Calls(p, op) == Running(p) /\ MoreToDo(p) /\ Instr(p).op = op

Advance(q, n) == [q EXCEPT !.stack[Len(q.stack)].pc = @ + n]

Ignored(q, s) == q.disp[s] = "SIG_IGN" \/ (s = "CHLD" /\ q.disp[s] = "SIG_DFL")

\* a signal that is ignored is gone, unless it is blocked
Sent_to(q, s) == IF q.status # "running" \/ (Ignored(q, s) /\ s \notin q.mask) THEN q
                 ELSE [q EXCEPT !.pending = @ \cup {s}]

\* the end of a process; the parent gets SIGCHLD
Ends(p, how) ==
  LET ended == [Idle EXCEPT !.status = how, !.mask = proc[p].mask, !.disp = proc[p].disp,
                            !.result = proc[p].result]
  IN proc' = IF p = "child" THEN [parent |-> Sent_to(proc["parent"], "CHLD"), child |-> ended]
             ELSE [proc EXCEPT ![p] = ended]

-----------------------------------------------------------------------------
(* Calls that do not block *)

Does(p, op, q) == /\ Calls(p, op)
                  /\ ~proc[p].inside
                  /\ Deliverable(p) = {}
                  /\ proc' = [proc EXCEPT ![p] = q]
                  /\ UNCHANGED <<program, user, tty>>

Signal(p) ==
  Does(p, "signal", Advance([proc[p] EXCEPT !.disp[Instr(p).sig] = Instr(p).handler], 1))

Ignore(p) ==
  Does(p, "ignore", Advance([proc[p] EXCEPT !.saved[Instr(p).sig] = proc[p].disp[Instr(p).sig],
                                            !.disp[Instr(p).sig] = "SIG_IGN",
                                            !.pending = @ \ {Instr(p).sig}], 1))

Restore(p) ==
  Does(p, "restore", Advance([proc[p] EXCEPT !.disp[Instr(p).sig] = proc[p].saved[Instr(p).sig]], 1))

Unignore(p) ==
  Does(p, "unignore", Advance([proc[p] EXCEPT !.disp[Instr(p).sig] =
                                 IF @ = "SIG_IGN" THEN "SIG_DFL" ELSE @], 1))

Block(p) == Does(p, "block", Advance([proc[p] EXCEPT !.oldmask = proc[p].mask,
                                                     !.mask = @ \cup Instr(p).set], 1))

SetMask(p) == \/ Does(p, "setmask", Advance([proc[p] EXCEPT !.mask = Instr(p).set], 1))
              \/ Does(p, "oldmask", Advance([proc[p] EXCEPT !.mask = proc[p].oldmask], 1))

Alarm(p) == Does(p, "alarm", Advance([proc[p] EXCEPT !.alarm = Instr(p).on], 1))

Compute(p) == Does(p, "compute", Advance(proc[p], 1))

Setjmp(p) ==
  Does(p, "setjmp", Advance([proc[p] EXCEPT !.jmp =
        [set |-> TRUE, depth |-> Len(proc[p].stack), pc |-> Top(p).pc + 1 + Instr(p).skip,
         savemask |-> Instr(p).savemask, mask |-> proc[p].mask]], 1))

\* back to the function that called setjmp
Longjmp(p) ==
  LET j == proc[p].jmp IN
  /\ j.set
  /\ Does(p, "longjmp", [proc[p] EXCEPT !.stack = [SubSeq(@, 1, j.depth) EXCEPT ![j.depth].pc = j.pc],
                                        !.mask = IF j.savemask THEN j.mask ELSE @])

Flag(p) ==
  \/ Does(p, "flag", Advance([proc[p] EXCEPT !.flag = Instr(p).value], 1))
  \/ Does(p, "flag_on", Advance([proc[p] EXCEPT !.flag = @ \/ Top(p).sig = Instr(p).sig], 1))
  \/ Does(p, "return_unless_flag", Advance(proc[p], IF proc[p].flag THEN 1 ELSE Len(Code[Top(p).code])))
  \/ Does(p, "skip_if_flag", Advance(proc[p], IF proc[p].flag THEN 1 + Instr(p).skip ELSE 1))

Back(p) == /\ Calls(p, "back") /\ Deliverable(p) = {}
           /\ proc' = [proc EXCEPT ![p].stack[Len(proc[p].stack)].pc = @ - Instr(p).n]
           /\ UNCHANGED <<program, user, tty>>

Kill(p) ==
  /\ Calls(p, "kill") /\ Deliverable(p) = {}
  /\ LET to == Instr(p).to
         called == [proc EXCEPT ![p] = Advance(@, 1)]
     IN proc' = [called EXCEPT ![to] = Sent_to(@, Instr(p).sig)]
  /\ UNCHANGED <<program, user, tty>>

\* the child has what the parent has, but no pending signal and no alarm; the caller
\* of TELL_WAIT has no use for a fork that fails
Fork(p) ==
  /\ Calls(p, "fork") /\ Deliverable(p) = {}
  /\ \/ proc' = [parent |-> Advance(proc[p], 1),
                  child |-> [proc[p] EXCEPT !.stack = <<Frame(Instr(p).code, "none", {})>>,
                                            !.pending = {}, !.alarm = FALSE]]
     \/ program # "tell_wait" /\ proc' = [proc EXCEPT ![p] = Advance(@, 1 + Instr(p).skip)]
  /\ UNCHANGED <<program, user, tty>>

Go(p) == \E n \in (IF Calls(p, "go") THEN Instr(p).set ELSE {}) : Does(p, "go", Advance(proc[p], n))

Exit(p) == /\ Calls(p, "exit") /\ Deliverable(p) = {}
           /\ Ends(p, "exited")
           /\ UNCHANGED <<program, user, tty>>

-----------------------------------------------------------------------------
(* The terminal *)

Uses(p, op, n, used) ==
  /\ Calls(p, op) /\ Deliverable(p) = {}
  /\ proc' = [proc EXCEPT ![p] = Advance(@, n)]
  /\ tty' = used
  /\ UNCHANGED <<program, user>>

\* tcsetattr that is to restore the terminal, and what is left of that when it makes
\* some of the changes only, which it does not tell, or none
Restored == [tty EXCEPT !.mode = tty.saved]
HalfRestored == [tty EXCEPT !.mode = "partly", !.failed = TRUE]
NotRestored == [tty EXCEPT !.failed = TRUE]

\* Whoever passes over nothing when tcgetattr fails works with what was on its stack.
\* tcsetattr may make some of the changes and return 0: tty_cbreak and tty_raw compare,
\* if the second tcgetattr does not fail.
Terminal(p) ==
  /\ Running(p) /\ MoreToDo(p)
  /\ LET i == Instr(p) IN
     \/ Uses(p, "tcgetattr", 1, [tty EXCEPT !.saved = tty.mode])
     \/ /\ i.op = "tcgetattr"
        /\ Uses(p, "tcgetattr", 1 + i.skip, IF i.skip = 0 THEN [tty EXCEPT !.saved = "garbage"] ELSE tty)
     \/ i.op = "tcsetattr" /\ \E mode \in {i.mode, "partly"} : Uses(p, "tcsetattr", 1, [tty EXCEPT !.mode = mode])
     \/ i.op = "tcsetattr" /\ Uses(p, "tcsetattr", 1 + i.skip, tty)
     \/ \E t \in {Restored, HalfRestored} : Uses(p, "tcrestore", 1, t)
     \/ i.op = "tcrestore" /\ Uses(p, "tcrestore", 1 + i.skip, NotRestored)
     \/ i.op = "confirm" /\ tty.mode = i.mode /\ Uses(p, "confirm", 1 + i.skip, tty)
     \/ Uses(p, "confirm", 1, tty)
     \/ i.op = "give_up" /\ \E t \in {Restored, HalfRestored, NotRestored} : Uses(p, "give_up", 1 + i.skip, t)
     \/ i.op = "ttystate" /\ Uses(p, "ttystate", 1, [tty EXCEPT !.ttystate = i.state])
     \/ i.op = "skip_if_state"
        /\ Uses(p, "skip_if_state", IF tty.ttystate \in i.states THEN 1 + i.skip ELSE 1, tty)

-----------------------------------------------------------------------------
(* Calls that block *)

Interruptible == {"pause", "sigsuspend", "sleep"}  \* the others are restarted
Blocking == Interruptible \cup {"read", "wait", "command"}

\* sigsuspend changes the mask as it starts to wait; exec resets the handlers
Enter(p) ==
  /\ Running(p) /\ MoreToDo(p) /\ Instr(p).op \in Blocking
  /\ ~proc[p].inside
  /\ Deliverable(p) = {}
  /\ proc' = [proc EXCEPT
       ![p].inside = TRUE,
       ![p].before = IF Instr(p).op = "sigsuspend" THEN proc[p].mask ELSE {},
       ![p].mask = IF Instr(p).op = "sigsuspend" THEN Instr(p).set ELSE @,
       ![p].disp = IF Instr(p).op # "command" THEN @
                   ELSE [s \in Sigs |-> IF @[s] = "SIG_IGN" THEN "SIG_IGN" ELSE "SIG_DFL"]]
  /\ UNCHANGED <<program, user, tty>>

Leave(p, q) == /\ proc[p].inside
               /\ proc' = [proc EXCEPT ![p] = Advance([q EXCEPT !.inside = FALSE], 1)]
               /\ UNCHANGED <<program, user, tty>>

Completes(p) == (Calls(p, "sleep") \/ Calls(p, "command")) /\ Leave(p, proc[p])

Input(p) == Calls(p, "read") /\ Leave(p, proc[p])

InMain(p) == Len(proc[p].stack) = 1

\* the parent learns how the child ended, or that it has none
Reap ==
  /\ Calls("parent", "wait") /\ proc["parent"].inside
  /\ ~Running("child")
  /\ LET how == IF Zombie("child") THEN proc["child"].status ELSE "ECHILD"
         q == IF InMain("parent") THEN [proc["parent"] EXCEPT !.result = how] ELSE proc["parent"]
     IN proc' = [parent |-> Advance([q EXCEPT !.inside = FALSE], 1),
                 child |-> IF Zombie("child") THEN [Idle EXCEPT !.status = "reaped"] ELSE proc["child"]]
  /\ UNCHANGED <<program, user, tty>>

-----------------------------------------------------------------------------
(* Signals, and the ends of functions *)

\* the handler starts; a call that was interrupted is over or will be made again
Handle(p, s) ==
  LET q == proc[p]
      interrupted == q.inside /\ Instr(p).op \in Interruptible
      suspended == q.inside /\ Instr(p).op = "sigsuspend"
      below == (IF interrupted THEN Advance(q, 1) ELSE q).stack
      restore == IF suspended THEN q.before ELSE q.mask
  IN proc' = [proc EXCEPT ![p] =
       [q EXCEPT !.stack = Append(below, Frame(q.disp[s], s, restore)),
                 !.inside = FALSE,
                 !.mask = @ \cup {s},
                 !.pending = @ \ {s},
                 !.rings = IF s = "ALRM" /\ @ < 2 THEN @ + 1 ELSE @]]

Deliver(p) ==
  /\ Running(p)
  /\ \E s \in Deliverable(p) :
       \/ Ignored(proc[p], s) /\ proc' = [proc EXCEPT ![p].pending = @ \ {s}]
       \/ ~Ignored(proc[p], s) /\ proc[p].disp[s] = "SIG_DFL" /\ Ends(p, s)
       \/ proc[p].disp[s] \notin {"SIG_DFL", "SIG_IGN"} /\ Handle(p, s)
  /\ UNCHANGED <<program, user, tty>>

Return(p) ==
  /\ Running(p) /\ ~MoreToDo(p) /\ Deliverable(p) = {}
  /\ IF InMain(p) THEN Ends(p, "exited")
     ELSE proc' = [proc EXCEPT ![p].stack = Front(@), ![p].mask = Top(p).restore]
  /\ UNCHANGED <<program, user, tty>>

AlarmRings(p) ==
  /\ Running(p) /\ proc[p].alarm
  /\ proc' = [proc EXCEPT ![p] = Sent_to([@ EXCEPT !.alarm = FALSE], "ALRM")]
  /\ UNCHANGED <<program, user, tty>>

\* SIGINT, SIGQUIT and SIGTSTP come from the terminal, if it is not raw, to both
\* processes
UserSends ==
  /\ user < MaxSignals[program] /\ user' = user + 1
  /\ program \in DOMAIN Sent
  /\ \E s \in Sent[program] :
       /\ tty.mode = "raw" => s \notin {"INT", "QUIT", "TSTP"}
       /\ proc' = [p \in Procs |-> IF p = "parent" \/ s # "USR1" THEN Sent_to(proc[p], s) ELSE proc[p]]
  /\ UNCHANGED <<program, tty>>

Step(p) == \/ Signal(p) \/ Ignore(p) \/ Restore(p) \/ Unignore(p) \/ Block(p) \/ SetMask(p)
           \/ Go(p) \/ Exit(p) \/ Terminal(p) \/ Alarm(p) \/ Compute(p) \/ Setjmp(p) \/ Longjmp(p) \/ Flag(p) \/ Back(p) \/ Kill(p)
           \/ Fork(p) \/ Enter(p) \/ Completes(p) \/ Return(p) \/ Deliver(p)
           \/ p = "parent" /\ Reap

Next == UserSends \/ \E p \in Procs : Step(p) \/ Input(p) \/ AlarmRings(p)

Spec == Init /\ [][Next]_vars

\* processes run, alarms ring; nobody has to type
FairSpec == Spec /\ \A p \in Procs : WF_vars(Step(p)) /\ WF_vars(AlarmRings(p))

-----------------------------------------------------------------------------

\* Where the main function of the parent stands; behind its end when it has ended.
At == IF Running("parent") THEN proc["parent"].stack[1].pc ELSE Len(Code[program]) + 1
Finished == Running("parent") /\ InMain("parent") /\ At > Len(Code[program])

\* A handler jumps only to a place that was noted, in a function that still runs
\* (process_relation.c:762: canjump keeps sig_usr1 from jumping too early).
JumpSafe == \A p \in Procs : Calls(p, "longjmp") =>
              proc[p].jmp.set /\ proc[p].jmp.depth < Len(proc[p].stack)

\* A program that returns normally has the mask it had before, although handlers
\* block signals, sigsuspend changes the mask and siglongjmp leaves a handler; only
\* sleep2 and abort1 do not see to it.
MaskRestored == Finished /\ program \notin {"sig_test4", "sleep2_again", "sig_test5", "sig_test6", "abort1"} =>
                  proc["parent"].mask = {}

\* "Why does the alarm run only once?" (process_relation.c:522): longjmp leaves the
\* handler with SIGALRM blocked.  It is never handled again, and a second call of
\* sleep2 after one that the alarm ended does not return.
AlarmOnce == program \in {"sleep2_again", "sig_test6"} =>
               proc["parent"].rings <= 1 /\ (program = "sleep2_again" => ~Ended("parent"))

\* With TELL and WAIT nobody goes on before the other has come so far, and nobody is
\* killed by a signal.
Rendezvous ==
  program = "tell_wait" =>
    /\ At > Len(tell_wait) => Ended("child") \/ proc["child"].stack[1].pc > Len(TELL_PARENT)
    /\ Ended("child") => At > Len(TELL_WAIT) + 1 + Len(TELL_CHILD)
    /\ \A p \in Procs : proc[p].status \in {"none", "running", "exited", "reaped"}

\* As long as the command of system_m1 exists, SIGINT and SIGQUIT neither end the
\* caller nor start its handlers, and no handler of the caller takes the status of
\* the command; afterwards the actions are those of before.
SystemTransparent ==
  program \in {"system_m1", "system_test1", "system_waits"} =>
    /\ Running("child") \/ Zombie("child") => Running("parent") /\ InMain("parent")
    /\ Finished =>
         /\ proc["child"].status = "reaped" => proc["parent"].result \notin {"none", "ECHILD"}
         /\ proc["parent"].disp["INT"] = IF program = "system_m1" THEN "SIG_DFL" ELSE "nop"
         /\ proc["parent"].disp["QUIT"] = "SIG_DFL"

\* Once abort1 has blocked the other signals the process ends with SIGABRT and with
\* nothing else, whatever it does about the signal.
AbortsOnly == program = "abort1" /\ Running("parent") /\ At > 2 /\ Ended("parent")' =>
                proc'["parent"].status = "ABRT"

\* tty_raw or tty_cbreak has changed the terminal and not yet set ttystate.
Unnoted == At \in DOMAIN Code[program] /\
           LET i == Code[program][At]
           IN i.op \in {"confirm", "give_up"} \/ (i.op = "ttystate" /\ i.state # "RESET")

\* However a program of the terminal ends or is stopped, it leaves the terminal as it
\* was, with exactly these exceptions.  A call that was to restore it has failed: nobody
\* looks at the result, or only to give up (term_io.c:729, 739, 802, 812, 831).
\* getpass_m has saved garbage, as it does not look whether tcgetattr fails.  A signal
\* came that getpass_m does not block (of SIGQUIT term_io.c:656 knows it), or that
\* abnormal_terminal_test does not catch, as SIGTSTP; or one that it does catch while
\* ttystate, on which sig_catch relies, was not set yet.
TerminalRestored ==
  program \in {"abnormal_terminal_test", "getpass_test"} /\ Running("parent") /\ Ended("parent")' =>
    \/ tty.mode = "normal" \/ tty.failed
    \/ /\ program = "getpass_test"
       /\ tty.saved = "garbage" \/ proc'["parent"].status \in {"QUIT", "TERM"}
    \/ /\ program = "abnormal_terminal_test"
       /\ Unnoted \/ proc'["parent"].status = "TSTP"

\* The parent waits for a signal that came before its pause.
Missed == /\ Calls("parent", "pause") /\ proc["parent"].inside
          /\ proc["parent"].pending = {} /\ ~proc["parent"].alarm
          /\ ~Running("child")

\* Every program ends that does not wait for the user; sleep1 and sig_child_test do
\* unless their signal comes before they pause ("the handler may run before pause",
\* process_relation.c:425).
WaitsForUser == {"sig_test6", "sig_setjmp_test2", "sleep2_again", "sig_suspend_test1", "sig_suspend_test2",
                 "abnormal_terminal_test", "getpass_test"}
ProgramsEnd ==
  <>(\/ program \in WaitsForUser \/ Ended("parent")
     \/ program \in {"sleep1", "sig_child_test"} /\ Missed)

\* A signal that comes while the main function blocks it is held back, so that the
\* critical regions of sig_proc_mask_test1 and sig_suspend_test1 are not interrupted.
NotInterrupted ==
  program \in {"sig_proc_mask_test1", "sig_suspend_test1"} /\ At \in {3, 4} => InMain("parent")

\* It is not lost either: it ends the sigsuspend (process_relation.c:810 and 850), and
\* with it the program.
Blocked(s) == InMain("parent") /\ s \in proc["parent"].pending /\ s \in proc["parent"].mask
HeldBack == \/ program = "sig_suspend_test1" /\ Blocked("INT")
            \/ program = "sig_suspend_test2" /\ Blocked("QUIT")
NotLost == HeldBack ~> Ended("parent")

=============================================================================
