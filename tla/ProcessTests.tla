--------------------------- MODULE ProcessTests ---------------------------
(***************************************************************************)
(* The programs of ch7_12_process/process_control.c and                      *)
(* process_enviroment.c: fork and vfork, the statuses that wait returns,     *)
(* orphans, system(), exit handlers.  What the shell commands of the tests   *)
(* print is left out; what matters is the status they end with.              *)
(***************************************************************************)
EXTENDS Unix

pr_exit == <<print(<<show("exit", <<"status">>)>>)>>

\* one of the shell's commands: its status is n, 127 when there is no command
command(n) == <<exit(n)>>

process_test1 == func(<<
  set("g_var", 6), set("var", 88),
  write("1", <<say("This is a process test.")>>),
  print(<<say("before fork:")>>),
  fork("pid", <<return>>,
       <<add("g_var", 1), add("var", 1)>>,
       <<print(<<say("child pid")>>), sleep>>),
  print(<<show("vars", <<"g_var", "var">>)>>),
  exit(0)>>)

process_test2 == func(<<
  set("g_var", 6), set("var", 88),
  print(<<say("before fork:")>>),
  vfork("pid", <<return>>,
        <<add("g_var", 1), add("var", 1), set("i", 0),
          loop(<<when("i", 0..4, <<>>, <<break>>), add("i", 1),
                 print(<<show("child running", <<"i">>)>>), sleep>>),
          print(<<say("child exit")>>), _exit(0)>>,
        <<print(<<say("parent running")>>), print(<<say("parent exit")>>)>>),
  print(<<show("vars", <<"g_var", "var">>)>>),
  exit(0)>>)

\* Each child ends in another way; err_sys only prints.
process_test3 == func(
  LET child(end) == <<fork("pid", <<return>>, <<print(<<say("finish")>>), end>>, <<>>),
                      wait("w")>> \o pr_exit
  IN child(exit(7)) \o child(die(6)) \o child(die(8)))

process_test4 == func(<<
  fork("pid", <<return>>,
       <<fork("pid", <<return>>, <<>>, <<print(<<say("first child")>>), exit(0)>>),
         print(<<say("second child running")>>), sleep,
         print(<<say("second child exit")>>), exit(0)>>,
       <<print(<<say("main process")>>)>>),
  waitpid("w", "pid"),
  exit(0)>>)

process_test5_Stopped(body, n) == <<
  fork("cpid", <<exit(1)>>,
       <<print(<<say("Child PID")>>)>> \o body \o <<_exit(n)>>,
       <<loop(<<waitnews("w", "cpid"),
                when("w", Failed, <<exit(1)>>, <<>>),
                print(<<show("child", <<"status">>)>>),
                when("status", {1018}, <<>>, <<break>>)>>),
         print(<<say("parent exit")>>), exit(0)>>)>>

\* body is what the argument makes the child do first: pause without one
process_test5(body, n) == <<
  fork("cpid", <<exit(1)>>,
       <<print(<<say("Child PID")>>)>> \o body \o <<_exit(n)>>,
       <<loop(<<waitnews("w", "cpid"),
                when("w", Failed, <<exit(1)>>, <<>>),
                print(<<show("child", <<"status">>)>>),
                when("status", {1018, 1019}, <<>>, <<break>>)>>),
         print(<<say("parent exit")>>), exit(0)>>)>>

charatatime(c) == <<print(<<say(c)>>), print(<<say(c)>>), print(<<say(c)>>)>>

rise_condition_test == func(<<
  fork("pid", <<return>>, charatatime("c"), charatatime("p")), exit(0)>>)

\* exec fails when the file is not there: the child goes on as its own parent
interp_test(call) == func(<<
  fork("pid", <<return>>, <<call, return>>, <<>>),
  waitpid("w", "pid"),
  exit(0)>>)

bash_script_test(call) == func(<<
  fork("pid", <<return>>, <<print(<<say("child pid")>>), call>>, <<print(<<say("parent pid")>>), sleep>>),
  waitpid("w", "pid"),
  when("w", Failed, <<print(<<say("waitpid failed")>>)>>, <<>>),
  exit(0)>>)

system(body) == <<
  fork("sys", <<set("status", -1)>>, <<exec(body)>>, <<waitpid("w", "sys")>>)>>

system_test == <<>>
  \o system(command(0)) \o pr_exit
  \o system(command(127)) \o pr_exit
  \o system(command(44)) \o pr_exit
  \o <<exit(0)>>

do_cmd(n) == func(<<print(<<say("command")>>)>> \o system(command(n)) \o
                  <<when("status", Failed, <<return>>, <<>>)>> \o pr_exit)

process_times_test == do_cmd(0) \o do_cmd(3) \o <<exit(0)>>

system_m(body) == func(<<
  fork("sys", <<set("status", Undefined), return>>,
       <<exec(body), _exit(127)>>,
       <<loop(<<waitintr("w", "sys"),
                when("w", Failed,
                     <<when("errno", {4}, <<>>, <<set("status", -1), break>>)>>,
                     <<break>>)>>)>>)>>)

system_m_test == system_m(command(0)) \o pr_exit
              \o system_m(command(127)) \o pr_exit
              \o system_m(command(44)) \o pr_exit

process_counter_test == <<
  fork("pid", <<>>, <<>>, <<sleep, exit(2)>>),
  fork("pid", <<>>, <<>>, <<sleep, die(6)>>),
  fork("pid", <<>>, <<>>, <<exec(command(0)), exit(7)>>),
  fork("pid", <<>>, <<>>, <<sleep, exit(0)>>),
  sleep, die(9)>>

my_exit(k) == <<print(<<say(k)>>)>>
exit_test == func(<<
  mayfail("r", {1}), when("r", {0}, <<atexit(my_exit("first exit handler"))>>, <<return>>),
  mayfail("r", {1}), when("r", {0}, <<atexit(my_exit("second exit handler"))>>, <<return>>),
  print(<<say("argv")>>)>>)

env_test == <<exit(255)>>

=============================================================================
