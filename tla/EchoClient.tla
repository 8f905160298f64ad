----------------------------- MODULE EchoClient -----------------------------
(***************************************************************************)
(* str_cli_v4 of ch4_tcp/echo_tcp_client_v1.c, which sends its input, shows  *)
(* what comes back and after the end of the input waits for the rest, with   *)
(* str_echo of the server at the other end.  The connection holds Cap bytes   *)
(* in each direction; a write blocks while its direction is full.            *)
(***************************************************************************)
EXTENDS Integers, Sequences

CONSTANTS MAXLINE,  \* the size of the buffers of both
          Inputs,   \* the sizes of the input (a bound)
          Zeros,    \* the places of its bytes that are 0: a set of such sets
          Cap,
          Reach     \* strlen finds a 0 there at the latest (a bound)

ClientAssumption == /\ MAXLINE \in Nat \ {0} /\ Cap \in Nat \ {0}
                    /\ Inputs \subseteq Nat
                    /\ Zeros \subseteq SUBSET Nat
                    /\ Reach \in Nat /\ Reach >= MAXLINE

\* the bytes of the input are 1, 2, ..; this one is of no input, or of an earlier line
Stale == 0

VARIABLES size,       \* of the input
          zeros,      \* where a byte of it is 0
          taken,      \* how many bytes of it the client has read
          client,     \* where it is
          stdin_eof,
          rset,
          nul,        \* where the first 0 is in sendline
          todo,       \* what Writen of the client has not written yet
          up, down,   \* what is on its way to the server, and back
          conn,       \* the connection, as the client sees it: open, fin, reset, broken
          server,     \* where the server is
          buff,       \* what it has read and not written yet
          shown,
          sent        \* what the client has given to Writen (history)

vars == <<size, zeros, taken, client, stdin_eof, rset, nul, todo, up, down, conn, server, buff, shown, sent>>

\* sendline is on the stack: it holds anything
Init == /\ size \in Inputs /\ zeros \in Zeros /\ taken = 0
        /\ client = "select" /\ stdin_eof = 0 /\ rset = {}
        /\ nul \in 0..Reach
        /\ todo = <<>> /\ up = <<>> /\ down = <<>> /\ buff = <<>>
        /\ conn = "open" /\ server = "read"
        /\ shown = <<>> /\ sent = <<>>

Over == {"done", "failed", "killed"}

First(s, n) == SubSeq(s, 1, n)
Rest(s, n) == SubSeq(s, n + 1, Len(s))

\* how much of s a call may move when there is room for so many bytes
Some(s, room) == {n \in 1..Len(s) : n <= room}

-----------------------------------------------------------------------------
(* str_cli_v4 *)

theServer == <<server, buff>>

SocketReady == down # <<>> \/ conn # "open"

\* The input may be ready or not, unless it is a file; stdin is not watched any more
\* after its end.
Select == /\ client = "select" /\ client' = "socket"
          /\ rset' \in SUBSET {"stdin", "socket"} \ {{}}
          /\ "stdin" \in rset' => stdin_eof = 0
          /\ "socket" \in rset' <=> SocketReady
          /\ UNCHANGED <<size, zeros, taken, stdin_eof, nul, todo, up, down, conn, theServer, shown, sent>>

\* Read, and Writen to the terminal.  A Read that fails is not the end: its -1 goes to
\* Writen as a size, whose write shows nothing, and the next Read finds the end.
ReadSocket == /\ client = "socket" /\ "socket" \in rset
              /\ \/ /\ client' = "stdin"
                    /\ \E n \in Some(down, MAXLINE) :
                         shown' = shown \o First(down, n) /\ down' = Rest(down, n)
                    /\ UNCHANGED conn
                 \/ /\ down = <<>> /\ conn \in {"fin", "broken"}
                    /\ client' = IF stdin_eof = 1 THEN "done" ELSE "failed"
                    /\ UNCHANGED <<down, conn, shown>>
                 \/ /\ down = <<>> /\ conn = "reset"
                    /\ client' = "stdin" /\ conn' = "broken"
                    /\ UNCHANGED <<down, shown>>
              /\ UNCHANGED <<size, zeros, taken, stdin_eof, rset, nul, todo, up, theServer, sent>>

SkipSocket == /\ client = "socket" /\ "socket" \notin rset
              /\ client' = "stdin"
              /\ UNCHANGED <<size, zeros, taken, stdin_eof, rset, nul, todo, up, down, conn, theServer, shown, sent>>

\* What strlen finds after a read of n bytes: the first that is 0, and if none is, the 0
\* that was there before (Read does not terminate sendline), unless the n bytes have
\* replaced it, or what lies behind sendline.
Strlen(n) == IF \E j \in 1..n : taken + j \in zeros
               THEN {len \in 0..(n - 1) : taken + len + 1 \in zeros /\ \A j \in 1..len : taken + j \notin zeros}
             ELSE IF n > nul THEN n..Reach
             ELSE IF nul < MAXLINE THEN {nul} ELSE MAXLINE..Reach

Line(n, len) == [j \in 1..len |-> IF j <= n THEN taken + j ELSE Stale]

ReadStdin == /\ client = "stdin" /\ "stdin" \in rset
             /\ taken < size
             /\ \E n \in 1..MAXLINE :
                  /\ n <= size - taken
                  /\ taken' = taken + n
                  /\ nul' \in Strlen(n)
                  /\ todo' = Line(n, nul')
                  /\ sent' = sent \o todo'
             /\ client' = IF todo' = <<>> THEN "select" ELSE "send"
             /\ UNCHANGED <<size, zeros, stdin_eof, rset, up, down, conn, theServer, shown>>

\* mutant: at the end of the input the client leaves, as str_cli_v3 does
EndOfInput_Leaves == /\ client = "stdin" /\ "stdin" \in rset
                     /\ taken = size
                     /\ client' = "done"
                     /\ UNCHANGED <<size, zeros, taken, stdin_eof, rset, nul, todo, up, down, conn, theServer, shown, sent>>

\* a Shutdown that fails says so, no more
EndOfInput == /\ client = "stdin" /\ "stdin" \in rset
              /\ taken = size
              /\ stdin_eof' = 1
              /\ client' = "select"
              /\ rset' = rset \ {"stdin"}
              /\ UNCHANGED <<size, zeros, taken, nul, todo, up, down, conn, theServer, shown, sent>>

SkipStdin == /\ client = "stdin" /\ "stdin" \notin rset
             /\ client' = "select"
             /\ UNCHANGED <<size, zeros, taken, stdin_eof, rset, nul, todo, up, down, conn, theServer, shown, sent>>

Write == /\ client = "send" /\ conn = "open"
         /\ \E n \in Some(todo, Cap - Len(up)) : up' = up \o First(todo, n) /\ todo' = Rest(todo, n)
         /\ client' = IF todo' = <<>> THEN "select" ELSE "send"
         /\ UNCHANGED <<size, zeros, taken, stdin_eof, rset, nul, down, conn, theServer, shown, sent>>

\* what is sent to a server that has gone is answered with a reset, sooner or later,
\* which may discard what has not been read
WriteToNobody == /\ client = "send" /\ conn = "fin"
                 /\ \E n \in Some(todo, Cap) : todo' = Rest(todo, n)
                 /\ client' = IF todo' = <<>> THEN "select" ELSE "send"
                 /\ conn' \in {"fin", "reset"}
                 /\ down' = down \/ (conn' = "reset" /\ down' = <<>>)
                 /\ UNCHANGED <<size, zeros, taken, stdin_eof, rset, nul, up, theServer, shown, sent>>

\* The result of Writen is not looked at.  Only one call is told of the reset; the next
\* write raises SIGPIPE, which ends the client.
WriteFails == /\ client = "send" /\ conn \in {"reset", "broken"}
              /\ todo' = <<>> /\ conn' = "broken"
              /\ client' = "killed" \/ (conn = "reset" /\ client' = "select")
              /\ UNCHANGED <<size, zeros, taken, stdin_eof, rset, nul, up, down, theServer, shown, sent>>

str_cli_v4 == \/ Select \/ ReadSocket \/ SkipSocket \/ ReadStdin \/ EndOfInput \/ SkipStdin
              \/ Write \/ WriteToNobody \/ WriteFails

-----------------------------------------------------------------------------
(* str_echo, and the end of the child that runs it *)

theClient == <<size, zeros, taken, client, stdin_eof, rset, nul, todo, shown, sent>>

ServerReads == /\ client \notin Over /\ server = "read"
               /\ \E n \in Some(up, MAXLINE) : buff' = First(up, n) /\ up' = Rest(up, n)
               /\ server' = "write"
               /\ UNCHANGED <<theClient, down, conn>>

ServerWrites == /\ client \notin Over /\ server = "write"
                /\ \E n \in Some(buff, Cap - Len(down)) :
                     down' = down \o First(buff, n) /\ buff' = Rest(buff, n)
                /\ server' = IF buff' = <<>> THEN "read" ELSE "write"
                /\ UNCHANGED <<theClient, up, conn>>

ServerEnds == /\ client \notin Over /\ server = "read"
              /\ up = <<>> /\ stdin_eof = 1
              /\ server' = "exited" /\ conn' = "fin"
              /\ UNCHANGED <<theClient, up, down, buff>>

str_echo == ServerReads \/ ServerWrites \/ ServerEnds

\* Somebody kills the server.  Data it has not read makes its end of the connection a
\* reset, which may discard what the client has not read.
Kill == /\ client \notin Over /\ server \in {"read", "write"}
        /\ server' = "killed"
        /\ conn' = IF up = <<>> THEN "fin" ELSE "reset"
        /\ down' = down \/ (up # <<>> /\ down' = <<>>)
        /\ up' = <<>> /\ buff' = <<>>
        /\ UNCHANGED theClient

-----------------------------------------------------------------------------

\* The hazard of a client that blocks in its write: it does not read meanwhile, and
\* when the server blocks in its own write both wait for good.
Stuck == /\ client = "send" /\ Len(up) = Cap
         /\ server = "write" /\ Len(down) = Cap

Rests == (client \in Over \/ Stuck) /\ UNCHANGED vars

Next == str_cli_v4 \/ str_echo \/ Kill \/ Rests

Spec == Init /\ [][Next]_vars

FairSpec == Spec /\ WF_vars(str_cli_v4) /\ WF_vars(str_echo)

-----------------------------------------------------------------------------

\* these bytes of the input are in s, in their order
Contains(s, bytes) ==
  \E f \in [bytes -> 1..Len(s)] : /\ \A j \in bytes : s[f[j]] = j
                                  /\ \A j, k \in bytes : j < k => f[j] < f[k]

\* Of the first n bytes of the input, those with no 0 among the bytes that one Read may
\* have read before them: strlen cannot have stopped in front of them.
Counted(n) == {j \in 1..n : \A k \in zeros : ~(j - MAXLINE < k /\ k <= j)}

\* The client shows what it has sent: nothing else, nothing twice and nothing in another
\* order, whatever happens to the server.
ShownInOrder == Len(shown) <= Len(sent) /\ shown = First(sent, Len(shown))

\* "normal termination" (echo_tcp_client_v1.c:250): when the client ends well, what it
\* has sent has come back, and that is the whole input but for what follows a 0 in one
\* Read (line 271), unless somebody killed the server after it had read the rest.
AllShown == client = "done" /\ server # "killed" => shown = sent /\ Contains(shown, Counted(size))

\* "server terminated prematurely" (echo_tcp_client_v1.c:254) is said only when it has.
FailsWithServer == client \in {"failed", "killed"} => server = "killed"

\* What select has told is still true when the client reads: it blocks in select and
\* in Writen only.
ReadsReady == client = "socket" /\ "socket" \in rset => SocketReady

\* The client comes to its end, or both are stuck.
Ends == <>(client \in Over \/ Stuck)

=============================================================================
