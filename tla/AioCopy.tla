------------------------------- MODULE AioCopy -------------------------------
(***************************************************************************)
(* aio_test1 of ch13_io/aio_test1.c: one thread moves a file through a ring *)
(* of buffers with asynchronous requests.  Each buffer is a state machine   *)
(* UNUSED -> READ_PENDING -> WRITE_PENDING -> UNUSED; the thread visits the *)
(* buffers in turn and sleeps in aio_suspend after each round.  The data of *)
(* a block is where it came from, how many bytes of it there are and how    *)
(* often translate went over it.                                            *)
(***************************************************************************)
EXTENDS Integers, FiniteSets

CONSTANTS AIO_BUFF_NUM, AIO_BUFF_SIZE,
          Sizes     \* the sizes of input files

ASSUME AioAssumption == /\ AIO_BUFF_NUM \in Nat \ {0}
                        /\ AIO_BUFF_SIZE \in Nat \ {0}
                        /\ Sizes \subseteq Nat

Bufs == 0..(AIO_BUFF_NUM - 1)
Empty == [src |-> 0, len |-> 0, trans |-> 0]

VARIABLES st_size,    \* what fstat says of the input file
          op, last,   \* the state of each buffer, and whether it has the last block
          aio_offset, nbytes,  \* its aiocb,
          request,    \* what the system does with it: "none", "read", "write",
                      \*   "complete" or "failed",
          ret,        \* the result of a complete request
          data,       \* and the block in it
          aiolist,    \* the buffers whose aiocb aio_suspend is given
          aio_op_num, off,
          i,          \* the buffer visited next
          pc,
          output      \* the output file, block by block

aiocb == <<aio_offset, nbytes, request, ret, data>>
vars == <<st_size, op, last, aiocb, aiolist, aio_op_num, off, i, pc, output>>

Offsets == {o \in 0..st_size : o < st_size /\ o % AIO_BUFF_SIZE = 0}
Size(o) == IF o + AIO_BUFF_SIZE <= st_size THEN AIO_BUFF_SIZE ELSE st_size - o

Init == /\ st_size \in Sizes
        /\ op = [b \in Bufs |-> "UNUSED"]
        /\ last = [b \in Bufs |-> FALSE]
        /\ aio_offset = [b \in Bufs |-> 0]
        /\ nbytes = [b \in Bufs |-> 0]
        /\ request = [b \in Bufs |-> "none"]
        /\ ret = [b \in Bufs |-> 0]
        /\ data = [b \in Bufs |-> Empty]
        /\ aiolist = {}
        /\ aio_op_num = 0
        /\ off = 0
        /\ i = 0
        /\ pc = "scan"
        /\ output = [o \in Offsets |-> Empty]

-----------------------------------------------------------------------------
(* The system: a request ends, in whole or in part, or fails *)

EINPROGRESS(b) == request[b] \in {"read", "write"}

Ends(b, n) == /\ request' = [request EXCEPT ![b] = "complete"]
              /\ ret' = [ret EXCEPT ![b] = n]

ReadEnds(b) == /\ request[b] = "read"
               /\ \E n \in 0..Size(aio_offset[b]) :
                    /\ Ends(b, n)
                    /\ data' = [data EXCEPT ![b] = [src |-> aio_offset[b], len |-> n, trans |-> 0]]
               /\ UNCHANGED output

WriteEnds(b) == /\ request[b] = "write"
                /\ \E n \in 0..nbytes[b] :
                     /\ Ends(b, n)
                     /\ output' = [output EXCEPT ![aio_offset[b]] = [data[b] EXCEPT !.len = n]]
                /\ UNCHANGED data

RequestFails(b) == /\ EINPROGRESS(b)
                   /\ request' = [request EXCEPT ![b] = "failed"]
                   /\ UNCHANGED <<ret, data, output>>

system(b) == /\ pc # "dead"
             /\ ReadEnds(b) \/ WriteEnds(b) \/ RequestFails(b)
             /\ UNCHANGED <<op, last, aio_offset, nbytes, aiolist, aio_op_num, off, i, pc, st_size>>

-----------------------------------------------------------------------------
(* The visits of the buffers *)

At(state) == pc = "scan" /\ i \in Bufs /\ op[i] = state
NextBuffer == i' = i + 1 /\ UNCHANGED pc

\* err_exit, err_quit
Exit == pc' = "dead" /\ UNCHANGED <<op, last, aiocb, aiolist, aio_op_num, off, i>>

\* mutant: the offset of the next read does not move
Advance_Not == UNCHANGED off

Advance == off' = off + AIO_BUFF_SIZE

StartRead == /\ At("UNUSED")
             /\ off < st_size
             /\ op' = [op EXCEPT ![i] = "READ_PENDING"]
             /\ aio_offset' = [aio_offset EXCEPT ![i] = off]
             /\ Advance
             /\ last' = [last EXCEPT ![i] = @ \/ off' >= st_size]
             /\ nbytes' = [nbytes EXCEPT ![i] = AIO_BUFF_SIZE]
             /\ request' = [request EXCEPT ![i] = "read"]
             /\ aiolist' = aiolist \cup {i}
             /\ aio_op_num' = aio_op_num + 1
             /\ NextBuffer
             /\ UNCHANGED <<ret, data>>

NothingToRead == /\ At("UNUSED")
                 /\ off >= st_size
                 /\ NextBuffer
                 /\ UNCHANGED <<op, last, aiocb, aiolist, aio_op_num, off>>

StillPending == /\ At("READ_PENDING") \/ At("WRITE_PENDING")
                /\ EINPROGRESS(i)
                /\ NextBuffer
                /\ UNCHANGED <<op, last, aiocb, aiolist, aio_op_num, off>>

Failed == /\ At("READ_PENDING") \/ At("WRITE_PENDING")
          /\ request[i] = "failed"
          /\ Exit

ShortRead == /\ At("READ_PENDING")
             /\ request[i] = "complete"
             /\ ret[i] # AIO_BUFF_SIZE /\ ~last[i]
             /\ Exit

\* mutant: a request in progress is taken for complete
ReadComplete_Early(b) == request[b] # "failed"

ReadComplete(b) == request[b] = "complete"

\* the aiocb is used again, with the offset it has
StartWrite == /\ At("READ_PENDING")
              /\ ReadComplete(i)
              /\ ret[i] = AIO_BUFF_SIZE \/ last[i]
              /\ data' = [data EXCEPT ![i].trans = 1 - @]
              /\ op' = [op EXCEPT ![i] = "WRITE_PENDING"]
              /\ nbytes' = [nbytes EXCEPT ![i] = ret[i]]
              /\ request' = [request EXCEPT ![i] = "write"]
              /\ NextBuffer
              /\ UNCHANGED <<last, aio_offset, ret, aiolist, aio_op_num, off>>

ShortWrite == /\ At("WRITE_PENDING")
              /\ request[i] = "complete"
              /\ ret[i] # nbytes[i]
              /\ Exit

\* mutant: the buffer stays on the list
Unlisted_Not(b) == UNCHANGED aiolist

Unlisted(b) == aiolist' = aiolist \ {b}

WriteDone == /\ At("WRITE_PENDING")
             /\ request[i] = "complete"
             /\ ret[i] = nbytes[i]
             /\ Unlisted(i)
             /\ op' = [op EXCEPT ![i] = "UNUSED"]
             /\ aio_op_num' = aio_op_num - 1
             /\ NextBuffer
             /\ UNCHANGED <<last, aiocb, off>>

\* mutant: an input that ends with a block is waited for
Over_Strict == off > st_size

Over == off >= st_size

\* after a round: done, or another round, which starts when a request on the
\* list is no longer in progress
Round == /\ pc = "scan"
         /\ i = AIO_BUFF_NUM
         /\ i' = 0
         /\ pc' = IF aio_op_num # 0 THEN "suspend" ELSE IF Over THEN "done" ELSE "scan"
         /\ UNCHANGED <<op, last, aiocb, aiolist, aio_op_num, off>>

Suspend == /\ pc = "suspend"
           /\ \E b \in aiolist : ~EINPROGRESS(b)
           /\ pc' = "scan"
           /\ UNCHANGED <<op, last, aiocb, aiolist, aio_op_num, off, i>>

aio_test1 == /\ \/ StartRead \/ NothingToRead \/ StillPending \/ Failed \/ ShortRead
                \/ StartWrite \/ ShortWrite \/ WriteDone \/ Round \/ Suspend
             /\ UNCHANGED <<output, st_size>>

Finished == pc \in {"done", "dead"} /\ UNCHANGED vars

Next == aio_test1 \/ Finished \/ \E b \in Bufs : system(b)

Spec == Init /\ [][Next]_vars

\* the thread runs, and every request ends
FairSpec == Spec /\ WF_vars(aio_test1) /\ \A b \in Bufs : WF_vars(system(b))

-----------------------------------------------------------------------------

InFlight == {b \in Bufs : op[b] # "UNUSED"}

\* Types; off is at the start of a block.
TypeOK == /\ st_size \in Nat
          /\ op \in [Bufs -> {"UNUSED", "READ_PENDING", "WRITE_PENDING"}]
          /\ last \in [Bufs -> BOOLEAN]
          /\ aio_offset \in [Bufs -> Nat]
          /\ nbytes \in [Bufs -> 0..AIO_BUFF_SIZE]
          /\ request \in [Bufs -> {"none", "read", "write", "complete", "failed"}]
          /\ ret \in [Bufs -> 0..AIO_BUFF_SIZE]
          /\ aiolist \subseteq Bufs
          /\ aio_op_num \in Int
          /\ off \in Nat /\ off % AIO_BUFF_SIZE = 0 /\ off < st_size + AIO_BUFF_SIZE
          /\ i \in 0..AIO_BUFF_NUM
          /\ pc \in {"scan", "suspend", "done", "dead"}

\* The three records of what is going on agree: the states of the buffers, the list
\* for aio_suspend and the count that decides when the copy is over.
OpNumExact == aiolist = InFlight /\ aio_op_num = Cardinality(InFlight)

\* Every block that was asked for is in one buffer, and no other, until it is in
\* the output, and is not read again after that.
BlocksOwned ==
  /\ \A b, c \in InFlight : aio_offset[b] = aio_offset[c] => b = c
  /\ \A b \in InFlight : aio_offset[b] < off /\ aio_offset[b] \in Offsets
  /\ \A o \in Offsets : o < off /\ output[o] = Empty => \E b \in InFlight : aio_offset[b] = o
  /\ \A b \in InFlight : op[b] = "READ_PENDING" => output[aio_offset[b]] = Empty

\* What is in the output is the block of the input that belongs there, translated
\* once; and when the copy is over all of it is there, in full, but for the
\* last block, of which a short read goes unnoticed.
OutputExact ==
  /\ \A o \in Offsets : output[o] # Empty => output[o].src = o /\ output[o].trans = 1
  /\ pc = "done" => \A o \in Offsets : output[o].len = Size(o) \/ o + AIO_BUFF_SIZE >= st_size

\* The program ends: aio_suspend is never called with nothing to wait for.
Terminates == <>(pc \in {"done", "dead"})

=============================================================================
