---------------------------- MODULE AioCopy_proofs ----------------------------
(***************************************************************************)
(* Theorems about AioCopy, for every number and size of buffers and every   *)
(* set of input files, and about the other programs of Batch: TimedCall,     *)
(* SignalThread, EchoClient, and the sort, of which what BarrierSort_proofs   *)
(* shows holds in this composition.                                         *)
(***************************************************************************)
EXTENDS Batch, FiniteSetTheorems, SequenceTheorems, TLAPS

B == INSTANCE BarrierSort_proofs WITH pc <- at

Block == [src : Nat, len : Nat, trans : {0, 1}]

BlockTypes == data \in [Bufs -> Block] /\ output \in [Offsets -> Block]

\* What the state of a buffer says of its request and of the block in it.
RequestOK(b) ==
  /\ request[b] = "read" => op[b] = "READ_PENDING"
  /\ request[b] = "write" => op[b] = "WRITE_PENDING"
  /\ op[b] = "READ_PENDING" /\ request[b] = "complete" =>
       data[b].trans = 0 /\ data[b].src = aio_offset[b] /\ ret[b] <= Size(aio_offset[b])
  /\ op[b] = "WRITE_PENDING" =>
       /\ data[b].trans = 1 /\ data[b].src = aio_offset[b]
       /\ nbytes[b] <= Size(aio_offset[b])
       /\ nbytes[b] = AIO_BUFF_SIZE \/ last[b]
  /\ op[b] = "WRITE_PENDING" /\ request[b] = "complete" =>
       output[aio_offset[b]] # Empty /\ output[aio_offset[b]].len = ret[b]
RequestInv == \A b \in Bufs : RequestOK(b)

\* The last block is known when nothing is left to be read.
LastInv == \A b \in Bufs : last[b] => off >= st_size /\ aio_offset[b] + AIO_BUFF_SIZE >= st_size

\* Blocks not asked for are not written; those asked for that no buffer has are.
WrittenInv ==
  /\ \A o \in Offsets : o >= off => output[o] = Empty
  /\ \A o \in Offsets : output[o] # Empty => output[o].src = o /\ output[o].trans = 1
  /\ \A o \in Offsets : o < off /\ (\A b \in InFlight : aio_offset[b] # o) =>
       output[o].len = Size(o) \/ o + AIO_BUFF_SIZE >= st_size

DoneInv == pc = "done" => aio_op_num = 0 /\ off >= st_size

IInv == TypeOK /\ BlockTypes /\ OpNumExact /\ BlocksOwned /\ RequestInv /\ LastInv /\ WrittenInv /\ DoneInv

-----------------------------------------------------------------------------
(* Arithmetic of offsets *)

LEMMA Multiple == ASSUME NEW m \in Nat, m % AIO_BUFF_SIZE = 0
                  PROVE  \E q \in Nat : m = q * AIO_BUFF_SIZE
  BY AioAssumption, SMTT(20) DEF AioAssumption

LEMMA MultipleIs == ASSUME NEW q \in Nat PROVE (q * AIO_BUFF_SIZE) % AIO_BUFF_SIZE = 0
  BY AioAssumption, SMTT(20) DEF AioAssumption

\* Advance keeps off at the start of a block.
LEMMA NextMultiple == ASSUME NEW m \in Nat, m % AIO_BUFF_SIZE = 0
                      PROVE  (m + AIO_BUFF_SIZE) % AIO_BUFF_SIZE = 0
  <1>1. PICK q \in Nat : m = q * AIO_BUFF_SIZE
    BY Multiple
  <1>2. m + AIO_BUFF_SIZE = (q + 1) * AIO_BUFF_SIZE
    BY <1>1, AioAssumption DEF AioAssumption
  <1> QED
    BY <1>2, MultipleIs

\* Between two blocks there is no third.
LEMMA NoMultipleBetween ==
  ASSUME NEW m \in Nat, NEW o \in Nat, m % AIO_BUFF_SIZE = 0, o % AIO_BUFF_SIZE = 0,
         m <= o, o < m + AIO_BUFF_SIZE
  PROVE  o = m
  <1>1. PICK q \in Nat : m = q * AIO_BUFF_SIZE
    BY Multiple
  <1>2. PICK p \in Nat : o = p * AIO_BUFF_SIZE
    BY Multiple
  <1>3. p = q
    BY <1>1, <1>2, AioAssumption, SMTT(20) DEF AioAssumption
  <1> QED
    BY <1>1, <1>2, <1>3

\* A block is not longer than a buffer.
LEMMA SizeBound == ASSUME st_size \in Nat, NEW o \in Offsets
                   PROVE  Size(o) \in 0..AIO_BUFF_SIZE /\ o \in Nat
  BY AioAssumption DEF AioAssumption, Offsets, Size

\* A set of buffers is finite.
LEMMA InFlightFinite == IsFiniteSet(InFlight)
  <1>1. IsFiniteSet(Bufs)
    BY FS_Interval, AioAssumption DEF Bufs, AioAssumption
  <1> QED
    BY <1>1, FS_Subset DEF InFlight

-----------------------------------------------------------------------------

LEMMA InitIInv == Init => IInv
  <1> SUFFICES ASSUME Init PROVE IInv
    OBVIOUS
  <1>1. InFlight = {}
    BY DEF Init, InFlight
  <1>2. TypeOK
    BY AioAssumption, SMTT(20) DEF Init, TypeOK, AioAssumption, Bufs
  <1>3. BlockTypes
    BY DEF Init, BlockTypes, Block, Empty
  <1>4. OpNumExact
    BY <1>1, FS_EmptySet DEF Init, OpNumExact
  <1>5. BlocksOwned
    BY <1>1 DEF Init, BlocksOwned, Offsets
  <1>6. RequestInv /\ LastInv /\ WrittenInv /\ DoneInv
    BY <1>1 DEF Init, RequestInv, RequestOK, LastInv, WrittenInv, DoneInv, Offsets
  <1> QED
    BY <1>2, <1>3, <1>4, <1>5, <1>6 DEF IInv

\* Steps that change nothing but where the thread is.
LEMMA ControlStep ==
  ASSUME IInv, UNCHANGED <<op, last, aiocb, aiolist, aio_op_num, off, output, st_size>>,
         i' \in 0..AIO_BUFF_NUM, pc' \in {"scan", "suspend", "done", "dead"},
         pc' = "done" => pc = "done" \/ (aio_op_num = 0 /\ off >= st_size)
  PROVE  IInv'
  <1> USE DEF IInv, aiocb
  <1>1. InFlight' = InFlight /\ Offsets' = Offsets /\ \A o : Size(o)' = Size(o)
    BY DEF InFlight, Offsets, Size
  <1>2. TypeOK'
    BY DEF TypeOK
  <1>3. BlockTypes' /\ OpNumExact'
    BY <1>1 DEF BlockTypes, OpNumExact
  <1>4. BlocksOwned'
    BY <1>1 DEF BlocksOwned
  <1>5. RequestInv' /\ LastInv'
    BY <1>1 DEF RequestInv, RequestOK, LastInv
  <1>6. WrittenInv'
    BY <1>1 DEF WrittenInv
  <1>7. DoneInv'
    BY DEF DoneInv
  <1> QED
    BY <1>2, <1>3, <1>4, <1>5, <1>6, <1>7

-----------------------------------------------------------------------------
(* The steps that move a block *)

\* An unused buffer asks for the next block, which no other buffer has.
LEMMA StartReadStep == ASSUME IInv, StartRead, UNCHANGED <<output, st_size>> PROVE IInv'
  <1> USE DEF IInv
  <1>0. /\ i \in Bufs /\ op[i] = "UNUSED" /\ off < st_size /\ off \in Nat /\ st_size \in Nat
        /\ AIO_BUFF_SIZE \in Nat \ {0} /\ AIO_BUFF_NUM \in Nat \ {0}
        /\ off \in Offsets /\ off' = off + AIO_BUFF_SIZE
    BY AioAssumption DEF StartRead, At, AioAssumption, TypeOK, Offsets, Advance
  <1>1. Offsets' = Offsets /\ \A o : Size(o)' = Size(o)
    BY DEF Offsets, Size
  <1>2. InFlight' = InFlight \cup {i} /\ i \notin InFlight
    BY <1>0 DEF InFlight, StartRead, TypeOK
  <1>3. TypeOK'
    <2>1. off' % AIO_BUFF_SIZE = 0
      BY <1>0, NextMultiple DEF TypeOK
    <2>2. /\ off' \in Nat /\ off' < st_size' + AIO_BUFF_SIZE
          /\ i' \in 0..AIO_BUFF_NUM /\ aio_op_num' \in Int
      BY <1>0 DEF TypeOK, StartRead, NextBuffer, Bufs
    <2>3. /\ op' \in [Bufs -> {"UNUSED", "READ_PENDING", "WRITE_PENDING"}]
          /\ last' \in [Bufs -> BOOLEAN]
          /\ aio_offset' \in [Bufs -> Nat]
          /\ nbytes' \in [Bufs -> 0..AIO_BUFF_SIZE]
          /\ request' \in [Bufs -> {"none", "read", "write", "complete", "failed"}]
      BY <1>0 DEF TypeOK, StartRead
    <2>4. ret' = ret /\ aiolist' \subseteq Bufs /\ pc' = pc /\ st_size' = st_size
      BY <1>0 DEF TypeOK, StartRead, NextBuffer
    <2> QED
      BY <2>1, <2>2, <2>3, <2>4 DEF TypeOK
  <1>4. BlockTypes'
    BY <1>1 DEF BlockTypes, StartRead
  <1>5. OpNumExact'
    BY <1>2, InFlightFinite, FS_AddElement DEF OpNumExact, StartRead
  <1>6. /\ \A b \in Bufs : b # i => /\ op'[b] = op[b] /\ last'[b] = last[b]
                                    /\ aio_offset'[b] = aio_offset[b] /\ nbytes'[b] = nbytes[b]
                                    /\ request'[b] = request[b]
        /\ op'[i] = "READ_PENDING" /\ aio_offset'[i] = off /\ request'[i] = "read"
        /\ last'[i] = (last[i] \/ off' >= st_size)
    BY <1>0 DEF StartRead, TypeOK
  <1>7. ret' = ret /\ data' = data /\ output' = output /\ st_size' = st_size
    BY DEF StartRead
  <1>8. BlocksOwned'
    <2>1. InFlight \subseteq Bufs
      BY DEF InFlight
    <2>2. \A b \in InFlight : aio_offset[b] < off /\ aio_offset[b] \in Nat
      BY <2>1 DEF BlocksOwned, TypeOK
    <2>3. \A b, c \in InFlight' : aio_offset'[b] = aio_offset'[c] => b = c
      BY <1>0, <1>2, <1>6, <2>1, <2>2 DEF BlocksOwned
    <2>4. \A b \in InFlight' : aio_offset'[b] < off' /\ aio_offset'[b] \in Offsets'
      BY <1>0, <1>1, <1>2, <1>6, <2>1, <2>2 DEF BlocksOwned
    <2>5. ASSUME NEW o \in Offsets', o < off', output'[o] = Empty
          PROVE  \E b \in InFlight' : aio_offset'[b] = o
      <3>1. o \in Offsets /\ o \in Nat /\ o % AIO_BUFF_SIZE = 0
        BY <1>0, <1>1, <2>5 DEF Offsets
      <3>2. CASE o < off
        BY <1>2, <1>6, <1>7, <2>1, <2>5, <3>1, <3>2 DEF BlocksOwned
      <3>3. CASE ~(o < off)
        <4>1. o = off
          BY <1>0, <2>5, <3>1, <3>3, NoMultipleBetween DEF TypeOK
        <4> QED
          BY <4>1, <1>2, <1>6
      <3> QED
        BY <3>2, <3>3
    <2>6. \A b \in InFlight' : op'[b] = "READ_PENDING" => output'[aio_offset'[b]] = Empty
      BY <1>0, <1>2, <1>6, <1>7, <2>1 DEF BlocksOwned, WrittenInv
    <2> QED
      BY <2>3, <2>4, <2>5, <2>6 DEF BlocksOwned
  <1>9. RequestInv'
    BY <1>1, <1>6, <1>7 DEF RequestInv, RequestOK
  <1>10. LastInv'
    BY <1>0, <1>6, <1>7 DEF LastInv, TypeOK
  <1>11. WrittenInv'
    <2>1. \A o \in Offsets' : o >= off' => output'[o] = Empty
      BY <1>0, <1>1, <1>7 DEF WrittenInv, Offsets
    <2>2. \A o \in Offsets' : output'[o] # Empty => output'[o].src = o /\ output'[o].trans = 1
      BY <1>1, <1>7 DEF WrittenInv
    <2>3. ASSUME NEW o \in Offsets', o < off', \A b \in InFlight' : aio_offset'[b] # o
          PROVE  output'[o].len = Size(o)' \/ o + AIO_BUFF_SIZE >= st_size'
      <3>1. o \in Offsets /\ o \in Nat /\ o % AIO_BUFF_SIZE = 0 /\ o # off
        BY <1>0, <1>1, <1>2, <1>6, <2>3 DEF Offsets
      <3>2. o < off
        BY <1>0, <2>3, <3>1, NoMultipleBetween DEF TypeOK
      <3>3. \A b \in InFlight : aio_offset[b] # o
        BY <1>2, <1>6, <2>3 DEF InFlight
      <3> QED
        BY <1>1, <1>7, <3>1, <3>2, <3>3 DEF WrittenInv
    <2> QED
      BY <2>1, <2>2, <2>3 DEF WrittenInv
  <1>12. DoneInv'
    BY DEF DoneInv, StartRead, At, NextBuffer
  <1> QED
    BY <1>3, <1>4, <1>5, <1>8, <1>9, <1>10, <1>11, <1>12

\* A block that was read is translated, and its buffer asks for the write.
LEMMA StartWriteStep == ASSUME IInv, StartWrite, UNCHANGED <<output, st_size>> PROVE IInv'
  <1> USE DEF IInv
  <1>0. /\ i \in Bufs /\ op[i] = "READ_PENDING" /\ request[i] = "complete"
        /\ ret[i] = AIO_BUFF_SIZE \/ last[i]
        /\ i \in InFlight /\ aio_offset[i] \in Offsets
    BY DEF StartWrite, At, ReadComplete, InFlight, BlocksOwned
  <1>1. Offsets' = Offsets /\ \A o : Size(o)' = Size(o)
    BY DEF Offsets, Size, StartWrite
  <1>2. InFlight' = InFlight
    BY <1>0 DEF InFlight, StartWrite, TypeOK
  <1>3. /\ \A b \in Bufs : b # i => /\ op'[b] = op[b] /\ nbytes'[b] = nbytes[b]
                                    /\ request'[b] = request[b] /\ data'[b] = data[b]
        /\ op'[i] = "WRITE_PENDING" /\ nbytes'[i] = ret[i] /\ request'[i] = "write"
        /\ data'[i] = [data[i] EXCEPT !.trans = 1 - @]
    BY <1>0 DEF StartWrite, TypeOK, BlockTypes
  <1>4. /\ last' = last /\ aio_offset' = aio_offset /\ ret' = ret /\ aiolist' = aiolist
        /\ aio_op_num' = aio_op_num /\ off' = off /\ output' = output /\ st_size' = st_size
        /\ pc' = pc
    BY DEF StartWrite, NextBuffer
  <1>5. TypeOK'
    <2>1. /\ op' \in [Bufs -> {"UNUSED", "READ_PENDING", "WRITE_PENDING"}]
          /\ nbytes' \in [Bufs -> 0..AIO_BUFF_SIZE]
          /\ request' \in [Bufs -> {"none", "read", "write", "complete", "failed"}]
      BY <1>0 DEF TypeOK, StartWrite
    <2>2. i' \in 0..AIO_BUFF_NUM
      BY <1>0, AioAssumption DEF StartWrite, NextBuffer, Bufs, AioAssumption
    <2> QED
      BY <1>4, <2>1, <2>2 DEF TypeOK
  <1>6. BlockTypes'
    <2>1. data[i] \in Block
      BY <1>0 DEF BlockTypes
    <2>2. [data[i] EXCEPT !.trans = 1 - @] \in Block
      BY <2>1 DEF Block
    <2> QED
      BY <1>0, <1>1, <1>4, <2>2 DEF BlockTypes, StartWrite
  <1>7. OpNumExact'
    BY <1>2, <1>4 DEF OpNumExact
  <1>8. BlocksOwned'
    BY <1>0, <1>1, <1>2, <1>3, <1>4 DEF BlocksOwned, InFlight
  <1>9. RequestInv'
    <2>1. /\ data'[i].trans = 1 /\ data'[i].src = aio_offset[i]
          /\ nbytes'[i] <= Size(aio_offset[i])
          /\ nbytes'[i] = AIO_BUFF_SIZE \/ last[i]
      BY <1>0, <1>3 DEF RequestInv, RequestOK, BlockTypes, Block
    <2>2. ASSUME NEW b \in Bufs, b # i PROVE RequestOK(b)'
      BY <1>1, <1>3, <1>4, <2>2 DEF RequestInv, RequestOK
    <2>3. ASSUME NEW b \in Bufs, b = i PROVE RequestOK(b)'
      BY <1>1, <1>3, <1>4, <2>1, <2>3 DEF RequestOK
    <2> QED
      BY <2>2, <2>3 DEF RequestInv
  <1>10. LastInv' /\ DoneInv'
    BY <1>4 DEF LastInv, DoneInv
  <1>11. WrittenInv'
    BY <1>1, <1>2, <1>4 DEF WrittenInv
  <1> QED
    BY <1>5, <1>6, <1>7, <1>8, <1>9, <1>10, <1>11

\* A block that was written in full is the output's, and its buffer is unused.
LEMMA WriteDoneStep == ASSUME IInv, WriteDone, UNCHANGED <<output, st_size>> PROVE IInv'
  <1> USE DEF IInv
  <1>0. /\ i \in Bufs /\ op[i] = "WRITE_PENDING" /\ request[i] = "complete" /\ ret[i] = nbytes[i]
        /\ i \in InFlight /\ aio_offset[i] \in Offsets
        /\ output[aio_offset[i]] # Empty /\ output[aio_offset[i]].len = nbytes[i]
    BY DEF WriteDone, At, InFlight, BlocksOwned, RequestInv, RequestOK
  <1>1. Offsets' = Offsets /\ \A o : Size(o)' = Size(o)
    BY DEF Offsets, Size, WriteDone
  <1>2. InFlight' = InFlight \ {i}
    BY <1>0 DEF InFlight, WriteDone, TypeOK
  <1>3. /\ \A b \in Bufs : b # i => op'[b] = op[b]
        /\ op'[i] = "UNUSED"
    BY <1>0 DEF WriteDone, TypeOK
  <1>4. /\ last' = last /\ aio_offset' = aio_offset /\ nbytes' = nbytes /\ request' = request
        /\ ret' = ret /\ data' = data /\ off' = off /\ output' = output /\ st_size' = st_size
        /\ pc' = pc /\ pc = "scan" /\ aiolist' = aiolist \ {i} /\ aio_op_num' = aio_op_num - 1
    BY DEF WriteDone, NextBuffer, aiocb, Unlisted, At
  <1>5. TypeOK'
    <2>1. op' \in [Bufs -> {"UNUSED", "READ_PENDING", "WRITE_PENDING"}]
      BY <1>0 DEF TypeOK, WriteDone
    <2>2. i' \in 0..AIO_BUFF_NUM
      BY <1>0, AioAssumption DEF WriteDone, NextBuffer, Bufs, AioAssumption
    <2> QED
      BY <1>4, <2>1, <2>2 DEF TypeOK
  <1>6. BlockTypes'
    BY <1>1, <1>4 DEF BlockTypes
  <1>7. OpNumExact'
    BY <1>0, <1>2, <1>4, InFlightFinite, FS_RemoveElement DEF OpNumExact
  <1>8. BlocksOwned'
    BY <1>0, <1>1, <1>2, <1>3, <1>4 DEF BlocksOwned, InFlight
  <1>9. RequestInv'
    <2>1. request[i] # "read" /\ request[i] # "write"
      BY <1>0
    <2> QED
      BY <1>1, <1>3, <1>4, <2>1 DEF RequestInv, RequestOK
  <1>10. LastInv' /\ DoneInv'
    BY <1>4 DEF LastInv, DoneInv
  <1>11. WrittenInv'
    <2>1. output[aio_offset[i]].len = Size(aio_offset[i]) \/ aio_offset[i] + AIO_BUFF_SIZE >= st_size
      <3>1. CASE last[i]
        BY <1>0, <3>1 DEF LastInv
      <3>2. CASE nbytes[i] = AIO_BUFF_SIZE
        BY <1>0, <3>2, SizeBound, AioAssumption DEF RequestInv, RequestOK, TypeOK, AioAssumption
      <3> QED
        BY <1>0, <3>1, <3>2 DEF RequestInv, RequestOK
    <2> QED
      BY <1>1, <1>2, <1>4, <2>1 DEF WrittenInv
  <1> QED
    BY <1>5, <1>6, <1>7, <1>8, <1>9, <1>10, <1>11

-----------------------------------------------------------------------------
(* The steps of the system *)

\* What every end of a request leaves alone.
LEMMA SystemLeaves ==
  ASSUME IInv, UNCHANGED <<op, last, aio_offset, nbytes, aiolist, aio_op_num, off, i, pc, st_size>>
  PROVE  /\ Offsets' = Offsets /\ InFlight' = InFlight /\ \A o : Size(o)' = Size(o)
         /\ OpNumExact' /\ LastInv' /\ DoneInv'
  BY DEF IInv, Offsets, InFlight, Size, OpNumExact, LastInv, DoneInv

LEMMA ReadEndsStep ==
  ASSUME IInv, NEW b \in Bufs, ReadEnds(b),
         UNCHANGED <<op, last, aio_offset, nbytes, aiolist, aio_op_num, off, i, pc, st_size>>
  PROVE  IInv'
  <1> USE DEF IInv
  <1>0. request[b] = "read" /\ op[b] = "READ_PENDING" /\ b \in InFlight /\ aio_offset[b] \in Offsets
    BY DEF ReadEnds, RequestInv, RequestOK, InFlight, BlocksOwned
  <1>1. PICK n \in 0..Size(aio_offset[b]) :
          /\ request' = [request EXCEPT ![b] = "complete"]
          /\ ret' = [ret EXCEPT ![b] = n]
          /\ data' = [data EXCEPT ![b] = [src |-> aio_offset[b], len |-> n, trans |-> 0]]
          /\ output' = output
    BY DEF ReadEnds, Ends
  <1>2. n \in 0..AIO_BUFF_SIZE /\ n \in Nat /\ n <= Size(aio_offset[b]) /\ aio_offset[b] \in Nat
    BY <1>0, <1>1, SizeBound, AioAssumption DEF AioAssumption, TypeOK
  <1>3. TypeOK'
    BY <1>1, <1>2 DEF TypeOK
  <1>4. [src |-> aio_offset[b], len |-> n, trans |-> 0] \in Block
    BY <1>2 DEF Block
  <1>5. BlockTypes'
    BY <1>1, <1>4, SystemLeaves DEF BlockTypes
  <1>6. BlocksOwned'
    BY <1>1, SystemLeaves DEF BlocksOwned
  <1>7. RequestInv'
    <2>1. ASSUME NEW c \in Bufs, c # b PROVE RequestOK(c)'
      BY <1>1, <2>1, SystemLeaves DEF RequestInv, RequestOK, TypeOK, BlockTypes
    <2>2. RequestOK(b)'
      BY <1>0, <1>1, <1>2, SystemLeaves DEF RequestOK, TypeOK, BlockTypes
    <2> QED
      BY <2>1, <2>2 DEF RequestInv
  <1>8. WrittenInv'
    BY <1>1, SystemLeaves DEF WrittenInv
  <1> QED
    BY <1>3, <1>5, <1>6, <1>7, <1>8, SystemLeaves

LEMMA WriteEndsStep ==
  ASSUME IInv, NEW b \in Bufs, WriteEnds(b),
         UNCHANGED <<op, last, aio_offset, nbytes, aiolist, aio_op_num, off, i, pc, st_size>>
  PROVE  IInv'
  <1> USE DEF IInv
  <1>0. /\ request[b] = "write" /\ op[b] = "WRITE_PENDING" /\ b \in InFlight
        /\ aio_offset[b] \in Offsets /\ aio_offset[b] < off
        /\ data[b].trans = 1 /\ data[b].src = aio_offset[b] /\ data[b] \in Block
    BY DEF WriteEnds, RequestInv, RequestOK, InFlight, BlocksOwned, BlockTypes
  <1>1. PICK n \in 0..nbytes[b] :
          /\ request' = [request EXCEPT ![b] = "complete"]
          /\ ret' = [ret EXCEPT ![b] = n]
          /\ output' = [output EXCEPT ![aio_offset[b]] = [data[b] EXCEPT !.len = n]]
          /\ data' = data
    BY DEF WriteEnds, Ends
  <1>2. n \in 0..AIO_BUFF_SIZE /\ n \in Nat
    BY <1>1, AioAssumption DEF AioAssumption, TypeOK
  <1> DEFINE written == [data[b] EXCEPT !.len = n]
  <1>3. /\ written \in Block /\ written # Empty
        /\ written.src = aio_offset[b] /\ written.trans = 1 /\ written.len = n
    BY <1>0, <1>2 DEF Block, Empty
  <1>4. /\ output'[aio_offset[b]] = written
        /\ \A o \in Offsets : o # aio_offset[b] => output'[o] = output[o]
    BY <1>0, <1>1 DEF BlockTypes
  <1> HIDE DEF written
  <1>5. TypeOK'
    BY <1>1, <1>2 DEF TypeOK
  <1>6. BlockTypes'
    BY <1>0, <1>1, <1>3, SystemLeaves DEF BlockTypes, written
  <1>7. \A c \in InFlight : c # b => aio_offset[c] # aio_offset[b] /\ aio_offset[c] \in Offsets
    BY <1>0 DEF BlocksOwned
  <1>8. BlocksOwned'
    <2>1. \A c, d \in InFlight' : aio_offset'[c] = aio_offset'[d] => c = d
      BY SystemLeaves DEF BlocksOwned
    <2>2. \A c \in InFlight' : aio_offset'[c] < off' /\ aio_offset'[c] \in Offsets'
      BY SystemLeaves DEF BlocksOwned
    <2>3. \A o \in Offsets' : o < off' /\ output'[o] = Empty => \E c \in InFlight' : aio_offset'[c] = o
      BY <1>3, <1>4, SystemLeaves DEF BlocksOwned
    <2>4. \A c \in InFlight' : op'[c] = "READ_PENDING" => output'[aio_offset'[c]] = Empty
      BY <1>0, <1>4, <1>7, SystemLeaves DEF BlocksOwned
    <2> QED
      BY <2>1, <2>2, <2>3, <2>4 DEF BlocksOwned
  <1>9. RequestInv'
    <2>1. ASSUME NEW c \in Bufs, c # b PROVE RequestOK(c)'
      BY <1>1, <1>4, <1>7, <2>1, SystemLeaves DEF RequestInv, RequestOK, TypeOK, InFlight
    <2>2. RequestOK(b)'
      BY <1>0, <1>1, <1>3, <1>4, SystemLeaves DEF RequestInv, RequestOK, TypeOK
    <2> QED
      BY <2>1, <2>2 DEF RequestInv
  <1>10. WrittenInv'
    <2>1. \A o \in Offsets' : o >= off' => output'[o] = Empty
      BY <1>0, <1>4, SystemLeaves DEF WrittenInv, TypeOK, Offsets
    <2>2. \A o \in Offsets' : output'[o] # Empty => output'[o].src = o /\ output'[o].trans = 1
      BY <1>3, <1>4, SystemLeaves DEF WrittenInv
    <2>3. \A o \in Offsets' : o < off' /\ (\A c \in InFlight' : aio_offset'[c] # o) =>
            output'[o].len = Size(o)' \/ o + AIO_BUFF_SIZE >= st_size'
      BY <1>0, <1>4, SystemLeaves DEF WrittenInv
    <2> QED
      BY <2>1, <2>2, <2>3 DEF WrittenInv
  <1> QED
    BY <1>5, <1>6, <1>8, <1>9, <1>10, SystemLeaves

LEMMA RequestFailsStep ==
  ASSUME IInv, NEW b \in Bufs, RequestFails(b),
         UNCHANGED <<op, last, aio_offset, nbytes, aiolist, aio_op_num, off, i, pc, st_size>>
  PROVE  IInv'
  <1> USE DEF IInv
  <1>1. request' = [request EXCEPT ![b] = "failed"] /\ UNCHANGED <<ret, data, output>>
    BY DEF RequestFails
  <1>2. TypeOK' /\ BlockTypes' /\ BlocksOwned' /\ WrittenInv'
    BY <1>1, SystemLeaves DEF TypeOK, BlockTypes, BlocksOwned, WrittenInv
  <1>3. RequestInv'
    <2>1. ASSUME NEW c \in Bufs PROVE RequestOK(c)'
      BY <1>1, SystemLeaves DEF RequestInv, RequestOK, TypeOK
    <2> QED
      BY <2>1 DEF RequestInv
  <1> QED
    BY <1>2, <1>3, SystemLeaves

-----------------------------------------------------------------------------

LEMMA StepIInv == IInv /\ [Next]_vars => IInv'
  <1> SUFFICES ASSUME IInv, [Next]_vars PROVE IInv'
    OBVIOUS
  <1> DEFINE control == UNCHANGED <<op, last, aiocb, aiolist, aio_op_num, off, output, st_size>>
  <1>0. i \in 0..AIO_BUFF_NUM /\ pc \in {"scan", "suspend", "done", "dead"}
    BY DEF IInv, TypeOK
  <1>1. CASE StartRead /\ UNCHANGED <<output, st_size>>
    BY <1>1, StartReadStep
  <1>2. CASE StartWrite /\ UNCHANGED <<output, st_size>>
    BY <1>2, StartWriteStep
  <1>3. CASE WriteDone /\ UNCHANGED <<output, st_size>>
    BY <1>3, WriteDoneStep
  <1>4. CASE (NothingToRead \/ StillPending) /\ UNCHANGED <<output, st_size>>
    <2>1. control /\ i \in Bufs /\ i' = i + 1 /\ pc' = pc
      BY <1>4 DEF NothingToRead, StillPending, At, NextBuffer
    <2>2. i' \in 0..AIO_BUFF_NUM
      BY <2>1, AioAssumption DEF AioAssumption, Bufs
    <2> QED
      BY <1>0, <2>1, <2>2, ControlStep
  <1>5. CASE (Failed \/ ShortRead \/ ShortWrite) /\ UNCHANGED <<output, st_size>>
    <2>1. control /\ i' = i /\ pc' = "dead"
      BY <1>5 DEF Failed, ShortRead, ShortWrite, Exit
    <2> QED
      BY <1>0, <2>1, ControlStep
  <1>6. CASE Round /\ UNCHANGED <<output, st_size>>
    <2>1. control /\ i' = 0 /\ pc' \in {"scan", "suspend", "done", "dead"}
      BY <1>6 DEF Round
    <2>2. pc' = "done" => aio_op_num = 0 /\ off >= st_size
      BY <1>6 DEF Round, Over
    <2>3. i' \in 0..AIO_BUFF_NUM
      BY <2>1, AioAssumption DEF AioAssumption
    <2> QED
      BY <2>1, <2>2, <2>3, ControlStep
  <1>7. CASE Suspend /\ UNCHANGED <<output, st_size>>
    <2>1. control /\ i' = i /\ pc' = "scan"
      BY <1>7 DEF Suspend
    <2> QED
      BY <1>0, <2>1, ControlStep
  <1>8. CASE Finished \/ UNCHANGED vars
    <2>1. control /\ i' = i /\ pc' = pc
      BY <1>8 DEF Finished, vars
    <2> QED
      BY <1>0, <2>1, ControlStep
  <1>9. ASSUME NEW b \in Bufs, system(b) PROVE IInv'
    BY <1>9, ReadEndsStep, WriteEndsStep, RequestFailsStep DEF system
  <1> QED
    BY <1>1, <1>2, <1>3, <1>4, <1>5, <1>6, <1>7, <1>8, <1>9 DEF Next, aio_test1

LEMMA Invariance == Spec => []IInv
  BY InitIInv, StepIInv, PTL DEF Spec

-----------------------------------------------------------------------------

\* The states of the buffers, aiolist and aio_op_num (aio_test1.c:79, 95, 96, 150,
\* 152) agree, for every number of buffers: aio_suspend is never given an empty list
\* to wait for, and the loop does not end with a request in flight.
THEOREM CountIsExact == Spec => []OpNumExact
  BY Invariance, PTL DEF IInv

\* No block is lost or in two buffers, and none is read again when it was written
\* (aio_test1.c:82 to 88), for every size of file and buffer.
THEOREM BlocksHaveOwners == Spec => []BlocksOwned
  BY Invariance, PTL DEF IInv

\* What was written is in its place, translated once; when the loop has ended
\* (aio_test1.c:161) all blocks but the last are there in full.
THEOREM OutputIsExact == Spec => []OutputExact
  <1>1. IInv => OutputExact
    <2> SUFFICES ASSUME IInv PROVE OutputExact
      OBVIOUS
    <2>1. \A o \in Offsets : output[o] # Empty => output[o].src = o /\ output[o].trans = 1
      BY DEF IInv, WrittenInv
    <2>2. ASSUME pc = "done", NEW o \in Offsets
          PROVE  output[o].len = Size(o) \/ o + AIO_BUFF_SIZE >= st_size
      <3>1. o < off
        BY <2>2 DEF IInv, DoneInv, TypeOK, Offsets
      <3>2. InFlight = {}
        BY <2>2, InFlightFinite, FS_EmptySet DEF IInv, DoneInv, OpNumExact
      <3> QED
        BY <3>1, <3>2 DEF IInv, WrittenInv
    <2> QED
      BY <2>1, <2>2 DEF OutputExact
  <1> QED
    BY <1>1, Invariance, PTL

-----------------------------------------------------------------------------
(* The composition: what is called B! in the theorems is what Batch calls Sort! *)

LEMMA SameSort == /\ B!SortAssumption <=> Sort!SortAssumption
                  /\ B!Init <=> Sort!Init
                  /\ B!Next <=> Sort!Next
                  /\ B!MergeAfterSort <=> Sort!MergeAfterSort
                  /\ B!OutputSorted <=> Sort!OutputSorted
                  /\ B!Conserved <=> Sort!Conserved
                  /\ B!MinIdxSet <=> Sort!MinIdxSet
  <1>0. /\ B!Sorters = Sort!Sorters /\ B!Threads = Sort!Threads /\ B!Main = Sort!Main
        /\ B!NUMNUM = Sort!NUMNUM /\ B!Index = Sort!Index /\ B!Number = Sort!Number
        /\ \A t : B!First(t) = Sort!First(t) /\ B!End(t) = Sort!End(t)
    BY DEF B!Sorters, B!Threads, B!Main, B!NUMNUM, B!Index, B!Number, B!First, B!End,
           Sort!Sorters, Sort!Threads, Sort!Main, Sort!NUMNUM, Sort!Index, Sort!Number, Sort!First, Sort!End
  <1>1. B!SortAssumption <=> Sort!SortAssumption
    BY DEF B!SortAssumption, Sort!SortAssumption
  <1>2. B!Init <=> Sort!Init
    BY <1>0 DEF B!Init, Sort!Init
  <1>3. /\ B!MergeAfterSort <=> Sort!MergeAfterSort
        /\ B!OutputSorted <=> Sort!OutputSorted
    BY <1>0 DEF B!MergeAfterSort, Sort!MergeAfterSort, B!OutputSorted, Sort!OutputSorted
  <1>4. B!Conserved <=> Sort!Conserved
    <2>1. \A S : B!Cardinality(S) = Sort!Cardinality(S)
      BY DEF B!Cardinality, Sort!Cardinality, B!IsFiniteSet, Sort!IsFiniteSet
    <2>2. B!Remaining = Sort!Remaining
      BY <1>0 DEF B!Remaining, Sort!Remaining
    <2> QED
      BY <1>0, <2>1, <2>2 DEF B!Conserved, Sort!Conserved, B!Occurs, Sort!Occurs
  <1>5. ASSUME NEW t PROVE B!MinIdx(t) <=> Sort!MinIdx(t)
    BY <1>0 DEF B!MinIdx, Sort!MinIdx, B!Left, Sort!Left
  <1>6. B!MinIdxSet <=> Sort!MinIdxSet
    BY <1>0, <1>5 DEF B!MinIdxSet, Sort!MinIdxSet
  <1>7. ASSUME NEW t
        PROVE  /\ B!Create(t) <=> Sort!Create(t)
               /\ B!Exchange(t) <=> Sort!Exchange(t)
               /\ B!SortDone(t) <=> Sort!SortDone(t)
    <2>1. B!Create(t) <=> Sort!Create(t)
      BY <1>0 DEF B!Create, Sort!Create, B!Goto, Sort!Goto, B!sorting, Sort!sorting, B!merging, Sort!merging
    <2>2. B!Exchange(t) <=> Sort!Exchange(t)
      BY <1>0 DEF B!Exchange, Sort!Exchange, B!Advance, Sort!Advance, B!Swap, Sort!Swap, B!merging, Sort!merging
    <2>3. B!SortDone(t) <=> Sort!SortDone(t)
      BY <1>0 DEF B!SortDone, Sort!SortDone, B!Arrive, Sort!Arrive, B!sorting, Sort!sorting, B!merging, Sort!merging
    <2> QED
      BY <2>1, <2>2, <2>3
  <1>8. /\ B!CreateFails <=> Sort!CreateFails
        /\ B!MainArrives <=> Sort!MainArrives
        /\ B!MergeStep <=> Sort!MergeStep
        /\ B!Finish <=> Sort!Finish
        /\ B!Exited <=> Sort!Exited
    <2>1. B!CreateFails <=> Sort!CreateFails
      BY <1>0 DEF B!CreateFails, Sort!CreateFails, B!Goto, Sort!Goto, B!sorting, Sort!sorting, B!merging, Sort!merging
    <2>2. B!MainArrives <=> Sort!MainArrives
      BY <1>0 DEF B!MainArrives, Sort!MainArrives, B!Arrive, Sort!Arrive, B!sorting, Sort!sorting, B!merging, Sort!merging
    <2>3. B!MergeStep <=> Sort!MergeStep
      BY <1>0, <1>5 DEF B!MergeStep, Sort!MergeStep, B!Take, Sort!Take, B!sorting, Sort!sorting
    <2>4. B!Finish <=> Sort!Finish
      BY <1>0 DEF B!Finish, Sort!Finish, B!Goto, Sort!Goto, B!sorting, Sort!sorting, B!merging, Sort!merging
    <2>5. B!Exited <=> Sort!Exited
      BY <1>0 DEF B!Exited, Sort!Exited, B!vars, Sort!vars
    <2> QED
      BY <2>1, <2>2, <2>3, <2>4, <2>5
  <1>9. B!Next <=> Sort!Next
    BY <1>0, <1>7, <1>8 DEF B!Next, Sort!Next, B!barrier_test, Sort!barrier_test, B!thread_fun, Sort!thread_fun
  <1> QED
    BY <1>1, <1>2, <1>3, <1>4, <1>6, <1>9

\* Each step of the composition is a step of each of the programs, or leaves it alone.
LEMMA BatchStep ==
  ASSUME [BatchNext]_allvars
  PROVE  /\ [Next]_vars /\ [B!Next]_(B!vars) /\ [Timed!Next]_(Timed!vars)
         /\ [Quit!Next]_(Quit!vars) /\ [Echo!Next]_(Echo!vars)
  <1>1. /\ sort' = sort => UNCHANGED B!vars
        /\ timed' = timed => UNCHANGED Timed!vars
        /\ quit' = quit => UNCHANGED Quit!vars
        /\ echo' = echo => UNCHANGED Echo!vars
    BY DEF sort, B!vars, timed, Timed!vars, quit, Quit!vars, echo, Echo!vars
  <1>2. CASE Copies(Next)
    BY <1>1, <1>2 DEF Copies, Runs
  <1>3. CASE Sorts(Sort!Next)
    BY <1>1, <1>3, SameSort DEF Sorts, Runs
  <1>4. CASE Calls(Timed!Next)
    BY <1>1, <1>4 DEF Calls, Runs
  <1>5. CASE Quits(Quit!Next)
    BY <1>1, <1>5 DEF Quits, Runs
  <1>6. CASE Echoes(Echo!Next)
    BY <1>1, <1>6 DEF Echoes, Runs
  <1>7. CASE UNCHANGED allvars
    BY <1>1, <1>7 DEF allvars
  <1> QED
    BY <1>2, <1>3, <1>4, <1>5, <1>6, <1>7 DEF BatchNext

\* So the composition implements each of them.
LEMMA BatchRefines == BatchSpec => Spec /\ B!Spec /\ Timed!Spec /\ Quit!Spec /\ Echo!Spec
  <1>1. BatchInit => Init /\ B!Init /\ Timed!Init /\ Quit!Init /\ Echo!Init
    BY SameSort DEF BatchInit
  <1>2. [BatchNext]_allvars => /\ [Next]_vars /\ [B!Next]_(B!vars) /\ [Timed!Next]_(Timed!vars)
                               /\ [Quit!Next]_(Quit!vars) /\ [Echo!Next]_(Echo!vars)
    BY BatchStep
  <1> QED
    BY <1>1, <1>2, PTL DEF BatchSpec, Spec, B!Spec, Timed!Spec, Quit!Spec, Echo!Spec

\* The copy is sound in the composition too, as the run checks it.
THEOREM CopyIsSound == BatchSpec => [](OpNumExact /\ BlocksOwned /\ OutputExact)
  BY BatchRefines, CountIsExact, BlocksHaveOwners, OutputIsExact, PTL

\* barrier_test (barier_test1.c) is sound for every number of threads, length of a
\* part and input: merge reads sorted parts nobody writes any more, always finds a
\* least head, and writes the numbers of the input in order.
THEOREM MergeIsSound == BatchSpec => []MergeSound
  <1>1. B!Spec => []((B!MergeAfterSort) /\ (B!MinIdxSet)) /\ []((B!OutputSorted) /\ (B!Conserved))
    BY BatchAssumption, SameSort, B!MergesAfterSort, B!OutputIsSorted
  <1>2. B!MergeAfterSort /\ B!MinIdxSet /\ B!OutputSorted /\ B!Conserved => MergeSound
    BY SameSort DEF MergeSound
  <1> QED
    BY <1>1, <1>2, BatchRefines, PTL

-----------------------------------------------------------------------------
(* The call at a wanted time *)

Span == [sec : Int, nsec : 0..(SECTONSEC - 1)]
MainAt == {"lock", "when", "timeout", "makethread", "call", "retry", "retried", "unlock", "exit", "gone"}
HelperAt == {"none", "sleep", "asleep", "retry", "retried", "done", "gone"}

TimedTypeOK == /\ clock \in Timed!Time
               /\ caller \in MainAt /\ helper \in HelperAt
               /\ when \in Span /\ now \in Span /\ to_wait \in Span /\ wake \in Span
               /\ owner \in {"none", "main", "helper"} /\ depth \in Nat
               /\ called \in Span

\* Who holds the mutex, and how often, is where the threads are.
MutexInv ==
  /\ caller = "lock" => owner = "none" /\ depth = 0
  /\ caller \in {"when", "timeout", "makethread", "call", "retry", "unlock"} => owner = "main" /\ depth = 1
  /\ caller = "retried" => owner = "main" /\ depth = 2
  /\ caller \notin {"unlock", "exit", "gone"} => helper = "none"
  /\ caller = "gone" => helper = "gone"
  /\ helper = "gone" => caller = "gone"
  /\ helper = "retried" => caller = "exit" /\ owner = "helper" /\ depth = 1
  /\ caller = "exit" /\ helper \in {"sleep", "asleep", "retry", "done"} => owner = "none" /\ depth = 0

\* What is to be waited is what was left of the time when it was asked for.
Asked == /\ when \in Timed!Time /\ now \in Timed!Time
         /\ ~Timed!Before(clock, now) /\ Timed!InFuture(now) /\ to_wait = Timed!ToWait(now)

\* retry is called when the time has come, or in its second.
WaitInv ==
  /\ caller \in {"lock", "when"} => called = Timed!None
  /\ caller = "timeout" => called = Timed!None /\ when \in Timed!Time
  /\ caller = "makethread" => called = Timed!None /\ Asked
  /\ caller = "call" => /\ called = Timed!None /\ when \in Timed!Time /\ now \in Timed!Time
                        /\ ~Timed!InFuture(now) /\ ~Timed!Before(clock, now)
  /\ helper = "sleep" => called = Timed!None /\ Asked
  /\ helper = "asleep" => called = Timed!None /\ (~Timed!Before(wake, when) \/ now.sec = when.sec)
  /\ Timed!CalledInTime

TimedInv == TimedTypeOK /\ MutexInv /\ WaitInv

-----------------------------------------------------------------------------

LEMMA TimedFacts == /\ SECTONSEC \in Nat \ {0} /\ DELAY \in Nat
                    /\ Starts \subseteq Timed!Time /\ Timed!None \in Span
                    /\ \A t \in Timed!Time : t \in Span
                    /\ \A t \in Timed!Time : t # Timed!None
  BY BatchAssumption DEF Timed!TimeAssumption, Timed!Time, Timed!None, Span

LEMMA TimeFields == /\ \A t \in Timed!Time : t.sec \in Nat /\ t.nsec \in 0..(SECTONSEC - 1)
                    /\ \A t \in Span : t.sec \in Int /\ t.nsec \in 0..(SECTONSEC - 1)
  BY DEF Timed!Time, Span

LEMMA TickTime ==
  ASSUME NEW t \in Timed!Time
  PROVE  Timed!After(t, [sec |-> 0, nsec |-> 1]) \in Timed!Time /\ ~Timed!Before(Timed!After(t, [sec |-> 0, nsec |-> 1]), t)
  BY TimedFacts, TimeFields DEF Timed!After, Timed!Before, Timed!Time

\* The clock passes what it has passed.
LEMMA StillPassed ==
  ASSUME NEW s \in Span, NEW t \in Span, NEW u \in Span, ~Timed!Before(s, t), ~Timed!Before(t, u)
  PROVE  ~Timed!Before(s, u)
  BY TimedFacts, TimeFields DEF Timed!Before

LEMMA AfterSpan == ASSUME NEW t \in Span, NEW w \in Span PROVE Timed!After(t, w) \in Span
  <1>1. /\ t.sec \in Int /\ t.nsec \in Int /\ 0 <= t.nsec /\ t.nsec < SECTONSEC
        /\ w.sec \in Int /\ w.nsec \in Int /\ 0 <= w.nsec /\ w.nsec < SECTONSEC
        /\ SECTONSEC \in Int
    BY TimedFacts, TimeFields
  <1> QED
    BY <1>1 DEF Timed!After, Span

\* Who starts to wait at now or later, for what is left then, wakes at the wanted time
\* or later.
LEMMA WaitLongEnough ==
  ASSUME when \in Timed!Time, NEW n \in Timed!Time, NEW t \in Timed!Time, ~Timed!Before(t, n), Timed!InFuture(n)
  PROVE  /\ Timed!ToWait(n) \in Span
         /\ Timed!ToWait(n).sec < 0 => n.sec = when.sec
         /\ Timed!ToWait(n).sec >= 0 => ~Timed!Before(Timed!After(t, Timed!ToWait(n)), when)
  <1> DEFINE w == Timed!ToWait(n)
  <1>1. /\ when.sec \in Int /\ when.nsec \in Int /\ 0 <= when.nsec /\ when.nsec < SECTONSEC
        /\ n.sec \in Int /\ n.nsec \in Int /\ 0 <= n.nsec /\ n.nsec < SECTONSEC
        /\ t.sec \in Int /\ t.nsec \in Int /\ 0 <= t.nsec /\ t.nsec < SECTONSEC
        /\ SECTONSEC \in Int
    BY TimedFacts, TimeFields
  <1>2. /\ w \in Span
        /\ \/ when.nsec >= n.nsec /\ w.sec = when.sec - n.sec /\ w.nsec = when.nsec - n.nsec
           \/ when.nsec < n.nsec /\ w.sec = when.sec - n.sec - 1 /\ w.nsec = SECTONSEC - n.nsec + when.nsec
    BY <1>1 DEF Timed!ToWait, Span
  <1>3. n.sec < when.sec \/ n.sec = when.sec
    BY <1>1 DEF Timed!InFuture
  <1>4. t.sec > n.sec \/ (t.sec = n.sec /\ t.nsec >= n.nsec)
    BY <1>1 DEF Timed!Before
  <1>5. /\ Timed!After(t, w).sec = IF t.nsec + w.nsec < SECTONSEC THEN t.sec + w.sec ELSE t.sec + w.sec + 1
        /\ Timed!After(t, w).nsec = IF t.nsec + w.nsec < SECTONSEC THEN t.nsec + w.nsec ELSE t.nsec + w.nsec - SECTONSEC
    BY DEF Timed!After
  <1>6. w.sec \in Int /\ w.nsec \in Int
    BY <1>1, <1>2
  <1> HIDE DEF w
  <1>7. w.sec < 0 => n.sec = when.sec
    BY <1>1, <1>2, <1>3, <1>6
  <1>8. ~(Timed!After(t, w).sec < when.sec \/ (Timed!After(t, w).sec = when.sec /\ Timed!After(t, w).nsec < when.nsec))
    BY <1>1, <1>2, <1>4, <1>5, <1>6
  <1>9. ~Timed!Before(Timed!After(t, w), when)
    BY <1>8 DEF Timed!Before
  <1> QED
    BY <1>2, <1>7, <1>9 DEF w

LEMMA TimedInit == Timed!Init => TimedInv
  <1> SUFFICES ASSUME Timed!Init PROVE TimedInv
    OBVIOUS
  <1>1. TimedTypeOK
    BY TimedFacts DEF Timed!Init, TimedTypeOK, MainAt, HelperAt
  <1>2. MutexInv
    BY DEF Timed!Init, MutexInv
  <1>3. WaitInv
    BY DEF Timed!Init, WaitInv, Timed!CalledInTime
  <1> QED
    BY <1>1, <1>2, <1>3 DEF TimedInv

\* What the time asked for says is the same as the clock goes on.
LEMMA TickStep == ASSUME TimedInv, Timed!Tick PROVE TimedInv'
  <1> USE DEF TimedInv, TimedTypeOK
  <1>1. /\ UNCHANGED <<caller, helper, when, now, to_wait, wake, owner, depth, called>>
        /\ clock' \in Timed!Time /\ ~Timed!Before(clock', clock)
    BY TickTime DEF Timed!Tick
  <1>2. TimedTypeOK'
    BY <1>1
  <1>3. MutexInv'
    BY <1>1 DEF MutexInv
  <1>4. ~Timed!Before(clock, now) => ~Timed!Before(clock', now)
    BY <1>1, StillPassed, TimedFacts
  <1>5. WaitInv'
    BY <1>1, <1>4 DEF WaitInv, Asked, Timed!CalledInTime, Timed!InFuture, Timed!ToWait, Timed!Before
  <1> QED
    BY <1>2, <1>3, <1>5

\* The steps of main.
LEMMA MainStep == ASSUME TimedInv, Timed!recursive_mutex_test1 PROVE TimedInv'
  <1> USE DEF TimedInv, TimedTypeOK, MainAt, HelperAt
  <1>1. ASSUME Timed!MainLocks \/ Timed!MainRetries \/ Timed!MainUnlocks PROVE TimedInv'
    <2>1. UNCHANGED <<clock, helper, wake, when, now, to_wait, called>>
      BY <1>1 DEF Timed!MainLocks, Timed!MainRetries, Timed!MainUnlocks, Timed!Goes
    <2>2. /\ \/ caller = "lock" /\ caller' = "when"
             \/ caller = "retry" /\ caller' = "retried"
             \/ caller = "retried" /\ caller' = "unlock"
             \/ caller = "unlock" /\ caller' = "exit"
          /\ \/ caller \in {"lock", "retry"} /\ owner \in {"none", "main"} /\ owner' = "main" /\ depth' = depth + 1
             \/ caller \in {"retried", "unlock"} /\ depth' = depth - 1
                  /\ owner' = IF depth = 1 THEN "none" ELSE owner
      BY <1>1 DEF Timed!MainLocks, Timed!MainRetries, Timed!MainUnlocks, Timed!Goes, Timed!Lock, Timed!Unlock
    <2>3. MutexInv'
      BY <2>1, <2>2 DEF MutexInv
    <2>4. TimedTypeOK'
      BY <2>1, <2>2 DEF MutexInv
    <2>5. WaitInv'
      BY <2>1, <2>2 DEF WaitInv, Asked, Timed!CalledInTime, Timed!InFuture, Timed!ToWait
    <2> QED
      BY <2>3, <2>4, <2>5
  <1>2. ASSUME Timed!SetWhen PROVE TimedInv'
    <2>1. /\ UNCHANGED <<clock, helper, wake, now, to_wait, owner, depth, called>>
          /\ caller = "when" /\ caller' = "timeout" /\ when' = [clock EXCEPT !.sec = @ + DELAY]
      BY <1>2 DEF Timed!SetWhen, Timed!Goes
    <2>2. when' \in Timed!Time
      BY <2>1, TimedFacts, TimeFields DEF Timed!Time
    <2>3. TimedTypeOK'
      BY <2>1, <2>2, TimedFacts
    <2>4. MutexInv'
      BY <2>1 DEF MutexInv
    <2>5. WaitInv'
      BY <2>1, <2>2 DEF WaitInv, Timed!CalledInTime, MutexInv
    <2> QED
      BY <2>3, <2>4, <2>5
  <1>3. ASSUME Timed!timeout PROVE TimedInv'
    <2>1. /\ UNCHANGED <<clock, helper, when, wake, owner, depth, called>>
          /\ caller = "timeout" /\ now' = clock /\ called = Timed!None /\ when \in Timed!Time /\ helper = "none"
          /\ IF Timed!InFuture(clock) THEN caller' \in {"makethread", "exit"} /\ to_wait' = Timed!ToWait(clock)
             ELSE caller' = "call" /\ UNCHANGED to_wait
      BY <1>3 DEF Timed!timeout, WaitInv, MutexInv
    <2>2. ~Timed!Before(clock, clock)
      BY TimeFields DEF Timed!Before
    <2>3. Timed!InFuture(clock) => to_wait' \in Span
      BY <2>1, <2>2, WaitLongEnough
    <2>4. TimedTypeOK'
      BY <2>1, <2>3, TimedFacts
    <2>5. MutexInv'
      BY <2>1 DEF MutexInv
    <2>6. CASE Timed!InFuture(clock)
      <3>1. Asked'
        BY <2>1, <2>2, <2>6 DEF Asked, Timed!InFuture, Timed!ToWait, Timed!Before
      <3> QED
        BY <2>1, <2>4, <2>5, <2>6, <3>1 DEF WaitInv, Timed!CalledInTime
    <2>7. CASE ~Timed!InFuture(clock)
      <3>1. ~Timed!InFuture(now)' /\ ~Timed!Before(clock, now)'
        BY <2>1, <2>2, <2>7 DEF Timed!InFuture, Timed!Before
      <3> QED
        BY <2>1, <2>4, <2>5, <2>7, <3>1 DEF WaitInv, Timed!CalledInTime
    <2> QED
      BY <2>6, <2>7
  <1>4. ASSUME Timed!makethread \/ Timed!Exit PROVE TimedInv'
    <2>1. /\ UNCHANGED <<clock, when, now, to_wait, wake, owner, depth, called>>
          /\ \/ caller = "makethread" /\ caller' = "unlock" /\ helper' \in {"sleep", "none"}
             \/ caller = "exit" /\ caller' = "gone" /\ helper' = "gone"
      BY <1>4 DEF Timed!makethread, Timed!Exit
    <2>2. TimedTypeOK'
      BY <2>1
    <2>3. MutexInv'
      BY <2>1 DEF MutexInv
    <2>4. WaitInv'
      BY <2>1 DEF WaitInv, Asked, Timed!CalledInTime, Timed!InFuture, Timed!ToWait, Timed!Before
    <2> QED
      BY <2>2, <2>3, <2>4
  <1>5. ASSUME Timed!CallNow PROVE TimedInv'
    <2>1. /\ UNCHANGED <<clock, helper, wake, when, now, to_wait, owner, depth>>
          /\ caller = "call" /\ caller' = "retry" /\ called' = clock /\ helper = "none"
      BY <1>5 DEF Timed!CallNow, Timed!Goes, MutexInv
    <2>2. when \in Timed!Time /\ now \in Timed!Time /\ ~Timed!InFuture(now) /\ ~Timed!Before(clock, now)
      BY <2>1 DEF WaitInv
    <2>3. ~Timed!Before(now, when) \/ now.sec = when.sec
      BY <2>2, TimeFields DEF Timed!InFuture, Timed!Before
    <2>4. ~Timed!Before(clock, when) \/ now.sec = when.sec
      BY <2>2, <2>3, StillPassed, TimedFacts
    <2>5. Timed!CalledInTime'
      BY <2>1, <2>4 DEF Timed!CalledInTime, Timed!Before
    <2>6. TimedTypeOK'
      BY <2>1, TimedFacts
    <2>7. MutexInv'
      BY <2>1 DEF MutexInv
    <2>8. WaitInv'
      BY <2>1, <2>5 DEF WaitInv
    <2> QED
      BY <2>6, <2>7, <2>8
  <1> QED
    BY <1>1, <1>2, <1>3, <1>4, <1>5 DEF Timed!recursive_mutex_test1

\* The steps of the helper.
LEMMA HelperStep == ASSUME TimedInv, Timed!timeout_helper PROVE TimedInv'
  <1> USE DEF TimedInv, TimedTypeOK, MainAt, HelperAt
  <1>1. ASSUME Timed!Sleep PROVE TimedInv'
    <2>1. /\ UNCHANGED <<clock, caller, when, now, to_wait, owner, depth, called>>
          /\ helper = "sleep" /\ helper' = "asleep"
          /\ wake' = IF to_wait.sec < 0 THEN clock ELSE Timed!After(clock, to_wait)
      BY <1>1 DEF Timed!Sleep, Timed!Helps
    <2>2. called = Timed!None /\ Asked
      BY <2>1 DEF WaitInv
    <2>3. wake' \in Span
      BY <2>1, AfterSpan, TimedFacts
    <2>4. ~Timed!Before(wake', when) \/ now.sec = when.sec
      <3>1. CASE to_wait.sec < 0
        BY <2>2, <3>1, WaitLongEnough DEF Asked
      <3>2. CASE to_wait.sec >= 0
        <4>1. ~(to_wait.sec < 0)
          BY <3>2, TimeFields
        <4> QED
          BY <2>1, <2>2, <3>2, <4>1, WaitLongEnough DEF Asked
      <3> QED
        BY <3>1, <3>2, TimeFields
    <2>5. TimedTypeOK'
      BY <2>1, <2>3
    <2>6. MutexInv'
      BY <2>1 DEF MutexInv
    <2>7. (~Timed!Before(wake, when) \/ now.sec = when.sec)'
      BY <2>1, <2>4 DEF Timed!Before
    <2>8. WaitInv'
      BY <2>1, <2>2, <2>7 DEF WaitInv, Timed!CalledInTime, MutexInv
    <2> QED
      BY <2>5, <2>6, <2>8
  <1>2. ASSUME Timed!CallLater PROVE TimedInv'
    <2>1. /\ UNCHANGED <<clock, caller, when, now, to_wait, wake, owner, depth>>
          /\ helper = "asleep" /\ helper' = "retry" /\ called' = clock /\ ~Timed!Before(clock, wake)
      BY <1>2 DEF Timed!CallLater, Timed!Helps
    <2>2. ~Timed!Before(wake, when) \/ now.sec = when.sec
      BY <2>1 DEF WaitInv
    <2>3. ~Timed!Before(clock, when) \/ now.sec = when.sec
      BY <2>1, <2>2, StillPassed, TimedFacts
    <2>4. Timed!CalledInTime'
      BY <2>1, <2>3 DEF Timed!CalledInTime, Timed!Before
    <2>5. TimedTypeOK'
      BY <2>1, TimedFacts
    <2>6. MutexInv'
      BY <2>1 DEF MutexInv
    <2>7. WaitInv'
      BY <2>1, <2>4 DEF WaitInv, MutexInv
    <2> QED
      BY <2>5, <2>6, <2>7
  <1>3. ASSUME Timed!HelperRetries PROVE TimedInv'
    <2>1. /\ UNCHANGED <<clock, caller, when, now, to_wait, wake, called>>
          /\ \/ /\ helper = "retry" /\ helper' = "retried"
                /\ owner \in {"none", "helper"} /\ owner' = "helper" /\ depth' = depth + 1
             \/ /\ helper = "retried" /\ helper' = "done"
                /\ depth' = depth - 1 /\ owner' = IF depth = 1 THEN "none" ELSE owner
      BY <1>3 DEF Timed!HelperRetries, Timed!Helps, Timed!Lock, Timed!Unlock
    <2>2. MutexInv'
      BY <2>1 DEF MutexInv
    <2>3. TimedTypeOK'
      BY <2>1 DEF MutexInv
    <2>4. WaitInv'
      BY <2>1 DEF WaitInv, Asked, Timed!CalledInTime, Timed!InFuture, Timed!ToWait, MutexInv
    <2> QED
      BY <2>2, <2>3, <2>4
  <1> QED
    BY <1>1, <1>2, <1>3 DEF Timed!timeout_helper

LEMMA TimedInvariance == Timed!Spec => []TimedInv
  <1>1. TimedInv /\ UNCHANGED Timed!vars => TimedInv'
    BY DEF Timed!vars, TimedInv, TimedTypeOK, MutexInv, WaitInv, Asked, Timed!CalledInTime, Timed!InFuture,
           Timed!ToWait, Timed!Before
  <1>2. TimedInv /\ [Timed!Next]_(Timed!vars) => TimedInv'
    BY <1>1, TickStep, MainStep, HelperStep DEF Timed!Next, Timed!Gone
  <1> QED
    BY <1>2, TimedInit, PTL DEF Timed!Spec

\* "implements calling a function after some time" (lock_test5.c:6): at whatever time it
\* starts and however the clock goes on between the steps, retry is not called before
\* its time, but for the second in which the code compares nanoseconds with seconds;
\* and the helper is in it only while main is not in its region.
THEOREM CallIsSound == BatchSpec => []CallSound
  <1>1. TimedInv => CallSound
    BY DEF TimedInv, WaitInv, MutexInv, CallSound, Timed!RetryAlone
  <1> QED
    BY <1>1, BatchRefines, TimedInvariance, PTL

-----------------------------------------------------------------------------
(* The thread that takes the signals *)

QuitTypeOK ==
  /\ main \in {"block", "create", "lock", "test", "wait", "asleep", "unlock", "clear", "restore", "exit"} \cup Quit!Over
  /\ thread \in {"none", "sigwait", "lock", "set", "unlock", "signal", "done", "gone"}
  /\ quitflag \in {0, 1} /\ lock \in {"free", "main", "thread"} /\ waitloc \in {"none", "waits", "woken"}
  /\ pending \subseteq Quit!mask /\ blocked \in BOOLEAN /\ quits \in BOOLEAN

\* The thread lives from its creation to the end of the process; signals are blocked in
\* between.
LifeInv == /\ main \in {"block", "create"} <=> thread = "none"
           /\ main \in Quit!Over <=> thread = "gone"
           /\ main \in {"block", "exit"} => ~blocked
           /\ main \notin {"block", "exit"} \cup Quit!Over => blocked
           /\ main \in {"exit", "exited"} => pending = {}

\* Who holds the mutex; quitflag changes only in the hands of its holder.
LockInv == /\ main \in {"test", "wait", "unlock"} => lock = "main"
           /\ thread \in {"set", "unlock"} => lock = "thread"
           /\ main # "asleep" => waitloc = "none"
           /\ main = "wait" => quitflag = 0

\* quitflag is set once SIGQUIT has been taken.
FlagInv == /\ quitflag = 1 => thread \in {"unlock", "signal", "done", "gone"}
           /\ thread \in {"lock", "set", "unlock", "signal", "done"} => quits

QuitInv == QuitTypeOK /\ LifeInv /\ LockInv /\ FlagInv /\ Quit!StopsOnQuit /\ Quit!WakeupNotLost

LEMMA QuitInit == Quit!Init => QuitInv
  <1> SUFFICES ASSUME Quit!Init PROVE QuitInv
    OBVIOUS
  <1> USE DEF Quit!Init, Quit!Over
  <1>1. QuitTypeOK
    <2>1. main \in {"block", "create", "lock", "test", "wait", "asleep", "unlock", "clear", "restore", "exit"}
      OBVIOUS
    <2>2. quitflag \in {0, 1} /\ pending \subseteq Quit!mask
      OBVIOUS
    <2>3. blocked \in BOOLEAN /\ quits \in BOOLEAN
      OBVIOUS
    <2> QED
      BY <2>1, <2>2, <2>3 DEF QuitTypeOK
  <1>2. LifeInv
    BY DEF LifeInv
  <1>3. LockInv /\ FlagInv
    BY DEF LockInv, FlagInv
  <1>4. Quit!StopsOnQuit /\ Quit!WakeupNotLost
    BY DEF Quit!StopsOnQuit, Quit!WakeupNotLost
  <1> QED
    BY <1>1, <1>2, <1>3, <1>4 DEF QuitInv

\* A signal of the user.
LEMMA UserStep == ASSUME QuitInv, Quit!User PROVE QuitInv'
  <1>1. /\ main \notin Quit!Over /\ UNCHANGED <<quitflag, lock, waitloc, blocked, quits>>
        /\ \/ blocked /\ pending' \subseteq Quit!mask /\ UNCHANGED <<main, thread>>
           \/ ~blocked /\ main' = "killed" /\ thread' = "gone" /\ UNCHANGED pending
    BY DEF Quit!User, QuitInv, QuitTypeOK
  <1>2. ~blocked => main \in {"block", "exit"}
    BY <1>1 DEF QuitInv, LifeInv
  <1> QED
    BY <1>1, <1>2 DEF QuitInv, QuitTypeOK, LifeInv, LockInv, FlagInv, Quit!StopsOnQuit, Quit!WakeupNotLost, Quit!Over

\* The steps of main, all of which but the last change no signal and no history.
LEMMA QuitMainStep == ASSUME QuitInv, Quit!thread_signal_test1 PROVE QuitInv'
  <1> USE DEF QuitInv, QuitTypeOK, LifeInv, LockInv, FlagInv, Quit!StopsOnQuit, Quit!WakeupNotLost, Quit!Over
  <1>1. CASE Quit!Block
    BY <1>1 DEF Quit!Block, Quit!Goes, Quit!Alone
  <1>2. CASE Quit!Create
    BY <1>2 DEF Quit!Create, Quit!Exits
  <1>3. CASE Quit!Lock
    BY <1>3 DEF Quit!Lock, Quit!Goes, Quit!Alone
  <1>4. CASE Quit!Test
    BY <1>4 DEF Quit!Test, Quit!Goes, Quit!Alone
  <1>5. CASE Quit!CondWait
    BY <1>5 DEF Quit!CondWait, Quit!Goes, Quit!Alone
  <1>6. CASE Quit!Wake
    BY <1>6 DEF Quit!Wake, Quit!Goes
  <1>7. CASE Quit!Unlock
    BY <1>7 DEF Quit!Unlock, Quit!Goes, Quit!Alone
  <1>8. CASE Quit!Clear
    BY <1>8 DEF Quit!Clear, Quit!Goes, Quit!Alone
  <1>9. CASE Quit!Restore
    BY <1>9 DEF Quit!Restore, Quit!Exits
  <1>10. CASE Quit!Exit
    BY <1>10 DEF Quit!Exit, Quit!Exits
  <1> QED
    BY <1>1, <1>2, <1>3, <1>4, <1>5, <1>6, <1>7, <1>8, <1>9, <1>10 DEF Quit!thread_signal_test1, Quit!Proceed

\* The steps of the thread.
LEMMA QuitThreadStep == ASSUME QuitInv, Quit!thread_fun PROVE QuitInv'
  <1> USE DEF QuitInv, QuitTypeOK, LifeInv, LockInv, FlagInv, Quit!StopsOnQuit, Quit!WakeupNotLost, Quit!Over
  <1>1. CASE Quit!SigWait
    <2>1. /\ thread = "sigwait" /\ thread' \in {"lock", "sigwait"} /\ (thread' = "lock" => quits')
          /\ quits' \in BOOLEAN /\ pending' \subseteq Quit!mask /\ main \notin {"exit", "exited"}
          /\ UNCHANGED <<main, blocked, quitflag, lock, waitloc>>
      BY <1>1 DEF Quit!SigWait, Quit!Steps
    <2>2. quitflag = 0 /\ main \notin {"unlock", "clear", "restore"}
      BY <2>1
    <2> QED
      BY <2>1, <2>2
  <1>2. CASE Quit!ThreadLocks
    BY <1>2 DEF Quit!ThreadLocks, Quit!Steps
  <1>3. CASE Quit!SetFlag
    BY <1>3 DEF Quit!SetFlag, Quit!Steps
  <1>4. CASE Quit!ThreadUnlocks
    BY <1>4 DEF Quit!ThreadUnlocks, Quit!Steps
  <1>5. CASE Quit!CondSignal
    BY <1>5 DEF Quit!CondSignal, Quit!Steps
  <1> QED
    BY <1>1, <1>2, <1>3, <1>4, <1>5 DEF Quit!thread_fun

LEMMA QuitInvariance == Quit!Spec => []QuitInv
  <1>1. QuitInv /\ UNCHANGED Quit!vars => QuitInv'
    BY DEF Quit!vars, QuitInv, QuitTypeOK, LifeInv, LockInv, FlagInv, Quit!StopsOnQuit, Quit!WakeupNotLost
  <1>2. QuitInv /\ [Quit!Next]_(Quit!vars) => QuitInv'
    BY <1>1, UserStep, QuitMainStep, QuitThreadStep DEF Quit!Next, Quit!Rest
  <1> QED
    BY <1>2, QuitInit, PTL DEF Quit!Spec

\* However often the user sends SIGINT and SIGQUIT, and however often main wakes for
\* nothing, main passes its loop when the thread has taken SIGQUIT and is done with
\* quitflag, and does not sleep through the signal of the condition.
THEOREM QuitIsSound == BatchSpec => []QuitSound
  <1>1. QuitInv => QuitSound
    BY DEF QuitInv, QuitSound
  <1> QED
    BY <1>1, BatchRefines, QuitInvariance, PTL

-----------------------------------------------------------------------------
(* The echo client *)

EchoTypeOK ==
  /\ size \in Nat /\ zeros \subseteq Nat /\ taken \in 0..size /\ nul \in 0..Reach
  /\ client \in {"select", "socket", "stdin", "send"} \cup Echo!Over
  /\ stdin_eof \in {0, 1} /\ rset \subseteq {"stdin", "socket"}
  /\ todo \in Seq(Nat) /\ up \in Seq(Nat) /\ down \in Seq(Nat) /\ buff \in Seq(Nat)
  /\ shown \in Seq(Nat) /\ sent \in Seq(Nat)
  /\ conn \in {"open", "fin", "reset", "broken"} /\ server \in {"read", "write", "exited", "killed"}

\* The provers find what is said of a row of rows more easily by this name.
Row(s, t) == s \o t

\* Everything that was sent and is not lost is somewhere on its way, in its order.
FlowInv == \E rest \in Seq(Nat) : /\ sent = Row(shown, Row(down, rest))
                                  /\ server # "killed" => rest = Row(buff, Row(up, todo))

\* Who has bytes in his buffer writes; how the server has ended is what the client sees,
\* and it ends by itself only after the input of the client.
EndsInv ==
  /\ client = "send" <=> todo # <<>>
  /\ server = "write" <=> buff # <<>>
  /\ conn = "open" <=> server \in {"read", "write"}
  /\ conn \in {"reset", "broken"} => server = "killed"
  /\ server = "exited" => up = <<>> /\ stdin_eof = 1
  /\ stdin_eof = 1 => taken = size /\ todo = <<>> /\ "stdin" \notin rset
  /\ client = "done" => stdin_eof = 1 /\ conn # "open" /\ down = <<>>

InputInv == Echo!Contains(sent, Echo!Counted(taken))

EchoInv == EchoTypeOK /\ FlowInv /\ EndsInv /\ InputInv /\ Echo!FailsWithServer /\ Echo!ReadsReady

-----------------------------------------------------------------------------

\* Rows of bytes may be put together in any order.
LEMMA RowType == ASSUME NEW s \in Seq(Nat), NEW t \in Seq(Nat) PROVE Row(s, t) \in Seq(Nat)
  BY ConcatProperties DEF Row

LEMMA Regrouped == ASSUME NEW s \in Seq(Nat), NEW t \in Seq(Nat), NEW u \in Seq(Nat)
                   PROVE  Row(Row(s, t), u) = Row(s, Row(t, u))
  BY ConcatAssociative DEF Row

LEMMA RowEmpty == ASSUME NEW s \in Seq(Nat)
                  PROVE  Row(s, <<>>) = s /\ Row(<<>>, s) = s /\ <<>> \in Seq(Nat)
  BY ConcatEmptySeq, EmptySeq DEF Row

\* A sequence is what is taken from its beginning and what is left.
LEMMA Cut ==
  ASSUME NEW s \in Seq(Nat), NEW n \in 1..Len(s)
  PROVE  /\ Echo!First(s, n) \in Seq(Nat) /\ Echo!Rest(s, n) \in Seq(Nat)
         /\ Echo!First(s, n) # <<>>
         /\ Row(Echo!First(s, n), Echo!Rest(s, n)) = s
  <1>1. Len(s) \in Nat /\ \A k \in 1..Len(s) : s[k] \in Nat
    BY LenProperties, ElementOfSeq
  <1>2. /\ SubSeq(s, 1, n) \in Seq(Nat) /\ Len(SubSeq(s, 1, n)) = n
    BY <1>1, SubSeqProperties
  <1>3. SubSeq(s, n + 1, Len(s)) \in Seq(Nat)
    BY <1>1, SubSeqProperties
  <1>4. SubSeq(s, 1, n) \o SubSeq(s, n + 1, Len(s)) = SubSeq(s, 1, Len(s))
    BY <1>1, ConcatAdjacentSubSeq
  <1>5. SubSeq(s, 1, Len(s)) = s
    BY SubSeqFull
  <1>6. SubSeq(s, 1, n) # <<>>
    BY <1>2, EmptySeq
  <1> QED
    BY <1>2, <1>3, <1>4, <1>5, <1>6 DEF Echo!First, Echo!Rest, Row

\* What is taken from the beginning of one part of a row and put at the end of the part
\* before it stays where it is in the row.
LEMMA Moved ==
  ASSUME NEW s \in Seq(Nat), NEW t \in Seq(Nat), NEW u \in Seq(Nat), NEW n \in 1..Len(t)
  PROVE  /\ Row(Row(s, Echo!First(t, n)), Row(Echo!Rest(t, n), u)) = Row(s, Row(t, u))
         /\ Row(s, Echo!First(t, n)) \in Seq(Nat)
  <1>1. PICK f \in Seq(Nat), r \in Seq(Nat) : f = Echo!First(t, n) /\ r = Echo!Rest(t, n) /\ Row(f, r) = t
    BY Cut
  <1>2. Row(r, u) \in Seq(Nat)
    BY RowType
  <1>3. Row(Row(s, f), Row(r, u)) = Row(s, Row(f, Row(r, u)))
    BY <1>2, Regrouped
  <1>4. Row(f, Row(r, u)) = Row(t, u)
    BY <1>1, Regrouped
  <1> QED
    BY <1>1, <1>3, <1>4, RowType

\* What comes first in a row is its beginning.
LEMMA Beginning ==
  ASSUME NEW s \in Seq(Nat), NEW t \in Seq(Nat)
  PROVE  Len(s) <= Len(Row(s, t)) /\ s = Echo!First(Row(s, t), Len(s))
  <1>1. /\ Len(s) \in Nat /\ Len(t) \in Nat
        /\ s \o t \in Seq(Nat) /\ Len(s \o t) = Len(s) + Len(t)
        /\ \A k \in 1..Len(s) : (s \o t)[k] = s[k] /\ s[k] \in Nat
    BY LenProperties, ElementOfSeq, ConcatProperties
  <1>2. /\ SubSeq(s \o t, 1, Len(s)) \in Seq(Nat)
        /\ Len(SubSeq(s \o t, 1, Len(s))) = Len(s)
        /\ \A k \in 1..Len(s) : SubSeq(s \o t, 1, Len(s))[k] = (s \o t)[k]
    BY <1>1, SubSeqProperties
  <1>3. SubSeq(s \o t, 1, Len(s)) = s
    BY <1>1, <1>2, SeqEqual
  <1> QED
    BY <1>1, <1>3 DEF Echo!First, Row

\* A new line begins with the next bytes of the input, all of them that strlen counts for sure.
LEMMA NextBytes ==
  ASSUME NEW s \in Seq(Nat), taken \in Nat, zeros \subseteq Nat, MAXLINE \in Nat, Reach \in Nat,
         Echo!Contains(s, Echo!Counted(taken)),
         NEW n \in Nat, n <= MAXLINE, NEW len \in Nat, len \in Echo!Strlen(n), nul \in Nat
  PROVE  /\ Echo!Line(n, len) \in Seq(Nat) /\ Len(Echo!Line(n, len)) = len
         /\ Echo!Contains(Row(s, Echo!Line(n, len)), Echo!Counted(taken + n))
  <1> DEFINE line == Echo!Line(n, len)
             Old == Echo!Counted(taken)
             New == Echo!Counted(taken + n)
  <1>1. /\ line \in Seq(Nat) /\ Len(line) = len
        /\ \A j \in 1..len : j <= n => line[j] = taken + j
    <2>1. line = [j \in 1..len |-> IF j <= n THEN taken + j ELSE 0]
      BY DEF Echo!Line, Echo!Stale
    <2>2. \A j \in 1..len : (IF j <= n THEN taken + j ELSE 0) \in Nat
      OBVIOUS
    <2>3. line \in Seq(Nat)
      BY <2>1, <2>2, IsASeq
    <2> QED
      BY <2>1, <2>3, LenProperties
  <1> HIDE DEF line
  <1>2. /\ Len(s) \in Nat /\ Len(s \o line) = Len(s) + len
        /\ \A k \in 1..(Len(s) + len) : (s \o line)[k] = IF k <= Len(s) THEN s[k] ELSE line[k - Len(s)]
    BY <1>1, LenProperties, ConcatProperties
  \* what is counted was counted before, or stands in the line
  <1>3. ASSUME NEW j \in New PROVE j \in Nat /\ (j \in Old \/ (j > taken /\ j - taken \in 1..len /\ j - taken <= n))
    <2>1. j \in 1..(taken + n) /\ \A k \in zeros : ~(j - MAXLINE < k /\ k <= j)
      BY <1>3 DEF Echo!Counted
    <2>2. CASE j <= taken
      BY <2>1, <2>2 DEF Echo!Counted
    <2>3. CASE j > taken
      <3> DEFINE m == j - taken
      <3>1. m \in 1..n /\ j = taken + m /\ m <= MAXLINE /\ m \in Nat
        BY <2>1, <2>3
      <3> HIDE DEF m
      <3>2. ASSUME NEW k \in 1..m PROVE taken + k \notin zeros
        BY <2>1, <3>1
      <3>3. m <= len
        <4>1. CASE \E k \in 1..n : taken + k \in zeros
          <5>1. len \in 0..(n - 1) /\ taken + len + 1 \in zeros
            BY <4>1 DEF Echo!Strlen
          <5>2. taken + len + 1 = taken + (len + 1)
            BY <5>1
          <5>3. ~(len + 1 \in 1..m)
            BY <3>2, <5>1, <5>2
          <5> QED
            BY <3>1, <5>1, <5>3
        <4>2. CASE ~ \E k \in 1..n : taken + k \in zeros
          <5>1. len \in (IF n > nul THEN n..Reach ELSE IF nul < MAXLINE THEN {nul} ELSE MAXLINE..Reach)
            BY <4>2 DEF Echo!Strlen
          <5>2. n <= len
            BY <5>1
          <5> QED
            BY <3>1, <5>2
        <4> QED
          BY <4>1, <4>2
      <3> QED
        BY <2>3, <3>1, <3>3 DEF m
    <2> QED
      BY <2>1, <2>2, <2>3
  <1>4. PICK f \in [Old -> 1..Len(s)] : /\ \A j \in Old : s[f[j]] = j
                                       /\ \A j, k \in Old : j < k => f[j] < f[k]
    BY DEF Echo!Contains
  <1>5. ASSUME NEW j \in Old PROVE j \in 1..taken /\ f[j] \in 1..Len(s) /\ f[j] \in Nat
    <2>1. j \in 1..taken
      BY <1>5 DEF Echo!Counted
    <2>2. f[j] \in 1..Len(s)
      BY <1>4, <1>5
    <2> QED
      BY <1>2, <2>1, <2>2
  <1> HIDE DEF Old, New
  <1> DEFINE g == [j \in New |-> IF j \in Old THEN f[j] ELSE Len(s) + (j - taken)]
  <1>6. ASSUME NEW j \in New
        PROVE  \/ j \in Old /\ j <= taken /\ g[j] = f[j] /\ g[j] \in 1..Len(s)
               \/ j \notin Old /\ j > taken /\ j - taken \in 1..len /\ j - taken <= n /\ g[j] = Len(s) + (j - taken)
    BY <1>3, <1>5
  <1>7. \A j \in New : j \in Nat /\ g[j] \in 1..(Len(s) + len) /\ g[j] \in Nat
    BY <1>2, <1>3, <1>6
  <1>8. g \in [New -> 1..Len(s \o line)]
    BY <1>2, <1>7
  <1>9. ASSUME NEW j \in New PROVE (s \o line)[g[j]] = j
    <2> DEFINE k == g[j]
    <2>1. k \in 1..(Len(s) + len) /\ (s \o line)[k] = IF k <= Len(s) THEN s[k] ELSE line[k - Len(s)]
      BY <1>2, <1>7
    <2>2. CASE j \in Old
      <3>1. k = f[j] /\ k \in 1..Len(s)
        BY <1>5, <1>6, <2>2
      <3>2. (s \o line)[k] = s[k]
        BY <1>2, <2>1, <3>1
      <3> QED
        BY <1>4, <2>2, <3>1, <3>2
    <2>3. CASE j \notin Old
      <3>1. k = Len(s) + (j - taken) /\ j - taken \in 1..len /\ j - taken <= n /\ j \in Nat
        BY <1>3, <1>6, <2>3
      <3>2. ~(k <= Len(s)) /\ k - Len(s) = j - taken
        BY <1>2, <3>1
      <3>3. (s \o line)[k] = line[j - taken]
        BY <2>1, <3>2
      <3>4. line[j - taken] = taken + (j - taken)
        BY <1>1, <3>1
      <3> QED
        BY <3>1, <3>3, <3>4
    <2> QED
      BY <2>2, <2>3
  <1>10. ASSUME NEW j \in New, NEW k \in New, j < k PROVE g[j] < g[k]
    <2>1. j \in Nat /\ k \in Nat /\ g[j] \in Nat /\ g[k] \in Nat
      BY <1>7
    <2>2. CASE j \in Old /\ k \in Old
      <3>1. g[j] = f[j] /\ g[k] = f[k]
        BY <1>6, <2>2
      <3> QED
        BY <1>4, <1>10, <2>2, <3>1
    <2>3. CASE j \in Old /\ k \notin Old
      BY <1>2, <1>6, <2>1, <2>3
    <2>4. CASE j \notin Old /\ k \notin Old
      <3>1. g[j] = Len(s) + (j - taken) /\ g[k] = Len(s) + (k - taken)
        BY <1>6, <2>4
      <3> QED
        BY <1>2, <1>10, <2>1, <3>1
    <2>5. CASE j \notin Old /\ k \in Old
      <3>1. j > taken /\ k <= taken
        BY <1>6, <2>5
      <3> QED
        BY <1>10, <2>1, <3>1
    <2> QED
      BY <2>2, <2>3, <2>4, <2>5
  <1> HIDE DEF g
  <1>11. Echo!Contains(s \o line, New)
    BY <1>8, <1>9, <1>10 DEF Echo!Contains
  <1> QED
    BY <1>1, <1>11 DEF line, New, Row

-----------------------------------------------------------------------------

LEMMA EchoFacts == /\ MAXLINE \in Nat \ {0} /\ Cap \in Nat \ {0} /\ Inputs \subseteq Nat
                   /\ Reach \in Nat /\ Reach >= MAXLINE /\ Zeros \subseteq SUBSET Nat
  BY BatchAssumption DEF Echo!ClientAssumption

LEMMA EchoInit == Echo!Init => EchoInv
  <1> SUFFICES ASSUME Echo!Init PROVE EchoInv
    OBVIOUS
  <1> USE DEF Echo!Init
  <1>1. EchoTypeOK
    BY EchoFacts, EmptySeq DEF EchoTypeOK
  <1>2. FlowInv
    <2>1. <<>> = Row(<<>>, Row(<<>>, <<>>)) /\ <<>> \in Seq(Nat)
      BY RowEmpty, EmptySeq
    <2> QED
      BY <2>1 DEF FlowInv
  <1>3. EndsInv /\ Echo!FailsWithServer /\ Echo!ReadsReady
    BY DEF EndsInv, Echo!FailsWithServer, Echo!ReadsReady
  <1>4. InputInv
    <2> DEFINE f == [j \in {} |-> 1]
    <2>1. Echo!Counted(taken) = {}
      BY DEF Echo!Counted
    <2>2. f \in [{} -> 1..Len(sent)]
      OBVIOUS
    <2> QED
      BY <2>1, <2>2 DEF InputInv, Echo!Contains
  <1> QED
    BY <1>1, <1>2, <1>3, <1>4 DEF EchoInv

\* Steps of the client that move no byte and leave the connection as it is.
LEMMA QuietStep ==
  ASSUME EchoInv, \/ Echo!Select \/ Echo!SkipSocket \/ Echo!EndOfInput \/ Echo!SkipStdin
  PROVE  EchoInv'
  <1> USE DEF EchoInv
  <1>1. UNCHANGED <<size, zeros, taken, nul, todo, up, down, conn, server, buff, shown, sent>>
    BY DEF Echo!Select, Echo!SkipSocket, Echo!EndOfInput, Echo!SkipStdin, Echo!theServer
  <1>2. FlowInv' /\ InputInv'
    BY <1>1 DEF FlowInv, InputInv, Echo!Counted
  <1>3. CASE Echo!Select
    <2>1. /\ client = "select" /\ client' = "socket" /\ stdin_eof' = stdin_eof
          /\ rset' \subseteq {"stdin", "socket"}
          /\ "stdin" \in rset' => stdin_eof = 0
          /\ "socket" \in rset' => Echo!SocketReady
      BY <1>3 DEF Echo!Select
    <2>2. EchoTypeOK'
      BY <1>1, <2>1 DEF EchoTypeOK
    <2>3. EndsInv'
      BY <1>1, <2>1 DEF EndsInv
    <2>4. Echo!FailsWithServer' /\ Echo!ReadsReady'
      BY <1>1, <2>1 DEF Echo!FailsWithServer, Echo!ReadsReady, Echo!SocketReady
    <2> QED
      BY <1>2, <2>2, <2>3, <2>4
  <1>4. CASE Echo!SkipSocket
    <2>1. client = "socket" /\ client' = "stdin" /\ UNCHANGED <<stdin_eof, rset>>
      BY <1>4 DEF Echo!SkipSocket
    <2> QED
      BY <1>1, <1>2, <2>1 DEF EchoTypeOK, EndsInv, Echo!FailsWithServer, Echo!ReadsReady, Echo!SocketReady, Echo!Over
  <1>5. CASE Echo!EndOfInput
    <2>1. /\ client = "stdin" /\ taken = size /\ stdin_eof' = 1 /\ rset' = rset \ {"stdin"}
          /\ client' = "select"
      BY <1>5 DEF Echo!EndOfInput
    <2> QED
      BY <1>1, <1>2, <2>1 DEF EchoTypeOK, EndsInv, Echo!FailsWithServer, Echo!ReadsReady, Echo!SocketReady, Echo!Over
  <1>6. CASE Echo!SkipStdin
    <2>1. client = "stdin" /\ client' = "select" /\ UNCHANGED <<stdin_eof, rset>>
      BY <1>6 DEF Echo!SkipStdin
    <2> QED
      BY <1>1, <1>2, <2>1 DEF EchoTypeOK, EndsInv, Echo!FailsWithServer, Echo!ReadsReady, Echo!SocketReady, Echo!Over
  <1> QED
    BY <1>3, <1>4, <1>5, <1>6

\* What is read of the connection comes after what has been shown.
LEMMA ReadSocketStep == ASSUME EchoInv, Echo!ReadSocket PROVE EchoInv'
  <1> USE DEF EchoInv
  <1>1. /\ client = "socket"
        /\ UNCHANGED <<size, zeros, taken, stdin_eof, rset, nul, todo, up, server, buff, sent>>
        /\ \/ /\ client' = "stdin" /\ UNCHANGED conn
              /\ \E n \in 1..Len(down) : shown' = Row(shown, Echo!First(down, n)) /\ down' = Echo!Rest(down, n)
           \/ /\ down = <<>> /\ conn \in {"fin", "broken"} /\ UNCHANGED <<down, conn, shown>>
              /\ client' = IF stdin_eof = 1 THEN "done" ELSE "failed"
           \/ /\ conn = "reset" /\ conn' = "broken" /\ UNCHANGED <<down, shown>>
              /\ client' = "stdin"
    BY DEF Echo!ReadSocket, Echo!Some, Echo!theServer, Row
  <1>2. InputInv'
    BY <1>1 DEF InputInv, Echo!Counted
  <1>3. FlowInv' /\ shown' \in Seq(Nat) /\ down' \in Seq(Nat)
    <2>1. PICK rest \in Seq(Nat) : /\ sent = Row(shown, Row(down, rest))
                                   /\ server # "killed" => rest = Row(buff, Row(up, todo))
      BY DEF FlowInv
    <2>2. CASE UNCHANGED <<down, shown>>
      BY <1>1, <2>1, <2>2 DEF FlowInv, EchoTypeOK
    <2>3. CASE \E n \in 1..Len(down) : shown' = Row(shown, Echo!First(down, n)) /\ down' = Echo!Rest(down, n)
      <3>1. PICK n \in 1..Len(down) : shown' = Row(shown, Echo!First(down, n)) /\ down' = Echo!Rest(down, n)
        BY <2>3
      <3>2. shown \in Seq(Nat) /\ down \in Seq(Nat)
        BY DEF EchoTypeOK
      <3>3. /\ Row(shown', Row(down', rest)) = Row(shown, Row(down, rest))
            /\ shown' \in Seq(Nat) /\ down' \in Seq(Nat)
        BY <3>1, <3>2, Moved, Cut
      <3> QED
        BY <1>1, <2>1, <3>3 DEF FlowInv
    <2> QED
      BY <1>1, <2>2, <2>3
  <1>4. EchoTypeOK'
    BY <1>1, <1>3 DEF EchoTypeOK, Echo!Over
  <1>5. EndsInv' /\ Echo!FailsWithServer' /\ Echo!ReadsReady'
    BY <1>1 DEF EchoTypeOK, EndsInv, Echo!FailsWithServer, Echo!ReadsReady, Echo!Over
  <1> QED
    BY <1>2, <1>3, <1>4, <1>5

\* A line is put at the end.
LEMMA ReadStdinStep == ASSUME EchoInv, Echo!ReadStdin PROVE EchoInv'
  <1> USE DEF EchoInv
  <1>1. PICK n \in 1..MAXLINE : /\ n <= size - taken /\ taken' = taken + n
                                /\ nul' \in Echo!Strlen(n)
                                /\ todo' = Echo!Line(n, nul') /\ sent' = sent \o todo'
    BY DEF Echo!ReadStdin
  <1>2. /\ client = "stdin" /\ "stdin" \in rset /\ client' = (IF todo' = <<>> THEN "select" ELSE "send")
        /\ UNCHANGED <<size, zeros, stdin_eof, rset, up, down, conn, server, buff, shown>>
    BY DEF Echo!ReadStdin, Echo!theServer
  <1>3. stdin_eof = 0 /\ todo = <<>>
    BY <1>2 DEF EchoTypeOK, EndsInv
  <1>4. nul' \in 0..Reach
    <2>1. CASE \E j \in 1..n : taken + j \in zeros
      BY <1>1, <2>1, EchoFacts DEF Echo!Strlen
    <2>2. CASE ~ \E j \in 1..n : taken + j \in zeros
      BY <1>1, <2>2, EchoFacts DEF EchoTypeOK, Echo!Strlen
    <2> QED
      BY <2>1, <2>2
  <1>5. /\ todo' \in Seq(Nat) /\ Len(todo') = nul'
        /\ Echo!Contains(Row(sent, todo'), Echo!Counted(taken + n))
    <2>1. /\ sent \in Seq(Nat) /\ taken \in Nat /\ zeros \subseteq Nat /\ MAXLINE \in Nat /\ Reach \in Nat /\ nul \in Nat
          /\ n \in Nat /\ n <= MAXLINE /\ nul' \in Nat /\ Echo!Contains(sent, Echo!Counted(taken))
      BY <1>1, <1>4, EchoFacts DEF EchoTypeOK, InputInv
    <2> QED
      BY <1>1, <2>1, NextBytes
  <1>6. client' = "send" <=> todo' # <<>>
    BY <1>2
  <1>7. sent' \in Seq(Nat) /\ sent' = Row(sent, todo')
    BY <1>1, <1>5, RowType DEF EchoTypeOK, Row
  <1>8. EchoTypeOK'
    BY <1>1, <1>2, <1>4, <1>5, <1>7, EchoFacts DEF EchoTypeOK
  <1>9. FlowInv'
    <2>1. PICK rest \in Seq(Nat) : /\ sent = Row(shown, Row(down, rest))
                                   /\ server # "killed" => rest = Row(buff, Row(up, todo))
      BY DEF FlowInv
    <2>2. /\ shown \in Seq(Nat) /\ down \in Seq(Nat) /\ buff \in Seq(Nat) /\ up \in Seq(Nat)
      BY DEF EchoTypeOK
    <2>3. Row(down, rest) \in Seq(Nat) /\ Row(rest, todo') \in Seq(Nat)
      BY <1>5, <2>2, RowType
    <2>4. sent' = Row(shown, Row(down, Row(rest, todo')))
      BY <1>5, <1>7, <2>1, <2>2, <2>3, Regrouped
    <2>5. ASSUME server # "killed" PROVE Row(rest, todo') = Row(buff, Row(up, todo'))
      <3>1. rest = Row(buff, up)
        BY <1>3, <2>1, <2>2, <2>5, RowEmpty
      <3> QED
        BY <1>5, <2>2, <3>1, Regrouped
    <2> QED
      BY <1>2, <2>3, <2>4, <2>5 DEF FlowInv
  <1>10. EndsInv' /\ Echo!FailsWithServer' /\ Echo!ReadsReady'
    BY <1>2, <1>3, <1>6 DEF EndsInv, Echo!FailsWithServer, Echo!ReadsReady
  <1>11. InputInv'
    <2>1. Echo!Counted(taken)' = Echo!Counted(taken + n)
      BY <1>1, <1>2 DEF Echo!Counted
    <2>2. Echo!Contains(sent, Echo!Counted(taken))' = Echo!Contains(Row(sent, todo'), Echo!Counted(taken + n))
      BY <1>7, <2>1 DEF Echo!Contains
    <2> QED
      BY <1>5, <2>2 DEF InputInv
  <1> QED
    BY <1>8, <1>9, <1>10, <1>11

\* A write of the client moves bytes towards the server, or into nothing when it has gone.
LEMMA WriteStep == ASSUME EchoInv, Echo!Write \/ Echo!WriteToNobody \/ Echo!WriteFails PROVE EchoInv'
  <1> USE DEF EchoInv
  <1>1. /\ client = "send" /\ UNCHANGED <<size, zeros, taken, stdin_eof, rset, nul, server, buff, shown, sent>>
        /\ stdin_eof = 0
    BY DEF Echo!Write, Echo!WriteToNobody, Echo!WriteFails, Echo!theServer, EchoTypeOK, EndsInv
  <1>2. InputInv'
    BY <1>1 DEF InputInv, Echo!Counted
  <1>3. PICK rest \in Seq(Nat) : /\ sent = Row(shown, Row(down, rest))
                                 /\ server # "killed" => rest = Row(buff, Row(up, todo))
    BY DEF FlowInv
  <1>4. CASE Echo!Write
    <2>1. PICK n \in 1..Len(todo) : up' = Row(up, Echo!First(todo, n)) /\ todo' = Echo!Rest(todo, n)
      BY <1>4 DEF Echo!Write, Echo!Some, Row
    <2>2. /\ conn = "open" /\ UNCHANGED <<conn, down>>
          /\ client' = IF todo' = <<>> THEN "select" ELSE "send"
      BY <1>4 DEF Echo!Write
    <2>3. PICK none \in Seq(Nat) : \A s \in Seq(Nat) : Row(s, none) = s
      BY RowEmpty
    <2>4. /\ up' \in Seq(Nat) /\ todo' \in Seq(Nat)
          /\ Row(up', Row(todo', none)) = Row(up, Row(todo, none))
      BY <2>1, Moved, Cut DEF EchoTypeOK
    <2>5. Row(up', todo') = Row(up, todo)
      BY <2>3, <2>4 DEF EchoTypeOK
    <2>6. FlowInv'
      BY <1>1, <1>3, <2>2, <2>5 DEF FlowInv
    <2>7. EchoTypeOK'
      BY <1>1, <2>2, <2>4 DEF EchoTypeOK
    <2>8. EndsInv' /\ Echo!FailsWithServer' /\ Echo!ReadsReady'
      BY <1>1, <2>2 DEF EchoTypeOK, EndsInv, Echo!FailsWithServer, Echo!ReadsReady
    <2> QED
      BY <1>2, <2>6, <2>7, <2>8
  <1>5. CASE Echo!WriteToNobody
    <2>1. PICK n \in 1..Len(todo) : todo' = Echo!Rest(todo, n)
      BY <1>5 DEF Echo!WriteToNobody, Echo!Some
    <2>2. /\ conn = "fin" /\ conn' \in {"fin", "reset"} /\ up' = up
          /\ client' = IF todo' = <<>> THEN "select" ELSE "send"
          /\ down' \in {down, <<>>}
      BY <1>5 DEF Echo!WriteToNobody
    <2>3. server = "killed"
      BY <1>1, <2>2 DEF EchoTypeOK, EndsInv
    <2>4. todo' \in Seq(Nat) /\ down' \in Seq(Nat)
      BY <2>1, <2>2, Cut, EmptySeq DEF EchoTypeOK
    <2>5. FlowInv'
      <3>1. down \in Seq(Nat)
        BY DEF EchoTypeOK
      <3>2. Row(down, rest) \in Seq(Nat) /\ Row(<<>>, Row(down, rest)) = Row(down, rest)
        BY <3>1, RowType, RowEmpty
      <3>3. CASE down' = down
        BY <1>1, <1>3, <2>3, <3>3 DEF FlowInv
      <3>4. CASE down' = <<>>
        BY <1>1, <1>3, <2>3, <3>2, <3>4 DEF FlowInv
      <3> QED
        BY <2>2, <3>3, <3>4
    <2>6. EchoTypeOK'
      BY <1>1, <2>2, <2>4 DEF EchoTypeOK
    <2>7. EndsInv' /\ Echo!FailsWithServer' /\ Echo!ReadsReady'
      BY <1>1, <2>2, <2>3 DEF EchoTypeOK, EndsInv, Echo!FailsWithServer, Echo!ReadsReady
    <2> QED
      BY <1>2, <2>5, <2>6, <2>7
  <1>6. CASE Echo!WriteFails
    <2>1. /\ conn \in {"reset", "broken"} /\ conn' = "broken"
          /\ todo' = <<>> /\ client' \in {"select", "killed"} /\ UNCHANGED <<up, down>>
      BY <1>6 DEF Echo!WriteFails
    <2>2. server = "killed"
      BY <2>1 DEF EndsInv
    <2>3. FlowInv'
      BY <1>1, <1>3, <2>1, <2>2 DEF FlowInv
    <2>4. EchoTypeOK'
      BY <1>1, <2>1, EmptySeq DEF EchoTypeOK, Echo!Over
    <2>5. EndsInv' /\ Echo!FailsWithServer' /\ Echo!ReadsReady'
      BY <1>1, <2>1, <2>2 DEF EchoTypeOK, EndsInv, Echo!FailsWithServer, Echo!ReadsReady
    <2> QED
      BY <1>2, <2>3, <2>4, <2>5
  <1> QED
    BY <1>4, <1>5, <1>6

\* The server moves what it reads on, in its order, and ends when nothing is left.
LEMMA ServerStep == ASSUME EchoInv, Echo!str_echo PROVE EchoInv'
  <1> USE DEF EchoInv
  <1>1. /\ client \notin Echo!Over
        /\ UNCHANGED <<size, zeros, taken, client, stdin_eof, rset, nul, todo, shown, sent>>
    BY DEF Echo!str_echo, Echo!ServerReads, Echo!ServerWrites, Echo!ServerEnds, Echo!theClient
  <1>2. InputInv'
    BY <1>1 DEF InputInv, Echo!Counted
  <1>3. PICK rest \in Seq(Nat) : /\ sent = Row(shown, Row(down, rest))
                                 /\ server # "killed" => rest = Row(buff, Row(up, todo))
    BY DEF FlowInv
  <1>4. /\ shown \in Seq(Nat) /\ down \in Seq(Nat) /\ buff \in Seq(Nat) /\ up \in Seq(Nat) /\ todo \in Seq(Nat)
    BY DEF EchoTypeOK
  <1>5. CASE Echo!ServerReads
    <2>1. PICK n \in 1..Len(up) : buff' = Echo!First(up, n) /\ up' = Echo!Rest(up, n)
      BY <1>5 DEF Echo!ServerReads, Echo!Some
    <2>2. server = "read" /\ server' = "write" /\ UNCHANGED <<down, conn>>
      BY <1>5 DEF Echo!ServerReads
    <2>3. buff = <<>>
      BY <2>2 DEF EndsInv
    <2>4. /\ buff' \in Seq(Nat) /\ up' \in Seq(Nat) /\ buff' # <<>>
          /\ Row(buff', up') = up
      BY <1>4, <2>1, Cut
    <2>5. Row(buff', Row(up', todo)) = Row(buff, Row(up, todo))
      <3>1. Row(buff', Row(up', todo)) = Row(up, todo)
        BY <1>4, <2>4, Regrouped
      <3>2. Row(<<>>, Row(up, todo)) = Row(up, todo)
        BY <1>4, RowType, RowEmpty
      <3> QED
        BY <2>3, <3>1, <3>2
    <2>6. FlowInv'
      BY <1>1, <1>3, <2>2, <2>5 DEF FlowInv
    <2>7. EchoTypeOK'
      BY <1>1, <2>2, <2>4 DEF EchoTypeOK
    <2>8. EndsInv' /\ Echo!FailsWithServer' /\ Echo!ReadsReady'
      BY <1>1, <2>2, <2>4 DEF EndsInv, Echo!FailsWithServer, Echo!ReadsReady, Echo!SocketReady, Echo!Over
    <2> QED
      BY <1>2, <2>6, <2>7, <2>8
  <1>6. CASE Echo!ServerWrites
    <2>1. PICK n \in 1..Len(buff) : down' = Row(down, Echo!First(buff, n)) /\ buff' = Echo!Rest(buff, n)
      BY <1>6 DEF Echo!ServerWrites, Echo!Some, Row
    <2>2. /\ server = "write" /\ UNCHANGED <<up, conn>>
          /\ server' = IF buff' = <<>> THEN "read" ELSE "write"
      BY <1>6 DEF Echo!ServerWrites
    <2>3. Row(up, todo) \in Seq(Nat)
      BY <1>4, RowType
    <2>4. /\ down' \in Seq(Nat) /\ buff' \in Seq(Nat)
          /\ Row(down', Row(buff', Row(up, todo))) = Row(down, Row(buff, Row(up, todo)))
      BY <1>4, <2>1, <2>3, Moved, Cut
    <2>5. Row(buff', Row(up, todo)) \in Seq(Nat)
      BY <2>3, <2>4, RowType
    <2>6. FlowInv'
      BY <1>1, <1>3, <2>2, <2>4, <2>5 DEF FlowInv
    <2>7. EchoTypeOK'
      BY <1>1, <2>2, <2>4 DEF EchoTypeOK
    <2>8. down' # <<>>
      <3>1. Echo!First(buff, n) # <<>> /\ Echo!First(buff, n) \in Seq(Nat)
        BY <1>4, <2>1, Cut
      <3> QED
        BY <1>4, <2>1, <3>1, ConcatEqualIffEmpty DEF Row
    <2>9. EndsInv' /\ Echo!FailsWithServer' /\ Echo!ReadsReady'
      BY <1>1, <2>2, <2>8 DEF EndsInv, Echo!FailsWithServer, Echo!ReadsReady, Echo!SocketReady, Echo!Over
    <2> QED
      BY <1>2, <2>6, <2>7, <2>9
  <1>7. CASE Echo!ServerEnds
    <2>1. /\ server = "read" /\ up = <<>> /\ stdin_eof = 1 /\ server' = "exited" /\ conn' = "fin"
          /\ UNCHANGED <<up, down, buff>>
      BY <1>7 DEF Echo!ServerEnds
    <2>2. FlowInv'
      BY <1>1, <1>3, <2>1 DEF FlowInv
    <2>3. EchoTypeOK'
      BY <1>1, <2>1 DEF EchoTypeOK
    <2>4. EndsInv' /\ Echo!FailsWithServer' /\ Echo!ReadsReady'
      BY <1>1, <2>1 DEF EndsInv, Echo!FailsWithServer, Echo!ReadsReady, Echo!SocketReady, Echo!Over
    <2> QED
      BY <1>2, <2>2, <2>3, <2>4
  <1> QED
    BY <1>5, <1>6, <1>7 DEF Echo!str_echo

\* What a killed server has not written is lost, and maybe what it has.
LEMMA KillStep == ASSUME EchoInv, Echo!Kill PROVE EchoInv'
  <1> USE DEF EchoInv
  <1>1. /\ client \notin Echo!Over /\ server' = "killed"
        /\ UNCHANGED <<size, zeros, taken, client, stdin_eof, rset, nul, todo, shown, sent>>
        /\ conn' \in {"fin", "reset"} /\ down' \in {down, <<>>} /\ up' = <<>> /\ buff' = <<>>
    BY DEF Echo!Kill, Echo!theClient
  <1>2. InputInv'
    BY <1>1 DEF InputInv, Echo!Counted
  <1>3. FlowInv'
    <2>1. PICK rest \in Seq(Nat) : sent = Row(shown, Row(down, rest))
      BY DEF FlowInv
    <2>2. Row(down, rest) \in Seq(Nat) /\ Row(<<>>, Row(down, rest)) = Row(down, rest)
      BY RowType, RowEmpty DEF EchoTypeOK
    <2>3. CASE down' = down
      BY <1>1, <2>1, <2>3 DEF FlowInv
    <2>4. CASE down' = <<>>
      BY <1>1, <2>1, <2>2, <2>4 DEF FlowInv
    <2> QED
      BY <1>1, <2>3, <2>4
  <1>4. EchoTypeOK'
    BY <1>1, EmptySeq DEF EchoTypeOK
  <1>5. EndsInv' /\ Echo!FailsWithServer' /\ Echo!ReadsReady'
    BY <1>1 DEF EndsInv, Echo!FailsWithServer, Echo!ReadsReady, Echo!SocketReady, Echo!Over
  <1> QED
    BY <1>2, <1>3, <1>4, <1>5

LEMMA EchoInvariance == Echo!Spec => []EchoInv
  <1>1. EchoInv /\ UNCHANGED Echo!vars => EchoInv'
    BY DEF Echo!vars, EchoInv, EchoTypeOK, FlowInv, EndsInv, InputInv, Echo!Counted, Echo!FailsWithServer, Echo!ReadsReady,
           Echo!SocketReady
  <1>2. EchoInv /\ [Echo!Next]_(Echo!vars) => EchoInv'
    BY <1>1, QuietStep, ReadSocketStep, ReadStdinStep, WriteStep, ServerStep, KillStep
    DEF Echo!Next, Echo!str_cli_v4, Echo!Rests
  <1> QED
    BY <1>2, EchoInit, PTL DEF Echo!Spec

\* However many bytes the buffers and the connection take, whatever the calls move at
\* a time, and whenever the server is killed: str_cli_v4 (echo_tcp_client_v1.c) shows the
\* beginning of what it has sent, all of it and with it the input, but for what follows a
\* 0 in one Read, when it ends well with a server that lives, reports a failure only when the server has gone, and
\* never blocks in a read.
THEOREM EchoIsShown == BatchSpec => []ClientSound
  <1>1. EchoInv => ClientSound
    <2> SUFFICES ASSUME EchoInv PROVE ClientSound
      OBVIOUS
    <2> USE DEF EchoInv
    <2>1. PICK rest \in Seq(Nat) : /\ sent = Row(shown, Row(down, rest))
                                   /\ server # "killed" => rest = Row(buff, Row(up, todo))
      BY DEF FlowInv
    <2>2. shown \in Seq(Nat) /\ down \in Seq(Nat) /\ Row(down, rest) \in Seq(Nat)
      BY RowType DEF EchoTypeOK
    <2>3. Echo!ShownInOrder
      BY <2>1, <2>2, Beginning DEF Echo!ShownInOrder
    <2>4. Echo!AllShown
      <3> SUFFICES ASSUME client = "done", server # "killed" PROVE shown = sent /\ Echo!Contains(shown, Echo!Counted(size))
        BY DEF Echo!AllShown
      <3>1. server = "exited"
        BY DEF EndsInv, EchoTypeOK
      <3>2. down = <<>> /\ up = <<>> /\ buff = <<>> /\ todo = <<>> /\ taken = size
        BY <3>1 DEF EndsInv
      <3>3. <<>> \in Seq(Nat) /\ Row(<<>>, <<>>) = <<>> /\ Row(shown, <<>>) = shown
        BY <2>2, RowEmpty, EmptySeq
      <3>4. sent = shown
        BY <2>1, <3>2, <3>3
      <3> QED
        BY <3>2, <3>4 DEF InputInv
    <2> QED
      BY <2>3, <2>4 DEF ClientSound
  <1> QED
    BY <1>1, BatchRefines, EchoInvariance, PTL

=============================================================================
