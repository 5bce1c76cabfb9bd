------------------------- MODULE SerialLinkMcuProofs ------------------------
(***************************************************************************)
(* The steps of the micro-controller and of the line preserve the          *)
(* invariant LinkInv of SerialLink.                                        *)
(***************************************************************************)
EXTENDS SerialLinkInv, ModularLemmas, SequenceTheorems

Response == [seq : Nat, data : BOOLEAN]

\* What the proofs use of the sequence space and of the send window.
LEMMA Constants ==
  /\ SeqMod \in Nat \ {0} /\ SeqMod >= 2 /\ MaxPending \in Nat
  /\ MaxPending < SeqMod
  BY SeqAssumption

\* What the proofs use of the block size and of the receive window.
LEMMA BufferConstants ==
  /\ BlockMax \in Nat /\ BlockMax >= 1 /\ ReceiveWindow \in Nat
  /\ (ReceiveWindow # 0 => ReceiveWindow >= BlockMax + BlockMax)
  BY BlockAssumption, WindowAssumption

(***************************************************************************)
(* Sequences of blocks and responses.                                      *)
(***************************************************************************)
LEMMA PopProperties ==
  ASSUME NEW S, NEW s \in Seq(S), s # <<>>
  PROVE  /\ Tail(s) \in Seq(S) /\ Len(Tail(s)) = Len(s) - 1
         /\ Len(s) \in Nat \ {0} /\ Head(s) = s[1] /\ s[1] \in S
         /\ \A i \in 1..Len(Tail(s)) : Tail(s)[i] = s[i + 1]
<1>1. Len(s) \in Nat \ {0} BY EmptySeq
<1>2. s[1] \in S BY <1>1, ElementOfSeq
<1> QED BY <1>1, <1>2, HeadTailProperties

\* The elements of a concatenation.
LEMMA ConcatIndex ==
  ASSUME NEW S, NEW s \in Seq(S), NEW t \in Seq(S)
  PROVE  /\ s \o t \in Seq(S) /\ Len(s \o t) = Len(s) + Len(t)
         /\ Len(s) \in Nat /\ Len(t) \in Nat
         /\ \A i \in 1..Len(s) : (s \o t)[i] = s[i]
         /\ \A k \in 1..Len(t) : (s \o t)[Len(s) + k] = t[k]
<1>1. Len(s) \in Nat /\ Len(t) \in Nat BY LenProperties
<1>2. /\ s \o t \in Seq(S) /\ Len(s \o t) = Len(s) + Len(t)
      /\ \A i \in 1..(Len(s) + Len(t)) :
           (s \o t)[i] = IF i <= Len(s) THEN s[i] ELSE t[i - Len(s)]
  BY ConcatProperties
<1>3. ASSUME NEW k \in 1..Len(t) PROVE (s \o t)[Len(s) + k] = t[k]
  <2> DEFINE i == Len(s) + k
  <2>1. i \in 1..(Len(s) + Len(t)) /\ ~(i <= Len(s)) /\ i - Len(s) = k BY <1>1
  <2> HIDE DEF i
  <2>2. (s \o t)[i] = t[k] BY <1>2, <2>1
  <2> QED BY <2>2 DEF i
<1> QED BY <1>1, <1>2, <1>3

\* Two numbers of a window differ by less than the sequence space.
LEMMA SeqGap ==
  ASSUME NEW x \in Nat, NEW y \in Nat, NEW lo \in Nat, lo <= y,
         x < lo + MaxPending
  PROVE  x + 1 < y + SeqMod
  BY Constants

\* Consecutive blocks have consecutive numbers.
LEMMA SeqStep ==
  ASSUME NEW x \in Nat, NEW y \in Nat, x < y
  PROVE  x + 1 < y + SeqMod
  BY Constants

\* Noise has the form of a block whose number no block carries.
LEMMA GarbageType == Garbage \in Block /\ Garbage.seq = 0
  BY DEF Garbage, Block

\* The first block leaves the line.
LEMMA LinePop ==
  ASSUME TypeOK, LineInv, h2m # <<>>, h2m' = Tail(h2m), rx_head' = "wire",
         UNCHANGED <<send_seq, receive_seq, next_sequence, sent_queue,
                     last_ack_bytes>>
  PROVE  h2m' \in Seq(Block) /\ LineInv'
<1>1. h2m \in Seq(Block) BY DEF TypeOK
<1>2. /\ h2m' \in Seq(Block) /\ Len(h2m') = Len(h2m) - 1
      /\ Len(h2m) \in Nat \ {0}
      /\ \A i \in 1..Len(h2m') : h2m'[i] = h2m[i + 1]
  BY <1>1, PopProperties
<1>3. ASSUME NEW i \in 1..Len(h2m'), h2m'[i] # Garbage
      PROVE  LineBlock(i)'
  <2>1. i + 1 \in 1..Len(h2m) /\ h2m'[i] = h2m[i + 1] BY <1>2
  <2>2. LineBlock(i + 1) BY <1>3, <2>1 DEF LineInv
  <2>3. ASSUME NEW j \in 1..(i - 1)
        PROVE  h2m'[j].seq + 1 < h2m'[i].seq + SeqMod
    <3>1. j + 1 \in 1..((i + 1) - 1) /\ h2m'[j] = h2m[j + 1] BY <1>2
    <3> QED BY <2>1, <2>2, <3>1 DEF LineBlock
  <2> QED BY <2>1, <2>2, <2>3 DEF LineBlock, Slot
<1> QED BY <1>2, <1>3 DEF LineInv, Garbage

\* The first response leaves the line.
LEMMA ResponsePop ==
  ASSUME TypeOK, ExpectInv, ResponseInv, m2h # <<>>, m2h' = Tail(m2h),
         UNCHANGED <<send_seq, receive_seq, next_sequence, last_ack_seq,
                     rx_head, executed>>
  PROVE  m2h' \in Seq(Response) /\ ExpectInv' /\ ResponseInv'
<1>1. m2h \in Seq(Response) BY DEF TypeOK, Response
<1>2. /\ m2h' \in Seq(Response) /\ Len(m2h') = Len(m2h) - 1
      /\ Len(m2h) \in Nat \ {0}
      /\ \A i \in 1..Len(m2h') : m2h'[i] = m2h[i + 1]
  BY <1>1, PopProperties
<1>3. \A i \in 1..Len(m2h') : i + 1 \in 1..Len(m2h) BY <1>2
<1>4. ExpectInv' BY <1>2, <1>3 DEF ExpectInv
<1>5. ResponseInv'
  <2>1. \A i, j \in 1..Len(m2h') : i < j => m2h'[i].seq <= m2h'[j].seq
    BY <1>2, <1>3 DEF ResponseInv
  <2> QED BY <1>2, <1>3, <2>1 DEF ResponseInv
<1> QED BY <1>2, <1>4, <1>5

\* The mcu sends a response, or drops it for want of buffer space.
LEMMA ResponsePush ==
  ASSUME TypeOK, ExpectInv, ResponseInv, NEW d \in BOOLEAN, Respond(d),
         d \/ rx_head' = "wire", rx_head' = "wire" \/ rx_head' = rx_head,
         UNCHANGED <<send_seq, receive_seq, next_sequence, last_ack_seq, executed>>
  PROVE  m2h' \in Seq(Response) /\ ExpectInv' /\ ResponseInv'
<1> DEFINE e == [seq |-> next_sequence, data |-> d]
<1>1. m2h \in Seq(Response) /\ e \in Response BY DEF TypeOK, Response
<1>2. CASE m2h' = m2h
  BY <1>1, <1>2 DEF ExpectInv, ResponseInv
<1>3. CASE m2h' = Append(m2h, e)
  <2>1. /\ m2h' \in Seq(Response) /\ Len(m2h') = Len(m2h) + 1 /\ Len(m2h) \in Nat
        /\ \A i \in 1..Len(m2h) : m2h'[i] = m2h[i]
        /\ m2h'[Len(m2h) + 1] = e
    BY <1>1, <1>3, AppendProperties, LenProperties
  <2>2. \A i \in 1..Len(m2h') : i \in 1..Len(m2h) \/ i = Len(m2h) + 1 BY <2>1
  <2> DEFINE n == Len(m2h)
  <2>3. e.seq = next_sequence /\ e.data = d /\ next_sequence \in Nat BY DEF TypeOK
  <2>4. ExpectInv' BY <2>1, <2>2, <2>3 DEF ExpectInv
  <2>5. \A i \in 1..Len(m2h') :
          /\ receive_seq' <= m2h'[i].seq /\ m2h'[i].seq <= next_sequence'
          /\ rx_head' # "wire" /\ ~m2h'[i].data => m2h'[i].seq < next_sequence'
    BY <2>1, <2>2, <2>3 DEF ResponseInv, ExpectInv
  <2>6. \A i, j \in 1..Len(m2h') : i < j => m2h'[i].seq <= m2h'[j].seq
    BY <2>1, <2>2, <2>3 DEF ResponseInv
  <2> QED BY <2>1, <2>4, <2>5, <2>6 DEF ResponseInv
<1> QED BY <1>2, <1>3 DEF Respond

(***************************************************************************)
(* What a step that leaves the host alone preserves.                       *)
(***************************************************************************)
LEMMA HostFrame ==
  ASSUME ContentInv, BufferInv, NakInv, UNCHANGED hostVars
  PROVE  ContentInv' /\ BufferInv' /\ NakInv'
<1>1. ContentInv'
  BY DEF ContentInv, SentQueueIsWindow, FirstUnacked, Size, hostVars, queueVars,
         seqVars
<1>2. BufferInv' BY DEF BufferInv, hostVars, seqVars
<1>3. NakInv'
  BY DEF NakInv, RetransmitTimerArmed, NakResendsBounded, hostVars, seqVars,
         resendVars
<1> QED BY <1>1, <1>2, <1>3

\* LogInv reads only the log, the flag of shutdown and the window.
LEMMA LogFrame ==
  ASSUME LogInv, UNCHANGED hostVars, UNCHANGED <<executed, next_sequence>>,
         is_shutdown' = FALSE => is_shutdown = FALSE, is_shutdown \in BOOLEAN,
         is_shutdown' \in BOOLEAN
  PROVE  LogInv'
  BY DEF LogInv, ExecutedOnceInOrder, NextFirst, Slot, hostVars, seqVars, queueVars

\* LineInv reads only the line and the window.
LEMMA LineFrame ==
  ASSUME LineInv,
         UNCHANGED <<h2m, send_seq, receive_seq, next_sequence, sent_queue,
                     last_ack_bytes>>,
         rx_head' = "wire" \/ rx_head # "wire"
  PROVE  LineInv'
<1>1. \A i \in 1..Len(h2m) : LineBlock(i) => LineBlock(i)' BY DEF LineBlock, Slot
<1> QED BY <1>1 DEF LineInv, Garbage

\* ResponseInv reads only the responses and the numbers they are decoded from.
LEMMA ResponseFrame ==
  ASSUME ResponseInv, ExpectInv,
         UNCHANGED <<m2h, send_seq, receive_seq, next_sequence, last_ack_seq,
                     executed>>,
         rx_head' = "wire" \/ rx_head # "wire"
  PROVE  ResponseInv' /\ ExpectInv'
  BY DEF ResponseInv, ExpectInv

(***************************************************************************)
(* The actions of the mcu and of the line.                                 *)
(***************************************************************************)
LEMMA McuShutdownInv == LinkInv /\ McuShutdown => LinkInv'
<1> SUFFICES ASSUME LinkInv, McuShutdown PROVE LinkInv'
  OBVIOUS
<1> USE DEF LinkInv, McuShutdown
<1>1. TypeOK'
  BY DEF TypeOK, hostVars, queueVars, seqVars, resendVars, notifyVars
<1>2. ContentInv' /\ BufferInv' /\ NakInv' BY HostFrame
<1>3. LogInv' BY LogFrame DEF TypeOK
<1>4. LineInv' BY LineFrame DEF hostVars, seqVars
<1>5. ResponseInv' /\ ExpectInv' BY ResponseFrame DEF hostVars, seqVars
<1> QED BY <1>1, <1>2, <1>3, <1>4, <1>5

\* command_send_ack of an empty block only reports the expected number.
LEMMA McuAckInv == LinkInv /\ McuAck => LinkInv'
<1> SUFFICES ASSUME LinkInv, McuAck PROVE LinkInv'
  OBVIOUS
<1> USE DEF LinkInv, McuAck
<1>1. h2m' \in Seq(Block) /\ LineInv' BY LinePop DEF LineInv, hostVars, seqVars
<1>2. m2h' \in Seq(Response) /\ ExpectInv' /\ ResponseInv'
  BY ResponsePush, Zenon DEF hostVars, seqVars
<1>3. TypeOK'
  BY <1>1, <1>2 DEF TypeOK, Response, hostVars, queueVars, seqVars, resendVars,
                    notifyVars
<1>4. ContentInv' /\ BufferInv' /\ NakInv' BY HostFrame
<1>5. LogInv' BY LogFrame, Zenon DEF TypeOK
<1> QED BY <1>1, <1>2, <1>3, <1>4, <1>5

\* command_find_block: a block that is not expected is answered by a nak.
LEMMA McuNakInv == LinkInv /\ McuNak => LinkInv'
<1> SUFFICES ASSUME LinkInv, McuNak PROVE LinkInv'
  OBVIOUS
<1> USE DEF LinkInv, McuNak
<1>1. h2m' \in Seq(Block) /\ LineInv' BY LinePop DEF LineInv, hostVars, seqVars
<1>2. m2h' \in Seq(Response) /\ ExpectInv' /\ ResponseInv'
  BY ResponsePush, Zenon DEF hostVars, seqVars
<1>3. TypeOK'
  BY <1>1, <1>2, Zenon DEF TypeOK, Response, hostVars, queueVars, seqVars, resendVars,
                    notifyVars
<1>4. ContentInv' /\ BufferInv' /\ NakInv' BY HostFrame
<1>5. LogInv' BY LogFrame, Zenon DEF TypeOK
<1> QED BY <1>1, <1>2, <1>3, <1>4, <1>5

\* command_find_block: noise starts the resynchronisation.
LEMMA McuBadBlockInv == LinkInv /\ McuBadBlock => LinkInv'
<1> SUFFICES ASSUME LinkInv, McuBadBlock PROVE LinkInv'
  OBVIOUS
<1> USE DEF LinkInv, McuBadBlock
<1>1. h2m' \in Seq(Block) /\ LineInv' BY LinePop DEF LineInv, hostVars, seqVars
<1>2. m2h' \in Seq(Response) /\ ExpectInv' /\ ResponseInv'
  <2>1. CASE need_valid
    BY <2>1, ResponseFrame DEF hostVars, seqVars, TypeOK, Response
  <2>2. CASE ~need_valid
    BY <2>2, ResponsePush, Zenon DEF hostVars, seqVars
  <2> QED BY <2>1, <2>2
<1>3. TypeOK'
  BY <1>1, <1>2 DEF TypeOK, Response, hostVars, queueVars, seqVars, resendVars,
                    notifyVars
<1>4. ContentInv' /\ BufferInv' /\ NakInv' BY HostFrame
<1>5. LogInv' BY LogFrame, Zenon DEF TypeOK
<1> QED BY <1>1, <1>2, <1>3, <1>4, <1>5

\* A response message carries the expected number of the mcu.
LEMMA McuResponseInv == LinkInv /\ McuResponse => LinkInv'
<1> SUFFICES ASSUME LinkInv, McuResponse PROVE LinkInv'
  OBVIOUS
<1> USE DEF LinkInv, McuResponse, mcuVars
<1>1. LineInv' BY LineFrame DEF hostVars, seqVars
<1>2. m2h' \in Seq(Response) /\ ExpectInv' /\ ResponseInv'
  BY ResponsePush, Zenon DEF hostVars, seqVars
<1>3. TypeOK'
  BY <1>2 DEF TypeOK, Response, hostVars, queueVars, seqVars, resendVars, notifyVars
<1>4. ContentInv' /\ BufferInv' /\ NakInv' BY HostFrame
<1>5. LogInv' BY LogFrame, Zenon DEF TypeOK
<1> QED BY <1>1, <1>2, <1>3, <1>4, <1>5

\* A block that is lost on the line.
LEMMA LoseBlockInv == LinkInv /\ LoseBlock => LinkInv'
<1> SUFFICES ASSUME LinkInv, LoseBlock PROVE LinkInv'
  OBVIOUS
<1> USE DEF LinkInv, LoseBlock, mcuVars
<1>1. h2m' \in Seq(Block) /\ LineInv' BY LinePop DEF hostVars, seqVars
<1>2. ResponseInv' /\ ExpectInv' BY ResponseFrame DEF hostVars, seqVars
<1>3. TypeOK'
  BY <1>1 DEF TypeOK, hostVars, queueVars, seqVars, resendVars, notifyVars
<1>4. ContentInv' /\ BufferInv' /\ NakInv' BY HostFrame
<1>5. LogInv' BY LogFrame, Zenon DEF TypeOK
<1> QED BY <1>1, <1>2, <1>3, <1>4, <1>5

\* A response that is lost on the line.
LEMMA LoseResponseInv == LinkInv /\ LoseResponse => LinkInv'
<1> SUFFICES ASSUME LinkInv, LoseResponse PROVE LinkInv'
  OBVIOUS
<1> USE DEF LinkInv, LoseResponse, mcuVars
<1>1. LineInv' BY LineFrame DEF hostVars, seqVars
<1>2. m2h' \in Seq(Response) /\ ExpectInv' /\ ResponseInv'
  BY ResponsePop DEF hostVars, seqVars
<1>3. TypeOK'
  BY <1>2 DEF TypeOK, Response, hostVars, queueVars, seqVars, resendVars, notifyVars
<1>4. ContentInv' /\ BufferInv' /\ NakInv' BY HostFrame
<1>5. LogInv' BY LogFrame, Zenon DEF TypeOK
<1> QED BY <1>1, <1>2, <1>3, <1>4, <1>5

\* A block that arrives as noise.
LEMMA GarbleBlockInv == LinkInv /\ GarbleBlock => LinkInv'
<1> SUFFICES ASSUME LinkInv, GarbleBlock PROVE LinkInv'
  OBVIOUS
<1> USE DEF LinkInv, GarbleBlock, mcuVars
<1>1. h2m \in Seq(Block) /\ <<Garbage>> \in Seq(Block) /\ Len(<<Garbage>>) = 1
  BY GarbageType DEF TypeOK
<1>2. /\ Tail(h2m) \in Seq(Block) /\ Len(Tail(h2m)) = Len(h2m) - 1
      /\ Len(h2m) \in Nat \ {0}
      /\ \A i \in 1..Len(Tail(h2m)) : Tail(h2m)[i] = h2m[i + 1]
  BY <1>1, PopProperties
<1>3. /\ h2m' \in Seq(Block) /\ Len(h2m') = Len(h2m) /\ h2m'[1] = Garbage
      /\ \A i \in 2..Len(h2m) : h2m'[i] = h2m[i]
  <2>1. /\ h2m' \in Seq(Block) /\ Len(h2m') = 1 + (Len(h2m) - 1)
        /\ \A i \in 1..(1 + (Len(h2m) - 1)) :
             h2m'[i] = IF i <= 1 THEN <<Garbage>>[i] ELSE Tail(h2m)[i - 1]
    BY <1>1, <1>2, ConcatProperties
  <2> QED BY <1>2, <2>1
<1>4. LineInv'
  <2>1. ASSUME NEW i \in 1..Len(h2m'), h2m'[i] # Garbage PROVE LineBlock(i)'
    <3>1. i \in 2..Len(h2m) /\ h2m'[i] = h2m[i] BY <1>2, <1>3, <2>1
    <3>2. LineBlock(i) BY <2>1, <3>1 DEF LineInv
    <3>3. h2m[i] \in Block /\ Garbage.seq = 0 BY <1>1, <3>1, ElementOfSeq, GarbageType
    <3>4. ASSUME NEW j \in 1..(i - 1)
          PROVE  h2m'[j].seq + 1 < h2m'[i].seq + SeqMod
      <4>1. CASE j = 1
        <5>1. h2m'[j].seq = 0 BY <1>3, <3>3, <4>1
        <5>2. 1 <= h2m[i].seq /\ h2m[i].seq \in Nat BY <3>2, <3>3 DEF LineBlock, Block
        <5> QED BY <3>1, <5>1, <5>2, Constants
      <4>2. CASE j # 1
        <5>1. h2m'[j] = h2m[j] BY <1>2, <1>3, <3>1, <4>2
        <5> QED BY <3>1, <3>2, <5>1 DEF LineBlock
      <4> QED BY <4>1, <4>2
    <3> QED BY <3>1, <3>2, <3>4 DEF LineBlock, Slot, hostVars, seqVars
  <2> QED BY <2>1 DEF LineInv, Garbage
<1>5. ResponseInv' /\ ExpectInv' BY ResponseFrame DEF hostVars, seqVars
<1>6. TypeOK'
  BY <1>3 DEF TypeOK, hostVars, queueVars, seqVars, resendVars, notifyVars
<1>7. ContentInv' /\ BufferInv' /\ NakInv' BY HostFrame
<1>8. LogInv' BY LogFrame, Zenon DEF TypeOK
<1> QED BY <1>4, <1>5, <1>6, <1>7, <1>8

\* Low bits are enough: the block the mcu accepts is the one it waits for, and
\* it holds what the host's sent queue holds under that number.
LEMMA AcceptedBlock ==
  ASSUME LinkInv, h2m # <<>>, Expected(Head(h2m))
  PROVE  LET b == Head(h2m)
             k == Slot(next_sequence)
         IN  /\ b = h2m[1] /\ b \in Block /\ b # Garbage /\ Len(h2m) \in Nat \ {0}
             /\ b.seq = next_sequence /\ next_sequence < send_seq
             /\ k \in 1..Len(sent_queue)
             /\ b.first = sent_queue[k].first /\ b.last = sent_queue[k].last
             /\ 1 <= b.first /\ b.first <= b.last /\ b.last <= taken
<1> DEFINE b == Head(h2m)
<1>1. b = h2m[1] /\ b \in Block /\ Len(h2m) \in Nat \ {0}
  BY PopProperties DEF LinkInv, TypeOK
<1>2. b # Garbage /\ b.seq % SeqMod = next_sequence % SeqMod
  BY DEF Expected, Wire
<1>3. LineBlock(1) BY <1>1, <1>2 DEF LinkInv, LineInv
<1>4. b.seq \in Nat /\ next_sequence \in Nat /\ send_seq \in Nat /\ receive_seq \in Nat
  BY <1>1 DEF Block, LinkInv, TypeOK
<1>5. send_seq - receive_seq <= MaxPending /\ receive_seq <= next_sequence
  BY DEF LinkInv, ContentInv, SentQueueIsWindow, ExpectInv
<1>6. b.seq < send_seq /\ next_sequence < b.seq + SeqMod
  BY <1>1, <1>3 DEF LineBlock
<1>7. b.seq = next_sequence
  <2>1. b.seq - next_sequence < SeqMod /\ next_sequence - b.seq < SeqMod
    BY <1>4, <1>5, <1>6, Constants
  <2> QED BY <1>2, <1>4, <2>1, ModUnique, Constants, Zenon
<1>8. Slot(next_sequence) \in 1..Len(sent_queue)
  BY <1>4, <1>5, <1>6, <1>7 DEF Slot, LinkInv, ContentInv, SentQueueIsWindow
<1>9. /\ b.first = sent_queue[Slot(next_sequence)].first
      /\ b.last = sent_queue[Slot(next_sequence)].last
  BY <1>1, <1>3, <1>5, <1>7 DEF LineBlock
<1> QED BY <1>1, <1>2, <1>6, <1>7, <1>8, <1>9 DEF LinkInv, ContentInv

\* The commands of a block as a sequence.
LEMMA CommandsType ==
  ASSUME NEW f \in Nat, NEW l \in Nat \cup {-1}, f - 1 <= l
  PROVE  /\ Commands(f, l) \in Seq(Nat) /\ Len(Commands(f, l)) = l - f + 1
         /\ \A i \in 1..(l - f + 1) : Commands(f, l)[i] = f + i - 1
<1> DEFINE n == l - f + 1
<1>1. n \in Nat OBVIOUS
<1>2. \A i \in 1..n : f + i - 1 \in Nat OBVIOUS
<1>3. Commands(f, l) \in [1..n -> Nat] BY <1>2 DEF Commands
<1>4. Commands(f, l) \in Seq(Nat) BY <1>1, <1>3, SeqDef
<1> QED BY <1>1, <1>3, <1>4 DEF Commands

\* Running commands f..l after a log that ends with f - 1.
LEMMA LogGrows ==
  ASSUME TypeOK, ExecutedOnceInOrder, NEW f \in Nat, NEW l \in Nat,
         f - 1 <= l, 1 <= f, executed # <<>> => executed[Len(executed)] = f - 1,
         executed' = executed \o Commands(f, l)
  PROVE  /\ executed' \in Seq(Nat) /\ ExecutedOnceInOrder'
         /\ f <= l => executed' # <<>> /\ executed'[Len(executed')] = l
<1> DEFINE c == Commands(f, l)
           n == Len(executed)
           m == l - f + 1
<1>1. executed \in Seq(Nat) /\ n \in Nat /\ m \in Nat BY LenProperties DEF TypeOK
<1>2. /\ c \in Seq(Nat) /\ Len(c) = m
      /\ \A i \in 1..m : c[i] = f + i - 1
  BY CommandsType
<1>a. executed' = executed \o c OBVIOUS
<1> HIDE DEF c
<1>b. /\ executed' \in Seq(Nat) /\ Len(executed') = n + Len(c)
      /\ \A i \in 1..n : executed'[i] = executed[i]
      /\ \A k \in 1..Len(c) : executed'[n + k] = c[k]
  <2>1. executed \in Seq(Nat) /\ c \in Seq(Nat) BY ONLY <1>1, <1>2
  <2>2. /\ executed \o c \in Seq(Nat) /\ Len(executed \o c) = Len(executed) + Len(c)
        /\ \A i \in 1..Len(executed) : (executed \o c)[i] = executed[i]
    BY ONLY <2>1, ConcatIndex
  <2>3. \A k \in 1..Len(c) : (executed \o c)[Len(executed) + k] = c[k]
    BY ONLY <2>1, ConcatIndex
  <2> QED BY ONLY <1>a, <2>2, <2>3
<1>d. l = f + m - 1 /\ (f <= l => 1 <= m) BY <1>1
<1>e. n # 0 => executed[n] = f - 1 BY <1>1, EmptySeq
<1>f. \A i \in 1..(n - 1) : executed[i + 1] = executed[i] + 1
  BY DEF ExecutedOnceInOrder
<1> HIDE DEF n, m
<1>3. Len(executed') = n + m BY ONLY <1>2, <1>b
<1>4. \A i \in 1..n : executed'[i] = executed[i] BY ONLY <1>b
<1>5. \A k \in 1..m : executed'[n + k] = f + k - 1 BY ONLY <1>2, <1>b
<1>6. ASSUME NEW i \in 1..(Len(executed') - 1)
      PROVE  executed'[i + 1] = executed'[i] + 1
  <2>1. i \in Nat /\ 1 <= i /\ i + 1 <= n + m BY ONLY <1>1, <1>3, i \in 1..(Len(executed') - 1)
  <2>2. CASE i < n
    <3>1. i \in 1..n /\ i + 1 \in 1..n /\ i \in 1..(n - 1) BY ONLY <1>1, <2>1, <2>2
    <3> QED BY ONLY <1>4, <1>f, <3>1
  <2>3. CASE i = n
    <3>1. n # 0 /\ n \in 1..n /\ 1 \in 1..m BY ONLY <1>1, <2>1, <2>3
    <3>2. executed'[i] = f - 1 BY ONLY <1>4, <1>e, <2>3, <3>1
    <3>3. executed'[n + 1] = f + 1 - 1 BY ONLY <1>5, <3>1
    <3> QED BY ONLY f \in Nat, <2>3, <3>2, <3>3
  <2>4. CASE i > n
    <3> DEFINE k == i - n
    <3>1. k \in 1..m /\ k + 1 \in 1..m /\ i = n + k /\ i + 1 = n + (k + 1) /\ k \in Nat
      BY ONLY <1>1, <2>1, <2>4
    <3> HIDE DEF k
    <3>2. executed'[i] = f + k - 1 /\ executed'[i + 1] = f + (k + 1) - 1
      BY ONLY <1>5, <3>1
    <3> QED BY ONLY f \in Nat, <3>1, <3>2
  <2> QED BY ONLY <1>1, <2>1, <2>2, <2>3, <2>4
<1>7. ASSUME f <= l PROVE executed' # <<>> /\ executed'[Len(executed')] = l
  <2>1. m \in 1..m /\ n + m # 0 BY ONLY <1>1, <1>d, <1>7
  <2>2. executed'[n + m] = f + m - 1 BY ONLY <1>5, <2>1
  <2> QED BY ONLY <1>3, <1>b, <1>d, <2>1, <2>2, EmptySeq
<1> QED BY ONLY <1>b, <1>6, <1>7 DEF ExecutedOnceInOrder

\* What accepting a block does to the blocks behind it.
LEMMA LineAccept ==
  ASSUME LinkInv, h2m # <<>>, Expected(Head(h2m)), rx_head = "wire",
         next_sequence' = next_sequence + 1,
         UNCHANGED <<hostVars, h2m, m2h>>
  PROVE  LineInv'
<1> USE DEF LinkInv
<1>1. /\ h2m[1] \in Block /\ h2m[1].seq = next_sequence /\ h2m[1] # Garbage
      /\ Len(h2m) \in Nat \ {0}
  BY AcceptedBlock
<1>2. next_sequence \in Nat BY DEF TypeOK
<1>3. ASSUME NEW i \in 1..Len(h2m'), h2m'[i] # Garbage PROVE LineBlock(i)'
  <2>1. LineBlock(i) /\ h2m[i] \in Block
    BY <1>3, ElementOfSeq DEF LineInv, TypeOK
  <2>2. next_sequence + 1 < h2m[i].seq + SeqMod
    <3>1. CASE i = 1 BY <1>1, <1>2, <3>1, Constants
    <3>2. CASE i # 1 BY <1>1, <1>2, <2>1, <3>2 DEF LineBlock
    <3> QED BY <3>1, <3>2
  <2> QED BY <2>1, <2>2 DEF LineBlock, Slot, hostVars, seqVars
<1>4. h2m'[1] # Garbage /\ h2m'[1].seq = next_sequence' - 1 BY <1>1, <1>2
<1> QED BY <1>3, <1>4 DEF LineInv, Garbage

\* The response to an accepted block decodes to the number after it.
LEMMA ResponseAccept ==
  ASSUME LinkInv, h2m # <<>>, Expected(Head(h2m)),
         next_sequence' = next_sequence + 1, UNCHANGED <<hostVars, h2m, m2h>>
  PROVE  ExpectInv' /\ ResponseInv'
<1> USE DEF LinkInv
<1>1. next_sequence < send_seq BY AcceptedBlock
<1>2. /\ next_sequence \in Nat /\ send_seq \in Nat /\ last_ack_seq \in Nat
      /\ receive_seq \in Nat
      /\ \A i \in 1..Len(m2h) : m2h[i] \in Response
  BY ElementOfSeq, Zenon DEF TypeOK, Response
<1>3. ExpectInv' BY <1>1, <1>2 DEF ExpectInv, hostVars, seqVars
<1>4. \A i \in 1..Len(m2h) :
        /\ receive_seq <= m2h[i].seq /\ m2h[i].seq < next_sequence + 1
        /\ m2h[i].seq <= next_sequence + 1
  BY <1>2 DEF ResponseInv, Response
<1>5. last_ack_seq < next_sequence + 1 BY <1>2 DEF ResponseInv
<1> QED BY <1>2, <1>3, <1>4, <1>5 DEF ResponseInv, hostVars, seqVars

\* command_dispatch of the expected block extends the log by its commands.
LEMMA McuDispatchInv == LinkInv /\ McuDispatch => LinkInv'
<1> SUFFICES ASSUME LinkInv, McuDispatch PROVE LinkInv'
  OBVIOUS
<1> USE DEF LinkInv, McuDispatch
<1> DEFINE b == Head(h2m)
           k == Slot(next_sequence)
<1>1. /\ b \in Block /\ next_sequence < send_seq /\ k \in 1..Len(sent_queue)
      /\ b.first = sent_queue[k].first /\ b.last = sent_queue[k].last
      /\ 1 <= b.first /\ b.first <= b.last /\ b.last <= taken
  BY AcceptedBlock
<1>2. LineInv' BY LineAccept
<1>3. ExpectInv' /\ ResponseInv' BY ResponseAccept
<1>4. executed' \in Seq(Nat) /\ LogInv'
  <2>1. CASE is_shutdown
    BY <2>1 DEF LogInv, ExecutedOnceInOrder, TypeOK
  <2>2. CASE ~is_shutdown
    <3>1. b.first \in Nat /\ b.last \in Nat /\ b.first - 1 <= b.last
      BY <1>1 DEF Block
    <3>2. executed # <<>> => executed[Len(executed)] = b.first - 1
      BY <1>1, <2>2 DEF LogInv, NextFirst
    <3>3. executed' = executed \o Commands(b.first, b.last) BY <2>2
    <3> HIDE DEF b, McuDispatch
    <3>4. /\ executed' \in Seq(Nat) /\ ExecutedOnceInOrder'
          /\ executed'[Len(executed')] = b.last
      BY <1>1, <3>1, <3>2, <3>3, LogGrows, Zenon DEF LogInv
    <3>5. b.last = NextFirst' - 1
      <4>1. /\ Len(sent_queue) = send_seq - receive_seq /\ send_seq \in Nat
            /\ receive_seq \in Nat /\ next_sequence \in Nat /\ taken \in Nat
            /\ next_sequence' = next_sequence + 1
            /\ UNCHANGED <<sent_queue, send_seq, receive_seq, taken>>
        BY DEF ContentInv, SentQueueIsWindow, TypeOK, McuDispatch, hostVars,
               seqVars, queueVars
      <4>2. CASE next_sequence + 1 < send_seq
        <5>1. k \in 1..(Len(sent_queue) - 1) /\ Slot(next_sequence + 1) = k + 1
          BY <1>1, <4>1, <4>2 DEF Slot
        <5>2. sent_queue[k + 1].first = b.last + 1 BY <1>1, <5>1 DEF ContentInv
        <5>3. NextFirst' = sent_queue[k + 1].first
          BY <4>1, <4>2, <5>1 DEF NextFirst, Slot
        <5> QED BY <3>1, <5>2, <5>3
      <4>3. CASE ~(next_sequence + 1 < send_seq)
        <5>1. k = Len(sent_queue) /\ sent_queue # <<>>
          BY <1>1, <4>1, <4>3 DEF Slot
        <5>2. b.last = taken BY <1>1, <5>1 DEF ContentInv
        <5> QED BY <4>1, <4>3, <5>2 DEF NextFirst
      <4> QED BY <4>2, <4>3
    <3> QED BY <3>4, <3>5 DEF LogInv
  <2> QED BY <2>1, <2>2 DEF TypeOK
<1>5. TypeOK'
  <2>1. /\ UNCHANGED <<hostVars, h2m, m2h, faults>> /\ need_valid' = FALSE
        /\ rx_head' \in {"wire", "run", "held"}
    OBVIOUS
  <2>2. next_sequence' = next_sequence + 1 OBVIOUS
  <2>3. next_sequence' \in Nat BY <2>2 DEF TypeOK
  <2>4. is_shutdown' = TRUE \/ is_shutdown' = is_shutdown OBVIOUS
  <2> QED
    BY ONLY TypeOK, <1>4, <2>1, <2>3, <2>4, Zenon
       DEF TypeOK, hostVars, queueVars, seqVars, resendVars, notifyVars
<1>6. ContentInv' /\ BufferInv' /\ NakInv' BY HostFrame
<1> QED BY <1>2, <1>3, <1>4, <1>5, <1>6

\* A command of the expected block that shuts the mcu down ends the block.
LEMMA McuDispatchShutdownInv == LinkInv /\ McuDispatchShutdown => LinkInv'
<1> SUFFICES ASSUME LinkInv, McuDispatchShutdown PROVE LinkInv'
  OBVIOUS
<1> USE DEF LinkInv, McuDispatchShutdown
<1> DEFINE b == Head(h2m)
<1>1. /\ b \in Block /\ next_sequence < send_seq
      /\ b.first = sent_queue[Slot(next_sequence)].first
      /\ 1 <= b.first /\ b.first <= b.last /\ b.first \in Nat /\ b.last \in Nat
  BY AcceptedBlock DEF Block
<1>2. LineInv' BY LineAccept
<1>3. ExpectInv' /\ ResponseInv' BY ResponseAccept
<1>4. executed' \in Seq(Nat) /\ LogInv'
  <2>1. PICK last \in (b.first - 1)..b.last :
          executed' = executed \o Commands(b.first, last)
    OBVIOUS
  <2>2. executed # <<>> => executed[Len(executed)] = b.first - 1
    BY <1>1, Zenon DEF LogInv, NextFirst, TypeOK
  <2>3. is_shutdown' = TRUE OBVIOUS
  <2>4. last \in Nat /\ b.first - 1 <= last BY <1>1
  <2> HIDE DEF b, McuDispatchShutdown
  <2>5. executed' \in Seq(Nat) /\ ExecutedOnceInOrder'
    BY <1>1, <2>1, <2>2, <2>4, LogGrows, Zenon DEF LogInv
  <2> QED BY <2>3, <2>5 DEF LogInv
<1>5. TypeOK'
  <2>1. /\ UNCHANGED <<hostVars, h2m, m2h, faults>> /\ need_valid' = FALSE
        /\ rx_head' \in {"wire", "run", "held"}
    OBVIOUS
  <2>2. next_sequence' = next_sequence + 1 OBVIOUS
  <2>3. next_sequence' \in Nat BY <2>2 DEF TypeOK
  <2>4. is_shutdown' = TRUE \/ is_shutdown' = is_shutdown OBVIOUS
  <2> QED
    BY ONLY TypeOK, <1>4, <2>1, <2>3, <2>4, Zenon
       DEF TypeOK, hostVars, queueVars, seqVars, resendVars, notifyVars
<1>6. ContentInv' /\ BufferInv' /\ NakInv' BY HostFrame
<1> QED BY <1>2, <1>3, <1>4, <1>5, <1>6
=============================================================================
