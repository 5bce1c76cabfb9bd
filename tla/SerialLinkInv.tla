--------------------------- MODULE SerialLinkInv ---------------------------
(***************************************************************************)
(* The inductive invariant behind the safety properties of SerialLink.     *)
(* SerialLinkProofs shows that it is inductive.                            *)
(***************************************************************************)
EXTENDS SerialLink

\* The place of block seq in the sent queue.
Slot(seq) == seq - receive_seq + 1

\* The first command of the block the mcu waits for.
NextFirst == IF next_sequence < send_seq THEN sent_queue[Slot(next_sequence)].first
             ELSE taken + 1

\* The sent queue is the window, its blocks hold consecutive commands, and
\* need_ack_bytes is their size.
ContentInv ==
  /\ 1 <= receive_seq /\ taken <= submitted
  /\ SentQueueIsWindow
  /\ \A i \in 1..Len(sent_queue) :
       /\ 1 <= sent_queue[i].first /\ sent_queue[i].first <= sent_queue[i].last
       /\ sent_queue[i].last <= taken /\ Size(sent_queue[i]) <= BlockMax
  /\ \A i \in 1..(Len(sent_queue) - 1) :
       sent_queue[i + 1].first = sent_queue[i].last + 1
  /\ \A i, j \in 1..Len(sent_queue) :
       i < j => sent_queue[i].last < sent_queue[j].first
  /\ sent_queue # <<>> => sent_queue[Len(sent_queue)].last = taken
  /\ need_ack_bytes = taken + 1 - FirstUnacked

\* The mcu waits for a block of the window, or the connection is being set up
\* and nothing was run yet.
ExpectInv ==
  /\ receive_seq <= next_sequence
  /\ next_sequence > send_seq =>
       /\ receive_seq = 1 /\ next_sequence <= SeqMod /\ executed = <<>>
       /\ \A i \in 1..Len(m2h) : m2h[i].seq = next_sequence

\* Responses on their way are in order and newer than what the host knows.  No
\* plain ack covers a block that still occupies the receive buffer.
ResponseInv ==
  /\ \A i \in 1..Len(m2h) :
       /\ receive_seq <= m2h[i].seq /\ m2h[i].seq <= next_sequence
       /\ rx_head # "wire" /\ ~m2h[i].data => m2h[i].seq < next_sequence
  /\ \A i, j \in 1..Len(m2h) : i < j => m2h[i].seq <= m2h[j].seq
  /\ last_ack_seq <= next_sequence
  /\ rx_head # "wire" => last_ack_seq < next_sequence

\* A block on its way: its number cannot be confused with the one the mcu waits
\* for, now or after the blocks in front of it were run, and it holds what the
\* sent queue holds.
LineBlock(i) ==
  LET b == h2m[i] IN
  /\ 1 <= b.seq /\ b.seq < send_seq
  /\ next_sequence < b.seq + SeqMod
  /\ \A j \in 1..(i - 1) : h2m[j].seq + 1 < b.seq + SeqMod
  /\ receive_seq <= b.seq => /\ b.first = sent_queue[Slot(b.seq)].first
                             /\ b.last = sent_queue[Slot(b.seq)].last
  /\ b.seq = receive_seq - 1 => Size(b) = last_ack_bytes

LineInv ==
  /\ \A i \in 1..Len(h2m) : h2m[i] # Garbage => LineBlock(i)
  /\ rx_head # "wire" => /\ h2m # <<>> /\ h2m[1] # Garbage
                         /\ h2m[1].seq = next_sequence - 1

\* The log ends where the block the mcu waits for begins.
LogInv ==
  /\ ExecutedOnceInOrder
  /\ executed # <<>> /\ ~is_shutdown =>
       executed[Len(executed)] = NextFirst - 1

\* The bytes on their way and the block that a data message acknowledged
\* before it was popped fit the receive buffer together.
BufferInv ==
  /\ last_ack_bytes <= BlockMax
  /\ ReceiveWindow # 0 =>
       need_ack_bytes + (IF last_ack_seq < receive_seq THEN last_ack_bytes ELSE 0)
         <= ReceiveWindow

\* Naks and the retransmit timer.
NakInv ==
  /\ RetransmitTimerArmed
  /\ NakResendsBounded
  /\ retransmit_seq <= send_seq
  /\ \A i \in 1..Len(sent_queue) :
       /\ sent_queue[i].naks >= 1 => sent_queue[i].seq < retransmit_seq
       /\ sent_queue[i].naks = 2 => sent_queue[i].seq < ignore_nak_seq
  /\ retransmit_timer = "now" => ignore_nak_seq < receive_seq

\* The inductive invariant of the transport: numbers, contents and buffer space
\* of the blocks in the window, on the line and in the mcu agree.
LinkInv == /\ TypeOK /\ ContentInv /\ ExpectInv /\ ResponseInv /\ LineInv
           /\ LogInv /\ BufferInv /\ NakInv
=============================================================================
