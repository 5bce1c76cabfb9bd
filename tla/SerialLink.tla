----------------------------- MODULE SerialLink -----------------------------
(***************************************************************************)
(* The transport between the host and one micro-controller.                *)
(*   host: klippy/chelper/serialqueue.c, its background thread and the     *)
(*         threads that queue commands;                                    *)
(*   mcu:  src/command.c and the console task of src/generic/serial_irq.c. *)
(*                                                                         *)
(* A block carries a 4 bit sequence number, the host keeps it as a 64 bit  *)
(* counter.  Here every sequence number is kept in full, and the code that *)
(* sees only its low bits uses it only through Wire(_).                    *)
(*                                                                         *)
(* Commands are the numbers 1..submitted, in the order they were queued.   *)
(* Each is one unit long and a block holds at most BlockMax of them.  All  *)
(* are due at once (min_clock = req_clock = 0, no clock estimate): the     *)
(* scheduling of commands by clock is a different concern.                 *)
(***************************************************************************)
EXTENDS Integers, Sequences, FiniteSets

CONSTANTS
  SeqMod,         \* MESSAGE_SEQ_MASK + 1 (16 in the code)
  MaxPending,     \* MAX_PENDING_BLOCKS (12)
  BlockMax,       \* commands per block (MESSAGE_MAX)
  ReceiveWindow,  \* RECEIVE_WINDOW announced by the mcu, 0 when it has none
  NotifyCmds,     \* commands sent by raw_send_wait_ack (notify_id # 0)
  MaxCmds,        \* bound: commands ever queued
  MaxFaults,      \* bound: blocks or responses lost or garbled
  TxMax,          \* responses that fit the mcu's transmit buffer
  ChanMax         \* bound: blocks on their way when a retransmit is allowed

ASSUME SeqAssumption == /\ SeqMod \in Nat /\ MaxPending \in Nat \ {0}
                        /\ MaxPending < SeqMod
ASSUME BlockAssumption == BlockMax \in Nat \ {0}
ASSUME WindowAssumption == ReceiveWindow \in Nat
                           /\ (ReceiveWindow # 0 => ReceiveWindow >= 2 * BlockMax)
ASSUME BoundsAssumption == /\ MaxCmds \in Nat /\ MaxFaults \in Nat
                           /\ TxMax \in Nat \ {0} /\ ChanMax \in Nat
                           /\ NotifyCmds \subseteq Nat

VARIABLES
  submitted,        \* commands queued by serialqueue_send
  taken,            \* commands already put in a block
  send_seq, receive_seq, last_ack_seq, ignore_nak_seq, retransmit_seq,
  rtt_sample_seq,
  last_receive_sent, \* block whose send time is known, 0 for "not known"
  sent_queue,       \* blocks not yet acknowledged
  need_ack_bytes, last_ack_bytes,
  notify_queue,     \* set of [cmd, seq], the code's list is ordered by seq
  completed,        \* commands whose notification was posted
  retransmit_timer, \* "never", "now" (nak) or "armed" (rto)
  command_timer,    \* "never" or "now"
  kicked,           \* a byte is in the wake-up pipe
  need_kick,        \* need_kick_clock # 0
  next_sequence,    \* mcu: the sequence number it waits for
  need_valid,       \* mcu: CF_NEED_VALID
  rx_head,          \* the first block of h2m: "wire", "run" or "held"
  is_shutdown,      \* mcu
  executed,         \* commands run by the mcu, in order
  h2m, m2h,         \* host to mcu and mcu to host, oldest first
  faults

queueVars == <<submitted, taken, kicked, need_kick, command_timer>>
seqVars == <<send_seq, receive_seq, last_ack_seq, sent_queue,
             need_ack_bytes, last_ack_bytes>>
resendVars == <<ignore_nak_seq, retransmit_seq, rtt_sample_seq,
                last_receive_sent, retransmit_timer>>
notifyVars == <<notify_queue, completed>>
hostVars == <<queueVars, seqVars, resendVars, notifyVars>>
mcuVars == <<next_sequence, need_valid, rx_head, is_shutdown, executed>>
vars == <<hostVars, mcuVars, h2m, m2h, faults>>

(***************************************************************************)
(* Helpers.                                                                *)
(***************************************************************************)
Lesser(a, b) == IF a <= b THEN a ELSE b

Wire(seq) == seq % SeqMod

Size(block) == block.last - block.first + 1

\* The blocks as they are written to the port.
Frames(blocks) == [i \in 1..Len(blocks) |->
                     [seq |-> blocks[i].seq, first |-> blocks[i].first,
                      last |-> blocks[i].last]]

Commands(first, last) == [i \in 1..(last - first + 1) |-> first + i - 1]

\* What is left of a block that was damaged or cut.
Garbage == [seq |-> 0, first |-> 1, last |-> 0]

\* command_find_block: the block is intact and has the number waited for.
Expected(b) == b # Garbage /\ Wire(b.seq) = Wire(next_sequence)

\* handle_message: the full number of a response that carries low bits w.
ReceivedSeq(w) == LET high == receive_seq - Wire(receive_seq) + w
                  IN  IF high < receive_seq THEN high + SeqMod ELSE high

\* console_sendf: a response is dropped when the transmit buffer is full.
Respond(isData) ==
  m2h' = IF Len(m2h) < TxMax
         THEN Append(m2h, [seq |-> next_sequence, data |-> isData])
         ELSE m2h

\* serialqueue_alloc; the mcu was not reset, so any low bits may be next.
Init ==
  /\ submitted = 0 /\ taken = 0
  /\ send_seq = 1 /\ receive_seq = 1
  /\ last_ack_seq = 0 /\ ignore_nak_seq = 0 /\ retransmit_seq = 0
  /\ rtt_sample_seq = 0 /\ last_receive_sent = 0
  /\ sent_queue = <<>> /\ need_ack_bytes = 0 /\ last_ack_bytes = 0
  /\ notify_queue = {} /\ completed = {}
  /\ retransmit_timer = "never" /\ command_timer = "never"
  /\ kicked = FALSE /\ need_kick = TRUE
  /\ next_sequence \in 1..SeqMod
  /\ need_valid = FALSE /\ rx_head = "wire" /\ is_shutdown = FALSE
  /\ executed = <<>> /\ h2m = <<>> /\ m2h = <<>> /\ faults = 0

(***************************************************************************)
(* Host.                                                                   *)
(***************************************************************************)
\* serialqueue_send, serialqueue_send_one, serialqueue_send_batch.
SendNoKick ==
  /\ submitted < MaxCmds
  /\ submitted' = submitted + 1
  /\ need_kick' = FALSE
  /\ UNCHANGED <<taken, kicked, command_timer, seqVars, resendVars, notifyVars,
                 mcuVars, h2m, m2h, faults>>
Send ==
  /\ submitted < MaxCmds
  /\ submitted' = submitted + 1
  /\ need_kick' = FALSE
  /\ kicked' = (kicked \/ need_kick)
  /\ UNCHANGED <<taken, command_timer, seqVars, resendVars, notifyVars,
                 mcuVars, h2m, m2h, faults>>

\* kick_event
KickEvent ==
  /\ kicked
  /\ kicked' = FALSE
  /\ command_timer' = "now"
  /\ UNCHANGED <<submitted, taken, need_kick, seqVars, resendVars, notifyVars,
                 mcuVars, h2m, m2h, faults>>

\* check_send_command after k blocks were built by this command_event: room
\* in the block window, room in the mcu's receive buffer.
WindowOpenWide(k) == send_seq + k - receive_seq <= MaxPending
WindowOpenNoLastAck(k) ==
  /\ send_seq + k - receive_seq < MaxPending
  /\ \/ send_seq + k <= receive_seq
     \/ need_ack_bytes + Lesser(k * BlockMax, submitted - taken) + BlockMax
        <= ReceiveWindow
WindowOpen(k) ==
  /\ send_seq + k - receive_seq < MaxPending
  /\ \/ send_seq + k <= receive_seq
     \/ ReceiveWindow = 0
     \/ need_ack_bytes + Lesser(k * BlockMax, submitted - taken) + BlockMax
          + (IF last_ack_seq < receive_seq THEN last_ack_bytes ELSE 0)
        <= ReceiveWindow

Ready(k) == taken + k * BlockMax < submitted

\* build_and_send_command: the k-th block built by this command_event.
Built(k) == [seq |-> send_seq + k - 1,
             first |-> taken + (k - 1) * BlockMax + 1,
             last |-> Lesser(taken + k * BlockMax, submitted),
             naks |-> 0]

\* command_event: build and write blocks until check_send_command says wait.
CommandEvent ==
  /\ command_timer = "now"
  /\ \E n \in 0..MaxPending :
       LET blocks == [k \in 1..n |-> Built(k)]
           last == Lesser(taken + n * BlockMax, submitted)
       IN
       /\ \A k \in 0..(n - 1) : WindowOpen(k) /\ Ready(k)
       /\ ~(WindowOpen(n) /\ Ready(n))
       /\ need_kick' = (need_kick \/ WindowOpen(n))
       /\ taken' = last
       /\ send_seq' = send_seq + n
       /\ sent_queue' = sent_queue \o blocks
       /\ need_ack_bytes' = need_ack_bytes + (last - taken)
       /\ h2m' = h2m \o Frames(blocks)
       /\ notify_queue' = notify_queue \cup
            UNION {{[cmd |-> c, seq |-> blocks[k].seq] :
                      c \in NotifyCmds \cap (blocks[k].first .. blocks[k].last)}
                   : k \in 1..n}
       /\ retransmit_timer' = IF sent_queue = <<>> /\ n > 0
                              THEN "armed" ELSE retransmit_timer
       /\ rtt_sample_seq' = IF rtt_sample_seq = 0 /\ n > 0
                            THEN send_seq ELSE rtt_sample_seq
  /\ command_timer' = "never"
  /\ UNCHANGED <<submitted, kicked, receive_seq, last_ack_seq, last_ack_bytes,
                 ignore_nak_seq, retransmit_seq, last_receive_sent, completed,
                 mcuVars, m2h, faults>>

\* update_receive_seq: the bytes of the n blocks it takes from the sent queue.
PoppedBytesSync(n) == sent_queue[n].last - sent_queue[1].first + 2
PoppedBytes(n) == sent_queue[n].last - sent_queue[1].first + 1

\* update_receive_seq
UpdateReceiveSeq(rseq) ==
  LET matched == rseq - receive_seq <= Len(sent_queue)
      popped == IF matched THEN rseq - receive_seq ELSE Len(sent_queue)
      rest == SubSeq(sent_queue, popped + 1, Len(sent_queue))
  IN
  /\ sent_queue' = rest
  /\ need_ack_bytes' = IF popped = 0 THEN need_ack_bytes
                       ELSE need_ack_bytes - PoppedBytes(popped)
  /\ send_seq' = IF matched THEN send_seq ELSE rseq
  /\ last_receive_sent' = IF matched THEN rseq - 1 ELSE 0
  /\ last_ack_bytes' = IF matched THEN Size(sent_queue[popped])
                       ELSE last_ack_bytes
  /\ receive_seq' = rseq
  /\ command_timer' = "now"
  /\ rtt_sample_seq' = IF matched /\ rseq > rtt_sample_seq
                       THEN 0 ELSE rtt_sample_seq

\* handle_message: the notifications a response lets go.  A data message may
\* come from the middle of a dispatch, so it vouches for one block less.  The
\* subtraction is unsigned: for a data message with number 1 it wraps, and
\* every waiter is woken.
WokenByAny(rseq, isData) == {q \in notify_queue : q.seq <= rseq - 1}
WokenBeforeUpdate(rseq, isData) ==
  {q \in notify_queue : q.seq <= receive_seq - (IF isData THEN 2 ELSE 1)}
Woken(rseq, isData) ==
  {q \in notify_queue : \/ q.seq <= rseq - (IF isData THEN 2 ELSE 1)
                        \/ isData /\ rseq = 1}

\* The retransmit timer after a response.
RetransmitAfterNoStop(isNew, isNak) ==
  IF isNak THEN "now" ELSE IF isNew THEN "armed" ELSE retransmit_timer
RetransmitAfter(isNew, isNak) ==
  CASE isNak -> "now"
    [] isNew /\ ~isNak -> IF sent_queue' = <<>> THEN "never" ELSE "armed"
    [] OTHER -> retransmit_timer

\* handle_message: responses that answer a number never sent are dropped,
\* except the very first one, which sets up the connection.
InputEvent ==
  /\ m2h # <<>>
  /\ m2h' = Tail(m2h)
  /\ LET m == Head(m2h)
         rseq == ReceivedSeq(Wire(m.seq))
         isNew == rseq # receive_seq
         woken == Woken(rseq, m.data)
         isNak == /\ ~m.data /\ last_ack_seq >= rseq
                  /\ rseq > ignore_nak_seq /\ sent_queue' # <<>>
     IN
     IF isNew /\ rseq > send_seq /\ receive_seq # 1
     THEN UNCHANGED hostVars
     ELSE
     /\ IF isNew
        THEN UpdateReceiveSeq(rseq)
        ELSE UNCHANGED <<sent_queue, need_ack_bytes, send_seq, receive_seq,
                         last_receive_sent, last_ack_bytes, command_timer,
                         rtt_sample_seq>>
     /\ notify_queue' = notify_queue \ woken
     /\ completed' = completed \cup {q.cmd : q \in woken}
     /\ last_ack_seq' = IF ~m.data /\ last_ack_seq < rseq
                        THEN rseq ELSE last_ack_seq
     /\ retransmit_timer' = RetransmitAfter(isNew, isNak)
     /\ UNCHANGED <<submitted, taken, kicked, need_kick, ignore_nak_seq,
                    retransmit_seq>>
  /\ UNCHANGED <<mcuVars, h2m, faults>>

\* retransmit_event: the naks to ignore after a resend caused by a nak.
IgnoreNakKept == ignore_nak_seq
IgnoreNak == IF receive_seq < retransmit_seq THEN retransmit_seq ELSE receive_seq

\* retransmit_event: the round trip sample under way is given up.
SampleAfterResendKept == rtt_sample_seq
SampleAfterResend == 0

\* retransmit_event: tcflush drops what the port has not sent yet and may cut
\* a block in two, then all blocks that wait for an ack are written again.
RetransmitEvent ==
  /\ retransmit_timer # "never"
  /\ \E kept \in (IF rx_head = "wire" THEN 0 ELSE 1)..Len(h2m),
        cut \in BOOLEAN :
       LET piece == IF cut /\ kept < Len(h2m) THEN <<Garbage>> ELSE <<>> IN
       /\ kept + Len(piece) + Len(sent_queue) <= ChanMax
       /\ h2m' = SubSeq(h2m, 1, kept) \o piece \o Frames(sent_queue)
  /\ IF retransmit_timer = "now"
     THEN /\ ignore_nak_seq' = IgnoreNak
          /\ sent_queue' = [i \in 1..Len(sent_queue) |->
                              [sent_queue[i] EXCEPT !.naks = @ + 1]]
     ELSE /\ ignore_nak_seq' = send_seq
          /\ UNCHANGED sent_queue
  /\ retransmit_seq' = send_seq
  /\ rtt_sample_seq' = SampleAfterResend
  /\ retransmit_timer' = "armed"
  /\ UNCHANGED <<queueVars, send_seq, receive_seq, last_ack_seq,
                 need_ack_bytes, last_ack_bytes, last_receive_sent, notifyVars,
                 mcuVars, m2h, faults>>

(***************************************************************************)
(* Micro-controller.                                                       *)
(***************************************************************************)
\* command_find_block accepts the block, command_dispatch runs its commands.
\* The block stays in receive_buf until the console task pops it.
McuDispatch ==
  /\ rx_head = "wire" /\ h2m # <<>>
  /\ LET b == Head(h2m) IN
     /\ Expected(b)
     /\ executed' = IF is_shutdown THEN executed
                    ELSE executed \o Commands(b.first, b.last)
  /\ next_sequence' = next_sequence + 1
  /\ need_valid' = FALSE
  /\ rx_head' = "run"
  /\ UNCHANGED <<hostVars, is_shutdown, h2m, m2h, faults>>

\* A command of the block calls shutdown(): sched_shutdown leaves the dispatch
\* by longjmp, the block is neither popped nor acknowledged.
McuDispatchShutdown ==
  /\ rx_head = "wire" /\ h2m # <<>> /\ ~is_shutdown
  /\ LET b == Head(h2m) IN
     /\ Expected(b)
     /\ \E last \in (b.first - 1)..b.last :
          executed' = executed \o Commands(b.first, last)
  /\ next_sequence' = next_sequence + 1
  /\ need_valid' = FALSE
  /\ rx_head' = "held"
  /\ is_shutdown' = TRUE
  /\ UNCHANGED <<hostVars, h2m, m2h, faults>>

\* A timer or a task calls shutdown(): a dispatch in progress is left.
McuShutdown ==
  /\ ~is_shutdown
  /\ is_shutdown' = TRUE
  /\ rx_head' = IF rx_head = "run" THEN "held" ELSE rx_head
  /\ UNCHANGED <<hostVars, next_sequence, need_valid, executed, h2m, m2h, faults>>

\* The rest of console_task: pop the block, then send the ack.
McuAck ==
  /\ rx_head = "run"
  /\ rx_head' = "wire"
  /\ h2m' = Tail(h2m)
  /\ Respond(FALSE)
  /\ UNCHANGED <<hostVars, next_sequence, need_valid, is_shutdown, executed,
                 faults>>

\* command_find_block: a valid block with another sequence number is dropped
\* and answered by a nak.
McuNak ==
  /\ rx_head # "run" /\ h2m # <<>>
  /\ Head(h2m) # Garbage /\ ~Expected(Head(h2m))
  /\ need_valid' = FALSE
  /\ rx_head' = "wire"
  /\ h2m' = Tail(h2m)
  /\ Respond(FALSE)
  /\ UNCHANGED <<hostVars, next_sequence, is_shutdown, executed, faults>>

\* command_find_block: bytes that are no block.  Only the first of a run of
\* bad blocks is answered.
McuBadBlockCounted ==
  /\ rx_head = "wire" /\ h2m # <<>> /\ Head(h2m) = Garbage
  /\ h2m' = Tail(h2m)
  /\ need_valid' = TRUE
  /\ next_sequence' = next_sequence + 1
  /\ IF need_valid THEN UNCHANGED m2h ELSE Respond(FALSE)
  /\ UNCHANGED <<hostVars, rx_head, is_shutdown, executed, faults>>
McuBadBlock ==
  /\ rx_head = "wire" /\ h2m # <<>> /\ Head(h2m) = Garbage
  /\ h2m' = Tail(h2m)
  /\ need_valid' = TRUE
  /\ IF need_valid THEN UNCHANGED m2h ELSE Respond(FALSE)
  /\ UNCHANGED <<hostVars, next_sequence, rx_head, is_shutdown, executed, faults>>

\* command_sendf from a command handler, a task or an interrupt.
McuResponse ==
  /\ Len(m2h) < TxMax
  /\ Respond(TRUE)
  /\ UNCHANGED <<hostVars, mcuVars, h2m, faults>>

(***************************************************************************)
(* The line.                                                               *)
(***************************************************************************)
LoseBlock ==
  /\ rx_head = "wire" /\ h2m # <<>> /\ faults < MaxFaults
  /\ h2m' = Tail(h2m)
  /\ faults' = faults + 1
  /\ UNCHANGED <<hostVars, mcuVars, m2h>>

GarbleBlock ==
  /\ rx_head = "wire" /\ h2m # <<>> /\ faults < MaxFaults
  /\ Head(h2m) # Garbage
  /\ h2m' = <<Garbage>> \o Tail(h2m)
  /\ faults' = faults + 1
  /\ UNCHANGED <<hostVars, mcuVars, m2h>>

\* A response lost or garbled: msgblock_check skips to the next sync byte.
LoseResponse ==
  /\ m2h # <<>> /\ faults < MaxFaults
  /\ m2h' = Tail(m2h)
  /\ faults' = faults + 1
  /\ UNCHANGED <<hostVars, mcuVars, h2m>>

Host == Send \/ KickEvent \/ CommandEvent \/ InputEvent \/ RetransmitEvent
Mcu == McuDispatch \/ McuDispatchShutdown \/ McuShutdown \/ McuAck \/ McuNak
       \/ McuBadBlock \/ McuResponse
Line == LoseBlock \/ GarbleBlock \/ LoseResponse

Next == Host \/ Mcu \/ Line

\* The background thread serves its pipe, its input and its timers.  The rto
\* doubles up to MAX_RTO, far above the time a block needs to arrive and to be
\* handled: retransmissions do not keep the mcu from its input for ever.
Fairness == /\ WF_vars(KickEvent) /\ WF_vars(CommandEvent)
            /\ WF_vars(InputEvent) /\ WF_vars(RetransmitEvent)
            /\ SF_vars(McuDispatch) /\ WF_vars(McuAck) /\ SF_vars(McuNak)
            /\ WF_vars(McuBadBlock)

Spec == Init /\ [][Next]_vars
FairSpec == Spec /\ Fairness

(***************************************************************************)
(* Properties.                                                             *)
(***************************************************************************)
Block == [seq : Nat, first : Nat, last : Nat]
SentBlock == [seq : Nat, first : Nat, last : Nat, naks : Nat]

TypeOK ==
  /\ submitted \in Nat /\ taken \in Nat
  /\ send_seq \in Nat /\ receive_seq \in Nat /\ last_ack_seq \in Nat
  /\ ignore_nak_seq \in Nat /\ retransmit_seq \in Nat
  /\ rtt_sample_seq \in Nat /\ last_receive_sent \in Nat
  /\ sent_queue \in Seq(SentBlock)
  /\ need_ack_bytes \in Nat /\ last_ack_bytes \in Nat
  /\ notify_queue \subseteq [cmd : Nat, seq : Nat]
  /\ completed \subseteq Nat
  /\ retransmit_timer \in {"never", "now", "armed"}
  /\ command_timer \in {"never", "now"}
  /\ kicked \in BOOLEAN /\ need_kick \in BOOLEAN
  /\ next_sequence \in Nat /\ need_valid \in BOOLEAN
  /\ rx_head \in {"wire", "run", "held"} /\ is_shutdown \in BOOLEAN
  /\ executed \in Seq(Nat)
  /\ h2m \in Seq(Block)
  /\ m2h \in Seq([seq : Nat, data : BOOLEAN])
  /\ faults \in Nat

\* The first command not yet acknowledged.
FirstUnacked == IF sent_queue = <<>> THEN taken + 1 ELSE sent_queue[1].first

\* Commands reach command_dispatch in the order they were queued, each once:
\* whatever is lost, garbled, sent twice or cut by tcflush, the log of the mcu
\* has neither a repetition nor a hole after its first command.
ExecutedOnceInOrder ==
  \A i \in 1..(Len(executed) - 1) : executed[i + 1] = executed[i] + 1

\* update_receive_seq forgets a block only when the mcu has run it, or, before
\* the connection is set up, when the mcu will never run it.
AckedWereExecuted ==
  executed # <<>> /\ ~is_shutdown =>
    executed[Len(executed)] >= FirstUnacked - 1

\* The sent queue holds exactly the blocks receive_seq .. send_seq - 1, and no
\* more than the window: the 4 bit numbers never become ambiguous.
SentQueueIsWindow ==
  /\ Len(sent_queue) = send_seq - receive_seq
  /\ Len(sent_queue) <= MaxPending
  /\ \A i \in 1..Len(sent_queue) : sent_queue[i].seq = receive_seq + i - 1

\* handle_message recovers the number the mcu meant from its low bits, and
\* never takes a response of the mcu for "an ack for a message not sent".
ResponsesDecode ==
  m2h # <<>> =>
    LET m == Head(m2h) IN
    /\ ReceivedSeq(Wire(m.seq)) = m.seq
    /\ m.seq <= send_seq \/ receive_seq = 1

\* RECEIVE_WINDOW: the blocks the mcu has not popped yet fit its receive
\* buffer, also when a response sent in the middle of a dispatch acknowledges
\* the block that still occupies the buffer.
FitsReceiveWindow ==
  ReceiveWindow # 0 =>
    LET running == rx_head # "wire" /\ receive_seq = next_sequence
    IN  need_ack_bytes + (IF running THEN Size(Head(h2m)) ELSE 0)
          <= ReceiveWindow

\* A block that waits for its ack always has a retransmit timer running, and
\* an idle link has none.
RetransmitTimerArmed == sent_queue # <<>> <=> retransmit_timer # "never"

\* "Second nak for this retransmit - don't allow third": duplicate acks resend
\* a block at most twice, whatever follows is left to the timeout.
NakResendsBounded == \A i \in 1..Len(sent_queue) : sent_queue[i].naks <= 2

\* raw_send_wait_ack returns only after the block of the command left the mcu's
\* dispatch: the command was run, unless it was lost while the connection was
\* set up.  Before the first ack the wrapped subtraction breaks this.
NotifiedWereExecuted ==
  [][receive_seq # 1 /\ ~is_shutdown =>
       \A c \in completed' \ completed :
         /\ executed # <<>> => c <= executed[Len(executed)]
         /\ rx_head = "run" => c < Head(h2m).first]_vars

\* A notification waits for at most the block that was acknowledged last.
NotifyBacklog == \A q \in notify_queue : q.seq >= receive_seq - 1

\* No lost wake-up: a queued command always has a timer, a kick or an
\* outstanding ack that will make command_event look at it.
NoStrandedCommand ==
  taken < submitted => command_timer = "now" \/ kicked \/ sent_queue # <<>>

\* Karn's rule: a round trip sample is never taken from a block that was sent
\* more than once.
SampleNotResent ==
  [][rtt_sample_seq # 0 /\ rtt_sample_seq' = 0 /\ receive_seq' # receive_seq
       => last_receive_sent' >= retransmit_seq]_vars

\* The transport implements the stream of commands its users rely on.
Stream == INSTANCE CommandStream
            WITH queued <- submitted, log <- executed,
                 acked <- FirstUnacked - 1, stopped <- is_shutdown
ImplementsStream == Stream!StreamSpec

\* Every queued command is eventually acknowledged and the link falls idle.
EventuallyIdle == <>[](taken = submitted /\ sent_queue = <<>>)
=============================================================================
