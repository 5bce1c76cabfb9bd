---------------------------- MODULE StepperSync ----------------------------
(***************************************************************************)
(* The host hands the moves of all steppers of a micro-controller over so  *)
(* that its pool of moves never overflows and no stepper waits for space   *)
(* that another one holds (steppersync in stepcompress.c).                 *)
(*                                                                         *)
(* A move occupies an entry of the pool from the moment it arrives until   *)
(* the stepper loads it, at the last step of the move before.  The host    *)
(* keeps the times at which entries become free in a heap and sends a      *)
(* move when the first of them has come.                                   *)
(***************************************************************************)
EXTENDS Integers, Sequences, FiniteSets, FiniteSetsExt, SequencesExt

CONSTANTS Steppers,      \* numbers, in the order of sc_list
          Slots,         \* possible values of num_move_clocks, the entries the host counts on
          FarTicks,      \* CLOCK_DIFF_MAX
          Turning,       \* bound: steppers that change their direction
          Lengths,       \* ticks from the first to the last step of a move
          MaxClock       \* bound: end of time

ASSUME PoolAssumption == Slots \subseteq Nat \ {0}
ASSUME StepperAssumption == Steppers \subseteq Nat

VARIABLES
  clock,            \* of the micro-controller
  move_clock,       \* of the last flush
  last_step_clock,  \* stepcompress: last step that was made into a message
  msg_queue,        \* stepcompress: messages that were not flushed yet
  move_clocks,      \* steppersync: heap of the times at which entries become free
  sent,             \* messages in the serialqueue
  count,            \* time of the last step of the move a stepper makes, 0: idle
  mq,               \* moves queued for it: the times of their last steps
  overflow          \* "Move queue overflow"

hostVars == <<move_clock, last_step_clock, msg_queue, move_clocks>>
mcuVars  == <<count, mq, overflow>>
vars == <<clock, hostVars, sent, mcuVars>>

\* The pool has at least the entries that the host counts on; here it has no more.
Pool == Len(move_clocks)
Used == MapThenSumSet(LAMBDA s : Len(mq[s]), Steppers)

-----------------------------------------------------------------------------
\* heap_replace from position pos down: the root is replaced by clk.
RECURSIVE HeapDown(_, _, _)
HeapDown(h, pos, clk) ==
  LET child == {c \in {2 * pos, 2 * pos + 1} : c <= Len(h) /\ h[c] < clk}
      next  == CHOOSE c \in child : \A d \in child : h[c] < h[d] \/ (h[c] = h[d] /\ c >= d)
  IN  IF child = {} THEN [h EXCEPT ![pos] = clk]
      ELSE HeapDown([h EXCEPT ![pos] = h[next]], next, clk)

\* Mutant: only the left child is looked at.
RECURSIVE HeapDownLeft(_, _, _)
HeapDownLeft(h, pos, clk) ==
  IF 2 * pos > Len(h) \/ h[2 * pos] >= clk THEN [h EXCEPT ![pos] = clk]
  ELSE HeapDownLeft([h EXCEPT ![pos] = h[2 * pos]], 2 * pos, clk)
heap_replace_Left(h, clk) == HeapDownLeft(h, 1, clk)

heap_replace(h, clk) == HeapDown(h, 1, clk)

\* set_next_step_dir, when the direction of the step at clock first is a new one: a
\* message that takes no entry of the pool (min_clock 0; here its last step is 0).
set_next_step_dir(s, first, turn) ==
  IF turn THEN <<[stepper |-> s, first |-> first, last |-> 0, min_clock |-> 0,
                  req_clock |-> last_step_clock[s]]>>
  ELSE <<>>

\* Mutant: a move of n steps takes n intervals after its first step.
add_move_Over(s, first, length, turn) ==
  /\ msg_queue' = [msg_queue EXCEPT ![s] = @ \o set_next_step_dir(s, first, turn) \o
       <<[stepper |-> s, first |-> first, last |-> first + length + 1,
          min_clock |-> last_step_clock[s], req_clock |-> last_step_clock[s]]>>]
  /\ last_step_clock' = [last_step_clock EXCEPT ![s] = first + length + 1]
  /\ UNCHANGED <<clock, move_clock, move_clocks, sent, mcuVars>>

\* add_move: the next move of stepper s, with its first step at clock first.
\* min_clock is the time at which the entry of the pool becomes free.
add_move(s, first, length, turn) ==
  LET far == length = 0 /\ first >= last_step_clock[s] + FarTicks
  IN  /\ msg_queue' = [msg_queue EXCEPT ![s] = @ \o set_next_step_dir(s, first, turn) \o
           <<[stepper |-> s, first |-> first, last |-> first + length,
              min_clock |-> last_step_clock[s],
              req_clock |-> IF far THEN first ELSE last_step_clock[s]]>>]
      /\ last_step_clock' = [last_step_clock EXCEPT ![s] = first + length]
      /\ UNCHANGED <<clock, move_clock, move_clocks, sent, mcuVars>>

\* Mutant: a stepper sends all its moves first.
Earliest_Any(q) == CHOOSE s \in Steppers :
  q[s] # <<>> /\ \A u \in Steppers : q[u] # <<>> => s <= u
\* The first stepper of sc_list whose next message has the lowest req_clock.
Earliest(q) == CHOOSE s \in Steppers :
  /\ q[s] # <<>>
  /\ \A u \in Steppers : q[u] # <<>> =>
       \/ Head(q[s]).req_clock < Head(q[u]).req_clock
       \/ Head(q[s]).req_clock = Head(q[u]).req_clock /\ s <= u

\* Mutant: a message goes out at once.
Gated_Now(m, h) == [m EXCEPT !.min_clock = 0]
\* The message with its time of transmission.
Gated(m, h) == [m EXCEPT !.min_clock = h[1]]

\* The loop of steppersync_flush: the messages in order, and what is left.
RECURSIVE Batched(_, _, _, _)
Batched(q, h, mc, batch) ==
  LET m == Head(q[Earliest(q)])
  IN  IF \/ \A s \in Steppers : q[s] = <<>>
         \/ m.min_clock # 0 /\ m.req_clock > mc
      THEN [queue |-> q, heap |-> h, batch |-> batch]
      ELSE Batched([q EXCEPT ![m.stepper] = Tail(@)],
                   IF m.min_clock # 0 THEN heap_replace(h, m.min_clock) ELSE h,
                   mc, Append(batch, Gated(m, h)))

\* The moves were made before: by queue_flush as long as the last step is before mc,
\* by set_next_step_dir and stepcompress_flush_far also beyond.
steppersync_flush(mc) ==
  LET b == Batched(msg_queue, move_clocks, mc, <<>>)
  IN  /\ move_clock' = mc
      /\ msg_queue' = b.queue /\ move_clocks' = b.heap
      /\ sent' = sent \o b.batch
      /\ UNCHANGED <<clock, last_step_clock, mcuVars>>

-----------------------------------------------------------------------------
\* The serialqueue sends a message when its min_clock has come; command_queue_step
\* takes an entry from the pool, and gives it back when the stepper is idle.
command_queue_step ==
  /\ sent # <<>> /\ Head(sent).min_clock <= clock /\ Head(sent).last # 0
  /\ \A s \in Steppers : count[s] # clock \/ count[s] = 0
  /\ LET m == Head(sent)
     IN  /\ overflow' = (overflow \/ Used >= Pool)
         /\ IF count[m.stepper] = 0
            THEN count' = [count EXCEPT ![m.stepper] = m.last] /\ UNCHANGED mq
            ELSE mq' = [mq EXCEPT ![m.stepper] = Append(@, m.last)] /\ UNCHANGED count
  /\ sent' = Tail(sent)
  /\ UNCHANGED <<clock, hostVars>>

command_set_next_step_dir ==
  /\ sent # <<>> /\ Head(sent).min_clock <= clock /\ Head(sent).last = 0
  /\ sent' = Tail(sent)
  /\ UNCHANGED <<clock, hostVars, mcuVars>>

\* stepper_load_next, after the last step of a move.
stepper_load_next(s) ==
  /\ count[s] = clock /\ clock # 0
  /\ count' = [count EXCEPT ![s] = IF mq[s] = <<>> THEN 0 ELSE Head(mq[s])]
  /\ mq' = [mq EXCEPT ![s] = IF @ = <<>> THEN @ ELSE Tail(@)]
  /\ UNCHANGED <<clock, hostVars, sent, overflow>>

\* Time goes on while the host is ahead of it: no step is missed.
Tick ==
  /\ clock < move_clock
  /\ \A s \in Steppers : count[s] # clock \/ count[s] = 0
  /\ ~\E i \in DOMAIN sent : sent[i].first <= clock + 1 /\ sent[1].min_clock <= clock
  /\ clock' = clock + 1
  /\ UNCHANGED <<hostVars, sent, mcuVars>>

Init ==
  /\ clock = 0 /\ move_clock = 0
  /\ last_step_clock = [s \in Steppers |-> 0] /\ msg_queue = [s \in Steppers |-> <<>>]
  /\ \E n \in Slots : move_clocks = [i \in 1..n |-> 0]
  /\ sent = <<>>
  /\ count = [s \in Steppers |-> 0] /\ mq = [s \in Steppers |-> <<>>]
  /\ overflow = FALSE

\* Steps are generated in the order of time: new ones come after the last flush.
Next ==
  \/ \E s \in Steppers, first \in (move_clock + 1)..MaxClock, length \in Lengths,
        turn \in BOOLEAN :
       /\ turn => s \in Turning
       /\ last_step_clock[s] < first /\ first + length <= MaxClock
       /\ add_move(s, first, length, turn)
  \/ \E mc \in (move_clock + 1)..MaxClock : steppersync_flush(mc)
  \/ command_queue_step \/ command_set_next_step_dir \/ Tick
  \/ \E s \in Steppers : stepper_load_next(s)

Spec == Init /\ [][Next]_vars

-----------------------------------------------------------------------------
\* Types of the state.
Message == [stepper : Steppers, first : Nat, last : Nat, min_clock : Nat, req_clock : Nat]
TypeOK ==
  /\ clock \in 0..MaxClock /\ move_clock \in 0..MaxClock
  /\ last_step_clock \in [Steppers -> 0..MaxClock] /\ msg_queue \in [Steppers -> Seq(Message)]
  /\ move_clocks \in Seq(0..MaxClock) /\ sent \in Seq(Message)
  /\ count \in [Steppers -> 0..MaxClock] /\ mq \in [Steppers -> Seq(0..MaxClock)]
  /\ overflow \in BOOLEAN

\* The pool of the micro-controller never overflows, although the first move after
\* a reset (min_clock 0) is not counted.
NoOverflow == ~overflow

\* No move waits for an entry beyond the time of its first step, whatever the
\* other steppers have queued.
InTime == \A i \in DOMAIN sent : sent[i].min_clock <= sent[i].first

\* heap_replace keeps the earliest time at the root.
HeapOrdered == \A i \in 2..Len(move_clocks) : move_clocks[i \div 2] <= move_clocks[i]
=============================================================================
