------------------------------ MODULE Stepper ------------------------------
(***************************************************************************)
(* One stepper motor: the queue of moves and the position that the         *)
(* micro-controller keeps (stepper.c), and the commands and the position   *)
(* of the host (stepcompress.c, stepper.py).                               *)
(*                                                                         *)
(* The motor is stopped by a trigger at any point of a move.  The host     *)
(* has sent more moves by then; it throws its own position away and asks   *)
(* the micro-controller, on another command queue than the moves.          *)
(***************************************************************************)
EXTENDS Integers, Sequences

CONSTANTS Word,       \* values of the position, 2^32 in the code
          Counts,     \* step counts of a move
          MaxPos,     \* bound: positions the host goes to
          MaxLink,    \* bound: commands on their way
          MaxQueue    \* bound: moves queued in the micro-controller

ASSUME WordAssumption == Word \in Nat /\ Word > 0 /\ Word % 4 = 0
ASSUME CountAssumption == Counts \subseteq 1..MaxPos /\ MaxPos < Word \div 4

VARIABLES
  s,               \* struct stepper; single: a step on each edge of the step pin
  sdir,            \* stepcompress: direction last sent, -1 after a reset
  last_position,   \* stepcompress: position after all moves that were sent
  invert_dir,      \* the direction pin of the motor is inverted
  pc,              \* of the host: "move", "homing", "query", or "down"
  link,            \* commands of the stepper's command queue on their way
  query,           \* stepper_get_position: "none", "sent", or "answered"
  answer,          \* its answer
  armed,           \* stepper_stop is a signal of a trsync object
  refused,         \* a command made the micro-controller shut down
  motor            \* the steps the motor has really made

vars == <<s, sdir, last_position, invert_dir, pc, link, query, answer, armed, refused, motor>>
hostVars == <<sdir, last_position, invert_dir, pc>>
queryVars == <<query, answer>>

POSITION_BIAS == Word \div 4
TopBit(p) == p >= Word \div 2
Signed(p) == IF TopBit(p) THEN p - Word ELSE p

\* command_config_stepper.
Configured(single) ==
  [count |-> 0, position |-> (-POSITION_BIAS) % Word, mq |-> <<>>, dir_pin |-> FALSE,
   last_dir |-> FALSE, next_dir |-> FALSE, need_reset |-> FALSE, single |-> single]

-----------------------------------------------------------------------------
\* Mutant: the position is negative.
stepper_load_next_Sign(t) ==
  IF t.mq = <<>> THEN [t EXCEPT !.count = 0]
  ELSE LET m == Head(t.mq)
       IN  [t EXCEPT !.mq = Tail(t.mq),
                     !.count = IF t.single THEN m.count ELSE 2 * m.count,
                     !.position = (IF m.flip THEN -@ ELSE @) + m.count,
                     !.dir_pin = IF m.flip THEN ~@ ELSE @]

\* stepper_load_next: the next move, or none.  All its steps are added to the
\* position, which changes its sign with the direction.
stepper_load_next(t) ==
  IF t.mq = <<>> THEN [t EXCEPT !.count = 0]
  ELSE LET m == Head(t.mq)
       IN  [t EXCEPT !.mq = Tail(t.mq),
                     !.count = IF t.single THEN m.count ELSE 2 * m.count,
                     !.position = ((IF m.flip THEN -@ ELSE @) + m.count) % Word,
                     !.dir_pin = IF m.flip THEN ~@ ELSE @]

\* Mutant: an unstep that is still to come counts as a step.
StepsLeftUp(t) == IF t.single THEN t.count ELSE (t.count + 1) \div 2
StepsLeft(t) == IF t.single THEN t.count ELSE t.count \div 2

stepper_get_position(t) ==
  LET p == (t.position - StepsLeft(t)) % Word
  IN  IF TopBit(p) THEN (-p) % Word ELSE p

\* Mutant: moves on their way are run after the stop.
stepper_stop_NoReset(t) ==
  [t EXCEPT !.position = (-stepper_get_position(t)) % Word, !.count = 0, !.mq = <<>>,
            !.last_dir = FALSE, !.next_dir = FALSE, !.dir_pin = FALSE]

stepper_stop(t) ==
  [t EXCEPT !.position = (-stepper_get_position(t)) % Word, !.count = 0, !.mq = <<>>,
            !.last_dir = FALSE, !.next_dir = FALSE, !.need_reset = TRUE,
            !.dir_pin = FALSE]

\* Mutant: a move that is thrown away still changes the direction.
QueuedStepFlags(t, count) ==
  LET flip == t.last_dir # t.next_dir
      f    == [t EXCEPT !.last_dir = t.next_dir]
      q    == [f EXCEPT !.mq = Append(@, [count |-> count, flip |-> flip])]
  IN  IF t.count > 0 THEN q ELSE IF t.need_reset THEN f ELSE stepper_load_next(q)

\* command_queue_step.
QueuedStep(t, count) ==
  LET flip == t.last_dir # t.next_dir
      q    == [t EXCEPT !.last_dir = t.next_dir,
                        !.mq = Append(@, [count |-> count, flip |-> flip])]
  IN  IF t.count > 0 THEN q ELSE IF t.need_reset THEN t ELSE stepper_load_next(q)

-----------------------------------------------------------------------------
\* The next command of the stepper's queue.
command_queue_step ==
  /\ link # <<>> /\ Head(link).name = "queue_step"
  /\ Len(s.mq) < MaxQueue
  /\ s' = QueuedStep(s, Head(link).count)
  /\ link' = Tail(link)
  /\ UNCHANGED <<hostVars, queryVars, armed, refused, motor>>

command_set_next_step_dir ==
  /\ link # <<>> /\ Head(link).name = "set_next_step_dir"
  /\ s' = [s EXCEPT !.next_dir = Head(link).dir]
  /\ link' = Tail(link)
  /\ UNCHANGED <<hostVars, queryVars, armed, refused, motor>>

command_reset_step_clock ==
  /\ link # <<>> /\ Head(link).name = "reset_step_clock"
  /\ IF s.count > 0 THEN refused' = TRUE /\ UNCHANGED s
     ELSE s' = [s EXCEPT !.need_reset = FALSE] /\ UNCHANGED refused
  /\ link' = Tail(link)
  /\ UNCHANGED <<hostVars, queryVars, armed, motor>>

\* On the other command queue.
command_stepper_get_position ==
  /\ query = "sent" /\ query' = "answered"
  /\ answer' = Signed((stepper_get_position(s) - POSITION_BIAS) % Word)
  /\ UNCHANGED <<s, hostVars, link, armed, refused, motor>>

\* stepper_event_edge or stepper_event_full: an edge of the step pin.
stepper_event ==
  /\ s.count > 0
  /\ LET step == s.single \/ s.count % 2 = 0
         left == [s EXCEPT !.count = @ - 1]
     IN  /\ motor' = IF step THEN motor + (IF s.dir_pin THEN 1 ELSE -1) ELSE motor
         /\ s' = IF left.count > 0 THEN left ELSE stepper_load_next(left)
  /\ UNCHANGED <<hostVars, link, queryVars, armed, refused>>

\* trsync_do_trigger.  The reset after an earlier homing move has arrived by then:
\* homing_move flushes it, and the endstop is sampled from a later time on.
Trigger ==
  /\ armed /\ armed' = FALSE
  /\ \A i \in DOMAIN link : link[i].name # "reset_step_clock"
  /\ s' = stepper_stop(s)
  /\ UNCHANGED <<hostVars, link, queryVars, refused, motor>>

\* A shutdown: stepper_shutdown; the host notices and sends no more.
stepper_shutdown ==
  /\ pc # "down" /\ pc' = "down"
  /\ s' = stepper_stop(s)
  /\ link' = <<>> /\ query' = "none" /\ answer' = 0 /\ armed' = FALSE
  /\ UNCHANGED <<invert_dir, sdir, last_position, refused, motor>>

-----------------------------------------------------------------------------
\* set_next_step_dir and add_move of the host: count steps in a direction.
add_move(dir, count) ==
  LET turn == IF sdir = dir THEN <<>>
              ELSE <<[name |-> "set_next_step_dir", dir |-> (dir = 1) # invert_dir]>>
      to   == last_position + (IF dir = 1 THEN count ELSE -count)
  IN  /\ pc \in {"move", "homing"} /\ to \in -MaxPos..MaxPos
      /\ Len(link) + Len(turn) < MaxLink
      /\ link' = link \o turn \o <<[name |-> "queue_step", count |-> count]>>
      /\ sdir' = dir /\ last_position' = to
      /\ UNCHANGED <<invert_dir, s, pc, queryVars, armed, refused, motor>>

\* home_start: the stepper stops on the trigger.
home_start ==
  /\ pc = "move" /\ pc' = "homing"
  /\ armed' = TRUE
  /\ UNCHANGED <<invert_dir, s, sdir, last_position, link, queryVars, refused, motor>>

\* Mutant: the direction is taken to be the one that was sent last.
ResetDirKept == sdir
ResetDir == -1

\* note_homing_end, after every trsync object has triggered.
note_homing_end ==
  /\ pc = "homing" /\ ~armed
  /\ pc' = "query" /\ sdir' = ResetDir
  /\ Len(link) < MaxLink
  /\ link' = Append(link, [name |-> "reset_step_clock"])
  /\ query' = "sent"
  /\ UNCHANGED <<invert_dir, s, last_position, answer, armed, refused, motor>>

\* A new host process: a new stepcompress object, the commands of _send_config
\* reset the step clock, and the position is asked for on connect.
Connect ==
  /\ pc' = "query" /\ sdir' = -1 /\ last_position' = 0
  /\ link' = <<[name |-> "reset_step_clock"]>>
  /\ query' = "sent"
  /\ UNCHANGED <<invert_dir, answer, armed, refused>>

\* RESTART waits for all moves; the micro-controller keeps its configuration.
Restart ==
  /\ pc = "move" /\ link = <<>> /\ s.count = 0
  /\ Connect
  /\ UNCHANGED <<s, motor>>

\* After a shutdown the micro-controller is reset and configured anew: its
\* position counts from here.
FirmwareRestart ==
  /\ pc = "down"
  /\ Connect
  /\ s' = Configured(s.single) /\ motor' = 0

\* _query_mcu_position gets its answer.
query_mcu_position ==
  /\ query = "answered" /\ query' = "none"
  /\ last_position' = IF invert_dir THEN -answer ELSE answer
  /\ answer' = 0 /\ pc' = "move"
  /\ UNCHANGED <<invert_dir, s, sdir, link, armed, refused, motor>>

Init ==
  /\ \E single \in BOOLEAN : s = Configured(single)
  /\ sdir = -1 /\ last_position = 0 /\ invert_dir \in BOOLEAN /\ pc = "move" /\ link = <<>>
  /\ query = "none" /\ answer = 0 /\ armed = FALSE /\ refused = FALSE /\ motor = 0

Mcu == \/ command_queue_step \/ command_set_next_step_dir \/ command_reset_step_clock
       \/ command_stepper_get_position \/ stepper_event \/ Trigger \/ stepper_shutdown
Host == \/ \E dir \in {0, 1}, count \in Counts : add_move(dir, count)
        \/ home_start \/ note_homing_end \/ Restart \/ FirmwareRestart
        \/ query_mcu_position
Next == Mcu \/ Host

Spec == Init /\ [][Next]_vars

-----------------------------------------------------------------------------
\* Types of the state.
TypeOK ==
  /\ s \in [count : Nat, position : 0..(Word - 1), dir_pin : BOOLEAN, last_dir : BOOLEAN,
            next_dir : BOOLEAN, need_reset : BOOLEAN, single : BOOLEAN,
            mq : Seq([count : Counts, flip : BOOLEAN])]
  /\ sdir \in {-1, 0, 1} /\ last_position \in -MaxPos..MaxPos
  /\ pc \in {"move", "homing", "query", "down"}
  /\ query \in {"none", "sent", "answered"} /\ answer \in Int
  /\ invert_dir \in BOOLEAN /\ armed \in BOOLEAN /\ refused \in BOOLEAN /\ motor \in Int

\* stepper_get_position counts the steps that were made, at every edge of a move
\* in either direction, after a change of direction and after a stop: the top bit
\* of the position always follows the direction pin.
PositionIsTrue == Signed((stepper_get_position(s) - POSITION_BIAS) % Word) = motor

\* The position that note_homing_end gets is final: moves that were sent before
\* the stop and arrive after the query do not move the motor any more.
AnswerIsFinal == query = "answered" => answer = motor

\* Once everything that was sent is done, the host's position is the motor's,
\* also after stops in the middle of a move and restarts.
HostAgrees ==
  pc = "move" /\ link = <<>> /\ s.count = 0 =>
    last_position = IF invert_dir THEN -motor ELSE motor

\* "Can't reset time when stepper active": the reset after a stop comes behind
\* all moves of the homing move, which were thrown away.
NoActiveReset == ~refused
=============================================================================
