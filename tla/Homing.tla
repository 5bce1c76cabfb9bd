------------------------------- MODULE Homing -------------------------------
(***************************************************************************)
(* A homing move over several micro-controllers.  The endstop is on mcu 1; *)
(* every mcu drives a stepper that has to stop when the endstop triggers.  *)
(*                                                                         *)
(*   mcu     trsync.c, endstop.c and stepper_stop of stepper.c: the        *)
(*           trigger synchronisation object, its timers and its signal     *)
(*   host C  trdispatch.c, called by the background thread of each serial  *)
(*           port: it passes a trigger on to all mcus, and extends their   *)
(*           timeouts while all of them report                             *)
(*   host Python  MCU_trsync and MCU_endstop of mcu.py: home_start and     *)
(*           home_wait in the main thread, _handle_trsync_state in the     *)
(*           reader thread of each port                                    *)
(*                                                                         *)
(* Commands arrive in order and once (CommandStream); responses arrive in  *)
(* order and may be lost.  The clocks of the mcus are one global clock.    *)
(***************************************************************************)
EXTENDS Integers, Sequences, FiniteSets

CONSTANTS N,            \* mcus 1..N, the endstop is on mcu 1
          Steppers,     \* the mcus that drive a stepper of this endstop
          ExpireTicks,  \* TRSYNC_TIMEOUT
          ReportTicks,  \* expire_timeout * .4
          MinExtend,    \* expire_timeout * .4 * .8
          SampleCount,  \* ENDSTOP_SAMPLE_COUNT
          SampleTicks,  \* ENDSTOP_SAMPLE_TIME
          RestTicks,    \* time between two endstop checks
          HomeTicks,    \* duration of the whole move
          MaxLead,      \* bound: print_time is at most this far ahead
          MaxTime,      \* bound: last value of the clock
          MaxRounds,    \* bound: homing moves
          MaxMoves,     \* bound: drip segments per mcu and move
          MaxRetries,   \* retries of SerialRetryCommand
          MaxLost,      \* bound: lost responses
          MaxShutdowns, \* bound: mcu shutdowns
          RespMax       \* bound: responses of a mcu on the line, and in its receive_queue

ASSUME McuAssumption == N \in Nat \ {0} /\ Steppers \subseteq 1..N
ASSUME TicksAssumption ==
  /\ ExpireTicks \in Nat /\ ReportTicks \in Nat \ {0}
  /\ MinExtend \in Nat /\ HomeTicks \in Nat
  /\ SampleCount \in Nat \ {0} /\ SampleTicks \in Nat /\ RestTicks \in Nat \ {0}
ASSUME BoundAssumption ==
  /\ MaxLead \in Nat /\ MaxTime \in Nat /\ MaxRounds \in Nat /\ MaxMoves \in Nat
  /\ MaxRetries \in Nat /\ MaxLost \in Nat /\ MaxShutdowns \in Nat
  /\ RespMax \in Nat \ {0}

VARIABLES
  now,             \* the clock of all mcus
  \* mcu
  ts,              \* struct trsync, with the stepper it stops
  es,              \* struct endstop
  shut,            \* the mcu is in shutdown
  host_down,       \* the host went into shutdown and stops every mcu
  \* lines
  cmds,            \* trsync command queue of each mcu, host to mcu
  steps,           \* stepper command queue of each mcu, host to mcu
  resp,            \* mcu to host
  \* trdispatch
  is_active, td_can_trigger, last_status, expire_clock,
  reader,          \* the fastreader of the mcu is registered
  inflight,        \* message held by fastreader callback, dispatch lock taken
  \* reader threads of Python
  rxq,             \* receive_queue of each port
  handler,         \* callback registered for trsync_state
  sending,         \* _handle_trsync_state is about to send a trigger
  \* main thread
  pc, k, round, start_clock, completion, tcomp, home_end,
  last_params, acked, retries, res, result,
  \* counters and history
  lost, end_lost,  \* an answer to the trigger at the end of the move was lost
  tripped,         \* time of the first trigger of this move
  error            \* a protocol error that makes a mcu shut down

mcuVars  == <<ts, es, shut, host_down, tripped, error>>
tdVars   == <<is_active, td_can_trigger, last_status, expire_clock>>
pyVars   == <<handler, sending, completion, tcomp, home_end, last_params, acked>>
mainVars == <<pc, k, round, start_clock, retries, res, result>>
lostVars == <<lost, end_lost>>
vars == <<now, mcuVars, cmds, steps, resp, tdVars, reader, inflight, rxq, pyVars,
          mainVars, lostVars>>

Mcus  == 1..N
Never == -1
None  == [kind |-> "none"]

\* MCU_trsync.REASON_*; 0 is the reason of a cleared trsync.
ENDSTOP_HIT   == 1
COMMS_TIMEOUT == 2
HOST_REQUEST  == 3
PAST_END_TIME == 4

Larger(a, b) == IF a > b THEN a ELSE b
Due(t) == t # Never /\ t <= now
\* A timer that is set in the past fires at once (sched_add_timer).
Timer(t) == Larger(t, now)
\* The next wake time of a periodic timer; the clock stops at MaxTime.
Later(t, d) == IF now = MaxTime THEN t ELSE t + d

\* A command with its clock or reason, and the homing move it belongs to.
Cmd(op, arg, r) == [op |-> op, clock |-> arg, round |-> r]
Trigger(reason) == Cmd("trsync_trigger", reason, round)
Query           == Cmd("query", HOST_REQUEST, round)
\* trsync_state; history: its homing move, and the reason in the command that
\* it answers, or 0.
State(t, c, cause) ==
  [kind |-> "trsync_state", can_trigger |-> t.can_trigger,
   trigger_reason |-> t.trigger_reason, clock |-> c, round |-> t.round, cause |-> cause]
Ack == [kind |-> "ack"]

-----------------------------------------------------------------------------
(***************************************************************************)
(* The mcu.                                                                *)
(***************************************************************************)

ClearedTrsync(stepper, r) ==
  [can_trigger |-> FALSE, report |-> FALSE, trigger_reason |-> 0,
   expire_time |-> Never, report_time |-> Never, signal |-> FALSE,
   stepper |-> stepper, round |-> r]

\* Mutant: stepper_stop without SF_NEED_RESET.
StoppedNoReset(t) == IF t.signal THEN "ready" ELSE t.stepper

\* stepper_stop: queued moves are dropped until the step clock is reset.
Stopped(t) == IF t.signal THEN "need_reset" ELSE t.stepper

trsync_do_trigger(t, reason) ==
  IF ~t.can_trigger THEN t
  ELSE [t EXCEPT !.can_trigger = FALSE, !.report = TRUE, !.trigger_reason = reason,
                 !.signal = FALSE, !.stepper = Stopped(t)]

\* History: the time of the first trigger of this move.
Tripped(t) == IF t.can_trigger /\ tripped = Never THEN now ELSE tripped

trsync_expire_event(m) ==
  /\ Due(ts[m].expire_time)
  /\ ts' = [ts EXCEPT ![m] = [trsync_do_trigger(ts[m], COMMS_TIMEOUT)
                              EXCEPT !.expire_time = Never]]
  /\ tripped' = Tripped(ts[m])
  /\ UNCHANGED <<now, es, shut, host_down, error, cmds, steps, resp, tdVars, reader, inflight,
                 rxq, pyVars, mainVars, lostVars>>

\* Mutant: the report timer is not rescheduled.
trsync_report_event_Once(m) ==
  /\ Due(ts[m].report_time)
  /\ ts' = [ts EXCEPT ![m].report = TRUE, ![m].report_time = Never]
  /\ UNCHANGED <<now, es, shut, host_down, error, tripped, cmds, steps, resp, tdVars,
                 reader, inflight, rxq, pyVars, mainVars, lostVars>>

trsync_report_event(m) ==
  /\ Due(ts[m].report_time)
  /\ ts' = [ts EXCEPT ![m].report = TRUE,
                      ![m].report_time = Later(ts[m].report_time, ReportTicks)]
  /\ UNCHANGED <<now, es, shut, host_down, error, tripped, cmds, steps, resp, tdVars, reader,
                 inflight, rxq, pyVars, mainVars, lostVars>>

trsync_task(m) ==
  /\ ts[m].report /\ Len(resp[m]) < RespMax
  /\ ts' = [ts EXCEPT ![m].report = FALSE]
  /\ resp' = [resp EXCEPT ![m] = Append(@, State(ts[m], now, 0))]
  /\ UNCHANGED <<now, es, shut, host_down, error, tripped, cmds, steps, tdVars, reader,
                 inflight, rxq, pyVars, mainVars, lostVars>>

\* Mutant: the time of the first match is not kept.
endstop_event_NoKeep(val) ==
  /\ Due(es.wake)
  /\ LET next  == Later(es.wake, RestTicks)
         count == es.count - 1
     IN  /\ es' = IF ~val
                  THEN [es EXCEPT !.wake = next, !.over = FALSE, !.count = SampleCount]
                  ELSE IF count = 0
                  THEN [es EXCEPT !.wake = Never, !.nextwake = next]
                  ELSE [es EXCEPT !.wake = Later(@, SampleTicks), !.nextwake = next,
                                  !.over = TRUE, !.count = count]
         /\ IF val /\ count = 0
            THEN /\ ts' = [ts EXCEPT ![1] = trsync_do_trigger(@, ENDSTOP_HIT)]
                 /\ tripped' = Tripped(ts[1])
            ELSE UNCHANGED <<ts, tripped>>
  /\ UNCHANGED <<now, shut, host_down, error, cmds, steps, resp, tdVars, reader, inflight, rxq,
                 pyVars, mainVars, lostVars>>

\* endstop_event and endstop_oversample_event, the pin reads val.
endstop_event(val) ==
  /\ Due(es.wake)
  /\ LET next  == IF es.over THEN es.nextwake ELSE Later(es.wake, RestTicks)
         count == es.count - 1
     IN  /\ es' = IF ~val
                  THEN [es EXCEPT !.wake = next, !.over = FALSE, !.count = SampleCount]
                  ELSE IF count = 0
                  THEN [es EXCEPT !.wake = Never, !.nextwake = next]
                  ELSE [es EXCEPT !.wake = Later(@, SampleTicks), !.nextwake = next,
                                  !.over = TRUE, !.count = count]
         /\ IF val /\ count = 0
            THEN /\ ts' = [ts EXCEPT ![1] = trsync_do_trigger(@, ENDSTOP_HIT)]
                 /\ tripped' = Tripped(ts[1])
            ELSE UNCHANGED <<ts, tripped>>
  /\ UNCHANGED <<now, shut, host_down, error, cmds, steps, resp, tdVars, reader, inflight, rxq,
                 pyVars, mainVars, lostVars>>

\* command_trsync_trigger: the trigger, if there was none, ends the trsync.
Ended(t, reason) ==
  [trsync_do_trigger(t, reason) EXCEPT !.can_trigger = FALSE, !.report = FALSE,
                                       !.expire_time = Never, !.report_time = Never]

\* One command of the trsync queue: the handler by its name.  The serial queue
\* sends first what is required first: the reset of the stepper after one move
\* goes before the start of the next.
McuCommand(m) ==
  /\ cmds[m] # <<>> /\ ~shut[m]
  /\ cmds' = [cmds EXCEPT ![m] = Tail(@)]
  /\ LET c == Head(cmds[m])
         t == ts[m]
         Trsync(t2) == /\ ts' = [ts EXCEPT ![m] = t2]
                       /\ UNCHANGED <<es, error, tripped, resp>>
     IN  \/ /\ c.op = "trsync_start"
            /\ \A i \in DOMAIN steps[m] : steps[m][i].op # "reset_step_clock"
            /\ Trsync([ClearedTrsync(t.stepper, c.round)
                       EXCEPT !.can_trigger = TRUE, !.report_time = Timer(c.clock)])
         \/ /\ c.op = "stepper_stop_on_trigger"
            /\ ts' = [ts EXCEPT ![m].signal = TRUE]
            /\ error' = IF t.signal THEN "signal already active" ELSE error
            /\ UNCHANGED <<es, tripped, resp>>
         \/ /\ c.op = "trsync_set_timeout"
            /\ Trsync(IF t.can_trigger THEN [t EXCEPT !.expire_time = Timer(c.clock)]
                                       ELSE t)
         \/ /\ c.op \in {"trsync_trigger", "query"}
            /\ ts' = [ts EXCEPT ![m] = Ended(t, c.clock)]
            /\ tripped' = Tripped(t)
            /\ resp' = [resp EXCEPT ![m] =
                          @ \o <<State(Ended(t, c.clock), 0, c.clock)>>
                            \o (IF c.op = "query" THEN <<Ack>> ELSE <<>>)]
            /\ UNCHANGED <<es, error>>
         \/ /\ c.op = "endstop_home"
            /\ es' = [wake |-> Timer(c.clock), nextwake |-> es.nextwake, over |-> FALSE,
                      count |-> SampleCount]
            /\ UNCHANGED <<ts, error, tripped, resp>>
         \/ /\ c.op = "endstop_off"
            /\ es' = [es EXCEPT !.wake = Never]
            /\ UNCHANGED <<ts, error, tripped, resp>>
  /\ UNCHANGED <<now, shut, host_down, steps, tdVars, reader, inflight, rxq, pyVars, mainVars,
                 lostVars>>

\* A mcu in shutdown drops its commands and acknowledges them.
McuDrop(m) ==
  /\ cmds[m] # <<>> /\ shut[m]
  /\ cmds' = [cmds EXCEPT ![m] = Tail(@)]
  /\ resp' = IF Head(cmds[m]).op = "query"
             THEN [resp EXCEPT ![m] = Append(@, Ack)] ELSE resp
  /\ UNCHANGED <<now, mcuVars, steps, tdVars, reader, inflight, rxq, pyVars, mainVars,
                 lostVars>>

\* A command of the stepper queue: queue_step or reset_step_clock.  The start
\* of the trsync and its signals go before the steps of the same homing move;
\* the first timeout, required later, need not.
McuStepper(m) ==
  /\ steps[m] # <<>>
  /\ ~\E i \in DOMAIN cmds[m] :
         /\ cmds[m][i].op \in {"trsync_start", "stepper_stop_on_trigger"}
         /\ cmds[m][i].round <= Head(steps[m]).round
  /\ steps' = [steps EXCEPT ![m] = Tail(@)]
  /\ LET st == ts[m].stepper
     IN  IF shut[m] THEN UNCHANGED <<ts, error>>
         ELSE IF Head(steps[m]).op = "queue_step"
         THEN /\ ts' = [ts EXCEPT ![m].stepper = IF st = "need_reset" THEN st
                                                 ELSE "moving"]
              /\ UNCHANGED error
         ELSE /\ ts' = [ts EXCEPT ![m].stepper = "ready"]
              /\ error' = IF st = "moving" THEN "stepper active" ELSE error
  /\ UNCHANGED <<now, es, shut, host_down, tripped, cmds, resp, tdVars, reader, inflight, rxq,
                 pyVars, mainVars, lostVars>>

\* sched_shutdown: trsync_shutdown, stepper_shutdown, and every timer removed.
McuShutdown(m) ==
  /\ ~shut[m] /\ (host_down \/ Cardinality({j \in Mcus : shut[j]}) < MaxShutdowns)
  /\ shut' = [shut EXCEPT ![m] = TRUE]
  /\ ts' = [ts EXCEPT ![m] = ClearedTrsync("need_reset", ts[m].round)]
  /\ es' = IF m = 1 THEN [es EXCEPT !.wake = Never] ELSE es
  /\ UNCHANGED <<now, host_down, tripped, error, cmds, steps, resp, tdVars, reader, inflight,
                 rxq, pyVars, mainVars, lostVars>>

-----------------------------------------------------------------------------
(***************************************************************************)
(* trdispatch, in the background thread of each serial port.               *)
(***************************************************************************)

\* handle_message: the message is queued for Python, and Python may handle it
\* before the fastreader does.
handle_message(m) ==
  /\ resp[m] # <<>> /\ inflight[m] = None /\ Len(rxq[m]) < RespMax
  /\ resp' = [resp EXCEPT ![m] = Tail(@)]
  /\ rxq' = [rxq EXCEPT ![m] = Append(@, Head(resp[m]))]
  /\ inflight' = [inflight EXCEPT ![m] = IF reader[m] /\ Head(resp[m]) # Ack
                                         THEN Head(resp[m]) ELSE None]
  /\ UNCHANGED <<now, mcuVars, cmds, steps, tdVars, reader, pyVars, mainVars, lostVars>>

\* The time up to which all mcus but m are known to work: the least time in
\* the list, or for the mcu that has the least one the least of the others.
Least(status, S) == CHOOSE t \in {status[j] : j \in S} : \A j \in S : t <= status[j]
\* Mutant: the mcu's own reports extend its timeout.
StatusTimeOwn(status, m) == status[m]
StatusTime(status, m) ==
  LET min_time == Least(status, Mcus)
      min_tdm  == CHOOSE j \in Mcus : /\ status[j] = min_time
                                      /\ \A i \in 1..(j - 1) : status[i] > min_time
      next_min == IF N = 1 THEN min_time ELSE Least(status, Mcus \ {min_tdm})
  IN  IF m = min_tdm THEN next_min ELSE min_time

handle_trsync_state(m) ==
  /\ inflight[m] # None
  /\ inflight' = [inflight EXCEPT ![m] = None]
  /\ \/ /\ ~td_can_trigger
        /\ UNCHANGED <<tdVars, cmds>>
     \/ /\ td_can_trigger /\ ~inflight[m].can_trigger
        /\ td_can_trigger' = FALSE
        /\ cmds' = [j \in Mcus |-> Append(cmds[j], Trigger(HOST_REQUEST))]
        /\ UNCHANGED <<is_active, last_status, expire_clock>>
     \/ /\ td_can_trigger /\ inflight[m].can_trigger
        /\ last_status' = [last_status EXCEPT ![m] = inflight[m].clock]
        /\ LET expire == [j \in Mcus |-> StatusTime(last_status', j) + ExpireTicks]
               Extend(j) == expire[j] - expire_clock[j] >= MinExtend
           IN  /\ expire_clock' = [j \in Mcus |-> IF Extend(j) THEN expire[j]
                                                  ELSE expire_clock[j]]
               /\ cmds' = [j \in Mcus |-> IF Extend(j)
                                          THEN Append(cmds[j], Cmd("trsync_set_timeout", expire[j], round))
                                          ELSE cmds[j]]
        /\ UNCHANGED <<is_active, td_can_trigger>>
  /\ UNCHANGED <<now, mcuVars, steps, resp, reader, rxq, pyVars, mainVars, lostVars>>

-----------------------------------------------------------------------------
(***************************************************************************)
(* The reader thread of each serial port, in Python.                       *)
(***************************************************************************)

\* _handle_trsync_state while homing, handle_callback of SerialRetryCommand
\* during stop(); a message nobody registered for is dropped.
ReaderThread(m) ==
  /\ rxq[m] # <<>> /\ ~sending[m]
  /\ rxq' = [rxq EXCEPT ![m] = Tail(@)]
  /\ LET msg  == Head(rxq[m])
         past == /\ m = 1 /\ home_end # Never
                 /\ msg # Ack /\ msg.can_trigger /\ msg.clock >= home_end
         done == msg # Ack /\ ~msg.can_trigger /\ tcomp[m]
     IN  /\ acked' = (acked \/ msg = Ack)
         /\ last_params' = IF msg # Ack /\ handler[m] = "query" THEN msg ELSE last_params
         /\ IF msg # Ack /\ handler[m] = "state"
            THEN /\ tcomp' = [tcomp EXCEPT ![m] = @ /\ ~done]
                 /\ completion' = (completion \/ done)
                 /\ home_end' = IF past THEN Never ELSE home_end
                 /\ sending' = [sending EXCEPT ![m] = past]
            ELSE UNCHANGED <<tcomp, completion, home_end, sending>>
  /\ UNCHANGED <<now, mcuVars, cmds, steps, resp, tdVars, reader, inflight, handler,
                 mainVars, lostVars>>

\* ... and its trigger when the move is over.  The main thread may run between.
ReaderSend(m) ==
  /\ sending[m]
  /\ sending' = [sending EXCEPT ![m] = FALSE]
  /\ cmds' = [cmds EXCEPT ![m] = Append(@, Trigger(PAST_END_TIME))]
  /\ UNCHANGED <<now, mcuVars, steps, resp, tdVars, reader, inflight, rxq, handler,
                 completion, tcomp, home_end, last_params, acked, mainVars, lostVars>>

-----------------------------------------------------------------------------
(***************************************************************************)
(* The main thread: home_start, the drip move, home_wait.                  *)
(***************************************************************************)

Goto(p, i) == pc' = p /\ k' = i
\* The next of the list of trsyncs, or on to the next part.
NextTrsync(p, next) == IF k < N THEN Goto(p, k + 1) ELSE Goto(next, 1)

\* home_start up to trdispatch_start: MCU_trsync.start, with
\* trdispatch_mcu_setup, for each trsync.  No thread reads what it sets before
\* the fastreaders are there, and the lines may delay any of the commands.
HomeStart ==
  /\ pc = "idle" /\ round < MaxRounds /\ ~host_down
  /\ Goto("dispatch", 1) /\ round' = round + 1
  /\ \E lead \in 0..MaxLead : start_clock' = now + lead
  /\ completion' = FALSE /\ tripped' = Never
  /\ tcomp' = [m \in Mcus |-> TRUE] /\ home_end' = Never
  /\ last_status' = [m \in Mcus |-> start_clock']
  /\ expire_clock' = [m \in Mcus |-> start_clock' + ExpireTicks]
  /\ handler' = [m \in Mcus |-> "state"]
  /\ cmds' = [m \in Mcus |-> cmds[m]
                \o <<Cmd("trsync_start", start_clock', round')>>
                \o (IF m \in Steppers THEN <<Cmd("stepper_stop_on_trigger", 0, round')>>
                                      ELSE <<>>)
                \o <<Cmd("trsync_set_timeout", start_clock' + ExpireTicks, round')>>]
  /\ UNCHANGED <<now, ts, es, shut, host_down, error, steps, resp, is_active,
                 td_can_trigger, reader, inflight, rxq, sending, last_params, acked,
                 retries, res, result, lostVars>>

\* trdispatch_start, and serialqueue_add_fastreader of each mcu.
trdispatch_start ==
  /\ pc = "dispatch" /\ Goto("endstop", 1)
  /\ is_active' = TRUE
  /\ td_can_trigger' = (td_can_trigger \/ ~is_active)
  /\ reader' = [m \in Mcus |-> TRUE]
  /\ UNCHANGED <<now, mcuVars, cmds, steps, resp, last_status, expire_clock, inflight,
                 rxq, pyVars, round, start_clock, retries, res, result, lostVars>>

\* The end of home_start, then drip_move begins.
EndstopHome ==
  /\ pc = "endstop" /\ Goto("drip", 1)
  /\ cmds' = [cmds EXCEPT ![1] = Append(@, Cmd("endstop_home", start_clock, round))]
  /\ UNCHANGED <<now, mcuVars, steps, resp, tdVars, reader, inflight, rxq, pyVars, round,
                 start_clock, retries, res, result, lostVars>>

\* _update_drip_move_time: another segment, unless the completion is done.
DripSegment(m) ==
  /\ pc = "drip" /\ ~completion /\ m \in Steppers
  /\ Cardinality({i \in DOMAIN steps[m] : steps[m][i].op = "queue_step"}) < MaxMoves
  /\ steps' = [steps EXCEPT ![m] = Append(@, [op |-> "queue_step", round |-> round])]
  /\ UNCHANGED <<now, mcuVars, cmds, resp, tdVars, reader, inflight, rxq, pyVars,
                 mainVars, lostVars>>

\* home_wait: set_home_end_time, then the wait for the completion.  A move that
\* the completion cut short ends earlier.
HomeWait ==
  /\ pc = "drip" /\ Goto("wait", 1)
  /\ \E ticks \in {0, HomeTicks} : /\ ticks = HomeTicks \/ completion
                                  /\ home_end' = start_clock + ticks
  /\ UNCHANGED <<now, mcuVars, cmds, steps, resp, tdVars, reader, inflight, rxq, handler,
                 sending, completion, tcomp, last_params, acked, round, start_clock,
                 retries, res, result, lostVars>>

\* The completion is done: endstop checks off, trdispatch_stop.
trdispatch_stop ==
  /\ pc = "wait" /\ completion
  /\ Goto(IF is_active THEN "unread" ELSE "stop", 1)
  /\ is_active' = FALSE
  /\ cmds' = [cmds EXCEPT ![1] = Append(@, Cmd("endstop_off", 0, round))]
  /\ UNCHANGED <<now, mcuVars, steps, resp, td_can_trigger, last_status, expire_clock,
                 reader, inflight, rxq, pyVars, round, start_clock, retries, res, result,
                 lostVars>>

\* Mutant: no wait for a callback that still runs.
serialqueue_rm_fastreader_NoLock ==
  /\ pc = "unread" /\ NextTrsync("unread", "stop")
  /\ reader' = [reader EXCEPT ![k] = FALSE]
  /\ UNCHANGED <<now, mcuVars, cmds, steps, resp, tdVars, inflight, rxq, pyVars, round,
                 start_clock, retries, res, result, lostVars>>

\* The lock waits for a callback that still runs.
serialqueue_rm_fastreader ==
  /\ pc = "unread" /\ inflight[k] = None /\ NextTrsync("unread", "stop")
  /\ reader' = [reader EXCEPT ![k] = FALSE]
  /\ UNCHANGED <<now, mcuVars, cmds, steps, resp, tdVars, inflight, rxq, pyVars, round,
                 start_clock, retries, res, result, lostVars>>

\* MCU_trsync.stop up to the query.
TrsyncStop ==
  /\ pc = "stop" /\ Goto("query", k)
  /\ handler' = [handler EXCEPT ![k] = "query"]
  /\ tcomp' = [tcomp EXCEPT ![k] = FALSE]
  /\ last_params' = None /\ acked' = FALSE /\ retries' = 0
  /\ cmds' = [cmds EXCEPT ![k] = Append(@, Query)]
  /\ UNCHANGED <<now, mcuVars, steps, resp, tdVars, reader, inflight, rxq, sending,
                 completion, home_end, round, start_clock, res, result, lostVars>>

\* Mutant: one retry too many.
QueryRetryMore ==
  /\ pc = "query" /\ acked /\ last_params = None
  /\ \/ /\ retries <= MaxRetries /\ retries' = retries + 1 /\ acked' = FALSE
        /\ cmds' = [cmds EXCEPT ![k] = Append(@, Query)]
        /\ UNCHANGED <<pc, k, handler>>
     \/ /\ retries > MaxRetries /\ Goto("failed", k)
        /\ handler' = [handler EXCEPT ![k] = "none"]
        /\ UNCHANGED <<retries, acked, cmds>>
  /\ UNCHANGED <<now, mcuVars, steps, resp, tdVars, reader, inflight, rxq, sending,
                 completion, tcomp, home_end, last_params, round, start_clock, res,
                 result, lostVars>>

\* get_response: the query is acknowledged, but no answer was seen.
QueryRetry ==
  /\ pc = "query" /\ acked /\ last_params = None
  /\ \/ /\ retries < MaxRetries /\ retries' = retries + 1 /\ acked' = FALSE
        /\ cmds' = [cmds EXCEPT ![k] = Append(@, Query)]
        /\ UNCHANGED <<pc, k, handler>>
     \/ /\ retries >= MaxRetries /\ Goto("failed", k)
        /\ handler' = [handler EXCEPT ![k] = "none"]
        /\ UNCHANGED <<retries, acked, cmds>>
  /\ UNCHANGED <<now, mcuVars, steps, resp, tdVars, reader, inflight, rxq, sending,
                 completion, tcomp, home_end, last_params, round, start_clock, res,
                 result, lostVars>>

\* Mutant: the first report is taken for the answer.
QueryAnswerFirst ==
  /\ pc = "query" /\ last_params # None
  /\ NextTrsync("stop", "result")
  /\ handler' = [handler EXCEPT ![k] = "none"]
  /\ res' = [res EXCEPT ![k] = last_params.trigger_reason]
  /\ steps' = IF k \in Steppers
              THEN [steps EXCEPT ![k] = Append(@, [op |-> "reset_step_clock", round |-> round])]
              ELSE steps
  /\ UNCHANGED <<now, mcuVars, cmds, resp, tdVars, reader, inflight, rxq, sending,
                 completion, tcomp, home_end, last_params, acked, round, start_clock,
                 retries, result, lostVars>>

\* The answer: note_homing_end resets the stepper, then the next trsync.
QueryAnswer ==
  /\ pc = "query" /\ acked /\ last_params # None
  /\ NextTrsync("stop", "result")
  /\ handler' = [handler EXCEPT ![k] = "none"]
  /\ res' = [res EXCEPT ![k] = last_params.trigger_reason]
  /\ steps' = IF k \in Steppers
              THEN [steps EXCEPT ![k] = Append(@, [op |-> "reset_step_clock", round |-> round])]
              ELSE steps
  /\ UNCHANGED <<now, mcuVars, cmds, resp, tdVars, reader, inflight, rxq, sending,
                 completion, tcomp, home_end, last_params, acked, round, start_clock,
                 retries, result, lostVars>>

\* What home_wait returns, with the time of the trigger.
HomeResult ==
  /\ pc = "result" /\ Goto("idle", 1)
  /\ result' = CASE \E m \in Mcus : res[m] = COMMS_TIMEOUT -> [is |-> "timeout", at |-> 0]
               []   \A m \in Mcus : res[m] # COMMS_TIMEOUT ->
                      IF res[1] # ENDSTOP_HIT THEN [is |-> "no trigger", at |-> 0]
                      ELSE [is |-> "hit", at |-> es.nextwake - RestTicks]
  /\ UNCHANGED <<now, mcuVars, cmds, steps, resp, tdVars, reader, inflight, rxq, pyVars,
                 round, start_clock, retries, res, lostVars>>

\* klippy:shutdown: every trsync completes, every mcu gets emergency_stop.
HostShutdown ==
  /\ ~host_down /\ \E m \in Mcus : shut[m]
  /\ host_down' = TRUE
  /\ completion' = (completion \/ \E m \in Mcus : tcomp[m])
  /\ tcomp' = [m \in Mcus |-> FALSE]
  /\ UNCHANGED <<now, ts, es, shut, tripped, error, cmds, steps, resp, tdVars, reader,
                 inflight, rxq, handler, sending, home_end, last_params, acked, mainVars,
                 lostVars>>

-----------------------------------------------------------------------------
(***************************************************************************)
(* The lines and the clock.                                                *)
(***************************************************************************)

\* A response is not resent: sendf drops it when its buffer is full, and a
\* damaged block is skipped by the host.
LoseResponse(m) ==
  /\ resp[m] # <<>> /\ Head(resp[m]) # Ack /\ lost < MaxLost
  /\ resp' = [resp EXCEPT ![m] = Tail(@)]
  /\ lost' = lost + 1
  /\ end_lost' = (end_lost \/ Head(resp[m]).cause = PAST_END_TIME)
  /\ UNCHANGED <<now, mcuVars, cmds, steps, tdVars, reader, inflight, rxq, pyVars,
                 mainVars>>

\* The timer interrupt runs every timer that is due before time goes on.
Tick ==
  /\ now < MaxTime
  /\ ~Due(es.wake)
  /\ \A m \in Mcus : ~Due(ts[m].expire_time) /\ ~Due(ts[m].report_time)
  /\ now' = now + 1
  /\ UNCHANGED <<mcuVars, cmds, steps, resp, tdVars, reader, inflight, rxq, pyVars,
                 mainVars, lostVars>>

Init ==
  /\ now = 0 /\ lost = 0 /\ end_lost = FALSE /\ tripped = Never /\ error = "none"
  /\ ts = [m \in Mcus |-> ClearedTrsync("ready", 0)]
  /\ es = [wake |-> Never, nextwake |-> 0, over |-> FALSE, count |-> 0]
  /\ shut = [m \in Mcus |-> FALSE] /\ host_down = FALSE
  /\ cmds = [m \in Mcus |-> <<>>] /\ steps = [m \in Mcus |-> <<>>]
  /\ resp = [m \in Mcus |-> <<>>] /\ rxq = [m \in Mcus |-> <<>>]
  /\ is_active = FALSE /\ td_can_trigger = FALSE
  /\ last_status = [m \in Mcus |-> 0] /\ expire_clock = [m \in Mcus |-> 0]
  /\ reader = [m \in Mcus |-> FALSE] /\ inflight = [m \in Mcus |-> None]
  /\ handler = [m \in Mcus |-> "none"] /\ sending = [m \in Mcus |-> FALSE]
  /\ completion = FALSE /\ tcomp = [m \in Mcus |-> FALSE] /\ home_end = Never
  /\ last_params = None /\ acked = FALSE
  /\ pc = "idle" /\ k = 1 /\ round = 0 /\ start_clock = 0 /\ retries = 0
  /\ res = [m \in Mcus |-> 0] /\ result = [is |-> "none", at |-> 0]

Mcu(m) == \/ trsync_expire_event(m) \/ trsync_report_event(m) \/ trsync_task(m)
          \/ McuCommand(m) \/ McuDrop(m) \/ McuStepper(m)
Port(m) == handle_message(m) \/ handle_trsync_state(m) \/ ReaderThread(m) \/ ReaderSend(m)
Main == \/ trdispatch_start \/ EndstopHome \/ HomeWait \/ trdispatch_stop \/ serialqueue_rm_fastreader
        \/ TrsyncStop \/ QueryRetry \/ QueryAnswer \/ HomeResult

Next == \/ \E m \in Mcus : \/ Mcu(m) \/ Port(m) \/ McuShutdown(m) \/ DripSegment(m)
                           \/ LoseResponse(m)
        \/ \E val \in BOOLEAN : endstop_event(val)
        \/ HomeStart \/ Main \/ HostShutdown \/ Tick

Spec == Init /\ [][Next]_vars

\* The scheduler of the mcu, the threads of the host and the lines go on.  No
\* fairness is asked of the endstop, of the timeout or of a shutdown.
Fairness ==
  /\ \A m \in Mcus : /\ WF_vars(trsync_report_event(m)) /\ WF_vars(trsync_task(m))
                     /\ WF_vars(McuCommand(m)) /\ WF_vars(McuDrop(m))
                     /\ WF_vars(McuStepper(m))
                     /\ WF_vars(handle_message(m)) /\ WF_vars(handle_trsync_state(m))
                     /\ WF_vars(ReaderThread(m)) /\ WF_vars(ReaderSend(m))
  /\ WF_vars(Main) /\ WF_vars(HostShutdown)
FairSpec == Spec /\ Fairness

-----------------------------------------------------------------------------
Message == [kind : {"trsync_state"}, can_trigger : BOOLEAN, trigger_reason : 0..4,
            clock : Nat, round : Nat, cause : 0..4]
Command == [op : {"trsync_start", "stepper_stop_on_trigger", "trsync_set_timeout",
                  "trsync_trigger", "query", "endstop_home", "endstop_off"},
            clock : Nat, round : Nat]

\* Types of the state.
TypeOK ==
  /\ now \in 0..MaxTime
  /\ ts \in [Mcus -> [can_trigger : BOOLEAN, report : BOOLEAN, trigger_reason : 0..4,
                      expire_time : Nat \cup {Never}, report_time : Nat \cup {Never},
                      signal : BOOLEAN, stepper : {"ready", "moving", "need_reset"},
                      round : Nat]]
  /\ es \in [wake : Nat \cup {Never}, nextwake : Nat, over : BOOLEAN, count : Nat]
  /\ shut \in [Mcus -> BOOLEAN] /\ host_down \in BOOLEAN
  /\ cmds \in [Mcus -> Seq(Command)]
  /\ steps \in [Mcus -> Seq([op : {"queue_step", "reset_step_clock"}, round : Nat])]
  /\ resp \in [Mcus -> Seq(Message \cup {Ack})] /\ rxq \in [Mcus -> Seq(Message \cup {Ack})]
  /\ is_active \in BOOLEAN /\ td_can_trigger \in BOOLEAN
  /\ last_status \in [Mcus -> Nat] /\ expire_clock \in [Mcus -> Nat]
  /\ reader \in [Mcus -> BOOLEAN] /\ inflight \in [Mcus -> Message \cup {None}]
  /\ handler \in [Mcus -> {"none", "state", "query"}] /\ sending \in [Mcus -> BOOLEAN]
  /\ completion \in BOOLEAN /\ tcomp \in [Mcus -> BOOLEAN]
  /\ home_end \in Nat \cup {Never}
  /\ last_params \in Message \cup {None} /\ acked \in BOOLEAN
  /\ pc \in {"idle", "dispatch", "endstop", "drip", "wait", "unread",
             "stop", "query", "result", "failed"}
  /\ k \in Mcus /\ round \in Nat /\ start_clock \in Nat /\ retries \in 0..MaxRetries
  /\ res \in [Mcus -> 0..4]
  /\ result \in [is : {"none", "timeout", "no trigger", "hit"}, at : Int]
  /\ lost \in 0..MaxLost /\ end_lost \in BOOLEAN /\ tripped \in Nat \cup {Never} /\ error \in STRING

\* The time by which a stepper has to stop once the first mcu triggered.
Deadline == Larger(tripped, start_clock) + ExpireTicks

\* A stepper stops at most one timeout after the first trigger of the move, on
\* whatever mcu that was and however long the host and the lines are stalled:
\* trdispatch extends the timeout of a mcu only up to what all others reported.
\* It says nothing of a mcu that has not received its first timeout.  A timeout
\* that is due stops the stepper before time goes on.
StopsInTime ==
  \A m \in Mcus :
    /\ ts[m].stepper = "moving" /\ ts[m].expire_time # Never /\ ts[m].can_trigger
    /\ tripped # Never
    => now <= Deadline \/ Due(ts[m].expire_time)

\* When home_wait returns every stepper is stopped, no trsync can trigger, and
\* the reasons it got are the reasons for which the mcus stopped: no answer to
\* an earlier command is taken for the answer to the query of stop().
ResultIsTrue ==
  pc = "result" =>
    \A m \in Mcus : ~shut[m] => /\ ts[m].stepper # "moving" /\ ~ts[m].can_trigger
                                /\ res[m] = ts[m].trigger_reason /\ res[m] # 0

\* The time a successful homing move reports is the time of the first of the
\* samples that made the endstop trigger.
HitTime ==
  result.is = "hit" /\ pc = "idle" /\ now < MaxTime =>
    result.at = tripped - (SampleCount - 1) * SampleTicks

\* The mcu never meets "Can't add signal that is already active", nor "Can't
\* reset time when stepper active": home_start finds every trsync and stepper
\* at rest.
NoProtocolError == error = "none"

\* trdispatch and the completion act on reports of their own homing move only:
\* home_wait leaves no earlier one behind.  The exception is the answer to the
\* trigger a reader thread decided on just before the main thread called stop().
NoStaleReport ==
  \A m \in Mcus : td_can_trigger /\ inflight[m] # None
                  => inflight[m].round = round \/ inflight[m].cause = PAST_END_TIME

\* home_wait returns, or fails with an error: a report that is lost is repeated
\* by the report timer, an answer by the retries of the query, and a shutdown
\* completes the wait.  It leaves out the one response that nothing repeats, the
\* answer to the trigger at the end of the move.
HomeWaitRecovers == pc = "wait" ~> (pc \in {"idle", "failed"} \/ end_lost)

\* docs/Protocol.md: the high-level code handles an occasional missing response.
\* So home_wait returns whatever response is lost.
HomeWaitReturns == pc = "wait" ~> pc \in {"idle", "failed"}
=============================================================================
