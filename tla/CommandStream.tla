--------------------------- MODULE CommandStream ---------------------------
(***************************************************************************)
(* What the transport promises to the code above it: the micro-controller  *)
(* runs the queued commands in order and once each, and the host forgets a *)
(* command only after it was run.                                          *)
(*                                                                         *)
(* A connection may be opened to a micro-controller that was not reset.    *)
(* The commands sent before its sequence number is known are lost (the     *)
(* caller retries them), so the log may begin with any command, but from   *)
(* there on it has no hole.                                                *)
(***************************************************************************)
EXTENDS Naturals, Sequences

VARIABLES
  queued,   \* commands queued so far: 1..queued
  log,      \* commands run by the mcu
  acked,    \* commands 1..acked are forgotten by the host
  stopped   \* the mcu is shut down: it runs nothing more

streamVars == <<queued, log, acked, stopped>>

StreamInit == queued = 0 /\ log = <<>> /\ acked = 0 /\ stopped = FALSE

Queue == /\ queued' = queued + 1
         /\ UNCHANGED <<log, acked, stopped>>

\* Run commands first..last.  One of them may shut the mcu down.
Run ==
  /\ ~stopped
  /\ \E first \in 1..queued : \E last \in (first - 1)..queued :
       /\ log # <<>> => first = log[Len(log)] + 1
       /\ log' = log \o [i \in 1..(last - first + 1) |-> first + i - 1]
  /\ stopped' \in BOOLEAN
  /\ UNCHANGED <<queued, acked>>

Stop == /\ stopped' = TRUE
        /\ UNCHANGED <<queued, log, acked>>

Acknowledge ==
  /\ \E n \in (acked + 1)..queued :
       /\ acked' = n
       /\ log # <<>> /\ ~stopped => n <= log[Len(log)]
  /\ UNCHANGED <<queued, log, stopped>>

StreamNext == Queue \/ Run \/ Stop \/ Acknowledge

StreamSpec == StreamInit /\ [][StreamNext]_streamVars
=============================================================================
