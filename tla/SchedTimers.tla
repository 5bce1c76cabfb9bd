---------------------------- MODULE SchedTimers ----------------------------
(***************************************************************************)
(* The timers of the micro-controller: the timer list of sched.c and the   *)
(* interrupt that runs it (timer_dispatch_many).  The clock and all wake   *)
(* times wrap.                                                             *)
(*                                                                         *)
(* Tasks add and delete timers with interrupts disabled, so each is one    *)
(* step.  The interrupt runs the head of the list without looking at the   *)
(* time: a kick makes it run at once, and a head that was deleted is       *)
(* replaced by deleted_timer for the interrupt that is already set.        *)
(***************************************************************************)
EXTENDS Integers, Sequences, SequencesExt

CONSTANTS Users,         \* the timers of the commands
          ClockMod,      \* values of the clock, 2^32 in the code
          PeriodTicks,   \* timer_from_us(100000)
          CloseTicks,    \* timer_from_us(2) of sched_add_timer
          MinTryTicks,   \* TIMER_MIN_TRY_TICKS
          DeferTicks,    \* TIMER_DEFER_REPEAT_TICKS
          PastTicks,     \* timer_from_us(1000)
          MaxPast,       \* bound: a timer is added at most this late
          MaxAhead,      \* bound: and set at most this far ahead
          MaxLate        \* bound: ticks by which a timer may be late

ASSUME ClockAssumption == ClockMod \in Nat /\ ClockMod % 2 = 0 /\ ClockMod > 0
ASSUME RangeAssumption ==
  \A t \in {PeriodTicks, CloseTicks, MinTryTicks, DeferTicks, PastTicks, MaxPast, MaxAhead} :
     t \in Nat /\ t < ClockMod \div 2

VARIABLES
  now,          \* timer_read_time
  list,         \* timer_list, head first
  wake,         \* waketime of each timer of the list, 0 for the others
  last_insert,
  hw,           \* time for which the hardware interrupt is set
  irq,          \* timer_dispatch_many: "idle", about to run the head ("fire"),
                \* or waiting for the head to be due ("wait")
  late,         \* ticks by which sections without interrupts, slow callbacks and
                \* timers added too late put off a timer that is due
  active,       \* history: timers added and neither done nor deleted
  pushed        \* history: a timer added too late was put before the others

vars == <<now, list, wake, last_insert, hw, irq, late, active, pushed>>

periodic_timer == "periodic_timer"
sentinel_timer == "sentinel_timer"
deleted_timer  == "deleted_timer"
None   == "none"
Timers == Users \cup {periodic_timer, sentinel_timer, deleted_timer}

timer_is_before(a, b) == (a - b) % ClockMod >= ClockMod \div 2
\* The difference as a signed integer.
Diff(a, b) == IF timer_is_before(a, b) THEN ((a - b) % ClockMod) - ClockMod
              ELSE (a - b) % ClockMod
\* Mutant: a sum of more than 32 bits.
PlusWide(t, d) == t + d
Plus(t, d) == (t + d) % ClockMod
\* Nothing reads the waketime of a timer that is not in the list.
Forget(w, S) == [t \in Timers |-> IF t \in S THEN 0 ELSE w[t]]

-----------------------------------------------------------------------------
\* insert_timer: t goes before the first timer behind pos that wakes later.  If
\* pos is not in the list, or no such timer is there, t is lost.
insert_timer(l, pos, t, w) ==
  LET start == {i \in DOMAIN l : l[i] = pos}
      later == {j \in DOMAIN l : /\ \E i \in start : i < j
                                 /\ timer_is_before(w[t], w[l[j]])}
  IN  IF later = {} THEN l
      ELSE InsertAt(l, CHOOSE j \in later : \A i \in later : j <= i, t)

\* A task or command handler sets the timer of one of its objects.
sched_add_timer(u, waketime) ==
  /\ irq = "idle" /\ u \notin active
  /\ LET tl     == Head(list)
         first  == timer_is_before(waketime, wake[tl])
         past   == first /\ timer_is_before(waketime, now)
         actual == IF past THEN Plus(now, CloseTicks) ELSE waketime
         w      == [wake EXCEPT ![u] = actual]
     IN  /\ late' = IF past THEN late + CloseTicks ELSE late
         /\ late' <= MaxLate
         /\ pushed' = (pushed \/ past)
         /\ IF first
            THEN /\ list' = <<deleted_timer, u>>
                              \o (IF tl = deleted_timer THEN Tail(list) ELSE list)
                 /\ wake' = [w EXCEPT ![deleted_timer] = actual]
                 /\ hw' = now
            ELSE /\ list' = insert_timer(list, tl, u, w)
                 /\ wake' = w
                 /\ UNCHANGED hw
  /\ active' = active \cup {u}
  /\ UNCHANGED <<now, last_insert, irq>>

\* Mutant: the head is taken off like any other timer.
DeletedHead(l, w, u) == [list |-> SelectSeq(l, LAMBDA t : t # u), wake |-> Forget(w, {u})]
\* Mutant: last_insert may point to the timer that is removed.
DeletedInsertKept(last, u) == last

\* The list and wake times after sched_del_timer(u).
Deleted(l, w, u) ==
  IF Head(l) = u
  THEN [list |-> <<deleted_timer>> \o Tail(l), wake |-> [w EXCEPT ![deleted_timer] = w[u], ![u] = 0]]
  ELSE [list |-> SelectSeq(l, LAMBDA t : t # u), wake |-> Forget(w, {u})]
DeletedInsert(last, u) == IF last = u THEN periodic_timer ELSE last

sched_del_timer(u) ==
  /\ irq = "idle"
  /\ list' = Deleted(list, wake, u).list
  /\ wake' = Deleted(list, wake, u).wake
  /\ last_insert' = DeletedInsert(last_insert, u)
  /\ active' = active \ {u}
  /\ UNCHANGED <<now, hw, irq, late, pushed>>

-----------------------------------------------------------------------------
\* The callback of t: what it returns, the wake times it sets, and the timer of
\* a stepper that it stops.  The sentinel's shuts down; Next leaves it out.
DeletedEvent(t, w) == [done |-> TRUE, wake |-> w]
PeriodicEvent(t, w) ==
  LET next == Plus(w[t], PeriodTicks)
  IN  [done |-> FALSE,
       wake |-> [w EXCEPT ![t] = next, ![sentinel_timer] = Plus(next, ClockMod \div 2)]]
Callbacks(t, w) ==
  CASE t = deleted_timer  -> {DeletedEvent(t, w)}
  []   t = periodic_timer -> {PeriodicEvent(t, w)}
  []   t \in Users        -> {[done |-> TRUE, wake |-> w]} \cup
                             {[done |-> FALSE, wake |-> [w EXCEPT ![t] = Plus(@, d)]]
                                : d \in {1, MaxAhead}}
  []   t = sentinel_timer -> {}

\* Mutant: an entry that is done stays behind as last_insert.
DoneInsertKept(last, l) == last
DoneInsert(last, l) == IF last = Head(l) THEN l[2] ELSE last

\* Mutant: a timer goes behind the last one that was inserted.
RequeuedLast(l, w, last, done) ==
  LET t   == Head(l)
      pos == IF last = t THEN l[2] ELSE last
  IN  IF done THEN [list |-> Tail(l), last |-> DoneInsert(last, l)]
      ELSE IF timer_is_before(w[t], w[l[2]]) THEN [list |-> l, last |-> last]
      ELSE [list |-> insert_timer(Tail(l), pos, t, w), last |-> t]

\* The rest of sched_timer_dispatch: the list l, with t at its head, and
\* last_insert afterwards.
Requeued(l, w, last, done) ==
  LET t   == Head(l)
      pos == IF last = t \/ timer_is_before(w[t], w[last]) THEN l[2] ELSE last
  IN  IF done THEN [list |-> Tail(l), last |-> DoneInsert(last, l)]
      ELSE IF timer_is_before(w[t], w[l[2]]) THEN [list |-> l, last |-> last]
      ELSE [list |-> insert_timer(Tail(l), pos, t, w), last |-> t]

\* No timer is overdue.
CaughtUp(l, w) ==
  \A i \in DOMAIN l : l[i] # sentinel_timer => timer_is_before(now, w[l[i]])

\* One turn of timer_dispatch_many: the head runs, then the interrupt is set
\* for the next timer, or put off when too many ran, or the loop goes on.
sched_timer_dispatch ==
  /\ \/ irq = "fire"
     \/ irq = "wait" /\ ~timer_is_before(now, wake[Head(list)])
  /\ LET t == Head(list)
     IN  \E cb \in Callbacks(t, wake) :
         \E stop \in {None} \cup (IF t \in Users THEN Users \ {t} ELSE {}) :
           LET l    == IF stop = None THEN list ELSE Deleted(list, cb.wake, stop).list
               last == IF stop = None THEN last_insert ELSE DeletedInsert(last_insert, stop)
               new  == Requeued(l, cb.wake, last, cb.done)
               diff == Diff(cb.wake[Head(new.list)], now)
           IN  /\ list' = new.list /\ last_insert' = new.last
               /\ wake' = Forget(cb.wake, {stop} \cup (IF cb.done THEN {t} ELSE {}))
               /\ active' = active \ ({stop} \cup (IF cb.done THEN {t} ELSE {}))
               /\ \/ /\ diff > MinTryTicks
                     /\ irq' = "idle" /\ hw' = wake'[Head(list')]
                     /\ late' = IF CaughtUp(list', wake') THEN 0 ELSE late
                  \/ /\ diff <= MinTryTicks /\ diff >= -PastTicks
                     /\ irq' = "idle" /\ hw' = Plus(now, DeferTicks)
                     /\ late' = late + DeferTicks /\ late' <= MaxLate
                  \/ /\ diff <= MinTryTicks
                     /\ irq' = "wait" /\ UNCHANGED <<hw, late>>
  /\ UNCHANGED <<now, pushed>>

\* SysTick_Handler: the interrupt for which hw was set.
SysTick ==
  /\ irq = "idle" /\ ~timer_is_before(now, hw)
  /\ irq' = "fire"
  /\ UNCHANGED <<now, list, wake, last_insert, hw, late, active, pushed>>

\* A shutdown, in a task or in the interrupt, also of a timer far in the past.
sched_timer_reset ==
  /\ list' = <<deleted_timer, periodic_timer, sentinel_timer>>
  /\ wake' = [Forget(wake, Users) EXCEPT ![deleted_timer] = wake[periodic_timer]]
  /\ last_insert' = periodic_timer
  /\ hw' = now /\ irq' = "idle" /\ active' = {} /\ pushed' = FALSE
  /\ UNCHANGED <<now, late>>

\* Time goes on.
Tick ==
  /\ IF \/ irq = "idle" /\ timer_is_before(now, hw)
        \/ irq = "wait" /\ timer_is_before(now, wake[Head(list)])
     THEN UNCHANGED late
     ELSE late < MaxLate /\ late' = late + 1
  /\ now' = Plus(now, 1)
  /\ UNCHANGED <<list, wake, last_insert, hw, irq, active, pushed>>

Init ==
  /\ now = 0 /\ hw = 0 /\ irq = "idle" /\ late = 0 /\ active = {} /\ pushed = FALSE
  /\ list = <<periodic_timer, sentinel_timer>> /\ last_insert = periodic_timer
  /\ wake = [t \in Timers |-> IF t = sentinel_timer THEN ClockMod \div 2 ELSE 0]

Next ==
  \/ \E u \in Users : \/ sched_del_timer(u)
                      \/ \E d \in -MaxPast..MaxAhead : sched_add_timer(u, Plus(now, d))
  \/ sched_timer_dispatch \/ SysTick \/ sched_timer_reset \/ Tick

Spec == Init /\ [][Next]_vars

-----------------------------------------------------------------------------
\* Types of the state.
TypeOK ==
  /\ now \in 0..(ClockMod - 1) /\ hw \in 0..(ClockMod - 1)
  /\ list \in Seq(Timers) /\ wake \in [Timers -> 0..(ClockMod - 1)]
  /\ last_insert \in Timers /\ irq \in {"idle", "fire", "wait"} /\ late \in 0..MaxLate
  /\ active \subseteq Users /\ pushed \in BOOLEAN

\* Every timer that was added is in the list, once, until it is done or deleted:
\* insert_timer starts at a timer of the list and stops at the latest at the
\* sentinel, which stays at the end while the clock wraps.
NoTimerLost ==
  /\ ToSet(list) \ {deleted_timer} = active \cup {periodic_timer, sentinel_timer}
  /\ IsInjective(list) /\ Last(list) = sentinel_timer
  /\ last_insert \in ToSet(list) \ {deleted_timer, sentinel_timer}

\* No callback runs before its time: the interrupt of a kick, or of a timer
\* that was deleted meanwhile, finds deleted_timer at the head.
NeverEarly ==
  irq = "fire" => Head(list) = deleted_timer \/ ~timer_is_before(now, wake[Head(list)])

\* The list is sorted over the wrap of the clock, as the interrupt that is set
\* for its head needs, as long as no timer is added too late: sched_add_timer
\* puts such a timer first and gives it a time after that of others.
SortedUnlessPushed ==
  ~pushed => \A j \in DOMAIN list : \A i \in 1..(j - 1) :
    list[j] # sentinel_timer => ~timer_is_before(wake[list[j]], wake[list[i]])
=============================================================================
