---------------------------- MODULE PollSchedule ----------------------------
(***************************************************************************)
(* What the refresh scheduler promises, without goroutines, cycles, locks  *)
(* or timers: each module is polled on its own, never before it is due;    *)
(* after a success it is due one interval later, after a failure between   *)
(* one and Interval later, or later still when the server asked for it.    *)
(***************************************************************************)
EXTENDS Integers

CONSTANTS
  Modules,   \* the modules polled
  Interval,  \* time between polls of a healthy module
  Demands    \* delays a server may ask for (Retry-After)

VARIABLES
  now,   \* the time
  busy,  \* modules being polled
  due    \* the time before which a module is not polled again, 0 if none

scheduleVars == <<now, busy, due>>

ScheduleInit ==
  /\ now = 1
  /\ busy = {}
  /\ due = [m \in Modules |-> 0]

Pass ==
  /\ now' = now + 1
  /\ UNCHANGED <<busy, due>>

Poll(m) ==
  /\ m \notin busy
  /\ now >= due[m]
  /\ busy' = busy \cup {m}
  /\ due' = [due EXCEPT ![m] = 0]
  /\ UNCHANGED now

Answer(m) ==
  /\ m \in busy
  /\ busy' = busy \ {m}
  /\ \/ due' = [due EXCEPT ![m] = now + Interval]
     \/ \E wait \in 1..Interval, demand \in Demands :
          due' = [due EXCEPT ![m] = now + IF demand > wait THEN demand ELSE wait]
  /\ UNCHANGED now

ScheduleNext == Pass \/ \E m \in Modules : Poll(m) \/ Answer(m)

Spec == ScheduleInit /\ [][ScheduleNext]_scheduleVars

=============================================================================
