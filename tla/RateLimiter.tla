----------------------------- MODULE RateLimiter -----------------------------
(***************************************************************************)
(* The token bucket that every thread asks before it sends a request       *)
(* (src/patsquire_plr/ratelimit.py; one per backend in the gateway, one per*)
(* patent source).                                                         *)
(*                                                                         *)
(* Arithmetic is exact: a minute has Minute clock ticks, a request costs   *)
(* Minute units, and a tick refills PerMinute units, so that the code's    *)
(* capacity of requests_per_minute tokens is PerMinute * Minute units.     *)
(* Reading the clock and updating the bucket are two steps, which the lock *)
(* keeps together.                                                         *)
(***************************************************************************)
EXTENDS Integers, Absent

CONSTANTS
  Thread,
  PerMinute,  \* requests_per_minute
  Minute,     \* clock ticks in a minute (SECONDS_PER_MINUTE)
  MaxClock    \* bound on the clock

ASSUME RateAssumption ==
  /\ PerMinute \in Nat \ {0} /\ Minute \in Nat \ {0} /\ MaxClock \in Nat
  /\ None \notin Thread

Capacity == PerMinute * Minute

VARIABLES
  clock,    \* the monotonic clock
  tokens,   \* units in the bucket
  updated,  \* clock reading of the last refill
  lock,     \* thread inside the critical section
  pc,       \* where each thread is in acquire
  now,      \* the reading of the clock each thread made under the lock
  asleep,   \* [since, short]: when a thread went to sleep, and for how many units
  overtaken,\* a permit was given to another thread since this one was refused
  mark,     \* history: the start of a window of time
  granted   \* history: permits stamped within the window

bucket == <<tokens, updated>>
window == <<mark, granted>>
vars == <<clock, bucket, lock, pc, now, asleep, overtaken, window>>

Init ==
  /\ clock = 0 /\ tokens = Capacity /\ updated = 0
  /\ lock = None
  /\ pc = [t \in Thread |-> "idle"]
  /\ now = [t \in Thread |-> 0]
  /\ asleep = [t \in Thread |-> [since |-> 0, short |-> 0]]
  /\ overtaken = [t \in Thread |-> TRUE]
  /\ mark = 0 /\ granted = 0

-----------------------------------------------------------------------------
Goto(t, label) == pc' = [pc EXCEPT ![t] = label]

\* The bucket after the refill for the time since the last one, never over capacity.
Refilled(t) ==
  LET full == tokens + (now[t] - updated) * PerMinute
  IN IF full > Capacity THEN Capacity ELSE full

\* A thread calls acquire.
Acquire(t) ==
  /\ pc[t] = "idle"
  /\ Goto(t, "asking")
  /\ overtaken' = [overtaken EXCEPT ![t] = TRUE]
  /\ UNCHANGED <<clock, bucket, lock, now, asleep, window>>

\* Entering the critical section and reading the clock.
ReadClock(t) ==
  /\ pc[t] = "asking" /\ lock = None
  /\ lock' = t /\ now' = [now EXCEPT ![t] = clock]
  /\ Goto(t, "refilling")
  /\ UNCHANGED <<clock, bucket, asleep, overtaken, window>>

\* Mutation: a granted permit does not move the time of the last refill.
Grant_NoUpdate(t) ==
  /\ pc[t] = "refilling" /\ Refilled(t) >= Minute
  /\ tokens' = Refilled(t) - Minute
  /\ granted' = IF now[t] >= mark THEN granted + 1 ELSE granted
  /\ overtaken' = [u \in Thread |-> TRUE]
  /\ now' = [now EXCEPT ![t] = 0]
  /\ lock' = None /\ Goto(t, "idle")
  /\ UNCHANGED <<clock, updated, asleep, mark>>

\* The bucket holds a token: acquire returns.
Grant(t) ==
  /\ pc[t] = "refilling" /\ Refilled(t) >= Minute
  /\ tokens' = Refilled(t) - Minute /\ updated' = now[t]
  /\ granted' = IF now[t] >= mark THEN granted + 1 ELSE granted
  /\ overtaken' = [u \in Thread |-> TRUE]
  /\ now' = [now EXCEPT ![t] = 0]
  /\ lock' = None /\ Goto(t, "idle")
  /\ UNCHANGED <<clock, asleep, mark>>

\* It does not: the thread sleeps for the time the missing units need.
Refuse(t) ==
  /\ pc[t] = "refilling" /\ Refilled(t) < Minute
  /\ tokens' = Refilled(t) /\ updated' = now[t]
  /\ asleep' = [asleep EXCEPT ![t] = [since |-> clock, short |-> Minute - Refilled(t)]]
  /\ overtaken' = [overtaken EXCEPT ![t] = FALSE]
  /\ now' = [now EXCEPT ![t] = 0]
  /\ lock' = None /\ Goto(t, "sleeping")
  /\ UNCHANGED <<clock, window>>

\* Mutation: the sleep may be cut short.
Wake_Early(t) ==
  /\ pc[t] = "sleeping"
  /\ asleep' = [asleep EXCEPT ![t] = [since |-> 0, short |-> 0]]
  /\ Goto(t, "asking")
  /\ UNCHANGED <<clock, bucket, lock, now, overtaken, window>>

\* The sleep lasts (1 - tokens) / rate, or longer.
Wake(t) ==
  /\ pc[t] = "sleeping"
  /\ (clock - asleep[t].since) * PerMinute >= asleep[t].short
  /\ asleep' = [asleep EXCEPT ![t] = [since |-> 0, short |-> 0]]
  /\ Goto(t, "asking")
  /\ UNCHANGED <<clock, bucket, lock, now, overtaken, window>>

\* Time passes (external).
Tick ==
  /\ clock < MaxClock
  /\ clock' = clock + 1
  /\ UNCHANGED <<bucket, lock, pc, now, asleep, overtaken, window>>

\* A window begins now: the permits stamped from here on are counted.
Mark ==
  /\ mark' = clock /\ granted' = 0
  /\ UNCHANGED <<clock, bucket, lock, pc, now, asleep, overtaken>>

Next ==
  \/ \E t \in Thread : Acquire(t) \/ ReadClock(t) \/ Grant(t) \/ Refuse(t) \/ Wake(t)
  \/ Tick \/ Mark

Spec == Init /\ [][Next]_vars

-----------------------------------------------------------------------------
(* Properties *)

\* The bucket never owes a permit and never holds more than a minute's worth.
TypeOK ==
  /\ clock \in Nat /\ updated \in Nat /\ mark \in Nat /\ granted \in Nat
  /\ tokens \in 0..Capacity
  /\ lock \in Thread \cup {None}
  /\ pc \in [Thread -> {"idle", "asking", "refilling", "sleeping"}]
  /\ now \in [Thread -> Nat]
  /\ asleep \in [Thread -> [since : Nat, short : Int]]
  /\ overtaken \in [Thread -> BOOLEAN]

\* "requests_per_minute on average, with bursts up to that number" (ratelimit.py:14):
\* in every window of time, whenever it begins and however threads interleave, at most
\* a full burst and the rate times the window's length.
RateHolds == granted * Minute <= Capacity + (clock - mark) * PerMinute

\* The last refill is never undone by a thread that read the clock earlier.
RefillsMoveForward == [][updated' >= updated]_vars

\* A thread that slept for a token finds it, unless another thread took it meanwhile:
\* nobody is refused twice in a row for nothing.
SleepSuffices ==
  \A t \in Thread :
    pc[t] = "refilling" /\ ~overtaken[t] => Refilled(t) >= Minute

=============================================================================
