----------------------------- MODULE RecordProofs -----------------------------
(***************************************************************************)
(* Proofs about the modules that share no variable with the others:        *)
(*                                                                         *)
(*   1. RateLimiter, for any number of threads, any rate and any clock     *)
(*      resolution;                                                        *)
(*   2. PageSource, for any keys, pages and number of retries: what an     *)
(*      outcome rests on, and what a record takes from its page;           *)
(*   3. Documents, for any records: load_document undoes store_document;   *)
(*   4. Taxonomy, for any drafts, schemes and edits: what edits keep, and  *)
(*      that drafts account for all that was proposed;                     *)
(*   5. Dataset, for any finitely many documents and any order of the      *)
(*      unions: families are the connected components, and every plan      *)
(*      passes its own conservation check; entities are those of the keys; *)
(*   6. Matching, for any title lists, taxonomies and records: the         *)
(*      renderings of a query's codes agree with the local evaluation,     *)
(*      counts are bounds, and recall checks do not mislead.               *)
(*                                                                         *)
(* Each has its own specification.                                         *)
(***************************************************************************)
EXTENDS RateLimiter, PageSource, Documents, Taxonomy, Dataset, Matching,
        FiniteSetTheorems, FunctionTheorems, WellFoundedInduction, TLAPS

-----------------------------------------------------------------------------
(* 1. The limiter.  What a tick refills is a product; Units names it, so that  *)
(* all other reasoning is linear.                                              *)

\* The units refilled in n ticks, and the cost of n requests.
Units(n) == n * PerMinute
Cost(n) == n * Minute

\* Only the thread in the critical section is between its two steps, and its clock
\* reading is not older than the last refill.
LockGuards == \A t \in Thread :
  pc[t] = "refilling" => lock = t /\ updated <= now[t] /\ now[t] <= clock

\* The permits of the window and the tokens that are left came from a full bucket and
\* the refills within the window.
WindowPaid ==
  granted = 0 \/ (updated >= mark /\ tokens + Cost(granted) <= Capacity + Units(updated) - Units(mark))

\* The bucket has, or will have had by the instant c, a whole token.
Fills(c) == tokens >= Minute \/ tokens + Units(c) - Units(updated) >= Minute

\* What a thread that nobody overtook can count on.
SleeperServed == \A t \in Thread : ~overtaken[t] =>
  /\ pc[t] = "sleeping" =>
       tokens >= Minute \/ tokens + Units(asleep[t].since) - Units(updated) + asleep[t].short >= Minute
  /\ pc[t] = "asking" => Fills(clock)
  /\ pc[t] = "refilling" => Fills(now[t])
  /\ pc[t] # "idle"

RateInv ==
  /\ TypeOK /\ LockGuards /\ WindowPaid /\ SleeperServed
  /\ updated <= clock /\ mark <= clock

-----------------------------------------------------------------------------
(* Arithmetic *)

LEMMA Sizes ==
  Capacity \in Nat /\ Minute \in Nat /\ 0 < Minute /\ Minute <= Capacity
<1>1. PerMinute \in Nat /\ PerMinute > 0 /\ Minute \in Nat /\ Minute > 0
  BY RateAssumption
<1>2. Capacity \in Nat /\ Minute <= Capacity
  BY <1>1 DEF Capacity
<1> QED
  BY <1>1, <1>2

LEMMA UnitsType == ASSUME NEW n \in Nat PROVE Units(n) \in Nat
BY RateAssumption DEF Units

LEMMA UnitsOrder ==
  ASSUME NEW m \in Nat, NEW n \in Nat, m <= n PROVE Units(m) <= Units(n)
BY RateAssumption DEF Units

LEMMA UnitsBetween ==
  ASSUME NEW m \in Nat, NEW n \in Nat PROVE (n - m) * PerMinute = Units(n) - Units(m)
BY RateAssumption DEF Units

LEMMA CostType == ASSUME NEW n \in Nat PROVE Cost(n) \in Nat
BY RateAssumption DEF Cost

LEMMA CostStep == ASSUME NEW n \in Nat PROVE Cost(n + 1) = Cost(n) + Minute
BY RateAssumption DEF Cost

LEMMA CostZero == Cost(0) = 0 /\ Cost(1) = Minute
BY RateAssumption DEF Cost

\* The refill by the thread that holds the lock.
LEMMA RefillIs ==
  ASSUME RateInv, NEW t \in Thread, pc[t] = "refilling"
  PROVE  /\ Refilled(t) \in 0..Capacity
         /\ Refilled(t) = Capacity \/ Refilled(t) = tokens + Units(now[t]) - Units(updated)
         /\ Refilled(t) <= tokens + Units(now[t]) - Units(updated)
         /\ Refilled(t) >= tokens
<1>1. now[t] \in Nat /\ updated \in Nat /\ tokens \in 0..Capacity /\ updated <= now[t]
  BY DEF RateInv, TypeOK, LockGuards
<1>2. (now[t] - updated) * PerMinute = Units(now[t]) - Units(updated)
      /\ Units(updated) <= Units(now[t]) /\ Units(updated) \in Nat /\ Units(now[t]) \in Nat
      /\ Capacity \in Nat
  BY <1>1, UnitsBetween, UnitsOrder, UnitsType, Sizes
<1> QED
  BY <1>1, <1>2 DEF Refilled

-----------------------------------------------------------------------------
(* The invariant *)

LEMMA RateInvInit == Init => RateInv
<1> SUFFICES ASSUME Init PROVE RateInv
  OBVIOUS
<1>1. TypeOK
  BY Sizes DEF Init, TypeOK
<1> QED
  BY <1>1 DEF Init, RateInv, LockGuards, WindowPaid, SleeperServed

LEMMA RateInvStep == RateInv /\ [Next]_vars => RateInv'
<1> SUFFICES ASSUME RateInv, [Next]_vars PROVE RateInv'
  OBVIOUS
<1> USE DEF Goto, bucket, window
<1>1. ASSUME NEW t \in Thread, Acquire(t) PROVE RateInv'
  <2>1. TypeOK' /\ LockGuards' /\ WindowPaid'
    BY <1>1 DEF Acquire, RateInv, TypeOK, LockGuards, WindowPaid
  <2>2. SleeperServed'
    BY <1>1 DEF Acquire, RateInv, TypeOK, SleeperServed, Fills
  <2> QED
    BY <1>1, <2>1, <2>2 DEF Acquire, RateInv
<1>2. ASSUME NEW t \in Thread, ReadClock(t) PROVE RateInv'
  <2>1. TypeOK' /\ LockGuards' /\ WindowPaid'
    BY <1>2, RateAssumption DEF ReadClock, RateInv, TypeOK, LockGuards, WindowPaid
  <2>2. SleeperServed'
    BY <1>2 DEF ReadClock, RateInv, TypeOK, SleeperServed, Fills
  <2> QED
    BY <1>2, <2>1, <2>2 DEF ReadClock, RateInv
<1>3. ASSUME NEW t \in Thread, Grant(t) PROVE RateInv'
  <2> DEFINE full == Refilled(t)
  <2>1. /\ pc[t] = "refilling" /\ full >= Minute /\ tokens' = full - Minute /\ updated' = now[t]
        /\ mark' = mark /\ clock' = clock /\ lock' = None
        /\ granted' = IF now[t] >= mark THEN granted + 1 ELSE granted
    BY <1>3 DEF Grant
  <2>2. /\ full \in 0..Capacity /\ full <= tokens + Units(now[t]) - Units(updated)
    BY <2>1, RefillIs
  <2> HIDE DEF full
  <2>3. updated <= now[t] /\ now[t] <= clock /\ now[t] \in Nat /\ mark \in Nat /\ granted \in Nat
        /\ updated \in Nat /\ tokens \in Nat /\ lock = t
    BY <2>1, Sizes DEF RateInv, TypeOK, LockGuards
  <2>4. TypeOK'
    BY <1>3, <2>1, <2>2, <2>3, Sizes DEF Grant, RateInv, TypeOK
  <2>5. LockGuards'
    BY <1>3, <2>3 DEF Grant, RateInv, TypeOK, LockGuards
  <2>6. WindowPaid'
    <3>1. CASE now[t] < mark
      BY <2>1, <2>3, <3>1 DEF RateInv, WindowPaid
    <3>2. CASE now[t] >= mark /\ granted = 0
      <4>1. Units(mark) <= Units(now[t]) /\ Units(mark) \in Int /\ Units(now[t]) \in Int
            /\ Cost(1) = Minute
        BY <2>3, <3>2, UnitsType, UnitsOrder, CostZero
      <4> QED
        BY <2>1, <2>2, <2>3, <3>2, <4>1, Sizes, CostZero DEF WindowPaid
    <3>3. CASE now[t] >= mark /\ granted # 0
      <4>1. tokens + Cost(granted) <= Capacity + Units(updated) - Units(mark)
        BY <3>3 DEF RateInv, WindowPaid
      <4>2. Cost(granted + 1) = Cost(granted) + Minute /\ Cost(granted) \in Int
            /\ Units(updated) \in Int /\ Units(mark) \in Int /\ Units(now[t]) \in Int
        BY <2>3, UnitsType, CostType, CostStep
      <4> QED
        BY <2>1, <2>2, <2>3, <3>3, <4>1, <4>2, Sizes DEF WindowPaid
    <3> QED
      BY <2>3, <3>1, <3>2, <3>3
  <2>7. SleeperServed'
    BY <1>3 DEF Grant, SleeperServed
  <2> QED
    BY <2>1, <2>3, <2>4, <2>5, <2>6, <2>7 DEF RateInv
<1>4. ASSUME NEW t \in Thread, Refuse(t) PROVE RateInv'
  <2> DEFINE full == Refilled(t)
  <2>1. /\ pc[t] = "refilling" /\ full < Minute /\ tokens' = full /\ updated' = now[t]
        /\ UNCHANGED <<mark, granted, clock>> /\ lock' = None
        /\ asleep' = [asleep EXCEPT ![t] = [since |-> clock, short |-> Minute - full]]
        /\ overtaken' = [overtaken EXCEPT ![t] = FALSE]
        /\ pc' = [pc EXCEPT ![t] = "sleeping"] /\ now' = [now EXCEPT ![t] = 0]
    BY <1>4 DEF Refuse
  <2>2. /\ full \in 0..Capacity /\ full >= tokens
        /\ full = Capacity \/ full = tokens + Units(now[t]) - Units(updated)
        /\ full <= tokens + Units(now[t]) - Units(updated)
    BY <2>1, RefillIs
  <2> HIDE DEF full
  <2>3. updated <= now[t] /\ now[t] <= clock /\ now[t] \in Nat /\ mark \in Nat /\ granted \in Nat
        /\ updated \in Nat /\ tokens \in Nat /\ lock = t /\ clock \in Nat
    BY <2>1, Sizes DEF RateInv, TypeOK, LockGuards
  <2>4. TypeOK'
    BY <2>1, <2>2, <2>3, Sizes DEF RateInv, TypeOK
  <2>5. LockGuards'
    BY <2>1, <2>3 DEF RateInv, TypeOK, LockGuards
  <2>6. WindowPaid'
    <3>1. Cost(granted) \in Int /\ Units(updated) \in Int /\ Units(mark) \in Int
          /\ Units(now[t]) \in Int
      BY <2>3, UnitsType, CostType
    <3> QED
      BY <2>1, <2>2, <2>3, <3>1, Sizes DEF RateInv, WindowPaid
  <2>7. SleeperServed'
    <3> SUFFICES ASSUME NEW u \in Thread, ~overtaken'[u]
                 PROVE /\ pc'[u] = "sleeping" =>
                            \/ tokens' >= Minute
                            \/ tokens' + Units(asleep'[u].since) - Units(updated') + asleep'[u].short >= Minute
                       /\ pc'[u] = "asking" => Fills(clock)'
                       /\ pc'[u] = "refilling" => Fills(now[u])'
                       /\ pc'[u] # "idle"
      BY DEF SleeperServed
    <3>1. CASE u = t
      <4>1. Units(now[t]) <= Units(clock) /\ Units(now[t]) \in Int /\ Units(clock) \in Int
        BY <2>3, UnitsType, UnitsOrder
      <4>2. pc'[u] = "sleeping" /\ asleep'[u].since = clock /\ asleep'[u].short = Minute - full
        BY <2>1, <3>1 DEF RateInv, TypeOK
      <4> QED
        BY <2>1, <2>2, <2>3, <4>1, <4>2, Sizes
    <3>2. CASE u # t
      <4>1. ~overtaken[u] /\ pc'[u] = pc[u] /\ asleep'[u] = asleep[u] /\ now'[u] = now[u]
        BY <2>1, <3>2 DEF RateInv, TypeOK
      <4>2. pc[u] # "refilling"
        BY <2>3, <3>2 DEF RateInv, LockGuards
      <4>3. /\ Units(updated) \in Int /\ Units(now[t]) \in Int /\ Units(clock) \in Int
            /\ Units(asleep[u].since) \in Int /\ asleep[u].short \in Int
        BY <2>3, UnitsType DEF RateInv, TypeOK
      <4>4. CASE pc[u] = "sleeping"
        <5>1. \/ tokens >= Minute
              \/ tokens + Units(asleep[u].since) - Units(updated) + asleep[u].short >= Minute
          BY <4>1, <4>4 DEF RateInv, SleeperServed
        <5> QED
          BY <2>1, <2>2, <2>3, <4>1, <4>3, <4>4, <5>1, Sizes
      <4>5. CASE pc[u] = "asking"
        <5>1. tokens >= Minute \/ tokens + Units(clock) - Units(updated) >= Minute
          BY <4>1, <4>5 DEF RateInv, SleeperServed, Fills
        <5> QED
          BY <2>1, <2>2, <2>3, <4>1, <4>3, <4>5, <5>1, Sizes DEF Fills
      <4>6. pc[u] \in {"idle", "asking", "refilling", "sleeping"} /\ pc[u] # "idle"
        BY <4>1 DEF RateInv, TypeOK, SleeperServed
      <4> QED
        BY <4>1, <4>2, <4>4, <4>5, <4>6
    <3> QED
      BY <3>1, <3>2
  <2> QED
    BY <2>1, <2>3, <2>4, <2>5, <2>6, <2>7 DEF RateInv
<1>5. ASSUME NEW t \in Thread, Wake(t) PROVE RateInv'
  <2>1. TypeOK' /\ LockGuards' /\ WindowPaid'
    BY <1>5 DEF Wake, RateInv, TypeOK, LockGuards, WindowPaid
  <2>2. asleep[t].since \in Nat /\ asleep[t].short \in Int /\ clock \in Nat /\ updated \in Nat
        /\ tokens \in Int
    BY Sizes DEF RateInv, TypeOK
  <2>3. Units(clock) - Units(asleep[t].since) >= asleep[t].short
        /\ Units(clock) \in Int /\ Units(asleep[t].since) \in Int /\ Units(updated) \in Int
    BY <1>5, <2>2, UnitsBetween, UnitsType DEF Wake
  <2>4. ~overtaken[t] => Fills(clock)
    BY <1>5, <2>2, <2>3, Sizes DEF Wake, RateInv, SleeperServed, Fills
  <2>5. SleeperServed'
    BY <1>5, <2>4 DEF Wake, RateInv, TypeOK, SleeperServed, Fills
  <2> QED
    BY <1>5, <2>1, <2>5 DEF Wake, RateInv
<1>6. CASE Tick
  <2>1. TypeOK' /\ LockGuards' /\ WindowPaid' /\ updated' <= clock' /\ mark' <= clock'
    BY <1>6 DEF Tick, RateInv, TypeOK, LockGuards, WindowPaid
  <2>2. clock \in Nat /\ clock' = clock + 1 /\ updated \in Nat /\ tokens \in Int
    BY <1>6, Sizes DEF Tick, RateInv, TypeOK
  <2>3. Units(clock) <= Units(clock') /\ Units(clock) \in Int /\ Units(clock') \in Int
        /\ Units(updated) \in Int
    BY <2>2, UnitsOrder, UnitsType
  <2>4. Fills(clock) => Fills(clock)'
    BY <1>6, <2>2, <2>3, Sizes DEF Tick, Fills
  <2>5. SleeperServed'
    BY <1>6, <2>4 DEF Tick, RateInv, SleeperServed, Fills
  <2> QED
    BY <2>1, <2>5 DEF RateInv
<1>7. CASE Mark
  <2>1. TypeOK' /\ LockGuards' /\ WindowPaid' /\ updated' <= clock' /\ mark' <= clock'
    BY <1>7 DEF Mark, RateInv, TypeOK, LockGuards, WindowPaid
  <2>2. SleeperServed'
    BY <1>7 DEF Mark, RateInv, SleeperServed, Fills
  <2> QED
    BY <2>1, <2>2 DEF RateInv
<1>8. CASE UNCHANGED vars
  BY <1>8 DEF vars, RateInv, TypeOK, LockGuards, WindowPaid, SleeperServed, Fills
<1> QED
  BY <1>1, <1>2, <1>3, <1>4, <1>5, <1>6, <1>7, <1>8 DEF Next

\* The bucket and the permits of a window are paid for, whoever holds the lock.
THEOREM RateInvariant == Spec => []RateInv
BY RateInvInit, RateInvStep, PTL DEF Spec

-----------------------------------------------------------------------------
(* What follows from it *)

\* The bucket stays between empty and a minute's worth.
THEOREM TypeCorrect == Spec => []TypeOK
<1>1. RateInv => TypeOK
  BY DEF RateInv
<1> QED
  BY RateInvariant, <1>1, PTL

\* No window of time sees more permits than a burst and the rate allow
\* (ratelimit.py:14).
THEOREM RateIsBounded == Spec => []RateHolds
<1>1. RateInv => RateHolds
  <2> SUFFICES ASSUME RateInv PROVE RateHolds
    OBVIOUS
  <2>1. clock \in Nat /\ mark \in Nat /\ updated \in Nat /\ granted \in Nat /\ tokens \in Nat
        /\ mark <= clock /\ updated <= clock
    BY Sizes DEF RateInv, TypeOK
  <2>2. /\ (clock - mark) * PerMinute = Units(clock) - Units(mark)
        /\ Units(mark) <= Units(clock) /\ Units(updated) <= Units(clock)
        /\ Units(mark) \in Int /\ Units(clock) \in Int /\ Units(updated) \in Int
        /\ Cost(granted) \in Int /\ Cost(0) = 0 /\ Capacity \in Nat
    <3>1. (clock - mark) * PerMinute = Units(clock) - Units(mark)
      BY <2>1, UnitsBetween
    <3> QED
      BY <2>1, <3>1, UnitsOrder, UnitsType, CostType, CostZero, Sizes
  <2>3. Cost(granted) = granted * Minute
    BY DEF Cost
  <2>4. Cost(granted) <= Capacity + Units(clock) - Units(mark)
    BY <2>1, <2>2 DEF RateInv, WindowPaid
  <2> QED
    BY <2>2, <2>3, <2>4 DEF RateHolds
<1> QED
  BY RateInvariant, <1>1, PTL

\* A thread that slept out its wait and was not overtaken gets its permit.
THEOREM SleepersAreServed == Spec => []SleepSuffices
<1>1. RateInv => SleepSuffices
  <2> SUFFICES ASSUME RateInv, NEW t \in Thread, pc[t] = "refilling", ~overtaken[t]
               PROVE Refilled(t) >= Minute
    BY DEF SleepSuffices
  <2>1. Fills(now[t])
    BY DEF RateInv, SleeperServed
  <2>2. tokens \in Int /\ Capacity \in Nat /\ Minute \in Nat /\ Minute <= Capacity
        /\ Units(now[t]) \in Int /\ Units(updated) \in Int
    BY UnitsType, Sizes DEF RateInv, TypeOK
  <2> QED
    BY <2>1, <2>2, RefillIs DEF Fills
<1> QED
  BY RateInvariant, <1>1, PTL

\* No refill is computed from a clock reading older than the last one.
THEOREM RefillsGoForward == Spec => RefillsMoveForward
<1>1. RateInv /\ [Next]_vars => [updated' >= updated]_vars
  <2> SUFFICES ASSUME RateInv, Next PROVE updated' >= updated
    OBVIOUS
  <2>1. updated \in Nat
    BY DEF RateInv, TypeOK
  <2> QED
    BY <2>1 DEF Next, Acquire, ReadClock, Grant, Refuse, Wake, Tick, Mark, bucket, RateInv, LockGuards, TypeOK
<1> QED
  BY RateInvariant, <1>1, PTL DEF Spec, RefillsMoveForward

-----------------------------------------------------------------------------
(* 2. The page source.  The answers to the URL that is being asked are all     *)
(* transient while the outcome is open, and the bare number is asked for only  *)
(* after the full one was not found.                                           *)

Urls == {"full", "bare"}

PageTypeOK ==
  /\ key \in Lookup \cup {None}
  /\ asking \in Urls
  /\ answers \in [full : Seq(Answers), bare : Seq(Answers)]
  /\ status \in {"open", "ok", "not_found", "failed", "invalid_request"}
  /\ page \in Page \cup {None}

\* Between two keys nothing is left of the last one.
Blank ==
  key = None => /\ status = "open" /\ asking = "full" /\ page = None
                /\ answers.full = <<>> /\ answers.bare = <<>>

\* What is still to be asked has had nothing but transient answers, and not too many.
OpenIsTransient ==
  status = "open" =>
    /\ Len(answers[asking]) <= MaxRetries
    /\ \A i \in 1..Len(answers[asking]) : answers[asking][i] \in Transient

\* The bare number is asked for after the full one was not found.
BareIsSecond ==
  /\ asking = "full" => answers.bare = <<>>
  /\ asking = "bare" => /\ key # None /\ key.kind # ""
                        /\ answers.full # <<>> /\ Newest(answers.full) = "404"

PageInv == PageTypeOK /\ Blank /\ OpenIsTransient /\ BareIsSecond /\ StatusIsJustified

LEMMA PageInvInit == PageInit => PageInv
<1> SUFFICES ASSUME PageInit PROVE PageInv
  OBVIOUS
<1> USE PageSourceAssumption DEF PageInit
<1>1. PageTypeOK /\ Blank /\ BareIsSecond
  BY DEF PageTypeOK, Blank, BareIsSecond, Urls
<1>2. OpenIsTransient
  BY DEF OpenIsTransient
<1>3. StatusIsJustified
  BY DEF StatusIsJustified
<1> QED
  BY <1>1, <1>2, <1>3 DEF PageInv

LEMMA Appended ==
  ASSUME NEW log \in Seq(Answers), NEW a \in Answers
  PROVE  LET longer == Append(log, a)
         IN /\ longer \in Seq(Answers) /\ longer # <<>>
            /\ Len(longer) = Len(log) + 1 /\ Newest(longer) = a
            /\ \A i \in 1..Len(log) : longer[i] = log[i]
BY DEF Newest

\* The verdict on an answer, in terms of the answer.
LEMMA VerdictIs ==
  ASSUME NEW log \in Seq(Answers), NEW a \in Answers
  PROVE  LET v == Verdict(Append(log, a))
         IN /\ v \in {"open", "ok", "not_found", "failed"}
            /\ v = "ok" <=> a = "page"
            /\ v = "not_found" <=> a = "404"
            /\ v = "failed" => a \in Definite \/ Len(log) = MaxRetries
            /\ v = "open" => a \in Transient /\ Len(log) # MaxRetries
<1>1. Newest(Append(log, a)) = a /\ Len(Append(log, a)) = Len(log) + 1 /\ Len(log) \in Nat
  BY Appended
<1> QED
  BY <1>1, PageSourceAssumption DEF Verdict, Classify, Answers, Transient, Definite

LEMMA PageInvStep == PageInv /\ [PageNext]_lookupVars => PageInv'
<1> SUFFICES ASSUME PageInv, [PageNext]_lookupVars PROVE PageInv'
  OBVIOUS
<1>1. ASSUME NEW k \in Lookup, Ask(k) PROVE PageInv'
  <2> USE <1>1, PageSourceAssumption DEF Ask, PageInv
  <2>1. PageTypeOK' /\ Blank'
    BY DEF PageTypeOK, Blank
  <2>2. OpenIsTransient' /\ BareIsSecond'
    BY DEF Blank, OpenIsTransient, BareIsSecond
  <2>3. StatusIsJustified'
    BY DEF Blank, StatusIsJustified
  <2> QED
    BY <2>1, <2>2, <2>3
<1>2. ASSUME NEW a \in Answers, Answer(a) PROVE PageInv'
  <2> DEFINE old == answers[asking]
             log == Append(old, a)
             v == Verdict(log)
  <2>1. /\ key \in Lookup /\ asking \in Urls /\ key # None /\ status = "open"
        /\ answers \in [full : Seq(Answers), bare : Seq(Answers)] /\ old \in Seq(Answers)
    BY <1>2 DEF Answer, PageInv, PageTypeOK, Urls
  <2>2. /\ answers' = [answers EXCEPT ![asking] = log] /\ key' = key
        /\ IF TryBare(v) THEN asking' = "bare" /\ status' = status
           ELSE status' = v /\ asking' = asking
        /\ page' \in IF v = "ok" THEN Page ELSE {page}
    BY <1>2 DEF Answer
  <2>3. /\ log \in Seq(Answers) /\ log # <<>> /\ Len(log) = Len(old) + 1 /\ Newest(log) = a
        /\ Len(old) \in Nat
        /\ \A i \in 1..Len(old) : log[i] = old[i]
    BY <2>1, Appended
  <2>4. /\ v \in {"open", "ok", "not_found", "failed"}
        /\ v = "ok" <=> a = "page"
        /\ v = "not_found" <=> a = "404"
        /\ v = "failed" => a \in Definite \/ Len(old) = MaxRetries
        /\ v = "open" => a \in Transient /\ Len(old) # MaxRetries
    BY <2>1, VerdictIs
  <2>5. Len(old) <= MaxRetries /\ \A i \in 1..Len(old) : old[i] \in Transient
    BY <2>1 DEF PageInv, OpenIsTransient
  <2>6. key.valid
    BY <2>1, PageSourceAssumption DEF PageInv, StatusIsJustified
  <2>7. /\ answers'[asking] = log
        /\ \A u \in Urls : u # asking => answers'[u] = answers[u]
        /\ answers' \in [full : Seq(Answers), bare : Seq(Answers)]
    BY <2>1, <2>2, <2>3 DEF Urls
  <2>8. Len(log) <= MaxRetries + 1 /\ \A i \in 1..(Len(log) - 1) : log[i] \in Transient
    BY <2>3, <2>5, PageSourceAssumption
  <2>9. \A l \in {answers'.full, answers'.bare} :
          /\ Len(l) <= MaxRetries + 1
          /\ \A i \in 1..(Len(l) - 1) : l[i] \in Transient
    <3>1. {answers'.full, answers'.bare} \subseteq {log, answers.full, answers.bare}
      BY <2>1, <2>2 DEF Urls
    <3> QED
      BY <2>8, <3>1 DEF PageInv, StatusIsJustified
  <2>10. answers.bare # <<>> => key.kind # "" /\ Newest(answers.full) = "404"
    BY DEF PageInv, StatusIsJustified
  <2>11. /\ asking = "full" => answers.bare = <<>>
         /\ asking = "bare" => key.kind # "" /\ answers.full # <<>> /\ Newest(answers.full) = "404"
    BY DEF PageInv, BareIsSecond
  <2>12. page \in Page \cup {None}
    BY DEF PageInv, PageTypeOK
  <2> HIDE DEF old, log, v
  <2>13. CASE TryBare(v)
    <3>1. a = "404" /\ asking = "full" /\ key.kind # "" /\ asking' = "bare" /\ status' = "open"
          /\ page' = page
      BY <2>1, <2>2, <2>4, <2>13 DEF TryBare
    <3>2. answers'.full = log /\ answers'.bare = <<>>
      BY <2>7, <2>11, <3>1 DEF Urls
    <3>3. PageTypeOK' /\ Blank'
      BY <2>1, <2>2, <2>7, <2>12, <3>1 DEF PageTypeOK, Blank, Urls
    <3>4. OpenIsTransient'
      <4>1. answers'[asking'] = <<>>
        BY <3>1, <3>2
      <4> QED
        BY <4>1, PageSourceAssumption DEF OpenIsTransient
    <3>5. BareIsSecond'
      BY <2>1, <2>2, <2>3, <3>1, <3>2 DEF BareIsSecond
    <3>6. StatusIsJustified'
      BY <2>1, <2>2, <2>6, <2>9, <3>1, <3>2 DEF StatusIsJustified
    <3> QED
      BY <3>3, <3>4, <3>5, <3>6 DEF PageInv
  <2>14. CASE ~TryBare(v)
    <3>1. status' = v /\ asking' = asking /\ key' = key
      BY <2>2, <2>14
    <3>2. v = "not_found" => asking = "bare" \/ key.kind = ""
      BY <2>1, <2>14 DEF TryBare, Urls
    <3>3. /\ asking = "full" => answers'.full = log /\ answers'.bare = <<>>
          /\ asking = "bare" => answers'.bare = log /\ answers'.full = answers.full
      BY <2>1, <2>7, <2>11 DEF Urls
    <3>4. page' \in Page \cup {None} /\ (v = "ok" => page' # None)
      BY <2>2, <2>12, PageSourceAssumption
    <3>5. PageTypeOK' /\ Blank'
      <4>1. PageTypeOK'
        <5>1. key' \in Lookup \cup {None} /\ asking' \in Urls
          BY <2>1, <3>1
        <5>2. status' \in {"open", "ok", "not_found", "failed", "invalid_request"}
          BY <2>4, <3>1
        <5> QED
          BY <2>7, <3>4, <5>1, <5>2 DEF PageTypeOK
      <4>2. key' # None
        BY <2>1, <3>1
      <4> QED
        BY <4>1, <4>2 DEF Blank
    <3>6. OpenIsTransient'
      <4> SUFFICES ASSUME v = "open"
                   PROVE Len(log) <= MaxRetries /\ \A i \in 1..Len(log) : log[i] \in Transient
        BY <2>7, <3>1 DEF OpenIsTransient
      <4>1. a \in Transient /\ Len(log) <= MaxRetries /\ log[Len(log)] = a
        BY <2>3, <2>4, <2>5, PageSourceAssumption DEF Newest
      <4> QED
        BY <2>3, <2>8, <4>1
    <3>7. BareIsSecond'
      BY <2>1, <2>11, <3>1, <3>3 DEF BareIsSecond, Urls
    <3>8. answers'.bare # <<>> => key.kind # "" /\ Newest(answers'.full) = "404"
      BY <2>1, <2>11, <3>3 DEF Urls
    <3>9. v = "not_found" =>
            Newest(answers'.full) = "404" /\ (key.kind # "" => Newest(answers'.bare) = "404")
      BY <2>1, <2>3, <2>4, <2>11, <3>2, <3>3 DEF Urls
    <3>10. v = "failed" => Newest(log) \in Definite \/ Len(log) = MaxRetries + 1
      BY <2>3, <2>4, PageSourceAssumption
    <3>11. StatusIsJustified'
      BY <2>1, <2>3, <2>4, <2>6, <2>7, <2>9, <3>1, <3>4, <3>8, <3>9, <3>10 DEF StatusIsJustified
    <3> QED
      BY <3>5, <3>6, <3>7, <3>11 DEF PageInv
  <2> QED
    BY <2>13, <2>14
<1>3. CASE Forget
  <2> USE <1>3, PageSourceAssumption DEF Forget
  <2>1. PageTypeOK' /\ Blank' /\ BareIsSecond'
    BY DEF PageTypeOK, Blank, BareIsSecond, Urls
  <2>2. OpenIsTransient'
    BY DEF OpenIsTransient
  <2>3. StatusIsJustified'
    BY DEF StatusIsJustified
  <2> QED
    BY <2>1, <2>2, <2>3 DEF PageInv
<1>4. CASE UNCHANGED lookupVars
  BY <1>4 DEF lookupVars, PageInv, PageTypeOK, Blank, OpenIsTransient, BareIsSecond, StatusIsJustified
<1> QED
  BY <1>1, <1>2, <1>3, <1>4 DEF PageNext

\* While a key is looked up, its answers, the URL being asked and the outcome belong together.
THEOREM PageInvariant == PageSpec => []PageInv
BY PageInvInit, PageInvStep, PTL DEF PageSpec

\* An outcome is what the answers justify, for any number of retries (_fetch_one,
\* _fetch_without_kind).
THEOREM StatusesAreJustified == PageSpec => []StatusIsJustified
<1>1. PageInv => StatusIsJustified
  BY DEF PageInv
<1> QED
  BY <1>1, PageInvariant, PTL

-----------------------------------------------------------------------------
(* What a stored record says *)

\* A nonempty set of row numbers has a least one.
LEMMA LeastRow ==
  ASSUME NEW S \in SUBSET Nat, S # {}
  PROVE  \E i \in S : \A j \in S : i <= j
<1>1. \E i \in S : \A j \in S : ~ (<<j, i>> \in OpToRel(<, Nat))
  BY NatLessThanWellFounded, WFMin
<1>2. PICK i \in S : \A j \in S : ~ (<<j, i>> \in OpToRel(<, Nat))
  BY <1>1
<1>3. \A j \in S : ~ (j < i)
  BY <1>2, Zenon DEF OpToRel
<1> QED
  BY <1>3

\* The rows of a list are read, or the first bad one says why not.
LEMMA RowsAreRead ==
  ASSUME NEW rows \in Seq(Row)
  PROVE  /\ RowError(rows) \in {Given(rows), ParseError, NormalizationError}
         /\ RowError(rows) = Given(rows) => \A i \in DOMAIN rows : rows[i] # "bad"
         /\ RowError(rows) = NormalizationError => \E i \in DOMAIN rows : rows[i] = "bad"
<1> DEFINE wrong == {i \in DOMAIN rows : rows[i] \in {"none", "bad"}}
           first == CHOOSE i \in wrong : \A j \in wrong : i <= j
<1>1. CASE wrong = {}
  BY <1>1 DEF RowError, Given, ParseError, NormalizationError, Missing
<1>2. CASE wrong # {}
  <2>1. first \in wrong
    <3>1. wrong \in SUBSET Nat
      OBVIOUS
    <3>2. \E i \in wrong : \A j \in wrong : i <= j
      BY <1>2, <3>1, LeastRow
    <3> QED
      BY <3>2, Zenon
  <2>2. RowError(rows) = IF rows[first] = "none" THEN ParseError ELSE NormalizationError
    BY <1>2 DEF RowError
  <2>3. Given(rows) # ParseError /\ Given(rows) # NormalizationError
        /\ ParseError # NormalizationError
    BY DEF Given, ParseError, NormalizationError, Missing
  <2> QED
    BY <2>1, <2>2, <2>3
<1> QED
  BY <1>1, <1>2

\* An error in a list costs the list (Lenient) or, without a number, the record.
LEMMA ListIsLost ==
  ASSUME NEW rows \in Seq(Row), NEW reading,
         reading = Lenient(FamilyMembers(rows)) \/ reading = Lenient(ForwardCitations(rows)),
         reading # ParseError
  PROVE  (\E i \in DOMAIN rows : rows[i] = "bad") <=> reading = Unparseable
<1>1. PICK s : reading = Lenient(IF RowError(rows).is # "value" THEN RowError(rows) ELSE PutList(s))
  <2>1. CASE reading = Lenient(FamilyMembers(rows))
    BY <2>1 DEF FamilyMembers
  <2>2. CASE reading = Lenient(ForwardCitations(rows))
    BY <2>2 DEF ForwardCitations
  <2> QED
    BY <2>1, <2>2
<1>2. PutList(s) # Unparseable /\ PutList(s) # NormalizationError
  BY DEF PutList, NotProvided, Given, Missing, Unparseable, NormalizationError
<1>3. CASE RowError(rows) = Given(rows)
  BY <1>1, <1>2, <1>3, RowsAreRead DEF Given, Lenient
<1>4. CASE RowError(rows) = ParseError
  <2>1. ParseError.is = "parse_error" /\ ParseError # NormalizationError
    BY DEF ParseError, NormalizationError, Missing
  <2> QED
    BY <1>1, <1>4, <2>1 DEF Lenient
<1>5. CASE RowError(rows) = NormalizationError
  <2>1. NormalizationError.is = "normalization_error"
    BY DEF NormalizationError, Missing
  <2> QED
    BY <1>1, <1>5, <2>1, RowsAreRead DEF Lenient
<1> QED
  BY <1>3, <1>4, <1>5, RowsAreRead

\* A text is read exactly if it is official and there is one.
LEMMA TextIsOfficial ==
  ASSUME NEW block \in Block
  PROVE  OfficialText(block).is = "value" <=> block.source = "office" /\ block.text # ""
BY DEF Block, OfficialText, NotProvided, Unparseable, Given, Missing

\* Only a page of the kind that was asked for is stored, or of its letter.
LEMMA KindIsKept ==
  ASSUME NEW k, NEW p, NEW fallback \in BOOLEAN, MatchesRequest(k, p, fallback), k.kind # ""
  PROVE  \/ p.kind = k.kind
         \/ /\ fallback
            /\ <<k.kind, p.kind>> \notin {"A1", "A2"} \X {"B1", "B2"}
            /\ <<p.kind, k.kind>> \notin {"A1", "A2"} \X {"B1", "B2"}
<1> SUFFICES ASSUME p.kind # k.kind
             PROVE  /\ fallback
                    /\ <<k.kind, p.kind>> \notin {"A1", "A2"} \X {"B1", "B2"}
                    /\ <<p.kind, k.kind>> \notin {"A1", "A2"} \X {"B1", "B2"}
  OBVIOUS
<1>1. fallback /\ Letter(p.kind) = Letter(k.kind)
  BY DEF MatchesRequest
<1> QED
  BY <1>1 DEF Letter

LEMMA Reliable == PageInv => StoredIsReliable
<1> SUFFICES ASSUME PageInv, status = "ok", Recorded = "stored" PROVE StoredIsReliable
  BY DEF StoredIsReliable
<1> DEFINE r == Readings(page)
<1>1. page \in Page
  BY DEF PageInv, PageTypeOK, StatusIsJustified
<1>2. page.abstract \in Block /\ page.claims \in Block /\ page.family \in Seq(Row) /\ page.citing \in Seq(Row)
  BY <1>1, PageSourceAssumption
<1>3. Normalizes(page) /\ MatchesRequest(key, page, asking = "bare")
  BY DEF Recorded
<1>4. page.number = "own" /\ page.consistent
  BY <1>3 DEF Normalizes, PublicationError, MatchesRequest
<1>5. key.kind # "" => \/ page.kind = key.kind
                       \/ answers.full # <<>> /\ Newest(answers.full) = "404"
                          /\ <<key.kind, page.kind>> \notin {"A1", "A2"} \X {"B1", "B2"}
                          /\ <<page.kind, key.kind>> \notin {"A1", "A2"} \X {"B1", "B2"}
  BY <1>3, KindIsKept DEF PageInv, BareIsSecond
<1>6. /\ r.title = Title(page) /\ r.abstract = OfficialText(page.abstract)
      /\ r.claims = OfficialText(page.claims)
      /\ r.filing_date = DateOf(page.filed) /\ r.publication_date = DateOf(page.published_on)
      /\ r.grant_date = GrantDate(page) /\ r.cpc = Cpc(page.cpc)
      /\ r.family_members = Lenient(FamilyMembers(page.family))
      /\ r.forward_citations = Lenient(ForwardCitations(page.citing))
  BY DEF Readings
<1>7. /\ {r.filing_date, r.publication_date, r.cpc, r.family_members, r.forward_citations}
           \cap {ParseError, NormalizationError} = {}
  BY <1>3 DEF Normalizes, Readings
<1> HIDE DEF r
<1>8. r.title.is = "value" => ~page.translated
  <2>1. page.translated => r.title = Unparseable
    BY <1>6, Zenon DEF Title
  <2>2. Unparseable.is # "value"
    BY DEF Unparseable, Missing
  <2> QED
    BY <2>1, <2>2, Zenon
<1>9. /\ r.abstract.is = "value" <=> page.abstract.source = "office" /\ page.abstract.text # ""
      /\ r.claims.is = "value" <=> page.claims.source = "office" /\ page.claims.text # ""
  BY <1>2, <1>6, TextIsOfficial
<1>10. r.grant_date.is = "value" => r.grant_date.value = page.published
  BY <1>6 DEF GrantDate, Given, ParseError, NotProvided, NotApplicable, Missing
<1>11. /\ r.family_members = Unparseable <=> \E i \in DOMAIN page.family : page.family[i] = "bad"
       /\ r.forward_citations = Unparseable <=> \E i \in DOMAIN page.citing : page.citing[i] = "bad"
  BY <1>2, <1>6, <1>7, ListIsLost
<1>12. \A i \in DOMAIN page.cpc : page.cpc[i] # "bad"
  BY <1>6, <1>7 DEF Cpc
<1>13. "malformed" \notin {page.filed, page.published_on}
  BY <1>6, <1>7 DEF DateOf
<1> QED
  BY <1>4, <1>5, <1>8, <1>9, <1>10, <1>11, <1>12, <1>13 DEF r, StoredIsReliable

\* A stored record is of the publication that was asked for, and takes from its page what
\* is reliable (_parse, _matches_request).
THEOREM RecordsAreReliable == PageSpec => []StoredIsReliable
BY Reliable, PageInvariant, PTL

-----------------------------------------------------------------------------
(* 3. Documents.  The rows of a list are as many as its entries, and as many   *)
(* precede the row of an entry as entries precede it.                          *)

\* The tables hold the rows of the records that were stored, and nothing else.
DocumentInv ==
  /\ made \in Seq(Record)
  /\ \A id \in 1..Len(made) : Valid(made[id])
  /\ documentRows = {DocumentRow(id, made[id]) : id \in 1..Len(made)}
  /\ childRows = UNION {ListRows(id, made[id]) : id \in 1..Len(made)}

LEMMA DocumentInvInit == DocumentInit => DocumentInv
<1> SUFFICES ASSUME DocumentInit PROVE DocumentInv
  OBVIOUS
<1>1. made \in Seq(Record) /\ Len(made) = 0 /\ 1..Len(made) = {}
  BY DEF DocumentInit
<1> QED
  BY <1>1 DEF DocumentInit, DocumentInv

LEMMA DocumentInvStep == DocumentInv /\ [DocumentNext]_documentVars => DocumentInv'
<1> SUFFICES ASSUME DocumentInv, [DocumentNext]_documentVars PROVE DocumentInv'
  OBVIOUS
<1>1. ASSUME NEW d \in Record, StoreDocument(d) PROVE DocumentInv'
  <2> DEFINE id == Len(made) + 1
  <2>1. Len(made) \in Nat /\ made \in Seq(Record)
    BY DEF DocumentInv
  <2>2. /\ Valid(d) /\ documentRows' = documentRows \cup {DocumentRow(id, d)}
        /\ childRows' = childRows \cup ListRows(id, d) /\ made' = Append(made, d)
    BY <1>1 DEF StoreDocument
  <2>3. /\ made' \in Seq(Record) /\ 1..Len(made') = (1..Len(made)) \cup {id}
        /\ made'[id] = d /\ \A i \in 1..Len(made) : made'[i] = made[i]
    BY <2>1, <2>2
  <2>4. \A i \in 1..Len(made') : Valid(made'[i])
    BY <2>2, <2>3 DEF DocumentInv
  <2> HIDE DEF id
  <2>5. documentRows' = {DocumentRow(i, made'[i]) : i \in 1..Len(made')}
    BY <2>2, <2>3 DEF DocumentInv
  <2>6. childRows' = UNION {ListRows(i, made'[i]) : i \in 1..Len(made')}
    BY <2>2, <2>3 DEF DocumentInv
  <2> QED
    BY <2>3, <2>4, <2>5, <2>6 DEF DocumentInv
<1>2. CASE UNCHANGED documentVars
  BY <1>2 DEF documentVars, DocumentInv
<1> QED
  BY <1>1, <1>2 DEF DocumentNext

\* The document tables hold what store_document has put there, for each record.
THEOREM DocumentInvariant == DocumentSpec => []DocumentInv
BY DocumentInvInit, DocumentInvStep, PTL DEF DocumentSpec

FirstRows(id, f, s, k) == {ListRow(id, f, i, s[i]) : i \in 1..k}

\* The first k rows of a list are k rows.
LEMMA RowsCount ==
  ASSUME NEW id, NEW f, NEW s, NEW k \in Nat
  PROVE  Cardinality(FirstRows(id, f, s, k)) = k
<1> DEFINE T == FirstRows(id, f, s, k)
           g == [i \in 1..k |-> ListRow(id, f, i, s[i])]
<1>1. g \in [1..k -> T] /\ \A t \in T : \E i \in 1..k : g[i] = t
  BY DEF FirstRows
<1>2. \A a, b \in 1..k : g[a] = g[b] => a = b
  BY DEF ListRow
<1>3. ExistsBijection(1..k, T)
  <2>1. g \in Bijection(1..k, T)
    BY <1>1, <1>2, Fun_IsBij
  <2> QED
    BY <2>1 DEF ExistsBijection
<1> QED
  BY <1>3, FS_CountingElements

\* Read in the order of their ordinals, the rows of a list are the list.
LEMMA EntriesAreList ==
  ASSUME DocumentInv, NEW id \in 1..Len(made), NEW f \in Lists, made[id].value[f] # None
  PROVE  Entries(id, f) = made[id].value[f]
<1>0. PICK s : s = made[id].value[f]
  OBVIOUS
<1> DEFINE rows == {r \in childRows : r.document = id /\ r.list = f}
           before(r) == {q \in rows : q.ordinal < r.ordinal}
<1>1. made[id] \in Record
  BY DEF DocumentInv
<1>2. PICK S : s \in Seq(S)
  BY <1>0, <1>1, RecordAssumption
<1>3. Len(s) \in Nat /\ DOMAIN s = 1..Len(s) /\ s = [i \in 1..Len(s) |-> s[i]]
  BY <1>2
<1>4. rows = FirstRows(id, f, s, Len(s))
  <2>1. ASSUME NEW i \in 1..Len(s) PROVE ListRow(id, f, i, s[i]) \in rows
    <3>1. ListRow(id, f, i, s[i]) \in ListRows(id, made[id])
      BY <1>0, <1>3 DEF ListRows
    <3>2. ListRow(id, f, i, s[i]) \in childRows
      BY <3>1 DEF DocumentInv
    <3> QED
      BY <3>2 DEF ListRow
  <2>2. ASSUME NEW r \in rows PROVE \E i \in 1..Len(s) : r = ListRow(id, f, i, s[i])
    <3>1. PICK j \in 1..Len(made) : r \in ListRows(j, made[j])
      BY DEF DocumentInv
    <3>2. PICK g \in Lists : \E i \in DOMAIN made[j].value[g] : r = ListRow(j, g, i, made[j].value[g][i])
      BY <3>1 DEF ListRows
    <3>3. j = id /\ g = f
      BY <3>2 DEF ListRow
    <3> QED
      BY <1>0, <1>3, <3>2, <3>3
  <2> QED
    BY <2>1, <2>2 DEF FirstRows
<1> HIDE DEF rows
<1>5. Cardinality(rows) = Len(s)
  BY <1>3, <1>4, RowsCount
<1>6. ASSUME NEW i \in 1..Len(s)
      PROVE  Cardinality(before(ListRow(id, f, i, s[i]))) = i - 1
  <2>1. before(ListRow(id, f, i, s[i])) = FirstRows(id, f, s, i - 1)
    BY <1>3, <1>4 DEF ListRow, FirstRows
  <2>2. i - 1 \in Nat
    BY <1>3
  <2> HIDE DEF before
  <2> QED
    BY <2>1, <2>2, RowsCount
<1>7. ASSUME NEW i \in 1..Len(s)
      PROVE  (CHOOSE r \in rows : Cardinality(before(r)) = i - 1) = ListRow(id, f, i, s[i])
  <2>1. ListRow(id, f, i, s[i]) \in rows
    BY <1>4 DEF FirstRows
  <2>2. ASSUME NEW r \in rows, Cardinality(before(r)) = i - 1 PROVE r = ListRow(id, f, i, s[i])
    <3>1. PICK k \in 1..Len(s) : r = ListRow(id, f, k, s[k])
      BY <1>4 DEF FirstRows
    <3>2. Cardinality(before(r)) = k - 1
      BY <1>6, <3>1
    <3>3. k = i
      BY <1>3, <2>2, <3>2
    <3> QED
      BY <3>1, <3>3
  <2>3. Cardinality(before(ListRow(id, f, i, s[i]))) = i - 1
    BY <1>6
  <2> HIDE DEF before
  <2> QED
    BY <2>1, <2>2, <2>3, Zenon
<1>8. Entries(id, f) =
        [i \in 1..Cardinality(rows) |-> (CHOOSE r \in rows : Cardinality(before(r)) = i - 1).value]
  BY DEF Entries, rows
<1>9. \A i \in 1..Len(s) : ListRow(id, f, i, s[i]).value = s[i]
  BY DEF ListRow
<1> HIDE DEF before
<1>10. [i \in 1..Cardinality(rows) |-> (CHOOSE r \in rows : Cardinality(before(r)) = i - 1).value]
        = [i \in 1..Len(s) |-> s[i]]
  BY <1>5, <1>7, <1>9
<1> QED
  BY <1>0, <1>3, <1>8, <1>10

\* Every record loads back as it was stored (db/documents.py:3).
LEMMA LoadIsInverse ==
  ASSUME DocumentInv, NEW id \in 1..Len(made)
  PROVE  Load(id) = made[id]
<1> DEFINE d == made[id]
           row == CHOOSE r \in documentRows : r.id = id
<1>1. d \in Record /\ Valid(d)
  BY DEF DocumentInv
<1>2. row = DocumentRow(id, d)
  <2>1. DocumentRow(id, d) \in documentRows /\ DocumentRow(id, d).id = id
    BY DEF DocumentInv, DocumentRow
  <2>2. ASSUME NEW r \in documentRows, r.id = id PROVE r = DocumentRow(id, d)
    BY <2>2 DEF DocumentInv, DocumentRow
  <2> HIDE DEF d
  <2> QED
    BY <2>1, <2>2
<1>3. Load(id) = [publication |-> row.publication, missing |-> row.missing,
                  value |-> [f \in Fields |-> IF f \in Scalars THEN row.value[f]
                                              ELSE IF f \notin row.missing THEN Entries(id, f) ELSE None]]
  BY DEF Load
<1> HIDE DEF row
<1>4. row.publication = d.publication /\ row.missing = d.missing
      /\ \A f \in Scalars : row.value[f] = d.value[f]
  BY <1>2 DEF DocumentRow
<1>5. ASSUME NEW f \in Fields
      PROVE  (IF f \in Scalars THEN row.value[f]
              ELSE IF f \notin row.missing THEN Entries(id, f) ELSE None) = d.value[f]
  <2>1. (d.value[f] = None) <=> f \in d.missing
    BY <1>1 DEF Valid, Explained
  <2>2. CASE f \in Scalars
    BY <1>4, <2>2
  <2>3. CASE f \notin Scalars /\ f \in d.missing
    BY <1>4, <2>1, <2>3
  <2>4. CASE f \notin Scalars /\ f \notin d.missing
    <3>1. f \in Lists
      BY <2>4 DEF Fields
    <3> QED
      BY <1>4, <2>1, <2>4, <3>1, EntriesAreList
  <2> QED
    BY <2>2, <2>3, <2>4
<1>6. /\ d = [publication |-> d.publication, value |-> d.value, missing |-> d.missing]
      /\ d.value = [f \in Fields |-> d.value[f]]
  BY <1>1, RecordAssumption
<1>7. [f \in Fields |-> IF f \in Scalars THEN row.value[f]
                        ELSE IF f \notin row.missing THEN Entries(id, f) ELSE None] = d.value
  BY <1>5, <1>6
<1> HIDE DEF d
<1>8. Load(id) = d
  BY <1>3, <1>4, <1>6, <1>7
<1> QED
  BY <1>8 DEF d

\* load_document(store_document(doc)) == doc (db/documents.py:3), whatever else is stored.
THEOREM DocumentsLoadBack == DocumentSpec => []LoadsBack
<1>1. DocumentInv => LoadsBack
  BY LoadIsInverse DEF DocumentInv, LoadsBack
<1> QED
  BY <1>1, DocumentInvariant, PTL

-----------------------------------------------------------------------------
(* 4. Taxonomies.  An edit keeps the codes of the version before it, as far as *)
(* the scheme has them, so that a chain of edits keeps those of its start.     *)

Code == UNION {SchemeEntries[v] : v \in DOMAIN SchemeEntries}

\* Every segment has its codes and its suggestions.
Coded(c) ==
  /\ {"scheme", "cpc", "suggestions"} \subseteq DOMAIN c
  /\ c.scheme \in DOMAIN SchemeEntries
  /\ DOMAIN c.cpc = DOMAIN c.suggestions
  /\ \A id \in DOMAIN c.cpc : c.cpc[id] \in Seq(Code) /\ c.suggestions[id] \in Seq(Code)

TaxonomyInv ==
  /\ versions \in Seq(Range(versions))
  /\ \A i \in DOMAIN versions : Coded(versions[i])
  /\ drafting # None => Coded(drafting)
  /\ CodesComeBack

\* The position of i among I.
Place(I, i) == Cardinality({j \in I : j < i})

\* Every position has its place, and every place its position.
LEMMA PlacesAreFilled ==
  ASSUME NEW m \in Nat, NEW I \in SUBSET (1..m)
  PROVE  /\ IsFiniteSet(I) /\ Cardinality(I) \in 0..m
         /\ \A i \in I : Place(I, i) \in 0..(Cardinality(I) - 1)
         /\ \A i, j \in I : Place(I, i) = Place(I, j) => i = j
         /\ \A n \in 1..Cardinality(I) : \E i \in I : Place(I, i) = n - 1
<1> DEFINE before(i) == {j \in I : j < i}
<1>1. IsFiniteSet(I) /\ Cardinality(I) \in Nat /\ Cardinality(I) <= m
  <2>1. IsFiniteSet(1..m) /\ Cardinality(1..m) = m
    BY FS_Interval
  <2> QED
    BY <2>1, FS_Subset, FS_CardinalityType
<1>2. ASSUME NEW i \in I
      PROVE  IsFiniteSet(before(i)) /\ Place(I, i) \in 0..(Cardinality(I) - 1)
  <2>1. before(i) \in SUBSET I /\ i \notin before(i)
    OBVIOUS
  <2>2. IsFiniteSet(before(i)) /\ Cardinality(before(i)) <= Cardinality(I) /\ Cardinality(before(i)) # Cardinality(I)
    BY <1>1, <2>1, FS_Subset
  <2> QED
    BY <1>1, <2>2, FS_CardinalityType DEF Place
<1>3. ASSUME NEW i \in I, NEW j \in I, j < i PROVE Place(I, j) # Place(I, i)
  <2>1. before(j) \in SUBSET before(i) /\ j \in before(i) /\ j \notin before(j)
    <3>1. \A k \in I : k \in Int
      OBVIOUS
    <3>2. \A k \in I : k < j => k < i
      BY <1>3, <3>1
    <3>3. j < i /\ ~(j < j)
      BY <1>3, <3>1
    <3> QED
      BY <3>2, <3>3, Zenon
  <2>2. Cardinality(before(j)) # Cardinality(before(i))
    BY <1>2, <2>1, FS_Subset
  <2> QED
    BY <2>2 DEF Place
<1>4. \A i, j \in I : Place(I, i) = Place(I, j) => i = j
  <2> SUFFICES ASSUME NEW i \in I, NEW j \in I, Place(I, i) = Place(I, j) PROVE i = j
    OBVIOUS
  <2>1. i \in Int /\ j \in Int
    OBVIOUS
  <2> QED
    BY <1>3, <2>1
<1> DEFINE f == [i \in I |-> Place(I, i)]
<1>5. f \in Surjection(I, 0..(Cardinality(I) - 1))
  <2>1. f \in Injection(I, 0..(Cardinality(I) - 1))
    BY <1>2, <1>4 DEF Injection, IsInjective
  <2>2. IsFiniteSet(0..(Cardinality(I) - 1)) /\ Cardinality(0..(Cardinality(I) - 1)) = Cardinality(I)
    <3>1. PICK n \in Nat : n = Cardinality(I)
      BY <1>1
    <3>2. IsFiniteSet(0..(n - 1)) /\ Cardinality(0..(n - 1)) = IF 0 > n - 1 THEN 0 ELSE n - 1 - 0 + 1
      BY ONLY 0 \in Int, n - 1 \in Int, FS_Interval
    <3>3. Cardinality(0..(n - 1)) = n
      BY <3>2
    <3> QED
      BY <3>1, <3>2, <3>3
  <2> QED
    BY <1>1, <2>1, <2>2, FS_Injection
<1>6. ASSUME NEW n \in 1..Cardinality(I) PROVE \E i \in I : Place(I, i) = n - 1
  <2>1. n - 1 \in 0..(Cardinality(I) - 1)
    BY <1>1
  <2> QED
    BY <1>5, <2>1 DEF Surjection
<1>7. Cardinality(I) \in 0..m
  BY <1>1
<1>8. \A i \in I : Place(I, i) \in 0..(Cardinality(I) - 1)
  BY <1>2
<1> QED
  BY <1>1, <1>4, <1>6, <1>7, <1>8

\* A subsequence has the entries at the positions it is made of.
LEMMA SubsequenceIs ==
  ASSUME NEW S, NEW s \in Seq(S), NEW I \in SUBSET (DOMAIN s)
  PROVE  /\ Subsequence(s, I) \in Seq(S)
         /\ Range(Subsequence(s, I)) = {s[i] : i \in I}
<1> DEFINE at(n) == CHOOSE i \in I : Cardinality({j \in I : j < i}) = n - 1
           t == Subsequence(s, I)
<1>1. Len(s) \in Nat /\ DOMAIN s = 1..Len(s) /\ \A i \in DOMAIN s : s[i] \in S
  OBVIOUS
<1>2. /\ Cardinality(I) \in Nat
      /\ \A i \in I : Place(I, i) \in 0..(Cardinality(I) - 1)
      /\ \A i, j \in I : Place(I, i) = Place(I, j) => i = j
      /\ \A n \in 1..Cardinality(I) : \E i \in I : Place(I, i) = n - 1
  BY <1>1, PlacesAreFilled
<1>3. \A n \in 1..Cardinality(I) : at(n) \in I /\ Place(I, at(n)) = n - 1
  BY <1>2 DEF Place
<1>4. t = [n \in 1..Cardinality(I) |-> s[at(n)]]
  BY DEF Subsequence
<1> HIDE DEF at, t
<1>5. \A n \in 1..Cardinality(I) : t[n] \in {s[i] : i \in I}
  BY <1>3, <1>4
<1>6. ASSUME NEW i \in I PROVE \E n \in 1..Cardinality(I) : t[n] = s[i]
  <2>1. PICK n : n = Place(I, i) + 1
    OBVIOUS
  <2>2. n \in 1..Cardinality(I) /\ n - 1 = Place(I, i)
    BY <1>2, <2>1
  <2>3. at(n) \in I /\ Place(I, at(n)) = Place(I, i)
    BY <1>3, <2>2
  <2>4. at(n) = i
    BY <1>2, <2>3
  <2> QED
    BY <1>4, <2>2, <2>4
<1>7. DOMAIN t = 1..Cardinality(I)
  BY <1>4
<1>8. t \in Seq(S)
  <2>1. PICK n \in Nat : n = Cardinality(I)
    BY <1>2
  <2>2. t \in [1..n -> S]
    BY <1>1, <1>3, <1>4, <2>1
  <2> QED
    BY <2>2
<1>9. Range(t) = {s[i] : i \in I}
  BY <1>5, <1>6, <1>7 DEF Range
<1> QED
  BY <1>8, <1>9 DEF t

\* What a sequence keeps when repeats are dropped, and entries outside or inside a set.
LEMMA OnceIs ==
  ASSUME NEW S, NEW s \in Seq(S)
  PROVE  Once(s) \in Seq(S) /\ Range(Once(s)) = Range(s)
<1> DEFINE I == {i \in DOMAIN s : \A k \in 1..(i - 1) : s[k] # s[i]}
<1>1. Len(s) \in Nat /\ DOMAIN s = 1..Len(s)
  OBVIOUS
<1>2. Subsequence(s, I) \in Seq(S) /\ Range(Subsequence(s, I)) = {s[i] : i \in I}
  <2>1. I \in SUBSET (DOMAIN s)
    OBVIOUS
  <2> HIDE DEF I
  <2> QED
    BY <2>1, SubsequenceIs
<1>3. ASSUME NEW i \in DOMAIN s PROVE \E k \in I : s[k] = s[i]
  <2> DEFINE same == {k \in DOMAIN s : s[k] = s[i]}
  <2>1. same \in SUBSET Nat /\ same # {}
    BY <1>1
  <2>2. PICK k \in same : \A j \in same : k <= j
    BY <2>1, LeastRow
  <2>3. ASSUME NEW j \in 1..(k - 1) PROVE s[j] # s[k]
    <3>1. j \in DOMAIN s /\ ~(k <= j)
      BY <1>1, <2>2
    <3> QED
      BY <2>2, <3>1
  <2> QED
    BY <2>2, <2>3
<1>4. Range(s) = {s[i] : i \in I}
  BY <1>3 DEF Range
<1> QED
  BY <1>2, <1>4 DEF Once

LEMMA FilteredIs ==
  ASSUME NEW S, NEW s \in Seq(S), NEW A
  PROVE  /\ Within(s, A) \in Seq(S) /\ Range(Within(s, A)) = Range(s) \cap A
         /\ Without(s, A) \in Seq(S) /\ Range(Without(s, A)) = Range(s) \ A
<1> DEFINE I == {i \in DOMAIN s : s[i] \in A}
           J == {i \in DOMAIN s : s[i] \notin A}
<1>1. I \in SUBSET (DOMAIN s) /\ J \in SUBSET (DOMAIN s)
  OBVIOUS
<1>2. {s[i] : i \in I} = Range(s) \cap A /\ {s[i] : i \in J} = Range(s) \ A
  BY DEF Range
<1>3. Within(s, A) = Subsequence(s, I) /\ Without(s, A) = Subsequence(s, J)
  BY DEF Within, Without
<1> HIDE DEF I, J
<1>4. Subsequence(s, I) \in Seq(S) /\ Range(Subsequence(s, I)) = {s[i] : i \in I}
  BY <1>1, SubsequenceIs
<1>5. Subsequence(s, J) \in Seq(S) /\ Range(Subsequence(s, J)) = {s[i] : i \in J}
  BY <1>1, SubsequenceIs
<1> QED
  BY <1>2, <1>3, <1>4, <1>5

-----------------------------------------------------------------------------

\* A version more: the sequence stays one, and keeps what it had.
LEMMA OneMore ==
  ASSUME NEW s, s \in Seq(Range(s)), NEW e
  PROVE  LET t == Append(s, e)
         IN /\ t \in Seq(Range(t)) /\ Len(t) = Len(s) + 1 /\ t[Len(s) + 1] = e
            /\ Len(s) \in Nat /\ DOMAIN s = 1..Len(s) /\ DOMAIN t = 1..(Len(s) + 1)
            /\ \A i \in 1..Len(s) : t[i] = s[i]
<1> DEFINE S == Range(s) \cup {e}
           t == Append(s, e)
<1>1. s \in Seq(S) /\ e \in S
  OBVIOUS
<1>2. /\ Len(t) = Len(s) + 1 /\ t[Len(s) + 1] = e
      /\ Len(s) \in Nat /\ DOMAIN s = 1..Len(s) /\ DOMAIN t = 1..(Len(s) + 1)
      /\ \A i \in 1..Len(s) : t[i] = s[i]
  <2> HIDE DEF S
  <2> QED
    BY <1>1
<1>3. t \in Seq(Range(t))
  <2> HIDE DEF t
  <2>1. PICK n \in Nat : n = Len(s) + 1
    BY <1>2
  <2>2. t \in Seq(S)
    BY <1>1 DEF t
  <2>3. \A i \in 1..n : t[i] \in Range(t)
    BY <1>2, <2>1 DEF Range
  <2>4. t \in [1..n -> Range(t)]
    BY <1>2, <2>1, <2>2, <2>3
  <2> QED
    BY <2>4
<1> QED
  BY <1>2, <1>3

LEMMA TaxonomyInvInit == TaxonomyInit => TaxonomyInv
BY DEF TaxonomyInit, TaxonomyInv, CodesComeBack, Range

LEMMA SeqOfCodes ==
  ASSUME NEW S, NEW T, NEW s \in Seq(S), Range(s) \subseteq T
  PROVE  s \in Seq(T)
<1>1. PICK n \in Nat : s \in [1..n -> S]
  OBVIOUS
<1>2. \A i \in 1..n : s[i] \in T
  BY <1>1 DEF Range
<1>3. s \in [1..n -> T]
  BY <1>1, <1>2
<1> QED
  BY <1>3

LEMMA SeqGrows ==
  ASSUME NEW S, NEW T, S \subseteq T
  PROVE  \A s \in Seq(S) : s \in Seq(T)
OBVIOUS

\* Accepted picks are from the list.
LEMMA AcceptedIs ==
  ASSUME NEW P, NEW picks \in Seq(P), NEW candidates
  PROVE  AcceptPicks(picks, candidates) \in Seq(Range(candidates))
<1> DEFINE good == Within(Once(picks), Range(candidates))
<1>1. good \in Seq(Range(candidates))
  <2>1. Once(picks) \in Seq(P)
    BY OnceIs
  <2>2. good \in Seq(P) /\ Range(good) = Range(Once(picks)) \cap Range(candidates)
    BY <2>1, FilteredIs
  <2> QED
    BY <2>2, SeqOfCodes
<1>2. AcceptPicks(picks, candidates)
        = SubSeq(good, 1, IF Len(good) < MaxCodes THEN Len(good) ELSE MaxCodes)
  BY DEF AcceptPicks
<1> HIDE DEF good
<1>3. ASSUME NEW n \in 0..Len(good) PROVE SubSeq(good, 1, n) \in Seq(Range(candidates))
  BY <1>1
<1>4. (IF Len(good) < MaxCodes THEN Len(good) ELSE MaxCodes) \in 0..Len(good)
  BY <1>1, TaxonomyAssumption DEF IsList
<1> QED
  BY <1>2, <1>3, <1>4

\* What an edit suggests: of the codes before, those the scheme has and nobody chose.
LEMMA Suggested ==
  ASSUME NEW f \in Seq(Code), NEW g \in Seq(Code), NEW A, NEW C
  PROVE  /\ Without(Once(Within(f \o g, A)), C) \in Seq(Code)
         /\ Range(Without(Once(Within(f \o g, A)), C)) = ((Range(f) \cup Range(g)) \cap A) \ C
<1>1. Len(f) \in Nat /\ Len(g) \in Nat /\ DOMAIN f = 1..Len(f) /\ DOMAIN g = 1..Len(g)
  OBVIOUS
<1>2. f \o g \in Seq(Code) /\ Range(f \o g) = Range(f) \cup Range(g)
  <2>1. /\ f \o g \in Seq(Code) /\ DOMAIN (f \o g) = 1..(Len(f) + Len(g))
        /\ \A i \in 1..Len(f) : (f \o g)[i] = f[i]
        /\ \A i \in 1..Len(g) : (f \o g)[Len(f) + i] = g[i]
    BY <1>1
  <2>2. PICK h : h = f \o g
    OBVIOUS
  <2>3. ASSUME NEW i \in DOMAIN h PROVE h[i] \in Range(f) \cup Range(g)
    <3>1. CASE i \in 1..Len(f)
      BY <1>1, <2>1, <2>2, <3>1 DEF Range
    <3>2. CASE i \notin 1..Len(f)
      <4>1. i - Len(f) \in 1..Len(g) /\ Len(f) + (i - Len(f)) = i
        BY <1>1, <2>1, <2>2, <3>2
      <4>2. h[i] = g[i - Len(f)]
        BY <2>1, <2>2, <4>1
      <4> QED
        BY <1>1, <4>1, <4>2 DEF Range
    <3> QED
      BY <3>1, <3>2
  <2>4. ASSUME NEW i \in 1..Len(f) PROVE i \in DOMAIN h /\ h[i] = f[i]
    BY <1>1, <2>1, <2>2
  <2>5. ASSUME NEW i \in 1..Len(g) PROVE Len(f) + i \in DOMAIN h /\ h[Len(f) + i] = g[i]
    BY <1>1, <2>1, <2>2
  <2>6. Range(h) = Range(f) \cup Range(g)
    BY <1>1, <2>3, <2>4, <2>5 DEF Range
  <2> QED
    BY <2>1, <2>2, <2>6
<1>3. Within(f \o g, A) \in Seq(Code) /\ Range(Within(f \o g, A)) = (Range(f) \cup Range(g)) \cap A
  <2>1. PICK h : h = f \o g
    OBVIOUS
  <2>2. h \in Seq(Code) /\ Range(h) = Range(f) \cup Range(g)
    BY <1>2, <2>1
  <2>3. Within(h, A) \in Seq(Code) /\ Range(Within(h, A)) = Range(h) \cap A
    BY <2>2, FilteredIs
  <2> QED
    BY <2>1, <2>2, <2>3, Zenon
<1>4. /\ Once(Within(f \o g, A)) \in Seq(Code)
      /\ Range(Once(Within(f \o g, A))) = (Range(f) \cup Range(g)) \cap A
  BY <1>3, OnceIs
<1> QED
  BY <1>4, FilteredIs

\* The version that an edit makes of the one before it, if it is not the first.
Edited(e, v, first, old) ==
  LET chosen == [id \in {s.id : s \in Range(e)} |->
                   Once((CHOOSE s \in Range(e) : s.id = id).cpc)]
  IN [origin |-> "user_edit", scheme |-> v, cpc |-> chosen,
      suggestions |-> [id \in DOMAIN chosen |->
        IF first THEN <<>>
        ELSE Without(Once(Within(Pool(old, id), SchemeEntries[v])), Range(chosen[id]))],
      rejected |-> IF first THEN {} ELSE old.rejected, from |-> None]

\* What an edited version keeps of the last of the versions "vs".
Extends(vs, new) ==
  /\ new.origin = "user_edit"
  /\ \A id \in DOMAIN new.cpc : Range(new.cpc[id]) \cap Range(new.suggestions[id]) = {}
  /\ vs # <<>> =>
       LET old == vs[Len(vs)]
       IN /\ new.rejected = old.rejected
          /\ \A id \in DOMAIN new.cpc \cap DOMAIN old.cpc :
               (Range(old.cpc[id]) \cup Range(old.suggestions[id])) \cap SchemeEntries[new.scheme]
                 \subseteq Range(new.cpc[id]) \cup Range(new.suggestions[id])

\* A version made by an edit: the edit's codes, and in the suggestions what was there before.
LEMMA EditKeeps ==
  ASSUME TaxonomyInv, NEW e \in Edits, NEW v \in DOMAIN SchemeEntries, Edit(e, v)
  PROVE  \E new :
           /\ versions' = Append(versions, new)
           /\ Coded(new) /\ Extends(versions, new)
<1>1. PICK old : old = versions[Len(versions)]
  OBVIOUS
<1>2. PICK first \in BOOLEAN : first = (versions = <<>>)
  OBVIOUS
<1> DEFINE ids == {s.id : s \in Range(e)}
           entry(id) == CHOOSE s \in Range(e) : s.id = id
           chosen == [id \in ids |-> Once(entry(id).cpc)]
           again(id) == Without(Once(Within(Pool(old, id), SchemeEntries[v])), Range(chosen[id]))
           suggestions == [id \in ids |-> IF first THEN <<>> ELSE again(id)]
           new == [origin |-> "user_edit", scheme |-> v, cpc |-> chosen, suggestions |-> suggestions,
                   rejected |-> IF first THEN {} ELSE old.rejected, from |-> None]
<1>3. /\ versions' = Append(versions, new)
      /\ \A id \in ids : Range(chosen[id]) \subseteq SchemeEntries[v]
  <2>1. /\ versions' = Append(versions, Edited(e, v, versions = <<>>, versions[Len(versions)]))
        /\ \A id \in ids : Range(chosen[id]) \subseteq SchemeEntries[v]
    BY Zenon DEF Edit, Last, Edited
  <2>2. Edited(e, v, versions = <<>>, versions[Len(versions)]) = Edited(e, v, first, old)
    BY <1>1, <1>2, Zenon
  <2>3. Edited(e, v, first, old) = new
    BY Zenon DEF Edited
  <2> QED
    BY <2>1, <2>2, <2>3, Zenon
<1>4. ~first => Coded(old)
  <2>1. ASSUME ~first PROVE Len(versions) \in DOMAIN versions
    <3>1. versions # <<>>
      BY <1>2, <2>1, Zenon
    <3>2. \A S : \A s \in Seq(S) : s # <<>> => Len(s) \in DOMAIN s
      OBVIOUS
    <3> QED
      BY <3>1, <3>2 DEF TaxonomyInv
  <2> QED
    BY <1>1, <2>1 DEF TaxonomyInv
<1>5. ASSUME NEW id \in ids PROVE chosen[id] \in Seq(Code)
  <2>1. entry(id) \in Range(e)
    OBVIOUS
  <2>2. PICK c : c = entry(id).cpc
    OBVIOUS
  <2>3. c \in Seq(Range(c))
    BY <2>1, <2>2, TaxonomyAssumption DEF IsList
  <2>4. Once(c) \in Seq(Range(c)) /\ Range(Once(c)) = Range(c)
    BY <2>3, OnceIs
  <2>5. chosen[id] = Once(c)
    BY <2>2
  <2> HIDE DEF chosen, ids
  <2>6. Range(c) \subseteq Code
    BY <1>3, <2>4, <2>5 DEF Code
  <2> QED
    BY <2>3, <2>4, <2>5, <2>6
<1>6. ASSUME NEW id, Coded(old)
      PROVE  At(old.suggestions, id) \in Seq(Code) /\ At(old.cpc, id) \in Seq(Code)
  <2>1. <<>> \in Seq(Code)
    OBVIOUS
  <2> QED
    BY <1>6, <2>1 DEF At, Coded
<1>7. ASSUME NEW id, Coded(old)
      PROVE  /\ again(id) \in Seq(Code)
             /\ Range(again(id)) = ((Range(At(old.suggestions, id)) \cup Range(At(old.cpc, id)))
                                      \cap SchemeEntries[v]) \ Range(chosen[id])
  <2> HIDE DEF chosen
  <2> QED
    BY <1>6, <1>7, Suggested DEF Pool
<1> HIDE DEF chosen, again, ids
<1>8. /\ new.origin = "user_edit" /\ new.scheme = v /\ new.cpc = chosen
      /\ new.suggestions = suggestions /\ new.rejected = IF first THEN {} ELSE old.rejected
      /\ {"scheme", "cpc", "suggestions"} \subseteq DOMAIN new
  OBVIOUS
<1>9. DOMAIN chosen = ids /\ DOMAIN suggestions = ids
  BY DEF chosen
<1>10. ASSUME NEW id \in ids
       PROVE  /\ suggestions[id] \in Seq(Code)
              /\ Range(chosen[id]) \cap Range(suggestions[id]) = {}
  <2>1. CASE first
    <3>1. suggestions[id] = <<>>
      BY <2>1
    <3>2. <<>> \in Seq(Code) /\ Range(<<>>) = {}
      BY DEF Range
    <3> QED
      BY <3>1, <3>2
  <2>2. CASE ~first
    <3>1. suggestions[id] = again(id)
      BY <2>2
    <3> QED
      BY <1>4, <1>7, <2>2, <3>1
  <2> QED
    BY <2>1, <2>2
<1>11. ASSUME NEW id \in ids, id \in DOMAIN old.cpc, ~first
       PROVE  (Range(old.cpc[id]) \cup Range(old.suggestions[id])) \cap SchemeEntries[v]
                \subseteq Range(chosen[id]) \cup Range(suggestions[id])
  <2>1. At(old.cpc, id) = old.cpc[id] /\ At(old.suggestions, id) = old.suggestions[id]
    BY <1>4, <1>11 DEF At, Coded
  <2>2. suggestions[id] = again(id)
    BY <1>11
  <2> HIDE DEF suggestions
  <2> QED
    BY <1>4, <1>7, <1>11, <2>1, <2>2
<1> HIDE DEF new, suggestions
<1>12. Coded(new)
  BY <1>5, <1>8, <1>9, <1>10 DEF Coded
<1>13. \A id \in DOMAIN new.cpc : Range(new.cpc[id]) \cap Range(new.suggestions[id]) = {}
  BY <1>8, <1>9, <1>10
<1>14. ASSUME versions # <<>>
       PROVE  /\ new.rejected = old.rejected
              /\ \A id \in DOMAIN new.cpc \cap DOMAIN old.cpc :
                   (Range(old.cpc[id]) \cup Range(old.suggestions[id])) \cap SchemeEntries[v]
                     \subseteq Range(new.cpc[id]) \cup Range(new.suggestions[id])
  BY <1>2, <1>8, <1>9, <1>11, <1>14
<1>15. Extends(versions, new)
  <2>1. new.origin = "user_edit" /\ new.scheme = v
    BY <1>8
  <2> QED
    BY <1>1, <1>13, <1>14, <2>1, Zenon DEF Extends
<1> QED
  BY <1>3, <1>12, <1>15

\* CodesComeBack of any sequence of versions.
ComesBack(vs) ==
  \A i, j \in DOMAIN vs :
    i < j /\ (\A k \in (i + 1)..j : vs[k].origin = "user_edit") =>
      LET old == vs[i]
          new == vs[j]
          kept(id) == Range(new.cpc[id]) \cup Range(new.suggestions[id])
      IN /\ old.rejected \subseteq new.rejected
         /\ \A id \in DOMAIN new.cpc : Range(new.cpc[id]) \cap Range(new.suggestions[id]) = {}
         /\ \A id \in DOMAIN old.cpc :
              (\A k \in i..j : id \in DOMAIN vs[k].cpc) =>
                \A c \in Range(old.cpc[id]) \cup Range(old.suggestions[id]) :
                  (\A k \in i..j : c \in SchemeEntries[vs[k].scheme]) => c \in kept(id)

\* Chains of edits go on through an edit, and through no draft.
LEMMA OneVersionMore ==
  ASSUME NEW s, s \in Seq(Range(s)), \A i \in DOMAIN s : Coded(s[i]), ComesBack(s),
         NEW new, Coded(new), new.origin = "llm_draft" \/ Extends(s, new)
  PROVE  LET t == Append(s, new)
         IN t \in Seq(Range(t)) /\ (\A i \in DOMAIN t : Coded(t[i])) /\ ComesBack(t)
<1> DEFINE t == Append(s, new)
           n == Len(s)
<1>1. /\ t \in Seq(Range(t)) /\ t[n + 1] = new /\ n \in Nat
      /\ DOMAIN s = 1..n /\ DOMAIN t = 1..(n + 1) /\ \A i \in 1..n : t[i] = s[i]
  BY OneMore
<1> HIDE DEF t, n
<1>2. ASSUME NEW i \in DOMAIN t PROVE Coded(t[i])
  <2>1. i \in DOMAIN s \/ i = n + 1
    BY <1>1
  <2> QED
    BY <1>1, <2>1
<1>3. ASSUME NEW i \in DOMAIN t, NEW j \in DOMAIN t, i < j,
             \A k \in (i + 1)..j : t[k].origin = "user_edit"
      PROVE  /\ t[i].rejected \subseteq t[j].rejected
             /\ \A id \in DOMAIN t[j].cpc : Range(t[j].cpc[id]) \cap Range(t[j].suggestions[id]) = {}
             /\ \A id \in DOMAIN t[i].cpc :
                  (\A k \in i..j : id \in DOMAIN t[k].cpc) =>
                    \A c \in Range(t[i].cpc[id]) \cup Range(t[i].suggestions[id]) :
                      (\A k \in i..j : c \in SchemeEntries[t[k].scheme])
                        => c \in Range(t[j].cpc[id]) \cup Range(t[j].suggestions[id])
  <2>1. ASSUME NEW h \in 1..n, i < h, h <= j
        PROVE  /\ s[i].rejected \subseteq s[h].rejected
               /\ \A id \in DOMAIN s[h].cpc : Range(s[h].cpc[id]) \cap Range(s[h].suggestions[id]) = {}
               /\ \A id \in DOMAIN s[i].cpc :
                    (\A k \in i..h : id \in DOMAIN s[k].cpc) =>
                      \A c \in Range(s[i].cpc[id]) \cup Range(s[i].suggestions[id]) :
                        (\A k \in i..h : c \in SchemeEntries[s[k].scheme])
                          => c \in Range(s[h].cpc[id]) \cup Range(s[h].suggestions[id])
    <3>1. i \in DOMAIN s /\ h \in DOMAIN s
      BY <1>1, <2>1
    <3>2. \A k \in (i + 1)..h : s[k].origin = "user_edit"
      <4> SUFFICES ASSUME NEW k \in (i + 1)..h PROVE s[k].origin = "user_edit"
        OBVIOUS
      <4>1. k \in (i + 1)..j /\ k \in 1..n
        BY <1>1, <1>3, <2>1
      <4> QED
        BY <1>1, <1>3, <4>1
    <3> QED
      BY <2>1, <3>1, <3>2, Zenon DEF ComesBack
  <2>2. CASE j \in 1..n
    <3>1. i \in 1..n /\ \A k \in i..j : k \in 1..n
      BY <1>1, <1>3, <2>2
    <3>2. j <= j
      BY <1>1
    <3>3. t[i] = s[i] /\ t[j] = s[j] /\ \A k \in i..j : t[k] = s[k]
      BY <1>1, <2>2, <3>1
    <3>4. /\ s[i].rejected \subseteq s[j].rejected
          /\ \A id \in DOMAIN s[j].cpc : Range(s[j].cpc[id]) \cap Range(s[j].suggestions[id]) = {}
          /\ \A id \in DOMAIN s[i].cpc :
               (\A k \in i..j : id \in DOMAIN s[k].cpc) =>
                 \A c \in Range(s[i].cpc[id]) \cup Range(s[i].suggestions[id]) :
                   (\A k \in i..j : c \in SchemeEntries[s[k].scheme])
                     => c \in Range(s[j].cpc[id]) \cup Range(s[j].suggestions[id])
      BY <1>3, <2>1, <2>2, <3>2, Zenon
    <3>5. ASSUME NEW id \in DOMAIN t[i].cpc, \A k \in i..j : id \in DOMAIN t[k].cpc,
                 NEW c \in Range(t[i].cpc[id]) \cup Range(t[i].suggestions[id]),
                 \A k \in i..j : c \in SchemeEntries[t[k].scheme]
          PROVE  c \in Range(t[j].cpc[id]) \cup Range(t[j].suggestions[id])
      <4>1. /\ \A k \in i..j : id \in DOMAIN s[k].cpc
            /\ \A k \in i..j : c \in SchemeEntries[s[k].scheme]
        BY <3>3, <3>5, Zenon
      <4> QED
        BY <3>3, <3>4, <3>5, <4>1, Zenon
    <3> QED
      BY <3>3, <3>4, <3>5, Zenon
  <2>3. CASE j = n + 1
    <3>1. i \in 1..n /\ n \in 1..n /\ n \in i..j /\ j \in i..j /\ j \in (i + 1)..j
      BY <1>1, <1>3, <2>3
    <3>2. t[i] = s[i] /\ t[n] = s[n] /\ t[j] = new
      BY <1>1, <2>3, <3>1
    <3>3. Extends(s, new)
      <4>1. new.origin = "user_edit"
        BY <1>3, <3>1, <3>2
      <4> QED
        BY <4>1
    <3>4. PICK old : old = s[n]
      OBVIOUS
    <3>5. /\ \A id \in DOMAIN new.cpc : Range(new.cpc[id]) \cap Range(new.suggestions[id]) = {}
          /\ new.rejected = old.rejected
          /\ \A id \in DOMAIN new.cpc \cap DOMAIN old.cpc :
               (Range(old.cpc[id]) \cup Range(old.suggestions[id])) \cap SchemeEntries[new.scheme]
                 \subseteq Range(new.cpc[id]) \cup Range(new.suggestions[id])
      <4>1. s # <<>>
        BY <1>1, <3>1
      <4> QED
        BY <3>3, <3>4, <4>1 DEF Extends, n
    <3>6. /\ s[i].rejected \subseteq old.rejected
          /\ \A id \in DOMAIN s[i].cpc :
               (\A k \in i..n : id \in DOMAIN s[k].cpc) =>
                 \A c \in Range(s[i].cpc[id]) \cup Range(s[i].suggestions[id]) :
                   (\A k \in i..n : c \in SchemeEntries[s[k].scheme])
                     => c \in Range(old.cpc[id]) \cup Range(old.suggestions[id])
      <4>1. CASE i = n
        BY <3>1, <3>4, <4>1
      <4>2. CASE i < n
        <5>1. n <= j
          BY <1>1, <2>3
        <5> QED
          BY <2>1, <3>1, <3>4, <4>2, <5>1, Zenon
      <4>3. i = n \/ i < n
        BY <1>1, <3>1
      <4> QED
        BY <4>1, <4>2, <4>3, Zenon
    <3>7. ASSUME NEW id \in DOMAIN t[i].cpc, \A k \in i..j : id \in DOMAIN t[k].cpc,
                 NEW c \in Range(t[i].cpc[id]) \cup Range(t[i].suggestions[id]),
                 \A k \in i..j : c \in SchemeEntries[t[k].scheme]
          PROVE  c \in Range(t[j].cpc[id]) \cup Range(t[j].suggestions[id])
      <4>1. \A k \in i..n : k \in i..j /\ t[k] = s[k]
        BY <1>1, <2>3, <3>1
      <4>2. c \in Range(old.cpc[id]) \cup Range(old.suggestions[id])
        <5>1. \A k \in i..n : id \in DOMAIN s[k].cpc /\ c \in SchemeEntries[s[k].scheme]
          BY <3>7, <4>1, Zenon
        <5> QED
          BY <3>2, <3>6, <3>7, <5>1, Zenon
      <4>3. id \in DOMAIN new.cpc /\ id \in DOMAIN old.cpc /\ c \in SchemeEntries[new.scheme]
        BY <3>1, <3>2, <3>4, <3>7, Zenon
      <4> QED
        BY <3>2, <3>5, <4>2, <4>3
    <3> QED
      BY <3>2, <3>5, <3>6, <3>7
  <2>4. j \in 1..n \/ j = n + 1
    BY <1>1
  <2> QED
    BY <2>2, <2>3, <2>4, Zenon
<1>4. ComesBack(t)
  BY <1>3, Zenon DEF ComesBack
<1> QED
  BY <1>1, <1>2, <1>4 DEF t

LEMMA TaxonomyInvStep == TaxonomyInv /\ [TaxonomyNext]_taxonomyVars => TaxonomyInv'
<1> SUFFICES ASSUME TaxonomyInv, [TaxonomyNext]_taxonomyVars PROVE TaxonomyInv'
  OBVIOUS
<1> USE DEF TaxonomyInv
<1>0. (CodesComeBack <=> ComesBack(versions)) /\ (CodesComeBack' <=> ComesBack(versions'))
  BY Zenon DEF CodesComeBack, ComesBack
<1>1. ASSUME versions' = versions, drafting' # None => Coded(drafting')
      PROVE  TaxonomyInv'
  BY <1>0, <1>1
<1>2. ASSUME NEW d \in Drafts, NEW v \in DOMAIN SchemeEntries, BeginDraft(d, v)
      PROVE  TaxonomyInv'
  <2>1. Coded(drafting')
    BY <1>2 DEF BeginDraft, Coded
  <2>2. versions' = versions
    BY <1>2 DEF BeginDraft
  <2> QED
    BY <1>1, <2>1, <2>2
<1>3. CASE RepeatedSegment
  <2>1. Coded(drafting')
    BY <1>3 DEF RepeatedSegment, Coded
  <2>2. versions' = versions
    BY <1>3 DEF RepeatedSegment
  <2> QED
    BY <1>1, <2>1, <2>2
<1>4. ASSUME NEW o \in Offers, TakeUpSegment(o)
      PROVE  TaxonomyInv'
  <2>1. Coded(drafting')
    <3> DEFINE id == SegmentId(Slug[Current.name], {drafting.ids[n] : n \in DOMAIN drafting.ids})
               accepted == AcceptPicks(o.picks, o.candidates)
               left == Without(o.candidates, Range(accepted))
    <3>1. drafting # None /\ Coded(drafting)
      BY <1>4 DEF TakeUpSegment
    <3>2. /\ o.candidates \in Seq(Range(o.candidates)) /\ o.picks \in Seq(Range(o.picks))
          /\ Range(o.candidates) \subseteq Code
      <4>1. Range(o.candidates) \subseteq SchemeEntries[drafting.scheme]
        BY <1>4 DEF TakeUpSegment
      <4> QED
        BY <3>1, <4>1, TaxonomyAssumption DEF Code, Coded, IsList
    <3>3. accepted \in Seq(Code) /\ left \in Seq(Code)
      <4>1. PICK offered, picks : offered = o.candidates /\ picks = o.picks
        OBVIOUS
      <4>2. offered \in Seq(Range(offered)) /\ picks \in Seq(Range(picks)) /\ Range(offered) \subseteq Code
        BY <3>2, <4>1
      <4>3. offered \in Seq(Code)
        BY <4>2, SeqOfCodes
      <4>4. PICK a : a = AcceptPicks(picks, offered)
        OBVIOUS
      <4>5. a \in Seq(Range(offered))
        BY <4>2, <4>4, AcceptedIs
      <4>6. a \in Seq(Code)
        BY <4>2, <4>5, Zenon, SeqGrows
      <4>7. Without(offered, Range(a)) \in Seq(Code)
        BY <4>3, FilteredIs
      <4>8. accepted = a /\ left = Without(offered, Range(a))
        BY <4>1, <4>4
      <4> QED
        BY <4>6, <4>7, <4>8
    <3>4. /\ {"scheme", "cpc", "suggestions"} \subseteq DOMAIN drafting'
          /\ drafting'.scheme = drafting.scheme
          /\ drafting'.cpc = With(drafting.cpc, id, accepted)
          /\ drafting'.suggestions = With(drafting.suggestions, id, left)
      BY <1>4, <3>1 DEF TakeUpSegment, Coded
    <3> HIDE DEF id, accepted, left
    <3> QED
      BY <3>1, <3>3, <3>4 DEF Coded, With
  <2>2. versions' = versions
    BY <1>4 DEF TakeUpSegment
  <2> QED
    BY <1>1, <2>1, <2>2
<1>5. CASE DraftFails
  BY <1>1, <1>5 DEF DraftFails
<1>6. CASE EndDraft
  <2>1. PICK new : /\ versions' = Append(versions, new) /\ new.origin = "llm_draft"
                   /\ Coded(new) /\ drafting' = None
    <3>1. drafting # None /\ Coded(drafting)
      BY <1>6 DEF EndDraft
    <3> QED
      BY <1>6, <3>1 DEF EndDraft, Coded
  <2> QED
    BY <1>0, <2>1, OneVersionMore
<1>7. ASSUME NEW e \in Edits, NEW v \in DOMAIN SchemeEntries, Edit(e, v)
      PROVE  TaxonomyInv'
  <2>1. PICK new : Extends(versions, new) /\ versions' = Append(versions, new) /\ Coded(new)
    BY <1>7, EditKeeps
  <2>2. drafting' = drafting
    BY <1>7 DEF Edit
  <2> QED
    BY <1>0, <2>1, <2>2, OneVersionMore
<1>8. CASE UNCHANGED taxonomyVars
  BY <1>1, <1>8 DEF taxonomyVars
<1> QED
  BY <1>2, <1>3, <1>4, <1>5, <1>6, <1>7, <1>8 DEF TaxonomyNext

\* Every version of a taxonomy has codes and suggestions for the same segments, and what its first
\* edit keeps, its last one keeps too.
THEOREM TaxonomyInvariant == TaxonomySpec => []TaxonomyInv
<1> QED
  BY TaxonomyInvInit, TaxonomyInvStep, PTL DEF TaxonomySpec

\* Whatever chain of edits follows a version, by hand or after other drafts, no code that was
\* chosen or suggested is forgotten while the segment and the scheme have it (content_from_edit).
THEOREM NoCodeIsForgotten == TaxonomySpec => []CodesComeBack
<1>1. TaxonomyInv => CodesComeBack
  BY DEF TaxonomyInv
<1> QED
  BY TaxonomyInvariant, <1>1, PTL

-----------------------------------------------------------------------------
(* Drafts: identifiers are free, and a segment that is taken up is accounted for. *)

\* Of the numbers from 2 on, one is free before they are more than the identifiers taken.
LEMMA SegmentIdIsFree ==
  ASSUME NEW base \in Seq(Nat), NEW taken, IsFiniteSet(taken)
  PROVE  SegmentId(base, taken) \notin taken
<1>1. CASE base \notin taken
  BY <1>1 DEF SegmentId
<1>2. CASE base \in taken
  <2>1. PICK c \in Nat : c = Cardinality(taken)
    BY FS_CardinalityType
  <2> DEFINE numbers == 2..(c + 2)
             free == {n \in numbers : Append(base, n) \notin taken}
  <2>2. \A m, n \in numbers : Append(base, m) = Append(base, n) => m = n
    <3>1. Len(base) \in Nat
      OBVIOUS
    <3>2. \A n \in numbers : n \in Nat /\ Append(base, n)[Len(base) + 1] = n
      BY <3>1
    <3> QED
      BY <3>2
  <2>3. free # {}
    <3> SUFFICES ASSUME \A n \in numbers : Append(base, n) \in taken PROVE FALSE
      OBVIOUS
    <3>1. PICK N, I : N = numbers /\ I = {Append(base, n) : n \in numbers}
      OBVIOUS
    <3>2. ExistsBijection(N, I)
      <4>1. [n \in N |-> Append(base, n)] \in Bijection(N, I)
        BY <2>2, <3>1 DEF Bijection, Injection, Surjection, IsInjective
      <4> QED
        BY <4>1 DEF ExistsBijection
    <3>3. IsFiniteSet(N) /\ Cardinality(N) = c + 1
      <4>1. 2 \in Int /\ c + 2 \in Int /\ ~ (2 > c + 2) /\ (c + 2) - 2 + 1 = c + 1
        BY <2>1
      <4>2. PICK b : b = c + 2
        OBVIOUS
      <4>3. IsFiniteSet(2..b) /\ Cardinality(2..b) = IF 2 > b THEN 0 ELSE b - 2 + 1
        BY <4>1, <4>2, FS_Interval
      <4> QED
        BY <3>1, <4>1, <4>2, <4>3
    <3>4. Cardinality(I) = c + 1
      BY <3>2, <3>3, FS_Bijection
    <3>5. I \in SUBSET taken
      BY <3>1
    <3>6. Cardinality(I) <= c
      BY <2>1, <3>5, FS_Subset
    <3> QED
      BY <2>1, <3>4, <3>6
  <2>4. PICK n \in free : \A m \in free : n <= m
    <3>1. free \in SUBSET Nat
      OBVIOUS
    <3> HIDE DEF free
    <3> QED
      BY <2>3, <3>1, LeastRow
  <2>5. \A m \in 2..(n - 1) : Append(base, m) \in taken
    BY <2>1, <2>4
  <2>6. n \in 2..(Cardinality(taken) + 2) /\ Append(base, n) \notin taken
    BY <2>1, <2>4
  <2>7. PICK x : x = CHOOSE k \in 2..(Cardinality(taken) + 2) :
                       /\ Append(base, k) \notin taken
                       /\ \A m \in 2..(k - 1) : Append(base, m) \in taken
    OBVIOUS
  <2>8. Append(base, x) \notin taken
    BY <2>5, <2>6, <2>7
  <2> QED
    BY <1>2, <2>7, <2>8 DEF SegmentId
<1> QED
  BY <1>1, <1>2

LEMMA ContainsIs ==
  ASSUME NEW S, NEW s \in Seq(S), NEW x
  PROVE  Contains(s, x) <=> x \in Range(s)
BY DEF Contains, Range

\* The beginning and the rest of a sequence.
LEMMA PartsOf ==
  ASSUME NEW S, NEW s \in Seq(S), NEW m \in Nat, NEW l, l = IF Len(s) < m THEN Len(s) ELSE m
  PROVE  /\ SubSeq(s, 1, l) \in Seq(S) /\ Len(SubSeq(s, 1, l)) = l /\ l \in Nat
         /\ Range(SubSeq(s, 1, l)) \subseteq Range(s)
         /\ Range(s) = Range(SubSeq(s, 1, l)) \cup Range(SubSeq(s, m + 1, Len(s)))
         /\ Len(s) < m => SubSeq(s, 1, l) = s
<1>1. PICK n \in Nat : Len(s) = n /\ DOMAIN s = 1..n
  OBVIOUS
<1>2. l \in Nat /\ l <= n /\ l <= m /\ (l < m => l = n)
  BY <1>1
<1>3. PICK t : t = SubSeq(s, 1, l)
  OBVIOUS
<1>4. t \in Seq(S) /\ Len(t) = l /\ DOMAIN t = 1..l /\ \A i \in 1..l : t[i] = s[i]
  BY <1>1, <1>2, <1>3
<1>5. PICK u : u = SubSeq(s, m + 1, n)
  OBVIOUS
<1>6. CASE n < m
  <2>1. l = n
    BY <1>1, <1>6
  <2>2. t = s
    BY <1>1, <1>4, <2>1
  <2>3. Range(u) \subseteq Range(s)
    <3>1. ~ (m + 1 <= n)
      BY <1>6
    <3>2. u = <<>>
      BY <1>1, <1>5, <3>1
    <3> QED
      BY <3>2 DEF Range
  <2> QED
    BY <1>1, <1>2, <1>3, <1>4, <1>5, <2>2, <2>3
<1>7. CASE ~ (n < m)
  <2>1. l = m /\ m <= n
    BY <1>1, <1>7
  <2>2. DOMAIN u = 1..(n - m) /\ \A i \in 1..(n - m) : u[i] = s[i + m]
    BY <1>1, <1>5, <2>1
  <2>3. Range(t) = {s[i] : i \in 1..m}
    BY <1>4, <2>1 DEF Range
  <2>4. Range(u) = {s[i] : i \in (m + 1)..n}
    <3>1. \A i \in 1..(n - m) : i + m \in (m + 1)..n
      BY <2>1
    <3>2. \A i \in (m + 1)..n : i - m \in 1..(n - m) /\ (i - m) + m = i
      BY <2>1
    <3>3. Range(u) = {u[i] : i \in 1..(n - m)}
      BY <2>2 DEF Range
    <3>4. \A i \in 1..(n - m) : \E h \in (m + 1)..n : u[i] = s[h]
      BY <2>2, <3>1
    <3>5. \A h \in (m + 1)..n : \E i \in 1..(n - m) : u[i] = s[h]
      <4>1. ASSUME NEW h \in (m + 1)..n PROVE \E i \in 1..(n - m) : u[i] = s[h]
        <5>1. PICK i \in 1..(n - m) : i + m = h
          BY <3>2
        <5> QED
          BY <2>2, <5>1
      <4> QED
        BY <4>1
    <3> DEFINE H == {s[i] : i \in (m + 1)..n}
    <3>6. \A x \in Range(u) : x \in H
      BY <3>3, <3>4
    <3>7. \A x \in H : x \in Range(u)
      BY <3>3, <3>5
    <3> QED
      BY <3>6, <3>7
  <2>5. Range(s) = {s[i] : i \in 1..n}
    BY <1>1 DEF Range
  <2>6. \A i \in 1..n : i \in 1..m \/ i \in (m + 1)..n
    BY <2>1
  <2>7. \A i \in 1..m : i \in 1..n
    BY <2>1
  <2>8. \A i \in (m + 1)..n : i \in 1..n
    OBVIOUS
  <2>9. Range(s) = Range(t) \cup Range(u)
    BY <2>3, <2>4, <2>5, <2>6, <2>7, <2>8
  <2> QED
    BY <1>1, <1>2, <1>3, <1>4, <1>5, <1>7, <2>9
<1> QED
  BY <1>6, <1>7

\* A term that is kept of a usable keyword is among the terms, in some spelling.
LEMMA TermsAre ==
  ASSUME NEW segment, IsList(segment.keywords), NEW i \in DOMAIN segment.keywords,
         segment.keywords[i].term \in UsableTerms,
         \A k \in DOMAIN segment.keywords : DOMAIN Kept(segment.keywords[k]) \in SUBSET Nat,
         NEW j \in DOMAIN Kept(segment.keywords[i])
  PROVE  Fold[Kept(segment.keywords[i])[j]] \in {Fold[t] : t \in Terms(segment)}
<1> DEFINE list == segment.keywords
<1>2. DOMAIN list \in SUBSET Nat
  BY DEF IsList
<1> DEFINE groups == {k \in DOMAIN list : list[k].term \in UsableTerms}
           places == UNION {{<<k, n>> : n \in DOMAIN Kept(list[k])} : k \in groups}
           term(p) == Kept(list[p[1]])[p[2]]
           before(o, p) == o[1] < p[1] \/ (o[1] = p[1] /\ o[2] < p[2])
           same == {p \in places : Fold[term(p)] = Fold[term(<<i, j>>)]}
           firsts == {p[1] : p \in same}
<1>3. Terms(segment) = {term(p) : p \in {q \in places : \A o \in places : before(o, q) => Fold[term(o)] # Fold[term(q)]}}
  BY Zenon DEF Terms
<1>4. ASSUME NEW k \in groups, NEW n \in DOMAIN Kept(list[k]) PROVE <<k, n>> \in places
  OBVIOUS
<1>5. ASSUME NEW p \in places
      PROVE  p = <<p[1], p[2]>> /\ p[1] \in groups /\ p[2] \in DOMAIN Kept(list[p[1]])
  <2>1. PICK k \in groups : p \in {<<k, n>> : n \in DOMAIN Kept(list[k])}
    OBVIOUS
  <2>2. PICK n \in DOMAIN Kept(list[k]) : p = <<k, n>>
    BY <2>1
  <2>3. p[1] = k /\ p[2] = n
    BY <2>2
  <2> QED
    BY <2>2, <2>3
<1> HIDE DEF places
<1>6. <<i, j>> \in same
  BY <1>4
<1>7. PICK k \in firsts : \A m \in firsts : k <= m
  <2>1. firsts # {}
    BY <1>6
  <2>2. firsts \in SUBSET Nat
    BY <1>2, <1>5
  <2> HIDE DEF firsts
  <2> QED
    BY <2>1, <2>2, LeastRow
<1> DEFINE seconds == {n \in DOMAIN Kept(list[k]) : <<k, n>> \in same}
<1>8. PICK n \in seconds : \A m \in seconds : n <= m
  <2>1. seconds # {}
    <3>1. PICK p \in same : p[1] = k
      BY <1>7
    <3>2. p = <<k, p[2]>> /\ p[2] \in DOMAIN Kept(list[k])
      BY <1>5, <3>1
    <3>3. p[2] \in seconds
      BY <3>1, <3>2
    <3> QED
      BY <3>3
  <2>2. seconds \in SUBSET Nat
    <3>1. k \in groups
      BY <1>5, <1>7
    <3> QED
      BY <3>1
  <2> HIDE DEF seconds
  <2> QED
    BY <2>1, <2>2, LeastRow
<1>9. <<k, n>> \in places /\ Fold[term(<<k, n>>)] = Fold[term(<<i, j>>)]
  BY <1>8
<1>10. ASSUME NEW o \in places, before(o, <<k, n>>) PROVE Fold[term(o)] # Fold[term(<<k, n>>)]
  <2> SUFFICES ASSUME o \in same PROVE FALSE
    BY <1>9, SMTT(60)
  <2>1. o[1] \in firsts /\ o[1] \in Nat /\ k \in Nat /\ k <= o[1]
    BY <1>2, <1>5, <1>7, <1>9, SMTT(60)
  <2>2. o[1] = k /\ o[2] < n
    BY <1>10, <2>1
  <2>3. o = <<k, o[2]>> /\ o[2] \in DOMAIN Kept(list[k])
    BY <1>5, <2>2
  <2>4. o[2] \in seconds
    BY <2>3
  <2>5. n <= o[2] /\ n \in Nat /\ o[2] \in Nat
    <3>1. k \in groups
      BY <1>5, <1>7, SMTT(60)
    <3> QED
      BY <1>8, <2>3, <2>4, <3>1, SMTT(60)
  <2> QED
    BY <2>2, <2>5
<1>11. term(<<k, n>>) \in Terms(segment)
  BY <1>3, <1>9, <1>10
<1>12. term(<<i, j>>) = Kept(list[i])[j]
  OBVIOUS
<1> QED
  BY <1>9, <1>11, <1>12

LEMMA OneMoreInFront ==
  ASSUME NEW T, NEW x \in T, NEW s \in Seq(T)
  PROVE  /\ Len(<<x>> \o s) = 1 + Len(s) /\ (<<x>> \o s) \in Seq(T) /\ (<<x>> \o s)[1] = x
         /\ \A i \in 1..Len(s) : (<<x>> \o s)[i + 1] = s[i]
OBVIOUS

\* What is kept and what is set aside of a keyword.
LEMMA KeptIs ==
  ASSUME NEW k, IsList(k.synonyms)
  PROVE  /\ DOMAIN Kept(k) \in SUBSET Nat /\ 1 \in DOMAIN Kept(k) /\ Kept(k)[1] = k.term
         /\ \A s \in Range(k.synonyms) :
              \/ Fold[s] = Fold[k.term]
              \/ s \in SetAside(k)
              \/ \E j \in DOMAIN Kept(k) : Kept(k)[j] = s
<1>1. PICK S : S = Range(k.synonyms)
  OBVIOUS
<1>2. PICK alike : alike = {s \in Range(k.synonyms) : Fold[s] = Fold[k.term]}
  OBVIOUS
<1>3. PICK syn : syn = Synonyms(k)
  OBVIOUS
<1>4. syn \in Seq(S) /\ Range(syn) = (S \ alike) \cap UsableTerms
  <2>1. PICK once : once = Once(k.synonyms)
    OBVIOUS
  <2>2. once \in Seq(S) /\ Range(once) = S
    BY <1>1, <2>1, OnceIs DEF IsList
  <2>3. PICK rest : rest = Without(once, alike)
    OBVIOUS
  <2>4. rest \in Seq(S) /\ Range(rest) = S \ alike
    BY <2>2, <2>3, FilteredIs
  <2>5. syn = Within(rest, UsableTerms)
    BY <1>2, <1>3, <2>1, <2>3, Zenon DEF Synonyms, Usable
  <2> QED
    BY <2>4, <2>5, FilteredIs
<1>5. MaxSynonyms \in Nat
  BY TaxonomyAssumption
<1>6. PICK l : l = IF Len(syn) < MaxSynonyms THEN Len(syn) ELSE MaxSynonyms
  OBVIOUS
<1>7. PICK head, tail : head = SubSeq(syn, 1, l) /\ tail = SubSeq(syn, MaxSynonyms + 1, Len(syn))
  OBVIOUS
<1>8. head \in Seq(S) /\ Range(syn) = Range(head) \cup Range(tail)
  BY <1>4, <1>5, <1>6, <1>7, PartsOf
<1>9. Kept(k) = <<k.term>> \o head
  BY <1>3, <1>6, <1>7, Zenon DEF Kept
<1>10. /\ DOMAIN Kept(k) \in SUBSET Nat /\ 1 \in DOMAIN Kept(k) /\ Kept(k)[1] = k.term
       /\ \A s \in Range(head) : \E j \in DOMAIN Kept(k) : Kept(k)[j] = s
  <2>1. PICK T : T = S \cup {k.term}
    OBVIOUS
  <2>2. PICK n \in Nat : Len(head) = n /\ DOMAIN head = 1..n
    BY <1>8
  <2>4. k.term \in T /\ head \in Seq(T)
    BY <1>8, <2>1
  <2>5. PICK kept : kept = <<k.term>> \o head
    OBVIOUS
  <2>6. /\ DOMAIN kept = 1..(1 + n) /\ kept[1] = k.term
        /\ \A i \in 1..n : kept[i + 1] = head[i] /\ i + 1 \in 1..(1 + n)
    <3>1. /\ Len(kept) = 1 + Len(head) /\ kept \in Seq(T) /\ kept[1] = k.term
          /\ \A i \in 1..Len(head) : kept[i + 1] = head[i]
      BY <2>4, <2>5, OneMoreInFront
    <3>2. DOMAIN kept = 1..(1 + n) /\ \A i \in 1..n : kept[i + 1] = head[i]
      BY <2>2, <3>1
    <3>3. \A i \in 1..n : i + 1 \in 1..(1 + n)
      BY <2>2
    <3> QED
      BY <3>1, <3>2, <3>3
  <2>7. \A s \in Range(head) : \E j \in DOMAIN kept : kept[j] = s
    BY <2>2, <2>6 DEF Range
  <2>8. Kept(k) = kept
    BY <1>9, <2>5
  <2> QED
    BY <2>6, <2>7, <2>8
<1>11. ASSUME NEW s \in Range(k.synonyms), s \notin alike, s \notin Range(head) PROVE s \in SetAside(k)
  <2>1. CASE s \notin UsableTerms
    BY <1>2, <1>11, <2>1 DEF SetAside
  <2>2. CASE s \in UsableTerms
    <3>1. s \in Range(tail)
      BY <1>1, <1>4, <1>8, <1>11, <2>2
    <3> QED
      BY <1>3, <1>7, <3>1 DEF SetAside
  <2> QED
    BY <2>1, <2>2
<1> QED
  BY <1>2, <1>10, <1>11

\* The picks of the model: accepted from the list as far as there is room, and else rejected.
LEMMA PicksAre ==
  ASSUME NEW offer \in Offers, NEW accepted, accepted = AcceptPicks(offer.picks, offer.candidates)
  PROVE  /\ \A p \in Range(offer.picks) :
              Contains(accepted, p) \/ p \in RejectedPicks(offer.picks, offer.candidates)
         /\ \A p \in Range(offer.picks) \cap Range(offer.candidates) :
              Contains(accepted, p) \/ Len(accepted) = MaxCodes
         /\ \A x \in Range(offer.candidates) :
              Contains(accepted, x) <=> ~ Contains(Without(offer.candidates, Range(accepted)), x)
         /\ Len(accepted) <= MaxCodes
<1>1. PICK picks, candidates, P, C : /\ picks = offer.picks /\ candidates = offer.candidates
                                     /\ P = Range(picks) /\ C = Range(candidates)
  OBVIOUS
<1>2. picks \in Seq(P) /\ candidates \in Seq(C) /\ MaxCodes \in Nat
  BY <1>1, TaxonomyAssumption DEF IsList
<1>3. PICK good : good = Within(Once(picks), C)
  OBVIOUS
<1>4. good \in Seq(P) /\ Range(good) = P \cap C
  <2>1. PICK once : once = Once(picks)
    OBVIOUS
  <2>2. once \in Seq(P) /\ Range(once) = P
    BY <1>1, <1>2, <2>1, OnceIs
  <2> QED
    BY <1>3, <2>1, <2>2, FilteredIs
<1>5. PICK l : l = IF Len(good) < MaxCodes THEN Len(good) ELSE MaxCodes
  OBVIOUS
<1>6. accepted = SubSeq(good, 1, l)
  BY <1>1, <1>3, <1>5, Zenon DEF AcceptPicks
<1>7. /\ accepted \in Seq(P) /\ Len(accepted) = l /\ l \in Nat
      /\ Range(accepted) \subseteq P \cap C
      /\ Len(good) < MaxCodes => accepted = good
  BY <1>2, <1>4, <1>5, <1>6, PartsOf
<1>8. \A p : Contains(accepted, p) <=> p \in Range(accepted)
  BY <1>7, ContainsIs
<1>9. ASSUME NEW p \in P, p \notin Range(accepted) PROVE p \in RejectedPicks(picks, candidates)
  <2>1. PICK i \in DOMAIN picks : picks[i] = p
    BY <1>1 DEF Range
  <2>2. picks[i] \notin Range(AcceptPicks(picks, candidates))
    BY <1>1, <1>9, <2>1
  <2> QED
    BY <2>1, <2>2 DEF RejectedPicks
<1>10. \A p \in P \cap C : p \in Range(accepted) \/ Len(accepted) = MaxCodes
  <2>1. Len(good) \in Nat
    BY <1>4
  <2> QED
    BY <1>2, <1>4, <1>5, <1>7, <2>1
<1>11. \A x \in C : x \in Range(accepted) <=> ~ Contains(Without(candidates, Range(accepted)), x)
  <2>1. PICK rest, A : rest = Without(candidates, A) /\ A = Range(accepted)
    OBVIOUS
  <2>2. rest \in Seq(C) /\ Range(rest) = C \ A
    BY <1>1, <1>2, <2>1, FilteredIs
  <2>3. \A x : Contains(rest, x) <=> x \in Range(rest)
    BY <2>2, ContainsIs
  <2>4. \A x \in C : x \in A <=> ~ Contains(rest, x)
    BY <2>2, <2>3
  <2> QED
    BY <2>1, <2>4, Zenon
<1>12. Len(accepted) <= MaxCodes
  <2>1. Len(good) \in Nat
    BY <1>4
  <2> QED
    BY <1>2, <1>5, <1>7, <2>1
<1>13. \A p \in P : Contains(accepted, p) \/ p \in RejectedPicks(picks, candidates)
  BY <1>8, <1>9
<1>14. \A p \in P \cap C : Contains(accepted, p) \/ Len(accepted) = MaxCodes
  BY <1>8, <1>10
<1>15. \A x \in C : Contains(accepted, x) <=> ~ Contains(Without(candidates, Range(accepted)), x)
  BY <1>8, <1>11, Zenon
<1> QED
  BY <1>1, <1>12, <1>13, <1>14, <1>15, Zenon

\* A segment that is taken up is accounted for, once what is rejected of it is on record.
LEMMA SegmentIsAccounted ==
  ASSUME NEW d \in Drafts, NEW segment \in Range(d), NEW offer \in Offers, NEW c, NEW id,
         c.cpc[id] = AcceptPicks(offer.picks, offer.candidates),
         c.suggestions[id] = Without(offer.candidates, Range(c.cpc[id])),
         Rejected(id, "term", UNION {SetAside(k) : k \in Range(segment.keywords)}) \subseteq c.rejected,
         Rejected(id, "cpc", RejectedPicks(offer.picks, offer.candidates)) \subseteq c.rejected
  PROVE  AccountsForSegment(c, id, segment, offer, Terms(segment))
<1>1. PICK found : found = {Fold[t] : t \in Terms(segment)}
  OBVIOUS
<1>2. /\ \A p \in Range(offer.picks) : Contains(c.cpc[id], p) \/ IsRejected(c, id, "cpc", p)
      /\ \A p \in Range(offer.picks) \cap Range(offer.candidates) :
           Contains(c.cpc[id], p) \/ Len(c.cpc[id]) = MaxCodes
      /\ \A x \in Range(offer.candidates) : Contains(c.cpc[id], x) <=> ~ Contains(c.suggestions[id], x)
      /\ Len(c.cpc[id]) <= MaxCodes
  <2>1. PICK accepted : accepted = c.cpc[id]
    OBVIOUS
  <2>2. \A p \in RejectedPicks(offer.picks, offer.candidates) : IsRejected(c, id, "cpc", p)
    BY DEF Rejected, IsRejected
  <2>3. /\ \A p \in Range(offer.picks) :
             Contains(accepted, p) \/ p \in RejectedPicks(offer.picks, offer.candidates)
        /\ \A p \in Range(offer.picks) \cap Range(offer.candidates) :
             Contains(accepted, p) \/ Len(accepted) = MaxCodes
        /\ \A x \in Range(offer.candidates) :
             Contains(accepted, x) <=> ~ Contains(Without(offer.candidates, Range(accepted)), x)
        /\ Len(accepted) <= MaxCodes
    BY <2>1, PicksAre
  <2> QED
    BY <2>1, <2>2, <2>3, Zenon
<1>3. ASSUME NEW k \in Range(segment.keywords)
      PROVE  /\ IsRejected(c, id, "term", k.term) \/ Fold[k.term] \in found
             /\ k.term \in UsableTerms =>
                  \A s \in Range(k.synonyms) : IsRejected(c, id, "term", s) \/ Fold[s] \in found
  <2>1. IsList(segment.keywords) /\ \A h \in Range(segment.keywords) : IsList(h.synonyms)
    BY TaxonomyAssumption
  <2>2. PICK list : list = segment.keywords
    OBVIOUS
  <2>3. PICK i \in DOMAIN list : list[i] = k
    BY <2>2 DEF Range
  <2>4. ASSUME NEW x \in SetAside(k) PROVE IsRejected(c, id, "term", x)
    BY <2>4 DEF Rejected, IsRejected
  <2>5. \A h \in DOMAIN list : IsList(list[h].synonyms)
    BY <2>1, <2>2 DEF Range
  <2>6. \A h \in DOMAIN segment.keywords : DOMAIN Kept(segment.keywords[h]) \in SUBSET Nat
    BY <2>2, <2>5, KeptIs
  <2>7. /\ 1 \in DOMAIN Kept(k) /\ Kept(k)[1] = k.term
        /\ \A s \in Range(k.synonyms) :
             \/ Fold[s] = Fold[k.term] \/ s \in SetAside(k) \/ \E j \in DOMAIN Kept(k) : Kept(k)[j] = s
    BY <2>1, KeptIs
  <2>8. CASE k.term \notin UsableTerms
    <3>1. k.term \in SetAside(k)
      BY <2>8 DEF SetAside
    <3> QED
      BY <2>4, <2>8, <3>1
  <2>9. CASE k.term \in UsableTerms
    <3>1. ASSUME NEW j \in DOMAIN Kept(k) PROVE Fold[Kept(k)[j]] \in found
      BY <1>1, <2>1, <2>2, <2>3, <2>6, <2>9, <3>1, TermsAre
    <3> QED
      BY <2>4, <2>7, <3>1
  <2> QED
    BY <2>8, <2>9
<1> QED
  BY <1>1, <1>2, <1>3, Zenon DEF AccountsForSegment


\* What is accounted for stays so as more is rejected.
LEMMA StaysAccounted ==
  ASSUME NEW c, NEW e, NEW id, NEW segment, NEW offer, NEW terms,
         AccountsForSegment(c, id, segment, offer, terms),
         e.cpc[id] = c.cpc[id], e.suggestions[id] = c.suggestions[id], c.rejected \subseteq e.rejected
  PROVE  AccountsForSegment(e, id, segment, offer, terms)
<1>1. \A kind, x : IsRejected(c, id, kind, x) => IsRejected(e, id, kind, x)
  BY DEF IsRejected
<1> QED
  BY <1>1, Zenon DEF AccountsForSegment

\* A draft, of which the segments before the next one are taken up.
Taken(d) ==
  /\ {"draft", "scheme", "next", "ids", "cpc", "suggestions", "terms", "rejected", "offers"} \subseteq DOMAIN d
  /\ d.draft \in Drafts /\ d.next \in Nat /\ d.next >= 1 /\ d.next <= Len(d.draft) + 1
  /\ \A j \in 1..(d.next - 1) : d.draft[j].name \in DOMAIN d.ids
  /\ \A n \in DOMAIN d.ids : \E j \in 1..(d.next - 1) : d.draft[j].name = n
  /\ \A m, n \in DOMAIN d.ids : m # n => d.ids[m] # d.ids[n]
  /\ \A j \in 1..(d.next - 1) :
       (\E k \in 1..(j - 1) : d.draft[k].name = d.draft[j].name)
         => IsRejected(d, d.ids[d.draft[j].name], "segment", d.draft[j].name)
  /\ \A n \in DOMAIN d.ids :
       /\ d.ids[n] \in DOMAIN d.cpc /\ d.ids[n] \in DOMAIN d.suggestions
       /\ d.ids[n] \in DOMAIN d.terms /\ d.ids[n] \in DOMAIN d.offers
       /\ AccountsForSegment(d, d.ids[n], d.draft[FirstNamed(d.draft, n)],
                             d.offers[d.ids[n]], d.terms[d.ids[n]])

DraftInv ==
  /\ drafting # None => Taken(drafting)
  /\ versions \in Seq(Range(versions))
  /\ DraftAccountsForAll

LEMMA DraftLength ==
  ASSUME NEW d, Taken(d)
  PROVE  /\ d.draft \in Seq(Range(d.draft)) /\ Len(d.draft) \in Nat
         /\ DOMAIN d.draft = 1..Len(d.draft)
<1>1. PICK list : list = d.draft
  OBVIOUS
<1>2. list \in Seq(Range(list))
  BY <1>1, TaxonomyAssumption DEF Taken, IsList
<1>3. Len(list) \in Nat /\ DOMAIN list = 1..Len(list)
  BY <1>2
<1> QED
  BY <1>1, <1>2, <1>3

\* The identifiers given are finitely many.
LEMMA TakenAreFinite ==
  ASSUME NEW d, Taken(d)
  PROVE  IsFiniteSet({d.ids[n] : n \in DOMAIN d.ids})
<1>1. PICK p \in Nat : p = d.next - 1
  BY DEF Taken
<1> DEFINE name(j) == d.draft[j].name
<1>2. IsFiniteSet(1..p)
  BY <1>1, FS_Interval
<1>3. IsFiniteSet({d.draft[j].name : j \in 1..p})
  <2>1. PICK I : I = 1..p
    OBVIOUS
  <2> HIDE DEF name
  <2>2. PICK A : A = {name(j) : j \in I}
    OBVIOUS
  <2>3. [j \in I |-> name(j)] \in Surjection(I, A)
    BY <2>2 DEF Surjection
  <2>4. IsFiniteSet(A)
    BY <1>2, <2>1, <2>3, FS_Surjection
  <2> QED
    BY <2>1, <2>2, <2>4 DEF name
<1>4. DOMAIN d.ids \subseteq {d.draft[j].name : j \in 1..p}
  BY <1>1, Zenon DEF Taken
<1>5. PICK N : N = DOMAIN d.ids
  OBVIOUS
<1>6. IsFiniteSet(N)
  BY <1>3, <1>4, <1>5, FS_Subset
<1>7. PICK A, ids : A = {ids[n] : n \in N} /\ ids = d.ids
  OBVIOUS
<1>8. [n \in N |-> ids[n]] \in Surjection(N, A)
  BY <1>7 DEF Surjection
<1>9. IsFiniteSet(A)
  BY <1>6, <1>8, FS_Surjection
<1> QED
  BY <1>5, <1>7, <1>9


\* The first segment of a name is the one that is next, if none before it has its name.
LEMMA FirstIsNext ==
  ASSUME NEW d, Taken(d), d.next <= Len(d.draft), d.draft[d.next].name \notin DOMAIN d.ids
  PROVE  FirstNamed(d.draft, d.draft[d.next].name) = d.next
<1>1. PICK list, p, name : list = d.draft /\ p = d.next /\ name = list[p].name
  OBVIOUS
<1>2. PICK n \in Nat : n = Len(list) /\ DOMAIN list = 1..n
  BY <1>1, DraftLength
<1>3. p \in Nat /\ p >= 1 /\ p <= n /\ \A k \in 1..(p - 1) : list[k].name # name
  BY <1>1, <1>2, Zenon DEF Taken
<1>4. PICK j : j = FirstNamed(list, name)
  OBVIOUS
<1>5. p \in DOMAIN list
  BY <1>2, <1>3
<1>6. j \in DOMAIN list /\ list[j].name = name /\ \A k \in 1..(j - 1) : list[k].name # name
  BY <1>1, <1>3, <1>4, <1>5, Zenon DEF FirstNamed
<1>7. ~ (j < p)
  <2> SUFFICES ASSUME j < p PROVE FALSE
    OBVIOUS
  <2>1. j \in 1..(p - 1)
    BY <1>2, <1>3, <1>6
  <2> QED
    BY <1>3, <1>6, <2>1
<1>8. ~ (p < j)
  <2> SUFFICES ASSUME p < j PROVE FALSE
    OBVIOUS
  <2>1. p \in 1..(j - 1)
    BY <1>2, <1>3, <1>6
  <2> QED
    BY <1>1, <1>6, <2>1
<1> QED
  BY <1>1, <1>2, <1>3, <1>4, <1>6, <1>7, <1>8

\* A segment that repeats a name, with its rejection.
LEMMA RepeatedTaken ==
  ASSUME NEW d, Taken(d), d.next <= Len(d.draft), NEW name, name = d.draft[d.next].name,
         name \in DOMAIN d.ids, NEW rejected,
         d.rejected \subseteq rejected, [segment |-> d.ids[name], kind |-> "segment", value |-> name] \in rejected
  PROVE  Taken([d EXCEPT !.next = @ + 1, !.rejected = rejected])
<1>1. PICK e : e = [d EXCEPT !.next = @ + 1, !.rejected = rejected]
  OBVIOUS
<1>2. /\ DOMAIN e = DOMAIN d /\ e.draft = d.draft /\ e.next = d.next + 1 /\ e.ids = d.ids
      /\ e.cpc = d.cpc /\ e.suggestions = d.suggestions /\ e.terms = d.terms /\ e.offers = d.offers
      /\ e.rejected = rejected
  BY <1>1 DEF Taken
<1>3. PICK p \in Nat : p = d.next /\ p >= 1 /\ e.next - 1 = p
  BY <1>2 DEF Taken
<1>4. \A j \in 1..p : j \in 1..(p - 1) \/ j = p
  BY <1>3
<1>5. \A j \in 1..(p - 1) : j \in 1..p
  BY <1>3
<1>6. e.next \in Nat /\ e.next >= 1 /\ e.next <= Len(e.draft) + 1
  <2>1. Len(d.draft) \in Nat
    BY DraftLength
  <2> QED
    BY <1>2, <1>3, <2>1
<1>7. /\ \A j \in 1..p : e.draft[j].name \in DOMAIN e.ids
      /\ \A n \in DOMAIN e.ids : \E j \in 1..p : e.draft[j].name = n
  BY <1>2, <1>3, <1>4, <1>5, ZenonT(60) DEF Taken
<1>8. \A j \in 1..p : (\E k \in 1..(j - 1) : e.draft[k].name = e.draft[j].name)
        => IsRejected(e, e.ids[e.draft[j].name], "segment", e.draft[j].name)
  <2>1. ASSUME NEW j \in 1..(p - 1), \E k \in 1..(j - 1) : e.draft[k].name = e.draft[j].name
        PROVE  IsRejected(e, e.ids[e.draft[j].name], "segment", e.draft[j].name)
    <3>1. IsRejected(d, d.ids[d.draft[j].name], "segment", d.draft[j].name)
      BY <1>2, <1>3, <2>1, Zenon DEF Taken
    <3> QED
      BY <1>2, <3>1 DEF IsRejected
  <2>2. IsRejected(e, e.ids[e.draft[p].name], "segment", e.draft[p].name)
    BY <1>2, <1>3 DEF IsRejected
  <2> QED
    BY <1>4, <2>1, <2>2, Zenon
<1>9. ASSUME NEW n \in DOMAIN e.ids
      PROVE  /\ e.ids[n] \in DOMAIN e.cpc /\ e.ids[n] \in DOMAIN e.suggestions
             /\ e.ids[n] \in DOMAIN e.terms /\ e.ids[n] \in DOMAIN e.offers
             /\ AccountsForSegment(e, e.ids[n], e.draft[FirstNamed(e.draft, n)],
                                   e.offers[e.ids[n]], e.terms[e.ids[n]])
  <2>1. /\ d.ids[n] \in DOMAIN d.cpc /\ d.ids[n] \in DOMAIN d.suggestions
        /\ d.ids[n] \in DOMAIN d.terms /\ d.ids[n] \in DOMAIN d.offers
        /\ AccountsForSegment(d, d.ids[n], d.draft[FirstNamed(d.draft, n)],
                              d.offers[d.ids[n]], d.terms[d.ids[n]])
    BY <1>2, <1>9, Zenon DEF Taken
  <2> QED
    BY <1>2, <2>1, StaysAccounted, Zenon
<1>10. \A m, n \in DOMAIN e.ids : m # n => e.ids[m] # e.ids[n]
  BY <1>2, ZenonT(60) DEF Taken
<1>11. /\ {"draft", "scheme", "next", "ids", "cpc", "suggestions", "terms", "rejected", "offers"} \subseteq DOMAIN e
       /\ e.draft \in Drafts
  BY <1>2, Zenon DEF Taken
<1>12. Taken(e)
  BY <1>3, <1>6, <1>7, <1>8, <1>9, <1>10, <1>11, Zenon DEF Taken
<1> QED
  BY <1>1, <1>12


\* Draft d, and e, in which its next segment, with a new name, is taken up under an identifier.
Takes(d, e, segment, offer, id, accepted) ==
  /\ d.next <= Len(d.draft) /\ segment = d.draft[d.next] /\ segment.name \notin DOMAIN d.ids
  /\ id \notin {d.ids[n] : n \in DOMAIN d.ids}
  /\ accepted = AcceptPicks(offer.picks, offer.candidates)
  /\ {"draft", "scheme", "next", "ids", "cpc", "suggestions", "terms", "rejected", "offers"} \subseteq DOMAIN e
  /\ e.draft = d.draft /\ e.next = d.next + 1
  /\ e.ids = With(d.ids, segment.name, id)
  /\ e.terms = With(d.terms, id, Terms(segment))
  /\ e.cpc = With(d.cpc, id, accepted)
  /\ e.suggestions = With(d.suggestions, id, Without(offer.candidates, Range(accepted)))
  /\ e.offers = With(d.offers, id, offer)
  /\ d.rejected \subseteq e.rejected
  /\ Rejected(id, "term", UNION {SetAside(k) : k \in Range(segment.keywords)}) \subseteq e.rejected
  /\ Rejected(id, "cpc", RejectedPicks(offer.picks, offer.candidates)) \subseteq e.rejected

LEMMA NewlyTaken ==
  ASSUME NEW d, NEW e, NEW segment, NEW offer \in Offers, NEW id, NEW accepted,
         Taken(d), Takes(d, e, segment, offer, id, accepted)
  PROVE  Taken(e)
<1>1. /\ d.next <= Len(d.draft) /\ segment = d.draft[d.next] /\ segment.name \notin DOMAIN d.ids
      /\ e.draft = d.draft /\ e.next = d.next + 1 /\ d.rejected \subseteq e.rejected
  BY Zenon DEF Takes
<1>2. PICK name : name = segment.name
  OBVIOUS
<1>3. PICK p \in Nat : p = d.next /\ p >= 1 /\ e.next - 1 = p
  BY <1>1 DEF Taken
<1>4. \A j \in 1..p : j \in 1..(p - 1) \/ j = p
  BY <1>3
<1>5. (\A j \in 1..(p - 1) : j \in 1..p) /\ p \in 1..p
  BY <1>3
<1>6. /\ DOMAIN e.ids = DOMAIN d.ids \cup {name} /\ e.ids[name] = id
      /\ \A n \in DOMAIN d.ids : e.ids[n] = d.ids[n] /\ e.ids[n] # id
  <2>1. e.ids = With(d.ids, name, id)
    BY <1>2, Zenon DEF Takes
  <2>2. DOMAIN e.ids = DOMAIN d.ids \cup {name} /\ e.ids[name] = id /\ \A n \in DOMAIN d.ids : n # name => e.ids[n] = d.ids[n]
    BY <2>1 DEF With
  <2>3. \A n \in DOMAIN d.ids : n # name /\ d.ids[n] # id
    BY <1>1, <1>2 DEF Takes
  <2> QED
    BY <2>2, <2>3, Zenon
<1>7. /\ e.cpc[id] = accepted /\ id \in DOMAIN e.cpc
      /\ \A i \in DOMAIN d.cpc : i # id => i \in DOMAIN e.cpc /\ e.cpc[i] = d.cpc[i]
  <2>1. e.cpc = With(d.cpc, id, accepted)
    BY Zenon DEF Takes
  <2> QED
    BY <2>1 DEF With
<1>8. /\ e.suggestions[id] = Without(offer.candidates, Range(accepted)) /\ id \in DOMAIN e.suggestions
       /\ \A i \in DOMAIN d.suggestions : i # id => i \in DOMAIN e.suggestions /\ e.suggestions[i] = d.suggestions[i]
  <2>1. e.suggestions = With(d.suggestions, id, Without(offer.candidates, Range(accepted)))
    BY Zenon DEF Takes
  <2> QED
    BY <2>1 DEF With
<1>9. /\ e.terms[id] = Terms(segment) /\ id \in DOMAIN e.terms
       /\ \A i \in DOMAIN d.terms : i # id => i \in DOMAIN e.terms /\ e.terms[i] = d.terms[i]
  <2>1. e.terms = With(d.terms, id, Terms(segment))
    BY Zenon DEF Takes
  <2> QED
    BY <2>1 DEF With
<1>10. /\ e.offers[id] = offer /\ id \in DOMAIN e.offers
      /\ \A i \in DOMAIN d.offers : i # id => i \in DOMAIN e.offers /\ e.offers[i] = d.offers[i]
  <2>1. e.offers = With(d.offers, id, offer)
    BY Zenon DEF Takes
  <2> QED
    BY <2>1 DEF With
<1>11. e.draft \in Drafts /\ e.next \in Nat /\ e.next >= 1 /\ e.next <= Len(e.draft) + 1
  <2>1. Len(d.draft) \in Nat
    BY DraftLength
  <2>2. d.draft \in Drafts
    BY DEF Taken
  <2> QED
    BY <1>1, <1>3, <2>1, <2>2
<1>12. \A j \in 1..p : e.draft[j].name \in DOMAIN e.ids
  BY <1>1, <1>2, <1>3, <1>4, <1>6, Zenon DEF Taken
<1>13. \A n \in DOMAIN e.ids : \E j \in 1..p : e.draft[j].name = n
  <2>1. \A n \in DOMAIN d.ids : \E j \in 1..(p - 1) : e.draft[j].name = n
    BY <1>1, <1>3, Zenon DEF Taken
  <2>2. e.draft[p].name = name
    BY <1>1, <1>2, <1>3
  <2> QED
    BY <1>5, <1>6, <2>1, <2>2, Zenon
<1>14. \A m, n \in DOMAIN e.ids : m # n => e.ids[m] # e.ids[n]
  <2>1. \A m, n \in DOMAIN d.ids : m # n => d.ids[m] # d.ids[n]
    BY Zenon DEF Taken
  <2> QED
    BY <1>6, <2>1
<1>15. \A j \in 1..p : (\E k \in 1..(j - 1) : e.draft[k].name = e.draft[j].name)
         => IsRejected(e, e.ids[e.draft[j].name], "segment", e.draft[j].name)
  <2>1. ASSUME NEW j \in 1..(p - 1), \E k \in 1..(j - 1) : e.draft[k].name = e.draft[j].name
        PROVE  IsRejected(e, e.ids[e.draft[j].name], "segment", e.draft[j].name)
    <3>1. /\ IsRejected(d, d.ids[d.draft[j].name], "segment", d.draft[j].name)
          /\ d.draft[j].name \in DOMAIN d.ids
      BY <1>1, <1>3, <2>1, Zenon DEF Taken
    <3> QED
      BY <1>1, <1>6, <3>1 DEF IsRejected
  <2>2. ~ \E k \in 1..(p - 1) : e.draft[k].name = e.draft[p].name
    BY <1>1, <1>3, Zenon DEF Taken
  <2> QED
    BY <1>4, <2>1, <2>2, Zenon
<1>16. ASSUME NEW n \in DOMAIN d.ids
       PROVE  /\ e.ids[n] \in DOMAIN e.cpc /\ e.ids[n] \in DOMAIN e.suggestions
              /\ e.ids[n] \in DOMAIN e.terms /\ e.ids[n] \in DOMAIN e.offers
              /\ AccountsForSegment(e, e.ids[n], e.draft[FirstNamed(e.draft, n)],
                                    e.offers[e.ids[n]], e.terms[e.ids[n]])
  <2>1. PICK i : i = d.ids[n] /\ i = e.ids[n] /\ i # id
    BY <1>6, <1>16
  <2>2. /\ i \in DOMAIN d.cpc /\ i \in DOMAIN d.suggestions
        /\ i \in DOMAIN d.terms /\ i \in DOMAIN d.offers
        /\ AccountsForSegment(d, i, d.draft[FirstNamed(d.draft, n)], d.offers[i], d.terms[i])
    BY <1>16, <2>1, Zenon DEF Taken
  <2>3. /\ i \in DOMAIN e.cpc /\ e.cpc[i] = d.cpc[i]
        /\ i \in DOMAIN e.suggestions /\ e.suggestions[i] = d.suggestions[i]
        /\ i \in DOMAIN e.terms /\ e.terms[i] = d.terms[i]
        /\ i \in DOMAIN e.offers /\ e.offers[i] = d.offers[i]
    BY <1>7, <1>8, <1>9, <1>10, <2>1, <2>2, Zenon
  <2>4. AccountsForSegment(e, i, d.draft[FirstNamed(d.draft, n)], d.offers[i], d.terms[i])
    BY <1>1, <2>2, <2>3, StaysAccounted, Zenon
  <2> QED
    BY <1>1, <2>1, <2>3, <2>4, Zenon
<1>17. /\ e.ids[name] \in DOMAIN e.cpc /\ e.ids[name] \in DOMAIN e.suggestions
       /\ e.ids[name] \in DOMAIN e.terms /\ e.ids[name] \in DOMAIN e.offers
       /\ AccountsForSegment(e, e.ids[name], e.draft[FirstNamed(e.draft, name)],
                             e.offers[e.ids[name]], e.terms[e.ids[name]])
  <2>1. segment \in Range(d.draft) /\ d.draft \in Drafts
    <3>1. p \in DOMAIN d.draft
      BY <1>1, <1>3, DraftLength
    <3> QED
      BY <1>1, <1>3, <3>1 DEF Range, Taken
  <2>2. AccountsForSegment(e, id, segment, offer, Terms(segment))
    <3>1. /\ e.cpc[id] = AcceptPicks(offer.picks, offer.candidates)
          /\ e.suggestions[id] = Without(offer.candidates, Range(e.cpc[id]))
      BY <1>7, <1>8, Zenon DEF Takes
    <3>2. /\ Rejected(id, "term", UNION {SetAside(k) : k \in Range(segment.keywords)}) \subseteq e.rejected
          /\ Rejected(id, "cpc", RejectedPicks(offer.picks, offer.candidates)) \subseteq e.rejected
      BY Zenon DEF Takes
    <3> QED
      BY <2>1, <3>1, <3>2, SegmentIsAccounted, Zenon
  <2>3. FirstNamed(e.draft, name) = p
    BY <1>1, <1>2, <1>3, FirstIsNext, Zenon
  <2>4. e.draft[FirstNamed(e.draft, name)] = segment
    BY <1>1, <1>3, <2>3
  <2>5. e.ids[name] = id
    BY <1>6, Zenon
  <2>6. AccountsForSegment(e, id, e.draft[FirstNamed(e.draft, name)], e.offers[id], e.terms[id])
    BY <1>9, <1>10, <2>2, <2>4, Zenon
  <2> QED
    BY <1>7, <1>8, <1>9, <1>10, <2>5, <2>6, Zenon
<1>18. \A n \in DOMAIN e.ids :
         /\ e.ids[n] \in DOMAIN e.cpc /\ e.ids[n] \in DOMAIN e.suggestions
         /\ e.ids[n] \in DOMAIN e.terms /\ e.ids[n] \in DOMAIN e.offers
         /\ AccountsForSegment(e, e.ids[n], e.draft[FirstNamed(e.draft, n)],
                               e.offers[e.ids[n]], e.terms[e.ids[n]])
  <2>1. \A n \in DOMAIN e.ids : n \in DOMAIN d.ids \/ n = name
    BY <1>6
  <2> QED
    BY <1>16, <1>17, <2>1, Zenon
<1> QED
  <2>1. {"draft", "scheme", "next", "ids", "cpc", "suggestions", "terms", "rejected", "offers"} \subseteq DOMAIN e
    BY Zenon DEF Takes
  <2> QED
    BY <1>3, <1>11, <1>12, <1>13, <1>14, <1>15, <1>18, <2>1, Zenon DEF Taken

\* A draft that is taken up to its end accounts for all it has.
LEMMA AllTaken ==
  ASSUME NEW d, Taken(d), d.next > Len(d.draft), NEW c,
         c.cpc = d.cpc, c.suggestions = d.suggestions, c.rejected = d.rejected
  PROVE  AccountsForDraft(c, d)
<1>1. DOMAIN d.draft = 1..(d.next - 1)
  BY DraftLength DEF Taken
<1>2. \A id, kind, x : IsRejected(d, id, kind, x) <=> IsRejected(c, id, kind, x)
  BY DEF IsRejected
<1>3. ASSUME NEW n \in DOMAIN d.ids
      PROVE  AccountsForSegment(c, d.ids[n], d.draft[FirstNamed(d.draft, n)],
                                d.offers[d.ids[n]], d.terms[d.ids[n]])
  <2>1. AccountsForSegment(d, d.ids[n], d.draft[FirstNamed(d.draft, n)],
                           d.offers[d.ids[n]], d.terms[d.ids[n]])
    BY <1>3, Zenon DEF Taken
  <2> QED
    BY <2>1, StaysAccounted, Zenon
<1> QED
  BY <1>1, <1>2, <1>3, Zenon DEF Taken, AccountsForDraft


LEMMA DraftInvInit == TaxonomyInit => DraftInv
BY DEF TaxonomyInit, DraftInv, DraftAccountsForAll, Range

\* One version more, which is by a person or accounts for its draft.
LEMMA OneDraftMore ==
  ASSUME DraftInv, NEW new, versions' = Append(versions, new),
         new.origin = "llm_draft" => AccountsForDraft(new, new.from)
  PROVE  versions' \in Seq(Range(versions')) /\ DraftAccountsForAll'
<1>1. PICK old, longer : old = versions /\ longer = Append(old, new)
  OBVIOUS
<1>2. old \in Seq(Range(old))
  BY <1>1 DEF DraftInv
<1>3. /\ longer \in Seq(Range(longer)) /\ Len(longer) = Len(old) + 1 /\ longer[Len(old) + 1] = new
      /\ Len(old) \in Nat /\ DOMAIN old = 1..Len(old) /\ DOMAIN longer = 1..(Len(old) + 1)
      /\ \A i \in 1..Len(old) : longer[i] = old[i]
  BY <1>1, <1>2, OneMore
<1>4. \A v \in Range(longer) : v \in Range(old) \/ v = new
  <2>1. ASSUME NEW v \in Range(longer) PROVE v \in Range(old) \/ v = new
    <3>1. PICK i \in 1..(Len(old) + 1) : longer[i] = v
      BY <1>3 DEF Range
    <3>2. i \in 1..Len(old) \/ i = Len(old) + 1
      BY <1>3
    <3> QED
      BY <1>3, <3>1, <3>2 DEF Range
  <2> QED
    BY <2>1
<1>5. \A v \in Range(old) : v.origin = "llm_draft" => AccountsForDraft(v, v.from)
  BY <1>1, Zenon DEF DraftInv, DraftAccountsForAll
<1>6. \A v \in Range(longer) : v.origin = "llm_draft" => AccountsForDraft(v, v.from)
  BY <1>4, <1>5, Zenon
<1>7. versions' = longer
  BY <1>1
<1>8. DraftAccountsForAll'
  BY <1>6, <1>7, Zenon DEF DraftAccountsForAll
<1> QED
  BY <1>3, <1>7, <1>8

LEMMA DraftInvStep == DraftInv /\ [TaxonomyNext]_taxonomyVars => DraftInv'
<1> SUFFICES ASSUME DraftInv, [TaxonomyNext]_taxonomyVars PROVE DraftInv'
  OBVIOUS
<1>1. ASSUME versions' = versions, drafting' # None => Taken(drafting') PROVE DraftInv'
  <2>1. DraftAccountsForAll'
    BY <1>1, Zenon DEF DraftInv, DraftAccountsForAll
  <2>2. versions' \in Seq(Range(versions'))
    BY <1>1 DEF DraftInv
  <2> QED
    BY <1>1, <2>1, <2>2, Zenon DEF DraftInv
<1>2. ASSUME NEW draft \in Drafts, NEW v \in DOMAIN SchemeEntries, BeginDraft(draft, v) PROVE DraftInv'
  <2>1. PICK d : d = drafting'
    OBVIOUS
  <2>2. d = [draft |-> draft, scheme |-> v, next |-> 1, ids |-> <<>>, cpc |-> <<>>,
             suggestions |-> <<>>, terms |-> <<>>, rejected |-> {}, offers |-> <<>>]
    BY <1>2, <2>1, Zenon DEF BeginDraft
  <2>3. Len(draft) \in Nat
    <3>1. draft \in Seq(Range(draft))
      BY TaxonomyAssumption DEF IsList
    <3> QED
      BY <3>1
  <2>4. DOMAIN d.ids = {} /\ d.next = 1 /\ d.draft = draft
    BY <2>2
  <2>5. 1..(d.next - 1) = {} /\ d.next \in Nat /\ d.next >= 1 /\ d.next <= Len(d.draft) + 1
    BY <2>3, <2>4
  <2>6. {"draft", "scheme", "next", "ids", "cpc", "suggestions", "terms", "rejected", "offers"} \subseteq DOMAIN d
    BY <2>2
  <2>7. Taken(d)
    BY <2>4, <2>5, <2>6, Zenon DEF Taken
  <2>8. versions' = versions
    BY <1>2, Zenon DEF BeginDraft
  <2> QED
    BY <1>1, <2>1, <2>7, <2>8, Zenon
<1>3. CASE RepeatedSegment
  <2>1. PICK d, name : d = drafting /\ name = d.draft[d.next].name
    OBVIOUS
  <2>2. Taken(d) /\ d.next <= Len(d.draft) /\ name \in DOMAIN d.ids /\ versions' = versions
    BY <1>3, <2>1 DEF RepeatedSegment, Current, DraftInv
  <2>3. PICK rejected : rejected = d.rejected \cup Rejected(d.ids[name], "segment", {name})
    OBVIOUS
  <2>4. drafting' = [d EXCEPT !.next = @ + 1, !.rejected = rejected]
    BY <1>3, <2>1, <2>3 DEF RepeatedSegment, Current
  <2>5. d.rejected \subseteq rejected /\ [segment |-> d.ids[name], kind |-> "segment", value |-> name] \in rejected
    BY <2>3 DEF Rejected
  <2>6. Taken([d EXCEPT !.next = @ + 1, !.rejected = rejected])
    BY ONLY <2>1, <2>2, <2>5, RepeatedTaken, Zenon
  <2>7. Taken(drafting')
    BY <2>4, <2>6, Zenon
  <2> QED
    BY <1>1, <2>2, <2>7
<1>4. ASSUME NEW offer \in Offers, TakeUpSegment(offer) PROVE DraftInv'
  <2> DEFINE taken0 == {drafting.ids[n] : n \in DOMAIN drafting.ids}
             id0 == SegmentId(Slug[Current.name], taken0)
             accepted0 == AcceptPicks(offer.picks, offer.candidates)
  <2>1. /\ drafting # None /\ drafting.next <= Len(drafting.draft)
        /\ Current.name \notin DOMAIN drafting.ids /\ versions' = versions
    BY <1>4, Zenon DEF TakeUpSegment
  <2>2. PICK d, e : d = drafting /\ e = drafting'
    OBVIOUS
  <2>3. PICK segment, taken : segment = d.draft[d.next] /\ taken = {d.ids[n] : n \in DOMAIN d.ids}
    OBVIOUS
  <2>4. PICK id, accepted : id = SegmentId(Slug[segment.name], taken)
                            /\ accepted = AcceptPicks(offer.picks, offer.candidates)
    OBVIOUS
  <2>5. Taken(d) /\ d.next <= Len(d.draft) /\ segment.name \notin DOMAIN d.ids /\ versions' = versions
    BY <2>1, <2>2, <2>3 DEF Current, DraftInv
  <2>6. segment = Current /\ id0 = id /\ accepted0 = accepted
    BY <2>2, <2>3, <2>4 DEF Current
  <2>7. id \notin taken
    <3>1. segment \in Range(d.draft) /\ d.draft \in Drafts
      <4>1. d.next \in DOMAIN d.draft
        BY <2>5, DraftLength DEF Taken
      <4> QED
        BY <2>3, <2>5, <4>1 DEF Range, Taken
    <3>2. Slug[segment.name] \in Seq(Nat)
      BY <3>1, TaxonomyAssumption
    <3>3. IsFiniteSet(taken)
      BY <2>3, <2>5, TakenAreFinite
    <3> QED
      BY <2>4, <3>2, <3>3, SegmentIdIsFree
  <2>8. PICK rejected : rejected =
          d.rejected \cup Rejected(id, "term", UNION {SetAside(k) : k \in Range(segment.keywords)})
          \cup Rejected(id, "cpc_search", {t \in Terms(segment) : t \notin SearchableTerms})
          \cup (IF offer.candidates = <<>> THEN Rejected(id, "cpc_search", {segment.name}) ELSE {})
          \cup Rejected(id, "cpc", RejectedPicks(offer.picks, offer.candidates))
    OBVIOUS
  <2>9. /\ d.rejected \subseteq rejected
         /\ Rejected(id, "term", UNION {SetAside(k) : k \in Range(segment.keywords)}) \subseteq rejected
         /\ Rejected(id, "cpc", RejectedPicks(offer.picks, offer.candidates)) \subseteq rejected
    BY <2>8
  <2>10. /\ DOMAIN e = DOMAIN d /\ e.draft = d.draft /\ e.next = d.next + 1
        /\ e.ids = With(d.ids, segment.name, id)
        /\ e.terms = With(d.terms, id, Terms(segment))
        /\ e.cpc = With(d.cpc, id, accepted)
        /\ e.suggestions = With(d.suggestions, id, Without(offer.candidates, Range(accepted)))
        /\ e.offers = With(d.offers, id, offer) /\ e.rejected = rejected
    <3>1. drafting' = [drafting EXCEPT !.next = @ + 1,
            !.ids = With(@, Current.name, id0),
            !.terms = With(@, id0, Terms(Current)),
            !.cpc = With(@, id0, accepted0),
            !.suggestions = With(@, id0, Without(offer.candidates, Range(accepted0))),
            !.offers = With(@, id0, offer),
            !.rejected = @ \cup Rejected(id0, "term", UNION {SetAside(k) : k \in Range(Current.keywords)})
              \cup Rejected(id0, "cpc_search", {t \in Terms(Current) : t \notin SearchableTerms})
              \cup (IF offer.candidates = <<>> THEN Rejected(id0, "cpc_search", {Current.name}) ELSE {})
              \cup Rejected(id0, "cpc", RejectedPicks(offer.picks, offer.candidates))]
      BY <1>4, Zenon DEF TakeUpSegment
    <3> HIDE DEF id0, accepted0, taken0
    <3>2. e = [d EXCEPT !.next = @ + 1,
                 !.ids = With(@, segment.name, id),
                 !.terms = With(@, id, Terms(segment)),
                 !.cpc = With(@, id, accepted),
                 !.suggestions = With(@, id, Without(offer.candidates, Range(accepted))),
                 !.offers = With(@, id, offer),
                 !.rejected = rejected]
      BY <2>2, <2>6, <2>8, <3>1
    <3> QED
      BY <2>5, <3>2 DEF Taken
  <2>11. {"draft", "scheme", "next", "ids", "cpc", "suggestions", "terms", "rejected", "offers"} \subseteq DOMAIN e
    BY <2>5, <2>10, Zenon DEF Taken
  <2>12. Takes(d, e, segment, offer, id, accepted)
    BY <2>3, <2>4, <2>5, <2>7, <2>9, <2>10, <2>11, Zenon DEF Takes
  <2>13. Taken(e)
    BY <2>5, <2>12, NewlyTaken
  <2> QED
    BY <1>1, <2>2, <2>5, <2>13
<1>5. CASE DraftFails
  BY <1>1, <1>5 DEF DraftFails
<1>6. CASE EndDraft
  <2>1. PICK d, new : d = drafting /\ new =
          [origin |-> "llm_draft", scheme |-> d.scheme, cpc |-> d.cpc,
           suggestions |-> d.suggestions, rejected |-> d.rejected, from |-> d]
    OBVIOUS
  <2>2. Taken(d) /\ d.next > Len(d.draft) /\ versions' = Append(versions, new) /\ drafting' = None
    BY <1>6, <2>1 DEF EndDraft, DraftInv
  <2>3. new.cpc = d.cpc /\ new.suggestions = d.suggestions /\ new.rejected = d.rejected /\ new.from = d
    BY <2>1
  <2>4. AccountsForDraft(new, new.from)
    BY <2>2, <2>3, AllTaken
  <2>5. versions' \in Seq(Range(versions')) /\ DraftAccountsForAll'
    BY <2>2, <2>4, OneDraftMore
  <2> QED
    BY <2>2, <2>5 DEF DraftInv
<1>7. ASSUME NEW edit \in Edits, NEW v \in DOMAIN SchemeEntries, Edit(edit, v) PROVE DraftInv'
  <2>1. PICK new : new = Edited(edit, v, versions = <<>>, versions[Len(versions)])
    OBVIOUS
  <2>2. versions' = Append(versions, new) /\ drafting' = drafting
    BY <1>7, <2>1, Zenon DEF Edit, Last, Edited
  <2>3. new.origin = "user_edit"
    BY <2>1 DEF Edited
  <2>4. versions' \in Seq(Range(versions')) /\ DraftAccountsForAll'
    BY <2>2, <2>3, OneDraftMore
  <2> QED
    BY <2>2, <2>4 DEF DraftInv
<1>8. CASE UNCHANGED taxonomyVars
  BY <1>1, <1>8 DEF taxonomyVars, DraftInv
<1> QED
  BY <1>2, <1>3, <1>4, <1>5, <1>6, <1>7, <1>8 DEF TaxonomyNext

\* Whatever the model drafts and picks, every segment, pick, candidate and term of a drafted
\* version is in it or on record as rejected (draft_taxonomy, _segment_from_draft, _accept_picks).
THEOREM NothingProposedIsLost == TaxonomySpec => []DraftAccountsForAll
<1>1. DraftInv => DraftAccountsForAll
  BY DEF DraftInv
<1> QED
  BY <1>1, DraftInvInit, DraftInvStep, PTL DEF TaxonomySpec

-----------------------------------------------------------------------------
(* 5. Datasets.  The union-find is a tree in which no parent is more than its  *)
(* node; what holds of all nodes holds because it would fail at a least one.   *)

\* Trees over the nodes D.
Trees(D) == {tree \in [D -> D] : \A m \in D : tree[m] <= m}

\* A finite nonempty set of numbers has a greatest one.
LEMMA GreatestOf ==
  ASSUME NEW S \in SUBSET Nat, S # {}, IsFiniteSet(S)
  PROVE  \E x \in S : \A y \in S : y <= x
<1> DEFINE Bounded(T) == \E x \in T : \A y \in T : y <= x
           sizes == {k \in Nat : \E T \in SUBSET S : T # {} /\ ~Bounded(T) /\ Cardinality(T) = k}
<1>1. ASSUME NEW T \in SUBSET S PROVE IsFiniteSet(T) /\ Cardinality(T) \in Nat
  BY FS_Subset, FS_CardinalityType
<1>2. SUFFICES ASSUME sizes # {} PROVE FALSE
  BY <1>1
<1>3. PICK k \in sizes : \A j \in sizes : k <= j
  <2>1. sizes \in SUBSET Nat
    OBVIOUS
  <2> HIDE DEF sizes
  <2> QED
    BY <1>2, <2>1, LeastRow
<1>4. PICK T \in SUBSET S : T # {} /\ ~Bounded(T) /\ Cardinality(T) = k
  OBVIOUS
<1>5. PICK x \in T : TRUE
  BY <1>4
<1> DEFINE U == T \ {x}
<1>6. U \in SUBSET S /\ Cardinality(U) = k - 1 /\ k - 1 \in Nat
  <2>1. IsFiniteSet(T) /\ Cardinality(T) = k /\ k \in Nat
    BY <1>1, <1>4
  <2>2. IsFiniteSet(U) /\ Cardinality(U) = Cardinality(T) - 1 /\ Cardinality(U) \in Nat
    BY <1>5, <2>1, FS_RemoveElement, FS_CardinalityType
  <2> QED
    BY <2>1, <2>2
<1>7. CASE U = {}
  BY <1>4, <1>5, <1>7
<1>8. CASE U # {}
  <2>1. Bounded(U)
    <3>1. k - 1 \notin sizes
      BY <1>3
    <3> QED
      BY <1>6, <1>8, <3>1
  <2>2. PICK y \in U : \A z \in U : z <= y
    BY <2>1
  <2>3. x \in Nat /\ y \in Nat /\ y \in T /\ \A z \in T : z \in Nat /\ (z = x \/ z <= y)
    BY <1>5, <2>2
  <2>4. (\A z \in T : z <= x) \/ (\A z \in T : z <= y)
    BY <2>3
  <2> QED
    BY <1>4, <1>5, <2>3, <2>4
<1> QED
  BY <1>7, <1>8

\* f is base at the roots of a tree, and made by step from its value at the parent elsewhere.
Climbs(f, tree, base, step) ==
  \A m \in DOMAIN f : f[m] = IF tree[m] = m THEN base[m] ELSE step[<<m, f[tree[m]]>>]

\* What is defined at the roots of a tree, and at other nodes from what it is at the parent,
\* is a function on the nodes.
LEMMA Climbing ==
  ASSUME NEW D \in SUBSET Nat, IsFiniteSet(D), NEW tree \in Trees(D),
         NEW V, NEW base \in [D -> V], NEW step \in [D \X V -> V]
  PROVE  \E f \in [D -> V] : Climbs(f, tree, base, step)
<1> DEFINE Below(k) == {m \in D : m < k}
           Good(f, k) == f \in [Below(k) -> V] /\
                         \A m \in Below(k) :
                           f[m] = IF tree[m] = m THEN base[m] ELSE step[<<m, f[tree[m]]>>]
           bad == {k \in Nat : ~\E f : Good(f, k)}
<1>1. bad = {}
  <2> SUFFICES ASSUME bad # {} PROVE FALSE
    OBVIOUS
  <2>1. PICK k \in bad : \A j \in bad : k <= j
    <3>1. bad \in SUBSET Nat
      OBVIOUS
    <3> HIDE DEF bad
    <3> QED
      BY <3>1, LeastRow
  <2>2. CASE k = 0
    <3>1. Below(k) = {}
      <4>1. \A m \in D : ~(m < k)
        <5>1. \A m \in Nat : ~(m < 0)
          OBVIOUS
        <5> QED
          BY <2>2, <5>1
      <4> QED
        BY <4>1
    <3>2. Good([m \in {} |-> base[m]], k)
      BY <3>1
    <3> QED
      BY <3>2
  <2>3. CASE k # 0
    <3>1. k - 1 \in Nat /\ k - 1 \notin bad
      <4>1. k \in Nat
        BY <2>1
      <4>2. k - 1 \in Nat /\ ~(k <= k - 1)
        BY <2>3, <4>1
      <4> HIDE DEF bad
      <4> QED
        BY <2>1, <4>2
    <3>2. PICK g : Good(g, k - 1)
      BY <3>1
    <3> DEFINE value(m) == IF tree[m] = m THEN base[m] ELSE step[<<m, g[tree[m]]>>]
               f == [m \in Below(k) |-> value(m)]
    <3>3. ASSUME NEW m \in Below(k)
          PROVE  /\ m \in D /\ tree[m] # m => tree[m] \in Below(k - 1)
                 /\ m \in Below(k - 1) => m \in Below(k)
      <4>1. m \in D /\ m \in Nat /\ k \in Nat /\ m < k
        BY <2>1
      <4>2. tree[m] \in D /\ tree[m] \in Nat /\ tree[m] <= m
        BY <4>1 DEF Trees
      <4>3. tree[m] # m => tree[m] < k - 1
        BY <4>1, <4>2
      <4> QED
        BY <4>1, <4>2, <4>3
    <3>4. ASSUME NEW m \in Below(k) PROVE f[m] \in V
      BY <3>2, <3>3
    <3>5. ASSUME NEW m \in Below(k - 1) PROVE f[m] = g[m]
      <4>1. m \in Below(k)
        BY <3>1
      <4> QED
        BY <3>2, <4>1
    <3>6. ASSUME NEW m \in Below(k)
          PROVE  f[m] = IF tree[m] = m THEN base[m] ELSE step[<<m, f[tree[m]]>>]
      BY <3>3, <3>5
    <3>7. Good(f, k)
      BY <3>4, <3>6
    <3> QED
      BY <2>1, <3>7
  <2> QED
    BY <2>2, <2>3
<1>2. PICK k \in Nat : \A m \in D : m < k
  <2>1. CASE D = {}
    BY <2>1
  <2>2. CASE D # {}
    <3>1. PICK x \in D : \A y \in D : y <= x
      BY <2>2, GreatestOf
    <3>2. x + 1 \in Nat /\ \A y \in D : y < x + 1
      BY <3>1
    <3> QED
      BY <3>2
  <2> QED
    BY <2>1, <2>2
<1>3. PICK f : Good(f, k)
  BY <1>1
<1>4. Below(k) = D
  BY <1>2
<1>5. f \in [D -> V] /\ Climbs(f, tree, base, step)
  BY <1>3, <1>4 DEF Climbs
<1> QED
  BY <1>5

\* Root and Path climb from node to parent.
LEMMA RootClimbs ==
  ASSUME NEW D \in SUBSET Nat, IsFiniteSet(D), NEW tree \in Trees(D), NEW n \in D
  PROVE  Root(tree, n) = IF tree[n] = n THEN n ELSE Root(tree, tree[n])
<1>1. DOMAIN tree = D /\ tree[n] \in D
  BY DEF Trees
<1>0. PICK V : V = D
  OBVIOUS
<1> DEFINE Is(f) == f = [m \in D |-> IF tree[m] = m THEN m ELSE f[tree[m]]]
           Up == CHOOSE f : Is(f)
<1>2. \E f : Is(f)
  <2>1. PICK base \in [D -> V], step \in [D \X V -> V] :
          (\A m \in D : base[m] = m) /\ \A p \in D \X V : step[p] = p[2]
    <3>1. [m \in D |-> m] \in [D -> V] /\ [p \in D \X V |-> p[2]] \in [D \X V -> V]
      BY <1>0
    <3> QED
      BY <3>1
  <2>5. PICK f \in [D -> V] : Climbs(f, tree, base, step)
    BY <2>1, Climbing
  <2>2. \A m \in D : f[m] = IF tree[m] = m THEN base[m] ELSE step[<<m, f[tree[m]]>>]
    BY <2>5 DEF Climbs
  <2>3. ASSUME NEW m \in D
        PROVE  f[m] = IF tree[m] = m THEN m ELSE f[tree[m]]
    <3>1. tree[m] \in D /\ f[tree[m]] \in V
      BY <2>2 DEF Trees
    <3>2. base[m] = m /\ step[<<m, f[tree[m]]>>] = f[tree[m]]
      BY <2>1, <3>1
    <3> QED
      BY <2>2, <3>2
  <2>4. Is(f)
    BY <2>3
  <2> QED
    BY <2>4
<1>3. Is(Up)
  BY <1>2, Zenon
<1>4. \A m \in D : Root(tree, m) = Up[m]
  BY <1>1, Zenon DEF Root
<1> HIDE DEF Up
<1>5. Up[n] = IF tree[n] = n THEN n ELSE Up[tree[n]]
  BY <1>3
<1> QED
  BY <1>1, <1>4, <1>5

LEMMA PathClimbs ==
  ASSUME NEW D \in SUBSET Nat, IsFiniteSet(D), NEW tree \in Trees(D), NEW n \in D
  PROVE  Path(tree, n) = IF tree[n] = n THEN {n} ELSE {n} \cup Path(tree, tree[n])
<1>1. DOMAIN tree = D /\ tree[n] \in D
  BY DEF Trees
<1>0. PICK V : V = SUBSET D
  OBVIOUS
<1> DEFINE Is(f) == f = [m \in D |-> IF tree[m] = m THEN {m} ELSE {m} \cup f[tree[m]]]
           Up == CHOOSE f : Is(f)
<1>2. \E f : Is(f)
  <2>1. PICK base \in [D -> V], step \in [D \X V -> V] :
          (\A m \in D : base[m] = {m}) /\ \A p \in D \X V : step[p] = {p[1]} \cup p[2]
    <3>1. [m \in D |-> {m}] \in [D -> V] /\ [p \in D \X V |-> {p[1]} \cup p[2]] \in [D \X V -> V]
      BY <1>0
    <3> QED
      BY <3>1
  <2>5. PICK f \in [D -> V] : Climbs(f, tree, base, step)
    BY <2>1, Climbing
  <2>2. \A m \in D : f[m] = IF tree[m] = m THEN base[m] ELSE step[<<m, f[tree[m]]>>]
    BY <2>5 DEF Climbs
  <2>3. ASSUME NEW m \in D
        PROVE  f[m] = IF tree[m] = m THEN {m} ELSE {m} \cup f[tree[m]]
    <3>1. tree[m] \in D /\ f[tree[m]] \in V
      BY <2>2 DEF Trees
    <3>2. <<m, f[tree[m]]>> \in D \X V
      BY <3>1
    <3>3. base[m] = {m} /\ step[<<m, f[tree[m]]>>] = {m} \cup f[tree[m]]
      BY <2>1, <3>2
    <3> QED
      BY <2>2, <3>3
  <2>4. Is(f)
    BY <2>3
  <2> QED
    BY <2>4
<1>3. Is(Up)
  BY <1>2, Zenon
<1>4. \A m \in D : Path(tree, m) = Up[m]
  BY <1>1, Zenon DEF Path
<1> HIDE DEF Up
<1>5. Up[n] = IF tree[n] = n THEN {n} ELSE {n} \cup Up[tree[n]]
  BY <1>3
<1> QED
  BY <1>1, <1>4, <1>5

\* A property of all nodes that would fail at no least node holds.
LEMMA NoLeastFailure ==
  ASSUME NEW D \in SUBSET Nat, NEW good \in SUBSET D,
         \A m \in D : (\A k \in D : k < m => k \in good) => m \in good
  PROVE  good = D
<1> SUFFICES ASSUME D \ good # {} PROVE FALSE
  OBVIOUS
<1>1. D \ good \in SUBSET Nat
  OBVIOUS
<1>2. PICK m \in D \ good : \A k \in D \ good : m <= k
  BY <1>1, LeastRow
<1>3. \A k \in D : k < m => k \in good
  BY <1>1, <1>2
<1> QED
  BY <1>2, <1>3

\* A root is a node above, where the climb ends.
LEMMA RootIsRoot ==
  ASSUME NEW D \in SUBSET Nat, IsFiniteSet(D), NEW tree \in Trees(D), NEW n \in D
  PROVE  /\ Root(tree, n) \in D /\ Root(tree, n) <= n
         /\ tree[Root(tree, n)] = Root(tree, n)
         /\ tree[n] = n <=> Root(tree, n) = n
<1> DEFINE good == {m \in D : /\ Root(tree, m) \in D /\ Root(tree, m) <= m
                              /\ tree[Root(tree, m)] = Root(tree, m)}
<1>1. ASSUME NEW m \in D, \A k \in D : k < m => k \in good
      PROVE  m \in good
  <2>1. tree[m] \in D /\ tree[m] <= m /\ m \in Nat /\ tree[m] \in Nat
    BY DEF Trees
  <2>2. Root(tree, m) = IF tree[m] = m THEN m ELSE Root(tree, tree[m])
    BY RootClimbs
  <2>3. CASE tree[m] = m
    BY <2>1, <2>2, <2>3
  <2>4. CASE tree[m] # m
    <3>1. tree[m] < m
      BY <2>1, <2>4
    <3>2. tree[m] \in good
      BY <1>1, <2>1, <3>1
    <3>3. PICK r : r = Root(tree, m)
      OBVIOUS
    <3>4. r \in D /\ r <= tree[m] /\ tree[r] = r
      BY <2>2, <2>4, <3>2, <3>3
    <3>5. r \in Nat /\ r <= m
      BY <2>1, <3>4
    <3> QED
      BY <3>3, <3>4, <3>5
  <2> QED
    BY <2>3, <2>4
<1>2. good \in SUBSET D
  OBVIOUS
<1>3. n \in good
  <2> HIDE DEF good
  <2> QED
    BY <1>1, <1>2, NoLeastFailure
<1>4. tree[n] = n => Root(tree, n) = n
  BY RootClimbs
<1> QED
  BY <1>3, <1>4

\* All on the way have the same root; the root is on it.
LEMMA PathIs ==
  ASSUME NEW D \in SUBSET Nat, IsFiniteSet(D), NEW tree \in Trees(D), NEW n \in D
  PROVE  /\ Path(tree, n) \in SUBSET D
         /\ \A m \in Path(tree, n) : Root(tree, m) = Root(tree, n)
<1> DEFINE good == {m \in D : /\ Path(tree, m) \in SUBSET D
                              /\ \A k \in Path(tree, m) : Root(tree, k) = Root(tree, m)}
<1>1. ASSUME NEW m \in D, \A k \in D : k < m => k \in good
      PROVE  m \in good
  <2>1. tree[m] \in D /\ tree[m] <= m /\ m \in Nat /\ tree[m] \in Nat
    BY DEF Trees
  <2>2. /\ Path(tree, m) = IF tree[m] = m THEN {m} ELSE {m} \cup Path(tree, tree[m])
        /\ Root(tree, m) = IF tree[m] = m THEN m ELSE Root(tree, tree[m])
    BY RootClimbs, PathClimbs
  <2>3. CASE tree[m] = m
    BY <2>1, <2>2, <2>3
  <2>4. CASE tree[m] # m
    <3>1. tree[m] < m
      BY <2>1, <2>4
    <3>2. tree[m] \in good
      BY <1>1, <2>1, <3>1
    <3> QED
      BY <2>2, <2>4, <3>2
  <2> QED
    BY <2>3, <2>4
<1>2. good \in SUBSET D
  OBVIOUS
<1>3. n \in good
  <2> HIDE DEF good
  <2> QED
    BY <1>1, <1>2, NoLeastFailure
<1> QED
  BY <1>3

\* Path compression changes no root.
LEMMA CompressedIs ==
  ASSUME NEW D \in SUBSET Nat, IsFiniteSet(D), NEW tree \in Trees(D), NEW n \in D
  PROVE  /\ Compressed(tree, n) \in Trees(D)
         /\ \A m \in D : Root(Compressed(tree, n), m) = Root(tree, m)
<1>1. PICK c : c = Compressed(tree, n)
  OBVIOUS
<1>2. PICK r : r = Root(tree, n)
  OBVIOUS
<1>3. PICK way : way = Path(tree, n)
  OBVIOUS
<1>4. c = [m \in D |-> IF m \in way THEN r ELSE tree[m]]
  BY <1>1, <1>2, <1>3 DEF Compressed, Trees
<1>5. r \in D /\ tree[r] = r /\ way \in SUBSET D /\ \A m \in way : Root(tree, m) = r
  BY <1>2, <1>3, RootIsRoot, PathIs
<1>6. \A m \in D : Root(tree, m) \in D /\ Root(tree, m) <= m /\ tree[m] \in D /\ tree[m] <= m
  BY RootIsRoot DEF Trees
<1>7. c \in Trees(D)
  BY <1>4, <1>5, <1>6 DEF Trees
<1> DEFINE good == {m \in D : Root(c, m) = Root(tree, m)}
<1>8. c[r] = r
  BY <1>4, <1>5
<1>9. ASSUME NEW m \in D, \A k \in D : k < m => k \in good
      PROVE  m \in good
  <2>1. Root(c, m) = IF c[m] = m THEN m ELSE Root(c, c[m])
    BY <1>7, RootClimbs
  <2>2. Root(tree, m) = IF tree[m] = m THEN m ELSE Root(tree, tree[m])
    BY RootClimbs
  <2>3. CASE m \in way
    <3>1. c[m] = r /\ Root(tree, m) = r
      BY <1>4, <1>5, <2>3
    <3>2. Root(c, r) = r
      BY <1>5, <1>7, <1>8, RootClimbs
    <3> QED
      BY <2>1, <3>1, <3>2
  <2>4. CASE m \notin way
    <3>1. c[m] = tree[m] /\ tree[m] \in D /\ tree[m] \in Nat /\ m \in Nat /\ tree[m] <= m
      BY <1>4, <1>6, <2>4
    <3>2. tree[m] # m => tree[m] \in good
      BY <1>9, <3>1
    <3> QED
      BY <2>1, <2>2, <3>1, <3>2
  <2> QED
    BY <2>3, <2>4
<1>10. good = D
  <2>1. good \in SUBSET D
    OBVIOUS
  <2> HIDE DEF good
  <2> QED
    BY <1>9, <2>1, NoLeastFailure
<1> QED
  BY <1>1, <1>7, <1>10

\* The larger of two roots is put under the smaller.
LEMMA Attach ==
  ASSUME NEW D \in SUBSET Nat, IsFiniteSet(D), NEW tree \in Trees(D),
         NEW r \in D, NEW s \in D, tree[r] = r, tree[s] = s, r < s,
         NEW u \in Trees(D), u[s] = r, \A m \in D : m # s => u[m] = tree[m]
  PROVE  \A m \in D : Root(u, m) = IF Root(tree, m) = s THEN r ELSE Root(tree, m)
<1>1. r # s /\ r \in Nat /\ s \in Nat
  OBVIOUS
<1> DEFINE good == {m \in D : Root(u, m) = IF Root(tree, m) = s THEN r ELSE Root(tree, m)}
<1>2. ASSUME NEW m \in D, \A k \in D : k < m => k \in good
      PROVE  m \in good
  <2>1. Root(u, m) = IF u[m] = m THEN m ELSE Root(u, u[m])
    BY <1>1, RootClimbs
  <2>2. Root(tree, m) = IF tree[m] = m THEN m ELSE Root(tree, tree[m])
    BY RootClimbs
  <2>3. CASE m = s
    <3>1. u[r] = r
      BY <1>1
    <3>2. Root(u, r) = r
      BY <3>1, RootClimbs
    <3>3. Root(u, m) = Root(u, r)
      BY <1>1, <2>1, <2>3
    <3>4. Root(tree, m) = s
      BY <2>2, <2>3
    <3> QED
      BY <3>2, <3>3, <3>4
  <2>4. CASE m # s
    <3>1. u[m] = tree[m] /\ tree[m] \in D /\ tree[m] \in Nat /\ m \in Nat /\ tree[m] <= m
      BY <2>4 DEF Trees
    <3>2. tree[m] # m => tree[m] \in good
      BY <1>2, <3>1
    <3> QED
      BY <2>1, <2>2, <2>4, <3>1, <3>2
  <2> QED
    BY <2>3, <2>4
<1>3. good = D
  <2>1. good \in SUBSET D
    OBVIOUS
  <2> HIDE DEF good
  <2> QED
    BY <1>2, <2>1, NoLeastFailure
<1> QED
  BY <1>3

\* A union gives the nodes under either root one root, the least; all others keep theirs.
LEMMA UnionIs ==
  ASSUME NEW D \in SUBSET Nat, IsFiniteSet(D), NEW tree \in Trees(D), NEW a \in D, NEW b \in D
  PROVE  /\ Union(tree, a, b) \in Trees(D)
         /\ \E r \in {Root(tree, a), Root(tree, b)} :
              \A m \in D : Root(Union(tree, a, b), m) =
                             IF Root(tree, m) \in {Root(tree, a), Root(tree, b)} THEN r ELSE Root(tree, m)
<1>1. PICK t : t = Compressed(Compressed(tree, a), b)
  OBVIOUS
<1>2. t \in Trees(D) /\ \A m \in D : Root(t, m) = Root(tree, m)
  BY <1>1, CompressedIs
<1>3. PICK ra, rb : ra = Root(tree, a) /\ rb = Root(tree, b)
  OBVIOUS
<1>4. ra \in D /\ rb \in D /\ ra \in Nat /\ rb \in Nat /\ t[ra] = ra /\ t[rb] = rb
  <2>1. ra = Root(t, a) /\ rb = Root(t, b)
    BY <1>2, <1>3
  <2> QED
    BY <1>2, <2>1, RootIsRoot
<1>5. Union(tree, a, b) =
        IF ra = rb THEN t ELSE IF ra < rb THEN [t EXCEPT ![rb] = ra] ELSE [t EXCEPT ![ra] = rb]
  BY <1>1, <1>2, <1>3, Zenon DEF Union
<1>6. CASE ra = rb
  BY <1>2, <1>3, <1>5, <1>6
<1>7. CASE ra < rb
  <2>1. PICK u : u = [t EXCEPT ![rb] = ra]
    OBVIOUS
  <2>2. u \in Trees(D) /\ \A m \in D : Root(u, m) = IF Root(t, m) = rb THEN ra ELSE Root(t, m)
    <3>1. u \in Trees(D) /\ u[rb] = ra /\ \A m \in D : m # rb => u[m] = t[m]
      BY <1>2, <1>4, <1>7, <2>1 DEF Trees
    <3>2. t \in Trees(D)
      BY <1>2
    <3> QED
      BY <1>4, <1>7, <3>1, <3>2, Attach
  <2>3. Union(tree, a, b) = u
    BY <1>4, <1>5, <1>7, <2>1
  <2>4. \A m \in D : Root(u, m) = IF Root(tree, m) \in {ra, rb} THEN ra ELSE Root(tree, m)
    BY <1>2, <2>2
  <2> QED
    BY <1>3, <2>2, <2>3, <2>4, Zenon
<1>8. CASE rb < ra
  <2>1. PICK u : u = [t EXCEPT ![ra] = rb]
    OBVIOUS
  <2>2. u \in Trees(D) /\ \A m \in D : Root(u, m) = IF Root(t, m) = ra THEN rb ELSE Root(t, m)
    <3>1. u \in Trees(D) /\ u[ra] = rb /\ \A m \in D : m # ra => u[m] = t[m]
      BY <1>2, <1>4, <1>8, <2>1 DEF Trees
    <3>2. t \in Trees(D)
      BY <1>2
    <3> QED
      BY <1>4, <1>8, <3>1, <3>2, Attach
  <2>3. Union(tree, a, b) = u
    BY <1>4, <1>5, <1>8, <2>1
  <2>4. \A m \in D : Root(u, m) = IF Root(tree, m) \in {ra, rb} THEN rb ELSE Root(tree, m)
    BY <1>2, <2>2
  <2> QED
    BY <1>3, <2>2, <2>3, <2>4, Zenon
<1> QED
  BY <1>4, <1>6, <1>7, <1>8

-----------------------------------------------------------------------------
(* What the plan is made from *)

LEMMA NumbersOf ==
  ASSUME NEW d \in Inputs
  PROVE  /\ d.publication \in Nat /\ d.publication \notin Evidence
         /\ d.members \in SUBSET Nat /\ d.publication \notin d.members
         /\ d.members \cap Evidence = {} /\ IsFiniteSet(d.members)
         /\ {d.familyId, d.application} \ {None} \in SUBSET Evidence
         /\ d.id \in Nat /\ d.retrieved \in Nat
<1>1. /\ d.publication \in Nat /\ d.members \subseteq Nat \ ({d.publication} \cup Evidence)
      /\ IsFiniteSet(d.members) /\ {d.familyId, d.application} \subseteq Evidence \cup {None}
      /\ d.id \in Nat /\ d.retrieved \in Nat
  BY DatasetAssumption
<1>2. d.publication \notin Evidence
  <2> SUFFICES ASSUME d.publication \in Evidence PROVE FALSE
    OBVIOUS
  <2>1. d.publication < d.publication
    BY DatasetAssumption
  <2> QED
    BY <1>1, <2>1
<1> QED
  BY <1>1, <1>2

\* Every publication has a copy that is kept.
LEMMA KeptIsCopy ==
  ASSUME NEW ds \in SUBSET Inputs, NEW p \in Publications(ds)
  PROVE  KeptCopy(ds, p) \in ds /\ KeptCopy(ds, p).publication = p
<1> DEFINE copies == Copies(ds, p)
           times == {d.retrieved : d \in copies}
<1>1. copies \in SUBSET Inputs /\ copies # {} /\ IsFiniteSet(copies)
  <2>1. copies \in SUBSET Inputs /\ copies # {}
    BY DEF Copies, Publications
  <2> HIDE DEF copies
  <2> QED
    BY <2>1, DatasetAssumption, FS_Subset
<1>2. \A d \in copies : d.id \in Nat /\ d.retrieved \in Nat
  BY <1>1, NumbersOf
<1> HIDE DEF copies
<1>3. PICK c \in copies : \A d \in copies : d.retrieved <= c.retrieved
  <2>1. times \in SUBSET Nat /\ times # {}
    BY <1>1, <1>2
  <2>2. IsFiniteSet(times)
    <3>1. [d \in copies |-> d.retrieved] \in Surjection(copies, times)
      BY DEF Surjection
    <3> QED
      BY <1>1, <3>1, FS_Surjection
  <2>3. PICK x \in times : \A y \in times : y <= x
    <3> HIDE DEF times
    <3> QED
      BY <2>1, <2>2, GreatestOf
  <2> QED
    BY <2>3
<1> DEFINE latest == {d \in copies : d.retrieved = c.retrieved}
           ids == {d.id : d \in latest}
<1>4. latest \in SUBSET copies /\ c \in latest
  OBVIOUS
<1>5. PICK e \in latest : \A d \in latest : d.id <= e.id
  <2>1. ids \in SUBSET Nat /\ ids # {}
    BY <1>2, <1>4
  <2>2. IsFiniteSet(ids)
    <3>1. IsFiniteSet(latest)
      BY <1>1, <1>4, FS_Subset
    <3>2. [d \in latest |-> d.id] \in Surjection(latest, ids)
      BY DEF Surjection
    <3> HIDE DEF latest, ids
    <3> QED
      BY <3>1, <3>2, FS_Surjection
  <2>3. PICK x \in ids : \A y \in ids : y <= x
    <3> HIDE DEF ids
    <3> QED
      BY <2>1, <2>2, GreatestOf
  <2> QED
    BY <2>3
<1>6. e \in copies /\ \A d \in copies : d.retrieved < e.retrieved \/ (d.retrieved = e.retrieved /\ d.id <= e.id)
  BY <1>2, <1>3, <1>5
<1>7. KeptCopy(ds, p) \in copies
  BY <1>6, Zenon DEF KeptCopy, copies
<1> QED
  BY <1>7 DEF copies, Copies

LEMMA SelectedIs ==
  ASSUME NEW ds \in SUBSET Inputs
  PROVE  /\ Selected(ds) \in SUBSET Inputs
         /\ \A p \in Publications(ds) : \E d \in Selected(ds) : d.publication = p
         /\ \A c, d \in Selected(ds) : c.publication = d.publication => c = d
         /\ \A d \in Selected(ds) : d.publication \in Publications(ds)
<1>1. \A p \in Publications(ds) : KeptCopy(ds, p) \in ds /\ KeptCopy(ds, p).publication = p
  BY KeptIsCopy
<1> QED
  BY <1>1 DEF Selected

\* Links join a publication and a number that its kept copy states.
LEMMA LinksAre ==
  ASSUME NEW ds \in SUBSET Inputs
  PROVE  \A l : l \in Links(ds) <=>
           \E d \in Selected(ds) : \E n \in d.members \cup ({d.familyId, d.application} \ {None}) :
             l = <<d.publication, n>>
BY DEF Links, Stated, Shared

LEMMA NodesAre ==
  ASSUME NEW ds \in SUBSET Inputs
  PROVE  /\ Nodes(ds) \in SUBSET Nat /\ IsFiniteSet(Nodes(ds))
         /\ Publications(ds) \in SUBSET Nodes(ds) /\ Publications(ds) \cap Evidence = {}
         /\ \A l \in Links(ds) : l[1] \in Publications(ds) /\ l[2] \in Nodes(ds)
<1> DEFINE mentioned(d) == {d.publication} \cup d.members \cup ({d.familyId, d.application} \ {None})
           all == {mentioned(d) : d \in Inputs}
<1>1. ASSUME NEW d \in Inputs PROVE IsFiniteSet(mentioned(d)) /\ mentioned(d) \in SUBSET Nat
  <2>1. IsFiniteSet(d.members) /\ d.members \in SUBSET Nat /\ d.publication \in Nat
    BY NumbersOf
  <2>2. {d.familyId, d.application} \ {None} \in SUBSET Nat
    <3>1. {d.familyId, d.application} \ {None} \in SUBSET Evidence
      BY NumbersOf
    <3> QED
      BY <3>1, DatasetAssumption
  <2>3. IsFiniteSet({d.familyId, d.application} \ {None})
    <3>1. IsFiniteSet({d.familyId} \cup {d.application})
      BY FS_Singleton, FS_Union
    <3>2. {d.familyId, d.application} \ {None} \in SUBSET ({d.familyId} \cup {d.application})
      OBVIOUS
    <3> QED
      BY <3>1, <3>2, FS_Subset
  <2>4. IsFiniteSet({d.publication} \cup d.members)
    BY <2>1, FS_Singleton, FS_Union
  <2> QED
    BY <2>1, <2>2, <2>3, <2>4, FS_Union
<1>2. IsFiniteSet(UNION all)
  <2>1. [d \in Inputs |-> mentioned(d)] \in Surjection(Inputs, all)
    BY DEF Surjection
  <2>2. \A T \in all : IsFiniteSet(T)
    BY <1>1
  <2> HIDE DEF all
  <2>3. IsFiniteSet(all)
    BY <2>1, DatasetAssumption, FS_Surjection
  <2> QED
    BY <2>2, <2>3, FS_UNION
<1>3. \A d \in Selected(ds) : d \in Inputs /\ d.publication \in Publications(ds)
  BY SelectedIs
<1>4. \A p \in Publications(ds) : p \in UNION all /\ p \notin Evidence
  <2>1. ASSUME NEW d \in ds PROVE d.publication \in UNION all /\ d.publication \notin Evidence
    <3>1. mentioned(d) \in all /\ d.publication \in mentioned(d)
      OBVIOUS
    <3>2. d.publication \notin Evidence
      BY NumbersOf
    <3> HIDE DEF all, mentioned
    <3> QED
      BY <3>1, <3>2
  <2> HIDE DEF all, mentioned
  <2> QED
    BY <2>1 DEF Publications
<1>5. \A l \in Links(ds) : l[1] \in Publications(ds) /\ l[2] \in UNION all
  <2> SUFFICES ASSUME NEW l \in Links(ds) PROVE l[1] \in Publications(ds) /\ l[2] \in UNION all
    OBVIOUS
  <2>1. PICK d \in Selected(ds) :
          \E n \in d.members \cup ({d.familyId, d.application} \ {None}) : l = <<d.publication, n>>
    BY LinksAre
  <2>2. PICK n \in d.members \cup ({d.familyId, d.application} \ {None}) : l = <<d.publication, n>>
    BY <2>1
  <2>3. mentioned(d) \in all /\ n \in mentioned(d)
    BY <1>3
  <2> HIDE DEF all, mentioned
  <2> QED
    BY <1>3, <2>2, <2>3
<1>6. UNION all \in SUBSET Nat
  BY <1>1
<1> HIDE DEF all
<1>7. Nodes(ds) \in SUBSET (UNION all)
  BY <1>4, <1>5 DEF Nodes
<1>8. IsFiniteSet(Nodes(ds))
  BY <1>2, <1>7, FS_Subset
<1> QED
  BY <1>4, <1>5, <1>6, <1>7, <1>8 DEF Nodes

-----------------------------------------------------------------------------
(* Components *)

\* Sets of nodes that no link of joined leaves.
Closed(joined, S) == \A l \in joined : l[1] \in S <=> l[2] \in S

\* f is first, and then made by next from the value before.
Iterates(f, K, first, next) == \A k \in 0..K : f[k] = IF k = 0 THEN first ELSE next[f[k - 1]]

\* What is made from a first value, round by round, is a function on the rounds.
LEMMA Iterating ==
  ASSUME NEW K \in Nat, NEW V, NEW first \in V, NEW next, \A v \in V : next[v] \in V
  PROVE  \E f \in [0..K -> V] : Iterates(f, K, first, next)
<1>1. PICK D : D = 0..K
  OBVIOUS
<1>2. \A k \in D : k \in Nat /\ k <= K /\ (k # 0 => k - 1 \in D /\ k - 1 <= k)
  BY <1>1
<1>3. D \in SUBSET Nat
  BY <1>2
<1>4. IsFiniteSet(D)
  BY <1>1, FS_Interval
<1>5. PICK before \in Trees(D) : \A k \in D : before[k] = IF k = 0 THEN 0 ELSE k - 1
  <2>1. [k \in D |-> IF k = 0 THEN 0 ELSE k - 1] \in Trees(D)
    BY <1>2 DEF Trees
  <2> QED
    BY <2>1
<1>6. PICK base \in [D -> V] : \A k \in D : base[k] = first
  <2>1. [k \in D |-> first] \in [D -> V]
    OBVIOUS
  <2> QED
    BY <2>1
<1>7. PICK step \in [D \X V -> V] : \A k \in D : \A v \in V : step[<<k, v>>] = next[v]
  <2>1. [p \in D \X V |-> next[p[2]]] \in [D \X V -> V]
    OBVIOUS
  <2> QED
    BY <2>1
<1>8. PICK f \in [D -> V] : Climbs(f, before, base, step)
  BY <1>3, <1>4, Climbing
<1>9. \A k \in D : f[k] = IF before[k] = k THEN base[k] ELSE step[<<k, f[before[k]]>>]
  BY <1>8 DEF Climbs
<1>10. ASSUME NEW k \in D PROVE f[k] = IF k = 0 THEN first ELSE next[f[k - 1]]
  <2>1. CASE k = 0
    BY <1>5, <1>6, <1>9, <2>1
  <2>2. CASE k # 0
    <3>1. k - 1 \in D /\ k - 1 # k
      BY <1>2, <2>2
    <3>2. before[k] = k - 1
      BY <1>5, <2>2
    <3>3. f[k - 1] \in V
      BY <1>8, <3>1
    <3>4. f[k] = step[<<k, f[k - 1]>>]
      BY <1>9, <3>1, <3>2
    <3> QED
      BY <1>7, <2>2, <3>3, <3>4
  <2> QED
    BY <2>1, <2>2
<1> QED
  BY <1>1, <1>10 DEF Iterates

\* Reached is the least set around n that is closed: it grows until it is, within as many rounds
\* as there are nodes.
LEMMA ReachedIs ==
  ASSUME NEW ds \in SUBSET Inputs, NEW joined \in SUBSET Links(ds), NEW n \in Nodes(ds)
  PROVE  /\ Reached(ds, joined, n) \in SUBSET Nodes(ds)
         /\ n \in Reached(ds, joined, n)
         /\ Closed(joined, Reached(ds, joined, n))
         /\ \A C \in SUBSET Nodes(ds) : n \in C /\ Closed(joined, C) => Reached(ds, joined, n) \subseteq C
<1>1. PICK N : N = Nodes(ds)
  OBVIOUS
<1>2. PICK K : K = Cardinality(N)
  OBVIOUS
<1>3. /\ IsFiniteSet(N) /\ K \in Nat /\ n \in N
      /\ \A l \in joined : l[1] \in N /\ l[2] \in N
  <2>1. IsFiniteSet(N) /\ \A l \in joined : l[1] \in N /\ l[2] \in N
    BY <1>1, NodesAre
  <2> QED
    BY <1>1, <1>2, <2>1, FS_CardinalityType
<1> DEFINE Step(S) == S \cup {l[2] : l \in {k \in joined : k[1] \in S}}
                        \cup {l[1] : l \in {k \in joined : k[2] \in S}}
           Is(f) == f = [k \in 0..K |-> IF k = 0 THEN {n} ELSE Step(f[k - 1])]
           After == CHOOSE f : Is(f)
<1>4. Reached(ds, joined, n) = After[K]
  BY <1>1, <1>2, Zenon DEF Reached
<1>5. ASSUME NEW S \in SUBSET N PROVE Step(S) \in SUBSET N /\ S \subseteq Step(S)
  BY <1>3
<1>6. Is(After)
  <2>1. PICK V : V = SUBSET N
    OBVIOUS
  <2>2. PICK next \in [V -> V] : \A S \in V : next[S] = Step(S)
    <3>1. \A S \in V : Step(S) \in V
      <4> HIDE DEF Step
      <4> QED
        BY <1>5, <2>1
    <3> HIDE DEF Step
    <3>2. [S \in V |-> Step(S)] \in [V -> V]
      BY <3>1
    <3> QED
      BY <3>2
  <2>3. PICK first \in V : first = {n}
    BY <1>3, <2>1
  <2>7. PICK f \in [0..K -> V] : Iterates(f, K, first, next)
    BY <1>3, Iterating
  <2>4. \A k \in 0..K : f[k] = IF k = 0 THEN first ELSE next[f[k - 1]]
    BY <2>7 DEF Iterates
  <2> HIDE DEF Step
  <2>5. ASSUME NEW k \in 0..K PROVE f[k] = IF k = 0 THEN {n} ELSE Step(f[k - 1])
    <3>1. CASE k = 0
      BY <2>3, <2>4, <3>1
    <3>2. CASE k # 0
      <4>1. k - 1 \in 0..K
        BY <1>3, <3>2
      <4>2. f[k - 1] \in V
        BY <2>4, <4>1
      <4> QED
        BY <2>2, <2>4, <3>2, <4>2
    <3> QED
      BY <3>1, <3>2
  <2>6. f = [k \in 0..K |-> IF k = 0 THEN {n} ELSE Step(f[k - 1])]
    BY <2>4, <2>5
  <2> QED
    BY <2>6, Zenon
<1> HIDE DEF After
<1>7. /\ After[0] = {n}
      /\ \A k \in 0..K : k # 0 => k - 1 \in 0..K /\ k - 1 < k /\ After[k] = Step(After[k - 1])
  <2>1. \A k \in 0..K : k # 0 => k - 1 \in 0..K /\ k - 1 < k
    BY <1>3
  <2>2. 0 \in 0..K
    BY <1>3
  <2> HIDE DEF Step
  <2> QED
    BY <1>6, <2>1, <2>2
<1>8. ASSUME NEW good \in SUBSET (0..K), 0 \in good,
             \A k \in 0..K : k # 0 /\ k - 1 \in good => k \in good
      PROVE  K \in good
  <2>1. PICK D : D = 0..K
    OBVIOUS
  <2>2. \A k \in D : (\A j \in D : j < k => j \in good) => k \in good
    BY <1>7, <1>8, <2>1
  <2>3. D \in SUBSET Nat /\ K \in D /\ good \in SUBSET D
    BY <1>3, <1>8, <2>1
  <2>4. good = D
    BY <2>2, <2>3, NoLeastFailure
  <2> QED
    BY <2>3, <2>4
<1>9. After[K] \in SUBSET N /\ n \in After[K] /\ Step(After[K]) = After[K]
  <2> DEFINE good == {k \in 0..K : /\ After[k] \in SUBSET N /\ n \in After[k]
                                   /\ k < Cardinality(After[k]) \/ Step(After[k]) = After[k]}
  <2>1. 0 \in good
    <3>1. Cardinality({n}) = 1
      BY FS_Singleton
    <3>2. 0 \in 0..K /\ 0 < 1
      BY <1>3
    <3> HIDE DEF Step
    <3> QED
      BY <1>3, <1>7, <3>1, <3>2
  <2>2. ASSUME NEW k \in 0..K, k # 0, k - 1 \in good PROVE k \in good
    <3> HIDE DEF Step
    <3>1. PICK S : S = After[k - 1]
      OBVIOUS
    <3>2. PICK T : T = Step(S)
      OBVIOUS
    <3>3. After[k] = T /\ S \in SUBSET N /\ n \in S
      BY <1>7, <2>2, <3>1, <3>2
    <3>4. T \in SUBSET N /\ S \subseteq T
      BY <1>5, <3>2, <3>3
    <3>5. CASE S = T
      BY <3>2, <3>3, <3>5
    <3>6. CASE S # T
      <4>1. k - 1 < Cardinality(S)
        BY <2>2, <3>1, <3>2, <3>6
      <4>2. IsFiniteSet(T)
        BY <1>3, <3>4, FS_Subset
      <4>3. Cardinality(S) <= Cardinality(T) /\ Cardinality(S) # Cardinality(T)
        BY <3>4, <3>6, <4>2, FS_Subset
      <4>4. Cardinality(S) \in Nat /\ Cardinality(T) \in Nat
        BY <3>4, <4>2, FS_Subset, FS_CardinalityType
      <4>5. k < Cardinality(T)
        BY <1>3, <4>1, <4>3, <4>4
      <4> QED
        BY <3>3, <3>4, <4>5
    <3> QED
      BY <3>5, <3>6
  <2>3. K \in good
    <3>1. good \in SUBSET (0..K)
      OBVIOUS
    <3> HIDE DEF good
    <3> QED
      BY <1>8, <2>1, <2>2, <3>1
  <2>4. Cardinality(After[K]) <= K /\ Cardinality(After[K]) \in Nat
    <3>1. After[K] \in SUBSET N
      BY <2>3
    <3> QED
      BY <1>2, <1>3, <3>1, FS_Subset, FS_CardinalityType
  <2>5. ~ (K < Cardinality(After[K]))
    BY <1>3, <2>4
  <2> HIDE DEF Step
  <2> QED
    BY <2>3, <2>5
<1>10. Closed(joined, After[K])
  BY <1>9 DEF Closed
<1>11. ASSUME NEW C \in SUBSET N, n \in C, Closed(joined, C) PROVE After[K] \subseteq C
  <2> DEFINE good == {k \in 0..K : After[k] \subseteq C}
  <2>1. 0 \in good
    <3>1. 0 \in 0..K
      BY <1>3
    <3> QED
      BY <1>7, <1>11, <3>1
  <2>2. ASSUME NEW k \in 0..K, k # 0, k - 1 \in good PROVE k \in good
    <3>1. After[k] = Step(After[k - 1]) /\ After[k - 1] \subseteq C
      BY <1>7, <2>2
    <3>2. \A S \in SUBSET C : Step(S) \subseteq C
      BY <1>11 DEF Closed
    <3> HIDE DEF Step
    <3> QED
      BY <3>1, <3>2
  <2>3. K \in good
    <3>1. good \in SUBSET (0..K)
      OBVIOUS
    <3> HIDE DEF good
    <3> QED
      BY <1>8, <2>1, <2>2, <3>1
  <2> QED
    BY <2>3
<1> QED
  BY <1>1, <1>4, <1>9, <1>10, <1>11

-----------------------------------------------------------------------------
(* The steps of a build *)

\* The parents are a tree over the nodes; links that were joined end under one root; and no root
\* was put under one that the joined links do not connect it to.
DatasetInv ==
  /\ inputs \in SUBSET Inputs
  /\ todo \in SUBSET Links(inputs)
  /\ inputs # {} =>
       /\ parent \in Trees(Nodes(inputs))
       /\ \A l \in Links(inputs) \ todo : Root(parent, l[1]) = Root(parent, l[2])
       /\ \A S \in SUBSET Nodes(inputs) :
            Closed(Links(inputs) \ todo, S) => \A n \in Nodes(inputs) : n \in S <=> Root(parent, n) \in S

LEMMA NothingToLink == Links({}) = {}
<1>1. Publications({}) = {}
  BY DEF Publications
<1> QED
  BY <1>1 DEF Links, Selected

\* Building starts from trees of one node.
LEMMA BuildKeepsInv ==
  ASSUME DatasetInv, NEW bs \in SUBSET {d.batch : d \in Inputs}, Build(bs)
  PROVE  DatasetInv'
<1>1. PICK ds : ds = {d \in Inputs : d.batch \in bs}
  OBVIOUS
<1>2. PICK N : N = Nodes(ds)
  OBVIOUS
<1>3. /\ ds \in SUBSET Inputs /\ inputs' = ds /\ todo' = Links(ds)
      /\ parent' = [n \in N |-> n]
  BY <1>1, <1>2 DEF Build
<1>4. N \in SUBSET Nat /\ IsFiniteSet(N)
  BY <1>2, <1>3, NodesAre
<1>5. PICK tree : tree = [n \in N |-> n]
  OBVIOUS
<1>6. tree \in Trees(N)
  <2>1. \A n \in N : tree[n] = n /\ n <= n
    BY <1>4, <1>5
  <2>2. tree \in [N -> N]
    BY <1>5
  <2> QED
    BY ONLY <2>1, <2>2 DEF Trees
<1>7. \A n \in N : Root(tree, n) = n
  BY <1>4, <1>5, <1>6, RootClimbs
<1>8. parent' = tree
  BY <1>3, <1>5
<1>9. Nodes(inputs)' = N /\ (Links(inputs) \ todo)' = {}
  BY <1>2, <1>3
<1>10. \A n : (Root(parent, n))' = Root(tree, n)
  BY <1>8
<1> QED
  BY <1>3, <1>6, <1>7, <1>8, <1>9, <1>10 DEF DatasetInv

\* A union joins two components whole, and the root it keeps is of one of them.
LEMMA JoinKeepsInv ==
  ASSUME DatasetInv, NEW l \in todo, Join(l)
  PROVE  DatasetInv'
<1>1. PICK ds, joined, tree, next, rest : /\ ds = inputs /\ joined = Links(inputs) \ todo /\ tree = parent
                                          /\ next = parent' /\ rest = todo'
  OBVIOUS
<1>2. PICK N : N = Nodes(ds)
  OBVIOUS
<1>3. PICK a, b : a = l[1] /\ b = l[2]
  OBVIOUS
<1>4. /\ ds \in SUBSET Inputs /\ ds # {} /\ tree \in Trees(N) /\ l \in Links(ds)
      /\ next = Union(tree, a, b) /\ inputs' = ds /\ rest = todo \ {l}
      /\ \A k \in joined : Root(tree, k[1]) = Root(tree, k[2])
      /\ \A S \in SUBSET N : Closed(joined, S) => \A n \in N : n \in S <=> Root(tree, n) \in S
      /\ todo \in SUBSET Links(ds)
  <2>1. l \in Links(inputs)
    BY DEF DatasetInv
  <2>2. inputs # {}
    BY <2>1, NothingToLink
  <2> QED
    BY <1>1, <1>2, <1>3, <2>1, <2>2 DEF DatasetInv, Join
<1>5. /\ N \in SUBSET Nat /\ IsFiniteSet(N) /\ a \in N /\ b \in N
      /\ \A k \in Links(ds) : k[1] \in N /\ k[2] \in N
  BY <1>2, <1>3, <1>4, NodesAre
<1>6. PICK ra, rb : ra = Root(tree, a) /\ rb = Root(tree, b)
  OBVIOUS
<1>7. next \in Trees(N)
  BY <1>4, <1>5, UnionIs
<1>8. PICK r \in {ra, rb} :
        \A m \in N : Root(next, m) = IF Root(tree, m) \in {ra, rb} THEN r ELSE Root(tree, m)
  BY <1>4, <1>5, <1>6, UnionIs
<1>9. Links(ds) \ rest = joined \cup {l}
  BY <1>1, <1>4
<1>10. \A k \in joined \cup {l} : Root(next, k[1]) = Root(next, k[2])
  <2>1. \A k \in joined : k[1] \in N /\ k[2] \in N
    BY <1>1, <1>5
  <2>2. Root(next, a) = r /\ Root(next, b) = r
    BY <1>5, <1>6, <1>8
  <2> QED
    BY <1>3, <1>4, <1>8, <2>1, <2>2
<1>11. ASSUME NEW S \in SUBSET N, Closed(joined \cup {l}, S), NEW n \in N
       PROVE  n \in S <=> Root(next, n) \in S
  <2>1. Closed(joined, S) /\ (a \in S <=> b \in S)
    BY <1>3, <1>11 DEF Closed
  <2>2. /\ n \in S <=> Root(tree, n) \in S
        /\ a \in S <=> ra \in S
        /\ b \in S <=> rb \in S
    BY <1>4, <1>5, <1>6, <2>1
  <2>3. ra \in S <=> r \in S
    BY <1>8, <2>1, <2>2
  <2>4. rb \in S <=> r \in S
    BY <1>8, <2>1, <2>2
  <2> QED
    BY <1>8, <2>2, <2>3, <2>4
<1>12. rest \in SUBSET Links(ds)
  BY <1>4
<1>13. /\ inputs' = ds /\ todo' = rest /\ parent' = next
       /\ Nodes(inputs)' = N /\ Links(inputs)' = Links(ds)
  BY <1>1, <1>2, <1>4
<1>14. \A k \in (Links(inputs) \ todo)' : Root(parent, k[1])' = Root(parent, k[2])'
  BY <1>9, <1>10, <1>13
<1>15. \A S \in SUBSET N : Closed(joined \cup {l}, S) => \A n \in N : n \in S <=> Root(next, n) \in S
  BY <1>11
<1>16. \A S \in SUBSET Nodes(inputs)' : Closed(Links(inputs) \ todo, S)' =>
         \A n \in Nodes(inputs)' : n \in S <=> Root(parent, n)' \in S
  BY <1>9, <1>13, <1>15
<1> QED
  BY <1>4, <1>7, <1>12, <1>13, <1>14, <1>16 DEF DatasetInv

LEMMA DatasetInvInit == DatasetInit => DatasetInv
BY DEF DatasetInit, DatasetInv

LEMMA DatasetInvNext == DatasetInv /\ [DatasetNext]_datasetVars => DatasetInv'
<1> SUFFICES ASSUME DatasetInv, [DatasetNext]_datasetVars PROVE DatasetInv'
  OBVIOUS
<1>1. CASE \E bs \in SUBSET {d.batch : d \in Inputs} : Build(bs)
  BY <1>1, BuildKeepsInv
<1>2. CASE \E l \in todo : Join(l)
  BY <1>2, JoinKeepsInv
<1>3. CASE Store
  BY <1>3 DEF DatasetInv, Store
<1>4. CASE UNCHANGED datasetVars
  BY <1>4 DEF DatasetInv, datasetVars
<1> QED
  BY <1>1, <1>2, <1>3, <1>4 DEF DatasetNext

\* A dataset that is being built keeps its union-find in order.
THEOREM DatasetInvariant == DatasetSpec => []DatasetInv
<1>1. DatasetInit => DatasetInv
  BY DatasetInvInit
<1>2. DatasetInv /\ [DatasetNext]_datasetVars => DatasetInv'
  BY DatasetInvNext
<1> QED
  BY <1>1, <1>2, PTL DEF DatasetSpec

\* The invariant makes roots and components the same.
LEMMA InvGivesRoots == DatasetInv => RootsAreComponents
<1> SUFFICES ASSUME DatasetInv, inputs # {}, NEW n \in Nodes(inputs)
             PROVE  Root(parent, n) = SmallestOf(Reached(inputs, Links(inputs) \ todo, n))
  BY DEF RootsAreComponents
<1>1. PICK ds, joined, tree : ds = inputs /\ joined = Links(inputs) \ todo /\ tree = parent
  OBVIOUS
<1>2. PICK N : N = Nodes(ds)
  OBVIOUS
<1>3. /\ ds \in SUBSET Inputs /\ joined \in SUBSET Links(ds) /\ tree \in Trees(N) /\ n \in N
      /\ \A k \in joined : Root(tree, k[1]) = Root(tree, k[2])
      /\ \A S \in SUBSET N : Closed(joined, S) => \A m \in N : m \in S <=> Root(tree, m) \in S
  BY <1>1, <1>2 DEF DatasetInv
<1>4. N \in SUBSET Nat /\ IsFiniteSet(N) /\ \A k \in joined : k[1] \in N /\ k[2] \in N
  BY <1>2, <1>3, NodesAre
<1>5. PICK near : near = Reached(ds, joined, n)
  OBVIOUS
<1>6. /\ near \in SUBSET N /\ n \in near /\ Closed(joined, near)
      /\ \A C \in SUBSET N : n \in C /\ Closed(joined, C) => near \subseteq C
  BY <1>2, <1>3, <1>5, ReachedIs
<1>7. PICK r : r = Root(tree, n)
  OBVIOUS
<1>8. r \in near
  BY <1>3, <1>6, <1>7
<1> DEFINE C == {m \in N : Root(tree, m) = r}
<1>9. near \subseteq C
  <2>1. C \in SUBSET N /\ n \in C
    BY <1>3, <1>7
  <2>2. Closed(joined, C)
    BY <1>3, <1>4 DEF Closed
  <2> HIDE DEF C
  <2> QED
    BY <1>6, <2>1, <2>2
<1>10. \A m \in near : r <= m /\ r \in Nat /\ m \in Nat
  <2>1. ASSUME NEW m \in near PROVE r <= m /\ r \in Nat /\ m \in Nat
    <3>1. m \in N /\ Root(tree, m) = r
      BY <1>9
    <3>2. r \in N /\ r <= m
      BY <1>3, <1>4, <3>1, RootIsRoot
    <3> QED
      BY <1>4, <3>1, <3>2
  <2> QED
    BY <2>1
<1>11. SmallestOf(near) = r
  <2>1. \A x \in near : (\A y \in near : x <= y) => x = r
    BY <1>8, <1>10
  <2> QED
    BY <1>8, <1>10, <2>1 DEF SmallestOf
<1> QED
  BY <1>1, <1>5, <1>7, <1>11

\* Whatever the order of the unions, and with the paths compressed on the way, two nodes have one
\* root exactly if the links joined so far connect them, and it is the least of them
\* (_UnionFind.find, _UnionFind.union).
THEOREM FamiliesAreComponents == DatasetSpec => []RootsAreComponents
BY DatasetInvariant, InvGivesRoots, PTL

-----------------------------------------------------------------------------
(* Plans *)

\* A set of one has no second element; a finite set without a second one has at most one.
LEMMA OneElement ==
  ASSUME NEW S, IsFiniteSet(S), NEW x \in S
  PROVE  /\ Cardinality(S) \in Nat
         /\ Cardinality(S) = 1 <=> S = {x}
         /\ Cardinality(S) > 1 <=> S # {x}
<1>1. Cardinality(S) \in Nat /\ Cardinality(S \ {x}) = Cardinality(S) - 1 /\ IsFiniteSet(S \ {x})
  BY FS_CardinalityType, FS_RemoveElement
<1>2. Cardinality(S \ {x}) \in Nat /\ (Cardinality(S \ {x}) = 0 <=> S \ {x} = {})
  BY <1>1, FS_CardinalityType, FS_EmptySet
<1>3. S \ {x} = {} <=> S = {x}
  OBVIOUS
<1> QED
  BY <1>1, <1>2, <1>3

\* A publication has one copy that is kept.
LEMMA OneCopyEach ==
  ASSUME NEW ds \in SUBSET Inputs
  PROVE  /\ IsFiniteSet(Publications(ds))
         /\ Cardinality(Selected(ds)) = Cardinality(Publications(ds))
<1>1. IsFiniteSet(Publications(ds))
  BY NodesAre, FS_Subset
<1> DEFINE kept == [p \in Publications(ds) |-> KeptCopy(ds, p)]
<1>2. \A p \in Publications(ds) : KeptCopy(ds, p).publication = p
  BY KeptIsCopy
<1>3. kept \in Bijection(Publications(ds), Selected(ds))
  BY <1>2 DEF Bijection, Injection, Surjection, IsInjective, Selected
<1>4. Cardinality(Publications(ds)) = Cardinality(Selected(ds))
  <2>1. PICK P, S : P = Publications(ds) /\ S = Selected(ds)
    OBVIOUS
  <2>2. ExistsBijection(P, S)
    BY <1>3, <2>1 DEF ExistsBijection
  <2>3. IsFiniteSet(P)
    BY <1>1, <2>1
  <2>4. Cardinality(P) = Cardinality(S)
    BY <2>2, <2>3, FS_Bijection
  <2> QED
    BY <2>1, <2>4
<1> QED
  BY <1>1, <1>4

\* Components are whole: they hold both ends of a link or none, and two that meet are one.
LEMMA ComponentsAre ==
  ASSUME DatasetInv, inputs # {}, todo = {}, NEW p \in Publications(inputs)
  PROVE  /\ p \in Component(parent, p) /\ Component(parent, p) \in SUBSET Nodes(inputs)
         /\ Closed(Links(inputs), Component(parent, p))
         /\ \A S \in SUBSET Nodes(inputs) :
              p \in S /\ Closed(Links(inputs), S) => Component(parent, p) \subseteq S
         /\ \A q \in Publications(inputs) :
              Component(parent, p) \cap Component(parent, q) # {} =>
                Component(parent, p) = Component(parent, q)
<1>1. PICK ds, tree : ds = inputs /\ tree = parent
  OBVIOUS
<1>2. PICK N : N = Nodes(ds)
  OBVIOUS
<1>3. /\ ds \in SUBSET Inputs /\ tree \in Trees(N) /\ p \in Publications(ds)
      /\ \A k \in Links(ds) : Root(tree, k[1]) = Root(tree, k[2])
      /\ \A S \in SUBSET N : Closed(Links(ds), S) => \A m \in N : m \in S <=> Root(tree, m) \in S
  <2>1. Links(inputs) \ todo = Links(inputs)
    OBVIOUS
  <2> QED
    BY <1>1, <1>2, <2>1 DEF DatasetInv
<1>4. Publications(ds) \in SUBSET N /\ \A k \in Links(ds) : k[1] \in N /\ k[2] \in N
  BY <1>2, <1>3, NodesAre
<1>5. \A q : Component(tree, q) = {m \in N : Root(tree, m) = Root(tree, q)}
  BY <1>3 DEF Component, Trees
<1>6. p \in Component(tree, p) /\ Component(tree, p) \in SUBSET N
  BY <1>3, <1>4, <1>5
<1>7. Closed(Links(ds), Component(tree, p))
  BY <1>3, <1>4, <1>5 DEF Closed
<1>8. ASSUME NEW S \in SUBSET N, p \in S, Closed(Links(ds), S) PROVE Component(tree, p) \subseteq S
  BY <1>3, <1>4, <1>5, <1>8
<1>9. \A q \in Publications(ds) :
        Component(tree, p) \cap Component(tree, q) # {} => Component(tree, p) = Component(tree, q)
  BY <1>5
<1> QED
  BY <1>1, <1>2, <1>6, <1>7, <1>8, <1>9

\* What a family is made of.
LEMMA FamiliesAre ==
  ASSUME NEW ds, NEW tree, NEW f \in Families(ds, tree)
  PROVE  \E p \in Publications(ds) :
           /\ f.key = SmallestOf(f.inside)
           /\ f.inside = Component(tree, p) \cap Publications(ds)
           /\ f.outside = Component(tree, p) \ (Publications(ds) \cup Evidence)
           /\ f.evidence = EvidenceOf(ds, Component(tree, p))
           /\ f = [key |-> f.key, inside |-> f.inside, outside |-> f.outside, evidence |-> f.evidence]
<1>1. PICK p \in Publications(ds) :
        f = [key |-> SmallestOf(Component(tree, p) \cap Publications(ds)),
             inside |-> Component(tree, p) \cap Publications(ds),
             outside |-> Component(tree, p) \ (Publications(ds) \cup Evidence),
             evidence |-> EvidenceOf(ds, Component(tree, p))]
  BY Zenon DEF Families
<1> QED
  BY <1>1

\* Evidence is there exactly if a member was stated or a number is shared by two publications.
LEMMA EvidenceIs ==
  ASSUME NEW ds, NEW nodes
  PROVE  EvidenceOf(ds, nodes) = {} <=>
           /\ \A d \in Selected(ds) : d.publication \in nodes => d.members = {}
           /\ \A e \in nodes \cap Evidence : ~ (Cardinality(Attached(ds, e)) > 1)
BY DEF EvidenceOf

LEMMA PlanConserves ==
  ASSUME DatasetInv, inputs # {}, todo = {}
  PROVE  Conserves(inputs, Families(inputs, parent))
<1>1. PICK pubs, families : pubs = Publications(inputs) /\ families = Families(inputs, parent)
  OBVIOUS
<1>2. inputs \in SUBSET Inputs
  BY DEF DatasetInv
<1>3. Cardinality(Selected(inputs)) = Cardinality(pubs) /\ pubs \in SUBSET Nat
  <2>1. PICK ds \in SUBSET Inputs : ds = inputs
    BY <1>2
  <2> QED
    BY <1>1, <2>1, OneCopyEach, NodesAre
<1>4. ASSUME NEW p \in pubs PROVE \E f \in families : p \in f.inside
  <2>1. p \in Component(parent, p)
    BY <1>1, ComponentsAre
  <2> DEFINE g == [key |-> SmallestOf(Component(parent, p) \cap Publications(inputs)),
                   inside |-> Component(parent, p) \cap Publications(inputs),
                   outside |-> Component(parent, p) \ (Publications(inputs) \cup Evidence),
                   evidence |-> EvidenceOf(inputs, Component(parent, p))]
  <2>2. g \in families
    BY <1>1, Zenon DEF Families
  <2>3. p \in g.inside
    BY <1>1, <2>1
  <2> QED
    BY <2>2, <2>3, Zenon
<1>5. ASSUME NEW f \in families
      PROVE  f.inside \subseteq pubs /\ f.inside # {} /\ f.key \in f.inside /\ f.outside \cap pubs = {}
  <2>1. PICK p \in pubs : /\ f.key = SmallestOf(f.inside)
                          /\ f.inside = Component(parent, p) \cap pubs
                          /\ f.outside = Component(parent, p) \ (pubs \cup Evidence)
    BY <1>1, FamiliesAre
  <2>2. p \in Component(parent, p)
    BY <1>1, ComponentsAre
  <2>3. PICK S : S = f.inside
    OBVIOUS
  <2>4. S \in SUBSET Nat /\ S # {}
    BY <1>3, <2>1, <2>2, <2>3
  <2>5. \E x \in S : \A y \in S : x <= y
    BY <2>4, LeastRow
  <2>6. SmallestOf(S) \in S
    BY <2>5 DEF SmallestOf
  <2> QED
    BY <2>1, <2>2, <2>3, <2>4, <2>6
<1>6. ASSUME NEW f \in families, NEW g \in families, f # g
      PROVE  f.inside \cap g.inside = {} /\ f.outside \cap g.outside = {}
  <2>1. PICK p \in pubs : /\ f.key = SmallestOf(f.inside)
                          /\ f.inside = Component(parent, p) \cap pubs
                          /\ f.outside = Component(parent, p) \ (pubs \cup Evidence)
                          /\ f.evidence = EvidenceOf(inputs, Component(parent, p))
                          /\ f = [key |-> f.key, inside |-> f.inside, outside |-> f.outside, evidence |-> f.evidence]
    BY <1>1, FamiliesAre
  <2>2. PICK q \in pubs : /\ g.key = SmallestOf(g.inside)
                          /\ g.inside = Component(parent, q) \cap pubs
                          /\ g.outside = Component(parent, q) \ (pubs \cup Evidence)
                          /\ g.evidence = EvidenceOf(inputs, Component(parent, q))
                          /\ g = [key |-> g.key, inside |-> g.inside, outside |-> g.outside, evidence |-> g.evidence]
    BY <1>1, FamiliesAre
  <2>3. Component(parent, p) # Component(parent, q)
    <3> SUFFICES ASSUME Component(parent, p) = Component(parent, q) PROVE FALSE
      OBVIOUS
    <3>1. f.inside = g.inside /\ f.outside = g.outside /\ f.evidence = g.evidence /\ f.key = g.key
      BY <2>1, <2>2
    <3>2. f = g
      BY <2>1, <2>2, <3>1
    <3> QED
      BY <1>6, <3>2
  <2>4. Component(parent, p) \cap Component(parent, q) = {}
    BY <1>1, <2>3, ComponentsAre
  <2> QED
    BY <2>1, <2>2, <2>4
<1>7. UNION {f.inside : f \in families} = pubs
  BY <1>4, <1>5
<1>8. \A f, g \in families :
        f # g => f.key # g.key /\ f.inside \cap g.inside = {} /\ f.outside \cap g.outside = {}
  BY <1>5, <1>6
<1>9. \A f \in families : f.outside \cap pubs = {}
  BY <1>5
<1> QED
  BY <1>1, <1>3, <1>7, <1>8, <1>9 DEF Conserves

\* A publication that nothing links is a family of one.
LEMMA NothingLinked ==
  ASSUME NEW ds \in SUBSET Inputs, NEW p \in Publications(ds),
         NEW nodes \in SUBSET Nodes(ds), p \in nodes, Closed(Links(ds), nodes),
         \A S \in SUBSET Nodes(ds) : p \in S /\ Closed(Links(ds), S) => nodes \subseteq S,
         EvidenceOf(ds, nodes) = {}
  PROVE  nodes \ (Publications(ds) \cup Evidence) = {} /\ nodes \cap Publications(ds) = {p}
<1>1. PICK d \in Selected(ds) : d.publication = p
  BY SelectedIs
<1> DEFINE stated == {d.familyId, d.application} \ {None}
           S == {p} \cup stated
<1>2. /\ \A c \in Selected(ds) : c.publication \in nodes => c.members = {}
      /\ \A e \in nodes \cap Evidence : ~ (Cardinality(Attached(ds, e)) > 1)
  BY EvidenceIs
<1>3. stated \in SUBSET Evidence /\ p \notin Evidence /\ d.members = {}
  BY <1>1, <1>2, SelectedIs, NumbersOf
<1>4. \A e \in stated : <<p, e>> \in Links(ds)
  BY <1>1, LinksAre
<1>5. \A e \in stated : e \in nodes
  BY <1>4 DEF Closed
<1>6. ASSUME NEW l \in Links(ds) PROVE l[1] \in S <=> l[2] \in S
  <2>1. PICK c \in Selected(ds) :
          \E n \in c.members \cup ({c.familyId, c.application} \ {None}) : l = <<c.publication, n>>
    BY LinksAre
  <2>2. PICK n \in c.members \cup ({c.familyId, c.application} \ {None}) : l = <<c.publication, n>>
    BY <2>1
  <2>3. /\ c \in Inputs /\ c.publication \in Publications(ds) /\ c.publication \notin Evidence
        /\ {c.familyId, c.application} \ {None} \in SUBSET Evidence
        /\ c.members \cap Evidence = {}
    BY SelectedIs, NumbersOf
  <2>4. l[1] = c.publication /\ l[2] = n /\ (l[1] \in nodes <=> l[2] \in nodes)
    BY <2>2 DEF Closed
  <2>5. ASSUME c.publication \in S PROVE n \in S
    <3>1. c.publication = p
      BY <1>3, <2>3, <2>5
    <3>2. c = d
      BY <1>1, <3>1, SelectedIs
    <3> QED
      BY <1>3, <2>2, <3>2
  <2>6. ASSUME n \in S PROVE c.publication \in S
    <3>1. n \in nodes
      BY <1>5, <2>6
    <3>2. c.members = {}
      BY <1>2, <2>4, <3>1
    <3>3. n \in {c.familyId, c.application} /\ n \in Evidence
      BY <2>2, <2>3, <3>2
    <3>4. n \in stated
      BY <1>3, <2>6, <3>3
    <3>5. p \in Attached(ds, n) /\ c.publication \in Attached(ds, n)
      BY <1>1, <3>3, <3>4 DEF Attached
    <3>6. IsFiniteSet(Attached(ds, n))
      <4>1. Attached(ds, n) \in SUBSET Publications(ds)
        BY SelectedIs DEF Attached
      <4>2. IsFiniteSet(Publications(ds))
        BY OneCopyEach
      <4> QED
        BY <4>1, <4>2, FS_Subset
    <3>7. Attached(ds, n) = {p}
      <4>1. ~ (Cardinality(Attached(ds, n)) > 1)
        BY <1>2, <3>1, <3>3
      <4>2. PICK A : A = Attached(ds, n)
        OBVIOUS
      <4> QED
        BY <3>5, <3>6, <4>1, <4>2, OneElement
    <3> QED
      BY <3>5, <3>7
  <2> QED
    BY <2>4, <2>5, <2>6
<1>7. nodes \subseteq S
  <2>1. S \in SUBSET Nodes(ds)
    BY <1>5
  <2>2. Closed(Links(ds), S)
    BY <1>6 DEF Closed
  <2>3. p \in S
    OBVIOUS
  <2> HIDE DEF S
  <2> QED
    BY <2>1, <2>2, <2>3
<1>8. Publications(ds) \cap Evidence = {}
  BY NodesAre
<1> QED
  BY <1>3, <1>7, <1>8

\* A publication that is linked to another, or to a member outside, has evidence for it.
LEMMA SomethingLinked ==
  ASSUME NEW ds \in SUBSET Inputs, NEW p \in Publications(ds),
         NEW nodes \in SUBSET Nodes(ds), p \in nodes, Closed(Links(ds), nodes),
         nodes \ (Publications(ds) \cup Evidence) = {}, nodes \cap Publications(ds) = {p}
  PROVE  EvidenceOf(ds, nodes) = {}
<1>1. ASSUME NEW d \in Selected(ds), d.publication \in nodes PROVE d.members = {}
  <2>1. d.publication = p
    BY <1>1, SelectedIs
  <2>2. SUFFICES ASSUME NEW m \in d.members PROVE FALSE
    OBVIOUS
  <2>3. <<p, m>> \in Links(ds)
    BY <2>1, LinksAre
  <2>4. m \in nodes
    BY <2>3 DEF Closed
  <2>5. m \notin Evidence /\ m # p
    BY <2>1, SelectedIs, NumbersOf
  <2> QED
    BY <2>4, <2>5
<1>2. ASSUME NEW e \in nodes \cap Evidence PROVE ~ (Cardinality(Attached(ds, e)) > 1)
  <2>1. ASSUME NEW q \in Attached(ds, e) PROVE q = p
    <3>1. PICK d \in Selected(ds) : e \in {d.familyId, d.application} /\ q = d.publication
      BY DEF Attached
    <3>2. e # None
      BY DatasetAssumption
    <3>3. <<q, e>> \in Links(ds)
      BY <3>1, <3>2, LinksAre
    <3>4. q \in nodes
      BY <3>3 DEF Closed
    <3> QED
      BY <3>1, <3>4, SelectedIs
  <2>2. CASE Attached(ds, e) = {}
    <3>1. Cardinality(Attached(ds, e)) = 0
      BY <2>2, FS_EmptySet
    <3> QED
      BY <3>1
  <2>3. CASE Attached(ds, e) # {}
    <3>1. Attached(ds, e) = {p}
      BY <2>1, <2>3
    <3>2. Cardinality(Attached(ds, e)) = 1
      BY <3>1, FS_Singleton
    <3> QED
      BY <3>2
  <2> QED
    BY <2>2, <2>3
<1> QED
  BY <1>1, <1>2, EvidenceIs

\* A plan never fails its own conservation check, and claims evidence exactly where it linked
\* something.
LEMMA InvGivesPlan == DatasetInv => PlanIsConserved
<1> SUFFICES ASSUME DatasetInv, inputs # {}, todo = {}, NEW f \in Families(inputs, parent)
             PROVE  f.evidence = {} <=> f.outside = {} /\ Cardinality(f.inside) = 1
  BY PlanConserves DEF PlanIsConserved
<1>1. PICK ds \in SUBSET Inputs : ds = inputs
  BY DEF DatasetInv
<1>2. PICK p \in Publications(ds) : /\ f.inside = Component(parent, p) \cap Publications(ds)
                                    /\ f.outside = Component(parent, p) \ (Publications(ds) \cup Evidence)
                                    /\ f.evidence = EvidenceOf(ds, Component(parent, p))
  BY <1>1, FamiliesAre
<1>3. PICK nodes : nodes = Component(parent, p)
  OBVIOUS
<1>4. /\ p \in nodes /\ nodes \in SUBSET Nodes(ds) /\ Closed(Links(ds), nodes)
      /\ \A S \in SUBSET Nodes(ds) : p \in S /\ Closed(Links(ds), S) => nodes \subseteq S
  BY <1>1, <1>3, ComponentsAre
<1>5. PICK inside, outside : inside = f.inside /\ outside = f.outside
  OBVIOUS
<1>6. inside = nodes \cap Publications(ds) /\ outside = nodes \ (Publications(ds) \cup Evidence)
  BY <1>2, <1>3, <1>5
<1>7. Cardinality(inside) = 1 <=> inside = {p}
  <2>1. p \in inside
    BY <1>4, <1>6
  <2>2. IsFiniteSet(inside)
    <3>1. IsFiniteSet(Publications(ds)) /\ inside \in SUBSET Publications(ds)
      BY <1>6, OneCopyEach
    <3> QED
      BY <3>1, FS_Subset
  <2> QED
    BY <2>1, <2>2, OneElement
<1>8. ASSUME EvidenceOf(ds, nodes) = {} PROVE outside = {} /\ inside = {p}
  BY <1>4, <1>6, <1>8, NothingLinked
<1>9. ASSUME outside = {}, inside = {p} PROVE EvidenceOf(ds, nodes) = {}
  BY <1>4, <1>6, <1>9, SomethingLinked
<1> QED
  BY <1>2, <1>3, <1>5, <1>7, <1>8, <1>9

\* Once all unions are made, the families partition the publications under distinct keys, every
\* stated member outside is in one of them, and evidence is claimed exactly where something was
\* linked: check_conservation never fails on a plan of _group_families.
THEOREM PlansAreConserved == DatasetSpec => []PlanIsConserved
BY DatasetInvariant, InvGivesPlan, PTL

-----------------------------------------------------------------------------
(* Names *)

\* A suffix that goes leaves something, and less than there was.
LEMMA StrippedIs ==
  ASSUME NEW V, NEW w \in Seq(V), w # <<>>
  PROVE  /\ Stripped(w) \in Seq(V) /\ Stripped(w) # <<>>
         /\ Stripped(w) = w \/ Len(Stripped(w)) < Len(w)
<1> DEFINE fits == {i \in DOMAIN LegalSuffixes : Ends(w, LegalSuffixes[i])}
<1>1. CASE fits = {}
  BY <1>1 DEF Stripped
<1>2. CASE fits # {}
  <2>1. LegalSuffixes \in Seq({LegalSuffixes[i] : i \in DOMAIN LegalSuffixes})
    BY NameAssumption DEF IsSequence
  <2>2. fits \in SUBSET Nat
    BY <2>1
  <2>3. PICK i : i = SmallestOf(fits)
    OBVIOUS
  <2>4. i \in fits
    <3>1. \E x \in fits : \A y \in fits : x <= y
      <4> HIDE DEF fits
      <4> QED
        BY <1>2, <2>2, LeastRow
    <3> QED
      BY <2>3, <3>1 DEF SmallestOf
  <2>5. PICK s : s = LegalSuffixes[i]
    OBVIOUS
  <2>6. s \in Seq({s[k] : k \in DOMAIN s}) /\ s # <<>> /\ Len(w) > Len(s)
    <3>1. IsSequence(s) /\ s # <<>>
      BY <2>4, <2>5, NameAssumption
    <3>2. Len(w) > Len(s)
      BY <2>4, <2>5, Zenon DEF Ends
    <3> QED
      BY <3>1, <3>2 DEF IsSequence
  <2>7. Len(w) \in Nat /\ Len(s) \in Nat /\ Len(s) > 0
    BY <2>6
  <2>8. Stripped(w) = SubSeq(w, 1, Len(w) - Len(s))
    BY <1>2, <2>3, <2>5, Zenon DEF Stripped
  <2>9. PICK n : n = Len(w) - Len(s)
    OBVIOUS
  <2>10. n \in 1..Len(w) /\ n < Len(w)
    BY <2>6, <2>7, <2>9
  <2>11. SubSeq(w, 1, n) \in Seq(V) /\ Len(SubSeq(w, 1, n)) = n
    BY <2>10
  <2>12. PICK x : x = SubSeq(w, 1, n)
    OBVIOUS
  <2>13. x \in Seq(V) /\ Len(x) = n /\ n # 0
    BY <2>7, <2>10, <2>11, <2>12
  <2>14. x # <<>>
    BY <2>13
  <2> QED
    BY <2>8, <2>9, <2>10, <2>12, <2>13, <2>14
<1> QED
  BY <1>1, <1>2

\* A key is not empty, and no suffix goes from it: it has been stripped as often as it has words.
LEMMA KeyIsStripped ==
  ASSUME NEW name \in Names, name.words # <<>>
  PROVE  Key(name) # <<>> /\ Stripped(Key(name)) = Key(name)
<1>1. PICK words : words = name.words
  OBVIOUS
<1>2. PICK V : V = {words[i] : i \in DOMAIN words}
  OBVIOUS
<1>3. words \in Seq(V) /\ words # <<>>
  BY <1>1, <1>2, NameAssumption DEF IsSequence
<1>4. PICK K : K = Len(words)
  OBVIOUS
<1>5. K \in Nat
  BY <1>3, <1>4
<1> DEFINE Is(f) == f = [k \in 0..K |-> IF k = 0 THEN words ELSE Stripped(f[k - 1])]
           After == CHOOSE f : Is(f)
           W == Seq(V) \ {<<>>}
<1>6. Key(name) = After[K]
  BY <1>1, <1>4, Zenon DEF Key
<1>7. \A w \in W : Stripped(w) \in W /\ (Stripped(w) = w \/ Len(Stripped(w)) < Len(w)) /\ Len(w) \in Nat
  BY StrippedIs
<1>8. Is(After)
  <2>1. PICK X : X = W
    OBVIOUS
  <2>2. PICK next \in [X -> X] : \A w \in X : next[w] = Stripped(w)
    <3>1. [w \in X |-> Stripped(w)] \in [X -> X]
      BY <1>7, <2>1
    <3> QED
      BY <3>1
  <2>3. words \in X
    BY <1>3, <2>1
  <2>4. PICK f \in [0..K -> X] : Iterates(f, K, words, next)
    BY <1>5, <2>3, Iterating
  <2>5. \A k \in 0..K : f[k] = IF k = 0 THEN words ELSE next[f[k - 1]]
    BY <2>4 DEF Iterates
  <2>6. ASSUME NEW k \in 0..K PROVE f[k] = IF k = 0 THEN words ELSE Stripped(f[k - 1])
    <3>1. CASE k = 0
      BY <2>5, <3>1
    <3>2. CASE k # 0
      <4>1. k - 1 \in 0..K
        BY <1>5, <3>2
      <4>2. f[k - 1] \in X
        BY <2>4, <4>1
      <4> QED
        BY <2>2, <2>5, <3>2, <4>2
    <3> QED
      BY <3>1, <3>2
  <2>7. f = [k \in 0..K |-> IF k = 0 THEN words ELSE Stripped(f[k - 1])]
    BY <2>4, <2>6
  <2> QED
    BY <2>7, Zenon
<1> HIDE DEF After
<1> DEFINE good == {k \in 0..K : /\ After[k] \in W
                                 /\ Stripped(After[k]) = After[k] \/ Len(After[k]) + k <= K}
<1>9. 0 \in good
  <2>1. 0 \in 0..K /\ After[0] = words
    BY <1>5, <1>8
  <2> QED
    BY <1>3, <1>4, <1>5, <2>1
<1>10. ASSUME NEW k \in 0..K, k # 0, k - 1 \in good PROVE k \in good
  <2>1. k \in Nat /\ k - 1 \in 0..K /\ After[k] = Stripped(After[k - 1])
    BY <1>5, <1>8, <1>10
  <2>2. PICK w : w = After[k - 1]
    OBVIOUS
  <2>3. w \in W /\ (Stripped(w) = w \/ Len(w) + (k - 1) <= K)
    BY <1>10, <2>2
  <2>4. CASE Stripped(w) = w
    BY <2>1, <2>2, <2>3, <2>4
  <2>5. CASE Stripped(w) # w
    <3>1. Len(Stripped(w)) < Len(w) /\ Len(w) \in Nat /\ Len(w) + (k - 1) <= K /\ Stripped(w) \in W
      BY <1>7, <2>3, <2>5
    <3>2. Len(Stripped(w)) \in Nat
      BY <1>7, <3>1
    <3>3. Len(Stripped(w)) + k <= K
      BY <1>5, <2>1, <3>1, <3>2
    <3> QED
      BY <2>1, <2>2, <3>1, <3>3
  <2> QED
    BY <2>4, <2>5
<1>11. K \in good
  <2>1. PICK D : D = 0..K
    OBVIOUS
  <2>2. \A k \in D : k \in Nat /\ (k # 0 => k - 1 \in D /\ k - 1 < k)
    BY <1>5, <2>1
  <2>3. D \in SUBSET Nat /\ K \in D /\ good \in SUBSET D
    BY <1>5, <2>1
  <2> HIDE DEF good
  <2>4. \A k \in D : (\A j \in D : j < k => j \in good) => k \in good
    BY <1>9, <1>10, <2>1, <2>2
  <2>5. good = D
    BY <2>3, <2>4, NoLeastFailure
  <2> QED
    BY <2>3, <2>5
<1>12. After[K] \in W /\ Stripped(After[K]) = After[K]
  <2>1. After[K] \in W /\ (Stripped(After[K]) = After[K] \/ Len(After[K]) + K <= K)
    BY <1>11
  <2>2. \A w \in W : Len(w) \in Nat /\ Len(w) # 0
    OBVIOUS
  <2>3. ~ (Len(After[K]) + K <= K)
    BY <1>5, <2>1, <2>2
  <2> QED
    BY <2>1, <2>3
<1> QED
  BY <1>6, <1>12

-----------------------------------------------------------------------------
(* Spellings *)

\* The names of the applicants of the selected documents.
Used(ds) == UNION {{d.applicants[i] : i \in DOMAIN d.applicants} : d \in Selected(ds)}

\* Where a spelling is used.
Uses(ds, raw) == UNION {{<<d, i>> : i \in {k \in DOMAIN d.applicants : d.applicants[k].raw = raw}} :
                          d \in Selected(ds)}

LEMMA UsedAre ==
  ASSUME NEW ds \in SUBSET Inputs
  PROVE  /\ Used(ds) \in SUBSET Names /\ IsFiniteSet(Used(ds))
         /\ \A raw : IsFiniteSet(Uses(ds, raw))
<1>1. Selected(ds) \in SUBSET Inputs /\ IsFiniteSet(Selected(ds))
  BY SelectedIs, DatasetAssumption, FS_Subset
<1>2. ASSUME NEW d \in Selected(ds) PROVE IsFiniteSet(DOMAIN d.applicants)
  <2>1. PICK s, V : s = d.applicants /\ V = {s[i] : i \in DOMAIN s}
    OBVIOUS
  <2>2. s \in Seq(V)
    BY <1>1, <2>1, NameAssumption DEF IsSequence
  <2>3. PICK n \in Nat : DOMAIN s = 1..n
    BY <2>2
  <2>4. IsFiniteSet(1..n)
    BY FS_Interval
  <2> QED
    BY <2>1, <2>3, <2>4
<1>3. Used(ds) \in SUBSET Names
  <2>1. ASSUME NEW m \in Used(ds) PROVE m \in Names
    <3>1. PICK d \in Selected(ds) : m \in {d.applicants[i] : i \in DOMAIN d.applicants}
      BY Zenon DEF Used
    <3>2. d \in Inputs
      BY <1>1
    <3> DEFINE named(c) == {c.applicants[i] : i \in DOMAIN c.applicants}
    <3>3. m \in UNION {named(c) : c \in Inputs}
      BY <3>1, <3>2
    <3> QED
      BY <3>3 DEF Names, ApplicantNames
  <2> QED
    BY <2>1
<1>4. IsFiniteSet(Used(ds))
  <2> DEFINE named(d) == {d.applicants[i] : i \in DOMAIN d.applicants}
             all == {named(d) : d \in Selected(ds)}
  <2>1. ASSUME NEW d \in Selected(ds) PROVE IsFiniteSet(named(d))
    <3>1. [i \in DOMAIN d.applicants |-> d.applicants[i]] \in Surjection(DOMAIN d.applicants, named(d))
      BY DEF Surjection
    <3>2. PICK D, N : D = DOMAIN d.applicants /\ N = named(d)
      OBVIOUS
    <3>3. PICK f : f \in Surjection(D, N)
      BY <3>1, <3>2
    <3>4. IsFiniteSet(D)
      BY <1>2, <3>2
    <3>5. IsFiniteSet(N)
      BY <3>3, <3>4, FS_Surjection
    <3> QED
      BY <3>2, <3>5
  <2>2. [d \in Selected(ds) |-> named(d)] \in Surjection(Selected(ds), all)
    BY DEF Surjection
  <2>3. \A T \in all : IsFiniteSet(T)
    BY <2>1
  <2>4. Used(ds) = UNION all
    BY DEF Used
  <2> HIDE DEF all
  <2>5. IsFiniteSet(all)
    BY <1>1, <2>2, FS_Surjection
  <2> QED
    BY <2>3, <2>4, <2>5, FS_UNION
<1>5. ASSUME NEW raw PROVE IsFiniteSet(Uses(ds, raw))
  <2> DEFINE at(d) == {k \in DOMAIN d.applicants : d.applicants[k].raw = raw}
             used(d) == {<<d, i>> : i \in at(d)}
             all == {used(d) : d \in Selected(ds)}
  <2>1. ASSUME NEW d \in Selected(ds) PROVE IsFiniteSet(used(d))
    <3>1. [i \in at(d) |-> <<d, i>>] \in Surjection(at(d), used(d))
      BY DEF Surjection
    <3>2. PICK D, N : D = at(d) /\ N = used(d)
      OBVIOUS
    <3>3. PICK f : f \in Surjection(D, N)
      BY <3>1, <3>2
    <3>4. IsFiniteSet(D)
      <4>1. D \in SUBSET (DOMAIN d.applicants)
        BY <3>2
      <4> QED
        BY <1>2, <4>1, FS_Subset
    <3>5. IsFiniteSet(N)
      BY <3>3, <3>4, FS_Surjection
    <3> QED
      BY <3>2, <3>5
  <2>2. [d \in Selected(ds) |-> used(d)] \in Surjection(Selected(ds), all)
    BY DEF Surjection
  <2>3. \A T \in all : IsFiniteSet(T)
    BY <2>1
  <2>4. Uses(ds, raw) = UNION all
    BY DEF Uses
  <2> HIDE DEF all
  <2>5. IsFiniteSet(all)
    BY <1>1, <2>2, FS_Surjection
  <2> QED
    BY <2>3, <2>4, <2>5, FS_UNION
<1> QED
  BY <1>3, <1>4, <1>5

\* The spelling that is displayed is of a name with the key.
LEMMA DisplayIs ==
  ASSUME NEW ds \in SUBSET Inputs, NEW a \in Used(ds)
  PROVE  \E m \in Used(ds) : Key(m) = Key(a) /\ m.raw = Display(ds, Key(a))
<1>1. PICK shared : shared = Key(a)
  OBVIOUS
<1> DEFINE those == {m \in Used(ds) : Key(m) = shared}
           raws == {n.raw : n \in those}
           count(r) == Cardinality(Uses(ds, r))
           totals == {count(r) : r \in raws}
<1>2. raws \in SUBSET Nat /\ raws # {} /\ IsFiniteSet(raws)
  <2>1. those \in SUBSET Used(ds) /\ a \in those
    BY <1>1
  <2>2. IsFiniteSet(those)
    BY <2>1, UsedAre, FS_Subset
  <2>3. [n \in those |-> n.raw] \in Surjection(those, raws)
    BY DEF Surjection
  <2>4. \A n \in those : n.raw \in Nat
    BY <2>1, UsedAre, NameAssumption
  <2>5. IsFiniteSet(raws)
    <3>1. PICK D, N : D = those /\ N = raws
      OBVIOUS
    <3>2. PICK f : f \in Surjection(D, N)
      BY <2>3, <3>1
    <3>3. IsFiniteSet(N)
      BY <2>2, <3>1, <3>2, FS_Surjection
    <3> QED
      BY <3>1, <3>3
  <2> QED
    BY <2>1, <2>4, <2>5
<1>3. \A r \in raws : count(r) \in Nat
  BY UsedAre, FS_CardinalityType
<1>4. Display(ds, shared) \in raws
  <2>1. Display(ds, shared) = CHOOSE r \in raws : \A q \in raws :
                             count(q) < count(r) \/ (count(q) = count(r) /\ r <= q)
    BY Zenon DEF Display, Used, Uses
  <2> HIDE DEF raws, count
  <2>2. totals \in SUBSET Nat /\ totals # {} /\ IsFiniteSet(totals)
    <3>1. [r \in raws |-> count(r)] \in Surjection(raws, totals)
      BY DEF Surjection
    <3>2. PICK D, N : D = raws /\ N = totals
      OBVIOUS
    <3>3. PICK f : f \in Surjection(D, N)
      BY <3>1, <3>2
    <3>4. IsFiniteSet(N)
      BY <1>2, <3>2, <3>3, FS_Surjection
    <3> QED
      BY <1>2, <1>3, <3>2, <3>4
  <2>3. PICK c \in totals : \A b \in totals : b <= c
    <3> HIDE DEF totals
    <3> QED
      BY <2>2, GreatestOf
  <2> DEFINE best == {r \in raws : count(r) = c}
  <2>4. PICK r \in best : \A q \in best : r <= q
    <3>1. best \in SUBSET Nat /\ best # {}
      BY <1>2, <2>3
    <3> HIDE DEF best
    <3> QED
      BY <3>1, LeastRow
  <2>5. \A q \in raws : count(q) < count(r) \/ (count(q) = count(r) /\ r <= q)
    <3>1. ASSUME NEW q \in raws PROVE count(q) < count(r) \/ (count(q) = count(r) /\ r <= q)
      <4>1. count(q) \in Nat /\ count(r) \in Nat /\ count(r) = c /\ count(q) <= c
        BY <1>3, <2>3, <2>4
      <4>2. count(q) = c => r <= q
        BY <2>4
      <4> QED
        BY <4>1, <4>2
    <3> QED
      BY <3>1
  <2>6. r \in raws
    BY <2>4
  <2> QED
    BY <2>1, <2>5, <2>6, Zenon
<1> QED
  BY <1>1, <1>4

-----------------------------------------------------------------------------
(* Entities *)

\* The alias groups with a key.
Groups(shared) == {g \in Aliases : shared \in {Key(n) : n \in AliasNames(g)}}

LEMMA EntityIs ==
  ASSUME NEW ds \in SUBSET Inputs, NEW a \in Used(ds)
  PROVE  /\ Groups(Key(a)) # {} =>
              \E g \in Groups(Key(a)) : Entity(ds, a) = g.canonical.raw
         /\ Groups(Key(a)) = {} =>
              \E m \in Used(ds) : Key(m) = Key(a) /\ Entity(ds, a) = m.raw
         /\ \A b \in Used(ds) : Key(a) = Key(b) => Entity(ds, a) = Entity(ds, b)
<1>1. \A b : Entity(ds, b) = IF Groups(Key(b)) # {} THEN (CHOOSE g \in Groups(Key(b)) : TRUE).canonical.raw
                             ELSE Display(ds, Key(b))
  BY Zenon DEF Entity, Groups
<1>2. Groups(Key(a)) # {} => (CHOOSE g \in Groups(Key(a)) : TRUE) \in Groups(Key(a))
  OBVIOUS
<1> QED
  BY <1>1, <1>2, DisplayIs

\* Names have one entity exactly if their keys are equal or aliases of one canonical name.
LEMMA MergedIs ==
  ASSUME NEW ds \in SUBSET Inputs, NEW a \in Used(ds), NEW b \in Used(ds)
  PROVE  Entity(ds, a) = Entity(ds, b) <=>
           \/ Key(a) = Key(b)
           \/ \E g \in Groups(Key(a)), h \in Groups(Key(b)) : g.canonical = h.canonical
<1>1. \A m, n \in Names : m.raw = n.raw => m = n
  BY NameAssumption
<1>2. Used(ds) \in SUBSET Names
  BY UsedAre
<1>3. ASSUME NEW g \in Aliases PROVE g.canonical \in Names /\ g.canonical \in AliasNames(g)
  <2>1. g.canonical \in AliasNames(g)
    BY DEF AliasNames
  <2>2. g.canonical \in UNION {AliasNames(h) : h \in Aliases}
    BY <2>1
  <2> QED
    BY <2>1, <2>2 DEF Names
<1>4. ASSUME NEW shared, NEW g \in Groups(shared), NEW h \in Groups(shared) PROVE g.canonical = h.canonical
  <2>1. PICK m \in AliasNames(g) : Key(m) = shared
    BY DEF Groups
  <2>2. PICK n \in AliasNames(h) : Key(n) = shared
    BY DEF Groups
  <2> QED
    BY <2>1, <2>2, AliasAssumption DEF Groups
<1>5. CASE Groups(Key(a)) # {} /\ Groups(Key(b)) # {}
  <2>1. PICK g \in Groups(Key(a)) : Entity(ds, a) = g.canonical.raw
    BY <1>5, EntityIs
  <2>2. PICK h \in Groups(Key(b)) : Entity(ds, b) = h.canonical.raw
    BY <1>5, EntityIs
  <2>3. g \in Aliases /\ h \in Aliases
    BY DEF Groups
  <2>4. Entity(ds, a) = Entity(ds, b) <=> g.canonical = h.canonical
    BY <1>1, <1>3, <2>1, <2>2, <2>3
  <2>5. ASSUME NEW x \in Groups(Key(a)), NEW y \in Groups(Key(b)), x.canonical = y.canonical
        PROVE  g.canonical = h.canonical
    BY <1>4, <2>5
  <2>6. Key(a) = Key(b) => g.canonical = h.canonical
    BY <1>4
  <2> QED
    BY <2>4, <2>5, <2>6
<1>6. CASE Groups(Key(a)) = {} /\ Groups(Key(b)) = {}
  <2>1. PICK m \in Used(ds) : Key(m) = Key(a) /\ Entity(ds, a) = m.raw
    BY <1>6, EntityIs
  <2>2. PICK n \in Used(ds) : Key(n) = Key(b) /\ Entity(ds, b) = n.raw
    BY <1>6, EntityIs
  <2>3. Entity(ds, a) = Entity(ds, b) => Key(a) = Key(b)
    BY <1>1, <1>2, <2>1, <2>2
  <2>4. Key(a) = Key(b) => Entity(ds, a) = Entity(ds, b)
    BY EntityIs
  <2> QED
    BY <1>6, <2>3, <2>4
<1>7. ASSUME NEW c \in Used(ds), NEW d \in Used(ds), Groups(Key(c)) # {}, Groups(Key(d)) = {}
      PROVE  Entity(ds, c) # Entity(ds, d)
  <2>1. PICK g \in Groups(Key(c)) : Entity(ds, c) = g.canonical.raw
    BY <1>7, EntityIs
  <2>2. PICK n \in Used(ds) : Key(n) = Key(d) /\ Entity(ds, d) = n.raw
    BY <1>7, EntityIs
  <2>3. g \in Aliases
    BY DEF Groups
  <2> SUFFICES ASSUME Entity(ds, c) = Entity(ds, d) PROVE FALSE
    OBVIOUS
  <2>4. n = g.canonical
    BY <1>1, <1>2, <1>3, <2>1, <2>2, <2>3
  <2>5. g \in Groups(Key(d))
    BY <1>3, <2>2, <2>3, <2>4 DEF Groups
  <2> QED
    BY <1>7, <2>5
<1>8. CASE Groups(Key(a)) # {} /\ Groups(Key(b)) = {}
  <2>1. Entity(ds, a) # Entity(ds, b)
    BY <1>7, <1>8
  <2> QED
    BY <1>8, <2>1
<1>9. CASE Groups(Key(a)) = {} /\ Groups(Key(b)) # {}
  <2>1. Entity(ds, a) # Entity(ds, b)
    BY <1>7, <1>9
  <2> QED
    BY <1>9, <2>1
<1> QED
  BY <1>5, <1>6, <1>8, <1>9

-----------------------------------------------------------------------------
(* What is stored *)

\* The stored applicants are those of the inputs, under names of at least a word.
StoredInv ==
  dataset # None =>
    /\ inputs \in SUBSET Inputs /\ inputs # {}
    /\ dataset.applicants = Applicants(inputs)
    /\ \A d \in Selected(inputs) : \A i \in DOMAIN d.applicants : d.applicants[i].words # <<>>

LEMMA StoredInvNext == DatasetInv /\ StoredInv /\ [DatasetNext]_datasetVars => StoredInv'
<1> SUFFICES ASSUME DatasetInv, StoredInv, [DatasetNext]_datasetVars PROVE StoredInv'
  OBVIOUS
<1>1. ASSUME NEW bs \in SUBSET {d.batch : d \in Inputs}, Build(bs) PROVE StoredInv'
  BY <1>1 DEF Build, StoredInv
<1>2. ASSUME NEW l \in todo, Join(l) PROVE StoredInv'
  BY <1>2 DEF Join, StoredInv
<1>3. CASE Store
  <2>1. inputs \in SUBSET Inputs /\ inputs # {} /\ inputs' = inputs
    BY <1>3 DEF Store, DatasetInv
  <2>2. dataset'.applicants = Applicants(inputs)
    BY <1>3 DEF Store
  <2>3. \A d \in Selected(inputs) : \A i \in DOMAIN d.applicants : d.applicants[i].words # <<>>
    BY <1>3 DEF Store
  <2> QED
    BY <2>1, <2>2, <2>3 DEF StoredInv
<1>4. CASE UNCHANGED datasetVars
  BY <1>4 DEF StoredInv, datasetVars
<1> QED
  BY <1>1, <1>2, <1>3, <1>4 DEF DatasetNext

LEMMA StoredInvGivesEntities == StoredInv => EntitiesAreMerged
<1> SUFFICES ASSUME StoredInv, dataset # None PROVE EntitiesAreMerged
  BY DEF EntitiesAreMerged
<1>1. PICK ds \in SUBSET Inputs : ds = inputs
  BY DEF StoredInv
<1>2. /\ dataset.applicants = Applicants(ds)
      /\ \A d \in Selected(ds) : \A i \in DOMAIN d.applicants : d.applicants[i].words # <<>>
  BY <1>1 DEF StoredInv
<1>3. ASSUME NEW x \in dataset.applicants
      PROVE  \E m \in Used(ds) : x.key = Key(m) /\ x.entity = Entity(ds, m) /\ m.words # <<>>
  BY <1>2 DEF Applicants, Used
<1>4. ASSUME NEW x \in dataset.applicants, NEW y \in dataset.applicants
      PROVE  x.entity = y.entity <=>
               \/ x.key = y.key
               \/ \E g, h \in Aliases : /\ g.canonical = h.canonical
                                        /\ x.key \in {Key(n) : n \in AliasNames(g)}
                                        /\ y.key \in {Key(n) : n \in AliasNames(h)}
  <2>1. PICK m \in Used(ds) : x.key = Key(m) /\ x.entity = Entity(ds, m)
    BY <1>3
  <2>2. PICK n \in Used(ds) : y.key = Key(n) /\ y.entity = Entity(ds, n)
    BY <1>3
  <2>3. Entity(ds, m) = Entity(ds, n) <=>
          \/ Key(m) = Key(n)
          \/ \E g \in Groups(Key(m)), h \in Groups(Key(n)) : g.canonical = h.canonical
    BY MergedIs
  <2> QED
    BY <2>1, <2>2, <2>3 DEF Groups
<1>5. ASSUME NEW x \in dataset.applicants PROVE x.key # <<>> /\ Stripped(x.key) = x.key
  <2>1. PICK m \in Used(ds) : x.key = Key(m) /\ m.words # <<>>
    BY <1>3
  <2>2. m \in Names
    BY UsedAre
  <2> QED
    BY <2>1, <2>2, KeyIsStripped
<1> QED
  BY <1>4, <1>5 DEF EntitiesAreMerged

\* In every stored dataset, two applicants have one entity exactly if their keys are equal or
\* aliases of one canonical name, whichever spellings are displayed, and keys are stripped of all
\* suffixes (normalize_name, _normalise_applicants, AliasFile).
THEOREM EntitiesAreThoseOfKeys == DatasetSpec => []EntitiesAreMerged
<1>1. DatasetInit => StoredInv
  BY DEF DatasetInit, StoredInv
<1>2. DatasetInv /\ StoredInv /\ [DatasetNext]_datasetVars => StoredInv'
  BY StoredInvNext
<1> QED
  BY <1>1, <1>2, DatasetInvariant, StoredInvGivesEntities, PTL DEF DatasetSpec

-----------------------------------------------------------------------------
(* 6. Schemes, renderings, counts and recall.  The entries of a title list     *)
(* have ranks: a subclass 0, a group one more than its dot level.  So no walk  *)
(* up or down a scheme is longer than the list.                                *)

\* A parent is of the entry's subclass, and has its number, unless it mirrors or is the subclass.
Near(p, s) == p[1] = s[1] /\ (p[2] = 0 \/ s[2] \in {p[2], p[2] + INDEXING_OFFSET})

Ranked(scheme, rank) ==
  /\ IsFiniteSet(DOMAIN scheme) /\ None \notin DOMAIN scheme
  /\ \A s \in DOMAIN scheme :
       /\ rank[s] \in Nat
       /\ scheme[s] = None => rank[s] = 0 /\ s = <<s[1], 0, 0>>
       /\ scheme[s] # None => /\ scheme[s] \in DOMAIN scheme /\ rank[s] = rank[scheme[s]] + 1
                              /\ Near(scheme[s], s) /\ s[2] # 0

\* What holds of an entry when it holds of its parent holds of all.
LEMMA FromParents ==
  ASSUME NEW scheme, NEW rank, Ranked(scheme, rank), NEW good \in SUBSET DOMAIN scheme,
         \A s \in DOMAIN scheme : (scheme[s] # None => scheme[s] \in good) => s \in good
  PROVE  good = DOMAIN scheme
<1> SUFFICES ASSUME DOMAIN scheme \ good # {} PROVE FALSE
  OBVIOUS
<1>1. PICK ranks : ranks = {rank[s] : s \in DOMAIN scheme \ good}
  OBVIOUS
<1>2. ranks \in SUBSET Nat /\ ranks # {}
  BY <1>1 DEF Ranked
<1>3. PICK m \in ranks : \A n \in ranks : m <= n
  BY <1>2, LeastRow
<1>4. PICK s \in DOMAIN scheme \ good : rank[s] = m
  BY <1>1
<1>5. scheme[s] # None /\ scheme[s] \notin good
  BY <1>4
<1>6. scheme[s] \in DOMAIN scheme /\ rank[s] = rank[scheme[s]] + 1 /\ rank[scheme[s]] \in Nat
  BY <1>5 DEF Ranked
<1>7. rank[scheme[s]] \in ranks
  BY <1>1, <1>5, <1>6
<1> QED
  BY <1>3, <1>4, <1>6, <1>7

\* The ranks of an entry and of those above it are all different.
LEMMA RankIsLess ==
  ASSUME NEW scheme, NEW rank, Ranked(scheme, rank), NEW s \in DOMAIN scheme
  PROVE  /\ Cardinality(DOMAIN scheme) \in Nat
         /\ rank[s] \in Nat /\ rank[s] < Cardinality(DOMAIN scheme)
<1>1. PICK D : D = DOMAIN scheme
  OBVIOUS
<1>2. PICK N : N = Cardinality(D)
  OBVIOUS
<1>3. IsFiniteSet(D) /\ N \in Nat
  BY <1>1, <1>2, FS_CardinalityType DEF Ranked
<1>4. PICK ranks : ranks = {rank[t] : t \in D}
  OBVIOUS
<1>5. IsFiniteSet(ranks) /\ Cardinality(ranks) <= N /\ Cardinality(ranks) \in Nat
  <2>1. [t \in D |-> rank[t]] \in Surjection(D, ranks)
    BY <1>4 DEF Surjection
  <2> QED
    BY <1>2, <1>3, <2>1, FS_Surjection, FS_CardinalityType
<1>6. \A t \in D : 0..rank[t] \subseteq ranks
  <2> DEFINE good == {t \in D : 0..rank[t] \subseteq ranks}
  <2>1. ASSUME NEW t \in DOMAIN scheme, scheme[t] # None => scheme[t] \in good PROVE t \in good
    <3>1. rank[t] \in Nat /\ rank[t] \in ranks
      BY <1>1, <1>4 DEF Ranked
    <3>2. CASE scheme[t] = None
      <4>1. rank[t] = 0
        BY <3>2 DEF Ranked
      <4>2. 0..rank[t] = {0}
        BY <4>1
      <4> QED
        BY <1>1, <3>1, <4>1, <4>2
    <3>3. CASE scheme[t] # None
      <4>1. scheme[t] \in D /\ rank[t] = rank[scheme[t]] + 1 /\ rank[scheme[t]] \in Nat
        BY <1>1, <3>3 DEF Ranked
      <4>2. \A k \in 0..rank[t] : k \in 0..rank[scheme[t]] \/ k = rank[t]
        BY <4>1
      <4> QED
        BY <1>1, <2>1, <3>1, <3>3, <4>2
    <3> QED
      BY <3>2, <3>3
  <2>2. good = DOMAIN scheme
    <3>1. good \in SUBSET DOMAIN scheme
      BY <1>1
    <3> HIDE DEF good
    <3> QED
      BY <2>1, <3>1, FromParents
  <2> QED
    BY <1>1, <2>2
<1>7. PICK r \in Nat : r = rank[s]
  BY DEF Ranked
<1>8. Cardinality(0..r) = r + 1
  <2>1. 0 \in Int /\ r \in Int /\ ~ (0 > r) /\ r - 0 + 1 = r + 1
    OBVIOUS
  <2>2. Cardinality(0..r) = IF 0 > r THEN 0 ELSE r - 0 + 1
    BY <2>1, FS_Interval
  <2> QED
    BY <2>1, <2>2
<1>9. PICK I : I = 0..r
  OBVIOUS
<1>10. I \in SUBSET ranks
  BY <1>1, <1>6, <1>7, <1>9
<1>11. Cardinality(I) <= Cardinality(ranks)
  BY <1>5, <1>10, FS_Subset
<1> QED
  BY <1>1, <1>2, <1>3, <1>5, <1>7, <1>8, <1>9, <1>11

\* What holds of the first round, and of every round after one it holds of, holds of the last.
LEMMA InEveryRound ==
  ASSUME NEW K \in Nat, NEW good \in SUBSET (0..K), 0 \in good,
         \A k \in 0..K : k # 0 /\ k - 1 \in good => k \in good
  PROVE  good = 0..K
<1>1. PICK D : D = 0..K
  OBVIOUS
<1>2. \A k \in D : (\A j \in D : j < k => j \in good) => k \in good
  <2>1. ASSUME NEW k \in D, \A j \in D : j < k => j \in good PROVE k \in good
    <3>1. k # 0 => k - 1 \in D /\ k - 1 < k
      BY <1>1
    <3> QED
      BY <1>1, <2>1, <3>1
  <2> QED
    BY <2>1
<1>3. D \in SUBSET Nat /\ good \in SUBSET D
  BY <1>1
<1>4. good = D
  BY <1>2, <1>3, NoLeastFailure
<1> QED
  BY <1>1, <1>4

\* An entry is below another if its parent is, or is that other: the rounds are enough, because
\* every one goes one rank further down.
LEMMA DescendantsAre ==
  ASSUME NEW scheme, NEW rank, Ranked(scheme, rank), NEW t \in DOMAIN scheme
  PROVE  /\ Descendants(scheme, t) \subseteq DOMAIN scheme
         /\ \A c \in DOMAIN scheme :
              c \in Descendants(scheme, t) <=> scheme[c] = t \/ scheme[c] \in Descendants(scheme, t)
<1>1. PICK D : D = DOMAIN scheme
  OBVIOUS
<1>2. PICK K : K = Cardinality(D)
  OBVIOUS
<1>3. K \in Nat /\ rank[t] \in Nat /\ \A s \in D : rank[s] \in Nat /\ rank[s] < K
  BY <1>1, <1>2, RankIsLess
<1>4. \A s \in D : scheme[s] \in D => rank[s] = rank[scheme[s]] + 1
  BY <1>1 DEF Ranked
<1> DEFINE Wider(S) == S \cup UNION {Children(scheme, c) : c \in S}
           Is(f) == f = [k \in 0..K |-> IF k = 0 THEN Children(scheme, t) ELSE Wider(f[k - 1])]
           Below == CHOOSE f : Is(f)
<1>5. Descendants(scheme, t) = Below[K]
  BY <1>1, <1>2, Zenon DEF Descendants
<1>6. ASSUME NEW S \in SUBSET D
      PROVE  /\ Wider(S) \in SUBSET D
             /\ \A c \in D : c \in Wider(S) <=> c \in S \/ scheme[c] \in S
  BY <1>1 DEF Children
<1>7. Children(scheme, t) \in SUBSET D /\ \A c \in D : c \in Children(scheme, t) <=> scheme[c] = t
  BY <1>1 DEF Children
<1>8. Is(Below)
  <2>1. PICK V : V = SUBSET D
    OBVIOUS
  <2>2. PICK next : \A S \in V : next[S] = Wider(S) /\ next[S] \in V
    <3> HIDE DEF Wider
    <3>1. \A S \in V : [T \in V |-> Wider(T)][S] = Wider(S) /\ Wider(S) \in V
      BY <1>6, <2>1
    <3> QED
      BY <3>1
  <2>3. PICK first \in V : first = Children(scheme, t)
    BY <1>7, <2>1
  <2>4. PICK f \in [0..K -> V] : Iterates(f, K, first, next)
    BY <1>3, <2>2, Iterating
  <2>5. \A k \in 0..K : f[k] = IF k = 0 THEN first ELSE next[f[k - 1]]
    BY <2>4 DEF Iterates
  <2> HIDE DEF Wider
  <2>6. ASSUME NEW k \in 0..K PROVE f[k] = IF k = 0 THEN Children(scheme, t) ELSE Wider(f[k - 1])
    <3>1. CASE k = 0
      BY <2>3, <2>5, <3>1
    <3>2. CASE k # 0
      <4>1. k - 1 \in 0..K
        BY <1>3, <3>2
      <4>2. f[k - 1] \in V
        BY <2>4, <4>1
      <4> QED
        BY <2>2, <2>5, <3>2, <4>2
    <3> QED
      BY <3>1, <3>2
  <2>7. f = [k \in 0..K |-> IF k = 0 THEN Children(scheme, t) ELSE Wider(f[k - 1])]
    BY <2>4, <2>6
  <2> QED
    BY <2>7, Zenon
<1> HIDE DEF Below
<1>9. /\ Below[0] = Children(scheme, t)
      /\ \A k \in 0..K : k # 0 => k - 1 \in 0..K /\ Below[k] = Wider(Below[k - 1])
  <2>1. \A k \in 0..K : k # 0 => k - 1 \in 0..K
    BY <1>3
  <2>2. 0 \in 0..K
    BY <1>3
  <2> HIDE DEF Wider
  <2> QED
    BY <1>8, <2>1, <2>2
<1> DEFINE Fits(S, k) ==
             /\ S \in SUBSET D
             /\ \A c \in D : scheme[c] = t => c \in S
             /\ \A c \in S : /\ scheme[c] = t \/ scheme[c] \in S
                             /\ rank[c] <= rank[t] + k + 1
             /\ \A c \in D : scheme[c] \in S => c \in S \/ rank[scheme[c]] = rank[t] + k + 1
           good == {k \in 0..K : Fits(Below[k], k)}
<1>10. 0 \in good
  <2>1. Fits(Below[0], 0)
    BY <1>1, <1>3, <1>4, <1>7, <1>9
  <2> QED
    BY <1>3, <2>1
<1>11. ASSUME NEW k \in 0..K, k # 0, k - 1 \in good PROVE k \in good
  <2>1. PICK S, T : S = Below[k - 1] /\ T = Below[k]
    OBVIOUS
  <2>2. Fits(S, k - 1) /\ k \in Nat
    BY <1>11, <2>1
  <2>3. T \in SUBSET D /\ \A c \in D : c \in T <=> c \in S \/ scheme[c] \in S
    <3>1. T = Wider(S) /\ S \in SUBSET D
      BY <1>9, <1>11, <2>1, <2>2
    <3> QED
      BY <1>6, <3>1
  <2>4. \A c \in S : rank[c] <= rank[t] + k
    BY <1>3, <2>2
  <2>5. \A c \in T : rank[c] <= rank[t] + k + 1
    <3>1. ASSUME NEW c \in T PROVE rank[c] <= rank[t] + k + 1
      <4>1. CASE c \in S
        BY <1>3, <2>2, <2>3, <2>4, <4>1
      <4>2. CASE scheme[c] \in S
        <5>1. rank[c] = rank[scheme[c]] + 1 /\ rank[scheme[c]] \in Nat /\ rank[scheme[c]] <= rank[t] + k
          BY <1>3, <1>4, <2>2, <2>3, <2>4, <4>2
        <5> QED
          BY <1>3, <2>2, <5>1
      <4> QED
        BY <2>3, <4>1, <4>2
    <3> QED
      BY <3>1
  <2>6. \A c \in T : scheme[c] = t \/ scheme[c] \in T
    BY <2>2, <2>3
  <2>7. \A c \in D : scheme[c] \in T => c \in T \/ rank[scheme[c]] = rank[t] + k + 1
    <3>1. ASSUME NEW c \in D, scheme[c] \in T, c \notin T PROVE rank[scheme[c]] = rank[t] + k + 1
      <4>1. PICK b : b = scheme[c]
        OBVIOUS
      <4>2. b \in D /\ b \notin S /\ scheme[b] \in S
        BY <2>3, <3>1, <4>1
      <4>3. rank[scheme[b]] = rank[t] + k
        BY <1>3, <2>2, <4>2
      <4>4. rank[b] = rank[scheme[b]] + 1
        BY <1>4, <2>2, <4>2
      <4> QED
        BY <1>3, <2>2, <4>1, <4>3, <4>4
    <3> QED
      BY <3>1
  <2>8. Fits(T, k)
    BY <2>2, <2>3, <2>5, <2>6, <2>7
  <2> QED
    BY <1>11, <2>1, <2>8
<1>12. K \in good
  <2>1. good \in SUBSET (0..K)
    OBVIOUS
  <2>2. \A k \in 0..K : k # 0 /\ k - 1 \in good => k \in good
    BY <1>11
  <2>3. K \in 0..K
    BY <1>3
  <2> HIDE DEF good
  <2> QED
    BY <1>3, <1>10, <2>1, <2>2, <2>3, InEveryRound
<1>13. PICK S : S = Below[K]
  OBVIOUS
<1>14. Fits(S, K)
  BY <1>12, <1>13
<1>15. \A c \in D : scheme[c] \in S => c \in S
  <2>1. ASSUME NEW c \in D, scheme[c] \in S PROVE rank[scheme[c]] # rank[t] + K + 1
    <3>1. rank[scheme[c]] \in Nat /\ rank[scheme[c]] < K
      BY <1>3, <1>14, <2>1
    <3> QED
      BY <1>3, <3>1
  <2> QED
    BY <1>14, <2>1
<1> QED
  BY <1>1, <1>5, <1>13, <1>14, <1>15

\* The path of an entry is the entry and the path of its parent: the rounds are enough, because
\* every one goes one rank further up.
LEMMA AncestorsAre ==
  ASSUME NEW scheme, NEW rank, Ranked(scheme, rank), NEW c \in DOMAIN scheme
  PROVE  /\ scheme[c] = None => PathOf(scheme, c) = {c}
         /\ scheme[c] # None => PathOf(scheme, c) = {c} \cup PathOf(scheme, scheme[c])
<1>1. PICK D : D = DOMAIN scheme
  OBVIOUS
<1>2. PICK K : K = Cardinality(D)
  OBVIOUS
<1>3. K \in Nat /\ None \notin D /\ \A s \in D : rank[s] \in Nat /\ rank[s] < K
  BY <1>1, <1>2, RankIsLess DEF Ranked
<1>4. \A s \in D : scheme[s] = None \/ (scheme[s] \in D /\ rank[s] = rank[scheme[s]] + 1)
  BY <1>1 DEF Ranked
<1> DEFINE Above(n) == IF n \in DOMAIN scheme THEN scheme[n] ELSE None
           Is(s, f) == f = [k \in 0..K |-> IF k = 0 THEN s ELSE Above(f[k - 1])]
           Up(s) == CHOOSE f : Is(s, f)
<1>5. ASSUME NEW s PROVE PathOf(scheme, s) = {Up(s)[k] : k \in DOMAIN Up(s)} \ {None}
  BY <1>1, <1>2, Zenon DEF PathOf
<1>6. ASSUME NEW s \in D
      PROVE  /\ DOMAIN Up(s) = 0..K /\ Up(s)[0] = s
             /\ \A k \in 0..K : k # 0 => k - 1 \in 0..K /\ Up(s)[k] = Above(Up(s)[k - 1])
  <2>1. PICK V : V = D \cup {None}
    OBVIOUS
  <2>2. PICK next : \A v \in V : next[v] = Above(v) /\ next[v] \in V
    <3>1. \A v \in V : Above(v) \in V
      BY <1>1, <1>4, <2>1
    <3> HIDE DEF Above
    <3>2. \A v \in V : [u \in V |-> Above(u)][v] = Above(v) /\ Above(v) \in V
      BY <3>1
    <3> QED
      BY <3>2
  <2>3. s \in V
    BY <2>1
  <2>4. PICK f \in [0..K -> V] : Iterates(f, K, s, next)
    BY <1>3, <2>2, <2>3, Iterating
  <2>5. \A k \in 0..K : f[k] = IF k = 0 THEN s ELSE next[f[k - 1]]
    BY <2>4 DEF Iterates
  <2> HIDE DEF Above
  <2>6. ASSUME NEW k \in 0..K PROVE f[k] = IF k = 0 THEN s ELSE Above(f[k - 1])
    <3>1. CASE k = 0
      BY <2>5, <3>1
    <3>2. CASE k # 0
      <4>1. k - 1 \in 0..K
        BY <1>3, <3>2
      <4>2. f[k - 1] \in V
        BY <2>4, <4>1
      <4> QED
        BY <2>2, <2>5, <3>2, <4>2
    <3> QED
      BY <3>1, <3>2
  <2>7. f = [k \in 0..K |-> IF k = 0 THEN s ELSE Above(f[k - 1])]
    BY <2>4, <2>6
  <2>8. Is(s, Up(s))
    BY <2>7, Zenon
  <2>9. PICK up : up = Up(s)
    OBVIOUS
  <2>10. up = [k \in 0..K |-> IF k = 0 THEN s ELSE Above(up[k - 1])]
    BY <2>8, <2>9, Zenon
  <2>11. 0 \in 0..K /\ \A k \in 0..K : k # 0 => k - 1 \in 0..K
    BY <1>3
  <2> HIDE DEF Up
  <2>12. DOMAIN up = 0..K /\ up[0] = s /\ \A k \in 0..K : k # 0 => k - 1 \in 0..K /\ up[k] = Above(up[k - 1])
    BY <2>10, <2>11
  <2> QED
    BY <2>9, <2>12
<1> HIDE DEF Up
<1>7. PICK f : f = Up(c)
  OBVIOUS
<1>8. /\ DOMAIN f = 0..K /\ f[0] = c
      /\ \A k \in 0..K : k # 0 => k - 1 \in 0..K /\ f[k] = Above(f[k - 1])
      /\ PathOf(scheme, c) = {f[k] : k \in 0..K} \ {None}
  <2>1. DOMAIN f = 0..K /\ PathOf(scheme, c) = {f[k] : k \in DOMAIN f} \ {None}
    BY <1>1, <1>5, <1>6, <1>7
  <2>2. f[0] = c /\ \A k \in 0..K : k # 0 => k - 1 \in 0..K /\ f[k] = Above(f[k - 1])
    <3> HIDE DEF Above
    <3> QED
      BY <1>1, <1>6, <1>7
  <2> QED
    BY <2>1, <2>2
<1>9. 0 \in 0..K
  BY <1>3
<1>10. CASE scheme[c] = None
  <2> DEFINE good == {k \in 0..K : k = 0 \/ f[k] = None}
  <2>1. \A k \in 0..K : k # 0 /\ k - 1 \in good => k \in good
    BY <1>1, <1>3, <1>8, <1>10
  <2>2. good = 0..K
    <3>1. good \in SUBSET (0..K) /\ 0 \in good
      BY <1>9
    <3> HIDE DEF good
    <3> QED
      BY <1>3, <2>1, <3>1, InEveryRound
  <2>3. \A k \in 0..K : k = 0 \/ f[k] = None
    BY <2>2
  <2> QED
    BY <1>1, <1>3, <1>8, <1>9, <1>10, <2>3
<1>11. CASE scheme[c] # None
  <2>1. PICK p \in D : p = scheme[c]
    BY <1>1, <1>4, <1>11
  <2>2. PICK g : g = Up(p)
    OBVIOUS
  <2>3. /\ DOMAIN g = 0..K /\ g[0] = p
        /\ \A k \in 0..K : k # 0 => k - 1 \in 0..K /\ g[k] = Above(g[k - 1])
        /\ PathOf(scheme, p) = {g[k] : k \in 0..K} \ {None}
    <3>1. DOMAIN g = 0..K /\ PathOf(scheme, p) = {g[k] : k \in DOMAIN g} \ {None}
      BY <1>5, <1>6, <2>1, <2>2
    <3>2. g[0] = p /\ \A k \in 0..K : k # 0 => k - 1 \in 0..K /\ g[k] = Above(g[k - 1])
      <4> HIDE DEF Above
      <4> QED
        BY <1>6, <2>1, <2>2
    <3> QED
      BY <3>1, <3>2
  <2> DEFINE good == {k \in 0..K : k = 0 \/ f[k] = g[k - 1]}
  <2>4. \A k \in 0..K : k # 0 => f[k] = g[k - 1]
    <3>1. ASSUME NEW k \in 0..K, k # 0, k - 1 \in good PROVE k \in good
      <4>1. k - 1 \in 0..K /\ f[k] = Above(f[k - 1])
        BY <1>8, <3>1
      <4>2. CASE k - 1 = 0
        BY <1>1, <1>8, <2>1, <2>3, <4>1, <4>2
      <4>3. CASE k - 1 # 0
        <5>1. f[k - 1] = g[(k - 1) - 1]
          BY <3>1, <4>3
        <5>2. g[k - 1] = Above(g[(k - 1) - 1])
          BY <2>3, <4>1, <4>3
        <5> HIDE DEF Above
        <5> QED
          BY <4>1, <5>1, <5>2
      <4> QED
        BY <4>2, <4>3
    <3>2. good = 0..K
      <4>1. good \in SUBSET (0..K) /\ 0 \in good
        BY <1>9
      <4>2. \A k \in 0..K : k # 0 /\ k - 1 \in good => k \in good
        BY <3>1
      <4> HIDE DEF good
      <4> QED
        BY <1>3, <4>1, <4>2, InEveryRound
    <3> QED
      BY <3>2
  <2> DEFINE low == {k \in 0..K : g[k] = None \/ (g[k] \in D /\ rank[g[k]] + k = rank[p])}
  <2>5. K \in low
    <3>1. ASSUME NEW k \in 0..K, k # 0, k - 1 \in low PROVE k \in low
      <4>1. k - 1 \in 0..K /\ g[k] = Above(g[k - 1]) /\ k \in Nat
        BY <1>3, <2>3, <3>1
      <4>2. CASE g[k - 1] = None
        BY <1>1, <1>3, <4>1, <4>2
      <4>3. CASE g[k - 1] # None
        <5>1. g[k - 1] \in D /\ rank[g[k - 1]] + (k - 1) = rank[p]
          BY <3>1, <4>3
        <5>2. g[k] = scheme[g[k - 1]]
          BY <1>1, <4>1, <5>1
        <5>3. g[k] = None \/ (g[k] \in D /\ rank[g[k - 1]] = rank[g[k]] + 1)
          BY <1>4, <5>1, <5>2
        <5> QED
          BY <1>3, <4>1, <5>1, <5>3
      <4> QED
        BY <4>2, <4>3
    <3>2. low \in SUBSET (0..K) /\ 0 \in low
      BY <1>3, <1>9, <2>3
    <3>3. K \in 0..K /\ \A k \in 0..K : k # 0 /\ k - 1 \in low => k \in low
      BY <1>3, <3>1
    <3> HIDE DEF low
    <3> QED
      BY <1>3, <3>2, <3>3, InEveryRound
  <2>6. g[K] = None
    <3> SUFFICES ASSUME g[K] # None PROVE FALSE
      OBVIOUS
    <3>1. g[K] \in D /\ rank[g[K]] + K = rank[p]
      BY <2>5
    <3> QED
      BY <1>3, <2>1, <3>1
  <2>7. \A k \in 0..K : f[k] = c \/ \E j \in 0..K : f[k] = g[j]
    BY <1>8, <2>4
  <2>8. \A k \in 0..K : g[k] = None \/ \E j \in 0..K : g[k] = f[j]
    <3>1. ASSUME NEW k \in 0..K, g[k] # None PROVE \E j \in 0..K : g[k] = f[j]
      <4>1. k # K
        BY <2>6, <3>1
      <4>2. k + 1 \in 0..K /\ k + 1 # 0 /\ (k + 1) - 1 = k
        BY <1>3, <4>1
      <4>3. f[k + 1] = g[k]
        BY <2>4, <4>2
      <4> QED
        BY <4>2, <4>3
    <3> QED
      BY <3>1
  <2>9. c # None
    BY <1>1, <1>3
  <2> QED
    BY <1>8, <1>9, <1>11, <2>1, <2>3, <2>7, <2>8, <2>9
<1> QED
  BY <1>10, <1>11

\* Upwards and downwards an entry is within the same others; within one of its subclass's group
\* or the subclass itself.
LEMMA WithinIs ==
  ASSUME NEW scheme, NEW rank, Ranked(scheme, rank), NEW c \in DOMAIN scheme
  PROVE  /\ \A t \in DOMAIN scheme : t \in PathOf(scheme, c) <=> t = c \/ c \in Descendants(scheme, t)
         /\ \A t \in PathOf(scheme, c) : t \in DOMAIN scheme /\ t[1] = c[1]
         /\ <<c[1], 0, 0>> \in PathOf(scheme, c)
<1>1. PICK D : D = DOMAIN scheme
  OBVIOUS
<1> DEFINE good == {s \in D :
             /\ \A t \in D : t \in PathOf(scheme, s) <=> t = s \/ s \in Descendants(scheme, t)
             /\ \A t \in PathOf(scheme, s) : t \in D /\ t[1] = s[1]
             /\ <<s[1], 0, 0>> \in PathOf(scheme, s)}
<1>2. ASSUME NEW s \in D, scheme[s] # None => scheme[s] \in good PROVE s \in good
  <2>1. \A t \in D : /\ None \notin Descendants(scheme, t) /\ t # None
                     /\ s \in Descendants(scheme, t)
                          <=> scheme[s] = t \/ scheme[s] \in Descendants(scheme, t)
    BY <1>1, DescendantsAre DEF Ranked
  <2>2. CASE scheme[s] = None
    <3>1. PathOf(scheme, s) = {s} /\ s = <<s[1], 0, 0>>
      BY <1>1, <2>2, AncestorsAre DEF Ranked
    <3> QED
      BY <2>1, <2>2, <3>1
  <2>3. CASE scheme[s] # None
    <3>1. PICK p : p = scheme[s]
      OBVIOUS
    <3>2. PathOf(scheme, s) = {s} \cup PathOf(scheme, p) /\ p[1] = s[1]
      BY <1>1, <2>3, <3>1, AncestorsAre DEF Ranked, Near
    <3>3. /\ \A t \in D : t \in PathOf(scheme, p) <=> t = p \/ p \in Descendants(scheme, t)
          /\ \A t \in PathOf(scheme, p) : t \in D /\ t[1] = p[1]
          /\ <<p[1], 0, 0>> \in PathOf(scheme, p)
      BY <1>2, <2>3, <3>1
    <3>4. \A t \in D : t \in PathOf(scheme, s) <=> t = s \/ s \in Descendants(scheme, t)
      BY <2>1, <3>1, <3>2, <3>3
    <3> QED
      BY <3>2, <3>3, <3>4
  <2> QED
    BY <2>2, <2>3
<1>3. good = D
  <2>1. good \in SUBSET DOMAIN scheme
    BY <1>1
  <2> HIDE DEF good
  <2> QED
    BY <1>1, <1>2, <2>1, FromParents
<1> QED
  BY <1>1, <1>3

-----------------------------------------------------------------------------
(* Reading a title list *)

NothingRead == [parent |-> <<>>, open |-> <<>>, repeats |-> FALSE, orphan |-> FALSE]

\* The states that reading the first lines goes through.
Reads(f, lines, n) ==
  /\ DOMAIN f = 0..n /\ f[0] = NothingRead
  /\ \A i \in 1..n : f[i] = ReadLine(f[i - 1], lines[i])

\* There are such states for every list, so that Read is the last of them.
LEMMA ReadIs ==
  ASSUME NEW lines, Len(lines) \in Nat
  PROVE  \E f : Reads(f, lines, Len(lines)) /\ Read(lines) = f[Len(lines)]
<1>1. PICK K \in Nat : K = Len(lines)
  OBVIOUS
<1> DEFINE Is(f) == f = [i \in 0..K |-> IF i = 0 THEN [parent |-> <<>>, open |-> <<>>, repeats |-> FALSE, orphan |-> FALSE]
                                        ELSE ReadLine(f[i - 1], lines[i])]
           State == CHOOSE f : Is(f)
           good == {n \in 0..K : \E f : Reads(f, lines, n)}
<1>2. ASSUME NEW n \in 0..K, n # 0, n - 1 \in good PROVE n \in good
  <2>1. PICK f : Reads(f, lines, n - 1)
    BY <1>2
  <2>2. PICK next : next = ReadLine(f[n - 1], lines[n])
    OBVIOUS
  <2>3. PICK g : g = [i \in 0..n |-> IF i = n THEN next ELSE f[i]]
    OBVIOUS
  <2>4. n \in Nat /\ n - 1 \in Nat /\ 0 \in 0..n /\ n \in 0..n /\ \A i \in 1..n : i \in 0..n /\ i - 1 \in 0..n /\ i - 1 # n
    BY <1>2
  <2>5. DOMAIN g = 0..n /\ g[0] = f[0] /\ g[n] = next /\ \A i \in 0..n : i # n => g[i] = f[i]
    BY <1>2, <2>3, <2>4
  <2>6. ASSUME NEW i \in 1..n PROVE g[i] = ReadLine(g[i - 1], lines[i])
    <3>1. g[i - 1] = f[i - 1]
      BY <2>4, <2>5
    <3>2. CASE i = n
      BY <2>2, <2>5, <3>1, <3>2
    <3>3. CASE i # n
      <4>1. i \in 1..(n - 1) /\ i \in 0..n
        BY <2>4, <3>3
      <4>2. f[i] = ReadLine(f[i - 1], lines[i])
        BY <2>1, <4>1 DEF Reads
      <4> QED
        BY <2>5, <3>1, <3>3, <4>1, <4>2
    <3> QED
      BY <3>2, <3>3
  <2>7. Reads(g, lines, n)
    BY <2>1, <2>5, <2>6 DEF Reads
  <2> QED
    BY <1>2, <2>7
<1>3. 0 \in good
  <2>1. Reads([i \in 0..0 |-> NothingRead], lines, 0)
    BY DEF Reads
  <2> QED
    BY <1>1, <2>1
<1>4. K \in good
  <2>1. good \in SUBSET (0..K) /\ K \in 0..K /\ \A n \in 0..K : n # 0 /\ n - 1 \in good => n \in good
    BY <1>2
  <2> HIDE DEF good
  <2> QED
    BY <1>3, <2>1, InEveryRound
<1>5. PICK f : Reads(f, lines, K)
  BY <1>4
<1>6. PICK g : g = [i \in 0..K |-> f[i]]
  OBVIOUS
<1>7. Reads(g, lines, K)
  <2>1. 0 \in 0..K /\ \A i \in 1..K : i \in 0..K /\ i - 1 \in 0..K
    OBVIOUS
  <2>2. DOMAIN g = 0..K /\ \A i \in 0..K : g[i] = f[i]
    BY <1>6
  <2> QED
    BY <1>5, <2>1, <2>2 DEF Reads
<1>8. Is(g)
  <2>1. \A i \in 0..K : i # 0 => i \in 1..K
    OBVIOUS
  <2>2. \A i \in 0..K : g[i] = IF i = 0 THEN NothingRead ELSE ReadLine(g[i - 1], lines[i])
    BY <1>7, <2>1 DEF Reads
  <2>3. g = [i \in 0..K |-> IF i = 0 THEN NothingRead ELSE ReadLine(g[i - 1], lines[i])]
    BY <1>6, <2>2
  <2> QED
    BY <2>3 DEF NothingRead
<1>9. Is(State)
  BY <1>8, Zenon
<1>10. Read(lines) = State[K]
  BY <1>1, Zenon DEF Read
<1>11. PICK h : h = State
  OBVIOUS
<1>12. h = [i \in 0..K |-> IF i = 0 THEN NothingRead ELSE ReadLine(h[i - 1], lines[i])]
  BY <1>9, <1>11, Zenon DEF NothingRead
<1> HIDE DEF State
<1>13. Reads(h, lines, K)
  <2>1. 0 \in 0..K /\ \A i \in 1..K : i \in 0..K /\ i # 0
    OBVIOUS
  <2> QED
    BY <1>12, <2>1 DEF Reads
<1> QED
  BY <1>1, <1>10, <1>11, <1>13

IsLine(line) ==
  /\ None \notin {line.symbol, <<line.symbol[1], 0, 0>>}
  /\ IF line.level = None THEN line.symbol = <<line.symbol[1], 0, 0>>
     ELSE line.level \in Nat /\ line.symbol[2] # 0

\* The entries read have ranks, and the open groups are by rank.
Filed(scheme, open, rank) ==
  /\ IsFiniteSet(DOMAIN scheme) /\ None \notin DOMAIN scheme
  /\ \A s \in DOMAIN scheme :
       /\ rank[s] \in Nat
       /\ scheme[s] = None => rank[s] = 0 /\ s = <<s[1], 0, 0>>
       /\ scheme[s] # None => /\ s[2] # 0 /\ Near(scheme[s], s)
                              /\ \/ rank[s] = 1 /\ scheme[s] = <<s[1], 0, 0>>
                                 \/ scheme[s] \in DOMAIN scheme /\ rank[s] = rank[scheme[s]] + 1
  /\ open \in Seq(DOMAIN scheme)
  /\ \A k \in DOMAIN open : rank[open[k]] = k

\* An entry and its parent in addition to those read.
More(scheme, s, p) == [z \in DOMAIN scheme \cup {s} |-> IF z = s THEN p ELSE scheme[z]]

\* The new entry's rank is one more than its parent's, and the open groups are by rank.
Joins(scheme, rank, s, p, ups, r) ==
  /\ r \in Nat /\ s # None
  /\ \/ p = None /\ r = 0 /\ s = <<s[1], 0, 0>>
     \/ /\ p # None /\ s[2] # 0 /\ Near(p, s)
        /\ \/ r = 1 /\ p = <<s[1], 0, 0>>
           \/ p \in DOMAIN scheme /\ r = rank[p] + 1
  /\ ups \in Seq(DOMAIN scheme \cup {s})
  /\ \A k \in DOMAIN ups : \/ ups[k] = s /\ k = r
                           \/ ups[k] \in DOMAIN scheme /\ rank[ups[k]] = k

\* A new entry has a rank, if its parent has.
LEMMA OneEntryMore ==
  ASSUME NEW scheme, NEW open, NEW rank, Filed(scheme, open, rank),
         NEW s, s \notin DOMAIN scheme, NEW p, NEW ups, NEW r, Joins(scheme, rank, s, p, ups, r)
  PROVE  \E ranks : Filed(More(scheme, s, p), ups, ranks)
<1> DEFINE list == More(scheme, s, p)
<1>a. PICK more : more = list
  OBVIOUS
<1>b. more = [z \in DOMAIN scheme \cup {s} |-> IF z = s THEN p ELSE scheme[z]]
  BY <1>a DEF More
<1>c. /\ r \in Nat /\ s # None /\ ups \in Seq(DOMAIN scheme \cup {s})
      /\ \A k \in DOMAIN ups : \/ ups[k] = s /\ k = r
                               \/ ups[k] \in DOMAIN scheme /\ rank[ups[k]] = k
  BY Zenon DEF Joins
<1>d. \/ p = None /\ r = 0 /\ s = <<s[1], 0, 0>>
      \/ /\ p # None /\ s[2] # 0 /\ Near(p, s)
         /\ \/ r = 1 /\ p = <<s[1], 0, 0>>
            \/ p \in DOMAIN scheme /\ r = rank[p] + 1
  BY Zenon DEF Joins
<1> HIDE DEF list
<1>1. PICK D, E : D = DOMAIN scheme /\ E = D \cup {s}
  OBVIOUS
<1>2. PICK ranks : ranks = [z \in E |-> IF z = s THEN r ELSE rank[z]]
  OBVIOUS
<1>3. /\ ranks[s] = r /\ \A z \in D : ranks[z] = rank[z] /\ z # s
      /\ more[s] = p /\ \A z \in D : more[z] = scheme[z]
      /\ DOMAIN more = E
  BY <1>1, <1>2, <1>b
<1>4. IsFiniteSet(E) /\ None \notin E
  BY <1>1, <1>c, FS_AddElement DEF Filed
<1>5. ASSUME NEW z \in D
      PROVE  /\ ranks[z] \in Nat
             /\ more[z] = None => ranks[z] = 0 /\ z = <<z[1], 0, 0>>
             /\ more[z] # None => /\ z[2] # 0 /\ Near(more[z], z)
                                  /\ \/ ranks[z] = 1 /\ more[z] = <<z[1], 0, 0>>
                                     \/ more[z] \in E /\ ranks[z] = ranks[more[z]] + 1
  <2>1. /\ rank[z] \in Nat
        /\ scheme[z] = None => rank[z] = 0 /\ z = <<z[1], 0, 0>>
        /\ scheme[z] # None => /\ z[2] # 0 /\ Near(scheme[z], z)
                               /\ \/ rank[z] = 1 /\ scheme[z] = <<z[1], 0, 0>>
                                  \/ scheme[z] \in D /\ rank[z] = rank[scheme[z]] + 1
    BY <1>1, <1>5, Zenon DEF Filed
  <2>2. PICK q : q = scheme[z] /\ q = more[z]
    BY <1>3
  <2>3. q \in D => ranks[q] = rank[q] /\ q \in E
    BY <1>1, <1>3
  <2> QED
    BY <1>3, <2>1, <2>2, <2>3, Zenon
<1>6. /\ ranks[s] \in Nat
      /\ more[s] = None => ranks[s] = 0 /\ s = <<s[1], 0, 0>>
      /\ more[s] # None => /\ s[2] # 0 /\ Near(more[s], s)
                           /\ \/ ranks[s] = 1 /\ more[s] = <<s[1], 0, 0>>
                              \/ more[s] \in E /\ ranks[s] = ranks[more[s]] + 1
  BY <1>1, <1>3, <1>c, <1>d
<1>7. \A z \in E : z \in D \/ z = s
  BY <1>1
<1>8. \A k \in DOMAIN ups : ranks[ups[k]] = k
  BY <1>1, <1>3, <1>c
<1>9. ups \in Seq(E)
  BY <1>1, <1>c
<1>10. Filed(more, ups, ranks)
  BY <1>3, <1>4, <1>5, <1>6, <1>7, <1>8, <1>9, Zenon DEF Filed
<1> QED
  BY <1>a, <1>10, Zenon DEF list

Fine(state) ==
  /\ {"parent", "open", "repeats", "orphan"} \subseteq DOMAIN state
  /\ \/ state.repeats = TRUE \/ state.orphan = TRUE
     \/ \E rank : Filed(state.parent, state.open, rank)

\* What ReadLine makes of a line that has a parent.
Under(state, s, p, ups) ==
  [parent |-> More(state.parent, s, p), open |-> ups,
   repeats |-> state.repeats \/ s \in DOMAIN state.parent, orphan |-> state.orphan]

LEMMA UnderIsFine ==
  ASSUME NEW state, Fine(state), NEW s, NEW p, NEW ups,
         \A rank : Filed(state.parent, state.open, rank)
                     => \E r : Joins(state.parent, rank, s, p, ups, r)
  PROVE  Fine(Under(state, s, p, ups))
<1>1. PICK next : next = Under(state, s, p, ups)
  OBVIOUS
<1>2. /\ {"parent", "open", "repeats", "orphan"} \subseteq DOMAIN next
      /\ next.parent = More(state.parent, s, p) /\ next.open = ups
      /\ next.repeats = (state.repeats \/ s \in DOMAIN state.parent) /\ next.orphan = state.orphan
  BY <1>1 DEF Under
<1>3. CASE state.repeats = TRUE \/ s \in DOMAIN state.parent
  <2>1. next.repeats = TRUE
    BY <1>2, <1>3, Zenon
  <2> QED
    BY <1>1, <1>2, <2>1, Zenon DEF Fine
<1>4. CASE state.orphan = TRUE
  <2>1. next.orphan = TRUE
    BY <1>2, <1>4, Zenon
  <2> QED
    BY <1>1, <1>2, <2>1, Zenon DEF Fine
<1>5. CASE s \notin DOMAIN state.parent /\ \E rank : Filed(state.parent, state.open, rank)
  <2>1. PICK scheme, open : scheme = state.parent /\ open = state.open
    OBVIOUS
  <2>2. PICK rank : Filed(scheme, open, rank)
    BY <1>5, <2>1, Zenon
  <2>3. PICK r : Joins(scheme, rank, s, p, ups, r)
    BY <2>1, <2>2, Zenon
  <2>4. s \notin DOMAIN scheme
    BY <1>5, <2>1
  <2>5. \E ranks : Filed(More(scheme, s, p), ups, ranks)
    BY <2>2, <2>3, <2>4, OneEntryMore, Zenon
  <2>6. \E ranks : Filed(next.parent, next.open, ranks)
    BY <1>2, <2>1, <2>5, Zenon
  <2> QED
    BY <1>1, <1>2, <2>6, Zenon DEF Fine
<1>6. \/ state.repeats = TRUE \/ state.orphan = TRUE
      \/ \E rank : Filed(state.parent, state.open, rank)
  BY Zenon DEF Fine
<1> QED
  BY <1>3, <1>4, <1>5, <1>6, Zenon

LEMMA ReadLineIsFine ==
  ASSUME NEW state, Fine(state), NEW line, IsLine(line)
  PROVE  Fine(ReadLine(state, line))
<1>1. PICK s, level, scheme, open : /\ s = line.symbol /\ level = line.level
                                    /\ scheme = state.parent /\ open = state.open
  OBVIOUS
<1>2. PICK next : next = ReadLine(state, line)
  OBVIOUS
<1>3. next = IF level = None THEN Under(state, s, None, <<>>)
             ELSE IF level = 0 THEN Under(state, s, <<s[1], 0, 0>>, <<s>>)
             ELSE IF Len(open) >= level /\ SameFamily(open[level], s)
                  THEN Under(state, s, open[level], Append(SubSeq(open, 1, level), s))
             ELSE [state EXCEPT !.orphan = TRUE]
  BY <1>1, <1>2, Zenon DEF ReadLine, Under, More
<1>5. /\ s # None /\ <<s[1], 0, 0>> # None
      /\ level = None => s = <<s[1], 0, 0>>
      /\ level # None => level \in Nat /\ s[2] # 0
  BY <1>1 DEF IsLine
<1>6. CASE level = None
  <2>1. PICK ups : ups = <<>>
    OBVIOUS
  <2>2. next = Under(state, s, None, ups)
    BY <1>3, <1>6, <2>1, Zenon
  <2>3. ups \in Seq(DOMAIN scheme \cup {s}) /\ DOMAIN ups = {}
    BY <2>1
  <2>4. ASSUME NEW rank, Filed(scheme, open, rank) PROVE Joins(scheme, rank, s, None, ups, 0)
    BY <1>5, <1>6, <2>3 DEF Joins
  <2>5. Fine(Under(state, s, None, ups))
    BY <1>1, <2>4, UnderIsFine, Zenon
  <2> QED
    BY <1>2, <2>2, <2>5, Zenon
<1>7. CASE level # None /\ level = 0
  <2>1. PICK ups, p : ups = <<s>> /\ p = <<s[1], 0, 0>>
    OBVIOUS
  <2>2. next = Under(state, s, p, ups)
    BY <1>3, <1>7, <2>1, Zenon
  <2>3. ups \in Seq(DOMAIN scheme \cup {s}) /\ \A k \in DOMAIN ups : ups[k] = s /\ k = 1
    BY <2>1
  <2>4. p # None /\ s[2] # 0 /\ Near(p, s)
    BY <1>5, <1>7, <2>1 DEF Near
  <2>5. ASSUME NEW rank, Filed(scheme, open, rank) PROVE Joins(scheme, rank, s, p, ups, 1)
    BY <1>5, <2>1, <2>3, <2>4 DEF Joins
  <2>6. Fine(Under(state, s, p, ups))
    BY <1>1, <2>5, UnderIsFine, Zenon
  <2> QED
    BY <1>2, <2>2, <2>6, Zenon
<1>8. CASE level # None /\ level # 0 /\ Len(open) >= level /\ SameFamily(open[level], s)
  <2>1. PICK ups, p : ups = Append(SubSeq(open, 1, level), s) /\ p = open[level]
    OBVIOUS
  <2>2. next = Under(state, s, p, ups)
    BY <1>3, <1>8, <2>1, Zenon
  <2>3. ASSUME NEW rank, Filed(scheme, open, rank) PROVE Joins(scheme, rank, s, p, ups, level + 1)
    <3>2. PICK D, E : D = DOMAIN scheme /\ E = D \cup {s}
      OBVIOUS
    <3>3. open \in Seq(D) /\ \A k \in DOMAIN open : rank[open[k]] = k
      BY <2>3, <3>2 DEF Filed
    <3>4. PICK n \in Nat : n = Len(open) /\ DOMAIN open = 1..n
      BY <3>3
    <3>5. level \in 1..n /\ level \in Nat
      BY <1>5, <1>8, <3>4
    <3>6. PICK head : head = SubSeq(open, 1, level)
      OBVIOUS
    <3>7. head \in Seq(D) /\ Len(head) = level /\ \A k \in 1..level : head[k] = open[k]
      BY <3>3, <3>4, <3>5, <3>6
    <3>8. head \in Seq(E) /\ s \in E
      BY <3>2, <3>7
    <3>9. /\ ups \in Seq(E) /\ DOMAIN ups = 1..(level + 1) /\ ups[level + 1] = s
          /\ \A k \in 1..level : ups[k] = head[k]
      BY <2>1, <3>5, <3>6, <3>7, <3>8
    <3>10. \A k \in DOMAIN ups : \/ ups[k] = s /\ k = level + 1
                                 \/ ups[k] \in DOMAIN scheme /\ rank[ups[k]] = k
      <4>1. \A k \in 1..level : open[k] \in D /\ k \in DOMAIN open
        BY <3>3, <3>4, <3>5
      <4>2. \A k \in DOMAIN ups : k \in 1..level \/ k = level + 1
        BY <3>5, <3>9
      <4> QED
        BY <3>2, <3>3, <3>7, <3>9, <4>1, <4>2
    <3>11. p \in DOMAIN scheme /\ rank[p] = level
      BY <2>1, <3>2, <3>3, <3>4, <3>5
    <3>12. p # None /\ s[2] # 0 /\ Near(p, s)
      BY <1>5, <1>8, <2>1, <2>3, <3>11 DEF SameFamily, Filed, Near
    <3>13. ups \in Seq(DOMAIN scheme \cup {s})
      BY <3>2, <3>9
    <3>14. level + 1 \in Nat /\ level + 1 = rank[p] + 1
      BY <3>5, <3>11
    <3> QED
      BY <1>5, <3>10, <3>11, <3>12, <3>13, <3>14, Zenon DEF Joins
  <2>4. Fine(Under(state, s, p, ups))
    BY <1>1, <2>3, UnderIsFine, Zenon
  <2> QED
    BY <1>2, <2>2, <2>4, Zenon
<1>9. CASE level # None /\ level # 0 /\ ~ (Len(open) >= level /\ SameFamily(open[level], s))
  <2>1. next = [state EXCEPT !.orphan = TRUE]
    BY <1>3, <1>9, Zenon
  <2>2. next.orphan = TRUE /\ DOMAIN next = DOMAIN state
    BY <2>1 DEF Fine
  <2>3. Fine(next)
    BY <2>2, Zenon DEF Fine
  <2> QED
    BY <1>2, <2>3, Zenon
<1>10. Fine(next)
  BY <1>2, <1>6, <1>7, <1>8, <1>9, Zenon
<1> QED
  BY <1>2, <1>10, Zenon

\* Every scheme that can be loaded has ranks.
LEMMA SchemeIsRanked ==
  ASSUME NEW v \in DOMAIN Schemes
  PROVE  \E rank : Ranked(Schemes[v], rank)
<1>1. PICK lines : lines = Files[v]
  OBVIOUS
<1>2. v \in DOMAIN Files /\ WellFormed(lines) /\ Schemes[v] = Read(lines).parent
  BY <1>1 DEF Schemes
<1>3. lines \in Seq({lines[i] : i \in DOMAIN lines}) /\ \A i \in DOMAIN lines : IsLine(lines[i])
  BY <1>1, <1>2, MatchingAssumption DEF IsLine
<1>4. PICK K \in Nat : K = Len(lines) /\ DOMAIN lines = 1..K
  BY <1>3
<1>5. PICK f : Reads(f, lines, K) /\ Read(lines) = f[K]
  BY <1>4, ReadIs
<1> DEFINE good == {i \in 0..K : Fine(f[i])}
<1>6. 0 \in good
  <2>1. PICK none : none = NothingRead
    OBVIOUS
  <2>2. PICK empty : empty = <<>>
    OBVIOUS
  <2>3. /\ {"parent", "open", "repeats", "orphan"} \subseteq DOMAIN none
        /\ none.parent = empty /\ none.open = empty
    BY <2>1, <2>2 DEF NothingRead
  <2>4. DOMAIN empty = {} /\ empty \in Seq({}) /\ IsFiniteSet({})
    BY <2>2, FS_EmptySet
  <2>5. Filed(empty, empty, empty)
    BY <2>4 DEF Filed
  <2>6. Fine(none)
    BY <2>3, <2>5, Zenon DEF Fine
  <2> QED
    BY <1>5, <2>1, <2>6 DEF Reads
<1>7. ASSUME NEW i \in 0..K, i # 0, i - 1 \in good PROVE i \in good
  <2>1. i \in 1..K
    BY <1>7
  <2>2. PICK state, line : state = f[i - 1] /\ line = lines[i]
    OBVIOUS
  <2>3. Fine(state) /\ IsLine(line)
    BY <1>3, <1>4, <1>7, <2>1, <2>2
  <2>4. Fine(ReadLine(state, line))
    BY <2>3, ReadLineIsFine
  <2>5. f[i] = ReadLine(state, line)
    BY <1>5, <2>1, <2>2 DEF Reads
  <2> QED
    BY <2>4, <2>5
<1>8. good = 0..K
  <2>1. good \in SUBSET (0..K) /\ \A i \in 0..K : i # 0 /\ i - 1 \in good => i \in good
    BY <1>7
  <2> HIDE DEF good
  <2> QED
    BY <1>6, <2>1, InEveryRound
<1>9. PICK last : last = Read(lines)
  OBVIOUS
<1>10. Fine(last)
  BY <1>5, <1>8, <1>9
<1>11. PICK scheme : scheme = last.parent
  OBVIOUS
<1>12. /\ ~ last.repeats /\ ~ last.orphan
       /\ \A s \in DOMAIN scheme : scheme[s] \in DOMAIN scheme \cup {None}
  BY <1>2, <1>9, <1>11, Zenon DEF WellFormed
<1>13. PICK rank : Filed(scheme, last.open, rank)
  BY <1>10, <1>11, <1>12, Zenon DEF Fine
<1>14. ASSUME NEW s \in DOMAIN scheme
       PROVE  /\ rank[s] \in Nat
              /\ scheme[s] = None => rank[s] = 0 /\ s = <<s[1], 0, 0>>
              /\ scheme[s] # None => /\ scheme[s] \in DOMAIN scheme /\ rank[s] = rank[scheme[s]] + 1
                                     /\ Near(scheme[s], s) /\ s[2] # 0
  <2>1. \A z \in DOMAIN scheme :
          /\ rank[z] \in Nat
          /\ scheme[z] = None => rank[z] = 0 /\ z = <<z[1], 0, 0>>
          /\ scheme[z] # None => /\ z[2] # 0 /\ Near(scheme[z], z)
                                 /\ \/ rank[z] = 1 /\ scheme[z] = <<z[1], 0, 0>>
                                    \/ scheme[z] \in DOMAIN scheme /\ rank[z] = rank[scheme[z]] + 1
    BY <1>13, Zenon DEF Filed
  <2>2. CASE scheme[s] = None
    BY <2>1, <2>2
  <2>3. CASE scheme[s] # None /\ scheme[s] = <<s[1], 0, 0>> /\ rank[s] = 1
    <3>1. PICK p \in DOMAIN scheme : p = scheme[s]
      BY <1>12, <2>3
    <3>2. p[2] = 0
      BY <2>3, <3>1
    <3>3. scheme[p] = None
      BY <2>1, <3>2
    <3>4. rank[p] = 0
      BY <2>1, <3>3
    <3> QED
      BY <2>1, <2>3, <3>1, <3>4
  <2>4. CASE scheme[s] # None /\ scheme[s] \in DOMAIN scheme /\ rank[s] = rank[scheme[s]] + 1
    BY <2>1, <2>4
  <2> QED
    BY <2>1, <2>2, <2>3, <2>4, Zenon
<1>15. IsFiniteSet(DOMAIN scheme) /\ None \notin DOMAIN scheme
  BY <1>13, Zenon DEF Filed
<1>16. Ranked(scheme, rank)
  BY <1>14, <1>15, Zenon DEF Ranked
<1> QED
  BY <1>2, <1>9, <1>11, <1>16

\* Asking for a code and those below it, for the subclass of a code, or whether the code is on
\* the path of the record's code, is the same.
LEMMA RenderingsAre ==
  ASSUME NEW scheme, NEW rank, Ranked(scheme, rank), NEW q, q.cpc \subseteq DOMAIN scheme,
         NEW r, r.cpc \subseteq DOMAIN scheme, r.cpc # {}, \A c \in r.cpc : c[2] # 0
  PROVE  /\ LensCodes(scheme, q, r.cpc) <=> CodesVerdict(scheme, q, r) = "yes"
         /\ SqlCodes(scheme, q, r.cpc) <=> CodesVerdict(scheme, q, r) = "yes"
<1>1. PICK D, codes, asked : D = DOMAIN scheme /\ codes = r.cpc /\ asked = q.cpc
  OBVIOUS
<1>2. codes \subseteq D /\ asked \subseteq D /\ \A c \in codes : c[2] # 0
  BY <1>1
<1> DEFINE within == asked = {} \/ \E c \in codes, s \in asked : s \in PathOf(scheme, c)
<1>3. \A c \in codes, s \in asked : s \in PathOf(scheme, c) <=> s = c \/ c \in Descendants(scheme, s)
  BY <1>1, <1>2, WithinIs
<1>4. CodesVerdict(scheme, q, r) = "yes" <=> within
  <2>1. CodesVerdict(scheme, q, r) = "yes"
          <=> asked = {} \/ "yes" \in {IsWithin(scheme, c, s) : c \in codes, s \in asked}
    BY <1>1, SMT DEF CodesVerdict
  <2>2. "yes" \in {IsWithin(scheme, c, s) : c \in codes, s \in asked}
          <=> \E c \in codes, s \in asked : IsWithin(scheme, c, s) = "yes"
    BY ONLY SMT
  <2>4. ASSUME NEW c \in codes, NEW s \in asked
        PROVE  IsWithin(scheme, c, s) = "yes" <=> s \in PathOf(scheme, c)
    BY <1>1, <1>2 DEF IsWithin
  <2>5. CodesVerdict(scheme, q, r) = "yes"
          <=> asked = {} \/ \E c \in codes, s \in asked : IsWithin(scheme, c, s) = "yes"
    BY <2>1, <2>2, SMT
  <2> QED
    BY <2>4, <2>5, Zenon
<1>5. ASSUME NEW S, NEW c
      PROVE  c \in ExpandCodes(scheme, S) <=> /\ \E s \in S : c = s \/ c \in Descendants(scheme, s)
                                              /\ ~ (c \in D /\ c[2] = 0)
  <2> DEFINE wide == UNION {({s} \cup Descendants(scheme, s)) : s \in S}
  <2>1. c \in wide <=> \E s \in S : c = s \/ c \in Descendants(scheme, s)
    BY ONLY SMT
  <2>2. ExpandCodes(scheme, S) = wide \ {s \in DOMAIN scheme : s[2] = 0}
    BY Zenon DEF ExpandCodes
  <2> HIDE DEF wide
  <2>3. c \in ExpandCodes(scheme, S) <=> c \in wide /\ ~ (c \in D /\ c[2] = 0)
    BY <1>1, <2>2
  <2> QED
    BY <2>1, <2>3
<1>6. LensCodes(scheme, q, codes) <=> within
  <2>1. LensCodes(scheme, q, codes) <=> asked = {} \/ \E c \in codes : c \in ExpandCodes(scheme, asked)
    BY <1>1 DEF LensCodes
  <2>2. \A c \in codes : c \in ExpandCodes(scheme, asked) <=> \E s \in asked : s \in PathOf(scheme, c)
    BY <1>2, <1>3, <1>5
  <2> QED
    BY <2>1, <2>2
<1>7. SqlCodes(scheme, q, codes) <=> within
  <2>1. ASSUME NEW c \in codes
        PROVE  (\E s \in asked : s \in PathOf(scheme, c)) <=>
                 \/ \E s \in asked : s[2] = 0 /\ c[1] = s[1]
                 \/ c \in ExpandCodes(scheme, {s \in asked : s[2] # 0})
    <3>1. ASSUME NEW s \in asked, s[2] = 0 PROVE s \in PathOf(scheme, c) <=> c[1] = s[1]
      <4>1. s = <<s[1], 0, 0>>
        BY <1>1, <1>2, <3>1 DEF Ranked
      <4>2. <<c[1], 0, 0>> \in PathOf(scheme, c) /\ \A t \in PathOf(scheme, c) : t[1] = c[1]
        BY <1>1, <1>2, WithinIs
      <4> QED
        BY <4>1, <4>2
    <3>2. c \in ExpandCodes(scheme, {s \in asked : s[2] # 0})
            <=> \E s \in asked : s[2] # 0 /\ s \in PathOf(scheme, c)
      BY <1>2, <1>3, <1>5
    <3> QED
      BY <3>1, <3>2, Zenon
  <2>2. SqlCodes(scheme, q, codes) <=>
          \/ asked = {}
          \/ \E c \in codes : \/ \E s \in asked : s[2] = 0 /\ c[1] = s[1]
                              \/ c \in ExpandCodes(scheme, {s \in asked : s[2] # 0})
    BY <1>1, Zenon DEF SqlCodes
  <2> QED
    BY <2>1, <2>2, Zenon
<1> QED
  BY <1>1, <1>4, <1>6, <1>7, Zenon

-----------------------------------------------------------------------------
(* What the versions say of a code *)

\* An entry below a group has the number of that group or mirrors it.
LEMMA NumberIsThatOfPath ==
  ASSUME NEW v \in DOMAIN Schemes, NEW c \in DOMAIN Schemes[v], NEW t \in PathOf(Schemes[v], c)
  PROVE  t[2] = 0 \/ c[2] \in {t[2], t[2] + INDEXING_OFFSET}
<1>1. PICK scheme, D : scheme = Schemes[v] /\ D = DOMAIN scheme
  OBVIOUS
<1>2. PICK rank : Ranked(scheme, rank)
  BY <1>1, SchemeIsRanked
<1>3. \A s \in D : s[2] \in Nat /\ s[2] < 4000
  <2>1. PICK numbers : numbers = 0..(2 * INDEXING_OFFSET - 1)
    OBVIOUS
  <2>2. \A s \in D : s[2] \in numbers
    BY <1>1, <2>1, NumberingAssumption, Zenon
  <2>3. \A n \in numbers : n \in Nat /\ n < 4000
    BY <2>1 DEF INDEXING_OFFSET
  <2> QED
    BY <2>2, <2>3
<1>4. \A s \in D : PathOf(scheme, s) \subseteq D
  BY <1>1, <1>2, WithinIs
<1> DEFINE good == {s \in D : \A u \in PathOf(scheme, s) : u[2] = 0 \/ s[2] \in {u[2], u[2] + 2000}}
<1>5. ASSUME NEW s \in D, scheme[s] # None => scheme[s] \in good PROVE s \in good
  <2>1. CASE scheme[s] = None
    <3>1. PathOf(scheme, s) = {s} /\ s = <<s[1], 0, 0>>
      BY <1>1, <1>2, <2>1, AncestorsAre DEF Ranked
    <3> QED
      BY <3>1
  <2>2. CASE scheme[s] # None
    <3>1. PICK p \in good : p = scheme[s]
      BY <1>5, <2>2
    <3>2. PathOf(scheme, s) = {s} \cup PathOf(scheme, p) /\ p \in D
      BY <1>1, <1>2, <2>2, <3>1, AncestorsAre DEF Ranked
    <3>3. p[2] = 0 \/ s[2] \in {p[2], p[2] + 2000}
      BY <1>1, <1>2, <2>2, <3>1 DEF Ranked, Near, INDEXING_OFFSET
    <3>4. ASSUME NEW u \in PathOf(scheme, p) PROVE u[2] = 0 \/ s[2] \in {u[2], u[2] + 2000}
      <4>1. u[2] = 0 \/ p[2] \in {u[2], u[2] + 2000}
        BY <3>1, <3>4
      <4>2. u \in D
        BY <1>4, <3>2, <3>4
      <4>3. u[2] \in Nat /\ s[2] < 4000
        BY <1>3, <4>2
      <4>4. CASE p[2] = 0
        <5>1. scheme[p] = None
          BY <1>1, <1>2, <3>2, <4>4 DEF Ranked
        <5>2. u = p
          BY <1>1, <1>2, <3>2, <3>4, <5>1, AncestorsAre
        <5> QED
          BY <4>4, <5>2
      <4>5. CASE p[2] # 0
        <5>1. u[2] # 0 => p[2] = u[2] \/ p[2] = u[2] + 2000
          BY <4>1
        <5>2. s[2] = p[2] \/ s[2] = p[2] + 2000
          BY <3>3, <4>5
        <5>3. (u[2] + 2000) + 2000 >= 4000
          BY <4>3
        <5>4. u[2] = 0 \/ s[2] = u[2] \/ s[2] = u[2] + 2000
          BY <4>3, <5>1, <5>2, <5>3
        <5> QED
          BY <5>4
      <4> QED
        BY <4>4, <4>5
    <3> QED
      BY <3>2, <3>4
  <2> QED
    BY <2>1, <2>2
<1>6. good = D
  <2>1. good \in SUBSET DOMAIN scheme
    BY <1>1
  <2> HIDE DEF good
  <2> QED
    BY <1>1, <1>2, <1>5, <2>1, FromParents
<1> QED
  BY <1>1, <1>6 DEF INDEXING_OFFSET

\* What is decided of a code is so in the version itself or in every other that has the code.
LEMMA NeverGuesses ==
  ASSUME NEW v \in DOMAIN Schemes, NEW s \in DOMAIN Schemes[v],
         NEW w \in DOMAIN Schemes, NEW c \in DOMAIN Schemes[w], c \in DOMAIN Schemes[v] => w = v
  PROVE  /\ IsWithin(Schemes[v], c, s) \in {"yes", "no", "unknown"}
         /\ IsWithin(Schemes[v], c, s) = "yes" => s \in PathOf(Schemes[w], c)
         /\ IsWithin(Schemes[v], c, s) = "no" => s \notin PathOf(Schemes[w], c)
<1>1. PICK here, there : here = Schemes[v] /\ there = Schemes[w]
  OBVIOUS
<1>2. PICK verdict : verdict = IsWithin(here, c, s)
  OBVIOUS
<1>3. CASE c \in DOMAIN here
  <2>1. there = here /\ verdict = IF s \in PathOf(here, c) THEN "yes" ELSE "no"
    BY <1>1, <1>2, <1>3 DEF IsWithin
  <2> QED
    BY <1>1, <1>2, <2>1
<1>4. CASE c \notin DOMAIN here
  <2>1. PICK rank : Ranked(here, rank)
    BY <1>1, SchemeIsRanked
  <2>2. PICK ranks : Ranked(there, ranks)
    BY <1>1, SchemeIsRanked
  <2>3. /\ \A t \in PathOf(there, c) : t[1] = c[1]
        /\ <<c[1], 0, 0>> \in PathOf(there, c)
    BY <1>1, <2>2, WithinIs
  <2>4. CASE c[1] # s[1]
    <3>1. verdict = "no"
      BY <1>2, <1>4, <2>4 DEF IsWithin
    <3> QED
      BY <1>1, <1>2, <2>3, <2>4, <3>1
  <2>5. CASE c[1] = s[1] /\ s[2] = 0
    <3>1. verdict = "yes"
      BY <1>2, <1>4, <2>5 DEF IsWithin
    <3>2. s = <<s[1], 0, 0>>
      BY <1>1, <2>1, <2>5 DEF Ranked
    <3> QED
      BY <1>1, <1>2, <2>3, <2>5, <3>1, <3>2
  <2>6. CASE c[1] = s[1] /\ IsMainGroup(here, s) /\ c[2] = s[2]
    <3>1. verdict = "yes"
      BY <1>2, <1>4, <2>6 DEF IsWithin
    <3>2. s \in PathOf(there, c)
      BY <1>1, <1>4, <2>6, NumberingAssumption
    <3> QED
      BY <1>1, <1>2, <3>1, <3>2
  <2>7. CASE c[1] = s[1] /\ s[2] # 0 /\ ~ (IsMainGroup(here, s) /\ c[2] = s[2])
    <3>1. verdict = IF c[2] \in {s[2], s[2] + INDEXING_OFFSET} \/ s[2] = c[2] + INDEXING_OFFSET
                    THEN "unknown" ELSE "no"
      BY <1>2, <1>4, <2>7 DEF IsWithin
    <3>2. ASSUME verdict = "no" PROVE s \notin PathOf(there, c)
      BY <1>1, <2>7, <3>1, <3>2, NumberIsThatOfPath
    <3> QED
      BY <1>1, <1>2, <3>1, <3>2
  <2> QED
    BY <2>4, <2>5, <2>6, <2>7
<1> QED
  BY <1>3, <1>4

\* A code is inside a query if a code of the query is on its path.
LEMMA InsideIs ==
  ASSUME NEW q, NEW w \in DOMAIN Schemes, NEW c \in DOMAIN Schemes[w]
  PROVE  Inside(q, c, w) <=> \E s \in q.cpc : s \in PathOf(Schemes[w], c)
<1>1. PICK scheme : scheme = Schemes[w]
  OBVIOUS
<1>2. PICK rank : Ranked(scheme, rank)
  BY <1>1, SchemeIsRanked
<1>3. /\ \A t \in DOMAIN scheme : t \in PathOf(scheme, c) <=> t = c \/ c \in Descendants(scheme, t)
      /\ \A t \in PathOf(scheme, c) : t \in DOMAIN scheme
  BY <1>1, <1>2, WithinIs
<1> QED
  BY <1>1, <1>3 DEF Inside

\* Every code of a record has a home, and homes have it.
LEMMA HomesAre ==
  ASSUME querySet.version \in DOMAIN Schemes, NEW r \in Stored, NEW c \in r.cpc
  PROVE  /\ Homes(c) # {} /\ Homes(c) \subseteq DOMAIN Schemes
         /\ \A w \in Homes(c) : /\ c \in DOMAIN Schemes[w]
                                /\ c \in DOMAIN Schemes[querySet.version] => w = querySet.version
<1>1. c \in UNION {d.cpc : d \in Stored}
  OBVIOUS
<1>2. c \in UNION {DOMAIN Schemes[v] : v \in DOMAIN Schemes}
  BY <1>1, MatchingAssumption
<1>3. PICK w \in DOMAIN Schemes : c \in DOMAIN Schemes[w]
  BY <1>2
<1> QED
  BY <1>3 DEF Homes

\* What is decided of a record's date, texts and codes is so whatever is missing.
LEMMA DateVerdictIs ==
  ASSUME NEW r \in Stored
  PROVE  /\ DateVerdict(r) \in {"yes", "no", "unknown"}
         /\ PossibleDates(r) # {}
         /\ DateVerdict(r) = "yes" => \A d \in PossibleDates(r) : Scope.from <= d /\ d <= Scope.to
         /\ DateVerdict(r) = "no" => \A d \in PossibleDates(r) : ~ (Scope.from <= d /\ d <= Scope.to)
<1>1. PICK low, high, date : low = Scope.from /\ high = Scope.to /\ date = r.date
  OBVIOUS
<1>2. low \in Nat /\ high \in Nat /\ date \in Nat \cup {None}
  BY <1>1, MatchingAssumption
<1>3. CASE date = None
  BY <1>1, <1>2, <1>3 DEF DateVerdict, PossibleDates
<1>4. CASE date # None
  BY <1>1, <1>2, <1>4 DEF DateVerdict, PossibleDates
<1> QED
  BY <1>3, <1>4

\* Some and all of what a record's texts may be meet the phrases of a query.
MayMeet(q, r) ==
  \E t \in PossibleTexts(q, r.title), a \in PossibleTexts(q, r.abstract) : (t \cup a) \cap q.phrases # {}
Meets(q, r) ==
  \A t \in PossibleTexts(q, r.title), a \in PossibleTexts(q, r.abstract) : (t \cup a) \cap q.phrases # {}

LEMMA TextVerdictIs ==
  ASSUME NEW q, NEW r
  PROVE  /\ TextVerdict(q, r) \in {"yes", "no", "unknown"}
         /\ TextVerdict(q, r) = "yes" => q.phrases = {} \/ (Meets(q, r) /\ MayMeet(q, r))
         /\ TextVerdict(q, r) = "no" => q.phrases # {} /\ ~ MayMeet(q, r)
<1>1. PICK title, abstract, phrases : title = r.title /\ abstract = r.abstract /\ phrases = q.phrases
  OBVIOUS
<1>2. PICK verdict : verdict = TextVerdict(q, r)
  OBVIOUS
<1> DEFINE meet == \/ title # None /\ title \cap phrases # {}
                   \/ abstract # None /\ abstract \cap phrases # {}
<1>3. verdict = IF phrases = {} \/ meet THEN "yes"
                ELSE IF title = None \/ abstract = None THEN "unknown" ELSE "no"
  BY <1>1, <1>2 DEF TextVerdict
<1>4. PICK titles, abstracts : titles = PossibleTexts(q, title) /\ abstracts = PossibleTexts(q, abstract)
  OBVIOUS
<1>5. /\ titles # {} /\ abstracts # {}
      /\ title # None => titles = {title}
      /\ abstract # None => abstracts = {abstract}
  BY <1>4 DEF PossibleTexts
<1>6. /\ MayMeet(q, r) <=> \E t \in titles, a \in abstracts : (t \cup a) \cap phrases # {}
      /\ Meets(q, r) <=> \A t \in titles, a \in abstracts : (t \cup a) \cap phrases # {}
  BY <1>1, <1>4, Zenon DEF MayMeet, Meets
<1>7. ASSUME meet PROVE Meets(q, r) /\ MayMeet(q, r)
  <2>1. \A t \in titles, a \in abstracts : (t \cup a) \cap phrases # {}
    BY <1>5, <1>7
  <2> QED
    BY <1>5, <1>6, <2>1
<1>8. ASSUME ~ meet, title # None, abstract # None PROVE ~ MayMeet(q, r)
  BY <1>5, <1>6, <1>8
<1> HIDE DEF meet
<1>9. verdict \in {"yes", "no", "unknown"}
  BY <1>3
<1>10. verdict = "yes" => phrases = {} \/ meet
  BY <1>3
<1>11. verdict = "no" => phrases # {} /\ ~ meet /\ title # None /\ abstract # None
  BY <1>3
<1> QED
  BY <1>1, <1>2, <1>7, <1>8, <1>9, <1>10, <1>11, Zenon

\* A code of a record is inside a query in all or in some of the versions that tell.
LEMMA CodesVerdictIs ==
  ASSUME querySet.version \in DOMAIN Schemes, NEW r \in Stored,
         NEW q, q.cpc \subseteq DOMAIN Schemes[querySet.version]
  PROVE  /\ CodesVerdict(Schemes[querySet.version], q, r) \in {"yes", "no", "unknown"}
         /\ CodesVerdict(Schemes[querySet.version], q, r) = "yes" =>
              \/ q.cpc = {}
              \/ /\ \E c \in r.cpc : \A w \in Homes(c) : Inside(q, c, w)
                 /\ \E c \in r.cpc : \E w \in Homes(c) : Inside(q, c, w)
         /\ CodesVerdict(Schemes[querySet.version], q, r) = "no" =>
              /\ q.cpc # {} /\ r.cpc # {}
              /\ \A c \in r.cpc : \A w \in Homes(c) : ~ Inside(q, c, w)
<1>1. PICK v, codes, asked : v = querySet.version /\ codes = r.cpc /\ asked = q.cpc
  OBVIOUS
<1>2. PICK scheme : scheme = Schemes[v]
  OBVIOUS
<1>3. PICK verdict : verdict = CodesVerdict(scheme, q, r)
  OBVIOUS
<1> DEFINE verdicts == {IsWithin(scheme, c, s) : c \in codes, s \in asked}
<1>5. verdict = IF asked = {} \/ "yes" \in verdicts THEN "yes"
                ELSE IF codes = {} \/ "unknown" \in verdicts THEN "unknown" ELSE "no"
  BY <1>1, <1>3, SMT DEF CodesVerdict
<1>6. ASSUME NEW x PROVE x \in verdicts <=> \E c \in codes, s \in asked : x = IsWithin(scheme, c, s)
  BY ONLY SMT
<1> HIDE DEF verdicts
<1>7. ASSUME NEW c \in codes
      PROVE  /\ Homes(c) # {}
             /\ \A w \in Homes(c) : w \in DOMAIN Schemes /\ c \in DOMAIN Schemes[w]
                                    /\ (c \in DOMAIN Schemes[v] => w = v)
  BY <1>1, HomesAre, Zenon
<1>8. ASSUME NEW c \in codes, NEW s \in asked, NEW w \in Homes(c)
      PROVE  /\ IsWithin(scheme, c, s) \in {"yes", "no", "unknown"}
             /\ IsWithin(scheme, c, s) = "yes" => s \in PathOf(Schemes[w], c)
             /\ IsWithin(scheme, c, s) = "no" => s \notin PathOf(Schemes[w], c)
  <2>1. w \in DOMAIN Schemes /\ c \in DOMAIN Schemes[w] /\ (c \in DOMAIN Schemes[v] => w = v)
    BY <1>7
  <2>2. v \in DOMAIN Schemes /\ s \in DOMAIN Schemes[v]
    BY <1>1
  <2> QED
    BY <1>2, <2>1, <2>2, NeverGuesses
<1>9. ASSUME NEW c \in codes, NEW w \in Homes(c)
      PROVE  Inside(q, c, w) <=> \E s \in asked : s \in PathOf(Schemes[w], c)
  <2>1. w \in DOMAIN Schemes /\ c \in DOMAIN Schemes[w]
    BY <1>7
  <2> QED
    BY <1>1, <2>1, InsideIs
<1>10. ASSUME "yes" \in verdicts
       PROVE  /\ \E c \in codes : \A w \in Homes(c) : Inside(q, c, w)
              /\ \E c \in codes : \E w \in Homes(c) : Inside(q, c, w)
  <2>1. PICK c \in codes, s \in asked : "yes" = IsWithin(scheme, c, s)
    BY <1>6, <1>10
  <2>2. \A w \in Homes(c) : Inside(q, c, w)
    BY <1>8, <1>9, <2>1
  <2> QED
    BY <1>7, <2>1, <2>2
<1>11. ASSUME verdict = "no"
       PROVE  /\ asked # {} /\ codes # {}
              /\ \A c \in codes : \A w \in Homes(c) : ~ Inside(q, c, w)
  <2>1. asked # {} /\ codes # {} /\ "yes" \notin verdicts /\ "unknown" \notin verdicts
    BY <1>5, <1>11
  <2>2. ASSUME NEW c \in codes, NEW w \in Homes(c) PROVE ~ Inside(q, c, w)
    <3>1. ASSUME NEW s \in asked PROVE s \notin PathOf(Schemes[w], c)
      <4>1. PICK x : x = IsWithin(scheme, c, s)
        OBVIOUS
      <4>2. x \in verdicts
        BY <1>6, <4>1
      <4>3. x = "no"
        BY <1>8, <2>1, <4>1, <4>2
      <4> QED
        BY <1>8, <4>1, <4>3
    <3> QED
      BY <1>9, <3>1
  <2> QED
    BY <2>1, <2>2
<1>12. verdict \in {"yes", "no", "unknown"}
  BY <1>5
<1>13. verdict = "yes" => asked = {} \/ "yes" \in verdicts
  BY <1>5
<1>14. /\ verdict = "yes" =>
            \/ asked = {}
            \/ /\ \E c \in codes : \A w \in Homes(c) : Inside(q, c, w)
               /\ \E c \in codes : \E w \in Homes(c) : Inside(q, c, w)
       /\ verdict = "no" =>
            /\ asked # {} /\ codes # {}
            /\ \A c \in codes : \A w \in Homes(c) : ~ Inside(q, c, w)
  BY <1>10, <1>11, <1>13, Zenon
<1> QED
  BY <1>1, <1>2, <1>3, <1>12, <1>14, Zenon

\* An evaluation that decides is right whatever is missing.
LEMMA EvaluationIs ==
  ASSUME querySet.version \in DOMAIN Schemes, NEW r \in Stored,
         NEW q, q.cpc \subseteq DOMAIN Schemes[querySet.version]
  PROVE  /\ Evaluate(Schemes[querySet.version], q, r) \in {"match", "no", "undecidable"}
         /\ Evaluate(Schemes[querySet.version], q, r) = "match" => Surely(q, r) /\ Possibly(q, r)
         /\ Evaluate(Schemes[querySet.version], q, r) = "no" => ~ Possibly(q, r)
<1>1. PICK scheme : scheme = Schemes[querySet.version]
  OBVIOUS
<1>2. PICK d, t, c : d = DateVerdict(r) /\ t = TextVerdict(q, r) /\ c = CodesVerdict(scheme, q, r)
  OBVIOUS
<1>3. PICK verdict : verdict = Evaluate(scheme, q, r)
  OBVIOUS
<1> DEFINE elsewhere == Scope.offices # {} /\ r.office \notin Scope.offices
<1>4. verdict = IF elsewhere \/ "no" \in {d, t, c} THEN "no"
                ELSE IF "unknown" \in {d, t, c} THEN "undecidable" ELSE "match"
  BY <1>2, <1>3, Zenon DEF Evaluate
<1>5. {d, t, c} \subseteq {"yes", "no", "unknown"}
  BY <1>1, <1>2, DateVerdictIs, TextVerdictIs, CodesVerdictIs
<1>6. ASSUME verdict = "match" PROVE Surely(q, r) /\ Possibly(q, r)
  <2>1. ~ elsewhere /\ d = "yes" /\ t = "yes" /\ c = "yes"
    <3> HIDE DEF elsewhere
    <3> QED
      BY <1>4, <1>5, <1>6
  <2>2. /\ \A x \in PossibleDates(r) : Scope.from <= x /\ x <= Scope.to
        /\ \E x \in PossibleDates(r) : Scope.from <= x /\ x <= Scope.to
    BY <1>2, <2>1, DateVerdictIs, Zenon
  <2>3. q.phrases = {} \/ (Meets(q, r) /\ MayMeet(q, r))
    BY <1>2, <2>1, TextVerdictIs, Zenon
  <2>4. \/ q.cpc = {}
        \/ /\ \E x \in r.cpc : \A w \in Homes(x) : Inside(q, x, w)
           /\ \E x \in r.cpc : \E w \in Homes(x) : Inside(q, x, w)
    BY <1>1, <1>2, <2>1, CodesVerdictIs, Zenon
  <2>5. Scope.offices = {} \/ r.office \in Scope.offices
    BY <2>1
  <2>6. Surely(q, r)
    BY <2>2, <2>3, <2>4, <2>5, Zenon DEF Surely, Meets
  <2>7. Possibly(q, r)
    BY <2>2, <2>3, <2>4, <2>5, Zenon DEF Possibly, MayMeet
  <2> QED
    BY <2>6, <2>7
<1>7. ASSUME verdict = "no" PROVE ~ Possibly(q, r)
  <2>1. elsewhere \/ d = "no" \/ t = "no" \/ c = "no"
    <3> HIDE DEF elsewhere
    <3> QED
      BY <1>4, <1>7
  <2>2. CASE elsewhere
    BY <2>2, Zenon DEF Possibly
  <2>3. CASE d = "no"
    <3>1. \A x \in PossibleDates(r) : ~ (Scope.from <= x /\ x <= Scope.to)
      BY <1>2, <2>3, DateVerdictIs, Zenon
    <3> QED
      BY <3>1, Zenon DEF Possibly
  <2>4. CASE t = "no"
    <3>1. q.phrases # {} /\ ~ MayMeet(q, r)
      BY <1>2, <2>4, TextVerdictIs, Zenon
    <3> QED
      BY <3>1, Zenon DEF Possibly, MayMeet
  <2>5. CASE c = "no"
    <3>1. /\ q.cpc # {} /\ r.cpc # {}
          /\ \A x \in r.cpc : \A w \in Homes(x) : ~ Inside(q, x, w)
      BY <1>1, <1>2, <2>5, CodesVerdictIs, Zenon
    <3> QED
      BY <3>1, Zenon DEF Possibly
  <2> QED
    BY <2>1, <2>2, <2>3, <2>4, <2>5
<1>8. verdict \in {"match", "no", "undecidable"}
  <2> HIDE DEF elsewhere
  <2> QED
    BY <1>4
<1> QED
  BY <1>1, <1>3, <1>6, <1>7, <1>8, Zenon

-----------------------------------------------------------------------------
(* What is recorded *)

\* The queries of a segment, and the one that a search uses.
QueryOf(s, part) ==
  [segment |-> s.id, part |-> part,
   phrases |-> IF part = "cpc" THEN {} ELSE s.phrases,
   cpc     |-> IF part = "keywords" THEN {} ELSE s.cpc]
SearchQueryOf(s) == QueryOf(s, IF s.cpc = {} THEN "keywords" ELSE "combined")

LEMMA QueryOfIs ==
  ASSUME NEW s, NEW part
  PROVE  /\ QueryOf(s, part).segment = s.id /\ QueryOf(s, part).part = part
         /\ QueryOf(s, part).phrases = IF part = "cpc" THEN {} ELSE s.phrases
         /\ QueryOf(s, part).cpc = IF part = "keywords" THEN {} ELSE s.cpc
  BY DEF QueryOf

LEMMA QueriesAre ==
  ASSUME NEW content, NEW q
  PROVE  q \in Queries(content) <=>
           \E s \in content.segments :
             \E part \in IF s.cpc = {} THEN {"keywords"} ELSE {"keywords", "cpc", "combined"} :
               q = QueryOf(s, part)
<1> DEFINE all(s) == {[segment |-> s.id, part |-> part,
                       phrases |-> IF part = "cpc" THEN {} ELSE s.phrases,
                       cpc     |-> IF part = "keywords" THEN {} ELSE s.cpc] :
                        part \in IF s.cpc = {} THEN {"keywords"} ELSE {"keywords", "cpc", "combined"}}
<1>1. Queries(content) = UNION {all(s) : s \in content.segments}
  BY Zenon DEF Queries
<1>2. ASSUME NEW s
      PROVE  q \in all(s) <=>
               \E part \in IF s.cpc = {} THEN {"keywords"} ELSE {"keywords", "cpc", "combined"} :
                 q = QueryOf(s, part)
  BY Zenon DEF QueryOf
<1> HIDE DEF all
<1>3. q \in UNION {all(s) : s \in content.segments} <=> \E s \in content.segments : q \in all(s)
  OBVIOUS
<1> QED
  BY <1>1, <1>2, <1>3, Zenon

\* A query of a segment is its keywords, its codes or both.
LEMMA QueriesOfSegments ==
  ASSUME NEW content \in Contents, NEW q \in Queries(content)
  PROVE  \E s \in content.segments :
           /\ q.segment = s.id
           /\ \/ q = QueryOf(s, "keywords") /\ q.part = "keywords" /\ q.phrases = s.phrases /\ q.cpc = {}
              \/ /\ s.cpc # {}
                 /\ q = QueryOf(s, "cpc") /\ q.part = "cpc" /\ q.phrases = {} /\ q.cpc = s.cpc
              \/ /\ s.cpc # {} /\ q = SearchQueryOf(s)
                 /\ q.part = "combined" /\ q.phrases = s.phrases /\ q.cpc = s.cpc
<1>1. PICK s \in content.segments :
        \E part \in IF s.cpc = {} THEN {"keywords"} ELSE {"keywords", "cpc", "combined"} :
          q = QueryOf(s, part)
  BY QueriesAre
<1>2. PICK part \in IF s.cpc = {} THEN {"keywords"} ELSE {"keywords", "cpc", "combined"} :
        q = QueryOf(s, part)
  BY <1>1
<1>3. /\ q.segment = s.id /\ q.part = part
      /\ q.phrases = IF part = "cpc" THEN {} ELSE s.phrases
      /\ q.cpc = IF part = "keywords" THEN {} ELSE s.cpc
  BY <1>2, QueryOfIs
<1>4. CASE part = "keywords"
  BY <1>2, <1>3, <1>4
<1>5. CASE s.cpc # {} /\ part = "cpc"
  BY <1>2, <1>3, <1>5
<1>6. CASE s.cpc # {} /\ part = "combined"
  <2>1. q = SearchQueryOf(s)
    BY <1>2, <1>6 DEF SearchQueryOf
  <2> QED
    BY <1>3, <1>6, <2>1
<1> QED
  BY <1>2, <1>4, <1>5, <1>6

\* The search query of a segment is one of its queries, with all that the segment has.
LEMMA SearchQueryIs ==
  ASSUME NEW content \in Contents, NEW s \in content.segments
  PROVE  /\ SearchQueryOf(s) \in Queries(content)
         /\ SearchQueryOf(s).segment = s.id
         /\ SearchQueryOf(s).phrases = s.phrases /\ SearchQueryOf(s).cpc = s.cpc
         /\ SearchQueryOf(s).part = IF s.cpc = {} THEN "keywords" ELSE "combined"
<1>1. PICK part : part = IF s.cpc = {} THEN "keywords" ELSE "combined"
  OBVIOUS
<1>2. PICK q : q = SearchQueryOf(s) /\ q = QueryOf(s, part)
  BY <1>1 DEF SearchQueryOf
<1>3. part \in IF s.cpc = {} THEN {"keywords"} ELSE {"keywords", "cpc", "combined"}
  BY <1>1
<1>4. q \in Queries(content)
  BY <1>2, <1>3, QueriesAre
<1>5. /\ q.segment = s.id /\ q.part = part
      /\ q.phrases = IF part = "cpc" THEN {} ELSE s.phrases
      /\ q.cpc = IF part = "keywords" THEN {} ELSE s.cpc
  BY <1>2, QueryOfIs
<1> QED
  BY <1>1, <1>2, <1>4, <1>5

LEMMA SearchQueriesAre ==
  ASSUME NEW content \in Contents
  PROVE  /\ \A q \in SearchQueries(Queries(content)) :
              \E s \in content.segments : q = SearchQueryOf(s)
         /\ \A s \in content.segments : SearchQueryOf(s) \in SearchQueries(Queries(content))
<1>1. PICK qs : qs = Queries(content)
  OBVIOUS
<1>2. ASSUME NEW q \in SearchQueries(qs) PROVE \E s \in content.segments : q = SearchQueryOf(s)
  <2>1. /\ q \in qs
        /\ \/ q.part = "combined"
           \/ q.part = "keywords" /\ ~ \E o \in qs : o.segment = q.segment /\ o.part = "combined"
    BY <1>2 DEF SearchQueries
  <2>2. PICK s \in content.segments :
           /\ q.segment = s.id
           /\ \/ q = QueryOf(s, "keywords") /\ q.part = "keywords"
              \/ s.cpc # {} /\ q.part = "cpc"
              \/ s.cpc # {} /\ q = SearchQueryOf(s) /\ q.part = "combined"
    BY <1>1, <2>1, QueriesOfSegments
  <2>3. CASE q.part = "combined"
    BY <2>2, <2>3
  <2>4. CASE q.part = "keywords" /\ ~ \E o \in qs : o.segment = q.segment /\ o.part = "combined"
    <3>1. PICK o : o = SearchQueryOf(s)
      OBVIOUS
    <3>2. o \in qs /\ o.segment = s.id /\ o.part = IF s.cpc = {} THEN "keywords" ELSE "combined"
      BY <1>1, <3>1, SearchQueryIs
    <3>3. s.cpc = {}
      BY <2>2, <2>4, <3>2
    <3> QED
      BY <2>2, <2>4, <3>3 DEF SearchQueryOf
  <2> QED
    BY <2>1, <2>3, <2>4
<1>3. ASSUME NEW s \in content.segments PROVE SearchQueryOf(s) \in SearchQueries(qs)
  <2>1. PICK q : q = SearchQueryOf(s)
    OBVIOUS
  <2>2. /\ q \in qs /\ q.segment = s.id
        /\ q.part = IF s.cpc = {} THEN "keywords" ELSE "combined"
    BY <1>1, <2>1, SearchQueryIs
  <2>3. ASSUME s.cpc = {}, NEW o \in qs, o.segment = s.id, o.part = "combined" PROVE FALSE
    <3>1. PICK t \in content.segments : o.segment = t.id /\ (o.part = "combined" => t.cpc # {})
      BY <1>1, <2>3, QueriesOfSegments
    <3>2. t = s
      BY <2>3, <3>1, MatchingAssumption
    <3> QED
      BY <2>3, <3>1, <3>2
  <2> QED
    BY <2>1, <2>2, <2>3 DEF SearchQueries
<1> QED
  BY <1>1, <1>2, <1>3

\* Of the queries of a segment, only the search query has keywords and all of the codes.
LEMMA SearchQueryIsTheOnly ==
  ASSUME NEW content \in Contents, NEW s \in content.segments, NEW qs, qs = Queries(content)
  PROVE  (CHOOSE q \in qs : /\ q.segment = s.id /\ q.phrases # {}
                            /\ q.cpc = UNION {o.cpc : o \in {x \in qs : x.segment = s.id}})
           = SearchQueryOf(s)
<1>1. PICK codes : codes = UNION {o.cpc : o \in {x \in qs : x.segment = s.id}}
  OBVIOUS
<1>2. PICK q : q = SearchQueryOf(s)
  OBVIOUS
<1>3. q \in qs /\ q.segment = s.id /\ q.phrases = s.phrases /\ q.cpc = s.cpc
  BY <1>1, <1>2, SearchQueryIs
<1>4. ASSUME NEW o \in qs, o.segment = s.id
      PROVE  /\ o.cpc \subseteq s.cpc
             /\ o = q \/ o.phrases = {} \/ o.cpc # s.cpc
  <2>1. PICK t \in content.segments :
          /\ o.segment = t.id
          /\ \/ o = QueryOf(t, "keywords") /\ o.phrases = t.phrases /\ o.cpc = {}
             \/ t.cpc # {} /\ o.phrases = {} /\ o.cpc = t.cpc
             \/ t.cpc # {} /\ o = SearchQueryOf(t) /\ o.phrases = t.phrases /\ o.cpc = t.cpc
    BY <1>1, <1>4, QueriesOfSegments
  <2>2. t = s
    BY <1>4, <2>1, MatchingAssumption
  <2>3. s.cpc = {} => q = QueryOf(s, "keywords")
    BY <1>2 DEF SearchQueryOf
  <2> QED
    BY <1>2, <2>1, <2>2, <2>3
<1>5. codes = s.cpc
  BY <1>1, <1>3, <1>4
<1>6. s.phrases # {}
  BY MatchingAssumption
<1>7. /\ q \in qs /\ q.segment = s.id /\ q.phrases # {} /\ q.cpc = codes
      /\ \A o \in qs : o.segment = s.id /\ o.phrases # {} /\ o.cpc = codes => o = q
  BY <1>3, <1>4, <1>5, <1>6
<1>8. (CHOOSE o \in qs : o.segment = s.id /\ o.phrases # {} /\ o.cpc = codes) = q
  BY <1>7
<1> QED
  BY <1>1, <1>2, <1>8, Zenon

\* A count is of the records that match, and it says whether others could.
Counted(row, set) ==
  /\ row.query \in set.queries
  /\ row.count = Cardinality({r \in Records(row.batches) :
                                Evaluate(Schemes[set.version], row.query, r) = "match"})
  /\ \A r \in Records(row.batches) :
       Evaluate(Schemes[set.version], row.query, r) = "undecidable" => row.lowerBound

\* What is said of a known publication, by the search queries and its stored kinds.
Kinds(batches, p) == {d \in Records(batches) : d.office = p[1] /\ d.number = p[2]}
Said(set, batches, p, result) ==
  /\ result = "not_retrieved" <=> SearchQueries(set.queries) = {} \/ Kinds(batches, p) = {}
  /\ result = "found" =>
       \E q \in SearchQueries(set.queries), r \in Kinds(batches, p) :
         Evaluate(Schemes[set.version], q, r) = "match"
  /\ result = "missed" =>
       \A q \in SearchQueries(set.queries), r \in Kinds(batches, p) :
         Evaluate(Schemes[set.version], q, r) = "no"
Checked(row, set) ==
  \A i \in DOMAIN row.results : Said(set, row.batches, row.results[i][1], row.results[i][2])

LEMMA ClassifyRecallIs ==
  ASSUME NEW batches, NEW p
  PROVE  Said(querySet, batches, p, ClassifyRecall(batches, querySet.version, p))
<1>1. PICK asked, stored, scheme : /\ asked = SearchQueries(querySet.queries)
                                   /\ stored = Kinds(batches, p) /\ scheme = Schemes[querySet.version]
  OBVIOUS
<1>2. PICK result : result = ClassifyRecall(batches, querySet.version, p)
  OBVIOUS
<1> DEFINE verdicts == {Evaluate(scheme, q, r) : q \in asked, r \in stored}
<1>3. stored = {d \in Records(batches) : <<d.office, d.number>> = <<p[1], p[2]>>}
  BY <1>1 DEF Kinds
<1>4. result = CASE verdicts = {}        -> "not_retrieved"
                 [] "match" \in verdicts -> "found"
                 [] verdicts = {"no"}    -> "missed"
                 [] OTHER                -> "perhaps_missed"
  BY <1>1, <1>2, <1>3, SMT DEF ClassifyRecall
<1>5. \A x : x \in verdicts <=> \E q \in asked, r \in stored : x = Evaluate(scheme, q, r)
  BY ONLY SMT
<1> HIDE DEF verdicts
<1>6. /\ result = "not_retrieved" <=> verdicts = {}
      /\ result = "found" => "match" \in verdicts
      /\ result = "missed" => verdicts = {"no"}
  BY <1>4
<1>7. verdicts = {} <=> asked = {} \/ stored = {}
  BY <1>5
<1>8. "match" \in verdicts => \E q \in asked, r \in stored : Evaluate(scheme, q, r) = "match"
  BY <1>5
<1>9. verdicts = {"no"} => \A q \in asked, r \in stored : Evaluate(scheme, q, r) = "no"
  BY <1>5
<1>10. /\ result = "not_retrieved" <=> asked = {} \/ stored = {}
       /\ result = "found" => \E q \in asked, r \in stored : Evaluate(scheme, q, r) = "match"
       /\ result = "missed" => \A q \in asked, r \in stored : Evaluate(scheme, q, r) = "no"
  BY <1>6, <1>7, <1>8, <1>9, Zenon
<1> QED
  BY <1>1, <1>2, <1>10, Zenon DEF Said

\* Counts and recall checks are of the queries that were generated from a taxonomy, with the
\* version they were generated with, and record what these evaluate to.
MatchInv ==
  /\ querySet # None =>
       \E content \in Contents : /\ content.version \in DOMAIN Schemes
                                 /\ querySet.version = content.version
                                 /\ querySet.queries = Queries(content)
  /\ querySet = None => counts = {} /\ recalls = {}
  /\ \A row \in counts : Counted(row, querySet)
  /\ \A row \in recalls : Checked(row, querySet)

LEMMA MatchInvInit == MatchingInit => MatchInv
  BY DEF MatchingInit, MatchInv

LEMMA MatchInvNext == MatchInv /\ [MatchingNext]_matchingVars => MatchInv'
<1> SUFFICES ASSUME MatchInv, [MatchingNext]_matchingVars PROVE MatchInv'
  OBVIOUS
<1>1. ASSUME NEW content \in Contents, Generate(content) PROVE MatchInv'
  <2>1. counts' = {} /\ recalls' = {} /\ content.version \in DOMAIN Schemes
    BY <1>1 DEF MatchInv, Generate
  <2>2. querySet'.version = content.version /\ querySet'.queries = Queries(content)
    BY <1>1 DEF Generate
  <2> QED
    BY <2>1, <2>2, Zenon DEF MatchInv
<1>2. ASSUME querySet' = querySet, querySet # None,
             \A row \in counts' : row \in counts \/ Counted(row, querySet),
             \A row \in recalls' : row \in recalls \/ Checked(row, querySet)
      PROVE  MatchInv'
  <2>1. PICK set : set = querySet /\ set = querySet'
    BY <1>2
  <2>2. \A row \in counts' : Counted(row, set)
    BY <1>2, <2>1, Zenon DEF MatchInv
  <2>3. \A row \in recalls' : Checked(row, set)
    BY <1>2, <2>1, Zenon DEF MatchInv
  <2>4. \E content \in Contents : /\ content.version \in DOMAIN Schemes
                                  /\ set.version = content.version
                                  /\ set.queries = Queries(content)
    BY <1>2, <2>1, Zenon DEF MatchInv
  <2> QED
    BY <1>2, <2>1, <2>2, <2>3, <2>4, Zenon DEF MatchInv
<1>3. ASSUME NEW batches, NEW v, Count(batches, v) PROVE MatchInv'
  <2>1. querySet # None /\ querySet' = querySet /\ recalls' = recalls /\ v = querySet.version
    BY <1>3 DEF Count, CheckScheme
  <2> DEFINE is(q, verdict) == {r \in Records(batches) : Evaluate(Schemes[v], q, r) = verdict}
             row(q) == [query |-> q, batches |-> batches, count |-> Cardinality(is(q, "match")),
                        lowerBound |-> is(q, "undecidable") # {}]
  <2>2. counts' = counts \cup {row(q) : q \in querySet.queries}
    BY <1>3, Zenon DEF Count
  <2>3. ASSUME NEW q \in querySet.queries PROVE Counted(row(q), querySet)
    <3>1. PICK x, matching : x = row(q) /\ matching = is(q, "match")
      OBVIOUS
    <3>2. /\ x.query = q /\ x.batches = batches /\ x.count = Cardinality(matching)
          /\ x.lowerBound <=> is(q, "undecidable") # {}
      BY <3>1
    <3>3. matching = {r \in Records(x.batches) :
                        Evaluate(Schemes[querySet.version], x.query, r) = "match"}
      BY <2>1, <3>1, <3>2
    <3>4. ASSUME NEW r \in Records(x.batches),
                 Evaluate(Schemes[querySet.version], x.query, r) = "undecidable"
          PROVE  x.lowerBound
      <4>1. r \in is(q, "undecidable")
        BY <2>1, <3>2, <3>4
      <4> HIDE DEF is
      <4> QED
        BY <3>2, <4>1
    <3> QED
      BY <2>3, <3>1, <3>2, <3>3, <3>4, Zenon DEF Counted
  <2> HIDE DEF row
  <2>4. \A x \in counts' : x \in counts \/ Counted(x, querySet)
    BY <2>2, <2>3
  <2> QED
    BY <1>2, <2>1, <2>4, Zenon
<1>4. ASSUME NEW batches, NEW v, NEW known, Recall(batches, v, known) PROVE MatchInv'
  <2>1. querySet # None /\ querySet' = querySet /\ counts' = counts /\ v = querySet.version
    BY <1>4 DEF Recall, CheckScheme
  <2> DEFINE row == [batches |-> batches,
                     results |-> [i \in DOMAIN known |->
                                    <<known[i], ClassifyRecall(batches, v, known[i])>>]]
  <2>2. recalls' = recalls \cup {row}
    BY <1>4, Zenon DEF Recall
  <2>3. ASSUME NEW i \in DOMAIN known
        PROVE  Said(querySet, batches, known[i], ClassifyRecall(batches, v, known[i]))
    BY <2>1, ClassifyRecallIs
  <2>4. PICK x : x = row
    OBVIOUS
  <2>5. /\ x.batches = batches /\ DOMAIN x.results = DOMAIN known
        /\ \A i \in DOMAIN known : /\ x.results[i][1] = known[i]
                                   /\ x.results[i][2] = ClassifyRecall(batches, v, known[i])
    BY <2>4
  <2>6. Checked(x, querySet)
    BY <2>3, <2>5, Zenon DEF Checked
  <2> HIDE DEF row
  <2>7. \A y \in recalls' : y \in recalls \/ Checked(y, querySet)
    BY <2>2, <2>4, <2>6
  <2> QED
    BY <1>2, <2>1, <2>7, Zenon
<1>5. CASE UNCHANGED matchingVars
  BY <1>5 DEF MatchInv, matchingVars
<1> QED
  BY <1>1, <1>3, <1>4, <1>5 DEF MatchingNext

\* Queries have codes of the version that they were generated with.
LEMMA QueriesAreInVersion ==
  ASSUME MatchInv, querySet # None
  PROVE  /\ querySet.version \in DOMAIN Schemes
         /\ \A q \in querySet.queries : q.cpc \subseteq DOMAIN Schemes[querySet.version]
<1>1. PICK content \in Contents : /\ content.version \in DOMAIN Schemes
                                  /\ querySet.version = content.version
                                  /\ querySet.queries = Queries(content)
  BY Zenon DEF MatchInv
<1>2. ASSUME NEW q \in Queries(content) PROVE q.cpc \subseteq DOMAIN Schemes[content.version]
  <2>1. PICK s \in content.segments : q.cpc = {} \/ q.cpc = s.cpc
    BY QueriesOfSegments
  <2>2. s.cpc \subseteq DOMAIN Schemes[content.version]
    BY <1>1, MatchingAssumption, Zenon
  <2> QED
    BY <2>1, <2>2
<1> QED
  BY <1>1, <1>2

LEMMA InvGivesRenderings == MatchInv => RenderingsAgree
<1> SUFFICES ASSUME MatchInv, NEW row \in counts, NEW r \in Records(row.batches),
                    r.cpc # {}, r.cpc \subseteq DOMAIN Schemes[querySet.version]
             PROVE  /\ LensCodes(Schemes[querySet.version], row.query, r.cpc)
                         <=> CodesVerdict(Schemes[querySet.version], row.query, r) = "yes"
                    /\ SqlCodes(Schemes[querySet.version], row.query, r.cpc)
                         <=> CodesVerdict(Schemes[querySet.version], row.query, r) = "yes"
  BY Zenon DEF RenderingsAgree
<1>1. PICK v, q : v = querySet.version /\ q = row.query
  OBVIOUS
<1>2. v \in DOMAIN Schemes /\ q.cpc \subseteq DOMAIN Schemes[v]
  BY <1>1, QueriesAreInVersion DEF MatchInv, Counted
<1>3. PICK scheme : scheme = Schemes[v]
  OBVIOUS
<1>4. PICK rank : Ranked(scheme, rank)
  BY <1>2, <1>3, SchemeIsRanked
<1>5. \A c \in r.cpc : c[2] # 0
  BY MatchingAssumption DEF Records
<1>6. r.cpc # {} /\ r.cpc \subseteq DOMAIN scheme /\ q.cpc \subseteq DOMAIN scheme
  BY <1>1, <1>2, <1>3
<1>7. /\ LensCodes(scheme, q, r.cpc) <=> CodesVerdict(scheme, q, r) = "yes"
      /\ SqlCodes(scheme, q, r.cpc) <=> CodesVerdict(scheme, q, r) = "yes"
  BY <1>4, <1>5, <1>6, RenderingsAre
<1> QED
  BY <1>1, <1>3, <1>7

\* The renderings that list codes and the local evaluation agree on every counted record whose
\* codes the version has, for every title list, taxonomy and set of records (expand_codes,
\* to_lens_json, to_bigquery_sql and is_within).
THEOREM RenderingsAreAlike == MatchingSpec => []RenderingsAgree
<1>1. MatchingSpec => []MatchInv
  BY MatchInvInit, MatchInvNext, PTL DEF MatchingSpec
<1> QED
  BY <1>1, InvGivesRenderings, PTL

LEMMA InvGivesCounts == MatchInv => CountsAreBounds
<1> SUFFICES ASSUME MatchInv, NEW row \in counts
             PROVE  /\ row.count <= Cardinality({r \in Records(row.batches) : Surely(row.query, r)})
                    /\ ~ row.lowerBound =>
                         row.count = Cardinality({r \in Records(row.batches) : Possibly(row.query, r)})
  BY Zenon DEF CountsAreBounds
<1>1. PICK records, q : records = Records(row.batches) /\ q = row.query
  OBVIOUS
<1> DEFINE verdict(r) == Evaluate(Schemes[querySet.version], q, r)
           matching == {r \in records : verdict(r) = "match"}
           sure == {r \in records : Surely(q, r)}
           possible == {r \in records : Possibly(q, r)}
<1>2. querySet # None /\ Counted(row, querySet)
  BY Zenon DEF MatchInv
<1>3. /\ querySet.version \in DOMAIN Schemes
      /\ q \in querySet.queries /\ q.cpc \subseteq DOMAIN Schemes[querySet.version]
  BY <1>1, <1>2, QueriesAreInVersion DEF Counted
<1>4. row.count = Cardinality(matching) /\ \A r \in records : verdict(r) = "undecidable" => row.lowerBound
  BY <1>1, <1>2, Zenon DEF Counted
<1>5. records \subseteq Stored
  BY <1>1 DEF Records
<1>6. ASSUME NEW r \in records
      PROVE  /\ verdict(r) \in {"match", "no", "undecidable"}
             /\ verdict(r) = "match" => Surely(q, r) /\ Possibly(q, r)
             /\ verdict(r) = "no" => ~ Possibly(q, r)
  BY <1>3, <1>5, EvaluationIs, Zenon
<1>7. IsFiniteSet(sure)
  <2>1. IsFiniteSet(Stored)
    BY MatchingAssumption, Zenon
  <2>2. sure \in SUBSET Stored
    BY <1>5
  <2> QED
    BY <2>1, <2>2, FS_Subset
<1> HIDE DEF verdict
<1>8. Cardinality(matching) <= Cardinality(sure)
  <2>1. matching \in SUBSET sure
    BY <1>6
  <2> HIDE DEF matching, sure
  <2> QED
    BY <1>7, <2>1, FS_Subset
<1>9. ASSUME ~ row.lowerBound PROVE matching = possible
  BY <1>4, <1>6, <1>9
<1> QED
  BY <1>1, <1>4, <1>8, <1>9, Zenon

\* A recorded count is what it says, for every title list, taxonomy and set of records in which
\* groups are numbered as is_within takes them to be: every record it counts does match, whatever
\* is missing, and unless it is a lower bound no other record could (count_locally,
\* LocalMatcher.evaluate, CpcScheme.is_within).
THEOREM CountsNeverGuess == MatchingSpec => []CountsAreBounds
<1>1. MatchingSpec => []MatchInv
  BY MatchInvInit, MatchInvNext, PTL DEF MatchingSpec
<1> QED
  BY <1>1, InvGivesCounts, PTL

LEMMA InvGivesRecall == MatchInv => RecallIsHonest
<1> SUFFICES ASSUME MatchInv, NEW row \in recalls, NEW i \in DOMAIN row.results
             PROVE  LET p == row.results[i][1]
                        result == row.results[i][2]
                        stored == {d \in Records(row.batches) : d.office = p[1] /\ d.number = p[2]}
                        segments == {q.segment : q \in querySet.queries}
                        query(s) == CHOOSE q \in querySet.queries :
                                      /\ q.segment = s /\ q.phrases # {}
                                      /\ q.cpc = UNION {o.cpc : o \in {x \in querySet.queries : x.segment = s}}
                    IN /\ result = "not_retrieved" <=> stored = {}
                       /\ result = "found" => \E s \in segments, r \in stored : Surely(query(s), r)
                       /\ result = "missed" => \A s \in segments, r \in stored : ~Possibly(query(s), r)
  BY Zenon DEF RecallIsHonest
<1>1. PICK p, result, batches : p = row.results[i][1] /\ result = row.results[i][2] /\ batches = row.batches
  OBVIOUS
<1> DEFINE qs == querySet.queries
           query(s) == CHOOSE q \in qs :
                         /\ q.segment = s /\ q.phrases # {}
                         /\ q.cpc = UNION {o.cpc : o \in {x \in qs : x.segment = s}}
           segments == {q.segment : q \in qs}
           stored == {d \in Records(batches) : d.office = p[1] /\ d.number = p[2]}
<1>2. querySet # None /\ Said(querySet, batches, p, result)
  BY <1>1, Zenon DEF MatchInv, Checked
<1>3. PICK content \in Contents : /\ querySet.version = content.version
                                  /\ querySet.queries = Queries(content)
  BY <1>2, Zenon DEF MatchInv
<1>4. /\ querySet.version \in DOMAIN Schemes
      /\ \A q \in querySet.queries : q.cpc \subseteq DOMAIN Schemes[querySet.version]
  BY <1>2, QueriesAreInVersion
<1>5. PICK asked : asked = SearchQueries(Queries(content))
  OBVIOUS
<1>6. stored = Kinds(batches, p) /\ stored \subseteq Stored
  BY DEF Kinds, Records
<1>7. ASSUME NEW s \in content.segments
      PROVE  query(s.id) = SearchQueryOf(s) /\ SearchQueryOf(s) \in asked
  <2>1. query(s.id) = SearchQueryOf(s)
    BY <1>3, SearchQueryIsTheOnly, Zenon
  <2>2. SearchQueryOf(s) \in asked
    BY <1>5, SearchQueriesAre, Zenon
  <2> QED
    BY <2>1, <2>2
<1>8. /\ \A s \in content.segments : s.id \in segments
      /\ \A s \in segments : \E t \in content.segments : s = t.id
  <2>1. ASSUME NEW s \in content.segments PROVE s.id \in segments
    <3>1. SearchQueryOf(s) \in qs /\ SearchQueryOf(s).segment = s.id
      BY <1>3, SearchQueryIs, Zenon
    <3> QED
      BY <3>1
  <2>2. ASSUME NEW q \in qs PROVE \E t \in content.segments : q.segment = t.id
    BY <1>3, <2>2, QueriesOfSegments
  <2> QED
    BY <2>1, <2>2
<1>9. content.segments # {}
  BY MatchingAssumption, Zenon
<1>10. ASSUME NEW q \in asked PROVE q.cpc \subseteq DOMAIN Schemes[querySet.version]
  BY <1>3, <1>4, <1>5 DEF SearchQueries
<1>11. ASSUME NEW q \in asked, NEW r \in stored
       PROVE  /\ Evaluate(Schemes[querySet.version], q, r) = "match" => Surely(q, r)
              /\ Evaluate(Schemes[querySet.version], q, r) = "no" => ~ Possibly(q, r)
  BY <1>4, <1>6, <1>10, EvaluationIs, Zenon
<1> HIDE DEF query, segments, stored
<1>12. /\ result = "not_retrieved" <=> asked = {} \/ stored = {}
       /\ result = "found" =>
            \E q \in asked, r \in stored : Evaluate(Schemes[querySet.version], q, r) = "match"
       /\ result = "missed" =>
            \A q \in asked, r \in stored : Evaluate(Schemes[querySet.version], q, r) = "no"
  BY <1>2, <1>3, <1>5, <1>6, Zenon DEF Said
<1>13. result = "not_retrieved" <=> stored = {}
  BY <1>7, <1>9, <1>12
<1>14. ASSUME result = "found" PROVE \E s \in segments, r \in stored : Surely(query(s), r)
  <2>1. PICK q \in asked, r \in stored : Evaluate(Schemes[querySet.version], q, r) = "match"
    BY <1>12, <1>14
  <2>2. PICK s \in content.segments : q = SearchQueryOf(s)
    BY <1>5, <2>1, SearchQueriesAre
  <2>3. q = query(s.id) /\ s.id \in segments /\ Surely(q, r)
    BY <1>7, <1>8, <1>11, <2>1, <2>2
  <2> QED
    BY <2>3
<1>15. ASSUME result = "missed", NEW s \in segments, NEW r \in stored PROVE ~ Possibly(query(s), r)
  <2>1. PICK t \in content.segments : s = t.id
    BY <1>8
  <2>2. query(s) \in asked
    BY <1>7, <2>1
  <2> QED
    BY <1>11, <1>12, <1>15, <2>2, Zenon
<1> QED
  BY <1>1, <1>13, <1>14, <1>15, Zenon DEF query, segments, stored

\* A recall check does not mislead, for every title list, taxonomy and set of records in which
\* groups are numbered as is_within takes them to be: what is "found" is found by the query of a
\* segment, with its codes if it has any, whatever is missing, and what is "missed" would be
\* missed in every stored kind whatever the missing data said (check_recall, classify_recall,
\* search_matchers).
THEOREM RecallsAreHonest == MatchingSpec => []RecallIsHonest
<1>1. MatchingSpec => []MatchInv
  BY MatchInvInit, MatchInvNext, PTL DEF MatchingSpec
<1> QED
  BY <1>1, InvGivesRecall, PTL
=============================================================================
