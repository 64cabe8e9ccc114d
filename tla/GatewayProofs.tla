---------------------------- MODULE GatewayProofs ----------------------------
(***************************************************************************)
(* Proofs about Gateway, for any callers, replies, validators and numbers  *)
(* of retries.  The argument: where a call is, together with its two loop  *)
(* variables, tells how many requests it has sent and which rows it has    *)
(* logged; and nothing ever takes a row out of the cache.                  *)
(***************************************************************************)
EXTENDS Gateway, Integers, TLAPS

Labels == {"idle", "looking", "asking", "waiting", "judging", "returned", "raised"}
Kind == {"hit", "answer", "error", "verdict"}
Rows == [Kind -> Nat]

TypeOK ==
  /\ cache \in Reply \cup {None}
  /\ pc \in [Caller -> Labels]
  /\ attempt \in [Caller -> Nat] /\ turn \in [Caller -> Nat]
  /\ sent \in [Caller -> Nat] /\ logged \in [Caller -> Rows]
  /\ response \in [Caller -> Reply \cup {None}] /\ result \in [Caller -> Reply \cup {None}]
  /\ warm \in [Caller -> BOOLEAN] /\ calls \in [Caller -> Nat]

\* Every request has its row, and what a call has logged by the time it is at a label.
LogOf(c) ==
  LET rows == logged[c]
  IN /\ sent[c] = rows["answer"] + rows["error"] + (IF pc[c] = "waiting" THEN 1 ELSE 0)
     /\ pc[c] \in {"idle", "looking"} => sent[c] = 0 /\ rows["hit"] = 0 /\ rows["verdict"] = 0
     /\ pc[c] \in {"asking", "waiting"} => rows["hit"] = 0 /\ rows["answer"] = rows["verdict"]
     /\ pc[c] = "judging" => rows["hit"] = 0 /\ rows["answer"] = rows["verdict"] + 1
     /\ pc[c] = "returned" => /\ rows["hit"] + rows["answer"] = rows["verdict"] + 1
                              /\ rows["hit"] = 1 => sent[c] = 0

\* Requests of the turns before turn t, at most.
Before(t) == (t - 1) * (MaxRetries + 1)

\* The loop variables bound the requests: a turn sends one per attempt.
Loops(c) ==
  /\ pc[c] # "idle" => attempt[c] \in 1..(MaxRetries + 1) /\ turn[c] \in 1..(MaxSchemaRetries + 1)
  /\ pc[c] = "idle" => sent[c] = 0
  /\ pc[c] = "asking" => sent[c] <= Before(turn[c]) + attempt[c] - 1
  /\ pc[c] # "idle" => sent[c] <= Before(turn[c]) + attempt[c]

\* A call that was warm when it began is answered from the cache.
Warm(c) == warm[c] => cache # None /\ sent[c] = 0 /\ pc[c] \in {"looking", "returned"}

\* What is cached, and what a call returns, passed validation.
CacheIsValid == cache # None => cache \in Valid
ResultsAreValid == \A c \in Caller : pc[c] = "returned" => result[c] \in Valid

IInv == /\ TypeOK /\ CacheIsValid /\ ResultsAreValid
        /\ \A c \in Caller : LogOf(c) /\ Loops(c) /\ Warm(c)

\* A cached reply is never replaced or removed.
FirstStays == [][cache # None => cache' = cache]_vars

-----------------------------------------------------------------------------
(* Arithmetic *)

LEMMA FirstTurn == Before(1) = 0
BY GatewayAssumption DEF Before

LEMMA NextTurn ==
  ASSUME NEW t \in Nat
  PROVE  Before(t + 1) = Before(t) + MaxRetries + 1 /\ Before(t) \in Int
BY GatewayAssumption DEF Before

LEMMA BeforeIsNat ==
  ASSUME NEW t \in Nat \ {0}
  PROVE  Before(t) \in Nat
<1>1. t - 1 \in Nat /\ MaxRetries + 1 \in Nat
  BY GatewayAssumption
<1> QED
  BY <1>1 DEF Before

LEMMA LastTurn ==
  ASSUME NEW t \in 1..(MaxSchemaRetries + 1)
  PROVE  Before(t) + MaxRetries + 1 <= (MaxRetries + 1) * (MaxSchemaRetries + 1)
<1> DEFINE m == MaxRetries + 1
           left == MaxSchemaRetries + 1 - t
<1>1. m \in Nat /\ left \in Nat /\ t - 1 \in Nat /\ m = MaxRetries + 1
  BY GatewayAssumption
<1>2. MaxSchemaRetries + 1 = (t - 1) + left + 1
  BY GatewayAssumption
<1>3. Before(t) = (t - 1) * m /\ Before(t) + MaxRetries + 1 = (t - 1) * m + m
  BY GatewayAssumption DEF Before
<1> HIDE DEF m, left
<1>4. m * (MaxSchemaRetries + 1) = (t - 1) * m + left * m + m
  BY <1>1, <1>2
<1>5. left * m \in Nat /\ (t - 1) * m \in Nat
  BY <1>1
<1>6. (t - 1) * m + m <= m * (MaxSchemaRetries + 1)
  BY <1>1, <1>4, <1>5
<1>7. m * (MaxSchemaRetries + 1) = (MaxRetries + 1) * (MaxSchemaRetries + 1)
  BY <1>1
<1> QED
  BY <1>3, <1>6, <1>7

-----------------------------------------------------------------------------
(* The inductive invariant *)

LEMMA InitInvariant == Init => IInv
BY GatewayAssumption
   DEF Init, IInv, TypeOK, Labels, Rows, Kind, NoRows, CacheIsValid, ResultsAreValid, LogOf, Loops, Warm

LEMMA LogType ==
  ASSUME TypeOK, NEW c \in Caller, NEW k \in Kind, Log(c, k)
  PROVE  /\ logged' \in [Caller -> Rows]
         /\ \A d \in Caller \ {c} : logged'[d] = logged[d]
         /\ logged'[c][k] = logged[c][k] + 1
         /\ \A j \in Kind \ {k} : logged'[c][j] = logged[c][j]
BY DEF TypeOK, Rows, Log

LEMMA TypeStep == IInv /\ [Next]_vars => TypeOK'
<1> SUFFICES ASSUME IInv, [Next]_vars PROVE TypeOK'
  OBVIOUS
<1> USE GatewayAssumption DEF IInv, TypeOK, Labels, Goto, Kind
<1>1. ASSUME NEW c \in Caller, NEW u \in BOOLEAN, Call(c, u) PROVE TypeOK'
  BY <1>1 DEF Call, NoRows, Rows
<1>2. ASSUME NEW c \in Caller, Step(c) PROVE TypeOK'
  <2>1. CASE Hit(c)
    BY <2>1, LogType DEF Hit
  <2>2. CASE Miss(c)
    BY <2>2 DEF Miss, counters
  <2>3. CASE Send(c)
    BY <2>3 DEF Send
  <2>4. ASSUME NEW x \in Reply, Answer(c, x) PROVE TypeOK'
    BY <2>4, LogType DEF Answer
  <2>5. CASE RetryableError(c)
    BY <2>5, LogType DEF RetryableError
  <2>6. CASE PermanentError(c)
    BY <2>6, LogType DEF PermanentError
  <2>7. CASE Accept(c)
    BY <2>7 DEF Accept, counters
  <2>8. CASE Reject(c)
    BY <2>8, LogType DEF Reject
  <2>9. CASE Finish(c)
    BY <2>9 DEF Finish, NoRows, Rows
  <2> QED
    BY <1>2, <2>1, <2>2, <2>3, <2>4, <2>5, <2>6, <2>7, <2>8, <2>9 DEF Step
<1>3. ASSUME NEW c \in Caller, Fail(c) PROVE TypeOK'
  BY <1>3 DEF Fail, NoRows, Rows
<1>4. CASE UNCHANGED vars
  BY <1>4 DEF vars, counters
<1> QED
  BY <1>1, <1>2, <1>3, <1>4 DEF Next

\* A step of caller c leaves what another caller has alone, and keeps a cached reply.
Same(d) ==
  /\ pc'[d] = pc[d] /\ attempt'[d] = attempt[d] /\ turn'[d] = turn[d] /\ sent'[d] = sent[d]
  /\ logged'[d] = logged[d] /\ result'[d] = result[d] /\ warm'[d] = warm[d]

Keeps(c) == (\A d \in Caller \ {c} : Same(d)) /\ (cache # None => cache' = cache)

Act(c) == (\E u \in BOOLEAN : Call(c, u)) \/ Step(c) \/ Fail(c)

LEMMA Locality ==
  ASSUME TypeOK, NEW c \in Caller, Act(c)
  PROVE  Keeps(c)
<1> USE DEF TypeOK, Labels, Kind, Goto, Keeps, Same, counters
<1>1. ASSUME NEW u \in BOOLEAN, Call(c, u) PROVE Keeps(c)
  BY <1>1 DEF Call
<1>2. CASE Hit(c) \/ Miss(c) \/ Send(c)
  BY <1>2, LogType DEF Hit, Miss, Send
<1>3. ASSUME NEW x \in Reply, Answer(c, x) PROVE Keeps(c)
  BY <1>3, LogType DEF Answer
<1>4. CASE RetryableError(c) \/ PermanentError(c)
  BY <1>4, LogType DEF RetryableError, PermanentError
<1>5. CASE Accept(c) \/ Reject(c)
  BY <1>5, LogType DEF Accept, Reject
<1>6. CASE Finish(c) \/ Fail(c)
  BY <1>6 DEF Finish, Fail
<1> QED
  BY <1>1, <1>2, <1>3, <1>4, <1>5, <1>6 DEF Act, Step

\* What a step does to the caller that takes it.
Own(c) == LogOf(c) /\ Loops(c) /\ Warm(c) /\ (pc[c] = "returned" => result[c] \in Valid)

LEMMA OwnStep ==
  ASSUME IInv, NEW c \in Caller, Act(c)
  PROVE  Own(c)' /\ CacheIsValid'
<1> DEFINE Now ==
      /\ pc[c] \in Labels /\ attempt[c] \in Nat /\ turn[c] \in Nat /\ sent[c] \in Nat
      /\ logged[c]["hit"] \in Nat /\ logged[c]["answer"] \in Nat
      /\ logged[c]["error"] \in Nat /\ logged[c]["verdict"] \in Nat
<1>0. Now /\ Own(c) /\ CacheIsValid /\ cache \in Reply \cup {None} /\ TypeOK
  BY DEF IInv, TypeOK, Rows, Kind, Own, ResultsAreValid
<1> USE GatewayAssumption DEF CacheIsValid, LogOf, Loops, Warm
<1>1. ASSUME NEW u \in BOOLEAN, Call(c, u) PROVE Own(c)' /\ CacheIsValid'
  <2>1. /\ pc'[c] \in {"looking", "asking"} /\ attempt'[c] = 1 /\ turn'[c] = 1 /\ sent'[c] = 0
        /\ logged'[c] = NoRows /\ cache' = cache
    BY <1>0, <1>1 DEF Call, TypeOK, Goto
  <2>2. warm'[c] => cache # None /\ pc'[c] = "looking"
    BY <1>0, <1>1 DEF Call, TypeOK, Goto
  <2>3. /\ logged'[c]["hit"] = 0 /\ logged'[c]["answer"] = 0 /\ logged'[c]["error"] = 0
        /\ logged'[c]["verdict"] = 0
    BY <2>1 DEF NoRows
  <2>4. LogOf(c)'
    BY <2>1, <2>3
  <2>5. Loops(c)'
    BY <2>1, FirstTurn
  <2> QED
    BY <1>0, <2>1, <2>2, <2>4, <2>5 DEF Own
<1>2. CASE Hit(c)
  <2>1. /\ pc[c] = "looking" /\ cache # None /\ pc'[c] = "returned" /\ result'[c] = cache
        /\ UNCHANGED <<cache, attempt, turn, sent, warm>>
    BY <1>0, <1>2 DEF Hit, TypeOK, Goto
  <2>2. /\ logged'[c]["hit"] = logged[c]["hit"] + 1
        /\ \A j \in Kind \ {"hit"} : logged'[c][j] = logged[c][j]
    BY <1>0, <1>2, LogType DEF Hit, Kind
  <2>3. LogOf(c)'
    <3>1. /\ logged[c]["hit"] = 0 /\ logged[c]["answer"] = 0 /\ logged[c]["error"] = 0
          /\ logged[c]["verdict"] = 0 /\ sent[c] = 0
      BY <1>0, <2>1 DEF Own
    <3>2. /\ logged'[c]["hit"] = 1 /\ logged'[c]["answer"] = 0 /\ logged'[c]["error"] = 0
          /\ logged'[c]["verdict"] = 0 /\ sent'[c] = 0
      BY <2>1, <2>2, <3>1 DEF Kind
    <3> QED
      BY <2>1, <3>2
  <2>4. Loops(c)' /\ Warm(c)' /\ CacheIsValid'
    BY <1>0, <2>1 DEF Own
  <2> QED
    BY <1>0, <2>1, <2>3, <2>4 DEF Own
<1>3. CASE Miss(c)
  <2>1. /\ pc[c] = "looking" /\ cache = None /\ pc'[c] = "asking"
        /\ UNCHANGED <<cache, attempt, turn, sent, logged, warm>>
    BY <1>0, <1>3 DEF Miss, TypeOK, Goto, counters
  <2>2. LogOf(c)'
    BY <1>0, <2>1 DEF Own
  <2>3. Loops(c)'
    BY <1>0, <2>1, BeforeIsNat DEF Own
  <2>4. ~warm[c]
    BY <1>0, <2>1 DEF Own
  <2> QED
    BY <1>0, <2>1, <2>2, <2>3, <2>4 DEF Own
<1>4. CASE Send(c)
  <2>1. /\ pc[c] = "asking" /\ pc'[c] = "waiting" /\ sent'[c] = sent[c] + 1
        /\ UNCHANGED <<cache, logged, turn, attempt, warm>>
    BY <1>0, <1>4 DEF Send, TypeOK, Goto
  <2>2. LogOf(c)'
    BY <1>0, <2>1 DEF Own
  <2>3. Loops(c)'
    BY <1>0, <2>1, NextTurn DEF Own
  <2> QED
    BY <1>0, <2>1, <2>2, <2>3 DEF Own
<1>5. ASSUME NEW x \in Reply, Answer(c, x) PROVE Own(c)' /\ CacheIsValid'
  <2>1. /\ pc[c] = "waiting" /\ pc'[c] = "judging"
        /\ UNCHANGED <<cache, sent, turn, attempt, warm>>
    BY <1>0, <1>5 DEF Answer, TypeOK, Goto
  <2>2. /\ logged'[c]["answer"] = logged[c]["answer"] + 1
        /\ \A j \in Kind \ {"answer"} : logged'[c][j] = logged[c][j]
    BY <1>0, <1>5, LogType DEF Answer, Kind
  <2> QED
    BY <1>0, <2>1, <2>2, NextTurn DEF Own, Kind
<1>6. CASE RetryableError(c)
  <2>1. /\ pc[c] = "waiting" /\ UNCHANGED <<cache, sent, turn, warm>>
        /\ \/ pc'[c] = "raised" /\ attempt' = attempt
           \/ pc'[c] = "asking" /\ attempt[c] <= MaxRetries /\ attempt'[c] = attempt[c] + 1
    BY <1>0, <1>6 DEF RetryableError, TypeOK, Goto
  <2>2. /\ logged'[c]["error"] = logged[c]["error"] + 1
        /\ \A j \in Kind \ {"error"} : logged'[c][j] = logged[c][j]
    BY <1>0, <1>6, LogType DEF RetryableError, Kind
  <2> QED
    BY <1>0, <2>1, <2>2, NextTurn DEF Own, Kind
<1>7. CASE PermanentError(c)
  <2>1. /\ pc[c] = "waiting" /\ pc'[c] = "raised"
        /\ UNCHANGED <<cache, sent, turn, attempt, warm>>
    BY <1>0, <1>7 DEF PermanentError, TypeOK, Goto
  <2>2. /\ logged'[c]["error"] = logged[c]["error"] + 1
        /\ \A j \in Kind \ {"error"} : logged'[c][j] = logged[c][j]
    BY <1>0, <1>7, LogType DEF PermanentError, Kind
  <2> QED
    BY <1>0, <2>1, <2>2, NextTurn DEF Own, Kind
<1>8. CASE Accept(c)
  <2>1. /\ pc[c] = "judging" /\ pc'[c] = "returned" /\ result'[c] \in Valid
        /\ cache' = cache \/ cache' \in Valid
        /\ UNCHANGED <<sent, logged, turn, attempt, warm>>
    BY <1>0, <1>8 DEF Accept, TypeOK, Goto, counters
  <2> QED
    BY <1>0, <2>1, NextTurn DEF Own
<1>9. CASE Reject(c)
  <2>1. /\ pc[c] = "judging" /\ UNCHANGED <<cache, sent, warm>>
        /\ \/ pc'[c] = "raised" /\ UNCHANGED <<turn, attempt>>
           \/ /\ pc'[c] = "asking" /\ turn[c] <= MaxSchemaRetries
              /\ turn'[c] = turn[c] + 1 /\ attempt'[c] = 1
    BY <1>0, <1>9 DEF Reject, TypeOK, Goto
  <2>2. /\ logged'[c]["verdict"] = logged[c]["verdict"] + 1
        /\ \A j \in Kind \ {"verdict"} : logged'[c][j] = logged[c][j]
    BY <1>0, <1>9, LogType DEF Reject, Kind
  <2> QED
    BY <1>0, <2>1, <2>2, NextTurn DEF Own, Kind
<1>10. CASE Finish(c) \/ Fail(c)
  <2>1. /\ pc'[c] = "idle" /\ sent'[c] = 0 /\ logged'[c] = NoRows /\ warm'[c] = FALSE
        /\ cache' = cache
    BY <1>0, <1>10 DEF Finish, Fail, TypeOK, Goto
  <2> QED
    BY <1>0, <2>1 DEF Own, NoRows
<1> QED
  BY <1>1, <1>2, <1>3, <1>4, <1>5, <1>6, <1>7, <1>8, <1>9, <1>10 DEF Act, Step

\* What a step leaves alone stays true of the other callers.
LEMMA OthersStep ==
  ASSUME IInv, NEW c \in Caller, Act(c), NEW d \in Caller \ {c}
  PROVE  Own(d)'
<1>1. Keeps(c) /\ Own(d)
  BY Locality DEF IInv, Own, ResultsAreValid
<1> QED
  BY <1>1 DEF Keeps, Same, Own, LogOf, Loops, Warm

LEMMA StepInvariant == IInv /\ [Next]_vars => IInv'
<1> SUFFICES ASSUME IInv, [Next]_vars PROVE IInv'
  OBVIOUS
<1>1. TypeOK'
  BY TypeStep
<1>2. (\A d \in Caller : Own(d)') /\ CacheIsValid'
  <2>1. ASSUME NEW c \in Caller, Act(c) PROVE (\A d \in Caller : Own(d)') /\ CacheIsValid'
    BY <2>1, OwnStep, OthersStep
  <2>2. CASE UNCHANGED vars
    BY <2>2 DEF vars, counters, IInv, ResultsAreValid, Own, LogOf, Loops, Warm, CacheIsValid
  <2> QED
    BY <2>1, <2>2 DEF Next, Act
<1> QED
  BY <1>1, <1>2 DEF IInv, Own, ResultsAreValid

\* The inductive invariant holds in every reachable state.
THEOREM GatewayInvariant == Spec => []IInv
BY InitInvariant, StepInvariant, PTL DEF Spec

-----------------------------------------------------------------------------
(* What follows *)

\* Every variable of the callers and the cache stays within its domain.
THEOREM TypeCorrect == Spec => []TypeOK
<1>1. IInv => TypeOK
  BY DEF IInv
<1> QED
  BY <1>1, GatewayInvariant, PTL

\* Every request the provider got has its row when the call goes on, and a call that returns
\* has one hit, or one answer more than verdicts against answers (log_call, structured).
THEOREM LogIsTrue == Spec => []LogTellsCall
<1>1. IInv => LogTellsCall
  BY DEF IInv, LogOf, LogTellsCall
<1> QED
  BY <1>1, GatewayInvariant, PTL

\* However errors and invalid replies alternate, a call sends at most one request for every
\* attempt of every turn (_with_retries inside structured).
THEOREM RequestsAreBounded == Spec => []RequestsBounded
<1>1. IInv => RequestsBounded
  <2> SUFFICES ASSUME IInv, NEW c \in Caller
               PROVE  sent[c] <= (MaxRetries + 1) * (MaxSchemaRetries + 1)
    BY DEF RequestsBounded
  <2>1. sent[c] \in Nat /\ Loops(c)
    BY DEF IInv, TypeOK
  <2>2. CASE pc[c] = "idle"
    <3>1. (MaxRetries + 1) * (MaxSchemaRetries + 1) \in Nat
      BY GatewayAssumption
    <3> QED
      BY <2>1, <2>2, <3>1 DEF Loops
  <2>3. CASE pc[c] # "idle"
    <3>1. /\ turn[c] \in 1..(MaxSchemaRetries + 1) /\ attempt[c] \in 1..(MaxRetries + 1)
          /\ sent[c] <= Before(turn[c]) + attempt[c]
      BY <2>1, <2>3 DEF Loops
    <3>2. Before(turn[c]) + MaxRetries + 1 <= (MaxRetries + 1) * (MaxSchemaRetries + 1)
      BY <3>1, LastTurn
    <3>3. Before(turn[c]) \in Int /\ (MaxRetries + 1) * (MaxSchemaRetries + 1) \in Int
      BY <3>1, GatewayAssumption, NextTurn
    <3> QED
      BY <2>1, <3>1, <3>2, <3>3, GatewayAssumption
  <2> QED
    BY <2>2, <2>3
<1> QED
  BY <1>1, GatewayInvariant, PTL

\* A call that uses the cache and began when the key was there sends no request, whatever
\* other callers do in the meantime (the lookup in structured, put_cached).
THEOREM PaidOnce == Spec => []NoRepeatedRequest
<1>1. IInv => NoRepeatedRequest
  BY DEF IInv, Warm, NoRepeatedRequest
<1> QED
  BY <1>1, GatewayInvariant, PTL

\* Nothing enters the cache, and no call returns anything, that did not pass validation.
THEOREM OnlyValidReplies == Spec => [](CacheIsValid /\ ResultsAreValid)
<1>1. IInv => CacheIsValid /\ ResultsAreValid
  BY DEF IInv
<1> QED
  BY <1>1, GatewayInvariant, PTL

\* The first reply that is cached stays, however many callers missed at once (put_cached).
THEOREM FirstReplyStays == Spec => FirstStays
<1>1. IInv /\ [Next]_vars => [cache # None => cache' = cache]_vars
  <2> SUFFICES ASSUME IInv, Next PROVE cache # None => cache' = cache
    BY DEF vars, counters
  <2>1. PICK c \in Caller : Act(c)
    BY DEF Next, Act
  <2> QED
    BY <2>1, Locality DEF IInv, Keeps
<1> QED
  BY <1>1, GatewayInvariant, PTL DEF Spec, FirstStays

=============================================================================
