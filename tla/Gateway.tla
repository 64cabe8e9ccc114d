------------------------------- MODULE Gateway -------------------------------
(***************************************************************************)
(* Chat calls through the model gateway: cache, rate limit, retries,       *)
(* validation with repair turns, call log                                  *)
(* (src/patsquire_plr/gateway/gateway.py and store.py).                    *)
(*                                                                         *)
(* Any number of callers, in one process or several, make calls with the   *)
(* same cache key at the same time; calls with different keys share only   *)
(* the log and the limiter.  structured() validates what it gets; text()   *)
(* is the case in which every reply is valid and the cache is always used. *)
(* The limiter is module RateLimiter; here a permit comes sooner or later. *)
(***************************************************************************)
EXTENDS Naturals

CONSTANTS
  Caller,
  Reply,            \* texts the model may answer with
  Valid,            \* those that pass validation against the output model
  MaxRetries,       \* backend.max_retries
  MaxSchemaRetries, \* role_cfg.max_schema_retries
  None,
  MaxCalls          \* bound: calls each caller makes

ASSUME GatewayAssumption ==
  /\ Valid \subseteq Reply /\ None \notin Reply \cup Caller
  /\ MaxRetries \in Nat /\ MaxSchemaRetries \in Nat /\ MaxCalls \in Nat

VARIABLES
  cache,    \* the llm_cache row of the key
  logged,   \* rows of llm_call, of each kind, about each caller's current call
  pc,       \* where each caller is
  attempt,  \* loop variable of _with_retries
  turn,     \* loop variable of structured
  response, \* the reply being judged or stored
  result,   \* what the call returned
  sent,     \* requests of the current call the provider has received
  warm,     \* history: the call uses the cache and found the key present when it began
  calls     \* history: calls each caller has begun

counters == <<attempt, turn, sent, logged>>
vars == <<cache, pc, counters, response, result, warm, calls>>

NoRows == [kind \in {"hit", "answer", "error", "verdict"} |-> 0]

Init ==
  /\ cache = None
  /\ pc = [c \in Caller |-> "idle"]
  /\ attempt = [c \in Caller |-> 0] /\ turn = [c \in Caller |-> 0]
  /\ sent = [c \in Caller |-> 0] /\ logged = [c \in Caller |-> NoRows]
  /\ response = [c \in Caller |-> None] /\ result = [c \in Caller |-> None]
  /\ warm = [c \in Caller |-> FALSE] /\ calls = [c \in Caller |-> 0]

-----------------------------------------------------------------------------
(* Helpers *)

Goto(c, label) == pc' = [pc EXCEPT ![c] = label]

\* log_call: one row, committed at once.
Log(c, k) == logged' = [logged EXCEPT ![c][k] = @ + 1]

-----------------------------------------------------------------------------
(* Actions *)

\* structured(use_cache=u); the first repair turn and the first attempt.
Call(c, u) ==
  /\ pc[c] = "idle" /\ calls[c] < MaxCalls
  /\ Goto(c, IF u THEN "looking" ELSE "asking")
  /\ attempt' = [attempt EXCEPT ![c] = 1] /\ turn' = [turn EXCEPT ![c] = 1]
  /\ sent' = [sent EXCEPT ![c] = 0] /\ logged' = [logged EXCEPT ![c] = NoRows]
  /\ warm' = [warm EXCEPT ![c] = u /\ cache # None]
  /\ calls' = [calls EXCEPT ![c] = @ + 1]
  /\ UNCHANGED <<cache, response, result>>

Hit(c) ==
  /\ pc[c] = "looking" /\ cache # None
  /\ Log(c, "hit")
  /\ result' = [result EXCEPT ![c] = cache]
  /\ Goto(c, "returned")
  /\ UNCHANGED <<cache, attempt, turn, sent, response, warm, calls>>

Miss(c) ==
  /\ pc[c] = "looking" /\ cache = None
  /\ Goto(c, "asking")
  /\ UNCHANGED <<cache, counters, response, result, warm, calls>>

\* The limiter lets the request through.
Send(c) ==
  /\ pc[c] = "asking"
  /\ sent' = [sent EXCEPT ![c] = @ + 1]
  /\ Goto(c, "waiting")
  /\ UNCHANGED <<cache, attempt, turn, logged, response, result, warm, calls>>

\* The provider replies.
Answer(c, x) ==
  /\ pc[c] = "waiting"
  /\ Log(c, "answer")
  /\ response' = [response EXCEPT ![c] = x]
  /\ Goto(c, "judging")
  /\ UNCHANGED <<cache, attempt, turn, sent, result, warm, calls>>

\* Mutations: only the last error is logged; one retry too many.
RetryableError_LogLast(c) ==
  /\ pc[c] = "waiting"
  /\ IF attempt[c] > MaxRetries
     THEN Goto(c, "raised") /\ Log(c, "error") /\ UNCHANGED attempt
     ELSE Goto(c, "asking") /\ attempt' = [attempt EXCEPT ![c] = @ + 1] /\ UNCHANGED logged
  /\ UNCHANGED <<cache, turn, sent, response, result, warm, calls>>

RetryableError_OneMore(c) ==
  /\ pc[c] = "waiting"
  /\ Log(c, "error")
  /\ IF attempt[c] > MaxRetries + 1
     THEN Goto(c, "raised") /\ UNCHANGED attempt
     ELSE Goto(c, "asking") /\ attempt' = [attempt EXCEPT ![c] = @ + 1]
  /\ UNCHANGED <<cache, turn, sent, response, result, warm, calls>>

\* A retryable error: after a pause the request is sent again, max_retries times at most.
RetryableError(c) ==
  /\ pc[c] = "waiting"
  /\ Log(c, "error")
  /\ IF attempt[c] > MaxRetries
     THEN Goto(c, "raised") /\ UNCHANGED attempt
     ELSE Goto(c, "asking") /\ attempt' = [attempt EXCEPT ![c] = @ + 1]
  /\ UNCHANGED <<cache, turn, sent, response, result, warm, calls>>

\* A permanent or unclassified error is never retried.
PermanentError(c) ==
  /\ pc[c] = "waiting"
  /\ Log(c, "error")
  /\ Goto(c, "raised")
  /\ UNCHANGED <<cache, attempt, turn, sent, response, result, warm, calls>>

Accept_IfFirst(c) ==
  /\ pc[c] = "judging" /\ response[c] \in Valid /\ cache = None
  /\ cache' = response[c]
  /\ result' = [result EXCEPT ![c] = response[c]]
  /\ response' = [response EXCEPT ![c] = None]
  /\ Goto(c, "returned")
  /\ UNCHANGED <<counters, warm, calls>>

\* The reply validates: put_cached keeps the row that is there, and the caller gets the
\* reply it has validated itself.
Accept(c) ==
  /\ pc[c] = "judging" /\ response[c] \in Valid
  /\ cache' = IF cache = None THEN response[c] ELSE cache
  /\ result' = [result EXCEPT ![c] = response[c]]
  /\ response' = [response EXCEPT ![c] = None]
  /\ Goto(c, "returned")
  /\ UNCHANGED <<counters, warm, calls>>

\* It does not: a verdict is logged, and a repair turn begins unless there were enough.
Reject(c) ==
  /\ pc[c] = "judging" /\ response[c] \notin Valid
  /\ Log(c, "verdict")
  /\ response' = [response EXCEPT ![c] = None]
  /\ IF turn[c] > MaxSchemaRetries
     THEN Goto(c, "raised") /\ UNCHANGED <<turn, attempt>>
     ELSE /\ Goto(c, "asking")
          /\ turn' = [turn EXCEPT ![c] = @ + 1]
          /\ attempt' = [attempt EXCEPT ![c] = 1]
  /\ UNCHANGED <<cache, sent, result, warm, calls>>

\* The caller has its result or its exception.
Finish(c) ==
  /\ pc[c] \in {"returned", "raised"}
  /\ Goto(c, "idle")
  /\ result' = [result EXCEPT ![c] = None]
  /\ warm' = [warm EXCEPT ![c] = FALSE]
  /\ attempt' = [attempt EXCEPT ![c] = 0] /\ turn' = [turn EXCEPT ![c] = 0]
  /\ sent' = [sent EXCEPT ![c] = 0] /\ logged' = [logged EXCEPT ![c] = NoRows]
  /\ UNCHANGED <<cache, response, calls>>

\* The process dies, or the database fails (external), at any point of a call.
Fail(c) ==
  /\ pc[c] \notin {"idle", "returned", "raised"}
  /\ response' = [response EXCEPT ![c] = None]
  /\ Goto(c, "idle")
  /\ warm' = [warm EXCEPT ![c] = FALSE]
  /\ attempt' = [attempt EXCEPT ![c] = 0] /\ turn' = [turn EXCEPT ![c] = 0]
  /\ sent' = [sent EXCEPT ![c] = 0] /\ logged' = [logged EXCEPT ![c] = NoRows]
  /\ UNCHANGED <<cache, result, calls>>

Step(c) ==
  \/ Hit(c) \/ Miss(c) \/ Send(c)
  \/ (\E x \in Reply : Answer(c, x)) \/ RetryableError(c) \/ PermanentError(c)
  \/ Accept(c) \/ Reject(c) \/ Finish(c)

Next == \E c \in Caller : (\E u \in BOOLEAN : Call(c, u)) \/ Step(c) \/ Fail(c)

Spec == Init /\ [][Next]_vars

\* Callers go on, the limiter serves them and every request is answered or times out.
FairSpec == Spec /\ \A c \in Caller : WF_vars(Step(c))

-----------------------------------------------------------------------------
(* Properties *)

\* The log tells what a call did: every request the provider received has its row when the
\* call goes on, retries and repair turns included, and a call that returns has either
\* one hit or one answer more than verdicts against an answer.
LogTellsCall ==
  \A c \in Caller :
    /\ sent[c] = logged[c]["answer"] + logged[c]["error"] + (IF pc[c] = "waiting" THEN 1 ELSE 0)
    /\ pc[c] = "returned" =>
         /\ logged[c]["hit"] + logged[c]["answer"] = logged[c]["verdict"] + 1
         /\ logged[c]["hit"] = 1 => sent[c] = 0

\* A call never sends more requests than the retries and repair turns allow, in whatever
\* order errors and invalid replies come.
RequestsBounded ==
  \A c \in Caller : sent[c] <= (MaxRetries + 1) * (MaxSchemaRetries + 1)

\* A reply is paid for once: a call that uses the cache and begins when the key is there
\* sends no request.
NoRepeatedRequest == \A c \in Caller : warm[c] => sent[c] = 0

\* Every call ends, with a result or an exception.
CallsEnd == \A c \in Caller : pc[c] # "idle" ~> pc[c] = "idle"

=============================================================================
