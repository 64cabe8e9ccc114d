---------------------------- MODULE GatewayEmbed ----------------------------
(***************************************************************************)
(* Embedding calls through the model gateway                               *)
(* (src/patsquire_plr/gateway/gateway.py, embed).                          *)
(*                                                                         *)
(* A call is given a list of texts, in which a text may occur twice.  It   *)
(* looks every place of the list up in the cache, sends what is missing in *)
(* chunks, and caches the vectors of each chunk as it arrives, so that a   *)
(* later call repeats nothing that was paid for.  Only when all chunks are *)
(* there does it compare the dimensions.  What is missing is collected by  *)
(* place, so that a text which occurs twice and is not cached is sent, and *)
(* paid for, twice.  A vector is its dimension; the provider may change it *)
(* between two requests (another model behind the same name).  Retries are *)
(* those of module Gateway: a chunk comes or fails.                        *)
(***************************************************************************)
EXTENDS Integers, FiniteSets, Sequences

CONSTANTS
  Caller,
  Text,
  Lists,      \* the lists of texts that calls are given
  Dim,        \* dimensions the provider's vectors may have
  ChunkSize,  \* adapter.max_texts_per_request, or as many as are missing
  None

ASSUME EmbedAssumption ==
  /\ Lists \subseteq Seq(Text) \ {<<>>}
  /\ ChunkSize \in Nat \ {0}
  /\ None \notin Dim

VARIABLES
  cache,    \* llm_cache: the vector of each text's key
  pc,       \* where each caller is
  texts,    \* the list of each call
  looked,   \* how many places of it have been looked up
  vectors,  \* the vectors the call has, by place
  chunk,    \* the places of the request in flight, then those still to be cached
  received, \* history: places whose vector the current call got from the provider
  known     \* history: texts that were cached when the call began and may be used

vars == <<cache, pc, texts, looked, vectors, chunk, received, known>>

Init ==
  /\ cache = [t \in Text |-> None]
  /\ pc = [c \in Caller |-> "idle"]
  /\ texts = [c \in Caller |-> <<>>]
  /\ looked = [c \in Caller |-> 0]
  /\ vectors = [c \in Caller |-> <<>>]
  /\ chunk = [c \in Caller |-> {}]
  /\ received = [c \in Caller |-> {}]
  /\ known = [c \in Caller |-> {}]

-----------------------------------------------------------------------------
Goto(c, label) == pc' = [pc EXCEPT ![c] = label]

Places(c) == 1..Len(texts[c])

LookedUp(c) == looked[c] = Len(texts[c])

\* Mutation: a call that is not answered from the cache alone sends its whole list.
Missing_All(c) == IF \E i \in Places(c) : vectors[c][i] = None THEN Places(c) ELSE {}

Missing(c) == {i \in Places(c) : vectors[c][i] = None}

\* The next places to send: the first that are missing.
NextChunk(c) ==
  {i \in Missing(c) : Cardinality({j \in Missing(c) : j < i}) < ChunkSize}

Dims(c) == {vectors[c][i] : i \in Places(c)} \ {None}

\* embed(texts, use_cache=u).
Call(c, T, u) ==
  /\ pc[c] = "idle"
  /\ texts' = [texts EXCEPT ![c] = T]
  /\ vectors' = [vectors EXCEPT ![c] = [i \in 1..Len(T) |-> None]]
  /\ looked' = [looked EXCEPT ![c] = IF u THEN 0 ELSE Len(T)]
  /\ known' = [known EXCEPT ![c] = IF u THEN {t \in Text : cache[t] # None} ELSE {}]
  /\ Goto(c, "looking")
  /\ UNCHANGED <<cache, chunk, received>>

\* One cache lookup (and its log row, when it is a hit).
LookUp(c) ==
  LET i == looked[c] + 1
  IN /\ pc[c] = "looking" /\ ~LookedUp(c)
     /\ looked' = [looked EXCEPT ![c] = i]
     /\ vectors' = [vectors EXCEPT ![c][i] = cache[texts[c][i]]]
     /\ UNCHANGED <<cache, pc, texts, chunk, received, known>>

\* All places are looked up, and what arrived is cached: the next chunk is sent.
SendChunk(c) ==
  /\ pc[c] = "looking" /\ LookedUp(c) /\ Missing(c) # {}
  /\ chunk' = [chunk EXCEPT ![c] = NextChunk(c)]
  /\ Goto(c, "waiting")
  /\ UNCHANGED <<cache, texts, looked, vectors, received, known>>

\* The vectors the call has once those of its chunk are there.
WithChunk(c, d) == [i \in Places(c) |-> IF i \in chunk[c] THEN d ELSE vectors[c][i]]

\* Mutation: vectors are kept for the result only.
ChunkArrives_NotCached(c, d) ==
  /\ pc[c] = "waiting"
  /\ Goto(c, "looking")
  /\ vectors' = [vectors EXCEPT ![c] = WithChunk(c, d)]
  /\ received' = [received EXCEPT ![c] = @ \cup chunk[c]]
  /\ chunk' = [chunk EXCEPT ![c] = {}]
  /\ UNCHANGED <<cache, texts, looked, known>>

\* A vector for every place of the chunk, all of one dimension within a response.
ChunkArrives(c, d) ==
  /\ pc[c] = "waiting"
  /\ Goto(c, "caching")
  /\ vectors' = [vectors EXCEPT ![c] = WithChunk(c, d)]
  /\ received' = [received EXCEPT ![c] = @ \cup chunk[c]]
  /\ UNCHANGED <<cache, texts, looked, chunk, known>>

\* The request fails for good, or the response has the wrong number of vectors.
ChunkFails(c) ==
  /\ pc[c] = "waiting"
  /\ Goto(c, "raised")
  /\ UNCHANGED <<cache, texts, looked, vectors, chunk, received, known>>

\* put_cached for the next vector of the chunk; of a text the first stored vector wins.
PutOne(c, i) ==
  LET t == texts[c][i]
  IN /\ pc[c] = "caching" /\ i \in chunk[c] /\ \A j \in chunk[c] : i <= j
     /\ cache' = [cache EXCEPT ![t] = IF @ = None THEN vectors[c][i] ELSE @]
     /\ chunk' = [chunk EXCEPT ![c] = @ \ {i}]
     /\ Goto(c, IF chunk[c] = {i} THEN "looking" ELSE "caching")
     /\ UNCHANGED <<texts, looked, vectors, received, known>>

\* The vectors are all there; their dimensions must agree.
Check(c) ==
  /\ pc[c] = "looking" /\ LookedUp(c) /\ Missing(c) = {}
  /\ Goto(c, IF Cardinality(Dims(c)) = 1 THEN "returned" ELSE "mismatch")
  /\ UNCHANGED <<cache, texts, looked, vectors, chunk, received, known>>

\* The call is over: with a result, an exception, or because the process died (external).
Finish(c) ==
  /\ pc[c] # "idle"
  /\ Goto(c, "idle")
  /\ texts' = [texts EXCEPT ![c] = <<>>] /\ looked' = [looked EXCEPT ![c] = 0]
  /\ vectors' = [vectors EXCEPT ![c] = <<>>] /\ chunk' = [chunk EXCEPT ![c] = {}]
  /\ received' = [received EXCEPT ![c] = {}] /\ known' = [known EXCEPT ![c] = {}]
  /\ UNCHANGED cache

Act(c) ==
  \/ \E T \in Lists, u \in BOOLEAN : Call(c, T, u)
  \/ LookUp(c) \/ SendChunk(c) \/ ChunkFails(c) \/ Check(c) \/ Finish(c)
  \/ \E d \in Dim : ChunkArrives(c, d)
  \/ \E i \in chunk[c] : PutOne(c, i)

Next == \E c \in Caller : Act(c)

Spec == Init /\ [][Next]_vars

-----------------------------------------------------------------------------
(* Properties *)

\* Of a call that fails half-way, nothing that was paid for is lost: every vector it got
\* is cached, but for those of the chunk it was just caching.
PaidVectorsAreKept ==
  \A c \in Caller : \A i \in received[c] \ chunk[c] : cache[texts[c][i]] # None

\* A call that is made again after one that failed, died or was overtaken pays for the
\* rest only: it sends no text that was cached when it began, and no place of its list
\* twice.  (A text that occurs twice in the list may be sent twice.)
OnlyTheRestIsSent ==
  \A c \in Caller : pc[c] = "waiting" =>
    \A i \in chunk[c] : i \notin received[c] /\ texts[c][i] \notin known[c]

=============================================================================
