----------------------------- MODULE EmbedProofs -----------------------------
(***************************************************************************)
(* Proofs about GatewayEmbed, for any number of callers, texts, dimensions,*)
(* any lists of texts and any size of a chunk.  The argument: a call asks  *)
(* only for places whose vector it lacks; what was cached when it began it *)
(* has once it has looked; and whatever it got is in the cache or at a     *)
(* place it is just caching, since no step takes a vector out of the cache.*)
(***************************************************************************)
EXTENDS GatewayEmbed, TLAPS

Labels == {"idle", "looking", "waiting", "caching", "raised", "returned", "mismatch"}

TypeOK ==
  /\ cache \in [Text -> Dim \cup {None}]
  /\ pc \in [Caller -> Labels]
  /\ texts \in [Caller -> Seq(Text)]
  /\ looked \in [Caller -> Nat]
  /\ chunk \in [Caller -> SUBSET Nat]
  /\ received \in [Caller -> SUBSET Nat]
  /\ known \in [Caller -> SUBSET Text]
  /\ DOMAIN vectors = Caller

\* Everything a call keeps by place is about places of its list.
Shape(c) ==
  /\ vectors[c] \in [Places(c) -> Dim \cup {None}]
  /\ looked[c] <= Len(texts[c])
  /\ chunk[c] \subseteq Places(c) /\ received[c] \subseteq Places(c)

\* Where a call is, and what it has in hand there.
Phase(c) ==
  /\ pc[c] \in {"idle", "looking"} => chunk[c] = {}
  /\ pc[c] = "idle" => received[c] = {}
  /\ pc[c] = "caching" => \A i \in chunk[c] : vectors[c][i] # None
  /\ pc[c] = "waiting" => chunk[c] \subseteq Missing(c)

\* What it got from the provider it has, and it looks nothing up after that.
Got(c) ==
  /\ \A i \in received[c] : vectors[c][i] # None
  /\ received[c] # {} => LookedUp(c)
  /\ pc[c] \in {"waiting", "caching"} => LookedUp(c)

\* What was cached when it began still is, and the call has it as far as it has looked.
Known(c) ==
  /\ \A t \in known[c] : cache[t] # None
  /\ \A i \in 1..looked[c] : texts[c][i] \in known[c] => vectors[c][i] # None

Kept(c) == \A i \in received[c] \ chunk[c] : cache[texts[c][i]] # None

Own(c) == Shape(c) /\ Phase(c) /\ Got(c) /\ Known(c) /\ Kept(c)

IInv == TypeOK /\ \A c \in Caller : Own(c)

\* The vector cached first is never replaced or removed.
FirstVectorStays == [][\A t \in Text : cache[t] # None => cache'[t] = cache[t]]_vars

-----------------------------------------------------------------------------
\* A place of a call's list holds a text.
LEMMA PlaceHoldsText ==
  ASSUME TypeOK, NEW c \in Caller, NEW i \in Places(c)
  PROVE  texts[c][i] \in Text /\ i \in Nat
<1>1. texts[c] \in Seq(Text) /\ i \in 1..Len(texts[c])
  BY DEF TypeOK, Places
<1> QED
  BY <1>1

\* What a step of caller c leaves alone.
Others(c) ==
  \A d \in Caller \ {c} :
    /\ pc'[d] = pc[d] /\ texts'[d] = texts[d] /\ looked'[d] = looked[d]
    /\ vectors'[d] = vectors[d] /\ chunk'[d] = chunk[d] /\ received'[d] = received[d]
    /\ known'[d] = known[d]

CacheGrows == \A t \in Text : cache[t] # None => cache'[t] = cache[t]

LEMMA Locality ==
  ASSUME TypeOK, NEW c \in Caller, Own(c), Act(c)
  PROVE  TypeOK' /\ Others(c) /\ CacheGrows
<1> DEFINE Goal == TypeOK' /\ Others(c) /\ CacheGrows
<1> USE DEF Goto, TypeOK, Labels, Others, CacheGrows
<1>0. /\ Places(c) \subseteq Nat
      /\ \A i \in Places(c) : texts[c][i] \in Text
  BY PlaceHoldsText
<1>1. ASSUME NEW T \in Lists, NEW u \in BOOLEAN, Call(c, T, u) PROVE Goal
  <2>1. T \in Seq(Text) /\ Len(T) \in Nat
    BY EmbedAssumption
  <2> QED
    BY <1>1, <2>1 DEF Call
<1>2. CASE SendChunk(c)
  BY <1>2, <1>0 DEF SendChunk, NextChunk, Missing
<1>3. CASE LookUp(c)
  BY <1>3 DEF LookUp
<1>4. ASSUME NEW i \in chunk[c], PutOne(c, i) PROVE Goal
  <2>1. i \in Places(c) /\ texts[c][i] \in Text
    BY <1>0 DEF Own, Shape
  <2>2. vectors[c][i] \in Dim \cup {None}
    BY <2>1 DEF Own, Shape
  <2>3. cache' = [cache EXCEPT ![texts[c][i]] = IF @ = None THEN vectors[c][i] ELSE @]
    BY <1>4 DEF PutOne
  <2>4. cache' \in [Text -> Dim \cup {None}] /\ CacheGrows
    BY <2>1, <2>2, <2>3
  <2> QED
    BY <1>4, <2>4 DEF PutOne
<1>5. ASSUME NEW d \in Dim, ChunkArrives(c, d) PROVE Goal
  BY <1>5 DEF ChunkArrives
<1>6. CASE ChunkFails(c) \/ Check(c)
  BY <1>6 DEF ChunkFails, Check
<1>7. CASE Finish(c)
  BY <1>7 DEF Finish
<1> QED
  BY <1>1, <1>2, <1>3, <1>4, <1>5, <1>6, <1>7 DEF Act

LEMMA OwnStep ==
  ASSUME IInv, NEW c \in Caller, Act(c)
  PROVE  Own(c)'
<1>0. TypeOK /\ Own(c) /\ CacheGrows
  BY Locality DEF IInv
<1>a. Places(c) \subseteq Nat /\ \A i \in Places(c) : texts[c][i] \in Text
  BY <1>0, PlaceHoldsText
<1>b. Len(texts[c]) \in Nat /\ looked[c] \in Nat
  BY <1>0 DEF TypeOK
<1>1. ASSUME NEW T \in Lists, NEW u \in BOOLEAN, Call(c, T, u) PROVE Own(c)'
  <2>1. /\ pc[c] = "idle" /\ pc'[c] = "looking" /\ texts'[c] = T
        /\ received'[c] = received[c] /\ chunk'[c] = chunk[c] /\ cache' = cache
        /\ looked'[c] = (IF u THEN 0 ELSE Len(T))
        /\ vectors'[c] = [i \in 1..Len(T) |-> None]
        /\ known'[c] = IF u THEN {t \in Text : cache[t] # None} ELSE {}
    BY <1>0, <1>1 DEF Call, Goto, TypeOK
  <2>2. chunk'[c] = {} /\ received'[c] = {} /\ Len(T) \in Nat
    BY <1>0, <2>1, EmbedAssumption DEF Own, Phase
  <2>3. Shape(c)' /\ Phase(c)' /\ Got(c)' /\ Kept(c)'
    BY <2>1, <2>2 DEF Shape, Phase, Got, Kept, Places
  <2>4. Known(c)'
    BY <2>1, <2>2 DEF Known
  <2> QED
    BY <2>3, <2>4 DEF Own
<1>2. CASE SendChunk(c)
  <2>1. /\ pc[c] = "looking" /\ pc'[c] = "waiting" /\ LookedUp(c)
        /\ chunk'[c] = NextChunk(c)
        /\ UNCHANGED <<cache, texts, looked, vectors, received, known>>
    BY <1>0, <1>2 DEF SendChunk, Goto, TypeOK
  <2>2. chunk'[c] \subseteq Missing(c) /\ Missing(c) \subseteq Places(c)
    BY <2>1 DEF NextChunk, Missing
  <2>3. chunk[c] = {}
    BY <1>0, <2>1 DEF Own, Phase
  <2>4. Shape(c)' /\ Phase(c)'
    BY <1>0, <2>1, <2>2 DEF Own, Shape, Phase, Missing, Places
  <2>5. Got(c)' /\ Known(c)' /\ Kept(c)'
    BY <1>0, <2>1, <2>3 DEF Own, Got, Known, Kept, LookedUp
  <2> QED
    BY <2>4, <2>5 DEF Own
<1>3. CASE LookUp(c)
  <2> DEFINE i == looked[c] + 1
  <2>1. /\ pc[c] = "looking" /\ pc'[c] = "looking" /\ looked[c] # Len(texts[c])
        /\ looked'[c] = i /\ vectors'[c] = [vectors[c] EXCEPT ![i] = cache[texts[c][i]]]
        /\ UNCHANGED <<cache, texts, received, chunk, known>>
    BY <1>0, <1>3 DEF LookUp, TypeOK, LookedUp
  <2>2. i \in Places(c) /\ looked[c] <= Len(texts[c]) /\ texts[c][i] \in Text
    BY <1>0, <1>a, <1>b, <2>1 DEF Own, Shape, Places
  <2>3. received[c] = {} /\ chunk[c] = {}
    BY <1>0, <2>1 DEF Own, Phase, Got, LookedUp
  <2>4. cache[texts[c][i]] \in Dim \cup {None}
    BY <1>0, <2>2 DEF TypeOK
  <2>5. Shape(c)'
    BY <1>0, <1>b, <2>1, <2>2, <2>3, <2>4 DEF Own, Shape, Places
  <2>6. Phase(c)' /\ Got(c)' /\ Kept(c)'
    BY <2>1, <2>3 DEF Phase, Got, Kept
  <2>7. vectors'[c][i] = cache[texts[c][i]]
        /\ \A j \in Places(c) : j # i => vectors'[c][j] = vectors[c][j]
    BY <1>0, <2>1, <2>2 DEF Own, Shape
  <2>8. ASSUME NEW j \in 1..i, texts[c][j] \in known[c] PROVE vectors'[c][j] # None
    <3>1. CASE j = i
      BY <1>0, <2>7, <2>8, <3>1 DEF Own, Known
    <3>2. CASE j # i
      <4>1. j \in 1..looked[c] /\ j \in Places(c)
        BY <1>b, <2>2, <3>2 DEF Places
      <4> QED
        BY <1>0, <2>7, <2>8, <3>2, <4>1 DEF Own, Known
    <3> QED
      BY <3>1, <3>2
  <2>9. Known(c)'
    BY <1>0, <2>1, <2>8 DEF Own, Known
  <2> QED
    BY <2>5, <2>6, <2>9 DEF Own
<1>4. ASSUME NEW i \in chunk[c], PutOne(c, i) PROVE Own(c)'
  <2>1. /\ pc[c] = "caching" /\ chunk'[c] = chunk[c] \ {i}
        /\ pc'[c] = IF chunk[c] = {i} THEN "looking" ELSE "caching"
        /\ cache' = [cache EXCEPT ![texts[c][i]] = IF @ = None THEN vectors[c][i] ELSE @]
        /\ UNCHANGED <<texts, looked, vectors, received, known>>
    BY <1>0, <1>4 DEF PutOne, Goto, TypeOK
  <2>2. i \in Places(c) /\ vectors[c][i] # None /\ texts[c][i] \in Text
    BY <1>0, <1>a, <2>1 DEF Own, Shape, Phase
  <2>3. cache'[texts[c][i]] # None
    BY <1>0, <2>1, <2>2 DEF TypeOK
  <2>4. Shape(c)' /\ Phase(c)' /\ Got(c)'
    BY <1>0, <2>1 DEF Own, Shape, Phase, Got, LookedUp, Places
  <2>5. Known(c)'
    <3>1. known[c] \subseteq Text
      BY <1>0 DEF TypeOK
    <3> QED
      BY <1>0, <2>1, <3>1 DEF Own, Known, CacheGrows
  <2>6. ASSUME NEW j \in received[c], j \notin chunk[c] \ {i} PROVE cache'[texts[c][j]] # None
    <3>1. texts[c][j] \in Text
      BY <1>0, <1>a DEF Own, Shape
    <3> QED
      BY <1>0, <2>3, <2>6, <3>1 DEF Own, Kept, CacheGrows
  <2>7. Kept(c)'
    BY <2>1, <2>6 DEF Kept
  <2> QED
    BY <2>4, <2>5, <2>7 DEF Own
<1>5. ASSUME NEW d \in Dim, ChunkArrives(c, d) PROVE Own(c)'
  <2>1. /\ pc[c] = "waiting" /\ pc'[c] = "caching" /\ received'[c] = received[c] \cup chunk[c]
        /\ vectors'[c] = [i \in Places(c) |-> IF i \in chunk[c] THEN d ELSE vectors[c][i]]
        /\ UNCHANGED <<cache, texts, looked, chunk, known>>
    BY <1>0, <1>5 DEF ChunkArrives, Goto, TypeOK, WithChunk
  <2>2. d # None /\ LookedUp(c)
    BY <1>0, <2>1, EmbedAssumption DEF Own, Got
  <2>3. \A i \in Places(c) : vectors'[c][i] \in Dim \cup {None}
                             /\ (vectors[c][i] # None => vectors'[c][i] # None)
                             /\ (i \in chunk[c] => vectors'[c][i] # None)
    BY <1>0, <2>1, <2>2 DEF Own, Shape
  <2>4. Shape(c)'
    BY <1>0, <2>1, <2>3 DEF Own, Shape, Places
  <2>5. Phase(c)' /\ Got(c)'
    BY <1>0, <2>1, <2>2, <2>3 DEF Own, Shape, Phase, Got, LookedUp
  <2>6. 1..looked[c] \subseteq Places(c)
    BY <1>b, <1>0 DEF Own, Shape, Places
  <2>7. Known(c)' /\ Kept(c)'
    BY <1>0, <2>1, <2>3, <2>6 DEF Own, Known, Kept
  <2> QED
    BY <2>4, <2>5, <2>7 DEF Own
<1>6. CASE ChunkFails(c) \/ Check(c)
  <2>1. pc'[c] \in {"raised", "returned", "mismatch"}
        /\ UNCHANGED <<cache, texts, looked, vectors, chunk, received, known>>
    BY <1>0, <1>6 DEF ChunkFails, Check, Goto, TypeOK
  <2> QED
    BY <1>0, <2>1 DEF Own, Shape, Phase, Got, Known, Kept, LookedUp, Places
<1>7. CASE Finish(c)
  <2>1. /\ pc'[c] = "idle" /\ received'[c] = {} /\ chunk'[c] = {} /\ known'[c] = {}
        /\ texts'[c] = <<>> /\ vectors'[c] = <<>> /\ looked'[c] = 0
    BY <1>0, <1>7 DEF Finish, Goto, TypeOK
  <2> QED
    BY <2>1 DEF Own, Shape, Phase, Got, Known, Kept, LookedUp, Places
<1> QED
  BY <1>1, <1>2, <1>3, <1>4, <1>5, <1>6, <1>7 DEF Act

-----------------------------------------------------------------------------
(* The invariant *)

LEMMA InitInvariant == Init => IInv
BY DEF Init, IInv, TypeOK, Labels, Own, Shape, Phase, Got, Known, Kept, LookedUp, Places

LEMMA StepInvariant == IInv /\ [Next]_vars => IInv'
<1> SUFFICES ASSUME IInv, [Next]_vars PROVE IInv'
  OBVIOUS
<1>1. ASSUME NEW c \in Caller, Act(c) PROVE IInv'
  <2>1. TypeOK /\ TypeOK' /\ Others(c) /\ CacheGrows
    BY <1>1, Locality DEF IInv
  <2>2. ASSUME NEW d \in Caller \ {c} PROVE Own(d)'
    <3>1. Own(d) /\ known[d] \subseteq Text
      BY <2>1 DEF IInv, TypeOK
    <3>2. /\ pc'[d] = pc[d] /\ texts'[d] = texts[d] /\ looked'[d] = looked[d]
          /\ vectors'[d] = vectors[d] /\ chunk'[d] = chunk[d] /\ received'[d] = received[d]
          /\ known'[d] = known[d]
      BY <2>1 DEF Others
    <3>3. Shape(d)' /\ Phase(d)' /\ Got(d)'
      BY <3>1, <3>2 DEF Own, Shape, Phase, Got, Missing, LookedUp, Places
    <3>4. \A i \in received[d] : texts[d][i] \in Text
      BY <2>1, <3>1, PlaceHoldsText DEF Own, Shape
    <3>5. Known(d)' /\ Kept(d)'
      BY <2>1, <3>1, <3>2, <3>4 DEF Own, Known, Kept, CacheGrows
    <3> QED
      BY <3>3, <3>5 DEF Own
  <2> QED
    BY <1>1, <2>1, <2>2, OwnStep DEF IInv
<1>2. CASE UNCHANGED vars
  <2>1. UNCHANGED <<cache, pc, texts, looked, vectors, chunk, received, known>>
    BY <1>2 DEF vars
  <2>2. TypeOK'
    BY <2>1 DEF IInv, TypeOK
  <2>3. ASSUME NEW c \in Caller PROVE Own(c)'
    <3>1. Own(c)
      BY DEF IInv
    <3>2. Shape(c)' /\ Phase(c)' /\ Got(c)'
      BY <2>1, <3>1 DEF Own, Shape, Phase, Got, Missing, LookedUp, Places
    <3>3. Known(c)' /\ Kept(c)'
      BY <2>1, <3>1 DEF Own, Known, Kept
    <3> QED
      BY <3>2, <3>3 DEF Own
  <2> QED
    BY <2>2, <2>3 DEF IInv
<1> QED
  BY <1>1, <1>2 DEF Next

\* What callers of embed hold and what is cached belong together.
THEOREM EmbedInvariant == Spec => []IInv
BY InitInvariant, StepInvariant, PTL DEF Spec

\* The cache and every call's state have the shape they have in the code.
THEOREM TypeCorrect == Spec => []TypeOK
<1>1. IInv => TypeOK
  BY DEF IInv
<1> QED
  BY <1>1, EmbedInvariant, PTL

\* embed caches each chunk as it arrives: a call that fails half-way loses nothing it paid.
THEOREM PaidVectorsKept == Spec => []PaidVectorsAreKept
<1>1. IInv => PaidVectorsAreKept
  BY DEF IInv, Own, Kept, PaidVectorsAreKept
<1> QED
  BY <1>1, EmbedInvariant, PTL

\* embed sends no place of its list twice, and no text that was cached when it began: what
\* an earlier call paid for before it failed is not paid for again.  Nothing is said of a
\* text that the list holds twice.
THEOREM RestIsSent == Spec => []OnlyTheRestIsSent
<1>1. IInv => OnlyTheRestIsSent
  <2> SUFFICES ASSUME IInv, NEW c \in Caller, pc[c] = "waiting", NEW i \in chunk[c]
               PROVE  i \notin received[c] /\ texts[c][i] \notin known[c]
    BY DEF OnlyTheRestIsSent
  <2>1. vectors[c][i] = None /\ i \in Places(c) /\ LookedUp(c)
    BY DEF IInv, Own, Phase, Got, Missing
  <2>2. i \in 1..looked[c]
    BY <2>1 DEF Places, LookedUp
  <2> QED
    BY <2>1, <2>2 DEF IInv, Own, Got, Known
<1> QED
  BY <1>1, EmbedInvariant, PTL

\* put_cached: the vector stored first wins, whoever embeds the same text at once.
THEOREM FirstVectorIsFinal == Spec => FirstVectorStays
<1>1. IInv /\ [Next]_vars => [\A t \in Text : cache[t] # None => cache'[t] = cache[t]]_vars
  <2>1. ASSUME IInv, NEW c \in Caller, Act(c)
        PROVE  \A t \in Text : cache[t] # None => cache'[t] = cache[t]
    BY <2>1, Locality DEF IInv, CacheGrows
  <2> QED
    BY <2>1 DEF Next
<1> QED
  BY <1>1, EmbedInvariant, PTL DEF Spec, FirstVectorStays

=============================================================================
