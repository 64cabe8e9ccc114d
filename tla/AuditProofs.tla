---------------------------- MODULE AuditProofs ----------------------------
(***************************************************************************)
(* Proofs about AuditChain, for any number of sessions and events, any     *)
(* hash function and any bounds.  The argument: whoever has uncommitted    *)
(* events, or is about to insert one, holds the chain's lock, so that what *)
(* it sees is the committed log followed by its own events, and stays so   *)
(* until it commits.                                                       *)
(***************************************************************************)
EXTENDS AuditChain, SequenceTheorems, TLAPS

\* Every row is sealed with its own hash over the hash of the row before it.
Linked(rows) == \A i \in DOMAIN rows :
  /\ rows[i].hash = EventHash(rows[i].prev, rows[i].content)
  /\ rows[i].prev = IF i = 1 THEN GENESIS_HASH ELSE rows[i - 1].hash

Ordered(rows) == \A i, j \in DOMAIN rows : i < j => rows[i].seq < rows[j].seq

Below(rows, q) == \A i \in DOMAIN rows : rows[i].seq < q

Good(rows) == rows \in Seq(Row) /\ Linked(rows) /\ Ordered(rows) /\ Below(rows, nextSeq)

\* Only the holder of the chain's lock writes.
HolderWrites == \A w \in Writer :
  pc[w] \in {"locked", "read"} \/ draft[w] # <<>> => chainLock = w

ReadIsCurrent == \A w \in Writer :
  pc[w] = "read" => last[w] = LastHash(Visible(w)) /\ last[w] \in Digest

IInv ==
  /\ TypeOK /\ HolderWrites /\ ReadIsCurrent
  /\ Good(log) /\ \A w \in Writer : Good(Visible(w))

-----------------------------------------------------------------------------
(* The operators *)

LEMMA SeqIsNat ==
  ASSUME NEW rows \in Seq(Row)
  PROVE  \A i \in DOMAIN rows : rows[i].seq \in Nat
<1>1. \A i \in DOMAIN rows : rows[i] \in Row
  OBVIOUS
<1> QED
  BY <1>1 DEF Row

LEMMA NewestIsLast ==
  ASSUME NEW rows \in Seq(Row), Ordered(rows), rows # <<>>
  PROVE  Newest(rows) = Len(rows)
<1>1. Len(rows) \in DOMAIN rows /\ DOMAIN rows = 1..Len(rows) /\ Len(rows) \in Nat
  OBVIOUS
<1>2. \A j \in DOMAIN rows : rows[j].seq <= rows[Len(rows)].seq
  BY <1>1, SeqIsNat DEF Ordered
<1>3. \A i \in DOMAIN rows : (\A j \in DOMAIN rows : rows[j].seq <= rows[i].seq) => i = Len(rows)
  <2> SUFFICES ASSUME NEW i \in DOMAIN rows, i # Len(rows),
                      rows[Len(rows)].seq <= rows[i].seq
               PROVE FALSE
    BY <1>1
  <2> QED
    BY <1>1, SeqIsNat DEF Ordered
<1> QED
  BY <1>1, <1>2, <1>3 DEF Newest

\* A new row sealed over the newest hash extends a good sequence.
LEMMA AppendSealed ==
  ASSUME NEW rows \in Seq(Row), Linked(rows), Ordered(rows), Below(rows, nextSeq),
         nextSeq \in Nat, NEW c \in Content,
         LastHash(rows) \in Digest
  PROVE  LET row == Sealed(nextSeq, c, LastHash(rows))
         IN /\ row \in Row /\ Append(rows, row) \in Seq(Row) /\ Linked(Append(rows, row))
            /\ Ordered(Append(rows, row)) /\ Below(Append(rows, row), nextSeq + 1)
<1> DEFINE row == Sealed(nextSeq, c, LastHash(rows))
           more == Append(rows, row)
<1>1. row \in Row
  BY AuditAssumption DEF Sealed, Row
<1>2. /\ more \in Seq(Row) /\ Len(more) = Len(rows) + 1 /\ Len(rows) \in Nat
      /\ DOMAIN more = 1..(Len(rows) + 1) /\ DOMAIN rows = 1..Len(rows)
      /\ \A i \in DOMAIN rows : more[i] = rows[i]
      /\ more[Len(rows) + 1] = row
  BY <1>1
<1>3. row.prev = IF Len(rows) + 1 = 1 THEN GENESIS_HASH ELSE rows[Len(rows)].hash
  BY <1>2, NewestIsLast DEF Sealed, LastHash
<1>4. row.seq = nextSeq /\ row.hash = EventHash(row.prev, row.content)
  BY DEF Sealed
<1> HIDE DEF row, more
<1>5. Linked(more)
  <2> SUFFICES ASSUME NEW i \in DOMAIN more
               PROVE  /\ more[i].hash = EventHash(more[i].prev, more[i].content)
                      /\ more[i].prev = IF i = 1 THEN GENESIS_HASH ELSE more[i - 1].hash
    BY DEF Linked
  <2>1. CASE i = Len(rows) + 1
    <3>1. i # 1 => more[i - 1] = rows[Len(rows)]
      BY <1>2, <2>1
    <3> QED
      BY <1>2, <1>3, <1>4, <2>1, <3>1
  <2>2. CASE i \in DOMAIN rows
    <3>1. more[i] = rows[i] /\ (i # 1 => more[i - 1] = rows[i - 1])
      BY <1>2, <2>2
    <3> QED
      BY <2>2, <3>1 DEF Linked
  <2> QED
    BY <1>2, <2>1, <2>2
<1>6. Ordered(more) /\ Below(more, nextSeq + 1)
  <2>1. \A i \in DOMAIN more : i \in DOMAIN rows \/ i = Len(rows) + 1
    BY <1>2
  <2>2. \A i \in DOMAIN rows : rows[i].seq \in Nat
    BY SeqIsNat
  <2> QED
    BY <1>2, <1>4, <2>1, <2>2, SMTT(60) DEF Ordered, Below
<1> QED
  BY <1>1, <1>2, <1>5, <1>6 DEF row, more

\* Where seq orders the rows, the expected hash is that of the row before.
LEMMA ExpectedIsPrevious ==
  ASSUME NEW rows \in Seq(Row), Ordered(rows), NEW i \in DOMAIN rows
  PROVE  ExpectedPrev(rows, i) = IF i = 1 THEN GENESIS_HASH ELSE rows[i - 1].hash
<1> DEFINE Earlier == {j \in DOMAIN rows : rows[j].seq < rows[i].seq}
<1>1. DOMAIN rows = 1..Len(rows) /\ Len(rows) \in Nat /\ i \in 1..Len(rows)
  OBVIOUS
<1>2. \A j \in DOMAIN rows : rows[j].seq \in Nat
  BY SeqIsNat
<1>3. \A j \in DOMAIN rows : j \in Earlier <=> j < i
  BY <1>1, <1>2 DEF Ordered
<1>4. CASE i = 1
  BY <1>1, <1>3, <1>4 DEF ExpectedPrev
<1>5. CASE i # 1
  <2>1. i - 1 \in Earlier /\ \A k \in Earlier : rows[k].seq <= rows[i - 1].seq
    BY <1>1, <1>2, <1>3, <1>5 DEF Ordered
  <2>2. \A j \in Earlier : (\A k \in Earlier : rows[k].seq <= rows[j].seq) => j = i - 1
    BY <1>1, <1>2, <1>3, <2>1 DEF Ordered
  <2>3. (CHOOSE j \in Earlier : \A k \in Earlier : rows[k].seq <= rows[j].seq) = i - 1
    BY <2>1, <2>2
  <2> QED
    BY <1>5, <2>1, <2>3 DEF ExpectedPrev
<1> QED
  BY <1>4, <1>5

LEMMA LinkedVerifies ==
  ASSUME NEW rows \in Seq(Row), Ordered(rows), Linked(rows)
  PROVE  Verifies(rows)
BY ExpectedIsPrevious DEF Verifies, Bad, Linked

LEMMA LastHashIsDigest ==
  ASSUME NEW rows \in Seq(Row), Ordered(rows)
  PROVE  LastHash(rows) \in Digest
<1>1. CASE rows = <<>>
  BY <1>1, AuditAssumption DEF LastHash
<1>2. CASE rows # <<>>
  <2>1. rows[Len(rows)] \in Row
    BY <1>2
  <2> QED
    BY <1>2, <2>1, NewestIsLast DEF LastHash, Row
<1> QED
  BY <1>1, <1>2

-----------------------------------------------------------------------------
(* The invariant *)

LEMMA InvInit == Init => IInv
<1> SUFFICES ASSUME Init PROVE IInv
  OBVIOUS
<1>1. TypeOK
  BY AuditAssumption DEF Init, TypeOK
<1>2. log = <<>> /\ \A w \in Writer : Visible(w) = <<>>
  BY DEF Init, Visible
<1>3. Good(<<>>)
  <2>1. <<>> \in Seq(Row) /\ DOMAIN <<>> = {}
    OBVIOUS
  <2> QED
    BY <2>1, Zenon DEF Good, Linked, Ordered, Below
<1>4. Good(log) /\ \A w \in Writer : Good(Visible(w))
  BY <1>2, <1>3
<1> QED
  BY <1>1, <1>4 DEF IInv, HolderWrites, ReadIsCurrent, Init

\* What a session sees when it has no uncommitted events.
LEMMA NothingDrafted ==
  ASSUME TypeOK PROVE \A w \in Writer : draft[w] = <<>> => Visible(w) = log
BY DEF TypeOK, Visible

\* A step that changes neither the log, a draft, nor the next value keeps what is good.
LEMMA SameRows ==
  ASSUME IInv, UNCHANGED <<log, nextSeq, draft>>
  PROVE  /\ Good(log)' /\ \A w \in Writer : Good(Visible(w))'
         /\ \A w \in Writer : Visible(w)' = Visible(w) /\ LastHash(Visible(w))' = LastHash(Visible(w))
<1>1. \A w \in Writer : Visible(w)' = Visible(w)
  BY DEF Visible
<1>2. Good(log)'
  BY DEF IInv, Good, Linked, Ordered, Below
<1>3. \A w \in Writer : Good(Visible(w))'
  BY <1>1 DEF IInv, Good, Linked, Ordered, Below
<1>4. \A w \in Writer : LastHash(Visible(w))' = LastHash(Visible(w))
  BY DEF Visible, LastHash, Newest
<1> QED
  BY <1>1, <1>2, <1>3, <1>4

LEMMA BelowGrows ==
  ASSUME NEW rows \in Seq(Row), Below(rows, nextSeq), nextSeq \in Nat
  PROVE  Below(rows, nextSeq + 1)
BY SeqIsNat DEF Below

LEMMA InvStep == IInv /\ [Next]_vars => IInv'
<1> SUFFICES ASSUME IInv, [Next]_vars PROVE IInv'
  OBVIOUS
<1> USE DEF Goto
<1>1. ASSUME NEW w \in Writer, NEW s \in Subject \cup {None}, Begin(w, s) PROVE IInv'
  <2>1. Good(log)' /\ \A v \in Writer : Good(Visible(v))'
    BY <1>1, SameRows DEF Begin
  <2>2. TypeOK' /\ HolderWrites'
    BY <1>1 DEF Begin, IInv, TypeOK, HolderWrites
  <2>3. ReadIsCurrent'
    BY <1>1, SameRows DEF Begin, IInv, TypeOK, ReadIsCurrent
  <2> QED
    BY <2>1, <2>2, <2>3 DEF IInv
<1>2. ASSUME NEW w \in Writer, LockSubject(w) PROVE IInv'
  <2>1. Good(log)' /\ \A v \in Writer : Good(Visible(v))'
    BY <1>2, SameRows DEF LockSubject
  <2>2. TypeOK' /\ HolderWrites'
    BY <1>2 DEF LockSubject, IInv, TypeOK, HolderWrites
  <2>3. ReadIsCurrent'
    BY <1>2, SameRows DEF LockSubject, IInv, TypeOK, ReadIsCurrent
  <2> QED
    BY <2>1, <2>2, <2>3 DEF IInv
<1>3. ASSUME NEW w \in Writer, LockChain(w) PROVE IInv'
  <2>1. Good(log)' /\ \A v \in Writer : Good(Visible(v))'
    BY <1>3, SameRows DEF LockChain
  <2>2. TypeOK' /\ HolderWrites'
    BY <1>3, AuditAssumption DEF LockChain, IInv, TypeOK, HolderWrites
  <2>3. ReadIsCurrent'
    BY <1>3, SameRows DEF LockChain, IInv, TypeOK, ReadIsCurrent
  <2> QED
    BY <2>1, <2>2, <2>3 DEF IInv
<1>4. ASSUME NEW w \in Writer, ReadLast(w) PROVE IInv'
  <2>1. Good(log)' /\ \A v \in Writer : Good(Visible(v))'
    BY <1>4, SameRows DEF ReadLast
  <2>2. LastHash(Visible(w)) \in Digest
    BY LastHashIsDigest DEF IInv, Good
  <2>3. TypeOK' /\ HolderWrites'
    BY <1>4, <2>2 DEF ReadLast, IInv, TypeOK, HolderWrites
  <2>4. ReadIsCurrent'
    BY <1>4, <2>2, SameRows DEF ReadLast, IInv, TypeOK, ReadIsCurrent
  <2> QED
    BY <2>1, <2>3, <2>4 DEF IInv
<1>5. ASSUME NEW w \in Writer, NEW c \in Content, Insert(w, c) PROVE IInv'
  <2> DEFINE row == Sealed(nextSeq, c, LastHash(Visible(w)))
             more == Append(Visible(w), row)
  <2>1. Good(Visible(w)) /\ last[w] = LastHash(Visible(w)) /\ chainLock = w
    BY <1>5 DEF Insert, IInv, ReadIsCurrent, HolderWrites
  <2>2. row \in Row /\ more \in Seq(Row) /\ Linked(more) /\ Ordered(more) /\ Below(more, nextSeq + 1)
    BY <2>1, AppendSealed, LastHashIsDigest DEF Good, IInv, TypeOK
  <2>3. draft' = [draft EXCEPT ![w] = Append(@, row)] /\ log' = log /\ nextSeq' = nextSeq + 1
    BY <1>5, <2>1 DEF Insert
  <2>4. log \in Seq(Row) /\ draft[w] \in Seq(Row)
    BY DEF IInv, TypeOK
  <2> HIDE DEF row
  <2>5. Visible(w)' = more
    BY <2>2, <2>3, <2>4 DEF IInv, TypeOK, Visible
  <2>6. \A v \in Writer \ {w} : Visible(v)' = Visible(v)
    BY <2>3 DEF IInv, TypeOK, Visible
  <2>7. TypeOK' /\ HolderWrites'
    BY <1>5, <2>1, <2>2, <2>3 DEF Insert, IInv, TypeOK, HolderWrites
  <2>8. ReadIsCurrent'
    <3>1. \A v \in Writer \ {w} : pc[v] # "read"
      BY <2>1 DEF IInv, HolderWrites
    <3> QED
      BY <1>5, <3>1 DEF Insert, IInv, TypeOK, ReadIsCurrent
  <2>9. Good(log)'
    BY <2>3, BelowGrows DEF IInv, TypeOK, Good, Linked, Ordered
  <2>10. ASSUME NEW v \in Writer PROVE Good(Visible(v))'
    <3>1. CASE v = w
      BY <2>2, <2>3, <2>5, <3>1 DEF Good, Linked, Ordered, Below
    <3>2. CASE v # w
      <4>1. Visible(v)' = Visible(v) /\ Visible(v) \in Seq(Row) /\ Below(Visible(v), nextSeq + 1)
        BY <2>6, <3>2, BelowGrows DEF IInv, TypeOK, Good
      <4> QED
        BY <2>3, <4>1 DEF IInv, Good, Linked, Ordered, Below
    <3> QED
      BY <3>1, <3>2
  <2> QED
    BY <2>7, <2>8, <2>9, <2>10 DEF IInv
<1>6. ASSUME NEW w \in Writer, Commit(w) PROVE IInv'
  <2>1. chainLock = w /\ \A v \in Writer \ {w} : draft[v] = <<>> /\ pc[v] \notin {"locked", "read"}
    BY <1>6 DEF Commit, IInv, HolderWrites
  <2>2. log' = Visible(w) /\ log' \in Seq(Row) /\ nextSeq' = nextSeq
    BY <1>6 DEF Commit, Visible, IInv, TypeOK
  <2>3. TypeOK'
    BY <1>6, <2>2 DEF Commit, End, IInv, TypeOK
  <2>4. HolderWrites' /\ ReadIsCurrent'
    BY <1>6, <2>1 DEF Commit, End, IInv, TypeOK, HolderWrites, ReadIsCurrent
  <2>5. \A v \in Writer : draft'[v] = <<>>
    BY <1>6, <2>1 DEF Commit, End, IInv, TypeOK
  <2>6. \A v \in Writer : Visible(v)' = log'
    <3>1. log' \o <<>> = log'
      BY <2>2
    <3> QED
      BY <2>5, <3>1 DEF Visible
  <2>7. Good(log)'
    BY <2>2 DEF IInv, Good, Linked, Ordered, Below
  <2>8. \A v \in Writer : Good(Visible(v))'
    BY <2>6, <2>7 DEF Good
  <2> QED
    BY <2>3, <2>4, <2>7, <2>8 DEF IInv
<1>7. ASSUME NEW w \in Writer, Rollback(w) PROVE IInv'
  <2>1. log' = log /\ nextSeq' = nextSeq /\ draft' = [draft EXCEPT ![w] = <<>>]
    BY <1>7 DEF Rollback, End
  <2>2. TypeOK' /\ HolderWrites'
    BY <1>7 DEF Rollback, End, IInv, TypeOK, HolderWrites
  <2>3. Good(log)'
    BY <2>1 DEF IInv, Good, Linked, Ordered, Below
  <2>4. ASSUME NEW v \in Writer
        PROVE Good(Visible(v))' /\ (v # w => Visible(v)' = Visible(v))
    <3>1. CASE v = w
      <4>1. Visible(v)' = log
        BY <2>1, <3>1 DEF IInv, TypeOK, Visible
      <4> QED
        BY <2>1, <2>3, <3>1, <4>1 DEF Good
    <3>2. CASE v # w
      <4>1. Visible(v)' = Visible(v)
        BY <2>1, <3>2 DEF IInv, TypeOK, Visible
      <4> QED
        BY <2>1, <4>1 DEF IInv, Good, Linked, Ordered, Below
    <3> QED
      BY <3>1, <3>2
  <2>5. ReadIsCurrent'
    BY <1>7, <2>4 DEF Rollback, End, IInv, TypeOK, ReadIsCurrent
  <2> QED
    BY <2>2, <2>3, <2>4, <2>5 DEF IInv
<1>8. CASE UNCHANGED vars
  <2>1. Good(log)' /\ \A v \in Writer : Good(Visible(v))'
    BY <1>8, SameRows DEF vars
  <2>2. TypeOK' /\ HolderWrites'
    BY <1>8 DEF vars, IInv, TypeOK, HolderWrites
  <2>3. ReadIsCurrent'
    BY <1>8, SameRows DEF vars, IInv, ReadIsCurrent
  <2> QED
    BY <2>1, <2>2, <2>3 DEF IInv
<1> QED
  BY <1>1, <1>2, <1>3, <1>4, <1>5, <1>6, <1>7, <1>8 DEF Next, Progress

\* Log and draft are one linked chain, and only the lock's holder has a draft (append).
THEOREM AuditInvariant == Spec => []IInv
BY InvInit, InvStep, PTL DEF Spec

-----------------------------------------------------------------------------
(* What follows from it *)

LEMMA GoodVerifies == IInv => Verifies(log) /\ \A w \in Writer : Verifies(Visible(w))
BY LinkedVerifies DEF IInv, Good

\* Every variable of the chain stays within its domain.
THEOREM TypeCorrect == Spec => []TypeOK
<1>1. IInv => TypeOK
  BY DEF IInv
<1> QED
  BY AuditInvariant, <1>1, PTL

\* Concurrent writers cannot fork the chain: the committed log always verifies
\* (audit.py:6-7).
THEOREM ChainNeverForks == Spec => []ChainVerifies
<1>1. IInv => ChainVerifies
  BY GoodVerifies DEF ChainVerifies
<1> QED
  BY AuditInvariant, <1>1, PTL

\* verify_chain finds nothing wrong within a transaction that has appended, either.
THEOREM DraftsVerify == Spec => []DraftVerifies
<1>1. IInv => DraftVerifies
  BY GoodVerifies DEF DraftVerifies
<1> QED
  BY AuditInvariant, <1>1, PTL

\* The events are numbered in the order their transactions commit.
THEOREM SeqFollowsCommits == Spec => []CommitsInSeqOrder
<1>1. IInv => CommitsInSeqOrder
  BY DEF IInv, Good, Ordered, CommitsInSeqOrder
<1> QED
  BY AuditInvariant, <1>1, PTL

\* No step removes or changes a committed event.
THEOREM EventsStay == Spec => AppendOnly
<1>1. IInv /\ [Next]_vars => [IsPrefix(log, log')]_log
  <2> SUFFICES ASSUME IInv, [Next]_vars, log' # log PROVE IsPrefix(log, log')
    OBVIOUS
  <2>1. PICK w \in Writer : Commit(w)
    BY DEF Next, Progress, Begin, LockSubject, LockChain, ReadLast, Insert, Rollback, vars
  <2>2. log \in Seq(Row) /\ draft[w] \in Seq(Row) /\ log' = log \o draft[w]
    BY <2>1 DEF Commit, IInv, TypeOK
  <2> QED
    BY <2>2 DEF IsPrefix
<1> QED
  BY AuditInvariant, <1>1, PTL DEF Spec, AppendOnly

\* verify_chain names a changed event first, unless the digests collide.
THEOREM EditsAreReported == Spec => []EditReported
<1>1. IInv => EditReported
  <2> SUFFICES ASSUME IInv, NEW i \in DOMAIN log, NEW c \in Content,
                      EventHash(log[i].prev, c) # log[i].hash
               PROVE FirstBadIs([log EXCEPT ![i].content = c], i)
    BY DEF EditReported
  <2> DEFINE edited == [log EXCEPT ![i].content = c]
  <2>1. log \in Seq(Row) /\ Linked(log) /\ Ordered(log)
    BY DEF IInv, Good
  <2>2. \A j \in DOMAIN log : log[j] \in Row
    BY <2>1
  <2>3. /\ edited \in Seq(Row) /\ DOMAIN edited = DOMAIN log
        /\ \A j \in DOMAIN log : /\ edited[j].seq = log[j].seq /\ edited[j].prev = log[j].prev
                                 /\ edited[j].hash = log[j].hash
                                 /\ edited[j].content = IF j = i THEN c ELSE log[j].content
    BY <2>1, <2>2, SMTT(60) DEF Row
  <2> HIDE DEF edited
  <2>4. Ordered(edited)
    BY <2>1, <2>3 DEF Ordered
  <2>5. Bad(edited, i)
    BY <2>3 DEF Bad
  <2>6. \A j \in DOMAIN log : j # i => ~Bad(edited, j)
    BY <2>1, <2>3, <2>4, ExpectedIsPrevious, SMTT(60) DEF Bad, Linked
  <2>7. \A j \in DOMAIN log : log[j].seq \in Nat
    BY <2>1, SeqIsNat
  <2>8. FirstBadIs(edited, i)
    BY <2>3, <2>5, <2>6, <2>7 DEF FirstBadIs
  <2> QED
    BY <2>8 DEF edited
<1> QED
  BY AuditInvariant, <1>1, PTL

\* verify_chain notices a missing event, at the event that followed it.
THEOREM RemovalsAreReported == Spec => []RemovalReported
<1>1. IInv => RemovalReported
  <2> SUFFICES ASSUME IInv, NEW i \in DOMAIN log, i # Len(log), log[i].hash # log[i].prev
               PROVE FirstBadIs(RemoveAt(log, i), i)
    BY DEF RemovalReported
  <2> DEFINE left == RemoveAt(log, i)
  <2>1. log \in Seq(Row) /\ Linked(log) /\ Ordered(log) /\ Len(log) \in Nat
        /\ DOMAIN log = 1..Len(log)
    BY DEF IInv, Good
  <2>2. /\ left \in Seq(Row) /\ Len(left) = Len(log) - 1 /\ DOMAIN left = 1..(Len(log) - 1)
        /\ \A j \in DOMAIN left : left[j] = IF j < i THEN log[j] ELSE log[j + 1]
    <3> DEFINE front == SubSeq(log, 1, i - 1)
               back == SubSeq(log, i + 1, Len(log))
    <3>1. /\ front \in Seq(Row) /\ Len(front) = i - 1
          /\ \A j \in 1..(i - 1) : front[j] = log[j]
      BY <2>1
    <3>2. /\ back \in Seq(Row) /\ Len(back) = Len(log) - i
          /\ \A j \in 1..(Len(log) - i) : back[j] = log[j + i]
      BY <2>1, SMTT(60)
    <3>3. left = front \o back
      BY DEF RemoveAt
    <3> HIDE DEF left, front, back
    <3>4. /\ left \in Seq(Row) /\ Len(left) = Len(front) + Len(back)
          /\ \A j \in 1..(Len(front) + Len(back)) :
               left[j] = IF j <= Len(front) THEN front[j] ELSE back[j - Len(front)]
      BY <3>1, <3>2, <3>3, ConcatProperties, Zenon
    <3>5. i \in 1..Len(log) /\ Len(log) \in Nat
      BY <2>1
    <3>6. Len(left) = Len(log) - 1 /\ DOMAIN left = 1..(Len(log) - 1)
      BY <3>1, <3>2, <3>4, <3>5
    <3>7. ASSUME NEW j \in 1..(Len(log) - 1)
          PROVE  left[j] = IF j < i THEN log[j] ELSE log[j + 1]
      <4>1. left[j] = IF j <= i - 1 THEN front[j] ELSE back[j - (i - 1)]
        <5>1. Len(front) = i - 1
          BY <3>1
        <5>2. j \in 1..(Len(front) + Len(back))
          BY <3>1, <3>2, <3>5
        <5>3. left[j] = IF j <= Len(front) THEN front[j] ELSE back[j - Len(front)]
          BY <3>4, <5>2, Zenon
        <5> QED
          BY <5>1, <5>3, Zenon
      <4>2. CASE j < i
        BY <3>1, <3>5, <4>1, <4>2
      <4>3. CASE ~(j < i)
        <5>1. j - (i - 1) \in 1..(Len(log) - i) /\ (j - (i - 1)) + i = j + 1
          BY <3>5, <4>3
        <5>2. back[j - (i - 1)] = log[j + 1]
          BY <3>2, <5>1
        <5> QED
          BY <3>5, <4>1, <4>3, <5>2
      <4> QED
        BY <4>2, <4>3
    <3> QED
      BY <3>4, <3>6, <3>7
  <2> HIDE DEF left
  <2>3. Ordered(left)
    BY <2>1, <2>2, SMTT(60) DEF Ordered
  <2>4. i \in DOMAIN left /\ left[i] = log[i + 1] /\ (i # 1 => left[i - 1] = log[i - 1])
    BY <2>1, <2>2
  <2>5. left[i].prev = log[i].hash
    BY <2>1, <2>4 DEF Linked
  <2>6. ExpectedPrev(left, i) = log[i].prev
    <3>1. ExpectedPrev(left, i) = IF i = 1 THEN GENESIS_HASH ELSE left[i - 1].hash
      BY <2>2, <2>3, <2>4, ExpectedIsPrevious
    <3> QED
      BY <2>1, <2>4, <3>1 DEF Linked
  <2>7. Bad(left, i)
    BY <2>5, <2>6 DEF Bad
  <2>8. \A j \in DOMAIN left : left[j].seq < left[i].seq => j < i
    <3>1. \A j \in DOMAIN left : left[j].seq \in Nat
      BY <2>2, SeqIsNat
    <3>2. \A j \in DOMAIN left : i < j => left[i].seq < left[j].seq
      BY <2>3, <2>4 DEF Ordered
    <3>3. DOMAIN left \subseteq Nat
      BY <2>1, <2>2
    <3> QED
      BY <2>4, <3>1, <3>2, <3>3
  <2>9. ASSUME NEW j \in DOMAIN left, j < i PROVE ~Bad(left, j)
    <3>1. left[j] = log[j] /\ (j # 1 => left[j - 1] = log[j - 1]) /\ j \in DOMAIN log
      BY <2>1, <2>2, <2>9
    <3>2. ExpectedPrev(left, j) = log[j].prev
      <4>1. ExpectedPrev(left, j) = IF j = 1 THEN GENESIS_HASH ELSE left[j - 1].hash
        BY <2>2, <2>3, <2>9, ExpectedIsPrevious
      <4> QED
        BY <2>1, <3>1, <4>1 DEF Linked
    <3> QED
      BY <2>1, <3>1, <3>2 DEF Bad, Linked
  <2>10. FirstBadIs(left, i)
    BY <2>4, <2>7, <2>8, <2>9 DEF FirstBadIs
  <2> QED
    BY <2>10 DEF left
<1> QED
  BY AuditInvariant, <1>1, PTL

=============================================================================
