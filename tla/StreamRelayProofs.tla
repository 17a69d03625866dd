------------------------- MODULE StreamRelayProofs --------------------------
(***************************************************************************)
(* Proofs about StreamRelay for any number of replies, pieces and requests. *)
(***************************************************************************)
EXTENDS StreamRelay, FiniteSetTheorems, TLAPS

USE StreamAssumption

-----------------------------------------------------------------------------
(* The element of S with i - 1 smaller ones, as FullContent picks them. *)
Below(S, q) == {p \in S : p < q}
Nth(S, i)   == CHOOSE q \in S : Cardinality(Below(S, q)) = i - 1

Small(S) ==
  /\ S \subseteq Nat /\ IsFiniteSet(S) /\ Cardinality(S) \in Nat
  /\ \A q \in S : /\ Below(S, q) \in SUBSET (S \ {q})
                  /\ IsFiniteSet(Below(S, q))
                  /\ Cardinality(Below(S, q)) \in 0..(Cardinality(S) - 1)

LEMMA SmallSet ==
  ASSUME NEW N \in Nat, NEW S \in SUBSET (0..N)
  PROVE  Small(S)
<1>1. IsFiniteSet(0..N)
  BY FS_Interval
<1>2. IsFiniteSet(S) /\ Cardinality(S) \in Nat
  BY <1>1, FS_Subset, FS_CardinalityType
<1>3. ASSUME NEW q \in S
      PROVE  /\ Below(S, q) \in SUBSET (S \ {q})
             /\ IsFiniteSet(Below(S, q))
             /\ Cardinality(Below(S, q)) \in 0..(Cardinality(S) - 1)
  <2>1. q \in Nat /\ Below(S, q) \in SUBSET (S \ {q})
    BY DEF Below
  <2>2. IsFiniteSet(S \ {q}) /\ Cardinality(S \ {q}) = Cardinality(S) - 1
    BY <1>2, FS_RemoveElement
  <2>3. IsFiniteSet(Below(S, q)) /\ Cardinality(Below(S, q)) <= Cardinality(S) - 1
    BY <2>1, <2>2, FS_Subset
  <2> QED
    BY <1>2, <2>1, <2>3, FS_CardinalityType
<1> QED
  BY <1>2, <1>3 DEF Small

LEMMA BelowGrows ==
  ASSUME NEW S, Small(S)
  PROVE  \A p, q \in S : p < q => Cardinality(Below(S, p)) < Cardinality(Below(S, q))
<1> SUFFICES ASSUME NEW p \in S, NEW q \in S, p < q
             PROVE  Cardinality(Below(S, p)) < Cardinality(Below(S, q))
  OBVIOUS
<1>1. (\A x \in S : x \in Nat) /\ IsFiniteSet(Below(S, q))
  BY DEF Small
<1>2. Below(S, p) \in SUBSET Below(S, q)
  <2>1. \A x \in S : x < p => x < q
    BY <1>1
  <2> QED
    BY <2>1 DEF Below
<1>3. p \in Below(S, q) /\ p \notin Below(S, p)
  BY <1>1 DEF Below
<1>4. Cardinality(Below(S, p)) <= Cardinality(Below(S, q)) /\ IsFiniteSet(Below(S, p))
  BY <1>1, <1>2, FS_Subset
<1>5. Cardinality(Below(S, p)) # Cardinality(Below(S, q))
  BY <1>1, <1>2, <1>3, FS_Subset
<1> QED
  BY <1>1, <1>4, <1>5, FS_CardinalityType

(* Every place in the order of S is taken: the ranks are as many as the     *)
(* places, and no two are the same.                                         *)
LEMMA NthExists ==
  ASSUME NEW S, Small(S), NEW i \in 1..Cardinality(S)
  PROVE  Nth(S, i) \in S /\ Cardinality(Below(S, Nth(S, i))) = i - 1
<1> DEFINE rank == [q \in S |-> Cardinality(Below(S, q)) + 1]
           T    == 1..Cardinality(S)
<1>1. IsFiniteSet(S) /\ Cardinality(S) \in Nat
  BY DEF Small
<1>2. IsFiniteSet(T) /\ Cardinality(T) = Cardinality(S)
  BY <1>1, FS_Interval
<1>3. rank \in [S -> T]
  BY DEF Small
<1>4. ASSUME NEW p \in S, NEW q \in S, rank[p] = rank[q] PROVE p = q
  <2>1. Cardinality(Below(S, p)) = Cardinality(Below(S, q)) /\ Cardinality(Below(S, q)) \in Nat
    BY <1>4 DEF Small
  <2>2. ~(p < q) /\ ~(q < p)
    BY <2>1, BelowGrows
  <2> QED
    BY <2>2 DEF Small
<1>5. rank \in Injection(S, T)
  BY <1>3, <1>4 DEF Injection, IsInjective
<1>6. rank \in Surjection(S, T)
  BY <1>2, <1>5, FS_Injection
<1>7. PICK q \in S : rank[q] = i
  BY <1>6 DEF Surjection
<1>8. Cardinality(Below(S, q)) = i - 1
  BY <1>7 DEF Small
<1> QED
  BY <1>8 DEF Nth

-----------------------------------------------------------------------------
(* What the handlers write, with its types. *)
Event ==
  [op : {"chunk"}, msg : MessageId, seq : SeqNo]
    \cup [op : {"done"}, msg : MessageId, content : Seq(Nat), result : Result]
    \cup [op : {"restart"}]
Typed ==
  /\ streamChunkBuffer \in [MessageId -> [SeqNo -> Nat]]
  /\ rows \subseteq [at : Nat, msg : MessageId, content : Seq(Nat)]
  /\ saved \in 0..Len(log)
  /\ log \in Seq(Event)
  /\ Len(log) <= MaxLog

(* What is kept under a number is a piece of that number.                   *)
KeptIsPiece ==
  \A m \in MessageId, q \in SeqNo :
    LET i == streamChunkBuffer[m][q] IN
    i # NoChunk => i \in Time /\ IsPiece(m, i) /\ log[i].seq = q

(* A piece is kept as long as nothing ended its life. *)
Ended(i) == \E k \in Time : Ends(k, i)
KeptUntilEnded ==
  \A i \in Time :
    log[i].op = "chunk" => (streamChunkBuffer[log[i].msg][log[i].seq] = i <=> ~Ended(i))

(* A row is what its `done' inserted, *)
RowsAreDones ==
  \A r \in rows : /\ r.at \in Time /\ log[r.at].op = "done" /\ log[r.at].result # "failed"
                  /\ log[r.at].msg = r.msg /\ log[r.at].content = r.content

(* a `done' that was saved counts as such, and what was inserted is there   *)
(* unless it may be lost.                                                   *)
StoredIsSaved ==
  \A k \in Time : log[k].op = "done" /\ log[k].result = "stored" => k <= saved
InsertedIsThere ==
  \A k \in Time :
    log[k].op = "done" /\ log[k].result # "failed" /\ ~MayBeLost(k) =>
      \E r \in rows : r.at = k

StreamInv ==
  /\ Typed
  /\ KeptIsPiece
  /\ KeptUntilEnded
  /\ RowsAreDones
  /\ StoredIsSaved
  /\ InsertedIsThere
  /\ DoneIsWhatWasShown

-----------------------------------------------------------------------------
(* The joined text holds the kept pieces, in the order of their numbers.    *)
LEMMA FullContentJoins ==
  ASSUME Typed, KeptIsPiece, NEW m \in MessageId
  PROVE  LET content == FullContent(m) IN
         /\ content \in Seq(Nat)
         /\ Range(content) = {streamChunkBuffer[m][q] : q \in Kept(m)}
         /\ \A a, b \in 1..Len(content) :
              a < b => log[content[a]].seq < log[content[b]].seq
<1> DEFINE S       == Kept(m)
           content == FullContent(m)
<1>1. Small(S) /\ S \subseteq Nat /\ Cardinality(S) \in Nat
  <2>1. S \in SUBSET (0..MaxSeqNo)
    BY DEF Kept, SeqNo
  <2>2. Small(S)
    BY <2>1, SmallSet
  <2> QED
    BY <2>2 DEF Small
<1>2. \A i \in 1..Cardinality(S) : content[i] = streamChunkBuffer[m][Nth(S, i)]
  BY DEF FullContent, Nth, Below
<1>3. \A i \in 1..Cardinality(S) :
        Nth(S, i) \in S /\ Cardinality(Below(S, Nth(S, i))) = i - 1
  BY <1>1, NthExists
<1>4. \A q \in S : streamChunkBuffer[m][q] \in Nat /\ log[streamChunkBuffer[m][q]].seq = q
  BY DEF Kept, Typed, KeptIsPiece
<1>5. content \in Seq(Nat) /\ Len(content) = Cardinality(S) /\ DOMAIN content = 1..Cardinality(S)
  <2>1. content \in [1..Cardinality(S) -> Nat]
    BY <1>2, <1>3, <1>4 DEF FullContent
  <2> QED
    BY <1>1, <2>1
<1>6. ASSUME NEW q \in S PROVE \E i \in 1..Cardinality(S) : Nth(S, i) = q
  <2> DEFINE i == Cardinality(Below(S, q)) + 1
  <2>1. i \in 1..Cardinality(S) /\ Cardinality(Below(S, q)) \in Nat
    BY <1>1 DEF Small
  <2>2. Nth(S, i) \in S /\ Cardinality(Below(S, Nth(S, i))) = Cardinality(Below(S, q))
    BY <1>3, <2>1
  <2>3. ~(Nth(S, i) < q) /\ ~(q < Nth(S, i))
    BY <1>1, <2>1, <2>2, BelowGrows
  <2> QED
    BY <1>1, <2>1, <2>2, <2>3
<1>7. Range(content) = {streamChunkBuffer[m][q] : q \in S}
  <2>1. Range(content) = {content[i] : i \in 1..Cardinality(S)}
    BY <1>5 DEF Range
  <2>2. \A i \in 1..Cardinality(S) : content[i] \in {streamChunkBuffer[m][q] : q \in S}
    BY <1>2, <1>3
  <2>3. ASSUME NEW q \in S PROVE \E i \in 1..Cardinality(S) : content[i] = streamChunkBuffer[m][q]
    BY <1>2, <1>6
  <2> QED
    BY <2>1, <2>2, <2>3
<1>8. ASSUME NEW a \in 1..Cardinality(S), NEW b \in 1..Cardinality(S), a < b
      PROVE  Nth(S, a) < Nth(S, b)
  <2>1. Nth(S, a) # Nth(S, b)
    BY <1>3, <1>8
  <2>2. ~(Nth(S, b) < Nth(S, a))
    <3>1. /\ Cardinality(Below(S, Nth(S, a))) = a - 1
          /\ Cardinality(Below(S, Nth(S, b))) = b - 1
          /\ Nth(S, a) \in S /\ Nth(S, b) \in S
      BY <1>3
    <3>2. Nth(S, b) < Nth(S, a) => b - 1 < a - 1
      BY <1>1, <3>1, BelowGrows
    <3> QED
      BY <1>1, <1>8, <3>2
  <2> QED
    BY <1>1, <1>3, <2>1, <2>2
<1>9. ASSUME NEW a \in 1..Cardinality(S), NEW b \in 1..Cardinality(S), a < b
      PROVE  log[content[a]].seq < log[content[b]].seq
  BY <1>2, <1>3, <1>4, <1>8, <1>9
<1> QED
  BY <1>5, <1>7, <1>9

-----------------------------------------------------------------------------
(* What a new entry of the log changes for the earlier ones. *)
LEMMA Recorded ==
  ASSUME Typed, NEW e \in Event, Record(e)
  PROVE  \E n \in Nat :
           /\ log' \in Seq(Event) /\ Len(log') = n /\ n <= MaxLog
           /\ n = Len(log) + 1 /\ Len(log) \in Nat
           /\ \A i \in Time : log'[i] = log[i] /\ i \in Nat /\ i < n /\ 0 < i
           /\ log'[n] = e
           /\ Time' = Time \cup {n} /\ n \notin Time
BY DEF Typed, Record, Time

LEMMA Extended ==
  ASSUME Typed, NEW e \in Event, Record(e), NEW n \in Nat, n = Len(log'),
         NEW i \in Time
  PROVE  Ended(i)' <=> Ended(i) \/ Ends(n, i)'
<1>1. /\ \A k \in Time : log'[k] = log[k]
      /\ Time' = Time \cup {n}
  BY Recorded
<1>2. \A k \in Time : Ends(k, i)' <=> Ends(k, i)
  BY <1>1 DEF Ends, IsPiece
<1> QED
  BY <1>1, <1>2 DEF Ended

(* What may be lost stays so. *)
LEMMA LostForGood ==
  ASSUME Typed, NEW e \in Event, Record(e), NEW k \in Time, MayBeLost(k)
  PROVE  MayBeLost(k)'
<1>1. PICK n \in Nat : /\ \A i \in Time : log'[i] = log[i] /\ i \in Nat /\ i < n
                       /\ Time' = Time \cup {n}
  BY Recorded
<1>2. PICK j \in Time :
        /\ k < j /\ log[j].op = "restart"
        /\ \A i \in Time : k < i /\ i < j /\ log[i].op = "done" => log[i].result # "stored"
  BY DEF MayBeLost
<1>3. \A i \in Time' : k < i /\ i < j /\ log'[i].op = "done" => log'[i].result # "stored"
  <2>1. j < n /\ j \in Nat
    BY <1>1
  <2> QED
    BY <1>1, <1>2, <2>1
<1> QED
  BY <1>1, <1>2, <1>3 DEF MayBeLost

(* An entry that is no `done' and leaves the rows alone keeps them right.   *)
LEMMA RowsBefore ==
  ASSUME StreamInv, NEW e \in Event, Record(e)
  PROVE  /\ \A r \in rows : /\ r.at \in Time' /\ log'[r.at].op = "done"
                             /\ log'[r.at].result # "failed"
                             /\ log'[r.at].msg = r.msg /\ log'[r.at].content = r.content
         /\ \A k \in Time : log'[k].op = "done" /\ log'[k].result = "stored" => k <= saved
         /\ \A k \in Time :
              log'[k].op = "done" /\ log'[k].result # "failed" /\ ~MayBeLost(k)' =>
                \E r \in rows : r.at = k
<1>0. Typed
  BY DEF StreamInv
<1>1. \E n \in Nat : (\A i \in Time : log'[i] = log[i]) /\ Time' = Time \cup {n}
  BY <1>0, Recorded
<1>2. \A r \in rows : /\ r.at \in Time' /\ log'[r.at].op = "done"
                      /\ log'[r.at].result # "failed"
                      /\ log'[r.at].msg = r.msg /\ log'[r.at].content = r.content
  BY <1>1 DEF StreamInv, RowsAreDones
<1>3. \A k \in Time : log'[k].op = "done" /\ log'[k].result = "stored" => k <= saved
  BY <1>1 DEF StreamInv, StoredIsSaved
<1>4. \A k \in Time :
        log'[k].op = "done" /\ log'[k].result # "failed" /\ ~MayBeLost(k)' =>
          \E r \in rows : r.at = k
  BY <1>0, <1>1, LostForGood DEF StreamInv, InsertedIsThere
<1> QED
  BY <1>2, <1>3, <1>4

(* The texts of earlier `done's are not concerned by a new entry. *)
Shown(j) ==
  /\ Range(log[j].content) =
       {i \in 1..(j - 1) : IsPiece(log[j].msg, i) /\ \A k \in 1..(j - 1) : ~Ends(k, i)}
  /\ \A a, b \in 1..Len(log[j].content) :
       a < b => log[log[j].content[a]].seq < log[log[j].content[b]].seq

LEMMA ShownBefore ==
  ASSUME Typed, DoneIsWhatWasShown, NEW e \in Event, Record(e),
         NEW j \in Time, log[j].op = "done"
  PROVE  Shown(j)'
<1>1. \A i \in Time : log'[i] = log[i]
  BY Recorded
<1>2. /\ j \in Nat /\ 1..(j - 1) \subseteq Time
      /\ log[j].content \in Seq(Nat)
  <2>1. j \in Nat /\ 1..(j - 1) \subseteq Time
    BY DEF Typed, Time
  <2>2. log[j] \in Event
    BY DEF Typed, Time
  <2> QED
    BY <2>1, <2>2 DEF Event
<1>3. Shown(j)
  BY DEF DoneIsWhatWasShown, Shown
<1>4. \A a \in 1..Len(log[j].content) : log[j].content[a] \in Time
  <2>1. \A a \in 1..Len(log[j].content) : log[j].content[a] \in Range(log[j].content)
    BY <1>2 DEF Range
  <2> QED
    BY <1>2, <1>3, <2>1 DEF Shown
<1>5. \A i, k \in 1..(j - 1) : Ends(k, i)' <=> Ends(k, i)
  BY <1>1, <1>2 DEF Ends, IsPiece
<1>6. \A i \in 1..(j - 1) : IsPiece(log[j].msg, i) <=> log'[i].op = "chunk" /\ log'[i].msg = log[j].msg
  BY <1>1, <1>2 DEF IsPiece
<1>7. log'[j] = log[j]
  BY <1>1
<1>8. Range(log'[j].content) =
        {i \in 1..(j - 1) : IsPiece(log[j].msg, i)' /\ \A k \in 1..(j - 1) : ~Ends(k, i)'}
  BY <1>3, <1>5, <1>6, <1>7 DEF Shown, IsPiece
<1> QED
  BY <1>1, <1>3, <1>4, <1>7, <1>8 DEF Shown, IsPiece

LEMMA ChunkStep ==
  ASSUME StreamInv, NEW m \in MessageId, NEW q \in SeqNo, HandleStreamChunk(m, q)
  PROVE  StreamInv'
<1> USE DEF StreamInv
<1>1. PICK e \in Event : Record(e) /\ e.op = "chunk" /\ e.msg = m /\ e.seq = q
  <2>1. [op |-> "chunk", msg |-> m, seq |-> q] \in Event
    BY DEF Event
  <2> QED
    BY <2>1 DEF HandleStreamChunk
<1>2. PICK n \in Nat :
        /\ log' \in Seq(Event) /\ Len(log') = n /\ n <= MaxLog
        /\ n = Len(log) + 1 /\ Len(log) \in Nat
        /\ \A i \in Time : log'[i] = log[i] /\ i \in Nat /\ i < n /\ 0 < i
        /\ log'[n] = e
        /\ Time' = Time \cup {n} /\ n \notin Time
  BY <1>1, Recorded
<1>3. streamChunkBuffer' = [streamChunkBuffer EXCEPT ![m][q] = n] /\ UNCHANGED <<rows, saved>>
  BY <1>2 DEF HandleStreamChunk
<1>4. Typed'
  BY <1>2, <1>3 DEF Typed
<1>5. KeptIsPiece'
  <2> SUFFICES ASSUME NEW l \in MessageId, NEW p \in SeqNo,
                      streamChunkBuffer'[l][p] # NoChunk
               PROVE  LET i == streamChunkBuffer'[l][p] IN
                      i \in Time' /\ log'[i].op = "chunk" /\ log'[i].msg = l /\ log'[i].seq = p
    BY DEF KeptIsPiece, IsPiece
  <2>1. CASE l = m /\ p = q
    <3>1. streamChunkBuffer'[l][p] = n
      BY <1>3, <2>1 DEF Typed
    <3> QED
      BY <1>1, <1>2, <2>1, <3>1
  <2>2. CASE ~(l = m /\ p = q)
    <3>1. streamChunkBuffer'[l][p] = streamChunkBuffer[l][p]
      BY <1>3, <2>2 DEF Typed
    <3> QED
      BY <1>2, <3>1 DEF KeptIsPiece, IsPiece
  <2> QED
    BY <2>1, <2>2
<1>6. RowsAreDones' /\ StoredIsSaved' /\ InsertedIsThere'
  BY <1>1, <1>2, <1>3, RowsBefore DEF RowsAreDones, StoredIsSaved, InsertedIsThere
<1>7. \A i \in Time : log[i].op = "chunk" => (Ends(n, i)' <=> log[i].msg = m /\ log[i].seq = q)
  BY <1>1, <1>2 DEF Ends, IsPiece
<1>8. ~Ended(n)'
  BY <1>2 DEF Ends, Ended, Time
<1>9. KeptUntilEnded'
  <2>1. ASSUME NEW i \in Time, log[i].op = "chunk"
        PROVE  streamChunkBuffer'[log[i].msg][log[i].seq] = i <=> ~Ended(i)'
    <3>1. Ended(i)' <=> Ended(i) \/ Ends(n, i)'
      BY <1>1, <1>2, <2>1, Extended
    <3>2. log[i].msg \in MessageId /\ log[i].seq \in SeqNo /\ i # n
      BY <1>2, <2>1 DEF Typed, Event, Time
    <3>3. streamChunkBuffer[log[i].msg][log[i].seq] = i <=> ~Ended(i)
      BY <2>1 DEF KeptUntilEnded
    <3> QED
      BY <1>3, <1>7, <2>1, <3>1, <3>2, <3>3 DEF Typed
  <2>2. streamChunkBuffer'[m][q] = n
    BY <1>3 DEF Typed
  <2> QED
    BY <1>1, <1>2, <1>8, <2>1, <2>2 DEF KeptUntilEnded
<1>10. DoneIsWhatWasShown'
  <2>1. \A j \in Time : log[j].op = "done" => Shown(j)'
    BY <1>1, ShownBefore
  <2> QED
    BY <1>1, <1>2, <2>1 DEF DoneIsWhatWasShown, Shown
<1> QED
  BY <1>4, <1>5, <1>6, <1>9, <1>10

LEMMA DoneStep ==
  ASSUME StreamInv, NEW m \in MessageId, NEW result \in Result, HandleStreamDone(m, result)
  PROVE  StreamInv'
<1> DEFINE content == FullContent(m)
<1> USE DEF StreamInv
<1>0. /\ content \in Seq(Nat)
      /\ Range(content) = {streamChunkBuffer[m][q] : q \in Kept(m)}
      /\ \A a, b \in 1..Len(content) : a < b => log[content[a]].seq < log[content[b]].seq
  BY FullContentJoins
<1>1. PICK e \in Event : /\ Record(e) /\ e.op = "done" /\ e.msg = m
                         /\ e.content = content /\ e.result = result
  <2>1. [op |-> "done", msg |-> m, content |-> content, result |-> result] \in Event
    BY <1>0 DEF Event
  <2> QED
    BY <2>1 DEF HandleStreamDone
<1>2. PICK n \in Nat :
        /\ log' \in Seq(Event) /\ Len(log') = n /\ n <= MaxLog
        /\ n = Len(log) + 1 /\ Len(log) \in Nat
        /\ \A i \in Time : log'[i] = log[i] /\ i \in Nat /\ i < n /\ 0 < i
        /\ log'[n] = e
        /\ Time' = Time \cup {n} /\ n \notin Time
  BY <1>1, Recorded
<1>3. /\ streamChunkBuffer' = [streamChunkBuffer EXCEPT ![m] = [q \in SeqNo |-> NoChunk]]
      /\ rows' = IF result = "failed" THEN rows
                 ELSE rows \cup {[at |-> n, msg |-> m, content |-> content]}
      /\ saved' = IF result = "stored" THEN n ELSE saved
  BY <1>2 DEF HandleStreamDone, Insert
<1>4. Typed'
  <2>1. streamChunkBuffer' \in [MessageId -> [SeqNo -> Nat]]
    BY <1>3 DEF Typed, NoChunk
  <2>2. rows' \subseteq [at : Nat, msg : MessageId, content : Seq(Nat)]
    BY <1>0, <1>3 DEF Typed
  <2>3. saved' \in 0..n
    BY <1>2, <1>3 DEF Typed
  <2> QED
    BY <1>2, <2>1, <2>2, <2>3 DEF Typed
<1>5. KeptIsPiece'
  <2> SUFFICES ASSUME NEW l \in MessageId, NEW p \in SeqNo,
                      streamChunkBuffer'[l][p] # NoChunk
               PROVE  LET i == streamChunkBuffer'[l][p] IN
                      i \in Time' /\ log'[i].op = "chunk" /\ log'[i].msg = l /\ log'[i].seq = p
    BY DEF KeptIsPiece, IsPiece
  <2>1. l # m /\ streamChunkBuffer'[l][p] = streamChunkBuffer[l][p]
    BY <1>3 DEF Typed, NoChunk
  <2> QED
    BY <1>2, <2>1 DEF KeptIsPiece, IsPiece
(* The pieces joined are those of the reply that nothing ended before.      *)
<1>6. Range(content) = {i \in Time : IsPiece(m, i) /\ ~Ended(i)}
  <2>1. ASSUME NEW i \in Range(content) PROVE i \in Time /\ IsPiece(m, i) /\ ~Ended(i)
    <3>1. PICK q \in Kept(m) : i = streamChunkBuffer[m][q]
      BY <1>0, <2>1
    <3>2. i \in Time /\ IsPiece(m, i) /\ log[i].seq = q
      BY <3>1 DEF Kept, KeptIsPiece
    <3> QED
      BY <3>1, <3>2 DEF KeptUntilEnded, IsPiece
  <2>2. ASSUME NEW i \in Time, IsPiece(m, i), ~Ended(i) PROVE i \in Range(content)
    <3>1. streamChunkBuffer[m][log[i].seq] = i
      BY <2>2 DEF KeptUntilEnded, IsPiece
    <3>2. log[i].seq \in SeqNo
      <4>1. log[i] \in Event
        BY DEF Typed, Time
      <4> QED
        BY <2>2, <4>1 DEF Event, IsPiece
    <3>3. log[i].seq \in Kept(m)
      BY <1>2, <3>1, <3>2 DEF Kept, NoChunk
    <3> QED
      BY <1>0, <3>1, <3>3
  <2> QED
    BY <2>1, <2>2
<1>7. \A i \in Time : log[i].op = "chunk" => (Ends(n, i)' <=> log[i].msg = m)
  BY <1>1, <1>2 DEF Ends, IsPiece
<1>8. KeptUntilEnded'
  <2>1. ASSUME NEW i \in Time, log[i].op = "chunk"
        PROVE  streamChunkBuffer'[log[i].msg][log[i].seq] = i <=> ~Ended(i)'
    <3>1. Ended(i)' <=> Ended(i) \/ Ends(n, i)'
      BY <1>1, <1>2, <2>1, Extended
    <3>2. log[i] \in Event /\ i # 0
      BY <1>2 DEF Typed, Time
    <3>3. log[i].msg \in MessageId /\ log[i].seq \in SeqNo
      BY <2>1, <3>2 DEF Event
    <3>4. streamChunkBuffer[log[i].msg][log[i].seq] = i <=> ~Ended(i)
      BY <2>1 DEF KeptUntilEnded
    <3> QED
      BY <1>3, <1>7, <2>1, <3>1, <3>2, <3>3, <3>4 DEF Typed, NoChunk
  <2> QED
    BY <1>1, <1>2, <2>1 DEF KeptUntilEnded
<1>9. RowsAreDones'
  <2>1. ASSUME NEW r \in rows', r \notin rows
        PROVE  r.at = n /\ r.msg = m /\ r.content = content /\ result # "failed"
    BY <1>3, <2>1
  <2> HIDE DEF content
  <2> QED
    BY <1>1, <1>2, <2>1, RowsBefore DEF RowsAreDones
<1>10. StoredIsSaved' /\ InsertedIsThere'
  <2>1. rows \subseteq rows' /\ saved <= saved' /\ saved \in Nat /\ saved' \in Nat
    BY <1>2, <1>3 DEF Typed
  <2>2. result = "stored" => saved' = n
    BY <1>3
  <2>3. result # "failed" => \E r \in rows' : r.at = n
    <3> DEFINE row == [at |-> n, msg |-> m, content |-> content]
    <3>1. row.at = n /\ (result # "failed" => row \in rows')
      BY <1>3
    <3> HIDE DEF row
    <3> QED
      BY <3>1
  <2>4. StoredIsSaved'
    BY <1>1, <1>2, <2>1, <2>2, RowsBefore DEF StoredIsSaved
  <2>5. InsertedIsThere'
    BY <1>1, <1>2, <2>1, <2>3, RowsBefore DEF InsertedIsThere
  <2> QED
    BY <2>4, <2>5
<1>11. DoneIsWhatWasShown'
  <2>1. \A j \in Time : log[j].op = "done" => Shown(j)'
    BY <1>1, ShownBefore
  <2>2. 1..(n - 1) = Time
    BY <1>2 DEF Time
  <2>3. \A i, k \in Time : Ends(k, i)' <=> Ends(k, i)
    BY <1>2 DEF Ends, IsPiece
  <2>4. \A i \in Time : IsPiece(m, i)' <=> IsPiece(m, i)
    BY <1>2 DEF IsPiece
  <2>5. Range(content) = {i \in 1..(n - 1) : IsPiece(m, i)' /\ \A k \in 1..(n - 1) : ~Ends(k, i)'}
    BY <1>6, <2>2, <2>3, <2>4 DEF Ended
  <2>6. \A a \in 1..Len(content) : content[a] \in Time
    BY <1>0, <1>6 DEF Range
  <2>7. \A a \in 1..Len(content) : log'[content[a]] = log[content[a]]
    BY <1>2, <2>6
  <2>8. Shown(n)'
    <3>1. log'[n].content = content /\ log'[n].msg = m
      BY <1>1, <1>2
    <3>2. \A a, b \in 1..Len(content) : a < b => log'[content[a]].seq < log'[content[b]].seq
      BY <1>0, <2>7
    <3> HIDE DEF content
    <3> QED
      BY <2>5, <3>1, <3>2 DEF Shown, IsPiece
  <2> QED
    BY <1>1, <1>2, <2>1, <2>8 DEF DoneIsWhatWasShown, Shown
<1> QED
  BY <1>4, <1>5, <1>8, <1>9, <1>10, <1>11

LEMMA RestartStep ==
  ASSUME StreamInv, RestartStream
  PROVE  StreamInv'
<1> USE DEF StreamInv
<1>1. PICK e \in Event : Record(e) /\ e.op = "restart"
  BY DEF RestartStream, Event
<1>2. PICK n \in Nat :
        /\ log' \in Seq(Event) /\ Len(log') = n /\ n <= MaxLog
        /\ n = Len(log) + 1 /\ Len(log) \in Nat
        /\ \A i \in Time : log'[i] = log[i] /\ i \in Nat /\ i < n /\ 0 < i
        /\ log'[n] = e
        /\ Time' = Time \cup {n} /\ n \notin Time
  BY <1>1, Recorded
<1>3. /\ streamChunkBuffer' = [m \in MessageId |-> [q \in SeqNo |-> NoChunk]]
      /\ saved' = Len(log')
      /\ rows' \subseteq rows
      /\ \A r \in rows : r.at <= saved => r \in rows'
  <2>1. PICK t \in saved..Len(log) : rows' = {r \in rows : r.at <= t}
    BY DEF RestartStream
  <2>2. \A r \in rows : r.at \in Nat
    BY DEF Typed
  <2>3. \A r \in rows : r.at <= saved => r.at <= t
    BY <1>2, <2>1, <2>2 DEF Typed
  <2> QED
    BY <2>1, <2>3 DEF RestartStream
<1>4. Typed'
  BY <1>2, <1>3 DEF Typed, NoChunk
<1>5. KeptIsPiece'
  BY <1>3 DEF KeptIsPiece
<1>6. \A i \in Time : Ends(n, i)'
  BY <1>1, <1>2 DEF Ends
<1>7. KeptUntilEnded'
  <2>1. ASSUME NEW i \in Time, log[i].op = "chunk"
        PROVE  streamChunkBuffer'[log[i].msg][log[i].seq] # i /\ Ended(i)'
    <3>1. Ended(i)'
      BY <1>1, <1>2, <1>6, <2>1, Extended
    <3>2. log[i] \in Event /\ i # 0
      BY <1>2 DEF Typed, Time
    <3> QED
      BY <1>3, <2>1, <3>1, <3>2 DEF Event, NoChunk
  <2> QED
    BY <1>1, <1>2, <2>1 DEF KeptUntilEnded
<1>8. RowsAreDones' /\ StoredIsSaved'
  BY <1>1, <1>2, <1>3, RowsBefore DEF RowsAreDones, StoredIsSaved
(* A row the restart may have lost was not followed by a stored `done'.     *)
<1>10. InsertedIsThere'
  <2> SUFFICES ASSUME NEW k \in Time, log[k].op = "done", log[k].result # "failed",
                      ~MayBeLost(k)'
               PROVE  \E r \in rows' : r.at = k
    BY <1>1, <1>2 DEF InsertedIsThere
  <2>1. PICK r \in rows : r.at = k
    BY <1>1, <1>2, RowsBefore
  <2>2. k <= saved
    <3>1. CASE log[k].result = "stored"
      BY <3>1 DEF StoredIsSaved
    <3>2. CASE log[k].result = "unsaved"
      <4>1. PICK i \in Time' : /\ k < i /\ i < n
                               /\ log'[i].op = "done" /\ log'[i].result = "stored"
        <5>1. n \in Time' /\ log'[n].op = "restart" /\ k < n /\ log'[k].result = "unsaved"
          BY <1>1, <1>2, <3>2
        <5> QED
          BY <5>1 DEF MayBeLost
      <4>2. i \in Time /\ log'[i] = log[i]
        BY <1>2, <4>1
      <4>3. i <= saved
        BY <4>1, <4>2 DEF StoredIsSaved
      <4> QED
        BY <1>2, <4>1, <4>2, <4>3 DEF Typed
    <3>3. log[k] \in Event
      BY DEF Typed, Time
    <3> QED
      BY <3>1, <3>2, <3>3 DEF Event, Result
  <2> QED
    BY <1>3, <2>1, <2>2
<1>9. DoneIsWhatWasShown'
  <2>1. \A j \in Time : log[j].op = "done" => Shown(j)'
    BY <1>1, ShownBefore
  <2> QED
    BY <1>1, <1>2, <2>1 DEF DoneIsWhatWasShown, Shown
<1> QED
  BY <1>4, <1>5, <1>7, <1>8, <1>9, <1>10

THEOREM StreamInvariant == StreamSpec => []StreamInv
<1>1. StreamInit => StreamInv
  BY DEF StreamInit, StreamInv, Typed, KeptIsPiece, KeptUntilEnded, RowsAreDones,
     StoredIsSaved, InsertedIsThere, DoneIsWhatWasShown, Time, NoChunk
<1>2. StreamInv /\ [StreamNext]_streamVars => StreamInv'
  <2> SUFFICES ASSUME StreamInv, [StreamNext]_streamVars PROVE StreamInv'
    OBVIOUS
  <2>1. ASSUME NEW m \in MessageId, NEW q \in SeqNo, HandleStreamChunk(m, q) PROVE StreamInv'
    BY <2>1, ChunkStep
  <2>2. ASSUME NEW m \in MessageId, NEW result \in Result, HandleStreamDone(m, result)
        PROVE  StreamInv'
    BY <2>2, DoneStep
  <2>3. CASE RestartStream
    BY <2>3, RestartStep
  <2>4. CASE UNCHANGED streamVars
    <3>1. log' = log /\ rows' = rows /\ saved' = saved /\ streamChunkBuffer' = streamChunkBuffer
      BY <2>4 DEF streamVars
    <3>2. /\ \A m, i : IsPiece(m, i)' <=> IsPiece(m, i)
          /\ \A k, i : Ends(k, i)' <=> Ends(k, i)
          /\ Time' = Time
      BY <3>1 DEF Ends, IsPiece, Time
    <3>4. Typed' /\ KeptIsPiece' /\ RowsAreDones' /\ StoredIsSaved'
      BY <3>1, <3>2 DEF StreamInv, Typed, KeptIsPiece, RowsAreDones, StoredIsSaved
    <3>5. KeptUntilEnded'
      <4>1. ASSUME NEW i \in Time, log[i].op = "chunk"
            PROVE  streamChunkBuffer'[log[i].msg][log[i].seq] = i <=> ~Ended(i)'
        <5>1. Ended(i)' <=> Ended(i)
          BY <3>2, Zenon DEF Ended
        <5> QED
          BY <3>1, <4>1, <5>1 DEF StreamInv, KeptUntilEnded
      <4> QED
        BY <3>1, <3>2, <4>1 DEF KeptUntilEnded
    <3>6. InsertedIsThere'
      <4>1. \A k \in Time : MayBeLost(k) => MayBeLost(k)'
        BY <3>1, <3>2 DEF MayBeLost
      <4> QED
        BY <3>1, <3>2, <4>1 DEF StreamInv, InsertedIsThere
    <3>7. DoneIsWhatWasShown'
      BY <3>1, <3>2 DEF StreamInv, DoneIsWhatWasShown
    <3> QED
      BY <3>4, <3>5, <3>6, <3>7 DEF StreamInv
  <2> QED
    BY <2>1, <2>2, <2>3, <2>4 DEF StreamNext
<1> QED BY <1>1, <1>2, PTL DEF StreamSpec

(* A `done' brings the text a tab has put together since the last one. *)
THEOREM DoneBringsShown == StreamSpec => []DoneIsWhatWasShown
<1>1. StreamInv => DoneIsWhatWasShown
  BY DEF StreamInv
<1> QED BY <1>1, StreamInvariant, PTL

(* What came first of what ends a piece's life, if it is a `done' whose     *)
(* INSERT succeeded.                                                        *)
InsertedBy(i) ==
  {k \in Time : /\ Ends(k, i) /\ \A j \in Time : Ends(j, i) => k <= j
                /\ log[k].op = "done" /\ log[k].result # "failed"}

(* A `done' brings a piece if and only if it is the first to end its life.  *)
LEMMA BroughtByFirst ==
  ASSUME StreamInv, NEW i \in Time, log[i].op = "chunk",
         NEW k \in Time, log[k].op = "done"
  PROVE  i \in Range(log[k].content)
           <=> Ends(k, i) /\ \A j \in Time : Ends(j, i) => k <= j
<1>1. /\ Range(log[k].content) =
           {p \in 1..(k - 1) : IsPiece(log[k].msg, p) /\ \A j \in 1..(k - 1) : ~Ends(j, p)}
      /\ Len(log) \in Nat
  BY DEF StreamInv, DoneIsWhatWasShown, Typed
<1>2. i \in Nat /\ k \in Nat /\ 0 < i /\ \A j \in Time : j \in Nat /\ 0 < j
  BY <1>1 DEF Time
<1>3. Ends(k, i) <=> i < k /\ log[k].msg = log[i].msg
  BY <1>2 DEF Ends, IsPiece
<1>4. (\A j \in 1..(k - 1) : ~Ends(j, i)) <=> \A j \in Time : Ends(j, i) => k <= j
  <2>1. \A j : j \in 1..(k - 1) <=> j \in Time /\ j < k
    BY <1>1, <1>2 DEF Time
  <2> QED
    BY <1>2, <2>1
<1>5. i \in 1..(k - 1) <=> i < k
  BY <1>2
<1> QED
  BY <1>1, <1>3, <1>4, <1>5 DEF IsPiece

(* Every accepted piece is kept, in the one message of its reply that its   *)
(* first `done' inserted unless that may be lost, or in none for a cause.   *)
THEOREM PiecesHaveOneFate == StreamSpec => []EveryPieceHasOneFate
<1>1. StreamInv => EveryPieceHasOneFate
  <2> DEFINE in(i) == {r \in rows : i \in Range(r.content)}
  <2> SUFFICES ASSUME StreamInv, NEW i \in Time, log[i].op = "chunk"
               PROVE  /\ streamChunkBuffer[log[i].msg][log[i].seq] = i
                           <=> {k \in Time : Ends(k, i)} = {}
                      /\ Cardinality(in(i)) <= Cardinality(InsertedBy(i))
                      /\ in(i) = {} => \A k \in InsertedBy(i) : MayBeLost(k)
                      /\ \A r \in in(i) : r.at \in InsertedBy(i) /\ r.msg = log[i].msg
    <3>1. ASSUME NEW i
          PROVE  {k \in {j \in Time : Ends(j, i)} :
                    /\ \A j \in {l \in Time : Ends(l, i)} : k <= j
                    /\ log[k].op = "done" /\ log[k].result # "failed"} = InsertedBy(i)
      BY DEF InsertedBy
    <3> QED
      BY <3>1 DEF EveryPieceHasOneFate
  <2>1. streamChunkBuffer[log[i].msg][log[i].seq] = i <=> {k \in Time : Ends(k, i)} = {}
    BY DEF StreamInv, KeptUntilEnded, Ended
  <2>2. ASSUME NEW r \in in(i) PROVE r.at \in InsertedBy(i) /\ r.msg = log[i].msg
    <3>1. /\ r.at \in Time /\ log[r.at].op = "done" /\ log[r.at].result # "failed"
          /\ log[r.at].msg = r.msg /\ i \in Range(log[r.at].content)
      BY <2>2 DEF StreamInv, RowsAreDones
    <3>2. r.at \in InsertedBy(i)
      BY <3>1, BroughtByFirst DEF InsertedBy
    <3>3. log[r.at].msg = log[i].msg
      BY <3>1, <3>2 DEF InsertedBy, Ends, IsPiece
    <3> QED
      BY <3>1, <3>2, <3>3
  <2>3. ASSUME in(i) = {}, NEW k \in InsertedBy(i) PROVE MayBeLost(k)
    <3>1. /\ k \in Time /\ log[k].op = "done" /\ log[k].result # "failed"
          /\ i \in Range(log[k].content)
      BY BroughtByFirst DEF InsertedBy
    <3>2. ASSUME NEW r \in rows, r.at = k PROVE FALSE
      BY <2>3, <3>1, <3>2 DEF StreamInv, RowsAreDones
    <3> QED
      BY <3>1, <3>2 DEF StreamInv, InsertedIsThere
  <2>4. \A k, l \in InsertedBy(i) : k = l
    <3>1. \A k \in Time : k \in Nat
      BY DEF Time
    <3> QED
      BY <3>1 DEF InsertedBy
  <2>5. \A r, t \in in(i) : r = t
    <3> SUFFICES ASSUME NEW r \in in(i), NEW t \in in(i) PROVE r = t
      OBVIOUS
    <3>1. r.at = t.at
      BY <2>2, <2>4
    <3>2. r.msg = t.msg /\ r.content = t.content
      BY <3>1 DEF StreamInv, RowsAreDones
    <3>3. r \in [at : Nat, msg : MessageId, content : Seq(Nat)]
          /\ t \in [at : Nat, msg : MessageId, content : Seq(Nat)]
      BY DEF StreamInv, Typed
    <3> QED
      BY <3>1, <3>2, <3>3
  <2>6. Cardinality(in(i)) <= Cardinality(InsertedBy(i))
    <3>1. InsertedBy(i) = {} \/ \E k : InsertedBy(i) = {k}
      BY <2>4
    <3>2. in(i) = {} \/ \E r : in(i) = {r}
      BY <2>5
    <3>3. InsertedBy(i) = {} => in(i) = {}
      BY <2>2
    <3>4. Cardinality({}) = 0 /\ \A x : Cardinality({x}) = 1
      BY FS_EmptySet, FS_Singleton
    <3> DEFINE A == in(i)
               B == InsertedBy(i)
    <3>5. (B = {} \/ \E k : B = {k}) /\ (A = {} \/ \E k : A = {k}) /\ (B = {} => A = {})
      BY <3>1, <3>2, <3>3
    <3>6. Cardinality(A) \in {0, 1} /\ Cardinality(B) \in {0, 1}
      <4> HIDE DEF A, B
      <4> QED
        BY <3>4, <3>5
    <3>7. Cardinality(B) = 0 => Cardinality(A) = 0
      <4> HIDE DEF A, B
      <4> QED
        BY <3>4, <3>5
    <3> HIDE DEF A, B
    <3>8. Cardinality(A) <= Cardinality(B)
      BY <3>6, <3>7
    <3> QED
      BY <3>8 DEF A, B
  <2> QED
    BY <2>1, <2>2, <2>3, <2>6
<1> QED BY <1>1, StreamInvariant, PTL
=============================================================================
