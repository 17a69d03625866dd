--------------------------- MODULE TabStreamProofs ---------------------------
(***************************************************************************)
(* Proofs about SseManager and TabStream for any number of channels, tabs  *)
(* and replies and any buffer limit: the event streams are a resumable     *)
(* feed, and a tab that followed a reply shows its text.                   *)
(*                                                                         *)
(* First SseManager on its own: what is due to a client is on its way,     *)
(* given up, or will be replayed (SseInv).  Then the composition: what     *)
(* StreamRelayProofs knows of the relay's log (RelayOK), which entry a     *)
(* frame carries (ItemsOK), and that the tab shows the text of the entries *)
(* it has seen of a reply it can have followed (ShownOK).                  *)
(***************************************************************************)
EXTENDS TabStream, FiniteSetTheorems, WellFoundedInduction, TLAPS

USE SseAssumption

-----------------------------------------------------------------------------
(* Sorting frames, or buffered chunks, by their ids.                        *)
Distinct(S)   == /\ \A f \in S : f.seq \in Seqs
                 /\ \A f, g \in S : f.seq = g.seq => f = g
Earlier(S, f) == {g \in S : g.seq < f.seq}

(* Ids are bounded, so there are only so many frames with different ones. *)
LEMMA DistinctFinite ==
  ASSUME NEW S, Distinct(S)
  PROVE  /\ IsFiniteSet(S) /\ Cardinality(S) \in Nat
         /\ \A f \in S : f.seq \in Nat
<1> DEFINE id == [f \in S |-> f.seq]
<1>1. \A f \in S : f.seq \in Seqs /\ f.seq \in Nat
  BY DEF Distinct, Seqs
<1>2. id \in Injection(S, Seqs)
  BY <1>1 DEF Distinct, Injection, IsInjective
<1>3. IsFiniteSet(Seqs)
  BY FS_Interval DEF Seqs
<1> QED
  BY <1>1, <1>2, <1>3, FS_Injection, FS_CardinalityType

(* Later frames have more before them, and fewer than there are.            *)
LEMMA EarlierGrows ==
  ASSUME NEW S, Distinct(S)
  PROVE  /\ \A f \in S : Cardinality(Earlier(S, f)) \in 0..(Cardinality(S) - 1)
         /\ \A f, g \in S : f.seq < g.seq
              => Cardinality(Earlier(S, f)) < Cardinality(Earlier(S, g))
<1>1. IsFiniteSet(S) /\ Cardinality(S) \in Nat /\ \A f \in S : f.seq \in Nat
  BY DistinctFinite
<1>2. ASSUME NEW f \in S
      PROVE  /\ IsFiniteSet(Earlier(S, f))
             /\ Cardinality(Earlier(S, f)) \in 0..(Cardinality(S) - 1)
  <2>1. Earlier(S, f) \in SUBSET (S \ {f})
    BY <1>1 DEF Earlier
  <2>2. IsFiniteSet(S \ {f}) /\ Cardinality(S \ {f}) = Cardinality(S) - 1
    BY <1>1, FS_RemoveElement
  <2>3. IsFiniteSet(Earlier(S, f)) /\ Cardinality(Earlier(S, f)) <= Cardinality(S) - 1
    BY <2>1, <2>2, FS_Subset
  <2> QED
    BY <1>1, <2>3, FS_CardinalityType
<1>3. ASSUME NEW f \in S, NEW g \in S, f.seq < g.seq
      PROVE  Cardinality(Earlier(S, f)) < Cardinality(Earlier(S, g))
  <2>1. Earlier(S, f) \in SUBSET Earlier(S, g) /\ f \in Earlier(S, g) /\ f \notin Earlier(S, f)
    <3>1. \A h \in S : h.seq < f.seq => h.seq < g.seq
      BY <1>1, <1>3
    <3> QED
      BY <1>1, <1>3, <3>1 DEF Earlier
  <2>2. Cardinality(Earlier(S, f)) <= Cardinality(Earlier(S, g))
    BY <1>2, <2>1, FS_Subset
  <2>3. Cardinality(Earlier(S, f)) # Cardinality(Earlier(S, g))
    BY <1>2, <2>1, FS_Subset
  <2> QED
    BY <1>2, <2>2, <2>3
<1> QED
  BY <1>2, <1>3

(* The result has every frame of the set, and its ids grow. *)
LEMMA SortedFrames ==
  ASSUME NEW S, Distinct(S)
  PROVE  LET w == Sorted(S, LAMBDA f, g : f.seq < g.seq) IN
         /\ w \in Seq(S)
         /\ \A i \in 1..Len(w) : w[i] \in S
         /\ \A f \in S : \E i \in 1..Len(w) : w[i] = f
         /\ \A i, j \in 1..Len(w) : i < j => w[i].seq < w[j].seq
<1> DEFINE w    == Sorted(S, LAMBDA f, g : f.seq < g.seq)
           n    == Cardinality(S)
           rank == [f \in S |-> Cardinality(Earlier(S, f)) + 1]
<1>1. /\ IsFiniteSet(S) /\ n \in Nat /\ IsFiniteSet(1..n) /\ Cardinality(1..n) = n
      /\ \A f \in S : f.seq \in Nat
  BY DistinctFinite, FS_Interval
<1>2. rank \in [S -> 1..n]
  BY <1>1, EarlierGrows
<1>3. ASSUME NEW f \in S, NEW g \in S, rank[f] = rank[g] PROVE f = g
  <2>1. /\ Cardinality(Earlier(S, f)) = Cardinality(Earlier(S, g))
        /\ Cardinality(Earlier(S, f)) \in Nat /\ Cardinality(Earlier(S, g)) \in Nat
    BY <1>3, EarlierGrows
  <2>2. ~(f.seq < g.seq) /\ ~(g.seq < f.seq)
    BY <2>1, EarlierGrows
  <2> QED
    BY <1>1, <2>2 DEF Distinct
<1>4. rank \in Surjection(S, 1..n)
  BY <1>1, <1>2, <1>3, FS_Injection DEF Injection, IsInjective
<1>5. \A i \in 1..n : \E f \in S : Cardinality(Earlier(S, f)) = i - 1
  <2> SUFFICES ASSUME NEW i \in 1..n PROVE \E f \in S : Cardinality(Earlier(S, f)) = i - 1
    OBVIOUS
  <2>1. PICK f \in S : rank[f] = i
    BY <1>4 DEF Surjection
  <2>2. Cardinality(Earlier(S, f)) = i - 1
    BY <2>1, EarlierGrows
  <2> QED
    BY <2>2
<1>6. w = [i \in 1..n |-> CHOOSE f \in S : Cardinality(Earlier(S, f)) = i - 1]
  BY DEF Sorted, Earlier
<1> HIDE DEF w
<1>7. \A i \in 1..n : w[i] \in S /\ Cardinality(Earlier(S, w[i])) = i - 1
  BY <1>5, <1>6
<1>8. w \in Seq(S) /\ Len(w) = n
  <2>1. w \in [1..n -> S]
    BY <1>1, <1>6, <1>7
  <2> QED
    BY <1>1, <2>1
<1>9. ASSUME NEW f \in S PROVE \E i \in 1..n : w[i] = f
  <2>1. rank[f] \in 1..n
    BY <1>2
  <2>2. w[rank[f]] \in S /\ Cardinality(Earlier(S, w[rank[f]])) = rank[f] - 1
    BY <1>7, <2>1
  <2>3. rank[w[rank[f]]] = rank[f]
    BY <2>1, <2>2
  <2> QED
    BY <1>3, <2>1, <2>2, <2>3
<1>10. ASSUME NEW i \in 1..n, NEW j \in 1..n, i < j PROVE w[i].seq < w[j].seq
  <2>1. /\ w[i] \in S /\ w[j] \in S
        /\ Cardinality(Earlier(S, w[i])) = i - 1 /\ Cardinality(Earlier(S, w[j])) = j - 1
    BY <1>7
  <2>2. ~(w[j].seq < w[i].seq)
    <3>1. w[j].seq < w[i].seq => j - 1 < i - 1
      BY <2>1, EarlierGrows
    <3> QED
      BY <1>1, <1>10, <3>1
  <2>3. w[i].seq # w[j].seq
    <3>1. w[i] # w[j]
      BY <1>1, <1>10, <2>1
    <3> QED
      BY <2>1, <3>1 DEF Distinct
  <2> QED
    BY <1>1, <2>1, <2>2, <2>3
<1> QED
  BY <1>7, <1>8, <1>9, <1>10 DEF w

(* A full buffer has an oldest chunk. *)
LEMMA OldestExists ==
  ASSUME NEW S, Distinct(S), Cardinality(S) # 0
  PROVE  LET e == CHOOSE e \in S : \A f \in S : e.seq <= f.seq
         IN e \in S /\ \A f \in S : e.seq <= f.seq
<1> DEFINE w == Sorted(S, LAMBDA f, g : f.seq < g.seq)
<1>1. /\ w \in Seq(S)
      /\ \A i \in 1..Len(w) : w[i] \in S
      /\ \A f \in S : \E i \in 1..Len(w) : w[i] = f
      /\ \A i, j \in 1..Len(w) : i < j => w[i].seq < w[j].seq
  BY SortedFrames
<1>2. \A f \in S : f.seq \in Nat
  BY DistinctFinite
<1> HIDE DEF w
<1>3. S # {}
  BY FS_EmptySet
<1>4. Len(w) \in Nat /\ 1 \in 1..Len(w)
  BY <1>1, <1>3
<1>5. ASSUME NEW f \in S PROVE w[1].seq <= f.seq
  <2>1. PICK i \in 1..Len(w) : w[i] = f
    BY <1>1
  <2>2. CASE i = 1
    BY <1>2, <2>1, <2>2
  <2>3. CASE 1 < i
    <3>1. w[1].seq < f.seq
      BY <1>1, <1>4, <2>1, <2>3
    <3>2. w[1].seq \in Nat /\ f.seq \in Nat
      BY <1>1, <1>2, <1>4
    <3> QED
      BY <3>1, <3>2
  <2> QED
    BY <1>4, <2>2, <2>3
<1>6. w[1] \in S
  BY <1>1, <1>4
<1> QED
  BY <1>5, <1>6

-----------------------------------------------------------------------------
(* The chunks of the log are in the buffer or given up, each under its id.  *)
BufferOK ==
  /\ \A l \in log : l.seq < seqCounter
  /\ \A l, h \in log : l.seq = h.seq => l = h
  /\ \A e \in chunkBuffer : [seq |-> e.seq, slot |-> e.slot] \in log
  /\ \A e, f \in chunkBuffer : e.seq = f.seq => e = f
  /\ \A l \in log : l.seq \in expired \/ \E e \in chunkBuffer : e.seq = l.seq

(* A frame says truly whether it is a chunk.                                *)
FrameOK(f) ==
  /\ f.seq < seqCounter
  /\ IF f.kind = "chunk" THEN [seq |-> f.seq, slot |-> f.slot] \in log
     ELSE \A l \in log : l.seq # f.seq

On(k) == {wire[k][i].seq : i \in 1..Len(wire[k])}

(* The frames under way to a client, which has a connection if there are.   *)
WireOK(k) ==
  /\ link[k] # None => [seq |-> link[k], client |-> k] \in conns
  /\ wire[k] # << >> => link[k] # None
  /\ \A i \in 1..Len(wire[k]) : FrameOK(wire[k][i])
  /\ \A i, j \in 1..Len(wire[k]) : i < j => wire[k][i].seq < wire[k][j].seq

(* What a client has got of this process lies between its first frame and   *)
(* its last, where it skipped only what was given up.                       *)
GotOK(k) ==
  IF start[k] = None THEN got[k] = {}
  ELSE /\ lastId[k] # None /\ start[k] <= lastId[k] /\ lastId[k] < seqCounter
       /\ \A n \in On(k) : lastId[k] < n
       /\ \A n \in got[k] : start[k] <= n /\ n <= lastId[k]
       /\ \A n \in Own(k) : start[k] < n /\ n <= lastId[k] => n \in got[k] \cup expired

(* What it has not got yet is on its way, unless it came before it began.   *)
Due(k, n) == (start[k] # None /\ n > lastId[k]) \/ \E p \in On(k) : n > p
DueIsOn(k) ==
  link[k] # None => \A n \in Own(k) : Due(k, n) => n \in On(k) \cup expired

SseInv ==
  /\ SseTypeOK
  /\ BufferOK
  /\ \A k \in Client : WireOK(k) /\ GotOK(k) /\ DueIsOn(k)

-----------------------------------------------------------------------------
(* The ids that occur are numbers. *)
LEMMA SeqNats ==
  ASSUME SseTypeOK
  PROVE  /\ seqCounter \in Nat /\ None \notin Seqs /\ Seqs \subseteq Nat
         /\ \A l \in log : l.seq \in Nat /\ l.slot \in Channel
         /\ \A e \in chunkBuffer : e \in Entry /\ e.seq \in Nat /\ e.slot \in Channel
         /\ \A k \in Client :
              /\ wire[k] \in Seq(Frame) /\ Len(wire[k]) \in Nat
              /\ \A i \in 1..Len(wire[k]) : wire[k][i] \in Frame /\ wire[k][i].seq \in Nat
              /\ lastId[k] # None => lastId[k] \in Nat
              /\ start[k] # None => start[k] \in Nat
              /\ got[k] \subseteq Nat /\ On(k) \subseteq Nat /\ Own(k) \subseteq Nat
<1>1. seqCounter \in Nat /\ None \notin Seqs /\ Seqs \subseteq Nat
  BY DEF SseTypeOK, Seqs
<1>2. \A l \in log : l.seq \in Nat /\ l.slot \in Channel
  BY <1>1 DEF SseTypeOK
<1>3. \A e \in chunkBuffer : e \in Entry /\ e.seq \in Nat /\ e.slot \in Channel
  BY <1>1 DEF SseTypeOK, Entry
<1>4. ASSUME NEW k \in Client
      PROVE  /\ wire[k] \in Seq(Frame) /\ Len(wire[k]) \in Nat
             /\ \A i \in 1..Len(wire[k]) : wire[k][i] \in Frame /\ wire[k][i].seq \in Nat
             /\ lastId[k] # None => lastId[k] \in Nat
             /\ start[k] # None => start[k] \in Nat
             /\ got[k] \subseteq Nat /\ On(k) \subseteq Nat /\ Own(k) \subseteq Nat
  <2>1. wire[k] \in Seq(Frame)
    BY DEF SseTypeOK
  <2>2. Len(wire[k]) \in Nat /\ \A i \in 1..Len(wire[k]) : wire[k][i] \in Frame
    BY <2>1
  <2>3. \A f \in Frame : f.seq \in Nat
    BY <1>1 DEF Frame
  <2>4. On(k) \subseteq Nat
    BY <2>2, <2>3 DEF On
  <2>5. Own(k) \subseteq Nat
    BY <1>2 DEF Own
  <2>6. /\ lastId[k] # None => lastId[k] \in Nat
        /\ start[k] # None => start[k] \in Nat
        /\ got[k] \subseteq Nat
    BY <1>1 DEF SseTypeOK
  <2> QED
    BY <2>1, <2>2, <2>3, <2>4, <2>5, <2>6
<1> QED
  BY <1>1, <1>2, <1>3, <1>4

(* A frame with the counter's number, written to the connections of some    *)
(* slots, keeps what is known of the clients.                               *)
LEMMA Written ==
  ASSUME SseInv, NEW frame \in Frame, NEW slots, WriteFrame(frame, slots),
         frame.seq = seqCounter, NextSeq, FrameOK(frame)',
         log \subseteq log', \A l \in log' \ log : l.seq = seqCounter /\ l.slot \in slots,
         expired \subseteq expired',
         UNCHANGED <<conns, link, lastId, start, got>>,
         NEW k \in Client
  PROVE  WireOK(k)' /\ GotOK(k)' /\ DueIsOn(k)' /\ wire'[k] \in Seq(Frame)
<1> USE DEF SseInv
<1>1. WireOK(k) /\ GotOK(k) /\ DueIsOn(k)
  OBVIOUS
<1>2. seqCounter \in Nat /\ seqCounter' = seqCounter + 1
  BY SeqNats DEF NextSeq
<1>3. /\ wire[k] \in Seq(Frame) /\ Len(wire[k]) \in Nat
      /\ \A i \in 1..Len(wire[k]) : wire[k][i] \in Frame /\ wire[k][i].seq \in Nat
      /\ lastId[k] # None => lastId[k] \in Nat
      /\ start[k] # None => start[k] \in Nat
      /\ got[k] \subseteq Nat /\ On(k) \subseteq Nat /\ Own(k) \subseteq Nat
  BY SeqNats
<1>4. link[k] = None => [seq |-> link[k], client |-> k] \notin conns
  BY SeqNats DEF SseTypeOK
<1>5. \A f \in Frame : FrameOK(f) => FrameOK(f)' /\ f.seq < seqCounter
  <2>1. \A f \in Frame : f.seq \in Nat
    BY SeqNats DEF Frame
  <2> QED
    BY <1>2, <2>1 DEF FrameOK
<1>6. /\ \A n \in Own(k) : n \in Own(k)' /\ n < seqCounter
      /\ \A n \in Own(k)' : n \in Own(k) \/ (n = seqCounter /\ SlotOf[k] \in slots)
  <2>1. \A n : n \in Own(k) <=> \E l \in log : l.slot = SlotOf[k] /\ l.seq = n
    BY DEF Own
  <2>2. \A n : n \in Own(k)' <=> \E l \in log' : l.slot = SlotOf[k] /\ l.seq = n
    BY DEF Own
  <2>3. \A l \in log : l.seq < seqCounter
    BY DEF BufferOK
  <2>4. ASSUME NEW n \in Own(k) PROVE n \in Own(k)' /\ n < seqCounter
    BY <2>1, <2>2, <2>3
  <2>5. ASSUME NEW n \in Own(k)' PROVE n \in Own(k) \/ (n = seqCounter /\ SlotOf[k] \in slots)
    BY <2>1, <2>2
  <2> QED
    BY <2>4, <2>5
<1>7. \A n \in On(k) : n \in Nat /\ n < seqCounter
  BY <1>1, <1>3, <1>5 DEF On, WireOK
<1>8. /\ WireOK(k)' /\ wire'[k] \in Seq(Frame)
      /\ \/ On(k)' = On(k) \cup {seqCounter} /\ SlotOf[k] \in slots /\ link[k] # None
         \/ On(k)' = On(k) /\ ~(SlotOf[k] \in slots /\ link[k] # None)
  <2>1. CASE SlotOf[k] \in slots /\ link[k] # None
    <3>1. wire'[k] = Append(wire[k], frame)
      BY <1>1, <2>1 DEF WriteFrame, WireOK
    <3> DEFINE w == wire[k]
               v == wire'[k]
    <3>2. /\ v \in Seq(Frame) /\ Len(v) = Len(w) + 1 /\ v[Len(v)] = frame
          /\ \A i \in 1..Len(w) : v[i] = w[i]
          /\ \A i \in 1..Len(v) : i \in 1..Len(w) \/ i = Len(v)
          /\ Len(v) \in 1..Len(v)
      BY <1>3, <3>1
    <3>3. WireOK(k)'
      <4>1. /\ \A i \in 1..Len(w) : FrameOK(w[i]) /\ w[i] \in Frame
            /\ \A i, j \in 1..Len(w) : i < j => w[i].seq < w[j].seq
        BY <1>1, <1>3 DEF WireOK
      <4> HIDE DEF w, v
      <4>2. ASSUME NEW i \in 1..Len(v) PROVE FrameOK(wire[k][i])'
        <5>1. CASE i \in 1..Len(w)
          <6>1. PICK f \in Frame : f = w[i] /\ FrameOK(f)
            BY <4>1, <5>1
          <6>2. wire'[k][i] = f /\ FrameOK(f)'
            BY <1>5, <3>2, <5>1, <6>1 DEF v
          <6> QED
            BY <6>2 DEF FrameOK
        <5>2. CASE i = Len(v)
          <6>1. wire'[k][i] = frame
            BY <3>2, <5>2 DEF v
          <6> QED
            BY <6>1 DEF FrameOK
        <5> QED
          BY <3>2, <5>1, <5>2
      <4>3. ASSUME NEW i \in 1..Len(v), NEW j \in 1..Len(v), i < j PROVE v[i].seq < v[j].seq
        <5>1. i \in 1..Len(w)
          BY <3>2, <4>3
        <5>2. v[i].seq < seqCounter /\ v[i] = w[i]
          BY <1>5, <3>2, <4>1, <5>1
        <5>3. CASE j \in 1..Len(w)
          BY <3>2, <4>1, <4>3, <5>1, <5>3
        <5>4. CASE j = Len(v)
          BY <3>2, <5>2, <5>4
        <5> QED
          BY <3>2, <5>3, <5>4
      <4> QED
        BY <1>1, <2>1, <4>2, <4>3 DEF WireOK, v
    <3>4. On(k)' = On(k) \cup {seqCounter}
      <4>1. On(k) = {w[i].seq : i \in 1..Len(w)} /\ On(k)' = {v[i].seq : i \in 1..Len(v)}
        BY DEF On
      <4> HIDE DEF w, v
      <4>2. \A i \in 1..Len(w) : i \in 1..Len(v)
        BY <3>2
      <4>3. \A x \in On(k)' : x \in On(k) \cup {seqCounter}
        BY <3>2, <4>1
      <4>4. \A x \in On(k) : x \in On(k)'
        BY <3>2, <4>1, <4>2
      <4>5. seqCounter \in On(k)'
        BY <3>2, <4>1
      <4> QED
        BY <4>3, <4>4, <4>5
    <3> QED
      BY <2>1, <3>2, <3>3, <3>4
  <2>2. CASE ~(SlotOf[k] \in slots /\ link[k] # None)
    <3>1. wire'[k] = wire[k]
      BY <1>4, <2>2 DEF WriteFrame
    <3>2. WireOK(k)'
      BY <1>1, <1>3, <1>5, <3>1 DEF WireOK
    <3> QED
      BY <1>3, <2>2, <3>1, <3>2 DEF On
  <2> QED
    BY <2>1, <2>2
<1>9. GotOK(k)'
  <2>1. CASE start[k] = None
    BY <1>1, <2>1 DEF GotOK
  <2>2. CASE start[k] # None
    <3>1. /\ lastId[k] # None /\ start[k] <= lastId[k] /\ lastId[k] < seqCounter
          /\ \A n \in On(k) : lastId[k] < n
          /\ \A n \in got[k] : start[k] <= n /\ n <= lastId[k]
          /\ \A n \in Own(k) : start[k] < n /\ n <= lastId[k] => n \in got[k] \cup expired
      BY <1>1, <2>2 DEF GotOK
    <3>2. \A n \in On(k)' : lastId[k] < n
      BY <1>8, <3>1
    <3>3. lastId[k] < seqCounter'
      BY <1>2, <1>3, <3>1
    <3>4. \A n \in Own(k)' : start[k] < n /\ n <= lastId[k] => n \in got[k] \cup expired'
      BY <1>2, <1>3, <1>6, <3>1
    <3> QED
      BY <2>2, <3>1, <3>2, <3>3, <3>4 DEF GotOK
  <2> QED
    BY <2>1, <2>2
<1>10. DueIsOn(k)'
  <2> SUFFICES ASSUME link[k] # None, NEW n \in Own(k)', Due(k, n)'
               PROVE  n \in On(k)' \cup expired'
    BY DEF DueIsOn
  <2>1. CASE n = seqCounter /\ SlotOf[k] \in slots
    BY <1>8, <2>1
  <2>2. CASE n \in Own(k)
    <3>1. n < seqCounter /\ n \in Nat
      BY <1>3, <1>6, <2>2
    <3>2. \A p \in On(k)' : p \in On(k) \/ ~(n > p)
      BY <1>2, <1>8, <3>1
    <3>3. Due(k, n)
      BY <3>2 DEF Due
    <3> QED
      BY <1>1, <1>8, <2>2, <3>3 DEF DueIsOn
  <2> QED
    BY <1>6, <2>1, <2>2
<1> QED
  BY <1>8, <1>9, <1>10

-----------------------------------------------------------------------------
(* A chunk goes into the buffer, to the followers and into the history. *)
LEMMA BroadcastChunkStep ==
  ASSUME SseInv, NEW c \in Channel, NEW m \in MessageId, BroadcastChunk(c, m)
  PROVE  SseInv'
<1>0. PICK n \in Seqs : n = seqCounter
  BY SeqNats DEF SseInv, BroadcastChunk, NextSeq, Seqs
<1> DEFINE entry == [seq |-> n, key |-> m, slot |-> c]
           frame == [seq |-> n, kind |-> "chunk", slot |-> c]
           new   == [seq |-> n, slot |-> c]
           buf   == {e \in chunkBuffer : e.key = m}
           gone  == IF Cardinality(buf) < MaxBufferEntries THEN {}
                    ELSE {CHOOSE e \in buf : \A f \in buf : e.seq <= f.seq}
<1> USE DEF SseInv
<1>1. /\ NextSeq /\ WriteFrame(frame, {c})
      /\ chunkBuffer' = (chunkBuffer \ gone) \cup {entry}
      /\ expired' = expired \cup {e.seq : e \in gone}
      /\ log' = log \cup {new}
      /\ UNCHANGED <<conns, link, lastId, start, got>>
  BY <1>0 DEF BroadcastChunk, AddToBuffer
<1>2. n \in Nat /\ seqCounter' = n + 1 /\ seqCounter' \in 0..MaxSeq
  BY <1>0, <1>1, SeqNats DEF NextSeq, Seqs, SseTypeOK
<1>3. gone \subseteq chunkBuffer
  <2>1. Distinct(buf)
    BY DEF Distinct, BufferOK, SseTypeOK, Entry
  <2>2. Cardinality(buf) \in Nat
    BY <2>1, DistinctFinite
  <2>3. buf \subseteq chunkBuffer
    OBVIOUS
  <2> HIDE DEF buf
  <2> QED
    BY <2>1, <2>2, <2>3, OldestExists
<1> HIDE DEF gone, buf
<1>4. frame \in Frame /\ entry \in Entry /\ new \in [seq : Seqs, slot : Channel]
  BY DEF Frame, Entry, Slot
<1>5. /\ frame.seq = n /\ frame.kind = "chunk" /\ frame.slot = c
      /\ entry.seq = n /\ entry.slot = c /\ new.seq = n /\ new.slot = c
      /\ new = [seq |-> n, slot |-> c]
  OBVIOUS
<1> HIDE DEF frame, entry, new
<1>9. FrameOK(frame)'
  BY <1>1, <1>2, <1>5 DEF FrameOK
<1>6. BufferOK'
  <2>1. \A l \in log : l.seq < n /\ l.seq # n
    BY <1>0, <1>2, SeqNats DEF BufferOK
  <2>2. \A l \in log' : l.seq < seqCounter'
    BY <1>1, <1>2, <1>5, <2>1, SeqNats
  <2>3. \A l, h \in log' : l.seq = h.seq => l = h
    BY <1>1, <1>5, <2>1 DEF BufferOK
  <2>4. \A e \in chunkBuffer' : [seq |-> e.seq, slot |-> e.slot] \in log'
    BY <1>1, <1>5 DEF BufferOK
  <2>5. \A e \in chunkBuffer : e.seq # n
    BY <2>1, SeqNats DEF BufferOK
  <2>6. \A e, f \in chunkBuffer' : e.seq = f.seq => e = f
    BY <1>1, <1>5, <2>5 DEF BufferOK
  <2>7. ASSUME NEW l \in log' PROVE l.seq \in expired' \/ \E e \in chunkBuffer' : e.seq = l.seq
    <3>1. CASE l = new
      <4>1. entry \in chunkBuffer' /\ entry.seq = l.seq
        BY <1>1, <1>5, <3>1
      <4> QED
        BY <4>1
    <3>2. CASE l \in log /\ l.seq \in expired
      BY <1>1, <3>2
    <3>3. ASSUME NEW e \in chunkBuffer, e.seq = l.seq
          PROVE  l.seq \in expired' \/ \E f \in chunkBuffer' : f.seq = l.seq
      BY <1>1, <3>3
    <3> QED
      BY <1>1, <3>1, <3>2, <3>3 DEF BufferOK
  <2> QED
    BY <2>2, <2>3, <2>4, <2>6, <2>7 DEF BufferOK
<1>7. /\ log \subseteq log' /\ expired \subseteq expired'
      /\ \A l \in log' \ log : l.seq = seqCounter /\ l.slot \in {c}
      /\ frame.seq = seqCounter
  BY <1>0, <1>1, <1>5
<1>8. \A k \in Client : WireOK(k)' /\ GotOK(k)' /\ DueIsOn(k)' /\ wire'[k] \in Seq(Frame)
  BY <1>1, <1>4, <1>7, <1>9, Written
<1>10. SseTypeOK'
  <2>1. wire' \in [Client -> Seq(Frame)]
    BY <1>1, <1>8 DEF WriteFrame
  <2>2. chunkBuffer' \subseteq Entry /\ log' \subseteq [seq : Seqs, slot : Channel]
    BY <1>1, <1>4 DEF SseTypeOK
  <2>3. expired' \subseteq Seqs
    BY <1>1, <1>3 DEF SseTypeOK, Entry
  <2> QED
    BY <1>1, <1>2, <2>1, <2>2, <2>3 DEF SseTypeOK
<1> QED
  BY <1>6, <1>8, <1>10

(* A frame that is no chunk, with or without chunks given up.               *)
LEMMA OtherFrameStep ==
  ASSUME SseInv, NEW slot \in Slot, NEW slots, NEW old \in SUBSET chunkBuffer,
         NextSeq, WriteFrame([seq |-> seqCounter, kind |-> "other", slot |-> slot], slots),
         chunkBuffer' = chunkBuffer \ old, expired' = expired \cup {e.seq : e \in old},
         UNCHANGED <<conns, link, lastId, log, start, got>>
  PROVE  SseInv'
<1>0. PICK n \in Seqs : n = seqCounter
  BY SeqNats DEF SseInv, NextSeq, Seqs
<1> DEFINE frame == [seq |-> n, kind |-> "other", slot |-> slot]
<1> USE DEF SseInv
<1>1. /\ seqCounter \in Seqs /\ seqCounter \in Nat /\ seqCounter' = seqCounter + 1
      /\ seqCounter' \in 0..MaxSeq
  BY DEF NextSeq, Seqs, SseTypeOK
<1>2. \A l \in log : l.seq < seqCounter /\ l.seq # seqCounter
  BY <1>1, SeqNats DEF BufferOK
<1>6. frame \in Frame /\ frame.seq = n /\ frame.kind = "other" /\ WriteFrame(frame, slots)
  BY <1>0 DEF Frame
<1> HIDE DEF frame
<1>3. FrameOK(frame)' /\ frame.seq = seqCounter
  BY <1>0, <1>1, <1>2, <1>6 DEF FrameOK
<1>4. BufferOK'
  <2>1. \A l \in log' : l.seq < seqCounter'
    BY <1>1, <1>2, SeqNats
  <2>2. ASSUME NEW l \in log PROVE l.seq \in expired' \/ \E e \in chunkBuffer' : e.seq = l.seq
    <3>1. CASE l.seq \in expired
      BY <3>1
    <3>2. ASSUME NEW e \in chunkBuffer, e.seq = l.seq
          PROVE  l.seq \in expired' \/ \E f \in chunkBuffer' : f.seq = l.seq
      BY <3>2
    <3> QED
      BY <3>1, <3>2 DEF BufferOK
  <2> QED
    BY <2>1, <2>2 DEF BufferOK
<1>5. log \subseteq log' /\ log' \ log = {} /\ expired \subseteq expired'
  OBVIOUS
<1>7. \A k \in Client : WireOK(k)' /\ GotOK(k)' /\ DueIsOn(k)' /\ wire'[k] \in Seq(Frame)
  BY <1>3, <1>5, <1>6, Written
<1>8. SseTypeOK'
  <2>1. wire' \in [Client -> Seq(Frame)]
    BY <1>6, <1>7 DEF WriteFrame
  <2>2. expired' \subseteq Seqs /\ chunkBuffer' \subseteq Entry
    BY DEF SseTypeOK, Entry
  <2> QED
    BY <1>1, <2>1, <2>2 DEF SseTypeOK
<1> QED
  BY <1>4, <1>7, <1>8

(* What a step leaves alone of a client's side stays as it is. *)
LEMMA Untouched ==
  ASSUME SseInv, NEW k \in Client, seqCounter' \in Nat, seqCounter <= seqCounter',
         log' = log, expired' = expired,
         wire'[k] = wire[k], link'[k] = link[k], lastId'[k] = lastId[k],
         start'[k] = start[k], got'[k] = got[k],
         [seq |-> link[k], client |-> k] \in conns
           => [seq |-> link[k], client |-> k] \in conns'
  PROVE  WireOK(k)' /\ GotOK(k)' /\ DueIsOn(k)'
<1>1. WireOK(k) /\ GotOK(k) /\ DueIsOn(k) /\ SseTypeOK /\ seqCounter \in Nat
  BY SeqNats DEF SseInv
<1>2. On(k)' = On(k) /\ Own(k)' = Own(k) /\ \A n : Due(k, n)' <=> Due(k, n)
  <2>1. On(k)' = On(k) /\ Own(k)' = Own(k)
    BY DEF On, Own
  <2> QED
    BY <2>1 DEF Due
<1>3. \A i \in 1..Len(wire[k]) : wire[k][i].seq < seqCounter'
  <2>1. \A i \in 1..Len(wire[k]) : wire[k][i].seq < seqCounter /\ wire[k][i].seq \in Nat
    BY <1>1, SeqNats DEF WireOK, FrameOK
  <2> QED
    BY <1>1, <2>1
<1>4. WireOK(k)'
  BY <1>1, <1>3 DEF WireOK, FrameOK
<1>5. GotOK(k)'
  <2>1. CASE start[k] = None
    BY <1>1, <2>1 DEF GotOK
  <2>2. CASE start[k] # None
    <3>1. lastId[k] \in Nat /\ lastId[k] < seqCounter
      BY <1>1, <2>2, SeqNats DEF GotOK
    <3>2. lastId[k] < seqCounter'
      BY <1>1, <3>1
    <3> QED
      BY <1>1, <1>2, <2>2, <3>2 DEF GotOK
  <2> QED
    BY <2>1, <2>2
<1>6. DueIsOn(k)'
  BY <1>1, <1>2 DEF DueIsOn
<1> QED
  BY <1>4, <1>5, <1>6

(* A step that leaves the buffer and the history alone keeps what they say  *)
(* of each other.                                                           *)
LEMMA BufferKept ==
  ASSUME SseInv, seqCounter' \in Nat, seqCounter <= seqCounter',
         UNCHANGED <<chunkBuffer, log, expired>>
  PROVE  BufferOK'
<1>1. \A l \in log : l.seq < seqCounter'
  <2>1. \A l \in log : l.seq < seqCounter /\ l.seq \in Nat /\ seqCounter \in Nat
    BY SeqNats DEF SseInv, BufferOK
  <2> QED
    BY <2>1
<1> QED
  BY <1>1 DEF SseInv, BufferOK

(* What the client missed and the buffer still has is sent to it in order. *)
LEMMA AddConnectionStep ==
  ASSUME SseInv, NEW k \in Client, AddConnection(k)
  PROVE  SseInv'
<1> DEFINE frames == {[seq |-> e.seq, kind |-> "chunk", slot |-> e.slot] : e \in MissedChunks(k)}
           w      == wire'[k]
<1>1. SseTypeOK /\ BufferOK /\ WireOK(k) /\ GotOK(k)
  BY DEF SseInv
<1>2. /\ seqCounter \in Nat /\ seqCounter \in Seqs /\ seqCounter' = seqCounter + 1
      /\ seqCounter' \in 0..MaxSeq /\ seqCounter <= seqCounter'
  BY <1>1, SeqNats DEF AddConnection, NextSeq, Seqs
<1>3. \A e \in MissedChunks(k) : /\ e \in chunkBuffer /\ e \in Entry
                                 /\ lastId[k] # None /\ e.seq > lastId[k]
  BY <1>1, SeqNats DEF MissedChunks
<1>4. /\ \A f \in frames : /\ f \in Frame /\ FrameOK(f) /\ f.seq \in Nat
                           /\ lastId[k] # None /\ f.seq > lastId[k]
      /\ Distinct(frames)
      /\ \A e \in MissedChunks(k) : \E f \in frames : f.seq = e.seq
  <2>1. ASSUME NEW e \in MissedChunks(k), NEW f,
               f = [seq |-> e.seq, kind |-> "chunk", slot |-> e.slot]
        PROVE  f \in Frame /\ FrameOK(f) /\ f.seq \in Nat /\ f.seq > lastId[k] /\ f.seq = e.seq
    <3>1. e \in Entry /\ [seq |-> e.seq, slot |-> e.slot] \in log /\ e.seq > lastId[k]
      BY <1>1, <1>3 DEF BufferOK
    <3>2. f \in Frame /\ f.seq \in Nat
      BY <2>1, <3>1, SeqNats, <1>1 DEF Entry, Frame, Slot
    <3>3. e.seq < seqCounter
      BY <1>1, <3>1 DEF BufferOK
    <3> QED
      BY <2>1, <3>1, <3>2, <3>3 DEF FrameOK
  <2>2. \A f \in frames : /\ f \in Frame /\ FrameOK(f) /\ f.seq \in Nat
                          /\ lastId[k] # None /\ f.seq > lastId[k]
    BY <1>3, <2>1
  <2>3. ASSUME NEW f \in frames, NEW g \in frames, f.seq = g.seq PROVE f = g
    <3>1. PICK d \in MissedChunks(k) : f = [seq |-> d.seq, kind |-> "chunk", slot |-> d.slot]
      OBVIOUS
    <3>2. PICK e \in MissedChunks(k) : g = [seq |-> e.seq, kind |-> "chunk", slot |-> e.slot]
      OBVIOUS
    <3>3. d = e
      BY <1>1, <1>3, <2>3, <3>1, <3>2 DEF BufferOK
    <3> QED
      BY <3>1, <3>2, <3>3
  <2>4. Distinct(frames)
    BY <2>2, <2>3 DEF Distinct, Frame
  <2>5. \A e \in MissedChunks(k) : \E f \in frames : f.seq = e.seq
    BY <2>1
  <2> QED
    BY <2>2, <2>4, <2>5
<1>5. w = Sorted(frames, LAMBDA f, g : f.seq < g.seq)
  BY <1>1 DEF AddConnection, ReplayMissedChunks, SseTypeOK
<1> HIDE DEF frames
<1>6. /\ w \in Seq(frames)
      /\ \A i \in 1..Len(w) : w[i] \in frames
      /\ \A f \in frames : \E i \in 1..Len(w) : w[i] = f
      /\ \A i, j \in 1..Len(w) : i < j => w[i].seq < w[j].seq
  <2> DEFINE v == Sorted(frames, LAMBDA f, g : f.seq < g.seq)
  <2>1. /\ v \in Seq(frames)
        /\ \A i \in 1..Len(v) : v[i] \in frames
        /\ \A f \in frames : \E i \in 1..Len(v) : v[i] = f
        /\ \A i, j \in 1..Len(v) : i < j => v[i].seq < v[j].seq
    BY <1>4, SortedFrames
  <2>2. w = v
    BY <1>5
  <2> HIDE DEF v, w
  <2> QED
    BY <2>1, <2>2
<1>7. \A n : n \in On(k)' <=> \E f \in frames : f.seq = n
  <2>1. On(k)' = {w[i].seq : i \in 1..Len(w)}
    BY DEF On
  <2> HIDE DEF w
  <2> QED
    BY <1>6, <2>1
<1>8. \A f \in Frame : f.seq < seqCounter => f.seq < seqCounter'
  BY <1>2 DEF Frame, Seqs
<1>9. WireOK(k)'
  <2>1. link'[k] = seqCounter /\ [seq |-> seqCounter, client |-> k] \in conns' /\ link'[k] # None
    BY <1>1, <1>2 DEF AddConnection, SseTypeOK
  <2>2. ASSUME NEW i \in 1..Len(w) PROVE FrameOK(wire[k][i])'
    <3>1. PICK f \in Frame : f = w[i] /\ FrameOK(f)
      BY <1>4, <1>6
    <3>2. f.seq < seqCounter'
      BY <1>8, <3>1 DEF FrameOK
    <3> QED
      BY <3>1, <3>2 DEF FrameOK, AddConnection, history
  <2> QED
    BY <1>6, <2>1, <2>2 DEF WireOK
<1>10. GotOK(k)'
  <2>1. UNCHANGED <<lastId, start, got, log, expired>> /\ Own(k)' = Own(k)
    BY DEF AddConnection, history, Own
  <2>2. CASE start[k] = None
    BY <1>1, <2>1, <2>2 DEF GotOK
  <2>3. CASE start[k] # None
    <3>1. lastId[k] \in Nat /\ lastId[k] < seqCounter'
      BY <1>1, <1>2, <2>3, SeqNats DEF GotOK
    <3>2. \A n \in On(k)' : lastId[k] < n
      BY <1>4, <1>7, <3>1
    <3> QED
      BY <1>1, <2>1, <2>3, <3>1, <3>2 DEF GotOK
  <2> QED
    BY <2>2, <2>3
<1>11. DueIsOn(k)'
  <2>1. UNCHANGED <<lastId, start, got, log, expired>> /\ Own(k)' = Own(k)
    BY DEF AddConnection, history, Own
  <2> SUFFICES ASSUME NEW n \in Own(k), Due(k, n)' PROVE n \in On(k)' \cup expired
    BY <2>1 DEF DueIsOn
  <2>2. PICK l \in log : l.slot = SlotOf[k] /\ l.seq = n
    BY DEF Own
  <2>3. SlotOf[k] # Global /\ n \in Nat
    BY <1>1, <2>2, SeqNats
  <2>4. lastId[k] # None /\ n > lastId[k]
    <3>1. CASE start[k] # None /\ n > lastId[k]
      BY <1>1, <3>1 DEF GotOK
    <3>2. CASE \E p \in On(k)' : n > p
      <4>1. PICK f \in frames : n > f.seq
        BY <1>7, <3>2
      <4>2. lastId[k] # None /\ f.seq > lastId[k] /\ f.seq \in Nat /\ lastId[k] \in Nat
        BY <1>1, <1>4, SeqNats
      <4> QED
        BY <2>3, <4>1, <4>2
    <3> QED
      BY <2>1, <3>1, <3>2 DEF Due
  <2>5. CASE n \in expired
    BY <2>5
  <2>6. ASSUME NEW e \in chunkBuffer, e.seq = n PROVE n \in On(k)'
    <3>1. e \in MissedChunks(k)
      BY <2>3, <2>4, <2>6 DEF MissedChunks
    <3> QED
      BY <1>4, <1>7, <2>6, <3>1
  <2> QED
    BY <1>1, <2>2, <2>5, <2>6 DEF BufferOK
<1>12. ASSUME NEW j \in Client, j # k PROVE WireOK(j)' /\ GotOK(j)' /\ DueIsOn(j)'
  <2>1. /\ wire'[j] = wire[j] /\ link'[j] = link[j] /\ lastId' = lastId /\ start' = start
        /\ got' = got /\ log' = log /\ expired' = expired /\ conns \subseteq conns'
    BY <1>1, <1>12 DEF AddConnection, SseTypeOK, history
  <2>2. seqCounter' \in Nat /\ seqCounter <= seqCounter'
    BY <1>2
  <2> QED
    BY <1>12, <2>1, <2>2, Untouched
<1>13. BufferOK'
  BY <1>2, BufferKept DEF AddConnection, history
<1>14. SseTypeOK'
  <2>1. w \in Seq(Frame)
    <3>1. frames \subseteq Frame
      BY <1>4
    <3> QED
      BY <1>6, <3>1
  <2>2. wire' \in [Client -> Seq(Frame)]
    <3>1. wire' = [wire EXCEPT ![k] = w]
      BY <1>1 DEF AddConnection, SseTypeOK
    <3> HIDE DEF w
    <3> QED
      BY <1>1, <2>1, <3>1 DEF SseTypeOK
  <2>3. conns' \subseteq [seq : Seqs, client : Client] /\ link' \in [Client -> Seqs \cup {None}]
    BY <1>1, <1>2 DEF AddConnection, SseTypeOK
  <2> QED
    BY <1>1, <1>2, <2>2, <2>3 DEF SseTypeOK, AddConnection, history
<1> QED
  BY <1>9, <1>10, <1>11, <1>12, <1>13, <1>14 DEF SseInv

(* The client has got the chunks between its former last frame and this one *)
(* that were not given up: none of them was due and not on its way.         *)
LEMMA ReceiveStep ==
  ASSUME SseInv, NEW k \in Client, Receive(k)
  PROVE  /\ SseInv' /\ Head(wire[k]) \in Frame /\ Head(wire[k]).seq \in On(k)
         /\ lastId'[k] = Head(wire[k]).seq
         /\ \A n \in On(k) : n = lastId'[k] \/ n \in On(k)'
         /\ \A n \in On(k)' : n \in On(k) /\ lastId'[k] < n
<1> DEFINE w == wire[k]
           v == wire'[k]
<1>1. SseTypeOK /\ BufferOK /\ WireOK(k) /\ GotOK(k) /\ DueIsOn(k)
  BY DEF SseInv
<1>2. PICK f \in Frame : f = w[1] /\ f = Head(w)
  <2>1. w \in Seq(Frame) /\ w # << >>
    BY <1>1, SeqNats DEF Receive
  <2> HIDE DEF w
  <2> QED
    BY <2>1
<1>3. /\ v = Tail(w) /\ w \in Seq(Frame) /\ w # << >>
      /\ lastId' = [lastId EXCEPT ![k] = f.seq]
      /\ start' = [start EXCEPT ![k] = IF @ = None THEN f.seq ELSE @]
      /\ got' = [got EXCEPT ![k] = IF f.kind = "chunk" THEN @ \cup {f.seq} ELSE @]
      /\ UNCHANGED <<seqCounter, conns, chunkBuffer, link, log, expired>>
  BY <1>1, <1>2, SeqNats DEF Receive, server, SseTypeOK
<1>4. /\ v \in Seq(Frame) /\ Len(v) \in Nat /\ Len(w) = Len(v) + 1
      /\ \A i \in 1..Len(v) : v[i] = w[i + 1] /\ i + 1 \in 1..Len(w) /\ 1 < i + 1
      /\ \A i \in 1..Len(w) : i = 1 \/ (i - 1 \in 1..Len(v) /\ w[i] = v[i - 1] /\ 1 < i)
      /\ 1 \in 1..Len(w)
  <2> HIDE DEF v, w
  <2> QED
    BY <1>3
<1>5. /\ \A i \in 1..Len(w) : FrameOK(w[i]) /\ w[i] \in Frame /\ w[i].seq \in Nat
      /\ \A i, j \in 1..Len(w) : i < j => w[i].seq < w[j].seq
  BY <1>1, SeqNats DEF WireOK
<1>6. On(k) = {w[i].seq : i \in 1..Len(w)} /\ On(k)' = {v[i].seq : i \in 1..Len(v)}
  BY DEF On
<1>7. /\ f.seq \in Seqs /\ f.seq \in Nat /\ FrameOK(f) /\ seqCounter \in Nat /\ f.seq # None
      /\ lastId'[k] = f.seq /\ start'[k] # None /\ start'[k] \in Nat
      /\ start'[k] = IF start[k] = None THEN f.seq ELSE start[k]
      /\ got'[k] = IF f.kind = "chunk" THEN got[k] \cup {f.seq} ELSE got[k]
  <2>1. f.seq \in Seqs /\ f.seq \in Nat /\ FrameOK(f) /\ seqCounter \in Nat /\ f.seq # None
    BY <1>1, <1>2, <1>4, <1>5, SeqNats DEF Frame
  <2>2. start'[k] = IF start[k] = None THEN f.seq ELSE start[k]
    BY <1>1, <1>3 DEF SseTypeOK
  <2>3. /\ lastId'[k] = f.seq
        /\ got'[k] = IF f.kind = "chunk" THEN got[k] \cup {f.seq} ELSE got[k]
    BY <1>1, <1>3 DEF SseTypeOK
  <2> QED
    BY <1>1, <2>1, <2>2, <2>3, SeqNats
<1> HIDE DEF v, w
<1>8. /\ f.seq \in On(k)
      /\ \A n \in On(k) : n \in Nat /\ (n = f.seq \/ n \in On(k)')
      /\ \A n \in On(k)' : n \in Nat /\ n \in On(k) /\ f.seq < n
  <2>1. f.seq \in On(k)
    BY <1>2, <1>4, <1>6
  <2>2. \A n \in On(k) : n \in Nat /\ (n = f.seq \/ n \in On(k)')
    BY <1>2, <1>4, <1>5, <1>6
  <2>3. \A n \in On(k)' : n \in Nat /\ n \in On(k) /\ f.seq < n
    BY <1>2, <1>4, <1>5, <1>6
  <2> QED
    BY <2>1, <2>2, <2>3
<1>9. WireOK(k)'
  <2>1. \A i \in 1..Len(v) : FrameOK(v[i])
    BY <1>4, <1>5
  <2>2. \A i, j \in 1..Len(v) : i < j => v[i].seq < v[j].seq
    <3> SUFFICES ASSUME NEW i \in 1..Len(v), NEW j \in 1..Len(v), i < j
                 PROVE  v[i].seq < v[j].seq
      OBVIOUS
    <3>1. i + 1 < j + 1
      BY <1>4
    <3> QED
      BY <1>4, <1>5, <3>1
  <2>3. link[k] # None
    BY <1>1, <1>3 DEF WireOK, w
  <2>4. \A i \in 1..Len(v) : FrameOK(wire[k][i])'
    BY <1>3, <2>1 DEF FrameOK, v
  <2> QED
    BY <1>1, <1>3, <2>2, <2>3, <2>4 DEF WireOK, v
<1>10. Own(k)' = Own(k) /\ Own(k) \subseteq Nat
  BY <1>1, <1>3, SeqNats DEF Own
<1>11. \A n \in Own(k) : n \in On(k) /\ n = f.seq => n \in got'[k]
  <2> SUFFICES ASSUME NEW l \in log, l.seq = f.seq PROVE f.seq \in got'[k]
    BY DEF Own
  <2>1. f.kind = "chunk"
    BY <1>7 DEF FrameOK
  <2> QED
    BY <1>7, <2>1
<1>12. link[k] # None
  BY <1>1, <1>3 DEF WireOK, w
<1>13. GotOK(k)'
  <2>1. start'[k] <= f.seq
    <3>1. CASE start[k] = None
      BY <1>7, <3>1
    <3>2. CASE start[k] # None
      <4>1. start[k] <= lastId[k] /\ lastId[k] < f.seq /\ lastId[k] \in Nat /\ start[k] \in Nat
        BY <1>1, <1>8, <3>2, SeqNats DEF GotOK
      <4> QED
        BY <1>7, <3>2, <4>1
    <3> QED
      BY <3>1, <3>2
  <2>2. f.seq < seqCounter
    BY <1>7 DEF FrameOK
  <2>3. ASSUME NEW n \in got'[k] PROVE start'[k] <= n /\ n <= f.seq
    <3>1. CASE n = f.seq
      BY <1>7, <2>1, <3>1
    <3>2. CASE n \in got[k] /\ start[k] # None
      <4>1. start[k] <= n /\ n <= lastId[k] /\ lastId[k] < f.seq
        BY <1>1, <1>8, <3>2 DEF GotOK
      <4>2. n \in Nat /\ lastId[k] \in Nat
        BY <1>1, <3>2, SeqNats DEF GotOK
      <4> QED
        BY <1>7, <3>2, <4>1, <4>2
    <3>3. start[k] = None => got[k] = {}
      BY <1>1 DEF GotOK
    <3> QED
      BY <1>7, <2>3, <3>1, <3>2, <3>3
  <2>4. ASSUME NEW n \in Own(k), start'[k] < n, n <= f.seq PROVE n \in got'[k] \cup expired
    <3>0. n \in Nat
      BY <1>10
    <3>1. start[k] # None
      BY <1>7, <2>4, <3>0
    <3>2. CASE n <= lastId[k]
      BY <1>1, <1>7, <2>4, <3>1, <3>2 DEF GotOK
    <3>3. CASE ~(n <= lastId[k])
      <4>1. Due(k, n)
        BY <1>1, <3>0, <3>1, <3>3, SeqNats DEF Due, GotOK
      <4>2. n \in On(k) \/ n \in expired
        BY <1>1, <1>12, <4>1 DEF DueIsOn
      <4>3. n \in On(k) => n = f.seq
        BY <1>7, <1>8, <2>4, <3>0
      <4> QED
        BY <1>11, <4>2, <4>3
    <3> QED
      BY <3>2, <3>3
  <2> QED
    BY <1>3, <1>7, <1>8, <1>10, <2>1, <2>2, <2>3, <2>4 DEF GotOK
<1>14. DueIsOn(k)'
  <2> SUFFICES ASSUME NEW n \in Own(k), Due(k, n)' PROVE n \in On(k)' \cup expired
    BY <1>3, <1>10 DEF DueIsOn
  <2>1. n > f.seq
    <3>1. n \in Nat
      BY <1>10
    <3>2. ASSUME NEW p \in On(k)', n > p PROVE n > f.seq
      BY <1>7, <1>8, <3>1, <3>2
    <3> QED
      BY <1>7, <3>2 DEF Due
  <2>2. Due(k, n)
    BY <1>8, <2>1 DEF Due
  <2>3. n \in On(k) \/ n \in expired
    BY <1>1, <1>12, <2>2 DEF DueIsOn
  <2>4. n # f.seq
    BY <1>7, <2>1
  <2> QED
    BY <1>8, <2>3, <2>4
<1>15. ASSUME NEW j \in Client, j # k PROVE WireOK(j)' /\ GotOK(j)' /\ DueIsOn(j)'
  <2>1. /\ wire'[j] = wire[j] /\ link'[j] = link[j] /\ lastId'[j] = lastId[j]
        /\ start'[j] = start[j] /\ got'[j] = got[j] /\ log' = log /\ expired' = expired
        /\ conns' = conns
    BY <1>1, <1>3, <1>15 DEF Receive, SseTypeOK
  <2>2. seqCounter' \in Nat /\ seqCounter <= seqCounter'
    BY <1>3, <1>7
  <2> QED
    BY <1>15, <2>1, <2>2, Untouched
<1>16. BufferOK'
  BY <1>3, <1>7, BufferKept
<1>17. SseTypeOK'
  <2>1. wire' \in [Client -> Seq(Frame)]
    <3>1. wire' = [wire EXCEPT ![k] = v]
      BY <1>1 DEF Receive, SseTypeOK, v
    <3> QED
      BY <1>1, <1>4, <3>1 DEF SseTypeOK
  <2>2. lastId' \in [Client -> Seqs \cup {None}] /\ start' \in [Client -> Seqs \cup {None}]
    BY <1>1, <1>3, <1>7 DEF SseTypeOK
  <2>3. got' \in [Client -> SUBSET Seqs]
    BY <1>1, <1>3, <1>7 DEF SseTypeOK
  <2> QED
    BY <1>1, <1>3, <2>1, <2>2, <2>3 DEF SseTypeOK
<1> QED
  BY <1>2, <1>7, <1>8, <1>9, <1>13, <1>14, <1>15, <1>16, <1>17 DEF SseInv, w

(* What is under way is lost, and nothing is due to a client that is off. *)
LEMMA DisconnectStep ==
  ASSUME SseInv, NEW k \in Client, Disconnect(k)
  PROVE  SseInv'
<1>1. SseTypeOK /\ BufferOK /\ WireOK(k) /\ GotOK(k) /\ DueIsOn(k) /\ seqCounter \in Nat
  BY SeqNats DEF SseInv
<1>2. /\ link'[k] = None /\ wire'[k] = << >>
      /\ UNCHANGED <<seqCounter, conns, chunkBuffer, lastId, log, expired, start, got>>
  BY <1>1 DEF Disconnect, SseTypeOK, server, history
<1>3. WireOK(k)' /\ DueIsOn(k)'
  BY <1>2 DEF WireOK, DueIsOn
<1>4. GotOK(k)'
  <2>1. On(k)' = {} /\ Own(k)' = Own(k)
    BY <1>2 DEF On, Own
  <2> QED
    BY <1>1, <1>2, <2>1 DEF GotOK
<1>5. ASSUME NEW j \in Client, j # k PROVE WireOK(j)' /\ GotOK(j)' /\ DueIsOn(j)'
  <2>1. wire'[j] = wire[j] /\ link'[j] = link[j]
    BY <1>1, <1>5 DEF Disconnect, SseTypeOK
  <2>2. seqCounter' \in Nat /\ seqCounter <= seqCounter'
    BY <1>1, <1>2
  <2> QED
    BY <1>2, <1>5, <2>1, <2>2, Untouched
<1>6. BufferOK'
  BY <1>1, <1>2, BufferKept
<1>7. SseTypeOK'
  BY <1>1, <1>2 DEF Disconnect, SseTypeOK
<1> QED
  BY <1>3, <1>4, <1>5, <1>6, <1>7 DEF SseInv

(* No open connection is removed. *)
LEMMA RemoveConnectionStep ==
  ASSUME SseInv, NEW conn \in conns, RemoveConnection(conn)
  PROVE  SseInv'
<1>1. SseTypeOK /\ BufferOK /\ seqCounter \in Nat
  BY SeqNats DEF SseInv
<1>2. /\ conns' = conns \ {conn}
      /\ UNCHANGED <<seqCounter, chunkBuffer, link, wire, lastId, log, expired, start, got>>
  BY DEF RemoveConnection, client, history
<1>3. ASSUME NEW j \in Client PROVE WireOK(j)' /\ GotOK(j)' /\ DueIsOn(j)'
  <2>1. [seq |-> link[j], client |-> j] # conn
    BY DEF RemoveConnection
  <2>2. seqCounter' \in Nat /\ seqCounter <= seqCounter'
    BY <1>1, <1>2
  <2> QED
    BY <1>2, <2>1, <2>2, Untouched
<1>4. BufferOK' /\ SseTypeOK'
  BY <1>1, <1>2, BufferKept DEF SseTypeOK
<1> QED
  BY <1>3, <1>4 DEF SseInv

(* The feed starts over. *)
LEMMA RestartSseStep ==
  ASSUME SseInv, RestartSse
  PROVE  SseInv'
<1>1. SseTypeOK'
  BY DEF SseInv, RestartSse, SseTypeOK
<1>2. BufferOK'
  BY DEF RestartSse, BufferOK
<1>3. ASSUME NEW k \in Client PROVE WireOK(k)' /\ GotOK(k)' /\ DueIsOn(k)'
  BY DEF RestartSse, WireOK, GotOK, DueIsOn
<1> QED
  BY <1>1, <1>2, <1>3 DEF SseInv

(* Steps elsewhere leave all of it alone. *)
LEMMA SseStutter ==
  ASSUME SseInv, UNCHANGED sseVars
  PROVE  SseInv'
<1>1. /\ seqCounter \in Nat
      /\ UNCHANGED <<seqCounter, conns, chunkBuffer, link, wire, lastId,
                     log, expired, start, got>>
  BY SeqNats DEF SseInv, sseVars, server, client, history
<1>2. ASSUME NEW k \in Client PROVE WireOK(k)' /\ GotOK(k)' /\ DueIsOn(k)'
  <2>1. seqCounter' \in Nat /\ seqCounter <= seqCounter'
    BY <1>1
  <2> QED
    BY <1>1, <2>1, Untouched
<1>3. BufferOK' /\ SseTypeOK'
  BY <1>1, BufferKept DEF SseInv, SseTypeOK
<1> QED
  BY <1>2, <1>3 DEF SseInv

(* Every step of the streams keeps the invariant. *)
LEMMA SseInductive == SseInv /\ [SseNext]_sseVars => SseInv'
<1> SUFFICES ASSUME SseInv, [SseNext]_sseVars PROVE SseInv'
  OBVIOUS
<1>1. ASSUME NEW k \in Client, AddConnection(k) PROVE SseInv'
  BY <1>1, AddConnectionStep
<1>2. ASSUME NEW k \in Client, Receive(k) PROVE SseInv'
  BY <1>2, ReceiveStep
<1>3. ASSUME NEW k \in Client, Disconnect(k) PROVE SseInv'
  BY <1>3, DisconnectStep
<1>4. ASSUME NEW conn \in conns, RemoveConnection(conn) PROVE SseInv'
  BY <1>4, RemoveConnectionStep
<1>5. ASSUME NEW c \in Channel, BroadcastEvent(c) PROVE SseInv'
  <2>1. c \in Slot /\ {} \in SUBSET chunkBuffer
    BY DEF Slot
  <2> QED
    BY <1>5, <2>1, OtherFrameStep DEF BroadcastEvent, history
<1>6. ASSUME NEW c \in Channel, NEW m \in MessageId, BroadcastChunk(c, m) PROVE SseInv'
  BY <1>6, BroadcastChunkStep
<1>7. ASSUME NEW cutoff \in 0..MaxSeq, SendHeartbeat(cutoff) PROVE SseInv'
  <2>1. Global \in Slot
    BY DEF Slot
  <2> QED
    BY <1>7, <2>1, OtherFrameStep DEF SendHeartbeat
<1>8. ASSUME BroadcastGlobal PROVE SseInv'
  <2>1. Global \in Slot /\ {} \in SUBSET chunkBuffer
    BY DEF Slot
  <2> QED
    BY <1>8, <2>1, OtherFrameStep DEF BroadcastGlobal, history
<1>9. ASSUME RestartSse PROVE SseInv'
  BY <1>9, RestartSseStep
<1> QED
  BY <1>1, <1>2, <1>3, <1>4, <1>5, <1>6, <1>7, <1>8, <1>9, SseStutter DEF SseNext

(* What is due to a connected client is on its way or given up: sent on    *)
(* broadcast, or again on reconnection.                                     *)
THEOREM SseInvariant == SseSpec => []SseInv
<1>1. SseInit => SseInv
  <2> SUFFICES ASSUME SseInit PROVE SseInv
    OBVIOUS
  <2>1. SseTypeOK /\ BufferOK
    BY DEF SseInit, SseTypeOK, BufferOK
  <2> QED
    BY <2>1 DEF SseInit, SseInv, WireOK, GotOK, DueIsOn
<1> QED
  BY <1>1, SseInductive, PTL DEF SseSpec

-----------------------------------------------------------------------------
(* What the clients' histories say is what the feed says.                   *)
feed == [k \in Client |-> Own(k)]
seen == [k \in Client |-> got[k] \cap Own(k)]

(* A new chunk is newer than every chunk before it. *)
LEMMA PublishStep ==
  ASSUME SseInv, log \subseteq log', \A l \in log' \ log : l.seq = seqCounter,
         expired \subseteq expired', UNCHANGED <<start, got>>
  PROVE  Feed!Publish
<1>1. ASSUME NEW k \in Client
      PROVE  /\ feed[k] \subseteq feed'[k]
             /\ \A n \in feed'[k] \ feed[k] : \A p \in feed[k] : n > p
             /\ seen'[k] = seen[k]
  <2>1. /\ feed[k] = Own(k) /\ feed'[k] = Own(k)'
        /\ seen[k] = got[k] \cap Own(k) /\ seen'[k] = got[k] \cap Own(k)'
    BY DEF feed, seen
  <2>2. /\ \A n : n \in Own(k) <=> \E l \in log : l.slot = SlotOf[k] /\ l.seq = n
        /\ \A n : n \in Own(k)' <=> \E l \in log' : l.slot = SlotOf[k] /\ l.seq = n
    BY DEF Own
  <2>3. Own(k) \subseteq Own(k)' /\ \A n \in Own(k)' \ Own(k) : n = seqCounter
    BY <2>2
  <2>4. \A p \in Own(k) : p < seqCounter /\ p \in Nat /\ seqCounter \in Nat
    BY <2>2, SeqNats DEF SseInv, BufferOK
  <2>5. seqCounter \notin got[k]
    <3>1. /\ start[k] = None => got[k] = {}
          /\ start[k] # None => lastId[k] < seqCounter /\ \A n \in got[k] : n <= lastId[k]
      BY DEF SseInv, GotOK
    <3>2. seqCounter \in Nat /\ (start[k] # None => lastId[k] \in Nat)
      BY SeqNats DEF SseInv, GotOK
    <3> QED
      BY <3>1, <3>2
  <2>6. \A n \in Own(k)' \ Own(k) : \A p \in Own(k) : n > p
    BY <2>3, <2>4
  <2> QED
    BY <2>1, <2>3, <2>5, <2>6
<1>2. seen' = seen
  BY <1>1 DEF seen
<1> QED
  BY <1>1, <1>2 DEF Feed!Publish, feed, seen

(* Connections and their loss are invisible in the feed. *)
LEMMA FeedStutters ==
  ASSUME UNCHANGED <<log, expired, start, got>>
  PROVE  UNCHANGED Feed!feedVars
<1>1. \A k \in Client : Own(k)' = Own(k)
  BY DEF Own
<1> QED
  BY <1>1 DEF Feed!feedVars

(* A client begins, sees a chunk of its own, or nothing of its feed.        *)
LEMMA ReceiveSees ==
  ASSUME SseInv, NEW k \in Client, Receive(k)
  PROVE  Feed!FeedNext \/ UNCHANGED Feed!feedVars
<1> DEFINE f == Head(wire[k])
<1>1. /\ SseInv' /\ f \in Frame /\ f.seq \in On(k) /\ lastId'[k] = f.seq
  BY ReceiveStep
<1>2. /\ SseTypeOK /\ WireOK(k) /\ GotOK(k) /\ GotOK(k)'
      /\ f.seq \in Nat /\ f.seq # None /\ Own(k) \subseteq Nat
  BY <1>1, SeqNats DEF SseInv, Frame
<1>3. /\ start' = [start EXCEPT ![k] = IF @ = None THEN f.seq ELSE @]
      /\ got' = [got EXCEPT ![k] = IF f.kind = "chunk" THEN @ \cup {f.seq} ELSE @]
      /\ UNCHANGED <<log, expired>>
  BY DEF Receive
<1>4. FrameOK(f)
  <2>1. wire[k] # << >> /\ wire[k] \in Seq(Frame)
    BY SeqNats, <1>2 DEF Receive
  <2>2. f = wire[k][1] /\ 1 \in 1..Len(wire[k])
    BY <2>1
  <2> QED
    BY <1>2, <2>2 DEF WireOK
<1> HIDE DEF f
<1>5. f.kind # "chunk" => f.seq \notin Own(k)
  BY <1>4 DEF FrameOK, Own
<1>6. /\ start'[k] = IF start[k] = None THEN f.seq ELSE start[k]
      /\ got'[k] = IF f.kind = "chunk" THEN got[k] \cup {f.seq} ELSE got[k]
      /\ \A j \in Client : Own(j)' = Own(j)
      /\ \A j \in Client : j # k => start'[j] = start[j] /\ got'[j] = got[j]
      /\ start' \in [Client -> Seqs \cup {None}] /\ start \in [Client -> Seqs \cup {None}]
  BY <1>1, <1>2, <1>3 DEF SseTypeOK, Own, SseInv
<1>7. feed' = feed
  BY <1>6 DEF feed
<1>8. CASE start[k] = None
  <2>1. got[k] = {}
    BY <1>2, <1>8 DEF GotOK
  <2>2. got'[k] \cap Own(k) = Own(k) \cap {f.seq}
    BY <1>5, <1>6, <2>1
  <2>3. seen' = [seen EXCEPT ![k] = feed[k] \cap {start'[k]}]
    BY <1>6, <1>8, <2>2 DEF seen, feed
  <2>4. start' = [start EXCEPT ![k] = start'[k]]
    BY <1>6
  <2>5. Feed!Begin(k)
    BY <1>2, <1>3, <1>6, <1>7, <1>8, <2>3, <2>4 DEF Feed!Begin, feed, seen
  <2> QED
    BY <2>5 DEF Feed!FeedNext
<1>9. CASE start[k] # None /\ f.seq \in Own(k)
  <2>1. f.kind = "chunk" /\ start' = start
    BY <1>5, <1>6, <1>9
  <2>2. /\ lastId[k] \in Nat /\ start[k] \in Nat
        /\ start[k] <= lastId[k] /\ lastId[k] < f.seq
        /\ got[k] \subseteq Nat /\ \A n \in got[k] : n <= lastId[k]
    BY <1>1, <1>2, <1>9, SeqNats DEF GotOK
  <2>3. f.seq > start[k] /\ \A n \in got[k] : f.seq > n
    BY <1>2, <2>2
  <2>4. \A n \in Own(k) : n > start[k] /\ n < f.seq => n \in got[k] \cup expired
    <3> SUFFICES ASSUME NEW n \in Own(k), n > start[k], n < f.seq
                 PROVE  n \in got[k] \cup expired
      OBVIOUS
    <3>1. n \in Own(k)' /\ n \in Nat /\ n <= lastId'[k] /\ start'[k] < n /\ n # f.seq
      BY <1>1, <1>2, <1>6, <2>1, <2>2
    <3>2. n \in got'[k] \cup expired'
      BY <1>2, <1>6, <1>9, <2>1, <3>1 DEF GotOK
    <3> QED
      BY <1>3, <1>6, <3>1, <3>2
  <2>5. \A n \in Own(k) : n > start[k] /\ n < f.seq => n \in seen[k] \cup expired
    BY <2>4 DEF seen
  <2>6. seen' = [seen EXCEPT ![k] = seen[k] \cup {f.seq}]
    <3>1. got'[k] \cap Own(k) = (got[k] \cap Own(k)) \cup {f.seq}
      BY <1>6, <1>9, <2>1
    <3>2. seen' = [j \in Client |-> IF j = k THEN seen[k] \cup {f.seq} ELSE seen[j]]
      BY <1>6, <3>1 DEF seen
    <3> QED
      BY <3>2 DEF seen
  <2>7. PICK n \in Own(k) : n = f.seq
    BY <1>9
  <2>8. Feed!See(k, n)
    BY <1>3, <1>7, <1>9, <2>1, <2>3, <2>5, <2>6, <2>7 DEF Feed!See, feed, seen
  <2>9. Feed!FeedNext
    BY <2>7, <2>8 DEF Feed!FeedNext
  <2> QED
    BY <2>9
<1>10. CASE start[k] # None /\ f.seq \notin Own(k)
  <2>1. start' = start
    BY <1>6, <1>10
  <2>2. seen' = seen
    BY <1>6, <1>10 DEF seen
  <2> QED
    BY <1>3, <1>7, <2>1, <2>2 DEF Feed!feedVars, feed, seen
<1> QED
  BY <1>8, <1>9, <1>10

(* Every step of the streams is one of the feed or none. *)
LEMMA FeedStep == SseInv /\ [SseNext]_sseVars => [Feed!FeedNext]_Feed!feedVars
<1> SUFFICES ASSUME SseInv, [SseNext]_sseVars PROVE [Feed!FeedNext]_Feed!feedVars
  OBVIOUS
<1>1. ASSUME NEW k \in Client, AddConnection(k) PROVE UNCHANGED Feed!feedVars
  BY <1>1, FeedStutters DEF AddConnection, history
<1>2. ASSUME NEW k \in Client, Disconnect(k) PROVE UNCHANGED Feed!feedVars
  BY <1>2, FeedStutters DEF Disconnect, history
<1>3. ASSUME NEW conn \in conns, RemoveConnection(conn) PROVE UNCHANGED Feed!feedVars
  BY <1>3, FeedStutters DEF RemoveConnection, history
<1>4. ASSUME NEW c \in Channel, BroadcastEvent(c) PROVE UNCHANGED Feed!feedVars
  BY <1>4, FeedStutters DEF BroadcastEvent, history
<1>5. ASSUME BroadcastGlobal PROVE UNCHANGED Feed!feedVars
  BY <1>5, FeedStutters DEF BroadcastGlobal, history
<1>6. ASSUME NEW c \in Channel, NEW m \in MessageId, BroadcastChunk(c, m) PROVE Feed!Publish
  <2>1. /\ log \subseteq log' /\ \A l \in log' \ log : l.seq = seqCounter
        /\ expired \subseteq expired' /\ UNCHANGED <<start, got>>
    BY <1>6 DEF BroadcastChunk, AddToBuffer
  <2> QED
    BY <2>1, PublishStep
<1>7. ASSUME NEW cutoff \in 0..MaxSeq, SendHeartbeat(cutoff) PROVE Feed!Publish
  <2>1. /\ log \subseteq log' /\ \A l \in log' \ log : l.seq = seqCounter
        /\ expired \subseteq expired' /\ UNCHANGED <<start, got>>
    BY <1>7 DEF SendHeartbeat
  <2> QED
    BY <2>1, PublishStep
<1>8. ASSUME RestartSse PROVE Feed!Forget
  <2>1. \A k \in Client : Own(k)' = {}
    BY <1>8 DEF RestartSse, Own
  <2> QED
    BY <1>8, <2>1 DEF RestartSse, Feed!Forget
<1>9. ASSUME UNCHANGED sseVars PROVE UNCHANGED Feed!feedVars
  BY <1>9, FeedStutters DEF sseVars, history
<1> QED
  BY <1>1, <1>2, <1>3, <1>4, <1>5, <1>6, <1>7, <1>8, <1>9, ReceiveSees
     DEF SseNext, Feed!FeedNext

(* They start as the feed does. *)
LEMMA InitFeed == SseInit => Feed!FeedInit
BY DEF SseInit, Feed!FeedInit, Own

(* The event streams implement the resumable feed. *)
THEOREM SseImplementsFeed == SseSpec => FeedSpec
BY InitFeed, FeedStep, SseInvariant, PTL DEF SseSpec, FeedSpec, Feed!FeedSpec

(* Every step of the tabs is one of the event streams, or leaves them alone. *)
LEMMA TabStepIsSse == [TabNext]_tabVars => [SseNext]_sseVars
<1> SUFFICES ASSUME [TabNext]_tabVars PROVE [SseNext]_sseVars
  OBVIOUS
<1>1. ASSUME NEW m \in MessageId, NEW q \in Relay!SeqNo, StreamChunk(m, q) PROVE SseNext
  BY <1>1, TabAssumption DEF StreamChunk, SseNext
<1>2. ASSUME NEW m \in MessageId, NEW result \in Relay!Result, StreamDone(m, result) PROVE SseNext
  BY <1>2, TabAssumption DEF StreamDone, SseNext
<1>3. ASSUME NEW k \in Client, TabReceive(k) PROVE SseNext
  BY <1>3 DEF TabReceive, SseNext
<1>4. ASSUME SseOnly PROVE SseNext
  BY <1>4 DEF SseOnly, SseNext
<1>5. ASSUME RestartTab PROVE SseNext
  BY <1>5 DEF RestartTab, SseNext
<1> QED
  BY <1>1, <1>2, <1>3, <1>4, <1>5 DEF TabNext, tabVars

(* Streamed replies only use the streams as anybody may. *)
THEOREM TabKeepsSse == TabSpec => SseSpec /\ []SseInv
<1>1. TabInit => SseInit
  BY DEF TabInit
<1> QED
  BY <1>1, TabStepIsSse, SseInvariant, PTL DEF TabSpec, SseSpec

(* And so do they when they carry streamed replies. *)
THEOREM TabImplementsFeed == TabSpec => FeedSpec
BY TabKeepsSse, SseImplementsFeed, PTL

-----------------------------------------------------------------------------
RP == INSTANCE StreamRelayProofs WITH log <- relayLog

(* Bounded numbers have a greatest one. *)
LEMMA Greatest ==
  ASSUME NEW N \in Nat, NEW S \in SUBSET (1..N), S # {}
  PROVE  \E x \in S : \A y \in S : y <= x
<1> DEFINE T == {N - y : y \in S}
<1>1. T \subseteq Nat /\ T # {}
  <2>1. \A y \in S : N - y \in Nat
    OBVIOUS
  <2>2. T \subseteq Nat
    BY <2>1
  <2>3. PICK y \in S : TRUE
    OBVIOUS
  <2>4. N - y \in T
    OBVIOUS
  <2> QED
    BY <2>2, <2>4
<1>2. PICK t \in T : \A s \in T : <<s, t>> \notin OpToRel(<, Nat)
  <2> HIDE DEF T
  <2> QED
    BY <1>1, NatLessThanWellFounded, WFMin
<1>3. \A s \in T : ~(s < t)
  <2>1. \A s \in T : s \in Nat /\ t \in Nat
    BY <1>1
  <2> HIDE DEF T
  <2> QED
    BY <1>2, <2>1 DEF OpToRel
<1>4. PICK x \in S : t = N - x
  OBVIOUS
<1>5. ASSUME NEW y \in S PROVE y <= x
  <2>1. N - y \in T /\ ~(N - y < N - x)
    BY <1>3, <1>4
  <2> QED
    BY <2>1
<1> QED
  BY <1>5

(* The relay's steps are those its proofs are about. *)
LEMMA RelayStep == [Relay!StreamNext]_Relay!streamVars => [RP!StreamNext]_RP!streamVars
<1> SUFFICES ASSUME [Relay!StreamNext]_Relay!streamVars PROVE [RP!StreamNext]_RP!streamVars
  OBVIOUS
<1>1. ASSUME NEW m \in MessageId PROVE Relay!FullContent(m) = RP!FullContent(m)
  BY DEF Relay!FullContent, RP!FullContent, Relay!Kept, RP!Kept, Relay!SeqNo, RP!SeqNo,
     Relay!NoChunk, RP!NoChunk, Relay!Cardinality, RP!Cardinality
<1>2. ASSUME NEW m \in MessageId, NEW q \in Relay!SeqNo, Relay!HandleStreamChunk(m, q)
      PROVE  q \in RP!SeqNo /\ RP!HandleStreamChunk(m, q)
  BY <1>2 DEF Relay!HandleStreamChunk, RP!HandleStreamChunk, Relay!Record, RP!Record,
     Relay!SeqNo, RP!SeqNo
<1>3. ASSUME NEW m \in MessageId, NEW result \in Relay!Result, Relay!HandleStreamDone(m, result)
      PROVE  result \in RP!Result /\ RP!HandleStreamDone(m, result)
  <2>1. Relay!Insert(m, result) <=> RP!Insert(m, result)
    BY <1>1 DEF Relay!Insert, RP!Insert
  <2> QED
    BY <1>1, <1>3, <2>1 DEF Relay!HandleStreamDone, RP!HandleStreamDone, Relay!Record, RP!Record,
       Relay!SeqNo, RP!SeqNo, Relay!NoChunk, RP!NoChunk, Relay!Result, RP!Result
<1>4. ASSUME Relay!RestartStream PROVE RP!RestartStream
  BY <1>4 DEF Relay!RestartStream, RP!RestartStream, Relay!Record, RP!Record,
     Relay!SeqNo, RP!SeqNo, Relay!NoChunk, RP!NoChunk
<1> QED
  BY <1>2, <1>3, <1>4 DEF Relay!StreamNext, RP!StreamNext, Relay!streamVars, RP!streamVars

(* Every step of the tabs is one of the relay, or leaves it alone. *)
LEMMA TabStepIsRelays == [TabNext]_tabVars => [Relay!StreamNext]_Relay!streamVars
<1> SUFFICES ASSUME [TabNext]_tabVars PROVE [Relay!StreamNext]_Relay!streamVars
  OBVIOUS
<1>1. ASSUME NEW m \in MessageId, NEW q \in Relay!SeqNo, StreamChunk(m, q)
      PROVE  Relay!StreamNext
  BY <1>1 DEF StreamChunk, Relay!StreamNext
<1>2. ASSUME NEW m \in MessageId, NEW result \in Relay!Result, StreamDone(m, result)
      PROVE  Relay!StreamNext
  BY <1>2 DEF StreamDone, Relay!StreamNext
<1>3. ASSUME NEW k \in Client, TabReceive(k) PROVE UNCHANGED Relay!streamVars
  BY <1>3 DEF TabReceive, relay, Relay!streamVars
<1>4. ASSUME SseOnly PROVE UNCHANGED Relay!streamVars
  BY <1>4 DEF SseOnly, relay, Relay!streamVars
<1>5. ASSUME RestartTab PROVE Relay!StreamNext
  BY <1>5 DEF RestartTab, Relay!StreamNext
<1> QED
  BY <1>1, <1>2, <1>3, <1>4, <1>5 DEF TabNext, tabVars, relay, Relay!streamVars

(* The relay on its own keeps its invariant in the composition. *)
LEMMA TabKeepsRelay == TabSpec => []RP!StreamInv
<1>1. RP!StreamAssumption
  BY TabAssumption DEF RP!StreamAssumption
<1>2. TabInit => RP!StreamInit
  BY DEF TabInit, Relay!StreamInit, RP!StreamInit, Relay!SeqNo, RP!SeqNo,
     Relay!NoChunk, RP!NoChunk
<1>3. [TabNext]_tabVars => [RP!StreamNext]_RP!streamVars
  BY TabStepIsRelays, RelayStep
<1>4. RP!StreamSpec => []RP!StreamInv
  BY <1>1, RP!StreamInvariant
<1> QED
  BY <1>2, <1>3, <1>4, PTL DEF TabSpec, RP!StreamSpec

-----------------------------------------------------------------------------
(* What the tabs need of the relay: its log, and what a `done' brings.      *)
Piece(m, i) == relayLog[i].op = "chunk" /\ relayLog[i].msg = m
Over(k, i) ==
  /\ k > i
  /\ \/ Piece(relayLog[i].msg, k) /\ relayLog[k].seq = relayLog[i].seq
     \/ relayLog[k].op = "done" /\ relayLog[k].msg = relayLog[i].msg
     \/ relayLog[k].op = "restart"
RelayOK ==
  /\ relayLog \in Seq(RP!Event)
  /\ \A i \in 1..Len(relayLog) :
       /\ relayLog[i].op \in {"chunk", "done", "restart"}
       /\ relayLog[i].op # "restart" => relayLog[i].msg \in MessageId
       /\ relayLog[i].op = "chunk" => relayLog[i].seq \in Relay!SeqNo
       /\ relayLog[i].op = "done" =>
            Range(relayLog[i].content) =
              {p \in 1..(i - 1) : Piece(relayLog[i].msg, p) /\ \A k \in 1..(i - 1) : ~Over(k, p)}

(* That is part of what holds of the relay on its own. *)
LEMMA RelayIsOK ==
  ASSUME RP!StreamInv
  PROVE  RelayOK /\ Relay!StreamTypeOK
<1>1. /\ relayLog \in Seq(RP!Event) /\ Len(relayLog) <= MaxLog
      /\ rows \subseteq [at : Nat, msg : MessageId, content : Seq(Nat)]
      /\ saved \in 0..Len(relayLog)
      /\ streamChunkBuffer \in [MessageId -> [Relay!SeqNo -> Nat]]
  BY DEF RP!StreamInv, RP!Typed, RP!SeqNo, Relay!SeqNo
<1>2. ASSUME NEW i \in 1..Len(relayLog)
      PROVE  /\ relayLog[i].op \in {"chunk", "done", "restart"}
             /\ relayLog[i].op # "restart" => relayLog[i].msg \in MessageId
             /\ relayLog[i].op = "chunk" => relayLog[i].seq \in Relay!SeqNo
  <2>1. relayLog[i] \in RP!Event
    BY <1>1
  <2> QED
    BY <2>1 DEF RP!Event, RP!SeqNo, Relay!SeqNo
<1>3. ASSUME NEW i \in 1..Len(relayLog), relayLog[i].op = "done"
      PROVE  Range(relayLog[i].content) =
               {p \in 1..(i - 1) : Piece(relayLog[i].msg, p) /\ \A k \in 1..(i - 1) : ~Over(k, p)}
  BY <1>3 DEF RP!StreamInv, RP!DoneIsWhatWasShown, RP!Time, RP!IsPiece, RP!Ends, RP!Range,
     Range, Piece, Over
<1>4. Relay!StreamTypeOK
  <2>1. \A m \in MessageId, q \in Relay!SeqNo :
          streamChunkBuffer[m][q] \in Relay!Time \cup {Relay!NoChunk}
    BY DEF RP!StreamInv, RP!KeptIsPiece, RP!Time, RP!NoChunk, RP!SeqNo,
       Relay!Time, Relay!NoChunk, Relay!SeqNo
  <2>2. ASSUME NEW r \in rows
        PROVE  /\ r.at \in Relay!Time /\ r.msg \in MessageId
               /\ Relay!Range(r.content) \subseteq Relay!Time
    <3>1. /\ r.at \in 1..Len(relayLog) /\ relayLog[r.at].op = "done"
          /\ relayLog[r.at].content = r.content
      BY DEF RP!StreamInv, RP!RowsAreDones, RP!Time
    <3>2. \A p \in Range(r.content) : p \in 1..(r.at - 1)
      BY <1>3, <3>1
    <3>3. 1..(r.at - 1) \subseteq 1..Len(relayLog)
      BY <1>1, <3>1
    <3> QED
      BY <1>1, <3>1, <3>2, <3>3 DEF Relay!Range, Range, Relay!Time
  <2> QED
    BY <1>1, <2>1, <2>2 DEF Relay!StreamTypeOK
<1> QED
  BY <1>1, <1>2, <1>3, <1>4 DEF RelayOK

-----------------------------------------------------------------------------
(* A frame carries one entry of the log, made since the last restart, and a *)
(* chunk's is in the history of the streams; later frames carry later ones. *)
ItemsOK ==
  /\ item \in [Seqs -> Nat]
  /\ \A n \in Seqs :
       item[n] # NoItem =>
         /\ n < seqCounter /\ item[n] \in 1..Len(relayLog)
         /\ \A j \in item[n]..Len(relayLog) : relayLog[j].op # "restart"
         /\ relayLog[item[n]].op = "chunk"
              => [seq |-> n, slot |-> ChannelOf[relayLog[item[n]].msg]] \in log
  /\ \A n, p \in Seqs :
       n < p /\ item[n] # NoItem /\ item[p] # NoItem => item[n] < item[p]

(* The tab has followed all of the reply that was sent, or could begin to.  *)
Could(k, m) ==
  /\ WellStreamed(m)
  /\ \A i \in Entries(m) : \E n \in Seqs : /\ item[n] = i /\ n \notin expired
                                           /\ start[k] = None \/ start[k] <= n
Seen(k, m) ==
  IF start[k] = None THEN {}
  ELSE {i \in Entries(m) : \E n \in Seqs : item[n] = i /\ n <= lastId[k]}

(* The text of some entries: their latest piece of each number.             *)
Same(I, q)  == {i \in I : relayLog[i].op = "chunk" /\ relayLog[i].seq = q}
LastOf(S)   == IF S = {} THEN Relay!NoChunk ELSE CHOOSE i \in S : \A j \in S : j <= i
TextOf(I)   == [q \in Relay!SeqNo |-> LastOf(Same(I, q))]

ShownOK ==
  \A k \in Client, m \in MessageId :
    SlotOf[k] = ChannelOf[m] /\ Could(k, m) => shown[k][m] = TextOf(Seen(k, m))
ShownTyped ==
  shown \in [Client -> [MessageId -> [Relay!SeqNo -> 0..Len(relayLog)]]]

TabInv ==
  /\ ItemsOK
  /\ ShownTyped
  /\ ShownOK

(* The latest of some entries is the one no other is later than. *)
LEMMA LastIs ==
  ASSUME NEW S \in SUBSET Nat, NEW x \in S, \A y \in S : y <= x
  PROVE  LastOf(S) = x
<1>1. \A i \in S : (\A j \in S : j <= i) => i = x
  OBVIOUS
<1>2. (CHOOSE i \in S : \A j \in S : j <= i) = x
  BY <1>1
<1> QED
  BY <1>2 DEF LastOf

(* Entries and ids are numbers. *)
LEMMA TabNats ==
  ASSUME SseInv, RelayOK, ItemsOK
  PROVE  /\ Len(relayLog) \in Nat /\ seqCounter \in Nat
         /\ \A n \in Seqs : n \in Nat /\ item[n] \in Nat
         /\ \A m : Entries(m) \subseteq 1..Len(relayLog)
         /\ \A k \in Client : /\ start[k] # None => start[k] \in Nat /\ lastId[k] \in Nat
                              /\ start[k] # None => start[k] <= lastId[k]
                              /\ start[k] # None => lastId[k] < seqCounter
<1>1. Len(relayLog) \in Nat
  BY DEF RelayOK
<1>2. seqCounter \in Nat /\ \A n \in Seqs : n \in Nat /\ item[n] \in Nat
  BY SeqNats DEF SseInv, ItemsOK
<1>3. \A m : Entries(m) \subseteq 1..Len(relayLog)
  BY DEF Entries
<1>4. \A k \in Client :
        start[k] # None => /\ start[k] \in Nat /\ lastId[k] \in Nat
                           /\ start[k] <= lastId[k] /\ lastId[k] < seqCounter
  BY SeqNats DEF SseInv, GotOK
<1> QED
  BY <1>1, <1>2, <1>3, <1>4

(* Steps that concern no reply. *)
LEMMA ReplyUntouched ==
  ASSUME SseInv, RelayOK, TabInv, UNCHANGED <<relayLog, item, shown, start, lastId>>,
         expired \subseteq expired', log \subseteq log',
         seqCounter' \in Nat, seqCounter <= seqCounter'
  PROVE  TabInv'
<1>1. \A m : Entries(m)' = Entries(m)
  BY DEF Entries
<1>2. ASSUME NEW n \in Seqs, n < seqCounter PROVE n < seqCounter'
  BY <1>2, TabNats DEF TabInv
<1>3. ItemsOK'
  BY <1>2 DEF TabInv, ItemsOK
<1>4. ASSUME NEW k \in Client, NEW m \in MessageId, Could(k, m)' PROVE Could(k, m)
  BY <1>1, <1>4 DEF Could, WellStreamed
<1>5. \A k \in Client, m \in MessageId : Seen(k, m)' = Seen(k, m)
  BY <1>1 DEF Seen
<1>6. \A k \in Client, m \in MessageId : TextOf(Seen(k, m))' = TextOf(Seen(k, m))
  BY <1>5 DEF TextOf, Same
<1>7. ShownOK'
  BY <1>4, <1>6 DEF TabInv, ShownOK
<1> QED
  BY <1>3, <1>7 DEF TabInv, ShownTyped

(* A new entry of the log goes out under the counter's number, which nobody *)
(* has got yet: what the tabs have seen stays the same.                     *)
LEMMA Carried ==
  ASSUME SseInv, RelayOK, TabInv, NEW e, relayLog' = Append(relayLog, e),
         e.op \in {"chunk", "done"}, e.msg \in MessageId,
         e.op = "chunk" => [seq |-> seqCounter, slot |-> ChannelOf[e.msg]] \in log',
         log \subseteq log', expired \subseteq expired', NextSeq, Carries,
         UNCHANGED <<shown, start, lastId>>
  PROVE  TabInv'
<1> DEFINE N == Len(relayLog)
<1>1. /\ N \in Nat /\ Len(relayLog') = N + 1 /\ relayLog'[N + 1] = e
      /\ \A i \in 1..N : relayLog'[i] = relayLog[i] /\ i # N + 1 /\ i \in Nat
      /\ \A i \in 1..(N + 1) : i \in 1..N \/ i = N + 1
      /\ \A i \in 1..N : i \in 1..(N + 1) /\ i < N + 1
  BY DEF RelayOK
<1>2. PICK c \in Seqs : c = seqCounter
  BY TabNats DEF TabInv, NextSeq, Seqs
<1>3. /\ c \in Nat /\ seqCounter' = c + 1 /\ item' \in [Seqs -> Nat]
      /\ item'[c] = N + 1 /\ \A n \in Seqs : n # c => item'[n] = item[n]
      /\ \A n \in Seqs : item[n] # NoItem => n < c /\ n # c /\ item[n] \in 1..N
  <2>1. c \in Nat /\ seqCounter' = c + 1 /\ item \in [Seqs -> Nat]
    BY <1>2, TabNats DEF TabInv, ItemsOK, NextSeq
  <2>2. item' = [item EXCEPT ![c] = N + 1]
    BY <1>1, <1>2 DEF Carries
  <2>3. \A n \in Seqs : item[n] # NoItem => n < c /\ item[n] \in 1..N
    BY <1>2 DEF TabInv, ItemsOK
  <2>4. \A n \in Seqs : item[n] # NoItem => n # c
    BY <2>1, <2>3
  <2> HIDE DEF N
  <2> QED
    BY <1>1, <2>1, <2>2, <2>3, <2>4
<1> HIDE DEF N
<1>4. ItemsOK'
  <2>1. ASSUME NEW n \in Seqs, item'[n] # NoItem
        PROVE  /\ n < seqCounter' /\ item'[n] \in 1..Len(relayLog')
               /\ \A j \in item'[n]..Len(relayLog') : relayLog'[j].op # "restart"
               /\ relayLog'[item'[n]].op = "chunk"
                    => [seq |-> n, slot |-> ChannelOf[relayLog'[item'[n]].msg]] \in log'
    <3>1. CASE n = c
      <4>1. n < seqCounter' /\ item'[n] \in 1..Len(relayLog')
        BY <1>1, <1>3, <3>1
      <4>2. \A j \in item'[n]..Len(relayLog') : relayLog'[j].op # "restart"
        BY <1>1, <1>3, <3>1
      <4> QED
        BY <1>1, <1>2, <1>3, <3>1, <4>1, <4>2
    <3>2. CASE n # c
      <4>1. item'[n] = item[n] /\ item[n] # NoItem /\ n < c /\ item[n] \in 1..N
        BY <1>3, <2>1, <3>2
      <4>2. n < seqCounter' /\ item'[n] \in 1..Len(relayLog')
        BY <1>1, <1>3, <4>1, TabNats DEF TabInv
      <4>3. ASSUME NEW j \in item[n]..(N + 1) PROVE relayLog'[j].op # "restart"
        <5>1. CASE j = N + 1
          BY <1>1, <5>1
        <5>2. CASE j # N + 1
          <6>1. j \in item[n]..N /\ j \in 1..N
            BY <1>1, <4>1, <5>2
          <6> QED
            BY <1>1, <4>1, <6>1 DEF TabInv, ItemsOK, N
        <5> QED
          BY <5>1, <5>2
      <4>4. relayLog'[item[n]].op = "chunk"
              => [seq |-> n, slot |-> ChannelOf[relayLog'[item[n]].msg]] \in log'
        BY <1>1, <4>1 DEF TabInv, ItemsOK
      <4> QED
        BY <1>1, <4>1, <4>2, <4>3, <4>4
    <3> QED
      BY <3>1, <3>2
  <2>2. ASSUME NEW n \in Seqs, NEW p \in Seqs, n < p, item'[n] # NoItem, item'[p] # NoItem
        PROVE  item'[n] < item'[p]
    <3>1. n # c
      BY <1>3, <2>2, TabNats DEF TabInv
    <3>2. CASE p = c
      BY <1>1, <1>3, <2>2, <3>1, <3>2
    <3>3. CASE p # c
      BY <1>3, <2>2, <3>1, <3>3 DEF TabInv, ItemsOK
    <3> QED
      BY <3>2, <3>3
  <2> QED
    BY <1>3, <2>1, <2>2 DEF ItemsOK
<1>5. ASSUME NEW m \in MessageId
      PROVE  /\ Entries(m) \subseteq Entries(m)' /\ Entries(m) \subseteq 1..N
             /\ \A i \in Entries(m)' : i \in Entries(m) \/ i = N + 1
  BY <1>1 DEF Entries, N
<1>6. ASSUME NEW k \in Client, NEW m \in MessageId, Could(k, m)' PROVE Could(k, m)
  <2>1. WellStreamed(m)
    BY <1>1, <1>5, <1>6 DEF Could, WellStreamed
  <2>2. ASSUME NEW i \in Entries(m)
        PROVE  \E n \in Seqs : /\ item[n] = i /\ n \notin expired
                               /\ start[k] = None \/ start[k] <= n
    <3>1. PICK n \in Seqs : /\ item'[n] = i /\ n \notin expired'
                            /\ start[k] = None \/ start[k] <= n
      BY <1>5, <1>6, <2>2 DEF Could
    <3>2. n # c
      BY <1>1, <1>3, <1>5, <3>1
    <3> QED
      BY <1>3, <3>1, <3>2
  <2> QED
    BY <2>1, <2>2 DEF Could
<1>7. ASSUME NEW k \in Client, NEW m \in MessageId PROVE Seen(k, m)' = Seen(k, m)
  <2>1. CASE start[k] = None
    BY <2>1 DEF Seen
  <2>2. CASE start[k] # None
    <3>1. lastId[k] \in Nat /\ lastId[k] < c
      BY <1>2, <2>2, TabNats DEF TabInv
    <3>2. \A n \in Seqs : n <= lastId[k] => n # c
      BY <1>3, <3>1
    <3>3. \A i \in Entries(m) : \A n \in Seqs : item[n] = i => item'[n] = i
      BY <1>1, <1>3, <1>5 DEF NoItem
    <3>4. ASSUME NEW i \in Entries(m)', NEW n \in Seqs, item'[n] = i, n <= lastId[k]
          PROVE  i \in Entries(m) /\ item[n] = i
      <4>1. item[n] = i
        BY <1>3, <3>2, <3>4
      <4>2. i # N + 1
        BY <1>1, <1>3, <4>1 DEF NoItem
      <4> QED
        BY <1>5, <4>1, <4>2
    <3>5. \A i : i \in Seen(k, m) <=>
                   i \in Entries(m) /\ \E n \in Seqs : item[n] = i /\ n <= lastId[k]
      BY <2>2 DEF Seen
    <3>6. \A i : i \in Seen(k, m)' <=>
                   i \in Entries(m)' /\ \E n \in Seqs : item'[n] = i /\ n <= lastId[k]
      BY <2>2 DEF Seen
    <3> QED
      BY <1>5, <3>3, <3>4, <3>5, <3>6
  <2> QED
    BY <2>1, <2>2
<1>8. ASSUME NEW k \in Client, NEW m \in MessageId
      PROVE  TextOf(Seen(k, m))' = TextOf(Seen(k, m))
  <2>1. Seen(k, m) \subseteq 1..N
    BY <1>5 DEF Seen
  <2>2. ASSUME NEW q \in Relay!SeqNo PROVE Same(Seen(k, m), q)' = Same(Seen(k, m), q)
    BY <1>1, <1>7, <2>1 DEF Same
  <2> QED
    BY <2>2 DEF TextOf
<1>9. ShownOK'
  BY <1>6, <1>8 DEF TabInv, ShownOK
<1>10. ShownTyped'
  <2>1. 0..N \subseteq 0..Len(relayLog')
    BY <1>1
  <2> QED
    BY <2>1 DEF TabInv, ShownTyped, N
<1> QED
  BY <1>4, <1>9, <1>10 DEF TabInv

(* No tab can have followed a reply over a restart, unless nothing was sent. *)
LEMMA RestartTabStep ==
  ASSUME SseInv, RelayOK, TabInv, RestartTab
  PROVE  TabInv'
<1>1. /\ Len(relayLog) \in Nat /\ Len(relayLog') = Len(relayLog) + 1
      /\ \A i \in 1..Len(relayLog) : relayLog'[i] = relayLog[i]
      /\ item' = [n \in Seqs |-> NoItem] /\ start' = [k \in Client |-> None] /\ shown' = shown
  BY DEF RelayOK, RestartTab, Relay!RestartStream, Relay!Record, RestartSse
<1>2. ItemsOK'
  BY <1>1 DEF ItemsOK, NoItem
<1>3. ASSUME NEW k \in Client, NEW m \in MessageId, Could(k, m)', SlotOf[k] = ChannelOf[m]
      PROVE  shown'[k][m] = TextOf(Seen(k, m))'
  <2>1. Entries(m)' = {}
    <3>1. \A i \in Entries(m)' : i # NoItem
      BY <1>1 DEF Entries, NoItem
    <3> QED
      BY <1>1, <1>3, <3>1 DEF Could
  <2>2. Entries(m) = {}
    <3>1. \A i \in Entries(m) : i \in 1..Len(relayLog')
      BY <1>1 DEF Entries
    <3>2. Entries(m) \subseteq Entries(m)'
      BY <1>1, <3>1 DEF Entries
    <3> QED
      BY <2>1, <3>2
  <2>3. Could(k, m) /\ Seen(k, m) = {} /\ Seen(k, m)' = {}
    BY <2>1, <2>2 DEF Could, WellStreamed, Seen
  <2>4. \A q : Same(Seen(k, m), q) = {} /\ Same(Seen(k, m), q)' = {}
    BY <2>3 DEF Same
  <2>5. TextOf(Seen(k, m))' = TextOf(Seen(k, m))
    BY <2>4 DEF TextOf
  <2> QED
    BY <1>1, <1>3, <2>3, <2>5 DEF TabInv, ShownOK
<1>4. ShownTyped'
  <2>1. 0..Len(relayLog) \subseteq 0..Len(relayLog')
    BY <1>1
  <2> QED
    BY <1>1, <2>1 DEF TabInv, ShownTyped
<1> QED
  BY <1>2, <1>3, <1>4 DEF TabInv, ShownOK

(* Pieces of a reply this client can have, and has not got, are on the way. *)
LEMMA PieceOnTheWay ==
  ASSUME SseInv, RelayOK, TabInv, NEW k \in Client, NEW m \in MessageId,
         SlotOf[k] = ChannelOf[m], link[k] # None, start[k] # None,
         NEW i \in Entries(m), relayLog[i].op = "chunk",
         NEW n \in Seqs, item[n] = i, n \notin expired, lastId[k] < n
  PROVE  n \in On(k)
<1>1. i \in 1..Len(relayLog) /\ relayLog[i].msg = m /\ i # NoItem
  BY DEF Entries, NoItem
<1>2. [seq |-> n, slot |-> SlotOf[k]] \in log
  BY <1>1 DEF TabInv, ItemsOK
<1>3. n \in Own(k)
  <2>1. \A l \in log : l.slot = SlotOf[k] => l.seq \in Own(k)
    BY DEF Own
  <2> QED
    BY <1>2, <2>1
<1>4. Due(k, n)
  BY TabNats DEF TabInv, Due
<1> QED
  BY <1>3, <1>4 DEF SseInv, DueIsOn

(* The pieces of a number in what a `done' brings. *)
Brought(d, q) == {p \in Range(relayLog[d].content) : relayLog[p].seq = q}

(* That is the latest piece of the number, if there is one. *)
LEMMA DoneBringsLatest ==
  ASSUME RelayOK, NEW m \in MessageId, WellStreamed(m), NEW d \in Entries(m),
         relayLog[d].op = "done",
         \A i \in Entries(m) : \A j \in i..Len(relayLog) : relayLog[j].op # "restart",
         NEW q \in Relay!SeqNo
  PROVE  IF Same(Entries(m), q) = {} THEN Brought(d, q) = {}
         ELSE Brought(d, q) = {LastOf(Same(Entries(m), q))}
<1> DEFINE same == Brought(d, q)
           N    == Len(relayLog)
           all  == Same(Entries(m), q)
<1>1. /\ N \in Nat /\ d \in 1..N /\ relayLog[d].msg = m
      /\ Entries(m) \subseteq 1..N
  BY DEF RelayOK, Entries
<1>2. \A i \in Entries(m) : i = d \/ (relayLog[i].op = "chunk" /\ i < d)
  <2> SUFFICES ASSUME NEW i \in Entries(m), i # d PROVE relayLog[i].op = "chunk" /\ i < d
    OBVIOUS
  <2>1. ~(d < i)
    BY DEF WellStreamed
  <2>2. i < d
    BY <1>1, <2>1
  <2> QED
    BY <2>2 DEF WellStreamed
<1>3. \A p : p \in same <=> /\ p \in 1..(d - 1) /\ Piece(m, p) /\ relayLog[p].seq = q
                            /\ \A k \in 1..(d - 1) : ~Over(k, p)
  BY <1>1 DEF RelayOK, Brought
<1> HIDE DEF same
<1>4. \A p : p \in all <=> p \in 1..(d - 1) /\ Piece(m, p) /\ relayLog[p].seq = q
  <2>1. ASSUME NEW p \in all PROVE p \in 1..(d - 1) /\ Piece(m, p) /\ relayLog[p].seq = q
    <3>1. p \in Entries(m) /\ relayLog[p].op = "chunk" /\ relayLog[p].seq = q
      BY <2>1 DEF Same
    <3>2. p # d /\ p < d /\ p \in 1..N
      BY <1>1, <1>2, <3>1
    <3>3. p \in 1..(d - 1)
      BY <1>1, <3>2
    <3> QED
      BY <3>1, <3>3 DEF Piece, Entries
  <2>2. ASSUME NEW p \in 1..(d - 1), Piece(m, p), relayLog[p].seq = q PROVE p \in all
    <3>1. p \in 1..N
      BY <1>1
    <3> QED
      BY <2>2, <3>1 DEF Same, Entries, Piece
  <2> QED
    BY <2>1, <2>2
<1>5. ASSUME NEW p \in all, NEW k \in 1..(d - 1)
      PROVE  Over(k, p) <=> k > p /\ k \in all
  <2>1. p \in 1..(d - 1) /\ Piece(m, p) /\ relayLog[p].seq = q /\ p \in Entries(m)
    BY <1>4 DEF Same
  <2>2. k > p => k \in 1..N /\ k \in p..N
    BY <1>1, <2>1
  <2>3. k > p => relayLog[k].op # "restart"
    BY <2>1, <2>2
  <2>4. ~(relayLog[k].op = "done" /\ relayLog[k].msg = m)
    <3>1. k \in 1..N /\ k # d
      BY <1>1
    <3> QED
      BY <1>2, <3>1 DEF Entries
  <2> QED
    BY <1>4, <2>1, <2>3, <2>4 DEF Over, Piece
<1>6. \A p : p \in same <=> p \in all /\ \A k \in all : ~(k > p)
  <2>1. \A k \in all : k \in 1..(d - 1)
    BY <1>4
  <2> QED
    BY <1>3, <1>4, <1>5, <2>1
<1>7. CASE all = {}
  BY <1>6, <1>7 DEF same
<1>8. CASE all # {}
  <2>1. all \in SUBSET (1..N) /\ all \subseteq Nat
    BY <1>1 DEF Same
  <2> HIDE DEF all
  <2>2. PICK x \in all : \A y \in all : y <= x
    BY <1>1, <1>8, <2>1, Greatest
  <2>3. LastOf(all) = x
    BY <2>1, <2>2, LastIs
  <2>4. ASSUME NEW p \in same PROVE p = x
    <3>1. p \in all /\ p \in Nat /\ x \in Nat /\ ~(x > p) /\ p <= x
      BY <1>6, <2>1, <2>2
    <3> QED
      BY <3>1
  <2>5. x \in same
    <3>1. \A k \in all : ~(k > x)
      BY <2>1, <2>2
    <3> QED
      BY <1>6, <2>2, <3>1
  <2> QED
    BY <1>8, <2>3, <2>4, <2>5 DEF all, same
<1> QED
  BY <1>7, <1>8 DEF same

(* The tab shows what it has seen of a reply it can have followed: a piece  *)
(* it processes is later than those it has seen, and at `done' it has seen  *)
(* all the others.                                                          *)
LEMMA ShownFollows ==
  ASSUME SseInv, RelayOK, TabInv, NEW k \in Client, NEW m \in MessageId, TabReceive(k),
         SlotOf[k] = ChannelOf[m], Could(k, m)'
  PROVE  shown'[k][m] = TextOf(Seen(k, m))'
<1>1. PICK f \in Seqs : /\ f = Head(wire[k]).seq /\ f \in On(k) /\ lastId'[k] = f
                        /\ \A n \in On(k) : n = f \/ f < n
  BY ReceiveStep DEF TabReceive, Frame
<1>2. /\ start'[k] = IF start[k] = None THEN f ELSE start[k]
      /\ UNCHANGED <<relayLog, item, expired, log>> /\ link[k] # None
      /\ start'[k] # None
  <2>1. start' = [start EXCEPT ![k] = IF @ = None THEN f ELSE @]
    BY <1>1 DEF TabReceive, Receive
  <2>2. link[k] # None
    BY DEF TabReceive, Receive, SseInv, WireOK
  <2> QED
    BY <2>1, <2>2, SeqNats DEF TabReceive, Receive, relay, SseInv, SseTypeOK
<1> DEFINE E  == Entries(m)
           i0 == item[f]
<1>3. /\ E' = E /\ WellStreamed(m) /\ E \subseteq 1..Len(relayLog) /\ Len(relayLog) \in Nat
      /\ \A i \in E : i \in Nat /\ i # NoItem
      /\ \A i \in E : \E n \in Seqs : item[n] = i /\ start'[k] <= n /\ n \notin expired
  <2>1. E' = E
    BY <1>2 DEF Entries
  <2>2. E \subseteq 1..Len(relayLog) /\ Len(relayLog) \in Nat
    BY TabNats DEF TabInv
  <2>3. WellStreamed(m)
    BY <1>2, <2>1 DEF Could, WellStreamed
  <2>4. \A i \in E : \E n \in Seqs : item[n] = i /\ start'[k] <= n /\ n \notin expired
    BY <1>2, <2>1 DEF Could
  <2> QED
    BY <2>1, <2>2, <2>3, <2>4 DEF NoItem
<1>4. /\ f \in Nat /\ \A n \in Seqs : n \in Nat /\ item[n] \in Nat
      /\ start[k] # None => lastId[k] \in Nat /\ lastId[k] < f
      /\ start'[k] <= f
  <2>1. f \in Nat /\ \A n \in Seqs : n \in Nat /\ item[n] \in Nat
    BY TabNats DEF TabInv
  <2>2. start[k] # None => lastId[k] \in Nat /\ lastId[k] < f
    BY <1>1, TabNats DEF TabInv, SseInv, GotOK
  <2>3. start[k] # None => start[k] \in Nat /\ start[k] <= lastId[k]
    BY TabNats DEF TabInv
  <2> QED
    BY <1>2, <2>1, <2>2, <2>3
<1>5. \A n, p \in Seqs : item[n] # NoItem /\ item[p] # NoItem =>
        (item[n] = item[p] <=> n = p) /\ (item[n] < item[p] <=> n < p)
  <2> SUFFICES ASSUME NEW n \in Seqs, NEW p \in Seqs, item[n] # NoItem, item[p] # NoItem
               PROVE  (item[n] = item[p] <=> n = p) /\ (item[n] < item[p] <=> n < p)
    OBVIOUS
  <2>1. (n < p => item[n] < item[p]) /\ (p < n => item[p] < item[n])
    BY DEF TabInv, ItemsOK
  <2> QED
    BY <1>4, <2>1
<1>6. Seen(k, m) \subseteq E /\ \A i \in Seen(k, m) : i # i0
  <2> SUFFICES ASSUME NEW i \in Seen(k, m) PROVE i \in E /\ i # i0
    OBVIOUS
  <2>1. i \in E /\ start[k] # None /\ \E n \in Seqs : item[n] = i /\ n <= lastId[k]
    BY DEF Seen
  <2>2. PICK n \in Seqs : item[n] = i /\ n <= lastId[k]
    BY <2>1
  <2>3. n < f /\ item[n] # NoItem
    BY <1>3, <1>4, <2>1, <2>2
  <2> QED
    BY <1>3, <1>4, <1>5, <2>1, <2>2, <2>3
<1>7. ASSUME NEW i \in Seen(k, m)' PROVE i \in E /\ \E n \in Seqs : item[n] = i /\ n <= f
  BY <1>1, <1>2, <1>3 DEF Seen
<1>8. ASSUME NEW i \in E, NEW n \in Seqs, item[n] = i, n <= f PROVE i \in Seen(k, m)'
  BY <1>1, <1>2, <1>3, <1>8 DEF Seen
<1>9. \A i \in Seen(k, m) : i \in Seen(k, m)' /\ (i0 # NoItem => i < i0)
  <2> SUFFICES ASSUME NEW i \in Seen(k, m)
               PROVE  i \in Seen(k, m)' /\ (i0 # NoItem => i < i0)
    OBVIOUS
  <2>1. start[k] # None /\ i \in E
    BY DEF Seen
  <2>2. PICK n \in Seqs : item[n] = i /\ n <= lastId[k]
    BY DEF Seen
  <2>3. n <= f /\ n < f /\ item[n] # NoItem
    BY <1>3, <1>4, <2>1, <2>2
  <2> QED
    BY <1>5, <1>8, <2>1, <2>2, <2>3
(* Nothing of the reply but perhaps its `done' was skipped. *)
<1>10. ASSUME NEW i \in Seen(k, m)', relayLog[i].op = "chunk", i # i0
       PROVE  i \in Seen(k, m)
  <2>1. PICK n \in Seqs : item[n] = i /\ n <= f
    BY <1>7
  <2>2. i \in E /\ i # NoItem /\ n # f
    BY <1>3, <1>7, <1>10, <2>1
  <2>3. start'[k] <= n /\ n \notin expired
    <3>1. PICK p \in Seqs : item[p] = i /\ start'[k] <= p /\ p \notin expired
      BY <1>3, <2>2
    <3> QED
      BY <1>5, <2>1, <2>2, <3>1
  <2>4. start[k] # None
    BY <1>2, <1>4, <2>1, <2>2, <2>3
  <2>5. CASE n <= lastId[k]
    BY <2>1, <2>2, <2>4, <2>5 DEF Seen
  <2>6. CASE ~(n <= lastId[k])
    <3>1. lastId[k] < n
      BY <1>4, <2>4, <2>6
    <3>2. n \in On(k)
      BY <1>2, <1>10, <2>1, <2>2, <2>3, <2>4, <3>1, PieceOnTheWay
    <3> QED
      BY <1>1, <1>4, <2>1, <2>2, <3>2
  <2> QED
    BY <2>5, <2>6
<1>11. shown[k][m] = TextOf(Seen(k, m))
  <2>1. start[k] = None \/ start[k] = start'[k]
    BY <1>2
  <2>2. Could(k, m)
    BY <1>3, <2>1 DEF Could
  <2> QED
    BY <2>2 DEF TabInv, ShownOK
<1>12. TextOf(Seen(k, m))' = [q \in Relay!SeqNo |-> LastOf(Same(Seen(k, m)', q))]
  <2>1. \A q : Same(Seen(k, m), q)' = Same(Seen(k, m)', q)
    BY <1>2 DEF Same
  <2>2. \A q : LastOf(Same(Seen(k, m), q))' = LastOf(Same(Seen(k, m)', q))
    BY <2>1
  <2> QED
    BY <2>2 DEF TextOf
<1> HIDE DEF E, i0
<1>13. CASE i0 = NoItem \/ relayLog[i0].msg # m
  <2>1. shown'[k][m] = shown[k][m]
    BY <1>1, <1>13 DEF TabReceive, TabInv, ShownTyped, i0
  <2>2. \A i \in E : i # i0
    BY <1>3, <1>13 DEF E, Entries
  <2>3. \A i \in Seen(k, m)' : relayLog[i].op = "chunk" => i \in Seen(k, m)
    BY <1>7, <1>10, <2>2
  <2>4. \A q : Same(Seen(k, m)', q) = Same(Seen(k, m), q)
    BY <1>9, <2>3 DEF Same
  <2>5. TextOf(Seen(k, m))' = TextOf(Seen(k, m))
    BY <1>12, <2>4 DEF TextOf
  <2> QED
    BY <1>11, <2>1, <2>5
<1>14. CASE i0 # NoItem /\ relayLog[i0].msg = m
  <2>1. /\ i0 \in 1..Len(relayLog) /\ relayLog[i0].op # "restart" /\ i0 \in E
        /\ relayLog[i0].op \in {"chunk", "done"}
        /\ \A i \in E : \A j \in i..Len(relayLog) : relayLog[j].op # "restart"
    <3>1. /\ i0 \in 1..Len(relayLog)
          /\ \A j \in i0..Len(relayLog) : relayLog[j].op # "restart"
      BY <1>14 DEF TabInv, ItemsOK, i0
    <3>2. i0 \in i0..Len(relayLog)
      BY <1>3, <3>1
    <3>3. ASSUME NEW i \in E, NEW j \in i..Len(relayLog) PROVE relayLog[j].op # "restart"
      <4>1. PICK n \in Seqs : item[n] = i
        BY <1>3
      <4> QED
        BY <1>3, <4>1 DEF TabInv, ItemsOK
    <3> QED
      BY <1>14, <3>1, <3>2, <3>3 DEF RelayOK, E, Entries
  <2>2. shown'[k][m] = After(shown[k][m], i0)
    BY <1>1, <1>14 DEF TabReceive, TabInv, ShownTyped, i0
  <2>3. i0 \in Seen(k, m)'
    BY <1>4, <1>8, <2>1 DEF i0
  <2>4. CASE relayLog[i0].op = "chunk"
    <3> DEFINE q0 == relayLog[i0].seq
    <3>1. q0 \in Relay!SeqNo
      BY <2>1, <2>4 DEF RelayOK
    <3>2. shown'[k][m] = [shown[k][m] EXCEPT ![q0] = i0]
      BY <2>2, <2>4 DEF After
    <3> HIDE DEF q0
    <3>3. ASSUME NEW q \in Relay!SeqNo PROVE shown'[k][m][q] = LastOf(Same(Seen(k, m)', q))
      <4>1. CASE q # q0
        <5>1. Same(Seen(k, m)', q) = Same(Seen(k, m), q)
          BY <1>9, <1>10, <4>1 DEF Same, q0
        <5> QED
          BY <1>11, <3>2, <4>1, <5>1 DEF TextOf
      <4>2. CASE q = q0
        <5>1. i0 \in Same(Seen(k, m)', q)
          BY <2>3, <2>4, <4>2 DEF Same, q0
        <5>2. ASSUME NEW i \in Same(Seen(k, m)', q) PROVE i \in Nat /\ i <= i0
          <6>1. i \in Nat /\ (i = i0 \/ i \in Seen(k, m))
            BY <1>3, <1>7, <1>10, <5>2 DEF Same
          <6> QED
            BY <1>3, <1>9, <1>14, <2>1, <6>1
        <5>3. Same(Seen(k, m)', q) \subseteq Nat
          BY <5>2
        <5>4. LastOf(Same(Seen(k, m)', q)) = i0
          BY <5>1, <5>2, <5>3, LastIs
        <5>5. shown[k][m] \in [Relay!SeqNo -> 0..Len(relayLog)]
          BY DEF TabInv, ShownTyped
        <5> QED
          BY <3>1, <3>2, <4>2, <5>4, <5>5
      <4> QED
        BY <4>1, <4>2
    <3>4. shown'[k][m] = [q \in Relay!SeqNo |-> shown'[k][m][q]]
      BY <3>2 DEF TabInv, ShownTyped
    <3> QED
      BY <1>12, <3>3, <3>4
  <2>5. CASE relayLog[i0].op = "done"
    <3>1. ASSUME NEW q PROVE Same(Seen(k, m)', q) = Same(E, q)
      <4>1. ASSUME NEW i \in E, relayLog[i].op = "chunk" PROVE i \in Seen(k, m)'
        <5>1. ~(i0 < i)
          BY <1>3, <2>1, <2>5, <4>1 DEF WellStreamed, E
        <5>2. PICK n \in Seqs : item[n] = i
          BY <1>3
        <5>3. n <= f
          BY <1>3, <1>4, <1>5, <1>14, <5>1, <5>2 DEF i0
        <5> QED
          BY <1>8, <5>2, <5>3
      <4>2. Seen(k, m)' \subseteq E
        BY <1>7
      <4> QED
        BY <4>1, <4>2 DEF Same
    <3>2. ASSUME NEW q \in Relay!SeqNo
          PROVE  (IF Brought(i0, q) = {} THEN Relay!NoChunk
                  ELSE CHOOSE p \in Brought(i0, q) : TRUE) = LastOf(Same(E, q))
      <4> DEFINE same == Brought(i0, q)
      <4>1. IF Same(E, q) = {} THEN same = {} ELSE same = {LastOf(Same(E, q))}
        BY <1>3, <2>1, <2>5, DoneBringsLatest DEF E
      <4> HIDE DEF same
      <4>2. CASE Same(E, q) = {}
        BY <4>1, <4>2 DEF same, LastOf
      <4>3. CASE Same(E, q) # {}
        <5>1. same = {LastOf(Same(E, q))}
          BY <4>1, <4>3
        <5>2. (CHOOSE p \in same : TRUE) = LastOf(Same(E, q)) /\ same # {}
          BY <5>1
        <5> QED
          BY <5>2 DEF same
      <4> QED
        BY <4>2, <4>3
    <3>3. After(shown[k][m], i0) = [q \in Relay!SeqNo |-> LastOf(Same(E, q))]
      BY <2>5, <3>2 DEF After, Brought
    <3>4. TextOf(Seen(k, m))' = [q \in Relay!SeqNo |-> LastOf(Same(E, q))]
      BY <1>12, <3>1
    <3> QED
      BY <2>2, <3>3, <3>4
  <2> QED
    BY <2>1, <2>4, <2>5
<1> QED
  BY <1>13, <1>14

(* A tab's processing of a frame keeps the invariant for every tab. *)
LEMMA TabReceiveStep ==
  ASSUME SseInv, RelayOK, TabInv, NEW k \in Client, TabReceive(k)
  PROVE  TabInv'
<1> DEFINE i == item[Head(wire[k]).seq]
           e == relayLog[i]
<1>1. /\ UNCHANGED <<seqCounter, log, expired, relayLog, item>>
      /\ \A j \in Client : j # k => start'[j] = start[j] /\ lastId'[j] = lastId[j]
      /\ Head(wire[k]).seq \in Seqs
  <2>1. UNCHANGED <<seqCounter, log, expired, relayLog, item>>
    BY DEF TabReceive, Receive, server, relay
  <2>2. \A j \in Client : j # k => start'[j] = start[j] /\ lastId'[j] = lastId[j]
    BY DEF TabReceive, Receive, SseInv, SseTypeOK
  <2>3. Head(wire[k]).seq \in Seqs
    BY ReceiveStep DEF TabReceive, Frame
  <2> QED
    BY <2>1, <2>2, <2>3
<1>2. ItemsOK'
  BY <1>1 DEF TabInv, ItemsOK
<1>3. shown' = IF i = NoItem THEN shown
               ELSE [shown EXCEPT ![k] = [shown[k] EXCEPT ![e.msg] = After(shown[k][e.msg], i)]]
  BY DEF TabReceive, TabInv, ShownTyped
<1>4. i # NoItem => i \in 1..Len(relayLog) /\ e.op \in {"chunk", "done"} /\ e.msg \in MessageId
  <2> SUFFICES ASSUME i # NoItem
               PROVE  i \in 1..Len(relayLog) /\ e.op \in {"chunk", "done"} /\ e.msg \in MessageId
    OBVIOUS
  <2>1. i \in 1..Len(relayLog) /\ \A j \in i..Len(relayLog) : relayLog[j].op # "restart"
    BY <1>1 DEF TabInv, ItemsOK
  <2>2. i \in i..Len(relayLog)
    BY <2>1, TabNats DEF TabInv
  <2> QED
    BY <2>1, <2>2 DEF RelayOK
<1> HIDE DEF i
<1>5. ASSUME i # NoItem, NEW text \in [Relay!SeqNo -> 0..Len(relayLog)]
      PROVE  After(text, i) \in [Relay!SeqNo -> 0..Len(relayLog)]
  <2>1. CASE e.op = "chunk"
    <3>1. e.seq \in Relay!SeqNo /\ i \in 0..Len(relayLog)
      BY <1>4, <1>5, <2>1, TabNats DEF RelayOK, TabInv
    <3> QED
      BY <2>1, <3>1 DEF After
  <2>2. CASE e.op = "done"
    <3>1. ASSUME NEW p \in Range(e.content) PROVE p \in 0..Len(relayLog)
      <4>1. p \in 1..(i - 1)
        BY <1>4, <1>5, <2>2, <3>1 DEF RelayOK
      <4> QED
        BY <1>4, <1>5, <4>1, TabNats DEF TabInv
    <3>2. \A q : Brought(i, q) \subseteq 0..Len(relayLog)
      BY <3>1 DEF Brought
    <3>3. Relay!NoChunk \in 0..Len(relayLog)
      BY TabNats DEF Relay!NoChunk, TabInv
    <3>4. \A q \in Relay!SeqNo : (IF Brought(i, q) = {} THEN Relay!NoChunk
                                  ELSE CHOOSE p \in Brought(i, q) : TRUE) \in 0..Len(relayLog)
      BY <3>2, <3>3
    <3>5. After(text, i) = [q \in Relay!SeqNo |->
                              IF Brought(i, q) = {} THEN Relay!NoChunk
                              ELSE CHOOSE p \in Brought(i, q) : TRUE]
      BY <2>2 DEF After, Brought
    <3> QED
      BY <3>4, <3>5
  <2> QED
    BY <1>4, <1>5, <2>1, <2>2
<1> HIDE DEF e
<1>6. ShownTyped'
  <2>1. shown' \in [Client -> [MessageId -> [Relay!SeqNo -> 0..Len(relayLog)]]]
    <3>1. CASE i = NoItem
      BY <1>3, <3>1 DEF TabInv, ShownTyped
    <3>2. CASE i # NoItem
      <4>1. After(shown[k][e.msg], i) \in [Relay!SeqNo -> 0..Len(relayLog)]
        BY <1>4, <1>5, <3>2 DEF TabInv, ShownTyped
      <4>2. [shown[k] EXCEPT ![e.msg] = After(shown[k][e.msg], i)]
              \in [MessageId -> [Relay!SeqNo -> 0..Len(relayLog)]]
        BY <4>1 DEF TabInv, ShownTyped
      <4> QED
        BY <1>3, <3>2, <4>2 DEF TabInv, ShownTyped
    <3> QED
      BY <3>1, <3>2
  <2> QED
    BY <1>1, <2>1 DEF ShownTyped
<1>7. ASSUME NEW j \in Client, NEW m \in MessageId, SlotOf[j] = ChannelOf[m], Could(j, m)'
      PROVE  shown'[j][m] = TextOf(Seen(j, m))'
  <2>1. CASE j = k
    BY <1>7, <2>1, ShownFollows
  <2>2. CASE j # k
    <3>1. Entries(m)' = Entries(m)
      BY <1>1 DEF Entries
    <3>2. Could(j, m) /\ Seen(j, m)' = Seen(j, m)
      BY <1>1, <1>7, <2>2, <3>1 DEF Could, WellStreamed, Seen
    <3>3. TextOf(Seen(j, m))' = TextOf(Seen(j, m))
      BY <1>1, <3>2 DEF TextOf, Same
    <3>4. shown'[j][m] = shown[j][m]
      BY <1>3, <2>2 DEF TabInv, ShownTyped
    <3> QED
      BY <1>7, <3>2, <3>3, <3>4 DEF TabInv, ShownOK
  <2> QED
    BY <2>1, <2>2
<1> QED
  BY <1>2, <1>6, <1>7 DEF TabInv, ShownOK

(* Every step of the composition keeps the invariant. *)
LEMMA TabInductive ==
  SseInv /\ SseInv' /\ RelayOK /\ TabInv /\ [TabNext]_tabVars => TabInv'
<1> SUFFICES ASSUME SseInv, SseInv', RelayOK, TabInv, [TabNext]_tabVars PROVE TabInv'
  OBVIOUS
<1>1. seqCounter \in Nat /\ seqCounter' \in Nat
  BY DEF SseInv, SseTypeOK
<1>2. ASSUME NEW m \in MessageId, NEW q \in Relay!SeqNo, StreamChunk(m, q) PROVE TabInv'
  <2> DEFINE e == [op |-> "chunk", msg |-> m, seq |-> q]
  <2>1. relayLog' = Append(relayLog, e) /\ e.op = "chunk" /\ e.msg = m
    BY <1>2 DEF StreamChunk, Relay!HandleStreamChunk, Relay!Record
  <2>2. /\ [seq |-> seqCounter, slot |-> ChannelOf[m]] \in log' /\ log \subseteq log'
        /\ expired \subseteq expired' /\ NextSeq /\ UNCHANGED <<start, lastId>>
    BY <1>2 DEF StreamChunk, BroadcastChunk, AddToBuffer
  <2> HIDE DEF e
  <2> QED
    BY <1>2, <2>1, <2>2, Carried DEF StreamChunk
<1>3. ASSUME NEW m \in MessageId, NEW result \in Relay!Result, StreamDone(m, result) PROVE TabInv'
  <2>1. PICK e : relayLog' = Append(relayLog, e) /\ e.op = "done" /\ e.msg = m
    BY <1>3 DEF StreamDone, Relay!HandleStreamDone, Relay!Record
  <2>2. /\ UNCHANGED <<log, expired, start, lastId>> /\ NextSeq
    BY <1>3 DEF StreamDone, BroadcastEvent, history
  <2> QED
    BY <1>3, <2>1, <2>2, Carried DEF StreamDone
<1>4. ASSUME NEW k \in Client, TabReceive(k) PROVE TabInv'
  BY <1>4, TabReceiveStep
<1>5. ASSUME SseOnly PROVE TabInv'
  <2>1. /\ UNCHANGED <<relayLog, item, shown, start, lastId>>
        /\ expired \subseteq expired' /\ log \subseteq log'
        /\ seqCounter' = seqCounter \/ seqCounter' = seqCounter + 1
    BY <1>5 DEF SseOnly, AddConnection, Disconnect, RemoveConnection, BroadcastEvent,
       SendHeartbeat, BroadcastGlobal, NextSeq, server, client, history, relay
  <2>2. seqCounter <= seqCounter'
    BY <1>1, <2>1
  <2> QED
    BY <1>1, <2>1, <2>2, ReplyUntouched
<1>6. ASSUME RestartTab PROVE TabInv'
  BY <1>6, RestartTabStep
<1>7. ASSUME UNCHANGED tabVars PROVE TabInv'
  <2>1. /\ UNCHANGED <<relayLog, item, shown, start, lastId, expired, log, seqCounter>>
    BY <1>7 DEF tabVars, sseVars, server, client, history, relay
  <2>2. seqCounter <= seqCounter'
    BY <1>1, <2>1
  <2> QED
    BY <1>1, <2>1, <2>2, ReplyUntouched
<1> QED
  BY <1>2, <1>3, <1>4, <1>5, <1>6, <1>7 DEF TabNext

(* At first there is nothing to show. *)
LEMMA InitTabInv == TabInit => TabInv
<1> SUFFICES ASSUME TabInit PROVE TabInv
  OBVIOUS
<1>1. /\ relayLog = << >> /\ start = [k \in Client |-> None]
      /\ item = [n \in Seqs |-> NoItem]
      /\ shown = [k \in Client |-> [m \in MessageId |-> Nothing]]
  BY DEF TabInit, Relay!StreamInit, SseInit
<1>2. ItemsOK
  BY <1>1 DEF ItemsOK, NoItem
<1>3. ShownTyped
  <2>1. Relay!NoChunk \in 0..Len(relayLog)
    BY <1>1 DEF Relay!NoChunk
  <2> QED
    BY <1>1, <2>1 DEF ShownTyped, Nothing
<1>4. ASSUME NEW k \in Client, NEW m \in MessageId PROVE shown[k][m] = TextOf(Seen(k, m))
  <2>1. \A q : Same(Seen(k, m), q) = {}
    BY <1>1 DEF Same, Seen
  <2> QED
    BY <1>1, <2>1 DEF TextOf, LastOf, Nothing
<1> QED
  BY <1>2, <1>3, <1>4 DEF TabInv, ShownOK

(* Tabs show what they have seen of the replies they can have followed. *)
THEOREM TabInvariant == TabSpec => [](SseInv /\ RelayOK /\ TabInv)
<1>1. RP!StreamInv => RelayOK
  BY RelayIsOK
<1> QED
  BY <1>1, TabKeepsSse, TabKeepsRelay, InitTabInv, TabInductive, PTL DEF TabSpec

(* The relay is not disturbed by what the tabs do. *)
THEOREM TabImplementsRelay == TabSpec => Relay!StreamSpec
<1>1. TabInit => Relay!StreamInit
  BY DEF TabInit
<1> QED
  BY <1>1, TabStepIsRelays, PTL DEF TabSpec, Relay!StreamSpec

(* The composition's state has its types. *)
THEOREM TabTypeCorrect == TabSpec => []TabTypeOK
<1>1. RP!StreamInv => Relay!StreamTypeOK
  BY RelayIsOK
<1>2. SseInv /\ Relay!StreamTypeOK /\ RelayOK /\ TabInv => TabTypeOK
  <2> SUFFICES ASSUME SseInv, Relay!StreamTypeOK, RelayOK, TabInv PROVE TabTypeOK
    OBVIOUS
  <2>1. ASSUME NEW n \in Seqs PROVE item[n] \in 0..Len(relayLog)
    <3>1. Len(relayLog) \in Nat
      BY TabNats DEF TabInv
    <3>2. item[n] = 0 \/ item[n] \in 1..Len(relayLog)
      BY DEF TabInv, ItemsOK, NoItem
    <3> QED
      BY <3>1, <3>2
  <2> QED
    BY <2>1 DEF TabTypeOK, SseInv, TabInv, ItemsOK, ShownTyped
<1> QED
  BY <1>1, <1>2, TabInvariant, TabKeepsRelay, PTL

(* A tab that has followed a reply and processed what its connection was    *)
(* sent shows the text of the reply.                                        *)
THEOREM TabsShowReply == TabSpec => []TabShowsReply
<1>1. SseInv /\ RelayOK /\ TabInv => TabShowsReply
  <2> SUFFICES ASSUME SseInv, RelayOK, TabInv, NEW k \in Client, NEW m \in MessageId,
                      SlotOf[k] = ChannelOf[m], WellStreamed(m), Followed(k, m),
                      [seq |-> link[k], client |-> k] \in conns, wire[k] = << >>
               PROVE  shown[k][m] = Text(m)
    BY DEF TabShowsReply
  <2>1. Could(k, m) /\ start[k] # None
    BY DEF Could, Followed
  <2>2. link[k] # None
    BY SeqNats DEF SseInv, SseTypeOK
  <2>3. On(k) = {}
    BY DEF On
  <2>4. ASSUME NEW i \in Entries(m), relayLog[i].op = "chunk" PROVE i \in Seen(k, m)
    <3>1. PICK n \in Seqs : item[n] = i /\ start[k] <= n /\ n \notin expired
      BY DEF Followed
    <3>2. n <= lastId[k]
      <4>1. ~(lastId[k] < n)
        BY <2>1, <2>2, <2>3, <2>4, <3>1, PieceOnTheWay
      <4> QED
        BY <2>1, <4>1, TabNats DEF TabInv
    <3> QED
      BY <2>1, <3>1, <3>2 DEF Seen
  <2>5. Seen(k, m) \subseteq Entries(m)
    BY DEF Seen
  <2>6. \A q : Same(Seen(k, m), q) = Same(Entries(m), q)
    BY <2>4, <2>5 DEF Same
  <2>7. TextOf(Seen(k, m)) = TextOf(Entries(m))
    BY <2>6 DEF TextOf
  <2>8. TextOf(Entries(m)) = Text(m)
    BY DEF TextOf, Text, LastOf, Same
  <2> QED
    BY <2>1, <2>7, <2>8 DEF TabInv, ShownOK
<1> QED
  BY <1>1, TabInvariant, PTL
=============================================================================
