----------------------- MODULE MessageDeliveryProofs ------------------------
(***************************************************************************)
(* Proofs about MessageDelivery for any number of channels, messages and   *)
(* clock values, any page size and any window of the duplicate filter:     *)
(* what a plugin's cursor can skip, that an acknowledged message is final, *)
(* and which duplicates can be stored.                                     *)
(***************************************************************************)
EXTENDS MessageDelivery, FiniteSetTheorems, WellFoundedInduction, TLAPS

(* Rows exist for 1..lastMsg; created_at follows the order of creation. *)
RowsStored ==
  \A m \in Msg :
    IF m <= lastMsg
    THEN /\ status[m] # "none"
         /\ chan[m] \in Channel
         /\ createdAt[m] \in 1..now
    ELSE status[m] = "none" /\ chan[m] = NoChannel

CreatedInOrder ==
  \A m, n \in Msg : m <= n /\ n <= lastMsg => createdAt[m] <= createdAt[n]

(* The plugin only has stored messages, and its cursor is of one of them. *)
SeenIsStored == \A m \in seen \cup acked : m <= lastMsg

CursorIsSeen ==
  \A c \in Channel :
    cursor[c] # NoCursor =>
      \E n \in seen : chan[n] = c /\ createdAt[n] = cursor[c]

IInv ==
  /\ RowsStored
  /\ CreatedInOrder
  /\ SeenIsStored
  /\ CursorIsSeen
  /\ CursorSkipsOnlyTies
  /\ AckedIsFinal
  /\ DuplicatesAreFar

-----------------------------------------------------------------------------
(* A page of rows that is not empty has a newest message. *)
LEMMA NewestExists ==
  ASSUME NEW page \in SUBSET Msg, page # {}
  PROVE  Newest(page) \in page /\ \A n \in page : n <= Newest(page)
<1> USE MessageAssumption DEF Msg
<1> DEFINE rest == {MaxMsg - m : m \in page}
<1>1. rest \subseteq Nat /\ rest # {}
  <2>1. \A m \in page : m \in Int /\ MaxMsg - m \in Nat
    OBVIOUS
  <2> QED
    BY <2>1
<1>2. \E x \in rest : \A y \in rest : ~(<<y, x>> \in OpToRel(<, Nat))
  <2> HIDE DEF rest
  <2> QED
    BY <1>1, NatLessThanWellFounded, WFMin, Zenon
<1>3. PICK x \in rest : \A y \in rest : ~(y < x)
  BY <1>1, <1>2, Zenon DEF OpToRel
<1>4. PICK m \in page : x = MaxMsg - m
  OBVIOUS
<1>5. ASSUME NEW n \in page PROVE n <= m
  <2>1. MaxMsg - n \in rest
    OBVIOUS
  <2>2. ~(MaxMsg - n < MaxMsg - m)
    BY <1>3, <1>4, <2>1
  <2> QED
    BY <2>2
<1> QED
  BY <1>4, <1>5 DEF Newest

(* A row left out by the page comes after every row of it. *)
LEMMA PageIsFirst ==
  ASSUME NEW rows \in SUBSET Msg, NEW k \in Page(rows), NEW m \in rows \ Page(rows)
  PROVE  k < m
<1> USE MessageAssumption DEF Msg
<1> DEFINE Before(n) == {i \in rows : i < n}
<1>1. \A n \in Msg : IsFiniteSet(Before(n)) /\ Cardinality(Before(n)) \in Nat
  <2>1. IsFiniteSet(Msg)
    BY FS_Interval
  <2>2. \A n \in Msg : Before(n) \in SUBSET Msg
    OBVIOUS
  <2> HIDE DEF Before, Msg
  <2> QED
    BY <2>1, <2>2, FS_Subset, FS_CardinalityType
<1>2. k \in Msg /\ Cardinality(Before(k)) < PageLimit
  BY DEF Page
<1>3. m \in Msg /\ ~(Cardinality(Before(m)) < PageLimit)
  BY DEF Page
<1>4. SUFFICES ASSUME ~(k < m) PROVE FALSE
  OBVIOUS
<1>5. Before(m) \in SUBSET Before(k)
  <2>1. \A i \in Msg : i < m => i < k
    BY <1>2, <1>3, <1>4
  <2> QED
    BY <2>1
<1>6. Cardinality(Before(m)) <= Cardinality(Before(k))
  <2> HIDE DEF Before
  <2> QED
    BY <1>1, <1>2, <1>5, FS_Subset
<1> QED
  BY <1>1, <1>2, <1>3, <1>6

-----------------------------------------------------------------------------
(* A step keeps the type of every variable. *)
LEMMA NextTypeOK == MsgTypeOK /\ [MsgNext]_msgVars => MsgTypeOK'
<1> SUFFICES ASSUME MsgTypeOK, [MsgNext]_msgVars PROVE MsgTypeOK'
  OBVIOUS
<1> USE MessageAssumption DEF MsgTypeOK, MsgStatus, Msg, NoCursor
<1>1. ASSUME NEW c \in Channel, NEW reachable \in BOOLEAN, SendMessage(c, reachable)
      PROVE MsgTypeOK'
  BY <1>1 DEF SendMessage, Create
<1>2. ASSUME NEW c \in Channel, NEW dir \in {"inbound", "outbound"}, StoreDelivered(c, dir)
      PROVE MsgTypeOK'
  BY <1>2 DEF StoreDelivered, Create, plugin
<1>7. ASSUME NEW c \in Channel, NEW dir \in {"inbound", "outbound"},
             NEW d \in DedupId \cup {NoDedup}, StoreUnlessDuplicate(c, dir, d)
      PROVE MsgTypeOK'
  BY <1>7 DEF StoreUnlessDuplicate, Create, plugin
<1>3. ASSUME NEW c \in Channel, NEW after, GetPendingMessages(c, after)
      PROVE MsgTypeOK'
  <2> DEFINE page == Page(PendingRows(c, after))
  <2>1. page \in SUBSET Msg /\ page # {}
    BY <1>3 DEF GetPendingMessages, Page, PendingRows
  <2>2. Newest(page) \in Msg
    BY <2>1, NewestExists
  <2> QED
    BY <1>3, <2>1, <2>2 DEF GetPendingMessages, table
<1>4. ASSUME NEW m \in Msg, AckMessage(m) \/ EditMessage(m) \/ DeleteMessage(m)
      PROVE MsgTypeOK'
  BY <1>4 DEF AckMessage, MarkProcessed, EditMessage, DeleteMessage, plugin
<1>5. CASE Tick
  BY <1>5 DEF Tick, table, plugin
<1>6. CASE UNCHANGED msgVars
  BY <1>6 DEF msgVars, table, plugin
<1> QED
  BY <1>1, <1>2, <1>3, <1>4, <1>5, <1>6, <1>7
     DEF MsgNext, ForwardToOpenClaw, HandleCrossChannelMessage

(* An empty table satisfies the invariant. *)
LEMMA InitCorrect == MsgInit => MsgTypeOK /\ IInv
  BY MessageAssumption
     DEF MsgInit, MsgTypeOK, IInv, RowsStored, CreatedInOrder, SeenIsStored,
         CursorIsSeen, CursorSkipsOnlyTies, AckedIsFinal, DuplicatesAreFar, Twins,
         Msg, MsgStatus, NoCursor

(* Storing a message that the filter lets pass, or that has no dedupId.     *)
LEMMA FilterKeepsApart ==
  ASSUME MsgTypeOK, RowsStored, DuplicatesAreFar,
         NEW c \in Channel, NEW dir, NEW st, NEW d \in DedupId \cup {NoDedup},
         d # NoDedup => ~AlreadyStored(c, d),
         Create(c, dir, st, d)
  PROVE  DuplicatesAreFar'
<1> USE MessageAssumption DEF MsgTypeOK, Msg
<1>1. lastMsg' = lastMsg + 1 /\ lastMsg' \in Msg
  BY DEF Create
<1>2. \A m \in Msg :
        /\ chan'[m] = IF m = lastMsg' THEN c ELSE chan[m]
        /\ createdAt'[m] = IF m = lastMsg' THEN now ELSE createdAt[m]
        /\ dedup'[m] = IF m = lastMsg' THEN d ELSE dedup[m]
  BY <1>1 DEF Create
<1> DEFINE Before(m, n) == {k \in 1..(n - 1) : chan[k] = chan[m]}
           Later(m, n)  == Newer(m, Before(m, n))
<1> SUFFICES ASSUME NEW m \in Msg, NEW n \in Msg, m < n, Twins(m, n)'
             PROVE  \/ createdAt'[n] > createdAt'[m] + DedupWindow
                    \/ Cardinality(Later(m, n)') >= DedupLimit
  BY DEF DuplicatesAreFar
<1>3. n <= lastMsg'
  <2>1. chan'[n] \in Channel
    BY DEF Twins
  <2>2. CASE n # lastMsg'
    <3>1. chan[n] # NoChannel
      BY <1>2, <2>1, <2>2
    <3> QED
      BY <1>1, <3>1 DEF RowsStored
  <2> QED
    BY <1>1, <2>2
<1>4. m # lastMsg' /\ \A k \in 1..(n - 1) : k \in Msg /\ k # lastMsg'
  BY <1>1, <1>3
<1>5. Later(m, n)' = Later(m, n)
  BY <1>2, <1>4 DEF Newer
<1> HIDE DEF Later
<1>6. CASE n # lastMsg'
  <2>1. Twins(m, n)
    BY <1>2, <1>4, <1>6 DEF Twins
  <2>2. \/ createdAt[n] > createdAt[m] + DedupWindow
        \/ Cardinality(Later(m, n)) >= DedupLimit
    BY <2>1 DEF DuplicatesAreFar, Later
  <2> QED
    BY <1>2, <1>4, <1>5, <1>6, <2>2
<1>7. CASE n = lastMsg'
  <2>1. chan[m] = c /\ dedup[m] = d /\ d # NoDedup /\ createdAt'[n] = now
    BY <1>2, <1>4, <1>7 DEF Twins
  <2>2. CASE m \notin RecentRows(c)
    BY <1>2, <1>4, <2>1, <2>2 DEF RecentRows
  <2>3. CASE m \in RecentRows(c)
    <3> DEFINE recent == Newer(m, RecentRows(c))
    <3>1. ~(Cardinality(recent) < DedupLimit)
      BY <2>1, <2>3 DEF AlreadyStored
    <3>2. recent \in SUBSET Later(m, n)
      <4>1. \A k \in RecentRows(c) : k \in 1..(n - 1) /\ chan[k] = chan[m]
        BY <1>1, <1>7, <2>1 DEF RecentRows, RowsStored
      <4> QED
        BY <4>1 DEF Newer, Later
    <3>3. IsFiniteSet(Later(m, n))
      <4>1. IsFiniteSet(1..(n - 1)) /\ Later(m, n) \in SUBSET (1..(n - 1))
        BY FS_Interval DEF Newer, Later
      <4> QED
        BY <4>1, FS_Subset
    <3> HIDE DEF recent
    <3>4. /\ Cardinality(recent) \in Nat /\ Cardinality(Later(m, n)) \in Nat
          /\ Cardinality(recent) <= Cardinality(Later(m, n))
      BY <3>2, <3>3, FS_Subset, FS_CardinalityType
    <3> QED
      BY <1>5, <3>1, <3>4
  <2> QED
    BY <2>2, <2>3
<1> QED
  BY <1>6, <1>7

(* Only storing a message matters to the filter. *)
LEMMA FilterUnchanged ==
  ASSUME DuplicatesAreFar, UNCHANGED <<chan, createdAt, dedup>>
  PROVE  DuplicatesAreFar'
<1> USE DEF DuplicatesAreFar
<1> SUFFICES ASSUME NEW m \in Msg, NEW n \in Msg, m < n, Twins(m, n)'
             PROVE  (\/ createdAt[n] > createdAt[m] + DedupWindow
                     \/ Cardinality(Newer(m, {k \in 1..(n - 1) : chan[k] = chan[m]})) >= DedupLimit)'
  OBVIOUS
<1>1. Twins(m, n)
  BY DEF Twins
<1>2. Newer(m, {k \in 1..(n - 1) : chan[k] = chan[m]})' = Newer(m, {k \in 1..(n - 1) : chan[k] = chan[m]})
  BY DEF Newer
<1> QED
  BY <1>1, <1>2

(* Storing a message, whichever handler does. *)
LEMMA CreateKeeps ==
  ASSUME MsgTypeOK, IInv,
         NEW c \in Channel, NEW dir, NEW st \in {"sent", "delivered"},
         NEW d \in DedupId \cup {NoDedup},
         d # NoDedup => ~AlreadyStored(c, d),
         Create(c, dir, st, d),
         seen' = seen \/ seen' = seen \cup {lastMsg'},
         UNCHANGED <<now, cursor, acked>>
  PROVE  IInv'
<1> USE MessageAssumption DEF MsgTypeOK, Msg, NoCursor
<1>1. /\ lastMsg' = lastMsg + 1 /\ lastMsg' \in Msg
      /\ seen \subseteq seen' /\ seen' \subseteq seen \cup {lastMsg'}
  BY DEF Create
<1>2. \A m \in Msg :
        /\ chan'[m] = IF m = lastMsg' THEN c ELSE chan[m]
        /\ direction'[m] = IF m = lastMsg' THEN dir ELSE direction[m]
        /\ status'[m] = IF m = lastMsg' THEN st ELSE status[m]
        /\ createdAt'[m] = IF m = lastMsg' THEN now ELSE createdAt[m]
  BY <1>1 DEF Create
<1>3. lastMsg' \notin seen \cup acked
  BY <1>1 DEF IInv, SeenIsStored
<1>4. RowsStored'
  <2> SUFFICES ASSUME NEW m \in Msg
               PROVE  IF m <= lastMsg'
                      THEN status'[m] # "none" /\ chan'[m] \in Channel /\ createdAt'[m] \in 1..now
                      ELSE status'[m] = "none" /\ chan'[m] = NoChannel
    BY DEF RowsStored
  <2>1. CASE m = lastMsg'
    BY <1>1, <1>2, <2>1
  <2>2. CASE m # lastMsg'
    BY <1>1, <1>2, <2>2 DEF IInv, RowsStored
  <2> QED
    BY <2>1, <2>2
<1>5. CreatedInOrder'
  <2> SUFFICES ASSUME NEW m \in Msg, NEW n \in Msg, m <= n, n <= lastMsg'
               PROVE  createdAt'[m] <= createdAt'[n]
    BY DEF CreatedInOrder
  <2>1. CASE n = lastMsg'
    <3>1. createdAt'[n] = now
      BY <1>2, <2>1
    <3>2. createdAt'[m] <= now
      BY <1>1, <1>4, <2>1 DEF RowsStored
    <3> QED
      BY <3>1, <3>2
  <2>2. CASE n # lastMsg'
    BY <1>1, <1>2, <2>2 DEF IInv, CreatedInOrder
  <2> QED
    BY <2>1, <2>2
<1>6. SeenIsStored'
  BY <1>1 DEF IInv, SeenIsStored
<1>7. ASSUME NEW b \in Channel, cursor[b] # NoCursor
      PROVE  \E n \in seen : /\ chan[n] = b /\ createdAt[n] = cursor[b]
                             /\ chan'[n] = b /\ createdAt'[n] = cursor[b]
  <2>1. PICK n \in seen : chan[n] = b /\ createdAt[n] = cursor[b]
    BY <1>7 DEF IInv, CursorIsSeen
  <2>2. n \in Msg /\ n # lastMsg'
    BY <1>3
  <2> QED
    BY <1>2, <2>1, <2>2
<1>8. CursorIsSeen'
  BY <1>1, <1>7 DEF CursorIsSeen
<1>9. CursorSkipsOnlyTies'
  <2> SUFFICES ASSUME NEW m \in Msg, status'[m] = "sent", direction'[m] = "outbound",
                      m \notin seen', createdAt'[m] <= cursor[chan'[m]]
               PROVE  \E n \in seen' : chan'[n] = chan'[m] /\ createdAt'[n] = createdAt'[m]
    BY DEF CursorSkipsOnlyTies
  <2>1. CASE m = lastMsg'
    <3>1. chan'[m] = c /\ createdAt'[m] = now /\ cursor[c] # NoCursor
      BY <1>2, <2>1
    <3>2. PICK n \in seen : chan'[n] = c /\ createdAt[n] = cursor[c] /\ createdAt'[n] = cursor[c]
      BY <1>7, <3>1
    <3>3. createdAt[n] <= now
      BY <3>2 DEF IInv, RowsStored, SeenIsStored
    <3> QED
      BY <1>1, <3>1, <3>2, <3>3
  <2>2. CASE m # lastMsg'
    <3>1. \E n \in seen : chan[n] = chan[m] /\ createdAt[n] = createdAt[m]
      BY <1>1, <1>2, <2>2 DEF IInv, CursorSkipsOnlyTies
    <3> QED
      BY <1>1, <1>2, <1>3, <2>2, <3>1
  <2> QED
    BY <2>1, <2>2
<1>10. AckedIsFinal'
  BY <1>2, <1>3 DEF IInv, AckedIsFinal
<1>11. DuplicatesAreFar'
  BY FilterKeepsApart DEF IInv
<1> QED
  BY <1>4, <1>5, <1>6, <1>8, <1>9, <1>10, <1>11 DEF IInv

(* A poll: what its page passes over is stored in the same millisecond as   *)
(* the newest message of the page.                                          *)
LEMMA PollKeeps ==
  ASSUME MsgTypeOK, IInv, NEW c \in Channel, NEW after \in {NoCursor, cursor[c]},
         GetPendingMessages(c, after)
  PROVE  IInv'
<1> USE MessageAssumption DEF MsgTypeOK, Msg, NoCursor
<1> DEFINE rows == PendingRows(c, after)
           page == Page(rows)
           k    == Newest(page)
<1>1. /\ page # {} /\ seen' = seen \cup page
      /\ cursor' = [cursor EXCEPT ![c] = createdAt[k]]
      /\ UNCHANGED <<now, table, acked>>
  BY DEF GetPendingMessages
<1>2. page \in SUBSET rows /\ rows \in SUBSET Msg
  BY DEF Page, PendingRows
<1>3. k \in page
  BY <1>1, <1>2, NewestExists
<1>4. chan[k] = c /\ k \in seen' /\ k \in Msg
  BY <1>1, <1>2, <1>3 DEF PendingRows
<1> HIDE DEF k
<1>5. RowsStored' /\ CreatedInOrder' /\ AckedIsFinal'
  BY <1>1 DEF table, IInv, RowsStored, CreatedInOrder, AckedIsFinal
<1>6. SeenIsStored'
  BY <1>1, <1>2 DEF table, IInv, SeenIsStored, RowsStored, PendingRows
<1>7. CursorIsSeen'
  BY <1>1, <1>4 DEF table, IInv, CursorIsSeen
<1>8. CursorSkipsOnlyTies'
  <2> SUFFICES ASSUME NEW m \in Msg, status[m] = "sent", direction[m] = "outbound",
                      m \notin seen', createdAt[m] <= cursor'[chan[m]]
               PROVE  \E n \in seen' : chan[n] = chan[m] /\ createdAt[n] = createdAt[m]
    BY <1>1 DEF CursorSkipsOnlyTies, table
  <2>1. CASE chan[m] # c \/ createdAt[m] <= cursor[c]
    BY <1>1, <2>1 DEF IInv, CursorSkipsOnlyTies
  <2>2. CASE chan[m] = c /\ ~(createdAt[m] <= cursor[c])
    <3>1. m \in rows \ page
      BY <1>1, <2>2 DEF PendingRows
    <3>2. k < m
      BY <1>2, <1>3, <3>1, PageIsFirst
    <3>3. m <= lastMsg
      BY DEF IInv, RowsStored
    <3>4. createdAt[k] <= createdAt[m]
      BY <1>4, <3>2, <3>3 DEF IInv, CreatedInOrder
    <3>5. createdAt[m] <= createdAt[k]
      BY <1>1, <1>4, <2>2
    <3>6. createdAt[k] = createdAt[m]
      BY <1>4, <3>4, <3>5
    <3> QED
      BY <1>4, <2>2, <3>6
  <2> QED
    BY <2>1, <2>2
<1>9. DuplicatesAreFar'
  BY <1>1, FilterUnchanged DEF table, IInv
<1> QED
  BY <1>5, <1>6, <1>7, <1>8, <1>9 DEF IInv

(* Acknowledging, editing and deleting touch the status of one message. *)
LEMMA SettleKeeps ==
  ASSUME MsgTypeOK, IInv, NEW m \in Msg,
         AckMessage(m) \/ EditMessage(m) \/ DeleteMessage(m)
  PROVE  IInv'
<1> USE MessageAssumption DEF MsgTypeOK, Msg, NoCursor
<1>1. UNCHANGED <<now, lastMsg, chan, direction, createdAt, dedup, cursor, seen>>
  BY DEF AckMessage, EditMessage, DeleteMessage, plugin
<1>2. m <= lastMsg
  BY DEF AckMessage, EditMessage, DeleteMessage, IInv, SeenIsStored
<1>3. \A n \in Msg :
        \/ status'[n] = status[n] /\ (n \in acked' => n \in acked)
        \/ n = m /\ status'[n] \in {"delivered", "deleted"}
  BY DEF AckMessage, MarkProcessed, EditMessage, DeleteMessage
<1>4. acked' = acked \/ acked' = acked \cup {m}
  BY DEF AckMessage, EditMessage, DeleteMessage
<1>5. RowsStored'
  BY <1>1, <1>2, <1>3 DEF IInv, RowsStored
<1>6. CreatedInOrder' /\ SeenIsStored' /\ CursorIsSeen'
  BY <1>1, <1>2, <1>4 DEF IInv, CreatedInOrder, SeenIsStored, CursorIsSeen
<1>7. CursorSkipsOnlyTies'
  BY <1>1, <1>3 DEF IInv, CursorSkipsOnlyTies
<1>8. AckedIsFinal'
  <2> SUFFICES ASSUME NEW n \in acked' PROVE status'[n] \in {"delivered", "deleted"}
    BY DEF AckedIsFinal
  <2>1. n \in Msg
    BY <1>4
  <2> QED
    BY <1>3, <2>1 DEF IInv, AckedIsFinal
<1>9. DuplicatesAreFar'
  BY <1>1, FilterUnchanged DEF IInv
<1> QED
  BY <1>5, <1>6, <1>7, <1>8, <1>9 DEF IInv

(* Every step of the specification keeps the invariant. *)
LEMMA NextIInv == MsgTypeOK /\ IInv /\ [MsgNext]_msgVars => IInv'
<1> SUFFICES ASSUME MsgTypeOK, IInv, [MsgNext]_msgVars PROVE IInv'
  OBVIOUS
<1>1. ASSUME NEW c \in Channel, NEW reachable \in BOOLEAN, SendMessage(c, reachable)
      PROVE IInv'
  BY <1>1, CreateKeeps DEF SendMessage
<1>2. ASSUME NEW c \in Channel, NEW dir \in {"inbound", "outbound"}, StoreDelivered(c, dir)
      PROVE IInv'
  BY <1>2, CreateKeeps DEF StoreDelivered, plugin
<1>5. ASSUME NEW c \in Channel, NEW dir \in {"inbound", "outbound"},
             NEW d \in DedupId \cup {NoDedup}, StoreUnlessDuplicate(c, dir, d)
      PROVE IInv'
  BY <1>5, CreateKeeps DEF StoreUnlessDuplicate, plugin
<1>3. CASE Tick
  BY <1>3, MessageAssumption
     DEF Tick, table, plugin, MsgTypeOK, IInv, RowsStored, CreatedInOrder, SeenIsStored,
         CursorIsSeen, CursorSkipsOnlyTies, AckedIsFinal, DuplicatesAreFar, Twins, Newer, Msg
<1>4. CASE UNCHANGED msgVars
  BY <1>4 DEF msgVars, table, plugin, IInv, RowsStored, CreatedInOrder, SeenIsStored,
              CursorIsSeen, CursorSkipsOnlyTies, AckedIsFinal, DuplicatesAreFar, Twins, Newer
<1> QED
  BY <1>1, <1>2, <1>3, <1>4, <1>5, PollKeeps, SettleKeeps
     DEF MsgNext, ForwardToOpenClaw, HandleCrossChannelMessage

(* The inductive invariant of every reachable state. *)
THEOREM Invariant == MsgSpec => [](MsgTypeOK /\ IInv)
  BY InitCorrect, NextTypeOK, NextIInv, PTL DEF MsgSpec

(* Every variable keeps its type, for every value of the constants. *)
THEOREM TypeCorrect == MsgSpec => []MsgTypeOK
  BY Invariant, PTL

(* A plugin's cursor passes over nothing but ties of a message it got. *)
THEOREM CursorLosesOnlyTies == MsgSpec => []CursorSkipsOnlyTies
<1>1. IInv => CursorSkipsOnlyTies
  BY DEF IInv
<1> QED
  BY <1>1, Invariant, PTL

(* An acknowledged message is never 'sent' again. *)
THEOREM AckedStaysFinal == MsgSpec => []AckedIsFinal
<1>1. IInv => AckedIsFinal
  BY DEF IInv
<1> QED
  BY <1>1, Invariant, PTL

(* The duplicate filter stores a message of OpenClaw again only after the   *)
(* window or behind as many others as it looks at.                          *)
THEOREM DuplicatesFar == MsgSpec => []DuplicatesAreFar
<1>1. IInv => DuplicatesAreFar
  BY DEF IInv
<1> QED
  BY <1>1, Invariant, PTL
=============================================================================
