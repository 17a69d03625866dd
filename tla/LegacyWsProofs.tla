--------------------------- MODULE LegacyWsProofs ---------------------------
(***************************************************************************)
(* Proofs about LegacyWs for any number of channels and sockets.           *)
(***************************************************************************)
EXTENDS LegacyWs, TLAPS

(* Sockets are numbered as they are accepted, each for one channel. *)
SocketsNumbered ==
  /\ \A s \in Sock : s <= lastSock <=> sock[s] # "unused"
  /\ \A s \in Sock : sock[s] # "unused" => chan[s] \in Channel
  /\ \A s \in Sock : sock[s] = "unused" => chan[s] = NoChannel
  /\ \A c \in Channel : lastClosed[c] <= lastSock
  /\ \A s \in badFrames : sock[s] # "unused"

LegacyInv == LegacyTypeOK /\ SocketsNumbered /\ RecordsAgree /\ BlamedAfterClose

USE LegacyAssumption

LEMMA InitLegacyInv == Init => LegacyInv
BY DEF Init, LegacyInv, LegacyTypeOK, SocketsNumbered, RecordsAgree, RouterHoldsLive,
   EntryIsNewest, StatusFollowsEntry, BlamedAfterClose, Sock, NoSock,
   ChannelStatus, ConnectionStatus

LEMMA NextLegacyInv == LegacyInv /\ [Next]_vars => LegacyInv'
<1> SUFFICES ASSUME LegacyInv, [Next]_vars PROVE LegacyInv'
  OBVIOUS
<1> USE DEF LegacyInv, RecordsAgree
<1>1. ASSUME NEW c \in Channel, HandleConnection(c) PROVE LegacyInv'
  <2> DEFINE s == lastSock + 1
  <2> USE <1>1 DEF HandleConnection
  <2>1. /\ s \in Sock /\ s > lastSock
        /\ status' = [status EXCEPT ![c] = "connected"]
    BY DEF LegacyTypeOK, Sock, UpdateStatus
  <2>2. LegacyTypeOK'
    BY <2>1 DEF LegacyTypeOK, Sock, ChannelStatus, ConnectionStatus
  <2>3. SocketsNumbered'
    BY <2>1 DEF SocketsNumbered, LegacyTypeOK, Sock
  <2>4. RouterHoldsLive'
    BY <2>1 DEF RouterHoldsLive, SocketsNumbered, LegacyTypeOK
  <2>5. EntryIsNewest'
    <3>1. conn'[c] = s /\ chan'[s] = c /\ sock'[s] = "open"
      BY <2>1 DEF LegacyTypeOK
    <3>2. \A n \in Sock : n <= lastSock \/ n = s \/ chan'[n] = NoChannel
      BY <2>1 DEF SocketsNumbered, LegacyTypeOK, Sock
    <3>3. ASSUME NEW d \in Channel, d # c
          PROVE  /\ conn'[d] = conn[d] /\ lastClosed'[d] = lastClosed[d]
                 /\ conn[d] # NoSock => conn[d] # s
                 /\ \A n \in Sock : chan'[n] = d => chan[n] = d /\ n # s
      BY <2>1, <3>3 DEF EntryIsNewest, SocketsNumbered, LegacyTypeOK
    <3> QED
      BY <2>1, <3>1, <3>2, <3>3 DEF EntryIsNewest, LegacyTypeOK, Sock
  <2>6. StatusFollowsEntry'
    BY <2>1 DEF StatusFollowsEntry, LegacyTypeOK, NoSock, Sock
  <2>7. BlamedAfterClose'
    <3>1. \A n \in badFrames : n \in Sock /\ n # s /\ chan'[n] = chan[n]
      BY <2>1 DEF SocketsNumbered, LegacyTypeOK, Sock
    <3> QED
      BY <3>1 DEF BlamedAfterClose
  <2> QED
    BY <2>2, <2>3, <2>4, <2>5, <2>6, <2>7
<1>2. ASSUME NEW c \in Channel, NEW st \in {"registered", "disabled", "deleted"},
             OwnerWrites(c, st)
      PROVE  LegacyInv'
  BY <1>2 DEF OwnerWrites, Stored, LegacyTypeOK, SocketsNumbered, RouterHoldsLive,
     EntryIsNewest, StatusFollowsEntry, BlamedAfterClose, ChannelStatus
<1>3. ASSUME NEW s \in Sock, Heartbeat(s) PROVE LegacyInv'
  <2> USE <1>3 DEF Heartbeat
  <2>1. chan[s] \in Channel
    BY DEF SocketsNumbered
  <2>2. LegacyTypeOK'
    BY <2>1 DEF LegacyTypeOK, ConnectionStatus, NoSock
  <2>3. sock' = sock \/ sock' = [sock EXCEPT ![s] = "closing"]
    OBVIOUS
  <2>4. SocketsNumbered' /\ RouterHoldsLive' /\ EntryIsNewest' /\ StatusFollowsEntry'
    BY <2>1, <2>3 DEF SocketsNumbered, RouterHoldsLive, EntryIsNewest, StatusFollowsEntry,
       LegacyTypeOK
  <2>5. BlamedAfterClose'
    <3>1. ASSUME conn[chan[s]] = NoSock PROVE s <= lastClosed[chan[s]]
      BY <2>1, <3>1 DEF EntryIsNewest, LegacyTypeOK, Sock, NoSock
    <3> QED
      BY <3>1 DEF BlamedAfterClose
  <2> QED
    BY <2>2, <2>4, <2>5
<1>4. ASSUME NEW s \in Sock, Leaves(s) \/ ErrorEvent(s) PROVE LegacyInv'
  BY <1>4 DEF Leaves, ErrorEvent, LegacyTypeOK, SocketsNumbered, RouterHoldsLive,
     EntryIsNewest, StatusFollowsEntry, BlamedAfterClose, ConnectionStatus
<1>5. ASSUME NEW s \in Sock, CloseEvent(s) PROVE LegacyInv'
  <2> USE <1>5 DEF CloseEvent, RemoveConnection, Unregister, UpdateStatus
  <2>1. chan[s] \in Channel
    BY DEF SocketsNumbered
  <2>2. LegacyTypeOK'
    BY <2>1 DEF LegacyTypeOK, ChannelStatus, ConnectionStatus
  <2>3. SocketsNumbered' /\ RouterHoldsLive'
    BY <2>1 DEF SocketsNumbered, RouterHoldsLive, LegacyTypeOK
  <2>4. EntryIsNewest'
    <3>1. \A n \in Sock : chan[n] = chan[s] => n <= lastSock
      BY <2>1 DEF SocketsNumbered
    <3>2. \A d \in Channel : d # chan[s] => conn[d] # s
      BY <2>1 DEF EntryIsNewest, NoSock, Sock
    <3> QED
      BY <2>1, <3>1, <3>2 DEF EntryIsNewest, LegacyTypeOK, Sock, NoSock
  <2>5. StatusFollowsEntry'
    BY <2>1 DEF StatusFollowsEntry, LegacyTypeOK, Stored
  <2>6. BlamedAfterClose'
    BY <2>1 DEF BlamedAfterClose, SocketsNumbered, LegacyTypeOK, Sock
  <2> QED
    BY <2>2, <2>3, <2>4, <2>5, <2>6
<1>6. CASE UNCHANGED vars
  BY <1>6 DEF vars, LegacyTypeOK, SocketsNumbered, RouterHoldsLive, EntryIsNewest,
     StatusFollowsEntry, BlamedAfterClose
<1> QED
  BY <1>1, <1>2, <1>3, <1>4, <1>5, <1>6 DEF Next

THEOREM LegacyInvariant == Spec => []LegacyInv
<1> QED BY InitLegacyInv, NextLegacyInv, PTL DEF Spec

(* Every variable keeps its type. *)
THEOREM LegacyTypeCorrect == Spec => []LegacyTypeOK
<1>1. LegacyInv => LegacyTypeOK
  BY DEF LegacyInv
<1> QED BY <1>1, LegacyInvariant, PTL

(* Store, manager and router agree about the sockets of every channel. *)
THEOREM RecordsAgreeHolds == Spec => []RecordsAgree
<1>1. LegacyInv => RecordsAgree
  BY DEF LegacyInv
<1> QED BY <1>1, LegacyInvariant, PTL

(* A heartbeat is taken for invalid only after another socket's close. *)
THEOREM BlamedAfterCloseHolds == Spec => []BlamedAfterClose
<1>1. LegacyInv => BlamedAfterClose
  BY DEF LegacyInv
<1> QED BY <1>1, LegacyInvariant, PTL
=============================================================================
