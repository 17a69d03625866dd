--------------------------- MODULE ResumableFeed ----------------------------
(***************************************************************************)
(* What Last-Event-ID resumption promises, without connections or buffers. *)
(* Items with growing numbers are published to each follower's feed.  From *)
(* the moment it starts, a follower sees its items once, in order, and     *)
(* skips none but those the feed has given up.  The feed may be forgotten  *)
(* as a whole.                                                             *)
(***************************************************************************)
EXTENDS Naturals

CONSTANTS Follower, None

VARIABLES
  feed,     \* items published to each follower
  expired,  \* items given up
  start,    \* where a follower starts, or None
  seen      \* items it has seen

feedVars == <<feed, expired, start, seen>>

FeedInit ==
  /\ feed = [k \in Follower |-> {}]
  /\ expired = {}
  /\ start = [k \in Follower |-> None]
  /\ seen = [k \in Follower |-> {}]

(* A new item, newer than all of the same feed; older ones may be given up. *)
Publish ==
  /\ \A k \in Follower :
       /\ feed[k] \subseteq feed'[k]
       /\ \A n \in feed'[k] \ feed[k] : \A m \in feed[k] : n > m
  /\ expired \subseteq expired'
  /\ UNCHANGED <<start, seen>>

Begin(k) ==
  /\ start[k] = None
  /\ start'[k] \in Nat
  /\ start' = [start EXCEPT ![k] = start'[k]]
  /\ seen' = [seen EXCEPT ![k] = feed[k] \cap {start'[k]}]
  /\ UNCHANGED <<feed, expired>>

See(k, n) ==
  /\ start[k] # None
  /\ n \in feed[k]
  /\ n > start[k] /\ \A m \in seen[k] : n > m
  /\ \A m \in feed[k] : m > start[k] /\ m < n => m \in seen[k] \cup expired
  /\ seen' = [seen EXCEPT ![k] = @ \cup {n}]
  /\ UNCHANGED <<feed, expired, start>>

Forget ==
  /\ feed' = [k \in Follower |-> {}]
  /\ expired' = {}
  /\ start' = [k \in Follower |-> None]
  /\ seen' = [k \in Follower |-> {}]

FeedNext ==
  \/ Publish
  \/ \E k \in Follower :
       \/ Begin(k)
       \/ \E n \in feed[k] : See(k, n)
  \/ Forget

FeedSpec == FeedInit /\ [][FeedNext]_feedVars
=============================================================================
