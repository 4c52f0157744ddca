----------------------------- MODULE EventFeed -----------------------------
(***************************************************************************)
(* What the transactional outbox promises to the services behind Kafka     *)
(* (gateway/migrations/0010_outbox_workflow.up.sql:1-7): an event exists    *)
(* only once the write that raised it is stored, only existing events are   *)
(* delivered, delivery may repeat, and an event is settled - never sent     *)
(* again on purpose - only once it has been delivered.                      *)
(*                                                                         *)
(* Excused names the events a broker may swallow: a promise made without   *)
(* waiting for the broker's acknowledgement cannot cover them.             *)
(***************************************************************************)
CONSTANTS Events, Excused

VARIABLES stored, delivered, settled

feedVars == <<stored, delivered, settled>>

FeedInit == stored = {} /\ delivered = {} /\ settled = {}

Store(e) ==
    /\ e \notin stored
    /\ stored' = stored \cup {e}
    /\ UNCHANGED <<delivered, settled>>

Deliver(e) ==
    /\ e \in stored
    /\ delivered' = delivered \cup {e}
    /\ UNCHANGED <<stored, settled>>

Settle(e) ==
    /\ e \in stored
    /\ e \in delivered \cup Excused
    /\ settled' = settled \cup {e}
    /\ UNCHANGED <<stored, delivered>>

FeedNext == \E e \in Events : Store(e) \/ Deliver(e) \/ Settle(e)

FeedSpec == FeedInit /\ [][FeedNext]_feedVars
============================================================================
