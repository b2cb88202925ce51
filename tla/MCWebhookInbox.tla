--------------------------- MODULE MCWebhookInbox ---------------------------
(* The instance of WebhookInbox for TLC: in a behaviour either relayed events *)
(* or those of the exclusive routes occur, for no event reads another's row.  *)
EXTENDS WebhookInbox

VARIABLE served   \* the events of the behaviour

MCInit == Init /\ served \in {Relays, Exclusive}

MCNext ==
  /\ \E d \in Deliveries :
       \/ \E e \in served : Deliver(d, e) \/ Handle(d, e)
       \/ Crash(d)
  /\ UNCHANGED served

\* FairSpec, for the events that occur
MCSpec ==
  /\ MCInit /\ [][MCNext]_<<vars, served>>
  /\ \A d \in Deliveries : WF_vars(\E e \in served : Handle(d, e))
  /\ \A e \in Events :
       SF_vars(e \in served \intersect owed /\ \E d \in Deliveries : Deliver(d, e))

\* In a behaviour of relayed events each ends up processed, with its effect,
\* even if one call of one of its deliveries fails.
ServedRelaysComplete == served = Relays => RelaysComplete
=============================================================================
