----------------------------- MODULE MCDelivery -----------------------------
EXTENDS Delivery

Good(id) == [event_id |-> id, defect |-> "none"]
Bad(id, defect) == [event_id |-> id, defect |-> defect]

MCEnvelope ==
  [id \in EventIds |->
     [kind |-> CASE id = "e1" -> "reflection_recorded"
                 [] id = "e2" -> "agent_registered"
                 [] id = "e3" -> "error_observed"
                 [] id = "e4" -> "error_observed",
      agent |-> "a1", occurred_at |-> 1]]

MCOffers ==
  {[peer |-> "client", transport |-> tr, frames |-> <<Good("e1")>>] : tr \in {"websocket", "udp"}}
  \cup
  {[peer |-> "client", transport |-> "udp",       frames |-> <<Good("e2")>>],
   [peer |-> "client", transport |-> "http",      frames |-> <<Bad("e1", "unauthorized")>>],
   [peer |-> "agent",  transport |-> "tcp",       frames |-> <<Good("e2"), Good("e1")>>],
   [peer |-> "agent",  transport |-> "tcp",       frames |-> <<Bad("e1", "oversized"), Good("e1")>>],
   [peer |-> "agent",  transport |-> "websocket", frames |-> <<Bad("e1", "not_utf8")>>],
   [peer |-> "agent",  transport |-> "http",      frames |-> <<Bad("e1", "unfinished")>>],
   [peer |-> "agent",  transport |-> "websocket", frames |-> <<Bad("e1", "unauthorized")>>],
   [peer |-> "agent",  transport |-> "udp",       frames |-> <<Good("e2")>>],
   [peer |-> "agent",  transport |-> "udp",       frames |-> <<Bad("e1", "malformed")>>]}

MCPipelined ==
  {[peer |-> "agent", transport |-> "tcp", frames |-> <<Bad("e1", "oversized"), Good("e1")>>]}

MCLines ==
  <<[update |-> "error",      hidden |-> FALSE, event_id |-> "e3"],
    [update |-> "error",      hidden |-> FALSE, event_id |-> "e4"]>>
=============================================================================
