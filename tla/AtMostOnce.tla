----------------------------- MODULE AtMostOnce -----------------------------
(***************************************************************************)
(* What docs/protocol.md promises an agent that sends its events again: an *)
(* event takes effect once for as long as its id is remembered, an id is   *)
(* forgotten only to make room for another one or with the whole process,  *)
(* and an event that was confirmed has taken effect.  Delivery is shown to *)
(* implement it.                                                           *)
(***************************************************************************)
EXTENDS Integers, FiniteSets

CONSTANTS
  Ids,     \* event ids
  Window   \* how many of them are remembered

VARIABLES
  remembered,  \* the ids a replay of which is recognised
  effects,     \* how often each event has taken effect
  confirmed    \* the events whose sender was told that they were accepted

Init ==
  /\ remembered = {}
  /\ effects = [id \in Ids |-> 0]
  /\ confirmed = {}

TakeEffect(id) ==
  /\ id \notin remembered
  /\ effects' = [effects EXCEPT ![id] = @ + 1]
  /\ \E gone \in SUBSET remembered :
       /\ gone = {} \/ (Cardinality(gone) = 1 /\ Cardinality(remembered) = Window)
       /\ remembered' = (remembered \ gone) \cup {id}
  /\ UNCHANGED confirmed

Confirm(id) ==
  /\ effects[id] > 0
  /\ confirmed' = confirmed \cup {id}
  /\ UNCHANGED <<remembered, effects>>

Forget ==
  /\ remembered' = {}
  /\ UNCHANGED <<effects, confirmed>>

Next ==
  \/ \E id \in Ids : TakeEffect(id) \/ Confirm(id)
  \/ Forget

Spec == Init /\ [][Next]_<<remembered, effects, confirmed>>
=============================================================================
