--------------------------- MODULE LiveFeedProofs ---------------------------
(***************************************************************************)
(* Theorems about LiveFeed, for every capacity of the channel and the      *)
(* socket and any number of events, restarts and faults.                   *)
(*                                                                         *)
(* The inductive invariant adds to the types that a socket which has not   *)
(* authenticated carries nothing, that the snapshots a page holds are in   *)
(* order (Ordered), and that a page which does not show the newest state   *)
(* has something on its way that will make it ask again (Covered).         *)
(***************************************************************************)
EXTENDS LiveFeed, SequenceTheorems, TLAPS

(* Snapshot s is not newer than snapshot t.                                *)
Upto(s, t) == s[1] < t[1] \/ (s[1] = t[1] /\ s[2] <= t[2])

(* What a page shows is not newer than what it is about to show, and both  *)
(* are not newer than the store.                                           *)
Ordered ==
  /\ shown # None => Upto(shown, Current)
  /\ \A i \in 1..Len(fetches) : fetches[i] # None =>
       Upto(fetches[i], Current) /\ (shown # None => Upto(shown, fetches[i]))

(* A socket before its authentication is empty, and nothing is queued for  *)
(* one that has not subscribed.                                            *)
Unheard ==
  /\ phase \in {"closed", "open"} => wire = <<>>
  /\ phase # "subscribed" => backlog = <<>> /\ ~lagged

(* A frame that makes a page ask for a state as new as the present one.    *)
Telling(frame) == frame.kind # "update" \/ frame.revision = revision

(* The page shows the present state, or will hear of it.                   *)
Covered ==
  \/ shown = Current
  \/ \E i \in 1..Len(fetches) : fetches[i] \in {None, Current}
  \/ timer \/ dirty \/ lagged
  \/ \E i \in 1..Len(wire) : Telling(wire[i])
  \/ \E i \in 1..Len(backlog) : backlog[i] = revision
  \/ revision \in unsent

(* When nothing was lost.                                                  *)
Undisturbed ==
  phase \in {"authenticated", "subscribed"} /\ ~missed /\ faults = 0
    /\ (filters => epoch = 0)

Inv ==
  /\ TypeOK
  /\ dirty => refreshing
  /\ Unheard
  /\ Ordered
  /\ Undisturbed => Covered

-----------------------------------------------------------------------------
(* Sequences.                                                              *)

LEMMA AppendFacts ==
  ASSUME NEW S, NEW s \in Seq(S), NEW x \in S
  PROVE  /\ Append(s, x) \in Seq(S)
         /\ Len(Append(s, x)) = Len(s) + 1
         /\ \A i \in 1..Len(s) : Append(s, x)[i] = s[i]
         /\ Append(s, x)[Len(s) + 1] = x
OBVIOUS

LEMMA TailFacts ==
  ASSUME NEW S, NEW s \in Seq(S), s # <<>>
  PROVE  /\ Len(s) \in Nat \ {0} /\ Head(s) = s[1] /\ s[1] \in S
         /\ Tail(s) \in Seq(S)
         /\ Len(Tail(s)) = Len(s) - 1
         /\ \A i \in 2..Len(s) : i - 1 \in 1..Len(Tail(s)) /\ Tail(s)[i - 1] = s[i]
OBVIOUS

LEMMA NoneIn == None \in Snapshots \cup {None}
OBVIOUS

-----------------------------------------------------------------------------
(* The page's requests.                                                    *)

(* The flag means one request, so an idle page has none.                   *)
LEMMA OneFetch ==
  ASSUME TypeOK
  PROVE  /\ ~refreshing => fetches = <<>>
         /\ \A i \in DOMAIN fetches : i = 1 /\ refreshing /\ Len(fetches) = 1
BY DEF TypeOK

(* refresh() leaves one request, and either it is a new one or the running *)
(* one will be followed by another.                                        *)
LEMMA RefreshFacts ==
  ASSUME TypeOK, Refresh
  PROVE  /\ refreshing' = TRUE /\ dirty' \in BOOLEAN
         /\ fetches' \in Seq(Snapshots \cup {None}) /\ Len(fetches') = 1
         /\ \/ fetches' = fetches /\ dirty' = TRUE
            \/ fetches'[1] = None /\ dirty' = dirty
<1>1. CASE refreshing
  BY <1>1 DEF Refresh, TypeOK
<1>2. CASE ~refreshing
  <2>1. fetches = <<>>
    BY <1>2, OneFetch
  <2>2. fetches' = Append(<<>>, None) /\ refreshing' = TRUE /\ dirty' = dirty
    BY <1>2, <2>1 DEF Refresh
  <2>3. <<>> \in Seq(Snapshots \cup {None}) /\ Len(<<>>) = 0
    OBVIOUS
  <2>4. /\ fetches' \in Seq(Snapshots \cup {None})
        /\ Len(fetches') = 1 /\ fetches'[1] = None
    BY <2>2, <2>3, AppendFacts, NoneIn
  <2> QED
    BY <2>2, <2>4 DEF TypeOK
<1> QED
  BY <1>1, <1>2 DEF TypeOK

(* The finally clause leaves no request, and a remembered one is           *)
(* scheduled.                                                              *)
LEMMA SettleFacts ==
  ASSUME TypeOK, NEW i \in DOMAIN fetches, Settle(i)
  PROVE  /\ i = 1 /\ Len(fetches) = 1 /\ fetches' = <<>>
         /\ refreshing' = FALSE /\ dirty' = FALSE
         /\ timer' = (timer \/ dirty) /\ timer' \in BOOLEAN
<1>1. i = 1 /\ Len(fetches) = 1 /\ fetches \in Seq(Snapshots \cup {None})
  BY OneFetch DEF TypeOK
<1>2. SubSeq(fetches, 1, 0) = <<>> /\ SubSeq(fetches, 2, 1) = <<>>
  BY SubSeqEmpty
<1>3. fetches' = <<>> \o <<>>
  BY <1>1, <1>2 DEF Settle, Without
<1>4. fetches' = <<>>
  BY <1>3
<1> QED
  BY <1>1, <1>4 DEF Settle, TypeOK

-----------------------------------------------------------------------------
(* The initial state, and a step that changes nothing.                     *)

LEMMA InitInv == Init => Inv
<1> SUFFICES ASSUME Init PROVE Inv
  OBVIOUS
<1>1. fetches \in Seq(Snapshots \cup {None}) /\ Len(fetches) = 1 /\ fetches[1] = None
  BY DEF Init
<1>2. Len(fetches) = IF refreshing THEN 1 ELSE 0
  BY <1>1 DEF Init
<1>3. /\ lagged \in BOOLEAN /\ refreshing \in BOOLEAN /\ dirty \in BOOLEAN
      /\ timer \in BOOLEAN /\ missed \in BOOLEAN
  BY DEF Init
<1>4. /\ backlog \in Seq(1..MaxRevision) /\ Len(backlog) <= ChannelCap
      /\ wire \in Seq(Frames) /\ Len(wire) <= WireCap
      /\ epoch \in 0..MaxRestarts /\ revision \in 0..MaxRevision /\ faults \in 0..MaxFaults
  BY FeedAssumption DEF Init
<1>5. TypeOK
  BY <1>1, <1>2, <1>3, <1>4 DEF Init, TypeOK, Phases
<1> QED
  BY <1>1, <1>5 DEF Init, Inv, Unheard, Ordered, Undisturbed

LEMMA StutterInv ==
  ASSUME Inv, UNCHANGED vars
  PROVE  Inv'
BY DEF Inv, vars, server, socket, page, TypeOK, Unheard, Ordered, Undisturbed,
       Covered, Telling, Current, Upto

-----------------------------------------------------------------------------
(* The store.                                                              *)

LEMMA AcceptInv ==
  ASSUME Inv, Accept
  PROVE  Inv'
<1> USE DEF Accept, socket, page
<1>1. TypeOK'
  BY FeedAssumption DEF Inv, TypeOK
<1>2. Ordered'
  <2>1. \A s \in Snapshots : Upto(s, Current) => Upto(s, Current')
    BY DEF Upto, Current, Snapshots, Inv, TypeOK
  <2>2. \A i \in 1..Len(fetches) : fetches[i] # None => fetches[i] \in Snapshots
    BY DEF Inv, TypeOK
  <2> QED
    BY <2>1, <2>2 DEF Inv, Ordered, TypeOK
<1>3. Covered'
  BY DEF Covered
<1> QED
  BY <1>1, <1>2, <1>3 DEF Inv, Unheard

(* A full receiver forgets an update but says so.                          *)
LEMMA EnqueueFacts ==
  ASSUME TypeOK, NEW r \in 1..MaxRevision, Enqueue(r)
  PROVE  /\ backlog' \in Seq(1..MaxRevision) /\ Len(backlog') <= ChannelCap
         /\ lagged' \in BOOLEAN /\ (lagged => lagged')
         /\ \E i \in 1..Len(backlog') : backlog'[i] = r
         /\ lagged' \/ \A i \in 1..Len(backlog) :
                         i \in 1..Len(backlog') /\ backlog'[i] = backlog[i]
<1>1. backlog \in Seq(1..MaxRevision) /\ Len(backlog) \in Nat /\ lagged \in BOOLEAN
      /\ Len(backlog) <= ChannelCap /\ ChannelCap \in Nat \ {0}
  BY FeedAssumption DEF TypeOK
<1>2. CASE Len(backlog) < ChannelCap
  <2>1. backlog' = Append(backlog, r) /\ lagged' = lagged
    BY <1>1, <1>2 DEF Enqueue
  <2> QED
    BY <1>1, <1>2, <2>1, AppendFacts
<1>3. CASE ~(Len(backlog) < ChannelCap)
  <2>1. backlog' = Append(Tail(backlog), r) /\ lagged' = TRUE /\ Len(backlog) = ChannelCap
    <3>1. Len(backlog) = ChannelCap
      BY <1>1, <1>3
    <3> QED
      BY <1>3, <3>1 DEF Enqueue
  <2>2. backlog # <<>>
    BY <1>1, <2>1
  <2>3. Tail(backlog) \in Seq(1..MaxRevision) /\ Len(Tail(backlog)) = Len(backlog) - 1
    BY <1>1, <2>2, TailFacts
  <2>4. /\ backlog' \in Seq(1..MaxRevision) /\ Len(backlog') = Len(backlog)
        /\ backlog'[Len(backlog)] = r
    BY <1>1, <2>1, <2>3, AppendFacts
  <2> QED
    BY <1>1, <2>1, <2>4
<1> QED
  BY <1>2, <1>3

LEMMA PublishInv ==
  ASSUME Inv, NEW r \in 1..MaxRevision, Publish(r)
  PROVE  Inv'
<1> USE DEF page
<1>1. CASE phase = "subscribed" /\ Enqueue(r)
  <2>1. TypeOK'
    BY <1>1, EnqueueFacts DEF Inv, TypeOK, Publish
  <2>2. Undisturbed' => Covered'
    <3> SUFFICES ASSUME Undisturbed' PROVE Covered'
      OBVIOUS
    <3>1. Covered
      BY <1>1 DEF Inv, Undisturbed, Publish, TypeOK
    <3>2. CASE revision \in unsent
      BY <1>1, <3>2, EnqueueFacts DEF Inv, Publish, Covered
    <3>3. CASE \E i \in 1..Len(backlog) : backlog[i] = revision
      BY <1>1, <3>3, EnqueueFacts DEF Inv, Publish, Covered
    <3>4. CASE lagged
      BY <1>1, <3>4, EnqueueFacts DEF Inv, Publish, Covered
    <3> QED
      BY <1>1, <3>1, <3>2, <3>3, <3>4 DEF Publish, Covered, Telling, Current
  <2> QED
    BY <1>1, <2>1, <2>2 DEF Inv, Publish, Unheard, Ordered, Upto, Current
<1>2. CASE phase # "subscribed" /\ UNCHANGED <<backlog, lagged>>
  <2>1. TypeOK'
    BY <1>2 DEF Inv, TypeOK, Publish
  <2>2. ~Undisturbed'
    BY <1>2 DEF Publish, Undisturbed, Inv, TypeOK
  <2> QED
    BY <1>2, <2>1, <2>2 DEF Inv, Publish, Unheard, Ordered, Upto, Current
<1> QED
  BY <1>1, <1>2 DEF Publish

-----------------------------------------------------------------------------
(* The socket.                                                             *)

(* A page is not concerned by what happens on its socket.                  *)
LEMMA OrderedKept ==
  ASSUME Ordered, UNCHANGED <<epoch, revision, shown, fetches>>
  PROVE  Ordered'
BY DEF Ordered, Upto, Current

LEMMA AuthenticateInv ==
  ASSUME Inv, Authenticate
  PROVE  Inv'
<1> USE DEF server, page
<1>1. wire = <<>> /\ backlog = <<>> /\ ~lagged
  BY DEF Inv, Unheard, Authenticate
<1>2. Frame("authenticated", 0) \in Frames /\ <<>> \in Seq(Frames) /\ Len(<<>>) = 0
  BY DEF Frame, Frames
<1>3. /\ wire' \in Seq(Frames) /\ Len(wire') = 1
      /\ wire'[1] = Frame("authenticated", 0)
  BY <1>1, <1>2, AppendFacts DEF Authenticate
<1>4. TypeOK'
  BY <1>3, FeedAssumption DEF Inv, TypeOK, Authenticate, Phases
<1>5. Covered'
  BY <1>3 DEF Covered, Telling, Frame
<1>6. Unheard'
  BY <1>1 DEF Unheard, Authenticate
<1>7. Ordered'
  BY OrderedKept DEF Inv, Authenticate
<1> QED
  BY <1>4, <1>5, <1>6, <1>7 DEF Inv, Authenticate

LEMMA SubscribeInv ==
  ASSUME Inv, Subscribe
  PROVE  Inv'
<1> USE DEF server, page
<1>1. TypeOK' /\ Unheard' /\ (dirty' => refreshing')
  BY DEF Inv, TypeOK, Subscribe, Phases, Unheard
<1>2. Ordered'
  BY OrderedKept DEF Inv, Subscribe
<1>3. Undisturbed' => Covered'
  BY DEF Inv, Subscribe, Undisturbed, Covered, Telling, Current
<1> QED
  BY <1>1, <1>2, <1>3 DEF Inv

LEMMA ForwardInv ==
  ASSUME Inv, Forward
  PROVE  Inv'
<1> USE DEF server, page
<1> DEFINE frame == IF lagged THEN Frame("resync_required", 0) ELSE Frame("update", Head(backlog))
<1>1. /\ wire \in Seq(Frames) /\ Len(wire) \in Nat /\ Len(wire) < WireCap /\ WireCap \in Nat
      /\ backlog \in Seq(1..MaxRevision) /\ Len(backlog) \in Nat /\ lagged \in BOOLEAN
  BY FeedAssumption DEF Inv, TypeOK, Forward
<1>2. lagged \/ backlog # <<>>
  BY DEF Forward
<1>3. frame \in Frames
  <2>1. CASE lagged
    BY <2>1 DEF Frame, Frames
  <2>2. CASE ~lagged
    BY <1>1, <1>2, <2>2, TailFacts DEF Frame, Frames
  <2> QED
    BY <2>1, <2>2
<1>4. wire' = Append(wire, frame)
  BY <1>1 DEF Forward
<1> HIDE DEF frame
<1>5. /\ wire' \in Seq(Frames) /\ Len(wire') = Len(wire) + 1
      /\ \A i \in 1..Len(wire) : wire'[i] = wire[i]
      /\ wire'[Len(wire) + 1] = frame
  BY <1>1, <1>3, <1>4, AppendFacts
<1>6. /\ backlog' \in Seq(1..MaxRevision) /\ Len(backlog') <= Len(backlog)
      /\ lagged' \in BOOLEAN
  <2>1. CASE lagged
    <3>1. backlog' = backlog /\ lagged' = FALSE
      BY <2>1 DEF Forward
    <3>2. Len(backlog') <= Len(backlog)
      BY <1>1, <3>1
    <3> QED
      BY <1>1, <3>1, <3>2
  <2>2. CASE ~lagged
    <3>1. backlog' = Tail(backlog) /\ lagged' = lagged
      BY <2>2 DEF Forward
    <3> QED
      BY <1>1, <1>2, <2>2, <3>1, TailFacts
  <2> QED
    BY <2>1, <2>2
<1>7. TypeOK'
  BY <1>1, <1>5, <1>6, FeedAssumption DEF Inv, TypeOK, Forward
<1>8. Undisturbed' => Covered'
  <2> SUFFICES ASSUME Undisturbed' PROVE Covered'
    OBVIOUS
  <2>1. Covered
    BY DEF Inv, Undisturbed, Forward
  <2>2. CASE \E i \in 1..Len(wire) : Telling(wire[i])
    <3>1. PICK i \in 1..Len(wire) : Telling(wire[i])
      BY <2>2
    <3>2. i \in 1..Len(wire') /\ Telling(wire[i])'
      BY <1>1, <1>5, <3>1 DEF Telling, Forward
    <3> QED
      BY <3>2 DEF Covered
  <2>3. CASE lagged
    <3>1. Len(wire') \in 1..Len(wire') /\ Telling(wire[Len(wire)])'
      BY <1>1, <1>5, <2>3 DEF frame, Telling, Frame
    <3> QED
      BY <3>1 DEF Covered
  <2>4. CASE ~lagged /\ \E i \in 1..Len(backlog) : backlog[i] = revision
    <3>1. PICK i \in 1..Len(backlog) : backlog[i] = revision
      BY <2>4
    <3>2. backlog # <<>> /\ backlog' = Tail(backlog)
      BY <2>4 DEF Forward
    <3>3. CASE i = 1
      <4>1. frame = Frame("update", revision)
        BY <1>1, <2>4, <3>1, <3>2, <3>3, TailFacts DEF frame
      <4>2. Len(wire') \in 1..Len(wire') /\ Telling(wire[Len(wire)])'
        BY <1>1, <1>5, <4>1 DEF Telling, Frame, Forward
      <4> QED
        BY <4>2 DEF Covered
    <3>4. CASE i # 1
      <4>1. i \in 2..Len(backlog)
        BY <1>1, <3>1, <3>4
      <4>2. i - 1 \in 1..Len(backlog') /\ backlog'[i - 1] = revision'
        BY <1>1, <3>1, <3>2, <4>1, TailFacts DEF Forward
      <4> QED
        BY <4>2 DEF Covered
    <3> QED
      BY <3>3, <3>4
  <2> QED
    BY <1>1, <2>1, <2>2, <2>3, <2>4 DEF Covered, Current, Forward
<1>9. Ordered' /\ Unheard'
  BY OrderedKept DEF Inv, Forward, Unheard
<1> QED
  BY <1>7, <1>8, <1>9 DEF Inv, Forward

(* Without its socket a page is not held to anything.                      *)
LEMMA DroppedFacts ==
  ASSUME TypeOK, Dropped
  PROVE  /\ backlog' \in Seq(1..MaxRevision) /\ Len(backlog') <= ChannelCap
         /\ lagged' \in BOOLEAN /\ missed' \in BOOLEAN
         /\ wire' \in Seq(Frames) /\ Len(wire') <= WireCap
         /\ wire' = <<>> /\ backlog' = <<>> /\ ~lagged'
<1>1. backlog' = <<>> /\ lagged' = FALSE /\ wire' = <<>> /\ missed' = FALSE
  BY DEF Dropped
<1>2. /\ <<>> \in Seq(1..MaxRevision) /\ <<>> \in Seq(Frames) /\ Len(<<>>) = 0
      /\ 0 <= ChannelCap /\ 0 <= WireCap
  BY FeedAssumption
<1> QED
  BY <1>1, <1>2

LEMMA DisconnectInv ==
  ASSUME Inv, Disconnect
  PROVE  Inv'
<1> USE DEF server, page
<1>1. TypeOK'
  BY DroppedFacts, FeedAssumption DEF Inv, TypeOK, Disconnect, Closed, Phases
<1>2. Ordered'
  BY OrderedKept DEF Inv, Disconnect
<1> QED
  BY <1>1, <1>2, DroppedFacts DEF Inv, Disconnect, Closed, Unheard, Undisturbed

LEMMA RestartInv ==
  ASSUME Inv, Restart
  PROVE  Inv'
<1> USE DEF page
<1>1. TypeOK'
  BY DroppedFacts, FeedAssumption DEF Inv, TypeOK, Restart, Closed, Phases
<1>2. Ordered'
  <2>1. \A s \in Snapshots : Upto(s, Current) => Upto(s, Current')
    BY DEF Upto, Current, Snapshots, Inv, TypeOK, Restart
  <2>2. \A i \in 1..Len(fetches) : fetches[i] # None => fetches[i] \in Snapshots
    BY DEF Inv, TypeOK
  <2> QED
    BY <2>1, <2>2 DEF Inv, Ordered, TypeOK, Restart
<1> QED
  BY <1>1, <1>2, DroppedFacts DEF Inv, Restart, Closed, Unheard, Undisturbed

LEMMA ReconnectInv ==
  ASSUME Inv, Reconnect
  PROVE  Inv'
<1> USE DEF server, page
<1>1. TypeOK'
  BY DEF Inv, TypeOK, Reconnect, Phases
<1>2. Ordered'
  BY OrderedKept DEF Inv, Reconnect
<1> QED
  BY <1>1, <1>2 DEF Inv, Reconnect, Unheard, Undisturbed

-----------------------------------------------------------------------------
(* The page.                                                               *)

(* What every call of refresh() preserves, and that after it the page is   *)
(* covered.                                                                *)
LEMMA RefreshInv ==
  ASSUME Inv, Refresh, UNCHANGED <<epoch, revision, filters, shown>>
  PROVE  /\ Ordered' /\ Covered' /\ (dirty' => refreshing')
         /\ refreshing' \in BOOLEAN /\ dirty' \in BOOLEAN
         /\ fetches' \in Seq(Snapshots \cup {None})
         /\ Len(fetches') = IF refreshing' THEN 1 ELSE 0
<1>1. /\ refreshing' = TRUE /\ dirty' \in BOOLEAN
      /\ fetches' \in Seq(Snapshots \cup {None}) /\ Len(fetches') = 1
      /\ \/ fetches' = fetches /\ dirty' = TRUE
         \/ fetches'[1] = None /\ dirty' = dirty
  BY RefreshFacts DEF Inv
<1>2. CASE fetches' = fetches /\ dirty' = TRUE
  <2>1. Ordered'
    BY <1>2, OrderedKept DEF Inv
  <2>2. Covered'
    BY <1>2 DEF Covered
  <2> QED
    BY <1>1, <2>1, <2>2
<1>3. CASE fetches'[1] = None
  <2>1. Ordered'
    BY <1>1, <1>3 DEF Inv, Ordered, Upto, Current
  <2>2. Covered'
    BY <1>1, <1>3 DEF Covered
  <2> QED
    BY <1>1, <2>1, <2>2
<1> QED
  BY <1>1, <1>2, <1>3

LEMMA ReceiveInv ==
  ASSUME Inv, Receive
  PROVE  Inv'
<1> USE DEF server
<1> DEFINE frame == Head(wire)
<1>1. wire \in Seq(Frames) /\ wire # <<>> /\ wire' = Tail(wire)
  BY DEF Receive, Inv, TypeOK
<1>2. /\ Len(wire) \in Nat \ {0} /\ frame = wire[1] /\ frame \in Frames
      /\ wire' \in Seq(Frames) /\ Len(wire') = Len(wire) - 1
      /\ \A i \in 2..Len(wire) : i - 1 \in 1..Len(wire') /\ wire'[i - 1] = wire[i]
  BY <1>1, TailFacts
<1>3. Len(wire') <= WireCap
  BY <1>2, FeedAssumption DEF Inv, TypeOK
<1>4. Unheard'
  BY <1>1, <1>2 DEF Receive, Unheard, Inv
<1>5. CASE frame.kind = "authenticated"
  <2>1. Refresh /\ timer' = timer
    BY <1>5 DEF Receive
  <2>2. TypeOK'
    BY <1>2, <1>3, <2>1, RefreshInv DEF Inv, TypeOK, Receive
  <2> QED
    BY <1>4, <2>1, <2>2, RefreshInv DEF Inv, Receive
<1>6. CASE frame.kind # "authenticated"
  <2>1. timer' = (timer \/ Relevant(frame)) /\ UNCHANGED <<refreshing, dirty, fetches>>
    BY <1>6 DEF Receive
  <2>2. timer' \in BOOLEAN /\ (timer => timer') /\ (Relevant(frame) => timer')
    BY <2>1
  <2>3. TypeOK'
    BY <1>2, <1>3, <2>1, <2>2 DEF Inv, TypeOK, Receive
  <2>4. Ordered'
    BY <2>1, OrderedKept DEF Inv, Receive
  <2>5. Undisturbed' => Covered'
    <3> SUFFICES ASSUME Undisturbed' PROVE Covered'
      OBVIOUS
    <3>1. Covered
      BY DEF Inv, Undisturbed, Receive
    <3>2. CASE Relevant(frame)
      BY <2>2, <3>2 DEF Covered
    <3>3. CASE ~Relevant(frame) /\ Telling(frame)
      <4>1. frame.kind = "update" /\ frame.revision = revision
        BY <1>2, <1>6, <3>3 DEF Relevant, Telling, Frames
      <4>2. filters /\ shown # None /\ ~(revision > shown[2])
        BY <3>3, <4>1 DEF Relevant
      <4>3. epoch = 0 /\ shown \in Snapshots /\ Upto(shown, Current)
        BY <4>2 DEF Undisturbed, Receive, Inv, TypeOK, Ordered
      <4>4. shown = Current
        BY <4>2, <4>3 DEF Upto, Current, Snapshots, Inv, TypeOK
      <4> QED
        BY <4>4 DEF Covered, Current, Receive
    <3>4. CASE ~Telling(frame) /\ \E i \in 1..Len(wire) : Telling(wire[i])
      <4>1. PICK i \in 1..Len(wire) : Telling(wire[i])
        BY <3>4
      <4>2. i \in 2..Len(wire)
        BY <1>2, <3>4, <4>1
      <4>3. i - 1 \in 1..Len(wire') /\ Telling(wire[i - 1])'
        BY <1>2, <4>1, <4>2 DEF Telling, Receive
      <4> QED
        BY <4>3 DEF Covered
    <3>5. CASE ~Telling(frame) /\ ~(\E i \in 1..Len(wire) : Telling(wire[i]))
      BY <2>1, <2>2, <3>1, <3>5 DEF Covered, Current, Receive
    <3> QED
      BY <3>2, <3>3, <3>4, <3>5
  <2> QED
    BY <1>4, <2>1, <2>3, <2>4, <2>5 DEF Inv, Receive
<1> QED
  BY <1>5, <1>6

LEMMA TimerFiresInv ==
  ASSUME Inv, TimerFires
  PROVE  Inv'
<1> USE DEF server, socket
<1>1. TypeOK'
  BY RefreshInv DEF Inv, TypeOK, TimerFires
<1> QED
  BY <1>1, RefreshInv DEF Inv, TimerFires, Unheard

LEMMA PollInv ==
  ASSUME Inv, Poll
  PROVE  Inv'
<1> USE DEF server, socket
<1>1. TypeOK'
  BY RefreshInv DEF Inv, TypeOK, Poll
<1> QED
  BY <1>1, RefreshInv DEF Inv, Poll, Unheard

LEMMA SaveTokenInv ==
  ASSUME Inv, SaveToken
  PROVE  Inv'
<1> USE DEF server
<1>1. TypeOK'
  BY RefreshInv, DroppedFacts, FeedAssumption DEF Inv, TypeOK, SaveToken, Phases
<1> QED
  BY <1>1, RefreshInv, DroppedFacts DEF Inv, SaveToken, Unheard

LEMMA ServeInv ==
  ASSUME Inv, NEW i \in DOMAIN fetches, Serve(i)
  PROVE  Inv'
<1> USE DEF server, socket
<1>1. i = 1 /\ refreshing /\ Len(fetches) = 1 /\ fetches \in Seq(Snapshots \cup {None})
  BY OneFetch DEF Inv, TypeOK
<1>2. Current \in Snapshots
  BY DEF Current, Snapshots, Inv, TypeOK
<1>3. /\ fetches' \in Seq(Snapshots \cup {None}) /\ Len(fetches') = 1
      /\ fetches'[1] = Current
  <2>1. fetches' = [fetches EXCEPT ![1] = Current] /\ 1 \in 1..Len(fetches)
    BY <1>1 DEF Serve
  <2> QED
    BY <1>1, <1>2, <2>1, ExceptSeq
<1>4. TypeOK'
  BY <1>1, <1>3 DEF Inv, TypeOK, Serve
<1>5. Ordered'
  <2>1. Current' = Current /\ shown' = shown /\ Upto(Current, Current)
    BY DEF Serve, Current, Upto, Inv, TypeOK
  <2>2. shown # None => Upto(shown, Current)
    BY DEF Inv, Ordered
  <2> QED
    BY <1>3, <2>1, <2>2 DEF Ordered
<1>6. Covered'
  BY <1>3 DEF Covered, Current, Serve
<1> QED
  BY <1>4, <1>5, <1>6 DEF Inv, Serve, Unheard

LEMMA FetchDoneInv ==
  ASSUME Inv, NEW i \in DOMAIN fetches, FetchDone(i)
  PROVE  Inv' /\ (shown # None => Upto(shown, shown'))
<1> USE DEF server, socket
<1>1. /\ i = 1 /\ Len(fetches) = 1 /\ fetches' = <<>>
      /\ refreshing' = FALSE /\ dirty' = FALSE
      /\ timer' = (timer \/ dirty) /\ timer' \in BOOLEAN
  BY SettleFacts DEF Inv, FetchDone
<1>2. /\ fetches[1] # None /\ fetches[1] \in Snapshots /\ shown' = fetches[1]
  <2>1. fetches \in Seq(Snapshots \cup {None})
    BY DEF Inv, TypeOK
  <2>2. fetches[1] \in Snapshots \cup {None}
    BY <1>1, <2>1, ElementOfSeq
  <2> QED
    BY <1>1, <2>2 DEF FetchDone
<1>3. /\ fetches' \in Seq(Snapshots \cup {None})
      /\ Len(fetches') = IF refreshing' THEN 1 ELSE 0
  BY <1>1
<1>4. TypeOK'
  BY <1>1, <1>2, <1>3 DEF Inv, TypeOK, FetchDone
<1>5. /\ Upto(fetches[1], Current)
      /\ shown # None => Upto(shown, fetches[1])
  BY <1>1, <1>2 DEF Inv, Ordered
<1>6. Ordered'
  BY <1>1, <1>2, <1>5 DEF Ordered, Upto, Current, FetchDone
<1>7. Undisturbed' => Covered'
  <2> SUFFICES ASSUME Undisturbed' PROVE Covered'
    OBVIOUS
  <2>1. Covered
    BY DEF Inv, Undisturbed, FetchDone
  <2>2. CASE shown = Current
    <3>1. Current \in Snapshots
      BY DEF Current, Snapshots, Inv, TypeOK
    <3>2. Upto(Current, fetches[1])
      BY <1>5, <2>2, <3>1, NoneAssumption
    <3>3. fetches[1] = Current
      BY <1>2, <1>5, <3>1, <3>2 DEF Upto, Snapshots
    <3> QED
      BY <1>2, <3>3 DEF Covered, Current, FetchDone
  <2>3. CASE \E j \in 1..Len(fetches) : fetches[j] \in {None, Current}
    <3>1. fetches[1] = Current
      BY <1>1, <1>2, <2>3
    <3> QED
      BY <1>2, <3>1 DEF Covered, Current, FetchDone
  <2>4. CASE timer \/ dirty
    BY <1>1, <2>4 DEF Covered
  <2> QED
    BY <2>1, <2>2, <2>3, <2>4 DEF Covered, Telling, FetchDone
<1> QED
  BY <1>1, <1>2, <1>4, <1>5, <1>6, <1>7 DEF Inv, FetchDone, Unheard

LEMMA FetchFailsInv ==
  ASSUME Inv, NEW i \in DOMAIN fetches, FetchFails(i)
  PROVE  Inv'
<1> USE DEF server, socket
<1>1. /\ fetches' = <<>> /\ refreshing' = FALSE /\ dirty' = FALSE
      /\ timer' \in BOOLEAN
  BY SettleFacts DEF Inv, FetchFails
<1>2. /\ fetches' \in Seq(Snapshots \cup {None})
      /\ Len(fetches') = IF refreshing' THEN 1 ELSE 0
  BY <1>1
<1>3. TypeOK'
  <2>1. faults' \in 0..MaxFaults
    BY FeedAssumption DEF FetchFails, Inv, TypeOK
  <2> QED
    BY <1>1, <1>2, <2>1 DEF Inv, TypeOK, FetchFails
<1>4. Ordered'
  BY <1>1 DEF Inv, Ordered, Upto, Current, FetchFails
<1>5. faults' # 0
  BY DEF FetchFails, Inv, TypeOK
<1> QED
  BY <1>1, <1>3, <1>4, <1>5 DEF Inv, FetchFails, Unheard, Undisturbed

-----------------------------------------------------------------------------
(* Every step.                                                             *)

LEMMA NextInv ==
  ASSUME Inv, [Next]_vars
  PROVE  Inv'
<1>1. CASE Accept
  BY <1>1, AcceptInv
<1>2. ASSUME NEW r \in 1..MaxRevision, Publish(r)
      PROVE  Inv'
  BY <1>2, PublishInv
<1>3. CASE Authenticate \/ Subscribe \/ Forward
  BY <1>3, AuthenticateInv, SubscribeInv, ForwardInv
<1>4. CASE Disconnect \/ Restart \/ Reconnect
  BY <1>4, DisconnectInv, RestartInv, ReconnectInv
<1>5. CASE Receive \/ TimerFires \/ Poll \/ SaveToken
  BY <1>5, ReceiveInv, TimerFiresInv, PollInv, SaveTokenInv
<1>6. ASSUME NEW i \in DOMAIN fetches, Serve(i) \/ FetchDone(i) \/ FetchFails(i)
      PROVE  Inv'
  BY <1>6, ServeInv, FetchDoneInv, FetchFailsInv
<1>7. CASE UNCHANGED vars
  BY <1>7, StutterInv
<1> QED
  BY <1>1, <1>2, <1>3, <1>4, <1>5, <1>6, <1>7 DEF Next

LEMMA Invariance == Spec => []Inv
<1>1. Inv /\ [Next]_vars => Inv'
  BY NextInv
<1> QED
  BY <1>1, InitInv, PTL DEF Spec

(* The channel and the wire keep their capacities, and refresh() never has *)
(* two requests in flight.                                                 *)
THEOREM TypeCorrect == Spec => []TypeOK
<1>1. Inv => TypeOK
  BY DEF Inv
<1> QED
  BY <1>1, Invariance, PTL

(* A subscribed page that has heard everything, and from which no fault    *)
(* and no unlucky subscription has kept an update, shows the store as it   *)
(* is, whatever the order, the lag and the coalescing of updates were.     *)
THEOREM NothingIsMissed == Spec => []NothingMissed
<1>1. Inv => NothingMissed
  <2> SUFFICES ASSUME Inv, phase = "subscribed", Quiet, ~missed, faults = 0,
                      filters => epoch = 0
               PROVE  shown = Current
    BY DEF NothingMissed
  <2>1. Covered
    BY DEF Inv, Undisturbed
  <2>2. ~dirty
    BY DEF Inv, TypeOK, Quiet
  <2> QED
    BY <2>1, <2>2 DEF Covered, Quiet
<1> QED
  BY <1>1, Invariance, PTL

(* No step replaces the snapshot a page shows by an older one.             *)
LEMMA ShownGrows ==
  ASSUME Inv, [Next]_vars, shown # None
  PROVE  Upto(shown, shown')
<1>1. CASE shown' = shown
  <2>1. shown \in Snapshots
    BY DEF Inv, TypeOK
  <2> QED
    BY <1>1, <2>1 DEF Upto, Snapshots
<1>2. ASSUME NEW i \in DOMAIN fetches, FetchDone(i)
      PROVE  Upto(shown, shown')
  BY <1>2, FetchDoneInv
<1>3. shown' = shown \/ \E i \in DOMAIN fetches : FetchDone(i)
  BY DEF Next, vars, page, Accept, Publish, Authenticate, Subscribe, Forward,
         Disconnect, Restart, Receive, TimerFires, Poll, SaveToken, Serve,
         FetchFails, Reconnect
<1> QED
  BY <1>1, <1>2, <1>3

(* A page never goes back, across restarts too.                            *)
THEOREM NeverGoesBack == Spec => PageNeverGoesBack
<1>1. Inv /\ [Next]_vars =>
        [shown # None => \/ shown'[1] > shown[1]
                         \/ shown'[1] = shown[1] /\ shown'[2] >= shown[2]]_vars
  <2> SUFFICES ASSUME Inv, [Next]_vars, shown # None
               PROVE  \/ shown'[1] > shown[1]
                      \/ shown'[1] = shown[1] /\ shown'[2] >= shown[2]
    OBVIOUS
  <2>1. Upto(shown, shown')
    BY ShownGrows
  <2>2. shown \in Snapshots /\ shown' \in Snapshots \cup {None}
    BY NextInv DEF Inv, TypeOK
  <2> QED
    BY <2>1, <2>2 DEF Upto, Snapshots
<1> QED
  BY <1>1, Invariance, PTL DEF Spec, PageNeverGoesBack

=============================================================================
