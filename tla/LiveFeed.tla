------------------------------ MODULE LiveFeed ------------------------------
(***************************************************************************)
(* How an accepted event reaches an open operator page: the update that    *)
(* Store::ingest sends after releasing its lock (src/src/store.rs), the    *)
(* /ws/ui socket handler that forwards updates (src/src/http.rs), and the  *)
(* page's refresh logic (src/scripts/*-dashboard.js).                      *)
(*                                                                         *)
(* There is one page.  A page of `/coordination` or `/explorer` compares   *)
(* an update with the revision it shows (filters) and polls every 30       *)
(* seconds; the page of `/` does neither.                                  *)
(*                                                                         *)
(* The store is in memory, so a restart starts the revision again from     *)
(* zero.  A snapshot is <<epoch, revision>>: the epoch counts restarts, is *)
(* known to no program, and only serves to state the properties.           *)
(***************************************************************************)
EXTENDS Integers, Sequences

CONSTANTS
  Pages,           \* which pages are opened: whether they filter updates and poll
  ChannelCap,      \* update_channel_capacity
  WireCap,         \* frames in flight before the socket blocks its sender
  None,            \* no snapshot; a fetch not served yet
  MaxRevision, MaxRestarts, MaxFaults  \* bounds of the exploration

ASSUME FeedAssumption ==
  /\ Pages \subseteq BOOLEAN
  /\ ChannelCap \in Nat \ {0} /\ WireCap \in Nat \ {0}
  /\ MaxRevision \in Nat /\ MaxRestarts \in Nat /\ MaxFaults \in Nat

VARIABLES
  epoch, revision,  \* the store
  unsent,           \* accepted events whose update has not been sent yet
  phase,            \* what the socket handler has done for the page
  backlog, lagged,  \* the handler's broadcast receiver
  wire,             \* frames the page has not handled yet
  filters,          \* whether the page that was opened filters updates
  shown,            \* the snapshot the page shows
  refreshing, dirty, timer,  \* the page's refresh state
  fetches,          \* snapshot requests in flight: None until served
  missed,           \* history: an update was sent before this page's handler subscribed
  faults            \* lost connections, failed fetches and new tokens so far

server == <<epoch, revision, unsent>>
socket == <<phase, backlog, lagged, wire, missed>>
page   == <<filters, shown, refreshing, dirty, timer, fetches>>
vars   == <<server, socket, page, faults>>

Phases == {"closed", "open", "authenticated", "subscribed"}
Frames == [kind : {"authenticated", "resync_required"}, revision : {0}]
            \cup [kind : {"update"}, revision : 1..MaxRevision]
Frame(kind, r) == [kind |-> kind, revision |-> r]
Snapshots == (0..MaxRestarts) \X (0..MaxRevision)
ASSUME NoneAssumption == None \notin Snapshots
Current == <<epoch, revision>>

(* The page script ends with refresh(); connect().                         *)
Init ==
  /\ epoch = 0 /\ revision = 0 /\ unsent = {}
  /\ phase = "open" /\ backlog = <<>> /\ lagged = FALSE /\ wire = <<>>
  /\ filters \in Pages
  /\ shown = None /\ refreshing = TRUE /\ dirty = FALSE /\ timer = FALSE
  /\ fetches = <<None>>
  /\ missed = FALSE /\ faults = 0

-----------------------------------------------------------------------------
(* The store.  Several transports ingest concurrently, so updates may be   *)
(* sent in another order than their revisions.                             *)

Accept ==
  /\ revision < MaxRevision
  /\ revision' = revision + 1
  /\ unsent' = unsent \cup {revision + 1}
  /\ UNCHANGED <<epoch, socket, page, faults>>

(* A full broadcast receiver loses its oldest update and is told so the    *)
(* next time it receives.                                                  *)
Enqueue(r) ==
  /\ backlog' = IF Len(backlog) < ChannelCap THEN Append(backlog, r)
                ELSE Append(Tail(backlog), r)
  /\ lagged' = (lagged \/ Len(backlog) = ChannelCap)

(* updates.send, after drop(inner).                                        *)
Publish(r) ==
  /\ r \in unsent
  /\ unsent' = unsent \ {r}
  /\ \/ phase = "subscribed" /\ Enqueue(r)
     \/ phase # "subscribed" /\ UNCHANGED <<backlog, lagged>>
  /\ missed' = (missed \/ phase = "authenticated")
  /\ UNCHANGED <<epoch, revision, phase, wire, page, faults>>

-----------------------------------------------------------------------------
(* handle_ui_socket.                                                       *)

(* The first frame carried the read token, or reads are not protected.     *)
Authenticate ==
  /\ phase = "open"
  /\ phase' = "authenticated"
  /\ wire' = Append(wire, Frame("authenticated", 0))
  /\ UNCHANGED <<server, backlog, lagged, missed, page, faults>>

(* store.subscribe(), after the authenticated frame has been sent.         *)
Subscribe ==
  /\ phase = "authenticated"
  /\ phase' = "subscribed"
  /\ UNCHANGED <<server, backlog, lagged, wire, missed, page, faults>>

(* One round of the select loop's update arm.                              *)
Forward ==
  /\ phase = "subscribed"
  /\ Len(wire) < WireCap
  /\ \/ /\ lagged
        /\ lagged' = FALSE
        /\ wire' = Append(wire, Frame("resync_required", 0))
        /\ backlog' = backlog
     \/ /\ ~lagged
        /\ backlog # <<>>
        /\ wire' = Append(wire, Frame("update", Head(backlog)))
        /\ backlog' = Tail(backlog)
        /\ lagged' = lagged
  /\ UNCHANGED <<server, phase, missed, page, faults>>

(* The receiver and the frames in flight go with their socket.             *)
Dropped == backlog' = <<>> /\ lagged' = FALSE /\ wire' = <<>> /\ missed' = FALSE
Closed == phase' = "closed" /\ Dropped

(* The authentication timeout, a failed send, or a lost connection.        *)
Disconnect ==
  /\ phase # "closed"
  /\ faults < MaxFaults
  /\ faults' = faults + 1
  /\ Closed
  /\ UNCHANGED <<server, page>>

(* The daemon stops and a new one starts: nothing of the store survives.   *)
(* A response already on its way may still reach the page.                 *)
Restart ==
  /\ epoch < MaxRestarts
  /\ epoch' = epoch + 1
  /\ revision' = 0 /\ unsent' = {}
  /\ Closed
  /\ UNCHANGED <<page, faults>>

-----------------------------------------------------------------------------
(* The page.                                                               *)

(* Mutant of Refresh: a new request starts whatever is in flight.          *)
RefreshAgain ==
  /\ refreshing' = TRUE
  /\ fetches' = IF Len(fetches) < 2 THEN Append(fetches, None) ELSE fetches
  /\ dirty' = dirty

(* refresh(): at most one request in flight; a second one is remembered.   *)
Refresh ==
  IF refreshing
    THEN dirty' = TRUE /\ UNCHANGED <<refreshing, fetches>>
    ELSE refreshing' = TRUE /\ fetches' = Append(fetches, None) /\ dirty' = dirty

(* Mutant of Relevant: resync notices carry no revision and are ignored.   *)
RelevantRevision(frame) ==
  /\ frame.kind # "resync_required"
  /\ shown = None \/ frame.revision > shown[2]

(* Whether socket.onmessage schedules a refresh for an update frame.       *)
Relevant(frame) ==
  \/ ~filters
  \/ frame.kind = "resync_required"
  \/ shown = None
  \/ frame.revision > shown[2]

Receive ==
  /\ wire # <<>>
  /\ wire' = Tail(wire)
  /\ \/ /\ Head(wire).kind = "authenticated"
        /\ Refresh
        /\ timer' = timer
     \/ /\ Head(wire).kind # "authenticated"
        /\ timer' = (timer \/ Relevant(Head(wire)))
        /\ UNCHANGED <<refreshing, dirty, fetches>>
  /\ UNCHANGED <<server, phase, backlog, lagged, missed, filters, shown, faults>>

(* The 100 ms timer of scheduleRefresh.                                    *)
TimerFires ==
  /\ timer
  /\ timer' = FALSE
  /\ Refresh
  /\ UNCHANGED <<server, socket, filters, shown, faults>>

(* setInterval(refresh, 30000), or a click on the refresh button.          *)
Poll ==
  /\ Refresh
  /\ UNCHANGED <<server, socket, filters, shown, timer, faults>>

(* A new token is saved: the old socket is dropped without onclose, a new  *)
(* one is opened and the page refreshes.                                   *)
SaveToken ==
  /\ faults < MaxFaults
  /\ faults' = faults + 1
  /\ phase' = "open"
  /\ Dropped
  /\ Refresh
  /\ UNCHANGED <<server, filters, shown, timer>>

(* The snapshot handler reads the store under its read lock.               *)
Serve(i) ==
  /\ i \in DOMAIN fetches
  /\ fetches[i] = None
  /\ fetches' = [fetches EXCEPT ![i] = Current]
  /\ UNCHANGED <<server, socket, filters, shown, refreshing, dirty, timer, faults>>

Without(s, i) == SubSeq(s, 1, i - 1) \o SubSeq(s, i + 1, Len(s))

(* The finally clause of refresh().                                        *)
Settle(i) ==
  /\ fetches' = Without(fetches, i)
  /\ refreshing' = FALSE
  /\ dirty' = FALSE
  /\ timer' = (timer \/ dirty)

(* Mutant of FetchFails: an error leaves the refreshing flag set.          *)
FetchFailsStuck(i) ==
  /\ i \in DOMAIN fetches
  /\ faults < MaxFaults
  /\ faults' = faults + 1
  /\ fetches' = Without(fetches, i)
  /\ UNCHANGED <<server, socket, filters, shown, refreshing, dirty, timer>>

FetchDone(i) ==
  /\ i \in DOMAIN fetches
  /\ fetches[i] # None
  /\ shown' = fetches[i]
  /\ Settle(i)
  /\ UNCHANGED <<server, socket, filters, faults>>

(* A network error or an HTTP error status: the page keeps what it shows.  *)
FetchFails(i) ==
  /\ i \in DOMAIN fetches
  /\ faults < MaxFaults
  /\ faults' = faults + 1
  /\ Settle(i)
  /\ UNCHANGED <<server, socket, filters, shown>>

(* socket.onclose, after the backoff delay.                                *)
Reconnect ==
  /\ phase = "closed"
  /\ phase' = "open"
  /\ UNCHANGED <<server, backlog, lagged, wire, missed, page, faults>>

Next ==
  \/ Accept
  \/ \E r \in 1..MaxRevision : Publish(r)
  \/ Authenticate
  \/ Subscribe
  \/ Forward
  \/ Disconnect
  \/ Restart
  \/ Receive
  \/ TimerFires
  \/ Poll
  \/ SaveToken
  \/ \E i \in DOMAIN fetches : Serve(i) \/ FetchDone(i) \/ FetchFails(i)
  \/ Reconnect

(* Nothing is assumed of events, restarts and faults.  The handlers and    *)
(* the page keep running: Tokio polls a task that can make progress, the   *)
(* browser runs its timers and callbacks, and a request is answered.  An   *)
(* operator need never click; only the interval of a page that has one     *)
(* fires for ever.                                                         *)
Fairness ==
  /\ WF_vars(\E r \in 1..MaxRevision : Publish(r))
  /\ WF_vars(Authenticate) /\ WF_vars(Subscribe) /\ WF_vars(Forward)
  /\ WF_vars(Receive) /\ WF_vars(TimerFires) /\ WF_vars(Reconnect)
  /\ WF_vars(filters /\ Poll)
  /\ WF_vars(\E i \in DOMAIN fetches : Serve(i))
  /\ WF_vars(\E i \in DOMAIN fetches : FetchDone(i))

Spec == Init /\ [][Next]_vars /\ Fairness

-----------------------------------------------------------------------------
(* Properties.                                                             *)

(* Types; the receiver and the wire stay within their capacities and the   *)
(* flag guarding refresh() really means one request in flight.             *)
TypeOK ==
  /\ epoch \in 0..MaxRestarts /\ revision \in 0..MaxRevision
  /\ unsent \subseteq 1..MaxRevision
  /\ phase \in Phases
  /\ backlog \in Seq(1..MaxRevision) /\ Len(backlog) <= ChannelCap
  /\ lagged \in BOOLEAN
  /\ wire \in Seq(Frames)
  /\ Len(wire) <= WireCap
  /\ filters \in Pages /\ shown \in Snapshots \cup {None}
  /\ refreshing \in BOOLEAN /\ dirty \in BOOLEAN /\ timer \in BOOLEAN
  /\ fetches \in Seq(Snapshots \cup {None})
  /\ Len(fetches) = IF refreshing THEN 1 ELSE 0
  /\ missed \in BOOLEAN /\ faults \in 0..MaxFaults

(* Nothing on its way that could still make the page refresh.              *)
Quiet ==
  /\ unsent = {} /\ backlog = <<>> /\ ~lagged /\ wire = <<>>
  /\ ~timer /\ fetches = <<>>

(* A live page that has heard everything shows the store as it is: with    *)
(* updates out of order, overflowing receivers, coalesced refreshes and    *)
(* reconnections, the only update it can lose without a fault is one sent  *)
(* between the authenticated frame and subscribe().  A page that filters   *)
(* is only held to this until the first restart: after one it may compare  *)
(* an update with a revision of the previous daemon.                       *)
NothingMissed ==
  phase = "subscribed" /\ Quiet /\ ~missed /\ faults = 0 /\ (filters => epoch = 0) =>
    shown = Current

(* The page never replaces a snapshot by an older one, across restarts     *)
(* too: refresh() never has two requests racing.                           *)
PageNeverGoesBack ==
  [][shown # None => \/ shown'[1] > shown[1]
                     \/ shown'[1] = shown[1] /\ shown'[2] >= shown[2]]_vars

(* Whatever is lost on the way, a polling page ends up showing the store   *)
(* as it is once events, restarts and faults stop.                         *)
PageConverges == <>[](filters => shown = Current)
=============================================================================
