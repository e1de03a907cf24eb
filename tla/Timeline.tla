------------------------------ MODULE Timeline ------------------------------
(***************************************************************************)
(* Paging through the retained events, src/src/timeline.rs and             *)
(* src/src/timeline_api.rs, while the store accepts, evicts and restarts.  *)
(*                                                                         *)
(* The daemon keeps nothing for a reader: all a walk has is the opaque     *)
(* cursor of its last page, which names a revision, an instant and an      *)
(* event id.  One action is one request, which reads one snapshot under    *)
(* the store's read lock.  A request that fails authorization or parsing   *)
(* is answered without reading the store and leaves everything as it is.   *)
(*                                                                         *)
(* Here the content of an event is fixed by its id (Envelope), as it is    *)
(* for a client that sends an event again.  Ids are numbers because ties   *)
(* between equal instants are broken by the order of the ids.              *)
(***************************************************************************)
EXTENDS Store

CONSTANTS
  Envelope,        \* the event behind each id: kind, agent, occurred_at, session
  Sessions,        \* session ids
  SnapshotLimit,   \* SNAPSHOT_EVENT_LIMIT
  Limits,          \* page sizes readers ask for
  TicksPerSecond,  \* instants in a second (10^9 in the code)
  EpochSecond,     \* the second counted as zero; instants before it are negative
  HalfWord,        \* half the range of the encoded second (2^63 in the code)
  MaxRestarts      \* bound of the exploration

ASSUME ReaderAssumption ==
  /\ EventIds \subseteq Nat
  /\ Envelope \in [EventIds -> [kind : EventKinds, agent : Agents, occurred_at : Times,
                                session : Sessions \cup {None}]]
  /\ {SnapshotLimit, TicksPerSecond, HalfWord} \subseteq Nat \ {0}
  /\ Limits \subseteq Nat \ {0}
  /\ EpochSecond \in Nat /\ MaxRestarts \in Nat

(* The second of every instant chrono can represent is a signed word.      *)
ASSUME ClockAssumption ==
  \A t \in Times : t \div TicksPerSecond - EpochSecond \in -HalfWord..(HalfWord - 1)

(* The cursors a reader can be given.                                      *)
Tokens == [revision : Nat, nanos : Nat, event_id : EventIds, seconds : Nat]
ASSUME TokenAssumption == None \notin Tokens

VARIABLES
  epoch,  \* how often the daemon was restarted; no program sees it
  walk    \* a reader's walk: what it has got so far, and its last page

tvars == <<vars, epoch, walk>>

OccurredAt(id) == Envelope[id].occurred_at

-----------------------------------------------------------------------------
(* Pages.                                                                  *)

(* Snapshot::recent_events: the most recently accepted of the events still *)
(* retained.                                                               *)
Recent == {events.order[i] : i \in 1..Earlier(Len(events.order), SnapshotLimit)}

(* The timeline's total order: later first, then the greater id.           *)
Precedes(at, id, other) ==
  \/ at > OccurredAt(other)
  \/ at = OccurredAt(other) /\ id > other

(* The events of S in timeline order.                                      *)
Sorted(S) ==
  [i \in 1..Cardinality(S) |->
     CHOOSE id \in S : Cardinality({x \in S : Precedes(OccurredAt(x), x, id)}) = i - 1]

(* Mutant of Encode: the fraction of the second is dropped.                *)
EncodeSeconds(r, id) ==
  [revision |-> r, nanos |-> 0, event_id |-> id,
   seconds  |-> (OccurredAt(id) \div TicksPerSecond - EpochSecond) % (2 * HalfWord)]

(* TimelineCursor::encode: the signed second as an unsigned word.          *)
Encode(r, id) ==
  [revision |-> r, nanos |-> OccurredAt(id) % TicksPerSecond, event_id |-> id,
   seconds  |-> (OccurredAt(id) \div TicksPerSecond - EpochSecond) % (2 * HalfWord)]

(* The instant of TimelineCursor::parse.                                   *)
Signed(word) == IF word < HalfWord THEN word ELSE word - 2 * HalfWord
InstantOf(token) == (Signed(token.seconds) + EpochSecond) * TicksPerSecond + token.nanos

(* Mutant of Eligible: events of the cursor's own instant are left out.    *)
EligibleLater(S, token) ==
  {id \in S : token # None => InstantOf(token) > OccurredAt(id)}

(* The events a continued walk has still to return.                        *)
Eligible(S, token) ==
  {id \in S : token # None => Precedes(InstantOf(token), token.event_id, id)}

(* build_timeline_page, of a snapshot with the cursor's revision.          *)
Page(S, r, limit, token) ==
  LET rest   == Sorted(Eligible(S, token))
      more   == Len(rest) > limit
      page   == SubSeq(rest, 1, Earlier(Len(rest), limit))
      newer  == Cardinality(S) - Len(rest)
  IN  [events |-> page, total |-> Cardinality(S), newer_skipped |-> newer,
       remaining_older |-> IF more THEN Cardinality(S) - (newer + Len(page)) ELSE 0,
       next_cursor |-> IF more THEN Encode(r, page[Len(page)]) ELSE None]

-----------------------------------------------------------------------------
(* A reader.                                                               *)

NoPage == [events |-> <<>>, total |-> 0, newer_skipped |-> 0,
           remaining_older |-> 0, next_cursor |-> None]
NoWalk == [collected |-> <<>>, page |-> NoPage, epochs |-> {}]

(* GET /api/v1/timeline without a cursor.                                  *)
FirstPage(limit) ==
  LET page == Page(Recent, revision, limit, None)
  IN  /\ walk = NoWalk
      /\ walk' = [collected |-> page.events, page |-> page, epochs |-> {epoch}]
      /\ UNCHANGED <<vars, epoch>>

(* The same with the cursor of the last page.                              *)
NextPage(limit) ==
  LET token == walk.page.next_cursor
      page  == Page(Recent, revision, limit, token)
  IN  /\ token # None
      /\ token.revision = revision
      /\ walk' = [collected |-> walk.collected \o page.events, page |-> page,
                  epochs |-> walk.epochs \cup {epoch}]
      /\ UNCHANGED <<vars, epoch>>

(* 409 timeline_revision_changed, upon which the reader starts again.      *)
RevisionChanged ==
  /\ walk.page.next_cursor # None
  /\ walk.page.next_cursor.revision # revision
  /\ walk' = NoWalk
  /\ UNCHANGED <<vars, epoch>>

(* A reader that has its last page, or loses interest.                     *)
Abandon ==
  /\ walk # NoWalk
  /\ walk' = NoWalk
  /\ UNCHANGED <<vars, epoch>>

-----------------------------------------------------------------------------
(* The store meanwhile.                                                    *)

IngestRecord(id, tr) ==
  /\ Deliveries < MaxDeliveries
  /\ IngestNew(id, Envelope[id].kind, Envelope[id].agent, OccurredAt(id), tr)
  /\ UNCHANGED <<epoch, walk>>

Restart ==
  /\ epoch < MaxRestarts
  /\ epoch' = epoch + 1
  /\ Reset
  /\ UNCHANGED walk

(* A rejected frame is only counted and is nothing to a reader.            *)
StoreStep ==
  \/ \E id \in EventIds, tr \in Transports : IngestRecord(id, tr)
  \/ \E id \in EventIds : IngestDuplicate(id) /\ UNCHANGED <<epoch, walk>>
  \/ Restart

TimelineInit == Init /\ epoch = 0 /\ walk = NoWalk

TimelineNext ==
  \/ StoreStep
  \/ \E limit \in Limits : FirstPage(limit) \/ NextPage(limit)
  \/ RevisionChanged
  \/ Abandon

TimelineSpec == TimelineInit /\ [][TimelineNext]_tvars

-----------------------------------------------------------------------------
(* Properties.                                                             *)

(* The pages of a walk within one process, whatever happens between them   *)
(* and whatever their sizes, are the retained events in timeline order     *)
(* without a gap or a repetition, and the last page completes them: only   *)
(* events that leave the revision alone can fall between two pages.        *)
WalkIsExact ==
  [][walk' # walk /\ walk' # NoWalk /\ walk'.epochs = {epoch} =>
       LET all == Sorted(Recent)
           got == walk'.collected
       IN  /\ got = SubSeq(all, 1, Len(got))
           /\ walk'.page.next_cursor = None <=> Len(got) = Len(all)]_tvars

(* What a page says about the events it does not show is true of the walk: *)
(* newer_retained_events_skipped are those of the pages before it, and     *)
(* remaining_older are those the following pages will return.              *)
PageCountsAddUp ==
  Cardinality(walk.epochs) = 1 =>
    /\ walk.page.newer_skipped + Len(walk.page.events) = Len(walk.collected)
    /\ Len(walk.collected) + walk.page.remaining_older = walk.page.total

(* docs/timeline-pagination.md:46: "This fail-closed behavior prevents a   *)
(* page sequence from silently combining two different state revisions."   *)
(* The cursor names the revision and not the process, so after a restart   *)
(* that has reached the same revision a walk goes on in another store.     *)
PagesShareOneState == Cardinality(walk.epochs) <= 1
=============================================================================
