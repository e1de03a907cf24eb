------------------------------ MODULE Explorer ------------------------------
(***************************************************************************)
(* The operator explorer, src/src/explorer.rs and src/src/explorer_api.rs: *)
(* a function of the snapshot the timeline pages through, which correlates *)
(* the retained events into sessions and then cuts every list to the       *)
(* request's limits.  The api hands only limits from 1 up to it; a request *)
(* it refuses reads no snapshot.  The counters it copies, the counts per   *)
(* transport (kept like those per kind) and the sorted agents are left     *)
(* out.                                                                    *)
(***************************************************************************)
EXTENDS Timeline, SequencesExt

CONSTANTS
  LessonRank,                             \* the order of <<agent, lesson>> ids
  TimelineLimit, SessionLimit, LessonLimit  \* the ExplorerPolicy

ASSUME PolicyAssumption ==
  /\ {TimelineLimit, SessionLimit, LessonLimit} \subseteq Nat \ {0}
  /\ LessonRank \in [Agents \X LessonIds -> Nat]
  /\ \A k, l \in Agents \X LessonIds : LessonRank[k] = LessonRank[l] => k = l
  /\ Sessions \subseteq Nat /\ None \notin Sessions

Cut(s, limit) == SubSeq(s, 1, Earlier(Len(s), limit))

-----------------------------------------------------------------------------
(* Sessions.                                                               *)

(* One more of the kind of event id.                                       *)
OneMore(kinds, id) ==
  [kinds EXCEPT ![Envelope[id].kind] = @ + 1]

(* SessionAccumulator::new.                                                *)
NewSession(id) ==
  [agents |-> {Envelope[id].agent}, count |-> 1, latest |-> id,
   kinds  |-> OneMore([k \in EventKinds |-> 0], id),
   first_occurred_at |-> OccurredAt(id), last_occurred_at |-> OccurredAt(id)]

(* SessionAccumulator::observe.                                            *)
Observed(acc, id) ==
  LET newer == Precedes(OccurredAt(id), id, acc.latest)
  IN  [agents |-> acc.agents \cup {Envelope[id].agent}, count |-> acc.count + 1,
       kinds  |-> OneMore(acc.kinds, id),
       latest |-> IF newer THEN id ELSE acc.latest,
       first_occurred_at |-> Earlier(acc.first_occurred_at, OccurredAt(id)),
       last_occurred_at  |-> IF newer THEN OccurredAt(id) ELSE acc.last_occurred_at]

(* The accumulators after one more event of the timeline.                  *)
Correlate(acc, id) ==
  LET s == Envelope[id].session
  IN  IF s = None THEN acc
      ELSE [x \in DOMAIN acc \cup {s} |->
              IF x # s THEN acc[x]
              ELSE IF s \in DOMAIN acc THEN Observed(acc[s], id) ELSE NewSession(id)]

(* Sessions by their latest event, then by id.                             *)
SessionPrecedes(acc, s, t) ==
  \/ acc[s].last_occurred_at > acc[t].last_occurred_at
  \/ acc[s].last_occurred_at = acc[t].last_occurred_at /\ s < t

SessionOrder(acc) ==
  [i \in 1..Cardinality(DOMAIN acc) |->
     CHOOSE s \in DOMAIN acc :
       Cardinality({t \in DOMAIN acc : SessionPrecedes(acc, t, s)}) = i - 1]

-----------------------------------------------------------------------------
(* Lessons, the most recently learned first.                               *)

LessonPrecedes(k, l) ==
  LET at == lessons.entry[k].learned_at
      bt == lessons.entry[l].learned_at
  IN  at > bt \/ (at = bt /\ LessonRank[k] < LessonRank[l])

(* Mutant of LessonList: the list is cut before it is sorted.              *)
LessonListCutFirst(limit) ==
  LET K == ToSet(Cut(lessons.order, limit))
  IN  [i \in 1..Cardinality(K) |->
         CHOOSE k \in K : Cardinality({l \in K : LessonPrecedes(l, k)}) = i - 1]

LessonList(limit) ==
  LET K == Keys(lessons)
  IN  Cut([i \in 1..Cardinality(K) |->
             CHOOSE k \in K : Cardinality({l \in K : LessonPrecedes(l, k)}) = i - 1], limit)

-----------------------------------------------------------------------------
(* build_explorer.                                                         *)

ExplorerOf(timeline, acc, list) ==
  [timeline |-> Cut(timeline, TimelineLimit),
   sessions |-> LET order == Cut(SessionOrder(acc), SessionLimit)
                IN  [i \in DOMAIN order |-> [session_id |-> order[i], summary |-> acc[order[i]]]],
   lessons  |-> list,
   omitted_sessions |-> Cardinality(DOMAIN acc) - Earlier(Cardinality(DOMAIN acc), SessionLimit),
   omitted_lessons  |-> Cardinality(Keys(lessons)) - Len(list)]

(* Mutant of SessionsIn: only the events that are shown are correlated.    *)
SessionsInShown(timeline) ==
  FoldLeft(Correlate, <<>>, Cut(timeline, TimelineLimit))

SessionsIn(timeline) == FoldLeft(Correlate, <<>>, timeline)

BuildExplorer == ExplorerOf(Sorted(Recent), SessionsIn(Sorted(Recent)), LessonList(LessonLimit))

-----------------------------------------------------------------------------
(* Properties.                                                             *)

(* The retained events of a session.                                       *)
EventsOf(s) == {id \in Recent : Envelope[id].session = s}

(* Every session summary is about all the retained events of its session,  *)
(* those cut from the timeline included: how many of each kind, by whom,   *)
(* when, and which is the latest; every session with a retained event is   *)
(* shown or counted as omitted, and none that is omitted had a later event *)
(* than one that is shown.                                                 *)
SessionsAreExactIn(view) ==
  LET shown == {view.sessions[i].session_id : i \in DOMAIN view.sessions}
      all   == {s \in Sessions : EventsOf(s) # {}}
  IN  /\ shown \subseteq all
      /\ Cardinality(shown) = Len(view.sessions)
      /\ Cardinality(all) = Cardinality(shown) + view.omitted_sessions
      /\ \A i \in DOMAIN view.sessions :
           LET E == EventsOf(view.sessions[i].session_id)
               a == view.sessions[i].summary
           IN  /\ a.count = Cardinality(E)
               /\ \A k \in EventKinds :
                    a.kinds[k] = Cardinality({id \in E : Envelope[id].kind = k})
               /\ a.agents = {Envelope[id].agent : id \in E}
               /\ \A id \in E : /\ a.first_occurred_at <= OccurredAt(id)
                                /\ OccurredAt(id) <= a.last_occurred_at
               /\ a.latest \in E /\ OccurredAt(a.latest) = a.last_occurred_at
               /\ \A id \in E \ {a.latest} : Precedes(a.last_occurred_at, a.latest, id)
               /\ \A s \in all \ shown : \A id \in EventsOf(s) :
                    OccurredAt(id) <= a.last_occurred_at
SessionsAreExact == SessionsAreExactIn(BuildExplorer)

(* Cutting the lessons keeps the most recently learned ones and counts the *)
(* others, although the cache holds them by use and a lesson learned again *)
(* keeps whatever time its last report carried.                            *)
LessonsKeepNewestIn(view) ==
  LET shown == ToSet(view.lessons)
  IN  /\ Cardinality(shown) = Len(view.lessons)
      /\ Cardinality(Keys(lessons)) = Cardinality(shown) + view.omitted_lessons
      /\ \A k \in shown, l \in Keys(lessons) \ shown :
           lessons.entry[l].learned_at <= lessons.entry[k].learned_at
LessonsKeepNewest == LessonsKeepNewestIn(BuildExplorer)
=============================================================================
