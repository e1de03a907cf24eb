--------------------------- MODULE DeliveryProofs ---------------------------
(***************************************************************************)
(* Theorems about Delivery, for every set of events, offers and input      *)
(* lines, every window, socket capacity and number of calls, and any       *)
(* number of faults and restarts.                                          *)
(*                                                                         *)
(* The inductive invariant has three parts.  GoodCall is about one call    *)
(* alone: its replies are those of the frames its handler took.  Backed    *)
(* relates a call to the history: an acceptance that was or is about to be *)
(* written belongs to an event that took effect.  SeenOK says the same of  *)
(* every id in the idempotency window, which is what a duplicate's         *)
(* acknowledgement rests on.  The order of the sidecar's events needs a    *)
(* part of its own, SidecarInv.                                            *)
(***************************************************************************)
EXTENDS Delivery, StoreProofs, SequenceTheorems

SeenOK ==
  /\ CacheOK(seen, EventIds, Nat, IdempotencyCap)
  /\ revision \in Nat
  /\ \A id \in Keys(seen) : effects[id] > 0

(* The replies written and not read are those of the frames after the ones *)
(* the peer was told about, and the pending one is that of the last frame. *)
Matches(k, r, i) ==
  /\ r.frame = i
  /\ r.accepted <=> k.sent[i].defect = "none"
Matched(k) ==
  /\ k.read \in 0..Len(k.sent)
  /\ k.read = k.told + Len(k.outbox) + (IF k.reply = None THEN 0 ELSE 1)
  /\ k.link # "open" => k.reply = None
  /\ k.reply # None => Matches(k, k.reply, k.read)
  /\ \A i \in 1..Len(k.outbox) : Matches(k, k.outbox[i], k.told + i)
  /\ NoneAfter(k)
  /\ k.link = "ended" => AllTaken(k)

(* What a handler takes next: its reader has not failed, nor does it now   *)
(* without a word.                                                         *)
MayTake(k, i) ==
  /\ k.via = "tcp" => ~Undecodable(k, k.read)
  /\ k.via = "websocket" => ~Undecodable(k, i)

GoodCall(k) ==
  /\ k \in Call
  /\ k.via \in {"http", "udp"} => Len(k.sent) = 1
  /\ k.link \in {"backlog", "open", "awaiting", "ended", "cancelled"} => k.via \in Streams
  /\ k.link = "datagram" => k.via = "udp"
  /\ k.link = "backlog" => k.read = 0 /\ k.told = 0 /\ k.outbox = <<>> /\ k.reply = None
  /\ k.link \in {"open", "awaiting", "ended", "cancelled"} => Matched(k)

(* The acceptances of a call, under the history ef.                        *)
Backed(k, ef) ==
  /\ k.reply # None /\ k.reply.accepted => ef[k.reply.event_id] > 0
  /\ \A i \in 1..Len(k.outbox) :
       k.outbox[i].accepted => ef[k.outbox[i].event_id] > 0

Inv ==
  /\ DeliveryTypeOK
  /\ SeenOK
  /\ \A c \in Calls : GoodCall(call[c]) /\ Backed(call[c], effects)

(* The sidecar's order, for an event id: the line before the one with this *)
(* id was confirmed.                                                       *)
Told(id) ==
  \A i \in DOMAIN Lines :
    i > 1 /\ Lines[i].event_id = id => Lines[i - 1].event_id \in confirmed

(* Why the sidecar keeps it: its current call is that of the line before   *)
(* the next one, a call that ended well was confirmed, and what is under   *)
(* way or took effect was only sent when its line's turn had come.         *)
SidecarInv ==
  /\ \A c \in Calls : call[c].peer = "ok" => call[c].sent[1].event_id \in confirmed
  /\ line > 1 => /\ current \in Calls /\ call[current].peer # "new"
                 /\ call[current].sent[1].event_id = Lines[line - 1].event_id
  /\ \A c \in Calls : \A n \in DOMAIN call[c].sent : Told(call[c].sent[n].event_id)
  /\ \A id \in EventIds : effects[id] > 0 => Told(id)

-----------------------------------------------------------------------------
(* What happens to one call.                                               *)

(* A call that starts has not been answered.                               *)
LEMMA StartedCall ==
  ASSUME NEW who \in {"waiting", "agent"}, NEW tr \in Transports, NEW fs \in Seq(Frames),
         tr \in {"http", "udp"} => Len(fs) = 1, NEW ef
  PROVE  GoodCall(SentBy(who, tr, fs)) /\ Backed(SentBy(who, tr, fs), ef)
<1>1. tr # "udp" => tr \in Streams
  BY CallAssumption
<1> DEFINE k(w, l) == Unanswered(w, tr, fs, l)
<1>2. ASSUME NEW w \in {"waiting", "agent", "failed"},
             NEW l \in {"none", "datagram", "lost", "backlog"},
             l = "backlog" => tr \in Streams, l = "datagram" => tr = "udp"
      PROVE  GoodCall(k(w, l)) /\ Backed(k(w, l), ef)
  <2>1. <<>> \in Seq(Reply) /\ Len(<<>>) = 0
    OBVIOUS
  <2>2. k(w, l) \in Call
    BY <2>1 DEF Unanswered, Call
  <2>3. /\ k(w, l).link = l /\ k(w, l).via = tr /\ k(w, l).sent = fs
        /\ k(w, l).outbox = <<>> /\ k(w, l).read = 0 /\ k(w, l).told = 0
        /\ k(w, l).reply = None
    BY DEF Unanswered
  <2> HIDE DEF k
  <2> QED
    BY <1>2, <2>1, <2>2, <2>3 DEF GoodCall, Backed
<1> QED
  BY <1>1, <1>2 DEF SentBy

(* Records that differ from a call in some fields are calls.               *)
LEMMA ChangedOutbox ==
  ASSUME NEW k \in Call, NEW who \in {"ok", "failed", "agent"},
         NEW s \in Seq(Reply), NEW n \in Nat
  PROVE  [k EXCEPT !.peer = who, !.outbox = s, !.told = n] \in Call
BY DEF Call
LEMMA ChangedReply ==
  ASSUME NEW k \in Call, NEW i \in Nat, NEW r \in Reply
  PROVE  [k EXCEPT !.read = i, !.reply = r] \in Call
BY DEF Call

LEMMA ChangedWritten ==
  ASSUME NEW k \in Call, NEW s \in Seq(Reply)
  PROVE  [k EXCEPT !.outbox = s, !.reply = None] \in Call
BY DEF Call

(* What the peer becomes makes no difference to the replies.               *)
LEMMA PeerChanges ==
  ASSUME NEW k, GoodCall(k), NEW ef, Backed(k, ef), NEW who \in {"failed", "gone"}
  PROVE  /\ GoodCall([k EXCEPT !.peer = who])
         /\ Backed([k EXCEPT !.peer = who], ef)
<1> DEFINE t == [k EXCEPT !.peer = who]
<1>1. t \in Call
  BY DEF GoodCall, Call
<1>2. /\ t.outbox = k.outbox /\ t.told = k.told /\ t.read = k.read /\ t.reply = k.reply
      /\ t.sent = k.sent /\ t.link = k.link /\ t.via = k.via
  BY DEF GoodCall, Call
<1>3. Backed(t, ef)
  BY <1>2 DEF Backed
<1>4. Matched(k) => Matched(t)
  BY <1>2 DEF Matched, Matches, Undecodable, AllTaken, NoneAfter
<1> QED
  BY <1>1, <1>2, <1>3, <1>4 DEF GoodCall

(* Reading a reply moves it from the outbox to what the peer was told.     *)
LEMMA TookReply ==
  ASSUME NEW k, GoodCall(k), NEW ef, Backed(k, ef), k.outbox # <<>>,
         NEW who \in {"ok", "failed", "agent"}
  PROVE  /\ GoodCall(Took(k, who))
         /\ Backed(Took(k, who), ef)
         /\ Head(k.outbox) \in Reply
         /\ Head(k.outbox).accepted => ef[Head(k.outbox).event_id] > 0
<1> DEFINE t == Took(k, who)
<1>1. k.outbox \in Seq(Reply) /\ k \in Call /\ k.told \in Nat
  BY DEF GoodCall, Call
<1>2. /\ Head(k.outbox) \in Reply
      /\ Tail(k.outbox) \in Seq(Reply)
      /\ Len(Tail(k.outbox)) = Len(k.outbox) - 1
      /\ \A i \in 1..Len(Tail(k.outbox)) : Tail(k.outbox)[i] = k.outbox[i + 1]
  BY <1>1, HeadTailProperties
<1>3. Len(k.outbox) \in Nat \ {0} /\ Head(k.outbox) = k.outbox[1]
  BY <1>1
<1>4. t \in Call
  <2>1. k.told + 1 \in Nat
    BY <1>1
  <2> QED
    BY <1>1, <1>2, <2>1, ChangedOutbox DEF Took
<1>5. /\ t.outbox = Tail(k.outbox) /\ t.told = k.told + 1
      /\ t.read = k.read /\ t.sent = k.sent /\ t.reply = k.reply
      /\ t.link = k.link /\ t.via = k.via
  BY <1>1 DEF Took, Call
<1>6. Backed(t, ef)
  <2>1. \A i \in 1..Len(t.outbox) : t.outbox[i] = k.outbox[i + 1] /\ i + 1 \in 1..Len(k.outbox)
    BY <1>2, <1>3, <1>5
  <2> QED
    BY <2>1, <1>5 DEF Backed
<1>7. Matched(k) => Matched(t)
  <2> HAVE Matched(k)
  <2>1. \A i \in 1..Len(t.outbox) : Matches(t, t.outbox[i], t.told + i)
    <3> TAKE i \in 1..Len(t.outbox)
    <3>1. i + 1 \in 1..Len(k.outbox) /\ t.outbox[i] = k.outbox[i + 1]
      BY <1>2, <1>3, <1>5
    <3>2. Matches(k, k.outbox[i + 1], k.told + (i + 1))
      BY <3>1 DEF Matched
    <3>3. k.told + (i + 1) = t.told + i
      BY <1>1, <1>5
    <3> QED
      BY <3>1, <3>2, <3>3, <1>5 DEF Matches
  <2>2. t.told + Len(t.outbox) = k.told + Len(k.outbox)
    BY <1>1, <1>2, <1>3, <1>5
  <2>3. t.reply # None => Matches(t, t.reply, t.read)
    BY <1>5 DEF Matched, Matches
  <2> QED
    BY <2>1, <2>2, <2>3, <1>5 DEF Matched, Undecodable, AllTaken, NoneAfter
<1>8. GoodCall(t)
  BY <1>3, <1>4, <1>5, <1>7 DEF GoodCall
<1>9. Head(k.outbox).accepted => ef[Head(k.outbox).event_id] > 0
  BY <1>3 DEF Backed
<1> QED
  BY <1>2, <1>6, <1>8, <1>9

(* A handler that takes the next frame owes exactly its reply.             *)
LEMMA AnsweredFrame ==
  ASSUME NEW k, GoodCall(k), NEW i \in DOMAIN k.sent, NEW ok \in BOOLEAN, k.reply = None,
         \/ k.link = "open" /\ i = k.read + 1
         \/ k.link = "datagram" /\ i = 1,
         k.link = "open" => (ok <=> k.sent[i].defect = "none") /\ MayTake(k, i),
         NEW ef, NEW ff, Backed(k, ef), \A id \in EventIds : ef[id] > 0 => ff[id] > 0,
         ok => ff[k.sent[i].event_id] > 0
  PROVE  GoodCall(Answered(k, i, ok)) /\ Backed(Answered(k, i, ok), ff)
<1> DEFINE t == Answered(k, i, ok)
           r == [accepted |-> ok, event_id |-> k.sent[i].event_id,
                 transport |-> k.via, frame |-> i]
<1>1. k \in Call /\ k.sent \in Seq(Frames) /\ i \in 1..Len(k.sent) /\ k.sent[i] \in Frames
      /\ k.outbox \in Seq(Reply)
  BY DEF GoodCall, Call
<1>2. k.via \in Transports
  BY CallAssumption DEF GoodCall
<1>3. r \in Reply
  BY <1>1, <1>2 DEF Reply, Frames
<1>4. t \in Call
  <2>1. i \in Nat
    BY <1>1
  <2> QED
    BY <1>1, <1>3, <2>1, ChangedReply DEF Answered
<1>5. /\ t.outbox = k.outbox /\ t.told = k.told /\ t.read = i /\ t.reply = r
      /\ t.sent = k.sent /\ t.link = k.link /\ t.via = k.via
  BY <1>1 DEF Answered, Call
<1>6. Backed(t, ff)
  <2>1. \A j \in 1..Len(k.outbox) : k.outbox[j] \in Reply
    BY <1>1
  <2>2. \A s \in Reply : s.event_id \in EventIds
    BY DEF Reply
  <2> QED
    BY <1>5, <2>1, <2>2 DEF Backed
<1>7. r # None /\ k.link = "open" => Matched(t)
  <2> SUFFICES ASSUME r # None, k.link = "open"
               PROVE  Matched(t)
    OBVIOUS
  <2>1. Matched(k) /\ i = k.read + 1 /\ k.told \in Nat /\ k.read \in Nat /\ Len(k.outbox) \in Nat
    BY <1>1 DEF GoodCall, Call
  <2>2. \A j \in 1..Len(t.outbox) : Matches(t, t.outbox[j], t.told + j)
    <3>1. \A j \in 1..Len(k.outbox) : Matches(k, k.outbox[j], k.told + j)
      BY <2>1 DEF Matched
    <3> QED
      BY <3>1, <1>5 DEF Matches
  <2>3. Matches(t, t.reply, t.read)
    BY <1>5 DEF Matches
  <2>4. t.read = t.told + Len(t.outbox) + 1
    BY <2>1, <1>5 DEF Matched
  <2>5. NoneAfter(t)
    <3>1. k.via \in Streams /\ NoneAfter(k) /\ MayTake(k, i)
      BY <2>1 DEF GoodCall, Matched
    <3>2. \A j \in 1..i : j \in 1..k.read \/ j = i
      BY <2>1
    <3>3. \A j \in 1..i : Undecodable(t, j) <=> Undecodable(k, j)
      BY <1>5 DEF Undecodable
    <3> HIDE DEF t
    <3>4. \A j \in 1..i : Undecodable(k, j) => k.via = "http" \/ (k.via = "tcp" /\ j = i)
      BY <3>1, <3>2 DEF NoneAfter, MayTake, Streams
    <3> QED
      BY <3>3, <3>4, <1>5 DEF NoneAfter
  <2> QED
    BY <2>1, <2>2, <2>3, <2>4, <2>5, <1>1, <1>5 DEF Matched
<1>8. k.link = "open" => r # None
  BY <1>3, NoneAssumption
<1> QED
  BY <1>4, <1>5, <1>6, <1>7, <1>8 DEF GoodCall

(* Writing the pending reply puts it behind the ones before it.            *)
LEMMA WroteReply ==
  ASSUME NEW k, GoodCall(k), NEW ef, Backed(k, ef), k.reply # None
  PROVE  GoodCall(Wrote(k)) /\ Backed(Wrote(k), ef)
<1> DEFINE t == Wrote(k)
           n == Len(k.outbox)
<1>1. k \in Call /\ k.outbox \in Seq(Reply) /\ k.reply \in Reply /\ k.told \in Nat /\ n \in Nat
  BY DEF GoodCall, Call
<1>2. /\ Append(k.outbox, k.reply) \in Seq(Reply)
      /\ Len(Append(k.outbox, k.reply)) = n + 1
      /\ \A i \in 1..n : Append(k.outbox, k.reply)[i] = k.outbox[i]
      /\ Append(k.outbox, k.reply)[n + 1] = k.reply
  BY <1>1, AppendProperties
<1>3. t \in Call
  BY <1>1, <1>2, ChangedWritten DEF Wrote
<1>4. /\ t.outbox = Append(k.outbox, k.reply) /\ t.told = k.told /\ t.read = k.read
      /\ t.reply = None /\ t.sent = k.sent /\ t.link = k.link /\ t.via = k.via
  BY <1>1 DEF Wrote, Call
<1>5. \A i \in 1..Len(t.outbox) :
        \/ i \in 1..n /\ t.outbox[i] = k.outbox[i]
        \/ i = n + 1 /\ t.outbox[i] = k.reply
  BY <1>1, <1>2, <1>4
<1>6. Backed(t, ef)
  BY <1>4, <1>5 DEF Backed
<1>7. k.link # "backlog"
  BY DEF GoodCall
<1>8. Matched(k) => Matched(t)
  <2> HAVE Matched(k)
  <2>1. k.read = k.told + n + 1 /\ Matches(k, k.reply, k.read)
    BY <1>1 DEF Matched
  <2>2. \A i \in 1..n : Matches(k, k.outbox[i], k.told + i)
    BY DEF Matched
  <2>3. \A i \in 1..Len(t.outbox) : Matches(k, t.outbox[i], t.told + i)
    <3> TAKE i \in 1..Len(t.outbox)
    <3>1. CASE i \in 1..n /\ t.outbox[i] = k.outbox[i]
      BY <3>1, <2>2, <1>4
    <3>2. CASE i = n + 1 /\ t.outbox[i] = k.reply
      <4>1. k.told + (n + 1) = k.read
        BY <2>1, <1>1
      <4> QED
        BY <3>2, <4>1, <2>1, <1>4
    <3> QED
      BY <3>1, <3>2, <1>5
  <2>4. \A i \in 1..Len(t.outbox) : Matches(t, t.outbox[i], t.told + i)
    BY <2>3, <1>4 DEF Matches
  <2>5. t.read = t.told + Len(t.outbox)
    BY <2>1, <1>1, <1>2, <1>4, SMTT(30)
  <2> QED
    BY <2>4, <2>5, <1>4 DEF Matched, Undecodable, AllTaken, NoneAfter
<1> QED
  BY <1>3, <1>4, <1>6, <1>7, <1>8 DEF GoodCall

(* The daemon's side of a call moves on without a reply: a connection is   *)
(* opened, begins to wait for a request, or ends between two frames.       *)
LEMMA LinkChanges ==
  ASSUME NEW k, GoodCall(k), NEW ef, Backed(k, ef), k.reply = None,
         NEW l \in {"open", "awaiting", "ended", "cancelled", "lost"},
         \/ k.link = "backlog" /\ l \in {"open", "lost"}
         \/ k.link = "open" /\ l \in {"awaiting", "cancelled", "ended"},
         l = "ended" => AllTaken(k)
  PROVE  /\ GoodCall([k EXCEPT !.link = l])
         /\ Backed([k EXCEPT !.link = l], ef)
<1> DEFINE t == [k EXCEPT !.link = l]
<1>1. k \in Call /\ t \in Call
  BY DEF GoodCall, Call
<1>2. /\ t.outbox = k.outbox /\ t.told = k.told /\ t.read = k.read /\ t.reply = None
      /\ t.sent = k.sent /\ t.link = l /\ t.via = k.via
  BY <1>1 DEF Call
<1>3. Backed(t, ef)
  BY <1>2 DEF Backed
<1>4. CASE k.link = "backlog"
  <2>1. k.sent \in Seq(Frames) /\ k.outbox = <<>> /\ k.read = 0 /\ k.told = 0
    BY <1>1, <1>4 DEF GoodCall, Call
  <2>2. l = "open" => Matched(t)
    BY <2>1, <1>2 DEF Matched, NoneAfter
  <2> QED
    BY <2>2, <1>1, <1>2, <1>3, <1>4 DEF GoodCall
<1>5. CASE k.link = "open"
  <2>1. Matched(k)
    BY <1>5 DEF GoodCall
  <2>2. Matched(t)
    BY <2>1, <1>2 DEF Matched, Matches, Undecodable, AllTaken, NoneAfter
  <2> QED
    BY <2>2, <1>1, <1>2, <1>3, <1>5 DEF GoodCall
<1> QED
  BY <1>4, <1>5

(* What is cut off promises nothing.                                       *)
LEMMA CutCall ==
  ASSUME NEW k, GoodCall(k), NEW ef, Backed(k, ef)
  PROVE  GoodCall(Cut(k)) /\ Backed(Cut(k), ef)
<1> DEFINE t == Cut(k)
<1>1. t \in Call /\ t.link = "lost" /\ t.reply = None /\ t.outbox = k.outbox
      /\ t.sent = k.sent /\ t.via = k.via
  BY DEF GoodCall, Call, Cut
<1> QED
  BY <1>1 DEF GoodCall, Backed

(* The death of the process takes the pending reply of a datagram too.     *)
LEMMA ForgottenReply ==
  ASSUME NEW k, GoodCall(k), NEW ef, Backed(k, ef), k.link # "open"
  PROVE  GoodCall([k EXCEPT !.reply = None]) /\ Backed([k EXCEPT !.reply = None], ef)
<1> DEFINE t == [k EXCEPT !.reply = None]
<1>1. t \in Call
  BY DEF GoodCall, Call
<1>2. /\ t.outbox = k.outbox /\ t.told = k.told /\ t.read = k.read /\ t.reply = None
      /\ t.sent = k.sent /\ t.link = k.link /\ t.via = k.via
  BY DEF GoodCall, Call
<1>3. Matched(k) => Matched(t)
  BY <1>2 DEF Matched, Matches, Undecodable, AllTaken, NoneAfter
<1> QED
  BY <1>1, <1>2, <1>3 DEF GoodCall, Backed

-----------------------------------------------------------------------------
(* Steps.                                                                  *)

(* What every step of the delivery is to the abstract specification.       *)
AbstractStep ==
  A!Next \/ UNCHANGED <<Keys(seen), effects, confirmed>>

CallsOK == \A c \in Calls : GoodCall(call[c]) /\ Backed(call[c], effects)

(* It is enough to look at the call whose step it is.                      *)
LEMMA OneCall ==
  ASSUME Inv, NEW c \in Calls, NEW k, GoodCall(k), Backed(k, effects'),
         call' = [call EXCEPT ![c] = k],
         \A id \in EventIds : effects[id] > 0 => effects'[id] > 0
  PROVE  call' \in [Calls -> Call] /\ CallsOK'
<1>1. call \in [Calls -> Call] /\ k \in Call
  BY DEF Inv, DeliveryTypeOK, GoodCall
<1>2. call' \in [Calls -> Call] /\ call'[c] = k /\ \A d \in Calls \ {c} : call'[d] = call[d]
  BY <1>1
<1>3. ASSUME NEW d \in Calls
      PROVE  Backed(call[d], effects')
  <2>1. call[d].outbox \in Seq(Reply) /\ call[d].reply \in Reply \cup {None}
    BY <1>1 DEF Call
  <2>2. \A r \in Reply : r.event_id \in EventIds
    BY DEF Reply
  <2>3. \A i \in 1..Len(call[d].outbox) : call[d].outbox[i] \in Reply
    BY <2>1
  <2>4. Backed(call[d], effects)
    BY DEF Inv
  <2> QED
    BY <2>1, <2>2, <2>3, <2>4 DEF Backed
<1>4. \A d \in Calls : GoodCall(call[d])
  BY DEF Inv
<1> QED
  BY <1>2, <1>3, <1>4 DEF CallsOK

(* A step that leaves the store and the history alone is a stutter.        *)
LEMMA Aside ==
  ASSUME Inv, UNCHANGED <<vars, effects>>
  PROVE  /\ SeenOK' /\ effects' = effects
         /\ UNCHANGED confirmed => AbstractStep
BY DEF Inv, SeenOK, vars, AbstractStep, Keys

(* So is a refused frame.                                                  *)
LEMMA RejectionOK ==
  ASSUME Inv, NEW tr, RecordRejection(tr), UNCHANGED effects
  PROVE  /\ SeenOK' /\ effects' = effects
         /\ UNCHANGED confirmed => AbstractStep
BY DEF Inv, SeenOK, RecordRejection, AbstractStep, Keys

(* An ingested event has taken effect, now or earlier; when it is now, its *)
(* id was not remembered and is from here on, and at most one other id has *)
(* given way to it, in a full window.                                      *)
LEMMA IngestedOK ==
  ASSUME Inv, NEW id \in EventIds, NEW tr, Ingested(id, tr)
  PROVE  /\ SeenOK' /\ effects' \in [EventIds -> Nat]
         /\ \A x \in EventIds : effects[x] > 0 => effects'[x] > 0
         /\ effects'[id] > 0
         /\ UNCHANGED confirmed => AbstractStep
<1>1. /\ CacheOK(seen, EventIds, Nat, IdempotencyCap) /\ revision \in Nat
      /\ effects \in [EventIds -> Nat]
      /\ \A x \in Keys(seen) : effects[x] > 0
      /\ IdempotencyCap \in Nat \ {0}
  BY CapacityAssumption DEF Inv, SeenOK, DeliveryTypeOK
<1>2. CASE IngestDuplicate(id) /\ UNCHANGED effects
  <2>1. id \in Keys(seen) /\ seen' = Touch(seen, id) /\ revision' = revision
    BY <1>2 DEF IngestDuplicate
  <2>2. CacheOK(seen', EventIds, Nat, IdempotencyCap) /\ Keys(seen') = Keys(seen)
    BY <1>1, <2>1, TouchOK DEF Keys
  <2> QED
    BY <1>1, <1>2, <2>1, <2>2 DEF SeenOK, AbstractStep, Keys
<1>3. CASE /\ IngestNew(id, Envelope[id].kind, Envelope[id].agent, Envelope[id].occurred_at, tr)
           /\ effects' = [effects EXCEPT ![id] = @ + 1]
  <2> DEFINE out == Displaced(seen, id, IdempotencyCap)
  <2>1. /\ id \notin Keys(seen) /\ revision' = revision + 1
        /\ seen' = Push(seen, id, revision + 1, IdempotencyCap)
    BY <1>3 DEF IngestNew, Accept
  <2>2. CacheOK(seen', EventIds, Nat, IdempotencyCap)
    <3>1. revision + 1 \in Nat
      BY <1>1
    <3> QED
      BY <1>1, <2>1, <3>1, PushNewOK
  <2>3. Keys(seen') = (Keys(seen) \ out) \cup {id}
    BY <2>1, PushNewEntries
  <2>4. out = {} \/ (Cardinality(out) = 1 /\ Cardinality(Keys(seen)) = IdempotencyCap)
    <3>1. Len(seen.order) \in Nat /\ Len(seen.order) <= IdempotencyCap
      BY <1>1 DEF CacheOK
    <3>2. Cardinality(Keys(seen)) = Len(seen.order)
      BY <1>1, KeysCounted
    <3>3. CASE Len(seen.order) < IdempotencyCap
      BY <3>3 DEF Displaced
    <3>4. CASE Len(seen.order) = IdempotencyCap
      <4>1. out = {seen.order[Len(seen.order)]}
        BY <3>1, <3>4, <2>1, <1>1 DEF Displaced
      <4>2. Cardinality(out) = 1
        BY <4>1, FS_Singleton
      <4> QED
        BY <4>2, <3>2, <3>4
    <3> QED
      BY <3>1, <3>3, <3>4, <1>1
  <2>5. out \subseteq Keys(seen)
    BY <1>1, DisplacedOK
  <2>6. /\ effects' \in [EventIds -> Nat] /\ effects'[id] > 0
        /\ \A x \in EventIds : effects[x] > 0 => effects'[x] > 0
    BY <1>1, <1>3
  <2>7. SeenOK'
    <3>1. \A x \in Keys(seen) : x \in EventIds
      BY <1>1 DEF CacheOK
    <3> QED
      BY <1>1, <2>1, <2>2, <2>3, <2>6, <3>1 DEF SeenOK
  <2>8. UNCHANGED confirmed => A!TakeEffect(id)
    <3> HAVE UNCHANGED confirmed
    <3>1. \E gone \in SUBSET Keys(seen) :
            /\ gone = {} \/ (Cardinality(gone) = 1 /\ Cardinality(Keys(seen)) = IdempotencyCap)
            /\ Keys(seen') = (Keys(seen) \ gone) \cup {id}
      <4> HIDE DEF out
      <4>1. out \in SUBSET Keys(seen)
        BY <2>5
      <4> QED
        BY <4>1, <2>3, <2>4
    <3>2. Keys(seen)' = Keys(seen')
      BY DEF Keys
    <3>3. \A S : A!Cardinality(S) = Cardinality(S)
      BY Zenon DEF A!Cardinality, Cardinality
    <3> QED
      BY <3>1, <3>2, <3>3, <2>1, <1>3 DEF A!TakeEffect
  <2> QED
    BY <2>6, <2>7, <2>8 DEF AbstractStep, A!Next
<1> QED
  BY <1>2, <1>3 DEF Ingested

(* A sender that reads an acceptance confirms an event that took effect.   *)
LEMMA ConfirmedOK ==
  ASSUME Inv, UNCHANGED <<vars, effects>>, NEW id \in EventIds, effects[id] > 0,
         confirmed' = confirmed \cup {id}
  PROVE  AbstractStep
<1>1. Keys(seen)' = Keys(seen)
  BY DEF vars, Keys
<1>2. A!Confirm(id)
  BY <1>1 DEF A!Confirm
<1> QED
  BY <1>2 DEF AbstractStep, A!Next

(* A step of one call, given what it does to the call and to the store.    *)
LEMMA CallStep ==
  ASSUME Inv, NEW c \in Calls, NEW k, GoodCall(k), Backed(k, effects'),
         call' = [call EXCEPT ![c] = k],
         SeenOK', effects' \in [EventIds -> Nat],
         \A id \in EventIds : effects[id] > 0 => effects'[id] > 0,
         UNCHANGED <<daemon, restarts>>, faults' \in Nat,
         line' \in 1..(Len(Lines) + 1), current' \in 0..MaxCalls,
         confirmed' \subseteq EventIds
  PROVE  Inv'
<1>1. call' \in [Calls -> Call] /\ CallsOK'
  BY OneCall
<1>2. daemon' \in {"up", "stopping", "down"} /\ restarts' \in Nat
  BY DEF Inv, DeliveryTypeOK
<1> QED
  BY <1>1, <1>2 DEF Inv, DeliveryTypeOK, CallsOK

(* A step of one call that touches nothing else.                           *)
LEMMA QuietStep ==
  ASSUME Inv, NEW c \in Calls, NEW k, GoodCall(k), Backed(k, effects),
         call' = [call EXCEPT ![c] = k],
         UNCHANGED <<vars, process, sidecar, effects, confirmed>>
  PROVE  Inv' /\ AbstractStep
<1>1. UNCHANGED vars /\ UNCHANGED <<daemon, restarts, faults, line, current, effects, confirmed>>
  BY DEF process, sidecar
<1>2. SeenOK' /\ AbstractStep
  BY <1>1, Aside
<1>3. /\ effects \in [EventIds -> Nat] /\ faults \in Nat /\ line \in 1..(Len(Lines) + 1)
      /\ current \in 0..MaxCalls /\ confirmed \subseteq EventIds
  BY DEF Inv, DeliveryTypeOK
<1>4. Inv'
  BY <1>1, <1>2, <1>3, CallStep
<1> QED
  BY <1>2, <1>4

(* The calling side.                                                       *)
LEMMA StartsStep ==
  ASSUME Inv, NEW c \in Calls, NEW who \in {"waiting", "agent"}, NEW tr \in Transports,
         NEW fs \in Seq(Frames), tr \in {"http", "udp"} => Len(fs) = 1, Starts(c, who, tr, fs)
  PROVE  /\ call' = [call EXCEPT ![c] = SentBy(who, tr, fs)]
         /\ GoodCall(SentBy(who, tr, fs)) /\ Backed(SentBy(who, tr, fs), effects)
         /\ UNCHANGED <<vars, process, effects, confirmed>>
BY StartedCall DEF Starts

LEMMA OfferStep ==
  ASSUME Inv, NEW c \in Calls, ClientSends(c) \/ AgentConnects(c)
  PROVE  Inv' /\ AbstractStep
<1>1. PICK who \in {"waiting", "agent"}, o \in Offers :
        /\ Starts(c, who, o.transport, o.frames) /\ UNCHANGED sidecar
        /\ who = "waiting" => o.peer = "client"
  BY DEF ClientSends, AgentConnects
<1>2. /\ o.transport \in Transports /\ o.frames \in Seq(Frames)
      /\ o.transport \in {"http", "udp"} => Len(o.frames) = 1
  BY CallAssumption
<1> DEFINE k == SentBy(who, o.transport, o.frames)
<1>3. /\ call' = [call EXCEPT ![c] = k] /\ GoodCall(k) /\ Backed(k, effects)
      /\ UNCHANGED <<vars, process, effects, confirmed>>
  BY <1>1, <1>2, StartsStep
<1> HIDE DEF k
<1> QED
  BY <1>1, <1>3, QuietStep

LEMMA SidecarStep ==
  ASSUME Inv, NEW c \in Calls, SidecarSends(c)
  PROVE  Inv' /\ AbstractStep
<1> DEFINE f == [event_id |-> Lines[line].event_id, defect |-> "none"]
           k == SentBy("waiting", SidecarTransport, <<f>>)
<1>1. line \in DOMAIN Lines /\ line' = line + 1 /\ current' = c
      /\ Starts(c, "waiting", SidecarTransport, <<f>>)
  BY DEF SidecarSends
<1>2. /\ effects \in [EventIds -> Nat] /\ faults \in Nat /\ line \in 1..(Len(Lines) + 1)
      /\ current \in 0..MaxCalls /\ confirmed \subseteq EventIds
  BY DEF Inv, DeliveryTypeOK
<1>3. Lines[line].event_id \in EventIds
  <2> DEFINE T == [update : Updates, hidden : BOOLEAN, event_id : EventIds]
  <2>1. Lines \in Seq(T)
    BY CallAssumption
  <2> HIDE DEF T
  <2>2. Lines[line] \in T
    BY <1>1, <2>1
  <2> QED
    BY <2>2 DEF T
<1>4. f \in Frames
  BY <1>3 DEF Frames, Defects
<1>5. <<f>> \in Seq(Frames) /\ Len(<<f>>) = 1 /\ SidecarTransport \in Transports
  BY <1>4, CallAssumption
<1>6. /\ call' = [call EXCEPT ![c] = k] /\ GoodCall(k) /\ Backed(k, effects)
      /\ UNCHANGED <<vars, process, effects, confirmed>>
  BY <1>1, <1>5, StartsStep
<1>7. line' \in 1..(Len(Lines) + 1) /\ current' \in 0..MaxCalls
  <2>1. line \in 1..Len(Lines) /\ Len(Lines) \in Nat
    BY <1>1, <1>2, CallAssumption
  <2>2. c \in 1..MaxCalls /\ MaxCalls \in Nat
    BY CallAssumption DEF Calls
  <2> QED
    BY <1>1, <2>1, <2>2
<1> HIDE DEF k
<1>8. UNCHANGED vars /\ UNCHANGED <<daemon, restarts, faults, effects, confirmed>>
  BY <1>6 DEF process
<1>9. SeenOK' /\ AbstractStep
  BY <1>8, Aside
<1>10. Inv'
  BY <1>2, <1>6, <1>7, <1>8, <1>9, CallStep
<1> QED
  BY <1>9, <1>10

LEMMA ReadStep ==
  ASSUME Inv, NEW c \in Calls, ClientReads(c) \/ AgentReads(c)
  PROVE  Inv' /\ AbstractStep
<1> DEFINE r == Head(call[c].outbox)
<1>1. GoodCall(call[c]) /\ Backed(call[c], effects) /\ call[c].outbox # <<>>
  BY DEF Inv, ClientReads, AgentReads, Readable
<1>2. r \in Reply /\ (r.accepted => effects[r.event_id] > 0)
  BY <1>1, TookReply
<1>3. r.event_id \in EventIds
  BY <1>2 DEF Reply
<1>4. PICK who \in {"ok", "failed", "agent"} : call' = [call EXCEPT ![c] = Took(call[c], who)]
  BY DEF ClientReads, AgentReads
<1>5. \/ UNCHANGED confirmed
      \/ confirmed' = confirmed \cup {r.event_id} /\ effects[r.event_id] > 0
  BY <1>2 DEF ClientReads, AgentReads, Validated
<1>6. UNCHANGED vars /\ UNCHANGED <<daemon, restarts, faults, line, current, effects>>
  BY DEF ClientReads, AgentReads, process, sidecar
<1>7. SeenOK'
  BY <1>6, Aside
<1>8. AbstractStep
  <2>1. CASE UNCHANGED confirmed
    BY <2>1, <1>6, Aside
  <2>2. CASE confirmed' = confirmed \cup {r.event_id} /\ effects[r.event_id] > 0
    BY <2>2, <1>3, <1>6, ConfirmedOK
  <2> QED
    BY <1>5, <2>1, <2>2
<1>9. GoodCall(Took(call[c], who)) /\ Backed(Took(call[c], who), effects)
  BY <1>1, TookReply
<1>10. /\ effects \in [EventIds -> Nat] /\ faults \in Nat /\ line \in 1..(Len(Lines) + 1)
       /\ current \in 0..MaxCalls /\ confirmed \subseteq EventIds
  BY DEF Inv, DeliveryTypeOK
<1>11. confirmed' \subseteq EventIds
  BY <1>3, <1>5, <1>10
<1>12. Inv'
  BY <1>4, <1>6, <1>7, <1>9, <1>10, <1>11, CallStep
<1> QED
  BY <1>8, <1>12

LEMMA LeaveStep ==
  ASSUME Inv, NEW c \in Calls, ClientFails(c) \/ AgentLeaves(c)
  PROVE  Inv' /\ AbstractStep
<1>1. PICK who \in {"failed", "gone"} : call' = [call EXCEPT ![c] = [call[c] EXCEPT !.peer = who]]
  BY DEF ClientFails, AgentLeaves
<1>2. UNCHANGED <<vars, process, sidecar, effects, confirmed>>
  BY DEF ClientFails, AgentLeaves
<1>3. /\ GoodCall([call[c] EXCEPT !.peer = who])
      /\ Backed([call[c] EXCEPT !.peer = who], effects)
  BY PeerChanges DEF Inv
<1> QED
  BY <1>1, <1>2, <1>3, QuietStep

(* The transports.                                                         *)
LEMMA AcceptStep ==
  ASSUME Inv, NEW c \in Calls, AcceptConnection(c)
  PROVE  Inv' /\ AbstractStep
<1> DEFINE k(l) == [call[c] EXCEPT !.link = l]
<1>1. PICK l \in {"open", "lost"} : call' = [call EXCEPT ![c] = k(l)]
  <2> DEFINE m == IF call[c].via = "tcp" /\ Cardinality(OpenTcp) >= MaxTcpConnections
                    THEN "lost" ELSE "open"
  <2>1. \/ call' = [call EXCEPT ![c].link = "lost"]
        \/ call' = [call EXCEPT ![c].link = m]
    BY DEF AcceptConnection
  <2>2. m \in {"open", "lost"}
    OBVIOUS
  <2> HIDE DEF m
  <2> QED
    BY <2>1, <2>2
<1>2. /\ GoodCall(call[c]) /\ Backed(call[c], effects)
      /\ call[c].link = "backlog" /\ call[c].reply = None
  BY DEF Inv, AcceptConnection, GoodCall
<1>3. GoodCall(k(l)) /\ Backed(k(l), effects)
  BY <1>2, LinkChanges
<1>4. UNCHANGED <<daemon, restarts, faults, line, current, effects, confirmed>>
  BY DEF AcceptConnection, process, sidecar
<1>5. SeenOK' /\ AbstractStep
  <2>1. CASE RecordRejection("websocket")
    BY <2>1, <1>4, RejectionOK
  <2>2. CASE UNCHANGED vars
    BY <2>2, <1>4, Aside
  <2> QED
    BY <2>1, <2>2 DEF AcceptConnection
<1>6. /\ effects \in [EventIds -> Nat] /\ faults \in Nat /\ line \in 1..(Len(Lines) + 1)
      /\ current \in 0..MaxCalls /\ confirmed \subseteq EventIds
  BY DEF Inv, DeliveryTypeOK
<1> HIDE DEF k
<1>7. Inv'
  BY <1>1, <1>3, <1>4, <1>5, <1>6, CallStep
<1> QED
  BY <1>5, <1>7

(* A frame or a datagram whose event is ingested.                          *)
LEMMA GoodStep ==
  ASSUME Inv, NEW c \in Calls, NEW i \in DOMAIN call[c].sent,
         call[c].reply = None, call[c].sent[i].defect = "none",
         \/ call[c].link = "open" /\ i = call[c].read + 1 /\ MayTake(call[c], i)
         \/ call[c].link = "datagram" /\ i = 1,
         NEW tr, Ingested(call[c].sent[i].event_id, tr),
         call' = [call EXCEPT ![c] = Answered(call[c], i, TRUE)],
         UNCHANGED <<daemon, restarts, line, current, confirmed>>, faults' \in Nat
  PROVE  Inv' /\ AbstractStep
<1> DEFINE id == call[c].sent[i].event_id
<1>1. GoodCall(call[c]) /\ Backed(call[c], effects) /\ call[c].sent \in Seq(Frames)
  BY DEF Inv, GoodCall, Call
<1>2. call[c].sent[i] \in Frames
  BY <1>1
<1>3. id \in EventIds
  BY <1>2 DEF Frames
<1>4. /\ SeenOK' /\ effects' \in [EventIds -> Nat]
      /\ \A x \in EventIds : effects[x] > 0 => effects'[x] > 0
      /\ effects'[id] > 0 /\ AbstractStep
  BY <1>3, IngestedOK
<1>5. GoodCall(Answered(call[c], i, TRUE)) /\ Backed(Answered(call[c], i, TRUE), effects')
  BY <1>1, <1>4, AnsweredFrame
<1>6. line \in 1..(Len(Lines) + 1) /\ current \in 0..MaxCalls /\ confirmed \subseteq EventIds
  BY DEF Inv, DeliveryTypeOK
<1>7. Inv'
  BY <1>4, <1>5, <1>6, CallStep
<1> QED
  BY <1>4, <1>7

(* One that is refused with an answer.                                     *)
LEMMA BadStep ==
  ASSUME Inv, NEW c \in Calls, NEW i \in DOMAIN call[c].sent, call[c].reply = None,
         \/ /\ call[c].link = "open" /\ i = call[c].read + 1 /\ MayTake(call[c], i)
            /\ call[c].sent[i].defect # "none"
         \/ call[c].link = "datagram" /\ i = 1,
         NEW tr, RecordRejection(tr),
         call' = [call EXCEPT ![c] = Answered(call[c], i, FALSE)],
         UNCHANGED <<daemon, restarts, line, current, effects, confirmed>>, faults' \in Nat
  PROVE  Inv' /\ AbstractStep
<1>1. GoodCall(call[c]) /\ Backed(call[c], effects)
  BY DEF Inv
<1>2. SeenOK' /\ AbstractStep
  BY RejectionOK
<1>3. GoodCall(Answered(call[c], i, FALSE)) /\ Backed(Answered(call[c], i, FALSE), effects)
  BY <1>1, AnsweredFrame
<1>4. /\ line \in 1..(Len(Lines) + 1) /\ current \in 0..MaxCalls /\ confirmed \subseteq EventIds
      /\ effects \in [EventIds -> Nat]
  BY DEF Inv, DeliveryTypeOK
<1>5. Inv'
  BY <1>2, <1>3, <1>4, CallStep
<1> QED
  BY <1>2, <1>5

LEMMA TakeStep ==
  ASSUME Inv, NEW c \in Calls, NEW i \in DOMAIN call[c].sent,
         TakeGood(c, i) \/ TakeBad(c, i) \/ TakeUndecodable(c, i)
  PROVE  Inv' /\ AbstractStep
<1>1. call[c].link = "open" /\ call[c].reply = None /\ i = call[c].read + 1 /\ ~Spent(c)
  BY DEF TakeGood, TakeBad, TakeUndecodable, Takes
<1>2. faults \in Nat
  BY DEF Inv, DeliveryTypeOK
<1>3. CASE TakeGood(c, i)
  <2>1. /\ call[c].sent[i].defect = "none"
        /\ Ingested(call[c].sent[i].event_id, call[c].via)
        /\ call' = [call EXCEPT ![c] = Answered(call[c], i, TRUE)]
        /\ UNCHANGED <<daemon, restarts, faults, line, current, confirmed>>
    BY <1>3 DEF TakeGood, Takes, process, sidecar
  <2>2. MayTake(call[c], i)
    BY <1>1, <2>1 DEF MayTake, Spent, Undecodable
  <2> QED
    BY <1>1, <1>2, <2>1, <2>2, GoodStep
<1>4. CASE TakeBad(c, i)
  <2>1. /\ call[c].sent[i].defect # "none"
        /\ RecordRejection(call[c].via)
        /\ call' = [call EXCEPT ![c] = Answered(call[c], i, FALSE)]
        /\ UNCHANGED <<daemon, restarts, faults, line, current, effects, confirmed>>
    BY <1>4 DEF TakeBad, Takes, process, sidecar
  <2>2. MayTake(call[c], i)
    BY <1>1, <1>4 DEF MayTake, Spent, TakeBad
  <2> QED
    BY <1>1, <1>2, <2>1, <2>2, BadStep
<1>5. CASE TakeUndecodable(c, i)
  <2>1. /\ call' = [call EXCEPT ![c] = [call[c] EXCEPT !.link = "ended"]]
        /\ UNCHANGED <<vars, process, sidecar, effects, confirmed>>
        /\ call[c].sent[i].defect \in {"oversized", "not_utf8"} /\ call[c].via = "websocket"
    BY <1>5 DEF TakeUndecodable, Takes
  <2>2. AllTaken(call[c])
    BY <1>1, <2>1 DEF AllTaken, Undecodable
  <2>3. GoodCall(call[c]) /\ Backed(call[c], effects)
    BY DEF Inv
  <2>4. /\ GoodCall([call[c] EXCEPT !.link = "ended"])
        /\ Backed([call[c] EXCEPT !.link = "ended"], effects)
    BY <1>1, <2>2, <2>3, LinkChanges
  <2> QED
    BY <2>1, <2>4, QuietStep
<1> QED
  BY <1>3, <1>4, <1>5

LEMMA WriteStep ==
  ASSUME Inv, NEW c \in Calls, WriteReply(c)
  PROVE  Inv' /\ AbstractStep
<1>1. /\ call' = [call EXCEPT ![c] = Wrote(call[c])] /\ call[c].reply # None
      /\ UNCHANGED <<vars, process, sidecar, effects, confirmed>>
  BY DEF WriteReply
<1>2. GoodCall(Wrote(call[c])) /\ Backed(Wrote(call[c]), effects)
  BY <1>1, WroteReply DEF Inv
<1> QED
  BY <1>1, <1>2, QuietStep

LEMMA EndStep ==
  ASSUME Inv, NEW c \in Calls, EndOfStream(c) \/ Cancelled(c)
  PROVE  Inv' /\ AbstractStep
<1>1. PICK l \in {"ended", "cancelled"} :
        /\ call' = [call EXCEPT ![c] = [call[c] EXCEPT !.link = l]]
        /\ l = "ended" => EndOfStream(c)
  BY DEF EndOfStream, Cancelled
<1>2. /\ call[c].link = "open" /\ call[c].reply = None
      /\ UNCHANGED <<vars, process, sidecar, effects, confirmed>>
  BY DEF EndOfStream, Cancelled
<1>3. GoodCall(call[c]) /\ Backed(call[c], effects)
  BY DEF Inv
<1>4. EndOfStream(c) => AllTaken(call[c])
  <2>1. call[c].via = "http" => Len(call[c].sent) = 1
    BY <1>3 DEF GoodCall
  <2> QED
    BY <2>1 DEF EndOfStream, Spent, AllTaken
<1>5. /\ GoodCall([call[c] EXCEPT !.link = l])
      /\ Backed([call[c] EXCEPT !.link = l], effects)
  BY <1>1, <1>2, <1>3, <1>4, LinkChanges
<1> QED
  BY <1>1, <1>2, <1>5, QuietStep

LEMMA PeerLostStep ==
  ASSUME Inv, NEW c \in Calls, PeerLost(c)
  PROVE  Inv' /\ AbstractStep
<1>1. /\ call' = [call EXCEPT ![c] = Cut(call[c])]
      /\ UNCHANGED <<vars, process, sidecar, effects, confirmed>>
  BY DEF PeerLost
<1>2. GoodCall(Cut(call[c])) /\ Backed(Cut(call[c]), effects)
  BY CutCall DEF Inv
<1> QED
  BY <1>1, <1>2, QuietStep

LEMMA AwaitStep ==
  ASSUME Inv, NEW c \in Calls, AwaitRequest(c)
  PROVE  Inv' /\ AbstractStep
<1>1. /\ call' = [call EXCEPT ![c] = [call[c] EXCEPT !.link = "awaiting"]]
      /\ call[c].link = "open" /\ call[c].read = 0
      /\ UNCHANGED <<vars, process, sidecar, effects, confirmed>>
  BY DEF AwaitRequest
<1>2. GoodCall(call[c]) /\ Backed(call[c], effects)
  BY DEF Inv
<1>3. call[c].reply = None
  <2>1. Matched(call[c]) /\ call[c].told \in Nat /\ Len(call[c].outbox) \in Nat
    BY <1>1, <1>2 DEF GoodCall, Call
  <2> QED
    BY <1>1, <2>1 DEF Matched
<1>4. /\ GoodCall([call[c] EXCEPT !.link = "awaiting"])
      /\ Backed([call[c] EXCEPT !.link = "awaiting"], effects)
  BY <1>1, <1>2, <1>3, LinkChanges
<1> QED
  BY <1>1, <1>4, QuietStep

LEMMA BrokenStep ==
  ASSUME Inv, NEW c \in Calls, RequestBroken(c)
  PROVE  Inv' /\ AbstractStep
<1>1. /\ call' = [call EXCEPT ![c] = Cut(call[c])]
      /\ UNCHANGED <<daemon, restarts, faults, line, current, effects, confirmed>>
  BY DEF RequestBroken, process, sidecar
<1>2. GoodCall(Cut(call[c])) /\ Backed(Cut(call[c]), effects)
  BY CutCall DEF Inv
<1>3. SeenOK' /\ AbstractStep
  <2>1. CASE RecordRejection("http")
    BY <2>1, <1>1, RejectionOK
  <2>2. CASE UNCHANGED vars
    BY <2>2, <1>1, Aside
  <2> QED
    BY <2>1, <2>2 DEF RequestBroken
<1>4. /\ effects \in [EventIds -> Nat] /\ faults \in Nat /\ line \in 1..(Len(Lines) + 1)
      /\ current \in 0..MaxCalls /\ confirmed \subseteq EventIds
  BY DEF Inv, DeliveryTypeOK
<1>5. Inv'
  BY <1>1, <1>2, <1>3, <1>4, CallStep
<1> QED
  BY <1>3, <1>5

LEMMA UdpStep ==
  ASSUME Inv, NEW c \in Calls, UdpIngest(c) \/ UdpRefuse(c)
  PROVE  Inv' /\ AbstractStep
<1>1. UdpArrives(c)
  BY DEF UdpIngest, UdpRefuse
<1>2. GoodCall(call[c]) /\ Backed(call[c], effects) /\ call[c].link = "datagram"
  BY <1>1 DEF Inv, UdpArrives
<1>3. call[c].via = "udp" /\ Len(call[c].sent) = 1 /\ call[c].sent \in Seq(Frames)
  BY <1>2 DEF GoodCall, Call
<1>4. call[c].reply = None /\ 1 \in DOMAIN call[c].sent
  BY <1>1, <1>3 DEF UdpArrives
<1>5. UNCHANGED <<daemon, restarts, line, current, confirmed>> /\ faults' \in Nat
  <2>1. faults \in Nat
    BY DEF Inv, DeliveryTypeOK
  <2> QED
    BY <1>1, <2>1 DEF UdpArrives, sidecar
<1>6. CASE UdpIngest(c)
  <2>1. /\ call[c].sent[1].defect = "none" /\ Ingested(call[c].sent[1].event_id, "udp")
        /\ call' = [call EXCEPT ![c] = Answered(call[c], 1, TRUE)]
    BY <1>6 DEF UdpIngest
  <2> QED
    BY <1>2, <1>4, <1>5, <2>1, GoodStep
<1>7. CASE UdpRefuse(c)
  <2>1. RecordRejection("udp") /\ UNCHANGED effects
    BY <1>7 DEF UdpRefuse
  <2>2. CASE call' = [call EXCEPT ![c] = Answered(call[c], 1, FALSE)]
    BY <1>2, <1>4, <1>5, <2>1, <2>2, BadStep
  <2>3. CASE call' = [call EXCEPT ![c] = [call[c] EXCEPT !.read = 1]]
    <3> DEFINE k == [call[c] EXCEPT !.read = 1]
    <3>1. k \in Call
      BY <1>2 DEF GoodCall, Call
    <3>2. /\ k.link = "datagram" /\ k.via = "udp" /\ k.sent = call[c].sent
          /\ k.reply = call[c].reply /\ k.outbox = call[c].outbox
      BY <1>2, <1>3 DEF GoodCall, Call
    <3>3. GoodCall(k) /\ Backed(k, effects)
      BY <1>2, <1>3, <3>1, <3>2 DEF GoodCall, Backed
    <3>4. SeenOK' /\ AbstractStep
      BY <1>5, <2>1, RejectionOK
    <3>5. /\ line \in 1..(Len(Lines) + 1) /\ current \in 0..MaxCalls
          /\ confirmed \subseteq EventIds /\ effects \in [EventIds -> Nat]
      BY DEF Inv, DeliveryTypeOK
    <3> HIDE DEF k
    <3>6. call' = [call EXCEPT ![c] = k]
      BY <2>3 DEF k
    <3>7. Inv'
      BY <1>5, <2>1, <3>3, <3>4, <3>5, <3>6, CallStep
    <3> QED
      BY <3>4, <3>7
  <2>4. \/ call' = [call EXCEPT ![c] = Answered(call[c], 1, FALSE)]
        \/ call' = [call EXCEPT ![c] = [call[c] EXCEPT !.read = 1]]
    BY <1>7 DEF UdpRefuse
  <2> QED
    BY <2>2, <2>3, <2>4
<1> QED
  BY <1>6, <1>7

(* The process.                                                            *)
LEMMA DownStep ==
  ASSUME Inv, Stopped \/ Crash
  PROVE  Inv' /\ AbstractStep
<1>1. /\ call' = Severed /\ daemon' = "down"
      /\ UNCHANGED vars /\ UNCHANGED <<restarts, line, current, effects, confirmed>>
  BY DEF Stopped, Crash, sidecar
<1>2. faults' \in Nat
  <2>1. faults \in Nat
    BY DEF Inv, DeliveryTypeOK
  <2> QED
    BY <2>1 DEF Stopped, Crash
<1>3. SeenOK' /\ AbstractStep
  BY <1>1, Aside
<1>4. ASSUME NEW c \in Calls
      PROVE  GoodCall(call'[c]) /\ Backed(call'[c], effects)
  <2>1. GoodCall(call[c]) /\ Backed(call[c], effects)
    BY DEF Inv
  <2>2. CASE call[c].link \in {"backlog", "open", "awaiting"}
    <3>1. call'[c] = Cut(call[c])
      BY <1>1, <2>2 DEF Severed
    <3> QED
      BY <2>1, <3>1, CutCall
  <2>3. CASE call[c].link \notin {"backlog", "open", "awaiting"}
    <3>1. call'[c] = [call[c] EXCEPT !.reply = None]
      BY <1>1, <2>3 DEF Severed
    <3> QED
      BY <2>1, <2>3, <3>1, ForgottenReply
  <2> QED
    BY <2>2, <2>3
<1>5. call' \in [Calls -> Call]
  <2>1. \A c \in Calls : call'[c] \in Call
    BY <1>4 DEF GoodCall
  <2>2. call' = [c \in Calls |-> call'[c]]
    BY <1>1 DEF Severed
  <2> QED
    BY <2>1, <2>2
<1> QED
  BY <1>1, <1>2, <1>3, <1>4, <1>5 DEF Inv, DeliveryTypeOK

LEMMA UpStep ==
  ASSUME Inv, Stop \/ Start
  PROVE  Inv' /\ AbstractStep
<1>1. UNCHANGED <<faults, call, line, current, effects, confirmed>>
  BY DEF Stop, Start, sidecar
<1>2. daemon' \in {"up", "stopping"} /\ restarts' \in Nat
  <2>1. restarts \in Nat
    BY DEF Inv, DeliveryTypeOK
  <2> QED
    BY <2>1 DEF Stop, Start
<1>3. CASE Stop
  <2>1. SeenOK' /\ AbstractStep
    BY <1>1, <1>3, Aside DEF Stop
  <2> QED
    BY <1>1, <1>2, <2>1 DEF Inv, DeliveryTypeOK
<1>4. CASE Start
  <2>1. seen' = EmptyCache /\ revision' = 0
    BY <1>4 DEF Start, Reset
  <2>2. Keys(seen') = {}
    BY <2>1 DEF Keys, EmptyCache
  <2>3. CacheOK(seen', EventIds, Nat, IdempotencyCap)
    BY <2>1, EmptyOK, CapacityAssumption
  <2>4. SeenOK'
    BY <2>1, <2>2, <2>3 DEF SeenOK
  <2>5. A!Forget
    <3>1. Keys(seen)' = {}
      BY <2>2 DEF Keys
    <3> QED
      BY <1>1, <3>1 DEF A!Forget
  <2>6. AbstractStep
    BY <2>5 DEF AbstractStep, A!Next
  <2> QED
    BY <1>1, <1>2, <2>4, <2>6 DEF Inv, DeliveryTypeOK
<1> QED
  BY <1>3, <1>4

-----------------------------------------------------------------------------
(* Theorems.                                                               *)

LEMMA InvInit ==
  ASSUME DeliveryInit
  PROVE  Inv /\ A!Init
<1>1. seen = EmptyCache /\ revision = 0 /\ effects = [id \in EventIds |-> 0] /\ confirmed = {}
  BY DEF DeliveryInit, Init
<1>2. Keys(seen) = {} /\ CacheOK(seen, EventIds, Nat, IdempotencyCap)
  <2>1. Keys(seen) = {}
    BY <1>1 DEF Keys, EmptyCache
  <2> QED
    BY <2>1, <1>1, EmptyOK, CapacityAssumption
<1> DEFINE k == Unanswered("new", None, <<>>, "none")
<1>3. /\ k \in Call /\ k.reply = None /\ k.outbox = <<>> /\ k.link = "none" /\ k.via = None
  <2>1. <<>> \in Seq(Reply) /\ <<>> \in Seq(Frames)
    OBVIOUS
  <2> QED
    BY <2>1 DEF Unanswered, Call
<1>4. None \notin {"http", "udp"}
  BY NoneAssumption, CallAssumption DEF Streams
<1>5. GoodCall(k) /\ Backed(k, effects)
  BY <1>3, <1>4 DEF GoodCall, Backed
<1>6. call = [c \in Calls |-> k]
  BY DEF DeliveryInit
<1> HIDE DEF k
<1>7. call \in [Calls -> Call] /\ \A c \in Calls : GoodCall(call[c]) /\ Backed(call[c], effects)
  BY <1>3, <1>5, <1>6
<1>8. line \in 1..(Len(Lines) + 1) /\ current \in 0..MaxCalls
  <2>1. Len(Lines) \in Nat /\ MaxCalls \in Nat
    BY CallAssumption
  <2> QED
    BY <2>1 DEF DeliveryInit
<1>9. DeliveryTypeOK
  BY <1>1, <1>7, <1>8 DEF DeliveryInit, DeliveryTypeOK
<1> QED
  BY <1>1, <1>2, <1>7, <1>9 DEF Inv, SeenOK, A!Init

LEMMA InvNext ==
  ASSUME Inv, [DeliveryNext]_dvars
  PROVE  Inv' /\ AbstractStep
<1>1. ASSUME NEW c \in Calls, Handler(c) PROVE Inv' /\ AbstractStep
  BY <1>1, TakeStep, WriteStep, EndStep, PeerLostStep, AwaitStep, BrokenStep DEF Handler
<1>2. CASE UNCHANGED dvars
  <2>1. /\ UNCHANGED vars
        /\ UNCHANGED <<daemon, restarts, faults, call, line, current, effects, confirmed>>
    BY <1>2 DEF dvars, process, sidecar
  <2>2. SeenOK' /\ AbstractStep
    BY <2>1, Aside
  <2> QED
    BY <2>1, <2>2 DEF Inv, DeliveryTypeOK
<1>3. ASSUME NEW c \in Calls,
             \/ ClientSends(c) \/ AgentConnects(c) \/ SidecarSends(c)
             \/ ClientReads(c) \/ ClientFails(c) \/ AgentReads(c) \/ AgentLeaves(c)
             \/ AcceptConnection(c) \/ UdpIngest(c) \/ UdpRefuse(c)
      PROVE  Inv' /\ AbstractStep
  BY <1>3, OfferStep, SidecarStep, ReadStep, LeaveStep, AcceptStep, UdpStep
<1>4. CASE Stop \/ Stopped \/ Crash \/ Start
  BY <1>4, UpStep, DownStep
<1> QED
  BY <1>1, <1>2, <1>3, <1>4 DEF DeliveryNext

(* Type correctness of the delivery.                                       *)
THEOREM DeliveryTypes == DeliverySpec => []DeliveryTypeOK
<1>1. DeliveryInit => Inv
  BY InvInit
<1>2. Inv /\ [DeliveryNext]_dvars => Inv'
  BY InvNext
<1>3. Inv => DeliveryTypeOK
  BY DEF Inv
<1> QED
  BY <1>1, <1>2, <1>3, PTL DEF DeliverySpec

(* The replies of a connection are those to the frames its handler took,   *)
(* one each and in order, and only an error of the decoder makes a handler *)
(* that returns by itself leave frames, for any number of agents, frames   *)
(* and faults, and across shutdown.                                        *)
THEOREM OneReplyPerFrame == DeliverySpec => []RepliesMatchFrames
<1>1. DeliveryInit => Inv
  BY InvInit
<1>2. Inv /\ [DeliveryNext]_dvars => Inv'
  BY InvNext
<1>3. Inv => RepliesMatchFrames
  <2> SUFFICES ASSUME Inv, NEW c \in Calls,
                      call[c].link \in {"open", "awaiting", "ended", "cancelled"}
               PROVE  LET k == call[c]
                      IN  /\ k.read = k.told + Len(k.outbox) + (IF k.reply = None THEN 0 ELSE 1)
                          /\ k.link # "open" => k.reply = None
                          /\ \A i \in DOMAIN k.outbox :
                               /\ k.outbox[i].frame = k.told + i
                               /\ k.outbox[i].accepted <=> k.sent[k.told + i].defect = "none"
                          /\ NoneAfter(k)
                          /\ k.link = "ended" => AllTaken(k)
    BY DEF RepliesMatchFrames
  <2>1. Matched(call[c]) /\ call[c].outbox \in Seq(Reply)
    BY DEF Inv, GoodCall, Call
  <2>2. DOMAIN call[c].outbox = 1..Len(call[c].outbox)
    BY <2>1
  <2> QED
    BY <2>1, <2>2 DEF Matched, Matches
<1> QED
  BY <1>1, <1>2, <1>3, PTL DEF DeliverySpec

(* The daemon with its four transports, its clients and the sidecar        *)
(* implements at-most-once delivery within the idempotency window: this is *)
(* the refinement of AtMostOnce, for any window and any faults.            *)
THEOREM DeliveryImplements == DeliverySpec => Implements
<1>1. DeliveryInit => Inv /\ A!Init
  BY InvInit
<1>2. Inv /\ [DeliveryNext]_dvars => Inv'
  BY InvNext
<1>3. Inv /\ [DeliveryNext]_dvars => [A!Next]_<<Keys(seen), effects, confirmed>>
  BY InvNext DEF AbstractStep
<1> QED
  BY <1>1, <1>2, <1>3, PTL DEF DeliverySpec, Implements, A!Spec

-----------------------------------------------------------------------------
(* The order of the sidecar's events.                                      *)

(* What a step that starts no call may do to one.                          *)
Continues(k, t, done) ==
  /\ t.sent = k.sent
  /\ k.peer # "new" => t.peer # "new"
  /\ t.peer = "ok" => k.peer = "ok" \/ k.sent[1].event_id \in done

(* An event takes effect only when a frame of some call carries it.        *)
Carried(id) ==
  \E c \in Calls : \E n \in DOMAIN call[c].sent : call[c].sent[n].event_id = id

(* An id whose turn has come stays so.                                     *)
LEMMA StaysTold ==
  ASSUME confirmed \subseteq confirmed', NEW id, Told(id)
  PROVE  Told(id)'
BY DEF Told

(* A step that starts no call keeps the order.                             *)
LEMMA SidecarKept ==
  ASSUME SidecarInv, UNCHANGED sidecar, confirmed \subseteq confirmed',
         \A c \in Calls : Continues(call[c], call'[c], confirmed'),
         \A id \in EventIds : effects'[id] > 0 => effects[id] > 0 \/ Carried(id)
  PROVE  SidecarInv'
<1>1. \A c \in Calls : call'[c].peer = "ok" => call'[c].sent[1].event_id \in confirmed'
  BY DEF SidecarInv, Continues
<1>2. line' > 1 => /\ current' \in Calls /\ call'[current'].peer # "new"
                   /\ call'[current'].sent[1].event_id = Lines[line' - 1].event_id
  BY DEF SidecarInv, Continues, sidecar
<1>3. ASSUME NEW c \in Calls, NEW n \in DOMAIN call'[c].sent
      PROVE  Told(call[c].sent[n].event_id)'
  <2>1. call'[c].sent = call[c].sent
    BY DEF Continues
  <2> DEFINE id == call[c].sent[n].event_id
  <2>2. PICK x : x = id
    OBVIOUS
  <2>3. Told(x)
    BY <2>1, <2>2, <1>3 DEF SidecarInv
  <2>4. Told(x)'
    BY <2>3, StaysTold
  <2>5. x = id'
    BY <2>1, <2>2
  <2> QED
    BY <2>4, <2>5 DEF Told
<1>4. ASSUME NEW id \in EventIds, effects'[id] > 0
      PROVE  Told(id)'
  <2>1. Told(id)
    BY <1>4 DEF SidecarInv, Carried
  <2> QED
    BY <2>1, StaysTold
<1> QED
  BY <1>1, <1>2, <1>3, <1>4 DEF SidecarInv

(* A step of one call that sends nothing, and leaves the sidecar alone.    *)
LEMMA OneContinues ==
  ASSUME Inv, SidecarInv, NEW c \in Calls, NEW k, call' = [call EXCEPT ![c] = k],
         Continues(call[c], k, confirmed'), UNCHANGED sidecar, confirmed \subseteq confirmed',
         \A id \in EventIds : effects'[id] > 0 => effects[id] > 0 \/ Carried(id)
  PROVE  SidecarInv'
<1>1. call'[c] = k /\ \A d \in Calls \ {c} : call'[d] = call[d]
  BY DEF Inv, DeliveryTypeOK
<1>2. \A d \in Calls : Continues(call[d], call'[d], confirmed')
  BY <1>1 DEF Continues
<1> QED
  BY <1>2, SidecarKept

(* A call that starts, with the frames fs.                                 *)
LEMMA StartsInOrder ==
  ASSUME Inv, SidecarInv, NEW c \in Calls, NEW who \in {"waiting", "agent"}, NEW tr, NEW fs,
         Starts(c, who, tr, fs), \A n \in DOMAIN fs : Told(fs[n].event_id),
         \/ UNCHANGED sidecar
         \/ /\ current' = c /\ line' = line + 1
            /\ fs[1].event_id = Lines[line].event_id
  PROVE  SidecarInv'
<1> DEFINE k == SentBy(who, tr, fs)
<1>1. k.sent = fs /\ k.peer \in {"waiting", "agent", "failed"}
  BY DEF SentBy, Unanswered
<1>2. /\ call[c].peer = "new" /\ call' = [call EXCEPT ![c] = k]
      /\ UNCHANGED <<effects, confirmed>>
  BY DEF Starts
<1> HIDE DEF k
<1>3. call'[c] = k /\ \A d \in Calls \ {c} : call'[d] = call[d]
  BY <1>2 DEF Inv, DeliveryTypeOK
<1>4. \A d \in Calls : call'[d].peer = "ok" => call'[d].sent[1].event_id \in confirmed'
  BY <1>1, <1>2, <1>3 DEF SidecarInv
<1>5. line' > 1 => /\ current' \in Calls /\ call'[current'].peer # "new"
                   /\ call'[current'].sent[1].event_id = Lines[line' - 1].event_id
  <2>1. CASE UNCHANGED sidecar
    <3>1. line' = line /\ current' = current
      BY <2>1 DEF sidecar
    <3>2. line > 1 => current \in Calls \ {c}
      BY <1>2 DEF SidecarInv
    <3> QED
      BY <1>3, <3>1, <3>2 DEF SidecarInv
  <2>2. CASE /\ current' = c /\ line' = line + 1
             /\ fs[1].event_id = Lines[line].event_id
    <3>1. line' - 1 = line
      BY <2>2 DEF Inv, DeliveryTypeOK
    <3> QED
      BY <1>1, <1>3, <2>2, <3>1
  <2> QED
    BY <2>1, <2>2
<1>6. \A id : Told(id) => Told(id)'
  BY <1>2 DEF Told
<1>7. ASSUME NEW d \in Calls, NEW n \in DOMAIN call'[d].sent
      PROVE  Told(call[d].sent[n].event_id)'
  <2>1. PICK x : x = call'[d].sent[n].event_id
    OBVIOUS
  <2>2. Told(x)
    BY <1>1, <1>3, <1>7, <2>1 DEF SidecarInv
  <2> QED
    BY <1>6, <2>1, <2>2 DEF Told
<1>8. \A id \in EventIds : effects'[id] > 0 => Told(id)'
  BY <1>2, <1>6 DEF SidecarInv
<1> QED
  BY <1>4, <1>5, <1>7, <1>8 DEF SidecarInv

(* What others send is not in the sidecar's input.                         *)
LEMMA OfferInOrder ==
  ASSUME Inv, SidecarInv, NEW c \in Calls, ClientSends(c) \/ AgentConnects(c)
  PROVE  SidecarInv'
<1>1. PICK who \in {"waiting", "agent"}, o \in Offers :
        Starts(c, who, o.transport, o.frames) /\ UNCHANGED sidecar
  BY DEF ClientSends, AgentConnects
<1>2. \A n \in DOMAIN o.frames : Told(o.frames[n].event_id)
  BY FreshAssumption DEF Told
<1> QED
  BY <1>1, <1>2, StartsInOrder

(* The sidecar's next line: the call before it ended well, so the line     *)
(* before it is confirmed.                                                 *)
LEMMA SidecarInTurn ==
  ASSUME Inv, SidecarInv, NEW c \in Calls, SidecarSends(c)
  PROVE  SidecarInv'
<1> DEFINE f == [event_id |-> Lines[line].event_id, defect |-> "none"]
<1>1. /\ line \in DOMAIN Lines /\ Ready /\ line' = line + 1 /\ current' = c
      /\ Starts(c, "waiting", SidecarTransport, <<f>>)
  BY DEF SidecarSends
<1>2. Told(Lines[line].event_id)
  <2> SUFFICES ASSUME NEW i \in DOMAIN Lines, i > 1, Lines[i].event_id = Lines[line].event_id
               PROVE  Lines[i - 1].event_id \in confirmed
    BY DEF Told
  <2>1. i = line
    BY <1>1, FreshAssumption
  <2>2. call[current].peer = "ok" /\ current \in Calls
    BY <1>1, <2>1 DEF Ready, SidecarInv
  <2> QED
    BY <2>1, <2>2 DEF SidecarInv
<1>3. f.event_id = Lines[line].event_id
  OBVIOUS
<1> HIDE DEF f
<1>4. \A n \in DOMAIN <<f>> : Told(<<f>>[n].event_id)
  <2>1. DOMAIN <<f>> = {1} /\ <<f>>[1] = f
    OBVIOUS
  <2> QED
    BY <2>1, <1>2, <1>3
<1>5. <<f>>[1].event_id = Lines[line].event_id
  BY <1>3
<1> QED
  BY <1>1, <1>4, <1>5, StartsInOrder

(* Everything else.                                                        *)
LEMMA ReadInOrder ==
  ASSUME Inv, SidecarInv, NEW c \in Calls, ClientReads(c) \/ AgentReads(c)
  PROVE  SidecarInv'
<1>1. call[c] \in Call
  BY DEF Inv, DeliveryTypeOK
<1>2. PICK who \in {"ok", "failed", "agent"} :
        /\ call' = [call EXCEPT ![c] = Took(call[c], who)]
        /\ who = "ok" => call[c].sent[1].event_id \in confirmed'
  BY DEF ClientReads, AgentReads
<1>3. UNCHANGED <<sidecar, effects>> /\ confirmed \subseteq confirmed'
  BY DEF ClientReads, AgentReads
<1>4. Took(call[c], who).sent = call[c].sent /\ Took(call[c], who).peer = who
  BY <1>1 DEF Took, Call
<1>5. Continues(call[c], Took(call[c], who), confirmed')
  BY <1>2, <1>4 DEF Continues
<1> QED
  BY <1>2, <1>3, <1>5, OneContinues

LEMMA LeaveInOrder ==
  ASSUME Inv, SidecarInv, NEW c \in Calls, ClientFails(c) \/ AgentLeaves(c)
  PROVE  SidecarInv'
<1>1. PICK who \in {"failed", "gone"} :
        call' = [call EXCEPT ![c] = [call[c] EXCEPT !.peer = who]]
  BY DEF ClientFails, AgentLeaves
<1>2. UNCHANGED <<sidecar, effects, confirmed>>
  BY DEF ClientFails, AgentLeaves
<1>3. Continues(call[c], [call[c] EXCEPT !.peer = who], confirmed')
  BY DEF Continues, Inv, DeliveryTypeOK, Call
<1> QED
  BY <1>1, <1>2, <1>3, OneContinues

(* A handler's step changes neither the peer nor what it sent.             *)
LEMMA SameSender ==
  ASSUME Inv, SidecarInv, NEW c \in Calls, NEW k, call' = [call EXCEPT ![c] = k],
         k.peer = call[c].peer, k.sent = call[c].sent, UNCHANGED <<sidecar, confirmed>>,
         \A id \in EventIds : effects'[id] > 0 => effects[id] > 0 \/ Carried(id)
  PROVE  SidecarInv'
<1>1. Continues(call[c], k, confirmed')
  BY DEF Continues
<1> QED
  BY <1>1, OneContinues

LEMMA AcceptInOrder ==
  ASSUME Inv, SidecarInv, NEW c \in Calls, AcceptConnection(c)
  PROVE  SidecarInv'
<1>1. PICK l : call' = [call EXCEPT ![c] = [call[c] EXCEPT !.link = l]]
  BY DEF AcceptConnection
<1>2. UNCHANGED <<sidecar, effects, confirmed>>
  BY DEF AcceptConnection
<1> DEFINE k == [call[c] EXCEPT !.link = l]
<1>3. k.peer = call[c].peer /\ k.sent = call[c].sent
  BY DEF Inv, DeliveryTypeOK, Call
<1> HIDE DEF k
<1> QED
  BY <1>1, <1>2, <1>3, SameSender DEF k

(* The event that takes effect is one the call carries.                    *)
LEMMA IngestedIsCarried ==
  ASSUME Inv, NEW c \in Calls, NEW i \in DOMAIN call[c].sent, NEW tr,
         Ingested(call[c].sent[i].event_id, tr)
  PROVE  \A id \in EventIds : effects'[id] > 0 => effects[id] > 0 \/ Carried(id)
<1>1. effects \in [EventIds -> Nat]
  BY DEF Inv, DeliveryTypeOK
<1>2. Carried(call[c].sent[i].event_id)
  BY DEF Carried
<1>3. PICK x : x = call[c].sent[i].event_id
  OBVIOUS
<1>4. effects' = effects \/ effects' = [effects EXCEPT ![x] = @ + 1]
  BY <1>3 DEF Ingested
<1> QED
  BY <1>1, <1>2, <1>3, <1>4

LEMMA HandlerInOrder ==
  ASSUME Inv, SidecarInv, NEW c \in Calls, Handler(c)
  PROVE  SidecarInv'
<1>1. call[c] \in Call
  BY DEF Inv, DeliveryTypeOK
<1>2. ASSUME NEW i \in DOMAIN call[c].sent, TakeGood(c, i)
      PROVE  SidecarInv'
  <2> DEFINE k == Answered(call[c], i, TRUE)
  <2>1. k.peer = call[c].peer /\ k.sent = call[c].sent
    BY <1>1 DEF Answered, Call
  <2>2. /\ call' = [call EXCEPT ![c] = k] /\ UNCHANGED <<sidecar, confirmed>>
        /\ Ingested(call[c].sent[i].event_id, call[c].via)
    BY <1>2 DEF TakeGood
  <2>3. \A id \in EventIds : effects'[id] > 0 => effects[id] > 0 \/ Carried(id)
    BY <2>2, IngestedIsCarried
  <2> HIDE DEF k
  <2> QED
    BY <2>1, <2>2, <2>3, SameSender
<1>3. ASSUME NEW i \in DOMAIN call[c].sent, TakeBad(c, i)
      PROVE  SidecarInv'
  <2> DEFINE k == Answered(call[c], i, FALSE)
  <2>1. k.peer = call[c].peer /\ k.sent = call[c].sent
    BY <1>1 DEF Answered, Call
  <2>2. /\ call' = [call EXCEPT ![c] = k] /\ UNCHANGED <<sidecar, effects, confirmed>>
    BY <1>3 DEF TakeBad
  <2> HIDE DEF k
  <2> QED
    BY <2>1, <2>2, SameSender
<1>4. ASSUME NEW l, call' = [call EXCEPT ![c] = [call[c] EXCEPT !.link = l]],
             UNCHANGED <<sidecar, effects, confirmed>>
      PROVE  SidecarInv'
  <2> DEFINE k == [call[c] EXCEPT !.link = l]
  <2>1. k.peer = call[c].peer /\ k.sent = call[c].sent
    BY <1>1 DEF Call
  <2>2. call' = [call EXCEPT ![c] = k]
    BY <1>4
  <2> HIDE DEF k
  <2> QED
    BY <1>4, <2>1, <2>2, SameSender
<1>5. ASSUME NEW i \in DOMAIN call[c].sent, TakeUndecodable(c, i)
      PROVE  SidecarInv'
  <2>1. /\ call' = [call EXCEPT ![c] = [call[c] EXCEPT !.link = "ended"]]
        /\ UNCHANGED <<sidecar, effects, confirmed>>
    BY <1>5 DEF TakeUndecodable
  <2> QED
    BY <1>4, <2>1
<1>6. CASE EndOfStream(c) \/ AwaitRequest(c) \/ Cancelled(c)
  <2>1. PICK l : call' = [call EXCEPT ![c] = [call[c] EXCEPT !.link = l]]
    BY <1>6 DEF EndOfStream, AwaitRequest, Cancelled
  <2>2. UNCHANGED <<sidecar, effects, confirmed>>
    BY <1>6 DEF EndOfStream, AwaitRequest, Cancelled
  <2> QED
    BY <1>4, <2>1, <2>2
<1>7. CASE WriteReply(c)
  <2> DEFINE k == Wrote(call[c])
  <2>1. k.peer = call[c].peer /\ k.sent = call[c].sent
    BY <1>1 DEF Wrote, Call
  <2>2. call' = [call EXCEPT ![c] = k] /\ UNCHANGED <<sidecar, effects, confirmed>>
    BY <1>7 DEF WriteReply
  <2> HIDE DEF k
  <2> QED
    BY <2>1, <2>2, SameSender
<1>8. CASE PeerLost(c) \/ RequestBroken(c)
  <2> DEFINE k == Cut(call[c])
  <2>1. k.peer = call[c].peer /\ k.sent = call[c].sent
    BY <1>1 DEF Cut, Call
  <2>2. call' = [call EXCEPT ![c] = k] /\ UNCHANGED <<sidecar, effects, confirmed>>
    BY <1>8 DEF PeerLost, RequestBroken
  <2> HIDE DEF k
  <2> QED
    BY <2>1, <2>2, SameSender
<1> QED
  BY <1>2, <1>3, <1>5, <1>6, <1>7, <1>8 DEF Handler

LEMMA UdpInOrder ==
  ASSUME Inv, SidecarInv, NEW c \in Calls, UdpIngest(c) \/ UdpRefuse(c)
  PROVE  SidecarInv'
<1>1. call[c] \in Call /\ UNCHANGED <<sidecar, confirmed>>
  BY DEF Inv, DeliveryTypeOK, UdpIngest, UdpRefuse, UdpArrives
<1>2. CASE UdpIngest(c)
  <2> DEFINE k == Answered(call[c], 1, TRUE)
  <2>1. k.peer = call[c].peer /\ k.sent = call[c].sent
    BY <1>1 DEF Answered, Call
  <2>2. /\ call' = [call EXCEPT ![c] = k] /\ call[c].link = "datagram"
        /\ Ingested(call[c].sent[1].event_id, "udp")
    BY <1>2 DEF UdpIngest, UdpArrives
  <2>3. 1 \in DOMAIN call[c].sent
    <3>1. GoodCall(call[c]) /\ call[c].sent \in Seq(Frames)
      BY <1>1 DEF Inv, Call
    <3>2. Len(call[c].sent) = 1
      BY <2>2, <3>1 DEF GoodCall
    <3> QED
      BY <3>1, <3>2
  <2>4. \A id \in EventIds : effects'[id] > 0 => effects[id] > 0 \/ Carried(id)
    BY <2>2, <2>3, IngestedIsCarried
  <2> HIDE DEF k
  <2> QED
    BY <1>1, <2>1, <2>2, <2>4, SameSender
<1>3. CASE UdpRefuse(c)
  <2>1. PICK k : /\ k.peer = call[c].peer /\ k.sent = call[c].sent
                 /\ call' = [call EXCEPT ![c] = k]
    <3> DEFINE s == [call[c] EXCEPT !.read = 1]
               t == Answered(call[c], 1, FALSE)
    <3>1. call' = [call EXCEPT ![c] = s] \/ call' = [call EXCEPT ![c] = t]
      BY <1>3 DEF UdpRefuse
    <3>2. /\ s.peer = call[c].peer /\ s.sent = call[c].sent
          /\ t.peer = call[c].peer /\ t.sent = call[c].sent
      BY <1>1 DEF Answered, Call
    <3> HIDE DEF s, t
    <3> QED
      BY <3>1, <3>2
  <2>2. UNCHANGED effects
    BY <1>3 DEF UdpRefuse
  <2> QED
    BY <1>1, <2>1, <2>2, SameSender
<1> QED
  BY <1>2, <1>3

(* The process takes the links with it, not what was sent.                 *)
LEMMA ProcessInOrder ==
  ASSUME Inv, SidecarInv, Stop \/ Stopped \/ Crash \/ Start
  PROVE  SidecarInv'
<1>1. UNCHANGED <<sidecar, effects, confirmed>>
  BY DEF Stop, Stopped, Crash, Start
<1>2. ASSUME NEW c \in Calls
      PROVE  Continues(call[c], call'[c], confirmed')
  <2>1. CASE UNCHANGED call
    BY <2>1 DEF Continues
  <2>2. CASE call' = Severed
    <3>1. call'[c] = Cut(call[c]) \/ call'[c] = [call[c] EXCEPT !.reply = None]
      BY <2>2 DEF Severed
    <3>2. call[c] \in Call
      BY DEF Inv, DeliveryTypeOK
    <3>3. call'[c].sent = call[c].sent /\ call'[c].peer = call[c].peer
      BY <3>1, <3>2 DEF Cut, Call
    <3> QED
      BY <3>3 DEF Continues
  <2> QED
    BY <2>1, <2>2 DEF Stop, Stopped, Crash, Start
<1> QED
  BY <1>1, <1>2, SidecarKept

LEMMA SidecarInit ==
  ASSUME DeliveryInit
  PROVE  SidecarInv
<1>1. \A c \in Calls : call[c].peer = "new" /\ call[c].sent = <<>>
  BY DEF DeliveryInit, Unanswered
<1>2. line = 1 /\ \A id \in EventIds : effects[id] = 0
  BY DEF DeliveryInit
<1> QED
  BY <1>1, <1>2 DEF SidecarInv

LEMMA SidecarNext ==
  ASSUME Inv, SidecarInv, [DeliveryNext]_dvars
  PROVE  SidecarInv'
<1>1. CASE UNCHANGED dvars
  <2>1. UNCHANGED <<sidecar, call, effects, confirmed>>
    BY <1>1 DEF dvars
  <2> QED
    BY <2>1, SidecarKept DEF Continues
<1>2. ASSUME NEW c \in Calls,
             \/ ClientSends(c) \/ AgentConnects(c) \/ SidecarSends(c)
             \/ ClientReads(c) \/ ClientFails(c) \/ AgentReads(c) \/ AgentLeaves(c)
             \/ AcceptConnection(c) \/ Handler(c) \/ UdpIngest(c) \/ UdpRefuse(c)
      PROVE  SidecarInv'
  BY <1>2, OfferInOrder, SidecarInTurn, ReadInOrder, LeaveInOrder, AcceptInOrder,
     HandlerInOrder, UdpInOrder
<1> QED
  BY <1>1, <1>2, ProcessInOrder DEF DeliveryNext

(* The sidecar's events take effect in the order of its input lines, for   *)
(* any input, transport, faults and restarts.                              *)
THEOREM SidecarKeepsOrder == DeliverySpec => []SidecarInOrder
<1>1. DeliveryInit => Inv /\ SidecarInv
  BY InvInit, SidecarInit
<1>2. Inv /\ SidecarInv /\ [DeliveryNext]_dvars => (Inv /\ SidecarInv)'
  BY InvNext, SidecarNext
<1>3. SidecarInv => SidecarInOrder
  <2> SUFFICES ASSUME SidecarInv, NEW i \in DOMAIN Lines, i > 1,
                      effects[Lines[i].event_id] > 0
               PROVE  Lines[i - 1].event_id \in confirmed
    BY DEF SidecarInOrder
  <2>1. Lines[i].event_id \in EventIds
    <3> DEFINE T == [update : Updates, hidden : BOOLEAN, event_id : EventIds]
    <3>1. Lines \in Seq(T)
      BY CallAssumption
    <3> HIDE DEF T
    <3>2. Lines[i] \in T
      BY <3>1
    <3> QED
      BY <3>2 DEF T
  <2> QED
    BY <2>1 DEF SidecarInv, Told
<1> QED
  BY <1>1, <1>2, <1>3, PTL DEF DeliverySpec
=============================================================================
