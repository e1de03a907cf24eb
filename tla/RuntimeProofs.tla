--------------------------- MODULE RuntimeProofs ---------------------------
(***************************************************************************)
(* Theorems about RuntimeMonitor, for every set of agents, hooks and       *)
(* processes, every capacity and any number of hooks, commands and         *)
(* samples.                                                                *)
(*                                                                         *)
(* The inductive invariant has a part for the hooks (HookInv), one for the *)
(* token totals (TokenInv), one for the commands (CommandInv) and one for  *)
(* the samples (SampleInv); the commands read only the hook agents, and    *)
(* the samples read none of the others.                                    *)
(***************************************************************************)
EXTENDS RuntimeMonitor, SequenceTheorems, FiniteSetTheorems, TLAPS

HookRecord == [id : HookIds, agent : Agents, at : Times, kind : HookKinds]
Command == [id : Nat, agent : Agents, status : {"pending", "acknowledged", "rejected"}]

(* The retained hooks of agent a that carry its latest time and set a      *)
(* status.                                                                 *)
Latest(a) ==
  {i \in 1..Len(hooks) : /\ hooks[i].agent = a
                         /\ hooks[i].at = hook_agents[a].last_hook_at
                         /\ SetsStatus(hooks[i].kind)}

(* What agent a shows agrees with the hooks that are retained of it.       *)
Shown(a) ==
  /\ \A i \in 1..Len(hooks) :
       hooks[i].agent = a => hooks[i].at <= hook_agents[a].last_hook_at
  /\ \A i \in Latest(a) : (\A j \in Latest(a) : i <= j) =>
       hook_agents[a].status = StatusOf(hooks[i].kind)
  /\ hook_agents[a].status = "idle" => hook_agents[a].tool = None

HookInv ==
  /\ hooks \in Seq(HookRecord) /\ Len(hooks) <= HookCap
  /\ DOMAIN hook_agents \subseteq Agents
  /\ \A a \in DOMAIN hook_agents : hook_agents[a] \in HookAgent
  /\ accepted \in Nat
  /\ \A i \in 1..Len(hooks) : hooks[i].agent \in DOMAIN hook_agents
  /\ \A i, j \in 1..Len(hooks) : hooks[i].id = hooks[j].id => i = j
  /\ \A a \in DOMAIN hook_agents : Shown(a)

CommandInv ==
  /\ commands \in Seq(Command) /\ Len(commands) <= CommandCap
  /\ issued \in Nat
  /\ ControlOnlyCapable

(* Tick counters, and what the collector holds at each place it waits.     *)
TicksOf(t) == DOMAIN t \subseteq Pids /\ \A p \in DOMAIN t : t[p] \in Nat
SampleInv ==
  /\ host.total \in Nat /\ TicksOf(host.ticks)
  /\ previous.total \in Nat \cup {None} /\ TicksOf(previous.ticks)
  /\ DOMAIN processes = DOMAIN previous.ticks
  /\ enabled \in BOOLEAN /\ last_error \in BOOLEAN
  /\ collector.at \in {"idle", "walking", "read"}
  /\ collector.at \in {"walking", "read"} => collector.total \in Nat
  /\ collector.at = "read" => TicksOf(collector.ticks)
  /\ CpuShareSane
  /\ enabled => late = 0
  /\ ~enabled => late = 0 \/ (late = 1 /\ collector.at = "idle")

(* The tokens of every set of agents, as a function that is additive: each *)
(* agent's own tokens can be split off, in any order.                      *)
Totals(g) ==
  /\ g \in [SUBSET DOMAIN hook_agents -> Nat]
  /\ g[{}] = 0
  /\ \A s \in SUBSET DOMAIN hook_agents : \A a \in s :
       g[s] = hook_agents[a].tokens + g[s \ {a}]

(* One token for every accepted hook.                                      *)
TokenInv ==
  /\ IsFiniteSet(DOMAIN hook_agents)
  /\ \E g : Totals(g) /\ g[DOMAIN hook_agents] = accepted

Inv == HookInv /\ TokenInv /\ CommandInv /\ SampleInv

-----------------------------------------------------------------------------
(* Windows.                                                                *)

(* Window t is window s behind x, at most cap long.                        *)
Window(S, s, x, cap, t) ==
  /\ t \in Seq(S) /\ Len(t) \in Nat \ {0} /\ Len(t) <= cap
  /\ t[1] = x
  /\ \A i \in 2..Len(t) : i - 1 \in 1..Len(s) /\ t[i] = s[i - 1]

LEMMA PushedFacts ==
  ASSUME NEW S, NEW s \in Seq(S), NEW x \in S, NEW cap \in Nat \ {0}, Len(s) <= cap
  PROVE  Window(S, s, x, cap, Pushed(s, x, cap))
<1> DEFINE t == <<x>> \o s
           n == IF Len(s) < cap THEN Len(s) + 1 ELSE cap
<1>1. Len(s) \in Nat /\ <<x>> \in Seq(S) /\ Len(<<x>>) = 1 /\ <<x>>[1] = x
  OBVIOUS
<1>2. /\ t \in Seq(S) /\ Len(t) = Len(s) + 1
      /\ \A i \in 1..Len(s) + 1 : t[i] = IF i <= 1 THEN x ELSE s[i - 1]
  <2>1. /\ t \in Seq(S) /\ Len(t) = 1 + Len(s)
        /\ \A i \in 1..1 + Len(s) : t[i] = IF i <= 1 THEN <<x>>[i] ELSE s[i - 1]
    BY <1>1, ConcatProperties
  <2> QED
    BY <1>1, <2>1
<1>3. n \in Nat \ {0} /\ n <= cap /\ n <= Len(s) + 1
  BY <1>1
<1> HIDE DEF t, n
<1>4. \A i \in 1..n : t[i] \in S
  BY <1>1, <1>2, <1>3
<1>5. /\ SubSeq(t, 1, n) \in Seq(S) /\ Len(SubSeq(t, 1, n)) = n
      /\ \A i \in 1..n : SubSeq(t, 1, n)[i] = t[i]
  <2>1. /\ SubSeq(t, 1, n) \in Seq(S)
        /\ Len(SubSeq(t, 1, n)) = IF 1 <= n THEN n - 1 + 1 ELSE 0
        /\ \A i \in 1..n - 1 + 1 : SubSeq(t, 1, n)[i] = t[1 + i - 1]
    BY <1>3, <1>4, SubSeqProperties
  <2>2. n - 1 + 1 = n /\ \A i \in 1..n : 1 + i - 1 = i
    BY <1>3
  <2> QED
    BY <1>3, <2>1, <2>2
<1>6. Pushed(s, x, cap) = SubSeq(t, 1, n)
  BY DEF Pushed, t, n
<1> DEFINE u == SubSeq(t, 1, n)
<1>7. u \in Seq(S) /\ Len(u) = n /\ \A i \in 1..n : u[i] = t[i]
  BY <1>5
<1> HIDE DEF u
<1>8. Window(S, s, x, cap, u)
  BY <1>1, <1>2, <1>3, <1>7 DEF Window
<1> QED
  BY <1>6, <1>8 DEF u

-----------------------------------------------------------------------------
(* What a hook makes of an agent.                                          *)

LEMMA HookFacts ==
  ASSUME NEW h \in Hook
  PROVE  /\ h.agent \in Agents /\ h.at \in Times /\ h.at \in Nat /\ h.kind \in HookKinds
         /\ h.pid \in Pids \cup {None} /\ h.tool \in Tools \cup {None}
         /\ h.fields \in SUBSET Fields /\ h.control_capable \in BOOLEAN
BY RuntimeAssumption DEF Hook

LEMMA NewHookAgentFacts ==
  ASSUME NEW h \in Hook
  PROVE  /\ NewHookAgent(h) \in HookAgent
         /\ NewHookAgent(h).last_hook_at = h.at
         /\ NewHookAgent(h).status = "observed" /\ NewHookAgent(h).tokens = 0
BY HookFacts DEF NewHookAgent, HookAgent, Statuses

LEMMA StatusFacts ==
  ASSUME NEW kind \in HookKinds
  PROVE  /\ StatusOf(kind) \in {"failed", "idle", "running"}
         /\ StatusOf(kind) = "idle" <=> kind = "session_finished"
BY DEF StatusOf, HookKinds

LEMMA CreditedFacts ==
  ASSUME NEW agent \in HookAgent, NEW h \in Hook
  PROVE  /\ Credited(agent, h) \in HookAgent
         /\ Credited(agent, h).tokens = agent.tokens + 1
         /\ agent.control_capable => Credited(agent, h).control_capable
         /\ Credited(agent, h).last_hook_at = agent.last_hook_at
         /\ Credited(agent, h).status = agent.status
         /\ Credited(agent, h).tool = agent.tool
<1>1. PICK b \in BOOLEAN : b = (agent.control_capable \/ h.control_capable)
  OBVIOUS
<1>2. agent.control_capable => b = TRUE
  BY <1>1
<1>3. Credited(agent, h) =
        [[agent EXCEPT !.tokens = agent.tokens + 1] EXCEPT !.control_capable = b]
  BY <1>1 DEF Credited
<1>4. /\ agent.tokens + 1 \in Nat
      /\ [agent EXCEPT !.tokens = agent.tokens + 1] \in HookAgent
  BY DEF HookAgent
<1>5. PICK rich \in HookAgent : rich = [agent EXCEPT !.tokens = agent.tokens + 1]
  BY <1>4
<1>6. /\ rich.tokens = agent.tokens + 1 /\ rich.last_hook_at = agent.last_hook_at
      /\ rich.status = agent.status /\ rich.tool = agent.tool
  BY <1>5 DEF HookAgent
<1>7. Credited(agent, h) = [rich EXCEPT !.control_capable = b]
  BY <1>3, <1>5
<1>8. Credited(agent, h) \in HookAgent /\ Credited(agent, h).control_capable = b
  BY <1>7 DEF HookAgent
<1>9. /\ Credited(agent, h).tokens = rich.tokens
      /\ Credited(agent, h).last_hook_at = rich.last_hook_at
      /\ Credited(agent, h).status = rich.status /\ Credited(agent, h).tool = rich.tool
  BY <1>7 DEF HookAgent
<1> QED
  BY <1>2, <1>6, <1>8, <1>9

LEMMA CurrentFacts ==
  ASSUME NEW agent \in HookAgent, NEW h \in Hook
  PROVE  /\ Current(agent, h) \in HookAgent
         /\ Current(agent, h).tokens = agent.tokens
         /\ Current(agent, h).control_capable = agent.control_capable
         /\ Current(agent, h).last_hook_at = h.at
         /\ Current(agent, h).status =
              IF SetsStatus(h.kind) THEN StatusOf(h.kind) ELSE agent.status
         /\ (agent.status = "idle" => agent.tool = None) =>
              (Current(agent, h).status = "idle" => Current(agent, h).tool = None)
<1> DEFINE c == Current(agent, h)
<1>1. ToolAfter(agent, h) \in Tools \cup {None}
  BY HookFacts DEF ToolAfter, HookAgent
<1>2. /\ c.tokens = agent.tokens /\ c.control_capable = agent.control_capable
      /\ c.last_hook_at = h.at
      /\ c.status = IF SetsStatus(h.kind) THEN StatusOf(h.kind) ELSE agent.status
      /\ c.tool = ToolAfter(agent, h)
  BY DEF Current, HookAgent
<1>3. c \in HookAgent
  BY <1>1, HookFacts, StatusFacts DEF Current, HookAgent, Statuses
<1>4. ASSUME agent.status = "idle" => agent.tool = None, c.status = "idle"
      PROVE  c.tool = None
  <2>1. CASE SetsStatus(h.kind)
    BY <1>2, <1>4, <2>1, HookFacts, StatusFacts DEF ToolAfter
  <2>2. CASE ~SetsStatus(h.kind)
    BY <1>2, <1>4, <2>2 DEF ToolAfter, SetsStatus
  <2> QED
    BY <2>1, <2>2
<1> QED
  BY <1>2, <1>3, <1>4

LEMMA ObservedFacts ==
  ASSUME NEW agent \in HookAgent, NEW h \in Hook
  PROVE  /\ Observed(agent, h) \in HookAgent
         /\ Observed(agent, h).tokens = agent.tokens + 1
         /\ agent.control_capable => Observed(agent, h).control_capable
         /\ Observed(agent, h).last_hook_at =
              IF h.at >= agent.last_hook_at THEN h.at ELSE agent.last_hook_at
         /\ Observed(agent, h).status =
              IF h.at >= agent.last_hook_at /\ SetsStatus(h.kind)
              THEN StatusOf(h.kind) ELSE agent.status
         /\ (agent.status = "idle" => agent.tool = None) =>
              (Observed(agent, h).status = "idle" => Observed(agent, h).tool = None)
<1>1. CASE h.at >= agent.last_hook_at
  <2>1. Observed(agent, h) = Current(Credited(agent, h), h)
    BY <1>1 DEF Observed
  <2> QED
    BY <1>1, <2>1, CreditedFacts, CurrentFacts, SMTT(30)
<1>2. CASE ~(h.at >= agent.last_hook_at)
  <2>1. Observed(agent, h) = Credited(agent, h)
    BY <1>2 DEF Observed
  <2> QED
    BY <1>2, <2>1, CreditedFacts
<1> QED
  BY <1>1, <1>2

-----------------------------------------------------------------------------
(* Hooks.                                                                  *)

(* The window after a hook: the hook, then what was there before.          *)
Shifts(id, h) ==
  /\ Len(hooks') \in Nat /\ Len(hooks) \in Nat /\ 1 \in 1..Len(hooks')
  /\ hooks'[1].id = id /\ hooks'[1].agent = h.agent
  /\ hooks'[1].at = h.at /\ hooks'[1].kind = h.kind
  /\ \A i \in 1..Len(hooks') : i # 1 =>
       i - 1 \in 1..Len(hooks) /\ hooks'[i] = hooks[i - 1]
  /\ \A j \in 1..Len(hooks) : j + 1 \in 1..Len(hooks') =>
       j + 1 # 1 /\ hooks'[j + 1] = hooks[j]

LEMMA WindowFacts ==
  ASSUME HookInv, NEW id \in HookIds, NEW h \in Hook, IngestHook(id, h)
  PROVE  /\ hooks' \in Seq(HookRecord) /\ Len(hooks') <= HookCap
         /\ Shifts(id, h)
<1> DEFINE rec == [id |-> id, agent |-> h.agent, at |-> h.at, kind |-> h.kind]
<1>1. rec \in HookRecord
  BY HookFacts DEF HookRecord
<1>2. hooks' = Pushed(hooks, rec, HookCap)
  BY DEF IngestHook
<1>3. /\ hooks \in Seq(HookRecord) /\ HookCap \in Nat \ {0} /\ Len(hooks) <= HookCap
      /\ Len(hooks) \in Nat
  BY RuntimeAssumption DEF HookInv
<1>4. /\ hooks' \in Seq(HookRecord) /\ Len(hooks') \in Nat \ {0}
      /\ Len(hooks') <= HookCap /\ hooks'[1] = rec
      /\ \A i \in 2..Len(hooks') : i - 1 \in 1..Len(hooks) /\ hooks'[i] = hooks[i - 1]
  <2> HIDE DEF rec
  <2>1. Window(HookRecord, hooks, rec, HookCap, hooks')
    BY <1>1, <1>2, <1>3, PushedFacts
  <2> QED
    BY <2>1 DEF Window
<1>5. /\ hooks'[1].id = id /\ hooks'[1].agent = h.agent
      /\ hooks'[1].at = h.at /\ hooks'[1].kind = h.kind
  <2>1. hooks'[1] = rec
    BY <1>4, Zenon
  <2> QED
    BY <2>1
<1> HIDE DEF rec
<1>6. Len(hooks') \in Nat /\ 1 \in 1..Len(hooks')
  BY <1>4
<1>7. ASSUME NEW i \in 1..Len(hooks'), i # 1
      PROVE  i - 1 \in 1..Len(hooks) /\ hooks'[i] = hooks[i - 1]
  <2>1. i \in 2..Len(hooks')
    BY <1>6, <1>7
  <2> QED
    BY <1>4, <2>1
<1>8. ASSUME NEW j \in 1..Len(hooks), j + 1 \in 1..Len(hooks')
      PROVE  j + 1 # 1 /\ hooks'[j + 1] = hooks[j]
  <2>1. j + 1 # 1 /\ (j + 1) - 1 = j
    BY <1>3
  <2> QED
    BY <1>7, <1>8, <2>1
<1> QED
  BY <1>3, <1>4, <1>5, <1>6, <1>7, <1>8 DEF Shifts

(* The agents after a hook: the one that sent it has observed it.          *)
LEMMA AgentFacts ==
  ASSUME HookInv, NEW id \in HookIds, NEW h \in Hook, IngestHook(id, h)
  PROVE  \E agent \in HookAgent :
           /\ h.agent \in DOMAIN hook_agents => agent = hook_agents[h.agent]
           /\ h.agent \notin DOMAIN hook_agents => agent = NewHookAgent(h)
           /\ DOMAIN hook_agents' = DOMAIN hook_agents \cup {h.agent}
           /\ hook_agents'[h.agent] = Observed(agent, h)
           /\ \A a \in DOMAIN hook_agents : a # h.agent =>
                hook_agents'[a] = hook_agents[a]
<1> DEFINE agent == IF h.agent \in DOMAIN hook_agents THEN hook_agents[h.agent]
                    ELSE NewHookAgent(h)
<1>1. agent \in HookAgent
  BY NewHookAgentFacts DEF HookInv
<1>2. hook_agents' = [a \in DOMAIN hook_agents \cup {h.agent} |->
                        IF a = h.agent THEN Observed(agent, h) ELSE hook_agents[a]]
  BY DEF IngestHook
<1> QED
  BY <1>1, <1>2

(* Hooks of an agent whose latest time stays the same keep their order: if *)
(* the first of them that counts is not the new one, it was the first      *)
(* before.                                                                 *)
LEMMA ShiftedLatest ==
  ASSUME HookInv, NEW id \in HookIds, NEW h \in Hook, IngestHook(id, h),
         NEW a \in DOMAIN hook_agents,
         hook_agents'[a].last_hook_at = hook_agents[a].last_hook_at,
         NEW i \in Latest(a)', \A j \in Latest(a)' : i <= j, i # 1
  PROVE  /\ i - 1 \in Latest(a) /\ (\A j \in Latest(a) : i - 1 <= j)
         /\ hooks'[i] = hooks[i - 1]
<1>1. /\ i \in 1..Len(hooks') /\ hooks'[i].agent = a
      /\ hooks'[i].at = hook_agents'[a].last_hook_at /\ SetsStatus(hooks'[i].kind)
  BY DEF Latest
<1>2. Shifts(id, h)
  BY WindowFacts
<1>3. /\ i - 1 \in 1..Len(hooks) /\ hooks'[i] = hooks[i - 1]
  BY <1>1, <1>2 DEF Shifts
<1>4. i - 1 \in Latest(a)
  BY <1>1, <1>3 DEF Latest
<1>5. ASSUME NEW j \in Latest(a)
      PROVE  i - 1 <= j
  <2>1. /\ j \in 1..Len(hooks) /\ hooks[j].agent = a
        /\ hooks[j].at = hook_agents[a].last_hook_at /\ SetsStatus(hooks[j].kind)
    BY DEF Latest
  <2>2. Len(hooks') \in Nat /\ Len(hooks) \in Nat
    BY <1>2 DEF Shifts
  <2>3. CASE j + 1 <= Len(hooks')
    <3>1. j + 1 \in 1..Len(hooks')
      BY <2>1, <2>2, <2>3
    <3>2. hooks'[j + 1] = hooks[j]
      BY <1>2, <2>1, <3>1 DEF Shifts
    <3>3. j + 1 \in Latest(a)'
      BY <2>1, <3>1, <3>2 DEF Latest
    <3>4. i <= j + 1
      BY <3>3
    <3> QED
      BY <1>1, <2>1, <2>2, <3>4
  <2>4. CASE ~(j + 1 <= Len(hooks'))
    BY <1>1, <2>1, <2>2, <2>4
  <2> QED
    BY <2>3, <2>4
<1> QED
  BY <1>3, <1>4, <1>5

LEMMA IngestHookShown ==
  ASSUME HookInv, NEW id \in HookIds, NEW h \in Hook, IngestHook(id, h),
         NEW a \in DOMAIN hook_agents'
  PROVE  Shown(a)'
<1>1. PICK agent \in HookAgent :
        /\ h.agent \in DOMAIN hook_agents => agent = hook_agents[h.agent]
        /\ h.agent \notin DOMAIN hook_agents => agent = NewHookAgent(h)
        /\ DOMAIN hook_agents' = DOMAIN hook_agents \cup {h.agent}
        /\ hook_agents'[h.agent] = Observed(agent, h)
        /\ \A b \in DOMAIN hook_agents : b # h.agent => hook_agents'[b] = hook_agents[b]
  BY AgentFacts
<1> DEFINE old == agent.last_hook_at
           new == hook_agents'[h.agent].last_hook_at
<1>2. Shifts(id, h)
  BY WindowFacts
<1>3. h.at \in Nat /\ old \in Nat /\ h.kind \in HookKinds
  BY HookFacts, RuntimeAssumption DEF HookAgent
<1>4. \A i \in 1..Len(hooks) : hooks[i].at \in Nat
  <2>1. \A i \in 1..Len(hooks) : hooks[i] \in HookRecord
    BY ElementOfSeq DEF HookInv
  <2>2. \A r \in HookRecord : r.at \in Nat
    BY RuntimeAssumption DEF HookRecord
  <2> QED
    BY <2>1, <2>2
<1>5. CASE a # h.agent
  <2>1. a \in DOMAIN hook_agents /\ hook_agents'[a] = hook_agents[a] /\ Shown(a)
    BY <1>1, <1>5 DEF HookInv
  <2>2. ASSUME NEW i \in 1..Len(hooks'), hooks'[i].agent = a
        PROVE  hooks'[i].at <= hook_agents'[a].last_hook_at
    <3>1. i # 1
      BY <1>2, <1>5, <2>2 DEF Shifts
    <3>2. i - 1 \in 1..Len(hooks) /\ hooks'[i] = hooks[i - 1]
      BY <1>2, <3>1 DEF Shifts
    <3> QED
      BY <2>1, <2>2, <3>2 DEF Shown
  <2>3. ASSUME NEW i \in Latest(a)', \A j \in Latest(a)' : i <= j
        PROVE  hook_agents'[a].status = StatusOf(hooks'[i].kind)
    <3>1. i # 1
      BY <1>2, <1>5 DEF Latest, Shifts
    <3>2. /\ i - 1 \in Latest(a) /\ (\A j \in Latest(a) : i - 1 <= j)
          /\ hooks'[i] = hooks[i - 1]
      BY <2>1, <2>3, <3>1, ShiftedLatest
    <3> QED
      BY <2>1, <3>2 DEF Shown
  <2> QED
    BY <2>1, <2>2, <2>3 DEF Shown
<1>6. CASE a = h.agent
  <2>1. /\ new = IF h.at >= old THEN h.at ELSE old
        /\ hook_agents'[a].status = IF h.at >= old /\ SetsStatus(h.kind)
                                    THEN StatusOf(h.kind) ELSE agent.status
    BY <1>1, <1>6, ObservedFacts
  <2>2. \A i \in 1..Len(hooks) : hooks[i].agent = a =>
          a \in DOMAIN hook_agents /\ hooks[i].at <= old
    BY <1>1, <1>6 DEF HookInv, Shown
  <2>3. ASSUME NEW i \in 1..Len(hooks'), hooks'[i].agent = a
        PROVE  hooks'[i].at <= new
    <3>1. CASE i = 1
      <4>1. hooks'[i].at = h.at
        BY <1>2, <3>1 DEF Shifts
      <4> QED
        BY <1>3, <2>1, <4>1
    <3>2. CASE i # 1
      <4>1. i - 1 \in 1..Len(hooks) /\ hooks'[i] = hooks[i - 1]
        BY <1>2, <3>2 DEF Shifts
      <4>2. hooks[i - 1].at <= old /\ hooks[i - 1].at \in Nat
        BY <1>4, <2>2, <2>3, <4>1
      <4> QED
        BY <1>3, <2>1, <4>1, <4>2
    <3> QED
      BY <3>1, <3>2
  <2>4. ASSUME NEW i \in Latest(a)', \A j \in Latest(a)' : i <= j
        PROVE  hook_agents'[a].status = StatusOf(hooks'[i].kind)
    <3>1. i \in 1..Len(hooks') /\ hooks'[i].agent = a /\ hooks'[i].at = new
          /\ SetsStatus(hooks'[i].kind)
      BY <1>6 DEF Latest
    <3>2. CASE i = 1
      <4>1. hooks'[i].at = h.at /\ hooks'[i].kind = h.kind
        BY <1>2, <3>2 DEF Shifts
      <4>2. h.at >= old
        BY <1>3, <2>1, <3>1, <4>1
      <4> QED
        BY <2>1, <3>1, <4>1, <4>2
    <3>3. CASE i # 1
      <4>1. i - 1 \in 1..Len(hooks) /\ hooks'[i] = hooks[i - 1]
        BY <1>2, <3>1, <3>3 DEF Shifts
      <4>2. /\ a \in DOMAIN hook_agents /\ hooks[i - 1].at <= old
            /\ hooks[i - 1].at \in Nat /\ hooks[i - 1].at = new
        BY <1>4, <2>2, <3>1, <4>1
      <4>3. new = old
        BY <1>3, <2>1, <4>2
      <4>4. ~(h.at >= old /\ SetsStatus(h.kind))
        <5> SUFFICES ASSUME h.at >= old, SetsStatus(h.kind) PROVE FALSE
          OBVIOUS
        <5>1. h.at = new
          BY <2>1
        <5>2. /\ 1 \in 1..Len(hooks') /\ hooks'[1].agent = a
              /\ hooks'[1].at = h.at /\ hooks'[1].kind = h.kind /\ Len(hooks') \in Nat
          BY <1>2, <1>6 DEF Shifts
        <5>3. 1 \in Latest(a)'
          BY <1>6, <5>1, <5>2 DEF Latest
        <5>4. i <= 1
          BY <2>4, <5>3
        <5> QED
          BY <3>1, <3>3, <5>2, <5>4
      <4>5. hook_agents'[a].status = hook_agents[a].status
            /\ hook_agents'[a].last_hook_at = hook_agents[a].last_hook_at
        BY <1>1, <1>6, <2>1, <4>2, <4>3, <4>4
      <4>6. /\ i - 1 \in Latest(a) /\ (\A j \in Latest(a) : i - 1 <= j)
        BY <2>4, <3>3, <4>2, <4>5, ShiftedLatest
      <4> QED
        BY <4>1, <4>2, <4>5, <4>6 DEF HookInv, Shown
    <3> QED
      BY <3>2, <3>3
  <2>5. hook_agents'[a].status = "idle" => hook_agents'[a].tool = None
    <3>1. agent.status = "idle" => agent.tool = None
      BY <1>1, <1>6, NewHookAgentFacts DEF HookInv, Shown
    <3> QED
      BY <1>1, <1>6, <3>1, ObservedFacts
  <2> QED
    BY <1>6, <2>3, <2>4, <2>5 DEF Shown
<1> QED
  BY <1>5, <1>6

LEMMA IngestHookInv ==
  ASSUME HookInv, NEW id \in HookIds, NEW h \in Hook, IngestHook(id, h)
  PROVE  HookInv' /\ \A a \in Agents : Capable(a) => Capable(a)'
<1>1. PICK agent \in HookAgent :
        /\ h.agent \in DOMAIN hook_agents => agent = hook_agents[h.agent]
        /\ h.agent \notin DOMAIN hook_agents => agent = NewHookAgent(h)
        /\ DOMAIN hook_agents' = DOMAIN hook_agents \cup {h.agent}
        /\ hook_agents'[h.agent] = Observed(agent, h)
        /\ \A b \in DOMAIN hook_agents : b # h.agent => hook_agents'[b] = hook_agents[b]
  BY AgentFacts
<1>2. \A a \in DOMAIN hook_agents' : hook_agents'[a] \in HookAgent
  BY <1>1, ObservedFacts DEF HookInv
<1>3. DOMAIN hook_agents' \subseteq Agents /\ accepted' \in Nat
  BY <1>1, HookFacts DEF HookInv, IngestHook
<1>w. Shifts(id, h) /\ hooks' \in Seq(HookRecord) /\ Len(hooks') <= HookCap
  BY WindowFacts
<1>4. ASSUME NEW i \in 1..Len(hooks')
      PROVE  hooks'[i].agent \in DOMAIN hook_agents'
  <2>1. CASE i = 1
    BY <1>1, <1>w, <2>1 DEF Shifts
  <2>2. CASE i # 1
    <3>1. i - 1 \in 1..Len(hooks) /\ hooks'[i] = hooks[i - 1]
      BY <1>w, <2>2 DEF Shifts
    <3> QED
      BY <1>1, <3>1 DEF HookInv
  <2> QED
    BY <2>1, <2>2
<1>5. ASSUME NEW i \in 1..Len(hooks'), NEW j \in 1..Len(hooks'),
             hooks'[i].id = hooks'[j].id
      PROVE  i = j
  <2>1. \A k \in 1..Len(hooks) : hooks[k].id # id
    BY DEF IngestHook
  <2>2. ASSUME NEW k \in 1..Len(hooks'), k # 1
        PROVE  /\ k - 1 \in 1..Len(hooks) /\ hooks'[k].id # hooks'[1].id
               /\ hooks'[k] = hooks[k - 1]
    BY <1>w, <2>1, <2>2 DEF Shifts
  <2>3. CASE i = 1 \/ j = 1
    BY <1>5, <2>2, <2>3
  <2>4. CASE i # 1 /\ j # 1
    <3>1. hooks[i - 1].id = hooks[j - 1].id
      BY <1>5, <2>2, <2>4
    <3>2. i - 1 = j - 1
      BY <2>2, <2>4, <3>1 DEF HookInv
    <3> QED
      BY <1>w, <3>2 DEF Shifts
  <2> QED
    BY <2>3, <2>4
<1>6. \A a \in DOMAIN hook_agents' : Shown(a)'
  BY IngestHookShown
<1>7. HookInv'
  BY <1>2, <1>3, <1>w, <1>4, <1>5, <1>6 DEF HookInv
<1>8. ASSUME NEW a \in Agents, Capable(a)
      PROVE  Capable(a)'
  BY <1>1, <1>8, ObservedFacts DEF Capable
<1> QED
  BY <1>7, <1>8

-----------------------------------------------------------------------------
(* Commands.                                                               *)

LEMMA CommandsKeep ==
  ASSUME CommandInv, UNCHANGED commandVars, \A a \in Agents : Capable(a) => Capable(a)'
  PROVE  CommandInv'
<1>1. commands' = commands /\ issued' = issued
  BY DEF commandVars
<1>2. \A i \in 1..Len(commands) : commands[i].agent \in Agents
  <2>1. \A i \in 1..Len(commands) : commands[i] \in Command
    BY ElementOfSeq DEF CommandInv
  <2>2. \A c \in Command : c.agent \in Agents
    BY DEF Command
  <2> QED
    BY <2>1, <2>2
<1>3. ASSUME NEW i \in 1..Len(commands)
      PROVE  Capable(commands[i].agent)'
  <2>1. Capable(commands[i].agent) /\ commands[i].agent \in Agents
    BY <1>2 DEF CommandInv, ControlOnlyCapable
  <2>2. PICK a \in Agents : a = commands[i].agent
    BY <2>1
  <2>3. Capable(a)'
    BY <2>1, <2>2
  <2> QED
    BY <1>1, <2>2, <2>3 DEF Capable
<1> QED
  BY <1>1, <1>3 DEF CommandInv, ControlOnlyCapable

LEMMA EnqueueCommandInv ==
  ASSUME CommandInv, NEW a \in Agents, EnqueueCommand(a)
  PROVE  CommandInv'
<1> DEFINE c == [id |-> issued + 1, agent |-> a, status |-> "pending"]
<1>1. /\ issued' = issued + 1 /\ commands' = Pushed(commands, c, CommandCap)
      /\ Capable(a) /\ hook_agents' = hook_agents
  BY DEF EnqueueCommand, hookVars
<1>2. issued' \in Nat /\ c \in Command /\ c.agent = a
  BY <1>1 DEF CommandInv, Command
<1>3. /\ commands \in Seq(Command) /\ CommandCap \in Nat \ {0} /\ Len(commands) <= CommandCap
      /\ \A i \in 1..Len(commands) : Capable(commands[i].agent)
  BY RuntimeAssumption DEF CommandInv, ControlOnlyCapable
<1> HIDE DEF c
<1>4. /\ commands' \in Seq(Command) /\ Len(commands') \in Nat \ {0}
      /\ Len(commands') <= CommandCap /\ commands'[1] = c
      /\ \A i \in 2..Len(commands') :
           i - 1 \in 1..Len(commands) /\ commands'[i] = commands[i - 1]
  <2>1. Window(Command, commands, c, CommandCap, commands')
    BY <1>1, <1>2, <1>3, PushedFacts
  <2> QED
    BY <2>1 DEF Window
<1>5. ASSUME NEW i \in 1..Len(commands')
      PROVE  Capable(commands[i].agent)'
  <2>1. Capable(commands'[i].agent)
    <3>1. CASE i = 1
      BY <1>1, <1>2, <1>4, <3>1
    <3>2. CASE i # 1
      <4>1. i \in 2..Len(commands')
        BY <1>4, <3>2
      <4> QED
        BY <1>3, <1>4, <4>1
    <3> QED
      BY <3>1, <3>2
  <2> QED
    BY <1>1, <2>1 DEF Capable
<1> QED
  BY <1>2, <1>4, <1>5 DEF CommandInv, ControlOnlyCapable

LEMMA AcknowledgeCommandInv ==
  ASSUME CommandInv, NEW id, NEW a \in Agents, NEW ok \in BOOLEAN,
         AcknowledgeCommand(id, a, ok)
  PROVE  CommandInv'
<1> DEFINE st == IF ok THEN "acknowledged" ELSE "rejected"
<1>1. PICK i \in 1..Len(commands) :
        commands' = [commands EXCEPT ![i].status = st]
  BY DEF AcknowledgeCommand
<1>2. hook_agents' = hook_agents /\ issued' = issued
  BY DEF AcknowledgeCommand, hookVars
<1>3. st \in {"acknowledged", "rejected"}
  OBVIOUS
<1> HIDE DEF st
<1>4. commands \in Seq(Command) /\ commands[i] \in Command
  BY ElementOfSeq DEF CommandInv
<1>5. PICK c : c = [commands[i] EXCEPT !.status = st]
  OBVIOUS
<1>6. c \in Command /\ c.agent = commands[i].agent
  BY <1>3, <1>4, <1>5 DEF Command
<1>7. commands' = [commands EXCEPT ![i] = c]
  BY <1>1, <1>5
<1>8. /\ commands' \in Seq(Command) /\ Len(commands') = Len(commands)
      /\ \A j \in 1..Len(commands) : commands'[j] = IF j = i THEN c ELSE commands[j]
  BY <1>4, <1>6, <1>7, ExceptSeq
<1>9. \A j \in 1..Len(commands') : commands'[j].agent = commands[j].agent
  BY <1>6, <1>8
<1>10. ASSUME NEW j \in 1..Len(commands')
       PROVE  Capable(commands[j].agent)'
  <2>1. Capable(commands[j].agent)
    BY <1>8 DEF CommandInv, ControlOnlyCapable
  <2> QED
    BY <1>2, <1>9, <2>1 DEF Capable
<1>11. Len(commands') <= CommandCap /\ issued' \in Nat
  BY <1>2, <1>8 DEF CommandInv
<1> QED
  BY <1>8, <1>10, <1>11 DEF CommandInv, ControlOnlyCapable

-----------------------------------------------------------------------------
(* Samples.                                                                *)

LEMMA HostRunsInv ==
  ASSUME SampleInv, HostRuns
  PROVE  SampleInv'
<1>1. UNCHANGED <<sampleVars, controlVars>>
  BY DEF HostRuns
<1>2. /\ host.total \in Nat /\ DOMAIN host.ticks \subseteq Pids
      /\ \A p \in DOMAIN host.ticks : host.ticks[p] \in Nat
  BY DEF SampleInv, TicksOf
<1>3. host'.total \in Nat /\ TicksOf(host.ticks)'
  <2>1. ASSUME NEW p \in DOMAIN host.ticks,
               host' = [host EXCEPT !.total = @ + 1, !.ticks[p] = @ + 1]
        PROVE  host'.total \in Nat /\ TicksOf(host.ticks)'
    BY <1>2, <2>1 DEF TicksOf
  <2>2. ASSUME host' = [host EXCEPT !.total = @ + 1]
        PROVE  host'.total \in Nat /\ TicksOf(host.ticks)'
    BY <1>2, <2>2 DEF TicksOf
  <2>3. ASSUME NEW p \in Pids \ DOMAIN host.ticks,
               host' = [total |-> host.total + 1,
                        ticks |-> [q \in DOMAIN host.ticks \cup {p} |->
                                     IF q = p THEN 0 ELSE host.ticks[q]]]
        PROVE  host'.total \in Nat /\ TicksOf(host.ticks)'
    BY <1>2, <2>3 DEF TicksOf
  <2>4. ASSUME NEW p \in DOMAIN host.ticks,
               host' = [total |-> host.total + 1,
                        ticks |-> [q \in DOMAIN host.ticks \ {p} |-> host.ticks[q]]]
        PROVE  host'.total \in Nat /\ TicksOf(host.ticks)'
    BY <1>2, <2>4 DEF TicksOf
  <2>5. ASSUME NEW t \in 0..(host.total - 1), host' = [host EXCEPT !.total = t]
        PROVE  host'.total \in Nat /\ TicksOf(host.ticks)'
    BY <1>2, <2>5 DEF TicksOf
  <2> QED
    BY <2>1, <2>2, <2>3, <2>4, <2>5 DEF HostRuns
<1> QED
  BY <1>1, <1>3 DEF SampleInv, sampleVars, controlVars, CpuShareSane, TicksOf

LEMMA SetCollectionInv ==
  ASSUME SampleInv, NEW on \in BOOLEAN, SetCollection(on)
  PROVE  SampleInv'
<1>1. /\ UNCHANGED <<processes, previous, last_error, collector, host>>
      /\ enabled' = on /\ late' = IF on THEN 0 ELSE late
  BY DEF SetCollection
<1>2. /\ enabled' => late' = 0
      /\ ~enabled' => late' = 0 \/ (late' = 1 /\ collector'.at = "idle")
  <2>1. CASE on
    BY <1>1, <2>1
  <2>2. CASE ~on
    BY <1>1, <2>2 DEF SampleInv
  <2> QED
    BY <2>1, <2>2
<1> QED
  BY <1>1, <1>2 DEF SampleInv, CpuShareSane, TicksOf

LEMMA TickInv ==
  ASSUME SampleInv, Tick
  PROVE  SampleInv'
<1>1. /\ UNCHANGED <<processes, previous, last_error, late, enabled, host>>
      /\ collector' = [at |-> "walking", total |-> host.total] /\ enabled
  BY DEF Tick, controlVars
<1>2. collector'.at = "walking" /\ collector'.total \in Nat
  BY <1>1 DEF SampleInv
<1> QED
  BY <1>1, <1>2 DEF SampleInv, CpuShareSane, TicksOf

LEMMA WalkProcInv ==
  ASSUME SampleInv, WalkProc
  PROVE  SampleInv'
<1>1. /\ UNCHANGED <<processes, previous, last_error, late, enabled, host>>
      /\ collector.at = "walking"
  BY DEF WalkProc, controlVars
<1>2. PICK seen \in SUBSET DOMAIN host.ticks :
        collector' = [at |-> "read", total |-> collector.total,
                      ticks |-> [p \in seen |-> host.ticks[p]]]
  BY DEF WalkProc
<1>3. /\ collector'.at = "read" /\ collector'.total \in Nat
      /\ TicksOf(collector.ticks)'
  BY <1>1, <1>2 DEF SampleInv, TicksOf
<1> QED
  BY <1>1, <1>3 DEF SampleInv, CpuShareSane, TicksOf

LEMMA RecordCollectionErrorInv ==
  ASSUME SampleInv, RecordCollectionError
  PROVE  SampleInv'
<1>1. /\ UNCHANGED <<processes, previous, late, enabled, host>>
      /\ last_error' = TRUE /\ collector' = [at |-> "idle"]
  BY DEF RecordCollectionError, controlVars
<1>2. collector'.at = "idle"
  BY <1>1
<1> QED
  BY <1>1, <1>2 DEF SampleInv, CpuShareSane, TicksOf

(* A share is only computed against a sample that is older by at least one *)
(* tick and whose counter for the process is not ahead.                    *)
LEMMA CpuPercentFacts ==
  ASSUME SampleInv, NEW total \in Nat, NEW ticks, TicksOf(ticks), NEW p \in DOMAIN ticks,
         CpuPercent(total, ticks, p) # None
  PROVE  CpuPercent(total, ticks, p)[1] >= 0 /\ CpuPercent(total, ticks, p)[2] > 0
<1> DEFINE td == IF previous.total = None THEN None ELSE Difference(total, previous.total)
           pd == IF p \in DOMAIN previous.ticks
                 THEN Difference(ticks[p], previous.ticks[p]) ELSE None
<1>1. CpuPercent(total, ticks, p) = IF td \in {None, 0} \/ pd = None THEN None
                                    ELSE <<pd, td>>
  BY DEF CpuPercent
<1>2. td \in Nat \cup {None}
  BY DEF SampleInv, Difference
<1>3. pd \in Nat \cup {None}
  BY DEF SampleInv, TicksOf, Difference
<1> HIDE DEF td, pd
<1>4. td \in Nat \ {0} /\ pd \in Nat /\ CpuPercent(total, ticks, p) = <<pd, td>>
  BY <1>1, <1>2, <1>3
<1> QED
  BY <1>4

LEMMA ApplyProcSnapshotInv ==
  ASSUME SampleInv, ApplyProcSnapshot
  PROVE  SampleInv'
<1>1. /\ collector.at = "read" /\ UNCHANGED <<enabled, host>>
      /\ processes' = [p \in DOMAIN collector.ticks |->
                         CpuPercent(collector.total, collector.ticks, p)]
      /\ previous' = [total |-> collector.total, ticks |-> collector.ticks]
      /\ last_error' = FALSE /\ late' = IF enabled THEN 0 ELSE late + 1
      /\ collector' = [at |-> "idle"]
  BY DEF ApplyProcSnapshot, controlVars
<1>2. collector.total \in Nat /\ TicksOf(collector.ticks)
  BY <1>1 DEF SampleInv
<1>3. /\ previous'.total = collector.total /\ previous'.ticks = collector.ticks
      /\ collector'.at = "idle" /\ DOMAIN processes' = DOMAIN collector.ticks
  BY <1>1
<1>4. TicksOf(previous.ticks)' /\ TicksOf(host.ticks)'
  BY <1>1, <1>2, <1>3 DEF SampleInv, TicksOf
<1>5. CpuShareSane'
  <2> SUFFICES ASSUME NEW p \in DOMAIN processes', processes'[p] # None
               PROVE  processes'[p][1] >= 0 /\ processes'[p][2] > 0
    BY DEF CpuShareSane
  <2>1. /\ p \in DOMAIN collector.ticks
        /\ processes'[p] = CpuPercent(collector.total, collector.ticks, p)
    BY <1>1
  <2> QED
    BY <1>2, <2>1, CpuPercentFacts
<1>6. /\ enabled' => late' = 0
      /\ ~enabled' => late' = 0 \/ (late' = 1 /\ collector'.at = "idle")
  <2>1. CASE enabled
    BY <1>1, <2>1
  <2>2. CASE ~enabled
    <3>1. late = 0
      BY <1>1, <2>2 DEF SampleInv
    <3>2. late' = 1
      BY <1>1, <2>2, <3>1
    <3> QED
      BY <1>1, <1>3, <2>2, <3>2
  <2> QED
    BY <2>1, <2>2
<1> QED
  BY <1>1, <1>2, <1>3, <1>4, <1>5, <1>6 DEF SampleInv

-----------------------------------------------------------------------------
(* Tokens.                                                                 *)

(* Whichever agent is picked at each step, adding up one agent at a time   *)
(* arrives at the additive total: a set of agents for which it does not    *)
(* would contain a smaller one.                                            *)
LEMMA SumIsTotal ==
  ASSUME HookInv, IsFiniteSet(DOMAIN hook_agents), NEW g, Totals(g)
  PROVE  MapThenSumSet(LAMBDA a : hook_agents[a].tokens, DOMAIN hook_agents)
           = g[DOMAIN hook_agents]
<1> DEFINE D == DOMAIN hook_agents
           Eqn(f) == f = [s \in SUBSET D |->
                            IF s = {} THEN 0
                            ELSE hook_agents[CHOOSE x \in s : TRUE].tokens
                                   + f[s \ {CHOOSE x \in s : TRUE}]]
           iter == CHOOSE f : Eqn(f)
<1>1. MapThenSumSet(LAMBDA a : hook_agents[a].tokens, DOMAIN hook_agents) = iter[D]
  BY DEF MapThenSumSet, MapThenFoldSet
<1>2. Eqn(g)
  <2>1. g = [s \in SUBSET D |-> g[s]]
    BY DEF Totals
  <2>2. ASSUME NEW s \in SUBSET D
        PROVE  g[s] = IF s = {} THEN 0
                      ELSE hook_agents[CHOOSE x \in s : TRUE].tokens
                             + g[s \ {CHOOSE x \in s : TRUE}]
    BY DEF Totals
  <2> QED
    BY <2>1, <2>2
<1>3. Eqn(iter)
  BY <1>2
<1> HIDE DEF iter
<1>4. ASSUME NEW s \in SUBSET D, s # {}
      PROVE  iter[s] = hook_agents[CHOOSE x \in s : TRUE].tokens
                         + iter[s \ {CHOOSE x \in s : TRUE}]
  BY <1>3, <1>4
<1>5. iter[{}] = 0
  BY <1>3
<1> HIDE DEF Eqn
<1> DEFINE Bad == {s \in SUBSET D : iter[s] # g[s]}
<1>6. Bad = {}
  <2> SUFFICES ASSUME Bad # {} PROVE FALSE
    OBVIOUS
  <2>1. \A s \in SUBSET D : IsFiniteSet(s)
    BY FS_Subset
  <2>2. Bad \subseteq FiniteSubsetsOf(D)
    BY <2>1 DEF FiniteSubsetsOf
  <2>3. PICK s \in Bad : \A t \in Bad : <<t, s>> \notin StrictSubsetOrdering(D)
    BY <2>2, FS_StrictSubsetOrderingWellFounded, WFMin
  <2>4. s \in SUBSET D /\ iter[s] # g[s]
    OBVIOUS
  <2>5. s # {}
    BY <1>5, <2>4 DEF Totals
  <2> DEFINE x == CHOOSE y \in s : TRUE
  <2>6. x \in s
    BY <2>5
  <2> HIDE DEF x
  <2>7. s \ {x} \in SUBSET D /\ s \ {x} \subseteq s /\ s \ {x} # s
    BY <2>4, <2>6
  <2>8. <<s \ {x}, s>> \in StrictSubsetOrdering(D)
    BY <2>4, <2>7 DEF StrictSubsetOrdering
  <2>9. iter[s \ {x}] = g[s \ {x}]
    BY <2>3, <2>7, <2>8
  <2>10. iter[s] = hook_agents[x].tokens + iter[s \ {x}]
    BY <1>4, <2>4, <2>5 DEF x
  <2>11. g[s] = hook_agents[x].tokens + g[s \ {x}]
    BY <2>4, <2>6 DEF Totals
  <2> QED
    BY <2>4, <2>9, <2>10, <2>11
<1> QED
  BY <1>1, <1>6

LEMMA IngestHookTokens ==
  ASSUME HookInv, TokenInv, NEW id \in HookIds, NEW h \in Hook, IngestHook(id, h)
  PROVE  TokenInv'
<1>1. PICK agent \in HookAgent :
        /\ h.agent \in DOMAIN hook_agents => agent = hook_agents[h.agent]
        /\ h.agent \notin DOMAIN hook_agents => agent = NewHookAgent(h)
        /\ DOMAIN hook_agents' = DOMAIN hook_agents \cup {h.agent}
        /\ hook_agents'[h.agent] = Observed(agent, h)
        /\ \A b \in DOMAIN hook_agents : b # h.agent => hook_agents'[b] = hook_agents[b]
  BY AgentFacts
<1> DEFINE D == DOMAIN hook_agents
           y == h.agent
           n == agent.tokens
<1>2. n \in Nat /\ (y \notin D => n = 0) /\ (y \in D => hook_agents[y].tokens = n)
  BY <1>1, NewHookAgentFacts DEF HookAgent
<1>3. hook_agents'[y].tokens = n + 1
  BY <1>1, ObservedFacts
<1>4. accepted' = accepted + 1
  BY DEF IngestHook
<1>5. IsFiniteSet(DOMAIN hook_agents')
  BY <1>1, FS_AddElement DEF TokenInv
<1>6. PICK g : Totals(g) /\ g[D] = accepted
  BY DEF TokenInv
<1>7. DOMAIN hook_agents' = D \cup {y}
  BY <1>1
<1>8. \A b \in D : b # y => hook_agents'[b].tokens = hook_agents[b].tokens
  BY <1>1
<1>9. \A b \in D : hook_agents[b].tokens \in Nat
  BY DEF HookInv, HookAgent
<1>10. /\ g \in [SUBSET D -> Nat] /\ g[{}] = 0
       /\ \A s \in SUBSET D : \A a \in s : g[s] = hook_agents[a].tokens + g[s \ {a}]
  BY <1>6 DEF Totals
<1> HIDE DEF y, n
<1>11. \A s \in SUBSET (D \cup {y}) : s \ {y} \in SUBSET D /\ g[s \ {y}] \in Nat
  BY <1>10
<1> DEFINE part(s) == IF y \in s THEN n + 1 ELSE 0
<1>k. PICK k : k = [s \in SUBSET (D \cup {y}) |-> g[s \ {y}] + part(s)]
  OBVIOUS
<1>12. k \in [SUBSET (D \cup {y}) -> Nat]
  <2>1. \A s \in SUBSET (D \cup {y}) : part(s) \in Nat
    BY <1>2
  <2> HIDE DEF part
  <2>2. ASSUME NEW s \in SUBSET (D \cup {y})
        PROVE  g[s \ {y}] + part(s) \in Nat
    <3>1. g[s \ {y}] \in Nat /\ part(s) \in Nat
      BY <1>11, <2>1
    <3> QED
      BY <3>1
  <2> QED
    BY <1>k, <2>2
<1>13. k[{}] = 0
  <2>1. {} \ {y} = {} /\ {} \in SUBSET (D \cup {y})
    OBVIOUS
  <2> QED
    BY <1>k, <1>10, <2>1
<1>14. ASSUME NEW s \in SUBSET (D \cup {y}), NEW a \in s
       PROVE  k[s] = hook_agents'[a].tokens + k[s \ {a}]
  <2>1. CASE a = y
    <3>1. (s \ {a}) \ {y} = s \ {y} /\ y \in s /\ y \notin s \ {a}
          /\ s \ {a} \in SUBSET (D \cup {y})
      BY <2>1
    <3>2. k[s] = g[s \ {y}] + (n + 1) /\ k[s \ {a}] = g[s \ {y}] + 0
      BY <1>k, <3>1
    <3> QED
      BY <1>2, <1>3, <1>11, <2>1, <3>2
  <2>2. CASE a # y
    <3>1. /\ (s \ {a}) \ {y} = (s \ {y}) \ {a} /\ a \in s \ {y} /\ a \in D
          /\ (y \in s \ {a} <=> y \in s) /\ s \ {a} \in SUBSET (D \cup {y})
      BY <2>2
    <3>2. g[s \ {y}] = hook_agents[a].tokens + g[(s \ {y}) \ {a}]
      BY <1>10, <1>11, <3>1
    <3>3. hook_agents'[a].tokens = hook_agents[a].tokens /\ hook_agents[a].tokens \in Nat
      BY <1>8, <1>9, <2>2, <3>1
    <3>4. PICK m \in Nat : m = IF y \in s THEN n + 1 ELSE 0
      BY <1>2
    <3>5. k[s] = g[s \ {y}] + m /\ k[s \ {a}] = g[(s \ {y}) \ {a}] + m
      BY <1>k, <3>1, <3>4
    <3>6. g[s \ {y}] \in Nat /\ g[(s \ {y}) \ {a}] \in Nat
      BY <1>11, <3>1
    <3> QED
      BY <3>2, <3>3, <3>5, <3>6
  <2> QED
    BY <2>1, <2>2
<1>15. Totals(k)'
  BY <1>7, <1>12, <1>13, <1>14 DEF Totals
<1>16. k[D \cup {y}] = accepted'
  <2>1. k[D \cup {y}] = g[(D \cup {y}) \ {y}] + (n + 1)
    BY <1>k
  <2>2. (D \cup {y}) \ {y} = D \ {y}
    OBVIOUS
  <2>3. g[D \ {y}] \in Nat /\ accepted \in Nat
    BY <1>10 DEF HookInv
  <2>4. g[D] = n + g[D \ {y}]
    <3>1. CASE y \in D
      BY <1>2, <1>10, <3>1
    <3>2. CASE y \notin D
      <4>1. D \ {y} = D
        BY <3>2
      <4> QED
        BY <1>2, <2>3, <3>2, <4>1
    <3> QED
      BY <3>1, <3>2
  <2>5. k[D \cup {y}] = g[D \ {y}] + (n + 1)
    BY <2>1, <2>2
  <2>6. accepted = n + g[D \ {y}]
    BY <1>6, <2>4
  <2> QED
    BY <1>2, <1>4, <2>3, <2>5, <2>6
<1> QED
  BY <1>5, <1>7, <1>15, <1>16 DEF TokenInv

-----------------------------------------------------------------------------
(* The invariant holds throughout.                                         *)

LEMMA InitInv == Init => Inv
<1> SUFFICES ASSUME Init PROVE Inv
  OBVIOUS
<1>1. /\ hooks = <<>> /\ commands = <<>> /\ DOMAIN hook_agents = {} /\ accepted = 0
      /\ issued = 0
  BY DEF Init
<1>2. HookInv
  BY <1>1, RuntimeAssumption DEF HookInv
<1>3. TokenInv
  <2>1. IsFiniteSet(DOMAIN hook_agents)
    BY <1>1, FS_EmptySet
  <2>2. PICK g : g = [s \in SUBSET DOMAIN hook_agents |-> 0]
    OBVIOUS
  <2>3. Totals(g) /\ g[DOMAIN hook_agents] = accepted
    BY <1>1, <2>2 DEF Totals
  <2> QED
    BY <2>1, <2>3 DEF TokenInv
<1>4. CommandInv
  BY <1>1, RuntimeAssumption DEF CommandInv, ControlOnlyCapable
<1>5. SampleInv
  BY DEF Init, SampleInv, TicksOf, CpuShareSane
<1> QED
  BY <1>2, <1>3, <1>4, <1>5 DEF Inv

LEMMA HooksKeep ==
  ASSUME UNCHANGED hookVars
  PROVE  /\ HookInv => HookInv'
         /\ TokenInv => TokenInv'
         /\ \A a \in Agents : Capable(a) => Capable(a)'
<1>1. hooks' = hooks /\ hook_agents' = hook_agents /\ accepted' = accepted
  BY DEF hookVars
<1>2. HookInv => HookInv'
  BY <1>1 DEF HookInv, Shown, Latest
<1>3. TokenInv => TokenInv'
  BY <1>1 DEF TokenInv, Totals
<1>4. \A a \in Agents : Capable(a) => Capable(a)'
  BY <1>1 DEF Capable
<1> QED
  BY <1>2, <1>3, <1>4

LEMMA SamplesKeep ==
  ASSUME SampleInv, UNCHANGED <<sampleVars, controlVars, host>>
  PROVE  SampleInv'
BY DEF SampleInv, sampleVars, controlVars, CpuShareSane, TicksOf

LEMMA StepInv == Inv /\ [Next]_vars => Inv'
<1> SUFFICES ASSUME Inv, [Next]_vars PROVE Inv'
  OBVIOUS
<1>1. HookInv /\ TokenInv /\ CommandInv /\ SampleInv
  BY DEF Inv
<1>2. ASSUME NEW id \in HookIds, NEW h \in Hook, IngestHook(id, h)
      PROVE  Inv'
  <2>1. UNCHANGED <<commandVars, sampleVars, controlVars, host>>
    BY <1>2 DEF IngestHook
  <2> QED
    BY <1>1, <1>2, <2>1, IngestHookInv, IngestHookTokens, CommandsKeep, SamplesKeep
       DEF Inv
<1>3. ASSUME NEW a \in Agents, EnqueueCommand(a)
      PROVE  Inv'
  <2>1. UNCHANGED <<hookVars, sampleVars, controlVars, host>>
    BY <1>3 DEF EnqueueCommand
  <2> QED
    BY <1>1, <1>3, <2>1, HooksKeep, EnqueueCommandInv, SamplesKeep DEF Inv
<1>4. ASSUME NEW id \in 1..issued, NEW a \in Agents, NEW ok \in BOOLEAN,
             AcknowledgeCommand(id, a, ok)
      PROVE  Inv'
  <2>1. UNCHANGED <<hookVars, sampleVars, controlVars, host>>
    BY <1>4 DEF AcknowledgeCommand
  <2> QED
    BY <1>1, <1>4, <2>1, HooksKeep, AcknowledgeCommandInv, SamplesKeep DEF Inv
<1>5. ASSUME UNCHANGED <<hookVars, commandVars>>, SampleInv'
      PROVE  Inv'
  BY <1>1, <1>5, HooksKeep, CommandsKeep DEF Inv
<1>6. CASE HostRuns
  BY <1>1, <1>5, <1>6, HostRunsInv DEF HostRuns
<1>7. ASSUME NEW on \in BOOLEAN, SetCollection(on)
      PROVE  Inv'
  <2>1. UNCHANGED <<hookVars, commandVars>>
    BY <1>7 DEF SetCollection
  <2> QED
    BY <1>1, <1>5, <1>7, <2>1, SetCollectionInv
<1>8. CASE Tick
  BY <1>1, <1>5, <1>8, TickInv DEF Tick
<1>9. CASE WalkProc
  BY <1>1, <1>5, <1>9, WalkProcInv DEF WalkProc
<1>10. CASE RecordCollectionError
  BY <1>1, <1>5, <1>10, RecordCollectionErrorInv DEF RecordCollectionError
<1>11. CASE ApplyProcSnapshot
  BY <1>1, <1>5, <1>11, ApplyProcSnapshotInv DEF ApplyProcSnapshot
<1>12. CASE UNCHANGED vars
  BY <1>1, <1>5, <1>12, SamplesKeep DEF vars
<1> QED
  BY <1>2, <1>3, <1>4, <1>6, <1>7, <1>8, <1>9, <1>10, <1>11, <1>12 DEF Next

(* The parts of the invariant hold together in every reachable state,      *)
(* however hooks, commands and samples interleave.                         *)
THEOREM InvHolds == Spec => []Inv
BY InitInv, StepInv, PTL DEF Spec

-----------------------------------------------------------------------------
(* The properties the runs check.                                          *)

(* Types; and the windows of retained hooks and commands never exceed      *)
(* their capacities (ingest_hook, enqueue_command).                        *)
THEOREM TypeCorrect == Spec => []TypeOK
<1>1. Inv => TypeOK
  <2> SUFFICES ASSUME Inv PROVE TypeOK
    OBVIOUS
  <2>1. HookInv /\ CommandInv /\ SampleInv
    BY DEF Inv
  <2>2. {enabled, last_error} \subseteq BOOLEAN
    BY <2>1 DEF SampleInv
  <2>3. /\ hooks \in Seq([id : HookIds, agent : Agents, at : Times, kind : HookKinds])
        /\ Len(hooks) <= HookCap /\ DOMAIN hook_agents \subseteq Agents
        /\ \A a \in DOMAIN hook_agents : hook_agents[a] \in HookAgent
    BY <2>1 DEF HookInv, HookRecord
  <2>4. /\ commands \in Seq([id : Nat, agent : Agents,
                             status : {"pending", "acknowledged", "rejected"}])
        /\ Len(commands) <= CommandCap
    BY <2>1 DEF CommandInv, Command
  <2>5. /\ DOMAIN processes = DOMAIN previous.ticks
        /\ collector.at \in {"idle", "walking", "read"}
    BY <2>1 DEF SampleInv
  <2> QED
    BY <2>2, <2>3, <2>4, <2>5 DEF TypeOK
<1> QED
  BY <1>1, InvHolds, PTL

(* Only agents that have reported themselves controllable are ever sent a  *)
(* command, and no later hook takes that back from a command already       *)
(* queued (enqueue_command, ingest_hook).                                  *)
THEOREM OnlyCapableAgentsControlled == Spec => []ControlOnlyCapable
<1>1. Inv => ControlOnlyCapable
  BY DEF Inv, CommandInv
<1> QED
  BY <1>1, InvHolds, PTL

LEMMA MinOfLatest ==
  ASSUME HookInv, NEW a \in DOMAIN hook_agents, Latest(a) # {}
  PROVE  Min(Latest(a)) \in Latest(a) /\ \A j \in Latest(a) : Min(Latest(a)) <= j
<1>1. Latest(a) \subseteq Nat
  BY DEF Latest
<1>2. PICK i \in Latest(a) : \A j \in Latest(a) : <<j, i>> \notin OpToRel(<, Nat)
  BY <1>1, NatLessThanWellFounded, WFMin, Zenon
<1>3. \A j \in Latest(a) : ~(j < i)
  BY <1>1, <1>2 DEF OpToRel
<1>4. \A j \in Latest(a) : i <= j
  BY <1>1, <1>3
<1> QED
  BY <1>4 DEF Min

(* However hooks are delayed, reordered and replayed, an agent shows what  *)
(* the latest of its retained hooks by occurred_at reported                *)
(* (ingest_hook).                                                          *)
THEOREM TheLatestHookWins == Spec => []LatestHookWins
<1>1. Inv => LatestHookWins
  <2> SUFFICES ASSUME Inv, NEW a \in DOMAIN hook_agents
               PROVE  /\ \A i \in 1..Len(hooks) :
                           hooks[i].agent = a => hooks[i].at <= hook_agents[a].last_hook_at
                      /\ Latest(a) # {} =>
                           hook_agents[a].status = StatusOf(hooks[Min(Latest(a))].kind)
                      /\ hook_agents[a].status = "idle" => hook_agents[a].tool = None
    BY DEF LatestHookWins, Latest
  <2>1. HookInv /\ Shown(a)
    BY DEF Inv, HookInv
  <2> QED
    BY <2>1, MinOfLatest DEF Shown
<1> QED
  BY <1>1, InvHolds, PTL

(* An agent's token total grows by exactly one report per accepted hook,   *)
(* and no retained hook was accepted twice, so a replay within the window  *)
(* adds nothing (ingest_hook).                                             *)
THEOREM TokensAreCountedOnce == Spec => []TokensCountedOnce
<1>1. Inv => TokensCountedOnce
  <2> SUFFICES ASSUME Inv PROVE TokensCountedOnce
    OBVIOUS
  <2>1. HookInv /\ IsFiniteSet(DOMAIN hook_agents)
    BY DEF Inv, TokenInv
  <2>2. PICK g : Totals(g) /\ g[DOMAIN hook_agents] = accepted
    BY DEF Inv, TokenInv
  <2>3. MapThenSumSet(LAMBDA a : hook_agents[a].tokens, DOMAIN hook_agents)
          = g[DOMAIN hook_agents]
    BY <2>1, <2>2, SumIsTotal, Zenon
  <2>4. \A i, j \in 1..Len(hooks) : hooks[i].id = hooks[j].id => i = j
    BY <2>1 DEF HookInv
  <2> QED
    BY <2>2, <2>3, <2>4, Zenon DEF TokensCountedOnce
<1> QED
  BY <1>1, InvHolds, PTL

(* After collection is switched off at most the sample that was already    *)
(* being taken is applied, wherever the collector was (run,                *)
(* apply_proc_snapshot).                                                   *)
THEOREM OneLateSample == Spec => []AtMostOneLateSample
<1>1. Inv => AtMostOneLateSample
  BY DEF Inv, SampleInv, AtMostOneLateSample
<1> QED
  BY <1>1, InvHolds, PTL

(* A CPU share never has a negative numerator or a zero denominator,       *)
(* whatever pids are reused and samples are skipped or dropped             *)
(* (apply_proc_snapshot).                                                  *)
THEOREM CpuSharesAreSane == Spec => []CpuShareSane
<1>1. Inv => CpuShareSane
  BY DEF Inv, SampleInv
<1> QED
  BY <1>1, InvHolds, PTL

(* Two sampled processes have the same id only where an agent shares it.   *)
LEMMA SamePidOfKey ==
  ASSUME Inv, NEW owner \in OwnerMaps, NEW p \in DOMAIN processes,
         NEW q \in DOMAIN processes, KeyOf(p, owner) = KeyOf(q, owner),
         KeyOf(p, owner) \notin Shared(owner)
  PROVE  p = q
<1>1. \A r \in DOMAIN owner : owner[r] \in DOMAIN hook_agents /\ hook_agents[owner[r]].pid = r
  BY DEF OwnerMaps
<1>2. p \in Pids /\ q \in Pids
  BY DEF Inv, SampleInv, TicksOf
<1>3. CASE p \in DOMAIN owner /\ q \in DOMAIN owner
  BY <1>1, <1>3 DEF KeyOf
<1>4. CASE p \notin DOMAIN owner /\ q \notin DOMAIN owner
  BY <1>2, <1>4, RuntimeAssumption DEF KeyOf
<1>5. CASE p \in DOMAIN owner /\ q \notin DOMAIN owner
  BY <1>1, <1>5 DEF KeyOf, Shared
<1>6. CASE p \notin DOMAIN owner /\ q \in DOMAIN owner
  BY <1>1, <1>6 DEF KeyOf, Shared
<1> QED
  BY <1>3, <1>4, <1>5, <1>6

(* Under an id that no agent shares with the row of an unclaimed process,  *)
(* the row of an agent or of a process shows the sampled figures of its    *)
(* own pid.                                                                *)
LEMMA RowShowsItsPid ==
  ASSUME Inv, NEW owner \in OwnerMaps, NEW shown \in Inserted(owner),
         NEW k \in (DOMAIN hook_agents \cup DOMAIN shown) \ Shared(owner)
  PROVE  /\ FiguresOfPid(Snapshot(owner, shown)[k])
         /\ k \in DOMAIN shown => /\ Snapshot(owner, shown)[k].pid = shown[k]
                                  /\ Snapshot(owner, shown)[k].rss = shown[k]
<1> DEFINE row == Snapshot(owner, shown)[k]
<1>1. k \in DOMAIN shown => shown[k] \in DOMAIN processes /\ KeyOf(shown[k], owner) = k
  BY DEF Inserted
<1>2. \A p \in DOMAIN owner : owner[p] \in DOMAIN hook_agents /\ hook_agents[owner[p]].pid = p
  BY DEF OwnerMaps
<1>3. CASE k \notin DOMAIN shown
  <2>1. k \in DOMAIN hook_agents /\ row = HookRow(hook_agents[k])
    BY <1>3 DEF Snapshot
  <2> QED
    BY <1>3, <2>1 DEF HookRow, FiguresOfPid
<1>4. CASE k \in DOMAIN shown /\ k \notin DOMAIN hook_agents
  <2>1. row = ProcessRow(shown[k])
    BY <1>4 DEF Snapshot
  <2> QED
    BY <1>1, <1>4, <2>1 DEF ProcessRow, FiguresOfPid
<1>5. CASE k \in DOMAIN shown /\ k \in DOMAIN hook_agents
  <2>1. row = Adopted(ProcessRow(shown[k]), hook_agents[k])
    BY <1>5 DEF Snapshot
  <2>2. shown[k] \in DOMAIN owner
    BY <1>1, <1>5 DEF KeyOf, Shared
  <2>3. hook_agents[k].pid = shown[k]
    BY <1>1, <1>2, <1>5, <2>2 DEF KeyOf
  <2>4. row.pid = shown[k] /\ row.rss = shown[k]
    BY <2>1, <2>3 DEF Adopted, ProcessRow
  <2>5. row.cpu = IF processes[shown[k]] = None THEN "unreported" ELSE shown[k]
    BY <2>1 DEF Adopted, ProcessRow
  <2> QED
    BY <1>1, <1>5, <2>4, <2>5 DEF FiguresOfPid
<1> QED
  BY <1>3, <1>4, <1>5

(* In the merged snapshot the counters of a sampled process win over what  *)
(* the agents claiming its pid report, and every sampled process has a     *)
(* row, whichever of several claimants the pid map names and whatever the  *)
(* agents are called, except under an id that an agent shares with the row *)
(* of an unclaimed process; that row shows the figures of one process; and *)
(* only agents that can be controlled are shown as such (snapshot).        *)
THEOREM ProcessesTakePrecedence == Spec => []ProcessTakesPrecedence
<1>1. ASSUME Inv, NEW owner \in OwnerMaps, NEW shown \in Inserted(owner)
      PROVE  LET rows == Snapshot(owner, shown)
             IN  /\ \A k \in DOMAIN rows \ Shared(owner) : FiguresOfPid(rows[k])
                 /\ \A p \in DOMAIN processes :
                      KeyOf(p, owner) \notin Shared(owner) =>
                        \E k \in DOMAIN rows : rows[k].pid = p /\ rows[k].rss = p
                 /\ \A k \in Shared(owner) :
                      /\ rows[k].rss \in DOMAIN processes
                      /\ rows[k].cpu \in {rows[k].rss, "unreported"}
                 /\ \A k \in DOMAIN rows : rows[k].control_capable => Capable(k)
  <2> DEFINE rows == Snapshot(owner, shown)
  <2>1. DOMAIN rows = DOMAIN hook_agents \cup DOMAIN shown
    BY DEF Snapshot
  <2>2. DOMAIN shown = {KeyOf(p, owner) : p \in DOMAIN processes}
    BY <1>1 DEF Inserted
  <2>3. \A k \in DOMAIN shown : shown[k] \in DOMAIN processes /\ KeyOf(shown[k], owner) = k
    BY <1>1, <2>2 DEF Inserted
  <2>4. \A k \in DOMAIN shown \cap DOMAIN hook_agents :
          rows[k] = Adopted(ProcessRow(shown[k]), hook_agents[k])
    BY DEF Snapshot
  <2>5. ASSUME NEW k \in DOMAIN rows \ Shared(owner) PROVE FiguresOfPid(rows[k])
    BY <1>1, <2>1, <2>5, RowShowsItsPid
  <2>6. ASSUME NEW p \in DOMAIN processes, KeyOf(p, owner) \notin Shared(owner)
        PROVE  \E k \in DOMAIN rows : rows[k].pid = p /\ rows[k].rss = p
    <3> DEFINE k == KeyOf(p, owner)
    <3>1. k \in DOMAIN shown /\ k \notin Shared(owner)
      BY <2>2, <2>6
    <3>2. shown[k] \in DOMAIN processes /\ KeyOf(shown[k], owner) = k
      BY <2>3, <3>1
    <3>3. shown[k] = p
      BY <1>1, <2>6, <3>1, <3>2, SamePidOfKey
    <3>4. rows[k].pid = p /\ rows[k].rss = p
      BY <1>1, <3>1, <3>3, RowShowsItsPid
    <3> QED
      BY <2>1, <3>1, <3>4
  <2>7. ASSUME NEW k \in Shared(owner)
        PROVE  rows[k].rss \in DOMAIN processes /\ rows[k].cpu \in {rows[k].rss, "unreported"}
    <3>1. k \in DOMAIN shown \cap DOMAIN hook_agents
      BY <2>2, <2>7 DEF Shared, KeyOf
    <3>2. rows[k] = Adopted(ProcessRow(shown[k]), hook_agents[k])
      BY <2>4, <3>1
    <3>3. /\ rows[k].rss = shown[k]
          /\ rows[k].cpu = IF processes[shown[k]] = None THEN "unreported" ELSE shown[k]
      BY <3>2 DEF Adopted, ProcessRow
    <3> QED
      BY <2>3, <3>1, <3>3
  <2>8. ASSUME NEW k \in DOMAIN rows, rows[k].control_capable PROVE Capable(k)
    <3>1. CASE k \in DOMAIN hook_agents
      <4>1. rows[k].control_capable = hook_agents[k].control_capable
        <5>1. CASE k \in DOMAIN shown
          BY <2>4, <3>1, <5>1 DEF Adopted, ProcessRow
        <5>2. CASE k \notin DOMAIN shown
          BY <3>1, <5>2 DEF Snapshot, HookRow
        <5> QED
          BY <5>1, <5>2
      <4> QED
        BY <2>8, <3>1, <4>1 DEF Capable
    <3>2. CASE k \notin DOMAIN hook_agents
      <4>1. rows[k] = ProcessRow(shown[k])
        BY <2>1, <2>8, <3>2 DEF Snapshot
      <4> QED
        BY <2>8, <4>1 DEF ProcessRow
    <3> QED
      BY <3>1, <3>2
  <2> QED
    BY <2>5, <2>6, <2>7, <2>8
<1>2. Inv => ProcessTakesPrecedence
  BY <1>1 DEF ProcessTakesPrecedence
<1> QED
  BY <1>2, InvHolds, PTL

=============================================================================
