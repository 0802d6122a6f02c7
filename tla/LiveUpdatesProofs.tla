------------------------- MODULE LiveUpdatesProofs -------------------------
(***************************************************************************)
(* Proofs about LiveUpdates for any runs, fingerprints and workflows, and     *)
(* any number of connections and selections.                               *)
(***************************************************************************)
EXTENDS LiveUpdates, SequenceTheorems, TLAPS

-----------------------------------------------------------------------------
(* What the server may remember of a run while a poll of its client is        *)
(* suspended in a send: of the runs still to do, what the last event said or    *)
(* nothing; of the others, what it is about to write back.                  *)

Known(r) == client.sent[r] \in {0, Fingerprint(last[r])}

WireInv ==
    /\ TypeOK
    /\ ~open => poll.stage = "idle"
    /\ poll.stage = "sending" =>
         /\ poll.workflow \in Workflow
         /\ poll.todo \subseteq {r \in RunsOf(poll.workflow) : poll.runs[r] # 0}
    /\ \A r \in Run : (poll.stage = "sending" => r \in poll.todo) => Known(r)
    /\ poll.stage = "sending" =>
         \A r \in RunsOf(poll.workflow) \ poll.todo :
            poll.runs[r] # 0 => Fingerprint(last[r]) = Fingerprint(poll.runs[r])

USE DEF Run, State

\* Fingerprints of existing runs are positive.
LEMMA FingerprintType ==
    ASSUME NEW v \in State
    PROVE  Fingerprint(v) \in Nat /\ (v # 0 => Fingerprint(v) # 0)
BY LiveAssumption DEF LiveAssumption, Fingerprint

LEMMA NextFingerprintsType ==
    ASSUME TypeOK, NEW w
    PROVE  NextFingerprints(w) \in [Run -> Nat]
BY FingerprintType DEF TypeOK, Poll, NextFingerprints

LEMMA FreshValues ==
    /\ Nothing \in [Run -> State] /\ Nothing \in [Run -> Nat]
    /\ NewClient \in Client /\ NoPoll \in Poll
<1>1. 0 \in State
  BY LiveAssumption DEF LiveAssumption
<1>2. Nothing \in [Run -> State] /\ Nothing \in [Run -> Nat]
  BY <1>1 DEF Nothing
<1> QED
  BY <1>2 DEF NewClient, NoPoll, Client, Poll

LEMMA RunsAreNumbers == Run \subseteq Nat
BY LiveAssumption DEF LiveAssumption

LEMMA RequestType == ASSUME NEW g \in Nat PROVE Request(g) \in Rest /\ Settled \in Rest
BY DEF Request, Settled, Rest

LEMMA InitWire == Init => WireInv
<1> SUFFICES ASSUME Init PROVE WireInv
  OBVIOUS
<1>1. runs \in [Run -> State] /\ rest \in Rest
  <2>1. 0 \in State /\ 1 \in State
    BY LiveAssumption DEF LiveAssumption
  <2> QED
    BY <2>1, RequestType DEF Init
<1>2. open \in BOOLEAN /\ hydrated \in BOOLEAN /\ loaded \in BOOLEAN /\ refused \in BOOLEAN
  BY Zenon DEF Init
<1>3. up \in Seq(Workflow) /\ down \in Seq(Event)
  BY DEF Init
<1>4. resyncs \subseteq 1..generation /\ generation \in Nat
  BY DEF Init
<1>5. /\ connections \in 0..MaxConnections /\ switches \in 0..MaxSwitches
      /\ refetches \in 0..MaxRefetches
  BY LiveAssumption DEF LiveAssumption, Init
<1>6. TypeOK
  BY <1>1, <1>2, <1>3, <1>4, <1>5, FreshValues DEF Init, TypeOK
<1> QED
  BY <1>6 DEF Init, WireInv, Known, NewClient, NoPoll, Nothing

\* The part of the invariant about fingerprints only looks at the server, the runs it
\* read and the last events.
LEMMA WireUnchanged ==
    ASSUME WireInv, UNCHANGED <<client, poll, open, last>>, TypeOK'
    PROVE  WireInv'
BY DEF WireInv, Known, Fingerprint, RunsOf

-----------------------------------------------------------------------------
(* The poller.                                                             *)

\* A turn, begun or resumed, as long as the fingerprints of its runs still to do are
\* those of the last events and the others are up to date.
LEMMA EmitWire ==
    ASSUME WireInv, open,
           NEW w \in Workflow, NEW todo \in SUBSET RunsOf(w),
           \A r \in todo : Known(r),
           \A r \in RunsOf(w) \ todo :
              poll.runs[r] # 0 => Fingerprint(last[r]) = Fingerprint(poll.runs[r]),
           \A r \in todo : poll.runs[r] # 0,
           EmitRuns(w, todo),
           UNCHANGED <<runs, up, open, tabVars, bounds, refused, due>>
    PROVE  WireInv'
<1>0. TypeOK
  BY DEF WireInv
<1>t. todo \subseteq Run /\ \A r \in Run : poll.runs[r] \in State
  BY <1>0 DEF TypeOK, Poll, RunsOf
<1>1. CASE /\ Changed(todo) = {}
           /\ client' = [client EXCEPT !.sent = NextFingerprints(w)]
           /\ poll' = NoPoll
           /\ UNCHANGED <<down, last>>
  <2>1. client' \in Client /\ poll' \in Poll
    <3>1. NextFingerprints(w) \in [Run -> Nat]
      BY <1>0, NextFingerprintsType
    <3> QED
      BY <1>0, <1>1, <3>1, FreshValues DEF TypeOK, Client
  <2>2. TypeOK'
    BY <1>0, <1>1, <2>1 DEF TypeOK, tabVars, bounds
  <2>3. poll'.stage = "idle"
    BY <1>1 DEF NoPoll
  <2>4. ASSUME NEW r \in Run PROVE Known(r)'
    <3>1. client'.sent[r] = IF GraphOf[r] = w THEN Fingerprint(poll.runs[r]) ELSE 0
      BY <1>0, <1>1 DEF TypeOK, Client, NextFingerprints
    <3>2. CASE GraphOf[r] = w /\ poll.runs[r] # 0
      <4>1. r \in RunsOf(w)
        BY <3>2 DEF RunsOf
      <4>2. CASE r \in todo
        <5>1. client.sent[r] = Fingerprint(poll.runs[r])
          BY <1>1, <4>2 DEF Changed
        <5>2. Fingerprint(poll.runs[r]) # 0
          BY <1>t, <3>2, FingerprintType
        <5> QED
          BY <1>1, <3>1, <3>2, <4>2, <5>1, <5>2 DEF Known, Fingerprint
      <4>3. CASE r \notin todo
        BY <1>1, <3>1, <3>2, <4>1, <4>3 DEF Known, Fingerprint
      <4> QED
        BY <4>2, <4>3
    <3>3. CASE ~(GraphOf[r] = w /\ poll.runs[r] # 0)
      BY <3>1, <3>3 DEF Known, Fingerprint
    <3> QED
      BY <3>2, <3>3
  <2> QED
    BY <2>2, <2>3, <2>4 DEF WireInv
<1>2. ASSUME NEW r \in Changed(todo), IsFirst(r, Changed(todo)),
             SendRun(r, w, todo), UNCHANGED client
      PROVE  WireInv'
  <2>0. r \in todo /\ r \in Run /\ poll.runs[r] \in State \ {0}
    BY <1>2, <1>t DEF Changed
  <2>1. poll'.stage = "sending" /\ poll'.workflow = w /\ poll'.runs = poll.runs
        /\ poll'.todo = {q \in todo : q > r}
    BY <1>2, <1>0 DEF SendRun, TypeOK, Poll
  <2>2. poll' \in Poll
    BY <1>2, <1>0, <1>t DEF SendRun, TypeOK, Poll
  <2>3. down' \in Seq(Event) /\ last' \in [Run -> State]
    <3>1. [run |-> r, state |-> poll.runs[r]] \in Event
      BY <2>0 DEF Event
    <3>2. down \in Seq(Event) /\ last \in [Run -> State]
      BY <1>0 DEF TypeOK
    <3>3. Append(down, [run |-> r, state |-> poll.runs[r]]) \in Seq(Event)
      BY <3>1, <3>2, AppendProperties
    <3> QED
      BY <1>2, <2>0, <3>2, <3>3 DEF SendRun
  <2>4. TypeOK'
    BY <1>0, <1>2, <2>2, <2>3 DEF TypeOK, tabVars, bounds
  <2>5. last'[r] = poll.runs[r] /\ \A q \in Run \ {r} : last'[q] = last[q]
    BY <1>2, <1>0, <2>0 DEF SendRun, TypeOK
  <2>6. ASSUME NEW q \in Run, q \in poll'.todo PROVE Known(q)'
    <3>1. q \in todo /\ q # r
      BY <2>0, <2>1, <2>6, RunsAreNumbers
    <3> QED
      BY <1>2, <2>5, <3>1 DEF Known, Fingerprint
  <2>7. ASSUME NEW q \in RunsOf(w) \ poll'.todo, poll.runs[q] # 0
        PROVE  Fingerprint(last'[q]) = Fingerprint(poll.runs[q])
    <3>0. q \in Run
      BY DEF RunsOf
    <3>1. CASE q = r
      BY <2>5, <3>1 DEF Fingerprint
    <3>2. CASE q # r /\ q \in todo
      <4>1. q < r
        BY <2>0, <2>1, <2>7, <3>0, <3>2, RunsAreNumbers
      <4>2. q \notin Changed(todo)
        BY <1>2, <2>0, <3>0, <4>1, RunsAreNumbers DEF IsFirst
      <4>3. client.sent[q] = Fingerprint(poll.runs[q]) /\ Known(q)
        BY <3>2, <4>2 DEF Changed
      <4>4. Fingerprint(poll.runs[q]) # 0
        BY <1>t, <2>7, <3>0, FingerprintType
      <4>5. Fingerprint(last[q]) = Fingerprint(poll.runs[q])
        BY <4>3, <4>4 DEF Known
      <4> QED
        BY <2>5, <3>0, <3>2, <4>5
    <3>3. CASE q # r /\ q \notin todo
      BY <2>5, <2>7, <3>0, <3>3
    <3> QED
      BY <3>1, <3>2, <3>3
  <2>8. \A q \in RunsOf(poll'.workflow) \ poll'.todo :
           poll'.runs[q] # 0 => Fingerprint(last'[q]) = Fingerprint(poll'.runs[q])
    BY <2>1, <2>7
  <2>9. /\ poll'.workflow \in Workflow
        /\ poll'.todo \subseteq {q \in RunsOf(poll'.workflow) : poll'.runs[q] # 0}
    BY <2>1
  <2>10. open'
    OBVIOUS
  <2> QED
    BY <2>1, <2>4, <2>6, <2>8, <2>9, <2>10 DEF WireInv, Known, RunsOf, Fingerprint
<1> QED
  BY <1>1, <1>2 DEF EmitRuns

LEMMA PollWire ==
    ASSUME WireInv, PollStep
    PROVE  WireInv'
<1>0. TypeOK
  BY DEF WireInv
<1>1. CASE BeginPoll
  <2>1. poll' \in Poll /\ poll'.stage = "read"
    BY <1>0, <1>1, FreshValues DEF BeginPoll, TypeOK, Poll
  <2>2. TypeOK'
    BY <1>0, <1>1, <2>1 DEF BeginPoll, TypeOK, tabVars, bounds
  <2> QED
    BY <1>1, <2>1, <2>2 DEF WireInv, BeginPoll, Known, Fingerprint
<1>2. CASE BeginTurn
  <2>1. open /\ client.workflow \in Workflow /\ \A r \in Run : Known(r)
    BY <1>0, <1>2 DEF BeginTurn, WireInv, TypeOK, Client
  <2> DEFINE todo == {r \in RunsOf(client.workflow) : poll.runs[r] # 0}
  <2>2. todo \subseteq RunsOf(client.workflow) /\ todo \subseteq Run
    BY DEF RunsOf
  <2>3. EmitRuns(client.workflow, todo) /\ UNCHANGED <<runs, up, open, tabVars, bounds, refused, due>>
    BY <1>2 DEF BeginTurn
  <2>4. \A r \in RunsOf(client.workflow) \ todo :
           poll.runs[r] # 0 => Fingerprint(last[r]) = Fingerprint(poll.runs[r])
    OBVIOUS
  <2>5. \A r \in todo : Known(r) /\ poll.runs[r] # 0
    BY <2>1, <2>2
  <2> HIDE DEF todo
  <2> QED
    BY <2>1, <2>2, <2>3, <2>4, <2>5, EmitWire
<1>3. CASE SkipTurn
  <2>1. poll' \in Poll /\ poll'.stage = "idle"
    BY <1>3, FreshValues DEF SkipTurn, NoPoll
  <2>2. TypeOK'
    BY <1>0, <1>3, <2>1 DEF SkipTurn, TypeOK, tabVars, bounds
  <2> QED
    BY <1>3, <2>1, <2>2 DEF WireInv, SkipTurn, Known, Fingerprint
<1>4. CASE ResumeTurn
  <2>1. open /\ poll.workflow \in Workflow /\ \A r \in poll.todo : Known(r)
    BY <1>0, <1>4 DEF ResumeTurn, WireInv, TypeOK, Poll
  <2>2. poll.todo \subseteq RunsOf(poll.workflow) /\ \A r \in poll.todo : poll.runs[r] # 0
    BY <1>4 DEF ResumeTurn, WireInv
  <2>3. EmitRuns(poll.workflow, poll.todo)
        /\ UNCHANGED <<runs, up, open, tabVars, bounds, refused, due>>
    BY <1>4 DEF ResumeTurn
  <2>4. \A r \in RunsOf(poll.workflow) \ poll.todo :
           poll.runs[r] # 0 => Fingerprint(last[r]) = Fingerprint(poll.runs[r])
    BY <1>4 DEF ResumeTurn, WireInv
  <2> QED
    BY <2>1, <2>2, <2>3, <2>4, EmitWire
<1> QED
  BY <1>1, <1>2, <1>3, <1>4 DEF PollStep

-----------------------------------------------------------------------------
(* The socket, the subscription and the tab.                               *)

LEMMA AskType == ASSUME TypeOK, NEW g \in Nat, Ask(g) PROVE rest' \in Rest
<1>1. [rest EXCEPT !.resync = g] \in Rest
  BY DEF TypeOK, Rest
<1> QED
  BY <1>1, RequestType DEF Ask

LEMMA ResyncType ==
    ASSUME TypeOK, Resync
    PROVE  /\ generation' \in Nat /\ hydrated' \in BOOLEAN /\ resyncs' \subseteq 1..generation'
           /\ rest' \in Rest /\ shown' \in [Run -> State] /\ loaded' \in BOOLEAN
<1>1. hydrated' \in BOOLEAN
  BY Zenon DEF Resync
<1>2. generation' \in Nat /\ resyncs' \subseteq 1..generation'
  BY DEF Resync, TypeOK
<1>3. rest' \in Rest
  BY AskType DEF Resync, TypeOK
<1>4. shown' \in [Run -> State] /\ loaded' \in BOOLEAN
  BY DEF Resync, TypeOK
<1> QED
  BY <1>1, <1>2, <1>3, <1>4

\* An action that touches neither the server's client nor its poll.
LEMMA TabWire ==
    ASSUME WireInv, [Next]_vars, UNCHANGED <<client, poll, open, last>>
    PROVE  TypeOK'
<1>0. TypeOK
  BY DEF WireInv
<1>1. ASSUME NEW r \in Run, Advance(r) PROVE TypeOK'
  <2>1. runs[r] + 1 \in State
    <3>1. Len(Digest) \in Nat /\ Final[r] \in 0..Len(Digest)
      BY LiveAssumption DEF LiveAssumption
    <3>2. runs[r] \in 0..Len(Digest) /\ runs[r] < Final[r]
      BY <1>0, <1>1 DEF Advance, TypeOK
    <3> QED
      BY <3>1, <3>2
  <2>2. runs' \in [Run -> State]
    BY <1>0, <1>1, <2>1 DEF Advance, TypeOK
  <2>3. due' \in [Run -> Nat]
    BY <1>0, <1>1, <2>1, FingerprintType DEF Advance, TypeOK
  <2> QED
    BY <1>0, <1>1, <2>2, <2>3 DEF Advance, TypeOK, serverVars, tabVars, bounds
<1>2. ASSUME NEW w \in Workflow, Switch(w) PROVE TypeOK'
  <2>1. due' \in [Run -> Nat] /\ workflow' \in Workflow
    <3>1. due' = Nothing /\ workflow' = w
      BY <1>2 DEF Switch
    <3> QED
      BY <3>1, FreshValues
  <2>4. switches' \in 0..MaxSwitches
    BY <1>0, <1>2, LiveAssumption DEF Switch, TypeOK, LiveAssumption
  <2>2. up' \in Seq(Workflow)
    <3>1. up \in Seq(Workflow) /\ (up' = up \/ up' = Append(up, w))
      BY <1>0, <1>2 DEF Switch, TypeOK
    <3>2. Append(up, w) \in Seq(Workflow)
      BY <3>1, AppendProperties
    <3> QED
      BY <3>1, <3>2
  <2>3. generation' \in Nat /\ hydrated' \in BOOLEAN /\ resyncs' \subseteq 1..generation'
        /\ rest' \in Rest /\ shown' \in [Run -> State] /\ loaded' \in BOOLEAN
    BY <1>0, <1>2, ResyncType DEF Switch, TypeOK
  <2> QED
    BY <1>0, <1>2, <2>1, <2>2, <2>3, <2>4 DEF Switch, TypeOK, serverVars
<1>3. CASE AnswerRuns
  BY <1>0, <1>3 DEF AnswerRuns, TypeOK, Rest, serverVars, bounds
<1>4. CASE DeliverRuns
  <2>1. shown' \in [Run -> State]
    BY <1>0, <1>4 DEF DeliverRuns, TypeOK, Rest
  <2>2. loaded' \in BOOLEAN
    BY <1>4, Zenon DEF DeliverRuns
  <2>3. rest' \in Rest
    BY <1>4, RequestType DEF DeliverRuns
  <2> QED
    BY <1>0, <1>4, <2>1, <2>2, <2>3 DEF DeliverRuns, TypeOK, serverVars, bounds
<1>5. ASSUME NEW g \in resyncs, Settle(g) PROVE TypeOK'
  <2>1. hydrated' \in BOOLEAN
    BY <1>5, Zenon DEF Settle
  <2> QED
    BY <1>0, <1>5, <2>1 DEF Settle, TypeOK, serverVars, bounds
<1>6. CASE Receive
  <2>1. Head(down) \in Event /\ Tail(down) \in Seq(Event)
    BY <1>0, <1>6, HeadTailProperties DEF Receive, TypeOK
  <2>2. shown' \in [Run -> State]
    BY <1>0, <1>6, <2>1 DEF Receive, TypeOK, Event
  <2> QED
    BY <1>0, <1>6, <2>1, <2>2 DEF Receive, TypeOK, serverVars, bounds
<1>7. CASE UNCHANGED vars
  BY <1>0, <1>7 DEF vars, TypeOK, serverVars, tabVars, bounds
<1>8. CASE PollStep
  BY <1>8, PollWire DEF WireInv
<1>9. CASE HandleSubscribe
  <2>1. up' \in Seq(Workflow)
    BY <1>0, <1>9, HeadTailProperties
       DEF HandleSubscribe, Subscribe, RefuseSubscription, TypeOK
  <2>2. refused' \in BOOLEAN
    BY <1>9, Zenon DEF HandleSubscribe, Subscribe, RefuseSubscription
  <2> QED
    BY <1>0, <1>9, <2>1, <2>2
       DEF HandleSubscribe, Subscribe, RefuseSubscription, TypeOK, serverVars, tabVars, bounds
<1>10. CASE Connect \/ Drop
  BY <1>10 DEF Connect, Drop
<1>11. CASE Refetch
  <2>1. rest' \in Rest
    BY <1>0, <1>11, AskType DEF Refetch
  <2>2. refetches' \in 0..MaxRefetches
    BY <1>0, <1>11, LiveAssumption DEF Refetch, TypeOK, LiveAssumption
  <2> QED
    BY <1>0, <1>11, <2>1, <2>2 DEF Refetch, TypeOK, serverVars
<1> QED
  BY <1>1, <1>2, <1>3, <1>4, <1>5, <1>6, <1>7, <1>8, <1>9, <1>10, <1>11 DEF Next, RestStep

LEMMA SubscribeWire ==
    ASSUME WireInv, Subscribe
    PROVE  WireInv'
<1>0. TypeOK
  BY DEF WireInv
<1>1. Head(up) \in Workflow /\ Tail(up) \in Seq(Workflow)
  BY <1>0, HeadTailProperties DEF Subscribe, TypeOK
<1>2. client' \in Client /\ client'.sent = Nothing
  BY <1>1, FreshValues DEF Subscribe, Client, Nothing
<1>3. TypeOK'
  <2>1. refused' \in BOOLEAN
    BY Zenon DEF Subscribe
  <2> QED
    BY <1>0, <1>1, <1>2, <2>1 DEF Subscribe, TypeOK, tabVars, bounds
<1>4. \A r \in Run : client'.sent[r] = 0
  BY <1>2 DEF Nothing
<1> QED
  BY <1>3, <1>4 DEF Subscribe, WireInv, Known, Fingerprint, RunsOf

\* A new socket, and the end of one, leave a client without fingerprints and no poll.
LEMMA SocketWire ==
    ASSUME WireInv, Connect \/ Drop
    PROVE  WireInv'
<1>0. TypeOK
  BY DEF WireInv
<1>1. client' = NewClient /\ poll'.stage = "idle"
  BY DEF WireInv, Connect, Drop, NoPoll
<1>2. TypeOK'
  <2>1. CASE Connect
    <3>1. generation' \in Nat /\ hydrated' \in BOOLEAN /\ resyncs' \subseteq 1..generation'
          /\ rest' \in Rest /\ shown' \in [Run -> State] /\ loaded' \in BOOLEAN
      BY <1>0, <2>1, ResyncType DEF Connect
    <3>2. connections' \in 0..MaxConnections /\ up' \in Seq(Workflow)
      BY <1>0, <2>1, LiveAssumption DEF Connect, TypeOK, LiveAssumption
    <3>3. open' \in BOOLEAN
      BY <2>1, Zenon DEF Connect
    <3> QED
      BY <1>0, <2>1, <3>1, <3>2, <3>3, FreshValues DEF Connect, TypeOK
  <2>2. CASE Drop
    <3>1. open' \in BOOLEAN /\ hydrated' \in BOOLEAN /\ refused' \in BOOLEAN
      BY <2>2, Zenon DEF Drop
    <3>2. up' \in Seq(Workflow) /\ down' \in Seq(Event)
      BY <2>2 DEF Drop
    <3> QED
      BY <1>0, <2>2, <3>1, <3>2, FreshValues DEF Drop, TypeOK, bounds
  <2> QED
    BY <2>1, <2>2
<1>3. \A r \in Run : client'.sent[r] = 0
  BY <1>1 DEF NewClient, Nothing
<1> QED
  BY <1>1, <1>2, <1>3 DEF WireInv, Known

LEMMA StepWire == WireInv /\ [Next]_vars => WireInv'
<1> SUFFICES ASSUME WireInv, [Next]_vars PROVE WireInv'
  OBVIOUS
<1>1. CASE UNCHANGED <<client, poll, open, last>>
  BY <1>1, TabWire, WireUnchanged
<1>2. CASE PollStep
  BY <1>2, PollWire
<1>3. CASE HandleSubscribe
  BY <1>1, <1>3, SubscribeWire DEF HandleSubscribe, RefuseSubscription, serverVars
<1>4. CASE Connect \/ Drop
  BY <1>4, SocketWire
<1>5. CASE UNCHANGED vars
  BY <1>1, <1>5 DEF vars, serverVars
<1>6. ASSUME NEW r \in Run, Advance(r) PROVE WireInv'
  BY <1>1, <1>6 DEF Advance, serverVars
<1>7. ASSUME NEW w \in Workflow, Switch(w) PROVE WireInv'
  BY <1>1, <1>7 DEF Switch, serverVars
<1>8. CASE RestStep
  BY <1>1, <1>8 DEF RestStep, AnswerRuns, DeliverRuns, serverVars
<1>9. ASSUME NEW g \in resyncs, Settle(g) PROVE WireInv'
  BY <1>1, <1>9 DEF Settle, serverVars
<1>10. CASE Receive
  BY <1>1, <1>10 DEF Receive, serverVars
<1>11. CASE Refetch
  BY <1>1, <1>11 DEF Refetch, serverVars
<1> QED
  BY <1>2, <1>3, <1>4, <1>5, <1>6, <1>7, <1>8, <1>9, <1>10, <1>11 DEF Next

LEMMA WireInvariant == Spec => []WireInv
BY InitWire, StepWire, PTL DEF Spec

-----------------------------------------------------------------------------
(* The theorems.                                                           *)

\* Poller, socket, subscription and tab keep their types in every interleaving.
THEOREM TypeCorrect == Spec => []TypeOK
<1>1. WireInv => TypeOK
  BY DEF WireInv
<1> QED
  BY <1>1, WireInvariant, PTL

\* _emit_run_events: whatever subscriptions and polls interleave at its awaits, a client
\* whose poll is not suspended in a send has, for every run, the fingerprint of the last
\* event it was sent about it or none: no state of a run is skipped as already sent.
THEOREM NothingIsSkipped == Spec => []FingerprintsMatchWire
<1>1. WireInv => FingerprintsMatchWire
  BY DEF WireInv, FingerprintsMatchWire, Known
<1> QED
  BY <1>1, WireInvariant, PTL

=============================================================================
