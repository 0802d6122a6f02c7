---------------------------- MODULE LiveUpdates ----------------------------
(***************************************************************************)
(* Live run updates of one browser tab: the poller and the websocket         *)
(* handler of backend/server/live.py and app.py, the hook                    *)
(* frontend/src/live/useLiveUpdates.ts, the socket between them (FIFO both    *)
(* ways) and the REST requests for the list of runs. Server and hook are      *)
(* event loops: an action runs from one await to the next.                  *)
(***************************************************************************)
EXTENDS Integers, Sequences

CONSTANTS
    Workflow,       \* workflow ids
    GraphOf,        \* GraphOf[r]: graph_name of run r; the runs are numbered in list order
    Existing,       \* the runs that have begun when the tab is opened
    Final,          \* Final[r]: the last state of run r
    Digest,         \* Digest[v]: the fingerprints (summary, spans) of a run in its v-th state
    MaxConnections, \* bound: sockets the tab opens
    MaxSwitches,    \* bound: selections of another workflow
    MaxRefetches,   \* bound: requests for the list that no resync makes
    None

ASSUME LiveAssumption ==
    /\ GraphOf \in Seq(Workflow)
    /\ Digest \in Seq(Nat \ {0}) /\ Digest # <<>>
    /\ Final \in [DOMAIN GraphOf -> 0..Len(Digest)]
    /\ MaxConnections \in Nat /\ MaxSwitches \in Nat /\ MaxRefetches \in Nat
    /\ None \notin Workflow

VARIABLES
    runs,        \* runs[r]: the state of r in its directory; 0 before it exists
    client,      \* the tab's _ClientState, if it is registered
    poll,        \* the poller's turn with that client
    up,          \* subscribe messages under way
    down,        \* run events under way
    open,        \* the socket is open
    workflow,    \* workflowRef
    generation,  \* generationRef
    hydrated,    \* hydratedRef
    resyncs,     \* generations whose Promise.all is not settled
    rest,        \* the GET /api/runs under way
    shown,       \* queryClient's ["runs"]
    loaded,      \* it has data
    connections, \* sockets opened so far
    switches,    \* selections so far
    refetches,   \* requests outside resyncs so far
    refused,     \* history: the last subscribe message of this socket was refused
    last,        \* history: the state of r this socket's last event about r carried
    due          \* history: the last fingerprint r changed to while the tab was hydrated; 0 if
                 \* an older list was on its way to it that no resync had asked for

serverVars == <<client, poll>>
tabVars == <<workflow, generation, hydrated, resyncs, rest, shown, loaded>>
bounds == <<connections, switches, refetches>>
vars == <<runs, serverVars, up, down, open, tabVars, bounds, refused, last, due>>

Run == DOMAIN GraphOf
State == 0..Len(Digest)
Fingerprint(v) == IF v = 0 THEN 0 ELSE Digest[v]
RunsOf(w) == {r \in Run : GraphOf[r] = w}

Client == [workflow : Workflow \union {None}, sent : [Run -> Nat]]
Poll == [stage : {"idle", "read", "sending"}, runs : [Run -> State],
         workflow : Workflow \union {None}, todo : SUBSET Run]
Event == [run : Run, state : State \ {0}]
Rest == [asked : BOOLEAN, answer : [Run -> State] \union {None}, resync : Nat]

TypeOK ==
    /\ runs \in [Run -> State]
    /\ client \in Client
    /\ poll \in Poll
    /\ up \in Seq(Workflow)
    /\ down \in Seq(Event)
    /\ open \in BOOLEAN
    /\ workflow \in Workflow
    /\ generation \in Nat
    /\ hydrated \in BOOLEAN
    /\ resyncs \subseteq 1..generation
    /\ rest \in Rest
    /\ shown \in [Run -> State]
    /\ loaded \in BOOLEAN
    /\ connections \in 0..MaxConnections /\ switches \in 0..MaxSwitches
    /\ refetches \in 0..MaxRefetches
    /\ refused \in BOOLEAN
    /\ last \in [Run -> State]
    /\ due \in [Run -> Nat]

Nothing == [r \in Run |-> 0]
NewClient == [workflow |-> None, sent |-> Nothing]
NoPoll == [stage |-> "idle", runs |-> Nothing, workflow |-> None, todo |-> {}]
Settled == [asked |-> FALSE, answer |-> None, resync |-> 0]
Request(g) == [asked |-> TRUE, answer |-> None, resync |-> g]

Init ==
    /\ runs = [r \in Run |-> IF r \in Existing THEN 1 ELSE 0]
    /\ client = NewClient
    /\ poll = NoPoll
    /\ up = <<>> /\ down = <<>>
    /\ open = FALSE
    /\ workflow \in Workflow
    /\ generation = 0
    /\ hydrated = FALSE
    /\ resyncs = {}
    /\ rest = Request(0)
    /\ shown = Nothing /\ loaded = FALSE
    /\ connections = 0 /\ switches = 0 /\ refetches = 0
    /\ refused = FALSE
    /\ last = Nothing
    /\ due = Nothing

-----------------------------------------------------------------------------
(* The run directories: other processes and threads.                       *)

Advance(r) ==
    /\ runs[r] < Final[r]
    /\ runs' = [runs EXCEPT ![r] = @ + 1]
    /\ due' = IF /\ open /\ hydrated /\ GraphOf[r] = workflow
                 /\ Fingerprint(runs[r]) # Fingerprint(runs[r] + 1)
              THEN [due EXCEPT ![r] = IF rest.answer # None /\ rest.resync = 0
                                      THEN 0 ELSE Fingerprint(runs[r] + 1)]
              ELSE due
    /\ UNCHANGED <<serverVars, up, down, open, tabVars, bounds, refused, last>>

-----------------------------------------------------------------------------
(* live.py: the poller. Other tabs' clients may come first, so the list of   *)
(* runs it read can be old when this client's turn comes.                   *)

BeginPoll ==
    /\ open
    /\ poll.stage = "idle"
    /\ poll' = [NoPoll EXCEPT !.stage = "read", !.runs = runs]
    /\ UNCHANGED <<runs, client, up, down, open, tabVars, bounds, refused, last, due>>

NextFingerprints(w) ==
    [r \in Run |-> IF GraphOf[r] = w THEN Fingerprint(poll.runs[r]) ELSE 0]

\* The runs of S the client has not been told of as they were read, and the first of them.
Changed(S) == {r \in S : client.sent[r] # Fingerprint(poll.runs[r])}
IsFirst(r, S) == r \in S /\ \A q \in S : r <= q

SendRun(r, w, todo) ==
    /\ down' = Append(down, [run |-> r, state |-> poll.runs[r]])
    /\ last' = [last EXCEPT ![r] = poll.runs[r]]
    /\ poll' = [poll EXCEPT !.stage = "sending", !.workflow = w,
                            !.todo = {q \in todo : q > r}]

\* Seeded defect: the fingerprints are replaced before the events are sent.
EmitRunsEarly(w, todo) ==
    /\ client' = [client EXCEPT !.sent = NextFingerprints(w)]
    /\ \/ Changed(todo) = {} /\ poll' = NoPoll /\ UNCHANGED <<down, last>>
       \/ \E r \in Changed(todo) : IsFirst(r, Changed(todo)) /\ SendRun(r, w, todo)

\* The rest of _emit_run_events' loop up to its next send. The client's fingerprints
\* are read as it goes and replaced when the loop is through.
EmitRuns(w, todo) ==
    \/ /\ Changed(todo) = {}
       /\ client' = [client EXCEPT !.sent = NextFingerprints(w)]
       /\ poll' = NoPoll
       /\ UNCHANGED <<down, last>>
    \/ \E r \in Changed(todo) :
         /\ IsFirst(r, Changed(todo))
         /\ SendRun(r, w, todo)
         /\ UNCHANGED client

BeginTurn ==
    /\ poll.stage = "read"
    /\ client.workflow # None
    /\ EmitRuns(client.workflow,
                {r \in RunsOf(client.workflow) : poll.runs[r] # 0})
    /\ UNCHANGED <<runs, up, open, tabVars, bounds, refused, due>>

\* A client without a subscription gets a heartbeat at most.
SkipTurn ==
    /\ poll.stage = "read"
    /\ client.workflow = None
    /\ poll' = NoPoll
    /\ UNCHANGED <<runs, client, up, down, open, tabVars, bounds, refused, last, due>>

\* send_json has returned.
ResumeTurn ==
    /\ poll.stage = "sending"
    /\ EmitRuns(poll.workflow, poll.todo)
    /\ UNCHANGED <<runs, up, open, tabVars, bounds, refused, due>>

\* Seeded defect: a client that has a workflow keeps it.
SubscribeOnce ==
    /\ up # <<>>
    /\ client' = IF client.workflow # None THEN client
                 ELSE [workflow |-> Head(up), sent |-> Nothing]
    /\ up' = Tail(up)
    /\ refused' = FALSE
    /\ UNCHANGED <<runs, poll, down, open, tabVars, bounds, last, due>>

Subscribe ==
    /\ up # <<>>
    /\ client' = [workflow |-> Head(up), sent |-> Nothing]
    /\ up' = Tail(up)
    /\ refused' = FALSE
    /\ UNCHANGED <<runs, poll, down, open, tabVars, bounds, last, due>>

\* The workflow does not load: the client keeps the subscription it had.
RefuseSubscription ==
    /\ up # <<>>
    /\ up' = Tail(up)
    /\ refused' = TRUE
    /\ UNCHANGED <<runs, serverVars, down, open, tabVars, bounds, last, due>>

-----------------------------------------------------------------------------
(* useLiveUpdates.ts                                                       *)

\* A fetch of ["runs"] replaces the one under way, but the first list is waited for.
Ask(g) ==
    rest' = IF rest.asked /\ ~loaded THEN [rest EXCEPT !.resync = g] ELSE Request(g)

\* A new generation that asks for everything again, its messages dropped until then.
Resync ==
    /\ generation' = generation + 1
    /\ hydrated' = FALSE
    /\ resyncs' = resyncs \union {generation + 1}
    /\ Ask(generation + 1)
    /\ UNCHANGED <<shown, loaded>>

\* The socket opens: registered and accepted, then onopen subscribes and resyncs.
Connect ==
    /\ ~open
    /\ connections < MaxConnections
    /\ connections' = connections + 1
    /\ open' = TRUE
    /\ client' = NewClient
    /\ up' = <<workflow>>
    /\ Resync
    /\ UNCHANGED <<runs, poll, down, workflow, switches, refetches, refused, last, due>>

\* The backend restarts or the network fails. The poller's sends to the dead client
\* fail and unregister it.
Drop ==
    /\ open
    /\ connections < MaxConnections
    /\ open' = FALSE
    /\ client' = NewClient
    /\ poll' = NoPoll
    /\ up' = <<>> /\ down' = <<>>
    /\ hydrated' = FALSE
    /\ refused' = FALSE
    /\ last' = Nothing /\ due' = Nothing
    /\ UNCHANGED <<runs, workflow, generation, resyncs, rest, shown, loaded, bounds>>

\* Another workflow is selected. Without an open socket onopen will subscribe.
Switch(w) ==
    /\ switches < MaxSwitches
    /\ w # workflow
    /\ switches' = switches + 1
    /\ workflow' = w
    /\ due' = Nothing
    /\ \/ open /\ up' = Append(up, w) /\ Resync
       \/ ~open /\ UNCHANGED <<up, generation, hydrated, resyncs, rest, shown, loaded>>
    /\ UNCHANGED <<runs, serverVars, down, open, connections, refetches, refused, last>>

\* A run was started or decided, or the window was focused: ["runs"] is fetched again.
Refetch ==
    /\ refetches < MaxRefetches
    /\ loaded
    /\ refetches' = refetches + 1
    /\ Ask(0)
    /\ UNCHANGED <<runs, serverVars, up, down, open, workflow, generation, hydrated, resyncs,
                   shown, loaded, connections, switches, refused, last, due>>

\* GET /api/runs is answered from the run directories ...
AnswerRuns ==
    /\ rest.asked /\ rest.answer = None
    /\ rest' = [rest EXCEPT !.answer = runs]
    /\ UNCHANGED <<runs, serverVars, up, down, open, workflow, generation, hydrated,
                   resyncs, shown, loaded, bounds, refused, last, due>>

\* ... and the answer replaces the list, whatever events have come meanwhile.
DeliverRuns ==
    /\ rest.answer # None
    /\ shown' = rest.answer /\ loaded' = TRUE
    /\ rest' = Settled
    /\ UNCHANGED <<runs, serverVars, up, down, open, workflow, generation, hydrated,
                   resyncs, bounds, refused, last, due>>

\* Seeded defect: a superseded resync hydrates the tab.
HydrateAnyway(g) == TRUE

Hydrates(g) == g = generation

\* A Promise.all settles once its requests (the list, node metrics, the selected run) are
\* answered. One that another fetch replaced rejects at once or settles with that other,
\* as the version of react-query has it.
Settle(g) ==
    /\ g \in resyncs
    /\ rest.resync # g
    /\ resyncs' = resyncs \ {g}
    /\ hydrated' = (hydrated \/ Hydrates(g))
    /\ UNCHANGED <<runs, serverVars, up, down, open, workflow, generation, rest, shown,
                   loaded, bounds, refused, last, due>>

\* onmessage
Receive ==
    /\ down # <<>>
    /\ LET e == Head(down)
       IN  shown' = IF hydrated /\ GraphOf[e.run] = workflow
                    THEN [shown EXCEPT ![e.run] = e.state] ELSE shown
    /\ down' = Tail(down)
    /\ UNCHANGED <<runs, serverVars, up, open, workflow, generation, hydrated, resyncs,
                   rest, loaded, bounds, refused, last, due>>

-----------------------------------------------------------------------------
PollStep == BeginPoll \/ BeginTurn \/ SkipTurn \/ ResumeTurn

HandleSubscribe == Subscribe \/ RefuseSubscription

RestStep == AnswerRuns \/ DeliverRuns

Next ==
    \/ \E r \in Run : Advance(r)
    \/ PollStep \/ HandleSubscribe
    \/ Connect \/ Drop
    \/ \E w \in Workflow : Switch(w)
    \/ Refetch \/ RestStep
    \/ \E g \in resyncs : Settle(g)
    \/ Receive

Spec == Init /\ [][Next]_vars

\* Both event loops run, messages and answers arrive while the socket is open, and
\* the reconnect timer fires.
FairSpec ==
    /\ Spec
    /\ WF_vars(PollStep) /\ WF_vars(HandleSubscribe) /\ WF_vars(Receive)
    /\ WF_vars(RestStep)
    /\ WF_vars(\E g \in resyncs : Settle(g))
    /\ WF_vars(Connect)

-----------------------------------------------------------------------------
(* Safety.                                                                 *)

\* Between two turns, what the server remembers of a run is what its last event on
\* this socket said: a poll suspended in a send, a subscription in between and the
\* fingerprints the poll then writes back never make it skip a run the tab was not
\* told about.
FingerprintsMatchWire ==
    poll.stage # "sending" => \A r \in Run : client.sent[r] \in {0, Fingerprint(last[r])}

-----------------------------------------------------------------------------
(* Liveness, under FairSpec, once connections and selections have come to an end. *)

\* The tab ends hydrated and subscribed to the workflow it shows, whatever resyncs
\* were superseded on the way, unless the server refused its last subscription.
TabEndsLive == <>[](open /\ hydrated /\ (refused \/ client.workflow = workflow))

\* A change the fingerprints tell apart that happens while the tab is hydrated and
\* subscribed ends up on the screen: no older event, no resync and no later request for
\* the list replaces it for good. Only a list that was asked for outside a resync, read
\* before the change and delivered after it, may.
LateChangesArrive ==
    <>[](refused \/ \A r \in Run : due[r] # 0 => due[r] = Fingerprint(shown[r]))

=============================================================================
