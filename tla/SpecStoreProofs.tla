--------------------------- MODULE SpecStoreProofs ---------------------------
(***************************************************************************)
(* Proofs about SpecStore for any number of workflows, texts and clients.  *)
(***************************************************************************)
EXTENDS SpecStore, TLAPS

-----------------------------------------------------------------------------
(* How far each request is, and what its workflow's files then hold. A      *)
(* workflow nobody shared has one editor at most, who alone changes them.   *)

OneEditor(w) ==
    \A c, d \in Clients :
        task[c] # None /\ task[d] # None /\ task[c].wf = w /\ task[d].wf = w => c = d

Placed(t) ==
    /\ t.at # "mkdir" => t.id \in DOMAIN audits[t.wf]
    /\ t.op = "copied" => t.at # "original"
    /\ t.op # "copied" => t.old \in Text

\* t is the task of the only editor of its workflow.
Prepared(t) ==
    /\ t.at = "write" => file[t.wf] = Empty /\ held[t.wf] \subseteq Kept(t.wf)
    /\ t.op = "copied" /\ t.at \in {"mkdir", "open"} => file[t.wf] = NoFile
    /\ t.op # "copied" /\ t.at # "write" => file[t.wf] = t.old
    /\ t.op # "copied" /\ t.at = "original" => audits[t.wf][t.id].original = Empty
    /\ t.op # "copied" /\ t.at \in {"record", "open"} => audits[t.wf][t.id].original = t.old

Ready(t) == Placed(t) /\ (t.wf \notin shared => Prepared(t))

Safe(w) ==
    /\ file[w] = NoFile => held[w] = {}
    /\ held[w] \subseteq Kept(w) \union {file[w]}

StoreInv ==
    /\ TypeOK
    /\ \A c \in Clients : task[c] # None => Ready(task[c])
    /\ \A w \in Workflows \ shared : OneEditor(w) /\ Safe(w)

-----------------------------------------------------------------------------
LEMMA InitStore == Init => StoreInv
<1> SUFFICES ASSUME Init PROVE StoreInv
  OBVIOUS
<1>1. Stored \in [Workflows -> Text \union {NoFile}]
  BY StoreAssumption DEF StoreAssumption
<1>2. TypeOK
  <2>1. held \in [Workflows -> SUBSET Text]
    BY <1>1 DEF Init
  <2> QED
    BY <1>1, <2>1 DEF Init, TypeOK, Ops
<1>3. \A c \in Clients : task[c] = None
  BY DEF Init
<1>4. \A w \in Workflows : Safe(w)
  BY <1>1 DEF Init, Safe
<1> QED
  BY <1>2, <1>3, <1>4 DEF StoreInv, OneEditor

\* A request whose workflow's files stay as they are.
LEMMA SameReady ==
    ASSUME NEW d \in Clients, task'[d] = task[d], Ready(task[d]), shared \subseteq shared',
           file'[task[d].wf] = file[task[d].wf], held'[task[d].wf] = held[task[d].wf],
           audits'[task[d].wf] = audits[task[d].wf]
    PROVE  Ready(task[d])'
<1>1. Kept(task[d].wf)' = Kept(task[d].wf)
  BY DEF Kept, Snapshots
<1>2. Placed(task[d])'
  BY DEF Ready, Placed
<1>3. task[d].wf \notin shared => Prepared(task[d])'
  BY <1>1 DEF Ready, Prepared
<1> QED
  BY <1>2, <1>3 DEF Ready

-----------------------------------------------------------------------------
(* The stages of a request.                                                *)

Follows(op, at, next) ==
    IF op = "copied"
    THEN <<at, next>> \in {<<"mkdir", "open">>, <<"open", "write">>, <<"write", "record">>}
    ELSE <<at, next>> \in {<<"mkdir", "original">>, <<"original", "record">>,
                           <<"record", "open">>, <<"open", "write">>}

\* Proceed goes to the stage after the present one, or ends the request.
LEMMA ProceedIs ==
    ASSUME NEW c \in Clients, NEW id, task[c] \in Task, Placed(task[c]), Proceed(c, id)
    PROVE  \/ /\ task' = [task EXCEPT ![c] = None]
              /\ answer' = task[c].op
              /\ task[c].at = (IF task[c].op = "copied" THEN "record" ELSE "write")
           \/ \E next \in Stages :
                 /\ task' = [task EXCEPT ![c] = [task[c] EXCEPT !.at = next, !.id = id]]
                 /\ answer' = answer
                 /\ Follows(task[c].op, task[c].at, next)
<1> DEFINE t == task[c]
           s == StagesOf(t.op)
           k == CHOOSE k \in DOMAIN s : s[k] = t.at
<1>1. t.at \in Stages /\ t.op \in Ops
  BY DEF Task
<1>2. IF k < Len(s)
      THEN task' = [task EXCEPT ![c] = [t EXCEPT !.at = s[k + 1], !.id = id]] /\ answer' = answer
      ELSE task' = [task EXCEPT ![c] = None] /\ answer' = t.op
  BY DEF Proceed
<1>3. CASE t.op = "copied"
  <2>1. s = <<"mkdir", "open", "write", "record">>
    BY <1>3 DEF StagesOf
  <2>2. \E j \in DOMAIN s : s[j] = t.at
    <3>1. t.at # "original"
      BY <1>3 DEF Placed
    <3>2. s[1] = "mkdir" /\ s[2] = "open" /\ s[3] = "write" /\ s[4] = "record" /\ DOMAIN s = 1..4
      BY <2>1
    <3> QED
      BY <1>1, <3>1, <3>2 DEF Stages
  <2>3. k \in DOMAIN s /\ s[k] = t.at
    BY <2>2
  <2> HIDE DEF k
  <2>4. k \in 1..4 /\ Len(s) = 4
    BY <2>1, <2>3
  <2>5. CASE k < 4
    <3>1. s[k + 1] \in Stages /\ Follows(t.op, t.at, s[k + 1])
      BY <1>3, <2>1, <2>3, <2>4, <2>5 DEF Follows, Stages
    <3> QED
      BY <1>2, <2>4, <2>5, <3>1
  <2>6. CASE ~(k < 4)
    <3>1. t.at = "record"
      BY <2>1, <2>3, <2>4, <2>6
    <3> QED
      BY <1>2, <1>3, <2>4, <2>6, <3>1
  <2> QED
    BY <2>5, <2>6
<1>4. CASE t.op # "copied"
  <2>1. s = <<"mkdir", "original", "record", "open", "write">>
    BY <1>4 DEF StagesOf
  <2>2. \E j \in DOMAIN s : s[j] = t.at
    <3>1. /\ s[1] = "mkdir" /\ s[2] = "original" /\ s[3] = "record" /\ s[4] = "open"
          /\ s[5] = "write" /\ DOMAIN s = 1..5
      BY <2>1
    <3> QED
      BY <1>1, <3>1 DEF Stages
  <2>3. k \in DOMAIN s /\ s[k] = t.at
    BY <2>2
  <2> HIDE DEF k
  <2>4. k \in 1..5 /\ Len(s) = 5
    BY <2>1, <2>3
  <2>5. CASE k < 5
    <3>1. s[k + 1] \in Stages /\ Follows(t.op, t.at, s[k + 1])
      BY <1>4, <2>1, <2>3, <2>4, <2>5 DEF Follows, Stages
    <3> QED
      BY <1>2, <2>4, <2>5, <3>1
  <2>6. CASE ~(k < 5)
    <3>1. t.at = "write"
      BY <2>1, <2>3, <2>4, <2>6
    <3> QED
      BY <1>2, <1>4, <2>4, <2>6, <3>1
  <2> QED
    BY <2>5, <2>6
<1> QED
  BY <1>3, <1>4

-----------------------------------------------------------------------------
(* Requests that begin.                                                    *)

\* The workflows nobody shared keep what held of them.
LEMMA BeginKeeps ==
    ASSUME StoreInv, NEW c \in Clients, NEW op \in Ops, NEW w \in Workflows,
           NEW old \in Text \union {None}, NEW new \in Text,
           task[c] = None, Begin(c, op, w, old, new),
           op = "copied" => file[w] = NoFile,
           op # "copied" => old \in Text /\ file[w] = old
    PROVE  StoreInv'
<1> DEFINE t == [op |-> op, at |-> "mkdir", wf |-> w, old |-> old, new |-> new, id |-> 0]
<1>1. /\ task' = [task EXCEPT ![c] = t]
      /\ shared' = shared \union {v \in {w} : Edited(v)}
      /\ UNCHANGED <<file, audits, answer, crashes, held, landed>>
  BY DEF Begin
<1>2. t \in Task /\ t # None
  <2>1. t \in Task
    BY DEF Task, Stages
  <2> QED
    BY <2>1, StoreAssumption DEF StoreAssumption
<1>3. t.op = op /\ t.at = "mkdir" /\ t.wf = w /\ t.old = old
  OBVIOUS
<1> HIDE DEF t
<1>4. TypeOK'
  BY <1>1, <1>2 DEF StoreInv, TypeOK
<1>5. \A d \in Clients : task'[d] # None => Ready(task[d])'
  <2> TAKE d \in Clients
  <2>1. CASE d = c
    <3>1. task'[d] = t
      BY <1>1, <2>1 DEF StoreInv, TypeOK
    <3> QED
      BY <1>1, <1>3, <3>1 DEF Ready, Placed, Prepared
  <2>2. CASE d # c
    <3>1. task'[d] = task[d]
      BY <1>1, <2>2 DEF StoreInv, TypeOK
    <3> SUFFICES ASSUME task'[d] # None PROVE Ready(task[d])'
      OBVIOUS
    <3>2. Ready(task[d])
      BY <3>1 DEF StoreInv
    <3> QED
      BY <1>1, <3>1, <3>2, SameReady
  <2> QED
    BY <2>1, <2>2
<1>6. \A v \in Workflows \ shared' : OneEditor(v)' /\ Safe(v)'
  <2> TAKE v \in Workflows \ shared'
  <2>1. v \in Workflows \ shared /\ (v = w => ~Edited(v))
    BY <1>1
  <2>2. OneEditor(v)'
    <3> SUFFICES ASSUME NEW d \in Clients, NEW e \in Clients,
                        task'[d] # None, task'[e] # None, task'[d].wf = v, task'[e].wf = v
                 PROVE  d = e
      BY DEF OneEditor
    <3>1. task'[c] = t /\ \A f \in Clients \ {c} : task'[f] = task[f]
      BY <1>1 DEF StoreInv, TypeOK
    <3>2. CASE v = w
      BY <2>1, <3>1, <3>2 DEF Edited
    <3>3. CASE v # w
      BY <1>3, <2>1, <3>1, <3>3 DEF StoreInv, OneEditor
    <3> QED
      BY <3>2, <3>3
  <2>3. Safe(v)'
    BY <1>1, <2>1 DEF StoreInv, Safe, Kept, Snapshots
  <2> QED
    BY <2>2, <2>3
<1> QED
  BY <1>4, <1>5, <1>6 DEF StoreInv

LEMMA RequestKeeps ==
    ASSUME StoreInv, NEW c \in Clients, Request(c)
    PROVE  StoreInv'
<1> PICK w \in Workflows :
        \/ \E t \in Proposals : Apply(c, w, t)
        \/ \E i \in 1..MaxAudits : Restore(c, w, i)
        \/ \E id \in Workflows : \E n \in Titles \union {id} : CopyTemplate(c, w, id, n)
  BY DEF Request
<1>1. CASE \E t \in Proposals : Apply(c, w, t)
  <2> PICK t \in Proposals : Apply(c, w, t)
    BY <1>1
  <2>1. t \in Text /\ file[w] \in Text
    BY StoreAssumption DEF StoreAssumption, Apply, Parses
  <2> QED
    BY <2>1, BeginKeeps DEF Apply, Ops
<1>2. CASE \E i \in 1..MaxAudits : Restore(c, w, i)
  <2> PICK i \in 1..MaxAudits : Restore(c, w, i)
    BY <1>2
  <2>1. audits[w][i].original \in Text
    BY DEF Restore, Accepts, Parses
  <2>2. file[w] \in Text
    <3>1. LoadErrors(w) = {}
      BY DEF Restore, Loads
    <3> QED
      BY <3>1 DEF LoadErrors, Parses
  <2> QED
    BY <2>1, <2>2, BeginKeeps DEF Restore, Ops
<1>3. CASE \E id \in Workflows : \E n \in Titles \union {id} : CopyTemplate(c, w, id, n)
  <2> PICK id \in Workflows, n \in Names : CopyTemplate(c, w, id, n)
    BY <1>3, StoreAssumption DEF StoreAssumption
  <2>1. file[w] \in Text
    <3>1. LoadErrors(w) = {}
      BY DEF CopyTemplate, Loads
    <3> QED
      BY <3>1 DEF LoadErrors, Parses
  <2>2. CopyOf(w, n) \in Text
    BY <2>1 DEF CopyOf, Text
  <2> QED
    BY <2>2, BeginKeeps DEF CopyTemplate, Ops
<1> QED
  BY <1>1, <1>2, <1>3

-----------------------------------------------------------------------------
(* The stages.                                                             *)

\* A stage of a request touches its own workflow only; of a shared one nothing is
\* asked but that its directories stay.
LEMMA StageSuffices ==
    ASSUME StoreInv, TypeOK', shared' = shared,
           NEW c \in Clients, task[c] # None,
           NEW w \in Workflows, task[c].wf = w,
           \A v \in Workflows \ {w} :
              file'[v] = file[v] /\ audits'[v] = audits[v] /\ held'[v] = held[v],
           \A d \in Clients \ {c} : task'[d] = task[d],
           DOMAIN audits[w] \subseteq DOMAIN audits'[w],
           task'[c] # None => task'[c].wf = w /\ Ready(task[c])',
           w \notin shared => Safe(w)'
    PROVE  StoreInv'
<1>1. ASSUME NEW d \in Clients, task'[d] # None
      PROVE  Ready(task[d])'
  <2>1. CASE d = c
    BY <1>1, <2>1
  <2>2. CASE d # c /\ task[d].wf = w
    <3>1. task'[d] = task[d] /\ w \in shared
      BY <1>1, <2>2 DEF StoreInv, OneEditor
    <3>2. Placed(task[d])
      BY <1>1, <3>1 DEF StoreInv, Ready
    <3>3. Placed(task[d])'
      BY <2>2, <3>1, <3>2 DEF Placed
    <3> QED
      BY <2>2, <3>1, <3>3 DEF Ready
  <2>3. CASE d # c /\ task[d].wf # w
    <3>1. task'[d] = task[d] /\ Ready(task[d])
      BY <1>1, <2>3 DEF StoreInv
    <3>2. task[d].wf \in Workflows
      BY <1>1, <3>1 DEF StoreInv, TypeOK, Task
    <3>3. /\ file'[task[d].wf] = file[task[d].wf] /\ held'[task[d].wf] = held[task[d].wf]
          /\ audits'[task[d].wf] = audits[task[d].wf]
      BY <2>3, <3>2
    <3> QED
      BY <3>1, <3>3, SameReady
  <2> QED
    BY <2>1, <2>2, <2>3
<1>2. ASSUME NEW v \in Workflows \ shared'
      PROVE  OneEditor(v)' /\ Safe(v)'
  <2>1. OneEditor(v) /\ Safe(v)
    BY <1>2 DEF StoreInv
  <2>2. \A d \in Clients : task'[d] # None => task[d] # None /\ task'[d].wf = task[d].wf
    OBVIOUS
  <2>3. OneEditor(v)'
    BY <2>1, <2>2 DEF OneEditor
  <2>4. CASE v = w
    BY <1>2, <2>3, <2>4
  <2>5. CASE v # w
    BY <2>1, <2>3, <2>5 DEF Safe, Kept, Snapshots
  <2> QED
    BY <2>4, <2>5
<1> QED
  BY <1>1, <1>2 DEF StoreInv

\* Facts about a request that does a stage.
LEMMA StageFacts ==
    ASSUME StoreInv, NEW c \in Clients, NEW stage \in Stages, At(c, stage)
    PROVE  /\ task[c] \in Task /\ task[c] # None /\ task[c].wf \in Workflows
           /\ task[c].at = stage /\ task[c].new \in Text
           /\ Ready(task[c]) /\ Placed(task[c])
           /\ audits[task[c].wf] \in Seq(Audit)
           /\ file[task[c].wf] \in Text \union {NoFile, Empty, Torn}
           /\ held[task[c].wf] \subseteq Text
           /\ task[c].wf \notin shared => Safe(task[c].wf)
<1>1. task[c] \in Task /\ task[c] # None /\ task[c].at = stage
  BY DEF StoreInv, TypeOK, At
<1>2. task[c].wf \in Workflows /\ task[c].new \in Text
  BY <1>1 DEF Task
<1> QED
  BY <1>1, <1>2 DEF StoreInv, TypeOK, Ready

\* What Proceed leaves of the tasks and the answer is well typed.
LEMMA ProceedType ==
    ASSUME StoreInv, NEW c \in Clients, NEW id \in Nat, NEW stage \in Stages, At(c, stage),
           Proceed(c, id)
    PROVE  /\ task' \in [Clients -> Task \union {None}]
           /\ answer' \in Ops \union {"400", "404", "409", "none"}
           /\ \A d \in Clients \ {c} : task'[d] = task[d]
           /\ task'[c] # None =>
                 /\ task'[c] \in Task
                 /\ task'[c].wf = task[c].wf /\ task'[c].op = task[c].op
                 /\ task'[c].old = task[c].old /\ task'[c].new = task[c].new
                 /\ task'[c].id = id
                 /\ Follows(task[c].op, stage, task'[c].at)
           /\ task'[c] = None => answer' = task[c].op
<1>1. task[c] \in Task /\ Placed(task[c]) /\ task[c].at = stage
  BY StageFacts
<1>2. /\ task \in [Clients -> Task \union {None}]
      /\ answer \in Ops \union {"400", "404", "409", "none"}
      /\ task[c].op \in Ops
  BY <1>1 DEF StoreInv, TypeOK, Task
<1>3. ASSUME task' = [task EXCEPT ![c] = None], answer' = task[c].op
      PROVE  /\ task' \in [Clients -> Task \union {None}]
             /\ \A d \in Clients \ {c} : task'[d] = task[d]
             /\ task'[c] = None
  BY <1>2, <1>3
<1>4. ASSUME NEW next \in Stages,
             task' = [task EXCEPT ![c] = [task[c] EXCEPT !.at = next, !.id = id]],
             answer' = answer, Follows(task[c].op, task[c].at, next)
      PROVE  /\ task' \in [Clients -> Task \union {None}]
             /\ \A d \in Clients \ {c} : task'[d] = task[d]
             /\ task'[c] \in Task /\ task'[c] # None
             /\ task'[c].wf = task[c].wf /\ task'[c].op = task[c].op
             /\ task'[c].old = task[c].old /\ task'[c].new = task[c].new
             /\ task'[c].id = id /\ task'[c].at = next
  <2> DEFINE u == [task[c] EXCEPT !.at = next, !.id = id]
  <2>1. /\ u \in Task /\ u.wf = task[c].wf /\ u.op = task[c].op
        /\ u.old = task[c].old /\ u.new = task[c].new /\ u.id = id /\ u.at = next
    BY <1>1 DEF Task
  <2>2. u # None
    BY <2>1, StoreAssumption DEF StoreAssumption
  <2>3. task' = [task EXCEPT ![c] = u]
    BY <1>4
  <2> HIDE DEF u
  <2>4. task'[c] = u
    BY <1>2, <2>3
  <2> QED
    BY <1>2, <2>1, <2>2, <2>3, <2>4
<1>5. \/ task' = [task EXCEPT ![c] = None] /\ answer' = task[c].op
      \/ \E next \in Stages :
            /\ task' = [task EXCEPT ![c] = [task[c] EXCEPT !.at = next, !.id = id]]
            /\ answer' = answer
            /\ Follows(task[c].op, task[c].at, next)
  BY <1>1, ProceedIs
<1>6. CASE task' = [task EXCEPT ![c] = None] /\ answer' = task[c].op
  BY <1>2, <1>3, <1>6
<1>7. CASE ~(task' = [task EXCEPT ![c] = None] /\ answer' = task[c].op)
  <2> PICK next \in Stages :
         /\ task' = [task EXCEPT ![c] = [task[c] EXCEPT !.at = next, !.id = id]]
         /\ answer' = answer
         /\ Follows(task[c].op, task[c].at, next)
    BY <1>5, <1>7
  <2>1. /\ task' \in [Clients -> Task \union {None}]
        /\ \A d \in Clients \ {c} : task'[d] = task[d]
        /\ task'[c] \in Task /\ task'[c] # None
        /\ task'[c].wf = task[c].wf /\ task'[c].op = task[c].op
        /\ task'[c].old = task[c].old /\ task'[c].new = task[c].new
        /\ task'[c].id = id /\ task'[c].at = next
    BY <1>4
  <2> QED
    BY <1>1, <1>2, <2>1
<1> QED
  BY <1>6, <1>7

\* Snapshots are only added to.
LEMMA KeptGrows ==
    ASSUME NEW w \in Workflows, DOMAIN audits[w] \subseteq DOMAIN audits'[w],
           \A i \in DOMAIN audits[w] :
              audits[w][i].original \in Text => audits'[w][i].original = audits[w][i].original
    PROVE  Kept(w) \subseteq Kept(w)'
BY StoreAssumption DEF StoreAssumption, Kept, Snapshots

LEMMA MakeAuditKeeps ==
    ASSUME StoreInv, NEW c \in Clients, MakeAudit(c)
    PROVE  StoreInv'
<1> PICK w \in Workflows : w = task[c].wf
  BY StageFacts DEF MakeAudit, Stages
<1> DEFINE t == task[c]
           new == [original |-> IF t.op = "copied" THEN NoFile ELSE Empty, record |-> None]
<1>1. /\ At(c, "mkdir") /\ audits' = [audits EXCEPT ![w] = Append(@, new)]
      /\ Proceed(c, Len(audits[w]) + 1) /\ UNCHANGED <<file, crashes, held, landed, shared>>
  BY DEF MakeAudit, history
<1>2. new \in Audit /\ new.original = (IF t.op = "copied" THEN NoFile ELSE Empty)
  BY DEF Audit
<1> HIDE DEF new
<1>3. /\ t \in Task /\ t # None /\ w \in Workflows /\ Ready(t) /\ t.at = "mkdir"
      /\ audits[w] \in Seq(Audit) /\ (w \notin shared => Safe(w))
  BY <1>1, StageFacts DEF Stages
<1>4. /\ audits \in [Workflows -> Seq(Audit)] /\ Len(audits[w]) + 1 \in Nat
  BY <1>3 DEF StoreInv, TypeOK
<1>5. /\ audits' \in [Workflows -> Seq(Audit)]
      /\ \A v \in Workflows \ {w} : audits'[v] = audits[v]
      /\ audits'[w] = Append(audits[w], new)
  BY <1>1, <1>2, <1>3, <1>4
<1>6. /\ DOMAIN audits[w] \subseteq DOMAIN audits'[w]
      /\ Len(audits[w]) + 1 \in DOMAIN audits'[w]
      /\ audits'[w][Len(audits[w]) + 1] = new
      /\ \A i \in DOMAIN audits[w] : audits'[w][i] = audits[w][i]
  BY <1>2, <1>3, <1>5
<1>7. Kept(w) \subseteq Kept(w)'
  BY <1>3, <1>6, KeptGrows
<1> DEFINE u == task'[c]
<1>8. /\ task' \in [Clients -> Task \union {None}]
      /\ answer' \in Ops \union {"400", "404", "409", "none"}
      /\ \A d \in Clients \ {c} : task'[d] = task[d]
      /\ u # None => /\ u.wf = w /\ u.op = t.op /\ u.old = t.old
                     /\ u.id = Len(audits[w]) + 1 /\ Follows(t.op, "mkdir", u.at)
  BY <1>1, <1>4, ProceedType DEF Stages
<1>9. TypeOK'
  BY <1>1, <1>5, <1>8 DEF StoreInv, TypeOK
<1>10. ASSUME u # None PROVE Ready(task[c])'
  <2>1. IF t.op = "copied" THEN u.at = "open" ELSE u.at = "original"
    BY <1>8, <1>10 DEF Follows
  <2>2. Placed(task[c])'
    BY <1>3, <1>6, <1>8, <1>10, <2>1 DEF Ready, Placed
  <2>3. w \notin shared => Prepared(task[c])'
    BY <1>1, <1>2, <1>3, <1>6, <1>8, <1>10, <2>1 DEF Ready, Prepared
  <2> QED
    BY <1>1, <1>8, <1>10, <2>2, <2>3 DEF Ready
<1>11. w \notin shared => Safe(w)'
  BY <1>1, <1>3, <1>7 DEF Safe
<1> QED
  BY <1>1, <1>3, <1>5, <1>6, <1>8, <1>9, <1>10, <1>11, StageSuffices

\* A directory whose original or record is written.
LEMMA AmendAudit ==
    ASSUME NEW w \in Workflows, audits \in [Workflows -> Seq(Audit)],
           NEW i \in DOMAIN audits[w], NEW a \in Audit,
           audits' = [audits EXCEPT ![w] = [audits[w] EXCEPT ![i] = a]]
    PROVE  /\ audits' \in [Workflows -> Seq(Audit)]
           /\ \A v \in Workflows \ {w} : audits'[v] = audits[v]
           /\ DOMAIN audits'[w] = DOMAIN audits[w]
           /\ audits'[w][i] = a
           /\ \A j \in DOMAIN audits[w] \ {i} : audits'[w][j] = audits[w][j]
<1>1. /\ audits[w] \in Seq(Audit)
      /\ audits'[w] = [audits[w] EXCEPT ![i] = a]
      /\ \A v \in Workflows \ {w} : audits'[v] = audits[v]
  OBVIOUS
<1>2. audits'[w] \in Seq(Audit)
  BY <1>1
<1> QED
  BY <1>1, <1>2

LEMMA WriteOriginalKeeps ==
    ASSUME StoreInv, NEW c \in Clients, WriteOriginal(c)
    PROVE  StoreInv'
<1> PICK w \in Workflows : w = task[c].wf
  BY StageFacts DEF WriteOriginal, Stages
<1> DEFINE t == task[c]
           a == [audits[w][t.id] EXCEPT !.original = t.old]
<1>1. /\ At(c, "original")
      /\ Proceed(c, t.id) /\ UNCHANGED <<file, crashes, held, landed, shared>>
      /\ audits' = [audits EXCEPT ![w] = [audits[w] EXCEPT ![t.id] = a]]
  BY DEF WriteOriginal, history
<1>2. /\ t \in Task /\ t # None /\ w \in Workflows /\ Ready(t) /\ t.at = "original"
      /\ audits[w] \in Seq(Audit) /\ (w \notin shared => Safe(w))
  BY <1>1, StageFacts DEF Stages
<1>3. t.id \in DOMAIN audits[w] /\ t.id \in Nat /\ t.op # "copied" /\ t.old \in Text
  BY <1>2 DEF Ready, Placed, Task
<1>4. audits[w][t.id] \in Audit
  BY <1>2, <1>3
<1>5. a \in Audit /\ a.original = t.old
  BY <1>3, <1>4 DEF Audit
<1> HIDE DEF a
<1>6. audits \in [Workflows -> Seq(Audit)]
  BY DEF StoreInv, TypeOK
<1>7. /\ audits' \in [Workflows -> Seq(Audit)]
      /\ \A v \in Workflows \ {w} : audits'[v] = audits[v]
      /\ DOMAIN audits'[w] = DOMAIN audits[w]
      /\ audits'[w][t.id] = a
      /\ \A j \in DOMAIN audits[w] \ {t.id} : audits'[w][j] = audits[w][j]
  BY <1>1, <1>2, <1>3, <1>5, <1>6, AmendAudit
<1> DEFINE u == task'[c]
<1>8. /\ task' \in [Clients -> Task \union {None}]
      /\ answer' \in Ops \union {"400", "404", "409", "none"}
      /\ \A d \in Clients \ {c} : task'[d] = task[d]
      /\ u # None => /\ u.wf = w /\ u.op = t.op /\ u.old = t.old
                     /\ u.id = t.id /\ Follows(t.op, "original", u.at)
  BY <1>1, <1>3, ProceedType DEF Stages
<1>9. TypeOK'
  BY <1>1, <1>7, <1>8 DEF StoreInv, TypeOK
<1>10. ASSUME u # None PROVE Ready(task[c])'
  <2>1. u.at = "record"
    BY <1>3, <1>8, <1>10 DEF Follows
  <2> QED
    BY <1>1, <1>2, <1>3, <1>5, <1>7, <1>8, <1>10, <2>1 DEF Ready, Placed, Prepared
<1>11. w \notin shared => Safe(w)'
  <2> SUFFICES ASSUME w \notin shared PROVE Safe(w)'
    OBVIOUS
  <2>1. audits[w][t.id].original = Empty
    BY <1>2, <1>3 DEF Ready, Prepared
  <2>2. Kept(w) \subseteq Kept(w)'
    BY <1>2, <1>7, <2>1, KeptGrows, StoreAssumption DEF StoreAssumption
  <2> QED
    BY <1>1, <1>2, <2>2 DEF Safe
<1> QED
  BY <1>1, <1>2, <1>7, <1>8, <1>9, <1>10, <1>11, StageSuffices

LEMMA WriteRecordKeeps ==
    ASSUME StoreInv, NEW c \in Clients, WriteRecord(c)
    PROVE  StoreInv'
<1> PICK w \in Workflows : w = task[c].wf
  BY StageFacts DEF WriteRecord, Stages
<1> DEFINE t == task[c]
           r == [old |-> t.old, new |-> t.new]
           a == [audits[w][t.id] EXCEPT !.record = r]
<1>1. /\ At(c, "record")
      /\ Proceed(c, t.id) /\ UNCHANGED <<file, crashes, held, landed, shared>>
      /\ audits' = [audits EXCEPT ![w] = [audits[w] EXCEPT ![t.id] = a]]
  BY DEF WriteRecord, history
<1>2. /\ t \in Task /\ t # None /\ w \in Workflows /\ Ready(t) /\ t.at = "record"
      /\ audits[w] \in Seq(Audit) /\ (w \notin shared => Safe(w))
  BY <1>1, StageFacts DEF Stages
<1>3. t.id \in DOMAIN audits[w] /\ t.id \in Nat /\ r \in Records
  BY <1>2 DEF Ready, Placed, Task, Records
<1>4. audits[w][t.id] \in Audit
  BY <1>2, <1>3
<1> HIDE DEF r
<1>5. a \in Audit /\ a.original = audits[w][t.id].original
  BY <1>3, <1>4 DEF Audit
<1> HIDE DEF a
<1>6. audits \in [Workflows -> Seq(Audit)]
  BY DEF StoreInv, TypeOK
<1>7. /\ audits' \in [Workflows -> Seq(Audit)]
      /\ \A v \in Workflows \ {w} : audits'[v] = audits[v]
      /\ DOMAIN audits'[w] = DOMAIN audits[w]
      /\ audits'[w][t.id] = a
      /\ \A j \in DOMAIN audits[w] \ {t.id} : audits'[w][j] = audits[w][j]
  BY <1>1, <1>2, <1>3, <1>5, <1>6, AmendAudit
<1> DEFINE u == task'[c]
<1>8. /\ task' \in [Clients -> Task \union {None}]
      /\ answer' \in Ops \union {"400", "404", "409", "none"}
      /\ \A d \in Clients \ {c} : task'[d] = task[d]
      /\ u # None => /\ u.wf = w /\ u.op = t.op /\ u.old = t.old
                     /\ u.id = t.id /\ Follows(t.op, "record", u.at)
  BY <1>1, <1>3, ProceedType DEF Stages
<1>9. TypeOK'
  BY <1>1, <1>7, <1>8 DEF StoreInv, TypeOK
<1>10. ASSUME u # None PROVE Ready(task[c])'
  <2>1. u.at = "open" /\ t.op # "copied"
    BY <1>8, <1>10 DEF Follows
  <2> QED
    BY <1>1, <1>2, <1>3, <1>5, <1>7, <1>8, <1>10, <2>1 DEF Ready, Placed, Prepared
<1>11. w \notin shared => Safe(w)'
  <2>1. Kept(w) \subseteq Kept(w)'
    BY <1>2, <1>5, <1>7, KeptGrows
  <2> QED
    BY <1>1, <1>2, <2>1 DEF Safe
<1> QED
  BY <1>1, <1>2, <1>7, <1>8, <1>9, <1>10, <1>11, StageSuffices

LEMMA OpenSourceKeeps ==
    ASSUME StoreInv, NEW c \in Clients, OpenSource(c)
    PROVE  StoreInv'
<1> PICK w \in Workflows : w = task[c].wf
  BY StageFacts DEF OpenSource, Stages
<1> DEFINE t == task[c]
<1>1. /\ At(c, "open") /\ file' = [file EXCEPT ![w] = Empty]
      /\ Proceed(c, t.id) /\ UNCHANGED <<audits, crashes, held, landed, shared>>
  BY DEF OpenSource, history
<1>2. /\ t \in Task /\ t # None /\ w \in Workflows /\ Ready(t) /\ t.at = "open"
      /\ (w \notin shared => Safe(w))
  BY <1>1, StageFacts DEF Stages
<1>3. t.id \in DOMAIN audits[w] /\ t.id \in Nat /\ (t.op # "copied" => t.old \in Text)
  BY <1>2 DEF Ready, Placed, Task
<1>4. /\ file' \in [Workflows -> Text \union {NoFile, Empty, Torn}]
      /\ \A v \in Workflows \ {w} : file'[v] = file[v]
      /\ file'[w] = Empty
  BY <1>1, <1>2 DEF StoreInv, TypeOK
<1> DEFINE u == task'[c]
<1>5. /\ task' \in [Clients -> Task \union {None}]
      /\ answer' \in Ops \union {"400", "404", "409", "none"}
      /\ \A d \in Clients \ {c} : task'[d] = task[d]
      /\ u # None => /\ u.wf = w /\ u.op = t.op /\ u.old = t.old
                     /\ u.id = t.id /\ Follows(t.op, "open", u.at)
  BY <1>1, <1>3, ProceedType DEF Stages
<1>6. TypeOK'
  BY <1>1, <1>4, <1>5 DEF StoreInv, TypeOK
<1>7. Kept(w)' = Kept(w)
  BY <1>1 DEF Kept, Snapshots
\* What the file held before it was truncated has been kept.
<1>8. w \notin shared => held[w] \subseteq Kept(w)
  <2> SUFFICES ASSUME w \notin shared PROVE held[w] \subseteq Kept(w)
    OBVIOUS
  <2>1. CASE t.op = "copied"
    BY <1>2, <2>1 DEF Ready, Prepared, Safe
  <2>2. CASE t.op # "copied"
    <3>1. file[w] = t.old /\ audits[w][t.id].original = t.old /\ t.old \in Text
      BY <1>2, <1>3, <2>2 DEF Ready, Prepared
    <3>2. t.old \in Kept(w)
      BY <1>3, <3>1, StoreAssumption DEF StoreAssumption, Kept, Snapshots
    <3> QED
      BY <1>2, <3>1, <3>2 DEF Safe
  <2> QED
    BY <2>1, <2>2
<1>9. ASSUME u # None PROVE Ready(task[c])'
  <2>1. u.at = "write"
    BY <1>5, <1>9 DEF Follows
  <2> QED
    BY <1>1, <1>3, <1>4, <1>5, <1>7, <1>8, <1>9, <2>1 DEF Ready, Placed, Prepared
<1>10. w \notin shared => Safe(w)'
  BY <1>1, <1>4, <1>7, <1>8, StoreAssumption DEF Safe, StoreAssumption
<1> QED
  BY <1>1, <1>2, <1>4, <1>5, <1>6, <1>9, <1>10, StageSuffices

LEMMA WriteSourceKeeps ==
    ASSUME StoreInv, NEW c \in Clients, WriteSource(c)
    PROVE  StoreInv'
<1> PICK w \in Workflows : w = task[c].wf
  BY StageFacts DEF WriteSource, Stages
<1> DEFINE t == task[c]
<1>1. /\ At(c, "write") /\ Proceed(c, t.id) /\ UNCHANGED <<audits, crashes, shared>>
      /\ landed' = [landed EXCEPT ![w] = @ \union {t.id}]
  BY DEF WriteSource
<1> PICK x \in Overlay(file[w], t.new) :
        /\ file' = [file EXCEPT ![w] = x]
        /\ held' = [held EXCEPT ![w] = @ \union ({x} \ {Torn})]
  BY DEF WriteSource
<1>2. /\ t \in Task /\ t # None /\ w \in Workflows /\ Ready(t) /\ t.at = "write"
      /\ t.new \in Text /\ (w \notin shared => Safe(w))
  BY <1>1, StageFacts DEF Stages
<1>3. t.id \in DOMAIN audits[w] /\ t.id \in Nat /\ (t.op # "copied" => t.old \in Text)
  BY <1>2 DEF Ready, Placed, Task
<1>4. x \in Text \union {Torn} /\ (file[w] = Empty => x = t.new)
  BY <1>2 DEF Overlay
<1>5. /\ file' \in [Workflows -> Text \union {NoFile, Empty, Torn}]
      /\ held' \in [Workflows -> SUBSET Text]
      /\ \A v \in Workflows \ {w} : file'[v] = file[v] /\ held'[v] = held[v]
      /\ file'[w] = x /\ held'[w] = held[w] \union ({x} \ {Torn})
  BY <1>2, <1>4 DEF StoreInv, TypeOK
<1>6. landed' \in [Workflows -> SUBSET Nat]
  BY <1>1, <1>2, <1>3 DEF StoreInv, TypeOK
<1> DEFINE u == task'[c]
<1>7. /\ task' \in [Clients -> Task \union {None}]
      /\ answer' \in Ops \union {"400", "404", "409", "none"}
      /\ \A d \in Clients \ {c} : task'[d] = task[d]
      /\ u # None => /\ u.wf = w /\ u.op = t.op /\ u.old = t.old
                     /\ u.id = t.id /\ Follows(t.op, "write", u.at)
  BY <1>1, <1>3, ProceedType DEF Stages
<1>8. TypeOK'
  BY <1>1, <1>5, <1>6, <1>7 DEF StoreInv, TypeOK
<1>9. ASSUME u # None PROVE Ready(task[c])'
  <2>1. u.at = "record" /\ t.op = "copied"
    BY <1>7, <1>9 DEF Follows
  <2> QED
    BY <1>1, <1>3, <1>7, <1>9, <2>1 DEF Ready, Placed, Prepared
<1>10. w \notin shared => Safe(w)'
  <2> SUFFICES ASSUME w \notin shared PROVE Safe(w)'
    OBVIOUS
  <2>1. file[w] = Empty /\ held[w] \subseteq Kept(w) /\ x = t.new
    BY <1>2, <1>4 DEF Ready, Prepared
  <2>2. Kept(w)' = Kept(w)
    BY <1>1 DEF Kept, Snapshots
  <2>3. x \in Text /\ x # NoFile
    BY <1>2, <2>1, StoreAssumption DEF StoreAssumption
  <2> QED
    BY <1>5, <2>1, <2>2, <2>3 DEF Safe
<1> QED
  BY <1>1, <1>2, <1>5, <1>7, <1>8, <1>9, <1>10, StageSuffices

-----------------------------------------------------------------------------
\* A step that changes neither the files nor the tasks.
LEMMA SameFiles ==
    ASSUME StoreInv, TypeOK', UNCHANGED <<file, audits, task, held, shared>>
    PROVE  StoreInv'
<1>1. ASSUME NEW c \in Clients, task'[c] # None
      PROVE  Ready(task[c])'
  <2>1. Ready(task[c])
    BY <1>1 DEF StoreInv
  <2> QED
    BY <2>1 DEF Ready, Placed, Prepared, Kept, Snapshots
<1>2. ASSUME NEW w \in Workflows \ shared'
      PROVE  OneEditor(w)' /\ Safe(w)'
  <2>1. OneEditor(w) /\ Safe(w)
    BY <1>2 DEF StoreInv
  <2> QED
    BY <2>1 DEF OneEditor, Safe, Kept, Snapshots
<1> QED
  BY <1>1, <1>2 DEF StoreInv

LEMMA NextStore == StoreInv /\ [Next]_vars => StoreInv'
<1> SUFFICES ASSUME StoreInv, [Next]_vars PROVE StoreInv'
  OBVIOUS
<1>1. CASE \E c \in Clients : Request(c)
  BY <1>1, RequestKeeps
<1>2. CASE \E c \in Clients : Serve(c)
  BY <1>2, MakeAuditKeeps, WriteOriginalKeeps, WriteRecordKeeps, OpenSourceKeeps,
     WriteSourceKeeps DEF Serve
<1>3. CASE \E w \in Workflows : Refuse(w)
  <2> PICK w \in Workflows : Refuse(w)
    BY <1>3
  <2>1. answer' \in {"400", "404", "409"}
    BY DEF Refuse, ApplyErrors, RestoreErrors, CopyErrors, LoadErrors, TreeErrors
  <2>2. UNCHANGED <<file, audits, task, crashes, held, landed, shared>>
    BY DEF Refuse, history
  <2>3. TypeOK'
    BY <2>1, <2>2 DEF StoreInv, TypeOK
  <2> QED
    BY <2>2, <2>3, SameFiles
<1>4. CASE Crash
  <2>1. /\ UNCHANGED <<file, audits, held, landed, shared>>
        /\ task' = [c \in Clients |-> None] /\ answer' = "none" /\ crashes' \in Nat
    BY <1>4 DEF StoreInv, TypeOK, Crash, history
  <2>2. TypeOK'
    BY <2>1 DEF StoreInv, TypeOK
  <2> QED
    BY <2>1, <2>2 DEF StoreInv, OneEditor, Safe, Kept, Snapshots
<1>5. CASE UNCHANGED vars
  <2>1. UNCHANGED <<file, audits, task, answer, crashes, held, landed, shared>>
    BY <1>5 DEF vars, history
  <2>2. TypeOK'
    BY <2>1 DEF StoreInv, TypeOK
  <2> QED
    BY <2>1, <2>2, SameFiles
<1> QED
  BY <1>1, <1>2, <1>3, <1>4, <1>5 DEF Next

LEMMA StoreInvariant == Spec => []StoreInv
BY InitStore, NextStore, PTL DEF Spec

\* Every reachable state is well typed.
THEOREM TypeCorrect == Spec => []TypeOK
<1>1. StoreInv => TypeOK
  BY DEF StoreInv
<1> QED
  BY <1>1, StoreInvariant, PTL

\* Whatever a workflow's file has held can be had back, wherever the server ended
\* (apply_proposed_spec, restore_snapshot and copy_template write the audit
\* directory first).
THEOREM NothingIsForgotten == Spec => []Recoverable
<1>1. StoreInv => Recoverable
  BY DEF StoreInv, Safe, Recoverable
<1> QED
  BY <1>1, StoreInvariant, PTL

-----------------------------------------------------------------------------
(* What is kept is a spec of the workflow itself: a change is accepted only *)
(* if the spec it replaces parses and bears the workflow's id.             *)

OwnText(w, x) == Parses(x) /\ x.name = w

OwnInv ==
    /\ \A c \in Clients : task[c] # None /\ task[c].op # "copied" =>
          OwnText(task[c].wf, task[c].old)
    /\ \A w \in Workflows : \A i \in DOMAIN audits[w] :
          audits[w][i].original \in Text => OwnText(w, audits[w][i].original)

\* Every request that changes something begins with one of the three.
LEMMA RequestBegins ==
    ASSUME StoreInv, NEW c \in Clients, Request(c)
    PROVE  \E op \in Ops, w \in Workflows, old \in Text \union {None}, new \in Text :
              /\ task[c] = None /\ Begin(c, op, w, old, new)
              /\ op = "copied" => file[w] = NoFile
              /\ op # "copied" => OwnText(w, old)
<1> PICK w \in Workflows :
        \/ \E t \in Proposals : Apply(c, w, t)
        \/ \E i \in 1..MaxAudits : Restore(c, w, i)
        \/ \E id \in Workflows : \E n \in Titles \union {id} : CopyTemplate(c, w, id, n)
  BY DEF Request
<1>1. LoadErrors(w) = {} => Parses(file[w])
  BY DEF LoadErrors
<1>2. CASE \E t \in Proposals : Apply(c, w, t)
  BY <1>2, StoreAssumption DEF StoreAssumption, Apply, Accepts, OwnText, Parses, Ops
<1>3. CASE \E i \in 1..MaxAudits : Restore(c, w, i)
  BY <1>1, <1>3 DEF Restore, Loads, Accepts, OwnText, Parses, Ops
<1>4. CASE \E id \in Workflows : \E n \in Titles \union {id} : CopyTemplate(c, w, id, n)
  <2> PICK id \in Workflows, n \in Names : CopyTemplate(c, w, id, n)
    BY <1>4, StoreAssumption DEF StoreAssumption
  <2>1. file[w] \in Text
    BY <1>1 DEF CopyTemplate, Loads, Parses
  <2>2. CopyOf(w, n) \in Text
    BY <2>1 DEF CopyOf, Text
  <2> QED
    BY <2>2 DEF CopyTemplate, Ops
<1> QED
  BY <1>2, <1>3, <1>4

LEMMA BeginOwn ==
    ASSUME StoreInv, OwnInv, NEW c \in Clients, Request(c)
    PROVE  OwnInv'
<1> PICK op \in Ops, w \in Workflows, old \in Text \union {None}, new \in Text :
        Begin(c, op, w, old, new) /\ (op # "copied" => OwnText(w, old))
  BY RequestBegins
<1> DEFINE t == [op |-> op, at |-> "mkdir", wf |-> w, old |-> old, new |-> new, id |-> 0]
<1>1. task' = [task EXCEPT ![c] = t] /\ UNCHANGED audits
  BY DEF Begin
<1>2. t.op = op /\ t.wf = w /\ t.old = old
  OBVIOUS
<1> HIDE DEF t
<1>3. task'[c] = t /\ \A d \in Clients \ {c} : task'[d] = task[d]
  BY <1>1 DEF StoreInv, TypeOK
<1> QED
  BY <1>1, <1>2, <1>3 DEF OwnInv, OwnText, Parses

LEMMA ServeOwn ==
    ASSUME StoreInv, OwnInv, NEW c \in Clients, Serve(c)
    PROVE  OwnInv'
<1>1. PICK stage \in Stages, id \in Nat : At(c, stage) /\ Proceed(c, id)
  <2>1. PICK stage \in Stages : At(c, stage) /\ (Proceed(c, task[c].id)
                                  \/ Proceed(c, Len(audits[task[c].wf]) + 1))
    BY DEF Serve, MakeAudit, WriteOriginal, WriteRecord, OpenSource, WriteSource, Stages
  <2>2. task[c] \in Task /\ audits[task[c].wf] \in Seq(Audit)
    BY <2>1, StageFacts
  <2>3. task[c].id \in Nat /\ Len(audits[task[c].wf]) + 1 \in Nat
    BY <2>2 DEF Task
  <2> QED
    BY <2>1, <2>3
<1> PICK w \in Workflows : w = task[c].wf
  BY <1>1, StageFacts
<1>2. \A d \in Clients : task'[d] # None =>
         /\ task[d] # None /\ task'[d].wf = task[d].wf
         /\ task'[d].op = task[d].op /\ task'[d].old = task[d].old
  BY <1>1, ProceedType DEF At
<1>3. \A d \in Clients : task'[d] # None /\ task'[d].op # "copied" =>
         OwnText(task'[d].wf, task'[d].old)
  BY <1>2 DEF OwnInv
<1>4. ASSUME NEW v \in Workflows, NEW i \in DOMAIN audits'[v], audits'[v][i].original \in Text
      PROVE  OwnText(v, audits'[v][i].original)
  <2>1. audits \in [Workflows -> Seq(Audit)]
    BY DEF StoreInv, TypeOK
  <2>2. ASSUME i \in DOMAIN audits[v], audits'[v][i].original = audits[v][i].original
        PROVE  OwnText(v, audits'[v][i].original)
    BY <1>4, <2>2 DEF OwnInv
  <2>3. CASE MakeAudit(c)
    <3> DEFINE new == [original |-> IF task[c].op = "copied" THEN NoFile ELSE Empty,
                       record |-> None]
    <3>1. audits' = [audits EXCEPT ![w] = Append(@, new)]
      BY <2>3 DEF MakeAudit
    <3>2. new.original \notin Text /\ new \in Audit
      BY StoreAssumption DEF StoreAssumption, Audit
    <3> HIDE DEF new
    <3>3. i \in DOMAIN audits[v] /\ audits'[v][i] = audits[v][i]
      BY <1>4, <2>1, <3>1, <3>2
    <3> QED
      BY <2>2, <3>3
  <2>4. CASE WriteOriginal(c)
    <3> DEFINE a == [audits[w][task[c].id] EXCEPT !.original = task[c].old]
    <3>1. /\ At(c, "original")
          /\ audits' = [audits EXCEPT ![w] = [audits[w] EXCEPT ![task[c].id] = a]]
      BY <2>4 DEF WriteOriginal
    <3>2. /\ task[c] # None /\ task[c].op # "copied" /\ task[c].id \in DOMAIN audits[w]
      BY <3>1, StageFacts DEF Stages, Placed
    <3>3. audits[w][task[c].id] \in Audit /\ task[c].old \in Text
      <4>1. task[c].old \in Text
        BY <3>1, <3>2, StageFacts DEF Stages, Placed
      <4>2. audits[w] \in Seq(Audit)
        BY <2>1
      <4> QED
        BY <3>2, <4>1, <4>2
    <3>4. a \in Audit /\ a.original = task[c].old
      BY <3>3 DEF Audit
    <3> HIDE DEF a
    <3>5. CASE v = w /\ i = task[c].id
      <4>1. audits'[v][i] = a
        BY <2>1, <3>1, <3>2, <3>5
      <4> QED
        BY <3>2, <3>4, <3>5, <4>1 DEF OwnInv
    <3>6. CASE ~(v = w /\ i = task[c].id)
      <4>1. i \in DOMAIN audits[v] /\ audits'[v][i] = audits[v][i]
        BY <1>4, <2>1, <3>1, <3>2, <3>6
      <4> QED
        BY <2>2, <4>1
    <3> QED
      BY <3>5, <3>6
  <2>5. CASE WriteRecord(c)
    <3> DEFINE r == [old |-> task[c].old, new |-> task[c].new]
               a == [audits[w][task[c].id] EXCEPT !.record = r]
    <3>1. /\ At(c, "record")
          /\ audits' = [audits EXCEPT ![w] = [audits[w] EXCEPT ![task[c].id] = a]]
      BY <2>5 DEF WriteRecord
    <3>2. task[c].id \in DOMAIN audits[w]
      BY <3>1, StageFacts DEF Stages, Placed
    <3>3. audits[w][task[c].id] \in Audit
      BY <2>1, <3>2
    <3> HIDE DEF r
    <3>4. a.original = audits[w][task[c].id].original
      BY <3>3 DEF Audit
    <3> HIDE DEF a
    <3>5. i \in DOMAIN audits[v] /\ audits'[v][i].original = audits[v][i].original
      BY <1>4, <2>1, <3>1, <3>2, <3>4
    <3> QED
      BY <2>2, <3>5
  <2>6. CASE OpenSource(c) \/ WriteSource(c)
    BY <1>4, <2>2, <2>6 DEF OpenSource, WriteSource
  <2> QED
    BY <2>3, <2>4, <2>5, <2>6 DEF Serve
<1> QED
  BY <1>3, <1>4 DEF OwnInv, OwnText, Parses

LEMMA NextOwn == StoreInv /\ OwnInv /\ [Next]_vars => OwnInv'
<1> SUFFICES ASSUME StoreInv, OwnInv, [Next]_vars PROVE OwnInv'
  OBVIOUS
<1>1. CASE \E c \in Clients : Request(c)
  BY <1>1, BeginOwn
<1>2. CASE \E c \in Clients : Serve(c)
  BY <1>2, ServeOwn
<1>3. CASE \E w \in Workflows : Refuse(w)
  BY <1>3 DEF Refuse, OwnInv, OwnText, Parses
<1>4. CASE Crash
  BY <1>4 DEF Crash, OwnInv, OwnText, Parses
<1>5. CASE UNCHANGED vars
  BY <1>5 DEF vars, OwnInv, OwnText, Parses
<1> QED
  BY <1>1, <1>2, <1>3, <1>4, <1>5 DEF Next

\* While a workflow loads under its own name, all its snapshots pass the checks of
\* a restore (restore_snapshot).
THEOREM EverySnapshotFits == Spec => []SnapshotsRestorable
<1>1. Init => OwnInv
  BY DEF Init, OwnInv
<1>2. Spec => []OwnInv
  BY <1>1, StoreInvariant, NextOwn, PTL DEF Spec
<1>3. StoreInv /\ OwnInv => SnapshotsRestorable
  <2> SUFFICES ASSUME StoreInv, OwnInv, NEW w \in Workflows, NEW i \in Complete(w)
               PROVE  OwnText(w, audits[w][i].original)
    BY DEF SnapshotsRestorable, OwnText
  <2>1. audits[w] \in Seq(Audit) /\ i \in DOMAIN audits[w]
    BY DEF StoreInv, TypeOK, Complete, Snapshots
  <2>2. audits[w][i] \in Audit
    BY <2>1
  <2>3. audits[w][i].original \in Text
    BY <2>2 DEF Audit, Complete, Snapshots
  <2> QED
    BY <2>1, <2>3 DEF OwnInv
<1> QED
  BY <1>2, <1>3, StoreInvariant, PTL

-----------------------------------------------------------------------------
(* The store keeps its promise. The text a workflow has is what its file     *)
(* holds or, after OpenSource, its last complete original; so the directory  *)
(* of a change must be the last one of its workflow until the change is made. *)

Latest(w, i) == i \in Complete(w) /\ \A j \in Complete(w) : j <= i

\* t is the task of the only editor of its workflow.
Ahead(t) ==
    /\ t.op = "copied" /\ t.at # "record" => Complete(t.wf) = {}
    /\ t.op # "copied" /\ t.at = "original" => \A j \in Complete(t.wf) : j < t.id
    /\ t.op # "copied" /\ t.at \in {"record", "open", "write"} =>
          Latest(t.wf, t.id) /\ audits[t.wf][t.id].original = t.old

Settled(w) ==
    /\ file[w] = NoFile => Complete(w) = {}
    /\ Complete(w) # {} => \E i \in Complete(w) : Latest(w, i)

PromiseInv ==
    \A w \in Workflows \ shared :
        /\ Settled(w)
        /\ \A c \in Clients : task[c] # None /\ task[c].wf = w => Ahead(task[c])

LEMMA GreatestIs ==
    ASSUME NEW S, S \subseteq Nat, NEW i \in S, \A j \in S : j <= i
    PROVE  (CHOOSE k \in S : \A j \in S : j <= k) = i
<1> DEFINE g == CHOOSE k \in S : \A j \in S : j <= k
<1>1. g \in S /\ \A j \in S : j <= g
  OBVIOUS
<1> HIDE DEF g
<1>2. g = i
  BY <1>1
<1> QED
  BY <1>2 DEF g

LEMMA CompleteType ==
    ASSUME NEW w \in Workflows, audits \in [Workflows -> Seq(Audit)]
    PROVE  /\ Complete(w) = {i \in DOMAIN audits[w] : audits[w][i].original \in Text}
           /\ Complete(w) \subseteq Nat
           /\ Kept(w) = {audits[w][i].original : i \in Complete(w)}
<1>1. audits[w] \in Seq(Audit)
  OBVIOUS
<1>2. DOMAIN audits[w] \subseteq Nat /\ \A i \in DOMAIN audits[w] : audits[w][i] \in Audit
  BY <1>1
<1>3. \A i \in DOMAIN audits[w] : audits[w][i].original \in Text \union {NoFile, Empty}
  BY <1>2 DEF Audit
<1>4. Complete(w) = {i \in DOMAIN audits[w] : audits[w][i].original \in Text}
  BY <1>3, StoreAssumption DEF Complete, Snapshots, StoreAssumption
<1>5. Kept(w) = {audits[w][i].original : i \in Complete(w)}
  BY <1>3, <1>4, StoreAssumption DEF Kept, Snapshots, StoreAssumption
<1> QED
  BY <1>2, <1>4, <1>5

LEMMA CompleteTypeNext ==
    ASSUME NEW w \in Workflows, audits' \in [Workflows -> Seq(Audit)]
    PROVE  /\ Complete(w)' = {i \in DOMAIN audits'[w] : audits'[w][i].original \in Text}
           /\ Complete(w)' \subseteq Nat
           /\ Kept(w)' = {audits'[w][i].original : i \in Complete(w)'}
<1>1. audits'[w] \in Seq(Audit)
  OBVIOUS
<1>2. DOMAIN audits'[w] \subseteq Nat /\ \A i \in DOMAIN audits'[w] : audits'[w][i] \in Audit
  BY <1>1
<1>3. \A i \in DOMAIN audits'[w] : audits'[w][i].original \in Text \union {NoFile, Empty}
  BY <1>2 DEF Audit
<1>4. Complete(w)' = {i \in DOMAIN audits'[w] : audits'[w][i].original \in Text}
  BY <1>3, StoreAssumption DEF Complete, Snapshots, StoreAssumption
<1>5. Kept(w)' = {audits'[w][i].original : i \in Complete(w)'}
  BY <1>3, <1>4, StoreAssumption DEF Kept, Snapshots, StoreAssumption
<1> QED
  BY <1>2, <1>4, <1>5

LEMMA LastKeptIs ==
    ASSUME NEW w \in Workflows, NEW i, Latest(w, i), audits \in [Workflows -> Seq(Audit)]
    PROVE  LastKept(w) = audits[w][i].original
<1>1. Complete(w) \subseteq Nat /\ i \in Complete(w) /\ \A j \in Complete(w) : j <= i
  BY CompleteType DEF Latest
<1>2. (CHOOSE k \in Complete(w) : \A j \in Complete(w) : j <= k) = i
  BY <1>1, GreatestIs
<1> QED
  BY <1>2 DEF LastKept

LEMMA LastKeptIsNext ==
    ASSUME NEW w \in Workflows, NEW i, Latest(w, i)', audits' \in [Workflows -> Seq(Audit)]
    PROVE  LastKept(w)' = audits'[w][i].original
<1>1. /\ Complete(w)' \subseteq Nat /\ i \in Complete(w)'
      /\ \A j \in Complete(w)' : j <= i
  BY CompleteTypeNext DEF Latest
<1>2. (CHOOSE k \in Complete(w)' : \A j \in Complete(w)' : j <= k) = i
  BY <1>1, GreatestIs
<1>3. LastKept(w)' = audits'[w][CHOOSE k \in Complete(w)' : \A j \in Complete(w)' : j <= k].original
  BY DEF LastKept, Complete, Snapshots
<1> QED
  BY <1>2, <1>3

LEMMA TextsAre ==
    /\ Texts = [v \in Workflows |-> Texts[v]] /\ KeptTexts = [v \in Workflows |-> KeptTexts[v]]
    /\ \A w \in Workflows :
          /\ Texts[w] = IF file[w] \in Text THEN file[w]
                        ELSE IF file[w] = NoFile \/ Complete(w) = {} THEN None ELSE LastKept(w)
          /\ KeptTexts[w] = Kept(w)
BY DEF Texts, KeptTexts, LastKept, Complete, Kept, Snapshots

LEMMA TextsAreNext ==
    /\ Texts' = [v \in Workflows |-> Texts'[v]]
    /\ KeptTexts' = [v \in Workflows |-> KeptTexts'[v]]
    /\ \A w \in Workflows :
          /\ Texts'[w] = IF file'[w] \in Text THEN file'[w]
                         ELSE IF file'[w] = NoFile \/ Complete(w)' = {} THEN None ELSE LastKept(w)'
          /\ KeptTexts'[w] = Kept(w)'
BY DEF Texts, KeptTexts, LastKept, Complete, Kept, Snapshots

\* A step about one workflow leaves the texts of the others.
LEMMA OthersSame ==
    ASSUME NEW w \in Workflows,
           \A v \in Workflows \ {w} : file'[v] = file[v] /\ audits'[v] = audits[v]
    PROVE  /\ Texts' = [Texts EXCEPT ![w] = Texts'[w]]
           /\ KeptTexts' = [KeptTexts EXCEPT ![w] = KeptTexts'[w]]
<1>1. ASSUME NEW v \in Workflows \ {w}
      PROVE  Texts'[v] = Texts[v] /\ KeptTexts'[v] = KeptTexts[v]
  <2>1. Complete(v)' = Complete(v) /\ Kept(v)' = Kept(v)
    BY DEF Complete, Kept, Snapshots
  <2>2. LastKept(v)' = LastKept(v)
    BY DEF LastKept, Complete, Snapshots
  <2> QED
    BY <2>1, <2>2, TextsAre, TextsAreNext
<1> QED
  BY <1>1, TextsAre, TextsAreNext

\* A workflow whose file and complete originals stay keeps its texts.
LEMMA SameOriginals ==
    ASSUME NEW w \in Workflows, Settled(w), file'[w] = file[w],
           audits \in [Workflows -> Seq(Audit)], audits' \in [Workflows -> Seq(Audit)],
           Complete(w)' = Complete(w),
           \A i \in Complete(w) : audits'[w][i].original = audits[w][i].original
    PROVE  Settled(w)' /\ Texts'[w] = Texts[w] /\ KeptTexts'[w] = KeptTexts[w]
<1>1. Kept(w)' = Kept(w)
  <2>1. Kept(w) = {audits[w][i].original : i \in Complete(w)}
    BY CompleteType
  <2>2. Kept(w)' = {audits'[w][i].original : i \in Complete(w)}
    BY CompleteTypeNext
  <2> QED
    BY <2>1, <2>2
<1>2. \A i \in Complete(w) : Latest(w, i) => Latest(w, i)'
  BY DEF Latest
<1>3. Settled(w)'
  BY <1>2 DEF Settled
<1>4. ASSUME Complete(w) # {} PROVE LastKept(w)' = LastKept(w)
  <2> PICK i \in Complete(w) : Latest(w, i)
    BY <1>4 DEF Settled
  <2>1. LastKept(w) = audits[w][i].original
    BY LastKeptIs
  <2>2. LastKept(w)' = audits'[w][i].original
    BY <1>2, LastKeptIsNext
  <2> QED
    BY <2>1, <2>2
<1> QED
  BY <1>1, <1>3, <1>4, TextsAre, TextsAreNext

-----------------------------------------------------------------------------
(* What the stages do with the audit directories of their workflow.         *)

\* What every stage does with the requests.
Passes(c, w, id, stage) ==
    /\ task[c] # None /\ task[c].at = stage /\ task[c].new \in Text
    /\ Ready(task[c]) /\ Placed(task[c])
    /\ \A d \in Clients \ {c} : task'[d] = task[d]
    /\ task'[c] # None =>
          /\ task'[c].wf = w /\ task'[c].op = task[c].op
          /\ task'[c].old = task[c].old /\ task'[c].new = task[c].new
          /\ task'[c].id = id /\ Follows(task[c].op, stage, task'[c].at)
    /\ task'[c] = None => task[c].at = IF task[c].op = "copied" THEN "record" ELSE "write"

LEMMA StagePasses ==
    ASSUME StoreInv, NEW c \in Clients, NEW w, w = task[c].wf, NEW id \in Nat,
           NEW stage \in Stages, At(c, stage), Proceed(c, id)
    PROVE  Passes(c, w, id, stage)
<1>1. /\ task[c] \in Task /\ task[c] # None /\ task[c].at = stage /\ task[c].new \in Text
      /\ Ready(task[c]) /\ Placed(task[c])
  BY StageFacts
<1>2. task'[c] = None => task[c].at = IF task[c].op = "copied" THEN "record" ELSE "write"
  <2>1. ASSUME NEW next \in Stages,
               task' = [task EXCEPT ![c] = [task[c] EXCEPT !.at = next, !.id = id]]
        PROVE  task'[c] # None
    <3>1. [task[c] EXCEPT !.at = next, !.id = id] \in Task
      BY <1>1 DEF Task
    <3>2. task'[c] = [task[c] EXCEPT !.at = next, !.id = id]
      BY <2>1 DEF StoreInv, TypeOK
    <3> QED
      BY <3>1, <3>2, StoreAssumption DEF StoreAssumption
  <2>2. \/ task[c].at = IF task[c].op = "copied" THEN "record" ELSE "write"
        \/ \E next \in Stages :
              task' = [task EXCEPT ![c] = [task[c] EXCEPT !.at = next, !.id = id]]
    <3>1. task[c] \in Task /\ Placed(task[c])
      BY <1>1
    <3>2. \/ /\ task' = [task EXCEPT ![c] = None]
             /\ answer' = task[c].op
             /\ task[c].at = (IF task[c].op = "copied" THEN "record" ELSE "write")
          \/ \E next \in Stages :
                /\ task' = [task EXCEPT ![c] = [task[c] EXCEPT !.at = next, !.id = id]]
                /\ answer' = answer
                /\ Follows(task[c].op, task[c].at, next)
      BY <3>1, ProceedIs
    <3> QED
      BY <3>2
  <2> QED
    BY <2>1, <2>2
<1> QED
  BY <1>1, <1>2, ProceedType DEF Passes

\* The directories of other workflows stay, and none is lost.
Grows(w) ==
    /\ audits \in [Workflows -> Seq(Audit)] /\ audits' \in [Workflows -> Seq(Audit)]
    /\ \A v \in Workflows \ {w} : audits'[v] = audits[v]
    /\ DOMAIN audits[w] \subseteq DOMAIN audits'[w]

LEMMA MakeAuditDoes ==
    ASSUME StoreInv, NEW c \in Clients, MakeAudit(c), NEW w \in Workflows, w = task[c].wf
    PROVE  /\ UNCHANGED <<file, landed, shared>>
           /\ Passes(c, w, Len(audits[w]) + 1, "mkdir")
           /\ Grows(w) /\ Len(audits[w]) + 1 \in Nat
           /\ \A i \in DOMAIN audits[w] : audits'[w][i] = audits[w][i] /\ i < Len(audits[w]) + 1
           /\ Len(audits[w]) + 1 \in DOMAIN audits'[w]
           /\ audits'[w][Len(audits[w]) + 1].original \notin Text
           /\ Complete(w)' = Complete(w) /\ Complete(w) \subseteq DOMAIN audits[w]
<1> DEFINE new == [original |-> IF task[c].op = "copied" THEN NoFile ELSE Empty, record |-> None]
<1>1. /\ At(c, "mkdir") /\ audits' = [audits EXCEPT ![w] = Append(@, new)]
      /\ Proceed(c, Len(audits[w]) + 1) /\ UNCHANGED <<file, landed, shared>>
  BY DEF MakeAudit, history
<1>2. new \in Audit /\ new.original \notin Text
  BY StoreAssumption DEF Audit, StoreAssumption
<1> HIDE DEF new
<1>3. /\ audits \in [Workflows -> Seq(Audit)] /\ audits[w] \in Seq(Audit)
      /\ Len(audits[w]) + 1 \in Nat
  BY DEF StoreInv, TypeOK
<1>4. Passes(c, w, Len(audits[w]) + 1, "mkdir")
  BY <1>1, <1>3, StagePasses DEF Stages
<1>5. /\ audits' \in [Workflows -> Seq(Audit)]
      /\ \A v \in Workflows \ {w} : audits'[v] = audits[v]
      /\ audits'[w] = Append(audits[w], new)
  BY <1>1, <1>2, <1>3
<1>6. /\ DOMAIN audits[w] = 1..Len(audits[w])
      /\ DOMAIN audits'[w] = 1..(Len(audits[w]) + 1)
      /\ audits'[w][Len(audits[w]) + 1] = new
      /\ \A i \in DOMAIN audits[w] : audits'[w][i] = audits[w][i]
  BY <1>2, <1>3, <1>5
<1>7. Complete(w)' = Complete(w) /\ Complete(w) \subseteq DOMAIN audits[w]
  <2>1. Complete(w) = {i \in DOMAIN audits[w] : audits[w][i].original \in Text}
    BY <1>3, CompleteType
  <2>2. Complete(w)' = {i \in DOMAIN audits'[w] : audits'[w][i].original \in Text}
    BY <1>5, CompleteTypeNext
  <2>3. DOMAIN audits'[w] = DOMAIN audits[w] \union {Len(audits[w]) + 1}
    BY <1>3, <1>6
  <2>4. \A i \in DOMAIN audits[w] : audits'[w][i].original = audits[w][i].original
    BY <1>6
  <2>5. audits'[w][Len(audits[w]) + 1].original \notin Text
    BY <1>2, <1>6
  <2>6. \A i : i \in Complete(w)' <=> i \in Complete(w)
    BY <2>1, <2>2, <2>3, <2>4, <2>5
  <2> QED
    BY <2>1, <2>6
<1>8. /\ DOMAIN audits[w] \subseteq DOMAIN audits'[w]
      /\ \A i \in DOMAIN audits[w] : i < Len(audits[w]) + 1
      /\ Len(audits[w]) + 1 \in DOMAIN audits'[w]
  BY <1>3, <1>6
<1> QED
  BY <1>1, <1>2, <1>3, <1>4, <1>5, <1>6, <1>7, <1>8 DEF Grows

LEMMA WriteOriginalDoes ==
    ASSUME StoreInv, NEW c \in Clients, WriteOriginal(c), NEW w \in Workflows, w = task[c].wf
    PROVE  /\ UNCHANGED <<file, landed, shared>>
           /\ Passes(c, w, task[c].id, "original") /\ Grows(w)
           /\ task[c].id \in Nat /\ task[c].id \in DOMAIN audits[w]
           /\ task[c].op # "copied" /\ task[c].old \in Text
           /\ audits'[w][task[c].id].original = task[c].old
           /\ \A j \in DOMAIN audits[w] \ {task[c].id} : audits'[w][j] = audits[w][j]
           /\ w \notin shared => /\ task[c].id \notin Complete(w)
                                 /\ Complete(w)' = Complete(w) \union {task[c].id}
<1> DEFINE t == task[c]
           a == [audits[w][t.id] EXCEPT !.original = t.old]
<1>1. /\ At(c, "original") /\ Proceed(c, t.id) /\ UNCHANGED <<file, landed, shared>>
      /\ audits' = [audits EXCEPT ![w] = [audits[w] EXCEPT ![t.id] = a]]
  BY DEF WriteOriginal, history
<1>2. /\ t \in Task /\ Ready(t) /\ Placed(t) /\ t.at = "original"
      /\ audits[w] \in Seq(Audit)
  BY <1>1, StageFacts DEF Stages
<1>3. /\ t.id \in DOMAIN audits[w] /\ t.id \in Nat /\ t.op # "copied" /\ t.old \in Text
      /\ audits \in [Workflows -> Seq(Audit)]
  BY <1>2 DEF Placed, Task, StoreInv, TypeOK
<1>4. Passes(c, w, t.id, "original")
  BY <1>1, <1>3, StagePasses DEF Stages
<1>5. audits[w][t.id] \in Audit
  BY <1>2, <1>3
<1>6. a \in Audit /\ a.original = t.old
  BY <1>3, <1>5 DEF Audit
<1> HIDE DEF a
<1>7. /\ audits' \in [Workflows -> Seq(Audit)]
      /\ \A v \in Workflows \ {w} : audits'[v] = audits[v]
      /\ DOMAIN audits'[w] = DOMAIN audits[w]
      /\ audits'[w][t.id] = a
      /\ \A j \in DOMAIN audits[w] \ {t.id} : audits'[w][j] = audits[w][j]
  BY <1>1, <1>3, <1>6, AmendAudit
<1>8. ASSUME w \notin shared
      PROVE  t.id \notin Complete(w) /\ Complete(w)' = Complete(w) \union {t.id}
  <2>1. audits[w][t.id].original \notin Text
    BY <1>2, <1>3, <1>8, StoreAssumption DEF Ready, Prepared, StoreAssumption
  <2>2. Complete(w) = {i \in DOMAIN audits[w] : audits[w][i].original \in Text}
    BY <1>3, CompleteType
  <2>3. Complete(w)' = {i \in DOMAIN audits'[w] : audits'[w][i].original \in Text}
    BY <1>7, CompleteTypeNext
  <2>4. audits'[w][t.id].original \in Text
    BY <1>3, <1>6, <1>7
  <2>5. \A j \in DOMAIN audits[w] \ {t.id} : audits'[w][j].original = audits[w][j].original
    BY <1>7
  <2>6. DOMAIN audits'[w] = DOMAIN audits[w] /\ t.id \in DOMAIN audits[w]
    BY <1>3, <1>7
  <2> HIDE DEF t
  <2>7. \A j : j \in Complete(w)' <=> j \in Complete(w) \/ j = t.id
    BY <2>2, <2>3, <2>4, <2>5, <2>6
  <2> QED
    BY <2>1, <2>2, <2>7
<1> QED
  BY <1>1, <1>3, <1>4, <1>6, <1>7, <1>8 DEF Grows

LEMMA WriteRecordDoes ==
    ASSUME StoreInv, NEW c \in Clients, WriteRecord(c), NEW w \in Workflows, w = task[c].wf
    PROVE  /\ UNCHANGED <<file, landed, shared>>
           /\ Passes(c, w, task[c].id, "record") /\ Grows(w)
           /\ task[c].id \in Nat /\ task[c].id \in DOMAIN audits[w]
           /\ audits'[w][task[c].id].record = [old |-> task[c].old, new |-> task[c].new]
           /\ \A j \in DOMAIN audits[w] : audits'[w][j].original = audits[w][j].original
           /\ \A j \in DOMAIN audits[w] \ {task[c].id} : audits'[w][j] = audits[w][j]
           /\ Complete(w)' = Complete(w) /\ Complete(w) \subseteq DOMAIN audits[w]
<1> DEFINE t == task[c]
           r == [old |-> t.old, new |-> t.new]
           a == [audits[w][t.id] EXCEPT !.record = r]
<1>1. /\ At(c, "record") /\ Proceed(c, t.id) /\ UNCHANGED <<file, landed, shared>>
      /\ audits' = [audits EXCEPT ![w] = [audits[w] EXCEPT ![t.id] = a]]
  BY DEF WriteRecord, history
<1>2. /\ t \in Task /\ Placed(t) /\ t.at = "record" /\ audits[w] \in Seq(Audit)
  BY <1>1, StageFacts DEF Stages
<1>3. /\ t.id \in DOMAIN audits[w] /\ t.id \in Nat /\ r \in Records
      /\ audits \in [Workflows -> Seq(Audit)]
  BY <1>2 DEF Placed, Task, Records, StoreInv, TypeOK
<1>4. Passes(c, w, t.id, "record")
  BY <1>1, <1>3, StagePasses DEF Stages
<1>5. audits[w][t.id] \in Audit
  BY <1>2, <1>3
<1> HIDE DEF r
<1>6. a \in Audit /\ a.original = audits[w][t.id].original /\ a.record = r
  BY <1>3, <1>5 DEF Audit
<1> HIDE DEF a
<1>7. /\ audits' \in [Workflows -> Seq(Audit)]
      /\ \A v \in Workflows \ {w} : audits'[v] = audits[v]
      /\ DOMAIN audits'[w] = DOMAIN audits[w]
      /\ audits'[w][t.id] = a
      /\ \A j \in DOMAIN audits[w] \ {t.id} : audits'[w][j] = audits[w][j]
  BY <1>1, <1>3, <1>6, AmendAudit
<1>8. \A j \in DOMAIN audits[w] : audits'[w][j].original = audits[w][j].original
  BY <1>6, <1>7
<1>9. Complete(w)' = Complete(w) /\ Complete(w) \subseteq DOMAIN audits[w]
  <2>1. Complete(w) = {i \in DOMAIN audits[w] : audits[w][i].original \in Text}
    BY <1>3, CompleteType
  <2>2. Complete(w)' = {i \in DOMAIN audits'[w] : audits'[w][i].original \in Text}
    BY <1>7, CompleteTypeNext
  <2> QED
    BY <1>7, <1>8, <2>1, <2>2
<1> QED
  BY <1>1, <1>3, <1>4, <1>6, <1>7, <1>8, <1>9 DEF Grows, r

LEMMA OpenSourceDoes ==
    ASSUME StoreInv, NEW c \in Clients, OpenSource(c), NEW w \in Workflows, w = task[c].wf
    PROVE  /\ UNCHANGED <<audits, landed, shared>>
           /\ Passes(c, w, task[c].id, "open") /\ Grows(w) /\ task[c].id \in Nat
           /\ \A v \in Workflows \ {w} : file'[v] = file[v]
           /\ file'[w] = Empty
           /\ Complete(w)' = Complete(w) /\ Kept(w)' = Kept(w)
<1>1. /\ At(c, "open") /\ file' = [file EXCEPT ![w] = Empty]
      /\ Proceed(c, task[c].id) /\ UNCHANGED <<audits, landed, shared>>
  BY DEF OpenSource, history
<1>2. task[c].id \in Nat
  BY <1>1, StageFacts DEF Task, Stages
<1>3. /\ \A v \in Workflows \ {w} : file'[v] = file[v]
      /\ file'[w] = Empty
  BY <1>1 DEF StoreInv, TypeOK
<1>4. Complete(w)' = Complete(w) /\ Kept(w)' = Kept(w)
  BY <1>1 DEF Complete, Kept, Snapshots
<1>5. Passes(c, w, task[c].id, "open")
  BY <1>1, <1>2, StagePasses DEF Stages
<1> QED
  BY <1>1, <1>2, <1>3, <1>4, <1>5 DEF Grows, StoreInv, TypeOK

LEMMA WriteSourceDoes ==
    ASSUME StoreInv, NEW c \in Clients, WriteSource(c), NEW w \in Workflows, w = task[c].wf
    PROVE  /\ UNCHANGED <<audits, shared>>
           /\ Passes(c, w, task[c].id, "write") /\ Grows(w) /\ task[c].id \in Nat
           /\ \A v \in Workflows \ {w} : file'[v] = file[v] /\ landed'[v] = landed[v]
           /\ landed'[w] = landed[w] \union {task[c].id}
           /\ w \notin shared => file[w] = Empty /\ file'[w] = task[c].new
           /\ Complete(w)' = Complete(w) /\ Kept(w)' = Kept(w)
<1>1. /\ At(c, "write") /\ Proceed(c, task[c].id) /\ UNCHANGED <<audits, shared>>
      /\ landed' = [landed EXCEPT ![w] = @ \union {task[c].id}]
  BY DEF WriteSource
<1> PICK x \in Overlay(file[w], task[c].new) : file' = [file EXCEPT ![w] = x]
  BY DEF WriteSource
<1>2. task[c].id \in Nat
  BY <1>1, StageFacts DEF Task, Stages
<1>3. /\ \A v \in Workflows \ {w} : file'[v] = file[v] /\ landed'[v] = landed[v]
      /\ file'[w] = x /\ landed'[w] = landed[w] \union {task[c].id}
  BY <1>1 DEF StoreInv, TypeOK
<1>4. Complete(w)' = Complete(w) /\ Kept(w)' = Kept(w)
  BY <1>1 DEF Complete, Kept, Snapshots
<1>5. Passes(c, w, task[c].id, "write")
  BY <1>1, <1>2, StagePasses DEF Stages
<1>6. w \notin shared => file[w] = Empty /\ x = task[c].new
  BY <1>5 DEF Passes, Ready, Prepared, Overlay
<1> QED
  BY <1>1, <1>2, <1>3, <1>4, <1>5, <1>6 DEF Grows, StoreInv, TypeOK

-----------------------------------------------------------------------------
(* Every stage of a request is a step of the promise, or none.              *)

\* What a stage may do with the texts of its workflow.
Moves(w) ==
    \/ Texts'[w] = Texts[w] /\ KeptTexts'[w] = KeptTexts[w]
    \/ /\ Texts[w] # None /\ Texts'[w] = Texts[w]
       /\ KeptTexts'[w] = KeptTexts[w] \union {Texts[w]}
    \/ /\ Texts[w] = None \/ Texts[w] \in KeptTexts[w]
       /\ Texts'[w] \in Text /\ KeptTexts'[w] = KeptTexts[w]

Promised == PromiseInv' /\ [Promise!Next]_<<Texts, KeptTexts, shared>>

LEMMA StagePromised ==
    ASSUME StoreInv, PromiseInv, shared' = shared,
           NEW c \in Clients, task[c] # None,
           NEW w \in Workflows, task[c].wf = w,
           \A v \in Workflows \ {w} : file'[v] = file[v] /\ audits'[v] = audits[v],
           \A d \in Clients \ {c} : task'[d] = task[d],
           task'[c] # None => task'[c].wf = w,
           w \notin shared => /\ Settled(w)'
                              /\ task'[c] # None => Ahead(task[c])'
                              /\ Moves(w)
    PROVE  Promised
<1>1. PromiseInv'
  <2> SUFFICES ASSUME NEW v \in Workflows \ shared
               PROVE  /\ Settled(v)'
                      /\ \A d \in Clients : task'[d] # None /\ task'[d].wf = v => Ahead(task[d])'
    BY DEF PromiseInv
  <2>1. CASE v = w
    <3>1. ASSUME NEW d \in Clients, task'[d] # None, task'[d].wf = v PROVE d = c
      BY <2>1, <3>1 DEF StoreInv, OneEditor
    <3> QED
      BY <2>1, <3>1
  <2>2. CASE v # w
    <3>1. Complete(v)' = Complete(v) /\ file'[v] = file[v] /\ audits'[v] = audits[v]
      BY <2>2 DEF Complete, Snapshots
    <3>2. Settled(v)'
      BY <3>1 DEF PromiseInv, Settled, Latest
    <3>3. ASSUME NEW d \in Clients, task'[d] # None, task'[d].wf = v PROVE Ahead(task[d])'
      <4>1. task'[d] = task[d]
        BY <2>2, <3>3
      <4>2. Ahead(task[d])
        BY <3>3, <4>1 DEF PromiseInv
      <4>3. task[d].wf = v
        BY <3>3, <4>1
      <4> QED
        BY <3>1, <4>1, <4>2, <4>3 DEF Ahead, Latest
    <3> QED
      BY <3>2, <3>3
  <2> QED
    BY <2>1, <2>2
<1>2. /\ Texts' = [Texts EXCEPT ![w] = Texts'[w]]
      /\ KeptTexts' = [KeptTexts EXCEPT ![w] = KeptTexts'[w]]
  BY OthersSame
<1>3. CASE w \in shared
  BY <1>1, <1>2, <1>3 DEF Promised, Promise!Next, Promise!Anything
<1>4. CASE w \notin shared /\ Texts'[w] = Texts[w] /\ KeptTexts'[w] = KeptTexts[w]
  <2>1. Texts' = Texts /\ KeptTexts' = KeptTexts
    BY <1>2, <1>4, TextsAre
  <2> QED
    BY <1>1, <2>1 DEF Promised
<1>5. CASE /\ Texts[w] # None /\ Texts'[w] = Texts[w]
           /\ KeptTexts'[w] = KeptTexts[w] \union {Texts[w]}
  <2>1. Texts' = Texts
    BY <1>2, <1>5, TextsAre
  <2>2. Promise!Keep(w)
    BY <1>2, <1>5, <2>1 DEF Promise!Keep
  <2> QED
    BY <1>1, <2>2 DEF Promised, Promise!Next
<1>6. CASE /\ Texts[w] = None \/ Texts[w] \in KeptTexts[w]
           /\ Texts'[w] \in Text /\ KeptTexts'[w] = KeptTexts[w]
  <2>1. KeptTexts' = KeptTexts
    BY <1>2, <1>6, TextsAre
  <2>2. Promise!Create(w) \/ Promise!Replace(w)
    BY <1>2, <1>6, <2>1 DEF Promise!Create, Promise!Replace, Promise!Put
  <2> QED
    BY <1>1, <2>2 DEF Promised, Promise!Next
<1> QED
  BY <1>3, <1>4, <1>5, <1>6 DEF Moves

LEMMA MakeAuditPromised ==
    ASSUME StoreInv, PromiseInv, NEW c \in Clients, MakeAudit(c)
    PROVE  Promised
<1> PICK w \in Workflows : w = task[c].wf
  BY StageFacts DEF MakeAudit, Stages
<1> DEFINE u == task'[c]
<1>1. /\ UNCHANGED <<file, shared>> /\ Grows(w)
      /\ Passes(c, w, Len(audits[w]) + 1, "mkdir")
      /\ \A i \in Complete(w) : audits'[w][i] = audits[w][i] /\ i < Len(audits[w]) + 1
      /\ Complete(w)' = Complete(w)
  BY MakeAuditDoes
<1>2. ASSUME w \notin shared
      PROVE  Settled(w)' /\ Moves(w) /\ (u # None => Ahead(task[c])')
  <2>1. Settled(w) /\ Ahead(task[c])
    BY <1>1, <1>2 DEF PromiseInv, Passes
  <2>2. Settled(w)' /\ Moves(w)
    BY <1>1, <2>1, SameOriginals DEF Moves, Grows
  <2>3. ASSUME u # None PROVE Ahead(task[c])'
    <3>1. IF task[c].op = "copied" THEN u.at = "open" ELSE u.at = "original"
      BY <1>1, <2>3 DEF Passes, Follows
    <3>2. task[c].op = "copied" => Complete(w) = {}
      BY <1>1, <2>1 DEF Ahead, Passes
    <3> QED
      BY <1>1, <2>3, <3>1, <3>2 DEF Ahead, Passes
  <2> QED
    BY <2>2, <2>3
<1> QED
  BY <1>1, <1>2, StagePromised DEF Passes, Grows

LEMMA WriteOriginalPromised ==
    ASSUME StoreInv, PromiseInv, NEW c \in Clients, WriteOriginal(c)
    PROVE  Promised
<1> PICK w \in Workflows : w = task[c].wf
  BY StageFacts DEF WriteOriginal, Stages
<1> DEFINE u == task'[c]
<1>1. PICK i \in Nat : i = task[c].id
  BY WriteOriginalDoes
<1>2. /\ UNCHANGED <<file, shared>> /\ Grows(w) /\ Passes(c, w, i, "original")
      /\ task[c].op # "copied" /\ task[c].old \in Text
      /\ audits'[w][i].original = task[c].old
      /\ \A j \in DOMAIN audits[w] \ {i} : audits'[w][j] = audits[w][j]
      /\ w \notin shared => i \notin Complete(w) /\ Complete(w)' = Complete(w) \union {i}
  BY <1>1, WriteOriginalDoes
<1>3. ASSUME w \notin shared
      PROVE  Settled(w)' /\ Moves(w) /\ (u # None => Ahead(task[c])')
  <2>1. Settled(w) /\ \A j \in Complete(w) : j < i
    BY <1>1, <1>2, <1>3 DEF PromiseInv, Ahead, Passes
  <2>2. file[w] = task[c].old
    BY <1>2, <1>3 DEF Passes, Ready, Prepared
  <2>3. Complete(w) \subseteq Nat /\ Complete(w) \subseteq DOMAIN audits[w]
    BY <1>2, CompleteType DEF Grows
  <2>4. Latest(w, i)'
    BY <1>2, <1>3, <2>1, <2>3 DEF Latest
  <2>5. Kept(w)' = Kept(w) \union {task[c].old}
    <3>1. Kept(w) = {audits[w][j].original : j \in Complete(w)}
      BY <1>2, CompleteType DEF Grows
    <3>2. Kept(w)' = {audits'[w][j].original : j \in Complete(w) \union {i}}
      BY <1>2, <1>3, CompleteTypeNext DEF Grows
    <3>3. \A j \in Complete(w) : audits'[w][j] = audits[w][j]
      BY <1>2, <1>3, <2>3
    <3> QED
      BY <1>2, <3>1, <3>2, <3>3
  <2>6. Moves(w)
    <3>1. Texts[w] = task[c].old /\ Texts'[w] = task[c].old /\ task[c].old # None
      BY <1>2, <2>2, TextsAre, TextsAreNext, StoreAssumption DEF StoreAssumption
    <3> QED
      BY <2>5, <3>1, TextsAre, TextsAreNext DEF Moves
  <2>7. Settled(w)'
    <3>1. file'[w] # NoFile
      BY <1>2, <2>2, StoreAssumption DEF StoreAssumption
    <3> QED
      BY <1>2, <1>3, <2>4, <3>1 DEF Settled
  <2>8. ASSUME u # None PROVE Ahead(task[c])'
    <3>1. u.at = "record"
      BY <1>2, <2>8 DEF Passes, Follows
    <3> QED
      BY <1>2, <2>4, <2>8, <3>1 DEF Ahead, Passes
  <2> QED
    BY <2>6, <2>7, <2>8
<1> QED
  BY <1>2, <1>3, StagePromised DEF Passes, Grows

LEMMA WriteRecordPromised ==
    ASSUME StoreInv, PromiseInv, NEW c \in Clients, WriteRecord(c)
    PROVE  Promised
<1> PICK w \in Workflows : w = task[c].wf
  BY StageFacts DEF WriteRecord, Stages
<1> DEFINE u == task'[c]
<1>1. PICK i \in Nat : i = task[c].id
  BY WriteRecordDoes
<1>2. /\ UNCHANGED <<file, shared>> /\ Grows(w) /\ Passes(c, w, i, "record")
      /\ i \in DOMAIN audits[w]
      /\ \A j \in DOMAIN audits[w] : audits'[w][j].original = audits[w][j].original
      /\ Complete(w)' = Complete(w) /\ Complete(w) \subseteq DOMAIN audits[w]
  BY <1>1, WriteRecordDoes
<1>3. ASSUME w \notin shared
      PROVE  Settled(w)' /\ Moves(w) /\ (u # None => Ahead(task[c])')
  <2>1. Settled(w) /\ Ahead(task[c])
    BY <1>2, <1>3 DEF PromiseInv, Passes
  <2>2. Settled(w)' /\ Moves(w)
    BY <1>2, <2>1, SameOriginals DEF Moves, Grows
  <2>3. ASSUME u # None PROVE Ahead(task[c])'
    <3>1. u.at = "open" /\ task[c].op # "copied"
      BY <1>2, <2>3 DEF Passes, Follows
    <3>2. Latest(w, i) /\ audits[w][i].original = task[c].old
      BY <1>1, <1>2, <2>1, <3>1 DEF Ahead, Passes
    <3>3. Latest(w, i)'
      BY <1>2, <3>2 DEF Latest
    <3> QED
      BY <1>2, <2>3, <3>1, <3>2, <3>3 DEF Ahead, Passes
  <2> QED
    BY <2>2, <2>3
<1> QED
  BY <1>2, <1>3, StagePromised DEF Passes, Grows

\* The file is truncated: the text the workflow has is now its last original.
LEMMA OpenSourcePromised ==
    ASSUME StoreInv, PromiseInv, NEW c \in Clients, OpenSource(c)
    PROVE  Promised
<1> PICK w \in Workflows : w = task[c].wf
  BY StageFacts DEF OpenSource, Stages
<1> DEFINE u == task'[c]
<1>1. PICK i \in Nat : i = task[c].id
  BY OpenSourceDoes
<1>2. /\ UNCHANGED <<audits, shared>> /\ Grows(w) /\ Passes(c, w, i, "open")
      /\ \A v \in Workflows \ {w} : file'[v] = file[v]
      /\ file'[w] = Empty
      /\ Complete(w)' = Complete(w) /\ Kept(w)' = Kept(w)
  BY <1>1, OpenSourceDoes
<1>3. Empty \notin Text /\ Empty # NoFile /\ NoFile \notin Text
  BY StoreAssumption DEF StoreAssumption
<1>4. ASSUME w \notin shared
      PROVE  Settled(w)' /\ Moves(w) /\ (u # None => Ahead(task[c])')
  <2>1. Settled(w) /\ Ahead(task[c]) /\ Prepared(task[c])
    BY <1>2, <1>4 DEF PromiseInv, Passes, Ready
  <2>2. Settled(w)'
    BY <1>2, <1>3, <2>1 DEF Settled, Latest
  <2>3. Texts'[w] = Texts[w]
    <3>1. CASE task[c].op = "copied"
      <4>1. file[w] = NoFile /\ Complete(w) = {}
        BY <1>2, <2>1, <3>1 DEF Passes, Prepared, Ahead
      <4> QED
        BY <1>2, <1>3, <4>1, TextsAre, TextsAreNext
    <3>2. CASE task[c].op # "copied"
      <4>1. /\ file[w] = task[c].old /\ task[c].old \in Text
            /\ Latest(w, i) /\ audits[w][i].original = task[c].old
        BY <1>1, <1>2, <2>1, <3>2 DEF Passes, Prepared, Placed, Ahead
      <4>2. Latest(w, i)' /\ Complete(w)' # {}
        BY <1>2, <4>1 DEF Latest
      <4>3. LastKept(w)' = task[c].old
        BY <1>2, <4>1, <4>2, LastKeptIsNext DEF Grows
      <4> QED
        BY <1>2, <1>3, <4>1, <4>2, <4>3, TextsAre, TextsAreNext
    <3> QED
      BY <3>1, <3>2
  <2>4. Moves(w)
    BY <1>2, <2>3, TextsAre, TextsAreNext DEF Moves
  <2>5. ASSUME u # None PROVE Ahead(task[c])'
    <3>1. u.at = "write"
      BY <1>2, <2>5 DEF Passes, Follows
    <3> QED
      BY <1>1, <1>2, <2>1, <2>5, <3>1 DEF Ahead, Latest, Passes
  <2> QED
    BY <2>2, <2>4, <2>5
<1> QED
  BY <1>2, <1>4, StagePromised DEF Passes

LEMMA WriteSourcePromised ==
    ASSUME StoreInv, PromiseInv, NEW c \in Clients, WriteSource(c)
    PROVE  Promised
<1> PICK w \in Workflows : w = task[c].wf
  BY StageFacts DEF WriteSource, Stages
<1> DEFINE u == task'[c]
<1>1. PICK i \in Nat : i = task[c].id
  BY WriteSourceDoes
<1>2. /\ UNCHANGED <<audits, shared>> /\ Grows(w) /\ Passes(c, w, i, "write")
      /\ \A v \in Workflows \ {w} : file'[v] = file[v]
      /\ w \notin shared => file[w] = Empty /\ file'[w] = task[c].new
      /\ Complete(w)' = Complete(w) /\ Kept(w)' = Kept(w)
  BY <1>1, WriteSourceDoes
<1>3. Empty \notin Text /\ Empty # NoFile /\ NoFile \notin Text
  BY StoreAssumption DEF StoreAssumption
<1>4. ASSUME w \notin shared
      PROVE  Settled(w)' /\ Moves(w) /\ (u # None => Ahead(task[c])')
  <2>1. Settled(w) /\ Ahead(task[c])
    BY <1>2, <1>4 DEF PromiseInv, Passes
  <2>2. file[w] = Empty /\ file'[w] \in Text
    BY <1>2, <1>4 DEF Passes
  <2>3. Settled(w)'
    BY <1>2, <1>3, <2>1, <2>2 DEF Settled, Latest
  <2>4. Texts[w] = None \/ Texts[w] \in KeptTexts[w]
    <3>1. CASE task[c].op = "copied"
      BY <1>2, <1>3, <2>1, <2>2, <3>1, TextsAre DEF Ahead, Passes
    <3>2. CASE task[c].op # "copied"
      <4>1. Latest(w, i) /\ audits[w][i].original = task[c].old
        BY <1>1, <1>2, <2>1, <3>2 DEF Ahead, Passes
      <4>2. LastKept(w) = task[c].old
        BY <1>2, <4>1, LastKeptIs DEF Grows
      <4>3. i \in Complete(w) /\ Kept(w) = {audits[w][j].original : j \in Complete(w)}
        BY <1>2, <4>1, CompleteType DEF Latest, Grows
      <4> QED
        BY <1>3, <2>2, <4>1, <4>2, <4>3, TextsAre
    <3> QED
      BY <3>1, <3>2
  <2>5. Texts'[w] \in Text /\ KeptTexts'[w] = KeptTexts[w]
    BY <1>2, <2>2, TextsAre, TextsAreNext
  <2>6. Moves(w)
    BY <2>4, <2>5 DEF Moves
  <2>7. ASSUME u # None PROVE Ahead(task[c])'
    <3>1. u.at = "record" /\ task[c].op = "copied"
      BY <1>2, <2>7 DEF Passes, Follows
    <3> QED
      BY <1>2, <2>7, <3>1 DEF Ahead, Passes
  <2> QED
    BY <2>3, <2>6, <2>7
<1> QED
  BY <1>2, <1>4, StagePromised DEF Passes

LEMMA RequestPromised ==
    ASSUME StoreInv, PromiseInv, NEW c \in Clients, Request(c)
    PROVE  Promised
<1> PICK op \in Ops, w \in Workflows, old \in Text \union {None}, new \in Text :
        Begin(c, op, w, old, new) /\ (op = "copied" => file[w] = NoFile)
  BY RequestBegins
<1> DEFINE t == [op |-> op, at |-> "mkdir", wf |-> w, old |-> old, new |-> new, id |-> 0]
<1>1. /\ task' = [task EXCEPT ![c] = t] /\ UNCHANGED <<file, audits>>
      /\ shared' = shared \union {v \in {w} : Edited(v)}
  BY DEF Begin
<1>2. t.op = op /\ t.at = "mkdir" /\ t.wf = w
  OBVIOUS
<1> HIDE DEF t
<1>3. task'[c] = t /\ \A d \in Clients \ {c} : task'[d] = task[d]
  BY <1>1 DEF StoreInv, TypeOK
<1>4. PromiseInv'
  <2> SUFFICES ASSUME NEW v \in Workflows \ shared'
               PROVE  /\ Settled(v)'
                      /\ \A d \in Clients : task'[d] # None /\ task'[d].wf = v => Ahead(task[d])'
    BY DEF PromiseInv
  <2>1. /\ Settled(v)
        /\ \A d \in Clients : task[d] # None /\ task[d].wf = v => Ahead(task[d])
    BY <1>1 DEF PromiseInv
  <2>2. \A u \in Workflows : Complete(u)' = Complete(u)
    BY <1>1 DEF Complete, Snapshots
  <2>3. Settled(v)'
    BY <1>1, <2>1, <2>2 DEF Settled, Latest
  <2>4. ASSUME NEW d \in Clients, task'[d] # None, task'[d].wf = v PROVE Ahead(task[d])'
    <3>1. CASE d = c
      <4>1. task'[d] = t /\ v = w
        BY <1>2, <1>3, <2>4, <3>1
      <4>2. op = "copied" => Complete(w) = {}
        BY <2>1, <4>1 DEF Settled
      <4> QED
        BY <1>2, <2>2, <4>1, <4>2 DEF Ahead
    <3>2. CASE d # c
      <4>1. task'[d] = task[d] /\ task[d].wf = v
        BY <1>3, <2>4, <3>2
      <4>2. Ahead(task[d]) /\ Complete(v)' = Complete(v)
        BY <2>1, <2>2, <2>4, <4>1
      <4> QED
        BY <1>1, <4>1, <4>2 DEF Ahead, Latest
    <3> QED
      BY <3>1, <3>2
  <2> QED
    BY <2>3, <2>4
<1>5. Texts' = Texts /\ KeptTexts' = KeptTexts
  BY <1>1 DEF Texts, KeptTexts, LastKept, Complete, Kept, Snapshots
<1>6. CASE Edited(w)
  <2>1. Promise!Share(w)
    BY <1>1, <1>5, <1>6 DEF Promise!Share
  <2> QED
    BY <1>4, <2>1 DEF Promised, Promise!Next
<1>7. CASE ~Edited(w)
  <2>1. shared' = shared
    BY <1>1, <1>7
  <2> QED
    BY <1>4, <1>5, <2>1 DEF Promised
<1> QED
  BY <1>6, <1>7

LEMMA NextPromised ==
    ASSUME StoreInv, PromiseInv, [Next]_vars
    PROVE  Promised
<1>1. CASE \E c \in Clients : Request(c)
  BY <1>1, RequestPromised
<1>2. CASE \E c \in Clients : Serve(c)
  BY <1>2, MakeAuditPromised, WriteOriginalPromised, WriteRecordPromised,
     OpenSourcePromised, WriteSourcePromised DEF Serve
<1>3. CASE Crash \/ UNCHANGED vars \/ \E w \in Workflows : Refuse(w)
  <2>1. /\ UNCHANGED <<file, audits, shared>>
        /\ task' = task \/ task' = [c \in Clients |-> None]
    BY <1>3 DEF Crash, Refuse, vars, history
  <2>2. \A w \in Workflows : Complete(w)' = Complete(w)
    BY <2>1 DEF Complete, Snapshots
  <2>3. PromiseInv'
    <3> SUFFICES ASSUME NEW v \in Workflows \ shared
                 PROVE  /\ Settled(v)'
                        /\ \A d \in Clients : task'[d] # None /\ task'[d].wf = v => Ahead(task[d])'
      BY <2>1 DEF PromiseInv
    <3>1. /\ Settled(v)
          /\ \A d \in Clients : task[d] # None /\ task[d].wf = v => Ahead(task[d])
      BY DEF PromiseInv
    <3>2. Settled(v)'
      BY <2>1, <2>2, <3>1 DEF Settled, Latest
    <3>3. ASSUME NEW d \in Clients, task'[d] # None, task'[d].wf = v PROVE Ahead(task[d])'
      <4>1. task'[d] = task[d] /\ task[d].wf = v
        BY <2>1, <3>3
      <4>2. Ahead(task[d]) /\ Complete(v)' = Complete(v)
        BY <2>2, <3>1, <3>3, <4>1
      <4> QED
        BY <2>1, <4>1, <4>2 DEF Ahead, Latest
    <3> QED
      BY <3>2, <3>3
  <2>4. Texts' = Texts /\ KeptTexts' = KeptTexts
    BY <2>1 DEF Texts, KeptTexts, LastKept, Complete, Kept, Snapshots
  <2> QED
    BY <2>1, <2>3, <2>4 DEF Promised
<1> QED
  BY <1>1, <1>2, <1>3 DEF Next

LEMMA InitPromised == Init => PromiseInv /\ Promise!Init
<1> SUFFICES ASSUME Init PROVE PromiseInv /\ Promise!Init
  OBVIOUS
<1>1. \A w \in Workflows : Complete(w) = {} /\ Kept(w) = {}
  BY DEF Init, Complete, Kept, Snapshots
<1>2. PromiseInv
  BY <1>1 DEF Init, PromiseInv, Settled
<1>3. \A w \in Workflows : Stored[w] \in Text \/ Stored[w] = NoFile
  BY StoreAssumption DEF StoreAssumption
<1>4. Texts \in [Workflows -> Text \union {None}]
  BY <1>1, <1>3, TextsAre DEF Init
<1>5. KeptTexts = [w \in Workflows |-> {}]
  BY <1>1, TextsAre
<1> QED
  BY <1>2, <1>4, <1>5 DEF Init, Promise!Init

\* The store implements SpecPromise: a workflow is created once and its text is
\* replaced only after it has been kept, whichever requests overlap and wherever the
\* server ends, except for the workflows that two requests edited at one time.
THEOREM KeepsPromise == Spec => ImplementsPromise
<1>1. StoreInv /\ PromiseInv /\ [Next]_vars
        => PromiseInv' /\ [Promise!Next]_<<Texts, KeptTexts, shared>>
  BY NextPromised DEF Promised
<1> QED
  BY <1>1, InitPromised, StoreInvariant, PTL DEF Spec, ImplementsPromise, Promise!Spec

-----------------------------------------------------------------------------
(* The audit trail. Every complete directory has a successor whose original  *)
(* is what its change left, or is the last one, and then the file is that.   *)

Succeeds(w, i, j) == j > i /\ \A k \in Complete(w) : k > i => j <= k

Told(w) ==
    /\ landed[w] \subseteq DOMAIN audits[w]
    /\ \A i \in Complete(w) :
          \/ Latest(w, i) /\ file[w] \in {After(w, i), Empty}
          \/ \E j \in Complete(w) : Succeeds(w, i, j) /\ audits[w][j].original = After(w, i)

\* t is the task of the only editor of its workflow.
Logged(t) ==
    /\ t.at # "mkdir" /\ ~(t.op = "copied" /\ t.at = "record") => t.id \notin landed[t.wf]
    /\ t.op = "copied" /\ t.at # "mkdir" => audits[t.wf][t.id].original \notin Text
    /\ t.op = "copied" /\ t.at = "record" => file[t.wf] = t.new
    /\ t.op # "copied" /\ t.at \in {"open", "write"} =>
          audits[t.wf][t.id].record = [old |-> t.old, new |-> t.new]

TrailInv ==
    \A w \in Workflows \ shared :
        /\ Told(w)
        /\ \A c \in Clients : task[c] # None /\ task[c].wf = w => Logged(task[c])

LEMMA StageTrail ==
    ASSUME StoreInv, TrailInv, shared' = shared,
           NEW c \in Clients, task[c] # None,
           NEW w \in Workflows, task[c].wf = w,
           \A v \in Workflows \ {w} :
              file'[v] = file[v] /\ audits'[v] = audits[v] /\ landed'[v] = landed[v],
           \A d \in Clients \ {c} : task'[d] = task[d],
           task'[c] # None => task'[c].wf = w,
           w \notin shared => Told(w)' /\ (task'[c] # None => Logged(task[c])')
    PROVE  TrailInv'
<1> SUFFICES ASSUME NEW v \in Workflows \ shared
             PROVE  /\ Told(v)'
                    /\ \A d \in Clients : task'[d] # None /\ task'[d].wf = v => Logged(task[d])'
  BY DEF TrailInv
<1>1. CASE v = w
  <2>1. ASSUME NEW d \in Clients, task'[d] # None, task'[d].wf = v PROVE d = c
    BY <1>1, <2>1 DEF StoreInv, OneEditor
  <2> QED
    BY <1>1, <2>1
<1>2. CASE v # w
  <2>1. /\ Complete(v)' = Complete(v) /\ file'[v] = file[v] /\ audits'[v] = audits[v]
        /\ landed'[v] = landed[v]
    BY <1>2 DEF Complete, Snapshots
  <2>2. Told(v)'
    BY <2>1 DEF TrailInv, Told, Latest, Succeeds, After
  <2>3. ASSUME NEW d \in Clients, task'[d] # None, task'[d].wf = v PROVE Logged(task[d])'
    <3>1. task'[d] = task[d]
      BY <1>2, <2>3
    <3>2. Logged(task[d]) /\ task[d].wf = v
      BY <2>3, <3>1 DEF TrailInv
    <3> QED
      BY <2>1, <3>1, <3>2 DEF Logged
  <2> QED
    BY <2>2, <2>3
<1> QED
  BY <1>1, <1>2

\* What is told stays true when no complete directory changes.
LEMMA ToldStays ==
    ASSUME NEW w \in Workflows, Told(w), file'[w] \in {file[w], Empty},
           landed'[w] \subseteq DOMAIN audits'[w], Complete(w)' = Complete(w),
           \A i \in Complete(w) : /\ After(w, i)' = After(w, i)
                                  /\ audits'[w][i].original = audits[w][i].original
    PROVE  Told(w)'
<1> SUFFICES ASSUME NEW i \in Complete(w)
             PROVE  \/ Latest(w, i)' /\ file'[w] \in {After(w, i)', Empty}
                    \/ \E j \in Complete(w) :
                          Succeeds(w, i, j)' /\ audits'[w][j].original = After(w, i)'
  BY DEF Told
<1>1. CASE Latest(w, i) /\ file[w] \in {After(w, i), Empty}
  BY <1>1 DEF Latest
<1>2. CASE \E j \in Complete(w) : Succeeds(w, i, j) /\ audits[w][j].original = After(w, i)
  BY <1>2 DEF Succeeds
<1> QED
  BY <1>1, <1>2 DEF Told

LEMMA MakeAuditTrail ==
    ASSUME StoreInv, TrailInv, NEW c \in Clients, MakeAudit(c)
    PROVE  TrailInv'
<1> PICK w \in Workflows : w = task[c].wf
  BY StageFacts DEF MakeAudit, Stages
<1>1. PICK n \in Nat : n = Len(audits[w]) + 1
  BY MakeAuditDoes
<1>2. /\ UNCHANGED <<file, landed, shared>> /\ Grows(w) /\ Passes(c, w, n, "mkdir")
      /\ \A i \in DOMAIN audits[w] : audits'[w][i] = audits[w][i] /\ i < n
      /\ audits'[w][n].original \notin Text
      /\ Complete(w)' = Complete(w) /\ Complete(w) \subseteq DOMAIN audits[w]
  BY <1>1, MakeAuditDoes
<1>3. ASSUME w \notin shared
      PROVE  Told(w)' /\ (task'[c] # None => Logged(task[c])')
  <2>1. Told(w) /\ landed[w] \subseteq DOMAIN audits[w]
    BY <1>3 DEF TrailInv, Told
  <2>2. \A i \in Complete(w) : After(w, i)' = After(w, i)
    BY <1>2 DEF After
  <2>3. Told(w)'
    BY <1>2, <2>1, <2>2, ToldStays DEF Grows
  <2>4. n \notin landed'[w]
    BY <1>2, <2>1
  <2>5. ASSUME task'[c] # None PROVE Logged(task[c])'
    <3>1. task'[c].at = IF task[c].op = "copied" THEN "open" ELSE "original"
      BY <1>2, <2>5 DEF Passes, Follows
    <3> QED
      BY <1>2, <2>4, <2>5, <3>1 DEF Logged, Passes
  <2> QED
    BY <2>3, <2>5
<1> QED
  BY <1>2, <1>3, StageTrail DEF Passes, Grows

LEMMA WriteOriginalTrail ==
    ASSUME StoreInv, PromiseInv, TrailInv, NEW c \in Clients, WriteOriginal(c)
    PROVE  TrailInv'
<1> PICK w \in Workflows : w = task[c].wf
  BY StageFacts DEF WriteOriginal, Stages
<1>1. PICK i \in Nat : i = task[c].id
  BY WriteOriginalDoes
<1>2. /\ UNCHANGED <<file, landed, shared>> /\ Grows(w) /\ Passes(c, w, i, "original")
      /\ task[c].op # "copied" /\ task[c].old \in Text
      /\ audits'[w][i].original = task[c].old
      /\ \A j \in DOMAIN audits[w] \ {i} : audits'[w][j] = audits[w][j]
      /\ w \notin shared => i \notin Complete(w) /\ Complete(w)' = Complete(w) \union {i}
  BY <1>1, WriteOriginalDoes
<1>3. ASSUME w \notin shared
      PROVE  Told(w)' /\ (task'[c] # None => Logged(task[c])')
  <2>1. Told(w) /\ Logged(task[c]) /\ \A j \in Complete(w) : j < i
    BY <1>1, <1>2, <1>3 DEF TrailInv, PromiseInv, Ahead, Passes
  <2>2. file[w] = task[c].old /\ file[w] # Empty
    <3>1. file[w] = task[c].old
      BY <1>2, <1>3 DEF Passes, Ready, Prepared
    <3> QED
      BY <1>2, <3>1, StoreAssumption DEF StoreAssumption
  <2>3. Complete(w) \subseteq Nat /\ Complete(w) \subseteq DOMAIN audits[w]
    BY <1>2, CompleteType DEF Grows
  <2>4. i \notin landed'[w] /\ After(w, i)' = task[c].old
    BY <1>1, <1>2, <2>1 DEF Logged, After, Passes
  <2>5. \A j \in Complete(w) : After(w, j)' = After(w, j) /\ audits'[w][j] = audits[w][j]
    BY <1>2, <1>3, <2>3 DEF After
  <2>6. Told(w)'
    <3>1. landed'[w] \subseteq DOMAIN audits'[w]
      BY <1>2, <2>1 DEF Told, Grows
    <3>2. Latest(w, i)' /\ file'[w] = After(w, i)'
      BY <1>2, <1>3, <2>1, <2>2, <2>3, <2>4 DEF Latest
    <3>3. ASSUME NEW j \in Complete(w)
          PROVE  \E k \in Complete(w)' : Succeeds(w, j, k)' /\ audits'[w][k].original = After(w, j)'
      <4>1. CASE Latest(w, j) /\ file[w] \in {After(w, j), Empty}
        <5>1. Succeeds(w, j, i)'
          BY <1>2, <1>3, <2>1, <2>3, <4>1 DEF Latest, Succeeds
        <5>2. audits'[w][i].original = After(w, j)'
          BY <1>2, <2>2, <2>5, <4>1
        <5> QED
          BY <1>2, <1>3, <5>1, <5>2
      <4>2. CASE \E k \in Complete(w) : Succeeds(w, j, k) /\ audits[w][k].original = After(w, j)
        <5> PICK k \in Complete(w) : Succeeds(w, j, k) /\ audits[w][k].original = After(w, j)
          BY <4>2
        <5>1. Succeeds(w, j, k)'
          BY <1>2, <1>3, <2>1, <2>3 DEF Succeeds
        <5> QED
          BY <1>2, <1>3, <2>5, <5>1
      <4> QED
        BY <2>1, <4>1, <4>2 DEF Told
    <3> QED
      BY <1>2, <1>3, <3>1, <3>2, <3>3 DEF Told
  <2>7. ASSUME task'[c] # None PROVE Logged(task[c])'
    <3>1. task'[c].at = "record"
      BY <1>2, <2>7 DEF Passes, Follows
    <3> QED
      BY <1>2, <2>4, <2>7, <3>1 DEF Logged, Passes
  <2> QED
    BY <2>6, <2>7
<1> QED
  BY <1>2, <1>3, StageTrail DEF Passes, Grows

LEMMA WriteRecordTrail ==
    ASSUME StoreInv, TrailInv, NEW c \in Clients, WriteRecord(c)
    PROVE  TrailInv'
<1> PICK w \in Workflows : w = task[c].wf
  BY StageFacts DEF WriteRecord, Stages
<1>1. PICK i \in Nat : i = task[c].id
  BY WriteRecordDoes
<1>2. /\ UNCHANGED <<file, landed, shared>> /\ Grows(w) /\ Passes(c, w, i, "record")
      /\ i \in DOMAIN audits[w]
      /\ audits'[w][i].record = [old |-> task[c].old, new |-> task[c].new]
      /\ \A j \in DOMAIN audits[w] : audits'[w][j].original = audits[w][j].original
      /\ \A j \in DOMAIN audits[w] \ {i} : audits'[w][j] = audits[w][j]
      /\ Complete(w)' = Complete(w) /\ Complete(w) \subseteq DOMAIN audits[w]
  BY <1>1, WriteRecordDoes
<1>3. ASSUME w \notin shared
      PROVE  Told(w)' /\ (task'[c] # None => Logged(task[c])')
  <2>1. Told(w) /\ Logged(task[c])
    BY <1>2, <1>3 DEF TrailInv, Passes
  <2>2. i \in landed[w] => i \notin Complete(w)
    <3>1. Complete(w) = {j \in DOMAIN audits[w] : audits[w][j].original \in Text}
      BY <1>2, CompleteType DEF Grows
    <3> QED
      BY <1>1, <1>2, <2>1, <3>1 DEF Logged, Passes
  <2>3. \A j \in Complete(w) : After(w, j)' = After(w, j)
    BY <1>2, <2>2 DEF After
  <2>4. landed'[w] \subseteq DOMAIN audits'[w]
    BY <1>2, <2>1 DEF Told, Grows
  <2>5. Told(w)'
    BY <1>2, <2>1, <2>3, <2>4, ToldStays
  <2>6. ASSUME task'[c] # None PROVE Logged(task[c])'
    <3>1. task'[c].at = "open" /\ task[c].op # "copied"
      BY <1>2, <2>6 DEF Passes, Follows
    <3>2. i \notin landed'[w]
      BY <1>1, <1>2, <2>1, <3>1 DEF Logged, Passes
    <3> QED
      BY <1>2, <2>6, <3>1, <3>2 DEF Logged, Passes
  <2> QED
    BY <2>5, <2>6
<1> QED
  BY <1>2, <1>3, StageTrail DEF Passes, Grows

LEMMA OpenSourceTrail ==
    ASSUME StoreInv, TrailInv, NEW c \in Clients, OpenSource(c)
    PROVE  TrailInv'
<1> PICK w \in Workflows : w = task[c].wf
  BY StageFacts DEF OpenSource, Stages
<1>1. PICK i \in Nat : i = task[c].id
  BY OpenSourceDoes
<1>2. /\ UNCHANGED <<audits, landed, shared>> /\ Passes(c, w, i, "open")
      /\ \A v \in Workflows \ {w} : file'[v] = file[v]
      /\ file'[w] = Empty /\ Complete(w)' = Complete(w)
  BY <1>1, OpenSourceDoes
<1>3. ASSUME w \notin shared
      PROVE  Told(w)' /\ (task'[c] # None => Logged(task[c])')
  <2>1. Told(w) /\ Logged(task[c])
    BY <1>2, <1>3 DEF TrailInv, Passes
  <2>2. Told(w)'
    BY <1>2, <2>1, ToldStays DEF Told, After
  <2>3. ASSUME task'[c] # None PROVE Logged(task[c])'
    <3>1. task'[c].at = "write"
      BY <1>2, <2>3 DEF Passes, Follows
    <3> QED
      BY <1>1, <1>2, <2>1, <2>3, <3>1 DEF Logged, Passes
  <2> QED
    BY <2>2, <2>3
<1> QED
  BY <1>2, <1>3, StageTrail DEF Passes

LEMMA WriteSourceTrail ==
    ASSUME StoreInv, PromiseInv, TrailInv, NEW c \in Clients, WriteSource(c)
    PROVE  TrailInv'
<1> PICK w \in Workflows : w = task[c].wf
  BY StageFacts DEF WriteSource, Stages
<1>1. PICK i \in Nat : i = task[c].id
  BY WriteSourceDoes
<1>2. /\ UNCHANGED <<audits, shared>> /\ Passes(c, w, i, "write")
      /\ \A v \in Workflows \ {w} : file'[v] = file[v] /\ landed'[v] = landed[v]
      /\ landed'[w] = landed[w] \union {i}
      /\ w \notin shared => file'[w] = task[c].new
      /\ Complete(w)' = Complete(w)
  BY <1>1, WriteSourceDoes
<1>3. ASSUME w \notin shared
      PROVE  Told(w)' /\ (task'[c] # None => Logged(task[c])')
  <2>1. Told(w) /\ Logged(task[c]) /\ Ahead(task[c])
    BY <1>2, <1>3 DEF TrailInv, PromiseInv, Passes
  <2>2. landed'[w] \subseteq DOMAIN audits'[w]
    BY <1>1, <1>2, <2>1 DEF Told, Passes, Placed
  <2>3. Told(w)'
    <3>1. CASE task[c].op = "copied"
      BY <1>2, <2>1, <2>2, <3>1 DEF Told, Ahead, Passes
    <3>2. CASE task[c].op # "copied"
      <4>1. Latest(w, i) /\ audits[w][i].record.new = task[c].new
        BY <1>1, <1>2, <2>1, <3>2 DEF Ahead, Logged, Passes
      <4>2. Latest(w, i)' /\ file'[w] = After(w, i)'
        BY <1>2, <1>3, <4>1 DEF Latest, After
      <4>3. ASSUME NEW j \in Complete(w) \ {i}
            PROVE  \E k \in Complete(w)' :
                      Succeeds(w, j, k)' /\ audits'[w][k].original = After(w, j)'
        <5>1. Complete(w) \subseteq Nat
          BY CompleteType DEF StoreInv, TypeOK
        <5>2. ~Latest(w, j)
          BY <4>1, <5>1 DEF Latest
        <5>3. PICK k \in Complete(w) : Succeeds(w, j, k) /\ audits[w][k].original = After(w, j)
          BY <2>1, <5>2 DEF Told
        <5>4. Succeeds(w, j, k)' /\ After(w, j)' = After(w, j)
          BY <1>2, <5>3 DEF Succeeds, After
        <5> QED
          BY <1>2, <5>3, <5>4
      <4> QED
        BY <1>2, <2>2, <4>2, <4>3 DEF Told
    <3> QED
      BY <3>1, <3>2
  <2>4. ASSUME task'[c] # None PROVE Logged(task[c])'
    <3>1. task'[c].at = "record" /\ task[c].op = "copied"
      BY <1>2, <2>4 DEF Passes, Follows
    <3> QED
      BY <1>1, <1>2, <1>3, <2>1, <2>4, <3>1 DEF Logged, Passes
  <2> QED
    BY <2>3, <2>4
<1> QED
  BY <1>2, <1>3, StageTrail DEF Passes

\* Steps that leave the files: requests begin, are refused, or end with the server.
LEMMA QuietTrail ==
    ASSUME TrailInv, UNCHANGED <<file, audits, landed>>, shared \subseteq shared',
           \A d \in Clients : task'[d] # None => task'[d] = task[d] \/ task'[d].at = "mkdir"
    PROVE  TrailInv'
<1> SUFFICES ASSUME NEW v \in Workflows \ shared'
             PROVE  /\ Told(v)'
                    /\ \A d \in Clients : task'[d] # None /\ task'[d].wf = v => Logged(task[d])'
  BY DEF TrailInv
<1>1. /\ Told(v)
      /\ \A d \in Clients : task[d] # None /\ task[d].wf = v => Logged(task[d])
  BY DEF TrailInv
<1>2. Complete(v)' = Complete(v)
  BY DEF Complete, Snapshots
<1>3. Told(v)'
  BY <1>1, <1>2 DEF Told, Latest, Succeeds, After
<1>4. ASSUME NEW d \in Clients, task'[d] # None, task'[d].wf = v PROVE Logged(task[d])'
  <2>1. CASE task'[d].at = "mkdir"
    BY <2>1 DEF Logged
  <2>2. CASE task'[d] = task[d]
    <3>1. Logged(task[d])
      BY <1>1, <1>4, <2>2
    <3> QED
      BY <2>2, <3>1 DEF Logged
  <2> QED
    BY <1>4, <2>1, <2>2
<1> QED
  BY <1>3, <1>4

\* A request that begins, or one of the other steps without a stage.
LEMMA QuietStep ==
    ASSUME StoreInv, [Next]_vars, \A c \in Clients : ~Serve(c)
    PROVE  /\ UNCHANGED <<file, audits, landed>> /\ shared \subseteq shared'
           /\ \A d \in Clients : task'[d] # None => task'[d] = task[d] \/ task'[d].at = "mkdir"
           /\ answer' = "none" \/ \A d \in Clients : task[d] # None => task'[d] # None
<1>1. CASE \E c \in Clients : Request(c)
  <2> PICK c \in Clients, op \in Ops, w \in Workflows, old \in Text \union {None}, new \in Text :
          task[c] = None /\ Begin(c, op, w, old, new)
    BY <1>1, RequestBegins
  <2> DEFINE t == [op |-> op, at |-> "mkdir", wf |-> w, old |-> old, new |-> new, id |-> 0]
  <2>1. /\ task' = [task EXCEPT ![c] = t] /\ UNCHANGED <<file, audits, landed>>
        /\ shared \subseteq shared'
    BY DEF Begin
  <2>2. t.at = "mkdir"
    OBVIOUS
  <2> HIDE DEF t
  <2>3. task'[c] = t /\ \A d \in Clients \ {c} : task'[d] = task[d]
    BY <2>1 DEF StoreInv, TypeOK
  <2> QED
    BY <2>1, <2>2, <2>3
<1>2. CASE \E w \in Workflows : Refuse(w)
  BY <1>2 DEF Refuse, history
<1>3. CASE Crash
  BY <1>3 DEF Crash, history
<1>4. CASE UNCHANGED vars
  BY <1>4 DEF vars, history
<1> QED
  BY <1>1, <1>2, <1>3, <1>4 DEF Next

LEMMA NextTrail ==
    ASSUME StoreInv, PromiseInv, TrailInv, [Next]_vars
    PROVE  TrailInv'
<1>1. CASE \E c \in Clients : Serve(c)
  BY <1>1, MakeAuditTrail, WriteOriginalTrail, WriteRecordTrail, OpenSourceTrail,
     WriteSourceTrail DEF Serve
<1>2. CASE \A c \in Clients : ~Serve(c)
  BY <1>2, QuietStep, QuietTrail
<1> QED
  BY <1>1, <1>2

LEMMA InitTrail == Init => TrailInv
<1> SUFFICES ASSUME Init PROVE TrailInv
  OBVIOUS
<1>1. \A w \in Workflows : Complete(w) = {} /\ landed[w] = {}
  BY DEF Init, Complete, Snapshots
<1> QED
  BY <1>1 DEF Init, TrailInv, Told

LEMMA TrailInvariant == Spec => [](StoreInv /\ PromiseInv /\ TrailInv)
<1>1. StoreInv /\ PromiseInv /\ [Next]_vars => PromiseInv'
  BY NextPromised DEF Promised
<1>2. StoreInv /\ PromiseInv /\ TrailInv /\ [Next]_vars => TrailInv'
  BY NextTrail
<1> QED
  BY <1>1, <1>2, InitPromised, InitTrail, StoreInvariant, PTL DEF Spec

LEMMA LeastAboveIs ==
    ASSUME NEW S, S \subseteq Nat, NEW i \in Nat, NEW j \in S, j > i,
           \A k \in S : k > i => j <= k
    PROVE  (CHOOSE l \in S : l > i /\ \A k \in S : k > i => l <= k) = j
<1> DEFINE g == CHOOSE l \in S : l > i /\ \A k \in S : k > i => l <= k
<1>1. g \in S /\ g > i /\ \A k \in S : k > i => g <= k
  OBVIOUS
<1> HIDE DEF g
<1>2. g = j
  BY <1>1
<1> QED
  BY <1>2 DEF g

\* The audit directories of a workflow, read in order, tell how its file came about
\* (apply_proposed_spec and restore_snapshot keep the text they replace and record
\* both), wherever the server ended.
THEOREM TrailIsTrue == Spec => []TrailReplays
<1>1. StoreInv /\ TrailInv => TrailReplays
  <2> SUFFICES ASSUME StoreInv, TrailInv, NEW w \in Workflows \ shared, NEW i \in Complete(w)
               PROVE  IF \E j \in Complete(w) : j > i
                      THEN audits[w][CHOOSE j \in Complete(w) :
                              j > i /\ \A k \in Complete(w) : k > i => j <= k].original
                                 = After(w, i)
                      ELSE file[w] \in {After(w, i), Empty}
    BY DEF TrailReplays
  <2>1. Complete(w) \subseteq Nat
    BY CompleteType DEF StoreInv, TypeOK
  <2>2. CASE Latest(w, i) /\ file[w] \in {After(w, i), Empty}
    <3>1. ~\E j \in Complete(w) : j > i
      BY <2>1, <2>2 DEF Latest
    <3> QED
      BY <2>2, <3>1
  <2>3. CASE \E j \in Complete(w) : Succeeds(w, i, j) /\ audits[w][j].original = After(w, i)
    <3> PICK j \in Complete(w) : Succeeds(w, i, j) /\ audits[w][j].original = After(w, i)
      BY <2>3
    <3>1. j > i /\ \A k \in Complete(w) : k > i => j <= k
      BY DEF Succeeds
    <3>2. (CHOOSE l \in Complete(w) : l > i /\ \A k \in Complete(w) : k > i => l <= k) = j
      BY <2>1, <3>1, LeastAboveIs
    <3> QED
      BY <3>1, <3>2
  <2> QED
    BY <2>2, <2>3 DEF TrailInv, Told
<1> QED
  BY <1>1, TrailInvariant, PTL

\* A request that is answered with success has left its text in the file and its
\* directory complete (the handlers return what the service did).
THEOREM AnswersStand == Spec => AnswersAreTrue
<1> DEFINE Done(c) ==
        LET t == task[c]
        IN  /\ file'[t.wf] = t.new
            /\ audits'[t.wf][t.id].record = [old |-> t.old, new |-> t.new]
            /\ t.op # "copied" => audits'[t.wf][t.id].original = t.old
<1>1. ASSUME StoreInv, PromiseInv, TrailInv, [Next]_vars, NEW c \in Clients, task[c] # None,
             task'[c] = None, answer' # "none", task[c].wf \notin shared
      PROVE  Done(c)
  <2>1. PICK d \in Clients : Serve(d)
    BY <1>1, QuietStep
  <2> PICK stage \in Stages : At(d, stage)
    BY <2>1 DEF Serve, MakeAudit, WriteOriginal, WriteRecord, OpenSource, WriteSource, Stages
  <2> PICK w \in Workflows : w = task[d].wf
    BY <1>1, StageFacts
  <2>2. ASSUME NEW id, NEW at, Passes(d, w, id, at)
        PROVE  /\ d = c /\ w \notin shared /\ task[c].at = at
               /\ task[c].at = IF task[c].op = "copied" THEN "record" ELSE "write"
               /\ Logged(task[c]) /\ Ahead(task[c])
    <3>1. d = c
      BY <1>1, <2>2 DEF Passes
    <3> QED
      BY <1>1, <2>2, <3>1 DEF Passes, TrailInv, PromiseInv
  <2>3. ~MakeAudit(d)
    BY <1>1, <2>2, MakeAuditDoes
  <2>4. ~WriteOriginal(d)
    BY <1>1, <2>2, WriteOriginalDoes
  <2>5. ~OpenSource(d)
    BY <1>1, <2>2, OpenSourceDoes
  <2>6. CASE WriteRecord(d)
    <3>1. /\ UNCHANGED file
          /\ Passes(d, w, task[d].id, "record")
          /\ audits'[w][task[d].id].record = [old |-> task[d].old, new |-> task[d].new]
      BY <1>1, <2>6, WriteRecordDoes
    <3>2. d = c /\ task[c].op = "copied" /\ Logged(task[c]) /\ task[c].at = "record"
      BY <2>2, <3>1
    <3> QED
      BY <3>1, <3>2 DEF Logged
  <2>7. CASE WriteSource(d)
    <3>1. /\ UNCHANGED audits
          /\ Passes(d, w, task[d].id, "write")
          /\ w \notin shared => file'[w] = task[d].new
      BY <1>1, <2>7, WriteSourceDoes
    <3>2. /\ d = c /\ w \notin shared /\ task[c].op # "copied" /\ task[c].at = "write"
          /\ Logged(task[c]) /\ Ahead(task[c])
      BY <2>2, <3>1
    <3> QED
      BY <3>1, <3>2 DEF Logged, Ahead
  <2> QED
    BY <2>1, <2>3, <2>4, <2>5, <2>6, <2>7 DEF Serve
<1>2. StoreInv /\ PromiseInv /\ TrailInv /\ [Next]_vars
        => [\A c \in Clients :
              task[c] # None /\ task'[c] = None /\ answer' # "none" /\ task[c].wf \notin shared
                 => Done(c)]_vars
  BY <1>1
<1> QED
  BY <1>2, TrailInvariant, PTL DEF Spec, AnswersAreTrue

=============================================================================
