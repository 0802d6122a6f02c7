------------------------------ MODULE SpecStore ------------------------------
(***************************************************************************)
(* The YAML file of every workflow and the audit directories beside it     *)
(* (backend/graphspec): applying a proposal, restoring a snapshot, copying *)
(* a template, listing. Requests are threads of the server that share      *)
(* nothing but the files and take no lock; a write_text truncates the file *)
(* before it fills it; the process may end between any two steps.          *)
(***************************************************************************)
EXTENDS Integers, Sequences, FiniteSets

CONSTANTS
    Workflows,  \* workflow ids: the files <id>.yaml
    Names,      \* what a spec may be called; an id is one
    Bodies,     \* the rest of a spec
    Proposals,  \* the texts clients propose
    Titles,     \* the names clients give copies
    Stored,     \* Stored[w]: the text of w's file at the start, or NoFile
    Clients,    \* requests being served at a time
    MaxAudits,  \* bound: audit directories
    MaxCrashes, \* bound: crashes
    NoFile, Empty, Torn, None

\* A YAML text. valid: GraphSpec accepts it; refs: the workflows its subgraphs run.
Text == [name : Names, body : Bodies, template : BOOLEAN,
         refs : SUBSET Workflows, valid : BOOLEAN]

Ops == {"applied", "restored", "copied"}
Stages == {"mkdir", "original", "record", "open", "write"}
Records == [old : Text \union {None}, new : Text]
Audit == [original : Text \union {NoFile, Empty}, record : Records \union {None}]
Task == [op : Ops, at : Stages, wf : Workflows, old : Text \union {None}, new : Text, id : Nat]

ASSUME StoreAssumption ==
    /\ Workflows \subseteq Names
    /\ Proposals \subseteq Text
    /\ Titles \subseteq Names
    /\ Stored \in [Workflows -> {t \in Text : t.valid} \union {NoFile}]
    /\ \A x \in {NoFile, Empty, Torn, None} : x \notin Text
    /\ NoFile # Empty /\ Empty # Torn /\ NoFile # Torn
    /\ None \notin {NoFile, Empty, Torn} \union Task
    /\ MaxAudits \in Nat /\ MaxCrashes \in Nat

VARIABLES
    file,       \* file[w]: the content of w's YAML file
    audits,     \* audits[w]: w's audit directories, in the order of their names
    task,       \* task[c]: what client c's request has still to do
    answer,     \* the last answer the server gave: a status word or an HTTP error
    crashes,    \* crashes so far
    held,       \* history: held[w] is every text w's file has held
    landed,     \* history: landed[w] is the audits whose change reached the file
    shared      \* history: the workflows that two requests edited at one time

history == <<held, landed, shared>>
vars == <<file, audits, task, answer, crashes, history>>

TypeOK ==
    /\ file \in [Workflows -> Text \union {NoFile, Empty, Torn}]
    /\ audits \in [Workflows -> Seq(Audit)]
    /\ task \in [Clients -> Task \union {None}]
    /\ answer \in Ops \union {"400", "404", "409", "none"}
    /\ crashes \in Nat
    /\ held \in [Workflows -> SUBSET Text]
    /\ landed \in [Workflows -> SUBSET Nat]
    /\ shared \subseteq Workflows

Init ==
    /\ file = Stored
    /\ audits = [w \in Workflows |-> <<>>]
    /\ task = [c \in Clients |-> None]
    /\ answer = "none"
    /\ crashes = 0
    /\ held = [w \in Workflows |-> {Stored[w]} \ {NoFile}]
    /\ landed = [w \in Workflows |-> {}]
    /\ shared = {}

-----------------------------------------------------------------------------
(* Loading.                                                                *)

Parses(x) == x \in Text /\ x.valid
Refs(w) == IF Parses(file[w]) THEN file[w].refs ELSE {}

\* The workflows _validate_subgraph_tree walks through below w, w included.
Tree(w) == {v \in Workflows :
               \A S \in SUBSET Workflows :
                  w \in S /\ (\A u \in S : Refs(u) \subseteq S) => v \in S}

Cyclic(W) == \E S \in SUBSET W : S # {} /\ \A u \in S : Refs(u) \intersect S # {}

\* The errors the walk can meet first, which depends on the order of the nodes.
TreeErrors(w) ==
    {"404" : v \in {v \in Tree(w) : file[v] = NoFile}}
        \union {"400" : v \in {v \in Tree(w) : file[v] # NoFile /\ ~Parses(file[v])}}
        \union {"400" : v \in {v \in {w} : Cyclic(Tree(w))}}

\* load_graph_spec_source(w): what it raises, by the status a handler makes of it.
LoadErrors(w) ==
    IF file[w] = NoFile THEN {"404"}
    ELSE IF ~Parses(file[w]) THEN {"400"}
    ELSE TreeErrors(w)

Loads(w) == LoadErrors(w) = {}

-----------------------------------------------------------------------------
(* What is read before anything is written.                                *)

Snapshots(w) == {i \in DOMAIN audits[w] : audits[w][i].original # NoFile}

\* Seeded defect: names are not compared.
AcceptsAnyName(w, t) == Parses(t)

\* _validate_proposed_yaml, _validate_rollback_yaml and the comparison after them.
Accepts(w, t) == Parses(t) /\ t.name = w /\ t.name = file[w].name

Edited(w) == \E c \in Clients : task[c] # None /\ task[c].wf = w

Begin(c, op, w, old, new) ==
    /\ Cardinality({v \in Workflows \X (1..MaxAudits) : v[2] \in DOMAIN audits[v[1]]})
          + Cardinality({d \in Clients : task[d] # None /\ task[d].at = "mkdir"}) < MaxAudits
    /\ task' = [task EXCEPT ![c] = [op |-> op, at |-> "mkdir", wf |-> w,
                                    old |-> old, new |-> new, id |-> 0]]
    /\ shared' = shared \union {v \in {w} : Edited(v)}
    /\ UNCHANGED <<file, audits, answer, crashes, held, landed>>

Apply(c, w, t) ==
    /\ task[c] = None
    /\ Parses(file[w]) /\ Accepts(w, t)
    /\ Loads(w)
    /\ Begin(c, "applied", w, file[w], t)

\* Seeded defect: the snapshot, not the current text, is what is kept.
RestoreKeepsSnapshot(c, w, i) ==
    /\ task[c] = None
    /\ i \in Snapshots(w)
    /\ Loads(w) /\ Accepts(w, audits[w][i].original)
    /\ Begin(c, "restored", w, audits[w][i].original, audits[w][i].original)

Restore(c, w, i) ==
    /\ task[c] = None
    /\ i \in Snapshots(w)
    /\ Loads(w) /\ Accepts(w, audits[w][i].original)
    /\ Begin(c, "restored", w, file[w], audits[w][i].original)

CopyOf(w, name) == [file[w] EXCEPT !.name = name, !.template = FALSE]

\* Seeded defect: the target is not looked for.
CopyOver(c, w, id, name) ==
    /\ task[c] = None
    /\ Loads(w) /\ file[w].template
    /\ Begin(c, "copied", id, None, CopyOf(w, name))

CopyTemplate(c, w, id, name) ==
    /\ task[c] = None
    /\ file[id] = NoFile
    /\ Loads(w) /\ file[w].template
    /\ Begin(c, "copied", id, None, CopyOf(w, name))

\* What the handlers answer when the service raises before its first write.
ApplyErrors(w) ==
    IF ~Loads(w) THEN LoadErrors(w)
    ELSE IF \A t \in Proposals : Accepts(w, t) THEN {} ELSE {"400"}

RestoreErrors(w) ==
    IF ~Loads(w) THEN LoadErrors(w)
    ELSE {"404"} \union IF \A i \in Snapshots(w) : Accepts(w, audits[w][i].original) THEN {} ELSE {"400"}

\* An id that is not snake_case is refused before the template is looked at.
CopyErrors(w) ==
    {"400"} \union
    IF ~Loads(w) THEN LoadErrors(w)
    ELSE IF ~file[w].template \/ \A id \in Workflows : file[id] = NoFile THEN {} ELSE {"409"}

Refuse(w) ==
    /\ \E c \in Clients : task[c] = None
    /\ answer' \in ApplyErrors(w) \union RestoreErrors(w) \union CopyErrors(w)
    /\ UNCHANGED <<file, audits, task, crashes, history>>

\* GET /api/workflows: the status a workflow is listed with.
Listed(w) == IF Loads(w) THEN "valid" ELSE "invalid"

-----------------------------------------------------------------------------
(* The writes, in the order of the code.                                   *)

\* Seeded defect: the spec is overwritten before it is kept.
OverwriteFirst(op) ==
    IF op = "copied" THEN <<"mkdir", "open", "write", "record">>
    ELSE <<"mkdir", "open", "write", "original", "record">>

StagesOf(op) ==
    IF op = "copied" THEN <<"mkdir", "open", "write", "record">>
    ELSE <<"mkdir", "original", "record", "open", "write">>

\* c's request has done its stage: the next one, or the answer.
Proceed(c, id) ==
    LET t == task[c]
        s == StagesOf(t.op)
        k == CHOOSE k \in DOMAIN s : s[k] = t.at
    IN  IF k < Len(s)
        THEN /\ task' = [task EXCEPT ![c] = [t EXCEPT !.at = s[k + 1], !.id = id]]
             /\ UNCHANGED answer
        ELSE /\ task' = [task EXCEPT ![c] = None]
             /\ answer' = t.op

At(c, stage) == task[c] # None /\ task[c].at = stage

\* mkdir, and original.yaml opened: a directory without one is no snapshot.
MakeAudit(c) ==
    LET t == task[c]
        new == [original |-> IF t.op = "copied" THEN NoFile ELSE Empty, record |-> None]
    IN  /\ At(c, "mkdir")
        /\ audits' = [audits EXCEPT ![t.wf] = Append(@, new)]
        /\ Proceed(c, Len(audits[t.wf]) + 1)
        /\ UNCHANGED <<file, crashes, history>>

WriteOriginal(c) ==
    LET t == task[c]
    IN  /\ At(c, "original")
        /\ audits' = [audits EXCEPT ![t.wf][t.id].original = t.old]
        /\ Proceed(c, t.id)
        /\ UNCHANGED <<file, crashes, history>>

\* Seeded defect: the two hashes are swapped.
WriteSwappedRecord(c) ==
    LET t == task[c]
    IN  /\ At(c, "record")
        /\ audits' = [audits EXCEPT ![t.wf][t.id].record = [old |-> t.new, new |-> t.old]]
        /\ Proceed(c, t.id)
        /\ UNCHANGED <<file, crashes, history>>

\* audit.json; a truncated one is read as if it were missing (_read_audit).
WriteRecord(c) ==
    LET t == task[c]
    IN  /\ At(c, "record")
        /\ audits' = [audits EXCEPT ![t.wf][t.id].record = [old |-> t.old, new |-> t.new]]
        /\ Proceed(c, t.id)
        /\ UNCHANGED <<file, crashes, history>>

OpenSource(c) ==
    LET t == task[c]
    IN  /\ At(c, "open")
        /\ file' = [file EXCEPT ![t.wf] = Empty]
        /\ Proceed(c, t.id)
        /\ UNCHANGED <<audits, crashes, history>>

\* What a write leaves: another writer's longer text shows behind a shorter one.
Overlay(old, new) == IF old = Empty THEN {new} ELSE {new, Torn}

WriteSource(c) ==
    LET t == task[c]
    IN  /\ At(c, "write")
        /\ \E x \in Overlay(file[t.wf], t.new) :
              /\ file' = [file EXCEPT ![t.wf] = x]
              /\ held' = [held EXCEPT ![t.wf] = @ \union ({x} \ {Torn})]
        /\ landed' = [landed EXCEPT ![t.wf] = @ \union {t.id}]
        /\ Proceed(c, t.id)
        /\ UNCHANGED <<audits, crashes, shared>>

\* The server ends; the files stay as they are.
Crash ==
    /\ crashes < MaxCrashes
    /\ crashes' = crashes + 1
    /\ task' = [c \in Clients |-> None]
    /\ answer' = "none"
    /\ UNCHANGED <<file, audits, history>>

-----------------------------------------------------------------------------
Request(c) ==
    \E w \in Workflows :
        \/ \E t \in Proposals : Apply(c, w, t)
        \/ \E i \in 1..MaxAudits : Restore(c, w, i)
        \/ \E id \in Workflows : \E n \in Titles \union {id} : CopyTemplate(c, w, id, n)

Serve(c) ==
    MakeAudit(c) \/ WriteOriginal(c) \/ WriteRecord(c) \/ OpenSource(c) \/ WriteSource(c)

Next ==
    \/ \E c \in Clients : Request(c) \/ Serve(c)
    \/ \E w \in Workflows : Refuse(w)
    \/ Crash

Spec == Init /\ [][Next]_vars

-----------------------------------------------------------------------------
(* Properties.                                                             *)

Kept(w) == {audits[w][i].original : i \in Snapshots(w)} \intersect Text

\* Whatever a workflow's file has held is in it now or in a snapshot, also when the
\* server ended in the middle of a request.
Recoverable == \A w \in Workflows \ shared : held[w] \subseteq Kept(w) \union {file[w]}

\* The audit directories, read in order, tell how the file came about: every
\* original is what the change before it left, and so is the file.
After(w, i) == IF i \in landed[w] THEN audits[w][i].record.new ELSE audits[w][i].original
Complete(w) == {i \in Snapshots(w) : audits[w][i].original # Empty}
TrailReplays ==
    \A w \in Workflows \ shared : \A i \in Complete(w) :
        IF \E j \in Complete(w) : j > i
        THEN LET j == CHOOSE j \in Complete(w) : j > i /\ \A k \in Complete(w) : k > i => j <= k
             IN  audits[w][j].original = After(w, i)
        ELSE file[w] \in {After(w, i), Empty}

\* While a workflow loads under its own name, all its snapshots can be restored.
SnapshotsRestorable ==
    \A w \in Workflows \ shared : Loads(w) /\ file[w].name = w =>
        \A i \in Complete(w) : Parses(audits[w][i].original) /\ audits[w][i].original.name = w

\* A request that is answered with success has left its text in the file and its
\* directory complete.
AnswersAreTrue ==
    [][\A c \in Clients : task[c] # None /\ task'[c] = None /\ answer' # "none" /\ task[c].wf \notin shared =>
          LET t == task[c]
          IN  /\ file'[t.wf] = t.new
              /\ audits'[t.wf][t.id].record = [old |-> t.old, new |-> t.new]
              /\ t.op # "copied" => audits'[t.wf][t.id].original = t.old]_vars

LastKept(w) == audits[w][CHOOSE i \in Complete(w) : \A j \in Complete(w) : j <= i].original

\* The text a workflow has: what its file holds, or held before it was truncated.
Texts == [w \in Workflows |->
            IF file[w] \in Text THEN file[w]
            ELSE IF file[w] = NoFile \/ Complete(w) = {} THEN None
            ELSE LastKept(w)]
KeptTexts == [w \in Workflows |-> Kept(w)]

Promise == INSTANCE SpecPromise WITH current <- Texts, kept <- KeptTexts

\* The store keeps the promise, whichever requests overlap and wherever it crashes.
ImplementsPromise == Promise!Spec

=============================================================================
