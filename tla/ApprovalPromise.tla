-------------------------- MODULE ApprovalPromise --------------------------
(***************************************************************************)
(* What decide_approval promises of a paused run, whoever decides it beside *)
(* and whatever cuts a call off: a call finds the run undecided, resumes it *)
(* with its verdict at most once, and records that verdict afterwards.     *)
(***************************************************************************)
EXTENDS Naturals

CONSTANTS RunId, Verdict, Reviewer

VARIABLES
    calls,      \* calls[d]: what reviewer d's call in progress decides
    resumed,    \* resumed[r][v]: how often r was resumed with verdict v
    recorded    \* recorded[r]: the verdict on record for r

Idle == [run |-> 0, verdict |-> "none", begun |-> FALSE]

Init == /\ calls = [d \in Reviewer |-> Idle]
        /\ resumed = [r \in RunId |-> [v \in Verdict |-> 0]]
        /\ recorded = [r \in RunId |-> "none"]

Ask(d, r, v) ==
    /\ calls[d] = Idle
    /\ recorded[r] = "none"
    /\ calls' = [calls EXCEPT ![d] = [run |-> r, verdict |-> v, begun |-> FALSE]]
    /\ UNCHANGED <<resumed, recorded>>

\* The call goes on to its record, or is cut off with the resumption.
Resume(d) ==
    /\ calls[d] # Idle /\ ~calls[d].begun
    /\ resumed' = [resumed EXCEPT ![calls[d].run][calls[d].verdict] = @ + 1]
    /\ \/ calls' = [calls EXCEPT ![d].begun = TRUE]
       \/ calls' = [calls EXCEPT ![d] = Idle]
    /\ UNCHANGED recorded

Record(d) ==
    /\ calls[d].begun
    /\ recorded' = [recorded EXCEPT ![calls[d].run] = calls[d].verdict]
    /\ calls' = [calls EXCEPT ![d] = Idle]
    /\ UNCHANGED resumed

\* Calls end without a record.
CutOff(D) ==
    /\ calls' = [d \in Reviewer |-> IF d \in D THEN Idle ELSE calls[d]]
    /\ UNCHANGED <<resumed, recorded>>

Next ==
    \/ \E d \in Reviewer, r \in RunId, v \in Verdict : Ask(d, r, v)
    \/ \E d \in Reviewer : Resume(d) \/ Record(d)
    \/ \E D \in SUBSET Reviewer : CutOff(D)

Spec == Init /\ [][Next]_<<calls, resumed, recorded>>

=============================================================================
