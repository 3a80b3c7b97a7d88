---------------------------- MODULE KnowledgeBase ----------------------------
(***************************************************************************)
(* What the ingestion pipeline promises to a search: a document is absent, *)
(* then live, then gone for ever; while it is live its searchable content  *)
(* is either nothing or everything one pipeline run produced, and content  *)
(* only ever replaces nothing.                                             *)
(***************************************************************************)
CONSTANTS Document, Run, NoRun

VARIABLES
    phase,    \* of each document: absent, live or gone
    content   \* the run whose chunks are searchable, or NoRun

vars == <<phase, content>>

Init ==
    /\ phase = [d \in Document |-> "absent"]
    /\ content = [d \in Document |-> NoRun]

\* An upload becomes visible.
Add(d) ==
    /\ phase[d] = "absent"
    /\ phase' = [phase EXCEPT ![d] = "live"]
    /\ UNCHANGED content

\* A run takes the content away in order to replace it.
Clear(d) ==
    /\ content' = [content EXCEPT ![d] = NoRun]
    /\ UNCHANGED phase

\* A run's whole output becomes searchable in one step.
Publish(d, run) ==
    /\ phase[d] = "live"
    /\ content[d] = NoRun
    /\ content' = [content EXCEPT ![d] = run]
    /\ UNCHANGED phase

\* A delete takes the document and its content away in one step.
Remove(d) ==
    /\ phase[d] = "live"
    /\ phase' = [phase EXCEPT ![d] = "gone"]
    /\ content' = [content EXCEPT ![d] = NoRun]

\* Uploads that stored a file and then died; their ids are never used again.
Abandon(D) ==
    /\ \A d \in D : phase[d] = "absent"
    /\ phase' = [d \in Document |-> IF d \in D THEN "gone" ELSE phase[d]]
    /\ UNCHANGED content

Next ==
    \/ \E D \in SUBSET Document : Abandon(D)
    \/ \E d \in Document :
        Add(d) \/ Clear(d) \/ Remove(d) \/ \E run \in Run : Publish(d, run)

Spec == Init /\ [][Next]_vars
=============================================================================
