--------------------------- MODULE KnowledgePages ---------------------------
(***************************************************************************)
(* The knowledge pages of an administrator (useKnowledgeDocuments and the  *)
(* cards of the list, the page of one document, the upload form) and the   *)
(* endpoints they call.  A page loads its documents when it is mounted and *)
(* goes on loading them as long as it SHOWS one in flight; answers come in *)
(* any order.  The pipeline, modelled in Ingestion, is reduced to what a   *)
(* load can see of it: runs that put a document in flight and settle it.   *)
(***************************************************************************)
EXTENDS Naturals, FiniteSets, SequencesExt

CONSTANTS
    Document,
    Call,      \* the calls that may be under way at a time
    MaxRuns,   \* bound on the pipeline runs of a document, under way or asked for
    Faults     \* subset of {"lost"}

ASSUME PagesAssumption ==
    /\ MaxRuns \in Nat \ {0}
    /\ Faults \subseteq {"lost"}
    /\ {"list", "upload", "none"} \cap Document = {}

Settled == {"READY", "FAILED"}
\* What a page has of a document that is not listed, or not loaded.
Nothing == [d \in Document |-> "absent"]

VARIABLES
    status,   \* a document's row: "unborn", "INFLIGHT", settled or "deleted"
    runs,     \* the pipeline runs of a document that are under way
    place,    \* the page: "list", "upload" or a document's
    shown,    \* documents of the list, or document of a document's page
    error,    \* error, or loadError: rendered instead of the documents
    busy,     \* the documents whose buttons are disabled
    call,     \* the calls under way: [kind, doc, from, at, data]
    served,   \* those with an answer to be shown, in the order of the answers
    late,     \* those answered before an answer the page has used meanwhile
    misled    \* history: the page shows what it may never load again

pageVars == <<place, shown, error, busy>>
vars == <<status, runs, pageVars, call, served, late, misled>>

\* from: what waits for the answer: the "page" (with its loads), a "card" of the
\* list, the "list" without the card, the "form", a handler of a page that was
\* "left", or "none".  at: "idle", "sent", "found" (its document is loaded),
\* "committed", "done" (answered) or "failed".  data: the row loaded, the answer.
NoCall == [kind |-> "none", doc |-> "none", from |-> "none", at |-> "idle", data |-> Nothing]
Sent(kind, d, from) == [NoCall EXCEPT !.kind = kind, !.doc = d, !.from = from, !.at = "sent"]
Load == Sent("load", "none", "page")

Is(c, kind) == call[c].kind = kind
At(c, where) == call[c].at = where

Exists(d) == status[d] \notin {"unborn", "deleted"}
Row(d) == IF Exists(d) THEN status[d] ELSE "absent"

\* The documents a page is about.
Of(p) == IF p = "list" THEN Document ELSE Document \cap {p}

\* The condition for an interval, in both effects.
Polling == \E d \in Of(place) : shown[d] = "INFLIGHT"

AllSettled(data) == \A d \in Document : data[d] # "INFLIGHT"

\* The page is going to show what call c brings.
Shows(c) == Is(c, "load") \/ (Is(c, "reindex") /\ call[c].from = "page")

\* And it will not poll then.
EndsPolling(c) == Shows(c) /\ At(c, "done") /\ AllSettled(call[c].data)

\* No load is yet to be served, and the page does not poll or is about to stop.
MayNotLook ==
    /\ \A c \in Call : Is(c, "load") => ~At(c, "sent")
    /\ Polling => \E c \in Call : EndsPolling(c)

\* A run, or a change that will start one, more of d stays within the bound.
Asked(d) == {c \in Call : /\ call[c].doc = d /\ call[c].kind \in {"upload", "reindex"}
                          /\ call[c].at \in {"sent", "found", "committed"}}
Room(d) == runs[d] + Cardinality(Asked(d)) < MaxRuns

\* Whether the page may miss that d changes now.
MayMiss(d) == status[d] # "INFLIGHT" /\ MayNotLook

Init ==
    /\ status \in [Document -> {"unborn"} \cup Settled]
    /\ runs = [d \in Document |-> 0]
    /\ place = "upload"
    /\ shown = Nothing
    /\ error = FALSE
    /\ busy = {}
    /\ call = [c \in Call |-> NoCall]
    /\ served = <<>>
    /\ late = {}
    /\ misled = FALSE

-----------------------------------------------------------------------------
(* Calls.                                                                  *)

Send(c, what) ==
    /\ At(c, "idle")
    /\ call' = [call EXCEPT ![c] = what]
    /\ UNCHANGED <<served, late>>

Forget(gone) ==
    /\ served' = SelectSeq(served, LAMBDA c : c \notin gone)
    /\ late' = late \ gone

\* Page p takes the place of the page: the answers to the old one's loads are
\* ignored, its other calls go on.  Call c is over, or was idle.
Mount(p, c) ==
    LET gone == {c} \cup {k \in Call : Is(k, "load")}
        Left(from) == CASE from \in {"card", "list"} -> "none"
                        [] from \in {"page", "form"} -> "left"
                        [] OTHER -> from
    IN  /\ place' = p
        /\ shown' = Nothing
        /\ error' = FALSE
        /\ busy' = {}
        /\ call' = [k \in Call |->
               IF k = c /\ p # "upload" THEN Load
               ELSE IF k \in gone THEN NoCall
               ELSE [call[k] EXCEPT !.from = Left(@)]]
        /\ served' = <<>> /\ late' = {}
        /\ misled' = FALSE

\* An answer that arrives finds those before it late.
Before(c) == {served[i] : i \in {j \in DOMAIN served :
                  \E k \in DOMAIN served : j < k /\ served[k] = c}}

\* Call c is over, and its answer has been used.
Use(c) ==
    /\ call' = [call EXCEPT ![c] = NoCall]
    /\ served' = Remove(served, c)
    /\ late' = (late \cup Before(c)) \ {c}

Over(c) == call' = [call EXCEPT ![c] = NoCall] /\ Forget({c})

-----------------------------------------------------------------------------
(* What the administrator and the clock do.                                *)

\* A link, or the browser's buttons.
Go(p, c) ==
    /\ p # place
    /\ p \in Document => place = "list" /\ ~error /\ shown[p] # "absent"
    /\ At(c, "idle")
    /\ Mount(p, c)
    /\ UNCHANGED <<status, runs>>

\* Mutant: a failed load stops the clock.
TickUnlessError(c) ==
    /\ Polling /\ ~error
    /\ Send(c, Load)
    /\ UNCHANGED <<status, runs, pageVars, misled>>

\* The interval; an earlier load may still be under way.
Tick(c) ==
    /\ Polling
    /\ Send(c, Load)
    /\ UNCHANGED <<status, runs, pageVars, misled>>

\* handleReindex and handleDelete, of a card or of the document's page.
PressButton(c) ==
    /\ ~error
    /\ \E d \in Of(place) \ busy, kind \in {"reindex", "delete"} :
        /\ shown[d] # "absent" /\ (kind = "reindex" => Room(d))
        /\ Send(c, Sent(kind, d, IF place = "list" THEN "card" ELSE "page"))
        /\ busy' = busy \cup {d}
    /\ UNCHANGED <<status, runs, place, shown, error, misled>>

\* handleSubmit of the upload form
SubmitForm(c) ==
    /\ place = "upload" /\ busy = {}
    /\ \E d \in Document :
        /\ status[d] = "unborn" /\ Room(d)
        /\ \A k \in Call : call[k].doc # d
        /\ Send(c, Sent("upload", d, "form"))
        /\ busy' = {d}
    /\ UNCHANGED <<status, runs, place, shown, error, misled>>

-----------------------------------------------------------------------------
(* The server.                                                             *)

Answer(c, where, answer) ==
    /\ call' = [call EXCEPT ![c].at = where, ![c].data = answer]
    /\ served' = IF where = "done" /\ Shows(c) THEN Append(served, c) ELSE served
    /\ UNCHANGED <<pageVars, late>>

JustRow(d) == [Nothing EXCEPT ![d] = status[d]]

\* list_knowledge_documents and get_knowledge_document
ServeLoad(c) ==
    /\ Is(c, "load") /\ At(c, "sent")
    /\ IF place \in Document /\ ~Exists(place) THEN Answer(c, "failed", Nothing)
       ELSE Answer(c, "done", [d \in Document |-> IF d \in Of(place) THEN Row(d) ELSE "absent"])
    /\ UNCHANGED <<status, runs, misled>>

\* get_by_id in reindex_knowledge_document
LoadDocument(c) ==
    LET d == call[c].doc IN
    /\ Is(c, "reindex") /\ At(c, "sent")
    /\ IF Exists(d) THEN Answer(c, "found", JustRow(d)) ELSE Answer(c, "failed", Nothing)
    /\ UNCHANGED <<status, runs, misled>>

\* The page will use the answer to its own call; nothing tells it of others.
Unheard(c) == call[c].from \in {"left", "none"} /\ MayMiss(call[c].doc)

\* The commit of bump_version_for_reindex: the UPDATE leaves a status out that is
\* as it was loaded, and finds no row if the document was deleted.
CommitReindex(c) ==
    LET d == call[c].doc IN
    /\ Is(c, "reindex") /\ At(c, "found")
    /\ \/ /\ Exists(d)
          /\ \E s \in {"INFLIGHT"} \cup (IF call[c].data[d] = "INFLIGHT" THEN {status[d]} ELSE {}) :
                status' = [status EXCEPT ![d] = s]
          /\ Answer(c, "committed", Nothing)
          /\ misled' = (misled \/ Unheard(c))
       \/ /\ ~Exists(d)
          /\ Answer(c, "failed", Nothing)
          /\ UNCHANGED <<status, misled>>
    /\ UNCHANGED runs

\* The INSERT of an upload
CommitUpload(c) ==
    /\ Is(c, "upload") /\ At(c, "sent")
    /\ status' = [status EXCEPT ![call[c].doc] = "INFLIGHT"]
    /\ Answer(c, "committed", Nothing)
    /\ misled' = (misled \/ Unheard(c))
    /\ UNCHANGED runs

\* delete_knowledge_document
ServeDelete(c) ==
    LET d == call[c].doc IN
    /\ Is(c, "delete") /\ At(c, "sent")
    /\ IF Exists(d)
       THEN /\ status' = [status EXCEPT ![d] = "deleted"]
            /\ Answer(c, "done", Nothing)
            /\ misled' = (misled \/ Unheard(c))
       ELSE Answer(c, "failed", Nothing) /\ UNCHANGED <<status, misled>>
    /\ UNCHANGED runs

\* The refresh after the commit reads the row again, which another run may have
\* settled meanwhile; if it is gone, the request fails and starts no run.
AnswerChange(c) ==
    LET d == call[c].doc IN
    /\ At(c, "committed")
    /\ IF Exists(d)
       THEN /\ runs' = [runs EXCEPT ![d] = @ + 1]
            /\ Answer(c, "done", IF Is(c, "reindex") THEN JustRow(d) ELSE Nothing)
            /\ UNCHANGED misled
       ELSE /\ Answer(c, "failed", Nothing)
            /\ misled' = (misled \/ MayNotLook)
            /\ UNCHANGED runs
    /\ UNCHANGED status

ServeChange(c) ==
    LoadDocument(c) \/ CommitReindex(c) \/ CommitUpload(c) \/ ServeDelete(c) \/ AnswerChange(c)

\* A run marks the document PROCESSING or INDEXING, possibly over another's READY.
RunStarts(d) ==
    /\ runs[d] > 0 /\ Exists(d)
    /\ status' = [status EXCEPT ![d] = "INFLIGHT"]
    /\ misled' = (misled \/ MayMiss(d))
    /\ UNCHANGED <<runs, pageVars, call, served, late>>

\* A run's last write.  A page may see READY and stop while another run goes on.
RunEnds(d) ==
    /\ runs[d] > 0
    /\ runs' = [runs EXCEPT ![d] = @ - 1]
    /\ \E s \in Settled : status' = [status EXCEPT ![d] = IF Exists(d) THEN s ELSE @]
    /\ misled' = (misled \/ (Exists(d) /\ MayMiss(d)))
    /\ UNCHANGED <<pageVars, call, served, late>>

\* Another client's upload, reindex or deletion.
Elsewhere(d) ==
    /\ \/ /\ Room(d) /\ (Exists(d) \/ (status[d] = "unborn" /\ \A c \in Call : call[c].doc # d))
          /\ status' = [status EXCEPT ![d] = "INFLIGHT"]
          /\ runs' = [runs EXCEPT ![d] = @ + 1]
       \/ /\ Exists(d)
          /\ status' = [status EXCEPT ![d] = "deleted"]
          /\ UNCHANGED runs
    /\ misled' = (misled \/ MayMiss(d))
    /\ UNCHANGED <<pageVars, call, served, late>>

-----------------------------------------------------------------------------
(* What the page does with an answer.                                      *)

\* Cards that are no longer rendered forget that they were busy.
Orphaned(calls, cards) ==
    [k \in Call |-> IF calls[k].from = "card" /\ calls[k].doc \notin cards
                    THEN [calls[k] EXCEPT !.from = "list"] ELSE calls[k]]

\* setDocuments or setDocument
ReceiveLoad(c) ==
    LET cards == {d \in Document : call[c].data[d] # "absent"} IN
    /\ Is(c, "load") /\ At(c, "done")
    /\ shown' = call[c].data
    /\ error' = FALSE
    /\ busy' = IF place = "list" THEN busy \cap cards ELSE busy
    /\ call' = Orphaned([call EXCEPT ![c] = NoCall], cards)
    /\ served' = Remove(served, c)
    /\ late' = (late \cup Before(c)) \ {c}
    /\ misled' = (misled \/ (c \in late /\ AllSettled(call[c].data)))
    /\ UNCHANGED <<status, runs, place>>

\* Mutant: the list is not loaded again.
RefreshForgotten(c) == Over(c)

\* onChanged: the list is loaded again.
Refresh(c) == call' = [call EXCEPT ![c] = Load] /\ Forget({c})

\* router.replace and router.push go off even when their page was left.
Navigate(p, c) ==
    IF place = p THEN Over(c) /\ UNCHANGED <<pageVars, misled>> ELSE Mount(p, c)

ReceiveReindex(c) ==
    LET d == call[c].doc IN
    /\ Is(c, "reindex") /\ At(c, "done")
    /\ CASE call[c].from \in {"card", "list"} ->
              /\ Refresh(c)
              /\ busy' = IF call[c].from = "card" THEN busy \ {d} ELSE busy
              /\ UNCHANGED <<place, shown, error, misled>>
         [] call[c].from = "page" ->
              /\ Use(c)
              /\ shown' = call[c].data
              /\ busy' = {}
              /\ misled' = (misled \/ (c \in late /\ AllSettled(call[c].data)))
              /\ UNCHANGED <<place, error>>
         [] OTHER -> Over(c) /\ UNCHANGED <<pageVars, misled>>
    /\ UNCHANGED <<status, runs>>

\* A card stays busy after its deletion.
ReceiveDelete(c) ==
    /\ Is(c, "delete") /\ At(c, "done")
    /\ CASE call[c].from \in {"card", "list"} -> Refresh(c) /\ UNCHANGED <<pageVars, misled>>
         [] call[c].from \in {"page", "left"} -> Navigate("list", c)
         [] OTHER -> Over(c) /\ UNCHANGED <<pageVars, misled>>
    /\ UNCHANGED <<status, runs>>

ReceiveUpload(c) ==
    /\ Is(c, "upload") /\ At(c, "done")
    /\ IF call[c].from = "none" THEN Over(c) /\ UNCHANGED <<pageVars, misled>>
       ELSE Navigate(call[c].doc, c)
    /\ UNCHANGED <<status, runs>>

\* What is shown stays, under the error; answers sent before are late.
LoadFails(c) ==
    /\ Is(c, "load")
    /\ At(c, "failed") \/ ("lost" \in Faults /\ ~At(c, "idle"))
    /\ error' = TRUE
    /\ busy' = IF place = "list" THEN {} ELSE busy
    /\ call' = Orphaned([call EXCEPT ![c] = NoCall], {})
    /\ served' = Remove(served, c)
    /\ late' = (late \cup Range(served)) \ {c}
    /\ UNCHANGED <<status, runs, place, shown, misled>>

\* The page shows an error, and does not load again.
Released(c) ==
    /\ busy' = IF call[c].from \in {"card", "page", "form"} THEN busy \ {call[c].doc} ELSE busy
    /\ UNCHANGED <<status, runs, place, shown, error>>

ChangeFails(c) ==
    /\ ~Is(c, "load") /\ At(c, "failed")
    /\ Over(c)
    /\ Released(c)
    /\ UNCHANGED misled

\* The connection fails: the handler goes on if it has not answered yet.
ChangeLost(c) ==
    /\ "lost" \in Faults
    /\ ~Is(c, "load") /\ ~At(c, "idle") /\ ~At(c, "failed") /\ call[c].from # "none"
    /\ IF At(c, "done") THEN Over(c)
       ELSE call' = [call EXCEPT ![c].from = "none"] /\ UNCHANGED <<served, late>>
    /\ Released(c)
    /\ misled' = (misled \/ (call[c].at \in {"committed", "done"} /\ MayNotLook))

\* The server or the database fails under the handler; what was committed stays.
ChangeCrashes(c) ==
    /\ "lost" \in Faults
    /\ ~Is(c, "load") /\ call[c].at \in {"sent", "found", "committed"}
    /\ Answer(c, "failed", Nothing)
    /\ misled' = (misled \/ (At(c, "committed") /\ MayNotLook))
    /\ UNCHANGED <<status, runs>>

Receive(c) ==
    \/ ReceiveLoad(c) \/ ReceiveReindex(c) \/ ReceiveDelete(c) \/ ReceiveUpload(c)
    \/ LoadFails(c) \/ ChangeFails(c)

Fails(c) == ChangeLost(c) \/ ChangeCrashes(c)

Next ==
    \/ \E c \in Call :
        \/ \E p \in Document \cup {"list", "upload"} : Go(p, c)
        \/ Tick(c) \/ PressButton(c) \/ SubmitForm(c)
        \/ ServeLoad(c) \/ ServeChange(c) \/ Receive(c) \/ Fails(c)
    \/ \E d \in Document : RunStarts(d) \/ RunEnds(d) \/ Elsewhere(d)

Spec == Init /\ [][Next]_vars

\* The interval goes off as long as there is one; handlers go on, and a call that
\* is made again and again is served and answered at last.
Fairness ==
    /\ SF_vars(\E c \in Call : Tick(c))
    /\ \A c \in Call :
        /\ SF_vars(ServeLoad(c)) /\ SF_vars(ReceiveLoad(c)) /\ WF_vars(Receive(c))
        /\ WF_vars(ServeChange(c))

FairSpec == Spec /\ Fairness

-----------------------------------------------------------------------------
StaysSettled(p) == <>[](place = p /\ \A d \in Of(p) : status[d] # "INFLIGHT")

\* A page whose documents are settled does not show one in flight for ever,
\* whatever the order of the answers and however many loads fail.  Only a page
\* whose document was deleted keeps it, and says so.
WaitingEnds ==
    \A p \in Document \cup {"list"} :
        StaysSettled(p) => <>[](~Polling \/ (p \in Document /\ ~Exists(p) /\ error))

\* "Status changes show up live": when its documents stay settled, a page shows
\* them as they are at last, or an error, after any of its own reindexes,
\* deletions and uploads, and after other clients' changes made while it polls;
\* unless two runs of a document overlapped, so that the page may have seen one
\* end, as the answer of its own reindex too, and stopped; an answer was overtaken;
\* or a change of its own was committed and its answer lost or an error.
CatchesUp ==
    \A p \in Document \cup {"list"} :
        StaysSettled(p) /\ <>[]~misled =>
            <>[](error \/ \A d \in Of(p) : shown[d] = Row(d))
=============================================================================
