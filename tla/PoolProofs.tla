----------------------------- MODULE PoolProofs -----------------------------
(***************************************************************************)
(* Whatever the size of the pool and the number of requests, no connection *)
(* is lost and a document is only left in flight by a refused wait.        *)
(***************************************************************************)
EXTENDS ConnectionPool, TLAPS

\* How far each kind of session has brought the document, by its step.
SessionsOK ==
    \A r \in Request :
        /\ script[Own(r)] \in {"none", "document", "chat", "newchat", "read", "ended"}
        /\ script[Task(r)] \in {"none", "task", "recover", "ended"}
        /\ script[Own(r)] = "document" => KindOf[r] = "document"
        /\ script[Own(r)] \in {"chat", "newchat", "read"} => KindOf[r] # "document"
        /\ script[Task(r)] # "none" => KindOf[r] = "document"
        /\ script[Task(r)] # "none" =>
            \/ script[Own(r)] = "document" /\ step[Own(r)] > 3
            \/ script[Own(r)] = "ended" /\ script[Task(r)] = "ended"

Quiet(r) == doc[r] \in Settled \cup {"none"}

DocumentOK ==
    \A r \in Request :
        /\ KindOf[r] # "document" => doc[r] = "none"
        /\ script[Own(r)] = "none" => Quiet(r)
        /\ script[Own(r)] = "document" /\ step[Own(r)] <= 2 => Quiet(r)
        /\ script[Own(r)] = "ended" /\ script[Task(r)] = "none" =>
            Quiet(r) \/ Own(r) \in refused
        /\ script[Task(r)] = "task" /\ step[Task(r)] > 10 => Quiet(r)
        /\ script[Task(r)] = "recover" /\ step[Task(r)] > 2 => Quiet(r)
        /\ script[Task(r)] = "ended" => Quiet(r) \/ Task(r) \in refused

IInv == TypeOK /\ ConnectionsComeBack /\ SessionsOK /\ DocumentOK

-----------------------------------------------------------------------------
\* Lengths and elements of the scripts.
LEMMA ScriptFacts ==
    /\ Len(Script["document"]) = 3
    /\ Len(Script["chat"]) = 10 /\ Len(Script["newchat"]) = 12
    /\ Len(Script["read"]) = 1 /\ Len(Script["task"]) = 11
    /\ Len(Script["recover"]) = 3
    /\ Script["document"][1] = "query" /\ Script["document"][2] = "UPLOADING"
    /\ Script["document"][3] = "query"
    /\ Script["task"][1] = "query" /\ Script["task"][2] = "PROCESSING"
    /\ Script["task"][3] = "query" /\ Script["task"][4] = "call"
    /\ Script["task"][5] = "INDEXING" /\ Script["task"][6] = "query"
    /\ Script["task"][7] = "call" /\ Script["task"][8] = "commit"
    /\ Script["task"][9] = "commit" /\ Script["task"][10] = "READY"
    /\ Script["task"][11] = "query"
    /\ Script["recover"][1] = "query" /\ Script["recover"][2] = "FAILED"
    /\ Script["recover"][3] = "query"
    /\ \A i \in 1..10 : Script["chat"][i] \in {"query", "commit", "call"}
    /\ \A i \in 1..12 : Script["newchat"][i] \in {"query", "commit", "call"}
    /\ Script["read"][1] = "query"
  <1>1. /\ Len(ChatScript) = 10
        /\ \A i \in 1..10 : ChatScript[i] \in {"query", "commit", "call"}
    BY DEF ChatScript
  <1>2. /\ Len(NewChatScript) = 12
        /\ \A i \in 1..12 : NewChatScript[i] \in {"query", "commit", "call"}
    BY DEF ChatScript, NewChatScript
  <1> QED  BY <1>1, <1>2 DEF Script, DocumentScript, TaskScript, RecoverScript

\* Only a document's request follows the document's script.
LEMMA KindFacts ==
    ASSUME NEW r \in Request, NEW name \in ScriptsOf(KindOf[r])
    PROVE  /\ name \in {"document", "chat", "newchat", "read"}
           /\ name \in DOMAIN Script
           /\ name = "document" <=> KindOf[r] = "document"
  BY PoolAssumption DEF ScriptsOf, Script

\* The two sessions of a request are two, and every session is one of them.
LEMMA SessionFacts ==
    /\ \A r \in Request : Own(r) \in Session /\ Task(r) \in Session
    /\ \A q, r \in Request :
        /\ Own(q) # Task(r)
        /\ Own(q) = Own(r) => q = r
        /\ Task(q) = Task(r) => q = r
    /\ \A s \in Session : s[1] \in Request /\ (s = Own(s[1]) \/ s = Task(s[1]))
    /\ \A r \in Request : Own(r)[1] = r /\ Task(r)[1] = r
  BY DEF Session, Own, Task

\* What a session can be about to commit.
LEMMA CommitFacts ==
    ASSUME IInv, NEW q \in Request
    PROVE  /\ Doing(Own(q), {"commit"} \cup Status) =>
               \/ script[Own(q)] = "document" /\ step[Own(q)] = 2 /\ Now(Own(q)) = "UPLOADING"
               \/ script[Own(q)] \in {"chat", "newchat"} /\ Now(Own(q)) = "commit"
           /\ Doing(Task(q), {"commit"} \cup Status) =>
               \/ script[Task(q)] = "task" /\ step[Task(q)] < 10
                  /\ Now(Task(q)) \in {"PROCESSING", "INDEXING", "commit"}
               \/ script[Task(q)] = "task" /\ Now(Task(q)) = "READY"
               \/ script[Task(q)] = "recover" /\ Now(Task(q)) = "FAILED"
  <1> DEFINE o == Own(q)  t == Task(q)
  <1>1. /\ step[o] \in Nat \ {0} /\ step[t] \in Nat \ {0}
        /\ script[o] \in {"none", "document", "chat", "newchat", "read", "ended"}
        /\ script[t] \in {"none", "task", "recover", "ended"}
    BY SessionFacts DEF IInv, TypeOK, SessionsOK
  <1> HIDE DEF o, t
  <1>2. ASSUME Doing(o, {"commit"} \cup Status)
        PROVE  \/ script[o] = "document" /\ step[o] = 2 /\ Now(o) = "UPLOADING"
               \/ script[o] \in {"chat", "newchat"} /\ Now(o) = "commit"
    <2>1. /\ script[o] \in {"document", "chat", "newchat", "read"}
          /\ step[o] \in 1..Len(Script[script[o]])
          /\ Now(o) \in {"commit"} \cup Status
          /\ Now(o) = Script[script[o]][step[o]]
      BY <1>1, <1>2, ScriptFacts DEF Doing, Active, Finished, Now
    <2>2. CASE script[o] = "document"
      <3>1. step[o] \in {1, 2, 3}  BY <2>1, <2>2, <1>1, ScriptFacts
      <3> QED  BY <2>1, <2>2, <3>1, ScriptFacts DEF Status, Settled
    <2>3. CASE script[o] \in {"chat", "newchat"}
      <3>1. Now(o) \in {"query", "commit", "call"}
        <4>1. CASE script[o] = "chat"     BY <2>1, <4>1, ScriptFacts
        <4>2. CASE script[o] = "newchat"  BY <2>1, <4>2, ScriptFacts
        <4> QED  BY <2>3, <4>1, <4>2
      <3> QED  BY <2>1, <2>3, <3>1 DEF Status, Settled
    <2>4. CASE script[o] = "read"
      <3>1. step[o] = 1  BY <2>1, <2>4, <1>1, ScriptFacts
      <3> QED  BY <2>1, <2>4, <3>1, ScriptFacts DEF Status, Settled
    <2> QED  BY <2>1, <2>2, <2>3, <2>4
  <1>3. ASSUME Doing(t, {"commit"} \cup Status)
        PROVE  \/ script[t] = "task" /\ step[t] < 10
                  /\ Now(t) \in {"PROCESSING", "INDEXING", "commit"}
               \/ script[t] = "task" /\ Now(t) = "READY"
               \/ script[t] = "recover" /\ Now(t) = "FAILED"
    <2>1. /\ script[t] \in {"task", "recover"}
          /\ step[t] \in 1..Len(Script[script[t]])
          /\ Now(t) \in {"commit"} \cup Status
          /\ Now(t) = Script[script[t]][step[t]]
      BY <1>1, <1>3, ScriptFacts DEF Doing, Active, Finished, Now
    <2>2. CASE script[t] = "task"
      <3>1. step[t] \in {1, 2, 3, 4, 5, 6, 7, 8, 9, 10, 11}
        BY <2>1, <2>2, <1>1, ScriptFacts
      <3> QED  BY <2>1, <2>2, <3>1, ScriptFacts DEF Status, Settled
    <2>3. CASE script[t] = "recover"
      <3>1. step[t] \in {1, 2, 3}  BY <2>1, <2>3, <1>1, ScriptFacts
      <3> QED  BY <2>1, <2>3, <3>1, ScriptFacts DEF Status, Settled
    <2> QED  BY <2>1, <2>2, <2>3
  <1> QED  BY <1>2, <1>3 DEF o, t

\* A session of a document that has run to its end.
LEMMA FinishedFacts ==
    ASSUME IInv, NEW q \in Request
    PROVE  /\ Finished(Own(q)) /\ script[Own(q)] = "document" => step[Own(q)] > 3
           /\ Finished(Task(q)) => Quiet(q)
  <1>1. Finished(Own(q)) /\ script[Own(q)] = "document" => step[Own(q)] > 3
    BY ScriptFacts, SessionFacts DEF IInv, TypeOK, Finished
  <1>2. ASSUME Finished(Task(q)) PROVE Quiet(q)
    <2>1. script[Task(q)] \in {"task", "recover"}
      BY <1>2, SessionFacts DEF IInv, SessionsOK, Finished, Active
    <2>2. step[Task(q)] \in Nat /\ step[Task(q)] > Len(Script[script[Task(q)]])
      BY <1>2, SessionFacts DEF IInv, TypeOK, Finished
    <2>3. \/ script[Task(q)] = "task" /\ step[Task(q)] > 10
          \/ script[Task(q)] = "recover" /\ step[Task(q)] > 2
      <3>1. CASE script[Task(q)] = "task"     BY <3>1, <2>2, ScriptFacts
      <3>2. CASE script[Task(q)] = "recover"  BY <3>2, <2>2, ScriptFacts
      <3> QED  BY <2>1, <3>1, <3>2
    <2> QED  BY <2>3 DEF IInv, DocumentOK
  <1> QED  BY <1>1, <1>2

-----------------------------------------------------------------------------
LEMMA InitIInv == Init => IInv
  <1> SUFFICES ASSUME Init PROVE IInv
    OBVIOUS
  <1>1. TypeOK  BY DEF Init, TypeOK, Status, Settled
  <1>2. ConnectionsComeBack  BY DEF Init, ConnectionsComeBack
  <1>3. SessionsOK  BY SessionFacts DEF Init, SessionsOK
  <1>4. DocumentOK  BY SessionFacts DEF Init, DocumentOK, Quiet, Settled
  <1> QED  BY <1>1, <1>2, <1>3, <1>4 DEF IInv

\* A request arrives.
LEMMA ArriveKeeps ==
    ASSUME IInv, NEW q \in Request, Arrive(q)
    PROVE  IInv'
  <1>0. PICK name \in ScriptsOf(KindOf[q]) : Begin(Own(q), name)
    BY DEF Arrive
  <1>5. /\ name \in {"document", "chat", "newchat", "read"} /\ name \in DOMAIN Script
        /\ name = "document" <=> KindOf[q] = "document"
    BY <1>0, KindFacts
  <1> USE <1>0, <1>5, SessionFacts DEF Arrive, Begin
  <1>1. TypeOK'  BY DEF IInv, TypeOK
  <1>2. ConnectionsComeBack'  BY <1>1 DEF IInv, TypeOK, ConnectionsComeBack, Active
  <1>3. SessionsOK'  BY DEF IInv, TypeOK, SessionsOK
  <1>4. DocumentOK'  BY DEF IInv, TypeOK, SessionsOK, DocumentOK, Quiet
  <1> QED  BY <1>1, <1>2, <1>3, <1>4 DEF IInv

\* A task starts.
LEMMA StartTaskKeeps ==
    ASSUME IInv, NEW q \in Request, StartTask(q)
    PROVE  IInv'
  <1>0. step[Own(q)] > 3 /\ KindOf[q] = "document"
    BY FinishedFacts, SessionFacts DEF StartTask, IInv, SessionsOK
  <1> USE <1>0, SessionFacts DEF StartTask, Begin
  <1>1. TypeOK'  BY DEF IInv, TypeOK, Script
  <1>2. ConnectionsComeBack'  BY <1>1 DEF IInv, TypeOK, ConnectionsComeBack, Active
  <1>3. SessionsOK'  BY DEF IInv, TypeOK, SessionsOK
  <1>4. DocumentOK'  BY DEF IInv, TypeOK, SessionsOK, DocumentOK, Quiet
  <1> QED  BY <1>1, <1>2, <1>3, <1>4 DEF IInv

\* A statement or a returning call: the session goes one step on.
LEMMA AdvanceKeeps ==
    ASSUME IInv, NEW s \in Session, Query(s) \/ CallReturns(s)
    PROVE  IInv'
  <1> DEFINE q == s[1]
  <1>0. q \in Request /\ (s = Own(q) \/ s = Task(q))
    BY SessionFacts
  <1>1. /\ Active(s)
        /\ step' = [step EXCEPT ![s] = @ + 1]
        /\ held' \subseteq held \cup {s}
        /\ UNCHANGED <<script, doc, refused>>
    BY DEF Query, CallReturns, Doing, Advance
  <1>2. \A x \in Session : step'[x] >= step[x] /\ step'[x] \in Nat \ {0}
    BY <1>1 DEF IInv, TypeOK
  <1>3. TypeOK'  BY <1>1 DEF IInv, TypeOK
  <1>4. ConnectionsComeBack'
    BY <1>1 DEF IInv, ConnectionsComeBack, Active
  <1>5. SessionsOK'
    BY <1>1, <1>2, SessionFacts DEF IInv, TypeOK, SessionsOK
  <1>6. DocumentOK'
    <2> SUFFICES ASSUME NEW r \in Request
                 PROVE  /\ script[Task(r)] = "task" /\ step'[Task(r)] > 10 => Quiet(r)
                        /\ script[Task(r)] = "recover" /\ step'[Task(r)] > 2 => Quiet(r)
      BY <1>1, <1>2, SessionFacts DEF IInv, TypeOK, DocumentOK, Quiet
    <2>1. CASE s # Task(r)
      BY <2>1, <1>1, SessionFacts DEF IInv, TypeOK, DocumentOK
    <2>2. CASE s = Task(r)
      <3>1. step'[s] = step[s] + 1 /\ step[s] \in Nat
        BY <1>1 DEF IInv, TypeOK
      <3>2. Now(s) \in {"query", "call"} /\ Now(s) = Script[script[s]][step[s]]
        BY DEF Query, CallReturns, Doing, Now
      <3>3. script[s] = "task" => step[s] # 10
        BY <3>2, ScriptFacts
      <3>4. script[s] = "recover" => step[s] # 2
        BY <3>2, ScriptFacts
      <3> QED  BY <2>2, <3>1, <3>3, <3>4 DEF IInv, DocumentOK
    <2> QED  BY <2>1, <2>2
  <1> QED  BY <1>3, <1>4, <1>5, <1>6 DEF IInv

\* A commit moves a document's status as far as its step says.
LEMMA CommitKeeps ==
    ASSUME IInv, NEW s \in Session, Commit(s)
    PROVE  IInv'
  <1> DEFINE q == s[1]
  <1>0. q \in Request /\ (s = Own(q) \/ s = Task(q))
    BY SessionFacts
  <1>1. /\ Active(s) /\ Doing(s, {"commit"} \cup Status)
        /\ Now(s) \in {"commit"} \cup Status
        /\ step' = [step EXCEPT ![s] = @ + 1]
        /\ held' = held \ {s}
        /\ doc' = IF Now(s) = "commit" THEN doc ELSE [doc EXCEPT ![q] = Now(s)]
        /\ UNCHANGED <<script, refused>>
    BY DEF Commit, Doing, Advance
  <1>2. \A x \in Session : step'[x] >= step[x] /\ step'[x] \in Nat \ {0}
    BY <1>1 DEF IInv, TypeOK
  <1>3. TypeOK'  BY <1>0, <1>1 DEF IInv, TypeOK
  <1>4. ConnectionsComeBack'
    BY <1>1 DEF IInv, ConnectionsComeBack, Active
  <1>5. SessionsOK'
    BY <1>1, <1>2, SessionFacts DEF IInv, TypeOK, SessionsOK
  <1>6. DocumentOK'
    <2>1. ASSUME NEW r \in Request, r # q
          PROVE  /\ doc'[r] = doc[r]
                 /\ step'[Own(r)] = step[Own(r)] /\ step'[Task(r)] = step[Task(r)]
      BY <2>1, <1>0, <1>1, SessionFacts DEF IInv, TypeOK
    <2>2. CASE s = Own(q)
      <3>1. step'[Task(q)] = step[Task(q)] /\ step'[s] = step[s] + 1 /\ step[s] \in Nat
        BY <2>2, <1>0, <1>1, SessionFacts DEF IInv, TypeOK
      <3>2. CASE script[s] = "document" /\ step[s] = 2 /\ Now(s) = "UPLOADING"
        <4>1. script[Task(q)] = "none" /\ KindOf[q] = "document"
          BY <3>2, <2>2, <1>0 DEF IInv, SessionsOK, DocumentOK
        <4>2. script'[Own(q)] = "document" /\ step'[Own(q)] = 3 /\ script'[Task(q)] = "none"
          BY <4>1, <3>1, <3>2, <2>2, <1>1
        <4>3. ASSUME NEW r \in Request PROVE KindOf[r] # "document" => doc'[r] = "none"
          BY <4>1, <4>3, <2>1 DEF IInv, DocumentOK
        <4> QED
          BY <4>2, <4>3, <2>1, <1>0, <1>1 DEF IInv, DocumentOK, Quiet
      <3>3. CASE script[s] \in {"chat", "newchat"} /\ Now(s) = "commit"
        BY <3>1, <3>3, <2>1, <2>2, <1>0, <1>1 DEF IInv, DocumentOK, Quiet
      <3> QED  BY <3>2, <3>3, <2>2, <1>0, <1>1, CommitFacts
    <2>3. CASE s = Task(q)
      <3>1. /\ step'[Own(q)] = step[Own(q)] /\ step'[s] = step[s] + 1 /\ step[s] \in Nat
            /\ KindOf[q] = "document" /\ script[Own(q)] = "document" /\ step[Own(q)] > 3
            /\ script[s] \in {"task", "recover"}
        BY <2>3, <1>0, <1>1, SessionFacts DEF IInv, TypeOK, SessionsOK, Active
      <3>2. CASE script[s] = "task" /\ step[s] < 10
        <4>1. script'[s] = "task" /\ step'[s] <= 10 /\ step'[Own(q)] > 3
              /\ script'[Own(q)] = "document"
          BY <3>1, <3>2, <1>1
        <4>2. ASSUME NEW r \in Request PROVE KindOf[r] # "document" => doc'[r] = "none"
          BY <3>1, <4>2, <2>1 DEF IInv, DocumentOK
        <4>3. script'[Task(q)] = "task" /\ step'[Task(q)] <= 10
          BY <4>1, <2>3
        <4>6. step'[Own(q)] \in Nat /\ step'[Task(q)] \in Nat
          BY <1>0, <1>2, SessionFacts
        <4> HIDE DEF q
        <4>4. \A r \in Request \ {q} :
                doc'[r] = doc[r] /\ step'[Own(r)] = step[Own(r)] /\ step'[Task(r)] = step[Task(r)]
          BY <2>1
        <4>5. script' = script /\ refused' = refused
          BY <1>1
        <4> QED
          BY <4>1, <4>2, <4>3, <4>4, <4>5, <4>6 DEF IInv, DocumentOK, Quiet
      <3>3. CASE Now(s) \in {"READY", "FAILED"}
        <4>1. doc'[q] \in Settled
          BY <3>3, <1>0, <1>1 DEF IInv, TypeOK, Settled
        <4> QED
          BY <4>1, <3>1, <2>1, <2>3, <1>0, <1>1, SessionFacts
          DEF IInv, DocumentOK, Quiet
      <3> QED  BY <3>2, <3>3, <2>3, <1>0, <1>1, CommitFacts
    <2> QED  BY <2>2, <2>3, <1>0
  <1> QED  BY <1>3, <1>4, <1>5, <1>6 DEF IInv

\* An exception ends a session or turns a task to recovery.
LEMMA RaiseKeeps ==
    ASSUME IInv, NEW s \in Session, CallFails(s) \/ Refuse(s)
    PROVE  IInv'
  <1> DEFINE q == s[1]
  <1>0. q \in Request /\ (s = Own(q) \/ s = Task(q))
    BY SessionFacts
  <1>1. /\ Active(s) /\ ~Finished(s)
        /\ script' = [script EXCEPT ![s] =
              IF script[s] = "task" /\ step[s] > 1 THEN "recover" ELSE "ended"]
        /\ step' = [step EXCEPT ![s] = 1]
        /\ held' = held \ {s} /\ doc' = doc
        /\ refused' \in {refused, refused \cup {s}}
    BY DEF CallFails, Refuse, Raise, Begin, Doing
  <1>2. script'[s] = "recover" \/ script'[s] = "ended"
    BY <1>1 DEF IInv, TypeOK
  <1>3. TypeOK'  BY <1>1, ScriptFacts DEF IInv, TypeOK, Script
  <1>4. ConnectionsComeBack'
    BY <1>1 DEF IInv, TypeOK, ConnectionsComeBack, Active
  <1>7. ASSUME NEW r \in Request, r # q
        PROVE  /\ script'[Own(r)] = script[Own(r)] /\ script'[Task(r)] = script[Task(r)]
               /\ step'[Own(r)] = step[Own(r)] /\ step'[Task(r)] = step[Task(r)]
    BY <1>7, <1>0, <1>1, SessionFacts DEF IInv, TypeOK
  <1>8. CASE s = Own(q)
    <2>1. /\ script'[Own(q)] = "ended"
          /\ script'[Task(q)] = script[Task(q)] /\ step'[Task(q)] = step[Task(q)]
      BY <1>8, <1>0, <1>1, SessionFacts DEF IInv, TypeOK, SessionsOK
    <2>2. script[Task(q)] \in {"none", "ended"}
      <3> SUFFICES ASSUME script[Task(q)] \in {"task", "recover"} PROVE FALSE
        BY <1>0 DEF IInv, SessionsOK
      <3>1. script[s] = "document" /\ step[s] > 3 /\ step[s] \in Nat
        BY <1>0, <1>8, SessionFacts DEF IInv, TypeOK, SessionsOK
      <3> QED  BY <3>1, <1>1, ScriptFacts DEF Finished
    <2>3. SessionsOK'
      BY <2>1, <2>2, <1>7, <1>0, <1>1 DEF IInv, SessionsOK
    <2>4. script[Task(q)] = "none" => Quiet(q) \/ Own(q) \in refused'
      <3> SUFFICES ASSUME script[Task(q)] = "none", ~Refuse(s) PROVE Quiet(q)
        BY <1>8 DEF Refuse
      <3>1. Now(s) = "call" /\ Now(s) = Script[script[s]][step[s]]
        BY DEF CallFails, Doing, Now
      <3>2. script[s] # "document"
        <4> SUFFICES ASSUME script[s] = "document" PROVE FALSE
          OBVIOUS
        <4>1. step[s] \in {1, 2, 3}
          BY <1>1, ScriptFacts DEF IInv, TypeOK, Finished
        <4> QED  BY <4>1, <3>1, ScriptFacts
      <3>3. KindOf[q] # "document"
        BY <3>2, <1>1, <1>8, <1>0 DEF IInv, SessionsOK, Active
      <3> QED  BY <3>3, <1>0 DEF IInv, DocumentOK, Quiet
    <2>5. DocumentOK'
      BY <2>1, <2>2, <2>4, <1>7, <1>0, <1>1 DEF IInv, DocumentOK, Quiet
    <2> QED  BY <2>3, <2>5, <1>3, <1>4 DEF IInv
  <1>9. CASE s = Task(q)
    <2>1. /\ script'[Own(q)] = script[Own(q)] /\ step'[Own(q)] = step[Own(q)]
          /\ step'[s] = 1
          /\ script[Own(q)] = "document" /\ step[Own(q)] > 3 /\ KindOf[q] = "document"
      BY <1>9, <1>0, <1>1, SessionFacts DEF IInv, TypeOK, SessionsOK, Active
    <2>2. SessionsOK'
      BY <2>1, <1>2, <1>7, <1>9, <1>0 DEF IInv, SessionsOK
    <2>3. script'[s] = "ended" => Task(q) \in refused'
      <3> SUFFICES ASSUME script'[s] = "ended", ~Refuse(s) PROVE FALSE
        BY <1>9 DEF Refuse
      <3>1. Now(s) = "call" /\ Now(s) = Script[script[s]][step[s]]
        BY DEF CallFails, Doing, Now
      <3>2. step[s] \in Nat \ {0} /\ script[s] \in {"task", "recover"}
        BY <1>1, <1>9, <1>0 DEF IInv, TypeOK, SessionsOK, Active
      <3>3. CASE script[s] = "task"
        <4>1. step[s] = 1
          BY <3>2, <3>3, <1>1 DEF IInv, TypeOK
        <4> QED  BY <4>1, <3>1, <3>3, ScriptFacts
      <3>4. CASE script[s] = "recover"
        <4>1. step[s] \in {1, 2, 3}
          BY <3>2, <3>4, <1>1, ScriptFacts DEF Finished
        <4> QED  BY <4>1, <3>1, <3>4, ScriptFacts
      <3> QED  BY <3>2, <3>3, <3>4
    <2>4. DocumentOK'
      BY <2>1, <2>3, <1>2, <1>7, <1>9, <1>0, <1>1 DEF IInv, DocumentOK, Quiet
    <2> QED  BY <2>2, <2>4, <1>3, <1>4 DEF IInv
  <1> QED  BY <1>0, <1>8, <1>9

\* A session that is done is closed.
LEMMA CloseKeeps ==
    ASSUME IInv, NEW s \in Session, Close(s)
    PROVE  IInv'
  <1> DEFINE q == s[1]
  <1>0. q \in Request /\ (s = Own(q) \/ s = Task(q))
    BY SessionFacts
  <1>1. /\ Active(s) /\ Finished(s)
        /\ script[s] = "document" => script[Task(q)] = "ended"
        /\ script' = [script EXCEPT ![s] = "ended"]
        /\ step' = [step EXCEPT ![s] = 1]
        /\ held' = held \ {s} /\ UNCHANGED <<doc, refused>>
    BY DEF Close, Begin, Finished
  <1>2. script'[s] = "ended"
    BY <1>1 DEF IInv, TypeOK
  <1>3. TypeOK'  BY <1>1 DEF IInv, TypeOK
  <1>4. ConnectionsComeBack'
    BY <1>1 DEF IInv, TypeOK, ConnectionsComeBack, Active
  <1>7. ASSUME NEW r \in Request, r # q
        PROVE  /\ script'[Own(r)] = script[Own(r)] /\ script'[Task(r)] = script[Task(r)]
               /\ step'[Own(r)] = step[Own(r)] /\ step'[Task(r)] = step[Task(r)]
    BY <1>7, <1>0, <1>1, SessionFacts DEF IInv, TypeOK
  <1>8. CASE s = Own(q)
    <2>1. script'[Task(q)] = script[Task(q)] /\ step'[Task(q)] = step[Task(q)]
      BY <1>8, <1>0, <1>1, SessionFacts DEF IInv, TypeOK
    <2>2. script[Task(q)] \in {"none", "ended"}
      BY <1>0, <1>1, <1>8 DEF IInv, SessionsOK
    <2>3. script[Task(q)] = "none" => Quiet(q)
      BY <1>0, <1>1, <1>8 DEF IInv, SessionsOK, DocumentOK, Active, Quiet
    <2>4. SessionsOK'
      BY <2>1, <2>2, <1>2, <1>7, <1>8, <1>0 DEF IInv, SessionsOK
    <2>5. DocumentOK'
      BY <2>1, <2>2, <2>3, <1>2, <1>7, <1>8, <1>0, <1>1 DEF IInv, DocumentOK, Quiet
    <2> QED  BY <2>4, <2>5, <1>3, <1>4 DEF IInv
  <1>9. CASE s = Task(q)
    <2>1. /\ script'[Own(q)] = script[Own(q)] /\ step'[Own(q)] = step[Own(q)]
          /\ script[Own(q)] = "document" /\ step[Own(q)] > 3 /\ KindOf[q] = "document"
      BY <1>9, <1>0, <1>1, SessionFacts DEF IInv, TypeOK, SessionsOK, Active
    <2>2. Quiet(q)
      BY <1>0, <1>1, <1>9, FinishedFacts
    <2>3. SessionsOK'
      BY <2>1, <1>2, <1>7, <1>9, <1>0 DEF IInv, SessionsOK
    <2>4. DocumentOK'
      BY <2>1, <2>2, <1>2, <1>7, <1>9, <1>0, <1>1 DEF IInv, DocumentOK, Quiet
    <2> QED  BY <2>3, <2>4, <1>3, <1>4 DEF IInv
  <1> QED  BY <1>0, <1>8, <1>9

-----------------------------------------------------------------------------
LEMMA NextKeeps == IInv /\ [Next]_vars => IInv'
  <1> SUFFICES ASSUME IInv, [Next]_vars PROVE IInv'
    OBVIOUS
  <1>1. CASE UNCHANGED vars
    BY <1>1 DEF vars, IInv, TypeOK, ConnectionsComeBack, SessionsOK, DocumentOK, Quiet, Active
  <1>2. ASSUME NEW r \in Request, Arrive(r) \/ StartTask(r) PROVE IInv'
    BY <1>2, ArriveKeeps, StartTaskKeeps
  <1>3. ASSUME NEW s \in Session, SessionNext(s) PROVE IInv'
    BY <1>3, AdvanceKeeps, CommitKeeps, RaiseKeeps, CloseKeeps DEF SessionNext
  <1> QED  BY <1>1, <1>2, <1>3 DEF Next

\* The invariant says more than the properties.
LEMMA IInvGives == IInv => TypeOK /\ ConnectionsComeBack /\ UnsettledOnlyIfRefused
  <1> SUFFICES ASSUME IInv, NEW r \in Request,
                      script[Own(r)] = "ended", doc[r] \in Status \ Settled
               PROVE  Own(r) \in refused \/ Task(r) \in refused
    BY DEF IInv, UnsettledOnlyIfRefused
  <1>1. ~Quiet(r)  BY DEF Quiet, Status, Settled
  <1>2. script[Task(r)] \in {"none", "ended"}  BY DEF IInv, SessionsOK
  <1> QED  BY <1>1, <1>2 DEF IInv, DocumentOK

LEMMA IInvHolds == Spec => []IInv
  BY InitIInv, NextKeeps, PTL DEF Spec

\* The variables keep their types.
THEOREM PoolTypes == Spec => []TypeOK
  BY IInvHolds, IInvGives, PTL

\* Every connection in use belongs to a session that is still at work.
THEOREM NoConnectionIsLost == Spec => []ConnectionsComeBack
  BY IInvHolds, IInvGives, PTL

\* A document is left in flight only when the pool refused a connection.
THEOREM ExhaustionAlone == Spec => []UnsettledOnlyIfRefused
  BY IInvHolds, IInvGives, PTL
=============================================================================
