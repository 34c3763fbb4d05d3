------------------------------ MODULE DocStatusFlow ------------------------------
(***************************************************************************)
(* What a client may rely on when it polls a document's status: requests    *)
(* are accepted at rest, exactly one is in progress at a time, and the      *)
(* statuses that follow belong to the request that was accepted, but for a   *)
(* document whose work an operator or a late dedup verdict has overridden.   *)
(* There are no queues, tasks, stores or crashes here; DocSystem implements  *)
(* this.                                                                     *)
(***************************************************************************)
CONSTANT DocIds

VARIABLES
  status,   \* what the status endpoint reports, "none" for 404
  asked,    \* the last accepted request
  out       \* documents of which nothing is promised any more

flow == <<status, asked, out>>

AtRest(d) == status[d] \in {"none", "indexed", "failed", "deleted", "outdated"}
Ingests(d) == asked[d] = "ingest"
Deletes(d) == asked[d] \in {"delete", "softDelete"}
Becomes(d, st) == status' = [status EXCEPT ![d] = st] /\ UNCHANGED out

Init ==
  /\ status = [d \in DocIds |-> "none"]
  /\ asked = [d \in DocIds |-> "none"]
  /\ out = {}

\* An upload is visible before its file is stored.
Upload(d) == AtRest(d) /\ Becomes(d, "uploading") /\ UNCHANGED asked
Stored(d) == status[d] = "uploading" /\ Becomes(d, "pending") /\ UNCHANGED asked

\* A request is accepted when the document waits for it.
Accept(d) ==
  /\ status[d] \notin {"none", "deleted", "running", "deleting"}
  /\ Becomes(d, "pending")
  /\ \E r \in {"ingest", "delete", "softDelete"} : asked' = [asked EXCEPT ![d] = r]

StartIngest(d) == status[d] = "pending" /\ Ingests(d) /\ Becomes(d, "running") /\ UNCHANGED asked
EndIngest(d) ==
  /\ status[d] = "running" /\ Ingests(d)
  /\ \E st \in {"indexed", "failed", "outdated"} : Becomes(d, st)
  /\ UNCHANGED asked

StartDelete(d) == status[d] = "pending" /\ Deletes(d) /\ Becomes(d, "deleting") /\ UNCHANGED asked
EndDelete(d) ==
  /\ status[d] = "deleting" /\ Deletes(d)
  /\ \E st \in {"none", "deleted", "failed"} : Becomes(d, st)
  /\ UNCHANGED asked

\* A duplicate's ingest retires an indexed document.
Retire(d) ==
  /\ status[d] = "indexed" /\ \E e \in DocIds : status[e] = "running" \/ e \in out
  /\ Becomes(d, "outdated")
  /\ UNCHANGED asked

\* The operator gives up on a document.
GiveUp(d) ==
  /\ ~AtRest(d)
  /\ Becomes(d, "failed")
  /\ asked' = [asked EXCEPT ![d] = "fail"]

\* Overridden work goes on, whatever the status says by now.
Override ==
  /\ out \subseteq out'
  /\ \A d \in DocIds \ out' : status'[d] = status[d] /\ asked'[d] = asked[d]

Next ==
  \/ \E d \in DocIds :
       \/ Upload(d) \/ Stored(d) \/ Accept(d) \/ StartIngest(d) \/ EndIngest(d)
       \/ StartDelete(d) \/ EndDelete(d) \/ Retire(d) \/ GiveUp(d)
  \/ Override

Spec == Init /\ [][Next]_flow
=============================================================================
