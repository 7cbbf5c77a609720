----------------------------- MODULE ScanStatus -----------------------------
(***************************************************************************)
(* What a client polling GET /scans/{id} may see: the status of each scan, *)
(* and nothing of who wrote it.  A scan is contested once its launcher may *)
(* have given it up while a runner works on it; only then is 'failed' not  *)
(* the last word.  useScanStatus.ts stops polling at the first closed      *)
(* status it reads, so this is the contract its answer rests on.           *)
(***************************************************************************)
CONSTANT Scan

VARIABLES status, contested

statusVars == <<status, contested>>

Set(s, st) == status' = [status EXCEPT ![s] = st]

Init ==
    /\ status = [s \in Scan |-> "absent"]
    /\ contested = {}

Request(s) == status[s] = "absent" /\ Set(s, "queued") /\ UNCHANGED contested

\* An asynchronous attempt begins: it may be retried after any failure.
Contest(s) ==
    /\ status[s] # "absent"
    /\ contested' = contested \cup {s}
    /\ UNCHANGED status

\* The launcher gives the scan up without knowing what became of it.
GiveUp(s) ==
    /\ status[s] # "absent"
    /\ Set(s, "failed")
    /\ contested' = contested \cup {s}

Start(s) == status[s] = "queued" /\ Set(s, "running") /\ UNCHANGED contested

Finish(s) ==
    /\ status[s] = "running"
    /\ \E st \in {"completed", "partial"} : Set(s, st)
    /\ UNCHANGED contested

\* Also from a closed status: the final UPDATE landed but its answer was lost.
Fail(s) == status[s] # "absent" /\ Set(s, "failed") /\ UNCHANGED contested

\* A contested row that was closed is written by its runner all the same.
Reopen(s) ==
    /\ s \in contested /\ status[s] \in {"completed", "partial", "failed"}
    /\ \E st \in {"running", "completed", "partial"} : Set(s, st)
    /\ UNCHANGED contested

Next == \E s \in Scan :
    \/ Request(s) \/ Contest(s) \/ GiveUp(s) \/ Start(s) \/ Finish(s) \/ Fail(s) \/ Reopen(s)

Spec == Init /\ [][Next]_statusVars
=============================================================================
