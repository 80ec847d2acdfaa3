---------------------------- MODULE JobEnvelope ----------------------------
(***************************************************************************)
(* What the API promises about an asynchronous job, as the sequence of     *)
(* envelopes a client may poll (GET /jobs/{id}), with no queue, worker or  *)
(* discovery row in sight.  docs/07-data-model.md draws the state machine; *)
(* LateFailures says whether a CANCELLED job may still turn FAILED, which  *)
(* the drawing excludes and the code does.                                 *)
(***************************************************************************)
CONSTANTS
    Jobs,           \* job ids
    LateFailures    \* BOOLEAN

VARIABLE envelope   \* envelope[j]: what a poll of job j returns

Kind == {"scan_job", "discovery", "recompute"}

Absent == [kind |-> "none", status |-> "NONE", cancelRequested |-> FALSE,
           finished |-> FALSE, result |-> FALSE, error |-> FALSE]

Pending(k) == [kind |-> k, status |-> "PENDING", cancelRequested |-> FALSE,
               finished |-> FALSE, result |-> FALSE, error |-> FALSE]

Is(j, S) == envelope[j].status \in S

Init == envelope = [j \in Jobs |-> Absent]

\* A request makes a job.
Submit(j, k) ==
    /\ envelope[j] = Absent
    /\ envelope' = [envelope EXCEPT ![j] = Pending(k)]

\* PENDING -> RUNNING, once.
Start(j) ==
    /\ Is(j, {"PENDING"})
    /\ envelope' = [envelope EXCEPT ![j].status = "RUNNING"]

Completed(j) == [envelope[j] EXCEPT !.status = "COMPLETED", !.finished = TRUE,
                                    !.result = TRUE, !.error = FALSE]

\* RUNNING -> COMPLETED, with a result.
Complete(j) ==
    /\ Is(j, {"RUNNING"})
    /\ envelope' = [envelope EXCEPT ![j] = Completed(j)]

\* A completed discovery may hand over to a scan in the same step.
CompleteAndSubmit(j, c) ==
    /\ Is(j, {"RUNNING"})
    /\ envelope[j].kind = "discovery"
    /\ envelope[c] = Absent
    /\ envelope' = [envelope EXCEPT ![j] = Completed(j),
                                    ![c] = Pending("scan_job")]

\* RUNNING -> FAILED, with an error.
Fail(j) ==
    /\ \/ Is(j, {"RUNNING"})
       \/ LateFailures /\ Is(j, {"CANCELLED"})
    /\ envelope' = [envelope EXCEPT ![j] =
                       [@ EXCEPT !.status = "FAILED", !.finished = TRUE,
                                 !.error = TRUE]]

\* PENDING -> CANCELLED and RUNNING -> CANCELLED; a running recompute cannot.
Cancel(j) ==
    /\ \/ Is(j, {"PENDING"})
       \/ Is(j, {"RUNNING"}) /\ envelope[j].kind # "recompute"
    /\ envelope' = [envelope EXCEPT ![j] =
                       [@ EXCEPT !.status = "CANCELLED", !.cancelRequested = TRUE,
                                 !.finished = TRUE]]

\* The user deletes the scan results, and with them their jobs.
Purge(S) ==
    /\ \A j \in S : envelope[j].kind \in {"scan_job", "recompute"}
    /\ envelope' = [j \in Jobs |-> IF j \in S THEN Absent ELSE envelope[j]]

Next ==
    \/ \E j \in Jobs, k \in Kind : Submit(j, k)
    \/ \E j \in Jobs : Start(j) \/ Complete(j) \/ Fail(j) \/ Cancel(j)
    \/ \E j, c \in Jobs : CompleteAndSubmit(j, c)
    \/ \E S \in SUBSET Jobs : Purge(S)

Spec == Init /\ [][Next]_envelope
=============================================================================
