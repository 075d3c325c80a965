---------------------------- MODULE RunLifecycle ----------------------------
(***************************************************************************)
(* What the roster workflow promises about the durable record of a run,    *)
(* whatever the interleaving of its handlers: the record moves through     *)
(* queued, running and a settled status, it can only fail while nobody has *)
(* decided on it, and a human decision is recorded on a settled gated run  *)
(* and never disappears.                                                   *)
(*                                                                         *)
(* With Once, a run is decided at most once and only while it awaits       *)
(* approval, which is what docs/shared-data-contract.md describes.         *)
(***************************************************************************)
CONSTANTS Runs, Approvers, None, Once

VARIABLE runs

Decisions == {"approved", "rejected"}

Exists(r) == runs[r] # None
Undecided(r) == Exists(r) /\ runs[r].approval = None

\* Whether a human must approve is settled when the run is created.
Write(r, status, rec, approval) ==
  runs' = [runs EXCEPT ![r] = [status |-> status, gate |-> runs[r].gate,
                               rec |-> rec, approval |-> approval]]

Init == runs = [r \in Runs |-> None]

Create(r) ==
  /\ ~Exists(r)
  /\ \E gate \in BOOLEAN :
       runs' = [runs EXCEPT ![r] = [status |-> "queued", gate |-> gate,
                                    rec |-> FALSE, approval |-> None]]

Start(r) ==
  /\ Undecided(r) /\ runs[r].status = "queued"
  /\ Write(r, "running", FALSE, None)

Settle(r) ==
  /\ Undecided(r) /\ runs[r].status = "running"
  /\ Write(r, IF runs[r].gate THEN "awaiting_approval" ELSE "completed",
           TRUE, None)

\* Also from a settled status: writing the snapshot or the status may raise
\* after the recommendation was saved.
Fail(r) ==
  /\ Undecided(r) /\ runs[r].status # "queued"
  /\ Write(r, "failed", FALSE, None)

Decide(r, a, d) ==
  /\ Exists(r) /\ runs[r].gate
  /\ IF Once THEN runs[r].status = "awaiting_approval"
             ELSE runs[r].status \notin {"queued", "running"}
  /\ Write(r, IF d = "approved" THEN "completed" ELSE "rejected",
           TRUE, [decision |-> d, approver |-> a])

Next ==
  \E r \in Runs :
    \/ Create(r) \/ Start(r) \/ Settle(r) \/ Fail(r)
    \/ \E a \in Approvers, d \in Decisions : Decide(r, a, d)

Spec == Init /\ [][Next]_runs
=============================================================================
