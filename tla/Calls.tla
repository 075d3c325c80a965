-------------------------------- MODULE Calls --------------------------------
(***************************************************************************)
(* What a handler sees of one call on a backend (Postgres, Redis, a file). *)
(* The call replies or raises; one that raises may have taken effect (the  *)
(* connection was lost after the commit) or not.                           *)
(***************************************************************************)
CONSTANT CanFault  \* a call on a backend may raise

ASSUME CanFaultAssumption == CanFault \in BOOLEAN

Outcomes == IF CanFault THEN {"ok", "lost", "unsent"} ELSE {"ok"}

\* The state a call with outcome o leaves.
Effect(o, before, after) == IF o = "unsent" THEN before ELSE after

\* Where the caller goes on.
Reply(o, ok, raised) == IF o = "ok" THEN ok ELSE raised
=============================================================================
