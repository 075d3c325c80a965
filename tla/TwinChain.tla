----------------------------- MODULE TwinChain -----------------------------
(***************************************************************************)
(* The hash chain of the operational twin runs: each run's evidence bundle *)
(* carries the action hash the repository remembered when the run was      *)
(* created.  OperationalTwinService.run reads that hash, goes through the  *)
(* agents, saves the run and records its hash; record_decision and         *)
(* record_outcome save a run again.                                        *)
(*                                                                         *)
(* The hash of a run covers the hash before it and a fresh identifier: it  *)
(* is identified with the run, and the run with the call that creates it.  *)
(* What the agents compute is left out, as are the audit record and the    *)
(* update event after the save: none of it touches the chain.              *)
(*                                                                         *)
(* A definition commented as a variant is no part of the model: it is a    *)
(* mistake the property it names must detect.                              *)
(***************************************************************************)
EXTENDS Naturals, Calls

CONSTANTS
  Creators,   \* POST /v1/operational-twin/runs calls, and their runs
  None,       \* no hash remembered, none read
  Genesis,    \* sixty-four zeros
  CanCrash    \* the process may stop and be restarted over its tables

Hashes == Creators \cup {Genesis}

ASSUME ChainAssumption ==
  /\ None \notin Hashes /\ Genesis \notin Creators

VARIABLES
  saved,     \* runs in the repository
  previous,  \* the previous_action_hash of each run's evidence
  created,   \* created_at of each run, 0 before it is taken
  clock,     \* the greatest created_at so far
  last,      \* _last_action_hash
  pc,        \* where each creating call is
  postgres,  \* the repository is the Postgres one (never changes)
  mishaps    \* what has happened that may fork the chain (history)

chainVars == <<saved, previous, created, clock, last, pc, postgres, mishaps>>

InFlight == {"read", "stamped", "saved"}
Mishaps == {"overlap", "reply lost", "older run saved"}

ChainTypeOK ==
  /\ saved \in SUBSET Creators
  /\ previous \in [Creators -> Hashes \cup {None}]
  /\ created \in [Creators -> Nat]
  /\ clock \in Nat
  /\ last \in Hashes \cup {None}
  /\ pc \in [Creators -> {"idle", "done", "raised", "dead"} \cup InFlight]
  /\ postgres \in BOOLEAN
  /\ mishaps \in SUBSET Mishaps

ChainInit ==
  /\ saved = {}
  /\ previous = [c \in Creators |-> None]
  /\ created = [c \in Creators |-> 0]
  /\ clock = 0
  /\ postgres \in BOOLEAN
  /\ last = IF postgres THEN None ELSE Genesis
  /\ pc = [c \in Creators |-> "idle"]
  /\ mishaps = {}

Moves(c, to) == pc' = [pc EXCEPT ![c] = to]

\* For the properties only: the code has no notion of a mishap.
Note(mishap, happens) ==
  mishaps' = IF happens THEN mishaps \cup {mishap} ELSE mishaps

-----------------------------------------------------------------------------

\* The newest row by created_at; no row is Genesis.
Newest(h) ==
  \/ saved = {} /\ h = Genesis
  \/ h \in saved /\ \A c \in saved : created[c] <= created[h]

\* last_action_hash(): what is remembered, or else the newest row.
Remembered(c, h) == IF last = None THEN Newest(h) ELSE h = last

\* A row that was looked up is remembered, Genesis is not.
ReadHash(c) ==
  /\ pc[c] = "idle"
  /\ \/ \E h \in Hashes :
          /\ Remembered(c, h)
          /\ previous' = [previous EXCEPT ![c] = h]
          /\ last' = IF h = Genesis THEN last ELSE h
          /\ Moves(c, "read")
     \/ /\ CanFault /\ last = None
        /\ Moves(c, "raised")
        /\ UNCHANGED <<previous, last>>
  /\ Note("overlap", \E d \in Creators : pc[d] \in InFlight)
  /\ UNCHANGED <<saved, created, clock, postgres>>

\* now = datetime.now(UTC), after the agents have run.
StampRun(c) ==
  /\ pc[c] = "read"
  /\ created' = [created EXCEPT ![c] = clock + 1]
  /\ clock' = clock + 1
  /\ Moves(c, "stamped")
  /\ UNCHANGED <<saved, previous, last, postgres, mishaps>>

\* Variant (LinksAreEarlier): the hash is remembered before the row is saved.
RememberThenSave(c) ==
  /\ pc[c] = "stamped"
  /\ last' = c
  /\ \E o \in IF postgres THEN Outcomes ELSE {"ok"} :
       /\ saved' = Effect(o, saved, saved \cup {c})
       /\ Moves(c, Reply(o, "saved", "raised"))
       /\ Note("reply lost", o # "ok" /\ saved' # saved)
  /\ UNCHANGED <<previous, created, clock, postgres>>

\* Postgres' save() remembers the hash of what it saved, once it has heard of
\* the commit.  Saving in memory cannot fail.
SaveRun(c) ==
  /\ pc[c] = "stamped"
  /\ \E o \in IF postgres THEN Outcomes ELSE {"ok"} :
       /\ saved' = Effect(o, saved, saved \cup {c})
       /\ last' = IF postgres /\ o = "ok" THEN c ELSE last
       /\ Moves(c, Reply(o, "saved", "raised"))
       /\ Note("reply lost", o # "ok" /\ saved' # saved)
  /\ UNCHANGED <<previous, created, clock, postgres>>

\* Variant (OrderlyChainIsLinear): record_action_hash() is not called.
RecordNoHash(c) ==
  /\ pc[c] = "saved"
  /\ Moves(c, "done")
  /\ UNCHANGED <<saved, previous, created, clock, last, postgres, mishaps>>

\* record_action_hash().
RecordHash(c) ==
  /\ pc[c] = "saved"
  /\ last' = c
  /\ Moves(c, "done")
  /\ UNCHANGED <<saved, previous, created, clock, postgres, mishaps>>

\* record_decision() or record_outcome() of run c: its row is overwritten
\* with the same hash, which Postgres' save() then remembers.
ResaveRun(c) ==
  /\ c \in saved
  /\ last' = IF postgres THEN c ELSE last
  /\ Note("older run saved", postgres /\ ~Newest(c))
  /\ UNCHANGED <<saved, previous, created, clock, pc, postgres>>

\* What Postgres has remains; a process that stops keeps no memory, and a
\* new one over the in-memory repository starts anew.
Crash ==
  /\ CanCrash /\ postgres
  /\ pc' = [c \in Creators |-> IF pc[c] \in InFlight THEN "dead" ELSE pc[c]]
  /\ last' = None
  /\ UNCHANGED <<saved, previous, created, clock, postgres, mishaps>>

ChainNext ==
  \/ \E c \in Creators : \/ ReadHash(c) \/ StampRun(c) \/ SaveRun(c)
                         \/ RecordHash(c) \/ ResaveRun(c)
  \/ Crash

ChainSpec == ChainInit /\ [][ChainNext]_chainVars

-----------------------------------------------------------------------------
(* Properties.                                                             *)

\* Every stored run links to a stored run created before it, or to Genesis:
\* overlapping, failing and restarting calls leave a tree, never a link that
\* dangles or closes a circle.
LinksAreEarlier ==
  \A c \in saved :
    \/ previous[c] = Genesis
    \/ previous[c] \in saved /\ created[previous[c]] < created[c]

\* The runs are one chain, no two of them after the same one.
ChainIsLinear ==
  \A c, d \in saved : previous[c] = previous[d] => c = d

\* They are as long as no creating calls overlap, no committed save is taken
\* to have failed, and no decision or outcome saves a run that is not the
\* newest, which Postgres' save() then remembers: each of the three
\* alone forks the chain, and nothing else does, restarts included.
OrderlyChainIsLinear == mishaps = {} => ChainIsLinear

-----------------------------------------------------------------------------
(* The inductive invariant (TwinChainProofs).                              *)

\* A hash that is remembered or held is that of a stored run.
HashesAreStored ==
  /\ last \in saved \cup {Genesis, None}
  /\ \A c \in Creators :
       pc[c] \in InFlight => previous[c] \in saved \cup {Genesis}

\* A stored run is never stamped again: its link stays where it is.
StoredAreStamped == \A c \in saved : pc[c] \notin {"idle", "read", "stamped"}

\* created_at never runs ahead of the clock, and is later than that of
\* whatever the run links to.
TimesAgree ==
  /\ \A c \in Creators : created[c] <= clock
  /\ \A c \in Creators :
       /\ pc[c] \in {"stamped", "saved"} /\ previous[c] # Genesis =>
            created[previous[c]] < created[c]
       /\ pc[c] = "saved" => c \in saved

ChainInv ==
  /\ ChainTypeOK /\ HashesAreStored /\ StoredAreStamped
  /\ TimesAgree /\ LinksAreEarlier

\* Unless something is amiss, one call at most is creating a run, and no run
\* is linked yet to the hash it has read, nor to the one to be read next.
Unlinked(h) == \A c \in saved : previous[c] # h

OrderlyInv ==
  mishaps = {} =>
    /\ \A c, d \in Creators :
         pc[c] \in InFlight /\ pc[d] \in InFlight => c = d
    /\ \A c \in Creators :
         /\ pc[c] \in {"read", "stamped"} => Unlinked(previous[c])
         /\ pc[c] = "saved" => Unlinked(c)
    /\ last = None \/ Unlinked(last) \/ \E c \in Creators : pc[c] = "saved"
    /\ ChainIsLinear

LinearInv == ChainInv /\ OrderlyInv
=============================================================================
