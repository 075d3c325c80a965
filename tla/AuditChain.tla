----------------------------- MODULE AuditChain -----------------------------
(***************************************************************************)
(* The hash-chained audit log: AuditLog (a JSONL file) and PostgresAuditLog*)
(* appended to by the threads of the API.  append() first reads the last   *)
(* record's hash and then writes, with nothing that excludes other         *)
(* appenders in between.                                                   *)
(*                                                                         *)
(* The hash of a record covers its timestamp, payload and previous hash;   *)
(* it is taken to be injective and abstracted to the record's place in the *)
(* log (its line, or its sequence_id), so that the log is the sequence of  *)
(* the previous hashes its records carry.  Genesis is the hash before the  *)
(* first record, sixty-four zeros.                                         *)
(*                                                                         *)
(* A line of the file may be cut short while it is written, by a full disk *)
(* or the end of the process: what is left is taken not to be JSON, so it  *)
(* is no record.  (Cut just before the newline, it would be one.)          *)
(*                                                                         *)
(* A definition commented as a variant is no part of the model: it is a    *)
(* mistake the property it names must detect.                              *)
(***************************************************************************)
EXTENDS Naturals, Sequences, FiniteSets

CONSTANTS
  Writers,     \* threads that call append()
  CanFault,    \* reading, writing or committing may raise
  CanCrash,    \* the process may stop and be restarted over the log
  MaxRecords   \* bound on the records ever written

ASSUME MaxRecordsAssumption == MaxRecords \in Nat

\* The pool of threads that serves the API is bounded.
ASSUME WritersAssumption == IsFiniteSet(Writers)

Genesis == 0

VARIABLES
  log,       \* the previous_hash of each record ever written, in log order
  visible,   \* places of the records a reader sees
  pc,        \* where each writer is in append()
  previous,  \* the previous_hash each writer has read
  row,       \* the place of the row each writer has inserted
  tail,      \* the last line: whole, torn (cut short, no newline), or glued
             \* (a record written behind a torn one: unreadable, a newline)
  unreadable,  \* some line of the file is no record
  transactional,  \* the log is a PostgresAuditLog (never changes)
  overlapped      \* a call of append() has begun inside another (history)

vars == <<log, visible, pc, previous, row, tail, unreadable, transactional,
          overlapped>>

TypeOK ==
  /\ log \in Seq(Nat)
  /\ visible \in SUBSET (1 .. Len(log))
  /\ pc \in [Writers -> {"idle", "read", "inserted"}]
  /\ previous \in [Writers -> Nat]
  /\ row \in [Writers -> Nat]
  /\ tail \in {"whole", "torn", "glued"} /\ unreadable \in BOOLEAN
  /\ transactional \in BOOLEAN /\ overlapped \in BOOLEAN

Init ==
  /\ log = <<>>
  /\ visible = {}
  /\ pc = [w \in Writers |-> "idle"]
  /\ previous = [w \in Writers |-> Genesis]
  /\ row = [w \in Writers |-> Genesis]
  /\ tail = "whole" /\ unreadable = FALSE
  /\ transactional \in BOOLEAN
  /\ overlapped = FALSE

-----------------------------------------------------------------------------

\* The greatest place of a set of places, Genesis if there is none:
\* _previous_hash() and ORDER BY sequence_id DESC LIMIT 1.
IsLast(i, places) ==
  \/ places = {} /\ i = Genesis
  \/ i \in places /\ \A j \in places : j <= i

\* Kept for the properties only: the code has no notion of it.
NoteOverlap(w) ==
  overlapped' = (overlapped \/ \E v \in Writers \ {w} : pc[v] # "idle")

\* Variant (SerialChainIsValid, ForksAreBounded): the hash first read is kept.
ReadLastOnce(w) ==
  /\ pc[w] = "idle" /\ tail = "whole"
  /\ \E i \in visible \cup {Genesis} :
       /\ IsLast(i, visible)
       /\ previous' = [previous EXCEPT
            ![w] = IF @ = Genesis THEN i ELSE @]
  /\ pc' = [pc EXCEPT ![w] = "read"]
  /\ NoteOverlap(w)
  /\ UNCHANGED <<log, visible, row, tail, unreadable, transactional>>

\* Variant (LinksPointBack): rows that are not committed are read too.
ReadLastDirty(w) ==
  /\ pc[w] = "idle" /\ tail = "whole"
  /\ previous' = [previous EXCEPT ![w] = Len(log)]
  /\ pc' = [pc EXCEPT ![w] = "read"]
  /\ NoteOverlap(w)
  /\ UNCHANGED <<log, visible, row, tail, unreadable, transactional>>

\* Variant (TornLogIsClosed): a last line that is no record is passed over.
ReadLastWhole(w) ==
  /\ pc[w] = "idle"
  /\ \E i \in visible \cup {Genesis} :
       /\ IsLast(i, visible)
       /\ previous' = [previous EXCEPT ![w] = i]
  /\ pc' = [pc EXCEPT ![w] = "read"]
  /\ NoteOverlap(w)
  /\ UNCHANGED <<log, visible, row, tail, unreadable, transactional>>

\* It raises if the last line is no record.
ReadLast(w) ==
  /\ pc[w] = "idle" /\ tail = "whole"
  /\ \E i \in visible \cup {Genesis} :
       /\ IsLast(i, visible)
       /\ previous' = [previous EXCEPT ![w] = i]
  /\ pc' = [pc EXCEPT ![w] = "read"]
  /\ NoteOverlap(w)
  /\ UNCHANGED <<log, visible, row, tail, unreadable, transactional>>

\* AuditLog.append writes one line; with a fault it is written, cut short or
\* not written, and append() raises: either way the writer's call is over.
WriteLine(w) ==
  /\ ~transactional
  /\ pc[w] = "read" /\ Len(log) < MaxRecords
  /\ \/ /\ tail # "torn" /\ tail' = "whole"
        /\ log' = Append(log, previous[w])
        /\ visible' = visible \cup {Len(log) + 1}
     \/ /\ tail = "torn" /\ tail' = "glued"
        /\ UNCHANGED <<log, visible>>
     \/ /\ CanFault /\ tail' \in {tail, "torn"}
        /\ UNCHANGED <<log, visible>>
  /\ unreadable' = (unreadable \/ tail' # "whole")
  /\ pc' = [pc EXCEPT ![w] = "idle"]
  /\ UNCHANGED <<previous, row, transactional, overlapped>>

\* PostgresAuditLog.append inserts: the row has its sequence_id at once, and
\* keeps it for itself even if the transaction is rolled back.
InsertRow(w) ==
  /\ transactional
  /\ pc[w] = "read" /\ Len(log) < MaxRecords
  /\ log' = Append(log, previous[w])
  /\ row' = [row EXCEPT ![w] = Len(log) + 1]
  /\ pc' = [pc EXCEPT ![w] = "inserted"]
  /\ UNCHANGED <<visible, previous, tail, unreadable, transactional, overlapped>>

Commit(w) ==
  /\ pc[w] = "inserted"
  /\ visible' = visible \cup {row[w]} \/ (CanFault /\ UNCHANGED visible)
  /\ pc' = [pc EXCEPT ![w] = "idle"]
  /\ UNCHANGED <<log, previous, row, tail, unreadable, transactional, overlapped>>

\* Threads in append() are lost, and their open transactions rolled back.
Crash ==
  /\ CanCrash
  /\ pc' = [w \in Writers |-> "idle"]
  /\ UNCHANGED <<log, visible, previous, row, tail, unreadable,
                 transactional, overlapped>>

Next ==
  \/ \E w \in Writers : ReadLast(w) \/ WriteLine(w) \/ InsertRow(w) \/ Commit(w)
  \/ Crash

Spec == Init /\ [][Next]_vars

-----------------------------------------------------------------------------
(* Validation.                                                             *)

Before(i, places) == {j \in places : j < i}

\* Variant (DeletionIsDetected): previous_hash is not compared.
LinkedLoosely(places) == \A i \in places : log[i] < i

\* The loop of validate_hash_chain() and validate_audit_records() over the
\* records at these places, in log order: each must carry the hash of the one
\* before it.
Linked(places) == \A i \in places : IsLast(log[i], Before(i, places))

\* validate_hash_chain() of the file answers True: it parses every line and
\* raises at one that is no record.
Validates == ~unreadable /\ Linked(visible)

\* The log a reader sees is one valid chain.
ChainIsValid == Validates

\* As long as no two calls of append() have overlapped, the log validates, rows
\* rolled back, failed writes and crashes included; but for a last line that was
\* cut short, when validation raises at that line with all before it in order.
SerialChainIsValid ==
  ~overlapped => /\ Linked(visible)
                 /\ Validates \/ tail = "torn"

\* Every record carries the hash of an earlier record of the log, or
\* Genesis: with any number of concurrent appenders the log is a tree that
\* grows at its leaves, never a dangling or circular reference.
LinksPointBack ==
  \A i \in visible :
    log[i] < i /\ log[i] \in visible \cup {Genesis}

\* The records that carry the hash of the one at p.
Children(p) == {i \in visible : log[i] = p}

\* Concurrent appenders may fork the chain, but no more than one branch per
\* writer leaves any record.
ForksAreBounded ==
  \A p \in visible \cup {Genesis} : Cardinality(Children(p)) <= Cardinality(Writers)

\* What the chain is for: whatever is left of the log after records were
\* removed, and a line cut short with them, validates only if it is a prefix
\* of it.
DeletionIsDetected ==
  ~overlapped =>
    \A kept \in SUBSET visible :
      Linked(kept) => \A i \in kept : Before(i, visible) \subseteq kept

\* A line cut short ends the log for good: no later call appends to it, a
\* restart does not mend it, and no record is written that nobody can read;
\* unless calls overlap, when one that has read before the cut still writes.
TornLogIsClosed ==
  [][~overlapped' /\ tail # "whole" => UNCHANGED <<log, visible, tail>>]_vars

-----------------------------------------------------------------------------
(* The inductive invariants (AuditChainProofs).                            *)

\* What a writer in append() holds is still true of the log, whoever else
\* has appended since.
WritersHoldEarlierRecords ==
  \A w \in Writers :
    /\ pc[w] # "idle" => previous[w] \in visible \cup {Genesis}
    /\ pc[w] = "inserted" => /\ row[w] \in 1 .. Len(log)
                             /\ log[row[w]] = previous[w]
                             /\ previous[w] < row[w]

LinkInv == TypeOK /\ WritersHoldEarlierRecords /\ LinksPointBack

\* A writer in append() that has read p may add one more record after it, and
\* none reads p again once there is one.
Claimants(p) == {w \in Writers : pc[w] # "idle" /\ previous[w] = p}

ForkInv ==
  /\ LinkInv
  /\ \A p \in visible \cup {Genesis} :
       Cardinality(Children(p)) + Cardinality(Claimants(p)) <= Cardinality(Writers)

\* Without overlap one writer at most is in append(), and what it holds is
\* also the last record.
OneWriterInAppend ==
  \A w, v \in Writers : pc[w] # "idle" /\ pc[v] # "idle" => w = v

WriterHoldsTheLast ==
  \A w \in Writers :
    /\ pc[w] # "idle" => IsLast(previous[w], visible)
    /\ pc[w] = "inserted" => row[w] = Len(log) /\ row[w] \notin visible

NobodyInTornLog ==
  tail # "whole" => \A w \in Writers : pc[w] = "idle"

OnlyTheTailIsTorn == tail = IF unreadable THEN "torn" ELSE "whole"

SerialInv ==
  /\ LinkInv
  /\ ~overlapped => /\ OneWriterInAppend /\ WriterHoldsTheLast
                    /\ Linked(visible)
                    /\ NobodyInTornLog /\ OnlyTheTailIsTorn
=============================================================================
