------------------------------- MODULE Ingest -------------------------------
(***************************************************************************)
(* Ingesting context chunks and graph facts (api.py): each request stores  *)
(* its rows, under their ids, and then appends an update event for each.   *)
(* Requests run in threads of one service.  What storing is depends on the *)
(* backend:                                                                *)
(*   local    a list in memory, read, merged and replaced without a lock   *)
(*   vectors  one transaction in Postgres, a statement for each chunk      *)
(*   graph    a command to FalkorDB for each fact, none undone             *)
(* (retrieval.py, graph.py).  A statement or command that fails, an        *)
(* embedding of the wrong size or an unusable predicate among the reasons, *)
(* ends the request; so does a commit, a command or an event whose reply   *)
(* is lost, though it has taken effect.                                    *)
(*                                                                         *)
(* A row is told by the request it came with and its position there.  What *)
(* rows contain and how they are retrieved is left out; so are restarts,   *)
(* after which the local backend is empty.                                 *)
(*                                                                         *)
(* A definition commented as a variant is no part of the model: it is a    *)
(* mistake the property it names must detect.                              *)
(***************************************************************************)
EXTENDS Calls, Integers, Sequences

CONSTANTS
  Batches,   \* the batch of ids of each request
  NoChunk    \* there is no row with an id

Ingests == DOMAIN Batches
ChunkIds == UNION {{Batches[r][k] : k \in DOMAIN Batches[r]} : r \in Ingests}

\* The rows that may be stored under an id.
RowsOf(id) ==
  UNION {{<<r, k>> : k \in {j \in 1 .. Len(Batches[r]) : Batches[r][j] = id}} : r \in Ingests}

\* A request has at least one row (ContextIngestRequest, GraphIngestRequest).
ASSUME IngestAssumption ==
  /\ \A r \in Ingests : Batches[r] \in Seq(ChunkIds) \ {<<>>}
  /\ \A id \in ChunkIds : NoChunk \notin RowsOf(id)

VARIABLES
  backend,  \* what rows are stored in
  chunks,   \* the row stored under each id
  doing,    \* what each request is doing
  through,  \* how many rows of its batch have got through
  copies,   \* the list it has merged its rows into (local)
  logged,   \* how many events of its have been appended
  lost      \* ids a stale list has replaced the row of: a history, no code reads it

ingestVars == <<backend, chunks, doing, through, copies, logged, lost>>

Backends == {"local", "vectors", "graph"}
Empty == [id \in ChunkIds |-> NoChunk]

IngestAtRest ==
  /\ chunks = Empty /\ lost = {}
  /\ doing = [r \in Ingests |-> "idle"]
  /\ through = [r \in Ingests |-> 0]
  /\ copies = [r \in Ingests |-> Empty]
  /\ logged = [r \in Ingests |-> 0]

IngestInit == backend \in Backends /\ IngestAtRest

-----------------------------------------------------------------------------

\* The list with the first n rows of a batch in it: of rows with one id the
\* last stays.
Merged(list, r, n) ==
  [id \in ChunkIds |->
     LET positions == {k \in 1 .. n : Batches[r][k] = id}
     IN  IF positions = {} THEN list[id]
         ELSE <<r, CHOOSE k \in positions : \A j \in positions : j <= k>>]

\* upsert() of the local backends, in two steps: what another request stores
\* between them is lost.
CopyList(r) ==
  /\ backend = "local" /\ doing[r] = "idle"
  /\ doing' = [doing EXCEPT ![r] = "storing"]
  /\ copies' = [copies EXCEPT ![r] = Merged(chunks, r, Len(Batches[r]))]
  /\ UNCHANGED <<backend, chunks, through, logged, lost>>

Own(r) == {Batches[r][k] : k \in 1 .. Len(Batches[r])}

ReplaceList(r) ==
  /\ backend = "local" /\ doing[r] = "storing"
  /\ chunks' = copies[r]
  /\ lost' = lost \cup {id \in ChunkIds \ Own(r) : chunks[id] # copies[r][id]}
  /\ doing' = [doing EXCEPT ![r] = "logging"]
  /\ through' = [through EXCEPT ![r] = Len(Batches[r])]
  /\ UNCHANGED <<backend, copies, logged>>

\* Rows a transaction has written and not committed are its own.
Holds(r) ==
  IF doing[r] = "storing" THEN {Batches[r][k] : k \in 1 .. through[r]} ELSE {}

Blocks(q, r) ==
  /\ q # r /\ doing[r] = "storing" /\ through[r] < Len(Batches[r])
  /\ Batches[r][through[r] + 1] \in Holds(q)

Begin(r) ==
  /\ backend \in {"vectors", "graph"} /\ doing[r] = "idle"
  /\ doing' = [doing EXCEPT ![r] = "storing"]
  /\ UNCHANGED <<backend, chunks, through, copies, logged, lost>>

\* Variant (FailuresArePrefixes): every chunk is committed at once.
InsertAtOnce(r) ==
  /\ backend = "vectors" /\ doing[r] = "storing" /\ through[r] < Len(Batches[r])
  /\ through' = [through EXCEPT ![r] = @ + 1]
  /\ chunks' = [chunks EXCEPT ![Batches[r][through[r] + 1]] = <<r, through[r] + 1>>]
  /\ UNCHANGED <<backend, doing, copies, logged, lost>>

Insert(r) ==
  /\ backend = "vectors" /\ doing[r] = "storing" /\ through[r] < Len(Batches[r])
  /\ \A q \in Ingests : ~Blocks(q, r)
  /\ through' = [through EXCEPT ![r] = @ + 1]
  /\ UNCHANGED <<backend, chunks, doing, copies, logged, lost>>

Commit(r) ==
  /\ backend = "vectors" /\ doing[r] = "storing" /\ through[r] = Len(Batches[r])
  /\ \E o \in Outcomes :
       /\ chunks' = Effect(o, chunks, Merged(chunks, r, Len(Batches[r])))
       /\ doing' = [doing EXCEPT ![r] = Reply(o, "logging", "unstored")]
  /\ UNCHANGED <<backend, through, copies, logged, lost>>

Merge(r) ==
  /\ backend = "graph" /\ doing[r] = "storing" /\ through[r] < Len(Batches[r])
  /\ LET k == through[r] + 1
         next == IF k = Len(Batches[r]) THEN "logging" ELSE "storing"
     IN  \E o \in Outcomes :
           /\ chunks' = Effect(o, chunks, [chunks EXCEPT ![Batches[r][k]] = <<r, k>>])
           /\ through' = Effect(o, through, [through EXCEPT ![r] = k])
           /\ doing' = [doing EXCEPT ![r] = Reply(o, next, "unstored")]
  /\ UNCHANGED <<backend, copies, logged, lost>>

\* Variant (EventsAreBacked): the failure is not passed on.
StoringFailsQuietly(r) ==
  /\ backend \in {"vectors", "graph"} /\ doing[r] = "storing"
  /\ through[r] < Len(Batches[r])
  /\ doing' = [doing EXCEPT ![r] = "logging"]
  /\ UNCHANGED <<backend, chunks, through, copies, logged, lost>>

\* A row is refused.  Two transactions that block each other come to this too:
\* Postgres aborts one of them.
StoringFails(r) ==
  /\ backend \in {"vectors", "graph"} /\ doing[r] = "storing"
  /\ through[r] < Len(Batches[r])
  /\ doing' = [doing EXCEPT ![r] = "unstored"]
  /\ UNCHANGED <<backend, chunks, through, copies, logged, lost>>

Log(r) ==
  /\ doing[r] = "logging"
  /\ LET next == IF logged[r] + 1 = Len(Batches[r]) THEN "answered" ELSE "logging"
     IN  \E o \in Outcomes :
           /\ logged' = Effect(o, logged, [logged EXCEPT ![r] = @ + 1])
           /\ doing' = [doing EXCEPT ![r] = Reply(o, next, "unlogged")]
  /\ UNCHANGED <<backend, chunks, through, copies, lost>>

IngestNext == \E r \in Ingests :
  \/ CopyList(r) \/ ReplaceList(r)
  \/ Begin(r) \/ Insert(r) \/ Commit(r) \/ Merge(r) \/ StoringFails(r)
  \/ Log(r)

IngestSpec == IngestInit /\ [][IngestNext]_ingestVars

-----------------------------------------------------------------------------
(* Properties.                                                             *)

HasStored(r) == doing[r] \in {"logging", "unlogged", "answered"}

\* The first n rows of a request are in a list, or rows that replaced them.
Backed(list, r, n) ==
  \A k \in 1 .. n :
    LET row == list[Batches[r][k]]
    IN  row # NoChunk /\ (row[1] = r => row[2] >= k)

\* docs/implementation.md: ingestion also writes an update event.  Before the
\* first event of a request the whole of it is in the store, and stays there
\* whatever other requests do meanwhile and wherever they fail: under each of
\* its ids is its own row, the last it gave, or that of another request; unless
\* a stale list of the local backend has replaced it.
EventsAreBacked ==
  \A r \in Ingests : HasStored(r) =>
    \A k \in 1 .. Len(Batches[r]) :
      LET row == chunks[Batches[r][k]]
      IN  \/ Batches[r][k] \in lost
          \/ row # NoChunk /\ (row[1] = r => row[2] >= k)

\* Of a batch the first n rows are in the store, or rows that replaced them,
\* and none after.
Left(r, n) ==
  /\ Backed(chunks, r, n)
  /\ \A id \in ChunkIds :
       LET row == chunks[id]
       IN  row # NoChunk => (row[1] = r => row[2] <= n)

\* How many rows may be in the store before a request has them all.
Partial(r) ==
  CASE backend = "local"   -> {0}
    [] backend = "vectors" ->
         IF doing[r] = "unstored" THEN {0, Len(Batches[r])} ELSE {0}
    [] backend = "graph"   -> 0 .. Len(Batches[r])

\* What a request leaves behind when storing its rows fails: nothing in memory;
\* in Postgres nothing, or the whole batch where the commit took effect and its
\* reply was lost; in the graph the first rows of the batch up to some one, and
\* none after.  Until then, and while it succeeds, no more of it shows.
FailuresArePrefixes ==
  \A r \in Ingests : ~HasStored(r) => \E n \in Partial(r) : Left(r, n)

-----------------------------------------------------------------------------
(* The inductive invariant (RequestsProofs).                               *)

Doings == {"idle", "storing", "logging", "answered", "unstored", "unlogged"}

\* Every row is in a list under its own id.
Lists(list) ==
  /\ list = [id \in ChunkIds |-> list[id]]
  /\ \A id \in ChunkIds : list[id] \in RowsOf(id) \cup {NoChunk}

\* A list about to replace the store holds the rows of its request and others
\* that were in the store.
CopiesAreFit ==
  \A r \in Ingests : backend = "local" /\ doing[r] = "storing" =>
    /\ Lists(copies[r]) /\ Backed(copies[r], r, Len(Batches[r]))
    /\ \A id \in Own(r) : copies[r][id][1] = r
    /\ \A id \in ChunkIds : copies[r][id] # NoChunk =>
         copies[r][id][1] = r \/ HasStored(copies[r][id][1])

IngestInv ==
  /\ backend \in Backends
  /\ doing \in [Ingests -> Doings]
  /\ through \in [Ingests -> Nat] /\ \A r \in Ingests : through[r] <= Len(Batches[r])
  /\ Lists(chunks)
  /\ copies = [r \in Ingests |-> copies[r]]
  /\ CopiesAreFit
  /\ backend = "graph" => \A r \in Ingests : Left(r, through[r])
  /\ EventsAreBacked /\ FailuresArePrefixes
=============================================================================
