----------------------------- MODULE SearchIndex -----------------------------
(***************************************************************************)
(* The document of one product in Elasticsearch.  product.changed events   *)
(* come at least once and in any order; a handler reads the row and writes  *)
(* the document, several at a time, and a backfill does so without events. *)
(* The row's updated_at, in seconds, is the document's external version.   *)
(***************************************************************************)
EXTENDS Setbacks, FiniteSets

CONSTANTS Indexers,  \* consumers, and the backfill
          MaxEdits   \* bound: writes of the row

ASSUME IndexAssumption == IsFiniteSet(Indexers) /\ MaxEdits \in Nat \ {0}

VARIABLES
  entry,    \* the row: its text (0: there is none), updated_at
  document, \* what is indexed of it; tomb: what the last deletion has left
  changes,  \* events on their way
  indexer   \* handlers and the backfill

indexVars == <<entry, document, changes, indexer, setbacks>>

Snapshots == [text : 0..MaxEdits, at : 0..MaxEdits]
NoEntry     == [text |-> 0, at |-> 0]
IdleIndexer == [at |-> "idle", of |-> "backfill", saw |-> NoEntry]

IndexTypeOK ==
  /\ entry \in Snapshots
  /\ document \in [text : 0..MaxEdits, at : 0..MaxEdits, tomb : {"none", "kept", "weak"}]
  /\ changes \in [{"upsert", "delete"} -> 0..MaxEdits]
  /\ indexer \in [Indexers -> [at : {"idle", "loads", "upserts", "deletes"},
                               of : {"upsert", "delete", "backfill"}, saw : Snapshots]]

IndexInit ==
  /\ entry = NoEntry /\ document = [text |-> 0, at |-> 0, tomb |-> "none"]
  /\ changes = [op \in {"upsert", "delete"} |-> 0]
  /\ indexer = [i \in Indexers |-> IdleIndexer]

-----------------------------------------------------------------------------
\* The row and its event are written in one transaction; the id is not used again.
CreateEntry ==
  /\ entry.at = 0 /\ entry' = [text |-> 1, at |-> 1] /\ changes' = [changes EXCEPT !["upsert"] = @ + 1]
  /\ UNCHANGED <<document, indexer, setbacks>>

UpdateEntry ==
  /\ entry.text \in 1..(MaxEdits - 1)
  /\ \/ Smooth /\ entry' = [text |-> entry.text + 1, at |-> entry.at + 1]
     \/ Setback /\ entry' = [entry EXCEPT !.text = @ + 1]       \* within the same second
  /\ changes' = [changes EXCEPT !["upsert"] = @ + 1]
  /\ UNCHANGED <<document, indexer>>

DeleteEntry ==
  /\ entry.text > 0 /\ entry' = [entry EXCEPT !.text = 0]
  /\ changes' = [changes EXCEPT !["delete"] = @ + 1]
  /\ UNCHANGED <<document, indexer, setbacks>>

-----------------------------------------------------------------------------
IndexerAt(i, at) ==
  indexer' = [indexer EXCEPT ![i] = IF at = "idle" THEN IdleIndexer
                                    ELSE [indexer[i] EXCEPT !.at = at]]

HandleProductChanged(i, op) ==
  /\ indexer[i].at = "idle" /\ changes[op] > 0
  /\ changes' = [changes EXCEPT ![op] = @ - 1]
  /\ indexer' = [indexer EXCEPT ![i] = [IdleIndexer EXCEPT !.of = op,
                                         !.at = IF op = "delete" THEN "deletes" ELSE "loads"]]
  /\ UNCHANGED <<entry, document, setbacks>>

\* A page of the backfill; the process allows one at a time.
BackfillFromDB(i) ==
  /\ indexer[i].at = "idle" /\ entry.text > 0
  /\ \A j \in Indexers : indexer[j].at = "idle" \/ indexer[j].of # "backfill"
  /\ indexer' = [indexer EXCEPT ![i] = [at |-> "upserts", of |-> "backfill", saw |-> entry]]
  /\ UNCHANGED <<entry, document, changes, setbacks>>

\* A row that is gone is deleted whatever the event says.
LoadEntry(i) ==
  /\ indexer[i].at = "loads"
  /\ IF entry.text = 0 THEN IndexerAt(i, "deletes")
     ELSE indexer' = [indexer EXCEPT ![i] = [indexer[i] EXCEPT !.at = "upserts", !.saw = entry]]
  /\ UNCHANGED <<entry, document, changes, setbacks>>

\* Mutant: the document is written whatever version is there.
MutNoConflict(saw) == TRUE

\* external_gte.  A deletion has no external version: the tombstone's is the
\* document's plus one, which is less than the next second's.
NoConflict(saw) == IF document.text = 0 THEN saw.at > document.at ELSE saw.at >= document.at

\* A conflict (409) is as good as a write.
Upserted(saw) ==
  IF NoConflict(saw) THEN [document EXCEPT !.text = saw.text, !.at = saw.at] ELSE document

\* The deletion of a document that is not there (404) leaves the lowest of all
\* versions; that of an old one does not stop a newer one already read.
Tombstone ==
  LET found  == document.text > 0 \/ document.tomb = "kept"
      outrun == \E j \in Indexers : indexer[j].at = "upserts" /\ indexer[j].saw.at > document.at
  IN [document EXCEPT !.text = 0, !.tomb = IF found /\ ~outrun THEN "kept" ELSE "weak"]

Writes(i) ==
  \/ indexer[i].at = "upserts" /\ document' = Upserted(indexer[i].saw)
  \/ indexer[i].at = "deletes" /\ document' = Tombstone

UpsertProduct(i) ==
  /\ indexer[i].at = "upserts" /\ Writes(i)
  /\ IndexerAt(i, "idle") /\ UNCHANGED <<entry, changes, setbacks>>

DeleteProduct(i) ==
  /\ indexer[i].at = "deletes" /\ Writes(i)
  /\ IndexerAt(i, "idle") /\ UNCHANGED <<entry, changes, setbacks>>

\* An error or a death, before or after the write: the event comes again; the
\* backfill passes over the product.
IndexerFails(i) ==
  LET of == indexer[i].of IN
  /\ indexer[i].at # "idle" /\ IndexerAt(i, "idle")
  /\ UNCHANGED document \/ Writes(i)
  /\ changes' = IF of = "backfill" THEN changes ELSE [changes EXCEPT ![of] = @ + 1]
  /\ UNCHANGED <<entry, setbacks>>

TombstoneForgotten ==
  /\ document.text = 0 /\ document.tomb = "kept" /\ Setback
  /\ document' = [document EXCEPT !.at = 0, !.tomb = "weak"]
  /\ UNCHANGED <<entry, changes, indexer>>

IndexNext ==
  \/ CreateEntry \/ UpdateEntry \/ DeleteEntry \/ TombstoneForgotten
  \/ \E i \in Indexers : \/ HandleProductChanged(i, "upsert") \/ HandleProductChanged(i, "delete")
                         \/ BackfillFromDB(i) \/ LoadEntry(i) \/ UpsertProduct(i)
                         \/ DeleteProduct(i) \/ IndexerFails(i)

IndexSpec == IndexInit /\ SetbacksInit /\ [][IndexNext]_indexVars

-----------------------------------------------------------------------------
(* Properties *)

Settled == (\A op \in DOMAIN changes : changes[op] = 0) /\ (\A i \in Indexers : indexer[i].at = "idle")

\* Whatever order events, retries, several consumers and a backfill come in, what
\* is found by searching is the row, once all is handled: when its updates are a
\* second apart and the last deletion found the document, not older than what an
\* upsert on its way had read, and its tombstone is remembered.
IndexFollows == Settled /\ setbacks = 0 /\ document.tomb # "weak" => document.text = entry.text

\* Without those conditions it is not so: two updates of one second have one
\* version, a document first written after its deletion stays, and so does one
\* that was read before the deletion and is newer than what the deletion found.
IndexAlwaysFollows == Settled => document.text = entry.text
=============================================================================
