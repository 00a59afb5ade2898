---------------------------- MODULE ProductCache ----------------------------
(***************************************************************************)
(* The details of one product: the row, its cache-aside copy in Redis and  *)
(* the markers of products that do not exist.  Edits delete the copy twice, *)
(* the second time 500 ms later, in a goroutine of their process.  The     *)
(* number in stock is part of the copy, but payment and restock change it  *)
(* without a deletion: what is followed here is what the seller edits.     *)
(***************************************************************************)
EXTENDS Setbacks, FiniteSets

CONSTANTS Shoppers,  \* loads of the details, one per process and product
          Editors,   \* the seller's requests
          MaxText    \* bound: versions of the details

ASSUME CacheAssumption == MaxText \in Nat \ {0}

\* Versions of the details are numbered from 1.
Absent == 0    \* no row; in the cache, the marker of that
Miss   == -1   \* no key

VARIABLES
  item,    \* the row: its text, and whether the product was ever created
  detail,  \* product:detail:<id>
  flight,  \* loads
  edit     \* requests; awaits: the loads that had read the row when it was written

cacheVars == <<item, detail, flight, edit, setbacks>>

IdleEdit == [at |-> "idle", awaits |-> {}]

CacheTypeOK ==
  /\ item \in [text : Absent..MaxText, born : BOOLEAN]
  /\ detail \in Miss..MaxText
  /\ flight \in [Shoppers -> [at : {"idle", "loads", "stores"}, saw : Absent..MaxText]]
  /\ edit \in [Editors -> [at : {"idle", "updates", "created", "deleted", "second"},
                           awaits : SUBSET Shoppers]]

CacheInit ==
  /\ item = [text |-> Absent, born |-> FALSE] /\ detail = Miss
  /\ flight = [s \in Shoppers |-> [at |-> "idle", saw |-> Absent]]
  /\ edit = [m \in Editors |-> IdleEdit]

-----------------------------------------------------------------------------
(* ProductShow *)

\* The lock in Redis keeps no load from the database: who does not get it
\* looks at the cache again and loads; one process has one load at a time.
GetProductDetail(s) ==
  /\ flight[s].at = "idle"
  /\ \/ detail = Miss /\ Smooth
     \/ detail # Miss /\ Setback          \* Redis does not answer
  /\ flight' = [flight EXCEPT ![s].at = "loads"]
  /\ UNCHANGED <<item, detail, edit>>

LoadProduct(s) ==
  /\ flight[s].at = "loads"
  /\ \/ Smooth /\ flight' = [flight EXCEPT ![s] = [at |-> "stores", saw |-> item.text]]
     \/ Setback /\ flight' = [flight EXCEPT ![s].at = "idle"]
  /\ UNCHANGED <<item, detail, edit>>

\* SetProductDetail, or SetProductNotFound, which leaves a key that is there.
StoreDetail(s) ==
  LET saw == flight[s].saw IN
  /\ flight[s].at = "stores"
  /\ \/ Smooth /\ detail' = IF saw = Absent /\ detail # Miss THEN detail ELSE saw
     \/ Setback /\ UNCHANGED detail
  /\ flight' = [flight EXCEPT ![s] = [at |-> "idle", saw |-> Absent]]
  /\ edit' = [m \in Editors |-> [edit[m] EXCEPT !.awaits = @ \ {s}]]
  /\ UNCHANGED item

DetailExpires == detail # Miss /\ detail' = Miss /\ UNCHANGED <<item, flight, edit, setbacks>>

-----------------------------------------------------------------------------
(* ProductCreate, ProductUpdate, ProductDelete *)

EditAt(m, at) == edit' = [edit EXCEPT ![m] = [at |-> at, awaits |->
  IF at \in {"deleted", "second"} THEN @.awaits \cup {s \in Shoppers : flight[s].at = "stores"} ELSE {}]]

DelProductDetail == (Smooth /\ detail' = Miss) \/ (Setback /\ UNCHANGED detail)

CreateProduct(m) ==
  /\ edit[m].at = "idle" /\ ~item.born /\ Smooth
  /\ item' = [text |-> 1, born |-> TRUE] /\ EditAt(m, "created")
  /\ UNCHANGED <<detail, flight>>

\* An update deletes the copy before it writes and 500 ms after it has.
UpdateBegins(m) ==
  /\ edit[m].at = "idle" /\ item.born
  /\ DelProductDetail /\ EditAt(m, "updates") /\ UNCHANGED <<item, flight>>

UpdateProduct(m) ==
  /\ edit[m].at = "updates"
  /\ \/ /\ item.text \notin {Absent, MaxText} /\ Smooth
        /\ item' = [item EXCEPT !.text = @ + 1] /\ EditAt(m, "second")
     \/ /\ (item.text = Absent /\ Smooth) \/ Setback
        /\ EditAt(m, "idle") /\ UNCHANGED item
  /\ UNCHANGED <<detail, flight>>

DeleteProductRow(m) ==
  /\ edit[m].at = "idle" /\ item.text # Absent /\ Smooth
  /\ item' = [item EXCEPT !.text = Absent] /\ EditAt(m, "deleted")
  /\ UNCHANGED <<detail, flight>>

\* The deletion after the commit; a new product's is the only one.
DeletesDetail(m) ==
  /\ edit[m].at \in {"created", "deleted"} /\ DelProductDetail
  /\ EditAt(m, IF edit[m].at = "created" THEN "idle" ELSE "second")
  /\ UNCHANGED <<item, flight>>

\* The loads that had read the old row have stored it within the 500 ms.
Waited(m) == edit[m].awaits = {}

\* The second deletion is dropped when too many wait, and with its process.
DoubleDelete(m) ==
  /\ edit[m].at = "second"
  /\ \/ Waited(m) /\ Smooth /\ detail' = Miss
     \/ Setback /\ (detail' = Miss \/ UNCHANGED detail)
  /\ EditAt(m, "idle") /\ UNCHANGED <<item, flight>>

EditorDies(m) ==
  /\ edit[m].at # "idle" /\ Setback /\ EditAt(m, "idle") /\ UNCHANGED <<item, detail, flight>>

CacheNext ==
  \/ \E s \in Shoppers : GetProductDetail(s) \/ LoadProduct(s) \/ StoreDetail(s)
  \/ \E m \in Editors : \/ CreateProduct(m) \/ UpdateBegins(m) \/ UpdateProduct(m)
                        \/ DeleteProductRow(m) \/ DeletesDetail(m) \/ DoubleDelete(m)
                        \/ EditorDies(m)
  \/ DetailExpires

CacheSpec == CacheInit /\ SetbacksInit /\ [][CacheNext]_cacheVars

-----------------------------------------------------------------------------
(* Properties *)

\* However loads and edits interleave, once the second deletion of every edit is
\* done, no details but the current ones are in the cache: when no load takes
\* longer than the deletion waits, and nothing fails.
DetailFollows ==
  setbacks = 0 /\ (\A m \in Editors : edit[m].at \notin {"deleted", "second"})
    => detail \in {Miss, Absent, item.text}

\* What the comment in ProductCreate promises, a product that is seen at once, is
\* not so: a load that read before the commit leaves its marker after the deletion.
NewProductIsSeen ==
  setbacks = 0 /\ item.text # Absent /\ (\A m \in Editors : edit[m].at = "idle")
    => detail # Absent
=============================================================================
