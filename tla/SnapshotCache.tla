--------------------------- MODULE SnapshotCache ---------------------------
(***************************************************************************)
(* What the exporter promises a scrape: the latest complete result of each *)
(* dataset that is not too old, all looked up at one moment, whatever is   *)
(* fetched or published while the scrape is answered.                      *)
(***************************************************************************)
EXTENDS Integers

CONSTANTS
  Datasets,
  Scrapers,
  Results,   \* results of a dataset, numbered in the order they are fetched
  MaxAge     \* a result older than this is not shown

VARIABLES
  now,
  result,    \* the latest complete result of each dataset, 0 before the first
  since,     \* when that result was published
  view       \* what each scrape shows: pairs of a dataset and a result

cacheVars == <<now, result, since, view>>

CacheInit ==
  /\ now = 1
  /\ result = [k \in Datasets |-> 0]
  /\ since = [k \in Datasets |-> 0]
  /\ view = [s \in Scrapers |-> {}]

Pass ==
  /\ now' = now + 1
  /\ UNCHANGED <<result, since, view>>

(* A newer result replaces the one before. *)
Publish(k) ==
  /\ \E r \in Results : r > result[k] /\ result' = [result EXCEPT ![k] = r]
  /\ since' = [since EXCEPT ![k] = now]
  /\ UNCHANGED <<now, view>>

Scrape(s) ==
  /\ view[s] = {}
  /\ view' = [view EXCEPT ![s] =
       {<<k, result[k]>> :
          k \in {d \in Datasets : result[d] # 0 /\ now - since[d] <= MaxAge}}]
  /\ UNCHANGED <<now, result, since>>

CacheNext ==
  \/ Pass
  \/ \E k \in Datasets : Publish(k)
  \/ \E s \in Scrapers : Scrape(s)

CacheSpec == CacheInit /\ [][CacheNext]_cacheVars

=============================================================================
