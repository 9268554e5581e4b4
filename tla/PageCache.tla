----------------------------- MODULE PageCache -----------------------------
(***************************************************************************)
(* The page fetcher behind web search (internal/webfetch): concurrent      *)
(* calls of FetchAll, one per query that executeWebSearches runs           *)
(* (app/messages/websearch.go), over one LRU cache with expiry that all    *)
(* requests share.  Every page of a call is fetched by a goroutine of its  *)
(* own, a few at a time; the cache's mutex is not held while it downloads. *)
(***************************************************************************)
EXTENDS SequencesExt, FiniteSets

CONSTANTS
  Calls,        \* calls of FetchAll
  URLs,
  MaxURLs,      \* pages of one call (-web-search-fetch)
  concurrency,  \* pages of one call fetched at a time
  MaxEntries,   \* entries of the cache
  TTL,          \* how long an entry is served
  Timeout,      \* a download ends within this time
  MaxTime       \* bound: the clock

ASSUME PageCacheAssumption ==
  /\ {MaxURLs, TTL, Timeout, MaxTime} \subseteq Nat
  /\ {concurrency, MaxEntries} \subseteq Nat \ {0}

VARIABLES
  now,
  ll,      \* the entries, most recently used first
  items,   \* the keys that are indexed
  urls,    \* what each call asks for
  at,      \* where each of its goroutines is
  began,   \* when its download began
  pages    \* what each call has so far

pageVars == <<now, ll, items, urls, at, began, pages>>

NoPage == [url |-> "", born |-> 0, err |-> FALSE]

\* A page that could not be fetched keeps its URL.
Failure(url) == [url |-> url, born |-> 0, err |-> TRUE]

Seqs(n) == UNION {[1..k -> URLs] : k \in 1..n}

Place(url)   == CHOOSE i \in DOMAIN ll : ll[i].key = url
EntryOf(url) == ll[Place(url)]
Without(url) == RemoveAt(ll, Place(url))

Fetches == {f \in Calls \X (1..MaxURLs) : f[2] \in DOMAIN urls[f[1]]}

Go(f, place) == at' = [at EXCEPT ![f[1]][f[2]] = place]

Url(f) == urls[f[1]][f[2]]

\* The goroutine of urls[i] writes pages[i], ends and frees its place for the next.
Finish(f, page) ==
  /\ Go(f, "done")
  /\ pages' = [pages EXCEPT ![f[1]][f[2]] = page]

-----------------------------------------------------------------------------
(* The cache, each operation under its mutex *)

\* A hit renews the entry's lease.
Hit_Renews(url) ==
  ll' = <<[EntryOf(url) EXCEPT !.expires = now + TTL]>> \o Without(url)

Hit(url) == ll' = <<EntryOf(url)>> \o Without(url)

get(f) ==
  /\ at[f[1]][f[2]] = "look"
  /\ LET url == Url(f)
     IN IF url \notin items
          THEN Go(f, "fetch") /\ began' = [began EXCEPT ![f[1]][f[2]] = now]
               /\ UNCHANGED <<ll, items, pages>>
        ELSE IF now > EntryOf(url).expires
          THEN Go(f, "fetch") /\ began' = [began EXCEPT ![f[1]][f[2]] = now]
               /\ ll' = Without(url) /\ items' = items \ {url} /\ UNCHANGED pages
        ELSE Hit(url) /\ Finish(f, EntryOf(url).page) /\ UNCHANGED <<items, began>>
  /\ UNCHANGED <<now, urls>>

\* The entry falls out of the list and stays in the index.
Evict_KeepsIndex(entries, keys) ==
  IF Len(entries) > MaxEntries
    THEN ll' = SubSeq(entries, 1, MaxEntries) /\ items' = keys
    ELSE ll' = entries /\ items' = keys

Evict(entries, keys) ==
  IF Len(entries) > MaxEntries
    THEN /\ ll' = SubSeq(entries, 1, MaxEntries)
         /\ items' = keys \ {entries[Len(entries)].key}
    ELSE ll' = entries /\ items' = keys

put(f) ==
  /\ at[f[1]][f[2]] = "store"
  /\ LET url == Url(f)
         page == [url |-> url, born |-> began[f[1]][f[2]], err |-> FALSE]
         entry == [key |-> url, page |-> page, expires |-> now + TTL]
     IN /\ IF url \in items
             THEN ll' = <<entry>> \o Without(url) /\ UNCHANGED items
             ELSE Evict(<<entry>> \o ll, items \cup {url})
        /\ Finish(f, page)
  /\ UNCHANGED <<now, urls, began>>

-----------------------------------------------------------------------------
(* FetchAll and fetch *)

\* A download that failed keeps its place in the semaphore.
Running_CountsFailed(c) ==
  Cardinality({i \in DOMAIN urls[c] : at[c][i] \in {"look", "fetch", "store"} \/ pages[c][i].err})

Running(c) == Cardinality({i \in DOMAIN urls[c] : at[c][i] \in {"look", "fetch", "store"}})

\* sem <- struct{}{}: the goroutines of a call start in any order.
Acquire(f) ==
  /\ at[f[1]][f[2]] = "queued" /\ Running(f[1]) < concurrency
  /\ Go(f, "look")
  /\ UNCHANGED <<now, ll, items, urls, began, pages>>

\* The download succeeds, or fails and is not cached.
fetchRemote(f) ==
  /\ at[f[1]][f[2]] = "fetch"
  /\ \/ Go(f, "store") /\ UNCHANGED pages
     \/ Finish(f, Failure(Url(f)))
  /\ UNCHANGED <<now, ll, items, urls, began>>

\* The client's timeout bounds a download.
Tick ==
  /\ now < MaxTime
  /\ \A f \in Fetches : at[f[1]][f[2]] \in {"fetch", "store"} => now < began[f[1]][f[2]] + Timeout
  /\ now' = now + 1
  /\ UNCHANGED <<ll, items, urls, at, began, pages>>

PageInit ==
  /\ now = 0 /\ ll = <<>> /\ items = {}
  /\ urls \in [Calls -> Seqs(MaxURLs)]
  /\ at = [c \in Calls |-> [i \in DOMAIN urls[c] |-> "queued"]]
  /\ began = [c \in Calls |-> [i \in DOMAIN urls[c] |-> 0]]
  /\ pages = [c \in Calls |-> [i \in DOMAIN urls[c] |-> NoPage]]

FetchStep == \E f \in Fetches : Acquire(f) \/ get(f) \/ fetchRemote(f) \/ put(f)

\* wg.Wait returns: every goroutine of the call has ended.
Returned(c) == \A i \in DOMAIN urls[c] : at[c][i] = "done"

PageDone == (\A c \in Calls : Returned(c)) /\ UNCHANGED pageVars

PageNext == FetchStep \/ Tick \/ PageDone

\* Goroutines run, and a download ends at its timeout.
PageSpec == PageInit /\ [][PageNext]_pageVars /\ WF_pageVars(FetchStep)

-----------------------------------------------------------------------------
(* Properties *)

\* List and index of the cache agree, hold a page under its own URL once, and stay within the
\* limit, whatever fetches of one page overtake each other.
CacheConsistent ==
  /\ items = {ll[i].key : i \in DOMAIN ll}
  /\ Cardinality(items) = Len(ll) /\ Len(ll) <= MaxEntries
  /\ \A i \in DOMAIN ll : ll[i].page.url = ll[i].key

\* The i-th result of a call is the i-th page it asked for, or that page's failure, and was
\* asked of its origin no longer ago than the lease and one download, also if an older download
\* is stored over a newer one or the page is served again and again.
PageServed ==
  [][\A f \in Fetches :
       at[f[1]][f[2]] # "done" /\ at'[f[1]][f[2]] = "done" =>
         LET page == pages'[f[1]][f[2]]
         IN page.url = Url(f) /\ (page.err \/ now <= page.born + TTL + Timeout)]_pageVars

\* Every call returns, however many of its downloads fail.
FetchesEnd == <>(\A c \in Calls : Returned(c))

=============================================================================
