--------------------------- MODULE PageCacheProofs ---------------------------
(***************************************************************************)
(* Theorems about PageCache, for any number of calls, pages and entries    *)
(* and any lease and timeout.                                              *)
(***************************************************************************)
EXTENDS PageCache, SequenceTheorems, FunctionTheorems, FiniteSetTheorems, TLAPS

Page  == [url : URLs \cup {""}, born : Nat, err : BOOLEAN]
Entry == [key : URLs, page : Page, expires : Nat]

Places == {"queued", "look", "fetch", "store", "done"}

(***************************************************************************)
(* The cache itself: no key twice, the index is the set of keys, a page is *)
(* held under its own URL, and its lease began at most one download after  *)
(* it was asked of its origin.                                             *)
(***************************************************************************)
Held(l, keys) ==
  /\ l \in Seq(Entry)
  /\ keys = {l[i].key : i \in 1..Len(l)}
  /\ \A i, j \in 1..Len(l) : l[i].key = l[j].key => i = j
  /\ \A i \in 1..Len(l) : l[i].page.url = l[i].key /\ l[i].expires <= l[i].page.born + TTL + Timeout

CacheOK == Held(ll, items) /\ Len(ll) <= MaxEntries

FetchesOK ==
  /\ now \in Nat
  /\ urls \in [Calls -> Seqs(MaxURLs)]
  /\ at \in [Calls -> UNION {[1..k -> Places] : k \in 1..MaxURLs}]
  /\ began \in [Calls -> UNION {[1..k -> Nat] : k \in 1..MaxURLs}]
  /\ pages \in [Calls -> UNION {[1..k -> Page] : k \in 1..MaxURLs}]
  /\ \A c \in Calls : /\ DOMAIN at[c] = DOMAIN urls[c]
                      /\ DOMAIN began[c] = DOMAIN urls[c]
                      /\ DOMAIN pages[c] = DOMAIN urls[c]

\* A download under way is not older than the client's timeout.
Downloads ==
  \A f \in Fetches : at[f[1]][f[2]] \in {"fetch", "store"} =>
    began[f[1]][f[2]] <= now /\ now <= began[f[1]][f[2]] + Timeout

PageInv == CacheOK /\ FetchesOK /\ Downloads

-----------------------------------------------------------------------------
(* The list operations *)

\* Where a held page stands.
LEMMA PlaceOf ==
  ASSUME CacheOK, NEW url \in items
  PROVE  /\ Place(url) \in 1..Len(ll) /\ ll[Place(url)].key = url
         /\ \A i \in 1..Len(ll) : ll[i].key = url => i = Place(url)
<1>1. DOMAIN ll = 1..Len(ll) /\ \E i \in DOMAIN ll : ll[i].key = url
  BY LenProperties DEF CacheOK, Held
<1>2. Place(url) \in DOMAIN ll /\ ll[Place(url)].key = url
  BY <1>1 DEF Place
<1>. QED
  BY <1>1, <1>2 DEF CacheOK, Held

\* Removing one entry of a list closes the gap.
LEMMA Removed ==
  ASSUME NEW l \in Seq(Entry), NEW p \in 1..Len(l)
  PROVE  /\ RemoveAt(l, p) \in Seq(Entry)
         /\ Len(RemoveAt(l, p)) = Len(l) - 1
         /\ \A i \in 1..(Len(l) - 1) : RemoveAt(l, p)[i] = l[IF i < p THEN i ELSE i + 1]
<1> DEFINE s == SubSeq(l, 1, p - 1)
           t == SubSeq(l, p + 1, Len(l))
<1>1. Len(l) \in Nat /\ p \in Nat /\ 1 <= p /\ p <= Len(l)
  BY LenProperties
<1>2. \A i \in 1..Len(l) : l[i] \in Entry
  BY ElementOfSeq
<1>3. /\ s \in Seq(Entry) /\ Len(s) = p - 1
      /\ \A i \in 1..(p - 1) : s[i] = l[i]
  <2>1. \A i \in 1..(p - 1) : l[i] \in Entry
    BY <1>1, <1>2
  <2>. QED
    BY <1>1, <2>1, SubSeqProperties
<1>4. /\ t \in Seq(Entry) /\ Len(t) = Len(l) - p
      /\ \A i \in 1..(Len(l) - p) : t[i] = l[p + i]
  <2>1. \A i \in (p + 1)..Len(l) : l[i] \in Entry
    BY <1>1, <1>2
  <2>. QED
    BY <1>1, <2>1, SubSeqProperties
<1> HIDE DEF s, t
<1>5. /\ s \o t \in Seq(Entry) /\ Len(s \o t) = Len(l) - 1
      /\ \A i \in 1..(Len(l) - 1) : (s \o t)[i] = IF i <= p - 1 THEN s[i] ELSE t[i - (p - 1)]
  <2>1. Len(s) + Len(t) = Len(l) - 1
    BY <1>1, <1>3, <1>4
  <2>2. /\ s \o t \in Seq(Entry) /\ Len(s \o t) = Len(s) + Len(t)
        /\ \A i \in 1..(Len(s) + Len(t)) : (s \o t)[i] = IF i <= Len(s) THEN s[i] ELSE t[i - Len(s)]
    BY <1>3, <1>4, ConcatProperties
  <2>. QED
    BY <1>3, <2>1, <2>2
<1>6. ASSUME NEW i \in 1..(Len(l) - 1) PROVE (s \o t)[i] = l[IF i < p THEN i ELSE i + 1]
  <2>1. CASE i < p
    BY <1>1, <1>3, <1>5, <2>1
  <2>2. CASE ~(i < p)
    <3>1. i - (p - 1) \in 1..(Len(l) - p) /\ p + (i - (p - 1)) = i + 1
      BY <1>1, <2>2
    <3>. QED
      BY <1>1, <1>4, <1>5, <2>2, <3>1
  <2>. QED
    BY <2>1, <2>2
<1>. QED
  BY <1>5, <1>6 DEF RemoveAt, s, t

\* Removing the entry of a key removes the key and keeps the rest.
LEMMA HeldWithout ==
  ASSUME CacheOK, NEW url \in items
  PROVE  /\ Held(Without(url), items \ {url}) /\ Len(Without(url)) = Len(ll) - 1
<1>1. /\ ll \in Seq(Entry) /\ Len(ll) \in Nat
      /\ items = {ll[i].key : i \in 1..Len(ll)}
      /\ \A i, j \in 1..Len(ll) : ll[i].key = ll[j].key => i = j
  BY LenProperties DEF CacheOK, Held
<1> DEFINE p == Place(url)
           v == Without(url)
           from(i) == IF i < p THEN i ELSE i + 1
<1>2. p \in 1..Len(ll) /\ \A i \in 1..Len(ll) : ll[i].key = url <=> i = p
  BY PlaceOf
<1>3. /\ v \in Seq(Entry) /\ Len(v) = Len(ll) - 1
      /\ \A i \in 1..(Len(ll) - 1) : v[i] = ll[from(i)]
  BY <1>1, <1>2, Removed DEF Without
<1> HIDE DEF p, v
<1>4. /\ \A i \in 1..(Len(ll) - 1) : from(i) \in 1..Len(ll) /\ from(i) # p
      /\ \A i, j \in 1..(Len(ll) - 1) : from(i) = from(j) => i = j
      /\ \A k \in 1..Len(ll) : k # p => \E i \in 1..(Len(ll) - 1) : k = from(i)
  <2>1. \A k \in 1..Len(ll) : k # p =>
          IF k < p THEN k \in 1..(Len(ll) - 1) /\ k = from(k)
                   ELSE k - 1 \in 1..(Len(ll) - 1) /\ k = from(k - 1)
    BY <1>1, <1>2
  <2>. QED
    BY <1>1, <1>2, <2>1, SMTT(30)
<1> HIDE DEF from
<1>5. items \ {url} = {v[i].key : i \in 1..Len(v)}
  <2>1. ASSUME NEW k \in items \ {url} PROVE \E i \in 1..Len(v) : v[i].key = k
    <3>1. PICK j \in 1..Len(ll) : ll[j].key = k /\ j # p
      BY <1>1, <1>2
    <3>2. PICK i \in 1..(Len(ll) - 1) : j = from(i)
      BY <1>4, <3>1
    <3>. QED
      BY <1>3, <3>1, <3>2
  <2>2. ASSUME NEW i \in 1..Len(v) PROVE v[i].key \in items \ {url}
    BY <1>1, <1>2, <1>3, <1>4
  <2>. QED
    BY <2>1, <2>2
<1>6. \A i, j \in 1..Len(v) : v[i].key = v[j].key => i = j
  BY <1>1, <1>3, <1>4
<1>7. \A i \in 1..Len(v) : v[i].page.url = v[i].key /\ v[i].expires <= v[i].page.born + TTL + Timeout
  BY <1>3, <1>4 DEF CacheOK, Held
<1>. QED
  BY <1>3, <1>5, <1>6, <1>7 DEF Held, v

\* An entry of a new key goes to the front.
LEMMA HeldFront ==
  ASSUME NEW l, NEW keys, Held(l, keys), NEW e \in Entry, e.key \notin keys,
         e.page.url = e.key, e.expires <= e.page.born + TTL + Timeout
  PROVE  Held(<<e>> \o l, keys \cup {e.key}) /\ Len(<<e>> \o l) = Len(l) + 1
<1> DEFINE v == <<e>> \o l
<1>1. /\ l \in Seq(Entry) /\ Len(l) \in Nat
      /\ keys = {l[i].key : i \in 1..Len(l)}
      /\ \A i, j \in 1..Len(l) : l[i].key = l[j].key => i = j
      /\ \A i \in 1..Len(l) : l[i].page.url = l[i].key /\ l[i].expires <= l[i].page.born + TTL + Timeout
  BY LenProperties DEF Held
<1>2. <<e>> \in Seq(Entry) /\ Len(<<e>>) = 1 /\ <<e>>[1] = e
  OBVIOUS
<1>3. /\ v \in Seq(Entry) /\ Len(v) = Len(l) + 1
      /\ \A i \in 1..(Len(l) + 1) : v[i] = IF i <= 1 THEN <<e>>[i] ELSE l[i - 1]
  BY <1>1, <1>2, ConcatProperties
<1> HIDE DEF v
<1>4. /\ v[1] = e /\ 1 \in 1..Len(v)
      /\ \A i \in 2..(Len(l) + 1) : v[i] = l[i - 1] /\ i - 1 \in 1..Len(l)
  BY <1>1, <1>2, <1>3
<1>5. \A i \in 1..Len(v) : i = 1 \/ i \in 2..(Len(l) + 1)
  BY <1>1, <1>3
<1>6. keys \cup {e.key} = {v[i].key : i \in 1..Len(v)}
  <2>1. ASSUME NEW k \in keys PROVE \E i \in 1..Len(v) : v[i].key = k
    <3>1. PICK j \in 1..Len(l) : l[j].key = k
      BY <1>1
    <3>2. v[j + 1] = l[j] /\ j + 1 \in 1..Len(v)
      BY <1>1, <1>3, <1>4
    <3>. QED
      BY <3>1, <3>2
  <2>2. ASSUME NEW i \in 1..Len(v) PROVE v[i].key \in keys \cup {e.key}
    BY <1>1, <1>4, <1>5
  <2>. QED
    BY <1>4, <2>1, <2>2
<1>7. ASSUME NEW i \in 1..Len(v), NEW j \in 1..Len(v), v[i].key = v[j].key PROVE i = j
  <2>1. \A m \in 2..(Len(l) + 1) : v[m].key \in keys
    BY <1>1, <1>4
  <2>2. i \in 2..(Len(l) + 1) /\ j \in 2..(Len(l) + 1) => i - 1 = j - 1
    BY <1>1, <1>4, <1>7
  <2>3. i = 1 <=> j = 1
    BY <1>4, <1>5, <1>7, <2>1
  <2>. QED
    BY <1>5, <2>2, <2>3
<1>8. \A i \in 1..Len(v) : v[i].page.url = v[i].key /\ v[i].expires <= v[i].page.born + TTL + Timeout
  BY <1>1, <1>4, <1>5
<1>. QED
  BY <1>3, <1>6, <1>7, <1>8 DEF Held, v

\* Dropping the last entry drops its key.
LEMMA HeldEvicted ==
  ASSUME NEW l, NEW keys, Held(l, keys), NEW n \in Nat, Len(l) = n + 1
  PROVE  Held(SubSeq(l, 1, n), keys \ {l[Len(l)].key}) /\ Len(SubSeq(l, 1, n)) = n
<1> DEFINE v == SubSeq(l, 1, n)
<1>1. /\ l \in Seq(Entry)
      /\ keys = {l[i].key : i \in 1..(n + 1)}
      /\ \A i, j \in 1..(n + 1) : l[i].key = l[j].key => i = j
      /\ \A i \in 1..(n + 1) : l[i].page.url = l[i].key /\ l[i].expires <= l[i].page.born + TTL + Timeout
  BY DEF Held
<1>2. v \in Seq(Entry) /\ Len(v) = n /\ \A i \in 1..n : v[i] = l[i]
  <2>1. \A i \in 1..n : l[i] \in Entry
    BY <1>1, ElementOfSeq
  <2>. QED
    BY <2>1, SubSeqProperties
<1> HIDE DEF v
<1>3. \A i \in 1..(n + 1) : i \in 1..n \/ i = n + 1
  OBVIOUS
<1>4. \A i \in 1..n : i \in 1..(n + 1) /\ i # n + 1
  OBVIOUS
<1>5. n + 1 \in 1..(n + 1)
  OBVIOUS
<1>6. keys \ {l[n + 1].key} = {v[i].key : i \in 1..n}
  BY <1>1, <1>2, <1>3, <1>4, <1>5
<1>. QED
  BY <1>1, <1>2, <1>4, <1>6 DEF Held, v

-----------------------------------------------------------------------------
(* Every step keeps the cache and the fetches in order. *)

Rows(T) == UNION {[1..k -> T] : k \in 1..MaxURLs}

\* One place of a call's row changes.
LEMMA RowUpdate ==
  ASSUME NEW T, NEW g \in [Calls -> Rows(T)], NEW c \in Calls, NEW i \in DOMAIN g[c], NEW x \in T
  PROVE  LET h == [g EXCEPT ![c][i] = x]
         IN /\ h \in [Calls -> Rows(T)]
            /\ \A d \in Calls : DOMAIN h[d] = DOMAIN g[d]
            /\ \A d \in Calls : \A j \in DOMAIN g[d] :
                 h[d][j] = IF d = c /\ j = i THEN x ELSE g[d][j]
<1> DEFINE h == [g EXCEPT ![c][i] = x]
           row == [g[c] EXCEPT ![i] = x]
<1>1. PICK k \in 1..MaxURLs : g[c] \in [1..k -> T]
  BY DEF Rows
<1>2. row \in [1..k -> T] /\ row[i] = x /\ \A j \in 1..k : j # i => row[j] = g[c][j]
  BY <1>1
<1>3. row \in Rows(T) /\ DOMAIN row = DOMAIN g[c]
  BY <1>1, <1>2 DEF Rows
<1>4. h = [g EXCEPT ![c] = row]
  OBVIOUS
<1> HIDE DEF h, row
<1>5. h[c] = row /\ \A d \in Calls : d # c => h[d] = g[d]
  BY <1>4
<1>6. h \in [Calls -> Rows(T)]
  BY <1>3, <1>4
<1>. QED
  BY <1>1, <1>2, <1>3, <1>5, <1>6 DEF h

LEMMA FetchTypes ==
  ASSUME FetchesOK, NEW f \in Fetches
  PROVE  /\ f[1] \in Calls /\ f[2] \in DOMAIN urls[f[1]]
         /\ f[2] \in DOMAIN at[f[1]] /\ f[2] \in DOMAIN began[f[1]] /\ f[2] \in DOMAIN pages[f[1]]
         /\ Url(f) \in URLs /\ at[f[1]][f[2]] \in Places /\ began[f[1]][f[2]] \in Nat
<1>1. f[1] \in Calls /\ f[2] \in DOMAIN urls[f[1]]
  BY DEF Fetches
<1>2. /\ \E k \in 1..MaxURLs : urls[f[1]] \in [1..k -> URLs]
      /\ \E k \in 1..MaxURLs : at[f[1]] \in [1..k -> Places]
      /\ \E k \in 1..MaxURLs : began[f[1]] \in [1..k -> Nat]
  <2>1. urls[f[1]] \in Seqs(MaxURLs) /\ at[f[1]] \in Rows(Places) /\ began[f[1]] \in Rows(Nat)
    BY <1>1 DEF FetchesOK, Rows
  <2>. QED
    BY <2>1 DEF Seqs, Rows
<1>3. f[2] \in DOMAIN at[f[1]] /\ f[2] \in DOMAIN began[f[1]] /\ f[2] \in DOMAIN pages[f[1]]
  BY <1>1 DEF FetchesOK
<1>. QED
  BY <1>1, <1>2, <1>3 DEF Url

\* A step of one fetch: what it writes keeps the rows in shape.
LEMMA GoStep ==
  ASSUME FetchesOK, NEW f \in Fetches, NEW place \in Places, Go(f, place), UNCHANGED <<urls, now>>,
         \/ began' = began
         \/ began' = [began EXCEPT ![f[1]][f[2]] = now],
         \/ pages' = pages
         \/ \E page \in Page : pages' = [pages EXCEPT ![f[1]][f[2]] = page]
  PROVE  /\ FetchesOK' /\ Fetches' = Fetches
         /\ \A g \in Fetches : at'[g[1]][g[2]] = IF g = f THEN place ELSE at[g[1]][g[2]]
         /\ \A g \in Fetches : g # f => began'[g[1]][g[2]] = began[g[1]][g[2]]
         /\ began' # began => began'[f[1]][f[2]] = now
<1>1. f[1] \in Calls /\ f[2] \in DOMAIN at[f[1]] /\ f[2] \in DOMAIN began[f[1]] /\ f[2] \in DOMAIN pages[f[1]]
  BY FetchTypes
<1>2. at \in [Calls -> Rows(Places)] /\ began \in [Calls -> Rows(Nat)] /\ pages \in [Calls -> Rows(Page)] /\ now \in Nat
  BY DEF FetchesOK, Rows
<1>3. /\ at' \in [Calls -> Rows(Places)]
      /\ \A d \in Calls : DOMAIN at'[d] = DOMAIN at[d]
      /\ \A d \in Calls : \A j \in DOMAIN at[d] :
           at'[d][j] = IF d = f[1] /\ j = f[2] THEN place ELSE at[d][j]
  BY <1>1, <1>2, RowUpdate DEF Go
<1>4. /\ began' \in [Calls -> Rows(Nat)]
      /\ \A d \in Calls : DOMAIN began'[d] = DOMAIN began[d]
      /\ \A d \in Calls : \A j \in DOMAIN began[d] : ~(d = f[1] /\ j = f[2]) => began'[d][j] = began[d][j]
      /\ began' # began => began'[f[1]][f[2]] = now
  <2>1. CASE began' = began
    BY <1>2, <2>1
  <2>2. CASE began' = [began EXCEPT ![f[1]][f[2]] = now]
    <3>1. LET h == [began EXCEPT ![f[1]][f[2]] = now]
          IN /\ h \in [Calls -> Rows(Nat)]
             /\ \A d \in Calls : DOMAIN h[d] = DOMAIN began[d]
             /\ \A d \in Calls : \A j \in DOMAIN began[d] :
                  h[d][j] = IF d = f[1] /\ j = f[2] THEN now ELSE began[d][j]
      <4> DEFINE Times == Nat
      <4>1. began \in [Calls -> Rows(Times)] /\ now \in Times
        BY <1>2
      <4> HIDE DEF Times
      <4>2. LET h == [began EXCEPT ![f[1]][f[2]] = now]
            IN /\ h \in [Calls -> Rows(Times)]
               /\ \A d \in Calls : DOMAIN h[d] = DOMAIN began[d]
               /\ \A d \in Calls : \A j \in DOMAIN began[d] :
                    h[d][j] = IF d = f[1] /\ j = f[2] THEN now ELSE began[d][j]
        BY <1>1, <4>1, RowUpdate
      <4>. QED
        BY <4>2 DEF Times
    <3>. QED
      BY <1>1, <2>2, <3>1
  <2>. QED
    BY <2>1, <2>2
<1>5. /\ pages' \in [Calls -> Rows(Page)]
      /\ \A d \in Calls : DOMAIN pages'[d] = DOMAIN pages[d]
  <2>1. CASE pages' = pages
    BY <1>2, <2>1
  <2>2. ASSUME NEW page \in Page, pages' = [pages EXCEPT ![f[1]][f[2]] = page]
        PROVE  /\ pages' \in [Calls -> Rows(Page)]
               /\ \A d \in Calls : DOMAIN pages'[d] = DOMAIN pages[d]
    BY <1>1, <1>2, <2>2, RowUpdate
  <2>. QED
    BY <2>1, <2>2
<1>6. FetchesOK'
  BY <1>3, <1>4, <1>5 DEF FetchesOK, Rows
<1>7. Fetches' = Fetches
  BY DEF Fetches
<1>8. ASSUME NEW g \in Fetches
      PROVE  /\ g[1] \in Calls /\ g[2] \in DOMAIN at[g[1]] /\ g[2] \in DOMAIN began[g[1]]
             /\ (g[1] = f[1] /\ g[2] = f[2]) <=> g = f
  <2>1. g[1] \in Calls /\ g[2] \in DOMAIN at[g[1]] /\ g[2] \in DOMAIN began[g[1]]
    BY FetchTypes
  <2>2. g \in Calls \X (1..MaxURLs) /\ f \in Calls \X (1..MaxURLs)
    BY DEF Fetches
  <2>. QED
    BY <2>1, <2>2
<1>. QED
  BY <1>3, <1>4, <1>6, <1>7, <1>8

\* The hit entry and its page.
LEMMA EntryTypes ==
  ASSUME CacheOK, NEW url \in items
  PROVE  /\ EntryOf(url) \in Entry /\ EntryOf(url).key = url /\ EntryOf(url).page \in Page
         /\ EntryOf(url).page.url = url
         /\ EntryOf(url).expires <= EntryOf(url).page.born + TTL + Timeout
<1>1. Place(url) \in 1..Len(ll) /\ ll[Place(url)].key = url
  BY PlaceOf
<1>2. EntryOf(url) \in Entry
  BY <1>1, ElementOfSeq DEF EntryOf, CacheOK, Held
<1>. QED
  BY <1>1, <1>2 DEF EntryOf, CacheOK, Held, Entry

\* An operation of the cache leaves it in order, whatever the other fetches did before.
LEMMA CacheStep ==
  ASSUME PageInv, NEW f \in Fetches, get(f) \/ put(f)
  PROVE  CacheOK'
<1>1. /\ CacheOK /\ ll \in Seq(Entry) /\ Len(ll) \in Nat /\ Len(ll) <= MaxEntries
      /\ {TTL, Timeout} \subseteq Nat /\ MaxEntries \in Nat /\ now \in Nat
  BY LenProperties, PageCacheAssumption DEF PageInv, CacheOK, Held, FetchesOK
<1> DEFINE url == Url(f)
<1>2. url \in URLs
  BY FetchTypes DEF PageInv
<1>3. url \in items => Held(Without(url), items \ {url}) /\ Len(Without(url)) = Len(ll) - 1
  BY <1>1, HeldWithout
<1>4. Held(ll, items)
  BY <1>1 DEF CacheOK
<1> HIDE DEF url
<1>5. CASE get(f)
  <2>1. CASE UNCHANGED <<ll, items>>
    BY <1>1, <1>4, <2>1 DEF CacheOK
  <2>2. CASE url \in items /\ ll' = Without(url) /\ items' = items \ {url}
    BY <1>1, <1>3, <2>2 DEF CacheOK
  <2>3. CASE url \in items /\ Hit(url) /\ UNCHANGED items
    <3>1. EntryOf(url) \in Entry /\ EntryOf(url).key = url /\ EntryOf(url).page.url = url
          /\ EntryOf(url).expires <= EntryOf(url).page.born + TTL + Timeout
      BY <1>1, <2>3, EntryTypes
    <3>2. Held(<<EntryOf(url)>> \o Without(url), (items \ {url}) \cup {url})
          /\ Len(<<EntryOf(url)>> \o Without(url)) = Len(Without(url)) + 1
      BY <1>3, <2>3, <3>1, HeldFront
    <3>3. (items \ {url}) \cup {url} = items
      BY <2>3
    <3>4. Len(Without(url)) + 1 <= MaxEntries
      BY <1>1, <1>3, <2>3
    <3>. QED
      BY <2>3, <3>2, <3>3, <3>4 DEF Hit, CacheOK
  <2>. QED
    BY <1>5, <2>1, <2>2, <2>3 DEF get, url
<1>6. CASE put(f)
  <2> DEFINE page == [url |-> url, born |-> began[f[1]][f[2]], err |-> FALSE]
             entry == [key |-> url, page |-> page, expires |-> now + TTL]
  <2>1. /\ began[f[1]][f[2]] \in Nat /\ now <= began[f[1]][f[2]] + Timeout
    BY <1>6, FetchTypes DEF put, PageInv, Downloads
  <2>2. /\ entry \in Entry /\ entry.key = url /\ entry.page.url = url
        /\ entry.expires <= entry.page.born + TTL + Timeout
    <3>1. page \in Page /\ page.url = url /\ page.born = began[f[1]][f[2]]
      BY <1>2, <2>1 DEF Page
    <3>2. now + TTL \in Nat /\ now + TTL <= began[f[1]][f[2]] + TTL + Timeout
      BY <1>1, <2>1, SMTT(30)
    <3> HIDE DEF page
    <3>. QED
      BY <1>2, <3>1, <3>2 DEF Entry
  <2> HIDE DEF entry
  <2>3. CASE url \in items
    <3>1. ll' = <<entry>> \o Without(url) /\ items' = items
      BY <1>6, <2>3 DEF put, url, entry
    <3>2. Held(<<entry>> \o Without(url), (items \ {url}) \cup {url})
          /\ Len(<<entry>> \o Without(url)) = Len(Without(url)) + 1
      BY <1>3, <2>2, <2>3, HeldFront
    <3>3. (items \ {url}) \cup {url} = items
      BY <2>3
    <3>4. Len(Without(url)) + 1 <= MaxEntries
      BY <1>1, <1>3, <2>3
    <3>. QED
      BY <3>1, <3>2, <3>3, <3>4 DEF CacheOK
  <2>4. CASE url \notin items
    <3> DEFINE l == <<entry>> \o ll
               keys == items \cup {url}
    <3>1. Evict(l, keys)
      BY <1>6, <2>4 DEF put, url, entry
    <3>2. Held(l, keys) /\ Len(l) = Len(ll) + 1
      BY <1>4, <2>2, <2>4, HeldFront
    <3> HIDE DEF l, keys
    <3>3. CASE Len(l) > MaxEntries
      <4>1. Len(l) = MaxEntries + 1
        BY <1>1, <3>2, <3>3
      <4>2. ll' = SubSeq(l, 1, MaxEntries) /\ items' = keys \ {l[Len(l)].key}
        BY <3>1, <3>3 DEF Evict
      <4>. QED
        BY <1>1, <3>2, <4>1, <4>2, HeldEvicted DEF CacheOK
    <3>4. CASE ~(Len(l) > MaxEntries)
      BY <1>1, <3>1, <3>2, <3>4 DEF Evict, CacheOK
    <3>. QED
      BY <3>3, <3>4
  <2>. QED
    BY <2>3, <2>4
<1>. QED
  BY <1>5, <1>6

\* A download that begins or goes on is not older than the timeout.
LEMMA DownloadStep ==
  ASSUME PageInv, [PageNext]_pageVars
  PROVE  FetchesOK' /\ Downloads'
<1>1. FetchesOK /\ Downloads /\ now \in Nat /\ Timeout \in Nat
  BY PageCacheAssumption DEF PageInv, FetchesOK
<1>2. CASE UNCHANGED pageVars
  BY <1>1, <1>2 DEF pageVars, FetchesOK, Downloads, Fetches
<1>3. CASE Tick
  <2>1. Fetches' = Fetches /\ UNCHANGED <<urls, at, began, pages>> /\ now' = now + 1
    BY <1>3 DEF Tick, Fetches
  <2>2. ASSUME NEW f \in Fetches, at[f[1]][f[2]] \in {"fetch", "store"}
        PROVE  began[f[1]][f[2]] <= now' /\ now' <= began[f[1]][f[2]] + Timeout
    BY <1>1, <1>3, <2>1, <2>2, FetchTypes DEF Tick, Downloads
  <2>3. FetchesOK'
    BY <1>1, <2>1 DEF FetchesOK
  <2>. QED
    BY <2>1, <2>2, <2>3 DEF Downloads
<1>4. ASSUME NEW f \in Fetches, Acquire(f) \/ get(f) \/ fetchRemote(f) \/ put(f)
      PROVE  FetchesOK' /\ Downloads'
  <2>1. PICK place \in Places :
          /\ Go(f, place) /\ UNCHANGED <<now, urls>>
          /\ \/ pages' = pages
             \/ \E page \in Page : pages' = [pages EXCEPT ![f[1]][f[2]] = page]
          /\ \/ began' = [began EXCEPT ![f[1]][f[2]] = now] /\ place = "fetch"
             \/ began' = began /\ (place = "store" => at[f[1]][f[2]] = "fetch") /\ place # "fetch"
    <3>1. CASE Acquire(f)
      BY <3>1 DEF Acquire, Places
    <3>2. CASE fetchRemote(f)
      <4>1. Failure(Url(f)) \in Page
        BY <1>1, FetchTypes DEF Failure, Page
      <4>. QED
        BY <3>2, <4>1 DEF fetchRemote, Finish, Places
    <3>3. CASE put(f)
      <4>1. [url |-> Url(f), born |-> began[f[1]][f[2]], err |-> FALSE] \in Page
        BY <1>1, FetchTypes DEF Page
      <4>. QED
        BY <3>3, <4>1 DEF put, Finish, Places
    <3>4. CASE get(f)
      <4>1. CASE Go(f, "fetch") /\ began' = [began EXCEPT ![f[1]][f[2]] = now] /\ pages' = pages
        BY <3>4, <4>1 DEF get, Places
      <4>2. CASE Url(f) \in items /\ Finish(f, EntryOf(Url(f)).page) /\ began' = began
        <5>1. EntryOf(Url(f)).page \in Page
          BY <4>2, EntryTypes DEF PageInv
        <5>. QED
          BY <3>4, <4>2, <5>1 DEF get, Finish, Places
      <4>. QED
        BY <3>4, <4>1, <4>2 DEF get
    <3>. QED
      BY <1>4, <3>1, <3>2, <3>3, <3>4
  <2>2. /\ FetchesOK' /\ Fetches' = Fetches
        /\ \A g \in Fetches : at'[g[1]][g[2]] = IF g = f THEN place ELSE at[g[1]][g[2]]
        /\ \A g \in Fetches : g # f => began'[g[1]][g[2]] = began[g[1]][g[2]]
        /\ began' # began => began'[f[1]][f[2]] = now
    BY <1>1, <2>1, GoStep
  <2>3. place = "fetch" => began'[f[1]][f[2]] = now
    BY <1>1, <2>1, FetchTypes, RowUpdate DEF FetchesOK, Rows
  <2>4. ASSUME NEW g \in Fetches, at'[g[1]][g[2]] \in {"fetch", "store"}
        PROVE  began'[g[1]][g[2]] <= now' /\ now' <= began'[g[1]][g[2]] + Timeout
    <3>1. CASE g # f
      BY <1>1, <2>1, <2>2, <2>4, <3>1 DEF Downloads
    <3>2. CASE g = f /\ place = "fetch"
      BY <1>1, <2>1, <2>3, <3>2
    <3>3. CASE g = f /\ place # "fetch"
      BY <1>1, <2>1, <2>2, <2>4, <3>3 DEF Downloads
    <3>. QED
      BY <3>1, <3>2, <3>3
  <2>. QED
    BY <2>2, <2>4 DEF Downloads
<1>. QED
  BY <1>2, <1>3, <1>4 DEF PageNext, FetchStep, PageDone

LEMMA PageInvariant == PageSpec => []PageInv
<1>1. PageInit => PageInv
  <2>. SUFFICES ASSUME PageInit PROVE PageInv
    OBVIOUS
  <2>. USE DEF PageInit
  <2>1. CacheOK
    BY PageCacheAssumption, EmptySeq, Len(<<>>) = 0 DEF CacheOK, Held
  <2>2. ASSUME NEW c \in Calls
        PROVE  /\ at[c] \in Rows(Places) /\ began[c] \in Rows(Nat) /\ pages[c] \in Rows(Page)
               /\ DOMAIN at[c] = DOMAIN urls[c] /\ DOMAIN began[c] = DOMAIN urls[c]
               /\ DOMAIN pages[c] = DOMAIN urls[c]
               /\ \A i \in DOMAIN urls[c] : at[c][i] = "queued"
    <3>1. PICK k \in 1..MaxURLs : urls[c] \in [1..k -> URLs]
      <4>1. urls[c] \in Seqs(MaxURLs)
        OBVIOUS
      <4>. QED
        BY <4>1 DEF Seqs
    <3>2. NoPage \in Page
      BY DEF NoPage, Page
    <3>3. /\ at[c] \in [1..k -> Places] /\ began[c] \in [1..k -> Nat] /\ pages[c] \in [1..k -> Page]
          /\ DOMAIN urls[c] = 1..k /\ \A i \in 1..k : at[c][i] = "queued"
      BY <3>1, <3>2 DEF Places
    <3>. QED
      BY <3>3 DEF Rows
  <2>3. FetchesOK
    BY <2>2 DEF FetchesOK, Rows
  <2>4. Downloads
    BY <2>2 DEF Downloads, Fetches
  <2>. QED
    BY <2>1, <2>3, <2>4 DEF PageInv
<1>2. PageInv /\ [PageNext]_pageVars => PageInv'
  <2>. SUFFICES ASSUME PageInv, [PageNext]_pageVars PROVE CacheOK'
    BY DownloadStep DEF PageInv
  <2>1. CASE UNCHANGED <<ll, items>>
    BY <2>1 DEF PageInv, CacheOK, Held
  <2>. QED
    BY <2>1, CacheStep DEF PageNext, FetchStep, Acquire, fetchRemote, Tick, PageDone, pageVars
<1>. QED
  BY <1>1, <1>2, PTL DEF PageSpec

(***************************************************************************)
(* List and index of the cache agree whatever fetches overtake each other  *)
(* (CacheConsistent).                                                      *)
(***************************************************************************)
THEOREM CacheIsConsistent == PageSpec => []CacheConsistent
<1>1. PageInv => CacheConsistent
  <2>. SUFFICES ASSUME PageInv PROVE CacheConsistent
    OBVIOUS
  <2>1. /\ ll \in Seq(Entry) /\ Len(ll) \in Nat /\ DOMAIN ll = 1..Len(ll) /\ Len(ll) <= MaxEntries
        /\ items = {ll[i].key : i \in 1..Len(ll)}
        /\ \A i, j \in 1..Len(ll) : ll[i].key = ll[j].key => i = j
        /\ \A i \in 1..Len(ll) : ll[i].page.url = ll[i].key
    BY LenProperties DEF PageInv, CacheOK, Held
  <2>2. Cardinality(items) = Len(ll)
    <3> DEFINE F == [i \in 1..Len(ll) |-> ll[i].key]
    <3>1. /\ F \in [1..Len(ll) -> items]
          /\ \A i, j \in 1..Len(ll) : F[i] = F[j] => i = j
          /\ \A k \in items : \E i \in 1..Len(ll) : F[i] = k
      BY <2>1
    <3>2. F \in Bijection(1..Len(ll), items)
      BY <3>1, Fun_IsBij
    <3>3. ExistsBijection(1..Len(ll), items)
      BY <3>2 DEF ExistsBijection
    <3>. QED
      BY <2>1, <3>3, FS_CountingElements
  <2>. QED
    BY <2>1, <2>2 DEF CacheConsistent
<1>. QED
  BY <1>1, PageInvariant, PTL

(***************************************************************************)
(* Every result of a call is the page it asked for, no older than a lease  *)
(* and one download (PageServed).                                          *)
(***************************************************************************)
THEOREM PagesServed == PageSpec => PageServed
<1> DEFINE Served(f) ==
      at[f[1]][f[2]] # "done" /\ at'[f[1]][f[2]] = "done" =>
         LET page == pages'[f[1]][f[2]]
         IN page.url = Url(f) /\ (page.err \/ now <= page.born + TTL + Timeout)
<1>1. ASSUME PageInv, [PageNext]_pageVars, NEW f \in Fetches PROVE Served(f)
  <2>1. /\ FetchesOK /\ CacheOK /\ now \in Nat /\ {TTL, Timeout} \subseteq Nat
    BY <1>1, PageCacheAssumption DEF PageInv, FetchesOK
  <2>2. /\ f[1] \in Calls /\ f[2] \in DOMAIN at[f[1]] /\ f[2] \in DOMAIN pages[f[1]]
        /\ began[f[1]][f[2]] \in Nat
    BY <2>1, FetchTypes
  <2>3. CASE at' = at
    BY <2>3
  <2>4. ASSUME NEW g \in Fetches, Acquire(g) \/ get(g) \/ fetchRemote(g) \/ put(g), g # f PROVE Served(f)
    <3>1. PICK place \in Places : Go(g, place)
      BY <2>4 DEF Acquire, get, fetchRemote, put, Finish, Places
    <3>2. at'[f[1]][f[2]] = at[f[1]][f[2]]
      <4>1. g \in Calls \X (1..MaxURLs) /\ f \in Calls \X (1..MaxURLs)
        BY DEF Fetches
      <4>2. g[1] # f[1] \/ g[2] # f[2]
        BY <2>4, <4>1
      <4>3. g[1] \in Calls /\ g[2] \in DOMAIN at[g[1]]
        BY <2>1, FetchTypes
      <4>. QED
        BY <2>1, <2>2, <3>1, <4>2, <4>3, RowUpdate DEF Go, FetchesOK, Rows
    <3>. QED
      BY <3>2
  <2>5. ASSUME NEW page \in Page, pages' = [pages EXCEPT ![f[1]][f[2]] = page]
        PROVE  pages'[f[1]][f[2]] = page
    BY <2>1, <2>2, <2>5, RowUpdate DEF FetchesOK, Rows
  <2>6. ASSUME NEW place \in Places, Go(f, place) PROVE at'[f[1]][f[2]] = place
    BY <2>1, <2>2, <2>6, RowUpdate DEF Go, FetchesOK, Rows
  <2>7. CASE Acquire(f)
    BY <2>6, <2>7 DEF Acquire, Places
  <2>8. CASE fetchRemote(f)
    <3>1. Failure(Url(f)) \in Page /\ Failure(Url(f)).url = Url(f) /\ Failure(Url(f)).err
      BY <2>1, FetchTypes DEF Failure, Page
    <3>. QED
      BY <2>5, <2>6, <2>8, <3>1 DEF fetchRemote, Finish, Places
  <2>9. CASE put(f)
    <3> DEFINE page == [url |-> Url(f), born |-> began[f[1]][f[2]], err |-> FALSE]
    <3>1. page \in Page
      BY <2>1, FetchTypes DEF Page
    <3>2. pages'[f[1]][f[2]] = page
      BY <2>5, <2>9, <3>1 DEF put, Finish
    <3>3. now <= began[f[1]][f[2]] + Timeout
      BY <1>1, <2>9 DEF put, PageInv, Downloads
    <3>. QED
      BY <2>1, <2>2, <3>2, <3>3
  <2>10. CASE get(f)
    <3>1. CASE Go(f, "fetch")
      BY <2>6, <3>1 DEF Places
    <3>2. CASE Url(f) \in items /\ now <= EntryOf(Url(f)).expires /\ Finish(f, EntryOf(Url(f)).page)
      <4> DEFINE e == EntryOf(Url(f))
      <4>1. e \in Entry /\ e.page \in Page /\ e.page.url = Url(f) /\ e.expires <= e.page.born + TTL + Timeout
        BY <2>1, <3>2, EntryTypes
      <4>2. pages'[f[1]][f[2]] = e.page
        BY <2>5, <3>2, <4>1 DEF Finish
      <4> HIDE DEF e
      <4>3. e.expires \in Nat /\ e.page.born \in Nat
        BY <4>1 DEF Entry, Page
      <4>4. now <= e.expires
        BY <3>2 DEF e
      <4>. QED
        BY <2>1, <4>1, <4>2, <4>3, <4>4
    <3>3. EntryOf(Url(f)).expires \in Nat \/ Url(f) \notin items
      BY <2>1, EntryTypes DEF Entry
    <3>. QED
      BY <2>1, <2>10, <3>1, <3>2, <3>3 DEF get
  <2>. QED
    BY <1>1, <2>3, <2>4, <2>7, <2>8, <2>9, <2>10 DEF PageNext, FetchStep, Tick, PageDone, pageVars
<1>2. PageInv /\ [PageNext]_pageVars => [\A f \in Fetches : Served(f)]_pageVars
  BY <1>1
<1>. QED
  BY <1>2, PageInvariant, PTL DEF PageSpec, PageServed
=============================================================================
