------------------------------ MODULE DataList ------------------------------
(***************************************************************************)
(* Listing a site's data (kv-gateway index.js, handleList): the provider's *)
(* pages are walked in the order of the stored names, filtered by the      *)
(* caller's prefix, which that order does not follow, and cut into answers *)
(* of the size that the caller wants.  The cursor of an answer goes back   *)
(* with the next call.  Keys come and go meanwhile, calls fail.            *)
(*                                                                         *)
(* Pages and answers are in the provider's order; what is kept of them     *)
(* here is which keys they have.                                           *)
(***************************************************************************)
EXTENDS Integers, FiniteSets

CONSTANTS
  LastKey,        \* keys are 1..LastKey, in the provider's order
  Matching,       \* those that begin with the caller's prefix
  PageLimit,      \* LIST_PROVIDER_PAGE_LIMIT
  MaxPages,       \* MAX_LIST_PROVIDER_PAGES_PER_REQUEST
  NoCall          \* no call is at work

ASSUME ListAssumption == LastKey \in Nat /\ {PageLimit, MaxPages} \subseteq Nat \ {0}

VARIABLES
  stored,      \* the keys in the namespace
  limit,       \* how many keys the caller wants at once; a cursor is bound to it
  cursor,      \* what the caller sends: keys up to here were walked
  got,         \* the keys of all answers
  done,        \* an answer said list_complete
  call,        \* the call at work: where it is, what it has, its pages
  throughout,  \* history: keys stored ever since the listing began
  again        \* history: keys that a page had though they were in an answer or in hand

listVars == <<stored, limit, cursor, got, done, call, throughout, again>>

Keys == 1..LastKey

PutKey(k) ==
  /\ k \notin stored
  /\ stored' = stored \cup {k}
  /\ UNCHANGED <<limit, cursor, got, done, call, throughout, again>>

RemoveKey(k) ==
  /\ k \in stored
  /\ stored' = stored \ {k}
  /\ throughout' = throughout \ {k}
  /\ UNCHANGED <<limit, cursor, got, done, call, again>>

\* validateListOptions, decodeListCursor
BeginCall ==
  /\ call = NoCall /\ ~done
  /\ call' = [at |-> cursor, keys |-> {}, pages |-> 0]
  /\ UNCHANGED <<stored, limit, cursor, got, done, throughout, again>>

\* Slip: each page is asked for in full.
FullPage(keys) == PageLimit

ProviderLimit(keys) ==
  IF limit - Cardinality(keys) < PageLimit THEN limit - Cardinality(keys) ELSE PageLimit

\* The provider's page after a position: as many keys as asked for or fewer,
\* and whether that was the end.
UpTo(keys, end) == {k \in keys : k <= end}
After(at) == {k \in stored : k > at}

Pages(at, most) ==
  {[items |-> UpTo(After(at), end), end |-> end, complete |-> \A k \in After(at) : k <= end] :
     end \in {e \in After(at) \cup {at} : Cardinality(UpTo(After(at), e)) <= most}}

\* What of a page is kept: the keys with the prefix, up to the limit.
Kept(keys, items) ==
  LET all == keys \cup (items \cap Matching)
  IN {k \in all : Cardinality(UpTo(all, k)) <= limit}

\* The answer: its keys, and the provider's cursor unless the end was reached.
Answer(keys, end, complete) ==
  /\ got' = got \cup keys
  /\ cursor' = IF complete THEN cursor ELSE end
  /\ done' = complete
  /\ call' = NoCall

ReadPage ==
  /\ call # NoCall
  /\ \E page \in Pages(call.at, ProviderLimit(call.keys)) :
       LET keys == Kept(call.keys, page.items)
           pages == call.pages + 1
       IN /\ again' = again \cup ((got \cup call.keys) \cap page.items)
          /\ IF page.complete \/ Cardinality(keys) >= limit \/ pages >= MaxPages
             THEN Answer(keys, page.end, page.complete)
             ELSE /\ call' = [at |-> page.end, keys |-> keys, pages |-> pages]
                  /\ UNCHANGED <<got, cursor, done>>
  /\ UNCHANGED <<stored, limit, throughout>>

\* The provider fails, or the answer is lost: the caller asks again.
CallFails ==
  /\ call # NoCall
  /\ call' = NoCall
  /\ UNCHANGED <<stored, limit, cursor, got, done, throughout, again>>

ListInit ==
  /\ stored \in SUBSET Keys
  /\ limit \in 1..PageLimit
  /\ cursor = 0
  /\ got = {}
  /\ done = FALSE
  /\ call = NoCall
  /\ throughout = stored
  /\ again = {}

ListNext ==
  \/ \E k \in Keys : PutKey(k) \/ RemoveKey(k)
  \/ BeginCall \/ ReadPage \/ CallFails

ListSpec == ListInit /\ [][ListNext]_listVars

-----------------------------------------------------------------------------
\* A call at work has pages and room left.
Calls == [at : 0..LastKey, keys : SUBSET Keys, pages : 0..(MaxPages - 1)]

ListTypeOK ==
  /\ stored \subseteq Keys /\ throughout \subseteq stored
  /\ limit \in 1..PageLimit
  /\ cursor \in 0..LastKey
  /\ got \subseteq Keys /\ again \subseteq Keys
  /\ done \in BOOLEAN
  /\ call # NoCall => call \in Calls /\ Cardinality(call.keys) < limit

\* A caller that follows the cursors to the end has seen every key with its
\* prefix that was there all the time, and no key twice, whatever was put and
\* removed meanwhile, wherever the pages ended and calls failed.
ListIsComplete ==
  /\ again = {} /\ got \subseteq Matching
  /\ done => throughout \cap Matching \subseteq got
=============================================================================
