------------------------------- MODULE Cache -------------------------------
(* One shard of the cache package: a list of entries, the most recently     *)
(* used first, and the keys somebody is producing a value for.  The other   *)
(* fifteen shards hold other keys and never meet this one.  A cache's own   *)
(* module keeps the list as a variable and steps it with these operators.   *)
EXTENDS Integers, Sequences, SequencesExt

CONSTANT None

\* The two lifetimes that are not a duration; an entry that never expires
\* carries the zero time.
Off == 0
Forever == -1
Never == 0

expiry(ttl, now) == IF ttl = Forever THEN Never ELSE now + ttl

entry(key, val, expires) == [key |-> key, val |-> val, expires |-> expires]
cached(ll, key) == \E i \in DOMAIN ll : ll[i].key = key
placeIn(ll, key) == CHOOSE i \in DOMAIN ll : ll[i].key = key
entryIn(ll, key) == ll[placeIn(ll, key)]
\* The one element of a key leaves the list.
remove(ll, key) == IF cached(ll, key) THEN RemoveAt(ll, placeIn(ll, key)) ELSE ll

\* An entry is dead from the very moment it expires.
live(ll, key, now) ==
  cached(ll, key) /\ (entryIn(ll, key).expires = Never \/ now < entryIn(ll, key).expires)

\* What a lookup leaves: a live entry at the front, a dead one dropped.
get(ll, key, now) ==
  (IF live(ll, key, now) THEN <<entryIn(ll, key)>> ELSE <<>>) \o remove(ll, key)

\* A stored entry goes to the front and pushes the last one out of a full
\* shard.
put(ll, key, val, expires, cap) ==
  LET new == <<entry(key, val, expires)>> \o remove(ll, key)
  IN IF Len(new) > cap THEN Front(new) ELSE new
=============================================================================
