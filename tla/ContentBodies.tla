--------------------------- MODULE ContentBodies ---------------------------
(***************************************************************************)
(* The trace page's cache of content bodies: promises by hash in an LRU    *)
(* order, bounded in entries and in characters, shared by every chip, and  *)
(* the hook through which one chip shows a body while its hash changes.    *)
(* Fetches are answered in any order and may fail after their entry has    *)
(* been evicted and fetched anew.                                          *)
(***************************************************************************)
EXTENDS Integers, Sequences, SequencesExt

CONSTANTS
    Hashes,
    CharsOf,        \* the length of each body
    MaxEntries,     \* MAX_ENTRIES
    MaxTotalChars,  \* MAX_TOTAL_CHARS
    NoHash,
    MaxFetches      \* bound: requests sent

ASSUME BodyAssumption ==
    /\ NoHash \notin Hashes
    /\ CharsOf \in [Hashes -> Nat]
    /\ {MaxEntries, MaxTotalChars, MaxFetches} \subseteq Nat

VARIABLES
    bodyCache,      \* entries, the least recently used first
    totalChars,
    fetches,        \* every request sent: its hash and how it ended
    hook            \* the chip: its hash, the entry it awaits, what it shows

bodyVars == <<bodyCache, totalChars, fetches, hook>>

Chars(cache) ==
    LET upTo[n \in 0 .. Len(cache)] == IF n = 0 THEN 0 ELSE upTo[n - 1] + cache[n].chars
    IN  upTo[Len(cache)]

(* Oldest first, until both bounds are met. *)
Evict(cache, total) ==
    LET left(n) == total - Chars(SubSeq(cache, 1, n))
        fits(n) == Len(cache) - n <= MaxEntries /\ left(n) <= MaxTotalChars
    IN  \E n \in 0 .. Len(cache) :
            /\ fits(n) \/ n = Len(cache)
            /\ \A m \in 0 .. n - 1 : ~fits(m)
            /\ bodyCache' = SubSeq(cache, n + 1, Len(cache))
            /\ totalChars' = left(n)

(* Where the cache has an entry of this hash: at one place, or nowhere.     *)
PlacesOf(hash) == {i \in DOMAIN bodyCache : bodyCache[i].hash = hash}

(* A hit becomes the most recent; a miss sends a request.  id is the entry  *)
(* whose promise is returned.                                               *)
FetchBody(hash, id) ==
    \/ \E i \in PlacesOf(hash) :
          /\ id = bodyCache[i].id
          /\ bodyCache' = Append(RemoveAt(bodyCache, i), bodyCache[i])
          /\ UNCHANGED <<totalChars, fetches>>
    \/ /\ PlacesOf(hash) = {}
       /\ id = Len(fetches) + 1 /\ id <= MaxFetches
       /\ fetches' = Append(fetches, [hash |-> hash, state |-> "pending"])
       /\ Evict(Append(bodyCache, [hash |-> hash, id |-> id, chars |-> 0]), totalChars)

(* The effect of a new hash: the promise awaited before is no longer heard. *)
UseContentBody(hash) ==
    /\ hash # hook.hash
    /\ IF hash = NoHash
       THEN hook' = [hash |-> NoHash, awaits |-> 0, shows |-> "nothing"]
            /\ UNCHANGED <<bodyCache, totalChars, fetches>>
       ELSE \E id \in 1 .. Len(fetches) + 1 :
               /\ FetchBody(hash, id)
               /\ hook' = [hash |-> hash, awaits |-> id, shows |-> "loading"]

(* The chip hears a promise only while the effect that awaits it is alive. *)
Hears(id) == hook.awaits = id

(* Mutant of Counted: an entry evicted meanwhile is counted all the same. *)
CountedAlways(id) == TRUE

(* Only the entry still in the cache is counted. *)
Counted(id) == \E i \in DOMAIN bodyCache : bodyCache[i].id = id

Resolve(id) ==
    /\ fetches[id].state = "pending"
    /\ fetches' = [fetches EXCEPT ![id].state = "resolved"]
    /\ LET hash == fetches[id].hash
           noted == [i \in DOMAIN bodyCache |->
                       IF bodyCache[i].id = id THEN [bodyCache[i] EXCEPT !.chars = CharsOf[hash]]
                       ELSE bodyCache[i]]
       IN  IF Counted(id) THEN Evict(noted, totalChars + CharsOf[hash])
           ELSE UNCHANGED <<bodyCache, totalChars>>
    /\ hook' = IF Hears(id) THEN [hook EXCEPT !.awaits = 0, !.shows = fetches[id].hash] ELSE hook

Drop(hash) ==
    \/ \E i \in PlacesOf(hash) : /\ bodyCache' = RemoveAt(bodyCache, i)
                                /\ totalChars' = totalChars - bodyCache[i].chars
    \/ PlacesOf(hash) = {} /\ UNCHANGED <<bodyCache, totalChars>>

Reject(id) ==
    /\ fetches[id].state = "pending"
    /\ fetches' = [fetches EXCEPT ![id].state = "rejected"]
    /\ Drop(fetches[id].hash)
    /\ hook' = IF Hears(id) THEN [hook EXCEPT !.awaits = 0, !.shows = "error"] ELSE hook

(* The promise of an entry that was there already. *)
HearSettled ==
    /\ hook.awaits # 0 /\ fetches[hook.awaits].state # "pending"
    /\ hook' = [hook EXCEPT !.awaits = 0,
                            !.shows = IF fetches[hook.awaits].state = "resolved" THEN hook.hash ELSE "error"]
    /\ UNCHANGED <<bodyCache, totalChars, fetches>>

BodyInit ==
    /\ bodyCache = <<>> /\ totalChars = 0 /\ fetches = <<>>
    /\ hook = [hash |-> NoHash, awaits |-> 0, shows |-> "nothing"]

BodyNext ==
    \/ \E hash \in Hashes \cup {NoHash} : UseContentBody(hash)
    \/ \E id \in DOMAIN fetches : Resolve(id) \/ Reject(id)
    \/ HearSettled

BodySpec == BodyInit /\ [][BodyNext]_bodyVars

(* The count of characters is that of the entries held, and both bounds hold *)
(* after every step, whatever was evicted while it was being fetched (evict, *)
(* drop, the identity check of fetchBody).                                   *)
CacheAccounts ==
    /\ totalChars = Chars(bodyCache) /\ totalChars <= MaxTotalChars
    /\ Len(bodyCache) <= MaxEntries

(* A failure is never served from the cache: opening the chip again asks     *)
(* the server again (fetchBody's drop).                                      *)
FailuresRetried == \A i \in DOMAIN bodyCache : fetches[bodyCache[i].id].state # "rejected"

(* A chip shows the body of the hash it has now, never that of one it had    *)
(* before whose answer came later (the alive flag of useContentBody).        *)
RightBody == hook.shows \in {"nothing", "loading", "error", hook.hash}

(* The cache of bodies is sound: it counts what it holds, forgets what     *)
(* failed and shows a chip its own body.                                   *)
BodiesSound == CacheAccounts /\ FailuresRetried /\ RightBody
=============================================================================
