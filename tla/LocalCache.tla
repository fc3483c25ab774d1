----------------------------- MODULE LocalCache -----------------------------
(***************************************************************************)
(* The artifact cache on a node's disk (internal/localcache/lru.go) and    *)
(* the pull that fills it (internal/cache/pull.go).  The cache runs each   *)
(* call under its mutex, and a Put evicts one entry after the other under  *)
(* it.  Its callers are not part of the repository: here deployments call  *)
(* in any order, except that they put an artifact only when its file is    *)
(* complete, pull a key one at a time and not over the file of an entry or *)
(* of one being put, and release only what they acquired.                  *)
(***************************************************************************)
EXTENDS Naturals, Sequences, FiniteSets, SequencesExt, FiniteSetsExt

CONSTANTS
    Key,         \* artifacts; a key stands for its path
    Size,        \* the size of each
    NoKey,
    MaxBytes,    \* maxBytes; 0 is unbounded
    Deployment   \* callers of Acquire and Release

ASSUME SizeAssumption == Size \in [Key -> Nat \ {0}]
ASSUME MaxBytesAssumption == MaxBytes \in Nat
ASSUME NoKeyAssumption == NoKey \notin Key

VARIABLES
    order,      \* the entries, most recently used first
    usedBytes,
    refCount,   \* by key; 0 without an entry
    putting,    \* the key whose Put holds the mutex
    file,       \* what the disk holds at the key's path
    held,       \* history: the keys each deployment has to release
    forced      \* history: keys put again or removed while held

lruVars == <<order, usedBytes, refCount, putting, file, held, forced>>

Cached == ToSet(order)
Total(keys) == MapThenSumSet(LAMBDA k : Size[k], keys)
Holders(k) == {d \in Deployment : k \in held[d]}

LRUInit ==
    /\ order = <<>>
    /\ usedBytes = 0
    /\ refCount = [k \in Key |-> 0]
    /\ putting = NoKey
    /\ file = [k \in Key |-> "none"]
    /\ held = [d \in Deployment |-> {}]
    /\ forced = {}

-----------------------------------------------------------------------------
(* ArtifactPuller.PullToDisk.                                              *)

\* The file is created, or truncated, and written as the object streams in.
PullStarts(k) ==
    /\ k \notin Cached \cup {putting}
    /\ file[k] # "partial"
    /\ file' = [file EXCEPT ![k] = "partial"]
    /\ UNCHANGED <<order, usedBytes, refCount, putting, held, forced>>

\* The copy ends; on a failure the partial file is removed.
PullEnds(k) ==
    /\ file[k] = "partial"
    /\ file' \in {[file EXCEPT ![k] = f] : f \in {"whole", "none"}}
    /\ UNCHANGED <<order, usedBytes, refCount, putting, held, forced>>

-----------------------------------------------------------------------------
(* LRUCache.                                                               *)

\* removeElement's bookkeeping for the entry at place i.
RemoveElement(i) ==
    /\ order' = RemoveAt(order, i)
    /\ usedBytes' = usedBytes - Size[order[i]]

\* An entry's file is deleted with it; an error of os.Remove is dropped.
DeleteFile(k) == file' = file \/ file' = [file EXCEPT ![k] = "none"]

\* A key held by somebody is given up.
Forced(k) == forced' = IF Holders(k) = {} THEN forced ELSE forced \cup {k}

\* Put takes the mutex: an entry of the key is dropped first, without its
\* file, and its count with it.
PutStarts(k) ==
    /\ putting = NoKey
    /\ file[k] = "whole"
    /\ putting' = k
    /\ IF k \in Cached
          THEN \E i \in DOMAIN order : order[i] = k /\ RemoveElement(i)
          ELSE UNCHANGED <<order, usedBytes>>
    /\ refCount' = [refCount EXCEPT ![k] = 0]
    /\ Forced(k)
    /\ UNCHANGED <<file, held>>

\* evictUntilFits: whether the key being put fits.
Fits == MaxBytes = 0 \/ usedBytes + Size[putting] <= MaxBytes

\* leastRecentlyUsedUnreferenced looks for the last of these places. The
\* mutant does not look at the reference count.
AnyPlace == DOMAIN order
Unreferenced == {i \in DOMAIN order : refCount[order[i]] = 0}

Evict ==
    /\ putting # NoKey
    /\ ~Fits
    /\ \E i \in Unreferenced :
          /\ \A j \in Unreferenced : j <= i
          /\ RemoveElement(i)
          /\ DeleteFile(order[i])
    /\ UNCHANGED <<refCount, putting, held, forced>>

PutEnds ==
    /\ putting # NoKey
    /\ Fits
    /\ order' = <<putting>> \o order
    /\ usedBytes' = usedBytes + Size[putting]
    /\ putting' = NoKey
    /\ UNCHANGED <<refCount, file, held, forced>>

\* ErrInsufficientCapacity: what was evicted stays evicted.
PutFails ==
    /\ putting # NoKey
    /\ ~Fits
    /\ Unreferenced = {}
    /\ putting' = NoKey
    /\ UNCHANGED <<order, usedBytes, refCount, file, held, forced>>

Get(k) ==
    /\ putting = NoKey
    /\ \E i \in DOMAIN order : order[i] = k /\ order' = <<k>> \o RemoveAt(order, i)
    /\ UNCHANGED <<usedBytes, refCount, putting, file, held, forced>>

AcquireEntry(d, k) ==
    /\ putting = NoKey
    /\ k \in Cached \ held[d]
    /\ refCount' = [refCount EXCEPT ![k] = @ + 1]
    /\ held' = [held EXCEPT ![d] = @ \cup {k}]
    /\ UNCHANGED <<order, usedBytes, putting, file, forced>>

\* ErrNotFound and ErrNotReferenced leave the cache as it is.
ReleaseEntry(d, k) ==
    /\ putting = NoKey
    /\ k \in held[d]
    /\ held' = [held EXCEPT ![d] = @ \ {k}]
    /\ refCount' = IF k \in Cached /\ refCount[k] > 0
                     THEN [refCount EXCEPT ![k] = @ - 1] ELSE refCount
    /\ UNCHANGED <<order, usedBytes, putting, file, forced>>

\* Remove, for an artifact known bad, whatever its count.
RemoveEntry(k) ==
    /\ putting = NoKey
    /\ \E i \in DOMAIN order : order[i] = k /\ RemoveElement(i)
    /\ refCount' = [refCount EXCEPT ![k] = 0]
    /\ DeleteFile(k)
    /\ Forced(k)
    /\ UNCHANGED <<putting, held>>

LRUNext ==
    \/ \E k \in Key :
          \/ PullStarts(k) \/ PullEnds(k)
          \/ PutStarts(k) \/ Get(k) \/ RemoveEntry(k)
          \/ \E d \in Deployment : AcquireEntry(d, k) \/ ReleaseEntry(d, k)
    \/ Evict \/ PutEnds \/ PutFails

-----------------------------------------------------------------------------
(* Properties.                                                             *)

LRUTypeOK ==
    /\ order \in Seq(Key) /\ IsInjective(order)
    /\ usedBytes \in Nat
    /\ refCount \in [Key -> Nat]
    /\ putting \in Key \cup {NoKey}
    /\ file \in [Key -> {"none", "partial", "whole"}]
    /\ held \in [Deployment -> SUBSET Key]
    /\ forced \subseteq Key

\* An artifact a deployment has acquired stays in the cache and complete on
\* disk, counted once for each holder, whatever is put and evicted meanwhile
\* and even when a put fails, unless somebody put the same key again or
\* removed it, which is documented to drop the count (lru.go: the cache
\* "never reclaims an artifact currently backing a live allocation").
HeldIsKept ==
    \A k \in Key \ forced : Holders(k) # {} =>
        /\ k \in Cached
        /\ refCount[k] = Cardinality(Holders(k))
        /\ file[k] = "whole"

\* Replacing, evicting, removing and failing keep the byte count exact and
\* within the bound, and every entry has its file (lru.go evictUntilFits,
\* removeElement).
BytesExact ==
    /\ usedBytes = Total(Cached)
    /\ MaxBytes > 0 => usedBytes <= MaxBytes
    /\ \A k \in Cached : file[k] = "whole"

\* Both hold together through every order of pulls, puts, evictions and
\* releases (lru.go LRUCache): what is held stays, and what is counted is
\* there.
CacheSound == HeldIsKept /\ BytesExact
=============================================================================
