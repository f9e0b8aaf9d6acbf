----------------------------- MODULE WatchCache -----------------------------
(***************************************************************************)
(* The watch cache of inotify_dtree.c (wlCache): the set of active slots,  *)
(* each a watch descriptor, the pathname cached for it and its index in    *)
(* the array.  A free slot (wd == -1) is simply absent.  The index decides *)
(* the order of the scans of zapSubtree(); a lookup by watch descriptor    *)
(* returns the only match, since traverseTree() never caches a watch       *)
(* descriptor twice.                                                       *)
(***************************************************************************)
EXTENDS Sequences, SequencesExt

Entry(w, p, s) == [wd |-> w, path |-> p, slot |-> s]

CachedWds(cache) == {e.wd : e \in cache}

CachedPaths(cache) == {e.path : e \in cache}

(* findWatch(): is the watch descriptor in the cache? *)
FindWatch(cache, w) == w \in CachedWds(cache)

(* wlCache[findWatch(wd)].path *)
WatchPath(cache, w) == (CHOOSE e \in cache : e.wd = w).path

(* pathnameInCache() *)
PathnameInCache(cache, p) == p \in CachedPaths(cache)

(* findEmptyCacheSlot(): the lowest free index; when none is free the    *)
(* array grows by ALLOC_INCR slots and the first new one is returned,   *)
(* which is again the lowest free index.                                 *)
FindEmptyCacheSlot(cache) == Min({s \in 0 .. Cardinality(cache) : \A e \in cache : e.slot # s})

(* addWatchToCache() *)
AddWatchToCache(cache, w, p) == cache \cup {Entry(w, p, FindEmptyCacheSlot(cache))}

(* markCacheSlotEmpty() of the slot that findWatch(wd) returned *)
MarkCacheSlotEmpty(cache, w) == {e \in cache : e.wd # w}

(* The test of rewriteCachedPaths() and zapSubtree(): path q is p itself *)
(* or lies below p (strncmp over strlen(p), then '/' or '\0').           *)
UnderPath(p, q) == IsPrefix(p, q)

(* zapSubtree(): the slots it removes, in the order of its scan *)
SubtreeEntries(cache, p) == {e \in cache : UnderPath(p, e.path)}

SubtreeScan(cache, p) == SetToSortSeq(SubtreeEntries(cache, p), LAMBDA a, b : a.slot < b.slot)

(* rewriteCachedPaths(): every cached path at or below old gets the new *)
(* prefix in place of old, keeping its suffix.                           *)
RewriteCachedPaths(cache, old, new) ==
    {IF UnderPath(old, e.path)
     THEN [e EXCEPT !.path = new \o SubSeq(e.path, Len(old) + 1, Len(e.path))]
     ELSE e : e \in cache}

=============================================================================
