---------------------------- MODULE ResourceCache ----------------------------
(***************************************************************************)
(* Fetching a task's resources through the cache: FetchResourcesInMemory   *)
(* (fcp/client/http/in_memory_request_response.cc) over                    *)
(* FileBackedResourceCache (fcp/client/cache/file_backed_resource_cache.cc)*)
(* and its two pieces of durable state, the manifest and the directory of  *)
(* resource files.                                                         *)
(*                                                                         *)
(* A cache id stands for one resource of the server, which is sent plain   *)
(* or gzipped.  A file is [form, whole]; a manifest entry is [form, expiry,*)
(* used], form being the caller's metadata (the compression format).       *)
(* Every mutex-protected method is one step, but for Put, whose three      *)
(* writes a crash can separate.                                            *)
(***************************************************************************)
EXTENDS Integers, Sequences, FiniteSetsExt, Functions, TLC

CONSTANTS
    Ids,          \* the cache ids
    Size(_, _),   \* the size of a resource in a form
    MaxSize,      \* max_cache_size_bytes_
    MaxAge,       \* max_age of every resource
    Requests,     \* the vectors of resources that are asked for, each [id, kind]
    Faults,       \* what may fail: {"read", "write", "remove", "network", "crash", "torn"}
    MaxTime       \* bound of the clock

VARIABLES
    now,       \* clock_.Now()
    manifest,  \* the stored CacheManifest: [exists, cache]
    files,     \* the files of cache_dir_path_
    up,        \* the cache object exists
    job        \* the FetchResourcesInMemory call: [pc, want, i, got, m]

vars == <<now, manifest, files, up, job>>

Forms == {"plain", "gzip"}
NoEntries == [id \in {} |-> "none"]
NoManifest == [exists |-> FALSE, cache |-> NoEntries]
Manifest(m) == [exists |-> TRUE, cache |-> m]

\* got is, per resource: "fetch" for a miss, the form of what was fetched, then what the caller gets.
\* m is the manifest Put has read and cleaned up.
Idle == [pc |-> "idle", want |-> <<>>, i |-> 1, got |-> <<>>, m |-> NoEntries]

Init ==
    /\ now = 0
    /\ manifest = NoManifest
    /\ files = NoEntries
    /\ up = FALSE
    /\ job = Idle

-----------------------------------------------------------------------------
(* CleanUp.                                                                *)

Total(ids, f) == MapThenSumSet(LAMBDA id : Size(id, f[id].form), ids)

\* The entries that neither expired nor lost their file.
Kept(m, f) == {id \in DOMAIN m : m[id].expiry >= now /\ id \in DOMAIN f}

\* The sets of entries the loop over cache_id_lru may evict: from the least recently used one on
\* (equal times in any order) until the rest is smaller than the allowed size.
Evictions(m, f, allowed) ==
    LET rest(E) == DOMAIN m \ E
        OldestFirst(E) == \A e \in E, k \in rest(E) : m[e].used <= m[k].used
        NotTooEarly(E) == rest(E) = {} \/ Total(rest(E), f) < allowed
        NotTooLate(E) == \E e \in E : /\ \A d \in E : m[d].used <= m[e].used
                                      /\ E = {e} \/ Total(rest(E) \cup {e}, f) >= allowed
    IN  IF Total(DOMAIN m, f) <= allowed THEN {{}}
        ELSE {E \in SUBSET DOMAIN m : E # {} /\ OldestFirst(E) /\ NotTooEarly(E) /\ NotTooLate(E)}

\* Defective variant: no room is made for what is about to be put.
CleanUpReservesNothing(m, f, reserved) ==
    LET kept == Restrict(m, Kept(m, f))
        left == Restrict(f, DOMAIN kept)
    IN  {[ok |-> TRUE, m |-> Restrict(kept, DOMAIN kept \ E), f |-> Restrict(left, DOMAIN left \ E)]
            : E \in Evictions(kept, left, MaxSize)}

\* What CleanUp may leave behind.  A file that cannot be removed is an error: in the first loop
\* nothing is evicted then, in the second one the rest is; either way the caller drops m.
CleanUp(m, f, reserved) ==
    LET kept == Restrict(m, Kept(m, f))
        left == Restrict(f, DOMAIN kept)
        evictions == Evictions(kept, left, MaxSize - reserved)
        Clean(E) == [ok |-> TRUE, m |-> Restrict(kept, DOMAIN kept \ E), f |-> Restrict(left, DOMAIN left \ E)]
        Stuck(id, removed) == [ok |-> FALSE, m |-> NoEntries, f |-> Restrict(f, (DOMAIN f \ removed) \cup {id})]
        stale == DOMAIN f \ DOMAIN left
    IN  {Clean(E) : E \in evictions} \cup
        (IF "remove" \notin Faults THEN {}
         ELSE {Stuck(id, stale) : id \in stale} \cup UNION {{Stuck(id, stale \cup E) : id \in E} : E \in evictions})

\* pds_->Read and pds_->Write; a manifest that cannot be read or written is deleted.
ReadFails == ~manifest.exists \/ "read" \in Faults
WriteFails == "write" \in Faults

-----------------------------------------------------------------------------
(* FileBackedResourceCache.                                                *)

\* Create and Initialize: an empty manifest if there is none, then CleanUp and a write.
Create ==
    /\ ~up
    /\ job.pc = "idle"
    /\ \/ \E c \in CleanUp(manifest.cache, files, 0) :
              /\ files' = c.f
              /\ up' = c.ok
              /\ manifest' = Manifest(IF c.ok THEN c.m ELSE manifest.cache)
       \/ /\ WriteFails \/ "read" \in Faults
          /\ manifest' = NoManifest
          /\ UNCHANGED <<files, up>>
    /\ UNCHANGED <<now, job>>

\* TryGetResourceFromCache makes of a file and its metadata; "error" where gzip fails.
Decode(form, file) ==
    IF form = "gzip" THEN (IF file.form = "gzip" /\ file.whole THEN "whole" ELSE "error")
    ELSE IF file.form # "plain" THEN "garbled"
    ELSE IF file.whole THEN "whole" ELSE "torn"

Answered(result) == job' = [job EXCEPT !.got = Append(@, result), !.i = @ + 1]

Resource == job.want[job.i]

\* A resource whose data came inline, and one that is to be fetched without looking it up.
NoLookup ==
    /\ job.pc = "get"
    /\ job.i <= Len(job.want)
    /\ Resource.kind # "cached" \/ ~up
    /\ Answered(IF Resource.kind = "inline" THEN "whole" ELSE "fetch")
    /\ UNCHANGED <<now, manifest, files, up>>

\* Get.  It does not look at the expiry time, and a hit extends it.
Get ==
    /\ job.pc = "get"
    /\ job.i <= Len(job.want)
    /\ Resource.kind = "cached" /\ up
    /\ LET id == Resource.id
       IN  \/ /\ ReadFails
              /\ manifest' = NoManifest
              /\ Answered("fetch")
              /\ UNCHANGED files
           \/ /\ manifest.exists
              /\ id \notin DOMAIN manifest.cache \/ id \notin DOMAIN files
              /\ Answered("fetch")
              /\ UNCHANGED <<manifest, files>>
           \/ /\ manifest.exists
              /\ id \in DOMAIN manifest.cache /\ id \in DOMAIN files
              /\ UNCHANGED files
              /\ \/ /\ manifest' = [manifest EXCEPT !.cache[id].used = now, !.cache[id].expiry = now + MaxAge]
                    /\ LET d == Decode(manifest.cache[id].form, files[id])
                       IN  Answered(IF d = "error" THEN "fetch" ELSE d)
                 \/ /\ WriteFails
                    /\ manifest' = NoManifest
                    /\ Answered("fetch")
    /\ UNCHANGED <<now, up>>

NextResource(result) == job' = [job EXCEPT !.pc = "put", !.got[job.i] = result, !.i = @ + 1, !.m = NoEntries]

\* What is to be put in the cache: a response to a lookup that missed.
Cacheable == up /\ Resource.kind = "cached" /\ job.got[job.i] \in Forms

\* A response that is not to be cached is passed on, decoded if need be.
NoPut ==
    /\ job.pc = "put"
    /\ job.i <= Len(job.want)
    /\ ~Cacheable
    /\ NextResource(IF job.got[job.i] \in Forms THEN "whole" ELSE job.got[job.i])
    /\ UNCHANGED <<now, manifest, files, up>>

\* Put up to CleanUp: nothing is cached that is larger than half of the cache.  The caller ignores
\* an error of Put, here and below.
PutCleanUp ==
    /\ job.pc = "put"
    /\ job.i <= Len(job.want)
    /\ Cacheable
    /\ LET size == Size(Resource.id, job.got[job.i])
       IN  \/ /\ size > MaxSize \div 2
              /\ NextResource("whole")
              /\ UNCHANGED <<manifest, files>>
           \/ /\ size <= MaxSize \div 2
              /\ ReadFails
              /\ manifest' = NoManifest
              /\ NextResource("whole")
              /\ UNCHANGED files
           \/ /\ size <= MaxSize \div 2
              /\ manifest.exists
              /\ \E c \in CleanUp(manifest.cache, files, size) :
                     /\ files' = c.f
                     /\ IF c.ok THEN job' = [job EXCEPT !.pc = "manifest", !.m = c.m] ELSE NextResource("whole")
              /\ UNCHANGED manifest
    /\ UNCHANGED <<now, up>>

\* insert() leaves an entry that is there already alone.
Inserted(m, id, form) ==
    IF id \in DOMAIN m THEN m ELSE (id :> [form |-> form, expiry |-> now + MaxAge, used |-> now]) @@ m

PutManifest ==
    /\ job.pc = "manifest"
    /\ \/ /\ manifest' = Manifest(Inserted(job.m, Resource.id, job.got[job.i]))
          /\ job' = [job EXCEPT !.pc = "file"]
       \/ /\ WriteFails
          /\ manifest' = NoManifest
          /\ NextResource("whole")
    /\ UNCHANGED <<now, files, up>>

\* The file is written if there is none; a write that fails leaves what it wrote so far.
PutFile ==
    /\ job.pc = "file"
    /\ \/ files' = IF Resource.id \in DOMAIN files THEN files
                   ELSE (Resource.id :> [form |-> job.got[job.i], whole |-> TRUE]) @@ files
       \/ /\ "torn" \in Faults
          /\ Resource.id \notin DOMAIN files
          /\ files' = (Resource.id :> [form |-> job.got[job.i], whole |-> FALSE]) @@ files
    /\ NextResource("whole")
    /\ UNCHANGED <<now, manifest, up>>

-----------------------------------------------------------------------------
(* FetchResourcesInMemory.                                                 *)

StartFetch(want) ==
    /\ job.pc = "idle"
    /\ job' = [Idle EXCEPT !.pc = "get", !.want = want]
    /\ UNCHANGED <<now, manifest, files, up>>

\* PerformMultipleRequestsInMemory for the misses; each may fail, and the call as a whole.
PerformRequests ==
    /\ job.pc = "get"
    /\ job.i > Len(job.want)
    /\ \/ \E answers \in [DOMAIN job.want -> Forms \cup (IF "network" \in Faults THEN {"failed"} ELSE {})] :
              job' = [job EXCEPT !.pc = "put", !.i = 1,
                          !.got = [k \in DOMAIN @ |-> IF @[k] = "fetch" THEN answers[k] ELSE @[k]]]
       \/ "network" \in Faults /\ job' = Idle
    /\ UNCHANGED <<now, manifest, files, up>>

Return ==
    /\ job.pc = "put"
    /\ job.i > Len(job.want)
    /\ job' = Idle
    /\ UNCHANGED <<now, manifest, files, up>>

\* The process ends; in the middle of Put the steps that are left are never taken.
Crash ==
    /\ "crash" \in Faults
    /\ up
    /\ up' = FALSE
    /\ job' = Idle
    /\ UNCHANGED <<now, manifest, files>>

Tick ==
    /\ now < MaxTime
    /\ job.pc = "idle"
    /\ now' = now + 1
    /\ UNCHANGED <<manifest, files, up, job>>

Next ==
    \/ Create
    \/ \E want \in Requests : StartFetch(want)
    \/ NoLookup \/ Get
    \/ PerformRequests
    \/ NoPut \/ PutCleanUp \/ PutManifest \/ PutFile
    \/ Return
    \/ Crash
    \/ Tick

Spec == Init /\ [][Next]_vars

-----------------------------------------------------------------------------
(* Properties.                                                             *)

\* The directory never holds more than max_cache_size_bytes, whatever failed or crashed since files
\* were last removed: CleanUp makes room before Put writes, and it finds untracked files too.
CacheFits == Total(DOMAIN files, files) <= MaxSize

\* An entry's metadata tells the form its file really has, although a resource may be put again in
\* the other form: Put replaces neither the entry nor the file of a resource it finds.
MetadataMatchesFile ==
    \A id \in DOMAIN manifest.cache \cap DOMAIN files : manifest.cache[id].form = files[id].form

\* What FetchResourcesInMemory returns as a success is the resource, whole and decoded, be it from
\* the network or from the cache.
FetchedIsWhole ==
    job.pc = "put" => \A k \in DOMAIN job.got : job.got[k] \in Forms \cup {"whole", "failed"}
=============================================================================
