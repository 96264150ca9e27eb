--------------------------- MODULE SnapshotUploads ---------------------------
(***************************************************************************)
(* The upload of snapshots to object storage while other nodes already     *)
(* resume them (packages/orchestrator/pkg/sandbox/uploads.go,              *)
(* build_upload.go, build_upload_v4.go, build/header_load.go,              *)
(* template/cache.go, template/peerclient, server/sandboxes.go).           *)
(*                                                                         *)
(* A build is one snapshot. Its header maps every block to the build that  *)
(* has it: to itself or to an ancestor, and Builds, here a set of entries, *)
(* says how the data of such a build is stored. A snapshot is resumed and  *)
(* snapshotted again before its own upload is over, so its upload waits    *)
(* for those of its ancestors to learn their entries. Other nodes read a   *)
(* build from its peer, the node that uploads it, as long as the key of    *)
(* the build is in Redis. The memory and the disk file are uploaded alike  *)
(* and in parallel: the model follows one of them, with V4 headers and     *)
(* compressed data.                                                        *)
(***************************************************************************)
EXTENDS Integers, FiniteSets

CONSTANTS
    Nodes,
    First,        \* the node of the first snapshot; the nodes are alike
    MaxBuilds,    \* the chain of snapshots, each of a sandbox resumed from the one before
    MaxDropped,   \* the ancestors that a snapshot no longer maps to
    MaxFaults,    \* the faults of a behaviour
    Faults,       \* the faults that may happen, a subset of Fault
    None

Fault == {"attempt",    \* an attempt of an upload fails and is retried
          "fail",       \* an upload fails for good
          "redis",      \* a peer lookup or Unregister fails
          "crash"}      \* a node goes down; one that comes back is a new node

Builds == 1..MaxBuilds

Header == [done : BOOLEAN,             \* ~IncompletePendingUpload
           entries : SUBSET Builds]    \* the builds in Header.Builds

ASSUME UploadsAssumption ==
    /\ MaxBuilds \in Nat
    /\ MaxFaults \in Nat
    /\ MaxDropped \in Nat
    /\ Faults \subseteq Fault
    /\ First \in Nodes
    /\ None \notin Nodes \cup Header /\ \A e \in SUBSET Builds : e # None

VARIABLES
    origin,    \* per build the node that took it, or None
    hdr,       \* per node and build the header in its template cache, or None
    flag,      \* per node and build peerResolver.uploadedBuilds: "none", "peer"
               \* (present) or "uploaded" (present and set)
    key,       \* the builds with a peer key in Redis
    data,      \* the builds whose data is in storage
    stored,    \* per build the entries of the header in storage, or None
    future,    \* per build the future of its upload, on its origin
    up,        \* per build its upload
    landed,    \* per build whether it is in the origin's Server.uploadedBuilds
    down,      \* the nodes that are down
    faults     \* the faults so far

vars == <<origin, hdr, flag, key, data, stored, future, up, landed, down, faults>>

Upload == [pc : {"none", "data", "wait", "publish", "finish", "advertise",
                 "done", "lost"},
           maps : SUBSET Builds,       \* Mapping.Builds() of the snapshot's header
           todo : SUBSET Builds,       \* the ancestors still to be waited for
           source : SUBSET Builds,     \* the entries of the snapshot's header
           opened : SUBSET Builds,     \* the ancestors its node had opened then
           entries : SUBSET Builds,    \* the entries of the header to be stored
           err : BOOLEAN,              \* the outcome of Run
           own : BOOLEAN]              \* ... is the failure of the upload itself

NoUpload == [pc |-> "none", maps |-> {}, todo |-> {}, source |-> {}, opened |-> {},
             entries |-> {}, err |-> FALSE, own |-> FALSE]

\* The ancestors the header of a snapshot maps blocks to.
Ancestors(b) == up[b].maps
Taken(b) == origin[b] # None
Cached(n, b) == hdr[n][b] # None
IsActive(n, b) == flag[n][b] = "peer"
Goto(b, l) == up' = [up EXCEPT ![b].pc = l]
SwapHeader(n, b, e) == hdr' = [hdr EXCEPT ![n][b] = [done |-> TRUE, entries |-> e]]

\* Run has returned: what it kept is gone.
Returned(b, l) == up' = [up EXCEPT ![b] = [@ EXCEPT !.pc = l, !.todo = {}, !.source = {},
                                                    !.entries = {}]]

Happens(f) ==
    /\ f \in Faults
    /\ faults < MaxFaults
    /\ faults' = faults + 1

Init ==
    /\ origin = [b \in Builds |-> None]
    /\ hdr = [n \in Nodes |-> [b \in Builds |-> None]]
    /\ flag = [n \in Nodes |-> [b \in Builds |-> "none"]]
    /\ key = {}
    /\ data = {}
    /\ stored = [b \in Builds |-> None]
    /\ future = [b \in Builds |-> "none"]
    /\ up = [b \in Builds |-> NoUpload]
    /\ landed = [b \in Builds |-> FALSE]
    /\ down = {}
    /\ faults = 0

-----------------------------------------------------------------------------
(* Snapshots.                                                              *)

\* The builds that the header of the build before b maps to, itself included.
Chain(b) == IF b = 1 THEN {} ELSE Ancestors(b - 1) \cup {b - 1}

\* The entries in the header of the build before b, as node n has it.
SourceBuilds(n, b) == IF b = 1 THEN {} ELSE hdr[n][b - 1].entries

\* snapshotAndCacheSandbox on node n, of a sandbox that runs from the build before
\* b, or from a template. The header still maps to some of the builds that the one
\* before maps to, m, those whose blocks are not all overwritten, and inherits the
\* entries that it has for them at this time (newDiffHeader).
Snapshot(n, b) ==
    /\ n \notin down
    /\ ~Taken(b)
    /\ IF b = 1 THEN n = First ELSE Cached(n, b - 1)
    /\ \E m \in SUBSET Chain(b) :
         LET e == SourceBuilds(n, b) \cap m IN
         /\ b - 1 - Cardinality(m) <= MaxDropped
         /\ hdr' = [hdr EXCEPT ![n][b] = [done |-> FALSE, entries |-> e]]
         /\ up' = [up EXCEPT ![b].pc = "data", ![b].maps = m, ![b].source = e,
                             ![b].opened = {a \in m : Cached(n, a)}]
    /\ origin' = [origin EXCEPT ![b] = n]
    /\ future' = [future EXCEPT ![b] = "running"]
    /\ key' = key \cup {b}
    /\ UNCHANGED <<flag, data, stored, landed, down, faults>>

-----------------------------------------------------------------------------
(* Reads of a build by a node that did not take it.                        *)

\* GetTemplate: the header is the peer's, always marked as incomplete.
FetchFromPeer(n, b) ==
    /\ n \notin down
    /\ Taken(b) /\ origin[b] \notin down
    /\ ~Cached(n, b)
    /\ b \in key /\ flag[n][b] # "uploaded" /\ ~landed[b]
    /\ hdr' = [hdr EXCEPT ![n][b] = [done |-> FALSE, entries |-> hdr[origin[b]][b].entries]]
    /\ flag' = [flag EXCEPT ![n][b] = "peer"]
    /\ UNCHANGED <<origin, key, data, stored, future, up, landed, down, faults>>

\* resolve finds no peer or reads that the build is in storage, or Redis fails.
NoPeer(n, b) ==
    IF b \notin key \/ flag[n][b] = "uploaded" THEN UNCHANGED faults ELSE Happens("redis")

\* GetTemplate: no peer is found, or the peer answers that the build is in
\* storage, or it cannot be reached. Without a header in storage the fallback for
\* templates of the oldest format looks for the uncompressed file of the build; there
\* is none, GetTemplate fails and nothing changes.
FetchFromStorage(n, b) ==
    /\ n \notin down
    /\ Taken(b) /\ ~Cached(n, b)
    /\ stored[b] # None
    /\ SwapHeader(n, b, stored[b])
    /\ \/ NoPeer(n, b) /\ UNCHANGED flag
       \/ /\ b \in key /\ flag[n][b] # "uploaded" /\ origin[b] # n
          /\ origin[b] \in down \/ landed[b]
          /\ flag' = [flag EXCEPT ![n][b] = IF origin[b] \in down THEN "peer" ELSE "uploaded"]
          /\ UNCHANGED faults
    /\ UNCHANGED <<origin, key, data, stored, future, up, landed, down>>

\* The builds whose data a node may open.
Needs(n) == UNION {Ancestors(b) \cup {b} : b \in {c \in Builds : Cached(n, c)}}

\* resolve, when the data of a build is opened: a peer is found.
Resolve(n, b) ==
    /\ n \notin down
    /\ b \in Needs(n) /\ b \in key
    /\ origin[b] # n
    /\ flag[n][b] = "none"
    /\ flag' = [flag EXCEPT ![n][b] = "peer"]
    /\ UNCHANGED <<origin, hdr, key, data, stored, future, up, landed, down, faults>>

\* checkPeerAvailability: the peer answers that the build is in storage.
UseStorage(n, b) ==
    /\ n \notin down /\ IsActive(n, b)
    /\ origin[b] \notin down /\ landed[b]
    /\ flag' = [flag EXCEPT ![n][b] = "uploaded"]
    /\ UNCHANGED <<origin, hdr, key, data, stored, future, up, landed, down, faults>>

\* createDiff for the own data of a build whose header has no entry for it yet:
\* the header is loaded from storage and promoted.
Promote(n, b) ==
    /\ n \notin down
    /\ Cached(n, b) /\ origin[b] # n
    /\ b \notin hdr[n][b].entries
    /\ stored[b] # None
    /\ NoPeer(n, b)
    /\ SwapHeader(n, b, stored[b])
    /\ UNCHANGED <<origin, flag, key, data, stored, future, up, landed, down>>

-----------------------------------------------------------------------------
(* An attempt of an upload: uploadFramed.                                  *)

Running(b, l) == up[b].pc = l /\ origin[b] \notin down

\* The data, then CloneForUpload and the ancestors appendAncestorBuilds waits for.
UploadData(b) ==
    /\ Running(b, "data")
    /\ data' = data \cup {b}
    /\ up' = [up EXCEPT ![b].pc = "wait", ![b].todo = Ancestors(b), ![b].entries = up[b].source]
    /\ UNCHANGED <<origin, hdr, flag, key, stored, future, landed, down, faults>>

\* The entry of ancestor a for itself, taken from a header of a with entries e.
Learn(b, a, e) ==
    up' = [up EXCEPT ![b].todo = @ \ {a}, ![b].entries = @ \cup (e \cap {a})]

\* Uploads.Wait: the upload of the ancestor is one of this node.
WaitFuture(b, a) ==
    LET n == origin[b] IN
    /\ origin[a] = n
    /\ future[a] = "ok"
    /\ Learn(b, a, hdr[n][a].entries)
    /\ UNCHANGED hdr

\* Mutant of WaitCached: an incomplete header will do.
WaitCached_Incomplete(b, a) ==
    LET n == origin[b] IN
    /\ origin[a] # n
    /\ Cached(n, a)
    /\ Learn(b, a, hdr[n][a].entries)
    /\ UNCHANGED hdr

\* ... the template cache has the header, and it is complete.
WaitCached(b, a) ==
    LET n == origin[b] IN
    /\ origin[a] # n
    /\ Cached(n, a) /\ hdr[n][a].done
    /\ Learn(b, a, hdr[n][a].entries)
    /\ UNCHANGED hdr

\* ... the build was never opened here and no peer serves it: it is taken to be
\* in storage and its entry to be in the header already.
WaitAssumed(b, a) ==
    LET n == origin[b] IN
    /\ origin[a] # n
    /\ ~Cached(n, a) /\ ~IsActive(n, a)
    /\ Learn(b, a, {})
    /\ UNCHANGED hdr

\* The wait of an upload of this node polls storage for the header of a.
Polls(n, a) ==
    /\ origin[a] # n
    /\ IF Cached(n, a) THEN ~hdr[n][a].done ELSE IsActive(n, a)

\* PollRemoteStorageForHeader finds the header, which is swapped in.
WaitPolled(b, a) ==
    LET n == origin[b] IN
    /\ Polls(n, a)
    /\ stored[a] # None
    /\ Learn(b, a, stored[a])
    /\ IF Cached(n, a) THEN SwapHeader(n, a, stored[a]) ELSE UNCHANGED hdr

WaitAncestor(b, a) ==
    /\ Running(b, "wait")
    /\ a \in up[b].todo
    /\ WaitFuture(b, a) \/ WaitCached(b, a) \/ WaitAssumed(b, a) \/ WaitPolled(b, a)
    /\ UNCHANGED <<origin, flag, key, data, stored, future, landed, down, faults>>

\* Run returns an error: appendAncestorBuilds returns the failure of the ancestor's
\* upload, by its future, by the message on its channel, or, when that is lost, as
\* the header does not appear within the budget, which outlives the ancestor's.
\* An attempt that is repeated meets the same error.
WaitFails(b, a) ==
    LET n == origin[b] IN
    /\ Running(b, "wait")
    /\ a \in up[b].todo
    /\ \/ origin[a] = n /\ future[a] = "error"
       \/ Polls(n, a) /\ (future[a] = "error" \/ (up[a].pc = "lost" /\ stored[a] = None))
    /\ up' = [up EXCEPT ![b].pc = "finish", ![b].err = TRUE]
    /\ UNCHANGED <<origin, hdr, flag, key, data, stored, future, landed, down, faults>>

StoreHeader(b) ==
    /\ Running(b, "wait")
    /\ up[b].todo = {}
    /\ stored' = [stored EXCEPT ![b] = up[b].entries \cup {b}]
    /\ Goto(b, "publish")
    /\ UNCHANGED <<origin, hdr, flag, key, data, future, landed, down, faults>>

\* publish: the header in the own template cache becomes the final one.
Publish(b) ==
    /\ Running(b, "publish")
    /\ SwapHeader(origin[b], b, stored[b])
    /\ Goto(b, "finish")
    /\ UNCHANGED <<origin, flag, key, data, stored, future, landed, down, faults>>

-----------------------------------------------------------------------------
(* Failures of an attempt and the end of an upload: completeUpload.        *)

\* Before Run has returned; the other files are uploaded in parallel, so an
\* attempt may fail after the header of this one is stored.
InAttempt(b) ==
    /\ up[b].pc \in {"data", "wait", "publish", "finish"} /\ ~up[b].err
    /\ origin[b] \notin down

\* Mutant of Retry: every attempt ends with completeUpload.
Retry_Completes(b) ==
    /\ Happens("attempt")
    /\ InAttempt(b)
    /\ up' = [up EXCEPT ![b].pc = "data", ![b].todo = {}]
    /\ key' = key \ {b}
    /\ UNCHANGED <<origin, hdr, flag, data, stored, future, landed, down>>

\* retry.Do with an error that isRetryableUploadErr accepts.
Retry(b) ==
    /\ Happens("attempt")
    /\ InAttempt(b)
    /\ up' = [up EXCEPT ![b].pc = "data", ![b].todo = {}]
    /\ UNCHANGED <<origin, hdr, flag, key, data, stored, future, landed, down>>

\* ... or with another error, or when its budget is exhausted.
GiveUp(b) ==
    /\ Happens("fail")
    /\ InAttempt(b)
    /\ up' = [up EXCEPT ![b].pc = "finish", ![b].err = TRUE, ![b].own = TRUE]
    /\ UNCHANGED <<origin, hdr, flag, key, data, stored, future, landed, down>>

\* Mutant of Finish: the future is set on an error only.
Finish_OnlyError(b) ==
    /\ Running(b, "finish")
    /\ future' = [future EXCEPT ![b] = IF up[b].err THEN "error" ELSE "running"]
    /\ Returned(b, "advertise")
    /\ UNCHANGED <<origin, hdr, flag, key, data, stored, landed, down, faults>>

\* Upload.Finish.
Finish(b) ==
    /\ Running(b, "finish")
    /\ future' = [future EXCEPT ![b] = IF up[b].err THEN "error" ELSE "ok"]
    /\ Returned(b, "advertise")
    /\ UNCHANGED <<origin, hdr, flag, key, data, stored, landed, down, faults>>

\* Then, if peers are enabled: a build that landed is advertised as uploaded, and
\* the key is removed. A reader that still finds the key is told to use storage.
Advertise(b) ==
    /\ Running(b, "advertise")
    /\ landed' = [landed EXCEPT ![b] = ~up[b].err]
    /\ \/ key' = key \ {b} /\ UNCHANGED faults
       \/ Happens("redis") /\ UNCHANGED key
    /\ Goto(b, "done")
    /\ UNCHANGED <<origin, hdr, flag, data, stored, future, down>>

\* redisPeerKeyTTL, which is longer than an upload may take.
KeyExpires(b) ==
    /\ b \in key
    /\ up[b].pc \in {"done", "lost"}
    /\ key' = key \ {b}
    /\ UNCHANGED <<origin, hdr, flag, data, stored, future, up, landed, down, faults>>

\* The caches, the flags and the uploads of the node are gone.
Crash(n) ==
    /\ Happens("crash")
    /\ n \notin down
    /\ down' = down \cup {n}
    /\ hdr' = [hdr EXCEPT ![n] = [b \in Builds |-> None]]
    /\ flag' = [flag EXCEPT ![n] = [b \in Builds |-> "none"]]
    /\ up' = [b \in Builds |-> IF origin[b] = n /\ up[b].pc # "done"
                               THEN [NoUpload EXCEPT !.pc = "lost", !.maps = up[b].maps,
                                                     !.opened = up[b].opened]
                               ELSE up[b]]
    /\ UNCHANGED <<origin, key, data, stored, future, landed>>

UploadStep(b) ==
    \/ UploadData(b)
    \/ \E a \in Builds : WaitAncestor(b, a) \/ WaitFails(b, a)
    \/ StoreHeader(b) \/ Publish(b)
    \/ Finish(b) \/ Advertise(b)

Next ==
    \/ \E n \in Nodes, b \in Builds :
         \/ Snapshot(n, b)
         \/ FetchFromPeer(n, b) \/ FetchFromStorage(n, b)
         \/ Resolve(n, b) \/ UseStorage(n, b) \/ Promote(n, b)
    \/ \E b \in Builds : UploadStep(b) \/ Retry(b) \/ GiveUp(b) \/ KeyExpires(b)
    \/ \E n \in Nodes : Crash(n)

Spec == Init /\ [][Next]_vars

Fairness == \A b \in Builds : WF_vars(UploadStep(b))

FairSpec == Spec /\ Fairness

-----------------------------------------------------------------------------
(* Properties.                                                             *)

\* The header of b in storage can be read as far as ancestor a is concerned: the
\* header of a is in storage too, and b has its entry. LoadHeader takes a missing
\* entry for that of an uncompressed build of the oldest format, and the reader
\* then opens a file that does not exist.
CompleteFor(b, a) == a \in stored[b] /\ stored[a] # None

\* A header is stored after its own data and after the headers of the ancestors
\* that its node had opened, among them the snapshot it was resumed from if it still
\* maps to it, with the entries that their uploads made: a snapshot in storage never
\* depends on such an upload that is still in flight or has failed.
OpenedAncestorsFirst ==
    \A b \in Builds : stored[b] # None =>
        b \in data /\ \A a \in up[b].opened : CompleteFor(b, a)

\* The same for every ancestor: of one that was never opened and is not served by
\* a peer, "the caller already carries its BuildData through srcHeader.Builds"
\* (uploads.go:106-107), as it is "durable in storage" (resolver.go:178-179).
HeadersComplete ==
    \A b \in Builds : stored[b] # None => \A a \in Ancestors(b) : CompleteFor(b, a)

\* A node that has resumed a snapshot finds the data of all the builds it maps
\* to: on the node, with a peer, or in storage with a header. (A build whose upload
\* failed, or whose node went down, is lost to it.)
Readable ==
    \A n \in Nodes \ down : \A a \in Needs(n) :
        \/ origin[a] = n \/ a \in key \/ stored[a] # None
        \/ up[a].err \/ origin[a] \in down

\* An upload whose ancestors have all landed lands, unless it fails by itself or
\* its node goes down: no wait for an ancestor is without end, and none reports a
\* failure that did not happen. (Once an upload is in one of these states it stays
\* there, as do its ancestors: to be there again and again is to get there.)
LandsAfterAncestors ==
    []<>(\A b \in Builds :
            (Taken(b) /\ \A a \in Ancestors(b) : future[a] = "ok")
                => future[b] = "ok" \/ up[b].own \/ up[b].pc = "lost")

-----------------------------------------------------------------------------
(* The inductive invariant.                                                *)

\* Every variable has its type.
TypeOK ==
    /\ origin \in [Builds -> Nodes \cup {None}]
    /\ hdr \in [Nodes -> [Builds -> Header \cup {None}]]
    /\ flag \in [Nodes -> [Builds -> {"none", "peer", "uploaded"}]]
    /\ key \subseteq Builds
    /\ data \subseteq Builds
    /\ stored \in [Builds -> (SUBSET Builds) \cup {None}]
    /\ future \in [Builds -> {"none", "running", "ok", "error"}]
    /\ up \in [Builds -> Upload]
    /\ landed \in [Builds -> BOOLEAN]
    /\ down \subseteq Nodes
    /\ faults \in Nat

InStorage == {b \in Builds : stored[b] # None}

\* Snapshots are taken one after the other, and there is nothing of one before that.
ChainTaken ==
    \A b \in Builds :
        /\ Taken(b) => \A a \in Ancestors(b) : Taken(a)
        /\ Taken(b) <=> up[b].pc # "none"
        /\ ~Taken(b) => /\ stored[b] = None /\ future[b] = "none"
                        /\ \A n \in Nodes : ~Cached(n, b)

\* A header has no entry of a build before the header of that one is in storage, and
\* a complete header has the entry of its own build.
EntriesStored ==
    /\ \A n \in Nodes, b \in Builds : Cached(n, b) =>
         /\ hdr[n][b].entries \subseteq InStorage
         /\ hdr[n][b].done => b \in hdr[n][b].entries
    /\ \A b \in InStorage : b \in data /\ b \in stored[b] /\ stored[b] \subseteq InStorage

\* The node of a snapshot keeps its header, and the headers it had opened then.
OriginCaches ==
    \A b \in Builds : (Taken(b) /\ origin[b] \notin down) =>
        /\ Cached(origin[b], b)
        /\ \A a \in up[b].opened : Cached(origin[b], a)

\* What an upload knows at its step.
UploadAtPC ==
    \A b \in Builds :
        /\ up[b].source \subseteq InStorage /\ up[b].entries \subseteq InStorage
        /\ up[b].opened \subseteq Ancestors(b)
        /\ up[b].pc = "wait" => b \in data /\ up[b].opened \ up[b].todo \subseteq up[b].entries
        /\ up[b].pc = "publish" => stored[b] # None
        /\ (up[b].pc \in {"finish", "advertise", "done"} /\ ~up[b].err) => stored[b] # None
        /\ up[b].pc = "lost" => origin[b] \in down
        /\ stored[b] # None => up[b].opened \subseteq stored[b]

\* When an upload is done, the header in the cache of its node is the complete one.
Published ==
    \A b \in Builds : ((up[b].pc = "finish" /\ ~up[b].err) \/ future[b] = "ok") =>
        origin[b] \in down \/ hdr[origin[b]][b].done

\* A peer serves a snapshot until its upload is over.
PeersServe == \A b \in Builds : Taken(b) => b \in key \/ up[b].pc \in {"done", "lost"}

\* The types, and what uploads and readers rely on.
UploadsInv ==
    /\ TypeOK /\ ChainTaken /\ EntriesStored /\ OriginCaches
    /\ UploadAtPC /\ Published /\ PeersServe
=============================================================================
