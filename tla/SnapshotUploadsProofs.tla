------------------------ MODULE SnapshotUploadsProofs -----------------------
(***************************************************************************)
(* Theorems about the upload of snapshots, for any number of nodes, chain  *)
(* of snapshots and number of faults. The lemmas X-Effect say what the     *)
(* steps that change an upload or a cached header change, the lemmas       *)
(* X-Step preserve the conjuncts of UploadsInv.                            *)
(***************************************************************************)
EXTENDS SnapshotUploads, TLAPS

UpTypes == up \in [Builds -> Upload]
HdrTypes == hdr \in [Nodes -> [Builds -> Header \cup {None}]]

\* A step of one upload.
UpFrame(b) == \A c \in Builds : c # b => up'[c] = up[c]

\* The fields of an upload after a step, but maps and opened, which only Snapshot sets.
Becomes(b, pc, todo, source, entries) ==
    /\ up'[b].pc = pc /\ up'[b].todo = todo /\ up'[b].source = source
    /\ up'[b].entries = entries /\ up'[b].opened = up[b].opened
    /\ up'[b].maps = up[b].maps

SameErr(b) == up'[b].err <=> up[b].err

\* The node n has a header of the build b in its cache.
Caches(n, b, done, entries) ==
    /\ hdr'[n][b] # None /\ (hdr'[n][b].done <=> done) /\ hdr'[n][b].entries = entries
    /\ \A m \in Nodes, c \in Builds : (m # n \/ c # b) => hdr'[m][c] = hdr[m][c]

LEMMA HeaderIsNotNone == \A r \in Header : r # None
  BY UploadsAssumption

\* A header is put into a cache.
LEMMA HdrUpdate ==
  ASSUME HdrTypes, NEW n \in Nodes, NEW b \in Builds, NEW d \in BOOLEAN, NEW e \in SUBSET Builds,
         hdr' = [hdr EXCEPT ![n][b] = [done |-> d, entries |-> e]]
  PROVE  HdrTypes' /\ Caches(n, b, d, e)
<1>1. [done |-> d, entries |-> e] \in Header
  BY DEF Header
<1>2. hdr'[n][b] = [done |-> d, entries |-> e] /\ HdrTypes'
  BY <1>1 DEF HdrTypes
<1>3. hdr'[n][b] # None
  BY <1>1, <1>2, HeaderIsNotNone
<1>4. (hdr'[n][b].done <=> d) /\ hdr'[n][b].entries = e
  BY <1>2
<1>5. \A m \in Nodes, c \in Builds : (m # n \/ c # b) => hdr'[m][c] = hdr[m][c]
  BY DEF HdrTypes
<1> QED
  BY <1>2, <1>3, <1>4, <1>5 DEF Caches

\* No header leaves a cache, and a complete one stays complete.
HdrKept ==
    \A m \in Nodes, c \in Builds :
        Cached(m, c) => hdr'[m][c] # None /\ (hdr[m][c].done => hdr'[m][c].done)

LEMMA CachesKeeps ==
  ASSUME NEW n \in Nodes, NEW b \in Builds, NEW d \in BOOLEAN, NEW e, Caches(n, b, d, e),
         d \/ ~Cached(n, b)
  PROVE  HdrKept
  BY DEF HdrKept, Caches, Cached

\* An upload is updated.
LEMMA UpUpdate ==
  ASSUME UpTypes, NEW b \in Builds, NEW r \in Upload, up' = [up EXCEPT ![b] = r]
  PROVE  UpTypes' /\ up'[b] = r /\ UpFrame(b)
  BY DEF UpTypes, UpFrame

\* The fields that steps change.
LEMMA UpFields ==
  ASSUME NEW r \in Upload, NEW x \in SUBSET Builds, NEW y \in SUBSET Builds, NEW z \in SUBSET Builds
  PROVE  /\ [r EXCEPT !.pc = "data", !.maps = z, !.source = x, !.opened = y] \in Upload
         /\ [r EXCEPT !.pc = "wait", !.todo = x, !.entries = y] \in Upload
         /\ [r EXCEPT !.todo = x, !.entries = y] \in Upload
         /\ [r EXCEPT !.pc = "finish", !.err = TRUE] \in Upload
         /\ [r EXCEPT !.pc = "finish", !.err = TRUE, !.own = TRUE] \in Upload
         /\ [r EXCEPT !.pc = "data", !.todo = {}] \in Upload
         /\ [r EXCEPT !.pc = "advertise", !.todo = {}, !.source = {}, !.entries = {}] \in Upload
         /\ \A l \in {"publish", "finish", "done"} : [r EXCEPT !.pc = l] \in Upload
<1>1. [r EXCEPT !.pc = "data", !.maps = z, !.source = x, !.opened = y] \in Upload
  BY DEF Upload
<1>2. [r EXCEPT !.pc = "wait", !.todo = x, !.entries = y] \in Upload
  BY DEF Upload
<1>3. [r EXCEPT !.todo = x, !.entries = y] \in Upload
  BY DEF Upload
<1>4. [r EXCEPT !.pc = "finish", !.err = TRUE] \in Upload
  BY DEF Upload
<1>5. [r EXCEPT !.pc = "finish", !.err = TRUE, !.own = TRUE] \in Upload
  BY DEF Upload
<1>6. [r EXCEPT !.pc = "data", !.todo = {}] \in Upload
  BY DEF Upload
<1>7. [r EXCEPT !.pc = "advertise", !.todo = {}, !.source = {}, !.entries = {}] \in Upload
  BY DEF Upload
<1>8. \A l \in {"publish", "finish", "done"} : [r EXCEPT !.pc = l] \in Upload
  BY DEF Upload
<1> QED
  BY <1>1, <1>2, <1>3, <1>4, <1>5, <1>6, <1>7, <1>8

\* Ancestors are builds.
LEMMA AncestorsAreBuilds ==
  ASSUME TypeOK PROVE \A b \in Builds : Ancestors(b) \subseteq Builds
  BY DEF Ancestors, TypeOK, Upload

\* An upload that runs is of a snapshot that a node in service has taken.
LEMMA RunsAtOrigin ==
  ASSUME TypeOK, ChainTaken, OriginCaches, NEW b \in Builds, up[b].pc # "none", origin[b] \notin down
  PROVE  /\ Taken(b) /\ origin[b] \in Nodes /\ Cached(origin[b], b)
         /\ hdr[origin[b]][b] \in Header
  BY DEF TypeOK, ChainTaken, OriginCaches, Taken, Cached

\* What the header of a snapshot that maps to the builds m inherits, and the ancestors
\* opened by its node.
Inherits(n, b, m) == SourceBuilds(n, b) \cap m
OpenedOn(n, m) == {a \in m : Cached(n, a)}

\* A snapshot is taken.
LEMMA SnapshotEffect ==
  ASSUME TypeOK, ChainTaken, NEW n \in Nodes, NEW b \in Builds, Snapshot(n, b)
  PROVE  /\ n \notin down /\ ~Taken(b) /\ (b # 1 => b - 1 \in Builds /\ Cached(n, b - 1))
         /\ up'[b].maps \in SUBSET Builds /\ up'[b].maps \subseteq Chain(b)
         /\ Caches(n, b, FALSE, Inherits(n, b, up'[b].maps)) /\ HdrTypes'
         /\ UpFrame(b) /\ UpTypes' /\ up'[b].pc = "data"
         /\ up'[b].source = Inherits(n, b, up'[b].maps)
         /\ up'[b].opened = OpenedOn(n, up'[b].maps)
         /\ up'[b].todo = up[b].todo /\ up'[b].entries = up[b].entries /\ SameErr(b)
         /\ origin'[b] = n /\ \A c \in Builds : c # b => origin'[c] = origin[c]
         /\ future'[b] = "running" /\ \A c \in Builds : c # b => future'[c] = future[c]
         /\ origin' \in [Builds -> Nodes \cup {None}]
         /\ future' \in [Builds -> {"none", "running", "ok", "error"}]
         /\ key' = key \cup {b}
         /\ UNCHANGED <<flag, data, stored, landed, down, faults>>
<1>0. PICK m \in SUBSET Chain(b) :
        /\ hdr' = [hdr EXCEPT ![n][b] = [done |-> FALSE, entries |-> Inherits(n, b, m)]]
        /\ up' = [up EXCEPT ![b].pc = "data", ![b].maps = m, ![b].source = Inherits(n, b, m),
                            ![b].opened = OpenedOn(n, m)]
  BY DEF Snapshot, Inherits, OpenedOn
<1> DEFINE e == Inherits(n, b, m)
           o == OpenedOn(n, m)
<1>1. b # 1 => b - 1 \in Builds /\ Cached(n, b - 1)
  BY UploadsAssumption DEF Snapshot, Builds
<1>2. HdrTypes /\ UpTypes
  BY DEF TypeOK, HdrTypes, UpTypes
<1>m. m \in SUBSET Builds
  BY <1>0, <1>1, AncestorsAreBuilds DEF Chain
<1>3. e \in SUBSET Builds
  BY <1>m DEF Inherits
<1>4. o \in SUBSET Builds
  BY <1>m DEF OpenedOn
<1>5. /\ hdr' = [hdr EXCEPT ![n][b] = [done |-> FALSE, entries |-> e]]
      /\ up' = [up EXCEPT ![b].pc = "data", ![b].maps = m, ![b].source = e, ![b].opened = o]
  BY <1>0
<1> HIDE DEF e, o
<1>6. Caches(n, b, FALSE, e) /\ HdrTypes'
  BY <1>2, <1>3, <1>5, HdrUpdate
<1>7. up' = [up EXCEPT ![b] = [up[b] EXCEPT !.pc = "data", !.maps = m, !.source = e, !.opened = o]]
  BY <1>2, <1>5 DEF UpTypes
<1>8. [up[b] EXCEPT !.pc = "data", !.maps = m, !.source = e, !.opened = o] \in Upload
  BY <1>2, <1>m, <1>3, <1>4, UpFields DEF UpTypes
<1>9. UpFrame(b) /\ UpTypes'
  BY <1>2, <1>7, <1>8, UpUpdate
<1>10. /\ up'[b].pc = "data" /\ up'[b].maps = m /\ up'[b].source = e /\ up'[b].opened = o
       /\ up'[b].todo = up[b].todo /\ up'[b].entries = up[b].entries /\ SameErr(b)
  BY <1>2, <1>7 DEF UpTypes, Upload, SameErr
<1>11. /\ origin'[b] = n /\ \A c \in Builds : c # b => origin'[c] = origin[c]
       /\ future'[b] = "running" /\ \A c \in Builds : c # b => future'[c] = future[c]
       /\ origin' \in [Builds -> Nodes \cup {None}]
       /\ future' \in [Builds -> {"none", "running", "ok", "error"}]
  BY DEF Snapshot, TypeOK
<1> QED
  BY <1>0, <1>m, <1>1, <1>6, <1>9, <1>10, <1>11 DEF Snapshot, e, o

\* ... and only that snapshot.
LEMMA SnapshotFrame ==
  ASSUME TypeOK, NEW n \in Nodes, NEW b \in Builds, Snapshot(n, b)
  PROVE  /\ origin'[b] = n /\ future'[b] = "running" /\ key' = key \cup {b} /\ UNCHANGED down
         /\ \A c \in Builds \ {b} : /\ up'[c] = up[c] /\ origin'[c] = origin[c]
                                    /\ future'[c] = future[c]
<1>1. /\ origin'[b] = n /\ future'[b] = "running" /\ key' = key \cup {b} /\ UNCHANGED down
      /\ \A c \in Builds \ {b} : origin'[c] = origin[c] /\ future'[c] = future[c]
  BY DEF Snapshot, TypeOK
<1>2. \A c \in Builds \ {b} : up'[c] = up[c]
  BY DEF Snapshot, TypeOK
<1> QED
  BY <1>1, <1>2

\* A header is read from the peer.
LEMMA FetchFromPeerEffect ==
  ASSUME TypeOK, ChainTaken, OriginCaches, NEW n \in Nodes, NEW b \in Builds, FetchFromPeer(n, b)
  PROVE  /\ Taken(b) /\ ~Cached(n, b) /\ n \notin down /\ origin[b] \in Nodes
         /\ Cached(origin[b], b) /\ HdrTypes'
         /\ Caches(n, b, FALSE, hdr[origin[b]][b].entries)
         /\ flag' \in [Nodes -> [Builds -> {"none", "peer", "uploaded"}]]
         /\ UNCHANGED <<origin, key, data, stored, future, up, landed, down, faults>>
<1>1. HdrTypes /\ origin[b] \in Nodes /\ Cached(origin[b], b)
  BY DEF TypeOK, HdrTypes, FetchFromPeer, Taken, OriginCaches
<1>2. hdr[origin[b]][b].entries \in SUBSET Builds
  BY <1>1 DEF HdrTypes, Cached, Header
<1>3. flag' \in [Nodes -> [Builds -> {"none", "peer", "uploaded"}]]
  BY DEF TypeOK, FetchFromPeer
<1> QED
  BY <1>1, <1>2, <1>3, HdrUpdate DEF FetchFromPeer

\* A header is read from storage.
LEMMA FetchFromStorageEffect ==
  ASSUME TypeOK, NEW n \in Nodes, NEW b \in Builds, FetchFromStorage(n, b)
  PROVE  /\ stored[b] # None /\ n \notin down /\ Taken(b) /\ ~Cached(n, b) /\ HdrTypes'
         /\ Caches(n, b, TRUE, stored[b])
         /\ UNCHANGED <<origin, key, data, stored, future, up, landed, down>>
         /\ faults' \in Nat /\ flag' \in [Nodes -> [Builds -> {"none", "peer", "uploaded"}]]
<1>1. HdrTypes /\ stored[b] # None /\ stored[b] \in SUBSET Builds
  BY DEF TypeOK, HdrTypes, FetchFromStorage
<1>2. faults' \in Nat
  BY DEF FetchFromStorage, NoPeer, Happens, TypeOK
<1>3. flag' \in [Nodes -> [Builds -> {"none", "peer", "uploaded"}]]
  <2>1. flag \in [Nodes -> [Builds -> {"none", "peer", "uploaded"}]]
    BY DEF TypeOK
  <2>2. UNCHANGED flag \/ \E v \in {"peer", "uploaded"} : flag' = [flag EXCEPT ![n][b] = v]
    BY DEF FetchFromStorage
  <2> QED
    BY <2>1, <2>2
<1> QED
  BY <1>1, <1>2, <1>3, HdrUpdate DEF FetchFromStorage, SwapHeader

\* A header is replaced by the one in storage.
LEMMA PromoteEffect ==
  ASSUME TypeOK, NEW n \in Nodes, NEW b \in Builds, Promote(n, b)
  PROVE  /\ stored[b] # None /\ n \notin down /\ Cached(n, b) /\ HdrTypes'
         /\ Caches(n, b, TRUE, stored[b])
         /\ UNCHANGED <<origin, key, data, stored, future, up, landed, down>>
         /\ faults' \in Nat /\ flag' \in [Nodes -> [Builds -> {"none", "peer", "uploaded"}]]
<1>1. HdrTypes /\ stored[b] # None /\ stored[b] \in SUBSET Builds
  BY DEF TypeOK, HdrTypes, Promote
<1>2. faults' \in Nat
  BY DEF Promote, NoPeer, Happens, TypeOK
<1>3. flag' \in [Nodes -> [Builds -> {"none", "peer", "uploaded"}]]
  BY DEF Promote, TypeOK
<1> QED
  BY <1>1, <1>2, <1>3, HdrUpdate DEF Promote, SwapHeader

\* The data of a build is in storage.
LEMMA UploadDataEffect ==
  ASSUME TypeOK, NEW b \in Builds, UploadData(b)
  PROVE  /\ up[b].pc = "data" /\ origin[b] \notin down /\ UpFrame(b) /\ UpTypes'
         /\ Becomes(b, "wait", Ancestors(b), up[b].source, up[b].source) /\ SameErr(b)
         /\ data' = data \cup {b}
         /\ UNCHANGED <<origin, hdr, flag, key, stored, future, landed, down, faults>>
<1>1. UpTypes /\ up[b].pc = "data" /\ origin[b] \notin down
  BY DEF TypeOK, UpTypes, UploadData, Running
<1>2. [up[b] EXCEPT !.pc = "wait", !.todo = Ancestors(b), !.entries = up[b].source] \in Upload
  <2>1. up[b] \in Upload /\ Ancestors(b) \in SUBSET Builds /\ up[b].source \in SUBSET Builds
    BY <1>1, AncestorsAreBuilds DEF UpTypes, Upload
  <2> QED
    BY <2>1, UpFields
<1>3. up' = [up EXCEPT ![b] = [up[b] EXCEPT !.pc = "wait", !.todo = Ancestors(b), !.entries = up[b].source]]
  BY <1>1 DEF UploadData, UpTypes, Running
<1>4. UpTypes' /\ UpFrame(b)
  BY <1>1, <1>2, <1>3, UpUpdate
<1>5. Becomes(b, "wait", Ancestors(b), up[b].source, up[b].source) /\ SameErr(b)
  BY <1>1, <1>3 DEF UpTypes, Upload, Becomes, SameErr
<1> QED
  BY <1>1, <1>4, <1>5 DEF UploadData, Running

\* The header of a build is in storage.
LEMMA StoreHeaderEffect ==
  ASSUME TypeOK, NEW b \in Builds, StoreHeader(b)
  PROVE  /\ up[b].pc = "wait" /\ up[b].todo = {} /\ origin[b] \notin down /\ UpFrame(b) /\ UpTypes'
         /\ Becomes(b, "publish", up[b].todo, up[b].source, up[b].entries) /\ SameErr(b)
         /\ stored'[b] = up[b].entries \cup {b} /\ stored'[b] # None
         /\ \A c \in Builds : c # b => stored'[c] = stored[c]
         /\ stored' \in [Builds -> (SUBSET Builds) \cup {None}]
         /\ UNCHANGED <<origin, hdr, flag, key, data, future, landed, down, faults>>
<1>1. UpTypes /\ up[b].pc = "wait" /\ up[b].todo = {} /\ origin[b] \notin down
  BY DEF TypeOK, UpTypes, StoreHeader, Running, Goto
<1>2. [up[b] EXCEPT !.pc = "publish"] \in Upload
  BY <1>1, UpFields DEF UpTypes
<1>3. up' = [up EXCEPT ![b] = [up[b] EXCEPT !.pc = "publish"]]
  BY <1>1 DEF StoreHeader, UpTypes, Running, Goto
<1>4. UpTypes' /\ UpFrame(b)
  BY <1>1, <1>2, <1>3, UpUpdate
<1>5. Becomes(b, "publish", up[b].todo, up[b].source, up[b].entries) /\ SameErr(b)
  BY <1>1, <1>3 DEF UpTypes, Upload, Becomes, SameErr
<1>6. /\ stored'[b] = up[b].entries \cup {b} /\ stored'[b] # None
      /\ \A c \in Builds : c # b => stored'[c] = stored[c]
      /\ stored' \in [Builds -> (SUBSET Builds) \cup {None}]
  <2>1. up[b].entries \cup {b} \in SUBSET Builds
    BY <1>1 DEF UpTypes, Upload
  <2> QED
    BY <2>1, UploadsAssumption DEF StoreHeader, TypeOK
<1> QED
  BY <1>1, <1>4, <1>5, <1>6 DEF StoreHeader, Running, Goto

\* The header in the cache of the node is the one in storage.
LEMMA PublishEffect ==
  ASSUME TypeOK, ChainTaken, OriginCaches, UploadAtPC, NEW b \in Builds, Publish(b)
  PROVE  /\ up[b].pc = "publish" /\ origin[b] \notin down /\ UpFrame(b) /\ UpTypes'
         /\ Becomes(b, "finish", up[b].todo, up[b].source, up[b].entries) /\ SameErr(b)
         /\ origin[b] \in Nodes /\ Caches(origin[b], b, TRUE, stored[b]) /\ HdrTypes' /\ stored[b] # None
         /\ UNCHANGED <<origin, flag, key, data, stored, future, landed, down, faults>>
<1>1. UpTypes /\ up[b].pc = "publish" /\ origin[b] \notin down
  BY DEF TypeOK, UpTypes, Publish, Running, Goto
<1>2. [up[b] EXCEPT !.pc = "finish"] \in Upload
  BY <1>1, UpFields DEF UpTypes
<1>3. up' = [up EXCEPT ![b] = [up[b] EXCEPT !.pc = "finish"]]
  BY <1>1 DEF Publish, UpTypes, Running, Goto
<1>4. UpTypes' /\ UpFrame(b)
  BY <1>1, <1>2, <1>3, UpUpdate
<1>5. Becomes(b, "finish", up[b].todo, up[b].source, up[b].entries) /\ SameErr(b)
  BY <1>1, <1>3 DEF UpTypes, Upload, Becomes, SameErr
<1>6. origin[b] \in Nodes /\ Caches(origin[b], b, TRUE, stored[b]) /\ HdrTypes' /\ stored[b] # None
  <2>1. HdrTypes /\ stored[b] # None /\ stored[b] \in SUBSET Builds
    BY <1>1 DEF TypeOK, HdrTypes, UploadAtPC
  <2>2. origin[b] \in Nodes
    BY <1>1, RunsAtOrigin
  <2> QED
    BY <2>1, <2>2, HdrUpdate DEF Publish, SwapHeader
<1> QED
  BY <1>1, <1>4, <1>5, <1>6 DEF Publish, Running, Goto

\* The future of the upload is set.
LEMMA FinishEffect ==
  ASSUME TypeOK, NEW b \in Builds, Finish(b)
  PROVE  /\ up[b].pc = "finish" /\ origin[b] \notin down /\ UpFrame(b) /\ UpTypes'
         /\ Becomes(b, "advertise", {}, {}, {}) /\ SameErr(b)
         /\ future'[b] = (IF up[b].err THEN "error" ELSE "ok") /\ \A c \in Builds : c # b => future'[c] = future[c]
         /\ future' \in [Builds -> {"none", "running", "ok", "error"}]
         /\ UNCHANGED <<origin, hdr, flag, key, data, stored, landed, down, faults>>
<1>1. UpTypes /\ up[b].pc = "finish" /\ origin[b] \notin down
  BY DEF TypeOK, UpTypes, Finish, Running, Returned
<1>2. [up[b] EXCEPT !.pc = "advertise", !.todo = {}, !.source = {}, !.entries = {}] \in Upload
  BY <1>1, UpFields DEF UpTypes
<1>3. up' = [up EXCEPT ![b] = [up[b] EXCEPT !.pc = "advertise", !.todo = {}, !.source = {}, !.entries = {}]]
  BY <1>1 DEF Finish, UpTypes, Running, Returned
<1>4. UpTypes' /\ UpFrame(b)
  BY <1>1, <1>2, <1>3, UpUpdate
<1>5. Becomes(b, "advertise", {}, {}, {}) /\ SameErr(b)
  BY <1>1, <1>3 DEF UpTypes, Upload, Becomes, SameErr
<1>6. /\ future'[b] = (IF up[b].err THEN "error" ELSE "ok")
      /\ \A c \in Builds : c # b => future'[c] = future[c]
      /\ future' \in [Builds -> {"none", "running", "ok", "error"}]
  BY DEF Finish, TypeOK
<1> QED
  BY <1>1, <1>4, <1>5, <1>6 DEF Finish, Running, Returned

\* The upload is over.
LEMMA AdvertiseEffect ==
  ASSUME TypeOK, NEW b \in Builds, Advertise(b)
  PROVE  /\ up[b].pc = "advertise" /\ origin[b] \notin down /\ UpFrame(b) /\ UpTypes'
         /\ Becomes(b, "done", up[b].todo, up[b].source, up[b].entries) /\ SameErr(b)
         /\ key' = key \/ key' = key \ {b}
         /\ faults' \in Nat /\ landed' \in [Builds -> BOOLEAN]
         /\ UNCHANGED <<origin, hdr, flag, data, stored, future, down>>
<1>1. UpTypes /\ up[b].pc = "advertise" /\ origin[b] \notin down
  BY DEF TypeOK, UpTypes, Advertise, Running, Goto
<1>2. [up[b] EXCEPT !.pc = "done"] \in Upload
  BY <1>1, UpFields DEF UpTypes
<1>3. up' = [up EXCEPT ![b] = [up[b] EXCEPT !.pc = "done"]]
  BY <1>1 DEF Advertise, UpTypes, Running, Goto
<1>4. UpTypes' /\ UpFrame(b)
  BY <1>1, <1>2, <1>3, UpUpdate
<1>5. Becomes(b, "done", up[b].todo, up[b].source, up[b].entries) /\ SameErr(b)
  BY <1>1, <1>3 DEF UpTypes, Upload, Becomes, SameErr
<1>6. landed' \in [Builds -> BOOLEAN] /\ faults' \in Nat
  BY <1>1 DEF Advertise, TypeOK, UpTypes, Upload, Happens
<1> QED
  BY <1>1, <1>4, <1>5, <1>6 DEF Advertise, Running, Goto

\* An attempt begins anew.
LEMMA RetryEffect ==
  ASSUME TypeOK, NEW b \in Builds, Retry(b)
  PROVE  /\ up[b].pc \in {"data", "wait", "publish", "finish"} /\ ~up[b].err /\ origin[b] \notin down
         /\ UpFrame(b) /\ UpTypes'
         /\ Becomes(b, "data", {}, up[b].source, up[b].entries) /\ SameErr(b)
         /\ faults' \in Nat
         /\ UNCHANGED <<origin, hdr, flag, key, data, stored, future, landed, down>>
<1>1. UpTypes /\ up[b].pc \in {"data", "wait", "publish", "finish"} /\ ~up[b].err /\ origin[b] \notin down
  BY DEF TypeOK, UpTypes, Retry, InAttempt
<1>2. [up[b] EXCEPT !.pc = "data", !.todo = {}] \in Upload
  BY <1>1, UpFields DEF UpTypes
<1>3. up' = [up EXCEPT ![b] = [up[b] EXCEPT !.pc = "data", !.todo = {}]]
  BY <1>1 DEF Retry, UpTypes, InAttempt
<1>4. UpTypes' /\ UpFrame(b)
  BY <1>1, <1>2, <1>3, UpUpdate
<1>5. Becomes(b, "data", {}, up[b].source, up[b].entries) /\ SameErr(b)
  BY <1>1, <1>3 DEF UpTypes, Upload, Becomes, SameErr
<1>6. faults' \in Nat
  BY DEF Retry, TypeOK, Happens
<1> QED
  BY <1>1, <1>4, <1>5, <1>6 DEF Retry, InAttempt

\* An upload fails.
LEMMA GiveUpEffect ==
  ASSUME TypeOK, NEW b \in Builds, GiveUp(b)
  PROVE  /\ up[b].pc \in {"data", "wait", "publish", "finish"} /\ origin[b] \notin down
         /\ UpFrame(b) /\ UpTypes'
         /\ Becomes(b, "finish", up[b].todo, up[b].source, up[b].entries) /\ up'[b].err
         /\ faults' \in Nat
         /\ UNCHANGED <<origin, hdr, flag, key, data, stored, future, landed, down>>
<1>1. UpTypes /\ up[b].pc \in {"data", "wait", "publish", "finish"} /\ origin[b] \notin down
  BY DEF TypeOK, UpTypes, GiveUp, InAttempt
<1>2. [up[b] EXCEPT !.pc = "finish", !.err = TRUE, !.own = TRUE] \in Upload
  BY <1>1, UpFields DEF UpTypes
<1>3. up' = [up EXCEPT ![b] = [up[b] EXCEPT !.pc = "finish", !.err = TRUE, !.own = TRUE]]
  BY <1>1 DEF GiveUp, UpTypes, InAttempt
<1>4. UpTypes' /\ UpFrame(b)
  BY <1>1, <1>2, <1>3, UpUpdate
<1>5. Becomes(b, "finish", up[b].todo, up[b].source, up[b].entries) /\ up'[b].err
  BY <1>1, <1>3 DEF UpTypes, Upload, Becomes, SameErr
<1>6. faults' \in Nat
  BY DEF GiveUp, TypeOK, Happens
<1> QED
  BY <1>1, <1>4, <1>5, <1>6 DEF GiveUp, InAttempt

\* An upload fails as that of an ancestor did.
LEMMA WaitFailsEffect ==
  ASSUME TypeOK, NEW b \in Builds, NEW a \in Builds, WaitFails(b, a)
  PROVE  /\ up[b].pc = "wait" /\ origin[b] \notin down /\ UpFrame(b) /\ UpTypes'
         /\ Becomes(b, "finish", up[b].todo, up[b].source, up[b].entries) /\ up'[b].err
         /\ UNCHANGED <<origin, hdr, flag, key, data, stored, future, landed, down, faults>>
<1>1. UpTypes /\ up[b].pc = "wait" /\ origin[b] \notin down
  BY DEF TypeOK, UpTypes, WaitFails, Running
<1>2. [up[b] EXCEPT !.pc = "finish", !.err = TRUE] \in Upload
  BY <1>1, UpFields DEF UpTypes
<1>3. up' = [up EXCEPT ![b] = [up[b] EXCEPT !.pc = "finish", !.err = TRUE]]
  BY <1>1 DEF WaitFails, UpTypes, Running
<1>4. UpTypes' /\ UpFrame(b)
  BY <1>1, <1>2, <1>3, UpUpdate
<1>5. Becomes(b, "finish", up[b].todo, up[b].source, up[b].entries) /\ up'[b].err
  BY <1>1, <1>3 DEF UpTypes, Upload, Becomes, SameErr
<1> QED
  BY <1>1, <1>4, <1>5 DEF WaitFails, Running

\* The wait of an upload for an ancestor ends: it learns the entry of one whose header
\* is in the cache, and nothing that is not in storage.
LEMMA WaitAncestorEffect ==
  ASSUME TypeOK, ChainTaken, EntriesStored, OriginCaches, Published,
         NEW b \in Builds, NEW a \in Builds, WaitAncestor(b, a)
  PROVE  /\ up[b].pc = "wait" /\ a \in up[b].todo /\ origin[b] \notin down /\ origin[b] \in Nodes
         /\ UpFrame(b) /\ UpTypes' /\ SameErr(b)
         /\ \E e \in SUBSET Builds :
              /\ Becomes(b, "wait", up[b].todo \ {a}, up[b].source, up[b].entries \cup (e \cap {a}))
              /\ e \cap {a} \subseteq InStorage
              /\ Cached(origin[b], a) => a \in e
         /\ \/ UNCHANGED hdr
            \/ stored[a] # None /\ Caches(origin[b], a, TRUE, stored[a]) /\ Cached(origin[b], a)
         /\ HdrTypes'
         /\ UNCHANGED <<origin, flag, key, data, stored, future, landed, down, faults>>
<1> DEFINE n == origin[b]
<1>1. /\ UpTypes /\ HdrTypes /\ up[b].pc = "wait" /\ a \in up[b].todo /\ n \notin down
      /\ up[b].todo \subseteq Builds /\ up[b].entries \subseteq Builds
  BY DEF TypeOK, UpTypes, HdrTypes, WaitAncestor, Running, Upload
<1>2. n \in Nodes /\ Cached(n, b)
  BY <1>1, RunsAtOrigin
<1>3. \E e \in SUBSET Builds : /\ Learn(b, a, e)
                               /\ e \cap {a} \subseteq InStorage
                               /\ Cached(n, a) => a \in e
  <2>1. CASE WaitFuture(b, a)
    <3>1. origin[a] = n /\ future[a] = "ok" /\ Learn(b, a, hdr[n][a].entries)
      BY <2>1 DEF WaitFuture
    <3>2. hdr[n][a].done /\ Cached(n, a)
      BY <1>1, <1>2, <3>1, UploadsAssumption DEF Published, OriginCaches, Taken
    <3>3. hdr[n][a].entries \in SUBSET Builds
      BY <1>1, <1>2, <3>2 DEF HdrTypes, Cached, Header
    <3> QED
      BY <1>2, <3>1, <3>2, <3>3 DEF EntriesStored
  <2>2. CASE WaitCached(b, a)
    <3>1. Cached(n, a) /\ hdr[n][a].done /\ Learn(b, a, hdr[n][a].entries)
      BY <2>2 DEF WaitCached
    <3>2. hdr[n][a].entries \in SUBSET Builds
      BY <1>1, <1>2, <3>1 DEF HdrTypes, Cached, Header
    <3> QED
      BY <1>2, <3>1, <3>2 DEF EntriesStored
  <2>3. CASE WaitAssumed(b, a)
    BY <2>3 DEF WaitAssumed
  <2>4. CASE WaitPolled(b, a)
    BY <2>4 DEF WaitPolled, TypeOK, EntriesStored, InStorage
  <2> QED
    BY <2>1, <2>2, <2>3, <2>4 DEF WaitAncestor
<1>4. PICK e \in SUBSET Builds : /\ Learn(b, a, e)
                                 /\ e \cap {a} \subseteq InStorage
                                 /\ Cached(n, a) => a \in e
  BY <1>3
<1>5. /\ UpTypes' /\ UpFrame(b) /\ SameErr(b)
      /\ Becomes(b, "wait", up[b].todo \ {a}, up[b].source, up[b].entries \cup (e \cap {a}))
  <2> DEFINE t == up[b].todo \ {a}
             f == up[b].entries \cup (e \cap {a})
  <2>1. up' = [up EXCEPT ![b] = [up[b] EXCEPT !.todo = t, !.entries = f]]
    BY <1>1, <1>4 DEF Learn, UpTypes
  <2>2. up[b] \in Upload /\ t \in SUBSET Builds /\ f \in SUBSET Builds
    BY <1>1 DEF UpTypes
  <2> HIDE DEF t, f
  <2>3. [up[b] EXCEPT !.todo = t, !.entries = f] \in Upload
    BY <2>2, UpFields
  <2>4. UpTypes' /\ UpFrame(b)
    BY <1>1, <2>1, <2>3, UpUpdate
  <2>5. Becomes(b, "wait", t, up[b].source, f) /\ SameErr(b)
    BY <1>1, <2>1 DEF UpTypes, Upload, Becomes, SameErr
  <2> QED
    BY <2>4, <2>5 DEF t, f
<1>6. /\ \/ UNCHANGED hdr
         \/ stored[a] # None /\ Caches(n, a, TRUE, stored[a]) /\ Cached(n, a)
      /\ HdrTypes'
  <2>1. CASE UNCHANGED hdr
    BY <1>1, <2>1 DEF HdrTypes
  <2>2. CASE stored[a] # None /\ Cached(n, a) /\ SwapHeader(n, a, stored[a])
    <3>1. stored[a] \in SUBSET Builds
      BY <2>2 DEF TypeOK
    <3> QED
      BY <1>1, <1>2, <2>2, <3>1, HdrUpdate DEF SwapHeader
  <2> QED
    BY <2>1, <2>2 DEF WaitAncestor, WaitFuture, WaitCached, WaitAssumed, WaitPolled
<1> QED
  BY <1>1, <1>2, <1>4, <1>5, <1>6 DEF WaitAncestor

\* A node goes down.
LEMMA CrashEffect ==
  ASSUME TypeOK, NEW n \in Nodes, Crash(n)
  PROVE  /\ n \notin down /\ down' = down \cup {n} /\ UpTypes' /\ HdrTypes'
         /\ \A b \in Builds : hdr'[n][b] = None
         /\ \A m \in Nodes, b \in Builds : m # n => hdr'[m][b] = hdr[m][b]
         /\ \A b \in Builds :
              \/ up'[b] = up[b] /\ (origin[b] # n \/ up[b].pc = "done")
              \/ /\ origin[b] = n /\ up'[b].pc = "lost" /\ up'[b].opened = up[b].opened
                 /\ up'[b].maps = up[b].maps
                 /\ up'[b].todo = {} /\ up'[b].source = {} /\ up'[b].entries = {}
         /\ flag' \in [Nodes -> [Builds -> {"none", "peer", "uploaded"}]] /\ faults' \in Nat
         /\ UNCHANGED <<origin, key, data, stored, future, landed>>
<1>1. UpTypes /\ HdrTypes
  BY DEF TypeOK, UpTypes, HdrTypes
<1>2. HdrTypes' /\ \A b \in Builds : hdr'[n][b] = None
  BY <1>1 DEF Crash, HdrTypes
<1>3. \A m \in Nodes, b \in Builds : m # n => hdr'[m][b] = hdr[m][b]
  BY <1>1 DEF Crash, HdrTypes
<1>4. ASSUME NEW b \in Builds
      PROVE  /\ up'[b] \in Upload
             /\ \/ up'[b] = up[b] /\ (origin[b] # n \/ up[b].pc = "done")
                \/ /\ origin[b] = n /\ up'[b].pc = "lost" /\ up'[b].opened = up[b].opened
                   /\ up'[b].maps = up[b].maps
                   /\ up'[b].todo = {} /\ up'[b].source = {} /\ up'[b].entries = {}
  <2>1. up[b] \in Upload /\ up[b].opened \in SUBSET Builds /\ up[b].maps \in SUBSET Builds
    BY <1>1 DEF UpTypes, Upload
  <2>2. CASE origin[b] = n /\ up[b].pc # "done"
    <3>1. up'[b] = [NoUpload EXCEPT !.pc = "lost", !.maps = up[b].maps, !.opened = up[b].opened]
      BY <2>2 DEF Crash
    <3>2. up'[b] \in Upload
      BY <2>1, <3>1 DEF NoUpload, Upload
    <3>3. /\ up'[b].pc = "lost" /\ up'[b].opened = up[b].opened /\ up'[b].maps = up[b].maps
          /\ up'[b].todo = {} /\ up'[b].source = {} /\ up'[b].entries = {}
      BY <2>1, <3>1 DEF NoUpload
    <3> QED
      BY <2>2, <3>2, <3>3
  <2>3. CASE ~(origin[b] = n /\ up[b].pc # "done")
    BY <2>1, <2>3 DEF Crash
  <2> QED
    BY <2>2, <2>3
<1>5. UpTypes'
  BY <1>4 DEF UpTypes, Crash
<1>6. flag' \in [Nodes -> [Builds -> {"none", "peer", "uploaded"}]]
  <2>1. flag \in [Nodes -> [Builds -> {"none", "peer", "uploaded"}]]
    BY DEF TypeOK
  <2>2. flag' = [flag EXCEPT ![n] = [b \in Builds |-> "none"]]
    BY DEF Crash
  <2> QED
    BY <2>1, <2>2
<1>7. faults' \in Nat
  <2>1. faults \in Nat /\ faults' = faults + 1
    BY DEF Crash, Happens, TypeOK
  <2> QED
    BY <2>1
<1> QED
  BY <1>2, <1>3, <1>4, <1>5, <1>6, <1>7 DEF Crash

\* Every variable keeps its type.
LEMMA TypeStep ==
  TypeOK /\ ChainTaken /\ EntriesStored /\ OriginCaches /\ UploadAtPC /\ Published
    /\ [Next]_vars => TypeOK'
<1> SUFFICES ASSUME TypeOK, ChainTaken, EntriesStored, OriginCaches, UploadAtPC, Published,
                    [Next]_vars
             PROVE  TypeOK'
  OBVIOUS
<1> USE DEF TypeOK, UpTypes, HdrTypes
<1>1. CASE UNCHANGED vars
  BY <1>1 DEF vars
<1>2. ASSUME NEW n \in Nodes, NEW b \in Builds, Snapshot(n, b)
      PROVE  TypeOK'
  <2>1. /\ HdrTypes' /\ UpTypes' /\ origin' \in [Builds -> Nodes \cup {None}]
        /\ future' \in [Builds -> {"none", "running", "ok", "error"}] /\ key' = key \cup {b}
        /\ UNCHANGED <<flag, data, stored, landed, down, faults>>
    BY <1>2, SnapshotEffect
  <2> QED
    BY <2>1
<1>3. ASSUME NEW n \in Nodes, NEW b \in Builds, FetchFromPeer(n, b)
      PROVE  TypeOK'
  BY <1>3, FetchFromPeerEffect
<1>4. ASSUME NEW n \in Nodes, NEW b \in Builds, FetchFromStorage(n, b)
      PROVE  TypeOK'
  BY <1>4, FetchFromStorageEffect
<1>5. ASSUME NEW n \in Nodes, NEW b \in Builds, Resolve(n, b)
      PROVE  TypeOK'
  BY <1>5 DEF Resolve
<1>6. ASSUME NEW n \in Nodes, NEW b \in Builds, UseStorage(n, b)
      PROVE  TypeOK'
  BY <1>6 DEF UseStorage
<1>7. ASSUME NEW n \in Nodes, NEW b \in Builds, Promote(n, b)
      PROVE  TypeOK'
  BY <1>7, PromoteEffect
<1>8. ASSUME NEW b \in Builds, UploadData(b)
      PROVE  TypeOK'
  BY <1>8, UploadDataEffect
<1>9. ASSUME NEW b \in Builds, StoreHeader(b)
      PROVE  TypeOK'
  BY <1>9, StoreHeaderEffect
<1>10. ASSUME NEW b \in Builds, Publish(b)
      PROVE  TypeOK'
  BY <1>10, PublishEffect
<1>11. ASSUME NEW b \in Builds, Finish(b)
      PROVE  TypeOK'
  BY <1>11, FinishEffect
<1>12. ASSUME NEW b \in Builds, Advertise(b)
      PROVE  TypeOK'
  BY <1>12, AdvertiseEffect
<1>13. ASSUME NEW b \in Builds, Retry(b)
      PROVE  TypeOK'
  BY <1>13, RetryEffect
<1>14. ASSUME NEW b \in Builds, GiveUp(b)
      PROVE  TypeOK'
  BY <1>14, GiveUpEffect
<1>15. ASSUME NEW b \in Builds, KeyExpires(b)
      PROVE  TypeOK'
  BY <1>15 DEF KeyExpires
<1>16. ASSUME NEW b \in Builds, NEW a \in Builds, WaitAncestor(b, a)
      PROVE  TypeOK'
  BY <1>16, WaitAncestorEffect
<1>17. ASSUME NEW b \in Builds, NEW a \in Builds, WaitFails(b, a)
      PROVE  TypeOK'
  BY <1>17, WaitFailsEffect
<1>18. ASSUME NEW n \in Nodes, Crash(n)
      PROVE  TypeOK'
  BY <1>18, CrashEffect
<1> QED
  BY <1>1, <1>2, <1>3, <1>4, <1>5, <1>6, <1>7, <1>8, <1>9, <1>10, <1>11, <1>12, <1>13, <1>14,
     <1>15, <1>16, <1>17, <1>18 DEF Next, UploadStep

\* Snapshots are taken in order.
LEMMA ChainStep ==
  TypeOK /\ ChainTaken /\ EntriesStored /\ OriginCaches /\ UploadAtPC /\ Published
    /\ [Next]_vars => ChainTaken'
<1> SUFFICES ASSUME TypeOK, ChainTaken, EntriesStored, OriginCaches, UploadAtPC, Published,
                    [Next]_vars
             PROVE  ChainTaken'
  OBVIOUS
<1>0. /\ up \in [Builds -> Upload] /\ hdr \in [Nodes -> [Builds -> Header \cup {None}]]
      /\ origin \in [Builds -> Nodes \cup {None}] /\ stored \in [Builds -> (SUBSET Builds) \cup {None}]
      /\ None \notin Nodes
  BY UploadsAssumption DEF TypeOK
<1>b. \A c \in Builds : up[c].maps \in SUBSET Builds
  BY <1>0 DEF Upload
<1> USE <1>0, <1>b DEF UpFrame, Becomes, SameErr, Caches, ChainTaken, Taken, Cached, Ancestors
<1>1. CASE UNCHANGED vars
  BY <1>1 DEF vars
<1>2. ASSUME NEW n \in Nodes, NEW b \in Builds, Snapshot(n, b)
      PROVE  ChainTaken'
  <2>1. Taken(b)' /\ \A c \in Builds : c # b => (Taken(c)' <=> Taken(c))
    BY <1>2, SnapshotEffect
  <2>2. \A a \in up'[b].maps : a \in Builds /\ Taken(a)
    <3>1. ASSUME NEW a \in up'[b].maps PROVE a \in Builds /\ Taken(a)
      <4>1. a \in Builds /\ a \in Chain(b) /\ (b # 1 => b - 1 \in Builds /\ Cached(n, b - 1))
        BY <1>2, <3>1, SnapshotEffect
      <4>2. b # 1 /\ Taken(b - 1) /\ (a = b - 1 \/ a \in Ancestors(b - 1))
        BY <4>1 DEF Chain
      <4> QED
        BY <4>1, <4>2
    <3> QED
      BY <3>1
  <2>3. \A c \in Builds : Taken(c)' => \A a \in Ancestors(c)' : Taken(a)'
    <3>1. \A c \in Builds : c # b => up'[c] = up[c]
      BY <1>2, SnapshotEffect
    <3> QED
      BY <2>1, <2>2, <3>1
  <2>4. \A c \in Builds : Taken(c)' <=> up'[c].pc # "none"
    BY <1>2, <2>1, SnapshotEffect DEF ChainTaken
  <2>5. \A c \in Builds : ~Taken(c)' => /\ stored'[c] = None /\ future'[c] = "none"
                                       /\ \A m \in Nodes : ~Cached(m, c)'
    BY <1>2, <2>1, SnapshotEffect DEF ChainTaken
  <2> QED
    BY <2>3, <2>4, <2>5 DEF ChainTaken
<1>3. ASSUME NEW n \in Nodes, NEW b \in Builds, FetchFromPeer(n, b)
      PROVE  ChainTaken'
  BY <1>3, FetchFromPeerEffect
<1>4. ASSUME NEW n \in Nodes, NEW b \in Builds, FetchFromStorage(n, b)
      PROVE  ChainTaken'
  BY <1>4, FetchFromStorageEffect
<1>5. ASSUME NEW n \in Nodes, NEW b \in Builds, Resolve(n, b)
      PROVE  ChainTaken'
  BY <1>5 DEF Resolve
<1>6. ASSUME NEW n \in Nodes, NEW b \in Builds, UseStorage(n, b)
      PROVE  ChainTaken'
  BY <1>6 DEF UseStorage
<1>7. ASSUME NEW n \in Nodes, NEW b \in Builds, Promote(n, b)
      PROVE  ChainTaken'
  BY <1>7, PromoteEffect
<1>8. ASSUME NEW b \in Builds, UploadData(b)
      PROVE  ChainTaken'
  BY <1>8, UploadDataEffect
<1>9. ASSUME NEW b \in Builds, StoreHeader(b)
      PROVE  ChainTaken'
  BY <1>9, StoreHeaderEffect
<1>10. ASSUME NEW b \in Builds, Publish(b)
      PROVE  ChainTaken'
  BY <1>10, PublishEffect
<1>11. ASSUME NEW b \in Builds, Finish(b)
      PROVE  ChainTaken'
  BY <1>11, FinishEffect
<1>12. ASSUME NEW b \in Builds, Advertise(b)
      PROVE  ChainTaken'
  BY <1>12, AdvertiseEffect
<1>13. ASSUME NEW b \in Builds, Retry(b)
      PROVE  ChainTaken'
  BY <1>13, RetryEffect
<1>14. ASSUME NEW b \in Builds, GiveUp(b)
      PROVE  ChainTaken'
  BY <1>14, GiveUpEffect
<1>15. ASSUME NEW b \in Builds, KeyExpires(b)
      PROVE  ChainTaken'
  BY <1>15 DEF KeyExpires
<1>16. ASSUME NEW b \in Builds, NEW a \in Builds, WaitAncestor(b, a)
      PROVE  ChainTaken'
  <2>1. /\ UNCHANGED <<origin, stored, future>>
        /\ \A c \in Builds : up'[c].pc = up[c].pc /\ up'[c].maps = up[c].maps
    BY <1>16, WaitAncestorEffect
  <2>2. \A m \in Nodes, c \in Builds : hdr[m][c] = None => hdr'[m][c] = None
    BY <1>16, WaitAncestorEffect
  <2> QED
    BY <2>1, <2>2
<1>17. ASSUME NEW b \in Builds, NEW a \in Builds, WaitFails(b, a)
      PROVE  ChainTaken'
  BY <1>17, WaitFailsEffect
<1>18. ASSUME NEW n \in Nodes, Crash(n)
      PROVE  ChainTaken'
  BY <1>18, CrashEffect
<1> QED
  BY <1>1, <1>2, <1>3, <1>4, <1>5, <1>6, <1>7, <1>8, <1>9, <1>10, <1>11, <1>12, <1>13, <1>14,
     <1>15, <1>16, <1>17, <1>18 DEF Next, UploadStep

\* Headers have entries of stored builds only.
LEMMA EntriesStep ==
  TypeOK /\ ChainTaken /\ EntriesStored /\ OriginCaches /\ UploadAtPC /\ Published
    /\ [Next]_vars => EntriesStored'
<1> SUFFICES ASSUME TypeOK, ChainTaken, EntriesStored, OriginCaches, UploadAtPC, Published,
                    [Next]_vars
             PROVE  EntriesStored'
  OBVIOUS
<1>0. /\ up \in [Builds -> Upload] /\ hdr \in [Nodes -> [Builds -> Header \cup {None}]]
      /\ origin \in [Builds -> Nodes \cup {None}] /\ stored \in [Builds -> (SUBSET Builds) \cup {None}]
      /\ None \notin Nodes
  BY UploadsAssumption DEF TypeOK
<1> USE <1>0 DEF UpFrame, Becomes, SameErr, Caches, EntriesStored, InStorage, Cached
<1>1. CASE UNCHANGED vars
  BY <1>1 DEF vars
<1>2. ASSUME NEW n \in Nodes, NEW b \in Builds, Snapshot(n, b)
      PROVE  EntriesStored'
  <2>1. /\ Caches(n, b, FALSE, Inherits(n, b, up'[b].maps))
        /\ (b # 1 => b - 1 \in Builds /\ Cached(n, b - 1))
        /\ UNCHANGED <<data, stored>>
    BY <1>2, SnapshotEffect
  <2>2. Inherits(n, b, up'[b].maps) \subseteq InStorage
    BY <2>1 DEF Inherits, SourceBuilds
  <2> QED
    BY <2>1, <2>2
<1>3. ASSUME NEW n \in Nodes, NEW b \in Builds, FetchFromPeer(n, b)
      PROVE  EntriesStored'
  BY <1>3, FetchFromPeerEffect
<1>4. ASSUME NEW n \in Nodes, NEW b \in Builds, FetchFromStorage(n, b)
      PROVE  EntriesStored'
  BY <1>4, FetchFromStorageEffect
<1>5. ASSUME NEW n \in Nodes, NEW b \in Builds, Resolve(n, b)
      PROVE  EntriesStored'
  BY <1>5 DEF Resolve
<1>6. ASSUME NEW n \in Nodes, NEW b \in Builds, UseStorage(n, b)
      PROVE  EntriesStored'
  BY <1>6 DEF UseStorage
<1>7. ASSUME NEW n \in Nodes, NEW b \in Builds, Promote(n, b)
      PROVE  EntriesStored'
  BY <1>7, PromoteEffect
<1>8. ASSUME NEW b \in Builds, UploadData(b)
      PROVE  EntriesStored'
  BY <1>8, UploadDataEffect
<1>9. ASSUME NEW b \in Builds, StoreHeader(b)
      PROVE  EntriesStored'
  <2>1. UNCHANGED <<hdr, data>> /\ b \in data
    BY <1>9, StoreHeaderEffect DEF UploadAtPC
  <2>2. InStorage' = InStorage \cup {b}
    BY <1>9, StoreHeaderEffect
  <2>3. stored'[b] = up[b].entries \cup {b} /\ up[b].entries \subseteq InStorage
    BY <1>9, StoreHeaderEffect DEF UploadAtPC
  <2>4. \A c \in InStorage' : c \in data' /\ c \in stored'[c] /\ stored'[c] \subseteq InStorage'
    BY <1>9, <2>1, <2>2, <2>3, StoreHeaderEffect
  <2> HIDE DEF InStorage
  <2> QED
    BY <2>1, <2>2, <2>4
<1>10. ASSUME NEW b \in Builds, Publish(b)
      PROVE  EntriesStored'
  BY <1>10, PublishEffect
<1>11. ASSUME NEW b \in Builds, Finish(b)
      PROVE  EntriesStored'
  BY <1>11, FinishEffect
<1>12. ASSUME NEW b \in Builds, Advertise(b)
      PROVE  EntriesStored'
  BY <1>12, AdvertiseEffect
<1>13. ASSUME NEW b \in Builds, Retry(b)
      PROVE  EntriesStored'
  BY <1>13, RetryEffect
<1>14. ASSUME NEW b \in Builds, GiveUp(b)
      PROVE  EntriesStored'
  BY <1>14, GiveUpEffect
<1>15. ASSUME NEW b \in Builds, KeyExpires(b)
      PROVE  EntriesStored'
  BY <1>15 DEF KeyExpires
<1>16. ASSUME NEW b \in Builds, NEW a \in Builds, WaitAncestor(b, a)
      PROVE  EntriesStored'
  <2>1. UNCHANGED <<stored, data>>
    BY <1>16, WaitAncestorEffect
  <2>2. CASE UNCHANGED hdr
    BY <2>1, <2>2
  <2>3. CASE stored[a] # None /\ Caches(origin[b], a, TRUE, stored[a])
    BY <2>1, <2>3
  <2> QED
    BY <1>16, <2>2, <2>3, WaitAncestorEffect
<1>17. ASSUME NEW b \in Builds, NEW a \in Builds, WaitFails(b, a)
      PROVE  EntriesStored'
  BY <1>17, WaitFailsEffect
<1>18. ASSUME NEW n \in Nodes, Crash(n)
      PROVE  EntriesStored'
  BY <1>18, CrashEffect
<1> QED
  BY <1>1, <1>2, <1>3, <1>4, <1>5, <1>6, <1>7, <1>8, <1>9, <1>10, <1>11, <1>12, <1>13, <1>14,
     <1>15, <1>16, <1>17, <1>18 DEF Next, UploadStep

\* A step that takes no header from a cache and takes no snapshot.
LEMMA OriginKept ==
  ASSUME TypeOK, UploadAtPC, OriginCaches, HdrKept, UNCHANGED <<origin, down>>,
         \A b \in Builds : up'[b].opened = up[b].opened
  PROVE  OriginCaches'
<1>1. /\ origin \in [Builds -> Nodes \cup {None}]
      /\ \A b \in Builds : up[b].opened \subseteq Builds
  BY AncestorsAreBuilds DEF TypeOK, UploadAtPC
<1> QED
  BY <1>1 DEF OriginCaches, HdrKept, Taken, Cached

\* The node of a snapshot keeps the headers.
LEMMA OriginStep ==
  TypeOK /\ ChainTaken /\ EntriesStored /\ OriginCaches /\ UploadAtPC /\ Published
    /\ [Next]_vars => OriginCaches'
<1> SUFFICES ASSUME TypeOK, ChainTaken, EntriesStored, OriginCaches, UploadAtPC, Published,
                    [Next]_vars
             PROVE  OriginCaches'
  OBVIOUS
<1>0. /\ up \in [Builds -> Upload] /\ hdr \in [Nodes -> [Builds -> Header \cup {None}]]
      /\ origin \in [Builds -> Nodes \cup {None}] /\ stored \in [Builds -> (SUBSET Builds) \cup {None}]
      /\ None \notin Nodes
  BY UploadsAssumption DEF TypeOK
<1> USE <1>0
<1>1. CASE UNCHANGED vars
  BY <1>1 DEF vars, OriginCaches, Taken, Cached
<1>2. ASSUME NEW n \in Nodes, NEW b \in Builds, Snapshot(n, b)
      PROVE  OriginCaches'
  <2>1. ~Cached(n, b) /\ HdrKept
    <3>1. Caches(n, b, FALSE, Inherits(n, b, up'[b].maps))
      BY <1>2, SnapshotEffect
    <3>2. ~Cached(n, b)
      BY <1>2, SnapshotEffect DEF ChainTaken
    <3> QED
      BY <3>1, <3>2, CachesKeeps
  <2>2. ASSUME NEW c \in Builds, c # b, Taken(c), origin[c] \notin down
        PROVE  Cached(origin[c], c)' /\ \A a \in up[c].opened : Cached(origin[c], a)'
    <3>1. origin[c] \in Nodes /\ up[c].opened \subseteq Builds
      BY <1>0, <2>2, AncestorsAreBuilds DEF UploadAtPC, Taken
    <3>2. Cached(origin[c], c) /\ \A a \in up[c].opened : Cached(origin[c], a)
      BY <2>2 DEF OriginCaches
    <3>3. origin'[c] = origin[c]
      BY <1>2, <2>2, SnapshotEffect
    <3> QED
      BY <2>1, <3>1, <3>2, <3>3 DEF HdrKept, Cached
  <2>3. Cached(n, b)' /\ \A a \in up'[b].opened : Cached(n, a)'
    <3>1. /\ up'[b].opened = OpenedOn(n, up'[b].maps) /\ hdr'[n][b] # None
          /\ up'[b].maps \in SUBSET Builds
      BY <1>2, SnapshotEffect DEF Caches
    <3> QED
      BY <2>1, <3>1 DEF HdrKept, Cached, OpenedOn
  <2>4. /\ origin'[b] = n /\ \A c \in Builds : c # b => origin'[c] = origin[c]
        /\ UpFrame(b) /\ UNCHANGED down
    BY <1>2, SnapshotEffect, ZenonT(60)
  <2>5. ASSUME NEW c \in Builds, Taken(c)', origin'[c] \notin down'
        PROVE  Cached(origin[c], c)' /\ \A a \in up'[c].opened : Cached(origin[c], a)'
    BY <2>2, <2>3, <2>4, <2>5 DEF Taken, UpFrame
  <2> QED
    BY <2>5 DEF OriginCaches
<1>3. ASSUME NEW n \in Nodes, NEW b \in Builds, FetchFromPeer(n, b)
      PROVE  OriginCaches'
  <2>1. ~Cached(n, b) /\ Caches(n, b, FALSE, hdr[origin[b]][b].entries)
    BY <1>3, FetchFromPeerEffect
  <2>2. HdrKept
    BY <2>1, CachesKeeps
  <2>3. UNCHANGED <<origin, down>> /\ \A c \in Builds : up'[c].opened = up[c].opened
    BY <1>3, FetchFromPeerEffect DEF UpFrame, Becomes
  <2> QED
    BY <2>2, <2>3, OriginKept
<1>4. ASSUME NEW n \in Nodes, NEW b \in Builds, FetchFromStorage(n, b)
      PROVE  OriginCaches'
  <2>1. Caches(n, b, TRUE, stored[b])
    BY <1>4, FetchFromStorageEffect
  <2>2. HdrKept
    BY <2>1, CachesKeeps
  <2>3. UNCHANGED <<origin, down>> /\ \A c \in Builds : up'[c].opened = up[c].opened
    BY <1>4, FetchFromStorageEffect DEF UpFrame, Becomes
  <2> QED
    BY <2>2, <2>3, OriginKept
<1>5. ASSUME NEW n \in Nodes, NEW b \in Builds, Resolve(n, b)
      PROVE  OriginCaches'
  <2>2. HdrKept
    BY <1>5 DEF HdrKept, Cached, Resolve
  <2>3. UNCHANGED <<origin, down>> /\ \A c \in Builds : up'[c].opened = up[c].opened
    BY <1>5 DEF UpFrame, Becomes, Resolve
  <2> QED
    BY <2>2, <2>3, OriginKept
<1>6. ASSUME NEW n \in Nodes, NEW b \in Builds, UseStorage(n, b)
      PROVE  OriginCaches'
  <2>2. HdrKept
    BY <1>6 DEF HdrKept, Cached, UseStorage
  <2>3. UNCHANGED <<origin, down>> /\ \A c \in Builds : up'[c].opened = up[c].opened
    BY <1>6 DEF UpFrame, Becomes, UseStorage
  <2> QED
    BY <2>2, <2>3, OriginKept
<1>7. ASSUME NEW n \in Nodes, NEW b \in Builds, Promote(n, b)
      PROVE  OriginCaches'
  <2>1. Caches(n, b, TRUE, stored[b])
    BY <1>7, PromoteEffect
  <2>2. HdrKept
    BY <2>1, CachesKeeps
  <2>3. UNCHANGED <<origin, down>> /\ \A c \in Builds : up'[c].opened = up[c].opened
    BY <1>7, PromoteEffect DEF UpFrame, Becomes
  <2> QED
    BY <2>2, <2>3, OriginKept
<1>8. ASSUME NEW b \in Builds, UploadData(b)
      PROVE  OriginCaches'
  <2>2. HdrKept
    BY <1>8, UploadDataEffect DEF HdrKept, Cached
  <2>3. UNCHANGED <<origin, down>> /\ \A c \in Builds : up'[c].opened = up[c].opened
    BY <1>8, UploadDataEffect DEF UpFrame, Becomes
  <2> QED
    BY <2>2, <2>3, OriginKept
<1>9. ASSUME NEW b \in Builds, StoreHeader(b)
      PROVE  OriginCaches'
  <2>2. HdrKept
    BY <1>9, StoreHeaderEffect DEF HdrKept, Cached
  <2>3. UNCHANGED <<origin, down>> /\ \A c \in Builds : up'[c].opened = up[c].opened
    BY <1>9, StoreHeaderEffect DEF UpFrame, Becomes
  <2> QED
    BY <2>2, <2>3, OriginKept
<1>10. ASSUME NEW b \in Builds, Publish(b)
      PROVE  OriginCaches'
  <2>1. origin[b] \in Nodes /\ Caches(origin[b], b, TRUE, stored[b])
    BY <1>10, PublishEffect
  <2>2. HdrKept
    BY <2>1, CachesKeeps
  <2>3. UNCHANGED <<origin, down>> /\ \A c \in Builds : up'[c].opened = up[c].opened
    BY <1>10, PublishEffect DEF UpFrame, Becomes
  <2> QED
    BY <2>2, <2>3, OriginKept
<1>11. ASSUME NEW b \in Builds, Finish(b)
      PROVE  OriginCaches'
  <2>2. HdrKept
    BY <1>11, FinishEffect DEF HdrKept, Cached
  <2>3. UNCHANGED <<origin, down>> /\ \A c \in Builds : up'[c].opened = up[c].opened
    BY <1>11, FinishEffect DEF UpFrame, Becomes
  <2> QED
    BY <2>2, <2>3, OriginKept
<1>12. ASSUME NEW b \in Builds, Advertise(b)
      PROVE  OriginCaches'
  <2>2. HdrKept
    BY <1>12, AdvertiseEffect DEF HdrKept, Cached
  <2>3. UNCHANGED <<origin, down>> /\ \A c \in Builds : up'[c].opened = up[c].opened
    BY <1>12, AdvertiseEffect DEF UpFrame, Becomes
  <2> QED
    BY <2>2, <2>3, OriginKept
<1>13. ASSUME NEW b \in Builds, Retry(b)
      PROVE  OriginCaches'
  <2>2. HdrKept
    BY <1>13, RetryEffect DEF HdrKept, Cached
  <2>3. UNCHANGED <<origin, down>> /\ \A c \in Builds : up'[c].opened = up[c].opened
    BY <1>13, RetryEffect DEF UpFrame, Becomes
  <2> QED
    BY <2>2, <2>3, OriginKept
<1>14. ASSUME NEW b \in Builds, GiveUp(b)
      PROVE  OriginCaches'
  <2>2. HdrKept
    BY <1>14, GiveUpEffect DEF HdrKept, Cached
  <2>3. UNCHANGED <<origin, down>> /\ \A c \in Builds : up'[c].opened = up[c].opened
    BY <1>14, GiveUpEffect DEF UpFrame, Becomes
  <2> QED
    BY <2>2, <2>3, OriginKept
<1>15. ASSUME NEW b \in Builds, KeyExpires(b)
      PROVE  OriginCaches'
  <2>2. HdrKept
    BY <1>15 DEF HdrKept, Cached, KeyExpires
  <2>3. UNCHANGED <<origin, down>> /\ \A c \in Builds : up'[c].opened = up[c].opened
    BY <1>15 DEF UpFrame, Becomes, KeyExpires
  <2> QED
    BY <2>2, <2>3, OriginKept
<1>16. ASSUME NEW b \in Builds, NEW a \in Builds, WaitAncestor(b, a)
      PROVE  OriginCaches'
  <2>1. origin[b] \in Nodes /\ (UNCHANGED hdr \/ Caches(origin[b], a, TRUE, stored[a]))
    BY <1>16, WaitAncestorEffect
  <2>2. HdrKept
    BY <2>1, CachesKeeps DEF HdrKept, Cached
  <2>3. UNCHANGED <<origin, down>> /\ \A c \in Builds : up'[c].opened = up[c].opened
    BY <1>16, WaitAncestorEffect DEF UpFrame, Becomes
  <2> QED
    BY <2>2, <2>3, OriginKept
<1>17. ASSUME NEW b \in Builds, NEW a \in Builds, WaitFails(b, a)
      PROVE  OriginCaches'
  <2>2. HdrKept
    BY <1>17, WaitFailsEffect DEF HdrKept, Cached
  <2>3. UNCHANGED <<origin, down>> /\ \A c \in Builds : up'[c].opened = up[c].opened
    BY <1>17, WaitFailsEffect DEF UpFrame, Becomes
  <2> QED
    BY <2>2, <2>3, OriginKept
<1>18. ASSUME NEW n \in Nodes, Crash(n)
      PROVE  OriginCaches'
  <2>1. /\ down' = down \cup {n} /\ UNCHANGED origin
        /\ \A b \in Builds : up'[b].opened = up[b].opened
        /\ \A m \in Nodes, b \in Builds : m # n => hdr'[m][b] = hdr[m][b]
    BY <1>18, CrashEffect
  <2>2. \A b \in Builds : up[b].opened \subseteq Builds
    BY AncestorsAreBuilds DEF UploadAtPC
  <2> QED
    BY <2>1, <2>2 DEF OriginCaches, Taken, Cached
<1> QED
  BY <1>1, <1>2, <1>3, <1>4, <1>5, <1>6, <1>7, <1>8, <1>9, <1>10, <1>11, <1>12, <1>13, <1>14,
     <1>15, <1>16, <1>17, <1>18 DEF Next, UploadStep

\* What uploads know stays so.
LEMMA UploadPCStep ==
  TypeOK /\ ChainTaken /\ EntriesStored /\ OriginCaches /\ UploadAtPC /\ Published
    /\ [Next]_vars => UploadAtPC'
<1> SUFFICES ASSUME TypeOK, ChainTaken, EntriesStored, OriginCaches, UploadAtPC, Published,
                    [Next]_vars
             PROVE  UploadAtPC'
  OBVIOUS
<1>0. /\ up \in [Builds -> Upload] /\ hdr \in [Nodes -> [Builds -> Header \cup {None}]]
      /\ origin \in [Builds -> Nodes \cup {None}] /\ stored \in [Builds -> (SUBSET Builds) \cup {None}]
      /\ None \notin Nodes
  BY UploadsAssumption DEF TypeOK
<1> USE <1>0 DEF UpFrame, Becomes, SameErr, UploadAtPC, InStorage, Ancestors
<1>1. CASE UNCHANGED vars
  BY <1>1 DEF vars
<1>2. ASSUME NEW n \in Nodes, NEW b \in Builds, Snapshot(n, b)
      PROVE  UploadAtPC'
  <2>1. up'[b].source \subseteq InStorage
    <3>1. /\ up'[b].source = Inherits(n, b, up'[b].maps)
          /\ (b # 1 => b - 1 \in Builds /\ Cached(n, b - 1))
      BY <1>2, SnapshotEffect
    <3> QED
      BY <3>1 DEF EntriesStored, Inherits, SourceBuilds
  <2>2. /\ up'[b].pc = "data" /\ up'[b].opened \subseteq up'[b].maps /\ up'[b].entries = up[b].entries
        /\ stored[b] = None /\ UNCHANGED <<data, stored, down>>
    <3>1. /\ up'[b].pc = "data" /\ up'[b].opened = OpenedOn(n, up'[b].maps)
          /\ up'[b].entries = up[b].entries
          /\ ~Taken(b) /\ UNCHANGED <<data, stored, down>>
      BY <1>2, SnapshotEffect
    <3> QED
      BY <3>1 DEF ChainTaken, OpenedOn
  <2>3. UpFrame(b) /\ \A c \in Builds : c # b => origin'[c] = origin[c]
    BY <1>2, SnapshotFrame
  <2> QED
    BY <2>1, <2>2, <2>3
<1>3. ASSUME NEW n \in Nodes, NEW b \in Builds, FetchFromPeer(n, b)
      PROVE  UploadAtPC'
  <2>1. UNCHANGED <<origin, data, stored, up, down>>
    BY <1>3, FetchFromPeerEffect
  <2> QED
    BY <2>1
<1>4. ASSUME NEW n \in Nodes, NEW b \in Builds, FetchFromStorage(n, b)
      PROVE  UploadAtPC'
  <2>1. UNCHANGED <<origin, data, stored, up, down>>
    BY <1>4, FetchFromStorageEffect
  <2> QED
    BY <2>1
<1>5. ASSUME NEW n \in Nodes, NEW b \in Builds, Resolve(n, b)
      PROVE  UploadAtPC'
  BY <1>5 DEF Resolve
<1>6. ASSUME NEW n \in Nodes, NEW b \in Builds, UseStorage(n, b)
      PROVE  UploadAtPC'
  BY <1>6 DEF UseStorage
<1>7. ASSUME NEW n \in Nodes, NEW b \in Builds, Promote(n, b)
      PROVE  UploadAtPC'
  <2>1. UNCHANGED <<origin, data, stored, up, down>>
    BY <1>7, PromoteEffect
  <2> QED
    BY <2>1
<1>8. ASSUME NEW b \in Builds, UploadData(b)
      PROVE  UploadAtPC'
  BY <1>8, UploadDataEffect
<1>9. ASSUME NEW b \in Builds, StoreHeader(b)
      PROVE  UploadAtPC'
  BY <1>9, StoreHeaderEffect
<1>10. ASSUME NEW b \in Builds, Publish(b)
      PROVE  UploadAtPC'
  <2>1. /\ UpFrame(b) /\ Becomes(b, "finish", up[b].todo, up[b].source, up[b].entries)
        /\ stored[b] # None /\ UNCHANGED <<origin, data, stored, down>>
    BY <1>10, PublishEffect
  <2> QED
    BY <2>1
<1>11. ASSUME NEW b \in Builds, Finish(b)
      PROVE  UploadAtPC'
  BY <1>11, FinishEffect
<1>12. ASSUME NEW b \in Builds, Advertise(b)
      PROVE  UploadAtPC'
  BY <1>12, AdvertiseEffect
<1>13. ASSUME NEW b \in Builds, Retry(b)
      PROVE  UploadAtPC'
  BY <1>13, RetryEffect
<1>14. ASSUME NEW b \in Builds, GiveUp(b)
      PROVE  UploadAtPC'
  BY <1>14, GiveUpEffect
<1>15. ASSUME NEW b \in Builds, KeyExpires(b)
      PROVE  UploadAtPC'
  BY <1>15 DEF KeyExpires
<1>16. ASSUME NEW b \in Builds, NEW a \in Builds, WaitAncestor(b, a)
      PROVE  UploadAtPC'
  <2>1. PICK e \in SUBSET Builds :
          /\ Becomes(b, "wait", up[b].todo \ {a}, up[b].source, up[b].entries \cup (e \cap {a}))
          /\ e \cap {a} \subseteq InStorage
          /\ Cached(origin[b], a) => a \in e
    BY <1>16, WaitAncestorEffect
  <2>2. a \in up[b].opened => a \in e
    <3>1. Taken(b) /\ origin[b] \notin down
      BY <1>16, WaitAncestorEffect DEF ChainTaken
    <3> QED
      BY <2>1, <3>1 DEF OriginCaches
  <2>3. UpFrame(b) /\ up[b].pc = "wait" /\ UNCHANGED <<origin, data, stored, down>>
    BY <1>16, WaitAncestorEffect
  <2> QED
    BY <2>1, <2>2, <2>3
<1>17. ASSUME NEW b \in Builds, NEW a \in Builds, WaitFails(b, a)
      PROVE  UploadAtPC'
  BY <1>17, WaitFailsEffect
<1>18. ASSUME NEW n \in Nodes, Crash(n)
      PROVE  UploadAtPC'
  <2>1. /\ down' = down \cup {n} /\ UNCHANGED <<origin, data, stored>>
        /\ \A b \in Builds :
             \/ up'[b] = up[b]
             \/ /\ origin[b] = n /\ up'[b].pc = "lost" /\ up'[b].opened = up[b].opened
                /\ up'[b].maps = up[b].maps
                /\ up'[b].source = {} /\ up'[b].entries = {}
    BY <1>18, CrashEffect
  <2> QED
    BY <2>1
<1> QED
  BY <1>1, <1>2, <1>3, <1>4, <1>5, <1>6, <1>7, <1>8, <1>9, <1>10, <1>11, <1>12, <1>13, <1>14,
     <1>15, <1>16, <1>17, <1>18 DEF Next, UploadStep

\* A step that ends no upload and takes no header from a cache.
LEMMA PublishedKept ==
  ASSUME TypeOK, ChainTaken, OriginCaches, Published, HdrKept, UNCHANGED <<origin, down, future>>,
         \A c \in Builds : up'[c].pc = "finish" /\ ~up'[c].err => up[c].pc = "finish" /\ ~up[c].err
  PROVE  Published'
<1> SUFFICES ASSUME NEW b \in Builds, (up[b].pc = "finish" /\ ~up[b].err) \/ future[b] = "ok",
                    origin[b] \notin down
             PROVE  hdr'[origin[b]][b].done
  BY DEF Published
<1>1. Taken(b) /\ origin[b] \in Nodes
  BY DEF TypeOK, ChainTaken, Taken
<1>2. Cached(origin[b], b) /\ hdr[origin[b]][b].done
  BY <1>1 DEF OriginCaches, Published
<1> QED
  BY <1>1, <1>2 DEF HdrKept

\* A header is published before its upload is done.
LEMMA PublishedStep ==
  TypeOK /\ ChainTaken /\ EntriesStored /\ OriginCaches /\ UploadAtPC /\ Published
    /\ [Next]_vars => Published'
<1> SUFFICES ASSUME TypeOK, ChainTaken, EntriesStored, OriginCaches, UploadAtPC, Published,
                    [Next]_vars
             PROVE  Published'
  OBVIOUS
<1>0. /\ up \in [Builds -> Upload] /\ hdr \in [Nodes -> [Builds -> Header \cup {None}]]
      /\ origin \in [Builds -> Nodes \cup {None}] /\ stored \in [Builds -> (SUBSET Builds) \cup {None}]
      /\ None \notin Nodes
  BY UploadsAssumption DEF TypeOK
<1> USE <1>0
<1>1. CASE UNCHANGED vars
  BY <1>1 DEF vars, Published
<1>2. ASSUME NEW n \in Nodes, NEW b \in Builds, Snapshot(n, b)
      PROVE  Published'
  <2>1. /\ UpFrame(b) /\ up'[b].pc = "data" /\ future'[b] = "running" /\ UNCHANGED down
        /\ \A c \in Builds : c # b => future'[c] = future[c] /\ origin'[c] = origin[c]
    <3>1. up'[b].pc = "data"
      BY <1>2, SnapshotEffect
    <3> QED
      BY <1>2, <3>1, SnapshotFrame DEF UpFrame
  <2>2. \A m \in Nodes, c \in Builds : c # b => hdr'[m][c] = hdr[m][c]
    BY <1>2, SnapshotEffect DEF Caches
  <2>3. \A c \in Builds : c # b => ((up[c].pc = "finish" \/ future[c] = "ok") => origin[c] \in Nodes)
    BY DEF ChainTaken, Taken
  <2> QED
    BY <2>1, <2>2, <2>3 DEF Published, UpFrame
<1>3. ASSUME NEW n \in Nodes, NEW b \in Builds, FetchFromPeer(n, b)
      PROVE  Published'
  <2>1. ~Cached(n, b) /\ Caches(n, b, FALSE, hdr[origin[b]][b].entries)
    BY <1>3, FetchFromPeerEffect
  <2>2. HdrKept
    BY <2>1, CachesKeeps
  <2>3. /\ UNCHANGED <<origin, down, future>>
        /\ \A c \in Builds : up'[c].pc = "finish" /\ ~up'[c].err => up[c].pc = "finish" /\ ~up[c].err
    BY <1>3, FetchFromPeerEffect DEF UpFrame, Becomes
  <2> QED
    BY <2>2, <2>3, PublishedKept
<1>4. ASSUME NEW n \in Nodes, NEW b \in Builds, FetchFromStorage(n, b)
      PROVE  Published'
  <2>1. Caches(n, b, TRUE, stored[b])
    BY <1>4, FetchFromStorageEffect
  <2>2. HdrKept
    BY <2>1, CachesKeeps
  <2>3. /\ UNCHANGED <<origin, down, future>>
        /\ \A c \in Builds : up'[c].pc = "finish" /\ ~up'[c].err => up[c].pc = "finish" /\ ~up[c].err
    BY <1>4, FetchFromStorageEffect DEF UpFrame, Becomes
  <2> QED
    BY <2>2, <2>3, PublishedKept
<1>5. ASSUME NEW n \in Nodes, NEW b \in Builds, Resolve(n, b)
      PROVE  Published'
  <2>2. HdrKept
    BY <1>5 DEF HdrKept, Cached, Resolve
  <2>3. /\ UNCHANGED <<origin, down, future>>
        /\ \A c \in Builds : up'[c].pc = "finish" /\ ~up'[c].err => up[c].pc = "finish" /\ ~up[c].err
    BY <1>5 DEF UpFrame, Becomes, Resolve
  <2> QED
    BY <2>2, <2>3, PublishedKept
<1>6. ASSUME NEW n \in Nodes, NEW b \in Builds, UseStorage(n, b)
      PROVE  Published'
  <2>2. HdrKept
    BY <1>6 DEF HdrKept, Cached, UseStorage
  <2>3. /\ UNCHANGED <<origin, down, future>>
        /\ \A c \in Builds : up'[c].pc = "finish" /\ ~up'[c].err => up[c].pc = "finish" /\ ~up[c].err
    BY <1>6 DEF UpFrame, Becomes, UseStorage
  <2> QED
    BY <2>2, <2>3, PublishedKept
<1>7. ASSUME NEW n \in Nodes, NEW b \in Builds, Promote(n, b)
      PROVE  Published'
  <2>1. Caches(n, b, TRUE, stored[b])
    BY <1>7, PromoteEffect
  <2>2. HdrKept
    BY <2>1, CachesKeeps
  <2>3. /\ UNCHANGED <<origin, down, future>>
        /\ \A c \in Builds : up'[c].pc = "finish" /\ ~up'[c].err => up[c].pc = "finish" /\ ~up[c].err
    BY <1>7, PromoteEffect DEF UpFrame, Becomes
  <2> QED
    BY <2>2, <2>3, PublishedKept
<1>8. ASSUME NEW b \in Builds, UploadData(b)
      PROVE  Published'
  <2>2. HdrKept
    BY <1>8, UploadDataEffect DEF HdrKept, Cached
  <2>3. /\ UNCHANGED <<origin, down, future>>
        /\ \A c \in Builds : up'[c].pc = "finish" /\ ~up'[c].err => up[c].pc = "finish" /\ ~up[c].err
    BY <1>8, UploadDataEffect DEF UpFrame, Becomes
  <2> QED
    BY <2>2, <2>3, PublishedKept
<1>9. ASSUME NEW b \in Builds, StoreHeader(b)
      PROVE  Published'
  <2>2. HdrKept
    BY <1>9, StoreHeaderEffect DEF HdrKept, Cached
  <2>3. /\ UNCHANGED <<origin, down, future>>
        /\ \A c \in Builds : up'[c].pc = "finish" /\ ~up'[c].err => up[c].pc = "finish" /\ ~up[c].err
    BY <1>9, StoreHeaderEffect DEF UpFrame, Becomes
  <2> QED
    BY <2>2, <2>3, PublishedKept
<1>10. ASSUME NEW b \in Builds, Publish(b)
      PROVE  Published'
  <2>1. /\ UpFrame(b) /\ UNCHANGED <<origin, down, future>>
        /\ origin[b] \in Nodes /\ hdr'[origin[b]][b].done
        /\ \A m \in Nodes, c \in Builds : c # b => hdr'[m][c] = hdr[m][c]
    BY <1>10, PublishEffect DEF Caches
  <2>2. \A c \in Builds : ((up[c].pc = "finish" \/ future[c] = "ok") => origin[c] \in Nodes)
    BY DEF ChainTaken, Taken
  <2> QED
    BY <2>1, <2>2 DEF Published, UpFrame
<1>11. ASSUME NEW b \in Builds, Finish(b)
      PROVE  Published'
  <2>1. /\ UpFrame(b) /\ UNCHANGED <<origin, down, hdr>>
        /\ up[b].pc = "finish" /\ up'[b].pc = "advertise"
        /\ future'[b] = (IF up[b].err THEN "error" ELSE "ok")
        /\ \A c \in Builds : c # b => future'[c] = future[c]
    BY <1>11, FinishEffect DEF Becomes
  <2> QED
    BY <2>1 DEF Published, UpFrame
<1>12. ASSUME NEW b \in Builds, Advertise(b)
      PROVE  Published'
  <2>2. HdrKept
    BY <1>12, AdvertiseEffect DEF HdrKept, Cached
  <2>3. /\ UNCHANGED <<origin, down, future>>
        /\ \A c \in Builds : up'[c].pc = "finish" /\ ~up'[c].err => up[c].pc = "finish" /\ ~up[c].err
    BY <1>12, AdvertiseEffect DEF UpFrame, Becomes
  <2> QED
    BY <2>2, <2>3, PublishedKept
<1>13. ASSUME NEW b \in Builds, Retry(b)
      PROVE  Published'
  <2>2. HdrKept
    BY <1>13, RetryEffect DEF HdrKept, Cached
  <2>3. /\ UNCHANGED <<origin, down, future>>
        /\ \A c \in Builds : up'[c].pc = "finish" /\ ~up'[c].err => up[c].pc = "finish" /\ ~up[c].err
    BY <1>13, RetryEffect DEF UpFrame, Becomes
  <2> QED
    BY <2>2, <2>3, PublishedKept
<1>14. ASSUME NEW b \in Builds, GiveUp(b)
      PROVE  Published'
  <2>2. HdrKept
    BY <1>14, GiveUpEffect DEF HdrKept, Cached
  <2>3. /\ UNCHANGED <<origin, down, future>>
        /\ \A c \in Builds : up'[c].pc = "finish" /\ ~up'[c].err => up[c].pc = "finish" /\ ~up[c].err
    BY <1>14, GiveUpEffect DEF UpFrame, Becomes
  <2> QED
    BY <2>2, <2>3, PublishedKept
<1>15. ASSUME NEW b \in Builds, KeyExpires(b)
      PROVE  Published'
  <2>2. HdrKept
    BY <1>15 DEF HdrKept, Cached, KeyExpires
  <2>3. /\ UNCHANGED <<origin, down, future>>
        /\ \A c \in Builds : up'[c].pc = "finish" /\ ~up'[c].err => up[c].pc = "finish" /\ ~up[c].err
    BY <1>15 DEF UpFrame, Becomes, KeyExpires
  <2> QED
    BY <2>2, <2>3, PublishedKept
<1>16. ASSUME NEW b \in Builds, NEW a \in Builds, WaitAncestor(b, a)
      PROVE  Published'
  <2>1. origin[b] \in Nodes /\ (UNCHANGED hdr \/ Caches(origin[b], a, TRUE, stored[a]))
    BY <1>16, WaitAncestorEffect
  <2>2. HdrKept
    BY <2>1, CachesKeeps DEF HdrKept, Cached
  <2>3. /\ UNCHANGED <<origin, down, future>>
        /\ \A c \in Builds : up'[c].pc = "finish" /\ ~up'[c].err => up[c].pc = "finish" /\ ~up[c].err
    BY <1>16, WaitAncestorEffect DEF UpFrame, Becomes
  <2> QED
    BY <2>2, <2>3, PublishedKept
<1>17. ASSUME NEW b \in Builds, NEW a \in Builds, WaitFails(b, a)
      PROVE  Published'
  <2>2. HdrKept
    BY <1>17, WaitFailsEffect DEF HdrKept, Cached
  <2>3. /\ UNCHANGED <<origin, down, future>>
        /\ \A c \in Builds : up'[c].pc = "finish" /\ ~up'[c].err => up[c].pc = "finish" /\ ~up[c].err
    BY <1>17, WaitFailsEffect DEF UpFrame, Becomes
  <2> QED
    BY <2>2, <2>3, PublishedKept
<1>18. ASSUME NEW n \in Nodes, Crash(n)
      PROVE  Published'
  <2>1. /\ down' = down \cup {n} /\ UNCHANGED <<origin, future>>
        /\ \A b \in Builds : up'[b] = up[b] \/ up'[b].pc = "lost"
        /\ \A m \in Nodes, b \in Builds : m # n => hdr'[m][b] = hdr[m][b]
    BY <1>18, CrashEffect
  <2>2. \A c \in Builds : ((up[c].pc = "finish" \/ future[c] = "ok") => origin[c] \in Nodes)
    BY DEF ChainTaken, Taken
  <2> QED
    BY <2>1, <2>2 DEF Published
<1> QED
  BY <1>1, <1>2, <1>3, <1>4, <1>5, <1>6, <1>7, <1>8, <1>9, <1>10, <1>11, <1>12, <1>13, <1>14,
     <1>15, <1>16, <1>17, <1>18 DEF Next, UploadStep

\* Peers serve a snapshot until its upload is over.
LEMMA PeerStep ==
  TypeOK /\ ChainTaken /\ EntriesStored /\ OriginCaches /\ UploadAtPC /\ Published /\ PeersServe
    /\ [Next]_vars => PeersServe'
<1> SUFFICES ASSUME TypeOK, ChainTaken, EntriesStored, OriginCaches, UploadAtPC, Published,
                    PeersServe, [Next]_vars
             PROVE  PeersServe'
  OBVIOUS
<1>0. /\ up \in [Builds -> Upload] /\ hdr \in [Nodes -> [Builds -> Header \cup {None}]]
      /\ origin \in [Builds -> Nodes \cup {None}] /\ stored \in [Builds -> (SUBSET Builds) \cup {None}]
      /\ None \notin Nodes
  BY UploadsAssumption DEF TypeOK
<1> USE <1>0 DEF UpFrame, Becomes, SameErr, PeersServe, Taken
<1>1. CASE UNCHANGED vars
  BY <1>1 DEF vars
<1>2. ASSUME NEW n \in Nodes, NEW b \in Builds, Snapshot(n, b)
      PROVE  PeersServe'
  BY <1>2, SnapshotFrame
<1>3. ASSUME NEW n \in Nodes, NEW b \in Builds, FetchFromPeer(n, b)
      PROVE  PeersServe'
  BY <1>3, FetchFromPeerEffect
<1>4. ASSUME NEW n \in Nodes, NEW b \in Builds, FetchFromStorage(n, b)
      PROVE  PeersServe'
  BY <1>4, FetchFromStorageEffect
<1>5. ASSUME NEW n \in Nodes, NEW b \in Builds, Resolve(n, b)
      PROVE  PeersServe'
  BY <1>5 DEF Resolve
<1>6. ASSUME NEW n \in Nodes, NEW b \in Builds, UseStorage(n, b)
      PROVE  PeersServe'
  BY <1>6 DEF UseStorage
<1>7. ASSUME NEW n \in Nodes, NEW b \in Builds, Promote(n, b)
      PROVE  PeersServe'
  BY <1>7, PromoteEffect
<1>8. ASSUME NEW b \in Builds, UploadData(b)
      PROVE  PeersServe'
  BY <1>8, UploadDataEffect
<1>9. ASSUME NEW b \in Builds, StoreHeader(b)
      PROVE  PeersServe'
  BY <1>9, StoreHeaderEffect
<1>10. ASSUME NEW b \in Builds, Publish(b)
      PROVE  PeersServe'
  BY <1>10, PublishEffect
<1>11. ASSUME NEW b \in Builds, Finish(b)
      PROVE  PeersServe'
  BY <1>11, FinishEffect
<1>12. ASSUME NEW b \in Builds, Advertise(b)
      PROVE  PeersServe'
  BY <1>12, AdvertiseEffect
<1>13. ASSUME NEW b \in Builds, Retry(b)
      PROVE  PeersServe'
  BY <1>13, RetryEffect
<1>14. ASSUME NEW b \in Builds, GiveUp(b)
      PROVE  PeersServe'
  BY <1>14, GiveUpEffect
<1>15. ASSUME NEW b \in Builds, KeyExpires(b)
      PROVE  PeersServe'
  BY <1>15 DEF KeyExpires
<1>16. ASSUME NEW b \in Builds, NEW a \in Builds, WaitAncestor(b, a)
      PROVE  PeersServe'
  BY <1>16, WaitAncestorEffect
<1>17. ASSUME NEW b \in Builds, NEW a \in Builds, WaitFails(b, a)
      PROVE  PeersServe'
  BY <1>17, WaitFailsEffect
<1>18. ASSUME NEW n \in Nodes, Crash(n)
      PROVE  PeersServe'
  BY <1>18, CrashEffect
<1> QED
  BY <1>1, <1>2, <1>3, <1>4, <1>5, <1>6, <1>7, <1>8, <1>9, <1>10, <1>11, <1>12, <1>13, <1>14,
     <1>15, <1>16, <1>17, <1>18 DEF Next, UploadStep

\* Nothing is cached, stored or uploaded at first.
LEMMA UploadsInit == Init => UploadsInv
<1> SUFFICES ASSUME Init PROVE UploadsInv
  OBVIOUS
<1> USE DEF Init
<1>1. NoUpload \in Upload
  BY DEF NoUpload, Upload
<1>2. TypeOK
  BY <1>1 DEF TypeOK
<1>3. ChainTaken
  BY DEF ChainTaken, Taken, Cached, NoUpload, Ancestors
<1>4. EntriesStored /\ OriginCaches
  BY DEF EntriesStored, OriginCaches, InStorage, Cached, Taken
<1>5. UploadAtPC
  BY DEF UploadAtPC, NoUpload, Ancestors
<1>6. Published /\ PeersServe
  BY DEF Published, PeersServe, NoUpload, Taken
<1> QED
  BY <1>2, <1>3, <1>4, <1>5, <1>6 DEF UploadsInv

\* UploadsInv, the inductive invariant of the uploads, holds under every fault.
THEOREM UploadsInvariance == Spec => []UploadsInv
<1>1. ASSUME UploadsInv, [Next]_vars PROVE UploadsInv'
  BY <1>1, TypeStep, ChainStep, EntriesStep, OriginStep, UploadPCStep, PublishedStep, PeerStep
     DEF UploadsInv
<1> QED
  BY UploadsInit, <1>1, PTL DEF Spec

\* Every variable has its type.
THEOREM TypeCorrect == Spec => []TypeOK
<1>1. UploadsInv => TypeOK
  BY DEF UploadsInv
<1> QED
  BY UploadsInvariance, <1>1, PTL

\* A header is stored after the data of its build and after the headers of the
\* ancestors its node had opened, with their entries (appendAncestorBuilds waits for
\* each of them), whatever uploads fail or are retried and whichever nodes go down.
THEOREM AncestorsAreStoredFirst == Spec => []OpenedAncestorsFirst
<1>1. ASSUME UploadsInv PROVE OpenedAncestorsFirst
  <2>1. SUFFICES ASSUME NEW b \in Builds, stored[b] # None
                 PROVE  b \in data /\ \A a \in up[b].opened : CompleteFor(b, a)
    BY DEF OpenedAncestorsFirst
  <2>2. b \in data /\ stored[b] \subseteq InStorage
    BY <1>1, <2>1 DEF UploadsInv, EntriesStored, InStorage
  <2>3. up[b].opened \subseteq stored[b]
    BY <1>1, <2>1 DEF UploadsInv, UploadAtPC
  <2> QED
    BY <2>2, <2>3 DEF CompleteFor, InStorage
<1> QED
  BY UploadsInvariance, <1>1, PTL

\* A node that has resumed a snapshot finds the data of every build it maps to,
\* also while uploads of its ancestors fail, repeat or hand over from peer to storage
\* (the key goes last in completeUpload), until an upload or its node fails.
THEOREM SnapshotsAreReadable == Spec => []Readable
<1>1. ASSUME UploadsInv PROVE Readable
  <2>1. SUFFICES ASSUME NEW n \in Nodes \ down, NEW a \in Needs(n)
                 PROVE  \/ origin[a] = n \/ a \in key \/ stored[a] # None
                        \/ up[a].err \/ origin[a] \in down
    BY DEF Readable
  <2>2. PICK b \in Builds : Cached(n, b) /\ a \in Ancestors(b) \cup {b}
    BY DEF Needs
  <2>3. Taken(b) /\ a \in Builds
    BY <1>1, <2>2, AncestorsAreBuilds DEF UploadsInv, ChainTaken
  <2>4. Taken(a)
    BY <1>1, <2>2, <2>3 DEF UploadsInv, ChainTaken
  <2>5. a \in key \/ up[a].pc \in {"done", "lost"}
    BY <1>1, <2>3, <2>4 DEF UploadsInv, PeersServe
  <2> QED
    BY <1>1, <2>3, <2>5 DEF UploadsInv, UploadAtPC
<1> QED
  BY UploadsInvariance, <1>1, PTL
=============================================================================
