--------------------------- MODULE ExpirationIndex ---------------------------
(***************************************************************************)
(* The global expiration index of the Redis store, for one sandbox ID: the *)
(* sorted set from which ExpiredItems takes what the evictor removes       *)
(* (packages/api/internal/sandbox/storage/redis/operations.go and          *)
(* items.go, orchestrator/evictor/evict.go).                               *)
(*                                                                         *)
(* The record and the index entry live in different slots, so no command   *)
(* writes both: Add, Update and Remove write one after the other. Update   *)
(* and Remove hold the lock on the sandbox key meanwhile, Add and the      *)
(* evictor's scan do not. What StartRemoving does besides moving the end   *)
(* time is in SandboxTransitions, how an Add is admitted in                *)
(* SandboxReservations.                                                    *)
(***************************************************************************)
EXTENDS Integers

CONSTANTS
    Adders, Updaters, Removers,   \* the calls of Add, Update and RemoveSandbox
    Durations,                    \* the timeouts of a sandbox
    StaleCutoff,                  \* staleCutoff of operations.go
    MaxTime,                      \* bound on the clock
    Faults,                       \* the faults that may happen, a subset of Fault
    None

Fault == {"redis",      \* a command fails
          "crash"}      \* the API instance of a call dies

Calls == Adders \cup Updaters \cup Removers

Record == [state : {"running", "removing"}, end : Nat]

ASSUME IndexAssumption ==
    /\ Adders \cap Updaters = {} /\ Adders \cap Removers = {} /\ Updaters \cap Removers = {}
    /\ Durations \subseteq Nat
    /\ StaleCutoff \in Nat /\ MaxTime \in Nat
    /\ Faults \subseteq Fault
    /\ None \notin Record \cup Nat \cup Calls

VARIABLES
    rec,     \* the record, or None
    score,   \* the score of its entry in globalExpirationSet, or None
    lock,    \* holder of the lock on the sandbox key
    now,     \* the clock
    pc,      \* per call its next command
    end,     \* per call the end time it writes
    scan,    \* the evictor's scan: "idle", "mget" or "clean"
    found,   \* whether a scan has returned the sandbox to the evictor since its
             \* record was last written
    raced    \* history: whether a ZREM of the entry came between the two writes of
             \* the record's Add, or was about to be run when the record was stored

vars == <<rec, score, lock, now, pc, end, scan, found, raced>>

Goto(c, l) == pc' = [pc EXCEPT ![c] = l]

Unlock(c) == lock' = IF lock = c THEN None ELSE lock

IsExpired(s) == now > s.end

Running == rec # None /\ rec.state = "running"

\* The bound on the end times, which leaves the clock room to pass them.
InTime(d) == d = 0 \/ now + d < MaxTime

Lesser(a, b) == IF a < b THEN a ELSE b

Init ==
    /\ rec = None
    /\ score = None
    /\ lock = None
    /\ now = 0
    /\ pc = [c \in Calls |-> "idle"]
    /\ end = [c \in Calls |-> 0]
    /\ scan = "idle"
    /\ found = FALSE
    /\ raced = FALSE

Tick ==
    /\ now < MaxTime
    /\ now' = now + 1
    /\ UNCHANGED <<rec, score, lock, pc, end, scan, found, raced>>

-----------------------------------------------------------------------------
(* Add, by the one creator that holds the reservation.                     *)

AddBegin(a, d) ==
    /\ pc[a] = "idle"
    /\ rec = None
    /\ InTime(d)
    /\ \A b \in Adders : pc[b] \notin {"zadd", "set"}
    /\ end' = [end EXCEPT ![a] = now + d]
    /\ Goto(a, "zadd")
    /\ UNCHANGED <<rec, score, lock, now, scan, found, raced>>

\* ZADD to the index, before the record is stored.
AddIndex(a) ==
    /\ pc[a] = "zadd"
    /\ score' = end[a]
    /\ Goto(a, "set")
    /\ UNCHANGED <<rec, lock, now, end, scan, found, raced>>

\* A removal or a scan is about to remove the entry: the one has deleted its
\* record, the other has found no record.
EntryDoomed == scan = "clean" \/ \E m \in Removers : pc[m] = "zrem"

\* addSandboxScript.
AddRecord(a) ==
    /\ pc[a] = "set"
    /\ rec' = [state |-> "running", end |-> end[a]]
    /\ found' = FALSE
    /\ raced' = (score = None \/ EntryDoomed)
    /\ Goto(a, "done")
    /\ UNCHANGED <<score, lock, now, end, scan>>

-----------------------------------------------------------------------------
(* Update, under the lock.                                                 *)

UpdateBegin(u) ==
    /\ pc[u] = "idle"
    /\ lock = None
    /\ lock' = u
    /\ Goto(u, "get")
    /\ UNCHANGED <<rec, score, now, end, scan, found, raced>>

UpdateRefused(u) ==
    /\ pc[u] = "get"
    /\ ~Running
    /\ Unlock(u)
    /\ Goto(u, "done")
    /\ UNCHANGED <<rec, score, now, end, scan, found, raced>>

\* Mutant of UpdateRecord: the end time is one too early.
UpdateRecord_Early(u, d) ==
    /\ pc[u] = "get"
    /\ Running
    /\ InTime(d)
    /\ rec' = [rec EXCEPT !.end = now + d - 1]
    /\ end' = [end EXCEPT ![u] = now + d]
    /\ UNCHANGED lock /\ Goto(u, "rescore")
    /\ found' = FALSE
    /\ UNCHANGED <<score, now, scan, raced>>

\* Mutant of UpdateRecord: the index keeps the old end time.
UpdateRecord_NoRescore(u, d) ==
    /\ pc[u] = "get"
    /\ Running
    /\ InTime(d)
    /\ rec' = [rec EXCEPT !.end = now + d]
    /\ end' = [end EXCEPT ![u] = now + d]
    /\ Unlock(u) /\ Goto(u, "done")
    /\ found' = FALSE
    /\ UNCHANGED <<score, now, scan, raced>>

\* GET and SET: nobody else writes the record under the lock.
UpdateRecord(u, d) ==
    /\ pc[u] = "get"
    /\ Running
    /\ InTime(d)
    /\ rec' = [rec EXCEPT !.end = now + d]
    /\ end' = [end EXCEPT ![u] = now + d]
    /\ IF now + d = rec.end
       THEN Unlock(u) /\ Goto(u, "done")
       ELSE UNCHANGED lock /\ Goto(u, "rescore")
    /\ found' = FALSE
    /\ UNCHANGED <<score, now, scan, raced>>

UpdateIndex(u) ==
    /\ pc[u] = "rescore"
    /\ score' = end[u]
    /\ Unlock(u)
    /\ Goto(u, "done")
    /\ UNCHANGED <<rec, now, end, scan, found, raced>>

-----------------------------------------------------------------------------
(* RemoveSandbox: StartRemoving, then Store.Remove.                        *)

\* A client's removal, or the evictor's of what its scan found. StartRemoving
\* moves the end time to now and leaves the index alone.
RemoveBegin(m) ==
    /\ pc[m] = "idle"
    /\ lock = None
    /\ Running
    /\ rec' = [state |-> "removing", end |-> Lesser(now, rec.end)]
    /\ Goto(m, "obtain")
    /\ UNCHANGED <<score, lock, now, end, scan, found, raced>>

\* Mutant of RemoveObtain: the entry is removed before the record.
RemoveObtain_IndexFirst(m) ==
    /\ pc[m] = "obtain"
    /\ lock = None
    /\ lock' = m
    /\ score' = None
    /\ Goto(m, "del")
    /\ UNCHANGED <<rec, now, end, scan, found, raced>>

RemoveObtain(m) ==
    /\ pc[m] = "obtain"
    /\ lock = None
    /\ lock' = m
    /\ Goto(m, "del")
    /\ UNCHANGED <<rec, score, now, end, scan, found, raced>>

\* removeSandboxScript, and after it the ZREM from the index.
RemoveRecord(m) ==
    /\ pc[m] = "del"
    /\ rec' = None
    /\ Goto(m, "zrem")
    /\ UNCHANGED <<score, lock, now, end, scan, found, raced>>

RemoveIndex(m) ==
    /\ pc[m] = "zrem"
    /\ score' = None
    /\ Unlock(m)
    /\ Goto(m, "done")
    /\ UNCHANGED <<rec, now, end, scan, found, raced>>

-----------------------------------------------------------------------------
(* ExpiredItems: ZRANGEBYSCORE, MGET, ZREM of the entries without a record. *)

ScanIndex ==
    /\ scan = "idle"
    /\ score # None /\ score <= now
    /\ scan' = "mget"
    /\ UNCHANGED <<rec, score, lock, now, pc, end, found, raced>>

Evictable ==
    /\ rec # None
    /\ IsExpired(rec)
    /\ rec.state = "running" \/ now - rec.end > StaleCutoff

\* Mutant of ScanRecord: an entry that is not due is cleaned up like an orphan.
ScanRecord_CleansUnexpired ==
    /\ scan = "mget"
    /\ scan' = IF Evictable THEN "idle" ELSE "clean"
    /\ found' = Evictable
    /\ UNCHANGED <<rec, score, lock, now, pc, end, raced>>

\* Mutant of ScanRecord: an entry without a record is skipped.
ScanRecord_KeepsOrphans ==
    /\ scan = "mget"
    /\ scan' = "idle"
    /\ found' = Evictable
    /\ UNCHANGED <<rec, score, lock, now, pc, end, raced>>

ScanRecord ==
    /\ scan = "mget"
    /\ scan' = IF rec = None THEN "clean" ELSE "idle"
    /\ found' = Evictable
    /\ UNCHANGED <<rec, score, lock, now, pc, end, raced>>

ScanClean ==
    /\ scan = "clean"
    /\ score' = None
    /\ scan' = "idle"
    /\ UNCHANGED <<rec, lock, now, pc, end, found, raced>>

\* The MGET fails and the cycle ends, or the ZREM fails with a warning.
ScanFails ==
    /\ "redis" \in Faults
    /\ scan # "idle"
    /\ scan' = "idle"
    /\ UNCHANGED <<rec, score, lock, now, pc, end, found, raced>>

\* A command of a call fails and the call returns, or its instance dies: the
\* commands after it are not run. The lock is released or expires.
Fails(c) ==
    /\ Faults \cap {"redis", "crash"} # {}
    /\ pc[c] \notin {"idle", "done", "failed"}
    /\ Unlock(c)
    /\ Goto(c, "failed")
    /\ UNCHANGED <<rec, score, now, end, scan, found, raced>>

CallStep(c) ==
    \/ c \in Adders /\ (AddIndex(c) \/ AddRecord(c))
    \/ c \in Updaters /\ (UpdateRefused(c) \/ UpdateIndex(c)
                            \/ \E d \in Durations : UpdateRecord(c, d))
    \/ c \in Removers /\ (RemoveObtain(c) \/ RemoveRecord(c) \/ RemoveIndex(c))

Scan == ScanIndex \/ ScanRecord \/ ScanClean

Next ==
    \/ Tick
    \/ \E a \in Adders, d \in Durations : AddBegin(a, d)
    \/ \E u \in Updaters : UpdateBegin(u)
    \/ \E m \in Removers : RemoveBegin(m)
    \/ \E c \in Calls : CallStep(c) \/ Fails(c)
    \/ Scan \/ ScanFails

Spec == Init /\ [][Next]_vars

\* The evictor's ticker and the clock run, every call that has begun goes on,
\* and not every cycle of the evictor fails.
Fairness ==
    /\ WF_vars(Tick)
    /\ WF_vars(ScanIndex)
    /\ SF_vars(ScanRecord)
    /\ SF_vars(ScanClean)
    /\ \A c \in Calls : WF_vars(CallStep(c))

FairSpec == Spec /\ Fairness

-----------------------------------------------------------------------------
(* Properties.                                                             *)

\* Every variable has its type.
TypeOK ==
    /\ rec \in Record \cup {None}
    /\ score \in Nat \cup {None}
    /\ lock \in Calls \cup {None}
    /\ now \in Nat
    /\ pc \in [Calls -> {"idle", "zadd", "set", "get", "rescore", "obtain", "del", "zrem",
                      "done", "failed"}]
    /\ end \in [Calls -> Nat]
    /\ scan \in {"idle", "mget", "clean"}
    /\ found \in BOOLEAN
    /\ raced \in BOOLEAN

\* What the calls have established at their commands. An Update and a Remove
\* hold the lock from their first command under it to their last.
UnderLock ==
    /\ \A u \in Updaters : pc[u] \in {"get", "rescore"} => lock = u
    /\ \A m \in Removers : pc[m] \in {"del", "zrem"} => lock = m

\* One Add at a time, and none beside a record. Between its two writes the entry
\* has its end time, unless a ZREM has removed it.
AddsAlone ==
    \A a \in Adders :
        /\ pc[a] \in {"zadd", "set"} =>
             rec = None /\ \A b \in Adders : pc[b] \in {"zadd", "set"} => a = b
        /\ pc[a] = "set" => score \in {end[a], None}

\* The record of a removal that goes on stays "removing" until that removal
\* deletes it; its entry is removed when no record is left, but that of an Add
\* that it has raced.
RemovesOwn ==
    \A m \in Removers :
        /\ pc[m] \in {"obtain", "del"} =>
             /\ rec # None /\ ~Running
             /\ \A n \in Removers : pc[n] \in {"obtain", "del"} => m = n
        /\ pc[m] = "zrem" => rec = None \/ raced

\* The entry of a stored record that was not raced is neither missing nor about to
\* be cleaned up, and it carries the record's end time unless an Update stopped, or
\* is, between its two writes; what that Update will write is the record's end time.
EntryKept ==
    /\ rec # None /\ ~raced => score # None /\ scan # "clean"
    /\ Running /\ ~raced /\ (\A u \in Updaters : pc[u] \notin {"rescore", "failed"})
         => score = rec.end
    /\ \A u \in Updaters : pc[u] = "rescore" => Running /\ rec.end = end[u]

\* The inductive invariant of the index: the types, and what each call relies on
\* between two of its commands.
IndexInv == TypeOK /\ UnderLock /\ AddsAlone /\ RemovesOwn /\ EntryKept

\* A stored sandbox has an entry in the expiration index, so the evictor does not
\* lose sight of it, unless a ZREM was run between the two writes of its own Add or
\* was already under way at the second. The exception is real, although Add's comment
\* says "so there's no possibility of leaking" (operations.go:31): Add holds no lock,
\* and a scan that has found its entry due and no record yet, as with timeout 0, or a
\* removal that has just deleted the record before, takes the entry of the new record.
\* Nothing else does: no failing command, no dying instance, no Update, and no scan or
\* removal that begins after the record is stored.
LeaksOnlyInAdd == rec # None /\ score = None => raced

\* The entry of a record whose Add was not raced carries the end time of a running
\* record, except while an Update holds the lock between its two writes, or once
\* one has failed there (operations.go:216).
IndexAgrees ==
    Running /\ ~raced /\ lock = None /\ (\A u \in Updaters : pc[u] # "failed")
        => score = rec.end

\* A sandbox that stays expired is returned to the evictor sooner or later, unless
\* its Add was raced.
ExpiredIsFound ==
    Running /\ IsExpired(rec) ~> found \/ raced \/ ~(Running /\ IsExpired(rec))

\* An entry whose record is gone does not stay: the scan removes it, even when
\* the ZREM of Remove or the script of Add was never run.
OrphanEntryIsRemoved ==
    (rec = None /\ score # None) ~> (rec # None \/ score = None \/ score > now)
=============================================================================
