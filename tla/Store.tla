-------------------------------- MODULE Store --------------------------------
(***************************************************************************)
(* The document store every other module stands on: loadDb and transact of *)
(* src/src/store.js over a JSON file, and over Postgres by                 *)
(* src/src/adapters/postgres-store.js, with the job claim that takes no    *)
(* global lock.  A statement of Postgres and an access to the file is a    *)
(* step; a place of the document holds the calls whose change is in it.    *)
(* The JSON file exists and is readable.                                   *)
(***************************************************************************)
EXTENDS Naturals

CONSTANTS
    DbCall,   \* calls of the store, on Postgres each from a container of its own
    NoCall,   \* nobody
    Row,      \* rows of rk_state the mutators edit
    Meta      \* rk_meta: schemaVersion and migrationsApplied

ASSUME StoreAssumption == NoCall \notin DbCall /\ Meta \notin Row

Place == Row \cup {Meta}

VARIABLES
    kind,     \* STORE_KIND
    doc,      \* what is committed
    jobRow,   \* the committed row of a job
    holder,   \* the advisory lock, or the head of transactionQueue
    rowLock,  \* who locked the row of the job
    call

storeVars == <<kind, doc, jobRow, holder, rowLock, call>>

Fresh == [pc |-> "new", op |-> "none", at |-> {}, copy |-> [p \in Place |-> {}],
          snap |-> {}, job |-> [status |-> "queued", attempts |-> 0],
          jobEdited |-> FALSE, got |-> 0]

StoreInit ==
    /\ kind \in {"json", "postgres"}
    /\ doc = [p \in Place |-> {}]
    /\ jobRow = [status |-> "queued", attempts |-> 0]
    /\ holder = NoCall
    /\ rowLock = NoCall
    /\ call = [c \in DbCall |-> Fresh]

StandsAt(c, pc) == call[c].pc = pc
Becomes(c, row) == call' = [call EXCEPT ![c] = row]
Moved(c, pc) == Becomes(c, [call[c] EXCEPT !.pc = pc])
Release(c) ==
    /\ holder' = IF holder = c THEN NoCall ELSE holder
    /\ rowLock' = IF rowLock = c THEN NoCall ELSE rowLock

\* A faulty variant: a container that starts overwrites the row it finds.
BootMetaOverwrites == {}

\* ON CONFLICT (key) DO NOTHING
BootMeta == doc[Meta]

\* getBackend: the structure is there, or is created under a lock of its own.
Bootstrap(c) ==
    /\ StandsAt(c, "new")
    /\ doc' = [doc EXCEPT ![Meta] = IF kind = "postgres" THEN BootMeta ELSE @]
    /\ Moved(c, "idle")
    /\ UNCHANGED <<kind, jobRow, holder, rowLock>>

Starts(c, op, at, pc) == Becomes(c, [call[c] EXCEPT !.pc = pc, !.op = op, !.at = at])

\* loadDb, transact with a mutator that edits some places, takes the job for a
\* machine of the pool or gives it back, and claimNextJob.
Begin(c) ==
    /\ StandsAt(c, "idle")
    /\ \/ Starts(c, "load", {}, "rows")
       \/ \E at \in SUBSET Place \ {{}} : Starts(c, "edit", at, "waiting")
       \/ \E op \in {"pool claim", "give back"} : Starts(c, op, {}, "waiting")
       \/ Starts(c, "claim", {}, IF kind = "postgres" THEN "picking" ELSE "waiting")
    /\ UNCHANGED <<kind, doc, jobRow, holder, rowLock>>

-----------------------------------------------------------------------------
(* transact and loadDb *)

LockIsFree(c) == holder = NoCall

\* pg_advisory_xact_lock, or the turn in transactionQueue.
TakeLock(c) ==
    /\ StandsAt(c, "waiting")
    /\ LockIsFree(c)
    /\ holder' = c
    /\ Moved(c, "rows")
    /\ UNCHANGED <<kind, doc, jobRow, rowLock>>

HasRead(c) == IF call[c].op = "load" THEN "done" ELSE "mutating"

\* SELECT collection, data; the file is read whole.
ReadRows(c) ==
    /\ StandsAt(c, "rows")
    /\ Becomes(c, [call[c] EXCEPT
           !.pc = IF kind = "postgres" THEN "meta" ELSE HasRead(c),
           !.copy = [p \in Place |-> IF p = Meta /\ kind = "postgres" THEN {} ELSE doc[p]],
           !.snap = doc[Meta],
           !.job = jobRow])
    /\ UNCHANGED <<kind, doc, jobRow, holder, rowLock>>

\* A faulty variant: loadDb reads committed rows, statement by statement.
MetaSeenCommitted(c) == doc[Meta]

\* REPEATABLE READ keeps the snapshot of the first statement for loadDb.
MetaSeen(c) == IF call[c].op = "load" THEN call[c].snap ELSE doc[Meta]

ReadMeta(c) ==
    /\ StandsAt(c, "meta")
    /\ Becomes(c, [call[c] EXCEPT !.pc = HasRead(c), !.copy[Meta] = MetaSeen(c)])
    /\ UNCHANGED <<kind, doc, jobRow, holder, rowLock>>

Claimed(j) == [status |-> "running", attempts |-> j.attempts + 1]

\* The mutator runs on the copy.
Mutate(c) ==
    /\ StandsAt(c, "mutating")
    /\ LET job == call[c].job
           claims == call[c].op \in {"claim", "pool claim"} /\ job.status = "queued"
           gives == call[c].op = "give back" /\ job.status = "running"
       IN  Becomes(c, [call[c] EXCEPT
               !.pc = "writing",
               !.copy = [p \in Place |-> IF p \in call[c].at THEN call[c].copy[p] \cup {c}
                                         ELSE call[c].copy[p]],
               !.job = IF claims THEN Claimed(job)
                       ELSE IF gives THEN [job EXCEPT !.status = "queued"] ELSE job,
               !.jobEdited = claims \/ gives,
               !.got = IF claims THEN job.attempts + 1 ELSE 0])
    /\ UNCHANGED <<kind, doc, jobRow, holder, rowLock>>

\* The upserts of the rows that changed, which wait for a claim's row lock; or
\* the temporary file.
Write(c) ==
    /\ StandsAt(c, "writing")
    /\ call[c].jobEdited => rowLock = NoCall
    /\ rowLock' = IF call[c].jobEdited THEN c ELSE rowLock
    /\ Moved(c, "committing")
    /\ UNCHANGED <<kind, doc, jobRow, holder>>

\* prior.get(row.id) === serialised; the file is replaced whole.
Written(c) == IF kind = "json" THEN Place ELSE call[c].at

Stored(c) ==
    /\ doc' = [p \in Place |-> IF p \in Written(c) THEN call[c].copy[p] ELSE doc[p]]
    /\ jobRow' = IF kind = "json" \/ call[c].jobEdited THEN call[c].job ELSE jobRow

\* COMMIT, or the rename; the answer of a COMMIT may be lost.
Commit(c) ==
    /\ StandsAt(c, "committing")
    /\ Stored(c)
    /\ Release(c)
    /\ \/ Moved(c, "done")
       \/ kind = "postgres" /\ Moved(c, "failed")
    /\ UNCHANGED kind

Open == {"rows", "meta", "mutating", "writing", "committing", "picking", "picked", "waiting"}

\* A mutator throws, a query fails or times out, a container dies: ROLLBACK,
\* or nothing was renamed.
Fail(c) ==
    /\ call[c].pc \in Open
    /\ Release(c)
    /\ Moved(c, "failed")
    /\ UNCHANGED <<kind, doc, jobRow>>

\* The process of a file store dies with every call in it.
Crash ==
    /\ kind = "json"
    /\ \E c \in DbCall : call[c].pc \in Open
    /\ call' = [c \in DbCall |-> IF call[c].pc \in Open THEN [call[c] EXCEPT !.pc = "failed"]
                                 ELSE call[c]]
    /\ holder' = NoCall
    /\ rowLock' = NoCall
    /\ UNCHANGED <<kind, doc, jobRow>>

-----------------------------------------------------------------------------
(* claimJob *)

\* A faulty variant: the row is read without FOR UPDATE.
RowIsFreeUnchecked == TRUE

RowIsFree == rowLock = NoCall

\* FOR UPDATE SKIP LOCKED
Pick(c) ==
    /\ StandsAt(c, "picking")
    /\ IF jobRow.status = "queued" /\ RowIsFree
       THEN rowLock' = c /\ Becomes(c, [call[c] EXCEPT !.pc = "picked", !.job = jobRow])
       ELSE UNCHANGED rowLock /\ Moved(c, "done")
    /\ UNCHANGED <<kind, doc, jobRow, holder>>

\* UPDATE and COMMIT.
ClaimPicked(c) ==
    /\ StandsAt(c, "picked")
    /\ jobRow' = Claimed(call[c].job)
    /\ Release(c)
    /\ \/ Becomes(c, [call[c] EXCEPT !.pc = "done", !.got = call[c].job.attempts + 1])
       \/ Moved(c, "failed")
    /\ UNCHANGED <<kind, doc>>

-----------------------------------------------------------------------------

StoreNext ==
    \/ Crash
    \/ \E c \in DbCall :
        \/ Bootstrap(c) \/ Begin(c)
        \/ TakeLock(c) \/ ReadRows(c) \/ ReadMeta(c) \/ Mutate(c) \/ Write(c) \/ Commit(c)
        \/ Pick(c) \/ ClaimPicked(c)
        \/ Fail(c)

StoreSpec == StoreInit /\ [][StoreNext]_storeVars

-----------------------------------------------------------------------------
(* Properties *)

\* A change transact has acknowledged stays in the document, whoever else
\* writes, starts, fails or claims.
AcknowledgedIsKept ==
    \A c \in DbCall : StandsAt(c, "done") => \A p \in call[c].at : c \in doc[p]

\* Whoever has read the document saw each call's change in every place it
\* edits or in none: the readers, the writers, and the store itself.
ChangesAreSeenWhole ==
    LET Whole(d) == \A c \in DbCall : \A p, q \in call[c].at : c \in d[p] <=> c \in d[q]
    IN  Whole(doc) /\ \A c \in DbCall : call[c].pc \in {"done", "mutating"} => Whole(call[c].copy)

\* No attempt of a job is claimed twice by the same way of claiming: directly
\* by row lock, or for the pool under the global lock.
ClaimsAreExclusive ==
    \A c, d \in DbCall :
        (StandsAt(c, "done") /\ StandsAt(d, "done") /\ call[c].op = call[d].op /\ call[c].got = call[d].got)
            => c = d \/ call[c].got = 0
=============================================================================
