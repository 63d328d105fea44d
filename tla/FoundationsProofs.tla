-------------------------- MODULE FoundationsProofs --------------------------
(***************************************************************************)
(* Theorems about what the rest stands on: the document store of Store, on *)
(* a file and on Postgres, for any number of calls and rows; the one GPU   *)
(* of InferenceGateway, for any queue, budget and number of failures; and  *)
(* OpsWork, the two systems that put their questions to that GPU, for any  *)
(* number of tasks, questions, findings, repair rounds and crashes.        *)
(* The modules share no variable; each theorem is of one of them.          *)
(***************************************************************************)
EXTENDS Store, InferenceGateway, OpsWork, FiniteSetTheorems, SequenceTheorems,
        WellFoundedInduction, TLAPS

-----------------------------------------------------------------------------
(* The store: what is invariant                                             *)

Pc == {"new", "idle", "waiting", "rows", "meta", "mutating", "writing", "committing",
       "picking", "picked", "done", "failed"}
JobRow == [status : {"queued", "running"}, attempts : Nat]
Document == [Place -> SUBSET DbCall]

RowOK(r) ==
    /\ r.pc \in Pc
    /\ r.op \in {"none", "load", "edit", "pool claim", "give back", "claim"}
    /\ r.at \subseteq Place
    /\ r.copy \in Document
    /\ r.snap \subseteq DbCall
    /\ r.job \in JobRow
    /\ r.jobEdited \in BOOLEAN
    /\ r.got \in Nat

CallRow == [pc : Pc, op : {"none", "load", "edit", "pool claim", "give back", "claim"},
            at : SUBSET Place, copy : Document, snap : SUBSET DbCall, job : JobRow,
            jobEdited : BOOLEAN, got : Nat]

TypeOK ==
    /\ kind \in {"json", "postgres"}
    /\ doc \in Document
    /\ jobRow \in JobRow
    /\ holder \in DbCall \cup {NoCall}
    /\ rowLock \in DbCall \cup {NoCall}
    /\ call \in [DbCall -> CallRow]

\* Whoever is between the lock and the end of a transaction holds the lock;
\* who picked the job, or writes its row, holds the row; and only a claim on
\* Postgres picks.
LocksKnown(c, r) ==
    /\ (r.op # "load" /\ r.pc \in {"rows", "meta", "mutating", "writing", "committing"})
          => holder = c
    /\ r.op = "load" => r.pc \in {"rows", "meta", "done", "failed"}
    /\ r.pc = "picked" => rowLock = c /\ r.job = jobRow /\ jobRow.status = "queued"
    /\ (r.pc = "committing" /\ r.jobEdited) => rowLock = c
    /\ r.pc \in {"picking", "picked"} => kind = "postgres" /\ r.op = "claim"
    /\ (kind = "postgres" /\ r.op = "claim") => r.pc \in {"picking", "picked", "done", "failed"}
    /\ r.pc = "meta" => kind = "postgres"
    /\ r.op # "edit" => r.at = {}

LocksAreHeld == \A c \in DbCall : LocksKnown(c, call[c])

\* What a call has read is what is committed, but for a claim by row lock that
\* went by.
Behind(job) == job = jobRow \/ (kind = "postgres" /\ job.status = "queued" /\ jobRow = Claimed(job))

JobKnown(r) ==
    /\ (r.op # "load" /\ r.pc \in {"meta", "mutating"}) => Behind(r.job)
    /\ (r.pc \in {"writing", "committing"} /\ ~r.jobEdited) => Behind(r.job) /\ r.got = 0
    /\ (r.pc \in {"writing", "committing"} /\ r.jobEdited /\ r.got = 0) =>
          /\ r.job.status = "queued"
          /\ jobRow.status = "running" /\ jobRow.attempts = r.job.attempts
    /\ (r.pc \in {"writing", "committing"} /\ r.jobEdited /\ r.got # 0) =>
          /\ r.op \in {"claim", "pool claim"}
          /\ r.job.status = "running" /\ r.job.attempts = r.got
          /\ \/ jobRow.status = "queued" /\ jobRow.attempts + 1 = r.got
             \/ kind = "postgres" /\ jobRow = r.job
    /\ r.pc \notin {"writing", "committing", "done", "failed"} => r.got = 0

JobIsKnown == \A c \in DbCall : JobKnown(call[c])

\* What was claimed was counted: no number is ahead of the committed row, nor of
\* what a later claim of the same way reads and takes.
ClaimsAreCounted ==
    \A d \in DbCall : call[d].pc = "done" =>
        /\ call[d].got <= jobRow.attempts
        /\ \A c \in DbCall : call[c].op = call[d].op =>
              /\ (call[c].op # "load" /\ call[c].pc \in {"meta", "mutating"})
                    => call[d].got <= call[c].job.attempts
              /\ (call[c].pc \in {"writing", "committing"} /\ call[c].got # 0)
                    => call[d].got < call[c].got

\* A change is in the document when its call has ended, and in a copy when its
\* call is about to.
ChangesHaveOwners ==
    \A p \in Place, e \in DbCall :
        /\ e \in doc[p] => call[e].pc \in {"done", "failed"}
        /\ \A c \in DbCall : e \in call[c].copy[p] =>
              call[e].pc \in {"writing", "committing", "done", "failed"}

SeenAt(copy, snap, p) == IF p = Meta THEN snap ELSE copy[p]
SnapWhole(copy, snap) ==
    \A e \in DbCall : \A p, q \in call[e].at : e \in SeenAt(copy, snap, p) <=> e \in SeenAt(copy, snap, q)

Whole(d) == \A e \in DbCall : \A p, q \in call[e].at : e \in d[p] <=> e \in d[q]

\* The copy of a call is the document it will leave behind, or the whole one it
\* has seen.
CopyKnown(c, r) ==
    /\ r.pc \in {"new", "idle", "picking", "picked"} => \A p \in Place : r.copy[p] = {}
    /\ (r.pc = "meta" /\ r.op # "load") => \A p \in Row : r.copy[p] = doc[p]
    /\ (r.pc = "meta" /\ r.op = "load") => SnapWhole(r.copy, r.snap)
    /\ r.pc = "meta" => \A e \in DbCall : e \in r.snap => call[e].pc \in {"done", "failed"}
    /\ r.pc = "mutating" => r.copy = doc
    /\ r.pc \in {"writing", "committing"} =>
          \A p \in Place : r.copy[p] = IF p \in r.at THEN doc[p] \cup {c} ELSE doc[p]
    /\ r.pc = "done" => Whole(r.copy)

CopiesAreKnown == \A c \in DbCall : CopyKnown(c, call[c])

StoreInv ==
    /\ TypeOK
    /\ LocksAreHeld
    /\ JobIsKnown
    /\ ClaimsAreCounted
    /\ ChangesHaveOwners
    /\ CopiesAreKnown
    /\ Whole(doc)
    /\ AcknowledgedIsKept
    /\ ClaimsAreExclusive

-----------------------------------------------------------------------------
(* The store: preservation, step by step                                    *)

\* A step that makes the row of one call another one.
LEMMA OneRow ==
    ASSUME call \in [DbCall -> CallRow], NEW c \in DbCall, NEW row \in CallRow, Becomes(c, row)
    PROVE  /\ call' \in [DbCall -> CallRow]
           /\ \A d \in DbCall : call'[d] = IF d = c THEN row ELSE call[d]
BY DEF Becomes

LEMMA PlaceOnly ==
    ASSUME NEW r \in CallRow, NEW pc \in Pc
    PROVE  /\ [r EXCEPT !.pc = pc] \in CallRow
           /\ [r EXCEPT !.pc = pc].pc = pc
           /\ [r EXCEPT !.pc = pc].op = r.op
           /\ [r EXCEPT !.pc = pc].at = r.at
           /\ [r EXCEPT !.pc = pc].copy = r.copy
           /\ [r EXCEPT !.pc = pc].snap = r.snap
           /\ [r EXCEPT !.pc = pc].job = r.job
           /\ [r EXCEPT !.pc = pc].jobEdited = r.jobEdited
           /\ [r EXCEPT !.pc = pc].got = r.got
BY DEF CallRow

\* A step that only moves a call on.
LEMMA OnePlace ==
    ASSUME call \in [DbCall -> CallRow], NEW c \in DbCall, NEW pc \in Pc, Moved(c, pc)
    PROVE  /\ call' \in [DbCall -> CallRow]
           /\ \A d \in DbCall :
                /\ call'[d].pc = IF d = c THEN pc ELSE call[d].pc
                /\ call'[d].op = call[d].op /\ call'[d].at = call[d].at
                /\ call'[d].copy = call[d].copy /\ call'[d].snap = call[d].snap
                /\ call'[d].job = call[d].job /\ call'[d].jobEdited = call[d].jobEdited
                /\ call'[d].got = call[d].got
<1> DEFINE row == [call[c] EXCEPT !.pc = pc]
<1>0. call[c] \in CallRow
  OBVIOUS
<1>1. /\ row \in CallRow
      /\ row.pc = pc /\ row.op = call[c].op /\ row.at = call[c].at /\ row.copy = call[c].copy
      /\ row.snap = call[c].snap /\ row.job = call[c].job /\ row.jobEdited = call[c].jobEdited
      /\ row.got = call[c].got
  BY <1>0, PlaceOnly
<1>2. Becomes(c, row)
  BY DEF Moved
<1> HIDE DEF row
<1> QED BY <1>1, <1>2, OneRow

LEMMA RowTyped ==
    ASSUME TypeOK, NEW d \in DbCall
    PROVE  /\ call[d] \in CallRow /\ call[d].pc \in Pc /\ call[d].at \subseteq Place
           /\ call[d].copy \in Document /\ call[d].snap \subseteq DbCall /\ call[d].job \in JobRow
           /\ call[d].jobEdited \in BOOLEAN /\ call[d].got \in Nat
BY DEF TypeOK, CallRow

\* A step that leaves the document: what is known of the other calls' copies, and
\* of the document, stays so; of the call that moves, it is to be shown.
LEMMA DocumentKept ==
    ASSUME StoreInv, NEW c \in DbCall, NEW r \in CallRow, Becomes(c, r),
           UNCHANGED <<kind, doc>>, jobRow' \in JobRow,
           \A d \in DbCall : d # c => JobKnown(call[d])',
           holder' \in DbCall \cup {NoCall}, rowLock' \in DbCall \cup {NoCall},
           r.at = call[c].at \/ call[c].pc \in {"new", "idle"},
           call[c].pc \notin {"done", "failed"},
           call[c].pc \in {"writing", "committing"} => r.pc \in {"committing", "done", "failed"},
           \A p \in Place, e \in DbCall : e \in r.copy[p] =>
                e = c \/ call[e].pc \in {"writing", "committing", "done", "failed"},
           (\E p \in Place : c \in r.copy[p]) => r.pc \in {"writing", "committing", "done", "failed"},
           LocksAreHeld', JobKnown(call[c])', CopyKnown(c, call[c])', ClaimsAreCounted', ClaimsAreExclusive',
           r.pc = "done" => r.at = {}
    PROVE  StoreInv'
<1>1. /\ call' \in [DbCall -> CallRow]
      /\ \A d \in DbCall : call'[d] = IF d = c THEN r ELSE call[d]
  BY OneRow DEF StoreInv, TypeOK
<1>2. TypeOK'
  BY <1>1 DEF StoreInv, TypeOK
<1>4. JobIsKnown'
  <2> SUFFICES ASSUME NEW d \in DbCall
               PROVE  JobKnown(call[d])'
    BY DEF JobIsKnown
  <2>1. CASE d = c
    BY <1>1, <2>1
  <2> QED BY <2>1
<1>5. ChangesHaveOwners'
  BY <1>1 DEF StoreInv, ChangesHaveOwners
<1>6. ASSUME NEW e \in DbCall
      PROVE  /\ call'[e].at = call[e].at \/ call[e].pc \in {"new", "idle"}
             /\ call[e].at \subseteq Place /\ call'[e].at \subseteq Place
             /\ call[e].pc \in {"new", "idle"} =>
                   \A p \in Place : e \notin doc[p] /\ \A d \in DbCall : e \notin call[d].copy[p]
             /\ call[e].pc \in {"new", "idle"} =>
                   \A d \in DbCall : call[d].pc = "meta" => e \notin call[d].snap
  <2>1. call'[e].at = call[e].at \/ call[e].pc \in {"new", "idle"}
    BY <1>1
  <2>2. call[e].at \subseteq Place
    BY RowTyped DEF StoreInv
  <2>3. call'[e].at \subseteq Place
    BY <1>1 DEF CallRow
  <2>4. call[e].pc \in {"new", "idle"} =>
            \A p \in Place : e \notin doc[p] /\ \A d \in DbCall : e \notin call[d].copy[p]
    BY DEF StoreInv, ChangesHaveOwners
  <2>5. call[e].pc \in {"new", "idle"} => \A d \in DbCall : call[d].pc = "meta" => e \notin call[d].snap
    BY DEF StoreInv, CopiesAreKnown, CopyKnown
  <2> QED BY <2>1, <2>2, <2>3, <2>4, <2>5
<1>7. Whole(doc)'
  BY <1>6 DEF StoreInv, Whole
<1>8. ASSUME NEW d \in DbCall, d # c
      PROVE  CopyKnown(d, call[d])'
  <2>0. CopyKnown(d, call[d])
    BY DEF StoreInv, CopiesAreKnown
  <2>1. call'[d] = call[d]
    BY <1>1, <1>8
  <2>2. (call[d].pc = "meta" /\ SnapWhole(call[d].copy, call[d].snap))
            => SnapWhole(call[d].copy, call[d].snap)'
    <3> SUFFICES ASSUME call[d].pc = "meta", SnapWhole(call[d].copy, call[d].snap),
                        NEW e \in DbCall, NEW p \in call'[e].at, NEW q \in call'[e].at
                 PROVE  e \in SeenAt(call[d].copy, call[d].snap, p) <=> e \in SeenAt(call[d].copy, call[d].snap, q)
      BY <2>1 DEF SnapWhole, SeenAt
    <3> QED BY <1>6 DEF SnapWhole, SeenAt
  <2>3. Whole(call[d].copy) => Whole(call[d].copy)'
    BY <1>6, <2>1 DEF Whole
  <2>4. (call[d].pc = "meta" => \A e \in DbCall : e \in call[d].snap => call[e].pc \in {"done", "failed"})'
    BY <1>1, <2>0, <2>1 DEF CopyKnown
  <2>5. (call[d].pc \in {"writing", "committing"} =>
          \A p \in Place : call[d].copy[p] = IF p \in call[d].at THEN doc[p] \cup {d} ELSE doc[p])'
    BY <2>0, <2>1 DEF CopyKnown
  <2> QED BY <2>0, <2>1, <2>2, <2>3, <2>4, <2>5 DEF CopyKnown
<1>9. CopiesAreKnown'
  <2> SUFFICES ASSUME NEW d \in DbCall
               PROVE  CopyKnown(d, call[d])'
    BY DEF CopiesAreKnown
  <2>1. CASE d = c
    BY <1>1, <2>1
  <2> QED BY <1>8, <2>1
<1>10. AcknowledgedIsKept'
  BY <1>1 DEF StoreInv, AcknowledgedIsKept, StandsAt
<1> QED BY <1>2, <1>4, <1>5, <1>7, <1>9, <1>10 DEF StoreInv

\* A step that commits nothing.
LEMMA QuietStep ==
    ASSUME StoreInv, NEW c \in DbCall, NEW r \in CallRow, Becomes(c, r),
           UNCHANGED <<kind, doc, jobRow>>,
           holder' \in DbCall \cup {NoCall}, rowLock' \in DbCall \cup {NoCall},
           r.at = call[c].at \/ call[c].pc \in {"new", "idle"},
           call[c].pc \notin {"done", "failed"},
           call[c].pc \in {"writing", "committing"} => r.pc \in {"committing", "done", "failed"},
           \A p \in Place, e \in DbCall : e \in r.copy[p] =>
                e = c \/ call[e].pc \in {"writing", "committing", "done", "failed"},
           (\E p \in Place : c \in r.copy[p]) => r.pc \in {"writing", "committing", "done", "failed"},
           LocksAreHeld', JobKnown(call[c])', CopyKnown(c, call[c])', ClaimsAreCounted',
           r.pc = "done" => r.at = {} /\ r.got = 0
    PROVE  StoreInv'
<1>1. /\ call' \in [DbCall -> CallRow]
      /\ \A d \in DbCall : call'[d] = IF d = c THEN r ELSE call[d]
  BY OneRow DEF StoreInv, TypeOK
<1>2. ASSUME NEW d \in DbCall, d # c
      PROVE  JobKnown(call[d])'
  <2>1. JobKnown(call[d])
    BY DEF StoreInv, JobIsKnown
  <2>2. Behind(call[d].job) => Behind(call[d].job)'
    BY <1>1, <1>2 DEF Behind, Claimed
  <2> QED BY <1>1, <1>2, <2>1, <2>2 DEF JobKnown
<1>3. ClaimsAreExclusive'
  BY <1>1 DEF StoreInv, ClaimsAreExclusive, StandsAt
<1> QED BY <1>2, <1>3, DocumentKept DEF StoreInv, TypeOK

LEMMA FailStep ==
    ASSUME StoreInv, NEW c \in DbCall, Fail(c)
    PROVE  StoreInv'
<1> DEFINE r == [call[c] EXCEPT !.pc = "failed"]
<1>0. /\ TypeOK /\ call[c] \in CallRow /\ call[c].copy \in Document /\ call[c].snap \subseteq DbCall
      /\ call[c].job \in JobRow /\ call[c].at \subseteq Place /\ call[c].got \in Nat
      /\ LocksKnown(c, call[c]) /\ JobKnown(call[c]) /\ CopyKnown(c, call[c])
  BY RowTyped DEF StoreInv, LocksAreHeld, JobIsKnown, CopiesAreKnown
<1>1. /\ call[c].pc \in Open /\ UNCHANGED <<kind, doc, jobRow>>
      /\ holder' = IF holder = c THEN NoCall ELSE holder
      /\ rowLock' = IF rowLock = c THEN NoCall ELSE rowLock
  BY <1>0 DEF Fail, Release, Moved
<1>2. Becomes(c, r)
  BY DEF Fail, Release, Moved
<1>3. r \in CallRow
  BY <1>0, PlaceOnly DEF Pc
<1>4. /\ r.pc = "failed"
      /\ r.op = call[c].op
      /\ r.at = call[c].at
      /\ r.copy = call[c].copy
      /\ r.snap = call[c].snap
      /\ r.job = call[c].job
      /\ r.jobEdited = call[c].jobEdited
      /\ r.got = call[c].got
  BY <1>0, PlaceOnly DEF Pc
<1> HIDE DEF r
<1>5. /\ call' \in [DbCall -> CallRow]
      /\ \A d \in DbCall : call'[d] = IF d = c THEN r ELSE call[d]
  BY <1>0, <1>2, <1>3, OneRow DEF TypeOK
<1>6. LocksAreHeld'
  <2> SUFFICES ASSUME NEW d \in DbCall
               PROVE  LocksKnown(d, call[d])'
    BY DEF LocksAreHeld
  <2>1. LocksKnown(d, call[d])
    BY DEF StoreInv, LocksAreHeld
  <2>2. CASE d = c
    BY <1>0, <1>1, <1>4, <1>5, <2>2, StoreAssumption DEF LocksKnown, Open
  <2>3. CASE d # c
    BY <1>0, <1>1, <1>5, <2>1, <2>3, StoreAssumption DEF LocksKnown, Open
  <2> QED BY <2>2, <2>3
<1>7. JobKnown(call[c])'
  BY <1>0, <1>1, <1>4, <1>5 DEF JobKnown, Behind, Claimed, LocksKnown, TypeOK, Open
<1>8. CopyKnown(c, call[c])'
  BY <1>0, <1>1, <1>4, <1>5 DEF CopyKnown, LocksKnown, TypeOK, Document, Open
<1>9. ClaimsAreCounted'
  BY <1>0, <1>1, <1>4, <1>5 DEF StoreInv, ClaimsAreCounted, LocksKnown, TypeOK, JobRow, Open
<1>10. \A p \in Place, e \in DbCall : e \in r.copy[p] =>
          e = c \/ call[e].pc \in {"writing", "committing", "done", "failed"}
  BY <1>0, <1>1, <1>4 DEF StoreInv, ChangesHaveOwners, Open
<1>11. (\E p \in Place : c \in r.copy[p]) => r.pc \in {"writing", "committing", "done", "failed"}
  BY <1>0, <1>1, <1>4 DEF StoreInv, ChangesHaveOwners, Open
<1>12. /\ r.at = call[c].at \/ call[c].pc \in {"new", "idle"}
       /\ call[c].pc \notin {"done", "failed"}
       /\ call[c].pc \in {"writing", "committing"} => r.pc \in {"committing", "done", "failed"}
       /\ r.pc = "done" => r.at = {} /\ r.got = 0
       /\ holder' \in DbCall \cup {NoCall} /\ rowLock' \in DbCall \cup {NoCall}
  BY <1>0, <1>1, <1>4 DEF LocksKnown, JobKnown, TypeOK, Open
<1> QED BY <1>1, <1>2, <1>3, <1>6, <1>7, <1>8, <1>9, <1>10, <1>11, <1>12, QuietStep


LEMMA BootstrapStep ==
    ASSUME StoreInv, NEW c \in DbCall, Bootstrap(c)
    PROVE  StoreInv'
<1> DEFINE r == [call[c] EXCEPT !.pc = "idle"]
<1>0. /\ TypeOK /\ call[c] \in CallRow /\ call[c].copy \in Document /\ call[c].snap \subseteq DbCall
      /\ call[c].job \in JobRow /\ call[c].at \subseteq Place /\ call[c].got \in Nat
      /\ LocksKnown(c, call[c]) /\ JobKnown(call[c]) /\ CopyKnown(c, call[c])
  BY RowTyped DEF StoreInv, LocksAreHeld, JobIsKnown, CopiesAreKnown
<1>1. /\ call[c].pc = "new" /\ UNCHANGED <<kind, doc, jobRow, holder, rowLock>>
  BY <1>0 DEF Bootstrap, BootMeta, Moved, StandsAt, TypeOK, Document, Place
<1>2. Becomes(c, r)
  BY DEF Bootstrap, BootMeta, Moved, StandsAt, TypeOK, Document, Place
<1>3. r \in CallRow
  BY <1>0, PlaceOnly DEF Pc
<1>4. /\ r.pc = "idle"
      /\ r.op = call[c].op
      /\ r.at = call[c].at
      /\ r.copy = call[c].copy
      /\ r.snap = call[c].snap
      /\ r.job = call[c].job
      /\ r.jobEdited = call[c].jobEdited
      /\ r.got = call[c].got
  BY <1>0, PlaceOnly DEF Pc
<1> HIDE DEF r
<1>5. /\ call' \in [DbCall -> CallRow]
      /\ \A d \in DbCall : call'[d] = IF d = c THEN r ELSE call[d]
  BY <1>0, <1>2, <1>3, OneRow DEF TypeOK
<1>6. LocksAreHeld'
  <2> SUFFICES ASSUME NEW d \in DbCall
               PROVE  LocksKnown(d, call[d])'
    BY DEF LocksAreHeld
  <2>1. LocksKnown(d, call[d])
    BY DEF StoreInv, LocksAreHeld
  <2>2. CASE d = c
    BY <1>0, <1>1, <1>4, <1>5, <2>2, StoreAssumption DEF LocksKnown
  <2>3. CASE d # c
    BY <1>0, <1>1, <1>5, <2>1, <2>3, StoreAssumption DEF LocksKnown
  <2> QED BY <2>2, <2>3
<1>7. JobKnown(call[c])'
  BY <1>0, <1>1, <1>4, <1>5 DEF JobKnown, Behind, Claimed, LocksKnown, TypeOK
<1>8. CopyKnown(c, call[c])'
  BY <1>0, <1>1, <1>4, <1>5 DEF CopyKnown, LocksKnown, TypeOK, Document
<1>9. ClaimsAreCounted'
  BY <1>0, <1>1, <1>4, <1>5 DEF StoreInv, ClaimsAreCounted, LocksKnown, TypeOK, JobRow
<1>10. \A p \in Place, e \in DbCall : e \in r.copy[p] =>
          e = c \/ call[e].pc \in {"writing", "committing", "done", "failed"}
  BY <1>0, <1>1, <1>4 DEF StoreInv, ChangesHaveOwners
<1>11. (\E p \in Place : c \in r.copy[p]) => r.pc \in {"writing", "committing", "done", "failed"}
  BY <1>0, <1>1, <1>4 DEF StoreInv, ChangesHaveOwners
<1>12. /\ r.at = call[c].at \/ call[c].pc \in {"new", "idle"}
       /\ call[c].pc \notin {"done", "failed"}
       /\ call[c].pc \in {"writing", "committing"} => r.pc \in {"committing", "done", "failed"}
       /\ r.pc = "done" => r.at = {} /\ r.got = 0
       /\ holder' \in DbCall \cup {NoCall} /\ rowLock' \in DbCall \cup {NoCall}
  BY <1>0, <1>1, <1>4 DEF LocksKnown, JobKnown, TypeOK
<1> QED BY <1>1, <1>2, <1>3, <1>6, <1>7, <1>8, <1>9, <1>10, <1>11, <1>12, QuietStep


LEMMA TakeLockStep ==
    ASSUME StoreInv, NEW c \in DbCall, TakeLock(c)
    PROVE  StoreInv'
<1> DEFINE r == [call[c] EXCEPT !.pc = "rows"]
<1>0. /\ TypeOK /\ call[c] \in CallRow /\ call[c].copy \in Document /\ call[c].snap \subseteq DbCall
      /\ call[c].job \in JobRow /\ call[c].at \subseteq Place /\ call[c].got \in Nat
      /\ LocksKnown(c, call[c]) /\ JobKnown(call[c]) /\ CopyKnown(c, call[c])
  BY RowTyped DEF StoreInv, LocksAreHeld, JobIsKnown, CopiesAreKnown
<1>1. /\ call[c].pc = "waiting" /\ UNCHANGED <<kind, doc, jobRow, rowLock>>
      /\ holder = NoCall /\ holder' = c
  BY <1>0 DEF TakeLock, LockIsFree, Moved, StandsAt
<1>2. Becomes(c, r)
  BY DEF TakeLock, LockIsFree, Moved, StandsAt
<1>3. r \in CallRow
  BY <1>0, PlaceOnly DEF Pc
<1>4. /\ r.pc = "rows"
      /\ r.op = call[c].op
      /\ r.at = call[c].at
      /\ r.copy = call[c].copy
      /\ r.snap = call[c].snap
      /\ r.job = call[c].job
      /\ r.jobEdited = call[c].jobEdited
      /\ r.got = call[c].got
  BY <1>0, PlaceOnly DEF Pc
<1> HIDE DEF r
<1>5. /\ call' \in [DbCall -> CallRow]
      /\ \A d \in DbCall : call'[d] = IF d = c THEN r ELSE call[d]
  BY <1>0, <1>2, <1>3, OneRow DEF TypeOK
<1>6. LocksAreHeld'
  <2> SUFFICES ASSUME NEW d \in DbCall
               PROVE  LocksKnown(d, call[d])'
    BY DEF LocksAreHeld
  <2>1. LocksKnown(d, call[d])
    BY DEF StoreInv, LocksAreHeld
  <2>2. CASE d = c
    BY <1>0, <1>1, <1>4, <1>5, <2>2, StoreAssumption DEF LocksKnown
  <2>3. CASE d # c
    BY <1>0, <1>1, <1>5, <2>1, <2>3, StoreAssumption DEF LocksKnown
  <2> QED BY <2>2, <2>3
<1>7. JobKnown(call[c])'
  BY <1>0, <1>1, <1>4, <1>5 DEF JobKnown, Behind, Claimed, LocksKnown, TypeOK
<1>8. CopyKnown(c, call[c])'
  BY <1>0, <1>1, <1>4, <1>5 DEF CopyKnown, LocksKnown, TypeOK, Document
<1>9. ClaimsAreCounted'
  BY <1>0, <1>1, <1>4, <1>5 DEF StoreInv, ClaimsAreCounted, LocksKnown, TypeOK, JobRow
<1>10. \A p \in Place, e \in DbCall : e \in r.copy[p] =>
          e = c \/ call[e].pc \in {"writing", "committing", "done", "failed"}
  BY <1>0, <1>1, <1>4 DEF StoreInv, ChangesHaveOwners
<1>11. (\E p \in Place : c \in r.copy[p]) => r.pc \in {"writing", "committing", "done", "failed"}
  BY <1>0, <1>1, <1>4 DEF StoreInv, ChangesHaveOwners
<1>12. /\ r.at = call[c].at \/ call[c].pc \in {"new", "idle"}
       /\ call[c].pc \notin {"done", "failed"}
       /\ call[c].pc \in {"writing", "committing"} => r.pc \in {"committing", "done", "failed"}
       /\ r.pc = "done" => r.at = {} /\ r.got = 0
       /\ holder' \in DbCall \cup {NoCall} /\ rowLock' \in DbCall \cup {NoCall}
  BY <1>0, <1>1, <1>4 DEF LocksKnown, JobKnown, TypeOK
<1> QED BY <1>1, <1>2, <1>3, <1>6, <1>7, <1>8, <1>9, <1>10, <1>11, <1>12, QuietStep


LEMMA WriteStep ==
    ASSUME StoreInv, NEW c \in DbCall, Write(c)
    PROVE  StoreInv'
<1> DEFINE r == [call[c] EXCEPT !.pc = "committing"]
<1>0. /\ TypeOK /\ call[c] \in CallRow /\ call[c].copy \in Document /\ call[c].snap \subseteq DbCall
      /\ call[c].job \in JobRow /\ call[c].at \subseteq Place /\ call[c].got \in Nat
      /\ LocksKnown(c, call[c]) /\ JobKnown(call[c]) /\ CopyKnown(c, call[c])
  BY RowTyped DEF StoreInv, LocksAreHeld, JobIsKnown, CopiesAreKnown
<1>1. /\ call[c].pc = "writing" /\ UNCHANGED <<kind, doc, jobRow, holder>>
      /\ call[c].jobEdited => rowLock = NoCall
      /\ rowLock' = IF call[c].jobEdited THEN c ELSE rowLock
  BY <1>0 DEF Write, Moved, StandsAt
<1>2. Becomes(c, r)
  BY DEF Write, Moved, StandsAt
<1>3. r \in CallRow
  BY <1>0, PlaceOnly DEF Pc
<1>4. /\ r.pc = "committing"
      /\ r.op = call[c].op
      /\ r.at = call[c].at
      /\ r.copy = call[c].copy
      /\ r.snap = call[c].snap
      /\ r.job = call[c].job
      /\ r.jobEdited = call[c].jobEdited
      /\ r.got = call[c].got
  BY <1>0, PlaceOnly DEF Pc
<1> HIDE DEF r
<1>5. /\ call' \in [DbCall -> CallRow]
      /\ \A d \in DbCall : call'[d] = IF d = c THEN r ELSE call[d]
  BY <1>0, <1>2, <1>3, OneRow DEF TypeOK
<1>6. LocksAreHeld'
  <2> SUFFICES ASSUME NEW d \in DbCall
               PROVE  LocksKnown(d, call[d])'
    BY DEF LocksAreHeld
  <2>1. LocksKnown(d, call[d])
    BY DEF StoreInv, LocksAreHeld
  <2>2. CASE d = c
    BY <1>0, <1>1, <1>4, <1>5, <2>2, StoreAssumption DEF LocksKnown
  <2>3. CASE d # c
    BY <1>0, <1>1, <1>5, <2>1, <2>3, StoreAssumption DEF LocksKnown
  <2> QED BY <2>2, <2>3
<1>7. JobKnown(call[c])'
  BY ZenonT(60), <1>0, <1>1, <1>4, <1>5 DEF JobKnown, Behind, Claimed, LocksKnown, TypeOK
<1>8. CopyKnown(c, call[c])'
  BY SMTT(30), <1>0, <1>1, <1>4, <1>5 DEF CopyKnown, LocksKnown, TypeOK, Document
<1>9. ClaimsAreCounted'
  BY <1>0, <1>1, <1>4, <1>5 DEF StoreInv, ClaimsAreCounted, LocksKnown, TypeOK, JobRow
<1>10. \A p \in Place, e \in DbCall : e \in r.copy[p] =>
          e = c \/ call[e].pc \in {"writing", "committing", "done", "failed"}
  BY <1>0, <1>1, <1>4 DEF StoreInv, ChangesHaveOwners
<1>11. (\E p \in Place : c \in r.copy[p]) => r.pc \in {"writing", "committing", "done", "failed"}
  BY <1>0, <1>1, <1>4 DEF StoreInv, ChangesHaveOwners
<1>12. /\ r.at = call[c].at \/ call[c].pc \in {"new", "idle"}
       /\ call[c].pc \notin {"done", "failed"}
       /\ call[c].pc \in {"writing", "committing"} => r.pc \in {"committing", "done", "failed"}
       /\ r.pc = "done" => r.at = {} /\ r.got = 0
       /\ holder' \in DbCall \cup {NoCall} /\ rowLock' \in DbCall \cup {NoCall}
  BY <1>0, <1>1, <1>4 DEF LocksKnown, JobKnown, TypeOK
<1> QED BY <1>1, <1>2, <1>3, <1>6, <1>7, <1>8, <1>9, <1>10, <1>11, <1>12, QuietStep

\* A call that begins.
LEMMA StartsStep ==
    ASSUME StoreInv, NEW c \in DbCall, StandsAt(c, "idle"), UNCHANGED <<kind, doc, jobRow, holder, rowLock>>,
           NEW op, NEW at \in SUBSET Place, NEW pc, Starts(c, op, at, pc),
           \/ op = "load" /\ at = {} /\ pc = "rows"
           \/ op = "edit" /\ pc = "waiting"
           \/ op \in {"pool claim", "give back"} /\ at = {} /\ pc = "waiting"
           \/ op = "claim" /\ at = {} /\ pc = IF kind = "postgres" THEN "picking" ELSE "waiting"
    PROVE  StoreInv'
<1> DEFINE r == [call[c] EXCEPT !.pc = pc, !.op = op, !.at = at]
<1>0. /\ TypeOK /\ call[c] \in CallRow /\ call[c].copy \in Document /\ call[c].snap \subseteq DbCall
      /\ call[c].job \in JobRow /\ call[c].at \subseteq Place /\ call[c].got \in Nat
      /\ LocksKnown(c, call[c]) /\ JobKnown(call[c]) /\ CopyKnown(c, call[c])
  BY RowTyped DEF StoreInv, LocksAreHeld, JobIsKnown, CopiesAreKnown
<1>1. /\ call[c].pc = "idle" /\ UNCHANGED <<kind, doc, jobRow, holder, rowLock>>
      /\ pc \in {"rows", "waiting", "picking"}
  BY <1>0 DEF StandsAt
<1>2. Becomes(c, r)
  BY DEF Starts
<1>3. r \in CallRow
  BY <1>0, <1>1 DEF CallRow, Pc
<1>4. /\ r.pc = pc
      /\ r.op = op
      /\ r.at = at
      /\ r.copy = call[c].copy
      /\ r.snap = call[c].snap
      /\ r.job = call[c].job
      /\ r.jobEdited = call[c].jobEdited
      /\ r.got = call[c].got
  BY <1>0 DEF CallRow
<1> HIDE DEF r
<1>5. /\ call' \in [DbCall -> CallRow]
      /\ \A d \in DbCall : call'[d] = IF d = c THEN r ELSE call[d]
  BY <1>0, <1>2, <1>3, OneRow DEF TypeOK
<1>6. LocksAreHeld'
  <2> SUFFICES ASSUME NEW d \in DbCall
               PROVE  LocksKnown(d, call[d])'
    BY DEF LocksAreHeld
  <2>1. LocksKnown(d, call[d])
    BY DEF StoreInv, LocksAreHeld
  <2>2. CASE d = c
    BY <1>0, <1>1, <1>4, <1>5, <2>2, StoreAssumption DEF LocksKnown
  <2>3. CASE d # c
    BY <1>0, <1>1, <1>5, <2>1, <2>3, StoreAssumption DEF LocksKnown
  <2> QED BY <2>2, <2>3
<1>7. JobKnown(call[c])'
  BY <1>0, <1>1, <1>4, <1>5 DEF JobKnown, Behind, Claimed, LocksKnown, TypeOK
<1>8. CopyKnown(c, call[c])'
  BY <1>0, <1>1, <1>4, <1>5 DEF CopyKnown, LocksKnown, TypeOK, Document
<1>9. ClaimsAreCounted'
  BY <1>0, <1>1, <1>4, <1>5 DEF StoreInv, ClaimsAreCounted, LocksKnown, TypeOK, JobRow
<1>10. \A p \in Place, e \in DbCall : e \in r.copy[p] =>
          e = c \/ call[e].pc \in {"writing", "committing", "done", "failed"}
  BY <1>0, <1>1, <1>4 DEF StoreInv, ChangesHaveOwners
<1>11. (\E p \in Place : c \in r.copy[p]) => r.pc \in {"writing", "committing", "done", "failed"}
  BY <1>0, <1>1, <1>4 DEF StoreInv, ChangesHaveOwners
<1>12. /\ r.at = call[c].at \/ call[c].pc \in {"new", "idle"}
       /\ call[c].pc \notin {"done", "failed"}
       /\ call[c].pc \in {"writing", "committing"} => r.pc \in {"committing", "done", "failed"}
       /\ r.pc = "done" => r.at = {} /\ r.got = 0
       /\ holder' \in DbCall \cup {NoCall} /\ rowLock' \in DbCall \cup {NoCall}
  BY <1>0, <1>1, <1>4 DEF LocksKnown, JobKnown, TypeOK
<1> QED BY <1>1, <1>2, <1>3, <1>6, <1>7, <1>8, <1>9, <1>10, <1>11, <1>12, QuietStep


LEMMA BeginStep ==
    ASSUME StoreInv, NEW c \in DbCall, Begin(c)
    PROVE  StoreInv'
<1>1. StandsAt(c, "idle") /\ UNCHANGED <<kind, doc, jobRow, holder, rowLock>>
  BY DEF Begin
<1>2. PICK op, at, pc :
        /\ Starts(c, op, at, pc) /\ at \in SUBSET Place
        /\ \/ op = "load" /\ at = {} /\ pc = "rows"
           \/ op = "edit" /\ pc = "waiting"
           \/ op \in {"pool claim", "give back"} /\ at = {} /\ pc = "waiting"
           \/ op = "claim" /\ at = {} /\ pc = IF kind = "postgres" THEN "picking" ELSE "waiting"
  BY DEF Begin
<1> QED BY <1>1, <1>2, StartsStep

LEMMA ReadRowsStep ==
    ASSUME StoreInv, NEW c \in DbCall, ReadRows(c)
    PROVE  StoreInv'
<1> DEFINE r == [call[c] EXCEPT
           !.pc = IF kind = "postgres" THEN "meta" ELSE HasRead(c),
           !.copy = [p \in Place |-> IF p = Meta /\ kind = "postgres" THEN {} ELSE doc[p]],
           !.snap = doc[Meta],
           !.job = jobRow]
<1>0. /\ TypeOK /\ call[c] \in CallRow /\ call[c].copy \in Document /\ call[c].snap \subseteq DbCall
      /\ call[c].job \in JobRow /\ call[c].at \subseteq Place /\ call[c].got \in Nat
      /\ LocksKnown(c, call[c]) /\ JobKnown(call[c]) /\ CopyKnown(c, call[c])
  BY RowTyped DEF StoreInv, LocksAreHeld, JobIsKnown, CopiesAreKnown
<1>01. \A d \in DbCall : call[d].got \in Nat /\ call[d].job.attempts \in Nat /\ call[d].at \subseteq Place
  BY <1>0, RowTyped DEF JobRow
<1>1. /\ call[c].pc = "rows" /\ UNCHANGED <<kind, doc, jobRow, holder, rowLock>>
  BY <1>0 DEF ReadRows, StandsAt
<1>2. Becomes(c, r)
  BY DEF ReadRows, StandsAt
<1>3. r \in CallRow
  BY <1>0, <1>1 DEF CallRow, Pc, HasRead, TypeOK, Document, Place
<1>4. /\ r.pc = IF kind = "postgres" THEN "meta" ELSE HasRead(c)
      /\ r.op = call[c].op
      /\ r.at = call[c].at
      /\ r.copy = [p \in Place |-> IF p = Meta /\ kind = "postgres" THEN {} ELSE doc[p]]
      /\ r.snap = doc[Meta]
      /\ r.job = jobRow
      /\ r.jobEdited = call[c].jobEdited
      /\ r.got = call[c].got
  BY <1>0 DEF CallRow
<1> HIDE DEF r
<1>5. /\ call' \in [DbCall -> CallRow]
      /\ \A d \in DbCall : call'[d] = IF d = c THEN r ELSE call[d]
  BY <1>0, <1>2, <1>3, OneRow DEF TypeOK
<1>6. LocksAreHeld'
  <2> SUFFICES ASSUME NEW d \in DbCall
               PROVE  LocksKnown(d, call[d])'
    BY DEF LocksAreHeld
  <2>1. LocksKnown(d, call[d])
    BY DEF StoreInv, LocksAreHeld
  <2>2. CASE d = c
    BY <1>0, <1>1, <1>4, <1>5, <2>2, StoreAssumption DEF LocksKnown, HasRead
  <2>3. CASE d # c
    BY <1>0, <1>1, <1>5, <2>1, <2>3, StoreAssumption DEF LocksKnown
  <2> QED BY <2>2, <2>3
<1>7. JobKnown(call[c])'
  BY <1>0, <1>1, <1>4, <1>5 DEF JobKnown, Behind, Claimed, LocksKnown, TypeOK, HasRead
<1>8. CopyKnown(c, call[c])'
  <2>1. \A e \in DbCall : call'[e].at = call[e].at
    BY <1>4, <1>5
  <2>2. kind = "json" => r.copy = doc
    BY <1>0, <1>4 DEF TypeOK, Document
  <2>3. kind = "postgres" => \A p \in Row : r.copy[p] = doc[p]
    BY <1>4, StoreAssumption DEF Place
  <2>4. kind = "postgres" => \A p \in Place : SeenAt(r.copy, r.snap, p) = doc[p]
    BY <1>4, StoreAssumption DEF SeenAt, Place
  <2>5. kind = "postgres" => SnapWhole(call[c].copy, call[c].snap)'
    BY <1>01, <1>5, <2>1, <2>4 DEF SnapWhole, SeenAt, StoreInv, Whole
  <2>6. kind = "json" => Whole(call[c].copy)'
    BY <1>5, <2>1, <2>2 DEF Whole, StoreInv
  <2>7. \A e \in DbCall : e \in r.snap => call[e].pc \in {"done", "failed"}
    BY <1>4 DEF StoreInv, ChangesHaveOwners, Place
  <2>8. CASE kind = "json"
    BY <1>0, <1>1, <1>4, <1>5, <2>1, <2>2, <2>3, <2>4, <2>5, <2>6, <2>7, <2>8 DEF CopyKnown, LocksKnown, HasRead
  <2>9. CASE kind = "postgres" /\ call[c].op = "load"
    BY <1>0, <1>1, <1>4, <1>5, <2>1, <2>2, <2>3, <2>4, <2>5, <2>6, <2>7, <2>9 DEF CopyKnown, LocksKnown, HasRead
  <2>10. CASE kind = "postgres" /\ call[c].op # "load"
    BY <1>0, <1>1, <1>4, <1>5, <2>1, <2>2, <2>3, <2>4, <2>5, <2>6, <2>7, <2>10 DEF CopyKnown, LocksKnown, HasRead
  <2> QED BY <1>0, <2>8, <2>9, <2>10 DEF TypeOK
<1>9. ClaimsAreCounted'
  <2>1. r.got = 0 /\ jobRow.attempts \in Nat
    BY <1>0, <1>1, <1>4 DEF JobKnown, TypeOK, JobRow
  <2> QED BY <1>0, <1>01, <1>1, <1>4, <1>5, <2>1 DEF StoreInv, ClaimsAreCounted, LocksKnown, HasRead
<1>10. \A p \in Place, e \in DbCall : e \in r.copy[p] =>
          e = c \/ call[e].pc \in {"writing", "committing", "done", "failed"}
  BY <1>0, <1>1, <1>4 DEF StoreInv, ChangesHaveOwners, HasRead
<1>11. (\E p \in Place : c \in r.copy[p]) => r.pc \in {"writing", "committing", "done", "failed"}
  BY <1>0, <1>1, <1>4 DEF StoreInv, ChangesHaveOwners, HasRead
<1>12. /\ r.at = call[c].at \/ call[c].pc \in {"new", "idle"}
       /\ call[c].pc \notin {"done", "failed"}
       /\ call[c].pc \in {"writing", "committing"} => r.pc \in {"committing", "done", "failed"}
       /\ r.pc = "done" => r.at = {} /\ r.got = 0
       /\ holder' \in DbCall \cup {NoCall} /\ rowLock' \in DbCall \cup {NoCall}
  BY <1>0, <1>1, <1>4 DEF LocksKnown, JobKnown, TypeOK, HasRead
<1> QED BY <1>1, <1>2, <1>3, <1>6, <1>7, <1>8, <1>9, <1>10, <1>11, <1>12, QuietStep


LEMMA ReadMetaStep ==
    ASSUME StoreInv, NEW c \in DbCall, ReadMeta(c)
    PROVE  StoreInv'
<1> DEFINE r == [call[c] EXCEPT !.pc = HasRead(c), !.copy[Meta] = MetaSeen(c)]
<1>0. /\ TypeOK /\ call[c] \in CallRow /\ call[c].copy \in Document /\ call[c].snap \subseteq DbCall
      /\ call[c].job \in JobRow /\ call[c].at \subseteq Place /\ call[c].got \in Nat
      /\ LocksKnown(c, call[c]) /\ JobKnown(call[c]) /\ CopyKnown(c, call[c])
  BY RowTyped DEF StoreInv, LocksAreHeld, JobIsKnown, CopiesAreKnown
<1>01. \A d \in DbCall : call[d].got \in Nat /\ call[d].job.attempts \in Nat /\ call[d].at \subseteq Place
  BY <1>0, RowTyped DEF JobRow
<1>1. /\ call[c].pc = "meta" /\ UNCHANGED <<kind, doc, jobRow, holder, rowLock>>
  BY <1>0 DEF ReadMeta, StandsAt
<1>2. Becomes(c, r)
  BY DEF ReadMeta, StandsAt
<1>3. r \in CallRow
  BY <1>0, <1>1 DEF CallRow, Pc, HasRead, MetaSeen, TypeOK, Document, Place
<1>4. /\ r.pc = HasRead(c)
      /\ r.op = call[c].op
      /\ r.at = call[c].at
      /\ r.copy = [call[c].copy EXCEPT ![Meta] = MetaSeen(c)]
      /\ r.snap = call[c].snap
      /\ r.job = call[c].job
      /\ r.jobEdited = call[c].jobEdited
      /\ r.got = call[c].got
  BY <1>0 DEF CallRow
<1> HIDE DEF r
<1>5. /\ call' \in [DbCall -> CallRow]
      /\ \A d \in DbCall : call'[d] = IF d = c THEN r ELSE call[d]
  BY <1>0, <1>2, <1>3, OneRow DEF TypeOK
<1>6. LocksAreHeld'
  <2> SUFFICES ASSUME NEW d \in DbCall
               PROVE  LocksKnown(d, call[d])'
    BY DEF LocksAreHeld
  <2>1. LocksKnown(d, call[d])
    BY DEF StoreInv, LocksAreHeld
  <2>2. CASE d = c
    BY <1>0, <1>1, <1>4, <1>5, <2>2, StoreAssumption DEF LocksKnown, HasRead
  <2>3. CASE d # c
    BY <1>0, <1>1, <1>5, <2>1, <2>3, StoreAssumption DEF LocksKnown
  <2> QED BY <2>2, <2>3
<1>7. JobKnown(call[c])'
  BY <1>0, <1>1, <1>4, <1>5 DEF JobKnown, Behind, Claimed, LocksKnown, TypeOK, HasRead
<1>8. CopyKnown(c, call[c])'
  <2>1. \A e \in DbCall : call'[e].at = call[e].at
    BY <1>4, <1>5
  <2>2. call[c].op # "load" => r.copy = doc
    BY <1>0, <1>1, <1>4 DEF CopyKnown, MetaSeen, TypeOK, Document, Place
  <2>3. call[c].op = "load" => \A p \in Place : r.copy[p] = SeenAt(call[c].copy, call[c].snap, p)
    BY <1>0, <1>4 DEF SeenAt, MetaSeen, Document
  <2>4. call[c].op = "load" => SnapWhole(call[c].copy, call[c].snap)
    BY <1>0, <1>1 DEF CopyKnown
  <2>5. call[c].op = "load" => Whole(call[c].copy)'
    BY <1>01, <1>5, <2>1, <2>3, <2>4 DEF Whole, SnapWhole
  <2> QED BY <1>0, <1>1, <1>4, <1>5, <2>1, <2>2, <2>3, <2>4, <2>5 DEF CopyKnown, LocksKnown, HasRead
<1>9. ClaimsAreCounted'
  <2>1. r.got = 0 /\ jobRow.attempts \in Nat
    BY <1>0, <1>1, <1>4 DEF JobKnown, TypeOK, JobRow
  <2> QED BY <1>0, <1>01, <1>1, <1>4, <1>5, <2>1 DEF StoreInv, ClaimsAreCounted, LocksKnown, HasRead
<1>10. \A p \in Place, e \in DbCall : e \in r.copy[p] =>
          e = c \/ call[e].pc \in {"writing", "committing", "done", "failed"}
  BY <1>0, <1>1, <1>4 DEF StoreInv, ChangesHaveOwners, HasRead, MetaSeen, CopyKnown, Document
<1>11. (\E p \in Place : c \in r.copy[p]) => r.pc \in {"writing", "committing", "done", "failed"}
  BY <1>0, <1>1, <1>4 DEF StoreInv, ChangesHaveOwners, HasRead, MetaSeen, CopyKnown, Document
<1>12. /\ r.at = call[c].at \/ call[c].pc \in {"new", "idle"}
       /\ call[c].pc \notin {"done", "failed"}
       /\ call[c].pc \in {"writing", "committing"} => r.pc \in {"committing", "done", "failed"}
       /\ r.pc = "done" => r.at = {} /\ r.got = 0
       /\ holder' \in DbCall \cup {NoCall} /\ rowLock' \in DbCall \cup {NoCall}
  BY <1>0, <1>1, <1>4 DEF LocksKnown, JobKnown, TypeOK, HasRead
<1> QED BY <1>1, <1>2, <1>3, <1>6, <1>7, <1>8, <1>9, <1>10, <1>11, <1>12, QuietStep


LEMMA MutateStep ==
    ASSUME StoreInv, NEW c \in DbCall, Mutate(c)
    PROVE  StoreInv'
<1> DEFINE claims == call[c].op \in {"claim", "pool claim"} /\ call[c].job.status = "queued"
           gives == call[c].op = "give back" /\ call[c].job.status = "running"
           job == IF claims THEN Claimed(call[c].job)
                  ELSE IF gives THEN [call[c].job EXCEPT !.status = "queued"] ELSE call[c].job
           r == [call[c] EXCEPT
               !.pc = "writing",
               !.copy = [p \in Place |-> IF p \in call[c].at THEN call[c].copy[p] \cup {c}
                                         ELSE call[c].copy[p]],
               !.job = job,
               !.jobEdited = claims \/ gives,
               !.got = IF claims THEN call[c].job.attempts + 1 ELSE 0]
<1>0. /\ TypeOK /\ call[c] \in CallRow /\ call[c].copy \in Document /\ call[c].snap \subseteq DbCall
      /\ call[c].job \in JobRow /\ call[c].at \subseteq Place /\ call[c].got \in Nat
      /\ LocksKnown(c, call[c]) /\ JobKnown(call[c]) /\ CopyKnown(c, call[c])
  BY RowTyped DEF StoreInv, LocksAreHeld, JobIsKnown, CopiesAreKnown
<1>01. \A d \in DbCall : call[d].got \in Nat /\ call[d].job.attempts \in Nat /\ call[d].at \subseteq Place
  BY <1>0, RowTyped DEF JobRow
<1>02. /\ job \in JobRow /\ claims \in BOOLEAN /\ gives \in BOOLEAN
       /\ claims => /\ call[c].op \in {"claim", "pool claim"} /\ call[c].job.status = "queued"
                    /\ job = Claimed(call[c].job)
                    /\ job.status = "running" /\ job.attempts = call[c].job.attempts + 1
       /\ gives => /\ ~claims /\ call[c].job.status = "running"
                   /\ job.status = "queued" /\ job.attempts = call[c].job.attempts
       /\ (~claims /\ ~gives) => job = call[c].job
  <2>1. Claimed(call[c].job) \in JobRow /\ Claimed(call[c].job).status = "running"
        /\ Claimed(call[c].job).attempts = call[c].job.attempts + 1
    BY <1>0 DEF JobRow, Claimed
  <2> DEFINE back == [call[c].job EXCEPT !.status = "queued"]
  <2>2. back \in JobRow /\ back.status = "queued" /\ back.attempts = call[c].job.attempts
    BY <1>0 DEF JobRow
  <2> HIDE DEF back
  <2> QED BY <1>0, <2>1, <2>2 DEF back
<1> HIDE DEF claims, gives, job
<1>1. /\ call[c].pc = "mutating" /\ UNCHANGED <<kind, doc, jobRow, holder, rowLock>>
  BY <1>0 DEF Mutate, StandsAt
<1>2. Becomes(c, r)
  BY DEF Mutate, StandsAt, claims, gives, job
<1>3. r \in CallRow
  <2> DEFINE copy == [p \in Place |-> IF p \in call[c].at THEN call[c].copy[p] \cup {c} ELSE call[c].copy[p]]
             edited == claims \/ gives
             got == IF claims THEN call[c].job.attempts + 1 ELSE 0
  <2>1. copy \in Document
    BY <1>0 DEF Document
  <2>2. edited \in BOOLEAN
    BY Zenon
  <2>4. got \in Nat
    BY <1>01
  <2> HIDE DEF copy, edited, got
  <2>3. [call[c] EXCEPT !.pc = "writing", !.copy = copy, !.job = job, !.jobEdited = edited, !.got = got] \in CallRow
    BY <1>0, <1>02, <2>1, <2>2, <2>4 DEF CallRow, Pc
  <2> QED BY <2>3 DEF copy, edited, got
<1>4. /\ r.pc = "writing"
      /\ r.op = call[c].op
      /\ r.at = call[c].at
      /\ r.copy = [p \in Place |-> IF p \in call[c].at THEN call[c].copy[p] \cup {c} ELSE call[c].copy[p]]
      /\ r.snap = call[c].snap
      /\ r.job = job
      /\ r.jobEdited = (claims \/ gives)
      /\ r.got = IF claims THEN call[c].job.attempts + 1 ELSE 0
  BY <1>0 DEF CallRow
<1> HIDE DEF r
<1>5. /\ call' \in [DbCall -> CallRow]
      /\ \A d \in DbCall : call'[d] = IF d = c THEN r ELSE call[d]
  BY <1>0, <1>2, <1>3, OneRow DEF TypeOK
<1>6. LocksAreHeld'
  <2> SUFFICES ASSUME NEW d \in DbCall
               PROVE  LocksKnown(d, call[d])'
    BY DEF LocksAreHeld
  <2>1. LocksKnown(d, call[d])
    BY DEF StoreInv, LocksAreHeld
  <2>2. CASE d = c
    BY <1>0, <1>1, <1>4, <1>5, <2>2, StoreAssumption DEF LocksKnown
  <2>3. CASE d # c
    BY <1>0, <1>1, <1>5, <2>1, <2>3, StoreAssumption DEF LocksKnown
  <2> QED BY <2>2, <2>3
<1>7. JobKnown(call[c])'
  <2>1. Behind(call[c].job) /\ call[c].op # "load"
    BY <1>0, <1>1 DEF JobKnown, LocksKnown
  <2>2. CASE claims
    <3>0. r.jobEdited
      BY <1>4, <2>2, Zenon
    <3>1. /\ r.got = call[c].job.attempts + 1 /\ r.got # 0 /\ r.job.status = "running"
          /\ r.job.attempts = r.got /\ r.op \in {"claim", "pool claim"} /\ r.pc = "writing"
          /\ call[c].job.status = "queued" /\ r.job = Claimed(call[c].job)
      <4>1. r.got = call[c].job.attempts + 1 /\ r.op = call[c].op /\ r.job = job /\ r.pc = "writing"
        BY <1>4, <2>2
      <4>2. r.got # 0
        BY <1>01, <4>1
      <4> QED BY <1>02, <2>2, <4>1, <4>2
    <3>2. \/ jobRow.status = "queued" /\ jobRow.attempts + 1 = r.got
          \/ kind = "postgres" /\ jobRow = r.job
      BY <2>1, <3>1 DEF Behind
    <3> QED BY <1>1, <1>5, <3>0, <3>1, <3>2 DEF JobKnown
  <2>3. CASE gives
    BY <1>02, <1>0, <1>1, <1>4, <1>5, <2>1, <2>3 DEF JobKnown, Behind, Claimed, TypeOK, JobRow
  <2>4. CASE ~claims /\ ~gives
    BY <1>02, <1>0, <1>1, <1>4, <1>5, <2>1, <2>4 DEF JobKnown, Behind, Claimed, TypeOK, JobRow
  <2> QED BY <2>2, <2>3, <2>4
<1>8. CopyKnown(c, call[c])'
  <2>1. \A p \in Place : r.copy[p] = IF p \in call[c].at THEN doc[p] \cup {c} ELSE doc[p]
    BY ZenonT(60), <1>0, <1>1, <1>4 DEF CopyKnown
  <2> QED BY <1>0, <1>1, <1>4, <1>5, <2>1 DEF CopyKnown, LocksKnown
<1>9. ClaimsAreCounted'
  <2>1. r.got # 0 => r.got = call[c].job.attempts + 1
    BY <1>4
  <2> QED BY <1>0, <1>01, <1>1, <1>4, <1>5, <2>1 DEF StoreInv, ClaimsAreCounted, LocksKnown
<1>10. \A p \in Place, e \in DbCall : e \in r.copy[p] =>
          e = c \/ call[e].pc \in {"writing", "committing", "done", "failed"}
  <2>1. \A p \in Place, e \in DbCall : e \in r.copy[p] => e = c \/ e \in call[c].copy[p]
    BY <1>4
  <2> QED BY <2>1 DEF StoreInv, ChangesHaveOwners
<1>11. (\E p \in Place : c \in r.copy[p]) => r.pc \in {"writing", "committing", "done", "failed"}
  BY <1>0, <1>1, <1>4 DEF StoreInv, ChangesHaveOwners
<1>12. /\ r.at = call[c].at \/ call[c].pc \in {"new", "idle"}
       /\ call[c].pc \notin {"done", "failed"}
       /\ call[c].pc \in {"writing", "committing"} => r.pc \in {"committing", "done", "failed"}
       /\ r.pc = "done" => r.at = {} /\ r.got = 0
       /\ holder' \in DbCall \cup {NoCall} /\ rowLock' \in DbCall \cup {NoCall}
  BY <1>0, <1>1, <1>4 DEF LocksKnown, JobKnown, TypeOK
<1> QED BY <1>1, <1>2, <1>3, <1>6, <1>7, <1>8, <1>9, <1>10, <1>11, <1>12, QuietStep


\* Pick finds the job, and nobody at it.
LEMMA PickJobStep ==
    ASSUME StoreInv, NEW c \in DbCall, UNCHANGED <<kind, doc, jobRow, holder>>,
           StandsAt(c, "picking"), jobRow.status = "queued", RowIsFree, rowLock' = c,
           Becomes(c, [call[c] EXCEPT !.pc = "picked", !.job = jobRow])
    PROVE  StoreInv'
<1> DEFINE r == [call[c] EXCEPT !.pc = "picked", !.job = jobRow]
<1>0. /\ TypeOK /\ call[c] \in CallRow /\ call[c].copy \in Document /\ call[c].snap \subseteq DbCall
      /\ call[c].job \in JobRow /\ call[c].at \subseteq Place /\ call[c].got \in Nat
      /\ LocksKnown(c, call[c]) /\ JobKnown(call[c]) /\ CopyKnown(c, call[c])
  BY RowTyped DEF StoreInv, LocksAreHeld, JobIsKnown, CopiesAreKnown
<1>1. /\ call[c].pc = "picking" /\ UNCHANGED <<kind, doc, jobRow, holder>>
      /\ rowLock = NoCall /\ rowLock' = c /\ jobRow.status = "queued"
  BY <1>0 DEF StandsAt, RowIsFree
<1>2. Becomes(c, r)
  BY DEF StandsAt, RowIsFree
<1>3. r \in CallRow
  BY <1>0, <1>1 DEF CallRow, Pc, TypeOK
<1>4. /\ r.pc = "picked"
      /\ r.op = call[c].op
      /\ r.at = call[c].at
      /\ r.copy = call[c].copy
      /\ r.snap = call[c].snap
      /\ r.job = jobRow
      /\ r.jobEdited = call[c].jobEdited
      /\ r.got = call[c].got
  BY <1>0 DEF CallRow
<1> HIDE DEF r
<1>5. /\ call' \in [DbCall -> CallRow]
      /\ \A d \in DbCall : call'[d] = IF d = c THEN r ELSE call[d]
  BY <1>0, <1>2, <1>3, OneRow DEF TypeOK
<1>6. LocksAreHeld'
  <2> SUFFICES ASSUME NEW d \in DbCall
               PROVE  LocksKnown(d, call[d])'
    BY DEF LocksAreHeld
  <2>1. LocksKnown(d, call[d])
    BY DEF StoreInv, LocksAreHeld
  <2>2. CASE d = c
    BY <1>0, <1>1, <1>4, <1>5, <2>2, StoreAssumption DEF LocksKnown
  <2>3. CASE d # c
    BY <1>0, <1>1, <1>5, <2>1, <2>3, StoreAssumption DEF LocksKnown
  <2> QED BY <2>2, <2>3
<1>7. JobKnown(call[c])'
  BY <1>0, <1>1, <1>4, <1>5 DEF JobKnown, Behind, Claimed, LocksKnown, TypeOK
<1>8. CopyKnown(c, call[c])'
  BY <1>0, <1>1, <1>4, <1>5 DEF CopyKnown, LocksKnown, TypeOK, Document
<1>9. ClaimsAreCounted'
  BY <1>0, <1>1, <1>4, <1>5 DEF StoreInv, ClaimsAreCounted, LocksKnown, TypeOK, JobRow
<1>10. \A p \in Place, e \in DbCall : e \in r.copy[p] =>
          e = c \/ call[e].pc \in {"writing", "committing", "done", "failed"}
  BY <1>0, <1>1, <1>4 DEF StoreInv, ChangesHaveOwners
<1>11. (\E p \in Place : c \in r.copy[p]) => r.pc \in {"writing", "committing", "done", "failed"}
  BY <1>0, <1>1, <1>4 DEF StoreInv, ChangesHaveOwners
<1>12. /\ r.at = call[c].at \/ call[c].pc \in {"new", "idle"}
       /\ call[c].pc \notin {"done", "failed"}
       /\ call[c].pc \in {"writing", "committing"} => r.pc \in {"committing", "done", "failed"}
       /\ r.pc = "done" => r.at = {} /\ r.got = 0
       /\ holder' \in DbCall \cup {NoCall} /\ rowLock' \in DbCall \cup {NoCall}
  BY <1>0, <1>1, <1>4 DEF LocksKnown, JobKnown, TypeOK
<1> QED BY <1>1, <1>2, <1>3, <1>6, <1>7, <1>8, <1>9, <1>10, <1>11, <1>12, QuietStep


\* Pick finds nothing to claim.
LEMMA PickNoneStep ==
    ASSUME StoreInv, NEW c \in DbCall, UNCHANGED <<kind, doc, jobRow, holder, rowLock>>,
           StandsAt(c, "picking"), Moved(c, "done")
    PROVE  StoreInv'
<1> DEFINE r == [call[c] EXCEPT !.pc = "done"]
<1>0. /\ TypeOK /\ call[c] \in CallRow /\ call[c].copy \in Document /\ call[c].snap \subseteq DbCall
      /\ call[c].job \in JobRow /\ call[c].at \subseteq Place /\ call[c].got \in Nat
      /\ LocksKnown(c, call[c]) /\ JobKnown(call[c]) /\ CopyKnown(c, call[c])
  BY RowTyped DEF StoreInv, LocksAreHeld, JobIsKnown, CopiesAreKnown
<1>01. \A d \in DbCall : call[d].got \in Nat /\ call[d].job.attempts \in Nat /\ call[d].at \subseteq Place
  BY <1>0, RowTyped DEF JobRow
<1>1. /\ call[c].pc = "picking" /\ UNCHANGED <<kind, doc, jobRow, holder, rowLock>>
  BY <1>0 DEF StandsAt, Moved
<1>2. Becomes(c, r)
  BY DEF StandsAt, Moved
<1>3. r \in CallRow
  BY <1>0, PlaceOnly DEF Pc
<1>4. /\ r.pc = "done"
      /\ r.op = call[c].op
      /\ r.at = call[c].at
      /\ r.copy = call[c].copy
      /\ r.snap = call[c].snap
      /\ r.job = call[c].job
      /\ r.jobEdited = call[c].jobEdited
      /\ r.got = call[c].got
  BY <1>0, PlaceOnly DEF Pc
<1> HIDE DEF r
<1>5. /\ call' \in [DbCall -> CallRow]
      /\ \A d \in DbCall : call'[d] = IF d = c THEN r ELSE call[d]
  BY <1>0, <1>2, <1>3, OneRow DEF TypeOK
<1>6. LocksAreHeld'
  <2> SUFFICES ASSUME NEW d \in DbCall
               PROVE  LocksKnown(d, call[d])'
    BY DEF LocksAreHeld
  <2>1. LocksKnown(d, call[d])
    BY DEF StoreInv, LocksAreHeld
  <2>2. CASE d = c
    BY <1>0, <1>1, <1>4, <1>5, <2>2, StoreAssumption DEF LocksKnown
  <2>3. CASE d # c
    BY <1>0, <1>1, <1>5, <2>1, <2>3, StoreAssumption DEF LocksKnown
  <2> QED BY <2>2, <2>3
<1>7. JobKnown(call[c])'
  BY <1>0, <1>1, <1>4, <1>5 DEF JobKnown, Behind, Claimed, LocksKnown, TypeOK
<1>8. CopyKnown(c, call[c])'
  <2>1. \A p \in Place : call'[c].copy[p] = {}
    BY <1>0, <1>1, <1>4, <1>5 DEF CopyKnown
  <2>2. Whole(call[c].copy)'
    BY <1>01, <1>4, <1>5, <2>1 DEF Whole
  <2> QED BY <1>0, <1>1, <1>4, <1>5, <2>1, <2>2 DEF CopyKnown, LocksKnown
<1>9. ClaimsAreCounted'
  <2>1. r.got = 0 /\ jobRow.attempts \in Nat
    BY <1>0, <1>1, <1>4 DEF JobKnown, TypeOK, JobRow
  <2> QED BY <1>0, <1>01, <1>1, <1>4, <1>5, <2>1 DEF StoreInv, ClaimsAreCounted, LocksKnown
<1>10. \A p \in Place, e \in DbCall : e \in r.copy[p] =>
          e = c \/ call[e].pc \in {"writing", "committing", "done", "failed"}
  BY <1>0, <1>1, <1>4 DEF StoreInv, ChangesHaveOwners
<1>11. (\E p \in Place : c \in r.copy[p]) => r.pc \in {"writing", "committing", "done", "failed"}
  BY <1>0, <1>1, <1>4 DEF StoreInv, ChangesHaveOwners
<1>12. /\ r.at = call[c].at \/ call[c].pc \in {"new", "idle"}
       /\ call[c].pc \notin {"done", "failed"}
       /\ call[c].pc \in {"writing", "committing"} => r.pc \in {"committing", "done", "failed"}
       /\ r.pc = "done" => r.at = {} /\ r.got = 0
       /\ holder' \in DbCall \cup {NoCall} /\ rowLock' \in DbCall \cup {NoCall}
  BY <1>0, <1>1, <1>4 DEF LocksKnown, JobKnown, TypeOK
<1> QED BY <1>1, <1>2, <1>3, <1>6, <1>7, <1>8, <1>9, <1>10, <1>11, <1>12, QuietStep


LEMMA PickStep ==
    ASSUME StoreInv, NEW c \in DbCall, Pick(c)
    PROVE  StoreInv'
<1>1. CASE jobRow.status = "queued" /\ RowIsFree
  BY <1>1, PickJobStep DEF Pick
<1>2. CASE ~(jobRow.status = "queued" /\ RowIsFree)
  BY <1>2, PickNoneStep DEF Pick
<1> QED BY <1>1, <1>2

\* The row that is locked and queued is claimed; a call that read it before is
\* one claim behind.
LEMMA ClaimPickedStep ==
    ASSUME StoreInv, NEW c \in DbCall, ClaimPicked(c)
    PROVE  StoreInv'
<1>0. /\ TypeOK /\ call[c] \in CallRow /\ call[c].job \in JobRow /\ jobRow \in JobRow
      /\ LocksKnown(c, call[c]) /\ JobKnown(call[c]) /\ CopyKnown(c, call[c])
  BY RowTyped DEF StoreInv, LocksAreHeld, JobIsKnown, CopiesAreKnown, TypeOK
<1>01. \A d \in DbCall : call[d].got \in Nat /\ call[d].job \in JobRow /\ call[d].job.attempts \in Nat
                         /\ call[d].at \subseteq Place
  BY <1>0, RowTyped DEF JobRow
<1>1. /\ call[c].pc = "picked" /\ rowLock = c /\ kind = "postgres" /\ call[c].op = "claim"
      /\ jobRow.status = "queued" /\ call[c].job = jobRow
      /\ UNCHANGED <<kind, doc>>
      /\ holder' = IF holder = c THEN NoCall ELSE holder
      /\ rowLock' = NoCall
      /\ jobRow' = Claimed(jobRow)
  BY <1>0 DEF ClaimPicked, StandsAt, Release, LocksKnown
<1>2. /\ jobRow' \in JobRow /\ jobRow'.status = "running" /\ jobRow'.attempts = jobRow.attempts + 1
      /\ jobRow.attempts \in Nat
  BY <1>0, <1>1 DEF Claimed, JobRow
<1>3. PICK pc, got :
        /\ \/ pc = "done" /\ got = jobRow.attempts + 1
           \/ pc = "failed" /\ got = call[c].got
        /\ Becomes(c, [call[c] EXCEPT !.pc = pc, !.got = got])
  <2>1. CASE Becomes(c, [call[c] EXCEPT !.pc = "done", !.got = call[c].job.attempts + 1])
    <3>1. Becomes(c, [call[c] EXCEPT !.pc = "done", !.got = jobRow.attempts + 1])
      BY <1>1, <2>1
    <3> QED BY <3>1
  <2>2. CASE Moved(c, "failed")
    <3>1. [call[c] EXCEPT !.pc = "failed"] = [call[c] EXCEPT !.pc = "failed", !.got = call[c].got]
      BY <1>0 DEF CallRow
    <3> QED BY <2>2, <3>1 DEF Moved
  <2> QED BY <2>1, <2>2 DEF ClaimPicked
<1> DEFINE r == [call[c] EXCEPT !.pc = pc, !.got = got]
<1>4. got \in Nat /\ pc \in {"done", "failed"}
  BY <1>01, <1>2, <1>3
<1>5. r \in CallRow
  BY <1>0, <1>4 DEF CallRow, Pc
<1>6. /\ r.pc = pc /\ r.op = call[c].op /\ r.at = call[c].at /\ r.copy = call[c].copy
      /\ r.got = got
  BY <1>0 DEF CallRow
<1>7. Becomes(c, r)
  BY <1>3
<1> HIDE DEF r
<1>8. /\ call' \in [DbCall -> CallRow]
      /\ \A d \in DbCall : call'[d] = IF d = c THEN r ELSE call[d]
  BY <1>0, <1>5, <1>7, OneRow DEF TypeOK
<1>9. LocksAreHeld'
  <2> SUFFICES ASSUME NEW d \in DbCall
               PROVE  LocksKnown(d, call[d])'
    BY DEF LocksAreHeld
  <2>1. LocksKnown(d, call[d])
    BY DEF StoreInv, LocksAreHeld
  <2>2. CASE d = c
    BY <1>0, <1>1, <1>4, <1>6, <1>8, <2>2, StoreAssumption DEF LocksKnown
  <2>3. CASE d # c
    BY <1>0, <1>1, <1>8, <2>1, <2>3, StoreAssumption DEF LocksKnown
  <2> QED BY <2>2, <2>3
<1>10. ASSUME NEW d \in DbCall, d # c
       PROVE  JobKnown(call[d])'
  <2>0. JobKnown(call[d]) /\ call'[d] = call[d]
    BY <1>8, <1>10 DEF StoreInv, JobIsKnown
  <2>1. Behind(call[d].job) => Behind(call[d].job)'
    BY <1>1, <1>2, <2>0 DEF Behind, Claimed
  <2>2. (jobRow.attempts + 1 = call[d].job.attempts /\ call[d].job.status = "running")
            => call[d].job = Claimed(jobRow)
    BY <1>0, <1>01 DEF Claimed, JobRow
  <2> QED BY <1>1, <1>2, <2>0, <2>1, <2>2 DEF JobKnown
<1>11. JobKnown(call[c])'
  BY <1>4, <1>6, <1>8 DEF JobKnown
<1>12. CopyKnown(c, call[c])'
  <2>1. \A p \in Place : call'[c].copy[p] = {}
    BY <1>0, <1>1, <1>6, <1>8 DEF CopyKnown
  <2>2. Whole(call[c].copy)'
    BY <1>01, <1>6, <1>8, <2>1 DEF Whole
  <2> QED BY <1>4, <1>6, <1>8, <2>2 DEF CopyKnown
<1>13. ClaimsAreCounted'
  <2>1. \A d \in DbCall : call[d].op = "claim" =>
            call[d].pc \in {"picking", "picked", "done", "failed"}
    BY <1>1 DEF StoreInv, LocksAreHeld, LocksKnown
  <2>2. \A d \in DbCall : call'[d].pc = "done" => call'[d].got <= jobRow'.attempts
    BY <1>01, <1>2, <1>3, <1>6, <1>8 DEF StoreInv, ClaimsAreCounted
  <2>3. ASSUME NEW d \in DbCall, call'[d].pc = "done", NEW e \in DbCall, call'[e].op = call'[d].op
        PROVE  /\ (call'[e].op # "load" /\ call'[e].pc \in {"meta", "mutating"})
                    => call'[d].got <= call'[e].job.attempts
               /\ (call'[e].pc \in {"writing", "committing"} /\ call'[e].got # 0)
                    => call'[d].got < call'[e].got
    <3>1. CASE d = c
      BY <1>1, <1>4, <1>6, <1>8, <2>1, <2>3, <3>1
    <3>2. CASE d # c
      BY <1>4, <1>6, <1>8, <2>3, <3>2 DEF StoreInv, ClaimsAreCounted
    <3> QED BY <3>1, <3>2
  <2> QED BY <2>2, <2>3 DEF ClaimsAreCounted
<1>14. /\ \A p \in Place, e \in DbCall : e \in r.copy[p] =>
            e = c \/ call[e].pc \in {"writing", "committing", "done", "failed"}
       /\ (\E p \in Place : c \in r.copy[p]) => r.pc \in {"writing", "committing", "done", "failed"}
       /\ r.pc = "done" => r.at = {}
  BY <1>0, <1>1, <1>4, <1>6 DEF StoreInv, ChangesHaveOwners, LocksKnown
<1>15. ClaimsAreExclusive'
  <2>1. \A d \in DbCall : call[d].pc = "done" => call[d].got <= jobRow.attempts
    BY DEF StoreInv, ClaimsAreCounted
  <2>2. \A d \in DbCall : d # c => call'[d] = call[d]
    BY <1>8
  <2>3. call'[c].pc = "done" => call'[c].got = jobRow.attempts + 1
    BY <1>3, <1>6, <1>8
  <2>4. ASSUME NEW d \in DbCall, d # c, call[d].pc = "done", call'[c].pc = "done"
        PROVE  call[d].got # call'[c].got
    BY <1>01, <1>2, <2>1, <2>3, <2>4
  <2> QED BY <2>2, <2>4 DEF StoreInv, ClaimsAreExclusive, StandsAt
<1> QED BY <1>0, <1>1, <1>2, <1>5, <1>6, <1>7, <1>9, <1>10, <1>11, <1>12, <1>13, <1>14, <1>15, DocumentKept DEF TypeOK

\* What the holder of the lock commits is the document it read, with its change.
LEMMA CommitStep ==
    ASSUME StoreInv, NEW c \in DbCall, Commit(c)
    PROVE  StoreInv'
<1>0. /\ TypeOK /\ call[c] \in CallRow /\ call[c].job \in JobRow /\ jobRow \in JobRow
      /\ call[c].copy \in Document /\ doc \in Document
      /\ LocksKnown(c, call[c]) /\ JobKnown(call[c]) /\ CopyKnown(c, call[c])
  BY RowTyped DEF StoreInv, LocksAreHeld, JobIsKnown, CopiesAreKnown, TypeOK
<1>01. \A d \in DbCall : /\ call[d].got \in Nat /\ call[d].job.attempts \in Nat
                         /\ call[d].at \subseteq Place /\ call[d].jobEdited \in BOOLEAN
  BY <1>0, RowTyped DEF JobRow
<1>02. jobRow.attempts \in Nat
  BY <1>0 DEF JobRow
<1>1. /\ call[c].pc = "committing" /\ holder = c /\ UNCHANGED kind
      /\ holder' = NoCall
      /\ rowLock' = IF rowLock = c THEN NoCall ELSE rowLock
      /\ call[c].op # "load"
      /\ Stored(c)
  BY <1>0 DEF Commit, Release, StandsAt, LocksKnown
<1>2. PICK pc \in {"done", "failed"} : Moved(c, pc)
  BY DEF Commit
<1>3. /\ call' \in [DbCall -> CallRow]
      /\ \A d \in DbCall :
           /\ call'[d].pc = IF d = c THEN pc ELSE call[d].pc
           /\ call'[d].op = call[d].op /\ call'[d].at = call[d].at
           /\ call'[d].copy = call[d].copy /\ call'[d].snap = call[d].snap
           /\ call'[d].job = call[d].job /\ call'[d].jobEdited = call[d].jobEdited
           /\ call'[d].got = call[d].got
  <2>1. pc \in Pc
    BY DEF Pc
  <2> QED BY <1>0, <1>2, <2>1, OnePlace DEF TypeOK
<1>4. /\ doc' \in Document
      /\ \A p \in Place : doc'[p] = IF p \in call[c].at THEN doc[p] \cup {c} ELSE doc[p]
      /\ \A p \in Place : doc'[p] = call[c].copy[p]
  <2>1. \A p \in Place : call[c].copy[p] = IF p \in call[c].at THEN doc[p] \cup {c} ELSE doc[p]
    BY <1>0, <1>1 DEF CopyKnown
  <2>2. \A p \in Place : doc'[p] = call[c].copy[p]
    BY <1>1, <2>1 DEF Stored, Written
  <2>3. doc' \in Document
    BY <1>0, <1>1 DEF Stored, Document
  <2> QED BY <2>1, <2>2, <2>3
<1>5. ASSUME NEW d \in DbCall, d # c
      PROVE  /\ call[d].pc \notin {"mutating", "writing", "committing"}
             /\ call[d].op # "load" => call[d].pc \notin {"rows", "meta"}
             /\ LocksKnown(d, call[d])
  BY <1>1, <1>5 DEF StoreInv, LocksAreHeld, LocksKnown
<1>6. /\ jobRow' \in JobRow
      /\ jobRow.attempts <= jobRow'.attempts
      /\ call[c].got <= jobRow'.attempts
      /\ jobRow' = jobRow \/ rowLock = c
  <2>1. CASE call[c].jobEdited
    <3>1. jobRow' = call[c].job /\ rowLock = c
      BY <1>0, <1>1, <2>1 DEF Stored, LocksKnown
    <3>2. CASE call[c].got = 0
      <4>1. jobRow.attempts = call[c].job.attempts
        BY <1>0, <1>1, <2>1, <3>2 DEF JobKnown
      <4> QED BY <1>0, <1>02, <3>1, <3>2, <4>1
    <3>3. CASE call[c].got # 0
      <4>1. /\ call[c].job.attempts = call[c].got
            /\ jobRow.attempts + 1 = call[c].got \/ jobRow = call[c].job
        BY <1>0, <1>1, <2>1, <3>3 DEF JobKnown
      <4> QED BY <1>0, <1>01, <1>02, <3>1, <4>1
    <3> QED BY <3>2, <3>3
  <2>2. CASE ~call[c].jobEdited
    <3>1. Behind(call[c].job) /\ call[c].got = 0
      BY <1>0, <1>1, <2>2 DEF JobKnown
    <3>2. jobRow' = jobRow
      BY <1>1, <2>2, <3>1 DEF Behind, Stored
    <3> QED BY <1>0, <1>02, <3>1, <3>2
  <2> QED BY <2>1, <2>2
<1>7. TypeOK'
  BY <1>0, <1>1, <1>3, <1>4, <1>6 DEF TypeOK
<1>8. LocksAreHeld'
  <2> SUFFICES ASSUME NEW d \in DbCall
               PROVE  LocksKnown(d, call[d])'
    BY DEF LocksAreHeld
  <2>1. CASE d = c
    BY <1>0, <1>1, <1>3, <2>1, StoreAssumption DEF LocksKnown
  <2>2. CASE d # c
    BY <1>1, <1>3, <1>5, <1>6, <2>2, StoreAssumption DEF LocksKnown
  <2> QED BY <2>1, <2>2
<1>9. JobIsKnown'
  <2> SUFFICES ASSUME NEW d \in DbCall
               PROVE  JobKnown(call[d])'
    BY DEF JobIsKnown
  <2>1. CASE d = c
    BY <1>3, <2>1 DEF JobKnown
  <2>2. CASE d # c
    <3>1. JobKnown(call[d])
      BY DEF StoreInv, JobIsKnown
    <3> QED BY <1>3, <1>5, <2>2, <3>1 DEF JobKnown
  <2> QED BY <2>1, <2>2
<1>10. ClaimsAreCounted'
  <2>1. ASSUME NEW d \in DbCall, call'[d].pc = "done"
        PROVE  call'[d].got <= jobRow'.attempts
    <3>1. CASE d = c
      BY <1>3, <1>6, <3>1
    <3>2. CASE d # c
      <4>1. call[d].got <= jobRow.attempts /\ call'[d].got = call[d].got
        BY <1>3, <2>1, <3>2 DEF StoreInv, ClaimsAreCounted
      <4>2. jobRow'.attempts \in Nat
        BY <1>6 DEF JobRow
      <4> QED BY <1>01, <1>02, <1>6, <4>1, <4>2
    <3> QED BY <3>1, <3>2
  <2>2. \A e \in DbCall : /\ ~(call'[e].op # "load" /\ call'[e].pc \in {"meta", "mutating"})
                          /\ call'[e].pc \notin {"writing", "committing"}
    BY <1>3, <1>5
  <2> QED BY <2>1, <2>2 DEF ClaimsAreCounted
<1>11. \A e \in DbCall, p \in Place : e \in doc'[p] <=> e \in doc[p] \/ (e = c /\ p \in call[c].at)
  BY <1>4
<1>12. ChangesHaveOwners'
  <2>1. \A e \in DbCall : call[e].pc \in {"done", "failed"} => call'[e].pc \in {"done", "failed"}
    BY <1>1, <1>3
  <2>2. \A e \in DbCall : call[e].pc \in {"writing", "committing", "done", "failed"}
                              => call'[e].pc \in {"writing", "committing", "done", "failed"}
    BY <1>3
  <2>3. call'[c].pc \in {"done", "failed"}
    BY <1>3
  <2> QED BY <1>3, <1>11, <2>1, <2>2, <2>3 DEF StoreInv, ChangesHaveOwners
<1>13. Whole(doc)'
  <2> SUFFICES ASSUME NEW e \in DbCall, NEW p \in call[e].at, NEW q \in call[e].at
               PROVE  e \in doc'[p] <=> e \in doc'[q]
    BY <1>3 DEF Whole
  <2>1. p \in Place /\ q \in Place
    BY <1>01
  <2>2. e \in doc[p] <=> e \in doc[q]
    BY DEF StoreInv, Whole
  <2> QED BY <1>11, <2>1, <2>2
<1>14. CopiesAreKnown'
  <2> SUFFICES ASSUME NEW d \in DbCall
               PROVE  CopyKnown(d, call[d])'
    BY DEF CopiesAreKnown
  <2>0. CopyKnown(d, call[d])
    BY DEF StoreInv, CopiesAreKnown
  <2>1. CASE d = c
    <3>1. Whole(call[c].copy)'
      <4> SUFFICES ASSUME NEW e \in DbCall, NEW p \in call[e].at, NEW q \in call[e].at
                   PROVE  e \in call[c].copy[p] <=> e \in call[c].copy[q]
        BY <1>3 DEF Whole
      <4>1. p \in Place /\ q \in Place
        BY <1>01
      <4>2. e \in doc'[p] <=> e \in doc'[q]
        BY <1>3, <1>13 DEF Whole
      <4> QED BY <1>4, <4>1, <4>2
    <3> QED BY <1>3, <2>1, <3>1 DEF CopyKnown
  <2>2. CASE d # c
    <3>1. Whole(call[d].copy) => Whole(call[d].copy)'
      BY <1>3 DEF Whole
    <3>2. SnapWhole(call[d].copy, call[d].snap) => SnapWhole(call[d].copy, call[d].snap)'
      BY <1>3 DEF SnapWhole, SeenAt
    <3>3. (call[d].pc = "meta" => \A e \in DbCall : e \in call[d].snap => call[e].pc \in {"done", "failed"})'
      BY <1>1, <1>3, <2>0, <2>2 DEF CopyKnown
    <3> QED BY <1>3, <1>5, <2>0, <2>2, <3>1, <3>2, <3>3 DEF CopyKnown
  <2> QED BY <2>1, <2>2
<1>15. AcknowledgedIsKept'
  BY <1>01, <1>3, <1>11 DEF StoreInv, AcknowledgedIsKept, StandsAt
<1>16. ClaimsAreExclusive'
  <2>1. ASSUME NEW d \in DbCall, d # c, call[d].pc = "done", call[d].op = call[c].op, call[c].got # 0
        PROVE  call[d].got < call[c].got
    BY <1>1, <2>1 DEF StoreInv, ClaimsAreCounted
  <2>2. ASSUME NEW d \in DbCall, d # c, call[d].pc = "done", call[d].op = call[c].op, call[c].got # 0
        PROVE  call[d].got # call[c].got
    BY <1>01, <2>1, <2>2
  <2> QED BY <1>3, <2>2 DEF StoreInv, ClaimsAreExclusive, StandsAt
<1> QED BY <1>7, <1>8, <1>9, <1>10, <1>12, <1>13, <1>14, <1>15, <1>16 DEF StoreInv

\* The process of the file store dies: every open call has failed.
LEMMA CrashStep ==
    ASSUME StoreInv, Crash
    PROVE  StoreInv'
<1>1. /\ kind = "json" /\ UNCHANGED <<kind, doc, jobRow>> /\ holder' = NoCall /\ rowLock' = NoCall
      /\ call' = [c \in DbCall |-> IF call[c].pc \in Open THEN [call[c] EXCEPT !.pc = "failed"] ELSE call[c]]
  BY DEF Crash
<1>2. ASSUME NEW d \in DbCall
      PROVE  /\ call'[d] \in CallRow
             /\ call'[d].pc = IF call[d].pc \in Open THEN "failed" ELSE call[d].pc
             /\ call'[d].op = call[d].op /\ call'[d].at = call[d].at
             /\ call'[d].copy = call[d].copy /\ call'[d].snap = call[d].snap
             /\ call'[d].job = call[d].job /\ call'[d].jobEdited = call[d].jobEdited
             /\ call'[d].got = call[d].got
  <2>1. call[d] \in CallRow /\ "failed" \in Pc
    BY RowTyped DEF StoreInv, Pc
  <2>2. CASE call[d].pc \in Open
    <3>1. call'[d] = [call[d] EXCEPT !.pc = "failed"]
      BY <1>1, <2>2
    <3> QED BY <2>1, <2>2, <3>1, PlaceOnly
  <2>3. CASE call[d].pc \notin Open
    <3>1. call'[d] = call[d]
      BY <1>1, <2>3
    <3> QED BY <2>1, <2>3, <3>1
  <2> QED BY <2>2, <2>3
<1>3. ASSUME NEW d \in DbCall
      PROVE  /\ call'[d].pc \in {"new", "idle", "done", "failed"}
             /\ call'[d].pc = call[d].pc \/ call'[d].pc = "failed"
             /\ call[d].pc \in {"done", "failed"} => call'[d].pc = call[d].pc
             /\ LocksKnown(d, call[d]) /\ JobKnown(call[d]) /\ CopyKnown(d, call[d])
  <2>1. call[d].pc \in Pc
    BY RowTyped DEF StoreInv
  <2>2. LocksKnown(d, call[d]) /\ JobKnown(call[d]) /\ CopyKnown(d, call[d])
    BY DEF StoreInv, LocksAreHeld, JobIsKnown, CopiesAreKnown
  <2> QED BY <1>2, <2>1, <2>2 DEF Open, Pc
<1>4. TypeOK'
  <2>1. call' \in [DbCall -> CallRow]
    BY <1>1, <1>2
  <2> QED BY <1>1, <2>1 DEF StoreInv, TypeOK
<1>5. LocksAreHeld'
  BY <1>1, <1>2, <1>3 DEF LocksAreHeld, LocksKnown
<1>6. JobIsKnown'
  BY <1>2, <1>3 DEF JobIsKnown, JobKnown
<1>7. ClaimsAreCounted'
  BY <1>1, <1>2, <1>3 DEF StoreInv, ClaimsAreCounted
<1>8. ChangesHaveOwners'
  BY <1>1, <1>2, <1>3 DEF StoreInv, ChangesHaveOwners, Open
<1>9. Whole(doc)' /\ \A d \in DbCall : Whole(call[d].copy) => Whole(call[d].copy)'
  BY <1>1, <1>2 DEF StoreInv, Whole
<1>10. CopiesAreKnown'
  BY <1>2, <1>3, <1>9 DEF CopiesAreKnown, CopyKnown
<1>11. AcknowledgedIsKept'
  BY <1>1, <1>2, <1>3 DEF StoreInv, AcknowledgedIsKept, StandsAt
<1>12. ClaimsAreExclusive'
  BY <1>2, <1>3 DEF StoreInv, ClaimsAreExclusive, StandsAt
<1> QED BY <1>4, <1>5, <1>6, <1>7, <1>8, <1>9, <1>10, <1>11, <1>12 DEF StoreInv

LEMMA StoreInitial == StoreInit => StoreInv
<1> SUFFICES ASSUME StoreInit
             PROVE  StoreInv
  OBVIOUS
<1>1. [status |-> "queued", attempts |-> 0] \in JobRow
  BY DEF JobRow
<1>2. /\ Fresh \in CallRow /\ Fresh.pc = "new" /\ Fresh.op = "none" /\ Fresh.at = {}
      /\ Fresh.got = 0 /\ \A p \in Place : Fresh.copy[p] = {}
  <2> DEFINE empty == [p \in Place |-> {}]
             job == [status |-> "queued", attempts |-> 0]
  <2>1. empty \in Document /\ \A p \in Place : empty[p] = {}
    BY DEF Document
  <2> HIDE DEF empty, job
  <2>2. Fresh = [pc |-> "new", op |-> "none", at |-> {}, copy |-> empty, snap |-> {}, job |-> job,
                 jobEdited |-> FALSE, got |-> 0]
    BY DEF Fresh, empty, job
  <2>3. job \in JobRow
    BY <1>1 DEF job
  <2> QED BY <2>1, <2>2, <2>3 DEF CallRow, Pc
<1> HIDE DEF Fresh
<1>3. /\ kind \in {"json", "postgres"} /\ holder = NoCall /\ rowLock = NoCall
      /\ doc \in Document /\ \A p \in Place : doc[p] = {}
      /\ jobRow \in JobRow
      /\ call \in [DbCall -> CallRow]
      /\ \A c \in DbCall : call[c] = Fresh
  BY <1>1, <1>2 DEF StoreInit, Document
<1>4. TypeOK
  BY <1>3 DEF TypeOK
<1>5. LocksAreHeld /\ JobIsKnown /\ ClaimsAreCounted /\ ChangesHaveOwners
  BY <1>2, <1>3 DEF LocksAreHeld, LocksKnown, JobIsKnown, JobKnown, ClaimsAreCounted, ChangesHaveOwners
<1>6. CopiesAreKnown
  BY <1>2, <1>3 DEF CopiesAreKnown, CopyKnown
<1>7. Whole(doc) /\ AcknowledgedIsKept /\ ClaimsAreExclusive
  BY <1>2, <1>3 DEF Whole, AcknowledgedIsKept, ClaimsAreExclusive, StandsAt
<1> QED BY <1>4, <1>5, <1>6, <1>7 DEF StoreInv

LEMMA StoreStep == StoreInv /\ [StoreNext]_storeVars => StoreInv'
<1> SUFFICES ASSUME StoreInv, [StoreNext]_storeVars
             PROVE  StoreInv'
  OBVIOUS
<1>1. CASE Crash
  BY <1>1, CrashStep
<1>2. ASSUME NEW c \in DbCall,
             \/ Bootstrap(c) \/ Begin(c)
             \/ TakeLock(c) \/ ReadRows(c) \/ ReadMeta(c) \/ Mutate(c) \/ Write(c) \/ Commit(c)
             \/ Pick(c) \/ ClaimPicked(c)
             \/ Fail(c)
      PROVE  StoreInv'
  BY <1>2, BootstrapStep, BeginStep, TakeLockStep, ReadRowsStep, ReadMetaStep, MutateStep,
     WriteStep, CommitStep, PickStep, ClaimPickedStep, FailStep
<1>3. CASE UNCHANGED storeVars
  <2> USE <1>3 DEF storeVars
  <2>1. TypeOK'
    BY DEF StoreInv, TypeOK
  <2>2. LocksAreHeld'
    BY DEF StoreInv, LocksAreHeld, LocksKnown
  <2>3. JobIsKnown'
    BY DEF StoreInv, JobIsKnown, JobKnown, Behind
  <2>4. ClaimsAreCounted' /\ ClaimsAreExclusive'
    BY DEF StoreInv, ClaimsAreCounted, ClaimsAreExclusive, StandsAt
  <2>5. ChangesHaveOwners'
    BY DEF StoreInv, ChangesHaveOwners
  <2>6. CopiesAreKnown' /\ Whole(doc)'
    BY DEF StoreInv, CopiesAreKnown, CopyKnown, Whole, SnapWhole, SeenAt
  <2>7. AcknowledgedIsKept'
    BY DEF StoreInv, AcknowledgedIsKept, StandsAt
  <2> QED BY <2>1, <2>2, <2>3, <2>4, <2>5, <2>6, <2>7 DEF StoreInv
<1> QED BY <1>1, <1>2, <1>3 DEF StoreNext

-----------------------------------------------------------------------------
(* The store: theorems                                                      *)

\* The types, the locks and what is known of the job's row and of the copies
\* hold in every state: the discipline of transact, loadDb and claimJob.
THEOREM StoreIsDisciplined == StoreSpec => []StoreInv
<1>1. StoreInit => StoreInv
  BY StoreInitial
<1>2. StoreInv /\ [StoreNext]_storeVars => StoreInv'
  BY StoreStep
<1> QED BY <1>1, <1>2, PTL DEF StoreSpec

\* A change transact acknowledged is in every place it edits, whatever other
\* containers write, fail or boot after it.
THEOREM AcknowledgedStays == StoreSpec => []AcknowledgedIsKept
<1>1. StoreInv => AcknowledgedIsKept
  BY DEF StoreInv
<1> QED BY <1>1, StoreIsDisciplined, PTL

\* Whoever reads the document, and the store itself, has each change in all its
\* places or in none.
THEOREM ChangesComeWhole == StoreSpec => []ChangesAreSeenWhole
<1>1. StoreInv => ChangesAreSeenWhole
  <2> SUFFICES ASSUME StoreInv
               PROVE  ChangesAreSeenWhole
    OBVIOUS
  <2>1. Whole(doc) /\ \A c \in DbCall : call[c].pc \in {"done", "mutating"} => Whole(call[c].copy)
    BY DEF StoreInv, CopiesAreKnown, CopyKnown
  <2> QED BY <2>1 DEF Whole, ChangesAreSeenWhole
<1> QED BY <1>1, StoreIsDisciplined, PTL

\* No attempt of the job is claimed twice by the row lock of claimJob, nor twice
\* under the global lock of transact.
THEOREM AttemptsAreClaimedOnce == StoreSpec => []ClaimsAreExclusive
<1>1. StoreInv => ClaimsAreExclusive
  BY DEF StoreInv
<1> QED BY <1>1, StoreIsDisciplined, PTL

-----------------------------------------------------------------------------
(* The inference gateway                                                    *)

Request == [model : Model, status : {"queued", "dispatched", "completed", "failed"}, attempts : Nat]
TickPc == {"tick", "controls", "refresh", "observe", "requeue", "limit", "depth", "start", "claim",
           "budget", "evict", "chat", "answer", "idle"}
Memory == [pc : TickPc, stopped : BOOLEAN, reachable : BOOLEAN, waiting : BOOLEAN, busy : BOOLEAN,
           req : Nat]

\* What is proved of a tick: it claims only what waits, holds a request of the
\* queue while it dispatches one, and starts the chat when no other model is
\* loaded.
GatewayInv ==
    /\ inf \in Seq(Request)
    /\ gw \in Memory
    /\ emergency \in BOOLEAN
    /\ loaded \subseteq Model
    /\ gw.pc = "claim" => WithStatus("queued") # {}
    /\ gw.pc \in {"budget", "evict", "chat", "answer"} => gw.req \in DOMAIN inf
    /\ gw.pc = "chat" => loaded \subseteq {inf[gw.req].model}
    /\ \A m, n \in loaded : m = n

\* A set of numbers has a least one.
LEMMA LeastNat ==
    ASSUME NEW T, T \subseteq Nat, T # {}
    PROVE  \E x \in T : \A y \in T : x <= y
<1>1. PICK x \in T : \A y \in T : ~(<<y, x>> \in OpToRel(<, Nat))
  BY WFMin, NatLessThanWellFounded
<1>2. ASSUME NEW y \in T
      PROVE  x <= y
  <2>1. x \in Nat /\ y \in Nat
    OBVIOUS
  <2>2. ~(y < x)
    BY <1>1, <2>1 DEF OpToRel
  <2> QED BY <2>1, <2>2
<1> QED BY <1>2

LEMMA FirstIsOne ==
    ASSUME inf \in Seq(Request), NEW s, WithStatus(s) # {}
    PROVE  First(WithStatus(s)) \in WithStatus(s)
<1>1. WithStatus(s) \subseteq Nat
  BY DEF WithStatus
<1>2. PICK r \in WithStatus(s) : \A t \in WithStatus(s) : r <= t
  BY <1>1, LeastNat
<1> QED BY <1>2 DEF First

\* What a step may do to the memory of a tick.
LEMMA MemoryMoves ==
    ASSUME gw \in Memory, NEW pc \in TickPc
    PROVE  /\ [gw EXCEPT !.pc = pc] \in Memory
           /\ [gw EXCEPT !.pc = pc].pc = pc
           /\ [gw EXCEPT !.pc = pc].req = gw.req
           /\ \A q \in Nat : /\ [gw EXCEPT !.pc = pc, !.req = q] \in Memory
                             /\ [gw EXCEPT !.pc = pc, !.req = q].pc = pc
                             /\ [gw EXCEPT !.pc = pc, !.req = q].req = q
BY DEF Memory

\* A step of a tick that leaves the queue alone and takes no model in.
LEMMA QuietTick ==
    ASSUME GatewayInv, NEW pc \in TickPc \ {"claim", "budget", "evict", "chat", "answer"},
           gw' \in Memory, gw'.pc = pc, inf' = inf, emergency' = emergency,
           loaded' \subseteq loaded
    PROVE  GatewayInv'
BY DEF GatewayInv

\* The queue changes and keeps its requests, what they ask for, and those that wait.
LEMMA QueueMoves ==
    ASSUME GatewayInv, gw' = gw, emergency' = emergency, loaded' \subseteq loaded,
           inf' \in Seq(Request), DOMAIN inf \subseteq DOMAIN inf',
           \A r \in DOMAIN inf : inf'[r].model = inf[r].model,
           \A r \in DOMAIN inf : inf[r].status = "queued" => inf'[r].status = "queued"
    PROVE  GatewayInv'
<1>1. gw.pc = "claim" => WithStatus("queued")' # {}
  BY DEF GatewayInv, WithStatus
<1> QED BY <1>1 DEF GatewayInv

LEMMA RequestTyped ==
    ASSUME inf \in Seq(Request), NEW r \in DOMAIN inf
    PROVE  inf[r] \in Request /\ inf[r].model \in Model
<1>1. inf[r] \in Request
  BY ElementOfSeq
<1> QED BY <1>1 DEF Request

\* A request gets another status, and perhaps another count of dispatches.
LEMMA StatusMoves ==
    ASSUME inf \in Seq(Request), NEW r \in DOMAIN inf, NEW row \in Request,
           row.model = inf[r].model, inf' = [inf EXCEPT ![r] = row]
    PROVE  /\ inf' \in Seq(Request) /\ DOMAIN inf' = DOMAIN inf
           /\ \A t \in DOMAIN inf : inf'[t].model = inf[t].model
<1>1. inf' \in Seq(Request)
  BY ExceptSeq
<1>2. DOMAIN inf' = DOMAIN inf /\ \A t \in DOMAIN inf : inf'[t] = IF t = r THEN row ELSE inf[t]
  OBVIOUS
<1> QED BY <1>1, <1>2

LEMMA GatewayStep == GatewayInv /\ [GatewayNext]_gatewayVars => GatewayInv'
<1> SUFFICES ASSUME GatewayInv, [GatewayNext]_gatewayVars
             PROVE  GatewayInv'
  OBVIOUS
<1>0. /\ inf \in Seq(Request) /\ gw \in Memory /\ emergency \in BOOLEAN /\ loaded \subseteq Model
      /\ gw.pc \in TickPc
  BY DEF GatewayInv, Memory
<1>1. CASE BeginTick
  <2>1. Idle \in Memory
    BY DEF Idle, Memory, TickPc
  <2> DEFINE next == [Idle EXCEPT !.pc = "controls", !.stopped = emergency]
  <2>2. next \in Memory /\ next.pc = "controls"
    BY <1>0, <2>1 DEF Memory, TickPc
  <2>3. gw' = next
    BY <1>1 DEF BeginTick
  <2> HIDE DEF next
  <2> QED BY <1>1, <2>2, <2>3, QuietTick DEF BeginTick, queue, machine, TickPc
<1>2. CASE HandleControls
  <2>1. gw' \in Memory /\ gw'.pc = "refresh"
    BY <1>0, <1>2, MemoryMoves DEF HandleControls, TickPc
  <2> QED BY <1>2, <2>1, QuietTick DEF HandleControls, Stopped, Unmoved, queue, TickPc
<1>3. CASE RefreshOllama
  <2>1. PICK up \in BOOLEAN : gw' = [gw EXCEPT !.pc = "observe", !.reachable = up]
    BY <1>3 DEF RefreshOllama
  <2>2. gw' \in Memory /\ gw'.pc = "observe"
    BY <1>0, <2>1 DEF Memory, TickPc
  <2> QED BY <1>3, <2>2, QuietTick DEF RefreshOllama, queue, machine, TickPc
<1>4. CASE ObserveGpu \/ NotObserved
  <2>1. gw' \in Memory /\ gw'.pc = "requeue"
    <3>1. gw' = [gw EXCEPT !.pc = "requeue"]
      BY <1>4 DEF ObserveGpu, NotObserved
    <3> QED BY <1>0, <3>1, MemoryMoves DEF TickPc
  <2> QED BY <1>4, <2>1, QuietTick DEF ObserveGpu, NotObserved, queue, machine, TickPc
<1>5. ASSUME NEW old \in SUBSET WithStatus("dispatched"), RequeueStuck(old)
      PROVE  GatewayInv'
  <2>1. gw' \in Memory /\ gw'.pc = "limit"
    BY <1>0, <1>5, MemoryMoves DEF RequeueStuck, TickPc
  <2>2. inf' \in Seq(Request)
    <3>1. \A r \in DOMAIN inf : Requeued(inf[r]) \in Request
      <4> SUFFICES ASSUME NEW r \in DOMAIN inf
                   PROVE  Requeued(inf[r]) \in Request
        OBVIOUS
      <4>1. inf[r] \in Request
        BY <1>0, RequestTyped
      <4> QED BY <4>1 DEF Requeued, Request
    <3>2. DOMAIN inf = 1..Len(inf) /\ Len(inf) \in Nat
      BY <1>0, LenProperties
    <3>3. inf' = [r \in 1..Len(inf) |-> IF r \in old THEN Requeued(inf[r]) ELSE inf[r]]
      BY <1>5, <3>2 DEF RequeueStuck
    <3>4. \A r \in 1..Len(inf) : (IF r \in old THEN Requeued(inf[r]) ELSE inf[r]) \in Request
      BY <1>0, <3>1, <3>2, RequestTyped
    <3> QED BY <3>2, <3>3, <3>4, IsASeq
  <2> QED BY <1>0, <1>5, <2>1, <2>2 DEF GatewayInv, RequeueStuck, machine
<1>6. CASE EnforceLimit \/ LimitNotEnforced
  <2>1. gw' \in Memory /\ gw'.pc = "depth"
    <3>1. gw' = [gw EXCEPT !.pc = "depth"]
      BY <1>6 DEF EnforceLimit, LimitNotEnforced
    <3> QED BY <1>0, <3>1, MemoryMoves DEF TickPc
  <2> QED BY <1>6, <2>1, QuietTick DEF EnforceLimit, LimitNotEnforced, Stopped, Unmoved, queue, machine, TickPc
<1>7. CASE QueueDepth
  <2> DEFINE waiting == WithStatus("queued") # {}
             busy == WithStatus("dispatched") # {}
             works == ~gw.stopped /\ waiting
             pc == IF works /\ gw.reachable THEN "claim"
                   ELSE IF works /\ seen.gpu = "stopped" THEN "start" ELSE "idle"
  <2>1. pc \in {"claim", "start", "idle"} /\ (pc = "claim" => WithStatus("queued") # {})
    OBVIOUS
  <2>2. waiting \in BOOLEAN /\ busy \in BOOLEAN
    BY Zenon
  <2>3. gw' = [gw EXCEPT !.waiting = waiting, !.busy = busy, !.pc = pc]
    BY <1>7 DEF QueueDepth
  <2>4. inf' = inf /\ loaded' = loaded /\ emergency' = emergency
    BY <1>7 DEF QueueDepth, queue, machine
  <2> HIDE DEF waiting, busy, works, pc
  <2>5. gw' \in Memory /\ gw'.pc = pc
    BY <1>0, <2>1, <2>2, <2>3 DEF Memory, TickPc
  <2> QED BY <2>1, <2>4, <2>5 DEF GatewayInv, WithStatus
<1>8. CASE StartGpu
  <2>1. gw' \in Memory /\ gw'.pc = "idle"
    BY <1>0, <1>8, MemoryMoves DEF StartGpu, TickPc
  <2> QED BY <1>8, <2>1, QuietTick DEF StartGpu, queue, TickPc
<1>9. CASE StopWhenIdle
  <2>1. gw' \in Memory /\ gw'.pc = "tick"
    BY <1>9 DEF StopWhenIdle, Idle, Memory, TickPc
  <2> QED BY <1>9, <2>1, QuietTick DEF StopWhenIdle, Stopped, Unmoved, queue, TickPc
<1>10. CASE ClaimInference
  <2> DEFINE r == First(WithStatus("queued"))
             row == [inf[r] EXCEPT !.status = "dispatched", !.attempts = inf[r].attempts + 1]
  <2>1. r \in DOMAIN inf
    BY <1>0, <1>10, FirstIsOne DEF ClaimInference, TickAt, GatewayInv, WithStatus
  <2>2. /\ inf' = [inf EXCEPT ![r].status = "dispatched", ![r].attempts = @ + 1]
        /\ gw' = [gw EXCEPT !.pc = "budget", !.req = r]
        /\ loaded' = loaded /\ emergency' = emergency
    BY <1>10 DEF ClaimInference, machine
  <2> HIDE DEF r
  <2>3. row \in Request /\ row.model = inf[r].model
    <3>1. inf[r] \in Request
      BY <1>0, <2>1, RequestTyped
    <3>2. inf[r].attempts + 1 \in Nat
      BY <3>1 DEF Request
    <3> DEFINE n == inf[r].attempts + 1
    <3> HIDE DEF n
    <3>3. /\ [inf[r] EXCEPT !.status = "dispatched", !.attempts = n] \in Request
          /\ [inf[r] EXCEPT !.status = "dispatched", !.attempts = n].model = inf[r].model
      <4>1. n \in Nat
        BY <3>2 DEF n
      <4> QED BY <3>1, <4>1 DEF Request
    <3> QED BY <3>3 DEF n
  <2>4. inf' = [inf EXCEPT ![r] = row]
    BY <2>2
  <2> HIDE DEF row
  <2>5. inf' \in Seq(Request) /\ DOMAIN inf' = DOMAIN inf
    BY <1>0, <2>1, <2>3, <2>4, StatusMoves
  <2>6. gw' \in Memory /\ gw'.pc = "budget" /\ gw'.req = r
    <3>1. r \in Nat
      BY <1>0, <2>1
    <3> QED BY ZenonT(60), <1>0, <2>2, <3>1, MemoryMoves DEF TickPc
  <2> QED BY <1>0, <2>1, <2>2, <2>5, <2>6 DEF GatewayInv
<1>11. ASSUME NEW s \in {"completed", "failed"}, Finish(s), loaded' = loaded, emergency' = emergency,
              gw.pc \in {"budget", "evict", "chat", "answer"}
       PROVE  GatewayInv'
  <2> DEFINE row == [inf[gw.req] EXCEPT !.status = s]
  <2>1. gw.req \in DOMAIN inf
    BY <1>11 DEF GatewayInv
  <2>2. row \in Request /\ row.model = inf[gw.req].model
    <3>1. inf[gw.req] \in Request
      BY <1>0, <2>1, RequestTyped
    <3> QED BY <1>11, <3>1 DEF Request
  <2>3. inf' = [inf EXCEPT ![gw.req] = row]
    BY <1>11 DEF Finish
  <2> HIDE DEF row
  <2>4. inf' \in Seq(Request)
    BY <1>0, <2>1, <2>2, <2>3, StatusMoves
  <2>5. gw' \in Memory /\ gw'.pc = "idle"
    BY <1>0, <1>11, MemoryMoves DEF Finish, TickPc
  <2> QED BY <1>0, <1>11, <2>4, <2>5 DEF GatewayInv
<1>12. CASE CheckTokens
  <2>1. CASE Spent
    BY <1>11, <1>12, <2>1 DEF CheckTokens, TickAt, machine
  <2>2. CASE ~Spent
    <3>1. gw' \in Memory /\ gw'.pc = "evict" /\ gw'.req = gw.req
      <4>1. gw' = [gw EXCEPT !.pc = "evict"]
        BY <1>12, <2>2 DEF CheckTokens
      <4> QED BY <1>0, <4>1, MemoryMoves DEF TickPc
    <3> QED BY <1>12, <2>2, <3>1 DEF CheckTokens, TickAt, machine, GatewayInv
  <2> QED BY <2>1, <2>2
<1>13. CASE Evict
  <2>1. gw.pc = "evict" /\ inf' = inf /\ emergency' = emergency
    BY <1>13 DEF Evict, TickAt, queue
  <2>2. CASE \E m \in Foreign : loaded' = loaded \ {m} /\ gw' = gw
    BY <2>1, <2>2 DEF GatewayInv
  <2>3. CASE Foreign = {} /\ gw' = [gw EXCEPT !.pc = "chat"] /\ loaded' = loaded
    <3>1. gw' \in Memory /\ gw'.pc = "chat" /\ gw'.req = gw.req
      BY <1>0, <2>3, MemoryMoves DEF TickPc
    <3> QED BY <2>1, <2>3, <3>1 DEF GatewayInv, Foreign
  <2> QED BY <1>13, <2>2, <2>3 DEF Evict
<1>14. CASE Chat
  <2>1. /\ gw.pc = "chat" /\ inf' = inf /\ emergency' = emergency
        /\ loaded' = loaded \cup {inf[gw.req].model}
    BY <1>14 DEF Chat, TickAt, queue
  <2>2. gw' \in Memory /\ gw'.pc = "answer" /\ gw'.req = gw.req
    BY <1>0, <1>14, MemoryMoves DEF Chat, TickPc
  <2>3. inf[gw.req].model \in Model
    BY <1>0, <2>1, RequestTyped DEF GatewayInv
  <2> QED BY <1>0, <2>1, <2>2, <2>3 DEF GatewayInv
<1>15. CASE FinishInference \/ ServerFails
  BY <1>11, <1>15 DEF FinishInference, ServerFails, TickAt, machine
<1>16. CASE TickFails
  <2>1. gw' \in Memory /\ gw'.pc = "tick"
    BY <1>16 DEF TickFails, Idle, Memory, TickPc
  <2> QED BY <1>16, <2>1, QuietTick DEF TickFails, queue, machine, TickPc
<1>17. CASE MoveGpu
  <2>1. gw' = gw /\ inf' = inf /\ emergency' = emergency /\ loaded' = {}
    BY <1>17 DEF MoveGpu, queue
  <2> QED BY <1>0, <2>1, QueueMoves
<1>18. CASE NewDay
  <2>1. gw' = gw /\ inf' = inf /\ emergency' = emergency /\ loaded' = loaded
    BY <1>18 DEF NewDay, machine
  <2> QED BY <1>0, <2>1, QueueMoves
<1>19. ASSUME NEW m \in Model, EnqueueInference(m)
       PROVE  GatewayInv'
  <2> DEFINE row == [model |-> m, status |-> "queued", attempts |-> 0]
  <2>1. row \in Request
    BY DEF Request
  <2>2. inf' = Append(inf, row) /\ gw' = gw /\ emergency' = emergency /\ loaded' = loaded
    BY <1>19 DEF EnqueueInference, machine
  <2> HIDE DEF row
  <2>3. inf' \in Seq(Request) /\ DOMAIN inf \subseteq DOMAIN inf' /\ \A r \in DOMAIN inf : inf'[r] = inf[r]
    BY <1>0, <2>1, <2>2, AppendProperties
  <2> QED BY <2>2, <2>3, QueueMoves
<1>20. ASSUME NEW e \in BOOLEAN, EmergencyStop(e)
       PROVE  GatewayInv'
  BY <1>20 DEF EmergencyStop, queue, machine, GatewayInv, WithStatus
<1>21. CASE UNCHANGED gatewayVars
  BY <1>21 DEF gatewayVars, GatewayInv, WithStatus
<1>22. CASE Sequential
  BY <1>22, <1>1, <1>2, <1>3, <1>4, <1>5, <1>6, <1>7, <1>8, <1>9, <1>10, <1>12, <1>13, <1>14, <1>15
     DEF Sequential
<1> QED BY <1>16, <1>17, <1>18, <1>19, <1>20, <1>21, <1>22 DEF GatewayNext

\* The GPU never holds two models, whatever dispatch died half-way and whoever
\* stops and starts the instance.
THEOREM TheGpuHoldsOneModel == GatewaySpec => []OneModelLoaded
<1>1. GatewayInit => GatewayInv
  <2> SUFFICES ASSUME GatewayInit
               PROVE  GatewayInv
    OBVIOUS
  <2>1. Idle \in Memory /\ Idle.pc = "tick"
    BY DEF Idle, Memory, TickPc
  <2>2. inf \in Seq(Request) /\ gw = Idle /\ emergency = FALSE /\ loaded = {}
    BY DEF GatewayInit
  <2> HIDE DEF Idle
  <2> QED BY <2>1, <2>2 DEF GatewayInv
<1>2. GatewayInv /\ [GatewayNext]_gatewayVars => GatewayInv'
  BY GatewayStep
<1>3. GatewayInv => OneModelLoaded
  <2> SUFFICES ASSUME GatewayInv
               PROVE  Cardinality(loaded) <= 1
    BY DEF OneModelLoaded
  <2>1. CASE loaded = {}
    BY <2>1, FS_EmptySet
  <2>2. CASE loaded # {}
    <3>1. PICK m \in loaded : TRUE
      BY <2>2
    <3>2. loaded = {m}
      BY <3>1 DEF GatewayInv
    <3>3. Cardinality({m}) = 1
      BY FS_Singleton
    <3> QED BY <3>2, <3>3
  <2> QED BY <2>1, <2>2
<1> QED BY <1>1, <1>2, <1>3, PTL DEF GatewaySpec

-----------------------------------------------------------------------------
(* The two systems at work: what is invariant                               *)

RunPc      == {"idle", "prepare", "plan", "implement", "test", "review", "commit", "push",
               "pull", "complete", "caught"}
WorkStatus == {"queued", "running", "waiting", "completed", "failed", "cancelled", "dead_letter"}
Saying     == {"none", "good", "beyond", "outside", "garbled", "approve", "revise", "reject"}
Progress   == [round : 0..MaxRepair, asked : [Question -> Nat]]
WorkTask   == [kind : {"change", "inspect"}, finding : Nat, status : WorkStatus,
               attempts : Int, checkpoint : Progress]
Inference  == [task : Nat, of : Question, status : {"queued", "completed", "failed"},
               answer : Saying]
Builder    == [pc : RunPc, task : Nat, state : Progress, saved : BOOLEAN, tree : SUBSET Nat,
               passed : BOOLEAN, tested : SUBSET Nat,
               outcome : {"none", "parked", "retryable", "fatal"}]
Auditor    == [pc : {"idle", "file"}, todo : SUBSET Nat, filed : Nat, link : Nat]
Finding    == [of : Failure, open : BOOLEAN, task : Nat]
Shown      == [edits : SUBSET Nat, passed : BOOLEAN, tested : SUBSET Nat]

BranchTypes ==
    /\ DOMAIN branch \subseteq Nat /\ branch \in [DOMAIN branch -> Shown]
    /\ pull \subseteq DOMAIN branch

WorkTypes ==
    /\ task \in Seq(WorkTask) /\ request \in Seq(Inference) /\ builder \in Builder
    /\ BranchTypes /\ finding \in Seq(Finding) /\ auditor \in Auditor

\* What a state remembers to have asked was asked, and that is the question.
Remembers(s, asked) ==
    \A q \in Question : s.asked[q] # 0 => s.asked[q] \in DOMAIN asked /\ asked[s.asked[q]].of = q

Questions ==
    /\ Remembers(builder.state, request)
    /\ \A n \in DOMAIN task : Remembers(task[n].checkpoint, request)

\* An answer that came is one to the question, and before it there is none.
AnswersFit == \A r \in DOMAIN request :
    /\ request[r].status = "completed" => request[r].answer \in AnswersTo(request[r].of)
    /\ request[r].status = "queued" => request[r].answer = "none"

\* A run works on a task that is running.
AtWork ==
    builder.pc # "idle" => builder.task \in DOMAIN task /\ task[builder.task].status = "running"

\* What may be shown of a tree that was tested.
Showable(edits, tested) ==
    edits \subseteq tested /\ (edits \in {{}, tested} \/ tested \cap Beyond # {})

\* From the test run to the commit the tree is what was tested, and from there
\* to the pull request the commit is what may be shown of it, on a branch.
TestedTree ==
    /\ builder.pc \in {"review", "commit"} => builder.tree = builder.tested
    /\ builder.pc \in {"push", "pull"} => Showable(builder.tree, builder.tested)
    /\ builder.pc \in {"commit", "push", "pull"} => builder.passed
    /\ builder.pc = "pull" => builder.task \in DOMAIN branch

\* Nor is there anything else on a branch.
BranchesPassed ==
    \A n \in DOMAIN branch : branch[n].passed /\ Showable(branch[n].edits, branch[n].tested)

\* Of the tasks that would fix the same finding one is live.
OneEach ==
    \A m, n \in DOMAIN task :
        /\ task[m].finding = task[n].finding /\ task[m].finding # 0
        /\ task[m].status \in Active /\ task[n].status \in Active
        => m = n

WorkInv ==
    WorkTypes /\ Questions /\ AnswersFit /\ AtWork /\ TestedTree /\ OneEach /\ BranchesPassed

-----------------------------------------------------------------------------
(* Tasks that are written and tasks that are filed                          *)

SetTask(n, row) == task' = [task EXCEPT ![n] = row]

LEMMA TaskIsSet ==
    ASSUME WorkTypes, NEW n \in DOMAIN task, NEW row \in WorkTask, SetTask(n, row)
    PROVE  /\ task' \in Seq(WorkTask) /\ DOMAIN task' = DOMAIN task
           /\ \A m \in DOMAIN task : task'[m] = IF m = n THEN row ELSE task[m]
BY DEF WorkTypes, SetTask

LEMMA TaskIsFiled ==
    ASSUME WorkTypes, NEW row \in WorkTask, task' = Append(task, row)
    PROVE  /\ task' \in Seq(WorkTask) /\ DOMAIN task' = DOMAIN task \cup {Len(task) + 1}
           /\ \A m \in DOMAIN task : task'[m] = task[m]
           /\ task'[Len(task) + 1] = row /\ Len(task) + 1 \notin DOMAIN task
BY DEF WorkTypes

LEMMA NoProgressIsProgress == NoProgress \in Progress /\ \A asked : Remembers(NoProgress, asked)
BY OpsWorkAssumption DEF NoProgress, Progress, Remembers

LEMMA IdleIsBuilder == IdleBuilder \in Builder /\ IdleBuilder.pc = "idle" /\ IdleBuilder.state = NoProgress
BY NoProgressIsProgress DEF IdleBuilder, Builder, RunPc

\* Where no question is put or answered and nothing is pushed or shown.
LEMMA BranchesStay ==
    ASSUME WorkInv, UNCHANGED <<request, branch, pull>>
    PROVE  BranchTypes' /\ BranchesPassed' /\ Beyond' = Beyond
<1>1. Beyond' = Beyond
  BY DEF Beyond
<1>2. BranchTypes /\ BranchesPassed
  BY DEF WorkInv, WorkTypes
<1> QED BY <1>1, <1>2 DEF BranchTypes, BranchesPassed, Showable

\* Where a question is put or answered, an answer that went beyond the plan stays.
LEMMA BranchesStand ==
    ASSUME WorkInv, Beyond \subseteq Beyond', UNCHANGED <<builder, branch, pull>>
    PROVE  BranchTypes' /\ BranchesPassed' /\ TestedTree'
<1>1. BranchTypes /\ BranchesPassed /\ TestedTree
  BY DEF WorkInv, WorkTypes
<1>2. BranchTypes'
  BY <1>1 DEF BranchTypes
<1>3. BranchesPassed'
  BY <1>1 DEF BranchesPassed, Showable
<1>4. TestedTree'
  BY <1>1 DEF TestedTree, Showable
<1> QED BY <1>2, <1>3, <1>4

\* What the other steps of the builder have in common with a task that moves.
LEMMA RunIsSound ==
    ASSUME WorkInv, NEW n \in DOMAIN task, NEW row \in WorkTask, SetTask(n, row),
           row.finding = task[n].finding,
           row.status \in Active => task[n].status \in Active,
           builder' \in Builder,
           builder'.pc # "idle" => builder'.task = n /\ row.status = "running",
           Remembers(builder'.state, request'),
           Remembers(row.checkpoint, request'),
           \A m \in DOMAIN task : Remembers(task[m].checkpoint, request'),
           TestedTree',
           request' \in Seq(Inference), AnswersFit', UNCHANGED auditorVars,
           BranchTypes', BranchesPassed'
    PROVE  WorkInv'
<1> USE DEF WorkInv
<1>1. /\ task' \in Seq(WorkTask) /\ DOMAIN task' = DOMAIN task
      /\ \A m \in DOMAIN task : task'[m] = IF m = n THEN row ELSE task[m]
  BY TaskIsSet
<1>2. WorkTypes'
  BY <1>1 DEF WorkTypes, auditorVars
<1>3. Questions'
  BY <1>1 DEF Questions
<1>4. AtWork'
  BY <1>1 DEF AtWork
<1>5. OneEach'
  BY <1>1 DEF OneEach
<1> QED BY <1>2, <1>3, <1>4, <1>5

\* A step that writes no task, and keeps the run.
LEMMA RunGoesOn ==
    ASSUME WorkInv, builder.pc # "idle", UNCHANGED <<task, request, auditorVars>>,
           builder' \in Builder, builder'.task = builder.task,
           Remembers(builder'.state, request), TestedTree',
           BranchTypes', BranchesPassed'
    PROVE  WorkInv'
<1> DEFINE n == builder.task
           row == task[n]
<1>1. n \in DOMAIN task /\ row \in WorkTask /\ row.status = "running"
  BY DEF WorkInv, AtWork, WorkTypes
<1>2. SetTask(n, row)
  BY <1>1 DEF SetTask, WorkInv, WorkTypes
<1>3. Remembers(builder'.state, request') /\ \A m \in DOMAIN task : Remembers(task[m].checkpoint, request')
  BY DEF WorkInv, Questions
<1>4. request' \in Seq(Inference) /\ AnswersFit'
  BY DEF WorkInv, WorkTypes, AnswersFit
<1>5. builder'.task = n
  OBVIOUS
<1> HIDE DEF n, row
<1>6. row = task[n]
  BY DEF row
<1>7. Remembers(row.checkpoint, request')
  BY <1>1, <1>3, <1>6
<1>8. UNCHANGED auditorVars
  OBVIOUS
<1> QED BY <1>1, <1>2, <1>3, <1>4, <1>5, <1>6, <1>7, <1>8, RunIsSound

-----------------------------------------------------------------------------
(* A run of the builder                                                     *)

LEMMA RunHasTask ==
    ASSUME WorkInv, builder.pc # "idle"
    PROVE  /\ builder.task \in DOMAIN task /\ task[builder.task] \in WorkTask
           /\ task[builder.task].status = "running"
BY DEF WorkInv, AtWork, WorkTypes

LEMMA CurrentIsQuestion ==
    ASSUME builder \in Builder, Asking
    PROVE  Current \in Question /\ Asked \in Nat /\ Current[1] = builder.pc
<1>1. builder.state.round \in 0..MaxRepair /\ builder.state.asked \in [Question -> Nat]
  BY DEF Builder, Progress
<1>2. Current \in Question /\ Current[1] = builder.pc
  BY <1>1 DEF Current, Question, Asking
<1> QED BY <1>1, <1>2 DEF Asked

LEMMA AnswerFits ==
    ASSUME WorkInv, Answered("completed")
    PROVE  /\ builder.pc = "review" => Answer \in {"approve", "revise", "reject", "garbled"}
           /\ builder.pc = "plan" => Answer \in {"good", "outside", "garbled"}
           /\ builder.pc = "implement" => Answer \in {"good", "beyond", "outside", "garbled"}
<1>1. Current \in Question /\ Asked # 0 /\ Current[1] = builder.pc
  BY CurrentIsQuestion DEF Answered, WorkInv, WorkTypes
<1>2. Asked \in DOMAIN request /\ request[Asked].of = Current
  BY <1>1 DEF WorkInv, Questions, Remembers, Asked
<1>3. Answer \in AnswersTo(Current)
  BY <1>2 DEF WorkInv, AnswersFit, Answered, Answer
<1> QED BY <1>1, <1>3 DEF AnswersTo

\* A run that ends by an exception has touched nothing but itself.
LEMMA ThrowIs ==
    ASSUME NEW b \in Builder, NEW o \in {"parked", "retryable", "fatal"}
    PROVE  /\ Throw(b, o) \in Builder /\ Throw(b, o).pc = "caught"
           /\ Throw(b, o).task = b.task /\ Throw(b, o).state = b.state
BY DEF Throw, Builder, RunPc


\* A run that goes on with what it has asked.
LEMMA RunMoves ==
    ASSUME WorkInv, builder.pc # "idle", UNCHANGED <<task, request, branch, pull, auditorVars>>,
           builder' \in Builder, builder'.task = builder.task,
           builder'.state.asked = builder.state.asked, TestedTree'
    PROVE  WorkInv'
<1>1. Remembers(builder'.state, request)
  BY DEF WorkInv, Questions, Remembers
<1>2. BranchTypes' /\ BranchesPassed'
  BY BranchesStay
<1>3. UNCHANGED <<task, request, auditorVars>>
  OBVIOUS
<1> QED BY <1>1, <1>2, <1>3, RunGoesOn

LEMMA PrepareIsSound == ASSUME WorkInv, PrepareRepo PROVE WorkInv'
<1>1. builder \in Builder /\ builder.pc = "prepare" /\ UNCHANGED <<task, request, branch, pull, auditorVars>>
  BY DEF WorkInv, WorkTypes, PrepareRepo
<1>2. CASE builder' \in {Throw(builder, "retryable"), Throw(builder, "fatal")}
  <2>1. /\ builder' \in Builder /\ builder'.pc = "caught"
        /\ builder'.task = builder.task /\ builder'.state = builder.state
    BY <1>1, <1>2, ThrowIs
  <2>2. TestedTree'
    BY <2>1 DEF TestedTree
  <2> QED BY <1>1, <2>1, <2>2, RunMoves
<1>3. CASE builder' = [builder EXCEPT !.tree = {}, !.pc = IF Kind = "change" THEN "plan" ELSE "test"]
  <2>1. /\ builder' \in Builder /\ builder'.pc \in {"plan", "test"}
        /\ builder'.task = builder.task /\ builder'.state = builder.state
    BY <1>1, <1>3 DEF Builder, RunPc
  <2>2. TestedTree'
    BY <2>1 DEF TestedTree
  <2> QED BY <1>1, <2>1, <2>2, RunMoves
<1> QED BY <1>2, <1>3 DEF PrepareRepo

LEMMA ReadPlanIsSound == ASSUME WorkInv, ReadPlan PROVE WorkInv'
<1>1. builder \in Builder /\ builder.pc = "plan" /\ UNCHANGED <<task, request, branch, pull, auditorVars>>
  BY DEF WorkInv, WorkTypes, ReadPlan
<1>2. \/ builder' = [builder EXCEPT !.pc = "implement"]
      \/ builder' \in {Throw(builder, "retryable"), Throw(builder, "fatal")}
  <2>1. Answer \in {"good", "outside", "garbled"}
    BY <1>1, AnswerFits DEF ReadPlan
  <2> QED BY <2>1 DEF ReadPlan
<1>3. /\ builder' \in Builder /\ builder'.pc \in {"implement", "caught"}
      /\ builder'.task = builder.task /\ builder'.state = builder.state
  <2>1. CASE builder' = [builder EXCEPT !.pc = "implement"]
    BY <1>1, <2>1 DEF Builder, RunPc
  <2>2. CASE builder' \in {Throw(builder, "retryable"), Throw(builder, "fatal")}
    BY <1>1, <2>2, ThrowIs
  <2> QED BY <1>2, <2>1, <2>2
<1>4. TestedTree'
  BY <1>3 DEF TestedTree
<1> QED BY <1>1, <1>3, <1>4, RunMoves

LEMMA ApplyEditsIsSound == ASSUME WorkInv, ApplyEdits PROVE WorkInv'
<1>1. builder \in Builder /\ builder.pc = "implement" /\ UNCHANGED <<task, request, branch, pull, auditorVars>>
  BY DEF WorkInv, WorkTypes, ApplyEdits
<1>2. \/ builder' = [builder EXCEPT !.tree = @ \cup {Asked}, !.pc = "test"]
      \/ builder' \in {Throw(builder, "retryable"), Throw(builder, "fatal")}
  <2>1. Answer \in {"good", "beyond", "outside", "garbled"}
    BY <1>1, AnswerFits DEF ApplyEdits
  <2> QED BY <2>1 DEF ApplyEdits
<1>3. /\ builder' \in Builder /\ builder'.pc \in {"test", "caught"}
      /\ builder'.task = builder.task /\ builder'.state = builder.state
  <2>1. ASSUME builder' = [builder EXCEPT !.tree = @ \cup {Asked}, !.pc = "test"]
        PROVE  /\ builder' \in Builder /\ builder'.pc = "test"
               /\ builder'.task = builder.task /\ builder'.state = builder.state
    <3>1. Asked \in Nat
      BY <1>1, CurrentIsQuestion DEF Asking
    <3> DEFINE a == Asked
    <3> HIDE DEF a
    <3>2. a \in Nat /\ builder' = [builder EXCEPT !.tree = @ \cup {a}, !.pc = "test"]
      BY <2>1, <3>1 DEF a
    <3> QED BY <1>1, <3>2 DEF Builder, RunPc
  <2>2. CASE builder' \in {Throw(builder, "retryable"), Throw(builder, "fatal")}
    BY <1>1, <2>2, ThrowIs
  <2> QED BY <1>2, <2>1, <2>2
<1>4. TestedTree'
  BY <1>3 DEF TestedTree
<1> QED BY <1>1, <1>3, <1>4, RunMoves

LEMMA ReadReviewIsSound == ASSUME WorkInv, ReadReview PROVE WorkInv'
<1>1. /\ builder \in Builder /\ builder.pc = "review" /\ UNCHANGED <<task, request, branch, pull, auditorVars>>
      /\ builder.tree = builder.tested
  BY DEF WorkInv, WorkTypes, ReadReview, TestedTree
<1>2. \/ builder' = Throw(builder, "retryable")
      \/ builder' = [builder EXCEPT !.pc = "commit"] /\ builder.passed
      \/ /\ builder' = [builder EXCEPT !.state.round = @ + 1, !.pc = "implement"]
         /\ builder.state.round < MaxRepair
      \/ builder' = [builder EXCEPT !.pc = "complete"]
  BY DEF ReadReview, Approved
<1>3. CASE builder' = Throw(builder, "retryable")
  <2>1. /\ builder' \in Builder /\ builder'.pc = "caught"
        /\ builder'.task = builder.task /\ builder'.state = builder.state
    BY <1>1, <1>3, ThrowIs
  <2>2. TestedTree'
    BY <2>1 DEF TestedTree
  <2> QED BY <1>1, <2>1, <2>2, RunMoves
<1>4. CASE builder' = [builder EXCEPT !.pc = "commit"] /\ builder.passed
  <2>1. /\ builder' \in Builder /\ builder'.task = builder.task /\ builder'.state = builder.state
        /\ builder'.tree = builder.tree /\ builder'.tested = builder.tested
        /\ builder'.passed = builder.passed
    BY <1>1, <1>4 DEF Builder, RunPc
  <2>2. TestedTree'
    BY <1>1, <1>4, <2>1 DEF TestedTree
  <2> QED BY <1>1, <2>1, <2>2, RunMoves
<1>5. CASE /\ builder' = [builder EXCEPT !.state.round = @ + 1, !.pc = "implement"]
           /\ builder.state.round < MaxRepair
  <2> DEFINE s == [builder.state EXCEPT !.round = @ + 1]
  <2>1. s \in Progress /\ s.asked = builder.state.asked
    <3>1. builder.state \in Progress
      BY <1>1 DEF Builder
    <3>2. builder.state.round \in 0..MaxRepair /\ builder.state.round + 1 \in 0..MaxRepair
      BY <1>5, <3>1, OpsWorkAssumption DEF Progress
    <3> QED BY <3>1, <3>2 DEF Progress
  <2>2. builder' = [builder EXCEPT !.state = s, !.pc = "implement"]
    BY <1>5
  <2> HIDE DEF s
  <2>3. /\ builder' \in Builder /\ builder'.pc = "implement"
        /\ builder'.task = builder.task /\ builder'.state = s
    BY <1>1, <2>1, <2>2 DEF Builder, RunPc
  <2>4. TestedTree'
    BY <2>3 DEF TestedTree
  <2> QED BY <1>1, <2>1, <2>3, <2>4, RunMoves
<1>6. CASE builder' = [builder EXCEPT !.pc = "complete"]
  <2>1. /\ builder' \in Builder /\ builder'.pc = "complete"
        /\ builder'.task = builder.task /\ builder'.state = builder.state
    BY <1>1, <1>6 DEF Builder, RunPc
  <2>2. TestedTree'
    BY <2>1 DEF TestedTree
  <2> QED BY <1>1, <2>1, <2>2, RunMoves
<1> QED BY <1>2, <1>3, <1>4, <1>5, <1>6

\* What is pushed is what may be shown of the tree, which was tested and passed.
LEMMA PushIsSound == ASSUME WorkInv, Push PROVE WorkInv'
<1>1. /\ builder \in Builder /\ builder.pc = "push" /\ UNCHANGED <<task, request, pull, auditorVars>>
      /\ builder.passed /\ Showable(builder.tree, builder.tested)
  BY DEF WorkInv, WorkTypes, Push, TestedTree
<1>2. /\ builder' \in Builder /\ builder'.pc \in {"pull", "caught"} /\ builder'.task = builder.task
      /\ builder'.state = builder.state
      /\ builder'.pc = "pull" => /\ builder'.tree = builder.tree /\ builder'.tested = builder.tested
                                 /\ builder'.passed = builder.passed
  <2>1. CASE builder' = [builder EXCEPT !.pc = "pull"]
    BY <1>1, <2>1 DEF Builder, RunPc
  <2>2. CASE builder' = Throw(builder, "retryable")
    BY <1>1, <2>2, ThrowIs
  <2> QED BY <2>1, <2>2 DEF Push
<1>3. Beyond' = Beyond
  BY <1>1 DEF Beyond
<1>4. TestedTree'
  <2>1. builder'.pc = "pull" => builder'.task \in DOMAIN branch'
    BY <1>1, <1>2, ThrowIs DEF Push
  <2> QED BY <1>1, <1>2, <1>3, <2>1 DEF TestedTree, Showable
<1>5. Remembers(builder'.state, request)
  BY <1>2 DEF WorkInv, Questions
<1>6. BranchTypes' /\ BranchesPassed'
  <2>1. BranchTypes /\ BranchesPassed
    BY DEF WorkInv, WorkTypes
  <2>2. CASE UNCHANGED branch
    BY <1>1, <2>2, BranchesStay
  <2>3. CASE branch' = [n \in DOMAIN branch \cup {builder.task} |->
                           IF n = builder.task THEN Pushed ELSE branch[n]]
    <3>1. /\ DOMAIN branch' = DOMAIN branch \cup {builder.task}
          /\ branch'[builder.task] = Pushed
          /\ \A n \in DOMAIN branch : n = builder.task \/ branch'[n] = branch[n]
      BY <2>3
    <3>2. /\ Pushed \in Shown /\ Pushed.passed /\ Showable(Pushed.edits, Pushed.tested)
          /\ builder.task \in Nat
      BY <1>1 DEF Builder, Pushed, Shown
    <3> DEFINE new == Pushed
    <3> HIDE DEF new
    <3>3. /\ new \in Shown /\ new.passed /\ Showable(new.edits, new.tested)
          /\ branch'[builder.task] = new
          /\ branch' = [n \in DOMAIN branch \cup {builder.task} |->
                           IF n = builder.task THEN new ELSE branch[n]]
      BY <2>3, <3>1, <3>2 DEF new
    <3>4. BranchTypes'
      BY <1>1, <2>1, <3>1, <3>2, <3>3 DEF BranchTypes
    <3>5. BranchesPassed'
      BY <1>3, <2>1, <3>1, <3>3 DEF BranchesPassed, Showable
    <3> QED BY <3>4, <3>5
  <2> QED BY <2>2, <2>3 DEF Push
<1>7. builder.pc # "idle"
  BY <1>1
<1> QED BY <1>1, <1>2, <1>4, <1>5, <1>6, <1>7, RunGoesOn

\* A pull request shows a branch that was pushed.
LEMMA OpenPullIsSound == ASSUME WorkInv, OpenPullRequest PROVE WorkInv'
<1>1. /\ builder \in Builder /\ builder.pc = "pull" /\ UNCHANGED <<task, request, branch, auditorVars>>
      /\ builder.task \in DOMAIN branch
  BY DEF WorkInv, WorkTypes, OpenPullRequest, TestedTree
<1>2. /\ builder' \in Builder /\ builder'.pc \in {"complete", "caught"}
      /\ builder'.task = builder.task /\ builder'.state = builder.state
  <2>1. CASE builder' = [builder EXCEPT !.pc = "complete"]
    BY <1>1, <2>1 DEF Builder, RunPc
  <2>2. CASE builder' = Throw(builder, "retryable")
    BY <1>1, <2>2, ThrowIs
  <2> QED BY <2>1, <2>2 DEF OpenPullRequest
<1>3. TestedTree'
  BY <1>2 DEF TestedTree
<1>4. Remembers(builder'.state, request)
  BY <1>2 DEF WorkInv, Questions
<1>5. BranchTypes' /\ BranchesPassed'
  <2>1. BranchTypes /\ BranchesPassed /\ Beyond' = Beyond
    BY <1>1 DEF WorkInv, WorkTypes, Beyond
  <2>2. pull' = pull \/ pull' = pull \cup {builder.task}
    BY DEF OpenPullRequest
  <2> QED BY <1>1, <2>1, <2>2 DEF BranchTypes, BranchesPassed, Showable
<1>6. builder.pc # "idle"
  BY <1>1
<1> QED BY <1>1, <1>2, <1>3, <1>4, <1>5, <1>6, RunGoesOn

\* A run that goes on and saves what it has asked.
LEMMA RunSaves ==
    ASSUME WorkInv, builder.pc # "idle", NEW s \in Progress, Remembers(s, request),
           task' = [task EXCEPT ![builder.task].checkpoint = s],
           UNCHANGED <<request, branch, pull, auditorVars>>,
           builder' \in Builder, builder'.task = builder.task,
           Remembers(builder'.state, request), TestedTree'
    PROVE  WorkInv'
<1> DEFINE n == builder.task
           row == [task[n] EXCEPT !.checkpoint = s]
<1>1. n \in DOMAIN task /\ task[n] \in WorkTask /\ task[n].status = "running"
  BY RunHasTask
<1>2. row \in WorkTask /\ row.status = "running" /\ row.finding = task[n].finding /\ row.checkpoint = s
  BY <1>1 DEF WorkTask
<1>3. SetTask(n, row)
  BY DEF SetTask
<1>4. /\ Remembers(builder'.state, request') /\ Remembers(s, request')
      /\ \A m \in DOMAIN task : Remembers(task[m].checkpoint, request')
  BY DEF WorkInv, Questions
<1>5. request' \in Seq(Inference) /\ AnswersFit' /\ BranchTypes' /\ BranchesPassed'
  BY BranchesStay DEF WorkInv, WorkTypes, AnswersFit
<1>6. builder'.task = n /\ UNCHANGED auditorVars
  OBVIOUS
<1> HIDE DEF n, row
<1> QED BY <1>1, <1>2, <1>3, <1>4, <1>5, <1>6, RunIsSound

\* A run that is over, or a task that nobody runs, with what was last saved.
LEMMA TaskIsLeft ==
    ASSUME WorkInv, NEW n \in DOMAIN task, NEW row \in WorkTask, SetTask(n, row),
           row.finding = task[n].finding, row.checkpoint = task[n].checkpoint,
           row.status \in Active => task[n].status \in Active,
           builder' = IdleBuilder, UNCHANGED <<request, branch, pull, auditorVars>>
    PROVE  WorkInv'
<1>1. /\ builder' \in Builder /\ builder'.pc = "idle"
      /\ Remembers(builder'.state, request')
  BY IdleIsBuilder, NoProgressIsProgress
<1>2. TestedTree'
  BY <1>1 DEF TestedTree
<1>3. /\ Remembers(row.checkpoint, request')
      /\ \A m \in DOMAIN task : Remembers(task[m].checkpoint, request')
  BY DEF WorkInv, Questions
<1>4. request' \in Seq(Inference) /\ AnswersFit' /\ BranchTypes' /\ BranchesPassed'
  BY BranchesStay DEF WorkInv, WorkTypes, AnswersFit
<1>5. UNCHANGED auditorVars
  OBVIOUS
<1> QED BY <1>1, <1>2, <1>3, <1>4, <1>5, RunIsSound

LEMMA SaveQuestionIsSound == ASSUME WorkInv, SaveQuestion PROVE WorkInv'
<1>1. /\ builder \in Builder /\ builder.state \in Progress
      /\ builder.pc \in {"plan", "implement", "review"} /\ Remembers(builder.state, request)
  BY DEF WorkInv, WorkTypes, Questions, SaveQuestion, Asking, Builder
<1>2. /\ task' = [task EXCEPT ![builder.task].checkpoint = builder.state]
      /\ builder' = [builder EXCEPT !.saved = TRUE] /\ UNCHANGED <<request, branch, pull, auditorVars>>
  BY DEF SaveQuestion
<1>3. /\ builder' \in Builder /\ builder'.task = builder.task /\ builder'.state = builder.state
      /\ builder'.pc = builder.pc /\ builder'.tree = builder.tree
      /\ builder'.tested = builder.tested /\ builder'.passed = builder.passed
  BY <1>1, <1>2 DEF Builder
<1>4. TestedTree'
  BY <1>1, <1>3 DEF WorkInv, TestedTree
<1> QED BY <1>1, <1>2, <1>3, <1>4, RunSaves

LEMMA ParkIsSound == ASSUME WorkInv, Park PROVE WorkInv'
<1>1. /\ builder \in Builder /\ builder.state \in Progress
      /\ builder.pc # "idle" /\ Remembers(builder.state, request)
  BY DEF WorkInv, WorkTypes, Questions, Park, Answered, Asking, Builder
<1>2. builder' = Throw(builder, "parked") /\ UNCHANGED <<request, branch, pull, auditorVars>>
  BY DEF Park, Parked
<1>3. /\ builder' \in Builder /\ builder'.pc = "caught"
      /\ builder'.task = builder.task /\ builder'.state = builder.state
  BY <1>1, <1>2, ThrowIs
<1>4. task' = [task EXCEPT ![builder.task].checkpoint = builder.state]
  BY <1>3 DEF Park
<1>5. TestedTree'
  BY <1>3 DEF TestedTree
<1> QED BY <1>1, <1>2, <1>3, <1>4, <1>5, RunSaves

\* To forget a question leaves no other one astray.
LEMMA QuestionFailedIsSound == ASSUME WorkInv, QuestionFailed PROVE WorkInv'
<1>1. /\ builder \in Builder /\ builder.state \in Progress
      /\ builder.pc # "idle" /\ Remembers(builder.state, request)
      /\ UNCHANGED <<request, branch, pull, auditorVars>>
  BY DEF WorkInv, WorkTypes, Questions, QuestionFailed, Answered, Asking, Builder
<1> DEFINE q == Current
           s == [builder.state EXCEPT !.asked = [@ EXCEPT ![q] = 0]]
           b == [builder EXCEPT !.state = s]
<1>2. builder' = Throw(b, "retryable")
  BY DEF QuestionFailed
<1>3. task' = [task EXCEPT ![builder.task].checkpoint = builder'.state]
  BY DEF QuestionFailed
<1> HIDE DEF q
<1>4. s \in Progress /\ Remembers(s, request)
  <2>1. builder.state.asked \in [Question -> Nat]
    BY <1>1 DEF Progress
  <2>2. /\ s.asked \in [Question -> Nat] /\ s \in Progress
        /\ \A p \in Question : s.asked[p] = IF p = q THEN 0 ELSE builder.state.asked[p]
    BY <1>1, <2>1 DEF Progress
  <2> HIDE DEF s
  <2> QED BY <1>1, <2>2 DEF Remembers
<1> HIDE DEF s
<1>5. b \in Builder /\ b.state = s /\ b.task = builder.task
  BY <1>1, <1>4 DEF Builder
<1> HIDE DEF b
<1>6. /\ builder' \in Builder /\ builder'.pc = "caught"
      /\ builder'.task = builder.task /\ builder'.state = s
  BY <1>2, <1>5, ThrowIs
<1>7. TestedTree'
  BY <1>6 DEF TestedTree
<1>8. task' = [task EXCEPT ![builder.task].checkpoint = s]
  BY <1>3, <1>6
<1> QED BY <1>1, <1>4, <1>6, <1>7, <1>8, RunSaves

LEMMA RunTestsIsSound == ASSUME WorkInv, RunTests PROVE WorkInv'
<1>1. /\ builder \in Builder /\ builder.state \in Progress
      /\ builder.pc = "test" /\ Remembers(builder.state, request)
      /\ task' = [task EXCEPT ![builder.task].checkpoint = builder.state]
      /\ UNCHANGED <<request, branch, pull, auditorVars>>
  BY DEF WorkInv, WorkTypes, Questions, RunTests, Builder
<1>2. PICK green \in BOOLEAN : builder' = [Verdict(builder.tree, green) EXCEPT !.pc = AfterTests]
  BY DEF RunTests
<1> DEFINE pc == AfterTests
<1>3. pc \in {"review", "complete"}
  BY DEF AfterTests
<1>4. builder' = [builder EXCEPT !.passed = green, !.tested = builder.tree, !.pc = pc]
  BY <1>2 DEF Verdict
<1> HIDE DEF pc
<1>5. /\ builder' \in Builder /\ builder'.pc \in {"review", "complete"}
      /\ builder'.task = builder.task /\ builder'.state = builder.state
      /\ builder'.tested = builder'.tree
  BY <1>1, <1>3, <1>4 DEF Builder, RunPc
<1>6. TestedTree'
  BY <1>5 DEF TestedTree
<1>7. builder.pc # "idle"
  BY <1>1
<1> QED BY <1>1, <1>5, <1>6, <1>7, RunSaves

LEMMA CommitIsSound == ASSUME WorkInv, CommitEdits PROVE WorkInv'
<1>1. /\ builder \in Builder /\ builder.state \in Progress
      /\ builder.pc = "commit" /\ Remembers(builder.state, request)
      /\ UNCHANGED <<request, branch, pull, auditorVars>>
      /\ builder.tree = builder.tested /\ builder.passed
  BY DEF WorkInv, WorkTypes, Questions, CommitEdits, Builder, TestedTree
<1>2. builder.pc # "idle" /\ Beyond' = Beyond
  BY <1>1 DEF Beyond
<1>3. /\ builder' \in Builder /\ builder'.pc \in {"push", "caught"}
      /\ builder'.task = builder.task /\ builder'.state = builder.state
      /\ builder'.pc = "push" => /\ Showable(builder'.tree, builder'.tested) /\ builder'.passed
  <2>1. ASSUME NEW c \in Committed(builder.tree), NEW b,
               b = [builder EXCEPT !.tree = c, !.pc = "push"],
               builder' = b \/ builder' = Throw(b, "fatal")
        PROVE  /\ builder' \in Builder /\ builder'.pc \in {"push", "caught"}
               /\ builder'.task = builder.task /\ builder'.state = builder.state
               /\ builder'.pc = "push" => /\ Showable(builder'.tree, builder'.tested) /\ builder'.passed
    <3>1. c \subseteq builder.tree /\ Showable(c, builder.tested)
      BY <1>1, <2>1 DEF Committed, Showable
    <3>2. /\ b \in Builder /\ b.pc = "push" /\ b.task = builder.task /\ b.state = builder.state
          /\ b.tree = c /\ b.tested = builder.tested /\ b.passed = builder.passed
      BY <1>1, <2>1, <3>1 DEF Builder, RunPc
    <3>3. CASE builder' = b
      BY <1>1, <3>1, <3>2, <3>3
    <3>4. CASE builder' = Throw(b, "fatal")
      BY <3>2, <3>4, ThrowIs
    <3> QED BY <2>1, <3>3, <3>4
  <2>2. CASE builder' = Throw(builder, "retryable")
    BY <1>1, <2>2, ThrowIs
  <2> QED BY <2>1, <2>2 DEF CommitEdits
<1>4. TestedTree'
  BY <1>2, <1>3 DEF TestedTree, Showable
<1>5. Remembers(builder'.state, request)
  BY <1>1, <1>3
<1>6. CASE task' = [task EXCEPT ![builder.task].checkpoint = builder.state]
  BY <1>1, <1>2, <1>3, <1>4, <1>5, <1>6, RunSaves
<1>7. CASE UNCHANGED task
  BY <1>1, <1>2, <1>3, <1>4, <1>5, <1>7, BranchesStay, RunGoesOn
<1> QED BY <1>6, <1>7 DEF CommitEdits

\* What becomes of a task whose run did not finish.
LEMMA RetriedIs == ASSUME NEW n PROVE Retried(n) \in {"dead_letter", "queued"}
BY DEF Retried

\* The run of a task ends, with what is decided about the task.
LEMMA RunEnds ==
    ASSUME WorkInv, builder.pc # "idle", NEW status \in WorkStatus, NEW attempts \in Int,
           task' = [task EXCEPT ![builder.task].status = status, ![builder.task].attempts = attempts],
           builder' = IdleBuilder, UNCHANGED <<request, branch, pull, auditorVars>>
    PROVE  WorkInv'
<1> DEFINE n == builder.task
           row == [task[n] EXCEPT !.status = status, !.attempts = attempts]
<1>1. n \in DOMAIN task /\ task[n] \in WorkTask /\ task[n].status \in Active
  BY RunHasTask DEF Active
<1>2. row \in WorkTask /\ row.finding = task[n].finding /\ row.checkpoint = task[n].checkpoint
  BY <1>1 DEF WorkTask
<1>3. SetTask(n, row)
  BY <1>1 DEF SetTask, WorkInv, WorkTypes
<1>4. builder' = IdleBuilder /\ UNCHANGED <<request, branch, pull, auditorVars>>
  OBVIOUS
<1> HIDE DEF n, row
<1> QED BY <1>1, <1>2, <1>3, <1>4, TaskIsLeft

LEMMA EndsAreSound ==
    ASSUME WorkInv, CompleteTask \/ CatchRun \/ Interrupt \/ BuilderCrash
    PROVE  WorkInv'
<1>0. /\ builder.pc # "idle" /\ builder' = IdleBuilder
      /\ UNCHANGED <<request, branch, pull, auditorVars>>
  BY DEF CompleteTask, CatchRun, Interrupt, BuilderCrash
<1> DEFINE n == builder.task
           old == task[n]
<1>1. n \in DOMAIN task /\ old \in WorkTask /\ old.attempts \in Int /\ old.attempts - 1 \in Int
  <2>1. n \in DOMAIN task /\ old \in WorkTask
    BY <1>0, RunHasTask
  <2> QED BY <2>1 DEF WorkTask
<1>2. CASE CompleteTask
  <2>1. task' = [task EXCEPT ![n].status = "completed", ![n].attempts = old.attempts]
    <3>1. task' = [task EXCEPT ![n] = [old EXCEPT !.status = "completed"]]
      BY <1>2 DEF CompleteTask
    <3>2. [old EXCEPT !.status = "completed"] = [old EXCEPT !.status = "completed", !.attempts = old.attempts]
      BY <1>1 DEF WorkTask
    <3>3. task' = [task EXCEPT ![n] = [old EXCEPT !.status = "completed", !.attempts = old.attempts]]
      BY <3>1, <3>2
    <3> QED BY <1>1, <3>3 DEF WorkInv, WorkTypes
  <2>2. "completed" \in WorkStatus
    BY DEF WorkStatus
  <2> QED BY <1>0, <1>1, <2>1, <2>2, RunEnds
<1>3. CASE CatchRun
  <2> DEFINE status == CASE builder.outcome = "parked" -> "waiting"
                         [] builder.outcome = "fatal"  -> "failed"
                         [] OTHER                      -> Retried(builder.task)
             attempts == IF builder.outcome = "parked" THEN old.attempts - 1 ELSE old.attempts
  <2>1. status \in WorkStatus
    BY RetriedIs DEF WorkStatus
  <2>2. attempts \in Int
    BY <1>1
  <2>3. task' = [task EXCEPT ![n].status = status, ![n].attempts = attempts]
    BY <1>1, <1>3 DEF CatchRun, WorkTask
  <2> HIDE DEF status, attempts
  <2> QED BY <1>0, <2>1, <2>2, <2>3, RunEnds
<1>4. CASE Interrupt
  <2>1. PICK left \in {"queued", "cancelled"} :
            task' = [task EXCEPT ![n].status = left,
                                 ![n].attempts = IF left = "queued" THEN @ - 1 ELSE @]
    BY <1>4 DEF Interrupt
  <2> DEFINE attempts == IF left = "queued" THEN old.attempts - 1 ELSE old.attempts
  <2>2. attempts \in Int /\ left \in WorkStatus
    BY <1>1 DEF WorkStatus
  <2>3. task' = [task EXCEPT ![n].status = left, ![n].attempts = attempts]
    BY <1>1, <2>1 DEF WorkTask
  <2> HIDE DEF attempts
  <2> QED BY <1>0, <2>2, <2>3, RunEnds
<1>5. CASE BuilderCrash
  <2>1. SetTask(n, old) /\ task' = task
    BY <1>1, <1>5 DEF BuilderCrash, SetTask, WorkInv, WorkTypes
  <2>2. old.status \in Active => task[n].status \in Active
    OBVIOUS
  <2>3. old.finding = task[n].finding /\ old.checkpoint = task[n].checkpoint
    OBVIOUS
  <2> HIDE DEF n, old
  <2> QED BY <1>0, <1>1, <2>1, <2>2, <2>3, TaskIsLeft
<1> QED BY <1>2, <1>3, <1>4, <1>5

\* A question is put: it is remembered, and what was remembered still is.
LEMMA AskIsSound == ASSUME WorkInv, Ask PROVE WorkInv'
<1> DEFINE q == Current
           new == Len(request) + 1
           put == [task |-> builder.task, of |-> q, status |-> "queued", answer |-> "none"]
           s == [builder.state EXCEPT !.asked = [@ EXCEPT ![q] = new]]
<1>1. /\ builder \in Builder /\ builder.state \in Progress /\ Remembers(builder.state, request)
      /\ request \in Seq(Inference)
      /\ builder.pc \in {"plan", "implement", "review"}
      /\ UNCHANGED <<task, branch, pull, auditorVars>>
      /\ request' = Append(request, put)
  BY DEF WorkInv, WorkTypes, Questions, Ask, Asking, Builder
<1>2. builder' = [builder EXCEPT !.state = s, !.saved = FALSE]
  BY DEF Ask
<1>3. q \in Question
  BY <1>1, CurrentIsQuestion DEF Ask
<1>4. builder.task \in DOMAIN task /\ task[builder.task] \in WorkTask /\ task[builder.task].status = "running"
  BY <1>1, RunHasTask
<1>5. new \in Nat /\ new # 0
  BY <1>1
<1> HIDE DEF q
<1>6. put \in Inference /\ put.of = q /\ put.status = "queued" /\ put.answer = "none"
  BY <1>1, <1>3 DEF Inference, Builder, Saying
<1> HIDE DEF put
<1>7. /\ request' \in Seq(Inference) /\ new \in DOMAIN request' /\ request'[new] = put
      /\ \A r \in DOMAIN request : r \in DOMAIN request' /\ request'[r] = request[r]
      /\ \A r \in DOMAIN request' : r = new \/ r \in DOMAIN request
  BY <1>1, <1>6
<1>8. AnswersFit'
  BY <1>6, <1>7 DEF WorkInv, AnswersFit
<1> HIDE DEF new
<1>9. s \in Progress /\ Remembers(s, request')
  <2>1. builder.state.asked \in [Question -> Nat]
    BY <1>1 DEF Progress
  <2>2. /\ s \in Progress
        /\ \A p \in Question : s.asked[p] = IF p = q THEN new ELSE builder.state.asked[p]
    BY <1>1, <1>5, <2>1 DEF Progress
  <2> HIDE DEF s
  <2> QED BY <1>1, <1>6, <1>7, <2>2 DEF Remembers
<1> HIDE DEF s
<1>10. /\ builder' \in Builder /\ builder'.pc = builder.pc /\ builder'.task = builder.task
       /\ builder'.state = s /\ builder'.tree = builder.tree
       /\ builder'.tested = builder.tested /\ builder'.passed = builder.passed
  BY <1>1, <1>2, <1>9 DEF Builder
<1>11. TestedTree'
  BY <1>1, <1>10 DEF WorkInv, TestedTree
<1>12. \A m \in DOMAIN task : Remembers(task[m].checkpoint, request')
  BY <1>7 DEF WorkInv, Questions, Remembers
<1>13. BranchTypes' /\ BranchesPassed'
  <2>1. Beyond \subseteq Beyond'
    BY <1>7 DEF Beyond
  <2>2. BranchTypes /\ BranchesPassed
    BY DEF WorkInv, WorkTypes
  <2> QED BY <1>1, <2>1, <2>2 DEF BranchTypes, BranchesPassed, Showable
<1> DEFINE n == builder.task
           row == task[n]
<1>14. SetTask(n, row)
  BY <1>1, <1>4 DEF SetTask, WorkInv, WorkTypes
<1>15. Remembers(row.checkpoint, request')
  BY <1>4, <1>12
<1>16. n \in DOMAIN task /\ row \in WorkTask /\ row.status = "running" /\ builder'.task = n /\ row = task[n]
  BY <1>4, <1>10
<1> HIDE DEF n, row
<1> QED BY <1>1, <1>7, <1>8, <1>9, <1>10, <1>11, <1>12, <1>13, <1>14, <1>15, <1>16, RunIsSound

LEMMA BuilderStepIsSound ==
    ASSUME WorkInv, BuilderStep \/ Interrupt \/ BuilderCrash
    PROVE  WorkInv'
BY PrepareIsSound, AskIsSound, SaveQuestionIsSound, ParkIsSound, QuestionFailedIsSound,
   ReadPlanIsSound, ApplyEditsIsSound, RunTestsIsSound, ReadReviewIsSound, CommitIsSound,
   PushIsSound, OpenPullIsSound, EndsAreSound DEF BuilderStep

-----------------------------------------------------------------------------
(* The queue, the gateway and the auditor                                   *)

LEMMA RecoverIsSound == ASSUME WorkInv, NEW n \in DOMAIN task, RecoverExpired(n) PROVE WorkInv'
<1> DEFINE row == [task[n] EXCEPT !.status = Retried(n)]
<1>1. task[n] \in WorkTask
  BY DEF WorkInv, WorkTypes
<1>2. /\ row \in WorkTask /\ row.finding = task[n].finding /\ row.checkpoint = task[n].checkpoint
  BY <1>1, RetriedIs DEF WorkTask, WorkStatus
<1>3. SetTask(n, row)
  BY DEF RecoverExpired, SetTask
<1>4. task[n].status \in Active
  BY DEF RecoverExpired, Active
<1> HIDE DEF row
<1>5. UNCHANGED <<request, branch, pull, auditorVars>> /\ builder' = builder /\ builder.pc = "idle"
  BY DEF RecoverExpired
<1>6. /\ builder' \in Builder /\ builder'.pc = "idle" /\ TestedTree'
      /\ Remembers(builder'.state, request') /\ Remembers(row.checkpoint, request')
      /\ \A m \in DOMAIN task : Remembers(task[m].checkpoint, request')
      /\ request' \in Seq(Inference) /\ AnswersFit' /\ BranchTypes' /\ BranchesPassed'
  BY <1>2, <1>5, BranchesStay DEF WorkInv, WorkTypes, Questions, TestedTree, AnswersFit
<1> QED BY <1>2, <1>3, <1>4, <1>5, <1>6, RunIsSound

LEMMA ClaimIsSound == ASSUME WorkInv, NEW n \in DOMAIN task, Claim(n) PROVE WorkInv'
<1> DEFINE row == [task[n] EXCEPT !.status = "running", !.attempts = @ + 1]
           s == task[n].checkpoint
<1>1. task[n] \in WorkTask /\ s \in Progress /\ task[n].attempts + 1 \in Int
  <2>1. task[n] \in WorkTask
    BY DEF WorkInv, WorkTypes
  <2> QED BY <2>1 DEF WorkTask
<1>2. row \in WorkTask /\ row.finding = task[n].finding /\ row.checkpoint = s /\ row.status = "running"
  BY <1>1 DEF WorkTask, WorkStatus
<1>3. SetTask(n, row)
  BY <1>1 DEF Claim, SetTask, WorkInv, WorkTypes
<1>4. task[n].status \in Active
  BY DEF Claim, Active
<1>5. UNCHANGED <<request, branch, pull, auditorVars>>
  BY DEF Claim
<1>6. builder' = [IdleBuilder EXCEPT !.pc = "prepare", !.task = n, !.state = s]
  BY DEF Claim, Resumed
<1>7. /\ Remembers(s, request') /\ \A m \in DOMAIN task : Remembers(task[m].checkpoint, request')
      /\ request' \in Seq(Inference) /\ AnswersFit' /\ BranchTypes' /\ BranchesPassed'
  BY <1>5, BranchesStay DEF WorkInv, WorkTypes, Questions, AnswersFit
<1>8. n \in Nat
  BY DEF WorkInv, WorkTypes
<1> HIDE DEF row, s
<1>9. builder' \in Builder /\ builder'.pc = "prepare" /\ builder'.task = n /\ builder'.state = s
  BY <1>1, <1>6, <1>8, IdleIsBuilder DEF Builder, RunPc
<1>10. TestedTree'
  BY <1>9 DEF TestedTree
<1> QED BY <1>2, <1>3, <1>4, <1>5, <1>7, <1>9, <1>10, RunIsSound

\* A new task, for a finding that no live task stands for, or for none.
LEMMA FiledIsSound ==
    ASSUME WorkInv, NEW sort \in {"change", "inspect"}, NEW i \in Nat,
           i = 0 \/ LiveFor(i) = {},
           task' = Append(task, NewTask(sort, i)),
           UNCHANGED <<request, builder, branch, pull, finding>>, auditor' \in Auditor
    PROVE  WorkInv'
<1> DEFINE row == NewTask(sort, i)
           new == Len(task) + 1
<1>1. row \in WorkTask /\ row.finding = i /\ row.checkpoint = NoProgress
  BY NoProgressIsProgress DEF NewTask, WorkTask, WorkStatus
<1>2. task' = Append(task, row)
  OBVIOUS
<1> HIDE DEF row
<1>3. /\ task' \in Seq(WorkTask) /\ DOMAIN task' = DOMAIN task \cup {new}
      /\ \A m \in DOMAIN task : task'[m] = task[m]
      /\ task'[new] = row /\ new \notin DOMAIN task
  BY <1>1, <1>2, TaskIsFiled DEF WorkInv
<1> HIDE DEF new
<1>4. WorkTypes'
  BY <1>3, BranchesStay DEF WorkInv, WorkTypes
<1>5. Questions'
  BY <1>1, <1>3, NoProgressIsProgress DEF WorkInv, Questions
<1>6. AnswersFit' /\ TestedTree' /\ BranchesPassed'
  BY BranchesStay, BranchesStand DEF WorkInv, AnswersFit
<1>7. AtWork'
  BY <1>3 DEF WorkInv, AtWork
<1>8. OneEach'
  BY <1>1, <1>3 DEF WorkInv, OneEach, LiveFor
<1> QED BY <1>4, <1>5, <1>6, <1>7, <1>8 DEF WorkInv

LEMMA GatewayIsSound == ASSUME WorkInv, NEW r \in DOMAIN request, GatewayFinishes(r) PROVE WorkInv'
<1>1. request \in Seq(Inference) /\ request[r] \in Inference /\ UNCHANGED <<task, builder, branch, pull, auditorVars>>
  <2>1. request \in Seq(Inference) /\ request[r] \in Inference
    BY DEF WorkInv, WorkTypes
  <2>2. UNCHANGED <<task, builder, branch, pull, auditorVars>>
    BY DEF GatewayFinishes
  <2> QED BY <2>1, <2>2
<1>2. PICK row \in Inference : /\ request' = [request EXCEPT ![r] = row] /\ row.of = request[r].of
                               /\ row.status # "queued"
                               /\ row.status = "completed" => row.answer \in AnswersTo(row.of)
  <2>1. ASSUME NEW a \in AnswersTo(request[r].of),
               request' = [request EXCEPT ![r].status = "completed", ![r].answer = a]
        PROVE  \E row \in Inference : /\ request' = [request EXCEPT ![r] = row] /\ row.of = request[r].of
                                      /\ row.status # "queued"
                                      /\ row.status = "completed" => row.answer \in AnswersTo(row.of)
    <3> DEFINE row == [request[r] EXCEPT !.status = "completed", !.answer = a]
    <3>1. a \in Saying
      <4>1. request[r].of[1] \in {"plan", "implement", "review"}
        BY <1>1 DEF Inference, Question
      <4> QED BY <4>1 DEF AnswersTo, Saying
    <3>2. row \in Inference /\ row.of = request[r].of /\ row.answer = a /\ row.status = "completed"
      BY <1>1, <3>1 DEF Inference
    <3>3. request' = [request EXCEPT ![r] = row]
      BY <1>1, <2>1
    <3> HIDE DEF row
    <3> QED BY <3>2, <3>3
  <2>2. ASSUME request' = [request EXCEPT ![r].status = "failed"]
        PROVE  \E row \in Inference : /\ request' = [request EXCEPT ![r] = row] /\ row.of = request[r].of
                                      /\ row.status # "queued"
                                      /\ row.status = "completed" => row.answer \in AnswersTo(row.of)
    <3> DEFINE row == [request[r] EXCEPT !.status = "failed"]
    <3>1. row \in Inference /\ row.of = request[r].of /\ row.status = "failed"
      BY <1>1 DEF Inference
    <3>2. request' = [request EXCEPT ![r] = row]
      BY <2>2
    <3> HIDE DEF row
    <3> QED BY <3>1, <3>2
  <2> QED BY <2>1, <2>2 DEF GatewayFinishes
<1>3. /\ request' \in Seq(Inference) /\ DOMAIN request' = DOMAIN request
      /\ \A p \in DOMAIN request : request'[p] = IF p = r THEN row ELSE request[p]
  BY <1>1, <1>2
<1>0. Beyond \subseteq Beyond'
  BY <1>1, <1>3 DEF WorkInv, AnswersFit, Beyond, GatewayFinishes
<1>4. WorkTypes'
  BY <1>0, <1>1, <1>3, BranchesStand DEF WorkInv, WorkTypes, auditorVars
<1>5. Questions'
  BY <1>1, <1>2, <1>3 DEF WorkInv, Questions, Remembers
<1>6. AnswersFit'
  BY <1>2, <1>3 DEF WorkInv, AnswersFit
<1>7. AtWork' /\ TestedTree' /\ OneEach' /\ BranchesPassed'
  BY <1>0, <1>1, BranchesStand DEF WorkInv, AtWork, OneEach
<1> QED BY <1>4, <1>5, <1>6, <1>7 DEF WorkInv

\* A sequence of the members of a finite set holds nothing else.
LEMMA SequenceOfSet ==
    ASSUME NEW S, IsFiniteSet(S)
    PROVE  Cardinality(S) \in Nat /\ SetToSeq(S) \in [1..Cardinality(S) -> S]
<1> DEFINE n == Cardinality(S)
<1>1. n \in Nat /\ ExistsBijection(1..n, S)
  BY FS_CardinalityType
<1>2. PICK f : f \in [1..n -> S] /\ IsInjective(f)
  BY <1>1 DEF ExistsBijection, Bijection, Injection, IsInjective
<1>3. SetToSeq(S) \in [1..n -> S]
  BY <1>2 DEF SetToSeq
<1> QED BY <1>1, <1>3

LEMMA AuditIsSound == ASSUME WorkInv, RecordFindings PROVE WorkInv'
<1>1. PICK repeats \in SUBSET Failure : finding' = MissingResolved(Upserted(repeats), repeats)
  BY DEF RecordFindings
<1> DEFINE missing == {f \in repeats : OpenFor(f) = {}}
           k == Cardinality(missing)
           fresh == [i \in 1..k |-> [of |-> SetToSeq(missing)[i], open |-> TRUE, task |-> 0]]
           rows == finding \o fresh
<1>2. k \in Nat /\ SetToSeq(missing) \in [1..k -> missing]
  <2>1. IsFiniteSet(missing)
    BY OpsWorkAssumption, FS_Subset
  <2> HIDE DEF missing
  <2> QED BY <2>1, SequenceOfSet
<1>3. fresh \in Seq(Finding)
  <2>1. missing \subseteq Failure
    OBVIOUS
  <2> HIDE DEF missing, k
  <2> QED BY <1>2, <2>1 DEF Finding
<1>4. finding' = MissingResolved(rows, repeats)
  BY <1>1 DEF Upserted
<1> HIDE DEF fresh
<1>5. rows \in Seq(Finding)
  BY <1>3, ConcatProperties DEF WorkInv, WorkTypes
<1> HIDE DEF rows, missing, k
<1>6. finding' \in Seq(Finding)
  <2>1. ASSUME NEW i \in DOMAIN rows
        PROVE  [rows[i] EXCEPT !.open = @ /\ rows[i].of \in repeats] \in Finding
    <3> DEFINE open == rows[i].open /\ rows[i].of \in repeats
    <3>1. open \in BOOLEAN
      OBVIOUS
    <3>2. rows[i] \in Finding
      BY <1>5
    <3> HIDE DEF open
    <3>3. [rows[i] EXCEPT !.open = open] \in Finding
      BY <3>1, <3>2 DEF Finding
    <3> QED BY <3>3 DEF open
  <2> DEFINE g(i) == [rows[i] EXCEPT !.open = @ /\ rows[i].of \in repeats]
  <2>2. finding' = [i \in DOMAIN rows |-> g(i)]
    BY <1>4 DEF MissingResolved
  <2> HIDE DEF g
  <2> QED BY <1>5, <2>1, <2>2 DEF g
<1>7. auditor' \in Auditor /\ UNCHANGED builderVars
  <2> DEFINE todo == {i \in DOMAIN finding' : finding'[i].open /\ finding'[i].task = 0}
  <2>1. todo \in SUBSET Nat
    BY <1>6
  <2>2. auditor' = [auditor EXCEPT !.pc = "file", !.todo = todo] /\ UNCHANGED builderVars
    BY DEF RecordFindings
  <2> HIDE DEF todo
  <2> QED BY <2>1, <2>2 DEF WorkInv, WorkTypes, Auditor
<1>8. UNCHANGED <<task, request, builder, branch, pull>>
  BY <1>7 DEF builderVars
<1> QED BY <1>6, <1>7, <1>8, BranchesStay, BranchesStand
        DEF WorkInv, WorkTypes, Questions, AnswersFit, AtWork, OneEach

LEMMA AuditorStepIsSound ==
    ASSUME WorkInv, FileTask \/ LinkTask \/ EndAudit \/ AuditorCrash
    PROVE  WorkInv'
<1>0. auditor \in Auditor /\ finding \in Seq(Finding)
  BY DEF WorkInv, WorkTypes
<1>1. CASE FileTask
  <2>1. PICK i \in auditor.todo :
           \/ \E n \in LiveFor(i) :
                  /\ auditor' = [auditor EXCEPT !.filed = i, !.link = n]
                  /\ UNCHANGED task
           \/ /\ LiveFor(i) = {}
              /\ task' = Append(task, NewTask("change", i))
              /\ auditor' = [auditor EXCEPT !.filed = i, !.link = Len(task) + 1]
    BY <1>1 DEF FileTask
  <2>2. i \in Nat /\ UNCHANGED <<request, builder, branch, pull, finding>>
    BY <1>0, <1>1 DEF Auditor, FileTask
  <2>3. \A n \in Nat : [auditor EXCEPT !.filed = i, !.link = n] \in Auditor
    BY <1>0, <2>2 DEF Auditor
  <2>4. CASE \E n \in LiveFor(i) : /\ auditor' = [auditor EXCEPT !.filed = i, !.link = n]
                                   /\ UNCHANGED task
    <3>1. auditor' \in Auditor /\ UNCHANGED task
      <4>1. PICK n \in LiveFor(i) : /\ auditor' = [auditor EXCEPT !.filed = i, !.link = n]
                                    /\ UNCHANGED task
        BY <2>4
      <4>2. n \in Nat
        BY DEF LiveFor, WorkInv, WorkTypes
      <4> QED BY <2>3, <4>1, <4>2
    <3> QED BY <2>2, <3>1, BranchesStay, BranchesStand
            DEF WorkInv, WorkTypes, Questions, AnswersFit, AtWork, OneEach
  <2>5. CASE /\ LiveFor(i) = {}
             /\ task' = Append(task, NewTask("change", i))
             /\ auditor' = [auditor EXCEPT !.filed = i, !.link = Len(task) + 1]
    <3>1. Len(task) + 1 \in Nat
      BY DEF WorkInv, WorkTypes
    <3>2. auditor' \in Auditor
      BY <2>3, <2>5, <3>1
    <3> QED BY <2>2, <2>5, <3>2, FiledIsSound
  <2> QED BY <2>1, <2>4, <2>5
<1>2. CASE LinkTask
  <2>1. finding' \in Seq(Finding)
    <3> DEFINE i == auditor.filed
               row == [finding[i] EXCEPT !.task = auditor.link]
    <3>1. auditor.link \in Nat
      BY <1>0 DEF Auditor
    <3>2. finding' = [finding EXCEPT ![i] = row]
      BY <1>2 DEF LinkTask
    <3> HIDE DEF i
    <3>3. i \in DOMAIN finding => row \in Finding
      <4>1. i \in DOMAIN finding => finding[i] \in Finding
        BY <1>0
      <4> QED BY <3>1, <4>1 DEF Finding
    <3> HIDE DEF row
    <3>4. CASE i \in DOMAIN finding
      BY <1>0, <3>2, <3>3, <3>4
    <3>5. CASE i \notin DOMAIN finding
      <4>1. finding' = finding
        BY <1>0, <3>2, <3>5
      <4> QED BY <1>0, <4>1
    <3> QED BY <3>4, <3>5
  <2>2. auditor' \in Auditor /\ UNCHANGED <<task, request, builder, branch, pull>>
    BY <1>0, <1>2 DEF LinkTask, Auditor, builderVars
  <2> QED BY <2>1, <2>2, BranchesStay, BranchesStand
          DEF WorkInv, WorkTypes, Questions, AnswersFit, AtWork, OneEach
<1>3. CASE EndAudit \/ AuditorCrash
  <2>1. auditor' \in Auditor /\ UNCHANGED <<task, request, builder, branch, pull, finding>>
    BY <1>3 DEF EndAudit, AuditorCrash, IdleAuditor, Auditor, builderVars
  <2> QED BY <2>1, BranchesStay, BranchesStand
          DEF WorkInv, WorkTypes, Questions, AnswersFit, AtWork, OneEach
<1> QED BY <1>1, <1>2, <1>3

-----------------------------------------------------------------------------
(* The theorems about their work                                            *)

\* The inductive invariant of the two systems: what a state or a checkpoint
\* remembers was asked, an answer is one to its question, a run works on a
\* running task, from the test run to the commit the tree is the one that was
\* tested, and a branch holds what may be shown of a tree that passed
\* (codeChange, infer and runTests of ops-builder.js, enqueueTask).
THEOREM WorkIsSound == WorkSpec => []WorkInv
<1>1. WorkInit => WorkInv
  <2> SUFFICES ASSUME WorkInit
               PROVE  WorkInv
    OBVIOUS
  <2>1. WorkTypes
    BY IdleIsBuilder DEF WorkInit, WorkTypes, BranchTypes, IdleAuditor, Auditor
  <2>2. Questions
    BY IdleIsBuilder, NoProgressIsProgress DEF WorkInit, Questions
  <2> QED BY <2>1, <2>2, IdleIsBuilder
          DEF WorkInit, WorkInv, AnswersFit, AtWork, TestedTree, OneEach, BranchesPassed
<1>2. WorkInv /\ [WorkNext]_workVars => WorkInv'
  <2>1. ASSUME WorkInv, WorkNext PROVE WorkInv'
    <3>1. ASSUME NEW sort \in {"change", "inspect"}, AdminEnqueues(sort) PROVE WorkInv'
      <4>1. /\ task' = Append(task, NewTask(sort, 0)) /\ UNCHANGED <<request, builder, branch, pull, finding>>
            /\ auditor' = auditor
        BY <3>1 DEF AdminEnqueues, auditorVars
      <4> QED BY <2>1, <4>1, FiledIsSound DEF WorkInv, WorkTypes
    <3> QED BY <2>1, <3>1, RecoverIsSound, ClaimIsSound, BuilderStepIsSound, GatewayIsSound,
               AuditIsSound, AuditorStepIsSound DEF WorkNext, AuditorStep
  <2>2. ASSUME WorkInv, UNCHANGED workVars PROVE WorkInv'
    BY <2>2, BranchesStay, BranchesStand DEF workVars, WorkInv, WorkTypes, Questions, AnswersFit, AtWork, OneEach
  <2> QED BY <2>1, <2>2
<1> QED BY <1>1, <1>2, PTL DEF WorkSpec

\* What a pull request shows, also after a later run of the task has pushed over
\* it, is from a tree with which the suite passed in the run that pushed it: the
\* tree, nothing of it, or a part when an answer went beyond the files of the
\* plan (codeChange of ops-builder.js).
THEOREM PullRequestsPassed == WorkSpec => []PullRequestPassed
<1>1. WorkInv => PullRequestPassed
  BY DEF WorkInv, WorkTypes, BranchTypes, BranchesPassed, Showable, PullRequestPassed
<1> QED BY <1>1, WorkIsSound, PTL

\* No finding has two live tasks, however often the auditor dies between filing
\* one and noting that it did (ops-auditor.js, enqueueTask of ops-state.js).
THEOREM OneFixIsUnderWay == WorkSpec => []OneFixAtATime
<1>1. WorkInv => OneFixAtATime
  <2> SUFFICES ASSUME WorkInv, NEW i \in DOMAIN finding
               PROVE  Cardinality({n \in DOMAIN task : /\ task[n].finding = i
                                                       /\ task[n].status \in {"queued", "running", "waiting"}}) <= 1
    BY DEF OneFixAtATime
  <2> DEFINE live == {n \in DOMAIN task : /\ task[n].finding = i
                                          /\ task[n].status \in {"queued", "running", "waiting"}}
  <2>1. i # 0
    BY DEF WorkInv, WorkTypes
  <2>2. \A m, n \in live : m = n
    BY <2>1 DEF WorkInv, OneEach, Active
  <2> HIDE DEF live
  <2>3. live = {} \/ \E n : live = {n}
    BY <2>2
  <2>4. Cardinality(live) = 0 \/ Cardinality(live) = 1
    BY <2>3, FS_EmptySet, FS_Singleton
  <2>5. Cardinality(live) <= 1
    BY <2>4
  <2> QED BY <2>5 DEF live
<1> QED BY <1>1, WorkIsSound, PTL
=============================================================================
