-------------------------------- MODULE Store --------------------------------
(***************************************************************************)
(* The state database: the connections of src/store.ts, the migrations of  *)
(* src/migrate.ts and the hash chain of src/audit.ts.  SQLite keeps a      *)
(* rollback journal: one connection at a time may prepare a change (the    *)
(* RESERVED lock), readers hold SHARED from their first read to the end of *)
(* their transaction, and a commit waits for them.  A writer that dies     *)
(* while it commits leaves a hot journal, which only a connection that may *)
(* write can roll back.                                                    *)
(*                                                                         *)
(* Writers are not assumed to hold the repository lock: it can be stolen   *)
(* (RepoLock), and the chain must not depend on it.  Rows, events and the  *)
(* record file are the effects of the units of work that made them.        *)
(***************************************************************************)
EXTENDS Naturals, Sequences

CONSTANTS Writers,    \* processes that open the database for writing
          Readers,    \* read-only connections
          Kinds,      \* [Writers -> the units of work one may run]
          MaxUnits,   \* [Writers -> Nat]: bound on the units of a writer
          Supported,  \* number of migrations of the checkout
          Versions,   \* versions the database may start with
          None

(* What a unit does.  "stage" and "audit" are insertStage and appendAudit,   *)
(* which open a transaction of their own, "row" is a single statement,       *)
(* "check" a query that ends the unit when a delivery stage exists, "record" *)
(* a file written meanwhile.                                                 *)
Grant == <<"stage", "audit", "row", "row", "audit">>
Answer == <<"row", "audit">>
Finalize == <<"check", "stage", "record", "row", "row", "audit">>
AddStage == <<"stage", "audit">>
CompleteStage == <<"row", "audit">>

Ops(kind) ==
  [grant |-> Grant, answer |-> Answer, finalize |-> Finalize,
   add_stage |-> AddStage, complete_stage |-> CompleteStage][kind]

(* The units that their caller wraps in one transaction.                     *)
Whole(kind) == kind \in {"grant", "answer", "finalize"}

ASSUME StoreAssumption ==
  /\ Kinds \in [Writers -> SUBSET {"grant", "answer", "finalize", "add_stage", "complete_stage"}]
  /\ MaxUnits \in [Writers -> Nat]
  /\ Supported \in Nat /\ Versions \subseteq 0..Supported
  /\ None \notin Writers

Attempts == 3

VARIABLES disk,      \* the committed database: its rows, audit chain, tables and user_version
          hot,       \* a hot journal is left
          reserved,  \* the writer that holds RESERVED, or None
          record,    \* the unit that last wrote delivery/<run>/result.json, or None
          con,       \* the writers' connections
          view       \* what the readers are doing and have read

vars == <<disk, hot, reserved, record, con, view>>

Empty(v) == [rows |-> {}, chain |-> <<>>, tables |-> 1..v, version |-> v]

Init ==
  /\ \E v \in Versions : disk = Empty(v)
  /\ hot = FALSE /\ reserved = None /\ record = None
  /\ con = [w \in Writers |-> [pc |-> "closed", units |-> <<>>, done |-> {}, at |-> 0, depth |-> 0,
                               aborted |-> FALSE, refused |-> FALSE, attempt |-> 1, schema |-> 0, tip |-> None,
                               work |-> Empty(0)]]
  /\ view = [r \in Readers |-> [pc |-> "out", rows |-> {}, chain |-> <<>>]]

Unit(w) == Len(con[w].units)
Kind(w) == con[w].units[Unit(w)]
AtEnd(w) == con[w].at > Len(Ops(Kind(w)))
Op(w) == Ops(Kind(w))[con[w].at]
Effect(w) == [by |-> w, unit |-> Unit(w), op |-> con[w].at]
KindOf(e) == con[e.by].units[e.unit]

Last(chain) == IF chain = <<>> THEN None ELSE chain[Len(chain)].event

(* A commit holds EXCLUSIVE: nobody else reads.                              *)
Exclusive == \E w \in Writers : con[w].pc = "commit_journal"

(* Not the code: every query is a transaction of its own. *)
SharedPerQuery == {}

(* The readers that hold SHARED: a snapshot keeps it between its reads.      *)
Shared == {r \in Readers : view[r].pc \in {"rows_read", "chain_read"}}

Set(w, c) == con' = [con EXCEPT ![w] = c]

-----------------------------------------------------------------------------
(* Opening for writing: applyMigrations reads user_version outside of any    *)
(* transaction and then applies what is missing, each file in its own        *)
(* transaction.  The connection may write, so a hot journal is rolled back.  *)

Open(w) ==
  /\ con[w].pc = "closed" /\ ~Exclusive
  /\ hot' = FALSE
  /\ Set(w, [con[w] EXCEPT !.pc = IF disk.version < Supported THEN "migrate" ELSE "ready",
                           !.schema = disk.version])
  /\ UNCHANGED <<disk, reserved, record, view>>

Migrate(w) ==
  LET c == con[w]
      i == c.schema + 1
  IN /\ c.pc = "migrate" /\ reserved = None /\ ~Exclusive
     /\ IF i \in disk.tables
          THEN /\ Set(w, [c EXCEPT !.pc = "failed"])
               /\ UNCHANGED reserved
          ELSE /\ Set(w, [c EXCEPT !.pc = "commit",
                            !.work = [disk EXCEPT !.tables = @ \cup {i}, !.version = i]])
               /\ reserved' = w
     /\ hot' = FALSE
     /\ UNCHANGED <<disk, record, view>>

(* The file cannot be read, a statement of it fails or the database stays    *)
(* busy: ROLLBACK, and the constructor throws.                               *)
MigrateFails(w) ==
  /\ con[w].pc = "migrate"
  /\ Set(w, [con[w] EXCEPT !.pc = "failed"])
  /\ UNCHANGED <<disk, hot, reserved, record, view>>

-----------------------------------------------------------------------------
(* Units of work.                                                            *)

StartUnit(w) ==
  /\ con[w].pc = "ready" /\ Unit(w) < MaxUnits[w]
  /\ \E kind \in Kinds[w] :
       Set(w, [con[w] EXCEPT !.units = Append(@, kind), !.at = 1, !.attempt = 1,
                             !.pc = IF Whole(kind) THEN "begin" ELSE "op"])
  /\ UNCHANGED <<disk, hot, reserved, record, view>>

(* The outermost frame's BEGIN IMMEDIATE.                                    *)
Begin(w) ==
  /\ con[w].pc = "begin" /\ reserved = None /\ ~Exclusive
  /\ reserved' = w
  /\ hot' = FALSE
  /\ Set(w, [con[w] EXCEPT !.work = disk, !.depth = 1,
                           !.pc = IF Whole(Kind(w)) THEN "op" ELSE "read"])
  /\ UNCHANGED <<disk, record, view>>

(* Whether #withRetry runs the outermost frame again: isBusy goes by the     *)
(* words of the message, so an error that speaks of a blocked run qualifies. *)
MayRetry(w) == con[w].attempt < Attempts

(* Between units; and the outermost frame's function again.                  *)
Rest(c) == [c EXCEPT !.pc = "ready", !.depth = 0, !.aborted = FALSE, !.refused = FALSE,
                     !.tip = None, !.work = Empty(0)]

Again(w) ==
  [Rest(con[w]) EXCEPT !.pc = "begin", !.attempt = @ + 1,
                         !.at = IF Whole(Kind(w)) THEN 1 ELSE @]

BeginIsBusy(w) ==
  /\ con[w].pc = "begin" /\ reserved # None
  /\ Set(w, IF MayRetry(w) THEN Again(w) ELSE Rest(con[w]))
  /\ UNCHANGED <<disk, hot, reserved, record, view>>

(* Not the code: the delivery stage is looked for before the transaction only. *)
ForgetsDelivery(db) == FALSE

(* A delivery stage of the run.                                              *)
HasDelivery(db) == \E e \in db.rows : KindOf(e) = "finalize"

Check(w) ==
  /\ con[w].pc = "op" /\ ~AtEnd(w) /\ Op(w) = "check"
  /\ Set(w, IF HasDelivery(con[w].work)
              THEN [con[w] EXCEPT !.at = Len(Ops(Kind(w))) + 1, !.refused = TRUE]
              ELSE [con[w] EXCEPT !.at = @ + 1])
  /\ UNCHANGED <<disk, hot, reserved, record, view>>

WriteRecord(w) ==
  /\ con[w].pc = "op" /\ ~AtEnd(w) /\ Op(w) = "record"
  /\ record' = <<w, Unit(w)>>
  /\ Set(w, [con[w] EXCEPT !.at = @ + 1])
  /\ UNCHANGED <<disk, hot, reserved, view>>

(* A statement inside the transaction changes what the connection sees; one  *)
(* outside of any is a transaction of its own.                               *)
Statement(w) ==
  LET added(db) == [db EXCEPT !.rows = @ \cup {Effect(w)}]
  IN /\ con[w].pc = "op" /\ ~AtEnd(w) /\ Op(w) = "row"
     /\ IF con[w].depth > 0
          THEN /\ Set(w, [con[w] EXCEPT !.at = @ + 1, !.work = added(@)])
               /\ UNCHANGED <<disk, hot>>
          ELSE /\ reserved = None /\ ~Exclusive /\ Shared = {}
               /\ disk' = added(disk)
               /\ hot' = FALSE
               /\ Set(w, [con[w] EXCEPT !.at = @ + 1])
     /\ UNCHANGED <<reserved, record, view>>

(* A call of insertStage or appendAudit: it joins the open transaction or    *)
(* opens one.                                                                *)
Enter(w) ==
  /\ con[w].pc = "op" /\ ~AtEnd(w) /\ Op(w) \in {"stage", "audit"}
  /\ Set(w, IF con[w].depth > 0 THEN [con[w] EXCEPT !.depth = @ + 1, !.pc = "read"]
                                ELSE [con[w] EXCEPT !.attempt = 1, !.pc = "begin"])
  /\ UNCHANGED <<disk, hot, reserved, record, view>>

(* Not the code: the last event is read through another connection. *)
TipOutside(w) == Last(disk.chain)

(* The event an append will follow.                                          *)
Tip(w) == Last(con[w].work.chain)

Read(w) ==
  /\ con[w].pc = "read"
  /\ Set(w, [con[w] EXCEPT !.tip = Tip(w), !.pc = "write"])
  /\ UNCHANGED <<disk, hot, reserved, record, view>>

Insert(w) ==
  LET e == Effect(w)
      work == con[w].work
  IN /\ con[w].pc = "write"
     /\ Set(w, [con[w] EXCEPT !.pc = "leave", !.tip = None,
                  !.work = IF Op(w) = "audit"
                             THEN [work EXCEPT !.chain = Append(@, [event |-> e, prev |-> con[w].tip])]
                             ELSE [work EXCEPT !.rows = @ \cup {e}]])
     /\ UNCHANGED <<disk, hot, reserved, record, view>>

(* A nested frame returns to the unit; the outermost one goes on to COMMIT.  *)
Leave(w) ==
  /\ con[w].pc = "leave"
  /\ Set(w, IF con[w].depth > 1
              THEN [con[w] EXCEPT !.depth = @ - 1, !.at = @ + 1, !.pc = "op"]
              ELSE [con[w] EXCEPT !.pc = "commit"])
  /\ UNCHANGED <<disk, hot, reserved, record, view>>

EndUnit(w) ==
  /\ con[w].pc = "op" /\ AtEnd(w)
  /\ Set(w, IF Whole(Kind(w)) THEN [con[w] EXCEPT !.pc = "commit"]
                              ELSE Rest(con[w]))
  /\ UNCHANGED <<disk, hot, reserved, record, view>>

-----------------------------------------------------------------------------
(* Failures: a query, a statement or a file write throws.                    *)

Throws(w) ==
  /\ \/ con[w].pc \in {"read", "write"}
     \/ con[w].pc = "op" /\ ~AtEnd(w) /\ Op(w) \in {"check", "record", "row"}
  /\ Set(w, IF con[w].depth = 0 THEN Rest(con[w]) ELSE [con[w] EXCEPT !.pc = "thrown"])
  /\ UNCHANGED <<disk, hot, reserved, record, view>>

(* The error leaves a frame: a nested one flags the unit and hands the error *)
(* to its caller, the outermost one rolls back.                              *)
Unwind(w) ==
  /\ con[w].pc = "thrown"
  /\ IF con[w].depth > 1
       THEN /\ Set(w, [con[w] EXCEPT !.depth = @ - 1, !.aborted = TRUE, !.pc = "caught"])
            /\ UNCHANGED reserved
       ELSE /\ \/ MayRetry(w) /\ Set(w, Again(w))
               \/ Set(w, Rest(con[w]))
            /\ reserved' = None
  /\ UNCHANGED <<disk, hot, record, view>>

(* A caller may swallow the error of a nested frame.                         *)
Caught(w) ==
  /\ con[w].pc = "caught"
  /\ \/ Set(w, [con[w] EXCEPT !.pc = "thrown"])
     \/ Set(w, [con[w] EXCEPT !.pc = "op", !.at = @ + 1])
  /\ UNCHANGED <<disk, hot, reserved, record, view>>

-----------------------------------------------------------------------------
(* The end of an outermost frame.                                            *)

Migrating(w) == con[w].units = <<>>

(* A unit that a nested failure aborted is rolled back and throws, with a    *)
(* message that is not retried.                                              *)
Abort(w) ==
  /\ con[w].pc = "commit" /\ con[w].aborted
  /\ reserved' = None
  /\ Set(w, Rest(con[w]))
  /\ UNCHANGED <<disk, hot, record, view>>

(* Not the code: a nested failure that was swallowed is forgotten. *)
CommitRegardless(w) ==
  /\ con[w].pc = "commit" /\ Shared = {}
  /\ Set(w, [con[w] EXCEPT !.pc = "commit_journal"])
  /\ UNCHANGED <<disk, hot, reserved, record, view>>

Commit(w) ==
  /\ con[w].pc = "commit" /\ ~con[w].aborted /\ Shared = {}
  /\ Set(w, [con[w] EXCEPT !.pc = "commit_journal"])
  /\ UNCHANGED <<disk, hot, reserved, record, view>>

(* A reader outlasts the busy timeout: ROLLBACK, and only a unit is retried. *)
CommitIsBusy(w) ==
  /\ con[w].pc = "commit" /\ ~con[w].aborted /\ Shared # {}
  /\ reserved' = None
  /\ Set(w, IF Migrating(w) THEN [con[w] EXCEPT !.pc = "failed"]
            ELSE IF MayRetry(w) THEN Again(w) ELSE Rest(con[w]))
  /\ UNCHANGED <<disk, hot, record, view>>

(* The journal is deleted: the commit stands.                                *)
Committed(w) ==
  LET c == con[w]
  IN /\ c.pc = "commit_journal"
     /\ disk' = c.work
     /\ reserved' = None
     /\ Set(w, IF Migrating(w)
                 THEN [c EXCEPT !.schema = @ + 1, !.work = Empty(0),
                                !.pc = IF c.schema + 1 < Supported THEN "migrate" ELSE "ready"]
               ELSE IF Whole(Kind(w))
                 THEN [Rest(c) EXCEPT !.done = IF c.refused THEN @ ELSE @ \cup {Unit(w)}]
               ELSE [Rest(c) EXCEPT !.pc = "op", !.at = @ + 1])
     /\ UNCHANGED <<hot, record, view>>

(* A kill: SQLite's locks go, the uncommitted work goes, and a commit under  *)
(* way leaves its journal.                                                   *)
Die(w) ==
  /\ con[w].pc \notin {"closed", "dead"}
  /\ Set(w, [Rest(con[w]) EXCEPT !.pc = "dead"])
  /\ hot' = (hot \/ con[w].pc = "commit_journal")
  /\ reserved' = IF reserved = w THEN None ELSE reserved
  /\ UNCHANGED <<disk, record, view>>

-----------------------------------------------------------------------------
(* A read-only connection: it refuses a missing migration, and cannot read   *)
(* over a hot journal; readSnapshot puts several queries in one transaction. *)

Show(r, v) == view' = [view EXCEPT ![r] = v]
Out == [pc |-> "out", rows |-> {}, chain |-> <<>>]

OpenReader(r) ==
  /\ view[r].pc = "out" /\ ~Exclusive /\ ~hot
  /\ disk.version = Supported
  /\ Show(r, [Out EXCEPT !.pc = "open"])
  /\ UNCHANGED <<disk, hot, reserved, record, con>>

ReadRows(r) ==
  /\ view[r].pc = "open" /\ ~Exclusive /\ ~hot
  /\ Show(r, [view[r] EXCEPT !.pc = "rows_read", !.rows = disk.rows])
  /\ UNCHANGED <<disk, hot, reserved, record, con>>

ReadChain(r) ==
  /\ view[r].pc = "rows_read" /\ ~Exclusive /\ ~hot
  /\ Show(r, [view[r] EXCEPT !.pc = "chain_read", !.chain = disk.chain])
  /\ UNCHANGED <<disk, hot, reserved, record, con>>

(* The snapshot's COMMIT, or state_unavailable: contention is not retried.   *)
CloseReader(r) ==
  /\ view[r].pc # "out"
  /\ Show(r, Out)
  /\ UNCHANGED <<disk, hot, reserved, record, con>>

-----------------------------------------------------------------------------
WriterStep(w) ==
  \/ Open(w) \/ Migrate(w) \/ MigrateFails(w)
  \/ StartUnit(w) \/ Begin(w) \/ BeginIsBusy(w)
  \/ Check(w) \/ WriteRecord(w) \/ Statement(w) \/ Enter(w) \/ Read(w) \/ Insert(w) \/ Leave(w) \/ EndUnit(w)
  \/ Throws(w) \/ Unwind(w) \/ Caught(w)
  \/ Abort(w) \/ Commit(w) \/ CommitIsBusy(w) \/ Committed(w)

ReaderStep(r) == OpenReader(r) \/ ReadRows(r) \/ ReadChain(r) \/ CloseReader(r)

Next ==
  \/ \E w \in Writers : WriterStep(w) \/ Die(w)
  \/ \E r \in Readers : ReaderStep(r)

Spec == Init /\ [][Next]_vars

-----------------------------------------------------------------------------
(* Every event of the committed chain was hashed over the one before it      *)
(* (verifyAuditChain), and none is in it twice, whoever appends and however  *)
(* often a unit is tried again.                                              *)
ChainIsUnbroken ==
  LET chain == disk.chain
  IN /\ \A i \in 1..Len(chain) : chain[i].prev = Last(SubSeq(chain, 1, i - 1))
     /\ \A i, j \in 1..Len(chain) : chain[i].event = chain[j].event => i = j

(* The effects a unit of kind k should have, and those it has had.           *)
Intended(k) == {i \in 1..Len(Ops(k)) : Ops(k)[i] \notin {"check", "record"}}
Had(w, n, rows, chain) ==
  LET effects == rows \cup {chain[i].event : i \in 1..Len(chain)}
  IN {e.op : e \in {x \in effects : x.by = w /\ x.unit = n}}

AllOrNothing(rows, chain) ==
  \A w \in Writers : \A n \in 1..Unit(w) :
    LET k == con[w].units[n]
    IN Whole(k) => Had(w, n, rows, chain) \in {{}, Intended(k)}

(* A unit that its caller wrapped is in the database wholly or not at all,   *)
(* and wholly once transaction has returned: through nested failures that    *)
(* somebody swallows, errors at any statement, contention, retries and kills.*)
UnitsAreAtomic ==
  /\ AllOrNothing(disk.rows, disk.chain)
  /\ \A w \in Writers : \A n \in con[w].done :
       Had(w, n, disk.rows, disk.chain) = Intended(con[w].units[n])

(* What one readSnapshot reads in several queries is one committed state, at *)
(* the schema the checkout supports: never the rows of a unit without its    *)
(* audit events, whatever commits in between.                                *)
SnapshotsAreWhole ==
  \A r \in Readers : view[r].pc = "chain_read" =>
    /\ AllOrNothing(view[r].rows, view[r].chain)
    /\ disk.version = Supported /\ disk.tables = 1..Supported

(* result.json is written inside a transaction that may be rolled back and   *)
(* run again; once a delivery stage is committed the file is the one that    *)
(* its own unit wrote.                                                       *)
DeliveryKeepsItsRecord ==
  \A e \in disk.rows : KindOf(e) = "finalize" => record = <<e.by, e.unit>>
=============================================================================
