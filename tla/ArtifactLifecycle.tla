--------------------------- MODULE ArtifactLifecycle ---------------------------
(***************************************************************************)
(* What a ticket leaves behind: rows of artifact_index and the bodies they *)
(* stand for, kept in a store that takes part in no transaction (a         *)
(* directory, or an object store).  A body comes with the result of a      *)
(* ticket or out of an upload session; it goes when an operator deletes    *)
(* the artifact or when the cleanup finds that it has lapsed.              *)
(*                                                                         *)
(* Every handler takes the database's write lock for its whole transaction *)
(* (BEGIN IMMEDIATE, repository.py:170), so a handler is one action and    *)
(* its crash another, in which the store has changed and the database has  *)
(* not.  The exception is the submission of a result: it checks the ticket *)
(* and writes the bodies before its transaction begins.                    *)
(***************************************************************************)
EXTENDS Naturals, FiniteSets

CONSTANTS
    Tickets,        \* tickets, all of them executing at first
    Refs,           \* artifact_ref: the primary key of the index
    Paths,          \* logical paths, normalized
    Forms,          \* what an artifact may be: its body, and whether it will lapse
    Sessions,       \* upload sessions
    MaxParts,       \* parts of an upload (bound)
    MaxItems,       \* artifacts of one result (bound)
    Local,          \* TRUE: LOCAL_FILE, the default; FALSE: OBJECT_STORE
    NoRow,          \* no row under that artifact_ref
    NoContent,      \* no body under that key, or not the body that was meant
    MaxCrashes      \* crashes (bound)

(* What retention makes of an artifact: some classes never lapse. *)
AllForms == [body : BOOLEAN, expiry : {"never", "later"}]

ASSUME ArtifactAssumption ==
    /\ MaxParts \in Nat \ {0}
    /\ Local \in BOOLEAN
    /\ Forms \subseteq AllForms
    /\ NoContent \notin Sessions \cup (Tickets \X Refs)
    /\ Sessions \cap (Tickets \X Refs) = {}

VARIABLES
    ticket,         \* is the ticket EXECUTING, and its node with it?
    upload,         \* the row of each session: its status, its parts, its artifact
    staged,         \* the files of each session: its parts and what they add up to
    row,            \* artifact_index
    store,          \* the bodies, by key
    writing,        \* the submission of each ticket that is under way
    cleaned,        \* was the last cleanup less than an interval ago?
    asked,          \* artifacts someone asked to delete
    spoiled,        \* what a ticket named again after it was there
    crashes

vars == <<ticket, upload, staged, row, store, writing, cleaned, asked, spoiled, crashes>>
uploads == <<upload, staged>>

--------------------------------------------------------------------------------

Contents == Sessions \cup (Tickets \X Refs)

(* Where a body is kept.  The directory keeps it under its logical path, the *)
(* object store under its workflow, ticket, artifact_ref and file name.      *)
(* Mutant: the ticket is left out of the key. *)
Key_ByRef(t, r, p) == IF Local THEN p ELSE <<r, p>>
Key(t, r, p) == IF Local THEN p ELSE <<t, r, p>>

Keys == {Key(t, r, p) : t \in Tickets, r \in Refs, p \in Paths}

Bodies == [Keys -> Contents \cup {NoContent}]

Rows == [ticket : Tickets, path : Paths, body : BOOLEAN,
         content : Contents \cup {NoContent},
         life : {"ACTIVE", "EXPIRED", "DELETED"},
         storage : {"PRESENT", "DELETE_FAILED", "DELETED"},
         expiry : {"never", "later", "passed"}]

ASSUME RowAssumption == NoRow \notin Rows

(* An artifact named by a result: with a body, or registered only. *)
Items == [ref : Refs, path : Paths, form : Forms]

(* No result names a ref or a path twice. *)
Results ==
    {is \in SUBSET Items :
        /\ Cardinality(is) \in 1 .. MaxItems
        /\ \A i, j \in is : i # j => i.ref # j.ref /\ i.path # j.path}

KeysOf(t, is) == {Key(t, i.ref, i.path) : i \in {j \in is : j.form.body}}

(* The body that ticket t writes under key k. *)
Written(t, is, k) ==
    LET i == CHOOSE j \in is : j.form.body /\ Key(t, j.ref, j.path) = k IN <<t, i.ref>>

Put(t, is) == [k \in Keys |-> IF k \in KeysOf(t, is) THEN Written(t, is, k) ELSE store[k]]

Without(ks) == [k \in Keys |-> IF k \in ks THEN NoContent ELSE store[k]]

Exists(r) == row[r] # NoRow

RowKey(r) == Key(row[r].ticket, r, row[r].path)

NewRow(t, p, form, content) ==
    [ticket |-> t, path |-> p, body |-> form.body, content |-> content, life |-> "ACTIVE",
     storage |-> IF form.body THEN "PRESENT" ELSE "DELETED", expiry |-> form.expiry]

(* A result without artifacts writes nothing, and is not followed here. *)
Idle == {}

(* The process dies: whatever was on its way to a transaction is gone. *)
Crash ==
    /\ crashes < MaxCrashes
    /\ crashes' = crashes + 1
    /\ writing' = [t \in Tickets |-> Idle]
    /\ UNCHANGED <<ticket, upload, row, cleaned>>

Executing(t) == ticket[t] = "EXECUTING"

NewUpload == [status |-> "INITIATED", parts |-> {}, by |-> NoRow]

Init ==
    /\ ticket = [t \in Tickets |-> "EXECUTING"]
    /\ upload = [s \in Sessions |-> NewUpload]
    /\ staged = [s \in Sessions |-> [parts |-> {}, payload |-> "none"]]
    /\ row = [r \in Refs |-> NoRow]
    /\ store = [k \in Keys |-> NoContent]
    /\ writing = [t \in Tickets |-> Idle]
    /\ cleaned = FALSE
    /\ asked = {}
    /\ spoiled = {}
    /\ crashes = 0

--------------------------------------------------------------------------------
(* Upload sessions. *)

Open(s) == upload[s].status \in {"INITIATED", "UPLOADING"}

(* The files of a session. *)
PartWritten(s, n) == [staged EXCEPT ![s].parts = @ \cup {n}]
Assembled(s, payload) == [staged EXCEPT ![s].payload = payload]
PathsDeleted(s, parts) == [staged EXCEPT ![s] = [parts |-> @.parts \ parts, payload |-> "none"]]

PartSaved(s, n) ==
  [upload EXCEPT ![s] = [status |-> "UPLOADING", parts |-> @.parts \cup {n}, by |-> @.by]]

(* A part is written first and its row after it. *)
UploadPart(s, n) ==
    /\ Open(s)
    /\ staged' = PartWritten(s, n)
    /\ \/ /\ upload' = PartSaved(s, n)
          /\ UNCHANGED <<ticket, row, writing, cleaned, crashes>>
       \/ Crash
    /\ UNCHANGED <<store, asked, spoiled>>

(* The parts are put together, in order and with none missing.  Parts that are *)
(* too large together, or a part that cannot be read, end the request with     *)
(* half a payload and the session as it was.                                   *)
CompleteUpload(s) ==
    /\ Open(s)
    /\ upload[s].parts # {}
    /\ upload[s].parts = 1 .. Cardinality(upload[s].parts)
    /\ \/ /\ staged' = Assembled(s, "half")
          /\ UNCHANGED <<ticket, upload, row, writing, cleaned, crashes>>
       \/ /\ upload[s].parts \subseteq staged[s].parts
          /\ staged' = Assembled(s, "whole")
          /\ \/ /\ upload' = [upload EXCEPT ![s].status = "COMPLETED"]
                /\ UNCHANGED <<ticket, row, writing, cleaned, crashes>>
             \/ Crash
    /\ UNCHANGED <<store, asked, spoiled>>

(* A session may be aborted at any time, and more than once; its files go, *)
(* and its row says so unless an artifact has been made of it.  The parts  *)
(* go first, then the payload, then the row is committed.                  *)
AbortUpload(s) ==
    /\ \/ /\ upload' = IF upload[s].status = "CONSUMED" THEN upload
                       ELSE [upload EXCEPT ![s].status = "ABORTED"]
          /\ staged' = PathsDeleted(s, upload[s].parts)
          /\ UNCHANGED <<ticket, row, writing, cleaned, crashes>>
       \/ /\ \/ \E left \in SUBSET staged[s].parts : staged' = [staged EXCEPT ![s].parts = left]
             \/ staged' = PathsDeleted(s, upload[s].parts)
          /\ Crash
    /\ UNCHANGED <<store, asked, spoiled>>

(* The payload of a completed session becomes an artifact of a ticket that *)
(* executes; the body is written before the transaction commits.           *)
(* Mutant: a session that was used already will do. *)
Available_Twice(s) == upload[s].status \in {"COMPLETED", "CONSUMED"}
Available(s) == upload[s].status = "COMPLETED"

Consumed(s, r) == [upload EXCEPT ![s] = [@ EXCEPT !.status = "CONSUMED", !.by = r]]

ImportUpload(t, r, p, s, form) ==
    LET whole == IF staged[s].payload = "whole" THEN s ELSE NoContent
    IN  /\ form.body
        /\ Executing(t)
        /\ ~Exists(r)
        /\ Available(s)
        /\ staged[s].payload # "none"
        /\ store' = [store EXCEPT ![Key(t, r, p)] = whole]
        /\ \/ /\ upload' = Consumed(s, r)
              /\ row' = [row EXCEPT ![r] = NewRow(t, p, form, whole)]
              /\ UNCHANGED <<ticket, writing, cleaned, crashes>>
           \/ Crash
        /\ UNCHANGED <<staged, asked, spoiled>>

--------------------------------------------------------------------------------
(* Results. *)

(* What a ticket that had its artifacts in the index overwrites of them. *)
Again(t, is) == {<<t, i.ref>> : i \in {j \in is : Exists(j.ref) /\ row[j.ref].ticket = t}}

(* The ticket is found executing, and the bodies are written one after the *)
(* other; nothing is locked.                                               *)
WriteBodies(t) ==
    /\ Executing(t)
    /\ writing[t] = Idle
    /\ \E is \in Results :
         /\ writing' = [writing EXCEPT ![t] = is]
         /\ store' = Put(t, is)
         /\ spoiled' = spoiled \cup Again(t, is)
    /\ UNCHANGED <<ticket, uploads, row, cleaned, asked, crashes>>

(* An artifact is found invalid after others were written, or cannot be   *)
(* written at all: those stay where they are.  The first fails the ticket, *)
(* the second leaves it executing.                                         *)
WriteFails(t) ==
    /\ Executing(t)
    /\ writing[t] = Idle
    /\ \E is \in Results : \E some \in SUBSET is :
         /\ some # is
         /\ store' = Put(t, some)
         /\ spoiled' = spoiled \cup Again(t, some)
    /\ \/ ticket' = [ticket EXCEPT ![t] = "ENDED"]
       \/ UNCHANGED ticket
    /\ UNCHANGED <<uploads, row, writing, cleaned, asked, crashes>>

Saved(t, is) ==
    LET of(r) == CHOOSE i \in is : i.ref = r
    IN  [r \in Refs |-> IF \E i \in is : i.ref = r
                       THEN NewRow(t, of(r).path, of(r).form, <<t, r>>)
                       ELSE row[r]]

(* The transaction: the rows, and the completion of the ticket. *)
AcceptResult(t) ==
    LET is == writing[t]
    IN  /\ is # Idle
        /\ Executing(t)
        /\ \A i \in is : ~Exists(i.ref)
        /\ row' = Saved(t, is)
        /\ ticket' = [ticket EXCEPT ![t] = "ENDED"]
        /\ writing' = [writing EXCEPT ![t] = Idle]
        /\ UNCHANGED <<uploads, store, cleaned, asked, spoiled, crashes>>

(* A ref that is taken fails the ticket; a ticket that has stopped raises. *)
(* Either way the transaction is undone and the bodies are deleted.        *)
RefuseResult(t) ==
    LET is == writing[t]
    IN  /\ is # Idle
        /\ ~Executing(t) \/ \E i \in is : Exists(i.ref)
        /\ ticket' = [ticket EXCEPT ![t] = "ENDED"]
        /\ store' = Without(KeysOf(t, is))
        /\ spoiled' = spoiled \cup Again(t, is)
        /\ writing' = [writing EXCEPT ![t] = Idle]
        /\ UNCHANGED <<uploads, row, cleaned, asked, crashes>>

(* The ticket is cancelled or times out. *)
Stop(t) ==
    /\ Executing(t)
    /\ ticket' = [ticket EXCEPT ![t] = "ENDED"]
    /\ UNCHANGED <<uploads, row, store, writing, cleaned, asked, spoiled, crashes>>

--------------------------------------------------------------------------------
(* The end of an artifact. *)

Marked(r, life, storage) == [row[r] EXCEPT !.life = life, !.storage = storage]

(* expires_at is in the past. *)
Lapse(r) ==
    /\ Exists(r)
    /\ row[r].expiry = "later"
    /\ row' = [row EXCEPT ![r].expiry = "passed"]
    /\ UNCHANGED <<ticket, uploads, store, writing, cleaned, asked, spoiled, crashes>>

(* The body first, then the row.  A body the store does not give up is noted *)
(* and the command refused.                                                  *)
Delete(r) ==
    /\ Exists(r)
    /\ row[r].life # "DELETED"
    /\ \/ /\ row' = [row EXCEPT ![r] = Marked(r, "DELETED", "DELETED")]
          /\ store' = IF row[r].body THEN Without({RowKey(r)}) ELSE store
          /\ asked' = asked \cup {r}
          /\ UNCHANGED <<ticket, upload, writing, cleaned, crashes>>
       \/ /\ row[r].body
          /\ row' = [row EXCEPT ![r] = Marked(r, @.life, "DELETE_FAILED")]
          /\ UNCHANGED <<ticket, upload, writing, cleaned, crashes>>
          /\ UNCHANGED <<store, asked>>
       \/ /\ row[r].body
          /\ store' = Without({RowKey(r)})
          /\ asked' = asked \cup {r}
          /\ Crash
    /\ UNCHANGED <<staged, spoiled>>

Lapsed(r) == row[r].life = "ACTIVE" /\ row[r].expiry = "passed"

(* Mutant: a body that could not be deleted is not tried again. *)
ToClean_Once ==
    {r \in Refs : Exists(r) /\ (Lapsed(r) \/ (row[r].life # "ACTIVE" /\ row[r].storage = "PRESENT"))}
ToClean ==
    {r \in Refs : Exists(r) /\ (Lapsed(r) \/ (row[r].life # "ACTIVE" /\ row[r].storage # "DELETED"))}

(* One pass over all of them; the bodies of those in failing stay. *)
Cleanup(failing) ==
    LET due == {r \in ToClean : row[r].storage # "DELETED"}
    IN  /\ failing \subseteq due
        /\ row' = [r \in Refs |->
                     IF r \notin ToClean THEN row[r]
                     ELSE Marked(r,
                                 IF row[r].life = "ACTIVE" THEN "EXPIRED" ELSE row[r].life,
                                 IF r \in failing THEN "DELETE_FAILED" ELSE "DELETED")]
        /\ store' = Without({RowKey(r) : r \in due \ failing})
        /\ cleaned' = TRUE
        /\ UNCHANGED <<ticket, uploads, writing, asked, spoiled, crashes>>

(* By hand, at any time. *)
ManualCleanup == \E failing \in SUBSET ToClean : Cleanup(failing)

(* By the scheduler, when there is something to do and the last one is an *)
(* interval ago, by hand or not.                                          *)
AutoCleanup(failing) == ~cleaned /\ ToClean # {} /\ Cleanup(failing)

CleanupCrashes ==
    /\ \E gone \in SUBSET {r \in ToClean : row[r].storage # "DELETED"} :
         store' = Without({RowKey(r) : r \in gone})
    /\ Crash
    /\ UNCHANGED <<staged, asked, spoiled>>

IntervalPasses ==
    /\ cleaned
    /\ cleaned' = FALSE
    /\ UNCHANGED <<ticket, uploads, row, store, writing, asked, spoiled, crashes>>

--------------------------------------------------------------------------------

Next ==
    \/ \E s \in Sessions :
         \/ \E n \in 1 .. MaxParts : UploadPart(s, n)
         \/ CompleteUpload(s)
         \/ AbortUpload(s)
         \/ \E t \in Tickets, r \in Refs, p \in Paths, form \in Forms :
              ImportUpload(t, r, p, s, form)
    \/ \E t \in Tickets :
         \/ WriteBodies(t)
         \/ WriteFails(t)
         \/ AcceptResult(t)
         \/ RefuseResult(t)
         \/ Stop(t)
    \/ \E r \in Refs : Lapse(r) \/ Delete(r)
    \/ ManualCleanup
    \/ \E failing \in SUBSET ToClean : AutoCleanup(failing)
    \/ CleanupCrashes
    \/ IntervalPasses

Spec == Init /\ [][Next]_vars

(* The runner goes round, time passes, and the store does not refuse for ever. *)
FairSpec ==
    /\ Spec
    /\ WF_vars(IntervalPasses)
    /\ SF_vars(AutoCleanup({}))

--------------------------------------------------------------------------------
(* The ranges of the variables: the statuses the rows and sessions take. *)
TypeOK ==
    /\ ticket \in [Tickets -> {"EXECUTING", "ENDED"}]
    /\ upload \in [Sessions ->
           [status : {"INITIATED", "UPLOADING", "COMPLETED", "CONSUMED", "ABORTED"},
            parts : SUBSET (1 .. MaxParts), by : Refs \cup {NoRow}]]
    /\ staged \in [Sessions ->
           [parts : SUBSET (1 .. MaxParts), payload : {"none", "half", "whole"}]]
    /\ row \in [Refs -> Rows \cup {NoRow}]
    /\ store \in Bodies
    /\ writing \in [Tickets -> SUBSET Items]
    /\ cleaned \in BOOLEAN
    /\ asked \subseteq Refs
    /\ spoiled \subseteq Tickets \X Refs
    /\ crashes \in Nat

(* An upload becomes one artifact, and all of it does: a session is CONSUMED *)
(* exactly when one row, the one it names, has its whole payload, whatever   *)
(* aborts, completions and imports of it cross and wherever one of them is   *)
(* interrupted (consume_artifact_upload_session, repository.py:2823).        *)
ConsumedOnce ==
    \A s \in Sessions :
        LET made == {r \in Refs : Exists(r) /\ row[r].content = s}
        IN  IF upload[s].status = "CONSUMED" THEN made = {upload[s].by} ELSE made = {}

Readable(r) == Exists(r) /\ row[r].body /\ row[r].life = "ACTIVE" /\ row[r].expiry # "passed"

(* An artifact that is shown as ACTIVE and MATERIALIZED can be read, and is  *)
(* what its ticket left: nothing but a request to delete it, or its own      *)
(* ticket naming it again, takes its body (is_artifact_readable,             *)
(* artifacts.py:255).                                                        *)
ReadableHasBody ==
    \A r \in Refs :
        Readable(r) /\ r \notin asked /\ <<row[r].ticket, r>> \notin spoiled
            => store[RowKey(r)] = row[r].content

(* What has lapsed or was deleted is cleared in the end, although the store *)
(* fails, the process crashes, and cleanups by hand put off the scheduler's *)
(* (maybe_run_artifact_cleanup, scheduler_runner.py:132).                   *)
CleanupCatchesUp ==
    \A r \in Refs :
        (Exists(r) /\ (row[r].life # "ACTIVE" \/ row[r].expiry = "passed"))
            ~> (Exists(r) /\ row[r].storage = "DELETED")
================================================================================
