------------------------ MODULE ArtifactLifecycle_proofs ------------------------
(***************************************************************************)
(* Proofs about ArtifactLifecycle, for every set of tickets, refs, paths   *)
(* and sessions, and every bound.                                          *)
(***************************************************************************)
EXTENDS ArtifactLifecycle, TLAPS

(* A session is COMPLETED only when all of it has been put together; an    *)
(* abort that did not get through may have deleted it since.               *)
CompletedIsWhole ==
  \A s \in Sessions : upload[s].status = "COMPLETED" => staged[s].payload \in {"whole", "none"}

UploadInv == TypeOK /\ CompletedIsWhole /\ ConsumedOnce

(* A result that is on its way names no ref twice.                         *)
RefsApart == \A t \in Tickets : \A i, j \in writing[t] : i.ref = j.ref => i = j

(* Its bodies are there, unless somebody else's row has taken the ref.     *)
BodiesWritten ==
  \A t \in Tickets : \A i \in writing[t] :
    i.form.body /\ ~Exists(i.ref) => store[Key(t, i.ref, i.path)] = <<t, i.ref>>

(* The inductive invariant.                                                *)
IInv == UploadInv /\ RefsApart /\ BodiesWritten /\ ReadableHasBody

-----------------------------------------------------------------------------
LEMMA KeyTyped ==
  ASSUME NEW t \in Tickets, NEW r \in Refs, NEW p \in Paths PROVE Key(t, r, p) \in Keys
BY DEF Keys

LEMMA ItemTyped ==
  ASSUME NEW i \in Items
  PROVE  i.ref \in Refs /\ i.path \in Paths /\ i.form \in Forms /\ i.form \in AllForms
         /\ i.form.body \in BOOLEAN /\ i.form.expiry \in {"never", "later"}
BY ArtifactAssumption DEF Items, AllForms

LEMMA RowTyped ==
  ASSUME NEW t \in Tickets, NEW p \in Paths, NEW form \in Forms, NEW c \in Contents \cup {NoContent}
  PROVE  NewRow(t, p, form, c) \in Rows
<1>1. form.body \in BOOLEAN /\ form.expiry \in {"never", "later"}
  BY ArtifactAssumption DEF AllForms
<1> QED BY <1>1 DEF NewRow, Rows

(* What a submission writes under a key is the body of one of its items.   *)
LEMMA WrittenIs ==
  ASSUME NEW t \in Tickets, NEW is \in SUBSET Items, NEW k \in KeysOf(t, is)
  PROVE  \E j \in is : j.form.body /\ Key(t, j.ref, j.path) = k /\ Written(t, is, k) = <<t, j.ref>>
<1>1. \E j \in is : j.form.body /\ Key(t, j.ref, j.path) = k
  BY DEF KeysOf
<1> DEFINE c == CHOOSE j \in is : j.form.body /\ Key(t, j.ref, j.path) = k
<1>2. c \in is /\ c.form.body /\ Key(t, c.ref, c.path) = k
  BY <1>1
<1>3. Written(t, is, k) = <<t, c.ref>>
  BY DEF Written
<1> QED BY <1>2, <1>3

LEMMA PutTyped ==
  ASSUME store \in Bodies, NEW t \in Tickets, NEW is \in SUBSET Items
  PROVE  Put(t, is) \in Bodies
<1>1. \A k \in KeysOf(t, is) : Written(t, is, k) \in Contents
  <2> SUFFICES ASSUME NEW k \in KeysOf(t, is) PROVE Written(t, is, k) \in Contents
    OBVIOUS
  <2>1. PICK j \in is : Written(t, is, k) = <<t, j.ref>>
    BY WrittenIs
  <2>2. j.ref \in Refs
    BY ItemTyped
  <2> QED BY <2>1, <2>2 DEF Contents
<1> QED BY <1>1 DEF Put, Bodies

LEMMA WithoutTyped == ASSUME store \in Bodies, NEW ks PROVE Without(ks) \in Bodies
BY DEF Without, Bodies

(* The row that a result leaves under a ref.                               *)
LEMMA SavedIs ==
  ASSUME NEW t \in Tickets, NEW is \in SUBSET Items, NEW r \in Refs
  PROVE  /\ (\A i \in is : i.ref # r) => Saved(t, is)[r] = row[r]
         /\ (\E i \in is : i.ref = r) =>
              \E i \in is : i.ref = r /\ Saved(t, is)[r] = NewRow(t, i.path, i.form, <<t, r>>)
<1> DEFINE of(q) == CHOOSE i \in is : i.ref = q
<1>1. Saved(t, is)[r] = IF \E i \in is : i.ref = r
                        THEN NewRow(t, of(r).path, of(r).form, <<t, r>>) ELSE row[r]
  BY DEF Saved
<1>2. (\E i \in is : i.ref = r) => of(r) \in is /\ of(r).ref = r
  OBVIOUS
<1> HIDE DEF of
<1> QED BY <1>1, <1>2

-----------------------------------------------------------------------------
(* Types, uploads. *)

LEMMA Initially == Init => IInv
<1> SUFFICES ASSUME Init PROVE UploadInv /\ RefsApart /\ BodiesWritten /\ ReadableHasBody
  BY DEF IInv
<1>1. TypeOK
  <2>1. {} \subseteq 1 .. MaxParts /\ {} \subseteq Items /\ {} \subseteq Tickets \X Refs
    OBVIOUS
  <2> QED BY <2>1 DEF Init, TypeOK, NewUpload, Bodies, Idle
<1>2. CompletedIsWhole /\ ConsumedOnce
  BY DEF Init, CompletedIsWhole, ConsumedOnce, NewUpload, Exists
<1>3. RefsApart /\ BodiesWritten /\ ReadableHasBody
  BY DEF Init, RefsApart, BodiesWritten, ReadableHasBody, Readable, Exists, Idle
<1> QED BY <1>1, <1>2, <1>3 DEF UploadInv

LEMMA CrashTyped ==
  ASSUME TypeOK, Crash
  PROVE  /\ ticket' \in [Tickets -> {"EXECUTING", "ENDED"}]
         /\ upload' \in [Sessions ->
                [status : {"INITIATED", "UPLOADING", "COMPLETED", "CONSUMED", "ABORTED"},
                 parts : SUBSET (1 .. MaxParts), by : Refs \cup {NoRow}]]
         /\ row' \in [Refs -> Rows \cup {NoRow}]
         /\ writing' \in [Tickets -> SUBSET Items]
         /\ cleaned' \in BOOLEAN
         /\ crashes' \in Nat
<1>1. UNCHANGED <<ticket, upload, row, cleaned>> /\ crashes' = crashes + 1
      /\ writing' = [t \in Tickets |-> {}]
  BY DEF Crash, Idle
<1> QED BY <1>1 DEF TypeOK

(* An upload's files and row, with nothing else but a crash.               *)
LEMMA UploadTyped ==
  ASSUME TypeOK, NEW s \in Sessions,
         \/ \E n \in 1 .. MaxParts : UploadPart(s, n)
         \/ CompleteUpload(s)
         \/ AbortUpload(s)
  PROVE  TypeOK'
<1> DEFINE U == [status : {"INITIATED", "UPLOADING", "COMPLETED", "CONSUMED", "ABORTED"},
                 parts : SUBSET (1 .. MaxParts), by : Refs \cup {NoRow}]
           F == [parts : SUBSET (1 .. MaxParts), payload : {"none", "half", "whole"}]
<1>1. /\ upload \in [Sessions -> U] /\ staged \in [Sessions -> F]
      /\ upload[s] \in U /\ staged[s] \in F
  BY DEF TypeOK
<1>2. UNCHANGED <<store, asked, spoiled>>
  BY DEF UploadPart, CompleteUpload, AbortUpload
<1>3. \/ Crash
      \/ UNCHANGED <<ticket, row, writing, cleaned, crashes>>
  BY DEF UploadPart, CompleteUpload, AbortUpload
<1>4. staged' \in [Sessions -> F]
  <2>1. ASSUME NEW n \in 1 .. MaxParts, UploadPart(s, n) PROVE staged' \in [Sessions -> F]
    <3>1. staged' = [staged EXCEPT ![s].parts = @ \cup {n}]
      BY <2>1 DEF UploadPart, PartWritten
    <3> QED BY <1>1, <3>1
  <2>2. ASSUME CompleteUpload(s) PROVE staged' \in [Sessions -> F]
    <3>1. PICK p \in {"half", "whole"} : staged' = [staged EXCEPT ![s].payload = p]
      BY <2>2 DEF CompleteUpload, Assembled
    <3> QED BY <1>1, <3>1
  <2>3. ASSUME AbortUpload(s) PROVE staged' \in [Sessions -> F]
    <3>1. CASE staged' = PathsDeleted(s, upload[s].parts)
      <4>1. [parts |-> staged[s].parts \ upload[s].parts, payload |-> "none"] \in F
        BY <1>1
      <4> QED BY <1>1, <3>1, <4>1 DEF PathsDeleted
    <3>2. CASE \E left \in SUBSET staged[s].parts : staged' = [staged EXCEPT ![s].parts = left]
      BY <1>1, <3>2
    <3> QED BY <2>3, <3>1, <3>2 DEF AbortUpload
  <2> QED BY <2>1, <2>2, <2>3
<1>5. upload' \in [Sessions -> U]
  <2>1. CASE upload' = upload
    BY <1>1, <2>1
  <2>2. ASSUME NEW n \in 1 .. MaxParts, upload' = PartSaved(s, n) PROVE upload' \in [Sessions -> U]
    <3>1. upload' = [upload EXCEPT ![s] = [status |-> "UPLOADING",
                    parts |-> upload[s].parts \cup {n}, by |-> upload[s].by]]
      BY <2>2 DEF PartSaved
    <3> QED BY <1>1, <3>1
  <2>3. CASE \E z \in {"COMPLETED", "ABORTED"} : upload' = [upload EXCEPT ![s].status = z]
    BY <1>1, <2>3, SMTT(30)
  <2> QED BY <2>1, <2>2, <2>3 DEF UploadPart, CompleteUpload, AbortUpload, Crash
<1>6. CASE Crash
  BY <1>2, <1>4, <1>5, <1>6, CrashTyped DEF TypeOK
<1>7. CASE UNCHANGED <<ticket, row, writing, cleaned, crashes>>
  BY <1>2, <1>4, <1>5, <1>7 DEF TypeOK
<1> QED BY <1>3, <1>6, <1>7

LEMMA ImportTyped ==
  ASSUME TypeOK, NEW t \in Tickets, NEW r \in Refs, NEW p \in Paths, NEW s \in Sessions,
         NEW form \in Forms, ImportUpload(t, r, p, s, form)
  PROVE  TypeOK'
<1>1. PICK c \in Contents \cup {NoContent} :
        /\ store' = [store EXCEPT ![Key(t, r, p)] = c]
        /\ \/ /\ upload' = Consumed(s, r)
              /\ row' = [row EXCEPT ![r] = NewRow(t, p, form, c)]
              /\ UNCHANGED <<ticket, writing, cleaned, crashes>>
           \/ Crash
        /\ UNCHANGED <<staged, asked, spoiled>>
  BY DEF ImportUpload, Contents
<1>2. store' \in Bodies
  BY <1>1 DEF TypeOK, Bodies
<1>3. CASE Crash
  BY <1>1, <1>2, <1>3, CrashTyped DEF TypeOK
<1>4. CASE /\ upload' = Consumed(s, r)
           /\ row' = [row EXCEPT ![r] = NewRow(t, p, form, c)]
           /\ UNCHANGED <<ticket, writing, cleaned, crashes>>
  <2>1. row' \in [Refs -> Rows \cup {NoRow}]
    BY <1>4, RowTyped DEF TypeOK
  <2>2. upload' \in [Sessions ->
                [status : {"INITIATED", "UPLOADING", "COMPLETED", "CONSUMED", "ABORTED"},
                 parts : SUBSET (1 .. MaxParts), by : Refs \cup {NoRow}]]
    <3>1. upload' = [upload EXCEPT ![s] = [upload[s] EXCEPT !.status = "CONSUMED", !.by = r]]
      BY <1>4 DEF Consumed, TypeOK
    <3>2. upload[s] \in [status : {"INITIATED", "UPLOADING", "COMPLETED", "CONSUMED", "ABORTED"},
                         parts : SUBSET (1 .. MaxParts), by : Refs \cup {NoRow}]
      BY DEF TypeOK
    <3>3. [upload[s] EXCEPT !.status = "CONSUMED", !.by = r] \in
             [status : {"INITIATED", "UPLOADING", "COMPLETED", "CONSUMED", "ABORTED"},
              parts : SUBSET (1 .. MaxParts), by : Refs \cup {NoRow}]
      BY <3>2
    <3> QED BY <3>1, <3>3 DEF TypeOK
  <2> QED BY <1>1, <1>2, <1>4, <2>1, <2>2 DEF TypeOK
<1> QED BY <1>1, <1>3, <1>4

LEMMA AgainTyped ==
  ASSUME NEW t \in Tickets, NEW is \in SUBSET Items PROVE Again(t, is) \subseteq Tickets \X Refs
BY ItemTyped DEF Again

LEMMA ResultTyped ==
  ASSUME TypeOK, NEW t \in Tickets,
         WriteBodies(t) \/ WriteFails(t) \/ AcceptResult(t) \/ RefuseResult(t) \/ Stop(t)
  PROVE  TypeOK'
<1> USE DEF TypeOK
<1>1. CASE WriteBodies(t)
  <2>1. PICK is \in Results : /\ writing' = [writing EXCEPT ![t] = is]
                              /\ store' = Put(t, is) /\ spoiled' = spoiled \cup Again(t, is)
    BY <1>1 DEF WriteBodies
  <2>2. is \in SUBSET Items
    BY DEF Results
  <2>3. store' \in Bodies /\ spoiled' \subseteq Tickets \X Refs
    BY <2>1, <2>2, PutTyped, AgainTyped
  <2>4. UNCHANGED <<ticket, upload, staged, row, cleaned, asked, crashes>>
    BY <1>1 DEF WriteBodies, uploads
  <2> QED BY <2>1, <2>2, <2>3, <2>4
<1>2. CASE WriteFails(t)
  <2> PICK is \in Results : \E some \in SUBSET is :
          /\ some # is /\ store' = Put(t, some) /\ spoiled' = spoiled \cup Again(t, some)
    BY <1>2 DEF WriteFails
  <2>1. PICK some \in SUBSET is : store' = Put(t, some) /\ spoiled' = spoiled \cup Again(t, some)
    OBVIOUS
  <2>2. some \in SUBSET Items
    BY DEF Results
  <2>3. store' \in Bodies /\ spoiled' \subseteq Tickets \X Refs
    BY <2>1, <2>2, PutTyped, AgainTyped
  <2>4. UNCHANGED <<upload, staged, row, writing, cleaned, asked, crashes>>
    BY <1>2 DEF WriteFails, uploads
  <2>5. ticket' \in [Tickets -> {"EXECUTING", "ENDED"}]
    BY <1>2 DEF WriteFails
  <2> QED BY <2>3, <2>4, <2>5
<1>3. CASE AcceptResult(t)
  <2>1. /\ row' = Saved(t, writing[t]) /\ ticket' = [ticket EXCEPT ![t] = "ENDED"]
        /\ writing' = [writing EXCEPT ![t] = {}]
        /\ UNCHANGED <<upload, staged, store, cleaned, asked, spoiled, crashes>>
    BY <1>3 DEF AcceptResult, Idle, uploads
  <2>2. row' \in [Refs -> Rows \cup {NoRow}]
    <3>1. writing[t] \in SUBSET Items
      OBVIOUS
    <3>2. \A r \in Refs : Saved(t, writing[t])[r] \in Rows \cup {NoRow}
      <4> SUFFICES ASSUME NEW r \in Refs PROVE Saved(t, writing[t])[r] \in Rows \cup {NoRow}
        OBVIOUS
      <4>1. CASE \A i \in writing[t] : i.ref # r
        <5>1. Saved(t, writing[t])[r] = row[r]
          BY <3>1, <4>1, SavedIs, Zenon
        <5> QED BY <5>1
      <4>2. CASE \E i \in writing[t] : i.ref = r
        <5>1. PICK i \in writing[t] : Saved(t, writing[t])[r] = NewRow(t, i.path, i.form, <<t, r>>)
          BY <3>1, <4>2, SavedIs
        <5>2. i \in Items /\ <<t, r>> \in Contents
          BY <3>1 DEF Contents
        <5>3. i.path \in Paths /\ i.form \in Forms
          BY <5>2, ItemTyped
        <5> QED BY <5>1, <5>2, <5>3, RowTyped
      <4> QED BY <4>1, <4>2
    <3>3. DOMAIN Saved(t, writing[t]) = Refs
      BY DEF Saved
    <3>4. Saved(t, writing[t]) = [r \in Refs |-> Saved(t, writing[t])[r]]
      BY DEF Saved
    <3> QED BY <2>1, <3>2, <3>4
  <2> QED BY <2>1, <2>2
<1>4. CASE RefuseResult(t)
  <2>1. /\ ticket' = [ticket EXCEPT ![t] = "ENDED"]
        /\ store' = Without(KeysOf(t, writing[t])) /\ spoiled' = spoiled \cup Again(t, writing[t])
        /\ writing' = [writing EXCEPT ![t] = {}]
        /\ UNCHANGED <<upload, staged, row, cleaned, asked, crashes>>
    BY <1>4 DEF RefuseResult, Idle, uploads
  <2>2. store' \in Bodies /\ spoiled' \subseteq Tickets \X Refs
    BY <2>1, WithoutTyped, AgainTyped
  <2> QED BY <2>1, <2>2
<1>5. CASE Stop(t)
  BY <1>5 DEF Stop, uploads
<1> QED BY <1>1, <1>2, <1>3, <1>4, <1>5

LEMMA MarkTyped ==
  ASSUME TypeOK, NEW r \in Refs, Exists(r), NEW life \in {"ACTIVE", "EXPIRED", "DELETED"},
         NEW storage \in {"PRESENT", "DELETE_FAILED", "DELETED"}
  PROVE  /\ Marked(r, life, storage) \in Rows
         /\ Marked(r, life, storage).content = row[r].content
         /\ Marked(r, life, storage).life = life
BY DEF TypeOK, Exists, Marked, Rows

LEMMA EndTyped ==
  ASSUME TypeOK,
         \/ \E r \in Refs : Lapse(r) \/ Delete(r)
         \/ \E failing \in SUBSET ToClean : Cleanup(failing)
         \/ CleanupCrashes
         \/ IntervalPasses
  PROVE  TypeOK'
<1>1. ASSUME NEW r \in Refs, Lapse(r) PROVE TypeOK'
  <2>1. /\ row[r] \in Rows /\ row' = [row EXCEPT ![r].expiry = "passed"]
        /\ UNCHANGED <<ticket, upload, staged, store, writing, cleaned, asked, spoiled, crashes>>
    BY <1>1 DEF Lapse, TypeOK, Exists, uploads
  <2>2. row' \in [Refs -> Rows \cup {NoRow}]
    BY <2>1 DEF TypeOK, Rows
  <2> QED BY <2>1, <2>2 DEF TypeOK
<1>2. ASSUME NEW r \in Refs, Delete(r) PROVE TypeOK'
  <2>1. /\ Exists(r) /\ row[r] \in Rows /\ UNCHANGED <<staged, spoiled>>
        /\ store' = store \/ store' = Without({RowKey(r)})
        /\ asked' = asked \/ asked' = asked \cup {r}
    BY <1>2 DEF Delete, TypeOK, Exists
  <2>2. store' \in Bodies /\ asked' \subseteq Refs
    BY <2>1, WithoutTyped DEF TypeOK
  <2>3. CASE Crash
    BY <2>1, <2>2, <2>3, CrashTyped DEF TypeOK
  <2>4. CASE /\ \/ row' = [row EXCEPT ![r] = Marked(r, "DELETED", "DELETED")]
                \/ row' = [row EXCEPT ![r] = Marked(r, @.life, "DELETE_FAILED")]
             /\ UNCHANGED <<ticket, upload, writing, cleaned, crashes>>
    <3>1. row[r].life \in {"ACTIVE", "EXPIRED", "DELETED"}
      BY <2>1 DEF Rows
    <3>2. Marked(r, "DELETED", "DELETED") \in Rows /\ Marked(r, row[r].life, "DELETE_FAILED") \in Rows
      BY <2>1, <3>1, MarkTyped
    <3>3. row' \in [Refs -> Rows \cup {NoRow}]
      BY <2>4, <3>2 DEF TypeOK
    <3> QED BY <2>1, <2>2, <2>4, <3>3 DEF TypeOK
  <2> QED BY <1>2, <2>3, <2>4 DEF Delete
<1>3. ASSUME NEW failing \in SUBSET ToClean, Cleanup(failing) PROVE TypeOK'
  <2> DEFINE new(r) == Marked(r, IF row[r].life = "ACTIVE" THEN "EXPIRED" ELSE row[r].life,
                              IF r \in failing THEN "DELETE_FAILED" ELSE "DELETED")
  <2>1. row' = [r \in Refs |-> IF r \notin ToClean THEN row[r] ELSE new(r)]
    BY <1>3 DEF Cleanup
  <2>2. \A r \in ToClean : new(r) \in Rows
    <3> SUFFICES ASSUME NEW r \in ToClean PROVE new(r) \in Rows
      OBVIOUS
    <3>1. r \in Refs /\ Exists(r) /\ row[r].life \in {"ACTIVE", "EXPIRED", "DELETED"}
      BY DEF ToClean, TypeOK, Exists, Rows
    <3> QED BY <3>1, MarkTyped
  <2> HIDE DEF new
  <2>3. row' \in [Refs -> Rows \cup {NoRow}]
    BY <2>1, <2>2 DEF TypeOK
  <2>4. /\ store' \in Bodies /\ cleaned' = TRUE
        /\ UNCHANGED <<ticket, upload, staged, writing, asked, spoiled, crashes>>
    BY <1>3, WithoutTyped DEF Cleanup, TypeOK, uploads
  <2> QED BY <2>3, <2>4 DEF TypeOK
<1>4. CASE CleanupCrashes
  <2>1. store' \in Bodies /\ Crash /\ UNCHANGED <<staged, asked, spoiled>>
    BY <1>4, WithoutTyped DEF CleanupCrashes, TypeOK
  <2> QED BY <2>1, CrashTyped DEF TypeOK
<1>5. CASE IntervalPasses
  BY <1>5 DEF IntervalPasses, TypeOK, uploads
<1> QED BY <1>1, <1>2, <1>3, <1>4, <1>5

-----------------------------------------------------------------------------
(* Uploads. *)

(* A session that keeps its row, or ends without an artifact, and an index *)
(* that keeps its contents, change nothing of what was made of uploads.    *)
LEMMA ConsumedStay ==
  ASSUME ConsumedOnce,
         \A r \in Refs : /\ Exists(r) => Exists(r)' /\ row'[r].content = row[r].content
                         /\ ~Exists(r) => \/ ~Exists(r)'
                                          \/ row'[r].content \notin Sessions,
         \A s \in Sessions :
           \/ upload'[s].status = upload[s].status /\ upload'[s].by = upload[s].by
           \/ upload[s].status # "CONSUMED" /\ upload'[s].status # "CONSUMED"
  PROVE  ConsumedOnce'
<1> SUFFICES ASSUME NEW s \in Sessions
             PROVE  LET made == {r \in Refs : Exists(r)' /\ row'[r].content = s}
                    IN  IF upload'[s].status = "CONSUMED" THEN made = {upload'[s].by} ELSE made = {}
  BY DEF ConsumedOnce
<1> DEFINE made == {r \in Refs : Exists(r) /\ row[r].content = s}
           made2 == {r \in Refs : Exists(r)' /\ row'[r].content = s}
<1>1. made2 = made
  OBVIOUS
<1>2. IF upload[s].status = "CONSUMED" THEN made = {upload[s].by} ELSE made = {}
  BY DEF ConsumedOnce
<1> HIDE DEF made, made2
<1>3. IF upload'[s].status = "CONSUMED" THEN made2 = {upload'[s].by} ELSE made2 = {}
  BY <1>1, <1>2
<1> QED BY <1>3 DEF made2

LEMMA UploadStep ==
  ASSUME UploadInv, NEW s \in Sessions,
         \/ \E n \in 1 .. MaxParts : UploadPart(s, n)
         \/ CompleteUpload(s)
         \/ AbortUpload(s)
  PROVE  UploadInv'
<1> DEFINE U == [status : {"INITIATED", "UPLOADING", "COMPLETED", "CONSUMED", "ABORTED"},
                 parts : SUBSET (1 .. MaxParts), by : Refs \cup {NoRow}]
           F == [parts : SUBSET (1 .. MaxParts), payload : {"none", "half", "whole"}]
<1>1. /\ upload \in [Sessions -> U] /\ staged \in [Sessions -> F]
      /\ TypeOK /\ CompletedIsWhole /\ ConsumedOnce
  BY DEF UploadInv, TypeOK
<1>2. TypeOK'
  BY <1>1, UploadTyped
<1>3. UNCHANGED row
  BY DEF UploadPart, CompleteUpload, AbortUpload, Crash
<1>4. /\ \A k \in Sessions : k # s => upload'[k] = upload[k] /\ staged'[k] = staged[k]
      /\ \/ upload'[s].status = upload[s].status /\ upload'[s].by = upload[s].by
         \/ upload[s].status # "CONSUMED" /\ upload'[s].status # "CONSUMED"
      /\ upload'[s].status = "COMPLETED" => staged'[s].payload \in {"whole", "none"}
  <2>1. ASSUME NEW n \in 1 .. MaxParts, UploadPart(s, n) PROVE <1>4!:
    <3>1. /\ upload[s].status \in {"INITIATED", "UPLOADING"}
          /\ staged' = [staged EXCEPT ![s].parts = @ \cup {n}]
          /\ \/ upload' = [upload EXCEPT ![s] = [status |-> "UPLOADING",
                    parts |-> upload[s].parts \cup {n}, by |-> upload[s].by]]
             \/ upload' = upload
      BY <2>1 DEF UploadPart, PartWritten, PartSaved, Open, Crash
    <3> QED BY <1>1, <3>1
  <2>2. CASE CompleteUpload(s)
    <3>1. /\ upload[s].status \in {"INITIATED", "UPLOADING"}
          /\ \/ staged' = [staged EXCEPT ![s].payload = "half"] /\ upload' = upload
             \/ /\ staged' = [staged EXCEPT ![s].payload = "whole"]
                /\ upload' = [upload EXCEPT ![s].status = "COMPLETED"] \/ upload' = upload
      BY <2>2 DEF CompleteUpload, Assembled, Open, Crash
    <3> QED BY <1>1, <3>1
  <2>3. CASE AbortUpload(s)
    <3>1. \/ /\ upload' = IF upload[s].status = "CONSUMED" THEN upload
                          ELSE [upload EXCEPT ![s].status = "ABORTED"]
             /\ staged' = PathsDeleted(s, upload[s].parts)
          \/ /\ upload' = upload
             /\ \/ \E left \in SUBSET staged[s].parts : staged' = [staged EXCEPT ![s].parts = left]
                \/ staged' = PathsDeleted(s, upload[s].parts)
      BY <2>3 DEF AbortUpload, Crash
    <3>2. CASE /\ upload' = IF upload[s].status = "CONSUMED" THEN upload
                            ELSE [upload EXCEPT ![s].status = "ABORTED"]
               /\ staged' = PathsDeleted(s, upload[s].parts)
      <4>1. \A k \in Sessions : k # s => upload'[k] = upload[k] /\ staged'[k] = staged[k]
        BY <1>1, <3>2 DEF PathsDeleted
      <4>2. \/ upload'[s] = upload[s] /\ upload[s].status = "CONSUMED"
            \/ upload[s].status # "CONSUMED" /\ upload'[s].status = "ABORTED"
        BY <1>1, <3>2
      <4> QED BY <4>1, <4>2
    <3>3. CASE /\ upload' = upload
               /\ \E left \in SUBSET staged[s].parts : staged' = [staged EXCEPT ![s].parts = left]
      <4>1. PICK left : staged' = [staged EXCEPT ![s].parts = left]
        BY <3>3
      <4>2. staged'[s].payload = staged[s].payload
            /\ \A k \in Sessions : k # s => staged'[k] = staged[k]
        BY <1>1, <4>1
      <4> QED BY <1>1, <3>3, <4>2 DEF CompletedIsWhole
    <3>4. CASE upload' = upload /\ staged' = PathsDeleted(s, upload[s].parts)
      <4>1. staged'[s].payload = "none" /\ \A k \in Sessions : k # s => staged'[k] = staged[k]
        BY <1>1, <3>4 DEF PathsDeleted
      <4> QED BY <3>4, <4>1
    <3> QED BY <3>1, <3>2, <3>3, <3>4
  <2> QED BY <2>1, <2>2, <2>3
<1>5. CompletedIsWhole'
  BY <1>1, <1>4 DEF CompletedIsWhole
<1>6. ConsumedOnce'
  <2>1. \A r \in Refs : /\ Exists(r) => Exists(r)' /\ row'[r].content = row[r].content
                        /\ ~Exists(r) => ~Exists(r)'
    BY <1>3 DEF Exists
  <2>2. \A k \in Sessions :
           \/ upload'[k].status = upload[k].status /\ upload'[k].by = upload[k].by
           \/ upload[k].status # "CONSUMED" /\ upload'[k].status # "CONSUMED"
    BY <1>4
  <2> QED BY <1>1, <2>1, <2>2, ConsumedStay
<1> QED BY <1>2, <1>5, <1>6 DEF UploadInv

LEMMA ImportStep ==
  ASSUME UploadInv, NEW t \in Tickets, NEW r \in Refs, NEW p \in Paths, NEW s \in Sessions,
         NEW form \in Forms, ImportUpload(t, r, p, s, form)
  PROVE  UploadInv'
<1>1. TypeOK' /\ TypeOK /\ CompletedIsWhole /\ ConsumedOnce
  BY ImportTyped DEF UploadInv
<1>2. staged' = staged /\ upload[s].status = "COMPLETED" /\ staged[s].payload = "whole" /\ ~Exists(r)
  BY <1>1 DEF ImportUpload, Available, CompletedIsWhole
<1>3. CASE UNCHANGED <<upload, row>>
  BY <1>1, <1>2, <1>3 DEF UploadInv, CompletedIsWhole, ConsumedOnce, Exists
<1>4. CASE upload' = Consumed(s, r) /\ row' = [row EXCEPT ![r] = NewRow(t, p, form, s)]
  <2> DEFINE n == NewRow(t, p, form, s)
  <2>1. n \in Rows /\ n # NoRow /\ n.content = s
    <3>1. s \in Contents
      BY DEF Contents
    <3>2. n \in Rows /\ n.content = s
      BY <3>1, RowTyped DEF NewRow
    <3> QED BY <3>2, RowAssumption
  <2> HIDE DEF n
  <2>2. row'[r] = n /\ \A q \in Refs : q # r => row'[q] = row[q]
    BY <1>1, <1>4 DEF TypeOK, n
  <2>3. /\ upload'[s].status = "CONSUMED" /\ upload'[s].by = r
        /\ \A k \in Sessions : k # s => upload'[k] = upload[k]
    <3>1. upload' = [upload EXCEPT ![s] = [upload[s] EXCEPT !.status = "CONSUMED", !.by = r]]
      BY <1>4 DEF Consumed
    <3> QED BY <1>1, <3>1 DEF TypeOK
  <2>4. CompletedIsWhole'
    BY <1>1, <1>2, <2>3 DEF CompletedIsWhole
  <2>5. ConsumedOnce'
    <3> SUFFICES ASSUME NEW k \in Sessions
                 PROVE  LET made == {q \in Refs : Exists(q)' /\ row'[q].content = k}
                        IN  IF upload'[k].status = "CONSUMED" THEN made = {upload'[k].by} ELSE made = {}
      BY DEF ConsumedOnce
    <3>1. CASE k = s
      <4>1. \A q \in Refs : ~(Exists(q) /\ row[q].content = s)
        BY <1>1, <1>2 DEF ConsumedOnce
      <4> QED BY <2>1, <2>2, <2>3, <3>1, <4>1 DEF Exists
    <3>2. CASE k # s
      <4>1. \A q \in Refs : (Exists(q)' /\ row'[q].content = k) <=> (Exists(q) /\ row[q].content = k)
        BY <1>2, <2>1, <2>2, <3>2 DEF Exists
      <4>2. {q \in Refs : Exists(q)' /\ row'[q].content = k} = {q \in Refs : Exists(q) /\ row[q].content = k}
        BY <4>1
      <4>3. upload'[k] = upload[k]
        BY <2>3, <3>2
      <4>4. LET made == {q \in Refs : Exists(q) /\ row[q].content = k}
            IN  IF upload[k].status = "CONSUMED" THEN made = {upload[k].by} ELSE made = {}
        BY <1>1 DEF ConsumedOnce
      <4> QED BY <4>2, <4>3, <4>4
    <3> QED BY <3>1, <3>2
  <2> QED BY <1>1, <2>4, <2>5 DEF UploadInv
<1> QED BY <1>2, <1>3, <1>4 DEF ImportUpload, Crash

(* Of the others only a result makes rows, and none of an upload.          *)
LEMMA ResultStep ==
  ASSUME UploadInv, NEW t \in Tickets,
         WriteBodies(t) \/ WriteFails(t) \/ AcceptResult(t) \/ RefuseResult(t) \/ Stop(t)
  PROVE  UploadInv'
<1>1. TypeOK' /\ TypeOK /\ CompletedIsWhole /\ ConsumedOnce
  BY ResultTyped DEF UploadInv
<1>2. UNCHANGED <<upload, staged>>
  BY DEF WriteBodies, WriteFails, AcceptResult, RefuseResult, Stop, uploads
<1>3. CompletedIsWhole'
  BY <1>1, <1>2 DEF CompletedIsWhole
<1>4. CASE UNCHANGED row
  BY <1>1, <1>2, <1>3, <1>4 DEF UploadInv, ConsumedOnce, Exists
<1>5. CASE AcceptResult(t)
  <2>1. writing[t] \in SUBSET Items /\ row' = Saved(t, writing[t])
        /\ \A i \in writing[t] : ~Exists(i.ref)
    BY <1>1, <1>5 DEF AcceptResult, TypeOK
  <2>2. \A r \in Refs : /\ Exists(r) => Exists(r)' /\ row'[r].content = row[r].content
                        /\ ~Exists(r) => \/ ~Exists(r)'
                                         \/ row'[r].content \notin Sessions
    <3> SUFFICES ASSUME NEW r \in Refs
                 PROVE  /\ Exists(r) => Exists(r)' /\ row'[r].content = row[r].content
                        /\ ~Exists(r) => \/ ~Exists(r)'
                                         \/ row'[r].content \notin Sessions
      OBVIOUS
    <3>1. CASE \A i \in writing[t] : i.ref # r
      <4>1. row'[r] = row[r]
        BY <2>1, <3>1, SavedIs, Zenon
      <4> QED BY <4>1 DEF Exists
    <3>2. CASE \E i \in writing[t] : i.ref = r
      <4>1. PICK i \in writing[t] : row'[r] = NewRow(t, i.path, i.form, <<t, r>>)
        BY <2>1, <3>2, SavedIs
      <4>2. row'[r].content = <<t, r>> /\ ~Exists(r)
        BY <2>1, <3>2, <4>1 DEF NewRow
      <4>3. <<t, r>> \notin Sessions
        BY ArtifactAssumption
      <4> QED BY <4>2, <4>3
    <3> QED BY <3>1, <3>2
  <2> QED BY <1>1, <1>2, <1>3, <2>2, ConsumedStay DEF UploadInv
<1> QED BY <1>4, <1>5 DEF WriteBodies, WriteFails, RefuseResult, Stop

LEMMA EndStep ==
  ASSUME UploadInv,
         \/ \E r \in Refs : Lapse(r) \/ Delete(r)
         \/ \E failing \in SUBSET ToClean : Cleanup(failing)
         \/ CleanupCrashes
         \/ IntervalPasses
  PROVE  UploadInv'
<1>1. TypeOK' /\ TypeOK /\ CompletedIsWhole /\ ConsumedOnce
  BY EndTyped DEF UploadInv
<1>2. UNCHANGED <<upload, staged>>
  BY DEF Lapse, Delete, Cleanup, CleanupCrashes, IntervalPasses, uploads, Crash
<1>3. CompletedIsWhole'
  BY <1>1, <1>2 DEF CompletedIsWhole
<1>4. \A q \in Refs : /\ Exists(q) => row'[q] # NoRow /\ row'[q].content = row[q].content
                      /\ ~Exists(q) => row'[q] = NoRow
  <2>1. CASE UNCHANGED row
    BY <2>1 DEF Exists
  <2>2. ASSUME NEW r \in Refs, Lapse(r) PROVE <1>4!:
    <3>1. row[r] \in Rows /\ Exists(r) /\ row' = [row EXCEPT ![r] = [row[r] EXCEPT !.expiry = "passed"]]
      BY <1>1, <2>2 DEF Lapse, TypeOK, Exists
    <3>2. [row[r] EXCEPT !.expiry = "passed"] \in Rows
          /\ [row[r] EXCEPT !.expiry = "passed"].content = row[r].content
      BY <3>1 DEF Rows
    <3> QED BY <1>1, <3>1, <3>2, RowAssumption DEF TypeOK, Exists
  <2>3. ASSUME NEW r \in Refs, NEW life \in {"ACTIVE", "EXPIRED", "DELETED"},
               NEW storage \in {"PRESENT", "DELETE_FAILED", "DELETED"}, Exists(r),
               row' = [row EXCEPT ![r] = Marked(r, life, storage)]
        PROVE  <1>4!:
    <3>1. Marked(r, life, storage) \in Rows /\ Marked(r, life, storage).content = row[r].content
      BY <1>1, <2>3, MarkTyped
    <3> QED BY <1>1, <2>3, <3>1, RowAssumption DEF TypeOK, Exists
  <2>4. ASSUME NEW r \in Refs, Delete(r), row' # row PROVE <1>4!:
    <3>1. Exists(r) /\ row[r].life \in {"ACTIVE", "EXPIRED", "DELETED"}
      BY <1>1, <2>4 DEF Delete, Exists, TypeOK, Rows
    <3>2. \/ row' = [row EXCEPT ![r] = Marked(r, "DELETED", "DELETED")]
          \/ row' = [row EXCEPT ![r] = Marked(r, row[r].life, "DELETE_FAILED")]
      BY <1>1, <2>4 DEF Delete, Crash, TypeOK
    <3> QED BY <2>3, <3>1, <3>2
  <2>5. ASSUME NEW failing \in SUBSET ToClean, Cleanup(failing) PROVE <1>4!:
    <3> SUFFICES ASSUME NEW q \in Refs
                 PROVE  /\ Exists(q) => row'[q] # NoRow /\ row'[q].content = row[q].content
                        /\ ~Exists(q) => row'[q] = NoRow
      OBVIOUS
    <3>1. CASE q \notin ToClean
      BY <2>5, <3>1 DEF Cleanup, Exists
    <3>2. CASE q \in ToClean
      <4>1. Exists(q) /\ row[q].life \in {"ACTIVE", "EXPIRED", "DELETED"}
        BY <1>1, <3>2 DEF ToClean, Exists, TypeOK, Rows
      <4>2. \E life \in {"ACTIVE", "EXPIRED", "DELETED"} : \E storage \in {"DELETE_FAILED", "DELETED"} :
              row'[q] = Marked(q, life, storage)
        BY <2>5, <3>2, <4>1 DEF Cleanup
      <4>3. PICK life \in {"ACTIVE", "EXPIRED", "DELETED"}, storage \in {"DELETE_FAILED", "DELETED"} :
              row'[q] = Marked(q, life, storage)
        BY <4>2
      <4>4. Marked(q, life, storage) \in Rows /\ Marked(q, life, storage).content = row[q].content
        BY <1>1, <4>1, MarkTyped
      <4> QED BY <4>1, <4>3, <4>4, RowAssumption
    <3> QED BY <3>1, <3>2
  <2>6. CleanupCrashes \/ IntervalPasses => UNCHANGED row
    BY DEF CleanupCrashes, IntervalPasses, Crash
  <2> QED BY <2>1, <2>2, <2>4, <2>5, <2>6
<1>5. ConsumedOnce'
  BY <1>1, <1>2, <1>4, ConsumedStay DEF Exists
<1> QED BY <1>1, <1>3, <1>5 DEF UploadInv

(* What the store does not matter for: the steps of Next.                  *)
LEMMA UploadInductive == ASSUME UploadInv, [Next]_vars PROVE UploadInv'
<1>1. ASSUME NEW s \in Sessions,
             \/ \E n \in 1 .. MaxParts : UploadPart(s, n)
             \/ CompleteUpload(s)
             \/ AbortUpload(s)
             \/ \E t \in Tickets, r \in Refs, p \in Paths, form \in Forms :
                  ImportUpload(t, r, p, s, form)
      PROVE  UploadInv'
  BY <1>1, UploadStep, ImportStep
<1>2. ASSUME NEW t \in Tickets,
             WriteBodies(t) \/ WriteFails(t) \/ AcceptResult(t) \/ RefuseResult(t) \/ Stop(t)
      PROVE  UploadInv'
  BY <1>2, ResultStep
<1>3. CASE \/ \E r \in Refs : Lapse(r) \/ Delete(r)
           \/ ManualCleanup
           \/ \E failing \in SUBSET ToClean : AutoCleanup(failing)
           \/ CleanupCrashes
           \/ IntervalPasses
  BY <1>3, EndStep DEF ManualCleanup, AutoCleanup
<1>4. CASE UNCHANGED vars
  BY <1>4 DEF vars, uploads, UploadInv, TypeOK, CompletedIsWhole, ConsumedOnce, Exists
<1> QED BY <1>1, <1>2, <1>3, <1>4 DEF Next

-----------------------------------------------------------------------------
(* Bodies, in a store that keeps them apart. *)

LEMMA KeysApart ==
  ASSUME ~Local, NEW t, NEW r, NEW p, NEW t2, NEW r2, NEW p2, Key(t, r, p) = Key(t2, r2, p2)
  PROVE  t = t2 /\ r = r2 /\ p = p2
BY DEF Key

(* A body that a submission does not write or delete: another ticket's, or *)
(* one under a ref it does not name.                                       *)
LEMMA OthersKeep ==
  ASSUME ~Local, NEW t \in Tickets, NEW is, NEW u, NEW r, NEW p,
         u # t \/ \A i \in is : i.ref # r
  PROVE  Key(u, r, p) \notin KeysOf(t, is)
BY KeysApart DEF KeysOf

LEMMA RowKeyTyped ==
  ASSUME TypeOK, NEW r \in Refs, Exists(r)
  PROVE  /\ row[r] \in Rows /\ RowKey(r) \in Keys /\ row[r].ticket \in Tickets
         /\ RowKey(r) = Key(row[r].ticket, r, row[r].path)
BY KeyTyped DEF TypeOK, Exists, Rows, RowKey

(* The three parts of the invariant that are about the store.              *)
BodyInv == RefsApart /\ BodiesWritten /\ ReadableHasBody

(* No row comes or goes, and of the store nothing changes that a row or a  *)
(* submission needs.                                                       *)
LEMMA BodiesStay ==
  ASSUME ~Local, UploadInv, BodyInv, asked \subseteq asked', spoiled \subseteq spoiled',
         \A r \in Refs :
           /\ row'[r] = NoRow <=> row[r] = NoRow
           /\ Readable(r)' => /\ Readable(r) /\ row'[r].ticket = row[r].ticket
                              /\ row'[r].path = row[r].path /\ row'[r].content = row[r].content,
         \A t \in Tickets : writing'[t] = writing[t] \/ writing'[t] = {},
         \A r \in Refs :
           Readable(r)' /\ Readable(r) /\ r \notin asked' /\ <<row[r].ticket, r>> \notin spoiled'
             => store'[RowKey(r)] = store[RowKey(r)],
         \A t \in Tickets : \A i \in writing[t] :
           i \in writing'[t] /\ i.form.body /\ ~Exists(i.ref)
             => store'[Key(t, i.ref, i.path)] = store[Key(t, i.ref, i.path)]
  PROVE  BodyInv'
<1>1. RefsApart'
  BY DEF BodyInv, RefsApart
<1>2. \A t \in Tickets : \A i \in writing[t] : i.ref \in Refs
  BY ItemTyped DEF UploadInv, TypeOK
<1>3. \A t \in Tickets : writing'[t] \subseteq writing[t]
  OBVIOUS
<1>4. BodiesWritten'
  <2> SUFFICES ASSUME NEW t \in Tickets, NEW i \in writing'[t], i.form.body, row'[i.ref] = NoRow
               PROVE  store'[Key(t, i.ref, i.path)] = <<t, i.ref>>
    BY DEF BodiesWritten, Exists
  <2>1. i \in writing[t] /\ ~Exists(i.ref)
    BY <1>2, <1>3 DEF Exists
  <2> QED BY <2>1 DEF BodyInv, BodiesWritten
<1>5. ReadableHasBody'
  <2> SUFFICES ASSUME NEW r \in Refs, Readable(r)', r \notin asked', <<row'[r].ticket, r>> \notin spoiled'
               PROVE  store'[Key(row'[r].ticket, r, row'[r].path)] = row'[r].content
    BY DEF ReadableHasBody, RowKey, Key
  <2>1. /\ Readable(r) /\ row'[r].ticket = row[r].ticket
        /\ row'[r].path = row[r].path /\ row'[r].content = row[r].content
    OBVIOUS
  <2>2. store[RowKey(r)] = row[r].content
    BY <2>1 DEF BodyInv, ReadableHasBody
  <2>3. store'[RowKey(r)] = store[RowKey(r)]
    BY <2>1
  <2> QED BY <2>1, <2>2, <2>3 DEF RowKey
<1> QED BY <1>1, <1>4, <1>5 DEF BodyInv

(* What a submission writes or deletes, it notes of the artifacts that its *)
(* ticket already had.                                                     *)
LEMMA AgainNotes ==
  ASSUME ~Local, TypeOK, NEW t \in Tickets, NEW is, NEW r \in Refs, Readable(r),
         RowKey(r) \in KeysOf(t, is)
  PROVE  <<row[r].ticket, r>> \in Again(t, is)
<1>1. PICK j \in is : RowKey(r) = Key(t, j.ref, j.path)
  BY DEF KeysOf
<1>2. Exists(r) /\ RowKey(r) = Key(row[r].ticket, r, row[r].path)
  BY RowKeyTyped DEF Readable
<1>3. row[r].ticket = t /\ j.ref = r
  <2>1. Key(row[r].ticket, r, row[r].path) = Key(t, j.ref, j.path)
    BY <1>1, <1>2
  <2> QED BY <2>1 DEF Key
<1> QED BY <1>2, <1>3 DEF Again

LEMMA UploadBodies ==
  ASSUME ~Local, UploadInv, BodyInv, NEW s \in Sessions,
         \/ \E n \in 1 .. MaxParts : UploadPart(s, n)
         \/ CompleteUpload(s)
         \/ AbortUpload(s)
  PROVE  BodyInv'
<1>1. UNCHANGED <<row, store, asked, spoiled>>
  BY DEF UploadPart, CompleteUpload, AbortUpload, Crash
<1>2. writing' = writing \/ writing' = [t \in Tickets |-> {}]
  BY DEF UploadPart, CompleteUpload, AbortUpload, Crash, Idle
<1>3. \A t \in Tickets : writing'[t] = writing[t] \/ writing'[t] = {}
  BY <1>2
<1>4. \A r \in Refs : /\ row'[r] = NoRow <=> row[r] = NoRow
                      /\ Readable(r)' <=> Readable(r)
  BY <1>1 DEF Readable, Exists
<1> QED BY <1>1, <1>3, <1>4, BodiesStay

LEMMA ImportBodies ==
  ASSUME ~Local, UploadInv, BodyInv, NEW t \in Tickets, NEW r \in Refs, NEW p \in Paths,
         NEW s \in Sessions, NEW form \in Forms, ImportUpload(t, r, p, s, form)
  PROVE  BodyInv'
<1>1. /\ TypeOK /\ CompletedIsWhole
      /\ upload[s].status = "COMPLETED" /\ staged[s].payload = "whole" /\ ~Exists(r)
      /\ UNCHANGED <<asked, spoiled>>
  BY DEF UploadInv, ImportUpload, Available, CompletedIsWhole
<1>2. store' = [store EXCEPT ![Key(t, r, p)] = s]
  BY <1>1 DEF ImportUpload
<1>3. Key(t, r, p) \in Keys
  BY KeyTyped
<1>4. \A u, q, z : q # r => Key(u, q, z) # Key(t, r, p)
  BY KeysApart
<1>5. store'[Key(t, r, p)] = s /\ \A u, z : \A q : q # r => store'[Key(u, q, z)] = store[Key(u, q, z)]
  BY <1>1, <1>2, <1>3, <1>4 DEF TypeOK, Bodies
<1>6. CASE UNCHANGED row /\ writing' = [u \in Tickets |-> {}]
  <2>1. \A q \in Refs : Readable(q) => q # r /\ RowKey(q) = Key(row[q].ticket, q, row[q].path)
    BY <1>1 DEF Readable, RowKey
  <2>2. \A q \in Refs : Readable(q) => store'[RowKey(q)] = store[RowKey(q)]
    BY <1>5, <2>1
  <2>3. \A q \in Refs : /\ row'[q] = NoRow <=> row[q] = NoRow
                        /\ Readable(q)' <=> Readable(q)
    BY <1>6 DEF Readable, Exists
  <2> QED BY <1>1, <1>6, <2>2, <2>3, BodiesStay
<1>7. CASE row' = [row EXCEPT ![r] = NewRow(t, p, form, s)] /\ writing' = writing
  <2>1. /\ row'[r] = NewRow(t, p, form, s) /\ \A q \in Refs : q # r => row'[q] = row[q]
    BY <1>1, <1>7 DEF TypeOK
  <2>2. NewRow(t, p, form, s) # NoRow
    BY RowTyped, RowAssumption DEF Contents
  <2>3. RefsApart'
    BY <1>7 DEF BodyInv, RefsApart
  <2>4. BodiesWritten'
    <3> SUFFICES ASSUME NEW u \in Tickets, NEW i \in writing[u], i.form.body, row'[i.ref] = NoRow
                 PROVE  store'[Key(u, i.ref, i.path)] = <<u, i.ref>>
      BY <1>7 DEF BodiesWritten, Exists
    <3>1. i.ref \in Refs
      BY <1>1, ItemTyped DEF TypeOK
    <3>2. i.ref # r /\ ~Exists(i.ref)
      BY <2>1, <2>2, <3>1 DEF Exists
    <3> QED BY <1>5, <3>2, ZenonT(30) DEF BodyInv, BodiesWritten
  <2>5. ReadableHasBody'
    <3> SUFFICES ASSUME NEW q \in Refs, Readable(q)', q \notin asked, <<row'[q].ticket, q>> \notin spoiled
                 PROVE  store'[Key(row'[q].ticket, q, row'[q].path)] = row'[q].content
      BY <1>1 DEF ReadableHasBody, RowKey, Key
    <3>1. CASE q = r
      BY <1>5, <2>1, <3>1 DEF NewRow
    <3>2. CASE q # r
      <4>1. row'[q] = row[q] /\ Readable(q)
        BY <2>1, <3>2 DEF Readable, Exists
      <4>2. store[RowKey(q)] = row[q].content
        BY <4>1 DEF BodyInv, ReadableHasBody
      <4> QED BY <1>5, <3>2, <4>1, <4>2 DEF RowKey
    <3> QED BY <3>1, <3>2
  <2> QED BY <2>3, <2>4, <2>5 DEF BodyInv
<1> QED BY <1>1, <1>6, <1>7 DEF ImportUpload, Crash, Idle

LEMMA WriteBodiesBodies ==
  ASSUME ~Local, UploadInv, BodyInv, NEW t \in Tickets, WriteBodies(t) PROVE BodyInv'
<1>1. PICK is \in Results : /\ writing' = [writing EXCEPT ![t] = is] /\ store' = Put(t, is)
                            /\ spoiled' = spoiled \cup Again(t, is)
  BY DEF WriteBodies
<1>2. is \in SUBSET Items /\ \A i, j \in is : i.ref = j.ref => i = j
  BY DEF Results
<1>3. TypeOK /\ UNCHANGED <<row, asked>>
  BY DEF UploadInv, WriteBodies
<1>4. writing'[t] = is /\ \A u \in Tickets : u # t => writing'[u] = writing[u]
  BY <1>1, <1>3 DEF TypeOK
<1>5. \A k \in Keys : /\ k \in KeysOf(t, is) => store'[k] = Written(t, is, k)
                      /\ k \notin KeysOf(t, is) => store'[k] = store[k]
  BY <1>1 DEF Put
<1>6. RefsApart'
  BY <1>2, <1>4 DEF BodyInv, RefsApart
<1>7. BodiesWritten'
  <2> SUFFICES ASSUME NEW u \in Tickets, NEW i \in writing'[u], i.form.body, ~Exists(i.ref)
               PROVE  store'[Key(u, i.ref, i.path)] = <<u, i.ref>>
    BY <1>3 DEF BodiesWritten, Exists
  <2>1. CASE u = t
    <3>1. i \in is /\ i \in Items
      BY <1>2, <1>4, <2>1
    <3> DEFINE k == Key(t, i.ref, i.path)
    <3>2. k \in Keys /\ k \in KeysOf(t, is)
      BY <3>1, ItemTyped, KeyTyped DEF KeysOf
    <3>3. PICK j \in is : Key(t, j.ref, j.path) = k /\ Written(t, is, k) = <<t, j.ref>>
      BY <1>2, <3>2, WrittenIs
    <3>4. j.ref = i.ref
      BY <3>3, KeysApart
    <3> QED BY <1>5, <2>1, <3>2, <3>3, <3>4
  <2>2. CASE u # t
    <3>1. i \in writing[u] /\ i \in Items
      BY <1>3, <1>4, <2>2 DEF TypeOK
    <3>2. Key(u, i.ref, i.path) \in Keys
      BY <3>1, ItemTyped, KeyTyped
    <3>3. Key(u, i.ref, i.path) \notin KeysOf(t, is)
      BY <2>2, OthersKeep
    <3> QED BY <1>5, <3>1, <3>2, <3>3 DEF BodyInv, BodiesWritten
  <2> QED BY <2>1, <2>2
<1>8. ReadableHasBody'
  <2> SUFFICES ASSUME NEW r \in Refs, Readable(r), r \notin asked, <<row[r].ticket, r>> \notin spoiled'
               PROVE  store'[RowKey(r)] = row[r].content
    BY <1>3 DEF ReadableHasBody, Readable, Exists, RowKey
  <2>1. RowKey(r) \in Keys
    BY <1>3, RowKeyTyped DEF Readable
  <2>2. RowKey(r) \notin KeysOf(t, is)
    BY <1>1, <1>3, AgainNotes
  <2>3. <<row[r].ticket, r>> \notin spoiled
    BY <1>1
  <2> QED BY <1>5, <2>1, <2>2, <2>3 DEF BodyInv, ReadableHasBody
<1> QED BY <1>6, <1>7, <1>8 DEF BodyInv

LEMMA WriteFailsBodies ==
  ASSUME ~Local, UploadInv, BodyInv, NEW t \in Tickets, WriteFails(t) PROVE BodyInv'
<1> PICK all \in Results : \E some \in SUBSET all :
      /\ some # all /\ store' = Put(t, some) /\ spoiled' = spoiled \cup Again(t, some)
  BY DEF WriteFails
<1>1. PICK some \in SUBSET all : store' = Put(t, some) /\ spoiled' = spoiled \cup Again(t, some)
  OBVIOUS
<1>2. TypeOK /\ UNCHANGED <<row, asked, writing>> /\ writing[t] = {}
  BY DEF UploadInv, WriteFails, Idle
<1>3. \A k \in Keys : k \notin KeysOf(t, some) => store'[k] = store[k]
  BY <1>1 DEF Put
<1>4. \A r \in Refs :
        Readable(r) /\ r \notin asked' /\ <<row[r].ticket, r>> \notin spoiled'
          => store'[RowKey(r)] = store[RowKey(r)]
  <2> SUFFICES ASSUME NEW r \in Refs, Readable(r), <<row[r].ticket, r>> \notin spoiled'
               PROVE  store'[RowKey(r)] = store[RowKey(r)]
    OBVIOUS
  <2>1. RowKey(r) \in Keys
    BY <1>2, RowKeyTyped DEF Readable
  <2>2. RowKey(r) \notin KeysOf(t, some)
    BY <1>1, <1>2, AgainNotes
  <2> QED BY <1>3, <2>1, <2>2
<1>5. \A u \in Tickets : \A i \in writing[u] :
        store'[Key(u, i.ref, i.path)] = store[Key(u, i.ref, i.path)]
  <2> SUFFICES ASSUME NEW u \in Tickets, NEW i \in writing[u]
               PROVE  store'[Key(u, i.ref, i.path)] = store[Key(u, i.ref, i.path)]
    OBVIOUS
  <2>1. u # t /\ i \in Items
    BY <1>2 DEF TypeOK
  <2>2. Key(u, i.ref, i.path) \in Keys
    BY <2>1, ItemTyped, KeyTyped
  <2>3. Key(u, i.ref, i.path) \notin KeysOf(t, some)
    BY <2>1, OthersKeep
  <2> QED BY <1>3, <2>2, <2>3
<1>6. \A r \in Refs : /\ row'[r] = NoRow <=> row[r] = NoRow
                      /\ Readable(r)' <=> Readable(r)
  BY <1>2 DEF Readable, Exists
<1> QED BY <1>1, <1>2, <1>4, <1>5, <1>6, BodiesStay

LEMMA AcceptBodies ==
  ASSUME ~Local, UploadInv, BodyInv, NEW t \in Tickets, AcceptResult(t) PROVE BodyInv'
<1>1. /\ TypeOK /\ \A i \in writing[t] : ~Exists(i.ref)
      /\ row' = Saved(t, writing[t]) /\ writing' = [writing EXCEPT ![t] = {}]
      /\ UNCHANGED <<store, asked, spoiled>>
  BY DEF UploadInv, AcceptResult, Idle
<1>2. writing[t] \in SUBSET Items /\ writing'[t] = {}
      /\ \A u \in Tickets : u # t => writing'[u] = writing[u]
  BY <1>1 DEF TypeOK
<1>3. \A r \in Refs :
        \/ row'[r] = row[r]
        \/ \E i \in writing[t] : i.ref = r /\ row'[r] = NewRow(t, i.path, i.form, <<t, r>>)
  <2> SUFFICES ASSUME NEW r \in Refs
               PROVE  \/ row'[r] = row[r]
                      \/ \E i \in writing[t] :
                           i.ref = r /\ row'[r] = NewRow(t, i.path, i.form, <<t, r>>)
    OBVIOUS
  <2>1. CASE \A i \in writing[t] : i.ref # r
    <3>1. Saved(t, writing[t])[r] = row[r]
      BY <1>2, <2>1, SavedIs, ZenonT(30)
    <3> QED BY <1>1, <3>1
  <2>2. CASE \E i \in writing[t] : i.ref = r
    <3>1. \E i \in writing[t] : i.ref = r /\ Saved(t, writing[t])[r] = NewRow(t, i.path, i.form, <<t, r>>)
      BY <1>2, <2>2, SavedIs, Zenon
    <3> QED BY <1>1, <3>1
  <2> QED BY <2>1, <2>2
<1>4. RefsApart'
  BY <1>2 DEF BodyInv, RefsApart
<1>5. BodiesWritten'
  <2> SUFFICES ASSUME NEW u \in Tickets, NEW i \in writing'[u], i.form.body, row'[i.ref] = NoRow
               PROVE  store[Key(u, i.ref, i.path)] = <<u, i.ref>>
    BY <1>1 DEF BodiesWritten, Exists
  <2>1. i \in writing[u] /\ i \in Items
    BY <1>1, <1>2 DEF TypeOK
  <2>2. i.ref \in Refs
    BY <2>1, ItemTyped
  <2>3. ~Exists(i.ref)
    <3>1. CASE row'[i.ref] = row[i.ref]
      BY <3>1 DEF Exists
    <3>2. CASE \E j \in writing[t] : j.ref = i.ref
      BY <1>1, <3>2
    <3> QED BY <1>3, <2>2, <3>1, <3>2
  <2> QED BY <2>1, <2>3 DEF BodyInv, BodiesWritten
<1>6. ReadableHasBody'
  <2> SUFFICES ASSUME NEW r \in Refs, Readable(r)', r \notin asked, <<row'[r].ticket, r>> \notin spoiled
               PROVE  store[Key(row'[r].ticket, r, row'[r].path)] = row'[r].content
    BY <1>1 DEF ReadableHasBody, RowKey, Key
  <2>1. CASE row'[r] = row[r]
    <3>1. Readable(r)
      BY <2>1 DEF Readable, Exists
    <3> QED BY <2>1, <3>1 DEF BodyInv, ReadableHasBody, RowKey
  <2>2. CASE \E i \in writing[t] : i.ref = r /\ row'[r] = NewRow(t, i.path, i.form, <<t, r>>)
    <3>1. PICK i \in writing[t] : i.ref = r /\ row'[r] = NewRow(t, i.path, i.form, <<t, r>>)
      BY <2>2
    <3>2. /\ row'[r].ticket = t /\ row'[r].path = i.path /\ row'[r].content = <<t, r>>
          /\ row'[r].body = i.form.body
      BY <3>1 DEF NewRow
    <3>3. i.form.body /\ ~Exists(r)
      BY <1>1, <3>1, <3>2 DEF Readable
    <3>4. store[Key(t, i.ref, i.path)] = <<t, i.ref>>
      BY <3>1, <3>3 DEF BodyInv, BodiesWritten
    <3> QED BY <3>1, <3>2, <3>4
  <2> QED BY <1>3, <2>1, <2>2
<1> QED BY <1>4, <1>5, <1>6 DEF BodyInv

LEMMA RefuseBodies ==
  ASSUME ~Local, UploadInv, BodyInv, NEW t \in Tickets, RefuseResult(t) PROVE BodyInv'
<1>1. /\ TypeOK /\ store' = Without(KeysOf(t, writing[t])) /\ UNCHANGED <<row, asked>>
      /\ spoiled' = spoiled \cup Again(t, writing[t]) /\ writing' = [writing EXCEPT ![t] = {}]
  BY DEF UploadInv, RefuseResult, Idle
<1>2. writing'[t] = {} /\ \A u \in Tickets : u # t => writing'[u] = writing[u]
  BY <1>1 DEF TypeOK
<1>3. \A k \in Keys : k \notin KeysOf(t, writing[t]) => store'[k] = store[k]
  BY <1>1 DEF Without
<1>4. \A r \in Refs :
        Readable(r) /\ r \notin asked' /\ <<row[r].ticket, r>> \notin spoiled'
          => store'[RowKey(r)] = store[RowKey(r)]
  <2> SUFFICES ASSUME NEW r \in Refs, Readable(r), <<row[r].ticket, r>> \notin spoiled'
               PROVE  store'[RowKey(r)] = store[RowKey(r)]
    OBVIOUS
  <2>1. RowKey(r) \in Keys
    BY <1>1, RowKeyTyped DEF Readable
  <2>2. RowKey(r) \notin KeysOf(t, writing[t])
    BY <1>1, AgainNotes
  <2> QED BY <1>3, <2>1, <2>2
<1>5. \A u \in Tickets : \A i \in writing[u] :
        i \in writing'[u] => store'[Key(u, i.ref, i.path)] = store[Key(u, i.ref, i.path)]
  <2> SUFFICES ASSUME NEW u \in Tickets, NEW i \in writing[u], i \in writing'[u]
               PROVE  store'[Key(u, i.ref, i.path)] = store[Key(u, i.ref, i.path)]
    OBVIOUS
  <2>1. u # t /\ i \in Items
    BY <1>1, <1>2 DEF TypeOK
  <2>2. Key(u, i.ref, i.path) \in Keys
    BY <2>1, ItemTyped, KeyTyped
  <2>3. Key(u, i.ref, i.path) \notin KeysOf(t, writing[t])
    BY <2>1, OthersKeep
  <2> QED BY <1>3, <2>2, <2>3
<1>6. \A r \in Refs : /\ row'[r] = NoRow <=> row[r] = NoRow
                      /\ Readable(r)' <=> Readable(r)
  BY <1>1 DEF Readable, Exists
<1> QED BY <1>1, <1>2, <1>4, <1>5, <1>6, BodiesStay

(* Bodies of rows that are readable no more, or that somebody asked to     *)
(* delete.                                                                 *)
LEMMA OwnBodiesGo ==
  ASSUME ~Local, UploadInv, BodyInv, asked \subseteq asked', UNCHANGED spoiled,
         \A t \in Tickets : writing'[t] = writing[t] \/ writing'[t] = {},
         \A r \in Refs :
           /\ row'[r] = NoRow <=> row[r] = NoRow
           /\ Readable(r)' => /\ Readable(r) /\ row'[r].ticket = row[r].ticket
                              /\ row'[r].path = row[r].path /\ row'[r].content = row[r].content,
         NEW D \in SUBSET Refs, \A r \in D : Exists(r) /\ (r \in asked' \/ ~Readable(r)'),
         store' = Without({RowKey(r) : r \in D})
  PROVE  BodyInv'
<1>1. TypeOK
  BY DEF UploadInv
<1>2. \A k \in Keys : k \notin {RowKey(r) : r \in D} => store'[k] = store[k]
  BY DEF Without
<1>3. \A r \in Refs : Readable(r)' /\ Readable(r) /\ r \notin asked' => store'[RowKey(r)] = store[RowKey(r)]
  <2> SUFFICES ASSUME NEW r \in Refs, Readable(r)', Readable(r), r \notin asked'
               PROVE  store'[RowKey(r)] = store[RowKey(r)]
    OBVIOUS
  <2>1. RowKey(r) \in Keys /\ Exists(r) /\ RowKey(r) = Key(row[r].ticket, r, row[r].path)
    BY <1>1, RowKeyTyped DEF Readable
  <2>2. ASSUME NEW q \in D, RowKey(q) = RowKey(r) PROVE FALSE
    <3>1. RowKey(q) = Key(row[q].ticket, q, row[q].path)
      BY DEF RowKey
    <3>2. Key(row[q].ticket, q, row[q].path) = Key(row[r].ticket, r, row[r].path)
      BY <2>1, <2>2, <3>1
    <3>3. q = r
      BY <3>2 DEF Key
    <3>4. q \notin asked' /\ Readable(q)'
      BY <3>3
    <3> QED BY <3>4
  <2> QED BY <1>2, <2>1, <2>2
<1>4. \A t \in Tickets : \A i \in writing[t] :
        ~Exists(i.ref) => store'[Key(t, i.ref, i.path)] = store[Key(t, i.ref, i.path)]
  <2> SUFFICES ASSUME NEW t \in Tickets, NEW i \in writing[t], ~Exists(i.ref)
               PROVE  store'[Key(t, i.ref, i.path)] = store[Key(t, i.ref, i.path)]
    OBVIOUS
  <2>1. i \in Items
    BY <1>1 DEF TypeOK
  <2>2. Key(t, i.ref, i.path) \in Keys
    BY <2>1, ItemTyped, KeyTyped
  <2>3. ASSUME NEW q \in D, RowKey(q) = Key(t, i.ref, i.path) PROVE FALSE
    <3>1. Key(row[q].ticket, q, row[q].path) = Key(t, i.ref, i.path)
      BY <2>3 DEF RowKey
    <3>2. q = i.ref
      BY <3>1 DEF Key
    <3> QED BY <3>2
  <2> QED BY <1>2, <2>2, <2>3
<1> QED BY <1>3, <1>4, BodiesStay

LEMMA EndBodies ==
  ASSUME ~Local, UploadInv, BodyInv,
         \/ \E r \in Refs : Lapse(r) \/ Delete(r)
         \/ \E failing \in SUBSET ToClean : Cleanup(failing)
         \/ CleanupCrashes
         \/ IntervalPasses
  PROVE  BodyInv'
<1>1. TypeOK /\ UploadInv'
  BY EndStep DEF UploadInv
<1>2. UNCHANGED spoiled /\ asked \subseteq asked'
  BY DEF Lapse, Delete, Cleanup, CleanupCrashes, IntervalPasses
<1>3. writing' = writing \/ writing' = [t \in Tickets |-> {}]
  BY DEF Lapse, Delete, Cleanup, CleanupCrashes, IntervalPasses, Crash, Idle
<1>4. \A t \in Tickets : writing'[t] = writing[t] \/ writing'[t] = {}
  BY <1>3
<1>5. ASSUME NEW r \in Refs, Lapse(r) PROVE BodyInv'
  <2>1. row[r] \in Rows /\ row' = [row EXCEPT ![r] = [row[r] EXCEPT !.expiry = "passed"]]
        /\ UNCHANGED store
    BY <1>1, <1>5 DEF Lapse, TypeOK, Exists
  <2>2. /\ row'[r].expiry = "passed" /\ row'[r] \in Rows
        /\ \A q \in Refs : q # r => row'[q] = row[q]
    BY <1>1, <2>1 DEF TypeOK, Rows
  <2>3. \A q \in Refs :
          /\ row'[q] = NoRow <=> row[q] = NoRow
          /\ Readable(q)' => /\ Readable(q) /\ row'[q].ticket = row[q].ticket
                             /\ row'[q].path = row[q].path /\ row'[q].content = row[q].content
    BY <2>1, <2>2, RowAssumption DEF Readable, Exists
  <2> QED BY <1>2, <1>4, <2>1, <2>3, BodiesStay
<1>6. ASSUME NEW r \in Refs, Delete(r) PROVE BodyInv'
  <2>1. Exists(r) /\ row[r].life \in {"ACTIVE", "EXPIRED", "DELETED"}
    BY <1>1, <1>6 DEF Delete, Exists, TypeOK, Rows
  <2>2. \/ /\ row' = [row EXCEPT ![r] = Marked(r, "DELETED", "DELETED")]
           /\ store' = store \/ store' = Without({RowKey(r)})
           /\ asked' = asked \cup {r}
        \/ /\ row' = [row EXCEPT ![r] = Marked(r, row[r].life, "DELETE_FAILED")]
           /\ UNCHANGED store
        \/ /\ row' = row /\ store' = Without({RowKey(r)}) /\ asked' = asked \cup {r}
    BY <1>1, <1>6 DEF Delete, Crash, TypeOK
  <2>3. Marked(r, "DELETED", "DELETED") \in Rows /\ Marked(r, row[r].life, "DELETE_FAILED") \in Rows
        /\ Marked(r, "DELETED", "DELETED").life = "DELETED"
    BY <1>1, <2>1, MarkTyped
  <2>4. row[r] \in Rows
    BY <1>1, <2>1 DEF TypeOK, Exists
  <2>5. /\ Marked(r, row[r].life, "DELETE_FAILED").life = row[r].life
        /\ Marked(r, row[r].life, "DELETE_FAILED").expiry = row[r].expiry
        /\ Marked(r, row[r].life, "DELETE_FAILED").body = row[r].body
        /\ Marked(r, row[r].life, "DELETE_FAILED").ticket = row[r].ticket
        /\ Marked(r, row[r].life, "DELETE_FAILED").path = row[r].path
        /\ Marked(r, row[r].life, "DELETE_FAILED").content = row[r].content
    BY <2>4 DEF Marked, Rows
  <2>6. \A q \in Refs : q # r => row'[q] = row[q]
    BY <1>1, <2>2 DEF TypeOK
  <2>7. row'[r] \in {Marked(r, "DELETED", "DELETED"), Marked(r, row[r].life, "DELETE_FAILED"), row[r]}
    BY <1>1, <2>2 DEF TypeOK
  <2>8. \A q \in Refs :
          /\ row'[q] = NoRow <=> row[q] = NoRow
          /\ Readable(q)' => /\ Readable(q) /\ row'[q].ticket = row[q].ticket
                             /\ row'[q].path = row[q].path /\ row'[q].content = row[q].content
    <3> SUFFICES ASSUME NEW q \in Refs
                 PROVE  /\ row'[q] = NoRow <=> row[q] = NoRow
                        /\ Readable(q)' => /\ Readable(q) /\ row'[q].ticket = row[q].ticket
                                           /\ row'[q].path = row[q].path
                                           /\ row'[q].content = row[q].content
      OBVIOUS
    <3>1. CASE q # r
      BY <2>6, <3>1 DEF Readable, Exists
    <3>2. CASE q = r
      <4>1. row'[r] # NoRow /\ row[r] # NoRow
        BY <2>1, <2>3, <2>4, <2>7, RowAssumption
      <4>2. CASE row'[r] = Marked(r, "DELETED", "DELETED")
        BY <2>3, <3>2, <4>1, <4>2 DEF Readable
      <4>3. CASE row'[r] = Marked(r, row[r].life, "DELETE_FAILED")
        BY <2>1, <2>5, <3>2, <4>1, <4>3 DEF Readable, Exists
      <4>4. CASE row'[r] = row[r]
        BY <3>2, <4>1, <4>4 DEF Readable, Exists
      <4> QED BY <2>7, <4>2, <4>3, <4>4
    <3> QED BY <3>1, <3>2
  <2>9. CASE UNCHANGED store
    BY <1>2, <1>4, <2>8, <2>9, BodiesStay
  <2>10. CASE store' = Without({RowKey(r)}) /\ r \in asked'
    <3>1. {RowKey(q) : q \in {r}} = {RowKey(r)}
      OBVIOUS
    <3>2. store' = Without({RowKey(q) : q \in {r}})
      BY <2>10, <3>1
    <3>3. {r} \in SUBSET Refs /\ \A q \in {r} : Exists(q) /\ (q \in asked' \/ ~Readable(q)')
      BY <2>1, <2>10
    <3> QED BY <1>2, <1>4, <2>8, <3>2, <3>3, OwnBodiesGo
  <2> QED BY <2>2, <2>9, <2>10
<1>7. ASSUME NEW failing \in SUBSET ToClean, Cleanup(failing) PROVE BodyInv'
  <2> DEFINE D == {r \in ToClean : row[r].storage # "DELETED"} \ failing
             new(r) == Marked(r, IF row[r].life = "ACTIVE" THEN "EXPIRED" ELSE row[r].life,
                              IF r \in failing THEN "DELETE_FAILED" ELSE "DELETED")
  <2>1. /\ store' = Without({RowKey(r) : r \in D})
        /\ row' = [r \in Refs |-> IF r \notin ToClean THEN row[r] ELSE new(r)]
    BY <1>7 DEF Cleanup
  <2>2. \A r \in ToClean : new(r) \in Rows /\ new(r).life # "ACTIVE"
    <3> SUFFICES ASSUME NEW r \in ToClean PROVE new(r) \in Rows /\ new(r).life # "ACTIVE"
      OBVIOUS
    <3>1. r \in Refs /\ Exists(r) /\ row[r].life \in {"ACTIVE", "EXPIRED", "DELETED"}
      BY <1>1 DEF ToClean, TypeOK, Exists, Rows
    <3> QED BY <3>1, <1>1, MarkTyped
  <2> HIDE DEF new
  <2>3. \A r \in Refs :
          /\ row'[r] = NoRow <=> row[r] = NoRow
          /\ Readable(r)' => /\ Readable(r) /\ row'[r].ticket = row[r].ticket
                             /\ row'[r].path = row[r].path /\ row'[r].content = row[r].content
    <3> SUFFICES ASSUME NEW r \in Refs
                 PROVE  /\ row'[r] = NoRow <=> row[r] = NoRow
                        /\ Readable(r)' => /\ Readable(r) /\ row'[r].ticket = row[r].ticket
                                           /\ row'[r].path = row[r].path
                                           /\ row'[r].content = row[r].content
      OBVIOUS
    <3>1. CASE r \notin ToClean
      <4>1. row'[r] = row[r]
        BY <2>1, <3>1
      <4> QED BY <4>1 DEF Readable, Exists
    <3>2. CASE r \in ToClean
      <4>1. row'[r] = new(r) /\ row[r] # NoRow
        BY <2>1, <3>2 DEF ToClean, Exists
      <4> QED BY <2>2, <3>2, <4>1, RowAssumption DEF Readable
    <3> QED BY <3>1, <3>2
  <2>4. D \in SUBSET Refs /\ \A r \in D : Exists(r) /\ ~Readable(r)'
    <3>1. \A r \in D : r \in Refs /\ r \in ToClean /\ Exists(r)
      BY DEF ToClean
    <3>2. \A r \in D : row'[r].life # "ACTIVE"
      BY <2>1, <2>2, <3>1
    <3> QED BY <3>1, <3>2 DEF Readable
  <2> HIDE DEF D
  <2> QED BY <1>2, <1>4, <2>1, <2>3, <2>4, OwnBodiesGo
<1>8. CASE CleanupCrashes
  <2>1. PICK gone \in SUBSET {r \in ToClean : row[r].storage # "DELETED"} :
          store' = Without({RowKey(r) : r \in gone})
    BY <1>8 DEF CleanupCrashes
  <2>2. UNCHANGED row
    BY <1>8 DEF CleanupCrashes, Crash
  <2>3. \A r \in Refs :
          /\ row'[r] = NoRow <=> row[r] = NoRow
          /\ Readable(r)' => /\ Readable(r) /\ row'[r].ticket = row[r].ticket
                             /\ row'[r].path = row[r].path /\ row'[r].content = row[r].content
    BY <2>2 DEF Readable, Exists
  <2>4. gone \in SUBSET Refs /\ \A r \in gone : Exists(r) /\ ~Readable(r)'
    BY <2>2 DEF ToClean, Lapsed, Readable, Exists
  <2> QED BY <1>2, <1>4, <2>1, <2>3, <2>4, OwnBodiesGo
<1>9. CASE IntervalPasses
  <2>1. UNCHANGED <<row, store>>
    BY <1>9 DEF IntervalPasses
  <2>2. \A r \in Refs :
          /\ row'[r] = NoRow <=> row[r] = NoRow
          /\ Readable(r)' => /\ Readable(r) /\ row'[r].ticket = row[r].ticket
                             /\ row'[r].path = row[r].path /\ row'[r].content = row[r].content
    BY <2>1 DEF Readable, Exists
  <2> QED BY <1>2, <1>4, <2>1, <2>2, BodiesStay
<1> QED BY <1>5, <1>6, <1>7, <1>8, <1>9

LEMMA StopBodies ==
  ASSUME ~Local, UploadInv, BodyInv,
         UNCHANGED <<row, store, writing, asked, spoiled>>
  PROVE  BodyInv'
BY DEF BodyInv, RefsApart, BodiesWritten, ReadableHasBody, Readable, Exists, RowKey

LEMMA Inductive == ASSUME ~Local, IInv, [Next]_vars PROVE IInv'
<1>1. UploadInv /\ BodyInv /\ UploadInv'
  BY UploadInductive DEF IInv, BodyInv
<1>2. ASSUME NEW s \in Sessions,
             \/ \E n \in 1 .. MaxParts : UploadPart(s, n)
             \/ CompleteUpload(s)
             \/ AbortUpload(s)
             \/ \E t \in Tickets, r \in Refs, p \in Paths, form \in Forms :
                  ImportUpload(t, r, p, s, form)
      PROVE  BodyInv'
  BY <1>1, <1>2, UploadBodies, ImportBodies
<1>3. ASSUME NEW t \in Tickets,
             WriteBodies(t) \/ WriteFails(t) \/ AcceptResult(t) \/ RefuseResult(t) \/ Stop(t)
      PROVE  BodyInv'
  BY <1>1, <1>3, WriteBodiesBodies, WriteFailsBodies, AcceptBodies, RefuseBodies, StopBodies DEF Stop
<1>4. ASSUME \/ \E r \in Refs : Lapse(r) \/ Delete(r)
             \/ ManualCleanup
             \/ \E failing \in SUBSET ToClean : AutoCleanup(failing)
             \/ CleanupCrashes
             \/ IntervalPasses
      PROVE  BodyInv'
  BY <1>1, <1>4, EndBodies DEF ManualCleanup, AutoCleanup
<1>5. ASSUME UNCHANGED vars PROVE BodyInv'
  BY <1>1, <1>5, StopBodies DEF vars
<1>6. BodyInv'
  BY <1>2, <1>3, <1>4, <1>5 DEF Next
<1> QED BY <1>1, <1>6 DEF IInv, BodyInv

-----------------------------------------------------------------------------
(* An upload becomes one artifact, and all of it does, in either kind of   *)
(* store and whatever aborts, completions, imports and crashes cross       *)
(* (consume_artifact_upload_session, repository.py:2823).                  *)
THEOREM UploadsAreConsumedOnce == Spec => []ConsumedOnce
<1>1. Init => UploadInv
  BY Initially DEF IInv
<1>2. UploadInv /\ [Next]_vars => UploadInv'
  BY UploadInductive
<1>3. UploadInv => ConsumedOnce
  BY DEF UploadInv
<1> QED BY <1>1, <1>2, <1>3, PTL DEF Spec

(* In the object store what is shown as ACTIVE and MATERIALIZED can be     *)
(* read and is what its ticket left, for any number of tickets that name   *)
(* the same refs and paths (is_artifact_readable, artifacts.py:255).       *)
THEOREM ReadableIsThere == ASSUME ~Local PROVE Spec => []ReadableHasBody
<1>1. Init => IInv
  BY Initially
<1>2. IInv /\ [Next]_vars => IInv'
  BY Inductive
<1>3. IInv => ReadableHasBody
  BY DEF IInv
<1> QED BY <1>1, <1>2, <1>3, PTL DEF Spec
=============================================================================
