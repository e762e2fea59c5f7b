---------------------------- MODULE WorkerAccess ----------------------------
(***************************************************************************)
(* External workers: the bindings of a worker to a tenant and workspace,   *)
(* the bootstrap tokens issued for a binding, the sessions they open, and  *)
(* the delivery grants behind the URLs a session is given.                 *)
(*                                                                         *)
(* A request is checked in one transaction and writes its session and its  *)
(* grants in later ones; operators revoke, rotate, contain and clean up in *)
(* between.  A token is its row here: the signature and the claims only    *)
(* repeat what the row says.  Of the time, a row keeps whether it is over  *)
(* (void, as when it is revoked, where nothing brings it back), and a      *)
(* bootstrap token which side of revoked_before it is stamped: the clock   *)
(* is read before a transaction begins, so a token that is committed after *)
(* a revocation may still be stamped before it.                            *)
(***************************************************************************)
EXTENDS Naturals, Sequences

CONSTANTS
  Workers,      \* employees that run outside the control plane
  Scopes,       \* tenant and workspace pairs
  Tickets,      \* tickets of the control plane
  ScopeOf,      \* the scope of each ticket
  NoOne,        \* the owner of a ticket that is not leased
  NoBinding,    \* no row in worker_bootstrap_state
  Calls,        \* requests that may be under way at once
  NoCall,       \* no request is under way
  MaxIssues, MaxSessions, MaxGrants   \* bounds of the instance

ASSUME WorkerAccessAssumption ==
  /\ ScopeOf \in [Tickets -> Scopes]
  /\ NoBinding \notin [version : Nat, cut : BOOLEAN]
  /\ {MaxIssues, MaxSessions, MaxGrants} \subseteq Nat

VARIABLES
  active,       \* workers whose employee row is ACTIVE
  owner,        \* ticket -> the worker that holds it (LEASED, EXECUTING, CANCEL_REQUESTED)
  binding,      \* <<worker, scope>> -> its row
  issue,        \* rows of worker_bootstrap_issue
  session,      \* rows of worker_session
  grant,        \* rows of worker_delivery_grant
  call          \* requests under way

rows == <<issue, session, grant>>
world == <<active, owner>>
vars == <<active, owner, binding, issue, session, grant, call>>

Bindings == Workers \X Scopes

(***************************************************************************)
(* History: "ended" is set on a session a command ends, and on the         *)
(* requests that hang on it.  An issue is "orphan" once its binding is     *)
(* cleaned up.  A request that is to open a session, and then the session, *)
(* is "adrift" when its binding is cleaned up in between: the row is       *)
(* inserted all the same, and the binding comes back with version 1.  A    *)
(* session is not adrift any more once a command ends its row.             *)
(***************************************************************************)
Binding == [version : Nat \ {0}, cut : BOOLEAN]
Issue == [to : Bindings, version : Nat, stamp : {"before", "at", "after"}, status : {"live", "void"},
          orphan : BOOLEAN]
Session == [to : Bindings, version : Nat, status : {"live", "over", "revoked"}, ended : BOOLEAN,
            adrift : BOOLEAN]
Kinds == {"package", "artifact", "command"}
Grant == [session : Nat, ticket : Tickets, kind : Kinds, status : {"live", "void"}]
Call == [to : Bindings, version : Nat, session : Nat, phase : {"checked", "written", "granting", "acting"},
         todo : SUBSET Tickets, kind : Kinds, ended : BOOLEAN, adrift : BOOLEAN]

TypeOK ==
  /\ active \subseteq Workers
  /\ owner \in [Tickets -> Workers \cup {NoOne}]
  /\ binding \in [Bindings -> Binding \cup {NoBinding}]
  /\ issue \in Seq(Issue) /\ session \in Seq(Session) /\ grant \in Seq(Grant)
  /\ call \in [Calls -> Call \cup {NoCall}]
  /\ \A g \in DOMAIN grant : grant[g].session \in DOMAIN session

Init ==
  /\ active = Workers /\ owner = [t \in Tickets |-> NoOne]
  /\ binding = [b \in Bindings |-> NoBinding]
  /\ issue = <<>> /\ session = <<>> /\ grant = <<>>
  /\ call = [c \in Calls |-> NoCall]

----------------------------------------------------------------------------
(* What the checks of a request ask.                                       *)

Bound(b) == binding[b] # NoBinding
Working(w) == w \in active
Holds(t, b) == owner[t] = b[1] /\ ScopeOf[t] = b[2]

Ensured(b) == IF Bound(b) THEN binding[b] ELSE [version |-> 1, cut |-> FALSE]
EnsureBinding(b) == binding' = [binding EXCEPT ![b] = Ensured(b)]

\* Mutant: as if the stamp of the revocation itself were before it.
Before_OrAt(i) == issue[i].stamp # "after"

\* claims.issued_at < revoked_before
Before(i) == issue[i].stamp = "before"

Listed(i) == issue[i].status = "live"

\* A bootstrap token: its issue, then its binding, then its worker.
Opens(i) ==
  LET x == issue[i] IN
  /\ Listed(i)
  /\ x.version = Ensured(x.to).version
  /\ Ensured(x.to).cut => ~Before(i)
  /\ Working(x.to[1])

\* A session token.
Lives(s) ==
  LET x == session[s] IN
  /\ x.version = Ensured(x.to).version
  /\ x.status = "live"
  /\ Working(x.to[1])

To(g) == session[grant[g].session].to

\* A delivery token: its grant, its session, its worker and its ticket.  The binding
\* is not created on this path.
Serves(g) ==
  LET x == grant[g] IN
  /\ x.status = "live"
  /\ Bound(To(g))
  /\ Lives(x.session)
  /\ Holds(x.ticket, To(g))

----------------------------------------------------------------------------
(* Requests of a worker.                                                   *)

Checked(b, v, s, out) ==
  [to |-> b, version |-> v, session |-> s, phase |-> "checked", todo |-> {},
   kind |-> "package", ended |-> out, adrift |-> FALSE]

AskWithBootstrap(c) ==
  \E i \in DOMAIN issue :
    /\ call[c] = NoCall /\ Opens(i)
    /\ EnsureBinding(issue[i].to)
    /\ call' = [call EXCEPT ![c] = Checked(issue[i].to, issue[i].version, 0, FALSE)]
    /\ UNCHANGED <<world, rows>>

AskWithSession(c) ==
  \E s \in DOMAIN session :
    /\ call[c] = NoCall /\ Lives(s)
    /\ EnsureBinding(session[s].to)
    /\ call' = [call EXCEPT ![c] = Checked(session[s].to, session[s].version, s, session[s].ended)]
    /\ UNCHANGED <<world, rows>>

NewSession(x) ==
  [to |-> x.to, version |-> x.version, status |-> "live", ended |-> x.ended, adrift |-> x.adrift]

\* Mutant: a refresh writes the whole row.
Refreshed_Afresh(s) == [session EXCEPT ![s].status = "live"]

\* The row is looked up by its id alone; a revoked row is refreshed and stays revoked.
Refreshed(s) == [session EXCEPT ![s].status = IF @ = "revoked" THEN @ ELSE "live"]

WriteSession(c) ==
  LET x == call[c] IN
  /\ x # NoCall /\ x.phase = "checked"
  /\ IF x.session = 0
       THEN /\ Len(session) < MaxSessions
            /\ session' = Append(session, NewSession(x))
            /\ call' = [call EXCEPT ![c] = [@ EXCEPT !.phase = "written", !.session = Len(session')]]
       ELSE /\ session' = Refreshed(x.session)
            /\ call' = [call EXCEPT ![c].phase = "written"]
  /\ UNCHANGED <<world, binding, issue, grant>>

Owned(w) == {t \in Tickets : owner[t] = w}

\* A ticket of a scope the worker is not bound to refuses the whole list.
Refused(b) == \E t \in Owned(b[1]) : ScopeOf[t] # b[2] /\ ~Bound(<<b[1], ScopeOf[t]>>)

ListAssignments(c) ==
  LET x == call[c]
      ts == {t \in Tickets : Holds(t, x.to)} IN
  /\ x # NoCall /\ x.phase = "written"
  /\ call' = [call EXCEPT ![c] = IF Refused(x.to) \/ ts = {} THEN NoCall
                                 ELSE [x EXCEPT !.phase = "granting", !.todo = ts]]
  /\ UNCHANGED <<world, binding, rows>>

\* A delivery: of the execution package of a ticket, with URLs of artifacts and of
\* commands in it, of what there is to know of an artifact, with its URLs, or a command.
Delivered(g, phase, kind) ==
  LET x == grant[g] IN
  [to |-> To(g), version |-> session[x.session].version, session |-> x.session, phase |-> phase,
   todo |-> {x.ticket}, kind |-> kind, ended |-> session[x.session].ended, adrift |-> FALSE]

Deliver(c, of, phase, kind) ==
  \E g \in DOMAIN grant :
    /\ call[c] = NoCall /\ grant[g].kind = of /\ Serves(g)
    /\ call' = [call EXCEPT ![c] = Delivered(g, phase, kind)]
    /\ UNCHANGED <<world, binding, rows>>

FetchPackage(c) == \E kind \in {"artifact", "command"} : Deliver(c, "package", "granting", kind)
FetchArtifact(c) == Deliver(c, "artifact", "granting", "artifact")
SendCommand(c) == Deliver(c, "command", "acting", "command")

\* The handler of the command: a start, a heartbeat, an import, or a result, which ends
\* the lease of whoever holds the ticket by then.
HandleCommand(c) ==
  /\ call[c] # NoCall /\ call[c].phase = "acting"
  /\ \E t \in call[c].todo : owner' \in {owner, [owner EXCEPT ![t] = NoOne]}
  /\ call' = [call EXCEPT ![c] = NoCall]
  /\ UNCHANGED <<active, binding, rows>>

\* Each grant is a transaction of its own, and nothing is checked again.
MakeGrant(c) ==
  \E t \in Tickets :
    /\ call[c] # NoCall /\ call[c].phase = "granting" /\ t \in call[c].todo
    /\ Len(grant) < MaxGrants
    /\ LET x == call[c] IN
       /\ grant' = Append(grant,
            [session |-> x.session, ticket |-> t, kind |-> x.kind, status |-> "live"])
       /\ call' = [call EXCEPT ![c] = IF x.todo = {t} THEN NoCall ELSE [x EXCEPT !.todo = @ \ {t}]]
    /\ UNCHANGED <<world, binding, issue, session>>

----------------------------------------------------------------------------
(* Commands of an operator.                                                *)

NewIssue(b, v, stamp) == [to |-> b, version |-> v, stamp |-> stamp, status |-> "live", orphan |-> FALSE]

CreateBinding(b) ==
  /\ Working(b[1]) /\ ~Bound(b)
  /\ EnsureBinding(b)
  /\ UNCHANGED <<world, rows, call>>

IssueBootstrap(b) ==
  \E stamp \in IF Ensured(b).cut THEN {"before", "after"} ELSE {"after"} :
    /\ Working(b[1]) /\ Len(issue) < MaxIssues
    /\ EnsureBinding(b)
    /\ issue' = Append(issue, NewIssue(b, Ensured(b).version, stamp))
    /\ UNCHANGED <<world, session, grant, call>>

LiveIssues(b) == {i \in DOMAIN issue : issue[i].to = b /\ Listed(i)}
SessionsOf(b) == {s \in DOMAIN session : session[s].to = b /\ session[s].status # "revoked"}
GrantsOf(b) == {g \in DOMAIN grant : To(g) = b /\ grant[g].status = "live"}
GrantsUnder(S) == {g \in DOMAIN grant : grant[g].session \in S /\ grant[g].status = "live"}

RevokedIssues(I) == [i \in DOMAIN issue |-> IF i \in I THEN [issue[i] EXCEPT !.status = "void"] ELSE issue[i]]

\* What is revoked with a session.
EndSessions(S, G) ==
  /\ session' = [s \in DOMAIN session |->
       IF s \in S THEN [session[s] EXCEPT !.status = "revoked", !.ended = TRUE, !.adrift = FALSE]
                   ELSE session[s]]
  /\ grant' = [g \in DOMAIN grant |->
       IF g \in G THEN [grant[g] EXCEPT !.status = "void"] ELSE grant[g]]

EndCalls(Under(_)) ==
  call' = [c \in Calls |->
    IF call[c] # NoCall /\ Under(call[c]) THEN [call[c] EXCEPT !.ended = TRUE] ELSE call[c]]

\* A new version: requests checked against the old one are ended with it.
RotateBootstrap(b) ==
  /\ Working(b[1]) /\ Bound(b) /\ Len(issue) < MaxIssues
  /\ binding' = [binding EXCEPT ![b] = [version |-> @.version + 1, cut |-> TRUE]]
  /\ EndSessions(SessionsOf(b), GrantsOf(b))
  /\ issue' = Append(RevokedIssues(LiveIssues(b)), NewIssue(b, binding[b].version + 1, "at"))
  /\ LET Under(x) == x.to = b IN EndCalls(Under)
  /\ UNCHANGED world

\* The same version: a request that is to open a session is not ended by it.
RevokeBootstrap(b) ==
  /\ Working(b[1]) /\ Bound(b)
  /\ binding' = [binding EXCEPT ![b].cut = TRUE]
  /\ EndSessions(SessionsOf(b), GrantsOf(b))
  /\ issue' = RevokedIssues(LiveIssues(b))
  /\ LET Under(x) == x.session \in SessionsOf(b) IN EndCalls(Under)
  /\ UNCHANGED world

\* One session, or all of a binding; grants only go with a session that goes.
RevokeSessions(S, G) ==
  /\ S # {}
  /\ EndSessions(S, G)
  /\ LET Under(x) == x.session \in S IN EndCalls(Under)
  /\ UNCHANGED <<world, binding, issue>>

RevokeSession(s) == RevokeSessions({s} \cap SessionsOf(session[s].to), GrantsUnder({s}))
RevokeBindingSessions(b) == RevokeSessions(SessionsOf(b), GrantsOf(b))

RevokeGrant(g) ==
  /\ grant[g].status = "live"
  /\ EndSessions({}, {g})
  /\ UNCHANGED <<world, binding, issue, call>>

\* Containment of a scope, of one worker or of all: executed when the counts of the
\* preview are still those of now, refused otherwise.
ContainScope(B, tokens, sessions) ==
  LET S == IF sessions THEN {s \in DOMAIN session : session[s].to \in B /\ session[s].status = "live"} ELSE {}
      I == IF tokens THEN UNION {LiveIssues(b) : b \in B} ELSE {} IN
  /\ S \cup I # {}
  /\ EndSessions(S, GrantsUnder(S))
  /\ issue' = RevokedIssues(I)
  /\ LET Under(x) == x.session \in S IN EndCalls(Under)
  /\ UNCHANGED <<world, binding>>

\* cleanup_eligible.
Idle(b) ==
  /\ Bound(b)
  /\ \A s \in DOMAIN session : session[s].to = b => session[s].status # "live"
  /\ \A g \in DOMAIN grant : To(g) = b => grant[g].status # "live"
  /\ \A t \in Tickets : ~Holds(t, b)
  /\ \/ binding[b].cut
     \/ \A i \in DOMAIN issue : issue[i].to # b

\* One binding of a worker, or all of them.  A request that was checked against it is
\* not looked for, whether or not a command has ended it.
CleanupBindings(B) ==
  LET gone == {b \in B : Idle(b)} IN
  /\ gone # {}
  /\ binding' = [b \in Bindings |-> IF b \in gone THEN NoBinding ELSE binding[b]]
  /\ issue' = [i \in DOMAIN issue |-> [issue[i] EXCEPT !.orphan = @ \/ issue[i].to \in gone]]
  /\ call' = [c \in Calls |->
       IF call[c] # NoCall /\ call[c].to \in gone /\ call[c].phase = "checked" /\ call[c].session = 0
         THEN [call[c] EXCEPT !.adrift = TRUE] ELSE call[c]]
  /\ UNCHANGED <<world, session, grant>>

----------------------------------------------------------------------------
(* The control plane around it.                                            *)

Freeze(w) == active' = active \ {w} /\ w \in active /\ UNCHANGED <<owner, binding, rows, call>>
Restore(w) == active' = active \cup {w} /\ w \notin active /\ UNCHANGED <<owner, binding, rows, call>>

Lease(t, w) ==
  /\ owner[t] = NoOne /\ w \in active
  /\ owner' = [owner EXCEPT ![t] = w]
  /\ UNCHANGED <<active, binding, rows, call>>

Release(t) ==
  /\ owner[t] # NoOne
  /\ owner' = [owner EXCEPT ![t] = NoOne]
  /\ UNCHANGED <<active, binding, rows, call>>

\* The time of a row runs out.
IssueLapses(i) ==
  /\ issue[i].status = "live"
  /\ issue' = [issue EXCEPT ![i].status = "void"]
  /\ UNCHANGED <<world, binding, session, grant, call>>
SessionLapses(s) ==
  /\ session[s].status = "live"
  /\ session' = [session EXCEPT ![s].status = "over"]
  /\ UNCHANGED <<world, binding, issue, grant, call>>
GrantLapses(g) ==
  /\ grant[g].status = "live"
  /\ grant' = [grant EXCEPT ![g].status = "void"]
  /\ UNCHANGED <<world, binding, issue, session, call>>

Request(c) ==
  \/ AskWithBootstrap(c) \/ AskWithSession(c) \/ WriteSession(c)
  \/ ListAssignments(c) \/ MakeGrant(c)
  \/ FetchPackage(c) \/ FetchArtifact(c) \/ SendCommand(c) \/ HandleCommand(c)

Command ==
  \/ \E b \in Bindings : \/ CreateBinding(b) \/ IssueBootstrap(b) \/ RotateBootstrap(b)
                         \/ RevokeBootstrap(b) \/ RevokeBindingSessions(b)
  \/ \E s \in DOMAIN session : RevokeSession(s)
  \/ \E g \in DOMAIN grant : RevokeGrant(g)
  \/ \E W \in {{w} : w \in Workers} \cup {Workers}, p \in Scopes, tokens, sessions \in BOOLEAN :
       ContainScope(W \X {p}, tokens, sessions)
  \/ \E w \in Workers, P \in {{p} : p \in Scopes} \cup {Scopes} : CleanupBindings({w} \X P)

Around ==
  \/ \E w \in Workers : Freeze(w) \/ Restore(w)
  \/ \E t \in Tickets : Release(t) \/ \E w \in Workers : Lease(t, w)
  \/ \E i \in DOMAIN issue : IssueLapses(i)
  \/ \E s \in DOMAIN session : SessionLapses(s)
  \/ \E g \in DOMAIN grant : GrantLapses(g)

Next == (\E c \in Calls : Request(c)) \/ Command \/ Around

Spec == Init /\ [][Next]_vars

----------------------------------------------------------------------------
(* What a command has ended is never honoured again: not by a refresh that *)
(* was checked before, and not by a session or a grant that a request      *)
(* under way still writes.  The one exception is a session that was opened *)
(* adrift: its request was checked before the binding was cleaned up and   *)
(* inserts its row afterwards, and a binding that comes back counts its    *)
(* versions from 1 again, so what a rotation in between ended may match it *)
(* once more (worker_runtime.py:635-722, repository.py:936-975,1145-1281). *)
EndedStaysEnded == \A s \in DOMAIN session : session[s].ended /\ ~session[s].adrift => ~Lives(s)

(* A bootstrap token that is listed as active opens a session for a worker *)
(* that is, unless it was stamped before the last revocation or its        *)
(* binding has been cleaned up: the token a rotation prints carries the    *)
(* very stamp of the rotation (worker_runtime.py:231,                      *)
(* worker_auth_cli.py:114).                                                *)
ListedIssueOpens ==
  \A i \in DOMAIN issue :
    LET x == issue[i] IN
    Listed(i) /\ ~x.orphan /\ x.stamp # "before" /\ Working(x.to[1]) => Opens(i)

=============================================================================
