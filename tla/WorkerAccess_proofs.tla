-------------------------- MODULE WorkerAccess_proofs --------------------------
(***************************************************************************)
(* Proofs about WorkerAccess, for every set of workers, scopes and         *)
(* tickets, any number of requests at once, and every bound.               *)
(***************************************************************************)
EXTENDS WorkerAccess, SequenceTheorems, TLAPS

Checking(c) == call[c] # NoCall /\ call[c].phase = "checked"

(* A request names a session that is there, unless it is to open one.      *)
CallsNameSessions ==
  \A c \in Calls : call[c] # NoCall =>
    \/ call[c].session \in DOMAIN session
    \/ call[c].phase = "checked" /\ call[c].session = 0

(* A session that was ended and is live was opened by a request from       *)
(* before a rotation: it has an older version.  A session that was opened  *)
(* adrift may have the version its binding has by now.                     *)
EndedIsOld ==
  \A s \in DOMAIN session :
    session[s].ended /\ ~session[s].adrift /\ session[s].status = "live" =>
      Bound(session[s].to) /\ session[s].version < binding[session[s].to].version

(* No request can bring a session back that was ended and is over.         *)
RefreshIsSafe ==
  \A c \in Calls : \A s \in DOMAIN session :
    Checking(c) /\ call[c].session = s /\ session[s].ended /\ ~session[s].adrift =>
      session[s].status = "revoked"

(* A request that is to open a session and is not adrift has the version   *)
(* of its binding, or an older one once a rotation has ended it.           *)
OpeningIsCurrent ==
  \A c \in Calls :
    Checking(c) /\ call[c].session = 0 =>
      LET b == call[c].to
      IN /\ ~call[c].adrift => Bound(b) /\ call[c].version <= binding[b].version
         /\ call[c].ended /\ ~call[c].adrift => Bound(b) /\ call[c].version < binding[b].version

(* An issue that is listed has the version of its binding.                 *)
ListedIsCurrent ==
  \A i \in DOMAIN issue :
    Listed(i) /\ ~issue[i].orphan =>
      Bound(issue[i].to) /\ issue[i].version = binding[issue[i].to].version

(* The inductive invariant.                                                *)
IInv ==
  /\ TypeOK /\ CallsNameSessions
  /\ EndedIsOld /\ RefreshIsSafe /\ OpeningIsCurrent
  /\ ListedIsCurrent

-----------------------------------------------------------------------------
LEMMA EndedStays == IInv => EndedStaysEnded
<1> SUFFICES ASSUME IInv, NEW s \in DOMAIN session, session[s].ended, ~session[s].adrift, Lives(s)
             PROVE  FALSE
  BY DEF EndedStaysEnded
<1>1. session[s] \in Session
  BY DEF IInv, TypeOK
<1>2. /\ Bound(session[s].to) /\ session[s].version < binding[session[s].to].version
      /\ session[s].version = Ensured(session[s].to).version
  BY DEF IInv, EndedIsOld, Lives
<1>3. session[s].to \in Bindings /\ session[s].version \in Nat
  BY <1>1 DEF Session
<1>4. Ensured(session[s].to).version = binding[session[s].to].version
  BY <1>2 DEF Ensured
<1> QED BY <1>2, <1>3, <1>4

LEMMA ListedOpens == IInv => ListedIssueOpens
<1> SUFFICES ASSUME IInv, NEW i \in DOMAIN issue, Listed(i), ~issue[i].orphan,
                    issue[i].stamp # "before", Working(issue[i].to[1])
             PROVE  Opens(i)
  BY DEF ListedIssueOpens
<1>1. Bound(issue[i].to) /\ issue[i].version = binding[issue[i].to].version
  BY DEF IInv, ListedIsCurrent
<1> QED BY <1>1 DEF Opens, Ensured, Before

LEMMA Initially == Init => IInv
<1> SUFFICES ASSUME Init PROVE IInv
  OBVIOUS
<1>1. TypeOK
  BY DEF Init, TypeOK
<1>2. CallsNameSessions /\ OpeningIsCurrent /\ RefreshIsSafe
  BY DEF Init, CallsNameSessions, OpeningIsCurrent, RefreshIsSafe, Checking
<1>3. EndedIsOld /\ ListedIsCurrent
  BY DEF Init, EndedIsOld, ListedIsCurrent
<1> QED BY <1>1, <1>2, <1>3 DEF IInv

-----------------------------------------------------------------------------
(* Requests. *)

LEMMA Shape ==
  ASSUME TypeOK
  PROVE  /\ Len(session) \in Nat /\ DOMAIN session = 1 .. Len(session)
         /\ Len(issue) \in Nat /\ DOMAIN issue = 1 .. Len(issue)
         /\ Len(grant) \in Nat /\ DOMAIN grant = 1 .. Len(grant)
         /\ \A s \in DOMAIN session : session[s] \in Session
         /\ \A i \in DOMAIN issue : issue[i] \in Issue
         /\ \A g \in DOMAIN grant : grant[g] \in Grant
BY DEF TypeOK

(* What a binding is once it is looked at.                                 *)
LEMMA EnsuredShape ==
  ASSUME TypeOK, NEW b \in Bindings
  PROVE  /\ Ensured(b) \in Binding /\ Ensured(b) # NoBinding
         /\ Bound(b) => Ensured(b) = binding[b]
<1>1. binding[b] \in Binding \cup {NoBinding}
  BY DEF TypeOK
<1>2. [version |-> 1, cut |-> FALSE] \in Binding
  BY DEF Binding
<1>3. [version |-> 1, cut |-> FALSE] \in [version : Nat, cut : BOOLEAN]
  OBVIOUS
<1>4. [version |-> 1, cut |-> FALSE] # NoBinding
  BY <1>3, WorkerAccessAssumption, Zenon
<1> QED BY <1>1, <1>2, <1>4 DEF Ensured, Bound

(* Looking at a binding leaves those that are bound as they were.          *)
LEMMA EnsureKeeps ==
  ASSUME TypeOK, NEW b \in Bindings, EnsureBinding(b)
  PROVE  /\ binding' \in [Bindings -> Binding \cup {NoBinding}]
         /\ \A k \in Bindings : Bound(k) => Bound(k)' /\ binding'[k] = binding[k]
         /\ Bound(b)' /\ binding'[b] = Ensured(b)
<1>1. /\ Ensured(b) \in Binding /\ Ensured(b) # NoBinding
      /\ Bound(b) => Ensured(b) = binding[b]
  BY EnsuredShape
<1>2. binding \in [Bindings -> Binding \cup {NoBinding}] /\ binding' = [binding EXCEPT ![b] = Ensured(b)]
  BY DEF TypeOK, EnsureBinding
<1> QED BY <1>1, <1>2 DEF Bound

(* One request moves.                                                      *)
LEMMA CallTyped ==
  ASSUME TypeOK, NEW c \in Calls, NEW x \in Call \cup {NoCall}, call' = [call EXCEPT ![c] = x]
  PROVE  /\ call' \in [Calls -> Call \cup {NoCall}] /\ call'[c] = x
         /\ \A k \in Calls : k # c => call'[k] = call[k]
BY DEF TypeOK

(* A request past its session, or over.                                    *)
LEMMA CallMoves ==
  ASSUME IInv, NEW c \in Calls, NEW x \in Call \cup {NoCall}, call' = [call EXCEPT ![c] = x],
         x = NoCall \/ (x.phase # "checked" /\ x.session \in DOMAIN session),
         UNCHANGED <<active, binding, issue, session>>,
         owner' \in [Tickets -> Workers \cup {NoOne}],
         grant' \in Seq(Grant), \A g \in DOMAIN grant' : grant'[g].session \in DOMAIN session
  PROVE  IInv'
<1> USE DEF IInv
<1>1. /\ call' \in [Calls -> Call \cup {NoCall}] /\ call'[c] = x
      /\ \A k \in Calls : k # c => call'[k] = call[k]
  BY CallTyped
<1>2. TypeOK'
  BY <1>1 DEF TypeOK
<1>3. CallsNameSessions'
  BY <1>1 DEF CallsNameSessions
<1>4. \A k \in Calls : Checking(k)' => Checking(k) /\ call'[k] = call[k]
  BY <1>1 DEF Checking
<1>5. EndedIsOld' /\ ListedIsCurrent'
  BY DEF EndedIsOld, ListedIsCurrent, Bound, Listed
<1>6. RefreshIsSafe'
  BY <1>4 DEF RefreshIsSafe
<1>7. OpeningIsCurrent'
  BY <1>4 DEF OpeningIsCurrent, Bound
<1> QED BY <1>2, <1>3, <1>5, <1>6, <1>7

(* A step that moves no request and no session, and looks at a binding at  *)
(* most.                                                                   *)
LEMMA BindingsStay ==
  ASSUME IInv, UNCHANGED <<session, call>>, active' \subseteq Workers,
         owner' \in [Tickets -> Workers \cup {NoOne}],
         grant' \in Seq(Grant), \A g \in DOMAIN grant' : grant'[g].session \in DOMAIN session,
         binding' \in [Bindings -> Binding \cup {NoBinding}],
         \A k \in Bindings : Bound(k) => Bound(k)' /\ binding'[k] = binding[k],
         issue' \in Seq(Issue),
         \A i \in DOMAIN issue' :
           issue'[i].status = "live" /\ ~issue'[i].orphan =>
             /\ binding'[issue'[i].to] # NoBinding
             /\ issue'[i].version = binding'[issue'[i].to].version
  PROVE  IInv'
<1> USE DEF IInv
<1>1. TypeOK'
  BY DEF TypeOK
<1>2. CallsNameSessions' /\ RefreshIsSafe'
  BY DEF CallsNameSessions, RefreshIsSafe, Checking
<1>3. EndedIsOld'
  <2> SUFFICES ASSUME NEW s \in DOMAIN session, session[s].ended, ~session[s].adrift,
                      session[s].status = "live"
               PROVE  /\ binding'[session[s].to] # NoBinding
                      /\ session[s].version < binding'[session[s].to].version
    BY DEF EndedIsOld, Bound
  <2>1. session[s].to \in Bindings
    BY Shape DEF Session
  <2> QED BY <2>1 DEF EndedIsOld, Bound
<1>4. OpeningIsCurrent'
  <2> SUFFICES ASSUME NEW c \in Calls, Checking(c), call[c].session = 0
               PROVE  LET b == call[c].to
                      IN /\ ~call[c].adrift =>
                              binding'[b] # NoBinding /\ call[c].version <= binding'[b].version
                         /\ call[c].ended /\ ~call[c].adrift =>
                              binding'[b] # NoBinding /\ call[c].version < binding'[b].version
    BY DEF OpeningIsCurrent, Checking, Bound
  <2>1. call[c].to \in Bindings
    BY DEF TypeOK, Call, Checking
  <2> QED BY <2>1 DEF OpeningIsCurrent, Bound
<1>5. ListedIsCurrent'
  BY Zenon DEF ListedIsCurrent, Listed, Bound
<1> QED BY <1>1, <1>2, <1>3, <1>4, <1>5

LEMMA AskWithBootstrapKeeps == ASSUME IInv, NEW c \in Calls, AskWithBootstrap(c) PROVE IInv'
<1> USE DEF IInv
<1>1. PICK i \in DOMAIN issue :
        /\ call[c] = NoCall /\ Opens(i) /\ EnsureBinding(issue[i].to)
        /\ call' = [call EXCEPT ![c] = Checked(issue[i].to, issue[i].version, 0, FALSE)]
        /\ UNCHANGED <<world, rows>>
  BY DEF AskWithBootstrap
<1>2. PICK b \in Bindings, v \in Nat : b = issue[i].to /\ v = issue[i].version
  BY Shape DEF Issue
<1> DEFINE x == Checked(b, v, 0, FALSE)
<1>3. /\ x \in Call /\ x.to = b /\ x.version = v /\ x.session = 0 /\ x.ended = FALSE
      /\ x.phase = "checked"
  BY DEF Checked, Call, Kinds
<1>4. /\ binding' \in [Bindings -> Binding \cup {NoBinding}]
      /\ \A k \in Bindings : Bound(k) => Bound(k)' /\ binding'[k] = binding[k]
      /\ Bound(b)' /\ binding'[b] = Ensured(b)
  BY <1>1, <1>2, EnsureKeeps
<1>5. v = binding'[b].version
  BY <1>1, <1>2, <1>4 DEF Opens
<1>6. call' = [call EXCEPT ![c] = x] /\ UNCHANGED <<active, owner, issue, session, grant>>
  BY <1>1, <1>2 DEF world, rows
<1> HIDE DEF x
<1>7. /\ call' \in [Calls -> Call \cup {NoCall}] /\ call'[c] = x
      /\ \A k \in Calls : k # c => call'[k] = call[k]
  BY <1>3, <1>6, CallTyped
<1>8. TypeOK'
  BY <1>4, <1>6, <1>7 DEF TypeOK
<1>9. CallsNameSessions'
  BY <1>3, <1>6, <1>7 DEF CallsNameSessions
<1>10. EndedIsOld'
  <2>1. \A s \in DOMAIN session : session[s].to \in Bindings
    BY Shape DEF Session
  <2> QED BY <1>4, <1>6, <2>1 DEF EndedIsOld, Bound
<1>11. ListedIsCurrent'
  <2>1. \A k \in DOMAIN issue : issue[k].to \in Bindings
    BY Shape DEF Issue
  <2> QED BY <1>4, <1>6, <2>1 DEF ListedIsCurrent, Listed, Bound
<1>12. RefreshIsSafe'
  <2>1. 0 \notin DOMAIN session
    BY Shape
  <2> QED BY <1>3, <1>6, <1>7, <2>1 DEF RefreshIsSafe, Checking
<1>13. OpeningIsCurrent'
  <2> SUFFICES ASSUME NEW k \in Calls, Checking(k)', call'[k].session = 0
               PROVE  /\ ~call'[k].adrift =>
                           /\ binding'[call'[k].to] # NoBinding
                           /\ call'[k].version <= binding'[call'[k].to].version
                      /\ call'[k].ended /\ ~call'[k].adrift =>
                           /\ binding'[call'[k].to] # NoBinding
                           /\ call'[k].version < binding'[call'[k].to].version
    BY DEF OpeningIsCurrent, Bound
  <2>1. CASE k = c
    BY <1>3, <1>4, <1>5, <1>7, <2>1 DEF Bound
  <2>2. CASE k # c
    <3>1. call[k].to \in Bindings /\ Checking(k) /\ call'[k] = call[k]
      BY <1>7, <2>2 DEF TypeOK, Call, Checking
    <3> QED BY <1>4, <3>1 DEF OpeningIsCurrent, Bound
  <2> QED BY <2>1, <2>2
<1> QED BY <1>8, <1>9, <1>10, <1>11, <1>12, <1>13

LEMMA AskWithSessionKeeps == ASSUME IInv, NEW c \in Calls, AskWithSession(c) PROVE IInv'
<1> USE DEF IInv
<1>1. PICK s \in DOMAIN session :
        /\ call[c] = NoCall /\ Lives(s) /\ EnsureBinding(session[s].to)
        /\ call' = [call EXCEPT ![c] =
             Checked(session[s].to, session[s].version, s, session[s].ended)]
        /\ UNCHANGED <<world, rows>>
  BY DEF AskWithSession
<1>2. PICK b \in Bindings, v \in Nat : b = session[s].to /\ v = session[s].version
  BY Shape DEF Session
<1>3. session[s].ended => session[s].adrift
  BY <1>1, EndedStays, Shape DEF EndedStaysEnded, Session
<1> DEFINE x == Checked(b, v, s, session[s].ended)
<1>4. /\ x \in Call /\ x.session = s /\ x.session # 0
  BY Shape DEF Checked, Call, Kinds, Session
<1>5. /\ binding' \in [Bindings -> Binding \cup {NoBinding}]
      /\ \A k \in Bindings : Bound(k) => Bound(k)' /\ binding'[k] = binding[k]
  BY <1>1, <1>2, EnsureKeeps
<1>6. call' = [call EXCEPT ![c] = x] /\ UNCHANGED <<active, owner, issue, session, grant>>
  BY <1>1, <1>2, <1>3 DEF world, rows
<1> HIDE DEF x
<1>7. /\ call' \in [Calls -> Call \cup {NoCall}] /\ call'[c] = x
      /\ \A k \in Calls : k # c => call'[k] = call[k]
  BY <1>4, <1>6, CallTyped
<1>8. TypeOK'
  BY <1>5, <1>6, <1>7 DEF TypeOK
<1>9. CallsNameSessions'
  BY <1>4, <1>6, <1>7 DEF CallsNameSessions
<1>10. EndedIsOld'
  <2>1. \A k \in DOMAIN session : session[k].to \in Bindings
    BY Shape DEF Session
  <2> QED BY <1>5, <1>6, <2>1 DEF EndedIsOld, Bound
<1>11. ListedIsCurrent'
  <2>1. \A k \in DOMAIN issue : issue[k].to \in Bindings
    BY Shape DEF Issue
  <2> QED BY <1>5, <1>6, <2>1 DEF ListedIsCurrent, Listed, Bound
<1>12. RefreshIsSafe'
  BY <1>3, <1>4, <1>6, <1>7 DEF RefreshIsSafe, Checking
<1>13. OpeningIsCurrent'
  <2> SUFFICES ASSUME NEW k \in Calls, Checking(k)', call'[k].session = 0
               PROVE  /\ ~call'[k].adrift =>
                           /\ binding'[call'[k].to] # NoBinding
                           /\ call'[k].version <= binding'[call'[k].to].version
                      /\ call'[k].ended /\ ~call'[k].adrift =>
                           /\ binding'[call'[k].to] # NoBinding
                           /\ call'[k].version < binding'[call'[k].to].version
    BY DEF OpeningIsCurrent, Bound
  <2>1. k # c
    BY <1>4, <1>7
  <2>2. call[k].to \in Bindings /\ Checking(k) /\ call'[k] = call[k]
    BY <1>7, <2>1 DEF TypeOK, Call, Checking
  <2> QED BY <1>5, <2>2 DEF OpeningIsCurrent, Bound
<1> QED BY <1>8, <1>9, <1>10, <1>11, <1>12, <1>13

(* Sessions are added or written, requests past "checked" move.            *)
LEMMA SessionsMove ==
  ASSUME IInv, NEW c \in Calls, NEW x \in Call, call' = [call EXCEPT ![c] = x],
         x.phase = "written", x.session \in DOMAIN session',
         UNCHANGED <<active, owner, binding, issue, grant>>,
         session' \in Seq(Session), DOMAIN session \subseteq DOMAIN session',
         \A s \in DOMAIN session :
           /\ session'[s].ended = session[s].ended /\ session'[s].adrift = session[s].adrift
           /\ session'[s].to = session[s].to /\ session'[s].version = session[s].version
           /\ session[s].ended /\ ~session[s].adrift => session'[s].status = session[s].status,
         \A s \in DOMAIN session' \ DOMAIN session :
           session'[s].ended /\ ~session'[s].adrift =>
             /\ binding[session'[s].to] # NoBinding
             /\ session'[s].version < binding[session'[s].to].version
  PROVE  IInv'
<1> USE DEF IInv
<1>1. /\ call' \in [Calls -> Call \cup {NoCall}] /\ call'[c] = x
      /\ \A k \in Calls : k # c => call'[k] = call[k]
  BY CallTyped
<1>2. TypeOK'
  BY <1>1 DEF TypeOK
<1>3. CallsNameSessions'
  BY <1>1 DEF CallsNameSessions
<1>4. \A k \in Calls : Checking(k)' => Checking(k) /\ call'[k] = call[k]
  BY <1>1 DEF Checking
<1>5. EndedIsOld'
  BY DEF EndedIsOld, Bound
<1>6. ListedIsCurrent'
  BY DEF ListedIsCurrent, Bound, Listed
<1>7. RefreshIsSafe'
  <2> SUFFICES ASSUME NEW k \in Calls, NEW s \in DOMAIN session', Checking(k), call[k].session = s,
                      session'[s].ended, ~session'[s].adrift
               PROVE  session'[s].status = "revoked"
    BY <1>4 DEF RefreshIsSafe
  <2>1. 0 \notin DOMAIN session'
    OBVIOUS
  <2>2. s \in DOMAIN session
    BY <2>1 DEF CallsNameSessions, Checking
  <2> QED BY <2>2 DEF RefreshIsSafe
<1>8. OpeningIsCurrent'
  BY <1>4 DEF OpeningIsCurrent, Bound
<1> QED BY <1>2, <1>3, <1>5, <1>6, <1>7, <1>8

LEMMA WriteSessionKeeps == ASSUME IInv, NEW c \in Calls, WriteSession(c) PROVE IInv'
<1> USE DEF IInv
<1>1. /\ call[c] \in Call /\ Checking(c)
      /\ UNCHANGED <<active, owner, binding, issue, grant>>
  BY DEF WriteSession, Checking, TypeOK, world
<1>2. CASE call[c].session = 0
  <2> DEFINE n == NewSession(call[c])
             x == [call[c] EXCEPT !.phase = "written", !.session = Len(session) + 1]
  <2>1. n \in Session
    BY <1>1 DEF NewSession, Session, Call
  <2>2. session' = Append(session, n)
    BY <1>2 DEF WriteSession
  <2>3. /\ session' \in Seq(Session) /\ Len(session') = Len(session) + 1
        /\ DOMAIN session' = 1 .. (Len(session) + 1)
        /\ \A s \in DOMAIN session : session'[s] = session[s]
        /\ session'[Len(session) + 1] = n
    <3>1. session \in Seq(Session)
      BY DEF TypeOK
    <3> QED BY <2>1, <2>2, <3>1, AppendProperties
  <2>4. call' = [call EXCEPT ![c] = x]
    BY <1>1, <1>2, <2>3 DEF WriteSession, TypeOK
  <2>5. x \in Call /\ x.phase = "written" /\ x.session \in DOMAIN session'
    <3>1. Len(session) + 1 \in Nat /\ Len(session) + 1 \in 1 .. (Len(session) + 1)
      BY Shape
    <3> QED BY <1>1, <2>3, <3>1 DEF Call
  <2>6. n.ended /\ ~n.adrift =>
           /\ binding[n.to] # NoBinding
           /\ n.version < binding[n.to].version
    BY <1>1, <1>2 DEF NewSession, OpeningIsCurrent, Bound
  <2>7. \A s \in DOMAIN session' \ DOMAIN session : session'[s] = n
    BY <2>3, Shape
  <2>8. DOMAIN session \subseteq DOMAIN session'
    BY <2>3, Shape
  <2> HIDE DEF x, n
  <2> QED BY <1>1, <2>3, <2>4, <2>5, <2>6, <2>7, <2>8, SessionsMove
<1>3. CASE call[c].session # 0
  <2>1. PICK s \in DOMAIN session : s = call[c].session
    BY <1>1, <1>3 DEF CallsNameSessions, Checking
  <2> DEFINE x == [call[c] EXCEPT !.phase = "written"]
             u == [session[s] EXCEPT !.status = IF @ = "revoked" THEN @ ELSE "live"]
  <2>2. session[s] \in Session /\ session \in Seq(Session)
    BY Shape DEF TypeOK
  <2>3. /\ u \in Session /\ u.ended = session[s].ended /\ u.adrift = session[s].adrift
        /\ u.to = session[s].to /\ u.version = session[s].version
    BY <2>2 DEF Session
  <2>4. session[s].ended /\ ~session[s].adrift => u.status = session[s].status
    BY <1>1, <2>1, <2>2 DEF RefreshIsSafe, Session
  <2>5. session' = [session EXCEPT ![s] = u] /\ call' = [call EXCEPT ![c] = x]
    BY <1>1, <1>3, <2>1, <2>2 DEF WriteSession, Refreshed, TypeOK, Session
  <2> HIDE DEF u
  <2>6. /\ session' \in Seq(Session) /\ DOMAIN session' = DOMAIN session
        /\ session'[s] = u /\ \A k \in DOMAIN session : k # s => session'[k] = session[k]
    BY <2>2, <2>3, <2>5
  <2>7. x \in Call /\ x.phase = "written" /\ x.session = s
    BY <1>1, <2>1 DEF Call
  <2> HIDE DEF x
  <2>8. \A k \in DOMAIN session :
          /\ session'[k].ended = session[k].ended /\ session'[k].adrift = session[k].adrift
          /\ session'[k].to = session[k].to /\ session'[k].version = session[k].version
          /\ session[k].ended /\ ~session[k].adrift => session'[k].status = session[k].status
    BY <2>3, <2>4, <2>6
  <2> QED BY <1>1, <2>5, <2>6, <2>7, <2>8, SessionsMove
<1> QED BY <1>2, <1>3

LEMMA ListAssignmentsKeeps == ASSUME IInv, NEW c \in Calls, ListAssignments(c) PROVE IInv'
<1> DEFINE ts == {t \in Tickets : Holds(t, call[c].to)}
           x == IF Refused(call[c].to) \/ ts = {} THEN NoCall
                ELSE [call[c] EXCEPT !.phase = "granting", !.todo = ts]
<1>1. /\ call[c] \in Call /\ call[c].phase = "written"
      /\ call' = [call EXCEPT ![c] = x] /\ UNCHANGED <<active, owner, binding, issue, session, grant>>
  BY DEF ListAssignments, IInv, TypeOK, world, rows
<1>2. call[c].session \in DOMAIN session
  BY <1>1 DEF ListAssignments, IInv, CallsNameSessions
<1>3. x = NoCall \/ (x \in Call /\ x.phase # "checked" /\ x.session \in DOMAIN session)
  <2>1. ts \in SUBSET Tickets
    OBVIOUS
  <2> HIDE DEF ts
  <2> QED BY <1>1, <1>2, <2>1 DEF Call
<1>4. owner \in [Tickets -> Workers \cup {NoOne}] /\ grant \in Seq(Grant)
      /\ \A g \in DOMAIN grant : grant[g].session \in DOMAIN session
  BY DEF IInv, TypeOK
<1> HIDE DEF x
<1> QED BY <1>1, <1>3, <1>4, CallMoves

LEMMA DeliverKeeps ==
  ASSUME IInv, NEW c \in Calls, NEW of, NEW phase \in {"granting", "acting"}, NEW kind \in Kinds,
         Deliver(c, of, phase, kind)
  PROVE  IInv'
<1>1. PICK g \in DOMAIN grant :
        /\ call' = [call EXCEPT ![c] = Delivered(g, phase, kind)]
        /\ UNCHANGED <<active, owner, binding, issue, session, grant>>
  BY DEF Deliver, world, rows
<1>2. /\ grant[g] \in Grant /\ grant[g].session \in DOMAIN session
      /\ session[grant[g].session] \in Session
  BY Shape DEF IInv, TypeOK
<1> DEFINE x == Delivered(g, phase, kind)
<1>3. x \in Call /\ x.phase # "checked" /\ x.session = grant[g].session
  BY <1>2 DEF Delivered, Call, To, Grant, Session
<1>4. owner \in [Tickets -> Workers \cup {NoOne}] /\ grant \in Seq(Grant)
      /\ \A k \in DOMAIN grant : grant[k].session \in DOMAIN session
  BY DEF IInv, TypeOK
<1> HIDE DEF x
<1>5. call' = [call EXCEPT ![c] = x]
  BY <1>1 DEF x
<1> QED BY <1>1, <1>2, <1>3, <1>4, <1>5, CallMoves

LEMMA HandleCommandKeeps == ASSUME IInv, NEW c \in Calls, HandleCommand(c) PROVE IInv'
<1>1. PICK t \in Tickets : owner' = owner \/ owner' = [owner EXCEPT ![t] = NoOne]
  BY DEF HandleCommand, IInv, TypeOK, Call
<1>2. owner \in [Tickets -> Workers \cup {NoOne}] /\ grant \in Seq(Grant)
      /\ \A k \in DOMAIN grant : grant[k].session \in DOMAIN session
  BY DEF IInv, TypeOK
<1>3. owner' \in [Tickets -> Workers \cup {NoOne}]
  BY <1>1, <1>2
<1>4. call' = [call EXCEPT ![c] = NoCall] /\ UNCHANGED <<active, binding, issue, session, grant>>
  BY DEF HandleCommand, rows
<1> QED BY <1>2, <1>3, <1>4, CallMoves

LEMMA MakeGrantKeeps == ASSUME IInv, NEW c \in Calls, MakeGrant(c) PROVE IInv'
<1> DEFINE n(t) == [session |-> call[c].session, ticket |-> t, kind |-> call[c].kind, status |-> "live"]
           x(t) == IF call[c].todo = {t} THEN NoCall ELSE [call[c] EXCEPT !.todo = @ \ {t}]
<1>1. PICK t \in Tickets :
        /\ call[c] # NoCall /\ call[c].phase = "granting"
        /\ grant' = Append(grant, n(t)) /\ call' = [call EXCEPT ![c] = x(t)]
        /\ UNCHANGED <<active, owner, binding, issue, session>>
  BY DEF MakeGrant, world
<1>2. call[c] \in Call /\ call[c].session \in DOMAIN session
  BY <1>1 DEF IInv, TypeOK, CallsNameSessions
<1>3. n(t) \in Grant /\ n(t).session \in DOMAIN session
  BY <1>2 DEF Grant, Call
<1>4. x(t) = NoCall \/ (x(t) \in Call /\ x(t).phase # "checked" /\ x(t).session \in DOMAIN session)
  BY <1>1, <1>2 DEF Call
<1> HIDE DEF n, x
<1>5. owner \in [Tickets -> Workers \cup {NoOne}] /\ grant \in Seq(Grant)
      /\ \A k \in DOMAIN grant : grant[k].session \in DOMAIN session
  BY DEF IInv, TypeOK
<1>6. grant' \in Seq(Grant) /\ \A g \in DOMAIN grant' : grant'[g].session \in DOMAIN session
  BY <1>1, <1>3, <1>5
<1> QED BY <1>1, <1>4, <1>5, <1>6, CallMoves

-----------------------------------------------------------------------------
(* Commands of an operator. *)

LEMMA CreateBindingKeeps == ASSUME IInv, NEW b \in Bindings, CreateBinding(b) PROVE IInv'
<1> USE DEF IInv
<1>1. /\ binding' \in [Bindings -> Binding \cup {NoBinding}]
      /\ \A k \in Bindings : Bound(k) => Bound(k)' /\ binding'[k] = binding[k]
  BY EnsureKeeps DEF CreateBinding
<1>2. UNCHANGED <<active, owner, issue, session, grant, call>>
  BY DEF CreateBinding, world, rows
<1>3. \A i \in DOMAIN issue' :
        issue'[i].status = "live" /\ ~issue'[i].orphan =>
          /\ binding'[issue'[i].to] # NoBinding
          /\ issue'[i].version = binding'[issue'[i].to].version
  <2>1. \A i \in DOMAIN issue : issue[i].to \in Bindings
    BY Shape DEF Issue
  <2> QED BY <1>1, <1>2, <2>1 DEF ListedIsCurrent, Listed, Bound
<1>4. active \subseteq Workers /\ owner \in [Tickets -> Workers \cup {NoOne}]
      /\ grant \in Seq(Grant) /\ issue \in Seq(Issue)
      /\ \A g \in DOMAIN grant : grant[g].session \in DOMAIN session
  BY DEF TypeOK
<1> QED BY <1>1, <1>2, <1>3, <1>4, BindingsStay

LEMMA IssueBootstrapKeeps == ASSUME IInv, NEW b \in Bindings, IssueBootstrap(b) PROVE IInv'
<1> USE DEF IInv
<1>1. PICK stamp \in {"before", "after"} :
        issue' = Append(issue, NewIssue(b, Ensured(b).version, stamp))
  BY DEF IssueBootstrap
<1>2. /\ binding' \in [Bindings -> Binding \cup {NoBinding}]
      /\ \A k \in Bindings : Bound(k) => Bound(k)' /\ binding'[k] = binding[k]
      /\ Bound(b)' /\ binding'[b] = Ensured(b)
  BY EnsureKeeps DEF IssueBootstrap
<1>3. UNCHANGED <<active, owner, session, grant, call>>
  BY DEF IssueBootstrap, world
<1>4. PICK v \in Nat : v = Ensured(b).version
  BY EnsuredShape DEF Binding
<1> DEFINE n == NewIssue(b, v, stamp)
<1>5. n \in Issue /\ n.to = b /\ n.version = v
  BY DEF NewIssue, Issue
<1>6. issue' = Append(issue, n)
  BY <1>1, <1>4
<1> HIDE DEF n
<1>7. issue \in Seq(Issue)
  BY DEF TypeOK
<1>8. /\ issue' \in Seq(Issue) /\ DOMAIN issue' = 1 .. (Len(issue) + 1)
      /\ \A i \in DOMAIN issue : issue'[i] = issue[i]
      /\ issue'[Len(issue) + 1] = n
  BY <1>5, <1>6, <1>7, AppendProperties
<1>9. \A i \in DOMAIN issue' :
        issue'[i].status = "live" /\ ~issue'[i].orphan =>
          /\ binding'[issue'[i].to] # NoBinding
          /\ issue'[i].version = binding'[issue'[i].to].version
  <2> SUFFICES ASSUME NEW i \in DOMAIN issue', issue'[i].status = "live", ~issue'[i].orphan
               PROVE  /\ binding'[issue'[i].to] # NoBinding
                      /\ issue'[i].version = binding'[issue'[i].to].version
    OBVIOUS
  <2>1. CASE i = Len(issue) + 1
    BY <1>2, <1>4, <1>5, <1>8, <2>1 DEF Bound
  <2>2. CASE i # Len(issue) + 1
    <3>1. i \in DOMAIN issue /\ issue'[i] = issue[i]
      BY <1>8, <2>2, Shape
    <3>2. issue[i].to \in Bindings
      BY <3>1, Shape DEF Issue
    <3>3. Bound(issue[i].to) /\ issue[i].version = binding[issue[i].to].version
      BY <3>1 DEF ListedIsCurrent, Listed
    <3> QED BY <1>2, <3>1, <3>2, <3>3 DEF Bound
  <2> QED BY <2>1, <2>2
<1>10. active \subseteq Workers /\ owner \in [Tickets -> Workers \cup {NoOne}]
       /\ grant \in Seq(Grant)
       /\ \A g \in DOMAIN grant : grant[g].session \in DOMAIN session
  BY DEF TypeOK
<1> QED BY <1>2, <1>3, <1>8, <1>9, <1>10, BindingsStay

(* Sessions S and grants G are ended, and the requests C with them.        *)
LEMMA EndKeeps ==
  ASSUME IInv, NEW S \in SUBSET DOMAIN session, NEW G, EndSessions(S, G),
         NEW C \in SUBSET Calls,
         \A c \in C : call[c] # NoCall,
         call' = [c \in Calls |-> IF c \in C THEN [call[c] EXCEPT !.ended = TRUE] ELSE call[c]],
         UNCHANGED <<active, owner>>,
         binding' \in [Bindings -> Binding \cup {NoBinding}],
         \A k \in Bindings : Bound(k) =>
           binding'[k] # NoBinding /\ binding'[k].version >= binding[k].version,
         \A c \in C : Checking(c) /\ call[c].session = 0 /\ ~call[c].adrift =>
           /\ binding'[call[c].to] # NoBinding
           /\ call[c].version < binding'[call[c].to].version,
         issue' \in Seq(Issue),
         \A i \in DOMAIN issue' :
           issue'[i].status = "live" /\ ~issue'[i].orphan =>
             /\ binding'[issue'[i].to] # NoBinding
             /\ issue'[i].version = binding'[issue'[i].to].version
  PROVE  IInv'
<1> USE DEF IInv
<1>1. /\ session' \in Seq(Session) /\ DOMAIN session' = DOMAIN session
      /\ \A s \in S : session'[s] = [session[s] EXCEPT !.status = "revoked", !.ended = TRUE, !.adrift = FALSE]
      /\ \A s \in DOMAIN session \ S : session'[s] = session[s]
  <2> DEFINE f(s) == IF s \in S THEN [session[s] EXCEPT !.status = "revoked", !.ended = TRUE, !.adrift = FALSE]
                     ELSE session[s]
  <2>1. session' = [s \in 1 .. Len(session) |-> f(s)] /\ Len(session) \in Nat
    BY Shape DEF EndSessions
  <2>2. \A s \in 1 .. Len(session) : f(s) \in Session
    BY Shape DEF Session
  <2>3. \A s \in S : f(s) = [session[s] EXCEPT !.status = "revoked", !.ended = TRUE, !.adrift = FALSE]
    OBVIOUS
  <2>4. \A s \in DOMAIN session \ S : f(s) = session[s]
    OBVIOUS
  <2> HIDE DEF f
  <2>5. session' \in Seq(Session) /\ DOMAIN session' = DOMAIN session
    BY <2>1, <2>2, Shape
  <2>6. \A s \in DOMAIN session : session'[s] = f(s)
    BY <2>1, Shape
  <2> QED BY <2>3, <2>4, <2>5, <2>6
<1>2. /\ grant' \in Seq(Grant) /\ DOMAIN grant' = DOMAIN grant
      /\ \A g \in DOMAIN grant : grant'[g].session = grant[g].session
  <2> DEFINE f(g) == IF g \in G THEN [grant[g] EXCEPT !.status = "void"] ELSE grant[g]
  <2>1. grant' = [g \in 1 .. Len(grant) |-> f(g)] /\ Len(grant) \in Nat
    BY Shape DEF EndSessions
  <2>2. \A g \in 1 .. Len(grant) : f(g) \in Grant /\ f(g).session = grant[g].session
    BY Shape DEF Grant
  <2> HIDE DEF f
  <2> QED BY <2>1, <2>2, Shape
<1>3. \A s \in DOMAIN session :
        /\ session[s] \in Session
        /\ session'[s].to = session[s].to /\ session'[s].version = session[s].version
        /\ s \in S => session'[s].status = "revoked"
        /\ s \notin S => session'[s] = session[s]
  <2> SUFFICES ASSUME NEW s \in DOMAIN session
               PROVE  /\ session[s] \in Session
                      /\ session'[s].to = session[s].to /\ session'[s].version = session[s].version
                      /\ s \in S => session'[s].status = "revoked"
                      /\ s \notin S => session'[s] = session[s]
    OBVIOUS
  <2>1. session[s] \in Session
    BY Shape
  <2>2. CASE s \in S
    BY <1>1, <2>1, <2>2 DEF Session
  <2>3. CASE s \notin S
    BY <1>1, <2>1, <2>3
  <2> QED BY <2>1, <2>2, <2>3
<1>4. \A c \in Calls :
        /\ c \in C => call'[c] = [call[c] EXCEPT !.ended = TRUE]
        /\ c \notin C => call'[c] = call[c]
  OBVIOUS
<1>5. \A c \in Calls : call[c] # NoCall => call[c] \in Call
  BY DEF TypeOK
<1>6. call' \in [Calls -> Call \cup {NoCall}]
  <2>1. \A c \in C : [call[c] EXCEPT !.ended = TRUE] \in Call
    BY <1>5, ZenonT(30) DEF Call
  <2> QED BY <2>1 DEF TypeOK
<1>7. \A c \in C :
        /\ call'[c].to = call[c].to /\ call'[c].version = call[c].version
        /\ call'[c].session = call[c].session /\ call'[c].phase = call[c].phase
        /\ call'[c].adrift = call[c].adrift
  BY <1>4, <1>5 DEF Call
<1>8. TypeOK'
  BY <1>1, <1>2, <1>6 DEF TypeOK
<1>9. CallsNameSessions'
  BY <1>1, <1>4, <1>7 DEF CallsNameSessions
<1>10. EndedIsOld'
  <2> SUFFICES ASSUME NEW s \in DOMAIN session, session'[s].ended, ~session'[s].adrift,
                      session'[s].status = "live"
               PROVE  /\ binding'[session'[s].to] # NoBinding
                      /\ session'[s].version < binding'[session'[s].to].version
    BY <1>1 DEF EndedIsOld, Bound
  <2>1. s \notin S /\ session'[s] = session[s]
    BY <1>3
  <2>2. session[s].to \in Bindings /\ session[s].version \in Nat
    BY <1>3 DEF Session
  <2>3. Bound(session[s].to) /\ session[s].version < binding[session[s].to].version
    BY <2>1 DEF EndedIsOld
  <2>4. /\ binding'[session[s].to] # NoBinding
        /\ binding'[session[s].to].version >= binding[session[s].to].version
    BY <2>2, <2>3
  <2>5. binding[session[s].to] \in Binding /\ binding'[session[s].to] \in Binding
    BY <2>2, <2>3, <2>4 DEF TypeOK, Bound
  <2> QED BY <2>1, <2>2, <2>3, <2>4, <2>5 DEF Binding
<1>11. \A c \in Calls : Checking(c)' => Checking(c)
  BY <1>4, <1>7 DEF Checking
<1>12. RefreshIsSafe'
  <2> SUFFICES ASSUME NEW c \in Calls, NEW s \in DOMAIN session', Checking(c)',
                      call'[c].session = s, session'[s].ended, ~session'[s].adrift
               PROVE  session'[s].status = "revoked"
    BY DEF RefreshIsSafe
  <2>1. Checking(c) /\ call[c].session = s /\ s \in DOMAIN session
    BY <1>1, <1>4, <1>7, <1>11
  <2>2. CASE s \in S
    BY <1>3, <2>1, <2>2
  <2>3. CASE s \notin S
    <3>1. session'[s] = session[s]
      BY <1>3, <2>1, <2>3
    <3> QED BY <2>1, <3>1 DEF RefreshIsSafe
  <2> QED BY <2>2, <2>3
<1>13. OpeningIsCurrent'
  <2> SUFFICES ASSUME NEW c \in Calls, Checking(c), call'[c].session = 0
               PROVE  /\ ~call'[c].adrift =>
                           /\ binding'[call'[c].to] # NoBinding
                           /\ call'[c].version <= binding'[call'[c].to].version
                      /\ call'[c].ended /\ ~call'[c].adrift =>
                           /\ binding'[call'[c].to] # NoBinding
                           /\ call'[c].version < binding'[call'[c].to].version
    BY <1>11 DEF OpeningIsCurrent, Bound
  <2>1. PICK k \in Bindings, v \in Nat : k = call[c].to /\ v = call[c].version
    BY <1>5 DEF Checking, Call
  <2>2. call'[c].to = k /\ call'[c].version = v /\ call[c].session = 0
        /\ call'[c].adrift = call[c].adrift
    BY <1>4, <1>7, <2>1
  <2>3. \A w \in Nat : Bound(k) /\ binding'[k] # NoBinding
          => binding[k].version \in Nat /\ binding'[k].version \in Nat
    BY DEF TypeOK, Bound, Binding
  <2>4. Bound(k) => binding'[k] # NoBinding /\ binding'[k].version >= binding[k].version
    OBVIOUS
  <2>5. ~call[c].adrift => Bound(k) /\ v <= binding[k].version
    BY <2>1, <2>2, Zenon DEF OpeningIsCurrent
  <2>6. call[c].ended /\ ~call[c].adrift => Bound(k) /\ v < binding[k].version
    BY <2>1, <2>2, Zenon DEF OpeningIsCurrent
  <2>7. CASE c \in C
    <3>1. ~call[c].adrift => binding'[k] # NoBinding /\ v < binding'[k].version
      BY <2>1, <2>2, <2>7
    <3> QED BY <2>2, <2>3, <2>4, <2>5, <3>1
  <2>8. CASE c \notin C
    <3>1. call'[c] = call[c]
      BY <1>4, <2>8
    <3>2. ~call'[c].adrift => binding'[k] # NoBinding /\ v <= binding'[k].version
      BY <2>3, <2>4, <2>5, <3>1
    <3>3. call'[c].ended /\ ~call'[c].adrift => binding'[k] # NoBinding /\ v < binding'[k].version
      BY <2>3, <2>4, <2>6, <3>1
    <3> QED BY <2>2, <3>2, <3>3
  <2> QED BY <2>7, <2>8
<1>14. ListedIsCurrent'
  BY Zenon DEF ListedIsCurrent, Listed, Bound
<1> QED BY <1>8, <1>9, <1>10, <1>12, <1>13, <1>14

(* Revoked issues are listed no more.                                      *)
LEMMA IssuesRevoked ==
  ASSUME IInv, NEW I
  PROVE  /\ RevokedIssues(I) \in Seq(Issue) /\ DOMAIN RevokedIssues(I) = DOMAIN issue
         /\ \A i \in DOMAIN issue :
              RevokedIssues(I)[i].status = "live" => i \notin I /\ RevokedIssues(I)[i] = issue[i]
<1> DEFINE f(i) == IF i \in I THEN [issue[i] EXCEPT !.status = "void"] ELSE issue[i]
<1>1. DOMAIN issue = 1 .. Len(issue) /\ Len(issue) \in Nat /\ \A i \in DOMAIN issue : issue[i] \in Issue
  BY Shape DEF IInv
<1>2. RevokedIssues(I) = [i \in 1 .. Len(issue) |-> f(i)]
  BY <1>1 DEF RevokedIssues
<1>3. \A i \in 1 .. Len(issue) :
        f(i) \in Issue /\ (f(i).status = "live" => i \notin I /\ f(i) = issue[i])
  BY <1>1 DEF Issue
<1> HIDE DEF f
<1> QED BY <1>1, <1>2, <1>3

LEMMA RotateBootstrapKeeps == ASSUME IInv, NEW b \in Bindings, RotateBootstrap(b) PROVE IInv'
<1> USE DEF IInv
<1>1. /\ Bound(b) /\ UNCHANGED <<active, owner>>
      /\ binding' = [binding EXCEPT ![b] = [version |-> binding[b].version + 1, cut |-> TRUE]]
      /\ EndSessions(SessionsOf(b), GrantsOf(b))
      /\ issue' = Append(RevokedIssues(LiveIssues(b)), NewIssue(b, binding[b].version + 1, "at"))
  BY DEF RotateBootstrap, world
<1> DEFINE C == {c \in Calls : call[c] # NoCall /\ call[c].to = b}
<1>2. call' = [c \in Calls |-> IF c \in C THEN [call[c] EXCEPT !.ended = TRUE] ELSE call[c]]
  BY DEF RotateBootstrap, EndCalls
<1>3. PICK v \in Nat : v = binding[b].version
  BY <1>1 DEF TypeOK, Bound, Binding
<1> DEFINE y == [version |-> v + 1, cut |-> TRUE]
           n == NewIssue(b, v + 1, "at")
<1>4. y \in Binding /\ y.version = v + 1 /\ y # NoBinding
  <2>1. y \in Binding /\ y.version = v + 1
    BY DEF Binding
  <2>2. y \in [version : Nat, cut : BOOLEAN]
    OBVIOUS
  <2> QED BY <2>1, <2>2, WorkerAccessAssumption, Zenon
<1>5. n \in Issue /\ n.to = b /\ n.version = v + 1
  BY DEF NewIssue, Issue
<1>6. binding' = [binding EXCEPT ![b] = y] /\ issue' = Append(RevokedIssues(LiveIssues(b)), n)
  BY <1>1, <1>3
<1> HIDE DEF y, n
<1>7. /\ binding' \in [Bindings -> Binding \cup {NoBinding}]
      /\ binding'[b] = y /\ \A k \in Bindings : k # b => binding'[k] = binding[k]
  BY <1>4, <1>6 DEF TypeOK
<1>8. \A k \in Bindings : Bound(k) => binding'[k] # NoBinding /\ binding'[k].version >= binding[k].version
  <2> SUFFICES ASSUME NEW k \in Bindings, Bound(k)
               PROVE  binding'[k] # NoBinding /\ binding'[k].version >= binding[k].version
    OBVIOUS
  <2>1. binding[k].version \in Nat
    BY DEF TypeOK, Bound, Binding
  <2> QED BY <1>3, <1>4, <1>7, <2>1 DEF Bound
<1>9. \A c \in C : Checking(c) /\ call[c].session = 0 /\ ~call[c].adrift =>
        /\ binding'[call[c].to] # NoBinding
        /\ call[c].version < binding'[call[c].to].version
  <2> SUFFICES ASSUME NEW c \in C, Checking(c), call[c].session = 0, ~call[c].adrift
               PROVE  binding'[b] # NoBinding /\ call[c].version < binding'[b].version
    OBVIOUS
  <2>1. ~call[c].adrift => call[c].version <= v /\ call[c].version \in Nat
    BY <1>3 DEF OpeningIsCurrent, TypeOK, Call
  <2> QED BY <1>4, <1>7, <2>1
<1> DEFINE R == RevokedIssues(LiveIssues(b))
<1>10. /\ R \in Seq(Issue) /\ DOMAIN R = 1 .. Len(issue) /\ Len(R) = Len(issue)
       /\ Len(issue) \in Nat
       /\ \A i \in DOMAIN issue : R[i].status = "live" => i \notin LiveIssues(b) /\ R[i] = issue[i]
  <2>1. /\ R \in Seq(Issue) /\ DOMAIN R = DOMAIN issue
        /\ \A i \in DOMAIN issue : R[i].status = "live" => i \notin LiveIssues(b) /\ R[i] = issue[i]
    BY IssuesRevoked
  <2> HIDE DEF R
  <2> QED BY <2>1, Shape
<1> HIDE DEF R
<1>11. /\ issue' \in Seq(Issue) /\ DOMAIN issue' = 1 .. (Len(issue) + 1)
       /\ \A i \in 1 .. Len(issue) : issue'[i] = R[i]
       /\ issue'[Len(issue) + 1] = n
  BY <1>5, <1>6, <1>10, AppendProperties DEF R
<1>12. \A i \in DOMAIN issue' :
         issue'[i].status = "live" /\ ~issue'[i].orphan =>
           /\ binding'[issue'[i].to] # NoBinding
           /\ issue'[i].version = binding'[issue'[i].to].version
  <2> SUFFICES ASSUME NEW i \in DOMAIN issue', issue'[i].status = "live", ~issue'[i].orphan
               PROVE  /\ binding'[issue'[i].to] # NoBinding
                      /\ issue'[i].version = binding'[issue'[i].to].version
    OBVIOUS
  <2>1. CASE i = Len(issue) + 1
    BY <1>4, <1>5, <1>7, <1>11, <2>1
  <2>2. CASE i # Len(issue) + 1
    <3>1. i \in DOMAIN issue /\ issue'[i] = issue[i] /\ i \notin LiveIssues(b)
      BY <1>10, <1>11, <2>2, Shape
    <3>2. issue[i].to \in Bindings /\ issue[i].to # b
      BY <3>1, Shape DEF Issue, LiveIssues, Listed
    <3>3. Bound(issue[i].to) /\ issue[i].version = binding[issue[i].to].version
      BY <3>1 DEF ListedIsCurrent, Listed
    <3> QED BY <1>7, <3>1, <3>2, <3>3 DEF Bound
  <2> QED BY <2>1, <2>2
<1>13. SessionsOf(b) \in SUBSET DOMAIN session /\ C \in SUBSET Calls /\ \A c \in C : call[c] # NoCall
  BY DEF SessionsOf
<1> HIDE DEF C
<1> QED BY <1>1, <1>2, <1>7, <1>8, <1>9, <1>11, <1>12, <1>13, EndKeeps

(* A listed issue stays current where the bindings keep their versions.    *)
LEMMA ListedStay ==
  ASSUME IInv, NEW I, issue' = RevokedIssues(I),
         \A k \in Bindings : Bound(k) =>
           binding'[k] # NoBinding /\ binding'[k].version = binding[k].version
  PROVE  /\ issue' \in Seq(Issue)
         /\ \A i \in DOMAIN issue' :
              issue'[i].status = "live" /\ ~issue'[i].orphan =>
                /\ binding'[issue'[i].to] # NoBinding
                /\ issue'[i].version = binding'[issue'[i].to].version
<1>1. /\ issue' \in Seq(Issue) /\ DOMAIN issue' = DOMAIN issue
      /\ \A i \in DOMAIN issue : issue'[i].status = "live" => issue'[i] = issue[i]
  BY IssuesRevoked
<1> SUFFICES ASSUME NEW i \in DOMAIN issue', issue'[i].status = "live", ~issue'[i].orphan
             PROVE  /\ binding'[issue'[i].to] # NoBinding
                    /\ issue'[i].version = binding'[issue'[i].to].version
  BY <1>1
<1>2. issue'[i] = issue[i] /\ issue[i].to \in Bindings
  BY <1>1, Shape DEF IInv, Issue
<1>3. Bound(issue[i].to) /\ issue[i].version = binding[issue[i].to].version
  BY <1>1, <1>2 DEF IInv, ListedIsCurrent, Listed
<1> QED BY <1>2, <1>3

LEMMA RevokeBootstrapKeeps == ASSUME IInv, NEW b \in Bindings, RevokeBootstrap(b) PROVE IInv'
<1> USE DEF IInv
<1>1. /\ Bound(b) /\ UNCHANGED <<active, owner>>
      /\ binding' = [binding EXCEPT ![b].cut = TRUE]
      /\ EndSessions(SessionsOf(b), GrantsOf(b))
      /\ issue' = RevokedIssues(LiveIssues(b))
  BY DEF RevokeBootstrap, world
<1> DEFINE C == {c \in Calls : call[c] # NoCall /\ call[c].session \in SessionsOf(b)}
<1>2. call' = [c \in Calls |-> IF c \in C THEN [call[c] EXCEPT !.ended = TRUE] ELSE call[c]]
  BY DEF RevokeBootstrap, EndCalls
<1> DEFINE y == [binding[b] EXCEPT !.cut = TRUE]
<1>3. y \in Binding /\ y.version = binding[b].version
  BY <1>1 DEF TypeOK, Bound, Binding
<1>4. y # NoBinding
  <2>1. y \in [version : Nat, cut : BOOLEAN]
    BY <1>3 DEF Binding
  <2> QED BY <2>1, WorkerAccessAssumption, Zenon
<1>5. binding' = [binding EXCEPT ![b] = y]
  BY <1>1 DEF TypeOK
<1> HIDE DEF y
<1>6. /\ binding' \in [Bindings -> Binding \cup {NoBinding}]
      /\ binding'[b] = y /\ \A k \in Bindings : k # b => binding'[k] = binding[k]
  BY <1>3, <1>5 DEF TypeOK
<1>7. \A k \in Bindings : Bound(k) =>
        /\ binding'[k] # NoBinding /\ binding'[k].version = binding[k].version
        /\ binding'[k].version >= binding[k].version
  <2> SUFFICES ASSUME NEW k \in Bindings, Bound(k)
               PROVE  binding'[k] # NoBinding /\ binding'[k].version = binding[k].version
                      /\ binding'[k].version >= binding[k].version
    OBVIOUS
  <2>1. binding[k].version \in Nat
    BY DEF TypeOK, Bound, Binding
  <2> QED BY <1>3, <1>4, <1>6, <2>1 DEF Bound
<1>8. \A c \in C : call[c].session # 0
  BY Shape DEF SessionsOf
<1>9. SessionsOf(b) \in SUBSET DOMAIN session /\ C \in SUBSET Calls /\ \A c \in C : call[c] # NoCall
  BY DEF SessionsOf
<1>10. /\ issue' \in Seq(Issue)
       /\ \A i \in DOMAIN issue' :
            issue'[i].status = "live" /\ ~issue'[i].orphan =>
              /\ binding'[issue'[i].to] # NoBinding
              /\ issue'[i].version = binding'[issue'[i].to].version
  BY <1>1, <1>7, ListedStay
<1> HIDE DEF C
<1> QED BY <1>1, <1>2, <1>6, <1>7, <1>8, <1>9, <1>10, EndKeeps

LEMMA BindingsTyped ==
  ASSUME IInv
  PROVE  /\ \A k \in Bindings : Bound(k) =>
              /\ binding[k] # NoBinding /\ binding[k].version \in Nat
              /\ binding[k].version >= binding[k].version
         /\ issue \in Seq(Issue)
         /\ \A i \in DOMAIN issue :
              issue[i].status = "live" /\ ~issue[i].orphan =>
                /\ binding[issue[i].to] # NoBinding
                /\ issue[i].version = binding[issue[i].to].version
<1>1. \A k \in Bindings : Bound(k) => binding[k] # NoBinding /\ binding[k].version \in Nat
  BY DEF IInv, TypeOK, Bound, Binding
<1>2. issue \in Seq(Issue)
  BY DEF IInv, TypeOK
<1>3. ListedIsCurrent
  BY DEF IInv
<1> QED BY <1>1, <1>2, <1>3 DEF ListedIsCurrent, Listed, Bound

LEMMA RevokeSessionsKeep ==
  ASSUME IInv, NEW S \in SUBSET DOMAIN session, NEW G, RevokeSessions(S, G) PROVE IInv'
<1>1. EndSessions(S, G) /\ UNCHANGED <<active, owner, binding, issue>>
  BY DEF RevokeSessions, world
<1> DEFINE C == {c \in Calls : call[c] # NoCall /\ call[c].session \in S}
<1>2. call' = [c \in Calls |-> IF c \in C THEN [call[c] EXCEPT !.ended = TRUE] ELSE call[c]]
  BY DEF RevokeSessions, EndCalls
<1>3. \A c \in C : call[c].session # 0
  BY Shape DEF IInv
<1>4. C \in SUBSET Calls /\ \A c \in C : call[c] # NoCall
  OBVIOUS
<1>5. binding \in [Bindings -> Binding \cup {NoBinding}]
  BY DEF IInv, TypeOK
<1> HIDE DEF C
<1>6. /\ \A k \in Bindings : Bound(k) =>
           binding'[k] # NoBinding /\ binding'[k].version >= binding[k].version
      /\ issue' \in Seq(Issue)
      /\ \A i \in DOMAIN issue' :
           issue'[i].status = "live" /\ ~issue'[i].orphan =>
             /\ binding'[issue'[i].to] # NoBinding
             /\ issue'[i].version = binding'[issue'[i].to].version
  BY <1>1, BindingsTyped
<1> QED BY <1>1, <1>2, <1>3, <1>4, <1>5, <1>6, EndKeeps

LEMMA RevokeSessionKeeps == ASSUME IInv, NEW s \in DOMAIN session, RevokeSession(s) PROVE IInv'
BY RevokeSessionsKeep DEF RevokeSession

LEMMA RevokeBindingSessionsKeeps ==
  ASSUME IInv, NEW b \in Bindings, RevokeBindingSessions(b) PROVE IInv'
<1>1. SessionsOf(b) \in SUBSET DOMAIN session
  BY DEF SessionsOf
<1> QED BY <1>1, RevokeSessionsKeep DEF RevokeBindingSessions

LEMMA ContainScopeKeeps ==
  ASSUME IInv, NEW B, NEW tokens \in BOOLEAN, NEW sessions \in BOOLEAN,
         ContainScope(B, tokens, sessions)
  PROVE  IInv'
<1> DEFINE S == IF sessions THEN {s \in DOMAIN session :
                                    session[s].to \in B /\ session[s].status = "live"} ELSE {}
           I == IF tokens THEN UNION {LiveIssues(b) : b \in B} ELSE {}
<1>1. /\ EndSessions(S, GrantsUnder(S)) /\ issue' = RevokedIssues(I)
      /\ call' = [c \in Calls |->
           IF call[c] # NoCall /\ call[c].session \in S THEN [call[c] EXCEPT !.ended = TRUE]
           ELSE call[c]]
      /\ UNCHANGED <<active, owner, binding>>
  BY DEF ContainScope, EndCalls, world
<1>2. S \in SUBSET DOMAIN session
  OBVIOUS
<1> HIDE DEF S, I
<1> DEFINE C == {c \in Calls : call[c] # NoCall /\ call[c].session \in S}
<1>3. call' = [c \in Calls |-> IF c \in C THEN [call[c] EXCEPT !.ended = TRUE] ELSE call[c]]
  BY <1>1
<1>4. \A c \in C : call[c].session # 0
  BY <1>2, Shape DEF IInv
<1>5. C \in SUBSET Calls /\ \A c \in C : call[c] # NoCall
  OBVIOUS
<1>6. binding \in [Bindings -> Binding \cup {NoBinding}]
  BY DEF IInv, TypeOK
<1> HIDE DEF C
<1>7. \A k \in Bindings : Bound(k) =>
        /\ binding'[k] # NoBinding /\ binding'[k].version = binding[k].version
        /\ binding'[k].version >= binding[k].version
  BY <1>1, BindingsTyped
<1>8. /\ issue' \in Seq(Issue)
      /\ \A i \in DOMAIN issue' :
           issue'[i].status = "live" /\ ~issue'[i].orphan =>
             /\ binding'[issue'[i].to] # NoBinding
             /\ issue'[i].version = binding'[issue'[i].to].version
  BY <1>1, <1>7, ListedStay
<1> QED BY <1>1, <1>2, <1>3, <1>4, <1>5, <1>6, <1>7, <1>8, EndKeeps

LEMMA CleanupBindingsKeeps ==
  ASSUME IInv, NEW B \in SUBSET Bindings, CleanupBindings(B) PROVE IInv'
<1> USE DEF IInv
<1> DEFINE gone == {b \in B : Idle(b)}
           out(c) == /\ call[c] # NoCall /\ call[c].to \in gone
                     /\ call[c].phase = "checked" /\ call[c].session = 0
           put(i) == [issue[i] EXCEPT !.orphan = @ \/ issue[i].to \in gone]
           moved(c) == IF out(c) THEN [call[c] EXCEPT !.adrift = TRUE] ELSE call[c]
<1>1. /\ binding' = [b \in Bindings |-> IF b \in gone THEN NoBinding ELSE binding[b]]
      /\ issue' = [i \in DOMAIN issue |-> put(i)]
      /\ call' = [c \in Calls |-> moved(c)]
      /\ UNCHANGED <<active, owner, session, grant>>
  BY DEF CleanupBindings, world
<1>2. \A b \in Bindings : /\ b \in gone => binding'[b] = NoBinding
                          /\ b \notin gone => binding'[b] = binding[b]
  BY <1>1
<1>3. \A c \in Calls : call[c] # NoCall => call[c] \in Call
  BY DEF TypeOK
<1>4. \A c \in Calls :
        /\ ~out(c) => call'[c] = call[c]
        /\ out(c) => call'[c] = [call[c] EXCEPT !.adrift = TRUE]
  BY <1>1
<1>5. \A c \in Calls :
        /\ call'[c] \in Call \cup {NoCall}
        /\ out(c) => call'[c].adrift = TRUE
        /\ call'[c] # NoCall => call[c] # NoCall
        /\ call[c] # NoCall => /\ call'[c].session = call[c].session
                               /\ call'[c].phase = call[c].phase
  <2> SUFFICES ASSUME NEW c \in Calls
               PROVE  /\ call'[c] \in Call \cup {NoCall}
                      /\ out(c) => call'[c].adrift = TRUE
                      /\ call'[c] # NoCall => call[c] # NoCall
                      /\ call[c] # NoCall => /\ call'[c].session = call[c].session
                                             /\ call'[c].phase = call[c].phase
    OBVIOUS
  <2>1. call[c] \in Call \cup {NoCall}
    BY DEF TypeOK
  <2>2. CASE out(c)
    <3>1. call[c] \in Call /\ call'[c] = [call[c] EXCEPT !.adrift = TRUE]
      BY <1>4, <2>1, <2>2
    <3> QED BY <2>2, <3>1 DEF Call
  <2>3. CASE ~out(c)
    <3>1. call'[c] = call[c]
      BY <1>4, <2>3
    <3> QED BY <2>1, <2>3, <3>1
  <2> QED BY <2>2, <2>3
<1>6. call' \in [Calls -> Call \cup {NoCall}]
  BY <1>1, <1>5
<1>7. \A i \in DOMAIN issue :
        /\ put(i) \in Issue /\ put(i).to = issue[i].to /\ put(i).version = issue[i].version
        /\ put(i).status = issue[i].status
        /\ ~put(i).orphan => ~issue[i].orphan /\ issue[i].to \notin gone
  BY Shape DEF Issue
<1> HIDE DEF put
<1>8. /\ issue' \in Seq(Issue) /\ DOMAIN issue' = DOMAIN issue
      /\ \A i \in DOMAIN issue : issue'[i] = put(i)
  <2>1. issue' = [i \in 1 .. Len(issue) |-> put(i)] /\ Len(issue) \in Nat
    BY <1>1, Shape
  <2>2. \A i \in 1 .. Len(issue) : put(i) \in Issue
    BY <1>7, Shape
  <2>3. issue' \in Seq(Issue) /\ DOMAIN issue' = 1 .. Len(issue)
    BY <2>1, <2>2
  <2>4. \A i \in 1 .. Len(issue) : issue'[i] = put(i)
    BY <2>1
  <2> QED BY <2>3, <2>4, Shape
<1>9. binding' \in [Bindings -> Binding \cup {NoBinding}]
  BY <1>1 DEF TypeOK
<1>10. TypeOK'
  BY <1>1, <1>6, <1>8, <1>9 DEF TypeOK
<1>11. \A c \in Calls : Checking(c)' => Checking(c)
  BY <1>5 DEF Checking
<1>12. CallsNameSessions'
  BY <1>1, <1>5 DEF CallsNameSessions
<1>13. RefreshIsSafe'
  <2> SUFFICES ASSUME NEW c \in Calls, NEW s \in DOMAIN session', Checking(c)',
                      call'[c].session = s, session'[s].ended, ~session'[s].adrift
               PROVE  session'[s].status = "revoked"
    BY DEF RefreshIsSafe
  <2>1. call[c].session = s /\ Checking(c)
    BY <1>5, <1>11 DEF Checking
  <2> QED BY <1>1, <2>1 DEF RefreshIsSafe
<1>14. EndedIsOld'
  <2> SUFFICES ASSUME NEW s \in DOMAIN session, session[s].ended, ~session[s].adrift,
                      session[s].status = "live"
               PROVE  /\ binding'[session[s].to] # NoBinding
                      /\ session[s].version < binding'[session[s].to].version
    BY <1>1 DEF EndedIsOld, Bound
  <2>1. session[s].to \in Bindings /\ session[s].to \notin gone
    BY Shape DEF Session, Idle
  <2> QED BY <1>2, <2>1 DEF EndedIsOld, Bound
<1>15. OpeningIsCurrent'
  <2> SUFFICES ASSUME NEW c \in Calls, Checking(c)', call'[c].session = 0
               PROVE  /\ ~call'[c].adrift =>
                           /\ binding'[call'[c].to] # NoBinding
                           /\ call'[c].version <= binding'[call'[c].to].version
                      /\ call'[c].ended /\ ~call'[c].adrift =>
                           /\ binding'[call'[c].to] # NoBinding
                           /\ call'[c].version < binding'[call'[c].to].version
    BY DEF OpeningIsCurrent, Bound
  <2>1. CASE out(c)
    BY <1>5, <2>1
  <2>2. CASE ~out(c)
    <3>1. call'[c] = call[c] /\ Checking(c) /\ call[c].session = 0
      BY <1>4, <1>11, <2>2
    <3>2. call[c].to \in Bindings /\ call[c].to \notin gone
      BY <1>3, <2>2, <3>1 DEF Checking, Call
    <3>3. binding'[call[c].to] = binding[call[c].to]
      BY <1>2, <3>2
    <3> QED BY <3>1, <3>3 DEF OpeningIsCurrent, Bound
  <2> QED BY <2>1, <2>2
<1>16. ListedIsCurrent'
  <2> SUFFICES ASSUME NEW i \in DOMAIN issue, issue'[i].status = "live", ~issue'[i].orphan
               PROVE  /\ binding'[issue'[i].to] # NoBinding
                      /\ issue'[i].version = binding'[issue'[i].to].version
    BY <1>8 DEF ListedIsCurrent, Listed, Bound
  <2>1. /\ issue'[i].to = issue[i].to /\ issue'[i].version = issue[i].version
        /\ issue[i].status = "live" /\ ~issue[i].orphan /\ issue[i].to \notin gone
    BY <1>7, <1>8
  <2>2. issue[i].to \in Bindings
    BY Shape DEF Issue
  <2>3. binding'[issue[i].to] = binding[issue[i].to]
    BY <1>2, <2>1, <2>2
  <2> QED BY <2>1, <2>3 DEF ListedIsCurrent, Listed, Bound
<1> QED BY <1>10, <1>12, <1>13, <1>14, <1>15, <1>16

-----------------------------------------------------------------------------
(* The control plane around it, and the theorems. *)

(* Rows as they are.                                                       *)
LEMMA AsIs ==
  ASSUME IInv
  PROVE  /\ active \subseteq Workers /\ owner \in [Tickets -> Workers \cup {NoOne}]
         /\ grant \in Seq(Grant) /\ binding \in [Bindings -> Binding \cup {NoBinding}]
         /\ \A g \in DOMAIN grant : grant[g].session \in DOMAIN session
BY DEF IInv, TypeOK

LEMMA StaffKeeps ==
  ASSUME IInv, NEW w \in Workers, Freeze(w) \/ Restore(w) PROVE IInv'
<1>1. UNCHANGED <<owner, binding, issue, session, grant, call>>
  BY DEF Freeze, Restore, rows
<1>2. active' \subseteq Workers
  BY AsIs DEF Freeze, Restore
<1>3. \A k \in Bindings : Bound(k) => Bound(k)' /\ binding'[k] = binding[k]
  BY <1>1 DEF Bound
<1> QED BY <1>1, <1>2, <1>3, AsIs, BindingsTyped, BindingsStay

LEMMA LeaseKeeps ==
  ASSUME IInv, NEW t \in Tickets, Release(t) \/ \E w \in Workers : Lease(t, w) PROVE IInv'
<1>1. UNCHANGED <<active, binding, issue, session, grant, call>>
  BY DEF Lease, Release, rows
<1>2. owner' \in [Tickets -> Workers \cup {NoOne}]
  BY AsIs DEF Lease, Release
<1>3. \A k \in Bindings : Bound(k) => Bound(k)' /\ binding'[k] = binding[k]
  BY <1>1 DEF Bound
<1> QED BY <1>1, <1>2, <1>3, AsIs, BindingsTyped, BindingsStay

LEMMA IssueLapsesKeeps == ASSUME IInv, NEW i \in DOMAIN issue, IssueLapses(i) PROVE IInv'
<1>1. UNCHANGED <<active, owner, binding, session, grant, call>>
  BY DEF IssueLapses, world
<1>2. issue[i] \in Issue /\ issue \in Seq(Issue)
  BY Shape DEF IInv, TypeOK
<1> DEFINE n == [issue[i] EXCEPT !.status = "void"]
<1>3. n \in Issue /\ n.status = "void"
  BY <1>2 DEF Issue
<1>4. issue' = [issue EXCEPT ![i] = n]
  BY <1>2 DEF IssueLapses
<1> HIDE DEF n
<1>5. /\ issue' \in Seq(Issue) /\ DOMAIN issue' = DOMAIN issue
      /\ \A k \in DOMAIN issue : issue'[k] = IF k = i THEN n ELSE issue[k]
  BY <1>2, <1>3, <1>4
<1>6. \A k \in DOMAIN issue' :
        issue'[k].status = "live" /\ ~issue'[k].orphan =>
          /\ binding'[issue'[k].to] # NoBinding
          /\ issue'[k].version = binding'[issue'[k].to].version
  <2> SUFFICES ASSUME NEW k \in DOMAIN issue, issue'[k].status = "live", ~issue'[k].orphan
               PROVE  /\ binding'[issue'[k].to] # NoBinding
                      /\ issue'[k].version = binding'[issue'[k].to].version
    BY <1>5
  <2>1. issue'[k] = issue[k]
    BY <1>3, <1>5
  <2> QED BY <1>1, <2>1, BindingsTyped
<1>7. \A k \in Bindings : Bound(k) => Bound(k)' /\ binding'[k] = binding[k]
  BY <1>1 DEF Bound
<1> QED BY <1>1, <1>5, <1>6, <1>7, AsIs, BindingsStay

(* A grant goes, nothing else.                                             *)
LEMMA GrantsStay ==
  ASSUME IInv, UNCHANGED <<active, owner, binding, issue, session, call>>,
         grant' \in Seq(Grant), DOMAIN grant' = DOMAIN grant,
         \A g \in DOMAIN grant : grant'[g].session = grant[g].session
  PROVE  IInv'
<1>1. \A k \in Bindings : Bound(k) => Bound(k)' /\ binding'[k] = binding[k]
  BY DEF Bound
<1> QED BY <1>1, AsIs, BindingsTyped, BindingsStay

LEMMA GrantLapsesKeeps == ASSUME IInv, NEW g \in DOMAIN grant, GrantLapses(g) PROVE IInv'
<1>1. grant[g] \in Grant /\ grant \in Seq(Grant)
  BY Shape DEF IInv, TypeOK
<1> DEFINE n == [grant[g] EXCEPT !.status = "void"]
<1>2. n \in Grant /\ n.session = grant[g].session
  BY <1>1 DEF Grant
<1>3. grant' = [grant EXCEPT ![g] = n] /\ UNCHANGED <<active, owner, binding, issue, session, call>>
  BY <1>1 DEF GrantLapses, world
<1> HIDE DEF n
<1>4. /\ grant' \in Seq(Grant) /\ DOMAIN grant' = DOMAIN grant
      /\ \A k \in DOMAIN grant : grant'[k].session = grant[k].session
  BY <1>1, <1>2, <1>3
<1> QED BY <1>3, <1>4, GrantsStay

LEMMA RevokeGrantKeeps == ASSUME IInv, NEW g \in DOMAIN grant, RevokeGrant(g) PROVE IInv'
<1> DEFINE f(k) == IF k \in {g} THEN [grant[k] EXCEPT !.status = "void"] ELSE grant[k]
<1>1. /\ session' = [s \in DOMAIN session |-> session[s]] /\ grant' = [k \in DOMAIN grant |-> f(k)]
      /\ UNCHANGED <<active, owner, binding, issue, call>>
  BY DEF RevokeGrant, EndSessions, world
<1>2. \A k \in 1 .. Len(grant) : f(k) \in Grant /\ f(k).session = grant[k].session
  BY Shape DEF IInv, Grant
<1> HIDE DEF f
<1>3. session \in Seq(Session) /\ TypeOK
  BY DEF IInv, TypeOK
<1>4. session' = session
  BY <1>1, <1>3
<1>5. grant' = [k \in 1 .. Len(grant) |-> f(k)] /\ Len(grant) \in Nat
  BY <1>1, <1>3, Shape
<1>6. grant' \in Seq(Grant) /\ DOMAIN grant' = DOMAIN grant
  BY <1>2, <1>3, <1>5, Shape
<1>7. \A k \in DOMAIN grant : grant'[k].session = grant[k].session
  BY <1>2, <1>3, <1>5, Shape
<1> QED BY <1>1, <1>4, <1>6, <1>7, GrantsStay

LEMMA SessionLapsesKeeps == ASSUME IInv, NEW s \in DOMAIN session, SessionLapses(s) PROVE IInv'
<1> USE DEF IInv
<1>1. /\ session[s].status = "live" /\ session[s] \in Session /\ session \in Seq(Session)
      /\ UNCHANGED <<active, owner, binding, issue, grant, call>>
  BY Shape DEF SessionLapses, TypeOK, world
<1> DEFINE n == [session[s] EXCEPT !.status = "over"]
<1>2. n \in Session /\ n.status = "over" /\ n.ended = session[s].ended /\ n.adrift = session[s].adrift
  BY <1>1 DEF Session
<1>3. session' = [session EXCEPT ![s] = n]
  BY <1>1 DEF SessionLapses
<1> HIDE DEF n
<1>4. /\ session' \in Seq(Session) /\ DOMAIN session' = DOMAIN session
      /\ \A k \in DOMAIN session : k # s => session'[k] = session[k]
      /\ session'[s] = n
  BY <1>1, <1>2, <1>3
<1>5. TypeOK'
  BY <1>1, <1>4 DEF TypeOK
<1>6. CallsNameSessions' /\ OpeningIsCurrent'
  BY <1>1, <1>4 DEF CallsNameSessions, OpeningIsCurrent, Checking, Bound
<1>7. ListedIsCurrent'
  BY <1>1 DEF ListedIsCurrent, Listed, Bound
<1>8. EndedIsOld'
  <2> SUFFICES ASSUME NEW k \in DOMAIN session, session'[k].ended, ~session'[k].adrift,
                      session'[k].status = "live"
               PROVE  /\ binding'[session'[k].to] # NoBinding
                      /\ session'[k].version < binding'[session'[k].to].version
    BY <1>4 DEF EndedIsOld, Bound
  <2>1. session'[k] = session[k]
    BY <1>2, <1>4
  <2> QED BY <1>1, <2>1 DEF EndedIsOld, Bound
<1>9. RefreshIsSafe'
  <2> SUFFICES ASSUME NEW c \in Calls, NEW k \in DOMAIN session, Checking(c), call[c].session = k,
                      session'[k].ended, ~session'[k].adrift
               PROVE  session'[k].status = "revoked"
    BY <1>1, <1>4 DEF RefreshIsSafe, Checking
  <2>1. CASE k = s
    BY <1>1, <1>2, <1>4, <2>1 DEF RefreshIsSafe
  <2>2. CASE k # s
    <3>1. session'[k] = session[k]
      BY <1>4, <2>2
    <3> QED BY <3>1 DEF RefreshIsSafe
  <2> QED BY <2>1, <2>2
<1> QED BY <1>5, <1>6, <1>7, <1>8, <1>9

(* The invariant is inductive: every step of Next keeps it.                *)
LEMMA Inductive == ASSUME IInv, [Next]_vars PROVE IInv'
<1>1. ASSUME NEW c \in Calls, Request(c) PROVE IInv'
  <2>1. CASE AskWithBootstrap(c) BY <2>1, AskWithBootstrapKeeps
  <2>2. CASE AskWithSession(c) BY <2>2, AskWithSessionKeeps
  <2>3. CASE WriteSession(c) BY <2>3, WriteSessionKeeps
  <2>4. CASE ListAssignments(c) BY <2>4, ListAssignmentsKeeps
  <2>5. CASE MakeGrant(c) BY <2>5, MakeGrantKeeps
  <2>6. CASE FetchPackage(c)
    <3>1. PICK kind \in {"artifact", "command"} : Deliver(c, "package", "granting", kind)
      BY <2>6 DEF FetchPackage
    <3>2. kind \in Kinds
      BY DEF Kinds
    <3> QED BY <3>1, <3>2, DeliverKeeps
  <2>7. CASE FetchArtifact(c)
    <3>1. "artifact" \in Kinds
      BY DEF Kinds
    <3> QED BY <2>7, <3>1, DeliverKeeps DEF FetchArtifact
  <2>8. CASE SendCommand(c)
    <3>1. "command" \in Kinds
      BY DEF Kinds
    <3> QED BY <2>8, <3>1, DeliverKeeps DEF SendCommand
  <2>9. CASE HandleCommand(c) BY <2>9, HandleCommandKeeps
  <2> QED BY <1>1, <2>1, <2>2, <2>3, <2>4, <2>5, <2>6, <2>7, <2>8, <2>9 DEF Request
<1>2. CASE Command
  <2>1. ASSUME NEW b \in Bindings,
               \/ CreateBinding(b) \/ IssueBootstrap(b) \/ RotateBootstrap(b)
               \/ RevokeBootstrap(b) \/ RevokeBindingSessions(b)
        PROVE  IInv'
    BY <2>1, CreateBindingKeeps, IssueBootstrapKeeps, RotateBootstrapKeeps,
       RevokeBootstrapKeeps, RevokeBindingSessionsKeeps
  <2>2. ASSUME NEW s \in DOMAIN session, RevokeSession(s) PROVE IInv'
    BY <2>2, RevokeSessionKeeps
  <2>3. ASSUME NEW g \in DOMAIN grant, RevokeGrant(g) PROVE IInv'
    BY <2>3, RevokeGrantKeeps
  <2>4. ASSUME NEW W, NEW p, NEW tokens \in BOOLEAN, NEW sessions \in BOOLEAN,
               ContainScope(W \X {p}, tokens, sessions)
        PROVE  IInv'
    BY <2>4, ContainScopeKeeps
  <2>5. ASSUME NEW w \in Workers, NEW P \in {{p} : p \in Scopes} \cup {Scopes},
               CleanupBindings({w} \X P)
        PROVE  IInv'
    <3>1. {w} \X P \in SUBSET Bindings
      BY DEF Bindings
    <3> QED BY <2>5, <3>1, CleanupBindingsKeeps
  <2> QED BY <1>2, <2>1, <2>2, <2>3, <2>4, <2>5 DEF Command
<1>3. CASE Around
  BY <1>3, StaffKeeps, LeaseKeeps, IssueLapsesKeeps, SessionLapsesKeeps, GrantLapsesKeeps
     DEF Around
<1>4. CASE UNCHANGED vars
  BY <1>4 DEF vars, IInv, TypeOK, CallsNameSessions, EndedIsOld, RefreshIsSafe, OpeningIsCurrent,
              ListedIsCurrent, Checking, Bound, Listed
<1> QED BY <1>1, <1>2, <1>3, <1>4 DEF Next

LEMMA Invariant == Spec => []IInv
BY Initially, Inductive, PTL DEF Spec

(* What an operator has ended is never honoured again, whatever requests   *)
(* are under way and whatever order the operator's commands, refreshes,    *)
(* cleanups and lapses take, unless its binding was cleaned up between the *)
(* check of the request that opened it and its row                         *)
(* (worker_runtime.py:635-722, repository.py:936-975,1145-1281).           *)
THEOREM EndedSessionsStayEnded == Spec => []EndedStaysEnded
BY Invariant, EndedStays, PTL

(* A bootstrap token that the store lists as active opens a session, for   *)
(* every worker that is active, unless it is stamped before the last       *)
(* revocation or its binding is gone (worker_runtime.py:231,               *)
(* worker_auth_cli.py:114).                                                *)
THEOREM ListedTokensOpen == Spec => []ListedIssueOpens
BY Invariant, ListedOpens, PTL
=============================================================================
