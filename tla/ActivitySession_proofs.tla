------------------------ MODULE ActivitySession_proofs ------------------------
(***************************************************************************)
(* What a browser shows as an active session is one the database honours,  *)
(* a scrubbed token never comes back, and a session belongs to the binding *)
(* its request asked for: for any number of participants and requests and  *)
(* any lifetimes of sessions and bindings.                                 *)
(***************************************************************************)
EXTENDS ActivitySession, FiniteSetTheorems, TLAPS

-----------------------------------------------------------------------------
(* The invariant, participant by participant.                              *)

Types == TypeOK /\ IsFiniteSet(calls) /\ clock <= MaxTime

Pending(p) == join[p].stage \in {"asked", "inserting", "granted"}
Granted(p) == session[p].row \/ join[p].stage = "granted"

\* A session was granted on a binding it matches, which outlives it.
Placed(p) ==
    Granted(p) => /\ binding.row
                  /\ binding.place = Request[p].place
                  /\ Request[p].run \in {NoRun, binding.run}
                  /\ join[p].at + SessionTtl <= binding.expires

\* A session request takes at most JoinDelay; its session is made at its end.
Dated(p) ==
    /\ join[p].at <= clock
    /\ Pending(p) => clock <= join[p].at + JoinDelay
    /\ session[p].row => /\ join[p].stage = "answered"
                         /\ session[p].token # 0
                         /\ session[p].expires <= join[p].at + SessionTtl

\* The controller starts once, when the bootstrap is over.
Shown(p) ==
    /\ view[p] = "idle" => join[p].stage = "none"
    /\ view[p] = "resolved" => session[p].row
    /\ controller[p].state # "none" => view[p] \notin {"idle", "joining", "reading", "resolved"}

\* The controller's copy of the session, before and after its start.
Copied(p) ==
    /\ controller[p].state = "none" /\ session[p].row
       => /\ session[p].token = 1
          /\ session[p].idle = Min({join[p].at + IdleTtl, session[p].expires})
    /\ controller[p].state # "none"
       => session[p].row /\ controller[p].absolute = session[p].expires
    /\ controller[p].state \notin {"active", "disconnected"} => controller[p].timer > MaxTime

Of(p) == {c \in calls : c.owner = p}

\* What a browser asks and what it waits for.
Asked(p) ==
    \A c \in Of(p) :
        /\ controller[p].state # "none"
        /\ c.kind = "revoke" => ~c.awaited /\ c.stage = "sent"
        /\ c.stage = "answered" => c.awaited
        /\ c.fresh # 0 => c.stage = "answered" /\ c.token # 0
        /\ c.stage = "holding" => c.token # 0
        /\ c.awaited /\ Running(p) => c.token = controller[p].token

\* A browser waits for one refresh, and one transaction holds its session.
Single(p) ==
    \A c, d \in Of(p) :
        (c.awaited /\ d.awaited) \/ (c.stage = "holding" /\ d.stage = "holding") => c = d

\* No request under way can replace the token the database knows.
Settled(p) ==
    \A d \in Of(p) :
        d.kind = "refresh" /\ d.stage # "answered"
        => d.stage = "sent" /\ d.token # session[p].token

\* A replacement under way is the token the database knows.
Replaced(p) ==
    \A c \in Of(p) :
        c.fresh # 0 => /\ session[p].token = c.fresh
                       /\ session[p].idle = c.idle
                       /\ Settled(p)

\* An active controller that waits for nothing holds that token.
Synchronised(p) ==
    controller[p].state = "active" /\ ~Awaits(p)
    => /\ session[p].token = controller[p].token
       /\ session[p].idle = controller[p].idle
       /\ Settled(p)

Server(p) == Placed(p) /\ Dated(p)
Browser(p) == Copied(p) /\ Asked(p) /\ Single(p) /\ Replaced(p) /\ Synchronised(p)

SessionInv == Types /\ \A p \in Participants : Server(p) /\ Shown(p) /\ Browser(p)

-----------------------------------------------------------------------------
(* Numbers and records.                                                    *)

LEMMA Constants ==
  /\ SessionTtl \in Nat /\ IdleTtl \in Nat /\ RetryDelay \in Nat /\ BindingTtl \in Nat
  /\ Lead \in Nat /\ JoinDelay \in Nat /\ LastJoin \in Nat /\ MaxTime \in Nat
  /\ BindingTtl >= SessionTtl + JoinDelay
  /\ NoTimer \in Nat /\ NoTimer > MaxTime
BY TimesAssumption DEF NoTimer

LEMMA LeastOfTwo ==
  ASSUME NEW a \in Nat, NEW b \in Nat
  PROVE  Min({a, b}) \in Nat /\ Min({a, b}) <= a /\ Min({a, b}) <= b
<1>1. \E x \in {a, b} : \A y \in {a, b} : x <= y
  <2>1. CASE a <= b
    BY <2>1
  <2>2. CASE ~(a <= b)
    BY <2>2
  <2> QED
    BY <2>1, <2>2
<1>2. Min({a, b}) \in {a, b} /\ \A y \in {a, b} : Min({a, b}) <= y
  BY <1>1 DEF Min
<1> QED
  BY <1>2

LEMMA LeastOfThree ==
  ASSUME NEW a \in Nat, NEW b \in Nat, NEW c \in Nat
  PROVE  Min({a, b, c}) \in Nat
<1>1. \E x \in {a, b, c} : \A y \in {a, b, c} : x <= y
  <2>1. CASE a <= b /\ a <= c
    BY <2>1
  <2>2. CASE b <= a /\ b <= c
    BY <2>2
  <2>3. CASE c <= a /\ c <= b
    BY <2>3
  <2> QED
    BY <2>1, <2>2, <2>3
<1>2. Min({a, b, c}) \in {a, b, c}
  BY <1>1 DEF Min
<1> QED
  BY <1>2

LEMMA OwnersAre ==
  ASSUME Types, NEW c \in calls
  PROVE  c \in Calls /\ c.owner \in Participants /\ c \in Of(c.owner)
BY DEF Types, TypeOK, Calls, Of

\* A random token is one nobody holds.
LEMMA FreshTokenIsNew ==
  ASSUME Types, NEW p \in Participants
  PROVE  /\ FreshToken(p) \in Nat /\ FreshToken(p) # 0
         /\ FreshToken(p) # session[p].token /\ FreshToken(p) # controller[p].token
         /\ \A c \in Of(p) : FreshToken(p) # c.token /\ FreshToken(p) # c.fresh
<1> DEFINE S == {c \in calls : c.owner = p}
           T == {{c.token, c.fresh} : c \in S}
           f == [c \in S |-> {c.token, c.fresh}]
           n == Cardinality(InUse(p))
<1>1. IsFiniteSet(S)
  BY FS_Subset DEF Types
<1>2. f \in Surjection(S, T)
  BY DEF Surjection
<1>3. IsFiniteSet(T)
  <2> HIDE DEF S, T, f
  <2> QED
    BY <1>1, <1>2, FS_Surjection
<1>4. \A x \in T : IsFiniteSet(x)
  <2>1. TAKE x \in T
  <2>2. PICK c \in S : x = {c.token, c.fresh}
    BY <2>1
  <2>3. IsFiniteSet({c.token}) /\ {c.token} \cup {c.fresh} = {c.token, c.fresh}
    BY FS_Singleton
  <2>4. IsFiniteSet({c.token} \cup {c.fresh})
    BY <2>3, FS_AddElement
  <2> QED
    BY <2>2, <2>3, <2>4
<1>5. IsFiniteSet(UNION T)
  <2> HIDE DEF T
  <2> QED
    BY <1>3, <1>4, FS_UNION
<1>6. IsFiniteSet({session[p].token, controller[p].token})
  <2>1. IsFiniteSet({session[p].token})
    BY FS_Singleton
  <2>2. IsFiniteSet({session[p].token} \cup {controller[p].token})
    BY <2>1, FS_AddElement
  <2>3. {session[p].token} \cup {controller[p].token} = {session[p].token, controller[p].token}
    OBVIOUS
  <2> QED
    BY <2>2, <2>3
<1>7. IsFiniteSet(InUse(p)) /\ n \in Nat
  <2>1. InUse(p) = {session[p].token, controller[p].token} \cup UNION T
    BY DEF InUse
  <2>2. IsFiniteSet(InUse(p))
    <3> HIDE DEF T
    <3> QED
      BY <2>1, <1>5, <1>6, FS_Union
  <2> QED
    BY <2>2, FS_CardinalityType
<1>8. \E t \in 1 .. n + 1 : t \notin InUse(p)
  <2>1. SUFFICES ASSUME 1 .. n + 1 \subseteq InUse(p) PROVE FALSE
    OBVIOUS
  <2>2. Cardinality(1 .. n + 1) <= n
    BY <1>7, <2>1, FS_Subset
  <2>3. Cardinality(1 .. n + 1) = n + 1
    BY <1>7, FS_Interval
  <2> QED
    BY <1>7, <2>2, <2>3
<1>9. FreshToken(p) \in 1 .. n + 1 /\ FreshToken(p) \notin InUse(p)
  BY <1>8 DEF FreshToken
<1>10. FreshToken(p) \in Nat /\ FreshToken(p) # 0
  BY <1>7, <1>9
<1> QED
  BY <1>9, <1>10 DEF InUse, Of

-----------------------------------------------------------------------------
(* Types.                                                                  *)

LEMMA CallsMade ==
  ASSUME Types, NEW c \in Calls
  PROVE  /\ Held(c) \in Calls /\ Unheard(c) \in Calls
         /\ \A idle, fresh \in Nat : Answered(c, idle, fresh) \in Calls
BY DEF Types, TypeOK, Calls, Held, Unheard, Answered

LEMMA RequestsMade ==
  ASSUME NEW p \in Participants, NEW token \in Nat
  PROVE  Refresh(p, token) \in Calls /\ Revocation(p, token) \in Calls
BY DEF Calls, Refresh, Revocation

LEMMA ControllersMade ==
  ASSUME Types, NEW k \in Controllers, NEW state \in States, NEW timer \in Nat
  PROVE  Scrubbed(k, state) \in Controllers /\ Timed(k, state, timer) \in Controllers
BY Constants DEF Controllers, Scrubbed, Timed

LEMMA RefreshTimes ==
  ASSUME Types, NEW idle \in Nat
  PROVE  RefreshAt(idle) \in Nat
BY Constants DEF Types, TypeOK, RefreshAt

LEMMA RenewedController ==
  ASSUME Types, NEW k \in Controllers, NEW c \in Calls
  PROVE  Renewed(k, c) \in Controllers
<1>1. c.idle \in Nat /\ c.fresh \in Nat /\ k.absolute \in Nat
  BY DEF Calls, Controllers
<1>2. RefreshAt(c.idle) \in Nat
  BY <1>1, RefreshTimes
<1> QED
  BY <1>1, <1>2 DEF Controllers, States, Renewed

LEMMA SessionsMade ==
  ASSUME NEW s \in Rows, NEW token \in Nat, NEW idle \in Nat
  PROVE  Rotated(s, token, idle) \in Rows /\ Revoked(s) \in Rows
BY DEF Rows, Rotated, Revoked

LEMMA BindingsMade ==
  ASSUME Types, NEW p \in Participants
  PROVE  NewBinding(p) \in Bindings /\ Leased(binding, p) \in Bindings
<1>1. join[p].at + BindingTtl \in Nat
  BY Constants DEF Types, TypeOK
<1>2. NewBinding(p) \in Bindings
  BY <1>1 DEF Bindings, NewBinding
<1>3. Leased(binding, p) \in Bindings
  BY <1>1 DEF Types, TypeOK, Bindings, Leased
<1> QED
  BY <1>2, <1>3

LEMMA NewSessionIs ==
  ASSUME Types, NEW p \in Participants
  PROVE  /\ NewSession(p) \in Rows
         /\ NewSession(p).row /\ NewSession(p).token = 1
         /\ NewSession(p).expires <= join[p].at + SessionTtl
         /\ NewSession(p).idle = Min({join[p].at + IdleTtl, NewSession(p).expires})
<1> DEFINE e == Min({join[p].at + SessionTtl, join[p].lease})
           i == Min({join[p].at + IdleTtl, e})
<1>1. join[p].at + SessionTtl \in Nat /\ join[p].at + IdleTtl \in Nat /\ join[p].lease \in Nat
  BY Constants DEF Types, TypeOK
<1>2. e \in Nat /\ e <= join[p].at + SessionTtl
  BY <1>1, LeastOfTwo
<1>3. i \in Nat
  <2> HIDE DEF e
  <2> QED
    BY <1>1, <1>2, LeastOfTwo
<1>4. NewSession(p) = [row |-> TRUE, token |-> 1, revoked |-> FALSE, expires |-> e, idle |-> i]
  BY DEF NewSession
<1> HIDE DEF e, i
<1>5. NewSession(p) \in Rows
  BY <1>2, <1>3, <1>4 DEF Rows
<1>6. NewSession(p).expires = e /\ NewSession(p).idle = i /\ NewSession(p).row /\ NewSession(p).token = 1
  BY <1>4
<1> QED
  BY <1>2, <1>5, <1>6 DEF i

LEMMA NewControllerIs ==
  ASSUME Types, NEW p \in Participants
  PROVE  /\ NewController(p) \in Controllers
         /\ NewController(p).state = "active" /\ NewController(p).token = 1
         /\ NewController(p).idle = Min({join[p].at + IdleTtl, session[p].expires})
         /\ NewController(p).absolute = session[p].expires
<1> DEFINE i == Min({join[p].at + IdleTtl, session[p].expires})
<1>1. join[p].at + IdleTtl \in Nat /\ session[p].expires \in Nat
  BY Constants DEF Types, TypeOK, Rows
<1>2. i \in Nat
  BY <1>1, LeastOfTwo
<1>3. NewController(p) = [state |-> "active", token |-> 1, idle |-> i,
                           absolute |-> session[p].expires, timer |-> RefreshAt(i)]
  BY DEF NewController
<1> HIDE DEF i
<1>4. RefreshAt(i) \in Nat
  BY <1>2, RefreshTimes
<1>5. NewController(p) \in Controllers
  BY <1>1, <1>2, <1>3, <1>4 DEF Controllers, States
<1>6. /\ NewController(p).state = "active" /\ NewController(p).token = 1
      /\ NewController(p).idle = i /\ NewController(p).absolute = session[p].expires
  BY <1>3
<1> QED
  BY <1>5, <1>6 DEF i

\* What the steps do to the requests, which stay few and well-formed.
LEMMA CallsStayTyped ==
  ASSUME Types, NEW D, IsFiniteSet(D), D \subseteq Calls, calls' \subseteq calls \cup D
  PROVE  calls' \subseteq Calls /\ IsFiniteSet(calls')
<1>1. IsFiniteSet(calls \cup D)
  BY FS_Union DEF Types
<1>2. IsFiniteSet(calls')
  BY <1>1, FS_Subset
<1> QED
  BY <1>2 DEF Types, TypeOK

LEMMA OneMoreCall ==
  ASSUME Types, NEW d \in Calls, calls' \subseteq calls \cup {d}
  PROVE  calls' \subseteq Calls /\ IsFiniteSet(calls')
<1>1. IsFiniteSet({d}) /\ {d} \subseteq Calls
  BY FS_Singleton
<1> QED
  BY <1>1, CallsStayTyped

LEMMA NoMoreCalls ==
  ASSUME Types, calls' \subseteq calls
  PROVE  calls' \subseteq Calls /\ IsFiniteSet(calls')
BY CallsStayTyped, FS_EmptySet

LEMMA AnswerKeepsTypes ==
  ASSUME Types, NEW c \in calls, NEW idle \in Nat, NEW fresh \in Nat, Answer(c, idle, fresh)
  PROVE  calls' \subseteq Calls /\ IsFiniteSet(calls')
<1>1. Answered(c, idle, fresh) \in Calls
  BY CallsMade, OwnersAre
<1>2. calls' \subseteq calls \cup {Answered(c, idle, fresh)}
  BY DEF Answer, Becomes
<1> QED
  BY <1>1, <1>2, OneMoreCall

LEMMA ServerKeepsTypes ==
  ASSUME Types, NEW p \in Participants, Serve(p)
  PROVE  Types'
<1> USE DEF Types, TypeOK
<1>1. \A stage \in Joins, lease \in Nat :
         Advance(p, stage, lease) => join' \in [Participants -> [stage : Joins, at : Nat, lease : Nat]]
  BY DEF Advance
<1>2. 0 \in Nat /\ join[p].at + BindingTtl \in Nat
  BY Constants
<1>3. Leased(binding, p) \in Bindings /\ NewBinding(p) \in Bindings /\ NewSession(p) \in Rows
  BY BindingsMade, NewSessionIs
<1>4. JoinExisting(p) => /\ binding' \in Bindings /\ view' \in [Participants -> Views]
                         /\ join' \in [Participants -> [stage : Joins, at : Nat, lease : Nat]]
  BY <1>1, <1>2, <1>3 DEF JoinExisting, Views, Joins
<1>5. CASE FindBinding(p)
  <2>1. CASE binding.row
    BY <1>4, <1>5, <2>1 DEF FindBinding
  <2>2. CASE ~binding.row
    BY <1>1, <1>2, <1>5, <2>2 DEF FindBinding, Joins
  <2> QED
    BY <2>1, <2>2
<1>6. CASE InsertBinding(p)
  <2>1. CASE binding.row
    BY <1>4, <1>6, <2>1 DEF InsertBinding
  <2>2. CASE ~binding.row
    BY <1>1, <1>2, <1>3, <1>6, <2>2 DEF InsertBinding, Joins
  <2> QED
    BY <2>1, <2>2
<1>7. CASE CreateSession(p)
  BY <1>1, <1>2, <1>3, <1>7 DEF CreateSession, Joins
<1> QED
  BY <1>5, <1>6, <1>7 DEF Serve

LEMMA HandlerKeepsTypes ==
  ASSUME Types, NEW c \in calls, Handle(c) \/ DropCall(c)
  PROVE  Types'
<1> USE DEF Types, TypeOK
<1> DEFINE p == c.owner
<1>1. p \in Participants /\ c \in Calls
  BY OwnersAre
<1>2. session[p] \in Rows
  BY <1>1
<1>3. CASE LockSession(c)
  <2>1. Held(c) \in Calls
    BY <1>1, CallsMade
  <2>2. calls' \subseteq Calls /\ IsFiniteSet(calls')
    <3>1. CASE Becomes(c, Held(c))
      BY <2>1, <3>1, OneMoreCall DEF Becomes
    <3>2. CASE Answer(c, 0, 0)
      BY <3>2, AnswerKeepsTypes
    <3> QED
      BY <1>3, <3>1, <3>2 DEF LockSession
  <2> QED
    BY <1>3, <2>2 DEF LockSession
<1>4. CASE RotateToken(c)
  <2> DEFINE idle == Min({c.at + IdleTtl, session[p].expires, binding.expires})
  <2>1. idle \in Nat
    <3>1. c.at + IdleTtl \in Nat /\ session[p].expires \in Nat /\ binding.expires \in Nat
      BY <1>1, <1>2, Constants DEF Calls, Rows, Bindings
    <3> QED
      BY <3>1, LeastOfThree
  <2>2. FreshToken(p) \in Nat
    BY <1>1, FreshTokenIsNew
  <2>3. Rotated(session[p], FreshToken(p), idle) \in Rows
    <3> HIDE DEF idle
    <3> QED
      BY <1>2, <2>1, <2>2, SessionsMade
  <2>4. \/ Answer(c, 0, 0) /\ UNCHANGED session
        \/ /\ Answer(c, idle, FreshToken(p))
           /\ session' = [session EXCEPT ![p] = Rotated(session[p], FreshToken(p), idle)]
    BY <1>4 DEF RotateToken
  <2> HIDE DEF idle
  <2>5. calls' \subseteq Calls /\ IsFiniteSet(calls')
    BY <2>1, <2>2, <2>4, AnswerKeepsTypes
  <2>6. session' \in [Participants -> Rows]
    BY <1>1, <2>3, <2>4
  <2> QED
    BY <1>4, <2>5, <2>6 DEF RotateToken
<1>5. CASE RevokeSession(c)
  <2>1. Revoked(session[p]) \in Rows
    BY <1>2, SessionsMade
  <2>2. session' \in [Participants -> Rows]
    BY <1>1, <1>5, <2>1 DEF RevokeSession
  <2>3. calls' \subseteq Calls /\ IsFiniteSet(calls')
    BY <1>5, NoMoreCalls DEF RevokeSession
  <2> QED
    BY <1>5, <2>2, <2>3 DEF RevokeSession
<1>6. CASE DropCall(c)
  <2>1. calls' \subseteq Calls /\ IsFiniteSet(calls')
    BY <1>6, NoMoreCalls DEF DropCall
  <2> QED
    BY <1>6, <2>1 DEF DropCall
<1> QED
  BY <1>3, <1>4, <1>5, <1>6 DEF Handle

LEMMA ExpiryKeepsTypes ==
  ASSUME Types, NEW p \in Participants, NEW k \in Controllers, Expire(p, k)
  PROVE  controller' \in [Participants -> Controllers] /\ view' \in [Participants -> Views]
<1>1. Scrubbed(k, "expired") \in Controllers
  BY Constants DEF Controllers, Scrubbed, States
<1> QED
  BY <1>1 DEF Types, TypeOK, Expire, Views

LEMMA RefreshKeepsTypes ==
  ASSUME Types, NEW p \in Participants, NEW k \in Controllers, RefreshNow(p, k),
         UNCHANGED <<clock, binding, session, join>>
  PROVE  Types'
<1> USE DEF Types, TypeOK
<1>1. Refresh(p, k.token) \in Calls
  BY RequestsMade DEF Controllers
<1>2. calls' \subseteq Calls /\ IsFiniteSet(calls')
  <2>1. calls' \subseteq calls \cup {Refresh(p, k.token)}
    BY DEF RefreshNow
  <2> QED
    BY <1>1, <2>1, OneMoreCall
<1>3. controller' \in [Participants -> Controllers] /\ view' \in [Participants -> Views]
  <2>1. CASE Expire(p, k)
    BY <2>1, ExpiryKeepsTypes
  <2>2. CASE controller' = [controller EXCEPT ![p] = k] /\ UNCHANGED view
    BY <2>2
  <2> QED
    BY <2>1, <2>2 DEF RefreshNow
<1> QED
  BY <1>2, <1>3

LEMMA BrowserKeepsTypes ==
  ASSUME Types, NEW p \in Participants, Browse(p)
  PROVE  Types'
<1> USE DEF Types, TypeOK
<1>1. controller[p] \in Controllers
  OBVIOUS
<1>2. CASE Launch(p)
  BY <1>2 DEF Launch, Views, Joins
<1>3. CASE Bootstrap(p)
  BY <1>3 DEF Bootstrap, Views
<1>4. CASE ReadContext(p)
  <2>1. view' \in [Participants -> Views]
    BY <1>4 DEF ReadContext, Views
  <2> QED
    BY <1>4, <2>1 DEF ReadContext
<1>5. CASE FailBootstrap(p)
  BY <1>5 DEF FailBootstrap, Views
<1>6. CASE Start(p)
  <2>1. NewController(p) \in Controllers
    BY NewControllerIs
  <2>2. Scrubbed(NewController(p), "expired") \in Controllers
    BY <2>1, Constants DEF Controllers, Scrubbed, States
  <2>3. controller' \in [Participants -> Controllers]
    BY <1>6, <2>1, <2>2 DEF Start
  <2>4. view' \in [Participants -> Views]
    BY <1>6 DEF Start, Views
  <2> QED
    BY <1>6, <2>3, <2>4 DEF Start
<1>7. CASE FireTimer(p)
  <2>1. Timed(controller[p], controller[p].state, NoTimer) \in Controllers
    BY <1>1, Constants DEF Controllers, Timed
  <2> QED
    BY <1>7, <2>1, RefreshKeepsTypes DEF FireTimer
<1>8. CASE Online(p)
  BY <1>1, <1>8, RefreshKeepsTypes DEF Online
<1>9. Scrubbed(controller[p], "stopped") \in Controllers
  BY <1>1, Constants DEF Controllers, Scrubbed, States
<1>10. CASE Leave(p)
  <2>1. Revocation(p, controller[p].token) \in Calls
    BY <1>1, RequestsMade DEF Controllers
  <2>2. calls' \subseteq calls \cup {Revocation(p, controller[p].token)}
    BY <1>10 DEF Leave
  <2>3. calls' \subseteq Calls /\ IsFiniteSet(calls')
    BY <2>1, <2>2, OneMoreCall
  <2> QED
    BY <1>9, <1>10, <2>3 DEF Leave, Views
<1>11. CASE Unmount(p)
  BY <1>9, <1>11 DEF Unmount, Views
<1> QED
  BY <1>2, <1>3, <1>4, <1>5, <1>6, <1>7, <1>8, <1>10, <1>11 DEF Browse

LEMMA AnswersKeepTypes ==
  ASSUME Types, NEW c \in calls, Settle(c)
  PROVE  Types'
<1> USE DEF Types, TypeOK
<1> DEFINE p == c.owner
           k == controller[p]
<1>1. p \in Participants /\ c \in Calls /\ k \in Controllers
  BY OwnersAre
<1>2. Renewed(k, c) \in Controllers
  BY <1>1, RenewedController
<1>3. Timed(k, "disconnected", clock + RetryDelay) \in Controllers
  BY <1>1, Constants DEF Controllers, Timed, States
<1>4. Unheard(c) \in Calls
  BY <1>1, CallsMade
<1>5. calls' \subseteq calls \cup {Unheard(c)}
  BY DEF Settle, ReceiveRefresh, FailRefresh, Becomes
<1>6. calls' \subseteq Calls /\ IsFiniteSet(calls')
  BY <1>4, <1>5, OneMoreCall
<1>7. UNCHANGED <<clock, binding, session, join>>
  BY DEF Settle, ReceiveRefresh, FailRefresh
<1>8. \/ UNCHANGED <<controller, view>>
      \/ controller' = [controller EXCEPT ![p] = Renewed(k, c)] /\ UNCHANGED view
      \/ /\ controller' = [controller EXCEPT ![p] = Timed(k, "disconnected", clock + RetryDelay)]
         /\ UNCHANGED view
      \/ Expire(p, k)
  BY DEF Settle, ReceiveRefresh, FailRefresh
<1>9. controller' \in [Participants -> Controllers] /\ view' \in [Participants -> Views]
  <2>1. CASE Expire(p, k)
    BY <1>1, <2>1, ExpiryKeepsTypes
  <2> HIDE DEF k
  <2> QED
    BY <1>1, <1>2, <1>3, <1>8, <2>1
<1> QED
  BY <1>6, <1>7, <1>9

LEMMA TypesStep ==
  ASSUME Types, [Next]_vars
  PROVE  Types'
<1>1. CASE \E p \in Participants : Serve(p) \/ Browse(p)
  BY <1>1, ServerKeepsTypes, BrowserKeepsTypes
<1>2. CASE \E c \in calls : Handle(c) \/ Settle(c) \/ DropCall(c)
  BY <1>2, HandlerKeepsTypes, AnswersKeepTypes
<1>3. CASE CloseInstance
  <2> USE DEF Types, TypeOK
  <2>1. binding' \in Bindings
    BY <1>3 DEF CloseInstance, Bindings
  <2>2. \A p \in Participants : Revoked(session[p]) \in Rows
    BY SessionsMade
  <2>3. session' \in [Participants -> Rows]
    BY <1>3, <2>2 DEF CloseInstance
  <2> QED
    BY <1>3, <2>1, <2>3 DEF CloseInstance
<1>4. CASE Tick
  BY <1>4, Constants DEF Types, TypeOK, Tick
<1>5. CASE UNCHANGED vars
  BY <1>5 DEF Types, TypeOK, vars
<1> QED
  BY <1>1, <1>2, <1>3, <1>4, <1>5 DEF Next

-----------------------------------------------------------------------------
(* The sessions the server grants.                                         *)

\* A step that grants nothing.
LEMMA ServerFrame ==
  ASSUME NEW p \in Participants, Server(p),
         clock' = clock, join' = join, binding'.row <=> binding.row,
         binding'.place = binding.place, binding'.run = binding.run,
         binding'.expires = binding.expires,
         session'[p].row <=> session[p].row, session'[p].expires = session[p].expires,
         session[p].row => session'[p].token # 0
  PROVE  Server(p)'
<1>1. Placed(p)'
  BY DEF Server, Placed, Granted
<1>2. Dated(p)'
  BY DEF Server, Dated, Pending
<1> QED
  BY <1>1, <1>2 DEF Server

LEMMA ServerUnchanged ==
  ASSUME \A p \in Participants : Server(p), UNCHANGED <<clock, binding, session, join>>
  PROVE  \A p \in Participants : Server(p)'
<1> TAKE p \in Participants
<1>1. session[p].row => session'[p].token # 0
  BY DEF Server, Dated
<1> QED
  BY <1>1, ServerFrame

\* A row that is changed keeps what matters to the server.
LEMMA ServerKept ==
  ASSUME Types, \A q \in Participants : Server(q), NEW p \in Participants,
         UNCHANGED <<clock, binding, join>>, NEW s \in Rows,
         s.row <=> session[p].row, s.expires = session[p].expires,
         session[p].row => s.token # 0,
         session' = [session EXCEPT ![p] = s]
  PROVE  \A q \in Participants : Server(q)'
<1> TAKE q \in Participants
<1>1. CASE q = p
  <2>1. session'[p] = s
    BY DEF Types, TypeOK
  <2> QED
    BY <1>1, <2>1, ServerFrame
<1>2. CASE q # p
  <2>1. session'[q] = session[q]
    BY <1>2 DEF Types, TypeOK
  <2>2. session[q].row => session[q].token # 0
    BY DEF Server, Dated
  <2> QED
    BY <2>1, <2>2, ServerFrame
<1> QED
  BY <1>1, <1>2

LEMMA RecordsKept ==
  ASSUME NEW s, NEW token, NEW idle
  PROVE  /\ Rotated(s, token, idle).row = s.row
         /\ Rotated(s, token, idle).expires = s.expires
         /\ Rotated(s, token, idle).token = token
         /\ Rotated(s, token, idle).idle = idle
         /\ Revoked(s).row = s.row /\ Revoked(s).expires = s.expires
         /\ Revoked(s).token = s.token /\ Revoked(s).idle = s.idle
BY DEF Rotated, Revoked

\* What a step does to the request of p and of the others.
LEMMA Advances ==
  ASSUME Types, NEW p \in Participants, NEW stage, NEW lease, Advance(p, stage, lease)
  PROVE  /\ join'[p].stage = stage /\ join'[p].at = join[p].at
         /\ \A q \in Participants : q # p => join'[q] = join[q]
<1>1. join'[p] = [stage |-> stage, at |-> join[p].at, lease |-> lease]
  BY DEF Types, TypeOK, Advance
<1> QED
  BY <1>1 DEF Types, TypeOK, Advance

\* A request that ends, or that waits to insert.
LEMMA JoinWithoutGrant ==
  ASSUME Types, \A q \in Participants : Server(q), NEW p \in Participants, Pending(p),
         UNCHANGED <<clock, binding, session>>, NEW stage \in {"inserting", "answered"},
         Advance(p, stage, 0)
  PROVE  \A q \in Participants : Server(q)'
<1> USE Advances
<1> TAKE q \in Participants
<1>1. ~session[p].row
  BY DEF Server, Dated, Pending
<1>2. CASE q = p
  <2>1. Placed(p)'
    BY <1>1, <1>2 DEF Placed, Granted
  <2>2. Dated(p)'
    BY <1>1, <1>2 DEF Server, Dated, Pending
  <2> QED
    BY <1>2, <2>1, <2>2 DEF Server
<1>3. CASE q # p
  <2>1. join'[q] = join[q]
    BY <1>3
  <2> QED
    BY <2>1 DEF Server, Placed, Granted, Dated, Pending
<1> QED
  BY <1>2, <1>3

\* A grant: the binding is p's and no earlier session outlives it.
LEMMA JoinWithGrant ==
  ASSUME Types, \A q \in Participants : Server(q), NEW p \in Participants, Pending(p),
         UNCHANGED <<clock, session>>, Advance(p, "granted", join[p].at + BindingTtl),
         binding'.row, binding'.expires = join[p].at + BindingTtl,
         binding'.place = Request[p].place, Request[p].run \in {NoRun, binding'.run},
         binding.row => binding'.place = binding.place /\ binding'.run = binding.run
  PROVE  \A q \in Participants : Server(q)'
<1> USE Advances
<1> TAKE q \in Participants
<1>1. ~session[p].row /\ join[p].at <= clock /\ clock <= join[p].at + JoinDelay
  BY DEF Server, Dated, Pending
<1>2. join[p].at \in Nat /\ join[q].at \in Nat /\ clock \in Nat
  BY DEF Types, TypeOK
<1>3. CASE q = p
  <2>1. join[p].at + SessionTtl <= join[p].at + BindingTtl
    BY <1>2, Constants
  <2>2. Placed(p)'
    BY <2>1 DEF Placed
  <2>3. Dated(p)'
    BY <1>1 DEF Dated, Pending
  <2> QED
    BY <1>3, <2>2, <2>3 DEF Server
<1>4. CASE q # p
  <2>1. join'[q] = join[q]
    BY <1>4
  <2>2. join[q].at <= clock
    BY DEF Server, Dated
  <2>3. join[q].at + SessionTtl <= join[p].at + BindingTtl
    BY <1>1, <1>2, <2>2, Constants
  <2>4. Placed(q)'
    BY <2>1, <2>3 DEF Server, Placed, Granted
  <2>5. Dated(q)'
    BY <2>1 DEF Server, Dated, Pending
  <2> QED
    BY <2>4, <2>5 DEF Server
<1> QED
  BY <1>3, <1>4

LEMMA LeasedIs ==
  ASSUME NEW p \in Participants
  PROVE  /\ Leased(binding, p).row = binding.row
         /\ Leased(binding, p).place = binding.place /\ Leased(binding, p).run = binding.run
         /\ Leased(binding, p).expires = join[p].at + BindingTtl
         /\ NewBinding(p).row
         /\ NewBinding(p).place = Request[p].place /\ NewBinding(p).run = Request[p].run
         /\ NewBinding(p).expires = join[p].at + BindingTtl
BY DEF Leased, NewBinding

LEMMA ServeKeepsServer ==
  ASSUME Types, \A q \in Participants : Server(q), NEW p \in Participants, Serve(p)
  PROVE  \A q \in Participants : Server(q)'
<1>1. ASSUME Pending(p), binding.row, JoinExisting(p), UNCHANGED <<clock, session>>
      PROVE  \A q \in Participants : Server(q)'
  <2>1. CASE Matches(p, join[p].at)
    <3>1. binding' = Leased(binding, p) /\ Advance(p, "granted", join[p].at + BindingTtl)
      BY <1>1, <2>1 DEF JoinExisting
    <3>2. binding.place = Request[p].place /\ Request[p].run \in {NoRun, binding.run}
      BY <2>1 DEF Matches
    <3>3. /\ binding'.row /\ binding'.expires = join[p].at + BindingTtl
          /\ binding'.place = binding.place /\ binding'.run = binding.run
      BY <1>1, <3>1, LeasedIs
    <3> QED
      BY <1>1, <3>1, <3>2, <3>3, JoinWithGrant
  <2>2. CASE ~Matches(p, join[p].at)
    BY <1>1, <2>2, JoinWithoutGrant DEF JoinExisting
  <2> QED
    BY <2>1, <2>2
<1>2. CASE FindBinding(p)
  <2>1. Pending(p)
    BY <1>2 DEF FindBinding, Pending
  <2>2. CASE binding.row
    BY <1>1, <1>2, <2>1, <2>2 DEF FindBinding
  <2>3. CASE ~binding.row
    BY <1>2, <2>1, <2>3, JoinWithoutGrant DEF FindBinding
  <2> QED
    BY <2>2, <2>3
<1>3. CASE InsertBinding(p)
  <2>1. Pending(p)
    BY <1>3 DEF InsertBinding, Pending
  <2>2. CASE binding.row
    BY <1>1, <1>3, <2>1, <2>2 DEF InsertBinding
  <2>3. CASE ~binding.row
    <3>1. /\ binding' = NewBinding(p) /\ Advance(p, "granted", join[p].at + BindingTtl)
          /\ UNCHANGED <<clock, session>>
      BY <1>3, <2>3 DEF InsertBinding
    <3>2. /\ binding'.row /\ binding'.expires = join[p].at + BindingTtl
          /\ binding'.place = Request[p].place /\ binding'.run = Request[p].run
      BY <3>1, LeasedIs
    <3> QED
      BY <2>1, <2>3, <3>1, <3>2, JoinWithGrant
  <2> QED
    BY <2>2, <2>3
<1>4. CASE CreateSession(p)
  <2>1. /\ join[p].stage = "granted" /\ session' = [session EXCEPT ![p] = NewSession(p)]
        /\ Advance(p, "answered", 0) /\ UNCHANGED <<clock, binding>>
    BY <1>4 DEF CreateSession
  <2>2. TAKE q \in Participants
  <2>3. CASE q = p
    <3>1. session'[p] = NewSession(p)
      BY <2>1 DEF Types, TypeOK
    <3>2. Placed(p)'
      BY <2>1, Advances DEF Server, Placed, Granted
    <3>3. Dated(p)'
      <4>1. join'[p].stage = "answered" /\ join'[p].at = join[p].at /\ clock' = clock
        BY <2>1, Advances
      <4>2. NewSession(p).token = 1 /\ NewSession(p).expires <= join[p].at + SessionTtl
        BY NewSessionIs
      <4>3. join[p].at <= clock
        BY DEF Server, Dated
      <4> QED
        BY <3>1, <4>1, <4>2, <4>3 DEF Dated, Pending
    <3> QED
      BY <2>3, <3>2, <3>3 DEF Server
  <2>4. CASE q # p
    <3>1. session'[q] = session[q] /\ join'[q] = join[q]
      BY <2>1, <2>4, Advances DEF Types, TypeOK
    <3> QED
      BY <2>1, <3>1 DEF Server, Placed, Granted, Dated, Pending
  <2> QED
    BY <2>3, <2>4
<1> QED
  BY <1>2, <1>3, <1>4 DEF Serve

LEMMA LaunchKeepsServer ==
  ASSUME Types, \A q \in Participants : Server(q) /\ Shown(q), NEW p \in Participants, Launch(p)
  PROVE  \A q \in Participants : Server(q)'
<1> TAKE q \in Participants
<1>1. CASE q = p
  <2>1. join'[p] = [stage |-> "asked", at |-> clock, lease |-> 0]
    BY DEF Types, TypeOK, Launch
  <2>2. ~session'[p].row
    BY DEF Launch, Shown, Server, Dated
  <2>3. clock \in Nat /\ clock' = clock
    BY DEF Types, TypeOK, Launch
  <2>4. Placed(p)'
    BY <2>1, <2>2 DEF Placed, Granted
  <2>5. Dated(p)'
    BY <2>1, <2>2, <2>3, Constants DEF Dated, Pending
  <2> QED
    BY <1>1, <2>4, <2>5 DEF Server
<1>2. CASE q # p
  <2>1. join'[q] = join[q] /\ UNCHANGED <<clock, binding, session>>
    BY <1>2 DEF Types, TypeOK, Launch
  <2> QED
    BY <2>1 DEF Server, Placed, Granted, Dated, Pending
<1> QED
  BY <1>1, <1>2

LEMMA HandlerKeepsServer ==
  ASSUME Types, \A q \in Participants : Server(q), NEW c \in calls, Handle(c) \/ DropCall(c)
  PROVE  \A q \in Participants : Server(q)'
<1> DEFINE p == c.owner
<1>1. p \in Participants /\ c \in Calls
  BY OwnersAre
<1>2. session[p] \in Rows
  BY <1>1 DEF Types, TypeOK
<1>3. CASE LockSession(c) \/ DropCall(c)
  BY <1>3, ServerUnchanged DEF LockSession, DropCall
<1>4. CASE RotateToken(c)
  <2> DEFINE idle == Min({c.at + IdleTtl, session[p].expires, binding.expires})
             s == Rotated(session[p], FreshToken(p), idle)
  <2>1. CASE UNCHANGED session
    BY <1>4, <2>1, ServerUnchanged DEF RotateToken
  <2>2. CASE session' = [session EXCEPT ![p] = s]
    <3>1. FreshToken(p) \in Nat /\ FreshToken(p) # 0
      BY <1>1, FreshTokenIsNew
    <3>2. c.at + IdleTtl \in Nat /\ session[p].expires \in Nat /\ binding.expires \in Nat
      BY <1>1, <1>2, Constants DEF Types, TypeOK, Calls, Rows, Bindings
    <3>3. idle \in Nat
      BY <3>2, LeastOfThree
    <3> HIDE DEF idle
    <3>4. s \in Rows /\ s.row = session[p].row /\ s.expires = session[p].expires /\ s.token # 0
      BY <1>2, <3>1, <3>3, SessionsMade, RecordsKept
    <3> HIDE DEF s
    <3>5. UNCHANGED <<clock, binding, join>>
      BY <1>4 DEF RotateToken
    <3> QED
      BY <1>1, <2>2, <3>4, <3>5, ServerKept
  <2> QED
    BY <1>4, <2>1, <2>2 DEF RotateToken
<1>5. CASE RevokeSession(c)
  <2>1. CASE UNCHANGED session
    BY <1>5, <2>1, ServerUnchanged DEF RevokeSession
  <2>2. CASE session' = [session EXCEPT ![p] = Revoked(session[p])]
    <3>1. /\ Revoked(session[p]) \in Rows /\ Revoked(session[p]).row = session[p].row
          /\ Revoked(session[p]).expires = session[p].expires
          /\ Revoked(session[p]).token = session[p].token
      BY <1>2, SessionsMade, RecordsKept
    <3>2. session[p].row => session[p].token # 0
      BY <1>1 DEF Server, Dated
    <3>3. UNCHANGED <<clock, binding, join>>
      BY <1>5 DEF RevokeSession
    <3> QED
      BY <1>1, <2>2, <3>1, <3>2, <3>3, ServerKept
  <2> QED
    BY <1>5, <2>1, <2>2 DEF RevokeSession
<1> QED
  BY <1>3, <1>4, <1>5 DEF Handle

LEMMA ServerStep ==
  ASSUME Types, \A q \in Participants : Server(q) /\ Shown(q), [Next]_vars
  PROVE  \A q \in Participants : Server(q)'
<1>1. CASE \E p \in Participants : Serve(p)
  BY <1>1, ServeKeepsServer
<1>2. CASE \E p \in Participants : Browse(p)
  <2>1. PICK p \in Participants : Browse(p)
    BY <1>2
  <2>2. CASE Launch(p)
    BY <2>2, LaunchKeepsServer
  <2>3. CASE ~Launch(p)
    <3>1. UNCHANGED <<clock, binding, session, join>>
      BY <2>1, <2>3 DEF Browse, Bootstrap, ReadContext, FailBootstrap, Start, FireTimer, Online,
                        Leave, Unmount
    <3> QED
      BY <3>1, ServerUnchanged
  <2> QED
    BY <2>2, <2>3
<1>3. CASE \E c \in calls : Handle(c) \/ DropCall(c)
  BY <1>3, HandlerKeepsServer
<1>4. CASE \E c \in calls : Settle(c)
  BY <1>4, ServerUnchanged DEF Settle, ReceiveRefresh, FailRefresh
<1>5. CASE CloseInstance
  <2>1. TAKE q \in Participants
  <2>2. session'[q] = session[q] \/ session'[q] = Revoked(session[q])
    BY <1>5 DEF CloseInstance
  <2>3. session[q].row => session[q].token # 0
    BY DEF Server, Dated
  <2>4. /\ session'[q].row <=> session[q].row
        /\ session'[q].expires = session[q].expires
        /\ session[q].row => session'[q].token # 0
    BY <2>2, <2>3, RecordsKept
  <2>5. /\ binding.row /\ binding'.row
        /\ binding'.place = binding.place /\ binding'.run = binding.run
        /\ binding'.expires = binding.expires /\ clock' = clock /\ join' = join
    BY <1>5 DEF CloseInstance
  <2> QED
    BY <2>4, <2>5, ServerFrame
<1>6. CASE Tick
  <2>1. TAKE q \in Participants
  <2>2. clock \in Nat /\ join[q].at \in Nat /\ clock' = clock + 1 /\ join[q].at + JoinDelay \in Nat
    BY <1>6, Constants DEF Types, TypeOK, Tick
  <2>3. UNCHANGED <<binding, session, join>> /\ (Pending(q) => clock < join[q].at + JoinDelay)
    BY <1>6 DEF Tick, Pending
  <2>4. Placed(q)'
    BY <2>3 DEF Server, Placed, Granted
  <2>5. Dated(q)'
    BY <2>2, <2>3 DEF Server, Dated, Pending
  <2> QED
    BY <2>4, <2>5 DEF Server
<1>7. CASE UNCHANGED vars
  BY <1>7, ServerUnchanged DEF vars
<1> QED
  BY <1>1, <1>2, <1>3, <1>4, <1>5, <1>6, <1>7 DEF Next

-----------------------------------------------------------------------------
(* What the browsers show.                                                 *)

\* A step of another participant, or of none.
\* A step that shows p nothing new.
LEMMA ShownFrame ==
  ASSUME NEW p \in Participants, Shown(p), view'[p] = view[p],
         join'[p].stage = "none" <=> join[p].stage = "none",
         session[p].row => session'[p].row,
         controller[p].state = "none" => controller'[p].state = "none"
  PROVE  Shown(p)'
BY DEF Shown

\* A browser that shows neither the start nor the end of its bootstrap.
LEMMA ShownOver ==
  ASSUME NEW p \in Participants,
         view'[p] \notin {"idle", "joining", "reading", "resolved"}
  PROVE  Shown(p)'
BY DEF Shown

\* No session is deleted.
LEMMA RowsStay ==
  ASSUME Types, [Next]_vars, NEW q \in Participants, session[q].row
  PROVE  session'[q].row
<1>1. CASE UNCHANGED session
  BY <1>1
<1>2. ASSUME NEW p \in Participants, CreateSession(p)
      PROVE  session'[q].row
  <2>1. session'[q] = NewSession(p) \/ session'[q] = session[q]
    BY <1>2 DEF Types, TypeOK, CreateSession
  <2>2. NewSession(p).row
    BY NewSessionIs
  <2> QED
    BY <2>1, <2>2
<1>3. ASSUME NEW c \in calls, RotateToken(c) \/ RevokeSession(c)
      PROVE  session'[q].row
  <2>1. c.owner \in Participants
    BY OwnersAre
  <2>2. \/ UNCHANGED session
        \/ \E token, idle : session' = [session EXCEPT ![c.owner] = Rotated(session[c.owner], token, idle)]
        \/ session' = [session EXCEPT ![c.owner] = Revoked(session[c.owner])]
    BY <1>3 DEF RotateToken, RevokeSession
  <2>3. \/ session'[q] = session[q] \/ session'[q] = Revoked(session[q])
        \/ \E token, idle : session'[q] = Rotated(session[q], token, idle)
    BY <2>1, <2>2 DEF Types, TypeOK
  <2> QED
    BY <2>3, RecordsKept
<1>4. CASE CloseInstance
  <2>1. session'[q] = Revoked(session[q])
    BY <1>4 DEF CloseInstance
  <2> QED
    BY <2>1, RecordsKept
<1>5. \/ UNCHANGED session \/ CloseInstance
      \/ \E p \in Participants : CreateSession(p)
      \/ \E c \in calls : RotateToken(c) \/ RevokeSession(c)
  <2>1. CASE \E p \in Participants : Serve(p) \/ Browse(p)
    BY <2>1 DEF Serve, Browse, FindBinding, InsertBinding, Launch, Bootstrap, ReadContext, FailBootstrap,
                Start, FireTimer, Online, Leave, Unmount
  <2>2. CASE \E c \in calls : Handle(c) \/ Settle(c) \/ DropCall(c)
    BY <2>2 DEF Handle, Settle, DropCall, LockSession, ReceiveRefresh, FailRefresh
  <2> QED
    BY <2>1, <2>2 DEF Next, Tick, vars
<1> QED
  BY <1>1, <1>2, <1>3, <1>4, <1>5

LEMMA ServeKeepsShown ==
  ASSUME Types, \A q \in Participants : Shown(q), NEW p \in Participants, Serve(p), Next
  PROVE  \A q \in Participants : Shown(q)'
<1>1. TAKE q \in Participants
<1>2. join[p].stage # "none" /\ UNCHANGED controller
  BY DEF Serve, FindBinding, InsertBinding, CreateSession
<1>3. view' = view \/ view' = [view EXCEPT ![p] = "error"]
  BY DEF Serve, FindBinding, InsertBinding, CreateSession, JoinExisting
<1>4. \E lease : \E stage \in {"inserting", "granted", "answered"} : Advance(p, stage, lease)
  BY DEF Serve, FindBinding, InsertBinding, CreateSession, JoinExisting
<1>5. join'[q].stage = "none" <=> join[q].stage = "none"
  BY <1>2, <1>4, Advances
<1>6. view'[q] = view[q] \/ view'[q] = "error"
  BY <1>3 DEF Types, TypeOK
<1>7. session[q].row => session'[q].row
  BY RowsStay
<1> QED
  BY <1>2, <1>5, <1>6, <1>7, ShownFrame, ShownOver

LEMMA ExpiryShown ==
  ASSUME Types, NEW p \in Participants, NEW k \in Controllers, Expire(p, k)
  PROVE  /\ \A q \in Participants : q # p => view'[q] = view[q] /\ controller'[q] = controller[q]
         /\ controller'[p].state = "expired"
         /\ (view'[p] = view[p] /\ k.state = "expired") \/ view'[p] = "expired"
<1>1. Scrubbed(k, "expired").state = "expired"
  BY DEF Scrubbed
<1> QED
  BY <1>1 DEF Types, TypeOK, Expire

LEMMA BrowserKeepsShown ==
  ASSUME Types, \A q \in Participants : Shown(q), NEW p \in Participants, Browse(p), Next
  PROVE  \A q \in Participants : Shown(q)'
<1>1. TAKE q \in Participants
<1>2. session[q].row => session'[q].row
  BY RowsStay
<1> USE DEF Types, TypeOK
<1>3. CASE Launch(p)
  <2>1. CASE q = p
    <3>1. view[p] = "idle" /\ view'[p] = "joining" /\ controller' = controller
      BY <1>3 DEF Launch
    <3> QED
      BY <2>1, <3>1 DEF Shown
  <2>2. CASE q # p
    <3>1. view'[q] = view[q] /\ join'[q] = join[q] /\ controller' = controller
      BY <1>3, <2>2 DEF Launch
    <3> QED
      BY <1>2, <3>1, ShownFrame
  <2> QED
    BY <2>1, <2>2
<1>4. CASE Bootstrap(p) \/ ReadContext(p) \/ FailBootstrap(p)
  <2>1. UNCHANGED <<session, join, controller>> /\ view[p] \in {"joining", "reading"}
    BY <1>4 DEF Bootstrap, ReadContext, FailBootstrap
  <2>2. /\ view'[p] \in {"reading", "resolved", "error"}
        /\ view'[p] = "resolved" => session[p].row
        /\ q # p => view'[q] = view[q]
    BY <1>4 DEF Bootstrap, ReadContext, FailBootstrap, Resolves
  <2>3. CASE q = p
    BY <2>1, <2>2, <2>3 DEF Shown
  <2>4. CASE q # p
    BY <2>1, <2>2, <2>4, ShownFrame
  <2> QED
    BY <2>3, <2>4
<1>5. CASE Start(p) \/ Leave(p) \/ Unmount(p)
  <2>1. view'[p] \in {"ready", "expired", "gone"} /\ UNCHANGED join
    BY <1>5 DEF Start, Leave, Unmount
  <2>2. q # p => view'[q] = view[q] /\ controller'[q] = controller[q]
    BY <1>5 DEF Start, Leave, Unmount
  <2> QED
    BY <1>2, <2>1, <2>2, ShownFrame, ShownOver
<1>6. ASSUME NEW k \in Controllers, k.state = controller[p].state, RefreshNow(p, k), UNCHANGED join
      PROVE  Shown(q)'
  <2>1. CASE Expire(p, k)
    BY <1>2, <1>6, <2>1, ExpiryShown, ShownFrame, ShownOver
  <2>2. CASE controller' = [controller EXCEPT ![p] = k] /\ UNCHANGED view
    <3>1. controller'[q].state = controller[q].state
      BY <1>6, <2>2
    <3> QED
      BY <1>2, <1>6, <2>2, <3>1, ShownFrame
  <2> QED
    BY <1>6, <2>1, <2>2 DEF RefreshNow
<1>7. CASE FireTimer(p)
  <2>1. Timed(controller[p], controller[p].state, NoTimer) \in Controllers
    BY Constants DEF Controllers, Timed
  <2>2. Timed(controller[p], controller[p].state, NoTimer).state = controller[p].state
    BY DEF Timed
  <2> QED
    BY <1>6, <1>7, <2>1, <2>2 DEF FireTimer
<1>8. CASE Online(p)
  BY <1>6, <1>8 DEF Online
<1> QED
  BY <1>3, <1>4, <1>5, <1>7, <1>8 DEF Browse

LEMMA AnswersKeepShown ==
  ASSUME Types, \A q \in Participants : Shown(q), NEW c \in calls, Settle(c), Next
  PROVE  \A q \in Participants : Shown(q)'
<1> DEFINE p == c.owner
           k == controller[p]
<1>1. TAKE q \in Participants
<1>2. p \in Participants /\ k \in Controllers
  BY OwnersAre DEF Types, TypeOK
<1>3. UNCHANGED <<session, join>>
  BY DEF Settle, ReceiveRefresh, FailRefresh
<1>4. CASE UNCHANGED <<controller, view>>
  BY <1>3, <1>4, ShownFrame
<1>5. CASE Running(p) /\ Expire(p, k)
  BY <1>2, <1>3, <1>5, ExpiryShown, ShownFrame, ShownOver
<1>6. CASE Running(p) /\ UNCHANGED view /\ \E r : controller' = [controller EXCEPT ![p] = r]
  <2>1. controller[q].state = "none" => controller'[q] = controller[q]
    BY <1>2, <1>6 DEF Types, TypeOK, Running
  <2> QED
    BY <1>3, <1>6, <2>1, ShownFrame
<1> QED
  BY <1>4, <1>5, <1>6 DEF Settle, ReceiveRefresh, FailRefresh

LEMMA ShownStep ==
  ASSUME Types, \A q \in Participants : Shown(q), [Next]_vars
  PROVE  \A q \in Participants : Shown(q)'
<1>1. CASE \E p \in Participants : Serve(p) \/ Browse(p)
  <2>1. Next
    BY <1>1 DEF Next
  <2> QED
    BY <1>1, <2>1, ServeKeepsShown, BrowserKeepsShown
<1>2. CASE \E c \in calls : Settle(c)
  <2>1. Next
    BY <1>2 DEF Next
  <2> QED
    BY <1>2, <2>1, AnswersKeepShown
<1>3. CASE UNCHANGED <<view, join, controller>>
  BY <1>3, RowsStay, ShownFrame
<1> QED
  BY <1>1, <1>2, <1>3 DEF Next, Handle, LockSession, RotateToken, RevokeSession, DropCall,
                           CloseInstance, Tick, vars

-----------------------------------------------------------------------------
(* A browser and the requests it has made.                                 *)

\* What a step does to the requests of p and of the others.
LEMMA CallReplaced ==
  ASSUME NEW c, NEW d, d.owner = c.owner, calls' = (calls \ {c}) \cup {d}
  PROVE  /\ Of(c.owner)' = (Of(c.owner) \ {c}) \cup {d}
         /\ \A q : q # c.owner => Of(q)' = Of(q)
BY DEF Of

LEMMA CallGone ==
  ASSUME NEW c, calls' = calls \ {c}
  PROVE  /\ Of(c.owner)' = Of(c.owner) \ {c}
         /\ \A q : q # c.owner => Of(q)' = Of(q)
BY DEF Of

LEMMA CallAdded ==
  ASSUME NEW d, calls' = calls \cup {d}
  PROVE  /\ Of(d.owner)' = Of(d.owner) \cup {d}
         /\ \A q : q # d.owner => Of(q)' = Of(q)
BY DEF Of

LEMMA AwaitsOf ==
  ASSUME NEW p
  PROVE  /\ Awaits(p) <=> \E c \in Of(p) : c.awaited
         /\ Awaits(p)' <=> \E c \in Of(p)' : c.awaited
BY DEF Awaits, Of

\* The row of p as its browser knows it.
SameRow(p) == /\ session'[p].row <=> session[p].row
              /\ session'[p].token = session[p].token /\ session'[p].idle = session[p].idle
              /\ session'[p].expires = session[p].expires
              /\ session[p].row => join'[p].at = join[p].at

\* A controller that goes on as it was, but for its timer.
SameController(p) ==
    /\ controller'[p].state = controller[p].state /\ controller'[p].token = controller[p].token
    /\ controller'[p].idle = controller[p].idle
    /\ controller'[p].absolute = controller[p].absolute
    /\ controller'[p].timer > MaxTime \/ controller'[p].timer = controller[p].timer

LEMMA BrowserFrame ==
  ASSUME NEW p \in Participants, Browser(p), SameRow(p), SameController(p), Of(p)' = Of(p)
  PROVE  Browser(p)'
<1> USE DEF Browser
<1>1. Copied(p)'
  BY DEF Copied, SameRow, SameController
<1>2. Asked(p)'
  BY DEF Asked, SameController, Running
<1>3. Single(p)'
  BY DEF Single
<1>4. Settled(p) => Settled(p)'
  BY DEF Settled, SameRow
<1>5. Replaced(p)'
  BY <1>4 DEF Replaced, SameRow
<1>6. Synchronised(p)'
  BY <1>4, AwaitsOf DEF Synchronised, SameRow, SameController
<1> QED
  BY <1>1, <1>2, <1>3, <1>5, <1>6

LEMMA OtherBrowsers ==
  ASSUME NEW q \in Participants, Browser(q), session'[q] = session[q], join'[q] = join[q],
         controller'[q] = controller[q], Of(q)' = Of(q)
  PROVE  Browser(q)'
BY BrowserFrame DEF SameRow, SameController

LEMMA SameCalls ==
  ASSUME calls' = calls, NEW p
  PROVE  Of(p)' = Of(p)
BY DEF Of

\* Before its start a browser has asked for nothing.
LEMMA NothingAsked ==
  ASSUME NEW p \in Participants, Browser(p), controller[p].state = "none"
  PROVE  Of(p) = {}
BY DEF Browser, Asked

LEMMA CreateKeepsBrowsers ==
  ASSUME Types, \A q \in Participants : Server(q) /\ Browser(q), NEW p \in Participants,
         CreateSession(p)
  PROVE  \A q \in Participants : Browser(q)'
<1>1. TAKE q \in Participants
<1>2. /\ join[p].stage = "granted" /\ session' = [session EXCEPT ![p] = NewSession(p)]
      /\ Advance(p, "answered", 0) /\ UNCHANGED <<controller, calls>>
  BY DEF CreateSession
<1>3. Of(q)' = Of(q)
  BY <1>2, SameCalls
<1>4. CASE q # p
  <2>1. session'[q] = session[q] /\ join'[q] = join[q]
    BY <1>2, <1>4, Advances DEF Types, TypeOK
  <2> QED
    BY <1>2, <1>3, <2>1, OtherBrowsers
<1>5. CASE q = p
  <2>1. controller[p].state = "none"
    BY <1>2 DEF Server, Dated, Browser, Copied
  <2>2. Of(p) = {}
    BY <2>1, NothingAsked
  <2>3. session'[p] = NewSession(p) /\ join'[p].at = join[p].at
    BY <1>2, Advances DEF Types, TypeOK
  <2>4. Copied(p)'
    <3>1. /\ session'[p].token = 1
          /\ session'[p].idle = Min({join'[p].at + IdleTtl, session'[p].expires})
      BY <2>3, NewSessionIs
    <3>2. controller'[p].state \notin {"active", "disconnected"} => controller'[p].timer > MaxTime
      BY <1>2 DEF Browser, Copied
    <3>3. controller'[p].state = "none"
      BY <1>2, <2>1
    <3> QED
      BY <3>1, <3>2, <3>3 DEF Copied
  <2>5. Asked(p)' /\ Single(p)' /\ Replaced(p)'
    BY <1>3, <1>5, <2>2 DEF Asked, Single, Replaced
  <2>6. Synchronised(p)'
    BY <1>2, <2>1 DEF Synchronised
  <2> QED
    BY <1>5, <2>4, <2>5, <2>6 DEF Browser
<1> QED
  BY <1>4, <1>5

\* An expired controller holds no token and sets no timer.
LEMMA ScrubbedIs ==
  ASSUME NEW k, NEW state
  PROVE  /\ Scrubbed(k, state).state = state /\ Scrubbed(k, state).token = 0
         /\ Scrubbed(k, state).absolute = k.absolute /\ Scrubbed(k, state).timer > MaxTime
BY Constants DEF Scrubbed

LEMMA StartKeepsBrowsers ==
  ASSUME Types, \A q \in Participants : Shown(q) /\ Browser(q), NEW p \in Participants, Start(p)
  PROVE  \A q \in Participants : Browser(q)'
<1>1. TAKE q \in Participants
<1>2. Of(q)' = Of(q) /\ UNCHANGED <<session, join>>
  BY SameCalls DEF Start
<1>3. CASE q # p
  <2>1. controller'[q] = controller[q]
    BY <1>3 DEF Start, Types, TypeOK
  <2> QED
    BY <1>2, <2>1, OtherBrowsers
<1>4. CASE q = p
  <2>1. controller[p].state = "none" /\ session[p].row
    BY DEF Start, Shown
  <2>2. Of(p) = {}
    BY <2>1, NothingAsked
  <2>3. session[p].token = 1 /\ session[p].idle = Min({join[p].at + IdleTtl, session[p].expires})
    BY <2>1 DEF Browser, Copied
  <2>4. \/ controller'[p] = NewController(p)
        \/ controller'[p] = Scrubbed(NewController(p), "expired")
    BY DEF Start, Types, TypeOK
  <2>5. /\ controller'[p].absolute = session[p].expires
        /\ \/ controller'[p].state = "expired" /\ controller'[p].timer > MaxTime
           \/ /\ controller'[p].state = "active" /\ controller'[p].token = 1
              /\ controller'[p].idle = session[p].idle
    BY <2>3, <2>4, NewControllerIs, ScrubbedIs
  <2>6. Copied(p)'
    BY <1>2, <2>1, <2>5 DEF Copied
  <2>7. Asked(p)' /\ Single(p)' /\ Replaced(p)'
    BY <1>2, <1>4, <2>2 DEF Asked, Single, Replaced
  <2>8. Settled(p)'
    BY <1>2, <1>4, <2>2 DEF Settled
  <2>9. Synchronised(p)'
    BY <1>2, <2>3, <2>5, <2>8 DEF Synchronised
  <2> QED
    BY <1>4, <2>6, <2>7, <2>9 DEF Browser
<1> QED
  BY <1>3, <1>4

-----------------------------------------------------------------------------
(* The server's handlers.                                                  *)

LEMMA AnsweredIs ==
  ASSUME NEW c, NEW idle, NEW fresh
  PROVE  /\ Answered(c, idle, fresh).owner = c.owner /\ Answered(c, idle, fresh).kind = c.kind
         /\ Answered(c, idle, fresh).token = c.token
         /\ Answered(c, idle, fresh).stage = "answered" /\ Answered(c, idle, fresh).awaited
         /\ Answered(c, idle, fresh).idle = idle /\ Answered(c, idle, fresh).fresh = fresh
BY DEF Answered

LEMMA HeldIs ==
  ASSUME NEW c
  PROVE  /\ Held(c).owner = c.owner /\ Held(c).kind = c.kind /\ Held(c).token = c.token
         /\ Held(c).stage = "holding" /\ Held(c).awaited = c.awaited /\ Held(c).fresh = 0
BY DEF Held

\* The requests after an answer: one more answer, or one request less.
LEMMA AnswerOf ==
  ASSUME NEW c \in calls, NEW idle, NEW fresh, Answer(c, idle, fresh)
  PROVE  /\ c.awaited => Of(c.owner)' = (Of(c.owner) \ {c}) \cup {Answered(c, idle, fresh)}
         /\ ~c.awaited => Of(c.owner)' = Of(c.owner) \ {c}
         /\ \A q : q # c.owner => Of(q)' = Of(q)
<1>1. CASE c.awaited
  <2>1. calls' = (calls \ {c}) \cup {Answered(c, idle, fresh)}
    BY <1>1 DEF Answer, Becomes
  <2> QED
    BY <1>1, <2>1, CallReplaced, AnsweredIs
<1>2. CASE ~c.awaited
  <2>1. calls' = calls \ {c}
    BY <1>2 DEF Answer
  <2> QED
    BY <1>2, <2>1, CallGone
<1> QED
  BY <1>1, <1>2

\* A refusal: a request that cannot replace the token, or nothing, is left.
LEMMA RefusalKeepsBrowser ==
  ASSUME Types, NEW c \in calls, Browser(c.owner), Answer(c, 0, 0), c.kind = "refresh",
         UNCHANGED <<session, join, controller>>
  PROVE  \A q \in Participants : Browser(q) => Browser(q)'
<1> DEFINE p == c.owner
           d == Answered(c, 0, 0)
<1>1. p \in Participants /\ c \in Of(p)
  BY OwnersAre
<1>2. TAKE q \in Participants
<1>3. CASE q # p
  <2>1. Of(q)' = Of(q)
    BY <1>3, AnswerOf
  <2> QED
    BY <2>1, OtherBrowsers
<1>4. CASE q = p
  <2>1. /\ d.kind = "refresh" /\ d.token = c.token /\ d.stage = "answered" /\ d.awaited
        /\ d.fresh = 0
    BY AnsweredIs
  <2>2. /\ c.awaited => Of(p)' = (Of(p) \ {c}) \cup {d}
        /\ ~c.awaited => Of(p)' = Of(p) \ {c}
    BY AnswerOf
  <2> HIDE DEF d
  <2>3. Copied(p)'
    BY DEF Browser, Copied
  <2>4. Asked(p)'
    BY <1>1, <2>1, <2>2 DEF Browser, Asked, Running
  <2>5. Single(p)'
    BY <1>1, <2>1, <2>2 DEF Browser, Single
  <2>6. Settled(p) => Settled(p)'
    BY <2>1, <2>2 DEF Settled
  <2>7. Replaced(p)'
    BY <2>1, <2>2, <2>6 DEF Browser, Replaced
  <2>8. Awaits(p)' <=> Awaits(p)
    BY <1>1, <2>1, <2>2, AwaitsOf
  <2>9. Synchronised(p)'
    BY <2>6, <2>8 DEF Browser, Synchronised
  <2> QED
    BY <1>4, <2>3, <2>4, <2>5, <2>7, <2>9 DEF Browser
<1> QED
  BY <1>3, <1>4

LEMMA LockKeepsBrowsers ==
  ASSUME Types, \A q \in Participants : Server(q) /\ Browser(q), NEW c \in calls, LockSession(c)
  PROVE  \A q \in Participants : Browser(q)'
<1> DEFINE p == c.owner
           d == Held(c)
<1>1. p \in Participants /\ c \in Of(p)
  BY OwnersAre
<1>2. UNCHANGED <<session, join, controller>> /\ c.kind = "refresh" /\ c.stage = "sent"
  BY DEF LockSession
<1>3. CASE Answer(c, 0, 0)
  BY <1>1, <1>2, <1>3, RefusalKeepsBrowser
<1>4. CASE ~Answer(c, 0, 0)
  <2>1. calls' = (calls \ {c}) \cup {d} /\ session[p].row /\ session[p].token = c.token /\ ~Locked(p)
    BY <1>4 DEF LockSession, Becomes
  <2>2. /\ d.kind = "refresh" /\ d.token = c.token /\ d.stage = "holding"
        /\ d.awaited = c.awaited /\ d.fresh = 0 /\ d.owner = p
    BY <1>2, HeldIs
  <2> HIDE DEF d
  <2>3. Of(p)' = (Of(p) \ {c}) \cup {d} /\ \A q : q # p => Of(q)' = Of(q)
    BY <2>1, <2>2, CallReplaced
  <2>4. \A e \in Of(p) : e.stage # "holding"
    BY <2>1 DEF Locked, Of
  <2>5. ~Settled(p)
    BY <1>1, <1>2, <2>1 DEF Settled
  <2>6. c.token # 0
    BY <1>1, <2>1 DEF Server, Dated
  <2>7. TAKE q \in Participants
  <2>8. CASE q # p
    BY <1>2, <2>3, <2>8, OtherBrowsers
  <2>9. CASE q = p
    <3>1. Copied(p)'
      BY <1>1, <1>2 DEF Browser, Copied
    <3>2. Asked(p)'
      BY <1>1, <1>2, <2>2, <2>3, <2>6 DEF Browser, Asked, Running
    <3>3. Single(p)'
      BY <1>1, <2>2, <2>3, <2>4 DEF Browser, Single
    <3>4. Replaced(p)'
      BY <1>1, <2>2, <2>3, <2>5 DEF Browser, Replaced
    <3>5. Awaits(p)' <=> Awaits(p)
      BY <1>1, <2>2, <2>3, AwaitsOf
    <3>6. Synchronised(p)'
      BY <1>1, <1>2, <2>5, <3>5 DEF Browser, Synchronised
    <3> QED
      BY <2>9, <3>1, <3>2, <3>3, <3>4, <3>6 DEF Browser
  <2> QED
    BY <2>8, <2>9
<1> QED
  BY <1>3, <1>4

LEMMA RotateKeepsBrowsers ==
  ASSUME Types, \A q \in Participants : Browser(q), NEW c \in calls, RotateToken(c)
  PROVE  \A q \in Participants : Browser(q)'
<1> DEFINE p == c.owner
           idle == Min({c.at + IdleTtl, session[p].expires, binding.expires})
           fresh == FreshToken(p)
           s == Rotated(session[p], fresh, idle)
           d == Answered(c, idle, fresh)
<1>1. p \in Participants /\ c \in Of(p) /\ c \in Calls
  BY OwnersAre
<1>2. UNCHANGED <<join, controller>> /\ c.stage = "holding" /\ c.kind = "refresh" /\ c.token # 0
  BY <1>1 DEF RotateToken, Browser, Asked, Calls
<1>3. \/ Answer(c, 0, 0) /\ UNCHANGED session
      \/ Answer(c, idle, fresh) /\ session' = [session EXCEPT ![p] = s]
  BY DEF RotateToken
<1>4. /\ fresh # 0 /\ fresh \in Nat
      /\ \A e \in Of(p) : e.token # fresh
  BY <1>1, FreshTokenIsNew
<1>5. s.row = session[p].row /\ s.token = fresh /\ s.idle = idle /\ s.expires = session[p].expires
  BY RecordsKept
<1>6. /\ d.kind = "refresh" /\ d.token = c.token /\ d.stage = "answered" /\ d.awaited
      /\ d.idle = idle /\ d.fresh = fresh
  BY <1>2, AnsweredIs
<1>7. CASE Answer(c, 0, 0) /\ UNCHANGED session
  BY <1>1, <1>2, <1>7, RefusalKeepsBrowser
<1>8. CASE Answer(c, idle, fresh) /\ session' = [session EXCEPT ![p] = s]
  <2>1. /\ c.awaited => Of(p)' = (Of(p) \ {c}) \cup {d}
        /\ ~c.awaited => Of(p)' = Of(p) \ {c}
        /\ \A q : q # p => Of(q)' = Of(q)
    BY <1>8, AnswerOf
  <2> HIDE DEF idle, fresh, s, d
  <2>2. TAKE q \in Participants
  <2>3. CASE q # p
    <3>1. session'[q] = session[q]
      BY <1>8, <2>3 DEF Types, TypeOK
    <3> QED
      BY <1>2, <2>1, <2>3, <3>1, OtherBrowsers
  <2>4. CASE q = p
    <3>1. session'[p] = s
      BY <1>1, <1>8 DEF Types, TypeOK
    <3>2. controller[p].state # "none"
      BY <1>1 DEF Browser, Asked
    <3>3. ~Settled(p)
      BY <1>1, <1>2 DEF Settled
    <3>4. \A e \in Of(p) : e.fresh = 0
      BY <1>1, <3>3 DEF Browser, Replaced
    <3>5. \A e \in Of(p) : e.stage = "holding" => e = c
      BY <1>1, <1>2 DEF Browser, Single
    <3>6. Copied(p)'
      <4>1. controller'[p] = controller[p]
        BY <1>2
      <4>2. session'[p].row /\ controller'[p].absolute = session'[p].expires
        BY <1>1, <1>5, <3>1, <3>2, <4>1 DEF Browser, Copied
      <4>3. controller'[p].state \notin {"active", "disconnected"} => controller'[p].timer > MaxTime
        BY <1>1, <4>1 DEF Browser, Copied
      <4> QED
        BY <3>2, <4>1, <4>2, <4>3 DEF Copied
    <3>7. Asked(p)'
      BY <1>1, <1>2, <1>6, <2>1 DEF Browser, Asked, Running
    <3>8. Single(p)'
      BY <1>1, <1>6, <2>1 DEF Browser, Single
    <3>9. Settled(p)'
      <4>1. SUFFICES ASSUME NEW e \in Of(p)', e.kind = "refresh", e.stage # "answered"
                     PROVE  e.stage = "sent" /\ e.token # session'[p].token
        BY DEF Settled
      <4>2. e \in Of(p) /\ e # c
        BY <1>6, <2>1, <4>1
      <4>3. e.stage \in {"sent", "holding", "answered"}
        BY <4>2 DEF Of, Types, TypeOK, Calls
      <4> QED
        BY <1>4, <1>5, <3>1, <3>5, <4>1, <4>2, <4>3
    <3>10. Replaced(p)'
      BY <1>5, <1>6, <2>1, <3>1, <3>4, <3>9 DEF Replaced
    <3>11. controller[p].state = "active" => Awaits(p)
      BY <1>1, <3>3 DEF Browser, Synchronised
    <3>12. Awaits(p)' <=> Awaits(p)
      BY <1>1, <1>6, <2>1, AwaitsOf
    <3>13. Synchronised(p)'
      BY <1>2, <3>11, <3>12 DEF Synchronised
    <3> QED
      BY <2>4, <3>6, <3>7, <3>8, <3>10, <3>13 DEF Browser
  <2> QED
    BY <2>3, <2>4
<1> QED
  BY <1>3, <1>7, <1>8

\* A request nobody waits for is gone; the row is as the browser knows it.
LEMMA GoneKeepsBrowsers ==
  ASSUME Types, \A q \in Participants : Browser(q), NEW c \in calls, ~c.awaited,
         calls' = calls \ {c}, UNCHANGED <<join, controller>>,
         \A q \in Participants : session'[q] = session[q] \/ session'[q] = Revoked(session[q])
  PROVE  \A q \in Participants : Browser(q)'
<1>1. TAKE q \in Participants
<1>2. SameRow(q)
  BY RecordsKept DEF SameRow
<1>4. Of(c.owner)' = Of(c.owner) \ {c} /\ \A r : r # c.owner => Of(r)' = Of(r)
  BY CallGone
<1>5. CASE Of(q)' = Of(q)
  BY <1>2, <1>5, BrowserFrame DEF SameController
<1>6. CASE Of(q)' = Of(q) \ {c}
  <2>1. Copied(q)'
    BY <1>2 DEF Browser, Copied, SameRow
  <2>2. Asked(q)' /\ Single(q)'
    BY <1>6 DEF Browser, Asked, Single, Running
  <2>3. Settled(q) => Settled(q)'
    BY <1>2, <1>6 DEF Settled, SameRow
  <2>4. Replaced(q)'
    BY <1>2, <1>6, <2>3 DEF Browser, Replaced, SameRow
  <2>5. Awaits(q)' <=> Awaits(q)
    BY <1>6, AwaitsOf
  <2>6. Synchronised(q)'
    BY <1>2, <2>3, <2>5 DEF Browser, Synchronised, SameRow
  <2> QED
    BY <2>1, <2>2, <2>4, <2>6 DEF Browser
<1> QED
  BY <1>4, <1>5, <1>6

LEMMA HandlerKeepsBrowsers ==
  ASSUME Types, \A q \in Participants : Server(q) /\ Browser(q), NEW c \in calls,
         Handle(c) \/ DropCall(c)
  PROVE  \A q \in Participants : Browser(q)'
<1>1. c.owner \in Participants /\ c \in Of(c.owner)
  BY OwnersAre
<1>2. CASE RevokeSession(c)
  <2>1. ~c.awaited
    BY <1>1, <1>2 DEF RevokeSession, Browser, Asked
  <2>2. \A q \in Participants : session'[q] = session[q] \/ session'[q] = Revoked(session[q])
    BY <1>2 DEF RevokeSession, Types, TypeOK
  <2> QED
    BY <1>2, <2>1, <2>2, GoneKeepsBrowsers DEF RevokeSession
<1>3. CASE DropCall(c)
  BY <1>3, GoneKeepsBrowsers DEF DropCall
<1> QED
  BY <1>2, <1>3, LockKeepsBrowsers, RotateKeepsBrowsers DEF Handle

-----------------------------------------------------------------------------
(* The browsers' controllers.                                              *)

\* A request that was there, or one nobody waits for that replaces no token the
\* requests before it could not.
Harmless(p, d) ==
    \/ d \in Of(p)
    \/ /\ ~d.awaited /\ d.stage # "answered" /\ d.fresh = 0
       /\ d.kind = "revoke" => d.stage = "sent"
       /\ d.stage = "holding" => d.token # 0
       /\ d.kind = "refresh" =>
             \E c \in Of(p) : /\ c.kind = "refresh" /\ c.stage = d.stage
                             /\ c.token = d.token

\* A controller that is not active and hears of no answer any more.
LEMMA BrowserEnds ==
  ASSUME NEW p \in Participants, Browser(p), SameRow(p),
         controller[p].state # "none", controller'[p].state \in States \ {"none", "active"},
         controller'[p].absolute = controller[p].absolute,
         controller'[p].state = "disconnected" \/ controller'[p].timer > MaxTime,
         \A d \in Of(p)' : Harmless(p, d) /\ (d.awaited => controller'[p].state = "stopped"),
         Single(p)'
  PROVE  Browser(p)'
<1>1. Copied(p)'
  BY DEF Browser, Copied, SameRow
<1>2. Asked(p)'
  BY DEF Browser, Asked, Running, Harmless
<1>3. Settled(p) => Settled(p)'
  BY DEF Settled, SameRow, Harmless
<1>4. Replaced(p)'
  BY <1>3 DEF Browser, Replaced, SameRow, Harmless
<1>5. Synchronised(p)'
  BY DEF Synchronised
<1> QED
  BY <1>1, <1>2, <1>4, <1>5 DEF Browser

\* The browsers no step is about.
LEMMA StillBrowsers ==
  ASSUME Types, \A q \in Participants : Browser(q), NEW p \in Participants, Browser(p)',
         UNCHANGED <<session, join>>,
         \A q \in Participants : q # p => controller'[q] = controller[q] /\ Of(q)' = Of(q)
  PROVE  \A q \in Participants : Browser(q)'
BY OtherBrowsers

LEMMA RefreshIs ==
  ASSUME NEW p, NEW token
  PROVE  /\ Refresh(p, token).owner = p /\ Refresh(p, token).kind = "refresh"
         /\ Refresh(p, token).token = token /\ Refresh(p, token).stage = "sent"
         /\ Refresh(p, token).awaited /\ Refresh(p, token).fresh = 0
         /\ Revocation(p, token).owner = p /\ Revocation(p, token).kind = "revoke"
         /\ Revocation(p, token).stage = "sent"
         /\ ~Revocation(p, token).awaited /\ Revocation(p, token).fresh = 0
BY DEF Refresh, Revocation

LEMMA ExpiryIs ==
  ASSUME Types, NEW p \in Participants, NEW k \in Controllers, Expire(p, k),
         k.state = "expired" => k.timer > MaxTime
  PROVE  /\ controller'[p].state = "expired" /\ controller'[p].timer > MaxTime
         /\ controller'[p].absolute = k.absolute
         /\ \A q \in Participants : q # p => controller'[q] = controller[q]
<1>1. controller'[p] = IF k.state = "expired" THEN k ELSE Scrubbed(k, "expired")
  BY DEF Types, TypeOK, Expire
<1>2. \A q \in Participants : q # p => controller'[q] = controller[q]
  BY DEF Types, TypeOK, Expire
<1>3. CASE k.state = "expired"
  BY <1>1, <1>2, <1>3
<1>4. CASE k.state # "expired"
  BY <1>1, <1>2, <1>4, ScrubbedIs
<1> QED
  BY <1>3, <1>4

LEMMA RefreshKeepsBrowsers ==
  ASSUME Types, \A q \in Participants : Browser(q), NEW p \in Participants,
         NEW k \in Controllers, k.state = controller[p].state, k.token = controller[p].token,
         k.idle = controller[p].idle, k.absolute = controller[p].absolute,
         k.timer > MaxTime \/ k.timer = controller[p].timer,
         k.state # "none", RefreshNow(p, k), UNCHANGED <<session, join>>
  PROVE  \A q \in Participants : Browser(q)'
<1>1. SameRow(p)
  BY DEF SameRow
<1>2. CASE UNCHANGED calls
  <2>1. \A q : Of(q)' = Of(q)
    BY <1>2, SameCalls
  <2>2. CASE controller' = [controller EXCEPT ![p] = k]
    <3>1. controller'[p] = k /\ \A q \in Participants : q # p => controller'[q] = controller[q]
      BY <2>2 DEF Types, TypeOK
    <3>2. SameController(p)
      BY <3>1 DEF SameController
    <3>3. Browser(p)'
      BY <1>1, <2>1, <3>2, BrowserFrame
    <3> QED
      BY <2>1, <3>1, <3>3, StillBrowsers
  <2>3. CASE ~Awaits(p) /\ Expire(p, k)
    <3>1. k.state = "expired" => k.timer > MaxTime
      BY DEF Browser, Copied
    <3>2. /\ controller'[p].state = "expired" /\ controller'[p].timer > MaxTime
          /\ controller'[p].absolute = controller[p].absolute
          /\ \A q \in Participants : q # p => controller'[q] = controller[q]
      BY <2>3, <3>1, ExpiryIs
    <3>3. \A d \in Of(p)' : Harmless(p, d) /\ ~d.awaited
      BY <2>1, <2>3, AwaitsOf DEF Harmless
    <3>4. Single(p)'
      BY <2>1 DEF Browser, Single
    <3>5. Browser(p)'
      BY <1>1, <3>2, <3>3, <3>4, BrowserEnds DEF States
    <3> QED
      BY <2>1, <3>2, <3>5, StillBrowsers
  <2>4. CASE ~(controller' = [controller EXCEPT ![p] = k]) /\ ~(~Awaits(p) /\ Expire(p, k))
    BY <2>4 DEF RefreshNow
  <2> QED
    BY <2>2, <2>3, <2>4
<1>3. CASE /\ ~Awaits(p) /\ controller' = [controller EXCEPT ![p] = k]
           /\ calls' = calls \cup {Refresh(p, k.token)}
  <2> DEFINE d == Refresh(p, k.token)
  <2>1. /\ d.owner = p /\ d.kind = "refresh" /\ d.token = k.token /\ d.stage = "sent"
        /\ d.awaited /\ d.fresh = 0
    BY RefreshIs
  <2> HIDE DEF d
  <2>2. Of(p)' = Of(p) \cup {d} /\ \A q : q # p => Of(q)' = Of(q)
    BY <1>3, <2>1, CallAdded DEF d
  <2>3. controller'[p] = k /\ \A q \in Participants : q # p => controller'[q] = controller[q]
    BY <1>3 DEF Types, TypeOK
  <2>4. \A c \in Of(p) : ~c.awaited
    BY <1>3, AwaitsOf
  <2>5. \A c \in Of(p) : c.fresh = 0
    BY <2>4 DEF Browser, Asked
  <2>6. Copied(p)'
    BY <2>3 DEF Browser, Copied
  <2>7. Asked(p)'
    BY <2>1, <2>2, <2>3, <2>4 DEF Browser, Asked, Running
  <2>8. Single(p)'
    BY <2>1, <2>2, <2>4 DEF Browser, Single
  <2>9. Replaced(p)'
    BY <2>1, <2>2, <2>5 DEF Replaced
  <2>10. Synchronised(p)'
    BY <2>1, <2>2, AwaitsOf DEF Synchronised
  <2>11. Browser(p)'
    BY <2>6, <2>7, <2>8, <2>9, <2>10 DEF Browser
  <2> QED
    BY <2>2, <2>3, <2>11, StillBrowsers
<1> QED
  BY <1>2, <1>3 DEF RefreshNow

\* A timer that fires has been set.
LEMMA TimersFire ==
  ASSUME Types, \A q \in Participants : Browser(q), NEW p \in Participants, FireTimer(p)
  PROVE  controller[p].state \in {"active", "disconnected"}
<1>1. clock \in Nat /\ MaxTime \in Nat /\ controller[p].timer \in Nat /\ clock <= MaxTime
  BY Constants DEF Types, TypeOK, Controllers
<1>2. controller[p].timer <= clock
  BY DEF FireTimer
<1>3. controller[p].state \notin {"active", "disconnected"} => controller[p].timer > MaxTime
  BY DEF Browser, Copied
<1> QED
  BY <1>1, <1>2, <1>3

LEMMA TimedIs ==
  ASSUME NEW k, NEW state, NEW timer
  PROVE  /\ Timed(k, state, timer).state = state /\ Timed(k, state, timer).token = k.token
         /\ Timed(k, state, timer).idle = k.idle /\ Timed(k, state, timer).absolute = k.absolute
         /\ Timed(k, state, timer).timer = timer
BY DEF Timed

LEMMA ControllersKeepBrowsers ==
  ASSUME Types, \A q \in Participants : Browser(q), NEW p \in Participants,
         FireTimer(p) \/ Online(p) \/ Leave(p) \/ Unmount(p)
  PROVE  \A q \in Participants : Browser(q)'
<1>1. controller[p] \in Controllers /\ UNCHANGED <<session, join>> /\ SameRow(p)
  BY DEF Types, TypeOK, FireTimer, Online, Leave, Unmount, SameRow
<1>2. CASE FireTimer(p)
  <2> DEFINE k == Timed(controller[p], controller[p].state, NoTimer)
  <2>1. k \in Controllers
    BY <1>1, ControllersMade, Constants DEF Controllers
  <2>2. /\ k.state = controller[p].state /\ k.token = controller[p].token
        /\ k.idle = controller[p].idle /\ k.absolute = controller[p].absolute
        /\ k.timer > MaxTime
    BY TimedIs, Constants
  <2>3. RefreshNow(p, k)
    BY <1>2 DEF FireTimer
  <2> HIDE DEF k
  <2>4. k.state # "none"
    BY <1>2, <2>2, TimersFire
  <2> QED
    BY <1>1, <2>1, <2>2, <2>3, <2>4, RefreshKeepsBrowsers
<1>3. CASE Online(p)
  <2>1. RefreshNow(p, controller[p]) /\ controller[p].state # "none"
    BY <1>3 DEF Online, Running
  <2> QED
    BY <1>1, <2>1, RefreshKeepsBrowsers
<1>4. CASE Leave(p) \/ Unmount(p)
  <2> DEFINE d == Revocation(p, controller[p].token)
  <2>1. /\ controller'[p] = Scrubbed(controller[p], "stopped") /\ controller[p].state # "none"
        /\ \A q \in Participants : q # p => controller'[q] = controller[q]
    BY <1>4 DEF Types, TypeOK, Leave, Unmount, Running
  <2>2. /\ controller'[p].state = "stopped" /\ controller'[p].timer > MaxTime
        /\ controller'[p].absolute = controller[p].absolute
    BY <2>1, ScrubbedIs
  <2>3. calls' = calls \/ calls' = calls \cup {d}
    BY <1>4 DEF Leave, Unmount
  <2>4. d.owner = p /\ d.kind = "revoke" /\ d.stage = "sent" /\ ~d.awaited /\ d.fresh = 0
    BY RefreshIs
  <2> HIDE DEF d
  <2>5. Of(p)' \subseteq Of(p) \cup {d} /\ \A q : q # p => Of(q)' = Of(q)
    BY <2>3, <2>4, CallAdded, SameCalls
  <2>6. \A e \in Of(p)' : Harmless(p, e)
    BY <2>4, <2>5 DEF Harmless
  <2>7. Single(p)'
    BY <2>4, <2>5 DEF Browser, Single
  <2>8. Browser(p)'
    BY <1>1, <2>1, <2>2, <2>6, <2>7, BrowserEnds DEF States
  <2> QED
    BY <1>1, <2>1, <2>5, <2>8, StillBrowsers
<1> QED
  BY <1>2, <1>3, <1>4

LEMMA UnheardIs ==
  ASSUME NEW c
  PROVE  /\ Unheard(c).owner = c.owner /\ Unheard(c).kind = c.kind /\ Unheard(c).token = c.token
         /\ Unheard(c).stage = c.stage /\ ~Unheard(c).awaited /\ Unheard(c).fresh = c.fresh
BY DEF Unheard

\* A refresh that is over, or that the browser waits for no longer.
LEMMA SettledCalls ==
  ASSUME Types, \A q \in Participants : Browser(q), NEW c \in calls, c.awaited,
         \/ calls' = calls \ {c}
         \/ calls' = (calls \ {c}) \cup {Unheard(c)} /\ c.stage # "answered"
  PROVE  /\ \A d \in Of(c.owner)' : Harmless(c.owner, d) /\ ~d.awaited
         /\ Single(c.owner)'
         /\ \A q : q # c.owner => Of(q)' = Of(q)
<1> DEFINE p == c.owner
           d == Unheard(c)
<1>1. p \in Participants /\ c \in Of(p)
  BY OwnersAre
<1>2. /\ d.owner = p /\ d.kind = c.kind /\ d.token = c.token /\ d.stage = c.stage
      /\ ~d.awaited /\ d.fresh = c.fresh
  BY UnheardIs
<1>3. \/ Of(p)' = Of(p) \ {c}
      \/ Of(p)' = (Of(p) \ {c}) \cup {d} /\ c.stage # "answered"
  BY <1>2, CallGone, CallReplaced
<1>4. \A q : q # p => Of(q)' = Of(q)
  BY <1>2, CallGone, CallReplaced
<1> HIDE DEF d
<1>5. \A e \in Of(p) \ {c} : ~e.awaited /\ (c.stage = "holding" => e.stage # "holding")
  BY <1>1 DEF Browser, Single
<1>6. c.stage # "answered" => Harmless(p, d)
  BY <1>1, <1>2 DEF Browser, Asked, Harmless, Types, TypeOK, Calls
<1>7. \A e \in Of(p)' : Harmless(p, e) /\ ~e.awaited
  BY <1>2, <1>3, <1>5, <1>6 DEF Harmless
<1>8. Single(p)'
  BY <1>1, <1>2, <1>3, <1>5 DEF Browser, Single
<1> QED
  BY <1>4, <1>7, <1>8

LEMMA AnswersKeepBrowsers ==
  ASSUME Types, \A q \in Participants : Browser(q), NEW c \in calls, Settle(c)
  PROVE  \A q \in Participants : Browser(q)'
<1> DEFINE p == c.owner
           k == controller[p]
<1>1. p \in Participants /\ c \in Of(p) /\ k \in Controllers
  BY OwnersAre DEF Types, TypeOK
<1>2. UNCHANGED <<session, join>> /\ SameRow(p) /\ c.awaited
  BY DEF Settle, ReceiveRefresh, FailRefresh, SameRow
<1>3. \/ calls' = calls \ {c}
      \/ calls' = (calls \ {c}) \cup {Unheard(c)} /\ c.stage # "answered"
  BY DEF Settle, ReceiveRefresh, FailRefresh, Becomes, LeavesStray
<1>4. /\ \A d \in Of(p)' : Harmless(p, d) /\ ~d.awaited
      /\ Single(p)'
      /\ \A q : q # p => Of(q)' = Of(q)
  BY <1>2, <1>3, SettledCalls
<1>5. k.state # "none" /\ k.state \in States
  BY <1>1 DEF Browser, Asked, Controllers
<1>6. CASE ~Running(p) /\ UNCHANGED controller
  <2>1. k.state = "stopped" /\ k.timer > MaxTime
    BY <1>1, <1>5, <1>6 DEF Running, States, Browser, Copied
  <2>2. Browser(p)'
    BY <1>1, <1>2, <1>4, <1>5, <1>6, <2>1, BrowserEnds DEF States
  <2> QED
    BY <1>1, <1>2, <1>4, <1>6, <2>2, StillBrowsers
<1>7. CASE Expire(p, k)
  <2>1. k.state = "expired" => k.timer > MaxTime
    BY <1>1 DEF Browser, Copied
  <2>2. /\ controller'[p].state = "expired" /\ controller'[p].timer > MaxTime
        /\ controller'[p].absolute = k.absolute
        /\ \A q \in Participants : q # p => controller'[q] = controller[q]
    BY <1>1, <1>7, <2>1, ExpiryIs
  <2>3. Browser(p)'
    BY <1>1, <1>2, <1>4, <1>5, <2>2, BrowserEnds DEF States
  <2> QED
    BY <1>1, <1>2, <1>4, <2>2, <2>3, StillBrowsers
<1>8. CASE controller' = [controller EXCEPT ![p] = Timed(k, "disconnected", clock + RetryDelay)]
  <2>1. /\ controller'[p] = Timed(k, "disconnected", clock + RetryDelay)
        /\ \A q \in Participants : q # p => controller'[q] = controller[q]
    BY <1>1, <1>8 DEF Types, TypeOK
  <2>2. controller'[p].state = "disconnected" /\ controller'[p].absolute = k.absolute
    BY <2>1, TimedIs
  <2>3. Browser(p)'
    BY <1>1, <1>2, <1>4, <1>5, <2>2, BrowserEnds DEF States
  <2> QED
    BY <1>1, <1>2, <1>4, <2>1, <2>3, StillBrowsers
<1>9. CASE /\ Acceptable(c) /\ calls' = calls \ {c}
           /\ controller' = [controller EXCEPT ![p] = Renewed(k, c)]
  <2>1. /\ controller'[p] = Renewed(k, c)
        /\ \A q \in Participants : q # p => controller'[q] = controller[q]
    BY <1>1, <1>9 DEF Types, TypeOK
  <2>2. /\ controller'[p].state = "active" /\ controller'[p].token = c.fresh
        /\ controller'[p].idle = c.idle /\ controller'[p].absolute = k.absolute
    BY <2>1 DEF Renewed
  <2>3. c.fresh # 0
    BY <1>1, <1>9 DEF Acceptable, Types, TypeOK, Calls
  <2>4. session[p].token = c.fresh /\ session[p].idle = c.idle /\ Settled(p)
    BY <1>1, <2>3 DEF Browser, Replaced
  <2>5. Of(p)' = Of(p) \ {c}
    BY <1>9, CallGone
  <2>6. Copied(p)'
    BY <1>1, <1>2, <1>5, <2>2 DEF Browser, Copied
  <2>7. Asked(p)'
    BY <1>1, <1>4, <2>2, <2>5 DEF Browser, Asked
  <2>8. Settled(p)'
    BY <1>2, <2>4, <2>5 DEF Settled
  <2>9. Replaced(p)'
    BY <1>1, <1>2, <2>5, <2>8 DEF Browser, Replaced
  <2>10. Synchronised(p)'
    BY <1>2, <2>2, <2>4, <2>8 DEF Synchronised
  <2>11. Browser(p)'
    BY <1>4, <2>6, <2>7, <2>9, <2>10 DEF Browser
  <2> QED
    BY <1>1, <1>2, <1>4, <2>1, <2>11, StillBrowsers
<1> QED
  BY <1>6, <1>7, <1>8, <1>9 DEF Settle, ReceiveRefresh, FailRefresh

\* A step that asks nothing and starts no controller.
LEMMA QuietKeepsBrowsers ==
  ASSUME \A q \in Participants : Browser(q), UNCHANGED <<controller, calls>>,
         \A q \in Participants : SameRow(q)
  PROVE  \A q \in Participants : Browser(q)'
<1>1. TAKE q \in Participants
<1>2. Of(q)' = Of(q) /\ SameController(q)
  BY SameCalls DEF SameController
<1> QED
  BY <1>2, BrowserFrame

LEMMA BrowserStep ==
  ASSUME Types, \A q \in Participants : Server(q) /\ Shown(q) /\ Browser(q), [Next]_vars
  PROVE  \A q \in Participants : Browser(q)'
<1>1. ASSUME NEW p \in Participants, FindBinding(p) \/ InsertBinding(p)
      PROVE  \A q \in Participants : Browser(q)'
  <2>1. \E stage, lease : Advance(p, stage, lease)
    BY <1>1 DEF FindBinding, InsertBinding, JoinExisting
  <2>2. \A q \in Participants : join'[q].at = join[q].at
    BY <2>1, Advances
  <2>3. UNCHANGED <<session, controller, calls>>
    BY <1>1 DEF FindBinding, InsertBinding
  <2> QED
    BY <2>2, <2>3, QuietKeepsBrowsers DEF SameRow
<1>2. ASSUME NEW p \in Participants, Launch(p)
      PROVE  \A q \in Participants : Browser(q)'
  <2>1. ~session[p].row
    BY <1>2 DEF Launch, Shown, Server, Dated
  <2>2. \A q \in Participants : session[q].row => join'[q] = join[q]
    BY <1>2, <2>1 DEF Launch, Types, TypeOK
  <2>3. UNCHANGED <<session, controller, calls>>
    BY <1>2 DEF Launch
  <2> QED
    BY <2>2, <2>3, QuietKeepsBrowsers DEF SameRow
<1>3. ASSUME UNCHANGED <<session, join, controller, calls>>
      PROVE  \A q \in Participants : Browser(q)'
  BY <1>3, QuietKeepsBrowsers DEF SameRow
<1>4. CASE CloseInstance
  <2>1. \A q \in Participants : session'[q] = session[q] \/ session'[q] = Revoked(session[q])
    BY <1>4 DEF CloseInstance
  <2>2. \A q \in Participants : SameRow(q)
    BY <1>4, <2>1, RecordsKept DEF SameRow, CloseInstance
  <2> QED
    BY <1>4, <2>2, QuietKeepsBrowsers DEF CloseInstance
<1>5. CASE \E p \in Participants : Serve(p) \/ Browse(p)
  <2>1. PICK p \in Participants : Serve(p) \/ Browse(p)
    BY <1>5
  <2>2. CASE Bootstrap(p) \/ ReadContext(p) \/ FailBootstrap(p)
    BY <1>3, <2>2 DEF Bootstrap, ReadContext, FailBootstrap
  <2> QED
    BY <1>1, <1>2, <2>1, <2>2, CreateKeepsBrowsers, StartKeepsBrowsers, ControllersKeepBrowsers
       DEF Serve, Browse
<1>6. CASE \E c \in calls : Handle(c) \/ Settle(c) \/ DropCall(c)
  BY <1>6, HandlerKeepsBrowsers, AnswersKeepBrowsers
<1>7. CASE Tick
  BY <1>3, <1>7 DEF Tick
<1>8. CASE UNCHANGED vars
  BY <1>3, <1>8 DEF vars
<1> QED
  BY <1>4, <1>5, <1>6, <1>7, <1>8 DEF Next

-----------------------------------------------------------------------------
(* The theorems.                                                           *)

LEMMA InvInit == Init => SessionInv
<1>1. SUFFICES ASSUME Init PROVE SessionInv
  OBVIOUS
<1>2. NoBinding \in Bindings /\ NoSession \in Rows
  BY DEF Bindings, Rows, NoBinding, NoSession
<1>3. Types
  <2>1. IsFiniteSet(calls)
    BY <1>1, FS_EmptySet DEF Init
  <2>2. clock \in Nat /\ clock <= MaxTime
    BY <1>1, Constants DEF Init
  <2>3. join \in [Participants -> [stage : Joins, at : Nat, lease : Nat]]
    BY <1>1 DEF Init, Joins
  <2>4. controller \in [Participants -> Controllers]
    BY <1>1, Constants DEF Init, Controllers, States
  <2>5. view \in [Participants -> Views] /\ calls \subseteq Calls
    BY <1>1 DEF Init, Views
  <2> QED
    BY <1>1, <1>2, <2>1, <2>2, <2>3, <2>4, <2>5 DEF Types, TypeOK, Init
<1>4. SUFFICES ASSUME NEW p \in Participants PROVE Server(p) /\ Shown(p) /\ Browser(p)
  BY <1>3 DEF SessionInv
<1>5. /\ session[p] = NoSession /\ join[p].stage = "none" /\ join[p].at = 0 /\ clock = 0
      /\ view[p] = "idle" /\ controller[p].state = "none" /\ controller[p].timer = NoTimer
      /\ calls = {}
  BY <1>1, <1>4 DEF Init
<1>6. ~session[p].row
  BY <1>5 DEF NoSession
<1>7. Placed(p)
  BY <1>5, <1>6 DEF Placed, Granted
<1>8. Dated(p)
  BY <1>5, <1>6 DEF Dated, Pending
<1>9. Shown(p)
  BY <1>5, <1>6 DEF Shown
<1>10. Copied(p)
  BY <1>5, <1>6, Constants DEF Copied
<1>11. Asked(p) /\ Single(p) /\ Replaced(p) /\ Synchronised(p)
  BY <1>5 DEF Of, Asked, Single, Replaced, Synchronised
<1> QED
  BY <1>7, <1>8, <1>9, <1>10, <1>11 DEF Server, Browser

LEMMA InvStep == SessionInv /\ [Next]_vars => SessionInv'
<1>1. SUFFICES ASSUME SessionInv, [Next]_vars PROVE SessionInv'
  OBVIOUS
<1>2. Types'
  BY <1>1, TypesStep DEF SessionInv
<1>3. \A q \in Participants : Server(q)'
  BY <1>1, ServerStep DEF SessionInv
<1>4. \A q \in Participants : Shown(q)'
  BY <1>1, ShownStep DEF SessionInv
<1>5. \A q \in Participants : Browser(q)'
  BY <1>1, BrowserStep DEF SessionInv
<1> QED
  BY <1>2, <1>3, <1>4, <1>5 DEF SessionInv

\* The inductive invariant of sessions, browsers and the requests between them
\* (activity-session-service.ts, session.ts).
THEOREM SessionInvariant == Spec => []SessionInv
<1>1. Init => SessionInv
  BY InvInit
<1>2. SessionInv /\ [Next]_vars => SessionInv'
  BY InvStep
<1> QED
  BY <1>1, <1>2, PTL DEF Spec

\* Bindings, sessions, requests and controllers keep their form.
THEOREM SessionTypes == Spec => []TypeOK
<1>1. SessionInv => TypeOK
  BY DEF SessionInv, Types
<1> QED
  BY <1>1, SessionInvariant, PTL

\* Whoever has a session asserted the place and the run of the binding, however
\* the first launches race to insert it (createOrJoinSession).
THEOREM SessionsMatchBinding == Spec => []GrantedForTheBinding
<1>1. SessionInv => GrantedForTheBinding
  BY DEF SessionInv, Server, Placed, Granted, GrantedForTheBinding
<1> QED
  BY <1>1, SessionInvariant, PTL

\* The token of an active browser that waits for nothing is the one the database
\* knows, and lives until the browser's own expiry: the binding outlives its
\* sessions and no lost or late refresh replaces the token (refreshSession,
\* performRefresh).
THEOREM ActiveSessionsResolve == Spec => []ActiveIsAuthorised
<1>1. SessionInv => ActiveIsAuthorised
  <2>1. SUFFICES ASSUME SessionInv, NEW p \in Participants,
                        controller[p].state = "active", ~Awaits(p), ~IsExpired(controller[p]),
                        ~session[p].revoked, ~binding.closed
                 PROVE  Resolves(p, controller[p].token, clock)
    BY DEF ActiveIsAuthorised
  <2>2. session[p].token = controller[p].token /\ session[p].idle = controller[p].idle
    BY <2>1 DEF SessionInv, Browser, Synchronised
  <2>3. session[p].row /\ controller[p].absolute = session[p].expires
    BY <2>1 DEF SessionInv, Browser, Copied
  <2>4. /\ session[p].expires <= join[p].at + SessionTtl
        /\ join[p].at + SessionTtl <= binding.expires
    BY <2>1, <2>3 DEF SessionInv, Server, Placed, Dated, Granted
  <2>5. /\ clock \in Nat /\ session[p].expires \in Nat /\ session[p].idle \in Nat
        /\ binding.expires \in Nat /\ join[p].at + SessionTtl \in Nat
    BY <2>1, Constants DEF SessionInv, Types, TypeOK, Rows, Bindings
  <2>6. session[p].expires > clock /\ session[p].idle > clock
    BY <2>1, <2>2, <2>3, <2>5 DEF IsExpired
  <2>7. binding.expires > clock
    BY <2>4, <2>5, <2>6
  <2> QED
    BY <2>1, <2>2, <2>3, <2>6, <2>7 DEF Resolves, Live
<1> QED
  BY <1>1, SessionInvariant, PTL

\* No answer, timer or event gives a token back to a controller whose token has
\* been scrubbed (performRefresh after the await).
THEOREM ScrubbedTokensStay == Spec => ScrubbedStays
<1> DEFINE Stays == \A p \in Participants :
                      controller[p].state # "none" /\ controller[p].token = 0
                      => controller'[p].token = 0
<1>1. SessionInv /\ [Next]_vars => Stays
  <2>1. SUFFICES ASSUME SessionInv, [Next]_vars, NEW p \in Participants,
                        controller[p].state # "none", controller[p].token = 0,
                        controller'[p] # controller[p]
                 PROVE  controller'[p].token = 0
    OBVIOUS
  <2>2. Types /\ controller \in [Participants -> Controllers]
    BY <2>1 DEF SessionInv, Types, TypeOK
  <2>3. ASSUME NEW q \in Participants, NEW k \in Controllers, k.token = controller[q].token,
               Expire(q, k) \/ controller' = [controller EXCEPT ![q] = k]
        PROVE  controller'[p].token = 0
    <3>1. \/ controller' = [controller EXCEPT ![q] = k]
          \/ controller' = [controller EXCEPT ![q] = Scrubbed(k, "expired")]
      BY <2>3 DEF Expire
    <3>2. \/ controller'[p] = k /\ p = q
          \/ controller'[p] = Scrubbed(k, "expired")
      BY <2>1, <2>2, <3>1
    <3> QED
      BY <2>1, <2>3, <3>2, ScrubbedIs
  <2>4. ASSUME NEW q \in Participants, Start(q)
        PROVE  controller'[p].token = 0
    <3>1. controller[q].state = "none"
      BY <2>1, <2>4 DEF Start, SessionInv, Shown
    <3>2. controller'[p] = controller[p]
      BY <2>1, <2>2, <2>4, <3>1 DEF Start
    <3> QED
      BY <2>1, <3>2
  <2>5. ASSUME NEW q \in Participants, Leave(q) \/ Unmount(q)
        PROVE  controller'[p].token = 0
    <3>1. controller'[p] = Scrubbed(controller[q], "stopped")
      BY <2>1, <2>2, <2>5 DEF Leave, Unmount
    <3> QED
      BY <3>1, ScrubbedIs
  <2>6. ASSUME NEW q \in Participants, FireTimer(q) \/ Online(q)
        PROVE  controller'[p].token = 0
    <3> DEFINE k == Timed(controller[q], controller[q].state, NoTimer)
    <3>1. controller[q] \in Controllers /\ controller[q].state \in States
      BY <2>2 DEF Controllers
    <3>2. k \in Controllers
      BY <2>2, <3>1, ControllersMade, Constants
    <3>3. k.token = controller[q].token
      BY TimedIs
    <3> HIDE DEF k
    <3>4. RefreshNow(q, k) \/ RefreshNow(q, controller[q])
      BY <2>6 DEF FireTimer, Online, k
    <3>5. \/ Expire(q, k) \/ controller' = [controller EXCEPT ![q] = k]
          \/ Expire(q, controller[q]) \/ controller' = [controller EXCEPT ![q] = controller[q]]
      BY <3>4 DEF RefreshNow
    <3> QED
      BY <2>3, <3>1, <3>2, <3>3, <3>5
  <2>7. ASSUME NEW c \in calls, Settle(c)
        PROVE  controller'[p].token = 0
    <3> DEFINE q == c.owner
    <3>1. q \in Participants /\ c \in Of(q) /\ c \in Calls
      BY <2>2, OwnersAre
    <3>2. CASE Expire(q, controller[q])
      BY <2>2, <2>3, <3>1, <3>2
    <3>3. CASE controller' = [controller EXCEPT ![q] = Timed(controller[q], "disconnected", clock + RetryDelay)]
      <4>1. controller'[p] = Timed(controller[p], "disconnected", clock + RetryDelay)
        BY <2>1, <2>2, <3>1, <3>3
      <4> QED
        BY <2>1, <4>1, TimedIs
    <3>4. CASE /\ Running(q) /\ Acceptable(c) /\ c.awaited
               /\ controller' = [controller EXCEPT ![q] = Renewed(controller[q], c)]
      <4>1. c.fresh # 0
        BY <3>1, <3>4 DEF Acceptable, Calls
      <4>2. c.token # 0 /\ c.token = controller[q].token
        BY <2>1, <3>1, <3>4, <4>1 DEF SessionInv, Browser, Asked
      <4>3. p # q
        BY <2>1, <4>2
      <4> QED
        BY <2>1, <2>2, <3>4, <4>3
    <3> QED
      BY <2>1, <2>7, <3>2, <3>3, <3>4 DEF Settle, ReceiveRefresh, FailRefresh
  <2>8. \/ \E q \in Participants : Start(q) \/ Leave(q) \/ Unmount(q) \/ FireTimer(q) \/ Online(q)
        \/ \E c \in calls : Settle(c)
        \/ UNCHANGED controller
    <3>1. CASE \E q \in Participants : Serve(q) \/ Browse(q)
      BY <3>1 DEF Serve, Browse, FindBinding, InsertBinding, CreateSession, Launch, Bootstrap,
                  ReadContext, FailBootstrap
    <3>2. CASE \E c \in calls : Handle(c) \/ DropCall(c)
      BY <3>2 DEF Handle, DropCall, LockSession, RotateToken, RevokeSession
    <3> QED
      BY <2>1, <3>1, <3>2 DEF Next, CloseInstance, Tick, vars
  <2> QED
    BY <2>1, <2>4, <2>5, <2>6, <2>7, <2>8
<1>2. [][Stays]_vars => ScrubbedStays
  BY PTL DEF ScrubbedStays
<1> QED
  BY <1>1, <1>2, SessionInvariant, PTL DEF Spec
=============================================================================
