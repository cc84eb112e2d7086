--------------------------- MODULE ActivitySession ---------------------------
(***************************************************************************)
(* Sessions of the Discord Activity.                                       *)
(*                                                                         *)
(* Discord Agent asks the control plane to create or join the binding of   *)
(* one Activity instance for each participant who launches it              *)
(* (ActivitySessionService); the browser of the participant then keeps its *)
(* session alive by itself (ActivitySessionController): every refresh      *)
(* replaces the token, so the token a browser holds and the digest in the  *)
(* database follow each other through requests that are delayed, answers   *)
(* that are lost, timers, `online` events and the end of the session.      *)
(*                                                                         *)
(* Tokens are random; here a token is a number nobody holds yet, and 0 is  *)
(* the empty string of a scrubbed token.  The browsers' clocks and the     *)
(* server's are one clock.  Each participant launches once.  What the      *)
(* Agent does around the session (OAuth, PKCE, roles) is left out, and it  *)
(* is not assumed to refresh a session it has handed to a browser.         *)
(***************************************************************************)
EXTENDS Naturals, FiniteSets, FiniteSetsExt

CONSTANTS
    Participants,  \* those who launch the instance
    Request,       \* place and run each one's session request asserts
    BoundRun,      \* run of the launch context each browser gets
    NoRun,         \* no run is asserted
    SessionTtl,    \* SESSION_TTL_MS
    IdleTtl,       \* IDLE_TTL_MS
    BindingTtl,    \* BINDING_TTL_MS
    Lead,          \* refreshLeadMs
    RetryDelay,    \* retryDelayMs
    JoinDelay,     \* longest a session request takes
    LastJoin,      \* time of the last launch
    MaxStrays,     \* requests of a browser that reach the server after their
                   \* fetch has failed
    MaxTime        \* bound of the clock

ASSUME TimesAssumption ==
    /\ SessionTtl \in Nat \ {0} /\ IdleTtl \in Nat \ {0} /\ RetryDelay \in Nat \ {0}
    /\ BindingTtl \in Nat /\ Lead \in Nat /\ JoinDelay \in Nat /\ LastJoin \in Nat
    /\ MaxStrays \in Nat /\ MaxTime \in Nat
    /\ BindingTtl >= SessionTtl + JoinDelay
ASSUME RequestAssumption ==
    \A p \in Participants : {"place", "run"} \subseteq DOMAIN Request[p]

VARIABLES
    clock,
    binding,       \* the row of activity_instance_bindings
    session,       \* each participant's row of activity_sessions
    join,          \* each participant's session request
    view,          \* what each browser shows
    controller,    \* each browser's ActivitySessionController
    calls          \* requests of browsers the server has not answered, or
                   \* whose answer is under way

vars == <<clock, binding, session, join, view, controller, calls>>

\* Fields of a row that does not exist have no meaning.
NoBinding == [row |-> FALSE, place |-> NoRun, run |-> NoRun, expires |-> 0, closed |-> FALSE]
NoSession == [row |-> FALSE, token |-> 0, revoked |-> FALSE, expires |-> 0, idle |-> 0]
NoTimer == MaxTime + 1 + RetryDelay

Views == {"idle", "joining", "reading", "resolved", "ready", "expired", "error", "gone"}
Joins == {"none", "asked", "inserting", "granted", "answered"}
States == {"none", "active", "disconnected", "expired", "stopped"}

-----------------------------------------------------------------------------
(* ActivitySessionService.                                                 *)

\* assertBindingMatches, of a request made at time t.
Matches(p, t) ==
    /\ ~binding.closed
    /\ binding.expires > t
    /\ binding.place = Request[p].place
    /\ Request[p].run \in {NoRun, binding.run}

Advance(p, stage, lease) ==
    join' = [join EXCEPT ![p] = [stage |-> stage, at |-> join[p].at, lease |-> lease]]

Leased(b, p) ==
    [row |-> b.row, place |-> b.place, run |-> b.run, expires |-> join[p].at + BindingTtl,
     closed |-> b.closed]

\* createOrJoinSession on a binding that exists: its lease is renewed, or the
\* request is refused.
JoinExisting(p) ==
    IF Matches(p, join[p].at)
    THEN /\ binding' = Leased(binding, p)
         /\ Advance(p, "granted", join[p].at + BindingTtl)
         /\ UNCHANGED view
    ELSE /\ Advance(p, "answered", 0)
         /\ view' = [view EXCEPT ![p] = "error"]
         /\ UNCHANGED binding

\* The select of createOrJoinSession, which locks the row if there is one.
FindBinding(p) ==
    /\ join[p].stage = "asked"
    /\ IF binding.row
       THEN JoinExisting(p)
       ELSE /\ Advance(p, "inserting", 0)
            /\ UNCHANGED <<binding, view>>
    /\ UNCHANGED <<clock, session, controller, calls>>

NewBinding(p) ==
    [row |-> TRUE, place |-> Request[p].place, run |-> Request[p].run,
     expires |-> join[p].at + BindingTtl, closed |-> FALSE]

\* Mutant: the row that won the race is used without assertBindingMatches.
InsertBinding_Unchecked(p) ==
    /\ join[p].stage = "inserting"
    /\ binding' = IF binding.row THEN Leased(binding, p) ELSE NewBinding(p)
    /\ Advance(p, "granted", join[p].at + BindingTtl)
    /\ UNCHANGED <<clock, session, view, controller, calls>>

\* The insert, which does nothing when another request has inserted the binding
\* meanwhile; the row is then read again.
InsertBinding(p) ==
    /\ join[p].stage = "inserting"
    /\ IF binding.row
       THEN JoinExisting(p)
       ELSE /\ binding' = NewBinding(p)
            /\ Advance(p, "granted", join[p].at + BindingTtl)
            /\ UNCHANGED view
    /\ UNCHANGED <<clock, session, controller, calls>>

NewSession(p) ==
    LET expires == Min({join[p].at + SessionTtl, join[p].lease})
    IN  [row |-> TRUE, token |-> 1, revoked |-> FALSE, expires |-> expires,
         idle |-> Min({join[p].at + IdleTtl, expires})]

\* createSession, a statement of its own after the transaction of the binding.
CreateSession(p) ==
    /\ join[p].stage = "granted"
    /\ session' = [session EXCEPT ![p] = NewSession(p)]
    /\ Advance(p, "answered", 0)
    /\ UNCHANGED <<clock, binding, view, controller, calls>>

\* A session that can be used and refreshed at time t.
Live(p, t) ==
    /\ session[p].row /\ ~session[p].revoked
    /\ session[p].expires > t /\ session[p].idle > t
    /\ ~binding.closed /\ binding.expires > t

\* resolveSession finds the session by the digest of its token.
Resolves(p, token, t) == session[p].row /\ session[p].token = token /\ Live(p, t)

Refresh(p, token) ==
    [kind |-> "refresh", owner |-> p, token |-> token, stage |-> "sent",
     awaited |-> TRUE, at |-> 0, idle |-> 0, fresh |-> 0]

Revocation(p, token) ==
    [kind |-> "revoke", owner |-> p, token |-> token, stage |-> "sent",
     awaited |-> FALSE, at |-> 0, idle |-> 0, fresh |-> 0]

\* A refreshSession whose transaction holds the row of the session of p.
Locked(p) == \E c \in calls : c.owner = p /\ c.stage = "holding"

Becomes(c, d) == calls' = (calls \ {c}) \cup {d}

Held(c) ==
    [kind |-> c.kind, owner |-> c.owner, token |-> c.token, stage |-> "holding",
     awaited |-> c.awaited, at |-> clock, idle |-> 0, fresh |-> 0]

Answered(c, idle, fresh) ==
    [kind |-> c.kind, owner |-> c.owner, token |-> c.token, stage |-> "answered",
     awaited |-> TRUE, at |-> 0, idle |-> idle, fresh |-> fresh]

\* The browser waits for c no longer.
Unheard(c) ==
    [kind |-> c.kind, owner |-> c.owner, token |-> c.token, stage |-> c.stage,
     awaited |-> FALSE, at |-> c.at, idle |-> c.idle, fresh |-> c.fresh]

\* The server answers with a replacement (fresh > 0) or refuses; an answer
\* nobody waits for is not kept.
Answer(c, idle, fresh) ==
    IF c.awaited THEN Becomes(c, Answered(c, idle, fresh)) ELSE calls' = calls \ {c}

\* Mutant: neither FOR UPDATE nor the token in the update's condition keeps two
\* refreshes with one token apart.
LockSession_Unlocked(c) ==
    LET s == session[c.owner]
    IN  /\ c.kind = "refresh" /\ c.stage = "sent"
        /\ IF s.row /\ c.token > 0 /\ Live(c.owner, clock)
           THEN Becomes(c, Held(c))
           ELSE Answer(c, 0, 0)
        /\ UNCHANGED <<clock, binding, session, join, view, controller>>

\* The select FOR UPDATE of refreshSession by the digest of the token.
LockSession(c) ==
    LET s == session[c.owner]
    IN  /\ c.kind = "refresh" /\ c.stage = "sent"
        /\ ~Locked(c.owner)
        /\ IF s.row /\ s.token = c.token /\ ~s.revoked /\ s.expires > clock /\ s.idle > clock
           THEN Becomes(c, Held(c))
           ELSE Answer(c, 0, 0)
        /\ UNCHANGED <<clock, binding, session, join, view, controller>>

InUse(p) == {session[p].token, controller[p].token}
            \cup UNION {{c.token, c.fresh} : c \in {d \in calls : d.owner = p}}

FreshToken(p) == CHOOSE t \in 1 .. Cardinality(InUse(p)) + 1 : t \notin InUse(p)

Rotated(s, token, idle) ==
    [row |-> s.row, token |-> token, revoked |-> s.revoked, expires |-> s.expires,
     idle |-> idle]

Revoked(s) ==
    [row |-> s.row, token |-> s.token, revoked |-> TRUE, expires |-> s.expires,
     idle |-> s.idle]

\* The rest of refreshSession: the binding is read and the token replaced.
RotateToken(c) ==
    LET p == c.owner
        idle == Min({c.at + IdleTtl, session[p].expires, binding.expires})
    IN  /\ c.stage = "holding"
        /\ IF ~binding.closed /\ binding.expires > c.at
           THEN /\ session' = [session EXCEPT ![p] = Rotated(session[p], FreshToken(p), idle)]
                /\ Answer(c, idle, FreshToken(p))
           ELSE /\ Answer(c, 0, 0)
                /\ UNCHANGED session
        /\ UNCHANGED <<clock, binding, join, view, controller>>

\* revokeSession for the browser, which waits for no answer.
RevokeSession(c) ==
    LET p == c.owner
    IN  /\ c.kind = "revoke"
        /\ ~Locked(p)
        /\ session' = IF session[p].token = c.token
                      THEN [session EXCEPT ![p] = Revoked(session[p])] ELSE session
        /\ calls' = calls \ {c}
        /\ UNCHANGED <<clock, binding, join, view, controller>>

\* closeInstance: the binding is closed and its sessions are revoked.
CloseInstance ==
    /\ binding.row /\ ~binding.closed
    /\ \A p \in Participants : ~Locked(p)
    /\ binding' = [row |-> TRUE, place |-> binding.place, run |-> binding.run,
                   expires |-> binding.expires, closed |-> TRUE]
    /\ session' = [p \in Participants |->
                      IF session[p].row THEN Revoked(session[p]) ELSE session[p]]
    /\ UNCHANGED <<clock, join, view, controller, calls>>

-----------------------------------------------------------------------------
(* The Activity in the browser.                                            *)

\* The launch: OAuth and the Agent's session request, which takes its `now` on
\* arrival.
Launch(p) ==
    /\ view[p] = "idle"
    /\ clock <= LastJoin
    /\ view' = [view EXCEPT ![p] = "joining"]
    /\ join' = [join EXCEPT ![p] = [stage |-> "asked", at |-> clock, lease |-> 0]]
    /\ UNCHANGED <<clock, binding, session, controller, calls>>

\* The Agent hands the session to the browser.
Bootstrap(p) ==
    /\ view[p] = "joining"
    /\ join[p].stage = "answered"
    /\ view' = [view EXCEPT ![p] = "reading"]
    /\ UNCHANGED <<clock, binding, session, join, controller, calls>>

\* readActivitySessionContext: the session must resolve and be bound to the run
\* of the launch.
ReadContext(p) ==
    /\ view[p] = "reading"
    /\ view' = [view EXCEPT ![p] =
                   IF Resolves(p, 1, clock) /\ binding.run # NoRun /\ binding.run = BoundRun[p]
                   THEN "resolved" ELSE "error"]
    /\ UNCHANGED <<clock, binding, session, join, controller, calls>>

\* The bootstrap fails in the browser, at the Agent or on the way, or the
\* Activity is closed before its end.
FailBootstrap(p) ==
    /\ view[p] \in {"joining", "reading"}
    /\ view' = [view EXCEPT ![p] = "error"]
    /\ UNCHANGED <<clock, binding, session, join, controller, calls>>

IsExpired(k) == clock >= k.absolute \/ clock >= k.idle

\* scheduleRefresh, of a controller that has a session until `idle`.
RefreshAt(idle) == IF idle >= clock + Lead THEN idle - Lead ELSE clock

\* expire, from any state of the controller but "expired".
Scrubbed(k, state) ==
    [state |-> state, token |-> 0, idle |-> k.idle, absolute |-> k.absolute,
     timer |-> NoTimer]

\* The state and the timer a controller that keeps its session goes on with.
Timed(k, state, timer) ==
    [state |-> state, token |-> k.token, idle |-> k.idle, absolute |-> k.absolute,
     timer |-> timer]

\* The replacement of an answer is the session from now on.
Renewed(k, c) ==
    [state |-> "active", token |-> c.fresh, idle |-> c.idle, absolute |-> k.absolute,
     timer |-> RefreshAt(c.idle)]

Expire(p, k) ==
    IF k.state = "expired"
    THEN controller' = [controller EXCEPT ![p] = k] /\ UNCHANGED view
    ELSE /\ controller' = [controller EXCEPT ![p] = Scrubbed(k, "expired")]
         /\ view' = [view EXCEPT ![p] = "expired"]

NewController(p) ==
    LET idle == Min({join[p].at + IdleTtl, session[p].expires})
    IN  [state |-> "active", token |-> 1, idle |-> idle, absolute |-> session[p].expires,
         timer |-> RefreshAt(idle)]

\* The controller is made from the session of the bootstrap and started.  The
\* view becomes "ready" even when start() finds the session expired.
Start(p) ==
    LET k == NewController(p)
    IN  /\ view[p] = "resolved"
        /\ view' = [view EXCEPT ![p] = "ready"]
        /\ controller' = [controller EXCEPT ![p] =
                             IF IsExpired(k) THEN Scrubbed(k, "expired") ELSE k]
        /\ UNCHANGED <<clock, binding, session, join, calls>>

Awaits(p) == \E c \in calls : c.owner = p /\ c.awaited

\* refreshNow, when the controller of p is k: a refresh under way is joined.
RefreshNow(p, k) ==
    \/ /\ Awaits(p)
       /\ controller' = [controller EXCEPT ![p] = k]
       /\ UNCHANGED <<view, calls>>
    \/ /\ ~Awaits(p) /\ IsExpired(k)
       /\ Expire(p, k)
       /\ UNCHANGED calls
    \/ /\ ~Awaits(p) /\ ~IsExpired(k)
       /\ controller' = [controller EXCEPT ![p] = k]
       /\ calls' = calls \cup {Refresh(p, k.token)}
       /\ UNCHANGED view

\* The timer of scheduleRefresh or scheduleRetry.
FireTimer(p) ==
    /\ controller[p].timer <= clock
    /\ RefreshNow(p, Timed(controller[p], controller[p].state, NoTimer))
    /\ UNCHANGED <<clock, binding, session, join>>

Running(p) == controller[p].state \in {"active", "disconnected", "expired"}

\* The browser is online again.
Online(p) ==
    /\ Running(p)
    /\ RefreshNow(p, controller[p])
    /\ UNCHANGED <<clock, binding, session, join>>

\* A replacement performRefresh accepts; the absolute expiry is the row's.
Acceptable(c) == c.fresh > 0 /\ c.idle > clock /\ session[c.owner].expires > clock

\* Mutant: performRefresh does not look at `stopped` after the await.
ReceiveRefresh_Stopped(c) ==
    LET p == c.owner
        k == controller[p]
    IN  /\ c.awaited /\ c.stage = "answered"
        /\ calls' = calls \ {c}
        /\ IF Acceptable(c)
           THEN /\ controller' = [controller EXCEPT ![p] = Renewed(k, c)]
                /\ UNCHANGED view
           ELSE Expire(p, k)
        /\ UNCHANGED <<clock, binding, session, join>>

\* The answer of a refresh: a replacement, or an error that ends the session.
\* A controller that was stopped meanwhile drops it.
ReceiveRefresh(c) ==
    LET p == c.owner
        k == controller[p]
    IN  /\ c.awaited /\ c.stage = "answered"
        /\ calls' = calls \ {c}
        /\ \/ /\ ~Running(p)
              /\ UNCHANGED <<controller, view>>
           \/ /\ Running(p) /\ Acceptable(c)
              /\ controller' = [controller EXCEPT ![p] = Renewed(k, c)]
              /\ UNCHANGED view
           \/ /\ Running(p) /\ ~Acceptable(c)
              /\ Expire(p, k)
        /\ UNCHANGED <<clock, binding, session, join>>

LeavesStray(c) ==
    /\ c.stage # "answered"
    /\ Cardinality({d \in calls : d.owner = c.owner /\ ~d.awaited}) < MaxStrays

\* Mutant: a refresh that failed is not scheduled again.
FailRefresh_NoRetry(c) ==
    LET p == c.owner
        k == controller[p]
    IN  /\ c.awaited
        /\ \/ calls' = calls \ {c}
           \/ LeavesStray(c) /\ Becomes(c, Unheard(c))
        /\ IF ~Running(p) THEN UNCHANGED <<controller, view>>
           ELSE IF IsExpired(k) THEN Expire(p, k)
           ELSE /\ controller' = [controller EXCEPT ![p] = Timed(k, "disconnected", k.timer)]
                /\ UNCHANGED view
        /\ UNCHANGED <<clock, binding, session, join>>

\* The browser's fetch fails.  The request may be lost, before or after the
\* server has handled it, or still reach the server.
FailRefresh(c) ==
    LET p == c.owner
        k == controller[p]
    IN  /\ c.awaited
        /\ \/ calls' = calls \ {c}
           \/ LeavesStray(c) /\ Becomes(c, Unheard(c))
        /\ \/ /\ ~Running(p)
              /\ UNCHANGED <<controller, view>>
           \/ /\ Running(p) /\ IsExpired(k)
              /\ Expire(p, k)
           \/ /\ Running(p) /\ ~IsExpired(k)
              /\ controller' = [controller EXCEPT ![p] =
                     Timed(k, "disconnected", clock + RetryDelay)]
              /\ UNCHANGED view
        /\ UNCHANGED <<clock, binding, session, join>>

\* A request nobody waits for is lost.
DropCall(c) ==
    /\ ~c.awaited
    /\ c.stage = "sent"
    /\ calls' = calls \ {c}
    /\ UNCHANGED <<clock, binding, session, join, view, controller>>

\* "End session": the controller stops and the token it held is revoked.
Leave(p) ==
    /\ view[p] = "ready" /\ Running(p)
    /\ controller' = [controller EXCEPT ![p] = Scrubbed(controller[p], "stopped")]
    /\ calls' = IF controller[p].token = 0 THEN calls
                ELSE calls \cup {Revocation(p, controller[p].token)}
    /\ view' = [view EXCEPT ![p] = "expired"]
    /\ UNCHANGED <<clock, binding, session, join>>

\* The Activity is closed: the effect is cleaned up.
Unmount(p) ==
    /\ Running(p)
    /\ view' = [view EXCEPT ![p] = "gone"]
    /\ controller' = [controller EXCEPT ![p] = Scrubbed(controller[p], "stopped")]
    /\ UNCHANGED <<clock, binding, session, join, calls>>

\* A session request is answered within JoinDelay.
Tick ==
    /\ clock < MaxTime
    /\ \A p \in Participants :
          join[p].stage \in {"asked", "inserting", "granted"} => clock < join[p].at + JoinDelay
    /\ clock' = clock + 1
    /\ UNCHANGED <<binding, session, join, view, controller, calls>>

-----------------------------------------------------------------------------
Init ==
    /\ clock = 0
    /\ binding = NoBinding
    /\ session = [p \in Participants |-> NoSession]
    /\ join = [p \in Participants |-> [stage |-> "none", at |-> 0, lease |-> 0]]
    /\ view = [p \in Participants |-> "idle"]
    /\ controller = [p \in Participants |->
                        [state |-> "none", token |-> 0, idle |-> 0, absolute |-> 0,
                         timer |-> NoTimer]]
    /\ calls = {}

Serve(p) == FindBinding(p) \/ InsertBinding(p) \/ CreateSession(p)
Handle(c) == LockSession(c) \/ RotateToken(c) \/ RevokeSession(c)
Browse(p) ==
    \/ Launch(p) \/ Bootstrap(p) \/ ReadContext(p) \/ FailBootstrap(p) \/ Start(p)
    \/ FireTimer(p) \/ Online(p) \/ Leave(p) \/ Unmount(p)
Settle(c) == ReceiveRefresh(c) \/ FailRefresh(c)

Next ==
    \/ \E p \in Participants : Serve(p) \/ Browse(p)
    \/ \E c \in calls : Handle(c) \/ Settle(c) \/ DropCall(c)
    \/ CloseInstance
    \/ Tick

\* Time passes, the server handles what reaches it, a browser's fetch ends in an
\* answer or an error, and its timers fire.  No request is assumed to succeed.
Fairness ==
    /\ WF_vars(Tick)
    /\ \A p \in Participants :
          /\ WF_vars(Serve(p))
          /\ WF_vars(FireTimer(p) \/ \E c \in calls : c.owner = p /\ Settle(c))

Spec == Init /\ [][Next]_vars /\ Fairness

-----------------------------------------------------------------------------
Rows == [row : BOOLEAN, token : Nat, revoked : BOOLEAN, expires : Nat, idle : Nat]
Bindings == [row : BOOLEAN, place : {Request[p].place : p \in Participants} \cup {NoRun},
             run : {Request[p].run : p \in Participants} \cup {NoRun}, expires : Nat,
             closed : BOOLEAN]
Controllers == [state : States, token : Nat, idle : Nat, absolute : Nat, timer : Nat]
Calls == [kind : {"refresh", "revoke"}, owner : Participants, token : Nat,
          stage : {"sent", "holding", "answered"}, awaited : BOOLEAN, at : Nat,
          idle : Nat, fresh : Nat]

TypeOK ==
    /\ clock \in Nat
    /\ binding \in Bindings
    /\ session \in [Participants -> Rows]
    /\ join \in [Participants -> [stage : Joins, at : Nat, lease : Nat]]
    /\ view \in [Participants -> Views]
    /\ controller \in [Participants -> Controllers]
    /\ calls \subseteq Calls

\* What a browser that shows "active" can count on: unless its session was
\* revoked or the instance closed, the token it holds is the one the database
\* knows and still lives, whatever refreshes of its were delayed, repeated or
\* lost (RotateToken replaces the digest; performRefresh keeps the answer).
ActiveIsAuthorised ==
    \A p \in Participants :
        LET k == controller[p]
        IN  k.state = "active" /\ ~Awaits(p) /\ ~IsExpired(k)
            => Resolves(p, k.token, clock) \/ session[p].revoked \/ binding.closed

\* Credentials do not come back: once a controller has been stopped or has
\* expired and its token is scrubbed, no answer that was under way, no timer and
\* no `online` event gives it a token again.
ScrubbedStays ==
    [][\A p \in Participants :
          controller[p].state # "none" /\ controller[p].token = 0
          => controller'[p].token = 0]_vars

\* Whoever has a session asserted the place and, if any, the run of the binding,
\* although two launches may both find no binding and race to insert it
\* (createOrJoinSession, insert on conflict do nothing).
GrantedForTheBinding ==
    \A p \in Participants :
        session[p].row \/ join[p].stage = "granted"
        => /\ binding.row
           /\ binding.place = Request[p].place
           /\ Request[p].run \in {NoRun, binding.run}

\* A browser whose session has ended learns it: the timer that would tell is
\* never lost, whichever of the refreshes it retried failed (scheduleRefresh,
\* scheduleRetry and the shared promise of refreshNow).
DeadSessionIsNoticed ==
    \A p \in Participants :
        controller[p].state = "active" /\ ~Live(p, clock)
        ~> controller[p].state \in {"expired", "stopped"}
=============================================================================
