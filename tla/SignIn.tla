------------------------------- MODULE SignIn -------------------------------
(***************************************************************************)
(* How a browser is signed in to a site: the auth service's Durable        *)
(* Objects (oauth-state.js, session-record.js, each in a storage           *)
(* transaction of do-storage.js), its handlers (oauth-endpoints.js) and    *)
(* the router's callback and freshness check (pages-router index.js).      *)
(*                                                                         *)
(* A site session is a signed cookie that nobody can take back.  What      *)
(* bounds it is time: a code is good for CodeTtl from the start of the     *)
(* request that made it, and the router asks again when its check is older *)
(* than Freshness.  One clock is read by both services, and by the router  *)
(* twice in a callback: before and after its call to the auth service.     *)
(***************************************************************************)
EXTENDS Naturals, FiniteSets, PlatformNames

CONSTANTS
  Browsers,
  IdleTtl, AbsoluteTtl,  \* of an auth session
  StateTtl,      \* of an OAuth state
  CodeTtl,       \* of a site code
  MaxSessions,   \* bound on auth sessions
  MaxTime        \* bound on the clock

VARIABLES
  now,
  status,      \* D1 users: employee_status
  session,     \* AuthSessionDO: per session id its record, Nobody before
  cookie,      \* per browser: the session id of its auth cookie
  visit,       \* per browser: the request under way at the auth service
  code,        \* per browser: the last site code it was sent with
  redeeming,   \* per browser: the router's call that consumes its code
  siteCookie,  \* per browser: its site session
  leftAt,      \* per user: when the user left, Nobody while active
  signedOutAt  \* per browser: when it signed out, Nobody before

signInVars ==
  <<now, status, session, cookie, visit, code, redeeming, siteCookie, leftAt, signedOutAt>>

Sids == 1..MaxSessions
Statuses == {"active", "disabled", "left"}
NoVisit == [step |-> "idle"]

SignInInit ==
  /\ now = 0
  /\ status = [u \in Users |-> "active"]
  /\ session = [s \in Sids |-> Nobody]
  /\ cookie = [b \in Browsers |-> Nobody]
  /\ visit = [b \in Browsers |-> NoVisit]
  /\ code = [b \in Browsers |-> Nobody]
  /\ redeeming = [b \in Browsers |-> Nobody]
  /\ siteCookie = [b \in Browsers |-> Nobody]
  /\ leftAt = [u \in Users |-> Nobody]
  /\ signedOutAt = [b \in Browsers |-> Nobody]

-----------------------------------------------------------------------------
(* The records and who may use them.                                       *)

\* verifySessionJwt (the token is signed once, for the idle time, and never
\* again) and assertActive of the record.
SessionIsGood(s) ==
  /\ s # Nobody
  /\ session[s] # Nobody
  /\ now < session[s].issued + IdleTtl
  /\ ~session[s].revoked
  /\ now < session[s].absolute
  /\ now < session[s].expires

\* Slips: a code counts from when it is made,
\* and what the SSO says replaces what D1 has.
LateSiteCode(v) == [user |-> v.user, expires |-> now + CodeTtl, consumed |-> FALSE]
ProfileDecides(old, profile) == profile

\* refreshSessionRecord: the idle time starts again, up to the absolute one.
Refreshed(record) ==
  [record EXCEPT !.expires =
     IF now + IdleTtl < record.absolute THEN now + IdleTtl ELSE record.absolute]

\* The router's siteSessionIsFresh and evaluateAccessPolicy, for a site that
\* any signed-in employee may open.
IsServed(b) ==
  /\ siteCookie[b] # Nobody
  /\ now - siteCookie[b].checked <= Freshness

\* upsertUserFromSso: what D1 says after the SSO told it profile.  Who
\* left stays so, who is disabled may only leave.
StatusAfter(old, profile) ==
  IF old = "left" \/ (old = "disabled" /\ profile = "active") THEN old ELSE profile

-----------------------------------------------------------------------------
(* The clock and the people.                                               *)

Tick ==
  /\ now < MaxTime
  /\ now' = now + 1
  /\ UNCHANGED <<status, session, cookie, visit, code, redeeming, siteCookie, leftAt, signedOutAt>>

Becomes(u, new) ==
  /\ status' = [status EXCEPT ![u] = new]
  /\ leftAt' = IF status[u] = "active" /\ new # "active"
                 THEN [leftAt EXCEPT ![u] = now] ELSE leftAt

\* Somebody is marked in D1 by other means than a sign-in.
MarkLeft(u) ==
  /\ status[u] # "left"
  /\ Becomes(u, "left")
  /\ UNCHANGED <<now, session, cookie, visit, code, redeeming, siteCookie, signedOutAt>>

-----------------------------------------------------------------------------
(* The auth service: /authorize.  The time of the request is read once, at *)
(* its start, and goes into everything that it makes.                      *)

ToSso(b, at) == visit' = [visit EXCEPT ![b] = [step |-> "sso", at |-> at]]

\* The router sends the browser away unless it serves it; the auth session
\* in the cookie is refreshed, or the SSO is asked.
Authorize(b) ==
  /\ visit[b].step = "idle"
  /\ ~IsServed(b)
  /\ IF SessionIsGood(cookie[b])
       THEN /\ session' = [session EXCEPT ![cookie[b]] = Refreshed(@)]
            /\ visit' = [visit EXCEPT ![b] =
                 [step |-> "refreshed", at |-> now, user |-> session[cookie[b]].user]]
       ELSE ToSso(b, now) /\ UNCHANGED session
  /\ UNCHANGED <<now, status, cookie, code, redeeming, siteCookie, leftAt, signedOutAt>>

\* readAuthSessionUserProfile reads the user after the session.
ReadUser(b) ==
  /\ visit[b].step = "refreshed"
  /\ LET user == visit[b].user IN
       IF status[user] = "active"
         THEN visit' = [visit EXCEPT ![b] =
                [step |-> "known", at |-> visit[b].at, user |-> user]]
         ELSE ToSso(b, visit[b].at)
  /\ UNCHANGED <<now, status, session, cookie, code, redeeming, siteCookie, leftAt, signedOutAt>>

SiteCode(v) ==
  [user |-> v.user, expires |-> v.at + CodeTtl, consumed |-> FALSE]

\* createOAuthStateRecord, consumeOAuthStateRecord and a code for the site.
GiveCode(b) ==
  /\ visit[b].step = "known"
  /\ code' = [code EXCEPT ![b] = SiteCode(visit[b])]
  /\ visit' = [visit EXCEPT ![b] = NoVisit]
  /\ UNCHANGED <<now, status, session, cookie, redeeming, siteCookie, leftAt, signedOutAt>>

\* One of the three calls fails: the SSO is asked.
GiveCodeFails(b) ==
  /\ visit[b].step = "known"
  /\ ToSso(b, visit[b].at)
  /\ UNCHANGED <<now, status, session, cookie, code, redeeming, siteCookie, leftAt, signedOutAt>>

-----------------------------------------------------------------------------
(* The auth service: /callback, after somebody signed in at the SSO.       *)

\* The state is consumed, once and in time, and the SSO's profile is read.
Callback(b, u, profile) ==
  /\ visit[b].step = "sso"
  /\ visit' = [visit EXCEPT ![b] =
       IF now < visit[b].at + StateTtl
         THEN [step |-> "profile", at |-> now, user |-> u, profile |-> profile]
         ELSE NoVisit]
  /\ UNCHANGED <<now, status, session, cookie, code, redeeming, siteCookie, leftAt, signedOutAt>>

\* syncSsoUserProfile: the row in D1 decides, not the profile.
SyncUser(b) ==
  /\ visit[b].step = "profile"
  /\ LET u == visit[b].user
         new == StatusAfter(status[u], visit[b].profile)
     IN  /\ Becomes(u, new)
         /\ visit' = [visit EXCEPT ![b] =
              IF new = "active"
                THEN [step |-> "synced", at |-> visit[b].at, user |-> u]
                ELSE NoVisit]
  /\ UNCHANGED <<now, session, cookie, code, redeeming, siteCookie, signedOutAt>>

\* createAuthSession, then a code for the site.  The cookie is set by the response.
Establish(b) ==
  /\ visit[b].step = "synced"
  /\ \E s \in Sids :
       /\ session[s] = Nobody /\ \A earlier \in 1..(s - 1) : session[earlier] # Nobody
       /\ session' = [session EXCEPT ![s] =
            [user |-> visit[b].user, issued |-> visit[b].at, revoked |-> FALSE,
             expires |-> visit[b].at + IdleTtl, absolute |-> visit[b].at + AbsoluteTtl]]
       /\ cookie' = [cookie EXCEPT ![b] = s]
  /\ code' = [code EXCEPT ![b] = SiteCode(visit[b])]
  /\ visit' = [visit EXCEPT ![b] = NoVisit]
  /\ signedOutAt' = [signedOutAt EXCEPT ![b] = Nobody]
  /\ UNCHANGED <<now, status, redeeming, siteCookie, leftAt>>

\* The SSO, D1 or a Durable Object fails: the state is spent, nothing is made.
CallbackFails(b) ==
  /\ visit[b].step \in {"profile", "synced"}
  /\ visit' = [visit EXCEPT ![b] = NoVisit]
  /\ UNCHANGED <<now, status, session, cookie, code, redeeming, siteCookie, leftAt, signedOutAt>>

-----------------------------------------------------------------------------
(* The router: the callback on the site's host.                            *)

\* consumeOAuthSiteCode: a code is good once, and in time.
CodeIsGood(c) == c # Nobody /\ ~c.consumed /\ now < c.expires

\* consumeSiteCode: the call carries the time of the router, and the auth
\* service judges the code by that time.  Nobody else sends this code meanwhile,
\* so it does not matter when the call arrives; a call that never arrives
\* is the code not sent.  A code that is spent or late sends the browser
\* back to the auth service: Authorize.
SendCode(b) ==
  /\ redeeming[b] = Nobody
  /\ CodeIsGood(code[b])
  /\ code' = [code EXCEPT ![b].consumed = TRUE]
  /\ redeeming' = [redeeming EXCEPT ![b] = [user |-> code[b].user, asked |-> now]]
  /\ UNCHANGED <<now, status, session, cookie, visit, siteCookie, leftAt, signedOutAt>>

\* handleSiteAuthCallback after the answer: the session is signed with the
\* router's time at that moment.  "asked" is not in the cookie: the property
\* speaks of it.
SiteCallback(b) ==
  /\ redeeming[b] # Nobody
  /\ siteCookie' = [siteCookie EXCEPT ![b] =
       [user |-> redeeming[b].user, checked |-> now, asked |-> redeeming[b].asked]]
  /\ redeeming' = [redeeming EXCEPT ![b] = Nobody]
  /\ UNCHANGED <<now, status, session, cookie, visit, code, leftAt, signedOutAt>>

\* The answer is lost, or no session can be signed: the code is spent.
SiteCallbackFails(b) ==
  /\ redeeming[b] # Nobody
  /\ redeeming' = [redeeming EXCEPT ![b] = Nobody]
  /\ UNCHANGED <<now, status, session, cookie, visit, code, siteCookie, leftAt, signedOutAt>>

\* handleAuthLogout: the cookie of the auth service goes, and the session
\* unless its object does not answer.  The site's cookie is of another host.
Logout(b) ==
  /\ cookie[b] # Nobody
  /\ \/ session' = [session EXCEPT ![cookie[b]].revoked = TRUE]
     \/ UNCHANGED session
  /\ cookie' = [cookie EXCEPT ![b] = Nobody]
  /\ signedOutAt' = [signedOutAt EXCEPT ![b] = now]
  /\ UNCHANGED <<now, status, visit, code, redeeming, siteCookie, leftAt>>

-----------------------------------------------------------------------------
SignInNext ==
  \/ Tick
  \/ \E u \in Users : MarkLeft(u)
  \/ \E b \in Browsers :
       \/ Authorize(b) \/ ReadUser(b) \/ GiveCode(b) \/ GiveCodeFails(b)
       \/ SyncUser(b) \/ Establish(b) \/ CallbackFails(b)
       \/ SendCode(b) \/ SiteCallback(b) \/ SiteCallbackFails(b) \/ Logout(b)
  \/ \E b \in Browsers, u \in Users, profile \in Statuses :
       Callback(b, u, profile)

SignInSpec == SignInInit /\ [][SignInNext]_signInVars

-----------------------------------------------------------------------------
SignInTypeOK ==
  /\ now \in 0..MaxTime
  /\ \A u \in Users : status[u] \in Statuses
  /\ \A u \in Users : (leftAt[u] = Nobody) <=> (status[u] = "active")
  /\ \A b \in Browsers :
       /\ cookie[b] \in Sids \cup {Nobody}
       /\ cookie[b] # Nobody => session[cookie[b]] # Nobody
       /\ siteCookie[b] # Nobody => siteCookie[b].user \in Users
  /\ \A s \in Sids : session[s] # Nobody => session[s].expires <= session[s].absolute

\* Nothing tells the router that somebody left or signed out; still the site
\* is closed to them soon after: a request is only served less than
\* CodeTtl + Freshness, and what the router's call took, after the user was
\* active in D1, and after the browser signed out, whatever was under way at
\* either service at that moment.
SiteClosesInTime ==
  \A b \in Browsers :
    IsServed(b) =>
      LET granted == siteCookie[b]
          bound == CodeTtl + Freshness + (granted.checked - granted.asked)
      IN  /\ leftAt[granted.user] # Nobody => now - leftAt[granted.user] < bound
          /\ signedOutAt[b] # Nobody => now - signedOutAt[b] < bound
=============================================================================
