------------------------------ MODULE CliLogin ------------------------------
(***************************************************************************)
(* How a terminal gets its access key: the login's Durable Object          *)
(* (cli-login.js in the transactions of do-storage.js), the handlers of    *)
(* cli-endpoints.js, the callback that shows the confirmation page         *)
(* (oauth-endpoints.js) and the key that the Pages API makes               *)
(* (internal.js, access-keys.js, auth.js).                                 *)
(*                                                                         *)
(* Several people may use one browser, and several browsers may open the   *)
(* page of one login.  Times are abstract: a login and a page may expire   *)
(* at any moment.                                                          *)
(***************************************************************************)
EXTENDS Naturals, FiniteSets

CONSTANTS
  People, Logins, Nothing,
  Screens,       \* browsers, of one person or of several
  MaxChanges     \* bound on sign-outs and changes of people

VARIABLES
  person,     \* D1 users: active or not, and the session version
  signedIn,   \* per browser: the user of its auth session, Nothing without one
  asking,     \* per browser: the login for which it is at the SSO
  page,       \* per browser: the confirmation page it shows
  login,      \* per login: its record, and what the poll has read for its key
  keys,       \* access keys issued for logins
  shown,      \* pairs of a login and a user who was shown its page
  changes

cliVars == <<person, signedIn, asking, page, login, keys, shown, changes>>

NoPage == [login |-> Nothing, user |-> Nothing, by |-> Nothing]
Record(state, user) == [state |-> state, user |-> user, version |-> 0]

CliInit ==
  /\ person = [u \in People |-> [active |-> TRUE, version |-> 1]]
  /\ signedIn = [b \in Screens |-> Nothing]
  /\ asking = [b \in Screens |-> Nothing]
  /\ page = [b \in Screens |-> NoPage]
  /\ login = [l \in Logins |-> Record("none", Nothing)]
  /\ keys = {}
  /\ shown = {}
  /\ changes = 0

Change == changes < MaxChanges /\ changes' = changes + 1

-----------------------------------------------------------------------------
(* The people and the sessions.                                            *)

\* Slip: the page's token is not looked at.
AnyToken(b) == page[b] # NoPage

\* upsertUserFromSso changes the session version with the status; that
\* somebody is reinstated, by other means, leaves it alone.
PersonChanges(u) ==
  /\ Change
  /\ person' = [person EXCEPT ![u] =
       [active |-> ~@.active, version |-> IF @.active THEN @.version + 1 ELSE @.version]]
  /\ UNCHANGED <<signedIn, asking, page, login, keys, shown>>

\* The session is revoked or runs out.
SessionEnds(b) ==
  /\ signedIn[b] # Nothing
  /\ Change
  /\ signedIn' = [signedIn EXCEPT ![b] = Nothing]
  /\ UNCHANGED <<person, asking, page, login, keys, shown>>

\* The login of some other site in the same browser, by another person.
SignInElsewhere(b, u) ==
  /\ person[u].active
  /\ signedIn[b] # u
  /\ Change
  /\ signedIn' = [signedIn EXCEPT ![b] = u]
  /\ UNCHANGED <<person, asking, page, login, keys, shown>>

-----------------------------------------------------------------------------
(* The login.                                                              *)

\* handleCliLoginStart
Start(l) ==
  /\ login[l].state = "none"
  /\ login' = [login EXCEPT ![l] = Record("pending", Nothing)]
  /\ UNCHANGED <<person, signedIn, asking, page, keys, shown, changes>>

\* Every transition of the record requires that it has not expired.
Expire(l) ==
  /\ login[l].state \in {"pending", "confirmed"}
  /\ login' = [login EXCEPT ![l] = Record("expired", @.user)]
  /\ UNCHANGED <<person, signedIn, asking, page, keys, shown, changes>>

\* handleOAuthAuthorize with a login: its record is read, and the session of
\* the browser is not asked; the SSO is.
OpenLogin(b, l) ==
  /\ asking[b] = Nothing
  /\ login[l].state = "pending"
  /\ asking' = [asking EXCEPT ![b] = l]
  /\ UNCHANGED <<person, signedIn, page, login, keys, shown, changes>>

\* handleOAuthCallback: somebody signed in at the SSO.  An active user gets a
\* session and the page, whose token names the user and the login.
ShowPage(b, u) ==
  /\ asking[b] # Nothing
  /\ asking' = [asking EXCEPT ![b] = Nothing]
  /\ IF person[u].active
       THEN /\ signedIn' = [signedIn EXCEPT ![b] = u]
            /\ page' = [page EXCEPT ![b] =
                 [login |-> asking[b], user |-> u, by |-> Nothing]]
            /\ shown' = shown \cup {<<asking[b], u>>}
       ELSE UNCHANGED <<signedIn, page, shown>>
  /\ UNCHANGED <<person, login, keys, changes>>

\* handleCliLoginConfirm: the session is refreshed, and verifyCliLoginConfirmToken
\* wants the page to be of the session's user.
TokenMatches(b) == page[b].user = signedIn[b]

Confirm(b) ==
  /\ page[b].login # Nothing /\ page[b].by = Nothing
  /\ page' = [page EXCEPT ![b] =
       IF signedIn[b] # Nothing /\ TokenMatches(b) THEN [@ EXCEPT !.by = signedIn[b]]
                                                  ELSE NoPage]
  /\ UNCHANGED <<person, signedIn, asking, login, keys, shown, changes>>

\* The page's token runs out, or the page is closed.
ClosePage(b) ==
  /\ page[b].login # Nothing /\ page[b].by = Nothing
  /\ page' = [page EXCEPT ![b] = NoPage]
  /\ UNCHANGED <<person, signedIn, asking, login, keys, shown, changes>>

\* confirmCliLogin, in a transaction: only a pending login.
ConfirmLogin(b) ==
  /\ page[b].by # Nothing
  /\ LET l == page[b].login IN
       login' = IF login[l].state = "pending"
                  THEN [login EXCEPT ![l] = Record("confirmed", page[b].by)] ELSE login
  /\ page' = [page EXCEPT ![b] = NoPage]
  /\ UNCHANGED <<person, signedIn, asking, keys, shown, changes>>

-----------------------------------------------------------------------------
(* The key.                                                                *)

\* handleCliLoginPoll: the record is consumed before a key is asked for.
Poll(l) ==
  /\ login[l].state = "confirmed"
  /\ login' = [login EXCEPT ![l].state = "consumed"]
  /\ UNCHANGED <<person, signedIn, asking, page, keys, shown, changes>>

\* createCliAccessKey reads the user of the login...
ReadKeyOwner(l) ==
  /\ login[l].state = "consumed"
  /\ LET owner == person[login[l].user] IN
       login' = [login EXCEPT ![l] =
         IF owner.active THEN [@ EXCEPT !.state = "issuing", !.version = owner.version]
                         ELSE [@ EXCEPT !.state = "lost"]]
  /\ UNCHANGED <<person, signedIn, asking, page, keys, shown, changes>>

\* ... and issueCliLoginAccessKey inserts a key of the version it read.  The
\* terminal may never see the answer: the key is there, and nobody has it.
IssueKey(l) ==
  /\ login[l].state = "issuing"
  /\ keys' = keys \cup {[login |-> l, user |-> login[l].user, version |-> login[l].version]}
  /\ login' = [login EXCEPT ![l].state = "done"]
  /\ UNCHANGED <<person, signedIn, asking, page, shown, changes>>

\* The API fails: CLI_LOGIN_EXCHANGE_FAILED, and the login is spent.
KeyIsLost(l) ==
  /\ login[l].state \in {"consumed", "issuing"}
  /\ login' = [login EXCEPT ![l].state = "lost"]
  /\ UNCHANGED <<person, signedIn, asking, page, keys, shown, changes>>

\* authenticateAccessKey, of every request with the key.
KeyWorks(k) == person[k.user].active /\ k.version = person[k.user].version

CliNext ==
  \/ \E u \in People : PersonChanges(u)
  \/ \E b \in Screens, u \in People : SignInElsewhere(b, u) \/ ShowPage(b, u)
  \/ \E b \in Screens : SessionEnds(b) \/ Confirm(b) \/ ClosePage(b) \/ ConfirmLogin(b)
  \/ \E b \in Screens, l \in Logins : OpenLogin(b, l)
  \/ \E l \in Logins :
       Start(l) \/ Expire(l) \/ Poll(l) \/ ReadKeyOwner(l) \/ IssueKey(l) \/ KeyIsLost(l)

CliSpec == CliInit /\ [][CliNext]_cliVars

-----------------------------------------------------------------------------
CliTypeOK ==
  /\ \A b \in Screens : signedIn[b] \in People \cup {Nothing}
  /\ \A b \in Screens : page[b].by # Nothing => page[b].by = page[b].user
  /\ \A l \in Logins :
       login[l].state \in {"confirmed", "consumed", "issuing", "done", "lost"} =>
         login[l].user \in People
  /\ shown \subseteq Logins \X People
  /\ \A k \in keys : k.login \in Logins /\ login[k.login].state = "done"

\* A terminal gets one key at most, and only for a person who was shown the
\* page of that very login: signing out and in again as somebody else while a
\* page is open, or confirming one login in two browsers, gives the key to
\* nobody by mistake.
KeyIsForWhoConfirmed ==
  /\ \A k \in keys : <<k.login, k.user>> \in shown
  /\ \A j, k \in keys : j.login = k.login => j = k

\* A terminal keeps its key for that person only: it never outlives the
\* session version it was issued under.  Once its user has been inactive, it
\* works no more, even when the user is reinstated and even when the change
\* fell between the reading and the insertion.
KeysStayWithTheirPerson ==
  [][KeyIsForWhoConfirmed' /\ \A k \in keys : ~KeyWorks(k) => ~KeyWorks(k)']_cliVars
=============================================================================
