---------------------------- MODULE AccessProofs ----------------------------
(***************************************************************************)
(* Theorems about who gets in: the keys of terminals, for any number of    *)
(* people, browsers and logins; the sign-ins to sites, for any users and   *)
(* browsers and any times; the router's decisions and capabilities, for    *)
(* any sites, hostnames, users, policies and delays; and the listings of   *)
(* the data they open, for any keys, page sizes and answers.  The last     *)
(* section is about these and the names together, as the run MCPlatform    *)
(* explores them.                                                          *)
(***************************************************************************)
EXTENDS SiteNamesProofs, MCPlatform, FiniteSetTheorems

-----------------------------------------------------------------------------
(* Terminals: types.                                                       *)

\* No person and no login is taken for a missing one.
NothingIsNothing == Nothing \notin People \cup Logins

LoginStates == {"none", "pending", "confirmed", "consumed", "issuing", "done", "lost", "expired"}

CliTypes ==
  /\ person \in [People -> [active : BOOLEAN, version : Nat]]
  /\ signedIn \in [Screens -> People \cup {Nothing}]
  /\ asking \in [Screens -> Logins \cup {Nothing}]
  /\ page \in [Screens -> [login : Logins \cup {Nothing}, user : People \cup {Nothing},
                            by : People \cup {Nothing}]]
  /\ login \in [Logins -> [state : LoginStates, user : People \cup {Nothing}, version : Nat]]
  /\ shown \subseteq Logins \X People

\* A page is of somebody who was shown it, and only that person confirms it.
PagesInv ==
  \A b \in Screens :
    /\ page[b].login # Nothing => <<page[b].login, page[b].user>> \in shown
    /\ page[b].by # Nothing => page[b].login # Nothing /\ page[b].by = page[b].user

\* The person whom a record names was shown the page of that login.
LoginsInv ==
  \A l \in Logins :
    login[l].state \in {"confirmed", "consumed", "issuing", "done", "lost"} =>
      <<l, login[l].user>> \in shown

\* The session version that was read for a key is of the past as soon as its
\* user is inactive, whether the key is inserted by then or not.
VersionsInv ==
  \A l \in Logins :
    login[l].state \in {"issuing", "done"} =>
      LET p == person[login[l].user] IN
      login[l].version <= p.version /\ (~p.active => login[l].version < p.version)

\* The record of a login tells all of its key.
KeysInv ==
  \A k \in keys :
    /\ k.login \in Logins /\ login[k.login].state = "done"
    /\ k = [login |-> k.login, user |-> login[k.login].user, version |-> login[k.login].version]

CliInv == CliTypes /\ PagesInv /\ LoginsInv /\ VersionsInv /\ KeysInv

LEMMA CliInitInv == ASSUME NothingIsNothing PROVE CliInit => CliInv
BY DEF CliInit, CliInv, CliTypes, PagesInv, LoginsInv, VersionsInv, KeysInv, NoPage, Record,
       LoginStates, NothingIsNothing

-----------------------------------------------------------------------------
(* Terminals: people and sessions.                                         *)

LEMMA PeopleKeepInv ==
  ASSUME CliInv, NEW u \in People, PersonChanges(u)
  PROVE  CliInv'
<1>1. /\ UNCHANGED <<signedIn, asking, page, login, keys, shown>>
      /\ person' = [person EXCEPT ![u] =
           [active |-> ~@.active, version |-> IF @.active THEN @.version + 1 ELSE @.version]]
  BY DEF PersonChanges
<1>2. CliTypes'
  BY <1>1 DEF CliInv, CliTypes
<1>3. PagesInv' /\ LoginsInv' /\ KeysInv'
  BY <1>1 DEF CliInv, PagesInv, LoginsInv, KeysInv
<1>4. VersionsInv'
  <2> SUFFICES ASSUME NEW l \in Logins, login[l].state \in {"issuing", "done"}
               PROVE  /\ login[l].version <= person'[login[l].user].version
                      /\ ~person'[login[l].user].active =>
                           login[l].version < person'[login[l].user].version
    BY <1>1 DEF VersionsInv
  <2>1. login[l].user \in People /\ login[l].version \in Nat
    BY DEF CliInv, CliTypes, LoginsInv
  <2>2. /\ login[l].version <= person[login[l].user].version
        /\ ~person[login[l].user].active => login[l].version < person[login[l].user].version
    BY DEF CliInv, VersionsInv
  <2>3. CASE login[l].user = u
    <3>1. person[u].version \in Nat
      BY DEF CliInv, CliTypes
    <3>2. CASE person[u].active
      BY <1>1, <2>1, <2>2, <2>3, <3>1, <3>2 DEF CliInv, CliTypes
    <3>3. CASE ~person[u].active
      BY <1>1, <2>1, <2>2, <2>3, <3>1, <3>3 DEF CliInv, CliTypes
    <3> QED
      BY <3>2, <3>3
  <2>4. CASE login[l].user # u
    BY <1>1, <2>1, <2>2, <2>4 DEF CliInv, CliTypes
  <2> QED
    BY <2>3, <2>4
<1> QED
  BY <1>2, <1>3, <1>4 DEF CliInv

\* Who is signed in, and at the SSO, is not asked for by what is issued.
LEMMA SessionsKeepInv ==
  ASSUME NothingIsNothing, CliInv, NEW b \in Screens,
         SessionEnds(b) \/ (\E u \in People : SignInElsewhere(b, u))
           \/ (\E l \in Logins : OpenLogin(b, l))
  PROVE  CliInv'
BY DEF SessionEnds, SignInElsewhere, OpenLogin, CliInv, CliTypes, PagesInv, LoginsInv, VersionsInv,
       KeysInv

-----------------------------------------------------------------------------
(* Terminals: pages.                                                       *)

LEMMA ShowPageKeepsInv ==
  ASSUME NothingIsNothing, CliInv, NEW b \in Screens, NEW u \in People, ShowPage(b, u)
  PROVE  CliInv'
<1>1. UNCHANGED <<person, login, keys>> /\ shown \subseteq shown'
  BY DEF ShowPage
<1>2. asking[b] \in Logins /\ asking' = [asking EXCEPT ![b] = Nothing]
  BY DEF ShowPage, CliInv, CliTypes
<1>3. CliTypes' /\ PagesInv'
  <2>1. CASE person[u].active
    <3>1. /\ signedIn' = [signedIn EXCEPT ![b] = u]
          /\ page' = [page EXCEPT ![b] = [login |-> asking[b], user |-> u, by |-> Nothing]]
          /\ shown' = shown \cup {<<asking[b], u>>}
      BY <2>1 DEF ShowPage
    <3>2. CliTypes'
      BY <1>1, <1>2, <3>1 DEF CliInv, CliTypes
    <3>3. PagesInv'
      BY <3>1 DEF CliInv, CliTypes, PagesInv
    <3> QED
      BY <3>2, <3>3
  <2>2. CASE ~person[u].active
    <3>1. UNCHANGED <<signedIn, page, shown>>
      BY <2>2 DEF ShowPage
    <3> QED
      BY <1>1, <1>2, <3>1 DEF CliInv, CliTypes, PagesInv
  <2> QED
    BY <2>1, <2>2
<1>4. LoginsInv' /\ VersionsInv' /\ KeysInv'
  BY <1>1 DEF CliInv, LoginsInv, VersionsInv, KeysInv
<1> QED
  BY <1>3, <1>4 DEF CliInv

LEMMA PagesKeepInv ==
  ASSUME NothingIsNothing, CliInv, NEW b \in Screens, Confirm(b) \/ ClosePage(b)
  PROVE  CliInv'
<1>1. UNCHANGED <<person, login, keys, shown>>
  BY DEF Confirm, ClosePage
<1>2. CliTypes'
  <2>1. UNCHANGED <<signedIn, asking>>
    BY DEF Confirm, ClosePage
  <2>2. page[b].login \in Logins \cup {Nothing} /\ page[b].user \in People \cup {Nothing}
        /\ signedIn[b] \in People \cup {Nothing}
    BY DEF CliInv, CliTypes
  <2>3. \E p \in {NoPage, [page[b] EXCEPT !.by = signedIn[b]]} : page' = [page EXCEPT ![b] = p]
    BY DEF Confirm, ClosePage, CliInv, CliTypes
  <2>4. page' \in [Screens -> [login : Logins \cup {Nothing}, user : People \cup {Nothing},
                              by : People \cup {Nothing}]]
    BY <2>2, <2>3 DEF NoPage, CliInv, CliTypes
  <2> QED
    BY <1>1, <2>1, <2>4 DEF CliInv, CliTypes
<1>3. PagesInv'
  <2>1. \/ page' = [page EXCEPT ![b] = NoPage]
        \/ /\ page[b].login # Nothing /\ page[b].user = signedIn[b]
           /\ page' = [page EXCEPT ![b] = [@ EXCEPT !.by = signedIn[b]]]
    BY DEF Confirm, ClosePage, TokenMatches
  <2>2. CASE page' = [page EXCEPT ![b] = NoPage]
    BY <1>1, <2>2 DEF NoPage, CliInv, CliTypes, PagesInv
  <2>3. CASE /\ page[b].login # Nothing /\ page[b].user = signedIn[b]
             /\ page' = [page EXCEPT ![b] = [@ EXCEPT !.by = signedIn[b]]]
    <3>1. page[b] \in [login : Logins \cup {Nothing}, user : People \cup {Nothing},
                       by : People \cup {Nothing}]
      BY DEF CliInv, CliTypes
    <3>2. /\ page'[b].login = page[b].login /\ page'[b].user = page[b].user
          /\ page'[b].by = page[b].user
          /\ \A c \in Screens \ {b} : page'[c] = page[c]
      BY <2>3, <3>1 DEF CliInv, CliTypes
    <3> QED
      BY <1>1, <2>3, <3>2 DEF CliInv, PagesInv
  <2> QED
    BY <2>1, <2>2, <2>3
<1>4. LoginsInv' /\ VersionsInv' /\ KeysInv'
  BY <1>1 DEF CliInv, LoginsInv, VersionsInv, KeysInv
<1> QED
  BY <1>2, <1>3, <1>4 DEF CliInv

LEMMA ConfirmLoginKeepsInv ==
  ASSUME NothingIsNothing, CliInv, NEW b \in Screens, ConfirmLogin(b)
  PROVE  CliInv'
<1> DEFINE l == page[b].login
<1>1. UNCHANGED <<person, signedIn, asking, keys, shown>> /\ page' = [page EXCEPT ![b] = NoPage]
  BY DEF ConfirmLogin
<1>2. l \in Logins /\ page[b].by \in People /\ <<l, page[b].by>> \in shown
  BY DEF ConfirmLogin, CliInv, CliTypes, PagesInv
<1>3. \/ UNCHANGED login
      \/ /\ login[l].state = "pending"
         /\ login' = [login EXCEPT ![l] = Record("confirmed", page[b].by)]
  BY DEF ConfirmLogin
<1>4. CliTypes'
  BY <1>1, <1>2, <1>3 DEF CliInv, CliTypes, NoPage, Record, LoginStates
<1>5. PagesInv'
  BY <1>1 DEF CliInv, CliTypes, PagesInv, NoPage
<1>6. LoginsInv' /\ VersionsInv'
  <2>1. CASE UNCHANGED login
    BY <1>1, <2>1 DEF CliInv, LoginsInv, VersionsInv
  <2>2. CASE login' = [login EXCEPT ![l] = Record("confirmed", page[b].by)]
    <3>1. /\ login'[l].state = "confirmed" /\ login'[l].user = page[b].by
          /\ \A m \in Logins \ {l} : login'[m] = login[m]
      BY <1>2, <2>2 DEF CliInv, CliTypes, Record
    <3> QED
      BY <1>1, <1>2, <3>1 DEF CliInv, LoginsInv, VersionsInv
  <2> QED
    BY <1>3, <2>1, <2>2
<1>7. KeysInv'
  BY <1>1, <1>2, <1>3 DEF CliInv, CliTypes, KeysInv
<1> QED
  BY <1>4, <1>5, <1>6, <1>7 DEF CliInv

-----------------------------------------------------------------------------
(* Terminals: logins.                                                      *)

LEMMA LoginsKeepInv ==
  ASSUME NothingIsNothing, CliInv, NEW l \in Logins,
         Start(l) \/ Expire(l) \/ Poll(l) \/ ReadKeyOwner(l) \/ KeyIsLost(l)
  PROVE  CliInv'
<1>1. UNCHANGED <<person, signedIn, asking, page, keys, shown>>
  BY DEF Start, Expire, Poll, ReadKeyOwner, KeyIsLost
<1>2. login[l].state # "done" /\ \A k \in keys : k.login # l
  BY DEF Start, Expire, Poll, ReadKeyOwner, KeyIsLost, CliInv, KeysInv
<1>3. \E r \in [state : LoginStates, user : People \cup {Nothing}, version : Nat] :
        /\ login' = [login EXCEPT ![l] = r]
        /\ r.state \in {"consumed", "issuing", "lost"} => <<l, r.user>> \in shown
        /\ r.state = "issuing" => person[r.user].active /\ r.version = person[r.user].version
        /\ r.state \notin {"confirmed", "done"}
  <2>1. CASE Start(l)
    <3> DEFINE r == [state |-> "pending", user |-> Nothing, version |-> 0]
    <3>1. login' = [login EXCEPT ![l] = r]
      BY <2>1 DEF Start, Record
    <3>2. r \in [state : LoginStates, user : People \cup {Nothing}, version : Nat]
      BY DEF LoginStates
    <3> QED
      BY <3>1, <3>2
  <2>2. CASE Expire(l)
    <3> DEFINE r == [state |-> "expired", user |-> login[l].user, version |-> 0]
    <3>1. login' = [login EXCEPT ![l] = r]
      BY <2>2 DEF Expire, Record
    <3>2. r \in [state : LoginStates, user : People \cup {Nothing}, version : Nat]
      BY DEF LoginStates, CliInv, CliTypes
    <3> QED
      BY <3>1, <3>2
  <2>3. CASE Poll(l) \/ KeyIsLost(l)
    <3> DEFINE r == [login[l] EXCEPT !.state = login'[l].state]
    <3>1. login' = [login EXCEPT ![l] = r] /\ login'[l].state \in {"consumed", "lost"}
      BY <2>3 DEF Poll, KeyIsLost, CliInv, CliTypes
    <3>2. r \in [state : LoginStates, user : People \cup {Nothing}, version : Nat]
      BY <3>1 DEF LoginStates, CliInv, CliTypes
    <3>3. <<l, r.user>> \in shown
      BY <2>3 DEF Poll, KeyIsLost, CliInv, CliTypes, LoginsInv
    <3>4. r.state = login'[l].state
      BY DEF CliInv, CliTypes
    <3> QED
      BY <3>1, <3>2, <3>3, <3>4
  <2>4. CASE ReadKeyOwner(l)
    <3> DEFINE p == person[login[l].user]
    <3>1. /\ login[l].state = "consumed" /\ <<l, login[l].user>> \in shown
          /\ login[l].user \in People /\ p \in [active : BOOLEAN, version : Nat]
          /\ login[l] \in [state : LoginStates, user : People \cup {Nothing}, version : Nat]
      BY <2>4 DEF ReadKeyOwner, CliInv, CliTypes, LoginsInv
    <3>2. CASE p.active
      <4> DEFINE r == [login[l] EXCEPT !.state = "issuing", !.version = p.version]
      <4>1. login' = [login EXCEPT ![l] = r]
        BY <2>4, <3>2 DEF ReadKeyOwner
      <4>2. /\ r \in [state : LoginStates, user : People \cup {Nothing}, version : Nat]
            /\ r.state = "issuing" /\ r.user = login[l].user /\ r.version = p.version
        BY <3>1 DEF LoginStates
      <4> QED
        BY <3>1, <3>2, <4>1, <4>2
    <3>3. CASE ~p.active
      <4> DEFINE r == [login[l] EXCEPT !.state = "lost"]
      <4>1. login' = [login EXCEPT ![l] = r]
        BY <2>4, <3>3 DEF ReadKeyOwner
      <4>2. /\ r \in [state : LoginStates, user : People \cup {Nothing}, version : Nat]
            /\ r.state = "lost" /\ r.user = login[l].user
        BY <3>1 DEF LoginStates
      <4> QED
        BY <3>1, <4>1, <4>2
    <3> QED
      BY <3>2, <3>3
  <2> QED
    BY <2>1, <2>2, <2>3, <2>4
<1>4. PICK r \in [state : LoginStates, user : People \cup {Nothing}, version : Nat] :
        /\ login' = [login EXCEPT ![l] = r]
        /\ r.state \in {"consumed", "issuing", "lost"} => <<l, r.user>> \in shown
        /\ r.state = "issuing" => person[r.user].active /\ r.version = person[r.user].version
        /\ r.state \notin {"confirmed", "done"}
  BY <1>3
<1>5. CliTypes' /\ PagesInv'
  BY <1>1, <1>4 DEF CliInv, CliTypes, PagesInv
<1>6. LoginsInv'
  BY <1>1, <1>4 DEF CliInv, CliTypes, LoginsInv
<1>7. VersionsInv'
  <2>1. r.state = "issuing" => person[r.user].version \in Nat
    BY <1>4 DEF CliInv, CliTypes
  <2> QED
    BY <1>1, <1>4, <2>1 DEF CliInv, CliTypes, VersionsInv
<1>8. KeysInv'
  BY <1>1, <1>2, <1>4 DEF CliInv, CliTypes, KeysInv
<1> QED
  BY <1>5, <1>6, <1>7, <1>8 DEF CliInv

LEMMA IssueKeyKeepsInv ==
  ASSUME NothingIsNothing, CliInv, NEW l \in Logins, IssueKey(l)
  PROVE  CliInv'
<1>1. UNCHANGED <<person, signedIn, asking, page, shown>>
  BY DEF IssueKey
<1>2. /\ login[l].state = "issuing" /\ login' = [login EXCEPT ![l].state = "done"]
      /\ keys' = keys \cup {[login |-> l, user |-> login[l].user, version |-> login[l].version]}
  BY DEF IssueKey
<1>3. CliTypes' /\ PagesInv'
  BY <1>1, <1>2 DEF CliInv, CliTypes, LoginStates, PagesInv
<1>4. LoginsInv' /\ VersionsInv'
  BY <1>1, <1>2 DEF CliInv, CliTypes, LoginsInv, VersionsInv
<1>5. KeysInv'
  BY <1>2 DEF CliInv, CliTypes, KeysInv
<1> QED
  BY <1>3, <1>4, <1>5 DEF CliInv

LEMMA CliNextInv == ASSUME NothingIsNothing PROVE CliInv /\ [CliNext]_cliVars => CliInv'
<1> SUFFICES ASSUME CliInv, [CliNext]_cliVars PROVE CliInv'
  OBVIOUS
<1>1. CASE UNCHANGED cliVars
  BY <1>1 DEF cliVars, CliInv, CliTypes, PagesInv, LoginsInv, VersionsInv, KeysInv
<1>2. CASE CliNext
  BY <1>2, PeopleKeepInv, SessionsKeepInv, ShowPageKeepsInv, PagesKeepInv, ConfirmLoginKeepsInv,
     LoginsKeepInv, IssueKeyKeepsInv
  DEF CliNext
<1> QED
  BY <1>1, <1>2

-----------------------------------------------------------------------------
(* Terminals: the theorems.                                                *)

\* The invariant of the login, its page and its key (cli-login.js, cli-endpoints.js).
THEOREM CliTypeCorrect == ASSUME NothingIsNothing PROVE CliSpec => []CliTypeOK
<1>1. CliInv => CliTypeOK
  BY DEF CliInv, CliTypes, PagesInv, LoginsInv, KeysInv, CliTypeOK
<1> QED
  BY <1>1, CliInitInv, CliNextInv, PTL DEF CliSpec

\* A login gives one key at most, to a person who was shown the page of that
\* login: the page's token, the pending record and its single use see to it
\* (verifyCliLoginConfirmToken, confirmCliLogin, handleCliLoginPoll).
THEOREM KeysFindTheirOwner == ASSUME NothingIsNothing PROVE CliSpec => []KeyIsForWhoConfirmed
<1>1. CliInv => KeyIsForWhoConfirmed
  BY DEF CliInv, LoginsInv, KeysInv, KeyIsForWhoConfirmed
<1> QED
  BY <1>1, CliInitInv, CliNextInv, PTL DEF CliSpec

\* A terminal's key is its person's, and never works again once the person has
\* been inactive, also when that was between the reading of the session
\* version and the insertion of the key (issueCliLoginAccessKey,
\* authenticateAccessKey).
THEOREM KeysStay == ASSUME NothingIsNothing PROVE CliSpec => KeysStayWithTheirPerson
<1>1. ASSUME CliInv, [CliNext]_cliVars, NEW k \in keys, ~KeyWorks(k) PROVE ~KeyWorks(k)'
  <2>1. UNCHANGED person \/ \E u \in People : PersonChanges(u)
    BY <1>1 DEF CliNext, SignInElsewhere, ShowPage, SessionEnds, Confirm, ClosePage, ConfirmLogin,
           OpenLogin, Start, Expire, Poll, ReadKeyOwner, IssueKey, KeyIsLost, cliVars
  <2>2. /\ k.user \in People /\ k.version \in Nat
        /\ k.version <= person[k.user].version
        /\ ~person[k.user].active => k.version < person[k.user].version
    <3>1. /\ k.login \in Logins /\ login[k.login].state = "done"
          /\ k.user = login[k.login].user /\ k.version = login[k.login].version
      BY <1>1 DEF CliInv, KeysInv
    <3>2. k.user \in People /\ k.version \in Nat
      BY <1>1, <3>1 DEF CliInv, CliTypes, LoginsInv
    <3> QED
      BY <1>1, <3>1, <3>2 DEF CliInv, VersionsInv
  <2>3. k.version < person[k.user].version
    <3>1. person[k.user].version \in Nat
      BY <1>1, <2>2 DEF CliInv, CliTypes
    <3>2. CASE person[k.user].active
      BY <1>1, <2>2, <3>1, <3>2 DEF KeyWorks
    <3>3. CASE ~person[k.user].active
      BY <2>2, <3>3
    <3> QED
      BY <3>2, <3>3
  <2>4. person'[k.user].version >= person[k.user].version
    BY <1>1, <2>1, <2>2 DEF PersonChanges, CliInv, CliTypes
  <2>5. person'[k.user].version \in Nat /\ person[k.user].version \in Nat
    BY <1>1, <2>1, <2>2 DEF PersonChanges, CliInv, CliTypes
  <2> QED
    BY <2>2, <2>3, <2>4, <2>5 DEF KeyWorks
<1>2. CliInv' => KeyIsForWhoConfirmed'
  BY DEF CliInv, LoginsInv, KeysInv, KeyIsForWhoConfirmed
<1>3. CliInv /\ CliInv' /\ [CliNext]_cliVars =>
        [KeyIsForWhoConfirmed' /\ \A k \in keys : ~KeyWorks(k) => ~KeyWorks(k)']_cliVars
  BY <1>1, <1>2
<1> QED
  BY <1>3, CliInitInv, CliNextInv, PTL DEF CliSpec, KeysStayWithTheirPerson

-----------------------------------------------------------------------------
(* Sign-in: types.                                                         *)

SessionRecords ==
  [user : Users, issued : Nat, revoked : BOOLEAN, expires : Nat, absolute : Nat]

\* A code on its way from the router, and what is signed after the answer.
Redemptions == [user : Users, asked : Nat]
SiteSessions == [user : Users, checked : Nat, asked : Nat]

\* The configuration reads positive times only (config.js), and no record or
\* number is taken for a missing one.
TimesArePositive ==
  /\ IdleTtl \in Nat /\ AbsoluteTtl \in Nat /\ IdleTtl <= AbsoluteTtl
  /\ CodeTtl \in Nat \ {0} /\ Freshness \in Nat
  /\ MaxSessions \in Nat /\ MaxTime \in Nat
  /\ Nobody \notin Nat \cup Users \cup SessionRecords \cup Redemptions

Visits ==
  {NoVisit}
  \cup [step : {"sso"}, at : Nat]
  \cup [step : {"refreshed", "known", "synced"}, at : Nat, user : Users]
  \cup [step : {"profile"}, at : Nat, user : Users, profile : Statuses]

SignInTypes ==
  /\ now \in 0..MaxTime
  /\ status \in [Users -> Statuses]
  /\ session \in [Sids -> SessionRecords \cup {Nobody}]
  /\ cookie \in [Browsers -> Sids \cup {Nobody}]
  /\ visit \in [Browsers -> Visits]
  /\ code \in [Browsers ->
       [user : Users, expires : Nat, consumed : BOOLEAN] \cup {Nobody}]
  /\ redeeming \in [Browsers -> Redemptions \cup {Nobody}]
  /\ siteCookie \in [Browsers -> SiteSessions \cup {Nobody}]
  /\ leftAt \in [Users -> Nat \cup {Nobody}]
  /\ signedOutAt \in [Browsers -> Nat \cup {Nobody}]

\* Nothing is of the future, and a session's idle time ends with its absolute.
TimesInv ==
  /\ \A u \in Users : (leftAt[u] = Nobody) <=> (status[u] = "active")
  /\ \A u \in Users : leftAt[u] # Nobody => leftAt[u] <= now
  /\ \A b \in Browsers :
       /\ signedOutAt[b] # Nobody => signedOutAt[b] <= now
       /\ visit[b].step # "idle" => visit[b].at <= now
       /\ siteCookie[b] # Nobody =>
            siteCookie[b].asked <= siteCookie[b].checked /\ siteCookie[b].checked <= now
       /\ redeeming[b] # Nobody => redeeming[b].asked <= now
       /\ code[b] # Nobody => code[b].expires <= now + CodeTtl
       /\ cookie[b] # Nobody => session[cookie[b]] # Nobody
  /\ \A s \in Sids : session[s] # Nobody => session[s].expires <= session[s].absolute

\* What was begun while a user was active counts from before the user left.
LeaversInv ==
  \A b \in Browsers :
    /\ visit[b].step \in {"known", "synced"} /\ leftAt[visit[b].user] # Nobody =>
         visit[b].at <= leftAt[visit[b].user]
    /\ code[b] # Nobody /\ leftAt[code[b].user] # Nobody =>
         code[b].expires <= leftAt[code[b].user] + CodeTtl
    /\ redeeming[b] # Nobody /\ leftAt[redeeming[b].user] # Nobody =>
         redeeming[b].asked < leftAt[redeeming[b].user] + CodeTtl
    /\ siteCookie[b] # Nobody /\ leftAt[siteCookie[b].user] # Nobody =>
         siteCookie[b].asked < leftAt[siteCookie[b].user] + CodeTtl

\* What was begun with a session counts from before its sign-out.
SignOutsInv ==
  \A b \in Browsers :
    signedOutAt[b] # Nobody =>
      /\ cookie[b] = Nobody
      /\ visit[b].step \in {"refreshed", "known"} => visit[b].at <= signedOutAt[b]
      /\ code[b] # Nobody => code[b].expires <= signedOutAt[b] + CodeTtl
      /\ redeeming[b] # Nobody => redeeming[b].asked < signedOutAt[b] + CodeTtl
      /\ siteCookie[b] # Nobody => siteCookie[b].asked < signedOutAt[b] + CodeTtl

SignInInv == SignInTypes /\ TimesInv /\ LeaversInv /\ SignOutsInv

\* What a visit says of itself.
LEMMA VisitFacts ==
  ASSUME SignInTypes, NEW b \in Browsers
  PROVE  /\ visit[b].step \in {"idle", "sso", "refreshed", "known", "synced", "profile"}
         /\ visit[b].step # "idle" => visit[b].at \in Nat
         /\ visit[b].step \in {"refreshed", "known", "synced", "profile"} =>
              visit[b].user \in Users
         /\ visit[b].step = "profile" => visit[b].profile \in Statuses
BY DEF SignInTypes, Visits, NoVisit

LEMMA SignInInitInv == ASSUME TimesArePositive PROVE SignInInit => SignInInv
BY DEF SignInInit, SignInInv, SignInTypes, TimesInv, LeaversInv, SignOutsInv, TimesArePositive,
       Visits, NoVisit, Statuses, Sids

LEMMA TickKeepsInv == ASSUME TimesArePositive, SignInInv, Tick PROVE SignInInv'
<1>1. now \in 0..MaxTime /\ now' = now + 1 /\ now' \in 0..MaxTime
  BY DEF Tick, SignInInv, SignInTypes, TimesArePositive
<1>2. UNCHANGED <<status, session, cookie, visit, code, redeeming, siteCookie, leftAt, signedOutAt>>
  BY DEF Tick
<1>3. SignInTypes' /\ LeaversInv' /\ SignOutsInv'
  BY <1>1, <1>2 DEF SignInInv, SignInTypes, LeaversInv, SignOutsInv
<1>4. TimesInv'
  <2>1. \A u \in Users : leftAt[u] # Nobody => leftAt[u] \in Nat
    BY DEF SignInInv, SignInTypes
  <2>2. \A b \in Browsers :
          /\ signedOutAt[b] # Nobody => signedOutAt[b] \in Nat
          /\ visit[b].step # "idle" => visit[b].at \in Nat
          /\ siteCookie[b] # Nobody => siteCookie[b].checked \in Nat
          /\ redeeming[b] # Nobody => redeeming[b].asked \in Nat
          /\ code[b] # Nobody => code[b].expires \in Nat
    BY VisitFacts DEF SignInInv, SignInTypes, SiteSessions, Redemptions
  <2>3. CodeTtl \in Nat
    BY DEF TimesArePositive
  <2> QED
    BY <1>1, <1>2, <2>1, <2>2, <2>3 DEF SignInInv, TimesInv
<1> QED
  BY <1>3, <1>4 DEF SignInInv

-----------------------------------------------------------------------------
(* Sign-in: people.                                                        *)

\* Whoever is no longer active leaves now, and what was begun for the user
\* was begun before.
LEMMA BecomingKeepsInv ==
  ASSUME TimesArePositive, SignInInv, NEW u \in Users, NEW new \in Statuses, Becomes(u, new),
         status[u] # "active" => new # "active",
         UNCHANGED <<now, session, cookie, code, redeeming, siteCookie, signedOutAt>>
  PROVE  /\ status' \in [Users -> Statuses] /\ leftAt' \in [Users -> Nat \cup {Nobody}]
         /\ \A v \in Users : (leftAt'[v] = Nobody) <=> (status'[v] = "active")
         /\ \A v \in Users : leftAt'[v] # Nobody => leftAt'[v] <= now
         /\ \A v \in Users : leftAt'[v] = leftAt[v] \/ (leftAt[v] = Nobody /\ leftAt'[v] = now)
<1>1. /\ now \in Nat /\ now # Nobody /\ now <= now
      /\ leftAt \in [Users -> Nat \cup {Nobody}] /\ status \in [Users -> Statuses]
  BY DEF SignInInv, SignInTypes, TimesArePositive
<1>2. /\ \A v \in Users : (leftAt[v] = Nobody) <=> (status[v] = "active")
      /\ \A v \in Users : leftAt[v] # Nobody => leftAt[v] <= now
  BY DEF SignInInv, TimesInv
<1>3. status' = [status EXCEPT ![u] = new] /\ status' \in [Users -> Statuses]
  BY <1>1 DEF Becomes
<1>4. \A v \in Users \ {u} : status'[v] = status[v]
  BY <1>1, <1>3
<1>5. status'[u] = new
  BY <1>1, <1>3
<1>6. CASE status[u] = "active" /\ new # "active"
  <2>1. leftAt' = [leftAt EXCEPT ![u] = now]
    BY <1>6 DEF Becomes
  <2>2. leftAt'[u] = now /\ leftAt[u] = Nobody /\ \A v \in Users \ {u} : leftAt'[v] = leftAt[v]
    BY <1>1, <1>2, <1>6, <2>1
  <2>3. leftAt' \in [Users -> Nat \cup {Nobody}]
    BY <1>1, <2>1
  <2> QED
    BY <1>1, <1>2, <1>3, <1>4, <1>5, <1>6, <2>2, <2>3
<1>7. CASE ~(status[u] = "active" /\ new # "active")
  <2>1. leftAt' = leftAt
    BY <1>7 DEF Becomes
  <2>2. (status[u] = "active") <=> (new = "active")
    BY <1>7
  <2> QED
    BY <1>1, <1>2, <1>3, <1>4, <1>5, <2>1, <2>2
<1> QED
  BY <1>6, <1>7

\* Codes and cookies stay as good as they were when somebody leaves.
LEMMA LeavingKeepsLeaversInv ==
  ASSUME TimesArePositive, SignInInv, NEW b \in Browsers,
         \A v \in Users : leftAt'[v] = leftAt[v] \/ (leftAt[v] = Nobody /\ leftAt'[v] = now)
  PROVE  /\ visit[b].step \in {"known", "synced"} /\ leftAt'[visit[b].user] # Nobody =>
              visit[b].at <= leftAt'[visit[b].user]
         /\ code[b] # Nobody /\ leftAt'[code[b].user] # Nobody =>
              code[b].expires <= leftAt'[code[b].user] + CodeTtl
         /\ redeeming[b] # Nobody /\ leftAt'[redeeming[b].user] # Nobody =>
              redeeming[b].asked < leftAt'[redeeming[b].user] + CodeTtl
         /\ siteCookie[b] # Nobody /\ leftAt'[siteCookie[b].user] # Nobody =>
              siteCookie[b].asked < leftAt'[siteCookie[b].user] + CodeTtl
<1>1. now \in Nat /\ CodeTtl \in Nat \ {0}
  BY DEF SignInInv, SignInTypes, TimesArePositive
<1>2. /\ visit[b].step \in {"known", "synced"} =>
           visit[b].at \in Nat /\ visit[b].at <= now /\ visit[b].user \in Users
      /\ code[b] # Nobody =>
           code[b].expires \in Nat /\ code[b].expires <= now + CodeTtl /\ code[b].user \in Users
      /\ redeeming[b] # Nobody =>
           /\ redeeming[b].asked \in Nat /\ redeeming[b].asked <= now
           /\ redeeming[b].user \in Users
      /\ siteCookie[b] # Nobody =>
           /\ siteCookie[b].asked \in Nat /\ siteCookie[b].asked <= now
           /\ siteCookie[b].user \in Users
  BY VisitFacts DEF SignInInv, SignInTypes, TimesInv, SiteSessions, Redemptions
<1>3. /\ visit[b].step \in {"known", "synced"} /\ leftAt[visit[b].user] # Nobody =>
           visit[b].at <= leftAt[visit[b].user]
      /\ code[b] # Nobody /\ leftAt[code[b].user] # Nobody =>
           code[b].expires <= leftAt[code[b].user] + CodeTtl
      /\ redeeming[b] # Nobody /\ leftAt[redeeming[b].user] # Nobody =>
           redeeming[b].asked < leftAt[redeeming[b].user] + CodeTtl
      /\ siteCookie[b] # Nobody /\ leftAt[siteCookie[b].user] # Nobody =>
           siteCookie[b].asked < leftAt[siteCookie[b].user] + CodeTtl
  BY DEF SignInInv, LeaversInv
<1>4. visit[b].step \in {"known", "synced"} /\ leftAt'[visit[b].user] # Nobody =>
        visit[b].at <= leftAt'[visit[b].user]
  BY <1>2, <1>3
<1>5. code[b] # Nobody /\ leftAt'[code[b].user] # Nobody =>
        code[b].expires <= leftAt'[code[b].user] + CodeTtl
  BY <1>2, <1>3
<1>6. siteCookie[b] # Nobody /\ leftAt'[siteCookie[b].user] # Nobody =>
        siteCookie[b].asked < leftAt'[siteCookie[b].user] + CodeTtl
  <2> SUFFICES ASSUME siteCookie[b] # Nobody, leftAt'[siteCookie[b].user] # Nobody
               PROVE  siteCookie[b].asked < leftAt'[siteCookie[b].user] + CodeTtl
    OBVIOUS
  <2>1. CASE leftAt'[siteCookie[b].user] = leftAt[siteCookie[b].user]
    BY <1>3, <2>1
  <2>2. CASE leftAt'[siteCookie[b].user] = now
    BY <1>1, <1>2, <2>2
  <2> QED
    BY <1>2, <2>1, <2>2
<1>7. redeeming[b] # Nobody /\ leftAt'[redeeming[b].user] # Nobody =>
        redeeming[b].asked < leftAt'[redeeming[b].user] + CodeTtl
  <2> SUFFICES ASSUME redeeming[b] # Nobody, leftAt'[redeeming[b].user] # Nobody
               PROVE  redeeming[b].asked < leftAt'[redeeming[b].user] + CodeTtl
    OBVIOUS
  <2>1. CASE leftAt'[redeeming[b].user] = leftAt[redeeming[b].user]
    BY <1>3, <2>1
  <2>2. CASE leftAt'[redeeming[b].user] = now
    BY <1>1, <1>2, <2>2
  <2> QED
    BY <1>2, <2>1, <2>2
<1> QED
  BY <1>4, <1>5, <1>6, <1>7

LEMMA MarkLeftKeepsInv ==
  ASSUME TimesArePositive, SignInInv, NEW u \in Users, MarkLeft(u)
  PROVE  SignInInv'
<1>1. /\ UNCHANGED <<now, session, cookie, visit, code, redeeming, siteCookie, signedOutAt>>
      /\ Becomes(u, "left")
  BY DEF MarkLeft
<1>2. /\ status' \in [Users -> Statuses] /\ leftAt' \in [Users -> Nat \cup {Nobody}]
      /\ \A v \in Users : (leftAt'[v] = Nobody) <=> (status'[v] = "active")
      /\ \A v \in Users : leftAt'[v] # Nobody => leftAt'[v] <= now
      /\ \A v \in Users : leftAt'[v] = leftAt[v] \/ (leftAt[v] = Nobody /\ leftAt'[v] = now)
  BY <1>1, BecomingKeepsInv DEF Statuses
<1>3. SignInTypes' /\ TimesInv' /\ SignOutsInv'
  BY <1>1, <1>2 DEF SignInInv, SignInTypes, TimesInv, SignOutsInv
<1>4. LeaversInv'
  BY <1>1, <1>2, LeavingKeepsLeaversInv DEF LeaversInv
<1> QED
  BY <1>3, <1>4 DEF SignInInv

LEMMA SyncUserKeepsInv ==
  ASSUME TimesArePositive, SignInInv, NEW b \in Browsers, SyncUser(b)
  PROVE  SignInInv'
<1> DEFINE u == visit[b].user
           new == StatusAfter(status[u], visit[b].profile)
<1>1. /\ visit[b].step = "profile" /\ u \in Users /\ visit[b].profile \in Statuses
      /\ visit[b].at \in Nat /\ visit[b].at <= now
  BY VisitFacts DEF SyncUser, SignInInv, TimesInv
<1>2. status[u] \in Statuses
  BY <1>1 DEF SignInInv, SignInTypes
<1>3. new \in Statuses /\ (new = "active" => status[u] = "active")
  BY <1>1, <1>2 DEF StatusAfter, Statuses
<1>4. /\ UNCHANGED <<now, session, cookie, code, redeeming, siteCookie, signedOutAt>>
      /\ Becomes(u, new)
  BY DEF SyncUser
<1>5. /\ status' \in [Users -> Statuses] /\ leftAt' \in [Users -> Nat \cup {Nobody}]
      /\ \A v \in Users : (leftAt'[v] = Nobody) <=> (status'[v] = "active")
      /\ \A v \in Users : leftAt'[v] # Nobody => leftAt'[v] <= now
      /\ \A v \in Users : leftAt'[v] = leftAt[v] \/ (leftAt[v] = Nobody /\ leftAt'[v] = now)
  <2> HIDE DEF u, new
  <2> QED
    BY <1>1, <1>3, <1>4, BecomingKeepsInv
<1>6. \/ /\ new = "active"
         /\ visit' = [visit EXCEPT ![b] = [step |-> "synced", at |-> visit[b].at, user |-> u]]
      \/ visit' = [visit EXCEPT ![b] = NoVisit]
  BY DEF SyncUser
<1>7. new = "active" => status'[u] = "active"
  BY <1>1, <1>4 DEF Becomes, SignInInv, SignInTypes
<1> HIDE DEF u, new
<1>8. SignInTypes'
  BY <1>1, <1>4, <1>5, <1>6 DEF SignInInv, SignInTypes, Visits, NoVisit
<1>9. TimesInv' /\ SignOutsInv'
  BY <1>1, <1>4, <1>5, <1>6 DEF SignInInv, SignInTypes, TimesInv, SignOutsInv, NoVisit
<1>10. LeaversInv'
  <2>1. new = "active" => leftAt'[u] = Nobody
    BY <1>1, <1>5, <1>7
  <2>2. SUFFICES ASSUME NEW c \in Browsers
                 PROVE  (visit'[c].step \in {"known", "synced"}
                           /\ leftAt'[visit'[c].user] # Nobody) =>
                          visit'[c].at <= leftAt'[visit'[c].user]
    BY <1>4, <1>5, LeavingKeepsLeaversInv DEF LeaversInv
  <2>3. CASE c = b
    BY <1>6, <2>1, <2>3 DEF NoVisit, SignInInv, SignInTypes
  <2>4. CASE c # b
    <3>1. visit'[c] = visit[c]
      BY <1>6, <2>4 DEF SignInInv, SignInTypes
    <3> QED
      BY <1>5, <3>1, LeavingKeepsLeaversInv
  <2> QED
    BY <2>3, <2>4
<1> QED
  BY <1>8, <1>9, <1>10 DEF SignInInv

-----------------------------------------------------------------------------
(* Sign-in: the auth service.                                              *)

\* A step that only moves one visit on, to a request that is no better.
LEMMA MovingOnKeepsInv ==
  ASSUME TimesArePositive, SignInInv, NEW b \in Browsers, NEW v \in Visits,
         visit' = [visit EXCEPT ![b] = v],
         UNCHANGED <<now, status, cookie, code, redeeming, siteCookie, leftAt, signedOutAt>>,
         session' \in [Sids -> SessionRecords \cup {Nobody}],
         \A s \in Sids : session'[s] # Nobody => session'[s].expires <= session'[s].absolute,
         \A s \in Sids : session[s] # Nobody => session'[s] # Nobody,
         v.step # "idle" => v.at <= now,
         v.step \in {"known", "synced"} /\ leftAt[v.user] # Nobody => v.at <= leftAt[v.user],
         v.step \in {"refreshed", "known"} /\ signedOutAt[b] # Nobody => v.at <= signedOutAt[b]
  PROVE  SignInInv'
<1>1. visit'[b] = v /\ \A c \in Browsers \ {b} : visit'[c] = visit[c]
  BY DEF SignInInv, SignInTypes
<1>2. SignInTypes'
  BY DEF SignInInv, SignInTypes
<1>3. TimesInv'
  BY <1>1 DEF SignInInv, SignInTypes, TimesInv
<1>4. LeaversInv'
  BY <1>1 DEF SignInInv, LeaversInv
<1>5. SignOutsInv'
  BY <1>1 DEF SignInInv, SignOutsInv
<1> QED
  BY <1>2, <1>3, <1>4, <1>5 DEF SignInInv

LEMMA AuthorizeKeepsInv ==
  ASSUME TimesArePositive, SignInInv, NEW b \in Browsers, Authorize(b)
  PROVE  SignInInv'
<1> DEFINE s == cookie[b]
<1>1. UNCHANGED <<now, status, cookie, code, redeeming, siteCookie, leftAt, signedOutAt>>
  BY DEF Authorize
<1>2. now \in Nat /\ now <= now
  BY DEF SignInInv, SignInTypes, TimesArePositive
<1>3. CASE SessionIsGood(s)
  <2> DEFINE r == session[s]
             v == [step |-> "refreshed", at |-> now, user |-> r.user]
  <2>1. s \in Sids /\ r \in SessionRecords /\ r.expires <= r.absolute
    BY <1>3 DEF SessionIsGood, SignInInv, SignInTypes, TimesInv
  <2>2. session' = [session EXCEPT ![s] = Refreshed(r)] /\ visit' = [visit EXCEPT ![b] = v]
    BY <1>3 DEF Authorize
  <2>3. Refreshed(r) \in SessionRecords /\ Refreshed(r).expires <= Refreshed(r).absolute
    <3>1. r.absolute \in Nat /\ IdleTtl \in Nat
      BY <2>1 DEF SessionRecords, TimesArePositive
    <3> DEFINE e == IF now + IdleTtl < r.absolute THEN now + IdleTtl ELSE r.absolute
    <3>2. e \in Nat /\ e <= r.absolute
      BY <1>2, <3>1
    <3>3. Refreshed(r) = [r EXCEPT !.expires = e]
      BY DEF Refreshed
    <3> HIDE DEF e, r
    <3> QED
      BY <2>1, <3>2, <3>3 DEF SessionRecords
  <2>4. Refreshed(r) # Nobody
    BY <2>3 DEF TimesArePositive
  <2>5. /\ session' \in [Sids -> SessionRecords \cup {Nobody}]
        /\ \A t \in Sids : session'[t] # Nobody => session'[t].expires <= session'[t].absolute
        /\ \A t \in Sids : session[t] # Nobody => session'[t] # Nobody
    <3> HIDE DEF r
    <3> QED
      BY <2>1, <2>2, <2>3, <2>4 DEF SignInInv, SignInTypes, TimesInv
  <2>6. v \in Visits
    BY <1>2, <2>1 DEF Visits, SessionRecords
  <2>7. signedOutAt[b] = Nobody
    BY <2>1 DEF SignInInv, SignOutsInv, Sids, TimesArePositive
  <2>8. v.step = "refreshed" /\ v.at = now
    OBVIOUS
  <2> HIDE DEF v
  <2> QED
    BY <1>1, <1>2, <2>2, <2>5, <2>6, <2>7, <2>8, MovingOnKeepsInv
<1>4. CASE ~SessionIsGood(s)
  <2> DEFINE v == [step |-> "sso", at |-> now]
  <2>1. visit' = [visit EXCEPT ![b] = v] /\ session' = session
    BY <1>4 DEF Authorize, ToSso
  <2>2. v \in Visits /\ v.step = "sso" /\ v.at = now
    BY <1>2 DEF Visits
  <2>3. /\ session' \in [Sids -> SessionRecords \cup {Nobody}]
        /\ \A t \in Sids : session'[t] # Nobody => session'[t].expires <= session'[t].absolute
        /\ \A t \in Sids : session[t] # Nobody => session'[t] # Nobody
    BY <2>1 DEF SignInInv, SignInTypes, TimesInv
  <2> HIDE DEF v
  <2> QED
    BY <1>1, <1>2, <2>1, <2>2, <2>3, MovingOnKeepsInv
<1> QED
  BY <1>3, <1>4

LEMMA VisitsKeepInv ==
  ASSUME TimesArePositive, SignInInv, NEW b \in Browsers,
         \/ ReadUser(b) \/ GiveCodeFails(b) \/ CallbackFails(b)
         \/ \E u \in Users, profile \in Statuses : Callback(b, u, profile)
  PROVE  SignInInv'
<1>1. UNCHANGED <<now, status, session, cookie, code, redeeming, siteCookie, leftAt, signedOutAt>>
  BY DEF ReadUser, GiveCodeFails, CallbackFails, Callback
<1>2. /\ session' \in [Sids -> SessionRecords \cup {Nobody}]
      /\ \A t \in Sids : session'[t] # Nobody => session'[t].expires <= session'[t].absolute
      /\ \A t \in Sids : session[t] # Nobody => session'[t] # Nobody
  BY <1>1 DEF SignInInv, SignInTypes, TimesInv
<1>3. now \in Nat /\ now <= now
  BY DEF SignInInv, SignInTypes, TimesArePositive
<1>4. \E v \in Visits :
        /\ visit' = [visit EXCEPT ![b] = v]
        /\ v.step # "idle" => v.at <= now
        /\ v.step \in {"known", "synced"} /\ leftAt[v.user] # Nobody => v.at <= leftAt[v.user]
        /\ v.step \in {"refreshed", "known"} /\ signedOutAt[b] # Nobody => v.at <= signedOutAt[b]
  <2>1. CASE ReadUser(b)
    <3>1. /\ visit[b].step = "refreshed" /\ visit[b].user \in Users
          /\ visit[b].at \in Nat /\ visit[b].at <= now
          /\ signedOutAt[b] # Nobody => visit[b].at <= signedOutAt[b]
      BY <2>1, VisitFacts DEF ReadUser, SignInInv, TimesInv, SignOutsInv
    <3>2. CASE status[visit[b].user] = "active"
      <4> DEFINE v == [step |-> "known", at |-> visit[b].at, user |-> visit[b].user]
      <4>1. visit' = [visit EXCEPT ![b] = v]
        BY <2>1, <3>2 DEF ReadUser
      <4>2. v \in Visits /\ v.at = visit[b].at /\ v.user = visit[b].user
        BY <3>1 DEF Visits
      <4>3. leftAt[v.user] = Nobody
        BY <3>1, <3>2 DEF SignInInv, TimesInv
      <4> HIDE DEF v
      <4> QED
        BY <3>1, <4>1, <4>2, <4>3
    <3>3. CASE status[visit[b].user] # "active"
      <4> DEFINE v == [step |-> "sso", at |-> visit[b].at]
      <4>1. visit' = [visit EXCEPT ![b] = v]
        BY <2>1, <3>3 DEF ReadUser, ToSso
      <4>2. v \in Visits /\ v.at = visit[b].at /\ v.step = "sso"
        BY <3>1 DEF Visits
      <4> HIDE DEF v
      <4> QED
        BY <3>1, <4>1, <4>2
    <3> QED
      BY <3>2, <3>3
  <2>2. CASE GiveCodeFails(b)
    <3> DEFINE v == [step |-> "sso", at |-> visit[b].at]
    <3>1. visit' = [visit EXCEPT ![b] = v]
      BY <2>2 DEF GiveCodeFails, ToSso
    <3>2. visit[b].step = "known" /\ visit[b].at \in Nat /\ visit[b].at <= now
      BY <2>2, VisitFacts DEF GiveCodeFails, SignInInv, TimesInv
    <3>3. v \in Visits /\ v.at = visit[b].at /\ v.step = "sso"
      BY <3>2 DEF Visits
    <3> HIDE DEF v
    <3> QED
      BY <3>1, <3>2, <3>3
  <2>3. CASE CallbackFails(b)
    <3>1. visit' = [visit EXCEPT ![b] = NoVisit]
      BY <2>3 DEF CallbackFails
    <3>2. NoVisit \in Visits /\ NoVisit.step = "idle"
      BY DEF Visits, NoVisit
    <3> QED
      BY <3>1, <3>2
  <2>4. CASE \E u \in Users, profile \in Statuses : Callback(b, u, profile)
    <3>1. PICK u \in Users, profile \in Statuses : Callback(b, u, profile)
      BY <2>4
    <3> DEFINE v == [step |-> "profile", at |-> now, user |-> u, profile |-> profile]
    <3>2. visit' = [visit EXCEPT ![b] = v] \/ visit' = [visit EXCEPT ![b] = NoVisit]
      BY <3>1 DEF Callback
    <3>3. v \in Visits /\ v.at = now /\ v.step = "profile"
      BY <1>3 DEF Visits
    <3>4. NoVisit \in Visits /\ NoVisit.step = "idle"
      BY DEF Visits, NoVisit
    <3> HIDE DEF v
    <3> QED
      BY <1>3, <3>2, <3>3, <3>4
  <2> QED
    BY <2>1, <2>2, <2>3, <2>4
<1> QED
  BY <1>1, <1>2, <1>4, MovingOnKeepsInv

\* A code that is given to a browser, by the one or the other path.
LEMMA GivingKeepsInv ==
  ASSUME TimesArePositive, SignInInv, NEW b \in Browsers,
         visit[b].step \in {"known", "synced"},
         code' = [code EXCEPT ![b] = SiteCode(visit[b])],
         visit' = [visit EXCEPT ![b] = NoVisit],
         visit[b].step = "synced" => signedOutAt'[b] = Nobody,
         \A c \in Browsers : signedOutAt'[c] = signedOutAt[c] \/ signedOutAt'[c] = Nobody,
         UNCHANGED <<now, status, redeeming, siteCookie, leftAt>>
  PROVE  /\ code' \in [Browsers ->
                [user : Users, expires : Nat, consumed : BOOLEAN] \cup {Nobody}]
         /\ visit' \in [Browsers -> Visits]
         /\ \A c \in Browsers : code'[c] # Nobody => code'[c].expires <= now + CodeTtl
         /\ \A c \in Browsers : visit'[c].step # "idle" => visit'[c].at <= now
         /\ LeaversInv'
         /\ \A c \in Browsers :
              signedOutAt'[c] # Nobody =>
                /\ visit'[c].step \in {"refreshed", "known"} => visit'[c].at <= signedOutAt'[c]
                /\ code'[c] # Nobody => code'[c].expires <= signedOutAt'[c] + CodeTtl
<1> DEFINE v == visit[b]
           new == SiteCode(v)
<1>1. /\ v.user \in Users /\ v.at \in Nat /\ v.at <= now /\ now \in Nat /\ CodeTtl \in Nat
      /\ leftAt[v.user] # Nobody => leftAt[v.user] \in Nat /\ v.at <= leftAt[v.user]
      /\ v.step = "known" /\ signedOutAt[b] # Nobody =>
           signedOutAt[b] \in Nat /\ v.at <= signedOutAt[b]
  BY VisitFacts DEF SignInInv, SignInTypes, TimesInv, LeaversInv, SignOutsInv, TimesArePositive
<1> HIDE DEF v
<1>2. /\ new.user = v.user /\ new.expires = v.at + CodeTtl
      /\ new \in [user : Users, expires : Nat, consumed : BOOLEAN]
  BY <1>1 DEF SiteCode
<1>3. /\ new.expires <= now + CodeTtl
      /\ leftAt[new.user] # Nobody => new.expires <= leftAt[new.user] + CodeTtl
      /\ signedOutAt'[b] # Nobody => new.expires <= signedOutAt'[b] + CodeTtl
  <2>1. leftAt[v.user] # Nobody => v.at + CodeTtl <= leftAt[v.user] + CodeTtl
    BY <1>1
  <2>2. v.at + CodeTtl <= now + CodeTtl
    BY <1>1
  <2>3. signedOutAt'[b] # Nobody => v.at + CodeTtl <= signedOutAt'[b] + CodeTtl
    BY <1>1 DEF v
  <2> QED
    BY <1>2, <2>1, <2>2, <2>3
<1>4. /\ code'[b] = new /\ visit'[b] = NoVisit
      /\ \A c \in Browsers \ {b} : code'[c] = code[c] /\ visit'[c] = visit[c]
  BY DEF v, SignInInv, SignInTypes
<1> HIDE DEF new
<1>5. /\ code' \in [Browsers -> [user : Users, expires : Nat, consumed : BOOLEAN] \cup {Nobody}]
      /\ visit' \in [Browsers -> Visits]
  BY <1>2, <1>4 DEF v, new, SignInInv, SignInTypes, Visits
<1>6. /\ \A c \in Browsers : code'[c] # Nobody => code'[c].expires <= now + CodeTtl
      /\ \A c \in Browsers : visit'[c].step # "idle" => visit'[c].at <= now
  BY <1>3, <1>4 DEF SignInInv, TimesInv, NoVisit
<1>7. LeaversInv'
  BY <1>3, <1>4 DEF SignInInv, LeaversInv, NoVisit
<1>8. \A c \in Browsers :
        signedOutAt'[c] # Nobody =>
          /\ visit'[c].step \in {"refreshed", "known"} => visit'[c].at <= signedOutAt'[c]
          /\ code'[c] # Nobody => code'[c].expires <= signedOutAt'[c] + CodeTtl
  BY <1>3, <1>4 DEF SignInInv, SignOutsInv, NoVisit
<1> QED
  BY <1>5, <1>6, <1>7, <1>8

LEMMA GiveCodeKeepsInv ==
  ASSUME TimesArePositive, SignInInv, NEW b \in Browsers, GiveCode(b)
  PROVE  SignInInv'
<1>1. /\ visit[b].step = "known" /\ code' = [code EXCEPT ![b] = SiteCode(visit[b])]
      /\ visit' = [visit EXCEPT ![b] = NoVisit]
      /\ UNCHANGED <<now, status, session, cookie, redeeming, siteCookie, leftAt, signedOutAt>>
  BY DEF GiveCode
<1>2. /\ code' \in [Browsers -> [user : Users, expires : Nat, consumed : BOOLEAN] \cup {Nobody}]
      /\ visit' \in [Browsers -> Visits]
      /\ \A c \in Browsers : code'[c] # Nobody => code'[c].expires <= now + CodeTtl
      /\ \A c \in Browsers : visit'[c].step # "idle" => visit'[c].at <= now
      /\ LeaversInv'
      /\ \A c \in Browsers :
           signedOutAt'[c] # Nobody =>
             /\ visit'[c].step \in {"refreshed", "known"} => visit'[c].at <= signedOutAt'[c]
             /\ code'[c] # Nobody => code'[c].expires <= signedOutAt'[c] + CodeTtl
  BY <1>1, GivingKeepsInv
<1>3. SignInTypes'
  BY <1>1, <1>2 DEF SignInInv, SignInTypes
<1>4. TimesInv' /\ SignOutsInv'
  BY <1>1, <1>2 DEF SignInInv, TimesInv, SignOutsInv
<1> QED
  BY <1>2, <1>3, <1>4 DEF SignInInv

LEMMA EstablishKeepsInv ==
  ASSUME TimesArePositive, SignInInv, NEW b \in Browsers, Establish(b)
  PROVE  SignInInv'
<1> DEFINE r == [user |-> visit[b].user, issued |-> visit[b].at, revoked |-> FALSE,
                 expires |-> visit[b].at + IdleTtl, absolute |-> visit[b].at + AbsoluteTtl]
<1>1. /\ visit[b].step = "synced" /\ code' = [code EXCEPT ![b] = SiteCode(visit[b])]
      /\ visit' = [visit EXCEPT ![b] = NoVisit]
      /\ signedOutAt' = [signedOutAt EXCEPT ![b] = Nobody]
      /\ UNCHANGED <<now, status, redeeming, siteCookie, leftAt>>
  BY DEF Establish
<1>2. PICK s \in Sids : /\ session[s] = Nobody /\ session' = [session EXCEPT ![s] = r]
                        /\ cookie' = [cookie EXCEPT ![b] = s]
  BY DEF Establish
<1>3. signedOutAt'[b] = Nobody /\ \A c \in Browsers \ {b} : signedOutAt'[c] = signedOutAt[c]
  BY <1>1 DEF SignInInv, SignInTypes
<1>4. /\ code' \in [Browsers -> [user : Users, expires : Nat, consumed : BOOLEAN] \cup {Nobody}]
      /\ visit' \in [Browsers -> Visits]
      /\ \A c \in Browsers : code'[c] # Nobody => code'[c].expires <= now + CodeTtl
      /\ \A c \in Browsers : visit'[c].step # "idle" => visit'[c].at <= now
      /\ LeaversInv'
      /\ \A c \in Browsers :
           signedOutAt'[c] # Nobody =>
             /\ visit'[c].step \in {"refreshed", "known"} => visit'[c].at <= signedOutAt'[c]
             /\ code'[c] # Nobody => code'[c].expires <= signedOutAt'[c] + CodeTtl
  BY <1>1, <1>3, GivingKeepsInv
<1>5. r \in SessionRecords /\ r.expires <= r.absolute /\ r # Nobody
  <2>1. visit[b].user \in Users /\ visit[b].at \in Nat
    BY <1>1, VisitFacts DEF SignInInv
  <2>2. r \in SessionRecords /\ visit[b].at + IdleTtl <= visit[b].at + AbsoluteTtl
    BY <2>1 DEF SessionRecords, TimesArePositive
  <2> QED
    BY <2>2 DEF TimesArePositive
<1> HIDE DEF r
<1>6. SignInTypes'
  BY <1>1, <1>2, <1>4, <1>5 DEF SignInInv, SignInTypes
<1>7. /\ session'[s] = r /\ \A t \in Sids \ {s} : session'[t] = session[t]
      /\ cookie'[b] = s /\ \A c \in Browsers \ {b} : cookie'[c] = cookie[c]
  BY <1>2 DEF SignInInv, SignInTypes
<1>8. TimesInv'
  <2>1. \A c \in Browsers : cookie'[c] # Nobody => session'[cookie'[c]] # Nobody
    BY <1>5, <1>7 DEF SignInInv, SignInTypes, TimesInv
  <2>2. \A t \in Sids : session'[t] # Nobody => session'[t].expires <= session'[t].absolute
    BY <1>5, <1>7 DEF SignInInv, TimesInv
  <2> QED
    BY <1>1, <1>3, <1>4, <2>1, <2>2 DEF SignInInv, TimesInv
<1>9. SignOutsInv'
  BY <1>1, <1>3, <1>4, <1>7 DEF SignInInv, SignOutsInv
<1> QED
  BY <1>4, <1>6, <1>8, <1>9 DEF SignInInv

-----------------------------------------------------------------------------
(* Sign-in: the site's host, and signing out.                              *)

LEMMA SendCodeKeepsInv ==
  ASSUME TimesArePositive, SignInInv, NEW b \in Browsers, SendCode(b)
  PROVE  SignInInv'
<1> DEFINE new == [user |-> code[b].user, asked |-> now]
<1>1. /\ code[b] # Nobody /\ now < code[b].expires
      /\ code' = [code EXCEPT ![b].consumed = TRUE]
      /\ redeeming' = [redeeming EXCEPT ![b] = new]
      /\ UNCHANGED <<now, status, session, cookie, visit, siteCookie, leftAt, signedOutAt>>
  BY DEF SendCode, CodeIsGood
<1>2. /\ code[b] \in [user : Users, expires : Nat, consumed : BOOLEAN]
      /\ now \in Nat /\ now <= now /\ CodeTtl \in Nat
  BY <1>1 DEF SignInInv, SignInTypes, TimesArePositive
<1>3. new \in Redemptions /\ new.asked = now /\ new.user = code[b].user
  BY <1>2 DEF Redemptions
<1> HIDE DEF new
<1>4. /\ redeeming'[b] = new /\ code'[b] = [code[b] EXCEPT !.consumed = TRUE]
      /\ \A c \in Browsers \ {b} : redeeming'[c] = redeeming[c] /\ code'[c] = code[c]
  BY <1>1 DEF SignInInv, SignInTypes
<1>5. /\ code'[b].user = code[b].user /\ code'[b].expires = code[b].expires
      /\ code'[b] \in [user : Users, expires : Nat, consumed : BOOLEAN]
  BY <1>2, <1>4
<1>6. SignInTypes'
  BY <1>1, <1>3, <1>5 DEF SignInInv, SignInTypes
<1>7. TimesInv'
  BY <1>1, <1>2, <1>3, <1>4, <1>5 DEF SignInInv, TimesInv
<1>8. LeaversInv'
  <2>1. leftAt[new.user] # Nobody => now < leftAt[new.user] + CodeTtl
    <3> SUFFICES ASSUME leftAt[new.user] # Nobody PROVE now < leftAt[new.user] + CodeTtl
      OBVIOUS
    <3>1. leftAt[new.user] \in Nat /\ code[b].expires <= leftAt[new.user] + CodeTtl
      BY <1>1, <1>2, <1>3 DEF SignInInv, SignInTypes, LeaversInv
    <3> QED
      BY <1>1, <1>2, <3>1
  <2> QED
    BY <1>1, <1>3, <1>4, <1>5, <2>1 DEF SignInInv, LeaversInv
<1>9. SignOutsInv'
  <2>1. signedOutAt[b] # Nobody => now < signedOutAt[b] + CodeTtl
    <3> SUFFICES ASSUME signedOutAt[b] # Nobody PROVE now < signedOutAt[b] + CodeTtl
      OBVIOUS
    <3>1. signedOutAt[b] \in Nat /\ code[b].expires <= signedOutAt[b] + CodeTtl
      BY <1>1 DEF SignInInv, SignInTypes, SignOutsInv
    <3> QED
      BY <1>1, <1>2, <3>1
  <2> QED
    BY <1>1, <1>3, <1>4, <1>5, <2>1 DEF SignInInv, SignOutsInv
<1> QED
  BY <1>6, <1>7, <1>8, <1>9 DEF SignInInv

\* The session takes over when its code was sent, and is checked later.
LEMMA SiteCallbackKeepsInv ==
  ASSUME TimesArePositive, SignInInv, NEW b \in Browsers,
         SiteCallback(b) \/ SiteCallbackFails(b)
  PROVE  SignInInv'
<1> DEFINE new == [user |-> redeeming[b].user, checked |-> now, asked |-> redeeming[b].asked]
<1>1. /\ redeeming[b] # Nobody /\ redeeming' = [redeeming EXCEPT ![b] = Nobody]
      /\ UNCHANGED <<now, status, session, cookie, visit, code, leftAt, signedOutAt>>
      /\ siteCookie' = siteCookie \/ siteCookie' = [siteCookie EXCEPT ![b] = new]
  BY DEF SiteCallback, SiteCallbackFails
<1>2. /\ redeeming[b] \in Redemptions /\ redeeming[b].asked <= now
      /\ now \in Nat /\ now <= now
  BY <1>1 DEF SignInInv, SignInTypes, TimesInv, TimesArePositive
<1>3. /\ new \in SiteSessions /\ new.checked = now
      /\ new.user = redeeming[b].user /\ new.asked = redeeming[b].asked
  BY <1>2 DEF SiteSessions, Redemptions
<1> HIDE DEF new
<1>4. /\ redeeming'[b] = Nobody /\ (siteCookie'[b] = siteCookie[b] \/ siteCookie'[b] = new)
      /\ \A c \in Browsers \ {b} :
           redeeming'[c] = redeeming[c] /\ siteCookie'[c] = siteCookie[c]
  BY <1>1 DEF SignInInv, SignInTypes
<1>5. SignInTypes'
  BY <1>1, <1>3 DEF SignInInv, SignInTypes
<1>6. TimesInv'
  BY <1>1, <1>2, <1>3, <1>4 DEF SignInInv, TimesInv
<1>7. LeaversInv'
  BY <1>1, <1>3, <1>4 DEF SignInInv, LeaversInv
<1>8. SignOutsInv'
  BY <1>1, <1>3, <1>4 DEF SignInInv, SignOutsInv
<1> QED
  BY <1>5, <1>6, <1>7, <1>8 DEF SignInInv

LEMMA LogoutKeepsInv ==
  ASSUME TimesArePositive, SignInInv, NEW b \in Browsers, Logout(b)
  PROVE  SignInInv'
<1>1. /\ cookie[b] # Nobody /\ cookie' = [cookie EXCEPT ![b] = Nobody]
      /\ signedOutAt' = [signedOutAt EXCEPT ![b] = now]
      /\ UNCHANGED <<now, status, visit, code, redeeming, siteCookie, leftAt>>
  BY DEF Logout
<1>2. session' = [session EXCEPT ![cookie[b]].revoked = TRUE] \/ session' = session
  BY DEF Logout
<1>3. now \in Nat /\ now <= now /\ CodeTtl \in Nat \ {0} /\ now # Nobody
  BY DEF SignInInv, SignInTypes, TimesArePositive
<1>4. cookie[b] \in Sids /\ session[cookie[b]] \in SessionRecords
  BY <1>1 DEF SignInInv, SignInTypes, TimesInv
<1>5. /\ session' \in [Sids -> SessionRecords \cup {Nobody}]
      /\ \A s \in Sids : session'[s] # Nobody => session'[s].expires <= session'[s].absolute
      /\ \A s \in Sids : session[s] # Nobody => session'[s] # Nobody
  <2>1. CASE session' = session
    BY <2>1 DEF SignInInv, SignInTypes, TimesInv
  <2>2. CASE session' = [session EXCEPT ![cookie[b]].revoked = TRUE]
    <3> DEFINE old == session[cookie[b]]
               r == [old EXCEPT !.revoked = TRUE]
    <3>1. session' = [session EXCEPT ![cookie[b]] = r]
      BY <2>2
    <3>2. r \in SessionRecords /\ r.expires = old.expires /\ r.absolute = old.absolute
      BY <1>4 DEF SessionRecords
    <3>3. r # Nobody /\ old # Nobody
      BY <1>4, <3>2 DEF TimesArePositive
    <3> HIDE DEF r
    <3> QED
      BY <1>4, <3>1, <3>2, <3>3 DEF SignInInv, SignInTypes, TimesInv
  <2> QED
    BY <1>2, <2>1, <2>2
<1>6. /\ cookie'[b] = Nobody /\ signedOutAt'[b] = now
      /\ \A c \in Browsers \ {b} : cookie'[c] = cookie[c] /\ signedOutAt'[c] = signedOutAt[c]
  BY <1>1 DEF SignInInv, SignInTypes
<1>7. SignInTypes'
  BY <1>1, <1>3, <1>5 DEF SignInInv, SignInTypes
<1>8. TimesInv'
  BY <1>1, <1>3, <1>5, <1>6 DEF SignInInv, SignInTypes, TimesInv
<1>9. LeaversInv'
  BY <1>1 DEF SignInInv, LeaversInv
<1>10. SignOutsInv'
  <2>1. /\ visit[b].step # "idle" => visit[b].at <= now
        /\ code[b] # Nobody => code[b].expires <= now + CodeTtl
        /\ redeeming[b] # Nobody => redeeming[b].asked < now + CodeTtl
        /\ siteCookie[b] # Nobody => siteCookie[b].asked < now + CodeTtl
    BY <1>3 DEF SignInInv, SignInTypes, TimesInv, SiteSessions, Redemptions
  <2> QED
    BY <1>1, <1>6, <2>1 DEF SignInInv, SignOutsInv
<1> QED
  BY <1>7, <1>8, <1>9, <1>10 DEF SignInInv

LEMMA SignInNextInv ==
  ASSUME TimesArePositive PROVE SignInInv /\ [SignInNext]_signInVars => SignInInv'
<1> SUFFICES ASSUME SignInInv, [SignInNext]_signInVars PROVE SignInInv'
  OBVIOUS
<1>1. CASE UNCHANGED signInVars
  BY <1>1 DEF signInVars, SignInInv, SignInTypes, TimesInv, LeaversInv, SignOutsInv
<1>2. CASE SignInNext
  BY <1>2, TickKeepsInv, MarkLeftKeepsInv, AuthorizeKeepsInv, VisitsKeepInv, GiveCodeKeepsInv,
     SyncUserKeepsInv, EstablishKeepsInv, SendCodeKeepsInv, SiteCallbackKeepsInv,
     LogoutKeepsInv
  DEF SignInNext
<1> QED
  BY <1>1, <1>2

\* The records of sign-ins fit together (session-record.js, oauth-state.js).
THEOREM SignInTypeCorrect == ASSUME TimesArePositive PROVE SignInSpec => []SignInTypeOK
<1>1. SignInInv => SignInTypeOK
  BY DEF SignInInv, SignInTypes, TimesInv, SignInTypeOK, SiteSessions
<1> QED
  BY <1>1, SignInInitInv, SignInNextInv, PTL DEF SignInSpec

\* A site is closed to who left, and to a browser that signed out, in less
\* than the life of a code and the freshness of a check and the router's call
\* together, whatever was under way at either service (handleOAuthAuthorize and
\* siteSessionIsFresh read one time each, handleSiteAuthCallback one before
\* its call and one after the answer).
THEOREM SitesCloseInTime == ASSUME TimesArePositive PROVE SignInSpec => []SiteClosesInTime
<1>1. ASSUME SignInInv PROVE SiteClosesInTime
  <2> SUFFICES ASSUME NEW b \in Browsers, IsServed(b)
               PROVE  LET granted == siteCookie[b]
                          bound == CodeTtl + Freshness + (granted.checked - granted.asked)
                      IN  /\ leftAt[granted.user] # Nobody =>
                               now - leftAt[granted.user] < bound
                          /\ signedOutAt[b] # Nobody => now - signedOutAt[b] < bound
    BY DEF SiteClosesInTime
  <2> DEFINE checked == siteCookie[b].checked
             asked == siteCookie[b].asked
             left == leftAt[siteCookie[b].user]
             out == signedOutAt[b]
  <2>1. /\ checked \in Nat /\ asked \in Nat /\ now \in Nat
        /\ CodeTtl \in Nat /\ Freshness \in Nat
        /\ now - checked <= Freshness
        /\ left # Nobody => left \in Nat /\ asked < left + CodeTtl
        /\ out # Nobody => out \in Nat /\ asked < out + CodeTtl
    BY <1>1 DEF IsServed, SignInInv, SignInTypes, LeaversInv, SignOutsInv, TimesArePositive,
                SiteSessions
  <2> HIDE DEF checked, asked, left, out
  <2>2. (left # Nobody => now - left < CodeTtl + Freshness + (checked - asked))
        /\ (out # Nobody => now - out < CodeTtl + Freshness + (checked - asked))
    BY <2>1
  <2> QED
    BY <2>2 DEF checked, asked, left, out
<1> QED
  BY <1>1, SignInInitInv, SignInNextInv, PTL DEF SignInSpec

-----------------------------------------------------------------------------
(* Router: types.                                                          *)

Rows ==
  [slug : Hostnames, space : Hostnames \cup {Nobody}, home : Hostnames, policy : Nat,
   live : BOOLEAN, mode : {"anonymous", "protected"}, readers : SUBSET Users]

Routes ==
  [site : Sites, schema : {3, 4}, slug : Hostnames, space : Hostnames, policy : Nat,
   mode : {"anonymous", "protected"}, readers : SUBSET Users, live : BOOLEAN]

Entries == [route : Routes \cup {Nobody}, since : Nat, n : Nat]

\* Times and bounds are numbers, policies have one of the two modes, and no
\* record or name is taken for a missing one.
RouterConstants ==
  /\ OldSite \in Sites /\ OldHost \in Hostnames
  /\ Policies \subseteq [mode : {"anonymous", "protected"}, readers : SUBSET Users]
  /\ KvDelay \in Nat /\ CapabilityTtl \in Nat /\ Skew \in Nat
  /\ MaxPublications \in Nat /\ MaxHours \in Nat
  /\ Nobody \notin Users \cup Hostnames \cup Rows \cup Routes

RouterTypes ==
  /\ hour \in 0..MaxHours
  /\ published \in 0..MaxPublications
  /\ sites \in [Sites -> Rows \cup {Nobody}]
  /\ kv \in [Hostnames -> Seq(Entries)]
  /\ siteSession \in [Hostnames ->
       [site : Sites, policy : Nat, user : Users, checked : Nat, signed : Nat] \cup {Nobody}]
  /\ callback \in [host : Hostnames, route : Routes] \cup {Nobody}
  /\ held \in [space : Hostnames, site : Sites, user : Users \cup {Nobody}, issued : Nat,
               expires : Nat, for : Users \cup {Nobody}] \cup {Nobody}

\* Where a site's data has been from its beginning, by its row and by a route.
SpaceOf(row) == IF row.space = Nobody THEN row.slug ELSE row.space
DataOf(route) == IF route.schema = 4 THEN route.space ELSE route.slug

\* A row, and every route that was published, still names the first home.
HomesInv ==
  /\ \A s \in Sites : sites[s] # Nobody => SpaceOf(sites[s]) = sites[s].home
  /\ \A h \in Hostnames : \A i \in DOMAIN kv[h] :
       kv[h][i].route # Nobody =>
         LET route == kv[h][i].route IN
         sites[route.site] # Nobody /\ DataOf(route) = sites[route.site].home

\* Entries of a hostname follow each other in time.
EntriesInv ==
  \A h \in Hostnames :
    /\ Len(kv[h]) > 0
    /\ \A i \in DOMAIN kv[h] : kv[h][i].since <= hour /\ kv[h][i].n <= published
    /\ \A i \in 2..Len(kv[h]) : kv[h][i - 1].since <= kv[h][i].since

\* A route that a callback or a session goes back to was published before.
WasPublished(s, policy, n) ==
  \E g \in Hostnames : \E i \in DOMAIN kv[g] :
    /\ kv[g][i].route # Nobody
    /\ kv[g][i].route.site = s /\ kv[g][i].route.policy = policy
    /\ kv[g][i].n <= n

SessionsInv ==
  /\ callback # Nobody => WasPublished(callback.route.site, callback.route.policy, published)
  /\ \A h \in Hostnames :
       siteSession[h] # Nobody =>
         /\ siteSession[h].checked <= hour
         /\ WasPublished(siteSession[h].site, siteSession[h].policy, siteSession[h].signed)

\* A route by which the router could sign what is held.
Covers(route, c) ==
  /\ route # Nobody
  /\ route.site = c.site /\ route.live
  /\ IF c.for = Nobody THEN route.mode = "anonymous"
                       ELSE route.mode = "protected" /\ c.for \in route.readers

\* It was visible when the capability was signed.
HeldInv ==
  held # Nobody =>
    /\ held.issued <= hour /\ held.expires = held.issued + CapabilityTtl
    /\ held.user \in {Nobody, held.for}
    /\ sites[held.site] # Nobody /\ held.space = sites[held.site].home
    /\ \E h \in Hostnames : \E i \in DOMAIN kv[h] :
         /\ Covers(kv[h][i].route, held)
         /\ i = Len(kv[h]) \/ held.issued <= kv[h][i + 1].since + KvDelay

RouterInv == RouterTypes /\ HomesInv /\ EntriesInv /\ SessionsInv /\ HeldInv

LEMMA RouterInitInv == ASSUME RouterConstants PROVE RouterInit => RouterInv
<1> SUFFICES ASSUME RouterInit PROVE RouterInv
  OBVIOUS
<1> DEFINE row == [slug |-> OldHost, space |-> Nobody, home |-> OldHost, policy |-> 1,
                   live |-> TRUE, mode |-> "protected", readers |-> Users]
           new == [Snapshot(OldSite, row) EXCEPT !.schema = 3]
           entry(h) == [route |-> IF h = OldHost THEN new ELSE Nobody, since |-> 0, n |-> 0]
<1>1. /\ hour = 0 /\ published = 0 /\ callback = Nobody /\ held = Nobody
      /\ siteSession = [h \in Hostnames |-> Nobody]
      /\ sites = [s \in Sites |-> IF s = OldSite THEN row ELSE Nobody]
      /\ kv = [h \in Hostnames |-> <<entry(h)>>]
  BY DEF RouterInit
<1>2. /\ row \in Rows /\ row.slug = OldHost /\ row.space = Nobody /\ row.home = OldHost
      /\ SpaceOf(row) = OldHost
  BY DEF Rows, RouterConstants, SpaceOf
<1> HIDE DEF row
<1>3. /\ Snapshot(OldSite, row) \in Routes
      /\ Snapshot(OldSite, row).slug = OldHost /\ Snapshot(OldSite, row).site = OldSite
  BY <1>2 DEF Rows, Routes, RouterConstants, Snapshot
<1>4. /\ new \in Routes /\ new.schema = 3 /\ new.slug = OldHost /\ new.site = OldSite
      /\ DataOf(new) = OldHost
  BY <1>3 DEF Routes, DataOf
<1> HIDE DEF new
<1>5. \A h \in Hostnames :
        /\ entry(h) \in Entries /\ entry(h).since = 0 /\ entry(h).n = 0
        /\ entry(h).route # Nobody => entry(h).route = new
  BY <1>4 DEF Entries
<1> HIDE DEF entry
<1>6. \A h \in Hostnames : kv[h] = <<entry(h)>> /\ Len(kv[h]) = 1 /\ kv[h][1] = entry(h)
  BY <1>1
<1>7. \A h \in Hostnames : DOMAIN kv[h] = {1} /\ 2..Len(kv[h]) = {}
  BY <1>6
<1>8. kv \in [Hostnames -> Seq(Entries)]
  BY <1>1, <1>5
<1>9. sites \in [Sites -> Rows \cup {Nobody}]
  BY <1>1, <1>2
<1>10. RouterTypes
  BY <1>1, <1>8, <1>9 DEF RouterTypes, RouterConstants
<1>11. HomesInv
  <2>1. \A s \in Sites : sites[s] # Nobody => SpaceOf(sites[s]) = sites[s].home
    BY <1>1, <1>2
  <2>2. sites[OldSite] = row /\ row # Nobody
    BY <1>1, <1>2 DEF RouterConstants
  <2> QED
    BY <1>2, <1>4, <1>5, <1>6, <1>7, <2>1, <2>2 DEF HomesInv
<1>12. EntriesInv
  BY <1>1, <1>5, <1>6, <1>7 DEF EntriesInv
<1>13. SessionsInv /\ HeldInv
  BY <1>1 DEF SessionsInv, HeldInv
<1> QED
  BY <1>10, <1>11, <1>12, <1>13 DEF RouterInv

-----------------------------------------------------------------------------
(* Router: publications.                                                   *)

\* A publication adds an entry to one hostname and leaves all others.
LEMMA PublicationAdds ==
  ASSUME RouterConstants, RouterInv, NEW h \in Hostnames, NEW route \in Routes \cup {Nobody},
         PutRoute(h, route)
  PROVE  /\ hour \in Nat /\ published \in Nat /\ Len(kv[h]) \in Nat /\ Len(kv[h]) > 0
         /\ published' \in 0..MaxPublications /\ published' = published + 1
         /\ kv' \in [Hostnames -> Seq(Entries)]
         /\ \A g \in Hostnames \ {h} : kv'[g] = kv[g]
         /\ Len(kv'[h]) = Len(kv[h]) + 1
         /\ DOMAIN kv[h] = 1..Len(kv[h]) /\ DOMAIN kv'[h] = 1..(Len(kv[h]) + 1)
         /\ \A i \in DOMAIN kv[h] : kv'[h][i] = kv[h][i]
         /\ kv'[h][Len(kv[h]) + 1] = [route |-> route, since |-> hour, n |-> published']
<1> DEFINE new == [route |-> route, since |-> hour, n |-> published']
           old == kv[h]
<1>1. /\ published < MaxPublications /\ published' = published + 1
      /\ kv' = [kv EXCEPT ![h] = Append(old, new)]
  BY DEF PutRoute
<1>2. /\ hour \in Nat /\ published \in Nat /\ published' \in Nat
      /\ published' \in 0..MaxPublications
  BY <1>1 DEF RouterInv, RouterTypes, RouterConstants
<1>3. new \in Entries /\ old \in Seq(Entries) /\ kv \in [Hostnames -> Seq(Entries)]
  <2>1. new \in Entries
    BY <1>2 DEF Entries
  <2>2. kv \in [Hostnames -> Seq(Entries)]
    BY DEF RouterInv, RouterTypes
  <2> QED
    BY <2>1, <2>2
<1>4. old # <<>> /\ Len(old) > 0 /\ Len(old) \in Nat
  BY <1>3 DEF RouterInv, EntriesInv
<1> HIDE DEF new, old
<1>5. /\ Append(old, new) \in Seq(Entries) /\ Len(Append(old, new)) = Len(old) + 1
      /\ DOMAIN old = 1..Len(old) /\ DOMAIN Append(old, new) = 1..(Len(old) + 1)
      /\ \A i \in 1..Len(old) : Append(old, new)[i] = old[i]
      /\ Append(old, new)[Len(old) + 1] = new
  BY <1>3, <1>4
<1>6. kv'[h] = Append(old, new) /\ \A g \in Hostnames \ {h} : kv'[g] = kv[g]
  BY <1>1, <1>3
<1>7. kv' \in [Hostnames -> Seq(Entries)]
  BY <1>1, <1>3, <1>5
<1> QED
  BY <1>1, <1>2, <1>4, <1>5, <1>6, <1>7 DEF old, new


\* Whoever publishes: the rows that are there stay, with their homes, and the
\* new route is of a row that is there and names its home.
LEMMA PublicationKeepsInv ==
  ASSUME RouterConstants, RouterInv, NEW h \in Hostnames, NEW route \in Routes \cup {Nobody},
         PutRoute(h, route),
         sites' \in [Sites -> Rows \cup {Nobody}],
         \A s \in Sites : sites[s] # Nobody => sites'[s] # Nobody /\ sites'[s].home = sites[s].home,
         \A s \in Sites : sites'[s] # Nobody => SpaceOf(sites'[s]) = sites'[s].home,
         route # Nobody => sites'[route.site] # Nobody /\ DataOf(route) = sites'[route.site].home
  PROVE  RouterInv'
<1> DEFINE last == Len(kv[h]) + 1
           new == [route |-> route, since |-> hour, n |-> published']
<1>1. UNCHANGED <<hour, siteSession, callback, held>>
  BY DEF PutRoute
<1>2. /\ hour \in Nat /\ published \in Nat /\ Len(kv[h]) \in Nat /\ Len(kv[h]) > 0
      /\ published' \in 0..MaxPublications /\ published' = published + 1
      /\ kv' \in [Hostnames -> Seq(Entries)]
      /\ \A g \in Hostnames \ {h} : kv'[g] = kv[g]
      /\ Len(kv'[h]) = last
      /\ DOMAIN kv[h] = 1..Len(kv[h]) /\ DOMAIN kv'[h] = 1..last
      /\ \A i \in DOMAIN kv[h] : kv'[h][i] = kv[h][i]
      /\ kv'[h][last] = new
  BY PublicationAdds
<1>3. new.route = route /\ new.since = hour /\ new.n = published'
  OBVIOUS
<1>4. \A i \in DOMAIN kv'[h] : i \in DOMAIN kv[h] \/ i = last
  BY <1>2
<1> HIDE DEF new
<1>kept. \A g \in Hostnames : \A i \in DOMAIN kv[g] : i \in DOMAIN kv'[g] /\ kv'[g][i] = kv[g][i]
  <2> SUFFICES ASSUME NEW g \in Hostnames, NEW i \in DOMAIN kv[g]
               PROVE  i \in DOMAIN kv'[g] /\ kv'[g][i] = kv[g][i]
    OBVIOUS
  <2>1. CASE g = h
    <3>1. i \in DOMAIN kv[h]
      BY <2>1
    <3>2. i \in DOMAIN kv'[h] /\ kv'[h][i] = kv[h][i]
      BY <1>2, <3>1
    <3> QED
      BY <2>1, <3>2
  <2>2. CASE g # h
    BY <1>2, <2>2
  <2> QED
    BY <2>1, <2>2
<1>types. \A g \in Hostnames : \A i \in DOMAIN kv[g] :
        kv[g][i] \in Entries /\ kv[g][i].since \in Nat /\ kv[g][i].n \in Nat
  <2> SUFFICES ASSUME NEW g \in Hostnames, NEW i \in DOMAIN kv[g]
               PROVE  kv[g][i] \in Entries /\ kv[g][i].since \in Nat /\ kv[g][i].n \in Nat
    OBVIOUS
  <2>1. kv[g] \in Seq(Entries)
    BY DEF RouterInv, RouterTypes
  <2>2. kv[g][i] \in Entries
    BY <2>1
  <2> QED
    BY <2>2 DEF Entries
<1>5. RouterTypes'
  BY <1>1, <1>2 DEF RouterInv, RouterTypes
<1>6. HomesInv'
  <2>1. SUFFICES ASSUME NEW g \in Hostnames, NEW i \in DOMAIN kv'[g], kv'[g][i].route # Nobody
                 PROVE  /\ sites'[kv'[g][i].route.site] # Nobody
                        /\ DataOf(kv'[g][i].route) = sites'[kv'[g][i].route.site].home
    BY DEF HomesInv, DataOf, SpaceOf
  <2>2. CASE g = h /\ i = last
    BY <1>2, <1>3, <2>1, <2>2
  <2>3. CASE ~(g = h /\ i = last)
    <3>1. i \in DOMAIN kv[g] /\ kv'[g][i] = kv[g][i]
      BY <1>2, <1>4, <2>3
    <3>2. kv[g][i] \in Entries
      BY <3>1 DEF RouterInv, RouterTypes
    <3>3. kv[g][i].route \in Routes /\ kv[g][i].route.site \in Sites
      BY <2>1, <3>1, <3>2 DEF Entries, Routes
    <3>4. /\ sites[kv[g][i].route.site] # Nobody
          /\ DataOf(kv[g][i].route) = sites[kv[g][i].route.site].home
      BY <2>1, <3>1 DEF RouterInv, HomesInv
    <3> QED
      BY <3>1, <3>3, <3>4
  <2> QED
    BY <2>2, <2>3
<1>7. EntriesInv'
  <2>1. SUFFICES ASSUME NEW g \in Hostnames
                 PROVE  /\ Len(kv'[g]) > 0
                        /\ \A i \in DOMAIN kv'[g] :
                             kv'[g][i].since <= hour /\ kv'[g][i].n <= published'
                        /\ \A i \in 2..Len(kv'[g]) : kv'[g][i - 1].since <= kv'[g][i].since
    BY <1>1 DEF EntriesInv
  <2>2. /\ Len(kv[g]) > 0
        /\ \A i \in DOMAIN kv[g] : kv[g][i].since <= hour /\ kv[g][i].n <= published
        /\ \A i \in 2..Len(kv[g]) : kv[g][i - 1].since <= kv[g][i].since
    BY DEF RouterInv, EntriesInv
  <2>3. \A i \in DOMAIN kv[g] : kv[g][i].since \in Nat /\ kv[g][i].n \in Nat
    BY <1>types
  <2>4. CASE g # h
    BY <1>2, <2>2, <2>3, <2>4
  <2>5. CASE g = h
    <3>1. /\ Len(kv'[g]) > 0
          /\ \A i \in DOMAIN kv'[g] : kv'[g][i].since <= hour /\ kv'[g][i].n <= published'
      <4>1. ASSUME NEW i \in DOMAIN kv'[g]
            PROVE  kv'[g][i].since <= hour /\ kv'[g][i].n <= published'
        <5>1. CASE i = last
          BY <1>2, <1>3, <2>5, <5>1
        <5>2. CASE i # last
          <6>1. i \in DOMAIN kv[g] /\ kv'[g][i] = kv[g][i]
            BY <1>4, <1>kept, <2>5, <5>2
          <6>2. kv[g][i].since <= hour /\ kv[g][i].n <= published /\ kv[g][i].n \in Nat
            BY <2>2, <2>3, <6>1
          <6> QED
            BY <1>2, <6>1, <6>2
        <5> QED
          BY <5>1, <5>2
      <4> QED
        BY <1>2, <2>5, <4>1
    <3>2. ASSUME NEW i \in 2..Len(kv'[g]) PROVE kv'[g][i - 1].since <= kv'[g][i].since
      <4>1. i - 1 \in DOMAIN kv[h]
        BY <1>2, <2>5
      <4>2. CASE i = last
        BY <1>2, <1>3, <2>2, <2>5, <4>1, <4>2
      <4>3. CASE i # last
        <5>1. i \in 2..Len(kv[h]) /\ i \in DOMAIN kv[h]
          BY <1>2, <2>5, <4>3
        <5> QED
          BY <1>2, <2>2, <2>5, <4>1, <5>1
      <4> QED
        BY <4>2, <4>3
    <3> QED
      BY <3>1, <3>2
  <2> QED
    BY <2>4, <2>5
<1>8. SessionsInv'
  <2>1. ASSUME callback # Nobody
        PROVE  WasPublished(callback.route.site, callback.route.policy, published)'
    <3>1. PICK g \in Hostnames :
            \E i \in DOMAIN kv[g] :
              /\ kv[g][i].route # Nobody
              /\ kv[g][i].route.site = callback.route.site
              /\ kv[g][i].route.policy = callback.route.policy
              /\ kv[g][i].n <= published
      BY <2>1 DEF RouterInv, SessionsInv, WasPublished
    <3>2. PICK i \in DOMAIN kv[g] :
              /\ kv[g][i].route # Nobody
              /\ kv[g][i].route.site = callback.route.site
              /\ kv[g][i].route.policy = callback.route.policy
              /\ kv[g][i].n <= published
      BY <3>1
    <3>3. i \in DOMAIN kv'[g] /\ kv'[g][i] = kv[g][i]
      BY <1>kept
    <3>4. kv[g][i].n <= published'
      BY <1>2, <1>types, <3>2
    <3> QED
      BY <1>1, <3>2, <3>3, <3>4 DEF WasPublished
  <2>2. ASSUME NEW g \in Hostnames, siteSession[g] # Nobody
        PROVE  /\ siteSession[g].checked <= hour
               /\ WasPublished(siteSession[g].site, siteSession[g].policy, siteSession[g].signed)'
    <3> DEFINE s == siteSession[g]
    <3>1. s.checked <= hour /\ WasPublished(s.site, s.policy, s.signed)
      BY <2>2 DEF RouterInv, SessionsInv
    <3>2. siteSession' = siteSession
      BY <1>1
    <3>3. PICK f \in Hostnames :
            \E i \in DOMAIN kv[f] :
              /\ kv[f][i].route # Nobody
              /\ kv[f][i].route.site = s.site /\ kv[f][i].route.policy = s.policy
              /\ kv[f][i].n <= s.signed
      BY <3>1 DEF WasPublished
    <3>4. PICK i \in DOMAIN kv[f] :
              /\ kv[f][i].route # Nobody
              /\ kv[f][i].route.site = s.site /\ kv[f][i].route.policy = s.policy
              /\ kv[f][i].n <= s.signed
      BY <3>3
    <3>5. i \in DOMAIN kv'[f] /\ kv'[f][i] = kv[f][i]
      BY <1>kept
    <3> QED
      BY <3>1, <3>2, <3>4, <3>5 DEF WasPublished
  <2> QED
    BY <1>1, <2>1, <2>2 DEF SessionsInv
<1>9. HeldInv'
  <2>1. SUFFICES ASSUME held # Nobody
                 PROVE  /\ held.issued <= hour /\ held.expires = held.issued + CapabilityTtl
                        /\ held.user \in {Nobody, held.for}
                        /\ sites'[held.site] # Nobody /\ held.space = sites'[held.site].home
                        /\ \E g \in Hostnames : \E i \in DOMAIN kv'[g] :
                             /\ Covers(kv'[g][i].route, held)
                             /\ \/ i = Len(kv'[g])
                                \/ held.issued <= kv'[g][i + 1].since + KvDelay
    BY <1>1 DEF HeldInv, Covers
  <2>2. /\ held.issued <= hour /\ held.expires = held.issued + CapabilityTtl
        /\ held.user \in {Nobody, held.for}
        /\ sites[held.site] # Nobody /\ held.space = sites[held.site].home
        /\ \E g \in Hostnames : \E i \in DOMAIN kv[g] :
             /\ Covers(kv[g][i].route, held)
             /\ i = Len(kv[g]) \/ held.issued <= kv[g][i + 1].since + KvDelay
    BY <2>1 DEF RouterInv, HeldInv
  <2>3. held.site \in Sites /\ held.issued \in Nat /\ KvDelay \in Nat
    BY <2>1 DEF RouterInv, RouterTypes, RouterConstants
  <2>4. PICK g \in Hostnames :
          \E i \in DOMAIN kv[g] :
             /\ Covers(kv[g][i].route, held)
             /\ i = Len(kv[g]) \/ held.issued <= kv[g][i + 1].since + KvDelay
    BY <2>2
  <2>5. PICK i \in DOMAIN kv[g] :
             /\ Covers(kv[g][i].route, held)
             /\ i = Len(kv[g]) \/ held.issued <= kv[g][i + 1].since + KvDelay
    BY <2>4
  <2>6. i \in DOMAIN kv'[g] /\ kv'[g][i] = kv[g][i]
    BY <1>kept
  <2>7. i = Len(kv'[g]) \/ held.issued <= kv'[g][i + 1].since + KvDelay
    <3>1. CASE g # h
      BY <1>2, <2>5, <3>1
    <3>2. CASE g = h /\ i = Len(kv[h])
      <4>1. i + 1 = last /\ kv'[g][i + 1].since = hour
        BY <1>2, <1>3, <3>2
      <4>2. held.issued <= hour + KvDelay
        BY <1>2, <2>2, <2>3
      <4> QED
        BY <4>1, <4>2
    <3>3. CASE g = h /\ i # Len(kv[h])
      <4>1. i + 1 \in DOMAIN kv[h]
        BY <1>2, <3>3
      <4> QED
        BY <1>2, <2>5, <3>3, <4>1
    <3> QED
      BY <3>1, <3>2, <3>3
  <2> QED
    BY <2>2, <2>3, <2>5, <2>6, <2>7
<1> QED
  BY <1>5, <1>6, <1>7, <1>8, <1>9 DEF RouterInv

LEMMA CommitKeepsInv ==
  ASSUME RouterConstants, RouterInv, NEW s \in Sites, NEW h \in Hostnames, NEW row \in Rows,
         Commit(s, h, row), SpaceOf(row) = row.home,
         sites[s] # Nobody => row.home = sites[s].home
  PROVE  RouterInv'
<1> DEFINE route == Snapshot(s, row)
<1>1. sites' = [sites EXCEPT ![s] = row] /\ PutRoute(h, route)
  BY DEF Commit
<1>2. /\ route \in Routes /\ route.site = s /\ DataOf(route) = SpaceOf(row)
      /\ row # Nobody
  <2>1. SpaceOf(row) \in Hostnames
    BY DEF SpaceOf, Rows
  <2> QED
    BY <2>1 DEF Snapshot, SpaceOf, DataOf, Rows, Routes, RouterConstants
<1> HIDE DEF route
<1>3. sites'[s] = row /\ \A t \in Sites \ {s} : sites'[t] = sites[t]
  BY <1>1 DEF RouterInv, RouterTypes
<1>4. sites' \in [Sites -> Rows \cup {Nobody}]
  BY <1>1 DEF RouterInv, RouterTypes
<1>5. /\ \A t \in Sites : sites[t] # Nobody => sites'[t] # Nobody /\ sites'[t].home = sites[t].home
      /\ \A t \in Sites : sites'[t] # Nobody => SpaceOf(sites'[t]) = sites'[t].home
  BY <1>2, <1>3 DEF RouterInv, HomesInv
<1> QED
  BY <1>1, <1>2, <1>3, <1>4, <1>5, PublicationKeepsInv

LEMMA RoutesKeepInv ==
  ASSUME RouterConstants, RouterInv, NEW s \in Sites,
         \/ Redeploy(s) \/ ChangePolicy(s) \/ DeleteSite(s)
         \/ \E h \in Hostnames : Create(s, h) \/ Rename(s, h)
  PROVE  RouterInv'
<1> DEFINE old == sites[s]
<1>1. old \in Rows \cup {Nobody}
  BY DEF RouterInv, RouterTypes
<1>2. old # Nobody => old \in Rows /\ SpaceOf(old) = old.home /\ old.slug \in Hostnames
  BY <1>1 DEF RouterInv, HomesInv, Rows
<1>3. CASE Redeploy(s)
  BY <1>2, <1>3, CommitKeepsInv DEF Redeploy, IsLive
<1>4. CASE ChangePolicy(s)
  <2>1. PICK p \in Policies :
          Commit(s, old.slug,
                 [old EXCEPT !.policy = @ + 1, !.mode = p.mode, !.readers = p.readers])
    BY <1>4 DEF ChangePolicy
  <2> DEFINE next == old.policy + 1
             row == [old EXCEPT !.policy = next, !.mode = p.mode, !.readers = p.readers]
  <2>2. old \in Rows /\ SpaceOf(old) = old.home /\ old.slug \in Hostnames /\ old # Nobody
    BY <1>2, <1>4 DEF ChangePolicy, IsLive
  <2>3. p.mode \in {"anonymous", "protected"} /\ p.readers \in SUBSET Users
    BY DEF RouterConstants
  <2>4. Commit(s, old.slug, row)
    BY <2>1
  <2> HIDE DEF old
  <2>5. next \in Nat
    BY <2>2 DEF Rows
  <2> HIDE DEF next
  <2>6. row \in Rows /\ SpaceOf(row) = row.home /\ row.home = old.home
    BY <2>2, <2>3, <2>5 DEF Rows, SpaceOf
  <2> HIDE DEF row
  <2> QED
    BY <2>2, <2>4, <2>6, CommitKeepsInv DEF old
<1>5. CASE DeleteSite(s)
  <2> DEFINE row == [old EXCEPT !.live = FALSE]
  <2>1. Commit(s, old.slug, row)
    BY <1>5 DEF DeleteSite
  <2>2. old \in Rows /\ SpaceOf(old) = old.home /\ old.slug \in Hostnames /\ old # Nobody
    BY <1>2, <1>5 DEF DeleteSite, IsLive
  <2> HIDE DEF old
  <2>3. row \in Rows /\ SpaceOf(row) = row.home /\ row.home = old.home
    BY <2>2 DEF Rows, SpaceOf
  <2> HIDE DEF row
  <2> QED
    BY <2>1, <2>2, <2>3, CommitKeepsInv DEF old
<1>6. CASE \E h \in Hostnames : Create(s, h)
  <2>1. PICK h \in Hostnames : Create(s, h)
    BY <1>6
  <2>2. PICK p \in Policies :
          Commit(s, h, [slug |-> h, space |-> h, home |-> h, policy |-> 1, live |-> TRUE,
                        mode |-> p.mode, readers |-> p.readers])
    BY <2>1 DEF Create
  <2> DEFINE row == [slug |-> h, space |-> h, home |-> h, policy |-> 1, live |-> TRUE,
                     mode |-> p.mode, readers |-> p.readers]
  <2>3. row \in Rows /\ SpaceOf(row) = row.home /\ sites[s] = Nobody
    BY <2>1 DEF Create, Rows, SpaceOf, RouterConstants
  <2> HIDE DEF row
  <2> QED
    BY <2>2, <2>3, CommitKeepsInv DEF row
<1>7. CASE \E h \in Hostnames : Rename(s, h)
  <2>1. PICK h \in Hostnames : Rename(s, h)
    BY <1>7
  <2> DEFINE space == IF old.space = Nobody THEN old.slug ELSE old.space
             row == [old EXCEPT !.slug = h, !.space = space]
  <2>2. Commit(s, h, row)
    BY <2>1 DEF Rename
  <2>3. old \in Rows /\ SpaceOf(old) = old.home /\ old # Nobody
    BY <1>2, <2>1 DEF Rename, IsLive
  <2> HIDE DEF old
  <2>4. space = SpaceOf(old) /\ space \in Hostnames /\ space # Nobody
    BY <2>3 DEF SpaceOf, Rows, RouterConstants
  <2> HIDE DEF space
  <2>5. row \in Rows /\ SpaceOf(row) = row.home /\ row.home = old.home
    BY <2>3, <2>4 DEF Rows, SpaceOf
  <2> HIDE DEF row
  <2> QED
    BY <2>2, <2>3, <2>5, CommitKeepsInv DEF old
<1> QED
  BY <1>3, <1>4, <1>5, <1>6, <1>7

LEMMA WithdrawalKeepsInv ==
  ASSUME RouterConstants, RouterInv, NEW h \in Hostnames, WithdrawRoute(h)
  PROVE  RouterInv'
<1>1. PutRoute(h, Nobody) /\ sites' = sites
  BY DEF WithdrawRoute
<1>2. /\ sites' \in [Sites -> Rows \cup {Nobody}]
      /\ \A s \in Sites : sites'[s] # Nobody => SpaceOf(sites'[s]) = sites'[s].home
  BY <1>1 DEF RouterInv, RouterTypes, HomesInv
<1> QED
  BY <1>1, <1>2, PublicationKeepsInv

-----------------------------------------------------------------------------
(* Router: sessions and capabilities.                                      *)

\* What a router may see was published and is, or was a while ago, the last.
LEMMA VisibleFacts ==
  ASSUME RouterConstants, RouterInv, NEW h \in Hostnames, NEW route \in Visible(h)
  PROVE  /\ route \in Routes /\ route # Nobody
         /\ \E i \in DOMAIN kv[h] :
              /\ kv[h][i].route = route /\ kv[h][i].n <= published
              /\ i = Len(kv[h]) \/ hour < kv[h][i + 1].since + KvDelay
<1>1. PICK i \in DOMAIN kv[h] :
        /\ kv[h][i].route = route /\ route # Nobody
        /\ i = Len(kv[h]) \/ hour < kv[h][i + 1].since + KvDelay
  BY DEF Visible
<1>2. kv[h] \in Seq(Entries)
  BY DEF RouterInv, RouterTypes
<1>3. kv[h][i] \in Entries
  BY <1>2
<1> QED
  BY <1>1, <1>3 DEF Entries, RouterInv, EntriesInv

LEMMA HourKeepsInv == ASSUME RouterConstants, RouterInv, Hour PROVE RouterInv'
<1>1. hour \in 0..MaxHours /\ hour' = hour + 1 /\ hour' \in 0..MaxHours
  BY DEF Hour, RouterInv, RouterTypes, RouterConstants
<1>2. UNCHANGED <<sites, kv, published, siteSession, callback, held>>
  BY DEF Hour, control
<1>3. RouterTypes' /\ HomesInv'
  BY <1>1, <1>2 DEF RouterInv, RouterTypes, HomesInv
<1>4. EntriesInv'
  <2>1. \A h \in Hostnames : \A i \in DOMAIN kv[h] : kv[h][i].since \in Nat
    <3> SUFFICES ASSUME NEW h \in Hostnames, NEW i \in DOMAIN kv[h] PROVE kv[h][i].since \in Nat
      OBVIOUS
    <3>1. kv[h] \in Seq(Entries)
      BY DEF RouterInv, RouterTypes
    <3>2. kv[h][i] \in Entries
      BY <3>1
    <3> QED
      BY <3>2 DEF Entries
  <2> QED
    BY <1>1, <1>2, <2>1 DEF RouterInv, EntriesInv
<1>5. SessionsInv'
  <2>1. \A h \in Hostnames :
          siteSession[h] # Nobody => siteSession[h].checked \in Nat
    BY DEF RouterInv, RouterTypes
  <2> QED
    BY <1>1, <1>2, <2>1 DEF RouterInv, SessionsInv, WasPublished
<1>6. HeldInv'
  BY <1>1, <1>2 DEF RouterInv, RouterTypes, HeldInv, Covers
<1> QED
  BY <1>3, <1>4, <1>5, <1>6 DEF RouterInv

LEMMA CallbacksKeepInv ==
  ASSUME RouterConstants, RouterInv,
         \/ \E h \in Hostnames : BeginCallback(h)
         \/ \E u \in Users : FinishCallback(u)
         \/ IdentityFails
  PROVE  RouterInv'
<1>1. UNCHANGED <<hour, sites, kv, published, held>>
  BY DEF BeginCallback, FinishCallback, IdentityFails, control
<1>2. HomesInv' /\ EntriesInv' /\ HeldInv'
  BY <1>1 DEF RouterInv, HomesInv, EntriesInv, HeldInv, Covers
<1>3. CASE \E h \in Hostnames : BeginCallback(h)
  <2>a. PICK h \in Hostnames : BeginCallback(h)
    BY <1>3
  <2>1. PICK route \in Visible(h) : callback' = [host |-> h, route |-> route]
    BY <2>a DEF BeginCallback
  <2>2. siteSession' = siteSession
    BY <1>3 DEF BeginCallback
  <2>3. PICK i \in DOMAIN kv[h] : /\ route \in Routes /\ route # Nobody
                                  /\ kv[h][i].route = route /\ kv[h][i].n <= published
    BY VisibleFacts
  <2>4. callback'.route = route /\ callback' \in [host : Hostnames, route : Routes]
    BY <2>1, <2>3
  <2>5. RouterTypes'
    BY <1>1, <2>2, <2>4 DEF RouterInv, RouterTypes
  <2>6. WasPublished(route.site, route.policy, published)
    BY <2>3 DEF WasPublished
  <2>7. SessionsInv'
    BY <1>1, <2>2, <2>4, <2>6 DEF RouterInv, SessionsInv, WasPublished
  <2> QED
    BY <1>2, <2>5, <2>7 DEF RouterInv
<1>4. CASE \E u \in Users : FinishCallback(u)
  <2>1. PICK u \in Users : FinishCallback(u)
    BY <1>4
  <2> DEFINE route == callback.route
             made == [site |-> route.site, policy |-> route.policy, user |-> u,
                         checked |-> hour, signed |-> published]
  <2>2. /\ callback # Nobody /\ callback' = Nobody
        /\ siteSession' = [siteSession EXCEPT ![callback.host] = made]
             \/ siteSession' = siteSession
    BY <2>1 DEF FinishCallback
  <2>3. /\ callback.host \in Hostnames /\ route \in Routes
        /\ hour \in Nat /\ published \in Nat /\ hour <= hour
    BY <2>2 DEF RouterInv, RouterTypes, RouterConstants
  <2>4. made \in [site : Sites, policy : Nat, user : Users, checked : Nat, signed : Nat]
    BY <2>3 DEF Routes
  <2>5. WasPublished(route.site, route.policy, published)
    BY <2>2 DEF RouterInv, SessionsInv
  <2>6. /\ made.site = route.site /\ made.policy = route.policy /\ made.checked = hour
        /\ made.signed = published
    OBVIOUS
  <2> HIDE DEF route, made
  <2>7. RouterTypes'
    <3>1. siteSession' \in [Hostnames ->
            [site : Sites, policy : Nat, user : Users, checked : Nat, signed : Nat] \cup {Nobody}]
      BY <2>2, <2>4 DEF RouterInv, RouterTypes
    <3> QED
      BY <1>1, <2>2, <3>1 DEF RouterInv, RouterTypes
  <2>8. SessionsInv'
    <3>1. SUFFICES ASSUME NEW h \in Hostnames, siteSession'[h] # Nobody
                   PROVE  /\ siteSession'[h].checked <= hour
                          /\ WasPublished(siteSession'[h].site, siteSession'[h].policy,
                                          siteSession'[h].signed)
      BY <1>1, <2>2 DEF SessionsInv, WasPublished
    <3>2. siteSession'[h] = made \/ siteSession'[h] = siteSession[h]
      BY <2>2 DEF RouterInv, RouterTypes
    <3>3. CASE siteSession'[h] = made
      BY <2>3, <2>5, <2>6, <3>3
    <3>4. CASE siteSession'[h] = siteSession[h]
      BY <3>1, <3>4 DEF RouterInv, SessionsInv
    <3> QED
      BY <3>2, <3>3, <3>4
  <2> QED
    BY <1>2, <2>7, <2>8 DEF RouterInv
<1>5. CASE IdentityFails
  <2>1. callback' = Nobody /\ siteSession' = siteSession
    BY <1>5 DEF IdentityFails
  <2> QED
    BY <1>1, <1>2, <2>1 DEF RouterInv, RouterTypes, SessionsInv, WasPublished
<1> QED
  BY <1>3, <1>4, <1>5

LEMMA SignKeepsInv ==
  ASSUME RouterConstants, RouterInv, NEW h \in Hostnames, NEW scope \in {"site", "user"},
         Sign(h, scope)
  PROVE  RouterInv'
<1>1. UNCHANGED <<hour, sites, kv, published, siteSession, callback>>
  BY DEF Sign, control
<1>2. PICK route \in Visible(h) :
        /\ Serves(route, siteSession[h])
        /\ LET user == IF route.mode = "anonymous" THEN Nobody ELSE siteSession[h].user IN
             /\ scope = "user" => user # Nobody
             /\ held' = [space |-> IF route.schema = 4 THEN route.space ELSE route.slug,
                         site |-> route.site,
                         user |-> IF scope = "user" THEN user ELSE Nobody,
                         issued |-> hour, expires |-> hour + CapabilityTtl, for |-> user]
  BY DEF Sign
<1> DEFINE user == IF route.mode = "anonymous" THEN Nobody ELSE siteSession[h].user
           whose == IF scope = "user" THEN user ELSE Nobody
           new == [space |-> DataOf(route), site |-> route.site, user |-> whose,
                   issued |-> hour, expires |-> hour + CapabilityTtl, for |-> user]
<1>3. held' = new
  BY <1>2 DEF DataOf
<1>4. PICK i \in DOMAIN kv[h] : /\ route \in Routes /\ route # Nobody
                                /\ kv[h][i].route = route
                                /\ i = Len(kv[h]) \/ hour < kv[h][i + 1].since + KvDelay
  BY VisibleFacts
<1>5. /\ hour \in Nat /\ hour <= hour /\ CapabilityTtl \in Nat /\ hour + CapabilityTtl \in Nat
      /\ KvDelay \in Nat
  BY DEF RouterInv, RouterTypes, RouterConstants
<1>6. route.live
  BY <1>2 DEF Serves
<1>7. IF user = Nobody THEN route.mode = "anonymous"
                       ELSE route.mode = "protected" /\ user \in route.readers /\ user \in Users
  <2>1. CASE route.mode = "anonymous"
    BY <2>1
  <2>2. CASE route.mode # "anonymous"
    <3>1. /\ route.mode = "protected" /\ siteSession[h] # Nobody
          /\ siteSession[h].user \in route.readers
      BY <1>2, <2>2 DEF Serves, Admits
    <3>2. siteSession[h].user \in Users
      BY <3>1 DEF RouterInv, RouterTypes
    <3> QED
      BY <2>2, <3>1, <3>2 DEF RouterConstants
  <2> QED
    BY <2>1, <2>2
<1>8. /\ sites[route.site] # Nobody /\ DataOf(route) = sites[route.site].home
  BY <1>4 DEF RouterInv, HomesInv
<1>9. whose \in {Nobody, user} /\ user \in Users \cup {Nobody} /\ whose \in Users \cup {Nobody}
  BY <1>7
<1> HIDE DEF user, whose
<1>10. DataOf(route) \in Hostnames /\ route.site \in Sites
  BY <1>4 DEF DataOf, Routes
<1>11. /\ new \in [space : Hostnames, site : Sites, user : Users \cup {Nobody}, issued : Nat,
                   expires : Nat, for : Users \cup {Nobody}]
       /\ new.space = DataOf(route) /\ new.site = route.site /\ new.user = whose
       /\ new.issued = hour /\ new.expires = hour + CapabilityTtl /\ new.for = user
  BY <1>5, <1>9, <1>10
<1> HIDE DEF new
<1>12. Covers(route, new)
  BY <1>4, <1>6, <1>7, <1>11 DEF Covers
<1>13. i = Len(kv[h]) \/ hour <= kv[h][i + 1].since + KvDelay
  <2>1. CASE i = Len(kv[h])
    BY <2>1
  <2>2. CASE i # Len(kv[h])
    <3>1. kv[h] \in Seq(Entries)
      BY DEF RouterInv, RouterTypes
    <3>2. i + 1 \in DOMAIN kv[h]
      BY <1>4, <2>2, <3>1
    <3>3. kv[h][i + 1] \in Entries
      BY <3>1, <3>2
    <3>4. kv[h][i + 1].since \in Nat
      BY <3>3 DEF Entries
    <3> QED
      BY <1>4, <1>5, <2>2, <3>4
  <2> QED
    BY <2>1, <2>2
<1>14. HeldInv'
  BY <1>1, <1>3, <1>4, <1>5, <1>8, <1>9, <1>11, <1>12, <1>13 DEF HeldInv, Covers
<1>15. RouterTypes' /\ HomesInv' /\ EntriesInv' /\ SessionsInv'
  BY <1>1, <1>3, <1>11 DEF RouterInv, RouterTypes, HomesInv, EntriesInv, SessionsInv, WasPublished
<1> QED
  BY <1>14, <1>15 DEF RouterInv

LEMMA RouterNextInv ==
  ASSUME RouterConstants PROVE RouterInv /\ [RouterNext]_routerVars => RouterInv'
<1> SUFFICES ASSUME RouterInv, [RouterNext]_routerVars PROVE RouterInv'
  OBVIOUS
<1>1. CASE UNCHANGED routerVars
  BY <1>1 DEF routerVars, RouterInv, RouterTypes, HomesInv, EntriesInv, SessionsInv, HeldInv,
              WasPublished, Covers
<1>2. CASE RouterNext
  BY <1>2, HourKeepsInv, RoutesKeepInv, WithdrawalKeepsInv, CallbacksKeepInv, SignKeepsInv
  DEF RouterNext
<1> QED
  BY <1>1, <1>2

\* The rows, routes, sessions and capabilities fit together (buildRouteSnapshot,
\* signSessionJwt, signKvCapability).
THEOREM RouterTypeCorrect == ASSUME RouterConstants PROVE RouterSpec => []RouterTypeOK
<1>1. ASSUME RouterInv PROVE RouterTypeOK
  <2>1. \A s \in Sites : sites[s] # Nobody => sites[s].slug \in Hostnames
    BY <1>1 DEF RouterInv, RouterTypes, Rows
  <2>2. \A h \in Hostnames :
          siteSession[h] # Nobody => siteSession[h].user \in Users /\ siteSession[h].checked <= hour
    BY <1>1 DEF RouterInv, RouterTypes, SessionsInv
  <2>3. held # Nobody => held.site \in Sites /\ held.issued <= hour
    BY <1>1 DEF RouterInv, RouterTypes, HeldInv
  <2> QED
    BY <1>1, <2>1, <2>2, <2>3 DEF RouterInv, RouterTypes, EntriesInv, RouterTypeOK
<1> QED
  BY <1>1, RouterInitInv, RouterNextInv, PTL DEF RouterSpec

\* Whom a protected route serves signed in under its policy, and data is
\* touched for who was admitted by the site's own route a short while ago,
\* whatever was redeployed, renamed, deleted, created and delayed meanwhile
\* (evaluateAccessPolicy, signKvCapability, validateClaims).
THEOREM AccessIsByPolicy == ASSUME RouterConstants PROVE RouterSpec => []AccessFollowsPolicy
<1>1. ASSUME RouterInv PROVE SignedInUnderThePolicy
  <2> SUFFICES ASSUME NEW h \in Hostnames, NEW route \in Visible(h), route.mode = "protected",
                      Serves(route, siteSession[h])
               PROVE  WasPublished(route.site, route.policy, siteSession[h].signed)
    BY DEF SignedInUnderThePolicy, WasPublished
  <2>1. /\ siteSession[h] # Nobody /\ siteSession[h].site = route.site
        /\ siteSession[h].policy = route.policy
    BY DEF Serves, Admits
  <2> QED
    BY <1>1, <2>1 DEF RouterInv, SessionsInv
<1>2. ASSUME RouterInv PROVE DataIsForTheAdmitted
  <2> SUFFICES ASSUME held # Nobody, Opens(held) PROVE DataIsForTheAdmitted
    BY DEF DataIsForTheAdmitted
  <2>1. /\ Root(held).space = held.space /\ Root(held).site = held.site
        /\ Root(held).user = held.user
    BY DEF Root
  <2>2. /\ held.expires = held.issued + CapabilityTtl
        /\ held.user \in {Nobody, held.for} /\ held.space = sites[held.site].home
        /\ \E h \in Hostnames : \E i \in DOMAIN kv[h] :
             /\ Covers(kv[h][i].route, held)
             /\ i = Len(kv[h]) \/ held.issued <= kv[h][i + 1].since + KvDelay
    BY <1>2 DEF RouterInv, HeldInv
  <2>3. PICK h \in Hostnames :
          \E i \in DOMAIN kv[h] :
            /\ Covers(kv[h][i].route, held)
            /\ i = Len(kv[h]) \/ held.issued <= kv[h][i + 1].since + KvDelay
    BY <2>2
  <2>4. PICK i \in DOMAIN kv[h] :
          /\ Covers(kv[h][i].route, held)
          /\ i = Len(kv[h]) \/ held.issued <= kv[h][i + 1].since + KvDelay
    BY <2>3
  <2>5. PICK skew \in (-Skew)..Skew : CapabilityIsGood(held, hour + skew)
    BY DEF Opens
  <2>6. /\ hour \in Nat /\ held.issued \in Nat /\ CapabilityTtl \in Nat /\ Skew \in Nat
        /\ KvDelay \in Nat
    BY <1>2 DEF RouterInv, RouterTypes, RouterConstants
  <2>7. hour < held.issued + CapabilityTtl + Skew
    <3>1. hour + skew < held.issued + CapabilityTtl
      BY <2>2, <2>5 DEF CapabilityIsGood
    <3>2. skew \in Int /\ -Skew <= skew
      BY <2>6
    <3> QED
      BY <2>6, <3>1, <3>2
  <2>8. i = Len(kv[h]) \/ hour < kv[h][i + 1].since + KvDelay + CapabilityTtl + Skew
    <3>1. CASE i = Len(kv[h])
      BY <3>1
    <3>2. CASE i # Len(kv[h])
      <4>1. kv[h] \in Seq(Entries)
        BY <1>2 DEF RouterInv, RouterTypes
      <4>2. i + 1 \in DOMAIN kv[h]
        BY <3>2, <4>1
      <4>3. kv[h][i + 1] \in Entries
        BY <4>1, <4>2
      <4>4. kv[h][i + 1].since \in Nat
        BY <4>3 DEF Entries
      <4> DEFINE issued == held.issued
                 since == kv[h][i + 1].since
      <4>5. issued <= since + KvDelay
        BY <2>4, <3>2
      <4>6. issued \in Nat /\ since \in Nat /\ hour < issued + CapabilityTtl + Skew
        BY <2>6, <2>7, <4>4
      <4> HIDE DEF issued, since
      <4>7. hour < since + KvDelay + CapabilityTtl + Skew
        BY <2>6, <4>5, <4>6
      <4> QED
        BY <4>7 DEF since
    <3> QED
      BY <3>1, <3>2
  <2> QED
    BY <2>1, <2>2, <2>4, <2>8 DEF DataIsForTheAdmitted, Covers
<1>3. RouterInv => AccessFollowsPolicy
  BY <1>1, <1>2 DEF AccessFollowsPolicy
<1> QED
  BY <1>3, RouterInitInv, RouterNextInv, PTL DEF RouterSpec

-----------------------------------------------------------------------------
(* Listings.                                                               *)

\* The walk so far: what was given or is in hand is from before the position,
\* and of the keys before it nothing that stayed is missing.
WalkInv ==
  /\ again = {}
  /\ got \subseteq Matching
  /\ \A k \in got : done \/ k <= cursor
  /\ \A k \in throughout \cap Matching : done \/ k <= cursor => k \in got
  /\ call # NoCall =>
       /\ ~done /\ cursor <= call.at
       /\ \A k \in call.keys : k \in Matching /\ cursor < k /\ k <= call.at
       /\ \A k \in throughout \cap Matching : cursor < k /\ k <= call.at => k \in call.keys

ListInv == ListTypeOK /\ WalkInv

LEMMA ListInvInit == ListInit => ListInv
<1> SUFFICES ASSUME ListInit PROVE ListInv
  OBVIOUS
<1>1. \A k \in throughout : ~(k <= 0)
  BY ListAssumption DEF ListInit, Keys
<1>2. ListTypeOK
  <2>1. stored \subseteq Keys /\ throughout \subseteq stored /\ cursor \in 0..LastKey
    BY ListAssumption DEF ListInit
  <2> QED BY <2>1 DEF ListInit, ListTypeOK
<1> QED BY <1>1, <1>2 DEF ListInit, ListInv, WalkInv

\* A page is as long as was asked for, so nothing that it has is cut off.
LEMMA NothingIsCutOff ==
  ASSUME ListTypeOK, call # NoCall, NEW chunk \in Pages(call.at, ProviderLimit(call.keys))
  PROVE  /\ chunk.items = UpTo(After(call.at), chunk.end)
         /\ chunk.end \in After(call.at) \cup {call.at}
         /\ chunk.complete = (\A k \in After(call.at) : k <= chunk.end)
         /\ Kept(call.keys, chunk.items) = call.keys \cup (chunk.items \cap Matching)
<1>1. /\ call.keys \subseteq Keys /\ limit \in Nat /\ LastKey \in Nat /\ PageLimit \in Nat
      /\ stored \subseteq Keys
  BY ListAssumption DEF ListTypeOK, Calls
<1>2. PICK end \in After(call.at) \cup {call.at} :
        /\ Cardinality(UpTo(After(call.at), end)) <= ProviderLimit(call.keys)
        /\ chunk = [items |-> UpTo(After(call.at), end), end |-> end,
                   complete |-> \A k \in After(call.at) : k <= end]
  BY DEF Pages
<1> DEFINE items == UpTo(After(call.at), end)
           all == call.keys \cup (items \cap Matching)
<1>3. /\ chunk.items = items /\ chunk.end = end
      /\ chunk.complete = (\A k \in After(call.at) : k <= end)
  BY <1>2
<1>4. IsFiniteSet(Keys)
  BY <1>1, FS_Interval DEF Keys
<1>5. /\ IsFiniteSet(call.keys) /\ IsFiniteSet(items) /\ IsFiniteSet(items \cap Matching)
  <2>1. items \subseteq Keys /\ items \cap Matching \subseteq Keys
    BY <1>1 DEF UpTo, After
  <2> QED BY <1>1, <1>4, <2>1, FS_Subset
<1>6. /\ Cardinality(call.keys) \in Nat /\ Cardinality(items) \in Nat
      /\ Cardinality(items \cap Matching) \in Nat
  BY <1>5, FS_CardinalityType
<1>7. Cardinality(items \cap Matching) <= Cardinality(items)
  BY <1>5, FS_Subset
<1>8. Cardinality(items) <= limit - Cardinality(call.keys)
  BY <1>1, <1>2, <1>6 DEF ProviderLimit
<1> HIDE DEF items
<1>9. IsFiniteSet(all) /\ Cardinality(all) <= limit /\ Cardinality(all) \in Nat
  <2>1. /\ IsFiniteSet(all)
        /\ Cardinality(all) = Cardinality(call.keys) + Cardinality(items \cap Matching)
                              - Cardinality(call.keys \cap (items \cap Matching))
    BY <1>5, FS_Union
  <2>2. IsFiniteSet(call.keys \cap (items \cap Matching))
    BY <1>5, FS_Intersection
  <2>3. Cardinality(call.keys \cap (items \cap Matching)) \in Nat
    BY <2>2, FS_CardinalityType
  <2>4. Cardinality(all) \in Nat
    BY <2>1, FS_CardinalityType
  <2> HIDE DEF all
  <2> QED BY <1>1, <1>6, <1>7, <1>8, <2>1, <2>3, <2>4
<1>10. ASSUME NEW k \in all PROVE Cardinality(UpTo(all, k)) <= limit
  <2>1. UpTo(all, k) \subseteq all
    BY DEF UpTo
  <2>2. Cardinality(UpTo(all, k)) <= Cardinality(all) /\ IsFiniteSet(UpTo(all, k))
    BY <1>9, <2>1, FS_Subset
  <2>3. Cardinality(UpTo(all, k)) \in Nat
    BY <2>2, FS_CardinalityType
  <2> QED BY <1>1, <1>9, <2>2, <2>3
<1>11. Kept(call.keys, items) = all
  BY <1>10 DEF Kept
<1> QED BY <1>2, <1>3, <1>11 DEF items

LEMMA ReadPageKeeps == ASSUME ListInv, ReadPage PROVE ListInv'
<1>1. /\ call # NoCall /\ call \in Calls /\ ListTypeOK
      /\ UNCHANGED <<stored, limit, throughout>>
  BY DEF ListInv, ListTypeOK, ReadPage
<1>2. PICK chunk \in Pages(call.at, ProviderLimit(call.keys)) :
        LET kept == Kept(call.keys, chunk.items)
            pages == call.pages + 1
        IN /\ again' = again \cup ((got \cup call.keys) \cap chunk.items)
           /\ IF chunk.complete \/ Cardinality(kept) >= limit \/ pages >= MaxPages
              THEN Answer(kept, chunk.end, chunk.complete)
              ELSE /\ call' = [at |-> chunk.end, keys |-> kept, pages |-> pages]
                   /\ UNCHANGED <<got, cursor, done>>
  BY DEF ReadPage
<1> DEFINE kept == Kept(call.keys, chunk.items)
<1>3. /\ chunk.items = UpTo(After(call.at), chunk.end)
      /\ chunk.end \in After(call.at) \cup {call.at}
      /\ chunk.complete = (\A k \in After(call.at) : k <= chunk.end)
      /\ kept = call.keys \cup (chunk.items \cap Matching)
  BY <1>1, NothingIsCutOff
<1> HIDE DEF kept
<1>4. /\ LastKey \in Nat /\ MaxPages \in Nat /\ stored \subseteq Keys /\ throughout \subseteq stored
      /\ Keys \subseteq 0..LastKey /\ cursor \in 0..LastKey /\ call.at \in 0..LastKey
      /\ chunk.end \in 0..LastKey /\ chunk.end >= call.at
      /\ call.keys \subseteq Keys /\ kept \subseteq Keys /\ got \subseteq Keys
  <2>1. /\ LastKey \in Nat /\ MaxPages \in Nat /\ stored \subseteq Keys
        /\ throughout \subseteq stored /\ Keys \subseteq 0..LastKey /\ cursor \in 0..LastKey
        /\ got \subseteq Keys /\ call.at \in 0..LastKey /\ call.keys \subseteq Keys
    BY <1>1, ListAssumption DEF ListTypeOK, Calls, Keys
  <2>2. /\ chunk.end \in 0..LastKey /\ chunk.end >= call.at
    <3>1. chunk.end = call.at \/ (chunk.end \in Keys /\ chunk.end > call.at)
      BY <1>3, <2>1 DEF After
    <3>2. CASE chunk.end = call.at
      BY <2>1, <3>2
    <3>3. CASE chunk.end \in Keys /\ chunk.end > call.at
      <4>1. chunk.end \in 0..LastKey
        BY <2>1, <3>3
      <4> QED BY <2>1, <3>3, <4>1
    <3> QED BY <3>1, <3>2, <3>3
  <2>3. kept \subseteq Keys
    BY <1>3, <2>1 DEF UpTo, After
  <2> QED BY <2>1, <2>2, <2>3
<1>5. \A k \in chunk.items : k \in stored /\ call.at < k /\ k <= chunk.end
  BY <1>3 DEF UpTo, After
<1>6. \A k \in stored : call.at < k /\ k <= chunk.end => k \in chunk.items
  BY <1>3 DEF UpTo, After
<1>7. (got \cup call.keys) \cap chunk.items = {}
  <2>1. \A k \in got \cup call.keys : k <= call.at
    BY <1>1, <1>4 DEF ListInv, WalkInv, Keys
  <2>2. \A k \in chunk.items : k \in 0..LastKey /\ call.at < k
    BY <1>4, <1>5
  <2>3. ASSUME NEW k \in got \cup call.keys, k \in chunk.items PROVE FALSE
    BY <1>4, <2>1, <2>2, <2>3
  <2> QED BY <2>3
<1>8. again' = {} /\ again' = again
  BY <1>2, <1>7 DEF ListInv, WalkInv
<1>9. \A k \in kept : k \in Matching /\ cursor < k /\ k <= chunk.end
  BY <1>1, <1>3, <1>4, <1>5 DEF ListInv, WalkInv, Keys
<1>10. \A k \in throughout \cap Matching : cursor < k /\ k <= chunk.end => k \in kept
  BY <1>1, <1>3, <1>4, <1>6 DEF ListInv, WalkInv, Keys
<1>11. CASE Answer(kept, chunk.end, chunk.complete)
  <2>1. /\ got' = got \cup kept /\ cursor' = IF chunk.complete THEN cursor ELSE chunk.end
        /\ done' = chunk.complete /\ call' = NoCall
    BY <1>11 DEF Answer
  <2>2. ListTypeOK'
    <3>1. chunk.complete \in BOOLEAN
      BY <1>3
    <3>2. cursor' \in 0..LastKey /\ got' \subseteq Keys
      BY <1>4, <2>1
    <3> QED BY <1>1, <1>8, <2>1, <3>1, <3>2 DEF ListTypeOK
  <2>3. \A k \in got' : k \in Matching /\ (done' \/ k <= cursor')
    BY <1>1, <1>4, <1>9, <2>1 DEF ListInv, WalkInv, Keys
  <2>4. ASSUME NEW k \in throughout \cap Matching, chunk.complete \/ k <= chunk.end
        PROVE  k \in got'
    <3>0. k \in stored /\ k \in Keys
      BY <1>4
    <3>1. k \in stored /\ k \in Int
      BY <3>0 DEF Keys
    <3>2. k <= chunk.end
      BY <1>3, <1>4, <2>4, <3>1 DEF After
    <3>3. k <= cursor => k \in got
      BY DEF ListInv, WalkInv
    <3> QED BY <1>4, <1>10, <2>1, <3>1, <3>2, <3>3
  <2>5. \A k \in throughout' \cap Matching : done' \/ k <= cursor' => k \in got'
    BY <1>1, <2>1, <2>4
  <2> QED BY <1>8, <2>1, <2>2, <2>3, <2>5 DEF ListInv, WalkInv
<1>12. CASE /\ ~(chunk.complete \/ Cardinality(kept) >= limit \/ call.pages + 1 >= MaxPages)
            /\ call' = [at |-> chunk.end, keys |-> kept, pages |-> call.pages + 1]
            /\ UNCHANGED <<got, cursor, done>>
  <2>1. /\ call'.at = chunk.end /\ call'.keys = kept /\ call'.pages = call.pages + 1
    BY <1>12
  <2>2. call.pages \in 0..(MaxPages - 1)
    BY <1>1 DEF Calls
  <2>3. call' \in Calls /\ Cardinality(call'.keys) < limit
    <3>1. call.pages + 1 \in 0..(MaxPages - 1)
      <4>1. ~(call.pages + 1 >= MaxPages)
        BY <1>12
      <4>2. call.pages \in Nat /\ call.pages + 1 < MaxPages
        BY <1>4, <2>2, <4>1
      <4> QED BY <1>4, <4>2
    <3>2. IsFiniteSet(kept)
      <4>1. IsFiniteSet(Keys)
        BY <1>4, FS_Interval DEF Keys
      <4> QED BY <1>4, <4>1, FS_Subset
    <3>3. Cardinality(kept) \in Nat /\ limit \in Nat
      BY <1>1, <3>2, FS_CardinalityType, ListAssumption DEF ListTypeOK
    <3>4. Cardinality(kept) < limit
      BY <1>12, <3>3
    <3> QED BY <1>4, <1>12, <2>1, <3>1, <3>4 DEF Calls
  <2>4. ListTypeOK'
    BY <1>1, <1>8, <1>12, <2>3 DEF ListTypeOK
  <2>5. ~done /\ cursor <= chunk.end
    BY <1>1, <1>4 DEF ListInv, WalkInv
  <2>6. WalkInv'
    BY <1>1, <1>8, <1>9, <1>10, <1>12, <2>1, <2>5 DEF ListInv, WalkInv
  <2> QED BY <2>4, <2>6 DEF ListInv
<1> QED BY <1>2, <1>11, <1>12 DEF kept

LEMMA ListInvStep == ListInv /\ [ListNext]_listVars => ListInv'
<1> SUFFICES ASSUME ListInv, [ListNext]_listVars PROVE ListInv'
  OBVIOUS
<1>1. CASE UNCHANGED listVars
  BY <1>1 DEF listVars, ListInv, ListTypeOK, WalkInv
<1>2. ASSUME NEW k \in Keys, PutKey(k) PROVE ListInv'
  <2>1. stored' \subseteq Keys /\ throughout' \subseteq stored'
    BY <1>2 DEF PutKey, ListInv, ListTypeOK
  <2> QED BY <1>2, <2>1 DEF PutKey, ListInv, ListTypeOK, WalkInv
<1>3. ASSUME NEW k \in Keys, RemoveKey(k) PROVE ListInv'
  <2>1. stored' \subseteq Keys /\ throughout' \subseteq stored' /\ throughout' \subseteq throughout
    BY <1>3 DEF RemoveKey, ListInv, ListTypeOK
  <2> QED BY <1>3, <2>1 DEF RemoveKey, ListInv, ListTypeOK, WalkInv
<1>4. CASE BeginCall
  <2>1. /\ cursor \in 0..LastKey /\ LastKey \in Nat /\ limit \in 1..PageLimit /\ PageLimit \in Nat
        /\ MaxPages \in Nat \ {0}
    BY ListAssumption DEF ListInv, ListTypeOK
  <2>2. /\ call'.at = cursor /\ call'.keys = {} /\ call' \in Calls /\ Cardinality({}) = 0
    BY <1>4, <2>1, FS_EmptySet DEF BeginCall, Calls
  <2>3. Cardinality(call'.keys) < limit
    BY <2>1, <2>2
  <2>4. ListTypeOK'
    BY <1>4, <2>2, <2>3 DEF BeginCall, ListInv, ListTypeOK
  <2>5. \A k \in throughout \cap Matching : ~(cursor < k /\ k <= cursor)
    BY <2>1 DEF ListInv, ListTypeOK, Keys
  <2>6. WalkInv'
    BY <1>4, <2>1, <2>2, <2>5 DEF BeginCall, ListInv, WalkInv
  <2> QED BY <2>4, <2>6 DEF ListInv
<1>5. CASE ReadPage
  BY <1>5, ReadPageKeeps
<1>6. CASE CallFails
  BY <1>6 DEF CallFails, ListInv, ListTypeOK, WalkInv
<1> QED BY <1>1, <1>2, <1>3, <1>4, <1>5, <1>6 DEF ListNext

\* Keys, cursors and calls keep their types, for any namespace and page sizes
\* (handleList).
THEOREM ListTypeCorrect == ListSpec => []ListTypeOK
<1>1. ListInv => ListTypeOK
  BY DEF ListInv
<1> QED BY <1>1, ListInvInit, ListInvStep, PTL DEF ListSpec

\* A caller that follows the cursors misses no key that stayed and is given
\* none twice, wherever the provider ends its pages and whatever fails
\* (handleList).
THEOREM ListsAreComplete == ListSpec => []ListIsComplete
<1>1. ListInv => ListIsComplete
  BY DEF ListInv, WalkInv, ListIsComplete
<1> QED BY <1>1, ListInvInit, ListInvStep, PTL DEF ListSpec

-----------------------------------------------------------------------------
(* The composition: what the run MCPlatform explores.                      *)

\* Each step moves one of the components, by one of its own actions, and
\* leaves the other four alone.
LEMMA NamesMoveAlone ==
  ASSUME NamesMoves PROVE NamesNext /\ UNCHANGED <<signInVars, cliVars, routerVars, listVars>>
<1>1. ASSUME NEW s \in Sites,
             \/ \E h \in Hostnames : InNames(CreateSite(s, h)) \/ InNames(CommitRename(s, h))
             \/ InNames(CommitRoute(s)) \/ InNames(PublishRoute(s)) \/ InNames(Stop(s))
             \/ InNames(Reconcile(s)) \/ InNames(Repair(s)) \/ InNames(RepairFails(s))
             \/ InNames(ClearRetired(s)) \/ InNames(ClearRetiredFails(s))
             \/ InNames(ReleaseSlug(s)) \/ InNames(ReleaseSlugFails(s)) \/ InNames(MarkSynced(s))
      PROVE  NamesNext /\ UNCHANGED <<signInVars, cliVars, routerVars, listVars>>
  BY <1>1 DEF InNames, NamesNext, Lifecycle, Synchronise
<1>2. ASSUME NEW s \in Sites,
             \/ InNames(BeginDelete(s)) \/ InNames(ClearBeforeDelete(s))
             \/ InNames(ClearInactive(s)) \/ InNames(DeleteRefused(s))
             \/ InNames(CommitDelete(s)) \/ InNames(PublishDeleted(s))
             \/ InNames(PublishDeletedFails(s)) \/ InNames(Withdraw(s)) \/ InNames(Restore(s))
             \/ InNames(RestoreFails(s)) \/ InNames(Republish(s)) \/ InNames(Settle(s))
      PROVE  NamesNext /\ UNCHANGED <<signInVars, cliVars, routerVars, listVars>>
  BY <1>2 DEF InNames, NamesNext, Delete
<1>3. ASSUME NEW w \in late, InNames(LateWrite(w))
      PROVE  NamesNext /\ UNCHANGED <<signInVars, cliVars, routerVars, listVars>>
  BY <1>3 DEF InNames, NamesNext
<1>4. ASSUME NEW h \in Hostnames, InNames(EndHold(h))
      PROVE  NamesNext /\ UNCHANGED <<signInVars, cliVars, routerVars, listVars>>
  BY <1>4 DEF InNames, NamesNext
<1> QED
  BY <1>1, <1>2, <1>3, <1>4 DEF NamesMoves

LEMMA SignInMovesAlone ==
  ASSUME SignInMoves PROVE SignInNext /\ UNCHANGED <<namesVars, cliVars, routerVars, listVars>>
<1>1. ASSUME NEW b \in Browsers,
             \/ InSignIn(Authorize(b)) \/ InSignIn(ReadUser(b))
             \/ InSignIn(GiveCode(b)) \/ InSignIn(GiveCodeFails(b))
             \/ InSignIn(SyncUser(b)) \/ InSignIn(Establish(b)) \/ InSignIn(CallbackFails(b))
             \/ InSignIn(SendCode(b)) \/ InSignIn(SiteCallback(b))
             \/ InSignIn(SiteCallbackFails(b)) \/ InSignIn(Logout(b))
             \/ \E u \in Users, profile \in Statuses : InSignIn(Callback(b, u, profile))
      PROVE  SignInNext /\ UNCHANGED <<namesVars, cliVars, routerVars, listVars>>
  BY <1>1 DEF InSignIn, SignInNext
<1>2. ASSUME InSignIn(Tick) \/ \E u \in Users : InSignIn(MarkLeft(u))
      PROVE  SignInNext /\ UNCHANGED <<namesVars, cliVars, routerVars, listVars>>
  BY <1>2 DEF InSignIn, SignInNext
<1>3. {"active", "disabled"} \subseteq Statuses
  BY DEF Statuses
<1> QED
  BY <1>1, <1>2, <1>3 DEF SignInMoves

LEMMA CliMovesAlone ==
  ASSUME CliMoves PROVE CliNext /\ UNCHANGED <<namesVars, signInVars, routerVars, listVars>>
BY DEF CliMoves, InCli, CliNext

LEMMA RouterMovesAlone ==
  ASSUME RouterMoves PROVE RouterNext /\ UNCHANGED <<namesVars, signInVars, cliVars, listVars>>
BY DEF RouterMoves, InRouter, RouterNext

LEMMA ListMovesAlone ==
  ASSUME ListMoves PROVE ListNext /\ UNCHANGED <<namesVars, signInVars, cliVars, routerVars>>
BY DEF ListMoves, InList, ListNext

\* What the run explores are behaviours of each of the five specifications, so
\* that what is proved of a component holds in the run, whichever moves.
THEOREM PlatformIsItsComponents ==
  MCSpec => NamesSpec /\ SignInSpec /\ CliSpec /\ RouterSpec /\ ListSpec
<1>1. MCInit => NamesInit /\ SignInInit /\ CliInit /\ RouterInit /\ ListInit
  BY DEF MCInit
<1>2. [MCNext]_partVars =>
        /\ [NamesNext]_namesVars /\ [SignInNext]_signInVars /\ [CliNext]_cliVars
        /\ [RouterNext]_routerVars /\ [ListNext]_listVars
  <2>1. CASE NamesMoves
    BY <2>1, NamesMoveAlone
  <2>2. CASE SignInMoves
    BY <2>2, SignInMovesAlone
  <2>3. CASE CliMoves
    BY <2>3, CliMovesAlone
  <2>4. CASE RouterMoves
    BY <2>4, RouterMovesAlone
  <2>5. CASE ListMoves
    BY <2>5, ListMovesAlone
  <2>6. CASE UNCHANGED partVars
    BY <2>6 DEF partVars
  <2> QED BY <2>1, <2>2, <2>3, <2>4, <2>5, <2>6 DEF MCNext
<1> QED BY <1>1, <1>2, PTL DEF MCSpec, NamesSpec, SignInSpec, CliSpec, RouterSpec, ListSpec

\* No component of the run leaves its types, for any constants.
THEOREM PlatformTypesCorrect ==
  ASSUME NoneIsNone, TimesArePositive, NothingIsNothing, RouterConstants
  PROVE  MCSpec => []PlatformTypeOK
<1>1. NamesTypeOK /\ SignInTypeOK /\ CliTypeOK /\ RouterTypeOK /\ ListTypeOK => PlatformTypeOK
  BY DEF PlatformTypeOK
<1> QED
  BY <1>1, PlatformIsItsComponents, NamesTypeCorrect, SignInTypeCorrect, CliTypeCorrect,
     RouterTypeCorrect, ListTypeCorrect, PTL
=============================================================================
