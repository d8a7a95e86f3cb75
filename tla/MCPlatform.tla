----------------------------- MODULE MCPlatform -----------------------------
(* TLC instance of SiteNames, SignIn, CliLogin, Router and DataList.  They *)
(* are checked in one run, each for itself: "part" says which one moves,   *)
(* and the others rest in their initial states.                            *)
EXTENDS SiteNames, SignIn, CliLogin, Router, DataList, TLC

VARIABLE part

partVars == <<part, namesVars, signInVars, cliVars, routerVars, listVars>>

InNames(A) ==
  part = "names" /\ A /\ UNCHANGED <<part, signInVars, cliVars, routerVars, listVars>>
\* Bound: the router waits for an answer for one tick at most.
InSignIn(A) ==
  /\ part = "sign-in" /\ A /\ UNCHANGED <<part, namesVars, cliVars, routerVars, listVars>>
  /\ \A b \in Browsers : redeeming'[b] # Nobody => now' <= redeeming'[b].asked + 1
InCli(A) ==
  part = "cli" /\ A /\ UNCHANGED <<part, namesVars, signInVars, routerVars, listVars>>
InRouter(A) ==
  part = "router" /\ A /\ UNCHANGED <<part, namesVars, signInVars, cliVars, listVars>>
InList(A) ==
  part = "list" /\ A /\ UNCHANGED <<part, namesVars, signInVars, cliVars, routerVars>>

MCInit ==
  /\ NamesInit /\ SignInInit /\ CliInit /\ RouterInit /\ ListInit
  /\ part \in {"names", "sign-in", "cli", "router", "list"}
  \* The other parts need not rest in more than one initial state.
  /\ part # "list" => stored = {} /\ limit = 1

NamesMoves ==
  \/ \E s \in Sites :
       \/ \E h \in Hostnames : InNames(CreateSite(s, h)) \/ InNames(CommitRename(s, h))
       \/ InNames(CommitRoute(s)) \/ InNames(PublishRoute(s)) \/ InNames(Stop(s))
       \/ InNames(Reconcile(s)) \/ InNames(Repair(s)) \/ InNames(RepairFails(s))
       \/ InNames(ClearRetired(s)) \/ InNames(ClearRetiredFails(s))
       \/ InNames(ReleaseSlug(s)) \/ InNames(ReleaseSlugFails(s)) \/ InNames(MarkSynced(s))
       \/ InNames(BeginDelete(s)) \/ InNames(ClearBeforeDelete(s)) \/ InNames(ClearInactive(s))
       \/ InNames(DeleteRefused(s)) \/ InNames(CommitDelete(s)) \/ InNames(PublishDeleted(s))
       \/ InNames(PublishDeletedFails(s)) \/ InNames(Withdraw(s)) \/ InNames(Restore(s))
       \/ InNames(RestoreFails(s)) \/ InNames(Republish(s)) \/ InNames(Settle(s))
  \/ \E w \in late : InNames(LateWrite(w))
  \/ \E h \in Hostnames : InNames(EndHold(h))

SignInMoves ==
  \/ InSignIn(Tick)
  \/ \E u \in Users : InSignIn(MarkLeft(u))
  \/ \E b \in Browsers :
       \/ InSignIn(Authorize(b)) \/ InSignIn(ReadUser(b))
       \/ InSignIn(GiveCode(b)) \/ InSignIn(GiveCodeFails(b))
       \/ InSignIn(SyncUser(b)) \/ InSignIn(Establish(b)) \/ InSignIn(CallbackFails(b))
       \/ InSignIn(SendCode(b)) \/ InSignIn(SiteCallback(b)) \/ InSignIn(SiteCallbackFails(b))
       \/ InSignIn(Logout(b))
       \* An SSO that knows of a departure does what MarkLeft and an SSO that does
       \* not know of it do.
       \/ \E u \in Users, profile \in {"active", "disabled"} :
            InSignIn(Callback(b, u, profile))

CliMoves ==
  \/ \E u \in People : InCli(PersonChanges(u))
  \/ \E b \in Screens :
       \/ \E u \in People : InCli(SignInElsewhere(b, u)) \/ InCli(ShowPage(b, u))
       \/ InCli(SessionEnds(b)) \/ InCli(Confirm(b)) \/ InCli(ClosePage(b))
       \/ InCli(ConfirmLogin(b))
       \/ \E l \in Logins : InCli(OpenLogin(b, l))
  \/ \E l \in Logins :
       \/ InCli(Start(l)) \/ InCli(Expire(l)) \/ InCli(Poll(l))
       \/ InCli(ReadKeyOwner(l)) \/ InCli(IssueKey(l)) \/ InCli(KeyIsLost(l))

RouterMoves ==
  \/ InRouter(Hour)
  \/ \E s \in Sites :
       \/ InRouter(Redeploy(s)) \/ InRouter(ChangePolicy(s)) \/ InRouter(DeleteSite(s))
       \/ \E h \in Hostnames : InRouter(Create(s, h)) \/ InRouter(Rename(s, h))
  \/ \E h \in Hostnames :
       \/ InRouter(WithdrawRoute(h)) \/ InRouter(BeginCallback(h))
       \/ \E scope \in {"site", "user"} : InRouter(Sign(h, scope))
  \/ \E u \in Users : InRouter(FinishCallback(u))
  \/ InRouter(IdentityFails)

ListMoves ==
  \/ \E k \in Keys : InList(PutKey(k)) \/ InList(RemoveKey(k))
  \/ InList(BeginCall) \/ InList(ReadPage) \/ InList(CallFails)

MCNext == NamesMoves \/ SignInMoves \/ CliMoves \/ RouterMoves \/ ListMoves

MCSpec == MCInit /\ [][MCNext]_partVars

\* The type invariants of the components.  The other invariants of the run
\* are stated and explained in their modules.
PlatformTypeOK == NamesTypeOK /\ SignInTypeOK /\ CliTypeOK /\ RouterTypeOK /\ ListTypeOK

\* Everybody is admitted, or nobody, or the users there are.
MCPolicies ==
  {[mode |-> "anonymous", readers |-> {}]}
  \cup {[mode |-> "protected", readers |-> R] : R \in SUBSET Users}
=============================================================================
