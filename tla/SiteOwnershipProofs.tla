------------------------ MODULE SiteOwnershipProofs -------------------------
(***************************************************************************)
(* Theorems about transfers, for any number of people, teams and requests, *)
(* and whatever comes and goes beside them: that the batch asks what the   *)
(* application asked, and that no transfer leaves a pointer of another     *)
(* owner behind without saying so.  Neither rests on the commit lock,      *)
(* which may be lost at any time.  The types come last: they bound the     *)
(* policy version by the number of transfers.                              *)
(***************************************************************************)
EXTENDS SiteOwnership, FiniteSetTheorems, TLAPS

\* What a hostname shows, an owner and an answer are different things.
OwnersDiffer ==
  /\ Users \cap Teams = {}
  /\ None \notin {"done", "refused", "failed", "repair_required"}
  /\ FirstOwner \in Users \cup Teams

-----------------------------------------------------------------------------
(* Types.                                                                  *)

Owners == Users \cup Teams
UnderWay == {"committed", "compensating", "restored"}
AskedRequest == [step : {"asked", "authorized", "done"} \cup UnderWay, kind : Kinds, user : Users,
                 target : Owners, expected : Owners, policy : Nat]

\* A request that was asked knows the owner it has read, and is told once.
RequestsInv ==
  /\ owner \in Owners /\ policy \in Nat
  /\ published \in [shows : Users \cup {None}, policy : Nat, cleared : BOOLEAN]
  /\ request \in [Transfers -> {[step |-> "new"]} \cup AskedRequest]
  /\ told \in [Transfers -> {None, "done", "refused", "failed", "repair_required"}]
  /\ \A t \in Transfers : request[t].step # "done" => told[t] = None

\* Every version of the policy came from a request that is recognisable by it:
\* the newest is published, or its request is under way or was told of a
\* failure, or somebody was told of the repair.
NewestIsFollowed ==
  \/ \E t \in Transfers : told[t] = "repair_required"
  \/ published.policy = policy /\ (published.cleared \/ published.shows = Shown(owner))
  \/ \E t \in Transfers :
       (request[t].step \in UnderWay \/ told[t] = "failed") /\ request[t].policy = policy

\* Nothing is of a later version than the route, and a request whose version
\* is the route's would publish the route's owner.
PoliciesInv ==
  /\ published.policy <= policy
  /\ \A t \in Transfers : request[t].step \in UnderWay =>
       /\ request[t].policy <= policy
       /\ request[t].step = "committed" /\ request[t].policy = policy =>
            Shown(request[t].target) = Shown(owner)

OwnershipInv == RequestsInv /\ PoliciesInv /\ NewestIsFollowed

LEMMA InitInv == ASSUME OwnersDiffer PROVE OwnerInit => OwnershipInv
BY DEF OwnerInit, OwnershipInv, RequestsInv, PoliciesInv, NewestIsFollowed, Snapshot, Shown, Owners,
       UnderWay, OwnersDiffer

\* What is accepted replaces something older, or of the same version.
LEMMA PointerMovesForward ==
  ASSUME OwnershipInv, NEW p \in Nat
  PROVE  /\ PointerAccepts(p) => p >= published.policy
         /\ Cleared(p).policy >= published.policy
         /\ p <= policy => Cleared(p).policy <= policy
         /\ Cleared(p) \in [shows : Users \cup {None}, policy : Nat, cleared : BOOLEAN]
BY DEF OwnershipInv, RequestsInv, PoliciesInv, PointerAccepts, Cleared

\* The pointer is cleared as of the request's version or of the one before.
LEMMA ClearedType ==
  ASSUME OwnershipInv, NEW p \in Nat, p <= policy, NEW q \in {p, p - 1}
  PROVE  /\ Cleared(q).policy <= policy
         /\ published.policy <= Cleared(q).policy
         /\ Cleared(q) \in [shows : Users \cup {None}, policy : Nat, cleared : BOOLEAN]
BY DEF OwnershipInv, RequestsInv, PoliciesInv, Cleared

LEMMA SnapshotType ==
  ASSUME NEW o, NEW p \in Nat
  PROVE  /\ Snapshot(o, p) \in [shows : Users \cup {None}, policy : Nat, cleared : BOOLEAN]
         /\ Snapshot(o, p).policy = p /\ Snapshot(o, p).shows = Shown(o)
<1>1. Shown(o) \in Users \cup {None}
  BY DEF Shown
<1> HIDE DEF Shown
<1> QED
  BY <1>1 DEF Snapshot

-----------------------------------------------------------------------------
(* A request that goes on.                                                 *)

LEMMA OthersStay ==
  ASSUME OwnershipInv, NEW t \in Transfers, NEW s \in AskedRequest,
         request' = [request EXCEPT ![t] = s]
  PROVE  /\ request' \in [Transfers -> {[step |-> "new"]} \cup AskedRequest]
         /\ request'[t] = s
         /\ \A u \in Transfers \ {t} : request'[u] = request[u]
BY DEF OwnershipInv, RequestsInv

\* EXCEPT on the step leaves the rest of the request.
LEMMA StepMoves ==
  ASSUME OwnershipInv, NEW t \in Transfers, request[t].step # "new",
         NEW s \in {"asked", "authorized", "done"} \cup UnderWay
  PROVE  LET r == [request[t] EXCEPT !.step = s] IN
         /\ r \in AskedRequest /\ r.step = s
         /\ r.kind = request[t].kind /\ r.user = request[t].user /\ r.target = request[t].target
         /\ r.expected = request[t].expected /\ r.policy = request[t].policy
BY DEF OwnershipInv, RequestsInv, AskedRequest

\* A step that ends the request with a report, whether or not the route was
\* moved on.
LEMMA ReportsKeepInv ==
  ASSUME OwnersDiffer, OwnershipInv, NEW t \in Transfers,
         request[t].step \in UnderWay, Tell(t, "repair_required"),
         UNCHANGED <<owner, policy>> \/ (owner' \in Owners /\ policy' = policy + 1),
         \/ published' = published
         \/ \E p \in {request[t].policy, request[t].policy - 1} : published' = Cleared(p)
         \/ /\ PointerAccepts(request[t].policy)
            /\ \E o \in Owners : published' = Snapshot(o, request[t].policy)
  PROVE  OwnershipInv'
<1>1. request[t] \in AskedRequest /\ request[t].policy \in Nat /\ request[t].policy <= policy
  BY DEF OwnershipInv, RequestsInv, PoliciesInv, AskedRequest, UnderWay
<1>2. /\ request' = [request EXCEPT ![t] = [request[t] EXCEPT !.step = "done"]]
      /\ told' = [told EXCEPT ![t] = "repair_required"]
      /\ UNCHANGED <<owner, policy>> \/ (owner' \in Owners /\ policy' = policy + 1)
  BY DEF Tell, Move
<1>3. /\ published'.policy <= policy
      /\ published' \in [shows : Users \cup {None}, policy : Nat, cleared : BOOLEAN]
  BY <1>1, ClearedType, SnapshotType DEF OwnershipInv, RequestsInv, PoliciesInv
<1>4. /\ request' \in [Transfers -> {[step |-> "new"]} \cup AskedRequest]
      /\ request'[t].step = "done"
      /\ \A u \in Transfers \ {t} : request'[u] = request[u]
  <2> DEFINE r == [request[t] EXCEPT !.step = "done"]
  <2>1. r \in AskedRequest /\ r.step = "done"
    BY <1>1, StepMoves DEF UnderWay
  <2>2. request' = [request EXCEPT ![t] = r]
    BY <1>2
  <2> HIDE DEF r
  <2> QED
    BY <2>1, <2>2, OthersStay
<1>5. RequestsInv'
  BY <1>2, <1>3, <1>4 DEF OwnershipInv, RequestsInv
<1>6. PoliciesInv'
  <2>1. policy \in Nat
    BY DEF OwnershipInv, RequestsInv
  <2>2. \A u \in Transfers : request[u].step \in UnderWay => request[u].policy \in Nat
    BY DEF OwnershipInv, RequestsInv, AskedRequest, UnderWay
  <2>3. CASE UNCHANGED <<owner, policy>>
    BY <1>3, <1>4, <2>3 DEF OwnershipInv, PoliciesInv, UnderWay
  <2>4. CASE policy' = policy + 1
    BY <1>3, <1>4, <2>1, <2>2, <2>4 DEF OwnershipInv, RequestsInv, PoliciesInv, UnderWay
  <2> QED
    BY <1>2, <2>3, <2>4
<1>7. NewestIsFollowed'
  BY <1>2 DEF NewestIsFollowed, OwnershipInv, RequestsInv
<1> QED
  BY <1>5, <1>6, <1>7 DEF OwnershipInv

\* A step before anything is committed.
LEMMA PreparationsKeepInv ==
  ASSUME OwnersDiffer, OwnershipInv, NEW t \in Transfers, UNCHANGED <<site, published>>,
         request[t].step \notin UnderWay \cup {"done"},
         NEW r \in AskedRequest, request' = [request EXCEPT ![t] = r], r.step \notin UnderWay,
         \/ UNCHANGED told
         \/ r.step = "done" /\ told' = [told EXCEPT ![t] = "refused"]
  PROVE  OwnershipInv'
<1>1. /\ request' \in [Transfers -> {[step |-> "new"]} \cup AskedRequest]
      /\ request'[t] = r
      /\ \A u \in Transfers \ {t} : request'[u] = request[u]
  BY OthersStay
<1>2. UNCHANGED <<owner, policy, published>>
  BY DEF site
<1>3. RequestsInv'
  BY <1>1, <1>2 DEF OwnershipInv, RequestsInv
<1>4. PoliciesInv'
  BY <1>1, <1>2 DEF OwnershipInv, PoliciesInv
<1>5. NewestIsFollowed'
  <2>1. \A u \in Transfers : told[u] \in {"failed", "repair_required"} =>
          u # t /\ told'[u] = told[u]
    BY DEF OwnershipInv, RequestsInv, OwnersDiffer
  <2> QED
    BY <1>1, <1>2, <2>1 DEF OwnershipInv, NewestIsFollowed
<1> QED
  BY <1>3, <1>4, <1>5 DEF OwnershipInv

\* The route is moved on, to a version that nobody has seen.
LEMMA RoutesKeepInv ==
  ASSUME OwnersDiffer, OwnershipInv, NEW t \in Transfers,
         request[t].step \in {"authorized", "compensating"},
         NEW r \in AskedRequest, request' = [request EXCEPT ![t] = r],
         r.policy = policy + 1,
         policy' = policy + 1, owner' \in Owners, r.step = "committed" => owner' = r.target,
         UNCHANGED published,
         \/ r.step \in {"committed", "restored"} /\ UNCHANGED told
         \/ r.step = "done" /\ told' = [told EXCEPT ![t] = "failed"]
  PROVE  OwnershipInv'
<1>1. /\ request' \in [Transfers -> {[step |-> "new"]} \cup AskedRequest]
      /\ request'[t] = r
      /\ \A u \in Transfers \ {t} : request'[u] = request[u]
  BY OthersStay
<1>2. RequestsInv'
  BY <1>1 DEF OwnershipInv, RequestsInv
<1>3. PoliciesInv'
  <2>1. published'.policy <= policy'
    BY DEF OwnershipInv, RequestsInv, PoliciesInv
  <2>2. ASSUME NEW u \in Transfers, request'[u].step \in UnderWay
        PROVE  /\ request'[u].policy <= policy'
               /\ request'[u].step = "committed" /\ request'[u].policy = policy' =>
                    Shown(request'[u].target) = Shown(owner')
    <3>1. CASE u = t
      BY <1>1, <3>1 DEF OwnershipInv, RequestsInv
    <3>2. CASE u # t
      <4>1. request'[u] = request[u]
        BY <1>1, <3>2
      <4>2. request[u].policy \in Nat /\ request[u].policy <= policy /\ policy \in Nat
        BY <2>2, <4>1 DEF OwnershipInv, RequestsInv, PoliciesInv, AskedRequest, UnderWay
      <4> QED
        BY <4>1, <4>2
    <3> QED
      BY <3>1, <3>2
  <2> QED
    BY <2>1, <2>2 DEF PoliciesInv, Shown
<1>4. NewestIsFollowed'
  <2>1. r.step \in UnderWay \/ told'[t] = "failed"
    BY DEF OwnershipInv, RequestsInv, UnderWay
  <2> QED
    BY <1>1, <2>1 DEF NewestIsFollowed
<1> QED
  BY <1>2, <1>3, <1>4 DEF OwnershipInv

-----------------------------------------------------------------------------
(* The steps of a transfer.                                                *)

LEMMA AskKeepsInv ==
  ASSUME OwnersDiffer, OwnershipInv, NEW t \in Transfers, Ask(t)
  PROVE  OwnershipInv'
<1>1. PICK r \in AskedRequest : r.step = "asked" /\ request' = [request EXCEPT ![t] = r]
  <2>1. PICK kind \in Kinds, u \in Users, target \in Users \cup Teams :
          request' = [request EXCEPT ![t] = [step |-> "asked", kind |-> kind, user |-> u,
                        target |-> target, expected |-> owner, policy |-> 0]]
    BY DEF Ask
  <2>2. [step |-> "asked", kind |-> kind, user |-> u, target |-> target, expected |-> owner,
         policy |-> 0] \in AskedRequest
    BY DEF AskedRequest, Owners, OwnershipInv, RequestsInv
  <2> QED
    BY <2>1, <2>2
<1> QED
  BY <1>1, PreparationsKeepInv DEF Ask, UnderWay, site

LEMMA AuthorizeKeepsInv ==
  ASSUME OwnersDiffer, OwnershipInv, NEW t \in Transfers, Authorize(t)
  PROVE  OwnershipInv'
<1>1. request[t] \in AskedRequest /\ request[t].step = "asked"
  BY DEF Authorize, OwnershipInv, RequestsInv, AskedRequest
<1>2. UNCHANGED <<site, published>>
  BY DEF Authorize
<1>3. CASE UNCHANGED told
           /\ request' = [request EXCEPT ![t].step = "authorized", ![t].policy = policy]
  <2> DEFINE r == [request[t] EXCEPT !.step = "authorized", !.policy = policy]
  <2>1. r \in AskedRequest /\ r.step = "authorized"
    BY <1>1 DEF AskedRequest, OwnershipInv, RequestsInv
  <2>2. request' = [request EXCEPT ![t] = r]
    BY <1>3 DEF OwnershipInv, RequestsInv
  <2> QED
    BY <1>1, <1>2, <1>3, <2>1, <2>2, PreparationsKeepInv DEF UnderWay
<1>4. CASE Tell(t, "refused")
  <2> DEFINE r == [request[t] EXCEPT !.step = "done"]
  <2>1. r \in AskedRequest /\ r.step = "done"
    BY <1>1, StepMoves
  <2>2. request' = [request EXCEPT ![t] = r] /\ told' = [told EXCEPT ![t] = "refused"]
    BY <1>4 DEF Tell, Move
  <2> QED
    BY <1>1, <1>2, <2>1, <2>2, PreparationsKeepInv DEF UnderWay
<1> QED
  BY <1>3, <1>4 DEF Authorize

LEMMA CommitKeepsInv ==
  ASSUME OwnersDiffer, OwnershipInv, NEW t \in Transfers, Commit(t)
  PROVE  OwnershipInv'
<1>1. request[t] \in AskedRequest /\ request[t].step = "authorized" /\ UNCHANGED published
  BY DEF Commit, OwnershipInv, RequestsInv, AskedRequest
<1>2. CASE /\ owner' = request[t].target /\ policy' = policy + 1
           /\ request' = [request EXCEPT ![t].step = "committed", ![t].policy = policy + 1]
           /\ UNCHANGED told
  <2> DEFINE p == policy + 1
             r == [request[t] EXCEPT !.step = "committed", !.policy = p]
  <2>0. p \in Nat
    BY DEF OwnershipInv, RequestsInv
  <2> HIDE DEF p
  <2>1. r \in AskedRequest /\ r.step = "committed" /\ r.policy = p /\ r.target = request[t].target
    BY <1>1, <2>0 DEF AskedRequest, UnderWay
  <2> USE DEF p
  <2>2. request' = [request EXCEPT ![t] = r]
    BY <1>2 DEF OwnershipInv, RequestsInv
  <2>3. owner' \in Owners
    BY <1>1, <1>2 DEF AskedRequest
  <2> HIDE DEF r
  <2> QED
    BY <1>1, <1>2, <2>1, <2>2, <2>3, RoutesKeepInv
<1>3. CASE Tell(t, "refused") /\ UNCHANGED site
  <2> DEFINE r == [request[t] EXCEPT !.step = "done"]
  <2>1. r \in AskedRequest /\ r.step = "done"
    BY <1>1, StepMoves
  <2>2. request' = [request EXCEPT ![t] = r] /\ told' = [told EXCEPT ![t] = "refused"]
    BY <1>3 DEF Tell, Move
  <2> QED
    BY <1>1, <1>3, <2>1, <2>2, PreparationsKeepInv DEF UnderWay
<1> QED
  BY <1>2, <1>3 DEF Commit

LEMMA CommitUnansweredKeepsInv ==
  ASSUME OwnersDiffer, OwnershipInv, NEW t \in Transfers, CommitUnanswered(t)
  PROVE  OwnershipInv'
<1>1. request[t] \in AskedRequest /\ request[t].step = "authorized" /\ UNCHANGED published
  BY DEF CommitUnanswered, OwnershipInv, RequestsInv, AskedRequest
<1> DEFINE p == policy + 1
           r == [request[t] EXCEPT !.step = "done", !.policy = p]
<1>2. p \in Nat
  BY DEF OwnershipInv, RequestsInv
<1> HIDE DEF p
<1>3. r \in AskedRequest /\ r.step = "done" /\ r.policy = p
  BY <1>1, <1>2 DEF AskedRequest, UnderWay
<1> USE DEF p
<1>4. /\ request' = [request EXCEPT ![t] = r] /\ policy' = policy + 1
      /\ told' = [told EXCEPT ![t] = "failed"]
  BY DEF CommitUnanswered, OwnershipInv, RequestsInv
<1>5. owner' \in Owners
  BY <1>1 DEF CommitUnanswered, AskedRequest
<1> HIDE DEF r
<1> QED
  BY <1>1, <1>3, <1>4, <1>5, RoutesKeepInv

\* A pointer of an older version is accepted only while a newer one is not published.
LEMMA RefreshKeepsInv ==
  ASSUME OwnersDiffer, OwnershipInv, NEW t \in Transfers, Refresh(t) \/ RefreshFails(t)
  PROVE  OwnershipInv'
<1>1. /\ request[t] \in AskedRequest /\ request[t].step = "committed" /\ UNCHANGED <<owner, policy>>
      /\ request[t].policy \in Nat /\ request[t].policy <= policy /\ request[t].target \in Owners
  BY DEF Refresh, RefreshFails, OwnershipInv, RequestsInv, PoliciesInv, AskedRequest, UnderWay, site
<1>2. \E s \in {"done", "compensating"} :
        /\ request' = [request EXCEPT ![t] = [request[t] EXCEPT !.step = s]]
        /\ \/ UNCHANGED told /\ s = "compensating"
           \/ told' = [told EXCEPT ![t] = "done"] /\ s = "done"
        /\ \/ UNCHANGED published /\ s = "compensating"
           \/ /\ PointerAccepts(request[t].policy)
              /\ published' = Snapshot(request[t].target, request[t].policy)
  BY DEF Refresh, RefreshFails, Tell, Move
<1>3. PICK s \in {"done", "compensating"} :
        /\ request' = [request EXCEPT ![t] = [request[t] EXCEPT !.step = s]]
        /\ \/ UNCHANGED told /\ s = "compensating"
           \/ told' = [told EXCEPT ![t] = "done"] /\ s = "done"
        /\ \/ UNCHANGED published /\ s = "compensating"
           \/ /\ PointerAccepts(request[t].policy)
              /\ published' = Snapshot(request[t].target, request[t].policy)
  BY <1>2
<1>4. /\ request' \in [Transfers -> {[step |-> "new"]} \cup AskedRequest]
      /\ request'[t].step = s /\ request'[t].policy = request[t].policy
      /\ \A u \in Transfers \ {t} : request'[u] = request[u]
  <2> DEFINE r == [request[t] EXCEPT !.step = s]
  <2>1. r \in AskedRequest /\ r.step = s /\ r.policy = request[t].policy
    BY <1>1, StepMoves DEF UnderWay
  <2>2. request' = [request EXCEPT ![t] = r]
    BY <1>3
  <2> HIDE DEF r
  <2> QED
    BY <2>1, <2>2, OthersStay
<1>5. RequestsInv'
  <2>1. published' \in [shows : Users \cup {None}, policy : Nat, cleared : BOOLEAN]
    BY <1>1, <1>3, SnapshotType DEF OwnershipInv, RequestsInv
  <2> QED
    BY <1>1, <1>3, <1>4, <2>1 DEF OwnershipInv, RequestsInv
<1>6. PoliciesInv'
  <2>1. published'.policy <= policy
    BY <1>1, <1>3 DEF OwnershipInv, PoliciesInv, Snapshot
  <2> QED
    BY <1>1, <1>3, <1>4, <2>1 DEF OwnershipInv, PoliciesInv, UnderWay, Shown
<1>7. NewestIsFollowed'
  <2>1. CASE \E u \in Transfers : told[u] = "repair_required"
    <3>1. \A u \in Transfers : told[u] = "repair_required" => told'[u] = "repair_required"
      BY <1>1, <1>3 DEF OwnershipInv, RequestsInv, OwnersDiffer
    <3> QED
      BY <2>1, <3>1 DEF NewestIsFollowed
  <2>2. CASE request[t].policy = policy
    <3>1. CASE s = "compensating"
      BY <1>1, <1>4, <2>2, <3>1 DEF NewestIsFollowed, UnderWay
    <3>2. CASE s = "done"
      <4>1. published' = Snapshot(request[t].target, policy)
        BY <1>3, <2>2, <3>2
      <4>2. Shown(request[t].target) = Shown(owner)
        BY <1>1, <2>2 DEF OwnershipInv, PoliciesInv, UnderWay
      <4> QED
        BY <1>1, <4>1, <4>2 DEF NewestIsFollowed, Snapshot, Shown
    <3> QED
      BY <3>1, <3>2
  <2>3. ASSUME request[t].policy # policy,
               NEW u \in Transfers, request[u].step \in UnderWay \/ told[u] = "failed",
               request[u].policy = policy
        PROVE  NewestIsFollowed'
    <3>1. u # t /\ request'[u] = request[u] /\ told'[u] = told[u]
      BY <1>3, <1>4, <2>3 DEF OwnershipInv, RequestsInv
    <3> QED
      BY <1>1, <2>3, <3>1 DEF NewestIsFollowed
  <2>4. CASE request[t].policy # policy /\ published.policy = policy
             /\ (published.cleared \/ published.shows = Shown(owner))
    <3>1. ~PointerAccepts(request[t].policy)
      BY <1>1, <2>4, PointerMovesForward DEF OwnershipInv, RequestsInv
    <3> QED
      BY <1>1, <1>3, <2>4, <3>1 DEF NewestIsFollowed, Shown
  <2> QED
    BY <2>1, <2>2, <2>3, <2>4 DEF OwnershipInv, NewestIsFollowed
<1> QED
  BY <1>5, <1>6, <1>7 DEF OwnershipInv

LEMMA CompensateKeepsInv ==
  ASSUME OwnersDiffer, OwnershipInv, NEW t \in Transfers, Compensate(t)
  PROVE  OwnershipInv'
<1>1. request[t] \in AskedRequest /\ request[t].step = "compensating"
  BY DEF Compensate, OwnershipInv, RequestsInv, AskedRequest
<1>2. CASE /\ owner' = request[t].expected /\ policy' = policy + 1
           /\ request' = [request EXCEPT ![t].step = "restored", ![t].policy = policy + 1]
           /\ UNCHANGED <<published, told>>
  <2> DEFINE p == policy + 1
             r == [request[t] EXCEPT !.step = "restored", !.policy = p]
  <2>0. p \in Nat
    BY DEF OwnershipInv, RequestsInv
  <2> HIDE DEF p
  <2>1. r \in AskedRequest /\ r.step = "restored" /\ r.policy = p
    BY <1>1, <2>0 DEF AskedRequest, UnderWay
  <2> USE DEF p
  <2>2. request' = [request EXCEPT ![t] = r]
    BY <1>2 DEF OwnershipInv, RequestsInv
  <2>3. owner' \in Owners
    BY <1>1, <1>2 DEF AskedRequest
  <2> HIDE DEF r
  <2> QED
    BY <1>1, <1>2, <2>1, <2>2, <2>3, RoutesKeepInv
<1>3. CASE /\ published' = Cleared(request[t].policy) \/ UNCHANGED published
           /\ Tell(t, "repair_required") /\ UNCHANGED site
  <2>1. request[t].step \in UnderWay
    BY <1>1 DEF UnderWay
  <2>2. \/ published' = published
        \/ \E p \in {request[t].policy, request[t].policy - 1} : published' = Cleared(p)
    BY <1>3
  <2> QED
    BY <1>3, <2>1, <2>2, ReportsKeepInv DEF site
<1> QED
  BY <1>2, <1>3 DEF Compensate

LEMMA EndsKeepInv ==
  ASSUME OwnersDiffer, OwnershipInv, NEW t \in Transfers,
         \/ RouteUnread(t) \/ RestorationFails(t)
         \/ RefreshRestored(t) \/ RestoredUnpublished(t)
  PROVE  OwnershipInv'
<1>1. /\ request[t] \in AskedRequest /\ request[t].step \in UnderWay
      /\ request[t].expected \in Owners
  BY DEF RouteUnread, RestorationFails, RefreshRestored, RestoredUnpublished, OwnershipInv,
         RequestsInv, AskedRequest, UnderWay
<1>2. /\ Tell(t, "repair_required")
      /\ UNCHANGED <<owner, policy>> \/ (owner' \in Owners /\ policy' = policy + 1)
  <2>1. CASE RestorationFails(t)
    BY <1>1, <2>1 DEF RestorationFails, site
  <2>2. CASE RouteUnread(t) \/ RefreshRestored(t) \/ RestoredUnpublished(t)
    BY <2>2 DEF RouteUnread, RefreshRestored, RestoredUnpublished, site
  <2> QED
    BY <2>1, <2>2
<1>3. \/ published' = published
      \/ \E p \in {request[t].policy, request[t].policy - 1} : published' = Cleared(p)
      \/ /\ PointerAccepts(request[t].policy)
         /\ published' = Snapshot(request[t].expected, request[t].policy)
  BY DEF RouteUnread, RestorationFails, RefreshRestored, RestoredUnpublished
<1> QED
  BY <1>1, <1>2, <1>3, ReportsKeepInv

-----------------------------------------------------------------------------
(* Everything beside the transfers.                                        *)

\* A merge passes the site from team to team: nobody sees the difference.
LEMMA OthersKeepInv ==
  ASSUME OwnersDiffer, OwnershipInv, UNCHANGED <<policy, published, request, told>>,
         owner' = owner \/ {owner, owner'} \subseteq Teams
  PROVE  OwnershipInv'
<1>1. owner' \in Owners /\ Shown(owner') = Shown(owner)
  BY DEF OwnershipInv, RequestsInv, Shown, OwnersDiffer, Owners
<1> QED
  BY <1>1 DEF OwnershipInv, RequestsInv, PoliciesInv, NewestIsFollowed, Shown

OthersNext ==
  \/ \E u \in Users : UserLeaves(u) \/ KeyEnds(u) \/ GrantPlatformAdmin(u) \/ RevokePlatformAdmin(u)
  \/ \E m \in Managers : CheckMember(m) \/ ActMember(m) \/ CheckDeletion(m) \/ ActDeletion(m)
  \/ MergeDepartments
  \/ LeaseLapses

LEMMA OthersLeaveTheSite ==
  ASSUME OthersNext
  PROVE  /\ UNCHANGED <<policy, published, request, told>>
         /\ owner' = owner \/ {owner, owner'} \subseteq Departments
<1>1. CASE MergeDepartments
  BY <1>1 DEF MergeDepartments
<1>2. CASE ~MergeDepartments
  BY <1>2 DEF OthersNext, UserLeaves, KeyEnds, GrantPlatformAdmin, RevokePlatformAdmin, CheckMember,
              ActMember, CheckDeletion, ActDeletion, LeaseLapses, site
<1> QED
  BY <1>1, <1>2

LEMMA NextInv == ASSUME OwnersDiffer PROVE OwnershipInv /\ [OwnerNext]_ownerVars => OwnershipInv'
<1> SUFFICES ASSUME OwnershipInv, [OwnerNext]_ownerVars PROVE OwnershipInv'
  OBVIOUS
<1>1. CASE UNCHANGED ownerVars
  BY <1>1, OthersKeepInv DEF ownerVars
<1>2. CASE OthersNext
  BY <1>2, OthersKeepInv, OthersLeaveTheSite DEF Teams
<1>3. ASSUME NEW t \in Transfers,
             \/ Ask(t) \/ Authorize(t) \/ Commit(t) \/ CommitUnanswered(t) \/ Refresh(t)
             \/ RouteUnread(t) \/ RefreshFails(t) \/ Compensate(t) \/ RestorationFails(t)
             \/ RefreshRestored(t) \/ RestoredUnpublished(t)
      PROVE  OwnershipInv'
  BY <1>3, AskKeepsInv, AuthorizeKeepsInv, CommitKeepsInv, CommitUnansweredKeepsInv,
     RefreshKeepsInv, CompensateKeepsInv, EndsKeepInv
<1> QED
  BY <1>1, <1>2, <1>3 DEF OwnerNext, OthersNext

-----------------------------------------------------------------------------
(* The theorems.                                                           *)

\* When no transfer is under way, routers are shown the owner and the policy
\* version of D1, or nothing, or somebody was told to repair the pointer, or the
\* newest version is that of a transfer whose commit failed after it had taken
\* effect (transfer-owner.js), also when transfers overlap because leases were lost.
THEOREM PublishedOwnerIsRight ==
  ASSUME OwnersDiffer PROVE OwnershipSpec => []PublishedPolicyBelongsToOwner
<1>1. ASSUME OwnershipInv PROVE PublishedPolicyBelongsToOwner
  <2> SUFFICES ASSUME ~published.cleared,
                      published.policy = policy, published.shows = Shown(owner)
               PROVE  published = Snapshot(owner, policy)
    BY <1>1 DEF PublishedPolicyBelongsToOwner, OwnershipInv, NewestIsFollowed, UnderWay
  <2>1. published = [shows |-> published.shows, policy |-> published.policy,
                     cleared |-> published.cleared]
    BY <1>1 DEF OwnershipInv, RequestsInv
  <2>2. published.cleared = FALSE
    BY <1>1 DEF OwnershipInv, RequestsInv
  <2> QED
    BY <2>1, <2>2 DEF Snapshot
<1> QED
  BY <1>1, InitInv, NextInv, PTL DEF OwnershipSpec

\* The batch of a transfer asks in SQL what the application asked in JavaScript
\* (site-mutation-authorization.js and authorization.js): whoever gives the site
\* away may do so when it is given, and the target may have it then.
THEOREM AuthorityIsCurrent == ASSUME OwnersDiffer PROVE OwnershipSpec => AuthorityAtCommit
<1> DEFINE ByRight(t) ==
             /\ request[t].step = "authorized"
             /\ owner' = request[t].target
             /\ MayTransfer(request[t].kind, request[t].user)
             /\ TargetAllowed(request[t].kind, request[t].user, request[t].target)
           Rightful ==
             \/ \E t \in Transfers : ByRight(t)
             \/ \E t \in Transfers :
                  request[t].step = "compensating" /\ owner' = request[t].expected
             \/ {owner, owner'} \subseteq Departments
<1>1. ASSUME OwnershipInv, OwnerNext, owner' # owner PROVE Rightful
  <2>1. CASE OthersNext
    BY <1>1, <2>1, OthersLeaveTheSite
  <2>2. ASSUME NEW t \in Transfers, Commit(t) \/ CommitUnanswered(t) PROVE ByRight(t)
    <3>1. /\ request[t].step = "authorized" /\ request[t].target \in Owners
          /\ BatchAllows(request[t]) /\ owner' = request[t].target
      BY <1>1, <2>2 DEF Commit, CommitUnanswered, site, OwnershipInv, RequestsInv, AskedRequest
    <3>2. MayTransfer(request[t].kind, request[t].user)
      BY <3>1 DEF BatchAllows, MayTransfer, ActorIsGood
    <3>3. TargetAllowed(request[t].kind, request[t].user, request[t].target)
      BY <3>1 DEF BatchAllows, TargetAllowed, Owners
    <3> QED
      BY <3>1, <3>2, <3>3
  <2>3. ASSUME NEW t \in Transfers, Compensate(t) \/ RestorationFails(t) PROVE Rightful
    BY <1>1, <2>3 DEF Compensate, RestorationFails, site
  <2>4. ASSUME NEW t \in Transfers,
               \/ Ask(t) \/ Authorize(t) \/ Refresh(t) \/ RouteUnread(t) \/ RefreshFails(t)
               \/ RefreshRestored(t) \/ RestoredUnpublished(t)
        PROVE  FALSE
    BY <1>1, <2>4 DEF Ask, Authorize, Refresh, RouteUnread, RefreshFails, RefreshRestored,
                      RestoredUnpublished, site
  <2> QED
    BY <1>1, <2>1, <2>2, <2>3, <2>4 DEF OwnerNext, OthersNext
<1>2. OwnershipInv /\ [OwnerNext]_ownerVars => [owner' # owner => Rightful]_ownerVars
  BY <1>1
<1> QED
  BY <1>2, InitInv, NextInv, PTL DEF OwnershipSpec, AuthorityAtCommit

-----------------------------------------------------------------------------
(* Types, and how many versions there can be.                              *)

\* The people, the teams, and the managers' checked changes.
Tasks == [op : {"none", "admin", "publisher", "remove", "delete", "done"},
          team : Teams \cup {None}, user : Users \cup {None}]

TeamsInv ==
  /\ employed \subseteq Users /\ keyed \subseteq Users /\ admins \subseteq Users
  /\ live \subseteq Teams
  /\ role \in [Teams -> [Users -> {"admin", "publisher", None}]]
  /\ work \in [Managers -> Tasks]
  /\ \A m \in Managers :
       /\ work[m].op \in {"admin", "publisher", "remove"} =>
            work[m].team \in Teams /\ work[m].user \in Users
       /\ work[m].op = "delete" => work[m].team \in Teams

\* A request brings a version when it commits, and one more when it gives the
\* site back.
Begun == {t \in Transfers : request[t].step \notin {"new", "asked", "authorized"}}
Back == {t \in Transfers : request[t].step \in {"restored", "done"}}

CountInv ==
  /\ lease \in Transfers \cup {None}
  /\ \A t \in Transfers : request[t].step = "done" => told[t] # None
  /\ policy >= 1 /\ published.policy >= 1
  /\ \A t \in Transfers : request[t].step \in UnderWay => request[t].policy >= 1
  /\ policy <= 1 + Cardinality(Begun) + Cardinality(Back)

OwnershipTypesInv == OwnershipInv /\ TeamsInv /\ CountInv

LEMMA CountsAreFinite ==
  ASSUME IsFiniteSet(Transfers)
  PROVE  /\ IsFiniteSet(Begun) /\ IsFiniteSet(Back)
         /\ Cardinality(Begun) \in Nat /\ Cardinality(Back) \in Nat
         /\ Cardinality(Begun) <= Cardinality(Transfers)
         /\ Cardinality(Back) <= Cardinality(Transfers)
         /\ Cardinality(Transfers) \in Nat
<1>1. Begun \subseteq Transfers /\ Back \subseteq Transfers
  BY DEF Begun, Back
<1>2. IsFiniteSet(Begun) /\ Cardinality(Begun) <= Cardinality(Transfers)
  BY <1>1, FS_Subset
<1>3. IsFiniteSet(Back) /\ Cardinality(Back) <= Cardinality(Transfers)
  BY <1>1, FS_Subset
<1>4. Cardinality(Begun) \in Nat
  BY <1>2, FS_CardinalityType
<1>5. Cardinality(Back) \in Nat
  BY <1>3, FS_CardinalityType
<1>6. Cardinality(Transfers) \in Nat
  BY FS_CardinalityType
<1> QED BY <1>2, <1>3, <1>4, <1>5, <1>6

LEMMA TypesInit ==
  ASSUME OwnersDiffer, IsFiniteSet(Transfers), OwnerInit
  PROVE  TeamsInv /\ CountInv
<1>1. TeamsInv
  <2>1. role \in [Teams -> [Users -> {"admin", "publisher", None}]]
    BY DEF OwnerInit
  <2>2. NoWork \in Tasks /\ NoWork.op = "none"
    BY DEF NoWork, Tasks
  <2>3. work \in [Managers -> Tasks] /\ \A m \in Managers : work[m].op = "none"
    BY <2>2 DEF OwnerInit
  <2> QED BY <2>1, <2>3 DEF OwnerInit, TeamsInv
<1>2. CountInv
  <2>1. policy = 1 /\ published.policy = 1 /\ lease = None
        /\ \A t \in Transfers : request[t].step = "new"
    BY DEF OwnerInit, Snapshot
  <2> QED BY <2>1, CountsAreFinite DEF CountInv, UnderWay
<1> QED BY <1>1, <1>2

\* Requests only go on, so both counts only grow.
LEMMA CountsGrow ==
  ASSUME IsFiniteSet(Transfers), NEW t \in Transfers,
         \A u \in Transfers \ {t} : request'[u] = request[u],
         t \in Begun => t \in Begun', t \in Back => t \in Back'
  PROVE  /\ Cardinality(Begun) <= Cardinality(Begun')
         /\ Cardinality(Back) <= Cardinality(Back')
         /\ t \notin Begun /\ t \in Begun' => Cardinality(Begun') = Cardinality(Begun) + 1
         /\ t \notin Back /\ t \in Back' => Cardinality(Back') = Cardinality(Back) + 1
<1>1. Begun \subseteq Begun' /\ Back \subseteq Back'
  BY DEF Begun, Back
<1>2. IsFiniteSet(Begun) /\ IsFiniteSet(Back)
  BY CountsAreFinite
<1>3. IsFiniteSet(Begun') /\ IsFiniteSet(Back')
  <2>1. Begun' \subseteq Transfers /\ Back' \subseteq Transfers
    BY DEF Begun, Back
  <2>2. IsFiniteSet(Begun')
    BY <2>1, FS_Subset
  <2>3. IsFiniteSet(Back')
    BY <2>1, FS_Subset
  <2> QED BY <2>2, <2>3
<1>4. Cardinality(Begun) <= Cardinality(Begun')
  BY <1>1, <1>3, FS_Subset
<1>5. Cardinality(Back) <= Cardinality(Back')
  BY <1>1, <1>3, FS_Subset
<1>6. t \notin Begun /\ t \in Begun' => Cardinality(Begun') = Cardinality(Begun) + 1
  <2>1. t \in Begun' => Begun' = Begun \cup {t}
    BY <1>1 DEF Begun
  <2> QED BY <1>2, <2>1, FS_AddElement
<1>7. t \notin Back /\ t \in Back' => Cardinality(Back') = Cardinality(Back) + 1
  <2>1. t \in Back' => Back' = Back \cup {t}
    BY <1>1 DEF Back
  <2> QED BY <1>2, <2>1, FS_AddElement
<1> QED BY <1>4, <1>5, <1>6, <1>7

LEMMA TransferCounts ==
  ASSUME OwnersDiffer, IsFiniteSet(Transfers), OwnershipInv, OwnershipInv', CountInv,
         NEW t \in Transfers,
         \A u \in Transfers \ {t} : request'[u] = request[u] /\ told'[u] = told[u],
         lease' \in Transfers \cup {None},
         request'[t].step = "done" => told'[t] # None,
         request'[t].step \in UnderWay => request'[t].policy >= 1,
         published'.policy >= 1,
         t \in Begun => t \in Begun', t \in Back => t \in Back',
         \/ policy' = policy
         \/ /\ policy' = policy + 1
            /\ (t \notin Begun /\ t \in Begun') \/ (t \notin Back /\ t \in Back')
  PROVE  CountInv'
<1>1. /\ Cardinality(Begun) \in Nat /\ Cardinality(Back) \in Nat
  BY CountsAreFinite
<1>3. /\ Cardinality(Begun') \in Nat /\ Cardinality(Back') \in Nat
  <2>1. Begun' \subseteq Transfers /\ Back' \subseteq Transfers
    BY DEF Begun, Back
  <2>2. IsFiniteSet(Begun') /\ IsFiniteSet(Back')
    BY <2>1, FS_Subset
  <2> QED BY <2>2, FS_CardinalityType
<1>4. policy \in Nat /\ policy <= 1 + Cardinality(Begun) + Cardinality(Back) /\ policy >= 1
  BY DEF OwnershipInv, RequestsInv, CountInv
<1>5. /\ Cardinality(Begun) <= Cardinality(Begun')
      /\ Cardinality(Back) <= Cardinality(Back')
      /\ t \notin Begun /\ t \in Begun' => Cardinality(Begun') = Cardinality(Begun) + 1
      /\ t \notin Back /\ t \in Back' => Cardinality(Back') = Cardinality(Back) + 1
  BY CountsGrow
<1>6. policy' >= 1 /\ policy' <= 1 + Cardinality(Begun') + Cardinality(Back')
  BY <1>1, <1>3, <1>4, <1>5
<1>7. \A u \in Transfers :
        /\ request'[u].step = "done" => told'[u] # None
        /\ request'[u].step \in UnderWay => request'[u].policy >= 1
  BY DEF CountInv
<1> QED BY <1>6, <1>7 DEF CountInv

\* Each step of a transfer.
LEMMA TransferKeepsTypes ==
  ASSUME OwnersDiffer, IsFiniteSet(Transfers), OwnershipInv, OwnershipInv', TeamsInv, CountInv,
         NEW t \in Transfers,
         \/ Ask(t) \/ Authorize(t) \/ Commit(t) \/ CommitUnanswered(t) \/ Refresh(t)
         \/ RouteUnread(t) \/ RefreshFails(t) \/ Compensate(t) \/ RestorationFails(t)
         \/ RefreshRestored(t) \/ RestoredUnpublished(t)
  PROVE  TeamsInv' /\ CountInv'
<1>1. TeamsInv'
  BY DEF Ask, Authorize, Commit, CommitUnanswered, Refresh, RouteUnread, RefreshFails, Compensate,
         RestorationFails, RefreshRestored, RestoredUnpublished, people, teams, TeamsInv
<1>2. /\ request \in [Transfers -> {[step |-> "new"]} \cup AskedRequest]
      /\ told \in [Transfers -> {None, "done", "refused", "failed", "repair_required"}]
      /\ lease \in Transfers \cup {None}
      /\ policy \in Nat /\ policy >= 1 /\ published.policy \in Nat /\ published.policy >= 1
      /\ request[t].step \in UnderWay => request[t].policy \in Nat /\ request[t].policy >= 1
  BY DEF OwnershipInv, RequestsInv, CountInv, AskedRequest, UnderWay
<1>3. ASSUME NEW a \in {"done", "refused", "repair_required"}, Tell(t, a)
      PROVE  /\ \A u \in Transfers \ {t} : request'[u] = request[u] /\ told'[u] = told[u]
             /\ request'[t].step = "done" /\ told'[t] # None
             /\ lease' \in Transfers \cup {None}
             /\ t \in Begun' /\ t \in Back'
  BY <1>2, <1>3 DEF Tell, Move, OwnersDiffer, Begun, Back
<1>4. ASSUME NEW p \in {published.policy, request[t].policy},
             request[t].step \in UnderWay
      PROVE  p >= 1
  BY <1>2, <1>4
<1>5. ASSUME Ask(t) PROVE CountInv'
  <2>1. request[t].step = "new" /\ UNCHANGED <<policy, published, lease, told>>
    BY <1>5 DEF Ask, site
  <2>2. request'[t].step = "asked" /\ \A u \in Transfers \ {t} : request'[u] = request[u]
    BY <1>2, <1>5 DEF Ask
  <2>3. t \notin Begun /\ t \notin Back
    BY <2>1 DEF Begun, Back
  <2> QED BY <1>2, <2>1, <2>2, <2>3, TransferCounts DEF UnderWay
<1>6. ASSUME Authorize(t) PROVE CountInv'
  <2>1. request[t].step = "asked" /\ UNCHANGED <<policy, published>>
    BY <1>6 DEF Authorize, site
  <2>2. t \notin Begun /\ t \notin Back
    BY <2>1 DEF Begun, Back
  <2>3. CASE Tell(t, "refused")
    BY <1>2, <1>3, <2>1, <2>2, <2>3, TransferCounts DEF UnderWay
  <2>4. CASE /\ lease' = t /\ UNCHANGED told
             /\ request' = [request EXCEPT ![t].step = "authorized", ![t].policy = policy]
    <3>1. request'[t].step = "authorized" /\ \A u \in Transfers \ {t} : request'[u] = request[u]
      BY <1>2, <2>1, <2>4 DEF AskedRequest
    <3> QED BY <1>2, <2>1, <2>2, <2>4, <3>1, TransferCounts DEF UnderWay
  <2> QED BY <1>6, <2>3, <2>4 DEF Authorize
<1>7. ASSUME Commit(t) PROVE CountInv'
  <2>1. request[t].step = "authorized" /\ UNCHANGED published
    BY <1>7 DEF Commit
  <2>2. t \notin Begun /\ t \notin Back
    BY <2>1 DEF Begun, Back
  <2>3. CASE Tell(t, "refused") /\ UNCHANGED site
    BY <1>2, <1>3, <2>1, <2>2, <2>3, TransferCounts DEF UnderWay, site
  <2>4. CASE /\ policy' = policy + 1 /\ UNCHANGED <<told, lease>>
             /\ request' = [request EXCEPT ![t].step = "committed", ![t].policy = policy + 1]
    <3>1. /\ request'[t].step = "committed" /\ request'[t].policy = policy + 1
          /\ \A u \in Transfers \ {t} : request'[u] = request[u]
      BY <1>2, <2>1, <2>4 DEF AskedRequest
    <3>2. t \in Begun'
      BY <3>1 DEF Begun
    <3>3. request'[t].policy >= 1
      BY <1>2, <3>1
    <3>4. lease' \in Transfers \cup {None} /\ published'.policy >= 1
      BY <1>2, <2>1, <2>4
    <3>5. \A u \in Transfers \ {t} : told'[u] = told[u]
      BY <2>4
    <3> QED BY <2>2, <2>4, <3>1, <3>2, <3>3, <3>4, <3>5, TransferCounts
  <2> QED BY <1>7, <2>3, <2>4 DEF Commit
<1>8. ASSUME Refresh(t) \/ RefreshFails(t) PROVE CountInv'
  <2>1. request[t].step = "committed" /\ UNCHANGED policy
    BY <1>8 DEF Refresh, RefreshFails, site
  <2>2. t \in Begun /\ t \notin Back
    BY <2>1 DEF Begun, Back
  <2>3. published'.policy >= 1
    <3>1. published' = published \/ published' = Snapshot(request[t].target, request[t].policy)
      BY <1>8 DEF Refresh, RefreshFails
    <3> QED BY <1>2, <2>1, <3>1 DEF Snapshot, UnderWay
  <2>4. CASE Tell(t, "done")
    BY <1>3, <2>1, <2>2, <2>3, <2>4, TransferCounts DEF UnderWay
  <2>5. CASE Move(t, "compensating") /\ UNCHANGED <<told, lease>>
    <3>1. /\ request'[t].step = "compensating" /\ request'[t].policy = request[t].policy
          /\ \A u \in Transfers \ {t} : request'[u] = request[u]
      BY <1>2, <2>1, <2>5 DEF Move, AskedRequest
    <3>2. t \in Begun'
      BY <3>1 DEF Begun
    <3> QED BY <1>2, <2>1, <2>2, <2>3, <2>5, <3>1, <3>2, TransferCounts DEF UnderWay
  <2> QED BY <1>8, <2>4, <2>5 DEF Refresh, RefreshFails
<1>9. ASSUME Compensate(t) PROVE CountInv'
  <2>1. request[t].step = "compensating"
    BY <1>9 DEF Compensate
  <2>2. t \in Begun /\ t \notin Back
    BY <2>1 DEF Begun, Back
  <2>3. CASE /\ policy' = policy + 1 /\ UNCHANGED <<published, told, lease>>
             /\ request' = [request EXCEPT ![t].step = "restored", ![t].policy = policy + 1]
    <3>1. /\ request'[t].step = "restored" /\ request'[t].policy = policy + 1
          /\ \A u \in Transfers \ {t} : request'[u] = request[u]
      BY <1>2, <2>1, <2>3 DEF AskedRequest
    <3>2. t \in Begun' /\ t \in Back'
      BY <3>1 DEF Begun, Back
    <3>3. request'[t].policy >= 1
      BY <1>2, <3>1
    <3> QED BY <1>2, <2>1, <2>2, <2>3, <3>1, <3>2, <3>3, TransferCounts
  <2>4. CASE /\ published' = Cleared(request[t].policy) \/ UNCHANGED published
             /\ Tell(t, "repair_required") /\ UNCHANGED site
    <3>1. published'.policy >= 1
      BY <1>2, <2>1, <2>4 DEF Cleared, UnderWay
    <3> QED BY <1>3, <2>1, <2>2, <2>4, <3>1, TransferCounts DEF UnderWay, site
  <2> QED BY <1>9, <2>3, <2>4 DEF Compensate
<1>10. ASSUME RouteUnread(t) \/ RefreshRestored(t) \/ RestoredUnpublished(t) PROVE CountInv'
  <2>1. /\ request[t].step \in UnderWay /\ UNCHANGED policy
        /\ Tell(t, "repair_required")
    BY <1>10 DEF RouteUnread, RefreshRestored, RestoredUnpublished, site, UnderWay
  <2>2. \/ published' = published
        \/ \E p \in {request[t].policy, request[t].policy - 1} : published' = Cleared(p)
        \/ published' = Snapshot(request[t].expected, request[t].policy)
    BY <1>10 DEF RouteUnread, RefreshRestored, RestoredUnpublished
  <2>3. published'.policy >= 1
    BY <1>2, <2>1, <2>2 DEF Cleared, Snapshot
  <2> QED BY <1>3, <2>1, <2>3, TransferCounts DEF UnderWay
<1>11. ASSUME CommitUnanswered(t) PROVE CountInv'
  <2>1. /\ request[t].step = "authorized" /\ policy' = policy + 1 /\ UNCHANGED published
        /\ lease' = None /\ told' = [told EXCEPT ![t] = "failed"]
        /\ request' = [request EXCEPT ![t].step = "done", ![t].policy = policy + 1]
    BY <1>11 DEF CommitUnanswered
  <2>2. /\ request'[t].step = "done" /\ told'[t] # None
        /\ \A u \in Transfers \ {t} : request'[u] = request[u] /\ told'[u] = told[u]
    BY <1>2, <2>1 DEF AskedRequest, OwnersDiffer
  <2>3. t \notin Begun /\ t \in Begun' /\ t \in Back'
    BY <2>1, <2>2 DEF Begun, Back
  <2>4. lease' \in Transfers \cup {None} /\ published'.policy >= 1
    BY <1>2, <2>1
  <2> QED BY <2>1, <2>2, <2>3, <2>4, TransferCounts DEF UnderWay
<1>12. ASSUME RestorationFails(t) PROVE CountInv'
  <2>1. /\ request[t].step = "compensating" /\ Tell(t, "repair_required")
        /\ policy' = policy \/ policy' = policy + 1
        /\ published' = published \/ published' = Cleared(request[t].policy)
    BY <1>12 DEF RestorationFails, site
  <2>2. t \in Begun /\ t \notin Back
    BY <2>1 DEF Begun, Back
  <2>3. published'.policy >= 1
    BY <1>2, <2>1 DEF Cleared, UnderWay
  <2> QED BY <1>3, <2>1, <2>2, <2>3, TransferCounts DEF UnderWay
<1> QED BY <1>1, <1>5, <1>6, <1>7, <1>8, <1>9, <1>10, <1>11, <1>12

\* A manager acts on the team that was checked.
LEMMA OthersKeepTypes ==
  ASSUME OwnersDiffer, IsFiniteSet(Transfers), OwnershipInv, TeamsInv, CountInv, OthersNext
  PROVE  TeamsInv' /\ CountInv'
<1>1. lease' \in Transfers \cup {None}
  BY DEF OthersNext, UserLeaves, KeyEnds, GrantPlatformAdmin, RevokePlatformAdmin, CheckMember,
         ActMember, CheckDeletion, ActDeletion, MergeDepartments, LeaseLapses, CountInv
<1>2. UNCHANGED <<policy, published, request, told>>
  BY OthersLeaveTheSite
<1>3. CountInv'
  BY <1>1, <1>2 DEF CountInv, Begun, Back
<1>4. ASSUME NEW u \in Users,
             UserLeaves(u) \/ KeyEnds(u) \/ GrantPlatformAdmin(u) \/ RevokePlatformAdmin(u)
      PROVE  TeamsInv'
  BY <1>4 DEF UserLeaves, KeyEnds, GrantPlatformAdmin, RevokePlatformAdmin, TeamsInv, teams
<1>5. ASSUME NEW m \in Managers, CheckMember(m) PROVE TeamsInv'
  <2>1. PICK team \in live, u \in Users, op \in {"admin", "publisher", "remove"} :
          work' = [work EXCEPT ![m] = [op |-> op, team |-> team, user |-> u]]
    BY <1>5 DEF CheckMember
  <2>2. team \in Teams
    BY DEF TeamsInv
  <2> DEFINE task == [op |-> op, team |-> team, user |-> u]
  <2>3. task \in Tasks /\ task.op = op /\ task.team \in Teams /\ task.user \in Users
    BY <2>2 DEF Tasks
  <2> HIDE DEF task
  <2>4. work' \in [Managers -> Tasks] /\ work'[m] = task
        /\ \A n \in Managers \ {m} : work'[n] = work[n]
    BY <2>1, <2>3 DEF TeamsInv, task
  <2>5. task.op # "delete"
    BY DEF task
  <2>6. UNCHANGED <<employed, keyed, admins, live, role>>
    BY <1>5 DEF CheckMember, people, teams
  <2> QED BY <2>3, <2>4, <2>5, <2>6 DEF TeamsInv
<1>6. ASSUME NEW m \in Managers, CheckDeletion(m) PROVE TeamsInv'
  <2>1. PICK team \in Custom \cap live :
          work' = [work EXCEPT ![m] = [op |-> "delete", team |-> team, user |-> None]]
    BY <1>6 DEF CheckDeletion
  <2> DEFINE task == [op |-> "delete", team |-> team, user |-> None]
  <2>2. task \in Tasks /\ task.op = "delete" /\ task.team \in Teams
    BY DEF Tasks, Teams
  <2> HIDE DEF task
  <2>3. work' \in [Managers -> Tasks] /\ work'[m] = task
        /\ \A n \in Managers \ {m} : work'[n] = work[n]
    BY <2>1, <2>2 DEF TeamsInv, task
  <2>4. UNCHANGED <<employed, keyed, admins, live, role>>
    BY <1>6 DEF CheckDeletion, people, teams
  <2> QED BY <2>2, <2>3, <2>4 DEF TeamsInv
<1>7. ASSUME NEW m \in Managers, ActMember(m) \/ ActDeletion(m) PROVE TeamsInv'
  <2>1. work[m] \in Tasks /\ work' = [work EXCEPT ![m].op = "done"]
    BY <1>7 DEF ActMember, ActDeletion, TeamsInv
  <2> DEFINE task == [work[m] EXCEPT !.op = "done"]
  <2>2. task \in Tasks /\ task.op = "done"
    BY <2>1 DEF Tasks
  <2> HIDE DEF task
  <2>3. work' \in [Managers -> Tasks] /\ work'[m] = task
        /\ \A n \in Managers \ {m} : work'[n] = work[n]
    BY <2>1, <2>2 DEF TeamsInv, task
  <2>4. UNCHANGED <<employed, keyed, admins>> /\ live' \subseteq live
    BY <1>7 DEF ActMember, ActDeletion, people
  <2>5. role' \in [Teams -> [Users -> {"admin", "publisher", None}]]
    <3>1. CASE ActMember(m)
      <4>1. /\ work[m].op \in {"admin", "publisher", "remove"}
            /\ work[m].team \in Teams /\ work[m].user \in Users
        BY <3>1 DEF ActMember, TeamsInv
      <4>2. \/ role' = [role EXCEPT ![work[m].team][work[m].user] = None]
            \/ /\ role' = [role EXCEPT ![work[m].team][work[m].user] = work[m].op]
               /\ work[m].op \in {"admin", "publisher"}
            \/ role' = role
        BY <3>1, <4>1 DEF ActMember
      <4> QED BY <4>1, <4>2 DEF TeamsInv
    <3>2. CASE ActDeletion(m)
      BY <3>2 DEF ActDeletion, TeamsInv
    <3> QED BY <1>7, <3>1, <3>2
  <2> QED BY <2>2, <2>3, <2>4, <2>5 DEF TeamsInv
<1>8. ASSUME MergeDepartments PROVE TeamsInv'
  <2>1. UNCHANGED <<employed, keyed, admins, work>> /\ live' \subseteq live
    BY <1>8 DEF MergeDepartments, people
  <2>2. role' \in [Teams -> [Users -> {"admin", "publisher", None}]]
    <3>1. PICK source \in Departments \cap live, target \in Departments \cap live :
            role' = [role EXCEPT
              ![target] = [u \in Users |-> IF role[source][u] # None THEN role[source][u]
                                           ELSE @[u]],
              ![source] = [u \in Users |-> None]]
      BY <1>8 DEF MergeDepartments
    <3>2. source \in Teams /\ target \in Teams
      BY DEF Teams
    <3> QED BY <3>1, <3>2 DEF TeamsInv
  <2> QED BY <2>1, <2>2 DEF TeamsInv
<1>9. ASSUME LeaseLapses PROVE TeamsInv'
  BY <1>9 DEF LeaseLapses, TeamsInv, people, teams
<1> QED BY <1>3, <1>4, <1>5, <1>6, <1>7, <1>8, <1>9 DEF OthersNext

LEMMA TypesNext ==
  ASSUME OwnersDiffer, IsFiniteSet(Transfers), OwnershipTypesInv, [OwnerNext]_ownerVars
  PROVE  OwnershipTypesInv'
<1>1. OwnershipInv'
  BY NextInv DEF OwnershipTypesInv
<1>2. CASE UNCHANGED ownerVars
  BY <1>1, <1>2 DEF ownerVars, OwnershipTypesInv, TeamsInv, CountInv, Begun, Back
<1>3. CASE OthersNext
  BY <1>1, <1>3, OthersKeepTypes DEF OwnershipTypesInv
<1>4. ASSUME NEW t \in Transfers,
             \/ Ask(t) \/ Authorize(t) \/ Commit(t) \/ CommitUnanswered(t) \/ Refresh(t)
             \/ RouteUnread(t) \/ RefreshFails(t) \/ Compensate(t) \/ RestorationFails(t)
             \/ RefreshRestored(t) \/ RestoredUnpublished(t)
      PROVE  OwnershipTypesInv'
  BY <1>1, <1>4, TransferKeepsTypes DEF OwnershipTypesInv
<1> QED
  BY <1>2, <1>3, <1>4 DEF OwnerNext, OthersNext

\* People, teams, requests and answers keep their types, and every transfer
\* moves the policy version twice at most: when it commits, and when the site
\* goes back (site-lifecycle.js, transfer-owner.js).
THEOREM OwnershipTypeCorrect ==
  ASSUME OwnersDiffer, IsFiniteSet(Transfers)
  PROVE  OwnershipSpec => []OwnershipTypeOK
<1>1. ASSUME OwnershipTypesInv PROVE OwnershipTypeOK
  <2>1. policy \in 1 .. 1 + 2 * Cardinality(Transfers)
    BY <1>1, CountsAreFinite DEF OwnershipTypesInv, OwnershipInv, RequestsInv, CountInv
  <2>2. published.policy \in 1 .. policy /\ published.shows \in Users \cup {None}
    BY <1>1 DEF OwnershipTypesInv, OwnershipInv, RequestsInv, PoliciesInv, CountInv
  <2>3. \A t \in Transfers : request[t].step = "done" <=> told[t] # None
    BY <1>1 DEF OwnershipTypesInv, OwnershipInv, RequestsInv, CountInv
  <2>4. /\ employed \subseteq Users /\ keyed \subseteq Users /\ admins \subseteq Users
        /\ live \subseteq Teams /\ lease \in Transfers \cup {None}
        /\ role \in [Teams -> [Users -> {"admin", "publisher", None}]]
        /\ owner \in Users \cup Teams
    BY <1>1 DEF OwnershipTypesInv, OwnershipInv, RequestsInv, TeamsInv, CountInv, Owners
  <2> QED BY <2>1, <2>2, <2>3, <2>4 DEF OwnershipTypeOK
<1>2. OwnerInit => OwnershipTypesInv
  BY InitInv, TypesInit DEF OwnershipTypesInv
<1>3. OwnershipTypesInv /\ [OwnerNext]_ownerVars => OwnershipTypesInv'
  BY TypesNext
<1> QED
  BY <1>1, <1>2, <1>3, PTL DEF OwnershipSpec

=============================================================================
