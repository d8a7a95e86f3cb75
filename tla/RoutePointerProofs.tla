------------------------- MODULE RoutePointerProofs -------------------------
(***************************************************************************)
(* Theorems about the publication protocol of a hostname, for any set of   *)
(* owners and any bounds on generations and policy versions.               *)
(***************************************************************************)
EXTENDS RoutePointer, TLAPS

\* The site that claims the hostname has a route.
ClaimantHasRoute == claimant # None => route[claimant] # None

TypeInv == TypeOK /\ ClaimantHasRoute

----------------------------------------------------------------------------
(* Type correctness.                                                       *)

\* The key of a committed row is a snapshot key.
LEMMA KeyOfRow == ASSUME NEW r \in Row PROVE KeyOf(r) \in Key
BY DEF Row, Key, KeyOf

\* A row, or the key of one, makes a durable pointer or a tombstone.
LEMMA DurableForRow ==
  ASSUME NEW r \in Row \cup Key, NEW isCleared \in BOOLEAN
  PROVE  DurableFor(r, isCleared) \in DurablePointer
BY DEF Row, Key, DurableFor, DurablePointer

\* The row that a deletion commits is a row.
LEMMA DeletedRowIsRow ==
  ASSUME NEW r \in Row, r.gen < MaxGeneration
  PROVE  [r EXCEPT !.gen = @ + 1, !.status = "deleted"] \in Row
<1> DEFINE next == [r EXCEPT !.gen = @ + 1]
<1>1. next \in Row
  BY RoutePointerAssumption DEF Row
<1>2. [next EXCEPT !.status = "deleted"] \in Row
  BY <1>1 DEF Row
<1> QED
  BY <1>2

\* What the steps of the Durable Object know of the operation.
LEMMA OperationParts ==
  ASSUME op \in Operation
  PROVE  /\ op.step \in WriteSteps => op \in [step : WriteSteps, row : Row, fenced : BOOLEAN]
         /\ op.step \in ClearSteps => op \in [step : ClearSteps, expected : Key]
BY DEF Operation, WriteSteps, ClearSteps

\* The next step of an operation is still an operation, on the same route.
LEMMA NextWriteStep ==
  ASSUME op \in Operation, op.step \in WriteSteps, NEW step \in WriteSteps
  PROVE  LET next == [op EXCEPT !.step = step]
         IN /\ next \in Operation /\ next # None /\ next.step = step
            /\ next.row = op.row /\ next.fenced = op.fenced
<1>1. op \in [step : WriteSteps, row : Row, fenced : BOOLEAN]
  BY OperationParts
<1>2. [op EXCEPT !.step = step] \in Operation
  BY <1>1 DEF Operation
<1> QED
  BY <1>1, <1>2, NoneAssumption

\* The same for a clear.
LEMMA NextClearStep ==
  ASSUME op \in Operation, op.step \in ClearSteps, NEW step \in ClearSteps
  PROVE  LET next == [op EXCEPT !.step = step]
         IN /\ next \in Operation /\ next # None /\ next.step = step
            /\ next.expected = op.expected
<1>1. op \in [step : ClearSteps, expected : Key]
  BY OperationParts
<1>2. [op EXCEPT !.step = step] \in Operation
  BY <1>1 DEF Operation
<1> QED
  BY <1>1, <1>2, NoneAssumption

\* An accepted write starts an operation.
LEMMA FirstWriteStep ==
  ASSUME NEW r \in Row, NEW step \in WriteSteps, NEW fenced \in BOOLEAN
  PROVE  LET first == [step |-> step, row |-> r, fenced |-> fenced]
         IN first \in Operation /\ first # None
BY NoneAssumption DEF Operation

\* An accepted clear starts an operation.
LEMMA FirstClearStep ==
  ASSUME NEW k \in Key
  PROVE  LET first == [step |-> "tombstone", expected |-> k]
         IN first \in Operation /\ first # None
BY NoneAssumption DEF Operation, ClearSteps

\* The initial state has its types.
LEMMA TypeInvInit == Init => TypeInv
BY DEF Init, TypeInv, TypeOK, ClaimantHasRoute

\* Every step keeps the types.
LEMMA TypeInvNext == TypeInv /\ [Next]_vars => TypeInv'
<1> SUFFICES ASSUME TypeInv, [Next]_vars PROVE TypeInv'
  OBVIOUS
<1> USE NoneAssumption DEF TypeInv, TypeOK, ClaimantHasRoute, authority, kv, history
<1>1. ASSUME NEW s \in Sites,
             CreateSite(s) \/ CommitRow(s) \/ DeleteActiveSite(s) \/ DeleteInactiveSite(s)
               \/ EndReuseHold(s)
      PROVE  TypeInv'
  <2>1. CASE CreateSite(s)
    <3> DEFINE initial == [site |-> s, gen |-> 0, pol |-> 1, status |-> "serving"]
    <3>1. initial \in Row
      BY RoutePointerAssumption DEF Row
    <3> QED
      BY <2>1, <3>1 DEF CreateSite
  <2>2. CASE CommitRow(s)
    <3>1. PICK next \in Row :
            /\ route' = [route EXCEPT ![s] = next]
            /\ rows' = rows \cup {next}
      BY <2>2 DEF CommitRow
    <3> QED
      BY <2>2, <3>1 DEF CommitRow
  <2>3. ASSUME DeletableRow(s) PROVE DeletedRow(s) \in Row
    <3>1. route[s] \in Row /\ route[s].gen < MaxGeneration
      BY <2>3 DEF DeletableRow
    <3> QED
      BY <3>1, DeletedRowIsRow DEF DeletedRow
  <2>4. CASE DeleteActiveSite(s)
    BY <2>3, <2>4 DEF DeleteActiveSite
  <2>5. CASE DeleteInactiveSite(s)
    BY <2>3, <2>5 DEF DeleteInactiveSite
  <2>6. CASE EndReuseHold(s)
    BY <2>6 DEF EndReuseHold
  <2> QED
    BY <1>1, <2>1, <2>2, <2>4, <2>5, <2>6
<1>2. ASSUME NEW r \in rows, StartWrite(r) PROVE TypeInv'
  <2>1. op' \in Operation
    BY <1>2, FirstWriteStep DEF StartWrite, OwnerFenceRequired, WriteSteps
  <2> QED
    BY <1>2, <2>1 DEF StartWrite
<1>3. CASE PersistOwnerFence
  <2>1. op \in [step : WriteSteps, row : Row, fenced : BOOLEAN]
    BY <1>3, OperationParts DEF PersistOwnerFence, At, WriteSteps
  <2>2. op' \in Operation
    BY <1>3, NextWriteStep DEF PersistOwnerFence, At, WriteSteps
  <2> QED
    BY <1>3, <2>1, <2>2, DurableForRow DEF PersistOwnerFence
<1>4. CASE PutSnapshot
  <2>1. op \in [step : WriteSteps, row : Row, fenced : BOOLEAN]
    BY <1>4, OperationParts DEF PutSnapshot, At, WriteSteps
  <2>2. op' \in Operation
    BY <1>4, NextWriteStep DEF PutSnapshot, At, WriteSteps
  <2>3. op.row.status \in {"serving", "deleted"}
    BY <2>1 DEF Row
  <2> QED
    BY <1>4, <2>1, <2>2, <2>3, KeyOfRow DEF PutSnapshot
<1>5. CASE PutPointer
  <2>1. op \in [step : WriteSteps, row : Row, fenced : BOOLEAN]
    BY <1>5, OperationParts DEF PutPointer, At, WriteSteps
  <2>2. op' \in Operation \cup {None}
    BY <1>5, NextWriteStep DEF PutPointer, At, WriteSteps
  <2> QED
    BY <1>5, <2>1, <2>2, KeyOfRow DEF PutPointer
<1>6. CASE PersistPointer
  <2>1. op \in [step : WriteSteps, row : Row, fenced : BOOLEAN]
    BY <1>6, OperationParts DEF PersistPointer, At, WriteSteps
  <2> QED
    BY <1>6, <2>1, DurableForRow DEF PersistPointer
<1>7. ASSUME NEW r \in rows, StartClear(KeyOf(r)) PROVE TypeInv'
  <2>1. op' \in Operation
    BY <1>7, KeyOfRow, FirstClearStep DEF StartClear
  <2> QED
    BY <1>7, <2>1 DEF StartClear
<1>8. CASE PutTombstone
  <2>1. op \in [step : ClearSteps, expected : Key]
    BY <1>8, OperationParts DEF PutTombstone, At, ClearSteps
  <2>2. op' \in Operation
    BY <1>8, NextClearStep DEF PutTombstone, At, ClearSteps
  <2> QED
    BY <1>8, <2>1, <2>2, DurableForRow DEF PutTombstone
<1>9. CASE DeletePointer
  <2>1. op' \in Operation
    BY <1>9, NextClearStep DEF DeletePointer, At, ClearSteps
  <2> QED
    BY <1>9, <2>1 DEF DeletePointer
<1>10. CASE ConfirmCleared
  <2>1. op \in [step : ClearSteps, expected : Key]
    BY <1>10, OperationParts DEF ConfirmCleared, At, ClearSteps
  <2> QED
    BY <1>10, <2>1 DEF ConfirmCleared
<1>11. CASE EndEarly
  BY <1>11 DEF EndEarly
<1>12. CASE UNCHANGED vars
  BY <1>12 DEF vars
<1> QED
  BY <1>1, <1>2, <1>3, <1>4, <1>5, <1>6, <1>7, <1>8, <1>9, <1>10, <1>11, <1>12
  DEF Next, Authority, Write, Clear

\* The types, with what makes them inductive.
THEOREM TypeInvariance == Spec => []TypeInv
BY TypeInvInit, TypeInvNext, PTL DEF Spec

\* Every variable keeps its type.
THEOREM TypeCorrect == Spec => []TypeOK
<1>1. TypeInv => TypeOK
  BY DEF TypeInv
<1> QED
  BY <1>1, TypeInvInit, TypeInvNext, PTL DEF Spec

----------------------------------------------------------------------------
(* The safety of publication.  What a write checked when it began is still *)
(* true at each of its steps, because the object runs one operation at a   *)
(* time.                                                                   *)

\* The published pointer may be replaced by the row: the same owner's and
\* not newer, or another owner's deleted route.
MaySucceed(r) ==
  pointer # None =>
    \/ pointer.site = r.site /\ ~Ahead(pointer, r)
    \/ pointer.site # r.site /\ stored[pointer] = "deleted"

WriteIsCurrent ==
  /\ At("fence") \/ At("snapshot") \/ At("pointer") => MaySucceed(op.row)
  /\ At("snapshot") \/ At("pointer") \/ At("durable") =>
       (durable # None => durable.site = op.row.site)
  /\ At("pointer") => stored[KeyOf(op.row)] = op.row.status
  /\ At("durable") => pointer = KeyOf(op.row)

ClearIsOwn == At("tombstone") /\ pointer # None => pointer.site = op.expected.site

ProtocolInv == PointerResolves /\ FenceOnlyOverDeleted /\ WriteIsCurrent /\ ClearIsOwn

\* The initial state satisfies the protocol invariant.
LEMMA ProtocolInvInit == Init => ProtocolInv
BY DEF Init, ProtocolInv, PointerResolves, FenceOnlyOverDeleted, WriteIsCurrent, ClearIsOwn, At

\* The key of a row names the site of the row.
LEMMA KeyParts == ASSUME NEW r \in Row PROVE KeyOf(r).site = r.site
BY DEF KeyOf

\* Every step keeps the protocol invariant.
LEMMA ProtocolInvNext ==
  ASSUME TypeInv, ProtocolInv, [Next]_vars
  PROVE  ProtocolInv'
<1> USE NoneAssumption DEF TypeInv, TypeOK, authority, kv, history
<1> USE DEF ProtocolInv, PointerResolves, FenceOnlyOverDeleted, WriteIsCurrent, ClearIsOwn,
            MaySucceed, At
<1>1. CASE UNCHANGED <<kv, durable, op>>
  BY <1>1
<1>2. Authority \/ UNCHANGED vars => UNCHANGED <<kv, durable, op>>
  BY DEF Authority, CreateSite, CommitRow, DeleteActiveSite, DeleteInactiveSite, EndReuseHold, vars
<1>3. ASSUME NEW r \in rows, StartWrite(r) PROVE ProtocolInv'
  <2>1. r \in Row /\ op' # None /\ op'.row = r
        /\ op'.step = (IF OwnerFenceRequired(r) THEN "fence" ELSE "snapshot")
    BY <1>3, FirstWriteStep DEF StartWrite, OwnerFenceRequired, WriteSteps
  <2>2. MaySucceed(r)
    BY <1>3 DEF StartWrite, WriteAllowed, OwnerReplacementAllowed, PublishedPointerAccepts
  <2>3. ~OwnerFenceRequired(r) /\ durable # None => durable.site = r.site
    BY DEF OwnerFenceRequired
  <2> QED
    BY <1>3, <2>1, <2>2, <2>3 DEF StartWrite
<1>4. CASE PersistOwnerFence
  <2>1. op.row \in Row
    BY <1>4, OperationParts DEF PersistOwnerFence, WriteSteps
  <2>2. durable'.site = op.row.site /\ op'.row = op.row /\ op'.step = "snapshot" /\ op' # None
    BY <1>4, <2>1, NextWriteStep DEF PersistOwnerFence, DurableFor, WriteSteps
  <2> QED
    BY <1>4, <2>1, <2>2 DEF PersistOwnerFence
<1>5. CASE PutSnapshot
  <2>1. op.row \in Row /\ KeyOf(op.row) \in Key /\ op.row.status \in {"serving", "deleted"}
    BY <1>5, OperationParts, KeyOfRow DEF PutSnapshot, WriteSteps, Row
  <2>2. op'.row = op.row /\ op'.step = "pointer" /\ op' # None
    BY <1>5, NextWriteStep DEF PutSnapshot, WriteSteps
  <2>3. stored'[KeyOf(op.row)] = op.row.status
        /\ \A k \in Key : k # KeyOf(op.row) => stored'[k] = stored[k]
    BY <1>5, <2>1 DEF PutSnapshot
  <2>4. KeyOf(op.row).site = op.row.site
    BY <2>1, KeyParts
  <2> QED
    BY <1>5, <2>1, <2>2, <2>3, <2>4 DEF PutSnapshot
<1>6. CASE PutPointer
  <2>1. op.row \in Row /\ KeyOf(op.row) \in Key /\ op.row.status \in {"serving", "deleted"}
    BY <1>6, OperationParts, KeyOfRow DEF PutPointer, WriteSteps, Row
  <2>2. KeyOf(op.row).site = op.row.site
    BY <2>1, KeyParts
  <2>3. op' # None => op'.row = op.row /\ op'.step = "durable"
    BY <1>6, NextWriteStep DEF PutPointer, WriteSteps
  <2> QED
    BY <1>6, <2>1, <2>2, <2>3 DEF PutPointer
<1>7. CASE PersistPointer
  <2>1. op.row \in Row
    BY <1>7, OperationParts DEF PersistPointer, WriteSteps
  <2>2. durable'.site = op.row.site /\ pointer.site = op.row.site
    BY <1>7, <2>1, KeyParts DEF PersistPointer, DurableFor
  <2> QED
    BY <1>7, <2>2 DEF PersistPointer
<1>8. ASSUME NEW r \in rows, StartClear(KeyOf(r)) PROVE ProtocolInv'
  <2>1. op' # None /\ op'.step = "tombstone" /\ op'.expected = KeyOf(r)
    BY <1>8, KeyOfRow, FirstClearStep DEF StartClear
  <2> QED
    BY <1>8, <2>1 DEF StartClear, PublishedCanBeCleared
<1>9. CASE PutTombstone
  <2>1. op' # None /\ op'.step = "delete"
    BY <1>9, NextClearStep DEF PutTombstone, ClearSteps
  <2>2. durable'.site = op.expected.site
    BY <1>9 DEF PutTombstone, DurableFor
  <2> QED
    BY <1>9, <2>1, <2>2 DEF PutTombstone
<1>10. CASE DeletePointer
  <2>1. op' # None /\ op'.step = "confirm"
    BY <1>10, NextClearStep DEF DeletePointer, ClearSteps
  <2> QED
    BY <1>10, <2>1 DEF DeletePointer
<1>11. CASE ConfirmCleared
  BY <1>11 DEF ConfirmCleared
<1>12. CASE EndEarly
  BY <1>12 DEF EndEarly
<1> QED
  BY <1>1, <1>2, <1>3, <1>4, <1>5, <1>6, <1>7, <1>8, <1>9, <1>10, <1>11, <1>12
  DEF Next, Write, Clear

\* The write in progress stays current, and snapshots precede pointers: the
\* strengthening under which the protocol's safety is inductive.
THEOREM ProtocolInvariance == Spec => []ProtocolInv
<1>1. TypeInv /\ ProtocolInv /\ [Next]_vars => ProtocolInv'
  BY ProtocolInvNext
<1> QED
  BY <1>1, ProtocolInvInit, TypeInvariance, PTL DEF Spec

\* The pointer of a hostname never leads to a snapshot that is not stored.
THEOREM PointerAlwaysResolves == Spec => []PointerResolves
<1>1. ProtocolInv => PointerResolves
  BY DEF ProtocolInv
<1> QED
  BY <1>1, ProtocolInvariance, PTL

\* Durable state of one owner stands over another's pointer only when that
\* one's route is deleted.
THEOREM FencesOnlyOverDeleted == Spec => []FenceOnlyOverDeleted
<1>1. ProtocolInv => FenceOnlyOverDeleted
  BY DEF ProtocolInv
<1> QED
  BY <1>1, ProtocolInvariance, PTL

----------------------------------------------------------------------------
(* The refinement of PublishedRoute.tla.                                   *)

\* No tuple is ahead of itself.
LEMMA AheadIsStrict == ASSUME NEW k \in Key PROVE ~Ahead(k, k)
BY RoutePointerAssumption DEF Key, Ahead

\* A storage call other than these leaves what a router sees as it is.
LEMMA RouterSeesNothing ==
  ASSUME [Next]_vars, ~PutSnapshot, ~PutPointer, ~DeletePointer
  PROVE  UNCHANGED VisibleRoute
<1>1. UNCHANGED <<pointer, stored>>
  BY DEF Next, Authority, Write, Clear, CreateSite, CommitRow, DeleteActiveSite,
         DeleteInactiveSite, EndReuseHold, StartWrite, PersistOwnerFence, PersistPointer,
         StartClear, PutTombstone, ConfirmCleared, EndEarly, authority, kv, history, vars
<1> QED
  BY <1>1 DEF VisibleRoute

\* The route that a pointer with a stored snapshot shows to a router.
Shown(k, s) == [site |-> k.site, gen |-> k.gen, pol |-> k.pol, status |-> s]

\* What a router sees of a resolving pointer is a published route.
LEMMA ShownIsPublished ==
  ASSUME NEW k \in Key, NEW s \in {"serving", "deleted"}
  PROVE  Shown(k, s) \in Router!Published /\ Shown(k, s) # None
<1>1. Shown(k, s) \in Row
  BY DEF Shown, Key, Row
<1> QED
  BY <1>1, NoneAssumption, RoutePointerAssumption DEF Shown, Row, Router!Published

\* Every step is a step of PublishedRoute.tla, or changes nothing it shows.
LEMMA RouterStep ==
  ASSUME TypeInv, TypeInv', ProtocolInv, ProtocolInv', [Next]_vars
  PROVE  Router!Next \/ UNCHANGED VisibleRoute
<1> USE DEF At, kv, authority, history
<1>1. pointer # None => pointer \in Key /\ stored[pointer] \in {"serving", "deleted"}
                        /\ VisibleRoute = Shown(pointer, stored[pointer])
  BY DEF TypeInv, TypeOK, ProtocolInv, PointerResolves, VisibleRoute, Shown
<1>2. pointer' # None => pointer' \in Key /\ stored'[pointer'] \in {"serving", "deleted"}
                         /\ VisibleRoute' = Shown(pointer', stored'[pointer'])
  BY DEF TypeInv, TypeOK, ProtocolInv, PointerResolves, VisibleRoute, Shown
<1>3. pointer = None => VisibleRoute = None
  BY DEF VisibleRoute
<1>4. CASE PutSnapshot
  <2>1. op.row \in Row /\ KeyOf(op.row) \in Key /\ pointer' = pointer
    BY <1>4, OperationParts, KeyOfRow DEF PutSnapshot, WriteSteps, TypeInv, TypeOK
  <2>2. CASE pointer = KeyOf(op.row)
    <3>1. pointer # None /\ ~Ahead(pointer, pointer)
      BY <2>1, <2>2, NoneAssumption, AheadIsStrict
    <3>2. VisibleRoute' \in Router!Published
      BY <1>2, <2>1, <3>1, ShownIsPublished
    <3>3. VisibleRoute.site = VisibleRoute'.site /\ ~Router!IsAhead(VisibleRoute, VisibleRoute')
      BY <1>1, <1>2, <2>1, <3>1 DEF Shown, Router!IsAhead, Ahead
    <3> QED
      BY <3>2, <3>3 DEF Router!Next, Router!Publish
  <2>3. CASE pointer # KeyOf(op.row)
    <3>1. pointer # None => stored'[pointer] = stored[pointer]
      BY <1>1, <1>4, <2>1, <2>3 DEF PutSnapshot, TypeInv, TypeOK
    <3> QED
      BY <2>1, <3>1 DEF VisibleRoute
  <2> QED
    BY <2>2, <2>3
<1>5. CASE PutPointer
  <2>1. op.row \in Row /\ KeyOf(op.row) \in Key /\ pointer' = KeyOf(op.row) /\ stored' = stored
    BY <1>5, OperationParts, KeyOfRow DEF PutPointer, WriteSteps, TypeInv, TypeOK
  <2>2. pointer' # None /\ VisibleRoute' \in Router!Published
    BY <1>2, <2>1, NoneAssumption, ShownIsPublished
  <2>3. MaySucceed(op.row)
    BY <1>5 DEF PutPointer, ProtocolInv, WriteIsCurrent
  <2>4. VisibleRoute'.site = op.row.site /\ VisibleRoute'.gen = op.row.gen
        /\ VisibleRoute'.pol = op.row.pol
    BY <1>2, <2>1, <2>2 DEF Shown, KeyOf
  <2>5. CASE pointer = None
    BY <1>3, <2>2, <2>5 DEF Router!Next, Router!Publish
  <2>6. CASE pointer # None /\ pointer.site = op.row.site /\ ~Ahead(pointer, op.row)
    <3>1. VisibleRoute.site = VisibleRoute'.site /\ ~Router!IsAhead(VisibleRoute, VisibleRoute')
      BY <1>1, <2>4, <2>6 DEF Shown, Router!IsAhead, Ahead
    <3> QED
      BY <2>2, <3>1 DEF Router!Next, Router!Publish
  <2>7. CASE pointer # None /\ pointer.site # op.row.site /\ stored[pointer] = "deleted"
    <3>1. VisibleRoute.site # VisibleRoute'.site /\ VisibleRoute.status = "deleted"
      BY <1>1, <2>4, <2>7 DEF Shown
    <3> QED
      BY <2>2, <3>1 DEF Router!Next, Router!Publish
  <2> QED
    BY <2>3, <2>5, <2>6, <2>7 DEF MaySucceed
<1>6. CASE DeletePointer
  <2>1. pointer' = None /\ VisibleRoute' = None
    BY <1>6 DEF DeletePointer, VisibleRoute
  <2>2. CASE pointer = None
    BY <1>3, <2>1, <2>2
  <2>3. CASE pointer # None
    <3>1. VisibleRoute # None
      BY <1>1, <2>3, ShownIsPublished
    <3> QED
      BY <2>1, <3>1 DEF Router!Next, Router!Withdraw
  <2> QED
    BY <2>2, <2>3
<1> QED
  BY <1>4, <1>5, <1>6, RouterSeesNothing

\* What routers see of a hostname obeys PublishedRoute.tla, at the grain of
\* single storage calls and whatever fails between them.
THEOREM RouterRefinement == Spec => RouterSpec
<1>1. Init => Router!Init
  BY DEF Init, Router!Init, VisibleRoute
<1>2. TypeInv /\ TypeInv' /\ ProtocolInv /\ ProtocolInv' /\ [Next]_vars
        => [Router!Next]_VisibleRoute
  BY RouterStep
<1> QED
  BY <1>1, <1>2, TypeInvariance, ProtocolInvariance, PTL DEF Spec, RouterSpec, Router!Spec

----------------------------------------------------------------------------
(* Delayed writes after a clear.  Until another owner fences the hostname, *)
(* its durable state is the cleared site's: a tombstone that is at least   *)
(* the cleared tuple, or a pointer beyond it.                              *)

\* A clear under way: the durable state is still one that it may clear, then
\* it is its tombstone.
ClearIsFenced ==
  /\ At("tombstone") /\ durable # None =>
       durable.site = op.expected.site /\ ~Ahead(durable, op.expected)
  /\ At("delete") \/ At("confirm") => durable = DurableFor(op.expected, TRUE)

\* What an acknowledged clear of s leaves behind: no route of s up to the
\* cleared tuple is published, durable, or on its way.
WithdrawnIsFenced(s) ==
  withdrawn[s] # None /\ s \notin overtaken =>
    /\ durable # None /\ durable.site = s
    /\ durable.cleared => ~Ahead(withdrawn[s], durable)
    /\ ~durable.cleared => Ahead(durable, withdrawn[s])
    /\ pointer # None /\ pointer.site = s => Ahead(pointer, withdrawn[s])
    /\ (At("fence") \/ At("snapshot") \/ At("pointer") \/ At("durable")) /\ op.row.site = s =>
         Ahead(op.row, withdrawn[s])

ClearInv == ClearIsFenced /\ \A s \in Sites : WithdrawnIsFenced(s)

\* The order of the tuples is total.
LEMMA AheadIsOrder ==
  ASSUME NEW a, NEW b, NEW c,
         a.gen \in Int, a.pol \in Int, b.gen \in Int, b.pol \in Int, c.gen \in Int, c.pol \in Int
  PROVE  /\ ~Ahead(a, a)
         /\ Ahead(a, b) /\ ~Ahead(c, b) => Ahead(a, c)
         /\ ~Ahead(b, a) /\ Ahead(b, c) => Ahead(a, c)
         /\ ~Ahead(b, a) /\ ~Ahead(c, b) => ~Ahead(c, a)
BY DEF Ahead

\* Nothing has been cleared to begin with.
LEMMA ClearInvInit == Init => ClearInv
BY DEF Init, ClearInv, ClearIsFenced, WithdrawnIsFenced, At

\* The parts of rows, keys and durable pointers that are compared are integers.
LEMMA TuplesAreIntegers ==
  ASSUME NEW r \in Key \cup Row \cup DurablePointer
  PROVE  r.gen \in Int /\ r.pol \in Int /\ r.site \in Sites
BY RoutePointerAssumption DEF Key, Row, DurablePointer

\* A write of a withdrawn site that is accepted goes beyond what was cleared.
LEMMA AcceptedIsBeyond ==
  ASSUME TypeInv, NEW s \in Sites, NEW r \in Row, r.site = s,
         WithdrawnIsFenced(s), WriteAllowed(r), withdrawn[s] # None, s \notin overtaken
  PROVE  Ahead(r, withdrawn[s])
<1> USE NoneAssumption DEF TypeInv, TypeOK, WithdrawnIsFenced
<1>1. durable \in DurablePointer /\ durable.site = s /\ withdrawn[s] \in Key
  OBVIOUS
<1>2. /\ durable.gen \in Int /\ durable.pol \in Int /\ r.gen \in Int /\ r.pol \in Int
      /\ withdrawn[s].gen \in Int /\ withdrawn[s].pol \in Int
  BY <1>1, TuplesAreIntegers
<1>3. CASE durable.cleared
  <2>1. Ahead(r, durable) /\ ~Ahead(withdrawn[s], durable)
    BY <1>1, <1>3 DEF WriteAllowed
  <2> QED
    BY <1>2, <2>1, AheadIsOrder
<1>4. CASE ~durable.cleared /\ IsExact(r)
  <2>1. pointer # None /\ pointer.site = s /\ pointer = KeyOf(r)
    BY <1>4, KeyOfRow DEF IsExact, KeyOf
  <2> QED
    BY <2>1 DEF KeyOf, Ahead
<1>5. CASE ~durable.cleared /\ ~IsExact(r)
  <2>1. ~Ahead(durable, r) /\ Ahead(durable, withdrawn[s])
    BY <1>1, <1>5 DEF WriteAllowed, OwnerReplacementAllowed
  <2> QED
    BY <1>2, <2>1, AheadIsOrder
<1> QED
  BY <1>1, <1>3, <1>4, <1>5 DEF DurablePointer

\* Every step keeps the invariant of clears.
LEMMA ClearInvNext ==
  ASSUME TypeInv, TypeInv', ProtocolInv, ClearInv, [Next]_vars
  PROVE  ClearInv'
<1> USE NoneAssumption DEF authority, kv, history, At
<1>1. op # None => op \in Operation
  BY DEF TypeInv, TypeOK
<1>2. CASE UNCHANGED <<kv, durable, op, history>>
  BY <1>2 DEF ClearInv, ClearIsFenced, WithdrawnIsFenced
<1>3. Authority \/ UNCHANGED vars => UNCHANGED <<kv, durable, op, history>>
  BY DEF Authority, CreateSite, CommitRow, DeleteActiveSite, DeleteInactiveSite, EndReuseHold, vars
<1>4. ASSUME NEW r \in rows, StartWrite(r) PROVE ClearInv'
  <2>1. r \in Row /\ WriteAllowed(r)
    BY <1>4 DEF StartWrite, TypeInv, TypeOK
  <2>2. op' # None /\ op'.row = r /\ op'.step \in {"fence", "snapshot"}
    BY <1>4, <2>1, FirstWriteStep DEF StartWrite, OwnerFenceRequired, WriteSteps
  <2>3. ASSUME NEW s \in Sites PROVE WithdrawnIsFenced(s)'
    BY <1>4, <2>1, <2>2, AcceptedIsBeyond DEF StartWrite, ClearInv, WithdrawnIsFenced
  <2> QED
    BY <2>2, <2>3 DEF ClearInv, ClearIsFenced
<1>5. CASE PersistOwnerFence
  <2>1. op \in Operation /\ op.row \in Row
    BY <1>1, <1>5, OperationParts DEF PersistOwnerFence, WriteSteps
  <2>2. op' # None /\ op'.row = op.row /\ op'.step = "snapshot"
    BY <1>5, <2>1, NextWriteStep DEF PersistOwnerFence, WriteSteps
  <2>3. /\ durable' # None /\ durable'.site = op.row.site /\ ~durable'.cleared
        /\ durable'.gen = op.row.gen /\ durable'.pol = op.row.pol
    BY <1>5, <2>1, DurableForRow DEF PersistOwnerFence, DurableFor
  <2>4. ASSUME NEW s \in Sites PROVE WithdrawnIsFenced(s)'
    <3>1. CASE s = op.row.site
      BY <1>5, <2>1, <2>2, <2>3, <3>1 DEF PersistOwnerFence, ClearInv, WithdrawnIsFenced, Ahead
    <3>2. CASE s # op.row.site
      BY <1>5, <3>2 DEF PersistOwnerFence, WithdrawnIsFenced
    <3> QED
      BY <3>1, <3>2
  <2> QED
    BY <2>2, <2>4 DEF ClearInv, ClearIsFenced
<1>6. CASE PutSnapshot
  <2>1. op' # None /\ op'.row = op.row /\ op'.step = "pointer"
    BY <1>1, <1>6, NextWriteStep DEF PutSnapshot, WriteSteps
  <2> QED
    BY <1>6, <2>1 DEF PutSnapshot, ClearInv, ClearIsFenced, WithdrawnIsFenced
<1>7. CASE PutPointer
  <2>1. op' # None => op'.row = op.row /\ op'.step = "durable"
    BY <1>1, <1>7, NextWriteStep DEF PutPointer, WriteSteps
  <2>2. /\ pointer'.site = op.row.site
        /\ pointer'.gen = op.row.gen /\ pointer'.pol = op.row.pol
    BY <1>7 DEF PutPointer, KeyOf
  <2> QED
    BY <1>7, <2>1, <2>2 DEF PutPointer, ClearInv, ClearIsFenced, WithdrawnIsFenced, Ahead
<1>8. CASE PersistPointer
  <2>1. op.row \in Row
    BY <1>1, <1>8, OperationParts DEF PersistPointer, WriteSteps
  <2>2. /\ durable' # None /\ durable'.site = op.row.site /\ ~durable'.cleared
        /\ durable'.gen = op.row.gen /\ durable'.pol = op.row.pol /\ op' = None
    BY <1>8, <2>1, DurableForRow DEF PersistPointer, DurableFor
  <2>3. durable # None => durable.site = op.row.site
    BY <1>8 DEF PersistPointer, ProtocolInv, WriteIsCurrent
  <2>4. ASSUME NEW s \in Sites PROVE WithdrawnIsFenced(s)'
    BY <1>8, <2>2, <2>3 DEF PersistPointer, ClearInv, WithdrawnIsFenced, Ahead
  <2> QED
    BY <2>2, <2>4 DEF ClearInv, ClearIsFenced
<1>9. ASSUME NEW r \in rows, StartClear(KeyOf(r)) PROVE ClearInv'
  <2>1. op' # None /\ op'.step = "tombstone" /\ op'.expected = KeyOf(r)
    BY <1>9, KeyOfRow, FirstClearStep DEF StartClear, TypeInv, TypeOK
  <2>2. ClearIsFenced'
    BY <1>9, <2>1 DEF StartClear, DurableCanBeCleared, ClearIsFenced
  <2> QED
    BY <1>9, <2>1, <2>2 DEF StartClear, ClearInv, WithdrawnIsFenced
<1>10. CASE PutTombstone
  <2>1. op \in [step : ClearSteps, expected : Key]
    BY <1>1, <1>10, OperationParts DEF PutTombstone, ClearSteps
  <2>2. op' # None /\ op'.step = "delete" /\ op'.expected = op.expected
    BY <1>1, <1>10, <2>1, NextClearStep DEF PutTombstone, ClearSteps
  <2>3. /\ durable' # None /\ durable'.site = op.expected.site /\ durable'.cleared
        /\ durable'.gen = op.expected.gen /\ durable'.pol = op.expected.pol
    BY <1>10, <2>1, DurableForRow DEF PutTombstone, DurableFor
  <2>4. ASSUME NEW s \in Sites PROVE WithdrawnIsFenced(s)'
    <3>1. CASE withdrawn[s] # None /\ s \notin overtaken
      <4>1. durable \in DurablePointer /\ withdrawn[s] \in Key /\ op.expected \in Key
        BY <2>1, <3>1 DEF TypeInv, TypeOK, ClearInv, WithdrawnIsFenced
      <4>2. durable.site = s /\ op.expected.site = s /\ ~Ahead(durable, op.expected)
        BY <1>10, <3>1 DEF PutTombstone, ClearInv, ClearIsFenced, WithdrawnIsFenced
      <4>3. ~Ahead(withdrawn[s], durable)
        <5>1. CASE durable.cleared
          BY <3>1, <5>1 DEF ClearInv, WithdrawnIsFenced
        <5>2. CASE ~durable.cleared
          BY <3>1, <4>1, <5>2, TuplesAreIntegers DEF ClearInv, WithdrawnIsFenced, Ahead
        <5> QED
          BY <5>1, <5>2
      <4>4. ~Ahead(withdrawn[s], op.expected)
        BY <4>1, <4>2, <4>3, TuplesAreIntegers, AheadIsOrder
      <4>5. ~Ahead(withdrawn[s], durable')
        BY <2>3, <4>4 DEF Ahead
      <4> QED
        BY <1>10, <2>2, <2>3, <3>1, <4>2, <4>5 DEF PutTombstone, ClearInv, WithdrawnIsFenced
    <3>2. CASE ~(withdrawn[s] # None /\ s \notin overtaken)
      BY <1>10, <3>2 DEF PutTombstone, WithdrawnIsFenced
    <3> QED
      BY <3>1, <3>2
  <2> QED
    BY <1>10, <2>2, <2>4 DEF PutTombstone, ClearInv, ClearIsFenced
<1>11. CASE DeletePointer
  <2>1. op \in [step : ClearSteps, expected : Key]
    BY <1>1, <1>11, OperationParts DEF DeletePointer, ClearSteps
  <2>2. op' # None /\ op'.step = "confirm" /\ op'.expected = op.expected
    BY <1>1, <1>11, <2>1, NextClearStep DEF DeletePointer, ClearSteps
  <2> QED
    BY <1>11, <2>2 DEF DeletePointer, ClearInv, ClearIsFenced, WithdrawnIsFenced
<1>12. CASE ConfirmCleared
  <2>1. op.expected \in Key
    BY <1>1, <1>12, OperationParts DEF ConfirmCleared, ClearSteps
  <2>2. /\ durable # None /\ durable.site = op.expected.site /\ durable.cleared
        /\ durable.gen = op.expected.gen /\ durable.pol = op.expected.pol
    <3>1. durable = DurableFor(op.expected, TRUE)
      BY <1>12 DEF ConfirmCleared, ClearInv, ClearIsFenced
    <3>2. durable \in DurablePointer
      BY <2>1, <3>1, DurableForRow
    <3> QED
      BY <3>1, <3>2 DEF DurableFor
  <2>3. ASSUME NEW s \in Sites PROVE WithdrawnIsFenced(s)'
    <3>1. CASE s = op.expected.site
      <4>1. ~Ahead(op.expected, durable)
        BY <2>1, <2>2, TuplesAreIntegers DEF Ahead
      <4> QED
        BY <1>12, <2>1, <2>2, <3>1, <4>1 DEF ConfirmCleared, WithdrawnIsFenced, TypeInv, TypeOK
    <3>2. CASE s # op.expected.site
      BY <1>12, <3>2 DEF ConfirmCleared, ClearInv, WithdrawnIsFenced
    <3> QED
      BY <3>1, <3>2
  <2> QED
    BY <1>12, <2>3 DEF ConfirmCleared, ClearInv, ClearIsFenced
<1>13. CASE EndEarly
  BY <1>13 DEF EndEarly, ClearInv, ClearIsFenced, WithdrawnIsFenced
<1> QED
  BY <1>2, <1>3, <1>4, <1>5, <1>6, <1>7, <1>8, <1>9, <1>10, <1>11, <1>12, <1>13
  DEF Next, Write, Clear

\* A delayed write never revives a route that was cleared, until another
\* owner fences the hostname.
THEOREM ClearIsFinal == Spec => []ClearedStaysCleared
<1>1. ClearInv => ClearedStaysCleared
  BY DEF ClearInv, WithdrawnIsFenced, ClearedStaysCleared, Revived
<1>2. TypeInv /\ TypeInv' /\ ProtocolInv /\ ClearInv /\ [Next]_vars => ClearInv'
  BY ClearInvNext
<1> QED
  BY <1>1, <1>2, ClearInvInit, TypeInvariance, ProtocolInvariance, PTL DEF Spec
----------------------------------------------------------------------------
(* What KV, the durable state and an operation carry was committed in D1.  *)

\* A site's newest row is its own.
RouteIsOwn == \A s \in Sites : route[s] # None => route[s].site = s

\* The rows of a site only grow: its newest row is at least each of them, and
\* beyond all others once the site is deleted.
RowsOnlyGrow ==
  \A r \in rows :
    /\ route[r.site] # None
    /\ ~Ahead(r, route[r.site])
    /\ route[r.site].status = "deleted" => r = route[r.site] \/ Ahead(route[r.site], r)

\* A snapshot key stands for one committed row.
KeysAreUnique == \A r, q \in rows : KeyOf(r) = KeyOf(q) => r = q

WasCommitted(k) == \E r \in rows : r.site = k.site /\ r.gen = k.gen /\ r.pol = k.pol

StoredIsCommitted ==
  \A k \in Key : stored[k] # "absent" => \E r \in rows : KeyOf(r) = k /\ r.status = stored[k]

DurableIsCommitted == durable # None => WasCommitted(durable)

OpIsCommitted ==
  /\ op # None /\ op.step \in WriteSteps => op.row \in rows
  /\ op # None /\ op.step \in ClearSteps => WasCommitted(op.expected)

WithdrawnHasRoute == \A s \in Sites : withdrawn[s] # None => route[s] # None

CommittedInv ==
  /\ RouteIsOwn
  /\ RowsOnlyGrow
  /\ KeysAreUnique
  /\ StoredIsCommitted
  /\ DurableIsCommitted
  /\ OpIsCommitted
  /\ WithdrawnHasRoute

\* Nothing has been committed to begin with.
LEMMA CommittedInvInit == Init => CommittedInv
BY DEF Init, CommittedInv, RouteIsOwn, RowsOnlyGrow, KeysAreUnique, StoredIsCommitted,
       DurableIsCommitted, OpIsCommitted, WithdrawnHasRoute

\* A site's next row is beyond every committed row of the site.
LEMMA NextRowIsBeyond ==
  ASSUME TypeInv, RowsOnlyGrow, NEW s \in Sites, NEW next \in Row,
         route[s] # None => Ahead(next, route[s]),
         NEW r \in rows, r.site = s
  PROVE  Ahead(next, r) /\ ~Ahead(r, next)
<1>1. r \in Row /\ route[s] \in Row /\ Ahead(next, route[s]) /\ ~Ahead(r, route[s])
  BY DEF TypeInv, TypeOK, RowsOnlyGrow
<1>2. /\ r.gen \in Int /\ r.pol \in Int /\ next.gen \in Int /\ next.pol \in Int
      /\ route[s].gen \in Int /\ route[s].pol \in Int
  BY <1>1, TuplesAreIntegers
<1> QED
  BY <1>1, <1>2 DEF Ahead

\* Committing a site's next row keeps what is known of the rows.
LEMMA NextRowIsCommitted ==
  ASSUME TypeInv, RouteIsOwn, RowsOnlyGrow, KeysAreUnique, NEW s \in Sites, NEW next \in Row,
         next.site = s, route[s] # None => Ahead(next, route[s]),
         route' = [route EXCEPT ![s] = next],
         rows' = rows \/ rows' = rows \cup {next}
  PROVE  RouteIsOwn' /\ RowsOnlyGrow' /\ KeysAreUnique'
<1>1. /\ route'[s] = next /\ next # None
      /\ \A t \in Sites : t # s => route'[t] = route[t]
  BY NoneAssumption DEF TypeInv, TypeOK
<1>2. RouteIsOwn'
  BY <1>1 DEF RouteIsOwn
<1>3. ASSUME NEW r \in rows'
      PROVE  /\ route'[r.site] # None
             /\ ~Ahead(r, route'[r.site])
             /\ route'[r.site].status = "deleted" => r = route'[r.site] \/ Ahead(route'[r.site], r)
  <2>1. r \in Row /\ r.site \in Sites
    BY <1>3, TuplesAreIntegers DEF TypeInv, TypeOK
  <2>2. CASE r \in rows /\ r.site # s
    BY <1>1, <2>1, <2>2 DEF RowsOnlyGrow
  <2>3. CASE r \in rows /\ r.site = s
    BY <1>1, <2>3, NextRowIsBeyond
  <2>4. CASE r = next
    <3>1. ~Ahead(next, next)
      BY TuplesAreIntegers DEF Ahead
    <3> QED
      BY <1>1, <2>4, <3>1
  <2> QED
    BY <1>3, <2>2, <2>3, <2>4
<1>4. ASSUME NEW r \in rows', NEW q \in rows', KeyOf(r) = KeyOf(q) PROVE r = q
  <2>1. r.site = q.site /\ r.gen = q.gen /\ r.pol = q.pol
    BY <1>4 DEF KeyOf
  <2>2. r \in Row /\ q \in Row
    BY <1>4 DEF TypeInv, TypeOK
  <2>3. CASE r \in rows /\ q \in rows
    BY <1>4, <2>3 DEF KeysAreUnique
  <2>4. CASE r \in rows /\ q = next
    <3>1. Ahead(next, r)
      BY <2>1, <2>4, NextRowIsBeyond
    <3> QED
      BY <2>1, <2>2, <2>4, <3>1, TuplesAreIntegers DEF Ahead
  <2>5. CASE q \in rows /\ r = next
    <3>1. Ahead(next, q)
      BY <2>1, <2>5, NextRowIsBeyond
    <3> QED
      BY <2>1, <2>2, <2>5, <3>1, TuplesAreIntegers DEF Ahead
  <2> QED
    BY <1>4, <2>3, <2>4, <2>5
<1> QED
  BY <1>2, <1>3, <1>4 DEF RowsOnlyGrow, KeysAreUnique

\* The row that a deletion commits is the same site's, a generation further.
LEMMA DeletedRowIsBeyond ==
  ASSUME NEW r \in Row
  PROVE  LET next == [r EXCEPT !.gen = @ + 1, !.status = "deleted"]
         IN next.site = r.site /\ Ahead(next, r)
<1>1. r.gen \in Int /\ r.pol \in Int
  BY TuplesAreIntegers
<1> DEFINE further == [r EXCEPT !.gen = @ + 1]
           deleted == [further EXCEPT !.status = "deleted"]
<1>2. further \in [site : Sites, gen : Int, pol : Int, status : {"serving", "deleted"}]
      /\ further.site = r.site /\ further.gen = r.gen + 1 /\ further.pol = r.pol
  BY <1>1, TuplesAreIntegers DEF Row
<1> HIDE DEF further
<1>3. deleted.site = r.site /\ deleted.gen = r.gen + 1 /\ deleted.pol = r.pol
  BY <1>2
<1> HIDE DEF deleted
<1>4. deleted.site = r.site /\ Ahead(deleted, r)
  BY <1>1, <1>3 DEF Ahead
<1> QED
  BY <1>4 DEF deleted, further

\* Committing a row, and a deletion, go beyond the site's row.
LEMMA AuthorityCommits ==
  ASSUME TypeInv, CommittedInv, NEW s \in Sites,
         CreateSite(s) \/ CommitRow(s) \/ DeleteActiveSite(s) \/ DeleteInactiveSite(s)
  PROVE  \E next \in Row :
           /\ next.site = s
           /\ route[s] # None => Ahead(next, route[s])
           /\ route' = [route EXCEPT ![s] = next]
           /\ rows' = rows \/ rows' = rows \cup {next}
<1> USE NoneAssumption DEF TypeInv, TypeOK, CommittedInv, RouteIsOwn
<1>1. CASE CreateSite(s)
  <2> DEFINE initial == [site |-> s, gen |-> 0, pol |-> 1, status |-> "serving"]
  <2>1. initial \in Row /\ initial.site = s
    BY RoutePointerAssumption DEF Row
  <2> QED
    BY <1>1, <2>1 DEF CreateSite
<1>2. CASE CommitRow(s)
  <2>1. claimant = s /\ route[s] \in Row /\ route[s].site = s
    BY <1>2 DEF CommitRow, ClaimantHasRoute
  <2>2. PICK next \in Row :
          /\ next = [route[s] EXCEPT !.gen = @ + 1] \/ next = [route[s] EXCEPT !.pol = @ + 1]
          /\ route' = [route EXCEPT ![s] = next]
          /\ rows' = rows \cup {next}
    BY <1>2 DEF CommitRow
  <2>3. next.site = s /\ Ahead(next, route[s])
    BY <2>1, <2>2, RoutePointerAssumption DEF Row, Ahead
  <2> QED
    BY <2>2, <2>3
<1>3. CASE DeleteActiveSite(s) \/ DeleteInactiveSite(s)
  <2>1. DeletableRow(s) /\ route' = [route EXCEPT ![s] = DeletedRow(s)]
        /\ (rows' = rows \/ rows' = rows \cup {DeletedRow(s)})
    BY <1>3 DEF DeleteActiveSite, DeleteInactiveSite
  <2>2. claimant = s /\ route[s] \in Row /\ route[s].site = s /\ route[s].gen < MaxGeneration
    BY <2>1 DEF DeletableRow, ClaimantHasRoute
  <2>3. DeletedRow(s) \in Row
    BY <2>2, DeletedRowIsRow DEF DeletedRow
  <2>4. DeletedRow(s).site = s /\ Ahead(DeletedRow(s), route[s])
    BY <2>2, DeletedRowIsBeyond DEF DeletedRow
  <2> QED
    BY <2>1, <2>3, <2>4
<1> QED
  BY <1>1, <1>2, <1>3

\* What was committed stays committed.
LEMMA CommittedStays ==
  ASSUME rows \subseteq rows', UNCHANGED <<stored, durable, op>>,
         StoredIsCommitted, DurableIsCommitted, OpIsCommitted
  PROVE  StoredIsCommitted' /\ DurableIsCommitted' /\ OpIsCommitted'
BY DEF StoredIsCommitted, DurableIsCommitted, OpIsCommitted, WasCommitted

\* A committed row makes a committed durable state, and a committed key.
LEMMA RowIsCommitted ==
  ASSUME NEW r \in rows, NEW isCleared \in BOOLEAN
  PROVE  WasCommitted(KeyOf(r)) /\ WasCommitted(DurableFor(r, isCleared))
BY DEF WasCommitted, KeyOf, DurableFor

\* Every step keeps what was committed.
LEMMA CommittedInvNext ==
  ASSUME TypeInv, CommittedInv, [Next]_vars
  PROVE  CommittedInv'
<1> USE NoneAssumption DEF authority, kv, history, At
<1>1. op # None => op \in Operation
  BY DEF TypeInv, TypeOK
<1>2. ASSUME UNCHANGED <<route, rows, withdrawn>>,
             StoredIsCommitted', DurableIsCommitted', OpIsCommitted'
      PROVE  CommittedInv'
  BY <1>2 DEF CommittedInv, RouteIsOwn, RowsOnlyGrow, KeysAreUnique, WithdrawnHasRoute
<1>3. ASSUME NEW s \in Sites,
             CreateSite(s) \/ CommitRow(s) \/ DeleteActiveSite(s) \/ DeleteInactiveSite(s)
      PROVE  CommittedInv'
  <2>1. UNCHANGED <<stored, durable, op, withdrawn>>
    BY <1>3 DEF CreateSite, CommitRow, DeleteActiveSite, DeleteInactiveSite
  <2>2. PICK next \in Row :
           /\ next.site = s
           /\ route[s] # None => Ahead(next, route[s])
           /\ route' = [route EXCEPT ![s] = next]
           /\ rows' = rows \/ rows' = rows \cup {next}
    BY <1>3, AuthorityCommits
  <2>3. RouteIsOwn' /\ RowsOnlyGrow' /\ KeysAreUnique'
    BY <2>2, NextRowIsCommitted DEF CommittedInv
  <2>4. StoredIsCommitted' /\ DurableIsCommitted' /\ OpIsCommitted'
    BY <2>1, <2>2, CommittedStays DEF CommittedInv
  <2>5. WithdrawnHasRoute'
    BY <2>1, <2>2 DEF CommittedInv, WithdrawnHasRoute, TypeInv, TypeOK
  <2> QED
    BY <2>3, <2>4, <2>5 DEF CommittedInv
<1>4. ASSUME NEW s \in Sites, EndReuseHold(s) PROVE CommittedInv'
  <2>1. UNCHANGED <<route, rows, withdrawn, stored, durable, op>>
    BY <1>4 DEF EndReuseHold
  <2> QED
    BY <1>2, <2>1, CommittedStays DEF CommittedInv
<1>5. ASSUME NEW r \in rows, StartWrite(r) PROVE CommittedInv'
  <2>1. UNCHANGED <<route, rows, withdrawn, stored, durable>>
    BY <1>5 DEF StartWrite
  <2>2. op' # None /\ op'.row = r /\ op'.step \in {"fence", "snapshot"}
    BY <1>5, FirstWriteStep DEF StartWrite, OwnerFenceRequired, WriteSteps, TypeInv, TypeOK
  <2>3. OpIsCommitted'
    BY <2>1, <2>2 DEF OpIsCommitted, ClearSteps
  <2>4. StoredIsCommitted' /\ DurableIsCommitted'
    BY <2>1 DEF CommittedInv, StoredIsCommitted, DurableIsCommitted, WasCommitted
  <2> QED
    BY <1>2, <2>1, <2>3, <2>4
<1>6. CASE PersistOwnerFence
  <2>1. UNCHANGED <<route, rows, withdrawn, stored>> /\ durable' = DurableFor(op.row, FALSE)
    BY <1>6 DEF PersistOwnerFence
  <2>2. op.row \in rows
    BY <1>6 DEF PersistOwnerFence, CommittedInv, OpIsCommitted, WriteSteps
  <2>3. op' # None /\ op'.row = op.row /\ op'.step = "snapshot"
    BY <1>1, <1>6, NextWriteStep DEF PersistOwnerFence, WriteSteps
  <2>4. OpIsCommitted'
    BY <2>1, <2>2, <2>3 DEF OpIsCommitted, ClearSteps
  <2>5. StoredIsCommitted' /\ DurableIsCommitted'
    BY <2>1, <2>2, RowIsCommitted
    DEF CommittedInv, StoredIsCommitted, DurableIsCommitted, WasCommitted
  <2> QED
    BY <1>2, <2>1, <2>4, <2>5
<1>7. CASE PutSnapshot
  <2>1. UNCHANGED <<route, rows, withdrawn, durable>>
        /\ stored' = [stored EXCEPT ![KeyOf(op.row)] = op.row.status]
    BY <1>7 DEF PutSnapshot
  <2>2. op.row \in rows
    BY <1>7 DEF PutSnapshot, CommittedInv, OpIsCommitted, WriteSteps
  <2>3. op' # None /\ op'.row = op.row /\ op'.step = "pointer"
    BY <1>1, <1>7, NextWriteStep DEF PutSnapshot, WriteSteps
  <2>4. OpIsCommitted'
    BY <2>1, <2>2, <2>3 DEF OpIsCommitted, ClearSteps
  <2>5. StoredIsCommitted'
    BY <2>1, <2>2 DEF CommittedInv, StoredIsCommitted, TypeInv, TypeOK
  <2>6. DurableIsCommitted'
    BY <2>1 DEF CommittedInv, DurableIsCommitted, WasCommitted
  <2> QED
    BY <1>2, <2>1, <2>4, <2>5, <2>6
<1>8. CASE PutPointer
  <2>1. UNCHANGED <<route, rows, withdrawn, stored, durable>>
    BY <1>8 DEF PutPointer
  <2>2. op.row \in rows
    BY <1>8 DEF PutPointer, CommittedInv, OpIsCommitted, WriteSteps
  <2>3. op' # None => op'.row = op.row /\ op'.step = "durable"
    BY <1>1, <1>8, NextWriteStep DEF PutPointer, WriteSteps
  <2>4. OpIsCommitted'
    BY <2>1, <2>2, <2>3 DEF OpIsCommitted, ClearSteps
  <2>5. StoredIsCommitted' /\ DurableIsCommitted'
    BY <2>1 DEF CommittedInv, StoredIsCommitted, DurableIsCommitted, WasCommitted
  <2> QED
    BY <1>2, <2>1, <2>4, <2>5
<1>9. CASE PersistPointer
  <2>1. UNCHANGED <<route, rows, withdrawn, stored>> /\ durable' = DurableFor(op.row, FALSE)
        /\ op' = None
    BY <1>9 DEF PersistPointer
  <2>2. op.row \in rows
    BY <1>9 DEF PersistPointer, CommittedInv, OpIsCommitted, WriteSteps
  <2>3. StoredIsCommitted' /\ DurableIsCommitted' /\ OpIsCommitted'
    BY <2>1, <2>2, RowIsCommitted
    DEF CommittedInv, StoredIsCommitted, DurableIsCommitted, OpIsCommitted, WasCommitted
  <2> QED
    BY <1>2, <2>1, <2>3
<1>10. ASSUME NEW r \in rows, StartClear(KeyOf(r)) PROVE CommittedInv'
  <2>1. UNCHANGED <<route, rows, withdrawn, stored, durable>>
    BY <1>10 DEF StartClear
  <2>2. op' # None /\ op'.step = "tombstone" /\ op'.expected = KeyOf(r)
    BY <1>10, KeyOfRow, FirstClearStep DEF StartClear, TypeInv, TypeOK
  <2>3. OpIsCommitted'
    BY <2>1, <2>2 DEF OpIsCommitted, WriteSteps, WasCommitted, KeyOf
  <2>4. StoredIsCommitted' /\ DurableIsCommitted'
    BY <2>1 DEF CommittedInv, StoredIsCommitted, DurableIsCommitted, WasCommitted
  <2> QED
    BY <1>2, <2>1, <2>3, <2>4
<1>11. CASE PutTombstone
  <2>1. UNCHANGED <<route, rows, withdrawn, stored>> /\ durable' = DurableFor(op.expected, TRUE)
    BY <1>11 DEF PutTombstone
  <2>2. WasCommitted(op.expected) /\ op \in [step : ClearSteps, expected : Key]
    BY <1>1, <1>11, OperationParts DEF PutTombstone, CommittedInv, OpIsCommitted, ClearSteps
  <2>3. op' # None /\ op'.step = "delete" /\ op'.expected = op.expected
    BY <1>1, <1>11, <2>2, NextClearStep DEF PutTombstone, ClearSteps
  <2>4. OpIsCommitted'
    BY <2>1, <2>2, <2>3 DEF OpIsCommitted, WriteSteps, WasCommitted
  <2>5. StoredIsCommitted' /\ DurableIsCommitted'
    BY <2>1, <2>2 DEF CommittedInv, StoredIsCommitted, DurableIsCommitted, WasCommitted, DurableFor
  <2> QED
    BY <1>2, <2>1, <2>4, <2>5
<1>12. CASE DeletePointer
  <2>1. UNCHANGED <<route, rows, withdrawn, stored, durable>>
    BY <1>12 DEF DeletePointer
  <2>2. WasCommitted(op.expected) /\ op \in [step : ClearSteps, expected : Key]
    BY <1>1, <1>12, OperationParts DEF DeletePointer, CommittedInv, OpIsCommitted, ClearSteps
  <2>3. op' # None /\ op'.step = "confirm" /\ op'.expected = op.expected
    BY <1>1, <1>12, <2>2, NextClearStep DEF DeletePointer, ClearSteps
  <2>4. OpIsCommitted'
    BY <2>1, <2>2, <2>3 DEF OpIsCommitted, WriteSteps, WasCommitted
  <2>5. StoredIsCommitted' /\ DurableIsCommitted'
    BY <2>1 DEF CommittedInv, StoredIsCommitted, DurableIsCommitted, WasCommitted
  <2> QED
    BY <1>2, <2>1, <2>4, <2>5
<1>13. CASE ConfirmCleared
  <2>1. UNCHANGED <<route, rows, stored, durable>> /\ op' = None
        /\ withdrawn' = [withdrawn EXCEPT ![op.expected.site] = op.expected]
    BY <1>13 DEF ConfirmCleared
  <2>2. WasCommitted(op.expected)
    BY <1>13 DEF ConfirmCleared, CommittedInv, OpIsCommitted, ClearSteps
  <2>3. route[op.expected.site] # None
    BY <2>2 DEF WasCommitted, CommittedInv, RowsOnlyGrow
  <2>4. WithdrawnHasRoute'
    BY <2>1, <2>3 DEF CommittedInv, WithdrawnHasRoute, TypeInv, TypeOK
  <2>5. StoredIsCommitted' /\ DurableIsCommitted' /\ OpIsCommitted'
    BY <2>1 DEF CommittedInv, StoredIsCommitted, DurableIsCommitted, OpIsCommitted, WasCommitted
  <2> QED
    BY <2>1, <2>4, <2>5 DEF CommittedInv, RouteIsOwn, RowsOnlyGrow, KeysAreUnique
<1>14. CASE EndEarly
  <2>1. UNCHANGED <<route, rows, withdrawn, stored, durable>> /\ op' = None
    BY <1>14 DEF EndEarly
  <2>2. StoredIsCommitted' /\ DurableIsCommitted' /\ OpIsCommitted'
    BY <2>1 DEF CommittedInv, StoredIsCommitted, DurableIsCommitted, OpIsCommitted, WasCommitted
  <2> QED
    BY <1>2, <2>1, <2>2
<1>15. CASE UNCHANGED vars
  <2>1. UNCHANGED <<route, rows, withdrawn, stored, durable, op>>
    BY <1>15 DEF vars
  <2> QED
    BY <1>2, <2>1, CommittedStays DEF CommittedInv
<1> QED
  BY <1>3, <1>4, <1>5, <1>6, <1>7, <1>8, <1>9, <1>10, <1>11, <1>12, <1>13, <1>14, <1>15
  DEF Next, Authority, Write, Clear

\* What KV and the durable state hold, and what an operation carries, are rows
\* that D1 committed, and a snapshot key stands for one of them.
LEMMA CommittedInvariance == Spec => []CommittedInv
<1>1. TypeInv /\ CommittedInv /\ [Next]_vars => CommittedInv'
  BY CommittedInvNext
<1> QED
  BY <1>1, CommittedInvInit, TypeInvariance, PTL DEF Spec

----------------------------------------------------------------------------
(* The owners in turn.  When no request outlives its site's claim, whoever *)
(* claims the hostname finds nothing of the earlier owners that could lock *)
(* him out.                                                                *)

\* The site whose request the object is serving.
OpSite == IF op.step \in WriteSteps THEN op.row.site ELSE op.expected.site

\* What another site left behind is a deleted route or a tombstone.
LeftByOthers ==
  /\ pointer = None /\ durable # None => durable.cleared \/ durable.site = claimant
  /\ pointer # None /\ pointer.site # claimant =>
       /\ stored[pointer] = "deleted"
       /\ durable # None => durable.site \in {pointer.site, claimant}
  /\ pointer # None /\ pointer.site = claimant /\ durable # None => durable.site = claimant

\* Once a clear of the owner was acknowledged, nobody else's pointer is left.
ClearedByOwner ==
  claimant # None /\ withdrawn[claimant] # None =>
    /\ claimant \notin overtaken
    /\ pointer # None => pointer.site = claimant

\* The hostname is cleared, and its tombstone refuses every row of the site.
IsGone(s) ==
  /\ pointer = None
  /\ durable # None /\ durable.site = s /\ durable.cleared
  /\ \A r \in rows : r.site = s => ~Ahead(r, durable)

\* The deletion of a site whose route was not active has cleared the hostname
\* and no request of the site publishes on it again.
GoneInactive ==
  claimant # None /\ route[claimant].status = "deleted" /\ route[claimant] \notin rows =>
    IsGone(claimant) /\ (op # None => op.step \in ClearSteps)

OpInTurn == op # None => claimant # None /\ OpSite = claimant

InTurn == OpInTurn /\ LeftByOthers /\ ClearedByOwner /\ GoneInactive

TurnInv == ~late => InTurn

\* Nobody has the hostname to begin with.
LEMMA TurnInvInit == Init => TurnInv
BY DEF Init, TurnInv, InTurn, OpInTurn, LeftByOthers, ClearedByOwner, GoneInactive

\* Whether requests may outlive claims never changes.
LEMMA LateStays == ASSUME [Next]_vars PROVE late' = late
BY DEF Next, Authority, Write, Clear, CreateSite, CommitRow, DeleteActiveSite,
       DeleteInactiveSite, EndReuseHold, StartWrite, PersistOwnerFence, PutSnapshot, PutPointer,
       PersistPointer, StartClear, PutTombstone, DeletePointer, ConfirmCleared, EndEarly,
       authority, vars

\* What was committed is not ahead of its site's row.
LEMMA CommittedIsBounded ==
  ASSUME TypeInv, RowsOnlyGrow, NEW k, WasCommitted(k)
  PROVE  k.site \in Sites /\ route[k.site] # None /\ ~Ahead(k, route[k.site])
<1>1. PICK r \in rows : r.site = k.site /\ r.gen = k.gen /\ r.pol = k.pol
  BY DEF WasCommitted
<1>2. r.site \in Sites /\ route[r.site] # None /\ ~Ahead(r, route[r.site])
  BY <1>1, TuplesAreIntegers DEF RowsOnlyGrow, TypeInv, TypeOK
<1> QED
  BY <1>1, <1>2 DEF Ahead

\* The published pointer leads to a committed row.
LEMMA PointerIsCommitted ==
  ASSUME TypeInv, PointerResolves, StoredIsCommitted, pointer # None
  PROVE  /\ WasCommitted(pointer)
         /\ \E r \in rows : KeyOf(r) = pointer /\ r.status = stored[pointer]
<1>1. pointer \in Key /\ stored[pointer] # "absent"
  BY DEF TypeInv, TypeOK, PointerResolves
<1>2. PICK r \in rows : KeyOf(r) = pointer /\ r.status = stored[pointer]
  BY <1>1 DEF StoredIsCommitted
<1> QED
  BY <1>2 DEF WasCommitted, KeyOf

\* After the newest row of the owner was cleared, the hostname is gone.
LEMMA WithdrawnIsGone ==
  ASSUME TypeInv, ProtocolInv, ClearInv, CommittedInv, InTurn,
         NEW s \in Sites, claimant = s, withdrawn[s] = KeyOf(route[s])
  PROVE  IsGone(s)
<1> USE NoneAssumption DEF TypeInv, TypeOK
<1>1. route[s] \in Row /\ route[s].site = s
  BY DEF ClaimantHasRoute, CommittedInv, RouteIsOwn
<1>2. withdrawn[s] \in Key /\ withdrawn[s] # None
      /\ withdrawn[s].gen = route[s].gen /\ withdrawn[s].pol = route[s].pol
  BY <1>1, KeyOfRow DEF KeyOf
<1>3. s \notin overtaken /\ (pointer # None => pointer.site = s)
  BY <1>2 DEF InTurn, ClearedByOwner
<1>4. /\ durable # None /\ durable.site = s
      /\ durable.cleared => ~Ahead(withdrawn[s], durable)
      /\ ~durable.cleared => Ahead(durable, withdrawn[s])
      /\ pointer # None /\ pointer.site = s => Ahead(pointer, withdrawn[s])
  BY <1>2, <1>3 DEF ClearInv, WithdrawnIsFenced
<1>5. durable \in DurablePointer
  BY <1>4
<1>6. pointer = None
  <2>1. ASSUME pointer # None PROVE FALSE
    <3>1. WasCommitted(pointer)
      BY <2>1, PointerIsCommitted DEF ProtocolInv, CommittedInv
    <3>2. ~Ahead(pointer, route[s]) /\ Ahead(pointer, withdrawn[s])
      BY <1>3, <1>4, <2>1, <3>1, CommittedIsBounded DEF CommittedInv
    <3> QED
      BY <1>2, <3>2 DEF Ahead
  <2> QED
    BY <2>1
<1>7. durable.cleared
  <2>1. ~Ahead(durable, route[s])
    BY <1>4, CommittedIsBounded DEF CommittedInv, DurableIsCommitted
  <2>2. ~Ahead(durable, withdrawn[s])
    BY <1>2, <2>1 DEF Ahead
  <2> QED
    BY <1>4, <2>2
<1>8. ASSUME NEW r \in rows, r.site = s PROVE ~Ahead(r, durable)
  <2>1. ~Ahead(r, route[s])
    BY <1>8 DEF CommittedInv, RowsOnlyGrow
  <2>2. ~Ahead(r, withdrawn[s]) /\ ~Ahead(withdrawn[s], durable)
    BY <1>2, <1>4, <1>7, <2>1 DEF Ahead
  <2>3. /\ r.gen \in Int /\ r.pol \in Int /\ withdrawn[s].gen \in Int /\ withdrawn[s].pol \in Int
        /\ durable.gen \in Int /\ durable.pol \in Int
    BY <1>2, <1>5, TuplesAreIntegers
  <2> QED
    BY <2>2, <2>3, AheadIsOrder
<1> QED
  BY <1>4, <1>6, <1>7, <1>8 DEF IsGone

\* A new owner finds what the last one's deletion left.
LEMMA TurnAtCreateSite ==
  ASSUME TypeInv, TypeInv', ProtocolInv, CommittedInv, InTurn, NEW s \in Sites, CreateSite(s)
  PROVE  InTurn'
<1> USE NoneAssumption DEF TypeInv, TypeOK, kv, history
<1>1. /\ claimant = None /\ claimant' = s /\ route[s] = None
      /\ UNCHANGED <<stored, pointer, durable, op, withdrawn, overtaken>>
  BY DEF CreateSite
<1>2. op = None
  BY <1>1 DEF InTurn, OpInTurn
<1>3. withdrawn[s] = None
  BY <1>1 DEF CommittedInv, WithdrawnHasRoute
<1>4. pointer # None => pointer.site \in Sites /\ pointer.site # s
  BY <1>1, PointerIsCommitted, CommittedIsBounded DEF ProtocolInv, CommittedInv
<1>5. durable # None => durable.site \in Sites
  BY DEF DurablePointer
<1>6. LeftByOthers'
  BY <1>1, <1>4, <1>5 DEF InTurn, LeftByOthers
<1>7. route'[s].status = "serving"
  BY DEF CreateSite
<1> QED
  BY <1>1, <1>2, <1>3, <1>6, <1>7 DEF InTurn, OpInTurn, ClearedByOwner, GoneInactive

\* What the owner commits changes nothing of what he finds.
LEMMA TurnAtCommit ==
  ASSUME TypeInv, ProtocolInv, ClearInv, CommittedInv, InTurn, NEW s \in Sites,
         CommitRow(s) \/ DeleteActiveSite(s) \/ DeleteInactiveSite(s)
  PROVE  InTurn'
<1> USE DEF kv, history
<1>1. /\ claimant = s /\ claimant' = s
      /\ UNCHANGED <<stored, pointer, durable, op, withdrawn, overtaken>>
  BY DEF CommitRow, DeleteActiveSite, DeleteInactiveSite, DeletableRow
<1>2. OpInTurn' /\ LeftByOthers' /\ ClearedByOwner'
  BY <1>1 DEF InTurn, OpInTurn, OpSite, LeftByOthers, ClearedByOwner
<1>3. GoneInactive'
  <2>1. CASE CommitRow(s)
    <3>1. PICK next \in Row : route' = [route EXCEPT ![s] = next] /\ rows' = rows \cup {next}
      BY <2>1 DEF CommitRow
    <3> QED
      BY <1>1, <3>1 DEF GoneInactive, TypeInv, TypeOK
  <2>2. CASE DeleteActiveSite(s)
    BY <1>1, <2>2 DEF DeleteActiveSite, GoneInactive, TypeInv, TypeOK
  <2>3. CASE DeleteInactiveSite(s)
    <3>1. op = None /\ withdrawn[s] = KeyOf(route[s]) /\ rows' = rows
      BY <2>3 DEF DeleteInactiveSite
    <3>2. IsGone(s)
      BY <1>1, <3>1, WithdrawnIsGone
    <3>3. IsGone(s)'
      BY <1>1, <3>1, <3>2 DEF IsGone
    <3> QED
      BY <1>1, <3>1, <3>3 DEF GoneInactive
  <2> QED
    BY <2>1, <2>2, <2>3
<1> QED
  BY <1>2, <1>3 DEF InTurn

\* When the reuse hold ends, the deletion has reached the hostname.
LEMMA TurnAtEndOfHold ==
  ASSUME TypeInv, ProtocolInv, ClearInv, CommittedInv, InTurn, NEW s \in Sites, EndReuseHold(s)
  PROVE  InTurn'
<1> USE NoneAssumption DEF TypeInv, TypeOK, kv, history
<1>1. /\ claimant = s /\ claimant' = None /\ op = None /\ route[s].status = "deleted"
      /\ UNCHANGED <<route, rows, stored, pointer, durable, op, withdrawn, overtaken>>
  BY DEF EndReuseHold
<1>2. CASE IsGone(s)
  <2>1. LeftByOthers'
    BY <1>1, <1>2 DEF IsGone, LeftByOthers
  <2> QED
    BY <1>1, <2>1 DEF InTurn, OpInTurn, ClearedByOwner, GoneInactive
<1>3. CASE route[s] \in rows /\ pointer = KeyOf(route[s])
  <2>1. pointer \in Key /\ pointer # None /\ pointer.site = s
    BY <1>3, KeyOfRow DEF KeyOf, CommittedInv, RouteIsOwn
  <2>2. stored[pointer] = "deleted"
    <3>1. PICK r \in rows : KeyOf(r) = pointer /\ r.status = stored[pointer]
      BY <2>1, PointerIsCommitted DEF ProtocolInv, CommittedInv
    <3>2. r = route[s]
      BY <1>3, <3>1 DEF CommittedInv, KeysAreUnique
    <3> QED
      BY <1>1, <3>1, <3>2
  <2>3. durable # None => durable.site = s
    BY <1>1, <2>1 DEF InTurn, LeftByOthers
  <2>4. LeftByOthers'
    BY <1>1, <2>1, <2>2, <2>3 DEF LeftByOthers
  <2> QED
    BY <1>1, <2>4 DEF InTurn, OpInTurn, ClearedByOwner, GoneInactive
<1>4. CASE withdrawn[s] = KeyOf(route[s])
  BY <1>1, <1>2, <1>4, WithdrawnIsGone
<1>5. CASE route[s] \notin rows
  BY <1>1, <1>2, <1>5 DEF InTurn, GoneInactive
<1> QED
  BY <1>3, <1>4, <1>5 DEF EndReuseHold

\* A write that the object serves is the owner's.
LEMMA TurnAtWrite ==
  ASSUME TypeInv, TypeInv', ProtocolInv, InTurn, ~late,
         (\E r \in rows : StartWrite(r)) \/ PersistOwnerFence \/ PutSnapshot \/ PutPointer
           \/ PersistPointer
  PROVE  InTurn'
<1> USE NoneAssumption DEF authority, kv, history, At
<1>1. op # None => op \in Operation
  BY DEF TypeInv, TypeOK
<1>2. ASSUME NEW r \in rows, StartWrite(r) PROVE InTurn'
  <2>1. r \in Row /\ r.site = claimant /\ WriteAllowed(r) /\ claimant # None
    BY <1>2, TuplesAreIntegers DEF StartWrite, Requested, TypeInv, TypeOK
  <2>2. op' # None /\ op'.row = r /\ op'.step \in {"fence", "snapshot"}
    BY <1>2, <2>1, FirstWriteStep DEF StartWrite, OwnerFenceRequired, WriteSteps
  <2>3. UNCHANGED <<route, rows, claimant, stored, pointer, durable, withdrawn, overtaken>>
    BY <1>2 DEF StartWrite
  <2>4. ~IsGone(claimant)
    BY <2>1 DEF IsGone, WriteAllowed
  <2>5. OpInTurn'
    BY <2>1, <2>2, <2>3 DEF OpInTurn, OpSite, WriteSteps
  <2> QED
    BY <2>3, <2>4, <2>5 DEF InTurn, LeftByOthers, ClearedByOwner, GoneInactive
<1>3. ASSUME op # None, op.step \in WriteSteps
      PROVE  /\ op.row \in Row /\ op.row.site = claimant /\ claimant # None
             /\ ~(claimant # None /\ route[claimant].status = "deleted"
                    /\ route[claimant] \notin rows)
  BY <1>1, <1>3, OperationParts DEF InTurn, OpInTurn, OpSite, GoneInactive, WriteSteps, ClearSteps
<1>4. CASE PersistOwnerFence
  <2>1. op # None /\ op.step = "fence" /\ op.step \in WriteSteps
    BY <1>4 DEF PersistOwnerFence, WriteSteps
  <2>2. op'.row = op.row /\ op'.step = "snapshot"
    BY <1>1, <1>4, NextWriteStep DEF PersistOwnerFence, WriteSteps
  <2>3. durable'.site = claimant
    BY <1>3, <1>4, <2>1 DEF PersistOwnerFence, DurableFor
  <2>4. UNCHANGED <<route, rows, claimant, stored, pointer, withdrawn>>
        /\ overtaken' = overtaken \cup (Sites \ {claimant})
    BY <1>3, <1>4, <2>1 DEF PersistOwnerFence
  <2>5. OpInTurn'
    BY <1>3, <2>1, <2>2, <2>4 DEF OpInTurn, OpSite, WriteSteps
  <2>6. GoneInactive'
    BY <1>3, <2>1, <2>4 DEF GoneInactive
  <2>7. LeftByOthers' /\ ClearedByOwner'
    BY <2>3, <2>4 DEF InTurn, LeftByOthers, ClearedByOwner
  <2> QED
    BY <2>5, <2>6, <2>7 DEF InTurn
<1>5. CASE PutSnapshot
  <2>1. op # None /\ op.step = "snapshot" /\ op.step \in WriteSteps
    BY <1>5 DEF PutSnapshot, WriteSteps
  <2>2. op'.row = op.row /\ op'.step = "pointer"
    BY <1>1, <1>5, NextWriteStep DEF PutSnapshot, WriteSteps
  <2>3. UNCHANGED <<route, rows, claimant, pointer, durable, withdrawn, overtaken>>
        /\ stored' = [stored EXCEPT ![KeyOf(op.row)] = op.row.status]
    BY <1>5 DEF PutSnapshot
  <2>4. pointer # None /\ pointer.site # claimant => stored'[pointer] = stored[pointer]
    BY <1>3, <2>1, <2>3 DEF KeyOf, TypeInv, TypeOK
  <2>5. OpInTurn'
    BY <1>3, <2>1, <2>2, <2>3 DEF OpInTurn, OpSite, WriteSteps
  <2>6. GoneInactive'
    BY <1>3, <2>1, <2>3 DEF GoneInactive
  <2>7. LeftByOthers' /\ ClearedByOwner'
    BY <2>3, <2>4 DEF InTurn, LeftByOthers, ClearedByOwner
  <2> QED
    BY <2>5, <2>6, <2>7 DEF InTurn
<1>6. CASE PutPointer
  <2>1. op # None /\ op.step = "pointer" /\ op.step \in WriteSteps
    BY <1>6 DEF PutPointer, WriteSteps
  <2>2. op' # None => op'.row = op.row /\ op'.step = "durable"
    BY <1>1, <1>6, NextWriteStep DEF PutPointer, WriteSteps
  <2>3. UNCHANGED <<route, rows, claimant, stored, durable, withdrawn, overtaken>>
        /\ pointer' = KeyOf(op.row)
    BY <1>6 DEF PutPointer
  <2>4. pointer' # None /\ pointer'.site = claimant
    BY <1>3, <2>1, <2>3, KeyOfRow DEF KeyOf
  <2>5. durable # None => durable.site = claimant
    BY <1>3, <2>1 DEF ProtocolInv, WriteIsCurrent
  <2>6. OpInTurn'
    BY <1>3, <2>1, <2>2, <2>3 DEF OpInTurn, OpSite, WriteSteps
  <2>7. GoneInactive'
    BY <1>3, <2>1, <2>3 DEF GoneInactive
  <2>8. LeftByOthers' /\ ClearedByOwner'
    BY <2>3, <2>4, <2>5 DEF InTurn, LeftByOthers, ClearedByOwner
  <2> QED
    BY <2>6, <2>7, <2>8 DEF InTurn
<1>7. CASE PersistPointer
  <2>1. op # None /\ op.step = "durable" /\ op.step \in WriteSteps
    BY <1>7 DEF PersistPointer, WriteSteps
  <2>2. UNCHANGED <<route, rows, claimant, stored, pointer, withdrawn, overtaken>>
        /\ durable' = DurableFor(op.row, FALSE) /\ op' = None
    BY <1>7 DEF PersistPointer
  <2>3. pointer # None /\ pointer.site = claimant
    BY <1>3, <2>1, KeyOfRow DEF ProtocolInv, WriteIsCurrent, KeyOf
  <2>4. durable'.site = claimant
    BY <1>3, <2>1, <2>2 DEF DurableFor
  <2>5. GoneInactive'
    BY <1>3, <2>1, <2>2 DEF GoneInactive
  <2> QED
    BY <2>2, <2>3, <2>4, <2>5 DEF InTurn, OpInTurn, LeftByOthers, ClearedByOwner
<1> QED
  BY <1>2, <1>4, <1>5, <1>6, <1>7

\* A clear that the object serves is the owner's.
LEMMA TurnAtClear ==
  ASSUME TypeInv, TypeInv', ProtocolInv, ClearInv, InTurn, ~late,
         (\E r \in rows : StartClear(KeyOf(r))) \/ PutTombstone \/ DeletePointer
           \/ ConfirmCleared \/ EndEarly
  PROVE  InTurn'
<1> USE NoneAssumption DEF authority, kv, history, At
<1>1. op # None => op \in Operation
  BY DEF TypeInv, TypeOK
<1>2. ASSUME NEW r \in rows, StartClear(KeyOf(r)) PROVE InTurn'
  <2>1. r \in Row /\ r.site = claimant /\ claimant # None
    BY <1>2, TuplesAreIntegers DEF StartClear, Requested, TypeInv, TypeOK, KeyOf
  <2>2. op' # None /\ op'.expected = KeyOf(r) /\ op'.step = "tombstone"
    BY <1>2, <2>1, KeyOfRow, FirstClearStep DEF StartClear
  <2>3. UNCHANGED <<route, rows, claimant, stored, pointer, durable, withdrawn, overtaken>>
    BY <1>2 DEF StartClear
  <2>4. OpInTurn'
    BY <2>1, <2>2, <2>3 DEF OpInTurn, OpSite, WriteSteps, KeyOf
  <2>5. op'.step \in ClearSteps
    BY <2>2 DEF ClearSteps
  <2> QED
    BY <2>3, <2>4, <2>5 DEF InTurn, LeftByOthers, ClearedByOwner, GoneInactive, IsGone
<1>3. ASSUME op # None, op.step \in ClearSteps
      PROVE  op.expected \in Key /\ op.expected.site = claimant /\ claimant # None
             /\ op \in [step : ClearSteps, expected : Key]
  BY <1>1, <1>3, OperationParts DEF InTurn, OpInTurn, OpSite, WriteSteps, ClearSteps
<1>4. CASE PutTombstone
  <2>1. op # None /\ op.step = "tombstone" /\ op.step \in ClearSteps
    BY <1>4 DEF PutTombstone, ClearSteps
  <2>2. op'.expected = op.expected /\ op'.step = "delete"
    BY <1>1, <1>3, <1>4, <2>1, NextClearStep DEF PutTombstone, ClearSteps
  <2>3. /\ durable' # None /\ durable'.site = claimant /\ durable'.cleared
        /\ durable'.gen = op.expected.gen /\ durable'.pol = op.expected.pol
    BY <1>3, <1>4, <2>1, DurableForRow DEF PutTombstone, DurableFor
  <2>4. UNCHANGED <<route, rows, claimant, stored, pointer, withdrawn, overtaken>>
    BY <1>4 DEF PutTombstone
  <2>5. pointer # None => pointer.site = claimant
    BY <1>3, <2>1 DEF ProtocolInv, ClearIsOwn
  <2>6. OpInTurn'
    BY <1>3, <2>1, <2>2, <2>4 DEF OpInTurn, OpSite, WriteSteps
  <2>7. LeftByOthers' /\ ClearedByOwner'
    BY <2>3, <2>4, <2>5 DEF InTurn, LeftByOthers, ClearedByOwner
  <2>8. ASSUME IsGone(claimant) PROVE IsGone(claimant)'
    <3>1. ~Ahead(durable, op.expected) /\ durable \in DurablePointer
      BY <2>1, <2>8 DEF ClearInv, ClearIsFenced, IsGone, TypeInv, TypeOK
    <3>2. ASSUME NEW r \in rows, r.site = claimant PROVE ~Ahead(r, durable')
      <4>1. ~Ahead(r, durable) /\ r \in Row
        BY <2>8, <3>2 DEF IsGone, TypeInv, TypeOK
      <4>2. ~Ahead(r, op.expected)
        BY <1>3, <2>1, <3>1, <4>1, TuplesAreIntegers, AheadIsOrder
      <4> QED
        BY <2>3, <4>2 DEF Ahead
    <3> QED
      BY <2>3, <2>4, <2>8, <3>2 DEF IsGone
  <2>9. GoneInactive'
    BY <2>2, <2>4, <2>8 DEF InTurn, GoneInactive, ClearSteps
  <2> QED
    BY <2>6, <2>7, <2>9 DEF InTurn
<1>5. CASE DeletePointer
  <2>1. op # None /\ op.step = "delete" /\ op.step \in ClearSteps
    BY <1>5 DEF DeletePointer, ClearSteps
  <2>2. op'.expected = op.expected /\ op'.step = "confirm"
    BY <1>1, <1>3, <1>5, <2>1, NextClearStep DEF DeletePointer, ClearSteps
  <2>3. durable = DurableFor(op.expected, TRUE)
    BY <2>1 DEF ClearInv, ClearIsFenced
  <2>4. UNCHANGED <<route, rows, claimant, stored, durable, withdrawn, overtaken>>
        /\ pointer' = None
    BY <1>5 DEF DeletePointer
  <2>5. durable.cleared
    BY <2>3 DEF DurableFor
  <2>6. OpInTurn'
    BY <1>3, <2>1, <2>2, <2>4 DEF OpInTurn, OpSite, WriteSteps
  <2>7. LeftByOthers' /\ ClearedByOwner'
    BY <2>4, <2>5 DEF InTurn, LeftByOthers, ClearedByOwner
  <2>8. GoneInactive'
    BY <2>2, <2>4 DEF InTurn, GoneInactive, IsGone, ClearSteps
  <2> QED
    BY <2>6, <2>7, <2>8 DEF InTurn
<1>6. CASE ConfirmCleared
  <2>1. op # None /\ op.step = "confirm" /\ op.step \in ClearSteps
    BY <1>6 DEF ConfirmCleared, ClearSteps
  <2>2. /\ pointer = None /\ op' = None
        /\ UNCHANGED <<route, rows, claimant, stored, pointer, durable>>
        /\ overtaken' = overtaken \ {claimant}
    BY <1>3, <1>6, <2>1 DEF ConfirmCleared
  <2>3. ClearedByOwner'
    BY <2>2 DEF ClearedByOwner
  <2> QED
    BY <2>2, <2>3 DEF InTurn, OpInTurn, LeftByOthers, GoneInactive, IsGone
<1>7. CASE EndEarly
  BY <1>7 DEF EndEarly, InTurn, OpInTurn, LeftByOthers, ClearedByOwner, GoneInactive, IsGone
<1> QED
  BY <1>2, <1>4, <1>5, <1>6, <1>7

\* Every step keeps the owners' turns.
LEMMA TurnInvNext ==
  ASSUME TypeInv, TypeInv', ProtocolInv, ClearInv, CommittedInv, TurnInv, [Next]_vars
  PROVE  TurnInv'
<1> SUFFICES ASSUME ~late' PROVE InTurn'
  BY DEF TurnInv
<1>1. ~late /\ InTurn
  BY LateStays DEF TurnInv
<1>2. CASE UNCHANGED vars
  BY <1>1, <1>2 DEF vars, InTurn, OpInTurn, OpSite, LeftByOthers, ClearedByOwner, GoneInactive,
                    IsGone
<1>3. CASE Authority
  BY <1>1, <1>3, TurnAtCreateSite, TurnAtCommit, TurnAtEndOfHold DEF Authority
<1>4. CASE Write
  BY <1>1, <1>4, TurnAtWrite DEF Write
<1>5. CASE Clear \/ EndEarly
  BY <1>1, <1>5, TurnAtClear DEF Clear
<1> QED
  BY <1>2, <1>3, <1>4, <1>5 DEF Next

\* The protocol's invariants together.
LEMMA TurnInvariance == Spec => [](TypeInv /\ ProtocolInv /\ ClearInv /\ CommittedInv /\ TurnInv)
<1>1. TypeInv /\ TypeInv' /\ ProtocolInv /\ ClearInv /\ [Next]_vars => ClearInv'
  BY ClearInvNext
<1>2. TypeInv /\ TypeInv' /\ ProtocolInv /\ ClearInv /\ CommittedInv /\ TurnInv /\ [Next]_vars
        => TurnInv'
  BY TurnInvNext
<1> QED
  BY <1>1, <1>2, ClearInvInit, TurnInvInit, TypeInvariance, ProtocolInvariance,
     CommittedInvariance, PTL DEF Spec

\* What the owner finds accepts his next generation.
LEMMA TurnAccepts ==
  ASSUME TypeInv, ProtocolInv, CommittedInv, TurnInv
  PROVE  OwnerIsNotLockedOut
<1> USE NoneAssumption DEF TypeInv, TypeOK
<1> SUFFICES ASSUME NEW s \in Sites, ~late, claimant = s, op = None, route[s].status = "serving"
             PROVE  WriteAllowed(NextGeneration(s))
  BY DEF OwnerIsNotLockedOut
<1> DEFINE next == NextGeneration(s)
<1>1. route[s] \in Row /\ route[s].site = s
  BY DEF ClaimantHasRoute, CommittedInv, RouteIsOwn
<1>2. next.site = s /\ next.gen = route[s].gen + 1 /\ next.pol = route[s].pol
  BY <1>1 DEF NextGeneration, Row
<1>3. route[s].gen \in Int /\ route[s].pol \in Int
  BY <1>1, TuplesAreIntegers
<1> HIDE DEF next
<1>4. LeftByOthers
  BY DEF TurnInv, InTurn
<1>5. pointer # None /\ pointer.site = s => ~Ahead(pointer, next) /\ ~IsExact(next)
  <2> SUFFICES ASSUME pointer # None, pointer.site = s
               PROVE  ~Ahead(pointer, next) /\ ~IsExact(next)
    OBVIOUS
  <2>1. ~Ahead(pointer, route[s]) /\ pointer \in Key
    BY PointerIsCommitted, CommittedIsBounded DEF ProtocolInv, CommittedInv
  <2>2. pointer.gen \in Int /\ pointer.pol \in Int /\ pointer.gen <= route[s].gen
    BY <1>3, <2>1, TuplesAreIntegers DEF Ahead
  <2> QED
    BY <1>2, <1>3, <2>2 DEF Ahead, IsExact, KeyOf
<1>6. durable # None /\ durable.site = s => ~Ahead(durable, next) /\ Ahead(next, durable)
  <2> SUFFICES ASSUME durable # None, durable.site = s
               PROVE  ~Ahead(durable, next) /\ Ahead(next, durable)
    OBVIOUS
  <2>1. ~Ahead(durable, route[s]) /\ durable \in DurablePointer
    BY CommittedIsBounded DEF CommittedInv, DurableIsCommitted
  <2> QED
    BY <1>2, <1>3, <2>1, TuplesAreIntegers DEF Ahead
<1>7. pointer # None => ~IsExact(next)
  BY <1>2, <1>5 DEF IsExact, KeyOf
<1>8. CASE pointer = None
  <2>1. ~IsExact(next)
    <3>1. next.gen \in Nat /\ next.pol \in Nat
      BY <1>1, <1>2, RoutePointerAssumption DEF Row
    <3>2. KeyOf(next) # None
      BY <1>2, <3>1 DEF KeyOf
    <3> QED
      BY <1>8, <3>2 DEF IsExact
  <2> QED
    BY <1>2, <1>4, <1>6, <1>8, <2>1
    DEF LeftByOthers, WriteAllowed, PublishedPointerAccepts, next
<1>9. CASE pointer # None /\ pointer.site = s
  <2>1. stored[pointer] # "absent"
    BY <1>9 DEF ProtocolInv, PointerResolves
  <2> QED
    BY <1>2, <1>4, <1>5, <1>6, <1>9, <2>1
    DEF LeftByOthers, WriteAllowed, PublishedPointerAccepts, next
<1>10. CASE pointer # None /\ pointer.site # s
  <2>1. OwnerReplacementAllowed(durable, next)
    BY <1>2, <1>4, <1>6, <1>10 DEF LeftByOthers, OwnerReplacementAllowed
  <2> QED
    BY <1>2, <1>6, <1>7, <1>10, <2>1 DEF WriteAllowed, next
<1> QED
  BY <1>8, <1>9, <1>10

\* Unless a request outlives its site's claim, nothing that earlier owners or
\* half-done writes and clears left behind refuses the owner's next generation.
THEOREM OwnerNeverLockedOut == Spec => []OwnerIsNotLockedOut
<1>1. TypeInv /\ ProtocolInv /\ CommittedInv /\ TurnInv => OwnerIsNotLockedOut
  BY TurnAccepts
<1> QED
  BY <1>1, TurnInvariance, PTL

----------------------------------------------------------------------------
(* The refinement of SitePointer.tla, as long as the hostname has one      *)
(* owner.                                                                  *)

\* What a write found of the durable state when it began still holds.
DurableAccepts ==
  /\ At("fence") =>
       /\ op.fenced
       /\ durable # None \/ (pointer # None /\ pointer.site # op.row.site)
       /\ durable # None /\ durable.site = op.row.site => durable.cleared /\ Ahead(op.row, durable)
  /\ At("snapshot") \/ At("pointer") \/ At("durable") =>
       IF op.fenced THEN durable = DurableFor(op.row, FALSE)
       ELSE durable # None => ~durable.cleared /\ (IsExact(op.row) \/ ~Ahead(durable, op.row))
  /\ At("durable") => stored[KeyOf(op.row)] = op.row.status

\* The same for a clear, which a bare durable state or a newer pointer refuses.
ClearAccepts ==
  /\ At("tombstone") /\ durable # None => durable.cleared \/ stored[KeyOf(durable)] # "absent"
  /\ At("tombstone") \/ At("delete") => (pointer # None => ~Ahead(pointer, op.expected))

CallInv == DurableAccepts /\ ClearAccepts

\* No operation runs to begin with.
LEMMA CallInvInit == Init => CallInv
BY DEF Init, CallInv, DurableAccepts, ClearAccepts, At

\* Every step keeps what the operation found.
LEMMA CallInvNext ==
  ASSUME TypeInv, ProtocolInv, CallInv, [Next]_vars
  PROVE  CallInv'
<1> USE NoneAssumption DEF authority, kv, history, At
<1>1. op # None => op \in Operation
  BY DEF TypeInv, TypeOK
<1>2. CASE UNCHANGED <<stored, pointer, durable, op>>
  BY <1>2 DEF CallInv, DurableAccepts, ClearAccepts, IsExact
<1>3. Authority \/ UNCHANGED vars => UNCHANGED <<stored, pointer, durable, op>>
  BY DEF Authority, CreateSite, CommitRow, DeleteActiveSite, DeleteInactiveSite, EndReuseHold, vars
<1>4. ASSUME NEW r \in rows, StartWrite(r) PROVE CallInv'
  <2>1. r \in Row /\ WriteAllowed(r) /\ UNCHANGED <<stored, pointer, durable>>
    BY <1>4 DEF StartWrite, TypeInv, TypeOK
  <2>2. op' # None /\ op'.row = r /\ op'.fenced = OwnerFenceRequired(r)
        /\ op'.step = (IF OwnerFenceRequired(r) THEN "fence" ELSE "snapshot")
    BY <1>4, <2>1, FirstWriteStep DEF StartWrite, OwnerFenceRequired, WriteSteps
  <2>3. CASE OwnerFenceRequired(r)
    <3>1. durable # None /\ durable.site = r.site => durable.cleared /\ Ahead(r, durable)
      BY <2>1, <2>3 DEF OwnerFenceRequired, WriteAllowed
    <3>2. durable # None \/ (pointer # None /\ pointer.site # r.site)
      BY <2>3 DEF OwnerFenceRequired
    <3> QED
      BY <2>1, <2>2, <2>3, <3>1, <3>2 DEF CallInv, DurableAccepts, ClearAccepts
  <2>4. CASE ~OwnerFenceRequired(r)
    <3>1. durable # None => ~durable.cleared /\ durable.site = r.site
      BY <2>4 DEF OwnerFenceRequired
    <3>2. durable # None => IsExact(r) \/ ~Ahead(durable, r)
      BY <2>1, <3>1 DEF WriteAllowed, OwnerReplacementAllowed
    <3>3. IsExact(r)' <=> IsExact(r)
      BY <2>1 DEF IsExact
    <3> QED
      BY <2>1, <2>2, <2>4, <3>1, <3>2, <3>3 DEF CallInv, DurableAccepts, ClearAccepts, IsExact
  <2> QED
    BY <2>3, <2>4
<1>5. CASE PersistOwnerFence
  <2>1. op' # None /\ op'.row = op.row /\ op'.step = "snapshot" /\ op'.fenced = op.fenced
    BY <1>1, <1>5, NextWriteStep DEF PersistOwnerFence, WriteSteps
  <2> QED
    BY <1>5, <2>1 DEF PersistOwnerFence, CallInv, DurableAccepts, ClearAccepts
<1>6. CASE PutSnapshot
  <2>1. op' # None /\ op'.row = op.row /\ op'.step = "pointer" /\ op'.fenced = op.fenced
    BY <1>1, <1>6, NextWriteStep DEF PutSnapshot, WriteSteps
  <2>2. op.row \in Row /\ KeyOf(op.row) \in Key
    BY <1>1, <1>6, OperationParts, KeyOfRow DEF PutSnapshot, WriteSteps
  <2>3. stored'[KeyOf(op.row)] = op.row.status /\ UNCHANGED <<pointer, durable>>
    BY <1>6, <2>2 DEF PutSnapshot, TypeInv, TypeOK
  <2>4. IsExact(op.row) => pointer' = KeyOf(op'.row) /\ stored'[KeyOf(op'.row)] = op'.row.status
    BY <2>1, <2>3 DEF IsExact
  <2> QED
    BY <1>6, <2>1, <2>3, <2>4 DEF PutSnapshot, CallInv, DurableAccepts, ClearAccepts, IsExact
<1>7. CASE PutPointer
  <2>1. op' # None => op'.row = op.row /\ op'.step = "durable" /\ op'.fenced = op.fenced
    BY <1>1, <1>7, NextWriteStep DEF PutPointer, WriteSteps
  <2>2. stored[KeyOf(op.row)] = op.row.status
    BY <1>7 DEF PutPointer, ProtocolInv, WriteIsCurrent
  <2> QED
    BY <1>7, <2>1, <2>2 DEF PutPointer, CallInv, DurableAccepts, ClearAccepts, IsExact
<1>8. CASE PersistPointer
  BY <1>8 DEF PersistPointer, CallInv, DurableAccepts, ClearAccepts
<1>9. ASSUME NEW r \in rows, StartClear(KeyOf(r)) PROVE CallInv'
  <2>1. op' # None /\ op'.step = "tombstone" /\ op'.expected = KeyOf(r)
    BY <1>9, KeyOfRow, FirstClearStep DEF StartClear, TypeInv, TypeOK
  <2> QED
    BY <1>9, <2>1
    DEF StartClear, DurableCanBeCleared, PublishedCanBeCleared, CallInv, DurableAccepts, ClearAccepts
<1>10. CASE PutTombstone
  <2>1. op' # None /\ op'.step = "delete" /\ op'.expected = op.expected
    BY <1>1, <1>10, NextClearStep DEF PutTombstone, ClearSteps
  <2> QED
    BY <1>10, <2>1 DEF PutTombstone, CallInv, DurableAccepts, ClearAccepts
<1>11. CASE DeletePointer
  <2>1. op' # None /\ op'.step = "confirm"
    BY <1>1, <1>11, NextClearStep DEF DeletePointer, ClearSteps
  <2> QED
    BY <1>11, <2>1 DEF DeletePointer, CallInv, DurableAccepts, ClearAccepts
<1>12. CASE ConfirmCleared
  BY <1>12 DEF ConfirmCleared, CallInv, DurableAccepts, ClearAccepts
<1>13. CASE EndEarly
  BY <1>13 DEF EndEarly, CallInv, DurableAccepts, ClearAccepts
<1> QED
  BY <1>2, <1>3, <1>4, <1>5, <1>6, <1>7, <1>8, <1>9, <1>10, <1>11, <1>12, <1>13
  DEF Next, Write, Clear

\* What a router sees of a resolving pointer is a row, or there is no pointer.
LEMMA VisibleParts ==
  ASSUME TypeInv, ProtocolInv
  PROVE  /\ pointer = None => VisibleRoute = None
         /\ pointer # None =>
              /\ VisibleRoute # None /\ VisibleRoute.site = pointer.site
              /\ VisibleRoute.gen = pointer.gen /\ VisibleRoute.pol = pointer.pol
<1>1. pointer # None => pointer \in Key /\ stored[pointer] \in {"serving", "deleted"}
                        /\ VisibleRoute = Shown(pointer, stored[pointer])
  BY DEF TypeInv, TypeOK, ProtocolInv, PointerResolves, VisibleRoute, Shown
<1> QED
  BY <1>1, ShownIsPublished DEF VisibleRoute, Shown

\* An exactly published row is what a router sees.
LEMMA VisibleRow ==
  ASSUME NEW r \in Row, pointer = KeyOf(r), stored[KeyOf(r)] = r.status
  PROVE  VisibleRoute = r
<1>1. pointer # None
  BY KeyOfRow, NoneAssumption
<1>2. VisibleRoute = [site |-> r.site, gen |-> r.gen, pol |-> r.pol, status |-> r.status]
  BY <1>1 DEF VisibleRoute, KeyOf
<1> QED
  BY <1>2 DEF Row

\* The parts of the durable state as SitePointer.tla has it.
LEMMA OwnerDurableParts ==
  ASSUME TypeInv
  PROVE  /\ durable = None => OwnerDurable = None
         /\ durable # None =>
              /\ OwnerDurable = [gen |-> durable.gen, pol |-> durable.pol, kind |-> DurableKind]
              /\ OwnerDurable # None
              /\ OwnerDurable.gen = durable.gen /\ OwnerDurable.pol = durable.pol
              /\ OwnerDurable.kind = DurableKind
              /\ DurableKind \in {"pointer", "bare", "tombstone"}
              /\ DurableKind = "tombstone" <=> durable.cleared
<1> USE NoneAssumption DEF TypeInv, TypeOK
<1>1. durable = None => OwnerDurable = None
  BY DEF OwnerDurable
<1> SUFFICES ASSUME durable # None
             PROVE  /\ OwnerDurable = [gen |-> durable.gen, pol |-> durable.pol,
                                       kind |-> DurableKind]
                    /\ OwnerDurable # None
                    /\ OwnerDurable.gen = durable.gen /\ OwnerDurable.pol = durable.pol
                    /\ OwnerDurable.kind = DurableKind
                    /\ DurableKind \in {"pointer", "bare", "tombstone"}
                    /\ DurableKind = "tombstone" <=> durable.cleared
  BY <1>1
<1>2. durable.gen \in Nat /\ durable.pol \in Nat
  BY RoutePointerAssumption DEF DurablePointer
<1>3. DurableKind \in {"pointer", "bare", "tombstone"}
      /\ (DurableKind = "tombstone" <=> durable.cleared)
  BY DEF DurableKind
<1>4. OwnerDurable = [gen |-> durable.gen, pol |-> durable.pol, kind |-> DurableKind]
  BY DEF OwnerDurable
<1>5. OwnerDurable \in [gen : Nat, pol : Nat, kind : {"pointer", "bare", "tombstone"}]
  BY <1>2, <1>3, <1>4
<1> QED
  BY <1>3, <1>4, <1>5

\* While the hostname has one owner, everything in it is his.
LEMMA AllIsTheOwners ==
  ASSUME TypeInv, ProtocolInv, CommittedInv, OneOwner, NEW r \in rows
  PROVE  /\ pointer # None => pointer.site = r.site
         /\ durable # None => durable.site = r.site
BY PointerIsCommitted
DEF OneOwner, ProtocolInv, CommittedInv, DurableIsCommitted, WasCommitted

\* The fence over the owner's own tombstone is the first half of a write that
\* can fail before the other.
LEMMA FenceIsCall ==
  ASSUME TypeInv, TypeInv', ProtocolInv, CommittedInv, CallInv, OneOwner, PersistOwnerFence
  PROVE  Owner!PointerNext
<1> DEFINE r == op.row
<1>1. op # None /\ op.step = "fence" /\ r \in rows /\ r \in Row
  BY DEF PersistOwnerFence, At, CommittedInv, OpIsCommitted, WriteSteps, TypeInv, TypeOK
<1>2. UNCHANGED <<stored, pointer>> /\ durable' = DurableFor(r, FALSE)
  BY DEF PersistOwnerFence, kv
<1>3. durable # None /\ durable.cleared /\ Ahead(r, durable)
  BY <1>1, AllIsTheOwners DEF CallInv, DurableAccepts, At
<1>4. pointer # None => ~Ahead(pointer, r)
  BY <1>1, AllIsTheOwners DEF ProtocolInv, WriteIsCurrent, MaySucceed, At
<1>5. durable' # None /\ durable'.gen = r.gen /\ durable'.pol = r.pol /\ ~durable'.cleared
  BY <1>1, <1>2, DurableForRow, NoneAssumption DEF DurableFor
<1> HIDE DEF r
<1>6. Owner!Fenced
  BY <1>3, OwnerDurableParts DEF Owner!Fenced
<1>7. Owner!WriteAccepted(r)
  BY <1>3, <1>4, <1>6, OwnerDurableParts, VisibleParts
  DEF Owner!WriteAccepted, Owner!IsNewer, Ahead
<1>8. /\ OwnerDurable' = [gen |-> r.gen, pol |-> r.pol, kind |-> DurableKind']
      /\ DurableKind' \in {"bare", "pointer"}
  BY <1>5 DEF OwnerDurable, DurableKind
<1>9. UNCHANGED VisibleRoute
  BY <1>2 DEF VisibleRoute
<1>10. Owner!WriteFailed(r)
  BY <1>6, <1>7, <1>8, <1>9 DEF Owner!WriteFailed, Owner!DurableOf
<1> QED
  BY <1>1, <1>10 DEF Owner!PointerNext

\* A stored snapshot shows nothing yet, but the durable state may lead to it.
LEMMA SnapshotIsCall ==
  ASSUME TypeInv, ProtocolInv, CommittedInv, OneOwner, PutSnapshot
  PROVE  Owner!PointerNext \/ UNCHANGED <<VisibleRoute, durable, stored>>
<1> DEFINE r == op.row
<1>1. op # None /\ op.step = "snapshot" /\ r \in rows /\ r \in Row
  BY DEF PutSnapshot, At, CommittedInv, OpIsCommitted, WriteSteps, TypeInv, TypeOK
<1>2. UNCHANGED <<pointer, durable>> /\ stored' = [stored EXCEPT ![KeyOf(r)] = r.status]
  BY DEF PutSnapshot
<1>3. KeyOf(r) \in Key /\ stored \in [Key -> {"absent", "serving", "deleted"}]
  BY <1>1, KeyOfRow DEF TypeInv, TypeOK
<1> HIDE DEF r
<1>4. CASE stored[KeyOf(r)] # "absent"
  <2>1. PICK q \in rows : KeyOf(q) = KeyOf(r) /\ q.status = stored[KeyOf(r)]
    BY <1>3, <1>4 DEF CommittedInv, StoredIsCommitted
  <2>2. stored[KeyOf(r)] = r.status
    BY <1>1, <2>1 DEF CommittedInv, KeysAreUnique
  <2>3. stored' = stored
    BY <1>2, <1>3, <2>2
  <2> QED
    BY <1>2, <2>3 DEF VisibleRoute
<1>5. CASE stored[KeyOf(r)] = "absent"
  <2>1. pointer # None => pointer \in Key /\ pointer # KeyOf(r)
    BY <1>5 DEF ProtocolInv, PointerResolves, TypeInv, TypeOK
  <2>2. UNCHANGED VisibleRoute
    BY <1>2, <1>3, <2>1 DEF VisibleRoute
  <2>3. CASE durable = None \/ durable.cleared \/ KeyOf(durable) # KeyOf(r)
    <3>1. durable # None => KeyOf(durable) \in Key
      BY DEF TypeInv, TypeOK, DurablePointer, Key, KeyOf
    <3>2. durable # None => DurableKind' = DurableKind
      BY <1>2, <1>3, <2>3, <3>1 DEF DurableKind, KeyOf
    <3>3. UNCHANGED OwnerDurable
      BY <1>2, <3>2 DEF OwnerDurable
    <3> QED
      BY <1>1, <2>2, <3>3 DEF Owner!PointerNext, Owner!WriteFailed
  <2>4. CASE durable # None /\ ~durable.cleared /\ KeyOf(durable) = KeyOf(r)
    <3>1. durable.gen = r.gen /\ durable.pol = r.pol
      BY <2>4 DEF KeyOf
    <3>2. OwnerDurable = [gen |-> r.gen, pol |-> r.pol, kind |-> "bare"]
      BY <1>5, <2>4, <3>1 DEF OwnerDurable, DurableKind
    <3>3. stored'[KeyOf(r)] # "absent"
      BY <1>1, <1>2, <1>3 DEF Row
    <3>4. DurableKind' = "pointer"
      BY <1>2, <2>4, <3>3 DEF DurableKind, KeyOf
    <3>5. OwnerDurable' = [gen |-> r.gen, pol |-> r.pol, kind |-> "pointer"]
      BY <1>2, <2>4, <3>1, <3>4 DEF OwnerDurable
    <3>6. Owner!WriteFailed(r)
      BY <2>2, <3>2, <3>5 DEF Owner!WriteFailed, Owner!DurableOf
    <3> QED
      BY <1>1, <3>6 DEF Owner!PointerNext
  <2> QED
    BY <2>3, <2>4
<1> QED
  BY <1>3, <1>4, <1>5

\* The pointer that a router sees is written: the write is done.
LEMMA PointerIsCall ==
  ASSUME TypeInv, ProtocolInv, CommittedInv, CallInv, OneOwner, PutPointer
  PROVE  Owner!PointerNext
<1> DEFINE r == op.row
<1>1. op # None /\ op.step = "pointer" /\ r \in rows /\ r \in Row
  BY DEF PutPointer, At, CommittedInv, OpIsCommitted, WriteSteps, TypeInv, TypeOK
<1>2. UNCHANGED <<stored, durable>> /\ pointer' = KeyOf(r)
  BY DEF PutPointer
<1>3. stored[KeyOf(r)] = r.status
  BY <1>1 DEF ProtocolInv, WriteIsCurrent, At
<1>4. pointer # None => ~Ahead(pointer, r)
  BY <1>1, AllIsTheOwners DEF ProtocolInv, WriteIsCurrent, MaySucceed, At
<1>5. IF op.fenced THEN durable = DurableFor(r, FALSE)
      ELSE durable # None => ~durable.cleared /\ (IsExact(r) \/ ~Ahead(durable, r))
  BY <1>1 DEF CallInv, DurableAccepts, At
<1>6. durable # None => durable.site = r.site
  BY <1>1, AllIsTheOwners
<1> HIDE DEF r
<1>7. VisibleRoute' = r
  BY <1>1, <1>2, <1>3, KeyOfRow, NoneAssumption DEF VisibleRoute, KeyOf, Row
<1>8. UNCHANGED OwnerDurable
  BY <1>2 DEF OwnerDurable, DurableKind
<1>9. durable # None => ~durable.cleared /\ (IsExact(r) \/ ~Ahead(durable, r))
  <2>1. CASE op.fenced
    <3>1. durable = DurableFor(r, FALSE)
      BY <1>5, <2>1
    <3>2. durable.cleared = FALSE /\ durable.gen = r.gen /\ durable.pol = r.pol
      BY <3>1 DEF DurableFor
    <3>3. ~Ahead(durable, r)
      BY <1>1, <3>2, TuplesAreIntegers DEF Ahead
    <3> QED
      BY <3>2, <3>3
  <2> QED
    BY <1>5, <2>1
<1>10. ~Owner!Fenced
  BY <1>9, OwnerDurableParts DEF Owner!Fenced
<1>11. IsExact(r) => VisibleRoute = r
  BY <1>1, VisibleRow DEF IsExact
<1>12. Owner!WriteAccepted(r)
  BY <1>4, <1>9, <1>10, <1>11, OwnerDurableParts, VisibleParts
  DEF Owner!WriteAccepted, Owner!IsNewer, Ahead
<1>13. OwnerDurable # Owner!DurableOf(r, "bare")
  <2>1. CASE durable = None
    <3>1. Owner!DurableOf(r, "bare") \in [gen : Nat, pol : Nat,
                                           kind : {"pointer", "bare", "tombstone"}]
      BY <1>1, RoutePointerAssumption DEF Owner!DurableOf, Row
    <3> QED
      BY <2>1, <3>1, OwnerDurableParts, NoneAssumption
  <2>2. CASE durable # None
    <3>1. ASSUME OwnerDurable = Owner!DurableOf(r, "bare") PROVE FALSE
      <4>1. OwnerDurable.gen = r.gen /\ OwnerDurable.pol = r.pol /\ OwnerDurable.kind = "bare"
        BY <3>1 DEF Owner!DurableOf
      <4>2. KeyOf(durable) = KeyOf(r) /\ DurableKind = "bare"
        BY <1>6, <2>2, <4>1, OwnerDurableParts DEF KeyOf
      <4> QED
        BY <1>1, <1>3, <4>2 DEF DurableKind, Row
    <3> QED
      BY <3>1
  <2> QED
    BY <2>1, <2>2
<1>14. Owner!WriteDone(r)
  BY <1>7, <1>8, <1>10, <1>12, <1>13 DEF Owner!WriteDone
<1> QED
  BY <1>1, <1>14 DEF Owner!PointerNext

\* The durable state follows the pointer: the write is done, again.
LEMMA DurableIsCall ==
  ASSUME TypeInv, ProtocolInv, CommittedInv, CallInv, OneOwner, PersistPointer
  PROVE  Owner!PointerNext
<1> DEFINE r == op.row
<1>1. op # None /\ op.step = "durable" /\ r \in rows /\ r \in Row
  BY DEF PersistPointer, At, CommittedInv, OpIsCommitted, WriteSteps, TypeInv, TypeOK
<1>2. UNCHANGED <<stored, pointer>> /\ durable' = DurableFor(r, FALSE)
  BY DEF PersistPointer, kv
<1>3. pointer = KeyOf(r) /\ stored[KeyOf(r)] = r.status
  BY <1>1 DEF ProtocolInv, WriteIsCurrent, CallInv, DurableAccepts, At
<1>4. durable # None => ~durable.cleared
  BY <1>1, DurableForRow DEF CallInv, DurableAccepts, At, DurableFor
<1> HIDE DEF r
<1>5. VisibleRoute = r /\ VisibleRoute' = r
  BY <1>1, <1>2, <1>3, VisibleRow DEF VisibleRoute
<1>6. ~Owner!Fenced
  BY <1>4, OwnerDurableParts DEF Owner!Fenced
<1>7. Owner!WriteAccepted(r)
  <2>1. ~Owner!IsNewer(r, r)
    BY <1>1, TuplesAreIntegers DEF Owner!IsNewer
  <2> QED
    BY <1>5, <1>6, <2>1 DEF Owner!WriteAccepted
<1>8. durable' # None /\ durable'.gen = r.gen /\ durable'.pol = r.pol /\ ~durable'.cleared
      /\ durable'.site = r.site
  BY <1>1, <1>2, DurableForRow, NoneAssumption DEF DurableFor
<1>9. DurableKind' = "pointer"
  BY <1>1, <1>2, <1>3, <1>8 DEF DurableKind, KeyOf, Row
<1>10. OwnerDurable' = Owner!DurableOf(r, "pointer")
  BY <1>8, <1>9 DEF OwnerDurable, Owner!DurableOf
<1>11. Owner!WriteDone(r)
  BY <1>5, <1>7, <1>10 DEF Owner!WriteDone
<1> QED
  BY <1>1, <1>11 DEF Owner!PointerNext

\* A tombstone, and then the deletion of the pointer, are parts of a clear.
LEMMA ClearIsCall ==
  ASSUME TypeInv, TypeInv', ProtocolInv, ClearInv, CommittedInv, CallInv, OneOwner,
         PutTombstone \/ DeletePointer
  PROVE  Owner!PointerNext
<1> DEFINE e == op.expected
<1>1. op # None /\ op.step \in {"tombstone", "delete"} /\ WasCommitted(e) /\ e \in Key
  BY OperationParts
  DEF PutTombstone, DeletePointer, At, CommittedInv, OpIsCommitted, ClearSteps, TypeInv, TypeOK
<1>2. pointer # None => ~Ahead(pointer, e)
  BY <1>1 DEF CallInv, ClearAccepts, At
<1>3. PICK r \in rows : r.gen = e.gen /\ r.pol = e.pol
  BY <1>1 DEF WasCommitted
<1>4. r \in Row /\ r.gen \in Int /\ r.pol \in Int
  BY TuplesAreIntegers DEF TypeInv, TypeOK
<1> HIDE DEF e
<1>5. pointer # None => ~Owner!IsNewer(VisibleRoute, r)
  BY <1>2, <1>3, VisibleParts DEF Owner!IsNewer, Ahead
<1>6. CASE PutTombstone
  <2>1. UNCHANGED <<stored, pointer>> /\ durable' = DurableFor(e, TRUE)
    BY <1>6 DEF PutTombstone, kv, e
  <2>2. durable # None => ~Ahead(durable, e)
    BY <1>6 DEF PutTombstone, ClearInv, ClearIsFenced, e
  <2>3. durable # None => DurableKind # "bare"
    BY <1>6 DEF PutTombstone, CallInv, ClearAccepts, DurableKind
  <2>4. Owner!ClearAccepted(r)
    BY <1>3, <1>5, <2>2, <2>3, OwnerDurableParts, VisibleParts
    DEF Owner!ClearAccepted, Owner!IsNewer, Ahead
  <2>5. durable' # None /\ durable'.gen = r.gen /\ durable'.pol = r.pol /\ durable'.cleared
    BY <1>1, <1>3, <2>1, DurableForRow, NoneAssumption DEF DurableFor
  <2>6. OwnerDurable' = Owner!DurableOf(r, "tombstone")
    BY <2>5 DEF OwnerDurable, DurableKind, Owner!DurableOf
  <2>7. UNCHANGED VisibleRoute
    BY <2>1 DEF VisibleRoute
  <2>8. Owner!ClearFailed(r)
    BY <2>4, <2>6, <2>7 DEF Owner!ClearFailed
  <2> QED
    BY <1>4, <2>8 DEF Owner!PointerNext
<1>7. CASE DeletePointer
  <2>1. UNCHANGED <<stored, durable>> /\ pointer' = None /\ durable = DurableFor(e, TRUE)
    BY <1>7 DEF DeletePointer, ClearInv, ClearIsFenced, e
  <2>2. durable # None /\ durable.gen = r.gen /\ durable.pol = r.pol /\ durable.cleared
    BY <1>1, <1>3, <2>1, DurableForRow, NoneAssumption DEF DurableFor
  <2>3. OwnerDurable = Owner!DurableOf(r, "tombstone") /\ UNCHANGED OwnerDurable
    BY <2>1, <2>2 DEF OwnerDurable, DurableKind, Owner!DurableOf
  <2>4. Owner!ClearAccepted(r)
    BY <1>4, <1>5, <2>2, OwnerDurableParts, VisibleParts
    DEF Owner!ClearAccepted, Owner!IsNewer, Ahead
  <2>5. VisibleRoute' = None
    BY <2>1 DEF VisibleRoute
  <2>6. Owner!ClearFailed(r)
    BY <2>3, <2>4, <2>5 DEF Owner!ClearFailed
  <2> QED
    BY <1>4, <2>6 DEF Owner!PointerNext
<1> QED
  BY <1>6, <1>7

\* Every storage call on the hostname of one owner is (part of) a call of
\* SitePointer.tla.
LEMMA OwnerStep ==
  ASSUME TypeInv, TypeInv', ProtocolInv, ClearInv, CommittedInv, CallInv, OneOwner, [Next]_vars
  PROVE  Owner!PointerNext \/ UNCHANGED <<VisibleRoute, durable, stored>>
<1>1. CASE UNCHANGED <<stored, pointer, durable>>
  BY <1>1 DEF VisibleRoute
<1>2. Authority \/ (\E r \in rows : StartWrite(r)) \/ (\E r \in rows : StartClear(KeyOf(r)))
        \/ ConfirmCleared \/ EndEarly \/ UNCHANGED vars
      => UNCHANGED <<stored, pointer, durable>>
  BY DEF Authority, CreateSite, CommitRow, DeleteActiveSite, DeleteInactiveSite, EndReuseHold,
         StartWrite, StartClear, ConfirmCleared, EndEarly, kv, vars
<1> QED
  BY <1>1, <1>2, FenceIsCall, SnapshotIsCall, PointerIsCall, DurableIsCall, ClearIsCall
  DEF Next, Write, Clear

\* As long as the hostname has not changed hands, the storage calls of its
\* writes and clears implement the calls of SitePointer.tla, which the models
\* of deployments use, whatever fails between them.
THEOREM SoleOwnerRefinement == Spec => SoleOwnerSpec
<1>1. Init => Owner!PointerInit
  BY DEF Init, Owner!PointerInit, VisibleRoute, OwnerDurable
<1>2. TypeInv /\ ProtocolInv /\ CallInv /\ [Next]_vars => CallInv'
  BY CallInvNext
<1>3. TypeInv /\ TypeInv' /\ ProtocolInv /\ ClearInv /\ CommittedInv /\ CallInv /\ [Next]_vars
        => [OneOwner => Owner!PointerNext]_<<VisibleRoute, durable, stored>>
  BY OwnerStep
<1> QED
  BY <1>1, <1>2, <1>3, CallInvInit, TurnInvariance, PTL DEF Spec, SoleOwnerSpec
=============================================================================
