----------------------------- MODULE SitePointer -----------------------------
(***************************************************************************)
(* The route pointer of a hostname as its owner's handlers see it, while   *)
(* nobody else takes the hostname over: each write and each clear is one   *)
(* call, which is refused, or succeeds, or fails with any part of its work *)
(* done.  RoutePointer.tla, where a call is the sequence of storage calls  *)
(* of RoutePointerDO, implements this for a single site, and               *)
(* Deployment.tla uses it.                                                 *)
(***************************************************************************)
EXTENDS Integers

CONSTANTS
  Routes,        \* what can be published: records with gen, pol and content
  None

VARIABLES
  published,     \* the route that the KV pointer leads to, or None
  durable        \* the Durable Object's own state, or None

\* "pointer" follows the KV pointer; "bare" is a pointer whose snapshot never
\* reached KV; "tombstone" is what a clear leaves.
Durables == [gen : Int, pol : Int, kind : {"pointer", "bare", "tombstone"}]

DurableOf(r, kind) == [gen |-> r.gen, pol |-> r.pol, kind |-> kind]

\* routeTupleIsAhead
IsNewer(a, b) == a.gen > b.gen \/ (a.gen = b.gen /\ a.pol > b.pol)

Fenced == durable # None /\ durable.kind = "tombstone"

----------------------------------------------------------------------------
\* assertPointerIsNotStale and assertPointerWriteAllowed, for one owner.
WriteAccepted(r) ==
  /\ published # None => ~IsNewer(published, r)
  /\ durable # None =>
       IF Fenced THEN IsNewer(r, durable) ELSE published = r \/ ~IsNewer(durable, r)

\* Over a tombstone the durable state moves first.  Otherwise it follows the
\* KV pointer, and the handler swallows that it could not.
WriteDone(r) ==
  /\ WriteAccepted(r)
  /\ published' = r
  /\ \/ durable' = DurableOf(r, "pointer")
     \/ ~Fenced /\ durable # DurableOf(r, "bare") /\ UNCHANGED durable

WriteFailed(r) ==
  \/ UNCHANGED <<published, durable>>
  \/ WriteDone(r)
  \/ /\ WriteAccepted(r)
     /\ Fenced
     /\ \E kind \in {"bare", "pointer"} : durable' = DurableOf(r, kind)
     /\ UNCHANGED published
  \/ /\ durable = DurableOf(r, "bare")
     /\ durable' = DurableOf(r, "pointer")
     /\ UNCHANGED published

----------------------------------------------------------------------------
\* durablePointerCanBeCleared and routePointerCanBeCleared, for one owner.
ClearAccepted(r) ==
  /\ durable # None => durable.kind # "bare" /\ ~IsNewer(durable, r)
  /\ published # None => ~IsNewer(published, r)

\* The tombstone is put before the KV pointer is deleted.
ClearDone(r) ==
  /\ ClearAccepted(r)
  /\ durable' = DurableOf(r, "tombstone")
  /\ published' = None

ClearFailed(r) ==
  \/ UNCHANGED <<published, durable>>
  \/ ClearAccepted(r) /\ durable' = DurableOf(r, "tombstone") /\ published' \in {published, None}

----------------------------------------------------------------------------
PointerInit == published = None /\ durable = None

PointerNext ==
  \E r \in Routes : WriteDone(r) \/ WriteFailed(r) \/ ClearDone(r) \/ ClearFailed(r)

PointerSpec == PointerInit /\ [][PointerNext]_<<published, durable>>
=============================================================================
