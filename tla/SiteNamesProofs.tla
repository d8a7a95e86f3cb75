-------------------------- MODULE SiteNamesProofs --------------------------
(***************************************************************************)
(* Theorems about the sites' hostnames, for any number of sites and        *)
(* hostnames, and however often handlers stop and calls fail or are late.  *)
(***************************************************************************)
EXTENDS SiteNames, TLAPS

-----------------------------------------------------------------------------
(* Types.                                                                  *)

SiteRows ==
  [state : {"none", "live", "deleted"}, host : Hostnames \cup {None}, gen : Nat,
   active : BOOLEAN, rev : Nat, synced : Nat]
Claims == [owner : Sites \cup {None}, status : {"active", "pending", "held", "free"}]
PointerRows == [site : Sites, gen : Nat, live : BOOLEAN]
Tombstones == [site : Sites, gen : Nat]
Steps ==
  {"publish", "repair", "retire", "release", "commit", "settle", "withdraw", "restore",
   "republish"}
Befores == [row : SiteRows, claims : [Hostnames -> Claims \cup {None}]]
Jobs ==
  [kind : {"deploy", "sync", "delete"}, step : Steps, todo : SUBSET Hostnames,
   at : Hostnames \cup {None}, failed : BOOLEAN, before : Befores \cup {None}]

\* No record and no name is taken for a missing one.
NoneIsNone ==
  None \notin Sites \cup Hostnames \cup Claims \cup PointerRows \cup Tombstones \cup Jobs
              \cup Befores

NamesTypes ==
  /\ site \in [Sites -> SiteRows]
  /\ claim \in [Hostnames -> Claims]
  /\ pointer \in [Hostnames -> PointerRows \cup {None}]
  /\ tombstone \in [Hostnames -> Tombstones \cup {None}]
  /\ work \in [Sites -> Jobs \cup {None}]
  /\ late \subseteq [host : Hostnames, row : PointerRows]
  /\ abandoned \subseteq Sites
  /\ \A s \in Sites : site[s].state # "none" => site[s].host \in Hostnames
  /\ \A h \in Hostnames : claim[h].status # "free" => claim[h].owner \in Sites

-----------------------------------------------------------------------------
(* The invariant.                                                          *)

\* Deployments and renames are of live sites, and a rename's cleanup is of
\* hostnames that wait for it.
SyncOf(s) ==
  ~Idle(s) =>
    /\ site[s].state # "none"
    /\ work[s].kind \in {"deploy", "sync"} => Live(s)
    /\ work[s].kind = "deploy" => work[s].step = "publish"
    /\ work[s].kind = "sync" => work[s].step \in {"repair", "retire", "release"}
    /\ work[s].kind = "sync" /\ work[s].step # "repair" => work[s].todo \subseteq Retiring(s)
    /\ At(s, "sync", "release") =>
         work[s].at \in Hostnames /\ claim[work[s].at] = Claim(s, "pending")

\* What a deletion has read before still tells whose the claims are: its site
\* has got none, and those it had are as they were, or are held.
Remembered(s, b) ==
  /\ b \in Befores
  /\ b.row.state = "live" /\ b.row.host = site[s].host
  /\ b.claims[site[s].host] = Claim(s, "active")
  /\ \A h \in Hostnames :
       /\ b.claims[h] # None =>
            b.claims[h].owner = s /\ (b.claims[h].status = "active" => h = site[s].host)
       /\ claim[h].owner = s =>
            /\ b.claims[h] # None
            /\ \/ claim[h] = b.claims[h]
               \/ claim[h].status = "held" /\ b.claims[h].status \in {"active", "pending"}

DeletionOf(s) ==
  ~Idle(s) /\ work[s].kind = "delete" =>
    /\ Remembered(s, work[s].before)
    /\ ~Live(s) => claim[site[s].host] = Claim(s, "held")
    /\ work[s].step \in {"retire", "commit", "republish"} => Live(s)
    /\ work[s].step \in {"publish", "withdraw", "restore"} => ~Live(s)
    /\ work[s].step \in {"retire", "commit", "publish", "withdraw", "restore", "republish",
                         "settle"}
    /\ work[s].step = "retire" => work[s].todo \subseteq Retiring(s)
    /\ work[s].step = "commit" => work[s].todo = {}

JobsInv == \A s \in Sites : SyncOf(s) /\ DeletionOf(s)

\* A late write is of the owner of its hostname's claim, which stays held for
\* it, and of an earlier generation than the owner's next row.
LateInv ==
  \A w \in late :
    LET s == w.row.site
    IN /\ claim[w.host].owner = s /\ claim[w.host].status # "free"
       /\ site[s].state # "none"
       /\ w.row.gen <= site[s].gen
       /\ w.row.gen = site[s].gen => w.row.live = Live(s)

TombstonesInv == \A h \in Hostnames : tombstone[h] # None => pointer[h] = None

\* No write of a live route that is still under way reaches the hostname.
Sealed(h, s) ==
  \/ /\ pointer[h] # None /\ pointer[h].site = s /\ ~pointer[h].live
     /\ \A w \in late : w.host = h /\ w.row.live => w.row.gen < pointer[h].gen
  \/ /\ pointer[h] = None /\ tombstone[h] # None /\ tombstone[h].site = s
     /\ \A w \in late : w.host = h /\ w.row.live => w.row.gen <= tombstone[h].gen

\* The exceptions: a deletion that ended without telling the hostname, and
\* one that is under way.
Excused(h, s) ==
  \/ s \in abandoned
  \/ h = site[s].host /\ ~Live(s) /\ ~Idle(s)

MustBeSealed(h, s) ==
  \/ claim[h].owner = s /\ claim[h].status \in {"held", "free"} /\ ~Excused(h, s)
  \/ At(s, "sync", "release") /\ work[s].at = h
  \/ /\ At(s, "delete", "retire") \/ At(s, "delete", "commit")
     /\ claim[h] = Claim(s, "pending") /\ h \notin work[s].todo
  \/ At(s, "delete", "commit") /\ ~site[s].active /\ h = site[s].host

SealsInv == \A s \in Sites, h \in Hostnames : MustBeSealed(h, s) => Sealed(h, s)

LeadsTo(h, s) == pointer[h] # None /\ pointer[h].live /\ pointer[h].site = s
Claimed(h, s) == claim[h].owner = s /\ claim[h].status \in {"active", "pending"}

TrafficInv ==
  \A s \in Sites, h \in Hostnames : LeadsTo(h, s) => Claimed(h, s) \/ Excused(h, s)

RowsInv == NamesTypes /\ LiveSiteOwnsItsHostname /\ JobsInv
NamesInv == RowsInv /\ LateInv /\ TombstonesInv /\ SealsInv /\ TrafficInv

-----------------------------------------------------------------------------
(* What the parts say of a single site or hostname.                        *)

LEMMA Rows1 ==
  ASSUME NamesTypes, NEW s \in Sites
  PROVE  /\ site[s] \in SiteRows /\ site[s].gen \in Nat /\ Live(s) \in BOOLEAN
         /\ site[s].state # "none" => site[s].host \in Hostnames
         /\ Live(s) => site[s].host \in Hostnames
         /\ RouteOf(s) \in PointerRows
         /\ ~Idle(s) => work[s] \in Jobs
BY DEF NamesTypes, SiteRows, Live, RouteOf, PointerRows, Idle

\* A claim is its owner and its status.
LEMMA ClaimIs ==
  ASSUME NamesTypes, NEW h \in Hostnames, NEW s, NEW x
  PROVE  claim[h] = Claim(s, x) <=> claim[h].owner = s /\ claim[h].status = x
BY DEF NamesTypes, Claims, Claim

LEMMA LiveOwns ==
  ASSUME RowsInv, NEW s \in Sites, Live(s)
  PROVE  /\ site[s].host \in Hostnames /\ claim[site[s].host] = Claim(s, "active")
         /\ claim[site[s].host].owner = s /\ claim[site[s].host].status = "active"
BY Rows1 DEF RowsInv, LiveSiteOwnsItsHostname, Claim

\* A deletion under way is of a site whose hostname's claim is held.
LEMMA DeletionHolds ==
  ASSUME RowsInv, NEW s \in Sites, ~Live(s), ~Idle(s)
  PROVE  /\ work[s].kind = "delete" /\ site[s].host \in Hostnames
         /\ claim[site[s].host] = Claim(s, "held")
         /\ claim[site[s].host].owner = s /\ claim[site[s].host].status = "held"
<1>1. work[s] \in Jobs /\ SyncOf(s) /\ DeletionOf(s)
  BY Rows1 DEF RowsInv, JobsInv
<1>2. work[s].kind = "delete" /\ site[s].state # "none"
  BY <1>1 DEF SyncOf, Jobs
<1> QED
  BY <1>1, <1>2, Rows1 DEF DeletionOf, RowsInv, Claim

\* Who must have sealed a hostname owns its claim.
LEMMA OwnersSeal ==
  ASSUME RowsInv, NEW s \in Sites, NEW h \in Hostnames, MustBeSealed(h, s)
  PROVE  claim[h].owner = s
<1>1. CASE At(s, "sync", "release") /\ work[s].at = h
  <2>1. SyncOf(s) /\ ~Idle(s)
    BY <1>1 DEF RowsInv, JobsInv, At
  <2> QED
    BY <1>1, <2>1 DEF SyncOf, Claim
<1>2. CASE At(s, "delete", "commit") /\ h = site[s].host
  BY <1>2, LiveOwns DEF RowsInv, JobsInv, DeletionOf, At
<1> QED
  BY <1>1, <1>2 DEF MustBeSealed, Claim

\* A clear of the owner seals the hostname.
LEMMA ClearSeals ==
  ASSUME NoneIsNone, NamesInv, NEW s \in Sites, NEW h \in Hostnames, claim[h].owner = s, Clear(h, s)
  PROVE  Sealed(h, s)'
<1> DEFINE stone == [site |-> s, gen |-> site[s].gen]
<1>1. stone \in Tombstones /\ stone # None
  BY Rows1 DEF NamesInv, RowsInv, Tombstones, NoneIsNone
<1>2. pointer'[h] = None /\ tombstone'[h] = stone /\ late' = late
  BY DEF Clear, NamesInv, RowsInv, NamesTypes
<1>3. \A w \in late : w.host = h => w.row.gen <= site[s].gen
  BY DEF NamesInv, LateInv
<1> QED
  BY <1>1, <1>2, <1>3 DEF Sealed

\* The same as LiveSiteOwnsItsHostname, site by site and hostname by hostname.
Owns(s, h) == claim[h].owner = s /\ claim[h].status = "active"
OwnersInv == \A s \in Sites, h \in Hostnames : Owns(s, h) <=> Live(s) /\ site[s].host = h

LEMMA OwnersKnown ==
  ASSUME RowsInv PROVE OwnersInv
<1> SUFFICES ASSUME NEW s \in Sites, NEW h \in Hostnames
             PROVE  Owns(s, h) <=> Live(s) /\ site[s].host = h
  BY DEF OwnersInv
<1> QED
  BY LiveOwns DEF Owns, RowsInv, LiveSiteOwnsItsHostname

LEMMA OwnersSuffice ==
  ASSUME NamesTypes', OwnersInv' PROVE LiveSiteOwnsItsHostname'
<1>1. \A s \in Sites : Live(s)' => claim'[site'[s].host] = Claim(s, "active")
  BY DEF NamesTypes, OwnersInv, Owns, Live, Claim, Claims
<1>2. \A h \in Hostnames : claim'[h].status = "active" =>
        /\ claim'[h].owner \in Sites
        /\ site'[claim'[h].owner].state = "live" /\ site'[claim'[h].owner].host = h
  BY DEF NamesTypes, OwnersInv, Owns, Live
<1> QED
  BY <1>1, <1>2 DEF LiveSiteOwnsItsHostname, Live

-----------------------------------------------------------------------------
(* Steps that leave the rows alone.                                        *)

\* What happens to a hostname's pointer.
EdgeOp(h, s) ==
  \/ Publish(h, RouteOf(s))
  \/ /\ UNCHANGED <<pointer, tombstone>>
     /\ late' \in {late, late \cup {[host |-> h, row |-> RouteOf(s)]}}
  \/ Clear(h, s)

LEMMA EdgeOpTypes ==
  ASSUME NoneIsNone, NamesTypes, NEW s \in Sites, NEW h \in Hostnames, EdgeOp(h, s)
  PROVE  /\ pointer' \in [Hostnames -> PointerRows \cup {None}]
         /\ tombstone' \in [Hostnames -> Tombstones \cup {None}]
         /\ late' \subseteq [host : Hostnames, row : PointerRows]
         /\ \A g \in Hostnames \ {h} : pointer'[g] = pointer[g] /\ tombstone'[g] = tombstone[g]
         /\ \A w \in late' : w \in late \/ w = [host |-> h, row |-> RouteOf(s)]
         /\ pointer'[h] \in {pointer[h], None, RouteOf(s)}
         /\ TombstonesInv => TombstonesInv'
<1>1. RouteOf(s) \in PointerRows /\ [site |-> s, gen |-> site[s].gen] \in Tombstones
  BY Rows1 DEF Tombstones
<1>2. CASE Publish(h, RouteOf(s))
  BY <1>1, <1>2 DEF Publish, NamesTypes, TombstonesInv
<1>3. CASE /\ UNCHANGED <<pointer, tombstone>>
           /\ late' \in {late, late \cup {[host |-> h, row |-> RouteOf(s)]}}
  BY <1>1, <1>3 DEF NamesTypes, TombstonesInv
<1>4. CASE Clear(h, s)
  BY <1>1, <1>4 DEF Clear, NamesTypes, TombstonesInv
<1> QED
  BY <1>2, <1>3, <1>4 DEF EdgeOp

\* A hostname at which nothing happens keeps what it is.
LEMMA SealedStays ==
  ASSUME NEW s \in Sites, NEW g \in Hostnames, Sealed(g, s),
         pointer'[g] = pointer[g], tombstone'[g] = tombstone[g],
         \A w \in late' : w.host = g => w \in late
  PROVE  Sealed(g, s)'
BY DEF Sealed

LEMMA EdgeStep ==
  ASSUME NoneIsNone, NamesInv, NEW s \in Sites, NEW h \in Hostnames,
         UNCHANGED rows, claim[h].owner = s, site[s].state # "none",
         work' \in [Sites -> Jobs \cup {None}],
         \A t \in Sites \ {s} : work'[t] = work[t],
         SyncOf(s)', DeletionOf(s)',
         abandoned' \in {abandoned, abandoned \cup {s}},
         EdgeOp(h, s),
         Live(s) => claim[h].status \in {"active", "pending"},
         ~Live(s) => claim[h].status = "held" /\ h = site[s].host,
         Live(s) \/ ~Idle(s)' \/ Sealed(h, s)' \/ s \in abandoned',
         \A g \in Hostnames \ {h} : MustBeSealed(g, s)' => MustBeSealed(g, s),
         MustBeSealed(h, s)' => Sealed(h, s)'
  PROVE  NamesInv'
<1>1. NamesTypes' /\ TombstonesInv'
  BY EdgeOpTypes DEF NamesInv, RowsInv, NamesTypes, rows
<1>2. LiveSiteOwnsItsHostname'
  BY DEF NamesInv, RowsInv, LiveSiteOwnsItsHostname, rows, Live
<1>3. JobsInv'
  <2> SUFFICES ASSUME NEW t \in Sites, t # s PROVE SyncOf(t)' /\ DeletionOf(t)'
    BY DEF JobsInv
  <2>1. SyncOf(t) /\ DeletionOf(t)
    BY DEF NamesInv, RowsInv, JobsInv
  <2>2. work'[t] = work[t] /\ site' = site /\ claim' = claim
    BY DEF rows
  <2>3. SyncOf(t)'
    BY <2>1, <2>2 DEF SyncOf, Idle, Live, At, Retiring
  <2>4. DeletionOf(t)'
    BY <2>1, <2>2 DEF DeletionOf, Remembered, Idle, Live, Retiring
  <2> QED
    BY <2>3, <2>4
<1>4. RowsInv'
  BY <1>1, <1>2, <1>3 DEF RowsInv
<1>5. LateInv'
  <2>1. \A w \in late' : w \in late \/ w = [host |-> h, row |-> RouteOf(s)]
    BY EdgeOpTypes DEF NamesInv, RowsInv
  <2> SUFFICES ASSUME NEW w \in late', w = [host |-> h, row |-> RouteOf(s)]
               PROVE  /\ claim[w.host].owner = w.row.site /\ claim[w.host].status # "free"
                      /\ site[w.row.site].state # "none"
                      /\ w.row.gen <= site[w.row.site].gen
                      /\ w.row.gen = site[w.row.site].gen => w.row.live = Live(w.row.site)
    BY <2>1 DEF NamesInv, LateInv, rows, Live
  <2> QED
    BY Rows1 DEF RouteOf, NamesInv, RowsInv
<1>6. \A t \in Sites, g \in Hostnames : t # s =>
        ((Excused(g, t)' <=> Excused(g, t)) /\ (MustBeSealed(g, t)' => MustBeSealed(g, t)))
  BY DEF rows, Excused, MustBeSealed, At, Idle, Live
<1>7. \A g \in Hostnames \ {h} :
        pointer'[g] = pointer[g] /\ tombstone'[g] = tombstone[g]
        /\ \A w \in late' : w.host = g => w \in late
  BY EdgeOpTypes DEF NamesInv, RowsInv
<1>8. SealsInv'
  <2> SUFFICES ASSUME NEW t \in Sites, NEW g \in Hostnames, MustBeSealed(g, t)'
               PROVE  Sealed(g, t)'
    BY DEF SealsInv
  <2>1. CASE t # s
    <3>1. MustBeSealed(g, t)
      BY <1>6, <2>1
    <3>2. Sealed(g, t) /\ claim[g].owner = t
      BY <3>1, OwnersSeal DEF NamesInv, SealsInv
    <3>3. g # h
      BY <2>1, <3>2
    <3> QED
      BY <1>7, <3>2, <3>3, SealedStays
  <2>2. CASE t = s /\ g # h
    <3>1. Sealed(g, s)
      BY <2>2 DEF NamesInv, SealsInv
    <3> QED
      BY <1>7, <2>2, <3>1, SealedStays
  <2> QED
    BY <2>1, <2>2
<1>9. TrafficInv'
  <2> SUFFICES ASSUME NEW p \in Sites, NEW g \in Hostnames, LeadsTo(g, p)'
               PROVE  Claimed(g, p) \/ Excused(g, p)'
    BY DEF TrafficInv, Claimed, rows
  <2>1. CASE pointer'[g] = pointer[g]
    <3>1. Claimed(g, p) \/ Excused(g, p)
      BY <2>1 DEF NamesInv, TrafficInv, LeadsTo
    <3>2. CASE p # s
      BY <1>6, <3>1, <3>2
    <3>3. CASE p = s /\ s \in abandoned
      BY <3>3 DEF Excused
    <3>4. CASE p = s /\ g = site[s].host /\ ~Live(s) /\ ~Idle(s)
      <4>1. g = h
        BY <3>4
      <4>2. ~Sealed(h, s)'
        BY <4>1 DEF Sealed, LeadsTo
      <4>3. ~Idle(s)' \/ s \in abandoned'
        BY <3>4, <4>2
      <4> QED
        BY <3>4, <4>3 DEF Excused, Live, rows
    <3> QED
      BY <3>1, <3>2, <3>3, <3>4 DEF Excused
  <2>2. CASE pointer'[g] # pointer[g]
    <3>1. g = h /\ pointer'[h] = RouteOf(s)
      BY <2>2, <1>7, EdgeOpTypes DEF NamesInv, RowsInv, LeadsTo
    <3>2. Live(s) /\ p = s
      BY <3>1 DEF RouteOf, LeadsTo
    <3> QED
      BY <3>1, <3>2 DEF Claimed
  <2> QED
    BY <2>1, <2>2
<1> QED
  BY <1>1, <1>4, <1>5, <1>8, <1>9 DEF NamesInv

\* A handler goes from one step to another, ends, or begins.
LEMMA Stepping ==
  ASSUME NoneIsNone, NamesTypes, NEW s \in Sites, ~Idle(s), NEW x \in Steps, Step(s, x)
  PROVE  /\ work' \in [Sites -> Jobs \cup {None}] /\ ~Idle(s)'
         /\ \A t \in Sites \ {s} : work'[t] = work[t]
         /\ work'[s].kind = work[s].kind /\ work'[s].step = x
         /\ work'[s].todo = work[s].todo /\ work'[s].at = work[s].at
         /\ work'[s].before = work[s].before
<1> DEFINE job == [work[s] EXCEPT !.step = x]
<1>1. work[s] \in Jobs
  BY Rows1
<1>2. /\ job \in Jobs /\ job.kind = work[s].kind /\ job.step = x /\ job.todo = work[s].todo
      /\ job.at = work[s].at /\ job.before = work[s].before
  BY <1>1 DEF Jobs
<1>3. work' = [work EXCEPT ![s] = job]
  BY DEF Step
<1> HIDE DEF job
<1> QED
  BY <1>2, <1>3 DEF NamesTypes, Idle, NoneIsNone

LEMMA Ending ==
  ASSUME NamesTypes, NEW s \in Sites, Finish(s)
  PROVE  /\ work' \in [Sites -> Jobs \cup {None}] /\ Idle(s)'
         /\ \A t \in Sites \ {s} : work'[t] = work[t]
         /\ SyncOf(s)' /\ DeletionOf(s)'
BY DEF Finish, NamesTypes, Idle, SyncOf, DeletionOf

LEMMA Beginning ==
  ASSUME NoneIsNone, NamesTypes, NEW s \in Sites, NEW w \in Jobs, Begin(s, w)
  PROVE  /\ work' \in [Sites -> Jobs \cup {None}] /\ ~Idle(s)' /\ work'[s] = w
         /\ \A t \in Sites \ {s} : work'[t] = work[t]
BY DEF Begin, NamesTypes, Idle, NoneIsNone

\* A handler at such a step has promised nothing of any hostname.
Quiet(s) ==
  \/ Idle(s)
  \/ work[s].kind = "deploy"
  \/ work[s].kind = "sync" /\ work[s].step # "release"
  \/ work[s].kind = "delete" /\ work[s].step \notin {"retire", "commit"}

LEMMA QuietStep ==
  ASSUME NEW s \in Sites, NEW g \in Hostnames, UNCHANGED rows, abandoned \subseteq abandoned',
         Quiet(s)', Live(s) \/ ~Idle(s)' \/ g # site[s].host, MustBeSealed(g, s)'
  PROVE  /\ MustBeSealed(g, s) /\ ~Excused(g, s)'
         /\ claim[g].owner = s /\ claim[g].status \in {"held", "free"}
<1>1. ~At(s, "sync", "release")' /\ ~At(s, "delete", "retire")' /\ ~At(s, "delete", "commit")'
  BY DEF Quiet, At, Idle
<1>2. claim[g].owner = s /\ claim[g].status \in {"held", "free"} /\ ~Excused(g, s)'
  BY <1>1 DEF MustBeSealed, rows
<1>3. ~Excused(g, s)
  BY <1>2 DEF Excused, rows, Live
<1> QED
  BY <1>2, <1>3 DEF MustBeSealed

\* Of a live site, at a hostname that it has or has just left.
LEMMA LiveEdgeStep ==
  ASSUME NoneIsNone, NamesInv, NEW s \in Sites, NEW h \in Hostnames,
         UNCHANGED rows, Live(s), Claimed(h, s),
         work' \in [Sites -> Jobs \cup {None}],
         \A t \in Sites \ {s} : work'[t] = work[t],
         SyncOf(s)', DeletionOf(s)', Quiet(s)',
         abandoned' \in {abandoned, abandoned \cup {s}},
         EdgeOp(h, s)
  PROVE  NamesInv'
<1>1. \A g \in Hostnames :
        MustBeSealed(g, s)' => MustBeSealed(g, s) /\ claim[g].status \in {"held", "free"}
  BY QuietStep
<1>2. claim[h].owner = s /\ claim[h].status \in {"active", "pending"}
  BY DEF Claimed
<1>3. ~MustBeSealed(h, s)'
  BY <1>1, <1>2
<1>4. site[s].state # "none"
  BY DEF Live
<1>5. \A g \in Hostnames \ {h} : MustBeSealed(g, s)' => MustBeSealed(g, s)
  BY <1>1
<1> QED
  BY <1>2, <1>3, <1>4, <1>5, EdgeStep

\* Of a deleted site, at the hostname it had.
LEMMA DeadEdgeStep ==
  ASSUME NoneIsNone, NamesInv, NEW s \in Sites,
         UNCHANGED rows, ~Live(s), ~Idle(s),
         work' \in [Sites -> Jobs \cup {None}],
         \A t \in Sites \ {s} : work'[t] = work[t],
         SyncOf(s)', DeletionOf(s)', Quiet(s)',
         abandoned' \in {abandoned, abandoned \cup {s}},
         EdgeOp(site[s].host, s),
         ~Idle(s)' \/ Sealed(site[s].host, s)' \/ s \in abandoned'
  PROVE  NamesInv'
<1>1. PICK h \in Hostnames :
        /\ h = site[s].host /\ claim[h].owner = s /\ claim[h].status = "held"
        /\ work[s].kind = "delete" /\ site[s].state # "none" /\ site' = site
  BY DeletionHolds DEF NamesInv, RowsInv, JobsInv, SyncOf, rows
<1>2. Sealed(h, s)' <=> Sealed(site[s].host, s)'
  BY <1>1
<1>3. \A g \in Hostnames \ {h} : MustBeSealed(g, s)' => MustBeSealed(g, s)
  BY <1>1, QuietStep
<1>4. ASSUME MustBeSealed(h, s)' PROVE Sealed(h, s)'
  <2>0. ~At(s, "sync", "release")' /\ ~At(s, "delete", "retire")' /\ ~At(s, "delete", "commit")'
    BY DEF Quiet, At, Idle
  <2>1. ~Excused(h, s)'
    BY <1>4, <2>0 DEF MustBeSealed
  <2>2. Idle(s)' /\ s \notin abandoned'
    BY <1>1, <2>1 DEF Excused, Live
  <2> QED
    BY <1>2, <2>2
<1> QED
  BY <1>1, <1>2, <1>3, <1>4, EdgeStep

\* A deletion goes on.
LEMMA DeletionGoesOn ==
  ASSUME RowsInv, NEW s \in Sites, ~Idle(s), work[s].kind = "delete", UNCHANGED rows,
         ~Idle(s)', work'[s].kind = "delete", work'[s].before = work[s].before,
         work'[s].step \in {"retire", "commit", "republish"} => Live(s),
         work'[s].step \in {"publish", "withdraw", "restore"} => ~Live(s),
         work'[s].step \in {"retire", "commit", "publish", "withdraw", "restore", "republish",
                            "settle"},
         work'[s].step = "retire" => work'[s].todo \subseteq Retiring(s),
         work'[s].step = "commit" => work'[s].todo = {}
  PROVE  SyncOf(s)' /\ DeletionOf(s)'
<1>1. SyncOf(s) /\ DeletionOf(s)
  BY DEF RowsInv, JobsInv
<1>2. SyncOf(s)'
  BY <1>1 DEF SyncOf, Live, At, rows
<1>3. Remembered(s, work[s].before)'
  <2>1. Remembered(s, work[s].before)
    BY <1>1 DEF DeletionOf
  <2> QED
    BY <2>1 DEF Remembered, rows
<1>4. DeletionOf(s)'
  BY <1>1, <1>3 DEF DeletionOf, Live, Retiring, rows
<1> QED
  BY <1>2, <1>4

\* Deployments, and the cron.
LEMMA DeployKeepsInv ==
  ASSUME NoneIsNone, NEW s \in Sites
  PROVE  NamesInv /\ (PublishRoute(s) \/ Repair(s) \/ RepairFails(s)) => NamesInv'
<1> SUFFICES ASSUME NamesInv, PublishRoute(s) \/ Repair(s) \/ RepairFails(s) PROVE NamesInv'
  OBVIOUS
<1> DEFINE h == site[s].host
<1>1. UNCHANGED rows /\ abandoned' = abandoned
  BY DEF PublishRoute, Repair, RepairFails
<1>2. SyncOf(s) /\ DeletionOf(s) /\ NamesTypes /\ ~Idle(s) /\ work[s].kind \in {"deploy", "sync"}
  BY DEF NamesInv, RowsInv, JobsInv, PublishRoute, Repair, RepairFails, At
<1>3. Live(s)
  BY <1>2 DEF SyncOf
<1>4. h \in Hostnames /\ Claimed(h, s)
  BY <1>3, LiveOwns DEF NamesInv, Claimed
<1>5. EdgeOp(h, s)
  BY DEF PublishRoute, Repair, RepairFails, PublishFails, EdgeOp
<1>6. CASE Finish(s)
  <2>1. /\ work' \in [Sites -> Jobs \cup {None}] /\ Idle(s)'
        /\ \A t \in Sites \ {s} : work'[t] = work[t]
        /\ SyncOf(s)' /\ DeletionOf(s)'
    BY <1>2, <1>6, Ending
  <2>2. Quiet(s)'
    BY <2>1 DEF Quiet
  <2> HIDE DEF h
  <2> QED
    BY <1>1, <1>3, <1>4, <1>5, <2>1, <2>2, LiveEdgeStep
<1>7. CASE Repair(s)
  <2> DEFINE job == [work[s] EXCEPT !.step = "retire", !.todo = Retiring(s)]
  <2>1. work[s] \in Jobs /\ work[s].kind = "sync"
    BY <1>2, <1>7, Rows1 DEF Repair, At
  <2>2. /\ job \in Jobs /\ job.kind = "sync" /\ job.step = "retire" /\ job.todo = Retiring(s)
    BY <2>1 DEF Jobs, Retiring, Steps
  <2>3. work' = [work EXCEPT ![s] = job]
    BY <1>7 DEF Repair
  <2> HIDE DEF job
  <2>4. /\ work' \in [Sites -> Jobs \cup {None}] /\ ~Idle(s)' /\ work'[s] = job
        /\ \A t \in Sites \ {s} : work'[t] = work[t]
    BY <1>2, <2>2, <2>3, Beginning DEF Begin
  <2>5. SyncOf(s)'
    BY <1>1, <1>3, <2>2, <2>4 DEF SyncOf, At, Live, Retiring, rows
  <2>6. DeletionOf(s)' /\ Quiet(s)'
    BY <2>2, <2>4 DEF DeletionOf, Quiet
  <2> HIDE DEF h
  <2> QED
    BY <1>1, <1>3, <1>4, <1>5, <2>4, <2>5, <2>6, LiveEdgeStep
<1> QED
  BY <1>6, <1>7 DEF PublishRoute, RepairFails

LEMMA ReconcileKeepsInv ==
  ASSUME NoneIsNone, NEW s \in Sites
  PROVE  NamesInv /\ Reconcile(s) => NamesInv'
<1> SUFFICES ASSUME NamesInv, Reconcile(s) PROVE NamesInv'
  OBVIOUS
<1> DEFINE h == site[s].host
           job == Job("sync", "repair", {}, None)
<1>1. UNCHANGED rows /\ abandoned' = abandoned /\ Live(s) /\ Begin(s, job) /\ UNCHANGED edge
  BY DEF Reconcile, Unsynced
<1>2. job \in Jobs /\ job.kind = "sync" /\ job.step = "repair" /\ NamesTypes
  BY DEF Job, Jobs, Steps, NamesInv, RowsInv
<1>3. h \in Hostnames /\ Claimed(h, s) /\ EdgeOp(h, s)
  BY <1>1, LiveOwns DEF NamesInv, Claimed, EdgeOp, edge
<1> HIDE DEF job
<1>4. /\ work' \in [Sites -> Jobs \cup {None}] /\ ~Idle(s)' /\ work'[s] = job
      /\ \A t \in Sites \ {s} : work'[t] = work[t]
  BY <1>1, <1>2, Beginning
<1>5. SyncOf(s)' /\ DeletionOf(s)' /\ Quiet(s)'
  BY <1>1, <1>2, <1>4 DEF SyncOf, At, Live, Retiring, rows, DeletionOf, Quiet
<1> HIDE DEF h
<1> QED
  BY <1>1, <1>3, <1>4, <1>5, LiveEdgeStep

\* A rename's cleanup.
LEMMA RetireKeepsInv ==
  ASSUME NoneIsNone, NEW s \in Sites
  PROVE  NamesInv /\ (ClearRetired(s) \/ ClearRetiredFails(s) \/ ReleaseSlugFails(s)) => NamesInv'
<1> SUFFICES ASSUME NamesInv, ClearRetired(s) \/ ClearRetiredFails(s) \/ ReleaseSlugFails(s)
             PROVE NamesInv'
  OBVIOUS
<1>1. UNCHANGED rows /\ abandoned' = abandoned /\ NamesTypes
  BY DEF ClearRetired, ClearRetiredFails, ReleaseSlugFails, NamesInv, RowsInv
<1>2. /\ SyncOf(s) /\ ~Idle(s) /\ work[s].kind = "sync" /\ work[s].step \in {"retire", "release"}
  BY DEF NamesInv, RowsInv, JobsInv, ClearRetired, ClearRetiredFails, ReleaseSlugFails, At
<1>3. Live(s) /\ work[s].todo \subseteq Retiring(s) /\ work[s] \in Jobs
  BY <1>1, <1>2, Rows1 DEF SyncOf
<1>4. CASE ClearRetired(s)
  <2>1. PICK h \in work[s].todo :
          Clear(h, s) /\ work' = [work EXCEPT ![s].step = "release", ![s].at = h]
    BY <1>4 DEF ClearRetired
  <2>2. h \in Hostnames /\ claim[h] = Claim(s, "pending") /\ claim[h].owner = s
        /\ claim[h].status = "pending"
    BY <1>3 DEF Retiring, Claim
  <2> DEFINE job == [work[s] EXCEPT !.step = "release", !.at = h]
  <2>3. /\ job \in Jobs /\ job.kind = "sync" /\ job.step = "release" /\ job.todo = work[s].todo
        /\ job.at = h
    BY <1>2, <1>3, <2>2 DEF Jobs, Steps
  <2>4. work' = [work EXCEPT ![s] = job]
    BY <2>1
  <2> HIDE DEF job
  <2>5. /\ work' \in [Sites -> Jobs \cup {None}] /\ ~Idle(s)' /\ work'[s] = job
        /\ \A t \in Sites \ {s} : work'[t] = work[t]
    BY <1>1, <2>3, <2>4, Beginning DEF Begin
  <2>6. SyncOf(s)' /\ DeletionOf(s)'
    BY <1>1, <1>3, <2>2, <2>3, <2>5 DEF SyncOf, DeletionOf, At, Live, Retiring, rows
  <2>7. Sealed(h, s)'
    BY <2>1, <2>2, ClearSeals
  <2>8. \A g \in Hostnames \ {h} : MustBeSealed(g, s)' => MustBeSealed(g, s)
    BY <1>1, <1>3, <2>3, <2>5 DEF MustBeSealed, Excused, At, Live, rows
  <2>9. EdgeOp(h, s) /\ site[s].state # "none"
    BY <1>3, <2>1 DEF EdgeOp, Live
  <2> QED
    BY <1>1, <1>3, <2>2, <2>5, <2>6, <2>7, <2>8, <2>9, EdgeStep
<1>5. CASE ClearRetiredFails(s) \/ ReleaseSlugFails(s)
  <2>1. PICK h \in work[s].todo \cup {work[s].at} :
          /\ h \in Hostnames /\ claim[h] = Claim(s, "pending")
          /\ EdgeOp(h, s)
          /\ work' = [work EXCEPT ![s].step = "retire", ![s].todo = @ \ {h}, ![s].failed = TRUE]
    <3>1. CASE ClearRetiredFails(s)
      <4>1. PICK h \in work[s].todo :
              ClearOrNot(h, s) /\ work' = [work EXCEPT ![s].todo = @ \ {h}, ![s].failed = TRUE]
        BY <3>1 DEF ClearRetiredFails
      <4>2. work[s].step = "retire"
        BY <3>1 DEF ClearRetiredFails, At
      <4>3. [work[s] EXCEPT !.todo = @ \ {h}, !.failed = TRUE]
              = [work[s] EXCEPT !.step = "retire", !.todo = @ \ {h}, !.failed = TRUE]
        BY <1>3, <4>2 DEF Jobs
      <4>4. work' = [work EXCEPT ![s].step = "retire", ![s].todo = @ \ {h}, ![s].failed = TRUE]
        BY <4>1, <4>3
      <4>5. EdgeOp(h, s)
        BY <4>1 DEF ClearOrNot, EdgeOp, edge
      <4>6. h \in Hostnames /\ claim[h] = Claim(s, "pending")
        BY <1>3 DEF Retiring
      <4> QED
        BY <4>4, <4>5, <4>6
    <3>2. CASE ReleaseSlugFails(s)
      BY <1>2, <3>2 DEF ReleaseSlugFails, SyncOf, EdgeOp, edge
    <3> QED
      BY <1>5, <3>1, <3>2
  <2>2. Claimed(h, s)
    BY <2>1 DEF Claimed, Claim
  <2> DEFINE job == [work[s] EXCEPT !.step = "retire", !.todo = @ \ {h}, !.failed = TRUE]
  <2>3. /\ job \in Jobs /\ job.kind = "sync" /\ job.step = "retire"
        /\ job.todo \subseteq work[s].todo
    BY <1>2, <1>3 DEF Jobs, Steps
  <2>4. work' = [work EXCEPT ![s] = job]
    BY <2>1
  <2> HIDE DEF job
  <2>5. /\ work' \in [Sites -> Jobs \cup {None}] /\ ~Idle(s)' /\ work'[s] = job
        /\ \A t \in Sites \ {s} : work'[t] = work[t]
    BY <1>1, <2>3, <2>4, Beginning DEF Begin
  <2>6. SyncOf(s)' /\ DeletionOf(s)' /\ Quiet(s)'
    BY <1>1, <1>3, <2>3, <2>5 DEF SyncOf, DeletionOf, Quiet, At, Live, Retiring, rows
  <2> QED
    BY <1>1, <1>3, <2>1, <2>2, <2>5, <2>6, LiveEdgeStep
<1> QED
  BY <1>4, <1>5

\* The beginning of a deletion.
LEMMA BeginDeleteKeepsInv ==
  ASSUME NoneIsNone, NEW s \in Sites
  PROVE  NamesInv /\ BeginDelete(s) => NamesInv'
<1> SUFFICES ASSUME NamesInv, BeginDelete(s) PROVE NamesInv'
  OBVIOUS
<1> DEFINE job == Job("delete", "retire", Retiring(s), Before(s))
<1>1. /\ UNCHANGED rows /\ abandoned' = abandoned /\ Live(s) /\ Begin(s, job) /\ UNCHANGED edge
      /\ NamesTypes /\ Idle(s) /\ LiveSiteOwnsItsHostname
  BY DEF BeginDelete, NamesInv, RowsInv
<1>2. PICK h \in Hostnames : h = site[s].host /\ claim[h] = Claim(s, "active")
                             /\ claim[h].owner = s /\ claim[h].status = "active"
  BY <1>1, LiveOwns DEF NamesInv
<1>3. Before(s) \in Befores
  BY <1>1 DEF Before, Befores, NamesTypes
<1>4. Remembered(s, Before(s))
  <2>1. Before(s).row = site[s]
    BY DEF Before
  <2>2. \A g \in Hostnames :
          Before(s).claims[g] = IF claim[g].owner = s THEN claim[g] ELSE None
    BY DEF Before
  <2>3. \A g \in Hostnames : claim[g] \in Claims /\ claim[g] # None
    BY <1>1 DEF NamesTypes, NoneIsNone
  <2>4. ASSUME NEW g \in Hostnames, claim[g].owner = s, claim[g].status = "active"
        PROVE  g = site[s].host
    BY <1>1, <2>4 DEF LiveSiteOwnsItsHostname
  <2> QED
    BY <1>1, <1>2, <1>3, <2>1, <2>2, <2>3, <2>4 DEF Remembered, Live
<1>5. /\ job \in Jobs /\ job.kind = "delete" /\ job.step = "retire" /\ job.todo = Retiring(s)
      /\ job.before = Before(s)
  BY <1>3 DEF Job, Jobs, Steps, Retiring
<1> HIDE DEF job
<1>6. /\ work' \in [Sites -> Jobs \cup {None}] /\ ~Idle(s)' /\ work'[s] = job
      /\ \A t \in Sites \ {s} : work'[t] = work[t]
  BY <1>1, <1>5, Beginning
<1>7. SyncOf(s)'
  BY <1>1, <1>5, <1>6 DEF SyncOf, At, Live, rows
<1>8. DeletionOf(s)'
  <2>1. PICK b : b = Before(s)
    OBVIOUS
  <2>2. Remembered(s, b)'
    BY <1>1, <1>4, <2>1 DEF Remembered, rows
  <2>3. work'[s].before = b
    BY <1>5, <1>6, <2>1
  <2> QED
    BY <1>1, <1>5, <1>6, <2>2, <2>3 DEF DeletionOf, Live, Retiring, rows
<1>9. \A g \in Hostnames : MustBeSealed(g, s)' => MustBeSealed(g, s) /\ g # h
  BY <1>1, <1>2, <1>5, <1>6 DEF MustBeSealed, Excused, At, Live, Retiring, rows, Claim
<1>10. EdgeOp(h, s) /\ site[s].state # "none"
  BY <1>1 DEF EdgeOp, edge, Live
<1> QED
  BY <1>1, <1>2, <1>6, <1>7, <1>8, <1>9, <1>10, EdgeStep

\* Before the batch: the hostnames left behind, and that of an inactive route.
LEMMA ClearsKeepInv ==
  ASSUME NoneIsNone, NEW s \in Sites
  PROVE  NamesInv /\ (ClearBeforeDelete(s) \/ ClearInactive(s) \/ DeleteRefused(s)) => NamesInv'
<1> SUFFICES ASSUME NamesInv, ClearBeforeDelete(s) \/ ClearInactive(s) \/ DeleteRefused(s)
             PROVE NamesInv'
  OBVIOUS
<1>1. UNCHANGED rows /\ abandoned' = abandoned /\ NamesTypes /\ RowsInv
  BY DEF ClearBeforeDelete, ClearInactive, DeleteRefused, NamesInv, RowsInv
<1>2. /\ SyncOf(s) /\ DeletionOf(s) /\ ~Idle(s) /\ work[s].kind = "delete"
      /\ work[s].step \in {"retire", "commit"}
  BY <1>1 DEF RowsInv, JobsInv, ClearBeforeDelete, ClearInactive, DeleteRefused, At
<1>3. /\ Live(s) /\ work[s].todo \subseteq Retiring(s) /\ work[s] \in Jobs
      /\ site[s].state # "none"
  BY <1>1, <1>2, Rows1 DEF DeletionOf, Live
<1>4. CASE ClearBeforeDelete(s)
  <2>1. PICK h \in work[s].todo : Clear(h, s) /\ work' = [work EXCEPT ![s].todo = @ \ {h}]
    BY <1>4 DEF ClearBeforeDelete
  <2>2. h \in Hostnames /\ claim[h] = Claim(s, "pending") /\ claim[h].owner = s
        /\ claim[h].status = "pending"
    BY <1>3 DEF Retiring, Claim
  <2> DEFINE job == [work[s] EXCEPT !.todo = @ \ {h}]
  <2>3. /\ job \in Jobs /\ job.kind = "delete" /\ job.step = "retire"
        /\ job.todo = work[s].todo \ {h} /\ job.before = work[s].before
    BY <1>2, <1>3, <1>4 DEF Jobs, ClearBeforeDelete, At
  <2>4. work' = [work EXCEPT ![s] = job]
    BY <2>1
  <2> HIDE DEF job
  <2>5. /\ work' \in [Sites -> Jobs \cup {None}] /\ ~Idle(s)' /\ work'[s] = job
        /\ \A t \in Sites \ {s} : work'[t] = work[t]
    BY <1>1, <2>3, <2>4, Beginning DEF Begin
  <2>6. SyncOf(s)' /\ DeletionOf(s)'
    BY <1>1, <1>2, <1>3, <2>3, <2>5, DeletionGoesOn
  <2>7. Sealed(h, s)'
    BY <2>1, <2>2, ClearSeals
  <2>8. At(s, "delete", "retire")
    BY <1>4 DEF ClearBeforeDelete
  <2>9. \A g \in Hostnames \ {h} : MustBeSealed(g, s)' => MustBeSealed(g, s)
    BY <1>1, <1>3, <2>3, <2>5, <2>8 DEF MustBeSealed, Excused, At, Live, rows
  <2>10. EdgeOp(h, s)
    BY <2>1 DEF EdgeOp
  <2> QED
    BY <1>1, <1>3, <2>2, <2>5, <2>6, <2>7, <2>9, <2>10, EdgeStep
<1>5. CASE ClearInactive(s)
  <2>1. PICK h \in Hostnames :
          /\ h = site[s].host /\ claim[h] = Claim(s, "active")
          /\ claim[h].owner = s /\ claim[h].status = "active"
    BY <1>1, <1>3, LiveOwns
  <2>2. /\ Step(s, "commit") /\ work[s].todo = {} /\ At(s, "delete", "retire")
        /\ EdgeOp(h, s)
        /\ site[s].active \/ Clear(h, s)
    BY <1>5, <2>1 DEF ClearInactive, EdgeOp, edge
  <2>3. /\ work' \in [Sites -> Jobs \cup {None}] /\ ~Idle(s)'
        /\ \A t \in Sites \ {s} : work'[t] = work[t]
        /\ work'[s].kind = "delete" /\ work'[s].step = "commit"
        /\ work'[s].todo = {} /\ work'[s].before = work[s].before
    BY <1>1, <1>2, <2>2, Stepping DEF Steps
  <2>4. SyncOf(s)' /\ DeletionOf(s)'
    BY <1>1, <1>2, <1>3, <2>3, DeletionGoesOn
  <2>5. \A g \in Hostnames \ {h} : MustBeSealed(g, s)' => MustBeSealed(g, s)
    BY <1>1, <1>3, <2>1, <2>2, <2>3 DEF MustBeSealed, Excused, At, Live, rows
  <2>6. MustBeSealed(h, s)' => ~site[s].active
    BY <1>1, <2>1, <2>3 DEF MustBeSealed, At, rows, Claim
  <2>7. MustBeSealed(h, s)' => Sealed(h, s)'
    BY <2>1, <2>2, <2>6, ClearSeals
  <2> QED
    BY <1>1, <1>3, <2>1, <2>2, <2>3, <2>4, <2>5, <2>7, EdgeStep
<1>6. CASE DeleteRefused(s)
  <2>1. PICK h \in Hostnames :
          /\ h \in work[s].todo \cup {site[s].host}
          /\ IF work[s].step = "retire" THEN ClearOrNot(h, s) ELSE UNCHANGED edge
    BY <1>6 DEF DeleteRefused
  <2>2. EdgeOp(h, s)
    BY <2>1 DEF ClearOrNot, EdgeOp, edge
  <2>3. Claimed(h, s)
    <3>1. CASE h \in work[s].todo
      BY <1>3, <3>1 DEF Retiring, Claimed, Claim
    <3>2. CASE h = site[s].host
      BY <1>1, <1>3, <3>2, LiveOwns DEF Claimed
    <3> QED
      BY <2>1, <3>1, <3>2
  <2>4. /\ work' \in [Sites -> Jobs \cup {None}] /\ Idle(s)'
        /\ \A t \in Sites \ {s} : work'[t] = work[t]
        /\ SyncOf(s)' /\ DeletionOf(s)'
    BY <1>1, <1>6, Ending DEF DeleteRefused
  <2>5. Quiet(s)'
    BY <2>4 DEF Quiet
  <2> QED
    BY <1>1, <1>3, <2>2, <2>3, <2>4, <2>5, LiveEdgeStep
<1> QED
  BY <1>4, <1>5, <1>6

\* After the batch: the deleted route is published and withdrawn, or the
\* restored one is published.
LEMMA TellKeepsInv ==
  ASSUME NoneIsNone, NEW s \in Sites
  PROVE  /\ NamesInv
         /\ \/ PublishDeleted(s) \/ PublishDeletedFails(s) \/ Withdraw(s) \/ RestoreFails(s)
            \/ Republish(s)
         => NamesInv'
<1> SUFFICES ASSUME NamesInv,
                    \/ PublishDeleted(s) \/ PublishDeletedFails(s) \/ Withdraw(s)
                    \/ RestoreFails(s) \/ Republish(s)
             PROVE NamesInv'
  OBVIOUS
<1>1. UNCHANGED rows /\ abandoned' = abandoned /\ NamesTypes /\ RowsInv
  BY DEF PublishDeleted, PublishDeletedFails, Withdraw, RestoreFails, Republish, NamesInv, RowsInv
<1>2. /\ SyncOf(s) /\ DeletionOf(s) /\ ~Idle(s) /\ work[s].kind = "delete"
      /\ work[s].step \in {"publish", "withdraw", "restore", "republish"}
      /\ work[s].step = "republish" <=> Republish(s)
  BY <1>1 DEF RowsInv, JobsInv, PublishDeleted, PublishDeletedFails, Withdraw, RestoreFails,
              Republish, At
<1>3. Live(s) <=> work[s].step = "republish"
  BY <1>2 DEF DeletionOf
<1>4. PICK h \in Hostnames : h = site[s].host
  BY <1>1, <1>2, Rows1 DEF SyncOf
<1>5. EdgeOp(h, s)
  BY <1>4 DEF PublishDeleted, PublishDeletedFails, Withdraw, RestoreFails, Republish, EdgeOp,
              PublishFails, ClearOrNot, edge
<1>6. ASSUME NEW x \in {"settle", "withdraw", "restore"}, Step(s, x),
             Live(s) => x = "settle"
      PROVE  NamesInv'
  <2>1. /\ work' \in [Sites -> Jobs \cup {None}] /\ ~Idle(s)'
        /\ \A t \in Sites \ {s} : work'[t] = work[t]
        /\ work'[s].kind = "delete" /\ work'[s].step = x
        /\ work'[s].todo = work[s].todo /\ work'[s].before = work[s].before
    BY <1>1, <1>2, <1>6, Stepping DEF Steps
  <2>2. SyncOf(s)' /\ DeletionOf(s)'
    BY <1>1, <1>2, <1>6, <2>1, DeletionGoesOn
  <2>3. Quiet(s)'
    BY <2>1 DEF Quiet
  <2>4. CASE Live(s)
    <3>1. Claimed(h, s)
      BY <1>1, <1>4, <2>4, LiveOwns DEF Claimed
    <3> QED
      BY <1>1, <1>5, <2>1, <2>2, <2>3, <2>4, <3>1, LiveEdgeStep
  <2>5. CASE ~Live(s)
    BY <1>1, <1>2, <1>4, <1>5, <2>1, <2>2, <2>3, <2>5, DeadEdgeStep
  <2> QED
    BY <2>4, <2>5
<1>7. ASSUME Finish(s), Live(s) \/ Clear(h, s)
      PROVE  NamesInv'
  <2>1. /\ work' \in [Sites -> Jobs \cup {None}] /\ Idle(s)'
        /\ \A t \in Sites \ {s} : work'[t] = work[t]
        /\ SyncOf(s)' /\ DeletionOf(s)'
    BY <1>1, <1>7, Ending
  <2>2. Quiet(s)'
    BY <2>1 DEF Quiet
  <2>3. CASE Live(s)
    <3>1. Claimed(h, s)
      BY <1>1, <1>4, <2>3, LiveOwns DEF Claimed
    <3> QED
      BY <1>1, <1>5, <2>1, <2>2, <2>3, <3>1, LiveEdgeStep
  <2>4. CASE ~Live(s)
    <3>1. claim[h].owner = s
      BY <1>1, <1>2, <1>4, <2>4, DeletionHolds
    <3>2. Sealed(h, s)'
      BY <1>7, <2>4, <3>1, ClearSeals
    <3>3. Sealed(site[s].host, s)'
      BY <1>1, <1>4, <3>2 DEF rows
    <3> QED
      BY <1>1, <1>2, <1>4, <1>5, <2>1, <2>2, <2>4, <3>3, DeadEdgeStep DEF Quiet
  <2> QED
    BY <2>3, <2>4
<1>8. CASE PublishDeleted(s)
  BY <1>6, <1>8 DEF PublishDeleted
<1>9. CASE PublishDeletedFails(s)
  <2>1. ~Live(s)
    BY <1>3, <1>9 DEF PublishDeletedFails, At
  <2> QED
    BY <1>6, <1>9, <2>1 DEF PublishDeletedFails
<1>10. CASE Withdraw(s)
  <2>1. ~Live(s)
    BY <1>3, <1>10 DEF Withdraw, At
  <2> QED
    BY <1>4, <1>6, <1>7, <1>10, <2>1 DEF Withdraw
<1>11. CASE RestoreFails(s)
  BY <1>6, <1>11 DEF RestoreFails
<1>12. CASE Republish(s)
  BY <1>2, <1>3, <1>6, <1>7, <1>12 DEF Republish
<1> QED
  BY <1>8, <1>9, <1>10, <1>11, <1>12

\* A hostname that has been told is sealed.
LEMMA ToldSeals ==
  ASSUME NoneIsNone, NamesInv, NEW s \in Sites, NEW h \in Hostnames, h = site[s].host,
         ~Live(s), claim[h].owner = s, UNCHANGED rows, TombstonesInv',
         late' = late, Told(s), tombstone'[h] \in Tombstones \cup {None}
  PROVE  Sealed(h, s)'
<1>1. \A w \in late : w.host = h /\ w.row.live => w.row.gen < site[s].gen /\ w.row.gen \in Nat
  <2> SUFFICES ASSUME NEW w \in late, w.host = h, w.row.live
               PROVE  w.row.gen < site[s].gen /\ w.row.gen \in Nat
    OBVIOUS
  <2>1. w.row.site = s /\ w.row.gen <= site[s].gen /\ w.row.gen # site[s].gen
    BY DEF NamesInv, LateInv
  <2>2. w.row.gen \in Nat /\ site[s].gen \in Nat
    BY Rows1 DEF NamesInv, RowsInv, NamesTypes, PointerRows
  <2> QED
    BY <2>1, <2>2
<1>2. site[s].gen \in Nat /\ RouteOf(s) \in PointerRows
  BY Rows1 DEF NamesInv, RowsInv
<1>3. CASE pointer'[h] = RouteOf(s)
  <2>1. pointer'[h] # None /\ pointer'[h].site = s /\ ~pointer'[h].live
        /\ pointer'[h].gen = site[s].gen
    BY <1>2, <1>3 DEF RouteOf, NoneIsNone
  <2> QED
    BY <1>1, <2>1 DEF Sealed
<1>4. CASE tombstone'[h] # None /\ tombstone'[h].site = s /\ tombstone'[h].gen >= site[s].gen - 1
  <2>1. pointer'[h] = None /\ tombstone'[h].gen \in Nat
    BY <1>4 DEF TombstonesInv, Tombstones
  <2>2. \A w \in late : w.host = h /\ w.row.live => w.row.gen <= tombstone'[h].gen
    BY <1>1, <1>2, <1>4, <2>1
  <2> QED
    BY <1>4, <2>1, <2>2 DEF Sealed
<1> QED
  BY <1>3, <1>4 DEF Told

LEMMA EndKeepsInv ==
  ASSUME NoneIsNone, NEW s \in Sites
  PROVE  NamesInv /\ (Settle(s) \/ Stop(s)) => NamesInv'
<1> SUFFICES ASSUME NamesInv, Settle(s) \/ Stop(s) PROVE NamesInv'
  OBVIOUS
<1>1. /\ UNCHANGED rows /\ NamesTypes /\ RowsInv /\ ~Idle(s) /\ Finish(s) /\ Abandon(s)
      /\ SyncOf(s) /\ ClearOrNot(site[s].host, s)
  BY DEF Settle, Stop, NamesInv, RowsInv, JobsInv, At, ClearOrNot
<1>2. PICK h \in Hostnames : h = site[s].host
  BY <1>1, Rows1 DEF SyncOf
<1>3. EdgeOp(h, s) /\ late' = late
  BY <1>1, <1>2 DEF ClearOrNot, EdgeOp, edge, Clear
<1>4. /\ work' \in [Sites -> Jobs \cup {None}] /\ Idle(s)'
      /\ \A t \in Sites \ {s} : work'[t] = work[t]
      /\ SyncOf(s)' /\ DeletionOf(s)'
  BY <1>1, Ending
<1>5. Quiet(s)' /\ abandoned' \in {abandoned, abandoned \cup {s}}
  BY <1>1, <1>4 DEF Quiet, Abandon
<1>6. CASE Live(s)
  <2>1. Claimed(h, s)
    BY <1>1, <1>2, <1>6, LiveOwns DEF Claimed
  <2> QED
    BY <1>1, <1>3, <1>4, <1>5, <1>6, <2>1, LiveEdgeStep
<1>7. CASE ~Live(s)
  <2>1. claim[h].owner = s
    BY <1>1, <1>2, <1>7, DeletionHolds
  <2>2. Sealed(site[s].host, s)' \/ s \in abandoned'
    <3>1. CASE Told(s)
      <4>1. TombstonesInv' /\ tombstone'[h] \in Tombstones \cup {None}
        BY <1>1, <1>3, EdgeOpTypes DEF NamesInv
      <4>2. Sealed(h, s)'
        BY <1>1, <1>2, <1>3, <1>7, <2>1, <3>1, <4>1, ToldSeals
      <4> QED
        BY <1>1, <1>2, <4>2 DEF rows
    <3>2. CASE ~Told(s)
      BY <1>1, <1>7, <3>2 DEF Abandon
    <3> QED
      BY <3>1, <3>2
  <2> QED
    BY <1>1, <1>2, <1>3, <1>4, <1>5, <1>7, <2>2, DeadEdgeStep
<1> QED
  BY <1>6, <1>7

-----------------------------------------------------------------------------
(* Batches: the pointers stay as they are.                                 *)

\* A batch about a live site that leaves it where it is: a further route, or
\* the mark that a rename is complete.
LEMMA SameHostKeepsInv ==
  ASSUME NoneIsNone, NEW s \in Sites
  PROVE  NamesInv /\ (CommitRoute(s) \/ MarkSynced(s)) => NamesInv'
<1> SUFFICES ASSUME NamesInv, CommitRoute(s) \/ MarkSynced(s) PROVE NamesInv'
  OBVIOUS
<1>1. /\ UNCHANGED <<claim, edge, abandoned>> /\ NamesTypes /\ SyncOf(s) /\ site[s] \in SiteRows
  BY Rows1 DEF CommitRoute, MarkSynced, NamesInv, RowsInv, JobsInv
<1>2. Live(s)
  BY <1>1 DEF CommitRoute, MarkSynced, At, SyncOf
<1>3. PICK r \in SiteRows :
        /\ site' = [site EXCEPT ![s] = r]
        /\ r.state = site[s].state /\ r.host = site[s].host /\ r.gen >= site[s].gen
  <2>1. CASE CommitRoute(s)
    <3>0. site[s].gen \in Nat
      BY <1>1 DEF SiteRows
    <3>1. PICK n \in Nat : n = site[s].gen + 1 /\ n >= site[s].gen
      BY <3>0
    <3> DEFINE r == [site[s] EXCEPT !.gen = n, !.active = TRUE]
    <3>2. site' = [site EXCEPT ![s] = r]
      BY <2>1, <3>1 DEF CommitRoute
    <3>3. r \in SiteRows /\ r.state = site[s].state /\ r.host = site[s].host /\ r.gen = n
      BY <1>1 DEF SiteRows
    <3> HIDE DEF r
    <3> QED
      BY <3>1, <3>2, <3>3
  <2>2. CASE MarkSynced(s)
    <3> DEFINE r == [site[s] EXCEPT !.synced = site[s].rev]
    <3>1. /\ r \in SiteRows /\ r.state = site[s].state /\ r.host = site[s].host
          /\ r.gen = site[s].gen /\ site[s].gen \in Nat
      BY <1>1 DEF SiteRows
    <3>2. site' = [site EXCEPT ![s] = r] \/ site' = site
      BY <2>2 DEF MarkSynced
    <3>3. site = [site EXCEPT ![s] = site[s]]
      BY <1>1 DEF NamesTypes
    <3> HIDE DEF r
    <3> QED
      BY <1>1, <3>1, <3>2, <3>3
  <2> QED
    BY <2>1, <2>2
<1>4. /\ work' \in [Sites -> Jobs \cup {None}]
      /\ \A t \in Sites \ {s} : work'[t] = work[t]
      /\ work'[s] = None \/ (work'[s] # None /\ work'[s].kind = "deploy" /\ work'[s].step = "publish")
  <2>1. CASE CommitRoute(s)
    <3> DEFINE job == Job("deploy", "publish", {}, None)
    <3>1. job \in Jobs /\ job.kind = "deploy" /\ job.step = "publish"
      BY DEF Job, Jobs, Steps
    <3>2. Begin(s, job)
      BY <2>1 DEF CommitRoute
    <3> HIDE DEF job
    <3> QED
      BY <1>1, <3>1, <3>2, Beginning DEF Idle
  <2>2. CASE MarkSynced(s)
    BY <1>1, <2>2, Ending DEF MarkSynced, Idle
  <2> QED
    BY <2>1, <2>2
<1>5. /\ \A t \in Sites : /\ site'[t].state = site[t].state /\ site'[t].host = site[t].host
                          /\ t # s => site'[t] = site[t]
      /\ site'[s].gen >= site[s].gen
  BY <1>1, <1>3 DEF NamesTypes
<1>6. NamesTypes'
  BY <1>1, <1>3, <1>4, <1>5 DEF NamesTypes, edge
<1>7. LiveSiteOwnsItsHostname'
  <2>1. \A h \in Hostnames : claim[h].status = "active" => claim[h].owner \in Sites
    BY <1>1 DEF NamesTypes
  <2> QED
    BY <1>1, <1>5, <2>1 DEF NamesInv, RowsInv, LiveSiteOwnsItsHostname, Live
<1>8. JobsInv'
  <2> SUFFICES ASSUME NEW t \in Sites PROVE SyncOf(t)' /\ DeletionOf(t)'
    BY DEF JobsInv
  <2>1. SyncOf(t) /\ DeletionOf(t)
    BY DEF NamesInv, RowsInv, JobsInv
  <2>2. CASE t = s
    BY <1>2, <1>4, <1>5, <2>2 DEF SyncOf, DeletionOf, Idle, At, Live
  <2>3. CASE t # s
    <3>1. work'[t] = work[t] /\ site'[t] = site[t] /\ claim' = claim
      BY <1>1, <1>4, <1>5, <2>3
    <3>2. SyncOf(t)'
      BY <2>1, <3>1 DEF SyncOf, Idle, Live, At, Retiring
    <3>3. DeletionOf(t)'
      BY <2>1, <3>1 DEF DeletionOf, Remembered, Idle, Live, Retiring
    <3> QED
      BY <3>2, <3>3
  <2> QED
    BY <2>2, <2>3
<1>9. LateInv'
  <2> SUFFICES ASSUME NEW w \in late
               PROVE  /\ claim[w.host].owner = w.row.site /\ claim[w.host].status # "free"
                      /\ site'[w.row.site].state # "none"
                      /\ w.row.gen <= site'[w.row.site].gen
                      /\ w.row.gen = site'[w.row.site].gen => w.row.live = Live(w.row.site)'
    BY <1>1 DEF LateInv, edge
  <2>1. w.row \in PointerRows /\ w.row.site \in Sites /\ w.row.gen \in Nat
    BY <1>1 DEF NamesTypes, PointerRows
  <2>2. site[w.row.site].gen \in Nat /\ site'[w.row.site].gen \in Nat
    BY <1>6, <2>1, <1>1 DEF NamesTypes, SiteRows
  <2> QED
    BY <1>5, <2>1, <2>2 DEF NamesInv, LateInv, Live
<1>10. \A t \in Sites, h \in Hostnames :
         /\ Excused(h, t) => Excused(h, t)'
         /\ MustBeSealed(h, t)' => MustBeSealed(h, t)
  <2> SUFFICES ASSUME NEW t \in Sites, NEW h \in Hostnames
               PROVE  /\ Excused(h, t) => Excused(h, t)'
                      /\ MustBeSealed(h, t)' => MustBeSealed(h, t)
    OBVIOUS
  <2>1. CASE t = s
    BY <1>1, <1>2, <1>4, <1>5, <2>1 DEF MustBeSealed, Excused, At, Idle, Live
  <2>2. CASE t # s
    BY <1>1, <1>4, <1>5, <2>2 DEF MustBeSealed, Excused, At, Idle, Live
  <2> QED
    BY <2>1, <2>2
<1>11. TombstonesInv' /\ SealsInv' /\ TrafficInv'
  <2>1. \A t \in Sites, h \in Hostnames : Sealed(h, t) => Sealed(h, t)'
    BY <1>1 DEF Sealed, edge
  <2>2. SealsInv'
    BY <1>10, <2>1 DEF SealsInv, NamesInv
  <2>3. TrafficInv'
    BY <1>1, <1>10 DEF TrafficInv, NamesInv, LeadsTo, Claimed, edge
  <2> QED
    BY <1>1, <2>2, <2>3 DEF TombstonesInv, NamesInv, edge
<1> QED
  BY <1>6, <1>7, <1>8, <1>9, <1>11 DEF NamesInv, RowsInv

\* What a batch of site s may do to claims, seen from the others: it changes
\* claims of s or free ones only, and the row of s only.
LEMMA OthersKeepJobs ==
  ASSUME NoneIsNone, NamesInv, NEW s \in Sites, NEW t \in Sites, t # s,
         site'[t] = site[t], work'[t] = work[t],
         \A h \in Hostnames : claim'[h] = claim[h] \/ (claim'[h].owner # t
           /\ (claim[h].owner # t \/ claim[h].status = "free"))
  PROVE  SyncOf(t)' /\ DeletionOf(t)'
<1>1. SyncOf(t) /\ DeletionOf(t) /\ NamesTypes
  BY DEF NamesInv, RowsInv, JobsInv
<1>2. \A h \in Hostnames : claim[h].owner = t /\ claim[h].status # "free" => claim'[h] = claim[h]
  OBVIOUS
<1>3. \A h \in Hostnames, x \in {"active", "pending", "held"} :
        claim[h] = Claim(t, x) => claim'[h] = Claim(t, x)
  BY <1>2 DEF Claim
<1>4. Retiring(t) \subseteq Retiring(t)'
  BY <1>3 DEF Retiring
<1>5. SyncOf(t)'
  BY <1>1, <1>3, <1>4 DEF SyncOf, Idle, Live, At
<1>6. ASSUME ~Idle(t), work[t].kind = "delete" PROVE Remembered(t, work[t].before)'
  <2>1. Remembered(t, work[t].before)
    BY <1>1, <1>6 DEF DeletionOf
  <2>2. \A h \in Hostnames : claim'[h].owner = t => claim'[h] = claim[h]
    OBVIOUS
  <2> QED
    BY <2>1, <2>2 DEF Remembered
<1>7. ~Idle(t) /\ work[t].kind = "delete" => site[t].host \in Hostnames
  BY <1>1, Rows1 DEF SyncOf
<1>8. DeletionOf(t)'
  BY <1>1, <1>3, <1>4, <1>6, <1>7 DEF DeletionOf, Idle, Live
<1> QED
  BY <1>5, <1>8

\* A new site takes a free hostname.
LEMMA CreateKeepsInv ==
  ASSUME NoneIsNone, NEW s \in Sites, NEW h \in Hostnames
  PROVE  NamesInv /\ CreateSite(s, h) => NamesInv'
<1> SUFFICES ASSUME NamesInv, CreateSite(s, h) PROVE NamesInv'
  OBVIOUS
<1>1. /\ UNCHANGED <<edge, work, abandoned>> /\ NamesTypes /\ RowsInv
      /\ site[s] \in SiteRows /\ site[s].state = "none" /\ claim[h].status = "free"
      /\ \A t \in Sites : Live(t) => site[t].host # h
  BY Rows1 DEF CreateSite, NamesInv, RowsInv, Reusable
<1>2. Idle(s) /\ ~Live(s)
  BY <1>1 DEF RowsInv, JobsInv, SyncOf, Live
<1>3. PICK r \in SiteRows : /\ site' = [site EXCEPT ![s] = r]
                            /\ r.state = "live" /\ r.host = h /\ r.gen = site[s].gen
  <2> DEFINE r == [site[s] EXCEPT !.state = "live", !.host = h]
  <2>1. site' = [site EXCEPT ![s] = r]
    BY DEF CreateSite
  <2>2. r \in SiteRows /\ r.state = "live" /\ r.host = h /\ r.gen = site[s].gen
    BY <1>1 DEF SiteRows
  <2> HIDE DEF r
  <2> QED
    BY <2>1, <2>2
<1>4. /\ \A t \in Sites \ {s} : site'[t] = site[t]
      /\ site'[s] = r /\ Live(s)'
      /\ \A g \in Hostnames \ {h} : claim'[g] = claim[g]
      /\ claim'[h] = Claim(s, "active") /\ claim'[h].owner = s /\ claim'[h].status = "active"
      /\ claim' \in [Hostnames -> Claims]
  BY <1>1, <1>3 DEF CreateSite, NamesTypes, Claims, Claim, Live
<1>5. NamesTypes'
  BY <1>1, <1>3, <1>4 DEF NamesTypes, edge
<1>6. LiveSiteOwnsItsHostname'
  <2> SUFFICES ASSUME NEW t \in Sites, NEW g \in Hostnames
               PROVE  Owns(t, g)' <=> Live(t)' /\ site'[t].host = g
    BY <1>5, OwnersSuffice DEF OwnersInv
  <2>1. Owns(t, g) <=> Live(t) /\ site[t].host = g
    BY <1>1, OwnersKnown DEF OwnersInv
  <2>2. CASE t = s
    BY <1>2, <1>3, <1>4, <2>1, <2>2 DEF Owns
  <2>3. CASE t # s
    BY <1>1, <1>4, <2>1, <2>3 DEF Owns, Live
  <2> QED
    BY <2>2, <2>3
<1>7. JobsInv'
  <2> SUFFICES ASSUME NEW t \in Sites PROVE SyncOf(t)' /\ DeletionOf(t)'
    BY DEF JobsInv
  <2>1. CASE t = s
    BY <1>1, <1>2, <2>1 DEF SyncOf, DeletionOf, Idle
  <2>2. CASE t # s
    BY <1>1, <1>4, <2>2, OthersKeepJobs
  <2> QED
    BY <2>1, <2>2
<1>8. LateInv'
  <2>1. \A w \in late : w.host # h /\ w.row.site # s /\ w.row.site \in Sites /\ w.host \in Hostnames
    BY <1>1 DEF NamesInv, LateInv, NamesTypes, PointerRows
  <2> QED
    BY <1>1, <1>4, <2>1 DEF NamesInv, LateInv, edge, Live
<1>9. \A t \in Sites, g \in Hostnames : MustBeSealed(g, t)' => MustBeSealed(g, t)
  <2> SUFFICES ASSUME NEW t \in Sites, NEW g \in Hostnames, MustBeSealed(g, t)'
               PROVE  MustBeSealed(g, t)
    OBVIOUS
  <2>1. CASE g # h
    <3>1. CASE t = s
      BY <1>1, <1>2, <1>4, <2>1, <3>1 DEF MustBeSealed, Excused, At, Idle, Live
    <3>2. CASE t # s
      BY <1>1, <1>4, <2>1, <3>2 DEF MustBeSealed, Excused, At, Idle, Live
    <3> QED
      BY <3>1, <3>2
  <2>2. CASE g = h
    <3>1. RowsInv'
      BY <1>5, <1>6, <1>7 DEF RowsInv
    <3>2. t = s
      <4>1. CASE At(t, "sync", "release") /\ work[t].at = h
        <5>1. claim[h] = Claim(t, "pending")
          BY <1>1, <4>1 DEF RowsInv, JobsInv, SyncOf, At
        <5> QED
          BY <1>1, <5>1 DEF Claim
      <4>2. CASE At(t, "delete", "commit") /\ h = site'[t].host
        <5>1. Live(t)
          BY <1>1, <4>2 DEF RowsInv, JobsInv, DeletionOf, At
        <5> QED
          BY <1>1, <1>2, <1>4, <4>2, <5>1
      <4> QED
        BY <1>1, <1>4, <2>2, <4>1, <4>2 DEF MustBeSealed, At, Idle, Claim
    <3> QED
      BY <1>1, <1>2, <1>4, <2>2, <3>2 DEF MustBeSealed, At, Idle, Claim
  <2> QED
    BY <2>1, <2>2
<1>10. TombstonesInv' /\ SealsInv'
  <2>1. \A t \in Sites, g \in Hostnames : Sealed(g, t) => Sealed(g, t)'
    BY <1>1 DEF Sealed, edge
  <2> QED
    BY <1>1, <1>9, <2>1 DEF SealsInv, NamesInv, TombstonesInv, edge
<1>11. TrafficInv'
  <2> SUFFICES ASSUME NEW t \in Sites, NEW g \in Hostnames, LeadsTo(g, t)
               PROVE  Claimed(g, t)' \/ Excused(g, t)'
    BY <1>1 DEF TrafficInv, LeadsTo, edge
  <2>1. Claimed(g, t) \/ Excused(g, t)
    BY DEF NamesInv, TrafficInv
  <2>2. CASE t \in abandoned
    BY <1>1, <2>2 DEF Excused
  <2>3. CASE Claimed(g, t)
    BY <1>1, <1>4, <2>3 DEF Claimed
  <2>4. CASE g = site[t].host /\ ~Live(t) /\ ~Idle(t)
    <3>1. t # s
      BY <1>2, <2>4
    <3> QED
      BY <1>1, <1>4, <2>4, <3>1 DEF Excused, Live, Idle
  <2> QED
    BY <2>1, <2>2, <2>3, <2>4 DEF Excused
<1> QED
  BY <1>5, <1>6, <1>7, <1>8, <1>10, <1>11 DEF NamesInv, RowsInv

\* A rename takes a hostname that is free or its own, and leaves one.
LEMMA RenameKeepsInv ==
  ASSUME NoneIsNone, NEW s \in Sites, NEW h \in Hostnames
  PROVE  NamesInv /\ CommitRename(s, h) => NamesInv'
<1> SUFFICES ASSUME NamesInv, CommitRename(s, h) PROVE NamesInv'
  OBVIOUS
<1>1. /\ UNCHANGED <<edge, abandoned>> /\ NamesTypes /\ RowsInv /\ site[s] \in SiteRows
      /\ Live(s) /\ Idle(s) /\ h # site[s].host
      /\ claim[h].status = "free" \/ claim[h].owner = s
      /\ \A t \in Sites \ {s} : Live(t) => site[t].host # h
  BY Rows1 DEF CommitRename, NamesInv, RowsInv, Reusable
<1>2. PICK old \in Hostnames : /\ old = site[s].host /\ old # h
                               /\ claim[old].owner = s /\ claim[old].status = "active"
  BY <1>1, LiveOwns
<1>3. PICK r \in SiteRows : /\ site' = [site EXCEPT ![s] = r]
                            /\ r.state = "live" /\ r.host = h /\ r.gen = site[s].gen + 1
  <2> DEFINE r == [site[s] EXCEPT !.host = h, !.gen = @ + 1, !.rev = @ + 1]
  <2>1. site[s].gen + 1 \in Nat /\ site[s].rev + 1 \in Nat
    BY <1>1 DEF SiteRows
  <2>2. site' = [site EXCEPT ![s] = r]
    BY DEF CommitRename
  <2>3. r.state = site[s].state /\ r.host = h /\ r.gen = site[s].gen + 1
    BY <1>1 DEF SiteRows
  <2>4. r \in SiteRows
    BY <1>1, <2>1 DEF SiteRows
  <2> HIDE DEF r
  <2> QED
    BY <1>1, <2>2, <2>3, <2>4 DEF Live
<1>4. /\ \A t \in Sites \ {s} : site'[t] = site[t]
      /\ site'[s] = r /\ Live(s)'
      /\ \A g \in Hostnames \ {h, old} : claim'[g] = claim[g]
      /\ claim'[h].owner = s /\ claim'[h].status = "active"
      /\ claim'[old].owner = s /\ claim'[old].status = "pending"
      /\ claim' \in [Hostnames -> Claims]
  BY <1>1, <1>2, <1>3 DEF CommitRename, MoveClaims, NamesTypes, Claims, Claim, Live
<1>5. /\ work' \in [Sites -> Jobs \cup {None}]
      /\ \A t \in Sites \ {s} : work'[t] = work[t]
      /\ ~Idle(s)' /\ work'[s].kind = "sync" /\ work'[s].step = "repair"
  <2> DEFINE job == Job("sync", "repair", {}, None)
  <2>1. job \in Jobs /\ job.kind = "sync" /\ job.step = "repair"
    BY DEF Job, Jobs, Steps
  <2>2. Begin(s, job)
    BY DEF CommitRename
  <2> HIDE DEF job
  <2> QED
    BY <1>1, <2>1, <2>2, Beginning
<1>6. NamesTypes'
  <2>1. \A g \in Hostnames : claim'[g].status # "free" => claim'[g].owner \in Sites
    BY <1>1, <1>4 DEF NamesTypes
  <2>2. site' \in [Sites -> SiteRows]
    BY <1>1, <1>3 DEF NamesTypes
  <2>3. \A t \in Sites : site'[t].state # "none" => site'[t].host \in Hostnames
    BY <1>1, <1>3, <1>4 DEF NamesTypes
  <2> QED
    BY <1>1, <1>4, <1>5, <2>1, <2>2, <2>3 DEF NamesTypes, edge
<1>7. LiveSiteOwnsItsHostname'
  <2> SUFFICES ASSUME NEW t \in Sites, NEW g \in Hostnames
               PROVE  Owns(t, g)' <=> Live(t)' /\ site'[t].host = g
    BY <1>6, OwnersSuffice DEF OwnersInv
  <2>1. Owns(t, g) <=> Live(t) /\ site[t].host = g
    BY <1>1, OwnersKnown DEF OwnersInv
  <2>2. Owns(s, g) <=> Live(s) /\ site[s].host = g
    BY <1>1, OwnersKnown DEF OwnersInv
  <2>3. CASE t = s
    BY <1>1, <1>2, <1>3, <1>4, <2>2, <2>3 DEF Owns
  <2>4. CASE t # s
    BY <1>1, <1>2, <1>4, <2>1, <2>4 DEF Owns, Live
  <2> QED
    BY <2>3, <2>4
<1>8. JobsInv'
  <2> SUFFICES ASSUME NEW t \in Sites PROVE SyncOf(t)' /\ DeletionOf(t)'
    BY DEF JobsInv
  <2>1. CASE t = s
    BY <1>4, <1>5, <2>1 DEF SyncOf, DeletionOf, At, Live
  <2>2. CASE t # s
    BY <1>1, <1>2, <1>4, <1>5, <2>2, OthersKeepJobs
  <2> QED
    BY <2>1, <2>2
<1>9. LateInv'
  <2> SUFFICES ASSUME NEW w \in late
               PROVE  /\ claim'[w.host].owner = w.row.site /\ claim'[w.host].status # "free"
                      /\ site'[w.row.site].state # "none"
                      /\ w.row.gen <= site'[w.row.site].gen
                      /\ w.row.gen = site'[w.row.site].gen => w.row.live = Live(w.row.site)'
    BY <1>1 DEF LateInv, edge
  <2>1. /\ w.row.site \in Sites /\ w.row.gen \in Nat /\ w.host \in Hostnames
        /\ site[w.row.site].gen \in Nat
    BY <1>1 DEF NamesTypes, PointerRows, SiteRows
  <2>2. /\ claim[w.host].owner = w.row.site /\ claim[w.host].status # "free"
        /\ site[w.row.site].state # "none" /\ w.row.gen <= site[w.row.site].gen
        /\ w.row.gen = site[w.row.site].gen => w.row.live = Live(w.row.site)
    BY DEF NamesInv, LateInv
  <2>3. claim'[w.host].owner = w.row.site /\ claim'[w.host].status # "free"
    BY <1>1, <1>2, <1>4, <2>1, <2>2
  <2>4. CASE w.row.site = s
    <3>1. site'[s].gen = site[s].gen + 1 /\ site'[s].state = "live"
      BY <1>3, <1>4
    <3>2. w.row.gen < site'[s].gen
      BY <2>1, <2>2, <2>4, <3>1
    <3>3. w.row.gen <= site'[s].gen /\ w.row.gen # site'[s].gen
      BY <2>1, <2>2, <2>4, <3>1
    <3> QED
      BY <2>3, <2>4, <3>1, <3>3
  <2>5. CASE w.row.site # s
    BY <1>4, <2>1, <2>2, <2>3, <2>5 DEF Live
  <2> QED
    BY <2>4, <2>5
<1>10. \A t \in Sites, g \in Hostnames : MustBeSealed(g, t)' => MustBeSealed(g, t)
  <2> SUFFICES ASSUME NEW t \in Sites, NEW g \in Hostnames, MustBeSealed(g, t)'
               PROVE  MustBeSealed(g, t)
    OBVIOUS
  <2>1. RowsInv'
    BY <1>6, <1>7, <1>8 DEF RowsInv
  <2>2. CASE t = s
    <3>1. claim'[g].owner = s /\ claim'[g].status \in {"held", "free"} /\ s \notin abandoned
      BY <1>1, <1>5, <2>2 DEF MustBeSealed, At, Excused
    <3>2. claim'[g] = claim[g]
      BY <1>4, <3>1
    <3> QED
      BY <1>1, <2>2, <3>1, <3>2 DEF MustBeSealed, Excused
  <2>3. CASE t # s
    <3>1. work'[t] = work[t] /\ site'[t] = site[t]
      BY <1>4, <1>5, <2>3
    <3>2. CASE At(t, "sync", "release") /\ work[t].at = g
      BY <3>2 DEF MustBeSealed
    <3>3. CASE At(t, "delete", "commit") /\ ~site[t].active /\ g = site[t].host
      BY <3>3 DEF MustBeSealed
    <3>4. CASE claim'[g].owner = t
      <4>1. claim'[g] = claim[g]
        BY <1>4, <2>3, <3>4
      <4> QED
        BY <1>1, <3>1, <4>1 DEF MustBeSealed, Excused, At, Idle, Live
    <3> QED
      BY <3>1, <3>2, <3>3, <3>4 DEF MustBeSealed, At, Idle, Claim
  <2> QED
    BY <2>2, <2>3
<1>11. TombstonesInv' /\ SealsInv'
  <2>1. \A t \in Sites, g \in Hostnames : Sealed(g, t) => Sealed(g, t)'
    BY <1>1 DEF Sealed, edge
  <2> QED
    BY <1>1, <1>10, <2>1 DEF SealsInv, NamesInv, TombstonesInv, edge
<1>12. TrafficInv'
  <2> SUFFICES ASSUME NEW t \in Sites, NEW g \in Hostnames, LeadsTo(g, t)
               PROVE  Claimed(g, t)' \/ Excused(g, t)'
    BY <1>1 DEF TrafficInv, LeadsTo, edge
  <2>1. Claimed(g, t) \/ Excused(g, t)
    BY DEF NamesInv, TrafficInv
  <2>2. CASE t \in abandoned
    BY <1>1, <2>2 DEF Excused
  <2>3. CASE Claimed(g, t)
    BY <1>1, <1>2, <1>4, <2>3 DEF Claimed
  <2>4. CASE g = site[t].host /\ ~Live(t) /\ ~Idle(t)
    <3>1. t # s
      BY <1>1, <2>4
    <3> QED
      BY <1>4, <1>5, <2>4, <3>1 DEF Excused, Live, Idle
  <2> QED
    BY <2>1, <2>2, <2>3, <2>4 DEF Excused
<1> QED
  BY <1>6, <1>7, <1>8, <1>9, <1>11, <1>12 DEF NamesInv, RowsInv

\* The claim of a hostname that was cleared is held for a time only.
LEMMA ReleaseKeepsInv ==
  ASSUME NoneIsNone, NEW s \in Sites
  PROVE  NamesInv /\ ReleaseSlug(s) => NamesInv'
<1> SUFFICES ASSUME NamesInv, ReleaseSlug(s) PROVE NamesInv'
  OBVIOUS
<1>1. /\ UNCHANGED <<site, edge, abandoned>> /\ NamesTypes /\ RowsInv /\ SyncOf(s) /\ ~Idle(s)
      /\ At(s, "sync", "release") /\ work[s].kind = "sync" /\ work[s].step = "release"
      /\ work[s] \in Jobs
  BY Rows1 DEF ReleaseSlug, NamesInv, RowsInv, JobsInv, At
<1>2. PICK h \in Hostnames : /\ work[s].at = h
                             /\ claim[h].owner = s /\ claim[h].status = "pending"
  BY <1>1 DEF SyncOf, Claim
<1>3. Sealed(h, s) /\ Live(s) /\ work[s].todo \subseteq Retiring(s)
  BY <1>1, <1>2 DEF NamesInv, SealsInv, MustBeSealed, SyncOf
<1>4. /\ \A g \in Hostnames \ {h} : claim'[g] = claim[g]
      /\ claim'[h].owner = s /\ claim'[h].status = "held"
      /\ claim' \in [Hostnames -> Claims]
  BY <1>1, <1>2 DEF ReleaseSlug, NamesTypes, Claims, Claim
<1>5. /\ work' \in [Sites -> Jobs \cup {None}]
      /\ \A t \in Sites \ {s} : work'[t] = work[t]
      /\ ~Idle(s)' /\ work'[s].kind = "sync" /\ work'[s].step = "retire"
      /\ work'[s].todo = work[s].todo \ {h}
  <2> DEFINE job == [work[s] EXCEPT !.step = "retire", !.todo = @ \ {h}]
  <2>1. /\ job \in Jobs /\ job.kind = "sync" /\ job.step = "retire"
        /\ job.todo = work[s].todo \ {h}
    BY <1>1 DEF Jobs, Steps
  <2>2. work' = [work EXCEPT ![s] = job]
    BY <1>2 DEF ReleaseSlug
  <2> HIDE DEF job
  <2> QED
    BY <1>1, <2>1, <2>2, Beginning DEF Begin
<1>6. NamesTypes'
  BY <1>1, <1>2, <1>4, <1>5 DEF NamesTypes, edge
<1>7. LiveSiteOwnsItsHostname'
  <2> SUFFICES ASSUME NEW t \in Sites, NEW g \in Hostnames
               PROVE  Owns(t, g)' <=> Live(t)' /\ site'[t].host = g
    BY <1>6, OwnersSuffice DEF OwnersInv
  <2>1. Owns(t, g) <=> Live(t) /\ site[t].host = g
    BY <1>1, OwnersKnown DEF OwnersInv
  <2> QED
    BY <1>1, <1>2, <1>4, <2>1 DEF Owns, Live
<1>8. JobsInv'
  <2> SUFFICES ASSUME NEW t \in Sites PROVE SyncOf(t)' /\ DeletionOf(t)'
    BY DEF JobsInv
  <2>1. CASE t = s
    <3>1. work'[s].todo \subseteq Retiring(s)'
      <4> SUFFICES ASSUME NEW g \in work[s].todo, g # h PROVE g \in Retiring(s)'
        BY <1>5
      <4> QED
        BY <1>3, <1>4 DEF Retiring
    <3> QED
      BY <1>1, <1>3, <1>5, <2>1, <3>1 DEF SyncOf, DeletionOf, At, Live
  <2>2. CASE t # s
    BY <1>1, <1>2, <1>4, <1>5, <2>2, OthersKeepJobs
  <2> QED
    BY <2>1, <2>2
<1>9. LateInv'
  <2>1. \A w \in late : w.host \in Hostnames
    BY <1>1 DEF NamesTypes
  <2> QED
    BY <1>1, <1>2, <1>4, <2>1 DEF NamesInv, LateInv, edge, Live
<1>10. SealsInv'
  <2> SUFFICES ASSUME NEW t \in Sites, NEW g \in Hostnames, MustBeSealed(g, t)'
               PROVE  Sealed(g, t)
    BY <1>1 DEF SealsInv, Sealed, edge
  <2>1. CASE t = s
    <3>1. claim'[g].owner = s /\ claim'[g].status \in {"held", "free"} /\ ~Excused(g, s)'
      BY <1>5, <2>1 DEF MustBeSealed, At
    <3>2. CASE g = h
      BY <1>3, <2>1, <3>2
    <3>3. CASE g # h
      <4>1. MustBeSealed(g, s)
        BY <1>1, <1>3, <1>4, <3>1, <3>3 DEF MustBeSealed, Excused
      <4> QED
        BY <2>1, <4>1 DEF NamesInv, SealsInv
    <3> QED
      BY <3>2, <3>3
  <2>2. CASE t # s
    <3>1. claim'[g] = claim[g] \/ (claim'[g].owner # t)
      BY <1>4, <2>2
    <3>2. work'[t] = work[t] /\ site' = site /\ abandoned' = abandoned
      BY <1>1, <1>5, <2>2
    <3>3. MustBeSealed(g, t)
      BY <3>1, <3>2 DEF MustBeSealed, Excused, At, Idle, Live, Claim
    <3> QED
      BY <3>3 DEF NamesInv, SealsInv
  <2> QED
    BY <2>1, <2>2
<1>11. TrafficInv'
  <2> SUFFICES ASSUME NEW t \in Sites, NEW g \in Hostnames, LeadsTo(g, t)
               PROVE  Claimed(g, t)' \/ Excused(g, t)'
    BY <1>1 DEF TrafficInv, LeadsTo, edge
  <2>1. Claimed(g, t) \/ Excused(g, t)
    BY DEF NamesInv, TrafficInv
  <2>2. g # h
    BY <1>3 DEF Sealed, LeadsTo
  <2>3. Excused(g, t) => Excused(g, t)'
    BY <1>1, <1>3, <1>5 DEF Excused, Live, Idle
  <2> QED
    BY <1>4, <2>1, <2>2, <2>3 DEF Claimed
<1> QED
  BY <1>1, <1>6, <1>7, <1>8, <1>9, <1>10, <1>11 DEF NamesInv, RowsInv, TombstonesInv, edge

\* The batch of a deletion.
LEMMA CommitDeleteKeepsInv ==
  ASSUME NoneIsNone, NEW s \in Sites
  PROVE  NamesInv /\ CommitDelete(s) => NamesInv'
<1> SUFFICES ASSUME NamesInv, CommitDelete(s) PROVE NamesInv'
  OBVIOUS
<1>1. /\ UNCHANGED <<edge, abandoned>> /\ NamesTypes /\ RowsInv /\ SyncOf(s) /\ DeletionOf(s)
      /\ ~Idle(s) /\ At(s, "delete", "commit") /\ work[s].kind = "delete"
      /\ work[s].step = "commit" /\ work[s] \in Jobs /\ site[s] \in SiteRows
  BY Rows1 DEF CommitDelete, NamesInv, RowsInv, JobsInv, At
<1>2. Live(s) /\ work[s].todo = {} /\ Remembered(s, work[s].before)
  BY <1>1 DEF DeletionOf
<1>3. PICK host \in Hostnames : /\ host = site[s].host
                                /\ claim[host].owner = s /\ claim[host].status = "active"
  BY <1>1, <1>2, LiveOwns
<1>4. PICK r \in SiteRows : /\ site' = [site EXCEPT ![s] = r]
                            /\ r.state = "deleted" /\ r.host = host /\ r.gen = site[s].gen + 1
  <2> DEFINE r == [site[s] EXCEPT !.state = "deleted", !.gen = @ + 1, !.active = FALSE]
  <2>1. site[s].gen + 1 \in Nat
    BY <1>1 DEF SiteRows
  <2>2. site' = [site EXCEPT ![s] = r]
    BY DEF CommitDelete
  <2>3. r.state = "deleted" /\ r.host = host /\ r.gen = site[s].gen + 1
    BY <1>1, <1>3 DEF SiteRows
  <2>4. r \in SiteRows
    BY <1>1, <2>1 DEF SiteRows
  <2> HIDE DEF r
  <2> QED
    BY <2>2, <2>3, <2>4
<1>5. /\ \A t \in Sites \ {s} : site'[t] = site[t]
      /\ site'[s] = r /\ ~Live(s)'
      /\ claim' \in [Hostnames -> Claims]
      /\ \A g \in Hostnames : claim'[g].owner = claim[g].owner
      /\ \A g \in Hostnames : claim[g].owner # s => claim'[g] = claim[g]
      /\ \A g \in Hostnames :
           claim[g].owner = s => claim'[g].status = (IF claim[g].status \in {"active", "pending"}
                                                    THEN "held" ELSE claim[g].status)
      /\ \A g \in Hostnames : claim[g].status = "held" => claim'[g] = claim[g]
  <2>1. \A t \in Sites \ {s} : site'[t] = site[t]
    BY <1>1, <1>4 DEF NamesTypes
  <2>2. site'[s] = r /\ ~Live(s)'
    BY <1>1, <1>4 DEF NamesTypes, Live
  <2>3. \A g \in Hostnames :
          claim'[g] = IF claim[g].owner = s /\ claim[g].status \in {"active", "pending"}
                      THEN Claim(s, "held") ELSE claim[g]
    BY <1>1, ClaimIs DEF CommitDelete
  <2>4. claim' = [g \in Hostnames |-> claim'[g]]
    BY DEF CommitDelete
  <2>5. \A g \in Hostnames : claim[g] \in Claims
    BY <1>1 DEF NamesTypes
  <2>6. \A g \in Hostnames : claim'[g] \in Claims
    BY <2>3, <2>5 DEF Claims, Claim
  <2> QED
    BY <2>1, <2>2, <2>3, <2>4, <2>6 DEF Claim
<1>6. /\ work' \in [Sites -> Jobs \cup {None}]
      /\ \A t \in Sites \ {s} : work'[t] = work[t]
      /\ \/ site[s].active /\ ~Idle(s)' /\ work'[s].kind = "delete" /\ work'[s].step = "publish"
            /\ work'[s].before = work[s].before
         \/ ~site[s].active /\ Idle(s)'
  <2>1. CASE site[s].active
    BY <1>1, <2>1, Stepping DEF CommitDelete, Steps
  <2>2. CASE ~site[s].active
    BY <1>1, <2>2, Ending DEF CommitDelete
  <2> QED
    BY <2>1, <2>2
<1>7. NamesTypes'
  <2>1. \A g \in Hostnames : claim'[g].status # "free" => claim'[g].owner \in Sites
    BY <1>1, <1>5 DEF NamesTypes
  <2>2. site' \in [Sites -> SiteRows]
    BY <1>1, <1>4 DEF NamesTypes
  <2>3. \A t \in Sites : site'[t].state # "none" => site'[t].host \in Hostnames
    BY <1>1, <1>4, <1>5 DEF NamesTypes
  <2> QED
    BY <1>1, <1>5, <1>6, <2>1, <2>2, <2>3 DEF NamesTypes, edge
<1>8. LiveSiteOwnsItsHostname'
  <2> SUFFICES ASSUME NEW t \in Sites, NEW g \in Hostnames
               PROVE  Owns(t, g)' <=> Live(t)' /\ site'[t].host = g
    BY <1>7, OwnersSuffice DEF OwnersInv
  <2>1. Owns(t, g) <=> Live(t) /\ site[t].host = g
    BY <1>1, OwnersKnown DEF OwnersInv
  <2>2. CASE t = s
    BY <1>5, <2>2 DEF Owns
  <2>3. CASE t # s
    BY <1>5, <2>1, <2>3 DEF Owns, Live
  <2> QED
    BY <2>2, <2>3
<1>9. JobsInv'
  <2> SUFFICES ASSUME NEW t \in Sites PROVE SyncOf(t)' /\ DeletionOf(t)'
    BY DEF JobsInv
  <2>1. CASE t = s
    <3>1. CASE Idle(s)'
      BY <2>1, <3>1 DEF SyncOf, DeletionOf
    <3>2. CASE ~Idle(s)'
      <4>1. PICK b : b = work[s].before
        OBVIOUS
      <4>2. \A g \in Hostnames : claim'[g].owner = s =>
              /\ b.claims[g] # None
              /\ \/ claim'[g] = b.claims[g]
                 \/ claim'[g].status = "held" /\ b.claims[g].status \in {"active", "pending"}
        <5> SUFFICES ASSUME NEW g \in Hostnames, claim'[g].owner = s
                     PROVE  /\ b.claims[g] # None
                            /\ \/ claim'[g] = b.claims[g]
                               \/ /\ claim'[g].status = "held"
                                  /\ b.claims[g].status \in {"active", "pending"}
          OBVIOUS
        <5>1. /\ claim[g].owner = s /\ b.claims[g] # None
              /\ \/ claim[g] = b.claims[g]
                 \/ claim[g].status = "held" /\ b.claims[g].status \in {"active", "pending"}
          BY <1>2, <1>5, <4>1 DEF Remembered
        <5>2. CASE claim[g].status \in {"active", "pending"}
          BY <1>5, <5>1, <5>2
        <5>3. CASE claim[g].status \notin {"active", "pending"}
          <6>1. claim'[g].status = claim[g].status /\ claim'[g].owner = claim[g].owner
            BY <1>5, <5>1, <5>3
          <6>2. claim'[g] = claim[g]
            BY <1>1, <1>5, <6>1 DEF NamesTypes, Claims
          <6> QED
            BY <5>1, <6>2
        <5> QED
          BY <5>2, <5>3
      <4>3. Remembered(s, b)'
        BY <1>2, <1>3, <1>4, <1>5, <4>1, <4>2 DEF Remembered
      <4>4. claim'[site'[s].host] = Claim(s, "held")
        <5>1. claim'[host] \in Claims /\ claim'[host].owner = s /\ claim'[host].status = "held"
          BY <1>3, <1>5
        <5> QED
          BY <1>4, <1>5, <5>1 DEF Claims, Claim
      <4>5. work'[s].before = b /\ work'[s].kind = "delete" /\ work'[s].step = "publish"
        BY <1>6, <3>2, <4>1
      <4>6. DeletionOf(s)'
        BY <1>5, <4>3, <4>4, <4>5 DEF DeletionOf
      <4>7. SyncOf(s)'
        BY <1>4, <1>5, <4>5 DEF SyncOf, At
      <4> QED
        BY <2>1, <4>6, <4>7
    <3> QED
      BY <3>1, <3>2
  <2>2. CASE t # s
    <3>1. \A g \in Hostnames : claim'[g] = claim[g] \/ (claim'[g].owner # t /\ claim[g].owner # t)
      BY <1>5, <2>2
    <3> QED
      BY <1>1, <1>5, <1>6, <2>2, <3>1, OthersKeepJobs
  <2> QED
    BY <2>1, <2>2
<1>10. LateInv'
  <2> SUFFICES ASSUME NEW w \in late
               PROVE  /\ claim'[w.host].owner = w.row.site /\ claim'[w.host].status # "free"
                      /\ site'[w.row.site].state # "none"
                      /\ w.row.gen <= site'[w.row.site].gen
                      /\ w.row.gen = site'[w.row.site].gen => w.row.live = Live(w.row.site)'
    BY <1>1 DEF LateInv, edge
  <2>1. /\ w.row.site \in Sites /\ w.row.gen \in Nat /\ w.host \in Hostnames
        /\ site[w.row.site].gen \in Nat
    BY <1>1 DEF NamesTypes, PointerRows, SiteRows
  <2>2. /\ claim[w.host].owner = w.row.site /\ claim[w.host].status # "free"
        /\ site[w.row.site].state # "none" /\ w.row.gen <= site[w.row.site].gen
        /\ w.row.gen = site[w.row.site].gen => w.row.live = Live(w.row.site)
    BY DEF NamesInv, LateInv
  <2>3. claim'[w.host].owner = w.row.site /\ claim'[w.host].status # "free"
    BY <1>5, <2>1, <2>2
  <2>4. CASE w.row.site = s
    <3>1. site'[s].gen = site[s].gen + 1 /\ site'[s].state = "deleted"
      BY <1>4, <1>5
    <3>2. w.row.gen <= site'[s].gen /\ w.row.gen # site'[s].gen
      BY <2>1, <2>2, <2>4, <3>1
    <3> QED
      BY <2>3, <2>4, <3>1, <3>2
  <2>5. CASE w.row.site # s
    BY <1>5, <2>1, <2>2, <2>3, <2>5 DEF Live
  <2> QED
    BY <2>4, <2>5
\* What the clears before the batch were for.
<1>11. \A g \in Hostnames :
         claim'[g].owner = s /\ claim'[g].status \in {"held", "free"} /\ ~Excused(g, s)'
         => Sealed(g, s)
  <2> SUFFICES ASSUME NEW g \in Hostnames, claim'[g].owner = s,
                      claim'[g].status \in {"held", "free"}, ~Excused(g, s)'
               PROVE  MustBeSealed(g, s)
    BY DEF NamesInv, SealsInv
  <2>1. claim[g].owner = s /\ s \notin abandoned
    BY <1>1, <1>5 DEF Excused
  <2>2. CASE claim[g].status = "active"
    <3>1. g = host
      BY <1>1, <1>3, <2>1, <2>2, OwnersKnown DEF OwnersInv, Owns
    <3>2. ~site[s].active
      BY <1>4, <1>5, <1>6, <3>1 DEF Excused
    <3> QED
      BY <1>1, <1>3, <3>1, <3>2 DEF MustBeSealed
  <2>3. CASE claim[g].status = "pending"
    <3>1. claim[g] = Claim(s, "pending")
      BY <1>1, <2>1, <2>3, ClaimIs
    <3> QED
      BY <1>1, <1>2, <3>1 DEF MustBeSealed
  <2>4. CASE claim[g].status \in {"held", "free"}
    BY <1>2, <2>1, <2>4 DEF MustBeSealed, Excused
  <2> QED
    BY <1>1, <2>2, <2>3, <2>4 DEF NamesTypes, Claims
<1>12. SealsInv'
  <2> SUFFICES ASSUME NEW t \in Sites, NEW g \in Hostnames, MustBeSealed(g, t)'
               PROVE  Sealed(g, t)
    BY <1>1 DEF SealsInv, Sealed, edge
  <2>1. CASE t = s
    BY <1>6, <1>11, <2>1 DEF MustBeSealed, At
  <2>2. CASE t # s
    <3>1. claim'[g] = claim[g] \/ (claim'[g].owner # t /\ claim[g].owner # t)
      BY <1>5, <2>2
    <3>2. work'[t] = work[t] /\ site'[t] = site[t] /\ abandoned' = abandoned
      BY <1>1, <1>5, <1>6, <2>2
    <3>3. MustBeSealed(g, t)
      BY <3>1, <3>2 DEF MustBeSealed, Excused, At, Idle, Live, Claim
    <3> QED
      BY <3>3 DEF NamesInv, SealsInv
  <2> QED
    BY <2>1, <2>2
<1>13. TrafficInv'
  <2> SUFFICES ASSUME NEW t \in Sites, NEW g \in Hostnames, LeadsTo(g, t)
               PROVE  Claimed(g, t)' \/ Excused(g, t)'
    BY <1>1 DEF TrafficInv, LeadsTo, edge
  <2>1. Claimed(g, t) \/ Excused(g, t)
    BY DEF NamesInv, TrafficInv
  <2>2. CASE t \in abandoned
    BY <1>1, <2>2 DEF Excused
  <2>3. CASE t = s /\ t \notin abandoned
    <3>1. Claimed(g, s)
      BY <1>2, <2>1, <2>3 DEF Excused
    <3>2. ~Sealed(g, s)
      BY <2>3 DEF Sealed, LeadsTo
    <3> QED
      BY <1>5, <1>11, <2>3, <3>1, <3>2 DEF Claimed
  <2>4. CASE t # s /\ Claimed(g, t)
    BY <1>5, <2>4 DEF Claimed
  <2>5. CASE t # s /\ g = site[t].host /\ ~Live(t) /\ ~Idle(t)
    BY <1>5, <1>6, <2>5 DEF Excused, Live, Idle
  <2> QED
    BY <2>1, <2>2, <2>3, <2>4, <2>5 DEF Excused
<1> QED
  BY <1>1, <1>7, <1>8, <1>9, <1>10, <1>12, <1>13 DEF NamesInv, RowsInv, TombstonesInv, edge

\* A deletion is taken back: the row and the claims as they were.
LEMMA RestoreKeepsInv ==
  ASSUME NoneIsNone, NEW s \in Sites
  PROVE  NamesInv /\ Restore(s) => NamesInv'
<1> SUFFICES ASSUME NamesInv, Restore(s) PROVE NamesInv'
  OBVIOUS
<1>1. /\ UNCHANGED <<edge, abandoned>> /\ NamesTypes /\ RowsInv /\ SyncOf(s) /\ DeletionOf(s)
      /\ ~Idle(s) /\ work[s].kind = "delete" /\ work[s].step = "restore"
      /\ work[s] \in Jobs /\ site[s] \in SiteRows /\ Step(s, "republish")
  BY Rows1 DEF Restore, NamesInv, RowsInv, JobsInv, At
<1>2. PICK b : b = work[s].before /\ Remembered(s, b) /\ b \in Befores /\ ~Live(s)
  BY <1>1 DEF DeletionOf, Remembered
<1>3. PICK host \in Hostnames : /\ host = site[s].host
                                /\ claim[host].owner = s /\ claim[host].status = "held"
  BY <1>1, <1>2, DeletionHolds
<1>4. /\ \A g \in Hostnames : b.claims[g] \in Claims \cup {None}
      /\ \A g \in Hostnames : b.claims[g] # None =>
           b.claims[g].owner = s /\ (b.claims[g].status = "active" => g = host)
      /\ b.claims[host].owner = s /\ b.claims[host].status = "active"
      /\ \A g \in Hostnames : claim[g].owner = s =>
           /\ b.claims[g] # None
           /\ \/ claim[g] = b.claims[g]
              \/ claim[g].status = "held" /\ b.claims[g].status \in {"active", "pending"}
  BY <1>2, <1>3 DEF Remembered, Befores, Claim
<1>5. PICK r \in SiteRows : /\ site' = [site EXCEPT ![s] = r]
                            /\ r.state = "live" /\ r.host = host /\ r.gen = site[s].gen + 1
  <2>1. PICK n \in Nat : n = site[s].gen + 1
    BY <1>1 DEF SiteRows
  <2> DEFINE r == [b.row EXCEPT !.gen = n]
  <2>2. site' = [site EXCEPT ![s] = r]
    BY <1>2, <2>1 DEF Restore
  <2>3. b.row \in SiteRows /\ b.row.state = "live" /\ b.row.host = host
    BY <1>2, <1>3 DEF Remembered, Befores
  <2>4. r \in SiteRows /\ r.state = "live" /\ r.host = host /\ r.gen = n
    BY <2>3 DEF SiteRows
  <2> HIDE DEF r
  <2> QED
    BY <2>1, <2>2, <2>4
<1>6. /\ \A t \in Sites \ {s} : site'[t] = site[t]
      /\ site'[s] = r /\ Live(s)'
  BY <1>1, <1>5 DEF NamesTypes, Live
<1>7. /\ claim' \in [Hostnames -> Claims]
      /\ \A g \in Hostnames : claim'[g].owner = claim[g].owner
      /\ \A g \in Hostnames : claim[g].owner = s => claim'[g] = b.claims[g]
      /\ \A g \in Hostnames : claim[g].owner # s => claim'[g] = claim[g]
  <2>1. \A g \in Hostnames :
          claim'[g] = IF b.claims[g] # None /\ claim[g].owner = s THEN b.claims[g] ELSE claim[g]
    BY <1>2 DEF Restore
  <2>2. \A g \in Hostnames : claim'[g] \in Claims
    BY <1>1, <1>4, <2>1 DEF NamesTypes
  <2>3. claim' = [g \in Hostnames |-> claim'[g]]
    BY DEF Restore
  <2> QED
    BY <1>4, <2>1, <2>2, <2>3
<1>8. /\ work' \in [Sites -> Jobs \cup {None}] /\ ~Idle(s)'
      /\ \A t \in Sites \ {s} : work'[t] = work[t]
      /\ work'[s].kind = "delete" /\ work'[s].step = "republish" /\ work'[s].before = b
  BY <1>1, <1>2, Stepping DEF Steps
<1>9. NamesTypes'
  <2>1. \A g \in Hostnames : claim'[g].status # "free" => claim'[g].owner \in Sites
    BY <1>1, <1>7 DEF NamesTypes
  <2>2. site' \in [Sites -> SiteRows]
    BY <1>1, <1>5 DEF NamesTypes
  <2>3. \A t \in Sites : site'[t].state # "none" => site'[t].host \in Hostnames
    BY <1>1, <1>5, <1>6 DEF NamesTypes
  <2> QED
    BY <1>1, <1>7, <1>8, <2>1, <2>2, <2>3 DEF NamesTypes, edge
<1>10. LiveSiteOwnsItsHostname'
  <2> SUFFICES ASSUME NEW t \in Sites, NEW g \in Hostnames
               PROVE  Owns(t, g)' <=> Live(t)' /\ site'[t].host = g
    BY <1>9, OwnersSuffice DEF OwnersInv
  <2>1. Owns(t, g) <=> Live(t) /\ site[t].host = g
    BY <1>1, OwnersKnown DEF OwnersInv
  <2>2. CASE t = s
    BY <1>3, <1>4, <1>5, <1>6, <1>7, <2>2 DEF Owns
  <2>3. CASE t # s
    BY <1>6, <1>7, <2>1, <2>3 DEF Owns, Live
  <2> QED
    BY <2>2, <2>3
<1>11. JobsInv'
  <2> SUFFICES ASSUME NEW t \in Sites PROVE SyncOf(t)' /\ DeletionOf(t)'
    BY DEF JobsInv
  <2>1. CASE t = s
    <3>1. Remembered(s, b)'
      BY <1>2, <1>3, <1>5, <1>6, <1>7 DEF Remembered
    <3>2. SyncOf(s)'
      BY <1>5, <1>6, <1>8 DEF SyncOf, At
    <3>3. DeletionOf(s)'
      BY <1>6, <1>8, <3>1 DEF DeletionOf
    <3> QED
      BY <2>1, <3>2, <3>3
  <2>2. CASE t # s
    <3>1. \A g \in Hostnames : claim'[g] = claim[g] \/ (claim'[g].owner # t /\ claim[g].owner # t)
      BY <1>7, <2>2
    <3> QED
      BY <1>6, <1>8, <2>2, <3>1, OthersKeepJobs
  <2> QED
    BY <2>1, <2>2
<1>12. LateInv'
  <2> SUFFICES ASSUME NEW w \in late
               PROVE  /\ claim'[w.host].owner = w.row.site /\ claim'[w.host].status # "free"
                      /\ site'[w.row.site].state # "none"
                      /\ w.row.gen <= site'[w.row.site].gen
                      /\ w.row.gen = site'[w.row.site].gen => w.row.live = Live(w.row.site)'
    BY <1>1 DEF LateInv, edge
  <2>1. /\ w.row.site \in Sites /\ w.row.gen \in Nat /\ w.host \in Hostnames
        /\ site[w.row.site].gen \in Nat
    BY <1>1 DEF NamesTypes, PointerRows, SiteRows
  <2>2. /\ claim[w.host].owner = w.row.site /\ claim[w.host].status # "free"
        /\ site[w.row.site].state # "none" /\ w.row.gen <= site[w.row.site].gen
        /\ w.row.gen = site[w.row.site].gen => w.row.live = Live(w.row.site)
    BY DEF NamesInv, LateInv
  <2>3. claim'[w.host].owner = w.row.site /\ claim'[w.host].status # "free"
    BY <1>4, <1>7, <2>1, <2>2
  <2>4. CASE w.row.site = s
    <3>1. site'[s].gen = site[s].gen + 1 /\ site'[s].state = "live"
      BY <1>5, <1>6
    <3>2. w.row.gen <= site'[s].gen /\ w.row.gen # site'[s].gen
      BY <2>1, <2>2, <2>4, <3>1
    <3> QED
      BY <2>3, <2>4, <3>1, <3>2
  <2>5. CASE w.row.site # s
    BY <1>6, <2>1, <2>2, <2>3, <2>5 DEF Live
  <2> QED
    BY <2>4, <2>5
<1>13. SealsInv'
  <2> SUFFICES ASSUME NEW t \in Sites, NEW g \in Hostnames, MustBeSealed(g, t)'
               PROVE  Sealed(g, t)
    BY <1>1 DEF SealsInv, Sealed, edge
  <2>1. CASE t = s
    <3>1. claim'[g].owner = s /\ claim'[g].status \in {"held", "free"} /\ s \notin abandoned
      BY <1>1, <1>8, <2>1 DEF MustBeSealed, At, Excused
    <3>2. claim[g].owner = s /\ claim[g] = claim'[g] /\ g # host
      BY <1>4, <1>7, <3>1
    <3>3. MustBeSealed(g, s)
      BY <1>3, <3>1, <3>2 DEF MustBeSealed, Excused
    <3> QED
      BY <2>1, <3>3 DEF NamesInv, SealsInv
  <2>2. CASE t # s
    <3>1. claim'[g] = claim[g] \/ (claim'[g].owner # t /\ claim[g].owner # t)
      BY <1>7, <2>2
    <3>2. work'[t] = work[t] /\ site'[t] = site[t] /\ abandoned' = abandoned
      BY <1>1, <1>6, <1>8, <2>2
    <3>3. MustBeSealed(g, t)
      BY <3>1, <3>2 DEF MustBeSealed, Excused, At, Idle, Live, Claim
    <3> QED
      BY <3>3 DEF NamesInv, SealsInv
  <2> QED
    BY <2>1, <2>2
<1>14. TrafficInv'
  <2> SUFFICES ASSUME NEW t \in Sites, NEW g \in Hostnames, LeadsTo(g, t)
               PROVE  Claimed(g, t)' \/ Excused(g, t)'
    BY <1>1 DEF TrafficInv, LeadsTo, edge
  <2>1. Claimed(g, t) \/ Excused(g, t)
    BY DEF NamesInv, TrafficInv
  <2>2. CASE t \in abandoned
    BY <1>1, <2>2 DEF Excused
  <2>3. CASE t = s /\ Claimed(g, s)
    BY <1>4, <1>7, <2>3 DEF Claimed
  <2>4. CASE t = s /\ g = host
    BY <1>3, <1>4, <1>7, <2>4 DEF Claimed
  <2>5. CASE t # s /\ Claimed(g, t)
    BY <1>7, <2>5 DEF Claimed
  <2>6. CASE t # s /\ g = site[t].host /\ ~Live(t) /\ ~Idle(t)
    BY <1>6, <1>8, <2>6 DEF Excused, Live, Idle
  <2> QED
    BY <1>3, <2>1, <2>2, <2>3, <2>4, <2>5, <2>6 DEF Excused
<1> QED
  BY <1>1, <1>9, <1>10, <1>11, <1>12, <1>13, <1>14 DEF NamesInv, RowsInv, TombstonesInv, edge

\* A claim becomes free when nothing of its owner is under way there.
LEMMA EndHoldKeepsInv ==
  ASSUME NoneIsNone, NEW h \in Hostnames
  PROVE  NamesInv /\ EndHold(h) => NamesInv'
<1> SUFFICES ASSUME NamesInv, EndHold(h) PROVE NamesInv'
  OBVIOUS
<1>1. /\ UNCHANGED <<site, edge, work, abandoned>> /\ NamesTypes /\ RowsInv
      /\ claim[h].status = "held" /\ claim[h] \in Claims /\ Idle(claim[h].owner)
      /\ \A w \in late : w.host # h
  BY DEF EndHold, NamesInv, RowsInv, NamesTypes
<1>2. /\ claim' \in [Hostnames -> Claims]
      /\ \A g \in Hostnames \ {h} : claim'[g] = claim[g]
      /\ claim'[h].owner = claim[h].owner /\ claim'[h].status = "free"
  BY <1>1 DEF EndHold, NamesTypes, Claims
<1>3. \A t \in Sites : ~Idle(t) => t # claim[h].owner
  BY <1>1
<1>4. NamesTypes'
  BY <1>1, <1>2 DEF NamesTypes, edge
<1>5. LiveSiteOwnsItsHostname'
  <2> SUFFICES ASSUME NEW t \in Sites, NEW g \in Hostnames
               PROVE  Owns(t, g)' <=> Live(t)' /\ site'[t].host = g
    BY <1>4, OwnersSuffice DEF OwnersInv
  <2>1. Owns(t, g) <=> Live(t) /\ site[t].host = g
    BY <1>1, OwnersKnown DEF OwnersInv
  <2> QED
    BY <1>1, <1>2, <2>1 DEF Owns, Live
<1>6. JobsInv'
  <2> SUFFICES ASSUME NEW t \in Sites, ~Idle(t) PROVE SyncOf(t)' /\ DeletionOf(t)'
    BY <1>1 DEF JobsInv, SyncOf, DeletionOf, Idle
  <2>1. SyncOf(t) /\ DeletionOf(t)
    BY <1>1 DEF RowsInv, JobsInv
  <2>2. \A g \in Hostnames : claim'[g] = claim[g] \/ (claim'[g].owner # t /\ claim[g].owner # t)
    BY <1>2, <1>3
  <2>3. \A g \in Hostnames, x \in {"active", "pending", "held"} :
          claim[g] = Claim(t, x) => claim'[g] = Claim(t, x)
    BY <2>2 DEF Claim
  <2>4. Retiring(t) \subseteq Retiring(t)'
    BY <2>3 DEF Retiring
  <2>5. SyncOf(t)'
    BY <1>1, <2>1, <2>3, <2>4 DEF SyncOf, Idle, Live, At
  <2>6. ASSUME work[t].kind = "delete" PROVE Remembered(t, work[t].before)'
    <3>1. Remembered(t, work[t].before)
      BY <2>1, <2>6 DEF DeletionOf
    <3> QED
      BY <1>1, <2>2, <3>1 DEF Remembered
  <2>7. site[t].host \in Hostnames
    BY <1>1, <2>1, Rows1 DEF SyncOf
  <2>8. DeletionOf(t)'
    BY <1>1, <2>1, <2>3, <2>4, <2>6, <2>7 DEF DeletionOf, Idle, Live
  <2> QED
    BY <2>5, <2>8
<1>7. LateInv'
  <2>1. \A w \in late : w.host \in Hostnames /\ w.host # h
    BY <1>1 DEF NamesTypes
  <2> QED
    BY <1>1, <1>2, <2>1 DEF NamesInv, LateInv, edge, Live
<1>8. SealsInv'
  <2> SUFFICES ASSUME NEW t \in Sites, NEW g \in Hostnames, MustBeSealed(g, t)'
               PROVE  Sealed(g, t)
    BY <1>1 DEF SealsInv, Sealed, edge
  <2>1. MustBeSealed(g, t)
    BY <1>1, <1>2 DEF MustBeSealed, Excused, At, Idle, Live, Claim
  <2> QED
    BY <2>1 DEF NamesInv, SealsInv
<1>9. TrafficInv'
  <2> SUFFICES ASSUME NEW t \in Sites, NEW g \in Hostnames, LeadsTo(g, t)
               PROVE  Claimed(g, t)' \/ Excused(g, t)'
    BY <1>1 DEF TrafficInv, LeadsTo, edge
  <2>1. Claimed(g, t) \/ Excused(g, t)
    BY DEF NamesInv, TrafficInv
  <2> QED
    BY <1>1, <1>2, <2>1 DEF Claimed, Excused, Live, Idle
<1> QED
  BY <1>1, <1>4, <1>5, <1>6, <1>7, <1>8, <1>9 DEF NamesInv, RowsInv, TombstonesInv, edge

\* A write that timed out is carried out, or is too late.
LEMMA LateWriteKeepsInv ==
  ASSUME NoneIsNone, NEW w \in late
  PROVE  NamesInv /\ LateWrite(w) => NamesInv'
<1> SUFFICES ASSUME NamesInv, LateWrite(w) PROVE NamesInv'
  OBVIOUS
<1>1. /\ UNCHANGED <<site, claim, work, abandoned>> /\ NamesTypes /\ RowsInv
      /\ late' = late \ {w} /\ w.row \in PointerRows /\ w.row # None /\ w.row.gen \in Nat
  BY DEF LateWrite, NamesInv, RowsInv, NamesTypes, rows, PointerRows, NoneIsNone
<1>2. PICK h \in Hostnames, s \in Sites :
        /\ h = w.host /\ s = w.row.site /\ claim[h].owner = s /\ claim[h].status # "free"
  BY <1>1 DEF NamesInv, LateInv, NamesTypes, PointerRows
<1>3. /\ pointer' \in [Hostnames -> PointerRows \cup {None}]
      /\ tombstone' \in [Hostnames -> Tombstones \cup {None}]
      /\ \A g \in Hostnames \ {h} : pointer'[g] = pointer[g] /\ tombstone'[g] = tombstone[g]
      /\ \/ pointer'[h] = pointer[h] /\ tombstone'[h] = tombstone[h]
         \/ Accepts(h, w.row) /\ pointer'[h] = w.row /\ tombstone'[h] = None
  BY <1>1, <1>2 DEF LateWrite, NamesTypes
<1>4. NamesTypes' /\ TombstonesInv'
  BY <1>1, <1>3 DEF NamesTypes, TombstonesInv, NamesInv
<1>5. RowsInv'
  <2>1. LiveSiteOwnsItsHostname'
    BY <1>1 DEF RowsInv, LiveSiteOwnsItsHostname, Live
  <2>2. \A t \in Sites : SyncOf(t)'
    BY <1>1 DEF RowsInv, JobsInv, SyncOf, Idle, Live, At, Retiring
  <2>3. \A t \in Sites : DeletionOf(t)'
    BY <1>1 DEF RowsInv, JobsInv, DeletionOf, Remembered, Idle, Live, Retiring
  <2> QED
    BY <1>4, <2>1, <2>2, <2>3 DEF RowsInv, JobsInv
<1>6. LateInv'
  BY <1>1 DEF NamesInv, LateInv, Live
<1>7. \A t \in Sites, g \in Hostnames :
        (MustBeSealed(g, t)' <=> MustBeSealed(g, t)) /\ (Excused(g, t)' <=> Excused(g, t))
  BY <1>1 DEF MustBeSealed, Excused, At, Idle, Live
\* What is sealed accepts no live route that is under way, and stays sealed.
<1>8. ASSUME Sealed(h, s), Accepts(h, w.row), pointer'[h] = w.row
      PROVE  ~w.row.live /\ Sealed(h, s)'
  <2>1. CASE /\ pointer[h] # None /\ pointer[h].site = s /\ ~pointer[h].live
             /\ \A v \in late : v.host = h /\ v.row.live => v.row.gen < pointer[h].gen
    <3>1. pointer[h].gen \in Nat /\ pointer[h].gen <= w.row.gen
      BY <1>1, <1>2, <1>8, <2>1 DEF Accepts, NamesTypes, PointerRows
    <3>2. ~w.row.live
      BY <1>1, <1>2, <2>1, <3>1
    <3>3. \A v \in late : v.host = h /\ v.row.live => v.row.gen < w.row.gen
      <4> SUFFICES ASSUME NEW v \in late, v.host = h, v.row.live PROVE v.row.gen < w.row.gen
        OBVIOUS
      <4>1. v.row.gen \in Nat /\ v.row.gen < pointer[h].gen
        BY <1>1, <2>1 DEF NamesTypes, PointerRows
      <4> QED
        BY <1>1, <3>1, <4>1
    <3> QED
      BY <1>1, <1>2, <1>8, <3>2, <3>3 DEF Sealed
  <2>2. CASE /\ pointer[h] = None /\ tombstone[h] # None /\ tombstone[h].site = s
             /\ \A v \in late : v.host = h /\ v.row.live => v.row.gen <= tombstone[h].gen
    <3>1. tombstone[h].gen \in Nat /\ tombstone[h].gen < w.row.gen
      BY <1>1, <1>2, <1>8, <2>2 DEF Accepts, NamesTypes, Tombstones
    <3>2. ~w.row.live
      BY <1>1, <1>2, <2>2, <3>1
    <3>3. \A v \in late : v.host = h /\ v.row.live => v.row.gen < w.row.gen
      <4> SUFFICES ASSUME NEW v \in late, v.host = h, v.row.live PROVE v.row.gen < w.row.gen
        OBVIOUS
      <4>1. v.row.gen \in Nat /\ v.row.gen <= tombstone[h].gen
        BY <1>1, <2>2 DEF NamesTypes, PointerRows
      <4> QED
        BY <1>1, <3>1, <4>1
    <3> QED
      BY <1>1, <1>2, <1>8, <3>2, <3>3 DEF Sealed
  <2> QED
    BY <1>8, <2>1, <2>2 DEF Sealed
<1>9. SealsInv'
  <2> SUFFICES ASSUME NEW t \in Sites, NEW g \in Hostnames, MustBeSealed(g, t)'
               PROVE  Sealed(g, t)'
    BY DEF SealsInv
  <2>1. Sealed(g, t) /\ claim[g].owner = t
    BY <1>1, <1>7, OwnersSeal DEF NamesInv, SealsInv
  <2>2. CASE pointer'[g] = pointer[g] /\ tombstone'[g] = tombstone[g]
    BY <1>1, <2>1, <2>2, SealedStays
  <2>3. CASE g = h /\ Accepts(h, w.row) /\ pointer'[h] = w.row
    BY <1>2, <1>8, <2>1, <2>3
  <2> QED
    BY <1>3, <2>2, <2>3
<1>10. TrafficInv'
  <2> SUFFICES ASSUME NEW t \in Sites, NEW g \in Hostnames, LeadsTo(g, t)'
               PROVE  Claimed(g, t) \/ Excused(g, t)
    BY <1>1, <1>7 DEF TrafficInv, Claimed
  <2>1. CASE pointer'[g] = pointer[g]
    BY <2>1 DEF NamesInv, TrafficInv, LeadsTo
  <2>2. CASE g = h /\ Accepts(h, w.row) /\ pointer'[h] = w.row
    <3>1. t = s /\ w.row.live
      BY <1>2, <2>2 DEF LeadsTo
    <3>2. ~MustBeSealed(h, s)
      BY <1>8, <2>2, <3>1 DEF NamesInv, SealsInv
    <3>3. claim[h].status \in {"active", "pending", "held"}
      BY <1>1, <1>2 DEF NamesTypes, Claims
    <3> QED
      BY <1>2, <2>2, <3>1, <3>2, <3>3 DEF MustBeSealed, Claimed
  <2> QED
    BY <1>3, <2>1, <2>2
<1> QED
  BY <1>4, <1>5, <1>6, <1>9, <1>10 DEF NamesInv

-----------------------------------------------------------------------------
LEMMA NamesInitInv == ASSUME NoneIsNone PROVE NamesInit => NamesInv
<1> SUFFICES ASSUME NamesInit PROVE NamesInv
  OBVIOUS
<1>1. NamesTypes
  BY DEF NamesInit, NamesTypes, SiteRows, Claims, Claim
<1>2. \A s \in Sites : Idle(s) /\ ~Live(s)
  BY DEF NamesInit, Idle, Live
<1>3. \A h \in Hostnames :
        claim[h].status = "free" /\ claim[h].owner \notin Sites /\ pointer[h] = None
        /\ tombstone[h] = None
  BY DEF NamesInit, Claim, NoneIsNone
<1>4. LiveSiteOwnsItsHostname
  BY <1>2, <1>3 DEF LiveSiteOwnsItsHostname
<1>5. JobsInv /\ LateInv /\ TombstonesInv
  BY <1>2, <1>3 DEF JobsInv, SyncOf, DeletionOf, LateInv, TombstonesInv, NamesInit
<1>6. SealsInv /\ TrafficInv
  BY <1>2, <1>3 DEF SealsInv, MustBeSealed, At, TrafficInv, LeadsTo, Claim
<1> QED
  BY <1>1, <1>4, <1>5, <1>6 DEF NamesInv, RowsInv

LEMMA NamesNextInv == ASSUME NoneIsNone PROVE NamesInv /\ [NamesNext]_namesVars => NamesInv'
<1> SUFFICES ASSUME NamesInv, [NamesNext]_namesVars PROVE NamesInv'
  OBVIOUS
<1>1. CASE UNCHANGED namesVars
  <2>1. RowsInv'
    BY <1>1 DEF namesVars, NamesInv, RowsInv, NamesTypes, LiveSiteOwnsItsHostname, JobsInv,
                SyncOf, DeletionOf, Remembered, Retiring, At, Idle, Live
  <2>2. LateInv' /\ TombstonesInv'
    BY <1>1 DEF namesVars, NamesInv, LateInv, TombstonesInv, Live
  <2>3. SealsInv' /\ TrafficInv'
    BY <1>1 DEF namesVars, NamesInv, SealsInv, TrafficInv, MustBeSealed, Sealed, Excused, LeadsTo,
                Claimed, At, Idle, Live
  <2> QED
    BY <2>1, <2>2, <2>3 DEF NamesInv
<1>2. CASE \E s \in Sites : Lifecycle(s) \/ Synchronise(s) \/ Reconcile(s)
                            \/ \E h \in Hostnames : CommitRename(s, h)
  BY <1>2, CreateKeepsInv, SameHostKeepsInv, DeployKeepsInv, EndKeepsInv, RetireKeepsInv,
     ReleaseKeepsInv, ReconcileKeepsInv, RenameKeepsInv
  DEF Lifecycle, Synchronise
<1>3. CASE \E s \in Sites : Delete(s)
  BY <1>3, BeginDeleteKeepsInv, ClearsKeepInv, CommitDeleteKeepsInv, TellKeepsInv, RestoreKeepsInv,
     EndKeepsInv
  DEF Delete
<1>4. CASE (\E w \in late : LateWrite(w)) \/ (\E h \in Hostnames : EndHold(h))
  BY <1>4, LateWriteKeepsInv, EndHoldKeepsInv
<1> QED
  BY <1>1, <1>2, <1>3, <1>4 DEF NamesNext

\* A live site owns its hostname and nobody else does, and a hostname serves a
\* live route only of the site whose claim it is, but for deletions that are
\* under way or ended early: whatever was renamed, deleted, restored, created
\* and delayed at the same time (createSite, commitSiteMetadata, deleteSite,
\* restoreSiteDeleteIfCurrent, synchronizeRouting).
THEOREM HostnamesAreFollowed == ASSUME NoneIsNone PROVE NamesSpec => []HostnamesFollowClaims
<1>1. ASSUME NamesInv PROVE HostnamesFollowClaims
  <2> SUFFICES ASSUME NEW h \in Hostnames, pointer[h] # None, pointer[h].live
               PROVE  \/ claim[h] \in {Claim(pointer[h].site, "active"),
                                       Claim(pointer[h].site, "pending")}
                      \/ pointer[h].site \in abandoned
                      \/ ~Live(pointer[h].site) /\ ~Idle(pointer[h].site)
    BY <1>1 DEF HostnamesFollowClaims, TrafficFollowsClaims, NamesInv, RowsInv
  <2>1. pointer[h].site \in Sites
    BY <1>1 DEF NamesInv, RowsInv, NamesTypes, PointerRows
  <2>2. Claimed(h, pointer[h].site) \/ Excused(h, pointer[h].site)
    BY <1>1, <2>1 DEF NamesInv, TrafficInv, LeadsTo
  <2> QED
    BY <1>1, <2>2, ClaimIs DEF Claimed, Excused, NamesInv, RowsInv
<1> QED
  BY <1>1, NamesInitInv, NamesNextInv, PTL DEF NamesSpec

-----------------------------------------------------------------------------
(* How often a site is committed.                                          *)

\* Whoever begins leaves room for what follows: a deletion commits the site
\* once, and once more when it takes itself back.
RoomOf(s) ==
  ~Idle(s) /\ work[s].kind = "delete" =>
    /\ work[s].step \in {"retire", "commit"} => site[s].gen < MaxGeneration
    /\ work[s].step \in {"publish", "withdraw", "restore"} => site[s].gen <= MaxGeneration
    /\ work[s].before.row.synced <= work[s].before.row.rev

CountsInv ==
  \A s \in Sites :
    site[s].gen <= MaxGeneration + 1 /\ site[s].synced <= site[s].rev /\ RoomOf(s)

\* A step of s leaves every other site as it was.
LEMMA CountsOfOne ==
  ASSUME CountsInv, NEW s \in Sites,
         \A t \in Sites \ {s} : site'[t] = site[t] /\ work'[t] = work[t],
         site'[s].gen <= MaxGeneration + 1, site'[s].synced <= site'[s].rev, RoomOf(s)'
  PROVE  CountsInv'
BY DEF CountsInv, RoomOf, Idle

LEMMA FinishLeavesRoom ==
  ASSUME NamesTypes, NEW s \in Sites, Finish(s)
  PROVE  RoomOf(s)' /\ \A t \in Sites \ {s} : work'[t] = work[t]
BY DEF Finish, RoomOf, Idle, NamesTypes

\* The steps that leave the sites alone.
LEMMA OthersKeepCounts ==
  ASSUME NoneIsNone, NamesTypes, CountsInv, UNCHANGED site, NEW s \in Sites,
         \/ PublishRoute(s) \/ Stop(s) \/ Reconcile(s) \/ Repair(s) \/ RepairFails(s)
         \/ ClearRetired(s) \/ ClearRetiredFails(s) \/ ReleaseSlug(s) \/ ReleaseSlugFails(s)
         \/ ClearBeforeDelete(s) \/ ClearInactive(s) \/ DeleteRefused(s)
         \/ PublishDeleted(s) \/ PublishDeletedFails(s) \/ Withdraw(s) \/ RestoreFails(s)
         \/ Republish(s) \/ Settle(s)
  PROVE  CountsInv'
<1>1. /\ site[s].gen <= MaxGeneration + 1 /\ site[s].synced <= site[s].rev /\ RoomOf(s)
      /\ work \in [Sites -> Jobs \cup {None}]
  BY DEF CountsInv, NamesTypes
<1>2. CASE Finish(s)
  BY <1>1, <1>2, FinishLeavesRoom, CountsOfOne
<1>3. CASE \/ Reconcile(s) \/ Repair(s) \/ ClearRetired(s) \/ ClearRetiredFails(s)
           \/ ReleaseSlug(s) \/ ReleaseSlugFails(s)
  <2>1. CASE Reconcile(s)
    <3>1. work' = [work EXCEPT ![s] = Job("sync", "repair", {}, None)]
      BY <2>1 DEF Reconcile, Begin
    <3>2. Job("sync", "repair", {}, None).kind = "sync"
      BY DEF Job
    <3>3. work'[s].kind = "sync" /\ \A t \in Sites \ {s} : work'[t] = work[t]
      BY <1>1, <3>1, <3>2
    <3>4. RoomOf(s)'
      BY <3>3 DEF RoomOf
    <3> QED BY <1>1, <3>3, <3>4, CountsOfOne
  <2>2. CASE \/ Repair(s) \/ ClearRetired(s) \/ ClearRetiredFails(s)
             \/ ReleaseSlug(s) \/ ReleaseSlugFails(s)
    <3>1. work[s] \in Jobs /\ work[s].kind = "sync"
      BY <1>1, <2>2 DEF Repair, ClearRetired, ClearRetiredFails, ReleaseSlug, ReleaseSlugFails,
                        At, Idle
    <3>2. \/ \E step \in Steps, todo \in SUBSET Hostnames :
                work' = [work EXCEPT ![s].step = step, ![s].todo = todo]
          \/ \E h \in Hostnames : work' = [work EXCEPT ![s].step = "release", ![s].at = h]
          \/ \E todo \in SUBSET Hostnames :
                work' = [work EXCEPT ![s].todo = todo, ![s].failed = TRUE]
          \/ \E todo \in SUBSET Hostnames :
                work' = [work EXCEPT ![s].step = "retire", ![s].todo = todo, ![s].failed = TRUE]
      <4>1. work[s].todo \subseteq Hostnames
        BY <3>1 DEF Jobs
      <4>2. CASE Repair(s)
        BY <4>2 DEF Repair, Retiring, Steps
      <4>3. CASE ClearRetired(s)
        BY <4>1, <4>3 DEF ClearRetired
      <4>4. CASE ClearRetiredFails(s)
        BY <4>1, <4>4 DEF ClearRetiredFails
      <4>5. CASE ReleaseSlug(s)
        BY <4>1, <4>5 DEF ReleaseSlug, Steps
      <4>6. CASE ReleaseSlugFails(s)
        BY <4>1, <4>6 DEF ReleaseSlugFails
      <4> QED BY <2>2, <4>2, <4>3, <4>4, <4>5, <4>6
    <3>3. work'[s].kind = "sync" /\ \A t \in Sites \ {s} : work'[t] = work[t]
      <4>1. ASSUME NEW step \in Steps, NEW todo \in SUBSET Hostnames,
                   work' = [work EXCEPT ![s].step = step, ![s].todo = todo]
            PROVE  work'[s].kind = "sync" /\ \A t \in Sites \ {s} : work'[t] = work[t]
        BY <1>1, <3>1, <4>1 DEF Jobs
      <4>2. ASSUME NEW h \in Hostnames,
                   work' = [work EXCEPT ![s].step = "release", ![s].at = h]
            PROVE  work'[s].kind = "sync" /\ \A t \in Sites \ {s} : work'[t] = work[t]
        BY <1>1, <3>1, <4>2 DEF Jobs
      <4>3. ASSUME NEW todo \in SUBSET Hostnames,
                   work' = [work EXCEPT ![s].todo = todo, ![s].failed = TRUE]
            PROVE  work'[s].kind = "sync" /\ \A t \in Sites \ {s} : work'[t] = work[t]
        BY <1>1, <3>1, <4>3 DEF Jobs
      <4>4. ASSUME NEW todo \in SUBSET Hostnames,
                   work' = [work EXCEPT ![s].step = "retire", ![s].todo = todo,
                                        ![s].failed = TRUE]
            PROVE  work'[s].kind = "sync" /\ \A t \in Sites \ {s} : work'[t] = work[t]
        BY <1>1, <3>1, <4>4 DEF Jobs
      <4> QED BY <3>2, <4>1, <4>2, <4>3, <4>4
    <3>4. RoomOf(s)'
      BY <3>3 DEF RoomOf
    <3> QED BY <1>1, <3>3, <3>4, CountsOfOne
  <2> QED BY <1>3, <2>1, <2>2
<1>4. CASE \/ ClearBeforeDelete(s) \/ ClearInactive(s) \/ PublishDeleted(s)
           \/ PublishDeletedFails(s) \/ RestoreFails(s)
           \/ (At(s, "delete", "withdraw") /\ Step(s, "restore"))
           \/ (At(s, "delete", "republish") /\ Step(s, "settle"))
  <2>1. /\ work[s] \in Jobs /\ work'[s].before = work[s].before
        /\ work[s].kind = "delete"
        /\ \/ work'[s].step = work[s].step
           \/ work[s].step = "retire" /\ work'[s].step = "commit"
           \/ work[s].step = "publish" /\ work'[s].step \in {"settle", "withdraw", "restore"}
           \/ work[s].step = "withdraw" /\ work'[s].step = "restore"
           \/ work'[s].step = "settle"
        /\ \A t \in Sites \ {s} : work'[t] = work[t]
    BY <1>1, <1>4 DEF ClearBeforeDelete, ClearInactive, PublishDeleted, PublishDeletedFails,
                RestoreFails, At, Step, Idle, Jobs
  <2>2. ~Idle(s)
    BY <1>4 DEF ClearBeforeDelete, ClearInactive, PublishDeleted, PublishDeletedFails,
                RestoreFails, At
  <2>3. RoomOf(s)'
    BY <1>1, <2>1, <2>2 DEF RoomOf
  <2> QED BY <1>1, <2>1, <2>3, CountsOfOne
<1> QED
  BY <1>2, <1>3, <1>4 DEF PublishRoute, Stop, RepairFails, DeleteRefused, Withdraw, Republish,
                          Settle

\* The steps that commit a site.
LEMMA CommitsKeepCounts ==
  ASSUME NoneIsNone, NamesInv, CountsInv, NEW s \in Sites,
         \/ \E h \in Hostnames : CreateSite(s, h) \/ CommitRename(s, h)
         \/ CommitRoute(s) \/ MarkSynced(s) \/ BeginDelete(s) \/ CommitDelete(s) \/ Restore(s)
  PROVE  CountsInv'
<1>0. NamesTypes /\ DeletionOf(s)
  BY DEF NamesInv, RowsInv, JobsInv
<1>1. /\ site[s] \in SiteRows /\ work \in [Sites -> Jobs \cup {None}]
      /\ site \in [Sites -> SiteRows]
      /\ site[s].gen <= MaxGeneration + 1 /\ site[s].synced <= site[s].rev /\ RoomOf(s)
      /\ site[s].gen \in Nat /\ site[s].rev \in Nat /\ site[s].synced \in Nat
      /\ MaxGeneration \in Nat
  BY <1>0, NamesAssumption DEF CountsInv, NamesTypes, SiteRows
<1>2. CASE \E h \in Hostnames : CreateSite(s, h)
  <2>1. PICK h \in Hostnames : site' = [site EXCEPT ![s].state = "live", ![s].host = h]
    BY <1>2 DEF CreateSite
  <2>2. UNCHANGED work
    BY <1>2 DEF CreateSite
  <2>3. /\ site'[s].gen = site[s].gen /\ site'[s].rev = site[s].rev
        /\ site'[s].synced = site[s].synced /\ \A t \in Sites \ {s} : site'[t] = site[t]
    BY <1>1, <2>1 DEF SiteRows
  <2>4. RoomOf(s)'
    BY <1>1, <2>2, <2>3 DEF RoomOf, Idle
  <2> QED BY <1>1, <2>2, <2>3, <2>4, CountsOfOne
<1>3. CASE CommitRoute(s) \/ \E h \in Hostnames : CommitRename(s, h)
  <2>1. site[s].gen < MaxGeneration
    BY <1>3 DEF CommitRoute, CommitRename
  <2>2. /\ site'[s].gen = site[s].gen + 1 /\ site'[s].rev \in {site[s].rev, site[s].rev + 1}
        /\ site'[s].synced = site[s].synced /\ \A t \in Sites \ {s} : site'[t] = site[t]
    <3>1. CASE CommitRoute(s)
      <4>1. site' = [site EXCEPT ![s].gen = @ + 1, ![s].active = TRUE]
        BY <3>1 DEF CommitRoute
      <4> QED BY <1>1, <4>1 DEF SiteRows
    <3>2. ASSUME NEW h \in Hostnames, CommitRename(s, h)
          PROVE  /\ site'[s].gen = site[s].gen + 1 /\ site'[s].rev = site[s].rev + 1
                 /\ site'[s].synced = site[s].synced
                 /\ \A t \in Sites \ {s} : site'[t] = site[t]
      <4>1. site' = [site EXCEPT ![s].host = h, ![s].gen = @ + 1, ![s].rev = @ + 1]
        BY <3>2 DEF CommitRename
      <4> QED BY <1>1, <4>1 DEF SiteRows
    <3> QED BY <1>3, <3>1, <3>2
  <2>3. \E kind \in {"deploy", "sync"}, step \in Steps :
          work' = [work EXCEPT ![s] = Job(kind, step, {}, None)]
    BY <1>3 DEF CommitRoute, CommitRename, Begin, Steps
  <2>4. work'[s].kind \in {"deploy", "sync"} /\ \A t \in Sites \ {s} : work'[t] = work[t]
    BY <1>1, <2>3 DEF Job
  <2>5. RoomOf(s)'
    BY <2>4 DEF RoomOf
  <2>6. site'[s].gen <= MaxGeneration + 1 /\ site'[s].synced <= site'[s].rev
    BY <1>1, <2>1, <2>2
  <2> QED BY <2>2, <2>4, <2>5, <2>6, CountsOfOne
<1>4. CASE MarkSynced(s)
  <2>1. Finish(s)
    BY <1>4 DEF MarkSynced
  <2>2. RoomOf(s)' /\ \A t \in Sites \ {s} : work'[t] = work[t]
    BY <1>0, <2>1, FinishLeavesRoom
  <2>3. UNCHANGED site \/ site' = [site EXCEPT ![s].synced = site[s].rev]
    BY <1>4 DEF MarkSynced
  <2>4. /\ site'[s].gen = site[s].gen /\ site'[s].synced <= site'[s].rev
        /\ \A t \in Sites \ {s} : site'[t] = site[t]
    BY <1>1, <2>3 DEF SiteRows
  <2> QED BY <1>1, <2>2, <2>4, CountsOfOne
<1>5. CASE BeginDelete(s)
  <2>1. UNCHANGED site /\ site[s].gen < MaxGeneration
        /\ work' = [work EXCEPT ![s] = Job("delete", "retire", Retiring(s), Before(s))]
    BY <1>5 DEF BeginDelete, Begin, rows
  <2>2. /\ work'[s].step = "retire" /\ work'[s].before.row = site[s]
        /\ \A t \in Sites \ {s} : work'[t] = work[t]
    BY <1>1, <2>1 DEF Job, Before
  <2>3. RoomOf(s)'
    BY <1>1, <2>1, <2>2 DEF RoomOf
  <2> QED BY <1>1, <2>1, <2>2, <2>3, CountsOfOne
<1>6. CASE CommitDelete(s)
  <2>1. /\ ~Idle(s) /\ work[s] \in Jobs /\ work[s].kind = "delete" /\ work[s].step = "commit"
        /\ site[s].gen < MaxGeneration
    BY <1>1, <1>6 DEF CommitDelete, At, RoomOf, Idle
  <2>2. /\ site'[s].gen = site[s].gen + 1 /\ site'[s].rev = site[s].rev
        /\ site'[s].synced = site[s].synced /\ \A t \in Sites \ {s} : site'[t] = site[t]
    BY <1>1, <1>6 DEF CommitDelete, SiteRows
  <2>3. site'[s].gen <= MaxGeneration /\ site'[s].gen <= MaxGeneration + 1
    BY <1>1, <2>1, <2>2
  <2>4. CASE Finish(s)
    BY <1>0, <1>1, <2>2, <2>3, <2>4, FinishLeavesRoom, CountsOfOne
  <2>5. CASE Step(s, "publish")
    <3>1. /\ work'[s].step = "publish" /\ work'[s].before = work[s].before
          /\ \A t \in Sites \ {s} : work'[t] = work[t]
      BY <1>1, <2>1, <2>5 DEF Step, Jobs
    <3>2. RoomOf(s)'
      BY <1>1, <2>1, <2>3, <3>1 DEF RoomOf
    <3> QED BY <1>1, <2>2, <2>3, <3>1, <3>2, CountsOfOne
  <2> QED BY <1>6, <2>4, <2>5 DEF CommitDelete
<1>7. CASE Restore(s)
  <2>1. /\ ~Idle(s) /\ work[s] \in Jobs /\ work[s].kind = "delete" /\ work[s].step = "restore"
        /\ site[s].gen <= MaxGeneration
    BY <1>1, <1>7 DEF Restore, At, RoomOf, Idle
  <2>2. site' = [site EXCEPT ![s] = [work[s].before.row EXCEPT !.gen = site[s].gen + 1]]
        /\ Step(s, "republish")
    BY <1>7 DEF Restore
  <2>3. work[s].before \in Befores /\ work[s].before.row.synced <= work[s].before.row.rev
    BY <1>0, <1>1, <2>1 DEF DeletionOf, Remembered, RoomOf
  <2>4. /\ site'[s].gen = site[s].gen + 1 /\ site'[s].rev = work[s].before.row.rev
        /\ site'[s].synced = work[s].before.row.synced
        /\ \A t \in Sites \ {s} : site'[t] = site[t]
    BY <1>1, <2>2, <2>3 DEF Befores, SiteRows
  <2>5. site'[s].gen <= MaxGeneration + 1 /\ site'[s].synced <= site'[s].rev
    BY <1>1, <2>1, <2>3, <2>4
  <2>6. /\ work'[s].step = "republish" /\ work'[s].before = work[s].before
        /\ \A t \in Sites \ {s} : work'[t] = work[t]
    BY <1>1, <2>1, <2>2 DEF Step, Jobs
  <2>7. RoomOf(s)'
    BY <2>3, <2>6 DEF RoomOf
  <2> QED BY <2>4, <2>5, <2>6, <2>7, CountsOfOne
<1> QED
  BY <1>2, <1>3, <1>4, <1>5, <1>6, <1>7

LEMMA CountsNext ==
  ASSUME NoneIsNone, NamesInv, CountsInv, [NamesNext]_namesVars
  PROVE  CountsInv'
<1>1. NamesTypes
  BY DEF NamesInv, RowsInv
<1>2. CASE UNCHANGED <<site, work>>
  BY <1>2 DEF CountsInv, RoomOf, Idle
<1>3. CASE (\E w \in late : LateWrite(w)) \/ (\E h \in Hostnames : EndHold(h))
           \/ UNCHANGED namesVars
  BY <1>2, <1>3 DEF LateWrite, EndHold, namesVars, rows
<1>4. ASSUME NEW s \in Sites,
             \/ \E h \in Hostnames : CreateSite(s, h) \/ CommitRename(s, h)
             \/ CommitRoute(s) \/ MarkSynced(s) \/ BeginDelete(s) \/ CommitDelete(s)
             \/ Restore(s)
      PROVE  CountsInv'
  BY <1>4, CommitsKeepCounts
<1>5. ASSUME NEW s \in Sites,
             \/ PublishRoute(s) \/ Stop(s) \/ Reconcile(s) \/ Repair(s) \/ RepairFails(s)
             \/ ClearRetired(s) \/ ClearRetiredFails(s) \/ ReleaseSlug(s)
             \/ ReleaseSlugFails(s) \/ ClearBeforeDelete(s) \/ ClearInactive(s)
             \/ DeleteRefused(s) \/ PublishDeleted(s) \/ PublishDeletedFails(s)
             \/ Withdraw(s) \/ RestoreFails(s) \/ Republish(s) \/ Settle(s)
      PROVE  CountsInv'
  <2>1. UNCHANGED site
    BY <1>5 DEF PublishRoute, Stop, Reconcile, Repair, RepairFails, ClearRetired,
                ClearRetiredFails, ReleaseSlug, ReleaseSlugFails, ClearBeforeDelete,
                ClearInactive, DeleteRefused, PublishDeleted, PublishDeletedFails, Withdraw,
                RestoreFails, Republish, Settle, rows
  <2> QED BY <1>1, <1>5, <2>1, OthersKeepCounts
<1> QED
  BY <1>3, <1>4, <1>5 DEF NamesNext, Lifecycle, Synchronise, Delete

\* Sites, hostnames and claims keep their types; no site is synchronised ahead
\* of its name, and a deletion that takes itself back commits the site twice at
\* most (site-lifecycle.js, site-metadata.js).
THEOREM NamesTypeCorrect == ASSUME NoneIsNone PROVE NamesSpec => []NamesTypeOK
<1>1. ASSUME NamesInv, CountsInv PROVE NamesTypeOK
  <2>1. ASSUME NEW s \in Sites
        PROVE  /\ site[s].state \in {"none", "live", "deleted"}
               /\ site[s].gen \in 0..(MaxGeneration + 1) /\ site[s].synced <= site[s].rev
               /\ site[s].state # "none" => site[s].host \in Hostnames
    <3>1. site[s] \in SiteRows /\ (site[s].state # "none" => site[s].host \in Hostnames)
      BY <1>1 DEF NamesInv, RowsInv, NamesTypes
    <3>2. site[s].gen \in 0..(MaxGeneration + 1) /\ site[s].synced <= site[s].rev
      BY <1>1, <3>1, NamesAssumption DEF CountsInv, SiteRows
    <3> QED BY <3>1, <3>2 DEF SiteRows
  <2>2. ASSUME NEW h \in Hostnames
        PROVE  \/ claim[h] = Claim(None, "free")
               \/ claim[h].owner \in Sites
                  /\ claim[h].status \in {"active", "pending", "held", "free"}
    <3>1. claim[h] \in Claims /\ (claim[h].status # "free" => claim[h].owner \in Sites)
      BY <1>1 DEF NamesInv, RowsInv, NamesTypes
    <3> QED BY <3>1 DEF Claims, Claim
  <2> QED BY <2>1, <2>2 DEF NamesTypeOK
<1>2. ASSUME NamesInit PROVE CountsInv
  BY <1>2, NamesAssumption DEF NamesInit, CountsInv, RoomOf, Idle
<1> QED
  BY <1>1, <1>2, NamesInitInv, NamesNextInv, CountsNext, PTL DEF NamesSpec
=============================================================================
